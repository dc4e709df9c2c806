--------------------------- MODULE ResponseStream ---------------------------
(***************************************************************************)
(* The Responses API (services/protocol/openai_v1_response.py): the answer  *)
(* of a text model, or the outputs of an image generation, become events    *)
(* about numbered output items, or one response that is collected from them.*)
(***************************************************************************)
EXTENDS ToolCalls

CONSTANT MaxOutputs \* bound of the outputs of an image generation

VARIABLES source,   \* what the request asks: none, text, tools, images
          streams,  \* the client asked for a stream
          rpc,      \* asks, over, raised
          outputs,  \* what the image generation gave out so far
          told,     \* the events of the response
          collected \* the items of the response of a request without a stream

responseVars == <<source, streams, rpc, outputs, told, collected>>

OutputItem(kind, value) == [kind |-> kind, value |-> value]
NoItem == OutputItem("none", <<>>)
About(type, index, item) == [type |-> type, index |-> index, item |-> item]
Completed(output) == [type |-> "completed", index |-> Len(output), item |-> NoItem, output |-> output]

ResponseInit ==
    /\ source = "none" /\ streams = FALSE
    /\ rpc = "asks"
    /\ outputs = <<>>
    /\ told = <<>>
    /\ collected = <<>>

\* An app chat model of Grok, or no input, is refused before the first event.
Respond(s) ==
    /\ rpc = "asks" /\ source = "none"
    /\ source' = s /\ streams' \in BOOLEAN
    /\ told' = <<About("created", -1, NoItem)>>
    /\ UNCHANGED <<rpc, outputs, collected>>

Refuse ==
    /\ rpc = "asks" /\ source = "none"
    /\ rpc' = "raised"
    /\ UNCHANGED <<source, streams, outputs, told, collected>>

\* response_output_from_text: an item for every call, or one with the text, as it
\* came.
OutputFromText(t) ==
    LET calls == IF source = "tools" THEN ParseToolCallsForTools(t) ELSE <<>>
    IN  IF calls # <<>> THEN [i \in DOMAIN calls |-> OutputItem("function_call", <<calls[i]>>)]
        ELSE <<OutputItem("message", t)>>

\* Mutant: an item is reported as done only if it is a message.
ItemEventsUnfinished(item, n) ==
    <<About("added", n, item)>>
        \o (IF item.kind = "message" THEN <<About("delta", n, item), About("done", n, item)>> ELSE <<>>)

\* stream_response_output_items; blank text has no delta.
ItemEvents(item, n) ==
    LET types == IF item.kind = "message" /\ item.value = <<>>
                 THEN <<"added", "value_done", "done">>
                 ELSE <<"added", "delta", "value_done", "done">>
    IN  [i \in DOMAIN types |-> About(types[i], n, item)]

OutputItems(output) ==
    FlattenSeq([i \in DOMAIN output |-> ItemEvents(output[i], i - 1)])

\* The events of the items and the completion; collect_response takes the response
\* of the last completed event, or raises an error.
End(events, output) ==
    /\ told' = told \o events \o <<Completed(output)>>
    /\ rpc' = "over"
    /\ collected' = IF streams THEN <<>> ELSE output

AnswerText(t) ==
    /\ rpc = "asks" /\ source \in {"text", "tools"}
    /\ End(OutputItems(OutputFromText(t)), OutputFromText(t))
    /\ UNCHANGED <<source, streams, outputs>>

\* The outputs of an image generation: progress and results without an image are
\* passed over; the first image or message ends the response, a message without
\* having been added.
OutputImage(kind) ==
    /\ rpc = "asks" /\ source = "images" /\ Len(outputs) < MaxOutputs
    /\ outputs' = Append(outputs, kind)
    /\ \/ /\ kind = "message"
          /\ LET item == OutputItem("message", <<"word">>)
             IN  End(<<About("delta", 0, item), About("value_done", 0, item),
                       About("done", 0, item)>>, <<item>>)
       \/ /\ kind = "image"
          /\ LET item == OutputItem("image", <<"picture">>)
             IN  End(<<About("done", 0, item)>>, <<item>>)
       \/ kind \notin {"message", "image"} /\ UNCHANGED <<rpc, told, collected>>
    /\ UNCHANGED <<source, streams>>

\* The outputs are over, or the upstream fails.
ResponseFails ==
    /\ rpc = "asks" /\ source # "none"
    /\ rpc' = "raised"
    /\ UNCHANGED <<source, streams, outputs, told, collected>>

Answers ==
    {t \in UNION {[1 .. n -> {"word", "half", "mark", "fits", "misfits"}] : n \in {0, 1, 3, 6}} :
        /\ \A i \in DOMAIN t : t[i] \in {"fits", "misfits"} <=> i > 1 /\ t[i - 1] = "mark"
        /\ \A i \in DOMAIN t : t[i] = "mark" <=> i > 1 /\ t[i - 1] = "half"}

ResponseNext ==
    \/ \E s \in {"text", "tools", "images"} : Respond(s)
    \/ Refuse \/ ResponseFails
    \/ \E t \in Answers : AnswerText(t)
    \/ \E kind \in {"progress", "empty", "message", "image"} : OutputImage(kind)

ResponseSpec == ResponseInit /\ [][ResponseNext]_responseVars

-----------------------------------------------------------------------------
\* A response that is over tells each of its items once at its index, the value
\* before the end, and then its completion with all of them; one that failed
\* tells none; a client without a stream gets the same items.
CompletedTellsAll ==
    LET ends == {i \in DOMAIN told : told[i].type = "completed"}
        Dones(n) == {i \in DOMAIN told : told[i].type = "done" /\ told[i].index = n}
    IN  /\ rpc # "over" => ends = {} /\ collected = <<>>
        /\ rpc = "over" =>
             /\ ends = {Len(told)}
             /\ LET output == told[Len(told)].output
                IN  /\ output # <<>>
                    /\ ~streams => collected = output
                    /\ \A n \in DOMAIN output :
                          /\ Cardinality(Dones(n - 1)) = 1
                          /\ \A i \in DOMAIN told : told[i].index = n - 1 /\ told[i].type # "completed"
                                => told[i].item = output[n] /\ i <= Max(Dones(n - 1))
=============================================================================
