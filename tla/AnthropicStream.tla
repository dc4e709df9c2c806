-------------------------- MODULE AnthropicStream ---------------------------
(***************************************************************************)
(* Streamed Anthropic messages (services/protocol/anthropic_v1_messages.py):*)
(* the chunks of a chat completion, produced in a thread, become events with*)
(* numbered content blocks.  Qoder's answers are converted at once          *)
(* (services/protocol/qoder_anthropic.py); /v1/complete makes chunks of text *)
(* (services/protocol/openai_v1_complete.py).                               *)
(***************************************************************************)
EXTENDS ChatStream

CONSTANT MaxLag \* bound of the chunks that wait in the thread's queue

VARIABLES front,      \* the client's protocol: none, openai, complete, anthropic, qoder
          mpc,        \* the converter: idle, converts, over, raised
          taken,      \* chunks of the thread that it took
          textOpen,   \* a text block is open
          blockIndex, \* the index of the next block, or of the open text block
          toolBlocks, \* the indices of the blocks of the calls
          messageEvents      \* what the client got

messageVars == <<front, mpc, taken, textOpen, blockIndex, toolBlocks, messageEvents>>

BlockEvent(type, index, value) == [type |-> type, index |-> index, value |-> value]
MessageEvent(type, value) == BlockEvent(type, -1, value)

MessageInit ==
    /\ StreamInit
    /\ front = "none" /\ mpc = "idle"
    /\ taken = 0
    /\ textOpen = FALSE /\ blockIndex = 0 /\ toolBlocks = <<>>
    /\ messageEvents = <<>>

\* A client of the OpenAI protocol reads the chunks as they are; one of the
\* Anthropic protocol does not ask for usage.
OpenAI(A) == front \in {"none", "openai"} /\ A /\ front' = "openai"
                 /\ UNCHANGED <<mpc, taken, textOpen, blockIndex, toolBlocks, messageEvents>>
Anthropic(A) == front \in {"none", "anthropic"} /\ A /\ front' = "anthropic" /\ asks' # "usage"
                 /\ Len(out) - taken < MaxLag
                 /\ UNCHANGED <<mpc, taken, textOpen, blockIndex, toolBlocks, messageEvents>>

\* /v1/complete streams text of GPT and Gemini, and never counts usage.
Complete(A) == front \in {"none", "complete"} /\ A /\ front' = "complete"
                 /\ route' \in {"text", "gemini"} /\ asks' = "stream"
                 /\ Len(out) - taken < MaxLag
                 /\ UNCHANGED <<mpc, taken, textOpen, blockIndex, toolBlocks, messageEvents>>

\* handle: answers with tools from Grok and Gemini, JoyCode, CodeBuddy and Qoder
\* are complete before the first event.
StartMessage ==
    /\ front = "anthropic" /\ mpc = "idle" /\ asks = "stream"
    /\ route \in {"gemini_tools", "raw_tools"} => cpc \notin {"reads", "raised"}
    /\ mpc' = "converts"
    /\ messageEvents' = <<MessageEvent("message_start", <<>>)>>
    /\ UNCHANGED <<streamVars, front, taken, textOpen, blockIndex, toolBlocks>>

\* message_response_from_openai: the blocks of a whole answer.
RespondWhole ==
    /\ front = "anthropic" /\ mpc = "idle" /\ asks = "whole" /\ cpc = "over"
    /\ LET tells == {i \in DOMAIN out : out[i].kind = "call" \/ ToldText(<<out[i]>>) # <<>>}
           blocks == Selected(out, tells)
       IN  messageEvents' = IF blocks = <<>> THEN <<BlockEvent("block", 0, <<"text">>)>>
                            ELSE [i \in DOMAIN blocks |-> BlockEvent("block", i - 1, blocks[i].value)]
    /\ mpc' = "over"
    /\ UNCHANGED <<streamVars, front, taken, textOpen, blockIndex, toolBlocks>>

\* The text of a chunk's delta; notices and keepalives are text too.
TextOf(c) == IF c.kind = "content" THEN c.value
             ELSE IF c.kind \in {"notice", "ping"} THEN <<c.kind>> ELSE <<>>

\* The events with the stop of the text block that is open.
TextStopped ==
    messageEvents \o (IF textOpen THEN <<BlockEvent("stop", blockIndex, <<>>)>> ELSE <<>>)

\* Mutant: the index of a closed text block is used again.
StopTextOnly == /\ messageEvents' = TextStopped
                /\ blockIndex' = blockIndex

StopText == /\ messageEvents' = TextStopped
            /\ blockIndex' = IF textOpen THEN blockIndex + 1 ELSE blockIndex

TakeText(c) ==
    /\ messageEvents' = messageEvents
          \o (IF textOpen THEN <<>> ELSE <<BlockEvent("start", blockIndex, <<"text">>)>>)
          \o <<BlockEvent("text_delta", blockIndex, TextOf(c))>>
    /\ textOpen' = TRUE
    /\ UNCHANGED <<blockIndex, toolBlocks>>

\* The first chunk of a call closes the text and opens a block that stays open
\* until the end.
TakeCall(c) ==
    IF textOpen
    THEN StopText /\ textOpen' = FALSE /\ UNCHANGED <<toolBlocks, taken>>
    ELSE /\ messageEvents' =
               Append(messageEvents, BlockEvent("start", blockIndex, <<"tool_use">>))
         /\ toolBlocks' = Append(toolBlocks, blockIndex)
         /\ blockIndex' = blockIndex + 1
         /\ taken' = taken + 1
         /\ UNCHANGED textOpen

\* The end: the arguments of every call, and the stops.
ToolEnd(n) == <<BlockEvent("json_delta", n, <<>>), BlockEvent("stop", n, <<>>)>>
CloseMessage(reason) ==
    TextStopped
        \o FlattenSeq([i \in DOMAIN toolBlocks |-> ToolEnd(toolBlocks[i])])
        \o <<MessageEvent("message_delta", <<reason>>), MessageEvent("message_stop", <<>>)>>
StopReason(c) == IF c.kind = "tool_calls" THEN "tool_use" ELSE "end_turn"

TakeChunk ==
    /\ mpc = "converts" /\ front = "anthropic" /\ taken < Len(out)
    /\ LET c == out[taken + 1]
           says == TextOf(c) # <<>>
           ends == c.kind \in {"stop", "tool_calls"}
       IN  \/ says /\ TakeText(c) /\ taken' = taken + 1 /\ UNCHANGED mpc
           \/ ~says /\ c.kind = "call" /\ TakeCall(c) /\ UNCHANGED mpc
           \/ /\ ~says /\ ends
              /\ messageEvents' = CloseMessage(StopReason(c))
              /\ mpc' = "over" /\ taken' = taken + 1
              /\ UNCHANGED <<textOpen, blockIndex, toolBlocks>>
           \/ /\ ~says /\ ~ends /\ c.kind # "call"
              /\ taken' = taken + 1
              /\ UNCHANGED <<mpc, messageEvents, textOpen, blockIndex, toolBlocks>>
    /\ UNCHANGED <<streamVars, front>>

\* _text_completion_chunks: chunks without text are left out, but for the end.
TakeTextChunk ==
    /\ front = "complete" /\ taken < Len(out)
    /\ LET c == out[taken + 1]
       IN  messageEvents' = messageEvents
              \o (IF TextOf(c) # <<>> \/ c.kind = "stop"
                  THEN <<MessageEvent("chunk", TextOf(c))>> ELSE <<>>)
    /\ taken' = taken + 1
    /\ UNCHANGED <<streamVars, front, mpc, textOpen, blockIndex, toolBlocks>>

\* The thread's exception is raised again once all before it was taken.
RaiseAgain ==
    /\ mpc = "converts" /\ front = "anthropic"
    /\ taken = Len(out) /\ cpc = "raised"
    /\ mpc' = "raised"
    /\ UNCHANGED <<streamVars, front, taken, textOpen, blockIndex, toolBlocks, messageEvents>>

Waits == IF front = "qoder" THEN TRUE ELSE taken = Len(out) /\ cpc \notin {"over", "raised"}

PingMessage ==
    /\ mpc = "converts" /\ Waits
    /\ Cardinality({i \in DOMAIN messageEvents : messageEvents[i].type = "ping"}) < MaxPings
    /\ messageEvents' = Append(messageEvents, MessageEvent("ping", <<>>))
    /\ UNCHANGED <<streamVars, front, mpc, taken, textOpen, blockIndex, toolBlocks>>

\* Qoder: the message starts, a thread asks,
StartQoder ==
    /\ front = "none" /\ cpc = "idle"
    /\ front' = "qoder" /\ mpc' = "converts"
    /\ messageEvents' = <<MessageEvent("message_start", <<>>)>>
    /\ UNCHANGED <<streamVars, taken, textOpen, blockIndex, toolBlocks>>

\* _response_parts: text blocks, and calls that have a name; blank text goes when
\* there are calls.
ResponseParts(texts, calls) ==
    LET named == Selected(calls, {i \in DOMAIN calls : calls[i] # "nameless"})
        solid == Selected(texts, {i \in DOMAIN texts : texts[i] = "text"})
        blocks == (IF named = <<>> THEN texts ELSE solid) \o named
    IN  IF blocks = <<>> THEN <<"empty">> ELSE blocks

PartEvents(part, n) ==
    <<BlockEvent("start", n, <<IF part = "call" THEN "tool_use" ELSE "text">>)>>
        \o (IF part = "empty" THEN <<>>
            ELSE <<IF part = "call" THEN BlockEvent("json_delta", n, <<>>)
                   ELSE BlockEvent("text_delta", n, <<part>>)>>)
        \o <<BlockEvent("stop", n, <<>>)>>

\* and its answer is told in one piece.
AnswerQoder(texts, calls, reason) ==
    /\ front = "qoder" /\ mpc = "converts"
    /\ LET blocks == ResponseParts(texts, calls)
       IN  messageEvents' = messageEvents
              \o FlattenSeq([i \in DOMAIN blocks |-> PartEvents(blocks[i], i - 1)])
                         \o <<MessageEvent("message_delta", <<reason>>),
                              MessageEvent("message_stop", <<>>)>>
    /\ mpc' = "over"
    /\ UNCHANGED <<streamVars, front, taken, textOpen, blockIndex, toolBlocks>>

QoderFails ==
    /\ front = "qoder" /\ mpc = "converts"
    /\ mpc' = "raised"
    /\ UNCHANGED <<streamVars, front, taken, textOpen, blockIndex, toolBlocks, messageEvents>>

MessageNext ==
    \/ OpenAI(StreamNext) \/ Anthropic(StreamNext) \/ Complete(StreamNext)
    \/ StartMessage \/ RespondWhole \/ TakeChunk \/ TakeTextChunk \/ RaiseAgain \/ PingMessage
    \/ StartQoder \/ QoderFails
    \/ \E texts \in {<<"empty">>, <<"blank">>, <<"text", "blank">>},
          calls \in {<<>>, <<"nameless">>, <<"call", "nameless", "call">>},
          reason \in {"end_turn", "tool_use"} : AnswerQoder(texts, calls, reason)

MessageSpec == MessageInit /\ [][MessageNext]_<<streamVars, messageVars>>

-----------------------------------------------------------------------------
Places(type) == {i \in DOMAIN messageEvents : messageEvents[i].type = type}
Indices(where) == {messageEvents[i].index : i \in where}
Before(type, i) == Indices({j \in Places(type) : j < i})

\* Content blocks are numbered from 0 in the order in which they start; a delta
\* and a stop belong to a block that has started and has not stopped; a message
\* that is over has stopped all of them, tells its arguments for every call, and
\* told the text that the chunks told, and the end comes last.
BlocksPaired ==
    /\ \A i \in Places("start") : Before("start", i) = 0 .. messageEvents[i].index - 1
    /\ \A i \in Places("text_delta") \cup Places("json_delta") \cup Places("stop") :
          messageEvents[i].index \in Before("start", i) \ Before("stop", i)
    /\ \A i \in Places("message_stop") : i = Len(messageEvents)
    /\ mpc = "over"
          => /\ Indices(Places("start")) \subseteq Indices(Places("stop"))
             /\ Indices({i \in Places("start") : messageEvents[i].value = <<"tool_use">>})
                   \subseteq Indices(Places("json_delta"))
    /\ front \in {"anthropic", "complete"}
          => FlattenSeq([i \in DOMAIN messageEvents |->
                           IF messageEvents[i].type \in {"text_delta", "chunk"}
                           THEN messageEvents[i].value ELSE <<>>])
                = FlattenSeq([i \in 1 .. taken |-> TextOf(out[i])])
=============================================================================
