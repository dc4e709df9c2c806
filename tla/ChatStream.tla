----------------------------- MODULE ChatStream -----------------------------
(***************************************************************************)
(* A chat completion (services/protocol/openai_v1_chat_complete.py)          *)
(* from the upstream's deltas to the chunks the client gets.  Texts without *)
(* tools are passed on; answers that may hold tool calls are collected and  *)
(* parsed, but CatPaw's, which pass a sieve that holds back what may be a   *)
(* tool call; Gemini's with an image and image outputs come from a thread.  *)
(***************************************************************************)
EXTENDS ToolCalls

CONSTANTS MaxText,  \* bound of the length of an answer
          MaxPings  \* bound of the keepalives that are sent

VARIABLES route,     \* the generator that handle chose
          asks,      \* a stream, a stream with usage, or the whole answer
          text,      \* what the upstream said so far
          upstream,  \* closed, open, over
          items,     \* queue from the thread to the generator
          cpc,       \* the generator: idle, reads, parses, retries, over, raised
          streamed,  \* CatPaw: text that passed the sieve
          out        \* chunks

streamVars == <<route, asks, text, upstream, items, cpc, streamed, out>>

Collected == {"tools", "gemini_tools", "raw_tools"}
Threaded  == {"gemini_image", "image"}
Direct    == {"text", "grok", "gemini"}
Routes    == Collected \cup Threaded \cup Direct \cup {"catpaw_tools"}

Chunk(kind, value) == [kind |-> kind, value |-> value]
Content(t) == Chunk("content", t)
Ping == Chunk("ping", <<>>)
UsageChunk == IF asks = "usage" THEN <<Chunk("usage", <<>>)>> ELSE <<>>
Ending(reason) == <<Chunk(reason, <<>>)>> \o UsageChunk
SentRole == out # <<>>

\* The role comes with the first chunk, and a call in a chunk of its own.
CallChunks(calls) ==
    (IF SentRole THEN <<>> ELSE <<Chunk("role", <<>>)>>)
        \o [i \in DOMAIN calls |-> Chunk("call", <<i, calls[i]>>)]
        \o <<Chunk("tool_calls", <<>>)>>

\* What an upstream may say next: reasoning from Grok; progress and messages, and
\* pictures, of image generations; calls where they are looked for.
Says(r, t) ==
    IF r = "image" THEN {"word", "picture"}
    ELSE IF r = "grok" THEN {"word", "think"}
    ELSE IF r \in {"text", "gemini", "gemini_image"} THEN {"word"}
    ELSE Following(t)

StreamInit ==
    /\ route = "none" /\ asks = "stream"
    /\ text = <<>> /\ upstream = "closed"
    /\ items = <<>>
    /\ cpc = "idle"
    /\ streamed = <<>>
    /\ out = <<>>

Over(what) == upstream' = "over" /\ cpc' = what

\* Gemini's role comes before its answer; what comes from a thread begins with a
\* notice.  Whole answers are collected, CatPaw's too.
OpenRoute(r, a) ==
    /\ cpc = "idle"
    /\ a = "whole" => r \in Collected
    /\ route' = r /\ asks' = a
    /\ upstream' = "open"
    /\ cpc' = "reads"
    /\ out' = IF r = "gemini" THEN <<Content(<<>>)>>
              ELSE IF r \in Threaded THEN <<Chunk("notice", <<>>)>> ELSE <<>>
    /\ UNCHANGED <<text, items, streamed>>

Reading == cpc = "reads" /\ upstream = "open"

\* A delta that is passed on as it comes.
PassOn(a) ==
    /\ Reading /\ route \in Direct
    /\ a \in Says(route, text) /\ Len(text) < MaxText
    /\ text' = Append(text, a)
    /\ out' = Append(out, IF a = "think" THEN Chunk("reasoning", <<a>>) ELSE Content(<<a>>))
    /\ UNCHANGED <<route, asks, upstream, items, cpc, streamed>>

\* A delta of an answer that is collected first.
Collect(a) ==
    /\ Reading /\ route \in Collected
    /\ a \in Says(route, text) /\ Len(text) < MaxText
    /\ text' = Append(text, a)
    /\ UNCHANGED <<route, asks, upstream, items, cpc, streamed, out>>

\* A delta from CatPaw: what the sieve lets through of all that came.
Sieve(a) ==
    /\ Reading /\ route = "catpaw_tools"
    /\ a \in Says(route, text) /\ Len(text) < MaxText
    /\ text' = Append(text, a)
    /\ LET visible == Streamable(text')
       IN  IF IsPrefix(streamed, visible) /\ Len(visible) > Len(streamed)
           THEN /\ out' = Append(out, Content(SubSeq(visible, Len(streamed) + 1, Len(visible))))
                /\ streamed' = visible
           ELSE UNCHANGED <<out, streamed>>
    /\ UNCHANGED <<route, asks, upstream, items, cpc>>

\* A delta in the thread of Gemini or of an image generation.
Produce(a) ==
    /\ upstream = "open" /\ route \in Threaded
    /\ a \in Says(route, text) /\ Len(text) < MaxText
    /\ text' = Append(text, a)
    /\ items' = Append(items, a)
    /\ UNCHANGED <<route, asks, upstream, cpc, streamed, out>>

\* The upstream has said everything; Grok's final event ends the loop too.  What
\* was passed on is finished, what was collected or sieved is parsed.
EndOfStream ==
    /\ Reading /\ route \notin Threaded
    /\ IF route \in Direct
       THEN /\ Over("over")
            /\ out' = out \o (IF SentRole THEN <<>> ELSE <<Content(<<>>)>>) \o Ending("stop")
       ELSE Over("parses") /\ UNCHANGED out
    /\ UNCHANGED <<route, asks, text, items, streamed>>

\* The upstream fails.  What is collected fails before the stream is open.
UpstreamFails ==
    /\ Reading /\ route \notin Threaded
    /\ Over("raised")
    /\ UNCHANGED <<route, asks, text, items, streamed, out>>

ProducerEnds(how) ==
    /\ upstream = "open" /\ route \in Threaded
    /\ upstream' = "over"
    /\ items' = items \o how
    /\ UNCHANGED <<route, asks, text, cpc, streamed, out>>

\* The generator takes the next item of the thread's queue; no usage is counted
\* for images.
TakeItem ==
    /\ cpc = "reads" /\ route \in Threaded /\ items # <<>>
    /\ items' = Tail(items)
    /\ \/ /\ Head(items) = "None"
          /\ cpc' = "over"
          /\ out' = out \o (IF route = "image" THEN <<Chunk("stop", <<>>)>> ELSE Ending("stop"))
       \/ Head(items) = "error" /\ cpc' = "raised" /\ UNCHANGED out
       \/ /\ Head(items) \notin {"None", "error"}
          /\ out' = Append(out, Content(<<Head(items)>>))
          /\ UNCHANGED cpc
    /\ UNCHANGED <<route, asks, text, upstream, streamed>>

\* It waits five seconds for it and sends a keepalive.
KeepAlive ==
    /\ cpc = "reads" /\ route \in Threaded /\ items = <<>>
    /\ Cardinality({i \in DOMAIN out : out[i] = Ping}) < MaxPings
    /\ out' = Append(out, Ping)
    /\ UNCHANGED <<route, asks, text, upstream, items, cpc, streamed>>

\* A collected answer: the calls of JoyCode, CodeBuddy and Qoder come apart from
\* their text; when they have none, the text is parsed, in a stream without the
\* tools of the request to check what is found.
ParsedBy(choice) ==
    IF route = "raw_tools" /\ asks # "whole" THEN ParseAnyCalls(text)
    ELSE IF route = "gemini_tools" THEN ParseGeminiCalls(text, choice)
    ELSE ParseToolCallsForTools(text)

SendCollected(choice, raw) ==
    /\ cpc = "parses" /\ route \in Collected /\ asks # "whole"
    /\ raw # <<>> => route = "raw_tools"
    /\ out' = IF raw # <<>> THEN CallChunks(raw)
              ELSE IF ParsedBy(choice) # <<>> THEN CallChunks(ParsedBy(choice)) \o UsageChunk
              ELSE <<Content(Plain(text))>> \o Ending("stop")
    /\ cpc' = "over"
    /\ UNCHANGED <<route, asks, text, upstream, items, streamed>>

\* The whole answer, here one chunk for every part of its message: calls of the
\* upstream with the text, parsed calls without it, or the text as it came.
SendWhole(choice, raw) ==
    /\ cpc = "parses" /\ asks = "whole"
    /\ raw # <<>> => route = "raw_tools"
    /\ LET calls == IF raw # <<>> THEN raw ELSE ParsedBy(choice)
       IN  out' = (IF calls = <<>> \/ raw # <<>> THEN <<Content(text)>> ELSE <<>>)
                     \o (IF calls = <<>> THEN <<Chunk("stop", <<>>)>> ELSE Tail(CallChunks(calls)))
    /\ cpc' = "over"
    /\ UNCHANGED <<route, asks, text, upstream, items, streamed>>

\* What CatPaw's answer ends with when no call is found: the text without tags,
\* or all of it when nothing else is left, but for what was told already - if the
\* text begins with that; it may not, its white space having been stripped.
LeftToTell ==
    LET plain == IF Trimmed(Plain(text)) = <<>> THEN text ELSE Plain(text)
    IN  IF IsPrefix(streamed, plain) THEN SubSeq(plain, Len(streamed) + 1, Len(plain)) ELSE plain

\* Mutant: what the sieve held back is not told when it was no call.
TellNothing == out \o (IF SentRole THEN <<>> ELSE <<Content(<<>>)>>) \o Ending("stop")

TellRest ==
    out \o (IF LeftToTell # <<>> \/ ~SentRole THEN <<Content(LeftToTell)>> ELSE <<>>) \o Ending("stop")

SendSieved ==
    /\ cpc = "parses" /\ route = "catpaw_tools"
    /\ IF ParseToolCallsForTools(text) # <<>>
       THEN cpc' = "over" /\ out' = out \o CallChunks(ParseToolCallsForTools(text)) \o UsageChunk
       ELSE cpc' = "retries" /\ UNCHANGED out
    /\ UNCHANGED <<route, asks, text, upstream, items, streamed>>

\* An answer that announces work without a call is asked for once more; the calls
\* of the second answer are sent, without the usage.
RetrySieved(calls) ==
    /\ cpc = "retries"
    /\ cpc' = "over"
    /\ out' = IF calls # <<>> THEN out \o CallChunks(calls) ELSE TellRest
    /\ UNCHANGED <<route, asks, text, upstream, items, streamed>>

RetryFails ==
    /\ cpc = "retries"
    /\ cpc' = "raised"
    /\ UNCHANGED <<route, asks, text, upstream, items, streamed, out>>

Atoms == Bodies \cup Tails
            \cup {"word", "space", "think", "half", "mark", "json", "picture"}

StreamNext ==
    \/ \E r \in Routes, a \in {"stream", "usage", "whole"} : OpenRoute(r, a)
    \/ \E a \in Atoms : PassOn(a) \/ Collect(a) \/ Sieve(a) \/ Produce(a)
    \/ EndOfStream \/ UpstreamFails
    \/ \E how \in {<<"None">>, <<"error", "None">>} : ProducerEnds(how)
    \/ TakeItem \/ KeepAlive
    \/ \E choice \in {"auto", "none"}, raw \in {<<>>, <<"fits">>, <<"unknown", "fits">>} :
          SendCollected(choice, raw) \/ SendWhole(choice, raw)
    \/ SendSieved \/ RetryFails
    \/ \E calls \in {<<>>, <<"fits">>} : RetrySieved(calls)

StreamSpec == StreamInit /\ [][StreamNext]_streamVars

-----------------------------------------------------------------------------
\* The text that chunks tell.
ToldText(chunks) ==
    FlattenSeq([i \in DOMAIN chunks |-> IF chunks[i].kind = "content" THEN chunks[i].value ELSE <<>>])

HasCalls(chunks) == \E i \in DOMAIN chunks : chunks[i].kind = "call"

\* CatPaw's sieve: until the answer is over no opening tag is told, and nothing
\* but the beginning of the answer; when it is over all text outside the tags has
\* been told, or the text before the first tag and the calls.
SieveTellsAll ==
    route = "catpaw_tools"
        => /\ cpc # "over" => /\ IsPrefix(ToldText(out), text)
                              /\ Opens(ToldText(out)) = {}
           /\ cpc = "over" => IF HasCalls(out)
                              THEN ToldText(out) = Streamable(text)
                              ELSE IsSuffix(Plain(text), ToldText(out))
=============================================================================
