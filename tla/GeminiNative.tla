---------------------------- MODULE GeminiNative ----------------------------
(***************************************************************************)
(* The Gemini native API (services/protocol/gemini_native.py) and its two   *)
(* routes in api/gemini.py: an answer of the model is turned into parts, in *)
(* one response or in a stream of chunks that is cut from it.               *)
(***************************************************************************)
EXTENDS Naturals, Sequences, SequencesExt

CONSTANTS Names,      \* function names
          MaxWords,   \* bound of the length of an answer
          ChunkSize   \* words of a chunk (120 characters in the code)

VARIABLES declared,  \* names of the request's function declarations
          mode,      \* its toolConfig: the mode and
          allowed,   \* the allowed names; none: all
          answer,    \* what the model answered: a text, and the calls read from it
          npc,       \* what the request does
          first,     \* the event the route took to start the stream
          queue,     \* the events the open generator has not given out yet
          sentEvents \* the events the client got

nativeVars == <<declared, mode, allowed, answer, npc, first, queue, sentEvents>>

NoEvent == [parts |-> <<>>, finish |-> "none"]
NoAnswer == [words |-> <<>>, calls |-> <<>>]

\* A mode that is not known is AUTO.
ToolMode == IF mode \in {"AUTO", "ANY", "NONE"} THEN mode ELSE "AUTO"

Available == {n \in declared : allowed = {} \/ n \in allowed}

\* parse_native_tool_response: the calls of functions that may be called.
ParsedCalls ==
    IF ToolMode = "NONE" THEN <<>>
    ELSE SelectSeq(answer.calls, LAMBDA n : n \in Available)

TextPart(words) == [key |-> "text", value |-> words]
FunctionCallPart(n) == [key |-> "functionCall", value |-> <<n>>]
GeminiResponse(parts, finish) == [parts |-> parts, finish |-> finish]

\* generate_content: the calls, or the text.
GenerateContent ==
    IF ParsedCalls # <<>>
    THEN GeminiResponse([i \in DOMAIN ParsedCalls |-> FunctionCallPart(ParsedCalls[i])], "STOP")
    ELSE GeminiResponse(<<TextPart(answer.words)>>, "STOP")

\* synthetic_stream_content.
Chunks(words) ==
    [i \in 1 .. (Len(words) + ChunkSize - 1) \div ChunkSize |->
        SubSeq(words, (i - 1) * ChunkSize + 1,
               IF i * ChunkSize < Len(words) THEN i * ChunkSize ELSE Len(words))]

TextOf(parts) ==
    FlattenSeq([i \in DOMAIN parts |-> IF parts[i].key = "text" THEN parts[i].value ELSE <<>>])

\* stream_generate_content: a response whose first part has a "function_call"
\* is passed on; the text of any other is cut into chunks.
StreamGenerateContent(response) ==
    IF response.parts # <<>> /\ response.parts[1].key = "function_call" THEN <<response>>
    ELSE LET chunks == Chunks(TextOf(response.parts))
         IN  [i \in DOMAIN chunks |-> GeminiResponse(<<TextPart(chunks[i])>>, "none")]
                \o <<GeminiResponse(<<>>, "STOP")>>

NativeInit ==
    /\ declared \in SUBSET Names /\ allowed \in SUBSET declared
    /\ mode \in {"AUTO", "ANY", "NONE", "other"}
    /\ answer = NoAnswer
    /\ npc = "ask"
    /\ first = NoEvent
    /\ queue = <<>> /\ sentEvents = <<>>

\* The model answers with a text or with calls, in a format that it made up or
\* was told.
Answer(words, calls) ==
    /\ npc = "ask"
    /\ answer' = [words |-> words, calls |-> calls]
    /\ npc' = "answered"
    /\ UNCHANGED <<declared, mode, allowed, first, queue, sentEvents>>

\* The route of generateContent.
Generate ==
    /\ npc = "answered"
    /\ sentEvents' = <<GenerateContent>>
    /\ npc' = "generated"
    /\ UNCHANGED <<declared, mode, allowed, answer, first, queue>>

\* The route of streamGenerateContent takes the first event, so that an error
\* is still an HTTP status,
TakeFirst ==
    /\ npc = "answered"
    /\ first' = Head(StreamGenerateContent(GenerateContent))
    /\ npc' = "opened"
    /\ UNCHANGED <<declared, mode, allowed, answer, queue, sentEvents>>

\* and opens the stream with it, which stream_generate_content takes for the
\* whole response.
OpenStream ==
    /\ npc = "opened"
    /\ queue' = StreamGenerateContent(first)
    /\ npc' = "streams"
    /\ UNCHANGED <<declared, mode, allowed, answer, first, sentEvents>>

SendNext ==
    /\ npc = "streams"
    /\ IF queue = <<>>
       THEN npc' = "streamed" /\ UNCHANGED <<queue, sentEvents>>
       ELSE /\ sentEvents' = Append(sentEvents, Head(queue))
            /\ queue' = Tail(queue)
            /\ UNCHANGED npc
    /\ UNCHANGED <<declared, mode, allowed, answer, first>>

NativeNext ==
    \/ \E n \in 0 .. MaxWords : Answer([i \in 1 .. n |-> i], <<>>)
    \/ \E n \in Names : Answer(<<1>>, <<n>>)
    \/ Generate \/ TakeFirst \/ OpenStream \/ SendNext

NativeSpec == NativeInit /\ [][NativeNext]_nativeVars

-----------------------------------------------------------------------------
\* A stream that has ended told the text that generateContent would have told:
\* README.md names streamGenerateContent as the streamed form of the same answer,
\* and test/test_gemini_native.py expects every chunk of it before the STOP.
StreamTellsText ==
    npc = "streamed"
        => FlattenSeq([i \in DOMAIN sentEvents |-> TextOf(sentEvents[i].parts)])
             = TextOf(GenerateContent.parts)
=============================================================================
