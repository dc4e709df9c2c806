------------------------------ MODULE CallLog -------------------------------
(***************************************************************************)
(* The calls of the API and their log (services/log_service.py, api/ai.py,  *)
(* api/gemini.py, utils/helper.py, services/content_filter.py): a call is   *)
(* filtered, handled, and answered at once or by a stream, and leaves one   *)
(* line with its verdict in a file that administrators prune by reading and *)
(* rewriting it.  Some routes run their handler outside LoggedCall.run: of  *)
(* their calls only a refusal by the filter leaves a line.  A call begins   *)
(* where its LoggedCall is made: what is refused before, for its key or     *)
(* its body, is none.                                                       *)
(***************************************************************************)
EXTENDS Naturals, Sequences

CONSTANTS LoggedCalls, \* calls
          MaxFrames,   \* bound of the items of a stream
          MaxUnwritten \* bound of the writes that fail

VARIABLES lines,     \* the lines written so far, newest last
          inFile,    \* the numbers of those that the file holds
          pruning,   \* the lines a deletion has read and will write back
          call,      \* where each call is and what its client has been told
          erased,    \* calls whose line an administrator deleted
          missed,    \* calls whose line was not written, or was lost since
          unwritten, \* how many writes failed
          cutOff     \* whether the file ends in the beginning of a line

logVars == <<lines, inFile, pruning, call, erased, missed, unwritten, cutOff>>

Line(c, verdict) == [call |-> c, verdict |-> verdict]
NotPruning == [on |-> FALSE, kept |-> {}]
CallsIn(numbers) == {lines[i].call : i \in numbers}

LogInit ==
    /\ lines = <<>> /\ inFile = {} /\ pruning = NotPruning
    /\ call = [c \in LoggedCalls |-> [at |-> "new", sender |-> "openai", told |-> <<>>]]
    /\ erased = {} /\ missed = {} /\ unwritten = 0 /\ cutOff = FALSE

CallAt(c, where) == call[c].at = where
Told(c) == {call[c].told[i] : i \in DOMAIN call[c].told}
ToldError(c) == "error" \in Told(c)

CallGoes(c, where, frames) ==
    call' = [call EXCEPT ![c] = [at |-> where, sender |-> @.sender, told |-> @.told \o frames]]
Unlogged == UNCHANGED <<lines, inFile, pruning, erased, missed, unwritten, cutOff>>

\* The senders of LoggedCall.run, and the routes that answer without it: streams
\* of images; image edits, submissions of image tasks (whose threads log their own
\* outcome) and interactions, answered at once; and the native streams of Gemini.
Logging == {"openai", "anthropic"}
Silent  == {"keepalive", "at_once", "native"}

\* LoggedCall.log appends a line and the client is told frames, or the write
\* raises and it is told otherwise; a write that raises may leave a line begun,
\* which makes the next one unreadable.
Logs(c, verdict, frames, otherwise) ==
    \/ /\ ~cutOff
       /\ lines' = Append(lines, Line(c, verdict))
       /\ inFile' = inFile \cup {Len(lines')}
       /\ CallGoes(c, "over", frames)
       /\ UNCHANGED <<pruning, erased, missed, unwritten, cutOff>>
    \/ /\ missed' = missed \cup {c}
       /\ \/ /\ cutOff /\ cutOff' = FALSE
             /\ CallGoes(c, "over", frames)
             /\ unwritten' = unwritten
          \/ /\ unwritten < MaxUnwritten /\ unwritten' = unwritten + 1
             /\ cutOff' \in {cutOff, TRUE}
             /\ CallGoes(c, "over", otherwise)
       /\ UNCHANGED <<lines, inFile, pruning, erased>>

\* check_request: sensitive words, and the answer of a review that may be off,
\* incomplete, or open to what it cannot decide.
Undecided == {"no_answer", "no_json", "malformed", "ambiguous"}
FilterAccepts(text, reviewed, review, answer) ==
    \/ text = "blank"
    \/ /\ text # "sensitive"
       /\ \/ ~reviewed \/ review = "off"
          \/ /\ review # "incomplete"
             /\ answer = "allow" \/ (answer \in Undecided /\ review = "fails_open")

Arrive(c, sender) ==
    /\ CallAt(c, "new")
    /\ call' = [call EXCEPT ![c] = [at |-> "filters", sender |-> sender, told |-> <<>>]]
    /\ Unlogged

\* filter_or_log.
Filter(c, text, reviewed, review, answer) ==
    /\ CallAt(c, "filters")
    /\ IF FilterAccepts(text, reviewed, review, answer) THEN CallGoes(c, "handles", <<>>) /\ Unlogged
       ELSE Logs(c, "failed", <<"error">>, <<"error">>)

\* The frames that end a stream.
Closing(c) == IF call[c].sender = "anthropic" THEN <<>> ELSE <<"done">>

\* LoggedCall.run, when the handler or the first item of its stream fails.
HandlerFails(c) ==
    /\ CallAt(c, "handles") \/ CallAt(c, "starts")
    /\ call[c].sender \in Logging
    /\ Logs(c, "failed", <<"error">>, <<"error">>)

CallReturns(c) ==
    /\ CallAt(c, "handles") /\ call[c].sender \in Logging
    /\ \/ Logs(c, "success", <<"answer">>, <<"error">>)
       \/ CallGoes(c, "starts", <<>>) /\ Unlogged

TakeFirst(c) ==
    /\ CallAt(c, "starts")
    /\ \/ CallGoes(c, "opens", <<>>) /\ Unlogged
       \/ Logs(c, "success", Closing(c), <<"error">>)

\* LoggedCall.stream inside sse_json_stream or anthropic_sse_stream.
SendItem(c) ==
    /\ CallAt(c, "opens") \/ CallAt(c, "streams")
    /\ Len(call[c].told) < MaxFrames
    /\ CallGoes(c, "streams", <<"item">>)
    /\ Unlogged

\* Mutant: a stream that failed is logged again as it is closed.
StreamFailsTwice(c) ==
    /\ CallAt(c, "streams")
    /\ lines' = lines \o <<Line(c, "failed"), Line(c, "success")>>
    /\ inFile' = inFile \cup {Len(lines) + 1, Len(lines) + 2}
    /\ CallGoes(c, "over", <<"error">> \o Closing(c))
    /\ UNCHANGED <<pruning, erased, missed, unwritten, cutOff>>

StreamFails(c) ==
    /\ CallAt(c, "streams")
    /\ Logs(c, "failed", <<"error">> \o Closing(c), <<"error">> \o Closing(c))

StreamEnds(c) ==
    /\ CallAt(c, "streams")
    /\ Logs(c, "success", Closing(c), <<"error">> \o Closing(c))

\* The client leaves: a stream that has begun is closed and counts as a success,
\* one that has not leaves no line.
ClientLeaves(c) ==
    \/ /\ CallAt(c, "streams") /\ Logs(c, "success", <<"gone">>, <<"gone">>)
    \/ /\ CallAt(c, "opens") /\ CallGoes(c, "over", <<"gone">>) /\ Unlogged

\* Outside LoggedCall.run: _sse_image_keepalive sends progress while a thread
\* works, the native streams send their chunks or steps.
SendUnlogged(c) ==
    /\ CallAt(c, "handles") /\ call[c].sender \in {"keepalive", "native"}
    /\ Len(call[c].told) < MaxFrames
    /\ CallGoes(c, "handles", <<"item">>)
    /\ Unlogged

\* The end of such a call, of which no line is written: the answer or the error
\* of the handler, at once or as the last frames of a stream; a native stream that
\* the exception of its handler breaks off; an error before the stream begins; a
\* client that leaves.
EndUnlogged(c) ==
    /\ CallAt(c, "handles") /\ call[c].sender \in Silent
    /\ \/ /\ call[c].told = <<>> /\ CallGoes(c, "quiet", <<"error">>)
       \/ /\ call[c].sender = "at_once" /\ CallGoes(c, "quiet", <<"answer">>)
       \/ /\ call[c].sender # "at_once"
          /\ \/ \E last \in {"answer", "error"} : CallGoes(c, "quiet", <<last, "done">>)
             \/ CallGoes(c, "quiet", <<"gone">>)
       \/ /\ call[c].sender = "native" /\ CallGoes(c, "quiet", <<"broken">>)
    /\ Unlogged

\* LogService.delete, in two steps: what is added in between is overwritten.
ReadLines ==
    /\ ~pruning.on
    /\ \E ids \in SUBSET CallsIn(inFile) \ {{}} :
          /\ pruning' = [on |-> TRUE, kept |-> {i \in inFile : lines[i].call \notin ids}]
          /\ erased' = erased \cup ids
    /\ UNCHANGED <<lines, inFile, call, missed, unwritten, cutOff>>

FileKeeps(numbers) ==
    /\ inFile' = numbers
    /\ missed' = missed \cup (CallsIn(inFile) \ (CallsIn(numbers) \cup erased))

\* The file is rewritten in place: a write that raises leaves it as it was, or
\* only the first of the lines.
RewriteLines ==
    /\ pruning.on /\ pruning' = NotPruning
    /\ \/ FileKeeps(pruning.kept) /\ cutOff' = FALSE /\ unwritten' = unwritten
       \/ /\ unwritten < MaxUnwritten /\ unwritten' = unwritten + 1
          /\ \/ FileKeeps(inFile) /\ cutOff' = cutOff
             \/ /\ \E n \in 0..Len(lines) : FileKeeps({i \in pruning.kept : i <= n})
                /\ cutOff' \in BOOLEAN
    /\ UNCHANGED <<lines, call, erased>>

LogNext ==
    \/ ReadLines \/ RewriteLines
    \/ \E c \in LoggedCalls :
          \/ \E sender \in Logging \cup Silent : Arrive(c, sender)
          \/ \E text \in {"blank", "sensitive", "plain"}, reviewed \in BOOLEAN,
                review \in {"off", "incomplete", "fails_open", "fails_shut"},
                answer \in Undecided \cup {"allow", "reject"} :
                   Filter(c, text, reviewed, review, answer)
          \/ HandlerFails(c) \/ CallReturns(c) \/ TakeFirst(c)
          \/ SendItem(c) \/ StreamFails(c) \/ StreamEnds(c) \/ ClientLeaves(c)
          \/ SendUnlogged(c) \/ EndUnlogged(c)

LogSpec == LogInit /\ [][LogNext]_logVars

-----------------------------------------------------------------------------
\* The log tells at most once of a call, and of what its client was told: a call
\* that ended in an error is logged as failed and never as a success, and only a
\* call that ended in one is, however it failed and whatever is deleted meanwhile.
\* No error is told without a line, but by a route that runs its handler outside
\* LoggedCall.run (streams of images, image edits, submissions of image tasks,
\* interactions, the native streams of Gemini), whose refusals by the filter are logged as all are,
\* and but for a line that could not be written or was lost with the file since.
VerdictsTrue ==
    /\ \A i, j \in inFile : lines[i].call = lines[j].call => i = j
    /\ \A i \in inFile : (lines[i].verdict = "failed") = ToldError(lines[i].call)
    /\ \A c \in LoggedCalls :
          ToldError(c) /\ ~CallAt(c, "quiet")
             => c \in CallsIn(inFile) \cup erased \cup missed
=============================================================================
