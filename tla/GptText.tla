------------------------------ MODULE GptText -------------------------------
(***************************************************************************)
(* A text request to ChatGPT (services/openai_backend_api.py,               *)
(* services/network/retry.py, services/providers/gpt/runtime.py): every     *)
(* call is retried, a refused one in a new session with new device ids, and *)
(* the tokens that a conversation is posted with must come from the session *)
(* that posts it.  A request that no text was told of goes on with another  *)
(* account.                                                                 *)
(***************************************************************************)
EXTENDS GptEvents

CONSTANTS TextTokens,  \* accounts
          MaxTries,    \* max_attempts of the retry policy
          MaxPasses,   \* how often the preparation begins again
          MaxSessions, \* bound of the sessions of a backend
          PastAnswers, \* what the assistant said before, a sequence of texts
          NewAnswer    \* what each account answers

VARIABLES pool,    \* accounts and their state
          at,      \* where the request is
          files,   \* the request carries images, files or a text too long to send
          using,   \* the account in use, or Anonymous
          tried,   \* accounts tried
          session, \* number of the backend's session
          tries,   \* attempts of the call, and of the post around it
          pass,    \* passes of the preparation, and the session it began in
          parts,   \* the sessions that the tokens of the request come from
          posting, \* whether the request is posting, and the session it prepared for
          reading, \* state of the conversation, history replayed, words the upstream sent
          spoken   \* what the client was told, and by which accounts

textVars == <<pool, at, files, using, tried, session, tries, pass, parts, posting, reading, spoken>>

Anonymous == "anonymous"
NoReading == [state |-> ConversationState, replayed |-> 0, sent |-> 0]
Steps == <<"init", "conduit", "prepare", "finalize">>

TextInit ==
    /\ pool = [t \in TextTokens |-> "normal"]
    /\ at = "selects" /\ files = FALSE /\ using = Anonymous /\ tried = {}
    /\ session = 0 /\ tries = [call |-> 1, post |-> 1] /\ pass = [n |-> 1, began |-> 0]
    /\ parts = {} /\ posting = [on |-> FALSE, for |-> 0]
    /\ reading = NoReading /\ spoken = [words |-> <<>>, by |-> {}]

Backend == <<session, tries, pass, parts, posting, reading>>
Request == <<pool, files, using, tried, spoken>>

\* normalize_messages and maybe_attach_long_text_messages decide, before the first
\* account is asked for, what is sent as attachments.
Attached == IF tried = {} THEN files' \in BOOLEAN ELSE UNCHANGED files

\* get_text_access_token: any account that is available and was not tried, or
\* none, for a model that needs no account.
Candidates == {t \in TextTokens \ tried : pool[t] = "normal"}
SelectText ==
    /\ at = "selects"
    /\ Attached
    /\ \/ \E t \in Candidates : using' = t /\ tried' = tried \cup {t} /\ at' = "bootstrap"
       \/ /\ Candidates = {} /\ UNCHANGED tried
          /\ IF tried = {} THEN using' = Anonymous /\ at' \in {"bootstrap", "failed"}
             ELSE at' = "failed" /\ UNCHANGED using
    /\ session' = 0 /\ tries' = [call |-> 1, post |-> 1] /\ pass' = [n |-> 1, began |-> 0]
    /\ parts' = {} /\ posting' = [on |-> FALSE, for |-> 0] /\ reading' = NoReading
    /\ UNCHANGED <<pool, spoken>>

FirstStep == IF using = Anonymous THEN "prepare" ELSE "init"

\* Mutant: the post goes on after a new session with the tokens it has.
PreparedAnyway == TRUE

\* post_conversation prepares again in a session that is not the one prepared for.
Prepared == posting.for = session

\* The preparation is done: if its session changed on the way it begins again, for
\* requests with an account.  Without one there is nowhere to upload files to.
PrepareDone ==
    IF using # Anonymous /\ pass.began # session
    THEN IF pass.n < MaxPasses
         THEN /\ at' = FirstStep /\ pass' = [n |-> pass.n + 1, began |-> session]
              /\ parts' = {} /\ UNCHANGED posting
         ELSE at' = "fails" /\ UNCHANGED <<pass, parts, posting>>
    ELSE IF using = Anonymous /\ files THEN at' = "fails" /\ UNCHANGED <<pass, parts, posting>>
    ELSE at' = "post" /\ posting' = [on |-> TRUE, for |-> session] /\ UNCHANGED <<pass, parts>>

\* _bootstrap fetched the first page; files are uploaded before the preparation,
\* again for each account (the calls of an upload count as one).
Bootstrapped == at = "bootstrap" /\ at' = IF files /\ using # Anonymous THEN "attach" ELSE FirstStep
Uploaded == at = "attach" /\ at' = FirstStep

\* A call succeeds.
StepDone ==
    /\ tries' = [call |-> 1, post |-> tries.post]
    /\ UNCHANGED <<Request, session, reading>>
    /\ \/ /\ Bootstrapped \/ Uploaded
          /\ pass' = [n |-> 1, began |-> session] /\ UNCHANGED <<parts, posting>>
       \/ \E i \in 1..3 :
             /\ at = Steps[i] /\ at' = Steps[i + 1]
             /\ parts' = parts \cup {session} /\ UNCHANGED <<pass, posting>>
       \/ at = "finalize" /\ at' = "finalized"
          /\ parts' = parts \cup {session} /\ UNCHANGED <<pass, posting>>

Finalized ==
    /\ at = "finalized"
    /\ PrepareDone
    /\ UNCHANGED <<Request, session, tries, reading>>

\* Before it is posted, the conversation is prepared for the session.
PostAgain ==
    /\ at = "post" /\ ~Prepared
    /\ at' = FirstStep /\ parts' = {} /\ pass' = [n |-> 1, began |-> session]
    /\ UNCHANGED <<Request, session, tries, posting, reading>>

Posted ==
    /\ at = "post" /\ Prepared
    /\ at' = "streams"
    /\ UNCHANGED <<Request, Backend>>

\* A call is refused as if by a robot: the next try is made in a new session, whose
\* own first page may fail, and only the first page is asked for without one.
Calling == at \in {"attach", "init", "conduit", "prepare", "finalize"} \/ (at = "post" /\ Prepared)
NewSession == session < MaxSessions /\ session' = session + 1
Outer == IF at = "post" THEN "post" ELSE "call"

Refused ==
    /\ Calling /\ tries[Outer] < MaxTries /\ NewSession
    /\ tries' = [tries EXCEPT ![Outer] = @ + 1]
    /\ \/ UNCHANGED at
       \/ at' = IF Outer = "call" /\ posting.on THEN "inner_fails" ELSE "fails"
    /\ UNCHANGED <<Request, pass, parts, posting, reading>>

\* Or it fails for now and is tried again in the same session.
Retried ==
    /\ Calling \/ at = "bootstrap"
    /\ tries[Outer] < MaxTries
    /\ tries' = [tries EXCEPT ![Outer] = @ + 1]
    /\ UNCHANGED <<Request, at, session, pass, parts, posting, reading>>

\* Or for good, or for too long: inside a post it may be the post that is tried again.
CallFails ==
    /\ Calling \/ at = "bootstrap"
    /\ \/ at' = "fails"
       \/ Outer = "call" /\ posting.on /\ at' = "inner_fails"
    /\ UNCHANGED <<Request, Backend>>

InnerFails ==
    /\ at = "inner_fails"
    /\ \/ at' = "fails" /\ UNCHANGED <<tries, session>>
       \/ /\ tries.post < MaxTries
          /\ tries' = [call |-> 1, post |-> tries.post + 1]
          /\ at' = "post"
          /\ UNCHANGED session \/ NewSession
    /\ UNCHANGED <<Request, pass, parts, posting, reading>>

\* iter_conversation_payloads: the upstream repeats what the assistant said before
\* and then tells its answer, by messages that hold all of it so far or by patches.
Sends(p, sent) ==
    LET state == UpdateConversationState(reading.state, p)
        next  == NextText(state, p, PastAnswers)
    IN  /\ at = "streams"
        /\ IF Replays(p, PastAnswers, reading.replayed)
           THEN /\ reading' = [state |-> WithText(state, <<>>),
                               replayed |-> reading.replayed + 1, sent |-> sent]
                /\ UNCHANGED spoken
           ELSE /\ reading' = [state |-> WithText(state, next), replayed |-> reading.replayed, sent |-> sent]
                /\ spoken' = IF Delta(state, next) = <<>> THEN spoken
                             ELSE [words |-> spoken.words \o Delta(state, next), by |-> spoken.by \cup {using}]
        /\ UNCHANGED <<pool, at, files, using, tried, session, tries, pass, parts, posting>>

SendHistory ==
    /\ reading.sent = 0 /\ reading.replayed < Len(PastAnswers)
    /\ Sends(Payload("message", PastAnswers[reading.replayed + 1], {}, {}), 0)

SendAnswer ==
    LET upTo == SubSeq(NewAnswer, 1, reading.sent + 1)
    IN  /\ reading.sent < Len(NewAnswer)
        /\ \/ Sends(Payload("message", upTo, {}, {}), reading.sent + 1)
           \/ Sends(Payload("message", HistoryText(PastAnswers) \o upTo, {}, {}), reading.sent + 1)
           \/ /\ reading.sent > 0
              /\ Sends(Payload("append", <<NewAnswer[reading.sent + 1]>>, {}, {}), reading.sent + 1)

StreamDone == at = "streams" /\ at' = "told" /\ UNCHANGED <<Request, Backend>>
StreamBreaks == at = "streams" /\ at' = "fails" /\ UNCHANGED <<Request, Backend>>

\* Mutant: another account goes on where the first one broke off.
MayChangeAlways == using # Anonymous

MayChange == using # Anonymous /\ spoken.words = <<>>

\* stream_text_deltas: a token that turns out invalid is removed or marked, one
\* whose challenge was not solved is not, and both are followed by another account;
\* any other failure ends the request.
AttemptFails ==
    /\ at = "fails"
    /\ \/ at' = "failed" /\ UNCHANGED pool
       \/ /\ MayChange /\ at' = "selects"
          /\ \/ UNCHANGED pool
             \/ /\ pool[using] # "gone"
                /\ \E s \in {"gone", "unavailable"} : pool' = [pool EXCEPT ![using] = s]
    /\ UNCHANGED <<files, using, tried, spoken, Backend>>

\* Others refresh, mark, delete and import accounts.
PoolChanges ==
    /\ at \notin {"told", "failed"}
    /\ \E t \in TextTokens, s \in {"normal", "unavailable", "gone"} :
          pool[t] # s /\ pool' = [pool EXCEPT ![t] = s]
    /\ UNCHANGED <<at, files, using, tried, spoken, Backend>>

TextNext ==
    \/ SelectText \/ StepDone \/ Finalized \/ PostAgain \/ Posted
    \/ Refused \/ Retried \/ CallFails \/ InnerFails
    \/ SendHistory \/ SendAnswer \/ StreamDone \/ StreamBreaks
    \/ AttemptFails \/ PoolChanges

TextSpec == TextInit /\ [][TextNext]_textVars

-----------------------------------------------------------------------------
\* A conversation with an account is posted with tokens that all come from the
\* session that posts it, however often the session was renewed while they were
\* fetched or the post was tried.
SessionWhole == at = "streams" /\ using # Anonymous => parts = {session}

\* What the client is told is a beginning of the answer of one account, once, in
\* order, and without what the assistant said before.
AnswerTold == IsPrefix(spoken.words, NewAnswer) /\ \A a, b \in spoken.by : a = b
=============================================================================
