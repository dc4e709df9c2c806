----------------------------- MODULE GptProofs -----------------------------
(***************************************************************************)
(* Proofs about the requests to ChatGPT: that a conversation is posted with *)
(* tokens of one session, that a client is told the answer of one account   *)
(* once, and that it is told of all the images that were drawn and of none  *)
(* that it sent.                                                            *)
(***************************************************************************)
EXTENDS GptText, GptImage, ListLemmas

-----------------------------------------------------------------------------
(* Tokens of a session.                                                    *)

Preparing == {"init", "conduit", "prepare", "finalize", "finalized", "inner_fails"}

\* The tokens come from sessions since the preparation began, and the last of
\* them from the one it ends in.  A post that prepares again does so because the
\* session it prepared for is over, and no later session is that one.
SessionInv ==
    /\ session \in Nat /\ pass.began \in Nat /\ pass.began <= session
    /\ \A s \in parts : s \in Nat /\ pass.began <= s /\ s <= session
    /\ posting.on \in BOOLEAN /\ posting.for \in Nat /\ posting.for <= session
    /\ at \in {"bootstrap", "attach"} => parts = {} /\ ~posting.on
    /\ at = "finalized" => parts # {}
    /\ at = "inner_fails" => posting.on
    /\ at \in Preparing /\ posting.on => posting.for < session
    /\ at = "post" /\ using # Anonymous /\ posting.for = session => parts = {session}
    /\ SessionWhole

LEMMA SessionInit == TextInit => SessionInv
BY DEF TextInit, SessionInv, SessionWhole, Preparing

\* A call that succeeds.
LEMMA StepDoneInv == SessionInv /\ StepDone => SessionInv'
<1> SUFFICES ASSUME SessionInv, StepDone PROVE SessionInv'
    OBVIOUS
<1>1. UNCHANGED <<session, using>>
    BY DEF StepDone, Request
<1>2. CASE /\ Bootstrapped \/ Uploaded
           /\ pass' = [n |-> 1, began |-> session] /\ UNCHANGED <<parts, posting>>
    <2>1. /\ at' = "attach" \/ at' = "prepare" \/ at' = "init"
          /\ parts = {} /\ ~posting.on /\ pass'.began = session
        BY <1>2 DEF Bootstrapped, Uploaded, FirstStep, SessionInv
    <2> QED BY <1>1, <1>2, <2>1 DEF SessionInv, SessionWhole, Preparing
<1>3. CASE /\ at \in {"init", "conduit", "prepare", "finalize"}
           /\ at' \in {"conduit", "prepare", "finalize", "finalized"}
           /\ parts' = parts \union {session} /\ UNCHANGED <<pass, posting>>
    <2>1. pass.began <= session
        BY DEF SessionInv
    <2> QED BY <1>1, <1>3, <2>1 DEF SessionInv, SessionWhole, Preparing
<1> QED BY <1>2, <1>3 DEF StepDone, Steps
\* The end of a preparation, which begins again unless its session is still the one.
LEMMA PrepareInv == SessionInv /\ Finalized => SessionInv'
<1> SUFFICES ASSUME SessionInv, Finalized PROVE SessionInv'
    OBVIOUS
<1>1. UNCHANGED <<session, using>> /\ at = "finalized"
    BY DEF Finalized, Request
<1>2. CASE using # Anonymous /\ at' = FirstStep /\ pass'.began = session /\ parts' = {} /\ UNCHANGED posting
    BY <1>1, <1>2 DEF SessionInv, SessionWhole, Preparing, FirstStep
<1>3. CASE at' = "fails" /\ UNCHANGED <<pass, parts, posting>>
    BY <1>1, <1>3 DEF SessionInv, SessionWhole, Preparing
<1>4. CASE /\ using = Anonymous \/ pass.began = session
           /\ at' = "post" /\ posting' = [on |-> TRUE, for |-> session] /\ UNCHANGED <<pass, parts>>
    <2>1. using # Anonymous => parts = {session}
        BY <1>1, <1>4 DEF SessionInv
    <2> QED BY <1>1, <1>4, <2>1 DEF SessionInv, SessionWhole, Preparing
<1> QED BY <1>2, <1>3, <1>4 DEF Finalized, PrepareDone

\* A call that is refused, and one that fails.
LEMMA RefusedInv == SessionInv /\ Refused => SessionInv'
<1> SUFFICES ASSUME SessionInv, Refused PROVE SessionInv'
    OBVIOUS
<1>1. /\ session' = session + 1 /\ UNCHANGED <<using, pass, parts, posting>>
      /\ at \in {"attach", "init", "conduit", "prepare", "finalize", "post"}
      /\ at' = at \/ at' = "fails" \/ (at' = "inner_fails" /\ posting.on)
    BY DEF Refused, Request, NewSession, Calling
<1> QED BY <1>1 DEF SessionInv, SessionWhole, Preparing

LEMMA FailsInv == SessionInv /\ (CallFails \/ InnerFails) => SessionInv'
<1>1. ASSUME SessionInv, CallFails PROVE SessionInv'
    <2>1. /\ UNCHANGED <<using, session, pass, parts, posting>>
          /\ at \in {"bootstrap", "attach", "init", "conduit", "prepare", "finalize", "post"}
          /\ at' = "fails" \/ (at # "post" /\ posting.on /\ at' = "inner_fails")
        BY <1>1 DEF CallFails, Request, Backend, Calling, Outer
    <2>2. CASE at' = "fails"
        BY <1>1, <2>1, <2>2 DEF SessionInv, SessionWhole, Preparing
    <2>3. CASE at # "post" /\ posting.on /\ at' = "inner_fails"
        <3>1. at \in Preparing /\ posting.for < session
            BY <1>1, <2>1, <2>3 DEF SessionInv, Preparing
        <3> QED BY <1>1, <2>1, <2>3, <3>1 DEF SessionInv, SessionWhole, Preparing
    <2> QED BY <2>1, <2>2, <2>3
<1>2. ASSUME SessionInv, InnerFails PROVE SessionInv'
    <2>1. /\ UNCHANGED <<using, pass, parts, posting>> /\ at = "inner_fails"
          /\ at' = "fails" \/ at' = "post"
          /\ session' = session \/ session' = session + 1
        BY <1>2 DEF InnerFails, Request, NewSession
    <2> QED BY <1>2, <2>1 DEF SessionInv, SessionWhole, Preparing
<1> QED BY <1>1, <1>2

LEMMA SelectInv == SelectText => SessionInv'
BY DEF SelectText, SessionInv, SessionWhole, Preparing

LEMMA PostInv == SessionInv /\ (PostAgain \/ Posted) => SessionInv'
<1>1. ASSUME SessionInv, PostAgain PROVE SessionInv'
    <2>1. /\ UNCHANGED <<using, session, posting>> /\ posting.for # session
          /\ at' = "prepare" \/ at' = "init"
          /\ parts' = {} /\ pass'.began = session
        BY <1>1 DEF PostAgain, Request, Prepared, FirstStep
    <2> QED BY <1>1, <2>1 DEF SessionInv, SessionWhole, Preparing
<1>2. ASSUME SessionInv, Posted PROVE SessionInv'
    BY <1>2 DEF Posted, Prepared, Request, Backend, SessionInv, SessionWhole, Preparing
<1> QED BY <1>1, <1>2

\* The rest leaves the tokens alone.
LEMMA RestInv ==
    ASSUME SessionInv, UNCHANGED <<session, pass, parts, posting, using>>,
           at' = at \/ at' = "told" \/ at' = "fails" \/ at' = "failed" \/ at' = "selects"
    PROVE  SessionInv'
BY DEF SessionInv, SessionWhole, Preparing

LEMMA SessionNext == SessionInv /\ [TextNext]_textVars => SessionInv'
<1> SUFFICES ASSUME SessionInv, [TextNext]_textVars PROVE SessionInv'
    OBVIOUS
<1>1. CASE SelectText \/ StepDone \/ Finalized \/ PostAgain \/ Posted \/ Refused \/ CallFails \/ InnerFails
    BY <1>1, SelectInv, StepDoneInv, PrepareInv, PostInv, RefusedInv, FailsInv
<1>2. CASE SendHistory \/ SendAnswer
    BY <1>2, RestInv, Zenon DEF SendHistory, SendAnswer, Sends
<1>3. CASE Retried
    BY <1>3, RestInv, Zenon DEF Retried, Request
<1>4. CASE StreamDone \/ StreamBreaks \/ AttemptFails \/ PoolChanges
    BY <1>4, RestInv, Zenon DEF StreamDone, StreamBreaks, AttemptFails, PoolChanges, Backend, Request
<1>5. CASE UNCHANGED textVars
    BY <1>5, RestInv DEF textVars
<1> QED BY <1>1, <1>2, <1>3, <1>4, <1>5 DEF TextNext

\* Requirements, conduit and sentinel tokens and the post are of one session, in
\* whichever call of post_conversation the session had to be renewed.
THEOREM TokensOfOneSession == TextSpec => []SessionWhole
<1>1. SessionInv => SessionWhole
    BY DEF SessionInv
<1> QED BY <1>1, SessionInit, SessionNext, PTL DEF TextSpec

-----------------------------------------------------------------------------
(* The answer that is told.  Texts and histories are sequences of any       *)
(* length: what a recursive function on them gives is proved by its least   *)
(* counterexample.                                                          *)

\* The text of a history is a text, and no part of it is longer.
LEMMA HistoryIsText ==
    ASSUME NEW Words, NEW history \in Seq(Seq(Words))
    PROVE  /\ HistoryText(history) \in Seq(Words)
           /\ \A i \in DOMAIN history : Len(history[i]) <= Len(HistoryText(history))
<1>1. CASE history = <<>>
    BY <1>1 DEF HistoryText, FlattenSeq
<1>2. CASE history # <<>>
    <2>1. Len(history) \in Nat /\ Len(history) # 0 /\ DOMAIN history = 1..Len(history)
        BY <1>2
    <2>2. PICK f : /\ f = [i \in 1..Len(history) |-> IF i = 1 THEN history[i] ELSE f[i - 1] \o history[i]]
                   /\ FlattenSeq(history) = f[Len(history)]
        BY <2>1, FlattenParts
    <2> DEFINE Good(k) == f[k] \in Seq(Words) /\ \A i \in 1..k : Len(history[i]) <= Len(f[k])
               T == {k \in 1..Len(history) : ~Good(k)}
    <2>3. T = {}
        <3>1. SUFFICES ASSUME T # {}
                       PROVE  FALSE
            OBVIOUS
        <3>2. PICK k \in 1..Len(history) : ~Good(k) /\ \A m \in 1..Len(history) : ~Good(m) => k <= m
            <4> HIDE DEF Good
            <4>1. T \in SUBSET Nat
                BY <2>1
            <4> QED BY <3>1, <4>1, LeastOne
        <3>3. k \in 1..Len(history) /\ ~Good(k)
            BY <3>2
        <3>4. history[k] \in Seq(Words) /\ Len(history[k]) \in Nat
            BY <3>3
        <3>5. CASE k = 1
            BY <2>2, <3>3, <3>4, <3>5
        <3>6. CASE k # 1
            <4>1. k - 1 \in 1..Len(history) /\ ~(k <= k - 1)
                BY <2>1, <3>3, <3>6
            <4>2. Good(k - 1)
                BY <3>2, <4>1
            <4>3. f[k] = f[k - 1] \o history[k]
                BY <2>2, <3>3, <3>6
            <4>4. /\ f[k] \in Seq(Words) /\ Len(f[k]) = Len(f[k - 1]) + Len(history[k])
                  /\ Len(f[k - 1]) \in Nat
                BY <3>4, <4>2, <4>3
            <4> DEFINE size(i) == Len(history[i])
                       full(i) == Len(f[i])
            <4>5. /\ size(k) \in Nat /\ full(k - 1) \in Nat
                  /\ full(k) = full(k - 1) + size(k)
                BY <3>4, <4>4
            <4>6. ASSUME NEW i \in 1..k
                  PROVE  size(i) <= full(k)
                <5>1. CASE i = k
                    <6> HIDE DEF T, Good, size, full
                    <6> QED BY <4>5, <5>1
                <5>2. CASE i # k
                    <6>1. i \in 1..(k - 1) /\ i \in 1..Len(history)
                        BY <2>1, <3>3, <5>2
                    <6>2. size(i) \in Nat
                        BY <6>1
                    <6>3. size(i) <= full(k - 1)
                        BY <4>2, <6>1
                    <6> HIDE DEF T, Good, size, full
                    <6> QED BY <4>5, <6>2, <6>3
                <5> QED BY <5>1, <5>2
            <4> QED BY <3>3, <4>4, <4>6
        <3> QED BY <3>5, <3>6
    <2>4. Good(Len(history))
        <3> HIDE DEF Good
        <3> QED BY <2>1, <2>3
    <2> QED BY <2>1, <2>2, <2>4 DEF HistoryText
<1> QED BY <1>1, <1>2

\* What follows one copy of the history, and does not begin with another, is left.
LEMMA StrippedOf ==
    ASSUME NEW Words, NEW said \in Seq(Words), NEW rest \in Seq(Words), said # <<>>,
           ~IsPrefix(said, rest)
    PROVE  Stripped(rest, said) = rest /\ Stripped(said \o rest, said) = rest
<1>1. Len(said) \in Nat \ {0} /\ Len(rest) \in Nat
    OBVIOUS
<1>2. Stripped(rest, said) = rest
    <2>1. Copies(rest, said) = {0}
        <3>1. 0 \in Copies(rest, said)
            BY <1>1 DEF Copies
        <3>2. ASSUME NEW k \in Copies(rest, said), k # 0
              PROVE  FALSE
            <4>1. 0 \in 0 .. k - 1 /\ SubSeq(rest, 0 * Len(said) + 1, Len(rest)) = rest
                BY <1>1, <3>2 DEF Copies
            <4> QED BY <4>1, <3>2 DEF Copies
        <3> QED BY <3>1, <3>2
    <2>2. Max({0}) = 0
        BY DEF Max
    <2>3. Stripped(rest, said) = SubSeq(rest, 0 * Len(said) + 1, Len(rest))
        BY <2>1, <2>2 DEF Stripped
    <2> QED BY <1>1, <2>3
<1>3. Stripped(said \o rest, said) = rest
    <2> DEFINE words == said \o rest
    <2>1. /\ words \in Seq(Words) /\ Len(words) = Len(said) + Len(rest) /\ Len(words) \in Nat
          /\ SubSeq(words, 0 * Len(said) + 1, Len(words)) = words
          /\ SubSeq(words, 1 * Len(said) + 1, Len(words)) = rest
        OBVIOUS
    <2>2. IsPrefix(said, words)
        <3>1. SubSeq(said, 1, Len(said)) = said /\ SubSeq(words, 1, Len(said)) = said
            BY <1>1
        <3> QED BY <1>1, <2>1, <3>1 DEF IsPrefix
    <2> HIDE DEF words
    <2>3. Copies(words, said) = {0, 1}
        <3>1. 0 \in Copies(words, said)
            BY <1>1, <2>1 DEF Copies
        <3>2. 1 \in Copies(words, said)
            <4>1. 1 \in 0 .. Len(words) /\ \A j \in 0 .. 1 - 1 : j = 0
                BY <1>1, <2>1
            <4> QED BY <2>1, <2>2, <4>1 DEF Copies
        <3>3. ASSUME NEW k \in Copies(words, said), k # 0, k # 1
              PROVE  FALSE
            <4>1. 1 \in 0 .. k - 1
                BY <1>1, <2>1, <3>3 DEF Copies
            <4> QED BY <4>1, <2>1, <3>3 DEF Copies
        <3> QED BY <3>1, <3>2, <3>3
    <2>4. Max({0, 1}) = 1
        BY DEF Max
    <2>5. Stripped(words, said) = SubSeq(words, 1 * Len(said) + 1, Len(words))
        BY <2>3, <2>4 DEF Stripped
    <2> QED BY <2>1, <2>5 DEF words
<1> QED BY <1>2, <1>3

\* The new answer begins neither with all that was said before nor with a part of
\* it.  Nothing in the code makes it so: one that does is taken for a repetition.
AnswerIsNew ==
    \A said \in {HistoryText(PastAnswers)} \union {PastAnswers[i] : i \in DOMAIN PastAnswers} :
        said # <<>> => ~IsPrefix(said, NewAnswer)

\* The first n words of the answer.
UpTo(n) == SubSeq(NewAnswer, 1, n)

LEMMA UpToProperties ==
    ASSUME NEW Words, NewAnswer \in Seq(Words), NEW n \in 0 .. Len(NewAnswer)
    PROVE  /\ UpTo(n) \in Seq(Words) /\ Len(UpTo(n)) = n
           /\ SubSeq(UpTo(n), 1, n) = UpTo(n)
           /\ IsPrefix(UpTo(n), NewAnswer)
           /\ \A said \in Seq(Words) : IsPrefix(said, UpTo(n)) => IsPrefix(said, NewAnswer)
           /\ n < Len(NewAnswer) => /\ UpTo(n) \o <<NewAnswer[n + 1]>> = UpTo(n + 1)
                                    /\ Delta([text |-> UpTo(n)], UpTo(n + 1)) = <<NewAnswer[n + 1]>>
                                    /\ Delta([text |-> UpTo(n)], UpTo(n) \o <<NewAnswer[n + 1]>>)
                                          = <<NewAnswer[n + 1]>>
<1>1. UpTo(n) \in Seq(Words) /\ Len(UpTo(n)) = n /\ n \in Nat /\ n <= Len(NewAnswer)
    BY DEF UpTo
<1>2. SubSeq(UpTo(n), 1, n) = UpTo(n)
    BY <1>1
<1>3. IsPrefix(UpTo(n), NewAnswer)
    BY <1>1, <1>2 DEF IsPrefix, UpTo
<1>4. ASSUME NEW said \in Seq(Words), IsPrefix(said, UpTo(n))
      PROVE  IsPrefix(said, NewAnswer)
    <2>1. Len(said) \in Nat /\ Len(said) <= n /\ Len(said) <= Len(NewAnswer)
        BY <1>1, <1>4 DEF IsPrefix
    <2>2. SubSeq(UpTo(n), 1, Len(said)) = SubSeq(NewAnswer, 1, Len(said))
        BY <1>1, <2>1 DEF UpTo
    <2> QED BY <1>4, <2>1, <2>2 DEF IsPrefix
<1>5. ASSUME n < Len(NewAnswer)
      PROVE  /\ UpTo(n) \o <<NewAnswer[n + 1]>> = UpTo(n + 1)
             /\ Delta([text |-> UpTo(n)], UpTo(n + 1)) = <<NewAnswer[n + 1]>>
    <2>1. n + 1 \in 1 .. Len(NewAnswer) /\ UpTo(n + 1) \in Seq(Words) /\ Len(UpTo(n + 1)) = n + 1
        BY <1>1, <1>5 DEF UpTo
    <2>2. UpTo(n) \o <<NewAnswer[n + 1]>> = UpTo(n + 1)
        BY <1>1, <2>1 DEF UpTo
    <2>3. IsPrefix(UpTo(n), UpTo(n + 1))
        <3>1. SubSeq(UpTo(n + 1), 1, n) = UpTo(n)
            BY <1>1, <2>1 DEF UpTo
        <3> QED BY <1>1, <1>2, <2>1, <3>1 DEF IsPrefix
    <2>4. SubSeq(UpTo(n + 1), n + 1, n + 1) = <<NewAnswer[n + 1]>>
        <3>1. UpTo(n + 1)[n + 1] = NewAnswer[n + 1]
            BY <1>1, <2>1 DEF UpTo
        <3>2. ASSUME NEW s \in Seq(Words), NEW k \in 1 .. Len(s)
              PROVE  SubSeq(s, k, k) = <<s[k]>>
            <4> DEFINE t == SubSeq(s, k, k)
            <4>1. /\ t \in Seq(Words) /\ Len(t) = 1 /\ t[1] = s[k]
                OBVIOUS
            <4>2. /\ <<s[k]>> \in Seq(Words) /\ Len(<<s[k]>>) = 1 /\ <<s[k]>>[1] = s[k]
                OBVIOUS
            <4> HIDE DEF t
            <4>3. t = <<s[k]>>
                BY <4>1, <4>2
            <4> QED BY <4>3 DEF t
        <3>3. n + 1 \in 1 .. Len(UpTo(n + 1))
            BY <2>1
        <3> QED BY <2>1, <3>1, <3>2, <3>3
    <2> QED BY <1>1, <2>1, <2>2, <2>3, <2>4 DEF Delta
<1> QED BY <1>1, <1>2, <1>3, <1>4, <1>5

-----------------------------------------------------------------------------
\* What the client was told, and the text read so far, are the words sent; an
\* account is only chosen while there are none, and all are of the account in use.
AnswerInv ==
    /\ reading.sent \in 0 .. Len(NewAnswer) /\ reading.replayed \in Nat
    /\ reading.state.text = UpTo(reading.sent) /\ spoken.words = UpTo(reading.sent)
    /\ spoken.by \subseteq {using}
    /\ spoken.words = <<>> => spoken.by = {}
    /\ at = "selects" => spoken.words = <<>>

\* A payload that brings the text to n words, and is not taken for history.
LEMMA SentInv ==
    ASSUME NEW Words, NewAnswer \in Seq(Words), AnswerInv,
           reading.sent < Len(NewAnswer), NEW p, Sends(p, reading.sent + 1),
           ~Replays(p, PastAnswers, reading.replayed),
           NextText(UpdateConversationState(reading.state, p), p, PastAnswers) = UpTo(reading.sent + 1)
    PROVE  AnswerInv'
<1> DEFINE n == reading.sent
           state == UpdateConversationState(reading.state, p)
<1>1. n \in 0 .. Len(NewAnswer) /\ n < Len(NewAnswer) /\ n + 1 \in 0 .. Len(NewAnswer)
    BY DEF AnswerInv
<1>2. state.text = UpTo(n)
    BY DEF AnswerInv, UpdateConversationState, Remembered
<1>3. Delta(state, UpTo(n + 1)) = <<NewAnswer[n + 1]>>
    BY <1>1, <1>2, UpToProperties DEF Delta
<1>4. /\ reading' = [state |-> WithText(state, UpTo(n + 1)), replayed |-> reading.replayed, sent |-> n + 1]
      /\ spoken' = [words |-> spoken.words \o <<NewAnswer[n + 1]>>, by |-> spoken.by \union {using}]
      /\ UNCHANGED <<at, using>> /\ at = "streams"
    <2>1. <<NewAnswer[n + 1]>> # <<>>
        OBVIOUS
    <2> HIDE DEF state
    <2> QED BY <1>3, <2>1 DEF Sends, state
<1>5. WithText(state, UpTo(n + 1)).text = UpTo(n + 1)
    BY DEF WithText, Remembered
<1>6. spoken.words \o <<NewAnswer[n + 1]>> = UpTo(n + 1) /\ UpTo(n + 1) # <<>>
    <2>1. UpTo(n) \o <<NewAnswer[n + 1]>> = UpTo(n + 1)
        BY <1>1, UpToProperties
    <2>2. Len(UpTo(n + 1)) = n + 1
        BY <1>1, UpToProperties
    <2> QED BY <1>1, <2>1, <2>2 DEF AnswerInv
<1>7. reading'.sent = n + 1 /\ reading'.replayed \in Nat /\ reading'.state.text = UpTo(n + 1)
    BY <1>4, <1>5 DEF AnswerInv
<1>8. spoken'.words = UpTo(n + 1) /\ spoken'.by \subseteq {using'}
    BY <1>4, <1>6 DEF AnswerInv
<1> QED BY <1>1, <1>4, <1>6, <1>7, <1>8 DEF AnswerInv, UpTo

\* The three ways in which the upstream goes on with its answer.
LEMMA SendAnswerInv ==
    ASSUME NEW Words, NewAnswer \in Seq(Words), PastAnswers \in Seq(Seq(Words)), AnswerIsNew,
           AnswerInv, SendAnswer
    PROVE  AnswerInv'
<1> DEFINE n == reading.sent
           H == HistoryText(PastAnswers)
<1>1. n \in 0 .. Len(NewAnswer) /\ n < Len(NewAnswer) /\ n + 1 \in 1 .. Len(NewAnswer)
    BY DEF AnswerInv, SendAnswer
<1>2. H \in Seq(Words)
    BY HistoryIsText
<1>3. /\ UpTo(n + 1) \in Seq(Words) /\ Len(UpTo(n + 1)) = n + 1
      /\ IsPrefix(UpTo(n + 1), NewAnswer)
      /\ \A said \in Seq(Words) : IsPrefix(said, UpTo(n + 1)) => IsPrefix(said, NewAnswer)
    <2>1. n + 1 \in 0 .. Len(NewAnswer)
        BY <1>1
    <2> HIDE DEF n
    <2> QED BY <2>1, UpToProperties
<1>4. /\ UpTo(n + 1) # <<>>
      /\ \A i \in DOMAIN PastAnswers : UpTo(n + 1) # PastAnswers[i]
    BY <1>1, <1>3 DEF AnswerIsNew
<1>5. Stripped(UpTo(n + 1), H) = UpTo(n + 1) /\ Stripped(H \o UpTo(n + 1), H) = UpTo(n + 1)
    <2>1. CASE H = <<>>
        BY <1>3, <2>1 DEF Stripped
    <2>2. CASE H # <<>>
        <3>1. ~IsPrefix(H, UpTo(n + 1))
            BY <1>2, <1>3, <2>2 DEF AnswerIsNew
        <3> HIDE DEF H
        <3> QED BY <1>2, <1>3, <2>2, <3>1, StrippedOf
    <2> QED BY <2>1, <2>2
<1>6. H \o UpTo(n + 1) # <<>>
    BY <1>1, <1>2, <1>3
<1>7. reading.replayed < Len(PastAnswers) => reading.replayed + 1 \in DOMAIN PastAnswers
    BY DEF AnswerInv
<1>8. CASE Sends(Payload("message", UpTo(n + 1), {}, {}), n + 1)
    <2> DEFINE p == Payload("message", UpTo(n + 1), {}, {})
    <2>1. p.kind = "message" /\ p.words = UpTo(n + 1)
        BY DEF Payload
    <2>2. ~Replays(p, PastAnswers, reading.replayed)
        BY <1>4, <1>5, <1>7, <2>1 DEF Replays
    <2>3. NextText(UpdateConversationState(reading.state, p), p, PastAnswers) = UpTo(n + 1)
        BY <1>4, <1>5, <2>1 DEF NextText
    <2> HIDE DEF p
    <2> QED BY <1>1, <1>8, <2>2, <2>3, SentInv DEF p
<1>9. CASE Sends(Payload("message", H \o UpTo(n + 1), {}, {}), n + 1)
    <2> DEFINE p == Payload("message", H \o UpTo(n + 1), {}, {})
    <2>1. p.kind = "message" /\ p.words = H \o UpTo(n + 1)
        BY DEF Payload
    <2>2. ~Replays(p, PastAnswers, reading.replayed)
        BY <1>4, <1>5, <1>7, <2>1 DEF Replays
    <2>3. NextText(UpdateConversationState(reading.state, p), p, PastAnswers) = UpTo(n + 1)
        BY <1>5, <1>6, <2>1 DEF NextText
    <2> HIDE DEF p
    <2> QED BY <1>1, <1>9, <2>2, <2>3, SentInv DEF p
<1>10. CASE Sends(Payload("append", <<NewAnswer[n + 1]>>, {}, {}), n + 1)
    <2> DEFINE p == Payload("append", <<NewAnswer[n + 1]>>, {}, {})
    <2>1. p.kind = "append" /\ p.words = <<NewAnswer[n + 1]>>
        BY DEF Payload
    <2>2. ~Replays(p, PastAnswers, reading.replayed)
        BY <2>1 DEF Replays
    <2>3. NextText(UpdateConversationState(reading.state, p), p, PastAnswers) = UpTo(n) \o <<NewAnswer[n + 1]>>
        BY <2>1 DEF NextText, AnswerInv, UpdateConversationState, Remembered
    <2>4. UpTo(n) \o <<NewAnswer[n + 1]>> = UpTo(n + 1)
        BY <1>1, UpToProperties
    <2> HIDE DEF p
    <2> QED BY <1>1, <1>10, <2>2, <2>3, <2>4, SentInv DEF p
<1> QED BY <1>8, <1>9, <1>10 DEF SendAnswer, UpTo

\* A message of the history is passed over, or leaves nothing to tell.
LEMMA SendHistoryInv ==
    ASSUME NEW Words, NewAnswer \in Seq(Words), PastAnswers \in Seq(Seq(Words)), AnswerIsNew,
           AnswerInv, SendHistory
    PROVE  AnswerInv'
<1> DEFINE r == reading.replayed
           H == HistoryText(PastAnswers)
           w == PastAnswers[r + 1]
           p == Payload("message", w, {}, {})
           state == UpdateConversationState(reading.state, p)
           next == NextText(state, p, PastAnswers)
<1>1. /\ reading.sent = 0 /\ r \in Nat /\ r + 1 \in DOMAIN PastAnswers /\ r < Len(PastAnswers)
      /\ Sends(p, 0)
    BY DEF AnswerInv, SendHistory
<1>2. /\ H \in Seq(Words) /\ w \in Seq(Words) /\ Len(w) <= Len(H)
    BY <1>1, HistoryIsText
<1>3. UpTo(0) = <<>>
    BY DEF UpTo
<1>4. p.kind = "message" /\ p.words = w
    BY DEF Payload
<1>5. state.text = <<>>
    BY <1>1, <1>3 DEF AnswerInv, UpdateConversationState, Remembered
<1>6. Replays(p, PastAnswers, r) \/ next = <<>>
    <2> SUFFICES ASSUME w # <<>>, Stripped(w, H) # w
                 PROVE  Stripped(w, H) = <<>>
        BY <1>1, <1>2, <1>4, <1>5 DEF Replays, NextText
    <2>1. H # <<>>
        BY DEF Stripped
    <2>2. IsPrefix(H, w)
        <3> HIDE DEF H, w
        <3> QED BY <1>2, <2>1, StrippedOf
    <2>3. w = H
        <3>1. Len(H) \in Nat /\ Len(w) \in Nat /\ Len(H) = Len(w)
            BY <1>2, <2>2 DEF IsPrefix
        <3>2. SubSeq(H, 1, Len(H)) = H /\ SubSeq(w, 1, Len(w)) = w
            BY <1>2
        <3> QED BY <2>2, <3>1, <3>2 DEF IsPrefix
    <2>4. <<>> \in Seq(Words) /\ H \o <<>> = H /\ ~IsPrefix(H, <<>>)
        BY <1>2, <2>1 DEF IsPrefix
    <2> HIDE DEF H, w
    <2> QED BY <1>2, <2>1, <2>3, <2>4, StrippedOf
<1>7. Delta(state, <<>>) = <<>>
    BY <1>5 DEF Delta, IsPrefix
<1>8. /\ UNCHANGED <<spoken, at, using>>
      /\ reading'.sent = 0 /\ reading'.replayed \in Nat /\ reading'.state.text = <<>>
    <2>1. CASE Replays(p, PastAnswers, r)
        <3>1. /\ reading' = [state |-> WithText(state, <<>>), replayed |-> r + 1, sent |-> 0]
              /\ UNCHANGED <<spoken, at, using>>
            BY <1>1, <2>1 DEF Sends
        <3> HIDE DEF state
        <3> QED BY <1>1, <3>1 DEF WithText, Remembered
    <2>2. CASE ~Replays(p, PastAnswers, r)
        <3>1. /\ reading' = [state |-> WithText(state, next), replayed |-> r, sent |-> 0]
              /\ spoken' = IF Delta(state, next) = <<>> THEN spoken
                           ELSE [words |-> spoken.words \o Delta(state, next), by |-> spoken.by \union {using}]
              /\ UNCHANGED <<at, using>>
            BY <1>1, <2>2 DEF Sends
        <3>2. next = <<>>
            BY <1>6, <2>2
        <3> HIDE DEF state, next
        <3> QED BY <1>1, <1>7, <3>1, <3>2 DEF WithText, Remembered
    <2> QED BY <2>1, <2>2
<1> QED BY <1>1, <1>3, <1>8 DEF AnswerInv, UpTo

\* An attempt that told nothing is followed by another account, and the rest
\* leaves the text alone.
LEMMA SelectAnswerInv == AnswerInv /\ SelectText => AnswerInv'
<1> SUFFICES ASSUME AnswerInv, SelectText
             PROVE  AnswerInv'
    OBVIOUS
<1>1. at = "selects" /\ reading' = NoReading /\ UNCHANGED spoken
    BY DEF SelectText
<1>2. spoken.words = <<>> /\ spoken.by = {} /\ UpTo(0) = <<>>
    BY <1>1 DEF AnswerInv, UpTo
<1>3. /\ NoReading.sent = 0 /\ NoReading.replayed = 0 /\ NoReading.state.text = <<>>
      /\ 0 \in 0 .. Len(NewAnswer)
    BY DEF NoReading, ConversationState, Remembered, AnswerInv
<1> QED BY <1>1, <1>2, <1>3 DEF AnswerInv, UpTo

LEMMA OtherAnswerInv ==
    ASSUME AnswerInv, UNCHANGED <<reading, spoken, using>>,
           at' = "selects" => spoken.words = <<>>
    PROVE  AnswerInv'
BY DEF AnswerInv, UpTo

LEMMA AnswerNext ==
    ASSUME NEW Words, NewAnswer \in Seq(Words), PastAnswers \in Seq(Seq(Words)), AnswerIsNew,
           AnswerInv, [TextNext]_textVars
    PROVE  AnswerInv'
<1>1. CASE SelectText
    BY <1>1, SelectAnswerInv
<1>2. CASE SendHistory \/ SendAnswer
    BY <1>2, SendHistoryInv, SendAnswerInv
<1>3. CASE StepDone
    <2>1. at' # "selects"
        BY <1>3 DEF StepDone, Bootstrapped, Uploaded, FirstStep, Steps
    <2> QED BY <1>3, <2>1, OtherAnswerInv DEF StepDone, Request
<1>4. CASE Finalized
    <2>1. at' # "selects"
        BY <1>4 DEF Finalized, PrepareDone, FirstStep
    <2> QED BY <1>4, <2>1, OtherAnswerInv DEF Finalized, Request
<1>5. CASE PostAgain
    BY <1>5, OtherAnswerInv DEF PostAgain, FirstStep, Request
<1>6. CASE Posted \/ StreamDone \/ StreamBreaks
    BY <1>6, OtherAnswerInv DEF Posted, StreamDone, StreamBreaks, Request, Backend
<1>7. CASE Refused \/ Retried
    <2>1. UNCHANGED <<reading, spoken, using>> /\ (at' = at \/ at' # "selects")
        BY <1>7 DEF Refused, Retried, Request
    <2> QED BY <2>1, OtherAnswerInv DEF AnswerInv
<1>8. CASE CallFails \/ InnerFails
    <2>1. UNCHANGED <<reading, spoken, using>> /\ at' # "selects"
        BY <1>8 DEF CallFails, InnerFails, Request, Backend
    <2> QED BY <2>1, OtherAnswerInv
<1>9. CASE AttemptFails
    BY <1>9, OtherAnswerInv DEF AttemptFails, MayChange, Backend
<1>10. CASE PoolChanges \/ UNCHANGED textVars
    <2>1. UNCHANGED <<reading, spoken, using, at>>
        BY <1>10 DEF PoolChanges, Backend, textVars
    <2> QED BY <2>1, OtherAnswerInv DEF AnswerInv
<1> QED BY <1>1, <1>2, <1>3, <1>4, <1>5, <1>6, <1>7, <1>8, <1>9, <1>10 DEF TextNext

\* Whatever the upstream repeats of what was said before, and however often other
\* accounts are tried, the client is told the beginning of the answer, once, by
\* one account: for every dialogue and every answer that begins neither with the
\* whole of what was said before nor with one of its parts.
THEOREM AnswersTold ==
    ASSUME NEW CONSTANT Words, NewAnswer \in Seq(Words), PastAnswers \in Seq(Seq(Words)), AnswerIsNew
    PROVE  TextSpec => []AnswerTold
<1>1. TextInit => AnswerInv
    <2> SUFFICES ASSUME TextInit
                 PROVE  AnswerInv
        OBVIOUS
    <2>1. /\ reading = NoReading /\ spoken.words = <<>> /\ spoken.by = {}
          /\ UpTo(0) = <<>> /\ 0 \in 0 .. Len(NewAnswer)
        BY DEF TextInit, UpTo
    <2>2. NoReading.sent = 0 /\ NoReading.replayed = 0 /\ NoReading.state.text = <<>>
        BY DEF NoReading, ConversationState, Remembered
    <2> QED BY <2>1, <2>2 DEF AnswerInv
<1>2. AnswerInv /\ [TextNext]_textVars => AnswerInv'
    BY AnswerNext
<1>3. AnswerInv => AnswerTold
    <2> SUFFICES ASSUME AnswerInv
                 PROVE  AnswerTold
        OBVIOUS
    <2>1. IsPrefix(UpTo(reading.sent), NewAnswer)
        BY UpToProperties DEF AnswerInv
    <2> QED BY <2>1 DEF AnswerInv, AnswerTold
<1> QED BY <1>1, <1>2, <1>3, PTL DEF TextSpec
-----------------------------------------------------------------------------
(* Images.                                                                 *)

Done == {"resolves", "downloads", "over"}

\* The ids that are remembered are the placeholder and images that were drawn: the
\* echo of the references comes before the turn is known to be a tool's.  Those
\* that are sought were drawn, and whatever is remembered is sought; what is not
\* downloaded has no address or was passed over.
DrawnInv ==
    /\ drawn \subseteq Drawable
    /\ view.state.ids \subseteq drawn \union {Placeholder}
    /\ turn = "asked" => view.state.tool = FALSE
    /\ sought \subseteq drawn
    /\ place \notin Done => sought = {}
    /\ place \in {"polls", "resolves", "downloads"} =>
          view.state.ids \subseteq sought \union {Placeholder}
    /\ place = "downloads" => /\ located \subseteq sought
                             /\ sought \subseteq located \union dead \union PassedOver
    /\ place # "over" => outcome.kind = "none"

ImagesInv == DrawnInv /\ ImagesTold

LEMMA ImagesInit == ImageInit => ImagesInv
BY DEF ImageInit, ImagesInv, DrawnInv, ImagesTold, PassedOver, Files, Done, Nothing, ConversationState, Remembered

\* The rest of a step that changes neither the view nor what is sought.
LEMMA OtherImageSteps ==
    ASSUME ImagesInv, UNCHANGED <<turn, drawn, view, sought, located, dead>>,
           \/ UNCHANGED outcome /\ place \notin Done /\ place' \notin Done \union {"polls"}
           \/ outcome'.kind \in {"error", "timeout"} /\ place' = "over"
    PROVE  ImagesInv'
BY DEF ImagesInv, DrawnInv, ImagesTold, PassedOver, Files, Done

LEMMA CallInv ==
    ASSUME ImagesInv, \/ BeginImage \/ (\E r \in References : UploadReference(r))
                      \/ Call \/ CallRaises \/ StreamStops \/ StreamRaises \/ PollRaises
    PROVE  ImagesInv'
<1>1. CASE BeginImage \/ (\E r \in References : UploadReference(r)) \/ StreamStops
    BY <1>1, OtherImageSteps DEF BeginImage, UploadReference, StreamStops, Done, Upstream, Resolved
<1>2. CASE Call
    BY <1>2, OtherImageSteps DEF Call, Calls, Done, Upstream, Resolved
<1>3. CASE CallRaises \/ StreamRaises \/ PollRaises
    BY <1>3, OtherImageSteps DEF CallRaises, StreamRaises, PollRaises, Ends, Upstream, Resolved
<1> QED BY <1>1, <1>2, <1>3

\* What a payload adds to the ids that are remembered.
LEMMA ShowsIds ==
    ASSUME NEW p, Shows(p)
    PROVE  /\ place = "streams" /\ UNCHANGED <<place, drawn, sought, located, dead, outcome>>
           /\ view'.state.ids = view.state.ids \union (IF ImageContext(view.state, p) THEN p.ids ELSE {})
           /\ view'.state.tool = (IF p.kind = "metadata" THEN "tool" \in p.says ELSE view.state.tool)
<1>1. PICK words, named :
          view' = [state |-> WithText(UpdateConversationState(view.state, p), words), conversation |-> named]
    BY Zenon DEF Shows
<1>2. PICK said, used : UpdateConversationState(view.state, p) =
          Remembered(view.state.text,
                     view.state.ids \union (IF ImageContext(view.state, p) THEN p.ids ELSE {}),
                     said,
                     IF p.kind = "metadata" THEN "tool" \in p.says ELSE view.state.tool, used)
    BY Zenon DEF UpdateConversationState
<1>3. place = "streams" /\ UNCHANGED <<place, drawn, sought, located, dead, outcome>>
    BY Zenon DEF Shows, Resolved
<1> QED BY <1>1, <1>2, <1>3 DEF WithText, Remembered

LEMMA ShowsInv ==
    ASSUME ImagesInv, NEW p, Shows(p),
           turn = "asked" => ~ImageContext(view.state, p),
           p.ids \subseteq drawn \union {Placeholder} \/ ~ImageContext(view.state, p),
           turn' # "asked"
    PROVE  ImagesInv'
<1>1. view'.state.ids \subseteq drawn \union {Placeholder}
    BY ShowsIds DEF ImagesInv, DrawnInv
<1> QED BY <1>1, ShowsIds DEF ImagesInv, DrawnInv, ImagesTold, PassedOver, Files, Done

LEMMA StreamInv ==
    ASSUME ImagesInv, ShowRequest \/ ShowTurn \/ ShowImages \/ ShowText
    PROVE  ImagesInv'
<1>1. CASE ShowRequest
    <2>1. PICK p : p = Payload("user", <<>>, uploaded, {})
        OBVIOUS
    <2>2. Shows(p) /\ turn = "asked" /\ turn' = "echoed"
        BY <1>1, <2>1 DEF ShowRequest
    <2>3. ~ImageContext(view.state, p)
        BY <2>1, <2>2 DEF Payload, ImageContext, ImagesInv, DrawnInv
    <2> QED BY <2>2, <2>3, ShowsInv
<1>2. CASE ShowTurn
    <2>1. /\ turn = "echoed" /\ turn' \in {"draws", "speaks"}
          /\ \E kind, says : Shows(Payload(kind, <<>>, {}, says))
        BY <1>2 DEF ShowTurn
    <2>2. PICK p : Shows(p) /\ p.ids = {}
        BY <2>1 DEF Payload
    <2> QED BY <2>1, <2>2, ShowsInv
<1>3. CASE ShowImages
    <2>1. turn = "draws" /\ turn' = turn
        BY <1>3 DEF ShowImages
    <2>2. PICK kind, ids : ids \subseteq drawn \union {Placeholder} /\ Shows(Payload(kind, <<>>, ids, {}))
        BY <1>3 DEF ShowImages
    <2>3. PICK p : Shows(p) /\ p.ids \subseteq drawn \union {Placeholder}
        BY <2>2 DEF Payload
    <2> QED BY <2>1, <2>3, ShowsInv
<1>4. CASE ShowText
    <2>1. turn # "asked" /\ turn' = turn /\ Shows(Payload("message", <<"words">>, {}, {}))
        BY <1>4 DEF ShowText
    <2>2. PICK p : Shows(p) /\ p.ids = {}
        BY <2>1 DEF Payload
    <2> QED BY <2>1, <2>2, ShowsInv
<1> QED BY <1>1, <1>2, <1>3, <1>4

LEMMA DrawsInv ==
    ASSUME ImagesInv, NEW x \in Drawable, Draws(x)
    PROVE  ImagesInv'
BY DEF Draws, Resolved, ImagesInv, DrawnInv, ImagesTold, PassedOver, Files, Done

LEMMA SettleInv ==
    ASSUME ImagesInv, SettleImage
    PROVE  ImagesInv'
<1>1. place = "settles" /\ UNCHANGED <<turn, drawn, view, located, dead>> /\ sought = {}
    BY DEF SettleImage, Upstream, ImagesInv, DrawnInv, Done
<1>2. CASE view.state.ids = {} /\ Ends("message", {}) /\ UNCHANGED sought
    BY <1>1, <1>2 DEF Ends, ImagesInv, DrawnInv, ImagesTold, PassedOver, Files, Done
<1>3. CASE UNCHANGED outcome /\ Images = {} /\ place' = "polls" /\ UNCHANGED sought
    BY <1>1, <1>3 DEF Images, ImagesInv, DrawnInv, ImagesTold, PassedOver, Files, Done
<1>4. CASE UNCHANGED outcome /\ place' = "resolves" /\ sought' = Images
    BY <1>1, <1>4 DEF Images, ImagesInv, DrawnInv, ImagesTold, PassedOver, Files, Done
<1> QED BY <1>2, <1>3, <1>4 DEF SettleImage, TextOnly

LEMMA PolledInv ==
    ASSUME ImagesInv, Polled
    PROVE  ImagesInv'
<1>1. /\ place = "polls" /\ place' = "resolves" /\ sought' \subseteq drawn /\ sought = {}
      /\ UNCHANGED <<turn, drawn, view, located, dead, outcome>>
    BY DEF Polled, Upstream, ImagesInv, DrawnInv, Done
<1> QED BY <1>1 DEF ImagesInv, DrawnInv, ImagesTold, PassedOver, Files, Done

LEMMA ResolveInv ==
    ASSUME ImagesInv, Resolve
    PROVE  ImagesInv'
<1>1. PICK none \in SUBSET sought :
          /\ dead' = none /\ located' = Addresses(none)
          /\ IF located' # {} THEN place' = "downloads" /\ UNCHANGED outcome
             ELSE Ends(IF view.state.text # <<>> THEN "message" ELSE "nothing", {})
    BY Zenon DEF Resolve
<1>2. place = "resolves" /\ UNCHANGED <<turn, drawn, view, sought>>
    BY Zenon DEF Resolve, Upstream
<1>3. Addresses(none) \subseteq sought /\ (Addresses(none) = {} /\ view.conversation => sought \subseteq none)
    BY DEF Addresses, Files
<1>4. CASE Addresses(none) # {}
    <2>1. sought \subseteq Addresses(none) \union none
              \union (IF Addresses(none) \intersect Files # {} THEN sought \ Files ELSE {})
        BY <1>4 DEF Addresses, Files
    <2>2. sought' \subseteq (located \union dead \union PassedOver)'
        BY <1>1, <1>2, <2>1 DEF PassedOver, Files
    <2>3. DrawnInv'
        BY <1>1, <1>2, <1>3, <1>4, <2>2 DEF ImagesInv, DrawnInv, Done
    <2>4. outcome'.kind = "none"
        BY <1>1, <1>2, <1>4 DEF ImagesInv, DrawnInv
    <2> QED BY <2>3, <2>4 DEF ImagesInv, ImagesTold
<1>5. CASE Addresses(none) = {}
    <2>1. /\ outcome'.kind \in {"message", "nothing"} /\ place' = "over" /\ sought' = sought /\ dead' = none
        BY <1>1, <1>2, <1>5 DEF Ends
    <2>2. view.conversation => (view.state.ids \union sought) \intersect drawn \subseteq none
        BY <1>2, <1>3, <1>5, DrawableAssumption DEF ImagesInv, DrawnInv
    <2>3. DrawnInv'
        BY <1>2, <2>1 DEF ImagesInv, DrawnInv, Done
    <2> QED BY <1>2, <2>1, <2>2, <2>3 DEF ImagesInv, ImagesTold
<1> QED BY <1>4, <1>5

LEMMA DownloadInv ==
    ASSUME ImagesInv, Download
    PROVE  ImagesInv'
<1>1. /\ place = "downloads" /\ place' = "over" /\ UNCHANGED <<turn, drawn, view, sought, located>>
      /\ \/ outcome'.kind = "error"
         \/ \E full \in SUBSET located :
               /\ dead' = dead \union (located \ full) /\ outcome'.images = full
               /\ outcome'.kind = IF full # {} THEN "result" ELSE "nothing"
    BY DEF Download, Upstream, Ends
<1>2. DrawnInv'
    BY <1>1 DEF ImagesInv, DrawnInv, Done
<1>3. CASE outcome'.kind = "error"
    BY <1>2, <1>3 DEF ImagesInv, ImagesTold
<1>4. ASSUME NEW full \in SUBSET located, dead' = dead \union (located \ full), outcome'.images = full,
             outcome'.kind = IF full # {} THEN "result" ELSE "nothing"
      PROVE  ImagesTold'
    <2>1. full \subseteq drawn
        BY <1>1 DEF ImagesInv, DrawnInv
    <2>2. CASE full = {}
        <3>1. PassedOver' = PassedOver /\ dead' = dead \union located
            BY <1>1, <1>4, <2>2 DEF PassedOver, Files
        <3>2. (view.state.ids \union sought) \intersect drawn \subseteq located \union dead \union PassedOver
            BY <1>1, DrawableAssumption DEF ImagesInv, DrawnInv
        <3> QED BY <1>1, <1>4, <2>2, <3>1, <3>2 DEF ImagesTold
    <2>3. CASE full # {}
        BY <1>1, <1>4, <2>1, <2>3 DEF ImagesTold
    <2> QED BY <2>2, <2>3
<1> QED BY <1>1, <1>2, <1>3, <1>4 DEF ImagesInv

LEMMA ImagesNext == ImagesInv /\ [ImageNext]_imageVars => ImagesInv'
<1> SUFFICES ASSUME ImagesInv, [ImageNext]_imageVars PROVE ImagesInv'
    OBVIOUS
<1>1. CASE UNCHANGED imageVars
    BY <1>1 DEF imageVars, ImagesInv, DrawnInv, ImagesTold, PassedOver, Files
<1> QED BY <1>1, CallInv, StreamInv, DrawsInv, SettleInv, PolledInv, ResolveInv, DownloadInv
        DEF ImageNext

\* Whatever a payload or a document shows, and whichever ids have an address: a
\* reference never comes back as a result, and no drawn image is kept from a client
\* that is told of none, but one without bytes at an address and the attachments
\* passed over for a file (update_conversation_state, stream_image_outputs,
\* _resolve_image_urls).
THEOREM DrawnImagesTold == ImageSpec => []ImagesTold
<1>1. ImagesInv => ImagesTold
    BY DEF ImagesInv
<1> QED BY <1>1, ImagesInit, ImagesNext, PTL DEF ImageSpec

=============================================================================
