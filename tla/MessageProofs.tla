---------------------------- MODULE MessageProofs ---------------------------
(***************************************************************************)
(* Proofs about answers to clients of the Anthropic protocol: that the      *)
(* blocks of a message are numbered, started, told and stopped in order,    *)
(* and tell what the chunks told.                                           *)
(***************************************************************************)
EXTENDS AnthropicStream, ChatProofs

-----------------------------------------------------------------------------
(* Lists of events.                                                         *)

\* Events of messages.
WordsUsed == Atoms \cup {"notice", "ping", "text", "blank", "nameless", "tool_use", "end_turn"}
EventTypes == {"message_start", "start", "text_delta", "json_delta", "stop", "message_delta",
               "message_stop", "ping", "chunk"}
Events == [type : EventTypes, index : Int, value : Seq(WordsUsed)]

\* The places of the events of a type in a list, and the blocks they are about.
At(list, type) == {i \in 1..Len(list) : list[i].type = type}
Earlier(list, type, i) == {list[j].index : j \in {k \in At(list, type) : k < i}}
Numbers(list, type) == {list[j].index : j \in At(list, type)}
ToolNumbers(list) == {list[j].index : j \in {k \in At(list, "start") : list[k].value = <<"tool_use">>}}
Deltas(list) == At(list, "text_delta") \cup At(list, "json_delta") \cup At(list, "stop")

Paired(list) ==
    /\ \A i \in At(list, "start") : Earlier(list, "start", i) = 0 .. list[i].index - 1
    /\ \A i \in Deltas(list) :
          list[i].index \in Earlier(list, "start", i) \ Earlier(list, "stop", i)

Heard(list) ==
    FlattenSeq([i \in 1..Len(list) |->
                  IF list[i].type \in {"text_delta", "chunk"} THEN list[i].value ELSE <<>>])

\* A list of events that goes on: the blocks that it started and stopped, those
\* whose arguments it told, those of calls, and the text.
Goes(list, started, stopped, argued, tools, words) ==
    /\ list \in Seq(Events)
    /\ Paired(list)
    /\ At(list, "message_stop") = {}
    /\ Numbers(list, "start") = started
    /\ Numbers(list, "stop") = stopped
    /\ Numbers(list, "json_delta") = argued
    /\ ToolNumbers(list) = tools
    /\ Heard(list) = words
    /\ words \in Seq(WordsUsed)

\* What one event more changes.
LEMMA OneMore ==
    ASSUME NEW list \in Seq(Events), NEW e \in Events
    PROVE  /\ Append(list, e) \in Seq(Events)
           /\ \A t : /\ Numbers(Append(list, e), t)
                          = Numbers(list, t) \cup (IF e.type = t THEN {e.index} ELSE {})
                     /\ At(Append(list, e), t)
                          = At(list, t) \cup (IF e.type = t THEN {Len(list) + 1} ELSE {})
           /\ ToolNumbers(Append(list, e))
                 = ToolNumbers(list)
                      \cup (IF e.type = "start" /\ e.value = <<"tool_use">> THEN {e.index} ELSE {})
           /\ Heard(Append(list, e))
                 = Heard(list) \o (IF e.type \in {"text_delta", "chunk"} THEN e.value ELSE <<>>)
           /\ Heard(list) \in Seq(WordsUsed)
           /\ Heard(Append(list, e)) \in Seq(WordsUsed)
<1> DEFINE n == Len(list)
           all == Append(list, e)
<1>1. /\ n \in Nat /\ Len(all) = n + 1 /\ all \in Seq(Events) /\ all[n + 1] = e
      /\ \A i \in 1..n : all[i] = list[i] /\ list[i] \in Events
    OBVIOUS
<1> HIDE DEF all, n
<1>2. \A i : i \in 1..(n + 1) <=> (i \in 1..n \/ i = n + 1)
    BY <1>1
<1>3. ASSUME NEW t
      PROVE  /\ At(all, t) = At(list, t) \cup (IF e.type = t THEN {n + 1} ELSE {})
             /\ Numbers(all, t) = Numbers(list, t) \cup (IF e.type = t THEN {e.index} ELSE {})
    <2>1. At(all, t) = At(list, t) \cup (IF e.type = t THEN {n + 1} ELSE {})
        BY <1>1, <1>2 DEF At, n
    <2>2. At(list, t) \subseteq 1..n
        BY DEF At, n
    <2> QED BY <1>1, <2>1, <2>2 DEF Numbers
<1>4. ToolNumbers(all) = ToolNumbers(list)
          \cup (IF e.type = "start" /\ e.value = <<"tool_use">> THEN {e.index} ELSE {})
    <2>1. At(all, "start") = At(list, "start") \cup (IF e.type = "start" THEN {n + 1} ELSE {})
        BY <1>3
    <2>2. At(list, "start") \subseteq 1..n /\ n + 1 \notin 1..n
        BY <1>1 DEF At, n
    <2> DEFINE P == {k \in At(list, "start") : list[k].value = <<"tool_use">>}
               Q == {k \in At(all, "start") : all[k].value = <<"tool_use">>}
    <2>3. Q = P \cup (IF e.type = "start" /\ e.value = <<"tool_use">> THEN {n + 1} ELSE {})
        BY <1>1, <2>1, <2>2
    <2>4. ToolNumbers(all) = {all[j].index : j \in Q} /\ ToolNumbers(list) = {list[j].index : j \in P}
        BY DEF ToolNumbers
    <2>5. P \subseteq 1..n
        BY <2>2
    <2> HIDE DEF P, Q
    <2> QED BY <1>1, <2>3, <2>4, <2>5
<1>5. /\ Heard(all) = Heard(list) \o (IF e.type \in {"text_delta", "chunk"} THEN e.value ELSE <<>>)
      /\ Heard(list) \in Seq(WordsUsed) /\ Heard(all) \in Seq(WordsUsed)
    <2> DEFINE Word(c) == IF c.type \in {"text_delta", "chunk"} THEN c.value ELSE <<>>
               p == [i \in 1..n |-> Word(list[i])]
               q == [i \in 1..(n + 1) |-> Word(all[i])]
    <2>1. \A c \in Events : Word(c) \in Seq(WordsUsed)
        BY DEF Events
    <2>2. Heard(all) = FlattenSeq(q) /\ Heard(list) = FlattenSeq(p)
        BY <1>1 DEF Heard, n
    <2> DEFINE S == Seq(WordsUsed)
               x == Word(e)
    <2>3. x \in S /\ \A i \in 1..n : Word(list[i]) \in S
        BY <1>1, <2>1
    <2>4. q = [i \in 1..(n + 1) |-> IF i = n + 1 THEN x ELSE p[i]]
        BY <1>1, <1>2
    <2> HIDE DEF Word, S, x
    <2>5. p \in [1..n -> S]
        BY <2>3
    <2>6. q \in [1..(n + 1) -> S] /\ q[n + 1] = x /\ \A i \in 1..n : q[i] = p[i]
        BY <1>1, <1>2, <2>3, <2>4, <2>5
    <2> HIDE DEF p, q
    <2>7. p \in Seq(S) /\ Len(p) = n /\ n + 1 \in Nat
        BY <1>1, <2>5
    <2>8. q \in Seq(S) /\ Len(q) = n + 1
        BY <2>6, <2>7
    <2>9. /\ Append(p, x) \in Seq(S) /\ Len(Append(p, x)) = n + 1
          /\ Append(p, x)[n + 1] = x /\ \A i \in 1..n : Append(p, x)[i] = p[i]
        BY <2>3, <2>7, AppendProperties
    <2>10. \A i \in 1..Len(q) : q[i] = Append(p, x)[i]
        BY <1>2, <2>6, <2>8, <2>9
    <2>11. q = Append(p, x)
        BY <2>8, <2>9, <2>10, SeqEqual
    <2>12. FlattenSeq(Append(p, x)) = FlattenSeq(p) \o x
        BY <2>3, <2>7, FlattenAppend DEF S
    <2>13. FlattenSeq(p) \in Seq(WordsUsed) /\ FlattenSeq(q) \in Seq(WordsUsed)
        BY <2>7, <2>8, FlattenTyped DEF S
    <2> QED BY <2>2, <2>11, <2>12, <2>13 DEF x, Word
<1> QED BY <1>1, <1>3, <1>4, <1>5 DEF all, n

\* An event fits a list when the blocks are numbered in the order in which they
\* start, and what is told of a block comes between its start and its stop.
Fits(e, started, stopped) ==
    /\ e \in Events
    /\ e.type # "message_stop"
    /\ e.type = "start" => started = 0 .. e.index - 1
    /\ e.type \in {"text_delta", "json_delta", "stop"} => e.index \in started \ stopped

\* An event that fits keeps the blocks in order.
LEMMA PairedMore ==
    ASSUME NEW list \in Seq(Events), NEW e \in Events, Paired(list),
           e.type = "start" => Numbers(list, "start") = 0 .. e.index - 1,
           e.type \in {"text_delta", "json_delta", "stop"}
              => e.index \in Numbers(list, "start") \ Numbers(list, "stop")
    PROVE  Paired(Append(list, e))
<1> DEFINE n == Len(list)
           all == Append(list, e)
<1>1. /\ n \in Nat /\ all[n + 1] = e
      /\ \A i \in 1..n : all[i] = list[i]
    OBVIOUS
<1>2. \A t : /\ At(all, t) = At(list, t) \cup (IF e.type = t THEN {n + 1} ELSE {})
             /\ At(list, t) \subseteq 1..n
    BY OneMore DEF At
<1> SUFFICES Paired(all)
    OBVIOUS
<1> HIDE DEF all, n
<1>3. ASSUME NEW t, NEW i \in 1..(n + 1)
      PROVE  {k \in At(all, t) : k < i} = {k \in At(list, t) : k < i}
    <2>1. ~(n + 1 < i)
        BY <1>1
    <2> QED BY <1>2, <2>1
<1>4. ASSUME NEW t, NEW i \in 1..(n + 1)
      PROVE  Earlier(all, t, i) = Earlier(list, t, i)
    <2>1. \A k \in At(list, t) : all[k] = list[k]
        BY <1>1, <1>2
    <2> DEFINE P == {k \in At(all, t) : k < i}
               Q == {k \in At(list, t) : k < i}
    <2>2. P = Q
        BY <1>3
    <2>3. \A k \in Q : all[k] = list[k]
        BY <2>1
    <2> HIDE DEF P, Q
    <2>4. {all[k].index : k \in P} = {list[k].index : k \in Q}
        BY <2>2, <2>3
    <2> QED BY <2>4 DEF Earlier, P, Q
<1>5. ASSUME NEW t
      PROVE  Earlier(all, t, n + 1) = Numbers(list, t)
    <2>1. n + 1 \in 1..(n + 1)
        BY <1>1
    <2>2. {k \in At(list, t) : k < n + 1} = At(list, t)
        BY <1>1, <1>2
    <2>3. Earlier(list, t, n + 1) = Numbers(list, t)
        BY <2>2 DEF Earlier, Numbers
    <2> QED BY <1>4, <2>1, <2>3
<1>6. ASSUME NEW i \in At(all, "start")
      PROVE  Earlier(all, "start", i) = 0 .. all[i].index - 1
    <2>1. CASE i \in At(list, "start")
        <3>1. i \in 1..n /\ i \in 1..(n + 1)
            BY <1>1, <1>2, <2>1
        <3> QED BY <1>1, <1>4, <2>1, <3>1 DEF Paired
    <2>2. CASE i \notin At(list, "start")
        <3>1. i = n + 1 /\ e.type = "start"
            BY <1>2, <1>6, <2>2
        <3> QED BY <1>1, <1>5, <3>1
    <2> QED BY <2>1, <2>2
<1>7. ASSUME NEW i \in Deltas(all)
      PROVE  all[i].index \in Earlier(all, "start", i) \ Earlier(all, "stop", i)
    <2>1. CASE i \in Deltas(list)
        <3>1. i \in 1..n /\ i \in 1..(n + 1)
            BY <1>1, <1>2, <2>1 DEF Deltas
        <3> QED BY <1>1, <1>4, <2>1, <3>1 DEF Paired
    <2>2. CASE i \notin Deltas(list)
        <3>1. i = n + 1 /\ e.type \in {"text_delta", "json_delta", "stop"}
            BY <1>2, <1>7, <2>2 DEF Deltas
        <3> QED BY <1>1, <1>5, <3>1
    <2> QED BY <2>1, <2>2
<1> QED BY <1>6, <1>7 DEF Paired

\* A list goes on with an event that fits.
LEMMA GoesOn ==
    ASSUME NEW list, NEW started, NEW stopped, NEW argued, NEW tools, NEW words,
           Goes(list, started, stopped, argued, tools, words),
           NEW e, Fits(e, started, stopped)
    PROVE  Goes(Append(list, e),
                started \cup (IF e.type = "start" THEN {e.index} ELSE {}),
                stopped \cup (IF e.type = "stop" THEN {e.index} ELSE {}),
                argued \cup (IF e.type = "json_delta" THEN {e.index} ELSE {}),
                tools \cup (IF e.type = "start" /\ e.value = <<"tool_use">> THEN {e.index} ELSE {}),
                words \o (IF e.type \in {"text_delta", "chunk"} THEN e.value ELSE <<>>))
<1>1. list \in Seq(Events) /\ e \in Events
    BY DEF Goes, Fits
<1>2. Paired(Append(list, e))
    BY <1>1, PairedMore DEF Goes, Fits
<1>3. At(Append(list, e), "message_stop") = {}
    BY <1>1, OneMore DEF Goes, Fits
<1> QED BY <1>1, <1>2, <1>3, OneMore DEF Goes

\* Nothing has been told yet.
LEMMA GoesNothing == Goes(<<>>, {}, {}, {}, {}, <<>>)
<1>1. <<>> \in Seq(Events) /\ <<>> \in Seq(WordsUsed) /\ Len(<<>>) = 0 /\ 1..0 = {}
    OBVIOUS
<1>2. \A t : At(<<>>, t) = {}
    BY <1>1 DEF At
<1>3. Heard(<<>>) = <<>>
    <2> DEFINE p == [i \in 1..Len(<<>>) |-> IF <<>>[i].type \in {"text_delta", "chunk"} THEN <<>>[i].value ELSE <<>>]
    <2>1. p = [i \in 1..0 |-> <<>>]
        BY <1>1
    <2> HIDE DEF p
    <2>2. FlattenSeq(p) = <<>>
        BY <2>1, FlattenNothing
    <2> QED BY <2>2 DEF Heard, p
<1> QED BY <1>1, <1>2, <1>3 DEF Goes, Paired, Numbers, ToolNumbers, Deltas

\* Joining lists of events is associative.
LEMMA EventsJoin ==
    ASSUME NEW a \in Seq(Events), NEW b \in Seq(Events), NEW c \in Seq(Events)
    PROVE  (a \o b) \o c = a \o (b \o c)
    BY ConcatAssociative

\* Pieces of events that each keep a list going, all of them.
LEMMA PartsGoOn ==
    ASSUME NEW N \in Nat, NEW pieces \in Seq(Seq(Events)), Len(pieces) = N,
           NEW S, NEW P, NEW J, NEW T, NEW W,
           NEW list, Goes(list, S[0], P[0], J[0], T[0], W[0]),
           \A k \in 1..N : \A l :
              Goes(l, S[k - 1], P[k - 1], J[k - 1], T[k - 1], W[k - 1])
                 => Goes(l \o pieces[k], S[k], P[k], J[k], T[k], W[k])
    PROVE  Goes(list \o FlattenSeq(pieces), S[N], P[N], J[N], T[N], W[N])
<1> DEFINE H(k, l) == Goes(l, S[k], P[k], J[k], T[k], W[k])
<1>1. H(0, list) /\ \A k \in 1..N : \A l : H(k - 1, l) => H(k, l \o pieces[k])
    OBVIOUS
<1>2. list \in Seq(Events) /\ \A k \in 1..N : pieces[k] \in Seq(Events)
    BY DEF Goes
<1> SUFFICES H(N, list \o FlattenSeq(pieces))
    OBVIOUS
<1> HIDE DEF H
<1>3. CASE N = 0
    <2>1. pieces = <<>>
        BY <1>3
    <2>2. FlattenSeq(pieces) = <<>>
        BY <2>1 DEF FlattenSeq
    <2> QED BY <1>1, <1>2, <1>3, <2>2, ConcatEmptySeq
<1>4. CASE N # 0
    <2>1. PICK f : /\ f = [i \in 1..N |-> IF i = 1 THEN pieces[i] ELSE f[i - 1] \o pieces[i]]
                   /\ FlattenSeq(pieces) = f[N]
        BY <1>4, FlattenParts
    <2> DEFINE Good(k) == f[k] \in Seq(Events) /\ H(k, list \o f[k])
               U == {k \in 1..N : ~Good(k)}
    <2>2. U = {}
        <3>1. SUFFICES ASSUME U # {}
                       PROVE  FALSE
            OBVIOUS
        <3>2. PICK k \in 1..N : ~Good(k) /\ \A m \in 1..N : ~Good(m) => k <= m
            <4> HIDE DEF Good
            <4>1. U \in SUBSET Nat
                OBVIOUS
            <4> QED BY <3>1, <4>1, LeastOne
        <3>3. CASE k = 1
            <4>1. f[1] = pieces[1] /\ 1 \in 1..N /\ 1 - 1 = 0
                BY <2>1, <3>2, <3>3
            <4>2. H(1, list \o pieces[1])
                BY <1>1, <4>1
            <4> QED BY <1>2, <3>2, <3>3, <4>1, <4>2
        <3>4. CASE k # 1
            <4>1. k - 1 \in 1..N /\ ~(k <= k - 1)
                BY <3>4
            <4>2. Good(k - 1)
                <5> HIDE DEF Good
                <5> QED BY <3>2, <4>1
            <4>3. f[k] = f[k - 1] \o pieces[k]
                BY <2>1, <3>4
            <4>4. f[k] \in Seq(Events)
                BY <1>2, <4>2, <4>3
            <4>5. H(k, (list \o f[k - 1]) \o pieces[k])
                BY <1>1, <4>2
            <4>6. (list \o f[k - 1]) \o pieces[k] = list \o f[k]
                <5>1. f[k - 1] \in Seq(Events) /\ pieces[k] \in Seq(Events) /\ list \in Seq(Events)
                    BY <1>2, <4>2
                <5>2. (list \o f[k - 1]) \o pieces[k] = list \o (f[k - 1] \o pieces[k])
                    BY <5>1, EventsJoin
                <5> QED BY <4>3, <5>2
            <4> QED BY <3>2, <4>4, <4>5, <4>6
        <3> QED BY <3>3, <3>4
    <2>3. N \in 1..N
        BY <1>4
    <2>4. Good(N)
        <3> HIDE DEF Good
        <3> QED BY <2>2, <2>3
    <2> QED BY <2>1, <2>4
<1> QED BY <1>3, <1>4

\* A list that is over.
EndsWell(list) ==
    /\ DOMAIN list = 1..Len(list) /\ Len(list) \in Nat
    /\ Paired(list)
    /\ \A i \in At(list, "message_stop") : i = Len(list)
    /\ Numbers(list, "start") \subseteq Numbers(list, "stop")
    /\ ToolNumbers(list) \subseteq Numbers(list, "json_delta")

Finish(reason) == <<MessageEvent("message_delta", <<reason>>), MessageEvent("message_stop", <<>>)>>

\* A list whose blocks are all stopped and argued can be ended.
LEMMA EndOfList ==
    ASSUME NEW list, NEW S, NEW P, NEW J, NEW T, NEW W, Goes(list, S, P, J, T, W),
           S \subseteq P, T \subseteq J, NEW reason \in {"tool_use", "end_turn"}
    PROVE  EndsWell(list \o Finish(reason)) /\ Heard(list \o Finish(reason)) = W
<1> DEFINE d == MessageEvent("message_delta", <<reason>>)
           s == MessageEvent("message_stop", <<>>)
           spoken == Append(list, d)
           all == Append(spoken, s)
<1>1. /\ d \in Events /\ d.type = "message_delta"
      /\ s \in Events /\ s.type = "message_stop"
    <2>1. <<reason>> \in Seq(WordsUsed) /\ <<>> \in Seq(WordsUsed) /\ -1 \in Int
        BY DEF WordsUsed
    <2> QED BY <2>1 DEF MessageEvent, BlockEvent, Events, EventTypes
<1>2. list \in Seq(Events) /\ W \in Seq(WordsUsed) /\ Len(list) \in Nat
    BY DEF Goes
<1>3. list \o Finish(reason) = all
    <2>1. Finish(reason) = <<d, s>>
        BY DEF Finish
    <2> HIDE DEF d, s
    <2>2. list \o <<d, s>> = Append(Append(list, d), s)
        BY <1>1, <1>2
    <2> QED BY <2>1, <2>2
<1> HIDE DEF d, s
<1>4. Goes(spoken, S, P, J, T, W)
    <2>1. Fits(d, S, P)
        BY <1>1 DEF Fits
    <2>2. Goes(spoken, S \cup {}, P \cup {}, J \cup {}, T \cup {}, W \o <<>>)
        BY <1>1, <2>1, GoesOn
    <2>3. W \o <<>> = W
        BY <1>2, ConcatEmptySeq
    <2> QED BY <2>2, <2>3
<1> HIDE DEF spoken
<1>5. spoken \in Seq(Events)
    BY <1>4 DEF Goes
<1>6. Paired(all)
    BY <1>1, <1>4, <1>5, PairedMore DEF Goes
<1>7. /\ all \in Seq(Events) /\ Len(all) = Len(spoken) + 1
      /\ At(all, "message_stop") = {Len(spoken) + 1}
      /\ Numbers(all, "start") = S /\ Numbers(all, "stop") = P
      /\ Numbers(all, "json_delta") = J /\ ToolNumbers(all) = T
      /\ Heard(all) = W \o <<>>
    <2>1. /\ Numbers(spoken, "start") = S /\ Numbers(spoken, "stop") = P
          /\ Numbers(spoken, "json_delta") = J /\ ToolNumbers(spoken) = T
          /\ Heard(spoken) = W /\ At(spoken, "message_stop") = {}
        BY <1>4 DEF Goes
    <2>2. Append(spoken, s) \in Seq(Events) /\ Len(Append(spoken, s)) = Len(spoken) + 1
        BY <1>1, <1>5
    <2>3. \A t : /\ Numbers(Append(spoken, s), t)
                        = Numbers(spoken, t) \cup (IF s.type = t THEN {s.index} ELSE {})
                 /\ At(Append(spoken, s), t)
                        = At(spoken, t) \cup (IF s.type = t THEN {Len(spoken) + 1} ELSE {})
        BY <1>1, <1>5, OneMore
    <2>4. /\ ToolNumbers(Append(spoken, s))
                = ToolNumbers(spoken)
                     \cup (IF s.type = "start" /\ s.value = <<"tool_use">> THEN {s.index} ELSE {})
          /\ Heard(Append(spoken, s))
                = Heard(spoken) \o (IF s.type \in {"text_delta", "chunk"} THEN s.value ELSE <<>>)
        BY <1>1, <1>5, OneMore
    <2>5. /\ Numbers(all, "start") = S /\ Numbers(all, "stop") = P /\ Numbers(all, "json_delta") = J
          /\ At(all, "message_stop") = {Len(spoken) + 1}
        BY <1>1, <2>1, <2>3
    <2>6. ToolNumbers(all) = T /\ Heard(all) = W \o <<>>
        BY <1>1, <2>1, <2>4
    <2> QED BY <2>2, <2>5, <2>6
<1>8. W \o <<>> = W
    BY <1>2, ConcatEmptySeq
<1> HIDE DEF all
<1>9. DOMAIN all = 1..Len(all) /\ Len(all) \in Nat
    BY <1>7
<1> QED BY <1>3, <1>6, <1>7, <1>8, <1>9 DEF EndsWell

\* The events that can come next.
LEMMA EventTyped ==
    ASSUME NEW t \in EventTypes, NEW n \in Int, NEW v \in Seq(WordsUsed)
    PROVE  /\ BlockEvent(t, n, v) \in Events
           /\ BlockEvent(t, n, v).type = t
           /\ BlockEvent(t, n, v).index = n
           /\ BlockEvent(t, n, v).value = v
    BY DEF BlockEvent, Events

\* The start of the block that comes next.
LEMMA StartGoesOn ==
    ASSUME NEW l, NEW S, NEW P, NEW J, NEW T, NEW w, Goes(l, S, P, J, T, w),
           NEW n \in Nat, S = 0..(n - 1), NEW v \in {"text", "tool_use"}
    PROVE  Goes(Append(l, BlockEvent("start", n, <<v>>)), 0..n, P, J,
                T \cup (IF v = "tool_use" THEN {n} ELSE {}), w)
<1> DEFINE e == BlockEvent("start", n, <<v>>)
           X == IF v = "tool_use" THEN {n} ELSE {}
<1>1. /\ e \in Events /\ e.type = "start" /\ e.index = n
      /\ (e.value = <<"tool_use">>) <=> v = "tool_use"
    <2>1. "text" \in WordsUsed /\ "tool_use" \in WordsUsed
        BY DEF WordsUsed
    <2>2. <<v>> \in Seq(WordsUsed) /\ "start" \in EventTypes
        BY <2>1 DEF EventTypes
    <2>3. e \in Events /\ e.type = "start" /\ e.index = n /\ e.value = <<v>>
        BY <2>2 DEF BlockEvent, Events
    <2> HIDE DEF e
    <2>4. (<<v>> = <<"tool_use">>) <=> v = "tool_use"
        OBVIOUS
    <2> QED BY <2>3, <2>4
<1> HIDE DEF e
<1>2. Fits(e, S, P)
    BY <1>1 DEF Fits
<1>3. Goes(Append(l, e), S \cup (IF e.type = "start" THEN {e.index} ELSE {}),
           P \cup (IF e.type = "stop" THEN {e.index} ELSE {}),
           J \cup (IF e.type = "json_delta" THEN {e.index} ELSE {}),
           T \cup (IF e.type = "start" /\ e.value = <<"tool_use">> THEN {e.index} ELSE {}),
           w \o (IF e.type \in {"text_delta", "chunk"} THEN e.value ELSE <<>>))
    BY <1>2, GoesOn
<1>4. w \o <<>> = w
    <2>1. w \in Seq(WordsUsed)
        BY DEF Goes
    <2> QED BY <2>1, ConcatEmptySeq
<1>5. X = IF e.type = "start" /\ e.value = <<"tool_use">> THEN {e.index} ELSE {}
    BY <1>1
<1>6. S \cup {n} = 0..n /\ P \cup {} = P /\ J \cup {} = J
    OBVIOUS
<1> QED BY <1>1, <1>3, <1>4, <1>5, <1>6 DEF e

\* What is told of a block that is open, and its stop.
LEMMA BlockGoesOn ==
    ASSUME NEW l, NEW S, NEW P, NEW J, NEW T, NEW w, Goes(l, S, P, J, T, w),
           NEW n \in Int, n \in S, n \notin P, NEW v \in Seq(WordsUsed)
    PROVE  /\ Goes(Append(l, BlockEvent("text_delta", n, v)), S, P, J, T, w \o v)
           /\ Goes(Append(l, BlockEvent("json_delta", n, <<>>)), S, P, J \cup {n}, T, w)
           /\ Goes(Append(l, BlockEvent("stop", n, <<>>)), S, P \cup {n}, J, T, w)
<1>1. w \o <<>> = w /\ <<>> \in Seq(WordsUsed)
    <2>1. w \in Seq(WordsUsed)
        BY DEF Goes
    <2> QED BY <2>1, ConcatEmptySeq
<1>2. ASSUME NEW t \in {"text_delta", "json_delta", "stop"}, NEW x \in Seq(WordsUsed)
      PROVE  Goes(Append(l, BlockEvent(t, n, x)), S, P \cup (IF t = "stop" THEN {n} ELSE {}),
                  J \cup (IF t = "json_delta" THEN {n} ELSE {}), T,
                  w \o (IF t = "text_delta" THEN x ELSE <<>>))
    <2> DEFINE e == BlockEvent(t, n, x)
    <2>1. e \in Events /\ e.type = t /\ e.index = n /\ e.value = x
        <3>1. t \in EventTypes
            BY DEF EventTypes
        <3> QED BY <3>1, EventTyped
    <2> HIDE DEF e
    <2>2. Fits(e, S, P)
        BY <2>1 DEF Fits
    <2>3. Goes(Append(l, e), S \cup (IF e.type = "start" THEN {e.index} ELSE {}),
               P \cup (IF e.type = "stop" THEN {e.index} ELSE {}),
               J \cup (IF e.type = "json_delta" THEN {e.index} ELSE {}),
               T \cup (IF e.type = "start" /\ e.value = <<"tool_use">> THEN {e.index} ELSE {}),
               w \o (IF e.type \in {"text_delta", "chunk"} THEN e.value ELSE <<>>))
        BY <2>2, GoesOn
    <2>4. e.type # "start" /\ (e.type \in {"text_delta", "chunk"} <=> t = "text_delta")
        BY <2>1
    <2>5. S \cup {} = S /\ T \cup {} = T
        OBVIOUS
    <2> QED BY <2>1, <2>3, <2>4, <2>5 DEF e
<1>3. Goes(Append(l, BlockEvent("text_delta", n, v)), S, P \cup {}, J \cup {}, T, w \o v)
    BY <1>2
<1>4. Goes(Append(l, BlockEvent("json_delta", n, <<>>)), S, P \cup {}, J \cup {n}, T, w \o <<>>)
    BY <1>1, <1>2
<1>5. Goes(Append(l, BlockEvent("stop", n, <<>>)), S, P \cup {n}, J \cup {}, T, w \o <<>>)
    BY <1>1, <1>2
<1>6. P \cup {} = P /\ J \cup {} = J
    OBVIOUS
<1> QED BY <1>1, <1>3, <1>4, <1>5, <1>6

\* What is told of the message itself.
LEMMA MessageGoesOn ==
    ASSUME NEW l, NEW S, NEW P, NEW J, NEW T, NEW w, Goes(l, S, P, J, T, w),
           NEW t \in {"message_start", "message_delta", "ping", "chunk"}, NEW v \in Seq(WordsUsed)
    PROVE  Goes(Append(l, MessageEvent(t, v)), S, P, J, T, w \o (IF t = "chunk" THEN v ELSE <<>>))
<1> DEFINE e == MessageEvent(t, v)
<1>1. e \in Events /\ e.type = t /\ e.value = v
    <2>1. t \in EventTypes /\ -1 \in Int
        BY DEF EventTypes
    <2> QED BY <2>1, EventTyped DEF MessageEvent
<1> HIDE DEF e
<1>2. Fits(e, S, P)
    BY <1>1 DEF Fits
<1>3. Goes(Append(l, e), S \cup (IF e.type = "start" THEN {e.index} ELSE {}),
           P \cup (IF e.type = "stop" THEN {e.index} ELSE {}),
           J \cup (IF e.type = "json_delta" THEN {e.index} ELSE {}),
           T \cup (IF e.type = "start" /\ e.value = <<"tool_use">> THEN {e.index} ELSE {}),
           w \o (IF e.type \in {"text_delta", "chunk"} THEN e.value ELSE <<>>))
    BY <1>2, GoesOn
<1>4. /\ e.type \notin {"start", "stop", "json_delta"}
      /\ e.type \in {"text_delta", "chunk"} <=> t = "chunk"
    BY <1>1
<1>5. S \cup {} = S /\ P \cup {} = P /\ J \cup {} = J /\ T \cup {} = T
    OBVIOUS
<1> QED BY <1>1, <1>3, <1>4, <1>5 DEF e

\* The arguments and stops of the blocks of calls.
LEMMA ToolsEnd ==
    ASSUME NEW N \in Nat, NEW numbers \in [1..N -> Int],
           \A i, j \in 1..N : numbers[i] = numbers[j] => i = j,
           NEW list, NEW started, NEW stopped, NEW tools, NEW words,
           Goes(list, started, stopped, {}, tools, words),
           \A i \in 1..N : numbers[i] \in started \ stopped
    PROVE  Goes(list \o FlattenSeq([i \in 1..N |-> ToolEnd(numbers[i])]),
                started, stopped \cup {numbers[i] : i \in 1..N},
                {numbers[i] : i \in 1..N}, tools, words)
<1> DEFINE pieces == [i \in 1..N |-> ToolEnd(numbers[i])]
           S == [k \in 0..N |-> started]
           P == [k \in 0..N |-> stopped \cup {numbers[i] : i \in 1..k}]
           J == [k \in 0..N |-> {numbers[i] : i \in 1..k}]
           T == [k \in 0..N |-> tools]
           W == [k \in 0..N |-> words]
<1>1. \A n \in Int : /\ BlockEvent("json_delta", n, <<>>) \in Events
                     /\ BlockEvent("stop", n, <<>>) \in Events
                     /\ ToolEnd(n) \in Seq(Events)
    <2>1. <<>> \in Seq(WordsUsed)
        OBVIOUS
    <2>2. \A n \in Int : /\ BlockEvent("json_delta", n, <<>>) \in Events
                         /\ BlockEvent("stop", n, <<>>) \in Events
        BY <2>1 DEF BlockEvent, Events, EventTypes
    <2> QED BY <2>2 DEF ToolEnd
<1>2. pieces \in Seq(Seq(Events)) /\ Len(pieces) = N
    <2> DEFINE X == Seq(Events)
    <2>1. \A i \in 1..N : ToolEnd(numbers[i]) \in X
        BY <1>1
    <2> HIDE DEF X
    <2>2. pieces \in [1..N -> X]
        BY <2>1
    <2>3. pieces \in Seq(X) /\ Len(pieces) = N
        BY <2>2
    <2> QED BY <2>3 DEF X
<1>3. 0 \in 0..N /\ N \in 0..N /\ 1..0 = {}
    OBVIOUS
<1>4. S[0] = started /\ P[0] = stopped /\ J[0] = {} /\ T[0] = tools /\ W[0] = words
    BY <1>3
<1>5. ASSUME NEW k \in 1..N, NEW l, Goes(l, S[k - 1], P[k - 1], J[k - 1], T[k - 1], W[k - 1])
      PROVE  Goes(l \o pieces[k], S[k], P[k], J[k], T[k], W[k])
    <2> DEFINE n == numbers[k]
               a == BlockEvent("json_delta", n, <<>>)
               b == BlockEvent("stop", n, <<>>)
               past == {numbers[i] : i \in 1..(k - 1)}
    <2>1. k \in 0..N /\ k - 1 \in 0..N /\ 1..k = (1..(k - 1)) \cup {k}
        OBVIOUS
    <2>2. /\ S[k - 1] = started /\ P[k - 1] = stopped \cup past /\ J[k - 1] = past
          /\ T[k - 1] = tools /\ W[k - 1] = words
        BY <2>1
    <2>3. {numbers[i] : i \in 1..k} = past \cup {n}
        BY <2>1
    <2>4. /\ S[k] = started /\ P[k] = stopped \cup (past \cup {n}) /\ J[k] = past \cup {n}
          /\ T[k] = tools /\ W[k] = words
        BY <2>1, <2>3
    <2>5. n \in Int /\ n \in started /\ n \notin stopped /\ n \notin past
        <3>1. \A i \in 1..(k - 1) : i \in 1..N /\ i # k
            OBVIOUS
        <3> QED BY <3>1
    <2>6. a \in Events /\ b \in Events
        BY <1>1, <2>5
    <2>7. pieces[k] = <<a, b>>
        BY DEF ToolEnd
    <2> HIDE DEF n, past, S, P, J, T, W, pieces
    <2>8. Goes(l, started, stopped \cup past, past, tools, words)
        BY <1>5, <2>2
    <2> DEFINE m == Append(l, a)
    <2>9. /\ n \notin stopped \cup past /\ <<>> \in Seq(WordsUsed)
          /\ (stopped \cup past) \cup {n} = stopped \cup (past \cup {n})
        BY <2>5
    <2>10. Goes(m, started, stopped \cup past, past \cup {n}, tools, words)
        BY <2>5, <2>8, <2>9, BlockGoesOn
    <2> HIDE DEF m
    <2>11. Goes(Append(m, b), started, stopped \cup (past \cup {n}), past \cup {n}, tools, words)
        <3>1. Goes(Append(m, b), started, (stopped \cup past) \cup {n}, past \cup {n}, tools, words)
            BY <2>5, <2>9, <2>10, BlockGoesOn
        <3> QED BY <2>9, <3>1
    <2> HIDE DEF a, b
    <2>12. l \in Seq(Events)
        BY <2>8 DEF Goes
    <2>13. l \o <<a, b>> = Append(m, b)
        BY <2>6, <2>12 DEF m
    <2> QED BY <2>4, <2>7, <2>11, <2>13
<1>6. P[N] = stopped \cup {numbers[i] : i \in 1..N} /\ J[N] = {numbers[i] : i \in 1..N}
    BY <1>3
<1>7. S[N] = started /\ T[N] = tools /\ W[N] = words
    BY <1>3
<1> SUFFICES Goes(list \o FlattenSeq(pieces), S[N], P[N], J[N], T[N], W[N])
    BY <1>6, <1>7
<1> HIDE DEF S, P, J, T, W, pieces
<1>8. Goes(list, S[0], P[0], J[0], T[0], W[0])
    BY <1>4
<1> QED BY <1>2, <1>5, <1>8, PartsGoOn

\* The parts of an answer of Qoder, and the text of one.
Parts == {"empty", "blank", "text", "call", "nameless"}
PartText(part) == IF part \in {"empty", "call"} THEN <<>> ELSE <<part>>

\* The text of a part.
LEMMA PartTyped == \A part \in Parts : PartText(part) \in Seq(WordsUsed)
<1>1. \A part \in {"blank", "text", "nameless"} : part \in WordsUsed
    BY DEF WordsUsed
<1>2. \A part \in WordsUsed : <<part>> \in Seq(WordsUsed)
    OBVIOUS
<1>3. <<>> \in Seq(WordsUsed)
    OBVIOUS
<1> QED BY <1>1, <1>2, <1>3 DEF Parts, PartText

\* The events of one part.
LEMMA PartGoesOn ==
    ASSUME NEW part \in Parts, NEW n \in Nat,
           NEW l, NEW J, NEW T, NEW w, Goes(l, 0..(n - 1), 0..(n - 1), J, T, w)
    PROVE  Goes(l \o PartEvents(part, n), 0..n, 0..n,
                J \cup (IF part = "call" THEN {n} ELSE {}),
                T \cup (IF part = "call" THEN {n} ELSE {}), w \o PartText(part))
<1> DEFINE v == IF part = "call" THEN "tool_use" ELSE "text"
           a == BlockEvent("start", n, <<v>>)
           b == IF part = "call" THEN BlockEvent("json_delta", n, <<>>)
                ELSE BlockEvent("text_delta", n, <<part>>)
           c == BlockEvent("stop", n, <<>>)
           mid == IF part = "empty" THEN <<>> ELSE <<b>>
           R == IF part = "call" THEN {n} ELSE {}
           P == 0..(n - 1)
           one == Append(l, a)
           two == IF part = "empty" THEN one ELSE Append(one, b)
<1>1. /\ n \in Int /\ n \notin P /\ n \in 0..n /\ P \cup {n} = 0..n
      /\ <<>> \in Seq(WordsUsed) /\ PartText(part) \in Seq(WordsUsed)
    BY PartTyped
<1>2. Goes(one, 0..n, P, J, T \cup R, w)
    <2>1. v \in {"text", "tool_use"} /\ R = IF v = "tool_use" THEN {n} ELSE {}
        OBVIOUS
    <2> HIDE DEF v, R
    <2> QED BY <2>1, StartGoesOn
<1>3. l \in Seq(Events) /\ one \in Seq(Events) /\ w \in Seq(WordsUsed) /\ w \o <<>> = w
    <2>1. l \in Seq(Events) /\ one \in Seq(Events) /\ w \in Seq(WordsUsed)
        BY <1>2 DEF Goes
    <2> QED BY <2>1, ConcatEmptySeq
<1> HIDE DEF one, P
<1>4. Goes(two, 0..n, P, J \cup R, T \cup R, w \o PartText(part))
    <2>1. CASE part = "empty"
        BY <1>2, <1>3, <2>1 DEF PartText
    <2>2. CASE part = "call"
        <3>1. Goes(Append(one, b), 0..n, P, J \cup {n}, T \cup R, w)
            BY <1>1, <1>2, <2>2, BlockGoesOn
        <3> QED BY <1>3, <2>2, <3>1 DEF PartText
    <2>3. CASE part \notin {"empty", "call"}
        <3>1. Goes(Append(one, b), 0..n, P, J, T \cup R, w \o PartText(part))
            BY <1>1, <1>2, <2>3, BlockGoesOn DEF PartText
        <3> QED BY <2>3, <3>1
    <2> QED BY <2>1, <2>2, <2>3
<1> HIDE DEF R
<1>5. Goes(Append(two, c), 0..n, 0..n, J \cup R, T \cup R, w \o PartText(part))
    <2> DEFINE x == w \o PartText(part)
    <2> HIDE DEF two, x
    <2>1. Goes(two, 0..n, P, J \cup R, T \cup R, x)
        BY <1>4 DEF x
    <2>2. Goes(Append(two, c), 0..n, P \cup {n}, J \cup R, T \cup R, x)
        BY <1>1, <2>1, BlockGoesOn
    <2> QED BY <1>1, <2>2 DEF x
<1>6. l \o PartEvents(part, n) = Append(two, c)
    <2>1. a \in Events /\ c \in Events /\ (part # "empty" => b \in Events)
        <3>1. {"start", "json_delta", "text_delta", "stop"} \subseteq EventTypes
            BY DEF EventTypes
        <3>2. <<v>> \in Seq(WordsUsed) /\ <<>> \in Seq(WordsUsed)
            BY DEF WordsUsed
        <3>3. part # "empty" /\ part # "call" => <<part>> \in Seq(WordsUsed)
            BY <1>1 DEF PartText
        <3>4. a \in Events /\ c \in Events
            BY <1>1, <3>1, <3>2, EventTyped
        <3>5. part # "empty" => b \in Events
            BY <1>1, <3>1, <3>2, <3>3, EventTyped
        <3> QED BY <3>4, <3>5
    <2>2. PartEvents(part, n) = (<<a>> \o mid) \o <<c>>
        BY DEF PartEvents
    <2> HIDE DEF a, b, c
    <2>3. <<a>> \in Seq(Events) /\ <<c>> \in Seq(Events) /\ mid \in Seq(Events)
        BY <2>1
    <2>4. two = one \o mid /\ two \in Seq(Events)
        BY <1>3, <2>1, ConcatEmptySeq, AppendIsConcat
    <2> HIDE DEF mid, two
    <2>5. <<a>> \o mid \in Seq(Events)
        BY <2>3
    <2>6. l \o ((<<a>> \o mid) \o <<c>>) = (l \o (<<a>> \o mid)) \o <<c>>
        BY <1>3, <2>3, <2>5, EventsJoin
    <2>7. l \o (<<a>> \o mid) = (l \o <<a>>) \o mid
        BY <1>3, <2>3, EventsJoin
    <2>8. l \o <<a>> = one
        BY <1>3, <2>1, AppendIsConcat DEF one
    <2>9. two \o <<c>> = Append(two, c)
        BY <2>1, <2>4, AppendIsConcat
    <2> QED BY <2>2, <2>4, <2>6, <2>7, <2>8, <2>9
<1> QED BY <1>5, <1>6 DEF R

\* All parts of an answer.
LEMMA PartsEnd ==
    ASSUME NEW blocks \in Seq(Parts), NEW list, NEW words, Goes(list, {}, {}, {}, {}, words)
    PROVE  LET N == Len(blocks)
               calls == {i - 1 : i \in {j \in 1..N : blocks[j] = "call"}}
           IN  \E heard : Goes(list \o FlattenSeq([i \in DOMAIN blocks |-> PartEvents(blocks[i], i - 1)]),
                               0..(N - 1), 0..(N - 1), calls, calls, heard)
<1> DEFINE N == Len(blocks)
           x == [i \in 1..N |-> PartText(blocks[i])]
           pieces == [i \in DOMAIN blocks |-> PartEvents(blocks[i], i - 1)]
           Called(k) == {i - 1 : i \in {j \in 1..k : blocks[j] = "call"}}
           Text(k) == FlattenSeq([i \in 1..k |-> x[i]])
           S == [k \in 0..N |-> 0..(k - 1)]
           J == [k \in 0..N |-> Called(k)]
           W == [k \in 0..N |-> words \o Text(k)]
<1>1. N \in Nat /\ DOMAIN blocks = 1..N /\ \A i \in 1..N : blocks[i] \in Parts
    OBVIOUS
<1> HIDE DEF N
<1>2. pieces = [i \in 1..N |-> PartEvents(blocks[i], i - 1)]
    BY <1>1
<1>3. \A part \in Parts, n \in Int : PartEvents(part, n) \in Seq(Events)
    <2>1. ASSUME NEW part \in Parts, NEW n \in Int
          PROVE  PartEvents(part, n) \in Seq(Events)
        <3> DEFINE a == BlockEvent("start", n, <<IF part = "call" THEN "tool_use" ELSE "text">>)
                   b == IF part = "call" THEN BlockEvent("json_delta", n, <<>>)
                        ELSE BlockEvent("text_delta", n, <<part>>)
                   c == BlockEvent("stop", n, <<>>)
                   mid == IF part = "empty" THEN <<>> ELSE <<b>>
        <3>1. "tool_use" \in WordsUsed /\ "text" \in WordsUsed
            BY DEF WordsUsed
        <3>2. <<"tool_use">> \in Seq(WordsUsed) /\ <<"text">> \in Seq(WordsUsed) /\ <<>> \in Seq(WordsUsed)
            BY <3>1
        <3>3. a \in Events /\ c \in Events
            BY <3>2 DEF BlockEvent, Events, EventTypes
        <3>4. part \notin {"empty", "call"} => <<part>> \in Seq(WordsUsed)
            BY PartTyped DEF PartText
        <3>5. part # "empty" => b \in Events
            BY <3>2, <3>4 DEF BlockEvent, Events, EventTypes
        <3>6. PartEvents(part, n) = (<<a>> \o mid) \o <<c>>
            BY DEF PartEvents
        <3> HIDE DEF a, b, c
        <3>7. mid \in Seq(Events)
            BY <3>5
        <3> HIDE DEF mid
        <3> QED BY <3>3, <3>6, <3>7
    <2> QED BY <2>1
<1>4. pieces \in Seq(Seq(Events)) /\ Len(pieces) = N
    <2> DEFINE X == Seq(Events)
               y == [i \in 1..N |-> PartEvents(blocks[i], i - 1)]
    <2>1. \A i \in 1..N : PartEvents(blocks[i], i - 1) \in X
        BY <1>1, <1>3
    <2> HIDE DEF X
    <2>2. y \in [1..N -> X]
        BY <2>1
    <2> HIDE DEF y
    <2>3. y \in Seq(X) /\ Len(y) = N
        BY <1>1, <2>2
    <2>4. pieces = y
        BY <1>2 DEF y
    <2> QED BY <2>3, <2>4 DEF X
<1>5. words \in Seq(WordsUsed) /\ words \o <<>> = words
    <2>1. words \in Seq(WordsUsed)
        BY DEF Goes
    <2> QED BY <2>1, ConcatEmptySeq
<1>6. \A i \in 1..N : x[i] = PartText(blocks[i]) /\ x[i] \in Seq(WordsUsed)
    BY <1>1, PartTyped
<1> HIDE DEF x, pieces
<1>7. S[0] = {} /\ J[0] = {} /\ W[0] = words
    <2>1. 0 \in 0..N /\ 0..(0 - 1) = {} /\ 1..0 = {}
        BY <1>1
    <2>2. Text(0) = <<>>
        <3> DEFINE e == [i \in 1..0 |-> x[i]]
        <3>1. e = [i \in 1..0 |-> <<>>] /\ 0 \in Nat
            OBVIOUS
        <3> HIDE DEF e
        <3>2. FlattenSeq(e) = <<>>
            BY <3>1, FlattenNothing
        <3> QED BY <3>2 DEF e
    <2> HIDE DEF Text
    <2> QED BY <1>5, <2>1, <2>2
<1>8. ASSUME NEW k \in 1..N, NEW l, Goes(l, S[k - 1], S[k - 1], J[k - 1], J[k - 1], W[k - 1])
      PROVE  Goes(l \o pieces[k], S[k], S[k], J[k], J[k], W[k])
    <2> DEFINE n == k - 1
               part == blocks[k]
               R == IF part = "call" THEN {n} ELSE {}
    <2>1. n \in Nat /\ k \in 0..N /\ n \in 0..N /\ k # 0 /\ k \in Nat /\ part \in Parts
        BY <1>1
    <2>2. S[n] = 0..(n - 1) /\ S[k] = 0..n
        BY <2>1
    <2>3. J[n] = Called(n) /\ J[k] = Called(k) /\ W[n] = words \o Text(n) /\ W[k] = words \o Text(k)
        BY <2>1
    <2>4. Called(k) = Called(n) \cup R
        <3>1. 1..k = (1..n) \cup {k}
            BY <2>1
        <3>2. {j \in 1..k : blocks[j] = "call"}
                 = {j \in 1..n : blocks[j] = "call"} \cup (IF part = "call" THEN {k} ELSE {})
            BY <3>1
        <3> QED BY <3>2
    <2>5. Text(k) = Text(n) \o x[k] /\ Text(n) \in Seq(WordsUsed)
        <3>1. \A i \in 1..k : x[i] \in Seq(WordsUsed)
            <4>1. \A i \in 1..k : i \in 1..N
                BY <1>1
            <4> QED BY <1>6, <4>1
        <3> QED BY <2>1, <3>1, FlattenNext
    <2>6. x[k] = PartText(part) /\ x[k] \in Seq(WordsUsed)
        BY <1>6
    <2> HIDE DEF Text, Called, S, J, W
    <2>7. Goes(l, 0..(n - 1), 0..(n - 1), Called(n), Called(n), words \o Text(n))
        BY <1>8, <2>2, <2>3
    <2>8. pieces[k] = PartEvents(part, n)
        BY <1>2
    <2> HIDE DEF n, part
    <2>9. Goes(l \o PartEvents(part, n), 0..n, 0..n, Called(n) \cup R, Called(n) \cup R,
               (words \o Text(n)) \o PartText(part))
        BY <2>1, <2>7, PartGoesOn
    <2>10. (words \o Text(n)) \o x[k] = words \o (Text(n) \o x[k])
        <3> DEFINE u == Text(n)
                   z == x[k]
        <3>1. u \in Seq(WordsUsed) /\ z \in Seq(WordsUsed) /\ words \in Seq(WordsUsed)
            BY <1>5, <2>5, <2>6
        <3> HIDE DEF u, z
        <3>2. (words \o u) \o z = words \o (u \o z)
            BY <3>1, ConcatAssociative
        <3> QED BY <3>2 DEF u, z
    <2> HIDE DEF R
    <2> QED BY <2>2, <2>3, <2>4, <2>5, <2>6, <2>8, <2>9, <2>10
<1>9. N \in 0..N /\ S[N] = 0..(N - 1) /\ J[N] = Called(N)
    BY <1>1
<1>10. Goes(list, S[0], S[0], J[0], J[0], W[0])
    BY <1>7
<1> HIDE DEF S, J, W
<1>11. Goes(list \o FlattenSeq(pieces), S[N], S[N], J[N], J[N], W[N])
    BY <1>1, <1>4, <1>8, <1>10, PartsGoOn
<1> QED BY <1>9, <1>11 DEF N, pieces

-----------------------------------------------------------------------------
(* The converter.                                                           *)

\* What the chunks are, of whatever answer, and that they only become more.
ChunksInv ==
    /\ text \in Seq(Atoms) /\ streamed \in Seq(Atoms)
    /\ items \in Seq(Atoms \cup {"None", "error"})
    /\ out \in Seq(Chunks)
    /\ cpc = "idle" => out = <<>>
    /\ route \in Collected /\ cpc \in {"reads", "parses"} => out = <<>>
    /\ asks = "whole" => route \in Collected

Grows == \E more \in Seq(Chunks) : out' = out \o more

\* No chunk was sent.
LEMMA ChunksStart == StreamInit => ChunksInv
    BY DEF StreamInit, ChunksInv

\* The chunks that are sent.
LEMMA ChunkTypes ==
    /\ \A t \in Seq(Atoms) : Content(t) \in Chunks /\ <<Content(t)>> \in Seq(Chunks)
    /\ \A k \in {"role", "usage", "stop", "tool_calls", "notice", "ping"} :
          Chunk(k, <<>>) \in Chunks /\ <<Chunk(k, <<>>)>> \in Seq(Chunks)
    /\ Ending("stop") \in Seq(Chunks) /\ UsageChunk \in Seq(Chunks)
    /\ \A calls \in Seq(Atoms) : calls # <<>> => /\ CallChunks(calls) \in Seq(Chunks)
                                                /\ Tail(CallChunks(calls)) \in Seq(Chunks)
<1>1. \A t \in Seq(Atoms) : Content(t) \in Chunks
    BY DEF Chunks, Telling
<1>2. \A k \in {"role", "usage", "stop", "tool_calls", "notice", "ping"} : Chunk(k, <<>>) \in Chunks
    BY DEF Chunks, Silent
<1>3. \A c \in Chunks : <<c>> \in Seq(Chunks)
    OBVIOUS
<1>4. Ending("stop") \in Seq(Chunks) /\ UsageChunk \in Seq(Chunks)
    BY EndingSilent, UsageSilent, ToldSilent
<1>5. ASSUME NEW calls \in Seq(Atoms), calls # <<>>
      PROVE  CallChunks(calls) \in Seq(Chunks) /\ Tail(CallChunks(calls)) \in Seq(Chunks)
    <2> DEFINE c == CallChunks(calls)
    <2>1. c \in Seq(Silent) /\ HasCalls(c)
        BY <1>5, CallsSilent
    <2> HIDE DEF c
    <2>2. c \in Seq(Chunks) /\ c # <<>>
        BY <2>1, ToldSilent DEF HasCalls
    <2>3. Tail(c) \in Seq(Chunks)
        BY <2>2, HeadTailProperties
    <2> QED BY <2>2, <2>3 DEF c
<1> QED BY <1>1, <1>2, <1>3, <1>4, <1>5

\* Every step of a chat completion sends chunks, or nothing.
LEMMA ChunksStep == ChunksInv /\ [StreamNext]_streamVars => ChunksInv' /\ Grows
<1> SUFFICES ASSUME ChunksInv, [StreamNext]_streamVars
             PROVE  ChunksInv' /\ Grows
    OBVIOUS
<1>1. /\ text \in Seq(Atoms) /\ streamed \in Seq(Atoms) /\ out \in Seq(Chunks)
      /\ items \in Seq(Atoms \cup {"None", "error"})
    BY DEF ChunksInv
<1>2. out \o <<>> = out /\ <<>> \in Seq(Chunks)
    BY <1>1, ConcatEmptySeq
<1>3. ASSUME out' = out
      PROVE  Grows
    BY <1>2, <1>3 DEF Grows
<1>4. ASSUME NEW more \in Seq(Chunks), out' = out \o more
      PROVE  Grows /\ out' \in Seq(Chunks)
    BY <1>1, <1>4 DEF Grows
<1>5. ASSUME NEW c \in Chunks, out' = Append(out, c)
      PROVE  Grows /\ out' \in Seq(Chunks)
    <2>1. <<c>> \in Seq(Chunks) /\ out' = out \o <<c>>
        BY <1>1, <1>5, AppendIsConcat
    <2> QED BY <1>4, <2>1
<1>6. ASSUME out = <<>>, out' \in Seq(Chunks)
      PROVE  Grows
    <2>1. <<>> \o out' = out'
        BY <1>6, ConcatEmptySeq
    <2> QED BY <1>6, <2>1 DEF Grows
<1>7. ASSUME NEW r \in Routes, NEW a \in {"stream", "usage", "whole"}, OpenRoute(r, a)
      PROVE  ChunksInv' /\ Grows
    <2>1. out = <<>> /\ cpc' = "reads" /\ route' = r /\ asks' = a /\ UNCHANGED <<text, items, streamed>>
          /\ (a = "whole" => r \in Collected)
        BY <1>7 DEF OpenRoute, ChunksInv
    <2>2. out' \in Seq(Chunks)
        <3>1. <<>> \in Seq(Atoms)
            OBVIOUS
        <3> QED BY <1>2, <1>7, <3>1, ChunkTypes DEF OpenRoute
    <2>3. r \in Collected => out' = <<>>
        BY <1>7 DEF OpenRoute, Collected, Threaded
    <2> QED BY <1>1, <1>6, <2>1, <2>2, <2>3 DEF ChunksInv
<1>8. ASSUME NEW a \in Atoms, PassOn(a)
      PROVE  ChunksInv' /\ Grows
    <2> DEFINE c == IF a = "think" THEN Chunk("reasoning", <<a>>) ELSE Content(<<a>>)
    <2>1. c \in Chunks
        <3>1. <<a>> \in Seq(Atoms)
            OBVIOUS
        <3>2. Chunk("reasoning", <<"think">>) \in Chunks
            BY DEF Chunks, Silent
        <3> QED BY <3>1, <3>2, ChunkTypes
    <2>2. out' = Append(out, c) /\ route \notin Collected /\ cpc = "reads"
          /\ UNCHANGED <<route, asks, cpc, items, streamed>> /\ text' = Append(text, a)
        BY <1>8 DEF PassOn, Reading, Direct, Collected
    <2> HIDE DEF c
    <2>3. Grows /\ out' \in Seq(Chunks)
        BY <1>5, <2>1, <2>2
    <2>4. text' \in Seq(Atoms)
        BY <1>1, <2>2
    <2> QED BY <1>1, <2>2, <2>3, <2>4 DEF ChunksInv
<1>9. ASSUME NEW a \in Atoms, Collect(a)
      PROVE  ChunksInv' /\ Grows
    <2>1. out' = out /\ UNCHANGED <<route, asks, cpc, items, streamed>> /\ text' = Append(text, a)
        BY <1>9 DEF Collect
    <2>2. text' \in Seq(Atoms)
        BY <1>1, <2>1
    <2> QED BY <1>3, <2>1, <2>2 DEF ChunksInv
<1>10. ASSUME NEW a \in Atoms, Produce(a)
      PROVE  ChunksInv' /\ Grows
    <2>1. out' = out /\ UNCHANGED <<route, asks, cpc, streamed>> /\ text' = Append(text, a)
          /\ items' = Append(items, a)
        BY <1>10 DEF Produce
    <2>2. text' \in Seq(Atoms) /\ items' \in Seq(Atoms \cup {"None", "error"})
        BY <1>1, <2>1
    <2> QED BY <1>3, <2>1, <2>2 DEF ChunksInv
<1>11. ASSUME NEW a \in Atoms, Sieve(a)
      PROVE  ChunksInv' /\ Grows
    <2>1. /\ UNCHANGED <<route, asks, cpc, items>> /\ text' = Append(text, a)
          /\ route = "catpaw_tools" /\ cpc = "reads"
        BY <1>11 DEF Sieve, Reading
    <2>2. text' \in Seq(Atoms)
        BY <1>1, <2>1
    <2> DEFINE seen == Streamable(text')
               rest == SubSeq(seen, Len(streamed) + 1, Len(seen))
    <2>3. seen \in Seq(Atoms)
        BY <2>2, StreamableTyped
    <2>4. CASE IsPrefix(streamed, seen) /\ Len(seen) > Len(streamed)
        <3>1. out' = Append(out, Content(rest)) /\ streamed' = seen
            BY <1>11, <2>4 DEF Sieve
        <3> HIDE DEF seen
        <3>2. rest \in Seq(Atoms)
            BY <1>1, <2>3, <2>4, PrefixRest
        <3> HIDE DEF rest
        <3>3. Content(rest) \in Chunks
            BY <3>2, ChunkTypes
        <3>4. Grows /\ out' \in Seq(Chunks)
            BY <1>5, <3>1, <3>3
        <3> QED BY <1>1, <2>1, <2>2, <2>3, <3>1, <3>4 DEF ChunksInv, Collected
    <2>5. CASE ~(IsPrefix(streamed, seen) /\ Len(seen) > Len(streamed))
        <3>1. out' = out /\ streamed' = streamed
            BY <1>11, <2>5 DEF Sieve
        <3> QED BY <1>3, <2>1, <2>2, <3>1 DEF ChunksInv
    <2> QED BY <2>4, <2>5
<1>12. CASE EndOfStream
    <2>1. /\ UNCHANGED <<text, route, asks, streamed, items>> /\ cpc = "reads"
          /\ cpc' \in {"over", "parses"}
        BY <1>12 DEF EndOfStream, Reading, Over
    <2>2. CASE route \in Direct
        <3> DEFINE first == IF SentRole THEN <<>> ELSE <<Content(<<>>)>>
                   end == Ending("stop")
        <3>1. first \in Seq(Chunks) /\ end \in Seq(Chunks)
            <4>1. <<>> \in Seq(Atoms)
                OBVIOUS
            <4> QED BY <1>2, <4>1, ChunkTypes
        <3>2. out' = (out \o first) \o end
            BY <1>12, <2>2 DEF EndOfStream
        <3> HIDE DEF first, end
        <3>3. first \o end \in Seq(Chunks) /\ (out \o first) \o end = out \o (first \o end)
            <4>1. (out \o first) \o end = out \o (first \o end)
                BY <1>1, <3>1, ConcatAssociative
            <4> QED BY <3>1, <4>1
        <3>4. Grows /\ out' \in Seq(Chunks)
            BY <1>4, <3>2, <3>3
        <3>5. route \notin Collected
            BY <2>2 DEF Direct, Collected
        <3> QED BY <1>1, <2>1, <3>4, <3>5 DEF ChunksInv
    <2>3. CASE route \notin Direct
        <3>1. out' = out
            BY <1>12, <2>3 DEF EndOfStream
        <3> QED BY <1>3, <2>1, <3>1 DEF ChunksInv
    <2> QED BY <2>2, <2>3
<1>13. CASE UpstreamFails
    <2>1. /\ UNCHANGED <<text, route, asks, streamed, items, out>> /\ cpc' = "raised"
        BY <1>13 DEF UpstreamFails, Over
    <2> QED BY <1>3, <2>1 DEF ChunksInv
<1>14. ASSUME NEW how \in {<<"None">>, <<"error", "None">>}, ProducerEnds(how)
      PROVE  ChunksInv' /\ Grows
    <2>1. /\ UNCHANGED <<text, route, asks, streamed, cpc, out>> /\ items' = items \o how
        BY <1>14 DEF ProducerEnds
    <2>2. items' \in Seq(Atoms \cup {"None", "error"})
        <3> DEFINE X == Atoms \cup {"None", "error"}
        <3>1. "None" \in X /\ "error" \in X /\ items \in Seq(X)
            BY <1>1
        <3> HIDE DEF X
        <3>2. <<"None">> \in Seq(X) /\ <<"error", "None">> \in Seq(X)
            BY <3>1
        <3>3. items \o how \in Seq(X)
            BY <3>1, <3>2, ConcatProperties
        <3> QED BY <2>1, <3>3 DEF X
    <2> QED BY <1>3, <2>1, <2>2 DEF ChunksInv
<1>15. CASE TakeItem
    <2>1. /\ cpc = "reads" /\ items # <<>> /\ items' = Tail(items)
          /\ UNCHANGED <<text, route, asks, streamed>> /\ route \notin Collected
          /\ cpc' # "idle"
        BY <1>15 DEF TakeItem, Threaded, Collected
    <2>2. items' \in Seq(Atoms \cup {"None", "error"}) /\ Head(items) \in Atoms \cup {"None", "error"}
        <3> DEFINE X == Atoms \cup {"None", "error"}
        <3>1. items \in Seq(X)
            BY <1>1
        <3> HIDE DEF X
        <3>2. Tail(items) \in Seq(X) /\ Head(items) \in X
            BY <2>1, <3>1, HeadTailProperties
        <3> QED BY <2>1, <3>2 DEF X
    <2>3. Grows /\ out' \in Seq(Chunks)
        <3>1. CASE Head(items) = "None"
            <4> DEFINE more == IF route = "image" THEN <<Chunk("stop", <<>>)>> ELSE Ending("stop")
            <4>1. out' = out \o more
                BY <1>15, <3>1 DEF TakeItem
            <4>2. more \in Seq(Chunks)
                BY ChunkTypes
            <4> HIDE DEF more
            <4> QED BY <1>4, <4>1, <4>2
        <3>2. CASE Head(items) = "error"
            <4>1. out' = out
                BY <1>15, <3>2 DEF TakeItem
            <4> QED BY <1>1, <1>3, <4>1
        <3>3. CASE Head(items) \notin {"None", "error"}
            <4> DEFINE h == Head(items)
            <4>1. out' = Append(out, Content(<<h>>)) /\ h \in Atoms
                BY <1>15, <2>2, <3>3 DEF TakeItem
            <4> HIDE DEF h
            <4>2. <<h>> \in Seq(Atoms)
                BY <4>1
            <4>3. Content(<<h>>) \in Chunks
                BY <4>2, ChunkTypes
            <4> QED BY <1>5, <4>1, <4>3
        <3> QED BY <3>1, <3>2, <3>3
    <2> QED BY <1>1, <2>1, <2>2, <2>3 DEF ChunksInv
<1>16. CASE KeepAlive
    <2>1. /\ cpc = "reads" /\ route \notin Collected
          /\ UNCHANGED <<text, route, asks, streamed, cpc, items>>
          /\ out' = Append(out, Ping)
        BY <1>16 DEF KeepAlive, Threaded, Collected
    <2>2. Ping \in Chunks
        BY ChunkTypes DEF Ping
    <2>3. Grows /\ out' \in Seq(Chunks)
        BY <1>5, <2>1, <2>2
    <2> QED BY <1>1, <2>1, <2>3 DEF ChunksInv
<1>17. \A choice : ParsedBy(choice) \in Seq(Atoms)
    <2>1. "fits" \in Atoms
        BY DEF Atoms, Bodies
    <2> QED BY <1>1, <2>1, CallsTyped DEF ParsedBy
<1>18. ASSUME NEW choice, NEW raw \in {<<>>, <<"fits">>, <<"unknown", "fits">>},
              SendCollected(choice, raw) \/ SendWhole(choice, raw)
       PROVE  ChunksInv' /\ Grows
    <2>1. raw \in Seq(Atoms)
        <3>1. "fits" \in Atoms /\ "unknown" \in Atoms
            BY DEF Atoms, Bodies
        <3>2. <<"fits">> \in Seq(Atoms) /\ <<"unknown", "fits">> \in Seq(Atoms) /\ <<>> \in Seq(Atoms)
            BY <3>1
        <3> QED BY <3>2
    <2>2. /\ out = <<>> /\ cpc' = "over"
          /\ UNCHANGED <<text, route, asks, streamed, items>>
        BY <1>18 DEF SendCollected, SendWhole, ChunksInv
    <2> DEFINE parsed == ParsedBy(choice)
    <2>3. parsed \in Seq(Atoms)
        BY <1>17
    <2>4. Plain(text) \in Seq(Atoms)
        BY <1>1, PlainTyped
    <2>5. out' \in Seq(Chunks)
        <3>1. CASE SendCollected(choice, raw)
            <4>1. out' = IF raw # <<>> THEN CallChunks(raw)
                         ELSE IF parsed # <<>> THEN CallChunks(parsed) \o UsageChunk
                         ELSE <<Content(Plain(text))>> \o Ending("stop")
                BY <3>1 DEF SendCollected
            <4> HIDE DEF parsed
            <4> DEFINE c == CallChunks(parsed)
                       p == <<Content(Plain(text))>>
                       e == Ending("stop")
            <4>2. /\ parsed # <<>> => c \in Seq(Chunks)
                  /\ p \in Seq(Chunks) /\ e \in Seq(Chunks) /\ UsageChunk \in Seq(Chunks)
                  /\ raw # <<>> => CallChunks(raw) \in Seq(Chunks)
                BY <2>1, <2>3, <2>4, ChunkTypes
            <4> HIDE DEF c, p, e
            <4>3. (parsed # <<>> => c \o UsageChunk \in Seq(Chunks)) /\ p \o e \in Seq(Chunks)
                BY <4>2
            <4> QED BY <4>1, <4>2, <4>3 DEF c, p, e
        <3>2. CASE SendWhole(choice, raw)
            <4> DEFINE calls == IF raw # <<>> THEN raw ELSE parsed
                       a == IF calls = <<>> \/ raw # <<>> THEN <<Content(text)>> ELSE <<>>
                       b == IF calls = <<>> THEN <<Chunk("stop", <<>>)>> ELSE Tail(CallChunks(calls))
            <4>1. out' = a \o b
                BY <3>2 DEF SendWhole
            <4>2. calls \in Seq(Atoms)
                BY <2>1, <2>3
            <4> HIDE DEF calls
            <4>3. a \in Seq(Chunks) /\ b \in Seq(Chunks)
                BY <1>1, <1>2, <4>2, ChunkTypes
            <4> HIDE DEF a, b
            <4> QED BY <4>1, <4>3
        <3> QED BY <1>18, <3>1, <3>2
    <2> QED BY <1>1, <1>6, <2>2, <2>5 DEF ChunksInv
<1>19. CASE SendSieved
    <2>1. /\ UNCHANGED <<text, route, asks, streamed, items>> /\ cpc' \in {"over", "retries"}
        BY <1>19 DEF SendSieved
    <2> DEFINE calls == ParseToolCallsForTools(text)
    <2>2. calls \in Seq(Atoms)
        <3>1. "fits" \in Atoms
            BY DEF Atoms, Bodies
        <3> QED BY <1>1, <3>1, CallsTyped
    <2>3. Grows /\ out' \in Seq(Chunks)
        <3>1. CASE calls # <<>>
            <4> DEFINE c == CallChunks(calls)
            <4>1. out' = (out \o c) \o UsageChunk
                BY <1>19, <3>1 DEF SendSieved
            <4> HIDE DEF calls
            <4>2. c \in Seq(Chunks) /\ UsageChunk \in Seq(Chunks)
                BY <2>2, <3>1, ChunkTypes
            <4> HIDE DEF c
            <4>3. (out \o c) \o UsageChunk = out \o (c \o UsageChunk)
                BY <1>1, <4>2, ConcatAssociative
            <4>4. c \o UsageChunk \in Seq(Chunks)
                BY <4>2
            <4> QED BY <1>4, <4>1, <4>3, <4>4
        <3>2. CASE calls = <<>>
            <4>1. out' = out
                BY <1>19, <3>2 DEF SendSieved
            <4> QED BY <1>1, <1>3, <4>1
        <3> QED BY <3>1, <3>2
    <2> QED BY <1>1, <2>1, <2>3 DEF ChunksInv
<1>20. CASE RetryFails
    <2>1. /\ UNCHANGED <<text, route, asks, streamed, items, out>> /\ cpc' = "raised"
        BY <1>20 DEF RetryFails
    <2> QED BY <1>3, <2>1 DEF ChunksInv
<1>21. ASSUME NEW calls \in {<<>>, <<"fits">>}, RetrySieved(calls)
       PROVE  ChunksInv' /\ Grows
    <2>1. /\ UNCHANGED <<text, route, asks, streamed, items>> /\ cpc' = "over"
        BY <1>21 DEF RetrySieved
    <2>2. Grows /\ out' \in Seq(Chunks)
        <3>1. CASE calls # <<>>
            <4>1. out' = out \o CallChunks(calls)
                BY <1>21, <3>1 DEF RetrySieved
            <4>2. calls \in Seq(Atoms)
                <5>1. "fits" \in Atoms
                    BY DEF Atoms, Bodies
                <5>2. <<"fits">> \in Seq(Atoms)
                    BY <5>1
                <5> QED BY <3>1, <5>2
            <4>3. CallChunks(calls) \in Seq(Chunks)
                BY <3>1, <4>2, ChunkTypes
            <4> QED BY <1>4, <4>1, <4>3
        <3>2. CASE calls = <<>>
            <4> DEFINE plain == IF Trimmed(Plain(text)) = <<>> THEN text ELSE Plain(text)
                       left == LeftToTell
                       more == IF left # <<>> \/ ~SentRole THEN <<Content(left)>> ELSE <<>>
                       e == Ending("stop")
            <4>1. out' = (out \o more) \o e
                BY <1>21, <3>2 DEF RetrySieved, TellRest
            <4>2. plain \in Seq(Atoms)
                BY <1>1, PlainTyped
            <4>3. left = IF IsPrefix(streamed, plain) THEN SubSeq(plain, Len(streamed) + 1, Len(plain)) ELSE plain
                BY DEF LeftToTell
            <4> HIDE DEF plain, left
            <4>4. left \in Seq(Atoms)
                BY <1>1, <4>2, <4>3, PrefixRest
            <4>5. more \in Seq(Chunks) /\ e \in Seq(Chunks)
                BY <1>2, <4>4, ChunkTypes
            <4> HIDE DEF more, e
            <4>6. (out \o more) \o e = out \o (more \o e)
                BY <1>1, <4>5, ConcatAssociative
            <4>7. more \o e \in Seq(Chunks)
                BY <4>5
            <4> QED BY <1>4, <4>1, <4>6, <4>7
        <3> QED BY <3>1, <3>2
    <2> QED BY <1>1, <2>1, <2>2 DEF ChunksInv
<1>22. CASE UNCHANGED streamVars
    BY <1>3, <1>22 DEF streamVars, ChunksInv
<1> QED BY <1>7, <1>8, <1>9, <1>10, <1>11, <1>12, <1>13, <1>14, <1>15, <1>16, <1>18,
           <1>19, <1>20, <1>21, <1>22 DEF StreamNext

\* The text of the chunks that were taken.
TakenText(n, chunks) == FlattenSeq([i \in 1..n |-> TextOf(chunks[i])])

CallBlocks == {toolBlocks[i] : i \in 1..Len(toolBlocks)}

\* The blocks that have started; only those of calls and the open one have not
\* stopped, and no call has its arguments.
Going == Goes(messageEvents,
              (0 .. blockIndex - 1) \cup (IF textOpen THEN {blockIndex} ELSE {}),
              (0 .. blockIndex - 1) \ CallBlocks, {}, CallBlocks, Heard(messageEvents))

BlocksInv ==
    /\ taken \in 0..Len(out)
    /\ blockIndex \in Nat /\ textOpen \in BOOLEAN
    /\ toolBlocks \in Seq(Int)
    /\ \A i \in 1..Len(toolBlocks) : toolBlocks[i] \in 0 .. blockIndex - 1
    /\ \A i, j \in 1..Len(toolBlocks) : toolBlocks[i] = toolBlocks[j] => i = j
    /\ IF mpc = "over" THEN EndsWell(messageEvents) ELSE Going
    /\ front \in {"anthropic", "complete"} => Heard(messageEvents) = TakenText(taken, out)
    /\ mpc = "idle" \/ front = "qoder" => ~textOpen /\ blockIndex = 0 /\ toolBlocks = <<>>
    /\ mpc = "idle" /\ front # "complete" => messageEvents = <<>> /\ taken = 0
    /\ front \in {"none", "openai", "complete"} => mpc = "idle"

\* The same in the next state.
LEMMA NextOfLists ==
    /\ Going' <=> Goes(messageEvents',
                       (0 .. blockIndex' - 1) \cup (IF textOpen' THEN {blockIndex'} ELSE {}),
                       (0 .. blockIndex' - 1) \ CallBlocks', {}, CallBlocks', Heard(messageEvents'))
    /\ CallBlocks' = {toolBlocks'[i] : i \in 1..Len(toolBlocks')}
    /\ EndsWell(messageEvents)' <=> EndsWell(messageEvents')
    /\ Heard(messageEvents)' = Heard(messageEvents')
    /\ TakenText(taken, out)' = TakenText(taken', out')
<1>1. Going' <=> Goes(messageEvents',
                       (0 .. blockIndex' - 1) \cup (IF textOpen' THEN {blockIndex'} ELSE {}),
                       (0 .. blockIndex' - 1) \ CallBlocks', {}, CallBlocks', Heard(messageEvents'))
    BY DEF Going, Goes, Paired, At, Earlier, Numbers, ToolNumbers, Deltas, Heard
<1>2. CallBlocks' = {toolBlocks'[i] : i \in 1..Len(toolBlocks')}
    BY DEF CallBlocks
<1>3. EndsWell(messageEvents)' <=> EndsWell(messageEvents')
    BY DEF EndsWell, Paired, At, Earlier, Numbers, ToolNumbers, Deltas
<1>4. Heard(messageEvents)' = Heard(messageEvents')
    BY DEF Heard
<1>5. TakenText(taken, out)' = TakenText(taken', out')
    BY DEF TakenText, TextOf
<1> QED BY <1>1, <1>2, <1>3, <1>4, <1>5

\* No block was started.
LEMMA BlocksStart == MessageInit => BlocksInv
<1> SUFFICES ASSUME MessageInit
             PROVE  BlocksInv
    OBVIOUS
<1>1. /\ out = <<>> /\ front = "none" /\ mpc = "idle" /\ taken = 0
      /\ textOpen = FALSE /\ blockIndex = 0 /\ toolBlocks = <<>> /\ messageEvents = <<>>
    BY DEF MessageInit, StreamInit
<1>2. Len(<<>>) = 0 /\ 0..(0 - 1) = {} /\ 1..0 = {} /\ <<>> \in Seq(Int)
    OBVIOUS
<1>3. CallBlocks = {}
    BY <1>1, <1>2 DEF CallBlocks
<1>4. Heard(<<>>) = <<>>
    BY GoesNothing DEF Goes
<1>5. Going
    BY <1>1, <1>2, <1>3, <1>4, GoesNothing DEF Going
<1>6. taken \in 0..Len(out) /\ toolBlocks \in Seq(Int) /\ Len(toolBlocks) = 0 /\ 1..Len(toolBlocks) = {}
    BY <1>1, <1>2
<1> QED BY <1>1, <1>5, <1>6 DEF BlocksInv

\* What a chunk tells is text, and it is joined to the text taken.
LEMMA TextTyped == \A c \in Chunks : TextOf(c) \in Seq(WordsUsed)
<1>1. \A t \in Seq(Atoms) : t \in Seq(WordsUsed)
    <2>1. Atoms \subseteq WordsUsed
        BY DEF WordsUsed
    <2> QED BY <2>1, SeqMonotonic
<1>2. <<"notice">> \in Seq(WordsUsed) /\ <<"ping">> \in Seq(WordsUsed) /\ <<>> \in Seq(WordsUsed)
    <2>1. "notice" \in WordsUsed /\ "ping" \in WordsUsed
        BY DEF WordsUsed
    <2> QED BY <2>1
<1>3. \A c \in Chunks : c.kind = "content" => c.value \in Seq(Atoms)
    BY ChunkKinds DEF Chunks
<1> QED BY <1>1, <1>2, <1>3 DEF TextOf

\* The text of one chunk more.
LEMMA TakenMore ==
    ASSUME out \in Seq(Chunks), taken \in 0..Len(out), taken < Len(out)
    PROVE  /\ taken + 1 \in 0..Len(out) /\ out[taken + 1] \in Chunks
           /\ TextOf(out[taken + 1]) \in Seq(WordsUsed)
           /\ TakenText(taken + 1, out) = TakenText(taken, out) \o TextOf(out[taken + 1])
           /\ TakenText(taken, out) \in Seq(WordsUsed)
<1> DEFINE x == [i \in 1..Len(out) |-> TextOf(out[i])]
           k == taken + 1
<1>1. /\ k \in Nat /\ k # 0 /\ k - 1 = taken /\ k \in 1..Len(out) /\ k \in 0..Len(out)
      /\ \A i \in 1..k : i \in 1..Len(out)
      /\ \A i \in 1..taken : i \in 1..Len(out)
    OBVIOUS
<1>2. \A i \in 1..Len(out) : x[i] = TextOf(out[i]) /\ x[i] \in Seq(WordsUsed) /\ out[i] \in Chunks
    BY TextTyped
<1> HIDE DEF x, k
<1>3. \A i \in 1..k : x[i] \in Seq(WordsUsed)
    BY <1>1, <1>2
<1>4. /\ FlattenSeq([i \in 1..k |-> x[i]]) = FlattenSeq([i \in 1..taken |-> x[i]]) \o x[k]
      /\ FlattenSeq([i \in 1..taken |-> x[i]]) \in Seq(WordsUsed)
    BY <1>1, <1>3, FlattenNext
<1>5. [i \in 1..k |-> x[i]] = [i \in 1..k |-> TextOf(out[i])]
    BY <1>1, <1>2
<1>6. [i \in 1..taken |-> x[i]] = [i \in 1..taken |-> TextOf(out[i])]
    BY <1>1, <1>2
<1>7. x[k] = TextOf(out[k]) /\ x[k] \in Seq(WordsUsed) /\ out[k] \in Chunks
    BY <1>1, <1>2
<1> QED BY <1>1, <1>4, <1>5, <1>6, <1>7 DEF TakenText, k

\* More chunks leave the text that was taken.
LEMMA TakenKept ==
    ASSUME out \in Seq(Chunks), taken \in 0..Len(out), Grows
    PROVE  taken \in 0..Len(out') /\ TakenText(taken, out') = TakenText(taken, out)
<1>1. PICK more \in Seq(Chunks) : out' = out \o more
    BY DEF Grows
<1>2. /\ Len(out') = Len(out) + Len(more) /\ Len(out) \in Nat /\ Len(more) \in Nat
      /\ \A i \in 1..Len(out) : out'[i] = out[i]
    BY <1>1
<1>3. \A i \in 1..taken : out'[i] = out[i]
    BY <1>2
<1>4. [i \in 1..taken |-> TextOf(out'[i])] = [i \in 1..taken |-> TextOf(out[i])]
    BY <1>3
<1> QED BY <1>2, <1>4 DEF TakenText

\* What the property says of the blocks follows from the invariant.
LEMMA BlocksByInv == BlocksInv => BlocksPaired
<1> SUFFICES ASSUME BlocksInv
             PROVE  BlocksPaired
    OBVIOUS
<1> DEFINE list == messageEvents
<1>1. /\ DOMAIN list = 1..Len(list) /\ Len(list) \in Nat /\ Paired(list)
      /\ \A i \in At(list, "message_stop") : i = Len(list)
      /\ mpc = "over" => /\ Numbers(list, "start") \subseteq Numbers(list, "stop")
                         /\ ToolNumbers(list) \subseteq Numbers(list, "json_delta")
    <2>1. CASE mpc = "over"
        BY <2>1 DEF BlocksInv, EndsWell
    <2>2. CASE mpc # "over"
        <3>1. list \in Seq(Events) /\ Paired(list) /\ At(list, "message_stop") = {}
            BY <2>2 DEF BlocksInv, Going, Goes
        <3> QED BY <2>2, <3>1
    <2> QED BY <2>1, <2>2
<1>2. \A t : Places(t) = At(list, t)
    BY <1>1 DEF Places, At
<1>3. \A t, i : Before(t, i) = Earlier(list, t, i)
    BY <1>2 DEF Before, Indices, Earlier
<1>4. \A t : Indices(Places(t)) = Numbers(list, t)
    BY <1>2 DEF Indices, Numbers
<1>5. Indices({i \in Places("start") : messageEvents[i].value = <<"tool_use">>}) = ToolNumbers(list)
    BY <1>2 DEF Indices, ToolNumbers
<1>6. Heard(list) = FlattenSeq([i \in DOMAIN messageEvents |->
                           IF messageEvents[i].type \in {"text_delta", "chunk"}
                           THEN messageEvents[i].value ELSE <<>>])
    BY <1>1 DEF Heard
<1>7. front \in {"anthropic", "complete"}
        => Heard(list) = FlattenSeq([i \in 1 .. taken |-> TextOf(out[i])])
    BY DEF BlocksInv, TakenText
<1>8. \A i \in Places("start") : Before("start", i) = 0 .. messageEvents[i].index - 1
    BY <1>1, <1>2, <1>3 DEF Paired
<1>9. \A i \in Places("text_delta") \cup Places("json_delta") \cup Places("stop") :
          messageEvents[i].index \in Before("start", i) \ Before("stop", i)
    BY <1>1, <1>2, <1>3 DEF Paired, Deltas
<1>10. \A i \in Places("message_stop") : i = Len(messageEvents)
    BY <1>1, <1>2
<1>11. mpc = "over"
          => /\ Indices(Places("start")) \subseteq Indices(Places("stop"))
             /\ Indices({i \in Places("start") : messageEvents[i].value = <<"tool_use">>})
                   \subseteq Indices(Places("json_delta"))
    BY <1>1, <1>4, <1>5
<1> QED BY <1>6, <1>7, <1>8, <1>9, <1>10, <1>11 DEF BlocksPaired

\* The blocks while no text is open, and while one is.
LEMMA Blocks ==
    ASSUME BlocksInv, mpc # "over"
    PROVE  LET b == blockIndex
               started == IF textOpen THEN 0..b ELSE 0..(b - 1)
           IN  /\ b \in Nat /\ CallBlocks \subseteq 0..(b - 1) /\ b \notin 0..(b - 1)
               /\ Goes(messageEvents, started, (0..(b - 1)) \ CallBlocks, {}, CallBlocks,
                       Heard(messageEvents))
<1> DEFINE b == blockIndex
<1>1. b \in Nat /\ CallBlocks \subseteq 0..(b - 1)
    BY DEF BlocksInv, CallBlocks
<1> HIDE DEF b
<1>2. (0..(b - 1)) \cup {b} = 0..b /\ (0..(b - 1)) \cup {} = 0..(b - 1) /\ b \notin 0..(b - 1)
    BY <1>1
<1>3. Goes(messageEvents, (0..(b - 1)) \cup (IF textOpen THEN {b} ELSE {}),
           (0..(b - 1)) \ CallBlocks, {}, CallBlocks, Heard(messageEvents))
    BY DEF BlocksInv, Going, b
<1>4. textOpen \in BOOLEAN
    BY DEF BlocksInv
<1> QED BY <1>1, <1>2, <1>3, <1>4 DEF b

\* What is left to show of a step of the converter that goes on.
LEMMA GoingKeeps ==
    ASSUME BlocksInv, mpc # "over", mpc' # "over", NEW w,
           blockIndex' \in Nat, textOpen' \in BOOLEAN, toolBlocks' \in Seq(Int),
           \A i \in 1..Len(toolBlocks') : toolBlocks'[i] \in 0 .. blockIndex' - 1,
           \A i, j \in 1..Len(toolBlocks') : toolBlocks'[i] = toolBlocks'[j] => i = j,
           Goes(messageEvents', IF textOpen' THEN 0 .. blockIndex' ELSE 0 .. blockIndex' - 1,
                (0 .. blockIndex' - 1) \ CallBlocks', {}, CallBlocks', w)
    PROVE  Going' /\ Heard(messageEvents') = w
<1> DEFINE b == blockIndex'
<1>1. (0..(b - 1)) \cup {b} = 0..b /\ (0..(b - 1)) \cup {} = 0..(b - 1)
    OBVIOUS
<1> HIDE DEF b
<1>2. Goes(messageEvents', (0..(b - 1)) \cup (IF textOpen' THEN {b} ELSE {}),
           (0..(b - 1)) \ CallBlocks', {}, CallBlocks', w)
    BY <1>1 DEF b
<1>3. Heard(messageEvents') = w
    BY <1>2 DEF Goes
<1> QED BY <1>2, <1>3, NextOfLists DEF b

\* A chunk with text opens a block for it, unless one is open.
LEMMA TakeTextKeeps ==
    ASSUME ChunksInv, BlocksInv, mpc = "converts", front = "anthropic", taken < Len(out),
           TextOf(out[taken + 1]) # <<>>, TakeText(out[taken + 1]), taken' = taken + 1,
           UNCHANGED <<mpc, front, out>>
    PROVE  BlocksInv'
<1> DEFINE b == blockIndex
           t == TextOf(out[taken + 1])
           R == CallBlocks
           P == (0..(b - 1)) \ R
           w == Heard(messageEvents)
           e == BlockEvent("start", b, <<"text">>)
           d == BlockEvent("text_delta", b, t)
           open == IF textOpen THEN messageEvents ELSE Append(messageEvents, e)
<1>1. /\ out \in Seq(Chunks) /\ taken \in 0..Len(out)
      /\ w = TakenText(taken, out) /\ textOpen \in BOOLEAN
    BY DEF ChunksInv, BlocksInv
<1>2. /\ t \in Seq(WordsUsed) /\ taken + 1 \in 0..Len(out)
      /\ TakenText(taken + 1, out) = w \o t
    BY <1>1, TakenMore
<1>3. /\ b \in Nat /\ R \subseteq 0..(b - 1) /\ b \notin 0..(b - 1) /\ b \in 0..b
      /\ Goes(messageEvents, IF textOpen THEN 0..b ELSE 0..(b - 1), P, {}, R, w)
    BY Blocks
<1>4. messageEvents' = (messageEvents \o (IF textOpen THEN <<>> ELSE <<e>>)) \o <<d>>
    BY DEF TakeText
<1>5. messageEvents \in Seq(Events)
    BY <1>3 DEF Goes
<1> HIDE DEF P, R, w, t
<1>6. d \in Events /\ e \in Events
    <2>1. "text" \in WordsUsed /\ {"start", "text_delta"} \subseteq EventTypes
        BY DEF WordsUsed, EventTypes
    <2>2. <<"text">> \in Seq(WordsUsed)
        BY <2>1
    <2>3. b \in Int /\ "start" \in EventTypes /\ "text_delta" \in EventTypes
        BY <1>3, <2>1
    <2> HIDE DEF b
    <2>4. e \in Events
        BY <2>2, <2>3, EventTyped
    <2>5. d \in Events
        BY <1>2, <2>3, EventTyped
    <2> QED BY <2>4, <2>5
<1> HIDE DEF d, e
<1>7. messageEvents \o (IF textOpen THEN <<>> ELSE <<e>>) = open
    BY <1>5, <1>6, ConcatEmptySeq, AppendIsConcat
<1>8. Goes(open, 0..b, P, {}, R, w)
    <2>1. CASE textOpen
        BY <1>3, <2>1
    <2>2. CASE ~textOpen
        <3>1. Goes(Append(messageEvents, e), 0..b, P, {}, R \cup {}, w)
            <4>1. Goes(messageEvents, 0..(b - 1), P, {}, R, w)
                BY <1>3, <2>2
            <4> HIDE DEF b
            <4>2. Goes(Append(messageEvents, e), 0..b, P, {},
                       R \cup (IF "text" = "tool_use" THEN {b} ELSE {}), w)
                BY <1>3, <4>1, StartGoesOn DEF e
            <4> QED BY <4>2
        <3>2. R \cup {} = R
            OBVIOUS
        <3> QED BY <2>2, <3>1, <3>2
    <2> QED BY <1>1, <2>1, <2>2
<1> HIDE DEF open
<1>9. Goes(Append(open, d), 0..b, P, {}, R, w \o t)
    <2>1. b \in Int /\ b \in 0..b /\ b \notin P
        BY <1>3 DEF P
    <2> HIDE DEF b
    <2> QED BY <1>2, <1>8, <2>1, BlockGoesOn DEF d
<1>10. messageEvents' = Append(open, d)
    <2>1. open \in Seq(Events)
        BY <1>8 DEF Goes
    <2> QED BY <1>4, <1>6, <1>7, <2>1, AppendIsConcat
<1>11. textOpen' = TRUE /\ blockIndex' = b /\ toolBlocks' = toolBlocks
    BY DEF TakeText
<1>12. CallBlocks' = R
    BY <1>11, NextOfLists DEF CallBlocks, R
<1>13. /\ toolBlocks' \in Seq(Int)
       /\ \A i \in 1..Len(toolBlocks') : toolBlocks'[i] \in 0 .. blockIndex' - 1
       /\ \A i, j \in 1..Len(toolBlocks') : toolBlocks'[i] = toolBlocks'[j] => i = j
    BY <1>11 DEF BlocksInv
<1>14. Going' /\ Heard(messageEvents') = w \o t
    <2>1. Goes(messageEvents', IF textOpen' THEN 0 .. blockIndex' ELSE 0 .. blockIndex' - 1,
               (0 .. blockIndex' - 1) \ CallBlocks', {}, CallBlocks', w \o t)
        BY <1>9, <1>10, <1>11, <1>12 DEF P
    <2> HIDE DEF b
    <2> QED BY <1>3, <1>11, <1>13, <2>1, GoingKeeps DEF b
<1>15. TakenText(taken, out)' = w \o t
    BY <1>2, NextOfLists
<1> QED BY <1>2, <1>3, <1>11, <1>13, <1>14, <1>15, NextOfLists DEF BlocksInv

\* The stop of a text that is open.
LEMMA StopKeeps ==
    ASSUME BlocksInv, mpc # "over", NEW w, w = Heard(messageEvents)
    PROVE  LET b == IF textOpen THEN blockIndex + 1 ELSE blockIndex
           IN  /\ b \in Nat /\ CallBlocks \subseteq 0..(b - 1)
               /\ TextStopped \in Seq(Events)
               /\ Goes(TextStopped, 0..(b - 1), (0..(b - 1)) \ CallBlocks, {}, CallBlocks, w)
<1> DEFINE n == blockIndex
           R == CallBlocks
           P == (0..(n - 1)) \ R
           s == BlockEvent("stop", n, <<>>)
<1>1. /\ n \in Nat /\ R \subseteq 0..(n - 1) /\ n \notin 0..(n - 1)
      /\ Goes(messageEvents, IF textOpen THEN 0..n ELSE 0..(n - 1), P, {}, R, w)
    BY Blocks
<1>2. TextStopped = messageEvents \o (IF textOpen THEN <<s>> ELSE <<>>) /\ textOpen \in BOOLEAN
    BY DEF TextStopped, BlocksInv
<1>3. messageEvents \in Seq(Events)
    BY <1>1 DEF Goes
<1>4. s \in Events
    <2>1. <<>> \in Seq(WordsUsed) /\ "stop" \in EventTypes
        BY DEF EventTypes
    <2>2. n \in Int
        BY <1>1
    <2> HIDE DEF n
    <2> QED BY <2>1, <2>2, EventTyped
<1> HIDE DEF s
<1>5. CASE textOpen
    <2>1. TextStopped = Append(messageEvents, s)
        BY <1>2, <1>3, <1>4, <1>5, AppendIsConcat
    <2>2. /\ n \in Int /\ n \in 0..n /\ n \notin P /\ <<>> \in Seq(WordsUsed)
          /\ P \cup {n} = (0..n) \ R /\ n + 1 \in Nat /\ (n + 1) - 1 = n /\ R \subseteq 0..n
        BY <1>1
    <2> HIDE DEF n, P, R
    <2>3. Goes(Append(messageEvents, s), 0..n, P \cup {n}, {}, R, w)
        BY <1>1, <1>5, <2>2, BlockGoesOn DEF s
    <2>4. TextStopped \in Seq(Events)
        BY <2>1, <2>3 DEF Goes
    <2> QED BY <1>5, <2>1, <2>2, <2>3, <2>4 DEF n, R
<1>6. CASE ~textOpen
    <2>1. TextStopped = messageEvents
        BY <1>2, <1>3, <1>6, ConcatEmptySeq
    <2> QED BY <1>1, <1>3, <1>6, <2>1
<1> QED BY <1>2, <1>5, <1>6

\* A call stops the text, or starts a block of its own.
LEMMA TakeCallKeeps ==
    ASSUME ChunksInv, BlocksInv, mpc = "converts", front = "anthropic", taken < Len(out),
           TextOf(out[taken + 1]) = <<>>, TakeCall(out[taken + 1]),
           UNCHANGED <<mpc, front, out>>
    PROVE  BlocksInv'
<1> DEFINE n == blockIndex
           R == CallBlocks
           w == Heard(messageEvents)
<1>1. /\ out \in Seq(Chunks) /\ taken \in 0..Len(out)
      /\ w = TakenText(taken, out) /\ textOpen \in BOOLEAN
    BY DEF ChunksInv, BlocksInv
<1>2. /\ taken + 1 \in 0..Len(out) /\ TakenText(taken + 1, out) = w \o <<>> /\ w \o <<>> = w
    <2>1. /\ taken + 1 \in 0..Len(out) /\ TakenText(taken + 1, out) = w \o <<>>
          /\ w \in Seq(WordsUsed)
        BY <1>1, TakenMore
    <2> QED BY <2>1, ConcatEmptySeq
<1>3. /\ toolBlocks \in Seq(Int)
      /\ \A i \in 1..Len(toolBlocks) : toolBlocks[i] \in 0 .. n - 1
      /\ \A i, j \in 1..Len(toolBlocks) : toolBlocks[i] = toolBlocks[j] => i = j
    BY DEF BlocksInv
<1>4. CASE textOpen
    <2>1. /\ messageEvents' = TextStopped /\ blockIndex' = n + 1 /\ textOpen' = FALSE
          /\ toolBlocks' = toolBlocks /\ taken' = taken
        BY <1>4 DEF TakeCall, StopText
    <2>2. /\ n + 1 \in Nat
          /\ Goes(TextStopped, 0..((n + 1) - 1), (0..((n + 1) - 1)) \ R, {}, R, w)
        BY <1>4, StopKeeps
    <2>3. n \in Nat /\ (n + 1) - 1 = n
        BY Blocks
    <2>4. CallBlocks' = R
        BY <2>1, NextOfLists DEF CallBlocks
    <2> HIDE DEF R, w
    <2>5. \A i \in 1..Len(toolBlocks') : toolBlocks'[i] \in 0 .. blockIndex' - 1
        <3>1. \A i \in 1..Len(toolBlocks) : toolBlocks[i] \in 0 .. n - 1
            BY <1>3
        <3>2. \A i \in 0 .. n - 1 : i \in 0..((n + 1) - 1)
            BY <2>3
        <3> QED BY <2>1, <3>1, <3>2
    <2>6. /\ toolBlocks' \in Seq(Int) /\ blockIndex' \in Nat /\ textOpen' \in BOOLEAN
          /\ \A i, j \in 1..Len(toolBlocks') : toolBlocks'[i] = toolBlocks'[j] => i = j
        BY <1>3, <2>1, <2>2
    <2>7. Goes(messageEvents', IF textOpen' THEN 0 .. blockIndex' ELSE 0 .. blockIndex' - 1,
               (0 .. blockIndex' - 1) \ CallBlocks', {}, CallBlocks', w)
        BY <2>1, <2>2, <2>4
    <2>8. Going' /\ Heard(messageEvents') = w
        BY <2>5, <2>6, <2>7, GoingKeeps
    <2> QED BY <1>1, <2>1, <2>5, <2>6, <2>8, NextOfLists DEF BlocksInv
<1>5. CASE ~textOpen
    <2> DEFINE e == BlockEvent("start", n, <<"tool_use">>)
               P == (0..(n - 1)) \ R
    <2>1. /\ messageEvents' = Append(messageEvents, e) /\ blockIndex' = n + 1 /\ textOpen' = textOpen
          /\ toolBlocks' = Append(toolBlocks, n) /\ taken' = taken + 1
        BY <1>5 DEF TakeCall
    <2>2. /\ n \in Nat /\ R \subseteq 0..(n - 1) /\ n \notin 0..(n - 1)
          /\ Goes(messageEvents, 0..(n - 1), P, {}, R, w)
        BY <1>5, Blocks
    <2> DEFINE m == Len(toolBlocks)
    <2>3. /\ m \in Nat /\ Len(toolBlocks') = m + 1 /\ toolBlocks'[m + 1] = n
          /\ \A i \in 1..m : toolBlocks'[i] = toolBlocks[i]
          /\ toolBlocks' \in Seq(Int)
        BY <1>3, <2>1, <2>2
    <2>4. CallBlocks' = R \cup {n}
        <3>1. CallBlocks' = {toolBlocks'[i] : i \in 1..(m + 1)} /\ R = {toolBlocks[i] : i \in 1..m}
            BY <2>3, NextOfLists DEF CallBlocks
        <3> HIDE DEF m, n, R
        <3>2. 1..(m + 1) = (1..m) \cup {m + 1}
            BY <2>3
        <3> QED BY <2>3, <3>1, <3>2
    <2> HIDE DEF R, w, m
    <2>5. Goes(Append(messageEvents, e), 0..n, P, {}, R \cup {n}, w)
        <3> HIDE DEF n, P
        <3>1. Goes(Append(messageEvents, e), 0..n, P, {},
                   R \cup (IF "tool_use" = "tool_use" THEN {n} ELSE {}), w)
            BY <2>2, StartGoesOn DEF e
        <3> QED BY <3>1
    <2>6. n + 1 \in Nat /\ (n + 1) - 1 = n /\ P = (0..n) \ (R \cup {n})
        BY <2>2
    <2>7. \A i \in 1..Len(toolBlocks') : toolBlocks'[i] \in 0 .. blockIndex' - 1
        <3>1. \A i \in 1..m : toolBlocks[i] \in 0 .. n - 1
            BY <1>3 DEF m
        <3>2. \A i \in 0 .. n - 1 : i \in 0..((n + 1) - 1)
            BY <2>2
        <3>3. n \in 0..((n + 1) - 1)
            BY <2>2
        <3>4. \A i \in 1..(m + 1) : i \in 1..m \/ i = m + 1
            BY <2>3
        <3> HIDE DEF n
        <3> QED BY <2>1, <2>3, <3>1, <3>2, <3>3, <3>4
    <2>8. \A i, j \in 1..Len(toolBlocks') : toolBlocks'[i] = toolBlocks'[j] => i = j
        <3>1. \A i \in 1..(m + 1) : i \in 1..m \/ i = m + 1
            BY <2>3
        <3>2. \A i \in 1..m : toolBlocks[i] # n
            BY <1>3, <2>2 DEF m
        <3>3. \A i, j \in 1..m : toolBlocks[i] = toolBlocks[j] => i = j
            BY <1>3 DEF m
        <3> HIDE DEF n
        <3> QED BY <2>3, <3>1, <3>2, <3>3
    <2>9. Goes(messageEvents', IF textOpen' THEN 0 .. blockIndex' ELSE 0 .. blockIndex' - 1,
               (0 .. blockIndex' - 1) \ CallBlocks', {}, CallBlocks', w)
        BY <1>5, <2>1, <2>4, <2>5, <2>6
    <2>10. blockIndex' \in Nat /\ textOpen' \in BOOLEAN
        BY <1>1, <2>1, <2>6
    <2>11. Going' /\ Heard(messageEvents') = w
        BY <2>3, <2>7, <2>8, <2>9, <2>10, GoingKeeps
    <2>12. TakenText(taken, out)' = w
        BY <1>2, <2>1, NextOfLists
    <2> QED BY <1>2, <2>1, <2>3, <2>7, <2>8, <2>10, <2>11, <2>12, NextOfLists DEF BlocksInv
<1> QED BY <1>1, <1>4, <1>5

\* The end stops the text and every call, with its arguments.
LEMMA CloseKeeps ==
    ASSUME ChunksInv, BlocksInv, mpc = "converts", front = "anthropic", taken < Len(out),
           TextOf(out[taken + 1]) = <<>>, NEW reason \in {"tool_use", "end_turn"},
           messageEvents' = CloseMessage(reason), mpc' = "over", taken' = taken + 1,
           UNCHANGED <<front, out, textOpen, blockIndex, toolBlocks>>
    PROVE  BlocksInv'
<1> DEFINE w == Heard(messageEvents)
           R == CallBlocks
           N == Len(toolBlocks)
           b == IF textOpen THEN blockIndex + 1 ELSE blockIndex
           P == (0..(b - 1)) \ R
           list == TextStopped
           ends == [i \in 1..N |-> ToolEnd(toolBlocks[i])]
           all == list \o FlattenSeq(ends)
<1>1. /\ out \in Seq(Chunks) /\ taken \in 0..Len(out) /\ w = TakenText(taken, out)
    BY DEF ChunksInv, BlocksInv
<1>2. /\ taken + 1 \in 0..Len(out) /\ TakenText(taken + 1, out) = w
    <2>1. /\ taken + 1 \in 0..Len(out) /\ TakenText(taken + 1, out) = w \o <<>>
          /\ w \in Seq(WordsUsed)
        BY <1>1, TakenMore
    <2> QED BY <2>1, ConcatEmptySeq
<1>3. /\ N \in Nat /\ toolBlocks \in [1..N -> Int] /\ DOMAIN toolBlocks = 1..N
      /\ \A i, j \in 1..N : toolBlocks[i] = toolBlocks[j] => i = j
    BY DEF BlocksInv
<1>4. R = {toolBlocks[i] : i \in 1..N}
    BY DEF CallBlocks
<1>5. b \in Nat /\ R \subseteq 0..(b - 1) /\ Goes(list, 0..(b - 1), P, {}, R, w)
    BY StopKeeps
<1> HIDE DEF w, R, N, b, list
<1>6. \A i \in 1..N : toolBlocks[i] \in (0..(b - 1)) \ P
    BY <1>4, <1>5
<1>7. Goes(all, 0..(b - 1), P \cup R, R, R, w)
    <2> HIDE DEF P
    <2>1. Goes(all, 0..(b - 1), P \cup {toolBlocks[i] : i \in 1..N},
               {toolBlocks[i] : i \in 1..N}, R, w)
        BY <1>3, <1>5, <1>6, ToolsEnd
    <2> QED BY <1>4, <2>1
<1>8. 0..(b - 1) \subseteq P \cup R
    OBVIOUS
<1>9. CloseMessage(reason) = all \o Finish(reason)
    <2>1. [i \in DOMAIN toolBlocks |-> ToolEnd(toolBlocks[i])] = ends
        BY <1>3
    <2> HIDE DEF ends
    <2> QED BY <2>1 DEF CloseMessage, Finish, list
<1> HIDE DEF all, P
<1>10. EndsWell(all \o Finish(reason)) /\ Heard(all \o Finish(reason)) = w
    BY <1>7, <1>8, EndOfList
<1>11. EndsWell(messageEvents)' /\ Heard(messageEvents)' = w /\ TakenText(taken, out)' = w
    BY <1>2, <1>9, <1>10, NextOfLists
<1> QED BY <1>2, <1>11 DEF BlocksInv

\* Steps that tell nothing leave the blocks.
LEMMA NothingTold ==
    ASSUME BlocksInv, UNCHANGED <<textOpen, blockIndex, toolBlocks, messageEvents>>
    PROVE  /\ Going' <=> Going
           /\ EndsWell(messageEvents)' <=> EndsWell(messageEvents)
           /\ Heard(messageEvents)' = Heard(messageEvents)
<1>1. CallBlocks' = CallBlocks
    BY NextOfLists DEF CallBlocks
<1>2. Going' <=> Going
    BY <1>1, NextOfLists DEF Going
<1> QED BY <1>2, NextOfLists

\* Steps that tell nothing keep the invariant.
LEMMA StaysInv ==
    ASSUME BlocksInv,
           UNCHANGED <<front, out, taken, textOpen, blockIndex, toolBlocks, messageEvents>>,
           mpc' = mpc \/ (mpc = "converts" /\ mpc' = "raised")
    PROVE  BlocksInv'
<1>1. /\ Going' <=> Going
      /\ EndsWell(messageEvents)' <=> EndsWell(messageEvents)
      /\ Heard(messageEvents)' = Heard(messageEvents)
    BY NothingTold
<1>2. TakenText(taken, out)' = TakenText(taken, out)
    BY NextOfLists
<1> QED BY <1>1, <1>2 DEF BlocksInv

\* The chunks go on, and the client's protocol is known.
LEMMA FrontKeeps ==
    ASSUME ChunksInv, BlocksInv, Grows, front' \in {"openai", "anthropic", "complete"},
           front \in {"none", front'},
           UNCHANGED <<mpc, taken, textOpen, blockIndex, toolBlocks, messageEvents>>
    PROVE  BlocksInv'
<1>1. /\ Going' <=> Going
      /\ EndsWell(messageEvents)' <=> EndsWell(messageEvents)
      /\ Heard(messageEvents)' = Heard(messageEvents)
    BY NothingTold
<1>2. taken \in 0..Len(out') /\ TakenText(taken, out)' = TakenText(taken, out)
    BY TakenKept, NextOfLists DEF ChunksInv, BlocksInv
<1>3. front' \in {"anthropic", "complete"} => Heard(messageEvents) = TakenText(taken, out)
    <2>1. CASE front = "none"
        <3>1. messageEvents = <<>> /\ taken = 0
            BY <2>1 DEF BlocksInv
        <3>2. Heard(<<>>) = <<>>
            BY GoesNothing DEF Goes
        <3>3. TakenText(0, out) = <<>>
            <4> DEFINE x == [i \in 1..0 |-> TextOf(out[i])]
            <4>1. x = [i \in 1..0 |-> <<>>]
                OBVIOUS
            <4> HIDE DEF x
            <4>2. FlattenSeq(x) = <<>>
                BY <4>1, FlattenNothing
            <4> QED BY <4>2 DEF TakenText, x
        <3> QED BY <3>1, <3>2, <3>3
    <2>2. CASE front = front'
        BY <2>2 DEF BlocksInv
    <2> QED BY <2>1, <2>2
<1> QED BY <1>1, <1>2, <1>3 DEF BlocksInv

\* One event about the message more.
LEMMA EventKeeps ==
    ASSUME BlocksInv, mpc # "over", NEW t \in {"message_start", "ping", "chunk"},
           NEW v \in Seq(WordsUsed), messageEvents' = Append(messageEvents, MessageEvent(t, v)),
           UNCHANGED <<textOpen, blockIndex, toolBlocks>>
    PROVE  /\ Going'
           /\ Heard(messageEvents)'
                 = Heard(messageEvents) \o (IF t = "chunk" THEN v ELSE <<>>)
           /\ Heard(messageEvents) \in Seq(WordsUsed)
<1> DEFINE S == (0 .. blockIndex - 1) \cup (IF textOpen THEN {blockIndex} ELSE {})
           P == (0 .. blockIndex - 1) \ CallBlocks
           w == Heard(messageEvents)
           u == w \o (IF t = "chunk" THEN v ELSE <<>>)
<1>1. Goes(messageEvents, S, P, {}, CallBlocks, w)
    BY DEF BlocksInv, Going
<1>2. Goes(messageEvents', S, P, {}, CallBlocks, u)
    <2> HIDE DEF S, P, w
    <2> QED BY <1>1, MessageGoesOn
<1>3. Heard(messageEvents') = u /\ w \in Seq(WordsUsed)
    BY <1>1, <1>2 DEF Goes
<1>4. CallBlocks' = CallBlocks
    BY NextOfLists DEF CallBlocks
<1> QED BY <1>2, <1>3, <1>4, NextOfLists

\* Keepalives.
LEMMA PingKeeps ==
    ASSUME BlocksInv, PingMessage
    PROVE  BlocksInv'
<1>1. /\ mpc = "converts" /\ messageEvents' = Append(messageEvents, MessageEvent("ping", <<>>))
      /\ UNCHANGED <<out, front, mpc, taken, textOpen, blockIndex, toolBlocks>>
    BY DEF PingMessage, streamVars
<1>2. Going' /\ Heard(messageEvents)' = Heard(messageEvents) \o <<>>
      /\ Heard(messageEvents) \in Seq(WordsUsed)
    <2>1. <<>> \in Seq(WordsUsed) /\ "ping" # "chunk" /\ mpc # "over"
        BY <1>1
    <2>2. /\ Going'
          /\ Heard(messageEvents)'
                = Heard(messageEvents) \o (IF "ping" = "chunk" THEN <<>> ELSE <<>>)
          /\ Heard(messageEvents) \in Seq(WordsUsed)
        BY <1>1, <2>1, EventKeeps
    <2> QED BY <2>2
<1>3. Heard(messageEvents)' = Heard(messageEvents) /\ TakenText(taken, out)' = TakenText(taken, out)
    BY <1>1, <1>2, ConcatEmptySeq, NextOfLists
<1> QED BY <1>1, <1>2, <1>3 DEF BlocksInv

\* The start of a message.
LEMMA BeginKeeps ==
    ASSUME ChunksInv, BlocksInv, StartMessage \/ StartQoder
    PROVE  BlocksInv'
<1> DEFINE e == MessageEvent("message_start", <<>>)
<1>1. /\ mpc = "idle" /\ front \in {"none", "anthropic"} /\ front' \in {"anthropic", "qoder"}
      /\ front' = "anthropic" => front = "anthropic"
      /\ mpc' = "converts" /\ messageEvents' = <<e>>
      /\ UNCHANGED <<out, taken, textOpen, blockIndex, toolBlocks>>
    <2>1. CASE StartMessage
        BY <2>1 DEF StartMessage, streamVars
    <2>2. CASE StartQoder
        BY <2>2 DEF StartQoder, streamVars, ChunksInv, BlocksInv
    <2> QED BY <2>1, <2>2
<1>2. messageEvents = <<>> /\ taken = 0 /\ ~textOpen /\ blockIndex = 0 /\ toolBlocks = <<>>
    BY <1>1 DEF BlocksInv
<1> HIDE DEF e
<1>3. <<e>> = Append(<<>>, e)
    OBVIOUS
<1>4. messageEvents' = Append(messageEvents, e)
    BY <1>1, <1>2, <1>3
<1>5. Going' /\ Heard(messageEvents)' = Heard(messageEvents) \o <<>>
      /\ Heard(messageEvents) \in Seq(WordsUsed)
    <2>1. <<>> \in Seq(WordsUsed) /\ mpc # "over"
        BY <1>1
    <2>2. /\ Going'
          /\ Heard(messageEvents)'
                = Heard(messageEvents) \o (IF "message_start" = "chunk" THEN <<>> ELSE <<>>)
          /\ Heard(messageEvents) \in Seq(WordsUsed)
        BY <1>1, <1>4, <2>1, EventKeeps DEF e
    <2> QED BY <2>2
<1>6. Heard(messageEvents)' = Heard(messageEvents) /\ TakenText(taken, out)' = TakenText(taken, out)
    BY <1>1, <1>5, ConcatEmptySeq, NextOfLists
<1> QED BY <1>1, <1>2, <1>5, <1>6 DEF BlocksInv

\* The chunks of a text completion.
LEMMA TextChunkKeeps ==
    ASSUME ChunksInv, BlocksInv, TakeTextChunk
    PROVE  BlocksInv'
<1> DEFINE c == out[taken + 1]
           t == TextOf(c)
           w == Heard(messageEvents)
           more == t # <<>> \/ c.kind = "stop"
           e == MessageEvent("chunk", t)
<1>1. /\ front = "complete" /\ taken < Len(out) /\ taken' = taken + 1
      /\ messageEvents' = messageEvents \o (IF more THEN <<e>> ELSE <<>>)
      /\ UNCHANGED <<out, front, mpc, textOpen, blockIndex, toolBlocks>>
    BY DEF TakeTextChunk, streamVars
<1>2. mpc = "idle" /\ out \in Seq(Chunks) /\ taken \in 0..Len(out) /\ w = TakenText(taken, out)
    BY <1>1 DEF BlocksInv, ChunksInv
<1>3. /\ taken + 1 \in 0..Len(out) /\ t \in Seq(WordsUsed)
      /\ TakenText(taken + 1, out) = w \o t /\ w \in Seq(WordsUsed)
    BY <1>1, <1>2, TakenMore
<1>4. TakenText(taken, out)' = w \o t
    BY <1>1, <1>3, NextOfLists
<1>5. messageEvents \in Seq(Events)
    BY <1>2 DEF BlocksInv, Going, Goes
<1>6. CASE more
    <2>1. messageEvents' = Append(messageEvents, e)
        <3> HIDE DEF e, more
        <3> QED BY <1>1, <1>5, <1>6
    <2>2. Going' /\ Heard(messageEvents)' = w \o t
        <3> HIDE DEF t, w
        <3>1. Going' /\ Heard(messageEvents)' = Heard(messageEvents) \o t
            BY <1>1, <1>2, <1>3, <2>1, EventKeeps
        <3> QED BY <3>1 DEF w
    <2> HIDE DEF c, t, w
    <2> QED BY <1>1, <1>2, <1>3, <1>4, <2>2 DEF BlocksInv
<1>7. CASE ~more
    <2>1. messageEvents' = messageEvents
        <3> HIDE DEF e, more
        <3> QED BY <1>1, <1>5, <1>7, ConcatEmptySeq
    <2>2. t = <<>> /\ w \o <<>> = w
        BY <1>3, <1>7, ConcatEmptySeq
    <2>3. (Going' <=> Going) /\ Heard(messageEvents)' = w
        BY <1>1, <2>1, NothingTold
    <2> HIDE DEF c, t, w
    <2> QED BY <1>1, <1>2, <1>3, <1>4, <2>2, <2>3 DEF BlocksInv
<1> QED BY <1>6, <1>7

\* Every chunk the converter takes.
LEMMA ChunkKeeps ==
    ASSUME ChunksInv, BlocksInv, TakeChunk
    PROVE  BlocksInv'
<1> DEFINE c == out[taken + 1]
<1>1. /\ mpc = "converts" /\ front = "anthropic" /\ taken < Len(out)
      /\ UNCHANGED <<front, out>>
    BY DEF TakeChunk, streamVars
<1>2. \/ TextOf(c) # <<>> /\ TakeText(c) /\ taken' = taken + 1 /\ UNCHANGED mpc
      \/ TextOf(c) = <<>> /\ TakeCall(c) /\ UNCHANGED mpc
      \/ /\ TextOf(c) = <<>> /\ messageEvents' = CloseMessage(StopReason(c))
         /\ mpc' = "over" /\ taken' = taken + 1
         /\ UNCHANGED <<textOpen, blockIndex, toolBlocks>>
      \/ /\ TextOf(c) = <<>> /\ taken' = taken + 1
         /\ UNCHANGED <<mpc, messageEvents, textOpen, blockIndex, toolBlocks>>
    BY DEF TakeChunk
<1>3. CASE TextOf(c) # <<>> /\ TakeText(c) /\ taken' = taken + 1 /\ UNCHANGED mpc
    BY <1>1, <1>3, TakeTextKeeps
<1>4. CASE TextOf(c) = <<>> /\ TakeCall(c) /\ UNCHANGED mpc
    BY <1>1, <1>4, TakeCallKeeps
<1>5. CASE /\ TextOf(c) = <<>> /\ messageEvents' = CloseMessage(StopReason(c))
           /\ mpc' = "over" /\ taken' = taken + 1
           /\ UNCHANGED <<textOpen, blockIndex, toolBlocks>>
    <2>1. PICK reason \in {"tool_use", "end_turn"} : reason = StopReason(c)
        BY DEF StopReason
    <2>2. messageEvents' = CloseMessage(reason)
        BY <1>5, <2>1
    <2> QED BY <1>1, <1>5, <2>2, CloseKeeps
<1>6. CASE /\ TextOf(c) = <<>> /\ taken' = taken + 1
           /\ UNCHANGED <<mpc, messageEvents, textOpen, blockIndex, toolBlocks>>
    <2> DEFINE w == Heard(messageEvents)
    <2>1. /\ (Going' <=> Going) /\ Heard(messageEvents)' = w
        BY <1>6, NothingTold
    <2>2. taken + 1 \in 0..Len(out) /\ TakenText(taken + 1, out) = w
        <3>1. out \in Seq(Chunks) /\ taken \in 0..Len(out) /\ w = TakenText(taken, out)
            BY <1>1 DEF ChunksInv, BlocksInv
        <3>2. /\ taken + 1 \in 0..Len(out) /\ TakenText(taken + 1, out) = w \o <<>>
              /\ w \in Seq(WordsUsed)
            BY <1>1, <1>6, <3>1, TakenMore
        <3> QED BY <3>2, ConcatEmptySeq
    <2>3. TakenText(taken, out)' = w
        BY <1>1, <1>6, <2>2, NextOfLists
    <2> QED BY <1>1, <1>6, <2>1, <2>2, <2>3 DEF BlocksInv
<1> QED BY <1>2, <1>3, <1>4, <1>5, <1>6

\* Blocks of a whole answer are told apart from the events.
LEMMA WholeKeeps ==
    ASSUME ChunksInv, BlocksInv, RespondWhole
    PROVE  BlocksInv'
<1> DEFINE tells == {i \in DOMAIN out : out[i].kind = "call" \/ ToldText(<<out[i]>>) # <<>>}
           blocks == Selected(out, tells)
<1>1. /\ front = "anthropic" /\ mpc = "idle" /\ mpc' = "over"
      /\ messageEvents' = IF blocks = <<>> THEN <<BlockEvent("block", 0, <<"text">>)>>
                          ELSE [i \in DOMAIN blocks |-> BlockEvent("block", i - 1, blocks[i].value)]
      /\ UNCHANGED <<out, front, taken, textOpen, blockIndex, toolBlocks>>
    BY DEF RespondWhole, streamVars
<1>2. taken = 0 /\ Heard(messageEvents) = TakenText(taken, out) /\ messageEvents = <<>>
    BY <1>1 DEF BlocksInv
<1>3. PICK n \in Nat : /\ DOMAIN messageEvents' = 1..n /\ Len(messageEvents') = n
                       /\ \A i \in 1..n : messageEvents'[i].type = "block"
    <2>1. DOMAIN out = 1..Len(out) /\ Len(out) \in Nat /\ tells \in SUBSET (1..Len(out))
        BY DEF ChunksInv
    <2>2. PICK m \in Nat : DOMAIN blocks = 1..m
        <3> HIDE DEF tells
        <3> QED BY <2>1, SelectedList
    <2> HIDE DEF blocks
    <2>3. CASE blocks = <<>>
        <3> DEFINE e == BlockEvent("block", 0, <<"text">>)
        <3>1. messageEvents' = <<e>> /\ e.type = "block"
            BY <1>1, <2>3 DEF BlockEvent
        <3> HIDE DEF e
        <3>2. DOMAIN <<e>> = 1..1 /\ Len(<<e>>) = 1 /\ <<e>>[1] = e /\ 1 \in Nat
            OBVIOUS
        <3>3. \A i \in 1..1 : <<e>>[i].type = "block"
            BY <3>1
        <3> QED BY <3>1, <3>2, <3>3
    <2>4. CASE blocks # <<>>
        <3> DEFINE f == [i \in 1..m |-> BlockEvent("block", i - 1, blocks[i].value)]
        <3>1. messageEvents' = f
            BY <1>1, <2>2, <2>4
        <3>2. \A i \in 1..m : f[i].type = "block"
            BY DEF BlockEvent
        <3>3. DOMAIN f = 1..m
            OBVIOUS
        <3> HIDE DEF f
        <3>4. Len(f) = m
            BY <3>3
        <3> QED BY <3>1, <3>2, <3>3, <3>4
    <2> QED BY <2>3, <2>4
<1> DEFINE list == messageEvents'
<1> HIDE DEF list
<1>4. DOMAIN list = 1..n /\ Len(list) = n /\ \A i \in 1..n : list[i].type = "block"
    BY <1>3 DEF list
<1>5. \A t \in EventTypes : At(list, t) = {}
    BY <1>4 DEF At, EventTypes
<1>6. {"start", "stop", "text_delta", "json_delta", "message_stop"} \subseteq EventTypes
    BY DEF EventTypes
<1>7. EndsWell(list)
    BY <1>4, <1>5, <1>6 DEF EndsWell, Paired, Deltas, Numbers, ToolNumbers
<1>8. Heard(list) = <<>>
    <2> DEFINE p == [i \in 1..Len(list) |-> IF list[i].type \in {"text_delta", "chunk"}
                                            THEN list[i].value ELSE <<>>]
    <2>1. p = [i \in 1..n |-> <<>>]
        BY <1>4
    <2> HIDE DEF p
    <2>2. FlattenSeq(p) = <<>>
        BY <2>1, FlattenNothing
    <2> QED BY <2>2 DEF Heard, p
<1>9. Heard(<<>>) = <<>>
    BY GoesNothing DEF Goes
<1>10. EndsWell(messageEvents)' /\ Heard(messageEvents)' = <<>> /\ TakenText(taken, out)' = <<>>
    BY <1>1, <1>2, <1>7, <1>8, <1>9, NextOfLists DEF list
<1> QED BY <1>1, <1>10 DEF BlocksInv

\* The parts of Qoder's answer.
LEMMA PartsTyped ==
    ASSUME NEW texts \in Seq(Parts), NEW calls \in Seq(Parts)
    PROVE  ResponseParts(texts, calls) \in Seq(Parts)
<1> DEFINE named == Selected(calls, {i \in DOMAIN calls : calls[i] # "nameless"})
           solid == Selected(texts, {i \in DOMAIN texts : texts[i] = "text"})
           blocks == (IF named = <<>> THEN texts ELSE solid) \o named
<1>1. named \in Seq(Parts)
    <2>1. {i \in DOMAIN calls : calls[i] # "nameless"} \in SUBSET (DOMAIN calls)
        OBVIOUS
    <2> QED BY <2>1, SelectedTyped
<1>2. solid \in Seq(Parts)
    <2>1. {i \in DOMAIN texts : texts[i] = "text"} \in SUBSET (DOMAIN texts)
        OBVIOUS
    <2> QED BY <2>1, SelectedTyped
<1>3. ResponseParts(texts, calls) = IF blocks = <<>> THEN <<"empty">> ELSE blocks
    BY DEF ResponseParts
<1> HIDE DEF named, solid
<1>4. blocks \in Seq(Parts)
    BY <1>1, <1>2
<1>5. <<"empty">> \in Seq(Parts)
    <2>1. "empty" \in Parts
        BY DEF Parts
    <2> QED BY <2>1
<1> HIDE DEF blocks
<1> QED BY <1>3, <1>4, <1>5

\* The answer of Qoder is told in one piece.
LEMMA AnswerKeeps ==
    ASSUME BlocksInv, NEW texts \in Seq(Parts), NEW calls \in Seq(Parts),
           NEW reason \in {"end_turn", "tool_use"}, AnswerQoder(texts, calls, reason)
    PROVE  BlocksInv'
<1> DEFINE blocks == ResponseParts(texts, calls)
           N == Len(blocks)
           J == {i - 1 : i \in {j \in 1..N : blocks[j] = "call"}}
           all == messageEvents \o FlattenSeq([i \in DOMAIN blocks |-> PartEvents(blocks[i], i - 1)])
           w == Heard(messageEvents)
<1>1. /\ front = "qoder" /\ mpc = "converts" /\ mpc' = "over"
      /\ messageEvents' = all \o Finish(reason)
      /\ UNCHANGED <<out, front, taken, textOpen, blockIndex, toolBlocks>>
    BY DEF AnswerQoder, streamVars, Finish
<1>2. ~textOpen /\ blockIndex = 0 /\ toolBlocks = <<>>
    BY <1>1 DEF BlocksInv
<1>3. Goes(messageEvents, {}, {}, {}, {}, w)
    <2>1. /\ CallBlocks \subseteq 0..(0 - 1)
          /\ Goes(messageEvents, 0..(0 - 1), (0..(0 - 1)) \ CallBlocks, {}, CallBlocks, w)
        BY <1>1, <1>2, Blocks
    <2>2. 0..(0 - 1) = {}
        OBVIOUS
    <2>3. CallBlocks = {} /\ (0..(0 - 1)) \ CallBlocks = {}
        BY <2>1, <2>2
    <2> QED BY <2>1, <2>2, <2>3
<1>4. blocks \in Seq(Parts)
    BY PartsTyped
<1> HIDE DEF blocks, w
<1>5. PICK heard : Goes(all, 0..(N - 1), 0..(N - 1), J, J, heard)
    BY <1>3, <1>4, PartsEnd
<1> HIDE DEF all, N, J
<1>6. EndsWell(all \o Finish(reason))
    BY <1>5, EndOfList
<1>7. EndsWell(messageEvents)'
    BY <1>1, <1>6, NextOfLists
<1> QED BY <1>1, <1>7 DEF BlocksInv

\* Every step of the converter and of the chunks keeps both.
LEMMA BlocksStep ==
    ChunksInv /\ BlocksInv /\ [MessageNext]_<<streamVars, messageVars>> => ChunksInv' /\ BlocksInv'
<1> SUFFICES ASSUME ChunksInv, BlocksInv, [MessageNext]_<<streamVars, messageVars>>
             PROVE  ChunksInv' /\ BlocksInv'
    OBVIOUS
<1>1. UNCHANGED streamVars => ChunksInv'
    BY DEF streamVars, ChunksInv
<1>2. ASSUME OpenAI(StreamNext) \/ Anthropic(StreamNext) \/ Complete(StreamNext)
      PROVE  ChunksInv' /\ BlocksInv'
    <2>1. /\ StreamNext /\ front' \in {"openai", "anthropic", "complete"} /\ front \in {"none", front'}
          /\ UNCHANGED <<mpc, taken, textOpen, blockIndex, toolBlocks, messageEvents>>
        BY <1>2 DEF OpenAI, Anthropic, Complete
    <2>2. ChunksInv' /\ Grows
        BY <2>1, ChunksStep
    <2> QED BY <2>1, <2>2, FrontKeeps
<1>3. ASSUME StartMessage \/ StartQoder
      PROVE  UNCHANGED streamVars /\ BlocksInv'
    BY <1>3, BeginKeeps DEF StartMessage, StartQoder
<1>4. ASSUME RespondWhole
      PROVE  UNCHANGED streamVars /\ BlocksInv'
    BY <1>4, WholeKeeps DEF RespondWhole
<1>5. ASSUME TakeChunk
      PROVE  UNCHANGED streamVars /\ BlocksInv'
    BY <1>5, ChunkKeeps DEF TakeChunk
<1>6. ASSUME TakeTextChunk
      PROVE  UNCHANGED streamVars /\ BlocksInv'
    BY <1>6, TextChunkKeeps DEF TakeTextChunk
<1>7. ASSUME PingMessage
      PROVE  UNCHANGED streamVars /\ BlocksInv'
    BY <1>7, PingKeeps DEF PingMessage
<1>8. ASSUME RaiseAgain \/ QoderFails
      PROVE  UNCHANGED streamVars /\ BlocksInv'
    <2>1. /\ UNCHANGED streamVars /\ mpc = "converts" /\ mpc' = "raised"
          /\ UNCHANGED <<front, out, taken, textOpen, blockIndex, toolBlocks, messageEvents>>
        BY <1>8 DEF RaiseAgain, QoderFails, streamVars
    <2> QED BY <2>1, StaysInv
<1>9. ASSUME NEW texts \in {<<"empty">>, <<"blank">>, <<"text", "blank">>},
             NEW calls \in {<<>>, <<"nameless">>, <<"call", "nameless", "call">>},
             NEW reason \in {"end_turn", "tool_use"}, AnswerQoder(texts, calls, reason)
      PROVE  UNCHANGED streamVars /\ BlocksInv'
    <2>1. {"empty", "blank", "text", "call", "nameless"} \subseteq Parts
        BY DEF Parts
    <2>2. texts \in Seq(Parts) /\ calls \in Seq(Parts)
        <3>1. \A part \in Parts, other \in Parts :
                 /\ <<>> \in Seq(Parts) /\ <<part>> \in Seq(Parts)
                 /\ <<part, other>> \in Seq(Parts) /\ <<part, other, part>> \in Seq(Parts)
            OBVIOUS
        <3>2. \/ calls = <<>> \/ calls = <<"nameless">> \/ calls = <<"call", "nameless", "call">>
            OBVIOUS
        <3>3. \/ texts = <<"empty">> \/ texts = <<"blank">> \/ texts = <<"text", "blank">>
            OBVIOUS
        <3>4. texts \in Seq(Parts)
            BY <2>1, <3>1, <3>3
        <3>5. calls \in Seq(Parts)
            BY <2>1, <3>1, <3>2
        <3> QED BY <3>4, <3>5
    <2>3. BlocksInv'
        BY <1>9, <2>2, AnswerKeeps
    <2>4. UNCHANGED streamVars
        BY <1>9 DEF AnswerQoder
    <2> QED BY <2>3, <2>4
<1>10. ASSUME UNCHANGED <<streamVars, messageVars>>
       PROVE  UNCHANGED streamVars /\ BlocksInv'
    <2>1. /\ UNCHANGED streamVars /\ mpc' = mpc
          /\ UNCHANGED <<front, out, taken, textOpen, blockIndex, toolBlocks, messageEvents>>
        BY <1>10 DEF streamVars, messageVars
    <2> QED BY <2>1, StaysInv
<1> QED BY <1>1, <1>2, <1>3, <1>4, <1>5, <1>6, <1>7, <1>8, <1>9, <1>10 DEF MessageNext

\* A message's blocks are numbered as they start, told between their start and
\* their stop, and its text is what the chunks taken told (BlocksPaired, of
\* AnthropicStream): of streams, of whole answers and of Qoder's.
THEOREM MessagesWellFormed == MessageSpec => []BlocksPaired
<1>1. MessageInit => ChunksInv /\ BlocksInv
    BY ChunksStart, BlocksStart DEF MessageInit
<1>2. ChunksInv /\ BlocksInv /\ [MessageNext]_<<streamVars, messageVars>> => ChunksInv' /\ BlocksInv'
    BY BlocksStep
<1>3. BlocksInv => BlocksPaired
    BY BlocksByInv
<1> QED BY <1>1, <1>2, <1>3, PTL DEF MessageSpec

\* The converter leaves the chunks to the chat completion: what the sieve tells
\* is told whatever protocol the client has.
THEOREM ChunksUnderneath == MessageSpec => StreamSpec
<1>1. MessageInit => StreamInit
    BY DEF MessageInit
<1>2. [MessageNext]_<<streamVars, messageVars>> => [StreamNext]_streamVars
    BY DEF MessageNext, OpenAI, Anthropic, Complete, StartMessage, RespondWhole, TakeChunk,
           TakeTextChunk, RaiseAgain, PingMessage, StartQoder, QoderFails, AnswerQoder
<1> QED BY <1>1, <1>2, PTL DEF MessageSpec, StreamSpec
=============================================================================
