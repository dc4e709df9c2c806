----------------------------- MODULE ImageSlots -----------------------------
(***************************************************************************)
(* What callers of the image account pool rely on, without accounts,       *)
(* probes or quotas: each token has Limit slots; a slot is granted only    *)
(* while fewer than Limit are held or lost, and a slot that is lost (its   *)
(* holder vanished without giving it back) stays lost.                     *)
(***************************************************************************)
EXTENDS Naturals, FiniteSets

CONSTANTS Workers, Tokens, NoToken, Limit

VARIABLES
    holds,   \* worker -> the token whose slot it holds, or NoToken
    lost     \* token -> slots lost

Held(t) == {w \in Workers : holds[w] = t}

Init ==
    /\ holds = [w \in Workers |-> NoToken]
    /\ lost = [t \in Tokens |-> 0]

Grant(w, t) ==
    /\ holds[w] = NoToken
    /\ Cardinality(Held(t)) + lost[t] < Limit
    /\ holds' = [holds EXCEPT ![w] = t]
    /\ UNCHANGED lost

GiveBack(w) ==
    /\ holds[w] # NoToken
    /\ holds' = [holds EXCEPT ![w] = NoToken]
    /\ UNCHANGED lost

Lose(w) ==
    /\ holds[w] # NoToken
    /\ lost' = [lost EXCEPT ![holds[w]] = @ + 1]
    /\ holds' = [holds EXCEPT ![w] = NoToken]

Next ==
    \E w \in Workers : GiveBack(w) \/ Lose(w) \/ \E t \in Tokens : Grant(w, t)

Spec == Init /\ [][Next]_<<holds, lost>>
=============================================================================
