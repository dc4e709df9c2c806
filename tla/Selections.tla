----------------------------- MODULE Selections -----------------------------
(***************************************************************************)
(* Sequences filtered by place: a store whose expired entries are dropped,  *)
(* a list of calls of which some are kept.                                  *)
(***************************************************************************)
EXTENDS Naturals, Sequences, FiniteSets

\* What is left of a sequence when only its elements at the places S stay, in
\* their order.
Rank(S, i) == Cardinality({j \in S : j < i})
Selected(seq, S) ==
    [k \in 1..Cardinality(S) |-> seq[CHOOSE i \in S : Rank(S, i) = k - 1]]
=============================================================================
