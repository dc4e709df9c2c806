---------------------------- MODULE MCChatCache -----------------------------
(* Small instances of the completion cache for TLC. *)
EXTENDS ChatCache, TLC

Choice(enabled, dedupe, ttl, max) ==
    [enabled |-> enabled, dedupe |-> dedupe, ttl |-> ttl, max |-> max]

\* Everything but deduplication may change.
AlwaysDedupe == {Choice(TRUE, TRUE, 2, 2), Choice(TRUE, TRUE, 1, 1),
                 Choice(FALSE, TRUE, 1, 1)}

\* Deduplication is switched on and off.
DedupeToggled == {Choice(TRUE, TRUE, 1, 1), Choice(TRUE, FALSE, 1, 1)}

Symmetry == Permutations(Requests) \cup Permutations(Keys)
=============================================================================
