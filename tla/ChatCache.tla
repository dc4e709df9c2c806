------------------------------ MODULE ChatCache ------------------------------
(***************************************************************************)
(* The cache of deterministic chat completions,                            *)
(* services/protocol/chat_completion_cache.py: get_or_compute.             *)
(*                                                                         *)
(* Identical requests that arrive while one of them is being computed      *)
(* share its result (dedupe_inflight); later ones are answered from an     *)
(* entry until it expires.  A request reads the settings and the clock     *)
(* once, when it arrives; an administrator may change the settings at any  *)
(* time, so what it uses after the computation may be out of date.         *)
(*                                                                         *)
(* An InflightCall is named by the request that owns it: its waiters are   *)
(* handed the outcome when it is published and need the object no longer.  *)
(***************************************************************************)
EXTENDS Naturals, FiniteSets

CONSTANTS
    Requests,     \* requests being served at a time
    NoRequest,
    Keys,         \* hashes of the request bodies
    NoKey,
    Settings,     \* settings an administrator chooses between
    MaxTime       \* bound: the clock stops here

ASSUME CacheAssumption ==
    /\ NoRequest \notin Requests
    /\ NoKey \notin Keys
    /\ MaxTime \in Nat
    /\ Settings # {}
    /\ Settings \subseteq [enabled : BOOLEAN, dedupe : BOOLEAN,
                           ttl : Nat, max : Nat \ {0}]

VARIABLES
    settings,    \* config.get_chat_completion_cache_settings()
    clock,       \* time.time()
    entries,     \* _entries: key -> entry
    inflight,    \* _inflight: key -> owner of the registered call
    pc,          \* where each request is
    key,         \* what it asks for
    cfg,         \* the settings it read
    now,         \* the time it read
    call,        \* the owner of the call it waits for
    answer       \* what it is about to return

local == <<key, cfg, now, call, answer>>
vars == <<settings, clock, entries, inflight, pc, local>>

\* An entry or an answer: the time of its computation and its expiry.
Results == [at : Nat, expires : Nat]
NoResult == [at |-> 0, expires |-> 0]
Raised == [at |-> 1, expires |-> 0]      \* the computation raised
NoSettings == [enabled |-> FALSE, dedupe |-> FALSE, ttl |-> 0, max |-> 1]

-----------------------------------------------------------------------------
\* Mutant: an entry is still served at the very time it expires.
ExpiredLate(entry, time) == entry = NoResult \/ entry.expires < time

Expired(entry, time) == entry = NoResult \/ entry.expires <= time

\* _prune_locked: expired entries go, then those that expire first until max
\* are left; which of those that expire together is left open.
Pruned(table, time, max) ==
    LET live == {k \in Keys : ~Expired(table[k], time)}
        size == IF Cardinality(live) < max THEN Cardinality(live) ELSE max
        Oldest(dropped) == \A d \in dropped, k \in live \ dropped :
                               table[d].expires <= table[k].expires
    IN  {[k \in Keys |-> IF k \in kept THEN table[k] ELSE NoResult] :
            kept \in {s \in SUBSET live : Cardinality(s) = size /\ Oldest(live \ s)}}

Goto(r, next) == pc' = [pc EXCEPT ![r] = next]

\* r has its outcome and returns it (or raises) next.
Answered(r, result) == answer' = [answer EXCEPT ![r] = result] /\ Goto(r, "return")

-----------------------------------------------------------------------------
(* Requests *)

\* Settings and clock are read, before the lock is taken.
Arrive(r, k) ==
    /\ pc[r] = "idle"
    /\ key' = [key EXCEPT ![r] = k]
    /\ cfg' = [cfg EXCEPT ![r] = settings]
    /\ now' = [now EXCEPT ![r] = clock]
    /\ Goto(r, IF settings.enabled /\ settings.ttl > 0 THEN "lookup" ELSE "bypass")
    /\ UNCHANGED <<settings, clock, entries, inflight, call, answer>>

\* The cache is off: the result or error is neither shared nor stored.
Bypass(r) ==
    /\ pc[r] = "bypass"
    /\ \/ Answered(r, [at |-> clock, expires |-> clock + 1])
       \/ Answered(r, Raised)
    /\ UNCHANGED <<settings, clock, entries, inflight, key, cfg, now, call>>

\* First lock section: prune, then a hit, a call to join, or a new call.
Lookup(r) ==
    LET k == key[r] IN
    /\ pc[r] = "lookup"
    /\ entries' \in Pruned(entries, now[r], cfg[r].max)
    /\ \/ /\ ~Expired(entries'[k], now[r])
          /\ Answered(r, entries'[k])
          /\ UNCHANGED <<inflight, call>>
       \/ /\ Expired(entries'[k], now[r])
          /\ cfg[r].dedupe /\ inflight[k] # NoRequest
          /\ call' = [call EXCEPT ![r] = inflight[k]]
          /\ Goto(r, "wait")
          /\ UNCHANGED <<inflight, answer>>
       \/ /\ Expired(entries'[k], now[r])
          /\ ~cfg[r].dedupe \/ inflight[k] = NoRequest
          /\ inflight' = IF cfg[r].dedupe THEN [inflight EXCEPT ![k] = r] ELSE inflight
          /\ Goto(r, "compute")
          /\ UNCHANGED <<call, answer>>
    /\ UNCHANGED <<settings, clock, key, cfg, now>>

\* _inflight.pop(key): whoever registered it.
PopInflight(k) == inflight' = [inflight EXCEPT ![k] = NoRequest]

\* compute raises: second lock section.
Raise(r) ==
    /\ pc[r] = "compute"
    /\ PopInflight(key[r])
    /\ answer' = [answer EXCEPT ![r] = Raised]
    /\ Goto(r, "publish")
    /\ UNCHANGED <<settings, clock, entries, key, cfg, now, call>>

\* Mutant: the call is unregistered before its result is stored.
StorePopsFirst(r) ==
    LET k == key[r] IN
    /\ pc[r] = "compute"
    /\ IF inflight[k] = r
       THEN PopInflight(k) /\ UNCHANGED <<pc, entries, answer>>
       ELSE LET result == [at |-> clock, expires |-> clock + cfg[r].ttl] IN
            /\ entries' \in Pruned([entries EXCEPT ![k] = result], clock, cfg[r].max)
            /\ answer' = [answer EXCEPT ![r] = result]
            /\ Goto(r, "publish")
            /\ UNCHANGED inflight
    /\ UNCHANGED <<settings, clock, key, cfg, now, call>>

\* compute returns: second lock section, with the ttl and size read at arrival.
Store(r) ==
    LET k == key[r]
        result == [at |-> clock, expires |-> clock + cfg[r].ttl] IN
    /\ pc[r] = "compute"
    /\ entries' \in Pruned([entries EXCEPT ![k] = result], clock, cfg[r].max)
    /\ PopInflight(k)
    /\ answer' = [answer EXCEPT ![r] = result]
    /\ Goto(r, "publish")
    /\ UNCHANGED <<settings, clock, key, cfg, now, call>>

\* Mutant: an error is not handed to the waiters.
PublishNoError(r) ==
    /\ pc[r] = "publish"
    /\ LET served == {w \in Requests : w = r \/ (pc[w] = "wait" /\ call[w] = r
                                                 /\ answer[r] # Raised)} IN
       /\ pc' = [w \in Requests |-> IF w \in served THEN "return" ELSE pc[w]]
       /\ answer' = [w \in Requests |-> IF w \in served THEN answer[r] ELSE answer[w]]
       /\ call' = [w \in Requests |-> IF w \in served THEN NoRequest ELSE call[w]]
    /\ UNCHANGED <<settings, clock, entries, inflight, key, cfg, now>>

\* The condition of the call: its waiters get the result or the error.
Publish(r) ==
    /\ pc[r] = "publish"
    /\ LET served == {w \in Requests : w = r \/ (pc[w] = "wait" /\ call[w] = r)} IN
       /\ pc' = [w \in Requests |-> IF w \in served THEN "return" ELSE pc[w]]
       /\ answer' = [w \in Requests |-> IF w \in served THEN answer[r] ELSE answer[w]]
       /\ call' = [w \in Requests |-> IF w \in served THEN NoRequest ELSE call[w]]
    /\ UNCHANGED <<settings, clock, entries, inflight, key, cfg, now>>

Return(r) ==
    /\ pc[r] = "return"
    /\ Goto(r, "idle")
    /\ key' = [key EXCEPT ![r] = NoKey]
    /\ cfg' = [cfg EXCEPT ![r] = NoSettings]
    /\ now' = [now EXCEPT ![r] = 0]
    /\ answer' = [answer EXCEPT ![r] = NoResult]
    /\ UNCHANGED <<settings, clock, entries, inflight, call>>

Step(r) ==
    Bypass(r) \/ Lookup(r) \/ Raise(r) \/ Store(r) \/ Publish(r) \/ Return(r)

-----------------------------------------------------------------------------
(* Time and the administrator *)

Tick ==
    /\ clock < MaxTime
    /\ clock' = clock + 1
    /\ UNCHANGED <<settings, entries, inflight, pc, local>>

\* config.update
Configure ==
    /\ settings' \in Settings
    /\ UNCHANGED <<clock, entries, inflight, pc, local>>

-----------------------------------------------------------------------------
Init ==
    /\ settings \in Settings
    /\ clock = 0
    /\ entries = [k \in Keys |-> NoResult]
    /\ inflight = [k \in Keys |-> NoRequest]
    /\ pc = [r \in Requests |-> "idle"]
    /\ key = [r \in Requests |-> NoKey]
    /\ cfg = [r \in Requests |-> NoSettings]
    /\ now = [r \in Requests |-> 0]
    /\ call = [r \in Requests |-> NoRequest]
    /\ answer = [r \in Requests |-> NoResult]

Next ==
    \/ \E r \in Requests : Step(r) \/ \E k \in Keys : Arrive(r, k)
    \/ Tick \/ Configure

Spec == Init /\ [][Next]_vars

\* A computation ends (its upstream calls have timeouts) and a thread that can
\* take the lock or is notified goes on.
FairSpec == Spec /\ \A r \in Requests : WF_vars(Step(r))

-----------------------------------------------------------------------------
(* Properties *)

\* The state has its type, and nobody returns without a result or an error.
TypeOK ==
    /\ settings \in Settings
    /\ clock \in 0 .. MaxTime
    /\ entries \in [Keys -> Results]
    /\ inflight \in [Keys -> Requests \cup {NoRequest}]
    /\ pc \in [Requests -> {"idle", "bypass", "lookup", "wait", "compute",
                            "publish", "return"}]
    /\ key \in [Requests -> Keys \cup {NoKey}]
    /\ cfg \in [Requests -> Settings \cup {NoSettings}]
    /\ now \in [Requests -> 0 .. MaxTime]
    /\ call \in [Requests -> Requests \cup {NoRequest}]
    /\ answer \in [Requests -> Results]
    /\ \A r \in Requests : pc[r] = "return" => answer[r] # NoResult

\* A request that waits, waits for one that still computes or publishes the
\* same key, so no waiter is left behind and none gets an answer to
\* another question.
WaitsForOwner ==
    \A r \in Requests : pc[r] = "wait" =>
        /\ call[r] \in Requests
        /\ pc[call[r]] \in {"compute", "publish"}
        /\ key[call[r]] = key[r]

\* Two requests that deduplicate never compute the same key at once
\* (test_chat_completion_cache.py: identical requests in flight share a single
\* result).
SharedFlight ==
    \A r, s \in Requests :
        /\ pc[r] = "compute" /\ pc[s] = "compute"
        /\ cfg[r].dedupe /\ cfg[s].dedupe
        /\ key[r] = key[s]
        => r = s

\* No request is answered with a result that had expired when it arrived,
\* however the time to live changed meanwhile and however long the lookup waited.
Fresh ==
    \A r \in Requests :
        pc[r] = "return" /\ answer[r] # Raised => answer[r].expires > now[r]

\* What a request carries with it: settings under which the cache is on, a time
\* that has passed, a key, and at the end an outcome.
RequestShape ==
    \A r \in Requests :
        /\ now[r] <= clock
        /\ pc[r] # "idle" => key[r] \in Keys
        /\ pc[r] \in {"lookup", "wait", "compute"} => cfg[r].ttl > 0
        /\ pc[r] \in {"publish", "return"} => answer[r] # NoResult

\* Whoever is registered for a key is still computing it.
OwnerComputes ==
    \A k \in Keys : inflight[k] # NoRequest =>
        pc[inflight[k]] = "compute" /\ key[inflight[k]] = k

\* A result about to be published had not expired when its owner, or any of those
\* who wait for it, arrived.
FreshForAll ==
    \A r \in Requests : pc[r] = "publish" /\ answer[r] # Raised =>
        /\ answer[r].expires > now[r]
        /\ \A w \in Requests : pc[w] = "wait" /\ call[w] = r => answer[r].expires > now[w]

\* The inductive invariant, whatever the administrator switches on and off.
Inductive ==
    TypeOK /\ RequestShape /\ OwnerComputes /\ WaitsForOwner /\ FreshForAll /\ Fresh

\* With deduplication always on, whoever computes is registered.
ComputersOwn == \A r \in Requests : pc[r] = "compute" => inflight[key[r]] = r

\* Every request ends, with a result or an error: that of its own computation
\* or that of the one it waits for.
Ends == \A r \in Requests : pc[r] # "idle" ~> pc[r] = "idle"
=============================================================================
