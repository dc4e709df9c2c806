----------------------------- MODULE ChatProofs -----------------------------
(***************************************************************************)
(* Proofs about answers to clients of the OpenAI protocols: that requests   *)
(* that share a cached completion get a fresh one of theirs, that a response *)
(* that is completed told all of its items, and that a chat completion's    *)
(* sieve holds nothing back.                                                *)
(***************************************************************************)
EXTENDS ChatCache, ResponseStream, ChatStream, ListLemmas

-----------------------------------------------------------------------------
(* The completion cache, for any set of requests and keys, any bound of the *)
(* clock and any settings.                                                  *)

LEMMA ResultFacts ==
    /\ NoResult \in Results /\ Raised \in Results /\ Raised # NoResult
    /\ \A at, expires \in Nat : [at |-> at, expires |-> expires] \in Results
  BY DEF Results, NoResult, Raised

\* Pruning keeps the type of the table.
LEMMA PrunedType ==
    ASSUME NEW table \in [Keys -> Results], NEW time, NEW max,
           NEW pruned \in Pruned(table, time, max)
    PROVE  pruned \in [Keys -> Results]
  BY ResultFacts DEF Pruned

\* What is not expired is a result, and expires later.
LEMMA LiveFacts ==
    ASSUME NEW entry \in Results, NEW time \in Nat, ~Expired(entry, time)
    PROVE  entry # NoResult /\ entry.expires > time
  BY DEF Expired, Results

LEMMA InitInductive == Init => Inductive
<1>1. SUFFICES ASSUME Init PROVE Inductive
  OBVIOUS
<1>2. TypeOK
  BY <1>1, CacheAssumption, ResultFacts DEF Init, TypeOK
<1>3. RequestShape /\ OwnerComputes /\ WaitsForOwner /\ FreshForAll /\ Fresh
  BY <1>1 DEF Init, RequestShape, OwnerComputes, WaitsForOwner, FreshForAll, Fresh
<1>4. QED
  BY <1>2, <1>3 DEF Inductive

\* A request arrives or leaves: nobody waits for it.
LEMMA ArriveInductive ==
    ASSUME Inductive, NEW r \in Requests, NEW k \in Keys, Arrive(r, k)
    PROVE  Inductive'
<1> USE DEF Arrive, Goto
<1>1. TypeOK'
  BY CacheAssumption DEF Inductive, TypeOK
<1>2. RequestShape'
  BY CacheAssumption DEF Inductive, TypeOK, RequestShape
<1>3. OwnerComputes'
  BY CacheAssumption DEF Inductive, TypeOK, OwnerComputes
<1>4. WaitsForOwner'
  BY CacheAssumption DEF Inductive, TypeOK, WaitsForOwner
<1>5. FreshForAll' /\ Fresh'
  BY CacheAssumption DEF Inductive, TypeOK, FreshForAll, Fresh
<1>6. QED
  BY <1>1, <1>2, <1>3, <1>4, <1>5 DEF Inductive

LEMMA ReturnInductive ==
    ASSUME Inductive, NEW r \in Requests, Return(r)
    PROVE  Inductive'
<1> USE DEF Return, Goto
<1>1. TypeOK'
  BY CacheAssumption, ResultFacts DEF Inductive, TypeOK
<1>2. RequestShape'
  BY CacheAssumption DEF Inductive, TypeOK, RequestShape
<1>3. OwnerComputes'
  BY CacheAssumption DEF Inductive, TypeOK, OwnerComputes
<1>4. WaitsForOwner'
  BY CacheAssumption DEF Inductive, TypeOK, WaitsForOwner
<1>5. FreshForAll' /\ Fresh'
  BY CacheAssumption DEF Inductive, TypeOK, FreshForAll, Fresh
<1>6. QED
  BY <1>1, <1>2, <1>3, <1>4, <1>5 DEF Inductive

\* A request that bypasses the cache returns a result that expires after it
\* arrived, or the error.
LEMMA BypassInductive ==
    ASSUME Inductive, NEW r \in Requests, Bypass(r)
    PROVE  Inductive'
<1>1. PICK result \in Results :
        /\ result # NoResult /\ (result # Raised => result.expires > now[r])
        /\ Answered(r, result)
  <2>1. /\ clock \in Nat /\ now[r] \in Nat /\ clock + 1 > now[r]
        /\ [at |-> clock, expires |-> clock + 1] # NoResult
    BY CacheAssumption DEF Inductive, TypeOK, RequestShape, NoResult
  <2>2. QED
    BY <2>1, ResultFacts DEF Bypass
<1> USE DEF Bypass, Answered, Goto
<1>2. TypeOK'
  BY <1>1, CacheAssumption, ResultFacts DEF Inductive, TypeOK
<1>3. RequestShape'
  BY <1>1, CacheAssumption DEF Inductive, TypeOK, RequestShape
<1>4. OwnerComputes'
  BY CacheAssumption DEF Inductive, TypeOK, OwnerComputes
<1>5. WaitsForOwner'
  BY CacheAssumption DEF Inductive, TypeOK, WaitsForOwner
<1>6. FreshForAll' /\ Fresh'
  BY <1>1, CacheAssumption DEF Inductive, TypeOK, FreshForAll, Fresh
<1>7. QED
  BY <1>2, <1>3, <1>4, <1>5, <1>6 DEF Inductive

\* First lock section: a hit, a call to join, or a computation of one's own.
LEMMA LookupInductive ==
    ASSUME Inductive, NEW r \in Requests, Lookup(r)
    PROVE  Inductive'
<1>1. key[r] \in Keys /\ now[r] \in Nat /\ entries \in [Keys -> Results]
  BY CacheAssumption DEF Inductive, TypeOK, RequestShape, Lookup
<1>2. entries' \in [Keys -> Results]
  BY <1>1, PrunedType DEF Lookup
<1>3. entries'[key[r]] \in Results
  BY <1>1, <1>2
<1> DEFINE live == ~Expired(entries'[key[r]], now[r])
<1>4. CASE live
  <2>1. /\ pc' = [pc EXCEPT ![r] = "return"]
        /\ answer' = [answer EXCEPT ![r] = entries'[key[r]]]
        /\ UNCHANGED <<inflight, call, settings, clock, key, cfg, now>>
    BY <1>4 DEF Lookup, Answered, Goto
  <2>2. entries'[key[r]] # NoResult /\ entries'[key[r]].expires > now[r]
    BY <1>1, <1>3, <1>4, LiveFacts
  <2>3. pc[r] = "lookup"
    BY DEF Lookup
  <2>4. TypeOK'
    BY <1>2, <1>3, <2>1, <2>2 DEF Inductive, TypeOK
  <2>5. RequestShape'
    BY <2>1, <2>2, <2>3 DEF Inductive, TypeOK, RequestShape
  <2>6. OwnerComputes' /\ WaitsForOwner'
    BY <2>1, <2>3, CacheAssumption DEF Inductive, TypeOK, OwnerComputes, WaitsForOwner
  <2>7. FreshForAll' /\ Fresh'
    BY <2>1, <2>2, <2>3 DEF Inductive, TypeOK, FreshForAll, Fresh
  <2>8. QED
    BY <2>4, <2>5, <2>6, <2>7 DEF Inductive
<1>5. CASE ~live /\ cfg[r].dedupe /\ inflight[key[r]] # NoRequest
  <2>1. /\ pc' = [pc EXCEPT ![r] = "wait"]
        /\ call' = [call EXCEPT ![r] = inflight[key[r]]]
        /\ UNCHANGED <<inflight, answer, settings, clock, key, cfg, now>>
    BY <1>5 DEF Lookup, Goto
  <2>2. /\ inflight[key[r]] \in Requests
        /\ pc[inflight[key[r]]] = "compute" /\ key[inflight[key[r]]] = key[r]
    BY <1>1, <1>5 DEF Inductive, TypeOK, OwnerComputes
  <2>3. pc[r] = "lookup"
    BY DEF Lookup
  <2>4. TypeOK'
    BY <1>2, <2>1, <2>2 DEF Inductive, TypeOK
  <2>5. RequestShape' /\ OwnerComputes'
    BY <2>1, <2>3, CacheAssumption DEF Inductive, TypeOK, RequestShape, OwnerComputes
  <2>6. WaitsForOwner'
    BY <2>1, <2>2, <2>3, CacheAssumption DEF Inductive, TypeOK, WaitsForOwner
  <2>7. FreshForAll' /\ Fresh'
    BY <2>1, <2>2, <2>3 DEF Inductive, TypeOK, FreshForAll, Fresh
  <2>8. QED
    BY <2>4, <2>5, <2>6, <2>7 DEF Inductive
<1>6. CASE ~live /\ (~cfg[r].dedupe \/ inflight[key[r]] = NoRequest)
  <2>1. /\ pc' = [pc EXCEPT ![r] = "compute"]
        /\ inflight' = IF cfg[r].dedupe THEN [inflight EXCEPT ![key[r]] = r] ELSE inflight
        /\ UNCHANGED <<call, answer, settings, clock, key, cfg, now>>
    BY <1>6 DEF Lookup, Goto
  <2>2. pc[r] = "lookup"
    BY DEF Lookup
  <2>3. TypeOK'
    BY <1>2, <2>1 DEF Inductive, TypeOK
  <2>4. RequestShape' /\ OwnerComputes'
    BY <1>1, <2>1, <2>2, CacheAssumption DEF Inductive, TypeOK, RequestShape, OwnerComputes
  <2>5. WaitsForOwner'
    BY <2>1, <2>2, CacheAssumption DEF Inductive, TypeOK, WaitsForOwner
  <2>6. FreshForAll' /\ Fresh'
    BY <2>1, <2>2, CacheAssumption DEF Inductive, TypeOK, FreshForAll, Fresh
  <2>7. QED
    BY <2>3, <2>4, <2>5, <2>6 DEF Inductive
<1>7. QED
  BY <1>4, <1>5, <1>6

\* Second lock section.  outcome is a result that expires in the future, or the
\* error: whoever waits arrived before now.
LEMMA OutcomeInductive ==
    ASSUME Inductive, NEW r \in Requests, NEW outcome \in Results,
           pc[r] = "compute",
           outcome # NoResult, outcome # Raised => outcome.expires > clock,
           entries' \in [Keys -> Results],
           PopInflight(key[r]), answer' = [answer EXCEPT ![r] = outcome],
           Goto(r, "publish"), UNCHANGED <<settings, clock, key, cfg, now, call>>
    PROVE  Inductive'
<1> USE DEF PopInflight, Goto
<1>1. TypeOK'
  BY CacheAssumption DEF Inductive, TypeOK
<1>2. RequestShape'
  BY CacheAssumption DEF Inductive, TypeOK, RequestShape
<1>3. OwnerComputes'
  BY CacheAssumption DEF Inductive, TypeOK, OwnerComputes, RequestShape
<1>4. WaitsForOwner'
  BY CacheAssumption DEF Inductive, TypeOK, WaitsForOwner
<1>5. \A w \in Requests : now[w] \in Nat /\ now[w] <= clock /\ clock \in Nat
  BY CacheAssumption DEF Inductive, TypeOK, RequestShape
<1>6. FreshForAll'
  BY <1>5, CacheAssumption DEF Inductive, TypeOK, FreshForAll, Results
<1>7. Fresh'
  BY CacheAssumption DEF Inductive, TypeOK, Fresh
<1>8. QED
  BY <1>1, <1>2, <1>3, <1>4, <1>6, <1>7 DEF Inductive

LEMMA RaiseInductive ==
    ASSUME Inductive, NEW r \in Requests, Raise(r)
    PROVE  Inductive'
  BY OutcomeInductive, ResultFacts DEF Raise, Inductive, TypeOK

LEMMA StoreInductive ==
    ASSUME Inductive, NEW r \in Requests, Store(r)
    PROVE  Inductive'
<1> DEFINE result == [at |-> clock, expires |-> clock + cfg[r].ttl]
<1>1. /\ clock \in Nat /\ cfg[r].ttl \in Nat /\ cfg[r].ttl > 0
  <2>1. cfg[r] \in Settings \cup {NoSettings}
    BY DEF Inductive, TypeOK
  <2>2. cfg[r].ttl \in Nat
    BY <2>1, CacheAssumption DEF NoSettings
  <2>3. QED
    BY <2>2, CacheAssumption DEF Inductive, TypeOK, RequestShape, Store
<1>2. /\ result \in Results /\ result # NoResult
      /\ result.expires > clock
  BY <1>1, ResultFacts DEF NoResult
<1>3. [entries EXCEPT ![key[r]] = result] \in [Keys -> Results]
  BY <1>2 DEF Inductive, TypeOK
<1>4. entries' \in [Keys -> Results]
  BY <1>3, PrunedType DEF Store
<1>5. QED
  BY <1>2, <1>4, OutcomeInductive DEF Store

\* The owner and those who wait for it return the same outcome.
LEMMA PublishInductive ==
    ASSUME Inductive, NEW r \in Requests, Publish(r)
    PROVE  Inductive'
<1> USE DEF Publish
<1>1. TypeOK'
  BY CacheAssumption DEF Inductive, TypeOK, RequestShape
<1>2. RequestShape'
  BY CacheAssumption DEF Inductive, TypeOK, RequestShape
<1>3. OwnerComputes'
  BY CacheAssumption DEF Inductive, TypeOK, OwnerComputes
<1>4. WaitsForOwner'
  BY CacheAssumption DEF Inductive, TypeOK, WaitsForOwner
<1>5. FreshForAll' /\ Fresh'
  BY CacheAssumption DEF Inductive, TypeOK, FreshForAll, Fresh
<1>6. QED
  BY <1>1, <1>2, <1>3, <1>4, <1>5 DEF Inductive

LEMMA OutsideInductive ==
    ASSUME Inductive, Tick \/ Configure
    PROVE  Inductive'
<1>1. TypeOK'
  BY CacheAssumption DEF Inductive, TypeOK, Tick, Configure, local
<1>2. RequestShape'
  BY CacheAssumption DEF Inductive, TypeOK, RequestShape, Tick, Configure, local
<1>3. OwnerComputes' /\ WaitsForOwner' /\ FreshForAll' /\ Fresh'
  BY DEF Inductive, OwnerComputes, WaitsForOwner, FreshForAll, Fresh, Tick, Configure, local
<1>4. QED
  BY <1>1, <1>2, <1>3 DEF Inductive

LEMMA StutterInductive == Inductive /\ UNCHANGED vars => Inductive'
  BY DEF Inductive, TypeOK, RequestShape, OwnerComputes, WaitsForOwner, FreshForAll,
         Fresh, vars, local

-----------------------------------------------------------------------------
\* Inductive is an invariant of get_or_compute for every set of requests and
\* keys, whatever settings an administrator switches between.
THEOREM CacheInvariant == Spec => []Inductive
<1>1. Inductive /\ [Next]_vars => Inductive'
  BY ArriveInductive, ReturnInductive, BypassInductive, LookupInductive, RaiseInductive,
     StoreInductive, PublishInductive, OutsideInductive, StutterInductive
     DEF Next, Step
<1>2. QED
  BY <1>1, InitInductive, PTL DEF Spec

\* A waiter always waits for a live computation of its own key: whoever is
\* registered still computes, and whoever publishes hands the outcome to all.
THEOREM WaitersAttended == Spec => []WaitsForOwner
<1>1. Inductive => WaitsForOwner
  BY DEF Inductive
<1>2. QED
  BY <1>1, CacheInvariant, PTL

\* Nobody returns a result that had expired when the request arrived, neither from
\* the table nor from somebody else's computation.
THEOREM NoStaleAnswer == Spec => []Fresh
<1>1. Inductive => Fresh
  BY DEF Inductive
<1>2. QED
  BY <1>1, CacheInvariant, PTL

-----------------------------------------------------------------------------
(* Deduplication always on *)

AlwaysOn == \A s \in Settings : s.dedupe

\* Who computes is registered: no lookup finds the key free meanwhile, and no
\* one else unregisters it.
LEMMA ComputersOwnStep ==
    ASSUME AlwaysOn, Inductive, ComputersOwn, [Next]_vars
    PROVE  ComputersOwn'
<1> USE DEF ComputersOwn
<1>1. ASSUME NEW r \in Requests, Lookup(r) PROVE ComputersOwn'
  <2>1. pc[r] = "lookup" /\ key[r] \in Keys
    BY <1>1 DEF Lookup, Inductive, RequestShape
  <2>2. cfg[r].dedupe
    <3>1. cfg[r].ttl > 0
      BY <2>1 DEF Inductive, RequestShape
    <3>2. cfg[r] # NoSettings
      BY <3>1 DEF NoSettings
    <3>3. QED
      BY <3>2 DEF AlwaysOn, Inductive, TypeOK
  <2>3. ASSUME NEW s \in Requests, pc'[s] = "compute"
        PROVE  inflight'[key'[s]] = s
    <3>1. CASE s = r
      <4>1. /\ pc' = [pc EXCEPT ![r] = "compute"] /\ key' = key
            /\ inflight' = [inflight EXCEPT ![key[r]] = r]
        BY <1>1, <2>2, <2>3, <3>1 DEF Lookup, Answered, Goto, Inductive, TypeOK
      <4>2. QED
        BY <2>1, <3>1, <4>1 DEF Inductive, TypeOK
    <3>2. CASE s # r
      <4>1. pc[s] = "compute" /\ inflight[key[s]] = s /\ key' = key
        BY <1>1, <2>3, <3>2 DEF Lookup, Answered, Goto, Inductive, TypeOK
      <4>2. \/ inflight' = inflight
            \/ inflight[key[r]] = NoRequest /\ inflight' = [inflight EXCEPT ![key[r]] = r]
        BY <1>1, <2>2 DEF Lookup
      <4>3. key[s] \in Keys
        BY <4>1 DEF Inductive, RequestShape
      <4>4. QED
        BY <2>1, <4>1, <4>2, <4>3, CacheAssumption DEF Inductive, TypeOK
    <3>3. QED
      BY <3>1, <3>2
  <2>4. QED
    BY <2>3
<1>2. ASSUME NEW r \in Requests, Raise(r) \/ Store(r) PROVE ComputersOwn'
  BY <1>2, CacheAssumption
     DEF Raise, Store, PopInflight, Goto, Inductive, TypeOK, RequestShape
<1>3. ASSUME NEW r \in Requests,
             (\E k \in Keys : Arrive(r, k)) \/ Bypass(r) \/ Publish(r) \/ Return(r)
      PROVE  ComputersOwn'
  BY <1>3 DEF Arrive, Bypass, Publish, Return, Answered, Goto, Inductive, TypeOK
<1>4. CASE Tick \/ Configure \/ UNCHANGED vars
  BY <1>4 DEF Tick, Configure, vars, local
<1>5. QED
  BY <1>1, <1>2, <1>3, <1>4 DEF Next, Step

\* While deduplication stays on, two requests never compute the same key at
\* once, whatever else an administrator changes.
THEOREM SingleFlight == ASSUME AlwaysOn PROVE Spec => []SharedFlight
<1>1. Init => ComputersOwn
  BY DEF Init, ComputersOwn
<1>2. ComputersOwn => SharedFlight
  BY DEF ComputersOwn, SharedFlight
<1>3. Inductive /\ ComputersOwn /\ [Next]_vars => ComputersOwn'
  BY AlwaysOn, ComputersOwnStep
<1>4. QED
  BY <1>1, <1>2, <1>3, CacheInvariant, PTL DEF Spec

-----------------------------------------------------------------------------
(* Responses.                                                              *)

\* The calls read from an answer are a list, whichever parser read them.
LEMMA CallsAreList ==
    ASSUME NEW t, NEW n \in Nat, DOMAIN t = 1..n
    PROVE  \E m \in Nat : DOMAIN ParseToolCallsForTools(t) = 1..m
<1>1. /\ \E m \in Nat : DOMAIN ReadXml(t) = 1..m
      /\ \E m \in Nat : DOMAIN ReadJson(t) = 1..m
      /\ \E m \in Nat : DOMAIN ReadLoose(t) = 1..m
    <2>1. {i \in DOMAIN t : i \in Marked(t) /\ t[i] \in Bodies \ {"garbled"}} \in SUBSET (1..n)
        OBVIOUS
    <2>2. {i \in DOMAIN t : t[i] = "json"} \in SUBSET (1..n)
        OBVIOUS
    <2>3. {i \in DOMAIN t : t[i] \in Offered} \in SUBSET (1..n)
        OBVIOUS
    <2>4. \E m \in Nat : DOMAIN ReadXml(t) = 1..m
        BY <2>1, SelectedList DEF ReadXml
    <2>5. \E m \in Nat : DOMAIN ReadJson(t) = 1..m
        BY <2>2, SelectedList DEF ReadJson
    <2>6. \E m \in Nat : DOMAIN ReadLoose(t) = 1..m
        BY <2>3, SelectedList DEF ReadLoose
    <2> QED BY <2>4, <2>5, <2>6
<1>2. PICK r \in Nat : DOMAIN ReadCalls(t) = 1..r
    BY <1>1 DEF ReadCalls
<1>3. PICK o \in Nat : DOMAIN OfferedCalls(ReadCalls(t)) = 1..o
    <2>1. {i \in DOMAIN ReadCalls(t) : ReadCalls(t)[i] \in Offered} \in SUBSET (1..r)
        BY <1>2
    <2> QED BY <1>2, <2>1, SelectedList DEF OfferedCalls
<1>4. PICK p \in Nat : DOMAIN ParseToolCalls(t) = 1..p
    <2>1. DOMAIN <<>> = 1..0 /\ DOMAIN <<"fits">> = 1..1
        OBVIOUS
    <2>2. \E m \in Nat : DOMAIN GlobAsBash(t) = 1..m
        BY <2>1 DEF GlobAsBash
    <2> QED BY <1>3, <2>1, <2>2 DEF ParseToolCalls
<1>5. {i \in DOMAIN ParseToolCalls(t) : ParseToolCalls(t)[i] # "misfits"} \in SUBSET (1..p)
    BY <1>4
<1>6. \E m \in Nat : DOMAIN RepairToolCalls(ParseToolCalls(t)) = 1..m
    <2> DEFINE calls == ParseToolCalls(t)
               S == {i \in DOMAIN calls : calls[i] # "misfits"}
    <2>1. DOMAIN calls = 1..p /\ S \in SUBSET (1..p)
        BY <1>4, <1>5
    <2>2. RepairToolCalls(calls) = Selected(calls, S)
        BY DEF RepairToolCalls
    <2> HIDE DEF calls, S
    <2>3. \E m \in Nat : DOMAIN Selected(calls, S) = 1..m
        BY <2>1, SelectedList
    <2> QED BY <2>2, <2>3 DEF calls
<1> QED BY <1>6 DEF ParseToolCallsForTools

\* A response has one output item at least.
LEMMA OutputIsList ==
    ASSUME NEW t \in Answers
    PROVE  \E n \in Nat \ {0} : DOMAIN OutputFromText(t) = 1..n /\ Len(OutputFromText(t)) = n
<1>1. PICK l \in Nat : DOMAIN t = 1..l
    BY DEF Answers
<1> DEFINE calls == IF source = "tools" THEN ParseToolCallsForTools(t) ELSE <<>>
<1>2. PICK m \in Nat : DOMAIN calls = 1..m
    BY <1>1, CallsAreList
<1>3. CASE calls # <<>>
    <2>1. m # 0
        BY <1>2, <1>3
    <2>2. OutputFromText(t) = [i \in 1..m |-> OutputItem("function_call", <<calls[i]>>)]
        BY <1>2, <1>3 DEF OutputFromText
    <2> QED BY <2>1, <2>2
<1>4. CASE calls = <<>>
    <2>1. OutputFromText(t) = <<OutputItem("message", t)>>
        BY <1>4 DEF OutputFromText
    <2> QED BY <2>1
<1> QED BY <1>3, <1>4

-----------------------------------------------------------------------------
\* The events about the item n of an output end at d, where it is done once.
EndsAt(list, n, d) ==
    /\ d \in 1..Len(list)
    /\ list[d].type = "done" /\ list[d].index = n - 1
    /\ \A i \in 1..Len(list) : list[i].index = n - 1
          => i <= d /\ (list[i].type = "done" => i = d)

\* Events about other items that come after change nothing.
LEMMA EndsBefore ==
    ASSUME NEW X, NEW list \in Seq(X), NEW more \in Seq(X), NEW n, NEW d, EndsAt(list, n, d),
           \A j \in 1..Len(more) : more[j].index # n - 1
    PROVE  EndsAt(list \o more, n, d)
<1> DEFINE all == list \o more
<1>1. Len(list) \in Nat /\ Len(more) \in Nat /\ Len(all) = Len(list) + Len(more)
    OBVIOUS
<1>2. \A i \in 1..Len(list) : all[i] = list[i]
    OBVIOUS
<1>3. \A i \in 1..Len(all) : i \notin 1..Len(list)
          => i - Len(list) \in 1..Len(more) /\ all[i] = more[i - Len(list)]
    BY <1>1
<1>4. d \in 1..Len(all) /\ all[d] = list[d]
    BY <1>1, <1>2 DEF EndsAt
<1> HIDE DEF all
<1> QED BY <1>1, <1>2, <1>3, <1>4 DEF EndsAt, all

\* Events about other items come before.
LEMMA EndsAfter ==
    ASSUME NEW X, NEW list \in Seq(X), NEW more \in Seq(X), NEW n, NEW d, EndsAt(more, n, d),
           \A j \in 1..Len(list) : list[j].index # n - 1
    PROVE  EndsAt(list \o more, n, Len(list) + d)
<1> DEFINE all == list \o more
<1>1. Len(list) \in Nat /\ Len(more) \in Nat /\ Len(all) = Len(list) + Len(more)
    OBVIOUS
<1>2. \A i \in 1..Len(list) : all[i] = list[i]
    OBVIOUS
<1>3. \A i \in 1..Len(all) : i \notin 1..Len(list)
          => i - Len(list) \in 1..Len(more) /\ all[i] = more[i - Len(list)]
    BY <1>1
<1>4. /\ d \in 1..Len(more) /\ Len(list) + d \in 1..Len(all)
      /\ all[Len(list) + d] = more[d]
    BY <1>1 DEF EndsAt
<1> HIDE DEF all
<1>5. ASSUME NEW i \in 1..Len(all), all[i].index = n - 1
      PROVE  i <= Len(list) + d /\ (all[i].type = "done" => i = Len(list) + d)
    <2>1. i \notin 1..Len(list)
        BY <1>2, <1>5
    <2>2. i - Len(list) \in 1..Len(more) /\ all[i] = more[i - Len(list)]
        BY <1>3, <2>1
    <2>3. i - Len(list) <= d /\ (all[i].type = "done" => i - Len(list) = d)
        BY <1>5, <2>2 DEF EndsAt
    <2> QED BY <1>1, <1>4, <2>2, <2>3
<1>6. EndsAt(all, n, Len(list) + d)
    BY <1>4, <1>5 DEF EndsAt
<1> QED BY <1>6 DEF all

\* What is told of an item, and of an output.
Kinds == {"added", "delta", "value_done", "done"}
EventsOf(output) == {About(k, n - 1, output[n]) : k \in Kinds, n \in DOMAIN output}

\* The events of one item are all about it, and end with its only done.
LEMMA OneItem ==
    ASSUME NEW output, NEW n \in DOMAIN output, DOMAIN output \subseteq Nat
    PROVE  /\ ItemEvents(output[n], n - 1) \in Seq(EventsOf(output))
           /\ \A i \in 1..Len(ItemEvents(output[n], n - 1)) :
                 ItemEvents(output[n], n - 1)[i].index = n - 1
           /\ \E d : EndsAt(ItemEvents(output[n], n - 1), n, d)
<1> DEFINE item == output[n]
           types == IF item.kind = "message" /\ item.value = <<>>
                    THEN <<"added", "value_done", "done">>
                    ELSE <<"added", "delta", "value_done", "done">>
           list == ItemEvents(item, n - 1)
<1>1. PICK m \in {3, 4} : /\ types \in [1..m -> Kinds] /\ types[m] = "done"
                         /\ \A i \in 1..m : types[i] = "done" => i = m
    <2>1. CASE item.kind = "message" /\ item.value = <<>>
        BY <2>1 DEF Kinds
    <2>2. CASE ~(item.kind = "message" /\ item.value = <<>>)
        BY <2>2 DEF Kinds
    <2> QED BY <2>1, <2>2
<1>2. list = [i \in DOMAIN types |-> About(types[i], n - 1, item)]
    BY DEF ItemEvents
<1> HIDE DEF types, list
<1>3. /\ list \in [1..m -> EventsOf(output)]
      /\ \A i \in 1..m : list[i].type = types[i] /\ list[i].index = n - 1
    BY <1>1, <1>2 DEF EventsOf, About
<1>4. list \in Seq(EventsOf(output)) /\ Len(list) = m
    BY <1>3
<1>5. EndsAt(list, n, m)
    BY <1>1, <1>3, <1>4 DEF EndsAt
<1> QED BY <1>3, <1>4, <1>5 DEF list

\* The events of all items: each item is done once, after all else about it.
LEMMA AllItems ==
    ASSUME NEW output, NEW N \in Nat \ {0}, DOMAIN output = 1..N
    PROVE  /\ OutputItems(output) \in Seq(EventsOf(output))
           /\ \A n \in 1..N : \E d : EndsAt(OutputItems(output), n, d)
<1> DEFINE pieces == [i \in DOMAIN output |-> ItemEvents(output[i], i - 1)]
<1>1. /\ Len(pieces) = N
      /\ \A n \in 1..N : /\ pieces[n] \in Seq(EventsOf(output))
                         /\ \A i \in 1..Len(pieces[n]) : pieces[n][i].index = n - 1
                         /\ \E d : EndsAt(pieces[n], n, d)
    <2>1. DOMAIN output \subseteq Nat
        OBVIOUS
    <2>2. Len(pieces) = N
        OBVIOUS
    <2>3. \A n \in 1..N : pieces[n] = ItemEvents(output[n], n - 1)
        OBVIOUS
    <2> HIDE DEF pieces
    <2>4. ASSUME NEW n \in 1..N
          PROVE  /\ pieces[n] \in Seq(EventsOf(output))
                 /\ \A i \in 1..Len(pieces[n]) : pieces[n][i].index = n - 1
                 /\ \E d : EndsAt(pieces[n], n, d)
        <3>1. n \in DOMAIN output
            OBVIOUS
        <3>2. /\ ItemEvents(output[n], n - 1) \in Seq(EventsOf(output))
              /\ \A i \in 1..Len(ItemEvents(output[n], n - 1)) :
                    ItemEvents(output[n], n - 1)[i].index = n - 1
              /\ \E d : EndsAt(ItemEvents(output[n], n - 1), n, d)
            BY <2>1, <3>1, OneItem
        <3> QED BY <2>3, <3>2
    <2> QED BY <2>2, <2>4
<1> HIDE DEF pieces
<1>2. PICK f : /\ f = [i \in 1..N |-> IF i = 1 THEN pieces[i] ELSE f[i - 1] \o pieces[i]]
               /\ FlattenSeq(pieces) = f[N]
    BY <1>1, FlattenParts
<1> DEFINE Good(k) == /\ f[k] \in Seq(EventsOf(output))
                      /\ \A i \in 1..Len(f[k]) : f[k][i].index \in Int /\ f[k][i].index < k
                      /\ \A n \in 1..k : \E d : EndsAt(f[k], n, d)
           T == {k \in 1..N : ~Good(k)}
<1>3. T = {}
    <2>1. SUFFICES ASSUME T # {}
                   PROVE  FALSE
        OBVIOUS
    <2>2. PICK k \in 1..N : ~Good(k) /\ \A m \in 1..N : ~Good(m) => k <= m
        <3> HIDE DEF Good
        <3>1. T \in SUBSET Nat
            OBVIOUS
        <3> QED BY <2>1, <3>1, LeastOne
    <2>3. CASE k = 1
        <3>1. f[1] = pieces[1]
            BY <1>2
        <3>2. Good(1)
            BY <1>1, <3>1
        <3> QED BY <2>2, <2>3, <3>2
    <2>4. CASE k # 1
        <3>1. k - 1 \in 1..N /\ ~(k <= k - 1)
            BY <2>4
        <3>2. Good(k - 1)
            <4> HIDE DEF Good
            <4> QED BY <2>2, <3>1
        <3>3. f[k] = f[k - 1] \o pieces[k]
            BY <1>2, <2>4
        <3> DEFINE list == f[k - 1]
                   more == pieces[k]
        <3>4. /\ list \in Seq(EventsOf(output)) /\ more \in Seq(EventsOf(output))
              /\ \A i \in 1..Len(list) : list[i].index \in Int /\ list[i].index < k - 1
              /\ \A i \in 1..Len(more) : more[i].index = k - 1
            BY <1>1, <3>2
        <3>5. \A n \in 1..(k - 1) : \E d : EndsAt(list, n, d)
            BY <3>2
        <3>6. \E d : EndsAt(more, k, d)
            BY <1>1
        <3> HIDE DEF list, more
        <3>7. list \o more \in Seq(EventsOf(output))
            BY <3>4
        <3>8. ASSUME NEW i \in 1..Len(list \o more)
              PROVE  (list \o more)[i].index \in Int /\ (list \o more)[i].index < k
            <4>1. Len(list) \in Nat /\ Len(more) \in Nat /\ Len(list \o more) = Len(list) + Len(more)
                BY <3>4
            <4>2. CASE i \in 1..Len(list)
                <5>1. (list \o more)[i] = list[i]
                    BY <3>4, <4>2
                <5> QED BY <3>4, <4>2, <5>1
            <4>3. CASE i \notin 1..Len(list)
                <5>1. i - Len(list) \in 1..Len(more)
                    BY <4>1, <4>3
                <5>2. (list \o more)[i] = more[i - Len(list)]
                    BY <3>4, <4>1, <4>3
                <5>3. more[i - Len(list)].index = k - 1 /\ k - 1 \in Int
                    BY <3>4, <5>1
                <5> QED BY <5>2, <5>3
            <4> QED BY <4>2, <4>3
        <3>9. ASSUME NEW n \in 1..k
              PROVE  \E d : EndsAt(list \o more, n, d)
            <4>1. CASE n = k
                <5>1. \A i \in 1..Len(list) : list[i].index # k - 1
                    BY <3>4
                <5> QED BY <3>4, <3>6, <4>1, <5>1, EndsAfter
            <4>2. CASE n # k
                <5>1. n \in 1..(k - 1) /\ \A i \in 1..Len(more) : more[i].index # n - 1
                    BY <3>4, <4>2
                <5> QED BY <3>4, <3>5, <5>1, EndsBefore
            <4> QED BY <4>1, <4>2
        <3>10. f[k] = list \o more
            BY <3>3 DEF list, more
        <3>11. Good(k)
            BY <3>7, <3>8, <3>9, <3>10
        <3> QED BY <2>2, <3>11
    <2> QED BY <2>3, <2>4
<1>4. Good(N)
    <2> HIDE DEF Good
    <2> QED BY <1>3
<1>5. OutputItems(output) = f[N]
    BY <1>2 DEF OutputItems, pieces
<1> QED BY <1>4, <1>5

-----------------------------------------------------------------------------
\* What a response that is over tells.
TellsAll(list) ==
    LET Dones(n) == {i \in DOMAIN list : list[i].type = "done" /\ list[i].index = n}
        output == list[Len(list)].output
    IN  /\ {i \in DOMAIN list : list[i].type = "completed"} = {Len(list)}
        /\ output # <<>>
        /\ \A n \in DOMAIN output :
              /\ Cardinality(Dones(n - 1)) = 1
              /\ \A i \in DOMAIN list : list[i].index = n - 1 /\ list[i].type # "completed"
                    => list[i].item = output[n] /\ i <= Max(Dones(n - 1))

\* A list that begins with created, goes on with events that are about the items
\* and end each once, and closes with the completion tells all.
LEMMA EndTellsAll ==
    ASSUME NEW output, NEW N \in Nat \ {0}, DOMAIN output = 1..N, Len(output) = N,
           NEW list \in Seq(EventsOf(output)), \A n \in 1..N : \E d : EndsAt(list, n, d)
    PROVE  LET all == <<About("created", -1, NoItem)>> \o list \o <<Completed(output)>>
           IN  TellsAll(all) /\ all[Len(all)].output = output
<1> DEFINE created == About("created", -1, NoItem)
           last == Completed(output)
           X == EventsOf(output) \cup {created, last}
           begun == <<created>> \o list
           all == begun \o <<last>>
<1>1. /\ created.type = "created" /\ created.index = -1
      /\ last.type = "completed" /\ last.index = N /\ last.output = output
    BY DEF About, Completed
<1>2. \A e \in EventsOf(output) : /\ e.type # "completed" /\ e.index \in Int
                                  /\ \E n \in 1..N : e.index = n - 1 /\ e.item = output[n]
    BY DEF EventsOf, About, Kinds
<1>3. list \in Seq(X) /\ <<created>> \in Seq(X) /\ <<last>> \in Seq(X) /\ Len(list) \in Nat
    OBVIOUS
<1>4. /\ \A i \in 1..Len(list) : list[i] \in EventsOf(output)
      /\ Len(<<created>>) = 1 /\ <<created>>[1] = created
      /\ Len(<<last>>) = 1 /\ <<last>>[1] = last
    OBVIOUS
<1> HIDE DEF created, last, X
<1>5. /\ begun \in Seq(X) /\ Len(begun) = Len(list) + 1 /\ begun[1] = created
      /\ \A i \in 1..Len(begun) : i # 1 => i - 1 \in 1..Len(list) /\ begun[i] = list[i - 1]
    BY <1>3, <1>4
<1> HIDE DEF begun
<1>6. /\ all \in Seq(X) /\ Len(all) = Len(begun) + 1 /\ all[Len(all)] = last
      /\ \A i \in 1..Len(all) : i # Len(all) => i \in 1..Len(begun) /\ all[i] = begun[i]
    BY <1>3, <1>4, <1>5
<1>7. ASSUME NEW n \in 1..N
      PROVE  \E d : EndsAt(all, n, d)
    <2>1. PICK d : EndsAt(list, n, d)
        OBVIOUS
    <2>2. \A j \in 1..Len(<<created>>) : <<created>>[j].index # n - 1
        BY <1>1, <1>4
    <2>3. EndsAt(begun, n, Len(<<created>>) + d)
        BY <1>3, <2>1, <2>2, EndsAfter DEF begun
    <2>4. \A j \in 1..Len(<<last>>) : <<last>>[j].index # n - 1
        BY <1>1, <1>4
    <2> QED BY <1>3, <1>5, <2>3, <2>4, EndsBefore
<1>8. DOMAIN all = 1..Len(all) /\ Len(all) \in Nat
    BY <1>6
<1> HIDE DEF all
<1>9. \A i \in 1..Len(all) : all[i].type = "completed" <=> i = Len(all)
    <2>1. ASSUME NEW i \in 1..Len(all), i # Len(all)
          PROVE  all[i].type # "completed"
        <3>1. all[i] = begun[i] /\ i \in 1..Len(begun)
            BY <1>6, <2>1
        <3>2. CASE i = 1
            BY <1>1, <1>5, <3>1, <3>2
        <3>3. CASE i # 1
            <4>1. all[i] \in EventsOf(output)
                BY <1>4, <1>5, <3>1, <3>3
            <4> QED BY <1>2, <4>1
        <3> QED BY <3>2, <3>3
    <2> QED BY <1>1, <1>6, <2>1
<1>10. ASSUME NEW n \in 1..N
       PROVE  LET Dones(m) == {i \in DOMAIN all : all[i].type = "done" /\ all[i].index = m}
              IN  /\ Cardinality(Dones(n - 1)) = 1
                  /\ \A i \in DOMAIN all : all[i].index = n - 1 /\ all[i].type # "completed"
                        => all[i].item = output[n] /\ i <= Max(Dones(n - 1))
    <2> DEFINE D == {i \in DOMAIN all : all[i].type = "done" /\ all[i].index = n - 1}
    <2>1. PICK d : EndsAt(all, n, d)
        BY <1>7
    <2>2. D = {d} /\ d \in Nat
        BY <1>8, <2>1 DEF EndsAt
    <2>3. Cardinality(D) = 1 /\ Max(D) = d
        <3>1. Cardinality({d}) = 1
            BY FS_Singleton
        <3>2. Max({d}) = d
            BY <2>2 DEF Max
        <3> HIDE DEF D
        <3> QED BY <2>2, <3>1, <3>2
    <2>4. ASSUME NEW i \in 1..Len(all), all[i].index = n - 1, all[i].type # "completed"
          PROVE  all[i].item = output[n] /\ i <= d
        <3>1. i # Len(all) /\ all[i] = begun[i] /\ i \in 1..Len(begun)
            BY <1>6, <1>9, <2>4
        <3>2. i # 1
            BY <1>1, <1>5, <2>4, <3>1
        <3>3. all[i] \in EventsOf(output)
            BY <1>4, <1>5, <3>1, <3>2
        <3>4. all[i].item = output[n]
            BY <1>2, <2>4, <3>3
        <3> QED BY <2>1, <2>4, <3>4 DEF EndsAt
    <2> HIDE DEF D
    <2>5. \A i \in DOMAIN all : all[i].index = n - 1 /\ all[i].type # "completed"
             => all[i].item = output[n] /\ i <= Max(D)
        BY <1>8, <2>3, <2>4
    <2> QED BY <2>3, <2>5 DEF D
<1>11. all[Len(all)].output = output /\ output # <<>>
    BY <1>1, <1>6
<1>12. TellsAll(all)
    <2>1. {i \in DOMAIN all : all[i].type = "completed"} = {Len(all)}
        BY <1>5, <1>6, <1>8, <1>9, <1>3
    <2> QED BY <1>10, <1>11, <2>1 DEF TellsAll
<1> QED BY <1>11, <1>12 DEF all, begun, created, last

\* Before the end nothing is told but that the response was created.
ResponseInv ==
    /\ rpc \in {"asks", "raised", "over"}
    /\ rpc # "over" => /\ collected = <<>>
                       /\ told = IF source = "none" THEN <<>> ELSE <<About("created", -1, NoItem)>>
    /\ rpc = "over" => /\ source # "none"
                       /\ TellsAll(told)
                       /\ ~streams => collected = told[Len(told)].output

\* The inductive invariant implies the property.
LEMMA CompletedByInv == ResponseInv => CompletedTellsAll
<1>1. ASSUME rpc # "over", ResponseInv
      PROVE  {i \in DOMAIN told : told[i].type = "completed"} = {} /\ collected = <<>>
    <2>1. About("created", -1, NoItem).type # "completed"
        BY DEF About
    <2> QED BY <1>1, <2>1 DEF ResponseInv
<1> QED BY <1>1 DEF ResponseInv, TellsAll, CompletedTellsAll

\* A response ends with the events of its items.
LEMMA EndKeeps ==
    ASSUME ResponseInv, rpc = "asks", source # "none", UNCHANGED <<source, streams>>,
           NEW output, NEW N \in Nat \ {0}, DOMAIN output = 1..N, Len(output) = N,
           NEW list \in Seq(EventsOf(output)), \A n \in 1..N : \E d : EndsAt(list, n, d),
           End(list, output)
    PROVE  ResponseInv'
<1>1. told' = <<About("created", -1, NoItem)>> \o list \o <<Completed(output)>>
    BY DEF ResponseInv, End
<1>2. /\ TellsAll(<<About("created", -1, NoItem)>> \o list \o <<Completed(output)>>)
      /\ LET all == <<About("created", -1, NoItem)>> \o list \o <<Completed(output)>>
         IN  all[Len(all)].output = output
    BY EndTellsAll
<1>3. TellsAll(told') /\ told'[Len(told')].output = output
    BY <1>1, <1>2
<1>4. TellsAll(told)' = TellsAll(told')
    BY DEF TellsAll
<1>5. rpc' = "over" /\ (~streams' => collected' = output) /\ source' # "none"
    BY DEF End
<1> QED BY <1>3, <1>4, <1>5 DEF ResponseInv

\* A response starts with nothing told.
LEMMA ResponseStart == ResponseInit => ResponseInv
BY DEF ResponseInit, ResponseInv

\* The answer of a text model is told with all its items.
LEMMA AnswerTextKeeps ==
    ASSUME ResponseInv, NEW t \in Answers, AnswerText(t)
    PROVE  ResponseInv'
<1> DEFINE output == OutputFromText(t)
<1>1. PICK N \in Nat \ {0} : DOMAIN output = 1..N /\ Len(output) = N
    BY OutputIsList
<1>2. /\ rpc = "asks" /\ source # "none" /\ UNCHANGED <<source, streams>>
      /\ End(OutputItems(output), output)
    BY DEF AnswerText
<1> HIDE DEF output
<1>3. /\ OutputItems(output) \in Seq(EventsOf(output))
      /\ \A n \in 1..N : \E d : EndsAt(OutputItems(output), n, d)
    BY <1>1, AllItems
<1> QED BY <1>1, <1>2, <1>3, EndKeeps

\* The first image or message of a generation ends the response with that item.
LEMMA OutputImageKeeps ==
    ASSUME ResponseInv, NEW what, OutputImage(what)
    PROVE  ResponseInv'
<1>1. rpc = "asks" /\ source = "images" /\ UNCHANGED <<source, streams>>
    BY DEF OutputImage
<1>2. ASSUME NEW item, NEW list, End(list, <<item>>),
             \/ list = <<About("delta", 0, item), About("value_done", 0, item), About("done", 0, item)>>
             \/ list = <<About("done", 0, item)>>
      PROVE  ResponseInv'
    <2> DEFINE output == <<item>>
    <2>1. DOMAIN output = 1..1 /\ Len(output) = 1 /\ output[1] = item
        OBVIOUS
    <2>2. \A k \in Kinds : About(k, 0, item) \in EventsOf(output)
        <3> HIDE DEF output
        <3> QED BY <2>1 DEF EventsOf
    <2>3. \A k : About(k, 0, item).type = k /\ About(k, 0, item).index = 0
        BY DEF About
    <2> HIDE DEF output
    <2>4. list \in Seq(EventsOf(output)) /\ EndsAt(list, 1, Len(list))
        <3>1. CASE list = <<About("delta", 0, item), About("value_done", 0, item), About("done", 0, item)>>
            <4>1. /\ list \in Seq(EventsOf(output)) /\ Len(list) = 3
                  /\ list[1] = About("delta", 0, item) /\ list[2] = About("value_done", 0, item)
                  /\ list[3] = About("done", 0, item)
                BY <2>2, <3>1 DEF Kinds
            <4> QED BY <2>3, <4>1 DEF EndsAt
        <3>2. CASE list = <<About("done", 0, item)>>
            <4>1. /\ list \in Seq(EventsOf(output)) /\ Len(list) = 1
                  /\ list[1] = About("done", 0, item)
                BY <2>2, <3>2 DEF Kinds
            <4> QED BY <2>3, <4>1 DEF EndsAt
        <3> QED BY <1>2, <3>1, <3>2
    <2>5. \A n \in 1..1 : \E d : EndsAt(list, n, d)
        BY <2>4
    <2>6. End(list, output)
        BY <1>2 DEF output
    <2>7. 1 \in Nat \ {0}
        OBVIOUS
    <2>8. rpc = "asks" /\ source # "none" /\ UNCHANGED <<source, streams>> /\ ResponseInv
        BY <1>1
    <2> QED BY <2>1, <2>4, <2>5, <2>6, <2>7, <2>8, EndKeeps
<1>3. CASE UNCHANGED <<rpc, told, collected>>
    BY <1>1, <1>3 DEF ResponseInv, TellsAll
<1> QED BY <1>2, <1>3 DEF OutputImage

\* Whatever a model answers and whatever calls are read from it, a response that is
\* over (stream_response_output_items) told each of its items once at its index, all
\* about an item before it is done, and its completion last with all the items; a
\* client without a stream collects the same items, and a failed response completes
\* nothing.
THEOREM CompletedResponses == ResponseSpec => []CompletedTellsAll
<1>1. ASSUME ResponseInv, [ResponseNext]_responseVars
      PROVE  ResponseInv'
    <2>1. ASSUME NEW s \in {"text", "tools", "images"}, Respond(s)
          PROVE  ResponseInv'
        BY <1>1, <2>1 DEF Respond, ResponseInv
    <2>2. CASE Refuse
        BY <1>1, <2>2 DEF Refuse, ResponseInv
    <2>3. CASE ResponseFails
        BY <1>1, <2>3 DEF ResponseFails, ResponseInv
    <2>4. ASSUME NEW t \in Answers, AnswerText(t)
          PROVE  ResponseInv'
        BY <1>1, <2>4, AnswerTextKeeps
    <2>5. ASSUME NEW what \in {"progress", "empty", "message", "image"}, OutputImage(what)
          PROVE  ResponseInv'
        BY <1>1, <2>5, OutputImageKeeps
    <2>6. CASE UNCHANGED responseVars
        <3>1. TellsAll(told)' = TellsAll(told') /\ told' = told
            BY <2>6 DEF responseVars, TellsAll
        <3> QED BY <1>1, <2>6, <3>1 DEF responseVars, ResponseInv
    <2> QED BY <1>1, <2>1, <2>2, <2>3, <2>4, <2>5, <2>6 DEF ResponseNext
<1> QED BY <1>1, ResponseStart, CompletedByInv, PTL DEF ResponseSpec

-----------------------------------------------------------------------------
(* CatPaw's sieve.                                                          *)

\* The calls that are read are what the text has, or the call the parser writes.
LEMMA CallsTyped ==
    ASSUME NEW A, NEW t \in Seq(A), "fits" \in A
    PROVE  /\ ParseToolCallsForTools(t) \in Seq(A)
           /\ ParseAnyCalls(t) \in Seq(A)
           /\ \A choice : ParseGeminiCalls(t, choice) \in Seq(A)
<1>1. /\ ReadXml(t) \in Seq(A)
      /\ ReadJson(t) \in Seq(A)
      /\ ReadLoose(t) \in Seq(A)
    <2>1. /\ {i \in DOMAIN t : i \in Marked(t) /\ t[i] \in Bodies \ {"garbled"}} \in SUBSET (DOMAIN t)
          /\ {i \in DOMAIN t : t[i] = "json"} \in SUBSET (DOMAIN t)
          /\ {i \in DOMAIN t : t[i] \in Offered} \in SUBSET (DOMAIN t)
        OBVIOUS
    <2> QED BY <2>1, SelectedTyped DEF ReadXml, ReadJson, ReadLoose
<1>2. ReadCalls(t) \in Seq(A)
    BY <1>1 DEF ReadCalls
<1>3. OfferedCalls(ReadCalls(t)) \in Seq(A)
    <2>1. {i \in DOMAIN ReadCalls(t) : ReadCalls(t)[i] \in Offered} \in SUBSET (DOMAIN ReadCalls(t))
        OBVIOUS
    <2> QED BY <1>2, <2>1, SelectedTyped DEF OfferedCalls
<1>4. <<>> \in Seq(A) /\ <<"fits">> \in Seq(A)
    OBVIOUS
<1>5. ParseToolCalls(t) \in Seq(A)
    BY <1>3, <1>4 DEF ParseToolCalls, GlobAsBash
<1>6. RepairToolCalls(ParseToolCalls(t)) \in Seq(A)
    <2> DEFINE calls == ParseToolCalls(t)
    <2>1. {i \in DOMAIN calls : calls[i] # "misfits"} \in SUBSET (DOMAIN calls)
        OBVIOUS
    <2> HIDE DEF calls
    <2>2. RepairToolCalls(calls) \in Seq(A)
        BY <1>5, <2>1, SelectedTyped DEF RepairToolCalls, calls
    <2> QED BY <2>2 DEF calls
<1> QED BY <1>1, <1>4, <1>5, <1>6 DEF ParseToolCallsForTools, ParseAnyCalls, ParseGeminiCalls

\* Trimming leaves nothing of white space, and something solid in front of all else.
LEMMA Trimming ==
    ASSUME NEW A, NEW t \in Seq(A)
    PROVE  /\ Trimmed(t) \in Seq(A)
           /\ IF \A i \in DOMAIN t : t[i] = "space" THEN Trimmed(t) = <<>>
              ELSE /\ 1 \in DOMAIN Trimmed(t)
                   /\ Trimmed(t)[1] # "space"
<1> DEFINE n == Len(t)
           solid == {i \in DOMAIN t : t[i] # "space"}
<1>1. n \in Nat /\ DOMAIN t = 1..n /\ solid \in SUBSET (1..n)
    OBVIOUS
<1>2. Trimmed(t) = IF solid = {} THEN <<>> ELSE SubSeq(t, Min(solid), Max(solid))
    BY DEF Trimmed
<1>3. (\A i \in DOMAIN t : t[i] = "space") <=> solid = {}
    OBVIOUS
<1>4. \A i \in solid : t[i] # "space"
    OBVIOUS
<1>5. \A i \in 1..n : t[i] \in A
    OBVIOUS
<1> HIDE DEF n, solid
<1>6. CASE solid = {}
    BY <1>2, <1>3, <1>6
<1>7. CASE solid # {}
    <2> DEFINE a == Min(solid)
               b == Max(solid)
    <2>1. a \in solid /\ b \in solid /\ a <= b
        BY <1>1, <1>7, Extremes
    <2>2. Trimmed(t) = SubSeq(t, a, b)
        BY <1>2, <1>7
    <2> HIDE DEF a, b
    <2>3. a \in 1..n /\ b \in 1..n
        BY <1>1, <2>1
    <2>4. \A i \in a..b : t[i] \in A
        BY <1>1, <1>5, <2>3
    <2>5. /\ Trimmed(t) \in Seq(A) /\ Len(Trimmed(t)) = b - a + 1
          /\ \A i \in 1..(b - a + 1) : Trimmed(t)[i] = t[a + i - 1]
        BY <1>1, <2>1, <2>2, <2>3, <2>4, SubSeqProperties
    <2>6. 1 \in 1..(b - a + 1) /\ a + 1 - 1 = a
        BY <1>1, <2>1, <2>3
    <2>7. DOMAIN Trimmed(t) = 1..(b - a + 1)
        BY <2>5
    <2>8. Trimmed(t)[1] = t[a]
        BY <2>5, <2>6
    <2> QED BY <1>3, <1>4, <1>7, <2>1, <2>5, <2>6, <2>7, <2>8
<1> QED BY <1>6, <1>7

\* An answer without its markup is blank only when there is nothing, or no markup.
LEMMA PlainTyped ==
    ASSUME NEW A, NEW t \in Seq(A)
    PROVE  /\ Plain(t) \in Seq(A)
           /\ Trimmed(Plain(t)) = <<>> => Plain(t) \in {t, <<>>}
<1> DEFINE kept == Selected(t, {i \in DOMAIN t : i \notin Marked(t)})
<1>1. kept \in Seq(A)
    <2>1. {i \in DOMAIN t : i \notin Marked(t)} \in SUBSET (DOMAIN t)
        OBVIOUS
    <2> QED BY <2>1, SelectedTyped
<1>2. Plain(t) = t \/ Plain(t) = Trimmed(kept)
    BY DEF Plain, StripToolMarkup
<1> HIDE DEF kept
<1>3. CASE Plain(t) = t
    BY <1>3
<1>4. CASE Plain(t) = Trimmed(kept)
    <2> DEFINE u == Trimmed(kept)
    <2>1. u \in Seq(A) /\ (u = <<>> \/ (1 \in DOMAIN u /\ u[1] # "space"))
        BY <1>1, Trimming
    <2> HIDE DEF u
    <2>2. Trimmed(u) = <<>> => u = <<>>
        <3>1. SUFFICES ASSUME u # <<>>
                       PROVE  Trimmed(u) # <<>>
            OBVIOUS
        <3>2. 1 \in DOMAIN Trimmed(u)
            BY <2>1, <3>1, Trimming
        <3>3. DOMAIN <<>> = 1..0
            OBVIOUS
        <3>4. 1 \notin 1..0
            OBVIOUS
        <3> QED BY <3>2, <3>3, <3>4
    <2> QED BY <1>4, <2>1, <2>2 DEF u
<1> QED BY <1>2, <1>3, <1>4

\* How much of a text is told before its first tag.
Told(t) == IF Opens(t) # {} THEN Min(Opens(t)) - 1
           ELSE IF t # <<>> /\ t[Len(t)] = "half" THEN Len(t) - 1
           ELSE Len(t)

\* The text before the first tag is a beginning of the text without any tag.
LEMMA StreamableTyped ==
    ASSUME NEW A, NEW t \in Seq(A)
    PROVE  /\ Told(t) \in 0..Len(t)
           /\ Streamable(t) = SubSeq(t, 1, Told(t))
           /\ Streamable(t) \in Seq(A)
           /\ Len(Streamable(t)) = Told(t)
           /\ \A i \in 1..Told(t) : Streamable(t)[i] = t[i]
           /\ Opens(Streamable(t)) = {}
<1> DEFINE n == Len(t)
           O == Opens(t)
           k == Told(t)
<1>1. n \in Nat /\ DOMAIN t = 1..n /\ \A i \in 1..n : t[i] \in A
    OBVIOUS
<1>2. O \in SUBSET (1..n) /\ O = {i \in 1..(n - 1) : t[i] = "half" /\ t[i + 1] = "mark"}
    BY <1>1 DEF Opens
<1>3. t # <<>> => n # 0
    OBVIOUS
<1> HIDE DEF n, O
<1>4. O # {} => /\ Min(O) \in O /\ \A i \in O : Min(O) <= i
    BY <1>1, <1>2, Extremes
<1>5. k = IF O # {} THEN Min(O) - 1 ELSE IF t # <<>> /\ t[n] = "half" THEN n - 1 ELSE n
    BY DEF Told, O, n
<1>6. k \in 0..n
    BY <1>1, <1>2, <1>3, <1>4, <1>5
<1>7. Streamable(t) = SubSeq(t, 1, k)
    <2>1. SubSeq(t, 1, n) = t
        BY SubSeqFull DEF n
    <2> QED BY <2>1, <1>5 DEF Streamable, Front, O, n
<1> HIDE DEF k
<1>8. /\ Streamable(t) \in Seq(A) /\ Len(Streamable(t)) = k
      /\ \A i \in 1..k : Streamable(t)[i] = t[i]
    <2>1. \A i \in 1..k : t[i] \in A
        BY <1>1, <1>6
    <2>2. /\ SubSeq(t, 1, k) \in Seq(A)
          /\ Len(SubSeq(t, 1, k)) = IF 1 <= k THEN k - 1 + 1 ELSE 0
          /\ \A i \in 1..(k - 1 + 1) : SubSeq(t, 1, k)[i] = t[1 + i - 1]
        BY <1>6, <2>1, SubSeqProperties
    <2>3. k - 1 + 1 = k /\ (~(1 <= k) => k = 0) /\ \A i \in 1..k : 1 + i - 1 = i
        BY <1>6
    <2> QED BY <1>7, <2>2, <2>3
<1>9. Opens(Streamable(t)) = {}
    <2> DEFINE u == Streamable(t)
    <2>1. Opens(u) = {i \in 1..(k - 1) : u[i] = "half" /\ u[i + 1] = "mark"}
        BY <1>8 DEF Opens
    <2>2. SUFFICES ASSUME NEW i \in 1..(k - 1), t[i] = "half", t[i + 1] = "mark"
                   PROVE  FALSE
        <3>1. \A i \in 1..(k - 1) : i \in 1..k /\ i + 1 \in 1..k
            BY <1>6
        <3> QED BY <1>8, <2>1, <3>1
    <2>3. i \in O
        BY <1>1, <1>2, <1>6, <2>2
    <2>4. k = Min(O) - 1 /\ Min(O) <= i /\ Min(O) \in 1..n
        BY <1>2, <1>4, <1>5, <2>3
    <2> QED BY <1>1, <1>6, <2>4
<1> QED BY <1>6, <1>7, <1>8, <1>9 DEF k, n

\* What comes next only adds to it.
LEMMA StreamableGrows ==
    ASSUME NEW A, NEW t \in Seq(A), NEW a \in Following(t) \cap A
    PROVE  Told(t) <= Told(Append(t, a))
<1> DEFINE n == Len(t)
           u == Append(t, a)
           O == Opens(t)
           P == Opens(u)
<1>1. /\ n \in Nat /\ Len(u) = n + 1 /\ u[n + 1] = a /\ u # <<>>
      /\ \A i \in 1..n : u[i] = t[i]
    OBVIOUS
<1>2. t = <<>> <=> n = 0
    OBVIOUS
<1>3. /\ O = {i \in 1..(n - 1) : t[i] = "half" /\ t[i + 1] = "mark"}
      /\ P = {i \in 1..n : u[i] = "half" /\ u[i + 1] = "mark"}
    <2>1. (n + 1) - 1 = n
        BY <1>1
    <2> QED BY <1>1, <2>1 DEF Opens
<1>4. /\ Told(t) = IF O # {} THEN Min(O) - 1 ELSE IF n # 0 /\ t[n] = "half" THEN n - 1 ELSE n
      /\ Told(u) = IF P # {} THEN Min(P) - 1 ELSE IF a = "half" THEN n ELSE n + 1
    <2>1. (n + 1) - 1 = n
        BY <1>1
    <2> HIDE DEF u
    <2> QED BY <1>1, <1>2, <2>1 DEF Told, n, O, P
<1>5. n # 0 /\ t[n] = "half" => a \in {"mark", "word"}
    BY <1>2 DEF Following, n
<1> SUFFICES Told(t) <= Told(u)
    OBVIOUS
<1> HIDE DEF n, u, O, P
<1>6. O \in SUBSET (1..n) /\ P \in SUBSET (1..n)
    BY <1>1, <1>3
<1>7. /\ O # {} => Min(O) \in O /\ \A i \in O : Min(O) <= i
      /\ P # {} => Min(P) \in P /\ \A i \in P : Min(P) <= i
    BY <1>1, <1>6, Extremes
<1>8. CASE P = {}
    <2>1. O = {}
        <3> SUFFICES ASSUME NEW i \in O PROVE FALSE
            OBVIOUS
        <3>1. i \in 1..n /\ i + 1 \in 1..n /\ t[i] = "half" /\ t[i + 1] = "mark"
            BY <1>1, <1>3
        <3>2. i \in P
            BY <1>1, <1>3, <3>1
        <3> QED BY <1>8, <3>2
    <2> QED BY <1>1, <1>4, <1>8, <2>1
<1>9. CASE P # {}
    <2>1. PICK p \in 1..n : p = Min(P) /\ u[p] = "half" /\ u[p + 1] = "mark"
        BY <1>3, <1>6, <1>7, <1>9
    <2>2. CASE p = n
        <3>1. t[n] = "half"
            BY <1>1, <2>1, <2>2
        <3>2. O # {} => Min(O) \in 1..(n - 1)
            BY <1>3, <1>7
        <3> QED BY <1>1, <1>4, <1>9, <2>1, <2>2, <3>1, <3>2
    <2>3. CASE p # n
        <3>1. p \in 1..(n - 1) /\ p + 1 \in 1..n
            BY <1>1, <2>1, <2>3
        <3>2. p \in O
            BY <1>1, <1>3, <2>1, <3>1
        <3>3. Min(O) <= p /\ Min(O) \in 1..n
            BY <1>6, <1>7, <3>2
        <3>4. Told(t) = Min(O) - 1 /\ Told(u) = p - 1
            BY <1>4, <1>9, <2>1, <3>2
        <3> QED BY <1>1, <2>1, <3>3, <3>4
    <2> QED BY <2>2, <2>3
<1> QED BY <1>8, <1>9

\* The beginning of a sequence, by its places, and its end.
LEMMA PrefixPlaces ==
    ASSUME NEW A, NEW p \in Seq(A), NEW s \in Seq(A), Len(p) <= Len(s),
           \A i \in 1..Len(p) : p[i] = s[i]
    PROVE  /\ IsPrefix(p, s)
           /\ SubSeq(s, Len(p) + 1, Len(s)) \in Seq(A)
           /\ p \o SubSeq(s, Len(p) + 1, Len(s)) = s
<1> DEFINE k == Len(p)
           n == Len(s)
<1>1. k \in Nat /\ n \in Nat /\ k <= n
    OBVIOUS
<1>2. /\ \A i \in 1..k : s[i] \in A
      /\ \A i \in (k + 1)..n : s[i] \in A
    OBVIOUS
<1> HIDE DEF k, n
<1>3. SubSeq(s, 1, k) = p
    <2>1. /\ SubSeq(s, 1, k) \in Seq(A)
          /\ Len(SubSeq(s, 1, k)) = IF 1 <= k THEN k - 1 + 1 ELSE 0
          /\ \A i \in 1..(k - 1 + 1) : SubSeq(s, 1, k)[i] = s[1 + i - 1]
        BY <1>1, <1>2, SubSeqProperties
    <2>2. k - 1 + 1 = k /\ (~(1 <= k) => k = 0) /\ \A i \in 1..k : 1 + i - 1 = i
        BY <1>1
    <2>3. Len(SubSeq(s, 1, k)) = Len(p) /\ \A i \in 1..k : SubSeq(s, 1, k)[i] = p[i]
        BY <2>1, <2>2 DEF k
    <2> QED BY <2>1, <2>3, SeqEqual DEF k
<1>4. SubSeq(p, 1, k) = p
    BY SubSeqFull DEF k
<1>5. IsPrefix(p, s)
    BY <1>3, <1>4 DEF IsPrefix, k
<1>6. SubSeq(s, k + 1, n) \in Seq(A)
    BY <1>1, <1>2, SubSeqProperties
<1>7. SubSeq(s, 1, k) \o SubSeq(s, k + 1, n) = s
    <2>1. 1 \in 1..(n + 1) /\ k \in (1 - 1)..n /\ n \in k..n
        BY <1>1
    <2>2. SubSeq(s, 1, k) \o SubSeq(s, k + 1, n) = SubSeq(s, 1, n)
        BY <2>1, ConcatAdjacentSubSeq DEF n
    <2> QED BY <2>2, SubSeqFull DEF n
<1> QED BY <1>3, <1>5, <1>6, <1>7 DEF k, n

\* A beginning and what is left to tell of a sequence are the sequence.
LEMMA PrefixRest ==
    ASSUME NEW A, NEW p \in Seq(A), NEW s \in Seq(A), IsPrefix(p, s)
    PROVE  /\ SubSeq(s, Len(p) + 1, Len(s)) \in Seq(A)
           /\ p \o SubSeq(s, Len(p) + 1, Len(s)) = s
<1>1. Len(p) <= Len(s) /\ SubSeq(p, 1, Len(p)) = SubSeq(s, 1, Len(p)) /\ Len(p) \in Nat /\ Len(s) \in Nat
    BY DEF IsPrefix
<1>2. SubSeq(p, 1, Len(p)) = p
    BY SubSeqFull
<1>3. \A i \in 1..Len(p) : p[i] = s[i]
    <2> DEFINE k == Len(p)
    <2>1. \A i \in 1..k : s[i] \in A
        BY <1>1
    <2> HIDE DEF k
    <2>2. k \in Nat
        BY DEF k
    <2>3. \A i \in 1..(k - 1 + 1) : SubSeq(s, 1, k)[i] = s[1 + i - 1]
        BY <2>1, <2>2, SubSeqProperties
    <2>4. k - 1 + 1 = k /\ \A i \in 1..k : 1 + i - 1 = i
        BY <2>2
    <2> QED BY <1>1, <1>2, <2>3, <2>4 DEF k
<1> QED BY <1>1, <1>3, PrefixPlaces

\* The end of a sequence, and nothing, are suffixes of it.
LEMMA SuffixOf ==
    ASSUME NEW A, NEW p \in Seq(A), NEW s \in Seq(A)
    PROVE  IsSuffix(s, p \o s) /\ IsSuffix(<<>>, p)
<1> DEFINE k == Len(p)
           n == Len(s)
           q == p \o s
           r == Reverse(s)
           z == Reverse(q)
<1>1. /\ k \in Nat /\ n \in Nat /\ Len(q) = k + n /\ q \in Seq(A)
      /\ \A i \in 1..n : s[i] \in A
      /\ \A i \in 1..(k + n) : q[i] \in A
    OBVIOUS
<1>2. \A i \in 1..n : q[k + i] = s[i]
    OBVIOUS
<1> HIDE DEF q
<1>3. /\ r = [i \in 1..n |-> s[(n - i) + 1]]
      /\ z = [i \in 1..(k + n) |-> q[(k + n - i) + 1]]
    BY <1>1 DEF Reverse
<1> HIDE DEF k, n, r, z
<1>4. /\ r \in Seq(A) /\ Len(r) = n
      /\ z \in Seq(A) /\ Len(z) = k + n
    <2>1. \A i \in 1..n : (n - i) + 1 \in 1..n
        BY <1>1
    <2>2. \A i \in 1..(k + n) : (k + n - i) + 1 \in 1..(k + n)
        BY <1>1
    <2>3. r \in [1..n -> A] /\ z \in [1..(k + n) -> A]
        BY <1>1, <1>3, <2>1, <2>2
    <2>4. k + n \in Nat
        BY <1>1
    <2> QED BY <1>1, <2>3, <2>4
<1>5. ASSUME NEW i \in 1..n
      PROVE  r[i] = z[i]
    <2>1. i \in 1..(k + n) /\ (n - i) + 1 \in 1..n /\ (k + n - i) + 1 = k + ((n - i) + 1)
        BY <1>1
    <2> QED BY <1>2, <1>3, <2>1
<1>6. IsPrefix(r, z)
    <2>1. Len(r) <= Len(z)
        BY <1>1, <1>4
    <2> QED BY <1>4, <1>5, <2>1, PrefixPlaces
<1>7. IsSuffix(<<>>, p)
    <2>1. Reverse(<<>>) = <<>>
        BY DEF Reverse
    <2>2. Reverse(p) \in Seq(A)
        <3>1. Len(p) \in Nat /\ \A i \in 1..Len(p) : p[i] \in A
            OBVIOUS
        <3>2. \A i \in 1..Len(p) : (Len(p) - i) + 1 \in 1..Len(p)
            BY <3>1
        <3> DEFINE m == Len(p)
                   y == Reverse(p)
        <3>3. y = [i \in 1..m |-> p[(m - i) + 1]]
            BY DEF Reverse
        <3> HIDE DEF m, y
        <3>4. y \in [1..m -> A] /\ m \in Nat
            BY <3>1, <3>2, <3>3 DEF m
        <3> QED BY <3>4 DEF y
    <2>3. <<>> \in Seq(A) /\ Len(<<>>) = 0 /\ Len(Reverse(p)) \in Nat
        BY <2>2
    <2>4. IsPrefix(<<>>, Reverse(p))
        <3> DEFINE y == Reverse(p)
        <3>1. y \in Seq(A) /\ Len(<<>>) <= Len(y) /\ \A i \in 1..Len(<<>>) : <<>>[i] = y[i]
            BY <2>2, <2>3
        <3> HIDE DEF y
        <3>2. IsPrefix(<<>>, y)
            BY <2>3, <3>1, PrefixPlaces
        <3> QED BY <3>2 DEF y
    <2> QED BY <2>1, <2>4 DEF IsSuffix
<1> QED BY <1>6, <1>7 DEF IsSuffix, r, z, q

\* Chunks that tell text, and those that tell none.
Telling == {Content(t) : t \in Seq(Atoms)}
Silent  == {Chunk(k, <<>>) : k \in {"role", "usage", "stop", "tool_calls", "notice", "ping"}}
              \cup {Chunk("reasoning", <<"think">>)}
              \cup {Chunk("call", v) : v \in Nat \X Atoms}
Chunks == Telling \cup Silent

\* Only contents tell text.
LEMMA ChunkKinds ==
    /\ \A c \in Telling : c.kind = "content" /\ c.value \in Seq(Atoms)
    /\ \A c \in Silent : c.kind # "content"
    BY DEF Telling, Silent, Content, Chunk

\* The text of chunks is joined with them.
LEMMA ToldJoin ==
    ASSUME NEW list \in Seq(Chunks), NEW more \in Seq(Chunks)
    PROVE  /\ list \o more \in Seq(Chunks)
           /\ ToldText(list) \in Seq(Atoms) /\ ToldText(more) \in Seq(Atoms)
           /\ ToldText(list \o more) = ToldText(list) \o ToldText(more)
           /\ HasCalls(list \o more) <=> HasCalls(list) \/ HasCalls(more)
<1> DEFINE Part(c) == IF c.kind = "content" THEN c.value ELSE <<>>
           Parts(l) == [i \in DOMAIN l |-> Part(l[i])]
           all == list \o more
<1>1. \A c \in Chunks : Part(c) \in Seq(Atoms)
    BY ChunkKinds DEF Chunks
<1>2. \A l : ToldText(l) = FlattenSeq(Parts(l))
    BY DEF ToldText
<1> DEFINE m == Len(list)
           n == Len(more)
<1>3. /\ m \in Nat /\ n \in Nat /\ DOMAIN list = 1..m /\ DOMAIN more = 1..n
      /\ all \in Seq(Chunks) /\ Len(all) = m + n /\ DOMAIN all = 1..(m + n)
      /\ \A i \in 1..m : list[i] \in Chunks
      /\ \A i \in 1..n : more[i] \in Chunks
    OBVIOUS
<1>4. /\ \A i \in 1..m : all[i] = list[i]
      /\ \A i \in 1..n : all[m + i] = more[i]
    OBVIOUS
<1> HIDE DEF all, Part, m, n
<1> DEFINE p == Parts(list)
           q == Parts(more)
           r == Parts(all)
<1>5. /\ p \in [1..m -> Seq(Atoms)] /\ q \in [1..n -> Seq(Atoms)]
      /\ p = [i \in 1..m |-> Part(list[i])]
      /\ q = [i \in 1..n |-> Part(more[i])]
      /\ r = [i \in 1..(m + n) |-> Part(all[i])]
    BY <1>1, <1>3
<1> HIDE DEF p, q, r
<1>6. p \in Seq(Seq(Atoms)) /\ q \in Seq(Seq(Atoms)) /\ Len(p) = m /\ Len(q) = n
    <2> DEFINE S == Seq(Atoms)
    <2>1. p \in [1..m -> S] /\ q \in [1..n -> S] /\ m \in Nat /\ n \in Nat
        BY <1>3, <1>5
    <2> HIDE DEF S
    <2>2. p \in Seq(S) /\ q \in Seq(S) /\ Len(p) = m /\ Len(q) = n
        BY <2>1
    <2> QED BY <2>2 DEF S
<1>7. r = p \o q
    <2>1. \A i \in 1..(m + n) : all[i] \in Chunks
        BY <1>3
    <2>2. r \in Seq(Seq(Atoms)) /\ Len(r) = m + n
        <3>1. r \in [1..(m + n) -> Seq(Atoms)] /\ m + n \in Nat
            BY <1>1, <1>3, <1>5, <2>1
        <3> QED BY <3>1
    <2>3. /\ p \o q \in Seq(Seq(Atoms)) /\ Len(p \o q) = m + n
          /\ \A i \in 1..m : (p \o q)[i] = p[i]
          /\ \A i \in 1..n : (p \o q)[m + i] = q[i]
        <3> DEFINE S == Seq(Atoms)
        <3>1. p \in Seq(S) /\ q \in Seq(S)
            BY <1>6
        <3> HIDE DEF S
        <3>2. /\ p \o q \in Seq(S) /\ Len(p \o q) = m + n
              /\ \A i \in 1..(m + n) : (p \o q)[i] = IF i <= m THEN p[i] ELSE q[i - m]
            BY <1>6, <3>1, ConcatProperties
        <3>3. /\ \A i \in 1..m : i \in 1..(m + n) /\ i <= m
              /\ \A i \in 1..n : m + i \in 1..(m + n) /\ ~(m + i <= m) /\ (m + i) - m = i
            BY <1>3
        <3> QED BY <3>2, <3>3 DEF S
    <2>4. ASSUME NEW i \in 1..(m + n)
          PROVE  r[i] = (p \o q)[i]
        <3>1. CASE i \in 1..m
            BY <1>4, <1>5, <2>3, <3>1
        <3>2. CASE i \notin 1..m
            <4>1. i - m \in 1..n /\ i = m + (i - m)
                BY <1>3, <3>2
            <4>2. all[i] = more[i - m] /\ (p \o q)[i] = q[i - m]
                BY <1>4, <2>3, <4>1
            <4> QED BY <1>5, <4>1, <4>2
        <3> QED BY <3>1, <3>2
    <2> DEFINE S == Seq(Atoms)
               pq == p \o q
    <2>5. r \in Seq(S) /\ pq \in Seq(S) /\ Len(r) = Len(pq) /\ \A i \in 1..Len(r) : r[i] = pq[i]
        BY <2>2, <2>3, <2>4
    <2> HIDE DEF S, pq
    <2>6. r = pq
        BY <2>5, SeqEqual
    <2> QED BY <2>6 DEF pq
<1>8. FlattenSeq(p) \in Seq(Atoms) /\ FlattenSeq(q) \in Seq(Atoms)
    BY <1>6, FlattenTyped
<1>9. FlattenSeq(r) = FlattenSeq(p) \o FlattenSeq(q)
    BY <1>6, <1>7, FlattenJoin
<1>10. HasCalls(all) <=> HasCalls(list) \/ HasCalls(more)
    <2>1. ASSUME HasCalls(all)
          PROVE  HasCalls(list) \/ HasCalls(more)
        <3>1. PICK i \in 1..(m + n) : all[i].kind = "call"
            BY <1>3, <2>1 DEF HasCalls
        <3>2. i \in 1..m \/ (i - m \in 1..n /\ i = m + (i - m))
            BY <1>3
        <3> QED BY <1>3, <1>4, <3>1, <3>2 DEF HasCalls
    <2>2. ASSUME HasCalls(list)
          PROVE  HasCalls(all)
        <3>1. PICK i \in 1..m : list[i].kind = "call"
            BY <1>3, <2>2 DEF HasCalls
        <3>2. i \in 1..(m + n)
            BY <1>3
        <3> QED BY <1>3, <1>4, <3>1, <3>2 DEF HasCalls
    <2>3. ASSUME HasCalls(more)
          PROVE  HasCalls(all)
        <3>1. PICK i \in 1..n : more[i].kind = "call"
            BY <1>3, <2>3 DEF HasCalls
        <3>2. m + i \in 1..(m + n)
            BY <1>3
        <3> QED BY <1>3, <1>4, <3>1, <3>2 DEF HasCalls
    <2> QED BY <2>1, <2>2, <2>3
<1>11. ToldText(list) = FlattenSeq(p) /\ ToldText(more) = FlattenSeq(q) /\ ToldText(all) = FlattenSeq(r)
    BY <1>2 DEF p, q, r
<1> QED BY <1>3, <1>8, <1>9, <1>10, <1>11 DEF all

\* Chunks without text tell nothing, one with text tells that.
LEMMA ToldSilent ==
    ASSUME NEW list \in Seq(Silent)
    PROVE  list \in Seq(Chunks) /\ ToldText(list) = <<>>
<1> DEFINE n == Len(list)
           parts == [i \in DOMAIN list |-> IF list[i].kind = "content" THEN list[i].value ELSE <<>>]
<1>1. n \in Nat /\ DOMAIN list = 1..n /\ \A i \in 1..n : list[i] \in Silent
    OBVIOUS
<1>2. parts = [i \in 1..n |-> <<>>]
    BY <1>1, ChunkKinds
<1>3. list \in Seq(Chunks)
    BY SeqMonotonic DEF Chunks
<1> HIDE DEF parts, n
<1>4. FlattenSeq(parts) = <<>>
    BY <1>1, <1>2, FlattenNothing
<1> QED BY <1>3, <1>4 DEF ToldText, parts

\* The text of one chunk.
LEMMA ToldOne ==
    ASSUME NEW t \in Seq(Atoms)
    PROVE  /\ <<Content(t)>> \in Seq(Chunks)
           /\ ToldText(<<Content(t)>>) = t
           /\ ~HasCalls(<<Content(t)>>)
<1> DEFINE c == Content(t)
           one == <<c>>
           parts == [i \in DOMAIN one |-> IF one[i].kind = "content" THEN one[i].value ELSE <<>>]
<1>1. c \in Telling /\ c.kind = "content" /\ c.value = t
    BY DEF Telling, Content, Chunk
<1> HIDE DEF c
<1>2. one \in Seq(Chunks) /\ DOMAIN one = 1..1 /\ one[1] = c
    BY <1>1 DEF Chunks
<1>3. Len(parts) = 1 /\ parts[1] = t
    BY <1>1, <1>2
<1>4. FlattenSeq(parts) = t
    <2> HIDE DEF parts
    <2>1. PICK f : /\ f = [i \in 1..Len(parts) |-> IF i = 1 THEN parts[i] ELSE f[i - 1] \o parts[i]]
                   /\ FlattenSeq(parts) = f[Len(parts)]
        <3>1. Len(parts) \in Nat /\ Len(parts) # 0
            BY <1>3
        <3> QED BY <3>1, FlattenParts
    <2>2. 1 \in 1..1
        OBVIOUS
    <2> QED BY <1>3, <2>1, <2>2
<1>5. ~HasCalls(one)
    BY <1>1, <1>2 DEF HasCalls
<1> QED BY <1>2, <1>4, <1>5 DEF ToldText, c

\* While the sieve works the client has the text before the first tag.
Sieving ==
    /\ streamed = Streamable(text)
    /\ ToldText(out) = streamed
    /\ ~HasCalls(out)

\* What was told once the answer is over.
Sieved == IF HasCalls(out) THEN ToldText(out) = Streamable(text)
          ELSE IsSuffix(Plain(text), ToldText(out))

SieveInv ==
    /\ text \in Seq(Atoms)
    /\ cpc = "idle" => route = "none" /\ text = <<>> /\ streamed = <<>>
    /\ route = "catpaw_tools" => /\ asks # "whole"
                                 /\ out \in Seq(Chunks)
                                 /\ IF cpc = "over" THEN Sieved ELSE Sieving

\* Nothing was asked.
LEMMA SieveStart == StreamInit => SieveInv
    BY DEF StreamInit, SieveInv

\* The usage tells no text and is no call.
LEMMA UsageSilent ==
    UsageChunk \in Seq(Silent) /\ ~HasCalls(UsageChunk)
<1>1. Chunk("usage", <<>>) \in Silent /\ Chunk("usage", <<>>).kind = "usage"
    BY DEF Silent, Chunk
<1>2. <<>> \in Seq(Silent) /\ ~HasCalls(<<>>)
    BY DEF HasCalls
<1> DEFINE u == Chunk("usage", <<>>)
<1> HIDE DEF u
<1>3. u \in Silent => <<u>> \in Seq(Silent)
    OBVIOUS
<1>4. u.kind # "call" => ~HasCalls(<<u>>)
    BY DEF HasCalls
<1> QED BY <1>1, <1>2, <1>3, <1>4 DEF UsageChunk, u

\* The end tells no text and is no call.
LEMMA EndingSilent ==
    Ending("stop") \in Seq(Silent) /\ ~HasCalls(Ending("stop"))
<1> DEFINE c == Chunk("stop", <<>>)
           one == <<c>>
<1>1. c \in Silent /\ c.kind = "stop"
    BY DEF Silent, Chunk
<1> HIDE DEF c
<1>2. one \in Seq(Silent) /\ ~HasCalls(one)
    BY <1>1 DEF HasCalls
<1> HIDE DEF one
<1>3. one \in Seq(Chunks) /\ UsageChunk \in Seq(Chunks)
    BY <1>2, UsageSilent, ToldSilent
<1>4. ~HasCalls(one \o UsageChunk)
    BY <1>2, <1>3, UsageSilent, ToldJoin
<1>5. one \o UsageChunk \in Seq(Silent)
    BY <1>2, UsageSilent
<1> QED BY <1>4, <1>5 DEF Ending, one, c

\* Calls tell no text.
LEMMA CallsSilent ==
    ASSUME NEW calls \in Seq(Atoms), calls # <<>>
    PROVE  CallChunks(calls) \in Seq(Silent) /\ HasCalls(CallChunks(calls))
<1> DEFINE role == IF SentRole THEN <<>> ELSE <<Chunk("role", <<>>)>>
           spoken == [i \in DOMAIN calls |-> Chunk("call", <<i, calls[i]>>)]
           end == <<Chunk("tool_calls", <<>>)>>
<1>1. role \in Seq(Silent)
    <2>1. Chunk("role", <<>>) \in Silent
        BY DEF Silent
    <2> QED BY <2>1
<1>2. end \in Seq(Silent)
    <2>1. Chunk("tool_calls", <<>>) \in Silent
        BY DEF Silent
    <2> QED BY <2>1
<1>3. spoken \in Seq(Silent) /\ HasCalls(spoken)
    <2> DEFINE n == Len(calls)
               Call(i) == Chunk("call", <<i, calls[i]>>)
    <2>1. n \in Nat /\ n # 0 /\ DOMAIN calls = 1..n /\ \A i \in 1..n : calls[i] \in Atoms
        OBVIOUS
    <2>2. \A i \in 1..n : Call(i) \in Silent /\ Call(i).kind = "call"
        <3>1. ASSUME NEW i \in 1..n
              PROVE  Call(i) \in Silent /\ Call(i).kind = "call"
            <4>1. <<i, calls[i]>> \in Nat \X Atoms
                BY <2>1
            <4> QED BY <4>1 DEF Silent, Chunk
        <3> QED BY <3>1
    <2> HIDE DEF Call, n
    <2>3. spoken = [i \in 1..n |-> Call(i)]
        BY <2>1 DEF Call
    <2> HIDE DEF spoken
    <2>4. spoken \in [1..n -> Silent] /\ 1 \in 1..n /\ spoken[1].kind = "call"
        BY <2>1, <2>2, <2>3
    <2> QED BY <2>1, <2>4 DEF HasCalls
<1>4. CallChunks(calls) = role \o spoken \o end
    BY DEF CallChunks
<1> HIDE DEF role, spoken, end
<1>5. role \o spoken \o end \in Seq(Silent)
    BY <1>1, <1>2, <1>3
<1>6. role \in Seq(Chunks) /\ spoken \in Seq(Chunks) /\ end \in Seq(Chunks)
    BY <1>1, <1>2, <1>3, ToldSilent
<1>7. role \o spoken \in Seq(Chunks) /\ HasCalls(role \o spoken)
    BY <1>3, <1>6, ToldJoin
<1>8. HasCalls((role \o spoken) \o end)
    BY <1>6, <1>7, ToldJoin
<1> QED BY <1>4, <1>5, <1>8

\* A delta that comes: what the sieve lets through is told.
LEMMA SieveKeeps ==
    ASSUME SieveInv, NEW a \in Atoms, Sieve(a)
    PROVE  SieveInv'
<1> DEFINE seen == Streamable(text')
           rest == SubSeq(seen, Len(streamed) + 1, Len(seen))
<1>1. /\ route = "catpaw_tools" /\ cpc = "reads" /\ a \in Following(text)
      /\ text' = Append(text, a) /\ UNCHANGED <<route, asks, cpc>>
    BY DEF Sieve, Reading, Says
<1>2. /\ text \in Seq(Atoms) /\ text' \in Seq(Atoms)
      /\ asks # "whole" /\ out \in Seq(Chunks) /\ Sieving
    BY <1>1 DEF SieveInv
<1>3. Told(text) <= Told(text')
    BY <1>1, <1>2, StreamableGrows
<1>4. /\ streamed \in Seq(Atoms) /\ Len(streamed) = Told(text)
      /\ \A i \in 1..Told(text) : streamed[i] = text[i]
      /\ seen \in Seq(Atoms) /\ Len(seen) = Told(text')
      /\ \A i \in 1..Told(text') : seen[i] = text'[i]
      /\ Told(text) \in 0..Len(text) /\ Told(text') \in Nat
    BY <1>2, StreamableTyped DEF Sieving
<1> HIDE DEF seen
<1>5. \A i \in 1..Len(streamed) : streamed[i] = seen[i]
    <2>1. \A i \in 1..Len(text) : text'[i] = text[i]
        BY <1>1, <1>2
    <2>2. \A i \in 1..Told(text) : i \in 1..Len(text) /\ i \in 1..Told(text')
        BY <1>2, <1>3, <1>4
    <2> QED BY <1>4, <2>1, <2>2
<1>6. IsPrefix(streamed, seen) /\ rest \in Seq(Atoms) /\ streamed \o rest = seen
    BY <1>3, <1>4, <1>5, PrefixPlaces
<1>7. CASE Len(seen) > Len(streamed)
    <2>1. out' = Append(out, Content(rest)) /\ streamed' = seen
        BY <1>6, <1>7 DEF Sieve, seen
    <2>2. /\ <<Content(rest)>> \in Seq(Chunks) /\ ToldText(<<Content(rest)>>) = rest
          /\ ~HasCalls(<<Content(rest)>>)
        BY <1>6, ToldOne
    <2>3. Content(rest) \in Chunks
        BY <1>6 DEF Chunks, Telling
    <2> HIDE DEF rest
    <2>4. out' = out \o <<Content(rest)>>
        BY <1>2, <2>1, <2>3, AppendIsConcat
    <2>5. /\ out' \in Seq(Chunks) /\ ToldText(out') = streamed \o rest /\ ~HasCalls(out')
        <3> DEFINE one == <<Content(rest)>>
        <3>1. one \in Seq(Chunks) /\ ToldText(one) = rest /\ ~HasCalls(one)
            BY <2>2
        <3> HIDE DEF one
        <3>2. /\ out \o one \in Seq(Chunks) /\ ToldText(out \o one) = ToldText(out) \o ToldText(one)
              /\ HasCalls(out \o one) <=> HasCalls(out) \/ HasCalls(one)
            BY <1>2, <3>1, ToldJoin
        <3>3. ToldText(out) = streamed /\ ~HasCalls(out)
            BY <1>2 DEF Sieving
        <3> QED BY <2>4, <3>1, <3>2, <3>3 DEF one
    <2>6. ToldText(out)' = ToldText(out') /\ HasCalls(out)' = HasCalls(out') /\ Streamable(text)' = seen
        BY DEF ToldText, HasCalls, seen
    <2> QED BY <1>1, <1>2, <1>6, <2>1, <2>5, <2>6 DEF SieveInv, Sieving
<1>8. CASE ~(Len(seen) > Len(streamed))
    <2>1. out' = out /\ streamed' = streamed
        BY <1>8 DEF Sieve, seen
    <2>2. streamed = seen
        BY <1>3, <1>4, <1>5, <1>8, SeqEqual
    <2>3. ToldText(out)' = ToldText(out') /\ HasCalls(out)' = HasCalls(out') /\ Streamable(text)' = seen
        BY DEF ToldText, HasCalls, seen
    <2> QED BY <1>1, <1>2, <2>1, <2>2, <2>3 DEF SieveInv, Sieving
<1> QED BY <1>7, <1>8

\* Calls that are found end the answer, with nothing more of its text.
LEMMA CallsKeep ==
    ASSUME NEW calls \in Seq(Atoms), calls # <<>>, NEW more \in Seq(Silent),
           out \in Seq(Chunks), Sieving, out' = out \o CallChunks(calls) \o more,
           cpc' = "over", UNCHANGED text
    PROVE  out' \in Seq(Chunks) /\ Sieved'
<1> DEFINE c == CallChunks(calls)
<1>1. c \in Seq(Silent) /\ HasCalls(c)
    BY CallsSilent
<1> HIDE DEF c
<1>2. c \in Seq(Chunks) /\ ToldText(c) = <<>> /\ more \in Seq(Chunks) /\ ToldText(more) = <<>>
    BY <1>1, ToldSilent
<1>3. /\ out \o c \in Seq(Chunks) /\ ToldText(out) \in Seq(Atoms)
      /\ ToldText(out \o c) = ToldText(out) \o <<>> /\ HasCalls(out \o c)
    BY <1>1, <1>2, ToldJoin
<1>4. ToldText(out \o c) = ToldText(out)
    BY <1>3, ConcatEmptySeq
<1>5. /\ (out \o c) \o more \in Seq(Chunks)
      /\ ToldText((out \o c) \o more) = ToldText(out) \o <<>> /\ HasCalls((out \o c) \o more)
    <2> DEFINE sent == out \o c
    <2>1. sent \in Seq(Chunks) /\ ToldText(sent) = ToldText(out) /\ HasCalls(sent)
        BY <1>3, <1>4
    <2> HIDE DEF sent
    <2>2. /\ sent \o more \in Seq(Chunks) /\ ToldText(sent \o more) = ToldText(sent) \o ToldText(more)
          /\ HasCalls(sent \o more) <=> HasCalls(sent) \/ HasCalls(more)
        BY <1>2, <2>1, ToldJoin
    <2> QED BY <1>2, <2>1, <2>2 DEF sent
<1>6. out' = (out \o c) \o more
    BY DEF c
<1>7. out' \in Seq(Chunks) /\ ToldText(out') = ToldText(out) /\ HasCalls(out')
    BY <1>3, <1>5, <1>6, ConcatEmptySeq
<1>8. ToldText(out)' = ToldText(out') /\ HasCalls(out)' = HasCalls(out') /\ Streamable(text)' = Streamable(text)
    BY DEF ToldText, HasCalls
<1> QED BY <1>7, <1>8 DEF Sieved, Sieving

\* Without calls the rest of the text is told.
LEMMA RestKeeps ==
    ASSUME text \in Seq(Atoms), out \in Seq(Chunks), Sieving,
           out' = TellRest, cpc' = "over", UNCHANGED text
    PROVE  out' \in Seq(Chunks) /\ Sieved'
<1> DEFINE plain == IF Trimmed(Plain(text)) = <<>> THEN text ELSE Plain(text)
           left == LeftToTell
           more == IF left # <<>> \/ ~SentRole THEN <<Content(left)>> ELSE <<>>
<1>1. plain \in Seq(Atoms) /\ Plain(text) \in Seq(Atoms) /\ Plain(text) \in {plain, <<>>}
    BY PlainTyped
<1>2. streamed \in Seq(Atoms) /\ ToldText(out) = streamed
    BY StreamableTyped DEF Sieving
<1> HIDE DEF plain
<1>3. left \in Seq(Atoms) /\ \E p \in Seq(Atoms) : streamed \o left = p \o plain
    <2>1. left = IF IsPrefix(streamed, plain) THEN SubSeq(plain, Len(streamed) + 1, Len(plain)) ELSE plain
        BY DEF LeftToTell, plain
    <2>2. CASE IsPrefix(streamed, plain)
        <3>1. left \in Seq(Atoms) /\ streamed \o left = plain
            BY <1>1, <1>2, <2>1, <2>2, PrefixRest
        <3>2. <<>> \in Seq(Atoms) /\ <<>> \o plain = plain
            BY <1>1, ConcatEmptySeq
        <3> QED BY <3>1, <3>2
    <2>3. CASE ~IsPrefix(streamed, plain)
        BY <1>1, <1>2, <2>1, <2>3
    <2> QED BY <2>2, <2>3
<1> HIDE DEF left
<1>4. more \in Seq(Chunks) /\ ToldText(more) = left /\ ~HasCalls(more)
    <2>1. CASE left # <<>> \/ ~SentRole
        BY <1>3, <2>1, ToldOne
    <2>2. CASE ~(left # <<>> \/ ~SentRole)
        <3>1. <<>> \in Seq(Silent) /\ ~HasCalls(<<>>)
            BY DEF HasCalls
        <3> QED BY <2>2, <3>1, ToldSilent
    <2> QED BY <2>1, <2>2
<1>5. out' = (out \o more) \o Ending("stop")
    BY DEF TellRest, left, more
<1> HIDE DEF more
<1>6. /\ out \o more \in Seq(Chunks) /\ ToldText(out \o more) = streamed \o left
      /\ ~HasCalls(out \o more)
    BY <1>2, <1>4, ToldJoin DEF Sieving
<1>7. Ending("stop") \in Seq(Chunks) /\ ToldText(Ending("stop")) = <<>> /\ ~HasCalls(Ending("stop"))
    BY EndingSilent, ToldSilent
<1>8. out' \in Seq(Chunks) /\ ToldText(out') = (streamed \o left) \o <<>> /\ ~HasCalls(out')
    <2> DEFINE sent == out \o more
               end == Ending("stop")
    <2>1. /\ sent \in Seq(Chunks) /\ ToldText(sent) = streamed \o left /\ ~HasCalls(sent)
          /\ end \in Seq(Chunks) /\ ToldText(end) = <<>> /\ ~HasCalls(end)
        BY <1>6, <1>7
    <2>2. out' = sent \o end
        BY <1>5
    <2> HIDE DEF sent, end
    <2>3. /\ sent \o end \in Seq(Chunks) /\ ToldText(sent \o end) = ToldText(sent) \o ToldText(end)
          /\ HasCalls(sent \o end) <=> HasCalls(sent) \/ HasCalls(end)
        BY <2>1, ToldJoin
    <2> QED BY <2>1, <2>2, <2>3
<1>9. ToldText(out') = streamed \o left
    <2>1. streamed \o left \in Seq(Atoms)
        BY <1>2, <1>3, ConcatProperties
    <2> QED BY <1>8, <2>1, ConcatEmptySeq
<1>10. IsSuffix(Plain(text), streamed \o left)
    <2>1. CASE Plain(text) = plain
        BY <1>1, <1>3, <2>1, SuffixOf
    <2>2. CASE Plain(text) = <<>>
        <3>1. streamed \o left \in Seq(Atoms)
            BY <1>2, <1>3, ConcatProperties
        <3> QED BY <1>1, <2>2, <3>1, SuffixOf
    <2> QED BY <1>1, <2>1, <2>2
<1>11. ToldText(out)' = ToldText(out') /\ HasCalls(out)' = HasCalls(out') /\ Plain(text)' = Plain(text)
    BY DEF ToldText, HasCalls
<1> QED BY <1>8, <1>9, <1>10, <1>11 DEF Sieved

\* Every step of a chat completion keeps the sieve's invariant.
LEMMA SieveStep == SieveInv /\ [StreamNext]_streamVars => SieveInv'
<1> SUFFICES ASSUME SieveInv, [StreamNext]_streamVars
             PROVE  SieveInv'
    OBVIOUS
<1>0. UNCHANGED <<text, out, streamed>> => (Sieving' = Sieving) /\ (Sieved' = Sieved)
    BY DEF Sieving, Sieved, ToldText, HasCalls
<1>1. ASSUME NEW r \in Routes, NEW a \in {"stream", "usage", "whole"}, OpenRoute(r, a)
      PROVE  SieveInv'
    <2>1. /\ text' = <<>> /\ streamed' = <<>> /\ cpc' = "reads" /\ text' \in Seq(Atoms)
          /\ route' = r /\ (asks' = "whole" => r \in Collected)
          /\ r = "catpaw_tools" => out' = <<>>
        BY <1>1 DEF OpenRoute, SieveInv, Collected, Threaded
    <2>2. r = "catpaw_tools" => asks' # "whole"
        BY <2>1 DEF Collected
    <2>3. Streamable(<<>>) = <<>> /\ ToldText(<<>>) = <<>> /\ ~HasCalls(<<>>)
        <3>1. Len(<<>>) = 0 /\ 1..(0 - 1) = {}
            OBVIOUS
        <3>2. Opens(<<>>) = {}
            BY <3>1 DEF Opens
        <3>3. Streamable(<<>>) = <<>>
            BY <3>2 DEF Streamable
        <3>4. <<>> \in Seq(Silent)
            OBVIOUS
        <3>5. ToldText(<<>>) = <<>>
            BY <3>4, ToldSilent
        <3> QED BY <3>3, <3>5 DEF HasCalls
    <2>4. r = "catpaw_tools" => Sieving' /\ out' \in Seq(Chunks)
        BY <2>1, <2>3 DEF Sieving, ToldText, HasCalls
    <2> QED BY <2>1, <2>2, <2>4 DEF SieveInv
<1>2. ASSUME NEW a \in Atoms, PassOn(a) \/ Collect(a) \/ Produce(a)
      PROVE  SieveInv'
    <2>1. route # "catpaw_tools" /\ route' = route /\ cpc # "idle" /\ cpc' = cpc /\ text' = Append(text, a)
        BY <1>2 DEF PassOn, Collect, Produce, Reading, Direct, Collected, Threaded, SieveInv
    <2>2. text' \in Seq(Atoms)
        BY <2>1 DEF SieveInv
    <2> QED BY <2>1, <2>2 DEF SieveInv
<1>3. ASSUME NEW a \in Atoms, Sieve(a)
      PROVE  SieveInv'
    BY <1>3, SieveKeeps
<1>4. CASE EndOfStream \/ UpstreamFails
    <2>1. /\ cpc = "reads" /\ cpc' \in {"over", "parses", "raised"}
          /\ UNCHANGED <<text, route, asks, streamed>>
          /\ route = "catpaw_tools" => out' = out /\ cpc' # "over"
        BY <1>4 DEF EndOfStream, UpstreamFails, Reading, Over, Direct
    <2> QED BY <1>0, <2>1 DEF SieveInv
<1>5. ASSUME NEW how \in {<<"None">>, <<"error", "None">>}, ProducerEnds(how)
      PROVE  SieveInv'
    BY <1>0, <1>5 DEF ProducerEnds, SieveInv
<1>6. CASE TakeItem \/ KeepAlive
    <2>1. /\ cpc = "reads" /\ cpc' # "idle" /\ route # "catpaw_tools" /\ UNCHANGED <<text, route>>
        BY <1>6 DEF TakeItem, KeepAlive, Threaded
    <2> QED BY <2>1 DEF SieveInv
<1>7. ASSUME NEW choice, NEW raw, SendCollected(choice, raw) \/ SendWhole(choice, raw)
      PROVE  SieveInv'
    <2>1. /\ cpc = "parses" /\ cpc' # "idle" /\ route # "catpaw_tools" /\ UNCHANGED <<text, route>>
        BY <1>7 DEF SendCollected, SendWhole, Collected, SieveInv
    <2> QED BY <2>1 DEF SieveInv
<1>8. CASE SendSieved
    <2>1. /\ cpc = "parses" /\ route = "catpaw_tools" /\ UNCHANGED <<route, asks, text, streamed>>
          /\ text \in Seq(Atoms) /\ asks # "whole" /\ out \in Seq(Chunks) /\ Sieving
        BY <1>8 DEF SendSieved, SieveInv
    <2> DEFINE calls == ParseToolCallsForTools(text)
    <2>2. calls \in Seq(Atoms)
        <3>1. "fits" \in Atoms
            BY DEF Atoms, Bodies
        <3> QED BY <2>1, <3>1, CallsTyped
    <2>3. CASE calls # <<>>
        <3>1. cpc' = "over" /\ out' = out \o CallChunks(calls) \o UsageChunk
            BY <1>8, <2>3 DEF SendSieved
        <3> HIDE DEF calls
        <3>2. out' \in Seq(Chunks) /\ Sieved'
            BY <2>1, <2>2, <2>3, <3>1, UsageSilent, CallsKeep
        <3> QED BY <2>1, <3>1, <3>2 DEF SieveInv
    <2>4. CASE calls = <<>>
        <3>1. cpc' = "retries" /\ out' = out
            BY <1>8, <2>4 DEF SendSieved
        <3> QED BY <1>0, <2>1, <3>1 DEF SieveInv
    <2> QED BY <2>3, <2>4
<1>9. CASE RetryFails
    BY <1>0, <1>9 DEF RetryFails, SieveInv
<1>10. ASSUME NEW calls \in {<<>>, <<"fits">>}, RetrySieved(calls)
       PROVE  SieveInv'
    <2>1. /\ cpc = "retries" /\ cpc' = "over" /\ UNCHANGED <<route, asks, text, streamed>>
          /\ text \in Seq(Atoms)
          /\ out' = IF calls # <<>> THEN out \o CallChunks(calls) ELSE TellRest
          /\ route = "catpaw_tools" => asks # "whole" /\ out \in Seq(Chunks) /\ Sieving
        BY <1>10 DEF RetrySieved, SieveInv
    <2>2. SUFFICES ASSUME route = "catpaw_tools"
                   PROVE  out' \in Seq(Chunks) /\ Sieved'
        BY <2>1 DEF SieveInv
    <2>3. CASE calls # <<>>
        <3>1. calls \in Seq(Atoms)
            <4>1. "fits" \in Atoms
                BY DEF Atoms, Bodies
            <4>2. <<>> \in Seq(Atoms) /\ <<"fits">> \in Seq(Atoms)
                BY <4>1
            <4> QED BY <4>2
        <3>2. out \o CallChunks(calls) = (out \o CallChunks(calls)) \o <<>> /\ <<>> \in Seq(Silent)
            <4>1. CallChunks(calls) \in Seq(Silent)
                BY <2>3, <3>1, CallsSilent
            <4>2. CallChunks(calls) \in Seq(Chunks)
                BY <4>1, ToldSilent
            <4>3. out \o CallChunks(calls) \in Seq(Chunks)
                BY <2>1, <2>2, <4>2, ToldJoin
            <4> QED BY <4>3, ConcatEmptySeq
        <3> QED BY <2>1, <2>2, <2>3, <3>1, <3>2, CallsKeep
    <2>4. CASE calls = <<>>
        BY <2>1, <2>2, <2>4, RestKeeps
    <2> QED BY <2>3, <2>4
<1>11. CASE UNCHANGED streamVars
    BY <1>0, <1>11 DEF streamVars, SieveInv
<1> QED BY <1>1, <1>2, <1>3, <1>4, <1>5, <1>6, <1>7, <1>8, <1>9, <1>10, <1>11 DEF StreamNext

\* What the property says of the sieve follows from it.
LEMMA SieveByInv == SieveInv => SieveTellsAll
<1> SUFFICES ASSUME SieveInv, route = "catpaw_tools"
             PROVE  /\ cpc # "over" => /\ IsPrefix(ToldText(out), text)
                                       /\ Opens(ToldText(out)) = {}
                    /\ cpc = "over" => Sieved
    BY DEF SieveTellsAll, Sieved
<1>1. CASE cpc # "over"
    <2>1. ToldText(out) = Streamable(text) /\ text \in Seq(Atoms)
        BY <1>1 DEF SieveInv, Sieving
    <2> DEFINE s == Streamable(text)
    <2>2. /\ s \in Seq(Atoms) /\ Len(s) = Told(text) /\ Told(text) \in 0..Len(text)
          /\ \A i \in 1..Len(s) : s[i] = text[i]
          /\ Opens(s) = {}
        BY <2>1, StreamableTyped
    <2> HIDE DEF s
    <2>3. Len(s) <= Len(text)
        BY <2>1, <2>2
    <2>4. IsPrefix(s, text)
        BY <2>1, <2>2, <2>3, PrefixPlaces
    <2> QED BY <1>1, <2>1, <2>2, <2>4 DEF s
<1>2. CASE cpc = "over"
    BY <1>2 DEF SieveInv
<1> QED BY <1>1, <1>2

\* Until CatPaw's answer is over the client has no opening tag and nothing but the
\* beginning of the answer; then it has all text outside the tags, or the text
\* before the first tag and the calls (SieveTellsAll, of ChatStream).
THEOREM NothingHeldBack == StreamSpec => []SieveTellsAll
<1> QED BY SieveStart, SieveStep, SieveByInv, PTL DEF StreamSpec
=============================================================================
