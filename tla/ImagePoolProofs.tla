--------------------------- MODULE ImagePoolProofs ---------------------------
(***************************************************************************)
(* Theorems about ImagePool, for any set of request threads and tokens and *)
(* any limit.  The argument: Inductive is an inductive invariant, so slots *)
(* are conserved (SlotAccounting) and the bound on overcommitment follows  *)
(* by arithmetic.  The delicate point is release_image_slot, whose floor   *)
(* at zero loses a release whenever the count was dropped before; the      *)
(* drift of the token records it, and SlotAccounting says by how much.     *)
(***************************************************************************)
EXTENDS ImagePool, FiniteSetTheorems, TLAPS

-----------------------------------------------------------------------------
(* Lemmas about the set of holders of a token *)

\* The holders of a token are a finite set of request threads.
LEMMA HoldersFinite ==
    ASSUME NEW t PROVE IsFiniteSet(Holders(t)) /\ Cardinality(Holders(t)) \in Nat
<1>1. Holders(t) \in SUBSET Workers
  BY DEF Holders
<1>2. IsFiniteSet(Holders(t))
  BY <1>1, FS_Subset, PoolAssumption
<1> QED
  BY <1>2, FS_CardinalityType

\* One thread starts to hold t.
LEMMA HoldersGain ==
    ASSUME NEW t, NEW w \in Workers, w \notin Holders(t), Holders(t)' = Holders(t) \cup {w}
    PROVE  Cardinality(Holders(t)') = Cardinality(Holders(t)) + 1
  BY HoldersFinite, FS_AddElement

\* One thread ceases to hold t.
LEMMA HoldersLose ==
    ASSUME NEW t, NEW w \in Workers, w \in Holders(t), Holders(t)' = Holders(t) \ {w}
    PROVE  /\ Cardinality(Holders(t)) >= 1
           /\ Cardinality(Holders(t)') = Cardinality(Holders(t)) - 1
<1>1. Cardinality(Holders(t)) # 0
  BY HoldersFinite, FS_EmptySet
<1> QED
  BY <1>1, HoldersFinite, FS_RemoveElement

-----------------------------------------------------------------------------
(* Lemmas about accounts *)

\* Updates keep accounts typed and do not bring a deleted account back.
LEMMA UpdatedType ==
    ASSUME NEW a \in Account, NEW b \in Present
    PROVE  Updated(a, b) \in Account /\ (a = Gone => Updated(a, b) = Gone)
  BY DEF Updated, Account

LEMMA InvalidatedType ==
    ASSUME NEW a \in Account
    PROVE  Invalidated(a) \in Account /\ (a = Gone => Invalidated(a) = Gone)
<1>1. [status |-> "abnormal", quota |-> IF a.quota = Unknown THEN Unknown ELSE 0] \in Present
  BY PoolAssumption DEF Present, Quotas
<1> QED
  BY <1>1, UpdatedType DEF Invalidated

LEMMA ChargedType ==
    ASSUME NEW a \in Account
    PROVE  Charged(a) \in Account /\ (a = Gone => Charged(a) = Gone)
<1> DEFINE q == IF a.quota > 0 THEN a.quota - 1 ELSE a.quota
           s == IF q = 0 THEN "limited"
                ELSE IF a.status = "limited" THEN "normal" ELSE a.status
<1>1. CASE a = Gone
  BY <1>1 DEF Charged, Updated, Account
<1>2. CASE a \in Present
  <2>1. q \in Quotas
    BY <1>2, PoolAssumption DEF Present, Quotas, Unknown
  <2>2. s \in {"normal", "limited", "abnormal"}
    BY <1>2 DEF Present
  <2>3. [status |-> s, quota |-> q] \in Present
    BY <2>1, <2>2 DEF Present
  <2>4. Charged(a) = Updated(a, [status |-> s, quota |-> q])
    BY DEF Charged
  <2> QED
    BY <2>3, <2>4, UpdatedType
<1> QED
  BY <1>1, <1>2 DEF Account

LEMMA FailedType ==
    ASSUME NEW a \in Account
    PROVE  Failed(a) \in Account /\ (a = Gone => Failed(a) = Gone)
  BY DEF Failed, Updated, Account

LEMMA InputType == Input \subseteq Present /\ RemoteInfo \subseteq Present /\ Fresh \in Present
  BY PoolAssumption DEF Input, RemoteInfo, Present, Quotas, Unknown, Fresh

-----------------------------------------------------------------------------
(* Lemmas about slots: what each way of changing the counts preserves *)

SlotTypes ==
    /\ inflight \in [Tokens -> 0 .. Limit]
    /\ drift \in [Tokens -> Int]

\* A step that moves threads between states that all hold, or all do not hold,
\* a slot leaves the holders alone.
LEMMA HoldersKept ==
    ASSUME \A w \in Workers :
              \/ pc'[w] = pc[w] /\ tok'[w] = tok[w]
              \/ pc[w] \notin Holding /\ pc'[w] \notin Holding
              \/ pc[w] \in Holding /\ pc'[w] \in Holding /\ tok'[w] = tok[w]
    PROVE  \A t \in Tokens : Holders(t)' = Holders(t)
  BY DEF Holders

\* Counts and holders unchanged: the accounts of slots still balance.
LEMMA KeepAccounting ==
    ASSUME SlotAccounting, KeepSlots, \A t \in Tokens : Holders(t)' = Holders(t)
    PROVE  SlotAccounting'
  BY DEF SlotAccounting, KeepSlots

\* Slots dropped with deleted accounts: their holders are no longer counted.
LEMMA DropAccounting ==
    ASSUME TypeOK, SlotAccounting, NEW S, DropSlots(S),
           \A t \in Tokens : Holders(t)' = Holders(t)
    PROVE  SlotTypes' /\ SlotAccounting'
<1>1. SlotTypes'
  BY HoldersFinite, PoolAssumption DEF SlotTypes, DropSlots, TypeOK
<1>2. SlotAccounting'
  <2> SUFFICES ASSUME NEW t \in Tokens
               PROVE  inflight'[t] = Cardinality(Holders(t)') + drift'[t]
    BY DEF SlotAccounting
  <2>1. inflight[t] = Cardinality(Holders(t)) + drift[t]
    BY DEF SlotAccounting
  <2>2. Cardinality(Holders(t)) \in Nat
    BY HoldersFinite
  <2> QED
    BY <2>1, <2>2 DEF DropSlots, TypeOK
<1> QED
  BY <1>1, <1>2

\* A released slot leaves the count, or, if it was not counted, the drift.
LEMMA ReleaseAccounting ==
    ASSUME TypeOK, RequestShape, SlotAccounting, NEW w \in Workers, pc[w] \in Holding,
           NEW next \in PCs \ Holding, Release(w, next), tok' = tok
    PROVE  /\ SlotTypes' /\ SlotAccounting'
           /\ pc' \in [Workers -> PCs]
           /\ pc'[w] = next
           /\ \A v \in Workers \ {w} :
                 pc'[v] = pc[v] \/ (pc[v] = "waiting" /\ pc'[v] = "acquire")
<1> DEFINE u == tok[w]
<1>1. u \in Tokens
  BY DEF RequestShape, TypeOK, Holding
<1>2. /\ pc' \in [Workers -> PCs] /\ pc'[w] = next
      /\ \A v \in Workers \ {w} :
            pc'[v] = pc[v] \/ (pc[v] = "waiting" /\ pc'[v] = "acquire")
  BY DEF Release, Notify, TypeOK, PCs
<1>3. w \in Holders(u) /\ Holders(u)' = Holders(u) \ {w}
  BY <1>2 DEF Holders, Holding
<1>4. \A t \in Tokens \ {u} : Holders(t)' = Holders(t)
  BY <1>2 DEF Holders, Holding
<1>5. /\ Cardinality(Holders(u)) \in Nat /\ Cardinality(Holders(u)) >= 1
      /\ Cardinality(Holders(u)') = Cardinality(Holders(u)) - 1
  BY <1>3, HoldersLose, HoldersFinite
<1>6. inflight[u] = Cardinality(Holders(u)) + drift[u]
  BY <1>1 DEF SlotAccounting
<1>7. inflight'[u] \in 0 .. Limit /\ drift'[u] \in Int
  BY <1>1, <1>5, <1>6, PoolAssumption DEF Release, TypeOK
<1>8. inflight'[u] = Cardinality(Holders(u)') + drift'[u]
  BY <1>1, <1>5, <1>6, PoolAssumption DEF Release, TypeOK
<1>9. \A t \in Tokens \ {u} : inflight'[t] = inflight[t] /\ drift'[t] = drift[t]
  BY <1>1 DEF Release, TypeOK
<1>10. SlotTypes'
  BY <1>1, <1>7 DEF SlotTypes, Release, TypeOK
<1>11. SlotAccounting'
  BY <1>4, <1>8, <1>9 DEF SlotAccounting
<1> QED
  BY <1>2, <1>10, <1>11

\* remove_invalid_token, in a thread that keeps, or does not have, its slot.
LEMMA RemoveInvalidTokenKeeps ==
    ASSUME TypeOK, SlotAccounting, NEW w \in Workers, tok[w] \in Tokens,
           NEW next \in PCs, RemoveInvalidToken(w, next),
           \A t \in Tokens : Holders(t)' = Holders(t)
    PROVE  /\ accounts' \in [Tokens -> Account] /\ SlotTypes' /\ SlotAccounting'
           /\ \A t \in Tokens : accounts[t] = Gone => accounts'[t] = Gone
<1>1. CASE AutoRemoveInvalid
  <2>1. accounts' = [accounts EXCEPT ![tok[w]] = Gone] /\ DropSlots({tok[w]})
    BY <1>1 DEF RemoveInvalidToken
  <2>2. SlotTypes' /\ SlotAccounting'
    BY <2>1, DropAccounting
  <2> QED
    BY <2>1, <2>2 DEF TypeOK, Account
<1>2. CASE ~AutoRemoveInvalid
  <2>1. accounts' = [accounts EXCEPT ![tok[w]] = Invalidated(accounts[tok[w]])] /\ KeepSlots
    BY <1>2 DEF RemoveInvalidToken
  <2>2. SlotTypes' /\ SlotAccounting'
    BY <2>1, KeepAccounting DEF KeepSlots, SlotTypes, TypeOK
  <2>3. accounts[tok[w]] \in Account
    BY DEF TypeOK
  <2> QED
    BY <2>1, <2>2, <2>3, InvalidatedType DEF TypeOK
<1> QED
  BY <1>1, <1>2

-----------------------------------------------------------------------------
(* The inductive invariant *)

LEMMA InductiveInit == Init => Inductive
<1> SUFFICES ASSUME Init PROVE Inductive
  OBVIOUS
<1>1. TypeOK
  <2>1. [status |-> "normal", quota |-> 1] \in Account
    BY PoolAssumption DEF Account, Present, Quotas
  <2> QED
    BY <2>1, PoolAssumption DEF Init, TypeOK, PCs, Account
<1>2. RequestShape /\ SkipsRefused
  BY DEF Init, RequestShape, SkipsRefused, Holding
<1>3. SlotAccounting
  <2> SUFFICES ASSUME NEW t \in Tokens
               PROVE  inflight[t] = Cardinality(Holders(t)) + drift[t]
    BY DEF SlotAccounting
  <2>1. Holders(t) = {}
    BY DEF Init, Holders, Holding
  <2> QED
    BY <2>1, FS_EmptySet DEF Init
<1> QED
  BY <1>1, <1>2, <1>3 DEF Inductive

\* Steps that leave the slots and the accounts alone.
LEMMA QuietSteps ==
    ASSUME Inductive, NEW w \in Workers, Start(w) \/ Exhausted(w) \/ Wait(w) \/ WaitExpires(w)
    PROVE  Inductive'
<1> USE DEF Inductive
<1>1. /\ KeepSlots /\ accounts' = accounts
      /\ pc[w] \in {"idle", "acquire", "waiting"}
      /\ \E next \in {"idle", "acquire", "waiting"} : pc' = [pc EXCEPT ![w] = next]
      /\ \A v \in Workers \ {w} : tok'[v] = tok[v]
  BY DEF Start, Exhausted, Wait, WaitExpires, Goto, Finish, TypeOK, request
<1>2. TypeOK'
  <2>1. todo' \in [Workers -> 0 .. MaxImages] /\ tok' \in [Workers -> Tokens \cup {NoToken}]
        /\ attempted' \in [Workers -> SUBSET Tokens] /\ tried' \in [Workers -> SUBSET Tokens]
    BY PoolAssumption DEF Start, Exhausted, Wait, WaitExpires, Finish, TypeOK, request
  <2> QED
    BY <1>1, <2>1 DEF TypeOK, PCs, KeepSlots
<1>3. RequestShape'
  BY DEF RequestShape, Start, Exhausted, Wait, WaitExpires, Goto, Finish, TypeOK, request
<1>4. SkipsRefused'
  BY DEF SkipsRefused, Start, Exhausted, Wait, WaitExpires, Goto, Finish, TypeOK, request, Holding
<1>5. SlotAccounting'
  <2>1. \A t \in Tokens : Holders(t)' = Holders(t)
    BY <1>1 DEF Holders, Holding, TypeOK
  <2> QED
    BY <1>1, <2>1, KeepAccounting
<1> QED
  BY <1>2, <1>3, <1>4, <1>5

\* A slot is taken: the count and the holders grow together.
LEMMA TakeStep ==
    ASSUME Inductive, NEW w \in Workers, NEW t \in Tokens, Take(w, t)
    PROVE  Inductive'
<1> USE DEF Inductive
<1>1. t \notin tried[w] /\ inflight[t] < Limit
  BY DEF Take, Free, Ready
<1>2. TypeOK'
  BY <1>1, PoolAssumption DEF Take, TypeOK, Goto, PCs
<1>3. RequestShape'
  BY DEF RequestShape, Take, Goto, TypeOK
<1>4. SkipsRefused'
  BY <1>1 DEF SkipsRefused, RequestShape, Take, Goto, TypeOK, Holding
<1>5. SlotAccounting'
  <2>1. w \notin Holders(t) /\ Holders(t)' = Holders(t) \cup {w}
    BY DEF Take, Goto, Holders, Holding, TypeOK
  <2>2. \A u \in Tokens \ {t} : Holders(u)' = Holders(u)
    BY DEF Take, Goto, Holders, Holding, TypeOK
  <2>3. Cardinality(Holders(t)') = Cardinality(Holders(t)) + 1 /\ Cardinality(Holders(t)) \in Nat
    BY <2>1, HoldersGain, HoldersFinite
  <2> QED
    BY <2>2, <2>3 DEF SlotAccounting, Take, TypeOK
<1> QED
  BY <1>2, <1>3, <1>4, <1>5

\* The upstream answers a probe: an account changes, the slot is kept.
LEMMA ProbeAnswersStep ==
    ASSUME Inductive, NEW w \in Workers, ProbeAnswers(w)
    PROVE  Inductive' /\ \A t \in Tokens : accounts[t] = Gone => accounts'[t] = Gone
<1> USE DEF Inductive
<1>1. PICK info \in RemoteInfo :
         accounts' = [accounts EXCEPT ![tok[w]] = Updated(accounts[tok[w]], info)]
  BY DEF ProbeAnswers
<1>2. PICK next \in {"generate", "release"} : pc' = [pc EXCEPT ![w] = next]
  BY DEF ProbeAnswers, Goto
<1>3. pc[w] = "probe" /\ KeepSlots /\ UNCHANGED <<tok, attempted, tried, todo>>
  BY DEF ProbeAnswers, request
<1>4. tok[w] \in Tokens
  BY <1>3 DEF RequestShape, TypeOK
<1>5. /\ accounts' \in [Tokens -> Account]
      /\ \A t \in Tokens : accounts[t] = Gone => accounts'[t] = Gone
  BY <1>1, <1>4, UpdatedType, InputType DEF TypeOK
<1>6. TypeOK'
  BY <1>2, <1>3, <1>5 DEF TypeOK, PCs, KeepSlots
<1>7. RequestShape' /\ SkipsRefused'
  BY <1>2, <1>3 DEF RequestShape, SkipsRefused, Holding, TypeOK
<1>8. SlotAccounting'
  <2>1. \A t \in Tokens : Holders(t)' = Holders(t)
    BY <1>2, <1>3 DEF Holders, Holding, TypeOK
  <2> QED
    BY <1>3, <2>1, KeepAccounting
<1> QED
  BY <1>5, <1>6, <1>7, <1>8

\* Steps that release a slot.
LEMMA ReleaseSteps ==
    ASSUME Inductive, NEW w \in Workers, ProbeFails(w) \/ ReleaseProbed(w) \/ GenerateEnds(w)
    PROVE  Inductive'
<1> USE DEF Inductive
<1>1. PICK next \in {"acquire", "charge", "message", "fail", "invalid"} : Release(w, next)
  BY DEF ProbeFails, ReleaseProbed, GenerateEnds
<1>2. pc[w] \in Holding /\ UNCHANGED <<accounts, tok, attempted, tried, todo>>
  BY DEF ProbeFails, ReleaseProbed, GenerateEnds, Holding, request
<1>3. next \in PCs \ Holding
  BY DEF PCs, Holding
<1>4. /\ SlotTypes' /\ SlotAccounting' /\ pc' \in [Workers -> PCs] /\ pc'[w] = next
      /\ \A v \in Workers \ {w} :
            pc'[v] = pc[v] \/ (pc[v] = "waiting" /\ pc'[v] = "acquire")
  BY <1>1, <1>2, <1>3, ReleaseAccounting
<1>5. TypeOK'
  BY <1>2, <1>4 DEF TypeOK, SlotTypes
<1>6. RequestShape'
  BY <1>2, <1>4 DEF RequestShape, Holding, TypeOK
<1>7. SkipsRefused'
  BY <1>2, <1>4 DEF SkipsRefused, Holding, TypeOK
<1> QED
  BY <1>4, <1>5, <1>6, <1>7

\* A slot is lost: it stays counted, but nobody holds it.
LEMMA AbandonStep ==
    ASSUME Inductive, NEW w \in Workers, Abandon(w)
    PROVE  Inductive'
<1> USE DEF Inductive
<1>1. PICK u \in Tokens : tok[w] = u
  BY DEF Abandon, RequestShape, TypeOK
<1>2. TypeOK'
  BY <1>1, PoolAssumption DEF Abandon, Finish, Goto, TypeOK, PCs
<1>3. RequestShape' /\ SkipsRefused'
  BY DEF RequestShape, SkipsRefused, Abandon, Finish, Goto, TypeOK, Holding
<1>4. SlotAccounting'
  <2>1. w \in Holders(u) /\ Holders(u)' = Holders(u) \ {w}
    BY <1>1, PoolAssumption DEF Abandon, Finish, Goto, Holders, Holding, TypeOK
  <2>2. \A t \in Tokens \ {u} : Holders(t)' = Holders(t)
    BY <1>1, PoolAssumption DEF Abandon, Finish, Goto, Holders, Holding, TypeOK
  <2>3. /\ Cardinality(Holders(u)) \in Nat
        /\ Cardinality(Holders(u)') = Cardinality(Holders(u)) - 1
    BY <2>1, HoldersLose, HoldersFinite
  <2>4. /\ drift'[u] = drift[u] + 1 /\ UNCHANGED inflight
        /\ \A t \in Tokens \ {u} : drift'[t] = drift[t]
    BY <1>1 DEF Abandon, TypeOK
  <2> QED
    BY <1>1, <2>2, <2>3, <2>4 DEF SlotAccounting, TypeOK
<1> QED
  BY <1>2, <1>3, <1>4

\* The verdict on an image is recorded; the slot was released before.
LEMMA SettleSteps ==
    ASSUME Inductive, NEW w \in Workers, Charge(w) \/ Fail(w) \/ VerdictUnsaved(w)
    PROVE  Inductive' /\ \A t \in Tokens : accounts[t] = Gone => accounts'[t] = Gone
<1> USE DEF Inductive
<1>1. pc[w] \in {"charge", "message", "fail", "invalid"} /\ KeepSlots
  BY DEF Charge, Fail, VerdictUnsaved
<1>2. tok[w] \in tried[w] /\ tok[w] \in Tokens /\ todo[w] \in 1 .. MaxImages
  BY <1>1 DEF RequestShape, TypeOK
<1>3. /\ accounts' \in [Tokens -> Account]
      /\ \A t \in Tokens : accounts[t] = Gone => accounts'[t] = Gone
  <2>1. \/ accounts' = [accounts EXCEPT ![tok[w]] = Charged(accounts[tok[w]])]
        \/ accounts' = [accounts EXCEPT ![tok[w]] = Failed(accounts[tok[w]])]
    BY DEF Charge, Fail, VerdictUnsaved
  <2> QED
    BY <1>2, <2>1, ChargedType, FailedType DEF TypeOK
<1>4. PICK next \in {"idle", "acquire", "remove", "again"} : pc' = [pc EXCEPT ![w] = next]
  BY DEF Charge, Fail, VerdictUnsaved, Goto
<1>5. /\ todo' \in [Workers -> 0 .. MaxImages] /\ tok' \in [Workers -> Tokens \cup {NoToken}]
      /\ attempted' \in [Workers -> SUBSET Tokens] /\ tried' \in [Workers -> SUBSET Tokens]
  BY <1>2, PoolAssumption DEF Charge, Fail, VerdictUnsaved, Finish, TypeOK, request
<1>6. TypeOK'
  BY <1>1, <1>3, <1>4, <1>5 DEF TypeOK, PCs, KeepSlots
<1>7. RequestShape'
  BY <1>2 DEF RequestShape, Charge, Fail, VerdictUnsaved, Finish, Goto, TypeOK, request
<1>8. SkipsRefused'
  BY DEF SkipsRefused, Charge, Fail, VerdictUnsaved, Finish, Goto, TypeOK, Holding, request
<1>9. SlotAccounting'
  <2>1. \A v \in Workers \ {w} : tok'[v] = tok[v]
    BY DEF Charge, Fail, VerdictUnsaved, Finish, TypeOK, request
  <2>2. \A t \in Tokens : Holders(t)' = Holders(t)
    BY <1>1, <1>4, <2>1 DEF Holders, Holding, TypeOK
  <2> QED
    BY <1>1, <2>2, KeepAccounting
<1> QED
  BY <1>3, <1>6, <1>7, <1>8, <1>9

\* A slot is released a second time: somebody else's becomes uncounted.
LEMMA ReleaseAgainStep ==
    ASSUME Inductive, NEW w \in Workers, ReleaseAgain(w)
    PROVE  Inductive'
<1> USE DEF Inductive
<1>1. PICK u \in Tokens : tok[w] = u
  BY DEF ReleaseAgain, RequestShape, TypeOK
<1>2. /\ pc[w] = "again" /\ pc' \in [Workers -> PCs] /\ pc'[w] = "fail"
      /\ \A v \in Workers \ {w} :
            pc'[v] = pc[v] \/ (pc[v] = "waiting" /\ pc'[v] = "acquire")
      /\ UNCHANGED <<accounts, tok, attempted, tried, todo>>
  BY DEF ReleaseAgain, Notify, TypeOK, PCs, request
<1>3. /\ inflight' = [inflight EXCEPT ![u] = IF @ <= 1 THEN 0 ELSE @ - 1]
      /\ drift' = [drift EXCEPT ![u] = IF inflight[u] = 0 THEN @ ELSE @ - 1]
  BY <1>1 DEF ReleaseAgain
<1>4. TypeOK'
  BY <1>2, <1>3, PoolAssumption DEF TypeOK
<1>5. RequestShape' /\ SkipsRefused'
  BY <1>2 DEF RequestShape, SkipsRefused, Holding, TypeOK
<1>6. SlotAccounting'
  <2>1. \A t \in Tokens : Holders(t)' = Holders(t)
    BY <1>2 DEF Holders, Holding, TypeOK
  <2>2. \A t \in Tokens : Cardinality(Holders(t)) \in Nat
    BY HoldersFinite
  <2>3. \A t \in Tokens : inflight'[t] - drift'[t] = inflight[t] - drift[t]
    BY <1>3, PoolAssumption DEF TypeOK
  <2> QED
    BY <1>4, <2>1, <2>2, <2>3, PoolAssumption DEF SlotAccounting, TypeOK
<1> QED
  BY <1>4, <1>5, <1>6

\* An invalid account is removed during a probe, with the slot still held, or
\* after a refusal, with the slot released.
LEMMA RemoveSteps ==
    ASSUME Inductive, NEW w \in Workers, ProbeInvalid(w) \/ Retry(w)
    PROVE  Inductive' /\ \A t \in Tokens : accounts[t] = Gone => accounts'[t] = Gone
<1> USE DEF Inductive
<1>1. PICK next \in {"release", "acquire"} :
         RemoveInvalidToken(w, next) /\ pc' = [pc EXCEPT ![w] = next]
  BY DEF ProbeInvalid, Retry, RemoveInvalidToken, Goto
<1>2. pc[w] \in {"probe", "remove"} /\ tok[w] \in tried[w] /\ tok[w] \in Tokens
  BY DEF ProbeInvalid, Retry, RequestShape, TypeOK
<1>3. \A t \in Tokens : Holders(t)' = Holders(t)
  BY DEF ProbeInvalid, Retry, RemoveInvalidToken, Goto, Holders, Holding, TypeOK, request
<1>4. /\ accounts' \in [Tokens -> Account] /\ SlotTypes' /\ SlotAccounting'
      /\ \A t \in Tokens : accounts[t] = Gone => accounts'[t] = Gone
  <2>1. next \in PCs
    BY DEF PCs
  <2> QED
    BY <1>1, <1>2, <1>3, <2>1, RemoveInvalidTokenKeeps
<1>5. /\ tok' \in [Workers -> Tokens \cup {NoToken}] /\ tried' \in [Workers -> SUBSET Tokens]
      /\ UNCHANGED <<attempted, todo>>
  BY DEF ProbeInvalid, Retry, TypeOK, request
<1>6. TypeOK'
  BY <1>1, <1>4, <1>5 DEF TypeOK, SlotTypes, PCs
<1>7. RequestShape'
  BY <1>2 DEF RequestShape, ProbeInvalid, Retry, RemoveInvalidToken, Goto, TypeOK, request
<1>8. SkipsRefused'
  BY DEF SkipsRefused, ProbeInvalid, Retry, RemoveInvalidToken, Goto, TypeOK, Holding, request
<1> QED
  BY <1>4, <1>6, <1>7, <1>8

\* Administrators and the refresh thread leave requests alone; the slots of
\* the accounts they delete are no longer counted.
LEMMA AdminSteps ==
    ASSUME Inductive, AdminStep
    PROVE  Inductive'
<1> USE DEF Inductive
<1>1. UNCHANGED <<pc, tok, attempted, tried, todo>>
  BY DEF AdminStep, Import, Update, Delete, DeleteLimited, Replace, request
<1>2. \A t \in Tokens : Holders(t)' = Holders(t)
  BY <1>1 DEF Holders
<1>3. KeepSlots \/ \E S : DropSlots(S)
  BY DEF AdminStep, Import, Update, Delete, DeleteLimited, Replace
<1>4. SlotTypes' /\ SlotAccounting'
  <2>1. CASE KeepSlots
    BY <1>2, <2>1, KeepAccounting DEF KeepSlots, SlotTypes, TypeOK
  <2>2. CASE \E S : DropSlots(S)
    BY <1>2, <2>2, DropAccounting
  <2> QED
    BY <1>3, <2>1, <2>2
<1>5. accounts' \in [Tokens -> Account]
  <2>1. ASSUME NEW t \in Tokens, Import(t) \/ Update(t) \/ Delete(t)
        PROVE  accounts' \in [Tokens -> Account]
    BY <2>1, InputType, UpdatedType DEF Import, Update, Delete, TypeOK, Account
  <2>2. ASSUME DeleteLimited PROVE accounts' \in [Tokens -> Account]
    BY <2>2 DEF DeleteLimited, TypeOK, Account
  <2>3. ASSUME NEW source, NEW payload, Replace(source, payload)
        PROVE  accounts' \in [Tokens -> Account]
    BY <2>3, InputType DEF Replace, TypeOK, Account
  <2> QED
    BY <2>1, <2>2, <2>3 DEF AdminStep
<1>6. TypeOK'
  BY <1>1, <1>4, <1>5 DEF TypeOK, SlotTypes
<1>7. RequestShape' /\ SkipsRefused'
  BY <1>1 DEF RequestShape, SkipsRefused
<1> QED
  BY <1>4, <1>6, <1>7

LEMMA InductiveNext == Inductive /\ [Next]_vars => Inductive'
<1> SUFFICES ASSUME Inductive, [Next]_vars PROVE Inductive'
  OBVIOUS
<1>1. ASSUME NEW w \in Workers, Start(w) PROVE Inductive'
  BY <1>1, QuietSteps
<1>2. ASSUME NEW w \in Workers, Abandon(w) PROVE Inductive'
  BY <1>2, AbandonStep
<1>3. ASSUME NEW w \in Workers, WorkerStep(w) PROVE Inductive'
  BY <1>3, QuietSteps, TakeStep, ProbeAnswersStep, ReleaseSteps, SettleSteps, ReleaseAgainStep,
     RemoveSteps
     DEF WorkerStep
<1>4. CASE AdminStep
  BY <1>4, AdminSteps
<1>5. CASE UNCHANGED vars
  BY <1>5 DEF vars, Inductive, TypeOK, RequestShape, SlotAccounting, SkipsRefused, Holders
<1> QED
  BY <1>1, <1>2, <1>3, <1>4, <1>5 DEF Next

-----------------------------------------------------------------------------
(* Theorems *)

\* Inductive holds throughout: the state has its type, slots are conserved and
\* refused accounts stay skipped, whatever deletions, imports, refreshes,
\* timeouts and other requests interleave with a request.
THEOREM PoolInvariant == Spec => []Inductive
<1> QED
  BY InductiveInit, InductiveNext, PTL DEF Spec

\* Every slot counted is held, but for the drift (account_service slots).
THEOREM SlotsConserved == Spec => []SlotAccounting
<1>1. Inductive => SlotAccounting
  BY DEF Inductive
<1> QED
  BY <1>1, PoolInvariant, PTL

\* An account refused as invalid is never taken again for the same image
\* (attempted_tokens), even when it is imported anew.
THEOREM RefusedSkipped == Spec => []SkipsRefused
<1>1. Inductive => SkipsRefused
  BY DEF Inductive
<1> QED
  BY <1>1, PoolInvariant, PTL

\* No account serves more requests than image_account_concurrency, but for
\* slots in use that a deletion or a second release took out of the count.
THEOREM OvercommitBounded == Spec => []BoundedOvercommit
<1>1. Inductive => BoundedOvercommit
  <2> SUFFICES ASSUME Inductive, NEW t \in Tokens, Cardinality(Holders(t)) > Limit
               PROVE  drift[t] < 0 /\ Cardinality(Holders(t)) <= Limit - drift[t]
    BY DEF BoundedOvercommit
  <2>1. inflight[t] = Cardinality(Holders(t)) + drift[t]
    BY DEF Inductive, SlotAccounting
  <2>2. inflight[t] \in 0 .. Limit /\ drift[t] \in Int
    BY DEF Inductive, TypeOK
  <2> QED
    BY <2>1, <2>2, HoldersFinite, PoolAssumption
<1> QED
  BY <1>1, PoolInvariant, PTL

\* A late probe answer, verdict or refresh never brings a deleted account back.
THEOREM NoResurrection == Spec => DeletedStaysDeleted
<1> DEFINE Late == (\E w \in Workers : WorkerStep(w)) \/ (\E t \in Tokens : Update(t))
           Stays == \A t \in Tokens : accounts[t] = Gone => accounts'[t] = Gone
<1>1. Inductive /\ [Next]_vars => [Late => Stays]_vars
  <2> SUFFICES ASSUME Inductive, Late PROVE Stays
    OBVIOUS
  <2>1. ASSUME NEW w \in Workers, WorkerStep(w) PROVE Stays
    <3>1. CASE \/ ReleaseAgain(w) \/ Exhausted(w) \/ Wait(w) \/ WaitExpires(w) \/ \E t \in Tokens : Take(w, t)
               \/ ProbeFails(w) \/ ReleaseProbed(w) \/ GenerateEnds(w)
      BY <3>1 DEF ReleaseAgain, Exhausted, Wait, WaitExpires, Take, ProbeFails, ReleaseProbed, GenerateEnds
    <3>2. CASE \/ ProbeAnswers(w) \/ Charge(w) \/ Fail(w) \/ VerdictUnsaved(w)
               \/ ProbeInvalid(w) \/ Retry(w)
      BY <3>2, ProbeAnswersStep, SettleSteps, RemoveSteps
    <3> QED
      BY <2>1, <3>1, <3>2 DEF WorkerStep
  <2>2. ASSUME NEW u \in Tokens, Update(u) PROVE Stays
    BY <2>2, InputType, UpdatedType DEF Update, Inductive, TypeOK
  <2> QED
    BY <2>1, <2>2
<1> QED
  BY <1>1, PoolInvariant, PTL DEF Spec, DeletedStaysDeleted

-----------------------------------------------------------------------------
(* Refinement: without deletions the pool is a bank of slots *)

held == [w \in Workers |-> IF pc[w] \in Holding THEN tok[w] ELSE NoToken]

\* While no account is deleted and saves succeed, every held slot is counted.
LEMMA DriftNotNegative ==
    ASSUME ~DeletionsHappen, ~AutoRemoveInvalid, ~SavesFail
    PROVE  Spec => []((\A w \in Workers : pc[w] # "again") /\ \A t \in Tokens : drift[t] >= 0)
<1> DEFINE Counted == (\A w \in Workers : pc[w] # "again") /\ \A t \in Tokens : drift[t] >= 0
<1>1. Init => Counted
  BY DEF Init
<1>2. Inductive /\ Counted /\ [Next]_vars => Counted'
  <2> SUFFICES ASSUME Inductive, Counted, [Next]_vars PROVE Counted'
    OBVIOUS
  <2>1. ASSUME NEW w \in Workers,
               \/ Start(w) \/ Exhausted(w) \/ Wait(w) \/ WaitExpires(w)
               \/ \E t \in Tokens : Take(w, t)
               \/ ProbeAnswers(w) \/ Charge(w) \/ Fail(w) \/ ProbeInvalid(w) \/ Retry(w)
        PROVE  Counted'
    BY <2>1 DEF Start, Exhausted, Take, Wait, WaitExpires, ProbeAnswers, ProbeInvalid, Retry,
                RemoveInvalidToken, Charge, Fail, KeepSlots, Goto, Inductive, TypeOK
  <2>2. ASSUME NEW w \in Workers, ProbeFails(w) \/ ReleaseProbed(w) \/ GenerateEnds(w)
        PROVE  Counted'
    <3>1. PICK next \in PCs \ {"again"} : Release(w, next)
      BY <2>2 DEF ProbeFails, ReleaseProbed, GenerateEnds, PCs
    <3>2. tok[w] \in Tokens
      BY <2>2 DEF ProbeFails, ReleaseProbed, GenerateEnds, Inductive, RequestShape, TypeOK
    <3> QED
      BY <3>1, <3>2 DEF Release, Notify, Inductive, TypeOK
  <2>3. ASSUME NEW w \in Workers, Abandon(w) PROVE Counted'
    BY <2>3 DEF Abandon, Goto, Inductive, TypeOK, RequestShape
  <2>4. ASSUME NEW w \in Workers, ReleaseAgain(w) \/ VerdictUnsaved(w) PROVE FALSE
    BY <2>4 DEF ReleaseAgain, VerdictUnsaved
  <2>5. ASSUME AdminStep PROVE Counted'
    BY <2>5 DEF AdminStep, Import, Update, Delete, DeleteLimited, Replace, KeepSlots
  <2>6. ASSUME UNCHANGED vars PROVE Counted'
    BY <2>6 DEF vars
  <2> QED
    BY <2>1, <2>2, <2>3, <2>4, <2>5, <2>6 DEF Next, WorkerStep
<1> QED
  BY <1>1, <1>2, PoolInvariant, PTL DEF Spec

\* The threads that hold a token in the bank of slots are its holders here.
LEMMA HeldIsHolders ==
    ASSUME NEW t \in Tokens PROVE Slots!Held(t) = Holders(t)
  BY PoolAssumption DEF Slots!Held, Holders

\* Both modules mean the same by Cardinality.
LEMMA SameCardinality ==
    ASSUME NEW S PROVE Slots!Cardinality(S) = Cardinality(S)
  BY DEF Slots!Cardinality, Cardinality

\* A step that keeps the holders is a stutter of the bank.
LEMMA SlotStutter ==
    ASSUME UNCHANGED drift,
           \A w \in Workers :
              \/ pc'[w] = pc[w] /\ tok'[w] = tok[w]
              \/ pc[w] \notin Holding /\ pc'[w] \notin Holding
              \/ pc[w] \in Holding /\ pc'[w] \in Holding /\ tok'[w] = tok[w]
    PROVE  UNCHANGED <<held, drift>>
  BY DEF held

LEMMA SlotStep ==
    ASSUME ~DeletionsHappen, ~AutoRemoveInvalid, ~SavesFail, Inductive,
           \A w \in Workers : pc[w] # "again", \A t \in Tokens : drift[t] >= 0, [Next]_vars
    PROVE  Slots!Next \/ UNCHANGED <<held, drift>>
<1> USE DEF Inductive
<1>1. ASSUME NEW w \in Workers, NEW t \in Tokens, Take(w, t) PROVE Slots!Next
  <2>1. held[w] = NoToken
    BY <1>1 DEF Take, held, Holding
  <2>2. Slots!Cardinality(Slots!Held(t)) + drift[t] < Limit
    <3>1. inflight[t] < Limit /\ inflight[t] = Cardinality(Holders(t)) + drift[t]
      BY <1>1 DEF Take, Free, SlotAccounting
    <3>2. inflight[t] \in Nat
      BY PoolAssumption DEF TypeOK
    <3> QED
      BY <3>1, <3>2, HeldIsHolders, SameCardinality
  <2>3. held' = [held EXCEPT ![w] = t]
    BY <1>1 DEF Take, Goto, held, Holding, TypeOK
  <2>4. drift' = drift
    BY <1>1 DEF Take
  <2>5. Slots!Grant(w, t)
    BY <2>1, <2>2, <2>3, <2>4 DEF Slots!Grant, held
  <2> QED
    BY <2>5 DEF Slots!Next
<1>2. ASSUME NEW w \in Workers, ProbeFails(w) \/ ReleaseProbed(w) \/ GenerateEnds(w)
      PROVE  Slots!Next
  <2>1. PICK next \in {"acquire", "charge", "message", "fail", "invalid"} : Release(w, next)
    BY <1>2 DEF ProbeFails, ReleaseProbed, GenerateEnds
  <2>2. pc[w] \in Holding /\ tok' = tok /\ tok[w] \in Tokens
    BY <1>2 DEF ProbeFails, ReleaseProbed, GenerateEnds, Holding, request, RequestShape, TypeOK
  <2>3. held' = [held EXCEPT ![w] = NoToken] /\ held[w] # NoToken
    BY <2>1, <2>2, PoolAssumption DEF Release, Notify, held, Holding, TypeOK
  <2>4. drift' = drift
    <3>1. PICK u \in Tokens : tok[w] = u
      BY <2>2
    <3>2. w \in Holders(u) /\ inflight[u] = Cardinality(Holders(u)) + drift[u]
      BY <2>2, <3>1 DEF Holders, SlotAccounting
    <3>3. Cardinality(Holders(u)) # 0
      BY <3>2, HoldersFinite, FS_EmptySet
    <3>4. inflight[u] # 0
      BY <3>1, <3>2, <3>3, HoldersFinite DEF TypeOK
    <3> QED
      BY <2>1, <3>1, <3>4 DEF Release, TypeOK
  <2>5. Slots!GiveBack(w)
    BY <2>3, <2>4 DEF Slots!GiveBack, held
  <2> QED
    BY <2>5 DEF Slots!Next
<1>3. ASSUME NEW w \in Workers, Abandon(w) PROVE Slots!Next
  <2>1. tok[w] \in Tokens /\ pc[w] = "generate"
    BY <1>3 DEF Abandon, RequestShape, TypeOK
  <2>2. held' = [held EXCEPT ![w] = NoToken] /\ held[w] = tok[w] /\ held[w] # NoToken
    BY <1>3, <2>1, PoolAssumption DEF Abandon, Goto, Finish, held, Holding, TypeOK
  <2>3. drift' = [drift EXCEPT ![held[w]] = drift[held[w]] + 1]
    BY <1>3, <2>2 DEF Abandon
  <2>4. Slots!Lose(w)
    BY <2>2, <2>3 DEF Slots!Lose, held
  <2> QED
    BY <2>4 DEF Slots!Next
<1>4. ASSUME NEW w \in Workers, Start(w) \/ Exhausted(w) \/ Wait(w) \/ WaitExpires(w)
      PROVE  UNCHANGED <<held, drift>>
  BY <1>4, SlotStutter
     DEF Start, Exhausted, Wait, WaitExpires, Goto, Finish, KeepSlots, request, TypeOK, Holding
<1>5. ASSUME NEW w \in Workers, ProbeAnswers(w) \/ ProbeInvalid(w) \/ Retry(w)
      PROVE  UNCHANGED <<held, drift>>
  BY <1>5, SlotStutter
     DEF ProbeAnswers, ProbeInvalid, Retry, RemoveInvalidToken, Goto, KeepSlots, request,
         TypeOK, Holding
<1>6. ASSUME NEW w \in Workers, Charge(w) \/ Fail(w)
      PROVE  UNCHANGED <<held, drift>>
  BY <1>6, SlotStutter DEF Charge, Fail, Goto, Finish, KeepSlots, TypeOK, Holding
<1>9. ASSUME NEW w \in Workers, VerdictUnsaved(w) \/ ReleaseAgain(w) PROVE FALSE
  BY <1>9 DEF VerdictUnsaved, ReleaseAgain
<1>7. CASE AdminStep
  BY <1>7, SlotStutter
     DEF AdminStep, Import, Update, Delete, DeleteLimited, Replace, KeepSlots, request
<1>8. CASE UNCHANGED vars
  BY <1>8 DEF vars, held
<1> QED
  BY <1>1, <1>2, <1>3, <1>4, <1>5, <1>6, <1>7, <1>8, <1>9 DEF Next, WorkerStep

\* Without deletions and failing saves, the pool grants a slot only while fewer
\* than Limit are held or lost, and takes each back at most once.
THEOREM PoolImplementsSlots ==
    ASSUME ~DeletionsHappen, ~AutoRemoveInvalid, ~SavesFail
    PROVE  Spec => ImplementsSlots
<1> DEFINE Counted == (\A w \in Workers : pc[w] # "again") /\ \A t \in Tokens : drift[t] >= 0
<1>1. Init => Slots!Init
  BY DEF Init, Slots!Init, Holding
<1>2. Inductive /\ Counted /\ [Next]_vars => [Slots!Next]_<<held, drift>>
  BY SlotStep
<1>3. Spec => []Counted
  BY DriftNotNegative
<1> QED
  BY <1>1, <1>2, <1>3, PoolInvariant, PTL DEF Spec, ImplementsSlots, Slots!Spec, held
=============================================================================
