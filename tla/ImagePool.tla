------------------------------ MODULE ImagePool ------------------------------
(***************************************************************************)
(* The GPT image account pool: services/account_service.py (image slots,   *)
(* account updates, deletion) and the request loop that uses it,           *)
(* services/providers/gpt/runtime.py:stream_image_outputs_with_pool.       *)
(*                                                                         *)
(* A request thread asks for an account (get_available_access_token),      *)
(* which takes a slot under the lock, asks the upstream about the account  *)
(* WITHOUT the lock, and then generates with it.  Every section the code   *)
(* runs under AccountService._lock is one action; between two of them any  *)
(* other request, the refresh thread or an administrator may act.          *)
(*                                                                         *)
(* Which of the free accounts is taken (dict order and _index) is left     *)
(* open: any of them.                                                      *)
(***************************************************************************)
EXTENDS Integers, FiniteSets

CONSTANTS
    Workers,               \* request threads
    Tokens,                \* access tokens of GPT accounts
    NoToken,               \* "no token yet"
    Limit,                 \* image_account_concurrency, at least 1
    MaxQuota,              \* bound: largest image quota upstream reports
    MaxImages,             \* bound: largest n of a request
    AutoRemoveLimited,     \* auto_remove_rate_limited_accounts
    AutoRemoveInvalid,     \* auto_remove_invalid_accounts
    AbandonsHappen,        \* polls time out, clients hang up
    DeletionsHappen,       \* accounts are deleted or replaced meanwhile
    SavesFail              \* _save_accounts may raise

ASSUME PoolAssumption ==
    /\ IsFiniteSet(Workers)
    /\ NoToken \notin Tokens
    /\ Limit \in Nat \ {0}
    /\ MaxQuota \in Nat \ {0}
    /\ MaxImages \in Nat \ {0}
    /\ {AutoRemoveLimited, AutoRemoveInvalid} \subseteq BOOLEAN
    /\ {AbandonsHappen, DeletionsHappen, SavesFail} \subseteq BOOLEAN

VARIABLES
    accounts,    \* _accounts["gpt"]: token -> account
    inflight,    \* _image_inflight: token -> slots counted (0: no entry)
    pc,          \* where each request thread is
    tok,         \* the token it works with
    attempted,   \* attempted_tokens of stream_image_outputs_with_pool
    tried,       \* attempted_tokens of get_available_access_token
    todo,        \* images the request has still to produce
    drift        \* history: token -> counted slots that nobody holds (lost
                 \* for ever), or, negative, held slots that are not counted

request == <<tok, attempted, tried, todo>>
vars == <<accounts, inflight, pc, tok, attempted, tried, todo, drift>>

-----------------------------------------------------------------------------
(* Accounts.  "abnormal" stands for every other unavailable status (异常,   *)
(* 禁用); quota Unknown for image_quota_unknown.                            *)

Unknown == -1
Quotas == {Unknown} \cup (0 .. MaxQuota)
Gone == [status |-> "gone", quota |-> 0]
Present == [status : {"normal", "limited", "abnormal"}, quota : Quotas]
Account == Present \cup {Gone}

Available(a) == a.status = "normal" /\ a.quota # 0

\* Mutant: the account is written back without looking it up again.
UpdatedBlindly(a, b) ==
    IF b.status = "limited" /\ AutoRemoveLimited THEN Gone ELSE b

\* _update_account_locked: what becomes of account a when it is set to b.
Updated(a, b) ==
    IF a = Gone \/ (b.status = "limited" /\ AutoRemoveLimited) THEN Gone ELSE b

\* get_user_info: what the upstream says of an account.
RemoteInfo ==
    {[status |-> "normal", quota |-> q] : q \in Quotas \ {0}}
        \cup {[status |-> "limited", quota |-> q] : q \in {0, Unknown}}

\* _normalize_account of a payload that gives no status and no quota.
Fresh == [status |-> "normal", quota |-> 0]

\* What a payload, an administrator or a refresh makes of an account.
Input == RemoteInfo \cup {[status |-> "abnormal", quota |-> 0]}

\* update_account(token, {"status": "异常", "quota": 0}).
Invalidated(a) ==
    Updated(a, [status |-> "abnormal",
                quota |-> IF a.quota = Unknown THEN Unknown ELSE 0])

\* mark_image_result: the account after a success, after a failure.
Charged(a) ==
    LET q == IF a.quota > 0 THEN a.quota - 1 ELSE a.quota
        s == IF q = 0 THEN "limited"
             ELSE IF a.status = "limited" THEN "normal" ELSE a.status
    IN  Updated(a, [status |-> s, quota |-> q])
Failed(a) == Updated(a, a)

-----------------------------------------------------------------------------
(* Slots *)

Holding == {"probe", "release", "generate"}
Holders(t) == {w \in Workers : tok[w] = t /\ pc[w] \in Holding}

\* _list_ready_candidate_tokens.
Ready(excluded) == {t \in Tokens \ excluded : Available(accounts[t])}

\* Mutant: one request too many per account.
FreeOffByOne(excluded) == {t \in Ready(excluded) : inflight[t] <= Limit}

\* _list_available_candidate_tokens.
Free(excluded) == {t \in Ready(excluded) : inflight[t] < Limit}

\* w goes on at next and every waiter is notified.
Notify(w, next) ==
    pc' = [v \in Workers |->
             IF v = w THEN next
             ELSE IF pc[v] = "waiting" THEN "acquire" ELSE pc[v]]

\* Mutant: the count is decremented without a floor.
ReleaseNoFloor(w, next) ==
    /\ inflight' = [inflight EXCEPT ![tok[w]] = @ - 1]
    /\ Notify(w, next)
    /\ UNCHANGED drift

\* release_image_slot by w, which holds a slot and goes on at next.
Release(w, next) ==
    LET t == tok[w] IN
    /\ inflight' = [inflight EXCEPT ![t] = IF @ <= 1 THEN 0 ELSE @ - 1]
    /\ drift' = [drift EXCEPT ![t] = IF inflight[t] = 0 THEN @ + 1 ELSE @]
    /\ Notify(w, next)

\* The entries of _image_inflight popped together with deleted accounts.
DropSlots(S) ==
    /\ inflight' = [t \in Tokens |-> IF t \in S THEN 0 ELSE inflight[t]]
    /\ drift' = [t \in Tokens |-> IF t \in S THEN -Cardinality(Holders(t)) ELSE drift[t]]

Goto(w, next) == pc' = [pc EXCEPT ![w] = next]
KeepSlots == UNCHANGED <<inflight, drift>>

Finish(w) ==   \* the generator returns or raises: the request is over
    /\ tok' = [tok EXCEPT ![w] = NoToken]
    /\ attempted' = [attempted EXCEPT ![w] = {}]
    /\ tried' = [tried EXCEPT ![w] = {}]
    /\ todo' = [todo EXCEPT ![w] = 0]

-----------------------------------------------------------------------------
(* Request threads *)

\* A request for n images starts; for each image the loop begins with an
\* empty attempted_tokens.
Start(w) ==
    /\ pc[w] = "idle"
    /\ \E n \in 1 .. MaxImages : todo' = [todo EXCEPT ![w] = n]
    /\ Goto(w, "acquire")
    /\ UNCHANGED <<accounts, tok, attempted, tried>> /\ KeepSlots

\* _acquire_next_candidate_token: nothing ready, RuntimeError ends the request.
Exhausted(w) ==
    /\ pc[w] = "acquire"
    /\ Ready(tried[w]) = {}
    /\ Goto(w, "idle")
    /\ Finish(w)
    /\ UNCHANGED accounts /\ KeepSlots

\* _acquire_next_candidate_token: a free account is taken.
Take(w, t) ==
    /\ pc[w] = "acquire"
    /\ t \in Free(tried[w])
    /\ inflight' = [inflight EXCEPT ![t] = @ + 1]
    /\ tok' = [tok EXCEPT ![w] = t]
    /\ tried' = [tried EXCEPT ![w] = @ \cup {t}]
    /\ Goto(w, "probe")
    /\ UNCHANGED <<accounts, attempted, todo, drift>>

\* _acquire_next_candidate_token: every ready account is busy, the thread
\* waits on _image_slot_condition for at most a second.
Wait(w) ==
    /\ pc[w] = "acquire"
    /\ Ready(tried[w]) # {} /\ Free(tried[w]) = {}
    /\ Goto(w, "waiting")
    /\ UNCHANGED <<accounts, request>> /\ KeepSlots

WaitExpires(w) ==
    /\ pc[w] = "waiting"
    /\ Goto(w, "acquire")
    /\ UNCHANGED <<accounts, request>> /\ KeepSlots

\* fetch_remote_info answers: the account is updated (unless it was deleted
\* meanwhile) and kept if it is still available.
ProbeAnswers(w) ==
    /\ pc[w] = "probe"
    /\ \E info \in RemoteInfo :
         LET a == Updated(accounts[tok[w]], info) IN
         /\ accounts' = [accounts EXCEPT ![tok[w]] = a]
         /\ Goto(w, IF Available(a) THEN "generate" ELSE "release")
    /\ UNCHANGED request /\ KeepSlots

\* fetch_remote_info raises anything but InvalidAccessTokenError.
ProbeFails(w) ==
    /\ pc[w] = "probe"
    /\ Release(w, "acquire")
    /\ UNCHANGED <<accounts, request>>

\* remove_invalid_token, and where the thread goes from there.
RemoveInvalidToken(w, next) ==
    LET t == tok[w] IN
    /\ IF AutoRemoveInvalid
       THEN /\ accounts' = [accounts EXCEPT ![t] = Gone]
            /\ DropSlots({t})
       ELSE /\ accounts' = [accounts EXCEPT ![t] = Invalidated(@)]
            /\ KeepSlots
    /\ Goto(w, next)

\* fetch_remote_info raises InvalidAccessTokenError: the account is removed
\* before the exception reaches get_available_access_token.
ProbeInvalid(w) ==
    /\ pc[w] = "probe"
    /\ RemoveInvalidToken(w, "release")
    /\ UNCHANGED request

\* get_available_access_token gives the slot back and tries the next account.
ReleaseProbed(w) ==
    /\ pc[w] = "release"
    /\ Release(w, "acquire")
    /\ UNCHANGED <<accounts, request>>

\* Mutant: an error ends the request without releasing the slot.
GenerateEndsNoRelease(w) ==
    /\ pc[w] = "generate"
    /\ \/ \E verdict \in {"charge", "message", "invalid"} : Release(w, verdict)
       \/ Goto(w, "fail") /\ KeepSlots
    /\ UNCHANGED <<accounts, request>>

\* mark_image_result, first lock section: the slot is released, whatever the
\* verdict.  "charge": an image was produced.  "message": a message or no result
\* ends the request.  "fail": an error does.  "invalid": the token was refused
\* before any output.
GenerateEnds(w) ==
    /\ pc[w] = "generate"
    /\ \E verdict \in {"charge", "message", "fail", "invalid"} : Release(w, verdict)
    /\ UNCHANGED <<accounts, request>>

\* ImagePollTimeoutError is re-raised, the client hangs up (GeneratorExit) or
\* the backend cannot be constructed: no handler releases the slot.
Abandon(w) ==
    /\ AbandonsHappen
    /\ pc[w] = "generate"
    /\ drift' = [drift EXCEPT ![tok[w]] = @ + 1]
    /\ Goto(w, "idle")
    /\ Finish(w)
    /\ UNCHANGED <<accounts, inflight>>

\* mark_image_result, second lock section, after a success: quota is charged
\* and the next image of the request begins.
Charge(w) ==
    /\ pc[w] = "charge"
    /\ accounts' = [accounts EXCEPT ![tok[w]] = Charged(@)]
    /\ IF todo[w] = 1
       THEN Goto(w, "idle") /\ Finish(w)
       ELSE /\ Goto(w, "acquire")
            /\ todo' = [todo EXCEPT ![w] = @ - 1]
            /\ tok' = [tok EXCEPT ![w] = NoToken]
            /\ attempted' = [attempted EXCEPT ![w] = {}]
            /\ tried' = [tried EXCEPT ![w] = {}]
    /\ KeepSlots

\* _save_accounts raises in the second lock section of a mark_image_result
\* that the try block calls: the account has changed in memory, and
\* "except Exception" calls mark_image_result again.
VerdictUnsaved(w) ==
    /\ SavesFail
    /\ pc[w] \in {"charge", "message"}
    /\ accounts' = [accounts EXCEPT ![tok[w]] =
                        IF pc[w] = "charge" THEN Charged(@) ELSE Failed(@)]
    /\ Goto(w, "again")
    /\ UNCHANGED request /\ KeepSlots

\* That second call releases a slot once more: somebody else's, if one is counted.
ReleaseAgain(w) ==
    LET t == tok[w] IN
    /\ pc[w] = "again"
    /\ inflight' = [inflight EXCEPT ![t] = IF @ <= 1 THEN 0 ELSE @ - 1]
    /\ drift' = [drift EXCEPT ![t] = IF inflight[t] = 0 THEN @ ELSE @ - 1]
    /\ Notify(w, "fail")
    /\ UNCHANGED <<accounts, request>>

\* mark_image_result, second lock section, after a failure.
Fail(w) ==
    /\ pc[w] \in {"message", "fail", "invalid"}
    /\ accounts' = [accounts EXCEPT ![tok[w]] = Failed(@)]
    /\ IF pc[w] # "invalid"
       THEN Goto(w, "idle") /\ Finish(w)
       ELSE /\ Goto(w, "remove")
            /\ attempted' = [attempted EXCEPT ![w] = @ \cup {tok[w]}]
            /\ UNCHANGED <<tok, tried, todo>>
    /\ KeepSlots

\* Mutant: the next acquisition forgets which tokens were refused.
RetryForgetful(w) ==
    /\ pc[w] = "remove"
    /\ RemoveInvalidToken(w, "acquire")
    /\ tok' = [tok EXCEPT ![w] = NoToken]
    /\ tried' = [tried EXCEPT ![w] = {}]
    /\ UNCHANGED <<attempted, todo>>

\* The refused token is removed and get_available_access_token called anew
\* with attempted_tokens excluded.
Retry(w) ==
    /\ pc[w] = "remove"
    /\ RemoveInvalidToken(w, "acquire")
    /\ tok' = [tok EXCEPT ![w] = NoToken]
    /\ tried' = [tried EXCEPT ![w] = attempted[w]]
    /\ UNCHANGED <<attempted, todo>>

WorkerStep(w) ==
    \/ Exhausted(w) \/ Wait(w) \/ WaitExpires(w)
    \/ \E t \in Tokens : Take(w, t)
    \/ ProbeAnswers(w) \/ ProbeFails(w) \/ ProbeInvalid(w) \/ ReleaseProbed(w)
    \/ GenerateEnds(w) \/ VerdictUnsaved(w) \/ ReleaseAgain(w)
    \/ Charge(w) \/ Fail(w) \/ Retry(w)

-----------------------------------------------------------------------------
(* Administrators, importers and the refresh thread *)

\* add_accounts, add_account_items: a new account.  (A payload merged into an
\* account that exists changes it as Update does, or not at all.)
Import(t) ==
    /\ accounts[t] = Gone
    /\ accounts' = [accounts EXCEPT ![t] = Fresh]
    /\ UNCHANGED <<pc, request>> /\ KeepSlots

\* update_account, by an administrator or with the answer of refresh_accounts.
Update(t) ==
    /\ \E a \in Input : accounts' = [accounts EXCEPT ![t] = Updated(@, a)]
    /\ UNCHANGED <<pc, request>> /\ KeepSlots

\* delete_accounts.
Delete(t) ==
    /\ DeletionsHappen
    /\ accounts' = [accounts EXCEPT ![t] = Gone]
    /\ DropSlots({t})
    /\ UNCHANGED <<pc, request>>

\* delete_limited_accounts.
DeleteLimited ==
    LET limited == {t \in Tokens : accounts[t].status = "limited"} IN
    /\ DeletionsHappen
    /\ accounts' = [t \in Tokens |-> IF t \in limited THEN Gone ELSE accounts[t]]
    /\ DropSlots(limited)
    /\ UNCHANGED <<pc, request>>

\* replace_account_items_for_remote_source: the accounts of the source are
\* replaced by a non-empty payload, merged into the accounts that stay; only
\* tokens missing from the result lose their slots.
Replace(source, payload) ==
    LET kept == {t \in Tokens \ source : accounts[t] # Gone} IN
    /\ DeletionsHappen
    /\ accounts' = [t \in Tokens |-> IF t \in kept THEN accounts[t]
                                     ELSE IF t \in payload THEN Fresh ELSE Gone]
    /\ DropSlots(Tokens \ (kept \cup payload))
    /\ UNCHANGED <<pc, request>>

AdminStep ==
    \/ \E t \in Tokens : Import(t) \/ Update(t) \/ Delete(t)
    \/ DeleteLimited
    \/ \E source \in SUBSET {t \in Tokens : accounts[t] # Gone},
          payload \in (SUBSET Tokens) \ {{}} :
          Replace(source, payload)

-----------------------------------------------------------------------------
Init ==
    /\ accounts \in [Tokens -> {Gone, [status |-> "normal", quota |-> 1]}]
    /\ inflight = [t \in Tokens |-> 0]
    /\ pc = [w \in Workers |-> "idle"]
    /\ tok = [w \in Workers |-> NoToken]
    /\ attempted = [w \in Workers |-> {}]
    /\ tried = [w \in Workers |-> {}]
    /\ todo = [w \in Workers |-> 0]
    /\ drift = [t \in Tokens |-> 0]

Next ==
    \/ \E w \in Workers : Start(w) \/ Abandon(w) \/ WorkerStep(w)
    \/ AdminStep

Spec == Init /\ [][Next]_vars

\* Upstream calls end (they have timeouts), waits expire after a second and a
\* thread that holds the lock leaves it: each request thread keeps moving.  No
\* fairness between the threads: Condition.notify_all promises none.
FairSpec == Spec /\ \A w \in Workers : WF_vars(WorkerStep(w))

-----------------------------------------------------------------------------
(* Properties *)

PCs == {"idle", "acquire", "waiting", "probe", "release", "generate",
        "charge", "message", "fail", "invalid", "again", "remove"}

\* The state has its type; in particular no slot count drops below zero, even
\* when a slot is released after the deletion of its account (account_service
\* release_image_slot, delete_accounts).
TypeOK ==
    /\ accounts \in [Tokens -> Account]
    /\ inflight \in [Tokens -> 0 .. Limit]
    /\ pc \in [Workers -> PCs]
    /\ tok \in [Workers -> Tokens \cup {NoToken}]
    /\ attempted \in [Workers -> SUBSET Tokens]
    /\ tried \in [Workers -> SUBSET Tokens]
    /\ todo \in [Workers -> 0 .. MaxImages]
    /\ drift \in [Tokens -> Int]

\* A thread past the acquisition works with a token it has tried, which
\* includes all those its request has attempted, and has images to produce.
RequestShape ==
    \A w \in Workers :
        /\ pc[w] \notin {"idle", "acquire", "waiting"} => tok[w] \in tried[w]
        /\ pc[w] # "idle" => todo[w] >= 1
        /\ attempted[w] \subseteq tried[w]

\* Every slot is accounted for: what _image_inflight counts for a token is what
\* requests hold, but for the drift.  Only four steps change the drift: a
\* deletion drops the count of slots in use, a generation is abandoned, a slot
\* is released after its count was dropped, a slot is released twice.  Every
\* other path of the request loop gives back each slot it took exactly once,
\* however deletions and re-imports interleave with it.
SlotAccounting ==
    \A t \in Tokens : inflight[t] = Cardinality(Holders(t)) + drift[t]

\* An account serves more than image_account_concurrency requests at a time
\* only while slots in use are uncounted, and at most that many more.
BoundedOvercommit ==
    \A t \in Tokens : Cardinality(Holders(t)) > Limit
        => drift[t] < 0 /\ Cardinality(Holders(t)) <= Limit - drift[t]

\* Within one image of one request, an account refused as invalid is never
\* taken again, even when it is imported anew meanwhile (attempted_tokens of
\* stream_image_outputs_with_pool, passed down to every acquisition).
SkipsRefused ==
    \A w \in Workers :
        pc[w] \in Holding \cup {"charge", "message", "fail", "invalid", "again"}
            => tok[w] \notin attempted[w]

\* The inductive invariant behind the safety properties.
Inductive == TypeOK /\ RequestShape /\ SlotAccounting /\ SkipsRefused

\* A result that arrives after its account was deleted does not bring the
\* account back: only an import or a replacement does (update_account and
\* mark_image_result look the account up again under the lock).
DeletedStaysDeleted ==
    [][(\E w \in Workers : WorkerStep(w)) \/ (\E t \in Tokens : Update(t))
          => \A t \in Tokens : accounts[t] = Gone => accounts'[t] = Gone]_vars

\* Once no further requests arrive, every request ends: it succeeds, fails, or
\* finds the pool exhausted.  None waits for a slot for ever.
Drains ==
    <>[][\A w \in Workers : ~Start(w)]_vars
        => <>[](\A w \in Workers : pc[w] = "idle")

\* README.md: image_account_concurrency is the number of requests an account
\* serves concurrently.
ConcurrencyLimit == \A t \in Tokens : Cardinality(Holders(t)) <= Limit

\* What the pool promises as a bank of slots, while no account is deleted and
\* every save succeeds.
Slots == INSTANCE ImageSlots WITH
    holds <- [w \in Workers |-> IF pc[w] \in Holding THEN tok[w] ELSE NoToken],
    lost <- drift

\* In that case the pool implements the bank of slots: it grants a slot
\* only while fewer than Limit are held or lost, and each is given back at
\* most once.
ImplementsSlots == Slots!Spec
=============================================================================
