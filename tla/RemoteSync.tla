----------------------------- MODULE RemoteSync -----------------------------
(***************************************************************************)
(* services/remote_account_service.py: an administrator syncs a source; the *)
(* request's thread marks the source's job, fetches the payload and merges  *)
(* it into the accounts or replaces the source's accounts by it.  Several   *)
(* requests may sync one source at once.                                    *)
(***************************************************************************)
CONSTANTS Syncs,   \* requests that sync the source
          Tokens   \* accounts

VARIABLES owner,     \* where the pool has an account from: remote_source_id
          syncJob,   \* the status of the source's import_job
          spc,       \* what the thread of a sync does
          strategy,  \* the sync_strategy it read with the source
          payload,   \* the accounts the source answered with
          listed,    \* accounts the source has ever answered with
          manual,    \* accounts an administrator imported and did not delete
          halted     \* the job's file could not be written when a sync began

syncVars == <<owner, syncJob, spc, strategy, payload, listed, manual, halted>>

Present(t) == owner[t] # "none"

SyncInit ==
    /\ owner = [t \in Tokens |-> "none"]
    /\ syncJob = "none"
    /\ spc = [s \in Syncs |-> "new"]
    /\ strategy = [s \in Syncs |-> "merge"]
    /\ payload = [s \in Syncs |-> {}]
    /\ listed = {} /\ manual = {}
    /\ halted = FALSE

SyncTo(s, where) == spc' = [spc EXCEPT ![s] = where]

\* sync_source up to the fetch: it reads the source, then set_import_job changes the job in memory
\* before it writes the file; an exception leaves the sync there, before the
\* try block that would mark the job failed.  A source deleted meanwhile has no
\* job, and the sync goes on.
BeginSync(s, how, saves) ==
    /\ spc[s] = "new"
    /\ strategy' = [strategy EXCEPT ![s] = how]
    /\ syncJob' = IF syncJob = "gone" THEN "gone" ELSE "running"
    /\ SyncTo(s, IF saves \/ syncJob = "gone" THEN "fetch" ELSE "over")
    /\ halted' = (~saves /\ syncJob # "gone")
    /\ UNCHANGED <<owner, payload, listed, manual>>

\* fetch_source_payload and normalize_remote_account_payload: the accounts that
\* are valid, or an exception.
FetchPayload(s, tokens) ==
    /\ spc[s] = "fetch"
    /\ payload' = [payload EXCEPT ![s] = tokens]
    /\ listed' = listed \union tokens
    /\ SyncTo(s, "inject")
    /\ UNCHANGED <<owner, syncJob, strategy, manual, halted>>

FetchFails(s) ==
    /\ spc[s] = "fetch"
    /\ SyncTo(s, "failed")
    /\ UNCHANGED <<owner, syncJob, strategy, payload, listed, manual, halted>>

Merged(tokens) == [t \in Tokens |-> IF t \in tokens THEN "remote" ELSE owner[t]]
\* Mutant: a replacement drops every account that is not in the payload.
ReplacedAll(tokens) == [t \in Tokens |-> IF t \in tokens THEN "remote" ELSE "none"]

Replaced(tokens) ==
    [t \in Tokens |-> IF t \in tokens THEN "remote"
                      ELSE IF owner[t] = "remote" THEN "none" ELSE owner[t]]

\* inject_payload.  An empty payload replaces nothing.  When the accounts
\* cannot be saved a merge has already changed them, a replacement has not.
Inject(s, saves) ==
    /\ spc[s] = "inject"
    /\ LET refused == strategy[s] = "replace" /\ payload[s] = {} IN
       /\ owner' = CASE refused -> owner
                     [] ~refused /\ strategy[s] = "merge" -> Merged(payload[s])
                     [] ~refused /\ strategy[s] = "replace" ->
                            IF saves THEN Replaced(payload[s]) ELSE owner
       /\ SyncTo(s, IF refused \/ ~saves THEN "failed" ELSE "success")
    /\ UNCHANGED <<syncJob, strategy, payload, listed, manual, halted>>

\* The job's last update, in memory even when the file cannot be written.
EndSync(s) ==
    /\ spc[s] \in {"failed", "success"}
    /\ syncJob' = IF syncJob = "gone" THEN "gone" ELSE spc[s]
    /\ SyncTo(s, "over")
    /\ payload' = [payload EXCEPT ![s] = {}]
    /\ halted' = FALSE
    /\ UNCHANGED <<owner, strategy, listed, manual>>

\* update_source normalises the job with the source; delete_source drops both.
EditRemoteSource ==
    /\ syncJob # "gone"
    /\ syncJob' = IF syncJob = "running" THEN "failed" ELSE syncJob
    /\ halted' = FALSE
    /\ UNCHANGED <<owner, spc, strategy, payload, listed, manual>>

DeleteRemoteSource ==
    /\ syncJob' = "gone" /\ halted' = FALSE
    /\ UNCHANGED <<owner, spc, strategy, payload, listed, manual>>

\* An import of the account, which keeps the source it came from before, and
\* its deletion.
ImportAccount(t) ==
    /\ owner' = [owner EXCEPT ![t] = IF Present(t) THEN @ ELSE "manual"]
    /\ manual' = manual \union {t}
    /\ UNCHANGED <<syncJob, spc, strategy, payload, listed, halted>>

DeleteAccount(t) ==
    /\ Present(t)
    /\ owner' = [owner EXCEPT ![t] = "none"]
    /\ manual' = manual \ {t}
    /\ UNCHANGED <<syncJob, spc, strategy, payload, listed, halted>>

\* The process ends.  The file has the job of the last write that did not fail,
\* whichever that was, and _load fails an unfinished one.
SyncRestart ==
    /\ syncJob' \in {"none", "failed", "success", "gone"}
    /\ spc' = [s \in Syncs |-> IF spc[s] = "new" THEN "new" ELSE "over"]
    /\ payload' = [s \in Syncs |-> {}]
    /\ halted' = FALSE
    /\ UNCHANGED <<owner, strategy, listed, manual>>

SyncNext ==
    \/ \E s \in Syncs, how \in {"merge", "replace"}, saves \in BOOLEAN : BeginSync(s, how, saves)
    \/ \E s \in Syncs, saves \in BOOLEAN : Inject(s, saves)
    \/ \E s \in Syncs, tokens \in SUBSET Tokens : FetchPayload(s, tokens)
    \/ \E s \in Syncs : FetchFails(s) \/ EndSync(s)
    \/ \E t \in Tokens : ImportAccount(t) \/ DeleteAccount(t)
    \/ EditRemoteSource \/ DeleteRemoteSource \/ SyncRestart

SyncSpec == SyncInit /\ [][SyncNext]_syncVars

-----------------------------------------------------------------------------
\* A sync, a replacement included, takes away no account that an administrator
\* imported unless the source itself listed it at some time (which makes the
\* account the source's own).
ManualAccountsKept == \A t \in manual \ listed : Present(t)
=============================================================================
