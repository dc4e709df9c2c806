------------------------------- MODULE Backup -------------------------------
(***************************************************************************)
(* services/backup_service.py: a scheduler thread and administrators start  *)
(* backups; one runs at a time.  A backup uploads an object to the R2       *)
(* bucket, deletes the objects beyond the newest Keep and writes how it     *)
(* ended to the state file.  stop waits two seconds for the scheduler, so a *)
(* stop and a start may leave two schedulers.                               *)
(***************************************************************************)
EXTENDS Naturals, FiniteSets

CONSTANTS Schedulers,   \* scheduler threads, the ones left by stop included
          Admins,       \* threads of administrators' requests
          Keep,         \* rotation_keep; 0 keeps everything
          MaxObjects    \* bound: objects ever uploaded

VARIABLES running,  \* self._running
          bpc,      \* what a thread is doing
          held,     \* the last_object_key its run_backup read when it began
          mine,     \* the object it uploaded; 0: none yet
          doomed,   \* the objects its rotation still has to delete
          state,    \* backup_state.json: the status and the last object
          bucket,   \* the objects of the bucket; a later one has a larger number
          uploads,  \* objects ever uploaded
          removed,  \* objects an administrator deleted
          wedged    \* the state could not be written when a backup began

backupVars == <<running, bpc, held, mine, doomed, state, bucket, uploads, removed, wedged>>

Threads == Schedulers \union Admins
InProgress(t) == bpc[t] \notin {"idle", "due"}
NotUploaded == 0

BackupInit ==
    /\ running = FALSE /\ wedged = FALSE
    /\ bpc = [t \in Threads |-> "idle"]
    /\ held = [t \in Threads |-> NotUploaded]
    /\ mine = [t \in Threads |-> NotUploaded]
    /\ doomed = [t \in Threads |-> {}]
    /\ state = [status |-> "idle", key |-> NotUploaded]
    /\ bucket = {} /\ uploads = 0 /\ removed = {}

To(t, where) == bpc' = [bpc EXCEPT ![t] = where]
State(status, key) == state' = [status |-> status, key |-> key]

\* run_scheduled_backup_if_needed, up to its call of run_backup: backups are
\* enabled, none is running and the interval has passed since the last one.
Check(t) ==
    /\ t \in Schedulers /\ bpc[t] = "idle"
    /\ ~running
    /\ To(t, "due")
    /\ UNCHANGED <<running, held, mine, doomed, state, bucket, uploads, removed, wedged>>

\* The locked part of run_backup.  It refuses when a backup runs; when the
\* state cannot be written it raises after running is set.
BeginBackup(t, saves) ==
    /\ bpc[t] = IF t \in Schedulers THEN "due" ELSE "idle"
    /\ IF running
       THEN /\ To(t, "idle")
            /\ UNCHANGED <<running, held, state, wedged>>
       ELSE /\ running' = TRUE
            /\ held' = [held EXCEPT ![t] = state.key]
            /\ IF saves THEN To(t, "upload") /\ State("idle", state.key) /\ UNCHANGED wedged
                        ELSE To(t, "idle") /\ UNCHANGED state /\ wedged' = TRUE
    /\ UNCHANGED <<mine, doomed, bucket, uploads, removed>>

\* _run_backup_once up to the upload; the archive, the encryption or the
\* request may fail, the last one after the bucket took the object.
UploadBackup(t, stored, answered) ==
    /\ bpc[t] = "upload"
    /\ answered => stored
    /\ IF stored
       THEN /\ uploads < MaxObjects
            /\ uploads' = uploads + 1
            /\ bucket' = bucket \union {uploads + 1}
            /\ mine' = [mine EXCEPT ![t] = uploads + 1]
       ELSE UNCHANGED <<uploads, bucket, mine>>
    /\ To(t, IF answered THEN "rotate" ELSE "failed")
    /\ UNCHANGED <<running, held, doomed, state, removed, wedged>>

\* list_objects, newest first; the backups after the first Keep are deleted.
Newer(k) == {o \in bucket : o > k}
\* Mutant: the newest Keep objects are counted without the object itself.
SurplusEarly == IF Keep = 0 THEN {} ELSE {k \in bucket : Cardinality(Newer(k)) >= Keep - 1}

Surplus == IF Keep = 0 THEN {} ELSE {k \in bucket : Cardinality(Newer(k)) >= Keep}

Rotate(t, answered) ==
    /\ bpc[t] = "rotate"
    /\ doomed' = [doomed EXCEPT ![t] = IF answered THEN Surplus ELSE {}]
    /\ To(t, IF answered THEN "delete" ELSE "failed")
    /\ UNCHANGED <<running, held, mine, state, bucket, uploads, removed, wedged>>

\* _apply_rotation deletes one object after the other; one that is gone is no
\* error, any other failure ends the rotation.
DeleteNext(t, answered) ==
    /\ bpc[t] = "delete" /\ doomed[t] # {}
    /\ \E k \in doomed[t] :
          /\ \A o \in doomed[t] : o <= k
          /\ bucket' = IF answered THEN bucket \ {k} ELSE bucket
          /\ doomed' = [doomed EXCEPT ![t] = IF answered THEN @ \ {k} ELSE {}]
    /\ To(t, IF answered THEN "delete" ELSE "failed")
    /\ UNCHANGED <<running, held, mine, state, uploads, removed, wedged>>

\* run_backup writes the outcome; a success that cannot be written is handled
\* as a failure.
Succeed(t, saves) ==
    /\ bpc[t] = "delete" /\ doomed[t] = {}
    /\ IF saves THEN State("success", mine[t]) /\ To(t, "release")
                ELSE UNCHANGED state /\ To(t, "failed")
    /\ UNCHANGED <<running, held, mine, doomed, bucket, uploads, removed, wedged>>

Fail(t, saves) ==
    /\ bpc[t] = "failed"
    /\ IF saves THEN State("error", held[t]) ELSE UNCHANGED state
    /\ To(t, "release")
    /\ UNCHANGED <<running, held, mine, doomed, bucket, uploads, removed, wedged>>

\* Mutant: the running flag is only reset after a success.
ReleaseSuccess(t) ==
    /\ bpc[t] = "release"
    /\ running' = (state.status # "success")
    /\ To(t, "idle")
    /\ held' = [held EXCEPT ![t] = NotUploaded] /\ mine' = [mine EXCEPT ![t] = NotUploaded]
    /\ UNCHANGED <<doomed, state, bucket, uploads, removed, wedged>>

\* The finally of run_backup.
Release(t) ==
    /\ bpc[t] = "release"
    /\ running' = FALSE
    /\ To(t, "idle")
    /\ held' = [held EXCEPT ![t] = NotUploaded] /\ mine' = [mine EXCEPT ![t] = NotUploaded]
    /\ UNCHANGED <<doomed, state, bucket, uploads, removed, wedged>>

\* delete_backup.
DeleteBackup(k) ==
    /\ k \in bucket
    /\ bucket' = bucket \ {k}
    /\ removed' = removed \union {k}
    /\ UNCHANGED <<running, bpc, held, mine, doomed, state, uploads, wedged>>

\* The process ends in the middle of whatever runs; the bucket and the state
\* file are what the next one finds.
BackupRestart ==
    /\ running' = FALSE /\ wedged' = FALSE
    /\ bpc' = [t \in Threads |-> "idle"]
    /\ held' = [t \in Threads |-> NotUploaded] /\ mine' = [t \in Threads |-> NotUploaded]
    /\ doomed' = [t \in Threads |-> {}]
    /\ UNCHANGED <<state, bucket, uploads, removed>>

Step(t) ==
    \/ \E saves \in BOOLEAN : Succeed(t, saves) \/ Fail(t, saves)
    \/ \E stored, answered \in BOOLEAN : UploadBackup(t, stored, answered)
    \/ \E answered \in BOOLEAN : Rotate(t, answered) \/ DeleteNext(t, answered)
    \/ Release(t)

BackupNext ==
    \/ \E t \in Threads : Check(t) \/ Step(t)
    \/ \E t \in Threads, saves \in BOOLEAN : BeginBackup(t, saves)
    \/ \E k \in bucket : DeleteBackup(k)
    \/ BackupRestart

BackupSpec == BackupInit /\ [][BackupNext]_backupVars

-----------------------------------------------------------------------------
\* However many schedulers stop and start left behind, one backup runs at a
\* time, and the running flag that refuses the next one is never left set, with
\* one exception: the state file could not be written when a backup began.
RunningIsReal ==
    /\ Cardinality({t \in Threads : InProgress(t)}) <= 1
    /\ running <=> (wedged \/ \E t \in Threads : InProgress(t))

\* The object that the state file reports as the last success is in the
\* bucket, whatever rotations, failed backups and crashes came before, unless
\* an administrator deleted it.
LastBackupKept ==
    (state.status = "success" /\ state.key \notin removed) => state.key \in bucket
=============================================================================
