----------------------------- MODULE ImportJob -----------------------------
(***************************************************************************)
(* The import jobs of services/cpa_service.py; services/sub2api_service.py  *)
(* runs the same steps.  start_import stores a job with the source it reads *)
(* from and starts a thread; the thread downloads one token per file, adds  *)
(* the accounts and keeps the job's counters up to date.  Every update of   *)
(* the job is two or three lock sections (get_import_job once or twice, then*)
(* set_import_job), and an administrator may edit or delete the source, or  *)
(* start another import of it, in between.                                  *)
(***************************************************************************)
EXTENDS Naturals, FiniteSetsExt

CONSTANTS Runs,  \* imports from the source, numbered in the order of their starts
          MaxNames, \* bound: names selected for all of them
          Faults    \* bound: writes of the file that fail

ASSUME ImportAssumption == Runs \subseteq Nat \ {0} /\ MaxNames \in Nat

VARIABLES importJob,     \* the source's import_job in memory; Gone when it is deleted
          jobFile, \* the same in cpa_config.json
          importPc,      \* where the thread of an import is
          todo,    \* which update of the job it is making
          size,    \* names selected for an import
          left,    \* downloads it waits for
          got,     \* tokens it downloaded
          seen,    \* the counter its first get_import_job returned
          snap,    \* the job _update_job read
          mixed,   \* two imports have written the job in memory
          mixedFile, \* the same of the job in the file
          faults   \* writes of the file that have failed

importVars == <<importJob, jobFile, importPc, todo, size, left, got, seen, snap, mixed, mixedFile, faults>>
jobVars == <<importJob, jobFile, mixed, mixedFile>>

Nobody == 0   \* the run of no job; Runs are positive numbers
NotEnded == {"pending", "running"}
Job(run, status, completed, errors) ==
    [run |-> run, status |-> status, completed |-> completed, errors |-> errors]
NoJob == Job(Nobody, "none", 0, 0)   \* get_import_job returned None
Gone  == Job(Nobody, "gone", 0, 0)
Here  == importJob # Gone

ImportInit ==
    /\ importJob = NoJob /\ jobFile = NoJob
    /\ importPc = [r \in Runs |-> "new"]
    /\ todo = [r \in Runs |-> "mark"]
    /\ size = [r \in Runs |-> 0] /\ left = size
    /\ got = [r \in Runs |-> 0]
    /\ seen = [r \in Runs |-> 0]
    /\ snap = [r \in Runs |-> NoJob]
    /\ mixed = FALSE /\ mixedFile = FALSE /\ faults = 0

\* _normalize_import_job with fail_unfinished: on loading the file and on
\* every edit of the source.
Normalized(j) == IF j.status \in NotEnded THEN Job(j.run, "failed", j.completed, j.errors) ELSE j

\* set_import_job and update_pool change the job in memory, then write the
\* file, which may raise.
Store(j, several, saves) ==
    /\ importJob' = j /\ mixed' = several
    /\ IF saves THEN jobFile' = j /\ mixedFile' = several /\ UNCHANGED faults
                ELSE UNCHANGED <<jobFile, mixedFile>> /\ faults < Faults /\ faults' = faults + 1

Go(r, where, what) == importPc' = [importPc EXCEPT ![r] = where] /\ todo' = [todo EXCEPT ![r] = what]

Active(r) == importPc[r] \notin {"new", "over", "died"}

\* start_import of n names, which answers 400 when the source is gone; when the file
\* cannot be written it raises before the thread exists.
StartImport(r, n, saves) ==
    /\ SumFunction(size) + n <= MaxNames
    /\ importPc[r] = "new" /\ \A q \in Runs : q < r => importPc[q] # "new"
    /\ IF Here
       THEN /\ Store(Job(r, "pending", 0, 0), \E q \in Runs : Active(q), saves)
            /\ IF saves THEN Go(r, "read", "mark") ELSE Go(r, "died", "mark")
       ELSE Go(r, "over", "mark") /\ UNCHANGED <<jobVars, faults>>
    /\ size' = [size EXCEPT ![r] = n] /\ left' = [left EXCEPT ![r] = n]
    /\ UNCHANGED <<got, seen, snap>>

\* What the thread does after an update of the job: an error is followed by
\* the count, a count by the next download.
After(r) ==
    \/ todo[r] = "error" /\ Go(r, "peek", "count")
    \/ todo[r] = "end" /\ Go(r, "over", "mark")
    \/ todo[r] \in {"mark", "count"} /\ Go(r, "fetch", todo[r])

\* The first get_import_job of _append_error and of _run_import.  The last update
\* of an import without a token counts the total of the job it finds.
Peek(r) ==
    /\ importPc[r] = "peek"
    /\ seen' = [seen EXCEPT ![r] = IF todo[r] = "error" THEN importJob.errors
                                   ELSE IF todo[r] = "count" THEN importJob.completed
                                   ELSE IF got[r] = 0 /\ Here THEN size[importJob.run]
                                   ELSE size[r]]
    /\ IF Here \/ todo[r] # "error" THEN Go(r, "read", todo[r]) ELSE After(r)
    /\ UNCHANGED <<jobVars, size, left, got, snap, faults>>

\* The get_import_job of _update_job.
Read(r) ==
    /\ importPc[r] = "read"
    /\ IF Here THEN Go(r, "write", todo[r]) ELSE After(r)
    /\ snap' = [snap EXCEPT ![r] = importJob]
    /\ UNCHANGED <<jobVars, size, left, got, seen, faults>>

\* The fields of the job as an update of it leaves them.
NewStatus(r) == IF todo[r] = "mark" THEN "running"
                ELSE IF todo[r] # "end" THEN snap[r].status
                ELSE IF got[r] = 0 THEN "failed" ELSE "completed"
NewCompleted(r) == IF todo[r] = "count" THEN seen[r] + 1
                   ELSE IF todo[r] = "end" THEN seen[r] ELSE snap[r].completed
NewErrors(r) == IF todo[r] = "error" THEN seen[r] + 1 ELSE snap[r].errors

\* Mutant: the last update counts the tokens that were downloaded.
WrittenShort(r) ==
    Job(snap[r].run, NewStatus(r), IF todo[r] = "end" THEN got[r] ELSE NewCompleted(r), NewErrors(r))

\* The job that _update_job writes over whatever the job has become.
Written(r) == Job(snap[r].run, NewStatus(r), NewCompleted(r), NewErrors(r))

\* set_import_job; the thread ends with the exception when the file cannot be
\* written.
Write(r, saves) ==
    /\ importPc[r] = "write"
    /\ IF Here THEN Store(Written(r), mixed \/ importJob.run # r, saves)
               ELSE UNCHANGED <<jobVars, faults>>
    /\ IF Here /\ ~saves THEN Go(r, "died", "mark") ELSE After(r)
    /\ seen' = [seen EXCEPT ![r] = 0] /\ snap' = [snap EXCEPT ![r] = NoJob]
    /\ UNCHANGED <<size, left, got>>

\* A download ends: fetch_remote_access_token returns a token or an error.
Fetch(r, ok) ==
    /\ importPc[r] = "fetch" /\ left[r] > 0
    /\ left' = [left EXCEPT ![r] = @ - 1]
    /\ got' = [got EXCEPT ![r] = IF ok THEN @ + 1 ELSE @]
    /\ Go(r, "peek", IF ok THEN "count" ELSE "error")
    /\ UNCHANGED <<jobVars, size, seen, snap, faults>>

\* add_accounts and refresh_accounts, skipped when there is no token; nothing
\* catches what they raise.
AddAccounts(r, raises) ==
    /\ importPc[r] = "fetch" /\ left[r] = 0
    /\ raises => got[r] > 0
    /\ IF raises THEN Go(r, "died", "mark") ELSE Go(r, "peek", "end")
    /\ UNCHANGED <<jobVars, size, left, got, seen, snap, faults>>

\* update_pool normalises the merged source, its job included.
EditSource(saves) ==
    /\ Here
    /\ Store(Normalized(importJob), mixed, saves)
    /\ UNCHANGED <<importPc, todo, size, left, got, seen, snap>>

\* delete_pool.
DeleteSource(saves) ==
    /\ Here
    /\ Store(Gone, FALSE, saves)
    /\ UNCHANGED <<importPc, todo, size, left, got, seen, snap>>

\* Mutant: the loaded job is taken as it is.
RestartRaw ==
    /\ importJob' = jobFile /\ mixed' = mixedFile /\ UNCHANGED <<jobFile, mixedFile>>
    /\ importPc' = [r \in Runs |-> IF importPc[r] = "new" THEN "new" ELSE "over"]
    /\ seen' = [r \in Runs |-> 0] /\ snap' = [r \in Runs |-> NoJob]
    /\ todo' = [r \in Runs |-> "mark"]
    /\ UNCHANGED <<size, left, got, faults>>

\* The process ends with its daemon threads; CPAConfig._load normalises.
RestartImports ==
    /\ importJob' = Normalized(jobFile) /\ mixed' = mixedFile
    /\ UNCHANGED <<jobFile, mixedFile>>
    /\ importPc' = [r \in Runs |-> IF importPc[r] = "new" THEN "new" ELSE "over"]
    /\ seen' = [r \in Runs |-> 0] /\ snap' = [r \in Runs |-> NoJob]
    /\ todo' = [r \in Runs |-> "mark"]
    /\ UNCHANGED <<size, left, got, faults>>

Thread(r) ==
    \/ Peek(r) \/ Read(r)
    \/ \E saves \in BOOLEAN : Write(r, saves)
    \/ \E ok \in BOOLEAN : Fetch(r, ok)
    \/ \E raises \in BOOLEAN : AddAccounts(r, raises)

ImportNext ==
    \/ \E r \in Runs, n \in 1 .. MaxNames, saves \in BOOLEAN : StartImport(r, n, saves)
    \/ \E r \in Runs : Thread(r)
    \/ \E saves \in BOOLEAN : EditSource(saves) \/ DeleteSource(saves)
    \/ RestartImports

ImportSpec == ImportInit /\ [][ImportNext]_importVars
                         /\ \A r \in Runs : WF_importVars(Thread(r))

-----------------------------------------------------------------------------
\* A job that only one import has written ends with the counters of that
\* import, although each of them is read and written in two lock sections and
\* the source is edited in between.
TallyExact ==
    (importJob.status = "completed" /\ ~mixed)
        => importJob.completed = size[importJob.run] /\ importJob.errors + got[importJob.run] = size[importJob.run]

\* A job does not stay pending or running: whatever imports of the same source
\* overwrite each other's job, it ends unless a thread died of an exception.
JobsEnd ==
    (importJob.status \in NotEnded)
        ~> (importJob.status \notin NotEnded \/ \E r \in Runs : importPc[r] = "died")
=============================================================================
