------------------------------ MODULE ImageTask ------------------------------
(***************************************************************************)
(* Background image tasks: services/image_task_service.py.                 *)
(*                                                                         *)
(* A client submits a task under an id of its own and polls for it.  The   *)
(* service keeps the tasks in memory and writes all of them to one file    *)
(* after every change, atomically (a temporary file is renamed), under one *)
(* lock.  A daemon thread per task calls the image handler.  When the      *)
(* process dies the threads are lost; the next one reads the file and      *)
(* turns what was unfinished into errors.                                  *)
(*                                                                         *)
(* A key stands for owner_id:task_id, an action for one section under the  *)
(* lock together with the thread's code up to the next one.  The update of *)
(* a task is two actions, the change in memory and the write of the file:  *)
(* the answer of a submission reads the task without the lock, so it may   *)
(* come between the two, and the process may die there.                    *)
(***************************************************************************)
CONSTANTS
    Keys,           \* owner_id:task_id
    NoKey,
    Runners,        \* bound: threads alive at a time
    FaultsHappen    \* writes of the file and thread starts may raise

ASSUME TaskAssumption ==
    /\ NoKey \notin Keys
    /\ FaultsHappen \in BOOLEAN

VARIABLES
    up,         \* the process runs
    mem,        \* _tasks: key -> task
    disk,       \* the file: key -> task
    pc,         \* runner -> where its thread is
    job,        \* runner -> the key it works for, NoKey: no such thread
    asking,     \* keys whose submission has started the thread, not answered yet
    reported,   \* history: key -> status last reported within the retention
    early,      \* history: keys last reported on ahead of the file
    faulty      \* history: keys whose task met a failed write or thread start

threads == <<pc, job>>
reports == <<reported, early>>
vars == <<up, mem, disk, threads, asking, reports, faulty>>

Unfinished == {"queued", "running"}
Terminal == {"success", "error"}

\* old: updated_at is past the retention period.
NoTask == [status |-> "none", old |-> FALSE]
Task == {NoTask} \cup [status : Unfinished, old : {FALSE}]
                 \cup [status : Terminal, old : BOOLEAN]

Now(status) == [status |-> status, old |-> FALSE]

\* _cleanup_locked
Cleaned(tasks) == [k \in Keys |-> IF tasks[k].old THEN NoTask ELSE tasks[k]]

\* Mutant: tasks that were only queued are not marked.
RecoveredRunning(tasks) ==
    [k \in Keys |-> IF tasks[k].status = "running" THEN Now("error") ELSE tasks[k]]

\* _recover_unfinished_locked
Recovered(tasks) ==
    [k \in Keys |-> IF tasks[k].status \in Unfinished THEN Now("error") ELSE tasks[k]]

Idle(r) == job[r] = NoKey
Ends(r) ==
    /\ job' = [job EXCEPT ![r] = NoKey]
    /\ pc' = [pc EXCEPT ![r] = "none"]
Goes(r, next) == pc' = [pc EXCEPT ![r] = next] /\ UNCHANGED job

\* The thread of k is between its two halves of an update, inside the lock.
Saving(k) == \E r \in Runners : job[r] = k /\ pc[r] = "saving"
LockFree == \A r \in Runners : pc[r] # "saving"

-----------------------------------------------------------------------------
(* Clients *)

\* The lock section of _submit for an unknown id: task k exists, and r is to be
\* its thread.
NewTask(k, r) ==
    /\ up /\ LockFree /\ Idle(r)
    /\ Cleaned(mem)[k] = NoTask
    /\ mem' = [Cleaned(mem) EXCEPT ![k] = Now("queued")]
    /\ job' = [job EXCEPT ![r] = k]
    /\ pc' = [pc EXCEPT ![r] = "submit"]
    /\ reported' = [reported EXCEPT ![k] = "none"]
    /\ early' = early \ {k} /\ faulty' = faulty \ {k}
    /\ UNCHANGED <<up, asking>>

\* Mutant: the new task is not written.
SubmitNoSave(k, r) == NewTask(k, r) /\ UNCHANGED disk

\* Nobody is told of it before the file is written.
Submit(k, r) == NewTask(k, r) /\ disk' = mem'

\* The write raises: the client gets an error, the task stays in memory without
\* a thread.
SubmitFails(k) ==
    /\ up /\ LockFree /\ FaultsHappen
    /\ Cleaned(mem)[k] = NoTask
    /\ mem' = [Cleaned(mem) EXCEPT ![k] = Now("queued")]
    /\ faulty' = faulty \cup {k}
    /\ UNCHANGED <<up, disk, threads, asking, reports>>

\* The lock is given back, then the submission starts the thread, which may raise.
StartThread(r) ==
    /\ pc[r] = "submit" /\ Goes(r, "start")
    /\ asking' = asking \cup {job[r]}
    /\ UNCHANGED <<up, mem, disk, reports, faulty>>

StartFails(r) ==
    /\ FaultsHappen /\ pc[r] = "submit" /\ Ends(r)
    /\ faulty' = faulty \cup {job[r]}
    /\ UNCHANGED <<up, mem, disk, asking, reports>>

\* The return of _submit: _public_task reads the task, which the thread shares,
\* without the lock.
AnswerSubmission(k) ==
    /\ k \in asking
    /\ asking' = asking \ {k}
    /\ reported' = [reported EXCEPT ![k] = mem[k].status]
    /\ early' = IF mem[k] = disk[k] THEN early \ {k} ELSE early \cup {k}
    /\ UNCHANGED <<up, mem, disk, threads, faulty>>

\* list_tasks of the keys K, or _submit of an id that is known: a duplicate is
\* answered with the task that exists.
Poll(K) ==
    /\ up /\ LockFree
    /\ mem' = Cleaned(mem)
    /\ disk' = IF mem' # mem THEN mem' ELSE disk
    /\ reported' = [k \in Keys |-> IF k \in K THEN mem'[k].status ELSE reported[k]]
    /\ early' = early \ K
    /\ UNCHANGED <<up, threads, asking, faulty>>

\* The same when the write raises.
PollFails ==
    /\ up /\ LockFree /\ FaultsHappen
    /\ Cleaned(mem) # mem
    /\ mem' = Cleaned(mem)
    /\ UNCHANGED <<up, disk, threads, asking, reports, faulty>>

-----------------------------------------------------------------------------
(* The thread of a task: _run_task *)

\* _update_task up to the write.  The task is there: only finished ones are
\* cleaned up.
Change(r, status) ==
    /\ LockFree
    /\ mem[job[r]] # NoTask
    /\ mem' = [mem EXCEPT ![job[r]] = Now(status)]
    /\ Goes(r, "saving")
    /\ UNCHANGED <<up, disk, asking, reports, faulty>>

Begin(r) == pc[r] = "start" /\ Change(r, "running")

Succeed(r) == pc[r] = "work" /\ Change(r, "success")

\* Mutant: nobody catches what the handler raises.
HandlerDies(r) ==
    pc[r] = "work" /\ Ends(r) /\ UNCHANGED <<up, mem, disk, asking, reports, faulty>>

\* The handler raises or returns no image.
HandlerFails(r) ==
    pc[r] = "work" /\ Goes(r, "failed") /\ UNCHANGED <<up, mem, disk, asking, reports, faulty>>

Fail(r) == pc[r] = "failed" /\ Change(r, "error")

\* The write of the file, which gives the lock back.
Save(r) ==
    /\ pc[r] = "saving"
    /\ disk' = mem
    /\ IF mem[job[r]].status = "running" THEN Goes(r, "work") ELSE Ends(r)
    /\ early' = early \ {job[r]}
    /\ UNCHANGED <<up, mem, asking, reported, faulty>>

\* The write raises.  Only that of a success is inside the try block: memory says
\* success, and the exception leads to the except clause.
SaveFails(r) ==
    /\ FaultsHappen /\ pc[r] = "saving"
    /\ IF mem[job[r]].status = "success" THEN Goes(r, "failed") ELSE Ends(r)
    /\ faulty' = faulty \cup {job[r]}
    /\ UNCHANGED <<up, mem, disk, asking, reports>>

RunnerStep(r) ==
    \/ StartThread(r) \/ StartFails(r) \/ Begin(r) \/ Succeed(r)
    \/ HandlerFails(r) \/ Fail(r) \/ Save(r) \/ SaveFails(r)

-----------------------------------------------------------------------------
(* Time, crashes, restarts *)

AgedTask(t) == IF t.status \in Terminal THEN [t EXCEPT !.old = TRUE] ELSE t

\* The retention period of a finished task ends.  It is at least a day: no
\* thread is still between its last two updates then, and no submission open.
Age(k) ==
    /\ \A r \in Runners : job[r] # k
    /\ k \notin asking
    /\ mem' = [mem EXCEPT ![k] = AgedTask(@)]
    /\ disk' = [disk EXCEPT ![k] = AgedTask(@)]
    /\ <<mem, disk>>' # <<mem, disk>>
    /\ reported' = [reported EXCEPT ![k] = "none"]
    /\ early' = early \ {k}
    /\ UNCHANGED <<up, threads, asking, faulty>>

\* What is open then is never answered.
Crash ==
    /\ up
    /\ up' = FALSE
    /\ mem' = [k \in Keys |-> NoTask]
    /\ pc' = [r \in Runners |-> "none"]
    /\ job' = [r \in Runners |-> NoKey]
    /\ asking' = {}
    /\ UNCHANGED <<disk, reports, faulty>>

\* __init__: load, recover, clean up, save when something changed.
Restart ==
    /\ ~up
    /\ up' = TRUE
    /\ mem' = Cleaned(Recovered(disk))
    /\ disk' = mem'
    /\ UNCHANGED <<threads, asking, reports, faulty>>

-----------------------------------------------------------------------------
Init ==
    /\ up = TRUE
    /\ mem = [k \in Keys |-> NoTask]
    /\ disk = [k \in Keys |-> NoTask]
    /\ pc = [r \in Runners |-> "none"]
    /\ job = [r \in Runners |-> NoKey]
    /\ reported = [k \in Keys |-> "none"]
    /\ asking = {} /\ early = {} /\ faulty = {}

Next ==
    \/ \E k \in Keys : (\E r \in Runners : Submit(k, r)) \/ SubmitFails(k) \/ AnswerSubmission(k) \/ Age(k)
    \/ \E K \in SUBSET Keys : Poll(K)
    \/ PollFails \/ Crash \/ Restart
    \/ \E r \in Runners : RunnerStep(r)

Spec == Init /\ [][Next]_vars

\* The handler ends (its upstream calls have timeouts), a thread that waits for
\* the lock gets it in the end (nobody keeps it longer than one write of the
\* file), and the container is restarted after a crash.
FairSpec ==
    Spec /\ WF_vars(Restart) /\ \A r \in Runners : SF_vars(RunnerStep(r))

-----------------------------------------------------------------------------
(* Properties *)

\* The state has its type: in particular only finished tasks grow old and are
\* cleaned up.
TypeOK ==
    /\ up \in BOOLEAN
    /\ mem \in [Keys -> Task]
    /\ disk \in [Keys -> Task]
    /\ pc \in [Runners -> {"none", "submit", "start", "work", "failed", "saving"}]
    /\ job \in [Runners -> Keys \cup {NoKey}]
    /\ reported \in [Keys -> {"none"} \cup Unfinished \cup Terminal]
    /\ asking \in SUBSET Keys /\ early \in SUBSET Keys /\ faulty \in SUBSET Keys

\* Where a thread is tells the status of its task.
Place(r) ==
    /\ pc[r] = "none" <=> job[r] = NoKey
    /\ pc[r] # "none" => up /\ ~mem[job[r]].old
    /\ pc[r] \in {"submit", "start"} => mem[job[r]].status = "queued"
    /\ pc[r] = "work" => mem[job[r]].status = "running"
    /\ pc[r] = "saving" => mem[job[r]].status \in {"running", "success", "error"}
    /\ pc[r] = "failed" =>
         \/ mem[job[r]].status = "running"
         \/ mem[job[r]].status = "success" /\ job[r] \in faulty

\* Every thread is in its place, one at most inside an update, a submission that
\* was not answered has its task, and the dead have neither.
RunnerShape ==
    /\ \A r \in Runners : Place(r)
    /\ \A r, s \in Runners : pc[r] = "saving" /\ pc[s] = "saving" => r = s
    /\ \A k \in asking : up /\ mem[k] # NoTask /\ ~mem[k].old
    /\ ~up => \A k \in Keys : mem[k] = NoTask

\* At no time do two threads work for the same task (a duplicate submission,
\* a retry of the client, a restart, a cleanup), and an unfinished task has
\* a thread unless a write or a thread start failed for it.
Attended ==
    /\ \A r, s \in Runners : job[r] = job[s] /\ job[r] # NoKey => r = s
    /\ \A k \in Keys \ faulty :
         mem[k].status \in Unfinished => \E r \in Runners : job[r] = k

\* What may follow a status that was reported.
Later(status) ==
    CASE status = "queued" -> Unfinished \cup Terminal
      [] status = "running" -> {"running"} \cup Terminal
      [] OTHER -> {status}

\* What a client was told survives every crash: within the retention period
\* the file holds the reported status or, after an unfinished one, a later
\* one.  An acknowledged task is not lost and an answer is not taken back,
\* unless a write failed for that very task.  The exception is the answer of a
\* submission that saw its thread in the middle of an update: the file has yet
\* to be written, and if the process dies first, the task becomes an error.
Kept ==
    \A k \in Keys \ faulty : reported[k] # "none" =>
        IF k \in early THEN up => Saving(k) \/ mem[k].status = "error"
        ELSE disk[k].status \in Later(reported[k]) /\ ~disk[k].old

\* While the process runs, memory and file agree on every task that met no
\* fault, up to tasks that only wait to be cleaned up and the one that is being
\* written, whose end the file does not hold yet.
InStep ==
    \A k \in Keys \ faulty :
        /\ up /\ ~Saving(k) => mem[k] = disk[k] \/ (mem[k] = NoTask /\ disk[k].old)
        /\ Saving(k) => disk[k].status \in Unfinished /\ ~disk[k].old

\* Memory never falls behind a report, nor the file far behind an early one.
Ahead ==
    \A k \in Keys \ faulty : reported[k] # "none" =>
        /\ \A r \in Runners : job[r] = k => mem[k].status \in Later(reported[k])
        /\ k \in early => disk[k].status \in Unfinished \cup {"error"} /\ ~disk[k].old

\* The inductive invariant.
Inductive == TypeOK /\ RunnerShape /\ Attended /\ Kept /\ InStep /\ Ahead

\* A client that was told its task is unfinished can learn its end: after every
\* crash and every failure of the handler the file gets there.
Settles ==
    \A k \in Keys :
        reported[k] \in Unfinished
            ~> disk[k].status \notin Unfinished \/ k \in faulty
=============================================================================
