----------------------------- MODULE JobsProofs -----------------------------
(***************************************************************************)
(* Proofs about the jobs in memory that administrators and clients poll:    *)
(* that a settled login imports nothing, that an import's tally is exact,   *)
(* that what a research told is final stays so, and that an image task has  *)
(* a thread and keeps its report, for any number of jobs, polls and threads.*)
(***************************************************************************)
EXTENDS LoginFlow, ImportJob, DeepResearch, ImageTask, TLAPS

-----------------------------------------------------------------------------
(* Interactive logins.                                                     *)

LoginType ==
    /\ login \in [Jobs -> {"none", "open", "done", "gone"}]
    /\ settled \in [Jobs -> BOOLEAN]
    /\ poll \in [Polls -> {"idle", "ask", "import", "answer"}]
    /\ polls \in [Polls -> Jobs \union {NoLogin}]
    /\ late \in [Polls -> BOOLEAN]
    /\ kind \in [Jobs -> Kinds \union {"unknown"}]

\* A login that was started has its kind, and the one a request polls was.
PollsStarted ==
    /\ \A j \in Jobs : login[j] # "none" <=> kind[j] \in Kinds
    /\ \A p \in Polls : poll[p] # "idle" => polls[p] \in Jobs /\ login[polls[p]] # "none"

\* A settled login is never open again, so no poll of it gets to the upstream.
SettledStays ==
    /\ \A j \in Jobs : settled[j] => login[j] \in {"done", "gone"}
    /\ \A p \in Polls : late[p] = FALSE

LoginInv == LoginType /\ PollsStarted /\ SettledStays

LEMMA LoginInitInv == LoginInit => LoginInv
BY DEF LoginInit, LoginInv, LoginType, PollsStarted, SettledStays, Kinds

\* A login that is dropped stays started, and settled.
LEMMA DropsInv ==
    ASSUME LoginInv, NEW gone \in SUBSET Jobs, \A j \in gone : login[j] # "none",
           login' = [j \in Jobs |-> IF j \in gone THEN "gone" ELSE login[j]],
           UNCHANGED <<kind, settled, poll, polls, late>>
    PROVE  LoginInv'
BY DEF LoginInv, LoginType, PollsStarted, SettledStays

LEMMA BeginPollInv ==
    ASSUME LoginInv, NEW p \in Polls, NEW j \in Jobs, NEW expired \in BOOLEAN,
           BeginPoll(p, j, expired)
    PROVE  LoginInv'
<1> DEFINE dropped == OverdueJobs(j) \union IF expired THEN {j} ELSE {}
<1>1. dropped \subseteq Jobs /\ \A i \in dropped : login[i] # "none"
    BY DEF BeginPoll, OverdueJobs, Pruned, LoginInv, PollsStarted, Kinds
<1>2. login' = [i \in Jobs |-> IF i \in dropped THEN "gone" ELSE login[i]]
    BY DEF BeginPoll
<1>3. CASE j \in dropped
    BY <1>1, <1>2, <1>3, DropsInv DEF BeginPoll
<1>4. CASE j \notin dropped
    <2>1. login'[j] = "open" /\ settled[j] = FALSE /\ j \in Jobs
        BY <1>2, <1>4 DEF BeginPoll, LoginInv, LoginType, SettledStays
    <2>2. /\ poll' = [poll EXCEPT ![p] = "ask"] /\ polls' = [polls EXCEPT ![p] = j]
          /\ late' = [late EXCEPT ![p] = FALSE] /\ UNCHANGED <<kind, settled>>
        BY <1>4, <2>1 DEF BeginPoll, PollTo
    <2> HIDE DEF dropped
    <2> QED BY <1>1, <1>2, <2>1, <2>2 DEF LoginInv, LoginType, PollsStarted, SettledStays
<1> QED BY <1>3, <1>4
LEMMA StartLoginInv ==
    ASSUME LoginInv, NEW j \in Jobs, NEW k \in Kinds, StartLogin(j, k)
    PROVE  LoginInv'
<1>1. \A i \in Pruned(k) : login[i] # "none" /\ i # j
    BY DEF StartLogin, Pruned, LoginInv, PollsStarted
<1> QED BY <1>1 DEF StartLogin, LoginInv, LoginType, PollsStarted, SettledStays

LEMMA AnsweredInv ==
    ASSUME LoginInv, NEW p \in Polls, NEW answer \in {"waiting", "expired", "credentials"},
           Answered(p, answer)
    PROVE  LoginInv'
<1>1. PICK where \in {"import", "idle"} : PollTo(p, where)
    BY DEF Answered
<1>2. polls[p] \in Jobs /\ login[polls[p]] # "none"
    BY DEF Answered, LoginInv, PollsStarted
<1>3. login' = login \/ login' = [login EXCEPT ![polls[p]] = "gone"]
    BY DEF Answered, Forget
<1>4. UNCHANGED <<kind, settled, polls, late>>
    BY DEF Answered
<1> QED BY <1>1, <1>2, <1>3, <1>4 DEF LoginInv, LoginType, PollsStarted, SettledStays, PollTo, Answered

\* The end of a poll settles a login that it leaves done or gone.
LEMMA EndPollInv ==
    ASSUME LoginInv, NEW p \in Polls, EndPoll(p)
    PROVE  LoginInv'
<1> DEFINE j == polls[p]
<1>1. j \in Jobs /\ login[j] \in {"open", "done", "gone"} /\ kind[j] \in Kinds /\ poll[p] # "idle"
    BY DEF EndPoll, LoginInv, LoginType, PollsStarted
<1>2. PollTo(p, "idle") /\ UNCHANGED <<kind, polls, late>>
    BY DEF EndPoll
<1>3. CASE kind[j] = "gemini"
    <2>1. settled' = [settled EXCEPT ![j] = @] /\ login' = [login EXCEPT ![j] = @]
        BY <1>1, <1>3 DEF EndPoll, LoginInv, LoginType
    <2> QED BY <1>1, <1>2, <2>1 DEF LoginInv, LoginType, PollsStarted, SettledStays, PollTo
<1>4. CASE kind[j] # "gemini"
    <2>1. settled' = [settled EXCEPT ![j] = TRUE]
        BY <1>1, <1>4 DEF EndPoll, LoginInv, LoginType
    <2>2. PICK to \in {"done", "gone"} : login' = [login EXCEPT ![j] = to]
        BY <1>1, <1>4 DEF EndPoll, Kinds
    <2> QED BY <1>1, <1>2, <2>1, <2>2 DEF LoginInv, LoginType, PollsStarted, SettledStays, PollTo
<1> QED BY <1>3, <1>4

LEMMA LoginNextInv == LoginInv /\ [LoginNext]_loginVars => LoginInv'
<1> SUFFICES ASSUME LoginInv, [LoginNext]_loginVars
             PROVE  LoginInv'
    OBVIOUS
<1>1. ASSUME NEW j \in Jobs, GrowsOld(j) \/ RemoveAccount(j)
      PROVE  LoginInv'
    BY <1>1 DEF GrowsOld, RemoveAccount, LoginInv, LoginType, PollsStarted, SettledStays
<1>2. ASSUME NEW j \in Jobs, Cancel(j)
      PROVE  LoginInv'
    BY <1>2 DEF Cancel, Forget, LoginInv, LoginType, PollsStarted, SettledStays
<1>3. ASSUME NEW p \in Polls, NEW added \in BOOLEAN, NEW raises \in BOOLEAN,
             Import(p, added, raises)
      PROVE  LoginInv'
    BY <1>3 DEF Import, PollTo, LoginInv, LoginType, PollsStarted, SettledStays
<1>4. CASE UNCHANGED loginVars
    BY <1>4 DEF loginVars, LoginInv, LoginType, PollsStarted, SettledStays
<1> QED BY <1>1, <1>2, <1>3, <1>4, StartLoginInv, BeginPollInv, AnsweredInv, EndPollInv
        DEF LoginNext

\* Once a login was settled no poll that begins adds its account, however many
\* polls overlap and whatever is pruned, cancelled or expires meanwhile.
THEOREM SettledLoginsStay == LoginSpec => []SettledLoginsImportNothing
<1>1. LoginInv => SettledLoginsImportNothing
    BY DEF LoginInv, SettledStays, SettledLoginsImportNothing
<1> QED BY LoginInitInv, LoginNextInv, <1>1, PTL DEF LoginSpec

-----------------------------------------------------------------------------
(* Deep researches.                                                        *)

ResearchType ==
    /\ item \in [Interactions -> {"none", "in_progress"} \union Ended]
    /\ work \in [Researches ->
                    {"new", "plan", "research", "completed", "failed", "died", "over"}]
    /\ polled \in [Interactions -> {"none", "in_progress", "expired"} \union Ended]

\* The item of a task is written twice, as its thread starts and as it ends, and
\* what its client was told last is still so unless the item was purged.
ItemsFollow ==
    \A i \in Interactions :
        /\ item[i] # "none" => work[i] # "new"
        /\ item[i] \in Ended => work[i] = "over"
        /\ polled[i] = "expired" => item[i] = "none" /\ work[i] # "new"
        /\ polled[i] \in Ended => item[i] \in {polled[i], "none"} /\ work[i] = "over"

ResearchInv == ResearchType /\ ItemsFollow

LEMMA ResearchInitInv == ResearchInit => ResearchInv
BY DEF ResearchInit, ResearchInv, ResearchType, ItemsFollow, Ended, Researches

\* A purge leaves an item or drops it.
LEMMA PurgedItems ==
    ASSUME ResearchType, NEW expired \in SUBSET Stored
    PROVE  /\ Purged(expired) \in [Interactions -> {"none", "in_progress"} \union Ended]
           /\ \A i \in Interactions : Purged(expired)[i] \in {item[i], "none"}
BY DEF Purged, ResearchType

\* The thread goes on with its work.
LEMMA WorksOn ==
    ASSUME ResearchInv, NEW r \in Researches, work[r] \in {"new", "plan", "research"},
           NEW what \in {"plan", "research", "completed", "failed", "died", "over"},
           Then(r, what), UNCHANGED <<item, polled>>
    PROVE  ResearchInv'
BY DEF ResearchInv, ResearchType, ItemsFollow, Then, Ended, Researches

LEMMA FinishResearchInv ==
    ASSUME ResearchInv, NEW r \in Researches, Finish(r)
    PROVE  ResearchInv'
BY DEF Finish, Then, ResearchInv, ResearchType, ItemsFollow, Ended, Researches

LEMMA CreateInv ==
    ASSUME ResearchInv, NEW i \in Interactions, NEW expired \in SUBSET Stored, Create(i, expired)
    PROVE  ResearchInv'
<1>1. /\ item' = [Purged(expired) EXCEPT ![i] = "in_progress"] /\ work[i] = "new"
      /\ work' = [work EXCEPT ![i] = "plan"] /\ polled' = polled
    BY DEF Create, Then
<1>2. /\ Purged(expired) \in [Interactions -> {"none", "in_progress"} \union Ended]
      /\ \A j \in Interactions : Purged(expired)[j] \in {item[j], "none"}
    BY PurgedItems DEF ResearchInv
<1> QED BY <1>1, <1>2 DEF ResearchInv, ResearchType, ItemsFollow, Ended, Researches

LEMMA PollResearchInv ==
    ASSUME ResearchInv, NEW i \in Interactions, NEW expired \in SUBSET Stored,
           PollResearch(i, expired)
    PROVE  ResearchInv'
<1>1. /\ item' = Purged(expired) /\ work[i] # "new" /\ work' = work
      /\ polled' = [polled EXCEPT ![i] = IF item'[i] = "none" THEN "expired" ELSE item'[i]]
    BY DEF PollResearch
<1>2. /\ item' \in [Interactions -> {"none", "in_progress"} \union Ended]
      /\ \A j \in Interactions : item'[j] \in {item[j], "none"}
    BY <1>1, PurgedItems DEF ResearchInv
<1> QED BY <1>1, <1>2 DEF ResearchInv, ResearchType, ItemsFollow, Ended, Researches

LEMMA ResearchNextInv == ResearchInv /\ [ResearchNext]_researchVars => ResearchInv'
<1> SUFFICES ASSUME ResearchInv, [ResearchNext]_researchVars
             PROVE  ResearchInv'
    OBVIOUS
<1>1. ASSUME NEW r \in Researches, OpenStream(r) \/ Plan(r) \/ Synthesis(r)
      PROVE  ResearchInv'
    BY <1>1, WorksOn DEF OpenStream, Plan, Synthesis
<1>2. ASSUME NEW r \in Researches, NEW http \in BOOLEAN, ModelFails(r, http)
      PROVE  ResearchInv'
    BY <1>2, WorksOn DEF ModelFails
<1>3. ASSUME NEW r \in Researches, NEW sources \in 0 .. 1, Research(r, sources)
      PROVE  ResearchInv'
    BY <1>3 DEF Research, ResearchInv, ResearchType, ItemsFollow
<1>4. CASE UNCHANGED researchVars
    BY <1>4 DEF researchVars, ResearchInv, ResearchType, ItemsFollow
<1> QED BY <1>1, <1>2, <1>3, <1>4, FinishResearchInv, CreateInv, PollResearchInv
        DEF ResearchNext, ResearchStep

\* A poll answers what an earlier one did or that the item expired, and only a
\* poll changes what was answered.
LEMMA PolledStays ==
    ASSUME ResearchInv, ResearchNext, NEW i \in Interactions
    PROVE  /\ polled[i] = "expired" => polled'[i] = "expired"
           /\ polled[i] \in Ended => polled'[i] \in {polled[i], "expired"}
<1>1. ASSUME NEW j \in Interactions, NEW expired \in SUBSET Stored, PollResearch(j, expired)
      PROVE  /\ polled[i] = "expired" => polled'[i] = "expired"
             /\ polled[i] \in Ended => polled'[i] \in {polled[i], "expired"}
    <2>1. item'[i] \in {item[i], "none"}
        BY <1>1, PurgedItems DEF PollResearch, ResearchInv
    <2>2. polled' = [polled EXCEPT ![j] = IF item'[j] = "none" THEN "expired" ELSE item'[j]]
        BY <1>1 DEF PollResearch
    <2> QED BY <2>1, <2>2 DEF ResearchInv, ResearchType, ItemsFollow, Ended
<1>2. ASSUME ~\E j \in Interactions, expired \in SUBSET Stored : PollResearch(j, expired)
      PROVE  polled' = polled
    BY <1>2 DEF ResearchNext, ResearchStep, OpenStream, Plan, Research, Synthesis, ModelFails,
                Finish, Create
<1> QED BY <1>1, <1>2

\* What a client was told is final stays so, whenever items expire and however
\* late a thread ends.
THEOREM FinalPolls == ResearchSpec => PollsAreFinal
<1>1. ResearchInv /\ [ResearchNext]_researchVars =>
        [\A i \in Interactions :
            /\ polled[i] = "expired" => polled'[i] = "expired"
            /\ polled[i] \in Ended => polled'[i] \in {polled[i], "expired"}]_researchVars
    BY PolledStays
<1> QED BY ResearchInitInv, ResearchNextInv, <1>1, PTL DEF ResearchSpec, PollsAreFinal

-----------------------------------------------------------------------------
(* Imports.                                                                *)

JobRecords ==
    [run : Nat, status : {"none", "gone", "pending", "running", "failed", "completed"},
     completed : Nat, errors : Nat]
Over == {"over", "died"}

ImportType ==
    /\ importJob \in JobRecords /\ jobFile \in JobRecords
    /\ mixed \in BOOLEAN /\ mixedFile \in BOOLEAN
    /\ importPc \in [Runs -> {"new", "read", "write", "fetch", "peek"} \union Over]
    /\ todo \in [Runs -> {"mark", "error", "count", "end"}]
    /\ size \in [Runs -> Nat] /\ left \in [Runs -> Nat]
    /\ got \in [Runs -> Nat] /\ seen \in [Runs -> Nat]
    /\ snap \in [Runs -> JobRecords]

\* While an import is active the source's job is the one of some import.
RunsNamed ==
    /\ \A r \in Runs : importPc[r] = "new" => got[r] = 0
    /\ \A r \in Runs : Active(r) /\ Here => importJob.run \in Runs
    /\ \A r \in Runs : importPc[r] = "write" => snap[r].run \in Runs

\* Where the counters of an import's job are: the download that ended last may
\* still have to be counted, as an error and then as completed.
CountsRight(r) ==
    LET midway == importPc[r] # "fetch"
    IN  /\ IF midway /\ todo[r] \in {"error", "count"}
           THEN importJob.completed + left[r] + 1 = size[r]
           ELSE importJob.completed + left[r] = size[r]
        /\ IF midway /\ todo[r] = "error"
           THEN importJob.errors + got[r] + left[r] + 1 = size[r]
           ELSE importJob.errors + got[r] + left[r] = size[r]
        /\ midway /\ todo[r] = "end" => left[r] = 0
        /\ importPc[r] = "peek" => todo[r] # "mark"

\* What the thread has read of its job, and will write, is still so.
ReadsRight(r) ==
    /\ importPc[r] \in {"read", "write"} =>
          /\ todo[r] = "error" => seen[r] = importJob.errors
          /\ todo[r] = "count" => seen[r] = importJob.completed
          /\ todo[r] = "end" => seen[r] = size[r]
    /\ importPc[r] = "write" =>
          /\ snap[r].run = r /\ snap[r].status # "completed"
          /\ snap[r].completed = importJob.completed /\ snap[r].errors = importJob.errors

\* A job that one import writes alone is not completed while the import is active.
SoleWriter ==
    Here /\ ~mixed =>
        \A r \in Runs : Active(r) =>
            /\ importJob.run = r /\ importJob.status # "completed"
            /\ CountsRight(r) /\ ReadsRight(r)

Tallied(j) ==
    j.status = "completed" =>
        /\ j.run \in Runs /\ importPc[j.run] \in Over
        /\ j.completed = size[j.run] /\ j.errors + got[j.run] = size[j.run]

\* The job in the file comes back with a restart.
Tallies == (~mixed => Tallied(importJob)) /\ (~mixedFile => Tallied(jobFile))

ImportInv == ImportType /\ RunsNamed /\ SoleWriter /\ Tallies

LEMMA ImportInitInv == ImportInit => ImportInv
<1> SUFFICES ASSUME ImportInit PROVE ImportInv
    OBVIOUS
<1>1. NoJob \in JobRecords /\ NoJob.status = "none"
    BY DEF NoJob, Job, Nobody, JobRecords
<1>2. \A r \in Runs : importPc[r] = "new" /\ ~Active(r) /\ got[r] = 0
    BY DEF ImportInit, Active
<1>3. ImportType
    BY <1>1 DEF ImportInit, ImportType, Over
<1>4. RunsNamed /\ SoleWriter
    BY <1>2 DEF RunsNamed, SoleWriter
<1>5. Tallies
    BY <1>1 DEF ImportInit, Tallies, Tallied
<1> QED BY <1>3, <1>4, <1>5 DEF ImportInv

\* The counters an update of the job writes.
LEMMA WrittenJob ==
    ASSUME ImportType, NEW r \in Runs
    PROVE  /\ Written(r) \in JobRecords /\ Written(r).run = snap[r].run
           /\ Written(r).completed = IF todo[r] = "count" THEN seen[r] + 1
                                     ELSE IF todo[r] = "end" THEN seen[r] ELSE snap[r].completed
           /\ Written(r).errors = IF todo[r] = "error" THEN seen[r] + 1 ELSE snap[r].errors
           /\ Written(r).status = "completed" => todo[r] = "end" \/ snap[r].status = "completed"
<1>1. /\ snap[r] \in JobRecords /\ seen[r] \in Nat /\ todo[r] \in {"mark", "error", "count", "end"}
    BY DEF ImportType
<1>2. /\ NewCompleted(r) \in Nat /\ NewErrors(r) \in Nat
      /\ NewStatus(r) \in {"none", "gone", "pending", "running", "failed", "completed"}
      /\ NewStatus(r) = "completed" => todo[r] = "end" \/ snap[r].status = "completed"
    BY <1>1 DEF NewCompleted, NewErrors, NewStatus, JobRecords
<1>3. /\ Written(r).run = snap[r].run /\ Written(r).status = NewStatus(r)
      /\ Written(r).completed = NewCompleted(r) /\ Written(r).errors = NewErrors(r)
    BY DEF Written, Job
<1>4. Written(r) \in JobRecords
    BY <1>1, <1>2 DEF Written, Job, JobRecords
<1> QED BY <1>1, <1>2, <1>3, <1>4 DEF NewCompleted, NewErrors

\* An edit of the source leaves the counters of its job.
LEMMA NormalizedJob ==
    ASSUME NEW j \in JobRecords
    PROVE  /\ Normalized(j) \in JobRecords /\ Normalized(j).run = j.run
           /\ Normalized(j).completed = j.completed /\ Normalized(j).errors = j.errors
           /\ Normalized(j).status = "completed" <=> j.status = "completed"
           /\ Normalized(j).status = "gone" <=> j.status = "gone"
BY DEF Normalized, Job, JobRecords, NotEnded

LEMMA GoneFacts == Gone \in JobRecords /\ Gone.run = 0 /\ Gone.status = "gone"
BY DEF Gone, Job, Nobody, JobRecords

\* A step of a thread that leaves the job alone.
LEMMA ThreadInv ==
    ASSUME ImportInv, NEW r \in Runs, Active(r), ImportType', UNCHANGED <<jobVars, size>>,
           \A q \in Runs \ {r} :
               /\ importPc'[q] = importPc[q] /\ todo'[q] = todo[q] /\ left'[q] = left[q]
               /\ got'[q] = got[q] /\ seen'[q] = seen[q] /\ snap'[q] = snap[q],
           importPc'[r] # "new", importPc'[r] = "write" => snap'[r].run \in Runs,
           Here /\ ~mixed /\ importJob.run = r /\ importJob.status # "completed"
               /\ CountsRight(r) /\ ReadsRight(r) /\ Active(r)' => CountsRight(r)' /\ ReadsRight(r)'
    PROVE  ImportInv'
<1>1. RunsNamed'
    BY DEF ImportInv, RunsNamed, Active, Over, Here, jobVars
<1>2. ASSUME Here', ~mixed', NEW q \in Runs, Active(q)'
      PROVE  /\ importJob'.run = q /\ importJob'.status # "completed"
             /\ CountsRight(q)' /\ ReadsRight(q)'
    <2>1. Here /\ ~mixed /\ importJob' = importJob
        BY <1>2 DEF Here, jobVars
    <2>2. importJob.run = r /\ importJob.status # "completed" /\ CountsRight(r) /\ ReadsRight(r)
        BY <2>1 DEF ImportInv, SoleWriter
    <2>3. CASE q = r
        BY <1>2, <2>1, <2>2, <2>3
    <2>4. CASE q # r
        <3>1. Active(q)
            BY <1>2, <2>4 DEF Active
        <3> QED BY <2>1, <2>2, <2>4, <3>1 DEF ImportInv, SoleWriter
    <2> QED BY <2>3, <2>4
<1>3. SoleWriter'
    BY <1>2 DEF SoleWriter
<1>4. Tallies'
    BY DEF ImportInv, Tallies, Tallied, Active, Over, jobVars
<1> QED BY <1>1, <1>3, <1>4 DEF ImportInv

LEMMA PeekInv ==
    ASSUME ImportInv, NEW r \in Runs, Peek(r)
    PROVE  ImportInv'
<1>1. /\ importPc[r] = "peek" /\ Active(r) /\ UNCHANGED <<jobVars, size, left, got, snap>>
      /\ importPc \in [Runs -> {"new", "read", "write", "fetch", "peek"} \union Over]
      /\ todo \in [Runs -> {"mark", "error", "count", "end"}]
    BY DEF Peek, Active, Over, ImportInv, ImportType
<1>2. PICK where \in {"read", "peek", "fetch", "over"}, what \in {"mark", "error", "count", "end"} :
          /\ Go(r, where, what)
          /\ Here => where = "read" /\ what = todo[r]
    BY <1>1 DEF Peek, After
<1>3. PICK n : n = IF todo[r] = "error" THEN importJob.errors
                   ELSE IF todo[r] = "count" THEN importJob.completed
                   ELSE IF got[r] = 0 /\ Here THEN size[importJob.run] ELSE size[r]
    OBVIOUS
<1>4. n \in Nat /\ seen' = [seen EXCEPT ![r] = n]
    <2>1. importJob.errors \in Nat /\ importJob.completed \in Nat /\ size[r] \in Nat
        BY DEF ImportInv, ImportType, JobRecords
    <2>2. Here => size[importJob.run] \in Nat
        BY <1>1 DEF ImportInv, ImportType, RunsNamed
    <2>3. n \in Nat
        BY <1>3, <2>1, <2>2
    <2>4. seen' = [seen EXCEPT ![r] = n]
        BY <1>3 DEF Peek
    <2> QED BY <2>3, <2>4
<1>5. ImportType'
    BY <1>1, <1>2, <1>4 DEF ImportInv, ImportType, Go, Over, jobVars
<1>6. ASSUME Here, ~mixed, importJob.run = r, CountsRight(r), ReadsRight(r)
      PROVE  CountsRight(r)' /\ ReadsRight(r)'
    <2>1. /\ importPc'[r] = "read" /\ todo'[r] = todo[r] /\ seen'[r] = n
          /\ UNCHANGED <<importJob, size, left, got>> /\ importPc[r] = "peek"
        BY <1>1, <1>2, <1>4, <1>6 DEF Go, ImportInv, ImportType, jobVars
    <2> QED BY <1>3, <1>4, <1>6, <2>1 DEF CountsRight, ReadsRight, ImportInv, ImportType, JobRecords
<1> QED BY <1>1, <1>2, <1>4, <1>5, <1>6, ThreadInv DEF Go, ImportInv, ImportType
LEMMA ReadInv ==
    ASSUME ImportInv, NEW r \in Runs, Read(r)
    PROVE  ImportInv'
<1>1. /\ importPc[r] = "read" /\ Active(r) /\ UNCHANGED <<jobVars, size, left, got, seen>>
      /\ importPc \in [Runs -> {"new", "read", "write", "fetch", "peek"} \union Over]
      /\ todo \in [Runs -> {"mark", "error", "count", "end"}]
      /\ snap' = [snap EXCEPT ![r] = importJob]
    BY DEF Read, Active, Over, ImportInv, ImportType
<1>2. PICK where \in {"write", "peek", "fetch", "over"}, what \in {"mark", "error", "count", "end"} :
          /\ Go(r, where, what)
          /\ Here => where = "write" /\ what = todo[r]
          /\ where = "write" => Here
    BY <1>1 DEF Read, After
<1>3. ImportType'
    BY <1>1, <1>2 DEF ImportInv, ImportType, Go, Over, jobVars
<1>4. importPc'[r] = "write" => snap'[r].run \in Runs
    BY <1>1, <1>2 DEF Go, ImportInv, ImportType, RunsNamed
<1>5. ASSUME Here, importJob.run = r, importJob.status # "completed", CountsRight(r), ReadsRight(r)
      PROVE  CountsRight(r)' /\ ReadsRight(r)'
    <2>1. /\ importPc'[r] = "write" /\ todo'[r] = todo[r] /\ snap'[r] = importJob
          /\ UNCHANGED <<importJob, size, left, got, seen>> /\ importPc[r] = "read"
        BY <1>1, <1>2, <1>5 DEF Go, ImportInv, ImportType, jobVars
    <2> QED BY <1>5, <2>1 DEF CountsRight, ReadsRight
<1> QED BY <1>1, <1>2, <1>3, <1>4, <1>5, ThreadInv DEF Go, ImportInv, ImportType

LEMMA FetchInv ==
    ASSUME ImportInv, NEW r \in Runs, NEW ok \in BOOLEAN, Fetch(r, ok)
    PROVE  ImportInv'
<1>1. /\ importPc[r] = "fetch" /\ Active(r) /\ UNCHANGED <<jobVars, size, seen, snap>>
      /\ left[r] \in Nat /\ left[r] > 0 /\ got[r] \in Nat /\ size[r] \in Nat
      /\ importPc \in [Runs -> {"new", "read", "write", "fetch", "peek"} \union Over]
      /\ todo \in [Runs -> {"mark", "error", "count", "end"}]
      /\ left \in [Runs -> Nat] /\ got \in [Runs -> Nat]
      /\ left' = [left EXCEPT ![r] = @ - 1]
      /\ got' = [got EXCEPT ![r] = IF ok THEN @ + 1 ELSE @]
      /\ Go(r, "peek", IF ok THEN "count" ELSE "error")
    BY DEF Fetch, Active, Over, ImportInv, ImportType
<1>2. ImportType'
    BY <1>1 DEF ImportInv, ImportType, Go, Over, jobVars
<1>3. /\ importPc'[r] = "peek" /\ todo'[r] = (IF ok THEN "count" ELSE "error")
      /\ left'[r] = left[r] - 1 /\ got'[r] = (IF ok THEN got[r] + 1 ELSE got[r])
      /\ UNCHANGED <<importJob, size>>
    BY <1>1 DEF Go, jobVars
<1>4. ASSUME CountsRight(r)
      PROVE  CountsRight(r)' /\ ReadsRight(r)'
    <2>1. importJob.completed \in Nat /\ importJob.errors \in Nat
        BY DEF ImportInv, ImportType, JobRecords
    <2> QED BY <1>1, <1>3, <1>4, <2>1 DEF CountsRight, ReadsRight
<1> QED BY <1>1, <1>2, <1>3, <1>4, ThreadInv DEF Go, ImportInv, ImportType

LEMMA AddAccountsInv ==
    ASSUME ImportInv, NEW r \in Runs, NEW raises \in BOOLEAN, AddAccounts(r, raises)
    PROVE  ImportInv'
<1>1. /\ importPc[r] = "fetch" /\ Active(r) /\ UNCHANGED <<jobVars, size, left, got, seen, snap>>
      /\ left[r] = 0
      /\ importPc \in [Runs -> {"new", "read", "write", "fetch", "peek"} \union Over]
      /\ todo \in [Runs -> {"mark", "error", "count", "end"}]
    BY DEF AddAccounts, Active, Over, ImportInv, ImportType
<1>2. PICK where \in {"died", "peek"}, what \in {"mark", "end"} :
          Go(r, where, what) /\ (where = "peek" => what = "end")
    BY <1>1 DEF AddAccounts
<1>3. ImportType'
    BY <1>1, <1>2 DEF ImportInv, ImportType, Go, Over, jobVars
<1>4. ASSUME CountsRight(r), Active(r)'
      PROVE  CountsRight(r)' /\ ReadsRight(r)'
    <2>1. /\ importPc'[r] = "peek" /\ todo'[r] = "end"
          /\ UNCHANGED <<importJob, size, left, got, seen>> /\ left[r] = 0
        BY <1>1, <1>2, <1>4 DEF Go, jobVars, Active
    <2> QED BY <1>1, <1>4, <2>1 DEF CountsRight, ReadsRight
<1> QED BY <1>1, <1>2, <1>3, <1>4, ThreadInv DEF Go, ImportInv, ImportType

LEMMA WriteInv ==
    ASSUME ImportInv, NEW r \in Runs, NEW saves \in BOOLEAN, Write(r, saves)
    PROVE  ImportInv'
<1>1. /\ importPc[r] = "write" /\ Active(r) /\ UNCHANGED <<size, left, got>>
      /\ importPc \in [Runs -> {"new", "read", "write", "fetch", "peek"} \union Over]
      /\ todo \in [Runs -> {"mark", "error", "count", "end"}]
      /\ seen' = [seen EXCEPT ![r] = 0] /\ snap' = [snap EXCEPT ![r] = NoJob]
    BY DEF Write, Active, Over, ImportInv, ImportType
<1>2. PICK where \in {"peek", "fetch", "over", "died"}, what \in {"mark", "error", "count", "end"} :
          /\ Go(r, where, what)
          /\ where \in {"peek", "fetch"} => todo[r] # "end"
          /\ where = "peek" => todo[r] = "error" /\ what = "count"
          /\ where = "fetch" => todo[r] # "error" /\ what = todo[r]
    BY <1>1 DEF Write, After
<1>3. importPc'[r] = where /\ todo'[r] = what
    BY <1>1, <1>2 DEF Go
<1>4. \A q \in Runs \ {r} :
          /\ importPc'[q] = importPc[q] /\ todo'[q] = todo[q] /\ left'[q] = left[q]
          /\ got'[q] = got[q] /\ seen'[q] = seen[q] /\ snap'[q] = snap[q]
    BY <1>1, <1>2 DEF Go, ImportInv, ImportType
<1>5. ImportType'
    <2>1. NoJob \in JobRecords
        BY DEF NoJob, Job, Nobody, JobRecords
    <2>2. Written(r) \in JobRecords
        BY WrittenJob DEF ImportInv
    <2>3. /\ importPc' \in [Runs -> {"new", "read", "write", "fetch", "peek"} \union Over]
          /\ todo' \in [Runs -> {"mark", "error", "count", "end"}]
        BY <1>1, <1>2 DEF Go, Over
    <2>4. /\ seen' \in [Runs -> Nat] /\ snap' \in [Runs -> JobRecords]
          /\ size' \in [Runs -> Nat] /\ left' \in [Runs -> Nat] /\ got' \in [Runs -> Nat]
        BY <1>1, <2>1 DEF ImportInv, ImportType
    <2>5. /\ importJob' \in JobRecords /\ jobFile' \in JobRecords
          /\ mixed' \in BOOLEAN /\ mixedFile' \in BOOLEAN
        <3>1. (mixed \/ importJob.run # r) \in BOOLEAN
            BY DEF ImportInv, ImportType
        <3> HIDE DEF Written, JobRecords
        <3> QED BY <2>2, <3>1 DEF Write, Store, jobVars, ImportInv, ImportType
    <2> QED BY <2>3, <2>4, <2>5 DEF ImportType
<1>6. CASE ~Here
    <2>1. UNCHANGED jobVars
        BY <1>6 DEF Write
    <2> QED BY <1>1, <1>2, <1>3, <1>4, <1>5, <1>6, <2>1, ThreadInv
<1>7. CASE Here
    <2>1. PICK j \in JobRecords : j = Written(r)
        BY WrittenJob DEF ImportInv
    <2>2. /\ j.run = snap[r].run
          /\ j.completed = IF todo[r] = "count" THEN seen[r] + 1
                            ELSE IF todo[r] = "end" THEN seen[r] ELSE snap[r].completed
          /\ j.errors = IF todo[r] = "error" THEN seen[r] + 1 ELSE snap[r].errors
          /\ j.status = "completed" => todo[r] = "end" \/ snap[r].status = "completed"
        BY <2>1, WrittenJob DEF ImportInv
    <2>3. /\ importJob' = j /\ mixed' = (mixed \/ importJob.run # r)
          /\ \/ jobFile' = j /\ mixedFile' = (mixed \/ importJob.run # r)
             \/ UNCHANGED <<jobFile, mixedFile>>
        BY <1>7, <2>1 DEF Write, Store
    <2>4. RunsNamed'
        <3>1. snap[r].run \in Runs
            BY <1>1 DEF ImportInv, RunsNamed
        <3> QED BY <1>2, <1>3, <1>4, <2>2, <2>3, <3>1
                DEF ImportInv, RunsNamed, Active, Over
    <2>5. ASSUME ~mixed, importJob.run = r
          PROVE  /\ importJob.status # "completed" /\ CountsRight(r) /\ ReadsRight(r)
                 /\ \A q \in Runs \ {r} : ~Active(q)
        BY <1>1, <1>7, <2>5 DEF ImportInv, SoleWriter
    <2>6. ASSUME ~mixed, importJob.run = r
          PROVE  /\ j.run = r
                 /\ j.completed = IF todo[r] = "count" THEN importJob.completed + 1
                                   ELSE IF todo[r] = "end" THEN size[r] ELSE importJob.completed
                 /\ j.errors = IF todo[r] = "error" THEN importJob.errors + 1
                                                    ELSE importJob.errors
                 /\ j.status = "completed" => todo[r] = "end"
                 /\ CountsRight(r)
        BY <1>1, <2>2, <2>5, <2>6 DEF ReadsRight
    <2>7. /\ importJob.completed \in Nat /\ importJob.errors \in Nat /\ size[r] \in Nat
          /\ left[r] \in Nat /\ got[r] \in Nat
        BY DEF ImportInv, ImportType, JobRecords
    <2>8. SoleWriter'
        <3> SUFFICES ASSUME Here', ~mixed', NEW q \in Runs, Active(q)'
                     PROVE  /\ importJob'.run = q /\ importJob'.status # "completed"
                            /\ CountsRight(q)' /\ ReadsRight(q)'
            BY DEF SoleWriter
        <3>1. ~mixed /\ importJob.run = r
            BY <2>3
        <3>2. q = r
            BY <1>4, <2>5, <3>1 DEF Active
        <3>3. where \in {"peek", "fetch"}
            BY <1>2, <1>3, <3>2 DEF Active
        <3>4. importJob'.run = r /\ importJob'.status # "completed"
            BY <1>2, <2>3, <2>6, <3>1, <3>3
        <3>5. CountsRight(r)'
            <4>1. UNCHANGED <<size, left, got>> /\ importPc'[r] = where /\ todo'[r] = what
                BY <1>1, <1>3
            <4>2. CASE where = "peek"
                <5>1. /\ importJob.completed + left[r] + 1 = size[r]
                      /\ importJob.errors + got[r] + left[r] + 1 = size[r]
                    BY <1>1, <1>2, <2>6, <3>1, <4>2 DEF CountsRight
                <5>2. j.completed = importJob.completed /\ j.errors = importJob.errors + 1
                      /\ what = "count"
                    BY <1>2, <2>6, <3>1, <4>2
                <5> QED BY <2>3, <2>7, <4>1, <4>2, <5>1, <5>2 DEF CountsRight
            <4>3. CASE where = "fetch"
                <5>1. todo[r] # "error" /\ todo[r] # "end" /\ importJob.errors + got[r] + left[r] = size[r]
                    BY <1>1, <1>2, <2>6, <3>1, <4>3 DEF CountsRight
                <5>2. /\ j.completed + left[r] = size[r]
                      /\ j.errors = importJob.errors
                    <6>1. IF todo[r] = "count" THEN importJob.completed + left[r] + 1 = size[r]
                                               ELSE importJob.completed + left[r] = size[r]
                        BY <1>1, <2>6, <3>1, <5>1 DEF CountsRight
                    <6> QED BY <2>6, <2>7, <3>1, <5>1, <6>1
                <5> QED BY <2>3, <2>7, <4>1, <4>3, <5>1, <5>2 DEF CountsRight
            <4> QED BY <3>3, <4>2, <4>3
        <3>6. ReadsRight(r)'
            BY <1>3, <3>3 DEF ReadsRight
        <3> QED BY <3>2, <3>4, <3>5, <3>6
    <2>9. ASSUME ~mixed, importJob.run = r, j.status = "completed"
          PROVE  /\ importPc'[r] \in Over /\ j.completed = size'[r] /\ j.errors + got'[r] = size'[r]
        <3>1. todo[r] = "end" /\ left[r] = 0 /\ importJob.errors + got[r] + left[r] = size[r]
            BY <1>1, <2>6, <2>9 DEF CountsRight
        <3> QED BY <1>1, <1>2, <1>3, <2>6, <2>7, <2>9, <3>1 DEF Over
    <2>10. ~mixed' => Tallied(importJob)'
        BY <2>3, <2>6, <2>9 DEF Tallied
    <2>11. ~mixedFile' => Tallied(jobFile)'
        <3>1. CASE jobFile' = j /\ mixedFile' = (mixed \/ importJob.run # r)
            BY <2>6, <2>9, <3>1 DEF Tallied
        <3>2. CASE UNCHANGED <<jobFile, mixedFile>>
            <4>1. importPc[r] \notin Over /\ \A q \in Runs : size'[q] = size[q] /\ got'[q] = got[q]
                BY <1>1 DEF Over
            <4> QED BY <1>4, <3>2, <4>1 DEF ImportInv, Tallies, Tallied
        <3> QED BY <2>3, <3>1, <3>2
    <2> QED BY <1>5, <2>4, <2>8, <2>10, <2>11 DEF ImportInv, Tallies
<1> QED BY <1>6, <1>7

LEMMA StartImportInv ==
    ASSUME ImportInv, NEW r \in Runs, NEW n \in 1 .. MaxNames, NEW saves \in BOOLEAN,
           StartImport(r, n, saves)
    PROVE  ImportInv'
<1>1. /\ importPc[r] = "new" /\ got[r] = 0 /\ n \in Nat /\ r \in Nat /\ r # 0
      /\ importPc \in [Runs -> {"new", "read", "write", "fetch", "peek"} \union Over]
      /\ todo \in [Runs -> {"mark", "error", "count", "end"}]
      /\ size' = [size EXCEPT ![r] = n] /\ left' = [left EXCEPT ![r] = n]
      /\ UNCHANGED <<got, seen, snap>>
    BY ImportAssumption DEF StartImport, ImportInv, ImportType, RunsNamed
<1>2. PICK where \in {"read", "died", "over"} :
          Go(r, where, "mark") /\ (where = "read" => Here /\ saves)
    BY DEF StartImport
<1>3. importPc'[r] = where /\ todo'[r] = "mark" /\ size'[r] = n /\ left'[r] = n /\ got'[r] = 0
    BY <1>1, <1>2 DEF Go, ImportInv, ImportType
<1>4. \A q \in Runs \ {r} :
          /\ importPc'[q] = importPc[q] /\ todo'[q] = todo[q] /\ left'[q] = left[q]
          /\ got'[q] = got[q] /\ seen'[q] = seen[q] /\ snap'[q] = snap[q] /\ size'[q] = size[q]
    BY <1>1, <1>2 DEF Go, ImportInv, ImportType
<1>5. PICK j \in JobRecords :
          j = Job(r, "pending", 0, 0)
          /\ j.run = r /\ j.status = "pending" /\ j.completed = 0 /\ j.errors = 0
    <2>1. Job(r, "pending", 0, 0) \in JobRecords
        BY <1>1 DEF Job, JobRecords
    <2>2. /\ Job(r, "pending", 0, 0).run = r /\ Job(r, "pending", 0, 0).status = "pending"
          /\ Job(r, "pending", 0, 0).completed = 0 /\ Job(r, "pending", 0, 0).errors = 0
        BY DEF Job
    <2> QED BY <2>1, <2>2
<1>6. PICK several \in BOOLEAN : several = (\E q \in Runs : Active(q))
    OBVIOUS
<1>7. \/ /\ Here /\ importJob' = j /\ mixed' = several
         /\ \/ jobFile' = j /\ mixedFile' = several
            \/ UNCHANGED <<jobFile, mixedFile>>
      \/ ~Here /\ UNCHANGED jobVars
    BY <1>5, <1>6 DEF StartImport, Store
<1>8. ImportType'
    <2>1. /\ importJob' \in JobRecords /\ jobFile' \in JobRecords
          /\ mixed' \in BOOLEAN /\ mixedFile' \in BOOLEAN
        BY <1>5, <1>6, <1>7 DEF ImportInv, ImportType, jobVars
    <2>2. /\ size' \in [Runs -> Nat] /\ left' \in [Runs -> Nat] /\ got' \in [Runs -> Nat]
          /\ seen' \in [Runs -> Nat] /\ snap' \in [Runs -> JobRecords]
        BY <1>1 DEF ImportInv, ImportType
    <2>3. /\ importPc' \in [Runs -> {"new", "read", "write", "fetch", "peek"} \union Over]
          /\ todo' \in [Runs -> {"mark", "error", "count", "end"}]
        BY <1>1, <1>2 DEF Go, Over
    <2> QED BY <2>1, <2>2, <2>3 DEF ImportType
<1>9. RunsNamed'
    <2>1. ASSUME NEW q \in Runs, Active(q)', Here' PROVE importJob'.run \in Runs
        <3>1. CASE importJob' = j
            BY <1>5, <3>1
        <3>2. CASE ~Here /\ UNCHANGED jobVars
            BY <2>1, <3>2 DEF Here, jobVars
        <3> QED BY <1>7, <3>1, <3>2
    <2>2. \A q \in Runs : (importPc[q] = "new" => got[q] = 0)'
        BY <1>2, <1>3, <1>4 DEF ImportInv, RunsNamed
    <2>3. \A q \in Runs : (importPc[q] = "write" => snap[q].run \in Runs)'
        BY <1>1, <1>2, <1>3, <1>4 DEF ImportInv, RunsNamed
    <2> QED BY <2>1, <2>2, <2>3 DEF RunsNamed
<1>10. SoleWriter'
    <2> SUFFICES ASSUME Here', ~mixed', NEW q \in Runs, Active(q)'
                 PROVE  /\ importJob'.run = q /\ importJob'.status # "completed"
                        /\ CountsRight(q)' /\ ReadsRight(q)'
        BY DEF SoleWriter
    <2>1. importJob' = j /\ ~several
        BY <1>7 DEF Here, jobVars
    <2>2. q = r
        BY <1>4, <1>6, <2>1 DEF Active
    <2>3. importPc'[r] = "read"
        BY <1>2, <1>3, <2>2 DEF Active
    <2> QED BY <1>1, <1>3, <1>5, <2>1, <2>2, <2>3 DEF CountsRight, ReadsRight
<1>11. importPc[r] \notin Over
    BY <1>1 DEF Over
<1>12. ~mixed' => Tallied(importJob)'
    <2>1. CASE importJob' = j
        BY <1>5, <2>1 DEF Tallied
    <2>2. CASE ~Here /\ UNCHANGED jobVars
        BY <2>2, GoneFacts DEF Here, jobVars, Tallied
    <2> QED BY <1>7, <2>1, <2>2
<1>13. ~mixedFile' => Tallied(jobFile)'
    <2>1. CASE jobFile' = j
        BY <1>5, <2>1 DEF Tallied
    <2>2. CASE UNCHANGED <<jobFile, mixedFile>>
        BY <1>4, <1>11, <2>2 DEF ImportInv, Tallies, Tallied
    <2> QED BY <1>7, <2>1, <2>2 DEF jobVars
<1> QED BY <1>8, <1>9, <1>10, <1>12, <1>13 DEF ImportInv, Tallies

\* An administrator edits or deletes the source.
LEMMA EditSourceInv ==
    ASSUME ImportInv, NEW saves \in BOOLEAN, EditSource(saves)
    PROVE  ImportInv'
<1>1. PICK j \in JobRecords :
          /\ j = Normalized(importJob) /\ j.run = importJob.run
          /\ j.completed = importJob.completed /\ j.errors = importJob.errors
          /\ j.status = "completed" <=> importJob.status = "completed"
    BY NormalizedJob DEF ImportInv, ImportType
<1>2. /\ Here /\ importJob' = j /\ mixed' = mixed
      /\ \/ jobFile' = j /\ mixedFile' = mixed
         \/ UNCHANGED <<jobFile, mixedFile>>
      /\ UNCHANGED <<importPc, todo, size, left, got, seen, snap>>
    BY <1>1 DEF EditSource, Store
<1>3. ImportType'
    BY <1>1, <1>2 DEF ImportInv, ImportType
<1>4. RunsNamed'
    BY <1>1, <1>2 DEF ImportInv, RunsNamed, Active
<1>5. SoleWriter'
    <2> SUFFICES ASSUME ~mixed, NEW q \in Runs, Active(q)
                 PROVE  /\ importJob'.run = q /\ importJob'.status # "completed"
                        /\ CountsRight(q)' /\ ReadsRight(q)'
        BY <1>2 DEF SoleWriter, Active
    <2>1. importJob.run = q /\ importJob.status # "completed" /\ CountsRight(q) /\ ReadsRight(q)
        BY <1>2 DEF ImportInv, SoleWriter
    <2> QED BY <1>1, <1>2, <2>1 DEF CountsRight, ReadsRight
<1>6. ~mixed' => Tallied(importJob)'
    BY <1>1, <1>2 DEF ImportInv, Tallies, Tallied
<1>7. ~mixedFile' => Tallied(jobFile)'
    BY <1>1, <1>2 DEF ImportInv, Tallies, Tallied
<1> QED BY <1>3, <1>4, <1>5, <1>6, <1>7 DEF ImportInv, Tallies

LEMMA DeleteSourceInv ==
    ASSUME ImportInv, NEW saves \in BOOLEAN, DeleteSource(saves)
    PROVE  ImportInv'
<1>1. /\ importJob' = Gone /\ mixed' = FALSE
      /\ \/ jobFile' = Gone /\ mixedFile' = FALSE
         \/ UNCHANGED <<jobFile, mixedFile>>
      /\ UNCHANGED <<importPc, todo, size, left, got, seen, snap>>
    BY DEF DeleteSource, Store
<1>2. ImportType'
    BY <1>1, GoneFacts DEF ImportInv, ImportType
<1>3. ~Here'
    BY <1>1 DEF Here, Gone, Job, Nobody
<1>4. RunsNamed' /\ SoleWriter'
    BY <1>1, <1>3 DEF ImportInv, RunsNamed, SoleWriter
<1>5. Tallies'
    BY <1>1, GoneFacts DEF ImportInv, Tallies, Tallied
<1> QED BY <1>2, <1>4, <1>5 DEF ImportInv

\* The process ends and starts again.
LEMMA RestartImportsInv ==
    ASSUME ImportInv, RestartImports
    PROVE  ImportInv'
<1>1. PICK j \in JobRecords :
          /\ j = Normalized(jobFile) /\ j.run = jobFile.run
          /\ j.completed = jobFile.completed /\ j.errors = jobFile.errors
          /\ j.status = "completed" <=> jobFile.status = "completed"
    BY NormalizedJob DEF ImportInv, ImportType
<1>2. /\ importJob' = j /\ mixed' = mixedFile /\ UNCHANGED <<jobFile, mixedFile, size, left, got>>
      /\ importPc' = [r \in Runs |-> IF importPc[r] = "new" THEN "new" ELSE "over"]
      /\ seen' = [r \in Runs |-> 0] /\ snap' = [r \in Runs |-> NoJob]
      /\ todo' = [r \in Runs |-> "mark"]
    BY <1>1 DEF RestartImports
<1>3. NoJob \in JobRecords
    BY DEF NoJob, Job, Nobody, JobRecords
<1>4. ImportType'
    BY <1>1, <1>2, <1>3 DEF ImportInv, ImportType, Over
<1>5. \A q \in Runs : ~Active(q)' /\ importPc'[q] # "write"
    BY <1>2 DEF Active
<1>6. RunsNamed' /\ SoleWriter'
    BY <1>2, <1>5 DEF ImportInv, RunsNamed, SoleWriter
<1>7. \A q \in Runs : importPc[q] \in Over => importPc'[q] \in Over
    BY <1>2 DEF Over
<1>8. Tallies'
    BY <1>1, <1>2, <1>7 DEF ImportInv, Tallies, Tallied
<1> QED BY <1>4, <1>6, <1>8 DEF ImportInv

LEMMA ImportNextInv == ImportInv /\ [ImportNext]_importVars => ImportInv'
<1> SUFFICES ASSUME ImportInv, [ImportNext]_importVars PROVE ImportInv'
    OBVIOUS
<1>1. ASSUME NEW r \in Runs, NEW n \in 1 .. MaxNames, NEW saves \in BOOLEAN, StartImport(r, n, saves)
      PROVE ImportInv'
    BY <1>1, StartImportInv
<1>2. ASSUME NEW r \in Runs, Thread(r) PROVE ImportInv'
    BY <1>2, PeekInv, ReadInv, WriteInv, FetchInv, AddAccountsInv DEF Thread
<1>3. ASSUME NEW saves \in BOOLEAN, EditSource(saves) \/ DeleteSource(saves) PROVE ImportInv'
    BY <1>3, EditSourceInv, DeleteSourceInv
<1>4. CASE RestartImports
    BY <1>4, RestartImportsInv
<1>5. CASE UNCHANGED importVars
    BY <1>5 DEF importVars, ImportInv, ImportType, RunsNamed, SoleWriter, CountsRight, ReadsRight,
                Tallies, Tallied, Active, Here
<1> QED BY <1>1, <1>2, <1>3, <1>4, <1>5 DEF ImportNext

\* The counters of a job that one import alone wrote, once it is completed, are
\* those of the import: start_import, _run_import, _append_error and _update_job.
THEOREM TalliesExact == ImportSpec => []TallyExact
<1>1. ImportInv => TallyExact
    BY DEF ImportInv, Tallies, Tallied, TallyExact
<1> QED BY <1>1, ImportInitInv, ImportNextInv, PTL DEF ImportSpec

-----------------------------------------------------------------------------
(* Image tasks.                                                            *)

Statuses == {"none"} \cup Unfinished \cup Terminal

\* What a task is, so that no later step has to take the records apart.
LEMMA TaskFacts ==
    /\ NoTask \in Task /\ NoTask.status = "none" /\ NoTask.old = FALSE
    /\ \A s \in Unfinished \cup Terminal :
         Now(s) \in Task /\ Now(s).status = s /\ Now(s).old = FALSE /\ Now(s) # NoTask
    /\ \A t \in Task :
         /\ t.status \in Statuses /\ t.old \in BOOLEAN
         /\ t.status = "none" <=> t = NoTask
         /\ t.old => t.status \in Terminal
  <1>1. NoTask \in Task /\ NoTask.status = "none" /\ NoTask.old = FALSE
    BY DEF NoTask, Task
  <1>2. ASSUME NEW s \in Unfinished \cup Terminal
        PROVE  Now(s) \in Task /\ Now(s).status = s /\ Now(s).old = FALSE /\ Now(s) # NoTask
    <2>1. Now(s).status = s /\ Now(s).old = FALSE
      BY DEF Now
    <2>2. Now(s) \in Task
      BY <1>2 DEF Now, Task
    <2>3. s # "none"
      BY <1>2 DEF Unfinished, Terminal
    <2> QED BY <1>1, <2>1, <2>2, <2>3
  <1>3. ASSUME NEW t \in Task
        PROVE  /\ t.status \in Statuses /\ t.old \in BOOLEAN
               /\ t.status = "none" <=> t = NoTask
               /\ t.old => t.status \in Terminal
    <2>1. CASE t = NoTask
      BY <2>1, <1>1 DEF Statuses
    <2>2. CASE t \in [status : Unfinished, old : {FALSE}]
      BY <2>2, <1>1 DEF Statuses, Unfinished
    <2>3. CASE t \in [status : Terminal, old : BOOLEAN]
      BY <2>3, <1>1 DEF Statuses, Terminal
    <2> QED BY <2>1, <2>2, <2>3 DEF Task
  <1> QED BY <1>1, <1>2, <1>3

LEMMA AgedFacts ==
    ASSUME NEW t \in Task
    PROVE  /\ AgedTask(t) \in Task /\ AgedTask(t).status = t.status
           /\ t.status \in Terminal => AgedTask(t).old
           /\ t.status \notin Terminal => AgedTask(t) = t
  BY DEF AgedTask, NoTask, Task, Unfinished, Terminal

\* Cleaning up and recovering keep the type; what is cleaned was old, and
\* what is recovered is finished.
LEMMA CleanedTasks ==
    ASSUME NEW tasks \in [Keys -> Task]
    PROVE  /\ Cleaned(tasks) \in [Keys -> Task]
           /\ \A k \in Keys : Cleaned(tasks)[k] = IF tasks[k].old THEN NoTask ELSE tasks[k]
  BY TaskFacts DEF Cleaned

LEMMA RecoveredTasks ==
    ASSUME NEW tasks \in [Keys -> Task]
    PROVE  /\ Recovered(tasks) \in [Keys -> Task]
           /\ \A k \in Keys : Recovered(tasks)[k] =
                IF tasks[k].status \in Unfinished THEN Now("error") ELSE tasks[k]
  BY TaskFacts DEF Recovered, Unfinished, Terminal

\* What follows a status that may be reported may be reported after it.
LEMMA LaterFacts ==
    ASSUME NEW told \in Unfinished \cup Terminal
    PROVE  /\ told \in Later(told)
           /\ "queued" \in Later(told) => "running" \in Later(told)
           /\ "running" \in Later(told) => "success" \in Later(told) /\ "error" \in Later(told)
           /\ \A s \in Unfinished : s \in Later(told) => "error" \in Later(told)
  <1>1. CASE told = "queued"
    BY <1>1 DEF Later, Unfinished, Terminal
  <1>2. CASE told = "running"
    BY <1>2 DEF Later, Unfinished, Terminal
  <1>3. CASE told \in Terminal
    BY <1>3 DEF Later, Unfinished, Terminal
  <1> QED BY <1>1, <1>2, <1>3 DEF Unfinished

\* What the invariant says of one key.
KeyKept(k) ==
    k \notin faulty =>
      /\ reported[k] # "none" /\ k \in early =>
           /\ up => Saving(k) \/ mem[k].status = "error"
           /\ disk[k].status \in Unfinished \cup {"error"} /\ ~disk[k].old
      /\ reported[k] # "none" /\ k \notin early =>
           disk[k].status \in Later(reported[k]) /\ ~disk[k].old
      /\ reported[k] # "none" =>
           \A r \in Runners : job[r] = k => mem[k].status \in Later(reported[k])
      /\ up /\ ~Saving(k) => mem[k] = disk[k] \/ (mem[k] = NoTask /\ disk[k].old)
      /\ Saving(k) => disk[k].status \in Unfinished /\ ~disk[k].old

LEMMA KeysKept == Kept /\ InStep /\ Ahead <=> \A k \in Keys : KeyKept(k)
  BY DEF Kept, InStep, Ahead, KeyKept

LEMMA KeysKeptNext == (Kept /\ InStep /\ Ahead)' <=> \A k \in Keys : KeyKept(k)'
  BY DEF Kept, InStep, Ahead, KeyKept, Saving

\* A key that nothing happens to is kept.
LEMMA KeyFrame ==
    ASSUME NEW x \in Keys, KeyKept(x), up' = up,
           mem'[x] = mem[x], disk'[x] = disk[x], reported'[x] = reported[x],
           x \in early' <=> x \in early, x \in faulty => x \in faulty',
           Saving(x)' <=> Saving(x),
           \A r \in Runners : job'[r] = x => \E s \in Runners : job[s] = x
    PROVE  KeyKept(x)'
  <1> DEFINE saves == Saving(x)
  <1>1. saves' <=> saves
    OBVIOUS
  <1> HIDE DEF saves
  <1>2. KeyKept(x)' <=>
          (x \notin faulty' =>
            /\ reported'[x] # "none" /\ x \in early' =>
                 /\ up' => saves' \/ mem'[x].status = "error"
                 /\ disk'[x].status \in Unfinished \cup {"error"} /\ ~disk'[x].old
            /\ reported'[x] # "none" /\ x \notin early' =>
                 disk'[x].status \in Later(reported'[x]) /\ ~disk'[x].old
            /\ reported'[x] # "none" =>
                 \A r \in Runners : job'[r] = x => mem'[x].status \in Later(reported'[x])
            /\ up' /\ ~saves' => mem'[x] = disk'[x] \/ (mem'[x] = NoTask /\ disk'[x].old)
            /\ saves' => disk'[x].status \in Unfinished /\ ~disk'[x].old)
    BY DEF KeyKept, saves
  <1>3. KeyKept(x)
    OBVIOUS
  <1> QED BY <1>1, <1>2, <1>3 DEF KeyKept, saves

\* Of a key that is reported on and not being written, the file holds what
\* memory holds.
LEMMA ToldKey ==
    ASSUME Inductive, up, NEW x \in Keys \ faulty, ~Saving(x), reported[x] # "none"
    PROVE  /\ mem[x] = disk[x] /\ ~mem[x].old
           /\ x \in early => mem[x].status = "error"
           /\ x \notin early => mem[x].status \in Later(reported[x])
  BY KeysKept DEF Inductive, KeyKept

\* The cleanup keeps a key, and so does a report of what it leaves.
LEMMA KeyCleaned ==
    ASSUME Inductive, up, up', NEW x \in Keys, ~Saving(x), ~Saving(x)',
           mem'[x] = IF mem[x].old THEN NoTask ELSE mem[x],
           disk'[x] \in {disk[x], mem'[x]},
           \/ reported'[x] = reported[x] /\ (x \in early' <=> x \in early)
           \/ reported'[x] = mem'[x].status /\ x \notin early',
           x \in faulty => x \in faulty',
           \A r \in Runners : job'[r] = x => \E s \in Runners : job[s] = x
    PROVE  KeyKept(x)'
  <1> SUFFICES ASSUME x \notin faulty' PROVE KeyKept(x)'
    BY DEF KeyKept
  <1> USE TaskFacts
  <1>t. mem[x] \in Task /\ disk[x] \in Task /\ reported[x] \in Statuses
    BY DEF Inductive, TypeOK, Statuses
  <1>1. mem[x] = disk[x] \/ (mem[x] = NoTask /\ disk[x].old)
    BY KeysKept DEF Inductive, KeyKept
  <1>2. mem'[x] = disk'[x] \/ (mem'[x] = NoTask /\ disk'[x].old)
    BY <1>1
  <1>3. CASE reported'[x] = "none"
    BY <1>2, <1>3 DEF KeyKept, Saving
  <1>4. CASE /\ reported'[x] # "none"
             /\ reported'[x] = reported[x] /\ (x \in early' <=> x \in early)
    <2>1. /\ mem[x] = disk[x] /\ ~mem[x].old
          /\ x \in early => mem[x].status = "error"
          /\ x \notin early => mem[x].status \in Later(reported[x])
      BY <1>4, ToldKey
    <2>2. mem'[x] = mem[x] /\ disk'[x] = mem[x]
      BY <2>1
    <2>3. \A r \in Runners : job'[r] = x => mem[x].status \in Later(reported[x])
      BY <1>4 DEF Inductive, Ahead
    <2> QED BY <1>4, <2>1, <2>2, <2>3 DEF KeyKept, Saving
  <1>5. CASE reported'[x] # "none" /\ reported'[x] = mem'[x].status /\ x \notin early'
    <2>1. mem'[x] = mem[x] /\ ~mem[x].old /\ disk'[x] = mem[x]
      BY <1>1, <1>5
    <2>2. mem[x].status \in Later(mem[x].status)
      BY <1>5, <2>1, <1>t, LaterFacts DEF Statuses
    <2> QED BY <1>5, <2>1, <2>2 DEF KeyKept, Saving
  <1> QED BY <1>3, <1>4, <1>5

\* A thread that nothing happens to stays in its place.
LEMMA PlaceFrame ==
    ASSUME NEW s \in Runners, Place(s), up' = up, pc'[s] = pc[s], job'[s] = job[s],
           pc[s] # "none" => mem'[job[s]] = mem[job[s]],
           pc[s] # "none" /\ job[s] \in faulty => job[s] \in faulty'
    PROVE  Place(s)'
  BY DEF Place

\* What the cleanup leaves alone: the tasks of threads and open submissions.
LEMMA NotCleaned ==
    ASSUME TaskAssumption, Inductive
    PROVE  /\ \A s \in Runners : pc[s] # "none" => job[s] \in Keys /\ ~mem[job[s]].old /\ mem[job[s]] # NoTask
           /\ \A s \in Runners : pc[s] = "none" <=> job[s] = NoKey
  BY TaskFacts DEF Inductive, TypeOK, RunnerShape, Place

\* The invariant holds at the start.
LEMMA InitInductive == Init => Inductive
  <1> SUFFICES ASSUME Init PROVE Inductive
    OBVIOUS
  <1> USE TaskFacts DEF Init
  <1>1. TypeOK /\ RunnerShape
    BY DEF TypeOK, RunnerShape, Place
  <1>2. Attended
    BY DEF Attended, Unfinished
  <1>3. \A k \in Keys : KeyKept(k)
    BY DEF KeyKept, Saving
  <1> QED BY <1>1, <1>2, <1>3, KeysKept DEF Inductive

\* While nobody is inside an update, no key is being written.
LEMMA NobodySaves == LockFree => \A k \in Keys : ~Saving(k)
  BY DEF LockFree, Saving

\* A submission keeps it.
LEMMA SubmitInductive ==
    ASSUME TaskAssumption, Inductive,
           NEW k \in Keys, NEW r \in Runners, Submit(k, r)
    PROVE  Inductive'
  <1> USE TaskFacts
  <1>c. Cleaned(mem) \in [Keys -> Task] /\ \A x \in Keys :
          Cleaned(mem)[x] = IF mem[x].old THEN NoTask ELSE mem[x]
    BY CleanedTasks DEF TypeOK, Inductive
  <1>q. "queued" \in Unfinished
    BY DEF Unfinished
  <1>t. TypeOK /\ RunnerShape /\ Attended
    BY DEF Inductive
  <1>d. /\ up /\ LockFree /\ job[r] = NoKey /\ Cleaned(mem)[k] = NoTask
        /\ mem' = [Cleaned(mem) EXCEPT ![k] = Now("queued")] /\ disk' = mem'
        /\ job' = [job EXCEPT ![r] = k] /\ pc' = [pc EXCEPT ![r] = "submit"]
        /\ reported' = [reported EXCEPT ![k] = "none"]
        /\ early' = early \ {k} /\ faulty' = faulty \ {k} /\ up' = up /\ asking' = asking
    BY DEF Submit, NewTask, Idle
  <1>m. mem' \in [Keys -> Task] /\ \A x \in Keys :
          mem'[x] = IF x = k THEN Now("queued")
                    ELSE IF mem[x].old THEN NoTask ELSE mem[x]
    BY <1>c, <1>q, <1>d
  <1>n. (\A s \in Runners : job[s] # k) /\ k \notin asking
    <2>1. mem[k].old \/ mem[k] = NoTask
      BY <1>c, <1>d
    <2> QED BY <2>1, <1>t, NotCleaned DEF RunnerShape, TypeOK, TaskAssumption
  <1>j. /\ job'[r] = k /\ pc'[r] = "submit"
        /\ \A s \in Runners : s # r => job'[s] = job[s] /\ pc'[s] = pc[s]
    BY <1>d, <1>t DEF TypeOK
  <1>1. TypeOK'
    BY <1>m, <1>q, <1>d, <1>t DEF TypeOK
  <1>2. RunnerShape'
    <2>1. ASSUME NEW s \in Runners, s # r PROVE Place(s)'
      <3>1. pc[s] # "none" => mem'[job[s]] = mem[job[s]] /\ job[s] # k
        BY <1>m, <1>n, NotCleaned
      <3> QED BY <2>1, <3>1, <1>t, <1>d, <1>j, PlaceFrame DEF RunnerShape
    <2>2. Place(r)'
      BY <1>j, <1>m, <1>d, <1>q DEF Place, TaskAssumption
    <2>3. \A x \in asking' : up' /\ mem'[x] # NoTask /\ ~mem'[x].old
      BY <1>d, <1>m, <1>n, <1>t DEF RunnerShape, TypeOK
    <2>4. \A s \in Runners : pc'[s] # "saving"
      BY <1>d, <1>j DEF LockFree
    <2> QED BY <2>1, <2>2, <2>3, <2>4, <1>d DEF RunnerShape
  <1>3. Attended'
    BY <1>m, <1>q, <1>n, <1>d, <1>j, <1>t DEF TypeOK, Attended, TaskAssumption,
                Unfinished, Terminal
  <1>4. ASSUME NEW x \in Keys PROVE KeyKept(x)'
    <2>1. ~Saving(x) /\ ~Saving(x)'
      BY <1>d, <1>j DEF Saving, LockFree
    <2>2. CASE x # k
      <3>1. /\ reported'[x] = reported[x] /\ (x \in early' <=> x \in early)
            /\ x \in faulty => x \in faulty'
            /\ \A s \in Runners : job'[s] = x => \E t \in Runners : job[t] = x
        BY <2>2, <1>d, <1>j, <1>t DEF TypeOK
      <3> QED BY <2>1, <2>2, <3>1, <1>d, <1>m, KeyCleaned
    <2>3. CASE x = k
      BY <2>1, <2>3, <1>d, <1>t DEF KeyKept, TypeOK, Saving
    <2> QED BY <2>2, <2>3
  <1> QED BY <1>1, <1>2, <1>3, <1>4, KeysKeptNext DEF Inductive


\* A failed submission keeps it: the key of the stranded task is faulty.
LEMMA SubmitFailsInductive ==
    ASSUME TaskAssumption, Inductive, NEW k \in Keys, SubmitFails(k)
    PROVE  Inductive'
  <1> USE TaskFacts
  <1>c. Cleaned(mem) \in [Keys -> Task] /\ \A x \in Keys :
          Cleaned(mem)[x] = IF mem[x].old THEN NoTask ELSE mem[x]
    BY CleanedTasks DEF TypeOK, Inductive
  <1>q. "queued" \in Unfinished
    BY DEF Unfinished
  <1>t. TypeOK /\ RunnerShape /\ Attended
    BY DEF Inductive
  <1>d. /\ up /\ LockFree /\ Cleaned(mem)[k] = NoTask
        /\ mem' = [Cleaned(mem) EXCEPT ![k] = Now("queued")] /\ faulty' = faulty \cup {k}
        /\ UNCHANGED <<up, disk, pc, job, asking, reported, early>>
    BY DEF SubmitFails, threads, reports
  <1>m. mem' \in [Keys -> Task] /\ \A x \in Keys :
          mem'[x] = IF x = k THEN Now("queued")
                    ELSE IF mem[x].old THEN NoTask ELSE mem[x]
    BY <1>c, <1>q, <1>d
  <1>1. TypeOK'
    BY <1>m, <1>d, <1>t DEF TypeOK
  <1>2. RunnerShape'
    <2>1. mem[k].old \/ mem[k] = NoTask
      BY <1>c, <1>d
    <2>2. ASSUME NEW s \in Runners PROVE Place(s)'
      <3>1. pc[s] # "none" => mem'[job[s]] = mem[job[s]]
        BY <2>1, <1>m, NotCleaned
      <3> QED BY <3>1, <1>t, <1>d, PlaceFrame DEF RunnerShape
    <2>3. \A x \in asking' : up' /\ mem'[x] # NoTask /\ ~mem'[x].old
      BY <2>1, <1>d, <1>m, <1>t DEF RunnerShape, TypeOK
    <2> QED BY <2>2, <2>3, <1>d, <1>t DEF RunnerShape
  <1>3. Attended'
    BY <1>m, <1>d, <1>t DEF Attended, Unfinished
  <1>4. ASSUME NEW x \in Keys PROVE KeyKept(x)'
    <2>1. CASE x = k
      BY <2>1, <1>d DEF KeyKept
    <2>2. CASE x # k
      <3>1. ~Saving(x) /\ ~Saving(x)'
        BY <1>d DEF Saving, LockFree
      <3> QED BY <2>2, <3>1, <1>d, <1>m, KeyCleaned
    <2> QED BY <2>1, <2>2
  <1> QED BY <1>1, <1>2, <1>3, <1>4, KeysKeptNext DEF Inductive

\* Looking at the tasks under the lock keeps it, whether or not the cleanup is
\* written.
LEMMA PollInductive ==
    ASSUME TaskAssumption, Inductive, (\E K \in SUBSET Keys : Poll(K)) \/ PollFails
    PROVE  Inductive'
  <1> USE TaskFacts
  <1>t. TypeOK /\ RunnerShape /\ Attended
    BY DEF Inductive
  <1>c. mem' \in [Keys -> Task] /\ \A x \in Keys :
          mem'[x] = IF mem[x].old THEN NoTask ELSE mem[x]
    BY <1>t, CleanedTasks DEF TypeOK, Poll, PollFails
  <1>u. /\ up /\ LockFree /\ UNCHANGED <<up, pc, job, asking, faulty>>
        /\ disk' \in {disk, mem'}
    BY DEF Poll, PollFails, threads, reports
  <1>r. \A x \in Keys : \/ reported'[x] = reported[x] /\ (x \in early' <=> x \in early)
                        \/ reported'[x] = mem'[x].status /\ x \notin early'
    BY DEF Poll, PollFails, reports
  <1>1. TypeOK'
    <2>1. reported' \in [Keys -> {"none"} \cup Unfinished \cup Terminal] /\ early' \in SUBSET Keys
      BY <1>c, <1>t DEF TypeOK, Poll, PollFails, Statuses, reports
    <2> QED BY <2>1, <1>c, <1>u, <1>t DEF TypeOK
  <1>2. RunnerShape'
    <2>1. ASSUME NEW s \in Runners PROVE Place(s)'
      <3>1. pc[s] # "none" => mem'[job[s]] = mem[job[s]]
        BY <1>c, NotCleaned
      <3> QED BY <3>1, <1>t, <1>u, PlaceFrame DEF RunnerShape
    <2>2. \A x \in asking' : up' /\ mem'[x] # NoTask /\ ~mem'[x].old
      BY <1>u, <1>c, <1>t DEF RunnerShape, TypeOK
    <2> QED BY <2>1, <2>2, <1>u, <1>t DEF RunnerShape
  <1>3. Attended'
    BY <1>c, <1>u, <1>t DEF Attended, Unfinished
  <1>4. ASSUME NEW x \in Keys PROVE KeyKept(x)'
    <2>1. ~Saving(x) /\ ~Saving(x)'
      BY <1>u DEF Saving, LockFree
    <2>2. disk'[x] \in {disk[x], mem'[x]}
      BY <1>u
    <2> QED BY <2>1, <2>2, <1>u, <1>c, <1>r, KeyCleaned
  <1> QED BY <1>1, <1>2, <1>3, <1>4, KeysKeptNext DEF Inductive

\* The answer of a submission keeps it: if memory is ahead of the file, the
\* thread is inside an update of that very task.
LEMMA AnswerInductive ==
    ASSUME TaskAssumption, Inductive, NEW k \in Keys, AnswerSubmission(k)
    PROVE  Inductive'
  <1> USE TaskFacts
  <1>t. TypeOK /\ RunnerShape /\ Attended
    BY DEF Inductive
  <1>d. /\ k \in asking /\ asking' = asking \ {k}
        /\ reported' = [reported EXCEPT ![k] = mem[k].status]
        /\ early' = IF mem[k] = disk[k] THEN early \ {k} ELSE early \cup {k}
        /\ UNCHANGED <<up, mem, disk, pc, job, faulty>>
    BY DEF AnswerSubmission, threads
  <1>k. up /\ mem[k] # NoTask /\ ~mem[k].old /\ mem[k].status \in Unfinished \cup Terminal
    <2>1. up /\ mem[k] # NoTask /\ ~mem[k].old
      BY <1>d, <1>t DEF RunnerShape
    <2>2. mem[k] \in Task
      BY <1>t DEF TypeOK
    <2> QED BY <2>1, <2>2 DEF Statuses
  <1>1. TypeOK'
    BY <1>d, <1>k, <1>t DEF TypeOK
  <1>2. RunnerShape'
    <2>1. ASSUME NEW s \in Runners PROVE Place(s)'
      BY <1>t, <1>d, PlaceFrame DEF RunnerShape
    <2> QED BY <2>1, <1>d, <1>t DEF RunnerShape
  <1>3. Attended'
    BY <1>d, <1>t DEF Attended
  <1>4. ASSUME NEW x \in Keys PROVE KeyKept(x)'
    <2>0. KeyKept(x) /\ (Saving(x)' <=> Saving(x))
      BY <1>d, KeysKept DEF Inductive, Saving
    <2>1. CASE x # k
      <3>1. reported'[x] = reported[x] /\ (x \in early' <=> x \in early)
        BY <2>1, <1>d, <1>t DEF TypeOK
      <3> QED BY <2>0, <3>1, <1>d, KeyFrame
    <2>2. CASE x = k /\ x \notin faulty
      <3>1. reported'[k] = mem[k].status /\ mem[k].status \in Later(reported'[k])
        BY <1>d, <1>k, <1>t, LaterFacts DEF TypeOK
      <3>2. CASE mem[k] = disk[k]
        BY <2>0, <2>2, <3>1, <3>2, <1>d, <1>k DEF KeyKept, Saving
      <3>3. CASE mem[k] # disk[k]
        <4>1. Saving(k) /\ disk[k].status \in Unfinished /\ ~disk[k].old
          BY <2>0, <2>2, <3>3, <1>k DEF KeyKept
        <4> QED BY <4>1, <2>0, <2>2, <3>1, <3>3, <1>d DEF KeyKept, Saving
      <3> QED BY <3>2, <3>3
    <2>3. CASE x = k /\ x \in faulty
      BY <2>3, <1>d DEF KeyKept
    <2> QED BY <2>1, <2>2, <2>3
  <1> QED BY <1>1, <1>2, <1>3, <1>4, KeysKeptNext DEF Inductive

\* Time, crashes and restarts keep it.
LEMMA AgeInductive ==
    ASSUME TaskAssumption, Inductive, NEW k \in Keys, Age(k)
    PROVE  Inductive'
  <1> USE TaskFacts
  <1>t. TypeOK /\ RunnerShape /\ Attended
    BY DEF Inductive
  <1>a. /\ mem' = [mem EXCEPT ![k] = AgedTask(mem[k])]
        /\ disk' = [disk EXCEPT ![k] = AgedTask(disk[k])]
        /\ reported' = [reported EXCEPT ![k] = "none"]
        /\ early' = early \ {k}
        /\ UNCHANGED <<up, pc, job, asking, faulty>>
        /\ k \notin asking /\ \A s \in Runners : job[s] # k
    BY DEF Age, threads
  <1>b. /\ AgedTask(mem[k]) \in Task /\ AgedTask(disk[k]) \in Task
        /\ AgedTask(mem[k]).status = mem[k].status
        /\ mem[k].status \notin Terminal => AgedTask(mem[k]) = mem[k]
        /\ disk[k].old => AgedTask(disk[k]).old
    BY <1>t, AgedFacts DEF TypeOK
  <1>1. TypeOK'
    BY <1>a, <1>b, <1>t DEF TypeOK
  <1>2. RunnerShape'
    <2>1. ASSUME NEW s \in Runners PROVE Place(s)'
      <3>1. mem'[job[s]] = mem[job[s]]
        BY <1>a, <1>t DEF TypeOK
      <3> QED BY <3>1, <1>t, <1>a, PlaceFrame DEF RunnerShape
    <2>2. mem[k] = NoTask => mem'[k] = NoTask
      BY <1>a, <1>b, <1>t DEF TypeOK, Terminal
    <2>3. \A x \in Keys : x # k => mem'[x] = mem[x]
      BY <1>a
    <2> QED BY <2>1, <2>2, <2>3, <1>a, <1>t DEF RunnerShape, TypeOK
  <1>3. Attended'
    BY <1>a, <1>b, <1>t DEF Attended, TypeOK
  <1>4. ASSUME NEW x \in Keys PROVE KeyKept(x)'
    <2>0. KeyKept(x) /\ (Saving(x)' <=> Saving(x))
      BY <1>a, KeysKept DEF Inductive, Saving
    <2>1. CASE x # k
      <3>1. /\ reported'[x] = reported[x] /\ (x \in early' <=> x \in early)
            /\ mem'[x] = mem[x] /\ disk'[x] = disk[x]
        BY <2>1, <1>a, <1>t DEF TypeOK
      <3> QED BY <2>0, <3>1, <1>a, KeyFrame
    <2>2. CASE x = k
      <3>1. ~Saving(k) /\ ~Saving(k)' /\ reported'[k] = "none"
        BY <1>a, <1>t DEF Saving, TypeOK
      <3>2. /\ mem'[k] = AgedTask(mem[k]) /\ disk'[k] = AgedTask(disk[k])
            /\ mem[k] = NoTask => mem'[k] = NoTask
        BY <1>a, <1>b, <1>t DEF TypeOK, Terminal
      <3> QED BY <2>0, <2>2, <3>1, <3>2, <1>a, <1>b DEF KeyKept, Saving
    <2> QED BY <2>1, <2>2
  <1> QED BY <1>1, <1>2, <1>3, <1>4, KeysKeptNext DEF Inductive

\* What an update has not written yet is unfinished in the file.
LEMMA CrashInductive ==
    ASSUME TaskAssumption, Inductive, Crash
    PROVE  Inductive'
  <1> USE TaskFacts
  <1>t. TypeOK /\ RunnerShape /\ Attended
    BY DEF Inductive
  <1>d. /\ up /\ up' = FALSE /\ mem' = [k \in Keys |-> NoTask]
        /\ pc' = [r \in Runners |-> "none"] /\ job' = [r \in Runners |-> NoKey]
        /\ asking' = {} /\ UNCHANGED <<disk, reported, early, faulty>>
    BY DEF Crash, reports
  <1>1. TypeOK'
    BY <1>d, <1>t DEF TypeOK
  <1>2. RunnerShape'
    BY <1>d DEF RunnerShape, Place
  <1>3. Attended'
    BY <1>d DEF Attended, Unfinished
  <1>4. ASSUME NEW x \in Keys PROVE KeyKept(x)'
    <2>1. KeyKept(x)
      BY KeysKept DEF Inductive
    <2>2. ~Saving(x)' /\ \A r \in Runners : job'[r] # x
      BY <1>d DEF Saving, TaskAssumption
    <2> QED BY <1>d, <2>1, <2>2 DEF KeyKept, Saving
  <1> QED BY <1>1, <1>2, <1>3, <1>4, KeysKeptNext DEF Inductive

\* What was told of an unfinished task becomes an error.
LEMMA RestartInductive ==
    ASSUME TaskAssumption, Inductive, Restart
    PROVE  Inductive'
  <1> USE TaskFacts
  <1>t. TypeOK /\ RunnerShape /\ Attended
    BY DEF Inductive
  <1>r. Recovered(disk) \in [Keys -> Task] /\ \A x \in Keys : Recovered(disk)[x] =
          IF disk[x].status \in Unfinished THEN Now("error") ELSE disk[x]
    BY <1>t, RecoveredTasks DEF TypeOK
  <1>d. /\ ~up /\ up' = TRUE /\ mem' = Cleaned(Recovered(disk)) /\ disk' = mem'
        /\ UNCHANGED <<pc, job, asking, reported, early, faulty>>
    BY DEF Restart, threads, reports
  <1>c. mem' \in [Keys -> Task] /\ \A x \in Keys : mem'[x] =
          IF Recovered(disk)[x].old THEN NoTask ELSE Recovered(disk)[x]
    BY <1>r, <1>d, CleanedTasks
  <1>e. "error" \in Terminal /\ Unfinished \cap Terminal = {} /\ "none" \notin Unfinished
    BY DEF Unfinished, Terminal
  <1>m. \A x \in Keys :
          /\ mem'[x].status \notin Unfinished
          /\ ~disk[x].old =>
               mem'[x] = IF disk[x].status \in Unfinished THEN Now("error") ELSE disk[x]
    BY <1>r, <1>c, <1>e
  <1>n. (\A s \in Runners : pc[s] = "none" /\ job[s] = NoKey) /\ asking = {}
    BY <1>d, <1>t DEF RunnerShape, Place
  <1>1. TypeOK'
    BY <1>c, <1>d, <1>t DEF TypeOK
  <1>2. RunnerShape'
    <2>1. \A s \in Runners : Place(s)'
      BY <1>d, <1>n DEF Place
    <2> QED BY <2>1, <1>d, <1>n DEF RunnerShape
  <1>3. Attended'
    BY <1>m, <1>d, <1>n DEF Attended
  <1>4. ASSUME NEW x \in Keys PROVE KeyKept(x)'
    <2>1. KeyKept(x) /\ ~Saving(x)' /\ \A r \in Runners : job'[r] # x
      BY <1>n, <1>d, KeysKept DEF Inductive, Saving, TaskAssumption
    <2>2. CASE x \notin faulty /\ reported[x] # "none" /\ x \in early
      <3>1. disk[x].status \in Unfinished \cup {"error"} /\ ~disk[x].old
        BY <2>1, <2>2 DEF KeyKept
      <3>2. mem'[x].status = "error" /\ ~mem'[x].old
        BY <3>1, <1>m, <1>e
      <3> QED BY <2>1, <2>2, <3>2, <1>d DEF KeyKept, Saving
    <2>3. CASE x \notin faulty /\ reported[x] # "none" /\ x \notin early
      <3>1. disk[x].status \in Later(reported[x]) /\ ~disk[x].old
        BY <2>1, <2>3 DEF KeyKept
      <3>2. reported[x] \in Unfinished \cup Terminal
        BY <2>3, <1>t DEF TypeOK
      <3>3. mem'[x].status \in Later(reported[x]) /\ ~mem'[x].old
        BY <3>1, <3>2, <1>m, <1>e, LaterFacts
      <3> QED BY <2>1, <2>3, <3>3, <1>d DEF KeyKept, Saving
    <2>4. CASE x \in faulty \/ reported[x] = "none"
      BY <2>1, <2>4, <1>d DEF KeyKept, Saving
    <2> QED BY <2>2, <2>3, <2>4
  <1> QED BY <1>1, <1>2, <1>3, <1>4, KeysKeptNext DEF Inductive

\* Of a step of a thread: the others do not notice it, for no other thread works
\* for its task.
LEMMA OthersStay ==
    ASSUME TaskAssumption, Inductive, NEW r \in Runners, pc[r] # "none", up' = up,
           \A s \in Runners : s # r => pc'[s] = pc[s] /\ job'[s] = job[s],
           job'[r] \in {job[r], NoKey},
           \A x \in Keys : x # job[r] => mem'[x] = mem[x],
           \A x \in Keys : x \in faulty => x \in faulty'
    PROVE  /\ job[r] \in Keys /\ up
           /\ \A s \in Runners : s # r => job[s] # job[r] /\ Place(s)'
           /\ \A x \in Keys : x # job[r] => (Saving(x)' <=> Saving(x))
           /\ \A x \in Keys : \A s \in Runners : job'[s] = x => \E t \in Runners : job[t] = x
           /\ \A s, t \in Runners : job'[s] = job'[t] /\ job'[s] # NoKey => s = t
  <1>t. TypeOK /\ RunnerShape /\ Attended
    BY DEF Inductive
  <1>1. job[r] \in Keys /\ up /\ job[r] # NoKey
    BY <1>t, NotCleaned DEF RunnerShape, Place, TaskAssumption
  <1>2. \A s \in Runners : s # r => job[s] # job[r]
    BY <1>1, <1>t DEF Attended
  <1>3. ASSUME NEW s \in Runners, s # r PROVE Place(s)'
    <2>1. pc[s] # "none" => job[s] \in Keys /\ mem'[job[s]] = mem[job[s]]
      BY <1>2, <1>3, NotCleaned
    <2> QED BY <1>3, <1>t, <2>1, PlaceFrame DEF RunnerShape
  <1>4. ASSUME NEW x \in Keys, x # job[r] PROVE Saving(x)' <=> Saving(x)
    <2>1. \A s \in Runners : job'[s] = x <=> job[s] = x
      BY <1>4 DEF TaskAssumption
    <2>2. \A s \in Runners : job[s] = x => pc'[s] = pc[s]
      BY <1>4
    <2>3. Saving(x)' <=> \E s \in Runners : job'[s] = x /\ pc'[s] = "saving"
      BY DEF Saving
    <2>4. Saving(x) <=> \E s \in Runners : job[s] = x /\ pc[s] = "saving"
      BY DEF Saving
    <2> QED BY <2>1, <2>2, <2>3, <2>4
  <1>5. \A x \in Keys : \A s \in Runners : job'[s] = x => \E t \in Runners : job[t] = x
    BY DEF TaskAssumption
  <1>6. \A s, t \in Runners : job'[s] = job'[t] /\ job'[s] # NoKey => s = t
    BY <1>2, <1>t DEF Attended
  <1> QED BY <1>1, <1>2, <1>3, <1>4, <1>5, <1>6

\* Between the updates a thread moves, or the submission fails to start it.
LEMMA MovesInductive ==
    ASSUME TaskAssumption, Inductive, NEW r \in Runners,
           StartThread(r) \/ StartFails(r) \/ HandlerFails(r)
    PROVE  Inductive'
  <1>t. TypeOK /\ RunnerShape /\ Attended
    BY DEF Inductive
  <1>d. /\ pc[r] \in {"submit", "work"} /\ UNCHANGED <<up, mem, disk, reported, early>>
        /\ \A s \in Runners : s # r => pc'[s] = pc[s] /\ job'[s] = job[s]
        /\ asking' \in {asking, asking \cup {job[r]}}
        /\ \/ pc'[r] = "start" /\ pc[r] = "submit" /\ job'[r] = job[r] /\ faulty' = faulty
           \/ pc'[r] = "failed" /\ pc[r] = "work" /\ job'[r] = job[r] /\ faulty' = faulty
           \/ pc'[r] = "none" /\ job'[r] = NoKey /\ faulty' = faulty \cup {job[r]}
        /\ pc' \in [Runners -> {"none", "submit", "start", "work", "failed", "saving"}]
        /\ job' \in [Runners -> Keys \cup {NoKey}]
    BY <1>t DEF StartThread, StartFails, HandlerFails, Goes, Ends, TypeOK, reports
  <1>o. /\ job[r] \in Keys /\ up
        /\ \A s \in Runners : s # r => job[s] # job[r] /\ Place(s)'
        /\ \A x \in Keys : x # job[r] => (Saving(x)' <=> Saving(x))
        /\ \A x \in Keys : \A s \in Runners : job'[s] = x => \E t \in Runners : job[t] = x
        /\ \A s, t \in Runners : job'[s] = job'[t] /\ job'[s] # NoKey => s = t
    BY <1>d, OthersStay
  <1>p. mem[job[r]] # NoTask /\ ~mem[job[r]].old /\ job[r] # NoKey /\ Place(r)
    BY <1>d, <1>o, <1>t, NotCleaned DEF RunnerShape, TaskAssumption
  <1>1. TypeOK'
    BY <1>d, <1>o, <1>t DEF TypeOK
  <1>2. RunnerShape'
    <2>1. Place(r)'
      BY <1>d, <1>p DEF Place
    <2>2. \A s, t \in Runners : pc'[s] = "saving" /\ pc'[t] = "saving" => s = t
      BY <1>d, <1>t DEF RunnerShape
    <2>3. \A s \in Runners : Place(s)'
      BY <2>1, <1>o
    <2> QED BY <2>2, <2>3, <1>d, <1>o, <1>p, <1>t DEF RunnerShape
  <1>3. Attended'
    <2>1. ASSUME NEW x \in Keys \ faulty', mem'[x].status \in Unfinished
          PROVE  \E s \in Runners : job'[s] = x
      <3>1. PICK s \in Runners : job[s] = x
        BY <2>1, <1>d, <1>t DEF Attended
      <3> QED BY <2>1, <3>1, <1>d
    <2> QED BY <2>1, <1>o DEF Attended
  <1>4. ASSUME NEW x \in Keys PROVE KeyKept(x)'
    <2>1. KeyKept(x) /\ (x \in faulty => x \in faulty')
      BY <1>d, KeysKept DEF Inductive
    <2>2. Saving(x)' <=> Saving(x)
      <3>1. CASE x = job[r]
        BY <3>1, <1>d, <1>o DEF Saving, TaskAssumption
      <3> QED BY <3>1, <1>o
    <2> QED BY <2>1, <2>2, <1>d, <1>o, KeyFrame
  <1> QED BY <1>1, <1>2, <1>3, <1>4, KeysKeptNext DEF Inductive

\* The first half of an update.
LEMMA ChangeInductive ==
    ASSUME TaskAssumption, Inductive, NEW r \in Runners, Begin(r) \/ Succeed(r) \/ Fail(r)
    PROVE  Inductive'
  <1> USE TaskFacts
  <1>t. TypeOK /\ RunnerShape /\ Attended
    BY DEF Inductive
  <1> DEFINE k == job[r]
  <1>s. PICK status \in {"running", "success", "error"} :
          /\ Change(r, status)
          /\ \/ pc[r] = "start" /\ status = "running"
             \/ pc[r] = "work" /\ status = "success"
             \/ pc[r] = "failed" /\ status = "error"
    BY DEF Begin, Succeed, Fail
  <1>u. status \in Unfinished \cup Terminal
    BY DEF Unfinished, Terminal
  <1>d. /\ LockFree /\ UNCHANGED <<up, disk, asking, reported, early, faulty, job>>
        /\ mem' = [mem EXCEPT ![k] = Now(status)]
        /\ pc' = [pc EXCEPT ![r] = "saving"] /\ pc[r] # "none"
    BY <1>s DEF Change, Goes, reports
  <1>j. pc'[r] = "saving" /\ \A s \in Runners : s # r => pc'[s] = pc[s]
    BY <1>d, <1>t DEF TypeOK
  <1>m. \A x \in Keys : x # k => mem'[x] = mem[x]
    BY <1>d, <1>t DEF TypeOK
  <1>o. /\ k \in Keys /\ up
        /\ \A s \in Runners : s # r => job[s] # k /\ Place(s)'
        /\ \A x \in Keys : x # k => (Saving(x)' <=> Saving(x))
        /\ \A s, t \in Runners : job'[s] = job'[t] /\ job'[s] # NoKey => s = t
    BY <1>d, <1>j, <1>m, OthersStay
  <1>k. /\ mem' \in [Keys -> Task] /\ mem'[k] = Now(status)
        /\ mem'[k].status = status /\ ~mem'[k].old /\ mem'[k] # NoTask
    BY <1>d, <1>o, <1>t, <1>u DEF TypeOK
  <1>p. /\ Place(r) /\ k # NoKey
        /\ mem[k] # NoTask /\ ~mem[k].old
    BY <1>d, <1>o, <1>t, NotCleaned DEF RunnerShape, TaskAssumption
  <1>1. TypeOK'
    BY <1>d, <1>k, <1>t DEF TypeOK
  <1>2. RunnerShape'
    <2>1. Place(r)'
      BY <1>j, <1>k, <1>d, <1>o, <1>p DEF Place
    <2>2. \A s, t \in Runners : pc'[s] = "saving" /\ pc'[t] = "saving" => s = t
      BY <1>d, <1>j DEF LockFree
    <2>3. \A x \in asking' : up' /\ mem'[x] # NoTask /\ ~mem'[x].old
      BY <1>d, <1>k, <1>m, <1>t DEF RunnerShape, TypeOK
    <2>4. \A s \in Runners : Place(s)'
      BY <2>1, <1>o
    <2> QED BY <2>2, <2>3, <2>4, <1>d, <1>o DEF RunnerShape
  <1>3. Attended'
    <2>1. \A x \in Keys \ faulty' : mem'[x].status \in Unfinished => \E s \in Runners : job'[s] = x
      BY <1>d, <1>m, <1>t DEF Attended
    <2> QED BY <2>1, <1>o DEF Attended
  <1>4. ASSUME NEW x \in Keys PROVE KeyKept(x)'
    <2>1. KeyKept(x)
      BY KeysKept DEF Inductive
    <2>2. CASE x # k
      BY <2>1, <2>2, <1>d, <1>m, <1>o, KeyFrame
    <2>3. CASE x = k /\ x \notin faulty
      <3>1. Saving(x)' /\ ~Saving(k)
        BY <2>3, <1>d, <1>j, <1>o DEF Saving, LockFree
      <3>2. mem[k].status \in Unfinished /\ mem[k] = disk[k]
        BY <3>1, <2>1, <2>3, <1>s, <1>o, <1>p DEF Place, KeyKept, Unfinished
      <3>3. reported[k] # "none" => k \notin early
        BY <3>1, <3>2, <2>1, <2>3, <1>o DEF KeyKept, Unfinished
      <3>4. ASSUME reported[k] # "none"
            PROVE  mem'[k].status \in Later(reported[k])
        <4>1. mem[k].status \in Later(reported[k])
          BY <3>4, <2>1, <2>3 DEF KeyKept
        <4>2. reported[k] \in Unfinished \cup Terminal
          BY <3>4, <1>o, <1>t DEF TypeOK
        <4> QED BY <4>1, <4>2, <2>3, <1>s, <1>k, <1>p, LaterFacts DEF Place
      <3> QED
        BY <3>1, <3>2, <3>3, <3>4, <2>1, <2>3, <1>d, <1>o, <1>p DEF KeyKept, Saving
    <2>4. CASE x = k /\ x \in faulty
      BY <2>4, <1>d DEF KeyKept
    <2> QED BY <2>2, <2>3, <2>4
  <1> QED BY <1>1, <1>2, <1>3, <1>4, KeysKeptNext DEF Inductive

\* The second half: the file is written, or the write raises.
LEMMA SaveInductive ==
    ASSUME TaskAssumption, Inductive, NEW r \in Runners, Save(r) \/ SaveFails(r)
    PROVE  Inductive'
  <1> USE TaskFacts
  <1>t. TypeOK /\ RunnerShape /\ Attended
    BY DEF Inductive
  <1> DEFINE k == job[r]
  <1>d. /\ pc[r] = "saving" /\ UNCHANGED <<up, mem, asking, reported>>
        /\ \/ disk' = mem /\ early' = early \ {k} /\ faulty' = faulty
           \/ disk' = disk /\ early' = early /\ faulty' = faulty \cup {k}
        /\ \A s \in Runners : s # r => pc'[s] = pc[s] /\ job'[s] = job[s]
        /\ \/ /\ pc'[r] = "work" /\ job'[r] = k /\ faulty' = faulty
              /\ mem[k].status = "running"
           \/ /\ pc'[r] = "failed" /\ job'[r] = k /\ faulty' = faulty \cup {k}
              /\ mem[k].status = "success"
           \/ /\ pc'[r] = "none" /\ job'[r] = NoKey
              /\ mem[k].status # "running" \/ faulty' = faulty \cup {k}
        /\ pc' \in [Runners -> {"none", "submit", "start", "work", "failed", "saving"}]
        /\ job' \in [Runners -> Keys \cup {NoKey}]
    BY <1>t DEF Save, SaveFails, Goes, Ends, TypeOK, reports
  <1>o. /\ k \in Keys /\ up
        /\ \A s \in Runners : s # r => job[s] # k /\ Place(s)'
        /\ \A x \in Keys : x # k => (Saving(x)' <=> Saving(x))
        /\ \A x \in Keys : \A s \in Runners : job'[s] = x => \E t \in Runners : job[t] = x
        /\ \A s, t \in Runners : job'[s] = job'[t] /\ job'[s] # NoKey => s = t
    BY <1>d, OthersStay
  <1>p. /\ Place(r) /\ k # NoKey /\ mem[k] # NoTask /\ ~mem[k].old
        /\ mem[k].status \in {"running", "success", "error"}
    BY <1>d, <1>o, <1>t, NotCleaned DEF RunnerShape, TaskAssumption, Place
  <1>1. TypeOK'
    BY <1>d, <1>o, <1>t DEF TypeOK
  <1>2. RunnerShape'
    <2>1. Place(r)'
      BY <1>d, <1>o, <1>p DEF Place
    <2>2. \A s, t \in Runners : pc'[s] = "saving" /\ pc'[t] = "saving" => s = t
      BY <1>d, <1>t DEF RunnerShape
    <2>4. \A s \in Runners : Place(s)'
      BY <2>1, <1>o
    <2> QED BY <2>2, <2>4, <1>d, <1>o, <1>t DEF RunnerShape
  <1>3. Attended'
    <2>1. ASSUME NEW x \in Keys \ faulty', mem'[x].status \in Unfinished
          PROVE  \E s \in Runners : job'[s] = x
      <3>1. PICK s \in Runners : job[s] = x
        BY <2>1, <1>d, <1>t DEF Attended
      <3> QED BY <2>1, <3>1, <1>d, <1>p DEF Unfinished
    <2> QED BY <2>1, <1>o DEF Attended
  <1>4. ASSUME NEW x \in Keys PROVE KeyKept(x)'
    <2>1. KeyKept(x)
      BY KeysKept DEF Inductive
    <2>2. CASE x \in faulty'
      BY <2>2 DEF KeyKept
    <2>3. CASE x \notin faulty' /\ x # k
      <3>1. ~Saving(x) /\ x \notin faulty
        BY <2>3, <1>d, <1>o, <1>t DEF Saving, RunnerShape
      <3>2. mem'[x] = mem[x] /\ mem[x] \in Task /\ (x \in early' <=> x \in early)
        BY <2>3, <1>d, <1>t DEF TypeOK
      <3>3. disk'[x] \in {disk[x], mem[x]}
        BY <1>d
      <3>4. mem[x] = disk[x] \/ (mem[x] = NoTask /\ disk[x].old)
        BY <3>1, <2>1, <1>o DEF KeyKept
      <3>5. CASE reported[x] = "none"
        BY <3>1, <3>2, <3>3, <3>4, <3>5, <2>1, <2>3, <1>d, <1>o DEF KeyKept, Saving
      <3>6. CASE reported[x] # "none"
        <4>1. mem[x] = disk[x]
          BY <3>1, <3>6, <1>o, ToldKey
        <4>2. disk'[x] = disk[x] /\ reported'[x] = reported[x] /\ up' = up
          BY <4>1, <3>3, <1>d
        <4> QED BY <4>2, <3>1, <3>2, <2>1, <2>3, <1>o, <1>d, KeyFrame
      <3> QED BY <3>5, <3>6
    <2>4. CASE x = k /\ x \notin faulty'
      <3>1. ~Saving(x)'
        BY <2>4, <1>d, <1>o DEF Saving, TaskAssumption
      <3>2. disk' = mem /\ early' = early \ {k} /\ faulty' = faulty
        BY <2>4, <1>d
      <3>3. reported[k] # "none" => mem[k].status \in Later(reported[k])
        BY <2>1, <2>4, <3>2 DEF KeyKept
      <3>4. \A s \in Runners : job'[s] = x => s = r
        BY <2>4, <1>d, <1>o
      <3> QED BY <3>1, <3>2, <3>3, <3>4, <2>4, <1>d, <1>o, <1>p DEF KeyKept, Saving
    <2> QED BY <2>2, <2>3, <2>4
  <1> QED BY <1>1, <1>2, <1>3, <1>4, KeysKeptNext DEF Inductive

-----------------------------------------------------------------------------
\* The inductive invariant holds in every reachable state, for any keys and
\* threads, with crashes and failing writes.
THEOREM TaskInvariant == Spec => []Inductive
  <1>1. Init => Inductive
    BY InitInductive
  <1>2. Inductive /\ [Next]_vars => Inductive'
    <2> SUFFICES ASSUME Inductive, [Next]_vars PROVE Inductive'
      OBVIOUS
    <2> USE TaskAssumption
    <2>1. ASSUME NEW k \in Keys, NEW r \in Runners, Submit(k, r) PROVE Inductive'
      BY <2>1, SubmitInductive
    <2>2. ASSUME NEW k \in Keys, SubmitFails(k) PROVE Inductive'
      BY <2>2, SubmitFailsInductive
    <2>3. ASSUME NEW k \in Keys, Age(k) PROVE Inductive'
      BY <2>3, AgeInductive
    <2>4. CASE (\E K \in SUBSET Keys : Poll(K)) \/ PollFails
      BY <2>4, PollInductive
    <2>5. CASE Crash
      BY <2>5, CrashInductive
    <2>6. CASE Restart
      BY <2>6, RestartInductive
    <2>7. ASSUME NEW k \in Keys, AnswerSubmission(k) PROVE Inductive'
      BY <2>7, AnswerInductive
    <2>8. ASSUME NEW r \in Runners, RunnerStep(r) PROVE Inductive'
      BY <2>8, MovesInductive, ChangeInductive, SaveInductive DEF RunnerStep
    <2>9. CASE UNCHANGED vars
      BY <2>9 DEF vars, threads, reports, Inductive, TypeOK, RunnerShape, Place, Attended,
                  Kept, InStep, Ahead, Saving
    <2> QED BY <2>1, <2>2, <2>3, <2>4, <2>5, <2>6, <2>7, <2>8, <2>9 DEF Next
  <1> QED BY <1>1, <1>2, PTL DEF Spec

\* Every unfinished task has exactly one thread unless a fault took it: no
\* duplicate submission, restart or cleanup ever runs a task twice.
THEOREM TasksAttended == Spec => []Attended
  <1>1. Inductive => Attended
    BY DEF Inductive
  <1> QED BY <1>1, TaskInvariant, PTL

\* What a client was told outlives every crash, but for an answer that saw its
\* thread in the middle of an update.
THEOREM ReportsKept == Spec => []Kept
  <1>1. Inductive => Kept
    BY DEF Inductive
  <1> QED BY <1>1, TaskInvariant, PTL
=============================================================================
