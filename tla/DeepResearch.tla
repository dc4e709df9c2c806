---------------------------- MODULE DeepResearch ----------------------------
(***************************************************************************)
(* services/gemini_deep_research.py.  A research asks the model for a plan, *)
(* then once per question of the plan, then for a synthesis.  It runs in a  *)
(* thread of the interaction store, whose items a client polls and which    *)
(* expire, or as a stream of events in the client's request.                *)
(***************************************************************************)
EXTENDS Naturals, Sequences, SequencesExt

CONSTANTS Interactions,  \* tasks of the interaction store
          Streams,       \* streamed requests
          MaxQuestions   \* bound of _questions; the code keeps five

VARIABLES item,    \* the store's item of a task
          work,    \* what the research asks the model for next
          asked,   \* questions answered so far
          plan,    \* questions of the plan
          events,  \* what a streamed request has sent
          polled   \* the last status a client of the task was given

researchVars == <<item, work, asked, plan, events, polled>>

Researches == Interactions \union Streams
Ended == {"completed", "failed"}

ResearchInit ==
    /\ item = [i \in Interactions |-> "none"]
    /\ work = [r \in Researches |-> "new"]
    /\ asked = [r \in Researches |-> 0]
    /\ plan = [r \in Researches |-> 0]
    /\ events = [r \in Streams |-> <<>>]
    /\ polled = [i \in Interactions |-> "none"]

Emit(r, es) == events' = IF r \in Streams THEN [events EXCEPT ![r] = @ \o es] ELSE events
Then(r, what) == work' = [work EXCEPT ![r] = what]

\* purge drops the items older than the time to live, unfinished ones included.
Purged(expired) == [i \in Interactions |-> IF i \in expired THEN "none" ELSE item[i]]
Stored == {i \in Interactions : item[i] # "none"}

\* create purges, stores the item and starts the thread.
Create(i, expired) ==
    /\ i \in Interactions /\ work[i] = "new"
    /\ item' = [Purged(expired) EXCEPT ![i] = "in_progress"]
    /\ Then(i, "plan")
    /\ UNCHANGED <<asked, plan, events, polled>>

\* stream_deep_research begins with a progress event.
OpenStream(r) ==
    /\ r \in Streams /\ work[r] = "new"
    /\ Then(r, "plan")
    /\ Emit(r, <<"progress">>)
    /\ UNCHANGED <<item, asked, plan, polled>>

\* The plan names the questions; without a usable list the query is the only one.
Plan(r) ==
    /\ work[r] = "plan"
    /\ \E n \in 1 .. MaxQuestions : plan' = [plan EXCEPT ![r] = n]
    /\ Then(r, "research")
    /\ Emit(r, <<"step">>)
    /\ UNCHANGED <<item, asked, polled>>

\* One question, with the sources its answer names.
Research(r, sources) ==
    /\ work[r] = "research" /\ asked[r] < plan[r]
    /\ asked' = [asked EXCEPT ![r] = @ + 1]
    /\ Emit(r, <<"step">> \o [s \in 1 .. sources |-> "source"])
    /\ UNCHANGED <<item, work, plan, polled>>

Synthesis(r) ==
    /\ work[r] = "research" /\ asked[r] = plan[r]
    /\ Then(r, IF r \in Streams THEN "over" ELSE "completed")
    /\ Emit(r, <<"result", "done">>)
    /\ UNCHANGED <<item, asked, plan, polled>>

\* The model fails.  A stream turns every exception into an error event; in a
\* thread an HTTPException is raised again and ends it, any other exception is
\* a failed result.
ModelFails(r, http) ==
    /\ work[r] \in {"plan", "research"}
    /\ Then(r, IF r \in Streams THEN "over" ELSE IF http THEN "died" ELSE "failed")
    /\ Emit(r, <<"error", "done">>)
    /\ UNCHANGED <<item, asked, plan, polled>>

\* Mutant: the result is stored although the item has expired.
FinishAnyway(r) ==
    /\ r \in Interactions /\ work[r] \in Ended
    /\ item' = [item EXCEPT ![r] = work[r]]
    /\ Then(r, "over")
    /\ UNCHANGED <<asked, plan, events, polled>>

\* Mutant: only a success is stored.
FinishSuccess(r) ==
    /\ r \in Interactions /\ work[r] \in Ended
    /\ item' = [item EXCEPT ![r] = IF @ = "none" \/ work[r] = "failed" THEN @ ELSE work[r]]
    /\ Then(r, "over")
    /\ UNCHANGED <<asked, plan, events, polled>>

\* The end of _run: the item may have expired meanwhile.
Finish(r) ==
    /\ r \in Interactions /\ work[r] \in Ended
    /\ item' = [item EXCEPT ![r] = IF @ = "none" THEN "none" ELSE work[r]]
    /\ Then(r, "over")
    /\ UNCHANGED <<asked, plan, events, polled>>

\* get purges, then answers with the item, or 404.
PollResearch(i, expired) ==
    /\ work[i] # "new"
    /\ item' = Purged(expired)
    /\ polled' = [polled EXCEPT ![i] = IF item'[i] = "none" THEN "expired" ELSE item'[i]]
    /\ UNCHANGED <<work, asked, plan, events>>

ResearchStep(r) ==
    \/ Plan(r) \/ Synthesis(r) \/ Finish(r)
    \/ \E sources \in 0 .. 1 : Research(r, sources)
    \/ \E http \in BOOLEAN : ModelFails(r, http)

ResearchNext ==
    \/ \E r \in Researches : OpenStream(r) \/ ResearchStep(r)
    \/ \E i \in Interactions, expired \in SUBSET Stored : Create(i, expired) \/ PollResearch(i, expired)

ResearchSpec == ResearchInit /\ [][ResearchNext]_researchVars
                             /\ \A r \in Researches : WF_researchVars(ResearchStep(r))

-----------------------------------------------------------------------------
\* A client that polls a task to its end gets there: an interaction is ended,
\* or dropped by the store, unless the model's answer was an HTTPException.
InteractionsEnd ==
    \A i \in Interactions :
        (item[i] = "in_progress") ~> (item[i] # "in_progress" \/ work[i] = "died")

\* What a client was told is final stays so: a late thread never brings an
\* expired interaction back, nor changes one that ended.
PollsAreFinal ==
    [][\A i \in Interactions :
          /\ polled[i] = "expired" => polled'[i] = "expired"
          /\ polled[i] \in Ended => polled'[i] \in {polled[i], "expired"}]_researchVars

=============================================================================
