----------------------------- MODULE MCThreads ------------------------------
(***************************************************************************)
(* The services that work in background threads beside the image tasks:     *)
(* imports, researches and the watcher of the accounts.  They share no      *)
(* state: the initial state chooses the one that moves.  No symmetry,       *)
(* because of the liveness properties.                                      *)
(***************************************************************************)
EXTENDS AccountChecks, ImportJob, DeepResearch, Integers

VARIABLE active

allVars == <<active, importVars, researchVars, checkVars>>

ThreadsInit ==
    /\ active \in {"imports", "research", "checks"}
    /\ ImportInit /\ ResearchInit /\ CheckInit

Only(c, A) ==
    /\ active = c /\ A /\ UNCHANGED active
    /\ c # "imports"  => UNCHANGED importVars
    /\ c # "research" => UNCHANGED researchVars
    /\ c # "checks"   => UNCHANGED checkVars

ImportsStep    == Only("imports", ImportNext)
ResearchesStep == Only("research", ResearchNext)
ChecksStep     == Only("checks", CheckNext)

ThreadsNext == ImportsStep \/ ResearchesStep \/ ChecksStep

\* The threads are scheduled, as in their modules.
ThreadsSpec ==
    /\ ThreadsInit /\ [][ThreadsNext]_allVars
    /\ \A r \in Runs : WF_importVars(active = "imports" /\ Thread(r))
    /\ \A r \in Interactions : WF_researchVars(active = "research" /\ ResearchStep(r))
    /\ WF_checkVars(active = "checks" /\ Watcher)
    /\ WF_checkVars(active = "checks" /\ DayPasses)
=============================================================================
