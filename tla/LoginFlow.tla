----------------------------- MODULE LoginFlow ------------------------------
(***************************************************************************)
(* The interactive logins of api/account_flows: a CatPaw or JoyCode QR code,*)
(* a Qoder device login and a Gemini login in the browser bridge.  Each is a*)
(* job in memory; the administrator's page polls it, possibly with requests *)
(* that overlap, and the poll that the upstream answers with credentials    *)
(* adds the account.  The upstream may hand the credentials out again.      *)
(***************************************************************************)
CONSTANTS Jobs,   \* logins; an administrator's key is the same owner for all
          Polls   \* requests that poll one of them

VARIABLES kind,     \* of a login
          login,    \* its job: none, open, done (with its result), gone
          overdue,  \* the job is older than its time to live
          settled,  \* a poll has answered success, or the job was cancelled
          imported, \* the login's account is in the pool
          poll,     \* what a request does: idle, ask, import, answer
          polls,    \* the login it polls
          late      \* it began after the login was settled

loginVars == <<kind, login, overdue, settled, imported, poll, polls, late>>

Kinds == {"catpaw", "qoder", "joycode", "gemini"}
NoLogin == "no login"

LoginInit ==
    /\ kind = [j \in Jobs |-> "unknown"]
    /\ login = [j \in Jobs |-> "none"]
    /\ overdue = [j \in Jobs |-> FALSE]
    /\ settled = [j \in Jobs |-> FALSE]
    /\ imported = [j \in Jobs |-> FALSE]
    /\ poll = [p \in Polls |-> "idle"]
    /\ polls = [p \in Polls |-> NoLogin]
    /\ late = [p \in Polls |-> FALSE]

PollTo(p, where) == poll' = [poll EXCEPT ![p] = where]
Forget(j) == login' = [login EXCEPT ![j] = "gone"]

\* Starting a login drops the overdue jobs of its kind, but for JoyCode's.
Pruned(k) == {j \in Jobs : kind[j] = k /\ k # "joycode" /\ overdue[j]}

StartLogin(j, k) ==
    /\ login[j] = "none"
    /\ kind' = [kind EXCEPT ![j] = k]
    /\ login' = [i \in Jobs |-> IF i = j THEN "open"
                                ELSE IF i \in Pruned(k) THEN "gone" ELSE login[i]]
    /\ UNCHANGED <<overdue, settled, imported, poll, polls, late>>

GrowsOld(j) ==
    /\ login[j] \in {"open", "done"} /\ ~overdue[j]
    /\ overdue' = [overdue EXCEPT ![j] = TRUE]
    /\ UNCHANGED <<kind, login, settled, imported, poll, polls, late>>

\* A poll up to its request to the upstream: Qoder drops every overdue job of
\* its own, JoyCode this one when it is overdue, CatPaw when its code has expired;
\* a dropped job is 404.  A CatPaw login that is done answers with its result.
OverdueJobs(j) == IF kind[j] = "qoder" THEN Pruned("qoder")
              ELSE IF kind[j] = "joycode" /\ overdue[j] THEN {j} ELSE {}

BeginPoll(p, j, expired) ==
    LET droppedJobs == OverdueJobs(j) \union IF expired THEN {j} ELSE {} IN
    /\ poll[p] = "idle"
    /\ login[j] = "open"
    /\ expired => kind[j] = "catpaw"
    /\ login' = [i \in Jobs |-> IF i \in droppedJobs THEN "gone" ELSE login[i]]
    /\ IF j \in droppedJobs
       THEN UNCHANGED <<poll, polls, late>>
       ELSE /\ PollTo(p, "ask")
            /\ polls' = [polls EXCEPT ![p] = j]
            /\ late' = [late EXCEPT ![p] = settled[j]]
    /\ UNCHANGED <<kind, overdue, settled, imported>>

\* The upstream's answer: still waiting or failed, expired (which ends a JoyCode
\* login), or the credentials.
Answered(p, answer) ==
    /\ poll[p] = "ask"
    /\ PollTo(p, IF answer = "credentials" THEN "import" ELSE "idle")
    /\ IF answer = "expired" /\ kind[polls[p]] = "joycode" THEN Forget(polls[p])
                                                           ELSE UNCHANGED login
    /\ UNCHANGED <<kind, overdue, settled, imported, polls, late>>

\* add_account_items, which adds the account in memory even when it then raises
\* because the accounts cannot be saved; a login without an identity adds none.
Import(p, added, raises) ==
    /\ poll[p] = "import"
    /\ added \/ raises
    /\ imported' = [imported EXCEPT ![polls[p]] = @ \/ added]
    /\ PollTo(p, IF raises THEN "idle" ELSE "answer")
    /\ UNCHANGED <<kind, login, overdue, settled, polls, late>>

\* Mutant: a Qoder login is left open after its success.
EndPollOpen(p) ==
    LET j == polls[p] IN
    /\ poll[p] = "answer"
    /\ login' = [login EXCEPT ![j] =
          IF kind[j] = "catpaw" /\ @ # "gone" THEN "done"
          ELSE IF kind[j] = "joycode" THEN "gone" ELSE @]
    /\ settled' = [settled EXCEPT ![j] = @ \/ kind[j] # "gemini"]
    /\ PollTo(p, "idle")
    /\ UNCHANGED <<kind, overdue, imported, polls, late>>

\* The end of a poll that succeeded: CatPaw keeps the result in the job, which
\* may have been dropped meanwhile, Qoder and JoyCode drop the job; a Gemini job
\* stays as it is.
EndPoll(p) ==
    LET j == polls[p] IN
    /\ poll[p] = "answer"
    /\ login' = [login EXCEPT ![j] =
          IF kind[j] = "catpaw" /\ @ # "gone" THEN "done"
          ELSE IF kind[j] \in {"qoder", "joycode"} THEN "gone" ELSE @]
    /\ settled' = [settled EXCEPT ![j] = @ \/ kind[j] # "gemini"]
    /\ PollTo(p, "idle")
    /\ UNCHANGED <<kind, overdue, imported, polls, late>>

Cancel(j) ==
    /\ login[j] \in {"open", "done"}
    /\ Forget(j)
    /\ settled' = [settled EXCEPT ![j] = TRUE]
    /\ UNCHANGED <<kind, overdue, imported, poll, polls, late>>

RemoveAccount(j) ==
    /\ imported[j]
    /\ imported' = [imported EXCEPT ![j] = FALSE]
    /\ UNCHANGED <<kind, login, overdue, settled, poll, polls, late>>

LoginNext ==
    \/ \E j \in Jobs, k \in Kinds : StartLogin(j, k)
    \/ \E j \in Jobs : GrowsOld(j) \/ Cancel(j) \/ RemoveAccount(j)
    \/ \E p \in Polls, j \in Jobs, expired \in BOOLEAN : BeginPoll(p, j, expired)
    \/ \E p \in Polls, answer \in {"waiting", "expired", "credentials"} : Answered(p, answer)
    \/ \E p \in Polls, added, raises \in BOOLEAN : Import(p, added, raises)
    \/ \E p \in Polls : EndPoll(p)

LoginSpec == LoginInit /\ [][LoginNext]_loginVars

-----------------------------------------------------------------------------
\* A login that is over imports nothing more: a poll that begins after another
\* poll answered with success, or after the login was cancelled, never gets as
\* far as adding the account, so an account deleted after its login stays
\* deleted once the polls then under way have ended.  (A Gemini login is over
\* only when it is cancelled: each poll of a successful one adds the account.)
SettledLoginsImportNothing ==
    \A p \in Polls : late[p] => poll[p] \notin {"import", "answer"}
=============================================================================
