--------------------------- MODULE AccountChecks ----------------------------
(***************************************************************************)
(* How accounts that ran out of quota come back into use.  One thread (the  *)
(* limited-account watcher of api/support.py) asks ChatGPT about the        *)
(* limited GPT accounts every few minutes, renews CatPaw tokens and, once a *)
(* day, tries the limited CodeBuddy keys; administrators refresh, disable,  *)
(* delete and import accounts and calls end meanwhile.  An answer is        *)
(* applied some time after it was given.                                    *)
(***************************************************************************)
EXTENDS Naturals, FiniteSetsExt

CONSTANTS GptAccounts, CodeBuddyAccounts,
          Troubles  \* bound: requests and writes that fail, and restarts

VARIABLES standing, \* status of an account; gone: deleted
          kept,     \* the same in the accounts file
          truth,    \* what its provider would answer: good, exhausted, invalid
          at,       \* what the watcher does
          unasked,  \* accounts of its batch it has not asked about
          told,     \* answers not applied yet
          due,      \* the CodeBuddy keys are to be tried
          troubles  \* what has failed so far

checkVars == <<standing, kept, truth, at, unasked, told, due, troubles>>

CheckedAccounts == GptAccounts \cup CodeBuddyAccounts
Askers == {"watcher", "others"}
NoAnswer == "no answer"
Standings == {"normal", "limited", "abnormal", "disabled", "gone"}

\* The daily check waits for the next three o'clock, also when the process
\* starts later in the day.
CheckInit ==
    /\ standing = [a \in CheckedAccounts |-> "normal"] /\ kept = standing
    /\ truth = [a \in CheckedAccounts |-> "good"]
    /\ at = "list" /\ unasked = {}
    /\ told = [k \in Askers |-> [a \in CheckedAccounts |-> NoAnswer]]
    /\ due = FALSE /\ troubles = 0

Limited(accounts) == {a \in accounts : standing[a] = "limited"}
Pending(k) == \E a \in CheckedAccounts : told[k][a] # NoAnswer
Stage(where) == at' = where
Fails(happens) == IF happens THEN troubles < Troubles /\ troubles' = troubles + 1
                             ELSE UNCHANGED troubles

\* update_account and delete_accounts: the accounts change in memory before all
\* of them are written; the write may raise.
Changed(new, saves) ==
    /\ standing' = new
    /\ kept' = IF saves THEN new ELSE kept
    /\ Fails(~saves)

\* One of the three requests of get_user_info.
Reply(a) == IF truth[a] = "invalid" THEN {"401", "broken"} ELSE {"ok", "broken"}

\* get_user_info sends them at once and looks at them in turn: the first that
\* failed decides.  A 401 seen first condemns the token; any other failure is only
\* counted.
UserInfo(a, replies) ==
    LET bad == {i \in DOMAIN replies : replies[i] # "ok"} IN
    CASE bad = {} -> truth[a]
      [] bad # {} /\ replies[Min(bad)] = "401" -> "invalid"
      [] OTHER -> NoAnswer

\* validate_key sends one short chat; whatever it raises counts as no answer.
Ping(a, reaches) == IF reaches /\ truth[a] = "good" THEN "good" ELSE "exhausted"

\* What an account's provider answers, and whether the network was to blame.
Answer(k, a) ==
    \/ /\ a \in GptAccounts
       /\ \E replies \in [1 .. 3 -> Reply(a)] :
            /\ told' = [told EXCEPT ![k][a] = UserInfo(a, replies)]
            /\ Fails(\E i \in 1 .. 3 : replies[i] = "broken")
    \/ /\ a \in CodeBuddyAccounts
       /\ \E reaches \in BOOLEAN :
            /\ told' = [told EXCEPT ![k][a] = Ping(a, reaches)]
            /\ Fails(~reaches)

\* The status an answer leads to: fetch_remote_info with remove_invalid_token,
\* and the check of a CodeBuddy key.  The settings that remove invalid and
\* limited accounts may be on or off.
Judged(answer) ==
    CASE answer = "good"      -> {"normal"}
      [] answer = "exhausted" -> {"limited", "gone"}
      [] answer = "invalid"   -> {"abnormal", "gone"}

\* An answer is written into the account it was asked for; when that is gone,
\* nothing is changed or saved.
Settled(k, a, saves) ==
    /\ told[k][a] # NoAnswer
    /\ told' = [told EXCEPT ![k][a] = NoAnswer]
    /\ IF standing[a] = "gone"
       THEN saves /\ UNCHANGED <<standing, kept, troubles>>
       ELSE \E to \in Judged(told[k][a]) : Changed([standing EXCEPT ![a] = to], saves)
    /\ UNCHANGED truth

-----------------------------------------------------------------------------
\* A round begins, when the interval is over, with list_limited_tokens; without
\* one the watcher goes on to the CatPaw tokens.
ListLimited ==
    /\ at = "list"
    /\ unasked' = Limited(GptAccounts)
    /\ Stage(IF unasked' = {} THEN "renew" ELSE "refresh")
    /\ UNCHANGED <<standing, kept, truth, told, due, troubles>>

\* refresh_accounts asks about all of them at once.
AskRefreshed(a) ==
    /\ at = "refresh" /\ a \in unasked
    /\ unasked' = unasked \ {a}
    /\ Answer("watcher", a)
    /\ UNCHANGED <<standing, kept, truth, at, due>>

\* What a request raises, a failing write included, is counted and not passed on.
Refreshed(a, saves) ==
    /\ at = "refresh"
    /\ Settled("watcher", a, saves)
    /\ UNCHANGED <<at, unasked, due>>

RefreshDone ==
    /\ at = "refresh" /\ unasked = {} /\ ~Pending("watcher")
    /\ Stage("renew")
    /\ UNCHANGED <<standing, kept, truth, unasked, told, due, troubles>>

\* renew_due_catpaw_accounts, whose exceptions are caught: either way the day's
\* check is next.
RenewTokens(raises) ==
    /\ at = "renew"
    /\ Stage("daily")
    /\ Fails(raises)
    /\ UNCHANGED <<standing, kept, truth, unasked, told, due>>

\* After three o'clock of a day not checked yet: list_codebuddy_limited_tokens.
StartDaily ==
    /\ at = "daily"
    /\ unasked' = IF due THEN Limited(CodeBuddyAccounts) ELSE {}
    /\ Stage(IF due THEN "check" ELSE "list")
    /\ due' = FALSE
    /\ UNCHANGED <<standing, kept, truth, told, troubles>>

\* The keys are tried one after the other.
AskChecked(a) ==
    /\ at = "check" /\ a \in unasked /\ ~Pending("watcher")
    /\ unasked' = unasked \ {a}
    /\ Answer("watcher", a)
    /\ UNCHANGED <<standing, kept, truth, at, due>>

\* Mutant: nothing catches what the check raises, and the thread ends.
LeavesUncaught == Stage("ended") /\ unasked' = {} /\ due' = TRUE

\* A write that raises leaves the check: the watcher logs it and tries the keys
\* again at its next round, for the day is marked when the check returns.
LeavesCheck == Stage("list") /\ unasked' = {} /\ due' = TRUE

Checked(a, saves) ==
    /\ at = "check"
    /\ Settled("watcher", a, saves)
    /\ IF saves THEN UNCHANGED <<at, unasked, due>> ELSE LeavesCheck

CheckDone ==
    /\ at = "check" /\ unasked = {} /\ ~Pending("watcher")
    /\ Stage("list")
    /\ UNCHANGED <<standing, kept, truth, unasked, told, due, troubles>>

Watcher ==
    \/ ListLimited \/ RefreshDone \/ StartDaily \/ CheckDone
    \/ \E raises \in BOOLEAN : RenewTokens(raises)
    \/ \E a \in CheckedAccounts :
        \/ AskRefreshed(a) \/ AskChecked(a)
        \/ \E saves \in BOOLEAN : Refreshed(a, saves) \/ Checked(a, saves)

-----------------------------------------------------------------------------
\* Import threads and administrators refresh GPT accounts too; CodeBuddy has no
\* refresh.
OthersAsk(a) ==
    /\ a \in GptAccounts /\ standing[a] # "gone" /\ told["others"][a] = NoAnswer
    /\ Answer("others", a)
    /\ UNCHANGED <<standing, kept, truth, at, unasked, due>>

OthersApply(a, saves) ==
    /\ Settled("others", a, saves)
    /\ UNCHANGED <<at, unasked, due>>

\* Administrators enable, disable and delete accounts.
AdminSets(a, to, saves) ==
    /\ standing[a] \notin {"gone", to}
    /\ Changed([standing EXCEPT ![a] = to], saves)
    /\ UNCHANGED <<truth, at, unasked, told, due>>

\* create_accounts adds an account and refreshes it when it can be.
Import(a, saves) ==
    /\ standing[a] = "gone"
    /\ IF saves /\ a \in GptAccounts /\ told["others"][a] = NoAnswer
       THEN /\ standing' = [standing EXCEPT ![a] = "normal"] /\ kept' = standing'
            /\ Answer("others", a)
       ELSE Changed([standing EXCEPT ![a] = "normal"], saves) /\ UNCHANGED told
    /\ UNCHANGED <<truth, at, unasked, due>>

\* delete_limited_accounts.
DeleteLimited(saves) ==
    /\ Limited(CheckedAccounts) # {}
    /\ Changed([a \in CheckedAccounts |-> IF standing[a] = "limited" THEN "gone" ELSE standing[a]],
               saves)
    /\ UNCHANGED <<truth, at, unasked, told, due>>

\* A call that began earlier ends: a CodeBuddy key is marked normal or limited
\* whatever it has become; an image that used the last unit limits a GPT account
\* and any other lifts the limit.
CallEnds(a, ok, saves) ==
    /\ standing[a] # "gone"
    /\ ok = (truth[a] = "good")
    /\ \E to \in CASE ~ok -> {"limited", "gone"}
                   [] ok /\ (a \in CodeBuddyAccounts \/ standing[a] = "limited") -> {"normal"}
                   [] OTHER -> {standing[a]} :
          Changed([standing EXCEPT ![a] = to], saves)
    /\ UNCHANGED <<truth, at, unasked, told, due>>

\* Quotas are used up elsewhere and come back; a GPT token may be withdrawn.
TruthChanges(a, to) ==
    /\ truth[a] # to
    /\ to = "invalid" => a \in GptAccounts
    /\ truth' = [truth EXCEPT ![a] = to]
    /\ UNCHANGED <<standing, kept, at, unasked, told, due, troubles>>

DayPasses ==
    /\ ~due
    /\ due' = TRUE
    /\ UNCHANGED <<standing, kept, truth, at, unasked, told, troubles>>

\* The process starts again with the accounts of the file and a new watcher.
ProcessRestarts ==
    /\ Fails(TRUE)
    /\ standing' = kept
    /\ Stage("list") /\ unasked' = {} /\ due' = FALSE
    /\ told' = [k \in Askers |-> [a \in CheckedAccounts |-> NoAnswer]]
    /\ UNCHANGED <<kept, truth>>

CheckNext ==
    \/ Watcher
    \/ \E a \in CheckedAccounts :
        \/ OthersAsk(a)
        \/ \E saves \in BOOLEAN :
            \/ OthersApply(a, saves) \/ Import(a, saves)
            \/ \E to \in Standings : AdminSets(a, to, saves)
            \/ \E ok \in BOOLEAN : CallEnds(a, ok, saves)
        \/ \E to \in {"good", "exhausted", "invalid"} : TruthChanges(a, to)
    \/ \E saves \in BOOLEAN : DeleteLimited(saves)
    \/ DayPasses \/ ProcessRestarts

CheckSpec == CheckInit /\ [][CheckNext]_checkVars
                       /\ WF_checkVars(Watcher) /\ WF_checkVars(DayPasses)

-----------------------------------------------------------------------------
\* An account does not stay limited while its provider would serve it again:
\* the watcher finds it, although a request, a write or the check itself may
\* fail, the process may restart, and answers given before the quota came back
\* are applied afterwards.
LimitedComesBack ==
    \A a \in CheckedAccounts :
        (standing[a] = "limited" /\ truth[a] = "good")
            ~> (standing[a] # "limited" \/ truth[a] # "good")
=============================================================================
