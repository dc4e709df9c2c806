---------------------------- MODULE GrokConsole ----------------------------
(***************************************************************************)
(* Requests to the Grok console (services/providers/grok/client.py): each   *)
(* reserves one unit of an account's console quota before it asks the       *)
(* upstream and settles it when it ends.  The quota of an account is filled *)
(* up again a window after its last unit was reserved.                      *)
(***************************************************************************)
EXTENDS Integers

CONSTANTS Accounts, Requests,
          Total, Window,  \* units of a console quota, length of its window
          MaxTime         \* bound of the clock

VARIABLES status,     \* of an account: ok, bad (limited or failing), disabled, deleted
          remaining,  \* units left
          resetAt,    \* when the quota is filled up; NoReset: not planned
          spent,      \* history: reservations since the quota was last filled or
          refunded,   \* overwritten, refunds since then,
          base,       \* and the units it had then
          clock,
          gpc,        \* what a request does, or how it ended
          token,      \* the account it uses
          refresh     \* of an account: what a refresh read and was told; NoRefresh

quotaVars == <<remaining, resetAt, spent, refunded, base>>
grokVars == <<status, quotaVars, clock, gpc, token, refresh>>

NoReset == -1
NoToken == "no token"
NoRefresh == [told |-> "not asked", units |-> 0, at |-> NoReset, was |-> ""]
Results == {"ok", "transient", "error", "left"}

GrokInit ==
    /\ status = [a \in Accounts |-> "ok"]
    /\ remaining = [a \in Accounts |-> Total]
    /\ resetAt = [a \in Accounts |-> NoReset]
    /\ spent = [a \in Accounts |-> 0] /\ refunded = [a \in Accounts |-> 0]
    /\ base = [a \in Accounts |-> Total]
    /\ clock = 0
    /\ gpc = [r \in Requests |-> "select"]
    /\ token = [r \in Requests |-> NoToken]
    /\ refresh = [a \in Accounts |-> NoRefresh]

GrokTo(r, where) == gpc' = [gpc EXCEPT ![r] = where]
Usable == {a \in Accounts : status[a] = "ok"}
Exists(a) == status[a] # "deleted"

\* reset_console_quota_if_ready.
Ready(a) == Exists(a) /\ resetAt[a] # NoReset /\ resetAt[a] <= clock
Filled(a) == IF Ready(a) THEN Total ELSE remaining[a]
Planned(a) == IF Ready(a) THEN NoReset ELSE resetAt[a]

\* Mutant: the window starts when a unit is asked for that is not there.
ReservedUnplanned(a) ==
    /\ remaining' = [b \in Accounts |-> Filled(b) - IF b = a THEN 1 ELSE 0]
    /\ resetAt' = [b \in Accounts |->
          IF b = a /\ Filled(a) = 0 /\ Planned(a) = NoReset THEN clock + Window ELSE Planned(b)]
    /\ spent' = [b \in Accounts |-> (IF Ready(b) THEN 0 ELSE spent[b]) + IF b = a THEN 1 ELSE 0]
    /\ refunded' = [b \in Accounts |-> IF Ready(b) THEN 0 ELSE refunded[b]]
    /\ base' = [b \in Accounts |-> IF Ready(b) THEN Total ELSE base[b]]

\* The selection applies the resets that are due to every account it looks at,
\* and reserves a unit of the one it picks; the last unit starts the window.
Reserved(a) ==
    /\ remaining' = [b \in Accounts |-> Filled(b) - IF b = a THEN 1 ELSE 0]
    /\ resetAt' = [b \in Accounts |->
          IF b = a /\ Filled(a) = 1 /\ Planned(a) = NoReset THEN clock + Window ELSE Planned(b)]
    /\ spent' = [b \in Accounts |-> (IF Ready(b) THEN 0 ELSE spent[b]) + IF b = a THEN 1 ELSE 0]
    /\ refunded' = [b \in Accounts |-> IF Ready(b) THEN 0 ELSE refunded[b]]
    /\ base' = [b \in Accounts |-> IF Ready(b) THEN Total ELSE base[b]]

\* get_grok_console_access_token.
Reserve(r, a) ==
    /\ gpc[r] = "select"
    /\ a \in Usable /\ Filled(a) > 0
    /\ Reserved(a)
    /\ token' = [token EXCEPT ![r] = a]
    /\ GrokTo(r, "ask")
    /\ UNCHANGED <<status, clock, refresh>>

\* Nobody has a unit left: the request ends with 503, after the due resets of
\* accounts that are not usable.
NoAccount(r) ==
    /\ gpc[r] = "select"
    /\ \A a \in Usable : Filled(a) = 0
    /\ Reserved(NoToken)
    /\ GrokTo(r, "refused")
    /\ UNCHANGED <<status, clock, token, refresh>>

\* Mutant: a refund is not capped by the total.
SettleUncapped(r, result) ==
    LET a == token[r]
        back == result = "transient" /\ Exists(a) IN
    /\ gpc[r] = "ask"
    /\ status' = [status EXCEPT ![a] = IF result = "ok" /\ @ = "bad" THEN "ok" ELSE @]
    /\ remaining' = [remaining EXCEPT ![a] = IF back THEN @ + 1 ELSE @]
    /\ resetAt' = [resetAt EXCEPT ![a] = IF back THEN NoReset ELSE @]
    /\ refunded' = [refunded EXCEPT ![a] = IF back THEN @ + 1 ELSE @]
    /\ GrokTo(r, result)
    /\ UNCHANGED <<spent, base, clock, token, refresh>>

\* mark_grok_console_used: a success revives an account that is not disabled, a
\* transient rate limit gives the unit back, a deleted account is left alone.
\* A stream whose client leaves settles nothing.
Settle(r, result) ==
    LET a == token[r]
        back == result = "transient" /\ Exists(a)
        units == IF remaining[a] < Total THEN remaining[a] + 1 ELSE Total IN
    /\ gpc[r] = "ask"
    /\ status' = [status EXCEPT ![a] = IF result = "ok" /\ @ = "bad" THEN "ok" ELSE @]
    /\ remaining' = [remaining EXCEPT ![a] = IF back THEN units ELSE @]
    /\ resetAt' = [resetAt EXCEPT ![a] = IF back /\ units > 0 THEN NoReset ELSE @]
    /\ refunded' = [refunded EXCEPT ![a] = IF back THEN @ + 1 ELSE @]
    /\ GrokTo(r, result)
    /\ UNCHANGED <<spent, base, clock, token, refresh>>

\* A new quota of n units, with no reset planned.
Overwritten(a, n) ==
    /\ remaining' = [remaining EXCEPT ![a] = n]
    /\ resetAt' = [resetAt EXCEPT ![a] = NoReset]
    /\ spent' = [spent EXCEPT ![a] = 0] /\ refunded' = [refunded EXCEPT ![a] = 0]
    /\ base' = [base EXCEPT ![a] = n]

\* Feedback and administrators change an account's status; importing a deleted
\* account begins with a full quota.
ChangeStatus(a, to) ==
    /\ status[a] # to
    /\ status' = [status EXCEPT ![a] = to]
    /\ IF Exists(a) THEN UNCHANGED quotaVars ELSE Overwritten(a, Total)
    /\ UNCHANGED <<clock, gpc, token, refresh>>

-----------------------------------------------------------------------------
\* What the rate-limit check of an account tells: the units left, only that there
\* is a limit (the quota is then taken to be full), or that they are used up.
Tells == [told : {"units"}, units : 0 .. Total]
         \cup {[told |-> "limit", units |-> Total], [told |-> "refused", units |-> 0]}

\* grok_rate_limit_account_hints: a number of units decides the status, that of
\* a disabled account too.
Hinted(tell, otherwise) ==
    CASE tell.told = "limit" -> otherwise [] tell.units = 0 -> "bad" [] OTHER -> "ok"

\* update_account: a status, and perhaps a quota, unless the account is gone.
Written(a, to, quota) ==
    IF ~Exists(a) THEN UNCHANGED <<status, quotaVars>>
    ELSE /\ status' = [status EXCEPT ![a] = to]
         /\ IF quota = NoReset THEN UNCHANGED quotaVars ELSE Overwritten(a, quota)

\* fetch_grok_remote_info reads the account before it asks.
BeginRefresh(a) ==
    /\ Exists(a) /\ refresh[a] = NoRefresh
    /\ refresh' = [refresh EXCEPT ![a] = [told |-> "nothing", units |-> 0, at |-> resetAt[a],
                                           was |-> status[a]]]
    /\ UNCHANGED <<status, quotaVars, clock, gpc, token>>

\* validate_rate_limits writes the reported limits over the console quota, its
\* planned reset included; classify_app_chat_upstream_error marks an account that
\* is refused for its quota.
CheckLimits(a, tell) ==
    /\ refresh[a].told = "nothing"
    /\ Written(a, Hinted(tell, status[a]), IF tell.told = "refused" THEN NoReset ELSE tell.units)
    /\ refresh' = [refresh EXCEPT ![a].told = tell.told, ![a].units = tell.units]
    /\ UNCHANGED <<clock, gpc, token>>

\* decide_account_state: when the reset the refresh read is due by now, the
\* status it read is written back, with a full quota.
Overdue(a) == refresh[a].at # NoReset /\ refresh[a].at <= clock
WrittenBack(a, otherwise) == IF Overdue(a) THEN refresh[a].was ELSE otherwise

\* The refresh writes what it was told once more, over what the account has
\* become.
EndRefresh(a) ==
    /\ refresh[a].told \in {"units", "limit", "refused"}
    /\ IF refresh[a].told = "refused"
       THEN Written(a, WrittenBack(a, "bad"), IF Overdue(a) THEN Total ELSE NoReset)
       ELSE Written(a, Hinted(refresh[a], WrittenBack(a, status[a])), refresh[a].units)
    /\ refresh' = [refresh EXCEPT ![a] = NoRefresh]
    /\ UNCHANGED <<clock, gpc, token>>

\* Any other answer leaves the account as it is, unless the error, or the answer
\* itself, proves that the credentials are invalid: remove_invalid_token.
RefreshFails(a, invalid) ==
    /\ refresh[a].told \in {"nothing"} \cup IF invalid THEN {"units", "limit"} ELSE {}
    /\ IF invalid THEN \E to \in {"bad", "deleted"} : Written(a, to, NoReset)
                  ELSE UNCHANGED <<status, quotaVars>>
    /\ refresh' = [refresh EXCEPT ![a] = NoRefresh]
    /\ UNCHANGED <<clock, gpc, token>>

\* validate_accounts sends a short chat: an answer makes the account usable, a
\* disabled one too, a refusal limits it, invalid credentials mark or remove it
\* and anything else only leaves a note.
Validate(a, answer) ==
    /\ Exists(a)
    /\ \E to \in CASE answer = "valid"   -> {"ok"}
                   [] answer = "limited" -> {"bad"}
                   [] answer = "invalid" -> {"bad", "deleted"}
                   [] OTHER              -> {status[a]} : Written(a, to, NoReset)
    /\ UNCHANGED <<clock, gpc, token, refresh>>

TimePasses ==
    /\ clock < MaxTime
    /\ clock' = clock + 1
    /\ UNCHANGED <<status, quotaVars, gpc, token, refresh>>

GrokNext ==
    \/ \E r \in Requests, a \in Accounts : Reserve(r, a)
    \/ \E r \in Requests, result \in Results : Settle(r, result)
    \/ \E r \in Requests : NoAccount(r)
    \/ \E a \in Accounts, to \in {"ok", "bad", "disabled", "deleted"} : ChangeStatus(a, to)
    \/ \E a \in Accounts :
        \/ BeginRefresh(a) \/ EndRefresh(a)
        \/ \E tell \in Tells : CheckLimits(a, tell)
        \/ \E invalid \in BOOLEAN : RefreshFails(a, invalid)
        \/ \E answer \in {"valid", "limited", "invalid", "unverified"} : Validate(a, answer)
    \/ TimePasses

GrokSpec == GrokInit /\ [][GrokNext]_grokVars

-----------------------------------------------------------------------------
\* The units of a quota are conserved: what is left is what was not reserved
\* since the quota was last filled or overwritten, plus at most what was
\* refunded, although a refund may come after the reset, the refresh or the
\* deletion of the quota its unit was taken from.
QuotaConserved ==
    \A a \in Accounts :
        /\ remaining[a] \in 0 .. Total
        /\ base[a] - spent[a] <= remaining[a]
        /\ remaining[a] <= base[a] - spent[a] + refunded[a]

\* An exhausted account has a reset planned at most a window ahead, so it comes
\* back, unless the upstream itself reported no units at the last refresh: a
\* refund that clears the plan leaves a unit to use.
ExhaustedComesBack ==
    \A a \in Accounts : remaining[a] = 0 => (base[a] = 0 \/ resetAt[a] \in 0 .. clock + Window)
=============================================================================
