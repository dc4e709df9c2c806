---------------------------- MODULE CatPawTokens ----------------------------
(***************************************************************************)
(* The token pairs of CatPaw (services/providers/catpaw/client.py,          *)
(* account_pool.py, chat.py, accounts.py): every refresh gives out a new    *)
(* pair and makes the refresh token it was asked with useless.  Requests,   *)
(* the renewing thread and administrators refresh at any time; the pair is  *)
(* kept in the account, or without accounts in the token file.              *)
(***************************************************************************)
EXTENDS Naturals, Sequences

CONSTANTS Users,        \* threads that use or refresh the pair
          MaxLogins,    \* bound of the logins by QR code
          MaxRotations, \* bound of the refreshes of one login
          MaxLosses     \* bound of the losses and restarts

VARIABLES stored, \* the pair in memory: of the account, of the token manager
          saved,  \* the pair in the account storage and in the token file
          latest, \* per login, the number of the last refresh token given out
          lost,   \* logins whose last token was lost
          losses, \* how often an answer, a write or the process was lost
          user    \* what each thread does, whose pair it uses, what its refresh is
                  \* for, and the pair that it asks with, or was given

tokenVars == <<stored, saved, latest, lost, losses, user>>

Shelves == {"account", "manager"}
Pair(login, n) == [login |-> login, n |-> n]
NoPair == Pair(0, 0)
User(at, shelf, for, pair) == [at |-> at, shelf |-> shelf, for |-> for, pair |-> pair]
Idle == User("idle", "account", "renewal", NoPair)

TokenInit ==
    /\ stored = [s \in Shelves |-> IF s = "manager" THEN Pair(1, 0) ELSE NoPair]
    /\ saved = stored
    /\ latest = <<0>>
    /\ lost = {} /\ losses = 0
    /\ user = [u \in Users |-> Idle]

At(u, what) == user[u].at = what
Goes(u, what) == user' = [user EXCEPT ![u] = what]
Posts(u) == User("posts", user[u].shelf, "renewal", NoPair)

\* A login by QR code: the account has a new session and its first pair, also if
\* its old one is still there.
LogIn ==
    /\ Len(latest) < MaxLogins
    /\ latest' = Append(latest, 0)
    /\ stored' = [stored EXCEPT !["account"] = Pair(Len(latest) + 1, 0)]
    /\ saved' = [saved EXCEPT !["account"] = stored'["account"]]
    /\ UNCHANGED <<lost, losses, user>>

DeletePair ==
    /\ stored["account"] # NoPair
    /\ stored' = [stored EXCEPT !["account"] = NoPair]
    /\ saved' = [saved EXCEPT !["account"] = NoPair]
    /\ UNCHANGED <<latest, lost, losses, user>>

\* select_account_for_chat, or the token manager when there is no account: a
\* pair that is near its end is refreshed first.
Choose(u) ==
    /\ At(u, "idle")
    /\ LET shelf == IF stored["account"] # NoPair THEN "account" ELSE "manager"
       IN  \/ Goes(u, User("posts", shelf, "renewal", NoPair))
           \/ Goes(u, User("reads", shelf, "near end", NoPair))
    /\ UNCHANGED <<stored, saved, latest, lost, losses>>

\* renew_due_accounts and an administrator's refresh: of accounts alone.
Renew(u) ==
    /\ At(u, "idle") /\ stored["account"] # NoPair
    /\ Goes(u, User("reads", "account", "renewal", NoPair))
    /\ UNCHANGED <<stored, saved, latest, lost, losses>>

\* stream_chat_deltas: the upstream answers or refuses the token; the first
\* refusal is met with a refresh.
PostPrompt(u) ==
    /\ At(u, "posts") \/ At(u, "posts again")
    /\ \/ Goes(u, Idle)
       \/ At(u, "posts") /\ Goes(u, User("reads", user[u].shelf, "refused", NoPair))
    /\ UNCHANGED <<stored, saved, latest, lost, losses>>

\* A refresh that failed: a request near the end goes on with the pair it has, a
\* refused one fails.
NotRefreshed(u) == Goes(u, IF user[u].for = "near end" THEN Posts(u) ELSE Idle)
Refreshed(u) ==
    Goes(u, CASE user[u].for = "near end" -> Posts(u)
              [] user[u].for = "refused"  -> [Posts(u) EXCEPT !.at = "posts again"]
              [] OTHER -> Idle)

\* fetch_catpaw_remote_info and _refresh read the pair again.
ReadPair(u) ==
    /\ At(u, "reads")
    /\ LET shelf == user[u].shelf
       IN  IF stored[shelf] = NoPair THEN NotRefreshed(u)
           ELSE Goes(u, User("refreshes", shelf, user[u].for, stored[shelf]))
    /\ UNCHANGED <<stored, saved, latest, lost, losses>>

\* Mutant: the new access token is kept, the new refresh token is not.
OldPair(p) == p

NextPair(p) == Pair(p.login, p.n + 1)

\* The upstream rotates the last token of a login, and knows no other.
UpstreamRotates(p) ==
    /\ latest[p.login] < MaxRotations /\ p.n = latest[p.login]
    /\ latest' = [latest EXCEPT ![p.login] = @ + 1]

\* refresh_token_value.
RotatePair(u) ==
    /\ At(u, "refreshes") /\ UpstreamRotates(user[u].pair)
    /\ Goes(u, User("writes", user[u].shelf, user[u].for, NextPair(user[u].pair)))
    /\ UNCHANGED <<stored, saved, lost, losses>>

\* The answer to a refresh is lost, and the new pair with it.
LoseAnswer(u) ==
    /\ At(u, "refreshes") /\ losses < MaxLosses
    /\ UpstreamRotates(user[u].pair)
    /\ lost' = lost \cup {user[u].pair.login} /\ losses' = losses + 1
    /\ NotRefreshed(u)
    /\ UNCHANGED <<stored, saved>>

\* The refresh is refused, or did not reach the upstream.
RotationFails(u) ==
    /\ At(u, "refreshes")
    /\ NotRefreshed(u)
    /\ UNCHANGED <<stored, saved, latest, lost, losses>>

\* The pair is written, to the account only if there is one.
WritePair(u) ==
    LET shelf == user[u].shelf
    IN  /\ At(u, "writes")
        /\ IF stored[shelf] = NoPair
           THEN NotRefreshed(u) /\ UNCHANGED <<stored, saved>>
           ELSE /\ stored' = [stored EXCEPT ![shelf] = user[u].pair]
                /\ saved' = [saved EXCEPT ![shelf] = user[u].pair]
                /\ Refreshed(u)
        /\ UNCHANGED <<latest, lost, losses>>

\* It is in memory and not in the storage, whose write raised, or in the file,
\* whose write fails in silence or is left out when the pair comes from the
\* environment.
WriteUnsaved(u) ==
    LET shelf == user[u].shelf
    IN  /\ At(u, "writes") /\ stored[shelf] # NoPair /\ losses < MaxLosses
        /\ losses' = losses + 1
        /\ stored' = [stored EXCEPT ![shelf] = user[u].pair]
        /\ IF shelf = "account" THEN NotRefreshed(u) ELSE Refreshed(u)
        /\ UNCHANGED <<saved, latest, lost>>

\* The process starts again with what was saved; a pair that was not is lost.
RestartTokens ==
    /\ losses < MaxLosses
    /\ losses' = losses + 1
    /\ stored' = saved
    /\ lost' = lost \cup {saved[s].login : s \in {x \in Shelves : saved[x] # NoPair
                                                    /\ saved[x].n # latest[saved[x].login]}}
    /\ user' = [u \in Users |-> Idle]
    /\ UNCHANGED <<saved, latest>>

TokenNext ==
    \/ LogIn \/ DeletePair \/ RestartTokens
    \/ \E u \in Users :
          \/ Choose(u) \/ Renew(u) \/ PostPrompt(u) \/ ReadPair(u)
          \/ RotatePair(u) \/ LoseAnswer(u) \/ RotationFails(u)
          \/ WritePair(u) \/ WriteUnsaved(u)

TokenSpec == TokenInit /\ [][TokenNext]_tokenVars

-----------------------------------------------------------------------------
\* The stored pair can be refreshed again: it is the last that its login was
\* given, or somebody has the last one in hand and is about to write it, unless
\* it was lost with an answer or a restart.  Overlapping refreshes, refreshes of
\* deleted accounts and new logins never leave a pair that is used up.
PairUsable ==
    \A s \in Shelves :
        LET p == stored[s]
        IN  p # NoPair /\ p.login \notin lost /\ p.n # latest[p.login]
              => \E u \in Users : At(u, "writes") /\ user[u].pair = Pair(p.login, latest[p.login])
=============================================================================
