--------------------------- MODULE ProviderProofs ---------------------------
(***************************************************************************)
(* Proofs about the accounts of the providers: that the units of the Grok   *)
(* console quotas are conserved and an exhausted account comes back, that   *)
(* one account answers a Grok chat, that a stored CatPaw pair can be used,  *)
(* and that CatPaw dialogues keep their conversation, for any number of     *)
(* accounts, requests, threads and dialogues.                               *)
(***************************************************************************)
EXTENDS GrokConsole, GrokAppChat, CatPawTokens, CatPawConversation, ListLemmas

-----------------------------------------------------------------------------
(* Grok console quotas.                                                    *)

Parameters == Total \in Nat /\ Window \in Nat /\ NoToken \notin Accounts

Statuses == {"ok", "bad", "disabled", "deleted"}
Told == {"units", "limit", "refused"}
Asked == [told : Told \cup {"nothing"}, units : 0 .. Total, at : Int, was : Statuses]

QuotaType ==
    /\ remaining \in [Accounts -> Int] /\ resetAt \in [Accounts -> Int]
    /\ spent \in [Accounts -> Int] /\ refunded \in [Accounts -> Int]
    /\ base \in [Accounts -> Int]

RestType ==
    /\ status \in [Accounts -> Statuses]
    /\ clock \in Nat
    /\ refresh \in [Accounts -> Asked \cup {NoRefresh}]
    /\ \A r \in Requests : gpc[r] = "ask" => token[r] \in Accounts
    /\ token \in [Requests -> Accounts \cup {NoToken}]
    /\ DOMAIN gpc = Requests

\* Of one account: the units left are the ones it had, without the ones
\* reserved and with at most the ones refunded; a reset is planned at most a
\* window ahead, and it is planned when all units it had are gone.
Sound(left, had, gone, back, at, moment) ==
    /\ left \in 0 .. Total /\ had \in 0 .. Total
    /\ had - gone <= left /\ left <= had - gone + back
    /\ at = NoReset \/ at \in 0 .. moment + Window
    /\ left = 0 => had = 0 \/ at # NoReset

QuotaSound ==
    \A a \in Accounts :
        Sound(remaining[a], base[a], spent[a], refunded[a], resetAt[a], clock)

QuotaInv == QuotaType /\ QuotaSound
GrokInv == QuotaInv /\ RestType

-----------------------------------------------------------------------------
LEMMA GrokInitInv ==
    ASSUME Parameters
    PROVE  GrokInit => GrokInv
<1> SUFFICES ASSUME GrokInit
             PROVE  GrokInv
    OBVIOUS
<1> USE DEF Parameters, GrokInit
<1>1. QuotaType
    BY DEF QuotaType, NoReset
<1>2. QuotaSound
    <2> SUFFICES ASSUME NEW a \in Accounts
                 PROVE  Sound(remaining[a], base[a], spent[a], refunded[a], resetAt[a], clock)
        BY DEF QuotaSound
    <2>1. remaining[a] = Total /\ base[a] = Total /\ spent[a] = 0 /\ refunded[a] = 0
        OBVIOUS
    <2>2. resetAt[a] = NoReset /\ Total \in Nat
        OBVIOUS
    <2> QED BY <2>1, <2>2 DEF Sound
<1>3. RestType
    BY DEF RestType, Statuses
<1> QED BY <1>1, <1>2, <1>3 DEF GrokInv, QuotaInv

-----------------------------------------------------------------------------
(* What the writes of a quota keep.                                        *)

\* A reservation: due resets fill the quotas first, and the account that loses
\* a unit has one.
LEMMA ReservedSound ==
    ASSUME Parameters, QuotaInv, RestType, NEW a \in Accounts \cup {NoToken},
           a \in Accounts => Filled(a) > 0, Reserved(a), UNCHANGED clock
    PROVE  QuotaInv'
<1> USE DEF Parameters
<1>1. QuotaType'
    <2>1. \A b \in Accounts : Filled(b) \in Int /\ Planned(b) \in Int
        BY DEF QuotaInv, QuotaType, Filled, Planned, NoReset
    <2>2. clock + Window \in Int
        BY DEF RestType
    <2> QED BY <2>1, <2>2 DEF QuotaInv, QuotaType, Reserved
<1>2. ASSUME NEW b \in Accounts
      PROVE  Sound(remaining'[b], base'[b], spent'[b], refunded'[b], resetAt'[b], clock')
    <2>1. Sound(remaining[b], base[b], spent[b], refunded[b], resetAt[b], clock)
        BY DEF QuotaInv, QuotaSound
    <2>2. /\ remaining'[b] = Filled(b) - IF b = a THEN 1 ELSE 0
          /\ resetAt'[b] = IF b = a /\ Filled(a) = 1 /\ Planned(a) = NoReset
                           THEN clock + Window ELSE Planned(b)
          /\ spent'[b] = (IF Ready(b) THEN 0 ELSE spent[b]) + IF b = a THEN 1 ELSE 0
          /\ refunded'[b] = IF Ready(b) THEN 0 ELSE refunded[b]
          /\ base'[b] = IF Ready(b) THEN Total ELSE base[b]
        BY DEF Reserved
    <2>3. /\ remaining[b] \in Int /\ base[b] \in Int /\ spent[b] \in Int
          /\ refunded[b] \in Int /\ resetAt[b] \in Int /\ clock \in Nat
        BY DEF QuotaInv, QuotaType, RestType
    <2>4. CASE Ready(b)
        BY <2>1, <2>2, <2>3, <2>4 DEF Sound, Filled, Planned, NoReset
    <2>5. CASE ~Ready(b)
        BY <2>1, <2>2, <2>3, <2>5 DEF Sound, Filled, Planned, NoReset
    <2> QED BY <2>4, <2>5
<1> QED BY <1>1, <1>2 DEF QuotaInv, QuotaSound

LEMMA OverwrittenSound ==
    ASSUME Parameters, QuotaInv, RestType, NEW a \in Accounts, NEW n \in 0 .. Total,
           Overwritten(a, n), UNCHANGED clock
    PROVE  QuotaInv'
<1>1. QuotaType'
    BY DEF Parameters, Overwritten, QuotaInv, QuotaType, NoReset
<1>2. QuotaSound'
    BY DEF Parameters, Overwritten, QuotaInv, QuotaType, QuotaSound, Sound
<1> QED BY <1>1, <1>2 DEF QuotaInv

LEMMA SameQuotaSound ==
    ASSUME QuotaInv, UNCHANGED <<quotaVars, clock>>
    PROVE  QuotaInv'
BY DEF QuotaInv, QuotaType, QuotaSound, quotaVars

\* A write of an account: a status and perhaps a quota.
LEMMA WrittenSound ==
    ASSUME Parameters, QuotaInv, RestType, NEW a \in Accounts, NEW to \in Statuses,
           NEW quota \in {NoReset} \cup 0 .. Total, Written(a, to, quota), UNCHANGED clock
    PROVE  QuotaInv' /\ status' \in [Accounts -> Statuses]
<1>1. CASE ~Exists(a) \/ quota = NoReset
    BY <1>1, SameQuotaSound DEF Written, RestType
<1>2. CASE Exists(a) /\ quota # NoReset
    BY <1>2, OverwrittenSound DEF Written, RestType
<1> QED BY <1>1, <1>2

-----------------------------------------------------------------------------
(* The steps of requests.                                                  *)

LEMMA ReserveInv ==
    ASSUME Parameters, GrokInv, NEW r \in Requests, NEW a \in Accounts, Reserve(r, a)
    PROVE  GrokInv'
<1>1. QuotaInv'
    BY ReservedSound DEF Reserve, GrokInv
<1>2. RestType'
    BY DEF Reserve, GrokInv, RestType, GrokTo
<1> QED BY <1>1, <1>2 DEF GrokInv

LEMMA NoAccountInv ==
    ASSUME Parameters, GrokInv, NEW r \in Requests, NoAccount(r)
    PROVE  GrokInv'
<1>1. QuotaInv'
    BY ReservedSound DEF NoAccount, GrokInv, Parameters
<1>2. RestType'
    BY DEF NoAccount, GrokInv, RestType, GrokTo
<1> QED BY <1>1, <1>2 DEF GrokInv

\* A refund adds at most the unit it counts; it clears a planned reset only when
\* there is a unit.
LEMMA SettleInv ==
    ASSUME Parameters, GrokInv, NEW r \in Requests, NEW result \in Results, Settle(r, result)
    PROVE  GrokInv'
<1> DEFINE a == token[r]
           back == result = "transient" /\ Exists(a)
           units == IF remaining[a] < Total THEN remaining[a] + 1 ELSE Total
<1>0. /\ a \in Accounts /\ UNCHANGED <<spent, base, clock, token, refresh>>
      /\ remaining' = [remaining EXCEPT ![a] = IF back THEN units ELSE @]
      /\ resetAt' = [resetAt EXCEPT ![a] = IF back /\ units > 0 THEN NoReset ELSE @]
      /\ refunded' = [refunded EXCEPT ![a] = IF back THEN @ + 1 ELSE @]
      /\ status' = [status EXCEPT ![a] = IF result = "ok" /\ @ = "bad" THEN "ok" ELSE @]
      /\ GrokTo(r, result) /\ result # "ask"
    BY DEF Settle, GrokInv, RestType, Results
<1>1. /\ Sound(remaining[a], base[a], spent[a], refunded[a], resetAt[a], clock)
      /\ QuotaType /\ clock \in Nat
    BY <1>0 DEF GrokInv, QuotaInv, QuotaSound, RestType
<1>2. units \in 0 .. Total /\ remaining[a] <= units /\ units <= remaining[a] + 1
    BY <1>0, <1>1 DEF Sound, Parameters, QuotaType
<1> HIDE DEF units, back
<1>3. QuotaType'
    BY <1>0, <1>1, <1>2 DEF QuotaType, NoReset
<1>4. ASSUME NEW b \in Accounts
      PROVE  Sound(remaining[b], base[b], spent[b], refunded[b], resetAt[b], clock)'
    <2>1. Sound(remaining[b], base[b], spent[b], refunded[b], resetAt[b], clock)
        BY DEF GrokInv, QuotaInv, QuotaSound
    <2>2. CASE b = a /\ back
        BY <1>0, <1>1, <1>2, <2>1, <2>2 DEF Sound, QuotaType, Parameters, NoReset
    <2>3. CASE b # a \/ ~back
        BY <1>0, <1>1, <2>1, <2>3 DEF Sound, QuotaType
    <2> QED BY <2>2, <2>3
<1>5. RestType'
    BY <1>0 DEF GrokInv, RestType, GrokTo, Statuses
<1> QED BY <1>3, <1>4, <1>5 DEF GrokInv, QuotaInv, QuotaSound

-----------------------------------------------------------------------------
(* The steps of administrators, refreshes and time.                        *)

LEMMA ChangeStatusInv ==
    ASSUME Parameters, GrokInv, NEW a \in Accounts, NEW to \in Statuses, ChangeStatus(a, to)
    PROVE  GrokInv'
<1>1. QuotaInv'
    <2>1. CASE Exists(a)
        BY <2>1, SameQuotaSound DEF ChangeStatus, GrokInv
    <2>2. CASE ~Exists(a)
        BY <2>2, OverwrittenSound DEF ChangeStatus, GrokInv, Parameters
    <2> QED BY <2>1, <2>2
<1>2. RestType'
    BY DEF ChangeStatus, GrokInv, RestType
<1> QED BY <1>1, <1>2 DEF GrokInv

LEMMA BeginRefreshInv ==
    ASSUME Parameters, GrokInv, NEW a \in Accounts, BeginRefresh(a)
    PROVE  GrokInv'
<1>1. QuotaInv'
    BY SameQuotaSound DEF BeginRefresh, GrokInv
<1>2. resetAt[a] \in Int /\ status[a] \in Statuses /\ 0 \in 0 .. Total
    BY DEF GrokInv, QuotaInv, QuotaType, RestType, Parameters
<1>3. [told |-> "nothing", units |-> 0, at |-> resetAt[a], was |-> status[a]] \in Asked
    BY <1>2 DEF Asked
<1>4. RestType'
    BY <1>3 DEF BeginRefresh, GrokInv, RestType
<1> QED BY <1>1, <1>4 DEF GrokInv

\* What a refresh is told, and the status it suggests.
LEMMA HintedStatus ==
    ASSUME NEW tell, NEW otherwise \in Statuses
    PROVE  Hinted(tell, otherwise) \in Statuses
BY DEF Hinted, Statuses

\* A refresh that has asked knows the account it read.
LEMMA AskedFacts ==
    ASSUME RestType, NEW a \in Accounts, refresh[a].told \in Told \cup {"nothing"}
    PROVE  refresh[a] \in Asked
<1>1. NoRefresh.told = "not asked"
    BY DEF NoRefresh
<1>2. refresh[a] # NoRefresh
    BY <1>1 DEF Told
<1> QED BY <1>2 DEF RestType

LEMMA CheckLimitsInv ==
    ASSUME Parameters, GrokInv, NEW a \in Accounts, NEW tell \in Tells, CheckLimits(a, tell)
    PROVE  GrokInv'
<1>1. tell.units \in 0 .. Total /\ tell.told \in Told
    <2>1. CASE tell \in [told : {"units"}, units : 0 .. Total]
        BY <2>1 DEF Told
    <2>2. CASE tell \in {[told |-> "limit", units |-> Total], [told |-> "refused", units |-> 0]}
        BY <2>2 DEF Told, Parameters
    <2> QED BY <2>1, <2>2 DEF Tells
<1>2. status[a] \in Statuses /\ Hinted(tell, status[a]) \in Statuses
    BY HintedStatus DEF GrokInv, RestType
<1>3. QuotaInv' /\ status' \in [Accounts -> Statuses]
    BY <1>1, <1>2, WrittenSound DEF CheckLimits, GrokInv
<1>4. refresh[a] \in Asked
    BY AskedFacts DEF CheckLimits, GrokInv
<1>5. refresh' = [refresh EXCEPT ![a] = [@ EXCEPT !.told = tell.told, !.units = tell.units]]
    BY DEF CheckLimits
<1>6. [refresh[a] EXCEPT !.told = tell.told, !.units = tell.units] \in Asked
    BY <1>1, <1>4 DEF Asked
<1>7. refresh' \in [Accounts -> Asked \cup {NoRefresh}]
    BY <1>5, <1>6 DEF GrokInv, RestType
<1>8. UNCHANGED <<clock, gpc, token>>
    BY DEF CheckLimits
<1> QED BY <1>3, <1>7, <1>8 DEF GrokInv, RestType

\* The end of a refresh forgets what it knew.
LEMMA RefreshOver ==
    ASSUME GrokInv, NEW a \in Accounts, QuotaInv', status' \in [Accounts -> Statuses],
           refresh' = [refresh EXCEPT ![a] = NoRefresh], UNCHANGED <<clock, gpc, token>>
    PROVE  GrokInv'
BY DEF GrokInv, RestType

LEMMA EndRefreshInv ==
    ASSUME Parameters, GrokInv, NEW a \in Accounts, EndRefresh(a)
    PROVE  GrokInv'
<1>1. refresh[a] \in Asked
    BY AskedFacts DEF EndRefresh, GrokInv, Told
<1>2. refresh[a].units \in 0 .. Total /\ refresh[a].was \in Statuses /\ status[a] \in Statuses
    BY <1>1 DEF Asked, GrokInv, RestType
<1>3. WrittenBack(a, "bad") \in Statuses /\ WrittenBack(a, status[a]) \in Statuses
    BY <1>2 DEF WrittenBack, Statuses
<1>4. Hinted(refresh[a], WrittenBack(a, status[a])) \in Statuses
    BY <1>3, HintedStatus
<1>5. PICK to \in Statuses, quota \in {NoReset} \cup 0 .. Total : Written(a, to, quota)
    <2>1. CASE refresh[a].told = "refused"
        <3>1. (IF Overdue(a) THEN Total ELSE NoReset) \in {NoReset} \cup 0 .. Total
            BY DEF Parameters
        <3> QED BY <1>3, <2>1, <3>1 DEF EndRefresh
    <2>2. CASE refresh[a].told # "refused"
        BY <1>2, <1>4, <2>2 DEF EndRefresh
    <2> QED BY <2>1, <2>2
<1>6. QuotaInv' /\ status' \in [Accounts -> Statuses]
    BY <1>5, WrittenSound DEF EndRefresh, GrokInv
<1> QED BY <1>6, RefreshOver DEF EndRefresh

LEMMA RefreshFailsInv ==
    ASSUME Parameters, GrokInv, NEW a \in Accounts, NEW invalid \in BOOLEAN,
           RefreshFails(a, invalid)
    PROVE  GrokInv'
<1>1. QuotaInv' /\ status' \in [Accounts -> Statuses]
    <2>1. CASE invalid
        <3>1. PICK to \in {"bad", "deleted"} : Written(a, to, NoReset)
            BY <2>1 DEF RefreshFails
        <3> QED BY <3>1, WrittenSound DEF RefreshFails, GrokInv, Statuses
    <2>2. CASE ~invalid
        BY <2>2, SameQuotaSound DEF RefreshFails, GrokInv, RestType
    <2> QED BY <2>1, <2>2
<1> QED BY <1>1, RefreshOver DEF RefreshFails

LEMMA ValidateInv ==
    ASSUME Parameters, GrokInv, NEW a \in Accounts,
           NEW answer \in {"valid", "limited", "invalid", "unverified"}, Validate(a, answer)
    PROVE  GrokInv'
<1>1. PICK to \in Statuses : Written(a, to, NoReset)
    BY DEF Validate, Statuses, GrokInv, RestType
<1>2. QuotaInv' /\ status' \in [Accounts -> Statuses]
    BY <1>1, WrittenSound DEF Validate, GrokInv
<1> QED BY <1>2 DEF Validate, GrokInv, RestType

\* Time brings a planned reset closer.
LEMMA TimeInv ==
    ASSUME Parameters, GrokInv, TimePasses
    PROVE  GrokInv'
<1>1. clock \in Nat /\ clock' = clock + 1 /\ UNCHANGED <<status, quotaVars, gpc, token, refresh>>
    BY DEF TimePasses, GrokInv, RestType
<1>2. QuotaInv'
    BY <1>1 DEF Parameters, GrokInv, QuotaInv, QuotaType, QuotaSound, Sound, quotaVars
<1>3. RestType'
    BY <1>1 DEF GrokInv, RestType
<1> QED BY <1>2, <1>3 DEF GrokInv

LEMMA GrokNextInv ==
    ASSUME Parameters
    PROVE  GrokInv /\ [GrokNext]_grokVars => GrokInv'
<1> SUFFICES ASSUME GrokInv, [GrokNext]_grokVars
             PROVE  GrokInv'
    OBVIOUS
<1>1. CASE UNCHANGED grokVars
    BY <1>1 DEF grokVars, quotaVars, GrokInv, QuotaInv, QuotaType, QuotaSound, RestType
<1>2. ASSUME NEW r \in Requests,
             \/ \E a \in Accounts : Reserve(r, a)
             \/ \E result \in Results : Settle(r, result)
             \/ NoAccount(r)
      PROVE  GrokInv'
    BY <1>2, ReserveInv, SettleInv, NoAccountInv
<1>3. ASSUME NEW a \in Accounts,
             \/ BeginRefresh(a) \/ EndRefresh(a)
             \/ \E tell \in Tells : CheckLimits(a, tell)
             \/ \E invalid \in BOOLEAN : RefreshFails(a, invalid)
             \/ \E answer \in {"valid", "limited", "invalid", "unverified"} : Validate(a, answer)
      PROVE  GrokInv'
    BY <1>3, BeginRefreshInv, EndRefreshInv, CheckLimitsInv, RefreshFailsInv, ValidateInv
<1>4. ASSUME NEW a \in Accounts, NEW to \in Statuses, ChangeStatus(a, to)
      PROVE  GrokInv'
    BY <1>4, ChangeStatusInv
<1>5. CASE TimePasses
    BY <1>5, TimeInv
<1> QED BY <1>1, <1>2, <1>3, <1>4, <1>5 DEF GrokNext, Statuses

-----------------------------------------------------------------------------
\* The units of every quota are conserved, whenever refunds, resets, refreshes
\* and deletions of the account come.
THEOREM UnitsConserved ==
    ASSUME Parameters
    PROVE  GrokSpec => []QuotaConserved
<1>1. GrokInv => QuotaConserved
    BY DEF GrokInv, QuotaInv, QuotaSound, Sound, QuotaConserved
<1> QED BY GrokInitInv, GrokNextInv, <1>1, PTL DEF GrokSpec

\* An exhausted account has its reset planned at most a window ahead, unless the
\* provider itself reported that it had no units.
THEOREM ExhaustedIsPlanned ==
    ASSUME Parameters
    PROVE  GrokSpec => []ExhaustedComesBack
<1>1. GrokInv => ExhaustedComesBack
    BY DEF GrokInv, QuotaInv, QuotaSound, Sound, ExhaustedComesBack
<1> QED BY GrokInitInv, GrokNextInv, <1>1, PTL DEF GrokSpec
-----------------------------------------------------------------------------
(* Grok app chat.                                                          *)

ChatPlaces ==
    {"new", "select", "post", "bridge", "listen", "read", "answered", "failed", "left"}
UsedAccounts == ChatAccounts \union {NobodyUsed}

ChatType ==
    /\ apc \in [Chats -> ChatPlaces]
    /\ used \in [Chats -> UsedAccounts]
    /\ said \in [Chats -> SUBSET (UsedAccounts \X {"direct", "bridge"})]

\* Everything said comes from the account in use, and a request that goes on to
\* select one has said nothing.
OnlyUsedSaid ==
    \A c \in Chats : /\ \A conversation \in said[c] : conversation[1] = used[c]
                     /\ apc[c] \in {"new", "select"} => said[c] = {}

ChatInv == ChatType /\ OnlyUsedSaid

LEMMA ChatInitInv == ChatInit => ChatInv
BY DEF ChatInit, ChatInv, ChatType, ChatPlaces, UsedAccounts, OnlyUsedSaid

\* A try that fails ends the request or, when nothing was said, selects again.
LEMMA RaisedInv ==
    ASSUME ChatInv, NEW c \in Chats, NEW retryable \in BOOLEAN, Raise(c, retryable),
           UNCHANGED <<used, said>>
    PROVE  ChatInv'
BY DEF ChatInv, ChatType, ChatPlaces, OnlyUsedSaid, Raise, AppTo

\* A try that goes on, wherever that is, keeps its account.
LEMMA GoesOnInv ==
    ASSUME ChatInv, NEW c \in Chats, NEW where \in ChatPlaces \ {"new", "select"},
           AppTo(c, where), UNCHANGED <<used, said>>
    PROVE  ChatInv'
BY DEF ChatInv, ChatType, OnlyUsedSaid, AppTo

\* What is passed on comes from the account in use.
LEMMA SaidInv ==
    ASSUME ChatInv, NEW c \in Chats, apc[c] \in {"listen", "read"},
           \E where \in {"listen", "read", "answered", "failed"} : AppTo(c, where),
           said' = [said EXCEPT ![c] = @ \union {<<used[c], Channel(c)>>}], used' = used
    PROVE  ChatInv'
<1>1. PICK where \in {"listen", "read", "answered", "failed"} : AppTo(c, where)
    OBVIOUS
<1>2. ChatType'
    <2>1. <<used[c], Channel(c)>> \in UsedAccounts \X {"direct", "bridge"}
        BY DEF ChatInv, ChatType, Channel
    <2> QED BY <1>1, <2>1 DEF ChatInv, ChatType, ChatPlaces, AppTo
<1>3. ASSUME NEW d \in Chats
      PROVE  /\ \A conversation \in said'[d] : conversation[1] = used'[d]
             /\ apc'[d] \in {"new", "select"} => said'[d] = {}
    <2>1. CASE d = c
        <3>1. said'[d] = said[c] \union {<<used[c], Channel(c)>>} /\ apc'[d] = where
            BY <1>1, <2>1 DEF ChatInv, ChatType, AppTo
        <3> QED BY <2>1, <3>1 DEF ChatInv, OnlyUsedSaid
    <2>2. CASE d # c
        BY <1>1, <2>2 DEF ChatInv, ChatType, OnlyUsedSaid, AppTo
    <2> QED BY <2>1, <2>2
<1> QED BY <1>2, <1>3 DEF ChatInv, OnlyUsedSaid

LEMMA PostChatInv ==
    ASSUME ChatInv, NEW c \in Chats, NEW answer \in PostAnswers, NEW detected \in BOOLEAN,
           PostChat(c, answer, detected)
    PROVE  ChatInv'
<1>1. UNCHANGED <<used, said>>
    BY DEF PostChat
<1>2. CASE answer = "stream"
    BY <1>1, <1>2, GoesOnInv DEF PostChat, ChatPlaces
<1>3. CASE answer \in {"transient", "unreachable"} /\ detected
    BY <1>1, <1>3, GoesOnInv DEF PostChat, ChatPlaces
<1>4. CASE answer # "stream" /\ ~(answer \in {"transient", "unreachable"} /\ detected)
    BY <1>1, <1>4, RaisedInv DEF PostChat
<1> QED BY <1>2, <1>3, <1>4

LEMMA BridgeInv ==
    ASSUME ChatInv, NEW c \in Chats,
           NEW answer \in {"lines", "transient", "refused", "unreachable"}, Bridge(c, answer)
    PROVE  ChatInv'
<1>1. UNCHANGED <<used, said>>
    BY DEF Bridge
<1>2. CASE answer = "lines"
    BY <1>1, <1>2, GoesOnInv DEF Bridge, ChatPlaces
<1>3. CASE answer # "lines"
    BY <1>1, <1>3, RaisedInv DEF Bridge
<1> QED BY <1>2, <1>3

LEMMA StreamErrorInv ==
    ASSUME ChatInv, NEW c \in Chats, NEW error \in {"limit", "challenge", "other"},
           NEW detected \in BOOLEAN, StreamError(c, error, detected)
    PROVE  ChatInv'
BY GoesOnInv, RaisedInv DEF StreamError, ChatPlaces

LEMMA SelectInv ==
    ASSUME ChatInv, NEW c \in Chats, NEW configured \in BOOLEAN, Select(c, configured)
    PROVE  ChatInv'
\* Nothing is said yet, so the new account is the only one.
BY DEF Select, AppTo, ChatCandidates, Healthy, ChatInv, ChatType, ChatPlaces,
       UsedAccounts, OnlyUsedSaid

LEMMA FinishInv ==
    ASSUME ChatInv, NEW c \in Chats, NEW complete \in BOOLEAN, Finish(c, complete)
    PROVE  ChatInv'
<1>1. CASE complete
    <2>1. AppTo(c, "answered") /\ said' = [said EXCEPT ![c] = @ \union {<<used[c], Channel(c)>>}]
        BY <1>1 DEF Finish
    <2> QED BY <2>1, SaidInv DEF Finish
<1>2. CASE ~complete
    <2>1. AppTo(c, "failed") /\ said' = said
        BY <1>2 DEF Finish, ChatInv, ChatType
    <2> QED BY <2>1, GoesOnInv DEF Finish, ChatPlaces
<1> QED BY <1>1, <1>2

LEMMA ChatNextInv == ChatInv /\ [ChatNext]_chatVars => ChatInv'
<1> SUFFICES ASSUME ChatInv, [ChatNext]_chatVars
             PROVE  ChatInv'
    OBVIOUS
<1>1. ASSUME NEW c \in Chats, NEW accounts \in SUBSET ChatAccounts, NEW image \in BOOLEAN,
             Ask(c, accounts, image)
      PROVE  ChatInv'
    BY <1>1 DEF Ask, AppTo, ChatInv, ChatType, ChatPlaces, OnlyUsedSaid
<1>2. ASSUME NEW c \in Chats, NobodyLeft(c) \/ GiveUp(c)
      PROVE  ChatInv'
    BY <1>2, GoesOnInv DEF NobodyLeft, GiveUp, ChatPlaces, ChatInv, ChatType, OnlyUsedSaid
<1>3. ASSUME NEW c \in Chats, Event(c)
      PROVE  ChatInv'
    <2>1. apc' = apc /\ apc[c] \in {"listen", "read"}
        BY <1>3 DEF Event
    <2>2. AppTo(c, apc[c])
        BY <2>1 DEF AppTo, ChatInv, ChatType
    <2> QED BY <1>3, <2>1, <2>2, SaidInv DEF Event
<1>4. ASSUME NEW c \in Chats, Leave(c)
      PROVE  ChatInv'
    BY <1>4, GoesOnInv DEF Leave, ChatPlaces
<1>5. ASSUME NEW c \in Chats, ChatProgress(c)
      PROVE  ChatInv'
    BY <1>2, <1>3, <1>4, <1>5, SelectInv, PostChatInv, BridgeInv, StreamErrorInv, FinishInv
       DEF ChatProgress
<1>6. ASSUME NEW a \in ChatAccounts, NEW to, SetHealth(a, to)
      PROVE  ChatInv'
    BY <1>6 DEF SetHealth, ChatInv, ChatType, OnlyUsedSaid
<1>7. CASE UNCHANGED chatVars
    BY <1>7 DEF chatVars, ChatInv, ChatType, OnlyUsedSaid
<1> QED BY <1>1, <1>5, <1>6, <1>7 DEF ChatNext

\* The client of a request is answered from one account, however many streams
\* break and are tried again, for any number of accounts and of tries.
THEOREM OneAccountSpeaks == ChatSpec => []OneAccountAnswers
<1>1. ChatInv => OneAccountAnswers
    <2> SUFFICES ASSUME ChatInv, NEW c \in Chats
                 PROVE  Cardinality({conversation[1] : conversation \in said[c]}) <= 1
        BY DEF OneAccountAnswers
    <2> DEFINE speakers == {conversation[1] : conversation \in said[c]}
    <2>1. speakers \subseteq {used[c]}
        BY DEF ChatInv, OnlyUsedSaid
    <2>2. Cardinality({}) = 0 /\ Cardinality({used[c]}) = 1
        BY FS_EmptySet, FS_Singleton
    <2> HIDE DEF speakers
    <2>3. speakers = {} \/ speakers = {used[c]}
        BY <2>1
    <2>4. Cardinality(speakers) <= 1
        BY <2>2, <2>3
    <2> QED BY <2>4 DEF speakers
<1> QED BY ChatInitInv, ChatNextInv, <1>1, PTL DEF ChatSpec
-----------------------------------------------------------------------------
(* CatPaw token pairs.                                                     *)

Pairs == [login : Nat, n : Nat]
UserStates ==
    [at : {"idle", "posts", "posts again", "reads", "refreshes", "writes"}, shelf : Shelves,
     for : {"renewal", "near end", "refused"}, pair : Pairs]

TokenType ==
    /\ stored \in [Shelves -> Pairs] /\ saved \in [Shelves -> Pairs]
    /\ latest \in Seq(Nat) /\ Len(latest) >= 1
    /\ user \in [Users -> UserStates]

InHand(u) == At(u, "refreshes") \/ At(u, "writes")

\* A pair that a login was given, of the token manager's login or of the account's.
Given(shelf, p) ==
    /\ p.login \in DOMAIN latest /\ p.n <= latest[p.login]
    /\ p.login = 1 <=> shelf = "manager"

PairsGiven ==
    /\ \A s \in Shelves : /\ stored[s] = NoPair \/ Given(s, stored[s])
                          /\ saved[s] = NoPair \/ Given(s, saved[s])
    /\ \A u \in Users : InHand(u) => Given(user[u].shelf, user[u].pair)

\* A pair about to be written is the last of its login, and the only copy of it:
\* nobody can rotate it before it is written.
NewestInHand ==
    \A u \in Users : At(u, "writes") =>
        LET p == user[u].pair
        IN  /\ p.n = latest[p.login]
            /\ \A s \in Shelves : stored[s].login = p.login => stored[s].n < p.n
            /\ \A v \in Users \ {u} : InHand(v) /\ user[v].pair.login = p.login
                                        => At(v, "refreshes") /\ user[v].pair.n < p.n

TokenInv == TokenType /\ PairsGiven /\ NewestInHand /\ PairUsable

-----------------------------------------------------------------------------
LEMMA TokenInitInv == TokenInit => TokenInv
<1> SUFFICES ASSUME TokenInit
             PROVE  TokenInv
    OBVIOUS
<1>1. /\ \A s \in Shelves : stored[s] = IF s = "manager" THEN Pair(1, 0) ELSE NoPair
      /\ saved = stored /\ latest = <<0>> /\ latest[1] = 0
      /\ \A u \in Users : user[u] = Idle /\ Idle.at = "idle"
    BY DEF TokenInit, Idle, User
<1>2. TokenType
    BY <1>1 DEF TokenInit, TokenType, Pairs, UserStates, Pair, NoPair, Idle, User, Shelves
<1>3. PairsGiven /\ NewestInHand
    BY <1>1 DEF PairsGiven, Given, NewestInHand, InHand, At, Pair
<1>4. PairUsable
    BY <1>1 DEF PairUsable, Pair
<1> QED BY <1>2, <1>3, <1>4 DEF TokenInv

\* After a refresh a thread has no pair in hand.
LEMMA AfterRefresh ==
    ASSUME TokenType, NEW u \in Users, NotRefreshed(u) \/ Refreshed(u)
    PROVE  \E what \in UserStates : what.at \in {"idle", "posts", "posts again"} /\ Goes(u, what)
<1>1. user[u].shelf \in Shelves
    BY DEF TokenType, UserStates
<1>2. Idle \in UserStates /\ Idle.at = "idle"
    BY DEF Idle, User, UserStates, NoPair, Pair, Pairs, Shelves
<1>3. Posts(u) \in UserStates /\ Posts(u).at = "posts"
    BY <1>1 DEF Posts, User, UserStates, NoPair, Pair, Pairs
<1>4. /\ [Posts(u) EXCEPT !.at = "posts again"] \in UserStates
      /\ [Posts(u) EXCEPT !.at = "posts again"].at = "posts again"
    BY <1>3 DEF UserStates
<1> QED BY <1>2, <1>3, <1>4 DEF NotRefreshed, Refreshed

\* What a thread does without a pair in hand disturbs nothing.
LEMMA WalksOn ==
    ASSUME TokenInv, NEW u \in Users, ~At(u, "writes"), NEW what \in UserStates,
           what.at \notin {"refreshes", "writes"}, Goes(u, what),
           UNCHANGED <<stored, saved, latest, lost>>
    PROVE  TokenInv'
<1>1. /\ user'[u] = what /\ user' \in [Users -> UserStates]
      /\ \A v \in Users \ {u} : user'[v] = user[v]
    BY DEF Goes, TokenInv, TokenType
<1>2. TokenType'
    BY <1>1 DEF TokenInv, TokenType
<1>3. PairsGiven'
    BY <1>1 DEF TokenInv, PairsGiven, Given, InHand, At
<1>4. NewestInHand'
    BY <1>1 DEF TokenInv, NewestInHand, InHand, At
<1>5. PairUsable'
    BY <1>1 DEF TokenInv, PairUsable, At
<1> QED BY <1>2, <1>3, <1>4, <1>5 DEF TokenInv

\* The pair a thread reads is older than one about to be written.
LEMMA ReadPairInv ==
    ASSUME TokenInv, NEW u \in Users, ReadPair(u)
    PROVE  TokenInv'
<1> DEFINE shelf == user[u].shelf
<1>1. CASE stored[shelf] = NoPair
    <2>1. NotRefreshed(u) /\ ~At(u, "writes") /\ UNCHANGED <<stored, saved, latest, lost>>
        BY <1>1 DEF ReadPair, At
    <2> QED BY <2>1, AfterRefresh, WalksOn DEF TokenInv
<1>2. CASE stored[shelf] # NoPair
    <2> DEFINE what == User("refreshes", shelf, user[u].for, stored[shelf])
    <2>1. Goes(u, what) /\ At(u, "reads") /\ UNCHANGED <<stored, saved, latest, lost>>
        BY <1>2 DEF ReadPair
    <2>2. /\ shelf \in Shelves /\ what \in UserStates /\ what.at = "refreshes"
          /\ what.shelf = shelf /\ what.pair = stored[shelf]
        BY DEF TokenInv, TokenType, UserStates, User
    <2> HIDE DEF what
    <2>3. /\ user'[u] = what /\ user' \in [Users -> UserStates]
          /\ \A v \in Users \ {u} : user'[v] = user[v]
        BY <2>1, <2>2 DEF Goes, TokenInv, TokenType
    <2>4. TokenType'
        BY <2>1, <2>3 DEF TokenInv, TokenType
    <2>5. PairsGiven'
        BY <1>2, <2>1, <2>2, <2>3 DEF TokenInv, PairsGiven, Given, InHand, At
    <2>6. NewestInHand'
        BY <2>1, <2>2, <2>3 DEF TokenInv, NewestInHand, InHand, At
    <2>7. PairUsable'
        BY <2>1, <2>2, <2>3 DEF TokenInv, PairUsable, At
    <2> QED BY <2>4, <2>5, <2>6, <2>7 DEF TokenInv
<1> QED BY <1>1, <1>2

\* A refresh: the new pair is newer than every stored one and than every pair in
\* hand, and nobody who asked for a pair had a newer one.
LEMMA Rotated ==
    ASSUME TokenInv, NEW u \in Users, At(u, "refreshes"), UpstreamRotates(user[u].pair)
    PROVE  LET l == user[u].pair.login IN
           /\ l \in DOMAIN latest /\ user[u].pair.n = latest[l] /\ latest[l] \in Nat
           /\ latest' \in Seq(Nat) /\ DOMAIN latest' = DOMAIN latest /\ Len(latest') = Len(latest)
           /\ latest'[l] = latest[l] + 1 /\ \A k \in DOMAIN latest \ {l} : latest'[k] = latest[k]
           /\ \A v \in Users : At(v, "writes") => user[v].pair.login # l
<1> DEFINE l == user[u].pair.login
<1>1. l \in DOMAIN latest /\ user[u].pair.n = latest[l]
    BY DEF TokenInv, PairsGiven, Given, InHand, UpstreamRotates
<1>2. latest' = [latest EXCEPT ![l] = @ + 1]
    BY DEF UpstreamRotates
<1>3. latest[l] \in Nat
    BY <1>1 DEF TokenInv, TokenType
<1>4. /\ latest' \in Seq(Nat) /\ DOMAIN latest' = DOMAIN latest /\ Len(latest') = Len(latest)
      /\ latest'[l] = latest[l] + 1 /\ \A k \in DOMAIN latest \ {l} : latest'[k] = latest[k]
    BY <1>1, <1>2, <1>3 DEF TokenInv, TokenType
<1>5. ASSUME NEW v \in Users, At(v, "writes"), user[v].pair.login = l
      PROVE  FALSE
    <2>1. v # u
        BY <1>5 DEF At
    <2>2. user[u].pair.n < user[v].pair.n /\ user[v].pair.n = latest[l]
        BY <1>5, <2>1 DEF TokenInv, NewestInHand, InHand
    <2> QED BY <1>1, <1>3, <2>2
<1> QED BY <1>1, <1>3, <1>4, <1>5

LEMMA RotateInv ==
    ASSUME TokenInv, NEW u \in Users, RotatePair(u)
    PROVE  TokenInv'
<1> DEFINE l == user[u].pair.login
<1>0. PICK what : what = User("writes", user[u].shelf, user[u].for, NextPair(user[u].pair))
    OBVIOUS
<1>1. At(u, "refreshes") /\ Goes(u, what) /\ UNCHANGED <<stored, saved, lost>>
    BY <1>0 DEF RotatePair
<1>2. /\ l \in DOMAIN latest /\ user[u].pair.n = latest[l] /\ latest[l] \in Nat
      /\ latest' \in Seq(Nat) /\ DOMAIN latest' = DOMAIN latest /\ Len(latest') = Len(latest)
      /\ latest'[l] = latest[l] + 1 /\ \A k \in DOMAIN latest \ {l} : latest'[k] = latest[k]
      /\ \A v \in Users : At(v, "writes") => user[v].pair.login # l
    BY <1>1, Rotated DEF RotatePair
<1>3. /\ what \in UserStates /\ what.at = "writes" /\ what.shelf = user[u].shelf
      /\ what.pair = Pair(l, latest[l] + 1)
      /\ what.pair.login = l /\ what.pair.n = latest[l] + 1
    <2>1. user[u] \in UserStates /\ user[u].pair \in Pairs
        BY DEF TokenInv, TokenType, UserStates
    <2>2. NextPair(user[u].pair) = Pair(l, latest[l] + 1)
        BY <1>2 DEF NextPair
    <2>3. Pair(l, latest[l] + 1) \in Pairs
        BY <1>2, <2>1 DEF Pair, Pairs
    <2>4. what = User("writes", user[u].shelf, user[u].for, Pair(l, latest[l] + 1))
        BY <1>0, <2>2
    <2>5. Pair(l, latest[l] + 1).login = l /\ Pair(l, latest[l] + 1).n = latest[l] + 1
        BY DEF Pair
    <2> HIDE DEF l
    <2> QED BY <2>1, <2>3, <2>4, <2>5 DEF UserStates, User
<1>4. Given(user[u].shelf, user[u].pair) /\ l \in Nat
    BY <1>1 DEF TokenInv, TokenType, UserStates, Pairs, PairsGiven, InHand
<1>5. /\ user'[u] = what /\ user' \in [Users -> UserStates]
      /\ \A v \in Users \ {u} : user'[v] = user[v]
    BY <1>1, <1>3 DEF Goes, TokenInv, TokenType
<1>6. TokenType'
    BY <1>1, <1>2, <1>5 DEF TokenInv, TokenType
<1>7. \A k \in DOMAIN latest : latest[k] \in Nat /\ latest[k] <= latest'[k]
    BY <1>2 DEF TokenInv, TokenType
<1>8. ASSUME NEW p \in Pairs, p.login \in DOMAIN latest, p.n <= latest[p.login]
      PROVE  /\ p.login \in DOMAIN latest' /\ p.n <= latest'[p.login]
             /\ p.login = l => p.n < latest'[l]
    BY <1>2, <1>7, <1>8 DEF Pairs
<1>9. Given(what.shelf, what.pair)'
    BY <1>2, <1>3, <1>4 DEF Given
<1>10. \A v \in Users : user[v].pair \in Pairs
    BY DEF TokenInv, TokenType, UserStates
<1>11. \A s \in Shelves : stored[s] \in Pairs /\ saved[s] \in Pairs
    BY DEF TokenInv, TokenType
<1>12. PairsGiven'
    <2>1. ASSUME NEW shelf, NEW p \in Pairs, Given(shelf, p)
          PROVE  Given(shelf, p)'
        BY <1>8, <2>1 DEF Given
    <2>2. \A s \in Shelves : /\ stored'[s] = NoPair \/ Given(s, stored[s])'
                             /\ saved'[s] = NoPair \/ Given(s, saved[s])'
        BY <1>1, <1>11, <2>1 DEF TokenInv, PairsGiven
    <2>3. ASSUME NEW v \in Users, InHand(v)'
          PROVE  Given(user[v].shelf, user[v].pair)'
        <3>1. CASE v = u
            BY <1>5, <1>9, <3>1
        <3>2. CASE v # u
            <4>1. user'[v] = user[v] /\ InHand(v)
                BY <1>5, <2>3, <3>2 DEF InHand, At
            <4>2. Given(user[v].shelf, user[v].pair)
                BY <4>1 DEF TokenInv, PairsGiven
            <4> QED BY <1>10, <2>1, <4>1, <4>2
        <3> QED BY <3>1, <3>2
    <2> QED BY <2>2, <2>3 DEF PairsGiven
<1>13. NewestInHand'
    <2>1. \A s \in Shelves : stored[s].login = l => stored[s].n < latest'[l]
        BY <1>2, <1>4, <1>8, <1>11 DEF TokenInv, PairsGiven, NoPair, Pair, Given
    <2>2. \A v \in Users : InHand(v) /\ user[v].pair.login = l
                                => At(v, "refreshes") /\ user[v].pair.n < latest'[l]
        BY <1>2, <1>8, <1>10 DEF TokenInv, PairsGiven, Given, InHand
    <2>3. ASSUME NEW v \in Users, At(v, "writes")'
          PROVE  LET p == user'[v].pair
                 IN  /\ p.n = latest'[p.login]
                     /\ \A s \in Shelves : stored[s].login = p.login => stored[s].n < p.n
                     /\ \A w \in Users \ {v} : InHand(w)' /\ user'[w].pair.login = p.login
                                                => At(w, "refreshes")' /\ user'[w].pair.n < p.n
        <3>1. CASE v = u
            BY <1>2, <1>3, <1>5, <2>1, <2>2, <3>1 DEF InHand, At
        <3>2. CASE v # u
            <4>1. At(v, "writes") /\ user'[v] = user[v] /\ user[v].pair.login # l
                BY <1>2, <1>5, <2>3, <3>2 DEF At
            <4>2. /\ user[v].pair.login \in DOMAIN latest
                  /\ user[v].pair.n = latest[user[v].pair.login]
                BY <4>1 DEF TokenInv, PairsGiven, InHand, Given, NewestInHand
            <4>3. user'[v].pair.n = latest'[user'[v].pair.login]
                BY <1>2, <4>1, <4>2
            <4>4. \A s \in Shelves : stored[s].login = user[v].pair.login
                                      => stored[s].n < user[v].pair.n
                BY <4>1 DEF TokenInv, NewestInHand
            <4>5. ASSUME NEW w \in Users \ {v}, InHand(w)',
                         user'[w].pair.login = user[v].pair.login
                  PROVE  At(w, "refreshes")' /\ user'[w].pair.n < user[v].pair.n
                <5>1. w # u
                    BY <1>3, <1>5, <4>1, <4>5
                <5>2. user'[w] = user[w]
                    BY <1>5, <5>1
                <5>3. InHand(w)
                    BY <4>5, <5>2 DEF InHand, At
                <5>4. At(w, "refreshes") /\ user[w].pair.n < user[v].pair.n
                    BY <4>1, <4>5, <5>2, <5>3 DEF TokenInv, NewestInHand
                <5> QED BY <5>2, <5>4 DEF At
            <4> QED BY <4>1, <4>3, <4>4, <4>5
        <3> QED BY <3>1, <3>2
    <2> QED BY <1>1, <2>3 DEF NewestInHand
<1>14. PairUsable'
    <2> SUFFICES ASSUME NEW s \in Shelves, stored[s] # NoPair, stored[s].login \notin lost,
                        stored[s].n # latest'[stored[s].login]
                 PROVE  \E v \in Users :
                            /\ At(v, "writes")'
                            /\ user'[v].pair = Pair(stored[s].login, latest'[stored[s].login])
        BY <1>1 DEF PairUsable
    <2>1. CASE stored[s].login = l
        BY <1>2, <1>3, <1>5, <2>1 DEF At
    <2>2. CASE stored[s].login # l
        <3>1. stored[s].login \in DOMAIN latest
            BY DEF TokenInv, PairsGiven, Given
        <3>2. PICK v \in Users : /\ At(v, "writes")
                                 /\ user[v].pair = Pair(stored[s].login, latest[stored[s].login])
            BY <1>2, <2>2, <3>1 DEF TokenInv, PairUsable
        <3>3. v # u
            BY <1>1, <3>2 DEF At
        <3> QED BY <1>2, <1>5, <2>2, <3>1, <3>2, <3>3 DEF At
    <2> QED BY <2>1, <2>2
<1> QED BY <1>6, <1>12, <1>13, <1>14 DEF TokenInv

\* The answer to a refresh is lost: nobody has the last pair of the login.
LEMMA LoseAnswerInv ==
    ASSUME TokenInv, NEW u \in Users, LoseAnswer(u)
    PROVE  TokenInv'
<1> DEFINE l == user[u].pair.login
<1>1. At(u, "refreshes") /\ UNCHANGED <<stored, saved>> /\ lost' = lost \cup {l}
    BY DEF LoseAnswer
<1>2. /\ l \in DOMAIN latest /\ user[u].pair.n = latest[l] /\ latest[l] \in Nat
      /\ latest' \in Seq(Nat) /\ DOMAIN latest' = DOMAIN latest /\ Len(latest') = Len(latest)
      /\ latest'[l] = latest[l] + 1 /\ \A k \in DOMAIN latest \ {l} : latest'[k] = latest[k]
      /\ \A v \in Users : At(v, "writes") => user[v].pair.login # l
    BY <1>1, Rotated DEF LoseAnswer
<1>3. PICK what \in UserStates : what.at \in {"idle", "posts", "posts again"} /\ Goes(u, what)
    BY AfterRefresh DEF TokenInv, LoseAnswer
<1>4. /\ user'[u] = what /\ user' \in [Users -> UserStates]
      /\ \A v \in Users \ {u} : user'[v] = user[v]
    BY <1>3 DEF Goes, TokenInv, TokenType
<1>5. TokenType'
    BY <1>1, <1>2, <1>4 DEF TokenInv, TokenType
<1>6. \A k \in DOMAIN latest : latest[k] \in Nat /\ latest[k] <= latest'[k]
    BY <1>2 DEF TokenInv, TokenType
<1>7. ASSUME NEW p \in Pairs, p.login \in DOMAIN latest, p.n <= latest[p.login]
      PROVE  p.login \in DOMAIN latest' /\ p.n <= latest'[p.login]
    BY <1>2, <1>6, <1>7 DEF Pairs
<1>8. /\ \A v \in Users : user[v].pair \in Pairs
      /\ \A s \in Shelves : stored[s] \in Pairs /\ saved[s] \in Pairs
    BY DEF TokenInv, TokenType, UserStates
<1>9. PairsGiven'
    BY <1>1, <1>3, <1>4, <1>7, <1>8 DEF TokenInv, PairsGiven, Given, InHand, At
<1>10. ASSUME NEW v \in Users, At(v, "writes")'
       PROVE  /\ At(v, "writes") /\ user'[v] = user[v]
              /\ latest'[user[v].pair.login] = latest[user[v].pair.login]
    <2>1. At(v, "writes") /\ user'[v] = user[v]
        BY <1>3, <1>4, <1>10 DEF At
    <2>2. user[v].pair.login \in DOMAIN latest \ {l}
        BY <1>2, <2>1 DEF TokenInv, PairsGiven, Given, InHand
    <2> QED BY <1>2, <2>1, <2>2
<1>11. \A v \in Users : InHand(v)' => InHand(v) /\ user'[v] = user[v]
    BY <1>3, <1>4 DEF InHand, At
<1>12. NewestInHand'
    BY <1>1, <1>10, <1>11 DEF TokenInv, NewestInHand, InHand, At
<1>13. PairUsable'
    <2> SUFFICES ASSUME NEW s \in Shelves, stored[s] # NoPair, stored[s].login \notin lost',
                        stored[s].n # latest'[stored[s].login]
                 PROVE  \E v \in Users :
                            /\ At(v, "writes")'
                            /\ user'[v].pair = Pair(stored[s].login, latest'[stored[s].login])
        BY <1>1 DEF PairUsable
    <2>1. stored[s].login \in DOMAIN latest \ {l} /\ stored[s].login \notin lost
        BY <1>1 DEF TokenInv, PairsGiven, Given
    <2>2. PICK v \in Users : /\ At(v, "writes")
                             /\ user[v].pair = Pair(stored[s].login, latest[stored[s].login])
        BY <1>2, <2>1 DEF TokenInv, PairUsable
    <2>3. v # u
        BY <1>1, <2>2 DEF At
    <2> QED BY <1>2, <1>4, <2>1, <2>2, <2>3 DEF At
<1> QED BY <1>5, <1>9, <1>12, <1>13 DEF TokenInv

\* The pair is put on its shelf, and perhaps into the storage: it is the last of
\* its login, and the thread has it no longer in hand.
LEMMA WrittenInv ==
    ASSUME TokenInv, NEW u \in Users, At(u, "writes"),
           stored' = [stored EXCEPT ![user[u].shelf] = user[u].pair],
           saved' \in {saved, [saved EXCEPT ![user[u].shelf] = user[u].pair]},
           NEW what \in UserStates, what.at \in {"idle", "posts", "posts again"}, Goes(u, what),
           UNCHANGED <<latest, lost>>
    PROVE  TokenInv'
<1>1. PICK shelf, p : shelf = user[u].shelf /\ p = user[u].pair
    OBVIOUS
<1>2. /\ shelf \in Shelves /\ p \in Pairs /\ Given(shelf, p) /\ p.n = latest[p.login]
      /\ \A v \in Users \ {u} : InHand(v) /\ user[v].pair.login = p.login
                                  => At(v, "refreshes") /\ user[v].pair.n < p.n
    BY <1>1 DEF TokenInv, TokenType, UserStates, PairsGiven, InHand, NewestInHand
<1>3. /\ user'[u] = what /\ user' \in [Users -> UserStates]
      /\ \A v \in Users \ {u} : user'[v] = user[v]
    BY DEF Goes, TokenInv, TokenType
<1>4. /\ stored'[shelf] = p /\ \A s \in Shelves \ {shelf} : stored'[s] = stored[s]
      /\ \A s \in Shelves : saved'[s] = saved[s] \/ (s = shelf /\ saved'[s] = p)
      /\ stored' \in [Shelves -> Pairs] /\ saved' \in [Shelves -> Pairs]
    BY <1>1, <1>2 DEF TokenInv, TokenType
<1>5. TokenType'
    BY <1>3, <1>4 DEF TokenInv, TokenType
<1>6. \A v \in Users : InHand(v)' => v # u /\ InHand(v) /\ user'[v] = user[v]
    BY <1>3 DEF InHand, At
<1>7. PairsGiven'
    <2>1. \A s \in Shelves : stored'[s] = NoPair \/ Given(s, stored'[s])
        BY <1>2, <1>4 DEF TokenInv, PairsGiven
    <2>2. \A s \in Shelves : saved'[s] = NoPair \/ Given(s, saved'[s])
        BY <1>2, <1>4 DEF TokenInv, PairsGiven
    <2>3. \A v \in Users : InHand(v)' => Given(user'[v].shelf, user'[v].pair)
        BY <1>6 DEF TokenInv, PairsGiven
    <2> QED BY <2>1, <2>2, <2>3 DEF PairsGiven, Given
<1>8. NewestInHand'
    <2> SUFFICES ASSUME NEW v \in Users, At(v, "writes")'
                 PROVE  LET q == user'[v].pair
                        IN  /\ q.n = latest[q.login]
                            /\ \A s \in Shelves : stored'[s].login = q.login => stored'[s].n < q.n
                            /\ \A w \in Users \ {v} : InHand(w)' /\ user'[w].pair.login = q.login
                                                  => At(w, "refreshes")' /\ user'[w].pair.n < q.n
        BY DEF NewestInHand
    <2>1. v # u /\ At(v, "writes") /\ user'[v] = user[v]
        BY <1>6 DEF InHand, At
    \* Another login: nobody else is about to write a pair of this one.
    <2>2. user[v].pair.login # p.login
        BY <1>2, <2>1 DEF InHand, At
    <2>3. ASSUME NEW s \in Shelves, stored'[s].login = user[v].pair.login
          PROVE  stored'[s].n < user[v].pair.n
        BY <1>4, <2>1, <2>2, <2>3 DEF TokenInv, NewestInHand
    <2>4. ASSUME NEW w \in Users \ {v}, InHand(w)', user'[w].pair.login = user[v].pair.login
          PROVE  At(w, "refreshes")' /\ user'[w].pair.n < user[v].pair.n
        <3>1. InHand(w) /\ user'[w] = user[w]
            BY <1>6, <2>4
        <3>2. At(w, "refreshes") /\ user[w].pair.n < user[v].pair.n
            BY <2>1, <2>4, <3>1 DEF TokenInv, NewestInHand
        <3> QED BY <3>1, <3>2 DEF At
    <2>5. user[v].pair.n = latest[user[v].pair.login]
        BY <2>1 DEF TokenInv, NewestInHand
    <2> QED BY <2>1, <2>3, <2>4, <2>5
<1>9. PairUsable'
    <2> SUFFICES ASSUME NEW s \in Shelves, stored'[s] # NoPair, stored'[s].login \notin lost,
                        stored'[s].n # latest[stored'[s].login]
                 PROVE  \E v \in Users :
                            /\ At(v, "writes")'
                            /\ user'[v].pair = Pair(stored'[s].login, latest[stored'[s].login])
        BY DEF PairUsable
    <2>1. s # shelf /\ stored'[s] = stored[s]
        BY <1>2, <1>4
    <2>2. PICK v \in Users : /\ At(v, "writes")
                             /\ user[v].pair = Pair(stored[s].login, latest[stored[s].login])
        BY <2>1 DEF TokenInv, PairUsable
    \* The witness writes to the other shelf.
    <2>3. Given(s, stored[s])
        BY <2>1 DEF TokenInv, PairsGiven
    <2>4. user[v].pair.login = stored[s].login
        <3>1. Pair(stored[s].login, latest[stored[s].login]).login = stored[s].login
            BY DEF Pair
        <3> QED BY <2>2, <3>1
    <2>5. p.login # stored[s].login
        BY <1>2, <2>1, <2>3 DEF Given, Shelves
    <2>6. v # u
        BY <1>1, <2>4, <2>5
    <2> QED BY <1>3, <2>1, <2>2, <2>6 DEF At
<1> QED BY <1>5, <1>7, <1>8, <1>9 DEF TokenInv

\* The account was deleted meanwhile: its new pair is dropped.
LEMMA DroppedInv ==
    ASSUME TokenInv, NEW u \in Users, At(u, "writes"), stored[user[u].shelf] = NoPair,
           NotRefreshed(u), UNCHANGED <<stored, saved, latest, lost>>
    PROVE  TokenInv'
<1>1. PICK what \in UserStates : what.at \in {"idle", "posts", "posts again"} /\ Goes(u, what)
    BY AfterRefresh DEF TokenInv
<1>2. /\ user'[u] = what /\ user' \in [Users -> UserStates]
      /\ \A v \in Users \ {u} : user'[v] = user[v]
    BY <1>1 DEF Goes, TokenInv, TokenType
<1>3. TokenType'
    BY <1>2 DEF TokenInv, TokenType
<1>4. \A v \in Users : InHand(v)' => v # u /\ InHand(v) /\ user'[v] = user[v]
    BY <1>1, <1>2 DEF InHand, At
<1>5. PairsGiven'
    BY <1>4 DEF TokenInv, PairsGiven, Given
<1>6. NewestInHand'
    BY <1>4 DEF TokenInv, NewestInHand, InHand, At
<1>7. PairUsable'
    <2> SUFFICES ASSUME NEW s \in Shelves, stored[s] # NoPair, stored[s].login \notin lost,
                        stored[s].n # latest[stored[s].login]
                 PROVE  \E v \in Users :
                            /\ At(v, "writes")'
                            /\ user'[v].pair = Pair(stored[s].login, latest[stored[s].login])
        BY DEF PairUsable
    <2>1. PICK v \in Users : /\ At(v, "writes")
                             /\ user[v].pair = Pair(stored[s].login, latest[stored[s].login])
        BY DEF TokenInv, PairUsable
    <2>2. Given(s, stored[s]) /\ user[v].pair.login = stored[s].login
        BY <2>1 DEF TokenInv, PairsGiven, Pair
    <2>3. user[u].shelf \in Shelves /\ user[u].shelf # s /\ Given(user[u].shelf, user[u].pair)
        BY DEF TokenInv, TokenType, UserStates, PairsGiven, InHand
    <2>4. v # u
        BY <2>2, <2>3 DEF Given, Shelves
    <2> QED BY <1>2, <2>1, <2>4 DEF At
<1> QED BY <1>3, <1>5, <1>6, <1>7 DEF TokenInv

LEMMA WriteInv ==
    ASSUME TokenInv, NEW u \in Users, WritePair(u) \/ WriteUnsaved(u)
    PROVE  TokenInv'
<1>1. CASE WritePair(u) /\ stored[user[u].shelf] = NoPair
    BY <1>1, DroppedInv DEF WritePair
<1>2. CASE ~(WritePair(u) /\ stored[user[u].shelf] = NoPair)
    <2>1. /\ At(u, "writes") /\ UNCHANGED <<latest, lost>>
          /\ stored' = [stored EXCEPT ![user[u].shelf] = user[u].pair]
          /\ saved' \in {saved, [saved EXCEPT ![user[u].shelf] = user[u].pair]}
          /\ NotRefreshed(u) \/ Refreshed(u)
        BY <1>2 DEF WritePair, WriteUnsaved
    <2> QED BY <2>1, AfterRefresh, WrittenInv DEF TokenInv
<1> QED BY <1>1, <1>2

\* A new login has a number of its own.
LEMMA LogInInv ==
    ASSUME TokenInv, LogIn
    PROVE  TokenInv'
<1>1. PICK p : p = Pair(Len(latest) + 1, 0)
    OBVIOUS
<1>2. /\ latest' \in Seq(Nat) /\ Len(latest') = Len(latest) + 1 /\ Len(latest) \in Nat
      /\ DOMAIN latest = 1 .. Len(latest) /\ DOMAIN latest' = 1 .. Len(latest) + 1
      /\ latest'[Len(latest) + 1] = 0 /\ \A k \in DOMAIN latest : latest'[k] = latest[k]
    BY DEF LogIn, TokenInv, TokenType
<1>3. /\ p \in Pairs /\ p.login = Len(latest) + 1 /\ p.n = 0
      /\ p.login \notin DOMAIN latest /\ p.login # 1
    BY <1>1, <1>2 DEF Pair, Pairs, TokenInv, TokenType
<1>4. /\ stored'["account"] = p /\ \A s \in Shelves \ {"account"} : stored'[s] = stored[s]
      /\ saved'["account"] = p /\ \A s \in Shelves \ {"account"} : saved'[s] = saved[s]
      /\ stored' \in [Shelves -> Pairs] /\ saved' \in [Shelves -> Pairs]
      /\ UNCHANGED <<user, lost>>
    BY <1>1, <1>3 DEF LogIn, TokenInv, TokenType, Shelves
<1>5. TokenType'
    BY <1>2, <1>4 DEF TokenInv, TokenType
<1>6. ASSUME NEW k \in DOMAIN latest
      PROVE  k \in DOMAIN latest' /\ latest'[k] = latest[k]
    BY <1>2
<1>7. \A u \in Users : InHand(u) => user[u].pair.login \in DOMAIN latest
    BY DEF TokenInv, PairsGiven, Given
<1>8. PairsGiven'
    BY <1>2, <1>3, <1>4, <1>6 DEF TokenInv, PairsGiven, Given, InHand, At, Shelves
<1>9. NewestInHand'
    BY <1>3, <1>4, <1>6, <1>7 DEF TokenInv, NewestInHand, InHand, At, Shelves
<1>10. PairUsable'
    <2> SUFFICES ASSUME NEW s \in Shelves, stored'[s] # NoPair, stored'[s].login \notin lost,
                        stored'[s].n # latest'[stored'[s].login]
                 PROVE  \E u \in Users :
                            /\ At(u, "writes")
                            /\ user[u].pair = Pair(stored'[s].login, latest'[stored'[s].login])
        BY <1>4 DEF PairUsable, At
    <2>1. s # "account" /\ stored'[s] = stored[s]
        BY <1>2, <1>3, <1>4
    <2>2. stored[s].login \in DOMAIN latest
        BY <2>1 DEF TokenInv, PairsGiven, Given
    <2> QED BY <1>6, <2>1, <2>2 DEF TokenInv, PairUsable
<1> QED BY <1>5, <1>8, <1>9, <1>10 DEF TokenInv

LEMMA DeletePairInv ==
    ASSUME TokenInv, DeletePair
    PROVE  TokenInv'
<1>1. /\ stored'["account"] = NoPair /\ saved'["account"] = NoPair
      /\ \A s \in Shelves \ {"account"} : stored'[s] = stored[s] /\ saved'[s] = saved[s]
      /\ UNCHANGED <<latest, lost, user>>
    BY DEF DeletePair, TokenInv, TokenType, Shelves
<1>2. NoPair \in Pairs /\ NoPair.login = 0
    BY DEF NoPair, Pair, Pairs
<1>3. TokenType'
    BY <1>2 DEF DeletePair, TokenInv, TokenType
<1>4. PairsGiven'
    BY <1>1 DEF TokenInv, PairsGiven, Given, InHand, At
<1>5. NewestInHand'
    <2>1. \A u \in Users : At(u, "writes") => user[u].pair.login # 0
        BY DEF TokenInv, TokenType, PairsGiven, Given, InHand
    <2> QED BY <1>1, <1>2, <2>1 DEF TokenInv, NewestInHand, InHand, At
<1>6. PairUsable'
    BY <1>1 DEF TokenInv, PairUsable, At
<1> QED BY <1>3, <1>4, <1>5, <1>6 DEF TokenInv

\* After a restart nobody has a pair in hand; a saved pair that is not the last
\* one is of a lost login.
LEMMA RestartTokensInv ==
    ASSUME TokenInv, RestartTokens
    PROVE  TokenInv'
<1>1. /\ stored' = saved /\ saved' = saved /\ latest' = latest
      /\ user' = [u \in Users |-> Idle]
      /\ lost' = lost \cup {saved[s].login : s \in {x \in Shelves : saved[x] # NoPair
                                                    /\ saved[x].n # latest[saved[x].login]}}
    BY DEF RestartTokens
<1>2. Idle \in UserStates /\ Idle.at = "idle"
    BY DEF Idle, User, UserStates, NoPair, Pair, Pairs, Shelves
<1>3. TokenType'
    BY <1>1, <1>2 DEF TokenInv, TokenType
<1>4. \A u \in Users : ~InHand(u)'
    BY <1>1, <1>2 DEF InHand, At
<1>5. PairsGiven' /\ NewestInHand'
    BY <1>1, <1>4 DEF TokenInv, PairsGiven, Given, NewestInHand, InHand
<1>6. PairUsable'
    BY <1>1 DEF PairUsable
<1> QED BY <1>3, <1>5, <1>6 DEF TokenInv

LEMMA TokenNextInv == TokenInv /\ [TokenNext]_tokenVars => TokenInv'
<1> SUFFICES ASSUME TokenInv, [TokenNext]_tokenVars
             PROVE  TokenInv'
    OBVIOUS
<1>1. ASSUME NEW u \in Users, Choose(u) \/ Renew(u) \/ PostPrompt(u)
      PROVE  TokenInv'
    <2>1. \A shelf \in Shelves, for \in {"renewal", "near end", "refused"} :
             /\ User("posts", shelf, for, NoPair) \in UserStates
             /\ User("posts", shelf, for, NoPair).at = "posts"
             /\ User("reads", shelf, for, NoPair) \in UserStates
             /\ User("reads", shelf, for, NoPair).at = "reads"
        BY DEF User, UserStates, NoPair, Pair, Pairs
    <2>2. Idle \in UserStates /\ Idle.at = "idle"
        BY DEF Idle, User, UserStates, NoPair, Pair, Pairs, Shelves
    <2>3. user[u].shelf \in Shelves /\ ~At(u, "writes") /\ UNCHANGED <<stored, saved, latest, lost>>
        BY <1>1 DEF TokenInv, TokenType, UserStates, Choose, Renew, PostPrompt, At
    <2>4. \E what \in UserStates : what.at \notin {"refreshes", "writes"} /\ Goes(u, what)
        <3>1. CASE Choose(u)
            BY <2>1, <3>1 DEF Choose, Shelves
        <3>2. CASE Renew(u)
            BY <2>1, <3>2 DEF Renew, Shelves
        <3>3. CASE PostPrompt(u)
            BY <2>1, <2>2, <2>3, <3>3 DEF PostPrompt
        <3> QED BY <1>1, <3>1, <3>2, <3>3
    <2> QED BY <2>3, <2>4, WalksOn
<1>2. ASSUME NEW u \in Users, RotationFails(u)
      PROVE  TokenInv'
    BY <1>2, AfterRefresh, WalksOn DEF RotationFails, At, TokenInv
<1>3. ASSUME NEW u \in Users,
             ReadPair(u) \/ RotatePair(u) \/ LoseAnswer(u) \/ WritePair(u) \/ WriteUnsaved(u)
      PROVE  TokenInv'
    BY <1>3, ReadPairInv, RotateInv, LoseAnswerInv, WriteInv
<1>4. CASE LogIn \/ DeletePair \/ RestartTokens
    BY <1>4, LogInInv, DeletePairInv, RestartTokensInv
<1>5. CASE UNCHANGED tokenVars
    BY <1>5 DEF tokenVars, TokenInv, TokenType, PairsGiven, Given, NewestInHand, PairUsable,
                InHand, At
<1> QED BY <1>1, <1>2, <1>3, <1>4, <1>5 DEF TokenNext

\* A stored pair can be used again unless it was lost, however many threads,
\* renewals and administrators refresh at the same time, log in, and delete the
\* account.
THEOREM PairsStayUsable == TokenSpec => []PairUsable
<1>1. TokenInv => PairUsable
    BY DEF TokenInv
<1> QED BY TokenInitInv, TokenNextInv, <1>1, PTL DEF TokenSpec
-----------------------------------------------------------------------------
(* CatPaw conversations.                                                   *)

EntriesOf(keys) == [key : keys, id : Nat, expires : Nat]

LEMMA UnexpiredEntries ==
    ASSUME NEW keys, NEW store \in Seq(EntriesOf(keys)), NEW t
    PROVE  /\ Unexpired(store, t) \in Seq(EntriesOf(keys))
           /\ Entries(Unexpired(store, t)) = {e \in Entries(store) : e.expires > t}
<1> DEFINE places == {i \in DOMAIN store : store[i].expires > t}
<1>1. /\ Len(store) \in Nat /\ DOMAIN store = 1..Len(store) /\ places \in SUBSET (1..Len(store))
      /\ \A i \in DOMAIN store : store[i] \in EntriesOf(keys)
    OBVIOUS
<1>2. {store[i] : i \in places} = {e \in Entries(store) : e.expires > t}
    BY DEF Entries
<1>3. {store[i] : i \in places} \subseteq EntriesOf(keys)
    BY <1>1
<1> HIDE DEF places
<1>4. /\ Selected(store, places) \in Seq({store[i] : i \in places})
      /\ Entries(Selected(store, places)) = {store[i] : i \in places}
    BY <1>1, SelectedElements DEF Entries
<1>5. Selected(store, places) \in Seq(EntriesOf(keys))
    BY <1>3, <1>4
<1> QED BY <1>2, <1>4, <1>5 DEF Unexpired, places

LEMMA PlacedEntries ==
    ASSUME NEW keys, NEW store \in Seq(EntriesOf(keys)), NEW entry \in EntriesOf(keys)
    PROVE  /\ Placed(store, entry) \in Seq(EntriesOf(keys))
           /\ Entries(Placed(store, entry))
                = {e \in Entries(store) : e.key # entry.key} \union {entry}
<1> DEFINE places == {i \in DOMAIN store : store[i].key # entry.key}
           rest == Selected(store, places)
<1>1. /\ Len(store) \in Nat /\ DOMAIN store = 1..Len(store) /\ places \in SUBSET (1..Len(store))
      /\ \A i \in DOMAIN store : store[i] \in EntriesOf(keys)
    OBVIOUS
<1>2. {store[i] : i \in places} = {e \in Entries(store) : e.key # entry.key}
    BY DEF Entries
<1>3. {store[i] : i \in places} \subseteq EntriesOf(keys)
    BY <1>1
<1>4. Placed(store, entry) = Append(rest, entry)
    BY DEF Placed
<1> HIDE DEF places
<1>5. /\ rest \in Seq({store[i] : i \in places})
      /\ Entries(rest) = {store[i] : i \in places}
    BY <1>1, SelectedElements DEF Entries
<1>6. rest \in Seq(EntriesOf(keys))
    BY <1>3, <1>5
<1> HIDE DEF rest
<1>7. Append(rest, entry) \in Seq(EntriesOf(keys)) /\ Entries(Append(rest, entry)) = Entries(rest) \union {entry}
    <2>1. /\ Len(rest) \in Nat /\ DOMAIN rest = 1..Len(rest)
          /\ DOMAIN Append(rest, entry) = 1..(Len(rest) + 1)
          /\ Append(rest, entry)[Len(rest) + 1] = entry
          /\ \A i \in 1..Len(rest) : Append(rest, entry)[i] = rest[i]
        BY <1>6
    <2>2. Entries(Append(rest, entry)) \subseteq Entries(rest) \union {entry}
        <3> SUFFICES ASSUME NEW i \in 1..(Len(rest) + 1)
                     PROVE  Append(rest, entry)[i] \in Entries(rest) \union {entry}
            BY <2>1 DEF Entries
        <3>1. CASE i = Len(rest) + 1
            BY <2>1, <3>1
        <3>2. CASE i \in 1..Len(rest)
            BY <2>1, <3>2 DEF Entries
        <3> QED BY <2>1, <3>1, <3>2
    <2>3. Entries(rest) \union {entry} \subseteq Entries(Append(rest, entry))
        BY <2>1 DEF Entries
    <2> QED BY <1>6, <2>2, <2>3
<1> QED BY <1>2, <1>4, <1>5, <1>7

LEMMA LimitedEntries ==
    ASSUME NEW keys, NEW store \in Seq(EntriesOf(keys))
    PROVE  /\ Limited(store) \in Seq(EntriesOf(keys))
           /\ Entries(Limited(store)) \subseteq Entries(store)
<1>1. CASE Len(store) > MaxEntries
    <2> DEFINE first == Len(store) - MaxEntries + 1
    <2>1. MaxEntries \in Nat /\ Len(store) \in Nat /\ first \in 1..Len(store)
        BY <1>1, ConversationAssumption
    <2>2. Limited(store) = SubSeq(store, first, Len(store))
        BY <1>1 DEF Limited
    <2> HIDE DEF first
    <2>3. SubSeq(store, first, Len(store)) \in Seq(EntriesOf(keys))
        BY <2>1
    <2>4. /\ DOMAIN SubSeq(store, first, Len(store)) = 1..(Len(store) - first + 1)
          /\ \A i \in 1..(Len(store) - first + 1) :
                /\ SubSeq(store, first, Len(store))[i] = store[first + i - 1]
                /\ first + i - 1 \in DOMAIN store
        BY <2>1
    <2> QED BY <2>2, <2>3, <2>4 DEF Entries
<1>2. CASE ~ Len(store) > MaxEntries
    BY <1>2 DEF Limited
<1> QED BY <1>1, <1>2

-----------------------------------------------------------------------------
RootKeys == {RootKey(d) : d \in Dialogues}
BranchKeys == {BranchKey(d) : d \in Dialogues}

ConversationType ==
    /\ now \in Nat /\ minted \in Nat
    /\ bootstrap \in Seq(EntriesOf(RootKeys)) /\ branches \in Seq(EntriesOf(BranchKeys))
    /\ promised \in SUBSET EntriesOf(BranchKeys)

BranchesDiffer == \A e, f \in Entries(branches) : e.key = f.key => e = f
PromisesHeld == \A p \in promised : p.expires > now => p \in Entries(branches)

\* Every id was made for one root, and is remembered and told for that root only.
Made(root, opened, told) ==
    /\ \A e \in opened : e.id \in DOMAIN root /\ root[e.id] = e.key
    /\ \A e \in told : e.id \in DOMAIN root /\ root[e.id] = e.key.root
RootsTold ==
    \E root \in [1..minted -> RootKeys] :
        Made(root, Entries(bootstrap), Entries(branches) \union promised)

ConversationInv == ConversationType /\ BranchesDiffer /\ PromisesHeld /\ RootsTold

LEMMA ConversationInitInv == ConversationInit => ConversationInv
<1> SUFFICES ASSUME ConversationInit
             PROVE  ConversationInv
    OBVIOUS
<1>1. Entries(bootstrap) = {} /\ Entries(branches) = {} /\ promised = {}
    BY DEF ConversationInit, Entries
<1>2. ConversationType
    BY DEF ConversationInit, ConversationType
<1>3. RootsTold
    <2>1. [i \in 1..0 |-> {}] \in [1..minted -> RootKeys]
        BY DEF ConversationInit
    <2> QED BY <1>1, <2>1 DEF RootsTold, Made
<1> QED BY <1>1, <1>2, <1>3 DEF ConversationInv, BranchesDiffer, PromisesHeld

LEMMA ClockInv == ConversationInv /\ Clock => ConversationInv'
<1> SUFFICES ASSUME ConversationInv, Clock
             PROVE  ConversationInv'
    OBVIOUS
<1>1. /\ now' = now + 1 /\ now \in Nat
      /\ UNCHANGED <<bootstrap, branches, minted, promised>>
    BY DEF Clock, ConversationInv, ConversationType
<1>2. ConversationType' /\ BranchesDiffer' /\ RootsTold'
    BY <1>1 DEF ConversationInv, ConversationType, BranchesDiffer, RootsTold
<1>3. PromisesHeld'
    BY <1>1 DEF ConversationInv, ConversationType, EntriesOf, PromisesHeld
<1> QED BY <1>2, <1>3 DEF ConversationInv

LEMMA UnchangedInv == ConversationInv /\ UNCHANGED conversationVars => ConversationInv'
BY DEF ConversationInv, ConversationType, BranchesDiffer, PromisesHeld, RootsTold, conversationVars

\* A new id is made for a root: what was remembered stays true.
LEMMA MintedRoots ==
    ASSUME NEW n \in Nat, NEW root \in [1..n -> RootKeys], NEW key \in RootKeys
    PROVE  \E more \in [1..(n + 1) -> RootKeys] :
              /\ more[n + 1] = key
              /\ \A opened, told : Made(root, opened, told) => Made(more, opened, told)
<1> DEFINE more == [i \in 1..(n + 1) |-> IF i = n + 1 THEN key ELSE root[i]]
<1>1. /\ more \in [1..(n + 1) -> RootKeys] /\ more[n + 1] = key
      /\ \A i \in DOMAIN root : i \in DOMAIN more /\ more[i] = root[i]
    OBVIOUS
<1> HIDE DEF more
<1>2. \A opened, told : Made(root, opened, told) => Made(more, opened, told)
    BY <1>1 DEF Made
<1> QED BY <1>1, <1>2

LEMMA OpenInv ==
    ASSUME ConversationInv, NEW d \in Dialogues, NEW t \in 0..now, OpenDialogue(d, t)
    PROVE  ConversationInv'
<1> DEFINE entry == Entry(RootKey(d), minted + 1, t + BootstrapTTL)
           kept == Unexpired(bootstrap, t)
           placed == Placed(kept, entry)
<1>1. /\ minted' = minted + 1 /\ UNCHANGED <<now, promised>>
      /\ bootstrap' = Limited(placed) /\ branches' = Unexpired(branches, t)
    BY DEF OpenDialogue
<1>2. ConversationType /\ now \in Nat /\ minted \in Nat /\ t \in Nat /\ t <= now
    BY DEF ConversationInv, ConversationType
<1>3. entry \in EntriesOf(RootKeys) /\ entry.id = minted + 1 /\ entry.key = RootKey(d)
    BY <1>2, ConversationAssumption DEF Entry, EntriesOf, RootKeys
<1>4. /\ kept \in Seq(EntriesOf(RootKeys))
      /\ Entries(kept) = {e \in Entries(bootstrap) : e.expires > t}
      /\ branches' \in Seq(EntriesOf(BranchKeys))
      /\ Entries(branches)' = {e \in Entries(branches) : e.expires > t}
    <2>1. bootstrap \in Seq(EntriesOf(RootKeys)) /\ branches \in Seq(EntriesOf(BranchKeys))
        BY <1>2 DEF ConversationType
    <2>2. Entries(branches)' = Entries(branches')
        BY DEF Entries
    <2> QED BY <1>1, <2>1, <2>2, UnexpiredEntries
<1> HIDE DEF entry, kept, placed
<1>5. /\ placed \in Seq(EntriesOf(RootKeys))
      /\ Entries(placed) \subseteq Entries(bootstrap) \union {entry}
    BY <1>3, <1>4, PlacedEntries DEF placed
<1>6. /\ bootstrap' \in Seq(EntriesOf(RootKeys))
      /\ Entries(bootstrap)' \subseteq Entries(bootstrap) \union {entry}
    <2>1. Entries(bootstrap)' = Entries(bootstrap')
        BY DEF Entries
    <2> QED BY <1>1, <1>5, <2>1, LimitedEntries
<1>7. ConversationType'
    BY <1>1, <1>2, <1>4, <1>6 DEF ConversationType
<1>8. BranchesDiffer' /\ PromisesHeld'
    <2>1. \A p \in promised : p.expires \in Nat
        BY <1>2 DEF ConversationType, EntriesOf
    <2> QED BY <1>1, <1>2, <1>4, <2>1 DEF ConversationInv, BranchesDiffer, PromisesHeld
<1>9. RootsTold'
    <2>1. PICK root \in [1..minted -> RootKeys] :
              Made(root, Entries(bootstrap), Entries(branches) \union promised)
        BY DEF ConversationInv, RootsTold
    <2>2. PICK more \in [1..(minted + 1) -> RootKeys] :
              /\ more[minted + 1] = RootKey(d)
              /\ Made(more, Entries(bootstrap), Entries(branches) \union promised)
        BY <1>2, <2>1, MintedRoots DEF RootKeys
    <2>3. Made(more, Entries(bootstrap)', (Entries(branches) \union promised)')
        BY <1>1, <1>2, <1>3, <1>4, <1>6, <2>2 DEF Made
    <2> QED BY <1>1, <2>3 DEF RootsTold
<1> QED BY <1>7, <1>8, <1>9 DEF ConversationInv

LEMMA ContinueInv ==
    ASSUME ConversationInv, NEW d \in Dialogues, NEW t \in 0..now, ContinueDialogue(d, t)
    PROVE  ConversationInv'
<1> DEFINE b == BranchKey(d)
           kept == Unexpired(branches, t)
           known == Find(kept, b)
           opened == Find(Unexpired(bootstrap, t), b.root)
           id == IF known # {} THEN (CHOOSE e \in known : TRUE).id
                 ELSE IF opened # {} THEN (CHOOSE e \in opened : TRUE).id ELSE minted + 1
           entry == Entry(b, id, t + ActiveTTL)
           placed == Placed(kept, entry)
<1>1. ConversationType /\ now \in Nat /\ minted \in Nat /\ t \in Nat /\ t <= now
    BY DEF ConversationInv, ConversationType
<1>2. b \in BranchKeys /\ b.root = RootKey(d) /\ b.root \in RootKeys
    BY DEF BranchKey, BranchKeys, RootKeys
<1>3. /\ kept \in Seq(EntriesOf(BranchKeys))
      /\ Entries(kept) = {e \in Entries(branches) : e.expires > t}
      /\ bootstrap' \in Seq(EntriesOf(RootKeys))
      /\ Entries(bootstrap)' = {e \in Entries(bootstrap) : e.expires > t}
      /\ bootstrap' = Unexpired(bootstrap, t)
    <2>1. bootstrap \in Seq(EntriesOf(RootKeys)) /\ branches \in Seq(EntriesOf(BranchKeys))
        BY <1>1 DEF ConversationType
    <2>2. bootstrap' = Unexpired(bootstrap, t)
        BY DEF ContinueDialogue
    <2>3. Entries(bootstrap)' = Entries(bootstrap')
        BY DEF Entries
    <2> QED BY <2>1, <2>2, <2>3, UnexpiredEntries
<1>4. /\ known # {} => (CHOOSE e \in known : TRUE) \in known
      /\ opened # {} => (CHOOSE e \in opened : TRUE) \in opened
      /\ \A e \in known : e \in Entries(branches) /\ e.key = b
      /\ \A e \in opened : e \in Entries(bootstrap) /\ e.key = b.root
    BY <1>3 DEF Find, Entries
<1>5. /\ minted' = IF known = {} /\ opened = {} THEN minted + 1 ELSE minted
      /\ UNCHANGED now
      /\ branches' = Limited(placed)
      /\ promised' = {p \in {q \in promised : q.key # b} \union {entry} :
                        Find(placed, p.key) = Find(branches', p.key)}
    <2>1. ASSUME known # {}
          PROVE  Renewed(CHOOSE e \in known : TRUE, t) = entry
        BY <1>4, <2>1 DEF Renewed
    <2>2. ASSUME known = {}
          PROVE  Entry(b, IF opened # {} THEN (CHOOSE e \in opened : TRUE).id ELSE minted + 1,
                       t + ActiveTTL) = entry
        BY <2>2
    <2>3. Entry(b, entry.id, t + ActiveTTL) = entry
        BY DEF Entry
    <2> QED BY <2>1, <2>2, <2>3 DEF ContinueDialogue
<1>6. id \in 1..minted' /\ id \in Nat /\ minted' \in Nat
    <2>1. \A e \in Entries(branches) \union Entries(bootstrap) : e.id \in 1..minted
        BY DEF ConversationInv, RootsTold, Made
    <2> QED BY <1>1, <1>4, <1>5, <2>1
<1>7. entry \in EntriesOf(BranchKeys) /\ entry.id = id /\ entry.key = b
    BY <1>1, <1>2, <1>6, ConversationAssumption DEF Entry, EntriesOf
<1>8. \E more \in [1..minted' -> RootKeys] :
         /\ more[id] = b.root
         /\ Made(more, Entries(bootstrap), Entries(branches) \union promised)
    <2>1. PICK root \in [1..minted -> RootKeys] :
              Made(root, Entries(bootstrap), Entries(branches) \union promised)
        BY DEF ConversationInv, RootsTold
    <2>2. CASE known = {} /\ opened = {}
        <3>1. id = minted + 1 /\ minted' = minted + 1
            BY <1>5, <2>2
        <3> HIDE DEF id, known, opened, b
        <3> QED BY <1>1, <1>2, <2>1, <3>1, MintedRoots
    <2>3. CASE known # {} \/ opened # {}
        <3>1. minted' = minted
            BY <1>5, <2>3
        <3>2. root[id] = b.root
            BY <1>4, <2>1, <2>3 DEF Made
        <3> HIDE DEF id, known, opened, b
        <3> QED BY <2>1, <3>1, <3>2
    <2> QED BY <2>2, <2>3
<1> HIDE DEF id, entry, b, kept, known, opened
<1>9. /\ placed \in Seq(EntriesOf(BranchKeys))
      /\ Entries(placed) = {e \in Entries(kept) : e.key # b} \union {entry}
    BY <1>3, <1>7, PlacedEntries
<1> HIDE DEF placed
<1>10. /\ branches' \in Seq(EntriesOf(BranchKeys))
       /\ Entries(branches)' \subseteq Entries(placed)
       /\ Entries(branches)' = Entries(branches')
    <2>1. Entries(branches)' = Entries(branches')
        BY DEF Entries
    <2> QED BY <1>5, <1>9, <2>1, LimitedEntries
<1>11. ConversationType'
    <2>1. promised' \in SUBSET EntriesOf(BranchKeys)
        BY <1>1, <1>5, <1>7 DEF ConversationType
    <2> QED BY <1>1, <1>3, <1>5, <1>6, <1>10, <2>1 DEF ConversationType
<1>12. BranchesDiffer'
    BY <1>3, <1>7, <1>9, <1>10 DEF ConversationInv, BranchesDiffer
<1>13. PromisesHeld'
    <2> SUFFICES ASSUME NEW p \in promised', p.expires > now
                 PROVE  p \in Entries(branches)'
        BY <1>5 DEF PromisesHeld
    <2>1. p \in Entries(placed)
        <3>1. CASE p = entry
            BY <1>9, <3>1
        <3>2. CASE p \in promised /\ p.key # b
            <4>1. p.expires \in Nat /\ p \in Entries(branches)
                BY <3>2 DEF ConversationInv, ConversationType, EntriesOf, PromisesHeld
            <4> QED BY <1>1, <1>3, <1>9, <3>2, <4>1
        <3> QED BY <1>5, <3>1, <3>2
    <2>2. p \in Find(placed, p.key)
        BY <2>1 DEF Find
    <2>3. Find(placed, p.key) = Find(branches', p.key)
        BY <1>5
    <2> QED BY <1>10, <2>2, <2>3 DEF Find
<1>14. RootsTold'
    <2>1. PICK more \in [1..minted' -> RootKeys] :
              /\ more[id] = b.root
              /\ Made(more, Entries(bootstrap), Entries(branches) \union promised)
        BY <1>8
    <2>2. Made(more, Entries(bootstrap)', (Entries(branches) \union promised)')
        <3>1. Entries(bootstrap)' \subseteq Entries(bootstrap)
            BY <1>3
        <3>2. (Entries(branches) \union promised)' \subseteq (Entries(branches) \union promised) \union {entry}
            BY <1>3, <1>5, <1>9, <1>10
        <3> QED BY <1>6, <1>7, <2>1, <3>1, <3>2 DEF Made
    <2> QED BY <2>2 DEF RootsTold
<1> QED BY <1>11, <1>12, <1>13, <1>14 DEF ConversationInv

\* A dialogue keeps its conversation while its branch is remembered, whatever the
\* number of dialogues and of entries kept and in whatever order the requests that
\* have read the clock get the lock; two roots are never told the same id.
THEOREM DialoguesKeepIds == ConversationSpec => []ConversationsKept
<1>1. ConversationInv /\ [ConversationNext]_conversationVars => ConversationInv'
    BY ClockInv, UnchangedInv, OpenInv, ContinueInv DEF ConversationNext
<1>2. ConversationInv => ConversationsKept
    <2> SUFFICES ASSUME ConversationInv
                 PROVE  ConversationsKept
        OBVIOUS
    <2>1. ASSUME NEW p \in promised, p.expires > now
          PROVE  \E e \in Entries(branches) : e.key = p.key /\ e.id = p.id
        BY <2>1 DEF ConversationInv, PromisesHeld
    <2>2. \A p, q \in promised : p.id = q.id => p.key.root = q.key.root
        BY DEF ConversationInv, RootsTold, Made
    <2> QED BY <2>1, <2>2 DEF ConversationsKept
<1> QED BY ConversationInitInv, <1>1, <1>2, PTL DEF ConversationSpec
=============================================================================
