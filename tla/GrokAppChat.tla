---------------------------- MODULE GrokAppChat -----------------------------
(***************************************************************************)
(* Grok app-chat requests (services/providers/grok/client.py): chats and    *)
(* images try up to MaxAttempts accounts.  An attempt goes to the browser   *)
(* bridge first when one is configured; otherwise it is posted directly,    *)
(* posted again with a new Statsig id and with a new clearance after a 403, *)
(* and falls back to a bridge it detects when the direct way breaks.        *)
(***************************************************************************)
EXTENDS Naturals, FiniteSets

CONSTANTS ChatAccounts, Chats,  \* Calls: requests
          MaxAttempts       \* _APP_CHAT_MAX_ACCOUNT_ATTEMPTS

VARIABLES health,    \* of an account: ok, bad (limited or abnormal), disabled, deleted
          fits,      \* accounts with the tier and the capability of a request's model
          images,    \* the requests for an image; the others are chats
          apc,       \* what a request does, or how it ended
          attempts,  \* tries made
          excluded,  \* accounts it failed on
          used,      \* the account of the current try
          refreshed, \* a chat has refreshed the accounts
          said       \* the upstream conversations whose output the client has

chatVars == <<health, fits, images, apc, attempts, excluded, used, refreshed, said>>

NobodyUsed == "no account"
Healthy == {a \in ChatAccounts : health[a] = "ok"}

ChatInit ==
    /\ health = [a \in ChatAccounts |-> "ok"]
    /\ fits = [c \in Chats |-> {}] /\ images = {}
    /\ apc = [c \in Chats |-> "new"]
    /\ attempts = [c \in Chats |-> 0]
    /\ excluded = [c \in Chats |-> {}]
    /\ used = [c \in Chats |-> NobodyUsed]
    /\ refreshed = [c \in Chats |-> FALSE]
    /\ said = [c \in Chats |-> {}]

AppTo(c, where) == apc' = [apc EXCEPT ![c] = where]

\* get_grok_app_chat_access_token: an account that fits the model when there is
\* one, any other healthy one otherwise.
ChatCandidates(c) ==
    LET untried == Healthy \ excluded[c] IN
    IF fits[c] \intersect untried # {} THEN fits[c] \intersect untried ELSE untried

\* A request arrives, for an image or for a chat.
Ask(c, accounts, image) ==
    /\ apc[c] = "new"
    /\ fits' = [fits EXCEPT ![c] = accounts]
    /\ images' = IF image THEN images \union {c} ELSE images
    /\ AppTo(c, "select")
    /\ UNCHANGED <<health, attempts, excluded, used, refreshed, said>>

\* The next try, with the bridge first when one is configured.
Select(c, configured) ==
    /\ apc[c] = "select" /\ attempts[c] < MaxAttempts
    /\ \E a \in ChatCandidates(c) : used' = [used EXCEPT ![c] = a]
    /\ attempts' = [attempts EXCEPT ![c] = @ + 1]
    /\ AppTo(c, IF configured THEN "bridge" ELSE "post")
    /\ UNCHANGED <<health, fits, images, excluded, refreshed, said>>

\* Nobody is left: a chat refreshes all accounts once, which revives or loses
\* some of them; otherwise the request ends, with its last error if it has one.
NobodyLeft(c) ==
    /\ apc[c] = "select" /\ attempts[c] < MaxAttempts
    /\ ChatCandidates(c) = {}
    /\ IF c \notin images /\ ~refreshed[c]
       THEN /\ refreshed' = [refreshed EXCEPT ![c] = TRUE]
            /\ attempts' = [attempts EXCEPT ![c] = @ + 1]
            /\ UNCHANGED apc
            /\ \E revived \in SUBSET {a \in ChatAccounts : health[a] = "bad"} :
                  health' = [a \in ChatAccounts |-> IF a \in revived THEN "ok" ELSE health[a]]
       ELSE AppTo(c, "failed") /\ UNCHANGED <<health, attempts, refreshed>>
    /\ UNCHANGED <<fits, images, excluded, used, said>>

\* The range over the attempts is exhausted.
GiveUp(c) ==
    /\ apc[c] = "select" /\ attempts[c] = MaxAttempts
    /\ AppTo(c, "failed")
    /\ UNCHANGED <<health, fits, images, attempts, excluded, used, refreshed, said>>

\* Mutant: a retryable error is retried although events were passed on.
RaiseRetried(c, retryable) ==
    IF retryable
    THEN AppTo(c, "select") /\ excluded' = [excluded EXCEPT ![c] = @ \union {used[c]}]
    ELSE AppTo(c, "failed") /\ UNCHANGED excluded

\* A GrokConsoleError reaches the loop over the accounts: another account is
\* tried only when the error is retryable and nothing was sent.
Raise(c, retryable) ==
    IF retryable /\ said[c] = {}
    THEN AppTo(c, "select") /\ excluded' = [excluded EXCEPT ![c] = @ \union {used[c]}]
    ELSE AppTo(c, "failed") /\ UNCHANGED excluded

\* What the upstream makes of the posts of one try: retry_call repeats a
\* transient failure, a 403 is repeated after the Statsig id was dropped and
\* after a new clearance was solved.  Only the last answer counts.
PostAnswers == {"stream", "limited", "invalid", "forbidden", "transient", "unreachable"}

\* classify_app_chat_upstream_error writes the account's status, whatever it is
\* by now, for an exhausted quota and for invalid credentials.
Classified(a, answer) ==
    health' = [health EXCEPT ![a] =
                 IF answer \in {"limited", "invalid"} /\ @ # "deleted" THEN "bad" ELSE @]

\* _stream_direct_events and stream_events: a direct way that is broken falls
\* back to a bridge when one is detected.
PostChat(c, answer, detected) ==
    /\ apc[c] = "post"
    /\ Classified(used[c], answer)
    /\ IF answer = "stream" THEN AppTo(c, "listen") /\ UNCHANGED excluded
       ELSE IF answer \in {"transient", "unreachable"} /\ detected
            THEN AppTo(c, "bridge") /\ UNCHANGED excluded
            ELSE Raise(c, answer \notin {"invalid", "forbidden"})
    /\ UNCHANGED <<fits, images, attempts, used, refreshed, said>>

\* _try_browser_bridge: it answers with all its lines, fails with an error of
\* its own, or is not there, which a configured bridge may not be.  After a
\* direct failure the error raised is then the direct one.
Bridge(c, answer) ==
    /\ apc[c] = "bridge"
    /\ IF answer = "lines" THEN AppTo(c, "read") /\ UNCHANGED excluded
                           ELSE Raise(c, answer # "refused")
    /\ UNCHANGED <<health, fits, images, attempts, used, refreshed, said>>

Channel(c) == IF apc[c] = "listen" THEN "direct" ELSE "bridge"

\* validated_app_chat_events: an event of the stream is passed on; an image
\* request shows its client only the text among them.
Event(c) ==
    /\ apc[c] \in {"listen", "read"}
    /\ said' = [said EXCEPT ![c] = @ \union {<<used[c], Channel(c)>>}]
    /\ UNCHANGED <<health, fits, images, apc, attempts, excluded, used, refreshed>>

\* An error in the stream: a usage limit, a challenge, or any other, which is a
\* 502 and sends a direct stream to the bridge even when events were passed on.
StreamError(c, error, detected) ==
    /\ apc[c] \in {"listen", "read"}
    /\ IF error = "other" /\ apc[c] = "listen" /\ detected
       THEN AppTo(c, "bridge") /\ UNCHANGED excluded
       ELSE Raise(c, error # "challenge")
    /\ UNCHANGED <<health, fits, images, attempts, used, refreshed, said>>

\* The stream ends: mark_text_used revives an account that is not disabled.  An
\* image request may end without an image, and its download may fail.
Finish(c, complete) ==
    /\ apc[c] \in {"listen", "read"}
    /\ complete \/ c \in images
    /\ health' = [health EXCEPT ![used[c]] = IF @ = "bad" THEN "ok" ELSE @]
    /\ AppTo(c, IF complete THEN "answered" ELSE "failed")
    /\ said' = [said EXCEPT ![c] = IF complete THEN @ \union {<<used[c], Channel(c)>>} ELSE @]
    /\ UNCHANGED <<fits, images, attempts, excluded, used, refreshed>>

\* The client goes away, or an image is refused by the moderation: nothing is
\* marked.
Leave(c) ==
    /\ apc[c] \in {"listen", "read"}
    /\ AppTo(c, "left")
    /\ UNCHANGED <<health, fits, images, attempts, excluded, used, refreshed, said>>

\* Administrators, refreshes and the console change an account's status.
SetHealth(a, to) ==
    /\ health[a] # to
    /\ health' = [health EXCEPT ![a] = to]
    /\ UNCHANGED <<fits, images, apc, attempts, excluded, used, refreshed, said>>

ChatProgress(c) ==
    \/ \E configured \in BOOLEAN : Select(c, configured)
    \/ NobodyLeft(c) \/ GiveUp(c) \/ Event(c) \/ Leave(c)
    \/ \E answer \in PostAnswers, detected \in BOOLEAN : PostChat(c, answer, detected)
    \/ \E answer \in {"lines", "transient", "refused", "unreachable"} : Bridge(c, answer)
    \/ \E error \in {"limit", "challenge", "other"}, detected \in BOOLEAN :
          StreamError(c, error, detected)
    \/ \E complete \in BOOLEAN : Finish(c, complete)

ChatNext ==
    \/ \E c \in Chats, accounts \in SUBSET ChatAccounts, image \in BOOLEAN : Ask(c, accounts, image)
    \/ \E c \in Chats : ChatProgress(c)
    \/ \E a \in ChatAccounts, to \in {"ok", "bad", "disabled", "deleted"} : SetHealth(a, to)

ChatSpec == ChatInit /\ [][ChatNext]_chatVars

-----------------------------------------------------------------------------
\* Whatever a client is sent comes from one account: once anything was passed on
\* no other account is tried, however the stream breaks.
OneAccountAnswers ==
    \A c \in Chats : Cardinality({conversation[1] : conversation \in said[c]}) <= 1
=============================================================================
