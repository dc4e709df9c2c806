-------------------------- MODULE StoredDataProofs --------------------------
(***************************************************************************)
(* Proofs about what the program keeps in its files: that no API key is     *)
(* lost and none comes back, that synchronisations take away only what      *)
(* their source brought, that one backup runs at a time and rotation keeps  *)
(* the one the state reports, that the call log tells how a call ended, and *)
(* that files, index and server agree on the images.                        *)
(***************************************************************************)
EXTENDS AuthKeys, RemoteSync, Backup, CallLog, ImageStorage, FiniteSetTheorems, TLAPS

-----------------------------------------------------------------------------
(* API keys.                                                               *)

\* What authenticate may write: a list in memory that accepts a secret somebody
\* knows was loaded from the storage, or meant to be written to it.  (The list left by a
\* create that could neither load nor save accepts only a secret nobody was told.)
KeysRemembered ==
    (\E s \in known : Accepts(keys, s))
        => issued \subseteq DOMAIN keys \union dropped \union blinded \union torn

KeyInv == KeysSurvive /\ KeysRemembered

-----------------------------------------------------------------------------
\* The empty list of a failed load accepts nothing and finds no key to change.
LEMMA EmptyList == DOMAIN NoKeys = {} /\ \A s : ~Accepts(NoKeys, s)
BY DEF NoKeys, Accepts

\* A list without a key accepts no more than the list.
LEMMA RemovedKey ==
    ASSUME NEW STATE stored, NEW i
    PROVE  /\ DOMAIN Without(stored, i) = DOMAIN stored \ {i}
           /\ \A s : Accepts(Without(stored, i), s) => Accepts(stored, s)
BY DEF Without, Restrict, Accepts

-----------------------------------------------------------------------------
LEMMA KeyInit == AuthInit => KeyInv
BY DEF AuthInit, KeyInv, KeysSurvive, KeysRemembered

\* Every step keeps the stored keys complete, and with them what memory may
\* write back.
LEMMA KeyNext == KeyInv /\ [AuthNext]_authVars => KeyInv'
<1> SUFFICES ASSUME KeyInv, [AuthNext]_authVars
             PROVE  KeyInv'
    OBVIOUS
<1> USE DEF KeyInv, KeysSurvive
<1>1. ASSUME NEW ok \in BOOLEAN, Reload(ok)
      PROVE  KeyInv'
    BY <1>1, EmptyList DEF Reload, Load, KeysRemembered, Accepts
<1>2. ASSUME NEW i \in Ids, NEW s \in Secrets, NEW loads \in BOOLEAN, NEW saves \in BOOLEAN,
             CreateKey(i, s, loads, saves)
      PROVE  KeyInv'
    <2> DEFINE stored == Load(loads)
    <2>1. keys' = [k \in DOMAIN stored \union {i} |->
                      IF k = i THEN [secret |-> s, enabled |-> TRUE] ELSE stored[k]]
        BY <1>2 DEF CreateKey, Save
    <2>2. DOMAIN keys' = DOMAIN stored \union {i}
        BY <2>1
    <2>3. CASE saves
        <3>1. /\ issued' = issued \union {i} /\ storedKeys' = keys' /\ dropped' = dropped
              /\ torn' = torn \ DOMAIN keys'
            BY <1>2, <2>3 DEF CreateKey, Save
        <3>2. blinded' = blinded \union (DOMAIN storedKeys \ DOMAIN stored)
            BY <1>2, <2>3 DEF CreateKey
        <3>3. issued' \subseteq DOMAIN keys' \union dropped' \union blinded' \union torn'
            BY <2>2, <3>1, <3>2
        <3> QED BY <3>1, <3>3 DEF KeysRemembered
    <2>4. CASE ~saves
        <3>1. /\ UNCHANGED <<issued, known, dropped, blinded>> /\ torn \subseteq torn'
              /\ DOMAIN storedKeys \subseteq DOMAIN storedKeys' \union torn'
            BY <1>2, <2>4 DEF CreateKey, Save
        <3>2. CASE loads
            <4>1. issued \subseteq DOMAIN keys' \union dropped \union blinded \union torn'
                BY <2>2, <3>1, <3>2 DEF Load
            <4> QED BY <3>1, <4>1 DEF KeysRemembered
        <3>3. CASE ~loads
            <4>1. keys' = [k \in {i} |-> [secret |-> s, enabled |-> TRUE]]
                BY <2>1, <3>3, EmptyList DEF Load
            <4>2. s \notin known
                BY <1>2 DEF CreateKey
            <4>3. \A q : Accepts(keys', q) => q = s
                BY <4>1 DEF Accepts
            <4> QED BY <3>1, <4>2, <4>3 DEF KeysRemembered, Accepts
        <3> QED BY <3>2, <3>3
    <2> QED BY <2>3, <2>4
<1>3. ASSUME NEW i \in Ids, NEW item \in Item, NEW loads \in BOOLEAN, NEW saves \in BOOLEAN,
             UpdateKey(i, item, loads, saves)
      PROVE  KeyInv'
    <2>1. loads /\ i \in DOMAIN storedKeys
        BY <1>3, EmptyList DEF UpdateKey, Load
    <2>2. /\ DOMAIN keys' = DOMAIN storedKeys
          /\ DOMAIN storedKeys \subseteq DOMAIN storedKeys' \union torn'
          /\ torn \subseteq torn' \union DOMAIN storedKeys
          /\ torn \subseteq torn' \union DOMAIN storedKeys'
        BY <1>3, <2>1 DEF UpdateKey, Load, Save
    <2>3. UNCHANGED <<issued, dropped, blinded>>
        BY <1>3 DEF UpdateKey
    <2> QED BY <2>2, <2>3 DEF KeysRemembered
<1>4. ASSUME NEW i \in Ids, NEW loads \in BOOLEAN, NEW saves \in BOOLEAN,
             DeleteKey(i, loads, saves)
      PROVE  KeyInv'
    <2>1. loads /\ i \in DOMAIN storedKeys
        BY <1>4, EmptyList DEF DeleteKey, Load
    <2>2. /\ keys' = Without(storedKeys, i)
          /\ \/ storedKeys' = keys' /\ torn' = torn \ DOMAIN keys'
             \/ /\ torn \subseteq torn'
                /\ DOMAIN storedKeys \subseteq DOMAIN storedKeys' \union torn'
        BY <1>4, <2>1 DEF DeleteKey, Load, Save
    <2>3. dropped' = dropped \union {i} /\ UNCHANGED <<issued, blinded>>
        BY <1>4 DEF DeleteKey
    <2>4. DOMAIN keys' = DOMAIN storedKeys \ {i}
        BY <2>2, RemovedKey
    <2> QED BY <2>2, <2>3, <2>4 DEF KeysRemembered
<1>5. ASSUME NEW s \in Secrets, NEW flush \in BOOLEAN, Authenticate(s, flush)
      PROVE  KeyInv'
    <2>1. issued \subseteq DOMAIN keys \union dropped \union blinded \union torn
        BY <1>5 DEF Authenticate, KeysRemembered
    <2>2. /\ keys' = keys
          /\ \/ storedKeys' = keys' /\ torn' = torn \ DOMAIN keys'
             \/ /\ torn \subseteq torn'
                /\ DOMAIN storedKeys \subseteq DOMAIN storedKeys' \union torn'
        BY <1>5 DEF Authenticate, Save
    <2>3. UNCHANGED <<issued, dropped, blinded>>
        BY <1>5 DEF Authenticate
    <2> QED BY <2>1, <2>2, <2>3 DEF KeysRemembered
<1>6. CASE UNCHANGED authVars
    BY <1>6 DEF authVars, KeysRemembered, Accepts
<1> QED BY <1>1, <1>2, <1>3, <1>4, <1>5, <1>6 DEF AuthNext

\* An issued key nobody asked to delete is in the storage, whatever loads and
\* saves fail, unless a create that could not load the keys wiped it or a write
\* broke off and none that held the key followed.
THEOREM IssuedKeysSurvive == AuthSpec => []KeysSurvive
<1>1. KeyInv => KeysSurvive
    BY DEF KeyInv
<1> QED BY KeyInit, KeyNext, <1>1, PTL DEF AuthSpec

-----------------------------------------------------------------------------
\* The secrets revoked by an update or a deletion are refused by the list it
\* writes, and by the one it leaves in the storage when it cannot.
LEMMA VerdictRefused ==
    ASSUME NEW STATE before, NEW STATE after, NEW saves \in BOOLEAN
    PROVE  \A s \in Verdict(before, after, saves) : ~Accepts(after, s) /\ (~saves => s \in revoked)
BY DEF Verdict

LEMMA RevokedInit == AuthInit => RevokedStaysOut
BY DEF AuthInit, RevokedStaysOut

LEMMA RevokedNext == RevokedStaysOut /\ [AuthNext]_authVars => RevokedStaysOut'
<1> SUFFICES ASSUME RevokedStaysOut, [AuthNext]_authVars
             PROVE  RevokedStaysOut'
    OBVIOUS
<1> USE DEF RevokedStaysOut
<1>1. ASSUME NEW ok \in BOOLEAN, Reload(ok)
      PROVE  RevokedStaysOut'
    <2>1. keys' \in {storedKeys, NoKeys} /\ UNCHANGED <<storedKeys, revoked>>
        BY <1>1 DEF Reload, Load
    <2> QED BY <2>1, EmptyList DEF Accepts
<1>2. ASSUME NEW i \in Ids, NEW s \in Secrets, NEW loads \in BOOLEAN, NEW saves \in BOOLEAN,
             CreateKey(i, s, loads, saves)
      PROVE  RevokedStaysOut'
    <2> DEFINE stored == Load(loads)
    <2>1. keys' = [k \in DOMAIN stored \union {i} |->
                      IF k = i THEN [secret |-> s, enabled |-> TRUE] ELSE stored[k]]
        BY <1>2 DEF CreateKey, Save
    <2>2. revoked' = revoked /\ storedKeys' \in {storedKeys, keys', NoKeys} /\ s \notin revoked
        BY <1>2 DEF CreateKey, Save
    <2>3. \A q \in revoked : ~Accepts(stored, q)
        BY EmptyList DEF Load
    <2>4. \A q \in revoked : ~Accepts(keys', q)
        BY <2>1, <2>2, <2>3 DEF Accepts
    <2> HIDE DEF stored
    <2> QED BY <2>2, <2>4, EmptyList DEF Accepts
<1>3. ASSUME NEW i \in Ids, NEW item \in Item, NEW loads \in BOOLEAN, NEW saves \in BOOLEAN,
             UpdateKey(i, item, loads, saves)
      PROVE  RevokedStaysOut'
    <2> DEFINE stored == Load(loads)
               after == [stored EXCEPT ![i] = item]
    <2>1. revoked' = Verdict(stored, after, saves)
        BY <1>3 DEF UpdateKey
    <2>2. keys' = after /\ (storedKeys' \in {after, NoKeys} \/ (~saves /\ storedKeys' = storedKeys))
        BY <1>3 DEF UpdateKey, Save
    <2> HIDE DEF stored, after
    <2> QED BY <2>1, <2>2, VerdictRefused, EmptyList DEF Accepts
<1>4. ASSUME NEW i \in Ids, NEW loads \in BOOLEAN, NEW saves \in BOOLEAN,
             DeleteKey(i, loads, saves)
      PROVE  RevokedStaysOut'
    <2> DEFINE stored == Load(loads)
               after == Without(stored, i)
    <2>1. revoked' = Verdict(stored, after, saves)
        BY <1>4 DEF DeleteKey
    <2>2. keys' = after /\ (storedKeys' \in {after, NoKeys} \/ (~saves /\ storedKeys' = storedKeys))
        BY <1>4 DEF DeleteKey, Save
    <2> HIDE DEF stored, after
    <2> QED BY <2>1, <2>2, VerdictRefused, EmptyList DEF Accepts
<1>5. ASSUME NEW s \in Secrets, NEW flush \in BOOLEAN, Authenticate(s, flush)
      PROVE  RevokedStaysOut'
    BY <1>5, EmptyList DEF Authenticate, Save, Accepts
<1>6. CASE UNCHANGED authVars
    BY <1>6 DEF authVars, Accepts
<1> QED BY <1>1, <1>2, <1>3, <1>4, <1>5, <1>6 DEF AuthNext

\* A secret that a successful call took out of use is refused from then on,
\* although authenticate writes back lists it read before.
THEOREM RevokedSecretsStayOut == AuthSpec => []RevokedStaysOut
BY RevokedInit, RevokedNext, PTL DEF AuthSpec

-----------------------------------------------------------------------------
(* Synchronisations.                                                       *)

SyncType ==
    /\ owner \in [Tokens -> {"none", "remote", "manual"}]
    /\ strategy \in [Syncs -> {"merge", "replace"}]
    /\ payload \in [Syncs -> SUBSET Tokens]
    /\ listed \subseteq Tokens /\ manual \subseteq Tokens

\* What a replacement may take away, and what a payload still to be injected
\* will make the source's, the source has listed.
ListedOnly ==
    /\ \A t \in Tokens : owner[t] = "remote" => t \in listed
    /\ \A s \in Syncs : payload[s] \subseteq listed

SyncInv == SyncType /\ ListedOnly /\ ManualAccountsKept

-----------------------------------------------------------------------------
LEMMA SyncInitInv == SyncInit => SyncInv
BY DEF SyncInit, SyncInv, SyncType, ListedOnly, ManualAccountsKept

\* A merge and a replacement give the payload's accounts to the source; only a
\* replacement takes accounts away, the source's own.
LEMMA InjectedOwners ==
    ASSUME SyncType, NEW s \in Syncs, NEW saves \in BOOLEAN, Inject(s, saves)
    PROVE  /\ owner' \in [Tokens -> {"none", "remote", "manual"}]
           /\ \A t \in Tokens : /\ owner'[t] = "remote" => owner[t] = "remote" \/ t \in payload[s]
                                /\ owner'[t] = "none" => owner[t] \in {"none", "remote"}
<1> DEFINE refused == strategy[s] = "replace" /\ payload[s] = {}
<1>1. CASE refused
    <2>1. owner' = owner
        BY <1>1 DEF Inject
    <2> QED BY <2>1 DEF SyncType
<1>2. CASE ~refused /\ strategy[s] = "merge"
    <2>1. owner' = Merged(payload[s])
        BY <1>2 DEF Inject
    <2> QED BY <2>1 DEF Merged, SyncType
<1>3. CASE ~refused /\ strategy[s] = "replace"
    <2>1. owner' = IF saves THEN Replaced(payload[s]) ELSE owner
        BY <1>3 DEF Inject
    <2> QED BY <2>1 DEF Replaced, SyncType
<1> QED BY <1>1, <1>2, <1>3 DEF SyncType

LEMMA SyncNextInv == SyncInv /\ [SyncNext]_syncVars => SyncInv'
<1> SUFFICES ASSUME SyncInv, [SyncNext]_syncVars
             PROVE  SyncInv'
    OBVIOUS
<1> USE DEF SyncInv
<1>1. ASSUME NEW s \in Syncs, NEW how \in {"merge", "replace"}, NEW saves \in BOOLEAN,
             BeginSync(s, how, saves)
      PROVE  SyncInv'
    BY <1>1 DEF BeginSync, SyncType, ListedOnly, ManualAccountsKept, Present
<1>2. ASSUME NEW s \in Syncs, NEW saves \in BOOLEAN, Inject(s, saves)
      PROVE  SyncInv'
    <2>1. UNCHANGED <<strategy, payload, listed, manual>>
        BY <1>2 DEF Inject
    <2>2. SyncType'
        BY <1>2, <2>1, InjectedOwners DEF SyncType
    <2>3. ListedOnly'
        BY <1>2, <2>1, InjectedOwners DEF ListedOnly
    <2>4. ManualAccountsKept'
        \* An account that is not listed is not the source's, so it stays.
        BY <1>2, <2>1, InjectedOwners DEF ListedOnly, ManualAccountsKept, Present, SyncType
    <2> QED BY <2>2, <2>3, <2>4
<1>3. ASSUME NEW s \in Syncs, NEW tokens \in SUBSET Tokens, FetchPayload(s, tokens)
      PROVE  SyncInv'
    BY <1>3 DEF FetchPayload, SyncType, ListedOnly, ManualAccountsKept, Present
<1>4. ASSUME NEW s \in Syncs, FetchFails(s) \/ EndSync(s)
      PROVE  SyncInv'
    BY <1>4 DEF FetchFails, EndSync, SyncType, ListedOnly, ManualAccountsKept, Present
<1>5. ASSUME NEW t \in Tokens, ImportAccount(t) \/ DeleteAccount(t)
      PROVE  SyncInv'
    BY <1>5 DEF ImportAccount, DeleteAccount, SyncType, ListedOnly, ManualAccountsKept, Present
<1>6. CASE EditRemoteSource \/ DeleteRemoteSource \/ SyncRestart \/ UNCHANGED syncVars
    BY <1>6 DEF EditRemoteSource, DeleteRemoteSource, SyncRestart, syncVars,
                SyncType, ListedOnly, ManualAccountsKept, Present
<1> QED BY <1>1, <1>2, <1>3, <1>4, <1>5, <1>6 DEF SyncNext

\* No synchronisation, however many overlap, takes away an account that an
\* administrator imported and the source never listed.
THEOREM ManualAccountsStay == SyncSpec => []ManualAccountsKept
<1>1. SyncInv => ManualAccountsKept
    BY DEF SyncInv
<1> QED BY SyncInitInv, SyncNextInv, <1>1, PTL DEF SyncSpec

-----------------------------------------------------------------------------
(* Backups.                                                                *)

BackupPlaces == {"idle", "due", "upload", "rotate", "delete", "failed", "release"}

BackupType ==
    /\ running \in BOOLEAN /\ wedged \in BOOLEAN
    /\ bpc \in [Threads -> BackupPlaces]
    /\ mine \in [Threads -> Nat] /\ doomed \in [Threads -> SUBSET Nat]
    /\ state \in [status : {"idle", "success", "error"}, key : Nat]
    /\ uploads \in Nat /\ held \in [Threads -> Nat]
    /\ bucket \subseteq 1 .. uploads /\ removed \subseteq Nat

\* The flag refuses everybody but the thread that set it, for ever when that
\* thread ended before it could write the state.
OneInProgress ==
    /\ \A t, u \in Threads : InProgress(t) /\ InProgress(u) => t = u
    /\ running <=> (wedged \/ \E t \in Threads : InProgress(t))
    /\ wedged => \A t \in Threads : ~InProgress(t)

\* While a backup rotates, its own object is the newest and is not among the
\* ones to delete; the state reports no success before the rotation is over.
OwnObjectSafe ==
    /\ \A t \in Threads : bpc[t] = "rotate" => mine[t] = uploads
    /\ \A t \in Threads : bpc[t] \in {"rotate", "delete"} => mine[t] \in bucket \union removed
    /\ \A t \in Threads : bpc[t] = "delete" => mine[t] \notin doomed[t]
    /\ \A t \in Threads :
          state.status = "success" => bpc[t] \notin {"upload", "rotate", "delete", "failed"}

BackupInv == BackupType /\ OneInProgress /\ OwnObjectSafe /\ LastBackupKept

-----------------------------------------------------------------------------
LEMMA BackupInitInv == BackupInit => BackupInv
<1> SUFFICES ASSUME BackupInit
             PROVE  BackupInv
    OBVIOUS
<1> USE DEF BackupInit, NotUploaded
<1>1. BackupType
    BY DEF BackupType, BackupPlaces
<1>2. OneInProgress
    BY DEF OneInProgress, InProgress
<1>3. OwnObjectSafe /\ LastBackupKept
    BY DEF OwnObjectSafe, LastBackupKept
<1> QED BY <1>1, <1>2, <1>3 DEF BackupInv

\* The newest object is never surplus: none is newer, and at least one is kept.
LEMMA NewestKept ==
    ASSUME BackupType, Keep \in Nat
    PROVE  uploads \notin Surplus
<1>1. CASE Keep = 0
    BY <1>1 DEF Surplus
<1>2. CASE Keep # 0
    <2>0. uploads \in Nat /\ \A o \in bucket : o \in 1 .. uploads
        BY DEF BackupType
    <2>1. Newer(uploads) = {}
        BY <2>0 DEF Newer
    <2>2. Cardinality(Newer(uploads)) = 0
        BY <2>1, FS_EmptySet
    <2> QED BY <1>2, <2>2 DEF Surplus
<1> QED BY <1>1, <1>2

\* A thread in the middle of a backup is the only one.
LEMMA Alone ==
    ASSUME BackupType, OneInProgress, NEW t \in Threads,
           bpc[t] \in {"upload", "rotate", "delete", "failed", "release"}
    PROVE  /\ \A u \in Threads : u # t => bpc[u] \in {"idle", "due"}
           /\ running /\ ~wedged
BY DEF OneInProgress, InProgress, BackupType, BackupPlaces

\* What a step of a thread in the middle of a backup does to the invariant that
\* one runs at a time: it goes on, or it ends and gives the flag back.
LEMMA GoesOn ==
    ASSUME BackupType, OneInProgress, NEW t \in Threads, NEW where,
           bpc[t] \in {"upload", "rotate", "delete", "failed", "release"},
           where \in {"upload", "rotate", "delete", "failed", "release"},
           To(t, where), UNCHANGED <<running, wedged>>
    PROVE  OneInProgress'
<1>1. \A u \in Threads : InProgress(u)' <=> InProgress(u)
    BY DEF To, InProgress, BackupType
<1> QED BY <1>1 DEF OneInProgress

LEMMA BeginInv ==
    ASSUME BackupInv, NEW t \in Threads, NEW saves \in BOOLEAN, BeginBackup(t, saves)
    PROVE  BackupInv'
<1> USE DEF BackupInv
<1>0. bpc[t] \in {"idle", "due"} /\ UNCHANGED <<mine, doomed, bucket, uploads, removed>>
    BY DEF BeginBackup
<1>1. CASE running
    <2>1. To(t, "idle") /\ UNCHANGED <<running, held, state, wedged>>
        BY <1>1 DEF BeginBackup
    <2>2. BackupType'
        BY <1>0, <2>1 DEF BackupType, To, BackupPlaces
    <2>3. OneInProgress'
        BY <1>0, <2>1 DEF OneInProgress, InProgress, To, BackupType
    <2>4. OwnObjectSafe' /\ LastBackupKept'
        BY <1>0, <2>1 DEF OwnObjectSafe, LastBackupKept, To, BackupType
    <2> QED BY <2>2, <2>3, <2>4
<1>2. CASE ~running
    <2>1. \A u \in Threads : bpc[u] \in {"idle", "due"}
        BY <1>2 DEF OneInProgress, InProgress
    <2>2. running' = TRUE /\ held' = [held EXCEPT ![t] = state.key]
        BY <1>2 DEF BeginBackup
    <2>3. CASE saves
        <3>1. To(t, "upload") /\ State("idle", state.key) /\ UNCHANGED wedged
            BY <1>2, <2>3 DEF BeginBackup
        <3>2. BackupType'
            BY <1>0, <2>2, <3>1 DEF BackupType, To, State, BackupPlaces
        <3>3. OneInProgress'
            BY <1>2, <2>1, <2>2, <3>1 DEF OneInProgress, InProgress, To, BackupType
        <3>4. OwnObjectSafe' /\ LastBackupKept'
            BY <1>0, <2>1, <3>1 DEF OwnObjectSafe, LastBackupKept, To, State, BackupType
        <3> QED BY <3>2, <3>3, <3>4
    <2>4. CASE ~saves
        <3>1. To(t, "idle") /\ UNCHANGED state /\ wedged' = TRUE
            BY <1>2, <2>4 DEF BeginBackup
        <3>2. BackupType'
            BY <1>0, <2>2, <3>1 DEF BackupType, To, BackupPlaces
        <3>3. OneInProgress'
            BY <2>1, <2>2, <3>1 DEF OneInProgress, InProgress, To, BackupType
        <3>4. OwnObjectSafe' /\ LastBackupKept'
            BY <1>0, <2>1, <3>1 DEF OwnObjectSafe, LastBackupKept, To, BackupType
        <3> QED BY <3>2, <3>3, <3>4
    <2> QED BY <2>3, <2>4
<1> QED BY <1>1, <1>2

LEMMA UploadInv ==
    ASSUME BackupInv, NEW t \in Threads, NEW stored \in BOOLEAN, NEW answered \in BOOLEAN,
           UploadBackup(t, stored, answered)
    PROVE  BackupInv'
<1> USE DEF BackupInv
<1>0. /\ bpc[t] = "upload"
      /\ answered => stored
      /\ To(t, IF answered THEN "rotate" ELSE "failed")
      /\ UNCHANGED <<running, held, doomed, state, removed, wedged>>
    BY DEF UploadBackup
<1>1. /\ uploads' = IF stored THEN uploads + 1 ELSE uploads
      /\ bucket' = IF stored THEN bucket \union {uploads + 1} ELSE bucket
      /\ mine' = IF stored THEN [mine EXCEPT ![t] = uploads + 1] ELSE mine
    BY DEF UploadBackup
<1>2. BackupType'
    BY <1>0, <1>1 DEF BackupType, To, BackupPlaces
<1>3. OneInProgress'
    <2>1. CASE answered
        BY <1>0, <2>1, GoesOn
    <2>2. CASE ~answered
        BY <1>0, <2>2, GoesOn
    <2> QED BY <2>1, <2>2
<1>4. OwnObjectSafe'
    <2>1. \A u \in Threads : u # t => bpc'[u] \in {"idle", "due"}
        BY <1>0, Alone DEF To, BackupType
    <2>2. bpc'[t] = (IF answered THEN "rotate" ELSE "failed") /\ state'.status # "success"
        BY <1>0 DEF OwnObjectSafe, To, BackupType
    <2>3. answered => mine'[t] = uploads' /\ mine'[t] \in bucket'
        BY <1>0, <1>1 DEF BackupType
    <2> QED BY <2>1, <2>2, <2>3 DEF OwnObjectSafe
<1>5. LastBackupKept'
    BY <1>0, <1>1 DEF LastBackupKept
<1> QED BY <1>2, <1>3, <1>4, <1>5

LEMMA RotateInv ==
    ASSUME BackupInv, Keep \in Nat, NEW t \in Threads, NEW answered \in BOOLEAN,
           Rotate(t, answered)
    PROVE  BackupInv'
<1> USE DEF BackupInv
<1>0. /\ bpc[t] = "rotate"
      /\ doomed' = [doomed EXCEPT ![t] = IF answered THEN Surplus ELSE {}]
      /\ To(t, IF answered THEN "delete" ELSE "failed")
      /\ UNCHANGED <<running, held, mine, state, bucket, uploads, removed, wedged>>
    BY DEF Rotate
<1>1. Surplus \subseteq Nat /\ uploads \notin Surplus
    <2>1. Surplus \subseteq bucket /\ bucket \subseteq Nat
        BY DEF Surplus, BackupType
    <2> QED BY <2>1, NewestKept
<1>2. BackupType'
    BY <1>0, <1>1 DEF BackupType, To, BackupPlaces
<1>3. OneInProgress'
    BY <1>0, GoesOn
<1>4. mine[t] = uploads /\ mine[t] \in bucket \union removed
    BY <1>0 DEF OwnObjectSafe
<1>5. OwnObjectSafe'
    BY <1>0, <1>1, <1>4, Alone DEF OwnObjectSafe, To, BackupType
<1>6. LastBackupKept'
    BY <1>0 DEF LastBackupKept
<1> QED BY <1>2, <1>3, <1>5, <1>6

LEMMA DeleteNextInv ==
    ASSUME BackupInv, NEW t \in Threads, NEW answered \in BOOLEAN, DeleteNext(t, answered)
    PROVE  BackupInv'
<1> USE DEF BackupInv
<1>0. /\ bpc[t] = "delete"
      /\ To(t, IF answered THEN "delete" ELSE "failed")
      /\ UNCHANGED <<running, held, mine, state, uploads, removed, wedged>>
    BY DEF DeleteNext
<1>1. PICK k \in doomed[t] :
          /\ bucket' = IF answered THEN bucket \ {k} ELSE bucket
          /\ doomed' = [doomed EXCEPT ![t] = IF answered THEN @ \ {k} ELSE {}]
    BY DEF DeleteNext
<1>2. BackupType'
    BY <1>0, <1>1 DEF BackupType, To, BackupPlaces
<1>3. OneInProgress'
    BY <1>0, GoesOn
<1>4. mine[t] \notin doomed[t] /\ mine[t] \in bucket \union removed /\ state.status # "success"
    BY <1>0 DEF OwnObjectSafe
<1>5. OwnObjectSafe'
    BY <1>0, <1>1, <1>4, Alone DEF OwnObjectSafe, To, BackupType
<1>6. LastBackupKept'
    BY <1>0, <1>4 DEF LastBackupKept
<1> QED BY <1>2, <1>3, <1>5, <1>6

\* The outcome is written: the success names an object that is there or that an
\* administrator deleted.
LEMMA OutcomeInv ==
    ASSUME BackupInv, NEW t \in Threads, NEW saves \in BOOLEAN, Succeed(t, saves) \/ Fail(t, saves)
    PROVE  BackupInv'
<1> USE DEF BackupInv
<1>0. /\ UNCHANGED <<running, held, mine, doomed, bucket, uploads, removed, wedged>>
      /\ bpc[t] \in {"delete", "failed"}
      /\ \E where \in {"release", "failed"} : To(t, where)
    BY DEF Succeed, Fail
<1>1. \/ state' = state
      \/ state' = [status |-> "success", key |-> mine[t]] /\ bpc[t] = "delete" /\ To(t, "release")
      \/ state' = [status |-> "error", key |-> held[t]]
    BY DEF Succeed, Fail, State
<1>2. BackupType'
    BY <1>0, <1>1 DEF BackupType, To, BackupPlaces
<1>3. OneInProgress'
    BY <1>0, GoesOn
<1>4. mine[t] \in bucket \union removed \/ bpc[t] # "delete"
    BY DEF OwnObjectSafe
<1>5. state.status # "success"
    BY <1>0 DEF OwnObjectSafe
<1>6. OwnObjectSafe'
    BY <1>0, <1>1, <1>5, Alone DEF OwnObjectSafe, To, BackupType
<1>7. LastBackupKept'
    BY <1>0, <1>1, <1>4, <1>5 DEF LastBackupKept
<1> QED BY <1>2, <1>3, <1>6, <1>7

LEMMA ReleaseInv ==
    ASSUME BackupInv, NEW t \in Threads, Release(t)
    PROVE  BackupInv'
<1> USE DEF BackupInv, Release
<1>1. BackupType'
    BY DEF BackupType, To, BackupPlaces, NotUploaded
<1>2. OneInProgress'
    BY Alone DEF OneInProgress, InProgress, To, BackupType
<1>3. OwnObjectSafe'
    BY Alone DEF OwnObjectSafe, To, BackupType
<1>4. LastBackupKept'
    BY DEF LastBackupKept
<1> QED BY <1>1, <1>2, <1>3, <1>4

\* The other steps: a scheduler finds a backup due, an administrator deletes an
\* object, the process is started again, or nothing happens.
LEMMA OtherInv ==
    ASSUME BackupInv,
           \/ \E t \in Threads : Check(t)
           \/ \E k \in bucket : DeleteBackup(k)
           \/ BackupRestart
           \/ UNCHANGED backupVars
    PROVE  BackupInv'
<1> USE DEF BackupInv
<1>1. ASSUME NEW t \in Threads, Check(t)
      PROVE  BackupInv'
    <2>1. BackupType'
        BY <1>1 DEF Check, BackupType, To, BackupPlaces
    <2>2. OneInProgress'
        BY <1>1 DEF Check, OneInProgress, InProgress, To, BackupType
    <2>3. OwnObjectSafe' /\ LastBackupKept'
        BY <1>1 DEF Check, OwnObjectSafe, LastBackupKept, To, BackupType
    <2> QED BY <2>1, <2>2, <2>3
<1>2. ASSUME NEW k \in bucket, DeleteBackup(k)
      PROVE  BackupInv'
    BY <1>2 DEF DeleteBackup, BackupType, OneInProgress, InProgress, OwnObjectSafe, LastBackupKept
<1>3. CASE BackupRestart
    BY <1>3 DEF BackupRestart, BackupType, BackupPlaces, NotUploaded, OneInProgress, InProgress,
                OwnObjectSafe, LastBackupKept
<1>4. CASE UNCHANGED backupVars
    BY <1>4 DEF backupVars, BackupType, OneInProgress, InProgress, OwnObjectSafe, LastBackupKept
<1> QED BY <1>1, <1>2, <1>3, <1>4

LEMMA BackupNextInv ==
    ASSUME Keep \in Nat
    PROVE  BackupInv /\ [BackupNext]_backupVars => BackupInv'
BY BeginInv, UploadInv, RotateInv, DeleteNextInv, OutcomeInv, ReleaseInv, OtherInv
   DEF BackupNext, Step

-----------------------------------------------------------------------------
\* One in progress is a set of at most one thread.
LEMMA AtMostOne ==
    ASSUME OneInProgress
    PROVE  RunningIsReal
<1> DEFINE busy == {t \in Threads : InProgress(t)}
<1>1. CASE busy = {}
    BY <1>1, FS_EmptySet DEF OneInProgress, RunningIsReal
<1>2. CASE busy # {}
    <2>1. PICK t \in Threads : InProgress(t)
        BY <1>2
    <2>2. busy = {t}
        BY <2>1 DEF OneInProgress
    <2>3. Cardinality(busy) = 1
        BY <2>2, FS_Singleton
    <2> QED BY <2>3 DEF OneInProgress, RunningIsReal
<1> QED BY <1>1, <1>2

\* One backup runs at a time, and the flag tells the truth but after a begin
\* that could not write the state.
THEOREM OneBackupRuns == ASSUME Keep \in Nat PROVE BackupSpec => []RunningIsReal
<1>1. BackupInv => RunningIsReal
    BY AtMostOne DEF BackupInv
<1> QED BY BackupInitInv, BackupNextInv, <1>1, PTL DEF BackupSpec

\* The object that the state reports is in the bucket unless an administrator
\* deleted it: rotation never reaches the newest one.
THEOREM ReportedBackupKept == ASSUME Keep \in Nat PROVE BackupSpec => []LastBackupKept
<1>1. BackupInv => LastBackupKept
    BY DEF BackupInv
<1> QED BY BackupInitInv, BackupNextInv, <1>1, PTL DEF BackupSpec
-----------------------------------------------------------------------------
(* The call log.                                                           *)

Frames  == {"error", "answer", "done", "item", "gone", "broken"}
Senders == Logging \union Silent
Stages  == {"new", "filters", "handles", "starts", "opens", "streams", "quiet", "over"}

LogType ==
    /\ lines \in Seq([call : LoggedCalls, verdict : {"failed", "success"}])
    /\ inFile \subseteq DOMAIN lines /\ pruning.kept \subseteq DOMAIN lines
    /\ call \in [LoggedCalls -> [at : Stages, sender : Senders, told : Seq(Frames)]]

HasError(frames) == \E i \in DOMAIN frames : frames[i] = "error"

\* A line is of a call that is over and was told what the line says, and there is
\* one line of a call, whether or not the file still holds it.
LinesTrue ==
    /\ \A i, j \in DOMAIN lines : lines[i].call = lines[j].call => i = j
    /\ \A i \in DOMAIN lines :
          /\ CallAt(lines[i].call, "over")
          /\ (lines[i].verdict = "failed") = HasError(call[lines[i].call].told)

\* No client is told of an error before its call has ended, and then the file
\* tells, or told, of it, or the call is one that no LoggedCall runs.
ErrorsAccounted ==
    \A c \in LoggedCalls :
        HasError(call[c].told) =>
            \/ CallAt(c, "quiet")
            \/ CallAt(c, "over") /\ c \in CallsIn(inFile) \union erased \union missed

LogInv == LogType /\ LinesTrue /\ ErrorsAccounted

Ended(c) == CallAt(c, "over") \/ CallAt(c, "quiet")

LEMMA ErrorTold == \A c : ToldError(c) <=> HasError(call[c].told)
BY DEF ToldError, Told, HasError

LEMMA ErrorAppended ==
    ASSUME NEW f \in Seq(Frames), NEW g \in Seq(Frames)
    PROVE  f \o g \in Seq(Frames) /\ (HasError(f \o g) <=> HasError(f) \/ HasError(g))
<1>1. /\ f \o g \in Seq(Frames) /\ Len(f \o g) = Len(f) + Len(g)
      /\ \A i \in 1 .. Len(f) + Len(g) : (f \o g)[i] = IF i <= Len(f) THEN f[i] ELSE g[i - Len(f)]
      /\ Len(f) \in Nat /\ Len(g) \in Nat /\ DOMAIN f = 1 .. Len(f) /\ DOMAIN g = 1 .. Len(g)
      /\ DOMAIN (f \o g) = 1 .. Len(f) + Len(g)
    OBVIOUS
<1>2. ASSUME HasError(f) PROVE HasError(f \o g)
    BY <1>1, <1>2 DEF HasError
<1>3. ASSUME HasError(g) PROVE HasError(f \o g)
    <2>1. PICK j \in 1 .. Len(g) : g[j] = "error"
        BY <1>1, <1>3 DEF HasError
    <2>2. j + Len(f) \in 1 .. Len(f) + Len(g) /\ (f \o g)[j + Len(f)] = g[j]
        BY <1>1
    <2> QED BY <1>1, <2>1, <2>2 DEF HasError
<1>4. ASSUME HasError(f \o g) PROVE HasError(f) \/ HasError(g)
    <2>1. PICK i \in 1 .. Len(f) + Len(g) : (f \o g)[i] = "error"
        BY <1>1, <1>4 DEF HasError
    <2>2. CASE i <= Len(f)
        BY <1>1, <2>1, <2>2 DEF HasError
    <2>3. CASE ~(i <= Len(f))
        <3>1. i - Len(f) \in 1 .. Len(g) /\ g[i - Len(f)] = "error"
            BY <1>1, <2>1, <2>3
        <3> QED BY <1>1, <3>1 DEF HasError
    <2> QED BY <2>2, <2>3
<1> QED BY <1>1, <1>2, <1>3, <1>4

\* What the frames of the program say.
LEMMA FrameErrors ==
    /\ <<>> \in Seq(Frames) /\ ~HasError(<<>>)
    /\ \A x \in Frames : <<x>> \in Seq(Frames) /\ (HasError(<<x>>) <=> x = "error")
    /\ \A x, y \in Frames : <<x, y>> \in Seq(Frames)
    /\ \A c : Closing(c) \in Seq(Frames) /\ ~HasError(Closing(c))
<1>1. <<>> \in Seq(Frames) /\ ~HasError(<<>>)
    BY DEF HasError
<1>2. ASSUME NEW x \in Frames
      PROVE  <<x>> \in Seq(Frames) /\ (HasError(<<x>>) <=> x = "error")
    <2>1. <<x>> \in Seq(Frames) /\ DOMAIN <<x>> = {1} /\ <<x>>[1] = x
        OBVIOUS
    <2> QED BY <2>1 DEF HasError
<1>3. \A x, y \in Frames : <<x, y>> \in Seq(Frames)
    OBVIOUS
<1>4. ASSUME NEW c PROVE Closing(c) \in Seq(Frames) /\ ~HasError(Closing(c))
    <2>1. "done" \in Frames /\ "done" # "error"
        BY DEF Frames
    <2> QED BY <1>1, <1>2, <2>1 DEF Closing
<1> QED BY <1>1, <1>2, <1>3, <1>4

LEMMA LogInitInv == LogInit => LogInv
<1> SUFFICES ASSUME LogInit PROVE LogInv
    OBVIOUS
<1>1. \A c \in LoggedCalls : call[c] = [at |-> "new", sender |-> "openai", told |-> <<>>]
    BY DEF LogInit
<1>2. <<>> \in Seq(Frames) /\ ~HasError(<<>>)
    BY FrameErrors
<1>3. LogType
    <2>1. [at |-> "new", sender |-> "openai", told |-> <<>>] \in
              [at : Stages, sender : Senders, told : Seq(Frames)]
        BY <1>2 DEF Stages, Senders, Logging
    <2> QED BY <2>1 DEF LogInit, LogType, NotPruning
<1>4. LinesTrue
    BY DEF LogInit, LinesTrue
<1>5. ErrorsAccounted
    BY <1>1, <1>2 DEF ErrorsAccounted
<1> QED BY <1>3, <1>4, <1>5 DEF LogInv

\* Where a call goes, and what its client has been told then.
LEMMA CallGone ==
    ASSUME LogType, NEW c \in LoggedCalls, NEW where \in Stages, NEW frames \in Seq(Frames),
           CallGoes(c, where, frames)
    PROVE  /\ call' \in [LoggedCalls -> [at : Stages, sender : Senders, told : Seq(Frames)]]
           /\ \A d \in LoggedCalls \ {c} : call'[d] = call[d]
           /\ call'[c].at = where /\ call'[c].sender = call[c].sender
           /\ HasError(call'[c].told) <=> HasError(call[c].told) \/ HasError(frames)
<1>1. PICK s \in Senders, f \in Seq(Frames) : s = call[c].sender /\ f = call[c].told
    BY DEF LogType
<1>2. f \o frames \in Seq(Frames) /\ (HasError(f \o frames) <=> HasError(f) \/ HasError(frames))
    BY ErrorAppended
<1>3. PICK g \in Seq(Frames) : g = f \o frames
    BY <1>2
<1>4. call' = [call EXCEPT ![c] = [at |-> where, sender |-> s, told |-> g]]
    BY <1>1, <1>3 DEF CallGoes
<1>5. [at |-> where, sender |-> s, told |-> g] \in [at : Stages, sender : Senders, told : Seq(Frames)]
    OBVIOUS
<1> QED BY <1>1, <1>2, <1>3, <1>4, <1>5 DEF LogType

LEMMA EntryOf ==
    ASSUME NEW S, NEW s \in Seq(S), NEW i \in DOMAIN s
    PROVE  s[i] \in S
OBVIOUS

\* A call that is not over has no line.
LEMMA LineCalls ==
    ASSUME LogType, LinesTrue, NEW c \in LoggedCalls, ~CallAt(c, "over")
    PROVE  \A i \in DOMAIN lines : lines[i].call \in LoggedCalls \ {c}
<1> SUFFICES ASSUME NEW i \in DOMAIN lines
             PROVE  lines[i].call \in LoggedCalls /\ lines[i].call # c
    OBVIOUS
<1>1. lines[i] \in [call : LoggedCalls, verdict : {"failed", "success"}]
    BY EntryOf, Zenon DEF LogType
<1>2. CallAt(lines[i].call, "over")
    BY DEF LinesTrue
<1> QED BY <1>1, <1>2

\* A call that goes on, and one that ends without a line: it told no error or is
\* one that no LoggedCall runs.
LEMMA GoesOnInv ==
    ASSUME LogInv, NEW c \in LoggedCalls, NEW where \in Stages, NEW frames \in Seq(Frames),
           ~Ended(c), CallGoes(c, where, frames), Unlogged,
           ~HasError(frames) \/ where = "quiet"
    PROVE  LogInv'
<1>1. UNCHANGED <<lines, inFile, pruning, erased, missed>>
    BY DEF Unlogged
<1>2. LogType'
    BY <1>1, CallGone DEF LogInv, LogType
<1>3. \A i \in DOMAIN lines : lines[i].call \in LoggedCalls \ {c}
    BY LineCalls DEF LogInv, Ended
<1>4. LinesTrue'
    BY <1>1, <1>3, CallGone DEF LogInv, LinesTrue, CallAt
<1>5. ErrorsAccounted'
    <2> SUFFICES ASSUME NEW d \in LoggedCalls, HasError(call'[d].told)
                 PROVE  \/ call'[d].at = "quiet"
                        \/ call'[d].at = "over" /\ d \in CallsIn(inFile)' \union erased' \union missed'
        BY DEF ErrorsAccounted, CallAt
    <2>1. CallsIn(inFile)' = CallsIn(inFile)
        BY <1>1 DEF CallsIn
    <2>2. CASE d = c
        BY <2>2, CallGone DEF LogInv, ErrorsAccounted, Ended
    <2>3. CASE d # c
        BY <1>1, <2>1, <2>3, CallGone DEF LogInv, ErrorsAccounted, CallAt
    <2> QED BY <2>2, <2>3
<1> QED BY <1>2, <1>4, <1>5 DEF LogInv

\* A call that ends with a line, or with one that could not be written.
LEMMA LogsInv ==
    ASSUME LogInv, NEW c \in LoggedCalls, NEW verdict \in {"failed", "success"},
           NEW frames \in Seq(Frames), NEW otherwise \in Seq(Frames),
           ~Ended(c), Logs(c, verdict, frames, otherwise),
           (verdict = "failed") = HasError(frames)
    PROVE  LogInv'
<1> DEFINE n == Len(lines) + 1
<1>1. \A i \in DOMAIN lines : lines[i].call \in LoggedCalls \ {c}
    BY LineCalls DEF LogInv, Ended
<1>2. ~HasError(call[c].told)
    BY DEF LogInv, ErrorsAccounted, Ended
<1>3. "over" \in Stages
    BY DEF Stages
<1>4. CASE /\ lines' = Append(lines, Line(c, verdict)) /\ inFile' = inFile \union {Len(lines')}
           /\ CallGoes(c, "over", frames) /\ UNCHANGED <<pruning, erased, missed>>
    <2>1. PICK l \in [call : LoggedCalls, verdict : {"failed", "success"}] :
              l = Line(c, verdict) /\ l.call = c /\ l.verdict = verdict
        <3>1. Line(c, verdict) \in [call : LoggedCalls, verdict : {"failed", "success"}]
            BY DEF Line
        <3>2. Line(c, verdict).call = c /\ Line(c, verdict).verdict = verdict
            BY DEF Line
        <3> QED BY <3>1, <3>2
    <2>2. /\ lines' \in Seq([call : LoggedCalls, verdict : {"failed", "success"}])
          /\ n \in Nat /\ DOMAIN lines' = DOMAIN lines \union {n} /\ n \notin DOMAIN lines
          /\ lines'[n] = l /\ Len(lines') = n
          /\ \A i \in DOMAIN lines : lines'[i] = lines[i]
        BY <1>4, <2>1 DEF LogInv, LogType
    <2> HIDE DEF n
    <2>3. LogType'
        BY <1>3, <1>4, <2>2, CallGone DEF LogInv, LogType
    <2>4. LinesTrue'
        <3>1. \A i, j \in DOMAIN lines' : lines'[i].call = lines'[j].call => i = j
            BY <1>1, <2>1, <2>2 DEF LogInv, LinesTrue
        <3>2. ASSUME NEW i \in DOMAIN lines'
              PROVE  /\ call'[lines'[i].call].at = "over"
                     /\ (lines'[i].verdict = "failed") = HasError(call'[lines'[i].call].told)
            <4>1. CASE i = n
                <5>1. call'[c].at = "over" /\ (HasError(call'[c].told) <=> HasError(frames))
                    BY <1>2, <1>3, <1>4, CallGone DEF LogInv
                <5>2. lines'[i].call = c /\ lines'[i].verdict = verdict
                    BY <2>1, <2>2, <4>1
                <5>3. HasError(call'[c].told) \in BOOLEAN /\ HasError(frames) \in BOOLEAN
                    BY DEF HasError
                <5> QED BY <5>1, <5>2, <5>3, Zenon
            <4>2. CASE i \in DOMAIN lines
                <5>1. lines'[i] = lines[i] /\ call'[lines[i].call] = call[lines[i].call]
                    BY <1>1, <1>3, <1>4, <2>2, <4>2, CallGone DEF LogInv
                <5> QED BY <4>2, <5>1 DEF LogInv, LinesTrue, CallAt
            <4> QED BY <2>2, <4>1, <4>2
        <3> QED BY <3>1, <3>2 DEF LinesTrue, CallAt
    <2>5. ErrorsAccounted'
        <3>1. CallsIn(inFile)' = CallsIn(inFile) \union {c}
            <4>1. inFile \subseteq DOMAIN lines /\ inFile' = inFile \union {n}
                BY <1>4, <2>2 DEF LogInv, LogType
            <4> QED BY <2>1, <2>2, <4>1 DEF CallsIn
        <3> SUFFICES ASSUME NEW d \in LoggedCalls, HasError(call'[d].told)
                     PROVE  \/ call'[d].at = "quiet"
                            \/ /\ call'[d].at = "over"
                               /\ d \in CallsIn(inFile)' \union erased' \union missed'
            BY DEF ErrorsAccounted, CallAt
        <3>2. CASE d = c
            BY <1>3, <1>4, <3>1, <3>2, CallGone DEF LogInv
        <3>3. CASE d # c
            <4>1. call'[d] = call[d]
                BY <1>3, <1>4, <3>3, CallGone DEF LogInv
            <4>2. \/ call[d].at = "quiet"
                  \/ call[d].at = "over" /\ d \in CallsIn(inFile) \union erased \union missed
                BY <4>1 DEF LogInv, ErrorsAccounted, CallAt
            <4>3. erased' = erased /\ missed' = missed
                BY <1>4
            <4> QED BY <3>1, <4>1, <4>2, <4>3
        <3> QED BY <3>2, <3>3
    <2> QED BY <2>3, <2>4, <2>5 DEF LogInv
<1>5. ASSUME NEW said \in {frames, otherwise}, CallGoes(c, "over", said),
             missed' = missed \union {c}, UNCHANGED <<lines, inFile, pruning, erased>>
      PROVE  LogInv'
    <2>1. LogType'
        BY <1>3, <1>5, CallGone DEF LogInv, LogType
    <2>2. LinesTrue'
        BY <1>1, <1>3, <1>5, CallGone DEF LogInv, LinesTrue, CallAt
    <2>3. ErrorsAccounted'
        <3>1. CallsIn(inFile)' = CallsIn(inFile)
            BY <1>5 DEF CallsIn
        <3> SUFFICES ASSUME NEW d \in LoggedCalls, HasError(call'[d].told)
                     PROVE  \/ call'[d].at = "quiet"
                            \/ /\ call'[d].at = "over"
                               /\ d \in CallsIn(inFile)' \union erased' \union missed'
            BY DEF ErrorsAccounted, CallAt
        <3>2. CASE d = c
            BY <1>3, <1>5, <3>2, CallGone DEF LogInv
        <3>3. CASE d # c
            BY <1>3, <1>5, <3>1, <3>3, CallGone DEF LogInv, ErrorsAccounted, CallAt
        <3> QED BY <3>2, <3>3
    <2> QED BY <2>1, <2>2, <2>3 DEF LogInv
<1>6. CASE /\ missed' = missed \union {c} /\ UNCHANGED <<lines, inFile, pruning, erased>>
           /\ CallGoes(c, "over", frames) \/ CallGoes(c, "over", otherwise)
    BY <1>5, <1>6
<1> QED BY <1>4, <1>6 DEF Logs

LEMMA ArriveInv ==
    ASSUME LogInv, NEW c \in LoggedCalls, NEW sender \in Senders, Arrive(c, sender)
    PROVE  LogInv'
<1>1. /\ UNCHANGED <<lines, inFile, pruning, erased, missed>> /\ ~CallAt(c, "over")
      /\ call' = [call EXCEPT ![c] = [at |-> "filters", sender |-> sender, told |-> <<>>]]
    BY DEF Arrive, Unlogged, CallAt
<1>2. <<>> \in Seq(Frames) /\ ~HasError(<<>>)
    BY FrameErrors
<1>3. [at |-> "filters", sender |-> sender, told |-> <<>>] \in [at : Stages, sender : Senders, told : Seq(Frames)]
    BY <1>2 DEF Stages
<1>4. /\ call' \in [LoggedCalls -> [at : Stages, sender : Senders, told : Seq(Frames)]]
      /\ \A d \in LoggedCalls \ {c} : call'[d] = call[d]
      /\ call'[c].told = <<>>
    BY <1>1, <1>3 DEF LogInv, LogType
<1>5. LogType'
    BY <1>1, <1>4 DEF LogInv, LogType
<1>6. LinesTrue'
    BY <1>1, <1>4, LineCalls DEF LogInv, LinesTrue, CallAt
<1>7. ErrorsAccounted'
    <2> SUFFICES ASSUME NEW d \in LoggedCalls, HasError(call'[d].told)
                 PROVE  \/ call'[d].at = "quiet"
                        \/ call'[d].at = "over" /\ d \in CallsIn(inFile)' \union erased' \union missed'
        BY DEF ErrorsAccounted, CallAt
    <2>1. d # c
        BY <1>2, <1>4
    <2>2. CallsIn(inFile)' = CallsIn(inFile)
        BY <1>1 DEF CallsIn
    <2> QED BY <1>1, <1>4, <2>1, <2>2 DEF LogInv, ErrorsAccounted, CallAt
<1> QED BY <1>5, <1>6, <1>7 DEF LogInv

\* The handler's answer, at once or as a stream.
LEMMA HandlerInv ==
    ASSUME LogInv, NEW c \in LoggedCalls,
           \/ \E text, reviewed, review, answer : Filter(c, text, reviewed, review, answer)
           \/ HandlerFails(c) \/ CallReturns(c) \/ TakeFirst(c)
    PROVE  LogInv'
<1>1. /\ "error" \in Frames /\ "answer" \in Frames
      /\ {"handles", "starts", "opens"} \subseteq Stages
    BY DEF Frames, Stages
<1>2. /\ <<"error">> \in Seq(Frames) /\ HasError(<<"error">>)
      /\ <<"answer">> \in Seq(Frames) /\ ~HasError(<<"answer">>)
      /\ <<>> \in Seq(Frames) /\ ~HasError(<<>>)
      /\ Closing(c) \in Seq(Frames) /\ ~HasError(Closing(c))
    BY <1>1, FrameErrors
<1>3. ~Ended(c)
    BY DEF Filter, HandlerFails, CallReturns, TakeFirst, CallAt, Ended
<1>4. CASE Logs(c, "failed", <<"error">>, <<"error">>)
    <2>1. ("failed" = "failed") = HasError(<<"error">>)
        BY <1>2, Zenon DEF HasError
    <2> QED BY <1>2, <1>3, <1>4, <2>1, LogsInv
<1>5. ASSUME NEW frames \in {<<"answer">>, Closing(c)}, Logs(c, "success", frames, <<"error">>)
      PROVE  LogInv'
    <2>1. ~HasError(frames)
        BY <1>2
    <2>2. ("success" = "failed") = HasError(frames)
        <3>1. "success" # "failed"
            OBVIOUS
        <3>2. HasError(frames) \in BOOLEAN /\ ("success" = "failed") \in BOOLEAN
            BY Zenon DEF HasError
        <3> QED BY <2>1, <3>1, <3>2, Zenon
    <2> QED BY <1>2, <1>3, <1>5, <2>2, LogsInv
<1>6. ASSUME NEW where \in {"handles", "starts", "opens"}, CallGoes(c, where, <<>>), Unlogged
      PROVE  LogInv'
    BY <1>1, <1>2, <1>3, <1>6, GoesOnInv
<1> QED BY <1>4, <1>5, <1>6 DEF Filter, HandlerFails, CallReturns, TakeFirst

\* A stream.
LEMMA StreamedInv ==
    ASSUME LogInv, NEW c \in LoggedCalls,
           SendItem(c) \/ StreamFails(c) \/ StreamEnds(c) \/ ClientLeaves(c)
    PROVE  LogInv'
<1>1. /\ "error" \in Frames /\ "item" \in Frames /\ "gone" \in Frames
      /\ {"streams", "over"} \subseteq Stages
    BY DEF Frames, Stages
<1>2. /\ <<"error">> \in Seq(Frames) /\ HasError(<<"error">>)
      /\ <<"item">> \in Seq(Frames) /\ ~HasError(<<"item">>)
      /\ <<"gone">> \in Seq(Frames) /\ ~HasError(<<"gone">>)
      /\ Closing(c) \in Seq(Frames) /\ ~HasError(Closing(c))
    BY <1>1, FrameErrors
<1>3. ~Ended(c)
    BY DEF SendItem, StreamFails, StreamEnds, ClientLeaves, CallAt, Ended
<1>4. PICK failure \in Seq(Frames) : failure = <<"error">> \o Closing(c) /\ HasError(failure)
    BY <1>2, ErrorAppended
<1>5. CASE SendItem(c)
    BY <1>1, <1>2, <1>3, <1>5, GoesOnInv DEF SendItem
<1>6. CASE StreamFails(c)
    <2>1. Logs(c, "failed", failure, failure)
        BY <1>4, <1>6 DEF StreamFails
    <2>2. ("failed" = "failed") = HasError(failure)
        BY <1>4, Zenon DEF HasError
    <2> QED BY <1>3, <2>1, <2>2, LogsInv
<1>7. ASSUME NEW frames \in {<<"gone">>, Closing(c)}, NEW otherwise \in Seq(Frames),
             Logs(c, "success", frames, otherwise)
      PROVE  LogInv'
    <2>1. ~HasError(frames) /\ frames \in Seq(Frames)
        BY <1>2
    <2>2. ("success" = "failed") = HasError(frames)
        <3>1. "success" # "failed"
            OBVIOUS
        <3>2. HasError(frames) \in BOOLEAN /\ ("success" = "failed") \in BOOLEAN
            BY Zenon DEF HasError
        <3> QED BY <2>1, <3>1, <3>2, Zenon
    <2> QED BY <1>3, <1>7, <2>1, <2>2, LogsInv
<1>8. CASE StreamEnds(c)
    BY <1>4, <1>7, <1>8 DEF StreamEnds
<1>9. CASE ClientLeaves(c)
    <2>1. CASE CallGoes(c, "over", <<"gone">>) /\ Unlogged
        BY <1>1, <1>2, <1>3, <2>1, GoesOnInv
    <2> QED BY <1>2, <1>7, <1>9, <2>1 DEF ClientLeaves
<1> QED BY <1>5, <1>6, <1>8, <1>9

\* A call that no LoggedCall runs.
LEMMA UnloggedInv ==
    ASSUME LogInv, NEW c \in LoggedCalls, SendUnlogged(c) \/ EndUnlogged(c)
    PROVE  LogInv'
<1>1. {"handles", "quiet"} \subseteq Stages
    BY DEF Stages
<1>2. ~Ended(c) /\ Unlogged
    BY DEF SendUnlogged, EndUnlogged, CallAt, Ended
<1>3. CASE SendUnlogged(c)
    <2>1. "item" \in Frames /\ "item" # "error"
        BY DEF Frames
    <2>2. <<"item">> \in Seq(Frames) /\ ~HasError(<<"item">>)
        BY <2>1, FrameErrors
    <2> QED BY <1>1, <1>2, <1>3, <2>2, GoesOnInv DEF SendUnlogged
<1>4. CASE EndUnlogged(c)
    <2>1. \A x \in {"error", "answer", "gone", "broken"} :
              <<x>> \in Seq(Frames) /\ <<x, "done">> \in Seq(Frames)
        BY FrameErrors DEF Frames
    <2>2. \/ \E x \in {"error", "answer", "gone", "broken"} : CallGoes(c, "quiet", <<x>>)
          \/ \E x \in {"answer", "error"} : CallGoes(c, "quiet", <<x, "done">>)
        BY <1>4 DEF EndUnlogged
    <2>3. PICK frames \in Seq(Frames) : CallGoes(c, "quiet", frames)
        BY <2>1, <2>2
    <2> QED BY <1>1, <1>2, <2>3, GoesOnInv
<1> QED BY <1>3, <1>4

LEMMA FileKept ==
    ASSUME NEW numbers, FileKeeps(numbers), UNCHANGED <<lines, erased>>
    PROVE  CallsIn(inFile) \union erased \union missed
               \subseteq CallsIn(inFile)' \union erased' \union missed'
<1>1. /\ missed' = missed \union (CallsIn(inFile) \ (CallsIn(numbers) \union erased))
      /\ inFile' = numbers
    BY DEF FileKeeps
<1>2. CallsIn(inFile)' = CallsIn(numbers)
    BY <1>1 DEF CallsIn
<1> QED BY <1>1, <1>2

\* A deletion reads the lines, and writes back those it keeps, or some of them.
LEMMA PruneInv ==
    ASSUME LogInv, ReadLines \/ RewriteLines
    PROVE  LogInv'
<1>1. UNCHANGED <<lines, call>>
    BY DEF ReadLines, RewriteLines
<1>2. ASSUME RewriteLines
      PROVE  /\ \E numbers \in SUBSET DOMAIN lines : FileKeeps(numbers)
             /\ pruning' = NotPruning /\ erased' = erased
    BY <1>2 DEF RewriteLines, LogInv, LogType
<1>3. LogType'
    <2>1. CASE ReadLines
        BY <1>1, <2>1 DEF ReadLines, LogInv, LogType
    <2>2. CASE RewriteLines
        BY <1>1, <1>2, <2>2 DEF FileKeeps, NotPruning, LogInv, LogType
    <2> QED BY <2>1, <2>2
<1>4. LinesTrue'
    BY <1>1 DEF LogInv, LinesTrue, CallAt
<1>5. CallsIn(inFile) \union erased \union missed
          \subseteq CallsIn(inFile)' \union erased' \union missed'
    <2>1. CASE ReadLines
        <3>1. UNCHANGED <<lines, inFile, missed>> /\ erased \subseteq erased'
            BY <2>1 DEF ReadLines
        <3> QED BY <3>1 DEF CallsIn
    <2>2. CASE RewriteLines
        BY <1>1, <1>2, <2>2, FileKept
    <2> QED BY <2>1, <2>2
<1>6. ErrorsAccounted'
    BY <1>1, <1>5 DEF LogInv, ErrorsAccounted, CallAt
<1> QED BY <1>3, <1>4, <1>6 DEF LogInv

LEMMA LogNextInv == LogInv /\ [LogNext]_logVars => LogInv'
<1> SUFFICES ASSUME LogInv, [LogNext]_logVars PROVE LogInv'
    OBVIOUS
<1>1. CASE ReadLines \/ RewriteLines
    BY <1>1, PruneInv
<1>2. ASSUME NEW c \in LoggedCalls, NEW sender \in Senders, Arrive(c, sender)
      PROVE  LogInv'
    BY <1>2, ArriveInv
<1>3. ASSUME NEW c \in LoggedCalls,
             \/ \E text, reviewed, review, answer : Filter(c, text, reviewed, review, answer)
             \/ HandlerFails(c) \/ CallReturns(c) \/ TakeFirst(c)
      PROVE  LogInv'
    BY <1>3, HandlerInv
<1>4. ASSUME NEW c \in LoggedCalls,
             \/ SendItem(c) \/ StreamFails(c) \/ StreamEnds(c) \/ ClientLeaves(c)
             \/ SendUnlogged(c) \/ EndUnlogged(c)
      PROVE  LogInv'
    BY <1>4, StreamedInv, UnloggedInv
<1>5. CASE UNCHANGED logVars
    BY <1>5 DEF logVars, LogInv, LogType, LinesTrue, ErrorsAccounted, CallAt, CallsIn
<1> QED BY <1>1, <1>2, <1>3, <1>4, <1>5 DEF LogNext, Senders

\* Whatever way a call ends and whenever an administrator prunes the file: one
\* line of a call, which says failed if and only if the client was told of an
\* error, and no error without a line but on the routes no LoggedCall runs.
THEOREM LogTellsTrue == LogSpec => []VerdictsTrue
<1>1. LogInv => VerdictsTrue
    <2> SUFFICES ASSUME LogInv PROVE VerdictsTrue
        OBVIOUS
    <2>1. inFile \subseteq DOMAIN lines
        BY DEF LogInv, LogType
    <2>2. ASSUME NEW i \in inFile
          PROVE  (lines[i].verdict = "failed") = ToldError(lines[i].call)
        <3>1. (lines[i].verdict = "failed") = HasError(call[lines[i].call].told)
            BY <2>1 DEF LogInv, LinesTrue
        <3>2. ToldError(lines[i].call) \in BOOLEAN /\ HasError(call[lines[i].call].told) \in BOOLEAN
            BY DEF ToldError, HasError
        <3> QED BY <3>1, <3>2, ErrorTold, Zenon
    <2>3. \A c \in LoggedCalls : ToldError(c) /\ ~CallAt(c, "quiet")
              => c \in CallsIn(inFile) \union erased \union missed
        BY ErrorTold DEF LogInv, ErrorsAccounted
    <2> QED BY <2>1, <2>2, <2>3 DEF LogInv, LinesTrue, VerdictsTrue
<1> QED BY <1>1, LogInitInv, LogNextInv, PTL DEF LogSpec

-----------------------------------------------------------------------------
(* The image storage.                                                      *)

\* A storage without images is sound.
LEMMA InitInductive == StorageInit => Inductive
  BY StorageAssumption
     DEF StorageInit, Inductive, TypeOK, SavingShape, DeletionShape, SyncShape, Found, Truthful,
         NoOrphans, StaysDeleted, Modes, EntryKinds

\* The thread that saves an image.
LEMMA SaveInductive ==
    ASSUME Inductive, \E i \in Paths : SaveStep(i)
    PROVE  Inductive'
<1> USE StorageAssumption
    DEF Inductive, deletion, sync, promises, Modes, EntryKinds
<1>1. ASSUME NEW i \in Paths, Begin(i) PROVE Inductive'
  <2> USE <1>1 DEF Begin, RemoveOld, Goto
  <2>1. TypeOK'
    BY DEF TypeOK, SyncShape, DeletionShape
  <2>2. SavingShape' /\ DeletionShape' /\ SyncShape'
    BY DEF TypeOK, SavingShape, DeletionShape, SyncShape, NoOrphans, Truthful, StaysDeleted
  <2>3. (acknowledged \cap asked = {})' /\ Found'
    BY DEF TypeOK, SavingShape, DeletionShape, SyncShape, Found, Truthful, Readable
  <2>4. Truthful' /\ NoOrphans' /\ StaysDeleted'
    BY DEF TypeOK, SavingShape, DeletionShape, SyncShape, Truthful, NoOrphans, StaysDeleted
  <2>5. QED
    BY <2>1, <2>2, <2>3, <2>4
<1>2. ASSUME NEW i \in Paths, Write(i) PROVE Inductive'
  <2> USE <1>2 DEF Write, Goto
  <2>1. TypeOK'
    BY DEF TypeOK, SyncShape, DeletionShape
  <2>2. SavingShape' /\ DeletionShape' /\ SyncShape'
    BY DEF TypeOK, SavingShape, DeletionShape, SyncShape, NoOrphans, Truthful, StaysDeleted
  <2>3. (acknowledged \cap asked = {})' /\ Found'
    BY DEF TypeOK, SavingShape, DeletionShape, SyncShape, Found, Truthful, Readable
  <2>4. Truthful' /\ NoOrphans' /\ StaysDeleted'
    BY DEF TypeOK, SavingShape, DeletionShape, SyncShape, Truthful, NoOrphans, StaysDeleted
  <2>5. QED
    BY <2>1, <2>2, <2>3, <2>4
<1>3. ASSUME NEW i \in Paths, WriteFails(i) PROVE Inductive'
  <2> USE <1>3 DEF WriteFails, Goto
  <2>1. TypeOK'
    BY DEF TypeOK, SyncShape, DeletionShape
  <2>2. SavingShape' /\ DeletionShape' /\ SyncShape'
    BY DEF TypeOK, SavingShape, DeletionShape, SyncShape, NoOrphans, Truthful, StaysDeleted
  <2>3. (acknowledged \cap asked = {})' /\ Found'
    BY DEF TypeOK, SavingShape, DeletionShape, SyncShape, Found, Truthful, Readable
  <2>4. Truthful' /\ NoOrphans' /\ StaysDeleted'
    BY DEF TypeOK, SavingShape, DeletionShape, SyncShape, Truthful, NoOrphans, StaysDeleted
  <2>5. QED
    BY <2>1, <2>2, <2>3, <2>4
<1>4. ASSUME NEW i \in Paths, Upload(i) PROVE Inductive'
  <2> USE <1>4 DEF Upload, Goto
  <2>1. TypeOK'
    BY DEF TypeOK, SyncShape, DeletionShape
  <2>2. SavingShape' /\ DeletionShape' /\ SyncShape'
    BY DEF TypeOK, SavingShape, DeletionShape, SyncShape, NoOrphans, Truthful, StaysDeleted
  <2>3. (acknowledged \cap asked = {})' /\ Found'
    BY DEF TypeOK, SavingShape, DeletionShape, SyncShape, Found, Truthful, Readable
  <2>4. Truthful' /\ NoOrphans' /\ StaysDeleted'
    BY DEF TypeOK, SavingShape, DeletionShape, SyncShape, Truthful, NoOrphans, StaysDeleted
  <2>5. QED
    BY <2>1, <2>2, <2>3, <2>4
<1>5. ASSUME NEW i \in Paths, UploadFails(i) PROVE Inductive'
  <2> USE <1>5 DEF UploadFails, Goto
  <2>1. TypeOK'
    BY DEF TypeOK, SyncShape, DeletionShape
  <2>2. SavingShape' /\ DeletionShape' /\ SyncShape'
    BY DEF TypeOK, SavingShape, DeletionShape, SyncShape, NoOrphans, Truthful, StaysDeleted
  <2>3. (acknowledged \cap asked = {})' /\ Found'
    BY DEF TypeOK, SavingShape, DeletionShape, SyncShape, Found, Truthful, Readable
  <2>4. Truthful' /\ NoOrphans' /\ StaysDeleted'
    BY DEF TypeOK, SavingShape, DeletionShape, SyncShape, Truthful, NoOrphans, StaysDeleted
  <2>5. QED
    BY <2>1, <2>2, <2>3, <2>4
<1>6. ASSUME NEW i \in Paths, Index(i) PROVE Inductive'
  <2> USE <1>6 DEF Index, Goto, LockFree
  <2>1. TypeOK'
    BY DEF TypeOK, SyncShape, DeletionShape
  <2>2. SavingShape' /\ DeletionShape' /\ SyncShape'
    BY DEF TypeOK, SavingShape, DeletionShape, SyncShape, NoOrphans, Truthful, StaysDeleted
  <2>3. (acknowledged \cap asked = {})' /\ Found'
    BY DEF TypeOK, SavingShape, DeletionShape, SyncShape, Found, Truthful, Readable
  <2>4. Truthful' /\ NoOrphans' /\ StaysDeleted'
    BY DEF TypeOK, SavingShape, DeletionShape, SyncShape, Truthful, NoOrphans, StaysDeleted
  <2>5. QED
    BY <2>1, <2>2, <2>3, <2>4
<1>7. ASSUME NEW i \in Paths, IndexFails(i) PROVE Inductive'
  <2> USE <1>7 DEF IndexFails, Goto, LockFree
  <2>1. TypeOK'
    BY DEF TypeOK, SyncShape, DeletionShape
  <2>2. SavingShape' /\ DeletionShape' /\ SyncShape'
    BY DEF TypeOK, SavingShape, DeletionShape, SyncShape, NoOrphans, Truthful, StaysDeleted
  <2>3. (acknowledged \cap asked = {})' /\ Found'
    BY DEF TypeOK, SavingShape, DeletionShape, SyncShape, Found, Truthful, Readable
  <2>4. Truthful' /\ NoOrphans' /\ StaysDeleted'
    BY DEF TypeOK, SavingShape, DeletionShape, SyncShape, Truthful, NoOrphans, StaysDeleted
  <2>5. QED
    BY <2>1, <2>2, <2>3, <2>4
<1>8. QED
  BY <1>1, <1>2, <1>3, <1>4, <1>5, <1>6, <1>7 DEF SaveStep

\* A deletion: its steps know that nobody saves the image's file any more.
LEMMA DeleteInductive ==
    ASSUME Inductive, (\E i \in Paths : Unlink(i)) \/ DeleteStep
    PROVE  Inductive'
<1> USE StorageAssumption
    DEF Inductive, deletion, sync, promises, Modes, EntryKinds
<1>1. ASSUME NEW i \in Paths, Unlink(i) PROVE Inductive'
  <2> USE <1>1 DEF Unlink
  <2>1. TypeOK'
    BY DEF TypeOK, SyncShape, DeletionShape
  <2>2. SavingShape' /\ DeletionShape' /\ SyncShape'
    BY DEF TypeOK, SavingShape, DeletionShape, SyncShape, NoOrphans, Truthful, StaysDeleted
  <2>3. (acknowledged \cap asked = {})' /\ Found'
    BY DEF TypeOK, SavingShape, DeletionShape, SyncShape, Found, Truthful, Readable
  <2>4. Truthful' /\ NoOrphans' /\ StaysDeleted'
    BY DEF TypeOK, SavingShape, DeletionShape, SyncShape, Truthful, NoOrphans, StaysDeleted
  <2>5. QED
    BY <2>1, <2>2, <2>3, <2>4
<1>2. CASE ForgetCopy
  <2> USE <1>2 DEF ForgetCopy, Continue
  <2>1. TypeOK'
    BY DEF TypeOK, SyncShape, DeletionShape
  <2>2. SavingShape' /\ DeletionShape' /\ SyncShape'
    BY DEF TypeOK, SavingShape, DeletionShape, SyncShape, NoOrphans, Truthful, StaysDeleted
  <2>3. (acknowledged \cap asked = {})' /\ Found'
    BY DEF TypeOK, SavingShape, DeletionShape, SyncShape, Found, Truthful, Readable
  <2>4. Truthful' /\ NoOrphans' /\ StaysDeleted'
    BY DEF TypeOK, SavingShape, DeletionShape, SyncShape, Truthful, NoOrphans, StaysDeleted
  <2>5. QED
    BY <2>1, <2>2, <2>3, <2>4
<1>3. CASE ForgetRefused
  <2> USE <1>3 DEF ForgetRefused, Continue, NoDeletion
  <2>1. TypeOK'
    BY DEF TypeOK, SyncShape, DeletionShape
  <2>2. SavingShape' /\ DeletionShape' /\ SyncShape'
    BY DEF TypeOK, SavingShape, DeletionShape, SyncShape, NoOrphans, Truthful, StaysDeleted
  <2>3. (acknowledged \cap asked = {})' /\ Found'
    BY DEF TypeOK, SavingShape, DeletionShape, SyncShape, Found, Truthful, Readable
  <2>4. Truthful' /\ NoOrphans' /\ StaysDeleted'
    BY DEF TypeOK, SavingShape, DeletionShape, SyncShape, Truthful, NoOrphans, StaysDeleted
  <2>5. QED
    BY <2>1, <2>2, <2>3, <2>4
<1>4. CASE ForgetBroken
  <2> USE <1>4 DEF ForgetBroken, NoDeletion
  <2>1. TypeOK'
    BY DEF TypeOK, SyncShape, DeletionShape
  <2>2. SavingShape' /\ DeletionShape' /\ SyncShape'
    BY DEF TypeOK, SavingShape, DeletionShape, SyncShape, NoOrphans, Truthful, StaysDeleted
  <2>3. (acknowledged \cap asked = {})' /\ Found'
    BY DEF TypeOK, SavingShape, DeletionShape, SyncShape, Found, Truthful, Readable
  <2>4. Truthful' /\ NoOrphans' /\ StaysDeleted'
    BY DEF TypeOK, SavingShape, DeletionShape, SyncShape, Truthful, NoOrphans, StaysDeleted
  <2>5. QED
    BY <2>1, <2>2, <2>3, <2>4
<1>5. CASE Unindex
  <2> USE <1>5 DEF Unindex, NoDeletion
  <2>1. TypeOK'
    BY DEF TypeOK, SyncShape, DeletionShape
  <2>2. SavingShape' /\ DeletionShape' /\ SyncShape'
    BY DEF TypeOK, SavingShape, DeletionShape, SyncShape, NoOrphans, Truthful, StaysDeleted
  <2>3. (acknowledged \cap asked = {})' /\ Found'
    BY DEF TypeOK, SavingShape, DeletionShape, SyncShape, Found, Truthful, Readable
  <2>4. Truthful' /\ NoOrphans' /\ StaysDeleted'
    BY DEF TypeOK, SavingShape, DeletionShape, SyncShape, Truthful, NoOrphans, StaysDeleted
  <2>5. QED
    BY <2>1, <2>2, <2>3, <2>4
<1>6. CASE UnindexFails
  <2> USE <1>6 DEF UnindexFails, NoDeletion
  <2>1. TypeOK'
    BY DEF TypeOK, SyncShape, DeletionShape
  <2>2. SavingShape' /\ DeletionShape' /\ SyncShape'
    BY DEF TypeOK, SavingShape, DeletionShape, SyncShape, NoOrphans, Truthful, StaysDeleted
  <2>3. (acknowledged \cap asked = {})' /\ Found'
    BY DEF TypeOK, SavingShape, DeletionShape, SyncShape, Found, Truthful, Readable
  <2>4. Truthful' /\ NoOrphans' /\ StaysDeleted'
    BY DEF TypeOK, SavingShape, DeletionShape, SyncShape, Truthful, NoOrphans, StaysDeleted
  <2>5. QED
    BY <2>1, <2>2, <2>3, <2>4
<1>7. QED
  BY <1>1, <1>2, <1>3, <1>4, <1>5, <1>6 DEF DeleteStep

\* sync_all: the index does not change under it.
LEMMA SyncInductive ==
    ASSUME Inductive, SyncStep
    PROVE  Inductive'
<1> USE StorageAssumption
    DEF Inductive, deletion, sync, promises, Modes, EntryKinds
<1>1. CASE SyncBegin
  <2> USE <1>1 DEF SyncBegin, LockFree
  <2>1. TypeOK'
    BY DEF TypeOK, SyncShape, DeletionShape
  <2>2. SavingShape' /\ DeletionShape' /\ SyncShape'
    BY DEF TypeOK, SavingShape, DeletionShape, SyncShape, NoOrphans, Truthful, StaysDeleted
  <2>3. (acknowledged \cap asked = {})' /\ Found'
    BY DEF TypeOK, SavingShape, DeletionShape, SyncShape, Found, Truthful, Readable
  <2>4. Truthful' /\ NoOrphans' /\ StaysDeleted'
    BY DEF TypeOK, SavingShape, DeletionShape, SyncShape, Truthful, NoOrphans, StaysDeleted
  <2>5. QED
    BY <2>1, <2>2, <2>3, <2>4
<1>2. ASSUME NEW i \in Paths, SyncFile(i) PROVE Inductive'
  <2> USE <1>2 DEF SyncFile
  <2>1. TypeOK'
    BY DEF TypeOK, SyncShape, DeletionShape
  <2>2. SavingShape' /\ DeletionShape' /\ SyncShape'
    BY DEF TypeOK, SavingShape, DeletionShape, SyncShape, NoOrphans, Truthful, StaysDeleted
  <2>3. (acknowledged \cap asked = {})' /\ Found'
    BY DEF TypeOK, SavingShape, DeletionShape, SyncShape, Found, Truthful, Readable
  <2>4. Truthful' /\ NoOrphans' /\ StaysDeleted'
    BY DEF TypeOK, SavingShape, DeletionShape, SyncShape, Truthful, NoOrphans, StaysDeleted
  <2>5. QED
    BY <2>1, <2>2, <2>3, <2>4
<1>3. ASSUME NEW i \in Paths, SyncFileFails(i) PROVE Inductive'
  <2> USE <1>3 DEF SyncFileFails
  <2>1. TypeOK'
    BY DEF TypeOK, SyncShape, DeletionShape
  <2>2. SavingShape' /\ DeletionShape' /\ SyncShape'
    BY DEF TypeOK, SavingShape, DeletionShape, SyncShape, NoOrphans, Truthful, StaysDeleted
  <2>3. (acknowledged \cap asked = {})' /\ Found'
    BY DEF TypeOK, SavingShape, DeletionShape, SyncShape, Found, Truthful, Readable
  <2>4. Truthful' /\ NoOrphans' /\ StaysDeleted'
    BY DEF TypeOK, SavingShape, DeletionShape, SyncShape, Truthful, NoOrphans, StaysDeleted
  <2>5. QED
    BY <2>1, <2>2, <2>3, <2>4
<1>4. CASE SyncEnd
  <2> USE <1>4 DEF SyncEnd, SyncDone
  <2>1. TypeOK'
    BY DEF TypeOK, SyncShape, DeletionShape
  <2>2. SavingShape' /\ DeletionShape' /\ SyncShape'
    BY DEF TypeOK, SavingShape, DeletionShape, SyncShape, NoOrphans, Truthful, StaysDeleted
  <2>3. (acknowledged \cap asked = {})' /\ Found'
    BY DEF TypeOK, SavingShape, DeletionShape, SyncShape, Found, Truthful, Readable
  <2>4. Truthful' /\ NoOrphans' /\ StaysDeleted'
    BY DEF TypeOK, SavingShape, DeletionShape, SyncShape, Truthful, NoOrphans, StaysDeleted
  <2>5. QED
    BY <2>1, <2>2, <2>3, <2>4
<1>5. CASE SyncEndFails
  <2> USE <1>5 DEF SyncEndFails, SyncDone
  <2>1. TypeOK'
    BY DEF TypeOK, SyncShape, DeletionShape
  <2>2. SavingShape' /\ DeletionShape' /\ SyncShape'
    BY DEF TypeOK, SavingShape, DeletionShape, SyncShape, NoOrphans, Truthful, StaysDeleted
  <2>3. (acknowledged \cap asked = {})' /\ Found'
    BY DEF TypeOK, SavingShape, DeletionShape, SyncShape, Found, Truthful, Readable
  <2>4. Truthful' /\ NoOrphans' /\ StaysDeleted'
    BY DEF TypeOK, SavingShape, DeletionShape, SyncShape, Truthful, NoOrphans, StaysDeleted
  <2>5. QED
    BY <2>1, <2>2, <2>3, <2>4
<1>6. QED
  BY <1>1, <1>2, <1>3, <1>4, <1>5 DEF SyncStep

\* Expiry, listing, the administrator and crashes.
LEMMA OtherInductive ==
    ASSUME Inductive, (\E i \in Paths : Age(i)) \/ Cleanup \/ List \/ SetMode \/ Crash
    PROVE  Inductive'
<1> USE StorageAssumption
    DEF Inductive, deletion, sync, promises, Modes, EntryKinds
<1>1. ASSUME NEW i \in Paths, Age(i) PROVE Inductive'
  <2> USE <1>1 DEF Age
  <2>1. TypeOK'
    BY DEF TypeOK, SyncShape, DeletionShape
  <2>2. SavingShape' /\ DeletionShape' /\ SyncShape'
    BY DEF TypeOK, SavingShape, DeletionShape, SyncShape, NoOrphans, Truthful, StaysDeleted
  <2>3. (acknowledged \cap asked = {})' /\ Found'
    BY DEF TypeOK, SavingShape, DeletionShape, SyncShape, Found, Truthful, Readable
  <2>4. Truthful' /\ NoOrphans' /\ StaysDeleted'
    BY DEF TypeOK, SavingShape, DeletionShape, SyncShape, Truthful, NoOrphans, StaysDeleted
  <2>5. QED
    BY <2>1, <2>2, <2>3, <2>4
<1>2. CASE Cleanup
  <2> USE <1>2 DEF Cleanup, RemoveOld
  <2>1. TypeOK'
    BY DEF TypeOK, SyncShape, DeletionShape
  <2>2. SavingShape' /\ DeletionShape' /\ SyncShape'
    BY DEF TypeOK, SavingShape, DeletionShape, SyncShape, NoOrphans, Truthful, StaysDeleted
  <2>3. (acknowledged \cap asked = {})' /\ Found'
    BY DEF TypeOK, SavingShape, DeletionShape, SyncShape, Found, Truthful, Readable
  <2>4. Truthful' /\ NoOrphans' /\ StaysDeleted'
    BY DEF TypeOK, SavingShape, DeletionShape, SyncShape, Truthful, NoOrphans, StaysDeleted
  <2>5. QED
    BY <2>1, <2>2, <2>3, <2>4
<1>3. CASE List
  <2> USE <1>3 DEF List, Reconciled, LockFree
  <2>1. TypeOK'
    BY DEF TypeOK, SyncShape, DeletionShape
  <2>2. SavingShape' /\ DeletionShape' /\ SyncShape'
    BY DEF TypeOK, SavingShape, DeletionShape, SyncShape, NoOrphans, Truthful, StaysDeleted
  <2>3. (acknowledged \cap asked = {})' /\ Found'
    BY DEF TypeOK, SavingShape, DeletionShape, SyncShape, Found, Truthful, Readable
  <2>4. Truthful' /\ NoOrphans' /\ StaysDeleted'
    BY DEF TypeOK, SavingShape, DeletionShape, SyncShape, Truthful, NoOrphans, StaysDeleted
  <2>5. QED
    BY <2>1, <2>2, <2>3, <2>4
<1>4. CASE SetMode
  <2> USE <1>4 DEF SetMode
  <2>1. TypeOK'
    BY DEF TypeOK, SyncShape, DeletionShape
  <2>2. SavingShape' /\ DeletionShape' /\ SyncShape'
    BY DEF TypeOK, SavingShape, DeletionShape, SyncShape, NoOrphans, Truthful, StaysDeleted
  <2>3. (acknowledged \cap asked = {})' /\ Found'
    BY DEF TypeOK, SavingShape, DeletionShape, SyncShape, Found, Truthful, Readable
  <2>4. Truthful' /\ NoOrphans' /\ StaysDeleted'
    BY DEF TypeOK, SavingShape, DeletionShape, SyncShape, Truthful, NoOrphans, StaysDeleted
  <2>5. QED
    BY <2>1, <2>2, <2>3, <2>4
<1>5. CASE Crash
  <2> USE <1>5 DEF Crash, NoDeletion
  <2>1. TypeOK'
    BY DEF TypeOK, SyncShape, DeletionShape
  <2>2. SavingShape' /\ DeletionShape' /\ SyncShape'
    BY DEF TypeOK, SavingShape, DeletionShape, SyncShape, NoOrphans, Truthful, StaysDeleted
  <2>3. (acknowledged \cap asked = {})' /\ Found'
    BY DEF TypeOK, SavingShape, DeletionShape, SyncShape, Found, Truthful, Readable
  <2>4. Truthful' /\ NoOrphans' /\ StaysDeleted'
    BY DEF TypeOK, SavingShape, DeletionShape, SyncShape, Truthful, NoOrphans, StaysDeleted
  <2>5. QED
    BY <2>1, <2>2, <2>3, <2>4
<1>6. QED
  BY <1>1, <1>2, <1>3, <1>4, <1>5

LEMMA StutterInductive == Inductive /\ UNCHANGED storageVars => Inductive'
  BY DEF Inductive, TypeOK, SavingShape, DeletionShape, SyncShape, Found, Truthful,
         NoOrphans, StaysDeleted, Readable, storageVars, deletion, sync, promises

-----------------------------------------------------------------------------
\* Inductive is an invariant of the storage, whatever fails and whenever the
\* process dies.
THEOREM StorageInvariant == StorageSpec => []Inductive
<1>1. Inductive /\ [StorageNext]_storageVars => Inductive'
  BY SaveInductive, DeleteInductive, SyncInductive, OtherInductive, StutterInductive DEF StorageNext
<1>2. QED
  BY <1>1, InitInductive, PTL DEF StorageSpec

\* An image whose client got its address can be read until it is deleted or expires
\* without a copy.
THEOREM ImagesFound == StorageSpec => []Found
<1>1. Inductive => Found
  BY DEF Inductive
<1>2. QED
  BY <1>1, StorageInvariant, PTL

\* The index names no copy that is not there, unless a deletion of it was begun.
THEOREM IndexTruthful == StorageSpec => []Truthful
<1>1. Inductive => Truthful
  BY DEF Inductive
<1>2. QED
  BY <1>1, StorageInvariant, PTL

\* Every copy has an entry but for the named exceptions.
THEOREM IndexMatchesServer == StorageSpec => []NoOrphans
<1>1. Inductive => NoOrphans
  BY DEF Inductive
<1>2. QED
  BY <1>1, StorageInvariant, PTL

\* A deleted image never comes back.
THEOREM DeletionsLast == StorageSpec => []StaysDeleted
<1>1. Inductive => StaysDeleted
  BY DEF Inductive
<1>2. QED
  BY <1>1, StorageInvariant, PTL
=============================================================================
