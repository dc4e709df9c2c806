------------------------------ MODULE AuthKeys ------------------------------
(***************************************************************************)
(* The user API keys of services/auth_service.py: a list in memory, written *)
(* to the account storage as a whole.  The administrator's calls reload the *)
(* list first; authenticate looks at the list in memory and at most once a  *)
(* minute per key writes it.  A storage that cannot be read counts as empty, *)
(* and so does one that a write broke off: the default backend              *)
(* (storage/json_storage.py) overwrites its file in place.                  *)
(***************************************************************************)
EXTENDS Functions

CONSTANTS Ids,      \* identifiers of keys (uuid4)
          Secrets   \* raw keys: generated by create_key or chosen by an administrator

VARIABLES keys,       \* self._items: id -> [secret, enabled]
          storedKeys, \* what the storage holds
          issued,     \* ids an administrator was given
          known,      \* secrets somebody outside the service has seen
          dropped,    \* ids an administrator asked to delete
          blinded,    \* ids wiped from the storage by a create that could not load
          torn,       \* ids lost with the file that a write broke off, not written since
          revoked     \* secrets that a successful call took out of use

authVars == <<keys, storedKeys, issued, known, dropped, blinded, torn, revoked>>

Item == [secret: Secrets, enabled: BOOLEAN]
NoKeys == [i \in {} |-> TRUE]
SecretsOf(items) == {items[i].secret : i \in DOMAIN items}
Accepts(items, s) == \E i \in DOMAIN items : items[i].enabled /\ items[i].secret = s
Without(items, i) == Restrict(items, DOMAIN items \ {i})

AuthInit ==
    /\ keys = NoKeys /\ storedKeys = NoKeys
    /\ issued = {} /\ known = {} /\ dropped = {} /\ blinded = {} /\ torn = {} /\ revoked = {}

\* _load: an exception of the storage is an empty list.
Load(ok) == IF ok THEN storedKeys ELSE NoKeys

\* _save writes the list in memory; when it raises the memory stays changed.
\* The file is then what it was, or cut off, and cannot be parsed.
Save(items, ok) ==
    /\ keys' = items
    /\ \/ ok /\ storedKeys' = items /\ torn' = torn \ DOMAIN items
       \/ ~ok /\ UNCHANGED <<storedKeys, torn>>
       \/ ~ok /\ storedKeys' = NoKeys /\ torn' = torn \union DOMAIN storedKeys

\* list_keys, and every call refused after its reload (an unknown id, a name
\* or a secret that is taken): only the list in memory is replaced.
Reload(ok) ==
    /\ keys' = Load(ok)
    /\ UNCHANGED <<storedKeys, issued, known, dropped, blinded, torn, revoked>>

\* create_key: the secret is random, so nobody has used it before.
CreateKey(i, s, loads, saves) ==
    LET items == Load(loads) IN
    /\ i \notin issued \union dropped \union DOMAIN keys \union DOMAIN storedKeys
    /\ s \notin SecretsOf(keys) \union SecretsOf(storedKeys) \union known \union revoked
    /\ Save([k \in DOMAIN items \union {i} |->
                IF k = i THEN [secret |-> s, enabled |-> TRUE] ELSE items[k]], saves)
    /\ IF saves THEN issued' = issued \union {i} /\ known' = known \union {s}
                ELSE UNCHANGED <<issued, known>>
    /\ blinded' = IF saves THEN blinded \union (DOMAIN storedKeys \ DOMAIN items) ELSE blinded
    /\ UNCHANGED <<dropped, revoked>>

\* Of a call that returns normally: the secrets it takes out of use; of any
\* call, the ones an administrator wants in use.
Verdict(before, after, saves) ==
    {s \in Secrets : \/ s \in revoked /\ ~Accepts(after, s)
                     \/ saves /\ Accepts(before, s) /\ ~Accepts(after, s)}

\* update_key: enables, disables or replaces the secret by one no other key has.
UpdateKey(i, item, loads, saves) ==
    LET items == Load(loads)
        after == [items EXCEPT ![i] = item] IN
    /\ i \in DOMAIN items
    /\ item.secret = items[i].secret \/ item.secret \notin SecretsOf(items)
    /\ Save(after, saves)
    /\ revoked' = Verdict(items, after, saves)
    /\ known' = known \union ({item.secret} \ {items[i].secret})
    /\ UNCHANGED <<issued, dropped, blinded>>

\* Mutant: the key is removed in memory only.
DeleteKeyUnsaved(i, loads, saves) ==
    LET items == Load(loads) IN
    /\ i \in DOMAIN items
    /\ keys' = Without(items, i) /\ UNCHANGED <<storedKeys, torn>>
    /\ revoked' = Verdict(items, Without(items, i), saves)
    /\ dropped' = dropped \union {i}
    /\ UNCHANGED <<issued, known, blinded>>

\* delete_key saves only when it found the key.
DeleteKey(i, loads, saves) ==
    LET items == Load(loads) IN
    /\ i \in DOMAIN items
    /\ Save(Without(items, i), saves)
    /\ revoked' = Verdict(items, Without(items, i), saves)
    /\ dropped' = dropped \union {i}
    /\ UNCHANGED <<issued, known, blinded>>

\* Mutant: the list in memory is flushed before the secret was found in it.
AuthenticateEagerly(s, flush) ==
    /\ s \in known
    /\ Save(keys, flush)
    /\ UNCHANGED <<issued, known, dropped, blinded, revoked>>

\* authenticate: a key that was not written for a minute writes the whole list
\* in memory (flush), and a failure to do so is ignored.  A generated secret is
\* only known when create_key could return it.
Authenticate(s, flush) ==
    /\ s \in known
    /\ Accepts(keys, s)
    /\ Save(keys, flush)
    /\ UNCHANGED <<issued, known, dropped, blinded, revoked>>

AuthNext ==
    \/ \E ok \in BOOLEAN : Reload(ok)
    \/ \E i \in Ids, s \in Secrets, loads, saves \in BOOLEAN : CreateKey(i, s, loads, saves)
    \/ \E i \in Ids, item \in Item, loads, saves \in BOOLEAN : UpdateKey(i, item, loads, saves)
    \/ \E i \in Ids, loads, saves \in BOOLEAN : DeleteKey(i, loads, saves)
    \/ \E s \in Secrets, flush \in BOOLEAN : Authenticate(s, flush)

AuthSpec == AuthInit /\ [][AuthNext]_authVars

-----------------------------------------------------------------------------
\* Only two storage failures lose a key: a create that could not read the keys,
\* and a write that broke off (until a list with the key is written again, from
\* memory).  Whatever failing reload or torn file left in memory, and however
\* authenticate then writes that memory back, any other issued key that nobody
\* asked to delete is stored.
KeysSurvive == issued \subseteq DOMAIN storedKeys \union dropped \union blinded \union torn

\* A secret that a successful call disabled, replaced or deleted is refused
\* from then on, restarts and failing reloads included, until an administrator
\* gives it to a key again.
RevokedStaysOut == \A s \in revoked : ~Accepts(keys, s) /\ ~Accepts(storedKeys, s)
=============================================================================
