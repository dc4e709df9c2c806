------------------------ MODULE CatPawConversation --------------------------
(***************************************************************************)
(* The conversation ids of CatPaw (services/providers/catpaw/               *)
(* conversation.py): Anthropic clients repeat the whole dialogue with every *)
(* request and name no conversation, so its id is remembered by the root of *)
(* the dialogue when it opens and by its branch, the first thing said after *)
(* the root, when it goes on.  Requests read the clock before they wait for *)
(* the lock.                                                                *)
(***************************************************************************)
EXTENDS Selections

CONSTANTS Dialogues,    \* what a request may hold: [about, messages], about being its
                        \* session, model and tools, messages of [role, text]
          BootstrapTTL, \* how long an opening is remembered
          ActiveTTL,    \* how long a branch is remembered after its last use
          MaxEntries,   \* entries of each store
          MaxNow,       \* bound of the clock
          MaxIds        \* bound of the ids made

\* __init__ raises each of its parameters to at least 1.
ASSUME ConversationAssumption ==
    BootstrapTTL \in Nat \ {0} /\ ActiveTTL \in Nat \ {0} /\ MaxEntries \in Nat \ {0}

VARIABLES now,       \* the clock
          bootstrap, \* entries by root, the least recently set first
          branches,  \* entries by branch, the least recently used first
          minted,    \* how many conversation ids were made
          promised   \* the entries that answers left, with what each branch was told

conversationVars == <<now, bootstrap, branches, minted, promised>>

\* What the messages say --------------------------------------------------------

Opening(messages) == {i \in DOMAIN messages : messages[i].role = "user"}
After(messages) ==
    {j \in DOMAIN messages : messages[j].role # "system" /\ \E i \in Opening(messages) : i < j}
FirstOf(S) == CHOOSE i \in S : \A j \in S : i <= j

SystemText(messages) == SelectSeq(messages, LAMBDA m : m.role = "system")
FirstUserText(messages) ==
    IF Opening(messages) = {} THEN "" ELSE messages[FirstOf(Opening(messages))].text

RootKey(d) == [about |-> d.about, system |-> SystemText(d.messages),
               user |-> FirstUserText(d.messages)]

HasHistory(d) == After(d.messages) # {}

Anchors(messages) == {j \in After(messages) : messages[j].text # ""}
BranchKey(d) ==
    [root   |-> RootKey(d),
     anchor |-> IF Anchors(d.messages) = {} THEN <<>>
                ELSE <<d.messages[FirstOf(Anchors(d.messages))]>>]

\* The two ordered dictionaries --------------------------------------------------

Entry(key, id, expires) == [key |-> key, id |-> id, expires |-> expires]
Entries(store) == {store[i] : i \in DOMAIN store}
Find(store, key) == {e \in Entries(store) : e.key = key}

Placed(store, entry) ==
    Append(Selected(store, {i \in DOMAIN store : store[i].key # entry.key}), entry)
Unexpired(store, t) == Selected(store, {i \in DOMAIN store : store[i].expires > t})

Limited(store) ==
    IF Len(store) > MaxEntries THEN SubSeq(store, Len(store) - MaxEntries + 1, Len(store))
    ELSE store

ConversationInit ==
    /\ now = 0
    /\ bootstrap = <<>> /\ branches = <<>>
    /\ minted = 0
    /\ promised = {}

Clock == now < MaxNow /\ now' = now + 1 /\ UNCHANGED <<bootstrap, branches, minted, promised>>

\* A dialogue opens: it gets an id of its own, and its root remembers it.  The
\* request read the time t before it had to wait for the lock.
OpenDialogue(d, t) ==
    /\ ~HasHistory(d) /\ minted < MaxIds
    /\ minted' = minted + 1
    /\ bootstrap' = Limited(Placed(Unexpired(bootstrap, t),
                                   Entry(RootKey(d), minted', t + BootstrapTTL)))
    /\ branches' = Unexpired(branches, t)
    /\ UNCHANGED <<now, promised>>

\* Mutant: a branch that is used does not live longer.
NotRenewed(entry, t) == entry

Renewed(entry, t) == Entry(entry.key, entry.id, t + ActiveTTL)

\* A dialogue goes on: in the conversation of its branch, or else of its opening,
\* or else in a new one.  The least recently used branch gives way to it.
ContinueDialogue(d, t) ==
    LET b == BranchKey(d)
        known == Find(Unexpired(branches, t), b)
        opened == Find(Unexpired(bootstrap, t), b.root)
        entry == IF known # {} THEN Renewed(CHOOSE e \in known : TRUE, t)
                 ELSE Entry(b, IF opened # {} THEN (CHOOSE e \in opened : TRUE).id ELSE minted + 1,
                            t + ActiveTTL)
        placed == Placed(Unexpired(branches, t), entry)
    IN  /\ HasHistory(d)
        /\ IF known = {} /\ opened = {}
           THEN minted < MaxIds /\ minted' = minted + 1
           ELSE UNCHANGED minted
        /\ bootstrap' = Unexpired(bootstrap, t)
        /\ branches' = Limited(placed)
        /\ promised' = {p \in {q \in promised : q.key # b} \union {Entry(b, entry.id, t + ActiveTTL)} :
                          Find(placed, p.key) = Find(branches', p.key)}
        /\ UNCHANGED now

ConversationNext ==
    Clock \/ \E d \in Dialogues, t \in 0..now : OpenDialogue(d, t) \/ ContinueDialogue(d, t)

ConversationSpec == ConversationInit /\ [][ConversationNext]_conversationVars

-----------------------------------------------------------------------------
\* A dialogue that goes on keeps its conversation: until its branch has been idle
\* for the active lifetime, or is evicted by newer ones, its next request finds
\* the id that the last one was given.  Dialogues with different roots, such as
\* those of two sessions, are never told the same id.
ConversationsKept ==
    /\ \A p \in promised :
          p.expires > now => \E e \in Entries(branches) : e.key = p.key /\ e.id = p.id
    /\ \A p, q \in promised : p.id = q.id => p.key.root = q.key.root
=============================================================================
