---------------------------- MODULE ImageStorage ----------------------------
(***************************************************************************)
(* Where generated images are kept: services/image_storage_service.py,     *)
(* with cleanup_old_images of services/config.py.                          *)
(*                                                                         *)
(* An image is a local file, a copy on a WebDAV server, or both, and an    *)
(* index file says which images there are and which of them have a copy.   *)
(* The index is read, changed and written back under one lock; files and   *)
(* copies are written and removed outside of it, or under it one after     *)
(* the other, and the process may die between any two of these steps.      *)
(*                                                                         *)
(* Images are saved by request threads and synchronised by a thread.  They *)
(* are listed and deleted on the event loop, hence one at a time.          *)
(***************************************************************************)
CONSTANTS
    Paths,          \* relative paths: second and hash make each of them new
    NoImage,
    FaultsHappen    \* files, the index or the server cannot be written

ASSUME StorageAssumption == NoImage \notin Paths /\ FaultsHappen \in BOOLEAN

VARIABLES
    mode,       \* image_storage.mode
    local,      \* images with a local file
    old,        \* images whose file is older than image_retention_days
    remote,     \* images with a copy on the server
    index,      \* the index file: image -> "absent", "local" (no copy), "webdav"
    saving,     \* image -> where the thread that saves it is
    plan,       \* image -> the mode that thread has read
    target,     \* the image being deleted
    stage,      \* where its deletion is
    cut,        \* its local file was removed (removed)
    syncing,    \* sync_all runs, and holds the lock
    todo,       \* the files it has still to look at
    newItems,   \* the index it is going to write
    acknowledged, \* history: images whose clients got an address, neither
                \* deleted nor expired without a copy
    asked,      \* history: images a deletion has begun for
    gone,       \* history: images a deletion has succeeded for
    leaked      \* history: images whose copy a fault or a stale mode has left
                \* without an entry

deletion == <<target, stage, cut>>
sync == <<syncing, todo, newItems>>
promises == <<acknowledged, asked, gone>>
storageVars == <<mode, local, old, remote, index, saving, plan, deletion, sync, promises, leaked>>

Modes == {"local", "webdav", "both"}
EntryKinds == {"absent", "local", "webdav"}

LockFree == ~syncing /\ stage # "unindex"
Goto(i, next) == saving' = [saving EXCEPT ![i] = next]

\* get_bytes, exists: the file, else the copy the index names.
Readable(i) == i \in local \/ (index[i] = "webdav" /\ i \in remote)

-----------------------------------------------------------------------------
(* save *)

\* cleanup_old_images.
RemoveOld ==
    /\ local' = local \ old
    /\ old' = {}
    /\ acknowledged' = acknowledged \ {i \in old : index[i] # "webdav"}

\* Old files are removed, the path is made up and the mode read.
Begin(i) ==
    /\ saving[i] = "new"
    /\ RemoveOld
    /\ plan' = [plan EXCEPT ![i] = mode]
    /\ Goto(i, IF mode = "webdav" THEN "upload" ELSE "write")
    /\ UNCHANGED <<mode, remote, index, deletion, sync, asked, gone, leaked>>

Write(i) ==
    /\ saving[i] = "write"
    /\ local' = local \cup {i}
    /\ Goto(i, IF plan[i] = "both" THEN "upload" ELSE "index")
    /\ UNCHANGED <<mode, old, remote, index, plan, deletion, sync, promises, leaked>>

\* The disk is full, or the empty directory of the day was removed meanwhile by
\* cleanup_old_images.
WriteFails(i) ==
    /\ FaultsHappen
    /\ saving[i] = "write"
    /\ Goto(i, "failed")
    /\ UNCHANGED <<mode, local, old, remote, index, plan, deletion, sync, promises, leaked>>

\* WebDAVClient.put.
Upload(i) ==
    /\ saving[i] = "upload"
    /\ remote' = remote \cup {i}
    /\ Goto(i, "index")
    /\ UNCHANGED <<mode, local, old, index, plan, deletion, sync, promises, leaked>>

\* put raises; the server may have stored the copy nevertheless.
UploadFails(i) ==
    /\ FaultsHappen
    /\ saving[i] = "upload"
    /\ \/ UNCHANGED <<remote, leaked>>
       \/ remote' = remote \cup {i} /\ leaked' = leaked \cup {i}
    /\ Goto(i, "failed")
    /\ UNCHANGED <<mode, local, old, index, plan, deletion, sync, promises>>

\* Mutant: the index is read and written without the lock.
IndexUnlocked(i) ==
    /\ saving[i] = "index"
    /\ index' = [index EXCEPT ![i] = IF plan[i] = "local" THEN "local" ELSE "webdav"]
    /\ leaked' = IF plan[i] = "local" /\ index[i] = "webdav" THEN leaked \cup {i} ELSE leaked
    /\ acknowledged' = IF i \in asked THEN acknowledged ELSE acknowledged \cup {i}
    /\ Goto(i, "saved")
    /\ UNCHANGED <<mode, local, old, remote, plan, deletion, sync, asked, gone>>

\* The entry is written over one that list_items or sync_all may have made of the
\* local file meanwhile, and the client gets its address.
Index(i) ==
    /\ saving[i] = "index" /\ LockFree
    /\ index' = [index EXCEPT ![i] = IF plan[i] = "local" THEN "local" ELSE "webdav"]
    /\ leaked' = IF plan[i] = "local" /\ index[i] = "webdav" THEN leaked \cup {i} ELSE leaked
    /\ acknowledged' = IF i \in asked THEN acknowledged ELSE acknowledged \cup {i}
    /\ Goto(i, "saved")
    /\ UNCHANGED <<mode, local, old, remote, plan, deletion, sync, asked, gone>>

IndexFails(i) ==
    /\ FaultsHappen
    /\ saving[i] = "index" /\ LockFree
    /\ leaked' = IF plan[i] # "local" THEN leaked \cup {i} ELSE leaked
    /\ Goto(i, "failed")
    /\ UNCHANGED <<mode, local, old, remote, index, plan, deletion, sync, promises>>

-----------------------------------------------------------------------------
(* list_items, list_images *)

Cleanup ==
    /\ RemoveOld
    /\ UNCHANGED <<mode, remote, index, saving, plan, deletion, sync, asked, gone, leaked>>

\* What list_items makes of an entry: files without one get one, entries with
\* neither file nor copy are dropped.
Reconciled(i) ==
    IF index[i] = "webdav" THEN "webdav" ELSE IF i \in local THEN "local" ELSE "absent"

List ==
    /\ stage = "idle" /\ LockFree
    /\ index' = [i \in Paths |-> Reconciled(i)]
    /\ UNCHANGED <<mode, local, old, remote, saving, plan, deletion, sync, promises, leaked>>

-----------------------------------------------------------------------------
(* delete *)

NoDeletion == target' = NoImage /\ stage' = "idle" /\ cut' = FALSE
Continue(next) == stage' = next /\ UNCHANGED <<target, cut>>

\* The file is removed, without the lock.  i is an image somebody knows of.
Unlink(i) ==
    /\ stage = "idle"
    /\ i \in local \/ index[i] # "absent" \/ saving[i] = "saved"
    /\ target' = i /\ stage' = "forget" /\ cut' = (i \in local)
    /\ local' = local \ {i}
    /\ old' = old \ {i}
    /\ asked' = asked \cup {i}
    /\ acknowledged' = acknowledged \ {i}
    /\ UNCHANGED <<mode, remote, index, saving, plan, sync, gone, leaked>>

\* Mutant: a copy is left alone when there was a file to remove.
ForgetLocally ==
    /\ stage = "forget" /\ ~syncing
    /\ remote' = IF index[target] = "webdav" /\ ~cut THEN remote \ {target} ELSE remote
    /\ Continue("unindex")
    /\ UNCHANGED <<mode, local, old, index, saving, plan, sync, promises, leaked>>

\* The lock is taken, and the copy removed if the index has one.
ForgetCopy ==
    /\ stage = "forget" /\ ~syncing
    /\ remote' = IF index[target] = "webdav" THEN remote \ {target} ELSE remote
    /\ Continue("unindex")
    /\ UNCHANGED <<mode, local, old, index, saving, plan, sync, promises, leaked>>

\* The server refuses (ImageStorageError): raised only if no file was removed.
ForgetRefused ==
    /\ FaultsHappen
    /\ stage = "forget" /\ ~syncing
    /\ index[target] = "webdav"
    /\ IF cut THEN Continue("unindex") /\ leaked' = leaked \cup {target}
              ELSE NoDeletion /\ UNCHANGED leaked
    /\ UNCHANGED <<mode, local, old, remote, index, saving, plan, sync, promises>>

\* The connection breaks: raised, whatever the server did.
ForgetBroken ==
    /\ FaultsHappen
    /\ stage = "forget" /\ ~syncing
    /\ index[target] = "webdav"
    /\ remote' \in {remote, remote \ {target}}
    /\ NoDeletion
    /\ UNCHANGED <<mode, local, old, index, saving, plan, sync, promises, leaked>>

\* The entry is removed and the lock released.
Unindex ==
    /\ stage = "unindex"
    /\ index' = [index EXCEPT ![target] = "absent"]
    /\ gone' = IF saving[target] \in {"saved", "failed"} THEN gone \cup {target} ELSE gone
    /\ NoDeletion
    /\ UNCHANGED <<mode, local, old, remote, saving, plan, sync, acknowledged, asked, leaked>>

UnindexFails ==
    /\ FaultsHappen
    /\ stage = "unindex" /\ index[target] # "absent"
    /\ NoDeletion
    /\ UNCHANGED <<mode, local, old, remote, index, saving, plan, sync, promises, leaked>>

-----------------------------------------------------------------------------
(* sync_all *)

\* Mutant: the index is read before the lock is taken.
SyncBeginUnlocked ==
    /\ ~syncing
    /\ mode # "local"
    /\ syncing' = TRUE /\ todo' = local /\ newItems' = index
    /\ UNCHANGED <<mode, local, old, remote, index, saving, plan, deletion, promises, leaked>>

SyncBegin ==
    /\ LockFree
    /\ mode # "local"
    /\ syncing' = TRUE /\ todo' = local /\ newItems' = index
    /\ UNCHANGED <<mode, local, old, remote, index, saving, plan, deletion, promises, leaked>>

\* A file that has no copy is uploaded, one that has is skipped.
SyncFile(i) ==
    /\ syncing /\ i \in todo
    /\ todo' = todo \ {i}
    /\ IF newItems[i] = "webdav" THEN UNCHANGED <<remote, newItems>>
       ELSE /\ i \in local
            /\ remote' = remote \cup {i}
            /\ newItems' = [newItems EXCEPT ![i] = "webdav"]
    /\ UNCHANGED <<mode, local, old, index, saving, plan, deletion, syncing, promises, leaked>>

\* Mutant: a file that could not be uploaded is recorded as uploaded.
SyncFileRecorded(i) ==
    /\ syncing /\ i \in todo /\ newItems[i] # "webdav"
    /\ i \notin local \/ FaultsHappen
    /\ todo' = todo \ {i}
    /\ newItems' = [newItems EXCEPT ![i] = "webdav"]
    /\ UNCHANGED <<mode, local, old, remote, index, saving, plan, deletion, syncing, promises, leaked>>

\* The file has been removed meanwhile, or put raises.
SyncFileFails(i) ==
    /\ syncing /\ i \in todo /\ newItems[i] # "webdav"
    /\ todo' = todo \ {i}
    /\ \/ (i \notin local \/ FaultsHappen) /\ UNCHANGED <<remote, leaked>>
       \/ /\ i \in local /\ FaultsHappen
          /\ remote' = remote \cup {i} /\ leaked' = leaked \cup {i}
    /\ UNCHANGED <<mode, local, old, index, saving, plan, deletion, syncing, newItems, promises>>

SyncDone == syncing' = FALSE /\ newItems' = [i \in Paths |-> "absent"] /\ UNCHANGED todo

SyncEnd ==
    /\ syncing /\ todo = {}
    /\ index' = newItems
    /\ SyncDone
    /\ UNCHANGED <<mode, local, old, remote, saving, plan, deletion, promises, leaked>>

SyncEndFails ==
    /\ FaultsHappen
    /\ syncing /\ todo = {}
    /\ leaked' = leaked \cup {i \in remote : index[i] # "webdav" /\ newItems[i] = "webdav"}
    /\ SyncDone
    /\ UNCHANGED <<mode, local, old, remote, index, saving, plan, deletion, promises>>

-----------------------------------------------------------------------------
(* The administrator, time, crashes *)

\* config.update
SetMode ==
    /\ mode' \in Modes
    /\ UNCHANGED <<local, old, remote, index, saving, plan, deletion, sync, promises, leaked>>

\* The retention period of a file, at least a day, ends.
Age(i) ==
    /\ i \in local \ old
    /\ saving[i] \in {"saved", "failed"}
    /\ old' = old \cup {i}
    /\ UNCHANGED <<mode, local, remote, index, saving, plan, deletion, sync, promises, leaked>>

\* The process dies and is started again.
Crash ==
    /\ saving' = [i \in Paths |-> IF saving[i] \in {"new", "saved"} THEN saving[i] ELSE "failed"]
    /\ leaked' = leaked \cup {i \in remote : index[i] # "webdav"}
    /\ NoDeletion
    /\ syncing' = FALSE /\ todo' = {} /\ newItems' = [i \in Paths |-> "absent"]
    /\ UNCHANGED <<mode, local, old, remote, index, plan, promises>>

-----------------------------------------------------------------------------
StorageInit ==
    /\ mode \in Modes
    /\ local = {} /\ old = {} /\ remote = {}
    /\ index = [i \in Paths |-> "absent"]
    /\ saving = [i \in Paths |-> "new"]
    /\ plan = [i \in Paths |-> "local"]
    /\ target = NoImage /\ stage = "idle" /\ cut = FALSE
    /\ syncing = FALSE /\ todo = {} /\ newItems = [i \in Paths |-> "absent"]
    /\ acknowledged = {} /\ asked = {} /\ gone = {} /\ leaked = {}

SaveStep(i) ==
    \/ Begin(i) \/ Write(i) \/ WriteFails(i) \/ Upload(i) \/ UploadFails(i)
    \/ Index(i) \/ IndexFails(i)
DeleteStep == ForgetCopy \/ ForgetRefused \/ ForgetBroken \/ Unindex \/ UnindexFails
SyncStep ==
    \/ SyncBegin \/ SyncEnd \/ SyncEndFails
    \/ \E i \in Paths : SyncFile(i) \/ SyncFileFails(i)

StorageNext ==
    \/ \E i \in Paths : SaveStep(i) \/ Unlink(i) \/ Age(i)
    \/ DeleteStep \/ SyncStep
    \/ Cleanup \/ List \/ SetMode \/ Crash

StorageSpec == StorageInit /\ [][StorageNext]_storageVars

-----------------------------------------------------------------------------
(* Properties *)

TypeOK ==
    /\ mode \in Modes
    /\ local \subseteq Paths /\ old \subseteq local /\ remote \subseteq Paths
    /\ index \in [Paths -> EntryKinds]
    /\ saving \in [Paths -> {"new", "write", "upload", "index", "saved", "failed"}]
    /\ plan \in [Paths -> Modes]
    /\ target \in Paths \cup {NoImage}
    /\ stage \in {"idle", "forget", "unindex"}
    /\ cut \in BOOLEAN /\ syncing \in BOOLEAN
    /\ todo \subseteq Paths
    /\ newItems \in [Paths -> EntryKinds]
    /\ acknowledged \subseteq Paths /\ asked \subseteq Paths
    /\ gone \subseteq Paths /\ leaked \subseteq Paths

\* An image whose client got its address can be read until it is deleted or its
\* file expires without a copy: a lister, a synchronisation, an expiry, a change
\* of mode and a crash between any two steps leave a way to it.
Found == \A i \in acknowledged : Readable(i)

\* The index names no copy that is not there, unless a deletion of the image was
\* cut short: readers do not run into the server's "not found".
Truthful == \A i \in Paths : index[i] = "webdav" => i \in remote \/ i \in asked

\* Every copy on the server has an entry, or a thread about to write it: it can be
\* listed and deleted.  The exceptions are named: a failed or interrupted write, a
\* server that refuses a deletion, and a save that overwrites the entry
\* sync_all has made of its file after the mode was changed.
NoOrphans ==
    \A i \in remote :
        \/ index[i] = "webdav" \/ i \in leaked
        \/ saving[i] = "index" /\ plan[i] # "local"
        \/ syncing /\ newItems[i] = "webdav"

\* An image deleted after its save has ended never comes back, neither as a file nor
\* in the index.
StaysDeleted == \A i \in gone : i \notin local /\ index[i] = "absent"

\* Before its file is written nobody knows of an image; a thread about to write the
\* entry has written the file and the copy, which only a deletion removes.
SavingShape ==
    \A i \in Paths :
        /\ saving[i] \in {"new", "write"} =>
             /\ i \notin local \cup remote \cup asked \cup todo
             /\ index[i] = "absent" /\ newItems[i] = "absent"
        /\ saving[i] = "write" => plan[i] # "webdav"
        /\ saving[i] = "upload" => plan[i] # "local"
        /\ saving[i] = "upload" /\ plan[i] = "both" /\ i \notin asked => i \in local
        /\ saving[i] = "index" /\ i \notin asked =>
             /\ plan[i] # "webdav" => i \in local
             /\ plan[i] # "local" => i \in remote
        /\ i \in old \cup gone => saving[i] \in {"saved", "failed"}

\* The image being deleted has no file any more and, once the lock is taken, no copy
\* that could be forgotten with its entry.
DeletionShape ==
    /\ stage = "idle" <=> target = NoImage
    /\ stage # "idle" => /\ target \in asked \ local
                      /\ saving[target] \notin {"new", "write"}
    /\ stage = "unindex" => /\ ~syncing
                         /\ \/ target \notin remote \/ target \in leaked
                            \/ saving[target] = "index" /\ plan[target] # "local"

\* What sync_all is going to write is the index, with copies it has made.
SyncShape ==
    /\ ~syncing => todo = {}
    /\ syncing => \A i \in Paths :
         /\ index[i] = "webdav" => newItems[i] = "webdav"
         /\ newItems[i] = "webdav" => i \in remote \/ i \in asked
         /\ i \in gone => i \notin todo /\ newItems[i] = "absent"

\* The inductive invariant.
Inductive ==
    /\ TypeOK /\ SavingShape /\ DeletionShape /\ SyncShape
    /\ acknowledged \cap asked = {}
    /\ Found /\ Truthful /\ NoOrphans /\ StaysDeleted
=============================================================================
