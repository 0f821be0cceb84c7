----------------------------- MODULE CatalogBackup -----------------------------
(***************************************************************************)
(* The backup of the catalog (internal/catalog/catalog.go) beside what     *)
(* changes the catalog while it is taken and restored: uploads, deletes    *)
(* and renames, and the share links of the files (Shares).                 *)
(*                                                                         *)
(* A step is one catalog call, or one call to Discord.  UploadEngine has   *)
(* the steps of an upload in full and DriveTree those of a rename; here    *)
(* an upload creates its rows, stores its parts and publishes its record.  *)
(* What an upload does to its record at the start and at the end, and what *)
(* it finds and writes for a part it need not post, are one step each.     *)
(* One Sync runs at a time: nothing in the code sees to it, and two at     *)
(* once may leave the older list as the newest backup.                     *)
(* Discord's storage channels are a set of messages; of the metadata       *)
(* channel only the newest message matters, which Restore reads.  When it  *)
(* cannot be fetched or does not open with the key, Restore fails before   *)
(* it writes anything; which keys open it is MasterKey's.                  *)
(***************************************************************************)
EXTENDS Shares

CONSTANTS
  Paths,      (* paths, as numbers in the order of ORDER BY path             *)
  Parts,      (* the parts of every file                                     *)
  Stored,     (* files stored before, with their paths                       *)
  MaxSyncs,   (* bound: backups taken                                        *)
  Restores,   (* restores asked for                                          *)
  Deleters,   (* delete requests                                             *)
  MaxEvents   (* bound: renames, and statements that fail or stop short      *)

ASSUME BackupAssumption ==
  /\ Paths \subseteq Nat /\ Parts \subseteq Nat
  /\ DOMAIN Stored \subseteq Ids /\ Range(Stored) \subseteq Paths /\ IsInjective(Stored)
  /\ None \notin Ids \cup Links
  /\ MaxSyncs \in Nat /\ MaxEvents \in Nat

VARIABLES
  chunks,    \* table chunks: the COMPLETED and PENDING rows, by upload and part
  names,     \* the message that a row has once it is COMPLETED
  messages,  \* messages in the storage channels, named by the row they were posted for
  uploads,   \* uploads, by the id of the file they make, if they make one
  deletes,   \* delete requests
  newest,    \* the newest backup in the metadata channel
  sync,      \* local state of Sync
  taken,     \* Syncs so far
  restores,  \* local state of Restore
  events,    \* renames and failed statements so far
  promised,  \* (history) files that an acknowledged Sync owes its caller
  revived,   \* (history) part rows that a Restore wrote again after a delete, or that
             \* a failed DELETE left
  shared,    \* (history) messages that a second row was given
  spoiled    \* (history) which of the events in Spoilers have happened

stored     == <<chunks, names, messages>>
writers    == <<uploads, deletes>>
syncVars   == <<newest, sync, taken, promised>>
history    == <<revived, shared, spoiled>>
backupVars == <<stored, writers, syncVars, restores, events, history>>
vars == <<files, shareVars, backupVars>>

\* What is known to go wrong, see the README: files or rows that Sync could not
\* read; a statement of Restore that failed; a restored record that meets a row
\* with another hash, at its path or under its id; an upload that ends when its
\* row is gone or at another path, or that puts back an older hash than the row has.
Spoilers == {"unread", "dropped", "overwritten", "outlived"}

Rows == Ids \X Parts

NoUpload  == [at |-> "idle", path |-> 0, file |-> None, sha |-> None, posted |-> {}]
NoDelete  == [at |-> "idle", id |-> None, gone |-> {}]
NoBackup  == [files |-> <<>>, chunks |-> {}]
NoSync    == [at |-> "idle", files |-> <<>>, todo |-> {}, chunks |-> {}, owed |-> {}]
NoRestore == [at |-> "idle", files |-> <<>>, todo |-> {}, rows |-> {}, owed |-> {}]

Event == events < MaxEvents /\ events' = events + 1
Spoil(what) == spoiled' = spoiled \cup what
RowsOf(u) == {u} \X Parts
FileRows(id) == {k \in Rows : uploads[k[1]].file = id}
Completed(ks) == {k \in ks \cap DOMAIN chunks : chunks[k] = "COMPLETED"}
RowAt(fs, path) == {id \in DOMAIN fs : fs[id].path = path}

\* Slip: ON CONFLICT(id).
UpsertedById(fs, id, row) == [j \in DOMAIN fs \cup {id} |-> IF j = id THEN row ELSE fs[j]]

\* UpsertFile: a row at the path keeps its id and takes the rest; a new path with an
\* id that is in use is refused.
Upserted(fs, id, row) ==
  LET there == RowAt(fs, row.path)
      wrote == IF there # {} THEN there ELSE {id} \ DOMAIN fs
  IN  [j \in DOMAIN fs \cup wrote |-> IF j \in wrote THEN row ELSE fs[j]]

\* The first of a set of files in the order GetAllFiles lists them.
IsFirst(id, fs, ids) == id \in ids /\ \A j \in ids : fs[id].path <= fs[j].path

\* A first one of the part rows, file by file and part by part.
IsFirstRow(k, fs, ks) ==
  LET fileOf(j) == uploads[j[1]].file
  IN  /\ k \in ks
      /\ \A j \in ks : fs[fileOf(k)].path <= fs[fileOf(j)].path
      /\ \A j \in ks : fileOf(j) = fileOf(k) => k[2] <= j[2]

\* Among the rows ks are all of the upload whose hash the record of a file in fs
\* has, and it was an upload of that file.
InFull(fs, id, ks) ==
  \E u \in Ids : uploads[u].file = id /\ fs[id].sha = u /\ RowsOf(u) \subseteq ks

\* Files that are stored and described in full.
Settled == {id \in DOMAIN files : InFull(files, id, Completed(Rows))}

FileTable   == Table(Ids, [path : Paths, sha : Ids \cup {None}])
UploadState == [at : {"idle", "storing", "done", "failed"}, path : Paths \cup {0},
                file : Ids \cup {None}, sha : Ids \cup {None}, posted : SUBSET Parts]
DeleteState == [at : {"idle", "row", "shares", "messages", "done"}, id : Ids \cup {None}, gone : SUBSET Rows]
SyncState   == [at : {"idle", "reading"}, files : FileTable, todo : SUBSET Ids, chunks : SUBSET Rows,
                owed : SUBSET Ids]
RestoreState == [at : {"idle", "writing", "done"}, files : FileTable, todo : SUBSET Ids,
                 rows : SUBSET Rows, owed : SUBSET Ids]

\* UNIQUE(path).
OnePath == \A i, j \in DOMAIN files : files[i].path = files[j].path => i = j

\* Tables, backups and requests have the shape the code gives them, and no two
\* files have one path.
TypeOK ==
  /\ files \in FileTable /\ OnePath
  /\ chunks \in Table(Rows, {"PENDING", "COMPLETED"})
  /\ names \in [Rows -> Rows]
  /\ messages \subseteq Rows /\ revived \subseteq Rows /\ shared \subseteq Rows
  /\ uploads \in [Ids -> UploadState] /\ deletes \in [Deleters -> DeleteState]
  /\ newest \in [files : FileTable, chunks : SUBSET Rows]
  /\ sync \in SyncState /\ taken \in 0 .. MaxSyncs /\ promised \subseteq Ids
  /\ restores \in [Restores -> RestoreState]
  /\ events \in 0 .. MaxEvents
  /\ spoiled \subseteq Spoilers
  /\ SharesTypeOK

-----------------------------------------------------------------------------
(***************************************************************************)
(* What changes the catalog.                                               *)
(***************************************************************************)
\* UploadFile: a new row for the file, or the one at the path, which keeps its id
\* and its hash; and part rows.
Insert(u) ==
  /\ uploads[u].at = "idle"
  /\ \E p \in Paths, id \in Ids :
       LET sha == IF id \in DOMAIN files THEN files[id].sha ELSE None
       IN  /\ RowAt(files, p) = {id} \/ (RowAt(files, p) = {} /\ id = u)
           /\ files' = Upserted(files, id, [path |-> p, sha |-> sha])
           /\ uploads' = [uploads EXCEPT ![u] =
                [at |-> "storing", path |-> p, file |-> id, sha |-> sha, posted |-> {}]]
  /\ chunks' = [k \in DOMAIN chunks \cup RowsOf(u) |->
                  IF k \in RowsOf(u) THEN "PENDING" ELSE chunks[k]]
  /\ UNCHANGED <<shareVars, names, messages, deletes, syncVars, restores, events, history>>

\* A goroutine of runUpload posts a part, or finds a COMPLETED row with the same hash
\* and takes its message; and completes the row of the part, if it is there.
StorePart(u, i) ==
  /\ uploads[u].at = "storing" /\ i \notin uploads[u].posted
  /\ uploads' = [uploads EXCEPT ![u].posted = @ \cup {i}]
  /\ chunks' = [k \in DOMAIN chunks |-> IF k = <<u, i>> THEN "COMPLETED" ELSE chunks[k]]
  /\ \/ /\ messages' = messages \cup {<<u, i>>}
        /\ UNCHANGED <<names, shared>>
     \/ \E j \in Completed(Rows) :
          /\ names' = [names EXCEPT ![<<u, i>>] = names[j]]
          /\ shared' = shared \cup {names[j]}
          /\ UNCHANGED messages
  /\ UNCHANGED <<files, shareVars, deletes, syncVars, restores, events, revived, spoiled>>

\* The record is stored at the end of upload u, which found all its rows COMPLETED.
Record(u, sha) ==
  LET id    == uploads[u].file
      whole == RowsOf(u) = Completed(RowsOf(u))
      row   == [path |-> uploads[u].path, sha |-> sha]
      stale == \/ RowAt(files, row.path) # {id}
               \/ uploads[u].sha \notin {None, files[id].sha}
  IN
  /\ uploads[u].at = "storing" /\ uploads[u].posted = Parts
  /\ uploads' = [uploads EXCEPT ![u].at = IF whole THEN "done" ELSE "failed"]
  /\ files' = IF whole THEN Upserted(files, id, row) ELSE files
  /\ Spoil(IF whole /\ stale THEN {"outlived"} ELSE {})
  /\ UNCHANGED <<shareVars, stored, deletes, syncVars, restores, events, revived, shared>>

\* Slip: the record is stored without the hash.
PublishUnhashed(u) == Record(u, None)

\* The end of runUpload: the count of stored parts, and the record as it was at the
\* start, with the hash of the bytes if it had none.
Publish(u) == Record(u, IF uploads[u].sha = None THEN u ELSE uploads[u].sha)

\* RenameFile to a free path.
Rename(id, p) ==
  /\ Event
  /\ id \in DOMAIN files /\ RowAt(files, p) = {}
  /\ files' = [files EXCEPT ![id].path = p]
  /\ UNCHANGED <<shareVars, stored, writers, syncVars, restores, history>>

\* handleDelete: GetFile and GetAllChunksForFile, of a file that is or was there.
ReadDeleted(d) ==
  /\ deletes[d].at = "idle"
  /\ \E id \in Ids :
       /\ uploads[id].file = id
       /\ deletes' = [deletes EXCEPT ![d] =
            [at |-> "row", id |-> id, gone |-> {names[k] : k \in Completed(FileRows(id))}]]
  /\ UNCHANGED <<files, shareVars, stored, uploads, syncVars, restores, events, history>>

\* File id is owed to nobody any more.
Forgotten(id) ==
  /\ sync' = [sync EXCEPT !.owed = @ \ {id}]
  /\ promised' = promised \ {id}
  /\ restores' = [r \in Restores |-> [restores[r] EXCEPT !.owed = @ \ {id}]]

\* Slip: the part rows stay.
DeleteFileRow(d) ==
  LET id == deletes[d].id
  IN
  /\ deletes[d].at = "row"
  /\ deletes' = [deletes EXCEPT ![d].at = "shares"]
  /\ files' = Restrict(files, DOMAIN files \ {id})
  /\ Forgotten(id)
  /\ UNCHANGED <<shareVars, stored, uploads, newest, taken, events, history>>

\* DeleteFile: the file's row and its part rows under one lock. Neither is deleted
\* when the first statement fails, and only the first when the second does; handleDelete
\* goes on all the same.
DeleteFile(d) ==
  LET id   == deletes[d].id
      rows == FileRows(id) \cap DOMAIN chunks
      left == Restrict(files, DOMAIN files \ {id})
  IN
  /\ deletes[d].at = "row"
  /\ deletes' = [deletes EXCEPT ![d].at = "shares"]
  /\ Forgotten(id)
  /\ \/ /\ files' = left
        /\ chunks' = Restrict(chunks, DOMAIN chunks \ rows)
        /\ UNCHANGED <<events, revived>>
     \/ /\ Event
        /\ files' = left \/ files' = files
        /\ revived' = revived \cup rows
        /\ UNCHANGED chunks
  /\ UNCHANGED <<shareVars, names, messages, uploads, newest, taken, shared, spoiled>>

\* DeleteSharesForFile, whose error is dropped.
DeleteShares(d) ==
  /\ deletes[d].at = "shares"
  /\ deletes' = [deletes EXCEPT ![d].at = "messages"]
  /\ \/ DeleteSharesForFile(deletes[d].id) /\ UNCHANGED events
     \/ Event /\ UNCHANGED shareVars
  /\ UNCHANGED <<files, stored, uploads, syncVars, restores, history>>

\* The clean-up in the background.  (A call of it that fails leaves a message that no
\* row names, which nothing here tells apart.)
DeleteMessages(d) ==
  /\ deletes[d].at = "messages"
  /\ deletes' = [deletes EXCEPT ![d].at = "done", ![d].gone = {}]
  /\ messages' = messages \ deletes[d].gone
  /\ UNCHANGED <<files, shareVars, chunks, names, uploads, syncVars, restores, events, history>>

-----------------------------------------------------------------------------
(***************************************************************************)
(* Sync.                                                                   *)
(***************************************************************************)
\* GetAllFiles.  owed: the files that were stored and described in full by now.  A
\* list that stops short is taken for complete.
SyncList ==
  /\ sync.at = "idle" /\ taken < MaxSyncs
  /\ taken' = taken + 1
  /\ \E listed \in SUBSET DOMAIN files :
       /\ sync' = [at |-> "reading", files |-> Restrict(files, listed), todo |-> listed,
                   chunks |-> {}, owed |-> Settled]
       /\ \/ listed = DOMAIN files /\ UNCHANGED <<events, spoiled>>
          \/ /\ Event /\ Spoil({"unread"})
             /\ \E id \in DOMAIN files : listed = {j \in DOMAIN files : files[j].path < files[id].path}
  /\ UNCHANGED <<files, shareVars, stored, writers, newest, promised, restores, revived, shared>>

\* Slip: the last file of the list is left out.
SyncChunksShort ==
  /\ sync.at = "reading" /\ sync.todo # {}
  /\ \E id \in Ids :
       /\ IsFirst(id, sync.files, sync.todo)
       /\ sync' = [sync EXCEPT !.todo = @ \ {id},
                     !.chunks = IF sync.todo = {id} THEN @ ELSE @ \cup Completed(FileRows(id))]
  /\ UNCHANGED <<files, shareVars, stored, writers, newest, taken, restores, events, promised, history>>

\* GetChunksForFile: its COMPLETED rows.  A file whose rows cannot be read, or not all
\* of them, is in the backup without them.
SyncChunks ==
  /\ sync.at = "reading" /\ sync.todo # {}
  /\ \E id \in Ids :
       /\ IsFirst(id, sync.files, sync.todo)
       /\ \E read \in SUBSET Completed(FileRows(id)) :
            /\ sync' = [sync EXCEPT !.todo = @ \ {id}, !.chunks = @ \cup read]
            /\ \/ read = Completed(FileRows(id)) /\ UNCHANGED <<events, spoiled>>
               \/ Event /\ Spoil({"unread"})
  /\ UNCHANGED <<files, shareVars, stored, writers, newest, taken, restores, promised, revived, shared>>

\* The snapshot is encrypted and posted, and Sync answers with the message; or it
\* fails and promises nothing.
SyncPost ==
  /\ sync.at = "reading" /\ sync.todo = {}
  /\ sync' = NoSync
  /\ \/ /\ newest' = [files |-> sync.files, chunks |-> sync.chunks]
        /\ promised' = promised \cup sync.owed
     \/ UNCHANGED <<newest, promised>>
  /\ UNCHANGED <<files, shareVars, stored, writers, taken, restores, events, history>>

-----------------------------------------------------------------------------
(***************************************************************************)
(* Restore.                                                                *)
(***************************************************************************)
\* What a backup holds in full.
Whole(b) == {id \in DOMAIN b.files : InFull(b.files, id, b.chunks)}

\* AttachmentURL (limit=1), DownloadChunk, DecryptChunk: the newest backup.  (When one
\* of them fails, Restore has changed nothing.)
Fetch(r) ==
  /\ restores[r].at = "idle" /\ newest # NoBackup
  /\ restores' = [restores EXCEPT ![r] =
       [at |-> "writing", files |-> newest.files, todo |-> DOMAIN newest.files,
        rows |-> newest.chunks, owed |-> Whole(newest)]]
  /\ UNCHANGED <<files, shareVars, stored, writers, syncVars, events, history>>

\* UpsertFile of the next file; its error is dropped.
RestoreFile(r) ==
  /\ restores[r].at = "writing" /\ restores[r].todo # {}
  /\ \E id \in Ids :
       LET row   == restores[r].files[id]
           there == RowAt(files, row.path)
           meets == IF there # {} THEN there ELSE {id} \cap DOMAIN files
       IN
       /\ IsFirst(id, restores[r].files, restores[r].todo)
       /\ restores' = [restores EXCEPT ![r].todo = @ \ {id}]
       /\ \/ /\ files' = Upserted(files, id, row)
             /\ Spoil(IF \A j \in meets : files[j].sha = row.sha THEN {} ELSE {"overwritten"})
             /\ UNCHANGED events
          \/ /\ Event
             /\ Spoil({"dropped"})
             /\ UNCHANGED files
  /\ UNCHANGED <<shareVars, stored, writers, syncVars, revived, shared>>

\* Slip: the rows come back as PENDING.
RestoreChunkPending(r) ==
  /\ restores[r].at = "writing" /\ restores[r].todo = {} /\ restores[r].rows # {}
  /\ \E k \in Rows :
       /\ IsFirstRow(k, restores[r].files, restores[r].rows)
       /\ restores' = [restores EXCEPT ![r].rows = @ \ {k}]
       /\ chunks' = [j \in DOMAIN chunks \cup {k} |->
                      IF j \in DOMAIN chunks THEN chunks[j] ELSE "PENDING"]
       /\ revived' = revived \cup ({k} \ DOMAIN chunks)
  /\ UNCHANGED <<files, shareVars, names, messages, writers, syncVars, events, shared, spoiled>>

\* CreateJob and CreateChunk of the next part; their errors are dropped, and a row
\* that is there stays.
RestoreChunk(r) ==
  /\ restores[r].at = "writing" /\ restores[r].todo = {} /\ restores[r].rows # {}
  /\ \E k \in Rows :
       /\ IsFirstRow(k, restores[r].files, restores[r].rows)
       /\ restores' = [restores EXCEPT ![r].rows = @ \ {k}]
       /\ \/ /\ chunks' = [j \in DOMAIN chunks \cup {k} |->
                            IF j \in DOMAIN chunks THEN chunks[j] ELSE "COMPLETED"]
             /\ revived' = revived \cup ({k} \ DOMAIN chunks)
             /\ UNCHANGED <<events, spoiled>>
          \/ /\ Event
             /\ Spoil({"dropped"})
             /\ UNCHANGED <<chunks, revived>>
  /\ UNCHANGED <<files, shareVars, names, messages, writers, syncVars, shared>>

\* AddChannel of the channels (see StoragePool), and the answer.
RestoreEnd(r) ==
  /\ restores[r].at = "writing" /\ restores[r].todo = {} /\ restores[r].rows = {}
  /\ restores' = [restores EXCEPT ![r] = [NoRestore EXCEPT !.at = "done", !.owed = restores[r].owed]]
  /\ UNCHANGED <<files, shareVars, stored, writers, syncVars, events, history>>

-----------------------------------------------------------------------------
Init ==
  /\ files = [id \in DOMAIN Stored |-> [path |-> Stored[id], sha |-> id]]
  /\ messages = (DOMAIN Stored) \X Parts
  /\ chunks = [k \in messages |-> "COMPLETED"] /\ names = [k \in Rows |-> k]
  /\ uploads = [u \in Ids |-> IF u \in DOMAIN Stored
                 THEN [at |-> "done", path |-> Stored[u], file |-> u, sha |-> None, posted |-> Parts]
                 ELSE NoUpload]
  /\ newest = NoBackup
  /\ deletes = [d \in Deleters |-> NoDelete]
  /\ sync = NoSync /\ taken = 0 /\ promised = {}
  /\ restores = [r \in Restores |-> NoRestore]
  /\ events = 0 /\ revived = {} /\ shared = {} /\ spoiled = {}
  /\ ShareInit

Next ==
  \/ \E u \in Ids : \/ Insert(u) \/ Publish(u)
                    \/ \E i \in Parts : StorePart(u, i)
                    \/ \E p \in Paths : Rename(u, p)
  \/ \E d \in Deleters : \/ ReadDeleted(d) \/ DeleteFile(d)
                         \/ DeleteShares(d) \/ DeleteMessages(d)
  \/ SyncList \/ SyncChunks \/ SyncPost
  \/ \E r \in Restores : Fetch(r) \/ RestoreFile(r) \/ RestoreChunk(r) \/ RestoreEnd(r)
  \/ ShareNext /\ UNCHANGED <<files, backupVars>>

Spec == Init /\ [][Next]_vars

-----------------------------------------------------------------------------
(***************************************************************************)
(* Properties.                                                             *)
(***************************************************************************)
\* A backup that Sync acknowledged is worth something: every file that was stored in
\* full when that Sync began, and has not been deleted since, is in the newest
\* backup with its hash and all its parts, whatever went on while the tables
\* were read one after the other (catalog.go:66-79).  Not so when GetChunksForFile
\* failed (catalog.go:74, unread), or when a Restore or the end of an upload
\* wrote over a record with an older one.
BackupHoldsSettled ==
  spoiled \cap {"unread", "overwritten", "outlived"} = {} => promised \subseteq Whole(newest)

\* A Restore that answers has brought back, with its hash and parts, every file that
\* the newest backup held in full when it began and that was not deleted
\* meanwhile; unless a statement failed unnoticed (dropped), or a record was written
\* over: one at the path of another file, or the end of an upload.
RestoreBringsBack ==
  spoiled \cap {"dropped", "overwritten", "outlived"} = {} =>
    \A r \in Restores : restores[r].at = "done" => restores[r].owed \subseteq Settled

WasDeleted(id) == \E d \in Deleters : deletes[d].id = id /\ deletes[d].at # "row"

\* The hash of a published file is the hash of bytes that were uploaded as that file;
\* it has none only when the file was deleted and comes from a backup taken while it
\* was uploaded.  Of several uploads to a path it is the first one's, whatever
\* parts are stored last (uploader.go:346, 737).  A Restore breaks this when the row
\* at a path has changed since the backup: ON CONFLICT(path) puts the old hash and
\* size over the record and keeps the new id (db.go:474-483).
HashIsOwn ==
  spoiled \cap {"overwritten", "outlived"} = {} =>
    \A u \in Ids : LET id == uploads[u].file IN
      uploads[u].at = "done" /\ id \in DOMAIN files =>
        \/ \E w \in Ids : uploads[w].file = id /\ files[id].sha = w
        \/ files[id].sha = None /\ WasDeleted(id)

\* A COMPLETED row names a message that is on Discord, except for rows that a Restore
\* wrote again after their file was deleted or that a failed DELETE left (revived), and
\* for messages that were given to a second row, which go with whichever of the two
\* files is deleted first (shared; server.go:1166).
RowsReadable ==
  \A k \in Completed(Rows) \ revived : names[k] \in messages \cup shared
================================================================================
