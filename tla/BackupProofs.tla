----------------------------- MODULE BackupProofs -----------------------------
(***************************************************************************)
(* Proofs about CatalogBackup and Shares: their types, that acknowledged   *)
(* backups hold what was stored and restores bring it back, that hashes    *)
(* and rows tell the truth, and that links end with their files.           *)
(***************************************************************************)
EXTENDS CatalogBackup, TLAPS

-----------------------------------------------------------------------------
(***************************************************************************)
(* Who writes what.                                                        *)
(***************************************************************************)
FileStep ==
  \/ \E u \in Ids : Insert(u) \/ Publish(u) \/ \E p \in Paths : Rename(u, p)
  \/ \E d \in Deleters : DeleteFile(d)
  \/ \E r \in Restores : RestoreFile(r)

ChunkStep ==
  \/ \E u \in Ids : Insert(u) \/ \E i \in Parts : StorePart(u, i)
  \/ \E d \in Deleters : DeleteFile(d)
  \/ \E r \in Restores : RestoreChunk(r)

NameStep == \E u \in Ids, i \in Parts : StorePart(u, i)

MessageStep ==
  \/ \E u \in Ids, i \in Parts : StorePart(u, i)
  \/ \E d \in Deleters : DeleteMessages(d)

UploadStep ==
  \E u \in Ids : Insert(u) \/ Publish(u) \/ \E i \in Parts : StorePart(u, i)

DeleteStep ==
  \E d \in Deleters : ReadDeleted(d) \/ DeleteFile(d) \/ DeleteShares(d) \/ DeleteMessages(d)

SyncStep ==
  \/ SyncList \/ SyncChunks \/ SyncPost
  \/ \E d \in Deleters : DeleteFile(d)

RestoreStep ==
  \/ \E r \in Restores : Fetch(r) \/ RestoreFile(r) \/ RestoreChunk(r) \/ RestoreEnd(r)
  \/ \E d \in Deleters : DeleteFile(d)

ReviveStep ==
  \/ \E r \in Restores : RestoreChunk(r)
  \/ \E d \in Deleters : DeleteFile(d)

SpoilStep ==
  \/ \E u \in Ids : Publish(u)
  \/ SyncList \/ SyncChunks
  \/ \E r \in Restores : RestoreFile(r) \/ RestoreChunk(r)

ShareStep ==
  \/ ShareNext
  \/ \E d \in Deleters : DeleteShares(d)

Frame ==
  /\ files' = files \/ FileStep
  /\ chunks' = chunks \/ ChunkStep
  /\ UNCHANGED <<names, shared>> \/ NameStep
  /\ messages' = messages \/ MessageStep
  /\ uploads' = uploads \/ UploadStep
  /\ deletes' = deletes \/ DeleteStep
  /\ sync' = sync \/ SyncStep
  /\ newest' = newest \/ SyncPost
  /\ promised' = promised \/ SyncStep
  /\ taken' = taken \/ SyncList
  /\ restores' = restores \/ RestoreStep
  /\ revived' = revived \/ ReviveStep
  /\ spoiled' = spoiled \/ SpoilStep
  /\ UNCHANGED shareVars \/ ShareStep
  /\ events' = events \/ Event

\* A step changes a variable only as one of its writers.
LEMMA WhoWrites == [Next]_vars => Frame
<1>. SUFFICES ASSUME [Next]_vars PROVE Frame
  OBVIOUS
<1>1. CASE UNCHANGED vars
  BY <1>1 DEF Frame, vars, backupVars, stored, writers, syncVars, history, shareVars
<1>2. ASSUME NEW u \in Ids, Insert(u) PROVE Frame
  BY <1>2 DEF Frame, Insert, FileStep, ChunkStep, UploadStep, syncVars, history
<1>3. ASSUME NEW u \in Ids, Publish(u) PROVE Frame
  BY <1>3 DEF Frame, Publish, Record, FileStep, UploadStep, SpoilStep, stored, syncVars
<1>4. ASSUME NEW u \in Ids, NEW i \in Parts, StorePart(u, i) PROVE Frame
  BY <1>4 DEF Frame, StorePart, ChunkStep, NameStep, MessageStep, UploadStep, syncVars
<1>5. ASSUME NEW u \in Ids, NEW p \in Paths, Rename(u, p) PROVE Frame
  BY <1>5 DEF Frame, Rename, FileStep, stored, writers, syncVars, history
<1>6. ASSUME NEW d \in Deleters, ReadDeleted(d) \/ DeleteShares(d) \/ DeleteMessages(d)
      PROVE  Frame
  BY <1>6 DEF Frame, ReadDeleted, DeleteShares, DeleteMessages, DeleteStep, MessageStep,
              ShareStep, stored, syncVars, history
<1>7. ASSUME NEW d \in Deleters, DeleteFile(d) PROVE Frame
  BY <1>7 DEF Frame, DeleteFile, Forgotten, FileStep, ChunkStep, DeleteStep, SyncStep,
              RestoreStep, ReviveStep
<1>8. CASE SyncList
  BY <1>8 DEF Frame, SyncList, SyncStep, SpoilStep, stored, writers
<1>9. CASE SyncChunks
  BY <1>9 DEF Frame, SyncChunks, SyncStep, SpoilStep, stored, writers
<1>10. CASE SyncPost
  BY <1>10 DEF Frame, SyncPost, SyncStep, stored, writers, history
<1>11. ASSUME NEW r \in Restores, Fetch(r) \/ RestoreEnd(r) PROVE Frame
  BY <1>11 DEF Frame, Fetch, RestoreEnd, RestoreStep, stored, writers, syncVars, history
<1>12. ASSUME NEW r \in Restores, RestoreFile(r) PROVE Frame
  BY <1>12 DEF Frame, RestoreFile, FileStep, RestoreStep, SpoilStep, stored, writers, syncVars
<1>13. ASSUME NEW r \in Restores, RestoreChunk(r) PROVE Frame
  BY <1>13 DEF Frame, RestoreChunk, ChunkStep, RestoreStep, ReviveStep, SpoilStep, writers,
               syncVars
<1>14. CASE ShareNext /\ UNCHANGED <<files, backupVars>>
  BY <1>14 DEF Frame, ShareStep, backupVars, stored, writers, syncVars, history
<1>. QED
  BY <1>1, <1>2, <1>3, <1>4, <1>5, <1>6, <1>7, <1>8, <1>9, <1>10, <1>11, <1>12, <1>13, <1>14
     DEF Next

-----------------------------------------------------------------------------
(***************************************************************************)
(* Tables.                                                                 *)
(***************************************************************************)
\* A function is in a table when its keys and rows are.
LEMMA TableDef ==
  ASSUME NEW K, NEW V, NEW f
  PROVE  f \in Table(K, V) <=> (DOMAIN f \subseteq K /\ f \in [DOMAIN f -> V])
<1>1. ASSUME f \in Table(K, V) PROVE DOMAIN f \subseteq K /\ f \in [DOMAIN f -> V]
  <2>1. PICK d \in SUBSET K : f \in [d -> V]
    BY <1>1 DEF Table
  <2>. QED
    BY <2>1
<1>2. ASSUME DOMAIN f \subseteq K, f \in [DOMAIN f -> V] PROVE f \in Table(K, V)
  BY <1>2 DEF Table
<1>. QED
  BY <1>1, <1>2

\* The empty table.
LEMMA EmptyTable ==
  ASSUME NEW K, NEW V
  PROVE  <<>> \in Table(K, V) /\ DOMAIN <<>> = {}
<1>1. DOMAIN <<>> = {} /\ <<>> \in [{} -> V]
  OBVIOUS
<1>. QED
  BY <1>1, TableDef

\* A table after a DELETE.
LEMMA RestrictTable ==
  ASSUME NEW K, NEW V, NEW f \in Table(K, V), NEW D, D \subseteq DOMAIN f
  PROVE  /\ Restrict(f, D) \in Table(K, V)
         /\ DOMAIN Restrict(f, D) = D
         /\ \A k \in D : Restrict(f, D)[k] = f[k]
<1>1. DOMAIN f \subseteq K /\ f \in [DOMAIN f -> V]
  BY TableDef
<1>2. DOMAIN Restrict(f, D) = D /\ \A k \in D : Restrict(f, D)[k] = f[k]
  BY DEF Restrict
<1>3. Restrict(f, D) \in [D -> V]
  BY <1>1 DEF Restrict
<1>. QED
  BY <1>1, <1>2, <1>3, TableDef

\* A row of the table files.
RecordType == [path : Paths, sha : Ids \cup {None}]

\* FileTable, for the lemmas on tables.
LEMMA FileTableIs == FileTable = Table(Ids, RecordType)
BY DEF FileTable, RecordType

\* The keys and the rows of the table files.
LEMMA FileRow ==
  ASSUME NEW fs \in FileTable, NEW id \in DOMAIN fs
  PROVE  id \in Ids /\ fs[id] \in RecordType
<1>1. DOMAIN fs \subseteq Ids /\ fs \in [DOMAIN fs -> RecordType]
  BY TableDef DEF FileTable, RecordType
<1>. QED
  BY <1>1

\* The table files after a DELETE.
LEMMA RestrictFiles ==
  ASSUME NEW fs \in FileTable, NEW D, D \subseteq DOMAIN fs
  PROVE  /\ Restrict(fs, D) \in FileTable
         /\ DOMAIN Restrict(fs, D) = D
         /\ \A k \in D : Restrict(fs, D)[k] = fs[k]
BY FileTableIs, RestrictTable

\* OnePath, of any list of files.
OnePathIn(fs) == \A i, j \in DOMAIN fs : fs[i].path = fs[j].path => i = j

\* What UpsertFile leaves: a table with one row for each path, in which only the row at
\* the path, or the new one, has changed.
LEMMA UpsertedIs ==
  ASSUME NEW fs \in FileTable, OnePathIn(fs), NEW id \in Ids, NEW row \in RecordType
  PROVE  LET g == Upserted(fs, id, row)
         IN  /\ g \in FileTable /\ OnePathIn(g)
             /\ DOMAIN fs \subseteq DOMAIN g /\ DOMAIN g \subseteq DOMAIN fs \cup {id}
             /\ \A j \in DOMAIN g : \/ g[j] = row
                                    \/ j \in DOMAIN fs /\ g[j] = fs[j]
             /\ \A j \in DOMAIN fs : fs[j].path # row.path => g[j] = fs[j]
             /\ \A j \in DOMAIN fs : fs[j].path = row.path => g[j] = row
             /\ RowAt(fs, row.path) = {} /\ id \notin DOMAIN fs => id \in DOMAIN g /\ g[id] = row
             /\ RowAt(fs, row.path) # {} => DOMAIN g = DOMAIN fs
             /\ RowAt(fs, row.path) = {} /\ id \in DOMAIN fs => g = fs
<1>. DEFINE there == RowAt(fs, row.path)
            wrote == IF there # {} THEN there ELSE {id} \ DOMAIN fs
            g == [j \in DOMAIN fs \cup wrote |-> IF j \in wrote THEN row ELSE fs[j]]
<1>1. Upserted(fs, id, row) = g
  BY DEF Upserted
<1>2. DOMAIN fs \subseteq Ids /\ fs \in [DOMAIN fs -> RecordType]
  BY TableDef DEF FileTable, RecordType
<1>3. /\ wrote \subseteq DOMAIN fs \cup {id}
      /\ \A j \in DOMAIN fs : j \in wrote <=> fs[j].path = row.path
      /\ there # {} => wrote \subseteq DOMAIN fs
      /\ there = {} => wrote = {id} \ DOMAIN fs
  BY DEF RowAt
<1>4. DOMAIN g = DOMAIN fs \cup wrote
  OBVIOUS
<1>5. \A j \in DOMAIN g : g[j] = IF j \in wrote THEN row ELSE fs[j]
  OBVIOUS
<1>. HIDE DEF g
<1>6. g \in FileTable
  <2>1. DOMAIN g \subseteq Ids
    BY <1>2, <1>3, <1>4
  <2>2. \A j \in DOMAIN g : g[j] \in RecordType
    BY <1>2, <1>4, <1>5
  <2>3. g \in [DOMAIN g -> RecordType]
    BY <2>2 DEF g
  <2>. QED
    BY <2>1, <2>3, TableDef DEF FileTable, RecordType
<1>7. OnePathIn(g)
  <2>1. \A i, j \in wrote : i = j
    BY <1>3 DEF OnePathIn, RowAt
  <2>. QED
    BY <1>3, <1>4, <1>5, <2>1 DEF OnePathIn
<1>8. there = {} /\ id \in DOMAIN fs => g = fs
  <2>1. ASSUME there = {}, id \in DOMAIN fs PROVE g = fs
    <3>1. wrote = {}
      BY <1>3, <2>1
    <3>2. g = [j \in DOMAIN fs |-> fs[j]]
      BY <3>1 DEF g
    <3>. QED
      BY <1>2, <3>2
  <2>. QED
    BY <2>1
<1>. HIDE DEF there, wrote
<1>9. DOMAIN g \subseteq DOMAIN fs \cup {id}
  BY <1>3, <1>4
<1>. QED
  BY <1>1, <1>3, <1>4, <1>5, <1>6, <1>7, <1>8, <1>9 DEF there

\* The same, of a step that upserts.
LEMMA StepUpserts ==
  ASSUME files \in FileTable, OnePathIn(files), NEW id \in Ids, NEW row \in RecordType,
         files' = Upserted(files, id, row)
  PROVE  /\ files' \in FileTable /\ OnePathIn(files')
         /\ DOMAIN files \subseteq DOMAIN files' /\ DOMAIN files' \subseteq DOMAIN files \cup {id}
         /\ \A j \in DOMAIN files : files[j].path # row.path => files'[j] = files[j]
         /\ \A j \in DOMAIN files : files[j].path = row.path => files'[j] = row
         /\ RowAt(files, row.path) # {} => DOMAIN files' = DOMAIN files
         /\ RowAt(files, row.path) = {} /\ id \notin DOMAIN files
              => id \in DOMAIN files' /\ files'[id] = row
         /\ RowAt(files, row.path) = {} /\ id \in DOMAIN files => files' = files
<1>. DEFINE g == Upserted(files, id, row)
<1>1. /\ g \in FileTable /\ OnePathIn(g)
      /\ DOMAIN files \subseteq DOMAIN g /\ DOMAIN g \subseteq DOMAIN files \cup {id}
      /\ \A j \in DOMAIN files : files[j].path # row.path => g[j] = files[j]
      /\ \A j \in DOMAIN files : files[j].path = row.path => g[j] = row
      /\ RowAt(files, row.path) = {} /\ id \notin DOMAIN files => id \in DOMAIN g /\ g[id] = row
      /\ RowAt(files, row.path) # {} => DOMAIN g = DOMAIN files
      /\ RowAt(files, row.path) = {} /\ id \in DOMAIN files => g = files
  BY UpsertedIs
<1>. HIDE DEF g
<1>2. files' = g
  BY DEF g
<1>. QED
  BY <1>1, <1>2

-----------------------------------------------------------------------------
(***************************************************************************)
(* Types.                                                                  *)
(***************************************************************************)
\* The file and the path of an upload are known while it runs.
UploadShape(up) ==
  /\ up.at = "storing" => up.path \in Paths
  /\ up.at = "idle" => up.file = None
  /\ up.at # "idle" => up.file \in Ids

\* What the types of single variables leave out: what is still to be read or written is
\* in the list it comes from, and a request that has not begun holds nothing.
Shape ==
  /\ \A u \in Ids : UploadShape(uploads[u])
  /\ sync.todo \subseteq DOMAIN sync.files
  /\ sync.at = "idle" => sync.owed = {}
  /\ \A r \in Restores : /\ restores[r].todo \subseteq DOMAIN restores[r].files
                         /\ restores[r].at = "idle" => restores[r].owed = {}
  /\ \A d \in Deleters : /\ deletes[d].at = "idle" => deletes[d].id = None
                         /\ deletes[d].at # "idle" => deletes[d].id \in Ids
  /\ \A l \in Links : links[l].at # "none" => links[l].file \in Ids

Typed == TypeOK /\ Shape

\* Upload u begins at path p, for file id, which has hash sha.
Begins(u, p, id, sha) ==
  /\ RowAt(files, p) = {id} \/ (RowAt(files, p) = {} /\ id = u)
  /\ sha = IF id \in DOMAIN files THEN files[id].sha ELSE None
  /\ files' = Upserted(files, id, [path |-> p, sha |-> sha])
  /\ uploads' = [uploads EXCEPT ![u] =
       [at |-> "storing", path |-> p, file |-> id, sha |-> sha, posted |-> {}]]

\* What an upload begins with.
LEMMA InsertIs ==
  ASSUME files \in FileTable, NEW u \in Ids, Insert(u)
  PROVE  \E p \in Paths, id \in Ids, sha \in Ids \cup {None} : Begins(u, p, id, sha)
<1>1. \A id \in DOMAIN files : files[id].sha \in Ids \cup {None}
  BY FileRow DEF RecordType
<1>. QED
  BY <1>1 DEF Insert, Begins

\* The hash and the record that an upload ends with.
NewSha(u) == IF uploads[u].sha = None THEN u ELSE uploads[u].sha
NewRow(u) == [path |-> uploads[u].path, sha |-> NewSha(u)]

\* It is a record of the table files.
LEMMA NewRowType ==
  ASSUME Typed, NEW u \in Ids, uploads[u].at = "storing" \/ Publish(u)
  PROVE  /\ NewRow(u) \in RecordType /\ uploads[u].file \in Ids
         /\ NewRow(u).sha = NewSha(u) /\ NewRow(u).path = uploads[u].path
         /\ NewSha(u) \in Ids
<1>1. uploads[u] \in UploadState /\ UploadShape(uploads[u]) /\ uploads[u].at = "storing"
  BY DEF Typed, TypeOK, Shape, Publish, Record
<1>2. NewSha(u) \in Ids /\ uploads[u].path \in Paths /\ uploads[u].file \in Ids
  BY <1>1 DEF NewSha, UploadState, UploadShape
<1>. QED
  BY <1>2 DEF NewRow, RecordType

\* A step leaves the table files a table with one row for each path.
LEMMA FilesType ==
  ASSUME Typed, [Next]_vars
  PROVE  files' \in FileTable /\ OnePath'
<1>. USE DEF Typed
<1>0. files \in FileTable /\ OnePathIn(files)
  BY DEF TypeOK, OnePath, OnePathIn
<1>a. OnePath' <=> OnePathIn(files')
  BY DEF OnePath, OnePathIn
<1>1. CASE files' = files
  BY <1>0, <1>1, <1>a
<1>2. ASSUME NEW u \in Ids, Insert(u) PROVE files' \in FileTable /\ OnePathIn(files')
  <2>1. PICK p \in Paths, id \in Ids, sha \in Ids \cup {None} : Begins(u, p, id, sha)
    BY <1>0, <1>2, InsertIs
  <2>2. files' = Upserted(files, id, [path |-> p, sha |-> sha])
    BY <2>1 DEF Begins
  <2>3. [path |-> p, sha |-> sha] \in RecordType
    BY DEF RecordType
  <2>. QED
    BY <1>0, <2>2, <2>3, StepUpserts
<1>3. ASSUME NEW u \in Ids, Publish(u) PROVE files' \in FileTable /\ OnePathIn(files')
  <2>1. NewRow(u) \in RecordType /\ uploads[u].file \in Ids
    BY <1>3, NewRowType
  <2>2. files' = files \/ files' = Upserted(files, uploads[u].file, NewRow(u))
    BY <1>3 DEF Publish, Record, NewRow, NewSha
  <2>. QED
    BY <1>0, <2>1, <2>2, StepUpserts
<1>4. ASSUME NEW u \in Ids, NEW p \in Paths, Rename(u, p)
      PROVE  files' \in FileTable /\ OnePathIn(files')
  <2>1. DOMAIN files \subseteq Ids /\ files \in [DOMAIN files -> RecordType]
    BY <1>0, TableDef DEF FileTable, RecordType
  <2>2. /\ DOMAIN files' = DOMAIN files /\ files' \in [DOMAIN files -> RecordType]
        /\ \A j \in DOMAIN files : files'[j].path = IF j = u THEN p ELSE files[j].path
    BY <1>4, <2>1 DEF Rename, RecordType
  <2>3. \A j \in DOMAIN files : files[j].path # p
    BY <1>4 DEF Rename, RowAt
  <2>4. OnePathIn(files')
    BY <1>0, <2>2, <2>3 DEF OnePathIn
  <2>. QED
    BY <2>1, <2>2, <2>4, TableDef DEF FileTable, RecordType
<1>5. ASSUME NEW d \in Deleters, DeleteFile(d) PROVE files' \in FileTable /\ OnePathIn(files')
  <2>1. PICK D \in SUBSET DOMAIN files : files' = files \/ files' = Restrict(files, D)
    BY <1>5 DEF DeleteFile
  <2>2. CASE files' = files
    BY <1>0, <2>2
  <2>3. CASE files' = Restrict(files, D)
    <3>1. files' \in FileTable /\ DOMAIN files' = D /\ \A j \in D : files'[j] = files[j]
      BY <1>0, <2>3, RestrictFiles
    <3>. QED
      BY <1>0, <3>1 DEF OnePathIn
  <2>. QED
    BY <2>1, <2>2, <2>3
<1>6. ASSUME NEW r \in Restores, RestoreFile(r)
      PROVE  files' \in FileTable /\ OnePathIn(files')
  <2>1. PICK id \in Ids :
          /\ IsFirst(id, restores[r].files, restores[r].todo)
          /\ files' = files \/ files' = Upserted(files, id, restores[r].files[id])
    BY <1>6 DEF RestoreFile
  <2>2. restores[r].files \in FileTable /\ id \in DOMAIN restores[r].files
    BY <2>1 DEF IsFirst, Shape, TypeOK, RestoreState
  <2>3. restores[r].files[id] \in RecordType
    BY <2>2, FileRow
  <2>. QED
    BY <1>0, <2>1, <2>3, StepUpserts
<1>. QED
  BY <1>1, <1>2, <1>3, <1>4, <1>5, <1>6, <1>a, WhoWrites DEF Frame, FileStep

\* A step leaves the table chunks a table of PENDING and COMPLETED rows.
LEMMA ChunksType ==
  ASSUME Typed, [Next]_vars
  PROVE  chunks' \in Table(Rows, {"PENDING", "COMPLETED"})
<1>. USE DEF Typed
<1>. DEFINE Status == {"PENDING", "COMPLETED"}
<1>0. /\ chunks \in Table(Rows, Status)
      /\ DOMAIN chunks \subseteq Rows /\ chunks \in [DOMAIN chunks -> Status]
  BY TableDef DEF TypeOK
<1>1. ASSUME NEW u \in Ids, Insert(u) PROVE chunks' \in Table(Rows, Status)
  <2>1. /\ DOMAIN chunks' = DOMAIN chunks \cup RowsOf(u)
        /\ chunks' \in [DOMAIN chunks' -> Status]
    BY <1>0, <1>1 DEF Insert
  <2>. QED
    BY <1>0, <2>1, TableDef DEF RowsOf, Rows
<1>2. ASSUME NEW u \in Ids, NEW i \in Parts, StorePart(u, i)
      PROVE  chunks' \in Table(Rows, Status)
  <2>1. DOMAIN chunks' = DOMAIN chunks /\ chunks' \in [DOMAIN chunks' -> Status]
    BY <1>0, <1>2 DEF StorePart
  <2>. QED
    BY <1>0, <2>1, TableDef
<1>3. ASSUME NEW d \in Deleters, DeleteFile(d) PROVE chunks' \in Table(Rows, Status)
  <2>1. PICK D \in SUBSET DOMAIN chunks : chunks' = chunks \/ chunks' = Restrict(chunks, D)
    BY <1>3 DEF DeleteFile
  <2>. QED
    BY <1>0, <2>1, RestrictTable
<1>4. ASSUME NEW r \in Restores, RestoreChunk(r) PROVE chunks' \in Table(Rows, Status)
  <2>1. PICK k \in Rows :
          \/ chunks' = chunks
          \/ chunks' = [j \in DOMAIN chunks \cup {k} |->
                          IF j \in DOMAIN chunks THEN chunks[j] ELSE "COMPLETED"]
    BY <1>4 DEF RestoreChunk
  <2>2. CASE chunks' = chunks
    BY <1>0, <2>2
  <2>3. CASE chunks' # chunks
    <3>1. DOMAIN chunks' = DOMAIN chunks \cup {k} /\ chunks' \in [DOMAIN chunks' -> Status]
      BY <1>0, <2>1, <2>3
    <3>. QED
      BY <1>0, <3>1, TableDef
  <2>. QED
    BY <2>2, <2>3
<1>. QED
  BY <1>0, <1>1, <1>2, <1>3, <1>4, WhoWrites DEF Frame, ChunkStep

\* An upload keeps its path and its file.
LEMMA UploadsType ==
  ASSUME Typed, [Next]_vars
  PROVE  /\ uploads' \in [Ids -> UploadState]
         /\ \A u \in Ids : UploadShape(uploads'[u])
<1>. USE DEF Typed, TypeOK
<1>. DEFINE Good == UploadState \cap {up \in UploadState : UploadShape(up)}
<1>0. uploads \in [Ids -> Good]
  BY DEF Shape
<1>1. ASSUME NEW u \in Ids, Insert(u) PROVE uploads' \in [Ids -> Good]
  <2>a. PICK p \in Paths, id \in Ids, sha \in Ids \cup {None} : Begins(u, p, id, sha)
    BY <1>1, InsertIs
  <2>1. uploads' = [uploads EXCEPT ![u] =
          [at |-> "storing", path |-> p, file |-> id, sha |-> sha, posted |-> {}]]
    BY <2>a DEF Begins
  <2>2. [at |-> "storing", path |-> p, file |-> id, sha |-> sha, posted |-> {}] \in Good
    BY DEF UploadState, UploadShape
  <2>. HIDE DEF Good
  <2>. QED
    BY <1>0, <2>1, <2>2
<1>2. ASSUME NEW u \in Ids, NEW i \in Parts, StorePart(u, i) PROVE uploads' \in [Ids -> Good]
  <2>1. /\ uploads' = [uploads EXCEPT ![u].posted = @ \cup {i}] /\ uploads[u] \in Good
        /\ uploads[u].at = "storing"
    BY <1>0, <1>2 DEF StorePart
  <2>2. [uploads[u] EXCEPT !.posted = @ \cup {i}] \in Good
    BY <2>1 DEF UploadState, UploadShape
  <2>. HIDE DEF Good
  <2>. QED
    BY <1>0, <2>1, <2>2
<1>3. ASSUME NEW u \in Ids, Publish(u) PROVE uploads' \in [Ids -> Good]
  <2>1. PICK at \in {"done", "failed"} : uploads' = [uploads EXCEPT ![u].at = at]
    BY <1>3 DEF Publish, Record
  <2>2. uploads[u] \in Good /\ uploads[u].at = "storing"
    BY <1>0, <1>3 DEF Publish, Record
  <2>3. [uploads[u] EXCEPT !.at = at] \in Good
    BY <2>2 DEF UploadState, UploadShape
  <2>. HIDE DEF Good
  <2>. QED
    BY <1>0, <2>1, <2>3
<1>4. uploads' \in [Ids -> Good]
  <2>. HIDE DEF Good
  <2>. QED
    BY <1>0, <1>1, <1>2, <1>3, WhoWrites DEF Frame, UploadStep
<1>. QED
  BY <1>4

\* A delete keeps its id.
LEMMA DeletesType ==
  ASSUME Typed, [Next]_vars
  PROVE  /\ deletes' \in [Deleters -> DeleteState]
         /\ \A d \in Deleters : /\ deletes'[d].at = "idle" => deletes'[d].id = None
                                /\ deletes'[d].at # "idle" => deletes'[d].id \in Ids
<1>. USE DEF Typed, TypeOK, DeleteState
<1>. DEFINE Good(ds) ==
       /\ ds \in [Deleters -> DeleteState]
       /\ \A d \in Deleters : /\ ds[d].at = "idle" => ds[d].id = None
                              /\ ds[d].at # "idle" => ds[d].id \in Ids
<1>0. Good(deletes)
  BY DEF Shape
<1>1. ASSUME NEW d \in Deleters, ReadDeleted(d) PROVE Good(deletes')
  <2>. DEFINE Gone(id) == {names[k] : k \in Completed(FileRows(id))}
  <2>1. PICK id \in Ids : deletes' =
          [deletes EXCEPT ![d] = [at |-> "row", id |-> id, gone |-> Gone(id)]]
    BY <1>1 DEF ReadDeleted
  <2>2. Gone(id) \subseteq Rows
    BY DEF Completed, FileRows
  <2>. HIDE DEF Gone
  <2>. QED
    BY <1>0, <2>1, <2>2
<1>2. ASSUME NEW d \in Deleters, DeleteFile(d) \/ DeleteShares(d) PROVE Good(deletes')
  <2>1. PICK at \in {"shares", "messages"} :
          deletes[d].at # "idle" /\ deletes' = [deletes EXCEPT ![d].at = at]
    BY <1>2 DEF DeleteFile, DeleteShares
  <2>. QED
    BY <1>0, <2>1
<1>3. ASSUME NEW d \in Deleters, DeleteMessages(d) PROVE Good(deletes')
  BY <1>0, <1>3 DEF DeleteMessages
<1>. QED
  BY <1>0, <1>1, <1>2, <1>3, WhoWrites DEF Frame, DeleteStep

\* A Sync reads the rows of files that are in its list.
LEMMA SyncType ==
  ASSUME Typed, [Next]_vars
  PROVE  /\ sync' \in SyncState
         /\ sync'.todo \subseteq DOMAIN sync'.files
         /\ sync'.at = "idle" => sync'.owed = {}
<1>. DEFINE Good(sy) ==
       /\ sy \in SyncState
       /\ sy.todo \subseteq DOMAIN sy.files
       /\ sy.at = "idle" => sy.owed = {}
<1>0. Good(sync)
  BY DEF Typed, TypeOK, Shape
<1>1. ASSUME SyncList PROVE Good(sync')
  <2>1. PICK listed \in SUBSET DOMAIN files :
          sync' = [at |-> "reading", files |-> Restrict(files, listed), todo |-> listed,
                   chunks |-> {}, owed |-> Settled]
    BY <1>1 DEF SyncList
  <2>2. files \in FileTable /\ DOMAIN files \subseteq Ids /\ Settled \subseteq Ids
    BY FileRow DEF Settled, Typed, TypeOK
  <2>3. Restrict(files, listed) \in FileTable /\ DOMAIN Restrict(files, listed) = listed
    BY <2>2, RestrictFiles
  <2>. QED
    BY <2>1, <2>2, <2>3 DEF SyncState
<1>2. ASSUME SyncChunks PROVE Good(sync')
  <2>1. PICK id \in Ids, c \in SUBSET Rows :
          sync' = [sync EXCEPT !.todo = @ \ {id}, !.chunks = @ \cup c]
    BY <1>2 DEF SyncChunks, Completed, FileRows
  <2>. QED
    BY <1>0, <2>1 DEF SyncState
<1>3. ASSUME SyncPost PROVE Good(sync')
  <2>1. sync' = NoSync
    BY <1>3 DEF SyncPost
  <2>2. <<>> \in FileTable /\ DOMAIN <<>> = {}
    BY EmptyTable DEF FileTable
  <2>. QED
    BY <2>1, <2>2 DEF SyncState, NoSync
<1>4. ASSUME NEW d \in Deleters, DeleteFile(d) PROVE Good(sync')
  BY <1>0, <1>4 DEF DeleteFile, Forgotten, SyncState
<1>5. ASSUME sync' = sync PROVE Good(sync')
  BY <1>0, <1>5
<1>. HIDE DEF Good
<1>6. Good(sync')
  BY <1>1, <1>2, <1>3, <1>4, <1>5, WhoWrites DEF Frame, SyncStep
<1>. QED
  BY <1>6 DEF Good

\* A backup is a list of files and a set of rows.
LEMMA BackupType ==
  ASSUME Typed, [Next]_vars
  PROVE  /\ newest' \in [files : FileTable, chunks : SUBSET Rows]
         /\ promised' \subseteq Ids
         /\ taken' \in 0 .. MaxSyncs
<1>. USE DEF Typed, TypeOK
<1>1. newest' \in [files : FileTable, chunks : SUBSET Rows]
  <2>1. newest' = newest \/ newest' = [files |-> sync.files, chunks |-> sync.chunks]
    BY WhoWrites DEF Frame, SyncPost
  <2>2. sync.files \in FileTable /\ sync.chunks \subseteq Rows
    BY DEF SyncState
  <2>. QED
    BY <2>1, <2>2
<1>2. promised' \subseteq Ids
  <2>1. promised' = promised \/ promised' = promised \cup sync.owed \/ promised' \subseteq promised
    BY WhoWrites DEF Frame, SyncStep, SyncList, SyncChunks, SyncPost, DeleteFile, Forgotten
  <2>2. sync.owed \subseteq Ids
    BY DEF SyncState
  <2>. QED
    BY <2>1, <2>2
<1>3. taken' \in 0 .. MaxSyncs
  BY BackupAssumption, WhoWrites DEF Frame, SyncList
<1>. QED
  BY <1>1, <1>2, <1>3

\* A Restore writes files that are in its list.
LEMMA RestoresType ==
  ASSUME Typed, [Next]_vars
  PROVE  /\ restores' \in [Restores -> RestoreState]
         /\ \A r \in Restores : /\ restores'[r].todo \subseteq DOMAIN restores'[r].files
                                /\ restores'[r].at = "idle" => restores'[r].owed = {}
<1>. USE DEF Typed, TypeOK
<1>. DEFINE Good(rs) ==
       /\ rs \in [Restores -> RestoreState]
       /\ \A r \in Restores : /\ rs[r].todo \subseteq DOMAIN rs[r].files
                              /\ rs[r].at = "idle" => rs[r].owed = {}
<1>0. Good(restores)
  BY DEF Shape
<1>1. ASSUME NEW r \in Restores, Fetch(r) PROVE Good(restores')
  <2>1. restores' = [restores EXCEPT ![r] =
               [at |-> "writing", files |-> newest.files, todo |-> DOMAIN newest.files,
                rows |-> newest.chunks, owed |-> Whole(newest)]]
    BY <1>1 DEF Fetch
  <2>2. newest.files \in FileTable /\ newest.chunks \subseteq Rows
    OBVIOUS
  <2>3. DOMAIN newest.files \subseteq Ids /\ Whole(newest) \subseteq Ids
    BY <2>2, FileRow DEF Whole
  <2>. QED
    BY <1>0, <2>1, <2>2, <2>3 DEF RestoreState
<1>2. ASSUME NEW r \in Restores, RestoreFile(r) \/ RestoreChunk(r) PROVE Good(restores')
  <2>1. \/ \E id \in Ids : restores' = [restores EXCEPT ![r].todo = @ \ {id}]
        \/ \E k \in Rows : restores' = [restores EXCEPT ![r].rows = @ \ {k}]
    BY <1>2 DEF RestoreFile, RestoreChunk
  <2>. QED
    BY <1>0, <2>1 DEF RestoreState
<1>3. ASSUME NEW r \in Restores, RestoreEnd(r) PROVE Good(restores')
  <2>1. <<>> \in FileTable
    BY EmptyTable DEF FileTable
  <2>. QED
    BY <1>0, <1>3, <2>1 DEF RestoreEnd, RestoreState, NoRestore
<1>4. ASSUME NEW d \in Deleters, DeleteFile(d) PROVE Good(restores')
  <2>1. restores' = [r \in Restores |-> [restores[r] EXCEPT !.owed = @ \ {deletes[d].id}]]
    BY <1>4 DEF DeleteFile, Forgotten
  <2>2. \A id : \A r \in Restores : [restores[r] EXCEPT !.owed = @ \ {id}] \in RestoreState
    BY <1>0 DEF RestoreState
  <2>3. ASSUME NEW r \in Restores
        PROVE  /\ restores'[r] \in RestoreState /\ restores'[r].at = restores[r].at
               /\ restores'[r].todo = restores[r].todo /\ restores'[r].files = restores[r].files
               /\ restores'[r].owed \subseteq restores[r].owed
    BY <1>0, <2>1, <2>2 DEF RestoreState
  <2>. QED
    BY <1>0, <2>1, <2>3
<1>. QED
  BY <1>0, <1>1, <1>2, <1>3, <1>4, WhoWrites DEF Frame, RestoreStep

\* Links and visits name files.
LEMMA SharesType ==
  ASSUME Typed, [Next]_vars
  PROVE  /\ SharesTypeOK'
         /\ \A l \in Links : links'[l].at # "none" => links'[l].file \in Ids
<1>. USE DEF Typed, TypeOK
<1>. DEFINE Linked == \A l \in Links : links[l].at # "none" => links[l].file \in Ids
<1>0. /\ shares \in Table(Links, Ids) /\ Linked
      /\ DOMAIN shares \subseteq Links /\ shares \in [DOMAIN shares -> Ids]
  BY TableDef DEF SharesTypeOK, Shape
<1>1. CASE UNCHANGED shareVars
  BY <1>0, <1>1 DEF SharesTypeOK, shareVars
<1>2. ASSUME NEW d \in Deleters, DeleteShares(d) PROVE SharesTypeOK' /\ Linked'
  <2>. DEFINE ls == LinksOf(deletes[d].id)
  <2>0. CASE UNCHANGED shareVars
    BY <1>0, <2>0 DEF SharesTypeOK, shareVars
  <2>1. CASE DeleteSharesForFile(deletes[d].id)
    <3>1. /\ shares' = Restrict(shares, DOMAIN shares \ ls) /\ ls \subseteq Links
          /\ late' = late \ ls /\ ended' = ended \cup ls /\ UNCHANGED <<links, visits>>
      BY <1>0, <2>1 DEF DeleteSharesForFile, RemoveLinks, LinksOf
    <3>. HIDE DEF ls
    <3>2. shares' \in Table(Links, Ids)
      BY <1>0, <3>1, RestrictTable
    <3>. QED
      BY <1>0, <3>1, <3>2 DEF SharesTypeOK
  <2>. QED
    BY <1>2, <2>0, <2>1 DEF DeleteShares
<1>3. ASSUME NEW l \in Links, FindShared(l) PROVE SharesTypeOK' /\ Linked'
  <2>1. PICK id \in DOMAIN files :
          links' = [links EXCEPT ![l] = [at |-> "found", file |-> id]]
    BY <1>3 DEF FindShared
  <2>2. id \in Ids
    BY FileRow
  <2>. QED
    BY <1>0, <1>3, <2>1, <2>2 DEF FindShared, SharesTypeOK
<1>4. ASSUME NEW l \in Links, CreateShare(l) PROVE SharesTypeOK' /\ Linked'
  <2>1. links[l].file \in Ids
    BY <1>0, <1>4 DEF CreateShare
  <2>2. /\ DOMAIN shares' = DOMAIN shares \cup {l}
        /\ shares' \in [DOMAIN shares' -> Ids]
    BY <1>0, <1>4, <2>1 DEF CreateShare
  <2>3. shares' \in Table(Links, Ids)
    BY <1>0, <2>2, TableDef
  <2>. QED
    BY <1>0, <1>4, <2>3 DEF CreateShare, SharesTypeOK
<1>5. ASSUME NEW l \in Links, Expire(l) PROVE SharesTypeOK' /\ Linked'
  BY <1>0, <1>5 DEF Expire, SharesTypeOK
<1>6. ASSUME NEW l \in Links, Revoke(l) PROVE SharesTypeOK' /\ Linked'
  BY <1>0, <1>6, RestrictTable DEF Revoke, SharesTypeOK, RemoveLinks
<1>7. ASSUME NEW v \in Visitors, NEW l \in Links, Visit(v, l) PROVE SharesTypeOK' /\ Linked'
  <2>1. shares' = shares \/ \E D \in SUBSET DOMAIN shares : shares' = Restrict(shares, D)
    BY <1>7 DEF Visit, RemoveLinks
  <2>2. shares' \in Table(Links, Ids)
    BY <1>0, <2>1, RestrictTable
  <2>3. visits' \in [Visitors -> [at : {"idle", "found"}, file : Ids \cup {None}, over : BOOLEAN]]
    <3>1. l \in DOMAIN shares => shares[l] \in Ids
      BY <1>0
    <3>2. PICK b \in BOOLEAN :
            \/ visits' = [visits EXCEPT ![v] = NoVisit]
            \/ /\ l \in DOMAIN shares
               /\ visits' = [visits EXCEPT ![v] =
                     [at |-> "found", file |-> shares[l], over |-> b]]
      <4>. DEFINE b == l \in ended \cup late
      <4>1. b \in BOOLEAN
        OBVIOUS
      <4>2. \/ visits' = [visits EXCEPT ![v] = NoVisit]
            \/ /\ l \in DOMAIN shares
               /\ visits' = [visits EXCEPT ![v] =
                     [at |-> "found", file |-> shares[l], over |-> b]]
        BY <1>7 DEF Visit, Found
      <4>. HIDE DEF b
      <4>. QED
        BY <4>1, <4>2
    <3>. DEFINE Visits == [at : {"idle", "found"}, file : Ids \cup {None}, over : BOOLEAN]
    <3>3. visits \in [Visitors -> Visits] /\ NoVisit \in Visits
      BY DEF SharesTypeOK, NoVisit
    <3>4. l \in DOMAIN shares => [at |-> "found", file |-> shares[l], over |-> b] \in Visits
      BY <3>1
    <3>. HIDE DEF Visits
    <3>5. visits' \in [Visitors -> Visits]
      BY <3>2, <3>3, <3>4
    <3>. QED
      BY <3>5 DEF Visits
  <2>. QED
    BY <1>0, <1>7, <2>2, <2>3 DEF Visit, RemoveLinks, SharesTypeOK
<1>8. ASSUME NEW v \in Visitors, Serve(v) PROVE SharesTypeOK' /\ Linked'
  BY <1>0, <1>8 DEF Serve, SharesTypeOK, NoVisit
<1>. QED
  BY <1>1, <1>2, <1>3, <1>4, <1>5, <1>6, <1>7, <1>8, WhoWrites DEF Frame, ShareStep, ShareNext

\* The other variables.
LEMMA OthersType ==
  ASSUME Typed, [Next]_vars
  PROVE  /\ names' \in [Rows -> Rows] /\ shared' \subseteq Rows
         /\ messages' \subseteq Rows /\ revived' \subseteq Rows
         /\ events' \in 0 .. MaxEvents /\ spoiled' \subseteq Spoilers
<1>. USE DEF Typed, TypeOK
<1>1. messages' \subseteq Rows
  <2>1. ASSUME NEW u \in Ids, NEW i \in Parts, StorePart(u, i) PROVE messages' \subseteq Rows
    BY <2>1 DEF StorePart, Rows
  <2>2. ASSUME NEW d \in Deleters, DeleteMessages(d) PROVE messages' \subseteq Rows
    BY <2>2 DEF DeleteMessages
  <2>. QED
    BY <2>1, <2>2, WhoWrites DEF Frame, MessageStep
<1>2. revived' \subseteq Rows
  <2>1. ASSUME NEW r \in Restores, RestoreChunk(r) PROVE revived' \subseteq Rows
    BY <2>1 DEF RestoreChunk
  <2>2. ASSUME NEW d \in Deleters, DeleteFile(d) PROVE revived' \subseteq Rows
    BY <2>2 DEF DeleteFile, FileRows
  <2>. QED
    BY <2>1, <2>2, WhoWrites DEF Frame, ReviveStep
<1>3. events' \in 0 .. MaxEvents
  BY BackupAssumption, WhoWrites DEF Frame, Event
<1>4. spoiled' \subseteq Spoilers
  <2>1. ASSUME NEW u \in Ids, Publish(u) PROVE spoiled' \subseteq Spoilers
    BY <2>1 DEF Publish, Record, Spoil, Spoilers
  <2>2. ASSUME SyncList \/ SyncChunks PROVE spoiled' \subseteq Spoilers
    BY <2>2 DEF SyncList, SyncChunks, Spoil, Spoilers
  <2>3. ASSUME NEW r \in Restores, RestoreFile(r) \/ RestoreChunk(r) PROVE spoiled' \subseteq Spoilers
    BY <2>3 DEF RestoreFile, RestoreChunk, Spoil, Spoilers
  <2>. QED
    BY <2>1, <2>2, <2>3, WhoWrites DEF Frame, SpoilStep
<1>5. names' \in [Rows -> Rows] /\ shared' \subseteq Rows
  <2>1. ASSUME NEW u \in Ids, NEW i \in Parts, StorePart(u, i)
        PROVE  names' \in [Rows -> Rows] /\ shared' \subseteq Rows
    BY <2>1 DEF StorePart, Completed
  <2>. QED
    BY <2>1, WhoWrites DEF Frame, NameStep
<1>. QED
  BY <1>1, <1>2, <1>3, <1>4, <1>5

\* Every step keeps the types.
LEMMA TypedStep == Typed /\ [Next]_vars => Typed'
<1>. SUFFICES ASSUME Typed, [Next]_vars PROVE TypeOK' /\ Shape'
  BY DEF Typed
<1>1. TypeOK'
  BY FilesType, ChunksType, UploadsType, DeletesType, SyncType, BackupType, RestoresType,
     SharesType, OthersType DEF TypeOK
<1>2. Shape'
  BY UploadsType, DeletesType, SyncType, RestoresType, SharesType DEF Shape, UploadShape
<1>. QED
  BY <1>1, <1>2

\* The initial states are typed.
LEMMA TypedInit == Init => Typed
<1>. SUFFICES ASSUME Init PROVE Typed
  OBVIOUS
<1>. USE BackupAssumption DEF Init
<1>0. <<>> \in FileTable /\ <<>> \in Table(Links, Ids) /\ DOMAIN <<>> = {}
  BY EmptyTable DEF FileTable
<1>1. /\ DOMAIN files = DOMAIN Stored
      /\ \A id \in DOMAIN Stored : files[id] = [path |-> Stored[id], sha |-> id]
  OBVIOUS
<1>2. \A id \in DOMAIN Stored : Stored[id] \in Paths
  BY DEF Range
<1>3. files \in FileTable /\ OnePath
  <2>1. \A id \in DOMAIN files : files[id] \in RecordType
    BY <1>1, <1>2 DEF RecordType
  <2>2. files \in [DOMAIN files -> RecordType]
    BY <1>1, <2>1
  <2>3. files \in FileTable
    BY <1>1, <2>2, TableDef, FileTableIs
  <2>. QED
    BY <1>1, <2>3 DEF OnePath, IsInjective
<1>4. chunks \in Table(Rows, {"PENDING", "COMPLETED"})
  BY TableDef DEF Rows
<1>5. uploads \in [Ids -> UploadState]
  BY <1>2 DEF UploadState, NoUpload
<1>6. SharesTypeOK
  BY <1>0 DEF SharesTypeOK, ShareInit, NoLink, NoVisit
<1>7. sync \in SyncState /\ restores \in [Restores -> RestoreState]
  BY <1>0 DEF NoSync, SyncState, NoRestore, RestoreState
<1>8. TypeOK
  <2>1. messages \subseteq Rows /\ deletes \in [Deleters -> DeleteState]
    BY DEF Rows, NoDelete, DeleteState
  <2>2. newest \in [files : FileTable, chunks : SUBSET Rows]
    BY <1>0 DEF NoBackup
  <2>. QED
    BY <1>3, <1>4, <1>5, <1>6, <1>7, <2>1, <2>2 DEF TypeOK, Spoilers
<1>9. Shape
  BY <1>0, <1>2 DEF Shape, UploadShape, NoUpload, NoSync, NoRestore, NoDelete, ShareInit, NoLink
<1>. QED
  BY <1>8, <1>9 DEF Typed

\* Tables, backups and requests keep the shape the code gives them, and no two files
\* ever have one path.
THEOREM BackupTypeCorrect == Spec => []TypeOK
<1>1. Typed => TypeOK
  BY DEF Typed
<1>. QED
  BY <1>1, TypedInit, TypedStep, PTL DEF Spec

-----------------------------------------------------------------------------
(***************************************************************************)
(* What a step can do to the tables.                                       *)
(***************************************************************************)
\* Ids that an upload has drawn.
Begun == {u \in Ids : uploads[u].at # "idle"}

\* Part rows that a backup, or a request about one, holds.
BackedUp == sync.chunks \cup newest.chunks \cup UNION {restores[r].rows : r \in Restores}

\* Every row, wherever it is kept, is of an id that was drawn.
Known ==
  /\ \A u \in Begun : uploads[u].file \in Begun
  /\ DOMAIN files \subseteq Begun
  /\ DOMAIN sync.files \subseteq Begun /\ DOMAIN newest.files \subseteq Begun
  /\ \A r \in Restores : DOMAIN restores[r].files \subseteq Begun
  /\ \A k \in DOMAIN chunks \cup BackedUp : k[1] \in Begun
  /\ \A d \in Deleters : deletes[d].at # "idle" => deletes[d].id \in Begun

\* A row that a backup holds is COMPLETED, if it is there.
Kept == \A k \in BackedUp \cap DOMAIN chunks : chunks[k] = "COMPLETED"

Clean == spoiled \cap {"overwritten", "outlived"} = {}

\* The rows of an upload.
LEMMA RowFacts ==
  ASSUME NEW id \in Ids
  PROVE  /\ RowsOf(id) \subseteq Rows
         /\ \A k \in Rows : k \in RowsOf(id) <=> k[1] = id
         /\ \A k \in Rows : k[1] \in Ids
         /\ \A i \in Parts : <<id, i>> \in RowsOf(id)
BY DEF RowsOf, Rows

\* What went wrong stays known.
LEMMA SpoiledGrows == [Next]_vars => spoiled \subseteq spoiled'
<1>. SUFFICES ASSUME [Next]_vars PROVE spoiled \subseteq spoiled'
  OBVIOUS
<1>1. ASSUME NEW u \in Ids, Publish(u) PROVE spoiled \subseteq spoiled'
  BY <1>1 DEF Publish, Record, Spoil
<1>2. ASSUME SyncList \/ SyncChunks PROVE spoiled \subseteq spoiled'
  BY <1>2 DEF SyncList, SyncChunks, Spoil
<1>3. ASSUME NEW r \in Restores, RestoreFile(r) \/ RestoreChunk(r) PROVE spoiled \subseteq spoiled'
  BY <1>3 DEF RestoreFile, RestoreChunk, Spoil
<1>. QED
  BY <1>1, <1>2, <1>3, WhoWrites DEF Frame, SpoilStep

\* An id stays drawn, and an upload keeps its file.
LEMMA BegunGrows ==
  ASSUME Typed, [Next]_vars
  PROVE  Begun \subseteq Begun' /\ \A u \in Begun : uploads'[u].file = uploads[u].file
<1>. DEFINE Goal == \A u \in Ids : uploads[u].at # "idle" =>
                      uploads'[u].at # "idle" /\ uploads'[u].file = uploads[u].file
<1>0. uploads \in [Ids -> UploadState]
  BY DEF Typed, TypeOK
<1>1. ASSUME NEW u \in Ids, Insert(u) PROVE Goal
  <2>1. PICK x : uploads' = [uploads EXCEPT ![u] = x]
    BY <1>1 DEF Insert
  <2>. QED
    BY <1>0, <1>1, <2>1 DEF Insert
<1>2. ASSUME NEW u \in Ids, Publish(u) PROVE Goal
  <2>1. PICK at \in {"done", "failed"} : uploads' = [uploads EXCEPT ![u].at = at]
    BY <1>2 DEF Publish, Record
  <2>. QED
    BY <1>0, <2>1 DEF UploadState
<1>3. ASSUME NEW u \in Ids, NEW i \in Parts, StorePart(u, i) PROVE Goal
  BY <1>0, <1>3 DEF StorePart, UploadState
<1>4. Goal
  BY <1>1, <1>2, <1>3, WhoWrites DEF Frame, UploadStep
<1>. QED
  BY <1>4 DEF Begun

\* A file that an upload has is its file for good.
LEMMA FileStays ==
  ASSUME Typed, [Next]_vars
  PROVE  \A u \in Ids : uploads[u].file \in Ids => u \in Begun /\ uploads'[u].file = uploads[u].file
<1>1. \A u \in Ids : uploads[u].file \in Ids => u \in Begun
  BY BackupAssumption DEF Typed, Shape, UploadShape, Begun
<1>. QED
  BY <1>1, BegunGrows

\* An id is drawn for an upload that begins.
LEMMA NewUpload ==
  ASSUME Typed, [Next]_vars, NEW id \in Ids, id \in Begun' \ Begun
  PROVE  Insert(id)
<1>0. uploads \in [Ids -> UploadState] /\ uploads[id].at = "idle" /\ uploads'[id].at # "idle"
  BY DEF Typed, TypeOK, Begun
<1>1. ASSUME NEW u \in Ids, Insert(u) PROVE u = id
  <2>1. PICK x : uploads' = [uploads EXCEPT ![u] = x]
    BY <1>1 DEF Insert
  <2>. QED
    BY <1>0, <2>1
<1>2. ASSUME NEW u \in Ids, Publish(u) PROVE FALSE
  <2>1. PICK at : uploads' = [uploads EXCEPT ![u].at = at] /\ uploads[u].at = "storing"
    BY <1>2 DEF Publish, Record
  <2>. QED
    BY <1>0, <2>1
<1>3. ASSUME NEW u \in Ids, NEW i \in Parts, StorePart(u, i) PROVE FALSE
  BY <1>0, <1>3 DEF StorePart, UploadState
<1>. QED
  BY <1>0, <1>1, <1>2, <1>3, WhoWrites DEF Frame, UploadStep

\* An upload begins once.
LEMMA InsertBegins ==
  ASSUME uploads \in [Ids -> UploadState], NEW u \in Ids, Insert(u)
  PROVE  u \notin Begun /\ u \in Begun'
<1>1. PICK p, id, sha : uploads' = [uploads EXCEPT ![u] =
        [at |-> "storing", path |-> p, file |-> id, sha |-> sha, posted |-> {}]]
  BY DEF Insert
<1>. QED
  BY <1>1 DEF Insert, Begun

\* The table chunks after a step: a row that stays is left alone or completed; a row
\* that goes goes with its file; a row that comes is of a new upload, or comes
\* COMPLETED from a backup; what is newly COMPLETED was stored, or comes from a
\* backup.
LEMMA ChunkFacts ==
  ASSUME Typed, Known, [Next]_vars
  PROVE  /\ \A k \in DOMAIN chunks \cap DOMAIN chunks' :
              chunks'[k] = chunks[k] \/ chunks'[k] = "COMPLETED"
         /\ \A k \in DOMAIN chunks \ DOMAIN chunks' :
              \E d \in Deleters : DeleteFile(d) /\ uploads[k[1]].file = deletes[d].id
         /\ \A k \in DOMAIN chunks' \ DOMAIN chunks :
              \/ k[1] \in Begun' \ Begun
              \/ k \in BackedUp \cap revived' /\ chunks'[k] = "COMPLETED"
         /\ \A k \in DOMAIN chunks' : chunks'[k] = "COMPLETED" =>
              \/ k \in DOMAIN chunks /\ chunks[k] = "COMPLETED"
              \/ k \in revived'
              \/ \E u \in Ids, i \in Parts : StorePart(u, i) /\ k = <<u, i>>
<1>. DEFINE Goal ==
       /\ \A k \in DOMAIN chunks \cap DOMAIN chunks' :
            chunks'[k] = chunks[k] \/ chunks'[k] = "COMPLETED"
       /\ \A k \in DOMAIN chunks \ DOMAIN chunks' :
            \E d \in Deleters : DeleteFile(d) /\ uploads[k[1]].file = deletes[d].id
       /\ \A k \in DOMAIN chunks' \ DOMAIN chunks :
            \/ k[1] \in Begun' \ Begun
            \/ k \in BackedUp \cap revived' /\ chunks'[k] = "COMPLETED"
       /\ \A k \in DOMAIN chunks' : chunks'[k] = "COMPLETED" =>
            \/ k \in DOMAIN chunks /\ chunks[k] = "COMPLETED"
            \/ k \in revived'
            \/ \E u \in Ids, i \in Parts : StorePart(u, i) /\ k = <<u, i>>
<1>0. DOMAIN chunks \subseteq Rows /\ uploads \in [Ids -> UploadState]
  BY TableDef DEF Typed, TypeOK
<1>1. ASSUME NEW u \in Ids, Insert(u) PROVE Goal
  <2>1. u \notin Begun /\ u \in Begun'
    BY <1>0, <1>1, InsertBegins
  <2>2. /\ DOMAIN chunks' = DOMAIN chunks \cup RowsOf(u)
        /\ \A k \in DOMAIN chunks' :
             chunks'[k] = IF k \in RowsOf(u) THEN "PENDING" ELSE chunks[k]
    BY <1>1 DEF Insert
  <2>3. \A k \in RowsOf(u) : k[1] = u
    BY RowFacts
  <2>4. \A k \in DOMAIN chunks : k \notin RowsOf(u)
    BY <2>1, <2>3 DEF Known
  <2>. QED
    BY <2>1, <2>2, <2>3, <2>4
<1>2. ASSUME NEW u \in Ids, NEW i \in Parts, StorePart(u, i) PROVE Goal
  <2>1. /\ DOMAIN chunks' = DOMAIN chunks
        /\ \A k \in DOMAIN chunks :
             chunks'[k] = IF k = <<u, i>> THEN "COMPLETED" ELSE chunks[k]
    BY <1>2 DEF StorePart
  <2>. QED
    BY <1>2, <2>1
<1>3. ASSUME NEW d \in Deleters, DeleteFile(d) PROVE Goal
  <2>1. PICK D \in SUBSET DOMAIN chunks :
          /\ chunks' = chunks \/ chunks' = Restrict(chunks, D)
          /\ D = DOMAIN chunks \ (FileRows(deletes[d].id) \cap DOMAIN chunks)
    BY <1>3 DEF DeleteFile
  <2>2. CASE chunks' = chunks
    BY <2>2
  <2>3. CASE chunks' = Restrict(chunks, D)
    <3>1. DOMAIN chunks' = D /\ \A k \in D : chunks'[k] = chunks[k]
      BY <2>3 DEF Restrict
    <3>2. \A k \in DOMAIN chunks \ D : uploads[k[1]].file = deletes[d].id
      BY <2>1 DEF FileRows
    <3>. QED
      BY <1>3, <3>1, <3>2
  <2>. QED
    BY <2>1, <2>2, <2>3
<1>4. ASSUME NEW r \in Restores, RestoreChunk(r) PROVE Goal
  <2>1. PICK k \in restores[r].rows :
          \/ chunks' = chunks
          \/ /\ chunks' = [j \in DOMAIN chunks \cup {k} |->
                            IF j \in DOMAIN chunks THEN chunks[j] ELSE "COMPLETED"]
             /\ revived' = revived \cup ({k} \ DOMAIN chunks)
    BY <1>4 DEF RestoreChunk, IsFirstRow
  <2>2. k \in BackedUp
    BY DEF BackedUp
  <2>. QED
    BY <2>1, <2>2
<1>5. ASSUME chunks' = chunks PROVE Goal
  BY <1>5
<1>. HIDE DEF Goal
<1>6. Goal
  BY <1>1, <1>2, <1>3, <1>4, <1>5, WhoWrites DEF Frame, ChunkStep
<1>. QED
  BY <1>6 DEF Goal

\* An upload of the file id ends and leaves its own hash.
Stores(u, id, sha) ==
  /\ Publish(u) /\ uploads[u].file = id /\ sha = u
  /\ RowsOf(u) = Completed(RowsOf(u))

\* The table files after a step, as long as no record is written over another: a
\* hash stays or becomes that of an upload that has stored the file; a row that goes
\* was deleted; a row that comes is of a new upload, without a hash, or comes from a
\* backup as it was.
LEMMA FileFacts ==
  ASSUME Typed, Known, [Next]_vars
  PROVE  /\ Clean' => \A j \in DOMAIN files \cap DOMAIN files' :
                        \/ files'[j].sha = files[j].sha
                        \/ \E u \in Ids : Stores(u, j, files'[j].sha)
         /\ \A j \in DOMAIN files \ DOMAIN files' :
              \E d \in Deleters : DeleteFile(d) /\ j = deletes[d].id
         /\ \A j \in DOMAIN files' \ DOMAIN files :
              \/ files'[j].sha = None /\ j \in Begun' \ Begun
              \/ \E u \in Ids : Publish(u) /\ uploads[u].file = j /\ ~Clean'
              \/ \E r \in Restores : /\ RestoreFile(r) /\ j \in DOMAIN restores[r].files
                                     /\ files'[j] = restores[r].files[j]
<1>. DEFINE Goal ==
       /\ Clean' => \A j \in DOMAIN files \cap DOMAIN files' :
                      \/ files'[j].sha = files[j].sha
                      \/ \E u \in Ids : Stores(u, j, files'[j].sha)
       /\ \A j \in DOMAIN files \ DOMAIN files' :
            \E d \in Deleters : DeleteFile(d) /\ j = deletes[d].id
       /\ \A j \in DOMAIN files' \ DOMAIN files :
            \/ files'[j].sha = None /\ j \in Begun' \ Begun
            \/ \E u \in Ids : Publish(u) /\ uploads[u].file = j /\ ~Clean'
            \/ \E r \in Restores : /\ RestoreFile(r) /\ j \in DOMAIN restores[r].files
                                   /\ files'[j] = restores[r].files[j]
<1>0. /\ files \in FileTable /\ OnePathIn(files) /\ uploads \in [Ids -> UploadState]
      /\ DOMAIN files \subseteq Ids
  BY FileRow DEF Typed, TypeOK, OnePath, OnePathIn
<1>1. ASSUME NEW u \in Ids, Insert(u) PROVE Goal
  <2>a. PICK p \in Paths, id \in Ids, sha \in Ids \cup {None} : Begins(u, p, id, sha)
    BY <1>0, <1>1, InsertIs
  <2>1. /\ RowAt(files, p) = {id} \/ (RowAt(files, p) = {} /\ id = u)
        /\ sha = IF id \in DOMAIN files THEN files[id].sha ELSE None
        /\ files' = Upserted(files, id, [path |-> p, sha |-> sha])
    BY <2>a DEF Begins
  <2>. DEFINE row == [path |-> p, sha |-> sha]
  <2>2. u \in Begun' \ Begun
    BY <1>0, <1>1, InsertBegins
  <2>3. row \in RecordType /\ row.path = p /\ row.sha = sha
    BY DEF RecordType
  <2>4. \A j \in DOMAIN files : files[j].path = p <=> j \in RowAt(files, p)
    BY DEF RowAt
  <2>. HIDE DEF row
  <2>5. /\ \A j \in DOMAIN files : files[j].path # p => files'[j] = files[j]
        /\ \A j \in DOMAIN files : files[j].path = p => files'[j] = row
        /\ DOMAIN files \subseteq DOMAIN files' /\ DOMAIN files' \subseteq DOMAIN files \cup {id}
        /\ RowAt(files, p) # {} => DOMAIN files' = DOMAIN files
        /\ RowAt(files, p) = {} /\ id \notin DOMAIN files => files'[id] = row
    <3>1. files' = Upserted(files, id, row)
      BY <2>1 DEF row
    <3>2. files \in FileTable /\ OnePathIn(files)
      BY <1>0
    <3>. QED
      BY <2>3, <3>1, <3>2, StepUpserts
  <2>6. u \notin DOMAIN files
    BY <2>2 DEF Known
  <2>7. CASE RowAt(files, p) = {id}
    <3>1. id \in DOMAIN files
      BY <2>7 DEF RowAt
    <3>2. \A j \in DOMAIN files : files[j].path = p => j = id
      BY <2>4, <2>7
    <3>3. \A j \in DOMAIN files : files'[j].sha = files[j].sha
      BY <2>1, <2>3, <2>5, <3>1, <3>2
    <3>. QED
      BY <2>5, <2>7, <3>3
  <2>8. CASE RowAt(files, p) = {} /\ id = u
    <3>1. \A j \in DOMAIN files : files'[j] = files[j]
      BY <2>4, <2>5, <2>8
    <3>2. files'[u].sha = None
      BY <2>1, <2>3, <2>5, <2>6, <2>8
    <3>. QED
      BY <2>2, <2>5, <2>8, <3>1, <3>2
  <2>. QED
    BY <2>1, <2>7, <2>8
<1>2. ASSUME NEW u \in Ids, Publish(u) PROVE Goal
  <2>. DEFINE row == NewRow(u)
              id  == uploads[u].file
  <2>1. /\ row \in RecordType /\ row.path = uploads[u].path /\ row.sha = NewSha(u)
        /\ id \in Ids
    BY <1>2, NewRowType
  <2>2. CASE files' = files
    BY <2>2
  <2>3. CASE /\ files' = Upserted(files, id, row) /\ RowsOf(u) = Completed(RowsOf(u))
             /\ Clean' => /\ RowAt(files, row.path) = {id}
                          /\ uploads[u].sha \in {None, files[id].sha}
    <3>2. \A j \in DOMAIN files : files[j].path = row.path <=> j \in RowAt(files, row.path)
      BY DEF RowAt
    <3>. HIDE DEF row, id
    <3>1. files' = Upserted(files, id, row) /\ files \in FileTable /\ OnePathIn(files)
      BY <1>0, <2>3
    <3>3. /\ DOMAIN files \subseteq DOMAIN files' /\ DOMAIN files' \subseteq DOMAIN files \cup {id}
          /\ \A j \in DOMAIN files : files[j].path # row.path => files'[j] = files[j]
          /\ \A j \in DOMAIN files : files[j].path = row.path => files'[j] = row
          /\ RowAt(files, row.path) # {} => DOMAIN files' = DOMAIN files
      BY <2>1, <3>1, StepUpserts
    <3>4. ASSUME Clean', NEW j \in DOMAIN files
          PROVE  files'[j].sha = files[j].sha \/ \E v \in Ids : Stores(v, j, files'[j].sha)
      <4>1. CASE j # id
        BY <2>3, <3>2, <3>3, <3>4, <4>1
      <4>2. CASE j = id
        <5>1. files'[j].sha = NewSha(u)
          BY <2>1, <2>3, <3>2, <3>3, <3>4, <4>2
        <5>2. CASE uploads[u].sha # None
          BY <2>3, <3>4, <4>2, <5>1, <5>2 DEF NewSha
        <5>3. CASE uploads[u].sha = None
          BY <1>2, <2>3, <4>2, <5>1, <5>3 DEF NewSha, Stores, id
        <5>. QED
          BY <5>2, <5>3
      <4>. QED
        BY <4>1, <4>2
    <3>5. \A j \in DOMAIN files' \ DOMAIN files : j = id /\ ~Clean'
      BY <2>3, <3>3
    <3>. QED
      BY <1>2, <3>3, <3>4, <3>5 DEF id
  <2>. HIDE DEF row
  <2>4. \/ files' = files
        \/ /\ files' = Upserted(files, id, row) /\ RowsOf(u) = Completed(RowsOf(u))
           /\ Clean' => /\ RowAt(files, uploads[u].path) = {id}
                        /\ uploads[u].sha \in {None, files[id].sha}
    BY <1>2 DEF Publish, Record, NewRow, NewSha, Spoil, Clean, row
  <2>. QED
    BY <2>1, <2>2, <2>3, <2>4
<1>3. ASSUME NEW u \in Ids, NEW p \in Paths, Rename(u, p) PROVE Goal
  <2>1. \A j \in DOMAIN files : files[j] \in RecordType
    BY <1>0, FileRow
  <2>2. DOMAIN files' = DOMAIN files /\ \A j \in DOMAIN files : files'[j].sha = files[j].sha
    BY <1>3, <2>1 DEF Rename, RecordType
  <2>. QED
    BY <2>2
<1>4. ASSUME NEW d \in Deleters, DeleteFile(d) PROVE Goal
  <2>. DEFINE D == DOMAIN files \ {deletes[d].id}
  <2>1. (files' = Restrict(files, D) \/ files' = files) /\ D \subseteq DOMAIN files
    BY <1>4 DEF DeleteFile
  <2>2. \A j \in DOMAIN files \ D : j = deletes[d].id
    OBVIOUS
  <2>. HIDE DEF D
  <2>3. CASE files' = Restrict(files, D)
    <3>1. DOMAIN files' = D /\ \A j \in D : files'[j] = files[j]
      BY <1>0, <2>1, <2>3, RestrictFiles
    <3>. QED
      BY <1>4, <2>1, <2>2, <3>1
  <2>4. CASE files' = files
    BY <2>4
  <2>. QED
    BY <2>1, <2>3, <2>4
<1>5. ASSUME NEW r \in Restores, RestoreFile(r) PROVE Goal
  <2>1. PICK id \in Ids :
          LET row   == restores[r].files[id]
              there == RowAt(files, row.path)
              meets == IF there # {} THEN there ELSE {id} \cap DOMAIN files
          IN  /\ id \in restores[r].todo
              /\ \/ /\ files' = Upserted(files, id, row)
                    /\ Spoil(IF \A j \in meets : files[j].sha = row.sha THEN {} ELSE {"overwritten"})
                 \/ files' = files
    BY <1>5 DEF RestoreFile, IsFirst
  <2>. DEFINE row   == restores[r].files[id]
              there == RowAt(files, row.path)
  <2>2. restores[r].files \in FileTable /\ id \in DOMAIN restores[r].files
    BY <2>1 DEF Typed, Shape, TypeOK, RestoreState
  <2>3. row \in RecordType
    BY <2>2, FileRow
  <2>4. CASE files' = files
    BY <2>4
  <2>5. CASE files' # files
    <3>1. Clean' => \A j \in there : files[j].sha = row.sha
      BY <2>1, <2>5 DEF Spoil, Clean
    <3>2. \A j \in DOMAIN files : j \in there <=> files[j].path = row.path
      BY DEF RowAt
    <3>3. files' = Upserted(files, id, row)
      BY <2>1, <2>5
    <3>4. /\ DOMAIN files \subseteq DOMAIN files' /\ DOMAIN files' \subseteq DOMAIN files \cup {id}
          /\ \A j \in DOMAIN files : files[j].path # row.path => files'[j] = files[j]
          /\ \A j \in DOMAIN files : files[j].path = row.path => files'[j] = row
          /\ there # {} => DOMAIN files' = DOMAIN files
          /\ there = {} /\ id \notin DOMAIN files => files'[id] = row
      <4>. HIDE DEF row
      <4>. QED
        BY <1>0, <2>3, <3>3, StepUpserts
    <3>. HIDE DEF there
    <3>. QED
      BY <1>5, <2>2, <3>1, <3>2, <3>4
  <2>. QED
    BY <2>4, <2>5
<1>6. ASSUME files' = files PROVE Goal
  BY <1>6
<1>. HIDE DEF Goal
<1>7. Goal
  BY <1>1, <1>2, <1>3, <1>4, <1>5, <1>6, WhoWrites DEF Frame, FileStep
<1>. QED
  BY <1>7 DEF Goal

\* Where the lists of files come from.
LEMMA ListFacts ==
  ASSUME Typed, [Next]_vars
  PROVE  /\ \/ sync'.files = sync.files
            \/ /\ DOMAIN sync'.files \subseteq DOMAIN files
               /\ \A j \in DOMAIN sync'.files : sync'.files[j] = files[j]
         /\ newest'.files = newest.files \/ newest'.files = sync.files
         /\ \A r \in Restores :
              \/ restores'[r].files = restores[r].files
              \/ restores'[r].files = newest.files
              \/ DOMAIN restores'[r].files = {}
<1>0. /\ sync \in SyncState /\ newest \in [files : FileTable, chunks : SUBSET Rows]
      /\ restores \in [Restores -> RestoreState]
  BY DEF Typed, TypeOK
<1>a. DOMAIN <<>> = {}
  BY EmptyTable
<1>1. \/ sync'.files = sync.files
      \/ /\ DOMAIN sync'.files \subseteq DOMAIN files
         /\ \A j \in DOMAIN sync'.files : sync'.files[j] = files[j]
  <2>1. ASSUME SyncList
        PROVE  /\ DOMAIN sync'.files \subseteq DOMAIN files
               /\ \A j \in DOMAIN sync'.files : sync'.files[j] = files[j]
    <3>1. PICK listed \in SUBSET DOMAIN files : sync'.files = Restrict(files, listed)
      BY <2>1 DEF SyncList
    <3>. QED
      BY <3>1 DEF Restrict
  <2>2. ASSUME SyncChunks PROVE sync'.files = sync.files
    BY <1>0, <2>2 DEF SyncChunks, SyncState
  <2>3. SyncPost => DOMAIN sync'.files = {}
    BY <1>a DEF SyncPost, NoSync
  <2>4. ASSUME NEW d \in Deleters, DeleteFile(d) PROVE sync'.files = sync.files
    BY <1>0, <2>4 DEF DeleteFile, Forgotten, SyncState
  <2>. QED
    BY <2>1, <2>2, <2>3, <2>4, WhoWrites DEF Frame, SyncStep
<1>2. newest'.files = newest.files \/ newest'.files = sync.files
  BY <1>0, WhoWrites DEF Frame, SyncPost
<1>3. ASSUME NEW r \in Restores
      PROVE  \/ restores'[r].files = restores[r].files
             \/ restores'[r].files = newest.files
             \/ DOMAIN restores'[r].files = {}
  <2>1. ASSUME NEW q \in Restores, Fetch(q)
        PROVE  restores'[r].files \in {restores[r].files, newest.files}
    BY <1>0, <2>1 DEF Fetch, RestoreState
  <2>2. ASSUME NEW q \in Restores, RestoreFile(q) \/ RestoreChunk(q)
        PROVE  restores'[r].files = restores[r].files
    <3>1. \/ \E id \in Ids : restores' = [restores EXCEPT ![q].todo = @ \ {id}]
          \/ \E k \in Rows : restores' = [restores EXCEPT ![q].rows = @ \ {k}]
      BY <2>2 DEF RestoreFile, RestoreChunk
    <3>. QED
      BY <1>0, <3>1 DEF RestoreState
  <2>3. ASSUME NEW q \in Restores, RestoreEnd(q)
        PROVE  restores'[r].files = restores[r].files \/ DOMAIN restores'[r].files = {}
    BY <1>0, <1>a, <2>3 DEF RestoreEnd, RestoreState, NoRestore
  <2>4. ASSUME NEW d \in Deleters, DeleteFile(d)
        PROVE  restores'[r].files = restores[r].files
    BY <1>0, <2>4 DEF DeleteFile, Forgotten, RestoreState
  <2>. QED
    BY <2>1, <2>2, <2>3, <2>4, WhoWrites DEF Frame, RestoreStep
<1>. QED
  BY <1>1, <1>2, <1>3

\* Where the rows of a backup come from.
LEMMA BackedUpFacts ==
  ASSUME Typed, [Next]_vars, NEW k \in BackedUp'
  PROVE  \/ k \in BackedUp
         \/ k \in DOMAIN chunks /\ chunks[k] = "COMPLETED" /\ chunks' = chunks
<1>0. /\ sync \in SyncState /\ newest \in [files : FileTable, chunks : SUBSET Rows]
      /\ restores \in [Restores -> RestoreState]
  BY DEF Typed, TypeOK
<1>1. ASSUME k \in sync'.chunks
      PROVE  \/ k \in sync.chunks
             \/ k \in DOMAIN chunks /\ chunks[k] = "COMPLETED" /\ chunks' = chunks
  <2>1. ASSUME SyncChunks
        PROVE  \/ k \in sync.chunks
               \/ k \in DOMAIN chunks /\ chunks[k] = "COMPLETED" /\ chunks' = chunks
    <3>1. PICK id, read : /\ read \subseteq Completed(FileRows(id))
                          /\ sync' = [sync EXCEPT !.todo = @ \ {id}, !.chunks = @ \cup read]
      BY <2>1 DEF SyncChunks
    <3>2. sync'.chunks = sync.chunks \cup read
      BY <1>0, <3>1 DEF SyncState
    <3>3. chunks' = chunks
      BY <2>1 DEF SyncChunks, stored
    <3>4. \A j \in read : j \in DOMAIN chunks /\ chunks[j] = "COMPLETED"
      BY <3>1 DEF Completed
    <3>. HIDE DEF Completed
    <3>. QED
      BY <1>1, <3>2, <3>3, <3>4
  <2>2. ASSUME SyncList \/ SyncPost PROVE k \in sync.chunks
    BY <1>1, <2>2 DEF SyncList, SyncPost, NoSync
  <2>3. ASSUME NEW d \in Deleters, DeleteFile(d) PROVE k \in sync.chunks
    BY <1>0, <1>1, <2>3 DEF DeleteFile, Forgotten, SyncState
  <2>. QED
    BY <1>1, <2>1, <2>2, <2>3, WhoWrites DEF Frame, SyncStep
<1>2. ASSUME k \in newest'.chunks PROVE k \in newest.chunks \/ k \in sync.chunks
  BY <1>2, WhoWrites DEF Frame, SyncPost
<1>3. ASSUME NEW r \in Restores, k \in restores'[r].rows
      PROVE  k \in restores[r].rows \/ k \in newest.chunks
  <2>1. ASSUME NEW q \in Restores, Fetch(q) PROVE k \in restores[r].rows \/ k \in newest.chunks
    BY <1>0, <1>3, <2>1 DEF Fetch, RestoreState
  <2>2. ASSUME NEW q \in Restores, RestoreFile(q) \/ RestoreChunk(q) PROVE k \in restores[r].rows
    <3>1. \/ \E id \in Ids : restores' = [restores EXCEPT ![q].todo = @ \ {id}]
          \/ \E j \in Rows : restores' = [restores EXCEPT ![q].rows = @ \ {j}]
      BY <2>2 DEF RestoreFile, RestoreChunk
    <3>. QED
      BY <1>0, <1>3, <3>1 DEF RestoreState
  <2>3. ASSUME NEW q \in Restores, RestoreEnd(q) PROVE k \in restores[r].rows
    BY <1>0, <1>3, <2>3 DEF RestoreEnd, RestoreState, NoRestore
  <2>4. ASSUME NEW d \in Deleters, DeleteFile(d) PROVE k \in restores[r].rows
    BY <1>0, <1>3, <2>4 DEF DeleteFile, Forgotten, RestoreState
  <2>. QED
    BY <1>3, <2>1, <2>2, <2>3, <2>4, WhoWrites DEF Frame, RestoreStep
<1>. QED
  BY <1>1, <1>2, <1>3 DEF BackedUp

\* A step leaves nothing behind of an id that was not drawn.
LEMMA KnownStep ==
  ASSUME Typed, Known, [Next]_vars
  PROVE  Known'
<1>1. Begun \subseteq Begun'
  BY BegunGrows
<1>2. DOMAIN files' \subseteq Begun'
  <2>1. \A u \in Ids : Publish(u) => uploads[u].file \in Begun'
    <3>1. \A u \in Ids : Publish(u) => u \in Begun
      BY DEF Publish, Record, Begun
    <3>. QED
      BY <1>1, <3>1 DEF Known
  <2>2. \A r \in Restores : DOMAIN restores[r].files \subseteq Begun'
    BY <1>1 DEF Known
  <2>3. DOMAIN files \subseteq Begun'
    BY <1>1 DEF Known
  <2>4. \A j \in DOMAIN files' \ DOMAIN files :
              \/ j \in Begun'
              \/ \E u \in Ids : Publish(u) /\ uploads[u].file = j
              \/ \E r \in Restores : j \in DOMAIN restores[r].files
    BY FileFacts
  <2>. QED
    BY <2>1, <2>2, <2>3, <2>4
<1>3. /\ DOMAIN sync'.files \subseteq Begun' /\ DOMAIN newest'.files \subseteq Begun'
      /\ \A r \in Restores : DOMAIN restores'[r].files \subseteq Begun'
  <2>1. /\ DOMAIN sync.files \subseteq Begun' /\ DOMAIN newest.files \subseteq Begun'
        /\ DOMAIN files \subseteq Begun'
        /\ \A r \in Restores : DOMAIN restores[r].files \subseteq Begun'
    BY <1>1 DEF Known
  <2>. QED
    BY <2>1, ListFacts
<1>4. \A k \in DOMAIN chunks' \cup BackedUp' : k[1] \in Begun'
  <2>1. \A k \in DOMAIN chunks \cup BackedUp : k[1] \in Begun'
    BY <1>1 DEF Known
  <2>2. \A k \in DOMAIN chunks' \ DOMAIN chunks : k[1] \in Begun' \/ k \in BackedUp
    BY ChunkFacts
  <2>3. \A k \in BackedUp' : k \in BackedUp \/ k \in DOMAIN chunks
    BY BackedUpFacts
  <2>. QED
    BY <2>1, <2>2, <2>3
<1>5. \A d \in Deleters : deletes'[d].at # "idle" => deletes'[d].id \in Begun'
  <2>0. deletes \in [Deleters -> DeleteState]
    BY DEF Typed, TypeOK
  <2>1. ASSUME NEW d \in Deleters, deletes'[d].at # "idle"
        PROVE  \/ deletes'[d].id \in Begun
               \/ deletes[d].at # "idle" /\ deletes'[d].id = deletes[d].id
    <3>1. ASSUME NEW e \in Deleters, ReadDeleted(e)
          PROVE  \/ deletes'[d].id \in Begun
                 \/ deletes[d].at # "idle" /\ deletes'[d].id = deletes[d].id
      <4>1. PICK id, x : /\ id \in Ids /\ uploads[id].file = id
                          /\ deletes' = [deletes EXCEPT ![e] = [at |-> "row", id |-> id, gone |-> x]]
        BY <3>1 DEF ReadDeleted
      <4>2. id \in Begun
        BY <4>1, FileStays
      <4>. QED
        BY <2>0, <2>1, <4>1, <4>2
    <3>2. ASSUME NEW e \in Deleters, DeleteFile(e) \/ DeleteShares(e) \/ DeleteMessages(e)
          PROVE  deletes[d].at # "idle" /\ deletes'[d].id = deletes[d].id
      BY <2>0, <2>1, <3>2 DEF DeleteFile, DeleteShares, DeleteMessages, DeleteState
    <3>. QED
      BY <2>1, <3>1, <3>2, WhoWrites DEF Frame, DeleteStep
  <2>. QED
    BY <1>1, <2>1 DEF Known
<1>6. ASSUME NEW u \in Begun' PROVE uploads'[u].file \in Begun'
  <2>1. CASE u \in Begun
    BY <1>1, <2>1, BegunGrows DEF Known
  <2>2. CASE u \notin Begun
    <3>1. u \in Ids /\ uploads \in [Ids -> UploadState] /\ files \in FileTable
      BY DEF Begun, Typed, TypeOK
    <3>2. Insert(u)
      BY <2>2, <3>1, NewUpload
    <3>a. PICK p \in Paths, id \in Ids, sha \in Ids \cup {None} : Begins(u, p, id, sha)
      BY <3>1, <3>2, InsertIs
    <3>3. /\ RowAt(files, p) = {id} \/ (RowAt(files, p) = {} /\ id = u)
          /\ uploads' = [uploads EXCEPT ![u] =
               [at |-> "storing", path |-> p, file |-> id, sha |-> sha, posted |-> {}]]
      BY <3>a DEF Begins
    <3>4. uploads'[u].file = id
      BY <3>1, <3>3
    <3>5. id \in DOMAIN files \/ id = u
      BY <3>3 DEF RowAt
    <3>. QED
      BY <1>1, <3>4, <3>5 DEF Known
  <2>. QED
    BY <2>1, <2>2
<1>. QED
  BY <1>2, <1>3, <1>4, <1>5, <1>6 DEF Known

\* A row that a backup holds is COMPLETED after every step, if it is there.
LEMMA KeptStep ==
  ASSUME Typed, Known, Kept, [Next]_vars
  PROVE  Kept'
<1>. SUFFICES ASSUME NEW k \in BackedUp' \cap DOMAIN chunks'
              PROVE  chunks'[k] = "COMPLETED"
  BY DEF Kept
<1>1. CASE k \in BackedUp
  <2>1. CASE k \in DOMAIN chunks
    BY <1>1, <2>1, ChunkFacts DEF Kept
  <2>2. CASE k \notin DOMAIN chunks
    BY <1>1, <2>2, ChunkFacts DEF Known
  <2>. QED
    BY <2>1, <2>2
<1>2. CASE k \notin BackedUp
  BY <1>2, BackedUpFacts
<1>. QED
  BY <1>1, <1>2

-----------------------------------------------------------------------------
(***************************************************************************)
(* Hashes.                                                                 *)
(***************************************************************************)
OwnIn(fs, ups) ==
  \A id \in DOMAIN fs :
    fs[id].sha = None \/ (fs[id].sha \in Ids /\ ups[fs[id].sha].file = id)

\* A file that was there and is not was deleted.
Missing ==
  \A u \in Begun, id \in Ids :
    uploads[u].file = id /\ id \notin DOMAIN files => WasDeleted(id)

\* Every hash that is kept is that of an upload of the file, or none.
OwnHash ==
  Clean => /\ OwnIn(files, uploads) /\ OwnIn(sync.files, uploads) /\ OwnIn(newest.files, uploads)
           /\ \A r \in Restores : OwnIn(restores[r].files, uploads)

\* A published file without a hash was deleted.
DoneHash ==
  Clean => \A u \in Begun, id \in DOMAIN files :
             uploads[u].at = "done" /\ uploads[u].file = id /\ files[id].sha = None
               => WasDeleted(id)

HashInv == Typed /\ Known /\ Kept /\ Missing /\ OwnHash /\ DoneHash

\* A deleted file stays known as deleted.
LEMMA DeletedStays ==
  ASSUME Typed, [Next]_vars, NEW id \in Ids, WasDeleted(id)
  PROVE  WasDeleted(id)'
<1>0. deletes \in [Deleters -> DeleteState] /\ None \notin Ids
  BY BackupAssumption DEF Typed, TypeOK
<1>1. PICK d \in Deleters : deletes[d].id = id /\ deletes[d].at # "row"
  BY DEF WasDeleted
<1>2. deletes[d].at # "idle"
  BY <1>0, <1>1 DEF Typed, Shape
<1>3. deletes'[d].id = id /\ deletes'[d].at # "row"
  <2>1. ASSUME NEW e \in Deleters, ReadDeleted(e)
        PROVE  deletes'[d].id = id /\ deletes'[d].at # "row"
    BY <1>0, <1>1, <1>2, <2>1 DEF ReadDeleted
  <2>2. ASSUME NEW e \in Deleters, DeleteFile(e) \/ DeleteShares(e) \/ DeleteMessages(e)
        PROVE  deletes'[d].id = id /\ deletes'[d].at # "row"
    BY <1>0, <1>1, <2>2 DEF DeleteFile, DeleteShares, DeleteMessages, DeleteState
  <2>. QED
    BY <1>1, <2>1, <2>2, WhoWrites DEF Frame, DeleteStep
<1>. QED
  BY <1>3 DEF WasDeleted

\* DeleteFile deletes.
LEMMA DeletedNow ==
  ASSUME Typed, NEW d \in Deleters, DeleteFile(d), NEW id \in Ids, id = deletes[d].id
  PROVE  WasDeleted(id)'
<1>1. deletes \in [Deleters -> DeleteState]
  BY DEF Typed, TypeOK
<1>2. deletes'[d].id = id /\ deletes'[d].at # "row"
  BY <1>1 DEF DeleteFile, DeleteState
<1>. QED
  BY <1>2 DEF WasDeleted

\* Clean is known of the past.
LEMMA WasClean == [Next]_vars /\ Clean' => Clean
BY SpoiledGrows DEF Clean

\* Uploads begin with a row, and files go by being deleted.
LEMMA MissingStep ==
  ASSUME Typed, Known, Missing, [Next]_vars
  PROVE  Missing'
<1>. SUFFICES ASSUME NEW u \in Begun', NEW id \in Ids, uploads'[u].file = id, id \notin DOMAIN files'
              PROVE  WasDeleted(id)'
  BY DEF Missing
<1>0. /\ uploads \in [Ids -> UploadState] /\ u \in Ids
      /\ files \in FileTable /\ OnePathIn(files)
  BY DEF Typed, TypeOK, Begun, OnePath, OnePathIn
<1>1. CASE u \in Begun
  <2>0. uploads[u].file = id
    BY <1>1, BegunGrows
  <2>1. CASE id \notin DOMAIN files
    BY <1>1, <2>0, <2>1, DeletedStays DEF Missing
  <2>2. CASE id \in DOMAIN files
    <3>1. PICK d \in Deleters : DeleteFile(d) /\ id = deletes[d].id
      BY <2>2, FileFacts
    <3>. QED
      BY <3>1, DeletedNow
  <2>. QED
    BY <2>1, <2>2
<1>2. CASE u \notin Begun
  <2>1. Insert(u)
    BY <1>0, <1>2, NewUpload
  <2>a. PICK p \in Paths, j \in Ids, sha \in Ids \cup {None} : Begins(u, p, j, sha)
    BY <1>0, <2>1, InsertIs
  <2>2. /\ RowAt(files, p) = {j} \/ (RowAt(files, p) = {} /\ j = u)
        /\ files' = Upserted(files, j, [path |-> p, sha |-> sha])
        /\ uploads' = [uploads EXCEPT ![u] =
             [at |-> "storing", path |-> p, file |-> j, sha |-> sha, posted |-> {}]]
    BY <2>a DEF Begins
  <2>3. j = id
    BY <1>0, <2>2
  <2>. DEFINE row == [path |-> p, sha |-> sha]
  <2>4. row \in RecordType /\ row.path = p
    BY DEF RecordType
  <2>. HIDE DEF row
  <2>5. /\ DOMAIN files \subseteq DOMAIN files'
        /\ RowAt(files, p) = {} /\ id \notin DOMAIN files => id \in DOMAIN files'
    <3>1. files' = Upserted(files, id, row)
      BY <2>2, <2>3 DEF row
    <3>. QED
      BY <1>0, <2>4, <3>1, StepUpserts
  <2>6. id \notin DOMAIN files
    BY <2>5
  <2>7. RowAt(files, p) # {id}
    BY <2>6 DEF RowAt
  <2>. QED
    BY <2>2, <2>3, <2>5, <2>6, <2>7
<1>. QED
  BY <1>1, <1>2

\* The hashes of a list stay its files' own.
LEMMA OwnStays ==
  ASSUME Typed, [Next]_vars
  PROVE  \A fs : OwnIn(fs, uploads) /\ DOMAIN fs \subseteq Ids => OwnIn(fs, uploads')
BY FileStays DEF OwnIn

\* No hash of another file gets in.
LEMMA OwnHashStep ==
  ASSUME Typed, Known, OwnHash, [Next]_vars
  PROVE  OwnHash'
<1>. SUFFICES ASSUME Clean'
              PROVE  /\ OwnIn(files', uploads') /\ OwnIn(sync'.files, uploads')
                     /\ OwnIn(newest'.files, uploads')
                     /\ \A r \in Restores : OwnIn(restores'[r].files, uploads')
  BY DEF OwnHash, OwnIn
<1>0. /\ DOMAIN files \subseteq Ids /\ DOMAIN sync.files \subseteq Ids
      /\ DOMAIN newest.files \subseteq Ids
      /\ \A r \in Restores : DOMAIN restores[r].files \subseteq Ids
      /\ None \notin Ids
  BY BackupAssumption DEF Known, Begun
<1>1. /\ OwnIn(files, uploads') /\ OwnIn(sync.files, uploads') /\ OwnIn(newest.files, uploads')
      /\ \A r \in Restores : OwnIn(restores[r].files, uploads')
  BY <1>0, WasClean, OwnStays DEF OwnHash
<1>2. OwnIn(files', uploads')
  <2>1. \A j \in DOMAIN files \cap DOMAIN files' :
          files'[j].sha = files[j].sha \/ \E u \in Ids : Stores(u, j, files'[j].sha)
    BY FileFacts
  <2>2. \A j \in DOMAIN files' \ DOMAIN files :
          \/ files'[j].sha = None
          \/ \E r \in Restores : j \in DOMAIN restores[r].files /\ files'[j] = restores[r].files[j]
    BY FileFacts
  <2>3. \A j \in Ids, u \in Ids : \A sha : Stores(u, j, sha) => sha = u /\ uploads'[u].file = j
    BY FileStays DEF Stores
  <2>. HIDE DEF Stores
  <2>. QED
    BY <1>0, <1>1, <2>1, <2>2, <2>3 DEF OwnIn
<1>3. \A fs : DOMAIN fs = {} => OwnIn(fs, uploads')
  BY DEF OwnIn
<1>4. OwnIn(sync'.files, uploads')
  <2>1. CASE sync'.files = sync.files
    BY <1>1, <2>1
  <2>2. CASE /\ DOMAIN sync'.files \subseteq DOMAIN files
             /\ \A j \in DOMAIN sync'.files : sync'.files[j] = files[j]
    BY <1>1, <2>2 DEF OwnIn
  <2>. QED
    BY <2>1, <2>2, ListFacts
<1>. HIDE DEF OwnIn
<1>. QED
  BY <1>1, <1>2, <1>3, <1>4, ListFacts

\* What Publish leaves when it answers well.
LEMMA PublishFacts ==
  ASSUME Typed, NEW u \in Ids, Publish(u), Clean', uploads'[u].at = "done"
  PROVE  LET id == uploads[u].file
         IN  /\ id \in DOMAIN files' /\ files'[id].sha = NewSha(u)
             /\ RowsOf(u) = Completed(RowsOf(u))
<1>0. uploads \in [Ids -> UploadState] /\ files \in FileTable /\ OnePathIn(files)
  BY DEF Typed, TypeOK, OnePath, OnePathIn
<1>. DEFINE row == NewRow(u)
            id  == uploads[u].file
<1>1. RowsOf(u) = Completed(RowsOf(u))
  BY <1>0 DEF Publish, Record
<1>2. row \in RecordType /\ row.sha = NewSha(u) /\ row.path = uploads[u].path /\ id \in Ids
  BY NewRowType
<1>3. files' = Upserted(files, id, row) /\ RowAt(files, uploads[u].path) = {id}
  BY <1>1 DEF Publish, Record, NewRow, NewSha, Spoil, Clean
<1>. HIDE DEF row, id
<1>4. id \in DOMAIN files /\ files[id].path = row.path
  BY <1>2, <1>3 DEF RowAt
<1>5. id \in DOMAIN files' /\ files'[id] = row
  BY <1>0, <1>2, <1>3, <1>4, StepUpserts
<1>. QED
  BY <1>1, <1>2, <1>3, <1>5 DEF id

\* A file loses its hash only by being deleted.
LEMMA DoneHashStep ==
  ASSUME HashInv, [Next]_vars
  PROVE  DoneHash'
<1>. USE DEF HashInv
<1>. SUFFICES ASSUME Clean', NEW u \in Begun', NEW id \in DOMAIN files',
                     uploads'[u].at = "done", uploads'[u].file = id, files'[id].sha = None
              PROVE  WasDeleted(id)'
  BY DEF DoneHash
<1>0. uploads \in [Ids -> UploadState] /\ u \in Ids /\ id \in Ids /\ None \notin Ids
  BY FilesType, FileRow, BackupAssumption DEF Typed, TypeOK, Begun
<1>1. CASE uploads[u].at = "done"
  <2>0. u \in Begun /\ uploads[u].file = id
    BY <1>0, <1>1, BegunGrows DEF Begun
  <2>1. WasDeleted(id)
    <3>1. CASE id \in DOMAIN files
      <4>1. files[id].sha = None
        BY <1>0, <3>1, FileFacts DEF Stores
      <4>. QED
        BY <1>1, <2>0, <3>1, <4>1, WasClean DEF DoneHash
    <3>2. CASE id \notin DOMAIN files
      BY <1>0, <2>0, <3>2 DEF Missing
    <3>. QED
      BY <3>1, <3>2
  <2>. QED
    BY <1>0, <2>1, DeletedStays
<1>2. CASE uploads[u].at # "done"
  <2>1. Publish(u)
    <3>1. ASSUME NEW v \in Ids, Insert(v) PROVE FALSE
      <4>1. PICK p, j, sha : uploads' = [uploads EXCEPT ![v] =
              [at |-> "storing", path |-> p, file |-> j, sha |-> sha, posted |-> {}]]
        BY <3>1 DEF Insert
      <4>. QED
        BY <1>0, <1>2, <4>1
    <3>2. ASSUME NEW v \in Ids, Publish(v) PROVE v = u
      <4>1. PICK at : uploads' = [uploads EXCEPT ![v].at = at]
        BY <3>2 DEF Publish, Record
      <4>. QED
        BY <1>0, <1>2, <4>1
    <3>3. ASSUME NEW v \in Ids, NEW i \in Parts, StorePart(v, i) PROVE FALSE
      BY <1>0, <1>2, <3>3 DEF StorePart, UploadState
    <3>. QED
      BY <1>2, <3>1, <3>2, <3>3, WhoWrites DEF Frame, UploadStep
  <2>2. u \in Begun
    BY <1>0, <2>1 DEF Publish, Record, Begun
  <2>3. uploads[u].file = id
    BY <2>2, BegunGrows
  <2>4. files'[id].sha = NewSha(u) /\ NewSha(u) \in Ids
    BY <1>0, <2>1, <2>3, PublishFacts, NewRowType
  <2>. QED
    BY <1>0, <2>4
<1>. QED
  BY <1>1, <1>2

\* The initial states have what the steps keep.
LEMMA HashInit == Init => HashInv
<1>. SUFFICES ASSUME Init PROVE HashInv
  OBVIOUS
<1>0. Typed /\ DOMAIN <<>> = {}
  BY TypedInit, EmptyTable
<1>. USE BackupAssumption DEF Init
<1>1. DOMAIN files = DOMAIN Stored /\ \A id \in DOMAIN files : files[id].sha = id
  OBVIOUS
<1>2. \A u \in Ids : /\ uploads[u].at # "idle" <=> u \in DOMAIN Stored
                     /\ u \in DOMAIN Stored => uploads[u].file = u
  BY DEF NoUpload
<1>3. Begun = DOMAIN Stored
  BY <1>2 DEF Begun
<1>4. BackedUp = {}
  <2>1. sync.chunks = {} /\ newest.chunks = {} /\ \A r \in Restores : restores[r].rows = {}
    BY DEF NoSync, NoBackup, NoRestore
  <2>. QED
    BY <2>1 DEF BackedUp
<1>5. /\ sync.files = <<>> /\ newest.files = <<>>
      /\ \A r \in Restores : restores[r].files = <<>>
      /\ \A d \in Deleters : deletes[d].at = "idle"
  BY DEF NoSync, NoBackup, NoRestore, NoDelete
<1>6. \A k \in DOMAIN chunks : k[1] \in DOMAIN Stored
  OBVIOUS
<1>7. Known
  BY <1>0, <1>1, <1>2, <1>3, <1>4, <1>5, <1>6 DEF Known
<1>8. Kept /\ Missing
  BY <1>1, <1>2, <1>3, <1>4 DEF Kept, Missing
<1>9. OwnHash
  <2>1. OwnIn(files, uploads)
    BY <1>1, <1>2 DEF OwnIn
  <2>. QED
    BY <1>0, <1>5, <2>1 DEF OwnHash, OwnIn
<1>10. DoneHash
  <2>1. \A id \in DOMAIN files : files[id].sha # None
    BY <1>1
  <2>. QED
    BY <2>1 DEF DoneHash
<1>. QED
  BY <1>0, <1>7, <1>8, <1>9, <1>10 DEF HashInv

\* Every step keeps it.
LEMMA HashStep == HashInv /\ [Next]_vars => HashInv'
<1>. SUFFICES ASSUME HashInv, [Next]_vars PROVE HashInv'
  OBVIOUS
<1>1. DoneHash'
  BY DoneHashStep
<1>2. Typed' /\ Known' /\ Kept' /\ Missing' /\ OwnHash'
  BY TypedStep, KnownStep, KeptStep, MissingStep, OwnHashStep DEF HashInv
<1>. QED
  BY <1>1, <1>2 DEF HashInv

\* The hash of a published file is that of an upload of it, unless the file was deleted
\* and came back from a backup that was taken while it was uploaded.
THEOREM HashesAreOwn == Spec => []HashIsOwn
<1>1. HashInv => HashIsOwn
  <2>. SUFFICES ASSUME HashInv, Clean, NEW u \in Ids, NEW id, id = uploads[u].file,
                       uploads[u].at = "done", id \in DOMAIN files
                PROVE  \/ \E w \in Ids : uploads[w].file = id /\ files[id].sha = w
                       \/ files[id].sha = None /\ WasDeleted(id)
    BY DEF HashIsOwn, Clean
  <2>1. u \in Begun /\ OwnIn(files, uploads)
    BY DEF HashInv, OwnHash, Begun
  <2>. QED
    BY <2>1 DEF HashInv, OwnIn, DoneHash
<1>. QED
  BY <1>1, HashInit, HashStep, PTL DEF Spec

-----------------------------------------------------------------------------
(***************************************************************************)
(* Backups.                                                                *)
(***************************************************************************)
RowHere(k) == k \in DOMAIN chunks /\ chunks[k] = "COMPLETED"
AllHere(u) == \A k \in RowsOf(u) : RowHere(k)

\* The record of file id has the hash of upload u, which was of that file.
Here(id, u) == id \in DOMAIN files /\ files[id].sha = u /\ uploads[u].file = id
Full(id) == \E u \in Ids : Here(id, u) /\ AllHere(u)

\* Whole, as a function of the uploads.
Holds(b, ups) ==
  {id \in DOMAIN b.files :
     \E u \in Ids : ups[u].file = id /\ b.files[id].sha = u /\ RowsOf(u) \subseteq b.chunks}

\* What a running Sync owes is in its list, and its parts are read, or are there and
\* still to be read.
Listed(id) ==
  /\ id \in DOMAIN sync.files
  /\ \E u \in Ids : /\ sync.files[id].sha = u /\ uploads[u].file = id
                    /\ RowsOf(u) \subseteq sync.chunks \/ (id \in sync.todo /\ AllHere(u))

\* What was promised, and what will be, is stored in full; a running Sync owes all that
\* was promised before, and finds what it owes.
SyncInv ==
  /\ HashInv
  /\ Clean => promised \cup sync.owed \subseteq Settled
  /\ Clean /\ sync.at = "reading" => promised \subseteq sync.owed
  /\ Clean /\ "unread" \notin spoiled /\ sync.at = "reading" => \A id \in sync.owed : Listed(id)
  /\ Clean /\ "unread" \notin spoiled => promised \subseteq Whole(newest)

\* The COMPLETED rows of an upload.
LEMMA CompletedIs ==
  ASSUME NEW u \in Ids
  PROVE  /\ RowsOf(u) \subseteq Completed(Rows) <=> AllHere(u)
         /\ (RowsOf(u) \subseteq Completed(Rows))' <=> AllHere(u)'
         /\ RowsOf(u) = Completed(RowsOf(u)) => AllHere(u)
BY RowFacts DEF Completed, AllHere, RowHere, RowsOf, Rows

\* Settled, file by file.
LEMMA SettledIs ==
  /\ \A id : id \in Settled <=> Full(id)
  /\ \A id : id \in Settled' <=> Full(id)'
<1>1. ASSUME NEW id PROVE id \in Settled <=> Full(id)
  BY CompletedIs DEF Settled, InFull, Full, Here
<1>2. ASSUME NEW id PROVE id \in Settled' <=> Full(id)'
  BY CompletedIs DEF Settled, InFull, Full, Here
<1>. QED
  BY <1>1, <1>2

\* Whole is Holds.
LEMMA WholeIs ==
  /\ \A b : Whole(b) = Holds(b, uploads)
  /\ Whole(newest)' = Holds(newest', uploads')
BY DEF Whole, Holds, InFull, RowsOf

\* A record keeps the hash of an upload that has its rows, and a COMPLETED row stays,
\* until their file is deleted.
LEMMA HereStays ==
  ASSUME Typed, Known, [Next]_vars, Clean', NEW id \in Ids,
         \A d \in Deleters : DeleteFile(d) => deletes[d].id # id
  PROVE  /\ \A u \in Ids : Here(id, u) =>
              \E w \in Ids : Here(id, w)' /\ (w = u \/ (AllHere(w) /\ uploads[w].file = id))
         /\ \A u \in Ids : uploads[u].file = id =>
              \A k \in RowsOf(u) : RowHere(k) => RowHere(k)'
<1>1. ASSUME NEW u \in Ids, Here(id, u)
      PROVE  \E w \in Ids : Here(id, w)' /\ (w = u \/ (AllHere(w) /\ uploads[w].file = id))
  <2>1. id \in DOMAIN files'
    BY <1>1, FileFacts DEF Here
  <2>2. CASE files'[id].sha = files[id].sha
    BY <1>1, <2>1, <2>2, FileStays DEF Here
  <2>3. CASE files'[id].sha # files[id].sha
    <3>1. PICK w \in Ids : Stores(w, id, files'[id].sha)
      BY <1>1, <2>1, <2>3, FileFacts DEF Here
    <3>2. /\ files'[id].sha = w /\ uploads[w].file = id
          /\ RowsOf(w) = Completed(RowsOf(w))
      BY <3>1 DEF Stores
    <3>3. AllHere(w)
      BY <3>2, CompletedIs
    <3>4. Here(id, w)'
      BY <2>1, <3>2, FileStays DEF Here
    <3>. QED
      BY <3>2, <3>3, <3>4
  <2>. QED
    BY <2>2, <2>3
<1>2. ASSUME NEW u \in Ids, uploads[u].file = id, NEW k \in RowsOf(u), RowHere(k)
      PROVE  RowHere(k)'
  <2>1. ASSUME k \notin DOMAIN chunks' PROVE FALSE
    <3>1. PICK d \in Deleters : DeleteFile(d) /\ uploads[k[1]].file = deletes[d].id
      BY <1>2, <2>1, ChunkFacts DEF RowHere
    <3>2. k[1] = u
      BY <1>2 DEF RowsOf
    <3>. QED
      BY <1>2, <3>1, <3>2
  <2>. QED
    BY <1>2, <2>1, ChunkFacts DEF RowHere
<1>. QED
  BY <1>1, <1>2

\* The same for all rows of an upload.
LEMMA AllHereStays ==
  ASSUME Typed, Known, [Next]_vars, Clean', NEW id \in Ids,
         \A d \in Deleters : DeleteFile(d) => deletes[d].id # id,
         NEW u \in Ids, uploads[u].file = id, AllHere(u)
  PROVE  AllHere(u)'
<1>1. \A k \in RowsOf(u) : RowHere(k)'
  BY HereStays DEF AllHere
<1>. QED
  BY <1>1 DEF AllHere, RowsOf

\* A file that is stored in full stays so until it is deleted.
LEMMA SettledStays ==
  ASSUME Typed, Known, [Next]_vars, Clean', NEW id \in Settled,
         \A d \in Deleters : DeleteFile(d) => deletes[d].id # id
  PROVE  id \in Settled'
<1>0. Full(id) /\ id \in Ids
  BY SettledIs, FileRow DEF Full, Here, Typed, TypeOK
<1>1. PICK u \in Ids : Here(id, u) /\ AllHere(u)
  BY <1>0 DEF Full
<1>2. PICK w \in Ids : Here(id, w)' /\ AllHere(w) /\ uploads[w].file = id
  BY <1>0, <1>1, HereStays DEF Here
<1>3. AllHere(w)'
  BY <1>0, <1>2, AllHereStays
<1>4. Full(id)'
  BY <1>2, <1>3 DEF Full
<1>. QED
  BY <1>4, SettledIs

\* What a step makes of the debts of Sync.
LEMMA OwedFacts ==
  ASSUME Typed, [Next]_vars
  PROVE  /\ promised' \cup sync'.owed \subseteq promised \cup sync.owed \cup Settled
         /\ \A d \in Deleters : DeleteFile(d) =>
              deletes[d].id \notin promised' \cup sync'.owed
<1>0. sync \in SyncState
  BY DEF Typed, TypeOK
<1>1. ASSUME NEW d \in Deleters, DeleteFile(d)
      PROVE  /\ promised' \subseteq promised /\ sync'.owed \subseteq sync.owed
             /\ deletes[d].id \notin promised' \cup sync'.owed
  BY <1>0, <1>1 DEF DeleteFile, Forgotten, SyncState
<1>2. SyncList => promised' = promised /\ sync'.owed = Settled
  BY DEF SyncList
<1>3. SyncChunks => promised' = promised /\ sync'.owed = sync.owed
  BY <1>0 DEF SyncChunks, SyncState
<1>4. SyncPost => promised' \subseteq promised \cup sync.owed /\ sync'.owed = {}
  BY DEF SyncPost, NoSync
<1>. HIDE DEF Settled
<1>5. promised' \cup sync'.owed \subseteq promised \cup sync.owed \cup Settled
  BY <1>1, <1>2, <1>3, <1>4, WhoWrites DEF Frame, SyncStep
<1>. QED
  BY <1>1, <1>5

\* Debts are of files that are stored in full.
LEMMA OwedSettled ==
  ASSUME SyncInv, [Next]_vars, Clean'
  PROVE  promised' \cup sync'.owed \subseteq Settled'
<1>0. Typed /\ Known /\ Clean
  BY WasClean DEF SyncInv, HashInv
<1>. SUFFICES ASSUME NEW id \in promised' \cup sync'.owed PROVE id \in Settled'
  OBVIOUS
<1>1. id \in Settled
  BY <1>0, OwedFacts DEF SyncInv
<1>2. \A d \in Deleters : DeleteFile(d) => deletes[d].id # id
  BY <1>0, OwedFacts
<1>. QED
  BY <1>0, <1>1, <1>2, SettledStays

\* A Sync that begins owes all that was promised, and nothing is promised while it reads.
LEMMA PromisedOwed ==
  ASSUME SyncInv, [Next]_vars, Clean', sync'.at = "reading"
  PROVE  promised' \subseteq sync'.owed
<1>0. Typed /\ Clean /\ sync \in SyncState
  BY WasClean DEF SyncInv, HashInv, Typed, TypeOK
<1>1. promised \subseteq Settled /\ (sync.at = "reading" => promised \subseteq sync.owed)
  BY <1>0 DEF SyncInv
<1>. HIDE DEF Settled
<1>2. SyncList => promised' \subseteq sync'.owed
  BY <1>1 DEF SyncList
<1>3. SyncChunks => promised' \subseteq sync'.owed
  BY <1>0, <1>1 DEF SyncChunks, SyncState
<1>4. ~SyncPost
  BY DEF SyncPost, NoSync
<1>5. ASSUME NEW d \in Deleters, DeleteFile(d) PROVE promised' \subseteq sync'.owed
  <2>1. /\ sync'.owed = sync.owed \ {deletes[d].id} /\ sync'.at = sync.at
        /\ promised' = promised \ {deletes[d].id}
    BY <1>0, <1>5 DEF DeleteFile, Forgotten, SyncState
  <2>. QED
    BY <1>1, <2>1
<1>6. CASE sync' = sync /\ promised' = promised
  BY <1>1, <1>6
<1>. QED
  BY <1>2, <1>3, <1>4, <1>5, <1>6, WhoWrites DEF Frame, SyncStep

\* A running Sync finds what it owes: it is in the list, and its rows are read.
LEMMA OwedListed ==
  ASSUME SyncInv, [Next]_vars, Clean', "unread" \notin spoiled', sync'.at = "reading",
         NEW id \in sync'.owed
  PROVE  Listed(id)'
<1>0. Typed /\ Known /\ Clean /\ sync \in SyncState /\ "unread" \notin spoiled
  BY WasClean, SpoiledGrows DEF SyncInv, HashInv, Typed, TypeOK
<1>1. sync.owed \subseteq Settled /\ (sync.at = "reading" => \A j \in sync.owed : Listed(j))
  BY <1>0 DEF SyncInv
<1>a. id \in Ids /\ \A d \in Deleters : DeleteFile(d) => deletes[d].id # id
  BY <1>0, SyncType, OwedFacts DEF SyncState
<1>2. CASE SyncList
  <2>1. PICK listed \in SUBSET DOMAIN files :
          /\ sync' = [at |-> "reading", files |-> Restrict(files, listed), todo |-> listed,
                      chunks |-> {}, owed |-> Settled]
          /\ listed = DOMAIN files
    BY <1>2 DEF SyncList, Spoil
  <2>2. /\ sync'.files = Restrict(files, DOMAIN files) /\ sync'.todo = DOMAIN files
        /\ id \in Settled
    BY <2>1
  <2>3. DOMAIN sync'.files = DOMAIN files /\ \A j \in DOMAIN files : sync'.files[j] = files[j]
    BY <2>2 DEF Restrict
  <2>4. PICK u \in Ids : Here(id, u) /\ AllHere(u)
    BY <2>2, SettledIs DEF Full
  <2>5. AllHere(u)' /\ uploads'[u].file = id
    BY <1>0, <1>a, <2>4, AllHereStays, FileStays DEF Here
  <2>. QED
    BY <2>2, <2>3, <2>4, <2>5 DEF Here, Listed
<1>3. CASE SyncChunks
  <2>1. PICK j \in Ids : /\ sync' = [sync EXCEPT !.todo = @ \ {j}, !.chunks = @ \cup Completed(FileRows(j))]
                         /\ sync.at = "reading"
    BY <1>3 DEF SyncChunks, Spoil
  <2>2. /\ sync'.files = sync.files /\ sync'.owed = sync.owed /\ sync'.todo = sync.todo \ {j}
        /\ sync'.chunks = sync.chunks \cup Completed(FileRows(j))
    BY <1>0, <2>1 DEF SyncState
  <2>3. Listed(id)
    BY <1>1, <2>1, <2>2
  <2>4. PICK u \in Ids : /\ id \in DOMAIN sync.files /\ sync.files[id].sha = u /\ uploads[u].file = id
                         /\ RowsOf(u) \subseteq sync.chunks \/ (id \in sync.todo /\ AllHere(u))
    BY <2>3 DEF Listed
  <2>5. uploads'[u].file = id
    BY <1>0, <1>a, <2>4, FileStays
  <2>6. AllHere(u) => AllHere(u)'
    BY <1>0, <1>a, <2>4, AllHereStays
  <2>7. id = j /\ AllHere(u) => RowsOf(u) \subseteq sync'.chunks
    <3>1. RowsOf(u) \subseteq Rows /\ \A k \in RowsOf(u) : k[1] = u
      BY RowFacts
    <3>2. id = j /\ AllHere(u) => RowsOf(u) \subseteq Completed(FileRows(j))
      BY <2>4, <3>1 DEF AllHere, RowHere, Completed, FileRows
    <3>. QED
      BY <2>2, <3>2
  <2>8. RowsOf(u) \subseteq sync'.chunks \/ (id \in sync'.todo /\ AllHere(u)')
    BY <2>2, <2>4, <2>6, <2>7
  <2>. QED
    BY <2>2, <2>4, <2>5, <2>8 DEF Listed, RowsOf
<1>4. ~SyncPost
  BY DEF SyncPost, NoSync
<1>5. ASSUME sync'.at = sync.at, sync'.owed \subseteq sync.owed, sync'.files = sync.files,
             sync'.todo = sync.todo, sync'.chunks = sync.chunks
      PROVE  Listed(id)'
  <2>1. Listed(id)
    BY <1>1, <1>5
  <2>2. PICK u \in Ids : /\ id \in DOMAIN sync.files /\ sync.files[id].sha = u /\ uploads[u].file = id
                         /\ RowsOf(u) \subseteq sync.chunks \/ (id \in sync.todo /\ AllHere(u))
    BY <2>1 DEF Listed
  <2>3. uploads'[u].file = id
    BY <1>0, <1>a, <2>2, FileStays
  <2>4. AllHere(u) => AllHere(u)'
    BY <1>0, <1>a, <2>2, AllHereStays
  <2>. QED
    BY <1>5, <2>2, <2>3, <2>4 DEF Listed, RowsOf
<1>6. ASSUME NEW d \in Deleters, DeleteFile(d) PROVE Listed(id)'
  <2>1. /\ sync'.owed \subseteq sync.owed /\ sync'.at = sync.at
        /\ sync'.files = sync.files /\ sync'.todo = sync.todo /\ sync'.chunks = sync.chunks
    BY <1>0, <1>6 DEF DeleteFile, Forgotten, SyncState
  <2>. QED
    BY <1>5, <2>1
<1>7. CASE sync' = sync
  BY <1>5, <1>7
<1>. QED
  BY <1>2, <1>3, <1>4, <1>6, <1>7, WhoWrites DEF Frame, SyncStep

\* The backup that is posted holds all that is promised.
LEMMA NewestHolds ==
  ASSUME SyncInv, [Next]_vars, Clean', "unread" \notin spoiled'
  PROVE  promised' \subseteq Whole(newest)'
<1>0. /\ Typed /\ Clean /\ "unread" \notin spoiled
      /\ newest \in [files : FileTable, chunks : SUBSET Rows] /\ promised \subseteq Ids
      /\ sync \in SyncState
  BY WasClean, SpoiledGrows DEF SyncInv, HashInv, Typed, TypeOK
<1>. SUFFICES promised' \subseteq Holds(newest', uploads')
  BY WholeIs
<1>1. promised \subseteq Holds(newest, uploads)
  BY <1>0, WholeIs DEF SyncInv
<1>2. CASE newest' = newest /\ promised' \subseteq promised
  BY <1>0, <1>1, <1>2, FileStays DEF Holds
<1>3. ASSUME SyncPost, newest' # newest \/ ~(promised' \subseteq promised)
      PROVE  promised' \subseteq Holds(newest', uploads')
  <2>1. /\ newest'.files = sync.files /\ newest'.chunks = sync.chunks
        /\ promised' = promised \cup sync.owed /\ sync.at = "reading" /\ sync.todo = {}
    BY <1>3 DEF SyncPost
  <2>2. promised' = sync.owed
    BY <1>0, <2>1 DEF SyncInv
  <2>3. \A id \in sync.owed : id \in Ids /\ Listed(id)
    BY <1>0, <2>1 DEF SyncInv, SyncState
  <2>. QED
    BY <1>0, <2>1, <2>2, <2>3, FileStays DEF Holds, Listed
<1>4. SyncList \/ SyncChunks => promised' = promised
  BY DEF SyncList, SyncChunks
<1>5. ASSUME NEW d \in Deleters, DeleteFile(d) PROVE promised' \subseteq promised
  BY <1>5 DEF DeleteFile, Forgotten
<1>6. SyncPost \/ newest' = newest
  BY WhoWrites DEF Frame
<1>. QED
  BY <1>2, <1>3, <1>4, <1>5, <1>6, WhoWrites DEF Frame, SyncStep

\* The debts of Sync are kept by every step.
LEMMA SyncInvStep == SyncInv /\ [Next]_vars => SyncInv'
<1>. SUFFICES ASSUME SyncInv, [Next]_vars PROVE SyncInv'
  OBVIOUS
<1>1. HashInv'
  BY HashStep DEF SyncInv
<1>2. Clean' => promised' \cup sync'.owed \subseteq Settled'
  BY OwedSettled
<1>3. Clean' /\ sync'.at = "reading" => promised' \subseteq sync'.owed
  BY PromisedOwed
<1>4. Clean' /\ "unread" \notin spoiled' /\ sync'.at = "reading" => \A id \in sync'.owed : Listed(id)'
  BY OwedListed
<1>5. Clean' /\ "unread" \notin spoiled' => promised' \subseteq Whole(newest)'
  BY NewestHolds
<1>6. (\A id \in sync.owed : Listed(id))' <=> \A id \in sync'.owed : Listed(id)'
  OBVIOUS
<1>. QED
  BY <1>1, <1>2, <1>3, <1>4, <1>5, <1>6 DEF SyncInv

\* There are none at first.
LEMMA SyncInvInit == Init => SyncInv
<1>. SUFFICES ASSUME Init PROVE SyncInv
  OBVIOUS
<1>1. promised = {} /\ sync.owed = {} /\ sync.at = "idle"
  BY DEF Init, NoSync
<1>. QED
  BY <1>1, HashInit DEF SyncInv

\* An acknowledged backup holds every file that was stored in full when it began, with
\* its hash and all its parts, as long as the file is not deleted.
THEOREM BackupsHold == Spec => []BackupHoldsSettled
<1>1. SyncInv => BackupHoldsSettled
  BY DEF SyncInv, BackupHoldsSettled, Clean
<1>. QED
  BY <1>1, SyncInvInit, SyncInvStep, PTL DEF Spec

-----------------------------------------------------------------------------
(***************************************************************************)
(* Restores.                                                               *)
(***************************************************************************)
\* What a running Restore owes is in its list, and is written or still to be written.
Coming(r, id) ==
  \E u \in Ids :
    /\ uploads[u].file = id
    /\ \A k \in RowsOf(u) : k \in restores[r].rows \/ RowHere(k)
    /\ \/ id \in restores[r].todo /\ restores[r].files[id].sha = u
       \/ Here(id, u)

Paid(r) ==
  /\ restores[r].at = "writing" => \A id \in restores[r].owed : Coming(r, id)
  /\ restores[r].at = "done" => restores[r].owed \subseteq Settled

RestoreInv ==
  /\ HashInv
  /\ Clean /\ "dropped" \notin spoiled => \A r \in Restores : Paid(r)

\* What a step makes of a Restore.
LEMMA RestoreFacts ==
  ASSUME Typed, [Next]_vars, NEW r \in Restores
  PROVE  LET now == restores[r]
             new == restores'[r]
         IN  \/ new = now
             \/ /\ Fetch(r) /\ new.at = "writing" /\ new.files = newest.files
                /\ new.todo = DOMAIN newest.files /\ new.rows = newest.chunks
                /\ new.owed = Whole(newest)
             \/ RestoreFile(r) /\ new.at = now.at /\ new.files = now.files
                /\ new.rows = now.rows /\ new.owed = now.owed
             \/ RestoreChunk(r) /\ new.at = now.at /\ new.files = now.files
                /\ new.todo = now.todo /\ new.owed = now.owed
             \/ RestoreEnd(r) /\ new.at = "done" /\ new.owed = now.owed
             \/ \E d \in Deleters :
                  /\ DeleteFile(d) /\ new.at = now.at /\ new.files = now.files
                  /\ new.todo = now.todo /\ new.rows = now.rows
                  /\ new.owed = now.owed \ {deletes[d].id}
<1>. DEFINE Goal ==
              \/ restores'[r] = restores[r]
              \/ /\ Fetch(r) /\ restores'[r].at = "writing" /\ restores'[r].files = newest.files
                 /\ restores'[r].todo = DOMAIN newest.files /\ restores'[r].rows = newest.chunks
                 /\ restores'[r].owed = Whole(newest)
              \/ /\ RestoreFile(r) /\ restores'[r].at = restores[r].at
                 /\ restores'[r].files = restores[r].files
                 /\ restores'[r].rows = restores[r].rows /\ restores'[r].owed = restores[r].owed
              \/ /\ RestoreChunk(r) /\ restores'[r].at = restores[r].at
                 /\ restores'[r].files = restores[r].files
                 /\ restores'[r].todo = restores[r].todo /\ restores'[r].owed = restores[r].owed
              \/ /\ RestoreEnd(r) /\ restores'[r].at = "done"
                 /\ restores'[r].owed = restores[r].owed
              \/ \E d \in Deleters :
                   /\ DeleteFile(d) /\ restores'[r].at = restores[r].at
                   /\ restores'[r].files = restores[r].files
                   /\ restores'[r].todo = restores[r].todo /\ restores'[r].rows = restores[r].rows
                   /\ restores'[r].owed = restores[r].owed \ {deletes[d].id}
<1>0. restores \in [Restores -> RestoreState]
  BY DEF Typed, TypeOK
<1>1. ASSUME NEW q \in Restores, Fetch(q) PROVE Goal
  <2>. DEFINE w == Whole(newest)
  <2>. HIDE DEF w
  <2>1. restores' = [restores EXCEPT ![q] =
               [at |-> "writing", files |-> newest.files, todo |-> DOMAIN newest.files,
                rows |-> newest.chunks, owed |-> w]]
    BY <1>1 DEF Fetch, w
  <2>2. CASE r # q
    BY <1>0, <2>1, <2>2
  <2>3. CASE r = q
    <3>1. /\ restores'[r].at = "writing" /\ restores'[r].files = newest.files
          /\ restores'[r].todo = DOMAIN newest.files /\ restores'[r].rows = newest.chunks
          /\ restores'[r].owed = w
      BY <1>0, <2>1, <2>3
    <3>. QED
      BY <1>1, <2>3, <3>1 DEF w
  <2>. QED
    BY <2>2, <2>3
<1>2. ASSUME NEW q \in Restores, RestoreFile(q) PROVE Goal
  <2>1. PICK id \in Ids : restores' = [restores EXCEPT ![q].todo = @ \ {id}]
    BY <1>2 DEF RestoreFile
  <2>2. \/ restores'[r] = restores[r]
        \/ /\ r = q /\ restores'[r].at = restores[r].at /\ restores'[r].files = restores[r].files
           /\ restores'[r].rows = restores[r].rows /\ restores'[r].owed = restores[r].owed
    BY <1>0, <2>1 DEF RestoreState
  <2>. QED
    BY <1>2, <2>2
<1>3. ASSUME NEW q \in Restores, RestoreChunk(q) PROVE Goal
  <2>1. PICK k \in Rows : restores' = [restores EXCEPT ![q].rows = @ \ {k}]
    BY <1>3 DEF RestoreChunk
  <2>2. \/ restores'[r] = restores[r]
        \/ /\ r = q /\ restores'[r].at = restores[r].at /\ restores'[r].files = restores[r].files
           /\ restores'[r].todo = restores[r].todo /\ restores'[r].owed = restores[r].owed
    BY <1>0, <2>1 DEF RestoreState
  <2>. QED
    BY <1>3, <2>2
<1>4. ASSUME NEW q \in Restores, RestoreEnd(q) PROVE Goal
  <2>1. restores' = [restores EXCEPT ![q] = [NoRestore EXCEPT !.at = "done", !.owed = restores[q].owed]]
    BY <1>4 DEF RestoreEnd
  <2>2. \/ restores'[r] = restores[r]
        \/ r = q /\ restores'[r].at = "done" /\ restores'[r].owed = restores[r].owed
    BY <1>0, <2>1 DEF RestoreState, NoRestore
  <2>. QED
    BY <1>4, <2>2
<1>5. ASSUME NEW d \in Deleters, DeleteFile(d) PROVE Goal
  <2>1. restores'[r] = [restores[r] EXCEPT !.owed = @ \ {deletes[d].id}]
    BY <1>5 DEF DeleteFile, Forgotten
  <2>2. /\ restores'[r].at = restores[r].at /\ restores'[r].files = restores[r].files
        /\ restores'[r].todo = restores[r].todo /\ restores'[r].rows = restores[r].rows
        /\ restores'[r].owed = restores[r].owed \ {deletes[d].id}
    BY <1>0, <2>1 DEF RestoreState
  <2>. QED
    BY <1>5, <2>2
<1>6. ASSUME restores' = restores PROVE Goal
  BY <1>6
<1>. HIDE DEF Goal
<1>7. Goal
  BY <1>1, <1>2, <1>3, <1>4, <1>5, <1>6, WhoWrites DEF Frame, RestoreStep
<1>. QED
  BY <1>7 DEF Goal

\* A file that a Restore owes is not deleted by this step.
LEMMA RestoreOwed ==
  ASSUME Typed, NEW r \in Restores, NEW d \in Deleters, DeleteFile(d)
  PROVE  deletes[d].id \notin restores'[r].owed
<1>1. restores[r] \in RestoreState /\ restores'[r] = [restores[r] EXCEPT !.owed = @ \ {deletes[d].id}]
  BY DEF DeleteFile, Forgotten, Typed, TypeOK
<1>. QED
  BY <1>1 DEF RestoreState

\* The record that a Restore writes has its hash afterwards: as long as nothing is
\* written over, a row at its path, or under its id, is the row of the same file.
LEMMA RestoreFileFacts ==
  ASSUME HashInv, [Next]_vars, NEW r \in Restores, RestoreFile(r), Clean', "dropped" \notin spoiled'
  PROVE  \E id \in Ids :
           /\ id \in restores[r].todo /\ restores'[r].todo = restores[r].todo \ {id}
           /\ \A u \in Ids : restores[r].files[id].sha = u /\ uploads[u].file = id => Here(id, u)'
<1>0. /\ Typed /\ files \in FileTable /\ OnePathIn(files) /\ restores \in [Restores -> RestoreState]
      /\ OwnIn(files, uploads)
  BY WasClean DEF HashInv, OwnHash, Typed, TypeOK, OnePath, OnePathIn
<1>1. PICK id \in Ids :
        LET row   == restores[r].files[id]
            there == RowAt(files, row.path)
            meets == IF there # {} THEN there ELSE {id} \cap DOMAIN files
        IN  /\ id \in restores[r].todo
            /\ restores' = [restores EXCEPT ![r].todo = @ \ {id}]
            /\ files' = Upserted(files, id, row) /\ uploads' = uploads
            /\ Spoil(IF \A j \in meets : files[j].sha = row.sha THEN {} ELSE {"overwritten"})
  BY DEF RestoreFile, IsFirst, Spoil, writers
<1>. DEFINE row   == restores[r].files[id]
            there == RowAt(files, row.path)
            meets == IF there # {} THEN there ELSE {id} \cap DOMAIN files
<1>2. row \in RecordType
  BY <1>0, <1>1, FileRow DEF Typed, Shape, RestoreState
<1>3. \A j \in meets : files[j].sha = row.sha
  BY <1>1 DEF Spoil, Clean
<1>4. restores'[r].todo = restores[r].todo \ {id}
  BY <1>0, <1>1 DEF RestoreState
<1>5. files' = Upserted(files, id, row)
  BY <1>1
<1>6. \A j \in DOMAIN files : j \in there <=> files[j].path = row.path
  BY DEF RowAt
<1>7. there \subseteq DOMAIN files
  BY DEF RowAt
<1>. HIDE DEF row
<1>8. /\ there = {} /\ id \notin DOMAIN files => id \in DOMAIN files' /\ files'[id] = row
      /\ there = {} /\ id \in DOMAIN files => files' = files
      /\ \A j \in DOMAIN files : j \in there => j \in DOMAIN files' /\ files'[j] = row
  BY <1>0, <1>2, <1>5, <1>6, StepUpserts
<1>. HIDE DEF there
<1>9. ASSUME NEW u \in Ids, row.sha = u, uploads[u].file = id PROVE Here(id, u)'
  <2>0. uploads'[u].file = id
    BY <1>1, <1>9
  <2>1. CASE there = {} /\ id \notin DOMAIN files
    BY <1>8, <1>9, <2>0, <2>1 DEF Here
  <2>2. CASE there = {} /\ id \in DOMAIN files
    BY <1>3, <1>8, <1>9, <2>0, <2>2 DEF Here
  <2>3. CASE there # {}
    <3>1. PICK j \in there : j \in DOMAIN files /\ files[j].sha = u
      BY <1>3, <1>7, <1>9, <2>3
    <3>2. j = id
      BY <1>0, <1>9, <3>1, BackupAssumption DEF OwnIn
    <3>. QED
      BY <1>8, <1>9, <2>0, <3>1, <3>2 DEF Here
  <2>. QED
    BY <2>1, <2>2, <2>3
<1>. QED
  BY <1>1, <1>4, <1>9 DEF row

\* The row that a Restore writes is COMPLETED afterwards.
LEMMA RestoreChunkFacts ==
  ASSUME HashInv, [Next]_vars, NEW r \in Restores, RestoreChunk(r), "dropped" \notin spoiled'
  PROVE  \E k \in Rows : restores'[r].rows = restores[r].rows \ {k} /\ RowHere(k)'
<1>0. restores \in [Restores -> RestoreState] /\ Kept
  BY DEF HashInv, Typed, TypeOK
<1>1. PICK k \in Rows :
        /\ k \in restores[r].rows /\ restores' = [restores EXCEPT ![r].rows = @ \ {k}]
        /\ chunks' = [j \in DOMAIN chunks \cup {k} |->
                        IF j \in DOMAIN chunks THEN chunks[j] ELSE "COMPLETED"]
  BY DEF RestoreChunk, IsFirstRow, Spoil
<1>2. restores'[r].rows = restores[r].rows \ {k}
  BY <1>0, <1>1 DEF RestoreState
<1>3. k \in BackedUp
  BY <1>1 DEF BackedUp
<1>4. RowHere(k)'
  BY <1>0, <1>1, <1>3 DEF RowHere, Kept
<1>. QED
  BY <1>2, <1>4

\* What a Restore owes stays listed, and what it has written stays written.
LEMMA PaidStep ==
  ASSUME RestoreInv, [Next]_vars, Clean', "dropped" \notin spoiled', NEW r \in Restores
  PROVE  Paid(r)'
<1>0. /\ Typed /\ Known /\ HashInv /\ Clean /\ Paid(r)
      /\ restores \in [Restores -> RestoreState]
  BY WasClean, SpoiledGrows DEF RestoreInv, HashInv, Typed, TypeOK
<1>1. \A id \in restores'[r].owed : \A d \in Deleters : DeleteFile(d) => deletes[d].id # id
  BY <1>0, RestoreOwed
<1>2. restores'[r].owed \subseteq Ids
  BY RestoresType, <1>0 DEF RestoreState
<1>3. ASSUME NEW id \in restores'[r].owed, restores'[r].files = restores[r].files, Coming(r, id),
             \A u \in Ids : /\ id \in restores[r].todo /\ restores[r].files[id].sha = u
                            /\ uploads[u].file = id
                            => id \in restores'[r].todo \/ Here(id, u)',
             \A k \in Rows : k \in restores[r].rows => k \in restores'[r].rows \/ RowHere(k)'
      PROVE  Coming(r, id)'
  <2>0. id \in Ids /\ \A d \in Deleters : DeleteFile(d) => deletes[d].id # id
    BY <1>1, <1>2, <1>3
  <2>1. PICK u \in Ids :
          /\ uploads[u].file = id
          /\ \A k \in RowsOf(u) : k \in restores[r].rows \/ RowHere(k)
          /\ \/ id \in restores[r].todo /\ restores[r].files[id].sha = u
             \/ Here(id, u)
    BY <1>3 DEF Coming
  <2>2. /\ uploads'[u].file = id
        /\ \A k \in RowsOf(u) : k \in restores'[r].rows \/ RowHere(k)'
    <3>1. RowsOf(u) \subseteq Rows
      BY RowFacts
    <3>2. \A k \in RowsOf(u) : RowHere(k) => RowHere(k)'
      BY <1>0, <2>0, <2>1, HereStays
    <3>. QED
      BY <1>0, <1>3, <2>0, <2>1, <3>1, <3>2, FileStays
  <2>3. CASE id \in restores[r].todo /\ restores[r].files[id].sha = u
    <3>1. id \in restores'[r].todo \/ Here(id, u)'
      BY <1>3, <2>1, <2>3
    <3>. QED
      BY <1>3, <2>2, <2>3, <3>1 DEF Coming, RowsOf
  <2>4. CASE Here(id, u)
    <3>1. PICK w \in Ids : Here(id, w)' /\ (w = u \/ (AllHere(w) /\ uploads[w].file = id))
      BY <1>0, <2>0, <2>4, HereStays
    <3>2. CASE w = u
      BY <2>2, <3>1, <3>2 DEF Coming, RowsOf
    <3>3. CASE AllHere(w) /\ uploads[w].file = id
      <4>1. AllHere(w)' /\ uploads'[w].file = id
        BY <1>0, <2>0, <3>3, AllHereStays, FileStays
      <4>. QED
        BY <3>1, <4>1 DEF Coming, AllHere
    <3>. QED
      BY <3>1, <3>2, <3>3
  <2>. QED
    BY <2>1, <2>3, <2>4
<1>4. ASSUME restores'[r].at = "done", restores'[r].owed \subseteq Settled
      PROVE  Paid(r)'
  BY <1>0, <1>1, <1>4, SettledStays DEF Paid
<1>5. CASE Fetch(r) /\ restores'[r].at = "writing"
  <2>1. /\ restores'[r].files = newest.files /\ restores'[r].todo = DOMAIN newest.files
        /\ restores'[r].rows = newest.chunks /\ restores'[r].owed = Whole(newest)
    BY <1>0, <1>5 DEF Fetch, RestoreState
  <2>2. uploads' = uploads
    BY <1>5 DEF Fetch, writers
  <2>3. \A id \in restores'[r].owed : Coming(r, id)'
    BY <2>1, <2>2 DEF Whole, InFull, Coming, RowsOf
  <2>. QED
    BY <1>5, <2>3 DEF Paid
<1>7. ASSUME restores'[r].at = restores[r].at, restores'[r].files = restores[r].files,
             restores'[r].owed \subseteq restores[r].owed,
             \A id \in Ids, u \in Ids :
               id \in restores[r].todo /\ restores[r].files[id].sha = u /\ uploads[u].file = id
                 => id \in restores'[r].todo \/ Here(id, u)',
             \A k \in Rows : k \in restores[r].rows => k \in restores'[r].rows \/ RowHere(k)'
      PROVE  Paid(r)'
  <2>1. ASSUME restores'[r].at = "writing", NEW id \in restores'[r].owed PROVE Coming(r, id)'
    <3>1. Coming(r, id) /\ id \in Ids
      BY <1>0, <1>2, <1>7, <2>1 DEF Paid
    <3>. QED
      BY <1>3, <1>7, <2>1, <3>1
  <2>2. ASSUME restores'[r].at = "done" PROVE Paid(r)'
    BY <1>0, <1>4, <1>7, <2>2 DEF Paid
  <2>. QED
    BY <2>1, <2>2 DEF Paid
<1>8. CASE RestoreFile(r) /\ restores'[r].at = restores[r].at
           /\ restores'[r].files = restores[r].files
           /\ restores'[r].rows = restores[r].rows /\ restores'[r].owed = restores[r].owed
  <2>1. PICK id \in Ids : /\ restores'[r].todo = restores[r].todo \ {id}
                          /\ \A u \in Ids : restores[r].files[id].sha = u /\ uploads[u].file = id
                                            => Here(id, u)'
    BY <1>0, <1>8, RestoreFileFacts
  <2>. QED
    BY <1>7, <1>8, <2>1
<1>9. CASE RestoreChunk(r) /\ restores'[r].at = restores[r].at
           /\ restores'[r].files = restores[r].files
           /\ restores'[r].todo = restores[r].todo /\ restores'[r].owed = restores[r].owed
  <2>1. PICK k \in Rows : restores'[r].rows = restores[r].rows \ {k} /\ RowHere(k)'
    BY <1>0, <1>9, RestoreChunkFacts
  <2>. QED
    BY <1>7, <1>9, <2>1
<1>10. CASE RestoreEnd(r) /\ restores'[r].at = "done" /\ restores'[r].owed = restores[r].owed
  <2>1. restores[r].at = "writing" /\ restores[r].todo = {} /\ restores[r].rows = {}
    BY <1>10 DEF RestoreEnd
  <2>2. ASSUME NEW id \in restores[r].owed PROVE id \in Settled
    <3>1. Coming(r, id) /\ id \in Ids
      BY <1>0, <2>1 DEF Paid, RestoreState
    <3>2. PICK u \in Ids : Here(id, u) /\ AllHere(u)
      BY <2>1, <3>1 DEF Coming, AllHere
    <3>. QED
      BY <3>2, SettledIs DEF Full
  <2>. QED
    BY <1>4, <1>10, <2>2
<1>11. CASE restores'[r] = restores[r]
  BY <1>7, <1>11
<1>12. CASE \E d \in Deleters :
               /\ DeleteFile(d) /\ restores'[r].at = restores[r].at
               /\ restores'[r].files = restores[r].files
               /\ restores'[r].todo = restores[r].todo /\ restores'[r].rows = restores[r].rows
               /\ restores'[r].owed = restores[r].owed \ {deletes[d].id}
  BY <1>7, <1>12
<1>. HIDE DEF Paid, Fetch, RestoreFile, RestoreChunk, RestoreEnd, DeleteFile
<1>. QED
  BY <1>0, <1>5, <1>8, <1>9, <1>10, <1>11, <1>12, RestoreFacts

\* A Restore that answers has brought back every file that the newest backup held in
\* full when it began, unless the file was deleted meanwhile.
THEOREM RestoresBringBack == Spec => []RestoreBringsBack
<1>1. Init => RestoreInv
  <2>. SUFFICES ASSUME Init PROVE RestoreInv
    OBVIOUS
  <2>1. \A r \in Restores : restores[r].at = "idle"
    BY DEF Init, NoRestore
  <2>. QED
    BY <2>1, HashInit DEF RestoreInv, Paid
<1>2. RestoreInv /\ [Next]_vars => RestoreInv'
  <2>. SUFFICES ASSUME RestoreInv, [Next]_vars PROVE RestoreInv'
    OBVIOUS
  <2>1. HashInv'
    BY HashStep DEF RestoreInv
  <2>2. Clean' /\ "dropped" \notin spoiled' => \A r \in Restores : Paid(r)'
    BY PaidStep
  <2>. QED
    BY <2>1, <2>2 DEF RestoreInv
<1>3. RestoreInv => RestoreBringsBack
  BY DEF RestoreInv, RestoreBringsBack, Clean, Paid
<1>. QED
  BY <1>1, <1>2, <1>3, PTL DEF Spec

-----------------------------------------------------------------------------
(***************************************************************************)
(* Rows and their messages.                                                *)
(***************************************************************************)
\* A row whose message is not its own shares it; what a delete has read is of its file,
\* or shared; and a row whose message a delete is about to remove is gone, or it came
\* back or was left (revived), or it shares the message.
RowInv ==
  /\ Typed /\ Known
  /\ RowsReadable
  /\ \A k \in Rows : names[k] # k => names[k] \in shared
  /\ \A d \in Deleters : deletes[d].at # "idle" =>
       \A m \in deletes[d].gone : m \in shared \/ uploads[m[1]].file = deletes[d].id
  /\ \A d \in Deleters : deletes[d].at \in {"shares", "messages"} =>
       \A m \in deletes[d].gone : m \in shared \/ m \notin DOMAIN chunks \/ m \in revived

\* What came back or was left, and what is shared, stays known.
LEMMA RevivedGrows == [Next]_vars => revived \subseteq revived' /\ shared \subseteq shared'
<1>. SUFFICES ASSUME [Next]_vars PROVE revived \subseteq revived' /\ shared \subseteq shared'
  OBVIOUS
<1>1. ASSUME NEW r \in Restores, RestoreChunk(r) PROVE revived \subseteq revived'
  BY <1>1 DEF RestoreChunk
<1>2. ASSUME NEW d \in Deleters, DeleteFile(d) PROVE revived \subseteq revived'
  BY <1>2 DEF DeleteFile
<1>3. ASSUME NEW u \in Ids, NEW i \in Parts, StorePart(u, i) PROVE shared \subseteq shared'
  BY <1>3 DEF StorePart
<1>. QED
  BY <1>1, <1>2, <1>3, WhoWrites DEF Frame, ReviveStep, NameStep

\* A row keeps its message or is given a shared one.
LEMMA NamesStep ==
  ASSUME RowInv, [Next]_vars, NEW k \in Rows
  PROVE  /\ names'[k] = names[k] \/ names'[k] \in shared'
         /\ names'[k] # k => names'[k] \in shared'
<1>0. names \in [Rows -> Rows] /\ (names[k] # k => names[k] \in shared)
  BY DEF RowInv, Typed, TypeOK
<1>1. names'[k] = names[k] \/ names'[k] \in shared'
  <2>1. ASSUME NEW u \in Ids, NEW i \in Parts, StorePart(u, i)
        PROVE  names'[k] = names[k] \/ names'[k] \in shared'
    <3>1. \/ names' = names
          \/ \E m : names' = [names EXCEPT ![<<u, i>>] = m] /\ shared' = shared \cup {m}
      BY <2>1 DEF StorePart
    <3>. QED
      BY <1>0, <3>1
  <2>. QED
    BY <2>1, WhoWrites DEF Frame, NameStep
<1>. QED
  BY <1>0, <1>1, RevivedGrows

\* Messages go only with the rows of a deleted file.
LEMMA RowsReadableStep ==
  ASSUME RowInv, [Next]_vars
  PROVE  RowsReadable'
<1>0. /\ Typed /\ Known /\ deletes \in [Deleters -> DeleteState] /\ names \in [Rows -> Rows]
      /\ \A k \in Rows : names[k] # k => names[k] \in shared
      /\ \A k \in Rows : k \in DOMAIN chunks /\ chunks[k] = "COMPLETED" /\ k \notin revived
                        => names[k] \in messages \cup shared
  BY DEF RowInv, RowsReadable, Completed, Typed, TypeOK
<1>. SUFFICES ASSUME NEW k \in Rows, k \in DOMAIN chunks', chunks'[k] = "COMPLETED", k \notin revived',
                     names'[k] \notin shared'
              PROVE  names'[k] \in messages'
  BY DEF RowsReadable, Completed
<1>a. /\ k \notin revived /\ names'[k] = names[k] /\ names[k] = k /\ k \notin shared
  BY <1>0, RevivedGrows, NamesStep
<1>1. CASE k \in DOMAIN chunks /\ chunks[k] = "COMPLETED"
  <2>1. k \in messages
    BY <1>0, <1>1, <1>a
  <2>2. ASSUME NEW u \in Ids, NEW i \in Parts, StorePart(u, i) PROVE messages \subseteq messages'
    BY <2>2 DEF StorePart
  <2>3. ASSUME NEW d \in Deleters, DeleteMessages(d) PROVE k \in messages'
    <3>1. messages' = messages \ deletes[d].gone /\ deletes[d].at = "messages"
      BY <2>3 DEF DeleteMessages
    <3>2. k \notin deletes[d].gone
      BY <1>1, <1>a, <3>1 DEF RowInv
    <3>. QED
      BY <2>1, <3>1, <3>2
  <2>4. k \in messages'
    BY <2>1, <2>2, <2>3, WhoWrites DEF Frame, MessageStep
  <2>. QED
    BY <1>a, <2>4
<1>2. CASE ~(k \in DOMAIN chunks /\ chunks[k] = "COMPLETED")
  <2>1. PICK u \in Ids, i \in Parts : StorePart(u, i) /\ k = <<u, i>>
    BY <1>0, <1>2, ChunkFacts
  <2>2. \/ messages' = messages \cup {k}
        \/ \E m : names' = [names EXCEPT ![k] = m] /\ shared' = shared \cup {m}
    BY <2>1 DEF StorePart
  <2>3. messages' = messages \cup {k}
    BY <1>0, <2>2
  <2>. QED
    BY <1>a, <2>3
<1>. QED
  BY <1>1, <1>2

\* What becomes of a delete that has read its rows, in one step.
LEMMA DeleteFacts ==
  ASSUME Typed, [Next]_vars, NEW d \in Deleters
  PROVE  \/ deletes'[d] = deletes[d]
         \/ /\ deletes'[d].at = "row" /\ uploads' = uploads
            /\ \E id \in Ids : /\ deletes'[d].id = id
                              /\ deletes'[d].gone = {names[k] : k \in Completed(FileRows(id))}
         \/ /\ DeleteFile(d) /\ deletes[d].at = "row" /\ deletes'[d].gone = deletes[d].gone
            /\ deletes'[d].id = deletes[d].id
         \/ /\ deletes[d].at = "shares" /\ deletes'[d].gone = deletes[d].gone
            /\ deletes'[d].id = deletes[d].id
         \/ deletes'[d].at = "done" /\ deletes'[d].gone = {}
<1>. DEFINE Goal ==
              \/ deletes'[d] = deletes[d]
              \/ /\ deletes'[d].at = "row" /\ uploads' = uploads
                 /\ \E id \in Ids : /\ deletes'[d].id = id
                                   /\ deletes'[d].gone = {names[k] : k \in Completed(FileRows(id))}
              \/ /\ DeleteFile(d) /\ deletes[d].at = "row" /\ deletes'[d].gone = deletes[d].gone
                 /\ deletes'[d].id = deletes[d].id
              \/ /\ deletes[d].at = "shares" /\ deletes'[d].gone = deletes[d].gone
                 /\ deletes'[d].id = deletes[d].id
              \/ deletes'[d].at = "done" /\ deletes'[d].gone = {}
<1>0. deletes \in [Deleters -> DeleteState]
  BY DEF Typed, TypeOK
<1>1. ASSUME NEW e \in Deleters, ReadDeleted(e) PROVE Goal
  <2>. DEFINE Gone(id) == {names[k] : k \in Completed(FileRows(id))}
  <2>1. PICK id \in Ids : deletes' =
          [deletes EXCEPT ![e] = [at |-> "row", id |-> id, gone |-> Gone(id)]]
    BY <1>1 DEF ReadDeleted
  <2>2. uploads' = uploads
    BY <1>1 DEF ReadDeleted
  <2>. HIDE DEF Gone
  <2>3. CASE d # e
    BY <1>0, <2>1, <2>3
  <2>4. CASE d = e
    <3>1. deletes'[d].at = "row" /\ deletes'[d].id = id /\ deletes'[d].gone = Gone(id)
      BY <1>0, <2>1, <2>4
    <3>. QED
      BY <2>2, <3>1 DEF Gone
  <2>. QED
    BY <2>3, <2>4
<1>2. ASSUME NEW e \in Deleters, DeleteFile(e) PROVE Goal
  <2>1. deletes[e].at = "row" /\ deletes' = [deletes EXCEPT ![e].at = "shares"]
    BY <1>2 DEF DeleteFile
  <2>. QED
    BY <1>0, <1>2, <2>1 DEF DeleteState
<1>3. ASSUME NEW e \in Deleters, DeleteShares(e) PROVE Goal
  BY <1>0, <1>3 DEF DeleteShares, DeleteState
<1>4. ASSUME NEW e \in Deleters, DeleteMessages(e) PROVE Goal
  BY <1>0, <1>4 DEF DeleteMessages, DeleteState
<1>5. ASSUME deletes' = deletes PROVE Goal
  BY <1>5
<1>. HIDE DEF Goal
<1>6. Goal
  BY <1>1, <1>2, <1>3, <1>4, <1>5, WhoWrites DEF Frame, DeleteStep
<1>. QED
  BY <1>6 DEF Goal

\* The messages that a delete has read are those of its file, or shared.
LEMMA GoneStep ==
  ASSUME RowInv, [Next]_vars, NEW d \in Deleters, deletes'[d].at # "idle",
         NEW m \in deletes'[d].gone, m \notin shared'
  PROVE  uploads'[m[1]].file = deletes'[d].id
<1>0. /\ Typed /\ m \notin shared /\ deletes \in [Deleters -> DeleteState]
      /\ names \in [Rows -> Rows]
      /\ \A k \in Rows : names[k] # k => names[k] \in shared
  BY RevivedGrows DEF RowInv, Typed, TypeOK
<1>1. CASE /\ deletes[d].at # "idle" /\ m \in deletes[d].gone /\ deletes'[d].id = deletes[d].id
  <2>1. uploads[m[1]].file = deletes[d].id /\ deletes[d].id \in Ids /\ m \in Rows
    BY <1>0, <1>1 DEF RowInv, Typed, Shape, DeleteState
  <2>2. m[1] \in Ids
    BY <2>1, RowFacts
  <2>. QED
    BY <1>0, <1>1, <2>1, <2>2, FileStays
<1>2. CASE /\ uploads' = uploads
           /\ \E id \in Ids : /\ deletes'[d].id = id
                             /\ deletes'[d].gone = {names[k] : k \in Completed(FileRows(id))}
  <2>1. PICK k \in Rows : m = names[k] /\ uploads[k[1]].file = deletes'[d].id
    BY <1>2 DEF Completed, FileRows
  <2>. QED
    BY <1>0, <1>2, <2>1
<1>3. CASE deletes'[d].gone = {}
  BY <1>3
<1>4. CASE deletes'[d] = deletes[d]
  BY <1>1, <1>4
<1>5. CASE /\ deletes[d].at \in {"row", "shares"} /\ deletes'[d].gone = deletes[d].gone
           /\ deletes'[d].id = deletes[d].id
  BY <1>1, <1>5
<1>. QED
  BY <1>0, <1>2, <1>3, <1>4, <1>5, DeleteFacts

\* When a delete goes on to the messages, the rows that it has read are gone, or known
\* to be left or to share their message.
LEMMA RowsGoneStep ==
  ASSUME RowInv, [Next]_vars, NEW d \in Deleters, deletes'[d].at \in {"shares", "messages"},
         NEW m \in deletes'[d].gone, m \notin shared', m \in DOMAIN chunks'
  PROVE  m \in revived'
<1>0. /\ Typed /\ Known /\ m \notin shared /\ deletes \in [Deleters -> DeleteState]
  BY RevivedGrows DEF RowInv, Typed, TypeOK
<1>1. /\ m \in deletes[d].gone /\ deletes[d].at # "idle"
      /\ deletes[d].at \in {"shares", "messages"} \/ DeleteFile(d)
  BY <1>0, DeleteFacts
<1>2. /\ uploads[m[1]].file = deletes[d].id /\ deletes[d].id \in Ids
      /\ m \in Rows /\ m[1] \in Ids
  BY <1>0, <1>1, RowFacts DEF RowInv, Typed, Shape, DeleteState
<1>3. CASE DeleteFile(d)
  <2>1. m \in FileRows(deletes[d].id)
    BY <1>2 DEF FileRows
  <2>. DEFINE rows == FileRows(deletes[d].id) \cap DOMAIN chunks
  <2>2. \/ chunks' = Restrict(chunks, DOMAIN chunks \ rows)
        \/ chunks' = chunks /\ revived' = revived \cup rows
    BY <1>3 DEF DeleteFile
  <2>3. m \in DOMAIN chunks => m \in rows
    BY <2>1
  <2>. HIDE DEF rows
  <2>4. chunks' # Restrict(chunks, DOMAIN chunks \ rows)
    <3>1. DOMAIN Restrict(chunks, DOMAIN chunks \ rows) = DOMAIN chunks \ rows
      BY DEF Restrict
    <3>. QED
      BY <2>3, <3>1
  <2>. QED
    BY <2>2, <2>3, <2>4
<1>4. CASE deletes[d].at \in {"shares", "messages"}
  <2>1. m \in DOMAIN chunks => m \in revived
    BY <1>0, <1>1, <1>4 DEF RowInv
  <2>2. m[1] \in Begun
    BY <1>0, <1>2, FileStays
  <2>3. m \in DOMAIN chunks' \ DOMAIN chunks => m \in revived'
    BY <1>0, <2>2, ChunkFacts
  <2>. QED
    BY <2>1, <2>3, RevivedGrows
<1>. QED
  BY <1>1, <1>3, <1>4

\* A COMPLETED row names a message that is on Discord, unless a Restore wrote it again
\* after its file was deleted, a failed DELETE left it, or it shares the message.
THEOREM RowsAreReadable == Spec => []RowsReadable
<1>1. Init => RowInv
  <2>. SUFFICES ASSUME Init PROVE RowInv
    OBVIOUS
  <2>1. \A k \in Rows : names[k] = k
    BY DEF Init
  <2>2. RowsReadable
    BY <2>1 DEF Init, RowsReadable, Completed
  <2>3. \A d \in Deleters : deletes[d].at = "idle"
    BY DEF Init, NoDelete
  <2>. QED
    BY <2>1, <2>2, <2>3, HashInit DEF RowInv, HashInv
<1>2. RowInv /\ [Next]_vars => RowInv'
  <2>. SUFFICES ASSUME RowInv, [Next]_vars PROVE RowInv'
    OBVIOUS
  <2>1. Typed' /\ Known'
    BY TypedStep, KnownStep DEF RowInv
  <2>2. \A k \in Rows : names'[k] # k => names'[k] \in shared'
    BY NamesStep
  <2>3. \A d \in Deleters : deletes'[d].at # "idle" =>
          \A m \in deletes'[d].gone : m \in shared' \/ uploads'[m[1]].file = deletes'[d].id
    BY GoneStep
  <2>4. \A d \in Deleters : deletes'[d].at \in {"shares", "messages"} =>
          \A m \in deletes'[d].gone : m \in shared' \/ m \notin DOMAIN chunks' \/ m \in revived'
    BY RowsGoneStep
  <2>. QED
    BY <2>1, <2>2, <2>3, <2>4, RowsReadableStep DEF RowInv, Rows
<1>3. RowInv => RowsReadable
  BY DEF RowInv
<1>. QED
  BY <1>1, <1>2, <1>3, PTL DEF Spec

-----------------------------------------------------------------------------
(***************************************************************************)
(* Share links.                                                            *)
(***************************************************************************)
\* A row in the table is of a link that was made, for its file, and has not ended; a link that
\* was made is in the table until it ends or expires; and nobody was let in through a link
\* that had ended or expired.
LinkInv ==
  /\ \A l \in ended : l \notin DOMAIN shares /\ links[l].at = "made"
  /\ \A l \in DOMAIN shares : links[l].at = "made" /\ shares[l] = links[l].file
  /\ LiveLinksStay
  /\ \A v \in Visitors : ~visits[v].over

\* Links that end are taken out of the table.
LEMMA LinksTaken ==
  ASSUME LinkInv, NEW ls, RemoveLinks(ls), links' = links,
         \A l \in ls : links[l].at = "made",
         \A v \in Visitors : ~visits'[v].over
  PROVE  LinkInv'
<1>. DEFINE D == DOMAIN shares \ ls
<1>0. /\ shares' = Restrict(shares, D) /\ late' = late \ ls
      /\ ended' = ended \cup ls /\ D \subseteq DOMAIN shares
  BY DEF RemoveLinks
<1>1. DOMAIN shares' = D /\ \A l \in D : shares'[l] = shares[l]
  BY <1>0 DEF Restrict
<1>2. \A l \in ended' : l \notin DOMAIN shares' /\ links'[l].at = "made"
  BY <1>0, <1>1 DEF LinkInv
<1>3. \A l \in DOMAIN shares' : links'[l].at = "made" /\ shares'[l] = links'[l].file
  BY <1>1 DEF LinkInv
<1>4. LiveLinksStay'
  BY <1>0, <1>1 DEF LinkInv, LiveLinksStay
<1>. QED
  BY <1>2, <1>3, <1>4 DEF LinkInv

\* Every step on links and visits keeps the table true.
LEMMA LinkStep ==
  ASSUME Typed, LinkInv, [Next]_vars
  PROVE  LinkInv'
<1>0. /\ links \in [Links -> [at : {"none", "found", "made"}, file : Ids \cup {None}]]
      /\ visits \in [Visitors -> [at : {"idle", "found"}, file : Ids \cup {None}, over : BOOLEAN]]
      /\ ended \subseteq Links /\ DOMAIN shares \subseteq Links
  BY TableDef DEF Typed, TypeOK, SharesTypeOK
<1>. DEFINE Goal == LinkInv'
<1>1. ASSUME UNCHANGED shareVars PROVE Goal
  BY <1>1 DEF LinkInv, LiveLinksStay, shareVars
<1>2. ASSUME NEW d \in Deleters, DeleteShares(d) PROVE Goal
  <2>. DEFINE ls == LinksOf(deletes[d].id)
  <2>1. CASE DeleteSharesForFile(deletes[d].id)
    <3>1. RemoveLinks(ls) /\ links' = links /\ visits' = visits
      BY <2>1 DEF DeleteSharesForFile
    <3>2. \A l \in ls : links[l].at = "made"
      BY DEF LinksOf, LinkInv
    <3>. HIDE DEF ls
    <3>3. \A v \in Visitors : ~visits'[v].over
      BY <3>1 DEF LinkInv
    <3>. QED
      BY <3>1, <3>2, <3>3, LinksTaken
  <2>. QED
    BY <1>1, <1>2, <2>1 DEF DeleteShares
<1>3. ASSUME NEW l \in Links, FindShared(l) PROVE Goal
  <2>1. PICK id : links' = [links EXCEPT ![l] = [at |-> "found", file |-> id]]
    BY <1>3 DEF FindShared
  <2>2. links[l].at = "none" /\ UNCHANGED <<shares, late, visits, ended>>
    BY <1>3 DEF FindShared, NoLink
  <2>3. l \notin ended /\ l \notin DOMAIN shares
    BY <2>2 DEF LinkInv
  <2>4. links'[l].at = "found" /\ \A k \in Links \ {l} : links'[k] = links[k]
    BY <1>0, <2>1
  <2>. QED
    BY <1>0, <2>2, <2>3, <2>4 DEF LinkInv, LiveLinksStay
<1>4. ASSUME NEW l \in Links, CreateShare(l) PROVE Goal
  <2>1. /\ links[l].at = "found" /\ UNCHANGED <<late, visits, ended>>
        /\ links'[l].at = "made" /\ links'[l].file = links[l].file
        /\ \A k \in Links \ {l} : links'[k] = links[k]
    BY <1>0, <1>4 DEF CreateShare
  <2>2. /\ DOMAIN shares' = DOMAIN shares \cup {l} /\ shares'[l] = links[l].file
        /\ \A k \in DOMAIN shares \ {l} : shares'[k] = shares[k]
    BY <1>4 DEF CreateShare
  <2>3. l \notin ended
    BY <2>1 DEF LinkInv
  <2>. QED
    BY <1>0, <2>1, <2>2, <2>3 DEF LinkInv, LiveLinksStay
<1>5. ASSUME NEW l \in Links, Expire(l) PROVE Goal
  BY <1>5 DEF Expire, LinkInv, LiveLinksStay
<1>6. ASSUME NEW l \in Links, Revoke(l) PROVE Goal
  <2>. DEFINE ls == {l}
  <2>1. RemoveLinks(ls) /\ l \in DOMAIN shares /\ links' = links /\ visits' = visits
    BY <1>6 DEF Revoke
  <2>2. \A k \in ls : links[k].at = "made"
    BY <2>1 DEF LinkInv
  <2>. HIDE DEF ls
  <2>3. \A v \in Visitors : ~visits'[v].over
    BY <2>1 DEF LinkInv
  <2>. QED
    BY <2>1, <2>2, <2>3, LinksTaken
<1>7. ASSUME NEW v \in Visitors, NEW l \in Links, Visit(v, l) PROVE Goal
  <2>1. CASE l \in DOMAIN shares \ late
    <3>. DEFINE o == l \in ended \cup late
    <3>1. /\ visits' = [visits EXCEPT ![v] = [at |-> "found", file |-> shares[l], over |-> o]]
          /\ UNCHANGED <<shares, links, late, ended>>
      BY <1>7, <2>1 DEF Visit, Found
    <3>2. visits'[v].over = o /\ \A w \in Visitors \ {v} : visits'[w] = visits[w]
      BY <1>0, <3>1
    <3>3. ~o
      BY <2>1 DEF LinkInv
    <3>. HIDE DEF o
    <3>4. \A w \in Visitors : ~visits'[w].over
      BY <3>2, <3>3 DEF LinkInv
    <3>. QED
      BY <3>1, <3>4 DEF LinkInv, LiveLinksStay
  <2>2. CASE l \notin DOMAIN shares \ late
    <3>. DEFINE ls == late \cap {l}
    <3>1. /\ visits' = [visits EXCEPT ![v] = NoVisit]
          /\ RemoveLinks(ls) /\ links' = links
      BY <1>7, <2>2 DEF Visit
    <3>2. \A w \in Visitors : ~visits'[w].over
      BY <1>0, <3>1 DEF LinkInv, NoVisit
    <3>3. \A k \in ls : links[k].at = "made"
      BY <1>7 DEF Visit
    <3>. HIDE DEF ls
    <3>. QED
      BY <3>1, <3>2, <3>3, LinksTaken
  <2>. QED
    BY <2>1, <2>2
<1>8. ASSUME NEW v \in Visitors, Serve(v) PROVE Goal
  <2>1. /\ UNCHANGED <<shares, links, late, ended>>
        /\ \A w \in Visitors : visits'[w] = visits[w] \/ ~visits'[w].over
    BY <1>0, <1>8 DEF Serve, NoVisit
  <2>2. \A w \in Visitors : ~visits'[w].over
    BY <2>1 DEF LinkInv
  <2>. QED
    BY <2>1, <2>2 DEF LinkInv, LiveLinksStay
<1>. HIDE DEF Goal
<1>9. Goal
  BY <1>1, <1>2, <1>3, <1>4, <1>5, <1>6, <1>7, <1>8, WhoWrites DEF Frame, ShareStep, ShareNext
<1>. QED
  BY <1>9 DEF Goal

\* A link works until it is revoked, expires or its file is deleted, and not a request
\* longer.
THEOREM LinksAreHonest == Spec => []LinksHonest
<1>1. Init => Typed /\ LinkInv
  <2>. SUFFICES ASSUME Init PROVE LinkInv
    BY TypedInit
  <2>1. shares = <<>> /\ ended = {} /\ \A l \in Links : links[l].at = "none"
    BY DEF Init, ShareInit, NoLink
  <2>2. \A v \in Visitors : ~visits[v].over
    BY DEF Init, ShareInit, NoVisit
  <2>. QED
    BY <2>1, <2>2, EmptyTable DEF LinkInv, LiveLinksStay
<1>2. Typed /\ LinkInv /\ [Next]_vars => (Typed /\ LinkInv)'
  BY TypedStep, LinkStep
<1>3. Typed /\ LinkInv => LinksHonest
  BY DEF LinkInv, LinksHonest, EndedStayEnded
<1>. QED
  BY <1>1, <1>2, <1>3, PTL DEF Spec
===============================================================================
