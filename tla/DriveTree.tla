------------------------------ MODULE DriveTree ------------------------------
(***************************************************************************)
(* The drive tree: the rows of the table files (internal/db) as folders    *)
(* and files, and the requests that rearrange them: create, rename, move,  *)
(* trash, restore and delete (internal/server), upload of a file and of a  *)
(* folder (internal/uploader).  A row names its parent by id and repeats   *)
(* the whole path of the parent in its own path; nothing but these         *)
(* requests keeps the two in step.                                         *)
(*                                                                         *)
(* One catalog call is one step (db.Database holds its mutex for a call);  *)
(* a request keeps what it read in its local state in between.             *)
(***************************************************************************)
EXTENDS Naturals, SequencesExt, FiniteSets

CONSTANTS
  Ids,         (* file ids; a new row draws one that was never used          *)
  Names,       (* what a row can be called, and Slash                        *)
  Slash,       (* what a path with a leading slash begins with: "/a" is      *)
               (* another path than "a"                                      *)
  Spelled,     (* paths a client may write out in an upload                  *)
  Root,        (* the empty parent id                                        *)
  Requests,    (* bound: requests under way at the same time                 *)
  MaxRequests, (* bound: requests made altogether                            *)
  MaxDepth,    (* bound: length of a path a request asks for                 *)
  Seeds,       (* trees to start from                                        *)
  LocalDir     (* what filepath.Walk finds below an uploaded local folder    *)

Paths == Seq(Names) \ {<<>>}
Rows  == [parent : Ids \cup {Root}, path : Paths, dir : BOOLEAN, trashed : BOOLEAN]

\* Row i hangs where its path says: right below its parent folder.
AttachedIn(fs, i) ==
  \/ fs[i].parent = Root /\ Len(fs[i].path) = 1
  \/ /\ fs[i].parent \in DOMAIN fs
     /\ fs[fs[i].parent].dir
     /\ Front(fs[i].path) = fs[fs[i].parent].path

ASSUME TreeAssumption ==
  /\ Root \notin Ids /\ MaxRequests \in Nat /\ MaxDepth \in Nat
  /\ Spelled \subseteq Seq(Names)
  /\ \A fs \in Seeds :
       /\ fs \in [DOMAIN fs -> Rows]
       /\ DOMAIN fs \subseteq Ids /\ IsFiniteSet(DOMAIN fs)
       /\ \A i \in DOMAIN fs : AttachedIn(fs, i)
       /\ \A i, j \in DOMAIN fs : fs[i].path = fs[j].path => i = j

Base(p)   == IF p = <<>> THEN <<>> ELSE Front(p)

\* A walk comes to a folder before it comes to what is in it.
ASSUME WalkAssumption ==
  /\ LocalDir \in Seq([rel : Paths, dir : BOOLEAN])
  /\ \A k \in DOMAIN LocalDir :
       \/ Base(LocalDir[k].rel) = <<>>
       \/ \E j \in 1 .. k - 1 : LocalDir[j].dir /\ LocalDir[j].rel = Base(LocalDir[k].rel)

VARIABLES
  files,    \* table files: the rows, by id
  issued,   \* ids drawn so far
  h,        \* local state of each request
  uploads,  \* FileRecords of the uploads at work in the background
  made,     \* requests made so far
  about,    \* (history) the paths each request under way is about
  spoiled   \* (history) which of the events in Spoilers have happened

vars == <<files, issued, h, uploads, made, about, spoiled>>

\* What is known to put the tree out of order, see the README:
\* requests about the same part of the tree at the same time; a request that
\* names a folder which is gone, or is none; an upload whose request gives a
\* path and a parent that do not go together; handleFileUpdate's move, which leaves
\* parent_id alone; a folder upload onto an existing path; a RenameFile that
\* meets the UNIQUE path of another row; an upload whose row went away or
\* whose path was taken; a restart in the middle of a request.
Spoilers == {"overlap", "gone", "misfiled", "relocate", "remade", "blocked", "outlived", "crash"}

Ops    == {"none", "rename", "relocate", "move", "folder", "upload", "dir", "delete"}
Stages == {"idle", "parent", "dest", "taken", "below", "rebase", "self", "relink",
           "insert", "walk", "lookup", "store", "erase"}

Idle == [op |-> "none", at |-> "idle", id |-> Root, row |-> <<>>, dest |-> Root,
         name |-> <<>>, target |-> <<>>, todo |-> {}, walk |-> <<>>, dirs |-> <<>>]

-----------------------------------------------------------------------------
(***************************************************************************)
(* Catalog calls.                                                          *)
(***************************************************************************)
IsFolder(i) == i \in DOMAIN files /\ files[i].dir

\* GetFileByPath: a trashed row is found like any other.
RowsAt(fs, path) == {i \in DOMAIN fs : fs[i].path = path}

\* GetAllFiles filtered by the prefix path + "/".
Under(path) == {i \in DOMAIN files : IsStrictPrefix(path, files[i].path)}

\* UPDATE files SET name, path: refused when another row has the path.
Blocked(i, path) == i \in DOMAIN files /\ RowsAt(files, path) \ {i} # {}
Renamed(i, path) == IF i \notin DOMAIN files \/ Blocked(i, path) THEN files
                    ELSE [files EXCEPT ![i].path = path]

Reparented(i, p) == IF i \in DOMAIN files THEN [files EXCEPT ![i].parent = p] ELSE files

Without(i) == [j \in DOMAIN files \ {i} |-> files[j]]

\* Table (or map) f once x is set to v.
With(f, x, v) == [y \in DOMAIN f \cup {x} |-> IF y = x THEN v ELSE f[y]]

\* Slip: ON CONFLICT(id) instead of ON CONFLICT(path).
UpsertedById(fs, i, row) ==
  IF i \in DOMAIN fs THEN [fs EXCEPT ![i] = [row EXCEPT !.trashed = fs[i].trashed]]
                     ELSE With(fs, i, row)

\* UpsertFile: a row at the path keeps its id and its place in the trash; a new
\* path with an id that is in use is refused.
Upserted(fs, i, row) ==
  LET there == RowsAt(fs, row.path)
  IN  CASE there # {}      -> [j \in DOMAIN fs |-> IF j \in there
                                 THEN [row EXCEPT !.trashed = fs[j].trashed] ELSE fs[j]]
        [] there = {} /\ i \in DOMAIN fs -> fs
        [] OTHER           -> With(fs, i, row)

Folder(p, path) == [parent |-> p, path |-> path, dir |-> TRUE, trashed |-> FALSE]

\* The slip the comment on rootPredicate warns of: AND binds tighter than OR.
ListFilesLoose(p) ==
  {i \in DOMAIN files :
     IF p = Root THEN \/ files[i].parent = Root
                      \/ ~IsFolder(files[i].parent) /\ ~files[i].trashed
                 ELSE ~files[i].trashed /\ files[i].parent = p}

\* A folder's rows that are not in the trash; at the root also the orphans.
ListFiles(p) ==
  {i \in DOMAIN files :
     /\ ~files[i].trashed
     /\ IF p = Root THEN files[i].parent = Root \/ ~IsFolder(files[i].parent)
                    ELSE files[i].parent = p}

PathOf(p) == IF p \in DOMAIN files THEN files[p].path ELSE <<>>
NewId     == CHOOSE i \in Ids : i \notin issued

-----------------------------------------------------------------------------
(***************************************************************************)
(* Requests.                                                               *)
(***************************************************************************)
Related(p, q) == IsPrefix(p, q) \/ IsPrefix(q, p)

Spoil(S)  == spoiled' = spoiled \cup S
Intact    == UNCHANGED spoiled
If(c, s)  == IF c THEN {s} ELSE {}
Goto(r, st) == h' = [h EXCEPT ![r].at = st]

\* Request r answers.
Answer(r) == h' = [h EXCEPT ![r] = Idle] /\ about' = [about EXCEPT ![r] = {}]

\* Request r comes in, about the given paths.
Begin(r, paths, why, job) ==
  /\ h[r] = Idle /\ made < MaxRequests
  /\ \A p \in paths : Len(p) <= MaxDepth
  /\ made' = made + 1
  /\ h' = [h EXCEPT ![r] = job]
  /\ about' = [about EXCEPT ![r] = paths]
  /\ Spoil(why \cup If(\E q \in Requests \ {r} : \E a \in about[q], b \in paths :
                           Related(a, b), "overlap"))
  /\ UNCHANGED <<files, issued, uploads>>

\* A parent a client may name: any row it was shown, even if it is gone by now.
Named  == {Root} \cup issued
Gone(p) == If(p # Root /\ ~IsFolder(p), "gone")

\* GetFile(f) of handleFileRename and of handleFileUpdate's rename.
Rename(r, i, n) ==
  /\ i \in DOMAIN files
  /\ Begin(r, {files[i].path, Append(PathOf(files[i].parent), n)}, {},
           [Idle EXCEPT !.op = "rename", !.at = "parent", !.id = i, !.row = files[i],
                        !.dest = files[i].parent, !.name = n])

\* GetFile(f) of handleFileMove, and of handleFileUpdate's move ("relocate").
Transfer(r, op, i, p, why) ==
  /\ i \in DOMAIN files
  /\ Begin(r, {files[i].path, Append(PathOf(p), Last(files[i].path))}, why,
           [Idle EXCEPT !.op = op, !.at = "dest", !.id = i, !.row = files[i], !.dest = p,
                        !.name = Last(files[i].path)])

Move(r, i, p) == Transfer(r, "move", i, p, {})

\* It never writes parent_id.
Relocate(r, i, p) ==
  Transfer(r, "relocate", i, p, If(i \in DOMAIN files /\ p # files[i].parent, "relocate"))

\* handleCreateFolder, and an upload through the browser or handleCreateTextFile.
Create(r, op, p, n) ==
  /\ op = "upload" => Cardinality(uploads) < Cardinality(Requests)
  /\ Begin(r, {Append(PathOf(p), n)}, Gone(p),
           [Idle EXCEPT !.op = op, !.at = "parent", !.dest = p, !.name = n])

\* The JSON form of handleUploadFile: path and parent_id are taken as they come.
\* Without a path it is Slash and the name of the local file.
UploadTo(r, p, path) ==
  /\ path # <<>> /\ Last(path) # Slash /\ Cardinality(uploads) < Cardinality(Requests)
  /\ Begin(r, {path}, Gone(p) \cup If(path # Append(PathOf(p), Last(path)), "misfiled"),
           [Idle EXCEPT !.op = "upload", !.at = "taken", !.dest = p, !.name = Last(path),
                        !.target = path])

\* handleUploadDir names the folder to go to by its path, which may be that of none.
UploadDir(r, base, n) ==
  Begin(r, {Append(base, n)},
        If(base # <<>> /\ ~\E i \in RowsAt(files, base) : files[i].dir, "misfiled"),
        [Idle EXCEPT !.op = "dir", !.at = "parent", !.target = Append(base, n),
                     !.walk = LocalDir])

\* handleDelete: GetFile(id).
Delete(r, i) ==
  /\ i \in DOMAIN files
  /\ Begin(r, {files[i].path}, {},
           [Idle EXCEPT !.op = "delete", !.at = IF files[i].dir THEN "below" ELSE "erase",
                        !.id = i, !.row = files[i]])

\* handleFileTrash, handleFileRestore and the same actions of handleFilesBatch
\* and handleFileUpdate: one statement, which does nothing to an id that is gone.
SetTrashed(i, on) ==
  /\ made < MaxRequests /\ made' = made + 1
  /\ i \in DOMAIN files /\ files[i].trashed # on
  /\ files' = [files EXCEPT ![i].trashed = on]
  /\ UNCHANGED <<issued, h, uploads, about, spoiled>>

\* Slip: the name is left out.
ReadParentBare(r) ==
  /\ h[r].at = "parent" /\ h[r].op # "dir"
  /\ h' = [h EXCEPT ![r].at = "taken", ![r].target = PathOf(h[r].dest)]
  /\ UNCHANGED <<files, issued, uploads, made, about, spoiled>>

\* GetFile of the parent, whose path the new path extends: a parent that is not
\* found counts as the root.  UploadDir looks its parent up by path instead.
ReadParent(r) ==
  /\ h[r].at = "parent"
  /\ h' = [h EXCEPT ![r] = IF h[r].op = "dir"
       THEN [@ EXCEPT !.at = "insert",
                      !.dest = LET up == RowsAt(files, Front(h[r].target))
                               IN  IF up = {} THEN Root ELSE CHOOSE i \in up : TRUE]
       ELSE [@ EXCEPT !.at = "taken", !.target = Append(PathOf(h[r].dest), h[r].name)]]
  /\ UNCHANGED <<files, issued, uploads, made, about, spoiled>>

\* GetFile of the destination, which must be a folder.
ReadDest(r) ==
  /\ h[r].at = "dest"
  /\ \/ /\ h[r].dest = Root \/ IsFolder(h[r].dest)
        /\ h' = [h EXCEPT ![r].at = "taken",
                          ![r].target = Append(PathOf(h[r].dest), h[r].name)]
        /\ UNCHANGED about
     \/ h[r].dest # Root /\ ~IsFolder(h[r].dest) /\ Answer(r)
  /\ UNCHANGED <<files, issued, uploads, made, spoiled>>

\* The name is taken: by any other row, for handleFileMove only by a live one,
\* for a new folder by any row at all.
Taken(r) ==
  LET there == RowsAt(files, h[r].target)
  IN  CASE h[r].op = "folder" -> there # {}
        [] h[r].op = "move"   -> \E i \in there \ {h[r].id} : ~files[i].trashed
        [] OTHER              -> there \ {h[r].id} # {}

IntoItself(r) ==
  /\ h[r].op \in {"move", "relocate"} /\ h[r].row.dir
  /\ h[r].dest = h[r].id \/ IsStrictPrefix(h[r].row.path, h[r].target)

Noop(r) == /\ h[r].op = "move"
           /\ h[r].target = h[r].row.path /\ h[r].dest = h[r].row.parent

\* GetFileByPath(new path), and what is decided from it.
LookUp(r) ==
  /\ h[r].at = "taken" /\ h[r].op # "upload"
  /\ IF Taken(r) \/ Noop(r) \/ IntoItself(r) THEN Answer(r)
     ELSE /\ Goto(r, CASE h[r].op = "folder"  -> "insert"
                        [] h[r].op # "folder" /\ h[r].row.dir -> "below"
                        [] OTHER -> "self")
          /\ UNCHANGED about
  /\ UNCHANGED <<files, issued, uploads, made, spoiled>>

\* Slip: the rows below a renamed folder keep their paths.
ListNothing(r) ==
  /\ h[r].at = "below"
  /\ Goto(r, IF h[r].op = "delete" THEN "erase" ELSE "rebase")
  /\ UNCHANGED <<files, issued, uploads, made, about, spoiled>>

\* GetAllFiles: the rows below the folder, each with its path below the new one.
ListBelow(r) ==
  /\ h[r].at = "below"
  /\ LET old == h[r].row.path
         rebased(p) == h[r].target \o SubSeq(p, Len(old) + 1, Len(p))
     IN  h' = [h EXCEPT ![r].at = IF h[r].op = "delete" THEN "erase" ELSE "rebase",
                        ![r].todo = {<<i, rebased(files[i].path)>> : i \in Under(old)}]
  /\ UNCHANGED <<files, issued, uploads, made, about, spoiled>>

\* RenameFile of one row below, its error dropped.
Rebase(r) ==
  /\ h[r].at = "rebase"
  /\ \/ \E t \in h[r].todo :
          /\ files' = Renamed(t[1], t[2])
          /\ Spoil(If(Blocked(t[1], t[2]), "blocked"))
          /\ h' = [h EXCEPT ![r].todo = @ \ {t}]
     \/ h[r].todo = {} /\ Goto(r, "self") /\ UNCHANGED <<files, spoiled>>
  /\ UNCHANGED <<issued, uploads, made, about>>

\* RenameFile of the row itself; its error ends the request.
RenameFile(r) ==
  /\ h[r].at = "self"
  /\ files' = Renamed(h[r].id, h[r].target)
  /\ Spoil(If(Blocked(h[r].id, h[r].target), "blocked"))
  /\ IF h[r].op = "move" /\ ~Blocked(h[r].id, h[r].target)
     THEN Goto(r, "relink") /\ UNCHANGED about
     ELSE Answer(r)
  /\ UNCHANGED <<issued, uploads, made>>

UpdateFileParent(r) ==
  /\ h[r].at = "relink"
  /\ files' = Reparented(h[r].id, h[r].dest)
  /\ Answer(r)
  /\ UNCHANGED <<issued, uploads, made, spoiled>>

\* UpsertFile of a new folder.  UploadDir does not look whether the path is free.
Insert(r) ==
  /\ h[r].at = "insert" /\ Ids \ issued # {}
  /\ files' = Upserted(files, NewId, Folder(h[r].dest, h[r].target))
  /\ issued' = issued \cup {NewId}
  /\ IF h[r].op = "dir"
     THEN /\ h' = [h EXCEPT ![r].at = "walk", ![r].dirs = [x \in {<<>>} |-> NewId]]
          /\ UNCHANGED about
     ELSE Answer(r)
  /\ Spoil(If(RowsAt(files, h[r].target) # {}, "remade"))
  /\ UNCHANGED <<uploads, made>>

\* UploadDir: the next entry of the local folder, or the end of the walk.
Walk(r) ==
  LET e == Head(h[r].walk)
      path == h[r].target \o e.rel
      up == h[r].dirs[Base(e.rel)]
  IN  /\ h[r].at = "walk"
      /\ \/ /\ h[r].walk = <<>> /\ Answer(r)
            /\ UNCHANGED <<files, issued, spoiled>>
         \/ /\ h[r].walk # <<>> /\ e.dir /\ Ids \ issued # {}
            /\ files' = Upserted(files, NewId, Folder(up, path))
            /\ issued' = issued \cup {NewId}
            /\ h' = [h EXCEPT ![r].dirs = With(@, e.rel, NewId), ![r].walk = Tail(@)]
            /\ Spoil(If(RowsAt(files, path) # {}, "remade"))
            /\ UNCHANGED about
         \/ /\ h[r].walk # <<>> /\ ~e.dir
            /\ Goto(r, "lookup")
            /\ UNCHANGED <<files, issued, about, spoiled>>
      /\ UNCHANGED <<uploads, made>>

\* Where an upload goes: its parent's id and its path.
Goal(r) ==
  IF h[r].op = "upload" THEN <<h[r].dest, h[r].target>>
  ELSE <<h[r].dirs[Base(Head(h[r].walk).rel)], h[r].target \o Head(h[r].walk).rel>>

\* UploadFile: GetFileByPath.  A row already there is taken over, in memory.
FindFile(r) ==
  /\ \/ h[r].at = "taken" /\ h[r].op = "upload"
     \/ h[r].at = "lookup"
  /\ LET there == RowsAt(files, Goal(r)[2])
     IN  \/ \E i \in there :
              /\ h' = [h EXCEPT ![r].at = "store", ![r].id = i,
                                ![r].row = [files[i] EXCEPT !.parent = Goal(r)[1]]]
              /\ UNCHANGED issued
         \/ /\ there = {} /\ Ids \ issued # {}
            /\ h' = [h EXCEPT ![r].at = "store", ![r].id = NewId,
                     ![r].row = [Folder(Goal(r)[1], Goal(r)[2]) EXCEPT !.dir = FALSE]]
            /\ issued' = issued \cup {NewId}
  /\ UNCHANGED <<files, uploads, made, about, spoiled>>

\* UpsertFile; what follows (UploadEngine) runs in the background.
StoreFile(r) ==
  /\ h[r].at = "store"
  /\ files' = Upserted(files, h[r].id, h[r].row)
  /\ uploads' = uploads \cup {[id |-> h[r].id, row |-> h[r].row]}
  /\ IF h[r].op = "upload" THEN Answer(r)
     ELSE /\ h' = [h EXCEPT ![r].at = "walk", ![r].walk = Tail(@)]
          /\ UNCHANGED about
  /\ UNCHANGED <<issued, made, spoiled>>

\* The end of runUpload: UpsertFile of the record as it was read at the start.
Publish(u) ==
  /\ files' = Upserted(files, u.id, u.row)
  /\ uploads' = uploads \ {u}
  /\ Spoil(If(\/ RowsAt(files, u.row.path) \ {u.id} # {}
              \/ u.id \notin DOMAIN files
              \/ files[u.id].path = u.row.path /\ files[u.id].parent # u.row.parent,
              "outlived"))
  /\ UNCHANGED <<issued, h, made, about>>

\* An upload that fails or is cancelled leaves its row as it is.
GiveUp(u) ==
  /\ uploads' = uploads \ {u}
  /\ UNCHANGED <<files, issued, h, made, about, spoiled>>

\* DeleteFile of the rows below and then of the row itself, errors dropped.
DeleteFile(r) ==
  /\ h[r].at = "erase"
  /\ \/ \E t \in h[r].todo :
          /\ files' = Without(t[1])
          /\ h' = [h EXCEPT ![r].todo = @ \ {t}]
          /\ UNCHANGED about
     \/ h[r].todo = {} /\ files' = Without(h[r].id) /\ Answer(r)
  /\ UNCHANGED <<issued, uploads, made, spoiled>>

\* The statement of migrate: a parent that is no folder is reset.
ResetParents ==
  files' = [i \in DOMAIN files |-> IF IsFolder(files[i].parent) THEN files[i]
                                   ELSE [files[i] EXCEPT !.parent = Root]]

\* The process stops at any point and starts again.
Restart ==
  /\ made < MaxRequests /\ made' = made + 1
  /\ ResetParents
  /\ h' = [r \in Requests |-> Idle]
  /\ about' = [r \in Requests |-> {}]
  /\ uploads' = {}
  /\ Spoil(If(\E r \in Requests : h[r] # Idle, "crash"))
  /\ UNCHANGED issued

-----------------------------------------------------------------------------
Init ==
  /\ files \in Seeds
  /\ issued = DOMAIN files
  /\ h = [r \in Requests |-> Idle]
  /\ uploads = {}
  /\ made = 0
  /\ about = [r \in Requests |-> {}]
  /\ spoiled = {}

Arrive(r) ==
  \/ \E i \in issued, n \in Names \ {Slash} : Rename(r, i, n)
  \/ \E i \in issued, p \in Named : Move(r, i, p) \/ Relocate(r, i, p)
  \/ \E op \in {"folder", "upload"}, p \in Named, n \in Names \ {Slash} : Create(r, op, p, n)
  \/ \E p \in Named, path \in Spelled : UploadTo(r, p, path)
  \/ \E base \in Spelled, n \in Names \ {Slash} : UploadDir(r, base, n)
  \/ \E i \in issued : Delete(r, i)

Step(r) ==
  \/ ReadParent(r) \/ ReadDest(r) \/ LookUp(r) \/ ListBelow(r)
  \/ Rebase(r) \/ RenameFile(r) \/ UpdateFileParent(r)
  \/ Insert(r) \/ Walk(r) \/ FindFile(r) \/ StoreFile(r) \/ DeleteFile(r)

Next ==
  \/ \E r \in Requests : Arrive(r) \/ Step(r)
  \/ \E i \in issued, on \in BOOLEAN : SetTrashed(i, on)
  \/ \E u \in uploads : Publish(u) \/ GiveUp(u)
  \/ Restart

Spec == Init /\ [][Next]_vars
-----------------------------------------------------------------------------
(***************************************************************************)
(* Properties.                                                             *)
(***************************************************************************)

\* Every catalog row and every request under way has the shape the code gives it.
TypeOK ==
  /\ DOMAIN files \subseteq issued /\ issued \subseteq Ids
  /\ \A i \in DOMAIN files : files[i] \in Rows
  /\ \A r \in Requests :
       /\ h[r].op \in Ops /\ h[r].at \in Stages
       /\ h[r].id \in Ids \cup {Root} /\ h[r].dest \in Ids \cup {Root}
       /\ h[r].row \in Rows \cup {<<>>} /\ h[r].target \in Paths \cup {<<>>}
       /\ \A t \in h[r].todo : t[1] \in Ids /\ t[2] \in Paths
  /\ \A u \in uploads : u.id \in Ids /\ u.row \in Rows
  /\ made \in 0 .. MaxRequests
  /\ spoiled \subseteq Spoilers

\* Request r is about row i, or about a folder above it.
InHand(i) == \E r \in Requests : \E p \in about[r] : IsPrefix(p, files[i].path)

\* Parent ids and paths tell the same story: unless one of Spoilers happened, a
\* row that no request is about hangs right below its parent folder, whatever
\* requests about other parts of the tree are under way.
Attached ==
  spoiled = {} => \A i \in DOMAIN files : InHand(i) \/ AttachedIn(files, i)

\* What a client reaches by opening one folder after the other from the root.
Shown[n \in Nat] ==
  IF n = 0 THEN ListFiles(Root)
  ELSE Shown[n - 1] \cup UNION {ListFiles(i) : i \in {j \in Shown[n - 1] : files[j].dir}}

\* Browsing shows exactly the rows that are not in the trash, themselves or with
\* a folder above them (ListFiles and the paths agree): nothing is invisible,
\* and nothing is both in the drive and in the trash.
BrowsingShowsLive ==
  spoiled = {} /\ (\A r \in Requests : h[r] = Idle) =>
    Shown[Cardinality(DOMAIN files)] =
      {i \in DOMAIN files : \A j \in DOMAIN files :
          IsPrefix(files[j].path, files[i].path) => ~files[j].trashed}

\* The record an upload writes when it ends is as old as the upload; still it
\* undoes no rename, move, trash or restore of the file made in the meantime.
UploadEndKeepsPlace ==
  [][uploads' # uploads /\ uploads' \subseteq uploads /\ spoiled' = {} => files' = files]_vars
=============================================================================
