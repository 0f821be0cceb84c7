------------------------------ MODULE ChunkFetch ------------------------------
(***************************************************************************)
(* How the bytes of one part come back: fetchChunk and fetchSingleChunk of *)
(* internal/downloader with the chunk cache, for the two readers that      *)
(* return a whole answer at once, VerifyFile and GetFileBytes, next to     *)
(* uploads and deletes that change the catalog and Discord under them.     *)
(*                                                                         *)
(* Where a row's attachment URL comes from is left out: a stored URL works *)
(* or has expired, which nobody knows before trying it, and the refreshed  *)
(* URL that fetchSingleChunk writes back changes nothing else in the row.  *)
(***************************************************************************)
EXTENDS Naturals, FiniteSetsExt, SequencesExt

CONSTANTS
  Files, Parts, Bodies, (* file ids, part numbers, plaintexts of parts       *)
  Ids,         (* ids of rows of the table chunks; a message is named by the
                  row it was posted for                                      *)
  Readers,     (* calls of VerifyFile and GetFileBytes                       *)
  Asks,        (* what each reader may ask for: a kind of call and a file     *)
  Offers,      (* what clients upload: a file id and the parts of its content *)
  MaxCache,    (* Engine.maxCacheSize                                        *)
  WorkerCount, (* Engine.workerCount                                         *)
  Seeds,       (* catalogs to start from: finished uploads                   *)
  MaxChanges,  (* bound: uploads and deletes together; a seed may count as
                  some of them already, so that a large one sees fewer       *)
  MaxFaults,   (* bound: downloads that fail although the message is there,
                  and queries that fail or stop short                         *)
  None

VARIABLES
  files,     \* table files: recorded size (in parts) and whole-file content
  rows,      \* table chunks, COMPLETED rows: file, part and message
  taken,     \* the ids that rows ever had; a new row gets one of its own
  posted,    \* what each message was posted as: file, part (its seal), body
  discord,   \* messages that are still there
  sweep,     \* messages the delete handler still has to remove
  up,        \* the upload under way: file, content, the hash its record has, parts
             \* to store, whether they were counted
  cache,     \* Engine.chunkCache
  order,     \* Engine.cacheOrder
  reader,    \* local state of each reader
  slot,      \* the fetchChunk of each reader for each part
  versions,  \* (history) the contents uploaded under each file id
  deleted,   \* (history) the file ids that were ever deleted
  used       \* changes and faults so far, see MaxChanges and MaxFaults

catalog == <<files, rows, taken, posted, discord, sweep, up, versions, deleted>>
store  == <<catalog, used>>
cached == <<cache, order>>
vars   == <<store, cached, reader, slot>>

Contents == SeqOf(Bodies, Cardinality(Parts)) \ {<<>>}
Kinds    == {"verify", "bytes"}
NoUpload == [file |-> None, content |-> <<>>, sha |-> None, todo |-> {}, counted |-> FALSE]
Off      == [at |-> "off", row |-> None, msg |-> None, rest |-> None, data |-> None,
             held |-> {}]
Waiting  == [kind |-> None, at |-> "idle", file |-> None,
             rec |-> [size |-> 0, sha |-> None], plan |-> <<>>, got |-> <<>>,
             cancelled |-> FALSE, lost |-> {}, wrong |-> {}, doubt |-> FALSE]

\* A request that Discord or the database fails.
Fault == used[2] < MaxFaults /\ used' = [used EXCEPT ![2] = @ + 1]

\* Map (or table) f once x is set to v.
With(f, x, v) == [y \in DOMAIN f \cup {x} |-> IF y = x THEN v ELSE f[y]]

ASSUME FetchAssumption ==
  /\ MaxCache \in Nat \ {0} /\ WorkerCount \in Nat \ {0}
  /\ MaxChanges \in Nat /\ MaxFaults \in Nat
  /\ IsFiniteSet(Parts) /\ Parts = 0 .. Cardinality(Parts) - 1
  /\ None \notin Files \cup Ids \cup Bodies \cup Contents
  /\ {"none", "failed"} \cap Bodies = {}
  /\ Ids \subseteq Nat
  /\ Asks \in [Readers -> SUBSET (Kinds \X Files)] /\ Offers \subseteq Files \X Contents

\* Catalogs of finished uploads: every part of a file has a row, and every row a
\* message with the bytes of its part.
ASSUME SeedsAssumption ==
  \A s \in Seeds :
    /\ s.spent \in 0 .. MaxChanges
    /\ DOMAIN s.content \subseteq Files /\ DOMAIN s.rows \subseteq Ids /\ DOMAIN s.posted \subseteq Ids
    /\ \A f \in DOMAIN s.content : s.content[f] \in Contents
    /\ \A m \in DOMAIN s.posted : s.posted[m] \in [file : Files, part : Parts, body : Bodies]
    /\ \A i \in DOMAIN s.rows :
         LET r == s.rows[i] IN
         /\ r \in [file : DOMAIN s.content, part : Parts, msg : DOMAIN s.posted]
         /\ r.part < Len(s.content[r.file])
         /\ s.posted[r.msg].body = s.content[r.file][r.part + 1]
    /\ \A f \in DOMAIN s.content : \A k \in Parts : k < Len(s.content[f]) =>
         \E i \in DOMAIN s.rows : s.rows[i].file = f /\ s.rows[i].part = k

-----------------------------------------------------------------------------
(***************************************************************************)
(* Catalog and Discord.                                                    *)
(***************************************************************************)
\* The column sha256 of a row: rows that share a message share the plaintext.
Sha(i) == posted[rows[i].msg].body

\* GetChunksForFile: the copies of part k of f, in no fixed order.
CopiesOf(f, k) == {i \in DOMAIN rows : rows[i].file = f /\ rows[i].part = k}

Seal(m) == <<posted[m].file, posted[m].part>>

\* One of the associated data tried opens message m: this file's, or those of
\* the rows FindChunksByHash knows with the same plaintext.
Opens(f, k, m) ==
  \/ Seal(m) = <<f, k>>
  \/ \E j \in DOMAIN rows : /\ Sha(j) = posted[m].body
                            /\ Seal(m) = <<rows[j].file, rows[j].part>>

\* (history) The copies of part k of f that can be read back, from what the
\* catalog and Discord hold.
Readable(rs, there, f, k) ==
  {i \in DOMAIN rs : /\ rs[i].file = f /\ rs[i].part = k /\ rs[i].msg \in there
                     /\ \/ Seal(rs[i].msg) = <<f, k>>
                        \/ \E j \in DOMAIN rs :
                             /\ posted[rs[j].msg].body = posted[rs[i].msg].body
                             /\ Seal(rs[i].msg) = <<rs[j].file, rs[j].part>>}

Watched(rs, there) ==
  slot' = [r \in Readers |-> [k \in Parts |-> [slot[r][k] EXCEPT !.held =
             @ \cap Readable(rs, there, reader[r].file, k)]]]

\* UploadFile: the row gets the new size now and the hash, if it has none yet,
\* at the end.
BeginUpload(f, c) ==
  /\ up = NoUpload /\ used[1] < MaxChanges
  /\ f \in DOMAIN files \/ versions[f] = {}
  /\ files' = With(files, f, [size |-> Len(c), sha |-> IF f \in DOMAIN files THEN files[f].sha
                                                      ELSE None])
  /\ up' = [file |-> f, content |-> c, sha |-> files'[f].sha, todo |-> 0 .. Len(c) - 1,
            counted |-> FALSE]
  /\ versions' = [versions EXCEPT ![f] = @ \cup {c}]
  /\ used' = [used EXCEPT ![1] = @ + 1]
  /\ UNCHANGED <<rows, taken, posted, discord, sweep, deleted, cached, reader, slot>>

\* A part is posted under a seal of its own, or reuses the message of a stored
\* part with the same plaintext.
StorePart(k) ==
  /\ k \in up.todo
  /\ \E i \in Ids \ taken :
       LET body == up.content[k + 1]
           row(m) == With(rows, i, [file |-> up.file, part |-> k, msg |-> m])
       IN  /\ taken' = taken \cup {i} /\ \A j \in Ids \ taken : i <= j
           /\ \/ /\ rows' = row(i)
                 /\ posted' = With(posted, i, [file |-> up.file, part |-> k, body |-> body])
                 /\ discord' = discord \cup {i}
              \/ /\ \E j \in DOMAIN rows : Sha(j) = body /\ rows' = row(rows[j].msg)
                 /\ UNCHANGED <<posted, discord>>
  /\ up' = [up EXCEPT !.todo = @ \ {k}]
  /\ UNCHANGED <<files, sweep, versions, deleted, used, cached, reader, slot>>

\* CountCompletedChunksForJob finds every row.
Count ==
  /\ up # NoUpload /\ up.todo = {} /\ ~up.counted
  /\ up' = [up EXCEPT !.counted = TRUE]
  /\ UNCHANGED <<files, rows, taken, posted, discord, sweep, versions, deleted, used>>
  /\ UNCHANGED <<cached, reader, slot>>

\* The record goes back as the upload has it, whatever became of the row since it
\* was read; or the upload fails or is cancelled, and stored parts stay.
EndUpload ==
  /\ up # NoUpload
  /\ \/ /\ up.counted
        /\ files' = With(files, up.file,
             [size |-> Len(up.content), sha |-> IF up.sha = None THEN up.content ELSE up.sha])
     \/ UNCHANGED files
  /\ up' = NoUpload
  /\ UNCHANGED <<rows, taken, posted, discord, sweep, versions, deleted, used>>
  /\ UNCHANGED <<cached, reader, slot>>

\* handleDelete: one statement for the file and one for its rows. An upload of the
\* file that has yet to count its rows finds none of them and fails. When a
\* statement fails the rows stay, and their messages go all the same.
DeleteFile(f) ==
  LET mine == {i \in DOMAIN rows : rows[i].file = f}
      left == Restrict(rows, DOMAIN rows \ mine)
      gone == /\ files' = Restrict(files, DOMAIN files \ {f})
              /\ deleted' = deleted \cup {f}
  IN  /\ f \in DOMAIN files /\ used[1] < MaxChanges
      /\ sweep' = sweep \cup {rows[i].msg : i \in mine}
      /\ \/ /\ gone /\ rows' = left
            /\ up' = IF up.file = f /\ ~up.counted THEN NoUpload ELSE up
            /\ used' = [used EXCEPT ![1] = @ + 1]
            /\ Watched(left, discord)
         \/ /\ gone \/ UNCHANGED <<files, deleted>>
            /\ used[2] < MaxFaults /\ used' = <<used[1] + 1, used[2] + 1>>
            /\ UNCHANGED <<rows, up, slot>>
      /\ UNCHANGED <<taken, posted, discord, versions, cached, reader>>

\* The background clean-up: nobody asks whether another file uses the message.
DeleteMessage(m) ==
  /\ m \in sweep
  /\ discord' = discord \ {m}
  /\ sweep' = sweep \ {m}
  /\ Watched(rows, discord \ {m})
  /\ UNCHANGED <<files, rows, taken, posted, up, versions, deleted, used, cached, reader>>

-----------------------------------------------------------------------------
(***************************************************************************)
(* The chunk cache.                                                        *)
(***************************************************************************)
\* Slip: the part number is left out of the key.
CacheKeyBare(f, k) == <<f, 0>>

\* fileID:index.
CacheKey(f, k) == <<f, k>>

\* Slip: the oldest key leaves the order but not the map.
PutCachedKeep(key, data) ==
  /\ cache' = With(cache, key, data)
  /\ order' = IF key \in DOMAIN cache THEN order
              ELSE Append(IF Len(order) >= MaxCache THEN Tail(order) ELSE order, key)

\* putCachedChunk: the oldest key makes room, a key that is there stays in line.
PutCached(key, data) ==
  LET full == key \notin DOMAIN cache /\ Len(order) >= MaxCache
      kept == IF full THEN Restrict(cache, DOMAIN cache \ {Head(order)}) ELSE cache
  IN  /\ cache' = With(kept, key, data)
      /\ order' = IF key \in DOMAIN cache THEN order
                  ELSE Append(IF full THEN Tail(order) ELSE order, key)

-----------------------------------------------------------------------------
(***************************************************************************)
(* fetchChunk, for part k of the file of reader r.                         *)
(***************************************************************************)
Live(r, k, st) == slot[r][k].at = st
Set(r, k, s)   == slot' = [slot EXCEPT ![r][k] = s]

Deliver(r, k, b) == /\ reader' = [reader EXCEPT ![r].got[k] = b]
                    /\ Set(r, k, Off)

Fail(r, k) ==
  /\ reader' = [reader EXCEPT ![r].got[k] = "failed",
        ![r].lost = IF slot[r][k].held = {} THEN @ \cup {k} ELSE @]
  /\ Set(r, k, Off)

\* A worker takes part k: VerifyFile in any order, GetFileBytes one by one and no
\* further than an error.
Turn(r, k) ==
  /\ reader[r].at = "run" /\ k \in DOMAIN reader[r].plan
  /\ reader[r].got[k] = "none" /\ Live(r, k, "off")
  /\ IF reader[r].kind = "verify"
     THEN Cardinality({j \in Parts : ~Live(r, j, "off")}) < WorkerCount
     ELSE \A j \in Parts : j < k => j \in DOMAIN reader[r].plan
                                    /\ reader[r].got[j] \notin {"none", "failed"}

\* getCachedChunk; a part that is not cached is tried from its own row first.
Lookup(r, k) ==
  /\ Turn(r, k)
  /\ LET key == CacheKey(reader[r].file, k)
         own == reader[r].plan[k]
     IN  IF key \in DOMAIN cache THEN Deliver(r, k, cache[key])
         ELSE /\ Set(r, k, [Off EXCEPT !.at = "stored", !.row = own.id, !.msg = own.msg,
                                       !.held = Readable(rows, discord, reader[r].file, k)])
              /\ UNCHANGED reader
  /\ UNCHANGED <<store, cached>>

\* DownloadChunk of the stored URL, which may have expired.
Stored(r, k) ==
  /\ Live(r, k, "stored")
  /\ \/ slot[r][k].msg \in discord /\ Set(r, k, [slot[r][k] EXCEPT !.at = "open"])
     \/ Set(r, k, [slot[r][k] EXCEPT !.at = "fresh"])
  /\ UNCHANGED <<store, cached, reader>>

\* AttachmentURL and DownloadChunk of the fresh URL; besides a message that is
\* gone, all five attempts may be used up.
Fresh(r, k) ==
  /\ Live(r, k, "fresh")
  /\ \/ /\ slot[r][k].msg \in discord /\ Set(r, k, [slot[r][k] EXCEPT !.at = "open"])
        /\ UNCHANGED used
     \/ /\ slot[r][k].msg \notin discord /\ Set(r, k, [slot[r][k] EXCEPT !.at = "next"])
        /\ UNCHANGED used
     \/ /\ Fault
        /\ Set(r, k, [slot[r][k] EXCEPT !.at = "next", !.held = @ \ {slot[r][k].row}])
  /\ UNCHANGED <<catalog, cached, reader>>

\* UnwrapPNG, FindChunksByHash, DecryptChunk. When the query fails or stops short,
\* which goes unnoticed, the associated data it did not name are not tried.
Open(r, k) ==
  /\ Live(r, k, "open")
  /\ LET s == slot[r][k]
     IN  \/ /\ Opens(reader[r].file, k, s.msg)
            /\ Set(r, k, [s EXCEPT !.at = "put", !.data = posted[s.msg].body])
            /\ UNCHANGED used
         \/ /\ ~Opens(reader[r].file, k, s.msg)
            /\ Set(r, k, [s EXCEPT !.at = "next"])
            /\ UNCHANGED used
         \/ /\ Seal(s.msg) # <<reader[r].file, k>> /\ Fault
            /\ Set(r, k, [s EXCEPT !.at = "next", !.held = @ \ {s.row}])
  /\ UNCHANGED <<catalog, cached, reader>>

\* Slip: the first row that failed is the only one.
OthersNone(r, k) ==
  /\ Live(r, k, "next")
  /\ Fail(r, k)
  /\ UNCHANGED <<store, cached>>

\* When the own row has failed GetChunksForFile lists the others with the same
\* index; they are tried one after the other until one works or none is left. A
\* query that fails lists none, and nobody notices one that stops short.
Others(r, k) ==
  /\ Live(r, k, "next")
  /\ LET s    == slot[r][k]
         full == {[id |-> i, msg |-> rows[i].msg] :
                    i \in CopiesOf(reader[r].file, k) \ {s.row}}
         rest == IF s.rest = None THEN full ELSE s.rest
     IN  \/ rest = {} /\ Fail(r, k) /\ UNCHANGED used
         \/ /\ \E o \in rest : Set(r, k, [s EXCEPT !.at = "stored", !.row = o.id,
                                          !.msg = o.msg, !.rest = rest \ {o}])
            /\ UNCHANGED <<reader, used>>
         \/ /\ s.rest = None /\ Fault
            /\ \E part \in SUBSET full : /\ part # full
                 /\ Set(r, k, [s EXCEPT !.rest = part, !.held = @ \cap {o.id : o \in part}])
            /\ UNCHANGED reader
  /\ UNCHANGED <<catalog, cached>>

Put(r, k) ==
  /\ Live(r, k, "put")
  /\ PutCached(CacheKey(reader[r].file, k), slot[r][k].data)
  /\ Deliver(r, k, slot[r][k].data)
  /\ UNCHANGED store

-----------------------------------------------------------------------------
(***************************************************************************)
(* VerifyFile and GetFileBytes.                                            *)
(***************************************************************************)
\* GetFile, which may fail or find nothing.
Start(r, kind, f) ==
  /\ reader[r].at = "idle"
  /\ LET call == [Waiting EXCEPT !.kind = kind, !.file = f]
     IN  \/ /\ f \in DOMAIN files
            /\ reader' = [reader EXCEPT ![r] = [call EXCEPT !.at = "rows", !.rec = files[f]]]
            /\ UNCHANGED used
         \/ /\ f \in DOMAIN files => Fault
            /\ f \notin DOMAIN files => UNCHANGED used
            /\ reader' = [reader EXCEPT ![r] = [call EXCEPT !.at = "error"]]
  /\ UNCHANGED <<catalog, cached, slot>>

End(r, st) == reader' = [reader EXCEPT ![r].at = st, ![r].plan = <<>>]

Gaps(ks) == ks # 0 .. Cardinality(ks) - 1

\* What completedChunksForFile and GetFileBytes make of a list with rows of the
\* parts ks: one row for each index, whichever comes first. No rows at all are an
\* error; VerifyFile also refuses gaps.
Plan(r, ks, doubt) ==
  IF ks = {} \/ (reader[r].kind = "verify" /\ Gaps(ks))
  THEN reader' = [reader EXCEPT ![r].at = "error", ![r].doubt = doubt]
  ELSE \E first \in [ks -> DOMAIN rows] :
         /\ \A k \in ks : first[k] \in CopiesOf(reader[r].file, k)
         /\ reader' = [reader EXCEPT ![r].at = "run", ![r].doubt = doubt,
              ![r].plan = [k \in ks |-> [id |-> first[k], msg |-> rows[first[k]].msg,
                                        sha |-> Sha(first[k])]],
              ![r].got = [k \in ks |-> "none"]]

\* GetChunksForFile lists the rows in the order of their parts. A query that fails
\* is an error, which Plan makes of an empty list; one that stops short is taken
\* for complete.
ReadRows(r) ==
  /\ reader[r].at = "rows"
  /\ LET all == {k \in Parts : CopiesOf(reader[r].file, k) # {}}
     IN  \/ Plan(r, all, reader[r].file \in deleted) /\ UNCHANGED used
         \/ Fault /\ \E n \in Parts : Plan(r, {k \in all : k < n}, TRUE)
  /\ UNCHANGED <<catalog, cached, slot>>

\* The client goes away.
Cancel(r) ==
  /\ reader[r].at = "run" /\ reader[r].kind = "verify" /\ ~reader[r].cancelled
  /\ reader' = [reader EXCEPT ![r].cancelled = TRUE]
  /\ UNCHANGED <<store, cached, slot>>

Got(r) == reader[r].got
Idle(r) == \A k \in Parts : Live(r, k, "off")

\* The n-th smallest of ks.
Nth(ks, n) == CHOOSE k \in ks : Cardinality({j \in ks : j < k}) = n - 1

Fetched(r) == {k \in DOMAIN Got(r) : Got(r)[k] \in Bodies}

\* Slip: the parts are put together in whatever order the map has them.
JoinedAnyhow(r) == LET ks == Fetched(r)
                       n  == Cardinality(ks)
                   IN  [i \in 1 .. n |-> Got(r)[Nth(ks, n + 1 - i)]]

\* The parts that were fetched, in order.
Joined(r) == LET ks == Fetched(r)
             IN  [n \in 1 .. Cardinality(ks) |-> Got(r)[Nth(ks, n)]]

\* The parts whose hash is not that of their row.
Mismatched(r) == {k \in Fetched(r) : Got(r)[k] # reader[r].plan[k].sha}

\* What VerifyFile compares: every part with the hash of its row, the size and,
\* when one is recorded, the hash of the whole.
Sound(r) ==
  /\ \A k \in DOMAIN Got(r) : Got(r)[k] \in Bodies
  /\ Mismatched(r) = {}
  /\ Len(Joined(r)) = reader[r].rec.size
  /\ reader[r].rec.sha # None => Joined(r) = reader[r].rec.sha

\* wg.Wait has returned, with every part tried unless the caller went away.
Verdict(r) ==
  /\ reader[r].at = "run" /\ reader[r].kind = "verify" /\ Idle(r)
  /\ \/ reader[r].cancelled /\ End(r, "error")
     \/ /\ ~reader[r].cancelled /\ \A k \in DOMAIN Got(r) : Got(r)[k] # "none"
        /\ reader' = [reader EXCEPT ![r].at = IF Sound(r) THEN "ok" ELSE "bad",
                                    ![r].plan = <<>>, ![r].wrong = Mismatched(r)]
  /\ UNCHANGED <<store, cached, slot>>

\* GetFileBytes returns at the first index that is missing or cannot be fetched.
Return(r) ==
  /\ reader[r].at = "run" /\ reader[r].kind = "bytes" /\ Idle(r)
  /\ LET ks == DOMAIN Got(r)
     IN  \/ (\A k \in ks : Got(r)[k] \in Bodies) /\ ~Gaps(ks) /\ End(r, "ok")
         \/ /\ \E k \in Parts : /\ k \in ks => Got(r)[k] = "failed"
                                /\ k \notin ks => \E j \in ks : j > k
                                /\ \A j \in Parts : j < k => j \in ks /\ Got(r)[j] \in Bodies
            /\ End(r, "error")
  /\ UNCHANGED <<store, cached, slot>>

-----------------------------------------------------------------------------
Init ==
  /\ \E s \in Seeds :
       /\ files = [f \in DOMAIN s.content |-> [size |-> Len(s.content[f]), sha |-> s.content[f]]]
       /\ rows = s.rows /\ posted = s.posted /\ discord = DOMAIN s.posted
       /\ taken = DOMAIN s.rows \cup DOMAIN s.posted
       /\ used = <<s.spent, 0>>
       /\ versions = [f \in Files |-> IF f \in DOMAIN s.content THEN {s.content[f]} ELSE {}]
  /\ sweep = {} /\ up = NoUpload /\ deleted = {}
  /\ cache = <<>> /\ order = <<>>
  /\ reader = [r \in Readers |-> Waiting]
  /\ slot = [r \in Readers |-> [k \in Parts |-> Off]]

Change ==
  \/ \E o \in Offers : BeginUpload(o[1], o[2])
  \/ \E k \in Parts : StorePart(k)
  \/ Count
  \/ EndUpload
  \/ \E f \in Files : DeleteFile(f)
  \/ \E m \in sweep : DeleteMessage(m)

Fetch(r, k) == \/ Lookup(r, k) \/ Stored(r, k) \/ Fresh(r, k)
               \/ Open(r, k) \/ Others(r, k) \/ Put(r, k)

Read(r) == ReadRows(r) \/ Verdict(r) \/ Return(r) \/ \E k \in Parts : Fetch(r, k)

Next ==
  \/ Change
  \/ \E r \in Readers :
       \/ \E a \in Asks[r] : Start(r, a[1], a[2])
       \/ Cancel(r)
       \/ Read(r)

Spec == Init /\ [][Next]_vars
-----------------------------------------------------------------------------
(***************************************************************************)
(* Properties.                                                             *)
(***************************************************************************)

\* Rows, messages, readers and fetches have the shape the code gives them; the
\* cache and its order name the same keys, each once, and no more than fit.
TypeOK ==
  /\ \A f \in DOMAIN files : f \in Files /\ files[f].sha \in Contents \cup {None}
  /\ \A i \in DOMAIN rows : rows[i].msg \in DOMAIN posted
  /\ discord \subseteq DOMAIN posted /\ sweep \subseteq DOMAIN posted
  /\ \A r \in Readers :
       /\ reader[r].at \in {"idle", "rows", "run", "ok", "bad", "error"}
       /\ \A k \in Parts : slot[r][k].at \in {"off", "stored", "fresh", "open", "next", "put"}
  /\ DOMAIN cache = ToSet(order) /\ IsInjective(order) /\ Len(order) <= MaxCache

\* Plaintexts of part k in a set of contents.
Variants(cs, k) == {c[k + 1] : c \in {d \in cs : Len(d) > k}}

\* Whatever a fetch delivers, or keeps for later, was uploaded as that very part
\* of that very file, wherever the message it came from was posted for.
FetchHonest ==
  /\ \A r \in Readers : \A k \in DOMAIN Got(r) :
       Got(r)[k] \notin {"none", "failed"} => Got(r)[k] \in Variants(versions[reader[r].file], k)
  /\ \A key \in DOMAIN cache : cache[key] \in Variants(versions[key[1]], key[2])

\* A fetch gives a part up only if of each copy that was readable from beginning
\* to end Discord refused the download, or the database did not name it when asked
\* for the copies, or not the upload its message was sealed for.
FallsBack ==
  [][\A r \in Readers : \A k \in DOMAIN Got(r) :
       Got(r)[k] = "none" /\ reader'[r].at = "run" /\ Got(r)'[k] = "failed" =>
         slot[r][k].held = {}]_vars

\* The file of reader r was uploaded once, completely, before r began.
Settled(r) == Cardinality(versions[reader[r].file]) = 1 /\ reader[r].rec.sha # None

\* VerifyFile raises no false alarm: no part of a file uploaded once differs from
\* its checksum, and the file is found broken only if a part of it could not be
\* had. The exception, doubt, is a list of rows that the database cut short or did
\* not give, or gave when the file had been deleted.
NoFalseAlarm ==
  \A r \in Readers : reader[r].kind = "verify" /\ Settled(r) =>
    /\ reader[r].wrong = {}
    /\ reader[r].at = "bad" => reader[r].lost # {} \/ reader[r].doubt
    /\ reader[r].at = "error" => reader[r].cancelled \/ reader[r].doubt

\* GetFileBytes returns all of a file uploaded once, or an error, with the same
\* exception.
WholeOrError ==
  \A r \in Readers :
    reader[r].kind = "bytes" /\ reader[r].at = "ok" /\ Settled(r) /\ ~reader[r].doubt =>
      Joined(r) = reader[r].rec.sha

\* What a reader of a file is told is true, whichever fetches failed and whatever
\* was uploaded or deleted meanwhile: a verdict of broken means broken, and bytes
\* that are returned are all the bytes.
AnswersTrue == NoFalseAlarm /\ WholeOrError
=============================================================================
