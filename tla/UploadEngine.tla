---------------------------- MODULE UploadEngine ----------------------------
(***************************************************************************)
(* The upload engine (internal/uploader) with everything that runs next to *)
(* it: the catalog tables it writes (internal/db), the messages it leaves  *)
(* on Discord, the handler that stages and removes the temporary file, the *)
(* cancel and delete handlers, and a crash followed by a restart.          *)
(*                                                                         *)
(* Every method of db.Database holds the mutex of the Database value while *)
(* it runs, so one catalog call is one step here; between two calls every  *)
(* other goroutine may run.                                                *)
(***************************************************************************)
EXTENDS Naturals, Sequences, FiniteSets

CONSTANTS
  Uploads,     (* upload requests; each names its job and, if it draws a new
                  file id, that file id (both are uuid.New() in the code)    *)
  Paths,       (* virtual paths                                              *)
  Hashes,      (* plaintexts of parts, which their SHA-256 stands for        *)
  Servers,     (* Discord servers (guilds)                                   *)
  Requests,    (* what a client may ask for, see UploadAssumption            *)
  MaxItems,    (* bound: part copies that one upload makes                   *)
  WorkerCount, (* goroutines in the pool of one upload                       *)
  Limit,       (* bound: how often each kind of event in Events may happen   *)
  None         (* "no file", "no message", "no hash"                         *)

ASSUME UploadAssumption ==
  /\ Requests \subseteq [path    : Paths,
                         content : Seq(Hashes),    \* the parts of the file
                         servers : Seq(Servers),   \* servers with channels
                         staged  : BOOLEAN]        \* sent by the browser
  /\ \A r \in Requests : /\ Len(r.content) > 0
                         /\ Len(r.content) * Len(r.servers) \in 1..MaxItems
  /\ MaxItems \in Nat
  /\ WorkerCount \in Nat \ {0}
  /\ None \notin Uploads \cup Hashes

\* What no goroutine brings about by itself: a catalog statement or local read
\* that fails, a crash of the process, a cancel request, a delete request.
Events == {"fault", "crash", "cancel", "delete"}

ASSUME LimitAssumption == Limit \in [Events -> Nat]

Items    == 0 .. MaxItems - 1
Workers  == 1 .. WorkerCount
Copies   == Uploads \X Items      \* primary keys of the table chunks
Contents == {r.content : r \in Requests}

JobStatus  == {"NONE", "ACTIVE", "PAUSED", "COMPLETED", "FAILED"}
CopyStatus == {"NONE", "PENDING", "COMPLETED", "FAILED", "DELETED"}

\* Where an upload is in UploadFile and then in runUpload.
BeforePool == {"new", "lookup", "upsert", "job", "rows", "register"}
PoolStages == {"open", "running", "publish", "finish", "failing", "leave"}
Final      == {"rejected", "ended", "lost"}
Stages     == BeforePool \cup PoolStages \cup Final

WorkerStages == {"off", "select", "lookup", "reuse", "post", "posting",
                 "record", "count", "fail", "undo", "quit", "exit"}
Busy         == WorkerStages \ {"off", "select", "exit"}

VARIABLES
  request,    \* what each client asked for
  files,      \* table files: the row at each path (id and whole-file sha256)
  job,        \* table jobs: status, file_id and completed_chunks
  chunk,      \* table chunks: status, message and sha256 of each copy
  discord,    \* messages on Discord, named by the copy they were posted for
  source,     \* uploads whose local (staged) file exists
  rec,        \* the FileRecord an upload holds in memory
  pc,         \* control state of each upload
  active,     \* Engine.activeJobs
  cancelled,  \* uploads whose context has been cancelled
  pausing,    \* the CancelJob call that holds Engine.mu, if any: the job it
              \* has not written PAUSED to yet
  taken,      \* items received from each job's preloaded channel
  worker,     \* control state, item and message of each pool goroutine
  errs,       \* whether the error channel of the pool holds an error
  deleter,    \* the delete handler: file being deleted, messages it read
  sweep,      \* messages the background clean-up still has to delete
  spent       \* how often each kind of event has happened (see Limit)

tables == <<files, job, chunk>>
pool   == <<taken, worker, errs>>
engine == <<active, cancelled, pausing>>
remote == <<discord, deleter, sweep>>
vars   == <<request, tables, source, rec, pc, pool, engine, remote, spent>>

-----------------------------------------------------------------------------
(***************************************************************************)
(* Work items.  Item k of an upload is a part on a server, counted server  *)
(* by server as UploadFile builds them; the channel preloaded with all the *)
(* items is the number of items already received from it.                  *)
(***************************************************************************)
Parts(u) == Len(request[u].content)
Total(u) == Parts(u) * Len(request[u].servers)

PartOf(c)   == c[2] % Parts(c[1])
ServerOf(c) == request[c[1]].servers[(c[2] \div Parts(c[1])) + 1]
HashOf(c)   == request[c[1]].content[PartOf(c) + 1]

Copy(u, w)  == <<u, worker[u][w].item>>
Row(st, m, h) == [status |-> st, msg |-> m, sha |-> h]
\* Slip: the UPDATE brings back a row that was deleted.
ExistsEvenDeleted(c) == chunk[c].status # "NONE"
Exists(c)   == chunk[c].status \notin {"NONE", "DELETED"}
At(st, i, m) == [at |-> st, item |-> i, msg |-> m]

Path(u)  == request[u].path
Goto(u, l) == pc' = [pc EXCEPT ![u] = l]
Move(u, w, l) == worker' = [worker EXCEPT ![u][w].at = l]

\* A call succeeds, or it fails: then it changed nothing, or, if it was a
\* statement sent to PostgreSQL, it took effect and its answer was lost.
Spend(E) == /\ \A e \in E : spent[e] < Limit[e]
            /\ spent' = [e \in Events |-> IF e \in E THEN spent[e] + 1 ELSE spent[e]]
Ok       == UNCHANGED spent
Fault    == Spend({"fault"})

\* Engine.mu, which CancelJob holds until it has written PAUSED, is free.
EngineFree == pausing = {}

Init ==
  /\ request \in [Uploads -> Requests]
  /\ files = [p \in Paths |-> [id |-> None, sha |-> None]]
  /\ job = [u \in Uploads |-> [status |-> "NONE", file |-> None, done |-> 0]]
  /\ chunk = [c \in Copies |-> Row("NONE", None, None)]
  /\ discord = {}
  /\ source = {}
  /\ rec = [u \in Uploads |-> [id |-> None, sha |-> None]]
  /\ pc = [u \in Uploads |-> "new"]
  /\ active = {} /\ cancelled = {} /\ pausing = {}
  /\ taken = [u \in Uploads |-> 0]
  /\ worker = [u \in Uploads |-> [w \in Workers |-> At("off", 0, None)]]
  /\ errs = [u \in Uploads |-> FALSE]
  /\ deleter = [at |-> "idle", file |-> None, msgs |-> {}]
  /\ sweep = {}
  /\ spent = [e \in Events |-> 0]

-----------------------------------------------------------------------------
(***************************************************************************)
(* The request: handleUploadFile, then Engine.UploadFile.                  *)
(***************************************************************************)

\* The browser's bytes are staged in a temporary file (a local path is read
\* in place), UploadFile reads the key and finds the servers that have channels.
Stage(u) ==
  /\ pc[u] = "new" /\ EngineFree
  /\ source' = source \cup {u}
  /\ Goto(u, "lookup")
  /\ UNCHANGED <<request, tables, rec, pool, engine, remote, spent>>

\* UploadFile returns an error: the handler removes the staged file.
Reject(u) ==
  /\ Goto(u, "rejected")
  /\ source' = IF request[u].staged THEN source \ {u} ELSE source

\* The drive is locked, the local file is missing, or no server has a channel.
NoChannels(u) ==
  /\ pc[u] = "lookup"
  /\ Reject(u)
  /\ UNCHANGED <<request, tables, rec, pool, engine, remote, spent>>

\* The error of GetFileByPath is dropped: a failed read looks like a new path.
GetFileByPath(u) ==
  /\ pc[u] = "lookup"
  /\ LET new == [rec EXCEPT ![u] = [id |-> u, sha |-> None]]
     IN  \/ /\ files[Path(u)].id # None
            /\ rec' = [rec EXCEPT ![u] = files[Path(u)]]
            /\ Ok
         \/ /\ files[Path(u)].id = None
            /\ rec' = new
            /\ Ok
         \/ /\ rec' = new
            /\ Fault
  /\ Goto(u, "upsert")
  /\ UNCHANGED <<request, tables, source, pool, engine, remote>>

\* INSERT ... ON CONFLICT(path) DO UPDATE: a row already there keeps its id.
Upserted(fs, p, r) ==
  [fs EXCEPT ![p] = [id  |-> IF fs[p].id = None THEN r.id ELSE fs[p].id,
                     sha |-> r.sha]]

UpsertFile(u) ==
  /\ pc[u] = "upsert"
  /\ \/ /\ files' = Upserted(files, Path(u), rec[u])
        /\ Goto(u, "job")
        /\ Ok /\ UNCHANGED source
     \/ /\ files' \in {files, Upserted(files, Path(u), rec[u])}
        /\ Reject(u) /\ Fault
  /\ UNCHANGED <<request, job, chunk, rec, pool, engine, remote>>

CreateJob(u) ==
  /\ pc[u] = "job"
  /\ LET created == [job EXCEPT ![u] = [status |-> "ACTIVE", file |-> rec[u].id,
                                         done |-> 0]]
     IN  \/ /\ job' = created
            /\ Goto(u, "rows")
            /\ Ok /\ UNCHANGED source
         \/ /\ job' \in {job, created}
            /\ Reject(u) /\ Fault
  /\ UNCHANGED <<request, files, chunk, rec, pool, engine, remote>>

\* If this fails the job row stays, ACTIVE, with no pool behind it.
CreateChunks(u) ==
  /\ pc[u] = "rows"
  /\ LET planned == [c \in Copies |-> IF c[1] = u /\ c[2] < Total(u)
                                      THEN Row("PENDING", None, None) ELSE chunk[c]]
     IN  \/ /\ chunk' = planned
            /\ Goto(u, "register")
            /\ Ok /\ UNCHANGED source
         \/ /\ chunk' \in {chunk, planned}
            /\ Reject(u) /\ Fault
  /\ UNCHANGED <<request, files, job, rec, pool, engine, remote>>

\* Slip: the goroutine starts, but the job is never entered in activeJobs.
RegisterNowhere(u) ==
  /\ pc[u] = "register" /\ EngineFree
  /\ Goto(u, "open")
  /\ UNCHANGED <<request, tables, source, rec, pool, engine, remote, spent>>

\* Enter activeJobs and start the goroutine of runUpload; UploadFile returns.
Register(u) ==
  /\ pc[u] = "register" /\ EngineFree
  /\ active' = active \cup {u}
  /\ Goto(u, "open")
  /\ UNCHANGED <<request, tables, source, rec, pool, cancelled, pausing,
                 remote, spent>>

\* The goroutine of handleUploadFile that removes the staged file once
\* IsJobActive says that the job has no pool any more.
RemoveStaged(u) ==
  /\ pc[u] \in PoolStages \cup {"ended"}
  /\ request[u].staged /\ u \in source
  /\ u \notin active /\ EngineFree
  /\ source' = source \ {u}
  /\ UNCHANGED <<request, tables, rec, pc, pool, engine, remote, spent>>

-----------------------------------------------------------------------------
(***************************************************************************)
(* Engine.runUpload around its pool.                                       *)
(***************************************************************************)

\* Open the local file, fill the channel and start min(workers, items) goroutines.
Open(u) ==
  /\ pc[u] = "open"
  /\ \/ /\ u \in source
        /\ worker' = [worker EXCEPT ![u] = [w \in Workers |->
              At(IF w <= Total(u) THEN "select" ELSE "exit", 0, None)]]
        /\ Goto(u, "running")
        /\ Ok
     \/ u \notin source /\ Goto(u, "failing") /\ Ok /\ UNCHANGED worker
     \/ Fault /\ Goto(u, "failing") /\ UNCHANGED worker
  /\ UNCHANGED <<request, tables, source, rec, taken, errs, engine, remote>>

Stored(u) == {k \in Items : chunk[<<u, k>>].status = "COMPLETED"}

\* Slip: one copy short is good enough.
AllStoredButOne(u) == Cardinality(Stored(u)) + 1 >= Total(u)

\* CountCompletedChunksForJob against the number of copies planned.
AllStored(u) == Cardinality(Stored(u)) >= Total(u)

\* wg.Wait has returned; a count that could not be read counts as zero.
Verdict(u) ==
  /\ pc[u] = "running"
  /\ \A w \in Workers : worker[u][w].at = "exit"
  /\ \/ ~errs[u] /\ AllStored(u) /\ Goto(u, "publish") /\ Ok
     \/ (errs[u] \/ ~AllStored(u)) /\ Goto(u, "failing") /\ Ok
     \/ Goto(u, "failing") /\ Fault
  /\ UNCHANGED <<request, tables, source, rec, pool, engine, remote>>

\* UpdateJobStatus: unconditional, and its error is always dropped.
SetStatus(u, st) ==
  \/ job' = [job EXCEPT ![u].status = st] /\ Ok
  \/ UNCHANGED job /\ Fault

\* Slip: the failing path returns without writing the status.
MarkFailedNot(u) ==
  /\ pc[u] = "failing"
  /\ Goto(u, "leave")
  /\ UNCHANGED <<request, tables, source, rec, pool, engine, remote, spent>>

MarkFailed(u) ==
  /\ pc[u] = "failing"
  /\ SetStatus(u, "FAILED")
  /\ Goto(u, "leave")
  /\ UNCHANGED <<request, files, chunk, source, rec, pool, engine, remote>>

\* The whole-file hash, computed only when the record has none.
WithHash(u) == IF rec[u].sha = None THEN [rec[u] EXCEPT !.sha = request[u].content]
                                    ELSE rec[u]

Publish(u) ==
  /\ pc[u] = "publish"
  /\ \/ /\ rec' = [rec EXCEPT ![u] = WithHash(u)]
        /\ files' = Upserted(files, Path(u), WithHash(u))
        /\ Ok
     \/ \* the hash cannot be read
        /\ UNCHANGED rec
        /\ files' = Upserted(files, Path(u), rec[u])
        /\ Fault
     \/ \* the row cannot be written
        /\ rec' = [rec EXCEPT ![u] = WithHash(u)]
        /\ UNCHANGED files
        /\ Fault
  /\ Goto(u, "finish")
  /\ UNCHANGED <<request, job, chunk, source, pool, engine, remote>>

Finish(u) ==
  /\ pc[u] = "finish"
  /\ SetStatus(u, "COMPLETED")
  /\ Goto(u, "leave")
  /\ UNCHANGED <<request, files, chunk, source, rec, pool, engine, remote>>

\* Slip: the deferred delete is missing.
LeaveRegistered(u) ==
  /\ pc[u] = "leave" /\ EngineFree
  /\ Goto(u, "ended")
  /\ UNCHANGED <<request, tables, source, rec, pool, engine, remote, spent>>

\* The deferred delete(e.activeJobs, job.ID).
Leave(u) ==
  /\ pc[u] = "leave" /\ EngineFree
  /\ active' = active \ {u}
  /\ Goto(u, "ended")
  /\ UNCHANGED <<request, tables, source, rec, pool, cancelled, pausing,
                 remote, spent>>

-----------------------------------------------------------------------------
(***************************************************************************)
(* The pool: goroutine w of upload u.                                      *)
(***************************************************************************)
poolRest == <<request, files, source, rec, pc, engine, deleter, sweep>>

\* The channel still holds an item.
HasItem(u) == taken[u] < Total(u)

\* select may receive even though the context is cancelled as well.
Receive(u, w) ==
  /\ worker[u][w].at = "select"
  /\ HasItem(u)
  /\ worker' = [worker EXCEPT ![u][w] = At("lookup", taken[u], None)]
  /\ taken' = [taken EXCEPT ![u] = @ + 1]
  /\ UNCHANGED <<poolRest, job, chunk, discord, errs, spent>>

Exit(u, w) ==
  /\ worker[u][w].at = "select"
  /\ ~HasItem(u) \/ u \in cancelled
  /\ Move(u, w, "exit")
  /\ UNCHANGED <<poolRest, job, chunk, discord, taken, errs, spent>>

\* Slip: the query forgets the hash.
DuplicatesOfAnything(c) == {d \in Copies : chunk[d].status = "COMPLETED"}

\* FindChunkByHash: a COMPLETED copy of the same bytes, of any file and on any
\* server; the newest, but created_at counts seconds and ties are unordered.
Duplicates(c) == {d \in Copies : chunk[d].status = "COMPLETED" /\ chunk[d].sha = HashOf(c)}

\* Read the part, hash it and look for a duplicate.
FindChunkByHash(u, w) ==
  /\ worker[u][w].at = "lookup"
  /\ LET c == Copy(u, w)
     IN  \/ /\ \E d \in Duplicates(c) :
                 worker' = [worker EXCEPT ![u][w] = At("reuse", @.item, chunk[d].msg)]
            /\ Ok
         \/ Duplicates(c) = {} /\ Move(u, w, "post") /\ Ok
         \/ \* the query fails: treated as no duplicate
            Move(u, w, "post") /\ Fault
         \/ \* the part cannot be read
            Move(u, w, "fail") /\ Fault
  /\ UNCHANGED <<poolRest, job, chunk, discord, taken, errs>>

\* UploadChunk looks at the context before each attempt.
BeginUploadChunk(u, w) ==
  /\ worker[u][w].at = "post"
  /\ Move(u, w, IF u \in cancelled THEN "quit" ELSE "posting")
  /\ UNCHANGED <<poolRest, job, chunk, discord, taken, errs, spent>>

\* Discord answers, or every attempt fails; a message whose answer was lost
\* stays on Discord with no row that knows it.
UploadChunk(u, w) ==
  /\ worker[u][w].at = "posting"
  /\ LET c == Copy(u, w)
     IN  \/ /\ worker' = [worker EXCEPT ![u][w] = At("record", @.item, c)]
            /\ discord' = discord \cup {c}
         \/ Move(u, w, "quit") /\ UNCHANGED discord
         \/ Move(u, w, "quit") /\ discord' = discord \cup {c}
  /\ UNCHANGED <<poolRest, job, chunk, taken, errs, spent>>

\* One UPDATE sets status, message and hash; a deleted row is not an error.  The
\* goroutine cannot tell an UPDATE that failed from one that was not answered.
UpdateChunkComplete(u, w) ==
  /\ worker[u][w].at \in {"reuse", "record"}
  /\ LET c == Copy(u, w)
         stored == [chunk EXCEPT ![c] = Row("COMPLETED", worker[u][w].msg, HashOf(c))]
     IN  \/ /\ chunk' = IF Exists(c) THEN stored ELSE chunk
            /\ Move(u, w, "count")
            /\ Ok
         \/ UNCHANGED chunk /\ Move(u, w, "fail") /\ Fault
         \/ Exists(c) /\ chunk' = stored /\ Move(u, w, "undo") /\ Fault
  /\ UNCHANGED <<poolRest, job, discord, taken, errs>>

\* Slip: an error of the counter is treated like an error of the part.
IncrementOrFail(u, w) ==
  /\ worker[u][w].at = "count"
  /\ \/ job' = [job EXCEPT ![u].done = @ + 1] /\ Ok /\ Move(u, w, "select")
     \/ UNCHANGED job /\ Fault /\ Move(u, w, "fail")
  /\ UNCHANGED <<poolRest, chunk, discord, taken, errs>>

IncrementJobCompletedChunks(u, w) ==
  /\ worker[u][w].at = "count"
  /\ \/ job' = [job EXCEPT ![u].done = @ + 1] /\ Ok
     \/ UNCHANGED job /\ Fault
  /\ Move(u, w, "select")
  /\ UNCHANGED <<poolRest, chunk, discord, taken, errs>>

\* After a failed read or write the goroutine goes on, after a failed post it
\* ends; either way the error makes the whole job fail.  The row of an UPDATE
\* that was not answered goes from stored to failed and keeps its message.
MarkChunkFailed(u, w) ==
  /\ worker[u][w].at \in {"fail", "undo", "quit"}
  /\ LET c == Copy(u, w)
     IN  \/ /\ chunk' = IF Exists(c) THEN [chunk EXCEPT ![c].status = "FAILED"] ELSE chunk
            /\ Ok
         \/ UNCHANGED chunk /\ Fault
  /\ errs' = [errs EXCEPT ![u] = TRUE]
  /\ Move(u, w, IF worker[u][w].at = "quit" THEN "exit" ELSE "select")
  /\ UNCHANGED <<poolRest, job, discord, taken>>

-----------------------------------------------------------------------------
(***************************************************************************)
(* Cancel, delete, crash.                                                  *)
(***************************************************************************)

\* CancelJob, or one round of CancelAllJobs: stop the pool, then write PAUSED.
CancelJob(u) ==
  /\ job[u].status # "NONE"
  /\ EngineFree
  /\ Spend({"cancel"})
  /\ cancelled' = cancelled \cup ({u} \cap active)
  /\ active' = active \ {u}
  /\ pausing' = {u}
  /\ UNCHANGED <<request, tables, source, rec, pc, pool, remote>>

WritePaused(u) ==
  /\ u \in pausing
  /\ pausing' = {}
  /\ SetStatus(u, "PAUSED")
  /\ UNCHANGED <<request, files, chunk, source, rec, pc, pool, active, cancelled,
                 remote>>

CopiesOf(f) == {c \in Copies : Exists(c) /\ job[c[1]].file = f}

\* handleDelete reads the file's rows and keeps the messages they name; if that
\* fails it deletes the file all the same and knows no message.
BeginDelete(f) ==
  /\ deleter.at = "idle"
  /\ \/ /\ deleter' = [at |-> "read", file |-> f,
                       msgs |-> {chunk[c].msg : c \in CopiesOf(f)} \ {None}]
        /\ Spend({"delete"})
     \/ /\ deleter' = [at |-> "read", file |-> f, msgs |-> {}]
        /\ Spend({"delete", "fault"})
  /\ UNCHANGED <<request, tables, source, rec, pc, pool, engine, discord, sweep>>

\* DeleteFile runs two statements; the handler ignores its error and hands the
\* messages to the clean-up goroutine whatever became of the rows.
DeleteFile ==
  /\ deleter.at = "read"
  /\ LET f == deleter.file
         noFile == [p \in Paths |-> IF files[p].id = f THEN [id |-> None, sha |-> None]
                                                      ELSE files[p]]
         noRows == [c \in Copies |-> IF c \in CopiesOf(f) THEN Row("DELETED", None, None)
                                                          ELSE chunk[c]]
     IN  \/ files' = noFile /\ chunk' = noRows /\ Ok
         \/ UNCHANGED <<files, chunk>> /\ Fault
         \/ files' = noFile /\ UNCHANGED chunk /\ Fault
  /\ sweep' = sweep \cup deleter.msgs
  /\ deleter' = [at |-> "idle", file |-> None, msgs |-> {}]
  /\ UNCHANGED <<request, job, source, rec, pc, pool, engine, discord>>

\* The clean-up deletes one message, or gives up on it.
DeleteMessage(m) ==
  /\ m \in sweep
  /\ sweep' = sweep \ {m}
  /\ discord' = discord \ {m} \/ UNCHANGED discord
  /\ UNCHANGED <<request, tables, source, rec, pc, pool, engine, deleter, spent>>

\* Slip: the recount forgets the status of the rows.
ResetToAllRows(j) ==
  [u \in Uploads |-> IF j[u].status = "ACTIVE"
                     THEN [j[u] EXCEPT !.done = Cardinality({k \in Items : Exists(<<u, k>>)})]
                     ELSE j[u]]

\* ResetIncomplete recomputes completed_chunks of the jobs still ACTIVE (no row
\* is ever UPLOADING), and nothing takes those jobs up again.
ResetIncomplete(j) ==
  [u \in Uploads |-> IF j[u].status = "ACTIVE"
                     THEN [j[u] EXCEPT !.done = Cardinality(Stored(u))] ELSE j[u]]

CrashRestart ==
  /\ \/ job' = ResetIncomplete(job) /\ Spend({"crash"})
     \/ UNCHANGED job /\ Spend({"crash", "fault"})
  /\ pc' = [u \in Uploads |-> IF pc[u] \in {"new"} \cup Final THEN pc[u] ELSE "lost"]
  /\ worker' = [u \in Uploads |-> [w \in Workers |-> At("off", 0, None)]]
  /\ taken' = [u \in Uploads |-> 0]
  /\ errs' = [u \in Uploads |-> FALSE]
  /\ active' = {} /\ cancelled' = {} /\ pausing' = {}
  /\ deleter' = [at |-> "idle", file |-> None, msgs |-> {}]
  /\ sweep' = {}
  /\ UNCHANGED <<request, files, chunk, discord, source, rec>>

-----------------------------------------------------------------------------
Handler(u) ==
  \/ Stage(u) \/ NoChannels(u) \/ GetFileByPath(u) \/ UpsertFile(u)
  \/ CreateJob(u) \/ CreateChunks(u) \/ Register(u)

RunUpload(u) ==
  \/ Open(u) \/ Verdict(u) \/ MarkFailed(u) \/ Publish(u) \/ Finish(u) \/ Leave(u)

Worker(u, w) ==
  \/ Receive(u, w) \/ Exit(u, w) \/ FindChunkByHash(u, w)
  \/ BeginUploadChunk(u, w) \/ UploadChunk(u, w) \/ UpdateChunkComplete(u, w)
  \/ IncrementJobCompletedChunks(u, w) \/ MarkChunkFailed(u, w)

Next ==
  \/ \E u \in Uploads : \/ Handler(u) \/ RemoveStaged(u) \/ RunUpload(u)
                        \/ \E w \in Workers : Worker(u, w)
                        \/ CancelJob(u) \/ WritePaused(u)
                        \/ BeginDelete(u)
  \/ DeleteFile
  \/ \E m \in Copies : DeleteMessage(m)
  \/ CrashRestart

Spec == Init /\ [][Next]_vars

\* Goroutines are scheduled fairly, and each call they make ends: a post after at
\* most five attempts of 60 seconds.  No request, cancel, delete or crash is due.
Fairness ==
  \A u \in Uploads :
    /\ WF_vars(pc[u] # "new" /\ Handler(u))
    /\ WF_vars(RunUpload(u))
    /\ WF_vars(RemoveStaged(u))
    /\ WF_vars(WritePaused(u))
    /\ \A w \in Workers : WF_vars(Worker(u, w))

FairSpec == Spec /\ Fairness

-----------------------------------------------------------------------------
FileRow   == [id : Uploads \cup {None}, sha : Contents \cup {None}]
JobRow    == [status : JobStatus, file : Uploads \cup {None}, done : Nat]
CopyRow   == [status : CopyStatus, msg : Copies \cup {None}, sha : Hashes \cup {None}]
PoolState == [at : WorkerStages, item : Items, msg : Copies \cup {None}]

\* Types of the variables: rows, control states and messages are of the kinds
\* the tables and goroutines of the code hold.
TypeOK ==
  /\ request \in [Uploads -> Requests]
  /\ files \in [Paths -> FileRow]
  /\ job \in [Uploads -> JobRow]
  /\ chunk \in [Copies -> CopyRow]
  /\ discord \subseteq Copies
  /\ source \subseteq Uploads
  /\ rec \in [Uploads -> FileRow]
  /\ pc \in [Uploads -> Stages]
  /\ active \subseteq Uploads
  /\ cancelled \subseteq Uploads
  /\ pausing \subseteq Uploads
  /\ taken \in [Uploads -> Nat]
  /\ worker \in [Uploads -> [Workers -> PoolState]]
  /\ errs \in [Uploads -> BOOLEAN]
  /\ deleter \in [at : {"idle", "read"}, file : Uploads \cup {None},
                  msgs : SUBSET Copies]
  /\ sweep \subseteq Copies
  /\ spent \in [Events -> Nat]

(***************************************************************************)
(* Properties of the whole engine.                                         *)
(***************************************************************************)

Unplanned == {"new", "lookup", "upsert", "job", "rows"}
Opening   == BeforePool \cup {"open", "running"}
Storing   == Busy \ {"count", "undo"}

\* Rows are written by CreateChunks, within the planned items, and not before.
Planned ==
  \A c \in Copies : pc[c[1]] \in Unplanned \/ c[2] >= Total(c[1]) => chunk[c].status = "NONE"

\* Goroutines run only while runUpload waits for them.
Drained ==
  \A u \in Uploads, w \in Workers :
    pc[u] # "running" => worker[u][w].at \in {"off", "exit"}

\* No item is stored before it is taken from the channel.
Untouched ==
  \A u \in Uploads, k \in Items :
    pc[u] \in Opening /\ k >= taken[u] => chunk[<<u, k>>].status # "COMPLETED"

\* A goroutine works on an item it took, alone, and stores it once.
InHand ==
  \A u \in Uploads, w \in Workers :
    worker[u][w].at \in Busy =>
      /\ worker[u][w].item < taken[u]
      /\ worker[u][w].at \in Storing => chunk[Copy(u, w)].status # "COMPLETED"
      /\ \A x \in Workers \ {w} :
           worker[u][x].at \in Busy => worker[u][x].item # worker[u][w].item

\* Goroutines of a pool work on different items, which they took from the channel
\* and which nobody has stored yet, on rows that CreateChunks wrote, and all of
\* them are gone when runUpload counts: no copy is ever stored twice.
Owned == Planned /\ Drained /\ Untouched /\ InHand

\* "A partial replication is never reported as done" (uploader.go:718): no copy
\* of a COMPLETED job is still pending or failed, whatever workers, cancels,
\* failing calls and crashes did.  (Rows may go later, with their file.)
DoneMeansStored ==
  \A u \in Uploads : job[u].status = "COMPLETED" =>
    \A k \in 0 .. Total(u) - 1 : chunk[<<u, k>>].status \in {"COMPLETED", "DELETED"}

\* A stored copy carries the bytes of its part: the message its row names, its
\* own or one that deduplication took from another row, was posted with the same
\* plaintext, even if that row has gone since.
StoredBytesMatch ==
  \A c \in Copies : chunk[c].status = "COMPLETED" =>
    /\ chunk[c].sha = HashOf(c)
    /\ chunk[c].msg \in Copies
    /\ HashOf(chunk[c].msg) = HashOf(c)

\* The progress that the job row shows is never ahead of the copies stored (or
\* deleted since), and a COMPLETED job shows all of them unless a write failed.
ProgressHonest ==
  \A u \in Uploads :
    /\ job[u].done <=
         Cardinality({k \in Items : chunk[<<u, k>>].status \in {"COMPLETED", "DELETED"}})
    /\ job[u].status = "COMPLETED" /\ spent["fault"] = 0 => job[u].done = Total(u)

\* Only a cancel can take the local file away before runUpload opens it.
SourceUntilOpened ==
  \A u \in Uploads : pc[u] = "open" /\ u \notin source => u \in cancelled

\* The row of a stored copy is final: no retry, late failure or restart touches
\* it again; it only goes with its file, or is marked failed, its message kept,
\* by the one goroutine whose own UPDATE stored it and was not answered.
Unanswered(c) ==
  \E w \in Workers : worker[c[1]][w].at = "undo" /\ worker[c[1]][w].item = c[2]

StoredIsFinal ==
  [][\A c \in Copies : chunk[c].status = "COMPLETED" =>
       \/ chunk'[c] = chunk[c]
       \/ chunk'[c].status = "DELETED"
       \/ Unanswered(c) /\ chunk'[c] = [chunk[c] EXCEPT !.status = "FAILED"]]_vars

\* The tables behave as UploadPromise allows: with all its goroutines, handlers
\* and crashes the engine moves jobs and copies only along the promised steps.
Promise == INSTANCE UploadPromise WITH
             status <- [u \in Uploads |-> job[u].status],
             copy   <- [c \in Copies |-> chunk[c].status]
KeepsPromise == Promise!Spec

\* No job stays ACTIVE for ever, as long as no catalog statement fails (a status
\* that cannot be written is lost, uploader.go:725 and 745).
JobSettles ==
  \A u \in Uploads :
    job[u].status = "ACTIVE" ~> job[u].status # "ACTIVE" \/ spent["fault"] > 0

\* The staged file of every upload is removed in the end.
StagedRemoved ==
  \A u \in Uploads : (request[u].staged /\ u \in source) ~> u \notin source
=============================================================================
