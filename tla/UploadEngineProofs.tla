------------------------- MODULE UploadEngineProofs -------------------------
(***************************************************************************)
(* Theorems about UploadEngine, for every number of uploads, parts,        *)
(* servers, workers, failures, crashes, cancels and deletes.               *)
(***************************************************************************)
EXTENDS UploadEngine, FiniteSetTheorems, TLAPS

-----------------------------------------------------------------------------
(***************************************************************************)
(* Arithmetic of work items.                                               *)
(***************************************************************************)

\* An upload plans at least one copy, and its work items are in bounds.
LEMMA TotalType ==
  ASSUME NEW u \in Uploads, request \in [Uploads -> Requests]
  PROVE  /\ Total(u) \in Nat /\ 0 < Total(u)
         /\ \A k \in Nat : k < Total(u) => k \in Items
         /\ 0 \in Items
<1>1. Total(u) \in 1 .. MaxItems
  BY UploadAssumption DEF Total, Parts
<1>2. MaxItems \in Nat
  BY UploadAssumption
<1> QED
  BY <1>1, <1>2 DEF Items

\* Every work item of an upload has a part, and so a hash.
LEMMA HashType ==
  ASSUME NEW c \in Copies, request \in [Uploads -> Requests]
  PROVE  HashOf(c) \in Hashes
<1> DEFINE content == request[c[1]].content
<1>0. request[c[1]] \in Requests
  BY DEF Copies
<1>1. content \in Seq(Hashes) /\ Len(content) > 0 /\ Len(content) \in Nat
  <2>1. content \in Seq(Hashes)
    BY <1>0, UploadAssumption
  <2>2. Len(content) > 0
    BY <1>0, UploadAssumption
  <2> QED
    BY <2>1, <2>2
<1>2. c[2] \in Nat
  BY UploadAssumption DEF Copies, Items
<1>3. \A k, n \in Nat : n > 0 => (k % n) + 1 \in 1 .. n
  OBVIOUS
<1>4. PartOf(c) + 1 \in 1 .. Len(content)
  BY <1>1, <1>2, <1>3 DEF PartOf, Parts
<1> QED
  BY <1>1, <1>4 DEF HashOf

\* Sets of items are finite.
LEMMA ItemsFinite ==
  ASSUME NEW S \in SUBSET Items
  PROVE  IsFiniteSet(S) /\ Cardinality(S) \in Nat
<1>1. IsFiniteSet(Items)
  BY UploadAssumption, FS_Interval DEF Items
<1> QED
  BY <1>1, FS_Subset, FS_CardinalityType

\* Counting is enough: n of the items below n are all of them.
LEMMA CountCovers ==
  ASSUME NEW n \in Nat, NEW S \in SUBSET (0 .. n - 1), Cardinality(S) >= n
  PROVE  S = 0 .. n - 1
<1>1. IsFiniteSet(0 .. n - 1) /\ Cardinality(0 .. n - 1) = n
  <2>1. 0 \in Int /\ n - 1 \in Int
    OBVIOUS
  <2>2. /\ IsFiniteSet(0 .. n - 1)
        /\ Cardinality(0 .. n - 1) = IF 0 > n - 1 THEN 0 ELSE (n - 1) - 0 + 1
    BY <2>1, FS_Interval
  <2> QED
    BY <2>2
<1>2. Cardinality(S) \in Nat /\ Cardinality(S) <= n
  BY <1>1, FS_Subset, FS_CardinalityType
<1>3. Cardinality(S) = Cardinality(0 .. n - 1)
  BY <1>1, <1>2
<1> QED
  BY <1>1, <1>3, FS_Subset

-----------------------------------------------------------------------------
(***************************************************************************)
(* The helpers of the actions keep the types.                              *)
(***************************************************************************)

\* Moving an upload to another stage keeps the type of pc.
LEMMA GotoType ==
  ASSUME pc \in [Uploads -> Stages], NEW u, NEW l \in Stages, Goto(u, l)
  PROVE  pc' \in [Uploads -> Stages]
BY DEF Goto

\* Counting events keeps the type of spent.
LEMMA SpendType ==
  ASSUME spent \in [Events -> Nat], NEW E, Ok \/ Spend(E)
  PROVE  spent' \in [Events -> Nat]
BY DEF Ok, Spend

\* Counting a failing call, or none, keeps the type of spent.
LEMMA FaultType ==
  ASSUME spent \in [Events -> Nat], Ok \/ Fault
  PROVE  spent' \in [Events -> Nat]
BY SpendType DEF Fault, Events

\* Moving a goroutine to another stage keeps the type of worker.
LEMMA MoveType ==
  ASSUME worker \in [Uploads -> [Workers -> PoolState]], NEW u \in Uploads,
         NEW w \in Workers, NEW l \in WorkerStages, Move(u, w, l)
  PROVE  worker' \in [Uploads -> [Workers -> PoolState]]
BY DEF Move, PoolState

\* So does giving a goroutine a new stage, item and message.
LEMMA AtType ==
  ASSUME worker \in [Uploads -> [Workers -> PoolState]], NEW u \in Uploads,
         NEW w \in Workers, NEW l \in WorkerStages, NEW i \in Items,
         NEW m \in Copies \cup {None}, worker' = [worker EXCEPT ![u][w] = At(l, i, m)]
  PROVE  worker' \in [Uploads -> [Workers -> PoolState]]
BY DEF At, PoolState

\* The copy a goroutine works on is a key of the table chunks.
LEMMA CopyType ==
  ASSUME worker \in [Uploads -> [Workers -> PoolState]], NEW u \in Uploads,
         NEW w \in Workers
  PROVE  /\ Copy(u, w) \in Copies
         /\ worker[u][w].item \in Items
         /\ worker[u][w].msg \in Copies \cup {None}
BY DEF Copy, Copies, PoolState

\* UpdateJobStatus keeps the type of the table jobs.
LEMMA SetStatusType ==
  ASSUME job \in [Uploads -> JobRow], spent \in [Events -> Nat],
         NEW u \in Uploads, NEW st \in JobStatus, SetStatus(u, st)
  PROVE  job' \in [Uploads -> JobRow] /\ spent' \in [Events -> Nat]
<1>1. job' \in [Uploads -> JobRow]
  BY DEF SetStatus, JobRow
<1>2. spent' \in [Events -> Nat]
  BY FaultType DEF SetStatus
<1> QED
  BY <1>1, <1>2

\* UpsertFile keeps the type of the table files.
LEMMA UpsertedType ==
  ASSUME NEW fs \in [Paths -> FileRow], NEW pth \in Paths, NEW r \in FileRow
  PROVE  Upserted(fs, pth, r) \in [Paths -> FileRow]
<1>1. [id  |-> IF fs[pth].id = None THEN r.id ELSE fs[pth].id, sha |-> r.sha] \in FileRow
  BY DEF FileRow
<1> QED
  BY <1>1 DEF Upserted

\* Writing one row keeps the type of the table chunks.
LEMMA RowType ==
  ASSUME NEW st \in CopyStatus, NEW m \in Copies \cup {None}, NEW h \in Hashes \cup {None}
  PROVE  Row(st, m, h) \in CopyRow
BY DEF Row, CopyRow

\* So does marking a row FAILED.
LEMMA FailedType ==
  ASSUME NEW r \in CopyRow
  PROVE  [r EXCEPT !.status = "FAILED"] \in CopyRow
BY DEF CopyRow, CopyStatus

\* IncrementJobCompletedChunks keeps the type of the table jobs.
LEMMA CountedType ==
  ASSUME NEW r \in JobRow
  PROVE  [r EXCEPT !.done = @ + 1] \in JobRow
BY DEF JobRow

\* The path of an upload is a path of the table files.
LEMMA PathType ==
  ASSUME request \in [Uploads -> Requests], NEW u \in Uploads
  PROVE  Path(u) \in Paths /\ request[u].content \in Contents
<1>1. request[u] \in Requests
  OBVIOUS
<1>2. request[u].path \in Paths
  BY <1>1, UploadAssumption
<1> QED
  BY <1>1, <1>2 DEF Path, Contents

-----------------------------------------------------------------------------
(***************************************************************************)
(* Type correctness.                                                       *)
(***************************************************************************)

\* Every reachable state has the types that the tables and the goroutines of the
\* code give it.
THEOREM TypeCorrect == Spec => []TypeOK
<1>1. Init => TypeOK
  <2> SUFFICES ASSUME Init PROVE TypeOK
    OBVIOUS
  <2>1. Row("NONE", None, None) \in CopyRow
    BY RowType DEF CopyStatus
  <2>2. \A u \in Uploads : At("off", 0, None) \in PoolState
    BY TotalType DEF Init, At, PoolState, WorkerStages
  <2>3. job \in [Uploads -> JobRow]
    BY DEF Init, JobRow, JobStatus
  <2>4. files \in [Paths -> FileRow] /\ rec \in [Uploads -> FileRow]
    BY DEF Init, FileRow
  <2>5. pc \in [Uploads -> Stages]
    BY DEF Init, Stages, BeforePool
  <2> QED
    BY <2>1, <2>2, <2>3, <2>4, <2>5 DEF Init, TypeOK
<1>2. TypeOK /\ [Next]_vars => TypeOK'
  <2> SUFFICES ASSUME TypeOK, [Next]_vars PROVE TypeOK'
    OBVIOUS
  <2> USE DEF TypeOK
  <2>1. ASSUME NEW u \in Uploads, Stage(u) PROVE TypeOK'
    <3>1. pc' \in [Uploads -> Stages]
      BY <2>1, GotoType DEF Stage, Stages, BeforePool, PoolStages, Final
    <3> QED
      BY <2>1, <3>1 DEF Stage, tables, pool, engine, remote
  <2>2. ASSUME NEW u \in Uploads, NoChannels(u) PROVE TypeOK'
    <3>1. pc' \in [Uploads -> Stages]
      BY <2>2, GotoType DEF NoChannels, Reject, Stages, BeforePool, PoolStages, Final
    <3> QED
      BY <2>2, <3>1 DEF NoChannels, Reject, tables, pool, engine, remote
  <2>3. ASSUME NEW u \in Uploads, GetFileByPath(u) PROVE TypeOK'
    <3>1. pc' \in [Uploads -> Stages]
      BY <2>3, GotoType DEF GetFileByPath, Stages, BeforePool, PoolStages, Final
    <3>2. spent' \in [Events -> Nat]
      BY <2>3, FaultType DEF GetFileByPath
    <3>3. rec' \in [Uploads -> FileRow]
      <4>1. [id |-> u, sha |-> None] \in FileRow
        BY DEF FileRow
      <4>2. files[Path(u)] \in FileRow
        BY PathType
      <4> QED
        BY <2>3, <4>1, <4>2 DEF GetFileByPath
    <3> QED
      BY <2>3, <3>1, <3>2, <3>3 DEF GetFileByPath, tables, pool, engine, remote
  <2>4. ASSUME NEW u \in Uploads, UpsertFile(u) PROVE TypeOK'
    <3>1. pc' \in [Uploads -> Stages]
      BY <2>4, GotoType DEF UpsertFile, Reject, Stages, BeforePool, PoolStages, Final
    <3>2. spent' \in [Events -> Nat]
      BY <2>4, FaultType DEF UpsertFile
    <3>3. files' \in [Paths -> FileRow]
      BY <2>4, PathType, UpsertedType DEF UpsertFile
    <3> QED
      BY <2>4, <3>1, <3>2, <3>3 DEF UpsertFile, Reject, tables, pool, engine, remote
  <2>5. ASSUME NEW u \in Uploads, CreateJob(u) PROVE TypeOK'
    <3>1. pc' \in [Uploads -> Stages]
      BY <2>5, GotoType DEF CreateJob, Reject, Stages, BeforePool, PoolStages, Final
    <3>2. spent' \in [Events -> Nat]
      BY <2>5, FaultType DEF CreateJob
    <3>3. job' \in [Uploads -> JobRow]
      <4>1. [status |-> "ACTIVE", file |-> rec[u].id, done |-> 0] \in JobRow
        BY DEF JobRow, FileRow, JobStatus
      <4> QED
        BY <2>5, <4>1 DEF CreateJob
    <3> QED
      BY <2>5, <3>1, <3>2, <3>3 DEF CreateJob, Reject, tables, pool, engine, remote
  <2>6. ASSUME NEW u \in Uploads, CreateChunks(u) PROVE TypeOK'
    <3>1. pc' \in [Uploads -> Stages]
      BY <2>6, GotoType DEF CreateChunks, Reject, Stages, BeforePool, PoolStages, Final
    <3>2. spent' \in [Events -> Nat]
      BY <2>6, FaultType DEF CreateChunks
    <3>3. chunk' \in [Copies -> CopyRow]
      <4>1. Row("PENDING", None, None) \in CopyRow
        BY RowType DEF CopyStatus
      <4> QED
        BY <2>6, <4>1 DEF CreateChunks
    <3> QED
      BY <2>6, <3>1, <3>2, <3>3 DEF CreateChunks, Reject, tables, pool, engine, remote
  <2>7. ASSUME NEW u \in Uploads, Register(u) PROVE TypeOK'
    <3>1. pc' \in [Uploads -> Stages]
      BY <2>7, GotoType DEF Register, Stages, BeforePool, PoolStages, Final
    <3> QED
      BY <2>7, <3>1 DEF Register, tables, pool, engine, remote
  <2>8. ASSUME NEW u \in Uploads, RemoveStaged(u) PROVE TypeOK'
    BY <2>8 DEF RemoveStaged, tables, pool, engine, remote
  <2>9. ASSUME NEW u \in Uploads, Open(u) PROVE TypeOK'
    <3>1. pc' \in [Uploads -> Stages]
      BY <2>9, GotoType DEF Open, Stages, BeforePool, PoolStages, Final
    <3>2. spent' \in [Events -> Nat]
      BY <2>9, FaultType DEF Open
    <3>3. worker' \in [Uploads -> [Workers -> PoolState]]
      <4>1. 0 \in Items
        BY TotalType
      <4>2. \A w \in Workers : At(IF w <= Total(u) THEN "select" ELSE "exit", 0, None) \in PoolState
        BY <4>1 DEF At, PoolState, WorkerStages
      <4> QED
        BY <2>9, <4>2 DEF Open
    <3> QED
      BY <2>9, <3>1, <3>2, <3>3 DEF Open, tables, pool, engine, remote
  <2>10. ASSUME NEW u \in Uploads, Verdict(u) PROVE TypeOK'
    <3>1. pc' \in [Uploads -> Stages]
      BY <2>10, GotoType DEF Verdict, Stages, BeforePool, PoolStages, Final
    <3>2. spent' \in [Events -> Nat]
      BY <2>10, FaultType DEF Verdict
    <3> QED
      BY <2>10, <3>1, <3>2 DEF Verdict, tables, pool, engine, remote
  <2>11. ASSUME NEW u \in Uploads, MarkFailed(u) PROVE TypeOK'
    <3>1. pc' \in [Uploads -> Stages]
      BY <2>11, GotoType DEF MarkFailed, Stages, BeforePool, PoolStages, Final
    <3>2. job' \in [Uploads -> JobRow] /\ spent' \in [Events -> Nat]
      BY <2>11, SetStatusType DEF MarkFailed, JobStatus
    <3> QED
      BY <2>11, <3>1, <3>2 DEF MarkFailed, tables, pool, engine, remote
  <2>12. ASSUME NEW u \in Uploads, Finish(u) PROVE TypeOK'
    <3>1. pc' \in [Uploads -> Stages]
      BY <2>12, GotoType DEF Finish, Stages, BeforePool, PoolStages, Final
    <3>2. job' \in [Uploads -> JobRow] /\ spent' \in [Events -> Nat]
      BY <2>12, SetStatusType DEF Finish, JobStatus
    <3> QED
      BY <2>12, <3>1, <3>2 DEF Finish, tables, pool, engine, remote
  <2>13. ASSUME NEW u \in Uploads, Publish(u) PROVE TypeOK'
    <3>1. pc' \in [Uploads -> Stages]
      BY <2>13, GotoType DEF Publish, Stages, BeforePool, PoolStages, Final
    <3>2. spent' \in [Events -> Nat]
      BY <2>13, FaultType DEF Publish
    <3>3. WithHash(u) \in FileRow
      <4>1. rec[u] \in FileRow /\ request[u].content \in Contents
        BY PathType
      <4> QED
        BY <4>1 DEF WithHash, FileRow
    <3>4. rec' \in [Uploads -> FileRow]
      BY <2>13, <3>3 DEF Publish
    <3>5. files' \in [Paths -> FileRow]
      BY <2>13, <3>3, PathType, UpsertedType DEF Publish
    <3> QED
      BY <2>13, <3>1, <3>2, <3>3, <3>4, <3>5 DEF Publish, tables, pool, engine, remote
  <2>14. ASSUME NEW u \in Uploads, Leave(u) PROVE TypeOK'
    <3>1. pc' \in [Uploads -> Stages]
      BY <2>14, GotoType DEF Leave, Stages, BeforePool, PoolStages, Final
    <3> QED
      BY <2>14, <3>1 DEF Leave, tables, pool, engine, remote
  <2>15. ASSUME NEW u \in Uploads, CancelJob(u) PROVE TypeOK'
    <3>1. spent' \in [Events -> Nat]
      BY <2>15, SpendType DEF CancelJob, Events
    <3> QED
      BY <2>15, <3>1 DEF CancelJob, tables, pool, engine, remote
  <2>16. ASSUME NEW u \in Uploads, WritePaused(u) PROVE TypeOK'
    <3>1. job' \in [Uploads -> JobRow] /\ spent' \in [Events -> Nat]
      BY <2>16, SetStatusType DEF WritePaused, JobStatus
    <3> QED
      BY <2>16, <3>1 DEF WritePaused, tables, pool, engine, remote
  <2>17. ASSUME NEW u \in Uploads, BeginDelete(u) PROVE TypeOK'
    <3>1. spent' \in [Events -> Nat]
      BY <2>17, SpendType DEF BeginDelete, Events
    <3>2. deleter' \in [at : {"idle", "read"}, file : Uploads \cup {None}, msgs : SUBSET Copies]
      BY <2>17 DEF BeginDelete, CopiesOf, CopyRow
    <3> QED
      BY <2>17, <3>1, <3>2 DEF BeginDelete, tables, pool, engine, remote
  <2>18. ASSUME NEW u \in Uploads, NEW w \in Workers, Receive(u, w) PROVE TypeOK'
    <3>1. worker' \in [Uploads -> [Workers -> PoolState]]
      <4>1. taken[u] \in Items
        BY <2>18, TotalType DEF Receive, HasItem
      <4> QED
        BY <2>18, <4>1, AtType DEF Receive, WorkerStages
    <3>2. taken' \in [Uploads -> Nat]
      BY <2>18 DEF Receive
    <3> QED
      BY <2>18, <3>1, <3>2 DEF Receive, poolRest, engine
  <2>19. ASSUME NEW u \in Uploads, NEW w \in Workers, Exit(u, w) PROVE TypeOK'
    <3>1. worker' \in [Uploads -> [Workers -> PoolState]]
      BY <2>19, MoveType DEF Exit, WorkerStages
    <3> QED
      BY <2>19, <3>1 DEF Exit, poolRest, engine
  <2>20. ASSUME NEW u \in Uploads, NEW w \in Workers, FindChunkByHash(u, w) PROVE TypeOK'
    <3>1. spent' \in [Events -> Nat]
      BY <2>20, FaultType DEF FindChunkByHash
    <3>2. worker' \in [Uploads -> [Workers -> PoolState]]
      <4>1. \A d \in Duplicates(Copy(u, w)) : chunk[d].msg \in Copies \cup {None}
        BY DEF Duplicates, CopyRow
      <4>2. CASE \E d \in Duplicates(Copy(u, w)) :
                   worker' = [worker EXCEPT ![u][w] = At("reuse", @.item, chunk[d].msg)]
        <5>1. PICK d \in Duplicates(Copy(u, w)) :
                 worker' = [worker EXCEPT ![u][w] = At("reuse", @.item, chunk[d].msg)]
          BY <4>2
        <5>2. chunk[d].msg \in Copies \cup {None}
          BY <4>1
        <5> QED
          BY <5>1, <5>2, AtType, CopyType DEF WorkerStages
      <4>3. CASE Move(u, w, "post") \/ Move(u, w, "fail")
        BY <4>3, MoveType DEF WorkerStages
      <4> QED
        BY <2>20, <4>2, <4>3 DEF FindChunkByHash
    <3> QED
      BY <2>20, <3>1, <3>2 DEF FindChunkByHash, poolRest, engine
  <2>21. ASSUME NEW u \in Uploads, NEW w \in Workers, BeginUploadChunk(u, w) PROVE TypeOK'
    <3>1. worker' \in [Uploads -> [Workers -> PoolState]]
      BY <2>21, MoveType DEF BeginUploadChunk, WorkerStages
    <3> QED
      BY <2>21, <3>1 DEF BeginUploadChunk, poolRest, engine
  <2>22. ASSUME NEW u \in Uploads, NEW w \in Workers, UploadChunk(u, w) PROVE TypeOK'
    <3>1. worker' \in [Uploads -> [Workers -> PoolState]]
      <4>1. CASE worker' = [worker EXCEPT ![u][w] = At("record", @.item, Copy(u, w))]
        BY <4>1, AtType, CopyType DEF WorkerStages
      <4>2. CASE Move(u, w, "quit")
        BY <4>2, MoveType DEF WorkerStages
      <4> QED
        BY <2>22, <4>1, <4>2 DEF UploadChunk
    <3>2. discord' \subseteq Copies
      BY <2>22, CopyType DEF UploadChunk
    <3> QED
      BY <2>22, <3>1, <3>2 DEF UploadChunk, poolRest, engine
  <2>23. ASSUME NEW u \in Uploads, NEW w \in Workers, UpdateChunkComplete(u, w) PROVE TypeOK'
    <3>1. spent' \in [Events -> Nat]
      BY <2>23, FaultType DEF UpdateChunkComplete
    <3>2. worker' \in [Uploads -> [Workers -> PoolState]]
      BY <2>23, MoveType DEF UpdateChunkComplete, WorkerStages
    <3>3. chunk' \in [Copies -> CopyRow]
      <4>1. Row("COMPLETED", worker[u][w].msg, HashOf(Copy(u, w))) \in CopyRow
        BY CopyType, HashType, RowType DEF CopyStatus
      <4> QED
        BY <2>23, <4>1 DEF UpdateChunkComplete
    <3> QED
      BY <2>23, <3>1, <3>2, <3>3 DEF UpdateChunkComplete, poolRest, engine
  <2>24. ASSUME NEW u \in Uploads, NEW w \in Workers, IncrementJobCompletedChunks(u, w)
         PROVE  TypeOK'
    <3>1. spent' \in [Events -> Nat]
      BY <2>24, FaultType DEF IncrementJobCompletedChunks
    <3>2. worker' \in [Uploads -> [Workers -> PoolState]]
      BY <2>24, MoveType DEF IncrementJobCompletedChunks, WorkerStages
    <3>3. job' \in [Uploads -> JobRow]
      <4>1. [job[u] EXCEPT !.done = @ + 1] \in JobRow
        BY CountedType
      <4> QED
        BY <2>24, <4>1 DEF IncrementJobCompletedChunks
    <3> QED
      BY <2>24, <3>1, <3>2, <3>3 DEF IncrementJobCompletedChunks, poolRest, engine
  <2>25. ASSUME NEW u \in Uploads, NEW w \in Workers, MarkChunkFailed(u, w) PROVE TypeOK'
    <3>1. spent' \in [Events -> Nat]
      BY <2>25, FaultType DEF MarkChunkFailed
    <3>2. worker' \in [Uploads -> [Workers -> PoolState]]
      BY <2>25, MoveType DEF MarkChunkFailed, WorkerStages
    <3>3. chunk' \in [Copies -> CopyRow]
      <4>1. [chunk[Copy(u, w)] EXCEPT !.status = "FAILED"] \in CopyRow
        BY CopyType, FailedType
      <4> QED
        BY <2>25, <4>1 DEF MarkChunkFailed
    <3>4. errs' \in [Uploads -> BOOLEAN]
      BY <2>25 DEF MarkChunkFailed
    <3> QED
      BY <2>25, <3>1, <3>2, <3>3, <3>4 DEF MarkChunkFailed, poolRest, engine
  <2>26. ASSUME DeleteFile PROVE TypeOK'
    <3>1. spent' \in [Events -> Nat]
      BY <2>26, FaultType DEF DeleteFile
    <3>2. files' \in [Paths -> FileRow]
      BY <2>26 DEF DeleteFile, FileRow
    <3>3. chunk' \in [Copies -> CopyRow]
      <4>1. Row("DELETED", None, None) \in CopyRow
        BY RowType DEF CopyStatus
      <4> QED
        BY <2>26, <4>1 DEF DeleteFile
    <3> QED
      BY <2>26, <3>1, <3>2, <3>3 DEF DeleteFile, tables, pool, engine, remote
  <2>27. ASSUME NEW m \in Copies, DeleteMessage(m) PROVE TypeOK'
    BY <2>27 DEF DeleteMessage, tables, pool, engine, remote
  <2>28. ASSUME CrashRestart PROVE TypeOK'
    <3>1. spent' \in [Events -> Nat]
      BY <2>28, SpendType DEF CrashRestart, Events
    <3>2. pc' \in [Uploads -> Stages]
      BY <2>28 DEF CrashRestart, Stages, BeforePool, PoolStages, Final
    <3>3. job' \in [Uploads -> JobRow]
      <4>1. \A v \in Uploads : Cardinality(Stored(v)) \in Nat
        BY ItemsFinite DEF Stored
      <4>2. ResetIncomplete(job) \in [Uploads -> JobRow]
        BY <4>1 DEF ResetIncomplete, JobRow
      <4> QED
        BY <2>28, <4>2 DEF CrashRestart
    <3>4. worker' \in [Uploads -> [Workers -> PoolState]]
      <4>1. \A v \in Uploads : At("off", 0, None) \in PoolState
        BY TotalType DEF At, PoolState, WorkerStages
      <4> QED
        BY <2>28, <4>1 DEF CrashRestart
    <3> QED
      BY <2>28, <3>1, <3>2, <3>3, <3>4 DEF CrashRestart, tables, pool, engine, remote
  <2>29. CASE UNCHANGED vars
    BY <2>29 DEF vars, tables, pool, engine, remote
  <2> QED
    BY <2>1, <2>2, <2>3, <2>4, <2>5, <2>6, <2>7, <2>8, <2>9, <2>10, <2>11, <2>12, <2>13,
       <2>14, <2>15, <2>16, <2>17, <2>18, <2>19, <2>20, <2>21, <2>22, <2>23, <2>24, <2>25,
       <2>26, <2>27, <2>28, <2>29
       DEF Next, Handler, RunUpload, Worker
<1> QED
  BY <1>1, <1>2, PTL DEF Spec
-----------------------------------------------------------------------------
(***************************************************************************)
(* Who writes which row: Owned, the invariant that the theorems below need. *)
(***************************************************************************)
\* A step of handleUploadFile or runUpload that only moves on.
LEMMA GotoOwned ==
  ASSUME TypeOK, Owned, NEW u \in Uploads, NEW l \in Stages, Goto(u, l),
         UNCHANGED <<request, chunk, worker, taken>>,
         pc[u] # "running" \/ \A w \in Workers : worker[u][w].at = "exit",
         l \in Unplanned => pc[u] \in Unplanned,
         l \in Opening => pc[u] \in Opening
  PROVE  Owned'
<1>0. pc' = [pc EXCEPT ![u] = l] /\ pc \in [Uploads -> Stages]
  BY DEF Goto, TypeOK
<1>1. Planned'
  BY <1>0 DEF Owned, Planned, Copies, Total, Parts
<1>2. Drained'
  BY <1>0 DEF Owned, Drained
<1>3. Untouched'
  BY <1>0 DEF Owned, Untouched
<1>4. InHand'
  BY DEF Owned, InHand, Copy
<1> QED
  BY <1>1, <1>2, <1>3, <1>4 DEF Owned

\* A step of a goroutine that keeps its item and writes at most the row of it.
LEMMA WorkerOwned ==
  ASSUME TypeOK, Owned, NEW u \in Uploads, NEW w \in Workers, NEW r \in PoolState,
         UNCHANGED <<request, pc, taken>>,
         worker' = [worker EXCEPT ![u][w] = r],
         r.item = worker[u][w].item,
         worker[u][w].at \notin {"off", "exit"},
         r.at \in Busy => worker[u][w].at \in Busy,
         \/ chunk' = chunk /\ (r.at \in Storing => worker[u][w].at \in Storing)
         \/ /\ worker[u][w].at \in Busy
            /\ Exists(Copy(u, w))
            /\ \E row \in CopyRow :
                 /\ chunk' = [chunk EXCEPT ![Copy(u, w)] = row]
                 /\ row.status = "COMPLETED" => r.at \notin Storing
  PROVE  Owned'
<1> DEFINE c0 == Copy(u, w)
<1>0. /\ worker \in [Uploads -> [Workers -> PoolState]]
      /\ chunk \in [Copies -> CopyRow]
      /\ c0 \in Copies
  BY CopyType DEF TypeOK
<1>1. pc[u] = "running"
  BY DEF Owned, Drained
<1>2. \A v \in Uploads, x \in Workers :
        worker'[v][x] = IF v = u /\ x = w THEN r ELSE worker[v][x]
  BY <1>0
<1>3. \A c \in Copies : c # c0 => chunk'[c] = chunk[c]
  BY <1>0
<1>4. chunk'[c0] # chunk[c0] =>
        /\ worker[u][w].at \in Busy
        /\ Exists(c0)
        /\ chunk'[c0].status = "COMPLETED" => r.at \notin Storing
  BY <1>0
<1>5. Planned'
  <2> SUFFICES ASSUME NEW c \in Copies,
                      pc[c[1]] \in Unplanned \/ c[2] >= Total(c[1])
               PROVE  chunk'[c].status = "NONE"
    BY DEF Planned, Total, Parts
  <2>1. chunk[c].status = "NONE"
    BY DEF Owned, Planned
  <2>2. c = c0 => ~Exists(c0)
    BY <2>1 DEF Exists
  <2> QED
    BY <1>3, <1>4, <2>1, <2>2
<1>6. Drained'
  BY <1>1, <1>2 DEF Owned, Drained
<1>7. Untouched'
  <2> SUFFICES ASSUME NEW v \in Uploads, NEW k \in Items, pc[v] \in Opening, k >= taken[v]
               PROVE  chunk'[<<v, k>>].status # "COMPLETED"
    BY DEF Untouched
  <2>1. chunk[<<v, k>>].status # "COMPLETED" /\ <<v, k>> \in Copies
    BY DEF Owned, Untouched, Copies
  <2>2. <<v, k>> = c0 => worker[u][w].at \notin Busy
    <3>1. worker[u][w].at \in Busy => worker[u][w].item < taken[u]
      BY DEF Owned, InHand
    <3>2. worker[u][w].item \in Nat /\ taken[u] \in Nat
      BY <1>0 DEF PoolState, Items, TypeOK
    <3> QED
      BY <3>1, <3>2 DEF Copy
  <2> QED
    BY <1>3, <1>4, <2>1, <2>2
<1>8. InHand'
  <2> SUFFICES ASSUME NEW v \in Uploads, NEW x \in Workers, worker'[v][x].at \in Busy
               PROVE  /\ worker'[v][x].item < taken[v]
                      /\ worker'[v][x].at \in Storing =>
                              chunk'[<<v, worker'[v][x].item>>].status # "COMPLETED"
                      /\ \A y \in Workers \ {x} :
                           worker'[v][y].at \in Busy => worker'[v][y].item # worker'[v][x].item
    BY DEF InHand, Copy
  <2>1. worker[v][x].at \in Busy /\ worker'[v][x].item = worker[v][x].item
    BY <1>2
  <2>2. /\ worker[v][x].item < taken[v]
        /\ worker[v][x].at \in Storing => chunk[Copy(v, x)].status # "COMPLETED"
        /\ \A y \in Workers \ {x} :
             worker[v][y].at \in Busy => worker[v][y].item # worker[v][x].item
    BY <2>1 DEF Owned, InHand
  <2>3. \A y \in Workers \ {x} :
          worker'[v][y].at \in Busy => worker'[v][y].item # worker'[v][x].item
    BY <1>2, <2>1, <2>2
  <2>4. ASSUME worker'[v][x].at \in Storing
        PROVE  chunk'[Copy(v, x)].status # "COMPLETED"
    <3>1. CASE v = u /\ x = w
      <4>1. r.at \in Storing
        BY <3>1, <2>4, <1>2
      <4>2. \/ chunk'[c0].status # "COMPLETED"
            \/ chunk' = chunk /\ worker[u][w].at \in Storing
        BY <4>1, <1>0
      <4> QED
        BY <3>1, <4>2, <2>2
    <3>2. CASE ~(v = u /\ x = w)
      <4>1. worker[v][x].at \in Storing
        BY <3>2, <2>4, <1>2
      <4>2. chunk[Copy(v, x)].status # "COMPLETED" /\ Copy(v, x) \in Copies
        BY <4>1, <2>2, <1>0, CopyType
      <4>3. Copy(v, x) = c0 => worker[u][w].at \notin Busy
        BY <3>2, <2>2 DEF Copy
      <4> QED
        BY <4>2, <4>3, <1>3, <1>4
    <3> QED
      BY <3>1, <3>2
  <2> QED
    BY <2>1, <2>2, <2>3, <2>4 DEF Copy
<1> QED
  BY <1>5, <1>6, <1>7, <1>8 DEF Owned

\* The state of a goroutine that holds a message.
LEMMA HeldState ==
  ASSUME TypeOK, NEW u \in Uploads, NEW w \in Workers, NEW l \in WorkerStages,
         NEW m \in Copies \cup {None}
  PROVE  LET r == At(l, worker[u][w].item, m)
         IN  /\ r \in PoolState
             /\ r.item = worker[u][w].item /\ r.msg = m /\ r.at = l
<1>1. worker[u][w].item \in Items
  BY CopyType DEF TypeOK
<1> QED
  BY <1>1 DEF At, PoolState

\* A step of somebody else.
LEMMA QuietOwned ==
  ASSUME Owned, UNCHANGED <<request, pc, chunk, worker, taken>>
  PROVE  Owned'
BY DEF Owned, Planned, Drained, Untouched, InHand, Total, Parts, Copy

\* The state of a goroutine after Move.
LEMMA MovedState ==
  ASSUME TypeOK, NEW u \in Uploads, NEW w \in Workers, NEW l \in WorkerStages, Move(u, w, l)
  PROVE  \E r \in PoolState : /\ worker' = [worker EXCEPT ![u][w] = r]
                             /\ r.item = worker[u][w].item /\ r.msg = worker[u][w].msg
                             /\ r.at = l
<1> DEFINE r == [worker[u][w] EXCEPT !.at = l]
<1>1. worker[u][w] \in PoolState
  BY DEF TypeOK
<1>2. r \in PoolState /\ r.item = worker[u][w].item /\ r.msg = worker[u][w].msg /\ r.at = l
  BY <1>1 DEF PoolState
<1>3. worker' = [worker EXCEPT ![u][w] = r]
  BY DEF Move
<1> QED
  BY <1>2, <1>3

\* Work items stay with their goroutine, and the rows of stored copies with nobody.
THEOREM OwnedAlways == Spec => []Owned
<1>1. Init => Owned
  <2> SUFFICES ASSUME Init PROVE Owned
    OBVIOUS
  <2>1. Planned /\ Untouched
    BY DEF Init, Planned, Untouched, Row, Copies
  <2>2. Drained /\ InHand
    BY DEF Init, Drained, InHand, At, Busy
  <2> QED
    BY <2>1, <2>2 DEF Owned
<1>2. TypeOK /\ TypeOK' /\ Owned /\ [Next]_vars => Owned'
  <2> SUFFICES ASSUME TypeOK, TypeOK', Owned, [Next]_vars PROVE Owned'
    OBVIOUS
  <2> USE DEF Stages, BeforePool, PoolStages, Final, Unplanned, Opening
  <2>1. ASSUME NEW u \in Uploads, Stage(u) PROVE Owned'
    BY <2>1, GotoOwned DEF Stage, tables, pool, engine, remote
  <2>2. ASSUME NEW u \in Uploads, NoChannels(u) PROVE Owned'
    BY <2>2, GotoOwned DEF NoChannels, Reject, tables, pool, engine, remote
  <2>3. ASSUME NEW u \in Uploads, GetFileByPath(u) PROVE Owned'
    BY <2>3, GotoOwned DEF GetFileByPath, tables, pool, engine, remote
  <2>4. ASSUME NEW u \in Uploads, UpsertFile(u) PROVE Owned'
    BY <2>4, GotoOwned DEF UpsertFile, Reject, tables, pool, engine, remote
  <2>5. ASSUME NEW u \in Uploads, CreateJob(u) PROVE Owned'
    BY <2>5, GotoOwned DEF CreateJob, Reject, tables, pool, engine, remote
  <2>6. ASSUME NEW u \in Uploads, Register(u) PROVE Owned'
    BY <2>6, GotoOwned DEF Register, tables, pool, engine, remote
  <2>7. ASSUME NEW u \in Uploads, Verdict(u) PROVE Owned'
    BY <2>7, GotoOwned DEF Verdict, tables, pool, engine, remote
  <2>8. ASSUME NEW u \in Uploads, MarkFailed(u) PROVE Owned'
    BY <2>8, GotoOwned DEF MarkFailed, tables, pool, engine, remote
  <2>9. ASSUME NEW u \in Uploads, Publish(u) PROVE Owned'
    BY <2>9, GotoOwned DEF Publish, tables, pool, engine, remote
  <2>10. ASSUME NEW u \in Uploads, Finish(u) PROVE Owned'
    BY <2>10, GotoOwned DEF Finish, tables, pool, engine, remote
  <2>11. ASSUME NEW u \in Uploads, Leave(u) PROVE Owned'
    BY <2>11, GotoOwned DEF Leave, tables, pool, engine, remote
  <2>12. ASSUME NEW u \in Uploads, CreateChunks(u) PROVE Owned'
    <3>1. CASE UNCHANGED chunk
      BY <2>12, <3>1, GotoOwned DEF CreateChunks, Reject, tables, pool, engine, remote
    <3>2. CASE /\ \E l \in {"register", "rejected"} : Goto(u, l)
               /\ chunk' = [c \in Copies |-> IF c[1] = u /\ c[2] < Total(u)
                                              THEN Row("PENDING", None, None) ELSE chunk[c]]
      <4>0. PICK l \in {"register", "rejected"} : pc' = [pc EXCEPT ![u] = l]
        BY <3>2 DEF Goto
      <4>1. pc[u] = "rows" /\ pc' = [pc EXCEPT ![u] = l] /\ pc \in [Uploads -> Stages]
        BY <2>12, <4>0 DEF CreateChunks, TypeOK
      <4>2. UNCHANGED <<request, worker, taken>>
        BY <2>12 DEF CreateChunks, tables, pool, engine, remote
      <4>3. \A c \in Copies : c[1] = u => chunk[c].status = "NONE"
        BY <4>1 DEF Owned, Planned
      <4>4. Planned'
        <5> SUFFICES ASSUME NEW c \in Copies,
                            pc'[c[1]] \in Unplanned \/ c[2] >= Total(c[1])
                     PROVE  chunk'[c].status = "NONE"
          BY <4>2 DEF Planned, Total, Parts
        <5>1. Total(c[1]) \in Nat /\ c[2] \in Nat
          BY TotalType DEF TypeOK, Copies, Items
        <5>2. c[1] = u => ~(c[2] < Total(u))
          BY <4>1, <5>1
        <5> QED
          BY <3>2, <4>1, <4>3, <5>2 DEF Owned, Planned
      <4>5. Drained'
        BY <4>1, <4>2 DEF Owned, Drained
      <4>6. Untouched'
        BY <3>2, <4>1, <4>2 DEF Owned, Untouched, Copies, Row
      <4>7. InHand'
        <5>1. \A c \in Copies : c[1] # u => chunk'[c] = chunk[c]
          BY <3>2
        <5>2. \A w \in Workers : worker[u][w].at \notin Busy
          BY <4>1 DEF Owned, Drained, Busy
        <5>3. \A v \in Uploads, w \in Workers : v # u => chunk'[Copy(v, w)] = chunk[Copy(v, w)]
          BY <5>1, CopyType DEF TypeOK, Copy
        <5> QED
          BY <4>2, <5>2, <5>3 DEF Owned, InHand, Copy
      <4> QED
        BY <4>4, <4>5, <4>6, <4>7 DEF Owned
    <3> QED
      BY <2>12, <3>1, <3>2 DEF CreateChunks, Reject
  <2>13. ASSUME NEW u \in Uploads, Open(u) PROVE Owned'
    <3>1. CASE UNCHANGED worker
      BY <2>13, <3>1, GotoOwned DEF Open, Goto, tables, pool, engine, remote
    <3>2. CASE /\ Goto(u, "running")
               /\ worker' = [worker EXCEPT ![u] = [w \in Workers |->
                               At(IF w <= Total(u) THEN "select" ELSE "exit", 0, None)]]
      <4>1. pc[u] = "open" /\ pc' = [pc EXCEPT ![u] = "running"] /\ pc \in [Uploads -> Stages]
        BY <2>13, <3>2 DEF Open, Goto, TypeOK
      <4>2. UNCHANGED <<request, chunk, taken>>
        BY <2>13 DEF Open, tables, pool, engine, remote
      <4>3. \A v \in Uploads, x \in Workers :
              /\ v # u => worker'[v][x] = worker[v][x]
              /\ worker'[u][x].at \in {"select", "exit"}
        BY <3>2 DEF TypeOK, At
      <4>4. Planned'
        BY <4>1, <4>2 DEF Owned, Planned, Copies, Total, Parts
      <4>5. Drained'
        BY <4>1, <4>3 DEF Owned, Drained
      <4>6. Untouched'
        BY <4>1, <4>2 DEF Owned, Untouched
      <4>7. InHand'
        BY <4>2, <4>3 DEF Owned, InHand, Copy, Busy
      <4> QED
        BY <4>4, <4>5, <4>6, <4>7 DEF Owned
    <3> QED
      BY <2>13, <3>1, <3>2 DEF Open
  <2>14. ASSUME NEW u \in Uploads, RemoveStaged(u) PROVE Owned'
    BY <2>14, QuietOwned DEF RemoveStaged, tables, pool, engine, remote
  <2>15. ASSUME NEW u \in Uploads, CancelJob(u) PROVE Owned'
    BY <2>15, QuietOwned DEF CancelJob, tables, pool, engine, remote
  <2>16. ASSUME NEW u \in Uploads, WritePaused(u) PROVE Owned'
    BY <2>16, QuietOwned DEF WritePaused, tables, pool, engine, remote
  <2>17. ASSUME NEW u \in Uploads, BeginDelete(u) PROVE Owned'
    BY <2>17, QuietOwned DEF BeginDelete, tables, pool, engine, remote
  <2>18. ASSUME NEW m \in Copies, DeleteMessage(m) PROVE Owned'
    BY <2>18, QuietOwned DEF DeleteMessage, tables, pool, engine, remote
  <2>19. CASE UNCHANGED vars
    BY <2>19, QuietOwned DEF vars, tables, pool, engine, remote
  <2>20. ASSUME NEW u \in Uploads, NEW w \in Workers, Receive(u, w) PROVE Owned'
    <3>1. /\ worker[u][w].at = "select" /\ taken[u] < Total(u)
          /\ taken' = [taken EXCEPT ![u] = @ + 1]
          /\ UNCHANGED <<request, pc, chunk>>
      BY <2>20 DEF Receive, HasItem, poolRest
    <3>2. worker' = [worker EXCEPT ![u][w] = At("lookup", taken[u], None)]
      BY <2>20 DEF Receive
    <3>3. \A v \in Uploads, x \in Workers :
            worker'[v][x] = IF v = u /\ x = w THEN At("lookup", taken[u], None) ELSE worker[v][x]
      BY <3>2 DEF TypeOK
    <3>4. pc[u] = "running"
      BY <3>1 DEF Owned, Drained
    <3>5. taken[u] \in Items /\ taken \in [Uploads -> Nat]
      BY <3>1, TotalType DEF TypeOK
    <3>6. Planned'
      BY <3>1 DEF Owned, Planned, Total, Parts
    <3>7. Drained'
      BY <3>1, <3>3, <3>4 DEF Owned, Drained
    <3>8. Untouched'
      <4>1. \A v \in Uploads, k \in Items : k >= taken'[v] => k >= taken[v]
        BY <3>1, <3>5 DEF Items
      <4> QED
        BY <3>1, <4>1 DEF Owned, Untouched
    <3>9. InHand'
      <4>1. chunk[<<u, taken[u]>>].status # "COMPLETED"
        BY <3>4, <3>5 DEF Owned, Untouched
      <4>2. \A v \in Uploads, x \in Workers : worker[v][x].at \in Busy =>
              worker[v][x].item < taken'[v] /\ (v = u => worker[v][x].item # taken[u])
        <5>1. \A v \in Uploads, x \in Workers : worker[v][x].item \in Nat
          BY DEF TypeOK, PoolState, Items
        <5>2. \A v \in Uploads, x \in Workers :
                worker[v][x].at \in Busy => worker[v][x].item < taken[v]
          BY DEF Owned, InHand
        <5> QED
          BY <3>1, <3>5, <5>1, <5>2
      <4>3. taken[u] < taken'[u]
        BY <3>1, <3>5
      <4>4. At("lookup", taken[u], None).item = taken[u]
        BY DEF At
      <4> QED
        BY <3>1, <3>3, <4>1, <4>2, <4>3, <4>4 DEF Owned, InHand, Copy
    <3> QED
      BY <3>6, <3>7, <3>8, <3>9 DEF Owned
  <2>21. ASSUME NEW u \in Uploads, NEW w \in Workers, Exit(u, w) PROVE Owned'
    <3>1. PICK l \in {"exit"} : Move(u, w, l)
      BY <2>21 DEF Exit
    <3>2. PICK r \in PoolState : /\ worker' = [worker EXCEPT ![u][w] = r]
                                 /\ r.item = worker[u][w].item /\ r.at = l
      BY <3>1, MovedState DEF WorkerStages
    <3>3. UNCHANGED <<request, pc, taken, chunk>>
      BY <2>21 DEF Exit, poolRest
    <3> QED
      BY <2>21, <3>2, <3>3, WorkerOwned DEF Exit, Busy, Storing, WorkerStages
  <2>22. ASSUME NEW u \in Uploads, NEW w \in Workers, BeginUploadChunk(u, w) PROVE Owned'
    <3>1. PICK l \in {"quit", "posting"} : Move(u, w, l)
      BY <2>22 DEF BeginUploadChunk
    <3>2. PICK r \in PoolState : /\ worker' = [worker EXCEPT ![u][w] = r]
                                 /\ r.item = worker[u][w].item /\ r.at = l
      BY <3>1, MovedState DEF WorkerStages
    <3>3. UNCHANGED <<request, pc, taken, chunk>>
      BY <2>22 DEF BeginUploadChunk, poolRest
    <3> QED
      BY <2>22, <3>2, <3>3, WorkerOwned DEF BeginUploadChunk, Busy, Storing, WorkerStages
  <2>23. ASSUME NEW u \in Uploads, NEW w \in Workers, IncrementJobCompletedChunks(u, w)
         PROVE  Owned'
    <3>1. PICK l \in {"select"} : Move(u, w, l)
      BY <2>23 DEF IncrementJobCompletedChunks
    <3>2. PICK r \in PoolState : /\ worker' = [worker EXCEPT ![u][w] = r]
                                 /\ r.item = worker[u][w].item /\ r.at = l
      BY <3>1, MovedState DEF WorkerStages
    <3>3. UNCHANGED <<request, pc, taken, chunk>>
      BY <2>23 DEF IncrementJobCompletedChunks, poolRest
    <3> QED
      BY <2>23, <3>2, <3>3, WorkerOwned
         DEF IncrementJobCompletedChunks, Busy, Storing, WorkerStages
  <2>24. ASSUME NEW u \in Uploads, NEW w \in Workers, FindChunkByHash(u, w) PROVE Owned'
    <3>1. /\ worker[u][w].at = "lookup"
          /\ UNCHANGED <<request, pc, taken, chunk>>
      BY <2>24 DEF FindChunkByHash, poolRest
    <3>2. \E r \in PoolState : /\ worker' = [worker EXCEPT ![u][w] = r]
                               /\ r.item = worker[u][w].item
      <4>1. CASE \E l \in {"post", "fail"} : Move(u, w, l)
        BY <4>1, MovedState DEF WorkerStages
      <4>2. CASE \E d \in Duplicates(Copy(u, w)) :
                   worker' = [worker EXCEPT ![u][w] = At("reuse", @.item, chunk[d].msg)]
        <5>1. PICK d \in Duplicates(Copy(u, w)) :
                 worker' = [worker EXCEPT ![u][w] = At("reuse", @.item, chunk[d].msg)]
          BY <4>2
        <5>2. chunk[d].msg \in Copies \cup {None}
          BY DEF Duplicates, TypeOK, CopyRow
        <5> QED
          <6> DEFINE r == At("reuse", worker[u][w].item, chunk[d].msg)
          <6>1. r \in PoolState /\ r.item = worker[u][w].item
            BY <5>2, HeldState DEF WorkerStages
          <6>2. worker' = [worker EXCEPT ![u][w] = r]
            BY <5>1
          <6> QED
            BY <6>1, <6>2
      <4> QED
        BY <2>24, <4>1, <4>2 DEF FindChunkByHash
    <3> QED
      BY <3>1, <3>2, WorkerOwned DEF Busy, Storing, WorkerStages
  <2>25. ASSUME NEW u \in Uploads, NEW w \in Workers, UploadChunk(u, w) PROVE Owned'
    <3>1. /\ worker[u][w].at = "posting"
          /\ UNCHANGED <<request, pc, taken, chunk>>
      BY <2>25 DEF UploadChunk, poolRest
    <3>2. \E r \in PoolState : /\ worker' = [worker EXCEPT ![u][w] = r]
                               /\ r.item = worker[u][w].item
      <4>1. CASE Move(u, w, "quit")
        BY <4>1, MovedState DEF WorkerStages
      <4>2. CASE worker' = [worker EXCEPT ![u][w] = At("record", @.item, Copy(u, w))]
        <5> DEFINE r == At("record", worker[u][w].item, Copy(u, w))
        <5>1. Copy(u, w) \in Copies \cup {None}
          BY CopyType DEF TypeOK
        <5>2. r \in PoolState /\ r.item = worker[u][w].item
          BY <5>1, HeldState DEF WorkerStages
        <5>3. worker' = [worker EXCEPT ![u][w] = r]
          BY <4>2
        <5> QED
          BY <5>2, <5>3
      <4> QED
        BY <2>25, <4>1, <4>2 DEF UploadChunk
    <3> QED
      BY <3>1, <3>2, WorkerOwned DEF Busy, Storing, WorkerStages
  <2>26. ASSUME NEW u \in Uploads, NEW w \in Workers, UpdateChunkComplete(u, w) PROVE Owned'
    <3> DEFINE row == Row("COMPLETED", worker[u][w].msg, HashOf(Copy(u, w)))
    <3>1. /\ worker[u][w].at \in {"reuse", "record"}
          /\ UNCHANGED <<request, pc, taken>>
      BY <2>26 DEF UpdateChunkComplete, poolRest
    <3>2. CASE Move(u, w, "fail") /\ UNCHANGED chunk
      <4>1. PICK r \in PoolState : /\ worker' = [worker EXCEPT ![u][w] = r]
                                   /\ r.item = worker[u][w].item
        BY <3>2, MovedState DEF WorkerStages
      <4> QED
        BY <3>1, <3>2, <4>1, WorkerOwned DEF Busy, Storing, WorkerStages
    <3>3. CASE /\ \E l \in {"count", "undo"} : Move(u, w, l)
               /\ chunk' = IF Exists(Copy(u, w))
                           THEN [chunk EXCEPT ![Copy(u, w)] = row] ELSE chunk
      <4>1. PICK r \in PoolState : /\ worker' = [worker EXCEPT ![u][w] = r]
                                   /\ r.item = worker[u][w].item /\ r.at \in {"count", "undo"}
        BY <3>3, MovedState DEF WorkerStages
      <4>2. row \in CopyRow
        BY CopyType, HashType, RowType DEF TypeOK, CopyStatus
      <4> QED
        BY <3>1, <3>3, <4>1, <4>2, WorkerOwned DEF Busy, Storing, WorkerStages
    <3> QED
      BY <2>26, <3>2, <3>3 DEF UpdateChunkComplete
  <2>27. ASSUME NEW u \in Uploads, NEW w \in Workers, MarkChunkFailed(u, w) PROVE Owned'
    <3> DEFINE row == [chunk[Copy(u, w)] EXCEPT !.status = "FAILED"]
    <3>1. /\ worker[u][w].at \in {"fail", "undo", "quit"}
          /\ UNCHANGED <<request, pc, taken>>
      BY <2>27 DEF MarkChunkFailed, poolRest
    <3>2. PICK l \in {"exit", "select"} : Move(u, w, l)
      BY <2>27 DEF MarkChunkFailed
    <3>3. PICK r \in PoolState : /\ worker' = [worker EXCEPT ![u][w] = r]
                                 /\ r.item = worker[u][w].item /\ r.at = l
      BY <3>2, MovedState DEF WorkerStages
    <3>4. chunk[Copy(u, w)] \in CopyRow
      BY CopyType DEF TypeOK
    <3>5. row \in CopyRow /\ row.status = "FAILED"
      BY <3>4, FailedType DEF CopyRow
    <3>6. \/ UNCHANGED chunk
          \/ Exists(Copy(u, w)) /\ chunk' = [chunk EXCEPT ![Copy(u, w)] = row]
      BY <2>27 DEF MarkChunkFailed
    <3> QED
      BY <3>1, <3>3, <3>5, <3>6, WorkerOwned DEF Busy, Storing, WorkerStages
  <2>28. ASSUME DeleteFile PROVE Owned'
    <3>1. UNCHANGED <<request, pc, taken, worker>>
      BY <2>28 DEF DeleteFile, tables, pool, engine, remote
    <3>2. \A c \in Copies : chunk'[c] = chunk[c] \/ (Exists(c) /\ chunk'[c].status = "DELETED")
      BY <2>28 DEF DeleteFile, CopiesOf, Row
    <3>3. Planned'
      BY <3>1, <3>2 DEF Owned, Planned, Exists, Total, Parts
    <3>4. Drained'
      BY <3>1 DEF Owned, Drained
    <3>5. Untouched'
      BY <3>1, <3>2 DEF Owned, Untouched, Copies
    <3>6. \A u \in Uploads, w \in Workers : Copy(u, w)' = Copy(u, w) /\ Copy(u, w) \in Copies
      BY <3>1, CopyType DEF TypeOK, Copy
    <3>7. InHand'
      BY <3>1, <3>2, <3>6 DEF Owned, InHand
    <3> QED
      BY <3>3, <3>4, <3>5, <3>7 DEF Owned
  <2>29. ASSUME CrashRestart PROVE Owned'
    <3>1. UNCHANGED <<request, chunk>>
      BY <2>29 DEF CrashRestart
    <3>2. \A u \in Uploads, w \in Workers : worker'[u][w].at = "off"
      BY <2>29 DEF CrashRestart, At
    <3>3. \A u \in Uploads : pc'[u] \in Opening => pc'[u] = "new" /\ pc[u] = "new"
      BY <2>29 DEF CrashRestart
    <3>4. Planned'
      BY <3>1, <3>3 DEF Owned, Planned, Copies, Total, Parts
    <3>5. Drained' /\ InHand'
      BY <3>2 DEF Drained, InHand, Busy
    <3>6. Untouched'
      BY <3>1, <3>3 DEF Owned, Planned, Untouched, Copies
    <3> QED
      BY <3>4, <3>5, <3>6 DEF Owned
  <2> QED
    BY <2>1, <2>2, <2>3, <2>4, <2>5, <2>6, <2>7, <2>8, <2>9, <2>10, <2>11, <2>12, <2>13,
       <2>14, <2>15, <2>16, <2>17, <2>18, <2>19, <2>20, <2>21, <2>22, <2>23, <2>24, <2>25,
       <2>26, <2>27, <2>28, <2>29
       DEF Next, Handler, RunUpload, Worker
<1> QED
  BY <1>1, <1>2, TypeCorrect, PTL DEF Spec

-----------------------------------------------------------------------------
(***************************************************************************)
(* What a step does to the rows, by action.                                 *)
(***************************************************************************)

\* The requests never change, and so neither do work items and hashes.
LEMMA RequestFixed ==
  ASSUME [Next]_vars
  PROVE  /\ request' = request
         /\ \A u \in Uploads : Total(u)' = Total(u)
         /\ \A c \in Copies : HashOf(c)' = HashOf(c)
<1>0. SUFFICES request' = request
  BY DEF Total, Parts, HashOf, PartOf, Copies
<1>1. ASSUME NEW u \in Uploads, Stage(u) \/ NoChannels(u) \/ GetFileByPath(u) \/
             UpsertFile(u) \/ CreateJob(u) \/ CreateChunks(u) \/ Register(u)
      PROVE  request' = request
  BY <1>1
     DEF Stage, NoChannels, GetFileByPath, UpsertFile, CreateJob, CreateChunks, Register,
         Reject, tables, pool, engine, remote
<1>2. ASSUME NEW u \in Uploads, Open(u) \/ Verdict(u) \/ MarkFailed(u) \/ Publish(u) \/
             Finish(u) \/ Leave(u)
      PROVE  request' = request
  BY <1>2 DEF Open, Verdict, MarkFailed, Publish, Finish, Leave, tables, pool, engine, remote
<1>3. ASSUME NEW u \in Uploads, RemoveStaged(u) \/ CancelJob(u) \/ WritePaused(u) \/
             BeginDelete(u)
      PROVE  request' = request
  BY <1>3 DEF RemoveStaged, CancelJob, WritePaused, BeginDelete, tables, pool, engine, remote
<1>4. ASSUME NEW u \in Uploads, NEW w \in Workers, Receive(u, w) \/ Exit(u, w) \/
             FindChunkByHash(u, w) \/ BeginUploadChunk(u, w) \/ UploadChunk(u, w) \/
             UpdateChunkComplete(u, w) \/ IncrementJobCompletedChunks(u, w) \/
             MarkChunkFailed(u, w)
      PROVE  request' = request
  BY <1>4
     DEF Receive, Exit, FindChunkByHash, BeginUploadChunk, UploadChunk, UpdateChunkComplete,
         IncrementJobCompletedChunks, MarkChunkFailed, poolRest
<1>5. ASSUME NEW m \in Copies, DeleteMessage(m) PROVE request' = request
  BY <1>5 DEF DeleteMessage, tables
<1>6. CASE DeleteFile \/ CrashRestart
  BY <1>6 DEF DeleteFile, CrashRestart, tables
<1>7. CASE UNCHANGED vars
  BY <1>7 DEF vars, tables
<1> QED
  BY <1>1, <1>2, <1>3, <1>4, <1>5, <1>6, <1>7 DEF Next, Handler, RunUpload, Worker

\* The four actions that write rows of the table chunks.
LEMMA RowWriters ==
  ASSUME [Next]_vars, chunk' # chunk
  PROVE  \/ \E u \in Uploads : CreateChunks(u)
         \/ \E u \in Uploads, w \in Workers : UpdateChunkComplete(u, w) \/ MarkChunkFailed(u, w)
         \/ DeleteFile
<1>1. ASSUME NEW u \in Uploads, Stage(u) \/ NoChannels(u) \/ GetFileByPath(u) \/
             UpsertFile(u) \/ CreateJob(u) \/ Register(u)
      PROVE  chunk' = chunk
  BY <1>1
     DEF Stage, NoChannels, GetFileByPath, UpsertFile, CreateJob, Register, Reject, tables,
         pool, engine, remote
<1>2. ASSUME NEW u \in Uploads, Open(u) \/ Verdict(u) \/ MarkFailed(u) \/ Publish(u) \/
             Finish(u) \/ Leave(u)
      PROVE  chunk' = chunk
  BY <1>2 DEF Open, Verdict, MarkFailed, Publish, Finish, Leave, tables, pool, engine, remote
<1>3. ASSUME NEW u \in Uploads, RemoveStaged(u) \/ CancelJob(u) \/ WritePaused(u) \/
             BeginDelete(u)
      PROVE  chunk' = chunk
  BY <1>3 DEF RemoveStaged, CancelJob, WritePaused, BeginDelete, tables, pool, engine, remote
<1>4. ASSUME NEW u \in Uploads, NEW w \in Workers, Receive(u, w) \/ Exit(u, w) \/
             FindChunkByHash(u, w) \/ BeginUploadChunk(u, w) \/ UploadChunk(u, w) \/
             IncrementJobCompletedChunks(u, w)
      PROVE  chunk' = chunk
  BY <1>4
     DEF Receive, Exit, FindChunkByHash, BeginUploadChunk, UploadChunk,
         IncrementJobCompletedChunks, poolRest
<1>5. ASSUME NEW m \in Copies, DeleteMessage(m) PROVE chunk' = chunk
  BY <1>5 DEF DeleteMessage, tables
<1>6. CASE CrashRestart
  BY <1>6 DEF CrashRestart, tables
<1>7. CASE UNCHANGED vars
  BY <1>7 DEF vars, tables
<1> QED
  BY <1>1, <1>2, <1>3, <1>4, <1>5, <1>6, <1>7 DEF Next, Handler, RunUpload, Worker

-----------------------------------------------------------------------------
(***************************************************************************)
(* Stored copies are final.                                                *)
(***************************************************************************)

\* The action behind StoredIsFinal.
RowsFinal ==
  \A c \in Copies : chunk[c].status = "COMPLETED" =>
    \/ chunk'[c] = chunk[c]
    \/ chunk'[c].status = "DELETED"
    \/ Unanswered(c) /\ chunk'[c] = [chunk[c] EXCEPT !.status = "FAILED"]

\* No step changes the row of a stored copy, except to delete it or to mark it
\* failed on behalf of the goroutine whose UPDATE was not answered.
LEMMA FinalStep ==
  ASSUME TypeOK, Owned, [Next]_vars
  PROVE  RowsFinal
<1>1. CASE chunk' = chunk
  BY <1>1 DEF RowsFinal
<1>2. ASSUME NEW u \in Uploads, CreateChunks(u) PROVE RowsFinal
  <2>1. \A c \in Copies : c[1] = u => chunk[c].status = "NONE"
    BY <1>2 DEF Owned, Planned, CreateChunks, Unplanned
  <2>2. \A c \in Copies : c[1] # u => chunk'[c] = chunk[c]
    BY <1>2 DEF CreateChunks
  <2> QED
    BY <2>1, <2>2 DEF RowsFinal
<1>3. ASSUME NEW u \in Uploads, NEW w \in Workers,
             UpdateChunkComplete(u, w) \/ MarkChunkFailed(u, w)
      PROVE  RowsFinal
  <2>1. worker[u][w].at \in Storing \/ (worker[u][w].at = "undo" /\ MarkChunkFailed(u, w))
    BY <1>3 DEF UpdateChunkComplete, MarkChunkFailed, Storing, Busy, WorkerStages
  <2>2. \A c \in Copies : c # Copy(u, w) => chunk'[c] = chunk[c]
    BY <1>3 DEF UpdateChunkComplete, MarkChunkFailed, TypeOK
  <2>3. CASE worker[u][w].at \in Storing
    <3>1. chunk[Copy(u, w)].status # "COMPLETED"
      BY <2>3 DEF Owned, InHand, Storing
    <3> QED
      BY <2>2, <3>1 DEF RowsFinal
  <2>4. CASE worker[u][w].at = "undo" /\ MarkChunkFailed(u, w)
    <3>1. Copy(u, w) \in Copies /\ Unanswered(Copy(u, w))
      BY <2>4, CopyType DEF Unanswered, Copy, TypeOK
    <3>2. \/ chunk'[Copy(u, w)] = chunk[Copy(u, w)]
          \/ chunk'[Copy(u, w)] = [chunk[Copy(u, w)] EXCEPT !.status = "FAILED"]
      BY <2>4, <3>1 DEF MarkChunkFailed, TypeOK
    <3> QED
      BY <2>2, <3>1, <3>2 DEF RowsFinal
  <2> QED
    BY <2>1, <2>3, <2>4
<1>4. CASE DeleteFile
  BY <1>4 DEF DeleteFile, RowsFinal, Row
<1> QED
  BY <1>1, <1>2, <1>3, <1>4, RowWriters

\* No retry, late failure or restart touches the row of a stored copy again.
THEOREM StoredCopiesAreFinal == Spec => StoredIsFinal
<1>1. TypeOK /\ Owned /\ [Next]_vars => [RowsFinal]_vars
  BY FinalStep
<1>2. StoredIsFinal <=> [][RowsFinal]_vars
  BY DEF StoredIsFinal, RowsFinal
<1> QED
  BY <1>1, <1>2, TypeCorrect, OwnedAlways, PTL DEF Spec

-----------------------------------------------------------------------------
(***************************************************************************)
(* A partial replication is never reported as done.                        *)
(***************************************************************************)
Settled(u) == \A k \in 0 .. Total(u) - 1 : chunk[<<u, k>>].status \in {"COMPLETED", "DELETED"}

\* Once runUpload has counted, nothing is open: the part of the invariant that
\* DoneMeansStored lacks.
Counted ==
  \A u \in Uploads :
    /\ pc[u] \in {"publish", "finish"} \/ job[u].status = "COMPLETED" => Settled(u)
    /\ job[u].status = "COMPLETED" => pc[u] \in {"leave", "ended", "lost"}

\* No step opens a settled upload again.
LEMMA SettledStays ==
  ASSUME TypeOK, Owned, [Next]_vars, NEW u \in Uploads, pc[u] \notin {"rows", "running"},
         Settled(u)
  PROVE  Settled(u)'
<1> SUFFICES ASSUME NEW k \in 0 .. Total(u) - 1
             PROVE  chunk'[<<u, k>>].status \in {"COMPLETED", "DELETED"}
  BY RequestFixed DEF Settled
<1> DEFINE c == <<u, k>>
<1>0. c \in Copies /\ chunk[c].status \in {"COMPLETED", "DELETED"}
  <2>1. Total(u) \in Nat /\ k \in Nat /\ k < Total(u)
    BY TotalType DEF TypeOK
  <2>2. k \in Items
    BY <2>1, TotalType DEF TypeOK
  <2> QED
    BY <2>2 DEF Settled, Copies
<1>1. CASE chunk[c].status = "COMPLETED"
  <2>1. ~Unanswered(c)
    BY DEF Owned, Drained, Unanswered
  <2> QED
    BY <1>0, <1>1, <2>1, FinalStep DEF RowsFinal
<1>2. CASE chunk[c].status = "DELETED"
  <2>1. ~Exists(c)
    BY <1>2 DEF Exists
  <2>2. CASE chunk' = chunk
    BY <1>2, <2>2
  <2>3. ASSUME NEW v \in Uploads, CreateChunks(v) PROVE chunk'[c].status = "DELETED"
    BY <1>0, <1>2, <2>3 DEF CreateChunks
  <2>4. ASSUME NEW v \in Uploads, NEW w \in Workers,
               UpdateChunkComplete(v, w) \/ MarkChunkFailed(v, w)
        PROVE  chunk'[c].status = "DELETED"
    BY <1>0, <1>2, <2>1, <2>4 DEF UpdateChunkComplete, MarkChunkFailed, TypeOK
  <2>5. CASE DeleteFile
    BY <1>0, <1>2, <2>5 DEF DeleteFile, Row
  <2> QED
    BY <2>2, <2>3, <2>4, <2>5, RowWriters
<1> QED
  BY <1>0, <1>1, <1>2

\* How an upload comes to its verdict, and a job to COMPLETED.
VerdictMoves(u) ==
  /\ job'[u].status = "COMPLETED" =>
       \/ job[u].status = "COMPLETED"
       \/ pc[u] = "finish" /\ pc'[u] = "leave"
  /\ pc'[u] \in {"publish", "finish"} =>
       \/ pc[u] \in {"publish", "finish"}
       \/ pc[u] = "running" /\ AllStored(u) /\ UNCHANGED <<request, chunk>>
  /\ pc[u] \in {"leave", "ended", "lost"} => pc'[u] \in {"leave", "ended", "lost"}

\* No step but a positive verdict, and what follows it, leads to COMPLETED.
LEMMA VerdictStep ==
  ASSUME TypeOK, [Next]_vars, NEW u \in Uploads
  PROVE  VerdictMoves(u)
<1>0. pc \in [Uploads -> Stages] /\ job \in [Uploads -> JobRow]
  BY DEF TypeOK
<1> USE DEF VerdictMoves
<1>1. ASSUME NEW v \in Uploads, Stage(v) PROVE VerdictMoves(u)
  BY <1>1, <1>0
     DEF Stage, Goto, SetStatus, ResetIncomplete, JobRow, Final, tables, pool, engine,
         remote
<1>2. ASSUME NEW v \in Uploads, NoChannels(v) PROVE VerdictMoves(u)
  BY <1>2, <1>0
     DEF NoChannels, Reject, Goto, SetStatus, ResetIncomplete, JobRow, Final, tables, pool,
         engine, remote
<1>3. ASSUME NEW v \in Uploads, GetFileByPath(v) PROVE VerdictMoves(u)
  BY <1>3, <1>0
     DEF GetFileByPath, Goto, SetStatus, ResetIncomplete, JobRow, Final, tables, pool,
         engine, remote
<1>4. ASSUME NEW v \in Uploads, UpsertFile(v) PROVE VerdictMoves(u)
  BY <1>4, <1>0
     DEF UpsertFile, Reject, Goto, SetStatus, ResetIncomplete, JobRow, Final, tables, pool,
         engine, remote
<1>5. ASSUME NEW v \in Uploads, CreateJob(v) PROVE VerdictMoves(u)
  BY <1>5, <1>0
     DEF CreateJob, Reject, Goto, SetStatus, ResetIncomplete, JobRow, Final, tables, pool,
         engine, remote
<1>6. ASSUME NEW v \in Uploads, CreateChunks(v) PROVE VerdictMoves(u)
  BY <1>6, <1>0
     DEF CreateChunks, Reject, Goto, SetStatus, ResetIncomplete, JobRow, Final, tables,
         pool, engine, remote
<1>7. ASSUME NEW v \in Uploads, Register(v) PROVE VerdictMoves(u)
  BY <1>7, <1>0
     DEF Register, Goto, SetStatus, ResetIncomplete, JobRow, Final, tables, pool, engine,
         remote
<1>8. ASSUME NEW v \in Uploads, Open(v) PROVE VerdictMoves(u)
  BY <1>8, <1>0
     DEF Open, Goto, SetStatus, ResetIncomplete, JobRow, Final, tables, pool, engine, remote
<1>9. ASSUME NEW v \in Uploads, Verdict(v) PROVE VerdictMoves(u)
  BY <1>9, <1>0
     DEF Verdict, Goto, SetStatus, ResetIncomplete, JobRow, Final, tables, pool, engine,
         remote
<1>10. ASSUME NEW v \in Uploads, MarkFailed(v) PROVE VerdictMoves(u)
  BY <1>10, <1>0
     DEF MarkFailed, Goto, SetStatus, ResetIncomplete, JobRow, Final, tables, pool, engine,
         remote
<1>11. ASSUME NEW v \in Uploads, Publish(v) PROVE VerdictMoves(u)
  BY <1>11, <1>0
     DEF Publish, Goto, SetStatus, ResetIncomplete, JobRow, Final, tables, pool, engine,
         remote
<1>12. ASSUME NEW v \in Uploads, Finish(v) PROVE VerdictMoves(u)
  BY <1>12, <1>0
     DEF Finish, Goto, SetStatus, ResetIncomplete, JobRow, Final, tables, pool, engine,
         remote
<1>13. ASSUME NEW v \in Uploads, Leave(v) PROVE VerdictMoves(u)
  BY <1>13, <1>0
     DEF Leave, Goto, SetStatus, ResetIncomplete, JobRow, Final, tables, pool, engine,
         remote
<1>14. ASSUME NEW v \in Uploads, RemoveStaged(v) PROVE VerdictMoves(u)
  BY <1>14, <1>0
     DEF RemoveStaged, Goto, SetStatus, ResetIncomplete, JobRow, Final, tables, pool,
         engine, remote
<1>15. ASSUME NEW v \in Uploads, CancelJob(v) PROVE VerdictMoves(u)
  BY <1>15, <1>0
     DEF CancelJob, Goto, SetStatus, ResetIncomplete, JobRow, Final, tables, pool, engine,
         remote
<1>16. ASSUME NEW v \in Uploads, WritePaused(v) PROVE VerdictMoves(u)
  BY <1>16, <1>0
     DEF WritePaused, Goto, SetStatus, ResetIncomplete, JobRow, Final, tables, pool, engine,
         remote
<1>17. ASSUME NEW v \in Uploads, BeginDelete(v) PROVE VerdictMoves(u)
  BY <1>17, <1>0
     DEF BeginDelete, Goto, SetStatus, ResetIncomplete, JobRow, Final, tables, pool, engine,
         remote
<1>18. ASSUME NEW v \in Uploads, NEW w \in Workers, Receive(v, w) PROVE VerdictMoves(u)
  BY <1>18, <1>0 DEF Receive, Goto, SetStatus, ResetIncomplete, JobRow, Final, poolRest, engine
<1>19. ASSUME NEW v \in Uploads, NEW w \in Workers, Exit(v, w) PROVE VerdictMoves(u)
  BY <1>19, <1>0 DEF Exit, Goto, SetStatus, ResetIncomplete, JobRow, Final, poolRest, engine
<1>20. ASSUME NEW v \in Uploads, NEW w \in Workers, FindChunkByHash(v, w) PROVE VerdictMoves(u)
  BY <1>20, <1>0
     DEF FindChunkByHash, Goto, SetStatus, ResetIncomplete, JobRow, Final, poolRest, engine
<1>21. ASSUME NEW v \in Uploads, NEW w \in Workers, BeginUploadChunk(v, w) PROVE VerdictMoves(u)
  BY <1>21, <1>0
     DEF BeginUploadChunk, Goto, SetStatus, ResetIncomplete, JobRow, Final, poolRest, engine
<1>22. ASSUME NEW v \in Uploads, NEW w \in Workers, UploadChunk(v, w) PROVE VerdictMoves(u)
  BY <1>22, <1>0
     DEF UploadChunk, Goto, SetStatus, ResetIncomplete, JobRow, Final, poolRest, engine
<1>23. ASSUME NEW v \in Uploads, NEW w \in Workers, UpdateChunkComplete(v, w)
       PROVE  VerdictMoves(u)
  BY <1>23, <1>0
     DEF UpdateChunkComplete, Goto, SetStatus, ResetIncomplete, JobRow, Final, poolRest,
         engine
<1>24. ASSUME NEW v \in Uploads, NEW w \in Workers, IncrementJobCompletedChunks(v, w)
       PROVE  VerdictMoves(u)
  BY <1>24, <1>0
     DEF IncrementJobCompletedChunks, Goto, SetStatus, ResetIncomplete, JobRow, Final,
         poolRest, engine
<1>25. ASSUME NEW v \in Uploads, NEW w \in Workers, MarkChunkFailed(v, w) PROVE VerdictMoves(u)
  BY <1>25, <1>0
     DEF MarkChunkFailed, Goto, SetStatus, ResetIncomplete, JobRow, Final, poolRest, engine
<1>26. ASSUME DeleteFile PROVE VerdictMoves(u)
  BY <1>26, <1>0
     DEF DeleteFile, Goto, SetStatus, ResetIncomplete, JobRow, Final, tables, pool, engine,
         remote
<1>27. ASSUME NEW m \in Copies, DeleteMessage(m) PROVE VerdictMoves(u)
  BY <1>27, <1>0
     DEF DeleteMessage, Goto, SetStatus, ResetIncomplete, JobRow, Final, tables, pool,
         engine, remote
<1>28. ASSUME CrashRestart PROVE VerdictMoves(u)
  BY <1>28, <1>0
     DEF CrashRestart, Goto, SetStatus, ResetIncomplete, JobRow, Final, tables, pool,
         engine, remote
<1>29. CASE UNCHANGED vars
  BY <1>29 DEF vars, tables, pool, engine, remote
<1> QED
  BY <1>1, <1>2, <1>3, <1>4, <1>5, <1>6, <1>7, <1>8, <1>9, <1>10, <1>11, <1>12, <1>13,
     <1>14, <1>15, <1>16, <1>17, <1>18, <1>19, <1>20, <1>21, <1>22, <1>23, <1>24, <1>25,
     <1>26, <1>27, <1>28, <1>29
     DEF Next, Handler, RunUpload, Worker

\* Every step keeps what the verdict of runUpload has established.
LEMMA CountedStep ==
  ASSUME TypeOK, Owned, Counted, [Next]_vars
  PROVE  Counted'
<1> SUFFICES ASSUME NEW u \in Uploads
             PROVE  /\ pc'[u] \in {"publish", "finish"} \/ job'[u].status = "COMPLETED"
                         => Settled(u)'
                    /\ job'[u].status = "COMPLETED" => pc'[u] \in {"leave", "ended", "lost"}
  BY DEF Counted
<1>1. VerdictMoves(u)
  BY VerdictStep
<1>2. job'[u].status = "COMPLETED" => pc'[u] \in {"leave", "ended", "lost"}
  BY <1>1 DEF VerdictMoves, Counted
<1>3. ASSUME job'[u].status = "COMPLETED" PROVE Settled(u)'
  <2>1. pc[u] \notin {"rows", "running"} /\ Settled(u)
    BY <1>1, <1>3 DEF VerdictMoves, Counted
  <2> QED
    BY <2>1, SettledStays
<1>4. ASSUME pc'[u] \in {"publish", "finish"} PROVE Settled(u)'
  <2>1. CASE pc[u] \in {"publish", "finish"}
    BY <2>1, SettledStays DEF Counted
  <2>2. CASE pc[u] = "running" /\ AllStored(u) /\ UNCHANGED <<request, chunk>>
    <3>1. Total(u) \in Nat
      BY TotalType DEF TypeOK
    <3>2. Stored(u) \in SUBSET (0 .. Total(u) - 1)
      <4> SUFFICES ASSUME NEW k \in Items, chunk[<<u, k>>].status = "COMPLETED"
                   PROVE  k \in 0 .. Total(u) - 1
        BY DEF Stored
      <4>1. <<u, k>> \in Copies /\ k \in Nat
        BY DEF Copies, Items
      <4>2. ~(k >= Total(u))
        BY <4>1 DEF Owned, Planned
      <4> QED
        BY <3>1, <4>1, <4>2
    <3>3. Stored(u) = 0 .. Total(u) - 1
      BY <2>2, <3>1, <3>2, CountCovers DEF AllStored
    <3>4. Settled(u)
      BY <3>3 DEF Stored, Settled
    <3> QED
      BY <2>2, <3>4, RequestFixed DEF Settled
  <2> QED
    BY <1>1, <1>4, <2>1, <2>2 DEF VerdictMoves
<1> QED
  BY <1>2, <1>3, <1>4

\* "A partial replication is never reported as done" (uploader.go:718).
THEOREM DoneIsStored == Spec => []DoneMeansStored
<1>1. Init => Counted
  BY DEF Init, Counted
<1>2. TypeOK /\ Owned /\ Counted /\ [Next]_vars => Counted'
  BY CountedStep
<1>3. Counted => DoneMeansStored
  BY DEF Counted, Settled, DoneMeansStored
<1> QED
  BY <1>1, <1>2, <1>3, TypeCorrect, OwnedAlways, PTL DEF Spec

-----------------------------------------------------------------------------
(***************************************************************************)
(* Stored copies carry the bytes of their part.                            *)
(***************************************************************************)

\* A goroutine that holds a message holds one that was posted with the bytes of
\* its item: what StoredBytesMatch lacks to be inductive.
PostedSame ==
  \A u \in Uploads, w \in Workers :
    worker[u][w].at \in {"reuse", "record"} =>
      /\ worker[u][w].msg \in Copies
      /\ HashOf(worker[u][w].msg) = HashOf(Copy(u, w))

\* Where the message of a goroutine comes from.
MessageMoves(v, x) ==
  worker'[v][x].at \in {"reuse", "record"} =>
    /\ worker'[v][x].item = worker[v][x].item
    /\ \/ worker'[v][x] = worker[v][x]
       \/ \E d \in Duplicates(Copy(v, x)) : worker'[v][x].msg = chunk[d].msg
       \/ worker'[v][x].msg = Copy(v, x)

\* A goroutine only ever gets the message of a duplicate, or of its own post.
LEMMA MessageStep ==
  ASSUME TypeOK, [Next]_vars, NEW y \in Uploads, NEW x \in Workers
  PROVE  MessageMoves(y, x)
<1>0. worker \in [Uploads -> [Workers -> PoolState]]
  BY DEF TypeOK
<1> USE DEF MessageMoves
<1>1. ASSUME NEW v \in Uploads, Stage(v) PROVE MessageMoves(y, x)
  BY <1>1, <1>0 DEF Stage, Move, At, tables, pool, engine, remote
<1>2. ASSUME NEW v \in Uploads, NoChannels(v) PROVE MessageMoves(y, x)
  BY <1>2, <1>0 DEF NoChannels, Reject, Move, At, tables, pool, engine, remote
<1>3. ASSUME NEW v \in Uploads, GetFileByPath(v) PROVE MessageMoves(y, x)
  BY <1>3, <1>0 DEF GetFileByPath, Move, At, tables, pool, engine, remote
<1>4. ASSUME NEW v \in Uploads, UpsertFile(v) PROVE MessageMoves(y, x)
  BY <1>4, <1>0 DEF UpsertFile, Reject, Move, At, tables, pool, engine, remote
<1>5. ASSUME NEW v \in Uploads, CreateJob(v) PROVE MessageMoves(y, x)
  BY <1>5, <1>0 DEF CreateJob, Reject, Move, At, tables, pool, engine, remote
<1>6. ASSUME NEW v \in Uploads, CreateChunks(v) PROVE MessageMoves(y, x)
  BY <1>6, <1>0 DEF CreateChunks, Reject, Move, At, tables, pool, engine, remote
<1>7. ASSUME NEW v \in Uploads, Register(v) PROVE MessageMoves(y, x)
  BY <1>7, <1>0 DEF Register, Move, At, tables, pool, engine, remote
<1>8. ASSUME NEW v \in Uploads, Open(v) PROVE MessageMoves(y, x)
  BY <1>8, <1>0 DEF Open, Move, At, tables, pool, engine, remote
<1>9. ASSUME NEW v \in Uploads, Verdict(v) PROVE MessageMoves(y, x)
  BY <1>9, <1>0 DEF Verdict, Move, At, tables, pool, engine, remote
<1>10. ASSUME NEW v \in Uploads, MarkFailed(v) PROVE MessageMoves(y, x)
  BY <1>10, <1>0 DEF MarkFailed, Move, At, tables, pool, engine, remote
<1>11. ASSUME NEW v \in Uploads, Publish(v) PROVE MessageMoves(y, x)
  BY <1>11, <1>0 DEF Publish, Move, At, tables, pool, engine, remote
<1>12. ASSUME NEW v \in Uploads, Finish(v) PROVE MessageMoves(y, x)
  BY <1>12, <1>0 DEF Finish, Move, At, tables, pool, engine, remote
<1>13. ASSUME NEW v \in Uploads, Leave(v) PROVE MessageMoves(y, x)
  BY <1>13, <1>0 DEF Leave, Move, At, tables, pool, engine, remote
<1>14. ASSUME NEW v \in Uploads, RemoveStaged(v) PROVE MessageMoves(y, x)
  BY <1>14, <1>0 DEF RemoveStaged, Move, At, tables, pool, engine, remote
<1>15. ASSUME NEW v \in Uploads, CancelJob(v) PROVE MessageMoves(y, x)
  BY <1>15, <1>0 DEF CancelJob, Move, At, tables, pool, engine, remote
<1>16. ASSUME NEW v \in Uploads, WritePaused(v) PROVE MessageMoves(y, x)
  BY <1>16, <1>0 DEF WritePaused, Move, At, tables, pool, engine, remote
<1>17. ASSUME NEW v \in Uploads, BeginDelete(v) PROVE MessageMoves(y, x)
  BY <1>17, <1>0 DEF BeginDelete, Move, At, tables, pool, engine, remote
<1>18. ASSUME NEW v \in Uploads, NEW w \in Workers, Receive(v, w) PROVE MessageMoves(y, x)
  BY <1>18, <1>0 DEF Receive, Move, At, poolRest, engine
<1>19. ASSUME NEW v \in Uploads, NEW w \in Workers, Exit(v, w) PROVE MessageMoves(y, x)
  BY <1>19, <1>0 DEF Exit, Move, At, poolRest, engine
<1>20. ASSUME NEW v \in Uploads, NEW w \in Workers, FindChunkByHash(v, w)
       PROVE  MessageMoves(y, x)
  <2>1. CASE \E l \in {"post", "fail"} : Move(v, w, l)
    BY <2>1, <1>0 DEF Move
  <2>2. CASE \E d \in Duplicates(Copy(v, w)) :
               worker' = [worker EXCEPT ![v][w] = At("reuse", @.item, chunk[d].msg)]
    <3>1. PICK d \in Duplicates(Copy(v, w)) :
             worker' = [worker EXCEPT ![v][w] = At("reuse", worker[v][w].item, chunk[d].msg)]
      BY <2>2
    <3>2. CASE y = v /\ x = w
      BY <1>0, <3>1, <3>2 DEF At
    <3>3. CASE ~(y = v /\ x = w)
      BY <1>0, <3>1, <3>3
    <3> QED
      BY <3>2, <3>3
  <2> QED
    BY <1>20, <2>1, <2>2 DEF FindChunkByHash
<1>21. ASSUME NEW v \in Uploads, NEW w \in Workers, BeginUploadChunk(v, w)
       PROVE  MessageMoves(y, x)
  <2>1. PICK l \in {"quit", "posting"} : Move(v, w, l)
    BY <1>21 DEF BeginUploadChunk
  <2> QED
    BY <2>1, <1>0 DEF Move
<1>22. ASSUME NEW v \in Uploads, NEW w \in Workers, UploadChunk(v, w) PROVE MessageMoves(y, x)
  <2>1. CASE Move(v, w, "quit")
    BY <2>1, <1>0 DEF Move
  <2>2. CASE worker' = [worker EXCEPT ![v][w] = At("record", @.item, Copy(v, w))]
    <3>1. worker' = [worker EXCEPT ![v][w] = At("record", worker[v][w].item, Copy(v, w))]
      BY <2>2
    <3>2. CASE y = v /\ x = w
      BY <1>0, <3>1, <3>2 DEF At
    <3>3. CASE ~(y = v /\ x = w)
      BY <1>0, <3>1, <3>3
    <3> QED
      BY <3>2, <3>3
  <2> QED
    BY <1>22, <2>1, <2>2 DEF UploadChunk
<1>23. ASSUME NEW v \in Uploads, NEW w \in Workers, UpdateChunkComplete(v, w)
       PROVE  MessageMoves(y, x)
  <2>1. PICK l \in {"count", "fail", "undo"} : Move(v, w, l)
    BY <1>23 DEF UpdateChunkComplete
  <2> QED
    BY <2>1, <1>0 DEF Move
<1>24. ASSUME NEW v \in Uploads, NEW w \in Workers, IncrementJobCompletedChunks(v, w)
       PROVE  MessageMoves(y, x)
  BY <1>24, <1>0 DEF IncrementJobCompletedChunks, Move, At, poolRest, engine
<1>25. ASSUME NEW v \in Uploads, NEW w \in Workers, MarkChunkFailed(v, w)
       PROVE  MessageMoves(y, x)
  <2>1. PICK l \in {"exit", "select"} : Move(v, w, l)
    BY <1>25 DEF MarkChunkFailed
  <2> QED
    BY <2>1, <1>0 DEF Move
<1>26. ASSUME DeleteFile PROVE MessageMoves(y, x)
  BY <1>26, <1>0 DEF DeleteFile, Move, At, tables, pool, engine, remote
<1>27. ASSUME NEW m \in Copies, DeleteMessage(m) PROVE MessageMoves(y, x)
  BY <1>27, <1>0 DEF DeleteMessage, Move, At, tables, pool, engine, remote
<1>28. ASSUME CrashRestart PROVE MessageMoves(y, x)
  BY <1>28, <1>0 DEF CrashRestart, Move, At, tables, pool, engine, remote
<1>29. CASE UNCHANGED vars
  BY <1>29 DEF vars, tables, pool, engine, remote
<1> QED
  BY <1>1, <1>2, <1>3, <1>4, <1>5, <1>6, <1>7, <1>8, <1>9, <1>10, <1>11, <1>12, <1>13,
     <1>14, <1>15, <1>16, <1>17, <1>18, <1>19, <1>20, <1>21, <1>22, <1>23, <1>24, <1>25,
     <1>26, <1>27, <1>28, <1>29
     DEF Next, Handler, RunUpload, Worker

\* Every step keeps the bytes behind the messages goroutines and rows hold.
LEMMA PostedSameStep ==
  ASSUME TypeOK, StoredBytesMatch, PostedSame, [Next]_vars
  PROVE  PostedSame'
<1>0. \A u \in Uploads, w \in Workers : MessageMoves(u, w) /\ Copy(u, w) \in Copies
  BY MessageStep, CopyType DEF TypeOK
<1> SUFFICES ASSUME NEW u \in Uploads, NEW w \in Workers,
                    worker'[u][w].at \in {"reuse", "record"}
             PROVE  /\ worker'[u][w].msg \in Copies
                    /\ HashOf(worker'[u][w].msg) = HashOf(Copy(u, w))
  <2>1. \A u \in Uploads, w \in Workers :
          worker'[u][w].at \in {"reuse", "record"} => Copy(u, w)' = Copy(u, w)
    BY <1>0 DEF MessageMoves, Copy
  <2> QED
    BY <1>0, <2>1, RequestFixed DEF PostedSame
<1>1. MessageMoves(u, w) /\ Copy(u, w) \in Copies
  BY <1>0
<1>2. CASE worker'[u][w] = worker[u][w]
  BY <1>2 DEF PostedSame
<1>3. ASSUME NEW d \in Duplicates(Copy(u, w)), worker'[u][w].msg = chunk[d].msg
      PROVE  /\ worker'[u][w].msg \in Copies
             /\ HashOf(worker'[u][w].msg) = HashOf(Copy(u, w))
  BY <1>3 DEF Duplicates, StoredBytesMatch
<1>4. CASE worker'[u][w].msg = Copy(u, w)
  BY <1>1, <1>4
<1> QED
  BY <1>1, <1>2, <1>3, <1>4 DEF MessageMoves

\* Every step keeps the bytes of stored copies.
LEMMA BytesStep ==
  ASSUME TypeOK, StoredBytesMatch, PostedSame, [Next]_vars
  PROVE  StoredBytesMatch'
<1> DEFINE Good(c, row) == row.status = "COMPLETED" =>
             row.sha = HashOf(c) /\ row.msg \in Copies /\ HashOf(row.msg) = HashOf(c)
<1>1. SUFFICES ASSUME NEW c \in Copies PROVE Good(c, chunk'[c])
  BY RequestFixed DEF StoredBytesMatch
<1>2. Good(c, chunk[c])
  BY DEF StoredBytesMatch
<1>3. CASE chunk' = chunk
  BY <1>2, <1>3
<1>4. ASSUME NEW u \in Uploads, CreateChunks(u) PROVE Good(c, chunk'[c])
  BY <1>2, <1>4 DEF CreateChunks, Row
<1>5. ASSUME NEW u \in Uploads, NEW w \in Workers, UpdateChunkComplete(u, w)
      PROVE  Good(c, chunk'[c])
  <2>1. worker[u][w].msg \in Copies /\ HashOf(worker[u][w].msg) = HashOf(Copy(u, w))
    BY <1>5 DEF UpdateChunkComplete, PostedSame
  <2> QED
    BY <1>2, <1>5, <2>1 DEF UpdateChunkComplete, Row, TypeOK
<1>6. ASSUME NEW u \in Uploads, NEW w \in Workers, MarkChunkFailed(u, w)
      PROVE  Good(c, chunk'[c])
  <2>1. \/ chunk'[c] = chunk[c]
        \/ chunk'[c] = [chunk[c] EXCEPT !.status = "FAILED"]
    BY <1>6 DEF MarkChunkFailed, TypeOK
  <2>2. chunk[c] \in CopyRow
    BY DEF TypeOK
  <2> QED
    BY <1>2, <2>1, <2>2 DEF CopyRow
<1>7. CASE DeleteFile
  BY <1>2, <1>7 DEF DeleteFile, Row
<1> QED
  BY <1>3, <1>4, <1>5, <1>6, <1>7, RowWriters

\* Whatever row a message came from, it was posted with the bytes that the row
\* naming it stands for.
THEOREM BytesMatch == Spec => []StoredBytesMatch
<1>1. Init => StoredBytesMatch /\ PostedSame
  BY DEF Init, StoredBytesMatch, PostedSame, Row, At
<1>2. TypeOK /\ StoredBytesMatch /\ PostedSame /\ [Next]_vars => (StoredBytesMatch /\ PostedSame)'
  BY PostedSameStep, BytesStep
<1> QED
  BY <1>1, <1>2, TypeCorrect, PTL DEF Spec

-----------------------------------------------------------------------------
(***************************************************************************)
(* Who moves what.                                                         *)
(***************************************************************************)

\* The state of one upload that only its own handler, runUpload and goroutines
\* move, and a crash: what everybody else leaves alone.
Undisturbed(u) ==
  /\ pc'[u] = pc[u] /\ worker'[u] = worker[u] /\ taken'[u] = taken[u] /\ errs'[u] = errs[u]
  /\ job'[u].done = job[u].done
  /\ \/ job'[u].status = job[u].status
     \/ u \in pausing /\ job'[u].status = "PAUSED"
  /\ \A k \in Items : \/ chunk'[<<u, k>>] = chunk[<<u, k>>]
                      \/ Exists(<<u, k>>) /\ chunk'[<<u, k>>].status = "DELETED"

\* The steps of another upload.
LEMMA OthersStep ==
  ASSUME TypeOK, NEW u \in Uploads, NEW v \in Uploads \ {u},
         \/ Handler(v) \/ RunUpload(v) \/ RemoveStaged(v) \/ CancelJob(v) \/ WritePaused(v)
         \/ BeginDelete(v) \/ \E w \in Workers : Worker(v, w)
  PROVE  Undisturbed(u)
<1> USE DEF Undisturbed
<1>0. /\ pc \in [Uploads -> Stages] /\ job \in [Uploads -> JobRow]
      /\ worker \in [Uploads -> [Workers -> PoolState]]
      /\ taken \in [Uploads -> Nat] /\ errs \in [Uploads -> BOOLEAN]
      /\ chunk \in [Copies -> CopyRow] /\ \A k \in Items : <<u, k>> \in Copies
  BY DEF TypeOK, Copies
<1>1. CASE Handler(v)
  BY <1>0, <1>1
     DEF Handler, Stage, NoChannels, GetFileByPath, UpsertFile, CreateJob, CreateChunks,
         Register, Reject, Goto, tables, pool, engine
<1>2. CASE RunUpload(v)
  BY <1>0, <1>2
     DEF RunUpload, Open, Verdict, MarkFailed, Publish, Finish, Leave, Goto, SetStatus,
         tables, pool, engine
<1>3. CASE RemoveStaged(v) \/ CancelJob(v) \/ WritePaused(v) \/ BeginDelete(v)
  BY <1>0, <1>3
     DEF RemoveStaged, CancelJob, WritePaused, BeginDelete, SetStatus, tables, pool, engine
<1>4. ASSUME NEW w \in Workers, Worker(v, w)
      PROVE  Undisturbed(u)
  <2>1. pc' = pc /\ UNCHANGED <<poolRest>>
    BY <1>4 DEF Worker, Receive, Exit, FindChunkByHash, BeginUploadChunk, UploadChunk,
         UpdateChunkComplete, IncrementJobCompletedChunks, MarkChunkFailed, poolRest
  <2>2. worker'[u] = worker[u]
    BY <1>0, <1>4 DEF Worker, Receive, Exit, FindChunkByHash, BeginUploadChunk, UploadChunk,
         UpdateChunkComplete, IncrementJobCompletedChunks, MarkChunkFailed, Move
  <2>3. taken'[u] = taken[u] /\ errs'[u] = errs[u] /\ job'[u] = job[u]
    BY <1>0, <1>4 DEF Worker, Receive, Exit, FindChunkByHash, BeginUploadChunk, UploadChunk,
         UpdateChunkComplete, IncrementJobCompletedChunks, MarkChunkFailed
  <2>4. \A k \in Items : chunk'[<<u, k>>] = chunk[<<u, k>>]
    BY <1>0, <1>4 DEF Worker, Receive, Exit, FindChunkByHash, BeginUploadChunk, UploadChunk,
         UpdateChunkComplete, IncrementJobCompletedChunks, MarkChunkFailed, Copy
  <2> QED
    BY <2>1, <2>2, <2>3, <2>4
<1> QED
  BY <1>1, <1>2, <1>3, <1>4

\* Every step that is not of upload u, nor a crash, leaves it undisturbed.
LEMMA OwnSteps ==
  ASSUME TypeOK, [Next]_vars, NEW u \in Uploads, ~Handler(u), ~RunUpload(u),
         \A w \in Workers : ~Worker(u, w), ~CrashRestart
  PROVE  Undisturbed(u)
<1> USE DEF Undisturbed
<1>0. job \in [Uploads -> JobRow]
  BY DEF TypeOK
<1>1. CASE RemoveStaged(u) \/ CancelJob(u) \/ WritePaused(u) \/ BeginDelete(u)
  BY <1>0, <1>1
     DEF RemoveStaged, CancelJob, WritePaused, BeginDelete, SetStatus, JobRow, tables, pool,
         engine
<1>2. CASE DeleteFile
  BY <1>2 DEF DeleteFile, CopiesOf, Row, Copies, pool, engine
<1>3. ASSUME NEW m \in Copies, DeleteMessage(m) PROVE Undisturbed(u)
  BY <1>3 DEF DeleteMessage, tables, pool, engine
<1>4. CASE UNCHANGED vars
  BY <1>4 DEF vars, tables, pool, engine
<1> QED
  BY <1>1, <1>2, <1>3, <1>4, OthersStep DEF Next

-----------------------------------------------------------------------------
(***************************************************************************)
(* The local file stays until it is opened.                                *)
(***************************************************************************)

\* Until runUpload opens it the local file is there; then only a cancel can have
\* taken the job out of activeJobs, and the file with it.
Kept(u) ==
  /\ pc[u] \in BeforePool \ {"new"} => u \in source
  /\ pc[u] = "open" => (u \in source /\ u \in active) \/ u \in cancelled

\* What one step does to the local file of an upload.
LEMMA KeptStep ==
  ASSUME TypeOK, [Next]_vars, NEW u \in Uploads, Kept(u)
  PROVE  Kept(u)'
<1> USE DEF Kept
<1>0. pc \in [Uploads -> Stages]
  BY DEF TypeOK
<1>1. ASSUME NEW v \in Uploads, Handler(v) PROVE Kept(u)'
  <2>1. CASE Stage(v)
    BY <1>0, <2>1 DEF Stage, Goto, BeforePool, engine
  <2>2. CASE NoChannels(v) \/ UpsertFile(v) \/ CreateJob(v) \/ CreateChunks(v)
    BY <1>0, <2>2 DEF NoChannels, UpsertFile, CreateJob, CreateChunks, Reject, Goto, BeforePool,
         engine
  <2>3. CASE GetFileByPath(v)
    BY <1>0, <2>3 DEF GetFileByPath, Goto, BeforePool, engine
  <2>4. CASE Register(v)
    BY <1>0, <2>4 DEF Register, Goto, BeforePool
  <2> QED
    BY <1>1, <2>1, <2>2, <2>3, <2>4 DEF Handler
<1>2. ASSUME NEW v \in Uploads, RunUpload(v) PROVE Kept(u)'
  <2>1. CASE Leave(v)
    BY <1>0, <2>1 DEF Leave, Goto, BeforePool
  <2>2. CASE ~Leave(v)
    BY <1>0, <1>2, <2>2 DEF RunUpload, Open, Verdict, MarkFailed, Publish, Finish, Goto,
         BeforePool, engine
  <2> QED
    BY <2>1, <2>2
<1>3. ASSUME NEW v \in Uploads, RemoveStaged(v) PROVE Kept(u)'
  BY <1>0, <1>3 DEF RemoveStaged, PoolStages, BeforePool, engine
<1>4. ASSUME NEW v \in Uploads, CancelJob(v) PROVE Kept(u)'
  BY <1>4 DEF CancelJob
<1>5. CASE CrashRestart
  BY <1>0, <1>5 DEF CrashRestart, BeforePool, Final
<1>6. ASSUME UNCHANGED <<pc, source, active, cancelled>> PROVE Kept(u)'
  BY <1>6
<1>7. ASSUME NEW v \in Uploads, WritePaused(v) \/ BeginDelete(v)
      PROVE  UNCHANGED <<pc, source, active, cancelled>>
  BY <1>7 DEF WritePaused, BeginDelete, engine
<1>8. ASSUME NEW v \in Uploads, NEW w \in Workers, Worker(v, w)
      PROVE  UNCHANGED <<pc, source, active, cancelled>>
  BY <1>8 DEF Worker, Receive, Exit, FindChunkByHash, BeginUploadChunk, UploadChunk,
         UpdateChunkComplete, IncrementJobCompletedChunks, MarkChunkFailed, poolRest, engine
<1>9. CASE DeleteFile
  BY <1>9, <1>6 DEF DeleteFile, engine
<1>10. ASSUME NEW m \in Copies, DeleteMessage(m) PROVE UNCHANGED <<pc, source, active, cancelled>>
  BY <1>10 DEF DeleteMessage, engine
<1>11. CASE UNCHANGED vars
  BY <1>6, <1>11 DEF vars, engine
<1> QED
  BY <1>1, <1>2, <1>3, <1>4, <1>5, <1>6, <1>7, <1>8, <1>9, <1>10, <1>11 DEF Next

\* Only a cancel can take the local file away before runUpload opens it.
THEOREM SourceIsKept == Spec => []SourceUntilOpened
<1> DEFINE I == \A u \in Uploads : Kept(u)
<1>1. Init => I
  BY DEF Init, Kept, BeforePool
<1>2. TypeOK /\ I /\ [Next]_vars => I'
  BY KeptStep
<1>3. I => SourceUntilOpened
  BY DEF Kept, SourceUntilOpened
<1> QED
  BY <1>1, <1>2, <1>3, TypeCorrect, PTL DEF Spec

-----------------------------------------------------------------------------
(***************************************************************************)
(* Jobs have rows, and goroutines work on rows that are still open.        *)
(***************************************************************************)

\* The row of a job is written by CreateJob, before its copies are planned, and
\* CancelJob looks for it.
Known(u) ==
  /\ pc[u] \in {"new", "lookup", "upsert", "job"} => job[u].status = "NONE"
  /\ pc[u] \in {"rows", "register"} \cup PoolStages \/ u \in pausing => job[u].status # "NONE"

\* CancelJob and WritePaused hold Engine.mu for one job.
LEMMA PausingStep ==
  ASSUME [Next]_vars, NEW u \in Uploads, u \in pausing'
  PROVE  \/ u \in pausing /\ ~WritePaused(u)
         \/ CancelJob(u)
<1>1. ASSUME NEW v \in Uploads, Handler(v) \/ RunUpload(v) PROVE pausing' = pausing
  BY <1>1 DEF Handler, RunUpload, Stage, NoChannels, GetFileByPath, UpsertFile, CreateJob,
       CreateChunks, Register,
       Open, Verdict, MarkFailed, Publish, Finish, Leave, engine
<1>2. ASSUME NEW v \in Uploads, RemoveStaged(v) \/ BeginDelete(v) PROVE pausing' = pausing
  BY <1>2 DEF RemoveStaged, BeginDelete, engine
<1>3. ASSUME NEW v \in Uploads, NEW w \in Workers, Worker(v, w) PROVE pausing' = pausing
  BY <1>3 DEF Worker, Receive, Exit, FindChunkByHash, BeginUploadChunk, UploadChunk,
         UpdateChunkComplete, IncrementJobCompletedChunks, MarkChunkFailed, poolRest, engine
<1>4. ASSUME NEW m \in Copies, DeleteMessage(m) PROVE pausing' = pausing
  BY <1>4 DEF DeleteMessage, engine
<1>5. DeleteFile \/ UNCHANGED vars => pausing' = pausing
  BY DEF DeleteFile, vars, engine
<1>6. ~CrashRestart /\ \A v \in Uploads : ~WritePaused(v)
  BY DEF CrashRestart, WritePaused
<1>7. ASSUME NEW v \in Uploads, CancelJob(v) PROVE v = u
  BY <1>7 DEF CancelJob
<1> QED
  BY <1>1, <1>2, <1>3, <1>4, <1>5, <1>6, <1>7 DEF Next

\* A job has its row from CreateJob on.
LEMMA KnownStep ==
  ASSUME TypeOK, [Next]_vars, NEW u \in Uploads, Known(u)
  PROVE  Known(u)'
<1>0. pc \in [Uploads -> Stages] /\ job \in [Uploads -> JobRow]
  BY DEF TypeOK
<1>1. u \in pausing' => job[u].status # "NONE"
  BY PausingStep DEF Known, CancelJob
<1>2. SUFFICES /\ pc'[u] \in {"new", "lookup", "upsert", "job"} => job'[u].status = "NONE"
               /\ pc'[u] \in {"rows", "register"} \cup PoolStages => job'[u].status # "NONE"
               /\ job[u].status # "NONE" => job'[u].status # "NONE"
  BY <1>1 DEF Known
<1> USE DEF Known
<1>3. CASE Handler(u)
  BY <1>0, <1>3 DEF Handler, Stage, NoChannels, GetFileByPath, UpsertFile, CreateJob,
       CreateChunks,
       Register, Reject, Goto, PoolStages, JobRow, tables
<1>4. CASE RunUpload(u)
  BY <1>0, <1>4 DEF RunUpload, Open, Verdict, MarkFailed, Publish, Finish, Leave, Goto, SetStatus,
       PoolStages, JobRow, tables
<1>5. ASSUME NEW w \in Workers, Worker(u, w)
      PROVE  pc' = pc /\ job'[u].status = job[u].status
  BY <1>0, <1>5 DEF Worker, Receive, Exit, FindChunkByHash, BeginUploadChunk, UploadChunk,
         UpdateChunkComplete, IncrementJobCompletedChunks, MarkChunkFailed, poolRest, JobRow
<1>6. CASE CrashRestart
  BY <1>0, <1>6 DEF CrashRestart, ResetIncomplete, JobRow, Final, PoolStages
<1>7. CASE Undisturbed(u)
  BY <1>7 DEF Undisturbed
<1> QED
  BY <1>3, <1>4, <1>5, <1>6, <1>7, OwnSteps

-----------------------------------------------------------------------------
(***************************************************************************)
(* Items nobody has stored yet are open.                                   *)
(***************************************************************************)

\* Status of the row of item k.
StatusOf(u, k) == chunk[<<u, k>>].status

\* Items nobody has taken yet are pending, unless their file was deleted; so is the
\* item of a goroutine until it is stored.
Pending(u) ==
  /\ \A k \in Items :
       pc[u] \in {"register", "open", "running"} /\ taken[u] <= k /\ k < Total(u) =>
         StatusOf(u, k) \in {"PENDING", "DELETED"}
  /\ \A w \in Workers :
       /\ worker[u][w].at \in Storing =>
            StatusOf(u, worker[u][w].item) \in {"PENDING", "DELETED"}
       /\ worker[u][w].at \in {"count", "undo"} =>
            StatusOf(u, worker[u][w].item) \in {"COMPLETED", "DELETED"}

\* What a goroutine of u does to goroutines, rows and the channel of u.
LEMMA GoroutineStep ==
  ASSUME TypeOK, NEW u \in Uploads, NEW w \in Workers, Worker(u, w)
  PROVE  /\ pc' = pc /\ request' = request
         /\ \A x \in Workers \ {w} : worker'[u][x] = worker[u][x]
         /\ \A k \in Items \ {worker[u][w].item} : chunk'[<<u, k>>] = chunk[<<u, k>>]
         /\ taken[u] <= taken'[u]
<1>0. /\ chunk \in [Copies -> CopyRow] /\ taken \in [Uploads -> Nat]
      /\ worker \in [Uploads -> [Workers -> PoolState]]
      /\ \A k \in Items : <<u, k>> \in Copies
  BY DEF TypeOK, Copies
<1>1. pc' = pc /\ request' = request
  BY DEF Worker, Receive, Exit, FindChunkByHash, BeginUploadChunk, UploadChunk,
         UpdateChunkComplete, IncrementJobCompletedChunks, MarkChunkFailed, poolRest
<1>2. \A x \in Workers \ {w} : worker'[u][x] = worker[u][x]
  BY <1>0 DEF Worker, Receive, Exit, FindChunkByHash, BeginUploadChunk, UploadChunk,
         UpdateChunkComplete, IncrementJobCompletedChunks, MarkChunkFailed, Move
<1>3. \A k \in Items \ {worker[u][w].item} : chunk'[<<u, k>>] = chunk[<<u, k>>]
  BY <1>0 DEF Worker, Receive, Exit, FindChunkByHash, BeginUploadChunk, UploadChunk,
         UpdateChunkComplete, IncrementJobCompletedChunks, MarkChunkFailed, Copy
<1>4. taken[u] <= taken'[u]
  BY <1>0 DEF Worker, Receive, Exit, FindChunkByHash, BeginUploadChunk, UploadChunk,
         UpdateChunkComplete, IncrementJobCompletedChunks, MarkChunkFailed
<1> QED
  BY <1>1, <1>2, <1>3, <1>4

\* A goroutine that moves on keeps its item.
LEMMA MovedHere ==
  ASSUME TypeOK, NEW u \in Uploads, NEW w \in Workers, NEW l \in WorkerStages, Move(u, w, l)
  PROVE  worker'[u][w].at = l /\ worker'[u][w].item = worker[u][w].item
<1>1. PICK r \in PoolState : /\ worker' = [worker EXCEPT ![u][w] = r]
                             /\ r.item = worker[u][w].item /\ r.at = l
  BY MovedState
<1>2. worker \in [Uploads -> [Workers -> PoolState]]
  BY DEF TypeOK
<1> QED
  BY <1>1, <1>2

\* What a goroutine does to itself and to the row of its item.
LEMMA HandStep ==
  ASSUME TypeOK, Owned, NEW u \in Uploads, NEW w \in Workers, Worker(u, w), Pending(u)
  PROVE  /\ worker'[u][w].at \in Storing =>
              chunk'[<<u, worker'[u][w].item>>].status \in {"PENDING", "DELETED"}
         /\ worker'[u][w].at \in {"count", "undo"} =>
              chunk'[<<u, worker'[u][w].item>>].status \in {"COMPLETED", "DELETED"}
<1>0. /\ chunk \in [Copies -> CopyRow] /\ taken \in [Uploads -> Nat]
      /\ worker \in [Uploads -> [Workers -> PoolState]]
      /\ Copy(u, w) \in Copies /\ Copy(u, w) = <<u, worker[u][w].item>>
      /\ Total(u) \in Nat /\ \A k \in Nat : k < Total(u) => k \in Items
  BY CopyType, TotalType DEF TypeOK, Copy
<1>1. worker[u][w].at \in Storing => StatusOf(u, worker[u][w].item) \in {"PENDING", "DELETED"}
  BY DEF Pending
<1> USE DEF StatusOf
<1>a. /\ {"post", "fail", "quit", "posting", "lookup", "reuse", "record"} = Storing
      /\ Storing \cup {"count", "undo", "select", "exit"} \subseteq WorkerStages
  BY DEF Storing, Busy, WorkerStages
<1>2. CASE Receive(u, w)
  <2>1. /\ taken[u] \in Items /\ taken[u] < Total(u) /\ pc[u] = "running"
    BY <1>0, <1>2 DEF Receive, HasItem, Owned, Drained
  <2>2. worker'[u][w] = At("lookup", taken[u], None) /\ chunk' = chunk
    BY <1>0, <1>2 DEF Receive
  <2>3. StatusOf(u, taken[u]) \in {"PENDING", "DELETED"}
    BY <1>0, <2>1 DEF Pending
  <2> QED
    BY <2>2, <2>3 DEF At
<1>3. CASE Exit(u, w)
  <2>1. worker'[u][w].at = "exit"
    BY <1>3, <1>a, MovedHere DEF Exit
  <2> QED
    BY <1>a, <2>1
<1>4. CASE FindChunkByHash(u, w) \/ BeginUploadChunk(u, w) \/ UploadChunk(u, w)
  <2>1. worker[u][w].at \in Storing /\ chunk' = chunk
    BY <1>a, <1>4 DEF FindChunkByHash, BeginUploadChunk, UploadChunk
  <2>2. \/ \E l \in Storing : Move(u, w, l)
        \/ \E m : \E l \in Storing : worker' = [worker EXCEPT ![u][w] = At(l, worker[u][w].item, m)]
    BY <1>a, <1>4 DEF FindChunkByHash, BeginUploadChunk, UploadChunk
  <2>3. worker'[u][w].at \in Storing /\ worker'[u][w].item = worker[u][w].item
    <3>1. ASSUME NEW l \in Storing, Move(u, w, l)
          PROVE  worker'[u][w].at \in Storing /\ worker'[u][w].item = worker[u][w].item
      BY <1>a, <3>1, MovedHere
    <3>2. ASSUME NEW l \in Storing, NEW m,
                 worker' = [worker EXCEPT ![u][w] = At(l, worker[u][w].item, m)]
          PROVE  worker'[u][w].at \in Storing /\ worker'[u][w].item = worker[u][w].item
      <4>1. worker'[u][w] = At(l, worker[u][w].item, m)
        BY <1>0, <3>2
      <4> QED
        BY <3>2, <4>1 DEF At
    <3> QED
      BY <2>2, <3>1, <3>2
  <2> QED
    BY <1>1, <1>a, <2>1, <2>3
<1>5. CASE UpdateChunkComplete(u, w)
  <2>1. worker[u][w].at \in Storing
    BY <1>5, <1>a DEF UpdateChunkComplete
  <2>2. chunk[Copy(u, w)].status \in {"PENDING", "DELETED"}
    BY <1>0, <1>1, <2>1
  <2>3. CASE Move(u, w, "fail") /\ chunk' = chunk
    BY <1>1, <1>a, <2>1, <2>3, MovedHere
  <2>4. CASE /\ Move(u, w, "count") \/ Move(u, w, "undo")
             /\ chunk'[Copy(u, w)].status \in {"COMPLETED", "DELETED"}
    <3>1. worker'[u][w].at \in {"count", "undo"} /\ worker'[u][w].item = worker[u][w].item
      BY <1>a, <2>4, MovedHere
    <3> QED
      BY <1>0, <1>a, <2>4, <3>1
  <2> QED
    BY <1>0, <1>5, <2>2, <2>3, <2>4 DEF UpdateChunkComplete, Row, Exists
<1>6. CASE IncrementJobCompletedChunks(u, w) \/ MarkChunkFailed(u, w)
  <2>1. Move(u, w, "select") \/ Move(u, w, "exit")
    BY <1>6 DEF IncrementJobCompletedChunks, MarkChunkFailed
  <2>2. worker'[u][w].at \in {"select", "exit"}
    BY <1>a, <2>1, MovedHere
  <2> QED
    BY <1>a, <2>2
<1> QED
  BY <1>2, <1>3, <1>4, <1>5, <1>6 DEF Worker

\* A step of anybody keeps the items of an upload pending until they are stored.
LEMMA PendingStep ==
  ASSUME TypeOK, Owned, [Next]_vars, NEW u \in Uploads, Pending(u)
  PROVE  Pending(u)'
<1>0. /\ pc \in [Uploads -> Stages] /\ chunk \in [Copies -> CopyRow]
      /\ worker \in [Uploads -> [Workers -> PoolState]] /\ taken \in [Uploads -> Nat]
      /\ \A k \in Items : <<u, k>> \in Copies
      /\ Total(u)' = Total(u) /\ Total(u) \in Nat
      /\ \A w \in Workers : worker[u][w].item \in Items
  BY RequestFixed, TotalType, CopyType DEF TypeOK, Copies
<1>a. "off" \notin Storing \cup {"count", "undo"} /\ "select" \notin Storing /\ "exit" \notin Storing
  BY DEF Storing, Busy
<1>1. CASE Handler(u)
  <2>1. worker' = worker /\ taken' = taken
    BY <1>1 DEF Handler, Stage, NoChannels, GetFileByPath, UpsertFile, CreateJob, CreateChunks,
         Register, pool
  <2>2. \A w \in Workers : worker'[u][w].at \notin Storing \cup {"count", "undo"}
    <3>1. pc[u] # "running"
      BY <1>1 DEF Handler, Stage, NoChannels, GetFileByPath, UpsertFile, CreateJob,
           CreateChunks, Register
    <3> QED
      BY <1>a, <2>1, <3>1 DEF Owned, Drained
  <2>3. CASE CreateChunks(u)
    <3>1. \A k \in Items : k < Total(u) /\ pc'[u] = "register" =>
            chunk'[<<u, k>>].status = "PENDING"
      BY <1>0, <2>3 DEF CreateChunks, Goto, Reject, Row
    <3>2. pc'[u] \in {"register", "rejected"}
      BY <1>0, <2>3 DEF CreateChunks, Goto, Reject
    <3> QED
      BY <1>0, <2>2, <3>1, <3>2 DEF Pending, StatusOf
  <2>4. CASE ~CreateChunks(u)
    <3>1. chunk' = chunk
      BY <1>1, <2>4 DEF Handler, Stage, NoChannels, GetFileByPath, UpsertFile, CreateJob,
           Register, tables
    <3>2. pc'[u] \in {"register", "open", "running"} => pc[u] = "register"
      BY <1>0, <1>1, <2>4 DEF Handler, Stage, NoChannels, GetFileByPath, UpsertFile, CreateJob,
           Register, Goto, Reject
    <3> QED
      BY <1>0, <2>1, <2>2, <3>1, <3>2 DEF Pending, StatusOf
  <2> QED
    BY <2>3, <2>4
<1>2. CASE RunUpload(u)
  <2>1. chunk' = chunk /\ taken' = taken
    BY <1>2 DEF RunUpload, Open, Verdict, MarkFailed, Publish, Finish, Leave, tables, pool
  <2>2. pc'[u] \in {"register", "open", "running"} => pc[u] = "open"
    BY <1>0, <1>2 DEF RunUpload, Open, Verdict, MarkFailed, Publish, Finish, Leave, Goto
  <2>3. \A w \in Workers : worker'[u][w] = worker[u][w] \/ worker'[u][w].at \in {"select", "exit"}
    BY <1>0, <1>2 DEF RunUpload, Open, Verdict, MarkFailed, Publish, Finish, Leave, At, pool
  <2> QED
    BY <1>0, <1>a, <2>1, <2>2, <2>3 DEF Pending, StatusOf
<1>3. ASSUME NEW w \in Workers, Worker(u, w) PROVE Pending(u)'
  <2>1. /\ pc' = pc
        /\ \A x \in Workers \ {w} : worker'[u][x] = worker[u][x]
        /\ \A k \in Items \ {worker[u][w].item} : chunk'[<<u, k>>] = chunk[<<u, k>>]
        /\ taken[u] <= taken'[u] /\ taken'[u] \in Nat
    <3>1. taken'[u] \in Nat
      BY <1>0, <1>3
         DEF Worker, Receive, Exit, FindChunkByHash, BeginUploadChunk, UploadChunk,
             UpdateChunkComplete, IncrementJobCompletedChunks, MarkChunkFailed
    <3> QED
      BY <1>3, <3>1, GoroutineStep
  <2>2. chunk'[<<u, worker[u][w].item>>] = chunk[<<u, worker[u][w].item>>] \/ worker[u][w].at \in Busy
    BY <1>0, <1>3 DEF Worker, Receive, Exit, FindChunkByHash, BeginUploadChunk, UploadChunk,
         UpdateChunkComplete, IncrementJobCompletedChunks, MarkChunkFailed, Busy, WorkerStages
  <2>3. worker[u][w].at \in Busy =>
          /\ worker[u][w].item < taken[u]
          /\ \A x \in Workers \ {w} : worker[u][x].at \in Busy =>
                  worker[u][x].item # worker[u][w].item
    BY DEF Owned, InHand
  <2>4. ASSUME NEW k \in Items, pc'[u] \in {"register", "open", "running"}, taken'[u] <= k, k < Total(u)
        PROVE  StatusOf(u, k)' \in {"PENDING", "DELETED"}
    <3>1. taken[u] <= k /\ k \in Nat
      BY <1>0, <2>1, <2>4, UploadAssumption DEF Items
    <3>2. chunk'[<<u, k>>] = chunk[<<u, k>>]
      <4>1. CASE k # worker[u][w].item
        BY <2>1, <4>1
      <4>2. CASE k = worker[u][w].item
        BY <1>0, <2>2, <2>3, <3>1, <4>2
      <4> QED
        BY <4>1, <4>2
    <3> QED
      BY <2>1, <2>4, <3>1, <3>2 DEF Pending, StatusOf
  <2>5. ASSUME NEW x \in Workers
        PROVE /\ worker'[u][x].at \in Storing =>
                   chunk'[<<u, worker'[u][x].item>>].status \in {"PENDING", "DELETED"}
              /\ worker'[u][x].at \in {"count", "undo"} =>
                   chunk'[<<u, worker'[u][x].item>>].status \in {"COMPLETED", "DELETED"}
    <3>1. CASE x = w
      BY <1>3, <3>1, HandStep
    <3>2. CASE x # w /\ worker[u][x].at \in Storing \cup {"count", "undo"}
      <4>1. worker[u][x].at \in Busy
        BY <3>2 DEF Storing, Busy, WorkerStages
      <4>2. chunk'[<<u, worker[u][x].item>>] = chunk[<<u, worker[u][x].item>>]
        BY <1>0, <2>1, <2>2, <2>3, <3>2, <4>1
      <4> QED
        BY <2>1, <3>2, <4>2 DEF Pending, StatusOf
    <3>3. CASE x # w /\ worker[u][x].at \notin Storing \cup {"count", "undo"}
      BY <2>1, <3>3
    <3> QED
      BY <3>1, <3>2, <3>3
  <2> QED
    BY <1>0, <2>4, <2>5 DEF Pending, StatusOf
<1>4. CASE CrashRestart
  <2>1. pc'[u] \notin {"register", "open", "running"} /\ \A w \in Workers : worker'[u][w].at = "off"
    BY <1>0, <1>4 DEF CrashRestart, At, Final
  <2> QED
    BY <1>a, <2>1 DEF Pending
<1>5. CASE Undisturbed(u)
  BY <1>0, <1>5 DEF Undisturbed, Pending, StatusOf
<1> QED
  BY <1>1, <1>2, <1>3, <1>4, <1>5, OwnSteps

\* What runUpload counted, what every job row is known to be, and what the rows of
\* the items are: the facts the promise and the progress rest on.
Consistent == Counted /\ \A u \in Uploads : Known(u) /\ Pending(u)

\* They hold in every reachable state.
LEMMA ConsistentAlways == Spec => []Consistent
<1>1. Init => Consistent
  <2> SUFFICES ASSUME Init PROVE Consistent
    OBVIOUS
  <2>1. "off" \notin Storing \cup {"count", "undo"}
    BY DEF Storing, Busy
  <2>2. Counted
    BY DEF Init, Counted
  <2>3. \A u \in Uploads : Known(u)
    BY DEF Init, Known, PoolStages
  <2>4. \A u \in Uploads : Pending(u)
    BY <2>1 DEF Init, Pending, At
  <2> QED
    BY <2>2, <2>3, <2>4 DEF Consistent
<1>2. TypeOK /\ Owned /\ Consistent /\ [Next]_vars => Consistent'
  BY CountedStep, KnownStep, PendingStep DEF Consistent
<1> QED
  BY <1>1, <1>2, TypeCorrect, OwnedAlways, PTL DEF Spec

-----------------------------------------------------------------------------
(***************************************************************************)
(* The tables move only along the promised steps.                          *)
(***************************************************************************)

\* The steps that write the table jobs.
LEMMA JobWriters ==
  ASSUME [Next]_vars, job' # job
  PROVE  \/ \E u \in Uploads : CreateJob(u) \/ MarkFailed(u) \/ Finish(u) \/ WritePaused(u)
         \/ \E u \in Uploads, w \in Workers : IncrementJobCompletedChunks(u, w)
         \/ CrashRestart
<1>1. ASSUME NEW u \in Uploads, Handler(u), ~CreateJob(u) PROVE job' = job
  BY <1>1 DEF Handler, Stage, NoChannels, GetFileByPath, UpsertFile, CreateChunks, Register,
       tables
<1>2. ASSUME NEW u \in Uploads, RunUpload(u), ~MarkFailed(u), ~Finish(u) PROVE job' = job
  BY <1>2 DEF RunUpload, Open, Verdict, Publish, Leave, tables
<1>3. ASSUME NEW u \in Uploads, NEW w \in Workers, Worker(u, w), ~IncrementJobCompletedChunks(u, w)
      PROVE  job' = job
  BY <1>3 DEF Worker, Receive, Exit, FindChunkByHash, BeginUploadChunk, UploadChunk,
         UpdateChunkComplete, MarkChunkFailed
<1>4. ASSUME NEW u \in Uploads, RemoveStaged(u) \/ CancelJob(u) \/ BeginDelete(u) PROVE job' = job
  BY <1>4 DEF RemoveStaged, CancelJob, BeginDelete, tables
<1>5. ASSUME NEW m \in Copies, DeleteMessage(m) PROVE job' = job
  BY <1>5 DEF DeleteMessage, tables
<1>6. DeleteFile \/ UNCHANGED vars => job' = job
  BY DEF DeleteFile, vars, tables
<1> QED
  BY <1>1, <1>2, <1>3, <1>4, <1>5, <1>6 DEF Next

\* What of the state the promise speaks of.
Statuses == [u \in Uploads |-> job[u].status]
Rows     == [c \in Copies |-> chunk[c].status]

\* The steps that write rows of the table chunks.
LEMMA RowsKeepPromise ==
  ASSUME TypeOK, Owned, Counted, \A u \in Uploads : Known(u) /\ Pending(u),
         [Next]_vars, chunk' # chunk
  PROVE  Promise!Next
<1>0. /\ chunk \in [Copies -> CopyRow] /\ job \in [Uploads -> JobRow]
      /\ \A u \in Uploads : Total(u) \in Nat /\ 0 < Total(u) /\ Total(u) - 1 \in Items
      /\ Copies = Uploads \X Items
  <2>1. ASSUME NEW u \in Uploads PROVE Total(u) \in Nat /\ 0 < Total(u) /\ Total(u) - 1 \in Items
    <3>1. Total(u) \in Nat /\ 0 < Total(u)
      BY TotalType DEF TypeOK
    <3>2. Total(u) - 1 \in Nat /\ Total(u) - 1 < Total(u)
      BY <3>1
    <3> QED
      BY <3>1, <3>2, TotalType DEF TypeOK
  <2> QED
    BY <2>1 DEF TypeOK, Copies
<1>1. ASSUME NEW u \in Uploads, CreateChunks(u) PROVE Promise!Next
  <2>1. /\ chunk' = [c \in Copies |-> IF c[1] = u /\ c[2] < Total(u)
                                      THEN Row("PENDING", None, None) ELSE chunk[c]]
        /\ pc[u] = "rows" /\ job' = job
    BY <1>1 DEF CreateChunks
  <2>2. \A k \in Items : Rows[<<u, k>>] = "NONE"
    BY <1>0, <2>1 DEF Rows, Owned, Planned, Unplanned
  <2>3. Statuses[u] # "NONE" /\ Statuses' = Statuses
    BY <2>1 DEF Statuses, Known
  <2>4. Rows' = [c \in Copies |-> IF c[1] = u /\ c[2] <= Total(u) - 1 THEN "PENDING" ELSE Rows[c]]
    <3>1. \A c \in Copies : c[2] \in Nat /\ c[1] \in Uploads
      BY <1>0 DEF Items
    <3>2. \A c \in Copies : (c[1] = u /\ c[2] < Total(u)) <=> (c[1] = u /\ c[2] <= Total(u) - 1)
      BY <1>0, <3>1
    <3> QED
      BY <2>1, <3>2 DEF Rows, Row
  <2> QED
    BY <1>0, <2>2, <2>3, <2>4 DEF Statuses, Rows, Promise!Next, Promise!Plan, Promise!Planned,
         Promise!Copies
<1>2. ASSUME NEW u \in Uploads, NEW w \in Workers, UpdateChunkComplete(u, w) \/ MarkChunkFailed(u, w)
      PROVE  Promise!Next
  <2> DEFINE c == Copy(u, w)
  <2>1. c \in Copies /\ c = <<u, worker[u][w].item>> /\ job' = job /\ Exists(c)
    BY <1>2, CopyType DEF TypeOK, UpdateChunkComplete, MarkChunkFailed, Copy
  <2>2. \E s \in {"COMPLETED", "FAILED"} :
          /\ Rows' = [Rows EXCEPT ![c] = s]
          /\ \/ Rows[c] = "PENDING"
             \/ Rows[c] = "COMPLETED" /\ s = "FAILED" /\ job[u].status # "COMPLETED"
    <3>1. CASE UpdateChunkComplete(u, w)
      <4>1. chunk' = [chunk EXCEPT ![c] = Row("COMPLETED", worker[u][w].msg, HashOf(c))]
        BY <3>1 DEF UpdateChunkComplete
      <4>2. worker[u][w].at \in Storing
        BY <3>1 DEF UpdateChunkComplete, Storing, Busy, WorkerStages
      <4>3. chunk[c].status = "PENDING"
        BY <2>1, <4>2 DEF Pending, StatusOf, Exists
      <4> QED
        BY <1>0, <2>1, <4>1, <4>3 DEF Rows, Row
    <3>2. CASE MarkChunkFailed(u, w)
      <4>1. chunk' = [chunk EXCEPT ![c].status = "FAILED"] /\ worker[u][w].at \in {"fail", "undo", "quit"}
        BY <3>2 DEF MarkChunkFailed
      <4>2. Rows' = [Rows EXCEPT ![c] = "FAILED"]
        BY <1>0, <2>1, <4>1 DEF Rows, CopyRow
      <4>3. CASE worker[u][w].at = "undo"
        <5>1. job[u].status # "COMPLETED"
          BY <4>3 DEF Owned, Drained, Counted
        <5>2. chunk[c].status = "COMPLETED"
          BY <2>1, <4>3 DEF Pending, StatusOf, Exists
        <5> QED
          BY <2>1, <4>2, <5>1, <5>2 DEF Rows
      <4>4. CASE worker[u][w].at \in {"fail", "quit"}
        <5>1. worker[u][w].at \in Storing
          BY <4>4 DEF Storing, Busy, WorkerStages
        <5>2. chunk[c].status = "PENDING"
          BY <2>1, <5>1 DEF Pending, StatusOf, Exists
        <5> QED
          BY <2>1, <4>2, <5>2 DEF Rows
      <4> QED
        BY <4>1, <4>3, <4>4
    <3> QED
      BY <1>2, <3>1, <3>2
  <2>3. Statuses' = Statuses /\ Statuses[u] = job[u].status /\ c[1] = u
    BY <2>1 DEF Statuses
  <2>4. PICK s \in {"COMPLETED", "FAILED"} :
          /\ Rows' = [Rows EXCEPT ![c] = s]
          /\ \/ Rows[c] = "PENDING"
             \/ Rows[c] = "COMPLETED" /\ s = "FAILED" /\ job[u].status # "COMPLETED"
    BY <2>2
  <2>5. CASE Rows[c] = "PENDING"
    <3>1. Promise!Settle(c)
      BY <2>3, <2>4, <2>5 DEF Statuses, Rows, Promise!Settle
    <3> QED
      BY <1>0, <2>1, <3>1 DEF Promise!Next, Promise!Copies, Promise!TakeBack, Promise!Settle
  <2>6. CASE Rows[c] = "COMPLETED" /\ s = "FAILED" /\ job[u].status # "COMPLETED"
    <3>1. Promise!TakeBack(c)
      BY <2>3, <2>4, <2>6 DEF Statuses, Rows, Promise!TakeBack
    <3> QED
      BY <1>0, <2>1, <3>1 DEF Promise!Next, Promise!Copies, Promise!TakeBack, Promise!Settle
  <2> QED
    BY <2>4, <2>5, <2>6
<1>3. CASE DeleteFile
  <2>1. PICK S \in SUBSET Copies :
          /\ \A c \in S : Exists(c)
          /\ chunk' = [c \in Copies |-> IF c \in S THEN Row("DELETED", None, None) ELSE chunk[c]]
    BY <1>3 DEF DeleteFile, CopiesOf
  <2>2. S \in SUBSET {c \in Copies : Rows[c] # "NONE"}
    BY <2>1 DEF Rows, Exists
  <2>3. Rows' = [c \in Copies |-> IF c \in S THEN "DELETED" ELSE Rows[c]]
    BY <2>1 DEF Rows, Row
  <2>4. Statuses' = Statuses
    BY <1>3 DEF Statuses, DeleteFile
  <2> QED
    BY <1>0, <2>2, <2>3, <2>4 DEF Statuses, Rows, Promise!Next, Promise!Drop, Promise!Copies
<1> QED
  BY <1>1, <1>2, <1>3, RowWriters

\* The steps that write the table jobs.
LEMMA JobsKeepPromise ==
  ASSUME TypeOK, Owned, Counted, \A u \in Uploads : Known(u) /\ Pending(u),
         [Next]_vars, chunk' = chunk
  PROVE  Promise!Next \/ Statuses' = Statuses
<1>0. /\ chunk \in [Copies -> CopyRow] /\ job \in [Uploads -> JobRow]
      /\ \A u \in Uploads : Total(u) \in Nat /\ 0 < Total(u) /\ 0 \in Items
      /\ Copies = Uploads \X Items
      /\ Rows' = Rows
  BY TotalType DEF TypeOK, Copies, Rows
<1>1. CASE job' = job
  BY <1>1 DEF Statuses
<1>2. ASSUME NEW u \in Uploads, CreateJob(u) PROVE Promise!Next \/ Statuses' = Statuses
  <2>1. Statuses[u] = "NONE"
    BY <1>2 DEF Statuses, Known, CreateJob
  <2>2. CASE job' = job
    BY <2>2 DEF Statuses
  <2>3. CASE job' = [job EXCEPT ![u] = [status |-> "ACTIVE", file |-> rec[u].id, done |-> 0]]
    <3>1. Statuses' = [Statuses EXCEPT ![u] = "ACTIVE"]
      BY <1>0, <2>3 DEF Statuses
    <3> QED
      BY <1>0, <2>1, <3>1 DEF Statuses, Rows, Promise!Next, Promise!Submit
  <2> QED
    BY <1>2, <2>2, <2>3 DEF CreateJob
<1>3. ASSUME NEW u \in Uploads, MarkFailed(u) \/ Finish(u) \/ WritePaused(u)
      PROVE  Promise!Next \/ Statuses' = Statuses
  <2>1. Statuses[u] # "NONE"
    BY <1>3 DEF Statuses, Known, MarkFailed, Finish, WritePaused, PoolStages
  <2>2. CASE job' = job
    BY <2>2 DEF Statuses
  <2>3. ASSUME NEW st \in {"COMPLETED", "FAILED", "PAUSED"}, job' = [job EXCEPT ![u].status = st]
        PROVE  Statuses' = [Statuses EXCEPT ![u] = st]
    BY <1>0, <2>3 DEF Statuses, JobRow
  <2>4. CASE \E st \in {"FAILED", "PAUSED"} : job' = [job EXCEPT ![u].status = st]
    BY <1>0, <2>1, <2>3, <2>4 DEF Statuses, Rows, Promise!Next, Promise!Stop
  <2>5. CASE Finish(u) /\ job' = [job EXCEPT ![u].status = "COMPLETED"]
    <3>1. pc[u] = "finish"
      BY <2>5 DEF Finish
    <3>2. Settled(u)
      BY <3>1 DEF Counted
    <3>3. \A k \in Items : Rows[<<u, k>>] \in {"NONE", "COMPLETED", "DELETED"}
      <4> SUFFICES ASSUME NEW k \in Items
                   PROVE  chunk[<<u, k>>].status \in {"NONE", "COMPLETED", "DELETED"}
        BY <1>0 DEF Rows
      <4>1. k \in Nat /\ <<u, k>> \in Copies
        BY <1>0 DEF Items
      <4>2. CASE k < Total(u)
        BY <1>0, <3>2, <4>1, <4>2 DEF Settled
      <4>3. CASE k >= Total(u)
        BY <4>1, <4>3 DEF Owned, Planned
      <4> QED
        BY <1>0, <4>1, <4>2, <4>3
    <3>4. Rows[<<u, 0>>] # "NONE"
      BY <1>0, <3>2 DEF Settled, Rows
    <3>5. Statuses' = [Statuses EXCEPT ![u] = "COMPLETED"]
      BY <2>3, <2>5
    <3>6. Promise!Done(u)
      BY <1>0, <3>3, <3>4, <3>5
         DEF Statuses, Rows, Promise!Done, Promise!Planned, Promise!Open, Promise!Copies
    <3> QED
      BY <3>6 DEF Promise!Next
  <2> QED
    BY <1>3, <2>2, <2>4, <2>5 DEF MarkFailed, Finish, WritePaused, SetStatus
<1>4. ASSUME NEW u \in Uploads, NEW w \in Workers, IncrementJobCompletedChunks(u, w)
      PROVE  Statuses' = Statuses
  BY <1>0, <1>4 DEF IncrementJobCompletedChunks, Statuses, JobRow
<1>5. CASE CrashRestart
  BY <1>0, <1>5 DEF CrashRestart, ResetIncomplete, Statuses, JobRow
<1> QED
  BY <1>1, <1>2, <1>3, <1>4, <1>5, JobWriters

\* The upload engine implements UploadPromise.
THEOREM EngineKeepsPromise == Spec => KeepsPromise
<1> DEFINE PVars == <<[u \in Uploads |-> job[u].status], [c \in Copies |-> chunk[c].status]>>
<1>1. Init => Promise!Init
  BY DEF Init, Promise!Init, Promise!Copies, Copies, Row
<1>2. TypeOK /\ Owned /\ Consistent /\ [Next]_vars => [Promise!Next]_PVars
  <2> SUFFICES ASSUME TypeOK, Owned, Consistent, [Next]_vars PROVE [Promise!Next]_PVars
    OBVIOUS
  <2>1. CASE chunk' # chunk
    BY <2>1, RowsKeepPromise DEF Consistent
  <2>2. CASE chunk' = chunk
    BY <2>2, JobsKeepPromise DEF Consistent, Statuses
  <2> QED
    BY <2>1, <2>2
<1>3. Spec => Promise!Init /\ [][Promise!Next]_PVars
  BY <1>1, <1>2, TypeCorrect, OwnedAlways, ConsistentAlways, PTL DEF Spec
<1> QED
  BY <1>3, PTL DEF KeepsPromise, Promise!Spec

-----------------------------------------------------------------------------
(***************************************************************************)
(* The progress of a job is honest.                                        *)
(***************************************************************************)

\* Copies stored, or deleted since; those of them whose goroutine is through with
\* them, so that it has counted them or failed to; and the goroutines at work.
Was(u)     == {k \in Items : chunk[<<u, k>>].status \in {"COMPLETED", "DELETED"}}
InWork(u)  == {w \in Workers : worker[u][w].at \in Busy}
Tallied(u) == {k \in Was(u) : k < taken[u] /\ \A w \in InWork(u) : worker[u][w].item # k}

\* No call of a catalog statement has failed so far.
Faultless == spent["fault"] = 0

\* What the job row, the channel and the goroutines say of each other: the progress
\* is never ahead of the copies that are through, and without failing calls every
\* item taken is counted or in the hands of a goroutine.
Honest(u) ==
  /\ pc[u] \in BeforePool \cup {"open"} => job[u].done = 0 /\ taken[u] = 0
  /\ pc[u] = "running" => job[u].done <= Cardinality(Tallied(u)) /\ taken[u] <= Total(u)
  /\ job[u].done <= Cardinality(Was(u))
  /\ Faultless /\ pc[u] = "running" /\ ~errs[u] => job[u].done + Cardinality(InWork(u)) = taken[u]
  /\ Faultless /\ (pc[u] \in {"publish", "finish"} \/ job[u].status = "COMPLETED") =>
       job[u].done = Total(u)

\* Sets of goroutines are finite, and the items stored and counted are in bounds.
LEMMA HonestTypes ==
  ASSUME NEW u \in Uploads
  PROVE  /\ IsFiniteSet(Was(u)) /\ Cardinality(Was(u)) \in Nat
         /\ IsFiniteSet(Tallied(u)) /\ Cardinality(Tallied(u)) \in Nat
         /\ IsFiniteSet(InWork(u)) /\ Cardinality(InWork(u)) \in Nat
         /\ Tallied(u) \subseteq Was(u) /\ Was(u) \subseteq Items
<1>1. Tallied(u) \in SUBSET Items /\ Was(u) \in SUBSET Items /\ Tallied(u) \subseteq Was(u)
  BY DEF Tallied, Was
<1>2. IsFiniteSet(Workers)
  BY UploadAssumption, FS_Interval DEF Workers
<1>3. IsFiniteSet(InWork(u))
  BY <1>2, FS_Subset DEF InWork
<1>4. Cardinality(InWork(u)) \in Nat
  BY <1>3, FS_CardinalityType
<1> QED
  BY <1>1, <1>3, <1>4, ItemsFinite

\* More copies count for more.
LEMMA MoreItems ==
  ASSUME NEW S \in SUBSET Items, NEW T \in SUBSET Items, S \subseteq T
  PROVE  Cardinality(S) <= Cardinality(T)
<1>1. IsFiniteSet(T)
  BY ItemsFinite
<1> QED
  BY <1>1, FS_Subset

\* Nothing takes a failure back.
LEMMA FaultsStay ==
  ASSUME TypeOK, [Next]_vars, Faultless'
  PROVE  Faultless
<1>0. spent \in [Events -> Nat] /\ "fault" \in Events
  BY DEF TypeOK, Events
<1>1. ASSUME NEW E, Ok \/ Spend(E) PROVE Faultless
  BY <1>0, <1>1 DEF Ok, Spend, Faultless
<1>2. ASSUME Ok \/ Fault PROVE Faultless
  BY <1>1, <1>2 DEF Fault
<1>3. ASSUME NEW u \in Uploads, Handler(u) PROVE Ok \/ Fault
  BY <1>3 DEF Handler, Stage, NoChannels, GetFileByPath, UpsertFile, CreateJob, CreateChunks,
       Register, Ok
<1>4. ASSUME NEW u \in Uploads, RunUpload(u) PROVE Ok \/ Fault
  BY <1>4 DEF RunUpload, Open, Verdict, MarkFailed, Publish, Finish, Leave, SetStatus, Ok
<1>5. ASSUME NEW u \in Uploads, NEW w \in Workers, Worker(u, w) PROVE Ok \/ Fault
  BY <1>5 DEF Worker, Receive, Exit, FindChunkByHash, BeginUploadChunk, UploadChunk,
         UpdateChunkComplete, IncrementJobCompletedChunks, MarkChunkFailed, Ok
<1>6. ASSUME NEW u \in Uploads, RemoveStaged(u) \/ WritePaused(u) PROVE Ok \/ Fault
  BY <1>6 DEF RemoveStaged, WritePaused, SetStatus, Ok
<1>7. ASSUME NEW u \in Uploads, CancelJob(u) \/ BeginDelete(u) PROVE \E E : Spend(E)
  BY <1>7 DEF CancelJob, BeginDelete
<1>8. ASSUME NEW m \in Copies, DeleteMessage(m) PROVE Ok \/ Fault
  BY <1>8 DEF DeleteMessage, Ok
<1>9. DeleteFile \/ UNCHANGED vars => Ok \/ Fault
  BY DEF DeleteFile, vars, Ok
<1>10. CrashRestart => \E E : Spend(E)
  BY DEF CrashRestart
<1> QED
  BY <1>1, <1>2, <1>3, <1>4, <1>5, <1>6, <1>7, <1>8, <1>9, <1>10 DEF Next

\* Steps that leave channel, goroutines and progress of an upload alone, and take
\* no copy back, leave it honest.
LEMMA HonestStays ==
  ASSUME TypeOK, NEW u \in Uploads, Honest(u), Total(u)' = Total(u), Faultless' => Faultless,
         UNCHANGED <<worker[u], taken[u], errs[u], job[u].done>>, Was(u) \subseteq Was(u)',
         pc'[u] \in {"running", "publish", "finish"} \cup BeforePool \cup {"open"} =>
                 pc'[u] = pc[u],
         job'[u].status = "COMPLETED" => job[u].status = "COMPLETED" \/ pc[u] = "finish"
  PROVE  Honest(u)'
<1>1. InWork(u)' = InWork(u)
  BY DEF InWork
<1>2. Tallied(u) \subseteq Tallied(u)'
  BY <1>1 DEF Tallied
<1>3. Tallied(u)' \subseteq Was(u)' /\ Was(u)' \subseteq Items /\ Tallied(u) \subseteq Items
  BY DEF Tallied, Was
<1>4. Cardinality(Was(u)) <= Cardinality(Was(u)') /\ Cardinality(Tallied(u)) <= Cardinality(Tallied(u)')
  BY <1>2, <1>3, MoreItems
<1>5. /\ Cardinality(Was(u)) \in Nat /\ Cardinality(Tallied(u)) \in Nat
      /\ Cardinality(Was(u)') \in Nat /\ Cardinality(Tallied(u)') \in Nat
      /\ job[u].done \in Nat
  BY <1>3, HonestTypes, ItemsFinite DEF TypeOK, JobRow
<1>6. /\ job'[u].done <= Cardinality(Was(u)')
      /\ pc'[u] = "running" => job'[u].done <= Cardinality(Tallied(u)')
  BY <1>4, <1>5 DEF Honest
<1>7. Cardinality(InWork(u))' = Cardinality(InWork(u))
  BY <1>1
<1> QED
  BY <1>6, <1>7 DEF Honest

\* What a goroutine does to the copies that are through.
LEMMA TallyStep ==
  ASSUME TypeOK, Owned, NEW u \in Uploads, NEW w \in Workers, Worker(u, w), Pending(u)
  PROVE  /\ Tallied(u) \subseteq Tallied(u)'
         /\ worker[u][w].at = "count" =>
              worker[u][w].item \in Tallied(u)' \ Tallied(u)
<1> DEFINE i == worker[u][w].item
<1>0. /\ worker \in [Uploads -> [Workers -> PoolState]] /\ taken \in [Uploads -> Nat]
      /\ i \in Items /\ i \in Nat
  BY CopyType DEF TypeOK, Items
<1>1. /\ \A x \in Workers \ {w} : worker'[u][x] = worker[u][x]
      /\ \A k \in Items \ {i} : chunk'[<<u, k>>] = chunk[<<u, k>>]
      /\ taken[u] <= taken'[u] /\ taken'[u] \in Nat
  BY <1>0, GoroutineStep DEF Worker, Receive, Exit, FindChunkByHash, BeginUploadChunk,
       UploadChunk,
         UpdateChunkComplete, IncrementJobCompletedChunks, MarkChunkFailed
<1>2. \/ worker'[u][w].item = i
      \/ Receive(u, w) /\ worker'[u][w].item = taken[u]
  <2>1. CASE Receive(u, w)
    <3>1. worker'[u][w] = At("lookup", taken[u], None)
      BY <1>0, <2>1 DEF Receive
    <3> QED
      BY <2>1, <3>1 DEF At
  <2>2. CASE \E l \in WorkerStages : Move(u, w, l)
    BY <2>2, MovedHere
  <2>3. CASE \E m : \E l \in WorkerStages : worker' = [worker EXCEPT ![u][w] = At(l, i, m)]
    <3>1. PICK m : \E l \in WorkerStages : worker' = [worker EXCEPT ![u][w] = At(l, i, m)]
      BY <2>3
    <3>a. PICK l \in WorkerStages : worker' = [worker EXCEPT ![u][w] = At(l, i, m)]
      BY <3>1
    <3>2. worker'[u][w] = At(l, i, m)
      BY <1>0, <3>a
    <3> QED
      BY <3>2 DEF At
  <2> QED
    BY <2>1, <2>2, <2>3
       DEF Worker, Exit, FindChunkByHash, BeginUploadChunk, UploadChunk,
         UpdateChunkComplete, IncrementJobCompletedChunks, MarkChunkFailed, WorkerStages
<1>3. i \in Tallied(u) => chunk'[<<u, i>>] = chunk[<<u, i>>]
  <2>1. worker[u][w].at \notin Busy => chunk' = chunk
    BY DEF Worker, Receive, Exit, FindChunkByHash, BeginUploadChunk, UploadChunk,
         UpdateChunkComplete, IncrementJobCompletedChunks, MarkChunkFailed, Busy, WorkerStages
  <2> QED
    BY <2>1 DEF Tallied, InWork
<1>4. worker'[u][w].at \in Busy => worker[u][w].at \in Busy \/ Receive(u, w)
  <2>1. CASE Exit(u, w)
    <3>1. worker'[u][w].at = "exit"
      BY <2>1, MovedHere DEF Exit, WorkerStages
    <3> QED
      BY <3>1 DEF Busy
  <2>2. CASE ~Exit(u, w) /\ ~Receive(u, w)
    BY <2>2 DEF Worker, FindChunkByHash, BeginUploadChunk, UploadChunk,
         UpdateChunkComplete, IncrementJobCompletedChunks, MarkChunkFailed, Busy, WorkerStages
  <2> QED
    BY <2>1, <2>2
<1>5. ASSUME NEW k \in Tallied(u) PROVE k \in Tallied(u)'
  <2>1. k \in Was(u) /\ k < taken[u] /\ k \in Items /\ k \in Nat
    BY DEF Tallied, Was, Items
  <2>2. chunk'[<<u, k>>] = chunk[<<u, k>>]
    BY <1>1, <1>3, <2>1
  <2>3. k \in Was(u)' /\ k < taken'[u]
    BY <1>0, <1>1, <2>1, <2>2 DEF Was
  <2>4. ASSUME NEW x \in Workers, worker'[u][x].at \in Busy PROVE worker'[u][x].item # k
    <3>1. CASE x # w
      BY <1>1, <2>4, <3>1 DEF Tallied, InWork
    <3>2. CASE x = w /\ worker[u][w].at \in Busy
      <4>1. ~Receive(u, w)
        BY <3>2 DEF Receive, Busy
      <4> QED
        BY <1>2, <3>2, <4>1 DEF Tallied, InWork
    <3>3. CASE x = w /\ Receive(u, w)
      <4>1. worker'[u][w].item = taken[u]
        <5>1. worker'[u][w] = At("lookup", taken[u], None)
          BY <1>0, <3>3 DEF Receive
        <5> QED
          BY <5>1 DEF At
      <4> QED
        BY <1>0, <2>1, <3>3, <4>1
    <3> QED
      BY <1>4, <2>4, <3>1, <3>2, <3>3
  <2> QED
    BY <2>3, <2>4 DEF Tallied, InWork
<1>6. ASSUME worker[u][w].at = "count" PROVE i \in Tallied(u)' \ Tallied(u)
  <2>1. IncrementJobCompletedChunks(u, w)
    BY <1>6 DEF Worker, Receive, Exit, FindChunkByHash, BeginUploadChunk, UploadChunk,
         UpdateChunkComplete, MarkChunkFailed
  <2>2. worker[u][w].at \in Busy
    BY <1>6 DEF Busy, WorkerStages
  <2>3. i \notin Tallied(u)
    BY <2>2 DEF Tallied, InWork
  <2>4. worker'[u][w].at \notin Busy
    BY <2>1, MovedHere DEF IncrementJobCompletedChunks, WorkerStages, Busy
  <2>5. i < taken'[u] /\ \A x \in Workers \ {w} : worker[u][x].at \in Busy =>
          worker[u][x].item # i
    BY <1>0, <1>1, <2>2 DEF Owned, InHand
  <2>6. i \in Was(u)'
    BY <1>0, <1>6, <2>1 DEF IncrementJobCompletedChunks, Pending, StatusOf, Was
  <2> QED
    BY <1>1, <2>3, <2>4, <2>5, <2>6 DEF Tallied, InWork
<1> QED
  BY <1>5, <1>6

\* What a goroutine does to the progress of its job: it counts only what is through.
LEMMA CountStep ==
  ASSUME TypeOK, Owned, NEW u \in Uploads, NEW w \in Workers, Worker(u, w), Pending(u), Honest(u),
         pc[u] = "running"
  PROVE  job'[u].done <= Cardinality(Tallied(u)') /\ job'[u].status = job[u].status
<1>0. /\ job \in [Uploads -> JobRow] /\ job[u].done \in Nat
      /\ Cardinality(Tallied(u)) \in Nat /\ IsFiniteSet(Tallied(u)) /\ Tallied(u) \subseteq Items
      /\ Tallied(u)' \subseteq Items
      /\ job[u].done <= Cardinality(Tallied(u))
  BY HonestTypes DEF TypeOK, JobRow, Honest, Tallied, Was
<1>1. /\ Cardinality(Tallied(u)) <= Cardinality(Tallied(u)')
      /\ Cardinality(Tallied(u)') \in Nat
  BY <1>0, TallyStep, MoreItems, ItemsFinite
<1>2. CASE worker[u][w].at = "count"
  <2> DEFINE i == worker[u][w].item
             S == Tallied(u) \cup {i}
  <2>1. i \notin Tallied(u) /\ i \in Items /\ S \subseteq Tallied(u)' /\ S \subseteq Items
    BY <1>0, <1>2, TallyStep, CopyType DEF TypeOK
  <2>2. Cardinality(S) = Cardinality(Tallied(u)) + 1
    BY <1>0, <2>1, FS_AddElement
  <2>3. Cardinality(S) <= Cardinality(Tallied(u)')
    BY <1>0, <2>1, MoreItems
  <2>4. IncrementJobCompletedChunks(u, w)
    BY <1>2 DEF Worker, Receive, Exit, FindChunkByHash, BeginUploadChunk, UploadChunk,
         UpdateChunkComplete, MarkChunkFailed
  <2>5. /\ job'[u].done = job[u].done + 1 \/ job'[u].done = job[u].done
        /\ job'[u].status = job[u].status
    BY <1>0, <2>4 DEF IncrementJobCompletedChunks, JobRow
  <2> HIDE DEF S
  <2> QED
    BY <1>0, <1>1, <2>2, <2>3, <2>5
<1>3. CASE worker[u][w].at # "count"
  <2>1. job' = job
    BY <1>3 DEF Worker, Receive, Exit, FindChunkByHash, BeginUploadChunk, UploadChunk,
         UpdateChunkComplete, IncrementJobCompletedChunks, MarkChunkFailed
  <2> QED
    BY <1>0, <1>1, <2>1
<1> QED
  BY <1>2, <1>3

\* What a goroutine does to the account of items taken.
LEMMA AccountStep ==
  ASSUME TypeOK, Owned, NEW u \in Uploads, NEW w \in Workers, Worker(u, w), Honest(u),
         pc[u] = "running", Faultless', ~errs'[u], Faultless' => Faultless
  PROVE  job'[u].done + Cardinality(InWork(u)') = taken'[u]
<1> DEFINE n == Cardinality(InWork(u))
<1>0. /\ job \in [Uploads -> JobRow] /\ job[u].done \in Nat /\ taken[u] \in Nat
      /\ worker \in [Uploads -> [Workers -> PoolState]]
      /\ taken \in [Uploads -> Nat] /\ errs \in [Uploads -> BOOLEAN]
      /\ n \in Nat /\ IsFiniteSet(InWork(u)) /\ spent["fault"] \in Nat /\ spent \in [Events -> Nat]
      /\ "fault" \in Events
  BY HonestTypes DEF TypeOK, JobRow, Events
<1>1. \A x \in Workers \ {w} : worker'[u][x] = worker[u][x]
  BY GoroutineStep
<1>2. ~Fault /\ ~MarkChunkFailed(u, w) /\ ~errs[u]
  <2>1. ~Fault
    BY <1>0 DEF Fault, Spend, Faultless
  <2>2. ~MarkChunkFailed(u, w)
    BY <1>0 DEF MarkChunkFailed
  <2>3. ~errs[u]
    BY <1>0, <2>2 DEF Worker, Receive, Exit, FindChunkByHash, BeginUploadChunk, UploadChunk,
         UpdateChunkComplete, IncrementJobCompletedChunks
  <2> QED
    BY <2>1, <2>2, <2>3
<1>3. job[u].done + n = taken[u]
  BY <1>2 DEF Honest
<1>4. CASE Receive(u, w)
  <2>1. worker'[u][w].at = "lookup" /\ taken'[u] = taken[u] + 1 /\ job' = job
    BY <1>0, <1>4 DEF Receive, At
  <2>2. InWork(u)' = InWork(u) \cup {w} /\ w \notin InWork(u)
    BY <1>1, <1>4, <2>1 DEF InWork, Receive, Busy, WorkerStages
  <2>3. Cardinality(InWork(u)') = n + 1
    BY <1>0, <2>2, FS_AddElement
  <2>4. job[u].done \in Nat /\ n \in Nat /\ taken[u] \in Nat /\ job'[u].done = job[u].done
    BY <1>0, <2>1
  <2> HIDE DEF n
  <2> QED
    BY <1>3, <2>1, <2>3, <2>4
<1>5. CASE IncrementJobCompletedChunks(u, w)
  <2>1. /\ worker'[u][w].at = "select" /\ worker[u][w].at = "count" /\ taken' = taken
        /\ job'[u].done = job[u].done + 1
    BY <1>0, <1>2, <1>5, MovedHere DEF IncrementJobCompletedChunks, WorkerStages, JobRow
  <2>2. InWork(u)' = InWork(u) \ {w} /\ w \in InWork(u)
    BY <1>1, <2>1 DEF InWork, Busy, WorkerStages
  <2>3. Cardinality(InWork(u)') = n - 1
    BY <1>0, <2>2, FS_RemoveElement
  <2>4. job[u].done \in Nat /\ n \in Nat /\ taken[u] \in Nat /\ taken'[u] = taken[u]
    BY <1>0, <2>1
  <2> HIDE DEF n
  <2> QED
    BY <1>3, <2>1, <2>3, <2>4
<1>6. CASE Exit(u, w) \/ FindChunkByHash(u, w) \/ BeginUploadChunk(u, w) \/ UploadChunk(u, w)
           \/ UpdateChunkComplete(u, w)
  <2>1. taken' = taken /\ job' = job
    BY <1>6 DEF Exit, FindChunkByHash, BeginUploadChunk, UploadChunk, UpdateChunkComplete
  <2>2. worker'[u][w].at \in Busy <=> worker[u][w].at \in Busy
    <3>1. CASE Exit(u, w)
      <4>1. worker'[u][w].at = "exit" /\ worker[u][w].at = "select"
        BY <3>1, MovedHere DEF Exit, WorkerStages
      <4> QED
        BY <4>1 DEF Busy
    <3>2. CASE ~Exit(u, w)
      <4>1. worker[u][w].at \in Busy
        BY <1>6, <3>2 DEF FindChunkByHash, BeginUploadChunk, UploadChunk, UpdateChunkComplete,
             Busy, WorkerStages
      <4>2. \/ \E l \in Busy : Move(u, w, l)
            \/ \E m : \E l \in Busy : worker' = [worker EXCEPT ![u][w] = At(l, worker[u][w].item, m)]
        BY <1>6, <3>2 DEF FindChunkByHash, BeginUploadChunk, UploadChunk, UpdateChunkComplete,
             Busy, WorkerStages
      <4>3. ASSUME NEW l \in Busy, Move(u, w, l) PROVE worker'[u][w].at \in Busy
        <5>1. l \in WorkerStages
          BY DEF Busy
        <5> QED
          BY <4>3, <5>1, MovedHere
      <4>4. ASSUME NEW l \in Busy, NEW m, worker' = [worker EXCEPT ![u][w] = At(l, worker[u][w].item, m)]
            PROVE  worker'[u][w].at \in Busy
        <5>1. worker'[u][w] = At(l, worker[u][w].item, m)
          BY <1>0, <4>4
        <5> QED
          BY <5>1 DEF At
      <4> QED
        BY <4>1, <4>2, <4>3, <4>4
    <3> QED
      BY <3>1, <3>2
  <2>3. InWork(u)' = InWork(u)
    BY <1>1, <2>2 DEF InWork
  <2> QED
    BY <1>3, <2>1, <2>3
<1> QED
  BY <1>2, <1>4, <1>5, <1>6 DEF Worker

\* Every step leaves the progress honest.
LEMMA HonestStep ==
  ASSUME TypeOK, Owned, Counted, [Next]_vars, NEW u \in Uploads, Known(u), Pending(u), Honest(u)
  PROVE  Honest(u)'
<1>0. /\ pc \in [Uploads -> Stages] /\ job \in [Uploads -> JobRow] /\ job[u].done \in Nat
      /\ chunk \in [Copies -> CopyRow] /\ \A k \in Items : <<u, k>> \in Copies
      /\ worker \in [Uploads -> [Workers -> PoolState]]
      /\ taken \in [Uploads -> Nat]
      /\ Total(u)' = Total(u) /\ Total(u) \in Nat
      /\ Faultless' => Faultless
  BY RequestFixed, TotalType, FaultsStay DEF TypeOK, Copies, JobRow
<1>c. /\ Cardinality(Was(u)) \in Nat /\ Cardinality(Was(u)') \in Nat
      /\ Cardinality(Tallied(u)) \in Nat /\ Cardinality(Tallied(u)') \in Nat
      /\ Cardinality(InWork(u)) \in Nat
  <2>1. Was(u)' \in SUBSET Items /\ Tallied(u)' \in SUBSET Items
    BY DEF Was, Tallied
  <2> QED
    BY <2>1, HonestTypes, ItemsFinite
<1>1. CASE Handler(u)
  <2>1. /\ pc[u] \in BeforePool /\ pc'[u] \in (BeforePool \cup {"open", "rejected"})
        /\ taken' = taken
    BY <1>0, <1>1 DEF Handler, Stage, NoChannels, GetFileByPath, UpsertFile, CreateJob,
         CreateChunks,
         Register, Reject, Goto, BeforePool, pool
  <2>2. job'[u].done = 0 /\ job'[u].status # "COMPLETED"
    <3>1. CASE CreateJob(u)
      BY <1>0, <3>1, <2>1 DEF CreateJob, Honest, Known
    <3>2. CASE ~CreateJob(u)
      <4>1. job' = job
        BY <1>1, <3>2 DEF Handler, Stage, NoChannels, GetFileByPath, UpsertFile, CreateChunks,
             Register, tables
      <4>2. job[u].done = 0
        BY <2>1 DEF Honest
      <4>3. job[u].status # "COMPLETED"
        BY <2>1 DEF Counted, BeforePool
      <4> QED
        BY <4>1, <4>2, <4>3
    <3> QED
      BY <3>1, <3>2
  <2>3. taken'[u] = 0 /\ pc'[u] \notin {"running", "publish", "finish"}
    BY <2>1 DEF Honest, BeforePool
  <2> QED
    BY <1>c, <2>2, <2>3 DEF Honest
<1>2. CASE RunUpload(u)
  <2>0. chunk' = chunk /\ taken' = taken /\ errs' = errs /\ job'[u].done = job[u].done
    BY <1>0, <1>2 DEF RunUpload, Open, Verdict, MarkFailed, Publish, Finish, Leave, SetStatus,
         tables, pool,
       JobRow
  <2>1. CASE Open(u)
    <3>1. job[u].done = 0 /\ taken[u] = 0 /\ job[u].status # "COMPLETED" /\ job' = job
      BY <2>1 DEF Open, Honest, Counted, tables
    <3>2. pc'[u] \in {"running", "failing"}
      BY <1>0, <2>1 DEF Open, Goto
    <3>3. pc'[u] = "running" => Cardinality(InWork(u)') = 0
      <4> SUFFICES ASSUME pc'[u] = "running" PROVE InWork(u)' = {}
        BY FS_EmptySet
      <4>1. \A w \in Workers : worker'[u][w].at \in {"select", "exit"}
        BY <1>0, <2>1 DEF Open, Goto, At
      <4> QED
        BY <4>1 DEF InWork, Busy
    <3>4. job'[u].done = 0 /\ taken'[u] = 0 /\ job'[u].status # "COMPLETED"
      BY <2>0, <3>1
    <3> QED
      BY <1>0, <1>c, <3>2, <3>3, <3>4 DEF Honest, BeforePool
  <2>2. CASE Verdict(u)
    <3>1. pc[u] = "running" /\ worker' = worker /\ job' = job /\ job[u].status # "COMPLETED"
      BY <2>2 DEF Verdict, Counted, tables, pool
    <3>2. pc'[u] = "failing" \/ (pc'[u] = "publish" /\ ~errs[u] /\ AllStored(u))
      BY <1>0, <2>2 DEF Verdict, Goto
    <3>3. Was(u)' = Was(u)
      BY <2>0 DEF Was
    <3>4. Faultless' /\ pc'[u] = "publish" => job[u].done = Total(u)
      <4> SUFFICES ASSUME Faultless, ~errs[u], AllStored(u) PROVE job[u].done = Total(u)
        BY <1>0, <3>2
      <4>1. InWork(u) = {}
        BY <2>2 DEF Verdict, InWork, Busy
      <4>2. Cardinality(InWork(u)) = 0
        BY <4>1, FS_EmptySet
      <4>3. job[u].done = taken[u] /\ taken[u] <= Total(u) /\ taken[u] \in Nat
        BY <1>0, <3>1, <4>2 DEF Honest
      <4>4. Stored(u) \subseteq 0 .. taken[u] - 1
        <5> SUFFICES ASSUME NEW k \in Items, chunk[<<u, k>>].status = "COMPLETED"
                     PROVE  k \in 0 .. taken[u] - 1
          BY DEF Stored
        <5>1. k \in Nat /\ ~(k >= taken[u])
          BY <3>1 DEF Owned, Untouched, Opening, Items
        <5> QED
          BY <4>3, <5>1
      <4>5. IsFiniteSet(0 .. taken[u] - 1) /\ Cardinality(0 .. taken[u] - 1) = taken[u]
        <5>1. 0 \in Int /\ taken[u] - 1 \in Int
          BY <4>3
        <5>2. /\ IsFiniteSet(0 .. taken[u] - 1)
              /\ Cardinality(0 .. taken[u] - 1) = IF 0 > taken[u] - 1 THEN 0 ELSE (taken[u] - 1) - 0 + 1
          BY <5>1, FS_Interval
        <5> QED
          BY <4>3, <5>2
      <4>6. Cardinality(Stored(u)) <= Cardinality(0 .. taken[u] - 1)
        BY <4>4, <4>5, FS_Subset
      <4>7. Cardinality(Stored(u)) >= Total(u) /\ Cardinality(Stored(u)) \in Nat
        BY ItemsFinite DEF AllStored, Stored
      <4> HIDE DEF Stored
      <4> QED
        BY <1>0, <4>3, <4>5, <4>6, <4>7
    <3>5. job'[u].done <= Cardinality(Was(u)')
      BY <2>0, <3>3 DEF Honest
    <3> QED
      BY <1>0, <2>0, <3>1, <3>2, <3>4, <3>5 DEF Honest, BeforePool
  <2>3. CASE MarkFailed(u) \/ Publish(u) \/ Finish(u) \/ Leave(u)
    <3>1. worker' = worker /\ Was(u)' = Was(u)
      BY <2>0, <2>3 DEF MarkFailed, Publish, Finish, Leave, Was, pool
    <3>2. /\ pc'[u] \in {"finish", "leave", "ended"}
          /\ pc'[u] = "finish" => pc[u] = "publish"
      BY <1>0, <2>3 DEF MarkFailed, Publish, Finish, Leave, Goto
    <3>3. job'[u].status = "COMPLETED" => job[u].status = "COMPLETED" \/ pc[u] = "finish"
      BY <1>0, <2>3 DEF MarkFailed, Publish, Finish, Leave, SetStatus, tables, JobRow
    <3>4. job'[u].done <= Cardinality(Was(u)')
      BY <2>0, <3>1 DEF Honest
    <3>5. Faultless' /\ (pc'[u] = "finish" \/ job'[u].status = "COMPLETED") =>
            job'[u].done = Total(u)
      BY <1>0, <2>0, <3>2, <3>3 DEF Honest
    <3> QED
      BY <1>0, <3>2, <3>4, <3>5 DEF Honest, BeforePool
  <2> QED
    BY <1>2, <2>1, <2>2, <2>3 DEF RunUpload
<1>3. ASSUME NEW w \in Workers, Worker(u, w) PROVE Honest(u)'
  <2>1. pc[u] = "running" /\ pc' = pc
    <3>1. worker[u][w].at \notin {"off", "exit"}
      BY <1>3 DEF Worker, Receive, Exit, FindChunkByHash, BeginUploadChunk, UploadChunk,
         UpdateChunkComplete, IncrementJobCompletedChunks, MarkChunkFailed
    <3> QED
      BY <1>3, <3>1, GoroutineStep DEF Owned, Drained
  <2>2. job'[u].done <= Cardinality(Tallied(u)') /\ job'[u].status = job[u].status
    BY <1>3, <2>1, CountStep
  <2>3. taken'[u] <= Total(u)
    <3>1. taken[u] <= Total(u) /\ taken[u] \in Nat
      BY <1>0, <2>1 DEF Honest
    <3>2. taken'[u] = taken[u] \/ (taken[u] < Total(u) /\ taken'[u] = taken[u] + 1)
      BY <1>0, <1>3 DEF Worker, Receive, HasItem, Exit, FindChunkByHash, BeginUploadChunk,
           UploadChunk,
         UpdateChunkComplete, IncrementJobCompletedChunks, MarkChunkFailed
    <3> QED
      BY <1>0, <3>1, <3>2
  <2>4. job'[u].done <= Cardinality(Was(u)')
    <3>1. Tallied(u)' \subseteq Was(u)' /\ Was(u)' \subseteq Items
      BY DEF Tallied, Was
    <3>2. Cardinality(Tallied(u)') <= Cardinality(Was(u)')
      BY <3>1, MoreItems
    <3>3. job'[u].done \in Nat
      BY <1>0, <1>3 DEF Worker, Receive, HasItem, Exit, FindChunkByHash, BeginUploadChunk,
           UploadChunk,
         UpdateChunkComplete, IncrementJobCompletedChunks, MarkChunkFailed, JobRow
    <3> QED
      BY <1>c, <2>2, <3>2, <3>3
  <2>5. Faultless' /\ ~errs'[u] => job'[u].done + Cardinality(InWork(u)') = taken'[u]
    BY <1>0, <1>3, <2>1, AccountStep
  <2>6. job'[u].status # "COMPLETED"
    BY <2>1, <2>2 DEF Counted
  <2> QED
    BY <1>0, <2>1, <2>2, <2>3, <2>4, <2>5, <2>6 DEF Honest, BeforePool
<1>4. CASE CrashRestart
  <2>1. /\ pc'[u] \in {"new", "lost"} \cup Final
        /\ pc'[u] = "new" => pc[u] = "new"
        /\ taken'[u] = 0
        /\ Was(u)' = Was(u)
    BY <1>0, <1>4 DEF CrashRestart, Was
  <2>2. \/ job'[u] = job[u]
        \/ /\ job[u].status = "ACTIVE" /\ job'[u].done = Cardinality(Stored(u))
           /\ job'[u].status = "ACTIVE"
    BY <1>0, <1>4 DEF CrashRestart, ResetIncomplete, JobRow
  <2>3. Cardinality(Stored(u)) <= Cardinality(Was(u))
    <3>1. Stored(u) \in SUBSET Items /\ Was(u) \in SUBSET Items /\ Stored(u) \subseteq Was(u)
      BY DEF Stored, Was
    <3> QED
      BY <3>1, MoreItems
  <2>4. job'[u].done <= Cardinality(Was(u)')
    BY <2>1, <2>2, <2>3 DEF Honest
  <2>5. pc'[u] = "new" => job'[u].done = 0
    BY <2>1, <2>2 DEF Known, Honest, BeforePool
  <2>6. Faultless' /\ job'[u].status = "COMPLETED" => job'[u].done = Total(u)
    BY <1>0, <2>2 DEF Honest
  <2> QED
    BY <1>0, <2>1, <2>4, <2>5, <2>6 DEF Honest, BeforePool, Final
<1>5. CASE Undisturbed(u)
  <2>1. Was(u) \subseteq Was(u)'
    BY <1>5 DEF Undisturbed, Was
  <2> QED
    BY <1>0, <1>5, <2>1, HonestStays DEF Undisturbed
<1> QED
  BY <1>1, <1>2, <1>3, <1>4, <1>5, OwnSteps

\* The progress that the job row shows is never ahead of the copies stored, and a
\* COMPLETED job shows all of them unless a write failed.
THEOREM ProgressIsHonest == Spec => []ProgressHonest
<1> DEFINE J == \A u \in Uploads : Honest(u)
<1>1. Init => J
  <2> SUFFICES ASSUME Init, NEW u \in Uploads PROVE Honest(u)
    OBVIOUS
  <2>1. 0 <= Cardinality(Was(u))
    BY HonestTypes
  <2> QED
    BY <2>1 DEF Init, Honest
<1>2. TypeOK /\ Owned /\ Consistent /\ J /\ [Next]_vars => J'
  BY HonestStep DEF Consistent
<1>3. J => ProgressHonest
  BY DEF Honest, ProgressHonest, Was, Faultless
<1> QED
  BY <1>1, <1>2, <1>3, TypeCorrect, OwnedAlways, ConsistentAlways, PTL DEF Spec
=============================================================================
