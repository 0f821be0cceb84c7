---------------------------- MODULE DownloadProofs ----------------------------
(***************************************************************************)
(* Proofs about DownloadJob: its types, that a COMPLETED job that was not  *)
(* cancelled has written every stored part to its local file, and that     *)
(* the verdict of a job says what its goroutines did.                      *)
(***************************************************************************)
EXTENDS DownloadJob, FiniteSetTheorems, TLAPS

\* A goroutine of j met an error.
Reported(j) == errs[j] > 0 \/ \E w \in Workers : worker[j][w].at = "report"

InHand(j, r) == \E w \in Workers : worker[j][w].at = "fetch" /\ worker[j][w].row = r

Written(j, r) == dest[Path(j)][r[1]] = File(j)

\* Nothing has disturbed the pool of j.
Undisturbed(j) == pc[j] = "running" /\ j \notin cancelled /\ ~Reported(j)

\* No row of an undisturbed pool is lost, ...
NothingLost(j) ==
  Undisturbed(j) /\ Alone(j) =>
    \A r \in RowsOf(j) : r \in queue[j] \/ InHand(j, r) \/ Written(j, r)

\* ... and somebody is left to take what is in its channel.
Staffed(j) ==
  Undisturbed(j) /\ queue[j] # {} =>
    \E w \in Workers : worker[j][w].at \in {"select", "fetch"}

\* Goroutines live while runDownload waits for them.
Idle(j) == pc[j] # "running" => \A w \in Workers : worker[j][w].at \in {"off", "exit"}

\* COMPLETED is written last.
Concluded(j) == status[j] = "COMPLETED" => pc[j] \in {"leave", "ended"}

Ind ==
  /\ TypeOK
  /\ \A j \in Jobs : NothingLost(j) /\ Staffed(j) /\ Idle(j) /\ Concluded(j)
  /\ DoneMeansWritten

-----------------------------------------------------------------------------
\* A job that starts has at least one goroutine: its rows are finite and not
\* none.
LEMMA SomeRow ==
  ASSUME TypeOK, NEW j \in Jobs
  PROVE  Cardinality(RowsOf(j)) \in Nat \ {0} /\ RowsOf(j) \subseteq Rows
<1>1. request \in Requests /\ request[j] \in [file : Files, path : Paths, rows : SUBSET Rows]
  BY DownloadAssumption DEF TypeOK, Rows
<1>2. RowsOf(j) # {} /\ IsFiniteSet(RowsOf(j))
  BY <1>1, DownloadAssumption DEF RowsOf
<1>. QED
  BY <1>1, <1>2, FS_CardinalityType, FS_EmptySet DEF RowsOf

\* The request of a job is well formed.
LEMMA RequestType ==
  ASSUME TypeOK, NEW j \in Jobs
  PROVE  File(j) \in Files /\ Path(j) \in Paths /\ RowsOf(j) \subseteq Rows
BY DownloadAssumption DEF TypeOK, File, Path, RowsOf, Rows

\* A status is one of the statuses after a write of one.
LEMMA StatusType ==
  ASSUME TypeOK, NEW j \in Jobs, NEW st \in JobStatus, SetStatus(j, st)
  PROVE  status' \in [Jobs -> JobStatus] /\ faults' \in Nat
<1>1. status \in [Jobs -> JobStatus] /\ faults \in Nat
  BY DEF TypeOK
<1>2. "NONE" \in JobStatus
  BY DEF JobStatus
<1>. QED
  BY <1>1, <1>2 DEF SetStatus, Ok, Fault

\* A goroutine that moves stays typed.
LEMMA MoveType ==
  ASSUME TypeOK, NEW j \in Jobs, NEW w \in Workers,
         NEW l \in {"off", "select", "fetch", "report", "exit"}, NEW r \in Rows \cup {None},
         worker' = [worker EXCEPT ![j][w] = [at |-> l, row |-> r]]
  PROVE  worker' \in [Jobs -> [Workers -> PoolState]]
<1>1. worker \in [Jobs -> [Workers -> PoolState]] /\ [at |-> l, row |-> r] \in PoolState
  BY DEF TypeOK, PoolState
<1>. QED
  BY <1>1

-----------------------------------------------------------------------------
\* Every step keeps the types.
LEMMA TypeStep == TypeOK /\ [Next]_vars => TypeOK'
<1>. SUFFICES ASSUME TypeOK, [Next]_vars PROVE TypeOK'
  OBVIOUS
<1>. USE DownloadAssumption
<1>1. CASE UNCHANGED vars
  BY <1>1 DEF TypeOK, vars, pool, bounds
<1>2. ASSUME NEW j \in Jobs, Refuse(j) \/ Register(j) \/ Leave(j)
      PROVE  TypeOK'
  BY <1>2 DEF TypeOK, Refuse, Register, Leave, Goto, Stages, pool, bounds
<1>3. ASSUME NEW j \in Jobs, CreateJob(j)
      PROVE  TypeOK'
  <2>1. status' \in [Jobs -> JobStatus]
    BY <1>3 DEF TypeOK, CreateJob, JobStatus
  <2>2. faults' \in Nat
    <3>1. faults \in Nat
      BY DEF TypeOK
    <3>. QED
      BY <1>3, <3>1 DEF CreateJob, Ok, Fault
  <2>. QED
    BY <1>3, <2>1, <2>2 DEF TypeOK, CreateJob, Goto, Stages, pool
<1>4. ASSUME NEW j \in Jobs, Open(j)
      PROVE  TypeOK'
  <2>1. dest' \in [Paths -> [Parts -> Files \cup {None}]] /\ queue' \in [Jobs -> SUBSET Rows]
    BY <1>4, RequestType DEF TypeOK, Open
  <2>2. worker' \in [Jobs -> [Workers -> PoolState]]
    BY <1>4 DEF TypeOK, Open, PoolState
  <2>. QED
    BY <1>4, <2>1, <2>2 DEF TypeOK, Open, Goto, Stages, bounds
<1>5. ASSUME NEW j \in Jobs, CannotOpen(j) \/ Verdict(j)
      PROVE  TypeOK'
  <2>1. PICK st \in JobStatus : Conclude(j, st)
    BY <1>5 DEF CannotOpen, Verdict, JobStatus
  <2>2. status' \in [Jobs -> JobStatus] /\ faults' \in Nat
    BY <2>1, StatusType DEF Conclude
  <2>. QED
    BY <2>1, <2>2 DEF TypeOK, Conclude, Goto, Stages, pool
<1>6. ASSUME NEW j \in Jobs, NEW w \in Workers, Worker(j, w)
      PROVE  TypeOK'
  <2>1. None \in Rows \cup {None}
    OBVIOUS
  <2>2. CASE Take(j, w)
    <3>1. PICK r \in queue[j] : /\ queue' = [queue EXCEPT ![j] = @ \ {r}]
                                /\ worker' = [worker EXCEPT ![j][w] = [at |-> "fetch", row |-> r]]
      BY <2>2 DEF Take
    <3>2. r \in Rows
      BY DEF TypeOK
    <3>3. worker' \in [Jobs -> [Workers -> PoolState]]
      BY <3>1, <3>2, MoveType
    <3>4. queue' \in [Jobs -> SUBSET Rows]
      BY <3>1 DEF TypeOK
    <3>. QED
      BY <2>2, <3>3, <3>4 DEF Take, TypeOK, poolRest, bounds
  <2>3. CASE Exit(j, w) \/ Fail(j, w)
    <3>1. worker' \in [Jobs -> [Workers -> PoolState]]
      BY <2>1, <2>3, MoveType DEF Exit, Fail, Move
    <3>. QED
      BY <2>3, <3>1 DEF Exit, Fail, TypeOK, poolRest, bounds
  <2>4. CASE FetchAndWrite(j, w)
    <3>1. worker' \in [Jobs -> [Workers -> PoolState]]
      BY <2>1, <2>4, MoveType DEF FetchAndWrite, Move
    <3>2. done' \in [Jobs -> Nat]
      <4>1. done \in [Jobs -> Nat]
        BY DEF TypeOK
      <4>. QED
        BY <2>4, <4>1 DEF FetchAndWrite
    <3>3. dest' \in [Paths -> [Parts -> Files \cup {None}]]
      <4>1. dest \in [Paths -> [Parts -> Files \cup {None}]] /\ File(j) \in Files
        BY RequestType DEF TypeOK
      <4>. QED
        BY <2>4, <4>1 DEF FetchAndWrite
    <3>. QED
      BY <2>4, <3>1, <3>2, <3>3 DEF FetchAndWrite, TypeOK, poolRest, bounds
  <2>5. CASE Report(j, w)
    <3>1. worker' \in [Jobs -> [Workers -> PoolState]]
      BY <2>1, <2>5, MoveType DEF Report, Move
    <3>2. errs' \in [Jobs -> 0 .. WorkerCount]
      <4>1. errs \in [Jobs -> 0 .. WorkerCount]
        BY DEF TypeOK
      <4>. QED
        BY <2>5, <4>1 DEF Report
    <3>. QED
      BY <2>5, <3>1, <3>2 DEF Report, TypeOK, poolRest, bounds
  <2>. QED
    BY <1>6, <2>2, <2>3, <2>4, <2>5 DEF Worker
<1>7. ASSUME NEW j \in Jobs, CancelUpload(j)
      PROVE  TypeOK'
  <2>1. status' \in [Jobs -> JobStatus] /\ faults' \in Nat
    BY <1>7, StatusType DEF CancelUpload, JobStatus
  <2>. QED
    BY <1>7, <2>1 DEF TypeOK, CancelUpload, CancelRequest, pool
<1>8. CASE CancelAllJobs \/ CancelJob \/ NoMoreJobs
  <2>1. cancels' \in Nat
    <3>1. cancels \in Nat
      BY DEF TypeOK
    <3>. QED
      BY <1>8, <3>1 DEF CancelAllJobs, CancelRequest, CancelJob, NoMoreJobs, Withdraw, bounds
  <2>2. canceller' \in [at : {"idle", "asked", "all", "locked"}, job : Jobs \cup {None},
                        all : BOOLEAN]
    <3>1. canceller \in [at : {"idle", "asked", "all", "locked"}, job : Jobs \cup {None},
                         all : BOOLEAN]
      BY DEF TypeOK
    <3>. QED
      <4>1. CASE CancelJob
        BY <3>1, <4>1 DEF CancelJob
      <4>2. ASSUME NEW l \in {"idle", "all"}, NEW b \in BOOLEAN,
                   canceller' = [at |-> l, job |-> None, all |-> b]
            PROVE  canceller' \in [at : {"idle", "asked", "all", "locked"},
                                   job : Jobs \cup {None}, all : BOOLEAN]
        BY <4>2
      <4>3. CASE CancelAllJobs
        BY <4>2, <4>3 DEF CancelAllJobs
      <4>4. CASE NoMoreJobs
        BY <4>2, <4>4 DEF NoMoreJobs
      <4>. QED
        BY <1>8, <4>1, <4>3, <4>4
  <2>. QED
    BY <1>8, <2>1, <2>2
       DEF TypeOK, CancelAllJobs, CancelJob, NoMoreJobs, Withdraw, pool, bounds
<1>9. ASSUME NEW j \in Jobs, CancelNext(j)
      PROVE  TypeOK'
  BY <1>9 DEF TypeOK, CancelNext, Withdraw, pool, bounds
<1>10. CASE WritePaused
  <2>1. status' \in [Jobs -> JobStatus] /\ faults' \in Nat
    <3>1. status \in [Jobs -> JobStatus] /\ faults \in Nat
      BY DEF TypeOK
    <3>2. "NONE" \in JobStatus /\ "PAUSED" \in JobStatus
      BY DEF JobStatus
    <3>. QED
      BY <1>10, <3>1, <3>2 DEF WritePaused, SetStatus, Ok, Fault
  <2>2. canceller' \in [at : {"idle", "asked", "all", "locked"}, job : Jobs \cup {None},
                        all : BOOLEAN]
    BY <1>10 DEF TypeOK, WritePaused
  <2>. QED
    BY <1>10, <2>1, <2>2 DEF TypeOK, WritePaused, pool
<1>. QED
  BY <1>1, <1>2, <1>3, <1>4, <1>5, <1>6, <1>7, <1>8, <1>9, <1>10 DEF Next, Run, Cancel

\* Every reachable state of the downloads is type correct; the error channel of a
\* job never holds more than its capacity.
THEOREM DownloadTypeCorrect == Spec => []TypeOK
<1>1. Init => TypeOK
  BY DownloadAssumption DEF Init, TypeOK, Stages, JobStatus, PoolState
<1>. QED
  BY <1>1, TypeStep, PTL DEF Spec

-----------------------------------------------------------------------------
(***************************************************************************)
(* What a step leaves alone.                                               *)
(***************************************************************************)

\* Requests do not change, a cancelled job stays so, and a job that has passed
\* its refusal does not come back to it: who is alone on a path was so before.
LEMMA StillAlone ==
  ASSUME TypeOK, [Next]_vars, NEW j \in Jobs
  PROVE  /\ request' = request /\ cancelled \subseteq cancelled'
         /\ Alone(j)' => Alone(j)
<1>1. request' = request /\ cancelled \subseteq cancelled'
  BY DEF Next, Run, Worker, Cancel, Refuse, CreateJob, Register, Open, CannotOpen, Verdict,
         Conclude, Leave, Take, Exit, FetchAndWrite, Fail, Report, CancelUpload, CancelJob,
         CancelAllJobs, CancelNext, NoMoreJobs, WritePaused, Withdraw, poolRest, vars
<1>2. ASSUME NEW i \in Jobs, pc'[i] \in {"new", "refused"}
      PROVE  pc[i] \in {"new", "refused"}
  BY <1>2 DEF Next, Run, Worker, Cancel, Refuse, CreateJob, Register, Open, CannotOpen,
         Verdict, Conclude, Leave, Take, Exit, FetchAndWrite, Fail, Report, CancelUpload,
         CancelJob, CancelAllJobs, CancelNext, NoMoreJobs, WritePaused, Withdraw, poolRest,
         vars, Goto, TypeOK
<1>. QED
  BY <1>1, <1>2 DEF Alone, Path

\* Only Open(j) and the goroutines of j touch the pool of j.
LEMMA PoolFrame ==
  ASSUME TypeOK, [Next]_vars, NEW j \in Jobs, ~Open(j), \A w \in Workers : ~Worker(j, w)
  PROVE  worker'[j] = worker[j] /\ queue'[j] = queue[j] /\ errs'[j] = errs[j]
<1>1. ASSUME NEW i \in Jobs, NEW w \in Workers, Worker(i, w)
      PROVE  worker'[j] = worker[j] /\ queue'[j] = queue[j] /\ errs'[j] = errs[j]
  BY <1>1 DEF Worker, Take, Exit, FetchAndWrite, Fail, Report, Move, TypeOK
<1>2. ASSUME NEW i \in Jobs, Open(i)
      PROVE  worker'[j] = worker[j] /\ queue'[j] = queue[j] /\ errs'[j] = errs[j]
  BY <1>2 DEF Open, TypeOK
<1>3. CASE UNCHANGED pool
  BY <1>3 DEF pool
<1>. QED
  BY <1>1, <1>2, <1>3 DEF Next, Run, Cancel, Refuse, CreateJob, Register, CannotOpen, Verdict,
         Conclude, Leave, CancelUpload, CancelJob, CancelAllJobs, CancelNext, NoMoreJobs,
         WritePaused, Withdraw, vars

\* Goroutines do not move runDownload, and only Open(j) starts the pool of j.
LEMMA StillRunning ==
  ASSUME TypeOK, [Next]_vars, NEW j \in Jobs, pc'[j] = "running", ~Open(j)
  PROVE  pc[j] = "running"
<1>1. pc \in [Jobs -> Stages]
  BY DEF TypeOK
<1>2. ASSUME NEW i \in Jobs, NEW l \in {"refused", "register", "open", "leave", "ended"},
             Goto(i, l)
      PROVE  pc[j] = "running"
  BY <1>1, <1>2 DEF Goto
<1>3. ASSUME NEW i \in Jobs, Open(i)
      PROVE  pc[j] = "running"
  BY <1>1, <1>3 DEF Open, Goto
<1>4. CASE pc' = pc
  BY <1>4
<1>. QED
  BY <1>2, <1>3, <1>4
     DEF Next, Run, Worker, Cancel, Refuse, CreateJob, Register, CannotOpen, Verdict,
         Conclude, Leave, Take, Exit, FetchAndWrite, Fail, Report, CancelUpload, CancelJob,
         CancelAllJobs, CancelNext, NoMoreJobs, WritePaused, Withdraw, poolRest, vars

\* What a job that is alone on its path has written stays written.
LEMMA StaysWritten ==
  ASSUME Ind, [Next]_vars, NEW j \in Jobs, Alone(j)', pc[j] \in {"running", "leave", "ended"},
         NEW r \in RowsOf(j), Written(j, r)
  PROVE  Written(j, r)'
<1>. USE DEF Ind
<1>1. request' = request /\ TypeOK'
  BY StillAlone, TypeStep
<1>2. Path(j) \in Paths /\ r \in Rows /\ File(j)' = File(j) /\ Path(j)' = Path(j)
  BY <1>1, RequestType DEF File, Path
<1>3. ASSUME NEW i \in Jobs \ {j}, pc'[i] = "running"
      PROVE  Path(i) # Path(j)
  BY <1>1, <1>3 DEF Alone, Path
<1>4. ASSUME NEW i \in Jobs, Open(i)
      PROVE  Written(j, r)'
  <2>1. i # j
    BY <1>4 DEF Open
  <2>2. Path(i) # Path(j)
    BY <1>3, <1>4, <2>1 DEF Open, Goto, TypeOK
  <2>. QED
    BY <1>2, <1>4, <2>2 DEF Open, Written, TypeOK
<1>5. ASSUME NEW i \in Jobs, NEW w \in Workers, FetchAndWrite(i, w)
      PROVE  Written(j, r)'
  <2>1. CASE i = j
    BY <1>2, <1>5, <2>1 DEF FetchAndWrite, Written, TypeOK, Rows
  <2>2. CASE i # j
    <3>1. pc[i] = "running"
      BY <1>5 DEF FetchAndWrite, Idle
    <3>2. Path(i) # Path(j)
      BY <1>3, <1>5, <2>2, <3>1 DEF FetchAndWrite, poolRest
    <3>. QED
      BY <1>2, <1>5, <3>2 DEF FetchAndWrite, Written, TypeOK
  <2>. QED
    BY <2>1, <2>2
<1>6. CASE dest' = dest
  BY <1>2, <1>6 DEF Written
<1>. QED
  BY <1>4, <1>5, <1>6 DEF Next, Run, Worker, Cancel, Refuse, CreateJob, Register, CannotOpen,
         Verdict, Conclude, Leave, Take, Exit, Fail, Report, CancelUpload, CancelJob,
         CancelAllJobs, CancelNext, NoMoreJobs, WritePaused, Withdraw, pool, vars

\* A pool that a step leaves undisturbed was undisturbed, or was not there.
LEMMA UndisturbedBefore ==
  ASSUME TypeOK, [Next]_vars, NEW j \in Jobs, Undisturbed(j)', ~Open(j)
  PROVE  Undisturbed(j)
<1>1. pc[j] = "running" /\ j \notin cancelled
  BY StillRunning, StillAlone DEF Undisturbed
<1>2. ~Reported(j)
  <2>1. ASSUME NEW w \in Workers, Worker(j, w)
        PROVE  ~Reported(j)
    <3>1. worker \in [Jobs -> [Workers -> PoolState]] /\ errs \in [Jobs -> 0 .. WorkerCount]
      BY DEF TypeOK
    <3>2. CASE Take(j, w) \/ Exit(j, w) \/ FetchAndWrite(j, w) \/ Fail(j, w)
      <4>1. errs'[j] = errs[j] /\ worker[j][w].at # "report"
        BY <3>2 DEF Take, Exit, FetchAndWrite, Fail
      <4>2. \A v \in Workers \ {w} : worker'[j][v] = worker[j][v]
        BY <3>1, <3>2 DEF Take, Exit, FetchAndWrite, Fail, Move
      <4>. QED
        BY <4>1, <4>2 DEF Undisturbed, Reported
    <3>3. CASE Report(j, w)
      <4>1. errs'[j] > 0
        BY <3>1, <3>3, DownloadAssumption DEF Report
      <4>. QED
        BY <4>1 DEF Undisturbed, Reported
    <3>. QED
      BY <2>1, <3>2, <3>3 DEF Worker
  <2>2. CASE \A w \in Workers : ~Worker(j, w)
    BY <2>2, PoolFrame DEF Undisturbed, Reported
  <2>. QED
    BY <2>1, <2>2
<1>. QED
  BY <1>1, <1>2 DEF Undisturbed

-----------------------------------------------------------------------------
(***************************************************************************)
(* The parts of the invariant, one by one.                                 *)
(***************************************************************************)

\* No row is lost.
LEMMA NothingLostStep == ASSUME Ind, [Next]_vars, NEW j \in Jobs PROVE NothingLost(j)'
<1>. USE DEF Ind
<1>1. request' = request /\ RowsOf(j)' = RowsOf(j) /\ File(j)' = File(j) /\ Path(j)' = Path(j)
  BY StillAlone DEF RowsOf, File, Path
<1>. SUFFICES ASSUME Undisturbed(j)', Alone(j)', NEW r \in RowsOf(j)
              PROVE  r \in queue'[j] \/ InHand(j, r)' \/ Written(j, r)'
  BY <1>1 DEF NothingLost
<1>2. CASE Open(j)
  BY <1>2 DEF Open, TypeOK
<1>3. CASE ~Open(j)
  <2>1. Undisturbed(j) /\ Alone(j)
    BY <1>3, UndisturbedBefore, StillAlone
  <2>2. r \in queue[j] \/ InHand(j, r) \/ Written(j, r)
    BY <2>1 DEF NothingLost
  <2>3. Written(j, r) => Written(j, r)'
    BY <2>1, StaysWritten DEF Undisturbed
  <2>4. CASE \A w \in Workers : ~Worker(j, w)
    BY <1>3, <2>2, <2>3, <2>4, PoolFrame DEF InHand
  <2>5. ASSUME NEW w \in Workers, Take(j, w)
        PROVE  r \in queue'[j] \/ InHand(j, r)' \/ Written(j, r)'
    BY <2>2, <2>3, <2>5 DEF Take, InHand, TypeOK
  <2>6. ASSUME NEW w \in Workers, Exit(j, w)
        PROVE  r \in queue'[j] \/ InHand(j, r)' \/ Written(j, r)'
    BY <2>2, <2>3, <2>6 DEF Exit, Move, InHand, TypeOK
  <2>7. ASSUME NEW w \in Workers, FetchAndWrite(j, w)
        PROVE  r \in queue'[j] \/ InHand(j, r)' \/ Written(j, r)'
    <3>1. CASE worker[j][w].row = r
      <4>1. r[1] \in Parts /\ Path(j) \in Paths
        BY RequestType DEF Rows
      <4>2. dest'[Path(j)][r[1]] = File(j)
        BY <2>7, <3>1, <4>1 DEF FetchAndWrite, TypeOK
      <4>. QED
        BY <1>1, <4>2 DEF Written
    <3>2. CASE worker[j][w].row # r
      BY <2>2, <2>3, <2>7, <3>2 DEF FetchAndWrite, Move, InHand, TypeOK
    <3>. QED
      BY <3>1, <3>2
  <2>8. ASSUME NEW w \in Workers, Fail(j, w) \/ Report(j, w)
        PROVE  FALSE
    BY <2>1, <2>8 DEF Fail, Report, Move, Undisturbed, Reported, TypeOK
  <2>. QED
    BY <2>4, <2>5, <2>6, <2>7, <2>8 DEF Worker
<1>. QED
  BY <1>2, <1>3

\* Somebody is left to take the rest.
LEMMA StaffedStep == ASSUME Ind, [Next]_vars, NEW j \in Jobs PROVE Staffed(j)'
<1>. USE DEF Ind
<1>. SUFFICES ASSUME Undisturbed(j)', queue'[j] # {}
              PROVE  \E w \in Workers : worker'[j][w].at \in {"select", "fetch"}
  BY DEF Staffed
<1>1. CASE Open(j)
  <2>1. 1 \in Workers /\ 1 <= Cardinality(RowsOf(j))
    BY SomeRow, DownloadAssumption DEF Workers
  <2>2. worker'[j][1].at = "select"
    BY <1>1, <2>1 DEF Open, TypeOK
  <2>. QED
    BY <2>1, <2>2
<1>2. CASE ~Open(j)
  <2>1. Undisturbed(j)
    BY <1>2, UndisturbedBefore
  <2>2. CASE \A w \in Workers : ~Worker(j, w)
    BY <1>2, <2>1, <2>2, PoolFrame DEF Staffed
  <2>3. ASSUME NEW w \in Workers, Take(j, w) \/ FetchAndWrite(j, w)
        PROVE  worker'[j][w].at \in {"select", "fetch"}
    BY <2>3 DEF Take, FetchAndWrite, Move, TypeOK
  <2>4. ASSUME NEW w \in Workers, Exit(j, w)
        PROVE  FALSE
    BY <2>1, <2>4 DEF Exit, Undisturbed
  <2>5. ASSUME NEW w \in Workers, Fail(j, w) \/ Report(j, w)
        PROVE  FALSE
    BY <2>1, <2>5 DEF Fail, Report, Move, Undisturbed, Reported, TypeOK
  <2>. QED
    BY <2>2, <2>3, <2>4, <2>5 DEF Worker
<1>. QED
  BY <1>1, <1>2

\* Goroutines live inside wg.Wait.
LEMMA IdleStep == ASSUME Ind, [Next]_vars, NEW j \in Jobs PROVE Idle(j)'
<1>. USE DEF Ind
<1>1. CASE Open(j)
  BY <1>1 DEF Open, Goto, Idle, TypeOK
<1>2. ASSUME NEW w \in Workers, Worker(j, w)
      PROVE  Idle(j)'
  <2>1. pc[j] = "running" /\ pc' = pc
    BY <1>2 DEF Worker, Take, Exit, FetchAndWrite, Fail, Report, Idle, poolRest
  <2>. QED
    BY <2>1 DEF Idle
<1>3. CASE ~Open(j) /\ \A w \in Workers : ~Worker(j, w)
  <2>1. worker'[j] = worker[j]
    BY <1>3, PoolFrame
  <2>2. CASE pc'[j] = pc[j] \/ pc[j] # "running"
    BY <2>1, <2>2, <1>3, StillRunning DEF Idle
  <2>3. CASE pc'[j] # pc[j] /\ pc[j] = "running"
    <3>1. Joined(j)
      BY <2>3 DEF Next, Run, Worker, Cancel, Refuse, CreateJob, Register, Open, CannotOpen,
           Verdict, Conclude, Leave, Take, Exit, FetchAndWrite, Fail, Report, CancelUpload,
           CancelJob, CancelAllJobs, CancelNext, NoMoreJobs, WritePaused, Withdraw, poolRest,
           vars, Goto, TypeOK
    <3>. QED
      BY <2>1, <3>1 DEF Joined, Idle
  <2>. QED
    BY <2>2, <2>3
<1>. QED
  BY <1>1, <1>2, <1>3

\* A job becomes COMPLETED only by its verdict, without an error.
LEMMA OnlyVerdict ==
  ASSUME TypeOK, [Next]_vars, NEW j \in Jobs, status'[j] = "COMPLETED", status[j] # "COMPLETED"
  PROVE  Joined(j) /\ errs[j] = 0 /\ dest' = dest /\ pc'[j] = "leave"
<1>1. ASSUME NEW i \in Jobs, Verdict(i)
      PROVE  Joined(j) /\ errs[j] = 0 /\ dest' = dest /\ pc'[j] = "leave"
  BY <1>1, DownloadAssumption
     DEF Verdict, Joined, Conclude, SetStatus, Goto, pool, TypeOK
<1>2. ASSUME NEW i \in Jobs, NEW st \in {"FAILED", "PAUSED"}, SetStatus(i, st)
      PROVE  FALSE
  BY <1>2 DEF SetStatus, TypeOK
<1>3. ASSUME NEW i \in Jobs, CreateJob(i)
      PROVE  FALSE
  BY <1>3 DEF CreateJob, TypeOK
<1>4. CASE WritePaused
  BY <1>4 DEF WritePaused, SetStatus, TypeOK
<1>5. status' # status
  OBVIOUS
<1>. QED
  BY <1>1, <1>2, <1>3, <1>4, <1>5
     DEF Next, Run, Worker, Cancel, Refuse, Register, Open, CannotOpen, Conclude, Leave, Take,
         Exit, FetchAndWrite, Fail, Report, CancelUpload, CancelJob, CancelAllJobs,
         CancelNext, NoMoreJobs, Withdraw, poolRest, vars

\* COMPLETED is written last.
LEMMA ConcludedStep == ASSUME Ind, [Next]_vars, NEW j \in Jobs PROVE Concluded(j)'
<1>. USE DEF Ind
<1>. SUFFICES ASSUME status'[j] = "COMPLETED" PROVE pc'[j] \in {"leave", "ended"}
  BY DEF Concluded
<1>1. CASE status[j] # "COMPLETED"
  BY <1>1, OnlyVerdict
<1>2. CASE status[j] = "COMPLETED"
  <2>1. pc[j] \in {"leave", "ended"}
    BY <1>2 DEF Concluded
  <2>. QED
    BY <2>1 DEF Next, Run, Worker, Cancel, Refuse, CreateJob, Register, Open, CannotOpen,
           Verdict, Conclude, Joined, Leave, Take, Exit, FetchAndWrite, Fail, Report,
           CancelUpload, CancelJob, CancelAllJobs, CancelNext, NoMoreJobs, WritePaused,
           Withdraw, poolRest, vars, Goto, TypeOK
<1>. QED
  BY <1>1, <1>2

\* An undisturbed pool whose goroutines have ended has written every row.
LEMMA JoinedIsWritten ==
  ASSUME Ind, NEW j \in Jobs, Joined(j), errs[j] = 0, j \notin cancelled, Alone(j),
         NEW r \in RowsOf(j)
  PROVE  Written(j, r)
<1>. USE DEF Ind
<1>1. Undisturbed(j)
  BY DEF Joined, Undisturbed, Reported
<1>2. queue[j] = {}
  BY <1>1 DEF Joined, Staffed
<1>3. ~InHand(j, r)
  BY DEF Joined, InHand
<1>. QED
  BY <1>1, <1>2, <1>3 DEF NothingLost

\* COMPLETED and not cancelled means written.
LEMMA DoneStep == Ind /\ [Next]_vars => DoneMeansWritten'
<1>. SUFFICES ASSUME Ind, [Next]_vars, NEW j \in Jobs, status'[j] = "COMPLETED",
                     j \notin cancelled', Alone(j)', NEW r \in RowsOf(j)
              PROVE  Written(j, r)'
  BY StillAlone DEF DoneMeansWritten, Written, RowsOf, Ind
<1>. USE DEF Ind
<1>1. request' = request /\ j \notin cancelled /\ Alone(j)
  BY StillAlone
<1>2. CASE status[j] # "COMPLETED"
  <2>1. Joined(j) /\ errs[j] = 0 /\ dest' = dest
    BY <1>2, OnlyVerdict
  <2>2. Written(j, r)
    BY <1>1, <2>1, JoinedIsWritten
  <2>. QED
    BY <1>1, <2>1, <2>2 DEF Written, Path, File
<1>3. CASE status[j] = "COMPLETED"
  <2>1. Written(j, r) /\ pc[j] \in {"leave", "ended"}
    BY <1>1, <1>3 DEF DoneMeansWritten, Written, Concluded
  <2>. QED
    BY <2>1, StaysWritten
<1>. QED
  BY <1>2, <1>3

\* The downloads start in the invariant ...
LEMMA IndInit == Init => Ind
<1>. SUFFICES ASSUME Init PROVE Ind
  OBVIOUS
<1>1. TypeOK
  BY DownloadAssumption DEF Init, TypeOK, Stages, JobStatus, PoolState
<1>. QED
  BY <1>1 DEF Init, Ind, NothingLost, Staffed, Undisturbed, Idle, Concluded, DoneMeansWritten

\* ... and no step leaves it.
LEMMA IndStep == Ind /\ [Next]_vars => Ind'
  BY TypeStep, NothingLostStep, StaffedStep, IdleStep, ConcludedStep, DoneStep DEF Ind

\* A COMPLETED job that was not cancelled, and shares its path with no other job,
\* has written every stored part, for any number of jobs and goroutines.
THEOREM DownloadWritten == Spec => []DoneMeansWritten
<1>1. Ind => DoneMeansWritten
  BY DEF Ind
<1>. QED
  BY <1>1, IndInit, IndStep, PTL DEF Spec

-----------------------------------------------------------------------------
(***************************************************************************)
(* The verdict of a job that nobody cancelled.                             *)
(***************************************************************************)

\* Goroutines of j with a row in hand, or with its error.
Busy(j) == {w \in Workers : worker[j][w].at \in {"fetch", "report"}}

\* Nobody has asked for a cancel.
Quiet == cancels = 0 => canceller.at = "idle" /\ cancelled = {}

\* Every row is written, in the channel, in a goroutine's hand or an error.
Counted(j) ==
  pc[j] = "running" /\ j \notin cancelled =>
    done[j] + Cardinality(queue[j]) + Cardinality(Busy(j)) + errs[j] = Cardinality(RowsOf(j))

\* What is known of a job before, while and after its pool works.
Fair(j) ==
  /\ IsFiniteSet(queue[j])
  /\ pc[j] \in {"new", "register", "open"} => done[j] = 0 /\ errs[j] = 0
  /\ pc[j] \in {"register", "open", "running"} /\ faults = 0 => status[j] # "NONE"
  /\ Counted(j)

Told(j) ==
  pc[j] \in {"leave", "ended"} /\ cancels = 0 /\ faults = 0 =>
    status[j] = IF done[j] = Cardinality(RowsOf(j)) THEN "COMPLETED" ELSE "FAILED"

VerdictInv == Ind /\ Quiet /\ \A j \in Jobs : Fair(j) /\ Told(j)

\* The goroutines are finitely many.
LEMMA BusyFinite ==
  ASSUME TypeOK, NEW j \in Jobs
  PROVE  IsFiniteSet(Busy(j)) /\ Cardinality(Busy(j)) \in Nat
<1>1. IsFiniteSet(Workers)
  BY DownloadAssumption, FS_Interval DEF Workers
<1>2. Busy(j) \subseteq Workers
  BY DEF Busy
<1>. QED
  BY <1>1, <1>2, FS_Subset, FS_CardinalityType

\* Failures and cancels are only counted up.
LEMMA Counting ==
  ASSUME TypeOK, [Next]_vars
  PROVE  /\ cancels' = 0 => cancels = 0
         /\ faults' = 0 => faults' = faults
<1>1. faults \in Nat /\ cancels \in Nat
  BY DEF TypeOK
<1>2. faults' = faults \/ faults' = faults + 1
  BY DEF Next, Run, Worker, Cancel, Refuse, CreateJob, Register, Open, CannotOpen, Verdict,
         Conclude, Leave, Take, Exit, FetchAndWrite, Fail, Report, CancelUpload, CancelJob,
         CancelAllJobs, CancelNext, NoMoreJobs, WritePaused, Withdraw, poolRest, bounds, vars,
         SetStatus, Ok, Fault
<1>3. cancels' = cancels \/ cancels' = cancels + 1
  BY DEF Next, Run, Worker, Cancel, Refuse, CreateJob, Register, Open, CannotOpen, Verdict,
         Conclude, Leave, Take, Exit, FetchAndWrite, Fail, Report, CancelUpload, CancelJob,
         CancelAllJobs, CancelNext, NoMoreJobs, WritePaused, Withdraw, poolRest, bounds, vars,
         CancelRequest
<1>. QED
  BY <1>1, <1>2, <1>3

\* The cancel handler sleeps until somebody asks for a cancel.
LEMMA QuietStep == ASSUME TypeOK, Quiet, [Next]_vars PROVE Quiet'
<1>. SUFFICES ASSUME cancels' = 0 PROVE canceller'.at = "idle" /\ cancelled' = {}
  BY DEF Quiet
<1>1. cancels = 0 /\ canceller.at = "idle" /\ cancelled = {}
  BY Counting DEF Quiet
<1>2. ~CancelRequest
  BY <1>1 DEF CancelRequest
<1>. QED
  BY <1>1, <1>2
  DEF Next, Run, Worker, Cancel, Refuse, CreateJob, Register, Open, CannotOpen, Verdict,
      Conclude, Leave, Take, Exit, FetchAndWrite, Fail, Report, CancelUpload, CancelJob,
      CancelAllJobs, CancelNext, NoMoreJobs, WritePaused, Withdraw, poolRest, bounds, vars

\* A step that is not of job j.
LEMMA FairStays ==
  ASSUME TypeOK, [Next]_vars, NEW j \in Jobs, Fair(j), Told(j), request' = request,
         pc'[j] = pc[j], queue'[j] = queue[j], worker'[j] = worker[j],
         errs'[j] = errs[j], done'[j] = done[j], cancelled \subseteq cancelled',
         status'[j] = "NONE" => status[j] = "NONE",
         cancels' = 0 => status'[j] = status[j]
  PROVE  Fair(j)' /\ Told(j)'
<1>1. Busy(j)' = Busy(j) /\ RowsOf(j)' = RowsOf(j)
  BY DEF Busy, RowsOf
<1>. QED
  BY <1>1, Counting DEF Fair, Told, Counted

\* A goroutine of j: a row changes hands.
LEMMA WorkerFair ==
  ASSUME Ind, NEW j \in Jobs, NEW w \in Workers, Fair(j), Worker(j, w), TypeOK'
  PROVE  Fair(j)' /\ Told(j)'
<1>. USE DEF Ind
<1>0. /\ pc[j] = "running" /\ pc' = pc /\ UNCHANGED <<request, status, cancelled, faults>>
      /\ worker[j][w].at \in {"select", "fetch", "report"}
      /\ \A v \in Workers \ {w} : worker'[j][v] = worker[j][v]
  BY DEF Worker, Take, Exit, FetchAndWrite, Fail, Report, Move, Idle, poolRest, bounds, TypeOK
<1>1. RowsOf(j)' = RowsOf(j)
  BY <1>0 DEF RowsOf
<1>2. /\ IsFiniteSet(Busy(j)) /\ Cardinality(Busy(j)) \in Nat
      /\ IsFiniteSet(queue[j]) /\ Cardinality(queue[j]) \in Nat
      /\ errs[j] \in Nat /\ done[j] \in Nat /\ Cardinality(RowsOf(j)) \in Nat
  <2>1. IsFiniteSet(queue[j]) /\ Cardinality(queue[j]) \in Nat
    BY FS_CardinalityType DEF Fair
  <2>2. errs[j] \in Nat /\ done[j] \in Nat
    BY DownloadAssumption DEF TypeOK
  <2>. QED
    BY <2>1, <2>2, BusyFinite, SomeRow
<1>3. SUFFICES /\ IsFiniteSet(queue'[j])
               /\ j \notin cancelled =>
                    done'[j] + Cardinality(queue'[j]) + Cardinality(Busy(j)') + errs'[j] =
                      done[j] + Cardinality(queue[j]) + Cardinality(Busy(j)) + errs[j]
  BY <1>0, <1>1 DEF Fair, Told, Counted
<1>4. CASE Take(j, w)
  <2>1. PICK r \in queue[j] : queue'[j] = queue[j] \ {r} /\ worker'[j][w].at = "fetch"
    BY <1>4 DEF Take, TypeOK
  <2>2. Busy(j)' = Busy(j) \cup {w} /\ w \notin Busy(j)
    BY <1>0, <1>4, <2>1 DEF Busy, Take
  <2>3. /\ IsFiniteSet(queue'[j]) /\ Cardinality(queue'[j]) = Cardinality(queue[j]) - 1
        /\ Cardinality(Busy(j)') = Cardinality(Busy(j)) + 1
    <3>1. IsFiniteSet(queue'[j]) /\ Cardinality(queue'[j]) = Cardinality(queue[j]) - 1
      <4>1. /\ IsFiniteSet(queue[j] \ {r})
            /\ Cardinality(queue[j] \ {r}) = Cardinality(queue[j]) - 1
        BY <1>2, FS_RemoveElement
      <4>. QED
        BY <2>1, <4>1
    <3>2. Cardinality(Busy(j)') = Cardinality(Busy(j)) + 1
      BY <1>2, <2>2, FS_AddElement
    <3>. QED
      BY <3>1, <3>2
  <2>4. done'[j] = done[j] /\ errs'[j] = errs[j]
    BY <1>4 DEF Take
  <2>. QED
    BY <1>2, <2>3, <2>4
<1>5. CASE Exit(j, w)
  <2>1. worker'[j][w].at = "exit" /\ worker[j][w].at = "select"
    BY <1>5 DEF Exit, Move, TypeOK
  <2>2. Busy(j)' = Busy(j)
    BY <1>0, <2>1 DEF Busy
  <2>. QED
    BY <1>2, <1>5, <2>2 DEF Exit
<1>6. CASE FetchAndWrite(j, w)
  <2>1. /\ worker'[j][w].at = "select" /\ worker[j][w].at = "fetch" /\ done'[j] = done[j] + 1
        /\ queue' = queue /\ errs' = errs
    BY <1>6 DEF FetchAndWrite, Move, TypeOK
  <2>2. Busy(j)' = Busy(j) \ {w} /\ w \in Busy(j)
    BY <1>0, <2>1 DEF Busy
  <2>3. Cardinality(Busy(j)') = Cardinality(Busy(j)) - 1
    BY <1>2, <2>2, FS_RemoveElement
  <2>. QED
    BY <1>2, <2>1, <2>3
<1>7. CASE Fail(j, w)
  <2>1. worker'[j][w].at = "report" /\ worker[j][w].at = "fetch"
    BY <1>7 DEF Fail, Move, TypeOK
  <2>2. Busy(j)' = Busy(j)
    BY <1>0, <2>1 DEF Busy
  <2>. QED
    BY <1>2, <1>7, <2>2 DEF Fail
<1>8. CASE Report(j, w)
  <2>1. /\ worker'[j][w].at = "exit" /\ worker[j][w].at = "report" /\ errs'[j] = errs[j] + 1
        /\ queue' = queue /\ done' = done
    BY <1>8 DEF Report, Move, TypeOK
  <2>2. Busy(j)' = Busy(j) \ {w} /\ w \in Busy(j)
    BY <1>0, <2>1 DEF Busy
  <2>3. Cardinality(Busy(j)') = Cardinality(Busy(j)) - 1
    BY <1>2, <2>2, FS_RemoveElement
  <2>. QED
    BY <1>2, <2>1, <2>3
<1>. QED
  BY <1>4, <1>5, <1>6, <1>7, <1>8 DEF Worker

\* The pool of j begins with every row in its channel.
LEMMA OpenFair ==
  ASSUME TypeOK, NEW j \in Jobs, Fair(j), Open(j)
  PROVE  Fair(j)' /\ Told(j)'
<1>1. /\ pc[j] = "open" /\ pc'[j] = "running" /\ queue'[j] = RowsOf(j)
      /\ \A w \in Workers : worker'[j][w].at \in {"select", "exit"}
      /\ UNCHANGED <<request, status, cancelled, errs, done, faults>>
  BY DEF Open, Goto, TypeOK, bounds
<1>2. RowsOf(j)' = RowsOf(j) /\ IsFiniteSet(RowsOf(j)) /\ Cardinality(RowsOf(j)) \in Nat
  BY <1>1, DownloadAssumption, FS_CardinalityType DEF RowsOf, TypeOK
<1>3. Busy(j)' = {} /\ Cardinality({}) = 0
  BY <1>1, FS_EmptySet DEF Busy
<1>4. done'[j] = 0 /\ errs'[j] = 0
  BY <1>1 DEF Fair
<1>. QED
  BY <1>1, <1>2, <1>3, <1>4 DEF Fair, Told, Counted

\* The verdict counts what was written.
LEMMA VerdictFair ==
  ASSUME Ind, Quiet, Quiet', [Next]_vars, NEW j \in Jobs, Fair(j), CannotOpen(j) \/ Verdict(j)
  PROVE  Fair(j)' /\ Told(j)'
<1>. USE DEF Ind
<1>1. /\ pc[j] \in {"open", "running"} /\ pc'[j] = "leave"
      /\ UNCHANGED <<request, cancelled, queue, worker, errs, done, cancels>>
  BY DEF CannotOpen, Verdict, Joined, Conclude, Goto, TypeOK, pool
<1>2. RowsOf(j)' = RowsOf(j) /\ Cardinality(RowsOf(j)) \in Nat \ {0}
  BY <1>1, SomeRow DEF RowsOf
<1>3. Fair(j)'
  BY <1>1 DEF Fair, Counted
<1>4. ASSUME cancels' = 0, faults' = 0
      PROVE  status'[j] = IF done[j] = Cardinality(RowsOf(j)) THEN "COMPLETED" ELSE "FAILED"
  <2>1. cancels = 0 /\ faults = 0 /\ faults' = faults /\ j \notin cancelled
    BY <1>4, Counting DEF Quiet
  <2>2. status[j] # "NONE"
    BY <1>1, <2>1 DEF Fair
  <2>3. \A st : SetStatus(j, st) => status'[j] = st
    BY <2>1, <2>2 DEF SetStatus, Fault, TypeOK
  <2>4. CASE CannotOpen(j)
    BY <1>1, <1>2, <2>3, <2>4 DEF CannotOpen, Conclude, Fair
  <2>5. CASE Verdict(j)
    <3>1. pc[j] = "running" /\ \A w \in Workers : worker[j][w].at = "exit"
      BY <2>5 DEF Verdict, Joined
    <3>2. Busy(j) = {} /\ Cardinality({}) = 0
      BY <3>1, FS_EmptySet DEF Busy
    <3>3. done[j] + Cardinality(queue[j]) + 0 + errs[j] = Cardinality(RowsOf(j))
      BY <2>1, <3>1, <3>2 DEF Fair, Counted
    <3>4. /\ errs[j] \in Nat /\ done[j] \in Nat /\ Cardinality(queue[j]) \in Nat
      <4>1. Cardinality(queue[j]) \in Nat
        BY FS_CardinalityType DEF Fair
      <4>2. errs[j] \in Nat /\ done[j] \in Nat
        BY DownloadAssumption DEF TypeOK
      <4>. QED
        BY <4>1, <4>2
    <3>5. CASE errs[j] > 0
      BY <2>3, <2>5, <3>3, <3>4, <3>5, <1>2 DEF Verdict, Conclude
    <3>6. CASE errs[j] = 0
      <4>1. Undisturbed(j)
        BY <2>1, <3>1, <3>6 DEF Undisturbed, Reported
      <4>2. queue[j] = {}
        BY <3>1, <4>1 DEF Staffed
      <4>3. done[j] = Cardinality(RowsOf(j))
        BY <3>2, <3>3, <3>4, <3>6, <4>2
      <4>. QED
        BY <2>3, <2>5, <3>6, <4>3 DEF Verdict, Conclude
    <3>. QED
      BY <3>4, <3>5, <3>6
  <2>. QED
    BY <2>4, <2>5
<1>. QED
  BY <1>1, <1>2, <1>3, <1>4 DEF Told

\* A job that writes its row, registers, is refused or leaves.
LEMMA OwnStepFair ==
  ASSUME TypeOK, [Next]_vars, NEW j \in Jobs, Fair(j), Told(j),
         Refuse(j) \/ CreateJob(j) \/ Register(j) \/ Leave(j)
  PROVE  Fair(j)' /\ Told(j)'
<1>1. UNCHANGED <<request, queue, worker, errs, done>>
  BY DEF Refuse, CreateJob, Register, Leave, pool
<1>2. pc'[j] # "running"
  BY DEF Refuse, CreateJob, Register, Leave, Goto, TypeOK
<1>3. CASE Refuse(j)
  BY <1>1, <1>3 DEF Refuse, Fair, Told, Counted, Goto, TypeOK
<1>4. CASE CreateJob(j)
  <2>1. pc[j] = "new" /\ pc'[j] = "register"
    BY <1>4 DEF CreateJob, Goto, TypeOK
  <2>2. faults' = 0 => status'[j] = "ACTIVE"
    BY <1>4 DEF CreateJob, Ok, Fault, TypeOK
  <2>. QED
    BY <1>1, <2>1, <2>2 DEF Fair, Told, Counted
<1>5. CASE Register(j)
  <2>1. /\ pc[j] = "register" /\ pc'[j] = "open" /\ UNCHANGED <<status, faults>>
    BY <1>5 DEF Register, Goto, TypeOK, bounds
  <2>. QED
    BY <1>1, <2>1 DEF Fair, Told, Counted
<1>6. CASE Leave(j)
  <2>1. /\ pc[j] = "leave" /\ pc'[j] = "ended" /\ UNCHANGED <<status, faults, cancels>>
    BY <1>6 DEF Leave, Goto, TypeOK, bounds
  <2>. QED
    BY <1>1, <2>1 DEF Fair, Told, Counted, RowsOf
<1>. QED
  BY <1>3, <1>4, <1>5, <1>6

\* What other jobs and the cancel handler do to job j.
LEMMA OtherStep ==
  ASSUME TypeOK, Quiet, [Next]_vars, NEW j \in Jobs, ~Refuse(j), ~Run(j),
         \A w \in Workers : ~Worker(j, w)
  PROVE  /\ pc'[j] = pc[j] /\ done'[j] = done[j]
         /\ status'[j] = "NONE" => status[j] = "NONE"
         /\ cancels' = 0 => status'[j] = status[j]
<1>1. ASSUME NEW i \in Jobs \ {j}, Refuse(i) \/ Run(i) \/ \E w \in Workers : Worker(i, w)
      PROVE  pc'[j] = pc[j] /\ done'[j] = done[j] /\ status'[j] = status[j]
  <2>1. pc'[j] = pc[j]
    BY <1>1 DEF Refuse, Run, CreateJob, Register, Open, CannotOpen, Verdict, Conclude, Leave,
           Worker, Take, Exit, FetchAndWrite, Fail, Report, Goto, poolRest, TypeOK
  <2>2. done'[j] = done[j]
    BY <1>1 DEF Refuse, Run, CreateJob, Register, Open, CannotOpen, Verdict, Conclude, Leave,
           Worker, Take, Exit, FetchAndWrite, Fail, Report, poolRest, pool, TypeOK
  <2>3. \A st : SetStatus(i, st) => status'[j] = status[j]
    BY DEF SetStatus, TypeOK
  <2>4. status'[j] = status[j]
    BY <1>1, <2>3 DEF Refuse, Run, CreateJob, Register, Open, CannotOpen, Verdict, Conclude,
           Leave, Worker, Take, Exit, FetchAndWrite, Fail, Report, poolRest, TypeOK
  <2>. QED
    BY <2>1, <2>2, <2>4
<1>2. \A i \in Jobs : SetStatus(i, "PAUSED") => (status'[j] = "NONE" => status[j] = "NONE")
  BY DEF SetStatus, TypeOK
<1>3. ASSUME NEW i \in Jobs, CancelUpload(i)
      PROVE  /\ pc'[j] = pc[j] /\ done'[j] = done[j] /\ cancels' # 0
             /\ status'[j] = "NONE" => status[j] = "NONE"
  BY <1>2, <1>3 DEF CancelUpload, CancelRequest, pool, TypeOK
<1>4. CASE WritePaused
  <2>1. cancels' # 0
    BY <1>4 DEF WritePaused, Quiet
  <2>2. pc'[j] = pc[j] /\ done'[j] = done[j] /\ SetStatus(canceller.job, "PAUSED")
    BY <1>4 DEF WritePaused, pool
  <2>3. status'[j] = "NONE" => status[j] = "NONE"
    BY <2>2 DEF SetStatus, TypeOK
  <2>. QED
    BY <2>1, <2>2, <2>3
<1>5. CASE \/ CancelAllJobs \/ CancelJob \/ (\E i \in Jobs : CancelNext(i)) \/ NoMoreJobs
           \/ UNCHANGED vars
  BY <1>5 DEF CancelAllJobs, CancelJob, CancelNext, NoMoreJobs, Withdraw, pool, vars
<1>. QED
  BY <1>1, <1>3, <1>4, <1>5 DEF Next, Cancel

\* A job that nobody cancelled and whose statements did not fail is COMPLETED when it
\* has counted every row, and FAILED otherwise, for any number of jobs and goroutines.
THEOREM VerdictsAreHonest == Spec => []VerdictHonest
<1>1. Init => VerdictInv
  <2>. SUFFICES ASSUME Init PROVE VerdictInv
    OBVIOUS
  <2>1. Ind
    BY IndInit
  <2>2. \A j \in Jobs : queue[j] = {} /\ pc[j] = "new" /\ done[j] = 0 /\ errs[j] = 0
    BY DEF Init
  <2>. QED
    BY <2>1, <2>2, FS_EmptySet DEF Init, VerdictInv, Quiet, Fair, Told, Counted
<1>2. VerdictInv /\ [Next]_vars => VerdictInv'
  <2>. SUFFICES ASSUME VerdictInv, [Next]_vars PROVE VerdictInv'
    OBVIOUS
  <2>1. Ind /\ Ind' /\ TypeOK /\ TypeOK' /\ Quiet /\ Quiet'
    BY IndStep, QuietStep DEF VerdictInv, Ind
  <2>2. ASSUME NEW j \in Jobs PROVE Fair(j)' /\ Told(j)'
    <3>1. Fair(j) /\ Told(j)
      BY DEF VerdictInv
    <3>2. ASSUME NEW w \in Workers, Worker(j, w) PROVE Fair(j)' /\ Told(j)'
      BY <2>1, <3>1, <3>2, WorkerFair
    <3>3. CASE Open(j)
      BY <2>1, <3>1, <3>3, OpenFair
    <3>4. CASE CannotOpen(j) \/ Verdict(j)
      BY <2>1, <3>1, <3>4, VerdictFair
    <3>5. CASE Refuse(j) \/ CreateJob(j) \/ Register(j) \/ Leave(j)
      BY <2>1, <3>1, <3>5, OwnStepFair
    <3>6. CASE ~Refuse(j) /\ ~Run(j) /\ \A w \in Workers : ~Worker(j, w)
      <4>1. /\ worker'[j] = worker[j] /\ queue'[j] = queue[j] /\ errs'[j] = errs[j]
            /\ request' = request /\ cancelled \subseteq cancelled'
        BY <2>1, <3>6, PoolFrame, StillAlone DEF Run
      <4>2. /\ pc'[j] = pc[j] /\ done'[j] = done[j]
            /\ status'[j] = "NONE" => status[j] = "NONE"
            /\ cancels' = 0 => status'[j] = status[j]
        BY <2>1, <3>6, OtherStep
      <4>. QED
        BY <2>1, <3>1, <4>1, <4>2, FairStays
    <3>. QED
      BY <3>2, <3>3, <3>4, <3>5, <3>6 DEF Run
  <2>. QED
    BY <2>1, <2>2 DEF VerdictInv
<1>3. VerdictInv => VerdictHonest
  BY DEF VerdictInv, Told, VerdictHonest
<1>. QED
  BY <1>1, <1>2, <1>3, PTL DEF Spec
=============================================================================
