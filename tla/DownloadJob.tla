----------------------------- MODULE DownloadJob -----------------------------
(***************************************************************************)
(* Downloading a stored file to a local path: DownloadFile, runDownload    *)
(* and CancelJob of internal/downloader, and the cancel handler, for any   *)
(* number of jobs, which may write to the same local path.                 *)
(***************************************************************************)
EXTENDS Naturals, FiniteSets

CONSTANTS
  Jobs,         (* download requests; each names its job                  *)
  Files,        (* stored files                                           *)
  Paths,        (* local destinations                                     *)
  Parts,        (* part numbers                                           *)
  Copies,       (* replicas of a part                                     *)
  Requests,     (* what the jobs may ask for, see DownloadAssumption      *)
  WorkerCount,  (* Engine.workerCount, also the capacity of errChan       *)
  MaxFaults,    (* bound: catalog statements that fail                    *)
  MaxCancels,   (* bound: cancel requests                                 *)
  None          (* zero bytes; no row; no job                             *)

ASSUME DownloadAssumption ==
  /\ Requests \subseteq [Jobs -> [file : Files, path : Paths,
                                 rows : SUBSET (Parts \X Copies)]]
  /\ \A r \in Requests, j \in Jobs : r[j].rows # {} /\ IsFiniteSet(r[j].rows)
  /\ WorkerCount \in Nat \ {0}
  /\ MaxFaults \in Nat /\ MaxCancels \in Nat
  /\ None \notin Files \cup Jobs

Workers == 1 .. WorkerCount
Rows    == Parts \X Copies

VARIABLES
  request,    \* what each job downloads: COMPLETED rows of a file, to a path
  pc,         \* where DownloadFile and then runDownload are
  status,     \* table jobs: status of each job, "NONE" without a row
  active,     \* Engine.activeJobs
  cancelled,  \* jobs whose context is cancelled
  queue,      \* chunkChan of each job: rows nobody has taken yet
  worker,     \* goroutines of each job: what they do, with which row
  errs,       \* errors in errChan of each job
  done,       \* completedCount of each job
  dest,       \* what each part of each local file holds
  canceller,  \* the cancel handler
  faults, cancels  \* see MaxFaults, MaxCancels

pool == <<queue, worker, errs, done, dest>>
bounds == <<faults, cancels>>
vars == <<request, pc, status, active, cancelled, pool, canceller, bounds>>

File(j) == request[j].file
Path(j) == request[j].path
RowsOf(j) == request[j].rows
Goto(j, l) == pc' = [pc EXCEPT ![j] = l]

Ok    == UNCHANGED faults
Fault == faults < MaxFaults /\ faults' = faults + 1

\* UpdateJobStatus: unconditional; without a row it changes nothing, and its
\* error is dropped.
SetStatus(j, st) ==
  \/ /\ status' = [status EXCEPT ![j] = IF @ = "NONE" THEN @ ELSE st]
     /\ Ok
  \/ UNCHANGED status /\ Fault

\* Engine.mu, which CancelJob and CancelAllJobs hold until they have written
\* PAUSED, is free.
EngineFree == canceller.at \notin {"all", "locked"}

Init ==
  /\ request \in Requests
  /\ pc = [j \in Jobs |-> "new"]
  /\ status = [j \in Jobs |-> "NONE"]
  /\ active = {} /\ cancelled = {}
  /\ queue = [j \in Jobs |-> {}]
  /\ worker = [j \in Jobs |-> [w \in Workers |-> [at |-> "off", row |-> None]]]
  /\ errs = [j \in Jobs |-> 0]
  /\ done = [j \in Jobs |-> 0]
  /\ dest = [p \in Paths |-> [i \in Parts |-> None]]
  /\ canceller = [at |-> "idle", job |-> None, all |-> FALSE]
  /\ faults = 0 /\ cancels = 0

-----------------------------------------------------------------------------
(***************************************************************************)
(* DownloadFile.                                                           *)
(***************************************************************************)

\* The drive is locked, the file is unknown, a folder or has no stored part, or
\* the disk is too small.
Refuse(j) ==
  /\ pc[j] = "new"
  /\ Goto(j, "refused")
  /\ UNCHANGED <<request, status, active, cancelled, pool, canceller, bounds>>

\* The error of CreateJob is dropped: the job may run without a row.
CreateJob(j) ==
  /\ pc[j] = "new"
  /\ \/ status' = [status EXCEPT ![j] = "ACTIVE"] /\ Ok
     \/ UNCHANGED status /\ Fault
  /\ Goto(j, "register")
  /\ UNCHANGED <<request, active, cancelled, pool, canceller, cancels>>

Register(j) ==
  /\ pc[j] = "register" /\ EngineFree
  /\ active' = active \cup {j}
  /\ Goto(j, "open")
  /\ UNCHANGED <<request, status, cancelled, pool, canceller, bounds>>

-----------------------------------------------------------------------------
(***************************************************************************)
(* runDownload around its pool.                                            *)
(***************************************************************************)

\* O_CREATE|O_TRUNC, then a file of zero bytes of the right size; the channel
\* holds every row, replicas included.
Open(j) ==
  /\ pc[j] = "open"
  /\ dest' = [dest EXCEPT ![Path(j)] = [i \in Parts |-> None]]
  /\ queue' = [queue EXCEPT ![j] = RowsOf(j)]
  /\ worker' = [worker EXCEPT ![j] = [w \in Workers |->
       [at |-> IF w <= Cardinality(RowsOf(j)) THEN "select" ELSE "exit", row |-> None]]]
  /\ Goto(j, "running")
  /\ UNCHANGED <<request, status, active, cancelled, errs, done, canceller, bounds>>

\* Write the outcome of j and go on to the deferred function.
Conclude(j, st) ==
  /\ SetStatus(j, st)
  /\ Goto(j, "leave")
  /\ UNCHANGED <<request, active, cancelled, pool, canceller, cancels>>

\* Slip: the first goroutine to leave is enough.
JoinedByOne(j) == pc[j] = "running" /\ \E w \in Workers : worker[j][w].at = "exit"

\* wg.Wait has returned.
Joined(j) == pc[j] = "running" /\ \A w \in Workers : worker[j][w].at = "exit"

CannotOpen(j) == pc[j] = "open" /\ Conclude(j, "FAILED")

\* Slip: nobody looks at the errors.
VerdictBlind(j) == Joined(j) /\ Conclude(j, "COMPLETED")

\* The hash of the file is never compared: it is read through a handle opened
\* O_WRONLY, and an error of that read is ignored.
Verdict(j) ==
  /\ Joined(j)
  /\ Conclude(j, IF errs[j] > 0 THEN "FAILED" ELSE "COMPLETED")

Leave(j) ==
  /\ pc[j] = "leave" /\ EngineFree
  /\ active' = active \ {j}
  /\ Goto(j, "ended")
  /\ UNCHANGED <<request, status, cancelled, pool, canceller, bounds>>

-----------------------------------------------------------------------------
(***************************************************************************)
(* The goroutines.                                                         *)
(***************************************************************************)
poolRest == <<request, pc, status, active, cancelled, canceller, bounds>>
Move(j, w, l) == worker' = [worker EXCEPT ![j][w] = [at |-> l, row |-> None]]

\* The channel is in the order of the part numbers, replicas in any order.
Take(j, w) ==
  /\ worker[j][w].at = "select"
  /\ \E r \in queue[j] :
       /\ \A q \in queue[j] : r[1] <= q[1]
       /\ queue' = [queue EXCEPT ![j] = @ \ {r}]
       /\ worker' = [worker EXCEPT ![j][w] = [at |-> "fetch", row |-> r]]
  /\ UNCHANGED <<poolRest, errs, done, dest>>

\* select picks either case when both are ready.
Exit(j, w) ==
  /\ worker[j][w].at = "select"
  /\ queue[j] = {} \/ j \in cancelled
  /\ Move(j, w, "exit")
  /\ UNCHANGED <<poolRest, queue, errs, done, dest>>

\* Fetch the part and write it at its offset.
FetchAndWrite(j, w) ==
  /\ worker[j][w].at = "fetch"
  /\ dest' = [dest EXCEPT ![Path(j)][worker[j][w].row[1]] = File(j)]
  /\ done' = [done EXCEPT ![j] = @ + 1]
  /\ Move(j, w, "select")
  /\ UNCHANGED <<poolRest, queue, errs>>

\* The part cannot be fetched or written.
Fail(j, w) ==
  /\ worker[j][w].at = "fetch"
  /\ Move(j, w, "report")
  /\ UNCHANGED <<poolRest, queue, errs, done, dest>>

\* Slip: the goroutine goes on with the next row.
ReportAndGoOn(j, w) ==
  /\ worker[j][w].at = "report"
  /\ errs[j] < WorkerCount
  /\ errs' = [errs EXCEPT ![j] = @ + 1]
  /\ Move(j, w, "select")
  /\ UNCHANGED <<poolRest, queue, done, dest>>

\* errChan has room for one error per goroutine, and nobody receives before
\* wg.Wait has returned.
Report(j, w) ==
  /\ worker[j][w].at = "report"
  /\ errs[j] < WorkerCount
  /\ errs' = [errs EXCEPT ![j] = @ + 1]
  /\ Move(j, w, "exit")
  /\ UNCHANGED <<poolRest, queue, done, dest>>

-----------------------------------------------------------------------------
(***************************************************************************)
(* handleJobCancel: the upload engine's CancelJob, then the downloader's.  *)
(***************************************************************************)

CancelRequest == canceller.at = "idle" /\ cancels < MaxCancels /\ cancels' = cancels + 1

\* The upload engine does not know the job, and writes PAUSED all the same.
CancelUpload(j) ==
  /\ CancelRequest
  /\ status[j] # "NONE"
  /\ canceller' = [at |-> "asked", job |-> j, all |-> FALSE]
  /\ SetStatus(j, "PAUSED")
  /\ UNCHANGED <<request, pc, active, cancelled, pool>>

\* Cancel the context of j, if the engine knows it, and forget it.
Withdraw(j) ==
  /\ cancelled' = cancelled \cup ({j} \cap active)
  /\ active' = active \ {j}
  /\ UNCHANGED <<request, pc, status, pool, bounds>>

CancelJob ==
  /\ canceller.at = "asked"
  /\ canceller' = [canceller EXCEPT !.at = "locked"]
  /\ Withdraw(canceller.job)

\* "all", or no job named: the upload engine pauses its own jobs, then this one
\* takes its lock.
CancelAllJobs ==
  /\ CancelRequest
  /\ canceller' = [at |-> "all", job |-> None, all |-> TRUE]
  /\ UNCHANGED <<request, pc, status, active, cancelled, pool, faults>>

CancelNext(j) ==
  /\ canceller.at = "all" /\ j \in active
  /\ canceller' = [canceller EXCEPT !.at = "locked", !.job = j]
  /\ Withdraw(j)

NoMoreJobs ==
  /\ canceller.at = "all" /\ active = {}
  /\ canceller' = [at |-> "idle", job |-> None, all |-> FALSE]
  /\ UNCHANGED <<request, pc, status, active, cancelled, pool, bounds>>

WritePaused ==
  /\ canceller.at = "locked"
  /\ canceller' = IF canceller.all THEN [canceller EXCEPT !.at = "all", !.job = None]
                  ELSE [at |-> "idle", job |-> None, all |-> FALSE]
  /\ SetStatus(canceller.job, "PAUSED")
  /\ UNCHANGED <<request, pc, active, cancelled, pool, cancels>>

-----------------------------------------------------------------------------
Run(j) ==
  \/ CreateJob(j) \/ Register(j) \/ Open(j) \/ CannotOpen(j)
  \/ Verdict(j) \/ Leave(j)

Worker(j, w) == Take(j, w) \/ Exit(j, w) \/ FetchAndWrite(j, w) \/ Fail(j, w) \/
                Report(j, w)

Cancel ==
  CancelJob \/ (\E j \in Jobs : CancelNext(j)) \/ NoMoreJobs \/ WritePaused

Next ==
  \/ \E j \in Jobs : \/ Refuse(j) \/ Run(j) \/ CancelUpload(j)
                     \/ \E w \in Workers : Worker(j, w)
  \/ CancelAllJobs \/ Cancel

Spec == Init /\ [][Next]_vars

\* Goroutines are scheduled fairly, and a fetch ends: its HTTP client has a
\* timeout.  No request and no cancel is due.
Fairness ==
  /\ \A j \in Jobs : /\ WF_vars(pc[j] # "new" /\ Run(j))
                     /\ \A w \in Workers : WF_vars(Worker(j, w))
  /\ WF_vars(Cancel)

FairSpec == Spec /\ Fairness

-----------------------------------------------------------------------------
(***************************************************************************)
(* Properties.                                                             *)
(***************************************************************************)
Stages == {"new", "refused", "register", "open", "running", "leave", "ended"}
JobStatus == {"NONE", "ACTIVE", "PAUSED", "COMPLETED", "FAILED"}
PoolState == [at : {"off", "select", "fetch", "report", "exit"}, row : Rows \cup {None}]

\* Types; the error channel holds at most its capacity.
TypeOK ==
  /\ request \in Requests
  /\ pc \in [Jobs -> Stages]
  /\ status \in [Jobs -> JobStatus]
  /\ active \subseteq Jobs /\ cancelled \subseteq Jobs
  /\ queue \in [Jobs -> SUBSET Rows]
  /\ worker \in [Jobs -> [Workers -> PoolState]]
  /\ errs \in [Jobs -> 0 .. WorkerCount]
  /\ done \in [Jobs -> Nat]
  /\ dest \in [Paths -> [Parts -> Files \cup {None}]]
  /\ canceller \in [at : {"idle", "asked", "all", "locked"},
                   job : Jobs \cup {None}, all : BOOLEAN]
  /\ faults \in Nat /\ cancels \in Nat

Alone(j) == \A i \in Jobs \ {j} : Path(i) # Path(j) \/ pc[i] \in {"new", "refused"}

\* A job that was not cancelled is COMPLETED only when every stored part has been
\* written to the local file, unless another job works on the same path.
DoneMeansWritten ==
  \A j \in Jobs : status[j] = "COMPLETED" /\ j \notin cancelled /\ Alone(j) =>
    \A r \in RowsOf(j) : dest[Path(j)][r[1]] = File(j)

\* The verdict of a job that nobody cancelled says what its goroutines did, if it
\* could be written: COMPLETED if all rows were written, FAILED if one was not.
VerdictHonest ==
  \A j \in Jobs : pc[j] = "ended" /\ cancels = 0 /\ faults = 0 =>
    status[j] = IF done[j] = Cardinality(RowsOf(j)) THEN "COMPLETED" ELSE "FAILED"

\* A job that has started ends and leaves activeJobs: no goroutine is stuck on a
\* full error channel, on the channel of rows or on the cancel handler.
JobEnds == \A j \in Jobs : pc[j] = "register" ~> pc[j] = "ended" /\ j \notin active
=============================================================================
