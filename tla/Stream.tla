------------------------------- MODULE Stream -------------------------------
(***************************************************************************)
(* Sending a stored file to a browser: StreamDownload and                  *)
(* StreamDownloadRange of internal/downloader.  Goroutines fetch parts in  *)
(* any order into a result map; the caller sends them in order and waits   *)
(* on a condition variable for the next one; the client may go away.       *)
(*                                                                         *)
(* One critical section of mapMu is one step, and so is fetching a part:   *)
(* what the fetch shares with others (the chunk cache) does not matter for *)
(* which parts arrive when.                                                *)
(***************************************************************************)
EXTENDS Naturals, FiniteSets

CONSTANTS
  Requests,     (* what may be asked of which file, see RequestAssumption *)
  Goroutines    (* Engine.workerCount                                     *)

ASSUME RequestAssumption ==
  /\ \A r \in Requests :
       r \in [rows  : SUBSET Nat,  \* indices with a COMPLETED row
              whole : BOOLEAN,     \* StreamDownload, or StreamDownloadRange
              from  : Nat,         \* first and last part that the byte
              to    : Nat]         \* range of the request touches
  /\ \A r \in Requests : IsFiniteSet(r.rows)
  /\ Goroutines \in Nat \ {0}

Workers == 1 .. Goroutines

VARIABLES
  request,  \* the request this stream serves
  pc,       \* where the caller (the writer) is
  queue,    \* chunkChan: parts nobody has taken yet, in ascending order
  worker,   \* each goroutine: what it does and with which part
  res,      \* resMap: parts that have arrived and are not sent yet
  err,      \* whether workerErr is set
  gone,     \* whether the request's context is cancelled
  watcher,  \* the goroutine that waits for the cancellation
  sent,     \* parts written to the client
  result    \* what the call returned

shared == <<queue, worker, res, err, watcher>>
streamVars == <<request, pc, shared, gone, sent, result>>

\* p is the part of S that comes first.
First(p, S) == p \in S /\ \A q \in S : p <= q

-----------------------------------------------------------------------------
(***************************************************************************)
(* The parts of a request.  The list of parts is looked up by counting     *)
(* from 0 to the number of distinct indices found: a part that is missing  *)
(* among the rows cuts the list off at its end.                            *)
(***************************************************************************)
Listed == {i \in request.rows : i < Cardinality(request.rows)}

Needed == IF request.whole THEN Listed
          ELSE {i \in Listed : request.from <= i /\ i <= request.to}

\* The part that the caller fetches itself: the only part of a file, or the
\* first part of a range.
Direct == IF request.whole /\ Cardinality(Needed) # 1 THEN {}
          ELSE {i \in Needed : First(i, Needed)}

Piped == Needed \ Direct

\* The writer of a whole file counts from 0 to the number of parts, the writer
\* of a range follows the list.
Awaited == IF request.whole THEN {i \in 0 .. Cardinality(Piped) : i < Cardinality(Piped)}
           ELSE Piped
Due     == Awaited \ sent

StreamInit ==
  /\ request \in Requests
  /\ pc = "start"
  /\ queue = {} /\ res = {} /\ sent = {}
  /\ worker = [w \in Workers |-> [at |-> "off", part |-> 0]]
  /\ err = FALSE /\ gone = FALSE
  /\ watcher = "off"
  /\ result = "none"

Returns(r) ==
  /\ pc' = "returned"
  /\ result' = r

-----------------------------------------------------------------------------
(***************************************************************************)
(* The caller, up to the pipeline.                                         *)
(***************************************************************************)

\* The drive is locked, the file is unknown, or it has no stored part.
Refuse ==
  /\ pc = "start"
  /\ Returns("error")
  /\ UNCHANGED <<request, shared, gone, sent>>

Begin ==
  /\ pc = "start"
  /\ request.rows # {}
  /\ pc' = IF Direct = {} THEN "rest" ELSE "direct"
  /\ UNCHANGED <<request, shared, gone, sent, result>>

\* Fetch the direct part and write it; either may fail.
SendDirect ==
  /\ pc = "direct"
  /\ \/ sent' = Direct /\ pc' = "rest" /\ UNCHANGED result
     \/ Returns("error") /\ UNCHANGED sent
  /\ UNCHANGED <<request, shared, gone>>

\* One part was all, or the range touches no part.  (A whole file of which no
\* part is listed goes through the pipeline.)
NoRest == Piped = {} /\ (request.whole => Direct # {})

EndEarly ==
  /\ pc = "rest"
  /\ NoRest
  /\ Returns("ok")
  /\ UNCHANGED <<request, shared, gone, sent>>

\* Fill the channel, start at most one goroutine per part and at least one, and
\* the goroutine that watches the context.
Launch ==
  /\ pc = "rest"
  /\ ~NoRest
  /\ queue' = Piped
  /\ worker' = [w \in Workers |->
       [at |-> IF w = 1 \/ w <= Cardinality(Piped) THEN "select" ELSE "exit", part |-> 0]]
  /\ watcher' = "on"
  /\ pc' = "check"
  /\ UNCHANGED <<request, res, err, gone, sent, result>>

-----------------------------------------------------------------------------
(***************************************************************************)
(* The goroutines.                                                         *)
(***************************************************************************)
caller == <<request, gone, sent, result>>

\* Slip: nobody is woken.
NoBroadcast == UNCHANGED pc

\* cond.Broadcast, under mapMu.
Broadcast == pc' = IF pc = "wait" THEN "check" ELSE pc

Take(w) ==
  /\ worker[w].at = "select"
  /\ \E p \in queue :
       /\ First(p, queue)
       /\ queue' = queue \ {p}
       /\ worker' = [worker EXCEPT ![w] = [at |-> "fetch", part |-> p]]
  /\ UNCHANGED <<caller, pc, res, err, watcher>>

\* Slip: the channel is never closed.
ExitWhenGone(w) ==
  /\ worker[w].at = "select" /\ gone
  /\ worker' = [worker EXCEPT ![w].at = "exit"]
  /\ UNCHANGED <<caller, pc, queue, res, err, watcher>>

\* select picks either case when both are ready.
Exit(w) ==
  /\ worker[w].at = "select"
  /\ queue = {} \/ gone
  /\ worker' = [worker EXCEPT ![w].at = "exit"]
  /\ UNCHANGED <<caller, pc, queue, res, err, watcher>>

Arrives(w) ==
  /\ worker[w].at = "fetch"
  /\ res' = res \cup {worker[w].part}
  /\ worker' = [worker EXCEPT ![w].at = "select"]
  /\ Broadcast
  /\ UNCHANGED <<caller, queue, err, watcher>>

\* Slip: the error is set and nobody is told.
FailSilently(w) ==
  /\ worker[w].at = "fetch"
  /\ err' = TRUE
  /\ worker' = [worker EXCEPT ![w].at = "exit"]
  /\ UNCHANGED <<caller, pc, queue, res, watcher>>

\* No copy of the part can be fetched; the other goroutines go on.
FetchFails(w) ==
  /\ worker[w].at = "fetch"
  /\ err' = TRUE
  /\ worker' = [worker EXCEPT ![w].at = "exit"]
  /\ Broadcast
  /\ UNCHANGED <<caller, queue, res, watcher>>

\* The watcher sees the cancellation, or that the call has returned.
Watch ==
  /\ watcher = "on"
  /\ watcher' = "off"
  /\ \/ gone /\ err' = TRUE /\ Broadcast
     \/ pc = "returned" /\ UNCHANGED <<err, pc>>
  /\ UNCHANGED <<caller, queue, worker, res>>

-----------------------------------------------------------------------------
(***************************************************************************)
(* The writer.                                                             *)
(***************************************************************************)

\* Slip: the writer sends whatever has arrived.
AnyReady(p) == p \in res

\* The part the writer waits for has arrived.
Ready(p) == First(p, Due) /\ p \in res

\* One round of the loop under mapMu.  The context may be cancelled between the
\* test and cond.Wait: then the watcher is still to broadcast.
Check ==
  /\ pc = "check"
  /\ \/ Due = {} /\ pc' = "drain" /\ UNCHANGED result
     \/ Due # {} /\ gone /\ Returns("cancelled")
     \/ Due # {} /\ ~gone /\ err /\ Returns("error")
     \/ /\ Due # {} /\ ~gone /\ ~err
        /\ pc' = IF \E p \in res : Ready(p) THEN "write" ELSE "wait"
        /\ UNCHANGED result
  /\ UNCHANGED <<request, shared, gone, sent>>

\* Write the part and delete it from the map, or find that the client is gone.
Write ==
  /\ pc = "write"
  /\ \/ /\ \E p \in res :
             /\ Ready(p)
             /\ sent' = sent \cup {p}
             /\ res' = res \ {p}
        /\ pc' = "check"
        /\ UNCHANGED result
     \/ Returns("error") /\ UNCHANGED <<sent, res>>
  /\ UNCHANGED <<request, queue, worker, err, watcher, gone>>

\* wg.Wait has returned.
Drain ==
  /\ pc = "drain"
  /\ \A w \in Workers : worker[w].at = "exit"
  /\ Returns("ok")
  /\ UNCHANGED <<request, shared, gone, sent>>

\* The client disconnects, or the handler has returned.
Disconnect ==
  /\ ~gone
  /\ gone' = TRUE
  /\ UNCHANGED <<request, pc, shared, sent, result>>

-----------------------------------------------------------------------------
Caller == Refuse \/ Begin \/ SendDirect \/ EndEarly \/ Launch \/ Check \/ Write \/ Drain

Worker(w) == Take(w) \/ Exit(w) \/ Arrives(w) \/ FetchFails(w)

StreamNext == Caller \/ (\E w \in Workers : Worker(w)) \/ Watch \/ Disconnect

StreamSpec == StreamInit /\ [][StreamNext]_streamVars

\* Goroutines are scheduled fairly, a fetch ends (its HTTP client has a timeout)
\* and so does a write to a client that reads.  No client has to go away.
Fairness ==
  /\ WF_streamVars(Caller)
  /\ WF_streamVars(Watch)
  /\ \A w \in Workers : WF_streamVars(Worker(w))

FairSpec == StreamSpec /\ Fairness

-----------------------------------------------------------------------------
(***************************************************************************)
(* Properties.                                                             *)
(***************************************************************************)
CallerStages == {"start", "direct", "rest", "check", "wait", "write", "drain", "returned"}
WorkerState  == [at : {"off", "select", "fetch", "exit"}, part : Nat]

\* Types; parts in the channel, the map and on the wire belong to the request.
StreamTypeOK ==
  /\ request \in Requests
  /\ pc \in CallerStages
  /\ queue \subseteq Piped
  /\ worker \in [Workers -> WorkerState]
  /\ res \subseteq Piped
  /\ err \in BOOLEAN /\ gone \in BOOLEAN
  /\ watcher \in {"on", "off"}
  /\ sent \subseteq Needed
  /\ result \in {"none", "ok", "error", "cancelled"}

\* No lost wake-up (downloader.go:616-641): when the writer sleeps on the
\* condition variable, what it waits for has not happened yet, and somebody who
\* will wake it is under way: the watcher, or a goroutine that is fetching its
\* part or will take it.  (A part that is not stored is nobody's.)
NoLostWakeup ==
  pc = "wait" =>
    /\ ~err /\ ~ \E p \in res : First(p, Due)
    /\ gone => watcher = "on"
    /\ ~gone => \A p \in Piped : First(p, Due) =>
         \/ \E w \in Workers : worker[w].at = "fetch" /\ worker[w].part = p
         \/ p \in queue /\ \E w \in Workers : worker[w].at \in {"select", "fetch"}

\* In whatever order parts arrive, fail, or are cancelled, the client gets the
\* parts in order and the call returns nil only when all of them are sent.
Promise == INSTANCE OrderedDelivery WITH wanted <- Needed
Delivers == Promise!Spec

\* A call that has started returns, unless the writer of a whole file waits for
\* a part that is not stored (downloader.go:528): no order of arrivals, failures
\* and cancellation makes the writer and the goroutines wait for each other.
Gapless == Listed = request.rows
StreamReturns ==
  pc \in {"direct", "rest"} /\ (request.whole => Gapless) ~> pc = "returned"

\* No goroutine outlives its stream for ever, whatever way it ended.
GoroutinesEnd ==
  \A w \in Workers : worker[w].at = "select" ~> worker[w].at = "exit"
=============================================================================
