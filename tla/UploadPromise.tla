--------------------------- MODULE UploadPromise ----------------------------
(***************************************************************************)
(* What the catalog promises whoever reads it (the dashboard, the          *)
(* downloader, the catalog backup) about upload jobs and their part        *)
(* copies, with no workers, queues, handlers or messages: how the status   *)
(* of a job and the status of each copy may move.                          *)
(***************************************************************************)
EXTENDS Naturals

CONSTANTS Uploads, Items

Copies == Uploads \X Items

VARIABLES
  status,   \* status of each job
  copy      \* status of each copy

Open(c)    == copy[c] \in {"PENDING", "FAILED"}
Planned(u) == \E k \in Items : copy[<<u, k>>] # "NONE"

Init ==
  /\ status = [u \in Uploads |-> "NONE"]
  /\ copy = [c \in Copies |-> "NONE"]

\* A job enters the catalog.
Submit(u) ==
  /\ status[u] = "NONE"
  /\ status' = [status EXCEPT ![u] = "ACTIVE"]
  /\ UNCHANGED copy

\* All its copies are planned at once, and only once.
Plan(u) ==
  /\ status[u] # "NONE" /\ ~Planned(u)
  /\ \E n \in Items :
       copy' = [c \in Copies |-> IF c[1] = u /\ c[2] <= n THEN "PENDING" ELSE copy[c]]
  /\ UNCHANGED status

\* A planned copy is stored or fails.
Settle(c) ==
  /\ copy[c] = "PENDING"
  /\ \E s \in {"COMPLETED", "FAILED"} : copy' = [copy EXCEPT ![c] = s]
  /\ UNCHANGED status

\* A stored copy is given up as failed, but only while its job is not done: the
\* answer to the statement that stored it was lost.
TakeBack(c) ==
  /\ copy[c] = "COMPLETED" /\ status[c[1]] # "COMPLETED"
  /\ copy' = [copy EXCEPT ![c] = "FAILED"]
  /\ UNCHANGED status

\* A file is deleted, and copies with it.
Drop ==
  /\ \E S \in SUBSET {c \in Copies : copy[c] # "NONE"} :
       copy' = [c \in Copies |-> IF c \in S THEN "DELETED" ELSE copy[c]]
  /\ UNCHANGED status

\* A job may be declared done only when no planned copy is open.
Done(u) ==
  /\ Planned(u) /\ \A k \in Items : ~Open(<<u, k>>)
  /\ status' = [status EXCEPT ![u] = "COMPLETED"]
  /\ UNCHANGED copy

\* It may be stopped at any time, even after it was done.
Stop(u) ==
  /\ status[u] # "NONE"
  /\ \E s \in {"FAILED", "PAUSED"} : status' = [status EXCEPT ![u] = s]
  /\ UNCHANGED copy

Next ==
  \/ \E u \in Uploads : Submit(u) \/ Plan(u) \/ Done(u) \/ Stop(u)
  \/ \E c \in Copies : Settle(c) \/ TakeBack(c)
  \/ Drop

Spec == Init /\ [][Next]_<<status, copy>>
=============================================================================
