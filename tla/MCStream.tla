------------------------------ MODULE MCStream ------------------------------
(***************************************************************************)
(* Instances of Stream for TLC.                                            *)
(***************************************************************************)
EXTENDS Stream

Whole(rows) == [rows |-> rows, whole |-> TRUE, from |-> 0, to |-> 0]
Range(rows, from, to) == [rows |-> rows, whole |-> FALSE, from |-> from, to |-> to]

\* Every set of stored parts of a file of at most four, as a whole, and ranges
\* that begin, end or lie anywhere.
AnyRequest ==
  LET Parts == SUBSET (0 .. 3)
  IN  {Whole(rows) : rows \in Parts}
        \cup {Range(rows, from, to) : rows \in Parts, from \in 0 .. 3, to \in 0 .. 3}
=============================================================================
