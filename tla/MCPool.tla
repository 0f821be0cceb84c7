-------------------------------- MODULE MCPool --------------------------------
(***************************************************************************)
(* Instances of StoragePool for TLC.                                       *)
(***************************************************************************)
EXTENDS StoragePool, TLC

CONSTANTS p, q, r   \* calls

\* Any three calls.
Mix == p :> {"upload", "boot", "setup"} @@ q :> {"boot", "auto", "clean"}
         @@ r :> {"upload", "backup"}

\* Two calls that overlap, or three one after the other.
Few == Cardinality({c \in Calls : ~At(c, "idle")}) <= (IF "overlap" \in spoiled THEN 2 ELSE 3)
=============================================================================
