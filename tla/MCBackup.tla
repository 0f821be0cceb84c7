------------------------------- MODULE MCBackup -------------------------------
(* Instance of CatalogBackup (with Shares) for TLC. *)
EXTENDS CatalogBackup, TLC

CONSTANTS i1, i2, l1, v1, r1, d1

MCPaths == {1, 2}
MCParts == {1}
MCStored == i1 :> 1

\* The second backup is for the mistakes of a restore that enter it; a link has no part
\* in them, and its behaviours are explored up to the first.
LinksOrSecondBackup == taken <= 1 \/ links = [l \in Links |-> NoLink]
================================================================================
