---------------------------- MODULE MCDownloadJob ----------------------------
(***************************************************************************)
(* Instances of DownloadJob for TLC.                                       *)
(***************************************************************************)
EXTENDS DownloadJob, TLC

CONSTANTS j1, j2,  \* jobs
          f, g,    \* files
          p,       \* a local path
          c1, c2   \* replicas

Ask(file, path, rows) == [file |-> file, path |-> path, rows |-> rows]

Whole == Ask(f, p, {<<0, c1>>, <<0, c2>>, <<1, c1>>})

\* A file of two parts, the first stored twice, and a file of one part, both to
\* the same path; either request may be refused.
Downloads == {(j1 :> Whole) @@ (j2 :> Ask(g, p, {<<0, c1>>}))}
=============================================================================
