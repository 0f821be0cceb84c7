------------------------------ MODULE MCUpload ------------------------------
(***************************************************************************)
(* Instances of UploadEngine and UploadClaims for TLC.                     *)
(***************************************************************************)
EXTENDS UploadClaims, TLC

CONSTANTS u1, u2,   \* uploads
          p, q,     \* paths
          a, b,     \* contents of a part
          s1, s2    \* servers

Ask(path, content, servers, staged) ==
  [path |-> path, content |-> content, servers |-> servers, staged |-> staged]

\* Three parts, the last a repetition of the first, on one server.
ThreeParts == {Ask(p, <<a, b, a>>, <<s1>>, TRUE)}

\* A file of two different parts, each copied to two servers.
TwoByTwo == {Ask(p, <<a, b>>, <<s1, s2>>, TRUE)}

\* The same bytes at two paths, and other bytes at one of them.
Sharing == {Ask(p, <<a>>, <<s1>>, TRUE), Ask(q, <<a>>, <<s1>>, FALSE),
            Ask(p, <<b>>, <<s2>>, FALSE)}

Often(fault, crash, cancel, delete) ==
  [e \in Events |-> CASE e = "fault" -> fault [] e = "crash" -> crash
                      [] e = "cancel" -> cancel [] e = "delete" -> delete]

Anything        == Often(1, 1, 1, 1)
Nothing         == Often(0, 0, 0, 0)
FaultCancel     == Often(1, 0, 1, 0)
FaultDelete     == Often(1, 0, 0, 1)

AnyUpload == Permutations({u1, u2})
=============================================================================
