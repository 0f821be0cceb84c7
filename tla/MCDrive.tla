------------------------------- MODULE MCDrive -------------------------------
(***************************************************************************)
(* Instances of DriveTree for TLC.                                         *)
(***************************************************************************)
EXTENDS DriveTree, TLC

CONSTANTS r1, r2   \* requests

R(parent, path, dir, trashed) ==
  [parent |-> parent, path |-> path, dir |-> dir, trashed |-> trashed]

\* A folder in a folder, with a file in it, next to another folder that holds
\* a trashed row with the name of a row elsewhere.
Nested == 1 :> R(Root, <<"a">>, TRUE, FALSE) @@ 2 :> R(1, <<"a", "b">>, TRUE, FALSE)
       @@ 3 :> R(2, <<"a", "b", "a">>, FALSE, FALSE)
       @@ 4 :> R(Root, <<"b">>, TRUE, FALSE) @@ 5 :> R(4, <<"b", "b">>, FALSE, TRUE)
Trees == {Nested}

\* A folder in a folder, with a file in it.
SubDir  == <<[rel |-> <<"a">>, dir |-> TRUE], [rel |-> <<"a", "b">>, dir |-> FALSE]>>

\* A name, paths of a row and of none, and paths with a leading slash.
Written == {<<>>, <<"a">>, <<"a", "b">>, <<"b", "a">>, <<"/">>, <<"/", "a">>}

\* Once spoiled, always spoiled, and the properties say no more: TLC may stop.
Unspoiled == spoiled = {}

AnyRequest == Permutations({r1, r2})
=============================================================================
