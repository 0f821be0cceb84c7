------------------------------- MODULE MCFetch -------------------------------
(***************************************************************************)
(* Instances of ChunkFetch for TLC.                                        *)
(***************************************************************************)
EXTENDS ChunkFetch, TLC

CONSTANTS f, g,     \* files
          x, y,     \* plaintexts
          v, w      \* readers

Row(file, part, msg) == [file |-> file, part |-> part, msg |-> msg]
Msg(file, part, body) == [file |-> file, part |-> part, body |-> body]

\* f has two parts, the first of them on two servers; g is the same file stored
\* again, which reused messages of f.
Twice == [content |-> f :> <<x, y>> @@ g :> <<x, y>>,
          posted  |-> 1 :> Msg(f, 0, x) @@ 2 :> Msg(f, 0, x) @@ 3 :> Msg(f, 1, y),
          rows    |-> 1 :> Row(f, 0, 1) @@ 2 :> Row(f, 0, 2) @@ 3 :> Row(f, 1, 3)
                      @@ 4 :> Row(g, 0, 1) @@ 5 :> Row(g, 1, 3),
          spent   |-> 1]

\* The same with the first part only, which sees an upload and a delete.
Small == [content |-> f :> <<x>> @@ g :> <<x>>,
          posted  |-> 1 :> Msg(f, 0, x) @@ 2 :> Msg(f, 0, x),
          rows    |-> 1 :> Row(f, 0, 1) @@ 2 :> Row(f, 0, 2) @@ 3 :> Row(g, 0, 1),
          spent   |-> 0]

Catalogs == {Twice, Small}

\* A verification of f, next to a read of the file that shares its messages.
Calls == v :> {<<"verify", f>>} @@ w :> {<<"bytes", g>>}

\* f again, with other parts or, in Small, the same.
Again == {<<f, <<x>>>>, <<f, <<y>>>>}
=============================================================================
