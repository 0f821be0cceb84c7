------------------------------- MODULE MCClient -------------------------------
(***************************************************************************)
(* Instances of DiscordClient for TLC.                                     *)
(***************************************************************************)
EXTENDS DiscordClient, TLC

CONSTANTS c1, c2   \* calls

\* An upload, or any other call, next to a call that takes something away.
AnyTwo == c1 :> {"upload", "url", "download"} @@ c2 :> {"upload", "delete", "drop"}
=============================================================================
