--------------------------------- MODULE MCKey ---------------------------------
(***************************************************************************)
(* Instances of MasterKey for TLC.                                         *)
(***************************************************************************)
EXTENDS MasterKey, TLC

CONSTANTS a, b, c,   \* requests
          p, q       \* passwords

\* Any two requests and an unlock.
Mix == a :> {"unlock", "set_password", "settings"} @@ b :> {"unlock", "set_password", "lock"}
         @@ c :> {"unlock"}

\* What a race, a torn write or a read that failed leaves behind is not followed.
Unspoiled == Whole
=============================================================================
