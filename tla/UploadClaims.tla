---------------------------- MODULE UploadClaims ----------------------------
(***************************************************************************)
(* What the program's README says about copies on several servers, where   *)
(* the code does something else: TLC finds a counterexample.               *)
(***************************************************************************)
EXTENDS UploadEngine

\* README.md:44, "If one server is lost, your files remain safe on the others":
\* a finished upload to several servers keeps every part readable when one of
\* them is gone.
SurvivesServerLoss ==
  \A u \in Uploads, lost \in Servers :
    job[u].status = "COMPLETED" /\ Len(request[u].servers) > 1 =>
      \A part \in 0 .. Parts(u) - 1 : \E k \in 0 .. Total(u) - 1 :
        /\ PartOf(<<u, k>>) = part
        /\ chunk[<<u, k>>].msg \in discord
        /\ ServerOf(chunk[<<u, k>>].msg) # lost
=============================================================================
