--------------------------- MODULE OrderedDelivery ---------------------------
(***************************************************************************)
(* What a stream promises its reader, with no goroutines and no results    *)
(* out of order: the wanted parts are sent one by one in ascending order,  *)
(* the stream ends once, and it ends well only when all of them are sent.  *)
(***************************************************************************)
EXTENDS Naturals

VARIABLES
  wanted,  \* parts that the reader is to get
  sent,    \* parts sent so far
  result   \* "none" while the stream is open

Init ==
  /\ wanted \subseteq Nat
  /\ sent = {}
  /\ result = "none"

\* Everything that comes before the part has been sent, nothing after it.
Send(p) ==
  /\ result = "none"
  /\ p \in wanted \ sent
  /\ \A q \in wanted : q < p <=> q \in sent
  /\ sent' = sent \cup {p}
  /\ UNCHANGED <<wanted, result>>

Complete ==
  /\ result = "none" /\ sent = wanted
  /\ result' = "ok"
  /\ UNCHANGED <<wanted, sent>>

Break ==
  /\ result = "none"
  /\ result' \in {"error", "cancelled"}
  /\ UNCHANGED <<wanted, sent>>

Next == (\E p \in wanted : Send(p)) \/ Complete \/ Break

Spec == Init /\ [][Next]_<<wanted, sent, result>>
=============================================================================
