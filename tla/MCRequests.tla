------------------------------ MODULE MCRequests ------------------------------
(* Small instances of Requests for TLC: a sub, a history read. *)
EXTENDS Requests, TLC

CONSTANTS r1, r2

MCKindOf == r1 :> "ack" @@ r2 :> "hist"
=============================================================================
