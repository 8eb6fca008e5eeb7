------------------------------ MODULE MCPresence ------------------------------
(* Small instances of Presence for TLC. *)
EXTENDS Presence, TLC

Symmetry == Permutations(Requests) \cup Permutations(Drainers) \cup Permutations(Data)

(* Bound: a behaviour is followed until a conversation has overlapped, and  *)
(* past a refused watcher until the client has dealt with the refusal.     *)
Refused == \E r \in Requests : request[r].pc \in {"denied", "reset", "forget"}
OneInOrder == raced = {} \/ (raced = {"watch"} /\ Refused)

(* Bound: two events wait besides the one being called, one while a request *)
(* of the watcher is under way and none while one of the membership is.     *)
FewWait ==
    Len(queue) <= IF InFlight({"enter", "leave"}) THEN 0
                  ELSE IF InFlight(WatchKinds) THEN 1 ELSE 2
=============================================================================
