----------------------------- MODULE MCPublishing -----------------------------
(* Small instances of Publishing for TLC. *)
EXTENDS Publishing, TLC

Symmetry ==
    Permutations(Sockets) \cup Permutations(Timers) \cup Permutations(RequestIds)
        \cup Permutations(Msgs)
=============================================================================
