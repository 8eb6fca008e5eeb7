------------------------------ MODULE SerialQueue ------------------------------
(***************************************************************************)
(* What the dispatcher promises the SDK and its listeners, without locks   *)
(* or goroutines: callbacks run one at a time, in the order in which they  *)
(* were enqueued, each once.                                               *)
(***************************************************************************)
EXTENDS Sequences

CONSTANTS Fns, None

VARIABLES
    waiting, \* the callbacks enqueued and not started
    current  \* the callback that runs, None between two

Init == waiting = <<>> /\ current = None

Enqueue(fn) == waiting' = Append(waiting, fn) /\ UNCHANGED current

Start ==
    /\ current = None
    /\ waiting # <<>>
    /\ current' = Head(waiting)
    /\ waiting' = Tail(waiting)

Finish ==
    /\ current # None
    /\ current' = None
    /\ UNCHANGED waiting

Next == (\E fn \in Fns : Enqueue(fn)) \/ Start \/ Finish

Spec == Init /\ [][Next]_<<waiting, current>>
=============================================================================
