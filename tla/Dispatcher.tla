------------------------------ MODULE Dispatcher ------------------------------
(***************************************************************************)
(* The dispatcher of one client (src/emitter.go:8-46): a queue of user     *)
(* callbacks and the goroutine that drains it, started by the enqueue that *)
(* finds none running and gone when the queue is empty.  One action is one *)
(* critical section of d.mu, or the callback's return.                     *)
(***************************************************************************)
EXTENDS Naturals, Sequences

CONSTANTS
    Fns,      \* the callbacks
    Drainers, \* slots for goroutines in dispatcher.run
    None

ASSUME DispatcherAssumption == None \notin Fns

VARIABLES
    queue,   \* d.queue
    running, \* d.running
    drainer  \* the goroutines in run: the callback each one calls, if any

dispatchVars == <<queue, running, drainer>>

DispatchTypeOK ==
    /\ queue \in Seq(Fns)
    /\ running \in BOOLEAN
    /\ drainer \in [Drainers -> [pc : {"gone", "loop", "call"},
                                 fn : Fns \cup {None}]]

Gone == [pc |-> "gone", fn |-> None]
Loop == [pc |-> "loop", fn |-> None]

DispatchInit ==
    /\ queue = <<>>
    /\ running = FALSE
    /\ drainer = [d \in Drainers |-> Gone]

Enqueue(fn) ==
    /\ queue' = Append(queue, fn)
    /\ \/ running /\ UNCHANGED drainer
       \/ ~running /\ \E d \in Drainers : /\ drainer[d] = Gone
                                          /\ drainer' = [drainer EXCEPT ![d] = Loop]
    /\ running' = TRUE

(* Mutant: the callback enqueued last is called first. *)
TakeNewest(d) ==
    /\ drainer[d].pc = "loop"
    /\ queue # <<>>
    /\ queue' = SubSeq(queue, 1, Len(queue) - 1)
    /\ drainer' = [drainer EXCEPT ![d] = [pc |-> "call", fn |-> queue[Len(queue)]]]
    /\ UNCHANGED running

Take(d) ==
    /\ drainer[d].pc = "loop"
    /\ queue # <<>>
    /\ queue' = Tail(queue)
    /\ drainer' = [drainer EXCEPT ![d] = [pc |-> "call", fn |-> Head(queue)]]
    /\ UNCHANGED running

Exit(d) ==
    /\ drainer[d].pc = "loop"
    /\ queue = <<>>
    /\ running' = FALSE
    /\ drainer' = [drainer EXCEPT ![d] = Gone]
    /\ UNCHANGED queue

Return(d) ==
    /\ drainer[d].pc = "call"
    /\ drainer' = [drainer EXCEPT ![d] = Loop]
    /\ UNCHANGED <<queue, running>>

DispatchNext ==
    \/ \E fn \in Fns : Enqueue(fn)
    \/ \E d \in Drainers : Take(d) \/ Exit(d) \/ Return(d)

DispatchSpec == DispatchInit /\ [][DispatchNext]_dispatchVars

-----------------------------------------------------------------------------
(* Properties. *)

(* Exactly one goroutine drains the queue while the flag is set and none   *)
(* otherwise, and the flag is set while callbacks wait: no wake-up is lost *)
(* between the check of an empty queue and an enqueue (emitter.go:24-41).  *)
OneDrainer ==
    /\ \A d, e \in Drainers : drainer[d] # Gone /\ drainer[e] # Gone => d = e
    /\ running <=> \E d \in Drainers : drainer[d] # Gone
    /\ queue # <<>> => running

Current ==
    IF \E d \in Drainers : drainer[d].pc = "call"
      THEN drainer[CHOOSE d \in Drainers : drainer[d].pc = "call"].fn
      ELSE None

Serial == INSTANCE SerialQueue WITH waiting <- queue, current <- Current

(* The goroutines implement the serial queue: callbacks run one at a time  *)
(* in enqueue order ("runs user callbacks one at a time, in enqueue order, *)
(* off the goroutines that produce events", emitter.go:8-9).               *)
RunsInOrder == Serial!Spec
=============================================================================
