---------------------------- MODULE PresenceProofs ----------------------------
(***************************************************************************)
(* What holds of the dispatcher, of the presence listeners it calls, and   *)
(* of the conversations about the watcher and the membership, for every    *)
(* number of goroutines, callbacks, listeners and requests.                *)
(***************************************************************************)
EXTENDS Presence, TLAPS

(* The dispatcher.  That a drainer which calls has something to call is    *)
(* what makes its call visible in the queue it implements.                 *)
DispatchInv ==
    /\ DispatchTypeOK
    /\ OneDrainer
    /\ \A d \in Drainers : drainer[d].pc = "call" => drainer[d].fn \in Fns

LEMMA DispatchInvInit == DispatchInit => DispatchInv
<1> SUFFICES ASSUME DispatchInit PROVE DispatchInv
  OBVIOUS
<1>1. \A d \in Drainers : drainer[d] = Gone
  BY DEF DispatchInit
<1>2. DispatchTypeOK
  <2>1. Gone \in [pc : {"gone", "loop", "call"}, fn : Fns \cup {None}]
    BY DEF Gone
  <2>2. drainer \in [Drainers -> [pc : {"gone", "loop", "call"}, fn : Fns \cup {None}]]
    BY <2>1 DEF DispatchInit
  <2>3. queue \in Seq(Fns)
    BY SMT DEF DispatchInit
  <2>4. running \in BOOLEAN
    BY Zenon DEF DispatchInit
  <2>5. QED
    BY <2>2, <2>3, <2>4 DEF DispatchTypeOK
<1>3. OneDrainer
  <2>1. running = FALSE /\ queue = <<>>
    BY DEF DispatchInit
  <2>2. QED
    BY <1>1, <2>1 DEF OneDrainer
<1>4. QED
  BY <1>1, <1>2, <1>3 DEF DispatchInv, Gone

LEMMA EnqueueKeeps ==
    ASSUME DispatchInv, NEW fn \in Fns, Enqueue(fn)
    PROVE  DispatchInv'
<1>1. queue' \in Seq(Fns) /\ running' = TRUE
  BY DEF Enqueue, DispatchInv, DispatchTypeOK
<1>2. CASE running /\ UNCHANGED drainer
  BY <1>1, <1>2 DEF DispatchInv, DispatchTypeOK, OneDrainer
<1>3. ASSUME NEW d \in Drainers, ~running, drainer[d] = Gone,
             drainer' = [drainer EXCEPT ![d] = Loop]
      PROVE  DispatchInv'
  <2>1. \A e \in Drainers : drainer[e] = Gone
    BY <1>3 DEF DispatchInv, OneDrainer
  <2>2. drainer'[d] = Loop /\ \A e \in Drainers \ {d} : drainer'[e] = Gone
    BY <1>3, <2>1 DEF DispatchInv, DispatchTypeOK
  <2>3. DispatchTypeOK'
    BY <1>1, <1>3 DEF DispatchInv, DispatchTypeOK, Loop
  <2>4. OneDrainer'
    BY <1>1, <2>2 DEF OneDrainer, Gone, Loop
  <2>5. QED
    BY <2>2, <2>3, <2>4 DEF DispatchInv, Gone, Loop
<1>4. QED
  BY <1>2, <1>3 DEF Enqueue

LEMMA DrainerKeeps ==
    ASSUME DispatchInv, NEW d \in Drainers, Take(d) \/ Exit(d) \/ Return(d)
    PROVE  DispatchInv'
<1>0. \A e \in Drainers \ {d} : drainer[e] = Gone
  BY DEF DispatchInv, OneDrainer, Take, Exit, Return, Gone
<1>1. CASE Take(d)
  <2>1. queue' \in Seq(Fns) /\ Head(queue) \in Fns
    BY <1>1 DEF Take, DispatchInv, DispatchTypeOK
  <2>2. /\ drainer'[d] = [pc |-> "call", fn |-> Head(queue)]
        /\ \A e \in Drainers \ {d} : drainer'[e] = Gone
    BY <1>0, <1>1 DEF Take, DispatchInv, DispatchTypeOK
  <2>3. DispatchTypeOK'
    BY <1>1, <2>1 DEF Take, DispatchInv, DispatchTypeOK
  <2>4. running = TRUE /\ running' = running
    BY <1>1 DEF Take, DispatchInv, DispatchTypeOK, OneDrainer, Gone
  <2>5. OneDrainer'
    BY <2>2, <2>4 DEF OneDrainer, Gone
  <2>6. QED
    BY <2>1, <2>2, <2>3, <2>5 DEF DispatchInv, Gone
<1>2. CASE Exit(d)
  <2>1. \A e \in Drainers : drainer'[e] = Gone
    BY <1>0, <1>2 DEF Exit, DispatchInv, DispatchTypeOK
  <2>2. DispatchTypeOK'
    BY <1>2 DEF Exit, DispatchInv, DispatchTypeOK, Gone
  <2>3. OneDrainer'
    BY <1>2, <2>1 DEF Exit, OneDrainer
  <2>4. QED
    BY <2>1, <2>2, <2>3 DEF DispatchInv, Gone
<1>3. CASE Return(d)
  <2>1. drainer'[d] = Loop /\ \A e \in Drainers \ {d} : drainer'[e] = Gone
    BY <1>0, <1>3 DEF Return, DispatchInv, DispatchTypeOK
  <2>2. DispatchTypeOK'
    BY <1>3 DEF Return, DispatchInv, DispatchTypeOK, Loop
  <2>3. running = TRUE /\ running' = running
    BY <1>3 DEF Return, DispatchInv, DispatchTypeOK, OneDrainer, Gone
  <2>4. OneDrainer'
    BY <2>1, <2>3 DEF OneDrainer, Gone, Loop
  <2>5. QED
    BY <2>1, <2>2, <2>4 DEF DispatchInv, Gone, Loop
<1>4. QED
  BY <1>1, <1>2, <1>3

LEMMA DispatchStep == DispatchInv /\ [DispatchNext]_dispatchVars => DispatchInv'
<1> SUFFICES ASSUME DispatchInv, [DispatchNext]_dispatchVars PROVE DispatchInv'
  OBVIOUS
<1>1. CASE DispatchNext
  BY <1>1, EnqueueKeeps, DrainerKeeps DEF DispatchNext
<1>2. CASE UNCHANGED dispatchVars
  BY <1>2 DEF dispatchVars, DispatchInv, DispatchTypeOK, OneDrainer
<1>3. QED
  BY <1>1, <1>2

LEMMA DispatchAlways == DispatchSpec => []DispatchInv
BY DispatchInvInit, DispatchStep, PTL DEF DispatchSpec

-----------------------------------------------------------------------------
(* The refinement: what the drainer calls is what the queue runs.          *)

LEMMA CurrentIsCall ==
    ASSUME DispatchInv
    PROVE  /\ (\A d \in Drainers : drainer[d].pc # "call") => Current = None
           /\ \A d \in Drainers : drainer[d].pc = "call" => Current = drainer[d].fn
<1>1. ASSUME NEW d \in Drainers, drainer[d].pc = "call"
      PROVE  Current = drainer[d].fn
  <2>1. \A e \in Drainers : drainer[e].pc = "call" => e = d
    BY <1>1 DEF DispatchInv, OneDrainer, Gone
  <2>2. (CHOOSE e \in Drainers : drainer[e].pc = "call") = d
    BY <1>1, <2>1
  <2>3. QED
    BY <1>1, <2>2 DEF Current
<1>2. QED
  BY <1>1 DEF Current

(* Whether anything is called depends on the drainers alone. *)
LEMMA CurrentSame ==
    ASSUME DispatchInv, DispatchInv',
           \A d \in Drainers : (drainer'[d].pc = "call" \/ drainer[d].pc = "call")
                                  => drainer'[d] = drainer[d]
    PROVE  Current' = Current
<1>1. CASE \E d \in Drainers : drainer[d].pc = "call"
  <2>1. PICK d \in Drainers : drainer[d].pc = "call"
    BY <1>1
  <2>2. Current = drainer[d].fn
    BY <2>1, CurrentIsCall
  <2>3. \A e \in Drainers : drainer'[e].pc = "call" => e = d
    BY <2>1 DEF DispatchInv, OneDrainer, Gone
  <2>4. (CHOOSE e \in Drainers : drainer'[e].pc = "call") = d
    BY <2>1, <2>3
  <2>5. Current' = drainer'[d].fn
    BY <2>1, <2>4 DEF Current
  <2>6. QED
    BY <2>1, <2>2, <2>5
<1>2. CASE ~\E d \in Drainers : drainer[d].pc = "call"
  BY <1>2 DEF Current
<1>3. QED
  BY <1>1, <1>2

LEMMA StepRunsInOrder ==
    ASSUME DispatchInv, DispatchInv', [DispatchNext]_dispatchVars
    PROVE  [Serial!Next]_<<queue, Current>>
<1>1. ASSUME NEW fn \in Fns, Enqueue(fn) PROVE Serial!Enqueue(fn)
  <2>1. Current' = Current
    BY <1>1, CurrentSame DEF Enqueue, DispatchInv, DispatchTypeOK, Gone, Loop
  <2>2. QED
    BY <1>1, <2>1 DEF Enqueue, Serial!Enqueue
<1>2. ASSUME NEW d \in Drainers, Take(d) PROVE Serial!Start
  <2>1. \A e \in Drainers : drainer[e].pc # "call"
    BY <1>2 DEF Take, DispatchInv, OneDrainer, Gone
  <2>2. Current = None
    BY <2>1, CurrentIsCall
  <2>3. drainer'[d] = [pc |-> "call", fn |-> Head(queue)]
    BY <1>2 DEF Take, DispatchInv, DispatchTypeOK
  <2>4. \A e \in Drainers : drainer'[e].pc = "call" => e = d
    BY <2>3 DEF DispatchInv, OneDrainer, Gone
  <2>5. (CHOOSE e \in Drainers : drainer'[e].pc = "call") = d
    BY <2>3, <2>4
  <2>6. drainer'[d].pc = "call" /\ drainer'[d].fn = Head(queue)
    BY <2>3
  <2>7. Current' = Head(queue)
    BY <2>5, <2>6 DEF Current
  <2>8. QED
    BY <1>2, <2>2, <2>7 DEF Take, Serial!Start
<1>3. ASSUME NEW d \in Drainers, Exit(d) PROVE UNCHANGED <<queue, Current>>
  <2>1. Current' = Current
    BY <1>3, CurrentSame DEF Exit, DispatchInv, DispatchTypeOK, Gone
  <2>2. QED
    BY <1>3, <2>1 DEF Exit
<1>4. ASSUME NEW d \in Drainers, Return(d) PROVE Serial!Finish
  <2>1. Current = drainer[d].fn /\ drainer[d].fn \in Fns
    BY <1>4, CurrentIsCall DEF Return, DispatchInv
  <2>2. drainer'[d] = Loop
    BY <1>4 DEF Return, DispatchInv, DispatchTypeOK
  <2>3. \A e \in Drainers : drainer'[e].pc # "call"
    BY <2>2 DEF DispatchInv, OneDrainer, Gone, Loop
  <2>4. Current' = None
    BY <2>3 DEF Current
  <2>5. QED
    BY <1>4, <2>1, <2>4, DispatcherAssumption DEF Return, Serial!Finish
<1>5. CASE UNCHANGED dispatchVars
  <2>1. Current' = Current
    BY <1>5, CurrentSame DEF dispatchVars
  <2>2. QED
    BY <1>5, <2>1 DEF dispatchVars
<1>6. QED
  BY <1>1, <1>2, <1>3, <1>4, <1>5 DEF DispatchNext, Serial!Next

LEMMA InitRunsInOrder == DispatchInit => Serial!Init
BY DEF DispatchInit, Serial!Init, Current, Gone

LEMMA DispatchRunsInOrder == DispatchSpec => RunsInOrder
BY DispatchAlways, StepRunsInOrder, InitRunsInOrder, PTL
DEF DispatchSpec, RunsInOrder, Serial!Spec

-----------------------------------------------------------------------------
(* Presence over the dispatcher. *)

LEMMA PresenceDispatches == [Next]_vars => [DispatchNext]_dispatchVars
<1> SUFFICES ASSUME [Next]_vars PROVE [DispatchNext]_dispatchVars
  OBVIOUS
<1>1. ASSUME NEW action \in Fns, EmitPresence(action) PROVE DispatchNext
  BY <1>1 DEF EmitPresence, DispatchNext
<1>2. ASSUME NEW d \in Drainers, Drain(d) \/ EmitReturns(d) PROVE DispatchNext
  BY <1>2 DEF Drain, EmitReturns, DispatchNext
<1>3. ASSUME NEW t \in Tasks,
             \/ \E l \in Listeners : Add(t, l) \/ RemoveOne(t, l)
             \/ OffAll(t) \/ Detach(t) \/ OnDetached(t) \/ DetachForgets(t)
      PROVE  UNCHANGED dispatchVars
  BY <1>3 DEF Add, RemoveOne, OffAll, Removes, Detach, OnDetached, DetachForgets
<1>4. ASSUME NEW t \in Threads,
             EnsureWatching(t) \/ Remember(t) \/ MaybeStopWatching(t)
             \/ StopsWatching(t) \/ Forget(t)
      PROVE  UNCHANGED dispatchVars
  BY <1>4 DEF EnsureWatching, Remember, MaybeStopWatching, StopsWatching, Forget
<1>5. ASSUME NEW d \in Drainers, Snapshot(d) \/ CallListener(d) \/ EmitRunsHook(d)
      PROVE  UNCHANGED dispatchVars
  BY <1>5 DEF Snapshot, CallListener, EmitRunsHook
<1>6. ASSUME NEW data \in Data, Enter(data) PROVE UNCHANGED dispatchVars
  BY <1>6 DEF Enter
<1>7. ASSUME NEW r \in Requests,
             \/ Attached(r) \/ Fails(r) \/ Write(r) \/ ReadAnswer(r)
             \/ Denied(r) \/ ResetWatching(r) \/ ForgetDenied(r)
      PROVE  UNCHANGED dispatchVars
  BY <1>7 DEF Attached, Fails, Write, ReadAnswer, Denied, ResetWatching, ForgetDenied
<1>8. ASSUME \/ Leave \/ ServerAnswers \/ Drop \/ Connect
             \/ RestoreCollects \/ RestoreReopens \/ RestoreReenters
      PROVE  UNCHANGED dispatchVars
  BY <1>8 DEF Leave, ServerAnswers, Drop, Connect, RestoreCollects, RestoreReopens,
              RestoreReenters
<1>9. UNCHANGED vars => UNCHANGED dispatchVars
  BY DEF vars
<1>10. QED
  BY <1>1, <1>2, <1>3, <1>4, <1>5, <1>6, <1>7, <1>8, <1>9 DEF Next

(* Every behaviour of Presence is one of the dispatcher. *)
THEOREM ImplementsDispatcher == Spec => DispatchSpec
<1>1. Init => DispatchInit
  BY DEF Init
<1>2. QED
  BY <1>1, PresenceDispatches, PTL DEF Spec, DispatchSpec

(* Exactly one goroutine drains while callbacks wait, and none is lost.    *)
THEOREM AlwaysOneDrainer == Spec => []OneDrainer
<1>1. DispatchInv => OneDrainer
  BY DEF DispatchInv
<1>2. QED
  BY <1>1, ImplementsDispatcher, DispatchAlways, PTL

(* Callbacks run one at a time and in the order they were enqueued.        *)
THEOREM AlwaysRunsInOrder == Spec => RunsInOrder
BY ImplementsDispatcher, DispatchRunsInOrder, PTL

-----------------------------------------------------------------------------
(* The listeners and the watcher. *)

(* Drainers run no ensureWatching: only the application adds listeners.    *)
(* While p.mu is held with none counted, whoever registers one has         *)
(* ensureWatching before it, which waits for p.mu.                         *)
ListenInv ==
    /\ thread \in [Threads -> Phases]
    /\ \A d \in Drainers : thread[d] # "ensure"
    /\ Unlocked \/ listeners = {} \/ \E t \in Threads : thread[t] = "ensure"
    /\ ListenedIsWatched

(* A step that adds no listener, takes no lock, closes no watcher and lets *)
(* no thread pass over ensureWatching keeps the wish to watch.             *)
LEMMA QuietKeeps ==
    ASSUME ListenInv, thread' \in [Threads -> Phases],
           listeners' \subseteq listeners, UNCHANGED watching,
           cleared => cleared',
           \A t \in Threads : /\ thread[t] = "ensure" <=> thread'[t] = "ensure"
                              /\ thread'[t] = "counted" => thread[t] = "counted"
    PROVE  ListenInv'
BY DEF ListenInv, ListenedIsWatched, Unlocked, Threads

LEMMA GoesKeeps ==
    ASSUME ListenInv, NEW t \in Threads, NEW phase \in Phases, Goes(t, phase)
    PROVE  /\ thread' \in [Threads -> Phases]
           /\ thread'[t] = phase
           /\ phase # "ensure" => \A d \in Drainers : thread'[d] # "ensure"
           /\ \A x \in Threads \ {t} : thread'[x] = thread[x]
BY DEF ListenInv, Goes, Threads

LEMMA TaskKeeps ==
    ASSUME ListenInv, NEW t \in Tasks,
           \/ \E l \in Listeners : Add(t, l) \/ RemoveOne(t, l)
           \/ OffAll(t) \/ Detach(t) \/ OnDetached(t) \/ DetachForgets(t)
    PROVE  ListenInv'
<1> USE DEF Phases
<1>0. t \in Threads
  BY DEF Threads
<1>1. CASE \E l \in Listeners : Add(t, l)
  <2>1. thread' \in [Threads -> Phases] /\ thread'[t] = "ensure"
    BY <1>0, <1>1, GoesKeeps DEF Add
  <2>2. \A d \in Drainers : thread'[d] # "ensure"
    BY <1>0, <1>1, GoesKeeps, PresenceAssumption DEF Add, ListenInv, Threads
  <2>3. QED
    BY <1>0, <2>1, <2>2 DEF ListenInv, ListenedIsWatched
<1>2. ASSUME NEW gone, Removes(t, gone) PROVE ListenInv'
  <2>1. listeners' \subseteq listeners /\ thread[t] = "idle" /\ Goes(t, "stop")
    BY <1>2 DEF Removes
  <2>2. UNCHANGED watching /\ (cleared => cleared')
    BY <1>2 DEF Removes, localVars, histVars
  <2>3. QED
    BY <1>0, <2>1, <2>2, GoesKeeps, QuietKeeps
<1>3. CASE Detach(t)
  <2>1. UNCHANGED listeners /\ thread[t] = "idle" /\ Goes(t, "detach")
    BY <1>3 DEF Detach
  <2>2. UNCHANGED watching /\ (cleared => cleared')
    BY <1>3 DEF Detach, localVars, histVars
  <2>3. QED
    BY <1>0, <2>1, <2>2, GoesKeeps, QuietKeeps
<1>4. CASE OnDetached(t)
  <2>1. Goes(t, "unsub") /\ cleared' /\ Unlocked
    BY <1>4 DEF OnDetached
  <2>2. thread' \in [Threads -> Phases] /\ \A d \in Drainers : thread'[d] # "ensure"
    BY <1>0, <2>1, GoesKeeps
  <2>3. Unlocked'
    BY <1>0, <2>1, GoesKeeps DEF Unlocked
  <2>4. QED
    BY <2>1, <2>2, <2>3 DEF ListenInv, ListenedIsWatched
<1>5. CASE DetachForgets(t)
  <2>1. UNCHANGED listeners /\ thread[t] = "unsub" /\ Goes(t, "idle")
    BY <1>5 DEF DetachForgets
  <2>2. UNCHANGED watching /\ (cleared => cleared')
    BY <1>5 DEF DetachForgets, histVars
  <2>3. QED
    BY <1>0, <2>1, <2>2, GoesKeeps, QuietKeeps
<1>6. QED
  BY <1>1, <1>2, <1>3, <1>4, <1>5 DEF RemoveOne, OffAll

LEMMA ThreadKeeps ==
    ASSUME ListenInv, NEW t \in Threads,
           EnsureWatching(t) \/ Remember(t) \/ MaybeStopWatching(t)
             \/ StopsWatching(t) \/ Forget(t)
    PROVE  ListenInv'
<1> USE DEF Phases
<1>1. CASE EnsureWatching(t)
  <2>1. watching' = TRUE \/ (watching /\ UNCHANGED watching)
    BY <1>1 DEF EnsureWatching
  <2>2. Goes(t, "idle") \/ Goes(t, "remember")
    BY <1>1 DEF EnsureWatching
  <2>3. thread' \in [Threads -> Phases] /\ \A d \in Drainers : thread'[d] # "ensure"
    BY <2>2, GoesKeeps
  <2>4. Unlocked'
    BY <1>1, <2>2, GoesKeeps DEF EnsureWatching, Unlocked
  <2>5. QED
    BY <2>1, <2>3, <2>4 DEF ListenInv, ListenedIsWatched
<1>2. CASE Remember(t)
  <2>1. UNCHANGED listeners /\ thread[t] = "remember" /\ Goes(t, "idle")
    BY <1>2 DEF Remember
  <2>2. UNCHANGED watching /\ (cleared => cleared')
    BY <1>2 DEF Remember, histVars
  <2>3. QED
    BY <2>1, <2>2, GoesKeeps, QuietKeeps
<1>3. CASE MaybeStopWatching(t)
  <2>1. UNCHANGED <<listeners, watching>> /\ thread[t] = "stop" /\ (cleared => cleared')
    BY <1>3 DEF MaybeStopWatching, localVars, histVars
  <2>2. CASE Goes(t, "idle")
    BY <2>1, <2>2, GoesKeeps, QuietKeeps
  <2>3. CASE listeners = {} /\ Goes(t, "counted")
    <3>1. thread' \in [Threads -> Phases] /\ \A d \in Drainers : thread'[d] # "ensure"
      BY <2>3, GoesKeeps
    <3>2. QED
      BY <2>1, <2>3, <3>1 DEF ListenInv, ListenedIsWatched
  <2>4. QED
    BY <1>3, <2>2, <2>3 DEF MaybeStopWatching, HasAny
<1>4. CASE StopsWatching(t)
  <2>1. UNCHANGED listeners /\ thread[t] = "counted" /\ Goes(t, "forget")
    BY <1>4 DEF StopsWatching
  <2>2. /\ thread' \in [Threads -> Phases] /\ thread'[t] = "forget"
        /\ \A d \in Drainers : thread'[d] # "ensure"
        /\ \A x \in Threads \ {t} : thread'[x] = thread[x]
    BY <2>1, GoesKeeps
  <2>3. CASE listeners = {}
    BY <2>1, <2>2, <2>3 DEF ListenInv, ListenedIsWatched
  <2>4. ASSUME NEW x \in Threads, thread[x] = "ensure" PROVE ListenInv'
    <3>1. thread'[x] = "ensure"
      BY <2>1, <2>2, <2>4
    <3>2. QED
      BY <2>2, <3>1 DEF ListenInv, ListenedIsWatched
  <2>5. QED
    BY <2>1, <2>3, <2>4 DEF ListenInv, Unlocked
<1>5. CASE Forget(t)
  <2>1. UNCHANGED listeners /\ thread[t] = "forget" /\ Goes(t, "idle")
    BY <1>5 DEF Forget
  <2>2. UNCHANGED watching /\ (cleared => cleared')
    BY <1>5 DEF Forget, histVars
  <2>3. QED
    BY <2>1, <2>2, GoesKeeps, QuietKeeps
<1>6. QED
  BY <1>1, <1>2, <1>3, <1>4, <1>5

LEMMA EmitKeeps ==
    ASSUME ListenInv, NEW d \in Drainers,
           Snapshot(d) \/ CallListener(d) \/ EmitRunsHook(d) \/ EmitReturns(d) \/ Drain(d)
    PROVE  ListenInv'
<1> USE DEF Phases
<1>0. d \in Threads /\ thread \in [Threads -> Phases]
  BY DEF Threads, ListenInv
<1>1. CASE Snapshot(d)
  <2>1. listeners' \subseteq listeners /\ UNCHANGED thread
    BY <1>1 DEF Snapshot
  <2>2. UNCHANGED watching /\ (cleared => cleared')
    BY <1>1 DEF Snapshot, localVars, histVars
  <2>3. QED
    BY <1>0, <2>1, <2>2, QuietKeeps
<1>2. CASE CallListener(d) \/ EmitReturns(d) \/ Drain(d)
  <2>1. UNCHANGED <<listeners, thread, watching, cleared>>
    BY <1>2 DEF CallListener, EmitReturns, Drain, localVars, emitVars, histVars
  <2>2. QED
    BY <1>0, <2>1, QuietKeeps
<1>3. CASE EmitRunsHook(d)
  <2>1. UNCHANGED <<listeners, watching, cleared>> /\ Goes(d, "stop")
    BY <1>3 DEF EmitRunsHook, localVars, histVars
  <2>2. /\ thread' \in [Threads -> Phases] /\ thread'[d] = "stop"
        /\ \A x \in Threads \ {d} : thread'[x] = thread[x]
    BY <1>0, <2>1, GoesKeeps
  <2>3. thread[d] # "ensure" /\ thread'[d] # "counted"
    BY <2>2 DEF ListenInv
  <2>4. QED
    BY <1>0, <2>1, <2>2, <2>3, QuietKeeps
<1>4. QED
  BY <1>1, <1>2, <1>3

LEMMA RequestKeeps ==
    ASSUME ListenInv,
           \/ \E r \in Requests : \/ Attached(r) \/ Fails(r) \/ Write(r) \/ ReadAnswer(r)
                                  \/ Denied(r) \/ ForgetDenied(r)
           \/ \E data \in Data : Enter(data)
           \/ \E action \in Fns : EmitPresence(action)
           \/ Leave \/ ServerAnswers \/ Drop \/ Connect
           \/ RestoreCollects \/ RestoreReopens \/ RestoreReenters
           \/ UNCHANGED vars
    PROVE  ListenInv'
<1>1. CASE \E r \in Requests : \/ Attached(r) \/ Fails(r) \/ Write(r) \/ ReadAnswer(r)
                              \/ Denied(r) \/ ForgetDenied(r)
  BY <1>1 DEF Attached, Fails, Write, ReadAnswer, Denied, ForgetDenied, localVars,
              emitVars, histVars, ListenInv, ListenedIsWatched, Unlocked
<1>2. CASE \E data \in Data : Enter(data)
  BY <1>2 DEF Enter, emitVars, ListenInv, ListenedIsWatched, Unlocked
<1>3. CASE \E action \in Fns : EmitPresence(action)
  BY <1>3 DEF EmitPresence, localVars, emitVars, histVars, ListenInv,
               ListenedIsWatched, Unlocked
<1>4. CASE Leave
  BY <1>4 DEF Leave, emitVars, ListenInv, ListenedIsWatched, Unlocked
<1>5. CASE ServerAnswers
  <2>1. UNCHANGED <<localVars, emitVars, histVars>>
    BY <1>5 DEF ServerAnswers
  <2>2. QED
    BY <2>1 DEF localVars, emitVars, histVars, ListenInv, ListenedIsWatched, Unlocked
<1>6. CASE Drop \/ Connect \/ RestoreCollects \/ RestoreReopens \/ RestoreReenters
  <2>1. UNCHANGED <<localVars, emitVars, cleared>>
    BY <1>6 DEF Drop, Connect, RestoreCollects, RestoreReopens, RestoreReenters, histVars
  <2>2. QED
    BY <2>1 DEF localVars, emitVars, ListenInv, ListenedIsWatched, Unlocked
<1>7. CASE UNCHANGED vars
  BY <1>7 DEF vars, localVars, emitVars, histVars, ListenInv, ListenedIsWatched, Unlocked
<1>8. QED
  BY <1>1, <1>2, <1>3, <1>4, <1>5, <1>6, <1>7

LEMMA ListenStep == ListenInv /\ [Next]_vars => ListenInv'
<1> SUFFICES ASSUME ListenInv, [Next]_vars PROVE ListenInv'
  OBVIOUS
<1>1. ASSUME NEW r \in Requests, ResetWatching(r) PROVE ListenInv'
  <2>1. UNCHANGED <<listeners, thread>> /\ cleared'
    BY <1>1 DEF ResetWatching, emitVars
  <2>2. QED
    BY <2>1 DEF ListenInv, ListenedIsWatched, Unlocked
<1>2. QED
  BY <1>1, TaskKeeps, ThreadKeeps, EmitKeeps, RequestKeeps DEF Next

LEMMA ListenInit == Init => ListenInv
BY DEF Init, ListenInv, ListenedIsWatched, Threads, Phases, Unlocked

(* A listener is never left without the wish to watch: not by the removal  *)
(* of others, not by the firing of one-shot ones, until the channel is     *)
(* detached or the server denies the watcher.                              *)
THEOREM ListenedAlwaysWatched == Spec => []ListenedIsWatched
<1>1. ListenInv => ListenedIsWatched
  BY DEF ListenInv
<1>2. QED
  BY <1>1, ListenInit, ListenStep, PTL DEF Spec

-----------------------------------------------------------------------------
(* The types, grouped as the actions group the variables. *)
LocalTypes ==
    watching \in BOOLEAN /\ remembered \in BOOLEAN /\ entered \in Data \cup {None}

EmitTypes ==
    /\ listeners \subseteq Listeners /\ fired \subseteq OneShot
    /\ nextID \in Listeners \cup {0}
    /\ thread \in [Threads -> Phases]
    /\ calls \in [Drainers -> SUBSET Listeners]
    /\ emitting \in [Drainers -> {"no", "kept", "dropped"}]

RequestRecords ==
    [pc : {"idle", "attach", "connect", "wire", "denied", "reset", "forget"},
     kind : WatchKinds \cup MemberKinds,
     data : Data \cup {None}]

ReqTypes ==
    /\ request \in [Requests -> RequestRecords]
    /\ wire \in Seq(Requests)
    /\ answers \subseteq Requests \X {"ok", "refused"}

NetTypes ==
    /\ up \in BOOLEAN /\ connected \in BOOLEAN /\ watched \in BOOLEAN
    /\ restore \in {"no", "collect", "reopen", "reenter"}
    /\ member \in Data \cup {None}

HistTypes == raced \subseteq {"watch", "member"} /\ cleared \in BOOLEAN

LEMMA TypeOKParts ==
    TypeOK <=> /\ DispatchTypeOK /\ LocalTypes /\ EmitTypes
               /\ ReqTypes /\ NetTypes /\ HistTypes
BY Zenon DEF TypeOK, LocalTypes, EmitTypes, RequestRecords, ReqTypes, NetTypes, HistTypes

LEMMA TypesInit == Init => TypeOK
<1> SUFFICES ASSUME Init PROVE TypeOK
  OBVIOUS
<1>1. DispatchTypeOK
  BY DispatchInvInit DEF Init, DispatchInv
<1>2. LocalTypes
  BY DEF Init, LocalTypes
<1>3. EmitTypes
  BY DEF Init, EmitTypes, Phases
<1>4. ReqTypes
  <2>1. IdleRequest \in RequestRecords
    BY DEF IdleRequest, RequestRecords, WatchKinds
  <2>2. wire \in Seq(Requests)
    BY SMT DEF Init
  <2>3. QED
    BY <2>1, <2>2 DEF Init, ReqTypes
<1>5. NetTypes /\ HistTypes
  BY DEF Init, NetTypes, HistTypes
<1>6. QED
  BY <1>1, <1>2, <1>3, <1>4, <1>5, TypeOKParts

LEMMA LocalTyped == ASSUME TypeOK, [Next]_vars PROVE LocalTypes'
<1> USE DEF LocalTypes
<1>0. LocalTypes
  BY TypeOKParts
<1>1. UNCHANGED localVars => LocalTypes'
  BY <1>0 DEF localVars
<1>2. ASSUME NEW t \in Tasks,
             \/ \E l \in Listeners : Add(t, l) \/ RemoveOne(t, l)
             \/ OffAll(t) \/ Detach(t)
      PROVE  UNCHANGED localVars
  BY <1>2 DEF Add, RemoveOne, OffAll, Removes, Detach
<1>3. ASSUME NEW t \in Tasks, OnDetached(t) \/ DetachForgets(t) PROVE LocalTypes'
  BY <1>0, <1>3 DEF OnDetached, DetachForgets
<1>4. ASSUME NEW t \in Threads,
             EnsureWatching(t) \/ Remember(t) \/ MaybeStopWatching(t)
             \/ StopsWatching(t) \/ Forget(t)
      PROVE  LocalTypes'
  BY <1>0, <1>4 DEF EnsureWatching, Remember, MaybeStopWatching, StopsWatching, Forget, localVars
<1>5. ASSUME NEW d \in Drainers,
             Drain(d) \/ Snapshot(d) \/ CallListener(d) \/ EmitRunsHook(d) \/ EmitReturns(d)
      PROVE  UNCHANGED localVars
  BY <1>5 DEF Drain, Snapshot, CallListener, EmitRunsHook, EmitReturns
<1>6. ASSUME (\E data \in Data : Enter(data)) \/ Leave PROVE LocalTypes'
  BY <1>0, <1>6 DEF Enter, Leave
<1>7. ASSUME NEW r \in Requests,
             Attached(r) \/ Fails(r) \/ Write(r) \/ ReadAnswer(r) \/ Denied(r)
      PROVE  UNCHANGED localVars
  BY <1>7 DEF Attached, Fails, Write, ReadAnswer, Denied
<1>8. ASSUME NEW r \in Requests, ResetWatching(r) \/ ForgetDenied(r) PROVE LocalTypes'
  BY <1>0, <1>8 DEF ResetWatching, ForgetDenied
<1>9. ASSUME \/ \E action \in Fns : EmitPresence(action)
             \/ ServerAnswers \/ Drop \/ Connect
             \/ RestoreCollects \/ RestoreReopens \/ RestoreReenters
             \/ UNCHANGED vars
      PROVE  UNCHANGED localVars
  BY <1>9 DEF EmitPresence, ServerAnswers, Drop, Connect, RestoreCollects,
              RestoreReopens, RestoreReenters, vars
<1>10. QED
  BY <1>1, <1>2, <1>3, <1>4, <1>5, <1>6, <1>7, <1>8, <1>9 DEF Next

LEMMA EmitTyped == ASSUME TypeOK, [Next]_vars PROVE EmitTypes'
<1> USE DEF EmitTypes, Phases
<1>0. EmitTypes /\ Tasks \subseteq Threads /\ Drainers \subseteq Threads
  BY TypeOKParts DEF Threads
<1>1. UNCHANGED emitVars => EmitTypes'
  BY <1>0 DEF emitVars
<1>2. ASSUME NEW t \in Tasks, NEW l \in Listeners, Add(t, l) PROVE EmitTypes'
  BY <1>0, <1>2 DEF Add, Register, Goes
<1>3. ASSUME NEW t \in Tasks,
             \/ \E l \in Listeners : RemoveOne(t, l)
             \/ OffAll(t) \/ Detach(t) \/ OnDetached(t) \/ DetachForgets(t)
      PROVE  EmitTypes'
  BY <1>0, <1>3 DEF RemoveOne, OffAll, Removes, Detach, OnDetached, DetachForgets, Goes
<1>4. ASSUME NEW t \in Threads,
             EnsureWatching(t) \/ Remember(t) \/ MaybeStopWatching(t)
             \/ StopsWatching(t) \/ Forget(t)
      PROVE  EmitTypes'
  BY <1>0, <1>4 DEF EnsureWatching, Remember, MaybeStopWatching, StopsWatching, Forget, Goes
<1>5. ASSUME NEW d \in Drainers,
             Snapshot(d) \/ CallListener(d) \/ EmitRunsHook(d) \/ EmitReturns(d)
      PROVE  EmitTypes'
  BY <1>0, <1>5 DEF Snapshot, On, CallListener, EmitRunsHook, EmitReturns, Goes
<1>6. ASSUME NEW r \in Requests,
             \/ Attached(r) \/ Fails(r) \/ Write(r) \/ ReadAnswer(r) \/ Denied(r)
             \/ ResetWatching(r) \/ ForgetDenied(r)
      PROVE  UNCHANGED emitVars
  BY <1>6 DEF Attached, Fails, Write, ReadAnswer, Denied, ResetWatching, ForgetDenied
<1>7. ASSUME \/ \E action \in Fns : EmitPresence(action)
             \/ \E d \in Drainers : Drain(d)
             \/ \E data \in Data : Enter(data)
             \/ Leave \/ ServerAnswers \/ Drop \/ Connect
             \/ RestoreCollects \/ RestoreReopens \/ RestoreReenters
             \/ UNCHANGED vars
      PROVE  UNCHANGED emitVars
  BY <1>7 DEF EmitPresence, Drain, Enter, Leave, ServerAnswers, Drop, Connect,
              RestoreCollects, RestoreReopens, RestoreReenters, vars
<1>8. QED
  BY <1>1, <1>2, <1>3, <1>4, <1>5, <1>6, <1>7 DEF Next

(* What the two ways to start a request do to the slots. *)
LEMMA SpawnTypes ==
    ASSUME ReqTypes, NEW pc \in {"attach", "connect"},
           NEW kind \in WatchKinds \cup MemberKinds, NEW data \in Data \cup {None},
           Spawn(pc, kind, data)
    PROVE  ReqTypes'
<1>1. [pc |-> pc, kind |-> kind, data |-> data] \in RequestRecords
  BY DEF RequestRecords
<1>2. QED
  BY <1>1 DEF Spawn, ReqTypes

LEMMA ReqTyped == ASSUME TypeOK, [Next]_vars PROVE ReqTypes'
<1> USE DEF WatchKinds, MemberKinds
<1>0. ReqTypes /\ entered \in Data \cup {None}
  BY TypeOKParts DEF LocalTypes
<1>1. UNCHANGED reqVars => ReqTypes'
  BY <1>0 DEF reqVars, ReqTypes
<1>2. ASSUME NEW t \in Tasks,
             \/ \E l \in Listeners : Add(t, l) \/ RemoveOne(t, l)
             \/ OffAll(t) \/ Detach(t) \/ OnDetached(t)
      PROVE  UNCHANGED reqVars
  BY <1>2 DEF Add, RemoveOne, OffAll, Removes, Detach, OnDetached
<1>3. ASSUME NEW t \in Tasks, DetachForgets(t) PROVE ReqTypes'
  BY <1>0, <1>3, SpawnTypes DEF DetachForgets
<1>4. ASSUME NEW t \in Threads,
             EnsureWatching(t) \/ MaybeStopWatching(t) \/ StopsWatching(t)
      PROVE  UNCHANGED reqVars
  BY <1>4 DEF EnsureWatching, MaybeStopWatching, StopsWatching
<1>5. ASSUME NEW t \in Threads, Remember(t) \/ Forget(t) PROVE ReqTypes'
  BY <1>0, <1>5, SpawnTypes DEF Remember, Forget
<1>6. ASSUME NEW d \in Drainers,
             Drain(d) \/ Snapshot(d) \/ CallListener(d) \/ EmitRunsHook(d) \/ EmitReturns(d)
      PROVE  UNCHANGED reqVars
  BY <1>6 DEF Drain, Snapshot, CallListener, EmitRunsHook, EmitReturns
<1>7. ASSUME (\E data \in Data : Enter(data)) \/ Leave PROVE ReqTypes'
  BY <1>0, <1>7, SpawnTypes DEF Enter, Leave
<1>8. ASSUME NEW r \in Requests,
             \/ Attached(r) \/ Fails(r) \/ Write(r) \/ ReadAnswer(r) \/ Denied(r)
             \/ ResetWatching(r) \/ ForgetDenied(r)
      PROVE  ReqTypes'
  <2>1. \A pc \in {"connect", "wire", "denied", "reset", "forget"} :
           Pc(r, pc) => request' \in [Requests -> RequestRecords]
    BY <1>0 DEF Pc, ReqTypes, RequestRecords
  <2>2. Ends(r) => request' \in [Requests -> RequestRecords]
    <3>1. IdleRequest \in RequestRecords
      BY DEF IdleRequest, RequestRecords
    <3>2. QED
      BY <1>0, <3>1 DEF Ends, ReqTypes
  <2>3. request' \in [Requests -> RequestRecords]
    BY <1>8, <2>1, <2>2
    DEF Attached, Fails, Write, ReadAnswer, Denied, ResetWatching, ForgetDenied
  <2>4. wire' = wire \/ wire' = Append(wire, r)
    BY <1>8
    DEF Attached, Fails, Write, ReadAnswer, Denied, ResetWatching, ForgetDenied
  <2>5. answers' \subseteq answers
    BY <1>8
    DEF Attached, Fails, Write, ReadAnswer, Denied, ResetWatching, ForgetDenied
  <2>6. QED
    BY <1>0, <2>3, <2>4, <2>5 DEF ReqTypes
<1>9. ASSUME ServerAnswers PROVE ReqTypes'
  <2>1. Head(wire) \in Requests /\ Tail(wire) \in Seq(Requests)
    BY <1>0, <1>9 DEF ServerAnswers, ReqTypes
  <2>2. PICK x \in {"ok", "refused"} : answers' = answers \cup {<<Head(wire), x>>}
    BY <1>9 DEF ServerAnswers
  <2>3. UNCHANGED request /\ wire' = Tail(wire)
    BY <1>9 DEF ServerAnswers
  <2>4. QED
    BY <1>0, <2>1, <2>2, <2>3 DEF ReqTypes
<1>10. ASSUME Drop PROVE ReqTypes'
  <2>1. IdleRequest \in RequestRecords
    BY DEF IdleRequest, RequestRecords
  <2>2. request' \in [Requests -> RequestRecords]
    BY <1>0, <1>10, <2>1 DEF Drop, ReqTypes
  <2>3. wire' = <<>> /\ answers' = {}
    BY <1>10 DEF Drop
  <2>4. QED
    BY <2>2, <2>3, SMT DEF ReqTypes
<1>11. ASSUME RestoreReopens \/ RestoreReenters PROVE ReqTypes'
  BY <1>0, <1>1, <1>11, SpawnTypes DEF RestoreReopens, RestoreReenters
<1>12. ASSUME \/ \E action \in Fns : EmitPresence(action)
              \/ Connect \/ RestoreCollects \/ UNCHANGED vars
       PROVE  UNCHANGED reqVars
  BY <1>12 DEF EmitPresence, Connect, RestoreCollects, vars
<1>13. QED
  BY <1>1, <1>2, <1>3, <1>4, <1>5, <1>6, <1>7, <1>8, <1>9, <1>10, <1>11, <1>12 DEF Next

LEMMA NetTyped == ASSUME TypeOK, [Next]_vars PROVE NetTypes'
<1> USE DEF NetTypes
<1>0. NetTypes /\ ReqTypes
  BY TypeOKParts
<1>1. UNCHANGED netVars => NetTypes'
  BY <1>0 DEF netVars
<1>2. ASSUME NEW t \in Tasks,
             \/ \E l \in Listeners : Add(t, l) \/ RemoveOne(t, l)
             \/ OffAll(t) \/ Detach(t) \/ OnDetached(t) \/ DetachForgets(t)
      PROVE  UNCHANGED netVars
  BY <1>2 DEF Add, RemoveOne, OffAll, Removes, Detach, OnDetached, DetachForgets
<1>3. ASSUME NEW t \in Threads,
             EnsureWatching(t) \/ Remember(t) \/ MaybeStopWatching(t)
             \/ StopsWatching(t) \/ Forget(t)
      PROVE  UNCHANGED netVars
  BY <1>3 DEF EnsureWatching, Remember, MaybeStopWatching, StopsWatching, Forget
<1>4. ASSUME NEW d \in Drainers,
             Drain(d) \/ Snapshot(d) \/ CallListener(d) \/ EmitRunsHook(d) \/ EmitReturns(d)
      PROVE  UNCHANGED netVars
  BY <1>4 DEF Drain, Snapshot, CallListener, EmitRunsHook, EmitReturns
<1>5. ASSUME NEW r \in Requests,
             \/ Attached(r) \/ Fails(r) \/ Write(r) \/ ReadAnswer(r) \/ Denied(r)
             \/ ResetWatching(r) \/ ForgetDenied(r)
      PROVE  UNCHANGED netVars
  BY <1>5 DEF Attached, Fails, Write, ReadAnswer, Denied, ResetWatching, ForgetDenied
<1>6. ASSUME ServerAnswers PROVE NetTypes'
  <2>1. Head(wire) \in Requests
    BY <1>0, <1>6 DEF ServerAnswers, ReqTypes
  <2>2. request[Head(wire)].data \in Data \cup {None}
    BY <1>0, <2>1 DEF ReqTypes, RequestRecords
  <2>3. watched' \in BOOLEAN
    BY <1>0, <1>6 DEF ServerAnswers
  <2>4. member' \in Data \cup {None} /\ UNCHANGED <<up, restore, connected>>
    BY <1>0, <1>6, <2>2 DEF ServerAnswers
  <2>5. QED
    BY <1>0, <2>3, <2>4
<1>7. ASSUME \/ Drop \/ Connect
             \/ RestoreCollects \/ RestoreReopens \/ RestoreReenters
      PROVE  NetTypes'
  BY <1>0, <1>7 DEF Drop, Connect, RestoreCollects, RestoreReopens, RestoreReenters
<1>8. ASSUME \/ \E action \in Fns : EmitPresence(action)
             \/ \E data \in Data : Enter(data)
             \/ Leave \/ UNCHANGED vars
      PROVE  UNCHANGED netVars
  BY <1>8 DEF EmitPresence, Enter, Leave, vars
<1>9. QED
  BY <1>1, <1>2, <1>3, <1>4, <1>5, <1>6, <1>7, <1>8 DEF Next

LEMMA HistTyped == ASSUME TypeOK, [Next]_vars PROVE HistTypes' /\ raced \subseteq raced'
<1> DEFINE G == HistTypes' /\ raced \subseteq raced'
<1> USE DEF HistTypes
<1>0. HistTypes
  BY TypeOKParts
<1>1. UNCHANGED histVars => G
  BY <1>0 DEF histVars
<1>2. ASSUME NEW t \in Tasks,
             \/ \E l \in Listeners : Add(t, l) \/ RemoveOne(t, l)
             \/ OffAll(t) \/ Detach(t) \/ DetachForgets(t)
      PROVE  UNCHANGED histVars
  BY <1>2 DEF Add, RemoveOne, OffAll, Removes, Detach, DetachForgets
<1>3. ASSUME NEW t \in Tasks, OnDetached(t) PROVE G
  BY <1>0, <1>3 DEF OnDetached
<1>4. ASSUME NEW t \in Threads,
             EnsureWatching(t) \/ Remember(t) \/ MaybeStopWatching(t)
             \/ StopsWatching(t) \/ Forget(t)
      PROVE  G
  BY <1>0, <1>4 DEF EnsureWatching, Remember, MaybeStopWatching, StopsWatching,
              Forget, Races, histVars
<1>5. ASSUME NEW d \in Drainers,
             Drain(d) \/ Snapshot(d) \/ CallListener(d) \/ EmitRunsHook(d) \/ EmitReturns(d)
      PROVE  UNCHANGED histVars
  BY <1>5 DEF Drain, Snapshot, CallListener, EmitRunsHook, EmitReturns
<1>6. ASSUME NEW r \in Requests,
             \/ Attached(r) \/ Fails(r) \/ Write(r) \/ ReadAnswer(r) \/ Denied(r)
             \/ ResetWatching(r) \/ ForgetDenied(r)
      PROVE  G
  BY <1>0, <1>6 DEF Attached, Fails, Unhealed, Write, ReadAnswer, Denied, ResetWatching,
                    ForgetDenied, histVars
<1>7. ASSUME (\E data \in Data : Enter(data)) \/ Leave PROVE G
  BY <1>0, <1>7 DEF Enter, Leave, Races
<1>8. ASSUME Drop \/ RestoreCollects PROVE G
  BY <1>0, <1>8 DEF Drop, RestoreCollects, Races
<1>9. ASSUME \/ \E action \in Fns : EmitPresence(action)
             \/ ServerAnswers \/ Connect \/ RestoreReopens \/ RestoreReenters
             \/ UNCHANGED vars
      PROVE  UNCHANGED histVars
  BY <1>9 DEF EmitPresence, ServerAnswers, Connect, RestoreReopens, RestoreReenters, vars
<1>10. QED
  BY <1>1, <1>2, <1>3, <1>4, <1>5, <1>6, <1>7, <1>8, <1>9 DEF Next

TypeInv == TypeOK /\ DispatchInv

LEMMA TypeInvInit == Init => TypeInv
<1>1. Init => DispatchInit
  BY DEF Init
<1>2. QED
  BY <1>1, TypesInit, DispatchInvInit DEF TypeInv

LEMMA TypeInvStep == TypeInv /\ [Next]_vars => TypeInv'
<1> SUFFICES ASSUME TypeInv, [Next]_vars PROVE TypeInv'
  OBVIOUS
<1>1. DispatchInv'
  BY PresenceDispatches, DispatchStep DEF TypeInv
<1>2. TypeOK
  BY DEF TypeInv
<1>3. /\ DispatchTypeOK' /\ LocalTypes' /\ EmitTypes'
      /\ ReqTypes' /\ NetTypes' /\ HistTypes'
  BY <1>1, <1>2, LocalTyped, EmitTyped, ReqTyped, NetTyped, HistTyped DEF DispatchInv
<1>4. TypeOK'
  BY <1>3 DEF TypeOK, DispatchTypeOK, LocalTypes, EmitTypes, RequestRecords, ReqTypes, NetTypes,
              HistTypes
<1>5. QED
  BY <1>1, <1>4 DEF TypeInv

(* Every variable of the presence surface keeps its type. *)
THEOREM PresenceTypeCorrect == Spec => []TypeOK
<1>1. TypeInv => TypeOK
  BY DEF TypeInv
<1>2. QED
  BY <1>1, TypeInvInit, TypeInvStep, PTL DEF Spec

-----------------------------------------------------------------------------
(* One-shot listeners. *)

(* A registration that was called, or that a drainer is about to call, is  *)
(* not registered any more when it is a one-shot one, and ids only grow;   *)
(* a drainer has listeners to call only while it runs the emit.            *)
OnceInv ==
    /\ \A l \in listeners \cup fired \cup UNION {calls[d] : d \in Drainers} : l <= nextID
    /\ listeners \cap fired = {}
    /\ \A d \in Drainers : /\ calls[d] \cap OneShot \cap (listeners \cup fired) = {}
                           /\ emitting[d] # "no" => drainer[d].pc = "call"
                           /\ calls[d] # {} => emitting[d] # "no"

LEMMA OnceInit == Init => OnceInv
BY DEF Init, OnceInv

(* Removing registrations leaves the invariant.                            *)
LEMMA RemovalKeepsOnce ==
    ASSUME OnceInv, listeners' \subseteq listeners, UNCHANGED <<nextID, fired, calls, emitting>>,
           UNCHANGED drainer
    PROVE  OnceInv'
BY DEF OnceInv

LEMMA AddKeepsOnce ==
    ASSUME TypeInv, OnceInv, NEW t \in Tasks, NEW l \in Listeners, Add(t, l)
    PROVE  OnceInv'
<1>1. /\ l > nextID /\ nextID' = l /\ listeners' = listeners \cup {l}
      /\ UNCHANGED <<fired, calls, emitting, drainer>>
  BY DEF Add, Register, dispatchVars
<1>2. l \in Nat /\ nextID \in Nat
  BY PresenceAssumption DEF TypeInv, TypeOK
<1>3. /\ listeners \subseteq Nat /\ fired \subseteq Nat
      /\ \A d \in Drainers : calls[d] \subseteq Nat
  BY PresenceAssumption DEF TypeInv, TypeOK
<1>4. l \notin fired /\ \A d \in Drainers : l \notin calls[d]
  BY <1>1, <1>2, <1>3 DEF OnceInv
<1>5. \A k \in listeners' \cup fired' \cup UNION {calls'[d] : d \in Drainers} : k <= nextID'
  <2>1. ASSUME NEW k \in Nat, k <= nextID PROVE k <= l
    BY <1>1, <1>2, <2>1
  <2>2. QED
    BY <1>1, <1>2, <1>3, <2>1 DEF OnceInv
<1>6. QED
  BY <1>1, <1>4, <1>5 DEF OnceInv

LEMMA SnapshotKeepsOnce ==
    ASSUME TypeInv, OnceInv, NEW d \in Drainers, Snapshot(d)
    PROVE  OnceInv'
<1> DEFINE on == On(drainer[d].fn)
<1>1. /\ drainer[d].pc = "call"
      /\ calls' = [calls EXCEPT ![d] = on]
      /\ listeners' = listeners \ (on \cap OneShot)
      /\ emitting' = [emitting EXCEPT ![d] = IF on \cap OneShot = {} THEN "kept" ELSE "dropped"]
      /\ UNCHANGED <<drainer, nextID, fired>>
  BY DEF Snapshot, dispatchVars
<1>2. on \subseteq listeners
  BY DEF On
<1>3. calls'[d] = on /\ \A e \in Drainers \ {d} : calls'[e] = calls[e]
  BY <1>1 DEF TypeInv, TypeOK
<1>4. emitting'[d] # "no" /\ \A e \in Drainers \ {d} : emitting'[e] = emitting[e]
  BY <1>1 DEF TypeInv, TypeOK
<1> HIDE DEF on
<1>5. QED
  BY <1>1, <1>2, <1>3, <1>4 DEF OnceInv

LEMMA CallKeepsOnce ==
    ASSUME TypeInv, OnceInv, NEW d \in Drainers, CallListener(d)
    PROVE  OnceInv'
<1>1. PICK l \in calls[d] : /\ fired' = fired \cup ({l} \cap OneShot)
                            /\ calls' = [calls EXCEPT ![d] = @ \ {l}]
  BY DEF CallListener
<1>2. UNCHANGED <<listeners, nextID, emitting, drainer>>
  BY DEF CallListener, dispatchVars
<1>3. /\ calls'[d] = calls[d] \ {l}
      /\ \A e \in Drainers \ {d} : calls'[e] = calls[e]
  BY <1>1 DEF TypeInv, TypeOK
<1>4. \A e \in Drainers \ {d} : calls[e] = {}
  <2>1. drainer[d].pc = "call"
    BY <1>1 DEF OnceInv
  <2>2. QED
    BY <2>1 DEF OnceInv, TypeInv, DispatchInv, OneDrainer, Gone
<1>5. QED
  BY <1>1, <1>2, <1>3, <1>4 DEF OnceInv

LEMMA EmitKeepsOnce ==
    ASSUME TypeInv, OnceInv, NEW d \in Drainers, EmitRunsHook(d) \/ EmitReturns(d) \/ Drain(d)
    PROVE  OnceInv'
<1>1. CASE EmitRunsHook(d)
  <2>1. /\ emitting[d] = "dropped" /\ emitting' = [emitting EXCEPT ![d] = "kept"]
        /\ UNCHANGED <<listeners, nextID, fired, calls, drainer>>
    BY <1>1 DEF EmitRunsHook, dispatchVars
  <2>2. QED
    BY <2>1 DEF OnceInv, TypeInv, TypeOK
<1>2. CASE EmitReturns(d)
  <2>1. /\ calls[d] = {} /\ emitting' = [emitting EXCEPT ![d] = "no"]
        /\ drainer' = [drainer EXCEPT ![d] = Loop]
        /\ UNCHANGED <<listeners, nextID, fired, calls>>
    BY <1>2 DEF EmitReturns, Return
  <2>2. /\ emitting'[d] = "no"
        /\ \A e \in Drainers \ {d} : emitting'[e] = emitting[e] /\ drainer'[e] = drainer[e]
    BY <2>1 DEF TypeInv, TypeOK, DispatchTypeOK
  <2>3. QED
    BY <2>1, <2>2 DEF OnceInv
<1>3. CASE Drain(d)
  <2>1. /\ drainer[d].pc = "loop" /\ UNCHANGED <<listeners, nextID, fired, calls, emitting>>
        /\ \E x : drainer' = [drainer EXCEPT ![d] = x]
    BY <1>3 DEF Drain, Take, Exit, emitVars
  <2>2. emitting[d] = "no"
    BY <2>1 DEF OnceInv
  <2>3. \A e \in Drainers \ {d} : drainer'[e] = drainer[e]
    BY <2>1 DEF TypeInv, TypeOK, DispatchTypeOK
  <2>4. QED
    BY <2>1, <2>2, <2>3 DEF OnceInv
<1>4. QED
  BY <1>1, <1>2, <1>3

(* A drainer that the enqueue starts was gone, so it was calling nothing.  *)
LEMMA EnqueueKeepsOnce ==
    ASSUME TypeInv, OnceInv, NEW action \in Fns, EmitPresence(action)
    PROVE  OnceInv'
<1>1. UNCHANGED <<listeners, nextID, fired, calls, emitting>> /\ Enqueue(action)
  BY DEF EmitPresence, emitVars
<1>2. \A d \in Drainers : drainer'[d] = drainer[d] \/ drainer[d] = Gone
  BY <1>1 DEF Enqueue, TypeInv, TypeOK, DispatchTypeOK
<1>3. QED
  BY <1>1, <1>2 DEF OnceInv, Gone

LEMMA OnceStep == TypeInv /\ OnceInv /\ [Next]_vars => OnceInv'
<1> SUFFICES ASSUME TypeInv, OnceInv, [Next]_vars PROVE OnceInv'
  OBVIOUS
<1> DEFINE Kept == /\ listeners' \subseteq listeners
                   /\ UNCHANGED <<nextID, fired, calls, emitting, drainer>>
<1>1. Kept => OnceInv'
  BY RemovalKeepsOnce
<1>2. ASSUME NEW t \in Tasks,
             \/ \E l \in Listeners : RemoveOne(t, l)
             \/ OffAll(t) \/ Detach(t) \/ OnDetached(t) \/ DetachForgets(t)
      PROVE  Kept
  BY <1>2
  DEF RemoveOne, OffAll, Removes, Detach, OnDetached, DetachForgets, dispatchVars
<1>3. ASSUME NEW t \in Threads,
             EnsureWatching(t) \/ Remember(t) \/ MaybeStopWatching(t)
             \/ StopsWatching(t) \/ Forget(t)
      PROVE  Kept
  BY <1>3 DEF EnsureWatching, Remember, MaybeStopWatching, StopsWatching, Forget, dispatchVars
<1>4. ASSUME NEW r \in Requests,
             \/ Attached(r) \/ Fails(r) \/ Write(r) \/ ReadAnswer(r) \/ Denied(r)
             \/ ResetWatching(r) \/ ForgetDenied(r)
      PROVE  Kept
  BY <1>4 DEF Attached, Fails, Write, ReadAnswer, Denied, ResetWatching, ForgetDenied,
              emitVars, dispatchVars
<1>5. ASSUME \/ \E data \in Data : Enter(data)
             \/ Leave \/ ServerAnswers \/ Drop \/ Connect
             \/ RestoreCollects \/ RestoreReopens \/ RestoreReenters
             \/ UNCHANGED vars
      PROVE  Kept
  BY <1>5 DEF Enter, Leave, ServerAnswers, Drop, Connect, RestoreCollects,
              RestoreReopens, RestoreReenters, vars, emitVars, dispatchVars
<1>6. QED
  BY <1>1, <1>2, <1>3, <1>4, <1>5, AddKeepsOnce, SnapshotKeepsOnce, CallKeepsOnce,
     EmitKeepsOnce, EnqueueKeepsOnce
  DEF Next

(* Who calls a one-shot listener finds it not called before.               *)
LEMMA OnceCalls ==
    ASSUME TypeInv, OnceInv, [Next]_vars
    PROVE  \A d \in Drainers : (calls[d] \ calls'[d]) \cap fired = {}
<1>1. fired \subseteq OneShot
  BY DEF TypeInv, TypeOK
<1>2. \A d \in Drainers : calls[d] \cap fired = {}
  BY <1>1 DEF OnceInv
<1>3. QED
  BY <1>2

(* A one-shot listener is called at most once, whatever comes between its  *)
(* event and its call.                                                     *)
THEOREM AlwaysFiresOnce == Spec => OnceFiresOnce
<1>1. TypeInv /\ OnceInv /\ [Next]_vars
         => [\A d \in Drainers : (calls[d] \ calls'[d]) \cap fired = {}]_vars
  BY OnceCalls
<1>2. QED
  BY <1>1, TypeInvInit, TypeInvStep, OnceInit, OnceStep, PTL DEF Spec, OnceFiresOnce

-----------------------------------------------------------------------------
(* The frames of a socket. *)

Carried == {wire[i] : i \in DOMAIN wire}
Verdicts == {"ok", "refused"}

(* A request on the wire is there once and unanswered; one that waits for  *)
(* its answer was written on this socket; only some requests are refused,  *)
(* and only one kind of them asks what to do then.                         *)
FrameInv ==
    /\ \A i, j \in DOMAIN wire : wire[i] = wire[j] => i = j
    /\ \A r \in Carried : /\ request[r].pc = "wire"
                          /\ \A x \in Verdicts : <<r, x>> \notin answers
    /\ \A r \in Requests : /\ \A x \in Verdicts : <<r, x>> \in answers => request[r].pc = "wire"
                           /\ <<r, "refused">> \in answers
                                 => request[r].kind \in {"sub", "reopen", "enter"}
                           /\ request[r].kind = "enter" => request[r].data \in Data
                           /\ request[r].kind \in WatchKinds => request[r].pc # "attach"
                           /\ request[r].pc \in {"denied", "reset", "forget"}
                                 => request[r].kind = "sub"
    /\ ~up => wire = <<>> /\ answers = {} /\ ~watched
    /\ up => connected

LEMMA FrameInit == Init => FrameInv
BY DEF Init, FrameInv, IdleRequest, Carried

(* Nothing changes for any request but r.                                  *)
Same(q) == /\ request'[q] = request[q]
           /\ q \in Carried' <=> q \in Carried
           /\ \A x \in Verdicts : <<q, x>> \in answers' <=> <<q, x>> \in answers
OnlyOne(r) == \A q \in Requests \ {r} : Same(q)

(* A request starts in a slot of which nothing is on the wire.             *)
LEMMA SpawnFacts ==
    ASSUME TypeInv, FrameInv, NEW pc, NEW kind, NEW data, Spawn(pc, kind, data)
    PROVE  /\ UNCHANGED <<wire, answers>>
           /\ \E r \in Requests :
                 /\ request[r].pc = "idle"
                 /\ request'[r] = [pc |-> pc, kind |-> kind, data |-> data]
                 /\ OnlyOne(r)
                 /\ r \notin Carried' /\ \A x \in Verdicts : <<r, x>> \notin answers'
<1>1. PICK r \in Requests :
          /\ request[r].pc = "idle"
          /\ request' = [request EXCEPT ![r] = [pc |-> pc, kind |-> kind, data |-> data]]
          /\ UNCHANGED <<wire, answers>>
  BY DEF Spawn
<1>2. request'[r] = [pc |-> pc, kind |-> kind, data |-> data]
      /\ \A q \in Requests \ {r} : request'[q] = request[q]
  BY <1>1 DEF TypeInv, TypeOK
<1>3. Carried' = Carried
  BY <1>1 DEF Carried
<1>4. r \notin Carried /\ \A x \in Verdicts : <<r, x>> \notin answers
  BY <1>1 DEF FrameInv, Verdicts
<1>5. QED
  BY <1>1, <1>2, <1>3, <1>4 DEF OnlyOne, Same

LEMMA SpawnKeepsFrames ==
    ASSUME TypeInv, FrameInv, NEW pc \in {"attach", "connect"}, NEW kind, NEW data,
           Spawn(pc, kind, data),
           kind = "enter" => data \in Data,
           kind \in WatchKinds => pc = "connect",
           UNCHANGED <<up, watched, connected>>
    PROVE  FrameInv'
<1>1. PICK r \in Requests :
                 /\ request[r].pc = "idle"
                 /\ request'[r] = [pc |-> pc, kind |-> kind, data |-> data]
                 /\ OnlyOne(r)
                 /\ r \notin Carried' /\ \A x \in Verdicts : <<r, x>> \notin answers'
  BY SpawnFacts
<1>2. UNCHANGED <<wire, answers>>
  BY SpawnFacts
<1>3. Carried' = Carried /\ Carried \subseteq Requests
  BY <1>2 DEF Carried, TypeInv, TypeOK
<1>4. \A q \in Requests \ {r} : request'[q] = request[q]
  BY <1>1 DEF OnlyOne, Same
<1>5. request'[r].pc = pc /\ request'[r].kind = kind /\ request'[r].data = data
  BY <1>1
<1>6. \A q \in Carried' : /\ request'[q].pc = "wire"
                          /\ \A x \in Verdicts : <<q, x>> \notin answers'
  BY <1>1, <1>2, <1>3, <1>4 DEF FrameInv
<1>7. ASSUME NEW q \in Requests
      PROVE  /\ \A x \in Verdicts : <<q, x>> \in answers' => request'[q].pc = "wire"
             /\ <<q, "refused">> \in answers'
                                 => request'[q].kind \in {"sub", "reopen", "enter"}
             /\ request'[q].kind = "enter" => request'[q].data \in Data
             /\ request'[q].kind \in WatchKinds => request'[q].pc # "attach"
             /\ request'[q].pc \in {"denied", "reset", "forget"}
                                 => request'[q].kind = "sub"
  <2>1. CASE q = r
    BY <1>1, <1>5, <2>1 DEF Verdicts
  <2>2. CASE q # r
    BY <1>2, <1>4, <2>2 DEF FrameInv
  <2>3. QED
    BY <2>1, <2>2
<1>8. QED
  BY <1>2, <1>6, <1>7 DEF FrameInv

(* Steps that leave the requests and the socket alone.                     *)
LEMMA QuietKeepsFrames ==
    ASSUME FrameInv, UNCHANGED <<request, wire, answers, up, watched, connected>>
    PROVE  FrameInv'
BY DEF FrameInv, Carried

(* What a step of one request does to it and to the wire.                  *)
LEMMA PcFacts ==
    ASSUME TypeInv, NEW r \in Requests, NEW pc, Pc(r, pc)
    PROVE  /\ request'[r] = [request[r] EXCEPT !.pc = pc]
           /\ request'[r].pc = pc /\ request'[r].kind = request[r].kind
           /\ request'[r].data = request[r].data
           /\ \A q \in Requests \ {r} : request'[q] = request[q]
<1>1. request[r] \in RequestRecords
  BY DEF TypeInv, TypeOK, RequestRecords
<1>2. request' = [request EXCEPT ![r].pc = pc]
  BY DEF Pc
<1>3. /\ request'[r] = [request[r] EXCEPT !.pc = pc]
      /\ \A q \in Requests \ {r} : request'[q] = request[q]
  BY <1>2 DEF TypeInv, TypeOK
<1>4. QED
  BY <1>1, <1>3 DEF RequestRecords

LEMMA EndsFacts ==
    ASSUME TypeInv, NEW r \in Requests, Ends(r)
    PROVE  /\ request'[r].pc = "idle" /\ request'[r].kind = "sub"
           /\ \A q \in Requests \ {r} : request'[q] = request[q]
BY DEF Ends, IdleRequest, TypeInv, TypeOK

LEMMA WriteFacts ==
    ASSUME TypeInv, FrameInv, NEW r \in Requests, Write(r)
    PROVE  /\ Carried' = Carried \cup {r} /\ r \notin Carried
           /\ \A i, j \in DOMAIN wire' : wire'[i] = wire'[j] => i = j
           /\ UNCHANGED answers
           /\ OnlyOne(r)
           /\ request'[r].pc = "wire" /\ request'[r].kind = request[r].kind
           /\ request'[r].data = request[r].data
<1>1. wire \in Seq(Requests) /\ wire' = Append(wire, r) /\ UNCHANGED answers
  BY DEF Write, TypeInv, TypeOK
<1>2. /\ DOMAIN wire' = 1..(Len(wire) + 1) /\ DOMAIN wire = 1..Len(wire)
      /\ wire'[Len(wire) + 1] = r
      /\ \A i \in DOMAIN wire : wire'[i] = wire[i]
      /\ Len(wire) \in Nat
  BY <1>1
<1>3. Carried' = Carried \cup {r}
  BY <1>2 DEF Carried
<1>4. r \notin Carried
  BY DEF FrameInv, Write
<1>5. \A i, j \in DOMAIN wire' : wire'[i] = wire'[j] => i = j
  <2>1. \A i \in DOMAIN wire : wire[i] # r
    BY <1>4 DEF Carried
  <2>2. \A i, j \in DOMAIN wire : wire[i] = wire[j] => i = j
    BY DEF FrameInv
  <2>3. \A i \in DOMAIN wire' : i \in DOMAIN wire \/ i = Len(wire) + 1
    BY <1>2
  <2>4. QED
    BY <1>2, <2>1, <2>2, <2>3
<1>6. Pc(r, "wire")
  BY DEF Write
<1>7. OnlyOne(r)
  BY <1>1, <1>3, <1>6, PcFacts DEF OnlyOne, Same
<1>8. QED
  BY <1>1, <1>3, <1>4, <1>5, <1>6, <1>7, PcFacts

LEMMA AnswerFacts ==
    ASSUME TypeInv, FrameInv, ServerAnswers
    PROVE  /\ Head(wire) \in Requests /\ request[Head(wire)].pc = "wire"
           /\ Carried' = Carried \ {Head(wire)} /\ Head(wire) \in Carried
           /\ \A i, j \in DOMAIN wire' : wire'[i] = wire'[j] => i = j
           /\ UNCHANGED request
           /\ OnlyOne(Head(wire))
           /\ up
<1> DEFINE r == Head(wire)
<1>1. wire \in Seq(Requests) /\ wire # <<>> /\ wire' = Tail(wire)
  BY DEF ServerAnswers, TypeInv, TypeOK
<1>2. /\ r = wire[1] /\ 1 \in DOMAIN wire /\ Len(wire) \in Nat
      /\ DOMAIN wire = 1..Len(wire) /\ DOMAIN wire' = 1..(Len(wire) - 1)
      /\ \A i \in DOMAIN wire' : wire'[i] = wire[i + 1]
  BY <1>1
<1>3. r \in Carried /\ r \in Requests
  BY <1>1, <1>2 DEF Carried
<1>4. \A i, j \in DOMAIN wire : wire[i] = wire[j] => i = j
  BY DEF FrameInv
<1> HIDE DEF r
<1>5. \A i, j \in DOMAIN wire' : wire'[i] = wire'[j] => i = j
  BY <1>2, <1>4
<1>6. r \notin Carried'
  <2>1. \A i \in DOMAIN wire' : i + 1 \in DOMAIN wire /\ i + 1 # 1
    BY <1>2
  <2>2. QED
    BY <1>2, <1>4, <2>1 DEF Carried
<1>7. Carried' \subseteq Carried
  BY <1>2 DEF Carried
<1>8. Carried \subseteq Carried' \cup {r}
  <2>1. \A i \in DOMAIN wire : i = 1 \/ (i - 1 \in DOMAIN wire' /\ (i - 1) + 1 = i)
    BY <1>2
  <2>2. QED
    BY <1>2, <2>1 DEF Carried
<1>9. UNCHANGED request
  BY DEF ServerAnswers
<1>10. \A q \in Requests \ {r} : \A x \in Verdicts : <<q, x>> \in answers' <=> <<q, x>> \in answers
  <2>1. \E v \in Verdicts : answers' = answers \cup {<<r, v>>}
    BY DEF ServerAnswers, Verdicts, r
  <2>2. QED
    BY <2>1
<1>11. OnlyOne(r)
  BY <1>6, <1>7, <1>8, <1>9, <1>10 DEF OnlyOne, Same
<1>12. request[r].pc = "wire" /\ up
  BY <1>1, <1>3 DEF FrameInv
<1>13. QED
  BY <1>3, <1>5, <1>6, <1>7, <1>8, <1>9, <1>11, <1>12 DEF r

LEMMA ReadFacts ==
    ASSUME TypeInv, FrameInv, NEW r \in Requests, ReadAnswer(r)
    PROVE  /\ request[r].pc = "wire" /\ r \notin Carried
           /\ UNCHANGED wire
           /\ \A x \in Verdicts : <<r, x>> \notin answers'
           /\ OnlyOne(r)
<1>1. \E x \in Verdicts : <<r, x>> \in answers
  BY DEF ReadAnswer, Verdicts
<1>2. UNCHANGED wire /\ answers' = {a \in answers : a[1] # r}
  BY DEF ReadAnswer
<1>3. \A x \in Verdicts : <<r, x>> \notin answers'
  BY <1>2
<1>4. \A q \in Requests \ {r} : \A x \in Verdicts : <<q, x>> \in answers' <=> <<q, x>> \in answers
  BY <1>2
<1>5. \A q \in Requests \ {r} : request'[q] = request[q]
  BY PcFacts, EndsFacts DEF ReadAnswer
<1>6. Carried' = Carried
  BY <1>2 DEF Carried
<1>7. QED
  BY <1>1, <1>2, <1>3, <1>4, <1>5, <1>6 DEF OnlyOne, Same, FrameInv

LEMMA RequestKeepsFrames ==
    ASSUME TypeInv, FrameInv, NEW r \in Requests,
           Attached(r) \/ Fails(r) \/ Denied(r) \/ ResetWatching(r) \/ ForgetDenied(r)
    PROVE  /\ FrameInv' /\ OnlyOne(r)
           /\ r \notin Carried' /\ \A x \in Verdicts : <<r, x>> \notin answers'
<1>1. UNCHANGED <<wire, answers, up, watched, connected>>
  BY DEF Attached, Fails, Denied, ResetWatching, ForgetDenied, netVars
<1>2. Carried' = Carried /\ Carried \subseteq Requests
  BY <1>1 DEF Carried, TypeInv, TypeOK
<1>3. r \notin Carried' /\ \A x \in Verdicts : <<r, x>> \notin answers'
  BY <1>1, <1>2
  DEF FrameInv, Attached, Fails, Denied, ResetWatching, ForgetDenied
<1>4. \A q \in Requests \ {r} : request'[q] = request[q]
  BY PcFacts, EndsFacts DEF Attached, Fails, Denied, ResetWatching, ForgetDenied
<1>5. \/ request'[r].pc \in {"idle", "connect"} /\ request'[r].kind = "sub"
      \/ /\ request'[r].pc \in {"connect", "reset", "forget"}
         /\ request'[r].kind = request[r].kind /\ request'[r].data = request[r].data
         /\ request'[r].pc # "connect" => request[r].pc \in {"denied", "reset"}
  BY PcFacts, EndsFacts DEF Attached, Fails, Denied, ResetWatching, ForgetDenied
<1>6. OnlyOne(r)
  BY <1>1, <1>2, <1>4 DEF OnlyOne, Same
<1>7. \A q \in Carried' : /\ request'[q].pc = "wire"
                          /\ \A x \in Verdicts : <<q, x>> \notin answers'
  BY <1>1, <1>2, <1>3, <1>4 DEF FrameInv
<1>8. FrameInv'
  BY <1>1, <1>3, <1>4, <1>5, <1>7 DEF FrameInv, Verdicts
<1>9. QED
  BY <1>3, <1>6, <1>8

LEMMA SocketKeepsFrames ==
    ASSUME TypeInv, FrameInv,
           \/ \E r \in Requests : Write(r) \/ ReadAnswer(r)
           \/ ServerAnswers \/ Drop \/ Connect
    PROVE  FrameInv'
<1>0. Carried \subseteq Requests
  BY DEF Carried, TypeInv, TypeOK
<1>1. ASSUME NEW r \in Requests, Write(r) PROVE FrameInv'
  <2>1. UNCHANGED <<up, watched, connected, answers>> /\ up /\ request[r].pc = "connect"
    BY <1>1 DEF Write, netVars
  <2>2. \A q \in Requests \ {r} : request'[q] = request[q]
    BY <1>1, WriteFacts DEF OnlyOne, Same
  <2>3. /\ Carried' = Carried \cup {r}
        /\ \A i, j \in DOMAIN wire' : wire'[i] = wire'[j] => i = j
        /\ request'[r].pc = "wire" /\ request'[r].kind = request[r].kind
        /\ request'[r].data = request[r].data
    BY <1>1, WriteFacts
  <2>4. QED
    BY <1>0, <2>1, <2>2, <2>3 DEF FrameInv
<1>2. ASSUME NEW r \in Requests, ReadAnswer(r) PROVE FrameInv'
  <2>1. UNCHANGED <<up, watched, connected, wire>> /\ answers' \subseteq answers
    BY <1>2 DEF ReadAnswer, netVars
  <2>2. /\ \A x \in Verdicts : <<r, x>> \notin answers'
        /\ \A q \in Requests \ {r} : request'[q] = request[q]
        /\ r \notin Carried /\ Carried' = Carried
    BY <1>2, <2>1, ReadFacts DEF OnlyOne, Same, Carried
  <2>3. \/ request'[r].pc = "idle" /\ request'[r].kind = "sub"
        \/ request'[r].pc = "denied" /\ request'[r].kind = "sub"
    BY <1>2, PcFacts, EndsFacts DEF ReadAnswer
  <2>4. QED
    BY <1>0, <2>1, <2>2, <2>3 DEF FrameInv, Verdicts
<1>3. CASE ServerAnswers
  <2> DEFINE r == Head(wire)
  <2>1. /\ r \in Requests /\ request[r].pc = "wire" /\ UNCHANGED request
        /\ Carried' = Carried \ {r}
        /\ \A i, j \in DOMAIN wire' : wire'[i] = wire'[j] => i = j
        /\ up
    BY <1>3, AnswerFacts
  <2>2. UNCHANGED <<up, connected>>
    BY <1>3 DEF ServerAnswers
  <2>3. \/ answers' = answers \cup {<<r, "ok">>}
        \/ answers' = answers \cup {<<r, "refused">>} /\ request[r].kind \in {"sub", "reopen", "enter"}
    BY <1>3 DEF ServerAnswers
  <2> HIDE DEF r
  <2>4. QED
    BY <1>0, <2>1, <2>2, <2>3 DEF FrameInv, Verdicts
<1>4. CASE Drop
  <2>1. /\ wire' = <<>> /\ answers' = {} /\ ~watched' /\ up' = FALSE
        /\ request' = [r \in Requests |-> IF request[r].pc = "wire" THEN IdleRequest
                                                                   ELSE request[r]]
    BY <1>4 DEF Drop
  <2>2. DOMAIN wire' = {} /\ Carried' = {}
    BY <2>1 DEF Carried
  <2>3. ASSUME NEW r \in Requests
        PROVE  /\ request'[r].kind = "enter" => request'[r].data \in Data
               /\ request'[r].kind \in WatchKinds => request'[r].pc # "attach"
               /\ request'[r].pc \in {"denied", "reset", "forget"}
                                 => request'[r].kind = "sub"
    <3>1. request'[r] = IdleRequest \/ request'[r] = request[r]
      BY <2>1
    <3>2. CASE request'[r] = IdleRequest
      <4>1. request'[r].pc = "idle" /\ request'[r].kind = "sub"
        BY <3>2 DEF IdleRequest
      <4>2. QED
        BY <4>1
    <3>3. CASE request'[r] = request[r]
      BY <3>3 DEF FrameInv
    <3>4. QED
      BY <3>1, <3>2, <3>3
  <2>4. QED
    BY <2>1, <2>2, <2>3 DEF FrameInv
<1>5. CASE Connect
  BY <1>5 DEF Connect, reqVars, FrameInv, Carried
<1>6. QED
  BY <1>1, <1>2, <1>3, <1>4, <1>5

LEMMA FrameStep == TypeInv /\ FrameInv /\ [Next]_vars => FrameInv'
<1> SUFFICES ASSUME TypeInv, FrameInv, [Next]_vars PROVE FrameInv'
  OBVIOUS
<1> DEFINE Quiet == UNCHANGED <<request, wire, answers, up, watched, connected>>
<1>1. ASSUME NEW t \in Tasks,
             \/ \E l \in Listeners : Add(t, l) \/ RemoveOne(t, l)
             \/ OffAll(t) \/ Detach(t) \/ OnDetached(t)
      PROVE  Quiet
  BY <1>1 DEF Add, RemoveOne, OffAll, Removes, Detach, OnDetached, reqVars, netVars
<1>2. ASSUME NEW t \in Threads,
             EnsureWatching(t) \/ MaybeStopWatching(t) \/ StopsWatching(t)
      PROVE  Quiet
  BY <1>2 DEF EnsureWatching, MaybeStopWatching, StopsWatching, reqVars, netVars
<1>3. ASSUME NEW d \in Drainers,
             Drain(d) \/ Snapshot(d) \/ CallListener(d) \/ EmitRunsHook(d) \/ EmitReturns(d)
      PROVE  Quiet
  BY <1>3 DEF Drain, Snapshot, CallListener, EmitRunsHook, EmitReturns, reqVars, netVars
<1>4. ASSUME \/ \E action \in Fns : EmitPresence(action)
             \/ RestoreCollects \/ UNCHANGED vars
      PROVE  Quiet
  BY <1>4 DEF EmitPresence, RestoreCollects, vars, reqVars, netVars
<1>5. ASSUME NEW t \in Threads, Remember(t) \/ Forget(t) PROVE FrameInv'
  BY <1>5, SpawnKeepsFrames DEF Remember, Forget, netVars
<1>6. ASSUME NEW t \in Tasks, DetachForgets(t) PROVE FrameInv'
  BY <1>6, SpawnKeepsFrames DEF DetachForgets, netVars
<1>7. ASSUME (\E data \in Data : Enter(data)) \/ Leave PROVE FrameInv'
  BY <1>7, SpawnKeepsFrames DEF Enter, Leave, netVars, WatchKinds
<1>8. ASSUME RestoreReopens PROVE FrameInv'
  BY <1>8, SpawnKeepsFrames DEF RestoreReopens
<1>9. ASSUME RestoreReenters PROVE FrameInv'
  <2>1. UNCHANGED <<up, watched, connected>>
    BY <1>9 DEF RestoreReenters
  <2>2. CASE entered = None
    BY <1>9, <2>1, <2>2, QuietKeepsFrames DEF RestoreReenters, reqVars
  <2>3. CASE entered # None
    <3>1. entered \in Data /\ Spawn("attach", "enter", entered)
      BY <1>9, <2>3 DEF RestoreReenters, TypeInv, TypeOK
    <3>2. QED
      BY <2>1, <3>1, SpawnKeepsFrames DEF WatchKinds
  <2>4. QED
    BY <2>2, <2>3
<1>10. QED
  BY <1>1, <1>2, <1>3, <1>4, <1>5, <1>6, <1>7, <1>8, <1>9,
     QuietKeepsFrames, RequestKeepsFrames, SocketKeepsFrames
  DEF Next

-----------------------------------------------------------------------------
(* The turns of the conversation about the watcher. *)

LEMMA GoesFacts ==
    ASSUME TypeInv, NEW t \in Threads, NEW phase, Goes(t, phase)
    PROVE  thread'[t] = phase /\ \A x \in Threads \ {t} : thread'[x] = thread[x]
BY DEF Goes, TypeInv, TypeOK

(* A drainer has the hook to run only when its emit has called all.        *)
HookInv == \A d \in Drainers : emitting[d] # "kept" => thread[d] = "idle"

LEMMA HookInit == Init => HookInv
BY DEF Init, HookInv, Threads

LEMMA HookStep == TypeInv /\ HookInv /\ [Next]_vars => HookInv'
<1> SUFFICES ASSUME TypeInv, HookInv, [Next]_vars PROVE HookInv'
  OBVIOUS
<1>0. /\ Drainers \subseteq Threads /\ Tasks \subseteq Threads /\ Tasks \cap Drainers = {}
  BY PresenceAssumption DEF Threads
<1>1. UNCHANGED <<emitting, thread>> => HookInv'
  BY DEF HookInv
<1>2. ASSUME NEW t \in Tasks,
             \/ \E l \in Listeners : Add(t, l) \/ RemoveOne(t, l)
             \/ OffAll(t) \/ Detach(t) \/ OnDetached(t) \/ DetachForgets(t)
      PROVE  HookInv'
  <2>1. UNCHANGED emitting /\ \E phase : Goes(t, phase)
    BY <1>2 DEF Add, RemoveOne, OffAll, Removes, Detach, OnDetached, DetachForgets, emitVars
  <2>2. QED
    BY <1>0, <2>1, GoesFacts DEF HookInv
<1>3. ASSUME NEW t \in Threads,
             EnsureWatching(t) \/ Remember(t) \/ MaybeStopWatching(t)
             \/ StopsWatching(t) \/ Forget(t)
      PROVE  HookInv'
  <2>1. UNCHANGED emitting /\ thread[t] # "idle" /\ \E phase : Goes(t, phase)
    BY <1>3 DEF EnsureWatching, Remember, MaybeStopWatching, StopsWatching, Forget, emitVars
  <2>2. QED
    BY <1>0, <2>1, GoesFacts DEF HookInv
<1>4. ASSUME NEW d \in Drainers, Snapshot(d) PROVE HookInv'
  BY <1>4 DEF Snapshot, HookInv, TypeInv, TypeOK
<1>5. ASSUME NEW d \in Drainers, EmitRunsHook(d) PROVE HookInv'
  <2>1. emitting' = [emitting EXCEPT ![d] = "kept"] /\ Goes(d, "stop")
    BY <1>5 DEF EmitRunsHook
  <2>2. QED
    BY <1>0, <2>1, GoesFacts DEF HookInv, TypeInv, TypeOK
<1>6. ASSUME NEW d \in Drainers, EmitReturns(d) PROVE HookInv'
  BY <1>6 DEF EmitReturns, HookInv, TypeInv, TypeOK
<1>7. ASSUME NEW r \in Requests,
             \/ Attached(r) \/ Fails(r) \/ Write(r) \/ ReadAnswer(r) \/ Denied(r)
             \/ ResetWatching(r) \/ ForgetDenied(r)
      PROVE  UNCHANGED <<emitting, thread>>
  BY <1>7 DEF Attached, Fails, Write, ReadAnswer, Denied, ResetWatching, ForgetDenied,
              emitVars
<1>8. ASSUME \/ \E action \in Fns : EmitPresence(action)
             \/ \E d \in Drainers : Drain(d) \/ CallListener(d)
             \/ \E data \in Data : Enter(data)
             \/ Leave \/ ServerAnswers \/ Drop \/ Connect
             \/ RestoreCollects \/ RestoreReopens \/ RestoreReenters
             \/ UNCHANGED vars
      PROVE  UNCHANGED <<emitting, thread>>
  BY <1>8 DEF EmitPresence, Drain, CallListener, Enter, Leave, ServerAnswers, Drop, Connect,
              RestoreCollects, RestoreReopens, RestoreReenters, vars, emitVars
<1>9. QED
  BY <1>1, <1>2, <1>3, <1>4, <1>5, <1>6, <1>7, <1>8 DEF Next

(* A thread whose turn it is: the wish has changed, the request that tells *)
(* the server is not spawned yet.                                          *)
TurnPhases == {"remember", "forget", "unsub"}
Turning == {t \in Threads : thread[t] \in TurnPhases}

Active(r, kinds) == request[r].pc # "idle" /\ request[r].kind \in kinds

(* A request that will still reach the server, or will still be refused.   *)
Pending(kinds) ==
    \E r \in Requests :
        /\ Active(r, kinds)
        /\ request[r].pc # "wire" \/ r \in Carried \/ <<r, "refused">> \in answers

(* While the turns do not overlap, every request in flight says what the   *)
(* client wishes now, what was answered has made the server do so, and     *)
(* there is somebody left who will bring the server there: a thread in its *)
(* turn, a request, or the restore of this or of the next reconnect.       *)
WatchInv ==
    "watch" \notin raced =>
    /\ \A r \in Requests : Active(r, WatchKinds) =>
          /\ request[r].pc \in {"connect", "wire"}
          /\ watching <=> request[r].kind \in {"sub", "reopen"}
          /\ <<r, "ok">> \in answers => watched = watching
    /\ restore = "reopen" => watching
    /\ \A t \in Turning : /\ watching <=> thread[t] = "remember"
                          /\ watching => ~remembered
                          /\ \A x \in Turning : x = t
                          /\ ~InFlight(WatchKinds) /\ restore # "reopen"
    /\ Turning = {} =>
          /\ remembered = watching
          /\ watching => \/ watched \/ Pending(WatchKinds)
                         \/ IF up THEN restore \in {"collect", "reopen"} ELSE connected
          /\ ~watching => ~watched \/ Pending(WatchKinds)

LEMMA WatchInit == Init => WatchInv
<1> SUFFICES ASSUME Init PROVE WatchInv
  OBVIOUS
<1>1. \A r \in Requests : request[r].pc = "idle"
  BY DEF Init, IdleRequest
<1>2. Turning = {}
  BY DEF Init, Turning, TurnPhases
<1>3. QED
  BY <1>1, <1>2 DEF Init, WatchInv, Active

SameOf(kinds) == \A r \in Requests : Active(r, kinds) \/ Active(r, kinds)' => Same(r)

LEMMA OnlyOneIsSame ==
    ASSUME NEW r \in Requests, OnlyOne(r), NEW kinds, ~Active(r, kinds), ~Active(r, kinds)'
    PROVE  SameOf(kinds)
BY DEF OnlyOne, SameOf

LEMMA SameKeepsRequests ==
    ASSUME NEW kinds, SameOf(kinds)
    PROVE  /\ \A r \in Requests : Active(r, kinds)' <=> Active(r, kinds)
           /\ InFlight(kinds)' <=> InFlight(kinds)
           /\ Pending(kinds)' <=> Pending(kinds)
<1>1. \A r \in Requests : Active(r, kinds)' <=> Active(r, kinds)
  BY DEF SameOf, Same, Active
<1>2. InFlight(kinds)' <=> InFlight(kinds)
  BY <1>1 DEF InFlight, Active
<1>3. \A r \in Requests : Active(r, kinds) =>
         /\ request'[r] = request[r] /\ (r \in Carried' <=> r \in Carried)
         /\ <<r, "refused">> \in answers' <=> <<r, "refused">> \in answers
  BY DEF SameOf, Same, Verdicts
<1>4. Pending(kinds)' <=> Pending(kinds)
  BY <1>1, <1>3 DEF Pending
<1>5. QED
  BY <1>1, <1>2, <1>4

(* Steps that are none of the watcher's.                                   *)
LEMMA QuietKeepsWatch ==
    ASSUME WatchInv, raced \subseteq raced', SameOf(WatchKinds),
           UNCHANGED <<watching, remembered, up, connected, watched>>,
           \/ restore' = restore
           \/ restore' # "reopen" /\ restore \notin {"collect", "reopen"},
           \A t \in Threads : \/ thread'[t] = thread[t]
                              \/ thread[t] \notin TurnPhases /\ thread'[t] \notin TurnPhases
    PROVE  WatchInv'
<1> SUFFICES ASSUME "watch" \notin raced' PROVE WatchInv'
  BY DEF WatchInv
<1>1. "watch" \notin raced
  OBVIOUS
<1>2. Turning' = Turning /\ \A t \in Turning : thread'[t] = thread[t]
  BY DEF Turning
<1>3. /\ \A r \in Requests : Active(r, WatchKinds)' <=> Active(r, WatchKinds)
      /\ InFlight(WatchKinds)' <=> InFlight(WatchKinds)
      /\ Pending(WatchKinds)' <=> Pending(WatchKinds)
  BY SameKeepsRequests
<1>4. \A r \in Requests : Active(r, WatchKinds) =>
         request'[r] = request[r] /\ (<<r, "ok">> \in answers' <=> <<r, "ok">> \in answers)
  BY DEF SameOf, Same, Verdicts
<1>5. \A r \in Requests : Active(r, WatchKinds)' =>
          /\ request'[r].pc \in {"connect", "wire"}
          /\ watching' <=> request'[r].kind \in {"sub", "reopen"}
          /\ <<r, "ok">> \in answers' => watched' = watching'
  BY <1>1, <1>3, <1>4 DEF WatchInv
<1>6. \A t \in Turning' : /\ watching' <=> thread'[t] = "remember"
                          /\ watching' => ~remembered'
                          /\ \A x \in Turning' : x = t
                          /\ ~InFlight(WatchKinds)' /\ restore' # "reopen"
  BY <1>1, <1>2, <1>3 DEF WatchInv
<1>7. Turning' = {} =>
          /\ remembered' = watching'
          /\ watching' => \/ watched' \/ Pending(WatchKinds)'
                         \/ IF up' THEN restore' \in {"collect", "reopen"} ELSE connected'
          /\ ~watching' => ~watched' \/ Pending(WatchKinds)'
  BY <1>1, <1>2, <1>3 DEF WatchInv
<1>8. restore' = "reopen" => watching'
  BY <1>1 DEF WatchInv
<1>9. QED
  BY <1>5, <1>6, <1>7, <1>8 DEF WatchInv

(* A new turn, taken when the one before is through.                       *)
LEMMA TurnBegins ==
    ASSUME TypeInv, WatchInv, NEW t \in Threads, NEW phase \in TurnPhases,
           thread[t] \notin TurnPhases, Goes(t, phase),
           "watch" \notin raced, ~WatchBusy(t),
           watching' \in BOOLEAN, watching' <=> phase = "remember",
           watching' => ~watching,
           UNCHANGED <<remembered, up, connected, watched, restore, request, wire, answers>>
    PROVE  WatchInv'
<1>1. thread'[t] = phase /\ \A x \in Threads \ {t} : thread'[x] = thread[x]
  BY GoesFacts
<1>2. Turning = {}
  BY DEF Turning, TurnPhases, WatchBusy
<1>3. Turning' = {t}
  BY <1>1, <1>2 DEF Turning
<1>4. ~InFlight(WatchKinds)' /\ restore \notin {"collect", "reopen"}
  BY DEF InFlight, WatchBusy
<1>5. \A r \in Requests : ~Active(r, WatchKinds)'
  BY <1>4 DEF InFlight, Active
<1>6. remembered = watching
  BY <1>2 DEF WatchInv
<1>7. \A x \in Turning' : /\ watching' <=> thread'[x] = "remember"
                          /\ watching' => ~remembered'
                          /\ \A y \in Turning' : y = x
                          /\ ~InFlight(WatchKinds)' /\ restore' # "reopen"
  BY <1>1, <1>3, <1>4, <1>6
<1>8. QED
  BY <1>3, <1>4, <1>5, <1>7 DEF WatchInv

(* The turn's request is spawned.                                          *)
LEMMA TurnEnds ==
    ASSUME TypeInv, FrameInv, WatchInv, NEW t \in Threads, thread[t] \in TurnPhases,
           Goes(t, "idle"), NEW kind \in WatchKinds, Spawn("connect", kind, None),
           kind \in {"sub", "reopen"} <=> thread[t] = "remember",
           remembered' \in BOOLEAN, remembered' <=> thread[t] = "remember",
           raced \subseteq raced',
           UNCHANGED <<watching, up, connected, watched, restore>>
    PROVE  WatchInv'
<1> SUFFICES ASSUME "watch" \notin raced' PROVE WatchInv'
  BY DEF WatchInv
<1>1. thread'[t] = "idle" /\ \A x \in Threads \ {t} : thread'[x] = thread[x]
  BY GoesFacts
<1>2. t \in Turning
  BY DEF Turning
<1>3. /\ watching <=> thread[t] = "remember"
      /\ \A x \in Turning : x = t
      /\ ~InFlight(WatchKinds) /\ restore # "reopen"
  BY <1>2 DEF WatchInv
<1>4. Turning' = {}
  BY <1>1, <1>3 DEF Turning, TurnPhases
<1>5. PICK r \in Requests :
                 /\ request'[r] = [pc |-> "connect", kind |-> kind, data |-> None]
                 /\ OnlyOne(r)
                 /\ r \notin Carried' /\ \A x \in Verdicts : <<r, x>> \notin answers'
  BY SpawnFacts
<1>6. request'[r].pc = "connect" /\ request'[r].kind = kind
  BY <1>5
<1>7. \A q \in Requests \ {r} : ~Active(q, WatchKinds)'
  BY <1>3, <1>5 DEF OnlyOne, Same, InFlight, Active
<1>8. Pending(WatchKinds)'
  BY <1>6 DEF Pending, Active
<1>9. watching' \in BOOLEAN /\ remembered' = watching'
  <2>1. watching \in BOOLEAN
    BY DEF TypeInv, TypeOK
  <2>2. QED
    BY <1>3, <2>1
<1>10. \A q \in Requests : Active(q, WatchKinds)' =>
          /\ request'[q].pc \in {"connect", "wire"}
          /\ watching' <=> request'[q].kind \in {"sub", "reopen"}
          /\ <<q, "ok">> \in answers' => watched' = watching'
  BY <1>3, <1>5, <1>6, <1>7 DEF Verdicts
<1>11. QED
  BY <1>3, <1>4, <1>8, <1>9, <1>10 DEF WatchInv

(* A request of another conversation starts, or none does.                 *)
LEMMA SpawnIsSame ==
    ASSUME TypeInv, FrameInv, NEW pc \in {"attach", "connect"}, NEW kind, NEW data,
           Spawn(pc, kind, data), NEW kinds, kind \notin kinds
    PROVE  SameOf(kinds)
<1>1. PICK r \in Requests :
                 /\ request[r].pc = "idle"
                 /\ request'[r] = [pc |-> pc, kind |-> kind, data |-> data]
                 /\ OnlyOne(r)
  BY SpawnFacts
<1>2. ~Active(r, kinds) /\ ~Active(r, kinds)'
  BY <1>1 DEF Active
<1>3. QED
  BY <1>1, <1>2, OnlyOneIsSame

LEMMA NoneIsSame ==
    ASSUME UNCHANGED <<request, wire, answers>>, NEW kinds
    PROVE  SameOf(kinds)
BY DEF SameOf, Same, Carried

LEMMA TaskKeepsWatch ==
    ASSUME TypeInv, FrameInv, WatchInv, NEW t \in Tasks, [Next]_vars,
           \/ \E l \in Listeners : Add(t, l) \/ RemoveOne(t, l)
           \/ OffAll(t) \/ Detach(t) \/ OnDetached(t) \/ DetachForgets(t)
    PROVE  WatchInv'
<1>0. t \in Threads /\ raced \subseteq raced'
  BY HistTyped DEF TypeInv, Threads
<1>1. CASE \/ \E l \in Listeners : Add(t, l) \/ RemoveOne(t, l)
           \/ OffAll(t) \/ Detach(t)
  <2>1. /\ thread[t] = "idle" /\ \E phase \in {"ensure", "stop", "detach"} : Goes(t, phase)
        /\ UNCHANGED <<watching, remembered, up, connected, watched, restore>>
        /\ UNCHANGED <<request, wire, answers>>
    BY <1>1 DEF Add, RemoveOne, OffAll, Removes, Detach, localVars, reqVars, netVars
  <2>2. SameOf(WatchKinds)
    BY <2>1, NoneIsSame
  <2>3. \A x \in Threads : \/ thread'[x] = thread[x]
                           \/ thread[x] \notin TurnPhases /\ thread'[x] \notin TurnPhases
    BY <1>0, <2>1, GoesFacts DEF TurnPhases
  <2>4. QED
    BY <1>0, <2>1, <2>2, <2>3, QuietKeepsWatch
<1>2. CASE OnDetached(t)
  <2> SUFFICES ASSUME "watch" \notin raced' PROVE WatchInv'
    BY DEF WatchInv
  <2>1. "watch" \notin raced /\ ~WatchBusy(t)
    BY <1>2 DEF OnDetached
  <2>2. /\ thread[t] = "detach" /\ Goes(t, "unsub") /\ watching' = FALSE
        /\ UNCHANGED <<remembered, up, connected, watched, restore, request, wire, answers>>
    BY <1>2 DEF OnDetached, reqVars, netVars
  <2>3. thread[t] \notin TurnPhases /\ "unsub" \in TurnPhases
    BY <2>2 DEF TurnPhases
  <2>4. QED
    BY <1>0, <2>1, <2>2, <2>3, TurnBegins
<1>3. CASE DetachForgets(t)
  <2>1. /\ thread[t] = "unsub" /\ Goes(t, "idle") /\ Spawn("connect", "detach", None)
        /\ remembered' = FALSE
        /\ UNCHANGED <<watching, up, connected, watched, restore>>
    BY <1>3 DEF DetachForgets, netVars
  <2>2. thread[t] \in TurnPhases /\ "detach" \in WatchKinds
    BY <2>1 DEF TurnPhases, WatchKinds
  <2>3. QED
    BY <1>0, <2>1, <2>2, TurnEnds
<1>4. QED
  BY <1>1, <1>2, <1>3

LEMMA ThreadKeepsWatch ==
    ASSUME TypeInv, FrameInv, WatchInv, NEW t \in Threads, [Next]_vars,
           EnsureWatching(t) \/ Remember(t) \/ MaybeStopWatching(t)
             \/ StopsWatching(t) \/ Forget(t)
    PROVE  WatchInv'
<1>0. raced \subseteq raced'
  BY HistTyped DEF TypeInv
<1>1. ASSUME thread[t] \notin TurnPhases, Goes(t, "idle") \/ Goes(t, "counted"),
             UNCHANGED <<watching, remembered, up, connected, watched, restore>>,
             UNCHANGED <<request, wire, answers>>
      PROVE  WatchInv'
  <2>1. SameOf(WatchKinds)
    BY <1>1, NoneIsSame
  <2>2. \A x \in Threads : \/ thread'[x] = thread[x]
                           \/ thread[x] \notin TurnPhases /\ thread'[x] \notin TurnPhases
    BY <1>1, GoesFacts DEF TurnPhases
  <2>3. QED
    BY <1>0, <1>1, <2>1, <2>2, QuietKeepsWatch
<1>2. CASE EnsureWatching(t)
  <2>1. /\ thread[t] = "ensure" /\ thread[t] \notin TurnPhases
        /\ UNCHANGED <<remembered, up, connected, watched, restore, request, wire, answers>>
    BY <1>2 DEF EnsureWatching, reqVars, netVars, TurnPhases
  <2>2. CASE Goes(t, "idle") /\ UNCHANGED watching
    BY <1>1, <2>1, <2>2
  <2>3. CASE ~watching /\ watching' = TRUE /\ Goes(t, "remember") /\ Races(WatchBusy(t), "watch")
    <3> SUFFICES ASSUME "watch" \notin raced' PROVE WatchInv'
      BY DEF WatchInv
    <3>1. "watch" \notin raced /\ ~WatchBusy(t)
      BY <2>3 DEF Races
    <3>2. "remember" \in TurnPhases
      BY DEF TurnPhases
    <3>3. QED
      BY <2>1, <2>3, <3>1, <3>2, TurnBegins
  <2>4. QED
    BY <1>2, <2>2, <2>3 DEF EnsureWatching
<1>3. CASE MaybeStopWatching(t)
  <2>1. /\ thread[t] = "stop" /\ thread[t] \notin TurnPhases
        /\ UNCHANGED <<watching, remembered, up, connected, watched, restore>>
        /\ UNCHANGED <<request, wire, answers>>
    BY <1>3 DEF MaybeStopWatching, localVars, reqVars, netVars, TurnPhases
  <2>2. Goes(t, "idle") \/ Goes(t, "counted")
    BY <1>3 DEF MaybeStopWatching
  <2>3. QED
    BY <1>1, <2>1, <2>2
<1>4. CASE StopsWatching(t)
  <2>1. /\ thread[t] = "counted" /\ thread[t] \notin TurnPhases
        /\ UNCHANGED <<remembered, up, connected, watched, restore, request, wire, answers>>
        /\ watching' = FALSE /\ Goes(t, "forget") /\ Races(WatchBusy(t), "watch")
    BY <1>4 DEF StopsWatching, reqVars, netVars, TurnPhases
  <2> SUFFICES ASSUME "watch" \notin raced' PROVE WatchInv'
    BY DEF WatchInv
  <2>2. "watch" \notin raced /\ ~WatchBusy(t)
    BY <2>1 DEF Races
  <2>3. "forget" \in TurnPhases
    BY DEF TurnPhases
  <2>4. QED
    BY <2>1, <2>2, <2>3, TurnBegins
<1>5. CASE Remember(t)
  <2>1. /\ thread[t] = "remember" /\ Goes(t, "idle") /\ Spawn("connect", "sub", None)
        /\ remembered' = TRUE
        /\ UNCHANGED <<watching, up, connected, watched, restore>>
    BY <1>5 DEF Remember, netVars
  <2>2. thread[t] \in TurnPhases /\ "sub" \in WatchKinds
    BY <2>1 DEF TurnPhases, WatchKinds
  <2>3. QED
    BY <1>0, <2>1, <2>2, TurnEnds
<1>6. CASE Forget(t)
  <2>1. /\ thread[t] = "forget" /\ Goes(t, "idle") /\ Spawn("connect", "unsub", None)
        /\ remembered' = FALSE
        /\ UNCHANGED <<watching, up, connected, watched, restore>>
    BY <1>6 DEF Forget, netVars
  <2>2. thread[t] \in TurnPhases /\ "unsub" \in WatchKinds
    BY <2>1 DEF TurnPhases, WatchKinds
  <2>3. QED
    BY <1>0, <2>1, <2>2, TurnEnds
<1>7. QED
  BY <1>2, <1>3, <1>4, <1>5, <1>6

(* The emits and the calls of the application about its membership.        *)
LEMMA OthersKeepWatch ==
    ASSUME TypeInv, FrameInv, HookInv, WatchInv, [Next]_vars,
           \/ \E d \in Drainers : \/ Drain(d) \/ Snapshot(d) \/ CallListener(d)
                                  \/ EmitRunsHook(d) \/ EmitReturns(d)
           \/ \E action \in Fns : EmitPresence(action)
           \/ \E data \in Data : Enter(data)
           \/ Leave \/ RestoreReenters \/ UNCHANGED vars
    PROVE  WatchInv'
<1> DEFINE Quiet == \A t \in Threads : thread'[t] = thread[t]
<1>0. raced \subseteq raced'
  BY HistTyped DEF TypeInv
<1>1. CASE \/ \E d \in Drainers : Drain(d) \/ Snapshot(d) \/ CallListener(d) \/ EmitReturns(d)
           \/ \E action \in Fns : EmitPresence(action)
           \/ UNCHANGED vars
  <2>1. /\ UNCHANGED <<watching, remembered, up, connected, watched, restore, thread>>
        /\ UNCHANGED <<request, wire, answers>>
    BY <1>1 DEF Drain, Snapshot, CallListener, EmitReturns, EmitPresence, vars, localVars,
                emitVars, reqVars, netVars
  <2>2. QED
    BY <1>0, <2>1, NoneIsSame, QuietKeepsWatch
<1>2. ASSUME NEW d \in Drainers, EmitRunsHook(d) PROVE WatchInv'
  <2>1. /\ UNCHANGED <<watching, remembered, up, connected, watched, restore>>
        /\ UNCHANGED <<request, wire, answers>> /\ Goes(d, "stop")
        /\ emitting[d] = "dropped"
    BY <1>2 DEF EmitRunsHook, localVars, reqVars, netVars
  <2>2. thread[d] = "idle" /\ d \in Threads
    BY <2>1 DEF HookInv, Threads
  <2>3. \A x \in Threads : \/ thread'[x] = thread[x]
                           \/ thread[x] \notin TurnPhases /\ thread'[x] \notin TurnPhases
    BY <2>1, <2>2, GoesFacts DEF TurnPhases
  <2>4. QED
    BY <1>0, <2>1, <2>3, NoneIsSame, QuietKeepsWatch
<1>3. ASSUME \/ \E data \in Data : Enter(data)
             \/ Leave \/ RestoreReenters
      PROVE  WatchInv'
  <2>1. /\ UNCHANGED <<watching, remembered, up, connected, watched, thread>>
        /\ \/ UNCHANGED restore
           \/ restore = "reenter" /\ restore' = "no"
    BY <1>3 DEF Enter, Leave, RestoreReenters, emitVars, netVars, localVars
  <2>2. \/ UNCHANGED <<request, wire, answers>>
        \/ \E kind \in {"enter", "leave"}, data \in Data \cup {None} : Spawn("attach", kind, data)
    BY <1>3 DEF Enter, Leave, RestoreReenters, reqVars, TypeInv, TypeOK
  <2>3. SameOf(WatchKinds)
    BY <2>2, NoneIsSame, SpawnIsSame DEF WatchKinds
  <2>4. QED
    BY <1>0, <2>1, <2>3, QuietKeepsWatch
<1>4. QED
  BY <1>1, <1>2, <1>3

(* A request of the watcher's ends: the ones that remain are the same.     *)
LEMMA FewerRequests ==
    ASSUME NEW kinds, NEW r \in Requests, OnlyOne(r), ~Active(r, kinds)'
    PROVE  /\ InFlight(kinds)' => InFlight(kinds)
           /\ \A q \in Requests : Active(q, kinds)' =>
                 Active(q, kinds) /\ request'[q] = request[q]
                 /\ (<<q, "ok">> \in answers' <=> <<q, "ok">> \in answers)
BY DEF OnlyOne, Same, InFlight, Active, Verdicts

LEMMA RequestKeepsWatch ==
    ASSUME TypeInv, FrameInv, WatchInv, [Next]_vars, NEW r \in Requests,
           \/ Attached(r) \/ Fails(r) \/ Write(r) \/ ReadAnswer(r) \/ Denied(r)
           \/ ResetWatching(r) \/ ForgetDenied(r)
    PROVE  WatchInv'
<1> SUFFICES ASSUME "watch" \notin raced' PROVE WatchInv'
  BY DEF WatchInv
<1>0. raced \subseteq raced' /\ "watch" \notin raced
  BY HistTyped DEF TypeInv
<1>1. OnlyOne(r)
  BY RequestKeepsFrames, WriteFacts, ReadFacts
<1>2. request[r].pc # "idle" /\ (Active(r, WatchKinds) => request[r].pc \in {"connect", "wire"})
  <2>1. CASE ReadAnswer(r)
    BY <1>0, <2>1, ReadFacts DEF WatchInv
  <2>2. CASE ~ReadAnswer(r)
    BY <1>0, <2>2
    DEF Attached, Fails, Write, Denied, ResetWatching, ForgetDenied, WatchInv
  <2>3. QED
    BY <2>1, <2>2
<1>3. /\ UNCHANGED <<up, connected, watched, restore>>
      /\ UNCHANGED thread
  BY DEF Attached, Fails, Write, ReadAnswer, Denied, ResetWatching, ForgetDenied,
         netVars, emitVars
<1>4. CASE ~Active(r, WatchKinds)
  <2>1. /\ ~Active(r, WatchKinds)'
        /\ UNCHANGED <<watching, remembered>>
    <3>1. request[r].kind \notin WatchKinds
      BY <1>2, <1>4 DEF Active
    <3>2. request[r].pc \notin {"denied", "reset", "forget"}
      BY <3>1 DEF FrameInv, WatchKinds
    <3>3. UNCHANGED <<watching, remembered>>
      BY <3>2
      DEF Attached, Fails, Write, ReadAnswer, Denied, ResetWatching, ForgetDenied, localVars
    <3>4. request'[r].pc = "idle" \/ request'[r].kind = request[r].kind
      BY PcFacts, EndsFacts
      DEF Attached, Fails, Write, ReadAnswer, Denied, ResetWatching, ForgetDenied
    <3>5. QED
      BY <3>1, <3>3, <3>4 DEF Active
  <2>2. SameOf(WatchKinds)
    BY <1>1, <1>4, <2>1, OnlyOneIsSame
  <2>3. QED
    BY <1>0, <1>3, <2>1, <2>2, QuietKeepsWatch
<1>5. CASE Active(r, WatchKinds) /\ Write(r)
  <2>1. /\ Carried' = Carried \cup {r} /\ r \notin Carried /\ UNCHANGED answers
        /\ request'[r].pc = "wire" /\ request'[r].kind = request[r].kind
        /\ request[r].pc = "connect"
        /\ UNCHANGED <<watching, remembered>>
    BY <1>5, WriteFacts DEF Write, localVars
  <2>2. \A q \in Requests : Active(q, WatchKinds)' <=> Active(q, WatchKinds)
    BY <1>1, <1>5, <2>1 DEF Active, OnlyOne, Same
  <2>3. InFlight(WatchKinds)' <=> InFlight(WatchKinds)
    BY <2>2 DEF InFlight, Active
  <2>4. Turning' = Turning
    BY <1>3 DEF Turning
  <2>5. Pending(WatchKinds)'
    BY <1>5, <2>1, <2>2 DEF Pending
  <2>6. <<r, "ok">> \notin answers
    BY <2>1 DEF FrameInv, Verdicts
  <2>7. \A q \in Requests : Active(q, WatchKinds)' =>
          /\ request'[q].pc \in {"connect", "wire"}
          /\ watching' <=> request'[q].kind \in {"sub", "reopen"}
          /\ <<q, "ok">> \in answers' => watched' = watching'
    BY <1>0, <1>1, <1>3, <2>1, <2>2, <2>6 DEF WatchInv, OnlyOne, Same
  <2>8. QED
    BY <1>0, <1>3, <2>1, <2>3, <2>4, <2>5, <2>7 DEF WatchInv
<1>6. ASSUME Active(r, WatchKinds), Ends(r), UNCHANGED <<watching, remembered>>,
             IF watching THEN watched \/ (~up /\ connected) ELSE ~watched
      PROVE  WatchInv'
  <2>1. ~Active(r, WatchKinds)'
    BY <1>6, EndsFacts DEF Active
  <2>2. Turning' = Turning /\ Turning = {}
    BY <1>0, <1>3, <1>6 DEF Turning, WatchInv, InFlight, Active
  <2>3. \A q \in Requests : Active(q, WatchKinds)' =>
          /\ request'[q].pc \in {"connect", "wire"}
          /\ watching' <=> request'[q].kind \in {"sub", "reopen"}
          /\ <<q, "ok">> \in answers' => watched' = watching'
    BY <1>0, <1>1, <1>3, <1>6, <2>1, FewerRequests DEF WatchInv
  <2>4. QED
    BY <1>0, <1>3, <1>6, <2>2, <2>3 DEF WatchInv
<1>7. CASE Active(r, WatchKinds) /\ Fails(r)
  <2>1. request[r].pc = "connect" /\ ~up /\ Ends(r) /\ Unhealed({request[r].kind})
        /\ UNCHANGED <<watching, remembered>>
    BY <1>2, <1>7 DEF Fails, localVars
  <2>2. ~watched
    BY <2>1 DEF FrameInv
  <2>3. connected
    <3>1. request[r].kind \in WatchKinds
      BY <1>7 DEF Active
    <3>2. ASSUME ~connected PROVE "watch" \in raced'
      BY <2>1, <3>1, <3>2 DEF Unhealed
    <3>3. QED
      BY <3>2
  <2>4. QED
    BY <1>6, <1>7, <2>1, <2>2, <2>3
<1>8. CASE Active(r, WatchKinds) /\ ReadAnswer(r)
  <2>1. request[r].kind \in WatchKinds
    BY <1>8 DEF Active
  <2>2. <<r, "ok">> \in answers /\ Ends(r) /\ UNCHANGED <<watching, remembered>>
    BY <1>8, <2>1 DEF ReadAnswer, localVars
  <2>3. watched = watching
    BY <1>0, <1>8, <2>2 DEF WatchInv
  <2>4. QED
    BY <1>6, <1>8, <2>2, <2>3
<1>9. QED
  BY <1>2, <1>4, <1>5, <1>7, <1>8
  DEF Attached, Denied, ResetWatching, ForgetDenied

LEMMA ServerKeepsWatch ==
    ASSUME TypeInv, FrameInv, WatchInv, [Next]_vars, ServerAnswers
    PROVE  WatchInv'
<1> SUFFICES ASSUME "watch" \notin raced' PROVE WatchInv'
  BY DEF WatchInv
<1>. PICK r \in Requests : r = Head(wire)
  BY AnswerFacts
<1>0. raced \subseteq raced' /\ "watch" \notin raced
  BY HistTyped DEF TypeInv
<1>1. /\ r \in Requests /\ request[r].pc = "wire" /\ UNCHANGED request
      /\ Carried' = Carried \ {r} /\ OnlyOne(r) /\ up
  BY AnswerFacts
<1>2. UNCHANGED <<watching, remembered, up, connected, restore, thread>>
  BY DEF ServerAnswers, localVars, emitVars
<1>3. CASE request[r].kind \notin WatchKinds
  <2>1. UNCHANGED watched
    BY <1>3 DEF ServerAnswers, WatchKinds
  <2>2. ~Active(r, WatchKinds) /\ ~Active(r, WatchKinds)'
    BY <1>1, <1>3 DEF Active
  <2>3. SameOf(WatchKinds)
    BY <1>1, <2>2, OnlyOneIsSame
  <2>4. QED
    BY <1>0, <1>2, <2>1, <2>3, QuietKeepsWatch
<1>4. CASE request[r].kind \in WatchKinds
  <2>1. Active(r, WatchKinds)
    BY <1>1, <1>4 DEF Active
  <2>2. Turning' = Turning /\ Turning = {}
    BY <1>0, <1>1, <1>2, <2>1 DEF Turning, WatchInv, InFlight, Active
  <2>3. watching <=> request[r].kind \in {"sub", "reopen"}
    BY <1>0, <1>1, <2>1 DEF WatchInv
  <2>4. \A q \in Requests : Active(q, WatchKinds)' <=> Active(q, WatchKinds)
    BY <1>1 DEF Active
  <2>5. watching \in BOOLEAN
    BY DEF TypeInv, TypeOK
  <2>6. CASE watched' = watching
    BY <1>0, <1>1, <1>2, <2>2, <2>4, <2>6 DEF WatchInv
  <2>7. CASE UNCHANGED watched /\ answers' = answers \cup {<<r, "refused">>}
    <3>1. Pending(WatchKinds)'
      BY <1>1, <2>1, <2>4, <2>7 DEF Pending
    <3>2. \A q \in Requests : Active(q, WatchKinds)' =>
          /\ request'[q].pc \in {"connect", "wire"}
          /\ watching' <=> request'[q].kind \in {"sub", "reopen"}
          /\ <<q, "ok">> \in answers' => watched' = watching'
      BY <1>0, <1>1, <1>2, <2>4, <2>7 DEF WatchInv
    <3>3. QED
      BY <1>0, <1>2, <2>2, <2>7, <3>1, <3>2 DEF WatchInv
  <2>8. watched' = watching \/ (UNCHANGED watched /\ answers' = answers \cup {<<r, "refused">>})
    BY <1>4, <2>3, <2>5 DEF ServerAnswers, WatchKinds
  <2>9. QED
    BY <2>6, <2>7, <2>8
<1>5. QED
  BY <1>3, <1>4

LEMMA DropKeepsWatch ==
    ASSUME TypeInv, FrameInv, WatchInv, Drop
    PROVE  WatchInv'
<1> SUFFICES ASSUME "watch" \notin raced' PROVE WatchInv'
  BY DEF WatchInv
<1>0. "watch" \notin raced
  BY DEF Drop
<1>1. /\ up /\ up' = FALSE /\ watched' = FALSE /\ answers' = {}
      /\ UNCHANGED <<watching, remembered, connected, restore, thread>>
      /\ request' = [r \in Requests |-> IF request[r].pc = "wire" THEN IdleRequest
                                                                 ELSE request[r]]
  BY DEF Drop, localVars, emitVars
<1>2. connected
  BY <1>1 DEF FrameInv
<1>3. Turning' = Turning
  BY <1>1 DEF Turning
<1>4. \A r \in Requests : Active(r, WatchKinds)' =>
         Active(r, WatchKinds) /\ request'[r] = request[r]
  BY <1>1 DEF Active, IdleRequest
<1>5. InFlight(WatchKinds)' => InFlight(WatchKinds)
  BY <1>4 DEF InFlight, Active
<1>6. \A q \in Requests : Active(q, WatchKinds)' =>
          /\ request'[q].pc \in {"connect", "wire"}
          /\ watching' <=> request'[q].kind \in {"sub", "reopen"}
          /\ <<q, "ok">> \in answers' => watched' = watching'
  BY <1>0, <1>1, <1>4 DEF WatchInv
<1>7. QED
  BY <1>0, <1>1, <1>2, <1>3, <1>5, <1>6 DEF WatchInv

LEMMA ConnectKeepsWatch ==
    ASSUME TypeInv, FrameInv, WatchInv, Connect
    PROVE  WatchInv'
<1>1. /\ ~up /\ up' = TRUE /\ restore = "no"
      /\ restore' = IF connected THEN "collect" ELSE "no"
      /\ UNCHANGED <<watching, remembered, watched, thread, request, wire, answers, raced>>
  BY DEF Connect, localVars, emitVars, reqVars, histVars
<1>2. SameOf(WatchKinds)
  BY <1>1, NoneIsSame
<1>3. /\ \A r \in Requests : Active(r, WatchKinds)' <=> Active(r, WatchKinds)
      /\ InFlight(WatchKinds)' <=> InFlight(WatchKinds)
      /\ Pending(WatchKinds)' <=> Pending(WatchKinds)
  BY <1>2, SameKeepsRequests
<1>4. Turning' = Turning
  BY <1>1 DEF Turning
<1>5. QED
  BY <1>1, <1>3, <1>4 DEF WatchInv

LEMMA CollectKeepsWatch ==
    ASSUME TypeInv, FrameInv, WatchInv, RestoreCollects
    PROVE  WatchInv'
<1> SUFFICES ASSUME "watch" \notin raced' PROVE WatchInv'
  BY DEF WatchInv
<1>1. /\ restore = "collect" /\ restore' = IF remembered THEN "reopen" ELSE "reenter"
      /\ UNCHANGED <<watching, remembered, up, connected, watched, thread, request, wire, answers>>
      /\ "watch" \notin raced
      /\ \A t \in Threads : thread[t] \notin {"forget", "unsub"}
  BY DEF RestoreCollects, Races, localVars, emitVars, reqVars
<1>2. SameOf(WatchKinds)
  BY <1>1, NoneIsSame
<1>3. /\ \A r \in Requests : Active(r, WatchKinds)' <=> Active(r, WatchKinds)
      /\ InFlight(WatchKinds)' <=> InFlight(WatchKinds)
      /\ Pending(WatchKinds)' <=> Pending(WatchKinds)
  BY <1>2, SameKeepsRequests
<1>4. Turning' = Turning
  BY <1>1 DEF Turning
<1>5. \A t \in Turning : thread[t] = "remember" /\ watching /\ ~remembered
  BY <1>1 DEF WatchInv, Turning, TurnPhases
<1>6. QED
  BY <1>1, <1>3, <1>4, <1>5 DEF WatchInv

LEMMA ReopenKeepsWatch ==
    ASSUME TypeInv, FrameInv, WatchInv, [Next]_vars, RestoreReopens
    PROVE  WatchInv'
<1> SUFFICES ASSUME "watch" \notin raced' PROVE WatchInv'
  BY DEF WatchInv
<1>1. /\ restore = "reopen" /\ restore' = "reenter" /\ "watch" \notin raced
      /\ UNCHANGED <<watching, remembered, up, connected, watched, thread>>
      /\ Spawn("connect", "reopen", None)
  BY DEF RestoreReopens, localVars, emitVars, histVars
<1>2. PICK r \in Requests :
                 /\ request'[r] = [pc |-> "connect", kind |-> "reopen", data |-> None]
                 /\ OnlyOne(r)
                 /\ r \notin Carried' /\ \A x \in Verdicts : <<r, x>> \notin answers'
  BY <1>1, SpawnFacts
<1>3. request'[r].pc = "connect" /\ request'[r].kind = "reopen"
  BY <1>2
<1>4. watching /\ Turning = {} /\ Turning' = {}
  BY <1>1 DEF WatchInv, Turning
<1>5. Pending(WatchKinds)'
  BY <1>3 DEF Pending, Active, WatchKinds
<1>6. \A q \in Requests : Active(q, WatchKinds)' =>
          /\ request'[q].pc \in {"connect", "wire"}
          /\ watching' <=> request'[q].kind \in {"sub", "reopen"}
          /\ <<q, "ok">> \in answers' => watched' = watching'
  BY <1>1, <1>2, <1>3, <1>4 DEF WatchInv, OnlyOne, Same, Active, Verdicts
<1>7. QED
  BY <1>1, <1>4, <1>5, <1>6 DEF WatchInv

LEMMA WatchStep == TypeInv /\ FrameInv /\ HookInv /\ WatchInv /\ [Next]_vars => WatchInv'
<1> SUFFICES ASSUME TypeInv, FrameInv, HookInv, WatchInv, [Next]_vars PROVE WatchInv'
  OBVIOUS
<1>1. QED
  BY TaskKeepsWatch, ThreadKeepsWatch, OthersKeepWatch, RequestKeepsWatch, ServerKeepsWatch,
     DropKeepsWatch, ConnectKeepsWatch, CollectKeepsWatch, ReopenKeepsWatch
  DEF Next

LEMMA WatchInvSettles == TypeInv /\ FrameInv /\ WatchInv => WatchSettles
<1> SUFFICES ASSUME TypeInv, FrameInv, WatchInv,
                    /\ up /\ "watch" \notin raced
                    /\ ~InFlight(WatchKinds) /\ restore \notin {"collect", "reopen"}
                    /\ \A t \in Threads : thread[t] \notin {"remember", "forget", "detach", "unsub"}
             PROVE  watched = watching /\ remembered = watching
  BY DEF WatchSettles
<1>1. Turning = {}
  BY DEF Turning, TurnPhases
<1>2. ~Pending(WatchKinds)
  BY DEF Pending, Active, InFlight
<1>3. watched \in BOOLEAN /\ watching \in BOOLEAN
  BY DEF TypeInv, TypeOK
<1>4. remembered = watching /\ (watching => watched) /\ (~watching => ~watched)
  BY <1>1, <1>2 DEF WatchInv
<1>5. QED
  BY <1>3, <1>4

SettledInv == TypeInv /\ FrameInv /\ HookInv /\ WatchInv

(* Once the conversation about the watcher has settled, the server watches *)
(* exactly when the client does and the next reconnect will reopen it      *)
(* exactly then, for any number of drops, restores and requests between,   *)
(* provided that its turns have not overlapped.                            *)
THEOREM WatchAlwaysSettles == Spec => []WatchSettles
<1>1. Init => SettledInv
  BY TypeInvInit, FrameInit, HookInit, WatchInit DEF SettledInv
<1>2. SettledInv /\ [Next]_vars => SettledInv'
  BY TypeInvStep, FrameStep, HookStep, WatchStep DEF SettledInv
<1>3. SettledInv => WatchSettles
  BY WatchInvSettles DEF SettledInv
<1>4. QED
  BY <1>1, <1>2, <1>3, PTL DEF Spec

-----------------------------------------------------------------------------
(* The turns of the conversation about the membership. *)

(* Every request in flight announces what was entered last, what was       *)
(* answered has made the server say so, and there is somebody left who     *)
(* will: a request, the detach that is under way, or the restore.          *)
MemberInv ==
    "member" \notin raced =>
    /\ \A r \in Requests : Active(r, MemberKinds) =>
          /\ request[r].data = entered
          /\ <<r, "ok">> \in answers => member = entered
    /\ \A t \in Threads : thread[t] = "unsub" => entered = None
    /\ \/ Pending(MemberKinds)
       \/ member = entered /\ (entered = None \/ up)
       \/ /\ entered = None
          /\ \E t \in Threads : thread[t] = "unsub"
       \/ /\ entered # None
          /\ IF up THEN restore # "no" ELSE connected

LEMMA MemberInit == Init => MemberInv
<1> SUFFICES ASSUME Init PROVE MemberInv
  OBVIOUS
<1>1. \A r \in Requests : ~Active(r, MemberKinds)
  BY DEF Init, IdleRequest, Active
<1>2. QED
  BY <1>1 DEF Init, MemberInv

(* Steps that are none of the membership's.                                *)
LEMMA QuietKeepsMember ==
    ASSUME MemberInv, raced \subseteq raced', SameOf(MemberKinds),
           UNCHANGED <<entered, member, up, connected>>,
           restore' = "no" <=> restore = "no",
           \A t \in Threads : thread'[t] = "unsub" <=> thread[t] = "unsub"
    PROVE  MemberInv'
<1> SUFFICES ASSUME "member" \notin raced' PROVE MemberInv'
  BY DEF MemberInv
<1>1. "member" \notin raced
  OBVIOUS
<1>2. /\ \A r \in Requests : Active(r, MemberKinds)' <=> Active(r, MemberKinds)
      /\ Pending(MemberKinds)' <=> Pending(MemberKinds)
  BY SameKeepsRequests
<1>3. \A r \in Requests : Active(r, MemberKinds) =>
         request'[r] = request[r] /\ (<<r, "ok">> \in answers' <=> <<r, "ok">> \in answers)
  BY DEF SameOf, Same, Verdicts
<1>4. \A r \in Requests : Active(r, MemberKinds)' =>
          /\ request'[r].data = entered'
          /\ <<r, "ok">> \in answers' => member' = entered'
  BY <1>1, <1>2, <1>3 DEF MemberInv
<1>5. QED
  BY <1>1, <1>2, <1>4 DEF MemberInv

(* A request that announces what is entered now, with no other in flight   *)
(* that says something else.                                               *)
LEMMA AnnounceKeepsMember ==
    ASSUME TypeInv, FrameInv, NEW pc \in {"attach", "connect"}, NEW kind \in MemberKinds,
           Spawn(pc, kind, entered'),
           \A r \in Requests : Active(r, MemberKinds) =>
              /\ request[r].data = entered'
              /\ <<r, "ok">> \in answers => member' = entered',
           \A t \in Threads : thread'[t] = "unsub" => entered' = None
    PROVE  MemberInv'
<1>1. PICK r \in Requests :
                 /\ request'[r] = [pc |-> pc, kind |-> kind, data |-> entered']
                 /\ OnlyOne(r)
                 /\ r \notin Carried' /\ \A x \in Verdicts : <<r, x>> \notin answers'
  BY SpawnFacts
<1>2. request'[r].pc = pc /\ request'[r].kind = kind /\ request'[r].data = entered'
  BY <1>1
<1>3. Pending(MemberKinds)'
  BY <1>2 DEF Pending, Active
<1>4. \A q \in Requests : Active(q, MemberKinds)' =>
          /\ request'[q].data = entered'
          /\ <<q, "ok">> \in answers' => member' = entered'
  <2>1. \A q \in Requests \ {r} : Active(q, MemberKinds)' => Active(q, MemberKinds)
    BY <1>1 DEF OnlyOne, Same, Active
  <2>2. \A q \in Requests \ {r} :
           request'[q] = request[q] /\ (<<q, "ok">> \in answers' <=> <<q, "ok">> \in answers)
    BY <1>1 DEF OnlyOne, Same, Verdicts
  <2>3. QED
    BY <1>1, <1>2, <2>1, <2>2 DEF Verdicts
<1>5. QED
  BY <1>3, <1>4 DEF MemberInv

LEMMA ThreadsKeepMember ==
    ASSUME TypeInv, FrameInv, MemberInv, [Next]_vars,
           \/ \E t \in Tasks : \/ \E l \in Listeners : Add(t, l) \/ RemoveOne(t, l)
                               \/ OffAll(t) \/ Detach(t)
           \/ \E t \in Threads : \/ EnsureWatching(t) \/ Remember(t)
                                 \/ MaybeStopWatching(t) \/ StopsWatching(t)
                                 \/ Forget(t)
    PROVE  MemberInv'
<1>0. raced \subseteq raced' /\ Tasks \subseteq Threads
  BY HistTyped DEF TypeInv, Threads
<1>1. UNCHANGED <<entered, member, up, connected, restore>>
  BY DEF Add, RemoveOne, OffAll, Removes, Detach, EnsureWatching, Remember,
         MaybeStopWatching, StopsWatching, Forget, localVars, netVars
<1>2. PICK t \in Threads,
           phase \in {"idle", "ensure", "remember", "stop", "counted", "forget", "detach"} :
          thread[t] # "unsub" /\ Goes(t, phase)
  BY <1>0 DEF Add, RemoveOne, OffAll, Removes, Detach, EnsureWatching, Remember,
         MaybeStopWatching, StopsWatching, Forget
<1>3. \A x \in Threads : thread'[x] = "unsub" <=> thread[x] = "unsub"
  BY <1>2, GoesFacts
<1>4. \/ UNCHANGED <<request, wire, answers>>
      \/ Spawn("connect", "sub", None) \/ Spawn("connect", "unsub", None)
  BY DEF Add, RemoveOne, OffAll, Removes, Detach, EnsureWatching, Remember,
         MaybeStopWatching, StopsWatching, Forget, reqVars
<1>5. SameOf(MemberKinds)
  BY <1>4, NoneIsSame, SpawnIsSame DEF MemberKinds
<1>6. QED
  BY <1>0, <1>1, <1>3, <1>5, QuietKeepsMember

(* A turn begins when the one before is through.                           *)
LEMMA CallKeepsMember ==
    ASSUME TypeInv, FrameInv, MemberInv, [Next]_vars,
           (\E data \in Data : Enter(data)) \/ Leave
    PROVE  MemberInv'
<1> SUFFICES ASSUME "member" \notin raced' PROVE MemberInv'
  BY DEF MemberInv
<1>1. ~MemberBusy(None)
  BY DEF Enter, Leave, Races
<1>2. UNCHANGED thread /\ \E kind \in MemberKinds : Spawn("attach", kind, entered')
  BY DEF Enter, Leave, emitVars, MemberKinds
<1>3. \A t \in Threads : thread'[t] # "unsub"
  BY <1>1, <1>2, PresenceAssumption DEF MemberBusy, Threads
<1>4. \A r \in Requests : ~Active(r, MemberKinds)
  BY <1>1 DEF MemberBusy, InFlight, Active
<1>5. QED
  BY <1>2, <1>3, <1>4, AnnounceKeepsMember

LEMMA DetachKeepsMember ==
    ASSUME TypeInv, FrameInv, MemberInv, [Next]_vars, NEW t \in Tasks,
           OnDetached(t) \/ DetachForgets(t)
    PROVE  MemberInv'
<1> SUFFICES ASSUME "member" \notin raced' PROVE MemberInv'
  BY DEF MemberInv
<1>0. "member" \notin raced /\ t \in Threads
  BY HistTyped DEF TypeInv, Threads
<1>1. CASE OnDetached(t)
  <2>1. /\ ~MemberBusy(t) /\ entered' = None /\ Goes(t, "unsub")
        /\ UNCHANGED <<request, wire, answers>>
    BY <1>1 DEF OnDetached, reqVars
  <2>2. \A r \in Requests : ~Active(r, MemberKinds)'
    BY <2>1 DEF MemberBusy, InFlight, Active
  <2>3. thread'[t] = "unsub"
    BY <1>0, <2>1, GoesFacts
  <2>4. QED
    BY <1>0, <2>1, <2>2, <2>3 DEF MemberInv
<1>2. CASE DetachForgets(t)
  <2>1. /\ thread[t] = "unsub" /\ Spawn("connect", "detach", None)
        /\ UNCHANGED <<entered, member>>
    BY <1>2 DEF DetachForgets, netVars
  <2>2. entered' = None /\ "detach" \in MemberKinds
    BY <1>0, <2>1 DEF MemberInv, MemberKinds
  <2>3. \A r \in Requests : Active(r, MemberKinds) =>
              /\ request[r].data = entered'
              /\ <<r, "ok">> \in answers => member' = entered'
    BY <1>0, <2>1 DEF MemberInv
  <2>4. QED
    BY <2>1, <2>2, <2>3, AnnounceKeepsMember
<1>3. QED
  BY <1>1, <1>2

LEMMA EmitKeepsMember ==
    ASSUME TypeInv, FrameInv, HookInv, MemberInv, [Next]_vars,
           \/ \E d \in Drainers : \/ Drain(d) \/ Snapshot(d) \/ CallListener(d)
                                  \/ EmitRunsHook(d) \/ EmitReturns(d)
           \/ \E action \in Fns : EmitPresence(action)
           \/ UNCHANGED vars
    PROVE  MemberInv'
<1>0. raced \subseteq raced'
  BY HistTyped DEF TypeInv
<1>1. /\ UNCHANGED <<entered, member, up, connected, restore>>
      /\ UNCHANGED <<request, wire, answers>>
  BY DEF Drain, Snapshot, CallListener, EmitRunsHook, EmitReturns, EmitPresence, vars,
         localVars, reqVars, netVars
<1>2. \A x \in Threads : thread'[x] = "unsub" <=> thread[x] = "unsub"
  <2>1. ASSUME NEW d \in Drainers, EmitRunsHook(d)
        PROVE  \A x \in Threads : thread'[x] = "unsub" <=> thread[x] = "unsub"
    <3>1. d \in Threads /\ thread[d] = "idle" /\ Goes(d, "stop")
      BY <2>1 DEF EmitRunsHook, HookInv, Threads
    <3>2. QED
      BY <3>1, GoesFacts
  <2>2. (~\E d \in Drainers : EmitRunsHook(d)) => UNCHANGED thread
    BY DEF Drain, Snapshot, CallListener, EmitReturns, EmitPresence, vars, emitVars
  <2>3. QED
    BY <2>1, <2>2
<1>3. QED
  BY <1>0, <1>1, <1>2, NoneIsSame, QuietKeepsMember

LEMMA RequestKeepsMember ==
    ASSUME TypeInv, FrameInv, MemberInv, [Next]_vars, NEW r \in Requests,
           \/ Attached(r) \/ Fails(r) \/ Write(r) \/ ReadAnswer(r) \/ Denied(r)
           \/ ResetWatching(r) \/ ForgetDenied(r)
    PROVE  MemberInv'
<1> SUFFICES ASSUME "member" \notin raced' PROVE MemberInv'
  BY DEF MemberInv
<1>0. raced \subseteq raced' /\ "member" \notin raced
  BY HistTyped DEF TypeInv
<1>1. OnlyOne(r)
  BY RequestKeepsFrames, WriteFacts, ReadFacts
<1>2. /\ UNCHANGED <<entered, member, up, connected, restore, thread>>
      /\ request[r].pc # "idle"
  <2>1. ReadAnswer(r) => request[r].pc = "wire"
    BY ReadFacts
  <2>2. QED
    BY <2>1
    DEF Attached, Fails, Write, ReadAnswer, Denied, ResetWatching, ForgetDenied,
        netVars, emitVars, localVars
<1>3. CASE ~Active(r, MemberKinds)
  <2>1. request[r].kind \notin MemberKinds
    BY <1>2, <1>3 DEF Active
  <2>2. request'[r].pc = "idle" \/ request'[r].kind = request[r].kind
    BY PcFacts, EndsFacts
    DEF Attached, Fails, Write, ReadAnswer, Denied, ResetWatching, ForgetDenied
  <2>3. SameOf(MemberKinds)
    <3>1. ~Active(r, MemberKinds)'
      BY <2>1, <2>2 DEF Active
    <3>2. QED
      BY <1>1, <1>3, <3>1, OnlyOneIsSame
  <2>4. QED
    BY <1>0, <1>2, <2>3, QuietKeepsMember
<1>4. CASE Active(r, MemberKinds) /\ (Attached(r) \/ Write(r))
  <2>1. /\ request'[r].pc \in {"connect", "wire"} /\ request'[r].kind = request[r].kind
        /\ request'[r].data = request[r].data
        /\ request'[r].pc = "wire" => r \in Carried'
    <3>1. CASE Attached(r)
      <4>1. Pc(r, "connect")
        BY <3>1 DEF Attached
      <4>2. /\ request'[r].pc = "connect" /\ request'[r].kind = request[r].kind
            /\ request'[r].data = request[r].data
        BY <4>1, PcFacts, Zenon
      <4>3. QED
        BY <4>2
    <3>2. CASE Write(r)
      BY <3>2, WriteFacts
    <3>3. QED
      BY <1>4, <3>1, <3>2
  <2>2. <<r, "ok">> \notin answers'
    BY <1>4, RequestKeepsFrames, WriteFacts DEF FrameInv, Verdicts, Write
  <2>3. Pending(MemberKinds)'
    BY <1>4, <2>1 DEF Pending, Active
  <2>4. \A q \in Requests : Active(q, MemberKinds)' =>
          /\ request'[q].data = entered'
          /\ <<q, "ok">> \in answers' => member' = entered'
    BY <1>0, <1>1, <1>2, <1>4, <2>1, <2>2 DEF MemberInv, OnlyOne, Same, Active, Verdicts
  <2>5. QED
    BY <1>0, <1>2, <2>3, <2>4 DEF MemberInv
<1>5. ASSUME Active(r, MemberKinds), Ends(r),
             \/ member = entered /\ up
             \/ entered # None /\ ~up /\ connected
      PROVE  MemberInv'
  <2>1. ~Active(r, MemberKinds)'
    BY <1>5, EndsFacts DEF Active
  <2>2. \A q \in Requests : Active(q, MemberKinds)' =>
          /\ request'[q].data = entered'
          /\ <<q, "ok">> \in answers' => member' = entered'
    BY <1>0, <1>1, <1>2, <2>1, FewerRequests DEF MemberInv
  <2>3. QED
    BY <1>0, <1>2, <1>5, <2>2 DEF MemberInv
<1>6. CASE Active(r, MemberKinds) /\ Fails(r)
  <2>1. Ends(r) /\ Unhealed({request[r].kind}) /\ request[r].kind \in MemberKinds
    BY <1>6 DEF Fails, Active
  <2>2. request[r].kind = "enter" /\ ~up /\ connected
    BY <2>1 DEF Unhealed, MemberKinds
  <2>3. entered # None
    BY <1>0, <1>6, <2>2, PresenceAssumption DEF FrameInv, MemberInv
  <2>4. QED
    BY <1>5, <1>6, <2>1, <2>2, <2>3
<1>7. CASE Active(r, MemberKinds) /\ ReadAnswer(r)
  <2>1. request[r].kind \in MemberKinds /\ request[r].kind # "sub"
    BY <1>7 DEF Active, MemberKinds
  <2>2. <<r, "refused">> \in answers => request[r].kind \notin WatchKinds
    BY <2>1 DEF FrameInv, MemberKinds, WatchKinds
  <2>3. <<r, "ok">> \in answers /\ Ends(r)
    BY <1>0, <1>7, <2>1, <2>2 DEF ReadAnswer
  <2>4. member = entered /\ up
    BY <1>0, <1>7, <2>3 DEF MemberInv, FrameInv
  <2>5. QED
    BY <1>5, <1>7, <2>3, <2>4
<1>8. CASE Active(r, MemberKinds) /\ (Denied(r) \/ ResetWatching(r) \/ ForgetDenied(r))
  BY <1>8 DEF Denied, ResetWatching, ForgetDenied, FrameInv, Active, MemberKinds
<1>9. QED
  BY <1>3, <1>4, <1>6, <1>7, <1>8

LEMMA ServerKeepsMember ==
    ASSUME TypeInv, FrameInv, MemberInv, [Next]_vars, ServerAnswers
    PROVE  MemberInv'
<1> SUFFICES ASSUME "member" \notin raced' PROVE MemberInv'
  BY DEF MemberInv
<1>. PICK r \in Requests : r = Head(wire)
  BY AnswerFacts
<1>0. raced \subseteq raced' /\ "member" \notin raced
  BY HistTyped DEF TypeInv
<1>1. /\ request[r].pc = "wire" /\ UNCHANGED request
      /\ Carried' = Carried \ {r} /\ OnlyOne(r) /\ up
  BY AnswerFacts
<1>2. UNCHANGED <<entered, up, connected, restore, thread>>
  BY DEF ServerAnswers, localVars, emitVars
<1>3. CASE request[r].kind \notin MemberKinds
  <2>1. UNCHANGED member
    BY <1>3 DEF ServerAnswers
  <2>2. ~Active(r, MemberKinds) /\ ~Active(r, MemberKinds)'
    BY <1>1, <1>3 DEF Active
  <2>3. SameOf(MemberKinds)
    BY <1>1, <2>2, OnlyOneIsSame
  <2>4. QED
    BY <1>0, <1>2, <2>1, <2>3, QuietKeepsMember
<1>4. CASE request[r].kind \in MemberKinds
  <2>1. Active(r, MemberKinds)
    BY <1>1, <1>4 DEF Active
  <2>2. request[r].data = entered
    BY <1>0, <2>1 DEF MemberInv
  <2>3. \A q \in Requests : Active(q, MemberKinds)' <=> Active(q, MemberKinds)
    BY <1>1 DEF Active
  <2>4. CASE member' = entered
    BY <1>0, <1>1, <1>2, <2>3, <2>4 DEF MemberInv
  <2>5. CASE UNCHANGED member /\ answers' = answers \cup {<<r, "refused">>}
    <3>1. Pending(MemberKinds)'
      BY <1>1, <2>1, <2>3, <2>5 DEF Pending
    <3>2. \A q \in Requests : Active(q, MemberKinds)' =>
          /\ request'[q].data = entered'
          /\ <<q, "ok">> \in answers' => member' = entered'
      BY <1>0, <1>1, <1>2, <2>3, <2>5 DEF MemberInv
    <3>3. QED
      BY <1>0, <1>2, <3>1, <3>2 DEF MemberInv
  <2>6. QED
    BY <1>4, <2>2, <2>4, <2>5 DEF ServerAnswers
<1>5. QED
  BY <1>3, <1>4

LEMMA DropKeepsMember ==
    ASSUME TypeInv, FrameInv, MemberInv, Drop
    PROVE  MemberInv'
<1> SUFFICES ASSUME "member" \notin raced' PROVE MemberInv'
  BY DEF MemberInv
<1>0. "member" \notin raced
  BY DEF Drop
<1>1. /\ up /\ up' = FALSE /\ answers' = {} /\ member' \in {member, None}
      /\ UNCHANGED <<entered, connected, restore, thread>>
      /\ request' = [r \in Requests |-> IF request[r].pc = "wire" THEN IdleRequest
                                                                 ELSE request[r]]
  BY DEF Drop, localVars, emitVars
<1>2. connected
  BY <1>1 DEF FrameInv
<1>3. \A r \in Requests : Active(r, MemberKinds)' =>
         Active(r, MemberKinds) /\ request'[r] = request[r]
  BY <1>1 DEF Active, IdleRequest
<1>4. \A q \in Requests : Active(q, MemberKinds)' =>
          /\ request'[q].data = entered'
          /\ <<q, "ok">> \in answers' => member' = entered'
  BY <1>0, <1>1, <1>3 DEF MemberInv
<1>5. CASE entered # None
  BY <1>0, <1>1, <1>2, <1>4, <1>5 DEF MemberInv
<1>6. CASE entered = None
  <2>1. ASSUME Pending(MemberKinds) PROVE Pending(MemberKinds)'
    <3>1. PICK r \in Requests : Active(r, MemberKinds)
      BY <2>1 DEF Pending
    <3>2. request[r].data = None /\ request[r].kind \in {"leave", "detach"}
      BY <1>0, <1>6, <3>1, PresenceAssumption DEF MemberInv, FrameInv, Active, MemberKinds
    <3>3. request[r].pc # "wire"
      BY <3>2 DEF Drop
    <3>4. request'[r] = request[r]
      BY <1>1, <3>3
    <3>5. QED
      BY <3>1, <3>3, <3>4 DEF Pending, Active
  <2>2. CASE member = None
    BY <1>0, <1>1, <1>4, <1>6, <2>2 DEF MemberInv
  <2>3. CASE member # None
    BY <1>0, <1>1, <1>4, <1>6, <2>1, <2>3 DEF MemberInv
  <2>4. QED
    BY <2>2, <2>3
<1>7. QED
  BY <1>5, <1>6

LEMMA ConnectKeepsMember ==
    ASSUME TypeInv, FrameInv, MemberInv, Connect
    PROVE  MemberInv'
<1>1. /\ ~up /\ up' = TRUE /\ restore = "no"
      /\ restore' = IF connected THEN "collect" ELSE "no"
      /\ UNCHANGED <<entered, member, thread, request, wire, answers, raced>>
  BY DEF Connect, localVars, emitVars, reqVars, histVars
<1>2. /\ \A r \in Requests : Active(r, MemberKinds)' <=> Active(r, MemberKinds)
      /\ Pending(MemberKinds)' <=> Pending(MemberKinds)
  BY <1>1, NoneIsSame, SameKeepsRequests
<1>3. QED
  BY <1>1, <1>2 DEF MemberInv

LEMMA RestoreKeepsMember ==
    ASSUME TypeInv, FrameInv, MemberInv, [Next]_vars,
           RestoreCollects \/ RestoreReopens \/ RestoreReenters
    PROVE  MemberInv'
<1>0. raced \subseteq raced'
  BY HistTyped DEF TypeInv
<1>1. CASE RestoreCollects \/ RestoreReopens
  <2>1. /\ UNCHANGED <<entered, member, up, connected, thread>>
        /\ restore # "no" /\ restore' # "no"
    BY <1>1 DEF RestoreCollects, RestoreReopens, localVars, emitVars
  <2>2. UNCHANGED <<request, wire, answers>> \/ Spawn("connect", "reopen", None)
    BY <1>1 DEF RestoreCollects, RestoreReopens, reqVars
  <2>3. SameOf(MemberKinds)
    BY <2>2, NoneIsSame, SpawnIsSame DEF MemberKinds
  <2>4. QED
    BY <1>0, <2>1, <2>3, QuietKeepsMember
<1>2. CASE RestoreReenters
  <2> SUFFICES ASSUME "member" \notin raced' PROVE MemberInv'
    BY DEF MemberInv
  <2>0. "member" \notin raced
    BY <1>0
  <2>1. UNCHANGED <<entered, member, up, connected, thread>>
    BY <1>2 DEF RestoreReenters, localVars, emitVars
  <2>2. CASE entered = None
    <3>1. UNCHANGED <<request, wire, answers>>
      BY <1>2, <2>2 DEF RestoreReenters, reqVars
    <3>2. /\ \A r \in Requests : Active(r, MemberKinds)' <=> Active(r, MemberKinds)
          /\ Pending(MemberKinds)' <=> Pending(MemberKinds)
      BY <3>1, NoneIsSame, SameKeepsRequests
    <3>3. QED
      BY <2>0, <2>1, <2>2, <3>1, <3>2 DEF MemberInv
  <2>3. CASE entered # None
    <3>1. Spawn("attach", "enter", entered') /\ "enter" \in MemberKinds
      BY <1>2, <2>1, <2>3 DEF RestoreReenters, MemberKinds
    <3>2. \A r \in Requests : Active(r, MemberKinds) =>
              /\ request[r].data = entered'
              /\ <<r, "ok">> \in answers => member' = entered'
      BY <2>0, <2>1 DEF MemberInv
    <3>3. \A t \in Threads : thread'[t] = "unsub" => entered' = None
      BY <2>0, <2>1 DEF MemberInv
    <3>4. QED
      BY <3>1, <3>2, <3>3, AnnounceKeepsMember
  <2>4. QED
    BY <2>2, <2>3
<1>3. QED
  BY <1>1, <1>2

LEMMA MemberStep == TypeInv /\ FrameInv /\ HookInv /\ MemberInv /\ [Next]_vars => MemberInv'
<1> SUFFICES ASSUME TypeInv, FrameInv, HookInv, MemberInv, [Next]_vars PROVE MemberInv'
  OBVIOUS
<1>1. QED
  BY ThreadsKeepMember, CallKeepsMember, DetachKeepsMember, EmitKeepsMember,
     RequestKeepsMember, ServerKeepsMember, DropKeepsMember, ConnectKeepsMember,
     RestoreKeepsMember
  DEF Next

LEMMA MemberInvSettles == MemberInv => MemberSettles
<1> SUFFICES ASSUME MemberInv, up, "member" \notin raced, ~InFlight(MemberKinds),
                    restore = "no",
                    \A t \in Threads : thread[t] \notin {"detach", "unsub"}
             PROVE  member = entered
  BY DEF MemberSettles
<1>1. ~Pending(MemberKinds)
  BY DEF Pending, Active, InFlight
<1>2. QED
  BY <1>1 DEF MemberInv

(* Once the conversation about the membership has settled, the server has  *)
(* what the application entered last, whether a reconnect kept it or not,  *)
(* for any number of drops, restores and requests between, provided that   *)
(* its turns have not overlapped.                                          *)
THEOREM MemberAlwaysSettles == Spec => []MemberSettles
<1> DEFINE Inv == TypeInv /\ FrameInv /\ HookInv /\ MemberInv
<1>1. Init => Inv
  BY TypeInvInit, FrameInit, HookInit, MemberInit
<1>2. Inv /\ [Next]_vars => Inv'
  BY TypeInvStep, FrameStep, HookStep, MemberStep
<1>3. Inv => MemberSettles
  BY MemberInvSettles
<1>4. QED
  BY <1>1, <1>2, <1>3, PTL DEF Spec
=============================================================================
