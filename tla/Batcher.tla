-------------------------------- MODULE Batcher --------------------------------
(***************************************************************************)
(* The auto-batching of one channel's publishes (src/channel.go:516-580):  *)
(* the buffer, the throttle timer and its callbacks, which Stop cannot     *)
(* take back once they have fired, and the goroutines that send a batch.   *)
(*                                                                         *)
(* Time passes in ticks, Interval of which make up the throttle window.    *)
(* One action is one critical section of ch.mu or one step of a goroutine. *)
(***************************************************************************)
EXTENDS Integers, Sequences, FiniteSets

CONSTANTS
    Publishes,   \* the Publish calls of single messages
    Timers,      \* slots for batch timers and the callbacks they start
    Interval,    \* BatchOptions.Interval, in ticks
    MaxMessages, \* BatchOptions.MaxMessages
    None

ASSUME BatcherAssumption ==
    /\ None \notin Timers
    /\ Interval \in Nat \ {0}
    /\ MaxMessages \in Nat \ {0}

VARIABLES
    batchBuf,   \* ch.batchBuf: the calls whose members wait
    batchTimer, \* ch.batchTimer
    timer,      \* each timer: off, armed with ticks left, or fired (its
                \* callback waits for ch.mu)
    elapsed,    \* ticks since ch.lastFlush; Interval stands for "or more"
    sending,    \* the batches that goroutines in sendBatch hold
    answer,     \* what the done channel of each call has received
    called      \* the calls made so far

vars == <<batchBuf, batchTimer, timer, elapsed, sending, answer, called>>

TypeOK ==
    /\ batchBuf \in Seq(Publishes) /\ Len(batchBuf) < MaxMessages
    /\ batchTimer \in Timers \cup {None}
    /\ timer \in [Timers -> [pc : {"off", "armed", "fired"}, left : 0 .. Interval]]
    /\ elapsed \in 0 .. Interval
    /\ sending \subseteq Seq(Publishes)
    /\ answer \in [Publishes -> {"none", "ok", "err"}]
    /\ called \subseteq Publishes

Off == [pc |-> "off", left |-> 0]

Init ==
    /\ batchBuf = <<>>
    /\ batchTimer = None
    /\ timer = [t \in Timers |-> Off]
    /\ elapsed = Interval
    /\ sending = {}
    /\ answer = [p \in Publishes |-> "none"]
    /\ called = {}

-----------------------------------------------------------------------------
(* time.Timer.Stop: a timer that has fired keeps its callback. *)
Stopped(t, timers) ==
    [u \in Timers |-> IF u = t /\ timers[u].pc = "armed" THEN Off ELSE timers[u]]

(* Mutant: the timer is neither stopped nor forgotten. *)
FlushKeepsTimer(buf, timers) ==
    /\ timer' = timers
    /\ batchBuf' = <<>>
    /\ UNCHANGED batchTimer
    /\ IF buf = <<>> THEN UNCHANGED <<elapsed, sending>>
                     ELSE elapsed' = 0 /\ sending' = sending \cup {buf}

(* Mutant: the buffer is sent but not emptied. *)
FlushKeepsBuffer(buf, timers) ==
    /\ timer' = Stopped(batchTimer, timers)
    /\ batchTimer' = None
    /\ batchBuf' = buf
    /\ IF buf = <<>> THEN UNCHANGED <<elapsed, sending>>
                     ELSE elapsed' = 0 /\ sending' = sending \cup {buf}

(* flushLocked, on the buffer and the timers as the caller leaves them. *)
FlushLocked(buf, timers) ==
    /\ timer' = Stopped(batchTimer, timers)
    /\ batchTimer' = None
    /\ batchBuf' = <<>>
    /\ IF buf = <<>> THEN UNCHANGED <<elapsed, sending>>
                     ELSE elapsed' = 0 /\ sending' = sending \cup {buf}

(* Mutant: no timer when the window is already over. *)
ScheduleUnlessDue ==
    \/ (batchTimer # None \/ elapsed = Interval) /\ UNCHANGED <<batchTimer, timer>>
    \/ /\ batchTimer = None /\ elapsed < Interval
       /\ \E t \in Timers :
             /\ timer[t] = Off
             /\ batchTimer' = t
             /\ timer' = [timer EXCEPT ![t] = [pc |-> "armed", left |-> Interval - elapsed]]

(* Send right away unless a batch went out within Interval: wait out the   *)
(* rest of the window.                                                     *)
ScheduleFlush ==
    \/ batchTimer # None /\ UNCHANGED <<batchTimer, timer>>
    \/ /\ batchTimer = None
       /\ \E t \in Timers :
             /\ timer[t] = Off
             /\ batchTimer' = t
             /\ timer' = [timer EXCEPT ![t] = [pc |-> "armed", left |-> Interval - elapsed]]

Enqueue(p) ==
    /\ p \notin called
    /\ called' = called \cup {p}
    /\ LET buf == Append(batchBuf, p)
       IN  IF Len(buf) >= MaxMessages
             THEN FlushLocked(buf, timer)
             ELSE batchBuf' = buf /\ ScheduleFlush /\ UNCHANGED <<elapsed, sending>>
    /\ UNCHANGED answer

(* Flush, called by the application or by Detach. *)
Flush ==
    /\ FlushLocked(batchBuf, timer)
    /\ UNCHANGED <<answer, called>>

TimerFires(t) ==
    /\ timer[t].pc = "armed" /\ timer[t].left = 0
    /\ timer' = [timer EXCEPT ![t].pc = "fired"]
    /\ UNCHANGED <<batchBuf, batchTimer, elapsed, sending, answer, called>>

(* The callback of a timer is Flush, of whatever is buffered by now. *)
TimerFlushes(t) ==
    /\ timer[t].pc = "fired"
    /\ FlushLocked(batchBuf, [timer EXCEPT ![t] = Off])
    /\ UNCHANGED <<answer, called>>

(* sendBatch: Connection.publish returns, and every call of the batch is   *)
(* told so on its buffered channel, whether it still waits or its context  *)
(* has ended.                                                              *)
SendBatch(batch) ==
    /\ sending' = sending \ {batch}
    /\ \E err \in {"ok", "err"} :
          answer' = [p \in Publishes |->
                       IF \E i \in DOMAIN batch : batch[i] = p THEN err ELSE answer[p]]
    /\ UNCHANGED <<batchBuf, batchTimer, timer, elapsed, called>>

Tick ==
    /\ elapsed' = IF elapsed < Interval THEN elapsed + 1 ELSE elapsed
    /\ timer' = [t \in Timers |-> IF timer[t].left > 0
                                    THEN [timer[t] EXCEPT !.left = @ - 1] ELSE timer[t]]
    /\ UNCHANGED <<batchBuf, batchTimer, sending, answer, called>>

Next ==
    \/ \E p \in Publishes : Enqueue(p)
    \/ Flush
    \/ \E t \in Timers : TimerFires(t) \/ TimerFlushes(t)
    \/ \E batch \in sending : SendBatch(batch)
    \/ Tick

Spec == Init /\ [][Next]_vars

(* Timers fire when they are due, their callbacks get ch.mu, and the       *)
(* connection answers or refuses what it was given to publish.             *)
Fairness ==
    /\ WF_vars(Tick)
    /\ \A t \in Timers : WF_vars(TimerFires(t)) /\ WF_vars(TimerFlushes(t))
    /\ WF_vars(\E batch \in sending : SendBatch(batch))

FairSpec == Spec /\ Fairness

-----------------------------------------------------------------------------
(* Properties. *)

(* Buffered publishes always have a timer that will send them, armed or    *)
(* with its callback under way, whichever of a full buffer, Flush and an   *)
(* earlier callback emptied the buffer before them (channel.go:525-536,    *)
(* 560-571).                                                               *)
BufferIsTimed ==
    batchBuf # <<>> => batchTimer # None /\ timer[batchTimer].pc \in {"armed", "fired"}

In(p, s) == {i \in DOMAIN s : s[i] = p}

(* Every call is in one place: in the buffer once, in one batch under way  *)
(* once, or answered.  A call in two would block its second sendBatch for  *)
(* ever on the done channel, and the calls behind it (channel.go:533-550). *)
InOnePlace ==
    \A p \in Publishes :
        LET batches == {b \in sending : In(p, b) # {}}
        IN  Cardinality(In(p, batchBuf)) + Cardinality(batches)
              + (IF answer[p] = "none" THEN 0 ELSE 1) = (IF p \in called THEN 1 ELSE 0)

(* A batch that its own timer sends waited out the window since the batch  *)
(* before, however that one was sent ("a publish is sent right away unless *)
(* a batch went out within the last Interval", channel.go:73-75).          *)
OwnTimerThrottles ==
    [][\A t \in Timers :
          /\ timer[t].pc = "fired" /\ timer'[t].pc = "off"
          /\ batchTimer = t /\ batchBuf # <<>>
          => elapsed = Interval]_vars

(* Every publish is answered, even when its caller has given up. *)
PublishAnswered == \A p \in Publishes : (p \in called) ~> (answer[p] # "none")
=============================================================================
