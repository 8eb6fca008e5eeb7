------------------------- MODULE BatcherAndRestProofs -------------------------
(***************************************************************************)
(* What holds of module Batcher for every number of publishes and timers,  *)
(* every interval and every size of a batch, and, below, of module RestAuth *)
(* for every set of requests and any number of invalidations.  The two     *)
(* components share nothing.                                               *)
(***************************************************************************)
EXTENDS Batcher, RestAuth, FiniteSetTheorems, TLAPS

TimerRecords == [pc : {"off", "armed", "fired"}, left : 0 .. Interval]

(* The referenced timer is armed with at least the rest of the window to   *)
(* go, or its callback is under way and the window is over.                *)
WindowInv ==
    batchTimer # None =>
        \/ timer[batchTimer].pc = "armed" /\ timer[batchTimer].left + elapsed >= Interval
        \/ timer[batchTimer].pc = "fired" /\ elapsed = Interval

(* Only the two together are inductive with the throttle: a buffer without *)
(* a timer would let the next one be armed for a window that is not its    *)
(* own.                                                                    *)
BatchInv ==
    /\ TypeOK
    /\ WindowInv
    /\ batchBuf # <<>> => batchTimer # None

LEMMA InitBatchInv == Init => BatchInv
BY BatcherAssumption DEF Init, BatchInv, TypeOK, WindowInv, Off

LEMMA StoppedType ==
    ASSUME NEW t, NEW timers \in [Timers -> TimerRecords]
    PROVE  Stopped(t, timers) \in [Timers -> TimerRecords]
<1>1. Off \in TimerRecords
  BY BatcherAssumption DEF Off, TimerRecords
<1>2. QED
  BY <1>1 DEF Stopped

(* flushLocked leaves no buffer and no timer behind. *)
LEMMA FlushKeeps ==
    ASSUME BatchInv, NEW buf \in Seq(Publishes),
           NEW timers \in [Timers -> TimerRecords], FlushLocked(buf, timers),
           answer' \in [Publishes -> {"none", "ok", "err"}], called' \subseteq Publishes
    PROVE  BatchInv'
<1>1. batchBuf' = <<>> /\ batchTimer' = None
  BY DEF FlushLocked
<1>2. timer' \in [Timers -> TimerRecords]
  BY StoppedType DEF FlushLocked
<1>3. elapsed' \in 0 .. Interval
  BY BatcherAssumption DEF FlushLocked, BatchInv, TypeOK
<1>4. sending' \subseteq Seq(Publishes)
  BY DEF FlushLocked, BatchInv, TypeOK
<1>5. batchBuf' \in Seq(Publishes) /\ Len(batchBuf') < MaxMessages
  BY <1>1, BatcherAssumption
<1>6. QED
  BY <1>1, <1>2, <1>3, <1>4, <1>5 DEF BatchInv, TypeOK, WindowInv, TimerRecords

(* A timer is armed for exactly what is left of the window. *)
LEMMA ScheduleKeeps ==
    ASSUME BatchInv, ScheduleFlush, UNCHANGED elapsed
    PROVE  /\ batchTimer' \in Timers \cup {None} /\ batchTimer' # None
           /\ timer' \in [Timers -> TimerRecords]
           /\ WindowInv'
<1> USE BatcherAssumption
<1>1. CASE batchTimer # None /\ UNCHANGED <<batchTimer, timer>>
  BY <1>1 DEF BatchInv, TypeOK, WindowInv, TimerRecords
<1>2. ASSUME NEW t \in Timers,
             batchTimer' = t,
             timer' = [timer EXCEPT ![t] = [pc |-> "armed", left |-> Interval - elapsed]]
      PROVE  /\ batchTimer' \in Timers \cup {None} /\ batchTimer' # None
             /\ timer' \in [Timers -> TimerRecords]
             /\ WindowInv'
  <2>1. elapsed \in 0 .. Interval /\ timer \in [Timers -> TimerRecords]
    BY DEF BatchInv, TypeOK, TimerRecords
  <2>2. [pc |-> "armed", left |-> Interval - elapsed] \in TimerRecords
    BY <2>1 DEF TimerRecords
  <2>3. timer'[t] = [pc |-> "armed", left |-> Interval - elapsed]
    BY <1>2, <2>1
  <2>4. timer'[t].pc = "armed" /\ timer'[t].left + elapsed >= Interval
    BY <2>1, <2>3
  <2>5. QED
    BY <1>2, <2>1, <2>2, <2>4 DEF WindowInv
<1>3. QED
  BY <1>1, <1>2 DEF ScheduleFlush

LEMMA EnqueueKeeps ==
    ASSUME BatchInv, NEW p \in Publishes, Enqueue(p)
    PROVE  BatchInv'
<1> DEFINE buf == Append(batchBuf, p)
<1>1. buf \in Seq(Publishes) /\ Len(buf) = Len(batchBuf) + 1
  BY DEF BatchInv, TypeOK
<1>2. called' \subseteq Publishes /\ answer' \in [Publishes -> {"none", "ok", "err"}]
  BY DEF Enqueue, BatchInv, TypeOK
<1>3. CASE Len(buf) >= MaxMessages
  <2>1. FlushLocked(buf, timer)
    BY <1>3 DEF Enqueue
  <2>2. timer \in [Timers -> TimerRecords]
    BY DEF BatchInv, TypeOK, TimerRecords
  <2>3. QED
    BY <1>1, <1>2, <2>1, <2>2, FlushKeeps
<1>4. CASE ~(Len(buf) >= MaxMessages)
  <2>1. batchBuf' = buf /\ ScheduleFlush /\ UNCHANGED <<elapsed, sending>>
    BY <1>4 DEF Enqueue
  <2>2. /\ batchTimer' \in Timers \cup {None} /\ batchTimer' # None
        /\ timer' \in [Timers -> TimerRecords]
        /\ WindowInv'
    BY <2>1, ScheduleKeeps
  <2>3. Len(batchBuf') < MaxMessages
    BY <1>1, <1>4, <2>1, BatcherAssumption DEF BatchInv, TypeOK
  <2>4. QED
    BY <1>1, <1>2, <2>1, <2>2, <2>3 DEF BatchInv, TypeOK, TimerRecords
<1>5. QED
  BY <1>3, <1>4

LEMMA TimerKeeps ==
    ASSUME BatchInv, NEW t \in Timers, TimerFires(t) \/ TimerFlushes(t)
    PROVE  BatchInv'
<1> USE BatcherAssumption
<1>0. timer \in [Timers -> TimerRecords] /\ Off \in TimerRecords
  BY DEF BatchInv, TypeOK, TimerRecords, Off
<1>1. CASE TimerFires(t)
  <2>1. timer[t] \in TimerRecords /\ elapsed \in 0 .. Interval
    BY <1>0 DEF BatchInv, TypeOK
  <2>2. [timer[t] EXCEPT !.pc = "fired"] \in TimerRecords
    BY <2>1 DEF TimerRecords
  <2>3. timer' = [timer EXCEPT ![t] = [timer[t] EXCEPT !.pc = "fired"]]
    BY <1>1 DEF TimerFires
  <2>4. timer' \in [Timers -> TimerRecords]
    BY <1>0, <2>2, <2>3
  <2>5. timer'[t].pc = "fired"
    BY <1>0, <2>1, <2>3 DEF TimerRecords
  <2>6. WindowInv'
    <3>1. CASE batchTimer = t
      <4>1. elapsed = Interval
        BY <1>1, <2>1, <3>1 DEF TimerFires, BatchInv, WindowInv, TypeOK
      <4>2. QED
        BY <1>1, <2>5, <3>1, <4>1 DEF TimerFires, WindowInv
    <3>2. CASE batchTimer # t
      <4>1. batchTimer # None => timer'[batchTimer] = timer[batchTimer]
        BY <1>0, <2>3, <3>2 DEF BatchInv, TypeOK
      <4>2. QED
        BY <1>1, <4>1 DEF TimerFires, BatchInv, WindowInv
    <3>3. QED
      BY <3>1, <3>2
  <2>7. QED
    BY <1>1, <2>4, <2>6 DEF TimerFires, BatchInv, TypeOK, TimerRecords
<1>2. CASE TimerFlushes(t)
  <2>1. [timer EXCEPT ![t] = Off] \in [Timers -> TimerRecords]
    BY <1>0
  <2>2. QED
    BY <1>2, <2>1, FlushKeeps DEF TimerFlushes, BatchInv, TypeOK
<1>3. QED
  BY <1>1, <1>2

LEMMA TickKeeps ==
    ASSUME BatchInv, Tick
    PROVE  BatchInv'
<1> USE BatcherAssumption
<1>1. timer \in [Timers -> TimerRecords] /\ elapsed \in 0 .. Interval
  BY DEF BatchInv, TypeOK, TimerRecords
<1>2. elapsed' = IF elapsed < Interval THEN elapsed + 1 ELSE elapsed
  BY DEF Tick
<1>3. elapsed' \in 0 .. Interval
  BY <1>1, <1>2
<1>4. ASSUME NEW u \in Timers
      PROVE  /\ timer'[u] \in TimerRecords
             /\ timer'[u].pc = timer[u].pc
             /\ timer'[u].left = IF timer[u].left > 0 THEN timer[u].left - 1
                                                      ELSE timer[u].left
  <2>1. timer[u] \in TimerRecords
    BY <1>1
  <2>2. timer'[u] = IF timer[u].left > 0 THEN [timer[u] EXCEPT !.left = @ - 1] ELSE timer[u]
    BY DEF Tick
  <2>3. QED
    BY <2>1, <2>2 DEF TimerRecords
<1>5. timer' \in [Timers -> TimerRecords]
  <2>1. timer' = [u \in Timers |-> timer'[u]]
    BY DEF Tick
  <2>2. QED
    BY <1>4, <2>1
<1>6. WindowInv'
  <2>1. SUFFICES ASSUME batchTimer # None
                 PROVE  \/ /\ timer'[batchTimer].pc = "armed"
                           /\ timer'[batchTimer].left + elapsed' >= Interval
                        \/ timer'[batchTimer].pc = "fired" /\ elapsed' = Interval
    BY DEF Tick, WindowInv
  <2>2. batchTimer \in Timers
    BY <2>1 DEF BatchInv, TypeOK
  <2>3. timer[batchTimer].left \in 0 .. Interval
    BY <1>1, <2>2 DEF TimerRecords
  <2>4. CASE timer[batchTimer].pc = "armed" /\ timer[batchTimer].left + elapsed >= Interval
    BY <1>1, <1>2, <1>4, <2>2, <2>3, <2>4
  <2>5. CASE timer[batchTimer].pc = "fired" /\ elapsed = Interval
    BY <1>1, <1>2, <1>4, <2>2, <2>5
  <2>6. QED
    BY <2>1, <2>4, <2>5 DEF BatchInv, WindowInv
<1>7. QED
  BY <1>3, <1>5, <1>6 DEF Tick, BatchInv, TypeOK, TimerRecords

LEMMA SendKeeps ==
    ASSUME BatchInv, NEW batch \in sending, SendBatch(batch)
    PROVE  BatchInv'
<1>1. answer' \in [Publishes -> {"none", "ok", "err"}]
  BY DEF SendBatch, BatchInv, TypeOK
<1>2. sending' \subseteq Seq(Publishes)
  BY DEF SendBatch, BatchInv, TypeOK
<1>3. UNCHANGED <<batchBuf, batchTimer, timer, elapsed, called>>
  BY DEF SendBatch
<1>4. QED
  BY <1>1, <1>2, <1>3 DEF BatchInv, TypeOK, WindowInv

LEMMA StepBatchInv == BatchInv /\ [Next]_vars => BatchInv'
<1> SUFFICES ASSUME BatchInv, [Next]_vars PROVE BatchInv'
  OBVIOUS
<1>1. CASE \E p \in Publishes : Enqueue(p)
  BY <1>1, EnqueueKeeps
<1>2. CASE Flush
  BY <1>2, FlushKeeps DEF Flush, BatchInv, TypeOK, TimerRecords
<1>3. CASE \E t \in Timers : TimerFires(t) \/ TimerFlushes(t)
  BY <1>3, TimerKeeps
<1>4. CASE \E batch \in sending : SendBatch(batch)
  BY <1>4, SendKeeps
<1>5. CASE Tick
  BY <1>5, TickKeeps
<1>6. CASE UNCHANGED vars
  BY <1>6 DEF vars, BatchInv, TypeOK, WindowInv
<1>7. QED
  BY <1>1, <1>2, <1>3, <1>4, <1>5, <1>6 DEF Next

LEMMA BatchAlways == Spec => []BatchInv
BY InitBatchInv, StepBatchInv, PTL DEF Spec

-----------------------------------------------------------------------------
(* The batcher keeps its types, and its buffer stays below MaxMessages: a  *)
(* full one is sent at once.                                               *)
THEOREM TypeCorrect == Spec => []TypeOK
<1>1. BatchInv => TypeOK
  BY DEF BatchInv
<1>2. QED
  BY <1>1, BatchAlways, PTL

(* A publish that is buffered always has a timer that will send it.        *)
THEOREM BufferAlwaysTimed == Spec => []BufferIsTimed
<1>1. BatchInv => BufferIsTimed
  BY DEF BatchInv, WindowInv, BufferIsTimed
<1>2. QED
  BY <1>1, BatchAlways, PTL

(* A batch that its own timer sends has waited out the window since the    *)
(* batch before, whatever Flush, full buffers and late callbacks did.      *)
THEOREM OwnTimerAlwaysThrottles == Spec => OwnTimerThrottles
<1>1. ASSUME BatchInv, NEW t \in Timers,
             timer[t].pc = "fired", batchTimer = t
      PROVE  elapsed = Interval
  BY <1>1, BatcherAssumption DEF BatchInv, WindowInv
<1>2. BatchInv => [\A t \in Timers :
                      /\ timer[t].pc = "fired" /\ timer'[t].pc = "off"
                      /\ batchTimer = t /\ batchBuf # <<>>
                      => elapsed = Interval]_vars
  BY <1>1
<1>3. QED
  BY <1>2, BatchAlways, PTL DEF OwnTimerThrottles

-----------------------------------------------------------------------------
(* Where each call is, without counting: the buffer holds a call once, two *)
(* batches share none, and a call is held exactly while it waits.          *)
Held(p, s) == \E i \in DOMAIN s : s[i] = p

Places(buf, made) ==
    /\ \A i, j \in DOMAIN buf : buf[i] = buf[j] => i = j
    /\ \A p \in Publishes :
          /\ Held(p, buf) => \A b \in sending : ~Held(p, b)
          /\ \A b, c \in sending : Held(p, b) /\ Held(p, c) => b = c
          /\ Held(p, buf) \/ (\E b \in sending : Held(p, b)) <=>
                p \in made /\ answer[p] = "none"
          /\ p \notin made => answer[p] = "none"

PlaceInv == Places(batchBuf, called)

LEMMA InitPlaces == Init => PlaceInv
BY DEF Init, PlaceInv, Places, Held

(* flushLocked moves what the buffer holds into one batch. *)
LEMMA FlushPlaces ==
    ASSUME NEW buf \in Seq(Publishes), NEW timers, NEW made, Places(buf, made),
           FlushLocked(buf, timers), UNCHANGED answer, called' = made
    PROVE  PlaceInv'
<1>1. batchBuf' = <<>>
  BY DEF FlushLocked
<1>2. \A p : ~Held(p, batchBuf')
  BY <1>1 DEF Held
<1>3. CASE buf = <<>>
  <2>1. UNCHANGED sending
    BY <1>3 DEF FlushLocked
  <2>2. \A p : ~Held(p, buf)
    BY <1>3 DEF Held
  <2>3. QED
    BY <1>1, <1>2, <2>1, <2>2 DEF Places, PlaceInv, Held
<1>4. CASE buf # <<>>
  <2>1. sending' = sending \cup {buf}
    BY <1>4 DEF FlushLocked
  <2>2. ASSUME NEW p \in Publishes
        PROVE  /\ \A b, c \in sending' : Held(p, b) /\ Held(p, c) => b = c
               /\ (\E b \in sending' : Held(p, b)) <=> p \in made /\ answer[p] = "none"
               /\ p \notin made => answer[p] = "none"
    BY <2>1 DEF Places
  <2>3. QED
    BY <1>1, <1>2, <2>2 DEF Places, PlaceInv, Held
<1>5. QED
  BY <1>3, <1>4

LEMMA EnqueuePlaces ==
    ASSUME BatchInv, PlaceInv, NEW p \in Publishes, Enqueue(p)
    PROVE  PlaceInv'
<1> DEFINE buf == Append(batchBuf, p)
           made == called \cup {p}
<1>1. p \notin called /\ called' = made /\ UNCHANGED answer
  BY DEF Enqueue
<1>2. batchBuf \in Seq(Publishes) /\ buf \in Seq(Publishes)
  BY DEF BatchInv, TypeOK
<1>3. \A q : Held(q, buf) <=> Held(q, batchBuf) \/ q = p
  <2>1. /\ DOMAIN batchBuf = 1 .. Len(batchBuf) /\ DOMAIN buf = 1 .. Len(batchBuf) + 1
        /\ Len(batchBuf) \in Nat
    BY <1>2
  <2>2. /\ \A i \in DOMAIN batchBuf : i \in DOMAIN buf /\ buf[i] = batchBuf[i]
        /\ buf[Len(batchBuf) + 1] = p /\ Len(batchBuf) + 1 \in DOMAIN buf
    BY <1>2, <2>1
  <2>3. \A i \in DOMAIN buf : i \in DOMAIN batchBuf \/ i = Len(batchBuf) + 1
    BY <2>1
  <2> HIDE DEF buf
  <2>4. QED
    BY <2>2, <2>3 DEF Held
<1>4. Places(buf, made)
  <2>1. ~Held(p, batchBuf) /\ (\A b \in sending : ~Held(p, b)) /\ answer[p] = "none"
    BY <1>1 DEF PlaceInv, Places
  <2>2. \A i, j \in DOMAIN buf : buf[i] = buf[j] => i = j
    BY <1>2, <2>1 DEF PlaceInv, Places, Held
  <2>3. QED
    BY <1>3, <2>1, <2>2 DEF PlaceInv, Places
<1>5. CASE FlushLocked(buf, timer)
  BY <1>1, <1>2, <1>4, <1>5, FlushPlaces
<1>6. CASE batchBuf' = buf /\ UNCHANGED sending
  BY <1>1, <1>4, <1>6 DEF PlaceInv, Places
<1>7. QED
  BY <1>5, <1>6 DEF Enqueue

LEMMA SendPlaces ==
    ASSUME BatchInv, PlaceInv, NEW batch \in sending, SendBatch(batch)
    PROVE  PlaceInv'
<1>1. sending' = sending \ {batch} /\ UNCHANGED <<batchBuf, called>>
  BY DEF SendBatch
<1>2. ASSUME NEW p \in Publishes
      PROVE  /\ Held(p, batch) => answer'[p] # "none"
             /\ ~Held(p, batch) => answer'[p] = answer[p]
  BY DEF SendBatch, Held
<1>3. ASSUME NEW p \in Publishes
      PROVE  /\ Held(p, batchBuf) => \A b \in sending' : ~Held(p, b)
             /\ \A b, c \in sending' : Held(p, b) /\ Held(p, c) => b = c
             /\ Held(p, batchBuf) \/ (\E b \in sending' : Held(p, b)) <=>
                   p \in called /\ answer'[p] = "none"
             /\ p \notin called => answer'[p] = "none"
  BY <1>1, <1>2 DEF PlaceInv, Places
<1>4. QED
  BY <1>1, <1>3 DEF PlaceInv, Places

LEMMA StepPlaces == BatchInv /\ PlaceInv /\ [Next]_vars => PlaceInv'
<1> SUFFICES ASSUME BatchInv, PlaceInv, [Next]_vars PROVE PlaceInv'
  OBVIOUS
<1>1. CASE \E p \in Publishes : Enqueue(p)
  BY <1>1, EnqueuePlaces
<1>2. CASE Flush
  BY <1>2, FlushPlaces DEF Flush, PlaceInv, BatchInv, TypeOK
<1>3. CASE \E t \in Timers : TimerFlushes(t)
  BY <1>3, FlushPlaces DEF TimerFlushes, PlaceInv, BatchInv, TypeOK
<1>4. CASE \E batch \in sending : SendBatch(batch)
  BY <1>4, SendPlaces
<1>5. CASE UNCHANGED <<batchBuf, sending, answer, called>>
  BY <1>5 DEF PlaceInv, Places
<1>6. QED
  BY <1>1, <1>2, <1>3, <1>4, <1>5 DEF Next, TimerFires, Tick, vars

(* A set without two different members counts 0 or 1. *)
LEMMA AtMostOne ==
    ASSUME NEW S, \A x, y \in S : x = y
    PROVE  Cardinality(S) = IF S = {} THEN 0 ELSE 1
<1>1. CASE S = {}
  BY <1>1, FS_EmptySet
<1>2. ASSUME NEW x \in S PROVE Cardinality(S) = 1
  <2>1. S = {x}
    OBVIOUS
  <2>2. QED
    BY <2>1, FS_Singleton
<1>3. QED
  BY <1>1, <1>2

(* A call is in exactly one place from Publish to its answer: buffered     *)
(* once, in one batch under way, or answered, whatever timers, full        *)
(* buffers and Flush do (enqueue, flushLocked, sendBatch).            *)
THEOREM AlwaysInOnePlace == Spec => []InOnePlace
<1>1. PlaceInv => InOnePlace
  <2> SUFFICES ASSUME PlaceInv, NEW p \in Publishes
               PROVE  LET batches == {b \in sending : In(p, b) # {}}
                      IN  Cardinality(In(p, batchBuf)) + Cardinality(batches)
                            + (IF answer[p] = "none" THEN 0 ELSE 1)
                          = (IF p \in called THEN 1 ELSE 0)
    BY DEF InOnePlace
  <2> DEFINE batches == {b \in sending : In(p, b) # {}}
  <2>1. \A s : In(p, s) # {} <=> Held(p, s)
    BY DEF In, Held
  <2>2. Cardinality(In(p, batchBuf)) = IF Held(p, batchBuf) THEN 1 ELSE 0
    <3>1. \A i, j \in In(p, batchBuf) : i = j
      BY DEF PlaceInv, Places, In
    <3>2. QED
      BY <2>1, <3>1, AtMostOne
  <2>3. Cardinality(batches) = IF \E b \in sending : Held(p, b) THEN 1 ELSE 0
    <3>1. \A b, c \in batches : b = c
      BY <2>1 DEF PlaceInv, Places
    <3>2. batches = {} <=> ~\E b \in sending : Held(p, b)
      BY <2>1
    <3>3. Cardinality(batches) = IF batches = {} THEN 0 ELSE 1
      BY <3>1, AtMostOne
    <3>4. QED
      BY <3>2, <3>3
  <2>4. /\ Held(p, batchBuf) => ~\E b \in sending : Held(p, b)
        /\ Held(p, batchBuf) \/ (\E b \in sending : Held(p, b)) <=>
              p \in called /\ answer[p] = "none"
        /\ p \notin called => answer[p] = "none"
    BY DEF PlaceInv, Places
  <2> HIDE DEF batches
  <2>5. Cardinality(In(p, batchBuf)) + Cardinality(batches)
            + (IF answer[p] = "none" THEN 0 ELSE 1) = (IF p \in called THEN 1 ELSE 0)
    BY <2>2, <2>3, <2>4
  <2>6. QED
    BY <2>5 DEF batches
<1>2. QED
  BY <1>1, InitPlaces, StepPlaces, BatchAlways, PTL DEF Spec

-----------------------------------------------------------------------------
(* The authenticated requests of the REST client. *)

Progress == {"idle", "header", "mint", "store", "send", "answer", "clear", "returned"}
RequestRecords == [pc : Progress, token : Token, answer : Outcomes \cup {"none"},
                   retried : BOOLEAN]

-----------------------------------------------------------------------------
(* The type invariant. *)

LEMMA RestTypeInit == RestInit => RestTypeOK
BY RestAuthAssumption DEF RestInit, RestTypeOK, Token, Epochs

(* A step of one request writes a record of requests in its slot. *)
LEMMA RestRecordType ==
    ASSUME RestTypeOK, NEW r \in Requests, NEW q \in RequestRecords,
           request' = [request EXCEPT ![r] = q]
    PROVE  request' \in [Requests -> RequestRecords]
BY DEF RestTypeOK, RequestRecords, Progress

LEMMA RestTypeStep == RestTypeOK /\ [RestNext]_restVars => RestTypeOK'
<1> SUFFICES ASSUME RestTypeOK, [RestNext]_restVars PROVE RestTypeOK'
  OBVIOUS
<1>1. CASE UNCHANGED restVars
  BY <1>1 DEF RestTypeOK, restVars
<1>2. CASE Invalidate
  BY <1>2, RestAuthAssumption DEF Invalidate, RestTypeOK, Epochs
<1>3. ASSUME NEW r \in Requests, RequestNext(r) PROVE RestTypeOK'
  <2> USE RestAuthAssumption
  <2>1. /\ request[r] \in RequestRecords
        /\ 1 \in Token /\ 0 \in Token /\ epoch \in Token /\ cachedToken \in Token
        /\ request[r].token \in Token
    BY DEF RestTypeOK, RequestRecords, Progress, Token, Epochs
  <2>2. CASE Begin(r)
    BY <2>1, <2>2 DEF Begin, Goto, RestTypeOK
  <2>3. CASE Header(r)
    <3> DEFINE token == IF credential = "callback" THEN cachedToken ELSE 1
               pc == IF credential = "callback" /\ cachedToken = 0 THEN "mint" ELSE "send"
               q == [request[r] EXCEPT !.token = token, !.pc = pc]
    <3>1. q \in RequestRecords
      BY <2>1 DEF RequestRecords, Progress
    <3>2. request' = [request EXCEPT ![r] = q]
      BY <2>3 DEF Header, RestTypeOK
    <3>3. request' \in [Requests -> RequestRecords]
      BY <3>1, <3>2, RestRecordType
    <3>4. QED
      BY <2>3, <3>3 DEF Header, RestTypeOK, RequestRecords, Progress
  <2>4. CASE Mint(r)
    BY <2>1, <2>4 DEF Mint, Returns, RestTypeOK, Outcomes
  <2>5. CASE Store(r)
    BY <2>1, <2>5 DEF Store, Goto, RestTypeOK
  <2>6. CASE Handle(r)
    BY <2>1, <2>6 DEF Handle, RestTypeOK, Outcomes
  <2>7. CASE Answered(r)
    BY <2>1, <2>7 DEF Answered, Returns, Goto, RestTypeOK, Outcomes
  <2>8. CASE Retry(r)
    <3> DEFINE q == [request[r] EXCEPT !.pc = "header", !.retried = TRUE, !.answer = "none"]
    <3>1. q \in RequestRecords
      BY <2>1 DEF RequestRecords, Progress
    <3>2. request' = [request EXCEPT ![r] = q]
      BY <2>8 DEF Retry, RestTypeOK
    <3>3. request' \in [Requests -> RequestRecords]
      BY <3>1, <3>2, RestRecordType
    <3>4. QED
      BY <2>1, <2>8, <3>3 DEF Retry, RestTypeOK, RequestRecords, Progress
  <2>9. QED
    BY <1>3, <2>2, <2>3, <2>4, <2>5, <2>6, <2>7, <2>8 DEF RequestNext
<1>4. QED
  BY <1>1, <1>2, <1>3 DEF RestNext

(* Type correctness of the cached token and of the requests that share it. *)
THEOREM RestTypeCorrect == RestSpec => []RestTypeOK
BY RestTypeInit, RestTypeStep, PTL DEF RestSpec
-----------------------------------------------------------------------------
(* A step leaves the other requests alone. *)

LEMMA RestOthers ==
    ASSUME RestTypeOK, NEW r \in Requests, RequestNext(r)
    PROVE  \A s \in Requests : s # r => /\ request'[s] = request[s]
                                       /\ performed'[s] = performed[s]
                                       /\ outcome'[s] = outcome[s]
BY DEF RestTypeOK, RequestNext, Begin, Header, Mint, Store, Handle, Answered, Retry, Returns, Goto

-----------------------------------------------------------------------------
(* A request is performed once: what the service has performed is answered *)
(* by something else than a 401, and nothing else is sent again.           *)

PerformedInv(r) ==
    \/ performed[r] = 0
    \/ /\ performed[r] = 1
       /\ \/ At(r, "returned")
          \/ At(r, "answer") /\ request[r].answer # "unauthorized"

LEMMA PerformedStep ==
    ASSUME RestTypeOK, NEW r \in Requests, PerformedInv(r), RequestNext(r)
    PROVE  PerformedInv(r)'
<1> USE DEF PerformedInv, At
<1>1. request[r] \in RequestRecords /\ performed[r] \in Nat
  BY DEF RestTypeOK, RequestRecords, Progress
<1>2. CASE Begin(r) \/ Header(r) \/ Mint(r) \/ Store(r) \/ Retry(r)
  BY <1>1, <1>2 DEF Begin, Header, Mint, Store, Retry
<1>3. CASE Handle(r)
  <2>1. performed[r] = 0
    BY <1>3 DEF Handle
  <2>2. CASE performed' = performed
    BY <2>1, <2>2
  <2>3. CASE \E got \in {"ok", "error"} :
                /\ request' = [request EXCEPT ![r].pc = "answer", ![r].answer = got]
                /\ performed' = [performed EXCEPT ![r] = @ + 1]
    <3>1. PICK got \in {"ok", "error"} :
                /\ request' = [request EXCEPT ![r].pc = "answer", ![r].answer = got]
                /\ performed' = [performed EXCEPT ![r] = @ + 1]
      BY <2>3
    <3>2. request'[r].pc = "answer" /\ request'[r].answer = got
      BY <1>1, <3>1 DEF RestTypeOK, RequestRecords
    <3>3. performed'[r] = 1
      BY <2>1, <3>1 DEF RestTypeOK
    <3>4. QED
      BY <3>2, <3>3
  <2>4. QED
    BY <1>3, <2>2, <2>3 DEF Handle
<1>4. CASE Answered(r)
  <2>1. CASE performed[r] = 0
    BY <1>4, <2>1 DEF Answered
  <2>2. CASE performed[r] = 1
    <3>1. Returns(r, request[r].answer) /\ performed' = performed
      BY <1>4, <2>2 DEF Answered
    <3>2. request'[r].pc = "returned"
      BY <1>1, <3>1 DEF Returns, RestTypeOK, RequestRecords
    <3>3. QED
      BY <2>2, <3>1, <3>2
  <2>3. QED
    BY <2>1, <2>2
<1>5. QED
  BY <1>2, <1>3, <1>4 DEF RequestNext

(* The retry after a 401 never doubles what the service has done, for any number of       *)
(* requests that share the token and of invalidations (rest.go:345-351).                  *)
THEOREM AlwaysPerformedOnce == RestSpec => []PerformedOnce
<1> DEFINE Inv == \A r \in Requests : PerformedInv(r)
<1>1. RestInit => Inv
  BY DEF RestInit, PerformedInv
<1>2. RestTypeOK /\ Inv /\ [RestNext]_restVars => Inv'
  <2> SUFFICES ASSUME RestTypeOK, Inv, [RestNext]_restVars, NEW s \in Requests PROVE PerformedInv(s)'
    OBVIOUS
  <2>1. CASE UNCHANGED restVars \/ Invalidate
    BY <2>1 DEF restVars, Invalidate, PerformedInv, At
  <2>2. ASSUME NEW r \in Requests, RequestNext(r) PROVE PerformedInv(s)'
    <3>1. CASE s = r
      BY <2>2, <3>1, PerformedStep
    <3>2. CASE s # r
      BY <2>2, <3>2, RestOthers DEF PerformedInv, At
    <3>3. QED
      BY <3>1, <3>2
  <2>3. QED
    BY <2>1, <2>2 DEF RestNext
<1>3. Inv => PerformedOnce
  <2>1. ASSUME NEW r \in Requests, PerformedInv(r) PROVE performed[r] <= 1
    <3>1. performed[r] = 0 \/ performed[r] = 1
      BY <2>1 DEF PerformedInv
    <3>2. QED
      BY <3>1
  <2>2. QED
    BY <2>1 DEF PerformedOnce
<1>4. QED
  BY <1>1, <1>2, <1>3, RestTypeCorrect, PTL DEF RestSpec

-----------------------------------------------------------------------------
(* An expired token costs nothing: a request that is clean is alone while  *)
(* it is under way, so on its retry the cache is empty, the token is a new *)
(* one of this epoch, and the service does not refuse it.                  *)

Alone(r) == ~At(r, "idle") /\ (r \in UnderWay => UnderWay = {r})

Renewing(r) ==
    /\ outcome[r] # "unauthorized"
    /\ At(r, "header") /\ request[r].retried => cachedToken = 0
    /\ At(r, "store") => request[r].token = epoch
    /\ At(r, "send") /\ request[r].retried => request[r].token = epoch
    /\ At(r, "answer") /\ request[r].retried => request[r].answer # "unauthorized"

RenewInv(r) ==
    r \in clean => Alone(r) /\ (credential = "callback" /\ accepts => Renewing(r))

\* Nobody has returned or will retry before it begins.
Fresh(r) == At(r, "idle") => outcome[r] = "none" /\ ~request[r].retried

(* A request that has begun does not begin again. *)
LEMMA RunningStays ==
    ASSUME RestTypeOK, NEW r \in Requests, RequestNext(r)
    PROVE  request'[r].pc # "idle"
<1>1. request[r] \in RequestRecords
  BY DEF RestTypeOK, RequestRecords, Progress
<1>2. ASSUME NEW o, Returns(r, o) PROVE request'[r].pc = "returned"
  BY <1>1, <1>2 DEF Returns, RestTypeOK, RequestRecords
<1>3. CASE Mint(r) \/ Answered(r)
  <2>1. request'[r].pc \in {"store", "clear", "returned"}
    BY <1>1, <1>2, <1>3 DEF Mint, Answered, Goto, RestTypeOK, RequestRecords
  <2>2. QED
    BY <2>1
<1>4. CASE Begin(r) \/ Header(r) \/ Store(r) \/ Handle(r) \/ Retry(r)
  BY <1>1, <1>4 DEF Begin, Header, Store, Handle, Retry, Goto, RestTypeOK, RequestRecords
<1>5. QED
  BY <1>3, <1>4 DEF RequestNext

LEMMA FreshStep ==
    ASSUME RestTypeOK, NEW r \in Requests, RequestNext(r)
    PROVE  Fresh(r)'
BY RunningStays DEF Fresh, At

(* The request itself goes on. *)
LEMMA RenewingStep ==
    ASSUME RestTypeOK, NEW r \in Requests, credential = "callback", accepts, Renewing(r), RequestNext(r),
           ~Begin(r)
    PROVE  Renewing(r)'
<1> USE DEF Renewing, At
<1>1. request[r] \in RequestRecords /\ epoch # 0
  BY DEF RestTypeOK, RequestRecords, Progress, Epochs
<1>2. request'[r] \in RequestRecords
  BY RestTypeStep DEF RestTypeOK, RequestRecords, Progress, RestNext
<1>3. CASE Header(r)
  <2>1. outcome' = outcome /\ request'[r].pc \in {"mint", "send"}
    BY <1>1, <1>3 DEF Header, RestTypeOK, RequestRecords
  <2>2. request'[r].retried = request[r].retried
    BY <1>1, <1>3 DEF Header, RestTypeOK, RequestRecords
  <2>3. request[r].retried => request'[r].pc = "mint"
    BY <1>1, <1>3 DEF Header, RestTypeOK, RequestRecords
  <2>4. QED
    BY <2>1, <2>2, <2>3
<1>4. CASE Mint(r)
  <2>1. CASE request' = [request EXCEPT ![r].token = epoch, ![r].pc = "store"] /\ outcome' = outcome
    <3>1. request'[r].pc = "store" /\ request'[r].token = epoch /\ epoch' = epoch
      BY <1>1, <1>4, <2>1 DEF Mint, RestTypeOK, RequestRecords
    <3>2. QED
      BY <2>1, <3>1
  <2>2. CASE Returns(r, "error")
    <3>1. request'[r].pc = "returned" /\ outcome'[r] = "error"
      BY <1>1, <2>2 DEF Returns, RestTypeOK, RequestRecords
    <3>2. QED
      BY <3>1
  <2>3. QED
    BY <1>4, <2>1, <2>2 DEF Mint
<1>5. CASE Store(r)
  <2>1. /\ request'[r].pc = "send" /\ request'[r].token = request[r].token
        /\ epoch' = epoch /\ outcome' = outcome /\ request[r].pc = "store"
    BY <1>1, <1>5 DEF Store, Goto, RestTypeOK, RequestRecords
  <2>2. QED
    BY <2>1
<1>6. CASE Handle(r)
  <2>1. /\ request'[r].pc = "answer" /\ request'[r].retried = request[r].retried
        /\ outcome' = outcome /\ request[r].pc = "send"
    BY <1>1, <1>6 DEF Handle, RestTypeOK, RequestRecords
  <2>2. request[r].retried => request'[r].answer # "unauthorized"
    BY <1>1, <1>6 DEF Handle, RestTypeOK, RequestRecords
  <2>3. QED
    BY <2>1, <2>2
<1>7. CASE Answered(r)
  <2>1. CASE Goto(r, "clear") /\ outcome' = outcome
    <3>1. request'[r].pc = "clear"
      BY <1>1, <2>1 DEF Goto, RestTypeOK, RequestRecords
    <3>2. QED
      BY <2>1, <3>1
  <2>2. CASE Returns(r, request[r].answer) /\ request[r].answer # "unauthorized"
    <3>1. request'[r].pc = "returned" /\ outcome'[r] = request[r].answer
      BY <1>1, <2>2 DEF Returns, RestTypeOK, RequestRecords
    <3>2. QED
      BY <2>2, <3>1
  <2>3. QED
    BY <1>7, <2>1, <2>2 DEF Answered
<1>8. CASE Retry(r)
  <2>1. request'[r].pc = "header" /\ cachedToken' = 0 /\ outcome' = outcome
    BY <1>1, <1>8 DEF Retry, RestTypeOK, RequestRecords
  <2>2. QED
    BY <2>1
<1>9. QED
  BY <1>3, <1>4, <1>5, <1>6, <1>7, <1>8 DEF RequestNext
LEMMA RenewStep ==
    ASSUME RestTypeOK, RestTypeOK', \A r \in Requests : Fresh(r) /\ RenewInv(r), [RestNext]_restVars,
           NEW s \in Requests
    PROVE  RenewInv(s)'
<1>1. clean \subseteq Requests
  BY DEF RestTypeOK
<1>2. CASE UNCHANGED restVars
  BY <1>2 DEF restVars, RenewInv, Alone, Renewing, At, UnderWay
<1>3. CASE Invalidate
  <2>1. /\ UNCHANGED <<credential, accepts, request, outcome, cachedToken>>
        /\ clean' = clean \ UnderWay
    BY <1>3 DEF Invalidate
  <2>2. ASSUME s \in clean'
        PROVE  s \in clean /\ request[s].pc \in {"idle", "returned"}
    BY <2>1, <2>2 DEF UnderWay
  <2>3. QED
    BY <2>1, <2>2 DEF RenewInv, Alone, Renewing, At, UnderWay
<1>4. ASSUME NEW r \in Requests, Begin(r)
      PROVE  RenewInv(s)'
  <2>1. /\ request[r].pc = "idle" /\ request'[r].pc = "header"
        /\ request'[r].retried = request[r].retried
        /\ \A t \in Requests : t # r => request'[t] = request[t]
        /\ UNCHANGED <<credential, accepts, epoch, outcome, cachedToken>>
        /\ clean' = IF UnderWay = {} THEN clean \cup {r} ELSE clean \ UnderWay
    BY <1>4 DEF Begin, Goto, At, RestTypeOK
  <2>2. UnderWay' = UnderWay \cup {r}
    BY <2>1 DEF UnderWay
  <2>3. CASE s = r
    <3>1. s \in clean' => UnderWay' = {r}
      BY <2>1, <2>2, <2>3 DEF RenewInv, Alone, At
    <3>2. outcome[r] = "none" /\ ~request[r].retried
      BY <2>1 DEF Fresh, At
    <3>3. QED
      BY <2>1, <2>3, <3>1, <3>2 DEF RenewInv, Alone, Renewing, At
  <2>4. CASE s # r
    <3>1. s \in clean' => s \in clean /\ s \notin UnderWay
      BY <2>1, <2>4
    <3>2. s \in clean' => Alone(s)'
      BY <2>1, <2>2, <2>4, <3>1 DEF RenewInv, Alone, At
    <3>3. s \in clean' /\ credential = "callback" /\ accepts => Renewing(s)'
      BY <2>1, <2>4, <3>1 DEF RenewInv, Renewing, At
    <3>4. QED
      BY <2>1, <3>2, <3>3 DEF RenewInv
  <2>5. QED
    BY <2>3, <2>4
<1>5. ASSUME NEW r \in Requests, RequestNext(r), ~Begin(r)
      PROVE  RenewInv(s)'
  <2>1. /\ clean' = clean /\ UNCHANGED <<credential, accepts, epoch>>
        /\ request[r].pc \notin {"idle", "returned"}
    BY <1>5 DEF RequestNext, Header, Mint, Store, Handle, Answered, Retry, At
  <2>2. \A t \in Requests : t # r => request'[t] = request[t] /\ outcome'[t] = outcome[t]
    BY <1>5, RestOthers
  <2>3. r \in UnderWay /\ UnderWay' \subseteq UnderWay
    BY <2>1, <2>2 DEF UnderWay
  <2>4. CASE s = r
    <3>1. request'[r].pc # "idle"
      BY <1>5, RunningStays
    <3>2. s \in clean => Alone(s)'
      <4>1. SUFFICES ASSUME s \in clean PROVE Alone(s)'
        OBVIOUS
      <4>2. UnderWay = {r}
        BY <2>3, <2>4, <4>1 DEF RenewInv, Alone
      <4>3. QED
        BY <2>3, <2>4, <3>1, <4>2 DEF Alone, At
    <3>3. s \in clean /\ credential = "callback" /\ accepts => Renewing(s)'
      BY <1>5, <2>4, RenewingStep DEF RenewInv
    <3>4. QED
      BY <2>1, <3>2, <3>3 DEF RenewInv
  <2>5. CASE s # r
    <3>1. s \in clean => s \notin UnderWay
      BY <2>3, <2>5 DEF RenewInv, Alone
    <3>2. s \in clean => request[s].pc = "returned"
      BY <3>1 DEF RenewInv, Alone, At, UnderWay
    <3>3. s \in clean => Alone(s)'
      BY <2>2, <2>5, <3>2 DEF Alone, At, UnderWay
    <3>4. s \in clean /\ credential = "callback" /\ accepts => Renewing(s)'
      BY <2>2, <2>5, <3>2 DEF RenewInv, Renewing, At
    <3>5. QED
      BY <2>1, <3>3, <3>4 DEF RenewInv
  <2>6. QED
    BY <2>4, <2>5
<1>6. QED
  BY <1>2, <1>3, <1>4, <1>5 DEF RestNext

(* A token that expired costs a request its success only when it meets another request or *)
(* another invalidation, whatever tokens earlier requests left in the cache.              *)
THEOREM ExpiredAlwaysRenewed == RestSpec => []ExpiredIsRenewed
<1> DEFINE Inv == \A r \in Requests : Fresh(r) /\ RenewInv(r)
<1>1. RestInit => Inv
  <2> SUFFICES ASSUME RestInit, NEW r \in Requests PROVE Fresh(r) /\ RenewInv(r)
    OBVIOUS
  <2>1. clean = {} /\ outcome[r] = "none" /\ ~request[r].retried
    BY DEF RestInit
  <2>2. QED
    BY <2>1 DEF Fresh, RenewInv
<1>2. RestTypeOK /\ RestTypeOK' /\ Inv /\ [RestNext]_restVars => Inv'
  <2> SUFFICES ASSUME RestTypeOK, RestTypeOK', Inv, [RestNext]_restVars, NEW s \in Requests
               PROVE  Fresh(s)' /\ RenewInv(s)'
    OBVIOUS
  <2>1. Fresh(s)'
    <3>1. CASE UNCHANGED restVars \/ Invalidate
      BY <3>1 DEF restVars, Invalidate, Fresh, At
    <3>2. ASSUME NEW r \in Requests, RequestNext(r) PROVE Fresh(s)'
      <4>1. CASE s = r
        BY <3>2, <4>1, FreshStep
      <4>2. CASE s # r
        BY <3>2, <4>2, RestOthers DEF Fresh, At
      <4>3. QED
        BY <4>1, <4>2
    <3>3. QED
      BY <3>1, <3>2 DEF RestNext
  <2>2. RenewInv(s)'
    BY RenewStep
  <2>3. QED
    BY <2>1, <2>2
<1>3. Inv => ExpiredIsRenewed
  BY DEF RenewInv, Renewing, ExpiredIsRenewed, RestTypeOK
<1>4. QED
  BY <1>1, <1>2, <1>3, RestTypeCorrect, PTL DEF RestSpec
================================================================================
