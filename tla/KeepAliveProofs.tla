--------------------------- MODULE KeepAliveProofs ---------------------------
(***************************************************************************)
(* What holds of module KeepAlive for every set of sockets and timers.     *)
(***************************************************************************)
EXTENDS KeepAlive, TLAPS

DeadlineRecords == [at : {"free", "armed", "fired", "dead", "shut"},
                    ws : Sockets \cup {None}, heard : BOOLEAN]

(* Stopping the referenced timer, and marking those that heard something,  *)
(* keep the timers well typed.                                             *)
LEMMA TimerTypes ==
    ASSUME TypeOK
    PROVE  /\ Free \in DeadlineRecords
           /\ Stopped \in [Deadlines -> DeadlineRecords]
           /\ \A s \in Sockets, timers \in [Deadlines -> DeadlineRecords] :
                 Heard(s, timers) \in [Deadlines -> DeadlineRecords]
<1>1. Free \in DeadlineRecords
  BY DEF Free, DeadlineRecords
<1>2. deadline \in [Deadlines -> DeadlineRecords]
  BY DEF TypeOK, DeadlineRecords
<1>3. Stopped \in [Deadlines -> DeadlineRecords]
  BY <1>1, <1>2 DEF Stopped
<1>4. ASSUME NEW s \in Sockets, NEW timers \in [Deadlines -> DeadlineRecords]
      PROVE  Heard(s, timers) \in [Deadlines -> DeadlineRecords]
  <2>1. \A d \in Deadlines : [timers[d] EXCEPT !.heard = TRUE] \in DeadlineRecords
    BY DEF DeadlineRecords
  <2>2. QED
    BY <2>1 DEF Heard
<1>5. QED
  BY <1>1, <1>3, <1>4

(* The pointer is live, and the timer it points to has heard nothing: each *)
(* step of a timer's end clears the pointer or meets another timer.        *)
KeepInv == TypeOK /\ PointerIsLive /\ ReferencedIsSilent

LEMMA KeepInit == Init => KeepInv
BY DEF Init, KeepInv, TypeOK, PointerIsLive, ReferencedIsSilent, Free

(* What a step does to the pointer and the timers, one fact for each way.  *)
LEMMA ClearedKeeps ==
    ASSUME KeepInv, pongDeadline' = None
    PROVE  PointerIsLive' /\ ReferencedIsSilent'
BY DEF PointerIsLive, ReferencedIsSilent

LEMMA UntouchedKeeps ==
    ASSUME KeepInv, UNCHANGED <<pongDeadline, deadline>>
    PROVE  PointerIsLive' /\ ReferencedIsSilent'
BY DEF KeepInv, PointerIsLive, ReferencedIsSilent

(* A step of a timer that the pointer does not refer to, or its firing.    *)
LEMMA OtherTimerKeeps ==
    ASSUME KeepInv, NEW d \in Deadlines, NEW rec \in DeadlineRecords,
           pongDeadline' = pongDeadline,
           deadline' = [deadline EXCEPT ![d] = rec],
           pongDeadline = d => rec.at \in {"armed", "fired"} /\ rec.heard = deadline[d].heard
    PROVE  PointerIsLive' /\ ReferencedIsSilent'
BY KeepAliveAssumption DEF KeepInv, TypeOK, PointerIsLive, ReferencedIsSilent

LEMMA SocketClosedKeeps ==
    ASSUME KeepInv, NEW s \in Sockets, SocketClosed(s)
    PROVE  /\ state' \in {"connected", "down"}
           /\ socket' \in Sockets \cup {None}
           /\ keepAliveStop' \in Sockets \cup {None}
           /\ pongDeadline' \in Deadlines \cup {None}
           /\ deadline' \in [Deadlines -> DeadlineRecords]
           /\ PointerIsLive' /\ ReferencedIsSilent'
<1>1. CASE socket # s /\ UNCHANGED <<state, socket, keepAliveStop, pongDeadline, deadline>>
  BY <1>1, UntouchedKeeps DEF KeepInv, TypeOK, DeadlineRecords
<1>2. CASE socket = s /\ state' = "down" /\ socket' = None /\ StopKeepAlive
  BY <1>2, TimerTypes, ClearedKeeps DEF KeepInv, TypeOK, StopKeepAlive, ClearPongDeadline
<1>3. QED
  BY <1>1, <1>2 DEF SocketClosed

LEMMA SocketKeeps ==
    ASSUME KeepInv, NEW s \in Sockets, SocketNext(s)
    PROVE  KeepInv'
<1>1. CASE Connected(s)
  <2>1. PointerIsLive' /\ ReferencedIsSilent'
    BY <1>1, ClearedKeeps DEF Connected, ClearPongDeadline
  <2>2. TypeOK'
    BY <1>1, TimerTypes DEF KeepInv, TypeOK, Connected, ClearPongDeadline, DeadlineRecords
  <2>3. QED
    BY <2>1, <2>2 DEF KeepInv
<1>2. CASE Loses(s)
  BY <1>2, UntouchedKeeps DEF KeepInv, TypeOK, Loses
<1>3. CASE Reads(s)
  <2>1. PointerIsLive' /\ ReferencedIsSilent'
    BY <1>3, ClearedKeeps DEF Reads
  <2>2. deadline' \in [Deadlines -> DeadlineRecords]
    BY <1>3, TimerTypes DEF KeepInv, Reads
  <2>3. QED
    BY <1>3, <2>1, <2>2 DEF KeepInv, TypeOK, Reads, DeadlineRecords
<1>4. CASE ReadFails(s)
  BY <1>4, SocketClosedKeeps DEF KeepInv, TypeOK, ReadFails, DeadlineRecords
<1>5. QED
  BY <1>1, <1>2, <1>3, <1>4 DEF SocketNext

LEMMA PingerKeeps ==
    ASSUME KeepInv, NEW s \in Sockets, PingerNext(s)
    PROVE  KeepInv'
<1>1. CASE Tick(s)
  BY <1>1, UntouchedKeeps DEF KeepInv, TypeOK, Tick, Pinger
<1>2. CASE Ping(s)
  BY <1>2, UntouchedKeeps DEF KeepInv, TypeOK, Ping, Pinger
<1>3. CASE Arm(s)
  <2>1. CASE pongDeadline # None /\ UNCHANGED <<pongDeadline, deadline>>
    BY <1>3, <2>1, UntouchedKeeps DEF KeepInv, TypeOK, Arm, Pinger
  <2>2. ASSUME NEW d \in Deadlines,
               pongDeadline' = d,
               deadline' = [deadline EXCEPT ![d] = [at |-> "armed", ws |-> s, heard |-> FALSE]]
        PROVE  KeepInv'
    <3>1. deadline'[d] = [at |-> "armed", ws |-> s, heard |-> FALSE]
      BY <2>2 DEF KeepInv, TypeOK
    <3>2. PointerIsLive' /\ ReferencedIsSilent'
      BY <2>2, <3>1 DEF PointerIsLive, ReferencedIsSilent
    <3>3. TypeOK'
      BY <1>3, <2>2 DEF KeepInv, TypeOK, Arm, Pinger
    <3>4. QED
      BY <3>2, <3>3 DEF KeepInv
  <2>3. QED
    BY <1>3, <2>1, <2>2 DEF Arm
<1>4. QED
  BY <1>1, <1>2, <1>3 DEF PingerNext

LEMMA DeadlineKeeps ==
    ASSUME KeepInv, NEW d \in Deadlines, DeadlineNext(d)
    PROVE  KeepInv'
<1> USE KeepAliveAssumption
<1>0. deadline \in [Deadlines -> DeadlineRecords] /\ Free \in DeadlineRecords
  BY DEF KeepInv, TypeOK, DeadlineRecords, Free
<1>1. \A at \in {"fired", "dead", "shut"} : [deadline[d] EXCEPT !.at = at] \in DeadlineRecords
  BY <1>0 DEF DeadlineRecords
<1>2. CASE Fires(d)
  <2>1. deadline' = [deadline EXCEPT ![d] = [deadline[d] EXCEPT !.at = "fired"]]
    BY <1>2 DEF Fires, At
  <2>2. PointerIsLive' /\ ReferencedIsSilent'
    BY <1>0, <1>1, <1>2, <2>1, OtherTimerKeeps DEF Fires, DeadlineRecords
  <2>3. QED
    BY <1>0, <1>1, <1>2, <2>1, <2>2 DEF KeepInv, TypeOK, Fires, DeadlineRecords
<1>3. CASE Callback(d)
  <2>1. PointerIsLive' /\ ReferencedIsSilent'
    BY <1>3, ClearedKeeps DEF Callback
  <2>2. \/ deadline' = [deadline EXCEPT ![d] = [deadline[d] EXCEPT !.at = "dead"]]
        \/ deadline' = [deadline EXCEPT ![d] = Free]
    BY <1>3 DEF Callback, At
  <2>3. QED
    BY <1>0, <1>1, <1>3, <2>1, <2>2 DEF KeepInv, TypeOK, Callback, DeadlineRecords
<1>4. CASE ShutsDead(d)
  <2>1. deadline' = [deadline EXCEPT ![d] = [deadline[d] EXCEPT !.at = "shut"]]
    BY <1>4 DEF ShutsDead, At
  <2>2. pongDeadline # d
    BY <1>4 DEF ShutsDead, KeepInv, PointerIsLive
  <2>3. PointerIsLive' /\ ReferencedIsSilent'
    BY <1>1, <1>4, <2>1, <2>2, OtherTimerKeeps DEF ShutsDead
  <2>4. QED
    BY <1>0, <1>1, <1>4, <2>1, <2>3 DEF KeepInv, TypeOK, ShutsDead, DeadlineRecords
<1>5. CASE TearsDown(d)
  <2>1. pongDeadline # d
    BY <1>5 DEF TearsDown, KeepInv, PointerIsLive
  <2>2. CASE socket = deadline[d].ws
    <3>1. PointerIsLive' /\ ReferencedIsSilent'
      BY <1>5, <2>2, ClearedKeeps DEF TearsDown
    <3>2. Stopped \in [Deadlines -> DeadlineRecords]
      BY TimerTypes DEF KeepInv
    <3>3. QED
      BY <1>0, <1>5, <2>2, <3>1, <3>2 DEF KeepInv, TypeOK, TearsDown, DeadlineRecords
  <2>3. CASE socket # deadline[d].ws
    <3>1. PointerIsLive' /\ ReferencedIsSilent'
      BY <1>0, <1>5, <2>1, <2>3, OtherTimerKeeps DEF TearsDown
    <3>2. QED
      BY <1>0, <1>5, <2>3, <3>1 DEF KeepInv, TypeOK, TearsDown, DeadlineRecords
  <2>4. QED
    BY <2>2, <2>3
<1>6. QED
  BY <1>2, <1>3, <1>4, <1>5 DEF DeadlineNext

LEMMA KeepStep == KeepInv /\ [Next]_vars => KeepInv'
<1> SUFFICES ASSUME KeepInv, [Next]_vars PROVE KeepInv'
  OBVIOUS
<1>1. CASE \E s \in Sockets : SocketNext(s) \/ PingerNext(s)
  BY <1>1, SocketKeeps, PingerKeeps
<1>2. CASE \E d \in Deadlines : DeadlineNext(d)
  BY <1>2, DeadlineKeeps
<1>3. CASE Close
  <2>1. PointerIsLive' /\ ReferencedIsSilent'
    BY <1>3, ClearedKeeps DEF Close, StopKeepAlive, ClearPongDeadline
  <2>2. TypeOK'
    BY <1>3, TimerTypes
    DEF KeepInv, TypeOK, Close, StopKeepAlive, ClearPongDeadline, DeadlineRecords
  <2>3. QED
    BY <2>1, <2>2 DEF KeepInv
<1>4. CASE UNCHANGED vars
  BY <1>4, UntouchedKeeps DEF KeepInv, TypeOK, vars
<1>5. QED
  BY <1>1, <1>2, <1>3, <1>4 DEF Next

LEMMA KeepAlways == Spec => []KeepInv
BY KeepInit, KeepStep, PTL DEF Spec

-----------------------------------------------------------------------------
(* The keep-alive keeps its types, for any number of sockets and timers.   *)
THEOREM TypeCorrect == Spec => []TypeOK
<1>1. KeepInv => TypeOK
  BY DEF KeepInv
<1>2. QED
  BY <1>1, KeepAlways, PTL

(* c.pongDeadline never keeps a timer that is over, whatever callbacks of  *)
(* older sockets do, so that the next ping can arm one.                    *)
THEOREM PointerAlwaysLive == Spec => []PointerIsLive
<1>1. KeepInv => PointerIsLive
  BY DEF KeepInv
<1>2. QED
  BY <1>1, KeepAlways, PTL

(* Any inbound message disarms the deadline it finds.                      *)
THEOREM ReferencedAlwaysSilent == Spec => []ReferencedIsSilent
<1>1. KeepInv => ReferencedIsSilent
  BY DEF KeepInv
<1>2. QED
  BY <1>1, KeepAlways, PTL
=============================================================================
