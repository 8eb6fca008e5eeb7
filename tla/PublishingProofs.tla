--------------------------- MODULE PublishingProofs ---------------------------
(***************************************************************************)
(* What holds of modules Connection and Publishing for every set of        *)
(* publishes, request ids, sockets, timers and goroutines and every        *)
(* option.  First the lifecycle, which module Publishing extends: the      *)
(* theorems about Spec.  Then the publishes: the lifecycle under them is   *)
(* the one of module Connection, the table tracks the waiting publishes,   *)
(* and the publishes keep their contract.                                  *)
(***************************************************************************)
EXTENDS Publishing, TLAPS

-----------------------------------------------------------------------------
(* The lifecycle. *)

(* scheduleReconnectLocked keeps the timers well typed. *)
LEMMA ScheduleReconnectType ==
    ASSUME TypeOK, NEW base \in [Timers -> TimerPhases], ScheduleReconnect(base)
    PROVE  /\ reconnectTimer' \in Timers \cup {None}
           /\ timer' \in [Timers -> TimerPhases]
BY DEF TypeOK, ScheduleReconnect, TimerPhases

(* handleSocketClose keeps what it changes well typed, and leaves the      *)
(* connection neither connecting nor connected unless the socket is stale. *)
LEMMA HandleSocketCloseType ==
    ASSUME TypeOK, NEW ws, HandleSocketClose(ws)
    PROVE  /\ state' \in ConnectionStates
           /\ socket' \in Sockets \cup {None}
           /\ fatalErr' \in BOOLEAN
           /\ reconnectTimer' \in Timers \cup {None}
           /\ timer' \in [Timers -> TimerPhases]
           /\ \/ socket # ws /\ UNCHANGED <<state, socket, fatalErr>>
              \/ socket = ws /\ state' \in {"closed", "failed", "disconnected"}
<1>1. CASE CloseKind(ws) = "stale" /\ UNCHANGED <<state, socket, fatalErr, timerVars>>
  BY <1>1 DEF TypeOK, CloseKind, timerVars
<1>2. CASE /\ CloseKind(ws) = "closed"
           /\ socket' = None
           /\ state' = "closed"
           /\ UNCHANGED <<fatalErr, timerVars>>
  BY <1>2 DEF TypeOK, CloseKind, timerVars, ConnectionStates
<1>3. CASE /\ CloseKind(ws) = "fatal"
           /\ socket' = None
           /\ fatalErr' = FALSE
           /\ state' = "failed"
           /\ UNCHANGED timerVars
  BY <1>3 DEF TypeOK, CloseKind, timerVars, ConnectionStates
<1>4. CASE /\ CloseKind(ws) = "dropped"
           /\ socket' = None
           /\ state' = "disconnected"
           /\ RetryIfEnabled
           /\ UNCHANGED fatalErr
  <2>1. socket = ws
    BY <1>4 DEF CloseKind
  <2>2. reconnectTimer' \in Timers \cup {None} /\ timer' \in [Timers -> TimerPhases]
    BY <1>4, ScheduleReconnectType DEF RetryIfEnabled, TypeOK, timerVars
  <2>3. QED
    BY <1>4, <2>1, <2>2 DEF TypeOK, ConnectionStates
<1>5. QED
  BY <1>1, <1>2, <1>3, <1>4 DEF HandleSocketClose

(* Joining or starting an attempt keeps it well typed. *)
LEMMA JoinAttemptType ==
    ASSUME TypeOK, JoinAttempt
    PROVE  /\ attempt' \in [pc : AttemptPhases, ws : Sockets \cup {None},
                            err : BOOLEAN]
           /\ \/ attempt' = attempt
              \/ attempt.pc = "none" /\ attempt'.pc = "spawned"
BY DEF TypeOK, JoinAttempt, NoAttempt, AttemptPhases

-----------------------------------------------------------------------------
(* The inductive invariant.  The type of readLoop needs the socket of an   *)
(* installed attempt; who watches a connected socket needs the attempt to  *)
(* own it; and a connecting state needs the attempt's teardown never to be *)
(* stale.                                                                  *)
IndInv ==
    /\ TypeOK
    /\ AttemptOwnsSocket
    /\ ConnectedIsWatched
    /\ ConnectingHasAttempt

LEMMA IndInit == Init => IndInv
<1> SUFFICES ASSUME Init PROVE IndInv
  OBVIOUS
<1>1. timer \in [Timers -> TimerPhases] /\ attempt.pc = "none"
  BY DEF Init, TimerPhases, NoAttempt
<1>2. attempt \in [pc : AttemptPhases, ws : Sockets \cup {None}, err : BOOLEAN]
  BY DEF Init, NoAttempt, AttemptPhases
<1>3. /\ closer \in [Closers -> [pc : {"idle", "begun", "shut", "returned"},
                                 ws : Sockets \cup {None}]]
      /\ caller \in [Callers -> {"idle", "waiting", "ok", "err"}]
  BY DEF Init
<1>4. TypeOK
  BY <1>1, <1>2, <1>3 DEF Init, TypeOK, ConnectionStates
<1>5. QED
  BY <1>1, <1>4 DEF Init, IndInv, AttemptOwnsSocket, ConnectedIsWatched,
                    ConnectingHasAttempt

(* Every variable keeps its type. *)
LEMMA TypeStep == IndInv /\ [Next]_vars => TypeOK'
<1> USE DEF ConnectionStates, ClosedStates, TimerPhases, AttemptPhases, timerVars,
            socketVars, appVars
<1> SUFFICES ASSUME TypeOK, AttemptOwnsSocket, [Next]_vars PROVE TypeOK'
  BY DEF IndInv
<1>1. CASE UNCHANGED vars
  BY <1>1 DEF TypeOK, vars
<1>2. CASE Next
  <2>1. CASE DoConnect
    BY <2>1 DEF TypeOK, DoConnect
  <2>2. CASE DialFails
    <3>1. reconnectTimer' \in Timers \cup {None} /\ timer' \in [Timers -> TimerPhases]
      BY <2>2, ScheduleReconnectType DEF DialFails, RetryIfEnabled, TypeOK
    <3>2. QED
      BY <2>2, <3>1 DEF TypeOK, DialFails, Done
  <2>3. CASE DialAborted
    BY <2>3 DEF TypeOK, DialAborted, Done
  <2>4. ASSUME NEW s \in Sockets, DialSucceeds(s) PROVE TypeOK'
    BY <2>4 DEF TypeOK, DialSucceeds
  <2>5. CASE AuthRejected
    BY <2>5 DEF TypeOK, AuthRejected
  <2>6. CASE TeardownSocket
    <3>1. HandleSocketClose(attempt.ws)
      BY <2>6 DEF TeardownSocket
    <3>2. QED
      BY <2>6, <3>1, HandleSocketCloseType DEF TypeOK, TeardownSocket, Done
  <2>7. CASE CompleteAborted
    BY <2>7 DEF TypeOK, CompleteAborted, Done
  <2>8. CASE CompleteConnect
    BY <2>8 DEF TypeOK, CompleteConnect
  <2>9. CASE StartReadLoop
    BY <2>9 DEF TypeOK, StartReadLoop, AttemptOwnsSocket
  <2>10. CASE Flushed
    BY <2>10 DEF TypeOK, Flushed, Done
  <2>11. CASE FinishConnect
    <3>1. /\ timer' \in [Timers -> TimerPhases]
          /\ caller' \in [Callers -> {"idle", "waiting", "ok", "err"}]
      BY <2>11 DEF TypeOK, FinishConnect
    <3>2. QED
      BY <2>11, <3>1 DEF TypeOK, FinishConnect, NoAttempt
  <2>12. ASSUME NEW t \in Timers, TimerFires(t) \/ CallbackStarts(t) PROVE TypeOK'
    BY <2>12 DEF TypeOK, TimerFires, CallbackStarts
  <2>13. ASSUME NEW t \in Timers, CallbackConnects(t) PROVE TypeOK'
    <3>1. attempt' \in [pc : AttemptPhases, ws : Sockets \cup {None}, err : BOOLEAN]
      BY <2>13, JoinAttemptType DEF CallbackConnects, TypeOK
    <3>2. QED
      BY <2>13, <3>1 DEF TypeOK, CallbackConnects
  <2>14. ASSUME NEW t \in Timers, CallbackRefused(t) PROVE TypeOK'
    <3>1. [timer EXCEPT ![t] = "idle"] \in [Timers -> TimerPhases]
      BY DEF TypeOK
    <3>2. reconnectTimer' \in Timers \cup {None} /\ timer' \in [Timers -> TimerPhases]
      BY <2>14, <3>1, ScheduleReconnectType DEF CallbackRefused, TypeOK
    <3>3. QED
      BY <2>14, <3>2 DEF TypeOK, CallbackRefused
  <2>15. ASSUME NEW s \in Sockets, Drop(s) \/ DeadlineFires(s) PROVE TypeOK'
    BY <2>15 DEF TypeOK, Drop, DeadlineFires
  <2>16. ASSUME NEW s \in Sockets, ReadLoopEnds(s) PROVE TypeOK'
    BY <2>16, HandleSocketCloseType DEF TypeOK, ReadLoopEnds
  <2>17. ASSUME NEW s \in Sockets, DeadlineCloses(s) PROVE TypeOK'
    BY <2>17, HandleSocketCloseType DEF TypeOK, DeadlineCloses
  <2>18. ASSUME NEW k \in Closers, CloseBegins(k) PROVE TypeOK'
    <3>1. timer' \in [Timers -> TimerPhases]
      BY <2>18 DEF TypeOK, CloseBegins
    <3>2. QED
      BY <2>18, <3>1 DEF TypeOK, CloseBegins
  <2>19. ASSUME NEW k \in Closers, CloseSocket(k) \/ CloseEnds(k) PROVE TypeOK'
    BY <2>19 DEF TypeOK, CloseSocket, CloseEnds
  <2>20. ASSUME NEW a \in Callers, ConnectCalled(a) PROVE TypeOK'
    <3>1. attempt' \in [pc : AttemptPhases, ws : Sockets \cup {None}, err : BOOLEAN]
      BY <2>20, JoinAttemptType DEF ConnectCalled, TypeOK
    <3>2. QED
      BY <2>20, <3>1 DEF TypeOK, ConnectCalled
  <2>21. ASSUME NEW a \in Callers, ConnectCancelled(a) PROVE TypeOK'
    BY <2>21 DEF TypeOK, ConnectCancelled
  <2>22. CASE InternalConnect
    <3>1. attempt' \in [pc : AttemptPhases, ws : Sockets \cup {None}, err : BOOLEAN]
      BY <2>22, JoinAttemptType DEF InternalConnect, TypeOK
    <3>2. QED
      BY <2>22, <3>1 DEF TypeOK, InternalConnect
  <2>23. QED
    BY <1>2, <2>1, <2>2, <2>3, <2>4, <2>5, <2>6, <2>7, <2>8, <2>9, <2>10, <2>11,
       <2>12, <2>13, <2>14, <2>15, <2>16, <2>17, <2>18, <2>19, <2>20, <2>21, <2>22
    DEF Next, AttemptNext, CallbackNext, CloseNext
<1>3. QED
  BY <1>1, <1>2

(* What a step may do to the part of the state the invariant relates: each *)
(* action, seen through state, socket, attempt, readLoop and dying.        *)
OwnershipKept ==
    AttemptOwnsSocket' /\ ConnectedIsWatched' /\ ConnectingHasAttempt'

(* A socket close, by whichever goroutine, keeps the ownership as long as  *)
(* it only ends the goroutine of its own socket.                           *)
LEMMA SocketCloseKeepsOwnership ==
    ASSUME IndInv, NEW s \in Sockets, HandleSocketClose(s),
           UNCHANGED attempt,
           \/ s \in readLoop /\ readLoop' = readLoop \ {s} /\ dying' = dying
           \/ s \in dying /\ dying' = dying \ {s} /\ readLoop' = readLoop
    PROVE  OwnershipKept
<1> USE DEF IndInv, OwnershipKept, AttemptOwnsSocket, ConnectedIsWatched,
            ConnectingHasAttempt
<1>1. CASE socket # s /\ UNCHANGED <<state, socket, fatalErr>>
  BY <1>1 DEF TypeOK
<1>2. CASE socket = s /\ state' \in {"closed", "failed", "disconnected"}
  <2>1. attempt.pc \notin {"handshake", "fatal"}
    BY <1>2
  <2>2. QED
    BY <1>2, <2>1 DEF TypeOK
<1>3. QED
  BY <1>1, <1>2, HandleSocketCloseType

(* Joining an attempt, from a state that is not connected. *)
LEMMA JoinKeepsOwnership ==
    ASSUME IndInv, JoinAttempt, state # "connected",
           UNCHANGED <<state, socket, readLoop, dying>>
    PROVE  OwnershipKept
BY JoinAttemptType DEF IndInv, OwnershipKept, AttemptOwnsSocket,
   ConnectedIsWatched, ConnectingHasAttempt

LEMMA OwnershipStep == IndInv /\ [Next]_vars => OwnershipKept
<1> SUFFICES ASSUME IndInv, [Next]_vars PROVE OwnershipKept
  OBVIOUS
<1> USE DEF socketVars, appVars
<1>1. CASE UNCHANGED <<state, socket, attempt, readLoop, dying>>
  BY <1>1 DEF IndInv, OwnershipKept, AttemptOwnsSocket, ConnectedIsWatched,
              ConnectingHasAttempt
<1>2. CASE Next
  <2> USE DEF IndInv, OwnershipKept, AttemptOwnsSocket, ConnectedIsWatched,
              ConnectingHasAttempt, TypeOK, ClosedStates
  <2>1. CASE DoConnect
    BY <2>1 DEF DoConnect
  <2>2. CASE DialFails
    BY <2>2 DEF DialFails, Done
  <2>3. CASE DialAborted
    BY <2>3 DEF DialAborted, Done
  <2>4. ASSUME NEW s \in Sockets, DialSucceeds(s) PROVE OwnershipKept
    BY <2>4 DEF DialSucceeds, FreeSocket
  <2>5. CASE AuthRejected
    BY <2>5 DEF AuthRejected
  <2>6. CASE TeardownSocket
    <3>1. attempt.ws = socket /\ HandleSocketClose(attempt.ws)
      BY <2>6 DEF TeardownSocket
    <3>2. state' \in {"closed", "failed", "disconnected"}
      BY <3>1, HandleSocketCloseType
    <3>3. QED
      BY <2>6, <3>2 DEF TeardownSocket, Done
  <2>7. CASE CompleteAborted
    BY <2>7 DEF CompleteAborted, Done
  <2>8. CASE CompleteConnect
    BY <2>8 DEF CompleteConnect
  <2>9. CASE StartReadLoop
    BY <2>9 DEF StartReadLoop
  <2>10. CASE Flushed
    BY <2>10 DEF Flushed, Done
  <2>11. CASE FinishConnect
    BY <2>11 DEF FinishConnect, NoAttempt
  <2>12. ASSUME NEW t \in Timers, TimerFires(t) \/ CallbackStarts(t) \/ CallbackRefused(t)
         PROVE  OwnershipKept
    BY <1>1, <2>12 DEF TimerFires, CallbackStarts, CallbackRefused
  <2>13. ASSUME NEW t \in Timers, CallbackConnects(t) PROVE OwnershipKept
    BY <1>1, <2>13, JoinKeepsOwnership DEF CallbackConnects
  <2>14. ASSUME NEW s \in Sockets, Drop(s) PROVE OwnershipKept
    BY <1>1, <2>14 DEF Drop
  <2>15. ASSUME NEW s \in Sockets, DeadlineFires(s) PROVE OwnershipKept
    BY <2>15 DEF DeadlineFires
  <2>16. ASSUME NEW s \in Sockets, ReadLoopEnds(s) \/ DeadlineCloses(s)
         PROVE  OwnershipKept
    BY <2>16, SocketCloseKeepsOwnership DEF ReadLoopEnds, DeadlineCloses
  <2>17. ASSUME NEW k \in Closers, CloseBegins(k) PROVE OwnershipKept
    BY <2>17 DEF CloseBegins
  <2>18. ASSUME NEW k \in Closers, CloseSocket(k) PROVE OwnershipKept
    BY <1>1, <2>18 DEF CloseSocket
  <2>19. ASSUME NEW k \in Closers, CloseEnds(k) PROVE OwnershipKept
    BY <2>19 DEF CloseEnds
  <2>20. ASSUME NEW a \in Callers, ConnectCalled(a) PROVE OwnershipKept
    BY <1>1, <2>20, JoinKeepsOwnership DEF ConnectCalled
  <2>21. ASSUME NEW a \in Callers, ConnectCancelled(a) PROVE OwnershipKept
    BY <1>1, <2>21 DEF ConnectCancelled
  <2>22. CASE InternalConnect
    BY <2>22, JoinKeepsOwnership DEF InternalConnect
  <2>23. QED
    BY <1>2, <2>1, <2>2, <2>3, <2>4, <2>5, <2>6, <2>7, <2>8, <2>9, <2>10, <2>11,
       <2>12, <2>13, <2>14, <2>15, <2>16, <2>17, <2>18, <2>19, <2>20, <2>21, <2>22
    DEF Next, AttemptNext, CallbackNext, CloseNext
<1>3. QED
  BY <1>1, <1>2 DEF Next, vars

LEMMA IndStep == IndInv /\ [Next]_vars => IndInv'
BY TypeStep, OwnershipStep DEF IndInv, OwnershipKept

THEOREM Invariant == Spec => []IndInv
BY IndInit, IndStep, PTL DEF Spec

-----------------------------------------------------------------------------
(* Every variable keeps its type in every behaviour of the connection. *)
THEOREM TypeCorrect == Spec => []TypeOK
<1>1. IndInv => TypeOK
  BY DEF IndInv
<1>2. QED
  BY <1>1, Invariant, PTL

(* The drop of a connected socket is never lost: in every reachable state  *)
(* its read loop runs or is about to be started (completeConnect).         *)
THEOREM ConnectedAlwaysWatched == Spec => []ConnectedIsWatched
<1>1. IndInv => ConnectedIsWatched
  BY DEF IndInv
<1>2. QED
  BY <1>1, Invariant, PTL

(* The state machine never stays at connecting with nothing in flight      *)
(* (doConnect, handleSocketClose).                                         *)
THEOREM ConnectingAlwaysHasAttempt == Spec => []ConnectingHasAttempt
<1>1. IndInv => ConnectingHasAttempt
  BY DEF IndInv
<1>2. QED
  BY <1>1, Invariant, PTL

(* The attempt's socket is c.socket until the handshake has ended. *)
THEOREM AttemptAlwaysOwnsSocket == Spec => []AttemptOwnsSocket
<1>1. IndInv => AttemptOwnsSocket
  BY DEF IndInv
<1>2. QED
  BY <1>1, Invariant, PTL

(* What leaves the closing and closed states is only the first step of a   *)
(* new attempt (the guards of doConnect, completeConnect and               *)
(* handleSocketClose).                                                     *)
THEOREM NothingResurrects == Spec => NoResurrection
<1>1. IndInv /\ [Next]_vars =>
        [(state \in ClosedStates /\ state' \notin ClosedStates) =>
            (attempt.pc = "spawned" /\ state' = "connecting")]_vars
  <2> SUFFICES ASSUME IndInv, Next, state \in ClosedStates, state' \notin ClosedStates
               PROVE  attempt.pc = "spawned" /\ state' = "connecting"
    BY DEF vars
  <2> USE DEF ClosedStates
  <2>1. ASSUME NEW s, HandleSocketClose(s) PROVE FALSE
    BY <2>1 DEF HandleSocketClose, CloseKind
  <2>2. QED
    BY <2>1 DEF Next, AttemptNext, CallbackNext, CloseNext, DoConnect,
       DialFails, DialAborted, DialSucceeds, AuthRejected, TeardownSocket,
       CompleteAborted, CompleteConnect, StartReadLoop, Flushed, FinishConnect,
       TimerFires, CallbackStarts, CallbackConnects, CallbackRefused, Drop,
       ReadLoopEnds, DeadlineFires, DeadlineCloses, CloseBegins, CloseSocket,
       CloseEnds, ConnectCalled, ConnectCancelled,
       InternalConnect
<1>2. QED
  BY <1>1, Invariant, PTL DEF Spec, NoResurrection

-----------------------------------------------------------------------------
(* Before the first Close.  A socket outlives neither its state nor its    *)
(* attempt; every timer that is armed or has just fired is the referenced  *)
(* one; a fatal error lasts no longer than the teardown it leads to; and a *)
(* socket whose deadline is at work has been closed already.               *)
BeforeClose ==
    /\ state \notin ClosedStates
    /\ fatalErr => attempt.pc = "fatal"
    /\ socket # None => state = "connected" \/ attempt.pc \in {"handshake", "fatal"}
    /\ attempt.pc = "installed" => attempt.ws = socket \/ attempt.ws \notin open
    /\ readLoop \cap open \subseteq {socket}
    /\ dying \cap open = {}
    /\ \A t \in Timers : timer[t] \in {"armed", "fired"} => reconnectTimer = t

(* A retry is armed only when none is pending.                             *)
LEMMA ScheduleKeepsReference ==
    ASSUME TypeOK, NEW base \in [Timers -> TimerPhases], ScheduleReconnect(base),
           \A t \in Timers : base[t] \in {"armed", "fired"} => reconnectTimer = t
    PROVE  \A t \in Timers : timer'[t] \in {"armed", "fired"} => reconnectTimer' = t
BY ConnectionAssumption DEF ScheduleReconnect

(* The end of a socket that is closed already, or is being closed. *)
LEMMA SocketCloseBefore ==
    ASSUME IndInv, BeforeClose, NEW s \in Sockets, HandleSocketClose(s)
    PROVE  /\ state' \notin ClosedStates
           /\ socket' \in {socket, None} \ {s}
           /\ socket = s => fatalErr' = FALSE
           /\ socket # s => UNCHANGED <<state, fatalErr, socket>>
           /\ state # "failed" /\ state' = "failed" => fatalErr
           /\ \A t \in Timers : timer'[t] \in {"armed", "fired"} => reconnectTimer' = t
<1> USE DEF ClosedStates
<1>1. CASE CloseKind(s) = "stale" /\ UNCHANGED <<state, socket, fatalErr, timerVars>>
  BY <1>1, ConnectionAssumption DEF BeforeClose, CloseKind, timerVars
<1>2. CASE /\ CloseKind(s) = "fatal" /\ socket' = None /\ fatalErr' = FALSE
           /\ state' = "failed" /\ UNCHANGED timerVars
  BY <1>2, ConnectionAssumption DEF BeforeClose, CloseKind, timerVars
<1>3. CASE /\ CloseKind(s) = "dropped" /\ socket' = None /\ state' = "disconnected"
           /\ RetryIfEnabled /\ UNCHANGED fatalErr
  <2>1. socket = s /\ ~fatalErr
    BY <1>3 DEF CloseKind, BeforeClose
  <2>2. \A t \in Timers : timer'[t] \in {"armed", "fired"} => reconnectTimer' = t
    BY <1>3, ScheduleKeepsReference DEF IndInv, TypeOK, BeforeClose, RetryIfEnabled,
       timerVars
  <2>3. QED
    BY <1>3, <2>1, <2>2, ConnectionAssumption DEF IndInv, TypeOK
<1>4. CloseKind(s) # "closed"
  BY DEF CloseKind, BeforeClose
<1>5. QED
  BY <1>1, <1>2, <1>3, <1>4 DEF HandleSocketClose

LEMMA AttemptBefore ==
    ASSUME IndInv, BeforeClose, AttemptNext
    PROVE  BeforeClose'
<1> USE ConnectionAssumption DEF IndInv, TypeOK, BeforeClose, AttemptOwnsSocket, ClosedStates, timerVars,
        socketVars
<1>1. CASE DoConnect
  BY <1>1 DEF DoConnect
<1>2. CASE DialFails
  <2>1. \A t \in Timers : timer'[t] \in {"armed", "fired"} => reconnectTimer' = t
    BY <1>2, ScheduleKeepsReference DEF DialFails, RetryIfEnabled
  <2>2. QED
    BY <1>2, <2>1 DEF DialFails, Done
<1>3. CASE DialAborted
  BY <1>3 DEF DialAborted
<1>4. ASSUME NEW s \in Sockets, DialSucceeds(s) PROVE BeforeClose'
  <2>1. socket = None
    BY <1>4 DEF DialSucceeds
  <2>2. QED
    BY <1>4, <2>1 DEF DialSucceeds, FreeSocket
<1>5. CASE AuthRejected
  BY <1>5 DEF AuthRejected
<1>6. CASE TeardownSocket
  <2>1. attempt.ws = socket /\ attempt.ws \in Sockets
    BY <1>6 DEF TeardownSocket
  <2>2. HandleSocketClose(attempt.ws)
    BY <1>6 DEF TeardownSocket
  <2>3. /\ state' \notin ClosedStates /\ socket' = None /\ fatalErr' = FALSE
        /\ \A t \in Timers : timer'[t] \in {"armed", "fired"} => reconnectTimer' = t
    BY <2>1, <2>2, SocketCloseBefore
  <2>4. QED
    BY <1>6, <2>1, <2>3 DEF TeardownSocket, Done
<1>7. CASE CompleteAborted
  BY <1>7 DEF CompleteAborted
<1>8. CASE CompleteConnect
  BY <1>8 DEF CompleteConnect
<1>9. CASE StartReadLoop
  BY <1>9 DEF StartReadLoop
<1>10. CASE Flushed
  BY <1>10 DEF Flushed, Done
<1>11. CASE FinishConnect
  BY <1>11 DEF FinishConnect, NoAttempt
<1>12. QED
  BY <1>1, <1>2, <1>3, <1>4, <1>5, <1>6, <1>7, <1>8, <1>9, <1>10, <1>11
  DEF AttemptNext

LEMMA TimerBefore ==
    ASSUME IndInv, BeforeClose, NEW t \in Timers, TimerFires(t) \/ CallbackNext(t)
    PROVE  BeforeClose'
<1> USE ConnectionAssumption DEF IndInv, TypeOK, BeforeClose, ClosedStates, AttemptOwnsSocket, socketVars
<1>1. CASE TimerFires(t)
  BY <1>1 DEF TimerFires
<1>2. CASE CallbackStarts(t)
  BY <1>2 DEF CallbackStarts
<1>3. CASE CallbackConnects(t)
  BY <1>3, JoinAttemptType DEF CallbackConnects
<1>4. CASE CallbackRefused(t)
  <2>1. [timer EXCEPT ![t] = "idle"] \in [Timers -> TimerPhases]
    BY DEF TimerPhases
  <2>2. \A u \in Timers : timer'[u] \in {"armed", "fired"} => reconnectTimer' = u
    BY <1>4, <2>1, ScheduleKeepsReference DEF CallbackRefused
  <2>3. QED
    BY <1>4, <2>2 DEF CallbackRefused
<1>5. QED
  BY <1>1, <1>2, <1>3, <1>4 DEF CallbackNext

LEMMA SocketBefore ==
    ASSUME IndInv, BeforeClose, NEW s \in Sockets,
           Drop(s) \/ ReadLoopEnds(s) \/ DeadlineFires(s) \/ DeadlineCloses(s)
    PROVE  BeforeClose'
<1> USE ConnectionAssumption DEF IndInv, TypeOK, BeforeClose, ClosedStates, AttemptOwnsSocket, timerVars
<1>1. CASE Drop(s)
  BY <1>1 DEF Drop
<1>2. CASE DeadlineFires(s)
  BY <1>2 DEF DeadlineFires
<1>3. CASE ReadLoopEnds(s) \/ DeadlineCloses(s)
  <2>1. HandleSocketClose(s) /\ s \notin open /\ UNCHANGED <<attempt, open>>
    BY <1>3 DEF ReadLoopEnds, DeadlineCloses
  <2>2. readLoop' \subseteq readLoop /\ dying' \subseteq dying
    BY <1>3 DEF ReadLoopEnds, DeadlineCloses
  <2>3. attempt.pc \in {"handshake", "fatal"} => socket # s
    BY <1>3 DEF ReadLoopEnds, DeadlineCloses
  <2>4. /\ state' \notin ClosedStates
        /\ socket' \in {socket, None} \ {s}
        /\ socket = s => fatalErr' = FALSE
        /\ socket # s => UNCHANGED <<state, fatalErr, socket>>
        /\ \A t \in Timers : timer'[t] \in {"armed", "fired"} => reconnectTimer' = t
    BY <2>1, SocketCloseBefore
  <2>5. QED
    BY <2>1, <2>2, <2>3, <2>4
<1>4. QED
  BY <1>1, <1>2, <1>3

LEMMA AppBefore ==
    ASSUME IndInv, BeforeClose,
           (\E a \in Callers : ConnectCalled(a) \/ ConnectCancelled(a)) \/ InternalConnect
    PROVE  BeforeClose'
BY JoinAttemptType
DEF IndInv, TypeOK, BeforeClose, ConnectCalled, ConnectCancelled, InternalConnect,
    timerVars, socketVars

(* No step takes back that Close was called.                               *)
LEMMA ClosersAdvance == IndInv /\ [Next]_vars /\ NeverClosed' => NeverClosed
<1> SUFFICES ASSUME IndInv, [Next]_vars, NeverClosed' PROVE NeverClosed
  OBVIOUS
<1> USE DEF NeverClosed, IndInv, TypeOK, appVars
<1>1. ASSUME NEW k \in Closers, CloseBegins(k) \/ CloseNext(k) PROVE FALSE
  BY <1>1 DEF CloseBegins, CloseNext, CloseSocket, CloseEnds
<1>2. CASE UNCHANGED closer
  BY <1>2
<1>3. QED
  BY <1>1, <1>2 DEF Next, vars, AttemptNext, CallbackNext, DoConnect, DialFails, DialAborted,
     DialSucceeds, AuthRejected, TeardownSocket, CompleteAborted, CompleteConnect,
     StartReadLoop, Flushed, FinishConnect, TimerFires, CallbackStarts,
     CallbackConnects, CallbackRefused, Drop, ReadLoopEnds, DeadlineFires,
     DeadlineCloses, ConnectCalled, ConnectCancelled, InternalConnect

LEMMA BeforeStep ==
    IndInv /\ (NeverClosed => BeforeClose) /\ [Next]_vars => (NeverClosed => BeforeClose)'
<1> SUFFICES ASSUME IndInv, NeverClosed => BeforeClose, [Next]_vars, NeverClosed'
             PROVE  BeforeClose'
  OBVIOUS
<1>1. NeverClosed /\ BeforeClose
  BY ClosersAdvance
<1>2. ASSUME NEW k \in Closers, CloseBegins(k) \/ CloseNext(k) PROVE FALSE
  BY <1>1, <1>2 DEF CloseBegins, CloseNext, CloseSocket, CloseEnds, NeverClosed, IndInv,
     TypeOK
<1>3. CASE UNCHANGED vars
  BY <1>1, <1>3 DEF vars, timerVars, socketVars, BeforeClose
<1>4. QED
  BY <1>1, <1>2, <1>3, AttemptBefore, TimerBefore, SocketBefore, AppBefore DEF Next

LEMMA BeforeInit == Init => BeforeClose
BY DEF Init, BeforeClose, ClosedStates, NoAttempt

LEMMA BeforeHolds == Spec => [](NeverClosed => BeforeClose)
BY BeforeInit, BeforeStep, Invariant, PTL DEF Spec

(* As long as Close was not called, frames come from one socket only.      *)
THEOREM AlwaysOneLiveSocket == Spec => []OneLiveSocket
<1>1. (NeverClosed => BeforeClose) => OneLiveSocket
  BY DEF BeforeClose, OneLiveSocket
<1>2. QED
  BY <1>1, BeforeHolds, PTL

(* And no second retry is armed beside the one that Close could stop.      *)
THEOREM ArmedAlwaysReferenced == Spec => []ArmedIsReferenced
<1>1. (NeverClosed => BeforeClose) => ArmedIsReferenced
  BY DEF BeforeClose, ArmedIsReferenced
<1>2. QED
  BY <1>1, BeforeHolds, PTL

(* And a drop never fails the client for a rejection of the past.          *)
THEOREM FailedOnlyByRejection == Spec => FailedOnlyOnRejection
<1>1. IndInv /\ (NeverClosed => BeforeClose) /\ [Next]_vars =>
        [NeverClosed /\ state # "failed" /\ state' = "failed" => attempt.pc = "fatal"]_vars
  <2> SUFFICES ASSUME IndInv, NeverClosed, BeforeClose, Next,
                      state # "failed", state' = "failed"
               PROVE  attempt.pc = "fatal"
    BY DEF vars
  <2>1. ASSUME NEW s \in Sockets, HandleSocketClose(s) PROVE attempt.pc = "fatal"
    BY <2>1, SocketCloseBefore DEF BeforeClose
  <2>2. TeardownSocket => \E s \in Sockets : HandleSocketClose(s)
    BY DEF TeardownSocket, IndInv, AttemptOwnsSocket
  <2>3. QED
    BY <2>1, <2>2 DEF Next, AttemptNext, CallbackNext, CloseNext, DoConnect,
       DialFails, DialAborted, DialSucceeds, AuthRejected,
       CompleteAborted, CompleteConnect, StartReadLoop, Flushed, FinishConnect,
       TimerFires, CallbackStarts, CallbackConnects, CallbackRefused, Drop,
       ReadLoopEnds, DeadlineFires, DeadlineCloses, CloseBegins, CloseSocket,
       CloseEnds, ConnectCalled, ConnectCancelled, InternalConnect
<1>2. QED
  BY <1>1, Invariant, BeforeHolds, PTL DEF Spec, FailedOnlyOnRejection

-----------------------------------------------------------------------------
(* The publishes. *)

(* Every step with publishes is a step of the lifecycle or leaves it alone *)
LEMMA PubStepIsStep == [PubNext]_allVars => [Next]_vars
<1> SUFFICES ASSUME [PubNext]_allVars PROVE [Next]_vars
  OBVIOUS
<1>1. CASE UNCHANGED allVars
  BY <1>1 DEF allVars
<1>2. CASE PubNext
  <2> SUFFICES Next \/ UNCHANGED vars
    BY <1>2 DEF PubNext, Next
  <2> USE DEF Next, AttemptNext, CallbackNext, CloseNext
  <2>1. CASE PubAttemptNext
    BY <2>1 DEF PubAttemptNext, QuietAttempt, DialInstalls, HandshakeTorn,
                HandshakeAborted, FlushCollects, FlushNext, FlushDone
  <2>2. ASSUME NEW t \in Timers, QuietTimer(t) PROVE Next
    BY <2>2 DEF QuietTimer
  <2>3. ASSUME NEW s \in Sockets,
               QuietSocket(s) \/ ReadLoopTorn(s) \/ DeadlineTorn(s)
        PROVE  Next
    BY <2>3 DEF QuietSocket, ReadLoopTorn, DeadlineTorn
  <2>4. CASE QuietApp \/ \E k \in Closers : CloseSettles(k)
    BY <2>4 DEF QuietApp, CloseSettles
  <2>5. ASSUME NEW m \in Msgs,
               \/ PublishRefused(m) \/ PublishQueued(m) \/ PublishDirect(m)
               \/ KickConnects(m)
        PROVE  Next \/ UNCHANGED vars
    BY <2>5 DEF PublishRefused, PublishQueued, PublishDirect, KickConnects
  <2>6. ASSUME NEW x \in Senders, SendNext(x) PROVE UNCHANGED vars
    BY <2>6 DEF SendNext, SendAssigns, SendWrites, SendLost, SendFails, SendUndone
  <2>7. ASSUME NEW f, ServerAnswers(f) \/ HandleAnswer(f) PROVE UNCHANGED vars
    BY <2>7 DEF ServerAnswers, HandleAnswer
  <2>8. QED
    BY <1>2, <2>1, <2>2, <2>3, <2>4, <2>5, <2>6, <2>7 DEF PubNext
<1>3. QED
  BY <1>1, <1>2

(* The lifecycle with publishes implements module Connection, so that all  *)
(* that is proved of Connection holds of it.                               *)
THEOREM ImplementsConnection == PubSpec => Spec
BY PubStepIsStep, PTL DEF PubSpec, Spec

-----------------------------------------------------------------------------
(* The inductive invariant.  That an answer settles only its own publish   *)
(* needs the ids of the frames under way, hence the ids held by the        *)
(* goroutines in sendPublish, hence frame.id, which two of them may share. *)
SendersRoute ==
    \A x \in Senders :
        LET s == sender[x] IN
        /\ s.pc # "idle" => s.msg \in Msgs /\ call[s.msg] # "idle"
        /\ s.pc \in {"write", "failed"} => s.id \in RequestIds /\ Routes(s.id, s.msg)
        /\ s.pc = "write" =>
              frameID[s.msg] \in RequestIds /\ Routes(frameID[s.msg], s.msg)

CalledOnly ==
    /\ \A m \in todo : call[m] # "idle"
    /\ \A m \in Msgs : call[m] = "idle" => result[m] = "none"

PubIndInv ==
    /\ IndInv
    /\ PubTypeOK
    /\ SendersRoute
    /\ CalledOnly
    /\ AnswersRouted
    /\ TableTracksWaiting
    /\ ClosedHasNoPublish

LEMMA PubIndInit == Init /\ PubInit => PubIndInv
<1> SUFFICES ASSUME Init, PubInit PROVE PubIndInv
  OBVIOUS
<1>1. IndInv
  BY IndInit
<1>2. IdleSender \in [pc : {"idle", "lock", "write", "failed"}, msg : Msgs \cup {None},
                      id : RequestIds \cup {None}, ws : Sockets \cup {None}]
  BY DEF IdleSender
<1>3. PubTypeOK
  BY <1>2 DEF PubInit, PubTypeOK
<1>4. SendersRoute
  BY DEF PubInit, SendersRoute, IdleSender
<1>5. QED
  BY <1>1, <1>3, <1>4 DEF PubIndInv, PubInit, Init, CalledOnly, AnswersRouted,
     TableTracksWaiting, ClosedHasNoPublish

-----------------------------------------------------------------------------
(* The three ways a step changes the table. *)

(* The table invariant, apart from the goroutines and the frames. *)
TableInv == TableTracksWaiting /\ ClosedHasNoPublish

(* Rejecting every outstanding publish: nothing waits, nothing is routed. *)
LEMMA FailOutstandingFacts ==
    ASSUME PubIndInv, FailOutstanding, call' = call
    PROVE  /\ outstanding' = {}
           /\ result' \in [Msgs -> Answers \cup {"none"}]
           /\ publishRequestIDs' \in [RequestIds -> Msgs \cup {None}]
           /\ requestID' = requestID
           /\ \A i \in RequestIds : publishRequestIDs'[i] = None
           /\ TableInv'
           /\ \A m \in Msgs : call[m] = "idle" => result'[m] = "none"
<1> USE DEF PubIndInv, PubTypeOK, Answers
<1>1. /\ outstanding' = {} /\ requestID' = requestID
      /\ result' \in [Msgs -> Answers \cup {"none"}]
      /\ publishRequestIDs' \in [RequestIds -> Msgs \cup {None}]
      /\ \A i \in RequestIds : publishRequestIDs'[i] = None
  BY DEF FailOutstanding
<1>2. \A m \in Msgs : call[m] = "idle" => result'[m] = "none"
  BY DEF FailOutstanding, TableTracksWaiting, CalledOnly
<1>3. \A m \in Msgs : call[m] \in {"queued", "direct"} => result'[m] # "none"
  BY DEF FailOutstanding, TableTracksWaiting
<1>4. QED
  BY <1>1, <1>2, <1>3 DEF TableInv, TableTracksWaiting, ClosedHasNoPublish

(* A socket close forgets the routes, never adds one, and leaves no        *)
(* publish waiting in state closed or failed.                              *)
LEMMA SocketClosedFacts ==
    ASSUME PubIndInv, NEW ws, HandleSocketClose(ws), SocketClosed(ws), call' = call
    PROVE  /\ outstanding' \subseteq outstanding
           /\ result' \in [Msgs -> Answers \cup {"none"}]
           /\ publishRequestIDs' \in [RequestIds -> Msgs \cup {None}]
           /\ requestID' \in [Msgs -> RequestIds \cup {None}]
           /\ \A i \in RequestIds :
                 publishRequestIDs'[i] \in {None, publishRequestIDs[i]}
           /\ TableInv'
           /\ \A m \in Msgs : call[m] = "idle" => result'[m] = "none"
<1> USE DEF PubIndInv
<1>1. CASE CloseKind(ws) = "stale"
  <2>1. UNCHANGED tableVars
    BY <1>1 DEF SocketClosed
  <2>2. state' = state
    BY <1>1 DEF HandleSocketClose
  <2>3. QED
    BY <2>1, <2>2 DEF tableVars, PubTypeOK, TableInv, TableTracksWaiting,
                      ClosedHasNoPublish, CalledOnly
<1>2. CASE FailOutstanding
  BY <1>2, FailOutstandingFacts DEF PubTypeOK
<1>3. CASE /\ CloseKind(ws) = "dropped"
           /\ publishRequestIDs' = [i \in RequestIds |-> None]
           /\ requestID' = [m \in Msgs |-> IF m \in outstanding THEN None
                                                                ELSE requestID[m]]
           /\ UNCHANGED <<result, outstanding>>
  <2>1. state' = "disconnected"
    BY <1>3 DEF HandleSocketClose
  <2>2. requestID' \in [Msgs -> RequestIds \cup {None}]
    BY <1>3 DEF PubTypeOK
  <2>3. QED
    BY <1>3, <2>1, <2>2 DEF PubTypeOK, TableInv, TableTracksWaiting,
                            ClosedHasNoPublish, CalledOnly
<1>4. QED
  BY <1>1, <1>2, <1>3 DEF SocketClosed

(* Forgetting routes, with frames and goroutines unchanged or fewer, keeps *)
(* the routing.                                                            *)
LEMMA RoutesForgotten ==
    ASSUME PubIndInv, call' = call, frameID' = frameID, sender' = sender,
           toServer' \subseteq toServer, toClient' \subseteq toClient,
           stored \subseteq stored',
           \A i \in RequestIds : publishRequestIDs'[i] \in {None, publishRequestIDs[i]}
    PROVE  SendersRoute' /\ AnswersRouted'
<1> USE DEF PubIndInv, PubTypeOK
<1>1. SendersRoute'
  BY DEF SendersRoute, Routes
<1>2. \A f \in toServer : f.id \in RequestIds /\ f.msg \in Msgs
  BY DEF PubFrame
<1>3. \A f \in toClient : f.id \in RequestIds /\ f.msg \in Msgs
  BY DEF AnswerFrame
<1>4. AnswersRouted'
  BY <1>2, <1>3 DEF AnswersRouted, Routes
<1>5. QED
  BY <1>1, <1>4

-----------------------------------------------------------------------------
(* The steps of the lifecycle. *)

(* Steps that leave the publishes alone; they do not enter closed or       *)
(* failed.                                                                 *)
LEMMA QuietStep ==
    ASSUME PubIndInv, UNCHANGED pubVars,
           state' \in {"closed", "failed"} => state' = state
    PROVE  /\ PubTypeOK' /\ SendersRoute' /\ CalledOnly' /\ AnswersRouted' /\ TableInv'
BY DEF PubIndInv, pubVars, tableVars, flushVars, netVars, PubTypeOK, SendersRoute,
   CalledOnly, AnswersRouted, Routes, TableInv, TableTracksWaiting,
   ClosedHasNoPublish, PubFrame, AnswerFrame

PubRest == PubTypeOK /\ SendersRoute /\ CalledOnly /\ AnswersRouted /\ TableInv

LEMMA LifecycleStep ==
    ASSUME PubIndInv,
           \/ QuietAttempt
           \/ \E t \in Timers : QuietTimer(t)
           \/ \E s \in Sockets : QuietSocket(s)
           \/ QuietApp
    PROVE  PubRest'
<1>1. UNCHANGED pubVars
  BY DEF QuietAttempt, QuietTimer, QuietSocket, QuietApp
<1>2. state' \in {"closed", "failed"} => state' = state
  BY DEF QuietAttempt, QuietTimer, QuietSocket, QuietApp, CallbackNext, DoConnect,
     DialFails, DialAborted, AuthRejected, CompleteConnect, StartReadLoop,
     FinishConnect, TimerFires, CallbackStarts, CallbackConnects, CallbackRefused,
     Drop, DeadlineFires, CloseBegins, CloseSocket, ConnectCalled, ConnectCancelled
<1>3. QED
  BY <1>1, <1>2, QuietStep DEF PubRest

(* A socket ends, or Close does: the table loses, the routes are forgotten *)
LEMMA SocketEndStep ==
    ASSUME PubIndInv,
           UNCHANGED <<call, frameID, sender, flushVars, kicks, toServer, stored>>,
           toClient' \subseteq toClient,
           \/ \E ws : HandleSocketClose(ws) /\ SocketClosed(ws)
           \/ FailOutstanding
    PROVE  PubRest'
<1> USE DEF PubIndInv
<1>1. /\ outstanding' \subseteq outstanding
      /\ result' \in [Msgs -> Answers \cup {"none"}]
      /\ publishRequestIDs' \in [RequestIds -> Msgs \cup {None}]
      /\ requestID' \in [Msgs -> RequestIds \cup {None}]
      /\ \A i \in RequestIds : publishRequestIDs'[i] \in {None, publishRequestIDs[i]}
      /\ TableInv'
      /\ \A m \in Msgs : call[m] = "idle" => result'[m] = "none"
  BY SocketClosedFacts, FailOutstandingFacts DEF PubTypeOK
<1>2. PubTypeOK'
  BY <1>1 DEF PubTypeOK, flushVars, PubFrame, AnswerFrame
<1>3. SendersRoute' /\ AnswersRouted'
  BY <1>1, RoutesForgotten
<1>4. CalledOnly'
  BY <1>1 DEF CalledOnly, flushVars
<1>5. QED
  BY <1>1, <1>2, <1>3, <1>4 DEF PubRest

LEMMA SocketStep ==
    ASSUME PubIndInv,
           \/ HandshakeTorn
           \/ \E s \in Sockets : ReadLoopTorn(s) \/ DeadlineTorn(s)
           \/ \E k \in Closers : CloseSettles(k)
    PROVE  PubRest'
<1>1. CASE HandshakeTorn
  BY <1>1, SocketEndStep DEF HandshakeTorn, TeardownSocket, Unread
<1>2. ASSUME NEW s \in Sockets, ReadLoopTorn(s) PROVE PubRest'
  BY <1>2, SocketEndStep DEF ReadLoopTorn, ReadLoopEnds, Unread
<1>3. ASSUME NEW s \in Sockets, DeadlineTorn(s) PROVE PubRest'
  BY <1>3, SocketEndStep DEF DeadlineTorn, DeadlineCloses, netVars
<1>4. ASSUME NEW k \in Closers, CloseSettles(k) PROVE PubRest'
  BY <1>4, SocketEndStep DEF CloseSettles, netVars
<1>5. QED
  BY <1>1, <1>2, <1>3, <1>4

LEMMA HandshakeStep ==
    ASSUME PubIndInv, HandshakeAborted \/ \E s \in Sockets : DialInstalls(s)
    PROVE  PubRest'
<1> USE DEF PubIndInv
<1>1. /\ UNCHANGED <<call, tableVars, frameID, sender, flushVars, kicks, stored>>
      /\ toServer' \subseteq toServer /\ toClient' \subseteq toClient
      /\ state' = state
  BY DEF HandshakeAborted, DialInstalls, CompleteAborted, DialSucceeds, Unread
<1>2. PubTypeOK'
  BY <1>1 DEF PubTypeOK, tableVars, flushVars
<1>3. SendersRoute' /\ AnswersRouted'
  BY <1>1, RoutesForgotten DEF tableVars
<1>4. CalledOnly' /\ TableInv'
  BY <1>1 DEF CalledOnly, TableInv, TableTracksWaiting, ClosedHasNoPublish,
              tableVars, flushVars
<1>5. QED
  BY <1>2, <1>3, <1>4 DEF PubRest

-----------------------------------------------------------------------------
(* The steps of the publishes, the flush and the network. *)

LEMMA PublishStep ==
    ASSUME PubIndInv, NEW m \in Msgs,
           PublishRefused(m) \/ PublishQueued(m) \/ PublishDirect(m) \/ KickConnects(m)
    PROVE  PubRest'
<1> USE DEF PubIndInv, PubTypeOK, tableVars, flushVars, netVars, PubFrame, AnswerFrame
<1>1. state' = state
  BY DEF PublishRefused, PublishQueued, PublishDirect, KickConnects, InternalConnect,
         vars
<1>2. CASE PublishRefused(m)
  <2>1. PubTypeOK'
    BY <1>2 DEF PublishRefused, Answers
  <2>2. SendersRoute' /\ AnswersRouted'
    BY <1>2 DEF PublishRefused, SendersRoute, AnswersRouted, Routes
  <2>3. CalledOnly' /\ TableInv'
    BY <1>1, <1>2 DEF PublishRefused, CalledOnly, TableInv, TableTracksWaiting,
                      ClosedHasNoPublish
  <2>4. QED
    BY <2>1, <2>2, <2>3 DEF PubRest
<1>3. CASE PublishQueued(m)
  <2>1. PubTypeOK'
    BY <1>3 DEF PublishQueued
  <2>2. SendersRoute' /\ AnswersRouted'
    BY <1>3 DEF PublishQueued, SendersRoute, AnswersRouted, Routes
  <2>3. CalledOnly' /\ TableInv'
    BY <1>1, <1>3 DEF PublishQueued, CalledOnly, TableInv, TableTracksWaiting,
                      ClosedHasNoPublish, Queueable
  <2>4. QED
    BY <2>1, <2>2, <2>3 DEF PubRest
<1>4. CASE PublishDirect(m)
  <2>1. PubTypeOK'
    BY <1>4 DEF PublishDirect, IdleSender, Senders
  <2>2. SendersRoute' /\ AnswersRouted'
    BY <1>4 DEF PublishDirect, SendersRoute, AnswersRouted, Routes, IdleSender, Senders
  <2>3. CalledOnly' /\ TableInv'
    BY <1>1, <1>4 DEF PublishDirect, CalledOnly, TableInv, TableTracksWaiting,
                      ClosedHasNoPublish
  <2>4. QED
    BY <2>1, <2>2, <2>3 DEF PubRest
<1>5. CASE KickConnects(m)
  <2>1. PubTypeOK'
    BY <1>5 DEF KickConnects
  <2>2. SendersRoute' /\ AnswersRouted'
    BY <1>5 DEF KickConnects, SendersRoute, AnswersRouted, Routes
  <2>3. CalledOnly' /\ TableInv'
    BY <1>1, <1>5 DEF KickConnects, CalledOnly, TableInv, TableTracksWaiting,
                      ClosedHasNoPublish
  <2>4. QED
    BY <2>1, <2>2, <2>3 DEF PubRest
<1>6. QED
  BY <1>2, <1>3, <1>4, <1>5

LEMMA SendStep ==
    ASSUME PubIndInv, NEW x \in Senders, SendNext(x)
    PROVE  PubRest'
<1> USE DEF PubIndInv, PubTypeOK, tableVars, flushVars, netVars, PubFrame, AnswerFrame
<1>1. state' = state /\ UNCHANGED <<call, outstanding, result, flushVars>>
  BY DEF SendNext, SendAssigns, SendWrites, SendLost, SendFails, SendUndone, vars
<1>2. CalledOnly' /\ TableInv'
  BY <1>1 DEF CalledOnly, TableInv, TableTracksWaiting, ClosedHasNoPublish
<1>3. CASE SendAssigns(x)
  <2> PICK i \in RequestIds :
         /\ FreshId(i)
         /\ requestID' = [requestID EXCEPT ![sender[x].msg] = i]
         /\ frameID' = [frameID EXCEPT ![sender[x].msg] = i]
         /\ publishRequestIDs' = [publishRequestIDs EXCEPT ![i] = sender[x].msg]
         /\ sender' = [sender EXCEPT ![x] = [pc |-> "write", msg |-> sender[x].msg,
                                             id |-> i, ws |-> socket]]
    BY <1>3 DEF SendAssigns
  <2>1. sender[x].msg \in Msgs /\ call[sender[x].msg] # "idle"
    BY <1>3 DEF SendAssigns, SendersRoute
  <2>2. PubTypeOK'
    <3>1. socket \in Sockets \cup {None}
      BY DEF IndInv, TypeOK
    <3>2. QED
      BY <1>3, <2>1, <3>1 DEF SendAssigns
  <2>3. SendersRoute'
    BY <1>1, <2>1 DEF SendersRoute, FreshId, Routes
  <2>4. AnswersRouted'
    BY <1>3, <2>1 DEF SendAssigns, AnswersRouted, FreshId, Routes
  <2>5. QED
    BY <1>2, <2>2, <2>3, <2>4 DEF PubRest
<1>4. CASE SendWrites(x)
  <2> PICK i \in {sender[x].id, frameID[sender[x].msg]} :
         toServer' = toServer \cup
             {[ws |-> sender[x].ws, id |-> i, msg |-> sender[x].msg]}
    BY <1>4 DEF SendWrites
  <2>1. /\ sender[x].msg \in Msgs /\ call[sender[x].msg] # "idle"
        /\ i \in RequestIds /\ Routes(i, sender[x].msg)
    BY <1>4 DEF SendWrites, SendersRoute
  <2>2. sender[x].ws \in Sockets
    BY <1>4 DEF SendWrites, IndInv, TypeOK
  <2>3. PubTypeOK'
    BY <1>4, <2>1, <2>2 DEF SendWrites, IdleSender
  <2>4. SendersRoute'
    BY <1>4 DEF SendWrites, SendersRoute, Routes, IdleSender
  <2>5. AnswersRouted'
    BY <1>4, <2>1 DEF SendWrites, AnswersRouted, Routes
  <2>6. QED
    BY <1>2, <2>3, <2>4, <2>5 DEF PubRest
<1>5. CASE SendLost(x)
  <2>1. PubTypeOK'
    BY <1>5 DEF SendLost, IdleSender
  <2>2. SendersRoute' /\ AnswersRouted'
    BY <1>5 DEF SendLost, SendersRoute, AnswersRouted, Routes, IdleSender
  <2>3. QED
    BY <1>2, <2>1, <2>2 DEF PubRest
<1>6. CASE SendFails(x)
  <2>1. PubTypeOK'
    BY <1>6 DEF SendFails
  <2>2. SendersRoute' /\ AnswersRouted'
    BY <1>6 DEF SendFails, SendersRoute, AnswersRouted, Routes
  <2>3. QED
    BY <1>2, <2>1, <2>2 DEF PubRest
<1>7. CASE SendUndone(x)
  <2>1. sender[x].id \in RequestIds /\ sender[x].msg \in Msgs
    BY <1>7 DEF SendUndone, SendersRoute
  <2>2. PubTypeOK'
    BY <1>7, <2>1 DEF SendUndone, IdleSender
  <2>3. SendersRoute'
    BY <1>7, <2>1 DEF SendUndone, SendersRoute, Routes, IdleSender
  <2>4. AnswersRouted'
    BY <1>7, <2>1 DEF SendUndone, AnswersRouted, Routes
  <2>5. QED
    BY <1>2, <2>2, <2>3, <2>4 DEF PubRest
<1>8. QED
  BY <1>3, <1>4, <1>5, <1>6, <1>7 DEF SendNext

LEMMA FlushStep ==
    ASSUME PubIndInv, \/ FlushCollects
                      \/ \E m \in Msgs : FlushNext(m)
                      \/ FlushDone
    PROVE  PubRest'
<1> USE DEF PubIndInv, PubTypeOK, tableVars, flushVars, netVars, PubFrame, AnswerFrame
<1>1. state' = state /\ UNCHANGED <<call, tableVars, frameID, kicks, netVars>>
  BY DEF FlushCollects, FlushNext, FlushDone, Flushed, vars
<1>2. TableInv'
  BY <1>1 DEF TableInv, TableTracksWaiting, ClosedHasNoPublish
<1>3. \A m \in todo' : m \in Msgs /\ call[m] # "idle"
  BY DEF FlushCollects, FlushNext, FlushDone, TableTracksWaiting, CalledOnly
<1>4. CalledOnly'
  BY <1>1, <1>3 DEF CalledOnly
<1>5. CASE UNCHANGED sender
  <2>1. PubTypeOK'
    BY <1>1, <1>3, <1>5 DEF FlushCollects, FlushNext, FlushDone
  <2>2. SendersRoute' /\ AnswersRouted'
    BY <1>1, <1>5 DEF SendersRoute, AnswersRouted, Routes
  <2>3. QED
    BY <1>2, <1>4, <2>1, <2>2 DEF PubRest
<1>6. ASSUME NEW m \in Msgs, FlushNext(m) PROVE PubRest'
  <2>1. Flush \in Senders /\ call[m] # "idle"
    BY <1>6 DEF Senders, FlushNext, CalledOnly
  <2>2. PubTypeOK'
    BY <1>1, <1>3, <1>6, <2>1 DEF FlushNext, IdleSender
  <2>3. SendersRoute' /\ AnswersRouted'
    BY <1>1, <1>6, <2>1 DEF FlushNext, SendersRoute, AnswersRouted, Routes, IdleSender
  <2>4. QED
    BY <1>2, <1>4, <2>2, <2>3 DEF PubRest
<1>7. QED
  BY <1>5, <1>6 DEF FlushCollects, FlushDone

LEMMA ServerStep ==
    ASSUME PubIndInv, NEW f \in toServer, ServerAnswers(f)
    PROVE  PubRest'
<1> USE DEF PubIndInv, PubTypeOK, tableVars, flushVars, netVars, PubFrame, AnswerFrame
<1> PICK res \in Answers :
       /\ stored' = IF res = "ok" THEN stored \cup {f.msg} ELSE stored
       /\ toClient' = IF f.ws \in open
                        THEN toClient \cup
                               {[ws |-> f.ws, id |-> f.id, res |-> res, msg |-> f.msg]}
                        ELSE toClient
  BY DEF ServerAnswers
<1>1. /\ UNCHANGED <<state, call, tableVars, frameID, sender, flushVars, kicks>>
      /\ toServer' = toServer \ {f}
  BY DEF ServerAnswers, vars
<1>2. f \in PubFrame
  OBVIOUS
<1>3. stored \subseteq stored' /\ stored' \subseteq Msgs
  BY <1>2
<1>4. PubTypeOK'
  BY <1>1, <1>2, <1>3 DEF Answers
<1>5. AnswersRouted'
  <2>1. Routes(f.id, f.msg)
    BY DEF AnswersRouted
  <2>2. QED
    BY <1>1, <1>3, <2>1 DEF AnswersRouted, Routes
<1>6. SendersRoute' /\ CalledOnly' /\ TableInv'
  BY <1>1 DEF SendersRoute, Routes, CalledOnly, TableInv, TableTracksWaiting,
              ClosedHasNoPublish
<1>7. QED
  BY <1>4, <1>5, <1>6 DEF PubRest

LEMMA AnswerStep ==
    ASSUME PubIndInv, NEW f \in toClient, HandleAnswer(f)
    PROVE  PubRest'
<1> USE DEF PubIndInv, PubTypeOK, tableVars, flushVars, netVars
<1> DEFINE m == publishRequestIDs[f.id]
<1>1. /\ UNCHANGED <<state, call, frameID, sender, flushVars, kicks, toServer, stored>>
      /\ toClient' = toClient \ {f}
  BY DEF HandleAnswer, vars
<1>2. f.id \in RequestIds /\ f.res \in Answers
  BY DEF AnswerFrame
<1>3. /\ publishRequestIDs' \in [RequestIds -> Msgs \cup {None}]
      /\ \A i \in RequestIds : publishRequestIDs'[i] \in {None, publishRequestIDs[i]}
  BY <1>2 DEF HandleAnswer, SettlePublish
<1>4. SendersRoute' /\ AnswersRouted'
  BY <1>1, <1>3, RoutesForgotten
<1>5. /\ outstanding' \subseteq outstanding
      /\ requestID' = requestID
      /\ result' \in [Msgs -> Answers \cup {"none"}]
  BY <1>2 DEF HandleAnswer, SettlePublish
<1>6. \A n \in Msgs : \/ /\ result'[n] = result[n]
                         /\ n \in outstanding' <=> n \in outstanding
                      \/ /\ n \in outstanding /\ n \notin outstanding'
                         /\ result'[n] \in Answers
  BY <1>2 DEF HandleAnswer, SettlePublish
<1>7. PubTypeOK'
  BY <1>1, <1>3, <1>5 DEF PubFrame, AnswerFrame
<1>8. CalledOnly' /\ TableInv'
  BY <1>1, <1>5, <1>6 DEF CalledOnly, TableInv, TableTracksWaiting,
                          ClosedHasNoPublish, Answers
<1>9. QED
  BY <1>4, <1>7, <1>8 DEF PubRest

-----------------------------------------------------------------------------
LEMMA PubIndStep == PubIndInv /\ [PubNext]_allVars => PubIndInv'
<1> SUFFICES ASSUME PubIndInv, [PubNext]_allVars PROVE PubIndInv'
  OBVIOUS
<1>1. IndInv'
  BY IndStep, PubStepIsStep DEF PubIndInv
<1>2. PubRest'
  <2>1. CASE UNCHANGED allVars
    BY <2>1, QuietStep DEF allVars, vars, PubRest
  <2>2. CASE PubNext
    BY <2>2, LifecycleStep, SocketStep, HandshakeStep, PublishStep, SendStep,
       FlushStep, ServerStep, AnswerStep DEF PubNext, PubAttemptNext
  <2>3. QED
    BY <2>1, <2>2 DEF PubNext
<1>3. QED
  BY <1>1, <1>2 DEF PubIndInv, PubRest, TableInv

THEOREM PubInvariant == PubSpec => []PubIndInv
BY PubIndInit, PubIndStep, PTL DEF PubSpec

(* Every variable of the publishes keeps its type. *)
THEOREM PubTypeCorrect == PubSpec => []PubTypeOK
<1>1. PubIndInv => PubTypeOK
  BY DEF PubIndInv
<1>2. QED
  BY <1>1, PubInvariant, PTL

(* No publish is forgotten or settled twice by publish, sendPublish, the   *)
(* flush, the answers, the socket closes and Close together.               *)
THEOREM TableAlwaysTracks == PubSpec => []TableTracksWaiting
<1>1. PubIndInv => TableTracksWaiting
  BY DEF PubIndInv
<1>2. QED
  BY <1>1, PubInvariant, PTL

(* No publish waits on a closed or failed connection. *)
THEOREM ClosedNeverHoldsPublish == PubSpec => []ClosedHasNoPublish
<1>1. PubIndInv => ClosedHasNoPublish
  BY DEF PubIndInv
<1>2. QED
  BY <1>1, PubInvariant, PTL

(* No answer under way, ack or error, can settle another publish than the  *)
(* one whose frame it answers, and an ack means that its message is stored. *)
THEOREM AnswersAlwaysRouted == PubSpec => []AnswersRouted
<1>1. PubIndInv => AnswersRouted
  BY DEF PubIndInv
<1>2. QED
  BY <1>1, PubInvariant, PTL

-----------------------------------------------------------------------------
(* The refinement: every step of the publishes is a step of the contract   *)
(* or leaves what the contract speaks of alone.                            *)
Called == {m \in Msgs : call[m] # "idle"}

ContractKept == UNCHANGED <<Called, stored, result>>

LEMMA FailIsContractStep ==
    ASSUME PubIndInv, FailOutstanding, UNCHANGED <<call, stored>>
    PROVE  Contract!Next
<1>1. outstanding \in SUBSET Msgs /\ outstanding \subseteq {m \in Called : result[m] = "none"}
  BY DEF PubIndInv, PubTypeOK, TableTracksWaiting, Called
<1>2. Contract!Fail(outstanding)
  BY <1>1 DEF FailOutstanding, Contract!Fail, Contract!Waiting, Called
<1>3. QED
  BY <1>1, <1>2 DEF Contract!Next

LEMMA SocketIsContractStep ==
    ASSUME PubIndInv, NEW ws, SocketClosed(ws), UNCHANGED <<call, stored>>
    PROVE  Contract!Next \/ ContractKept
BY FailIsContractStep DEF SocketClosed, ContractKept, Called, tableVars

LEMMA PublishIsContractStep ==
    ASSUME PubIndInv, NEW m \in Msgs,
           PublishRefused(m) \/ PublishQueued(m) \/ PublishDirect(m) \/ KickConnects(m)
    PROVE  Contract!Next \/ ContractKept
<1> USE DEF PubIndInv, PubTypeOK, netVars, tableVars
<1>1. CASE PublishRefused(m)
  <2>1. Contract!Refuse(m)
    BY <1>1 DEF PublishRefused, Contract!Refuse
  <2>2. QED
    BY <2>1 DEF Contract!Next
<1>2. CASE PublishQueued(m) \/ PublishDirect(m)
  <2>1. Contract!Call(m)
    BY <1>2 DEF PublishQueued, PublishDirect, Contract!Call
  <2>2. QED
    BY <2>1 DEF Contract!Next
<1>3. CASE KickConnects(m)
  BY <1>3 DEF KickConnects, ContractKept, Called
<1>4. QED
  BY <1>1, <1>2, <1>3

LEMMA ServerIsContractStep ==
    ASSUME PubIndInv, NEW f \in toServer, ServerAnswers(f)
    PROVE  Contract!Next \/ ContractKept
<1>1. f.msg \in Msgs /\ call[f.msg] # "idle"
  BY DEF PubIndInv, PubTypeOK, PubFrame, AnswersRouted
<1>2. CASE stored' = stored \cup {f.msg}
  <2>1. Contract!Store(f.msg)
    BY <1>1, <1>2 DEF ServerAnswers, Contract!Store, tableVars
  <2>2. QED
    BY <1>1, <2>1 DEF Contract!Next
<1>3. CASE stored' = stored
  BY <1>3 DEF ServerAnswers, ContractKept, Called, tableVars
<1>4. QED
  BY <1>2, <1>3 DEF ServerAnswers

LEMMA AnswerIsContractStep ==
    ASSUME PubIndInv, NEW f \in toClient, HandleAnswer(f)
    PROVE  Contract!Next \/ ContractKept
<1> DEFINE m == publishRequestIDs[f.id]
<1>1. call' = call /\ stored' = stored /\ f \in AnswerFrame
  BY DEF HandleAnswer, PubIndInv, PubTypeOK
<1>2. CASE result' = result
  BY <1>1, <1>2 DEF ContractKept, Called
<1>3. CASE m # None /\ m \in outstanding /\ result' = [result EXCEPT ![m] = f.res]
  <2>1. m \in Msgs /\ call[m] # "idle" /\ result[m] = "none"
    BY <1>3 DEF PubIndInv, TableTracksWaiting
  <2>2. CASE f.res = "ok"
    <3>1. m \in stored
      BY <1>3, <2>2 DEF PubIndInv, AnswersRouted, Routes
    <3>2. Contract!Acknowledge(m)
      BY <1>1, <1>3, <2>1, <2>2, <3>1 DEF Contract!Acknowledge, Contract!Waiting
    <3>3. QED
      BY <2>1, <3>2 DEF Contract!Next
  <2>3. CASE f.res = "err"
    <3>1. result \in [Msgs -> Answers \cup {"none"}]
      BY DEF PubIndInv, PubTypeOK
    <3>2. result' = [n \in Msgs |-> IF n \in {m} THEN "err" ELSE result[n]]
      BY <1>3, <2>3, <3>1
    <3>3. Contract!Fail({m})
      BY <1>1, <2>1, <3>2 DEF Contract!Fail, Contract!Waiting
    <3>4. QED
      BY <2>1, <3>3 DEF Contract!Next
  <2>4. QED
    BY <1>1, <2>2, <2>3 DEF AnswerFrame, Answers
<1>4. QED
  BY <1>2, <1>3 DEF HandleAnswer, SettlePublish, tableVars

LEMMA ContractStep ==
    PubIndInv /\ [PubNext]_allVars => [Contract!Next]_<<Called, stored, result>>
<1> SUFFICES ASSUME PubIndInv, [PubNext]_allVars
             PROVE  Contract!Next \/ ContractKept
  BY DEF ContractKept
<1>1. CASE UNCHANGED pubVars
  BY <1>1 DEF pubVars, tableVars, netVars, ContractKept, Called
<1>2. CASE \/ HandshakeTorn
           \/ \E s \in Sockets : ReadLoopTorn(s) \/ DeadlineTorn(s)
  BY <1>2, SocketIsContractStep
     DEF HandshakeTorn, ReadLoopTorn, DeadlineTorn, netVars
<1>3. CASE \E k \in Closers : CloseSettles(k)
  BY <1>3, FailIsContractStep DEF CloseSettles, netVars
<1>4. CASE \/ HandshakeAborted
           \/ \E s \in Sockets : DialInstalls(s)
           \/ FlushCollects
           \/ \E m \in Msgs : FlushNext(m)
           \/ FlushDone
  BY <1>4 DEF HandshakeAborted, DialInstalls, FlushCollects, FlushNext, FlushDone,
              tableVars, netVars, ContractKept, Called
<1>5. CASE \E x \in Senders : SendNext(x)
  BY <1>5 DEF SendNext, SendAssigns, SendWrites, SendLost, SendFails, SendUndone,
              tableVars, netVars, ContractKept, Called
<1>6. QED
  BY <1>1, <1>2, <1>3, <1>4, <1>5, PublishIsContractStep, ServerIsContractStep,
     AnswerIsContractStep
  DEF PubNext, PubAttemptNext, QuietAttempt, QuietTimer, QuietSocket,
      QuietApp, allVars

(* The publishes of the connection implement their contract: each is       *)
(* settled at most once, and as published only when the server has stored  *)
(* it (publish, sendPublish, settlePublishLocked, failOutstandingLocked).  *)
THEOREM ImplementsContract == PubSpec => KeepsContract
<1>1. Init /\ PubInit => Contract!Init
  BY DEF PubInit, Contract!Init
<1>2. PubIndInv /\ [PubNext]_allVars => [Contract!Next]_Contract!cvars
  BY ContractStep DEF Contract!cvars, Called
<1>3. QED
  BY <1>1, <1>2, PubInvariant, PTL DEF PubSpec, KeepsContract, Contract!Spec
-----------------------------------------------------------------------------
(* The flush.  A queued publish is sent by the flush alone.  Once the flush *)
(* has read the table, no other attempt can connect until it is through,   *)
(* so that in a connected state what it sends goes to the current socket.  *)
FlushShape ==
    /\ collected => attempt.pc = "flushing"
    /\ todo # {} => collected
    /\ sender[Flush].pc # "idle" => collected
    /\ \A m \in Msgs : sender[m].pc # "idle" => sender[m].msg = m /\ call[m] = "direct"

FlushSends ==
    state = "connected" =>
        /\ sender[Flush].pc = "write" =>
              /\ sender[Flush].ws = socket
              /\ sender[Flush].msg \in outstanding /\ call[sender[Flush].msg] = "queued" =>
                    publishRequestIDs[sender[Flush].id] = sender[Flush].msg
        /\ sender[Flush].pc = "failed" => socket \notin open

(* A queued publish with an id can be answered. *)
QueuedMapped ==
    /\ \A m \in Msgs : call[m] = "idle" => requestID[m] = None
    /\ \A m \in outstanding :
          call[m] = "queued" /\ requestID[m] # None => publishRequestIDs[requestID[m]] = m

FlushInv == FlushShape /\ FlushSends /\ QueuedMapped /\ QueuedIsFlushed

LEMMA FlushInvInit == Init /\ PubInit => FlushInv
BY DEF Init, PubInit, FlushInv, FlushShape, FlushSends, QueuedMapped, QueuedIsFlushed,
   IdleSender, Senders, NoAttempt

(* Steps that leave the publishes alone.  They leave a flush under way,    *)
(* and they connect only to a flush that is still to come.                 *)
LEMMA QuietFlush ==
    ASSUME FlushInv, UNCHANGED pubVars,
           attempt.pc = "flushing" => attempt'.pc = "flushing",
           state' = "connected" /\ ~FlushAhead' =>
               state = "connected" /\ ~FlushAhead /\ socket' = socket /\ open' \subseteq open
    PROVE  FlushInv'
<1> USE DEF FlushInv, pubVars, tableVars, flushVars
<1>1. FlushShape'
  BY DEF FlushShape
<1>2. FlushSends'
  BY <1>1 DEF FlushShape, FlushSends, FlushAhead
<1>3. QueuedMapped'
  BY DEF QueuedMapped
<1>4. QueuedIsFlushed'
  BY DEF QueuedIsFlushed, InFlight
<1>5. QED
  BY <1>1, <1>2, <1>3, <1>4

LEMMA LifecycleFlush ==
    ASSUME PubIndInv, FlushInv,
           \/ QuietAttempt
           \/ \E t \in Timers : QuietTimer(t)
           \/ \E s \in Sockets : QuietSocket(s)
           \/ QuietApp
    PROVE  FlushInv'
<1> USE DEF FlushAhead, pubVars, flushVars, timerVars, socketVars, appVars
<1>1. CASE QuietAttempt
  <2>1. UNCHANGED pubVars /\ attempt.pc # "flushing" /\ (collected => FALSE)
    BY <1>1 DEF QuietAttempt, DoConnect, DialFails, DialAborted, AuthRejected,
       CompleteConnect, StartReadLoop, FinishConnect, FlushInv, FlushShape
  <2>2. state' = "connected" /\ ~FlushAhead' =>
            state = "connected" /\ ~FlushAhead /\ socket' = socket /\ open' \subseteq open
    <3> USE DEF PubIndInv, IndInv, TypeOK
    <3>1. CASE DoConnect \/ DialFails \/ DialAborted
      BY <3>1 DEF DoConnect, DialFails, DialAborted, AttemptOwnsSocket
    <3>2. CASE AuthRejected \/ FinishConnect
      BY <3>2 DEF AuthRejected, FinishConnect
    <3>3. CASE CompleteConnect
      BY <3>3 DEF CompleteConnect
    <3>4. CASE StartReadLoop
      BY <3>4, <2>1 DEF StartReadLoop
    <3>5. QED
      BY <1>1, <3>1, <3>2, <3>3, <3>4 DEF QuietAttempt
  <2>3. QED
    BY <2>1, <2>2, QuietFlush
<1>2. ASSUME NEW t \in Timers, QuietTimer(t) PROVE FlushInv'
  BY <1>2, QuietFlush, JoinAttemptType
  DEF QuietTimer, TimerFires, CallbackNext, CallbackStarts, CallbackConnects,
      CallbackRefused, PubIndInv, IndInv
<1>3. ASSUME NEW s \in Sockets, QuietSocket(s) PROVE FlushInv'
  BY <1>3, QuietFlush DEF QuietSocket, Drop, DeadlineFires
<1>4. CASE QuietApp
  BY <1>4, QuietFlush, JoinAttemptType
  DEF QuietApp, CloseBegins, CloseSocket, ConnectCalled, ConnectCancelled, PubIndInv,
      IndInv
<1>5. QED
  BY <1>1, <1>2, <1>3, <1>4

(* The end of a socket, or of a Close.  What it forgets of the ids it       *)
(* forgets on both sides, and the state is no longer connected.            *)
LEMMA EndFlush ==
    ASSUME PubIndInv, FlushInv,
           UNCHANGED <<call, sender, flushVars>>,
           attempt.pc = "flushing" => attempt'.pc = "flushing",
           \/ \E ws : HandleSocketClose(ws) /\ SocketClosed(ws)
           \/ FailOutstanding,
           state' = "connected" => /\ UNCHANGED <<socket, tableVars, state>>
                                   /\ open' \subseteq open
                                   /\ FlushAhead => FlushAhead'
    PROVE  FlushInv'
<1> USE DEF FlushInv, flushVars
<1>1. FlushShape'
  BY DEF FlushShape
<1>2. QueuedMapped'
  <2>1. CASE UNCHANGED tableVars
    BY <2>1 DEF QueuedMapped, tableVars
  <2>2. CASE FailOutstanding
    BY <2>2 DEF QueuedMapped, FailOutstanding
  <2>3. CASE /\ requestID' = [m \in Msgs |-> IF m \in outstanding THEN None
                                                                  ELSE requestID[m]]
             /\ UNCHANGED <<result, outstanding>>
    BY <2>3 DEF QueuedMapped, PubIndInv, PubTypeOK
  <2>4. QED
    BY <2>1, <2>2, <2>3 DEF SocketClosed
<1>3. FlushSends'
  BY DEF FlushSends, tableVars
<1>4. QueuedIsFlushed'
  BY DEF QueuedIsFlushed, InFlight, tableVars, FlushAhead
<1>5. QED
  BY <1>1, <1>2, <1>3, <1>4

LEMMA SocketFlush ==
    ASSUME PubIndInv, FlushInv,
           \/ HandshakeTorn
           \/ \E s \in Sockets : ReadLoopTorn(s) \/ DeadlineTorn(s)
           \/ \E k \in Closers : CloseSettles(k)
    PROVE  FlushInv'
<1>1. ASSUME NEW ws, HandleSocketClose(ws), SocketClosed(ws), state' = "connected"
      PROVE  UNCHANGED <<socket, tableVars, state>>
  BY <1>1 DEF HandleSocketClose, SocketClosed
<1>2. CASE HandshakeTorn
  <2>1. attempt.pc # "flushing" /\ state # "connected"
    BY <1>2 DEF HandshakeTorn, TeardownSocket, PubIndInv, IndInv, AttemptOwnsSocket
  <2>2. state' # "connected"
    BY <1>1, <1>2, <2>1 DEF HandshakeTorn, TeardownSocket
  <2>3. QED
    BY <1>2, <2>1, <2>2, EndFlush DEF HandshakeTorn, TeardownSocket
<1>3. ASSUME NEW s \in Sockets, ReadLoopTorn(s) \/ DeadlineTorn(s) PROVE FlushInv'
  <2>1. /\ UNCHANGED <<call, sender, flushVars, attempt, open>>
        /\ HandleSocketClose(s) /\ SocketClosed(s)
    BY <1>3 DEF ReadLoopTorn, DeadlineTorn, ReadLoopEnds, DeadlineCloses
  <2>2. FlushAhead => FlushAhead'
    BY <2>1 DEF FlushAhead, flushVars
  <2>3. QED
    BY <1>1, <2>1, <2>2, EndFlush
<1>4. ASSUME NEW k \in Closers, CloseSettles(k) PROVE FlushInv'
  BY <1>4, EndFlush DEF CloseSettles, CloseEnds
<1>5. QED
  BY <1>2, <1>3, <1>4

LEMMA HandshakeFlush ==
    ASSUME PubIndInv, FlushInv, HandshakeAborted \/ \E s \in Sockets : DialInstalls(s)
    PROVE  FlushInv'
<1>1. /\ UNCHANGED <<call, tableVars, sender, flushVars, state>>
      /\ attempt.pc # "flushing" /\ state # "connected"
  BY DEF HandshakeAborted, DialInstalls, CompleteAborted, DialSucceeds, PubIndInv, IndInv,
     AttemptOwnsSocket
<1>2. QED
  BY <1>1 DEF FlushInv, FlushShape, FlushSends, QueuedMapped, QueuedIsFlushed,
              tableVars, flushVars

LEMMA PublishFlush ==
    ASSUME PubIndInv, FlushInv, NEW m \in Msgs,
           PublishRefused(m) \/ PublishQueued(m) \/ PublishDirect(m) \/ KickConnects(m)
    PROVE  FlushInv'
<1> USE PublishingAssumption DEF PubIndInv, PubTypeOK, FlushInv, tableVars, flushVars, vars, Senders
<1>1. CASE PublishRefused(m)
  <2>1. m \notin outstanding
    BY <1>1 DEF PublishRefused, TableTracksWaiting
  <2>2. QED
    BY <1>1, <2>1 DEF PublishRefused, FlushShape, FlushSends, QueuedMapped, QueuedIsFlushed,
       InFlight, FlushAhead
<1>2. CASE PublishQueued(m)
  <2>1. state # "connected" /\ requestID[m] = None
    BY <1>2 DEF PublishQueued, QueuedMapped, Queueable
  <2>2. QED
    BY <1>2, <2>1 DEF PublishQueued, FlushShape, FlushSends, QueuedMapped, QueuedIsFlushed
<1>3. CASE PublishDirect(m)
  <2>1. Flush # m /\ sender'[Flush] = sender[Flush] /\ call'[m] = "direct"
    BY <1>3 DEF PublishDirect
  <2>2. FlushShape'
    BY <1>3, <2>1 DEF PublishDirect, FlushShape, IdleSender
  <2>3. FlushSends'
    <3>1. UNCHANGED <<state, socket, open, publishRequestIDs>>
      BY <1>3 DEF PublishDirect, socketVars
    <3>2. \A n \in outstanding' : call'[n] = "queued" =>
              n \in outstanding /\ call[n] = "queued"
      BY <1>3, <2>1 DEF PublishDirect
    <3>3. QED
      BY <2>1, <3>1, <3>2 DEF FlushSends
  <2>4. QueuedMapped'
    BY <1>3, <2>1 DEF PublishDirect, QueuedMapped
  <2>5. QueuedIsFlushed'
    <3>1. ASSUME NEW n, InFlight(n) PROVE InFlight(n)'
      <4>1. \A x \in Senders : sender[x].pc # "idle" => sender'[x] = sender[x] \/ x = m
        BY <1>3 DEF PublishDirect
      <4>2. sender[m].pc # "idle" => sender[m].msg = m
        BY DEF FlushShape
      <4>3. sender'[m].pc # "idle" /\ sender'[m].msg = m
        BY <1>3 DEF PublishDirect, IdleSender
      <4>4. QED
        BY <1>3, <3>1, <4>1, <4>2, <4>3 DEF PublishDirect, InFlight
    <3>2. FlushAhead' <=> FlushAhead
      BY <1>3 DEF PublishDirect, FlushAhead
    <3>3. \A n \in outstanding' : call'[n] = "queued" =>
              n \in outstanding /\ call[n] = "queued"
      BY <1>3, <2>1 DEF PublishDirect
    <3>4. UNCHANGED <<state, socket, open>>
      BY <1>3 DEF PublishDirect, socketVars
    <3>5. QED
      BY <3>1, <3>2, <3>3, <3>4 DEF QueuedIsFlushed
  <2>6. QED
    BY <2>2, <2>3, <2>4, <2>5
<1>4. CASE KickConnects(m)
  <2>1. UNCHANGED <<call, tableVars, sender, flushVars, state, socket, open>>
    BY <1>4 DEF KickConnects, InternalConnect, socketVars
  <2>2. \/ attempt' = attempt
        \/ attempt.pc = "none" /\ attempt'.pc = "spawned" /\ state # "connected"
    BY <1>4, JoinAttemptType DEF KickConnects, InternalConnect, IndInv
  <2>3. QED
    BY <2>1, <2>2 DEF FlushShape, FlushSends, QueuedMapped, QueuedIsFlushed, InFlight, FlushAhead
<1>5. QED
  BY <1>1, <1>2, <1>3, <1>4

LEMMA SendFlush ==
    ASSUME PubIndInv, FlushInv, NEW x \in Senders, SendNext(x)
    PROVE  FlushInv'
<1> USE PublishingAssumption
    DEF PubIndInv, PubTypeOK, FlushInv, tableVars, flushVars, netVars, Senders
<1>1. /\ UNCHANGED <<call, outstanding, flushVars, attempt, state, socket, open>>
      /\ FlushAhead' <=> FlushAhead
  BY DEF SendNext, SendAssigns, SendWrites, SendLost, SendFails, SendUndone, vars,
         FlushAhead, socketVars
<1>2. /\ sender[x].pc # "idle" /\ sender[x].msg \in Msgs
      /\ x # Flush => sender[x].msg = x /\ call[x] = "direct"
      /\ call[sender[x].msg] # "idle"
  BY DEF SendNext, SendAssigns, SendWrites, SendLost, SendFails, SendUndone,
         SendersRoute, FlushShape
<1>3. \A y \in Senders : y # x => sender'[y] = sender[y]
  BY DEF SendNext, SendAssigns, SendWrites, SendLost, SendFails, SendUndone
<1>4. sender'[x].pc = "idle" \/ sender'[x].msg = sender[x].msg
  <2>1. CASE SendAssigns(x)
    BY <2>1 DEF SendAssigns
  <2>2. CASE SendFails(x)
    BY <2>2 DEF SendFails
  <2>3. CASE SendWrites(x) \/ SendLost(x) \/ SendUndone(x)
    BY <2>3 DEF SendWrites, SendLost, SendUndone, IdleSender
  <2>4. QED
    BY <2>1, <2>2, <2>3 DEF SendNext
<1>5. FlushShape'
  BY <1>1, <1>2, <1>3, <1>4 DEF FlushShape
<1>6. CASE SendAssigns(x)
  <2> PICK i \in RequestIds :
         /\ FreshId(i)
         /\ requestID' = [requestID EXCEPT ![sender[x].msg] = i]
         /\ publishRequestIDs' = [publishRequestIDs EXCEPT ![i] = sender[x].msg]
         /\ sender' = [sender EXCEPT ![x] = [pc |-> "write", msg |-> sender[x].msg,
                                             id |-> i, ws |-> socket]]
    BY <1>6 DEF SendAssigns
  <2>1. publishRequestIDs[i] = None /\ \A m \in outstanding : requestID[m] # i
    BY DEF FreshId
  <2>2. QueuedMapped'
    BY <1>1, <1>2, <2>1 DEF QueuedMapped
  <2>3. FlushSends'
    <3>1. CASE x = Flush
      BY <3>1, <1>1, <1>2, <2>1 DEF FlushSends
    <3>2. CASE x # Flush
      <4>1. sender[Flush].pc \in {"write", "failed"} => sender[Flush].id # i
        BY DEF FreshId
      <4>2. QED
        BY <3>2, <4>1, <1>1, <1>3, <2>1 DEF FlushSends, SendersRoute
    <3>3. QED
      BY <3>1, <3>2
  <2>4. \A n \in Msgs : InFlight(n) => InFlight(n)'
    BY <1>1, <1>2, <1>3, <2>1 DEF InFlight
  <2>5. QED
    BY <1>1, <1>5, <2>2, <2>3, <2>4 DEF QueuedIsFlushed
<1>7. CASE SendWrites(x) \/ SendLost(x)
  <2>1. UNCHANGED <<requestID, publishRequestIDs>> /\ sender[x].pc = "write"
        /\ sender'[x].pc = "idle"
    BY <1>7 DEF SendWrites, SendLost, IdleSender
  <2>2. QueuedMapped' /\ FlushSends'
    BY <1>1, <1>3, <2>1 DEF QueuedMapped, FlushSends
  <2>3. ASSUME state = "connected", NEW n \in outstanding, call[n] = "queued", InFlight(n)
        PROVE  InFlight(n)'
    <3>1. CASE x = Flush /\ sender[x].msg = n
      BY <3>1, <2>1, <2>3 DEF FlushSends, InFlight, SendersRoute
    <3>2. CASE sender[x].msg # n
      BY <3>2, <1>1, <1>3, <2>1, <2>3 DEF InFlight
    <3>3. QED
      BY <3>1, <3>2, <1>2, <2>3
  <2>4. QED
    BY <1>1, <1>5, <2>2, <2>3 DEF QueuedIsFlushed
<1>8. CASE SendFails(x)
  <2>1. /\ UNCHANGED <<requestID, publishRequestIDs>>
        /\ sender[x].pc = "write" /\ sender[x].ws \notin open
        /\ sender'[x].pc = "failed" /\ sender'[x].msg = sender[x].msg
    BY <1>8 DEF SendFails
  <2>2. QueuedMapped' /\ FlushSends'
    BY <1>1, <1>3, <2>1 DEF QueuedMapped, FlushSends
  <2>3. \A n \in Msgs : InFlight(n) => InFlight(n)'
    BY <1>1, <1>3, <2>1 DEF InFlight
  <2>4. QED
    BY <1>1, <1>5, <2>2, <2>3 DEF QueuedIsFlushed
<1>9. CASE SendUndone(x)
  <2>1. /\ sender[x].pc = "failed"
        /\ publishRequestIDs' = [publishRequestIDs EXCEPT ![sender[x].id] = None]
        /\ requestID' = [requestID EXCEPT ![sender[x].msg] =
                             IF sender[x].msg \in outstanding THEN None ELSE @]
        /\ sender'[x].pc = "idle"
    BY <1>9 DEF SendUndone, IdleSender
  <2>2. sender[x].id \in RequestIds
        /\ publishRequestIDs[sender[x].id] \in {None, sender[x].msg}
    BY <2>1 DEF SendersRoute, Routes
  <2>3. QueuedMapped'
    <3>1. \A m \in outstanding : m # sender[x].msg =>
             requestID'[m] = requestID[m]
             /\ \A i \in RequestIds : publishRequestIDs[i] = m => publishRequestIDs'[i] = m
      BY <2>1, <2>2
    <3>2. QED
      BY <1>1, <1>2, <2>1, <3>1 DEF QueuedMapped
  <2>4. CASE x = Flush
    <3>1. state = "connected" => socket \notin open
      BY <2>1, <2>4 DEF FlushSends
    <3>2. FlushSends'
      BY <2>1, <2>4, <1>1 DEF FlushSends
    <3>3. QED
      BY <3>1, <3>2, <1>1, <1>5, <2>3 DEF QueuedIsFlushed
  <2>5. CASE x # Flush
    <3>1. \A n \in Msgs : call[n] = "queued" =>
             \A i \in RequestIds : publishRequestIDs[i] = n => publishRequestIDs'[i] = n
      BY <1>2, <2>1, <2>2, <2>5
    <3>2. FlushSends'
      BY <1>1, <1>3, <2>5, <3>1 DEF FlushSends, SendersRoute
    <3>3. \A n \in Msgs : call[n] = "queued" /\ InFlight(n) => InFlight(n)'
      BY <1>1, <1>2, <1>3, <2>5, <3>1 DEF InFlight
    <3>4. QED
      BY <1>1, <1>5, <2>3, <3>2, <3>3 DEF QueuedIsFlushed
  <2>6. QED
    BY <2>4, <2>5
<1>10. QED
  BY <1>6, <1>7, <1>8, <1>9 DEF SendNext

LEMMA FlushFlush ==
    ASSUME PubIndInv, FlushInv, \/ FlushCollects
                                \/ \E m \in Msgs : FlushNext(m)
                                \/ FlushDone
    PROVE  FlushInv'
<1> USE PublishingAssumption
    DEF PubIndInv, PubTypeOK, FlushInv, tableVars, flushVars, netVars, Senders
<1>1. UNCHANGED <<call, tableVars, state, socket, open>>
  BY DEF FlushCollects, FlushNext, FlushDone, Flushed, vars, socketVars
<1>2. QueuedMapped'
  BY <1>1 DEF QueuedMapped
<1>3. CASE FlushCollects
  <2>1. /\ attempt.pc = "flushing" /\ UNCHANGED <<attempt, sender>> /\ collected'
        /\ todo' = {m \in outstanding : requestID[m] = None}
        /\ sender[Flush].pc = "idle"
    BY <1>3 DEF FlushCollects, FlushShape, vars
  <2>2. FlushShape' /\ FlushSends'
    BY <1>1, <2>1 DEF FlushShape, FlushSends
  <2>3. \A n \in outstanding : call[n] = "queued" => InFlight(n)'
    BY <1>1, <2>1 DEF QueuedMapped, InFlight
  <2>4. QED
    BY <1>1, <1>2, <2>2, <2>3 DEF QueuedIsFlushed
<1>4. ASSUME NEW m \in Msgs, FlushNext(m) PROVE FlushInv'
  <2>1. /\ UNCHANGED <<attempt, collected>> /\ collected
        /\ m \in todo /\ todo' = todo \ {m}
        /\ sender[Flush].pc = "idle"
        /\ sender'[Flush].pc = "lock" /\ sender'[Flush].msg = m
        /\ \A y \in Senders : y # Flush => sender'[y] = sender[y]
    BY <1>4 DEF FlushNext, FlushShape, vars, IdleSender
  <2>2. FlushShape' /\ FlushSends'
    BY <1>1, <2>1 DEF FlushShape, FlushSends
  <2>3. \A n \in Msgs : InFlight(n) => InFlight(n)'
    BY <1>1, <2>1 DEF InFlight
  <2>4. QED
    BY <1>1, <1>2, <2>1, <2>2, <2>3 DEF QueuedIsFlushed, FlushAhead
<1>5. CASE FlushDone
  <2>1. /\ attempt.pc = "flushing" /\ attempt'.pc = "done" /\ UNCHANGED <<todo, sender>>
        /\ collected /\ todo = {} /\ sender[Flush].pc = "idle" /\ ~collected'
    BY <1>5 DEF FlushDone, Flushed, Done
  <2>2. FlushShape' /\ FlushSends'
    BY <1>1, <2>1 DEF FlushShape, FlushSends
  <2>3. \A n \in Msgs : InFlight(n) => InFlight(n)'
    BY <1>1, <2>1 DEF InFlight
  <2>4. QED
    BY <1>1, <1>2, <2>1, <2>2, <2>3 DEF QueuedIsFlushed, FlushAhead
<1>6. QED
  BY <1>3, <1>4, <1>5

LEMMA NetFlush ==
    ASSUME PubIndInv, FlushInv, \/ \E f \in toServer : ServerAnswers(f)
                                \/ \E f \in toClient : HandleAnswer(f)
    PROVE  FlushInv'
<1> USE DEF PubIndInv, PubTypeOK, FlushInv, tableVars, flushVars
<1>1. UNCHANGED <<call, requestID, sender, flushVars, attempt, state, socket, open>>
  BY DEF ServerAnswers, HandleAnswer, SettlePublish, vars, socketVars
<1>2. /\ outstanding' \subseteq outstanding
      /\ \A n \in outstanding' : \A i \in RequestIds :
            publishRequestIDs[i] = n => publishRequestIDs'[i] = n
  <2>1. ASSUME NEW f \in toClient, HandleAnswer(f) PROVE <1>2!1 /\ <1>2!2
    BY <2>1 DEF HandleAnswer, SettlePublish, AnswerFrame
  <2>2. QED
    BY <2>1 DEF ServerAnswers
<1>3. FlushShape'
  BY <1>1 DEF FlushShape
<1>4. QueuedMapped'
  BY <1>1, <1>2 DEF QueuedMapped
<1>5. FlushSends'
  <2>1. Flush \in Senders
    BY DEF Senders
  <2>2. sender[Flush].pc = "write" => sender[Flush].id \in RequestIds
    BY <2>1 DEF SendersRoute
  <2>3. QED
    BY <1>1, <1>2, <2>2 DEF FlushSends
<1>6. \A n \in outstanding' : InFlight(n) => InFlight(n)'
  BY <1>1, <1>2 DEF InFlight
<1>7. QED
  BY <1>1, <1>2, <1>3, <1>4, <1>5, <1>6 DEF QueuedIsFlushed, FlushAhead

LEMMA FlushInvStep == PubIndInv /\ FlushInv /\ [PubNext]_allVars => FlushInv'
<1> SUFFICES ASSUME PubIndInv, FlushInv, [PubNext]_allVars PROVE FlushInv'
  OBVIOUS
<1>1. CASE UNCHANGED allVars
  BY <1>1, QuietFlush DEF allVars, vars, pubVars, flushVars, FlushAhead, socketVars
<1>2. CASE PubNext
  BY <1>2, LifecycleFlush, SocketFlush, HandshakeFlush, PublishFlush, SendFlush,
     FlushFlush, NetFlush DEF PubNext, PubAttemptNext
<1>3. QED
  BY <1>1, <1>2

(* A queued publish is never forgotten by the flush: while the connection  *)
(* works, it is in flight or the flush is still to come (publish,          *)
(* flushOutstandingPublishes).                                             *)
THEOREM QueuedAlwaysFlushed == PubSpec => []QueuedIsFlushed
<1>1. Init /\ PubInit => FlushInv
  BY FlushInvInit
<1>2. PubIndInv /\ FlushInv /\ [PubNext]_allVars => FlushInv'
  BY FlushInvStep
<1>3. FlushInv => QueuedIsFlushed
  BY DEF FlushInv
<1>4. QED
  BY <1>1, <1>2, <1>3, PubInvariant, PTL DEF PubSpec
=============================================================================
