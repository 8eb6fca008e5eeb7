------------------------------ MODULE Connection ------------------------------
(***************************************************************************)
(* The lifecycle of one client Connection (src/connection.go): the state   *)
(* machine, the connect attempt shared by every Connect caller, the        *)
(* reconnect timer and its callbacks, the sockets with their read loops    *)
(* and keep-alive deadlines, and Close.                                    *)
(*                                                                         *)
(* One action is one critical section of c.mu together with the local work *)
(* around it.  Sockets, timers and goroutines are slots of finite sets     *)
(* that are used again once nothing refers to them, so behaviours are      *)
(* unbounded while the state space is finite.  Frames are not modelled     *)
(* here: Publishing adds the publishes and their frames to these actions.  *)
(***************************************************************************)
EXTENDS Naturals, FiniteSets

CONSTANTS
    Sockets,          \* slots for *websocket.Conn values
    Timers,           \* slots for reconnect timers and their callbacks
    Callers,          \* goroutines of the application that call Connect
    Closers,          \* goroutines of the application that call Close
    None,             \* the nil pointer
    AutoReconnect,    \* ~Options.DisableAutoReconnect
    StaticCredential, \* Options.AuthCallback = nil: a Token or a Key
    UseAfterClose,    \* the application calls Connect after it called Close
    InternalConnects  \* the SDK's own goroutines call Connect, ignoring the result

ASSUME ConnectionAssumption ==
    /\ None \notin Sockets \cup Timers
    /\ {AutoReconnect, StaticCredential, UseAfterClose, InternalConnects}
          \subseteq BOOLEAN

VARIABLES
    state,          \* c.state
    socket,         \* c.socket
    fatalErr,       \* c.fatalErr # nil
    reconnectTimer, \* c.reconnectTimer
    timer,          \* phase of each timer and of the callback it started
    attempt,        \* c.connecting and the runConnect goroutine that serves it
    open,           \* the sockets that neither side has closed
    readLoop,       \* the sockets whose readLoop goroutine runs
    dying,          \* the sockets whose keep-alive deadline callback runs
    closer,         \* progress of each Close call
    caller          \* progress of each Connect call

timerVars  == <<reconnectTimer, timer>>
socketVars == <<open, readLoop, dying>>
appVars    == <<closer, caller>>
vars == <<state, socket, fatalErr, timerVars, attempt, socketVars, appVars>>

ConnectionStates == {"initialized", "connecting", "connected", "disconnected",
                     "closing", "closed", "failed"}
ClosedStates == {"closing", "closed"}

(* Phases of an attempt.  spawned: c.connecting is set, the goroutine has  *)
(* not run; dial: auth frame and dial; handshake: c.socket installed, auth *)
(* answer awaited; fatal: fatalErr just set, teardown next; installed:     *)
(* connected, no read loop yet; flushing: restore and flush; done: the     *)
(* result is known but c.connecting is still set.                          *)
AttemptPhases == {"none", "spawned", "dial", "handshake", "fatal",
                  "installed", "flushing", "done"}

(* Phases of a timer slot.  armed: not fired; fired: the callback waits    *)
(* for c.mu; calling: it is about to call Connect; waiting: it waits for   *)
(* the attempt; refused: Connect returned an error to it.                  *)
TimerPhases == {"idle", "armed", "fired", "calling", "waiting", "refused"}

TypeOK ==
    /\ state \in ConnectionStates
    /\ socket \in Sockets \cup {None}
    /\ fatalErr \in BOOLEAN
    /\ reconnectTimer \in Timers \cup {None}
    /\ timer \in [Timers -> TimerPhases]
    /\ attempt \in [pc : AttemptPhases, ws : Sockets \cup {None}, err : BOOLEAN]
    /\ open \subseteq Sockets
    /\ readLoop \subseteq Sockets
    /\ dying \subseteq Sockets
    /\ closer \in [Closers -> [pc : {"idle", "begun", "shut", "returned"},
                               ws : Sockets \cup {None}]]
    /\ caller \in [Callers -> {"idle", "waiting", "ok", "err"}]

NoAttempt == [pc |-> "none", ws |-> None, err |-> FALSE]
Done(err) == [pc |-> "done", ws |-> None, err |-> err]

Init ==
    /\ state = "initialized"
    /\ socket = None
    /\ fatalErr = FALSE
    /\ reconnectTimer = None
    /\ timer = [t \in Timers |-> "idle"]
    /\ attempt = NoAttempt
    /\ open = {}
    /\ readLoop = {}
    /\ dying = {}
    /\ closer = [k \in Closers |-> [pc |-> "idle", ws |-> None]]
    /\ caller = [a \in Callers |-> "idle"]

-----------------------------------------------------------------------------
(* Shared pieces of the handlers. *)

(* Mutant: a timer is armed although one is pending. *)
ScheduleReconnectTwice(base) ==
    \E t \in Timers :
        /\ base[t] = "idle"
        /\ timer' = [base EXCEPT ![t] = "armed"]
        /\ reconnectTimer' = t

(* scheduleReconnectLocked: nothing to do while a timer is referenced.     *)
(* base is the timer function the surrounding step leaves.  The delay is   *)
(* abstracted: an armed timer may fire at any moment.                      *)
ScheduleReconnect(base) ==
    \/ /\ reconnectTimer # None
       /\ timer' = base
       /\ UNCHANGED reconnectTimer
    \/ /\ reconnectTimer = None
       /\ \E t \in Timers :
             /\ base[t] = "idle"
             /\ timer' = [base EXCEPT ![t] = "armed"]
             /\ reconnectTimer' = t

RetryIfEnabled ==
    IF AutoReconnect THEN ScheduleReconnect(timer) ELSE UNCHANGED timerVars

(* What handleSocketClose(ws) finds. *)
CloseKind(ws) ==
    CASE socket # ws                                          -> "stale"
      [] socket = ws /\ state \in ClosedStates                -> "closed"
      [] socket = ws /\ state \notin ClosedStates /\ fatalErr -> "fatal"
      [] OTHER                                                -> "dropped"

(* Mutant: the terminal teardown does not clear the error. *)
HandleSocketCloseKeepsFatal(ws) ==
    \/ /\ CloseKind(ws) = "stale"
       /\ UNCHANGED <<state, socket, fatalErr, timerVars>>
    \/ /\ CloseKind(ws) = "closed"
       /\ socket' = None
       /\ state' = "closed"
       /\ UNCHANGED <<fatalErr, timerVars>>
    \/ /\ CloseKind(ws) = "fatal"
       /\ socket' = None
       /\ state' = "failed"
       /\ UNCHANGED <<fatalErr, timerVars>>
    \/ /\ CloseKind(ws) = "dropped"
       /\ socket' = None
       /\ state' = "disconnected"
       /\ RetryIfEnabled
       /\ UNCHANGED fatalErr

(* handleSocketClose: the teardown of one socket, ignored when stale. *)
HandleSocketClose(ws) ==
    \/ /\ CloseKind(ws) = "stale"
       /\ UNCHANGED <<state, socket, fatalErr, timerVars>>
    \/ /\ CloseKind(ws) = "closed"
       /\ socket' = None
       /\ state' = "closed"
       /\ UNCHANGED <<fatalErr, timerVars>>
    \/ /\ CloseKind(ws) = "fatal"
       /\ socket' = None
       /\ fatalErr' = FALSE
       /\ state' = "failed"
       /\ UNCHANGED timerVars
    \/ /\ CloseKind(ws) = "dropped"
       /\ socket' = None
       /\ state' = "disconnected"
       /\ RetryIfEnabled
       /\ UNCHANGED fatalErr

(* The locked part of Connect when it does not return at once: join the    *)
(* attempt in flight, or start one.                                        *)
JoinAttempt ==
    attempt' = IF attempt.pc = "none" THEN [NoAttempt EXCEPT !.pc = "spawned"]
                                      ELSE attempt

(* A slot no goroutine and no field refers to. *)
FreeSocket(s) ==
    /\ s \notin open \cup readLoop \cup dying
    /\ socket # s
    /\ attempt.ws # s
    /\ \A k \in Closers : closer[k].ws # s

-----------------------------------------------------------------------------
(* The connect attempt: runConnect, doConnect, finishHandshake,            *)
(* completeConnect.                                                        *)

DoConnect ==
    /\ attempt.pc = "spawned"
    /\ state' = "connecting"
    /\ attempt' = [attempt EXCEPT !.pc = "dial"]
    /\ UNCHANGED <<socket, fatalErr, timerVars, socketVars, appVars>>

(* Mutant: a failed dial leaves the state to a read loop there is none of. *)
DialFailsSilently ==
    /\ attempt.pc = "dial"
    /\ attempt' = Done(TRUE)
    /\ UNCHANGED <<state, socket, fatalErr, timerVars, socketVars, appVars>>

(* AuthCallback, the dial or handshakeTimeout failed: no read loop exists, *)
(* so the attempt drives the state machine itself.                         *)
DialFails ==
    /\ attempt.pc = "dial"
    /\ \/ state = "connecting" /\ state' = "disconnected" /\ RetryIfEnabled
       \/ state # "connecting" /\ UNCHANGED <<state, timerVars>>
    /\ attempt' = Done(TRUE)
    /\ UNCHANGED <<socket, fatalErr, socketVars, appVars>>

(* The dial succeeded but Close ran meanwhile: drop the new socket. *)
DialAborted ==
    /\ attempt.pc = "dial"
    /\ state \in ClosedStates
    /\ attempt' = Done(TRUE)
    /\ UNCHANGED <<state, socket, fatalErr, timerVars, socketVars, appVars>>

DialSucceeds(s) ==
    /\ attempt.pc = "dial"
    /\ state \notin ClosedStates
    /\ FreeSocket(s)
    /\ socket' = s
    /\ open' = open \cup {s}
    /\ attempt' = [attempt EXCEPT !.pc = "handshake", !.ws = s]
    /\ UNCHANGED <<state, fatalErr, timerVars, readLoop, dying, appVars>>

(* The server rejected a credential that cannot be minted again. *)
AuthRejected ==
    /\ attempt.pc = "handshake"
    /\ StaticCredential
    /\ fatalErr' = TRUE
    /\ attempt' = [attempt EXCEPT !.pc = "fatal"]
    /\ UNCHANGED <<state, socket, timerVars, socketVars, appVars>>

(* teardownSocket, for every way the handshake can fail. *)
TeardownSocket ==
    /\ attempt.pc \in {"handshake", "fatal"}
    /\ HandleSocketClose(attempt.ws)
    /\ open' = open \ {attempt.ws}
    /\ attempt' = Done(TRUE)
    /\ UNCHANGED <<readLoop, dying, appVars>>

(* The server accepted, but Close ran while the handshake was in flight. *)
CompleteAborted ==
    /\ attempt.pc = "handshake"
    /\ state \in ClosedStates
    /\ open' = open \ {attempt.ws}
    /\ attempt' = Done(TRUE)
    /\ UNCHANGED <<state, socket, fatalErr, timerVars, readLoop, dying, appVars>>

(* Mutant: completeConnect does not look for a Close. *)
CompleteUnguarded ==
    /\ attempt.pc = "handshake"
    /\ state' = "connected"
    /\ attempt' = [attempt EXCEPT !.pc = "installed"]
    /\ UNCHANGED <<socket, fatalErr, timerVars, socketVars, appVars>>

CompleteConnect ==
    /\ attempt.pc = "handshake"
    /\ state \notin ClosedStates
    /\ state' = "connected"
    /\ attempt' = [attempt EXCEPT !.pc = "installed"]
    /\ UNCHANGED <<socket, fatalErr, timerVars, socketVars, appVars>>

(* Mutant: no read loop is started while an earlier one still runs. *)
StartReadLoopOnce ==
    /\ attempt.pc = "installed"
    /\ readLoop' = IF readLoop = {} THEN {attempt.ws} ELSE readLoop
    /\ attempt' = [attempt EXCEPT !.pc = "flushing", !.ws = None]
    /\ UNCHANGED <<state, socket, fatalErr, timerVars, open, dying, appVars>>

StartReadLoop ==
    /\ attempt.pc = "installed"
    /\ readLoop' = readLoop \cup {attempt.ws}
    /\ attempt' = [attempt EXCEPT !.pc = "flushing", !.ws = None]
    /\ UNCHANGED <<state, socket, fatalErr, timerVars, open, dying, appVars>>

(* restoreSubscriptionsOnReconnect and flushOutstandingPublishes return. *)
Flushed ==
    /\ attempt.pc = "flushing"
    /\ attempt' = Done(FALSE)
    /\ UNCHANGED <<state, socket, fatalErr, timerVars, socketVars, appVars>>

(* Mutant: a failed attempt does not release its waiters. *)
FinishWithoutRelease ==
    /\ attempt.pc = "done"
    /\ attempt' = NoAttempt
    /\ IF attempt.err
         THEN UNCHANGED <<caller, timer>>
         ELSE /\ caller' = [a \in Callers |-> IF caller[a] = "waiting" THEN "ok"
                                                                     ELSE caller[a]]
              /\ timer' = [t \in Timers |-> IF timer[t] = "waiting" THEN "idle"
                                                                   ELSE timer[t]]
    /\ UNCHANGED <<state, socket, fatalErr, reconnectTimer, socketVars, closer>>

(* runConnect clears c.connecting and closes attempt.done. *)
FinishConnect ==
    /\ attempt.pc = "done"
    /\ attempt' = NoAttempt
    /\ caller' = [a \in Callers |->
                    IF caller[a] = "waiting"
                      THEN IF attempt.err THEN "err" ELSE "ok"
                      ELSE caller[a]]
    /\ timer' = [t \in Timers |->
                    IF timer[t] = "waiting"
                      THEN IF attempt.err THEN "refused" ELSE "idle"
                      ELSE timer[t]]
    /\ UNCHANGED <<state, socket, fatalErr, reconnectTimer, socketVars, closer>>

-----------------------------------------------------------------------------
(* The reconnect timer and its callback. *)

TimerFires(t) ==
    /\ timer[t] = "armed"
    /\ timer' = [timer EXCEPT ![t] = "fired"]
    /\ UNCHANGED <<state, socket, fatalErr, reconnectTimer, attempt, socketVars,
                   appVars>>

CallbackStarts(t) ==
    /\ timer[t] = "fired"
    /\ reconnectTimer' = None
    /\ timer' = [timer EXCEPT ![t] = "calling"]
    /\ UNCHANGED <<state, socket, fatalErr, attempt, socketVars, appVars>>

CallbackConnects(t) ==
    /\ timer[t] = "calling"
    /\ \/ /\ state = "connected"
          /\ timer' = [timer EXCEPT ![t] = "idle"]
          /\ UNCHANGED attempt
       \/ /\ state # "connected"
          /\ timer' = [timer EXCEPT ![t] = "waiting"]
          /\ JoinAttempt
    /\ UNCHANGED <<state, socket, fatalErr, reconnectTimer, socketVars, appVars>>

CallbackRefused(t) ==
    /\ timer[t] = "refused"
    /\ IF state \notin ClosedStates \cup {"failed"}
         THEN ScheduleReconnect([timer EXCEPT ![t] = "idle"])
         ELSE timer' = [timer EXCEPT ![t] = "idle"] /\ UNCHANGED reconnectTimer
    /\ UNCHANGED <<state, socket, fatalErr, attempt, socketVars, appVars>>

-----------------------------------------------------------------------------
(* The sockets: the network, the read loop, the keep-alive deadline. *)

Drop(s) ==
    /\ s \in open
    /\ open' = open \ {s}
    /\ UNCHANGED <<state, socket, fatalErr, timerVars, attempt, readLoop, dying,
                   appVars>>

(* Mutant: the read loop returns on an error without handling the close. *)
ReadLoopReturns(s) ==
    /\ s \in readLoop
    /\ s \notin open
    /\ readLoop' = readLoop \ {s}
    /\ UNCHANGED <<state, socket, fatalErr, timerVars, attempt, open, dying, appVars>>

ReadLoopEnds(s) ==
    /\ s \in readLoop
    /\ s \notin open
    /\ HandleSocketClose(s)
    /\ readLoop' = readLoop \ {s}
    /\ UNCHANGED <<attempt, open, dying, appVars>>

(* Mutant: the deadline tears the connection down without ws.Close. *)
DeadlineLeavesOpen(s) ==
    /\ state = "connected"
    /\ socket = s
    /\ s \notin dying
    /\ dying' = dying \cup {s}
    /\ UNCHANGED <<state, socket, fatalErr, timerVars, attempt, open, readLoop,
                   appVars>>

(* armPongDeadline's callback: the check, then ws.Close. *)
DeadlineFires(s) ==
    /\ state = "connected"
    /\ socket = s
    /\ s \notin dying
    /\ dying' = dying \cup {s}
    /\ open' = open \ {s}
    /\ UNCHANGED <<state, socket, fatalErr, timerVars, attempt, readLoop, appVars>>

DeadlineCloses(s) ==
    /\ s \in dying
    /\ HandleSocketClose(s)
    /\ dying' = dying \ {s}
    /\ UNCHANGED <<attempt, open, readLoop, appVars>>

-----------------------------------------------------------------------------
(* The application: Close and Connect. *)

CloseBegins(k) ==
    /\ \/ closer[k].pc = "idle"
       \/ closer[k].pc = "returned" /\ UseAfterClose
    /\ timer' = [t \in Timers |->
                   IF t = reconnectTimer /\ timer[t] = "armed" THEN "idle"
                                                               ELSE timer[t]]
    /\ reconnectTimer' = None
    /\ state' = "closing"
    /\ closer' = [closer EXCEPT ![k] = [pc |-> "begun", ws |-> socket]]
    /\ UNCHANGED <<socket, fatalErr, attempt, socketVars, caller>>

CloseSocket(k) ==
    /\ closer[k].pc = "begun"
    /\ open' = open \ {closer[k].ws}
    /\ closer' = [closer EXCEPT ![k] = [pc |-> "shut", ws |-> None]]
    /\ UNCHANGED <<state, socket, fatalErr, timerVars, attempt, readLoop, dying,
                   caller>>

CloseEnds(k) ==
    /\ closer[k].pc = "shut"
    /\ state' = "closed"
    /\ closer' = [closer EXCEPT ![k].pc = "returned"]
    /\ UNCHANGED <<socket, fatalErr, timerVars, attempt, socketVars, caller>>

ConnectCalled(a) ==
    /\ caller[a] # "waiting"
    /\ UseAfterClose \/ \A k \in Closers : closer[k].pc = "idle"
    /\ \/ /\ state = "connected"
          /\ caller' = [caller EXCEPT ![a] = "ok"]
          /\ UNCHANGED attempt
       \/ /\ state # "connected"
          /\ caller' = [caller EXCEPT ![a] = "waiting"]
          /\ JoinAttempt
    /\ UNCHANGED <<state, socket, fatalErr, timerVars, socketVars, closer>>

(* The caller's context ends: it stops waiting, the attempt goes on. *)
ConnectCancelled(a) ==
    /\ caller[a] = "waiting"
    /\ caller' = [caller EXCEPT ![a] = "err"]
    /\ UNCHANGED <<state, socket, fatalErr, timerVars, attempt, socketVars, closer>>

(* Connect from a goroutine of the SDK that drops the result: the "kick" of *)
(* a queued publish, the requests of the channels.                         *)
InternalConnect ==
    /\ InternalConnects
    /\ state # "connected"
    /\ JoinAttempt
    /\ UNCHANGED <<state, socket, fatalErr, timerVars, socketVars, appVars>>

-----------------------------------------------------------------------------
AttemptNext ==
    \/ DoConnect
    \/ DialFails
    \/ DialAborted
    \/ \E s \in Sockets : DialSucceeds(s)
    \/ AuthRejected
    \/ TeardownSocket
    \/ CompleteAborted
    \/ CompleteConnect
    \/ StartReadLoop
    \/ Flushed
    \/ FinishConnect

CallbackNext(t) == CallbackStarts(t) \/ CallbackConnects(t) \/ CallbackRefused(t)

CloseNext(k) == CloseSocket(k) \/ CloseEnds(k)

Next ==
    \/ AttemptNext
    \/ \E t \in Timers : TimerFires(t) \/ CallbackNext(t)
    \/ \E s \in Sockets :
          \/ Drop(s)
          \/ ReadLoopEnds(s)
          \/ DeadlineFires(s)
          \/ DeadlineCloses(s)
    \/ \E k \in Closers : CloseBegins(k) \/ CloseNext(k)
    \/ \E a \in Callers : ConnectCalled(a) \/ ConnectCancelled(a)
    \/ InternalConnect

Spec == Init /\ [][Next]_vars

(* What the runtime schedules: the attempt (handshakeTimeout ends a dial or *)
(* a handshake that never answers), the timers and their callbacks, the     *)
(* read loops, the deadline callbacks and a Close that has begun.  Nothing  *)
(* is assumed of the network or of the application.                         *)
Fairness ==
    /\ WF_vars(AttemptNext)
    /\ \A t \in Timers : /\ WF_vars(TimerFires(t))
                         /\ WF_vars(CallbackNext(t))
    /\ \A s \in Sockets : /\ WF_vars(ReadLoopEnds(s))
                          /\ WF_vars(DeadlineCloses(s))
    /\ \A k \in Closers : WF_vars(CloseNext(k))

FairSpec == Spec /\ Fairness

-----------------------------------------------------------------------------
(* Properties. *)

(* A connected state always has somebody who will notice the socket's end: *)
(* its read loop runs, or the attempt that installed it is about to start  *)
(* it (connection.go:762-790).  Losing this loses the drop: the client     *)
(* would stay connected on a dead socket for ever.                         *)
ConnectedIsWatched ==
    state = "connected" =>
        \/ socket \in readLoop
        \/ attempt.pc = "installed" /\ attempt.ws = socket

(* State connecting never outlives the work behind it ("would wedge the    *)
(* state at connecting with nothing in flight", connection.go:686-688).    *)
ConnectingHasAttempt ==
    state = "connecting" => attempt.pc \in {"dial", "handshake", "fatal"}

(* The attempt and the socket agree: the socket whose handshake is awaited *)
(* is c.socket and has neither a read loop nor a deadline callback yet, so *)
(* its end is handled exactly once; and the connection is not connected    *)
(* before the attempt has completed (connection.go:668-790).               *)
AttemptOwnsSocket ==
    /\ attempt.pc \in {"handshake", "fatal", "installed"} =>
          attempt.ws \in Sockets \ readLoop
    /\ attempt.pc \in {"handshake", "fatal"} =>
          attempt.ws = socket /\ attempt.ws \notin dying
    /\ attempt.pc = "installed" /\ state = "connected" => attempt.ws = socket
    /\ attempt.pc \in {"spawned", "dial", "handshake", "fatal"} =>
          state # "connected"

(* No step takes a closing or closed connection to any live state except   *)
(* the first step of a new attempt: an attempt, a timer or a socket close  *)
(* that was under way when Close ran leaves it closed (connection.go:701,  *)
(* 764, 956).                                                              *)
NoResurrection ==
    [][(state \in ClosedStates /\ state' \notin ClosedStates) =>
          (attempt.pc = "spawned" /\ state' = "connecting")]_vars

(* Close has never been called.  Three promises hold only so far; the      *)
(* README says what a Close that overlaps other calls does to them.        *)
NeverClosed == \A k \in Closers : closer[k].pc = "idle"

(* Only the socket c.socket refers to delivers frames: every other read    *)
(* loop is on a closed socket, so no frame of an earlier connection        *)
(* arrives among those of a later one (connection.go:707, 944-950).        *)
OneLiveSocket == NeverClosed => readLoop \cap open \subseteq {socket}

(* Every armed reconnect timer is the one c.reconnectTimer refers to, so   *)
(* that Close can stop it and no second retry runs beside it               *)
(* (connection.go:212, 359-362, 994-996).                                  *)
ArmedIsReferenced ==
    NeverClosed => \A t \in Timers : timer[t] = "armed" => reconnectTimer = t

(* State failed is entered only by the attempt whose credential was just   *)
(* rejected, never by a network drop that finds an old fatalErr            *)
(* (connection.go:218-221, 746-751, 962-969).                              *)
FailedOnlyOnRejection ==
    [][NeverClosed /\ state # "failed" /\ state' = "failed" =>
          attempt.pc = "fatal"]_vars

(* A connection whose socket has died eventually leaves state connected. *)
DropIsNoticed ==
    (state = "connected" /\ socket \notin open) ~> (state # "connected")

(* Every Connect call returns: the attempt it waits for always ends and    *)
(* always releases its waiters, whatever the network and Close do.         *)
ConnectReturns ==
    \A a \in Callers : (caller[a] = "waiting") ~> (caller[a] # "waiting")

=============================================================================
