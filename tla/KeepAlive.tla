------------------------------ MODULE KeepAlive -------------------------------
(***************************************************************************)
(* The keep-alive of a Connection (src/connection.go:1088-1177): one       *)
(* pinger goroutine per socket, one deadline timer that pings arm and any  *)
(* inbound message disarms, and the teardown of a link that stays silent.  *)
(*                                                                         *)
(* A timer that fired runs its callback in a goroutine that Stop no longer *)
(* reaches; such callbacks and the pingers of old sockets overlap the next *)
(* connection.  Of the lifecycle only that is kept: a connect is one step. *)
(***************************************************************************)
CONSTANTS
    Sockets,    \* slots for *websocket.Conn values
    Deadlines,  \* slots for the timers of armPongDeadline
    None

ASSUME KeepAliveAssumption ==
    None \notin Sockets \cup Deadlines

VARIABLES
    state,         \* c.state: connected, or down for every other state
    socket,        \* c.socket
    keepAliveStop, \* the socket whose pinger c.keepAliveStop stops
    pongDeadline,  \* c.pongDeadline
    link,          \* unused, open, lost (its last message has been read and
                   \* nobody noticed its end) or shut
    readLoop,      \* the sockets whose read loop runs
    pinger,        \* progress of the pinger of each socket
    deadline       \* each timer: its progress, the socket it is about and
                   \* whether that was heard since the timer was armed

vars == <<state, socket, keepAliveStop, pongDeadline, link, readLoop,
          pinger, deadline>>

Free == [at |-> "free", ws |-> None, heard |-> FALSE]

TypeOK ==
    /\ state \in {"connected", "down"}
    /\ socket \in Sockets \cup {None}
    /\ keepAliveStop \in Sockets \cup {None}
    /\ pongDeadline \in Deadlines \cup {None}
    /\ link \in [Sockets -> {"unused", "open", "lost", "shut"}]
    /\ readLoop \subseteq Sockets
    /\ pinger \in [Sockets -> {"none", "select", "write", "arm"}]
    /\ deadline \in [Deadlines -> [at : {"free", "armed", "fired", "dead", "shut"},
                                   ws : Sockets \cup {None}, heard : BOOLEAN]]

Init ==
    /\ state = "down" /\ socket = None
    /\ keepAliveStop = None /\ pongDeadline = None
    /\ link = [s \in Sockets |-> "unused"]
    /\ readLoop = {}
    /\ pinger = [s \in Sockets |-> "none"]
    /\ deadline = [d \in Deadlines |-> Free]

-----------------------------------------------------------------------------
(* Shared pieces. *)

At(d, at) == deadline' = [deadline EXCEPT ![d].at = at]

(* The pointed-to timer after Stop, which is too late once it has fired. *)
Stopped == [d \in Deadlines |->
    IF d = pongDeadline /\ deadline[d].at = "armed" THEN Free ELSE deadline[d]]

(* clearPongDeadline *)
ClearPongDeadline == pongDeadline' = None /\ deadline' = Stopped

(* stopKeepAliveLocked *)
StopKeepAlive == keepAliveStop' = None /\ ClearPongDeadline

(* handleSocketClose(s) *)
SocketClosed(s) ==
    \/ socket # s /\ UNCHANGED <<state, socket, keepAliveStop, pongDeadline, deadline>>
    \/ socket = s /\ state' = "down" /\ socket' = None /\ StopKeepAlive

-----------------------------------------------------------------------------
(* The connection and its network. *)

(* doConnect and startKeepAliveLocked; interval = 0 announces none. *)
Connected(s) ==
    /\ state = "down"
    /\ s \notin readLoop /\ pinger[s] = "none"
    /\ \A d \in Deadlines : deadline[d].ws # s
    /\ state' = "connected" /\ socket' = s
    /\ ClearPongDeadline
    /\ \/ keepAliveStop' = s /\ pinger' = [pinger EXCEPT ![s] = "select"]
       \/ keepAliveStop' = None /\ UNCHANGED pinger
    /\ link' = [link EXCEPT ![s] = "open"]
    /\ readLoop' = readLoop \cup {s}

Loses(s) ==
    /\ link[s] = "open"
    /\ link' = [link EXCEPT ![s] = "lost"]
    /\ UNCHANGED <<state, socket, keepAliveStop, pongDeadline, readLoop,
                   pinger, deadline>>

Heard(s, timers) ==
    [d \in Deadlines |-> IF timers[d].ws = s THEN [timers[d] EXCEPT !.heard = TRUE]
                                             ELSE timers[d]]

(* readLoop: a pong or any other message of the server arrives. *)
Reads(s) ==
    /\ s \in readLoop /\ link[s] = "open"
    /\ pongDeadline' = None /\ deadline' = Heard(s, Stopped)
    /\ UNCHANGED <<state, socket, keepAliveStop, link, readLoop, pinger>>

(* The read of a shut socket fails; that of a lost one may, much later. *)
ReadFails(s) ==
    /\ s \in readLoop /\ link[s] \in {"lost", "shut"}
    /\ readLoop' = readLoop \ {s}
    /\ SocketClosed(s)
    /\ UNCHANGED <<link, pinger>>

(* Close up to ws.Close. *)
Close ==
    /\ state = "connected"
    /\ state' = "down"
    /\ StopKeepAlive
    /\ link' = [link EXCEPT ![socket] = "shut"]
    /\ UNCHANGED <<socket, readLoop, pinger>>

-----------------------------------------------------------------------------
(* The pinger of a socket. *)

Pinger(s, from, to) ==
    /\ pinger[s] = from
    /\ pinger' = [pinger EXCEPT ![s] = to]

(* Mutant: the pinger never looks at its stop channel or at the socket. *)
TickUnchecked(s) ==
    /\ Pinger(s, "select", "write")
    /\ UNCHANGED <<state, socket, keepAliveStop, pongDeadline, link,
                   readLoop, deadline>>

(* The select: a tick finds the socket current, or the goroutine ends; it   *)
(* may also find the stop channel closed.                                  *)
Tick(s) ==
    /\ \/ state = "connected" /\ socket = s /\ Pinger(s, "select", "write")
       \/ ~(state = "connected" /\ socket = s) /\ Pinger(s, "select", "none")
       \/ keepAliveStop # s /\ Pinger(s, "select", "none")
    /\ UNCHANGED <<state, socket, keepAliveStop, pongDeadline, link,
                   readLoop, deadline>>

(* A ping written to a lost link goes nowhere, or runs into writeTimeout:   *)
(* the library then closes the socket.                                     *)
Ping(s) ==
    /\ \/ link[s] \in {"open", "lost"} /\ Pinger(s, "write", "arm") /\ UNCHANGED link
       \/ link[s] = "shut" /\ Pinger(s, "write", "select") /\ UNCHANGED link
       \/ /\ link[s] = "lost" /\ Pinger(s, "write", "select")
          /\ link' = [link EXCEPT ![s] = "shut"]
    /\ UNCHANGED <<state, socket, keepAliveStop, pongDeadline, readLoop,
                   deadline>>

(* armPongDeadline(s), whatever happened to s since the ping. *)
Arm(s) ==
    /\ Pinger(s, "arm", "select")
    /\ \/ pongDeadline # None /\ UNCHANGED <<pongDeadline, deadline>>
       \/ /\ pongDeadline = None
          /\ \E d \in Deadlines :
                /\ deadline[d] = Free
                /\ pongDeadline' = d
                /\ deadline' = [deadline EXCEPT ![d] =
                                   [at |-> "armed", ws |-> s, heard |-> FALSE]]
    /\ UNCHANGED <<state, socket, keepAliveStop, link, readLoop>>

-----------------------------------------------------------------------------
(* A deadline. *)

Fires(d) ==
    /\ deadline[d].at = "armed" /\ At(d, "fired")
    /\ UNCHANGED <<state, socket, keepAliveStop, pongDeadline, link,
                   readLoop, pinger>>

(* Mutant: the callback forgets to clear the pointer. *)
CallbackKeepsPointer(d) ==
    /\ deadline[d].at = "fired"
    /\ IF state = "connected" /\ socket = deadline[d].ws
       THEN At(d, "dead")
       ELSE deadline' = [deadline EXCEPT ![d] = Free]
    /\ UNCHANGED <<state, socket, keepAliveStop, pongDeadline, link,
                   readLoop, pinger>>

(* Its callback, the locked part: c.pongDeadline is cleared, whichever      *)
(* timer it points to by now.                                              *)
Callback(d) ==
    /\ deadline[d].at = "fired"
    /\ pongDeadline' = None
    /\ IF state = "connected" /\ socket = deadline[d].ws
       THEN At(d, "dead")
       ELSE deadline' = [deadline EXCEPT ![d] = Free]
    /\ UNCHANGED <<state, socket, keepAliveStop, link, readLoop, pinger>>

ShutsDead(d) ==
    /\ deadline[d].at = "dead" /\ At(d, "shut")
    /\ link' = [link EXCEPT ![deadline[d].ws] = "shut"]
    /\ UNCHANGED <<state, socket, keepAliveStop, pongDeadline, readLoop,
                   pinger>>

(* handleSocketClose, after which the slot is free. *)
TearsDown(d) ==
    /\ deadline[d].at = "shut"
    /\ \/ /\ socket = deadline[d].ws
          /\ state' = "down" /\ socket' = None
          /\ keepAliveStop' = None /\ pongDeadline' = None
          /\ deadline' = [Stopped EXCEPT ![d] = Free]
       \/ /\ socket # deadline[d].ws
          /\ deadline' = [deadline EXCEPT ![d] = Free]
          /\ UNCHANGED <<state, socket, keepAliveStop, pongDeadline>>
    /\ UNCHANGED <<link, readLoop, pinger>>

-----------------------------------------------------------------------------
SocketNext(s) == Connected(s) \/ Loses(s) \/ Reads(s) \/ ReadFails(s)
PingerNext(s) == Tick(s) \/ Ping(s) \/ Arm(s)
DeadlineNext(d) == Fires(d) \/ Callback(d) \/ ShutsDead(d) \/ TearsDown(d)

Next ==
    \/ \E s \in Sockets : SocketNext(s) \/ PingerNext(s)
    \/ \E d \in Deadlines : DeadlineNext(d)
    \/ Close

Spec == Init /\ [][Next]_vars

(* Goroutines that can run do, timers fire and tickers tick.  The kernel   *)
(* never has to report a lost link: only the read of a shut socket fails.  *)
(* Strong fairness of Arm only makes up for the bounded number of timers:   *)
(* in the code it never waits for one.                                     *)
Fairness ==
    /\ \A s \in Sockets :
          /\ WF_vars(Tick(s)) /\ WF_vars(Ping(s)) /\ SF_vars(Arm(s))
          /\ WF_vars(link[s] = "shut" /\ ReadFails(s))
    /\ \A d \in Deadlines : WF_vars(DeadlineNext(d))

FairSpec == Spec /\ Fairness

-----------------------------------------------------------------------------
(* Properties. *)

(* c.pongDeadline never keeps a timer that is over: armPongDeadline, which *)
(* returns when it is set, would never arm another one and no dead link    *)
(* would be noticed again (connection.go:1148-1150, 1155, 1176).           *)
PointerIsLive ==
    pongDeadline # None => deadline[pongDeadline].at \in {"armed", "fired"}

(* The timer c.pongDeadline points to has heard nothing from its socket     *)
(* since it was armed: "any inbound frame counts as proof of life and       *)
(* disarms it" (connection.go:1142-1144).                                  *)
ReferencedIsSilent == pongDeadline # None => ~deadline[pongDeadline].heard

(* A link that dies without an error is noticed while keep-alive runs,      *)
(* whatever is left over from older sockets: "without this, a half-dead     *)
(* TCP connection sits connected" (connection.go:1144-1146).               *)
DeadLinkIsNoticed ==
    \A s \in Sockets :
        socket = s /\ keepAliveStop = s /\ link[s] = "lost" ~> socket # s

(* The pinger of a socket that is gone ends (connection.go:1111-1126). *)
PingersEnd ==
    \A s \in Sockets : pinger[s] # "none" /\ socket # s ~> pinger[s] = "none"
=============================================================================
