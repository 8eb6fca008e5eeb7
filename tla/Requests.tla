------------------------------- MODULE Requests -------------------------------
(***************************************************************************)
(* The requests of a Connection (src/connection.go:382-472): calls that    *)
(* send one frame and wait for the frame that answers it, correlated by    *)
(* request id through three tables (acks, history pages, gap fetches).     *)
(*                                                                         *)
(* Of the connection's lifecycle (module Connection) only what a request   *)
(* can meet is kept: which socket c.socket refers to, whether its          *)
(* handshake is over, its end, and one Close.  One action is one critical  *)
(* section of c.mu or one step outside it.                                 *)
(***************************************************************************)
EXTENDS Naturals, FiniteSets

CONSTANTS
    Requests, \* the calls of request, requestHistory and requestFetch
    KindOf,   \* which of them: the table each call uses
    Sockets,  \* slots for *websocket.Conn values
    None

Kinds == {"ack", "hist", "fetch"}

ASSUME RequestsAssumption ==
    /\ KindOf \in [Requests -> Kinds]
    /\ None \notin Sockets

VARIABLES
    state,      \* c.state, with initialized and failed as disconnected
    socket,     \* c.socket
    link,       \* each socket: unused, open, lost (nothing passes any more,
                \* unnoticed) or shut by this side
    attempt,    \* the socket whose handshake is under way
    readLoop,   \* the sockets whose readLoop goroutine runs
    dying,      \* the sockets whose keep-alive deadline callback runs
    closer,     \* progress of the Close call
    nextID,     \* c.nextID
    pending,    \* the entries of c.pending, c.pendingHist and c.pendingFetch
    request,    \* progress of each call, with its id and its socket
    outcome,    \* what the channel of each call has received
    delivering, \* outcomes a read loop has taken a channel for
    toServer,   \* request frames on the wire
    toClient    \* answers on the wire; r is whose request they answer

connVars == <<state, socket, link, attempt, readLoop, dying, closer>>
callVars == <<nextID, pending, request, outcome, delivering>>
wireVars == <<toServer, toClient>>
vars == <<connVars, callVars, wireVars>>

Entry == [kind : Kinds, id : Nat, r : Requests]
Outcomes == {"response", "error"}
ClosedStates == {"closing", "closed"}

TypeOK ==
    /\ state \in {"disconnected", "connecting", "connected", "closing", "closed"}
    /\ socket \in Sockets \cup {None} /\ attempt \in Sockets \cup {None}
    /\ link \in [Sockets -> {"unused", "open", "lost", "shut"}]
    /\ readLoop \subseteq Sockets /\ dying \subseteq Sockets
    /\ closer \in {"idle", "begun", "shut", "returned"}
    /\ nextID \in Nat
    /\ pending \subseteq Entry
    /\ request \in [Requests -> [pc : {"idle", "connect", "lock", "write", "wait",
                                       "drop", "returned"},
                                 id : Nat, ws : Sockets \cup {None}]]
    /\ outcome \in [Requests -> Outcomes \cup {"none"}]
    /\ delivering \subseteq [ws : Sockets, r : Requests, res : Outcomes]
    /\ toServer \subseteq [ws : Sockets, id : Nat, r : Requests]
    /\ toClient \subseteq [ws : Sockets, id : Nat, r : Requests,
                           frame : Kinds \cup {"error"}]

Init ==
    /\ state = "disconnected" /\ socket = None
    /\ link = [s \in Sockets |-> "unused"]
    /\ attempt = None /\ readLoop = {} /\ dying = {} /\ closer = "idle"
    /\ nextID = 0 /\ pending = {}
    /\ request = [r \in Requests |-> [pc |-> "idle", id |-> 0, ws |-> None]]
    /\ outcome = [r \in Requests |-> "none"]
    /\ delivering = {} /\ toServer = {} /\ toClient = {}

-----------------------------------------------------------------------------
(* Shared pieces. *)

Pc(r, pc) == request' = [request EXCEPT ![r].pc = pc]
Returns(r) == request' = [request EXCEPT ![r].pc = "returned", ![r].ws = None]

(* failPendingLocked *)
FailPending ==
    /\ pending' = {}
    /\ outcome' = [r \in Requests |-> IF \E e \in pending : e.r = r THEN "error"
                                                                   ELSE outcome[r]]

(* Mutant: the requests of a dead socket are left for the next one. *)
SocketClosedFailsNone(s) ==
    \/ socket # s /\ UNCHANGED <<state, socket, pending, outcome>>
    \/ /\ socket = s
       /\ socket' = None
       /\ state' = IF state \in ClosedStates THEN "closed" ELSE "disconnected"
       /\ UNCHANGED <<pending, outcome>>

(* handleSocketClose(s) *)
SocketClosed(s) ==
    \/ socket # s /\ UNCHANGED <<state, socket, pending, outcome>>
    \/ /\ socket = s
       /\ socket' = None
       /\ state' = IF state \in ClosedStates THEN "closed" ELSE "disconnected"
       /\ FailPending

-----------------------------------------------------------------------------
(* The connection. *)

Shut(s) == link' = IF s = None THEN link ELSE [link EXCEPT ![s] = "shut"]

(* doConnect installs the socket before its handshake.  An attempt that    *)
(* starts between the halves of Close, or in the same instant as an older   *)
(* one, is left to module Connection.                                      *)
Dial(s) ==
    /\ attempt = None /\ state \in {"disconnected", "closed"}
    /\ closer \in {"idle", "returned"}
    /\ s \notin readLoop \cup dying /\ s # socket
    /\ \A r \in Requests : request[r].ws # s
    /\ state' = "connecting"
    /\ socket' = s /\ attempt' = s
    /\ link' = [link EXCEPT ![s] = "open"]
    /\ toServer' = {f \in toServer : f.ws # s}
    /\ UNCHANGED <<readLoop, dying, closer, callVars, toClient>>

Connected ==
    /\ attempt # None /\ state = "connecting"
    /\ state' = "connected"
    /\ readLoop' = readLoop \cup {attempt} /\ attempt' = None
    /\ UNCHANGED <<socket, link, dying, closer, callVars, wireVars>>

(* The handshake fails, or it ends after Close: then without a teardown. *)
HandshakeEnds ==
    /\ attempt # None
    /\ \/ SocketClosed(attempt)
       \/ state \in ClosedStates /\ UNCHANGED <<state, socket, pending, outcome>>
    /\ Shut(attempt) /\ attempt' = None
    /\ toClient' = {f \in toClient : f.ws # attempt}
    /\ UNCHANGED <<readLoop, dying, closer, nextID, request, delivering, toServer>>

Loses(s) ==
    /\ link[s] = "open"
    /\ link' = [link EXCEPT ![s] = "lost"]
    /\ UNCHANGED <<state, socket, attempt, readLoop, dying, closer, callVars, wireVars>>

(* The read of a shut or of a lost socket fails. *)
ReadLoopEnds(s) ==
    /\ s \in readLoop /\ link[s] # "open"
    /\ \A d \in delivering : d.ws # s
    /\ SocketClosed(s)
    /\ readLoop' = readLoop \ {s}
    /\ toClient' = {f \in toClient : f.ws # s}
    /\ UNCHANGED <<link, attempt, dying, closer, nextID, request, delivering, toServer>>

(* armPongDeadline's callback: its check and ws.Close, then the teardown,  *)
(* while the read loop may still handle frames (when: module KeepAlive).   *)
DeadlineFires(s) ==
    /\ state = "connected" /\ socket = s
    /\ dying' = dying \cup {s} /\ Shut(s)
    /\ UNCHANGED <<state, socket, attempt, readLoop, closer, callVars, wireVars>>

DeadlineTears(s) ==
    /\ s \in dying
    /\ dying' = dying \ {s}
    /\ SocketClosed(s)
    /\ UNCHANGED <<link, attempt, readLoop, closer, nextID, request, delivering, wireVars>>

CloseBegins ==
    /\ closer = "idle"
    /\ closer' = "begun" /\ state' = "closing"
    /\ UNCHANGED <<socket, link, attempt, readLoop, dying, callVars, wireVars>>

(* No attempt starts meanwhile: c.socket is what it was, or None. *)
CloseSocket ==
    /\ closer = "begun"
    /\ closer' = "shut" /\ Shut(socket)
    /\ UNCHANGED <<state, socket, attempt, readLoop, dying, callVars, wireVars>>

CloseEnds ==
    /\ closer = "shut"
    /\ closer' = "returned" /\ state' = "closed"
    /\ FailPending
    /\ UNCHANGED <<socket, link, attempt, readLoop, dying, nextID, request, delivering, wireVars>>

-----------------------------------------------------------------------------
(* A request. *)

Call(r) ==
    /\ request[r].pc = "idle"
    /\ Pc(r, "connect")
    /\ UNCHANGED <<connVars, nextID, pending, outcome, delivering, wireVars>>

ConnectReturns(r) ==
    /\ request[r].pc = "connect"
    /\ IF state = "connected" THEN Pc(r, "lock") ELSE Returns(r)
    /\ UNCHANGED <<connVars, nextID, pending, outcome, delivering, wireVars>>

(* Mutant: every table counts its own ids. *)
RegisterPerTable(r) ==
    /\ request[r].pc = "lock"
    /\ LET id == 1 + Cardinality({q \in Requests : KindOf[q] = KindOf[r]
                                                     /\ request[q].id # 0})
       IN  /\ nextID' = IF id > nextID THEN id ELSE nextID
           /\ pending' = pending \cup {[kind |-> KindOf[r], id |-> id, r |-> r]}
           /\ request' = [request EXCEPT ![r] = [pc |-> "write", id |-> id,
                                                 ws |-> socket]]
    /\ UNCHANGED <<connVars, outcome, delivering, wireVars>>

(* The locked part: an id, an entry, and whatever c.socket is now. *)
Register(r) ==
    /\ request[r].pc = "lock"
    /\ nextID' = nextID + 1
    /\ pending' = pending \cup {[kind |-> KindOf[r], id |-> nextID + 1, r |-> r]}
    /\ request' = [request EXCEPT ![r] = [pc |-> "write", id |-> nextID + 1,
                                          ws |-> socket]]
    /\ UNCHANGED <<connVars, outcome, delivering, wireVars>>

(* The write succeeds, also on a socket whose loss is not noticed yet. *)
Write(r) ==
    /\ request[r].pc = "write" /\ request[r].ws # None
    /\ \/ /\ link[request[r].ws] = "open"
          /\ toServer' = toServer \cup {[ws |-> request[r].ws, id |-> request[r].id,
                                         r |-> r]}
       \/ link[request[r].ws] = "lost" /\ UNCHANGED toServer
    /\ Pc(r, "wait")
    /\ UNCHANGED <<connVars, nextID, pending, outcome, delivering, toClient>>

WriteFails(r) ==
    /\ request[r].pc = "write"
    /\ request[r].ws # None => link[request[r].ws] # "open"
    /\ Pc(r, "drop")
    /\ UNCHANGED <<connVars, nextID, pending, outcome, delivering, wireVars>>

(* The context ends while the call waits. *)
ContextEnds(r) ==
    /\ request[r].pc = "wait"
    /\ Pc(r, "drop")
    /\ UNCHANGED <<connVars, nextID, pending, outcome, delivering, wireVars>>

(* Its entry is removed, if it is still there, and the call returns. *)
Dropped(r) ==
    /\ request[r].pc = "drop"
    /\ pending' = {e \in pending : e.r # r}
    /\ Returns(r)
    /\ UNCHANGED <<connVars, nextID, outcome, delivering, wireVars>>

Receives(r) ==
    /\ request[r].pc = "wait" /\ outcome[r] # "none"
    /\ Returns(r)
    /\ UNCHANGED <<connVars, nextID, pending, outcome, delivering, wireVars>>

-----------------------------------------------------------------------------
(* The server (external) answers a request with its response or an error.  *)

ServerAnswers(f) ==
    /\ toServer' = toServer \ {f}
    /\ \E x \in {KindOf[f.r], "error"} :
          toClient' = IF link[f.ws] = "open"
            THEN toClient \cup {[ws |-> f.ws, id |-> f.id, r |-> f.r, frame |-> x]}
            ELSE toClient
    /\ UNCHANGED <<connVars, callVars>>

(* The entries an answer fits: those of its table, or of any for an error. *)
Fits(f, e) == e.id = f.id /\ f.frame \in {e.kind, "error"}

(* What the call receives for the frame. *)
Outcome(f) == IF f.frame = "error" THEN "error" ELSE "response"

(* Mutant: the entry stays in its table until the outcome is delivered. *)
HandleFrameKeeps(f) ==
    /\ f.ws \in readLoop
    /\ \A d \in delivering : d.ws # f.ws
    /\ toClient' = toClient \ {f}
    /\ delivering' = delivering \cup
          {[ws |-> f.ws, r |-> e.r, res |-> Outcome(f)] :
             e \in {e \in pending : Fits(f, e)}}
    /\ UNCHANGED <<connVars, nextID, pending, request, outcome, toServer>>

(* handleFrame and handleErrorFrame, the locked part: take the entry.  An  *)
(* answer that fits none is ignored, its caller has given up.              *)
HandleFrame(f) ==
    /\ f.ws \in readLoop
    /\ \A d \in delivering : d.ws # f.ws
    /\ toClient' = toClient \ {f}
    /\ \/ /\ \A e \in pending : ~Fits(f, e)
          /\ UNCHANGED <<pending, delivering>>
       \/ \E e \in pending :
             /\ Fits(f, e)
             /\ pending' = pending \ {e}
             /\ delivering' = delivering \cup {[ws |-> f.ws, r |-> e.r,
                   res |-> Outcome(f)]}
    /\ UNCHANGED <<connVars, nextID, request, outcome, toServer>>

(* ... and after the unlock the send on its channel, which holds one. *)
Deliver(d) ==
    /\ outcome[d.r] = "none"
    /\ outcome' = [outcome EXCEPT ![d.r] = d.res]
    /\ delivering' = delivering \ {d}
    /\ UNCHANGED <<connVars, nextID, pending, request, wireVars>>

-----------------------------------------------------------------------------
CallNext(r) ==
    \/ Call(r) \/ ConnectReturns(r) \/ Register(r)
    \/ Write(r) \/ WriteFails(r) \/ ContextEnds(r) \/ Dropped(r) \/ Receives(r)

ConnNext ==
    \/ \E s \in Sockets : Dial(s) \/ Loses(s) \/ ReadLoopEnds(s)
                        \/ DeadlineFires(s) \/ DeadlineTears(s)
    \/ Connected \/ HandshakeEnds
    \/ CloseBegins \/ CloseSocket \/ CloseEnds

WireNext ==
    \/ \E f \in toServer : ServerAnswers(f)
    \/ \E f \in toClient : HandleFrame(f)
    \/ \E d \in delivering : Deliver(d)

Next == (\E r \in Requests : CallNext(r)) \/ ConnNext \/ WireNext

Spec == Init /\ [][Next]_vars

-----------------------------------------------------------------------------
(* Properties. *)

(* A call has at most one of an entry, an outcome under way and an outcome *)
(* received: the channel, which holds one, never blocks its sender, who    *)
(* may be the read loop or hold c.mu (connection.go:577-592, 854-863).     *)
OneOutcome ==
    /\ \A e, g \in pending : e.r = g.r => e = g
    /\ \A d, g \in delivering : d.r = g.r => d = g
    /\ \A e \in pending : outcome[e.r] = "none" /\ \A d \in delivering : d.r # e.r
    /\ \A d \in delivering : outcome[d.r] = "none"

(* An answer under way fits no entry but that of the request it answers,   *)
(* although three tables share the ids, errors are looked up in all of     *)
(* them and calls give up meanwhile (connection.go:388-392, 906-933).      *)
AnswersFit == \A f \in toClient, e \in pending : Fits(f, e) => e.r = f.r

(* A call that waits without an outcome is never forgotten: its outcome is *)
(* being delivered, or its entry is in place and its socket is c.socket,   *)
(* whose end fails it, or a Close is about to ("so attach, detach,         *)
(* history, presence, and gap-fill callers do not hang forever",           *)
(* connection.go:952-954).                                                 *)
WaitingIsServed ==
    \A r \in Requests : request[r].pc = "wait" /\ outcome[r] = "none" =>
        \/ \E d \in delivering : d.r = r
        \/ /\ \E e \in pending : e.r = r
           /\ \/ closer \in {"begun", "shut"}
              \/ request[r].ws = socket /\ socket \in readLoop \cup dying \cup {attempt}

=============================================================================
