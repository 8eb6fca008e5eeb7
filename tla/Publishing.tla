------------------------------ MODULE Publishing ------------------------------
(***************************************************************************)
(* The publishes of a Connection (src/connection.go:474-575): the table of *)
(* outstanding publishes, the request ids that route an answer back to its *)
(* publish, the goroutines that run sendPublish, and what each lifecycle   *)
(* step of module Connection does to them.                                 *)
(*                                                                         *)
(* A member of Msgs is one publish call with its stable messageID.  The    *)
(* done channel of a publish is result; the select of publish on done and  *)
(* on its context changes no shared state and is left out.  Request ids    *)
(* are slots: nextID++ is an id nothing refers to any more.                *)
(***************************************************************************)
EXTENDS Connection

CONSTANTS
    Msgs,       \* publish calls, identified by their messageID
    RequestIds, \* slots for the values of c.nextID
    Flush,      \* the goroutine that runs flushOutstandingPublishes
    Queueing    \* ~Options.DisableQueueing

ASSUME PublishingAssumption ==
    /\ None \notin Msgs \cup RequestIds
    /\ Flush \notin Msgs
    /\ Queueing \in BOOLEAN
    /\ InternalConnects

VARIABLES
    call,              \* how the publish call went on: queued or sent directly
    result,            \* what the done channel of each publish received
    outstanding,       \* domain of c.outstanding
    requestID,         \* outstanding.requestID, None for 0
    frameID,           \* outstanding.frame.id, shared by concurrent sends
    publishRequestIDs, \* c.publishRequestIDs, None where there is no entry
    sender,            \* the goroutines in sendPublish
    todo,              \* what the flush still has to send
    collected,         \* the flush has read c.outstanding
    kicks,             \* publishes whose "kick a connect" goroutine has not run
    toServer,          \* publish frames on the wire
    toClient,          \* answers on the wire
    stored             \* the messages the server has stored (by messageID)

tableVars == <<result, outstanding, requestID, publishRequestIDs>>
flushVars == <<todo, collected>>
netVars   == <<toServer, toClient, stored>>
pubVars   == <<call, tableVars, frameID, sender, flushVars, kicks, netVars>>
allVars   == <<vars, pubVars>>

Senders == Msgs \cup {Flush}
Queueable == {"initialized", "connecting", "disconnected"}
Answers == {"ok", "err"}

PubFrame == [ws : Sockets, id : RequestIds, msg : Msgs]

(* An answer carries its request id and no publish: msg is history, the     *)
(* publish whose frame it answers, and no action reads it.                  *)
AnswerFrame == [ws : Sockets, id : RequestIds, res : Answers, msg : Msgs]

PubTypeOK ==
    /\ call \in [Msgs -> {"idle", "refused", "queued", "direct"}]
    /\ result \in [Msgs -> Answers \cup {"none"}]
    /\ outstanding \subseteq Msgs
    /\ requestID \in [Msgs -> RequestIds \cup {None}]
    /\ frameID \in [Msgs -> RequestIds \cup {None}]
    /\ publishRequestIDs \in [RequestIds -> Msgs \cup {None}]
    /\ sender \in [Senders -> [pc : {"idle", "lock", "write", "failed"},
                               msg : Msgs \cup {None},
                               id : RequestIds \cup {None},
                               ws : Sockets \cup {None}]]
    /\ todo \subseteq Msgs
    /\ collected \in BOOLEAN
    /\ kicks \subseteq Msgs
    /\ toServer \subseteq PubFrame
    /\ toClient \subseteq AnswerFrame
    /\ stored \subseteq Msgs

IdleSender == [pc |-> "idle", msg |-> None, id |-> None, ws |-> None]

PubInit ==
    /\ call = [m \in Msgs |-> "idle"]
    /\ result = [m \in Msgs |-> "none"]
    /\ outstanding = {}
    /\ requestID = [m \in Msgs |-> None]
    /\ frameID = [m \in Msgs |-> None]
    /\ publishRequestIDs = [i \in RequestIds |-> None]
    /\ sender = [x \in Senders |-> IdleSender]
    /\ todo = {}
    /\ collected = FALSE
    /\ kicks = {}
    /\ toServer = {}
    /\ toClient = {}
    /\ stored = {}

-----------------------------------------------------------------------------
(* Shared pieces. *)

(* failOutstandingLocked: no resend path remains. *)
FailOutstanding ==
    /\ publishRequestIDs' = [i \in RequestIds |-> None]
    /\ outstanding' = {}
    /\ result' = [m \in Msgs |-> IF m \in outstanding THEN "err" ELSE result[m]]
    /\ UNCHANGED requestID

(* Mutant: a drop always keeps the publishes for a resend. *)
SocketClosedKeeps(ws) ==
    \/ /\ CloseKind(ws) = "stale"
       /\ UNCHANGED tableVars
    \/ /\ CloseKind(ws) \in {"closed", "fatal"}
       /\ FailOutstanding
    \/ /\ CloseKind(ws) = "dropped"
       /\ publishRequestIDs' = [i \in RequestIds |-> None]
       /\ requestID' = [m \in Msgs |-> None]
       /\ UNCHANGED <<result, outstanding>>

(* What handleSocketClose(ws) does to the table. *)
SocketClosed(ws) ==
    \/ /\ CloseKind(ws) = "stale"
       /\ UNCHANGED tableVars
    \/ /\ CloseKind(ws) \in {"closed", "fatal"}
       /\ FailOutstanding
    \/ /\ CloseKind(ws) = "dropped"
       /\ AutoReconnect /\ Queueing
       /\ publishRequestIDs' = [i \in RequestIds |-> None]
       /\ requestID' = [m \in Msgs |-> IF m \in outstanding THEN None
                                                            ELSE requestID[m]]
       /\ UNCHANGED <<result, outstanding>>
    \/ /\ CloseKind(ws) = "dropped"
       /\ ~(AutoReconnect /\ Queueing)
       /\ FailOutstanding

(* Mutant: an answer settles its publish although it was settled before. *)
SettleAgain(id, res) ==
    LET m == publishRequestIDs[id] IN
    /\ publishRequestIDs' = [publishRequestIDs EXCEPT ![id] = None]
    /\ outstanding' = outstanding \ {m}
    /\ result' = [result EXCEPT ![m] = res]
    /\ UNCHANGED requestID

(* settlePublishLocked: route an answer to its publish, at most once. *)
SettlePublish(id, res) ==
    LET m == publishRequestIDs[id] IN
    /\ publishRequestIDs' = [publishRequestIDs EXCEPT ![id] = None]
    /\ outstanding' = outstanding \ {m}
    /\ result' = IF m \in outstanding THEN [result EXCEPT ![m] = res] ELSE result
    /\ UNCHANGED requestID

(* Mutant: an id counts as unused while an answer to it is under way. *)
UnmappedId(i) ==
    /\ publishRequestIDs[i] = None
    /\ \A x \in Senders : sender[x].id # i

FreshId(i) ==
    /\ publishRequestIDs[i] = None
    /\ \A m \in outstanding : requestID[m] # i
    /\ \A x \in Senders : sender[x].pc # "idle" => frameID[sender[x].msg] # i
    /\ \A x \in Senders : sender[x].id # i
    /\ \A f \in toServer \cup toClient : f.id # i

(* The unread answers of a socket die with whoever would have read them. *)
Unread(ws) == toClient' = {f \in toClient : f.ws # ws}

-----------------------------------------------------------------------------
(* publish *)

PublishRefused(m) ==
    /\ call[m] = "idle"
    /\ state # "connected"
    /\ ~Queueing \/ state \notin Queueable
    /\ call' = [call EXCEPT ![m] = "refused"]
    /\ result' = [result EXCEPT ![m] = "err"]
    /\ UNCHANGED <<vars, outstanding, requestID, publishRequestIDs, frameID, sender,
                   flushVars, kicks, netVars>>

PublishQueued(m) ==
    /\ call[m] = "idle"
    /\ Queueing
    /\ state \in Queueable
    /\ call' = [call EXCEPT ![m] = "queued"]
    /\ outstanding' = outstanding \cup {m}
    /\ kicks' = kicks \cup {m}
    /\ UNCHANGED <<vars, result, requestID, publishRequestIDs, frameID, sender,
                   flushVars, netVars>>

PublishDirect(m) ==
    /\ call[m] = "idle"
    /\ state = "connected"
    /\ call' = [call EXCEPT ![m] = "direct"]
    /\ outstanding' = outstanding \cup {m}
    /\ sender' = [sender EXCEPT ![m] = [IdleSender EXCEPT !.pc = "lock", !.msg = m]]
    /\ UNCHANGED <<vars, result, requestID, publishRequestIDs, frameID, flushVars,
                   kicks, netVars>>

(* The goroutine that a queued publish starts: Connect, result ignored. *)
KickConnects(m) ==
    /\ m \in kicks
    /\ kicks' = kicks \ {m}
    /\ \/ state = "connected" /\ UNCHANGED vars
       \/ InternalConnect
    /\ UNCHANGED <<call, tableVars, frameID, sender, flushVars, netVars>>

-----------------------------------------------------------------------------
(* sendPublish, run by a publish call or by the flush *)

(* The locked part: a fresh request id, and whatever c.socket is now. *)
SendAssigns(x) ==
    /\ sender[x].pc = "lock"
    /\ \E i \in RequestIds :
          LET m == sender[x].msg IN
          /\ FreshId(i)
          /\ requestID' = [requestID EXCEPT ![m] = i]
          /\ frameID' = [frameID EXCEPT ![m] = i]
          /\ publishRequestIDs' = [publishRequestIDs EXCEPT ![i] = m]
          /\ sender' = [sender EXCEPT ![x] = [pc |-> "write", msg |-> m, id |-> i,
                                              ws |-> socket]]
    /\ UNCHANGED <<vars, call, result, outstanding, flushVars, kicks, netVars>>

(* The write succeeds.  frame.id is read after the unlock, while another   *)
(* sendPublish of the same frame may be writing it.                        *)
SendWrites(x) ==
    /\ sender[x].pc = "write"
    /\ sender[x].ws \in open
    /\ \E i \in {sender[x].id, frameID[sender[x].msg]} :
          toServer' = toServer \cup
              {[ws |-> sender[x].ws, id |-> i, msg |-> sender[x].msg]}
    /\ sender' = [sender EXCEPT ![x] = IdleSender]
    /\ UNCHANGED <<vars, call, tableVars, frameID, flushVars, kicks, toClient, stored>>

(* The write succeeds locally on a socket whose end is not noticed yet. *)
SendLost(x) ==
    /\ sender[x].pc = "write"
    /\ sender[x].ws \in Sockets \ open
    /\ sender' = [sender EXCEPT ![x] = IdleSender]
    /\ UNCHANGED <<vars, call, tableVars, frameID, flushVars, kicks, netVars>>

SendFails(x) ==
    /\ sender[x].pc = "write"
    /\ sender[x].ws \notin open
    /\ sender' = [sender EXCEPT ![x] = [@ EXCEPT !.pc = "failed", !.ws = None]]
    /\ UNCHANGED <<vars, call, tableVars, frameID, flushVars, kicks, netVars>>

(* Mutant: a failed write keeps the request id of the publish. *)
SendUndoneKeepsId(x) ==
    /\ sender[x].pc = "failed"
    /\ publishRequestIDs' = [publishRequestIDs EXCEPT ![sender[x].id] = None]
    /\ sender' = [sender EXCEPT ![x] = IdleSender]
    /\ UNCHANGED <<vars, call, result, outstanding, requestID, frameID, flushVars,
                   kicks, netVars>>

(* The locked part after a failed write: leave it for the next connect. *)
SendUndone(x) ==
    /\ sender[x].pc = "failed"
    /\ publishRequestIDs' = [publishRequestIDs EXCEPT ![sender[x].id] = None]
    /\ requestID' = [requestID EXCEPT ![sender[x].msg] =
                        IF sender[x].msg \in outstanding THEN None ELSE @]
    /\ sender' = [sender EXCEPT ![x] = IdleSender]
    /\ UNCHANGED <<vars, call, result, outstanding, frameID, flushVars, kicks, netVars>>

-----------------------------------------------------------------------------
(* flushOutstandingPublishes, in the attempt's goroutine *)

FlushCollects ==
    /\ attempt.pc = "flushing"
    /\ ~collected
    /\ collected' = TRUE
    /\ todo' = {m \in outstanding : requestID[m] = None}
    /\ UNCHANGED <<vars, call, tableVars, frameID, sender, kicks, netVars>>

FlushNext(m) ==
    /\ attempt.pc = "flushing"
    /\ m \in todo
    /\ sender[Flush].pc = "idle"
    /\ todo' = todo \ {m}
    /\ sender' = [sender EXCEPT ![Flush] =
                     [IdleSender EXCEPT !.pc = "lock", !.msg = m]]
    /\ UNCHANGED <<vars, call, tableVars, frameID, collected, kicks, netVars>>

FlushDone ==
    /\ collected
    /\ todo = {}
    /\ sender[Flush].pc = "idle"
    /\ collected' = FALSE
    /\ Flushed
    /\ UNCHANGED <<call, tableVars, frameID, sender, todo, kicks, netVars>>

-----------------------------------------------------------------------------
(* The server and the answers.  The server is external: it answers a frame *)
(* that reaches it with an ack once the message is stored, or with an      *)
(* error; it stores one copy per messageID.                                *)

ServerAnswers(f) ==
    /\ toServer' = toServer \ {f}
    /\ \E res \in Answers :
          /\ stored' = IF res = "ok" THEN stored \cup {f.msg} ELSE stored
          /\ toClient' = IF f.ws \in open
                           THEN toClient \cup
                                   {[ws |-> f.ws, id |-> f.id, res |-> res, msg |-> f.msg]}
                           ELSE toClient
    /\ UNCHANGED <<vars, call, tableVars, frameID, sender, flushVars, kicks>>

(* handleFrame on an answer, in the read loop of the socket or, for frames *)
(* coalesced with connected, in the attempt.                               *)
HandleAnswer(f) ==
    /\ \/ f.ws \in readLoop
       \/ attempt.pc = "installed" /\ attempt.ws = f.ws
    /\ toClient' = toClient \ {f}
    /\ \/ publishRequestIDs[f.id] = None /\ UNCHANGED tableVars
       \/ publishRequestIDs[f.id] # None /\ SettlePublish(f.id, f.res)
    /\ UNCHANGED <<vars, call, frameID, sender, flushVars, kicks, toServer, stored>>

-----------------------------------------------------------------------------
(* The lifecycle steps, with what they do to the publishes. *)

DialInstalls(s) ==
    /\ DialSucceeds(s)
    /\ \A x \in Senders : sender[x].ws # s
    /\ toServer' = {f \in toServer : f.ws # s}
    /\ UNCHANGED <<call, tableVars, frameID, sender, flushVars, kicks, toClient, stored>>

HandshakeTorn ==
    /\ TeardownSocket
    /\ SocketClosed(attempt.ws)
    /\ Unread(attempt.ws)
    /\ UNCHANGED <<call, frameID, sender, flushVars, kicks, toServer, stored>>

HandshakeAborted ==
    /\ CompleteAborted
    /\ Unread(attempt.ws)
    /\ UNCHANGED <<call, tableVars, frameID, sender, flushVars, kicks, toServer, stored>>

ReadLoopTorn(s) ==
    /\ ReadLoopEnds(s)
    /\ SocketClosed(s)
    /\ Unread(s)
    /\ UNCHANGED <<call, frameID, sender, flushVars, kicks, toServer, stored>>

DeadlineTorn(s) ==
    /\ DeadlineCloses(s)
    /\ SocketClosed(s)
    /\ UNCHANGED <<call, frameID, sender, flushVars, kicks, netVars>>

(* Mutant: Close leaves the outstanding publishes to the read loop. *)
CloseSettlesNothing(k) ==
    /\ CloseEnds(k)
    /\ UNCHANGED pubVars

CloseSettles(k) ==
    /\ CloseEnds(k)
    /\ FailOutstanding
    /\ UNCHANGED <<call, frameID, sender, flushVars, kicks, netVars>>

(* The attempt's steps that no publish takes part in. *)
QuietAttempt ==
    /\ \/ DoConnect
       \/ DialFails
       \/ DialAborted
       \/ AuthRejected
       \/ CompleteConnect
       \/ StartReadLoop
       \/ FinishConnect
    /\ UNCHANGED pubVars

PubAttemptNext ==
    \/ QuietAttempt
    \/ \E s \in Sockets : DialInstalls(s)
    \/ HandshakeTorn
    \/ HandshakeAborted
    \/ FlushCollects
    \/ \E m \in Msgs : FlushNext(m)
    \/ FlushDone

QuietTimer(t) == (TimerFires(t) \/ CallbackNext(t)) /\ UNCHANGED pubVars

QuietSocket(s) == (Drop(s) \/ DeadlineFires(s)) /\ UNCHANGED pubVars

QuietApp ==
    /\ \/ \E k \in Closers : CloseBegins(k) \/ CloseSocket(k)
       \/ \E a \in Callers : ConnectCalled(a) \/ ConnectCancelled(a)
    /\ UNCHANGED pubVars

SendNext(x) ==
    \/ SendAssigns(x)
    \/ SendWrites(x)
    \/ SendLost(x)
    \/ SendFails(x)
    \/ SendUndone(x)

PubNext ==
    \/ PubAttemptNext
    \/ \E t \in Timers : QuietTimer(t)
    \/ \E s \in Sockets : QuietSocket(s) \/ ReadLoopTorn(s) \/ DeadlineTorn(s)
    \/ QuietApp
    \/ \E k \in Closers : CloseSettles(k)
    \/ \E m \in Msgs : \/ PublishRefused(m)
                       \/ PublishQueued(m)
                       \/ PublishDirect(m)
                       \/ KickConnects(m)
    \/ \E x \in Senders : SendNext(x)
    \/ \E f \in toServer : ServerAnswers(f)
    \/ \E f \in toClient : HandleAnswer(f)

PubSpec == Init /\ PubInit /\ [][PubNext]_allVars

CloseGoesOn(k) == (CloseSocket(k) /\ UNCHANGED pubVars) \/ CloseSettles(k)

(* The fairness of module Connection, with the goroutines that run          *)
(* sendPublish and the kicks, and a server that answers the frames that     *)
(* reach it and whose answers are read.                                     *)
PubFairness ==
    /\ WF_allVars(PubAttemptNext)
    /\ \A t \in Timers : WF_allVars(QuietTimer(t))
    /\ \A s \in Sockets : /\ WF_allVars(ReadLoopTorn(s))
                          /\ WF_allVars(DeadlineTorn(s))
    /\ \A k \in Closers : WF_allVars(CloseGoesOn(k))
    /\ \A m \in Msgs : WF_allVars(KickConnects(m))
    /\ \A x \in Senders : WF_allVars(SendNext(x))
    /\ WF_allVars(\E f \in toServer : ServerAnswers(f))
    /\ WF_allVars(\E f \in toClient : HandleAnswer(f))

PubFairSpec == PubSpec /\ PubFairness

-----------------------------------------------------------------------------
(* Properties. *)

(* What publish promises its callers, whatever the connection does.        *)
Contract == INSTANCE PublishContract
              WITH called <- {m \in Msgs : call[m] # "idle"}

(* The publishes keep the contract: each is settled at most once, and only *)
(* a message the server has stored is reported as published, although      *)
(* answers arrive late, sockets are replaced and two goroutines may send   *)
(* the same publish (connection.go:474-575).                               *)
KeepsContract == Contract!Spec

(* The table tracks exactly the publishes that still wait for an answer:   *)
(* none is forgotten, and none is settled a second time, which would block *)
(* for ever on its done channel with c.mu held (connection.go:554-575).    *)
TableTracksWaiting ==
    outstanding = {m \in Msgs : /\ call[m] \in {"queued", "direct"}
                                /\ result[m] = "none"}

(* "Publishes that were awaiting an ack have been rejected"                *)
(* (connection.go:80-81): neither a closed nor a failed connection holds   *)
(* an outstanding publish, also when Close races with publish, with the    *)
(* flush or with the end of the socket.                                    *)
ClosedHasNoPublish == state \in {"closed", "failed"} => outstanding = {}

(* A request id leads back to the publish it was sent for, or nowhere: no  *)
(* frame that is still under way, of whatever socket, and no answer to     *)
(* one, an error as well as an ack, can settle another publish than the    *)
(* one of its frame, and an ack is under way only for a message that the   *)
(* server has stored (connection.go:515-565, 944-990).                     *)
Routes(i, m) == publishRequestIDs[i] \in {None, m}

AnswersRouted ==
    /\ \A f \in toServer : Routes(f.id, f.msg) /\ call[f.msg] # "idle"
    /\ \A f \in toClient :
          /\ Routes(f.id, f.msg)
          /\ f.res = "ok" => f.msg \in stored

(* Somebody still cares for publish m: an answer can be routed to it, or a *)
(* sendPublish of it is under way, or the flush is about to send it.       *)
InFlight(m) ==
    \/ \E i \in RequestIds : publishRequestIDs[i] = m
    \/ \E x \in Senders : sender[x].pc # "idle" /\ sender[x].msg = m
    \/ m \in todo

FlushAhead ==
    \/ attempt.pc = "installed"
    \/ attempt.pc = "flushing" /\ ~collected

(* A publish that was queued is not forgotten by the flush: while the      *)
(* connection is connected, on a socket that still works, it is in flight  *)
(* or the flush is still to come ("the publish is buffered and sent on the *)
(* next successful (re)connect", connection.go:476-477).                   *)
QueuedIsFlushed ==
    state = "connected" /\ socket \in open /\ ~FlushAhead =>
        \A m \in outstanding : call[m] = "queued" => InFlight(m)

(* With queueing disabled every publish returns, whatever happens to the   *)
(* connection, provided that the server answers what it receives.          *)
PublishSettles ==
    \A m \in Msgs : (m \in outstanding) ~> (m \notin outstanding)

=============================================================================
