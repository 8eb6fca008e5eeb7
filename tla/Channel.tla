------------------------------- MODULE Channel -------------------------------
(***************************************************************************)
(* The lifecycle of the channels of one name (src/channel.go:301-403,      *)
(* 780-870): Attach, Detach, the re-subscribe after a reconnect, and the   *)
(* connection events, which reach a channel late, through the dispatcher;  *)
(* with the registry that replaces a released instance by a new one        *)
(* (src/realtime.go:229-276) and the remembered subscription with its      *)
(* epoch (src/connection.go:610-641).                                      *)
(*                                                                         *)
(* Every Attach, Detach and restore runs in a goroutine of its own that    *)
(* waits in Connection.request; a slot of Requests is such a goroutine and *)
(* its request id.  The connection is reduced to its events and what they  *)
(* do to requests; module Connection has the rest.  The server is external *)
(* and modelled from the use of its frames.  Messages and the cursor are   *)
(* in module Delivery; callers that join an attempt change no state.       *)
(***************************************************************************)
EXTENDS Integers, Sequences, FiniteSets

CONSTANTS
    Instances, \* Channel instances that Get may create, one after the other
    Requests,  \* slots for requests
    MaxEpoch,  \* bound: the attach attempts started
    MaxEvents, \* bound: the lag of the dispatcher, in connection events
    Denials,   \* outcomes of a sub other than ok
    Ends,      \* the ends of the connection that may occur
    None

ASSUME ChannelAssumption ==
    /\ MaxEpoch \in Nat
    /\ MaxEvents \in Nat
    /\ Denials \subseteq {"capability", "error"}
    /\ Ends \subseteq {"failed", "closed"}
    /\ None \notin Instances

VARIABLES
    \* the connection
    conn,       \* c.state, without the states on the way to connected
    hasConnectedBefore,
    restoring,  \* completeConnect is about to restore the subscriptions
    desired,    \* the name is in c.desiredSubs
    epoch,      \* c.subEpochs[name]
    hooks,      \* the instance whose callbacks are c.hooks[name], or None
    events,     \* state changes the dispatcher has not run yet
    \* the socket and the server
    toServer,   \* frames to the server, in order
    toClient,   \* answers to the client, in order
    subscribed, \* the server delivers the channel to this connection
    \* the channels
    byName,     \* Channels.byName[name], or None
    created,    \* the instances that exist
    listening,  \* the instances whose connection listener is registered
    releasing,  \* where the Release of an instance is
    state,      \* ch.state
    attaching,  \* ch.attaching is set
    request,    \* the goroutines in request
    overlapped, \* history: an attach and a detach have overlapped
    parted      \* history: a request was refused or given up, or the connection ended

connVars    == <<conn, hasConnectedBefore, restoring>>
intentVars  == <<desired, epoch>>
wireVars    == <<toServer, toClient, subscribed>>
registryVars == <<hooks, byName, created, listening, releasing>>
channelVars == <<state, attaching>>
vars == <<connVars, intentVars, events, wireVars, registryVars, channelVars,
          request, overlapped, parted>>

ChannelStates == {"initialized", "attaching", "attached", "detaching", "detached",
                  "suspended", "failed"}
ConnStates == {"disconnected", "connected", "failed", "closed"}
Kinds == {"attach", "detach", "restore"}

\* Where a request is: "remember" and "epoch" come before it, "forget" and "mark"
\* after its outcome.
Stages == {"idle", "remember", "epoch", "connect", "sent", "forget", "mark"}
Outcomes == {"none", "ok", "capability", "error"}
RequestRecords == [kind : Kinds, owner : Instances \cup {None}, stage : Stages,
                   epoch : Nat, outcome : Outcomes]
Frames == [op : {"sub", "unsub"}, id : Requests]
Answers == [id : Requests, outcome : Outcomes]

Idle(r) == request[r].stage = "idle"
New(k, i, s) == [kind |-> k, owner |-> i, stage |-> s, epoch |-> 0, outcome |-> "none"]
NoRequest == New("restore", None, "idle")

TypeOK ==
    /\ conn \in ConnStates
    /\ hasConnectedBefore \in BOOLEAN
    /\ restoring \in BOOLEAN
    /\ desired \in BOOLEAN
    /\ epoch \in Nat
    /\ hooks \in Instances \cup {None}
    /\ events \in Seq(ConnStates)
    /\ toServer \in Seq(Frames)
    /\ toClient \in Seq(Answers)
    /\ subscribed \in BOOLEAN
    /\ byName \in Instances \cup {None}
    /\ created \subseteq Instances
    /\ listening \subseteq created
    /\ releasing \in [Instances -> {"no", "unregister", "detach", "done"}]
    /\ state \in [Instances -> ChannelStates]
    /\ attaching \in [Instances -> BOOLEAN]
    /\ request \in [Requests -> RequestRecords]
    /\ overlapped \in BOOLEAN
    /\ parted \in BOOLEAN

Init ==
    /\ conn = "disconnected"
    /\ hasConnectedBefore = FALSE
    /\ restoring = FALSE
    /\ desired = FALSE
    /\ epoch = 0
    /\ hooks = None
    /\ events = <<>>
    /\ toServer = <<>>
    /\ toClient = <<>>
    /\ subscribed = FALSE
    /\ byName = None
    /\ created = {}
    /\ listening = {}
    /\ releasing = [i \in Instances |-> "no"]
    /\ state = [i \in Instances |-> "initialized"]
    /\ attaching = [i \in Instances |-> FALSE]
    /\ request = [r \in Requests |-> NoRequest]
    /\ overlapped = FALSE
    /\ parted = FALSE

-----------------------------------------------------------------------------
(* Helpers. *)

\* nextID++: an id that no goroutine and no frame refers to.
FreshId(r) ==
    /\ Idle(r)
    /\ \A n \in DOMAIN toServer : toServer[n].id # r
    /\ \A n \in DOMAIN toClient : toClient[n].id # r

Under(k) == \E r \in Requests : request[r].kind = k /\ ~Idle(r)
DetachAt(stage) == \E r \in Requests : request[r].stage = stage /\ request[r].kind = "detach"

\* A Detach that has begun, or a Release that is about to begin one, has not read the epoch.
DetachPending ==
    \/ DetachAt("epoch")
    \/ \E i \in Instances : releasing[i] \in {"unregister", "detach"}

\* emitStateLocked: the change waits in the dispatcher's queue.
Emit(c) == events' = Append(events, c)
RoomForEvent == Len(events) < MaxEvents

\* The request q returns.  Only a capability error makes runAttach forget the intent, and
\* a Detach forgets it with any outcome.
Returned(q, outcome) ==
    CASE q.kind = "detach"       -> [q EXCEPT !.stage = "forget"]
      [] outcome = "capability"  -> [q EXCEPT !.stage = "forget", !.outcome = outcome]
      [] OTHER                   -> [q EXCEPT !.stage = "mark", !.outcome = outcome]

Returns(r, outcome) == request' = [request EXCEPT ![r] = Returned(@, outcome)]

\* failPendingLocked: every registered request gets an error.
FailPending ==
    request' = [r \in Requests |-> IF request[r].stage = "sent"
                                   THEN Returned(request[r], "error")
                                   ELSE request[r]]

\* The goroutine of r ends.
Finish(r) == request' = [request EXCEPT ![r] = NoRequest]

LosesFrames == toServer' = <<>> /\ toClient' = <<>> /\ subscribed' = FALSE

-----------------------------------------------------------------------------
(* The connection, reduced to what the channels see of it. *)

(* Mutant: nothing is restored after a reconnect. *)
ConnectsAnew ==
    /\ conn # "connected"
    /\ ~restoring
    /\ RoomForEvent
    /\ conn' = "connected"
    /\ hasConnectedBefore' = TRUE
    /\ restoring' = FALSE
    /\ Emit("connected")
    /\ UNCHANGED <<intentVars, wireVars, registryVars, channelVars, request,
                   overlapped, parted>>

\* completeConnect: the state changes, then the subscriptions are restored.  No other
\* attempt begins before that is done.
Connects ==
    /\ conn # "connected"
    /\ ~restoring
    /\ RoomForEvent
    /\ conn' = "connected"
    /\ hasConnectedBefore' = TRUE
    /\ restoring' = hasConnectedBefore
    /\ Emit("connected")
    /\ UNCHANGED <<intentVars, wireVars, registryVars, channelVars, request,
                   overlapped, parted>>

\* restoreSubscriptionsOnReconnect: one goroutine re-issues the sub and reports to the
\* instance that has the hooks now.
Restore ==
    /\ restoring
    /\ restoring' = FALSE
    /\ IF desired
       THEN /\ \E r \in Requests :
                  /\ FreshId(r)
                  /\ request' = [request EXCEPT ![r] = New("restore", hooks, "connect")]
            /\ overlapped' = (overlapped \/ Under("detach"))
       ELSE UNCHANGED <<request, overlapped>>
    /\ UNCHANGED <<conn, hasConnectedBefore, intentVars, events, wireVars,
                   registryVars, channelVars, parted>>

\* handleSocketClose of a connected client; what is under way on the socket is lost.
SocketClosed ==
    /\ conn = "connected"
    /\ RoomForEvent
    /\ conn' = "disconnected"
    /\ LosesFrames
    /\ FailPending
    /\ Emit("disconnected")
    /\ UNCHANGED <<hasConnectedBefore, restoring, intentVars, registryVars, channelVars,
                   overlapped, parted>>

\* A connect attempt ends without a connection: another drop for the listeners, or the
\* end when the credential was rejected (handleSocketClose with fatalErr).
AttemptFails ==
    /\ conn # "connected"
    /\ ~restoring
    /\ RoomForEvent
    /\ \E c \in {"disconnected"} \cup (Ends \cap {"failed"}) :
          /\ conn' = c
          /\ Emit(c)
          /\ parted' = (parted \/ c = "failed")
    /\ UNCHANGED <<hasConnectedBefore, restoring, intentVars, wireVars,
                   registryVars, channelVars, request, overlapped>>

\* Connection.Close.
Close ==
    /\ "closed" \in Ends
    /\ conn # "closed"
    /\ RoomForEvent
    /\ conn' = "closed"
    /\ LosesFrames
    /\ FailPending
    /\ Emit("closed")
    /\ parted' = TRUE
    /\ UNCHANGED <<hasConnectedBefore, restoring, intentVars, registryVars, channelVars,
                   overlapped>>

-----------------------------------------------------------------------------
(* Requests (connection.go:382-410) and their answers. *)

Op(k) == IF k = "detach" THEN "unsub" ELSE "sub"

\* The client is connected: the id is registered and the frame written.
Send(r) ==
    /\ request[r].stage = "connect"
    /\ conn = "connected"
    /\ request' = [request EXCEPT ![r].stage = "sent"]
    /\ toServer' = Append(toServer, [op |-> Op(request[r].kind), id |-> r])
    /\ UNCHANGED <<connVars, intentVars, events, toClient, subscribed, registryVars,
                   channelVars, overlapped, parted>>

\* Connect fails, or the write, on a socket that is gone.  (The listeners are behind, so a
\* write that fails before the end of its socket is noticed looks no different.)
SendFails(r) ==
    /\ request[r].stage = "connect"
    /\ conn # "connected"
    /\ Returns(r, "error")
    /\ UNCHANGED <<connVars, intentVars, events, wireVars, registryVars, channelVars,
                   overlapped, parted>>

\* The context of a Detach ends while it waits; its frame may be under way.
Cancel(r) ==
    /\ request[r].kind = "detach"
    /\ request[r].stage \in {"connect", "sent"}
    /\ Returns(r, "error")
    /\ parted' = TRUE
    /\ UNCHANGED <<connVars, intentVars, events, wireVars, registryVars, channelVars,
                   overlapped>>

\* The server (external) handles the next frame.
ServerAnswers ==
    /\ toServer # <<>>
    /\ LET f == Head(toServer) IN
       \E a \in {"ok"} \cup (IF f.op = "sub" THEN Denials ELSE Denials \ {"capability"}) :
          /\ toClient' = Append(toClient, [id |-> f.id, outcome |-> a])
          /\ subscribed' = IF a = "ok" THEN f.op = "sub" ELSE subscribed
          /\ parted' = (parted \/ a # "ok")
    /\ toServer' = Tail(toServer)
    /\ UNCHANGED <<connVars, intentVars, events, registryVars, channelVars, request,
                   overlapped>>

\* handleFrame: the answer goes to the request that waits for it.  An error that
\* nobody waits for is reported as an event of the current state.
ReadAnswer ==
    /\ toClient # <<>>
    /\ LET a == Head(toClient) IN
       IF request[a.id].stage = "sent"
       THEN Returns(a.id, a.outcome) /\ UNCHANGED events
       ELSE /\ UNCHANGED request
            /\ IF a.outcome = "ok" THEN UNCHANGED events ELSE RoomForEvent /\ Emit(conn)
    /\ toClient' = Tail(toClient)
    /\ UNCHANGED <<connVars, intentVars, toServer, subscribed, registryVars, channelVars,
                   overlapped, parted>>

-----------------------------------------------------------------------------
(* Attach (channel.go:301-367). *)

AttachBegins(i) ==
    /\ byName = i
    /\ state[i] # "attached"
    /\ ~attaching[i]
    /\ epoch < MaxEpoch
    /\ \E r \in Requests :
          /\ FreshId(r)
          /\ request' = [request EXCEPT ![r] = New("attach", i, "remember")]
    /\ attaching' = [attaching EXCEPT ![i] = TRUE]
    /\ state' = [state EXCEPT ![i] = "attaching"]
    /\ overlapped' = (overlapped \/ Under("attach") \/ DetachPending)
    /\ parted' = (parted \/ DetachAt("connect"))
    /\ UNCHANGED <<connVars, intentVars, events, wireVars, registryVars>>

\* rememberSubscription; then runAttach starts.
Remember(r) ==
    /\ request[r].stage = "remember"
    /\ desired' = TRUE
    /\ epoch' = epoch + 1
    /\ request' = [request EXCEPT ![r].stage = "connect"]
    /\ UNCHANGED <<connVars, events, wireVars, registryVars, channelVars, overlapped,
                   parted>>

\* runAttach has its outcome: only a capability error forgets the intent.
AttachForgets(r) ==
    /\ request[r].kind = "attach"
    /\ request[r].stage = "forget"
    /\ desired' = FALSE
    /\ request' = [request EXCEPT ![r].stage = "mark"]
    /\ UNCHANGED <<epoch, connVars, events, wireVars, registryVars, channelVars,
                   overlapped, parted>>

StateAfterAttach(outcome) ==
    CASE outcome = "ok"         -> "attached"
      [] outcome = "capability" -> "failed"
      [] OTHER                  -> "suspended"

AttachMarks(r) ==
    /\ request[r].kind = "attach"
    /\ request[r].stage = "mark"
    /\ LET i == request[r].owner IN
       /\ attaching' = [attaching EXCEPT ![i] = FALSE]
       /\ state' = [state EXCEPT ![i] = StateAfterAttach(request[r].outcome)]
    /\ Finish(r)
    /\ UNCHANGED <<connVars, intentVars, events, wireVars, registryVars, overlapped,
                   parted>>

-----------------------------------------------------------------------------
(* Detach (channel.go:369-403). *)

\* The first critical section; Detach returns at once in the other states.
DetachBegins(i) ==
    /\ state[i] \notin {"initialized", "detached", "detaching"}
    /\ \E r \in Requests :
          /\ FreshId(r)
          /\ request' = [request EXCEPT ![r] = New("detach", i, "epoch")]
    /\ state' = [state EXCEPT ![i] = "detaching"]
    /\ overlapped' = (overlapped \/ Under("attach") \/ Under("restore"))
    /\ UNCHANGED <<connVars, intentVars, events, wireVars, attaching, parted>>

\* The application detaches the instance it has from Get.
Detach(i) ==
    /\ byName = i
    /\ DetachBegins(i)
    /\ UNCHANGED registryVars

\* subscriptionEpoch, in a critical section of its own.
ReadEpoch(r) ==
    /\ request[r].stage = "epoch"
    /\ request' = [request EXCEPT ![r].stage = "connect", ![r].epoch = epoch]
    /\ UNCHANGED <<connVars, intentVars, events, wireVars, registryVars, channelVars,
                   overlapped, parted>>

(* Mutant: the forget ignores the epoch. *)
DetachForgetsAny(r) ==
    /\ request[r].kind = "detach"
    /\ request[r].stage = "forget"
    /\ desired' = FALSE
    /\ request' = [request EXCEPT ![r].stage = "mark", ![r].epoch = 0]
    /\ UNCHANGED <<epoch, connVars, events, wireVars, registryVars, channelVars, overlapped,
                   parted>>

(* Mutant: the comparison of the epochs is turned round. *)
DetachForgetsNewer(r) ==
    /\ request[r].kind = "detach"
    /\ request[r].stage = "forget"
    /\ desired' = (desired /\ request[r].epoch = epoch)
    /\ request' = [request EXCEPT ![r].stage = "mark", ![r].epoch = 0]
    /\ UNCHANGED <<epoch, connVars, events, wireVars, registryVars, channelVars, overlapped,
                   parted>>

\* forgetSubscription, whatever the outcome, unless an attach has come in between.
DetachForgets(r) ==
    /\ request[r].kind = "detach"
    /\ request[r].stage = "forget"
    /\ desired' = (desired /\ request[r].epoch # epoch)
    /\ request' = [request EXCEPT ![r].stage = "mark", ![r].epoch = 0]
    /\ UNCHANGED <<epoch, connVars, events, wireVars, registryVars, channelVars,
                   overlapped, parted>>

DetachMarks(r) ==
    /\ request[r].kind = "detach"
    /\ request[r].stage = "mark"
    /\ LET i == request[r].owner IN
       state' = IF state[i] = "detaching" THEN [state EXCEPT ![i] = "detached"] ELSE state
    /\ Finish(r)
    /\ UNCHANGED <<attaching, connVars, intentVars, events, wireVars, registryVars,
                   overlapped, parted>>

-----------------------------------------------------------------------------
(* The restore's answer and the connection events (channel.go:780-841). *)

\* onResumed, if the server acknowledged the sub; otherwise the restore is given up.
Resumed(r) ==
    /\ request[r].kind = "restore"
    /\ request[r].stage \in {"forget", "mark"}
    /\ LET i == request[r].owner IN
       state' = IF /\ request[r].outcome = "ok"
                   /\ i # None
                   /\ state[i] \in {"attaching", "suspended", "attached"}
                THEN [state EXCEPT ![i] = "attached"]
                ELSE state
    /\ Finish(r)
    /\ UNCHANGED <<attaching, connVars, intentVars, events, wireVars, registryVars,
                   overlapped, parted>>

Live(s) == s \notin {"initialized", "detached", "failed"}

\* onConnectionState.
After(s, c) ==
    CASE c = "disconnected" /\ s = "attached" -> "suspended"
      [] c = "connected" /\ s = "suspended"   -> "attaching"
      [] c = "failed" /\ Live(s)              -> "failed"
      [] c = "closed" /\ Live(s)              -> "detached"
      [] OTHER                                -> s

\* The dispatcher runs the next event: each listener moves its own channel.
Dispatch ==
    /\ events # <<>>
    /\ state' = [i \in Instances |->
                    IF i \in listening THEN After(state[i], Head(events)) ELSE state[i]]
    /\ events' = Tail(events)
    /\ UNCHANGED <<attaching, connVars, intentVars, wireVars, registryVars, request,
                   overlapped, parted>>

-----------------------------------------------------------------------------
(* The registry (realtime.go:229-276). *)

\* Channels.Get makes an instance when the name has none; newChannel registers it.
Get(i) ==
    /\ byName = None
    /\ i \notin created
    /\ byName' = i
    /\ created' = created \cup {i}
    /\ hooks' = i
    /\ listening' = listening \cup {i}
    /\ UNCHANGED <<releasing, connVars, intentVars, events, wireVars, channelVars,
                   request, overlapped, parted>>

\* Release takes the instance out of the registry,
ReleaseBegins(i) ==
    /\ byName = i
    /\ byName' = None
    /\ releasing' = [releasing EXCEPT ![i] = "unregister"]
    /\ UNCHANGED <<hooks, created, listening, connVars, intentVars, events, wireVars,
                   channelVars, request, overlapped, parted>>

\* unregisters the hooks of its name, whosever they are now, and its listener,
ReleaseUnregisters(i) ==
    /\ releasing[i] = "unregister"
    /\ hooks' = None
    /\ listening' = listening \ {i}
    /\ releasing' = [releasing EXCEPT ![i] = "detach"]
    /\ UNCHANGED <<byName, created, connVars, intentVars, events, wireVars, channelVars,
                   request, overlapped, parted>>

\* and detaches it from a goroutine.
ReleaseDetaches(i) ==
    /\ releasing[i] = "detach"
    /\ releasing' = [releasing EXCEPT ![i] = "done"]
    /\ \/ DetachBegins(i)
       \/ /\ state[i] \in {"initialized", "detached", "detaching"}
          /\ UNCHANGED <<connVars, intentVars, events, wireVars, channelVars, request,
                         overlapped, parted>>
    /\ UNCHANGED <<hooks, byName, created, listening>>

-----------------------------------------------------------------------------
RequestStep(r) ==
    \/ Remember(r) \/ AttachForgets(r) \/ AttachMarks(r)
    \/ ReadEpoch(r) \/ DetachForgets(r) \/ DetachMarks(r)
    \/ Resumed(r)
    \/ Send(r) \/ SendFails(r)

Next ==
    \/ Connects \/ Restore \/ SocketClosed \/ AttemptFails \/ Close
    \/ ServerAnswers \/ ReadAnswer \/ Dispatch
    \/ \E r \in Requests : RequestStep(r) \/ Cancel(r)
    \/ \E i \in Instances : \/ Get(i) \/ AttachBegins(i) \/ Detach(i)
                            \/ ReleaseBegins(i) \/ ReleaseUnregisters(i)
                            \/ ReleaseDetaches(i)

Spec == Init /\ [][Next]_vars

-----------------------------------------------------------------------------
(* Properties. *)

\* TLC follows a behaviour until an attach and a detach overlap.
BeforeOverlap == ~overlapped

\* Nothing is under way on a connected client.
Quiet ==
    /\ conn = "connected"
    /\ ~restoring
    /\ events = <<>> /\ toServer = <<>> /\ toClient = <<>>
    /\ \A r \in Requests : Idle(r)

IntentLive(i) == byName = i /\ state[i] \in {"attached", "suspended"} /\ ~attaching[i]

(* The channel an application has attached is one the next reconnect restores: neither a  *)
(* late end of a Detach that the attach followed, nor one of a released instance of the   *)
(* name, nor a failure on the way takes it out of desiredSubs (the epochs at              *)
(* connection.go:610-641; "stay remembered", channel.go:360).  Excepted are attaches that *)
(* overlap a Detach on its way to the epoch, or another attach of the name, see README.   *)
AttachedIsRemembered ==
    \A i \in Instances : IntentLive(i) => desired \/ overlapped

(* Once all is quiet a channel that shows attached is one the server delivers: drops,     *)
(* restores and acks that are handled late or after the next reconnect do not leave it    *)
(* attached in name only (runAttach, onResumed, onConnectionState, channel.go:337-367,    *)
(* 784-834), unless the server refused something or a Detach gave up.                     *)
AttachedIsSubscribed ==
    \A i \in Instances :
        Quiet /\ byName = i /\ state[i] = "attached"
        => subscribed \/ overlapped \/ parted

(* Once all is quiet and no instance of the name is attached, neither the server nor the  *)
(* next reconnect delivers the channel: Detach and Release undo an attach completely,     *)
(* with drops and restores at any point (channel.go:374-403, realtime.go:261-276).        *)
(* overlapped excuses a Detach that met an attach or a restore on its way, parted one     *)
(* that was refused, gave up or found a newer attach, and a connection that ended.        *)
DetachedIsForgotten ==
    /\ Quiet
    /\ \A i \in Instances : /\ state[i] \in {"initialized", "detached"}
                            /\ releasing[i] \in {"no", "done"}
    => (~desired /\ ~subscribed) \/ overlapped \/ parted

(* What the doc of Attach says (channel.go:305-307): a channel whose attach failed in      *)
(* transit "moves to [ChannelSuspended] and re-attaches on reconnect".  So no channel     *)
(* is left suspended or attaching on a connected client on which nothing is under way.    *)
SuspendedReattaches ==
    Quiet => \A i \in Instances : byName = i => state[i] \notin {"attaching", "suspended"}
=============================================================================
