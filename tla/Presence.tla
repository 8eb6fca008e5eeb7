------------------------------- MODULE Presence -------------------------------
(***************************************************************************)
(* The presence surface of one channel (src/presence.go) over the emitter  *)
(* that holds its listeners (src/emitter.go), the dispatcher that runs     *)
(* them and the restore of a reconnect (src/connection.go:1026-1086).      *)
(*                                                                         *)
(* The watcher follows the listener count: the first listener opens it and *)
(* the removal of the last closes it, each with a request that a goroutine *)
(* of its own sends.  The membership (entered) is announced by a request   *)
(* of the call and again by the restore.  One action is one critical       *)
(* section of p.mu, e.mu, d.mu or c.mu, or one step of a request; only     *)
(* maybeStopWatching, which takes e.mu while it holds p.mu, is two.        *)
(***************************************************************************)
EXTENDS Dispatcher

CONSTANTS
    Tasks,       \* goroutines of the application that call presence methods
    Listeners,   \* registration ids (emitter.nextID): numbers, never reused
    CatchAll,    \* those registered by Subscribe, the others are On or Once
    OneShot,     \* those registered by Once
    Requests,    \* slots for the goroutines in Connection.request
    Data         \* what Enter and Update announce

ASSUME PresenceAssumption ==
    /\ Listeners \subseteq Nat
    /\ CatchAll \cup OneShot \subseteq Listeners
    /\ CatchAll \cap OneShot = {}
    /\ None \notin Data \cup Tasks \cup Drainers
    /\ Tasks \cap Drainers = {}

VARIABLES
    watching,   \* p.watching
    entered,    \* p.entered, None for nil
    remembered, \* the channel is in c.desiredPresence
    listeners,  \* the registrations in e.all and e.byEvent
    nextID,     \* the highest id given so far
    fired,      \* the one-shot listeners that were called
    thread,     \* what each task and drainer still has to do
    calls,      \* those of each drainer's snapshot that it has not called yet
    emitting,   \* the emit of each drainer: none, and whether it dropped a listener
    request,    \* the goroutines in Connection.request
    wire,       \* the requests written to the socket, in order
    answers,    \* the answers on their way back
    up,         \* the connection is connected
    restore,    \* what the reconnect's restore does next
    connected,  \* c.hasConnectedBefore
    watched,    \* the server sends this connection presence events
    member,     \* what this connection has in the server's presence set
    raced,      \* history: which of the two conversations has overlapped
    cleared     \* history: watching was reset although listeners may remain

localVars == <<watching, entered, remembered>>
emitVars  == <<listeners, nextID, fired, thread, calls, emitting>>
reqVars   == <<request, wire, answers>>
netVars   == <<up, restore, connected, watched, member>>
histVars  == <<raced, cleared>>
vars == <<dispatchVars, localVars, emitVars, reqVars, netVars, histVars>>

Threads == Tasks \cup Drainers
Phases == {"idle", "ensure", "remember", "stop", "counted", "forget", "detach", "unsub"}
WatchKinds == {"sub", "reopen", "unsub", "detach"}
MemberKinds == {"enter", "leave", "detach"}

TypeOK ==
    /\ DispatchTypeOK
    /\ watching \in BOOLEAN /\ remembered \in BOOLEAN
    /\ entered \in Data \cup {None}
    /\ listeners \subseteq Listeners /\ fired \subseteq OneShot
    /\ nextID \in Listeners \cup {0}
    /\ thread \in [Threads -> Phases]
    /\ calls \in [Drainers -> SUBSET Listeners]
    /\ emitting \in [Drainers -> {"no", "kept", "dropped"}]
    /\ request \in [Requests -> [pc : {"idle", "attach", "connect", "wire", "denied",
                                       "reset", "forget"},
                                 kind : WatchKinds \cup MemberKinds,
                                 data : Data \cup {None}]]
    /\ wire \in Seq(Requests)
    /\ answers \subseteq Requests \X {"ok", "refused"}
    /\ up \in BOOLEAN /\ connected \in BOOLEAN /\ watched \in BOOLEAN
    /\ restore \in {"no", "collect", "reopen", "reenter"}
    /\ member \in Data \cup {None}
    /\ raced \subseteq {"watch", "member"} /\ cleared \in BOOLEAN

IdleRequest == [pc |-> "idle", kind |-> "sub", data |-> None]

Init ==
    /\ DispatchInit
    /\ watching = FALSE /\ entered = None /\ remembered = FALSE
    /\ listeners = {} /\ nextID = 0 /\ fired = {}
    /\ thread = [t \in Threads |-> "idle"]
    /\ calls = [d \in Drainers |-> {}]
    /\ emitting = [d \in Drainers |-> "no"]
    /\ request = [r \in Requests |-> IdleRequest]
    /\ wire = <<>> /\ answers = {}
    /\ up = FALSE /\ restore = "no" /\ connected = FALSE
    /\ watched = FALSE /\ member = None
    /\ raced = {} /\ cleared = FALSE

-----------------------------------------------------------------------------
(* Shared pieces. *)

Goes(t, phase) == thread' = [thread EXCEPT ![t] = phase]

(* emitter.hasAny *)
HasAny == listeners # {}

(* Mutant: the listeners are counted before p.mu is taken. *)
CountedUnlocked == TRUE

(* p.mu is free.  Among its sections only maybeStopWatching is two steps:  *)
(* it holds p.mu from the count of the listeners to the write of watching, *)
(* and registrations, which take e.mu alone, come in between.              *)
Unlocked == \A t \in Threads : thread[t] # "counted"

InFlight(kinds) == \E r \in Requests : request[r].pc # "idle" /\ request[r].kind \in kinds

(* `go func() { conn.request(...) }()`: a goroutine that has not run yet.  *)
Spawn(pc, kind, data) ==
    \E r \in Requests :
        /\ request[r].pc = "idle"
        /\ request' = [request EXCEPT ![r] = [pc |-> pc, kind |-> kind, data |-> data]]
        /\ UNCHANGED <<wire, answers>>

(* History.  A conversation has overlapped when it takes a new turn before *)
(* the steps and requests of the turn before are through.                  *)
WatchBusy(t) ==
    \/ InFlight(WatchKinds)
    \/ restore \in {"collect", "reopen"}
    \/ \E x \in Threads \ {t} : thread[x] \in {"remember", "forget", "detach", "unsub"}
MemberBusy(t) ==
    \/ InFlight(MemberKinds)
    \/ restore # "no"
    \/ \E x \in Threads \ {t} : thread[x] \in {"detach", "unsub"}
Races(busy, what) == raced' = IF busy THEN raced \cup {what} ELSE raced

(* What requests that fail leave behind: the restore of the next reconnect *)
(* makes up for those that open, close or enter, and for no other.         *)
Unhealed(kinds) ==
    LET heals == IF ~up /\ connected THEN {"sub", "reopen", "unsub", "enter"} ELSE {}
        lost  == kinds \ heals
    IN  raced' = raced \cup (IF lost \cap WatchKinds = {} THEN {} ELSE {"watch"})
                      \cup (IF lost \cap MemberKinds = {} THEN {} ELSE {"member"})

-----------------------------------------------------------------------------
(* The listeners: Subscribe, On, Once, their unsubscribe functions and Off. *)

(* emitter.on and onEvent. *)
Register(l) == l > nextID /\ nextID' = l /\ listeners' = listeners \cup {l}

Add(t, l) ==
    /\ t \in Tasks /\ thread[t] = "idle"
    /\ Register(l)
    /\ Goes(t, "ensure")
    /\ UNCHANGED <<dispatchVars, localVars, fired, calls, emitting, reqVars, netVars,
                   histVars>>

(* ensureWatching: ask once. *)
EnsureWatching(t) ==
    /\ thread[t] = "ensure"
    /\ Unlocked
    /\ \/ watching /\ Goes(t, "idle") /\ UNCHANGED <<watching, histVars>>
       \/ /\ ~watching
          /\ watching' = TRUE
          /\ Goes(t, "remember")
          /\ Races(WatchBusy(t), "watch")
          /\ cleared' = FALSE
    /\ UNCHANGED <<dispatchVars, entered, remembered, listeners, nextID, fired, calls,
                   emitting, reqVars, netVars>>

Remember(t) ==
    /\ thread[t] = "remember"
    /\ remembered' = TRUE
    /\ Spawn("connect", "sub", None)
    /\ Goes(t, "idle")
    /\ UNCHANGED <<dispatchVars, watching, entered, listeners, nextID, fired, calls,
                   emitting, netVars, histVars>>

(* What was removed runs the hook; nothing to remove changes nothing. *)
Removes(t, gone) ==
    /\ t \in Tasks /\ thread[t] = "idle"
    /\ gone # {}
    /\ listeners' = listeners \ gone
    /\ Goes(t, "stop")
    /\ UNCHANGED <<dispatchVars, localVars, nextID, fired, calls, emitting, reqVars,
                   netVars, histVars>>

RemoveOne(t, l) == l \in listeners /\ Removes(t, {l})
OffAll(t) == Removes(t, listeners)

(* maybeStopWatching takes p.mu and counts the listeners, ... *)
MaybeStopWatching(t) ==
    /\ thread[t] = "stop"
    /\ Unlocked
    /\ \/ (~watching \/ HasAny) /\ Goes(t, "idle")
       \/ watching /\ ~HasAny /\ Goes(t, "counted")
    /\ UNCHANGED <<dispatchVars, localVars, listeners, nextID, fired, calls, emitting,
                   reqVars, netVars, histVars>>

(* ... and gives up the watcher when it has counted none. *)
StopsWatching(t) ==
    /\ thread[t] = "counted"
    /\ watching' = FALSE
    /\ Goes(t, "forget")
    /\ Races(WatchBusy(t), "watch")
    /\ UNCHANGED <<dispatchVars, entered, remembered, listeners, nextID, fired, calls,
                   emitting, reqVars, netVars, cleared>>

(* Mutant: the watcher is closed but stays among those to restore. *)
ForgetKeeps(t) ==
    /\ thread[t] = "forget"
    /\ Spawn("connect", "unsub", None)
    /\ Goes(t, "idle")
    /\ UNCHANGED <<dispatchVars, localVars, listeners, nextID, fired, calls, emitting,
                   netVars, histVars>>

Forget(t) ==
    /\ thread[t] = "forget"
    /\ remembered' = FALSE
    /\ Spawn("connect", "unsub", None)
    /\ Goes(t, "idle")
    /\ UNCHANGED <<dispatchVars, watching, entered, listeners, nextID, fired, calls,
                   emitting, netVars, histVars>>

-----------------------------------------------------------------------------
(* Events: emitPresence enqueues, the drainer emits. *)

(* A presence frame reaches the client: from the watcher, or still on its  *)
(* way when the watcher closed.                                            *)
EmitPresence(action) ==
    /\ up
    /\ Enqueue(action)
    /\ UNCHANGED <<localVars, emitVars, reqVars, netVars, histVars>>

(* The registrations that an event concerns: the catch-all ones and, when   *)
(* it matches their action, those of On and Once.                          *)
On(event) == {l \in listeners : l \in CatchAll \/ event = "match"}

(* Mutant: a one-shot registration outlives the emit that calls it. *)
SnapshotKeepsOneShot(d) ==
    LET on == On(drainer[d].fn)
    IN  /\ drainer[d].pc = "call" /\ emitting[d] = "no"
        /\ calls' = [calls EXCEPT ![d] = on]
        /\ emitting' = [emitting EXCEPT ![d] =
              IF on \cap OneShot = {} THEN "kept" ELSE "dropped"]
        /\ UNCHANGED <<dispatchVars, localVars, listeners, nextID, fired, thread,
                       reqVars, netVars, histVars>>

(* emitter.emit under e.mu: the listeners to call are copied and the       *)
(* one-shot ones among them dropped.                                       *)
Snapshot(d) ==
    LET on == On(drainer[d].fn)
    IN  /\ drainer[d].pc = "call" /\ emitting[d] = "no"
        /\ calls' = [calls EXCEPT ![d] = on]
        /\ listeners' = listeners \ (on \cap OneShot)
        /\ emitting' = [emitting EXCEPT ![d] =
              IF on \cap OneShot = {} THEN "kept" ELSE "dropped"]
        /\ UNCHANGED <<dispatchVars, localVars, nextID, fired, thread, reqVars,
                       netVars, histVars>>

(* The catch-all listeners, then those of the event, each group in the     *)
(* order of registration.                                                  *)
Before(l, m) ==
    \/ l \in CatchAll /\ m \notin CatchAll
    \/ (l \in CatchAll <=> m \in CatchAll) /\ l < m

CallListener(d) ==
    \E l \in calls[d] :
        /\ \A m \in calls[d] \ {l} : Before(l, m)
        /\ fired' = fired \cup ({l} \cap OneShot)
        /\ calls' = [calls EXCEPT ![d] = @ \ {l}]
        /\ UNCHANGED <<dispatchVars, localVars, listeners, nextID, thread, emitting,
                       reqVars, netVars, histVars>>

EmitRunsHook(d) ==
    /\ emitting[d] = "dropped" /\ calls[d] = {}
    /\ emitting' = [emitting EXCEPT ![d] = "kept"]
    /\ Goes(d, "stop")
    /\ UNCHANGED <<dispatchVars, localVars, listeners, nextID, fired, calls, reqVars,
                   netVars, histVars>>

EmitReturns(d) ==
    /\ emitting[d] = "kept" /\ calls[d] = {} /\ thread[d] = "idle"
    /\ emitting' = [emitting EXCEPT ![d] = "no"]
    /\ Return(d)
    /\ UNCHANGED <<localVars, listeners, nextID, fired, thread, calls, reqVars, netVars,
                   histVars>>

Drain(d) ==
    /\ Take(d) \/ Exit(d)
    /\ UNCHANGED <<localVars, emitVars, reqVars, netVars, histVars>>

-----------------------------------------------------------------------------
(* The membership: Enter, Update and Leave, each of which attaches first.  *)

Enter(data) ==
    /\ Unlocked
    /\ entered' = data
    /\ Spawn("attach", "enter", data)
    /\ Races(MemberBusy(None), "member")
    /\ UNCHANGED <<dispatchVars, watching, remembered, emitVars, netVars, cleared>>

(* Mutant: an empty membership is kept instead of none. *)
LeaveEmpties ==
    /\ Unlocked
    /\ entered' = "empty"
    /\ Spawn("attach", "leave", None)
    /\ Races(MemberBusy(None), "member")
    /\ UNCHANGED <<dispatchVars, watching, remembered, emitVars, netVars, cleared>>

Leave ==
    /\ Unlocked
    /\ entered' = None
    /\ Spawn("attach", "leave", None)
    /\ Races(MemberBusy(None), "member")
    /\ UNCHANGED <<dispatchVars, watching, remembered, emitVars, netVars, cleared>>

(* Channel.Detach: presence is forgotten before the unsub is sent. *)
Detach(t) ==
    /\ t \in Tasks /\ thread[t] = "idle"
    /\ Goes(t, "detach")
    /\ UNCHANGED <<dispatchVars, localVars, listeners, nextID, fired, calls, emitting,
                   reqVars, netVars, histVars>>

OnDetached(t) ==
    /\ thread[t] = "detach"
    /\ Unlocked
    /\ watching' = FALSE /\ cleared' = TRUE
    /\ entered' = None
    /\ raced' = raced \cup (IF WatchBusy(t) THEN {"watch"} ELSE {})
                      \cup (IF MemberBusy(t) THEN {"member"} ELSE {})
    /\ Goes(t, "unsub")
    /\ UNCHANGED <<dispatchVars, remembered, listeners, nextID, fired, calls, emitting,
                   reqVars, netVars>>

DetachForgets(t) ==
    /\ thread[t] = "unsub"
    /\ remembered' = FALSE
    /\ Spawn("connect", "detach", None)
    /\ Goes(t, "idle")
    /\ UNCHANGED <<dispatchVars, watching, entered, listeners, nextID, fired, calls,
                   emitting, netVars, histVars>>

-----------------------------------------------------------------------------
(* The requests. *)

Pc(r, pc) == request' = [request EXCEPT ![r].pc = pc]
Ends(r) == request' = [request EXCEPT ![r] = IdleRequest]

Attached(r) ==
    /\ request[r].pc = "attach"
    /\ Pc(r, "connect")
    /\ UNCHANGED <<dispatchVars, localVars, emitVars, wire, answers, netVars, histVars>>

(* Attach fails, or Connect does. *)
Fails(r) ==
    /\ request[r].pc = "attach" \/ (request[r].pc = "connect" /\ ~up)
    /\ Ends(r)
    /\ Unhealed({request[r].kind})
    /\ UNCHANGED <<dispatchVars, localVars, emitVars, wire, answers, netVars, cleared>>

Write(r) ==
    /\ request[r].pc = "connect" /\ up
    /\ wire' = Append(wire, r)
    /\ Pc(r, "wire")
    /\ UNCHANGED <<dispatchVars, localVars, emitVars, answers, netVars, histVars>>

(* The server handles the frames of a socket in order; it may refuse a     *)
(* presence request, for lack of the capability or for another reason.     *)
ServerAnswers ==
    /\ wire # <<>>
    /\ LET r == Head(wire)
           kind == request[r].kind
       IN  \/ /\ answers' = answers \cup {<<r, "ok">>}
              /\ watched' = CASE kind \in {"sub", "reopen"} -> TRUE
                              [] kind \in {"unsub", "detach"} -> FALSE
                              [] OTHER -> watched
              /\ member' = IF kind \in MemberKinds THEN request[r].data ELSE member
           \/ /\ kind \in {"sub", "reopen", "enter"}
              /\ answers' = answers \cup {<<r, "refused">>}
              /\ UNCHANGED <<watched, member>>
    /\ wire' = Tail(wire)
    /\ UNCHANGED <<dispatchVars, localVars, emitVars, request, up, restore, connected,
                   histVars>>

(* Of the refusals only a capability error is looked at, and only by the   *)
(* goroutine of ensureWatching; every other one ends its request.          *)
ReadAnswer(r) ==
    /\ \/ /\ <<r, "ok">> \in answers
          /\ Ends(r)
          /\ UNCHANGED raced
       \/ /\ <<r, "refused">> \in answers
          /\ \/ request[r].kind = "sub" /\ Pc(r, "denied")
             \/ Ends(r)
          /\ raced' = raced \cup (IF request[r].kind \in WatchKinds THEN {"watch"}
                                                                  ELSE {"member"})
    /\ answers' = {a \in answers : a[1] # r}
    /\ UNCHANGED <<dispatchVars, localVars, emitVars, wire, netVars, cleared>>

(* ensureWatching's goroutine after a capability error: give up when no    *)
(* listener is left, in three critical sections.                           *)
Denied(r) ==
    /\ request[r].pc = "denied"
    /\ IF HasAny THEN Ends(r) ELSE Pc(r, "reset")
    /\ UNCHANGED <<dispatchVars, localVars, emitVars, wire, answers, netVars, histVars>>

ResetWatching(r) ==
    /\ request[r].pc = "reset"
    /\ Unlocked
    /\ watching' = FALSE /\ cleared' = TRUE
    /\ Pc(r, "forget")
    /\ UNCHANGED <<dispatchVars, entered, remembered, emitVars, wire, answers, netVars,
                   raced>>

ForgetDenied(r) ==
    /\ request[r].pc = "forget"
    /\ remembered' = FALSE
    /\ Ends(r)
    /\ UNCHANGED <<dispatchVars, watching, entered, emitVars, wire, answers, netVars,
                   histVars>>

-----------------------------------------------------------------------------
(* The connection: drops, and the reconnects that restore.                 *)

(* The socket ends: failPendingLocked.  The server forgets the watcher; it *)
(* keeps the membership when the next connection resumes this one in time. *)
Drop ==
    /\ up
    /\ up' = FALSE
    /\ wire' = <<>> /\ answers' = {}
    /\ request' = [r \in Requests |-> IF request[r].pc = "wire" THEN IdleRequest
                                                               ELSE request[r]]
    /\ watched' = FALSE
    /\ member' \in {member, None}
    /\ LET kinds == {request[r].kind : r \in {q \in Requests : request[q].pc = "wire"}}
       IN  raced' = IF kinds \cap {"leave", "detach"} = {} THEN raced
                                                          ELSE raced \cup {"member"}
    /\ UNCHANGED <<dispatchVars, localVars, emitVars, restore, connected, cleared>>

Connect ==
    /\ ~up /\ restore = "no"
    /\ up' = TRUE /\ connected' = TRUE
    /\ restore' = IF connected THEN "collect" ELSE "no"
    /\ UNCHANGED <<dispatchVars, localVars, emitVars, reqVars, watched, member, histVars>>

(* restoreSubscriptionsOnReconnect reads the watchers to reopen, ... *)
RestoreCollects ==
    /\ restore = "collect"
    /\ restore' = IF remembered THEN "reopen" ELSE "reenter"
    /\ Races(\E t \in Threads : thread[t] \in {"forget", "unsub"}, "watch")
    /\ UNCHANGED <<dispatchVars, localVars, emitVars, reqVars, up, connected, watched,
                   member, cleared>>

RestoreReopens ==
    /\ restore = "reopen"
    /\ Spawn("connect", "reopen", None)
    /\ restore' = "reenter"
    /\ UNCHANGED <<dispatchVars, localVars, emitVars, up, connected, watched, member,
                   histVars>>

(* Mutant: a reconnect does not announce the membership. *)
RestoreNoMember ==
    /\ restore = "reenter"
    /\ Unlocked
    /\ restore' = "no"
    /\ UNCHANGED <<dispatchVars, localVars, emitVars, reqVars, up, connected, watched,
                   member, histVars>>

(* ... and announces the membership: reenterOnReconnect. *)
RestoreReenters ==
    /\ restore = "reenter"
    /\ Unlocked
    /\ restore' = "no"
    /\ IF entered = None THEN UNCHANGED reqVars ELSE Spawn("attach", "enter", entered)
    /\ UNCHANGED <<dispatchVars, localVars, emitVars, up, connected, watched, member,
                   histVars>>

-----------------------------------------------------------------------------
Next ==
    \/ \E t \in Tasks : \/ \E l \in Listeners : Add(t, l) \/ RemoveOne(t, l)
                        \/ OffAll(t)
                        \/ Detach(t) \/ OnDetached(t) \/ DetachForgets(t)
    \/ \E t \in Threads : \/ EnsureWatching(t) \/ Remember(t)
                          \/ MaybeStopWatching(t) \/ StopsWatching(t) \/ Forget(t)
    \/ \E action \in Fns : EmitPresence(action)
    \/ \E d \in Drainers : \/ Drain(d) \/ Snapshot(d) \/ CallListener(d)
                           \/ EmitRunsHook(d) \/ EmitReturns(d)
    \/ \E data \in Data : Enter(data)
    \/ Leave
    \/ \E r \in Requests : \/ Attached(r) \/ Fails(r) \/ Write(r) \/ ReadAnswer(r)
                           \/ Denied(r) \/ ResetWatching(r) \/ ForgetDenied(r)
    \/ ServerAnswers
    \/ Drop \/ Connect
    \/ RestoreCollects \/ RestoreReopens \/ RestoreReenters

Spec == Init /\ [][Next]_vars

-----------------------------------------------------------------------------
(* Properties. *)

(* A listener is never left without the wish to watch, however On, Off and *)
(* the firing of one-shot listeners interleave: a listener registered      *)
(* after the removal of the last one was counted, and before watching is   *)
(* given up, waits for p.mu and asks again (presence.go:149-156, 173-180). *)
(* Until the next ensureWatching it says nothing of a channel whose Detach *)
(* or capability error has cleared watching.                               *)
ListenedIsWatched ==
    ~cleared /\ listeners # {} /\ (\A t \in Threads : thread[t] # "ensure") => watching

(* A one-shot listener is called once, also when an unsubscribe, an Off or *)
(* another event comes between its event and its call (emitter.go:134-151). *)
OnceFiresOnce ==
    [][\A d \in Drainers : (calls[d] \ calls'[d]) \cap fired = {}]_vars

(* When the conversation about the watcher has settled, the server watches *)
(* exactly when the client thinks so, and so will the next reconnect,      *)
(* whatever drops and restores came in between (presence.go:149-187,       *)
(* connection.go:1074-1081).  Excused by raced: turns that overlapped,     *)
(* whose requests go out in any order, and turns that lost a request, one  *)
(* the server refused or one that failed or went down with its socket and  *)
(* that no restore sends again.                                            *)
WatchSettles ==
    /\ up /\ "watch" \notin raced
    /\ ~InFlight(WatchKinds) /\ restore \notin {"collect", "reopen"}
    /\ \A t \in Threads : thread[t] \notin {"remember", "forget", "detach", "unsub"}
    => watched = watching /\ remembered = watching

(* The same for the membership: the server has what was entered last, also *)
(* after reconnects whose resumption it refused ("the SDK re-enters it     *)
(* automatically after a reconnect", presence.go:116-117).  raced excuses  *)
(* here as well overlapping calls and requests refused or lost for good.   *)
MemberSettles ==
    /\ up /\ "member" \notin raced
    /\ ~InFlight(MemberKinds) /\ restore = "no"
    /\ \A t \in Threads : thread[t] \notin {"detach", "unsub"}
    => member = entered

=============================================================================
