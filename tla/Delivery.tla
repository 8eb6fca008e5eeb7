------------------------------- MODULE Delivery -------------------------------
(***************************************************************************)
(* What one Channel receives (src/channel.go:631-798): the messages of the *)
(* live subscription, their replay after a re-subscribe, and the gap-fill  *)
(* fetch, which all advance one resume cursor from different goroutines.   *)
(*                                                                         *)
(* A record of the server is its serial; Members gives the message ids it  *)
(* delivers (several for a batch).  The server, which may drop a message   *)
(* of the live tail and lets old records age out of retention, is external *)
(* and modelled from the comments and the use of its frames in src/.       *)
(* The connection is reduced to up and down; module Connection has it.     *)
(* Ephemeral messages, which have no place among the serials and only pass *)
(* the duplicate filter, are left out, as are the dispatcher's lag between *)
(* deliverSingle and the listeners, and Detach.                            *)
(***************************************************************************)
EXTENDS Integers, Sequences, FiniteSets, SequencesExt

CONSTANTS
    MaxSerial, \* bound: the records the server stores
    Ids,       \* the (clientID, messageID) keys of the messages
    Members,   \* Members[n]: the messages of record n
    DedupMax,  \* dedupCacheMax
    Subs,      \* slots for goroutines that wait for the ack of a sub
    MaxDrops,  \* bound: how often the connection drops
    Retention, \* old records may age out
    None

Serials == 1 .. MaxSerial

ASSUME DeliveryAssumption ==
    /\ MaxSerial \in Nat
    /\ DedupMax \in Nat \ {0}
    /\ MaxDrops \in Nat
    /\ Members \in [Serials -> (SUBSET Ids) \ {{}}]
    /\ None \notin Int \cup Subs
    /\ Retention \in BOOLEAN

VARIABLES
    \* the server
    head,       \* the last serial stored
    floor,      \* the first serial still retained
    tail,       \* the last serial the live subscription has passed, or None
    dropped,    \* history: the subscription has lost a message
    \* the connection
    up,         \* the connection is connected
    drops,      \* how often it has dropped
    toServer,   \* frames to the server, in order
    toClient,   \* frames to the client, in order
    events,     \* connection events the dispatcher has not run yet
    restoring,  \* restoreSubscriptionsOnReconnect is about to read the cursor
    \* the channel
    state,            \* ch.state
    sub,              \* the goroutines that have sent, or will send, a sub
    contiguousSerial, \* ch.contiguousSerial
    backfilling,      \* ch.backfilling
    seen,             \* ch.seenOrder, whose elements are ch.seen
    fetch,            \* the goroutine that runs backfill
    worker,           \* deliverMessage, in the read loop and in backfill
    \* history
    delivered,  \* how often each message was handed to the listeners
    baseline,   \* the serial adopted since the cursor last was 0
    told        \* the head when a discontinuity was last reported

serverVars  == <<head, floor, tail, dropped>>
wireVars    == <<up, drops, toServer, toClient, restoring>>
cursorVars  == <<contiguousSerial, baseline>>
deliverVars == <<seen, delivered>>
vars == <<serverVars, wireVars, events, state, sub, cursorVars, backfilling,
          deliverVars, fetch, worker, told>>

ChannelStates == {"initialized", "attaching", "attached", "suspended"}
Workers == {"readLoop", "backfill"}

SubFrame   == [type : {"sub"}, slot : Subs, from : 0 .. MaxSerial]
FetchFrame == [type : {"fetch"}, from : Serials]
MsgFrame   == [type : {"msg"}, seq : Serials]
AckFrame   == [type : {"ack"}, slot : Subs, resumed : BOOLEAN]
FetchRes   == [type : {"fetchRes"}, from : 0 .. MaxSerial, to : 0 .. MaxSerial,
               resumed : BOOLEAN]

SubRecords == [pc : {"idle", "wait", "sent", "acked", "failed"},
               kind : {"attach", "restore"}, from : 0 .. MaxSerial, resumed : BOOLEAN]
FetchRecords == [pc : {"idle", "wait", "sent", "apply", "discontinuity", "done"},
                 from : 0 .. MaxSerial, to : 0 .. MaxSerial]
WorkerRecords == [pc : {"idle", "deliver", "record"}, seq : 0 .. MaxSerial,
                  left : SUBSET Ids]

IdleSub    == [pc |-> "idle", kind |-> "attach", from |-> 0, resumed |-> FALSE]
IdleFetch  == [pc |-> "idle", from |-> 0, to |-> 0]
IdleWorker == [pc |-> "idle", seq |-> 0, left |-> {}]

TypeOK ==
    /\ head \in 0 .. MaxSerial
    /\ floor \in 1 .. MaxSerial + 1
    /\ tail \in 0 .. MaxSerial \cup {None}
    /\ dropped \in BOOLEAN
    /\ up \in BOOLEAN
    /\ drops \in 0 .. MaxDrops
    /\ toServer \in Seq(SubFrame \cup FetchFrame)
    /\ toClient \in Seq(MsgFrame \cup AckFrame \cup FetchRes)
    /\ events \in Seq({"disconnected", "connected"})
    /\ restoring \in BOOLEAN
    /\ state \in ChannelStates
    /\ sub \in [Subs -> SubRecords]
    /\ contiguousSerial \in 0 .. MaxSerial
    /\ backfilling \in BOOLEAN
    /\ seen \in Seq(Ids)
    /\ fetch \in FetchRecords
    /\ worker \in [Workers -> WorkerRecords]
    /\ delivered \in [Ids -> Nat]
    /\ baseline \in 0 .. MaxSerial
    /\ told \in 0 .. MaxSerial

Init ==
    /\ head = 0
    /\ floor = 1
    /\ tail = None
    /\ dropped = FALSE
    /\ up = TRUE
    /\ drops = 0
    /\ toServer = <<>>
    /\ toClient = <<>>
    /\ events = <<>>
    /\ restoring = FALSE
    /\ state = "initialized"
    /\ sub = [g \in Subs |-> IdleSub]
    /\ contiguousSerial = 0
    /\ backfilling = FALSE
    /\ seen = <<>>
    /\ fetch = IdleFetch
    /\ worker = [w \in Workers |-> IdleWorker]
    /\ delivered = [m \in Ids |-> 0]
    /\ baseline = 0
    /\ told = 0

-----------------------------------------------------------------------------
(* The server (external). *)

Retained(from) == from >= floor - 1

Stores ==
    /\ head < MaxSerial
    /\ head' = head + 1
    /\ UNCHANGED <<floor, tail, dropped, wireVars, events, state, sub,
                   cursorVars, backfilling, deliverVars, fetch, worker, told>>

(* What is stored so far ages out of retention. *)
AgesOut ==
    /\ Retention
    /\ floor <= head
    /\ floor' = head + 1
    /\ UNCHANGED <<head, tail, dropped, wireVars, events, state, sub,
                   cursorVars, backfilling, deliverVars, fetch, worker, told>>

(* The live tail and the replay: records in the order of their serials, of *)
(* which a slow consumer may lose one.                                     *)
SendsLive ==
    /\ up
    /\ tail # None
    /\ tail < head
    /\ tail' = tail + 1
    /\ \/ /\ toClient' = Append(toClient, [type |-> "msg", seq |-> tail + 1])
          /\ UNCHANGED dropped
       \/ /\ dropped' = TRUE
          /\ UNCHANGED toClient
    /\ UNCHANGED <<head, floor, up, drops, toServer, restoring, events,
                   state, sub, cursorVars, backfilling, deliverVars, fetch, worker,
                   told>>

(* A sub with a cursor within retention replays what follows it; any other *)
(* sub starts at what comes next, and cuts off what the subscription it    *)
(* replaces had not sent yet.                                              *)
AnswersSub ==
    /\ toServer # <<>>
    /\ Head(toServer).type = "sub"
    /\ LET f == Head(toServer)
           resumed == f.from > 0 /\ Retained(f.from)
       IN  /\ tail' = IF resumed THEN f.from ELSE head
           /\ toClient' = Append(toClient, [type |-> "ack", slot |-> f.slot,
                                            resumed |-> resumed])
           /\ dropped' = (~resumed /\ (dropped \/ tail \notin {None, head}))
    /\ toServer' = Tail(toServer)
    /\ UNCHANGED <<head, floor, up, drops, restoring, events, state, sub,
                   cursorVars, backfilling, deliverVars, fetch, worker, told>>

AnswersFetch ==
    /\ toServer # <<>>
    /\ Head(toServer).type = "fetch"
    /\ toClient' = Append(toClient, [type |-> "fetchRes", from |-> Head(toServer).from,
                                     to |-> head,
                                     resumed |-> Retained(Head(toServer).from)])
    /\ toServer' = Tail(toServer)
    /\ UNCHANGED <<serverVars, up, drops, restoring, events, state, sub, cursorVars,
                   backfilling, deliverVars, fetch, worker, told>>

-----------------------------------------------------------------------------
(* The connection: drops, reconnects, and the events for the channel, which *)
(* the dispatcher runs later.                                              *)

Drops ==
    /\ up
    /\ drops < MaxDrops
    /\ up' = FALSE
    /\ drops' = drops + 1
    /\ tail' = None
    /\ toServer' = <<>>
    /\ toClient' = <<>>
    /\ events' = Append(events, "disconnected")
    /\ sub' = [g \in Subs |-> IF sub[g].pc = "sent" THEN [sub[g] EXCEPT !.pc = "failed"]
                                                     ELSE sub[g]]
    /\ fetch' = IF fetch.pc = "sent" THEN [fetch EXCEPT !.pc = "done"] ELSE fetch
    /\ UNCHANGED <<head, floor, dropped, restoring, state, cursorVars,
                   backfilling, deliverVars, worker, told>>

Reconnects ==
    /\ ~up
    /\ ~restoring
    /\ up' = TRUE
    /\ events' = Append(events, "connected")
    /\ restoring' = (state # "initialized")
    /\ UNCHANGED <<serverVars, drops, toServer, toClient, state, sub, cursorVars,
                   backfilling, deliverVars, fetch, worker, told>>

(* restoreSubscriptionsOnReconnect: read the cursor, request in a goroutine. *)
Restores(g) ==
    /\ restoring
    /\ sub[g].pc = "idle"
    /\ restoring' = FALSE
    /\ sub' = [sub EXCEPT ![g] = [pc |-> "wait", kind |-> "restore",
                                  from |-> contiguousSerial, resumed |-> FALSE]]
    /\ UNCHANGED <<serverVars, up, drops, toServer, toClient, events, state,
                   cursorVars, backfilling, deliverVars, fetch, worker, told>>

(* request: Connect, then write the frame. *)
SubSends(g) ==
    /\ sub[g].pc = "wait"
    /\ up
    /\ toServer' = Append(toServer, [type |-> "sub", slot |-> g, from |-> sub[g].from])
    /\ sub' = [sub EXCEPT ![g].pc = "sent"]
    /\ UNCHANGED <<serverVars, up, drops, toClient, restoring, events, state,
                   cursorVars, backfilling, deliverVars, fetch, worker, told>>

SubFails(g) ==
    /\ sub[g].pc = "wait"
    /\ ~up
    /\ sub' = [sub EXCEPT ![g].pc = "failed"]
    /\ UNCHANGED <<serverVars, wireVars, events, state, cursorVars, backfilling,
                   deliverVars, fetch, worker, told>>

-----------------------------------------------------------------------------
(* The channel's state machine, as far as delivery looks at it. *)

(* Attach, when the channel is not attached and no attempt is in flight;   *)
(* runAttach reads the cursor.                                             *)
Attach(g) ==
    /\ state # "attached"
    /\ \A h \in Subs : sub[h].pc = "idle" \/ sub[h].kind # "attach"
    /\ sub[g].pc = "idle"
    /\ state' = "attaching"
    /\ sub' = [sub EXCEPT ![g] = [pc |-> "wait", kind |-> "attach",
                                  from |-> contiguousSerial, resumed |-> FALSE]]
    /\ UNCHANGED <<serverVars, wireVars, events, cursorVars, backfilling,
                   deliverVars, fetch, worker, told>>

(* A discontinuity is reported: what is stored so far is for the listeners *)
(* to fetch.                                                               *)
Reports == told' = head

(* The rest of runAttach.  The outcome of a resume is reported unless the  *)
(* channel is attached already; the cursor stays.                          *)
AttachEnds(g) ==
    /\ sub[g].kind = "attach"
    /\ \/ /\ sub[g].pc = "acked"
          /\ state' = "attached"
          /\ IF state # "attached" /\ ~sub[g].resumed THEN Reports ELSE UNCHANGED told
       \/ /\ sub[g].pc = "failed"
          /\ state' = "suspended"
          /\ UNCHANGED told
    /\ sub' = [sub EXCEPT ![g] = IdleSub]
    /\ UNCHANGED <<serverVars, wireVars, events, cursorVars, backfilling,
                   deliverVars, fetch, worker>>

(* Mutant: the outcome of the resume is ignored. *)
OnResumedIgnored(resumed) ==
    /\ UNCHANGED <<cursorVars, told>>
    /\ state' = "attached"

(* onResumed: every state of this model but initialized may be reported.   *)
OnResumed(resumed) ==
    /\ contiguousSerial' = IF resumed THEN contiguousSerial ELSE 0
    /\ baseline' = IF resumed THEN baseline ELSE 0
    /\ state' = "attached"
    /\ IF resumed THEN UNCHANGED told ELSE Reports

RestoreEnds(g) ==
    /\ sub[g].kind = "restore"
    /\ \/ sub[g].pc = "acked" /\ OnResumed(sub[g].resumed)
       \/ sub[g].pc = "failed" /\ UNCHANGED <<cursorVars, state, told>>
    /\ sub' = [sub EXCEPT ![g] = IdleSub]
    /\ UNCHANGED <<serverVars, wireVars, events, backfilling, deliverVars, fetch,
                   worker>>

OnConnectionState ==
    /\ events # <<>>
    /\ events' = Tail(events)
    /\ state' = CASE Head(events) = "disconnected" /\ state = "attached"  -> "suspended"
                  [] Head(events) = "connected"    /\ state = "suspended" -> "attaching"
                  [] OTHER                                                -> state
    /\ UNCHANGED <<serverVars, wireVars, sub, cursorVars, backfilling, deliverVars,
                   fetch, worker, told>>

-----------------------------------------------------------------------------
(* The read loop: one frame at a time. *)

Delivering(n) == [pc |-> "deliver", seq |-> n, left |-> Members[n]]

ReadsMessage ==
    /\ toClient # <<>>
    /\ Head(toClient).type = "msg"
    /\ worker["readLoop"].pc = "idle"
    /\ worker' = [worker EXCEPT !["readLoop"] =
                    Delivering(Head(toClient).seq)]
    /\ toClient' = Tail(toClient)
    /\ UNCHANGED <<serverVars, up, drops, toServer, restoring, events, state, sub,
                   cursorVars, backfilling, deliverVars, fetch, told>>

ReadsAck ==
    /\ toClient # <<>>
    /\ Head(toClient).type = "ack"
    /\ worker["readLoop"].pc = "idle"
    /\ sub' = [sub EXCEPT ![Head(toClient).slot] =
                  [@ EXCEPT !.pc = "acked", !.resumed = Head(toClient).resumed]]
    /\ toClient' = Tail(toClient)
    /\ UNCHANGED <<serverVars, up, drops, toServer, restoring, events, state,
                   cursorVars, backfilling, deliverVars, fetch, worker, told>>

ReadsFetchRes ==
    /\ toClient # <<>>
    /\ Head(toClient).type = "fetchRes"
    /\ worker["readLoop"].pc = "idle"
    /\ fetch' = [pc |-> IF Head(toClient).resumed THEN "apply" ELSE "discontinuity",
                 from |-> Head(toClient).from, to |-> Head(toClient).to]
    /\ toClient' = Tail(toClient)
    /\ UNCHANGED <<serverVars, up, drops, toServer, restoring, events, state, sub,
                   cursorVars, backfilling, deliverVars, worker, told>>

-----------------------------------------------------------------------------
(* deliverMessage, by the read loop or by backfill *)

(* Mutant: only the latest message counts as seen. *)
IsLatest(m) == seen # <<>> /\ Last(seen) = m

(* isDuplicate records an unseen key and evicts the oldest past the cap.    *)
IsDuplicate(m) == Contains(seen, m)

Remember(m) ==
    seen' = IF Len(seen) < DedupMax THEN Append(seen, m) ELSE Append(Tail(seen), m)

(* One message, unless it is a duplicate, to the listeners.  After the last *)
(* one of the record its serial is recorded.                                *)
DeliverSingle(w, m) ==
    LET left == worker[w].left \ {m} IN
    /\ worker[w].pc = "deliver"
    /\ m \in worker[w].left
    /\ worker' = [worker EXCEPT ![w] = [pc |-> IF left = {} THEN "record" ELSE "deliver",
                                       seq |-> worker[w].seq, left |-> left]]
    /\ IF IsDuplicate(m)
         THEN UNCHANGED deliverVars
         ELSE /\ Remember(m)
              /\ delivered' = [delivered EXCEPT ![m] = @ + 1]
    /\ UNCHANGED <<serverVars, wireVars, events, state, sub, cursorVars, backfilling,
                   fetch, told>>

(* Mutant: the cursor moves to any later serial. *)
FollowsAny(seq) == contiguousSerial = 0 \/ seq > contiguousSerial

(* recordSerial: adopt the baseline or advance; a serial past the next one  *)
(* is a gap, and starts one fetch from the cursor.                          *)
Follows(seq) == contiguousSerial = 0 \/ seq = contiguousSerial + 1
Gap(seq) == contiguousSerial # 0 /\ seq > contiguousSerial + 1

RecordSerial(w) ==
    LET seq == worker[w].seq IN
    /\ worker[w].pc = "record"
    /\ worker' = [worker EXCEPT ![w] = IdleWorker]
    /\ \/ /\ Follows(seq)
          /\ contiguousSerial' = seq
          /\ baseline' = IF contiguousSerial = 0 THEN seq ELSE baseline
          /\ UNCHANGED <<backfilling, fetch, told>>
       \/ /\ seq <= contiguousSerial
          /\ UNCHANGED <<cursorVars, backfilling, fetch, told>>
       \/ /\ Gap(seq)
          /\ backfilling \/ state \notin {"attached", "attaching"}
          /\ UNCHANGED <<cursorVars, backfilling, fetch, told>>
       \/ /\ Gap(seq)
          /\ ~backfilling
          /\ state \in {"attached", "attaching"}
          /\ backfilling' = TRUE
          /\ fetch' = [IdleFetch EXCEPT !.pc = "wait", !.from = contiguousSerial]
          /\ UNCHANGED <<cursorVars, told>>
    /\ UNCHANGED <<serverVars, wireVars, events, state, sub, deliverVars>>

-----------------------------------------------------------------------------
(* backfill *)

FetchSends ==
    /\ fetch.pc = "wait"
    /\ up
    /\ toServer' = Append(toServer, [type |-> "fetch", from |-> fetch.from])
    /\ fetch' = [fetch EXCEPT !.pc = "sent"]
    /\ UNCHANGED <<serverVars, up, drops, toClient, restoring, events, state, sub,
                   cursorVars, backfilling, deliverVars, worker, told>>

FetchFails ==
    /\ fetch.pc = "wait"
    /\ ~up
    /\ fetch' = [fetch EXCEPT !.pc = "done"]
    /\ UNCHANGED <<serverVars, wireVars, events, state, sub, cursorVars, backfilling,
                   deliverVars, worker, told>>

(* The messages of the response, oldest first. *)
BackfillNext ==
    /\ fetch.pc = "apply"
    /\ fetch.from < fetch.to
    /\ worker["backfill"].pc = "idle"
    /\ worker' = [worker EXCEPT !["backfill"] =
                    Delivering(fetch.from + 1)]
    /\ fetch' = [fetch EXCEPT !.from = @ + 1]
    /\ UNCHANGED <<serverVars, wireVars, events, state, sub, cursorVars, backfilling,
                   deliverVars, told>>

Discontinuity ==
    /\ fetch.pc = "discontinuity"
    /\ OnResumed(FALSE)
    /\ fetch' = [fetch EXCEPT !.pc = "done"]
    /\ UNCHANGED <<serverVars, wireVars, events, sub, backfilling, deliverVars, worker>>

BackfillEnds ==
    /\ \/ fetch.pc = "done"
       \/ /\ fetch.pc = "apply"
          /\ fetch.from >= fetch.to
          /\ worker["backfill"].pc = "idle"
    /\ backfilling' = FALSE
    /\ fetch' = IdleFetch
    /\ UNCHANGED <<serverVars, wireVars, events, state, sub, cursorVars, deliverVars,
                   worker, told>>

-----------------------------------------------------------------------------
Next ==
    \/ Stores \/ AgesOut \/ SendsLive \/ AnswersSub \/ AnswersFetch
    \/ Drops \/ Reconnects \/ OnConnectionState
    \/ \E g \in Subs : \/ Restores(g) \/ SubSends(g) \/ SubFails(g)
                       \/ Attach(g) \/ AttachEnds(g) \/ RestoreEnds(g)
    \/ ReadsMessage \/ ReadsAck \/ ReadsFetchRes
    \/ \E w \in Workers : \/ \E m \in Ids : DeliverSingle(w, m)
                          \/ RecordSerial(w)
    \/ FetchSends \/ FetchFails \/ BackfillNext \/ Discontinuity \/ BackfillEnds

Spec == Init /\ [][Next]_vars

-----------------------------------------------------------------------------
(* Properties. *)

Received(n) == \A m \in Members[n] : delivered[m] > 0

(* "contiguousSerial is the highest serial up to which this channel has    *)
(* received every message with no gap" (channel.go:210-211): whatever      *)
(* order the live tail, the replays and the fetches are applied in, the    *)
(* cursor never passes over a record that was not delivered.               *)
CursorContiguous ==
    contiguousSerial # 0 =>
        /\ baseline \in 1 .. contiguousSerial
        /\ \A n \in baseline .. contiguousSerial : Received(n)

(* "for exactly-once delivery" (channel.go:221-226): no message reaches    *)
(* the listeners twice, although the live tail, a replay and a fetch may   *)
(* bring the same record at the same time, and a publisher's retry may put *)
(* one message into two records.  Past the cap of the filter an old key is *)
(* forgotten, and the code promises no more.                               *)
DeliveredOnce ==
    IsFiniteSet(Ids) /\ Cardinality(Ids) <= DedupMax => \A m \in Ids : delivered[m] <= 1

(* Nothing is under way that could still change what was received. *)
Quiet ==
    /\ up /\ tail = head
    /\ toServer = <<>> /\ toClient = <<>> /\ events = <<>> /\ ~restoring
    /\ \A g \in Subs : sub[g].pc = "idle"
    /\ fetch.pc = "idle"
    /\ \A w \in Workers : worker[w].pc = "idle"

(* The resume is complete ("Sent on (re)subscribe so the server replays    *)
(* anything missed during a disconnect", channel.go:211-212): when all is  *)
(* quiet on a subscription that has lost nothing, every record since the   *)
(* baseline has been received, except those stored before the listeners    *)
(* were last told to "recover (reload state / read history)"              *)
(* (channel.go:789-790).                                                   *)
ResumeIsComplete ==
    Quiet /\ ~dropped /\ contiguousSerial # 0 =>
        \A n \in baseline .. head : n <= told \/ Received(n)

=============================================================================
