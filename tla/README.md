# Verification of the realtime Go client

This directory holds TLA+ models of the client library `realtime` (the Go files
in `src/`), TLC configurations that check them on small instances, and TLAPS
proofs of most of their invariants for every instance.  The models are
written from the source; where a comment or a doc promises something, the
promise is the property and the code is the model.

- [The system](#the-system): components, state, operations, hard behaviours
- [Modules](#modules): what each models, and how it corresponds to the code
- [Runs](#runs): what TLC checks, the bounds, the fairness
- [Deviations](#deviations): where code and documentation disagree
- [Proofs](#proofs): what is proved, and along which argument
- [Not modelled](#not-modelled)

## The system

One `Client` (realtime.go) owns one `Connection` (connection.go) and a registry
of `Channel`s (channel.go), each with a `Presence` (presence.go).  Callbacks of
all of them run on one `dispatcher` (emitter.go).  `Rest` (rest.go) is an HTTP
client that shares only the credentials (auth.go), the wire types and the cipher
(crypto.go).  binary.go and wire.go encode the frames.

Everything concurrent hangs on three kinds of lock: `Connection.mu`, one `mu` for
each channel and each presence, and the dispatcher's.  No lock is held over I/O
or over a callback, so every operation is a chain of short critical sections with
work of other goroutines in between.  That is the theme of all the models: *one
action is one critical section*, together with the local work next to it.

| Component | State | Operations | What makes it hard | What makes it correct |
|---|---|---|---|---|
| Connection lifecycle | `state`, `socket`, `connecting`, `fatalErr`, `reconnectTimer`; per socket a read loop and a keep-alive deadline | `Connect`, `Close`, dial, handshake, `completeConnect`, `handleSocketClose`, backoff callback | one attempt shared by all callers; three goroutines may report the end of one socket; `Close` has two halves; a fired timer cannot be stopped | a connected client is watched; connecting has an attempt; nothing resurrects a closed client; a drop is noticed; every `Connect` returns |
| Publishing | `outstanding`, `publishRequestIDs`, `requestID` and `frame.id` per publish | `publish`, `sendPublish`, `flushOutstandingPublishes`, `settlePublishLocked`, `failOutstandingLocked` | a publish is sent again over a new socket under a new id while an old answer may be under way; state and socket are read in different critical sections | settled at most once, ok only if stored, never lost, never left in a closed client |
| Delivery | `contiguousSerial`, `backfilling`, `seen` | `deliverMessage`, `recordSerial`, `backfill`, `onResumed` | live tail, replay and fetch advance one cursor from different goroutines while resets happen | the cursor never passes a hole; each message once; after a reconnect nothing is missing unless a discontinuity was reported |
| Channel lifecycle | `state`, `attaching`; in the connection `desiredSubs`, epochs, hooks | `Attach`, `Detach`, `onConnectionState`, `onResumed`, restore | acks are handled by other goroutines; connection events arrive late, through the dispatcher | the state agrees with the server's subscription once all is quiet; a newer attach survives an older detach |
| Requests | `pending`, `pendingHist`, `pendingFetch`, `nextID` | `request`, `requestHistory`, `requestFetch`, `failPendingLocked` | an answer races with the context, with a failed write and with the end of the socket | every request ends once, with its own answer |
| Keep-alive | `pongDeadline` | ping loop, `armPongDeadline`, `clearPongDeadlineLocked` | the pong may overtake the arming | a live link is not torn down, a dead one is |
| Presence | `desiredPresence`, entered data, listeners | `Enter`, `Update`, `Leave`, watch, re-entry | requests of goroutines started in order may be sent out of order | listeners have a watcher; once all is quiet the server's view is the last intent |
| Auto-batching | `batchBuf`, `batchTimer`, `lastFlush` | `enqueue`, `flushLocked`, `sendBatch` | a timer that fired races with a flush on size | every buffered publish is sent once and answered; the throttle window holds |
| Registry | the channel map, the hooks by name | `Get`, `Release`, `Close` | `Release` is two steps that meet a `Get` | a registered channel has its hooks |
| Dispatcher, emitter | the callback queue, listeners | `enqueue`, drain, `on`, `once`, `off` | the drain goroutine stops and starts | callbacks run once and in order |
| Codec | none | encode and decode, split into records | lengths and counts come from the peer; writer and reader list the fields of a frame in two places | round trip; a cut or damaged message costs only the frames it hits |
| REST client | the cached token | request, retry after a 401 | requests share the cache | performed at most once; an expired token costs no request its success |
| BatchPublish, Auth, Cipher | none | no shared state | | |

How they interact: `publish`, `request` and the channel operations call
`Connect`; `handleSocketClose` fails the pending requests, resets or fails the
outstanding publishes and emits a state change; the dispatcher carries that to
`Channel.onConnectionState`; `completeConnect` starts the read loop, re-subscribes
the remembered channels with `Channel.cursor` and flushes the publishes; the read
loop routes answers by request id and messages by channel name.

## Modules

| Module | Models | Kind |
|---|---|---|
| `Connection` | connection.go 249-378, 655-850, 944-1023, 1147-1166 | detailed specification |
| `PublishContract` | what `publish` promises its caller | abstract specification |
| `Publishing` | connection.go 474-575 and what the lifecycle does to publishes | extends `Connection`, implements `PublishContract` |
| `Channel` | channel.go 301-403 and 780-840, realtime.go 229-276, connection.go 382-410, 577-641, 1026-1063 | detailed specification |
| `Delivery` | channel.go 301-367 and 631-822 as far as received messages go, connection.go 382-410, 443-472, 1026-1072 | detailed specification |
| `SerialQueue` | what the dispatcher promises | abstract specification |
| `Dispatcher` | emitter.go 8-45 | detailed specification, implements `SerialQueue` |
| `Presence` | presence.go 49-270, emitter.go 47-197, connection.go 642-655 and 1026-1086 as far as presence goes | extends `Dispatcher` |
| `Requests` | connection.go 382-472, 577-592 and the answers in 854-939 | detailed specification |
| `KeepAlive` | connection.go 1088-1177 | detailed specification |
| `Batcher` | channel.go 516-579 | detailed specification |
| `Wire` | the frame types of wire.go | data |
| `Codec` | binary.go | functions, and the way of one message through them |
| `RestAuth` | rest.go 303-378 | detailed specification |
| `PublishingProofs` (of `Connection` too), `DeliveryProofs`, `ChannelProofs`, `PresenceProofs`, `RequestsProofs`, `KeepAliveProofs`, `BatcherAndRestProofs` (of `Batcher` and `RestAuth`, which share nothing), `CodecProofs` | theorems | TLAPS |
| `MCConnection`, `MCPublishing`, `MCDelivery`, `MCChannel`, `MCPresence`, `MCRequests`, `MCCodec` | symmetry sets and instance data | TLC |

### Connection

A `*websocket.Conn`, a `time.AfterFunc` timer and a goroutine are *slots*: members
of the constants `Sockets`, `Timers`, `Callers`, `Closers`.  A slot is used again
once no field and no goroutine refers to it, which is what identity by pointer
gives the code.  Behaviours are therefore unbounded in length and the state space
is finite, without counters.

- `attempt` is `c.connecting` together with the program counter of the `runConnect`
  goroutine.  Its phases are the stretches between critical sections: `spawned`
  (the goroutine has not run), `dial`, `handshake` (socket installed), `fatal`
  (`fatalErr` set, teardown next), `installed` (connected, no read loop yet),
  `flushing` (restore and flush), `done` (outcome known, `c.connecting` still set).
- `HandleSocketClose(ws)` is the whole handler.  It is conjoined into the three steps
  that call it: `ReadLoopEnds`, `DeadlineCloses`, `TeardownSocket`.
- `ScheduleReconnect` is `scheduleReconnectLocked`; backoff and jitter are left out, an
  armed timer may fire at any moment.  A callback has phases `fired` (waits for the
  lock), `calling`, `waiting`, `refused`; `time.Timer.Stop` only stops an `armed` one.
- `Close` is three actions, `CloseBegins`, `CloseSocket`, `CloseEnds`: two critical
  sections with the socket's close between them.
- `Drop(s)` is the network.  The code learns of it through the read loop only.
- `InternalConnect` is `Connect` called by the SDK itself, whose result is dropped.

Events, listeners, the credential and the frames are not part of this module.

### Publishing

A publish is a member of `Msgs` (its stable message id); its `done` channel is
`result`.  Request ids are slots too: `nextID++` is an id that nothing refers to any
more, neither table, goroutine nor frame (`FreshId`).  `sender[x]` is a goroutine in
`sendPublish`, one for each publish call and one (`Flush`) for the flush of an attempt.
`sendPublish` assigns the id under the lock but `frame.id` is encoded after it, so
`SendWrites` chooses between the id assigned and the one another `sendPublish` of the
same frame has written since: the outcomes of that race.

The server is external: `ServerAnswers` stores and acknowledges or refuses, and may
do so after the socket died, in which case the answer is lost.  Frames on one socket
are a set, so answers also arrive in any order.  An answer carries, as history, the publish that the server answers with it;
the client sees only the id and the result.  `publish`'s select on its context
changes no shared state and is left out: it ends the wait of the caller and not the
publish.

The lifecycle steps are those of `Connection` with what they do to the table
conjoined: `HandshakeTorn`, `ReadLoopTorn` and `DeadlineTorn` add `SocketClosed`,
`CloseSettles` adds `failOutstandingLocked`, `Flushed` becomes the last step of the
flush.  `ImplementsConnection` proves that this neither adds nor changes a step of
the lifecycle.

### Channel

The channels of one name.  `Instances` are the `*Channel` values that `Get` makes for
it, one after the other as `Release` removes them; `byName` is the registry, `hooks`
the connection's callback table, `listening` the connection listeners.  `desired` and
`epoch` are `desiredSubs` and `subEpochs` of the name.

Each `Attach`, `Detach` and restore has a goroutine in `Connection.request`, a member of
`Requests`.  Its `stage` is where it is: `remember` (an attach before
`rememberSubscription`), `epoch` (a detach before `subscriptionEpoch`), `connect`, `sent`,
`forget` (before `forgetSubscription`), `mark` (before it sets the channel's state).  These
are the critical sections of the code, one action each; `AttachBegins` and `DetachBegins`
are the first ones.  A caller that joins an attempt under way changes nothing and is left out.

The connection is reduced to its state with `hasConnectedBefore`: `Connects`, then
`Restore` on a reconnect, `SocketClosed`, `AttemptFails`, `Close`.  State changes go into
`events` and reach the listening channels when the dispatcher runs them (`Dispatch`).
Frames on the socket keep their order in both directions and die with it; the server
(external) may refuse a `sub` or an `unsub`.

Two history variables say when a property is excused.  `overlapped`: an attach was begun
while another attach of the name was under way, or while a Detach had not read the epoch
yet (a Release on its way to its Detach counts), or a Detach was begun while an attach or
a restore was under way, or a restore while a Detach was.  `parted`: the server refused something, a
Detach gave up or met a newer attach before it sent its `unsub`, or the connection ended for good.
What happens to overlapping calls is under [Deviations](#deviations).

The application uses the instance that `Get` returns now.  Uses of an instance after its
Release, other than by Release itself, are not modelled.

### Delivery

One channel.  A stored record is its serial, `Members[n]` the messages it
delivers: several for a batch, and one message in two records for a publisher's
retry.  Two workers run `deliverMessage`: the read loop and the goroutine of
`backfill`.  `isDuplicate` with the hand-over to the listeners is one action,
`recordSerial` another, as their locks are.  The goroutines that wait for the ack
of a `sub` are slots (`Subs`): `runAttach` and the goroutine of a restore.  Both read
the cursor first and send later.

The server is external and modelled from the comments and from what the code does
with its frames: it answers a `sub` with `resumed` if the cursor is within retention
and then replays from it, otherwise it starts at what comes next; it may lose
messages of the live tail (`SendsLive`), which is what gap-fill is for; it answers a
`fetch` with everything stored after the cursor.  The connection is reduced to up
and down and one drop clears both directions; its events reach the channel through a
queue, late.

`baseline`, `told`, `delivered` and `dropped` are history variables: the serial that
was adopted when the cursor was 0, the head of the channel when a discontinuity was
last reported, how often each message was handed over, and whether the current
subscription lost anything.  A report is about what is stored when it is made, and
stays so: `ResumeIsComplete` excuses the records up to `told`.  A Boolean that a new
baseline clears says too much.  With four records and two drops a fetch from before a
discontinuity is still being applied when `onResumed(false)` drops the cursor; the
goroutine of `backfill` then adopts a serial of that old answer as the baseline, below
the records that the report covered.  The listeners were told of those, and the next live message finds
the gap and starts another fetch; but the cursor does stand below the discontinuity.

Left out: ephemeral messages (they have no serial and pass the duplicate filter
only), undecryptable messages, server bundles (a bundle is its members one after
the other), `Detach`, and capability errors.  The old read loop finishes its
frame before the next one delivers.

### Requests

The calls of `request`, `requestHistory` and `requestFetch`, which are the same code over
three tables: `KindOf[r]` says which table call `r` uses, and `pending` holds the entries of
all three.  `Register` is their locked part; the write, the wait, a context that ends and the
removal of the entry are steps of their own.  `HandleFrame` is the locked part of
`handleFrame` and `handleErrorFrame`, which takes the entry, and `Deliver` the send on the
call's channel after the unlock: what happens between the two is the point of the module.

Of the lifecycle there is what a request can meet: a socket that is installed before its
handshake is over, the end of the socket reported by its read loop or by a keep-alive
callback (`dying`) that may come late, and the two halves of one `Close`.  The server
(external) answers on the socket that the request came on, in any order.

### KeepAlive

One pinger for each socket, with its phases `select`, `write` and `arm`, and timers as slots
with the socket their callback is about.  `Callback` clears `c.pongDeadline` whichever timer
it refers to by now, as the code does.  The pingers and the callbacks of old sockets overlap the
next connection.  `link` is what the network does: a `lost` link answers nothing and no read
of it ever has to fail.

### Presence and Dispatcher

`Dispatcher` has the queue, the `running` flag and the goroutines in `run`; `Serial` maps it to
`SerialQueue`.  `Presence` extends it: its callbacks are events, and to run one is
`emitter.emit` in its steps (`Snapshot` under `e.mu`, one `CallListener` for each listener, the
hook, the return).

A listener is its registration id: `Register` gives ids in ascending order.  What an emit has still to
call is the set `calls`, from which `CallListener` takes the first by `Before`: the sorted slice without its order of storage.  What each goroutine
of the application has still to do is `thread`: after `Add` it is in `ensureWatching`, after a removal in
`maybeStopWatching`, then before `rememberPresence` or `forgetPresence` and the `go` that sends
the request; the drainer gets there through the hook of `emit`.  `maybeStopWatching` takes `e.mu` inside its section of `p.mu`, so it is two
actions, the count of the listeners and the withdrawal (`MaybeStopWatching`, `StopsWatching`).  In between a registration, which takes `e.mu`
alone, may come, but no section of `p.mu`: that is the guard `Unlocked` of the actions that are one.  `watching`, `entered` and `remembered` are
`p.watching`, `p.entered` and the membership in `c.desiredPresence`.  The goroutines in
`Connection.request` are slots; a request that is written sits in `wire`, in order, until the
server (external) answers or refuses it.  `Enter` stands for `Update` too: they differ in the
action they send.

The server's side is `watched` and `member`.  A drop ends the watcher; whether it ends the
membership is the server's choice (resumption).  `Connect` after a drop runs the restore in its
three parts, between which everything else may happen.

`raced` records which of the two conversations (about the watcher, about the membership) took
a new turn before the last one was through, or had a request refused (for lack of the capability, which the watcher reacts to, or
for another reason, which nobody does) or lost with nothing to make up for it; then nothing is said about where it ends, as the requests of goroutines started in order
may be sent in any order.  `cleared` records that Detach or a refusal has reset `watching` under
listeners that remain, which the code does on purpose.

### Batcher

Time is counted in ticks, `Interval` of which are the throttle window; `elapsed` is
`time.Since(lastFlush)` up to the window.  `FlushLocked` is conjoined into its three callers:
`Enqueue` on a full buffer, `Flush`, and `TimerFlushes`, the callback of a timer, which `Stop`
no longer reaches once it has fired.  `SendBatch` is the end of the goroutine that publishes a batch;
what happens to the publish is module `Publishing`.

### Wire and Codec

`Wire` has a record type for each frame; text is a sequence of bytes, and numbers, lengths and counts are `Uint64`.
Its width is two constants: a varint has at most `MaxVarintLen` bytes, 10 in the code, and in the last of so many at
most the value `MaxLastByte`, 1 in the code, which is where `binary.Uvarint` reports an overflow.  In `Codec` a layout is the
sequence of a frame's fields in the order of the wire, written down once for the writer and once for
the reader, as in the code, and the reader carries its first error along.  `GetAll` has the check of a
count against what is left of the record.  `Sendable` is what the writers rely on: `encodeMessage` and `pushMember`
write no name, data or encoding of a batch of their own, so a frame that has both would lose them, and a bundle without
messages would be written as a single one; `Received` is what a frame is to
its receiver (a bundle of one is a message, the messages of a response take its channel).  The actions take a message of up to `MaxFrames`
records through writing, arrival (whole, cut, or with one byte replaced),
`splitBinaryRecords` and `decodeServerFrames`, one iteration a step.  The client's frames go through
`decodeClientRecord`, the decoder of the fake edge in the tests.

An error code is a `uint64` on the wire and an `int` in Go (binary.go:403, 547).  The model keeps its 64 bits, which the two conversions
carry over unchanged: a code of 2^63 or more stands for the negative `int` of the same bits.

### RestAuth

A token is the epoch it was minted in; the service invalidates all tokens by starting a new
one.  `Header`, `Mint`, `Store` and `Retry` are the critical sections of `r.mu` and the callback
between them.  A client has a static credential (a key or a token), a callback, or both: the header then uses the static
one, but a 401 is retried all the same.  `clean` is the history: the requests that have met neither a new epoch nor another
request.

## Runs

Each run is `tlc -config <name>.cfg <module>`.

| Run | Shows | Expected |
|---|---|---|
| `ConnLifecycle` | `ConnectedIsWatched`, `ConnectingHasAttempt`, `NoResurrection`; while `Close` was never called `OneLiveSocket`, `ArmedIsReferenced`, `FailedOnlyOnRejection`; under fairness `DropIsNoticed` and `ConnectReturns` | holds |
| `PubReconnect` | `QueuedIsFlushed`, `AnswersRouted`, and `KeepsContract`: Publishing refines `PublishContract` | holds |
| `PubSettles` | `ClosedHasNoPublish`; under fairness `PublishSettles`: with queueing disabled every publish ends | holds |
| `Delivery` | `CursorContiguous`, `DeliveredOnce`, `ResumeIsComplete` | holds |
| `Channel` | `AttachedIsRemembered`, `AttachedIsSubscribed`, `DetachedIsForgotten` | holds |
| `Requests` | `OneOutcome`, `AnswersFit`, `WaitingIsServed` | holds |
| `KeepAlive` | under fairness `DeadLinkIsNoticed` and `PingersEnd` | holds |
| `Presence` | types; `ListenedIsWatched`, `WatchSettles`, `MemberSettles`, `OnceFiresOnce`, and `RunsInOrder`: the dispatcher refines `SerialQueue` | holds |
| `Batcher` | `InOnePlace`, `OwnTimerThrottles`; under fairness `PublishAnswered` | holds |
| `Codec` | types (a decoded frame is a frame); `RoundTrip`, `CutYieldsWhole`, `DamageSparesEarlier` | holds |
| `RestAuth` | types; `PerformedOnce`, `ExpiredIsRenewed` | holds |
| `ChanReattaches` | a documented promise that the code breaks, see [Deviations](#deviations) | violated |

Where the type invariant is a theorem it is not run again.

### Bounds

- *Connection*: two sockets, two timer slots, one Connect caller, one Close slot.  Two sockets are an
  old one whose end is reported late and its successor, two timers a fired callback and the next
  timer.  When no slot is free the step waits for one.  Internal connects stand for any number of
  callers whose result nobody looks at.
- *Publishing*: two publishes, three request ids (two live ones and one of an earlier
  send), one timer.  One timer slot means that a timer is not armed again while its
  callback still runs; the lifecycle with two slots is `ConnLifecycle`.  `PubSettles` has one
  publish and two ids to afford a Close under fairness; `ClosedHasNoPublish` is proved for any number.
- *Delivery*: three records, the smallest number with a gap (1, then 3) and a replay
  behind it; record 2 is a batch and record 3 repeats one of its messages; one drop;
  one attach and one restore at a time.  Ageing removes what is stored so far in one
  step.  The duplicate filter is as large as the set of messages: past its cap the code forgets,
  and promises no more.
- *Channel*: two instances (a released one and its replacement), two request slots
  (a late Detach and the attach after it, an attach and a restore), two attaches (`MaxEpoch`) and
  two connection events behind (`MaxEvents`): a drop and the reconnect after it, both before
  the channel hears of the first.  The constraint `BeforeOverlap` stops at states in
  which every property is excused.  `Ends` has the close; a failed connection is the same
  to a channel but for the state it ends in.  `ChanReattaches` needs one instance and no refusals.
- *Requests*: two calls of different tables and two sockets: an answer that finds the entry of the
  other call, and a socket whose end is reported after its successor is installed.  Each call is made once.
- *KeepAlive*: two sockets and two timers, a fired callback of the old socket and the timer of the new one.
- *Presence*: one goroutine of the application, which adds and removes, and the drainer, which removes a one-shot listener
  when it fires and then looks whether to stop watching.  The one-shot listener is registered first and the catch-all after
  it, so that the application can add one while the drainer, with the one-shot gone, has counted none and is about to give
  up the watcher.  Two requests; two values to enter; an event matches the one-shot listener's action or does not.
  The constraint `FewWait` lets two events wait besides the one whose listeners are being called, one while
  a request of the watcher is under way and none while one of the membership is; `AlwaysRunsInOrder` has no such bound.  The constraint `OneInOrder` stops where a conversation has overlapped, except that a refused
  watcher is followed until the client has dealt with the refusal; what is stated of overlapping ones too
  is proved without the bound, as is all the rest.
- *Batcher*: four publishes in batches of two, so that a batch under way, a full buffer and a begun one meet; three
  timers (two late callbacks and the next one); a window of two ticks, so that there is time inside it.
- *Codec*: messages of one or two records, which is where a record can hurt its neighbour; frames of every kind with full
  and with empty fields, some longer than one varint byte; damage is one byte that becomes 13 (another
  opcode, another flag, a count or length that is too small or too large) or 255 (a varint that goes on, a length too large).  `MaxVarintLen` is 3 in place of 10, so that an
  overlong varint fits into a frame.
- *RestAuth*: three requests, one more than the two that share a token, and three epochs.

`CHECK_DEADLOCK FALSE` appears where the system may stop: all publishes are settled, all records are stored, all
requests are made, or the one message is decoded.

### Fairness

`Fairness` in `Connection` is weak fairness of what the Go runtime and its timers
schedule: the attempt (a dial or handshake that never answers is ended by
`handshakeTimeout`), armed timers and their callbacks, the read loop of a dead socket,
the keep-alive callback, and a `Close` that has begun.  Nothing is assumed of the
network or of the application.  A dead socket is one whose read fails; that silence
becomes such a failure is what `DeadLinkIsNoticed` says.  `PubFairness` adds
the goroutines of `sendPublish`, the kicks, and a server that answers what it
receives: without that `PublishSettles` could not hold.  It is checked with
`DisableQueueing`, where a drop rejects the publishes; with queueing a
publish rightly waits as long as the network is down.

`Fairness` in `KeepAlive` is weak fairness of the pinger's steps (its ticker ticks, a write ends by
`writeTimeout`), of timers and callbacks, and of the read of a socket that this side has shut.  The read of
a lost link need not ever fail.  `Arm` has strong fairness only because the model has a bounded number of
timer slots: `time.AfterFunc` never waits for one.  `Fairness` in `Batcher` is weak fairness of time, of timers
that are due, of their callbacks and of the publish of a batch, which returns because of `PublishSettles` or
waits for the network as its caller must.

## Deviations

One is a run that TLC answers with a counterexample; PROJECT.json quotes the text it contradicts.

`ChanReattaches`.  Subscriptions are restored on a *re*connect only.  A channel whose
attach failed because the first connection attempts failed is remembered, but the first
connection that succeeds does not re-subscribe it: its event moves the channel from
suspended to attaching, and there it stays.

Further ones met while modelling, which have no run:

- `c.connecting` stays set until restore and flush have returned (662-664).  If the connection drops in that
  window, the reconnect callback joins the attempt that has already succeeded, gets its nil and arms no
  timer (1014): the client stays disconnected with no retry pending (contrast 71-72).
- `Close` reads `c.socket` in its first half.  An attempt that starts in between sets `connecting`, installs a
  socket, and the second half writes `closed` over it (374, contrast 355-356).  A request that is waiting on the
  new socket can then be stranded, as `completeConnect` closes that socket without failing it (764-770);
  `Requests` leaves this window out (`Dial`).
- A direct publish registers its id after the drop, with a nil socket; the flush of the next connection skips it
  because it has an id; then its failed write resets it (522, contrast 525-526).  It waits for the connection
  after that one.
- A gapped message that arrives after the server answered the fetch, but before `backfill` returns, starts no
  fetch and is not healed by that one (channel.go:742, contrast 217-219).  The hole stays until another
  gapped message or a reconnect comes.
- A pong that is processed between the write of its ping and `armPongDeadline` leaves a deadline with no
  answer to come: an idle link may be torn down though it is alive (1122).  So may one whose deadline can no
  longer be disarmed because the callback of an older timer has cleared the pointer to it (1155).  The next ping's
  pong or any message usually comes first; `KeepAlive` takes these steps, and what it shows is that
  dead links are noticed, not that live ones are kept.
- The requests that open and close the presence watcher run in goroutines of their own, and so do those of the
  membership; two that are started in order may be sent in the other order.  The server then keeps watching for a client without listeners, or
  stops watching for one with some (presence.go:158, 182, contrast 74-76).  `raced` excuses this.
- `decodeServerFrames` decodes the records after a malformed one too; its comment says that a malformed record yields the
  frames decoded before it (binary.go:344-345).  `DamageSparesEarlier` states of these only that they are kept; of the frames behind
  a malformed record it says nothing.
- With several requests at once, the retry after a 401 need not fetch a fresh token: a mint that began earlier
  may store its token after the cache was cleared (rest.go:372-374, contrast 304-306).  `ExpiredIsRenewed` is
  therefore about requests that meet no other.
- A `Connect` call that joins an attempt after it succeeded and its connection dropped
  returns nil while disconnected (331, 340).
- The goroutine of a `Connect` made before `Close` may first run after it and connects
  the closed client; `doConnect` does not look at the state (669, against 765-766).
  `NoResurrection` therefore excepts the first step of an attempt, and nothing else.
- A reconnect callback that was running when the credential was rejected starts
  another attempt in state failed (1014, against 83).
- `handleSocketClose` returns for a closed connection before it reads `fatalErr`.  The
  error outlives the Close and makes a drop of a later connection terminal (956).
- A callback delayed past a `Close` and a new `Connect` clears the pointer to the newer
  timer (1012).  These two, and an attempt that a Close overlaps, are why
  `OneLiveSocket`, `ArmedIsReferenced` and `FailedOnlyOnRejection` are stated for clients
  on which `Close` was never called.
- With `DisableAutoReconnect` a publish on a dropped client reconnects it (503, against
  the option's doc at 124).
- With `DisableAutoReconnect` a failed dial leaves queued publishes in the table although
  nothing will connect (691); `handleSocketClose` fails them in the same situation (985).
- Channels, with overlapping calls, all excused by `overlapped`: the ack of an attach that is
  handled after a Detach began marks the channel attached, with its intent forgotten and,
  after the `unsub`, no subscription (channel.go:353); an attach between the first critical
  section of Detach and its `subscriptionEpoch` is forgotten by that Detach (391); the goroutines
  of a Detach and of a newer attach may write `unsub` after `sub`; a restore that
  has read `desiredSubs` before a Detach may write its `sub` after the `unsub`, which
  leaves a detached channel subscribed.
- Release unregisters the hooks by name after it has left the registry: those of an
  instance that a `Get` has made in between (realtime.go:271), which then gets neither messages nor
  the outcome of a restore.  Its delayed Detach sends an `unsub` for the name, also under the
  replacement's attach.
- Events that the dispatcher delivers late move a channel that the restore has already
  reported attached back to suspended and attaching, with nobody left to report the
  outcome (connection.go:1208).  A refused restore leaves the channel attaching
  (1064).  This is why `AttachedIsSubscribed` says what an attached channel has and not
  that a subscribed channel shows attached.
- A closed or failed connection moves its channels to detached or failed but leaves
  `desiredSubs`: a later `Connect` subscribes them again (`DetachedIsForgotten` is excused by
  `parted`).

## Proofs

TLAPS checks eight modules with no assumption but the constants' (`ConnectionAssumption`,
`PublishingAssumption`, `DeliveryAssumption`, `ChannelAssumption`, `DispatcherAssumption`, `PresenceAssumption`,
`RequestsAssumption`, `KeepAliveAssumption`, `BatcherAssumption`, `RestAuthAssumption`, `WireAssumption`, `CodecAssumption`): the sets are arbitrary and may be infinite or empty,
the options are arbitrary Booleans, the numbers arbitrary, and `None` is none of the members it stands apart from.  `CodecAssumption` says of the frames sent that they are `Sendable`.

**PublishingProofs, the lifecycle** (theorems about `Connection`'s `Spec`). `TypeCorrect`, `ConnectedAlwaysWatched`, `ConnectingAlwaysHasAttempt`,
`AttemptAlwaysOwnsSocket` and the action property `NothingResurrects`.  The first four are
inductive only together.  That a connected client is watched needs that the socket under
handshake is the current one with no read loop of its own, so that `StartReadLoop` starts
the right one; that needs that no other teardown can take the socket away from the
attempt, hence that no deadline runs for it and that the state is not connected while the
attempt is under way; and this needs that a new attempt starts only when the state is not
connected.  `IndInv` is their conjunction with the types.  `NothingResurrects` then
follows by looking at each action.  `AlwaysOneLiveSocket`, `ArmedAlwaysReferenced` and `FailedOnlyByRejection`
are about clients on which `Close` was never called.  Their invariant `BeforeClose` says that there a socket outlives neither
its state nor its attempt, a timer that is armed or has just fired is the one `reconnectTimer` refers to, a fatal error
lasts no longer than the teardown it leads to, and a socket whose deadline is at work has been closed already.  That no closer
has begun is true in a state only if it was true in the one before, so `NeverClosed => BeforeClose` is inductive.

**PublishingProofs, the publishes.** `ImplementsConnection` (every step with publishes is a lifecycle step or
leaves the lifecycle alone) carries those theorems over.  `TableAlwaysTracks` and
`ClosedNeverHoldsPublish` depend on each other: the publishes failed by a closing step are
exactly the waiting ones because the table is exact, and a closed client stays empty
because `publish` refuses there.  `AnswersAlwaysRouted` needs to know of the goroutines in
`sendPublish` which ids they hold (`SendersRoute`), since a frame carries an id that was
assigned a critical section earlier; freshness of ids does the rest.  The history of the answers makes the statement one about
the publish that is answered, refusals included, and not only about some publish.
`ImplementsContract` shows `PubSpec => Contract!Spec` with `called` mapped to the publishes
whose call has begun: each step is a call, a refusal, a store, an acknowledgement, a
failure of a set of waiting publishes, or a stutter.  `QueuedAlwaysFlushed` is inductive with `FlushInv`: a queued publish is
sent by the flush alone; once the flush has read the table no other attempt connects until it is through, so in
a connected state it sends to the current socket (`FlushShape`, `FlushSends`); and a queued publish that has an id can be
answered (`QueuedMapped`), so the flush may pass it by.  A direct send that is undone forgets only its own route, which is where `SendersRoute` comes in.

**DeliveryProofs.** `TypeCorrect`, `CursorIsContiguous`, `DeliveredAtMostOnce` and `ResumeCompletes`.  For the cursor the strengthening is
`WorkerDelivers` (a worker that has left messages of its record behind has delivered them, so
that at `recordSerial` the whole record was delivered), `SeenDelivered` (what the filter
suppresses was delivered before, without which a suppressed message would be a hole) and
`FetchFromCursor`.  Whatever `onResumed` and the fetch do in between, `recordSerial` moves
the cursor only to an adopted baseline or by one.
`DeliveredAtMostOnce` counts: the filter holds each delivered key once, and an unseen key leaves it at least one
short of all keys, so nothing is evicted while the keys fit (`FilterHasRoom`, by the library's facts on injections).
`ResumeCompletes` needs to know of each record where it is at every moment (`Covered`): received; still to be sent,
under way or in a worker (`Coming`); left to a renewal of the subscription, from the drop to the frame of the restore
(`Renewing`); in a refusal that the channel will report (`Reporting`); or older than any baseline it may yet adopt (`BeforeBaseline`).
Each step moves a record between these or reports it.  The delicate one is the answer to a `sub`: what a
granted resume does not replay is at or below the cursor that the `sub` carries, which the channel still has or has
reported since (`FromKnown`); what a refused one skips is lost, unless the refusal belongs to a restore, whose goroutine is
the one that waits for it (`OneFrameEach`).

**ChannelProofs.** `TypeCorrect`, `AttachedRemembered`, `AttachedAlwaysSubscribed` and `DetachedAlwaysForgotten`.  Two things take a name out of
`desiredSubs`, a capability error and a Detach.  `RememberInv` says why neither
hits an attached channel before calls overlap.  A channel that counts on the restore
(`Counting`: attached, suspended or attaching with no attach of its own) has no attach of the name under
way, so no capability error to come; no Detach that is still to read the epoch; and the Detaches that have
read it (`MayForget`) hold an epoch below the current one, so their forget does nothing.
An attach under way establishes this when it remembers: `epoch` grows past every epoch
read before, which is what the counter is for.  The connection events must be in the
invariant too, since they move a channel among the counting states (`suspended` to `attaching`), and so
must `FreshInstance`, for a `Get` must not make an instance that counts at once.

The last two theorems follow the frames.  `Eventual` is what the server comes to once it has handled those under way:
the last of them decides, since it handles them in order.  `SettledInv` says, while nothing overlapped or parted,
that `Eventual` needs the intent or a Detach with its unsub ahead, and that an intent on a connected client needs `Eventual`,
or a restore or a sub that is still ahead, or a Detach that will forget it (`Agreed`; before the first sub is written there
is nothing to agree on, which `NeverSub` covers up to the first connection).  The steps that could break it are excluded in
pairs: a sub is never written while a Detach holds the current epoch (`Forgetful`), since `RememberInv` gives an attach
a newer one and a restore starts under no Detach (`Apart`); a Detach at its unsub holds the current epoch, so the frame it
writes is followed by its forget; and the intent has an instance in `Wanting` or a Detach that ends it (`Claimed`).  An attached instance then has
the intent by `RememberInv`, since no attach of its own can be under way (`AttachingOwned`).

**RequestsProofs.** `TypeCorrect`, `AlwaysOneOutcome`, `AnswersAlwaysFit` and `WaitingAlwaysServed`.  The first three
come from `CallInv`: every id in use is at most `nextID` and belongs to one call, every entry, frame and delivery
carries the id of its call, and a call that has not registered has none.  An id is therefore never given twice, which is all that keeps
the answers of three tables apart.  The fourth needs to know who will end the socket a call waits on.  `LinkInv`
is what the connection guarantees: the socket under handshake is `c.socket`, with no read loop and no callback, and the state is
connecting or one of Close's; a disconnected client has no socket; a connected one has a read loop or a dying callback for
its socket; and a closed client's socket is shut.  `ServedInv` follows a call that holds a socket and has no outcome:
its entry is still there, and somebody will end it, either a Close under way, or the end of its socket, which is
`c.socket` in a state that watches it, or its own write, which is about to fail on a shut socket.

**KeepAliveProofs.** `TypeCorrect`, `PointerAlwaysLive` and `ReferencedAlwaysSilent`, each about what a late callback
leaves behind.  The first of the two is why a cleared or a stale pointer cannot switch the detector off for good; it is the
safety half of `DeadLinkIsNoticed`.

**BatcherAndRestProofs, the batches.** `TypeCorrect`, `BufferAlwaysTimed`, `OwnTimerAlwaysThrottles` and `AlwaysInOnePlace`.  The first three are inductive together with `WindowInv`: the
timer that `batchTimer` refers to has at least the rest of the window to go.  A buffer without a timer would let the
next timer be armed for a window that is not its own.  `AlwaysInOnePlace` follows where each call is without counting (`Places`:
the buffer holds a call once, two batches share none, a call is held exactly while it waits) and counts at the end only,
with the library's facts on the cardinality of empty and singleton sets.

**PresenceProofs.** `ImplementsDispatcher`, `AlwaysOneDrainer`, `AlwaysRunsInOrder`, `ListenedAlwaysWatched`,
`PresenceTypeCorrect`, `AlwaysFiresOnce`, `WatchAlwaysSettles` and `MemberAlwaysSettles`: every property of the run.  The refinement of `SerialQueue`
needs that at most one goroutine drains (`DispatchInv`), for then the callback that runs is a function of the state; a
`Take` is a `Start`, a `Return` a `Finish`, and the exit of the goroutine a stutter; the queue may be of any length.  `ListenInv` follows a registration from
`Add` to `ensureWatching`: there is a wish to watch, or a goroutine about to form one, and `maybeStopWatching` withdraws the wish
only when it has counted no listener and still holds the lock.  Who registers in between is at `ensureWatching`, where it waits for the lock, so the invariant
says of a wish about to be withdrawn under listeners that some goroutine is there.  `AlwaysFiresOnce` rests on `OnceInv`: a one-shot listener is registered, or
in the snapshot of the one drainer that emits, or called, and ids that only grow keep a later registration from being taken for it.

The two settling theorems share `FrameInv` (a request is on the wire once and unanswered, nothing of a socket outlives it) and
say who will bring the server to what the client wants.  `WatchInv`: while turns do not overlap, every
request in flight asks for what is wished now and an answered one has made it so; a thread in its turn is alone (`Turning`); and if
the server is not there yet, a request is pending, or a restore that has still to collect, or, on a lost connection, the one of
the next reconnect, which exists because the connection had been up.  Who clears the wish clears `desiredPresence` in a later
critical section, so `remembered = watching` holds between turns only, and a restore that collects inside a closing one
is an overlap.  `MemberInv` is the same for the membership, with a difference that decides its shape: a restore
announces an entry but never a leave, so a membership to be ended has only its own request, and a drop that takes a leave with
it is one of the losses nothing makes up for.

**BatcherAndRestProofs, the requests.** `RestTypeCorrect`, `AlwaysPerformedOnce` and `ExpiredAlwaysRenewed`.  What the service has performed is answered by
something else than a 401, and nothing else is sent again (`PerformedInv`).  A request that has met nobody is alone while it
is under way (`Alone`), so that what it clears stays clear: on its retry it mints a token of this epoch, which the service
takes (`Renewing`).  `MaxEpoch` is positive, as the service starts in an epoch.

**CodecProofs.** `TypeCorrect`, `CodecCarriesEveryFrame`, `CodecRecoversTheHead` and `CodecSparesEarlier`, that is every
property of the run, for all frames of any contents and length, any number of them in a message, any cut and
any replaced byte; and of the functions alone `ServerTrip`, `ClientTrip` (what is written is read back), `ServerDecodes` and
`ClientDecodes` (arbitrary bytes decode to a well-typed frame or to none).  These are about recursive functions over
data.  The library's induction theorems take an operator, which the provers cannot instantiate, so `Induction` states
induction over *sets* of numbers and is proved from the well-foundedness of `<`; `Recursion`, proved with it, gives the existence
of the recursive functions the model declares, and each inductive proof collects the numbers for which the
claim holds in a set.  That a varint is read back goes through the number that its bytes stand for (`Digits`): the reader sums the bytes, the
writer divides, and both come to the same digits; `UvarintFits` and `DigitsBound` say that
no number of `Uint64` overflows the reader and no overflow passes it.  From there each layer has two lemmas, one for
bytes that were written (`GetSlicePut`, `GetFieldPut`, `GetPut`, `ItemsPut`, `MembersPut`, `MessagesPut`), always with arbitrary bytes
behind them, and one for arbitrary bytes (`...Type`).  That the count of a list passes the check against the bytes that
are left needs the least length of an item (`FlatLen`).  A frame's two layouts are then compared kind by kind (`...Trip`, `...In`).

For the message as a whole, `CodecInv` says of a body that is the bytes of some payloads, or a head of them, that the splitter
stands behind the records it has found or at one that is not whole (`Progress`), and that what has been decoded is the head
of what the payloads come to, a frame or nothing each (`Carried`).  It quantifies over the payloads: a damaged byte inside one
gives the bytes of other payloads, of the same lengths (`DamagedBytes`), so the same invariant covers a whole message, a cut one and
damage within a payload, and the properties are read off at the end.  A damaged length prefix can give any records behind it.  `HeadInv` is therefore about
bytes that some whole records lead, with anything behind them: the splitter finds these records before it may stop
(`NextWhole`), and nothing decoded later takes their frames away (`FetchedNext`).  `NextRecord` is the heart: two ways to cut the same bytes agree up to the shorter
one (`Levi`), and a varint has no proper head that is a varint, so a cut record is an error and never another record.
`MaxVarintLen` and `MaxLastByte` are arbitrary; `Uint64IsSixtyFourBits` says that the values of the code give 64 bits.

Only model-checked: the liveness properties `DropIsNoticed`, `ConnectReturns`, `PublishSettles`, `PublishAnswered`, `DeadLinkIsNoticed` and
`PingersEnd`.  Fairness and `ENABLED` are beyond the prover here.  Every other property that a passing run checks is a theorem.

## Not modelled

- `auth.go` and `crypto.go`: pure cryptography and formatting.
- `rest.go` outside of `request`: building requests, JSON and paging, with no state that two calls share.
- `BatchPublish` and `PublishBatch`: they group messages and call `publish` or a REST endpoint.
- `Client.Close` (realtime.go:275), which releases every channel and closes the connection: the Detaches of the releases
  call `Connect`, so that a closed client may be connected again.  This is the composition of `Channel` with `Connection`, whose
  state spaces together are out of TLC's reach.
- Presence methods called from inside a presence listener, and contexts that end a presence request (its answer is then
  ignored; what the server does with it is the same).
- Logging, the contents of messages and their JSON; `emitter` as used by channels and the connection, where no hook is set.
