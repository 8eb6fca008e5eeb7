---------------------------- MODULE DeliveryProofs ----------------------------
(***************************************************************************)
(* What holds of module Delivery for every number of records, every way    *)
(* the records are made of messages, and any number of drops and waiting   *)
(* goroutines: the resume cursor never passes over a record that was not   *)
(* delivered, no message is delivered twice while the duplicate filter can *)
(* hold every key, and a resume is complete once all is quiet.             *)
(***************************************************************************)
EXTENDS Delivery, SequenceTheorems, FiniteSetTheorems, TLAPS

(* The inductive invariant.  A worker has delivered the messages of its    *)
(* record that it has left behind, so that a serial is only recorded when  *)
(* its record was delivered; what the duplicate filter holds back was      *)
(* delivered before; and a fetch starts from a cursor.                     *)
WorkerDelivers ==
    \A w \in Workers :
        worker[w].pc # "idle" =>
            /\ worker[w].seq \in Serials
            /\ worker[w].pc = "record" => worker[w].left = {}
            /\ \A m \in Members[worker[w].seq] \ worker[w].left : delivered[m] > 0

SeenDelivered == \A i \in 1 .. Len(seen) : delivered[seen[i]] > 0

FetchFromCursor == fetch.pc = "wait" => fetch.from \in Serials

IndInv ==
    /\ TypeOK
    /\ WorkerDelivers
    /\ SeenDelivered
    /\ FetchFromCursor
    /\ CursorContiguous

(* The frames under way keep their types. *)
LEMMA QueueFacts ==
    ASSUME NEW S, NEW q \in Seq(S)
    PROVE  /\ \A x \in S : Append(q, x) \in Seq(S)
           /\ q # <<>> => Head(q) \in S /\ Tail(q) \in Seq(S)
BY AppendProperties, HeadTailProperties

(* The records keep their types when a field changes. *)
LEMMA SubRecordFacts ==
    /\ \A x \in SubRecords : /\ [x EXCEPT !.pc = "sent"] \in SubRecords
                            /\ [x EXCEPT !.pc = "failed"] \in SubRecords
                            /\ x.from \in 0 .. MaxSerial /\ x.resumed \in BOOLEAN
    /\ \A x \in SubRecords, b \in BOOLEAN :
          [x EXCEPT !.pc = "acked", !.resumed = b] \in SubRecords
    /\ \A k \in {"attach", "restore"}, n \in 0 .. MaxSerial :
          [pc |-> "wait", kind |-> k, from |-> n, resumed |-> FALSE] \in SubRecords
BY DEF SubRecords

LEMMA FetchRecordFacts ==
    /\ \A x \in FetchRecords :
          /\ \A p \in {"idle", "wait", "sent", "apply", "discontinuity", "done"} :
                /\ [x EXCEPT !.pc = p] \in FetchRecords
                /\ [x EXCEPT !.pc = p].pc = p
          /\ x.from \in 0 .. MaxSerial /\ x.to \in 0 .. MaxSerial
    /\ \A x \in FetchRecords, n \in 0 .. MaxSerial :
          [x EXCEPT !.from = n] \in FetchRecords /\ [x EXCEPT !.from = n].pc = x.pc
BY DEF FetchRecords

LEMMA IdleFacts ==
    IdleSub \in SubRecords /\ IdleFetch \in FetchRecords /\ IdleWorker \in WorkerRecords
BY DeliveryAssumption DEF IdleSub, IdleFetch, IdleWorker, SubRecords, FetchRecords,
                          WorkerRecords

(* The answer to a fetch is a frame. *)
LEMMA FetchResFact ==
    ASSUME TypeOK, NEW n \in Serials
    PROVE  [type |-> "fetchRes", from |-> n, to |-> head, resumed |-> Retained(n)] \in FetchRes
<1>1. Retained(n) \in BOOLEAN
  BY DeliveryAssumption DEF Retained, TypeOK, Serials
<1>2. n \in 0 .. MaxSerial /\ head \in 0 .. MaxSerial
  BY DeliveryAssumption DEF TypeOK, Serials
<1>3. QED
  BY <1>1, <1>2 DEF FetchRes

LEMMA IndInit == Init => IndInv
<1> SUFFICES ASSUME Init PROVE IndInv
  OBVIOUS
<1>1. /\ sub \in [Subs -> SubRecords]
      /\ fetch \in FetchRecords
      /\ worker \in [Workers -> WorkerRecords]
  BY IdleFacts DEF Init
<1>2. /\ toServer \in Seq(SubFrame \cup FetchFrame)
      /\ toClient \in Seq(MsgFrame \cup AckFrame \cup FetchRes)
      /\ events \in Seq({"disconnected", "connected"})
      /\ seen \in Seq(Ids)
  BY EmptySeq DEF Init
<1>3. TypeOK
  <2>1. /\ head \in 0 .. MaxSerial /\ floor \in 1 .. MaxSerial + 1
        /\ tail \in 0 .. MaxSerial \cup {None}
        /\ drops \in 0 .. MaxDrops
        /\ contiguousSerial \in 0 .. MaxSerial /\ baseline \in 0 .. MaxSerial
        /\ told \in 0 .. MaxSerial /\ delivered \in [Ids -> Nat]
    BY DeliveryAssumption DEF Init
  <2>2. /\ dropped \in BOOLEAN /\ up \in BOOLEAN /\ restoring \in BOOLEAN
        /\ backfilling \in BOOLEAN /\ state \in ChannelStates
    BY DEF Init, ChannelStates
  <2>3. QED
    BY <1>1, <1>2, <2>1, <2>2 DEF TypeOK
<1>4. WorkerDelivers
  BY DEF Init, WorkerDelivers, IdleWorker
<1>5. FetchFromCursor /\ CursorContiguous /\ SeenDelivered
  BY DEF Init, FetchFromCursor, CursorContiguous, SeenDelivered, IdleFetch
<1>6. QED
  BY <1>3, <1>4, <1>5 DEF IndInv

-----------------------------------------------------------------------------
(* Steps that leave delivery alone. *)

LEMMA ServerKeeps ==
    ASSUME IndInv, Stores \/ AgesOut \/ SendsLive \/ AnswersSub \/ AnswersFetch
    PROVE  IndInv'
<1> USE DeliveryAssumption DEF IndInv
<1> DEFINE FS == SubFrame \cup FetchFrame
           FC == MsgFrame \cup AckFrame \cup FetchRes
<1>1. CASE Stores
  <2>1. TypeOK'
    BY <1>1 DEF Stores, TypeOK, wireVars, cursorVars, deliverVars, Serials
  <2>2. QED
    BY <1>1, <2>1 DEF Stores, wireVars, cursorVars, deliverVars, WorkerDelivers, SeenDelivered,
                      FetchFromCursor, CursorContiguous, Received
<1>2. CASE AgesOut
  <2>1. TypeOK'
    BY <1>2 DEF AgesOut, TypeOK, wireVars, cursorVars, deliverVars, Serials
  <2>2. QED
    BY <1>2, <2>1 DEF AgesOut, wireVars, cursorVars, deliverVars, WorkerDelivers, SeenDelivered,
                      FetchFromCursor, CursorContiguous, Received
<1>3. CASE SendsLive
  <2>1. tail \in 0 .. MaxSerial /\ tail + 1 \in Serials
    BY <1>3 DEF SendsLive, TypeOK, Serials
  <2>2. [type |-> "msg", seq |-> tail + 1] \in FC
    BY <2>1 DEF MsgFrame
  <2>3. Append(toClient, [type |-> "msg", seq |-> tail + 1]) \in Seq(FC)
    BY <2>2, QueueFacts DEF TypeOK
  <2>4. toClient' \in Seq(FC) /\ dropped' \in BOOLEAN
    <3>1. dropped' \in BOOLEAN
      BY <1>3, Zenon DEF SendsLive, TypeOK
    <3>2. \/ toClient' = toClient
          \/ toClient' = Append(toClient, [type |-> "msg", seq |-> tail + 1])
      BY <1>3, Zenon DEF SendsLive
    <3>3. QED
      BY <2>3, <3>1, <3>2 DEF TypeOK
  <2>5. tail' \in 0 .. MaxSerial
    BY <1>3, <2>1 DEF SendsLive, Serials
  <2>6. TypeOK'
    BY <1>3, <2>4, <2>5 DEF SendsLive, TypeOK, cursorVars, deliverVars
  <2>7. QED
    BY <1>3, <2>6 DEF SendsLive, cursorVars, deliverVars, WorkerDelivers, SeenDelivered,
                      FetchFromCursor, CursorContiguous, Received
<1>4. CASE AnswersSub
  <2> DEFINE f == Head(toServer)
             resumed == f.from > 0 /\ Retained(f.from)
  <2>1. f \in SubFrame /\ toServer' \in Seq(FS)
    BY <1>4, QueueFacts DEF AnswersSub, TypeOK, SubFrame, FetchFrame
  <2>2. tail' \in 0 .. MaxSerial
    BY <1>4, <2>1 DEF AnswersSub, TypeOK, SubFrame
  <2>3. [type |-> "ack", slot |-> f.slot, resumed |-> resumed] \in FC
    BY <2>1 DEF AckFrame, SubFrame
  <2>4. toClient' \in Seq(FC)
    BY <1>4, <2>3, QueueFacts DEF AnswersSub, TypeOK
  <2>5. dropped' \in BOOLEAN
    BY <1>4 DEF AnswersSub, TypeOK
  <2>6. TypeOK'
    BY <1>4, <2>1, <2>2, <2>4, <2>5 DEF AnswersSub, TypeOK, cursorVars, deliverVars
  <2>7. QED
    BY <1>4, <2>6 DEF AnswersSub, cursorVars, deliverVars, WorkerDelivers, SeenDelivered,
                      FetchFromCursor, CursorContiguous, Received
<1>5. CASE AnswersFetch
  <2> DEFINE f == Head(toServer)
             answer == [type |-> "fetchRes", from |-> f.from, to |-> head,
                        resumed |-> Retained(f.from)]
  <2>1. f \in FetchFrame /\ toServer' \in Seq(FS)
    BY <1>5, QueueFacts DEF AnswersFetch, TypeOK, SubFrame, FetchFrame
  <2>2. answer \in FC
    <3>1. f.from \in Serials
      BY <2>1 DEF FetchFrame
    <3>2. QED
      BY <3>1, FetchResFact
  <2>3. toClient' \in Seq(FC)
    BY <1>5, <2>2, QueueFacts DEF AnswersFetch, TypeOK
  <2>4. TypeOK'
    BY <1>5, <2>1, <2>3 DEF AnswersFetch, TypeOK, serverVars, cursorVars, deliverVars
  <2>5. QED
    BY <1>5, <2>4 DEF AnswersFetch, cursorVars, deliverVars, WorkerDelivers, SeenDelivered,
                      FetchFromCursor, CursorContiguous, Received
<1>6. QED
  BY <1>1, <1>2, <1>3, <1>4, <1>5
-----------------------------------------------------------------------------
(* Steps of the connection and of the goroutines that wait for a sub. *)

LEMMA ConnectionKeeps ==
    ASSUME IndInv, Drops \/ Reconnects \/ OnConnectionState
    PROVE  IndInv'
<1> USE DeliveryAssumption DEF IndInv
<1>1. CASE Drops
  <2>1. /\ toServer' \in Seq(SubFrame \cup FetchFrame)
        /\ toClient' \in Seq(MsgFrame \cup AckFrame \cup FetchRes)
        /\ events' \in Seq({"disconnected", "connected"})
    BY <1>1, EmptySeq, QueueFacts DEF Drops, TypeOK
  <2>2. sub' \in [Subs -> SubRecords]
    BY <1>1, SubRecordFacts DEF Drops, TypeOK
  <2>3. /\ fetch' \in FetchRecords
        /\ fetch'.pc = "wait" => fetch' = fetch
    BY <1>1, FetchRecordFacts DEF Drops, TypeOK
  <2>4. drops' \in 0 .. MaxDrops /\ tail' \in 0 .. MaxSerial \cup {None}
    BY <1>1 DEF Drops, TypeOK
  <2>5. TypeOK'
    BY <1>1, <2>1, <2>2, <2>3, <2>4 DEF Drops, TypeOK, cursorVars, deliverVars
  <2>6. QED
    BY <1>1, <2>3, <2>5 DEF Drops, cursorVars, deliverVars, WorkerDelivers, SeenDelivered,
                            FetchFromCursor, CursorContiguous, Received
<1>2. CASE Reconnects
  <2>1. events' \in Seq({"disconnected", "connected"})
    BY <1>2, QueueFacts DEF Reconnects, TypeOK
  <2>2. TypeOK'
    BY <1>2, <2>1 DEF Reconnects, TypeOK, serverVars, cursorVars, deliverVars
  <2>3. QED
    BY <1>2, <2>2 DEF Reconnects, cursorVars, deliverVars, WorkerDelivers, SeenDelivered,
                      FetchFromCursor, CursorContiguous, Received
<1>3. CASE OnConnectionState
  <2>1. events' \in Seq({"disconnected", "connected"})
    BY <1>3, QueueFacts DEF OnConnectionState, TypeOK
  <2>2. state' \in ChannelStates
    BY <1>3 DEF OnConnectionState, TypeOK, ChannelStates
  <2>3. TypeOK'
    BY <1>3, <2>1, <2>2 DEF OnConnectionState, TypeOK, serverVars, wireVars,
                            cursorVars, deliverVars
  <2>4. QED
    BY <1>3, <2>3 DEF OnConnectionState, cursorVars, deliverVars, WorkerDelivers, SeenDelivered,
                      FetchFromCursor, CursorContiguous, Received
<1>4. QED
  BY <1>1, <1>2, <1>3

(* A change of the outcome of a resume, or of nothing but the waiting      *)
(* goroutines: the cursor stays or is dropped.                             *)
LEMMA CursorKeptOrDropped ==
    ASSUME IndInv, UNCHANGED <<worker, fetch, deliverVars>>,
           UNCHANGED cursorVars \/ contiguousSerial' = 0
    PROVE  WorkerDelivers' /\ SeenDelivered' /\ FetchFromCursor' /\ CursorContiguous'
BY DEF IndInv, WorkerDelivers, SeenDelivered, FetchFromCursor, CursorContiguous, Received,
       cursorVars, deliverVars

LEMMA OnResumedFacts ==
    ASSUME TypeOK, NEW b \in BOOLEAN, OnResumed(b)
    PROVE  /\ contiguousSerial' \in 0 .. MaxSerial /\ baseline' \in 0 .. MaxSerial
           /\ state' \in ChannelStates /\ told' \in 0 .. MaxSerial
           /\ UNCHANGED cursorVars \/ contiguousSerial' = 0
<1>1. CASE b = TRUE
  BY <1>1 DEF OnResumed, TypeOK, ChannelStates, cursorVars
<1>2. CASE b = FALSE
  BY <1>2, DeliveryAssumption DEF OnResumed, Reports, TypeOK, ChannelStates
<1>3. QED
  BY <1>1, <1>2

LEMMA SubKeeps ==
    ASSUME IndInv, NEW g \in Subs,
           \/ Restores(g) \/ SubSends(g) \/ SubFails(g)
           \/ Attach(g) \/ AttachEnds(g) \/ RestoreEnds(g)
    PROVE  IndInv'
<1> USE DeliveryAssumption DEF IndInv
<1>1. CASE Restores(g)
  <2>1. sub' \in [Subs -> SubRecords]
    BY <1>1, SubRecordFacts DEF Restores, TypeOK
  <2>2. TypeOK'
    BY <1>1, <2>1 DEF Restores, TypeOK, serverVars, cursorVars, deliverVars
  <2>3. QED
    BY <1>1, <2>2, CursorKeptOrDropped DEF Restores
<1>2. CASE SubSends(g)
  <2>1. sub' \in [Subs -> SubRecords]
    BY <1>2, SubRecordFacts DEF SubSends, TypeOK
  <2>2. [type |-> "sub", slot |-> g, from |-> sub[g].from] \in SubFrame \cup FetchFrame
    BY SubRecordFacts DEF TypeOK, SubFrame
  <2>3. toServer' \in Seq(SubFrame \cup FetchFrame)
    BY <1>2, <2>2, QueueFacts DEF SubSends, TypeOK
  <2>4. TypeOK'
    BY <1>2, <2>1, <2>3 DEF SubSends, TypeOK, serverVars, cursorVars, deliverVars
  <2>5. QED
    BY <1>2, <2>4, CursorKeptOrDropped DEF SubSends
<1>3. CASE SubFails(g)
  <2>1. sub' \in [Subs -> SubRecords]
    BY <1>3, SubRecordFacts DEF SubFails, TypeOK
  <2>2. TypeOK'
    BY <1>3, <2>1 DEF SubFails, TypeOK, serverVars, wireVars, cursorVars, deliverVars
  <2>3. QED
    BY <1>3, <2>2, CursorKeptOrDropped DEF SubFails
<1>4. CASE Attach(g)
  <2>1. sub' \in [Subs -> SubRecords]
    BY <1>4, SubRecordFacts DEF Attach, TypeOK
  <2>2. TypeOK'
    BY <1>4, <2>1 DEF Attach, TypeOK, ChannelStates, serverVars, wireVars,
                      cursorVars, deliverVars
  <2>3. QED
    BY <1>4, <2>2, CursorKeptOrDropped DEF Attach
<1>5. CASE AttachEnds(g)
  <2>1. sub' \in [Subs -> SubRecords]
    BY <1>5, IdleFacts DEF AttachEnds, TypeOK
  <2>2. state' \in ChannelStates
    BY <1>5 DEF AttachEnds, ChannelStates
  <2>3. told' \in 0 .. MaxSerial
    BY <1>5 DEF AttachEnds, Reports, TypeOK
  <2>4. TypeOK'
    BY <1>5, <2>1, <2>2, <2>3 DEF AttachEnds, TypeOK, serverVars, wireVars,
                                  cursorVars, deliverVars
  <2>5. QED
    BY <1>5, <2>4, CursorKeptOrDropped DEF AttachEnds
<1>6. CASE RestoreEnds(g)
  <2>1. sub' \in [Subs -> SubRecords]
    BY <1>6, IdleFacts DEF RestoreEnds, TypeOK
  <2>2. UNCHANGED <<cursorVars, state, told>> \/ \E b \in BOOLEAN : OnResumed(b)
    BY <1>6, SubRecordFacts DEF RestoreEnds, TypeOK
  <2>3. /\ contiguousSerial' \in 0 .. MaxSerial /\ baseline' \in 0 .. MaxSerial
        /\ state' \in ChannelStates /\ told' \in 0 .. MaxSerial
        /\ UNCHANGED cursorVars \/ contiguousSerial' = 0
    BY <2>2, OnResumedFacts DEF TypeOK, cursorVars
  <2>4. TypeOK'
    BY <1>6, <2>1, <2>3 DEF RestoreEnds, TypeOK, serverVars, wireVars, deliverVars
  <2>5. QED
    BY <1>6, <2>3, <2>4, CursorKeptOrDropped DEF RestoreEnds
<1>7. QED
  BY <1>1, <1>2, <1>3, <1>4, <1>5, <1>6
-----------------------------------------------------------------------------
(* The read loop. *)

LEMMA ReaderKeeps ==
    ASSUME IndInv, ReadsMessage \/ ReadsAck \/ ReadsFetchRes
    PROVE  IndInv'
<1> USE DeliveryAssumption DEF IndInv
<1> DEFINE FC == MsgFrame \cup AckFrame \cup FetchRes
           f == Head(toClient)
<1>1. f \in FC /\ toClient' \in Seq(FC)
  <2>1. toClient \in Seq(FC)
    BY DEF TypeOK
  <2>2. toClient # <<>> /\ toClient' = Tail(toClient)
    BY DEF ReadsMessage, ReadsAck, ReadsFetchRes
  <2>3. QED
    BY <2>1, <2>2, HeadTailProperties
<1>2. CASE ReadsMessage
  <2>1. f.seq \in Serials
    BY <1>1, <1>2 DEF ReadsMessage, MsgFrame, AckFrame, FetchRes
  <2>2. Delivering(f.seq) \in WorkerRecords
    BY <2>1 DEF Delivering, WorkerRecords, Serials
  <2>3. TypeOK'
    BY <1>1, <1>2, <2>2 DEF ReadsMessage, TypeOK, serverVars, cursorVars, deliverVars
  <2>4. WorkerDelivers'
    BY <1>2, <2>1 DEF ReadsMessage, WorkerDelivers, Delivering, deliverVars, TypeOK
  <2>5. QED
    BY <1>2, <2>3, <2>4 DEF ReadsMessage, cursorVars, deliverVars, FetchFromCursor,
                            SeenDelivered, CursorContiguous, Received
<1>3. CASE ReadsAck
  <2>1. f.slot \in Subs /\ f.resumed \in BOOLEAN
    BY <1>1, <1>3 DEF ReadsAck, MsgFrame, AckFrame, FetchRes
  <2>2. sub' \in [Subs -> SubRecords]
    BY <1>3, <2>1, SubRecordFacts DEF ReadsAck, TypeOK
  <2>3. TypeOK'
    BY <1>1, <1>3, <2>2 DEF ReadsAck, TypeOK, serverVars, cursorVars,
                            deliverVars
  <2>4. QED
    BY <1>3, <2>3, CursorKeptOrDropped DEF ReadsAck
<1>4. CASE ReadsFetchRes
  <2>1. f.from \in 0 .. MaxSerial /\ f.to \in 0 .. MaxSerial
    BY <1>1, <1>4 DEF ReadsFetchRes, MsgFrame, AckFrame, FetchRes
  <2>2. /\ fetch' \in FetchRecords
        /\ fetch'.pc # "wait"
    BY <1>4, <2>1 DEF ReadsFetchRes, FetchRecords
  <2>3. TypeOK'
    BY <1>1, <1>4, <2>2 DEF ReadsFetchRes, TypeOK, serverVars, cursorVars, deliverVars
  <2>4. QED
    BY <1>4, <2>2, <2>3 DEF ReadsFetchRes, cursorVars, deliverVars, WorkerDelivers, SeenDelivered,
                            FetchFromCursor, CursorContiguous, Received
<1>5. QED
  BY <1>2, <1>3, <1>4

-----------------------------------------------------------------------------
(* deliverMessage *)

(* The duplicate filter keeps its type. *)
LEMMA RememberFacts ==
    ASSUME TypeOK, NEW m \in Ids, Remember(m)
    PROVE  /\ seen' \in Seq(Ids)
           /\ \A i \in 1 .. Len(seen') :
                 seen'[i] = m \/ \E j \in 1 .. Len(seen) : seen'[i] = seen[j]
<1>1. CASE Len(seen) < DedupMax
  BY <1>1, AppendProperties DEF Remember, TypeOK
<1>2. CASE ~(Len(seen) < DedupMax)
  <2>1. seen # <<>>
    BY <1>2, DeliveryAssumption
  <2>2. /\ Tail(seen) \in Seq(Ids) /\ Len(seen) \in Nat
        /\ Len(Tail(seen)) = Len(seen) - 1
        /\ \A i \in 1 .. Len(Tail(seen)) : Tail(seen)[i] = seen[i + 1]
    BY <2>1, HeadTailProperties, LenProperties DEF TypeOK
  <2>3. seen' = Append(Tail(seen), m)
    BY <1>2 DEF Remember
  <2>4. /\ seen' \in Seq(Ids) /\ Len(seen') = Len(seen)
        /\ \A i \in 1 .. Len(seen) - 1 : seen'[i] = seen[i + 1]
        /\ seen'[Len(seen)] = m
    BY <2>2, <2>3, AppendProperties
  <2>5. QED
    BY <2>2, <2>4
<1>3. QED
  BY <1>1, <1>2

LEMMA DeliverKeeps ==
    ASSUME IndInv, NEW w \in Workers, NEW m \in Ids, DeliverSingle(w, m)
    PROVE  IndInv'
<1> USE DeliveryAssumption DEF IndInv
<1> DEFINE left == worker[w].left \ {m}
<1>1. /\ worker[w].pc # "idle" /\ worker[w].seq \in Serials /\ m \in worker[w].left
      /\ worker' = [worker EXCEPT ![w] =
                      [pc |-> IF left = {} THEN "record" ELSE "deliver",
                       seq |-> worker[w].seq, left |-> left]]
  BY DEF DeliverSingle, WorkerDelivers, TypeOK
<1>2. worker' \in [Workers -> WorkerRecords]
  <2>1. [pc |-> IF left = {} THEN "record" ELSE "deliver",
         seq |-> worker[w].seq, left |-> left] \in WorkerRecords
    BY DEF TypeOK, WorkerRecords
  <2>2. QED
    BY <1>1, <2>1 DEF TypeOK
<1>3. /\ seen' \in Seq(Ids) /\ delivered' \in [Ids -> Nat]
      /\ \A i \in Ids : delivered'[i] >= delivered[i]
      /\ delivered'[m] > 0
      /\ SeenDelivered'
  <2>1. CASE IsDuplicate(m)
    <3>1. delivered[m] > 0
      BY <2>1 DEF IsDuplicate, Contains, SeenDelivered
    <3>2. seen' = seen /\ delivered' = delivered
      BY <2>1 DEF DeliverSingle, deliverVars
    <3>3. QED
      BY <3>1, <3>2 DEF TypeOK, SeenDelivered
  <2>2. CASE ~IsDuplicate(m)
    <3>1. Remember(m) /\ delivered' = [delivered EXCEPT ![m] = @ + 1]
      BY <2>2 DEF DeliverSingle
    <3>2. /\ delivered' \in [Ids -> Nat] /\ delivered'[m] > 0
          /\ \A i \in Ids : delivered'[i] >= delivered[i]
      BY <3>1 DEF TypeOK
    <3>3. \A i \in 1 .. Len(seen) : seen[i] \in Ids /\ delivered[seen[i]] > 0
      BY ElementOfSeq DEF SeenDelivered, TypeOK
    <3>4. \A i \in 1 .. Len(seen) : delivered'[seen[i]] > 0
      BY <3>2, <3>3 DEF TypeOK
    <3>5. /\ seen' \in Seq(Ids)
          /\ \A i \in 1 .. Len(seen') :
                seen'[i] = m \/ \E j \in 1 .. Len(seen) : seen'[i] = seen[j]
      BY <3>1, RememberFacts
    <3>6. SeenDelivered'
      BY <3>2, <3>4, <3>5 DEF SeenDelivered
    <3>7. QED
      BY <3>2, <3>5, <3>6
  <2>3. QED
    BY <2>1, <2>2
<1>4. TypeOK'
  BY <1>2, <1>3 DEF DeliverSingle, TypeOK, serverVars, wireVars, cursorVars
<1>5. WorkerDelivers'
  <2> SUFFICES ASSUME NEW v \in Workers, worker'[v].pc # "idle"
               PROVE  /\ worker'[v].seq \in Serials
                      /\ worker'[v].pc = "record" => worker'[v].left = {}
                      /\ \A i \in Members[worker'[v].seq] \ worker'[v].left :
                            delivered'[i] > 0
    BY DEF WorkerDelivers
  <2>1. \A n \in Serials : Members[n] \subseteq Ids
    OBVIOUS
  <2>2. CASE v = w
    <3>1. /\ worker'[v].seq = worker[w].seq /\ worker'[v].left = left
          /\ worker'[v].pc = "record" => left = {}
      BY <1>1, <2>2 DEF TypeOK
    <3>2. \A i \in Members[worker[w].seq] \ worker[w].left : delivered[i] > 0
      BY <1>1 DEF WorkerDelivers
    <3>3. ASSUME NEW i \in Members[worker[w].seq] \ left PROVE delivered'[i] > 0
      <4>1. i \in Ids
        BY <1>1, <2>1
      <4>2. QED
        BY <1>3, <3>2, <4>1 DEF TypeOK
    <3>4. QED
      BY <1>1, <3>1, <3>3
  <2>3. CASE v # w
    <3>1. worker'[v] = worker[v]
      BY <1>1, <2>3 DEF TypeOK
    <3>2. /\ worker[v].seq \in Serials
          /\ worker[v].pc = "record" => worker[v].left = {}
          /\ \A i \in Members[worker[v].seq] \ worker[v].left : delivered[i] > 0
      BY <3>1 DEF WorkerDelivers
    <3>3. ASSUME NEW i \in Members[worker[v].seq] \ worker[v].left
          PROVE  delivered'[i] > 0
      <4>1. i \in Ids
        BY <2>1, <3>2
      <4>2. QED
        BY <1>3, <3>2, <4>1 DEF TypeOK
    <3>4. QED
      BY <3>1, <3>2, <3>3
  <2>4. QED
    BY <2>2, <2>3
<1>6. CursorContiguous'
  <2>1. \A n \in Serials : Received(n) => Received(n)'
    <3>1. \A n \in Serials : Members[n] \subseteq Ids
      OBVIOUS
    <3>2. \A i \in Ids : delivered[i] > 0 => delivered'[i] > 0
      BY <1>3 DEF TypeOK
    <3>3. QED
      BY <3>1, <3>2 DEF Received
  <2>2. UNCHANGED <<contiguousSerial, baseline>> /\ contiguousSerial \in 0 .. MaxSerial
    BY DEF DeliverSingle, cursorVars, TypeOK
  <2>3. contiguousSerial # 0 => baseline .. contiguousSerial \subseteq Serials
    BY <2>2 DEF CursorContiguous, Serials
  <2>4. QED
    BY <2>1, <2>2, <2>3 DEF CursorContiguous
<1>7. QED
  BY <1>3, <1>4, <1>5, <1>6 DEF DeliverSingle, FetchFromCursor

(* recordSerial: the record of the serial was delivered, so the cursor may *)
(* move to it when it is the baseline or the next.                         *)
LEMMA RecordKeeps ==
    ASSUME IndInv, NEW w \in Workers, RecordSerial(w)
    PROVE  IndInv'
<1> USE DeliveryAssumption DEF IndInv
<1> DEFINE seq == worker[w].seq
<1>1. seq \in Serials /\ Received(seq)
  BY DEF RecordSerial, WorkerDelivers, Received
<1>2. worker' \in [Workers -> WorkerRecords] /\ WorkerDelivers'
  <2>1. worker' = [worker EXCEPT ![w] = IdleWorker] /\ delivered' = delivered
    BY DEF RecordSerial, deliverVars
  <2>2. QED
    BY <2>1, IdleFacts DEF TypeOK, WorkerDelivers, IdleWorker
<1>3. contiguousSerial \in 0 .. MaxSerial /\ baseline \in 0 .. MaxSerial
  BY DEF TypeOK
<1>4. CASE Follows(seq) /\ contiguousSerial' = seq
           /\ baseline' = (IF contiguousSerial = 0 THEN seq ELSE baseline)
           /\ UNCHANGED <<backfilling, fetch, told>>
  <2>2. contiguousSerial' \in 0 .. MaxSerial /\ baseline' \in 0 .. MaxSerial
    BY <1>1, <1>3, <1>4 DEF Serials
  <2>3. TypeOK'
    BY <1>2, <1>4, <2>2 DEF RecordSerial, TypeOK, serverVars, wireVars, deliverVars
  <2>4. CursorContiguous'
    BY <1>1, <1>3, <1>4 DEF Follows, CursorContiguous, Received, RecordSerial,
                            deliverVars, Serials
  <2>5. QED
    BY <1>2, <1>4, <2>3, <2>4 DEF RecordSerial, SeenDelivered, FetchFromCursor, deliverVars
<1>5. CASE UNCHANGED <<cursorVars, backfilling, fetch, told>>
  <2>1. TypeOK'
    BY <1>2, <1>5 DEF RecordSerial, TypeOK, serverVars, wireVars, cursorVars, deliverVars
  <2>2. QED
    BY <1>2, <1>5, <2>1 DEF RecordSerial, SeenDelivered, FetchFromCursor,
                            CursorContiguous, Received, cursorVars, deliverVars
<1>6. CASE /\ Gap(seq) /\ backfilling' = TRUE
           /\ fetch' = [IdleFetch EXCEPT !.pc = "wait", !.from = contiguousSerial]
           /\ UNCHANGED <<cursorVars, told>>
  <2>1. fetch' \in FetchRecords /\ FetchFromCursor'
    <3>1. contiguousSerial \in Serials
      BY <1>3, <1>6 DEF Gap, Serials
    <3>2. fetch' = [pc |-> "wait", from |-> contiguousSerial, to |-> 0]
      BY <1>6 DEF IdleFetch
    <3>3. QED
      BY <3>1, <3>2 DEF FetchRecords, FetchFromCursor, Serials
  <2>2. TypeOK'
    BY <1>2, <1>6, <2>1 DEF RecordSerial, TypeOK, serverVars, wireVars, cursorVars, deliverVars
  <2>3. QED
    BY <1>2, <1>6, <2>1, <2>2 DEF RecordSerial, SeenDelivered, CursorContiguous, Received,
                                  cursorVars, deliverVars
<1>7. QED
  BY <1>4, <1>5, <1>6 DEF RecordSerial

-----------------------------------------------------------------------------
(* backfill *)

LEMMA BackfillKeeps ==
    ASSUME IndInv,
           FetchSends \/ FetchFails \/ BackfillNext \/ Discontinuity \/ BackfillEnds
    PROVE  IndInv'
<1> USE DeliveryAssumption DEF IndInv
<1>1. CASE FetchSends
  <2>1. [type |-> "fetch", from |-> fetch.from] \in SubFrame \cup FetchFrame
    BY <1>1 DEF FetchSends, FetchFromCursor, FetchFrame
  <2>2. toServer' \in Seq(SubFrame \cup FetchFrame)
    BY <1>1, <2>1, QueueFacts DEF FetchSends, TypeOK
  <2>3. fetch' \in FetchRecords /\ fetch'.pc = "sent"
    BY <1>1, FetchRecordFacts DEF FetchSends, TypeOK
  <2>4. TypeOK'
    BY <1>1, <2>2, <2>3 DEF FetchSends, TypeOK, serverVars, cursorVars, deliverVars
  <2>5. QED
    BY <1>1, <2>3, <2>4 DEF FetchSends, WorkerDelivers, SeenDelivered, FetchFromCursor,
                            CursorContiguous, Received, cursorVars, deliverVars
<1>2. CASE FetchFails
  <2>1. fetch' \in FetchRecords /\ fetch'.pc = "done"
    BY <1>2, FetchRecordFacts DEF FetchFails, TypeOK
  <2>2. TypeOK'
    BY <1>2, <2>1 DEF FetchFails, TypeOK, serverVars, wireVars, cursorVars, deliverVars
  <2>3. QED
    BY <1>2, <2>1, <2>2 DEF FetchFails, WorkerDelivers, SeenDelivered, FetchFromCursor,
                            CursorContiguous, Received, cursorVars, deliverVars
<1>3. CASE BackfillNext
  <2>1. fetch.from + 1 \in Serials
    <3>1. fetch \in FetchRecords /\ fetch.from < fetch.to
      BY <1>3 DEF BackfillNext, TypeOK
    <3>2. fetch.from \in 0 .. MaxSerial /\ fetch.to \in 0 .. MaxSerial
      BY <3>1, FetchRecordFacts
    <3>3. QED
      BY <3>1, <3>2 DEF Serials
  <2>2. Delivering(fetch.from + 1) \in WorkerRecords
    BY <2>1 DEF Delivering, WorkerRecords, Serials
  <2>3. worker' = [worker EXCEPT !["backfill"] = Delivering(fetch.from + 1)]
    BY <1>3 DEF BackfillNext
  <2>4. worker' \in [Workers -> WorkerRecords]
    BY <2>2, <2>3 DEF TypeOK
  <2>5. WorkerDelivers'
    BY <1>3, <2>1, <2>3 DEF BackfillNext, WorkerDelivers, Delivering, TypeOK, deliverVars
  <2>6. fetch' \in FetchRecords /\ fetch'.pc # "wait"
    <3>1. fetch' = [fetch EXCEPT !.from = fetch.from + 1] /\ fetch.pc = "apply"
      BY <1>3 DEF BackfillNext
    <3>2. fetch \in FetchRecords /\ fetch.from + 1 \in 0 .. MaxSerial
      BY <2>1 DEF TypeOK, Serials
    <3>3. QED
      BY <3>1, <3>2, FetchRecordFacts
  <2>7. TypeOK'
    BY <1>3, <2>4, <2>6 DEF BackfillNext, TypeOK, serverVars, wireVars, cursorVars, deliverVars
  <2>8. QED
    BY <1>3, <2>5, <2>6, <2>7 DEF BackfillNext, SeenDelivered, FetchFromCursor,
                                  CursorContiguous, Received, cursorVars, deliverVars
<1>4. CASE Discontinuity
  <2>1. fetch' \in FetchRecords /\ fetch'.pc = "done"
    BY <1>4, FetchRecordFacts DEF Discontinuity, TypeOK
  <2>2. /\ contiguousSerial' \in 0 .. MaxSerial /\ baseline' \in 0 .. MaxSerial
        /\ state' \in ChannelStates /\ told' \in 0 .. MaxSerial
        /\ UNCHANGED cursorVars \/ contiguousSerial' = 0
    BY <1>4, OnResumedFacts DEF Discontinuity, cursorVars
  <2>3. TypeOK'
    BY <1>4, <2>1, <2>2 DEF Discontinuity, TypeOK, serverVars, wireVars, deliverVars
  <2>4. QED
    BY <1>4, <2>1, <2>2, <2>3 DEF Discontinuity, WorkerDelivers, SeenDelivered,
           FetchFromCursor, CursorContiguous, Received, cursorVars, deliverVars
<1>5. CASE BackfillEnds
  <2>1. fetch' \in FetchRecords /\ fetch'.pc # "wait"
    BY <1>5, IdleFacts DEF BackfillEnds, IdleFetch
  <2>2. TypeOK'
    BY <1>5, <2>1 DEF BackfillEnds, TypeOK, serverVars, wireVars, cursorVars, deliverVars
  <2>3. QED
    BY <1>5, <2>1, <2>2 DEF BackfillEnds, WorkerDelivers, SeenDelivered, FetchFromCursor,
                            CursorContiguous, Received, cursorVars, deliverVars
<1>6. QED
  BY <1>1, <1>2, <1>3, <1>4, <1>5

-----------------------------------------------------------------------------
LEMMA IndStep == IndInv /\ [Next]_vars => IndInv'
<1> SUFFICES ASSUME IndInv, [Next]_vars PROVE IndInv'
  OBVIOUS
<1>1. CASE UNCHANGED vars
  <2>1. TypeOK'
    BY <1>1 DEF vars, IndInv, TypeOK, serverVars, wireVars, cursorVars, deliverVars
  <2>2. QED
    BY <1>1, <2>1 DEF vars, IndInv, WorkerDelivers, SeenDelivered, FetchFromCursor,
                      CursorContiguous, Received, cursorVars, deliverVars
<1>2. CASE Next
  BY <1>2, ServerKeeps, ConnectionKeeps, SubKeeps, ReaderKeeps, DeliverKeeps,
     RecordKeeps, BackfillKeeps DEF Next
<1>3. QED
  BY <1>1, <1>2

LEMMA Inductive == Spec => []IndInv
BY IndInit, IndStep, PTL DEF Spec

(* Delivery keeps its types, whatever the connection and the server do.    *)
THEOREM TypeCorrect == Spec => []TypeOK
<1>1. IndInv => TypeOK
  BY DEF IndInv
<1>2. QED
  BY <1>1, Inductive, PTL

(* The documented meaning of contiguousSerial (channel.go:210-211): every  *)
(* record from the adopted baseline to the cursor was delivered, however   *)
(* the read loop, the fetch and the resets of onResumed interleave.        *)
THEOREM CursorIsContiguous == Spec => []CursorContiguous
<1>1. IndInv => CursorContiguous
  BY DEF IndInv
<1>2. QED
  BY <1>1, Inductive, PTL

-----------------------------------------------------------------------------
(* Exactly-once delivery.  While the filter has room for every key, it      *)
(* holds each delivered one, once.                                          *)

KeysFit == IsFiniteSet(Ids) /\ Cardinality(Ids) <= DedupMax

SeenDistinct == \A i, j \in 1 .. Len(seen) : seen[i] = seen[j] => i = j

DeliveredSeen ==
    \A m \in Ids : delivered[m] <= 1 /\ (delivered[m] > 0 => IsDuplicate(m))

OnceInv == KeysFit => SeenDistinct /\ DeliveredSeen

(* An unseen key never evicts another: the filter then lacks a key at least. *)
LEMMA FilterHasRoom ==
    ASSUME TypeOK, KeysFit, SeenDistinct, NEW m \in Ids, ~IsDuplicate(m)
    PROVE  Len(seen) < DedupMax
<1>1. seen \in [1 .. Len(seen) -> Ids] /\ Len(seen) \in Nat
  BY LenProperties DEF TypeOK
<1>2. seen \in [1 .. Len(seen) -> Ids \ {m}]
  BY <1>1 DEF IsDuplicate, Contains
<1>3. seen \in Injection(1 .. Len(seen), Ids \ {m})
  BY <1>2 DEF SeenDistinct, Injection, IsInjective
<1>4. IsFiniteSet(Ids \ {m}) /\ Cardinality(Ids \ {m}) = Cardinality(Ids) - 1
  BY FS_RemoveElement DEF KeysFit
<1>5. Cardinality(1 .. Len(seen)) <= Cardinality(Ids \ {m})
  BY <1>3, <1>4, FS_Injection
<1>6. Cardinality(1 .. Len(seen)) = Len(seen)
  <2>1. 1 \in Int /\ Len(seen) \in Int
    BY <1>1
  <2>2. Cardinality(1 .. Len(seen)) = IF 1 > Len(seen) THEN 0 ELSE Len(seen) - 1 + 1
    BY <2>1, FS_Interval, Zenon
  <2>3. QED
    BY <1>1, <2>2
<1>7. Cardinality(Ids) \in Nat
  BY FS_CardinalityType DEF KeysFit
<1>8. QED
  BY <1>1, <1>4, <1>5, <1>6, <1>7, DeliveryAssumption DEF KeysFit

LEMMA OnceDeliver ==
    ASSUME IndInv, OnceInv, NEW w \in Workers, NEW m \in Ids, DeliverSingle(w, m)
    PROVE  OnceInv'
<1> SUFFICES ASSUME KeysFit PROVE SeenDistinct' /\ DeliveredSeen'
  BY DEF OnceInv, KeysFit
<1>1. TypeOK /\ SeenDistinct /\ DeliveredSeen
  BY DEF IndInv, OnceInv
<1>2. CASE IsDuplicate(m)
  BY <1>1, <1>2 DEF DeliverSingle, deliverVars, SeenDistinct, DeliveredSeen, IsDuplicate
<1>3. CASE ~IsDuplicate(m)
  <2>1. seen' = Append(seen, m)
    BY <1>1, <1>3, FilterHasRoom DEF DeliverSingle, Remember
  <2>2. /\ seen \in Seq(Ids) /\ Len(seen) \in Nat
        /\ Len(seen') = Len(seen) + 1
        /\ \A i \in 1 .. Len(seen) : seen'[i] = seen[i]
        /\ seen'[Len(seen) + 1] = m
    BY <1>1, <2>1, AppendProperties, LenProperties DEF TypeOK
  <2>3. \A i \in 1 .. Len(seen) : seen[i] # m
    BY <1>3 DEF IsDuplicate, Contains
  <2>4. SeenDistinct'
    BY <1>1, <2>2, <2>3 DEF SeenDistinct
  <2>5. delivered \in [Ids -> Nat] /\ delivered' = [delivered EXCEPT ![m] = @ + 1]
    BY <1>1, <1>3 DEF DeliverSingle, TypeOK
  <2>6. delivered[m] = 0
    BY <1>1, <1>3, <2>5 DEF DeliveredSeen
  <2>7. \A n \in Ids : delivered'[n] <= 1
    BY <1>1, <2>5, <2>6 DEF DeliveredSeen
  <2>8. ASSUME NEW n \in Ids, delivered'[n] > 0 PROVE IsDuplicate(n)'
    <3>1. CASE n = m
      BY <2>2, <3>1 DEF IsDuplicate, Contains
    <3>2. CASE n # m
      <4>1. delivered[n] > 0
        BY <2>5, <2>8, <3>2
      <4>2. PICK i \in 1 .. Len(seen) : seen[i] = n
        BY <1>1, <4>1 DEF DeliveredSeen, IsDuplicate, Contains
      <4>3. i \in 1 .. Len(seen') /\ seen'[i] = n
        BY <2>2, <4>2
      <4>4. QED
        BY <4>3 DEF IsDuplicate, Contains
    <3>3. QED
      BY <3>1, <3>2
  <2>9. QED
    BY <2>4, <2>7, <2>8 DEF DeliveredSeen
<1>4. QED
  BY <1>2, <1>3

LEMMA OnceStep == IndInv /\ OnceInv /\ [Next]_vars => OnceInv'
<1> SUFFICES ASSUME IndInv, OnceInv, [Next]_vars PROVE OnceInv'
  OBVIOUS
<1>1. CASE UNCHANGED deliverVars
  BY <1>1 DEF deliverVars, OnceInv, KeysFit, SeenDistinct, DeliveredSeen, IsDuplicate
<1>2. CASE UNCHANGED vars
  BY <1>1, <1>2 DEF vars
<1>3. CASE Stores \/ AgesOut \/ SendsLive \/ AnswersSub \/ AnswersFetch
  BY <1>1, <1>3 DEF Stores, AgesOut, SendsLive, AnswersSub, AnswersFetch
<1>4. CASE Drops \/ Reconnects \/ OnConnectionState
  BY <1>1, <1>4 DEF Drops, Reconnects, OnConnectionState
<1>5. ASSUME NEW g \in Subs, \/ Restores(g) \/ SubSends(g) \/ SubFails(g)
                             \/ Attach(g) \/ AttachEnds(g) \/ RestoreEnds(g)
      PROVE  OnceInv'
  BY <1>1, <1>5 DEF Restores, SubSends, SubFails, Attach, AttachEnds, RestoreEnds
<1>6. CASE ReadsMessage \/ ReadsAck \/ ReadsFetchRes
  BY <1>1, <1>6 DEF ReadsMessage, ReadsAck, ReadsFetchRes
<1>7. ASSUME NEW w \in Workers, RecordSerial(w) PROVE OnceInv'
  BY <1>1, <1>7 DEF RecordSerial
<1>8. CASE FetchSends \/ FetchFails \/ BackfillNext \/ Discontinuity \/ BackfillEnds
  BY <1>1, <1>8 DEF FetchSends, FetchFails, BackfillNext, Discontinuity, BackfillEnds
<1>9. QED
  BY <1>2, <1>3, <1>4, <1>5, <1>6, <1>7, <1>8, OnceDeliver DEF Next

(* Exactly-once delivery ("for exactly-once delivery", channel.go:221-226): *)
(* while the filter can hold every key there is, no message reaches the     *)
(* listeners twice, whichever goroutines bring it in which records.         *)
THEOREM DeliveredAtMostOnce == Spec => []DeliveredOnce
<1>1. Init => OnceInv
  BY DEF Init, OnceInv, SeenDistinct, DeliveredSeen, IsDuplicate, Contains
<1>2. OnceInv => DeliveredOnce
  BY DEF OnceInv, DeliveredOnce, KeysFit, DeliveredSeen
<1>3. Spec => []OnceInv
  BY <1>1, OnceStep, Inductive, PTL DEF Spec
<1>4. QED
  BY <1>2, <1>3, PTL

-----------------------------------------------------------------------------
(* The resume.  Nothing is missed: each record that is stored was received, *)
(* or is on its way, or is left to the renewal of the subscription, or is   *)
(* about to be reported; or it is older than what the channel listens to.   *)

(* Every serial under way is one the server has stored. *)
Bounded ==
    /\ tail # None => tail <= head
    /\ \A f \in Range(toClient) : /\ f.type = "msg" => f.seq <= head
                                  /\ f.type = "fetchRes" => f.to <= head
    /\ fetch.to <= head
    /\ \A w \in Workers : worker[w].seq <= head
    /\ contiguousSerial <= head
    /\ told <= head

(* A sub carries a cursor that the channel still has or has reported. *)
Known(n) == n <= contiguousSerial \/ n <= told

FromKnown ==
    /\ \A g \in Subs : sub[g].pc = "wait" => Known(sub[g].from)
    /\ \A f \in Range(toServer) : f.type = "sub" => Known(f.from)

(* A goroutine that waits has one frame under way, its sub or the answer. *)
SlotsDistinct(q, type) ==
    \A i, j \in 1 .. Len(q) :
        i # j /\ q[i].type = type /\ q[j].type = type => q[i].slot # q[j].slot

OneFrameEach ==
    /\ \A f \in Range(toServer) : f.type = "sub" => sub[f.slot].pc = "sent"
    /\ \A f \in Range(toClient) : f.type = "ack" => sub[f.slot].pc = "sent"
    /\ SlotsDistinct(toServer, "sub")
    /\ SlotsDistinct(toClient, "ack")
    /\ \A f \in Range(toServer), a \in Range(toClient) :
          f.type = "sub" /\ a.type = "ack" => f.slot # a.slot

(* The channel has heard of no record yet. *)
NoFetch ==
    /\ fetch.pc = "idle"
    /\ \A f \in Range(toServer) : f.type # "fetch"
    /\ \A f \in Range(toClient) : f.type # "fetchRes"

Fresh ==
    /\ contiguousSerial = 0
    /\ tail = None
    /\ NoFetch
    /\ \A f \in Range(toClient) : f.type # "msg"
    /\ \A w \in Workers : worker[w].pc = "idle"

InitializedIsFresh ==
    state = "initialized" =>
        /\ Fresh /\ ~restoring
        /\ toServer = <<>> /\ toClient = <<>>
        /\ \A g \in Subs : sub[g].pc = "idle"

(* The subscription is to be renewed from the cursor. *)
Renewing ==
    \/ ~up
    \/ restoring
    \/ \E g \in Subs : sub[g].kind = "restore" /\ sub[g].pc = "wait"
    \/ \E f \in Range(toServer) : f.type = "sub" /\ sub[f.slot].kind = "restore"

(* The server has refused to resume, which the channel will report. *)
Reporting ==
    \/ \E g \in Subs : sub[g].kind = "restore" /\ sub[g].pc = "acked" /\ ~sub[g].resumed
    \/ \E f \in Range(toClient) :
          f.type = "ack" /\ ~f.resumed /\ sub[f.slot].kind = "restore"

(* Record n is older than the baseline the channel has or may yet adopt. *)
BeforeBaseline(n) ==
    \/ contiguousSerial # 0 /\ n < baseline
    \/ /\ contiguousSerial = 0
       /\ tail # None => n <= tail
       /\ NoFetch
       /\ \A f \in Range(toClient) : f.type = "msg" => n < f.seq
       /\ \A w \in Workers : worker[w].pc # "idle" => n < worker[w].seq

(* Record n is on its way to the channel. *)
Coming(n) ==
    \/ tail # None /\ tail < n
    \/ \E f \in Range(toClient) : f.type = "msg" /\ f.seq = n
    \/ \E w \in Workers : worker[w].pc # "idle" /\ worker[w].seq = n

Covered(n) == Received(n) \/ Coming(n) \/ Renewing \/ Reporting \/ BeforeBaseline(n)

Subscribed == tail # None \/ Renewing \/ Fresh

NothingMissed == ~dropped => \A n \in 1 .. head : n <= told \/ Covered(n)

ResumeInv ==
    /\ Bounded
    /\ FromKnown
    /\ OneFrameEach
    /\ InitializedIsFresh
    /\ Subscribed
    /\ NothingMissed

-----------------------------------------------------------------------------
(* What the steps do to the frames under way. *)
LEMMA FrameFacts ==
    ASSUME NEW S, NEW q \in Seq(S)
    PROVE  /\ \A x \in S : Range(Append(q, x)) = Range(q) \cup {x}
           /\ q # <<>> => /\ Head(q) \in Range(q)
                          /\ Range(q) = Range(Tail(q)) \cup {Head(q)}
           /\ Range(q) \subseteq S
<1>1. Range(q) = {q[i] : i \in 1 .. Len(q)} /\ Len(q) \in Nat
  BY RangeEquality, LenProperties
<1>2. ASSUME NEW x \in S PROVE Range(Append(q, x)) = Range(q) \cup {x}
  <2>1. /\ Append(q, x) \in Seq(S) /\ Len(Append(q, x)) = Len(q) + 1
        /\ \A i \in 1 .. Len(q) : Append(q, x)[i] = q[i]
        /\ Append(q, x)[Len(q) + 1] = x
    BY AppendProperties
  <2>2. Range(Append(q, x)) = {Append(q, x)[i] : i \in 1 .. Len(q) + 1}
    BY <2>1, RangeEquality
  <2>3. QED
    BY <1>1, <2>1, <2>2
<1>3. ASSUME q # <<>>
      PROVE  Head(q) \in Range(q) /\ Range(q) = Range(Tail(q)) \cup {Head(q)}
  <2>1. /\ Tail(q) \in Seq(S) /\ Len(Tail(q)) = Len(q) - 1
        /\ \A i \in 1 .. Len(q) - 1 : Tail(q)[i] = q[i + 1]
    BY <1>3, HeadTailProperties
  <2>2. Range(Tail(q)) = {Tail(q)[i] : i \in 1 .. Len(q) - 1}
    BY <2>1, RangeEquality
  <2>3. Head(q) = q[1] /\ Len(q) >= 1
    BY <1>1, <1>3, EmptySeq
  <2>4. \A i \in 1 .. Len(q) : i # 1 => i - 1 \in 1 .. Len(q) - 1 /\ q[i] = Tail(q)[i - 1]
    BY <1>1, <2>1
  <2>5. Range(q) \subseteq Range(Tail(q)) \cup {Head(q)}
    BY <1>1, <2>2, <2>3, <2>4
  <2>6. Range(Tail(q)) \subseteq Range(q)
    BY <1>1, <2>1, <2>2
  <2>7. QED
    BY <1>1, <2>3, <2>5, <2>6
<1>4. QED
  BY <1>1, <1>2, <1>3, RangeOfSeq

LEMMA NoFrames == Range(<<>>) = {}
BY DEF Range

LEMMA SlotsDistinctAppend ==
    ASSUME NEW S, NEW q \in Seq(S), NEW x \in S, NEW type, SlotsDistinct(q, type),
           x.type = type => \A f \in Range(q) : f.type = type => f.slot # x.slot
    PROVE  SlotsDistinct(Append(q, x), type)
<1>1. /\ Len(q) \in Nat /\ Len(Append(q, x)) = Len(q) + 1
      /\ \A i \in 1 .. Len(q) : Append(q, x)[i] = q[i]
      /\ Append(q, x)[Len(q) + 1] = x
  BY AppendProperties, LenProperties
<1>2. \A i \in 1 .. Len(q) : q[i] \in Range(q)
  BY RangeEquality
<1> DEFINE r == Append(q, x)
<1> HIDE DEF r
<1>3. SlotsDistinct(r, type)
  BY <1>1, <1>2 DEF SlotsDistinct, r
<1>4. QED
  BY <1>3 DEF r

LEMMA SlotsDistinctTail ==
    ASSUME NEW S, NEW q \in Seq(S), q # <<>>, NEW type, SlotsDistinct(q, type)
    PROVE  /\ SlotsDistinct(Tail(q), type)
           /\ Head(q).type = type =>
                 \A f \in Range(Tail(q)) : f.type = type => f.slot # Head(q).slot
<1>1. /\ Tail(q) \in Seq(S) /\ Len(Tail(q)) = Len(q) - 1 /\ Len(q) \in Nat
      /\ \A i \in 1 .. Len(q) - 1 : Tail(q)[i] = q[i + 1]
  BY HeadTailProperties, LenProperties
<1>2. Range(Tail(q)) = {Tail(q)[i] : i \in 1 .. Len(q) - 1}
  BY <1>1, RangeEquality
<1>3. Head(q) = q[1] /\ 1 \in 1 .. Len(q)
  BY <1>1, EmptySeq
<1>4. SlotsDistinct(Tail(q), type)
  BY <1>1 DEF SlotsDistinct
<1>5. ASSUME Head(q).type = type, NEW f \in Range(Tail(q)), f.type = type
      PROVE  f.slot # Head(q).slot
  <2>1. PICK i \in 1 .. Len(q) - 1 : f = q[i + 1]
    BY <1>1, <1>2
  <2>2. i + 1 \in 1 .. Len(q) /\ i + 1 # 1
    BY <1>1
  <2>3. QED
    BY <1>3, <1>5, <2>1, <2>2 DEF SlotsDistinct
<1>6. QED
  BY <1>4, <1>5

(* The types of what is under way, field by field. *)
LEMMA FrameTypes ==
    ASSUME TypeOK
    PROVE  /\ \A f \in Range(toServer) :
                 /\ f.type = "sub" => f.slot \in Subs /\ f.from \in 0 .. MaxSerial
                 /\ f.type = "fetch" => f.from \in Serials
           /\ \A f \in Range(toClient) :
                 /\ f.type = "msg" => f.seq \in 1 .. MaxSerial
                 /\ f.type = "ack" => f.slot \in Subs /\ f.resumed \in BOOLEAN
                 /\ f.type = "fetchRes" => f.from \in 0 .. MaxSerial /\ f.to \in 0 .. MaxSerial
<1>1. Range(toServer) \subseteq SubFrame \cup FetchFrame
  BY FrameFacts DEF TypeOK
<1>2. Range(toClient) \subseteq MsgFrame \cup AckFrame \cup FetchRes
  BY FrameFacts DEF TypeOK
<1>3. QED
  BY <1>1, <1>2 DEF Serials, SubFrame, FetchFrame, MsgFrame, AckFrame, FetchRes

LEMMA LocalTypes ==
    ASSUME TypeOK
    PROVE  /\ head \in Nat /\ contiguousSerial \in Nat /\ baseline \in Nat /\ told \in Nat
           /\ tail # None => tail \in Nat
           /\ fetch.from \in Nat /\ fetch.to \in Nat
           /\ \A w \in Workers : worker[w].seq \in Nat
           /\ \A g \in Subs : sub[g].from \in Nat /\ sub[g].resumed \in BOOLEAN
BY DeliveryAssumption DEF TypeOK, FetchRecords, WorkerRecords, SubRecords

LEMMA FramesAfter ==
    ASSUME IndInv
    PROVE  /\ SendsLive =>
                 \/ Range(toClient') = Range(toClient) \cup {[type |-> "msg", seq |-> tail + 1]}
                 \/ dropped' /\ toClient' = toClient
           /\ AnswersSub =>
                 LET f == Head(toServer) IN
                 /\ f \in Range(toServer) /\ f.type = "sub"
                 /\ Range(toServer) = Range(toServer') \cup {f}
                 /\ \E a : /\ Range(toClient') = Range(toClient) \cup {a}
                           /\ a = [type |-> "ack", slot |-> f.slot,
                                   resumed |-> f.from > 0 /\ Retained(f.from)]
           /\ AnswersFetch =>
                 LET f == Head(toServer) IN
                 /\ f \in Range(toServer) /\ f.type = "fetch"
                 /\ Range(toServer) = Range(toServer') \cup {f}
                 /\ Range(toClient') = Range(toClient) \cup
                       {[type |-> "fetchRes", from |-> f.from, to |-> head,
                         resumed |-> Retained(f.from)]}
           /\ Drops => Range(toServer') = {} /\ Range(toClient') = {}
           /\ \A g \in Subs : SubSends(g) =>
                 Range(toServer') = Range(toServer) \cup
                       {[type |-> "sub", slot |-> g, from |-> sub[g].from]}
           /\ FetchSends =>
                 Range(toServer') = Range(toServer) \cup
                       {[type |-> "fetch", from |-> fetch.from]}
           /\ ReadsMessage \/ ReadsAck \/ ReadsFetchRes =>
                 /\ Head(toClient) \in Range(toClient)
                 /\ Range(toClient) = Range(toClient') \cup {Head(toClient)}
<1> USE DeliveryAssumption
<1> DEFINE FS == SubFrame \cup FetchFrame
           FC == MsgFrame \cup AckFrame \cup FetchRes
<1>1. TypeOK /\ toServer \in Seq(FS) /\ toClient \in Seq(FC)
  BY DEF IndInv, TypeOK
<1>2. /\ \A x \in FS : Range(Append(toServer, x)) = Range(toServer) \cup {x}
      /\ toServer # <<>> =>
            /\ Head(toServer) \in Range(toServer)
            /\ Range(toServer) = Range(Tail(toServer)) \cup {Head(toServer)}
  BY <1>1, FrameFacts
<1>3. /\ \A x \in FC : Range(Append(toClient, x)) = Range(toClient) \cup {x}
      /\ toClient # <<>> =>
            /\ Head(toClient) \in Range(toClient)
            /\ Range(toClient) = Range(Tail(toClient)) \cup {Head(toClient)}
  BY <1>1, FrameFacts
<1>4. ASSUME SendsLive
      PROVE  \/ Range(toClient') = Range(toClient) \cup {[type |-> "msg", seq |-> tail + 1]}
             \/ dropped' /\ toClient' = toClient
  <2>1. tail + 1 \in Serials
    BY <1>1, <1>4 DEF SendsLive, TypeOK, Serials
  <2>2. [type |-> "msg", seq |-> tail + 1] \in FC
    BY <2>1 DEF MsgFrame
  <2>3. QED
    BY <1>3, <1>4, <2>2 DEF SendsLive
<1>5. ASSUME AnswersSub
      PROVE  LET f == Head(toServer) IN
             /\ f \in Range(toServer) /\ f.type = "sub"
             /\ Range(toServer) = Range(toServer') \cup {f}
             /\ \E a : /\ Range(toClient') = Range(toClient) \cup {a}
                       /\ a = [type |-> "ack", slot |-> f.slot,
                               resumed |-> f.from > 0 /\ Retained(f.from)]
  <2> DEFINE f == Head(toServer)
             a == [type |-> "ack", slot |-> f.slot,
                   resumed |-> f.from > 0 /\ Retained(f.from)]
  <2>1. f \in Range(toServer) /\ f.type = "sub" /\ Range(toServer) = Range(toServer') \cup {f}
    BY <1>2, <1>5 DEF AnswersSub
  <2>2. f.slot \in Subs
    BY <1>1, <2>1, FrameTypes
  <2>3. a \in FC
    BY <2>2 DEF AckFrame
  <2>4. toClient' = Append(toClient, a)
    BY <1>5 DEF AnswersSub
  <2>5. Range(toClient') = Range(toClient) \cup {a}
    BY <1>3, <2>3, <2>4
  <2>6. QED
    BY <2>1, <2>5
<1>6. ASSUME AnswersFetch
      PROVE  LET f == Head(toServer) IN
             /\ f \in Range(toServer) /\ f.type = "fetch"
             /\ Range(toServer) = Range(toServer') \cup {f}
             /\ Range(toClient') = Range(toClient) \cup
                   {[type |-> "fetchRes", from |-> f.from, to |-> head,
                     resumed |-> Retained(f.from)]}
  <2> DEFINE f == Head(toServer)
             a == [type |-> "fetchRes", from |-> f.from, to |-> head,
                   resumed |-> Retained(f.from)]
  <2>1. f \in Range(toServer) /\ f.type = "fetch" /\ Range(toServer) = Range(toServer') \cup {f}
    BY <1>2, <1>6 DEF AnswersFetch
  <2>2. f.from \in Serials
    BY <1>1, <2>1, FrameTypes
  <2>3. a \in FC
    BY <1>1, <2>2, FetchResFact
  <2>4. toClient' = Append(toClient, a)
    BY <1>6 DEF AnswersFetch
  <2>5. QED
    BY <1>3, <2>1, <2>3, <2>4
<1>7. ASSUME NEW g \in Subs, SubSends(g)
      PROVE  Range(toServer') = Range(toServer) \cup
                   {[type |-> "sub", slot |-> g, from |-> sub[g].from]}
  <2>1. [type |-> "sub", slot |-> g, from |-> sub[g].from] \in FS
    BY <1>1, SubRecordFacts DEF TypeOK, SubFrame
  <2>2. QED
    BY <1>2, <1>7, <2>1 DEF SubSends
<1>8. ASSUME FetchSends
      PROVE  Range(toServer') = Range(toServer) \cup
                   {[type |-> "fetch", from |-> fetch.from]}
  <2>1. [type |-> "fetch", from |-> fetch.from] \in FS
    BY <1>8 DEF IndInv, FetchSends, FetchFromCursor, FetchFrame
  <2>2. QED
    BY <1>2, <1>8, <2>1 DEF FetchSends
<1>9. ASSUME ReadsMessage \/ ReadsAck \/ ReadsFetchRes
      PROVE  /\ Head(toClient) \in Range(toClient)
             /\ Range(toClient) = Range(toClient') \cup {Head(toClient)}
  BY <1>3, <1>9 DEF ReadsMessage, ReadsAck, ReadsFetchRes
<1>10. Drops => Range(toServer') = {} /\ Range(toClient') = {}
  BY NoFrames DEF Drops
<1> HIDE DEF FS, FC
<1>11. QED
  BY <1>4, <1>5, <1>6, <1>7, <1>8, <1>9, <1>10

-----------------------------------------------------------------------------
LEMMA BoundedStep ==
    ASSUME IndInv, Bounded, FromKnown, Next
    PROVE  Bounded'
<1> USE DeliveryAssumption
<1>1. TypeOK /\ TypeOK'
  BY IndStep DEF IndInv
<1>2. CASE Stores
  BY <1>1, <1>2, FrameTypes, LocalTypes DEF Stores, Bounded, wireVars, cursorVars
<1>3. CASE AgesOut
  BY <1>3 DEF AgesOut, Bounded, wireVars, cursorVars
<1>4. CASE SendsLive
  <2>1. tail' = tail + 1 /\ tail + 1 <= head
    BY <1>1, <1>4, LocalTypes DEF SendsLive
  <2>2. \/ Range(toClient') = Range(toClient) \cup {[type |-> "msg", seq |-> tail + 1]}
        \/ toClient' = toClient
    BY <1>4, FramesAfter
  <2>3. \A f \in Range(toClient') : /\ f.type = "msg" => f.seq <= head
                                    /\ f.type = "fetchRes" => f.to <= head
    BY <2>1, <2>2 DEF Bounded
  <2>4. QED
    BY <1>4, <2>1, <2>3 DEF SendsLive, Bounded, cursorVars
<1>5. CASE AnswersSub
  <2>1. Head(toServer) \in Range(toServer) /\ Head(toServer).type = "sub"
    BY <1>5, FramesAfter
  <2>2. Known(Head(toServer).from) /\ Head(toServer).from \in Nat
    BY <1>1, <2>1, FrameTypes DEF FromKnown
  <2>3. Head(toServer).from <= head
    BY <1>1, <2>2, LocalTypes DEF Known, Bounded
  <2>4. tail' <= head
    BY <1>1, <1>5, <2>3, LocalTypes DEF AnswersSub
  <2>5. QED
    BY <1>5, <2>4, FramesAfter DEF AnswersSub, Bounded, cursorVars
<1>6. CASE AnswersFetch
  BY <1>1, <1>6, FramesAfter, LocalTypes DEF AnswersFetch, Bounded, serverVars, cursorVars
<1>7. CASE Drops
  <2>1. fetch'.to = fetch.to
    BY <1>1, <1>7 DEF Drops, TypeOK, FetchRecords
  <2>2. QED
    BY <1>7, <2>1, FramesAfter DEF Drops, Bounded, cursorVars
<1>8. CASE Reconnects \/ OnConnectionState
  BY <1>8 DEF Reconnects, OnConnectionState, Bounded, serverVars, wireVars, cursorVars
<1>9. ASSUME NEW g \in Subs, Restores(g) \/ SubSends(g) \/ SubFails(g) \/ Attach(g)
      PROVE  Bounded'
  BY <1>9 DEF Restores, SubSends, SubFails, Attach, Bounded, serverVars, wireVars, cursorVars
<1>10. ASSUME NEW g \in Subs, AttachEnds(g) \/ RestoreEnds(g)
       PROVE  Bounded'
  BY <1>1, <1>10, LocalTypes DEF AttachEnds, RestoreEnds, OnResumed, Reports, Bounded,
                                 serverVars, wireVars, cursorVars
<1>11. CASE ReadsMessage
  <2>1. /\ worker' = [worker EXCEPT !["readLoop"] = Delivering(Head(toClient).seq)]
        /\ Head(toClient).type = "msg" /\ worker \in [Workers -> WorkerRecords]
    BY <1>1, <1>11 DEF ReadsMessage, TypeOK
  <2>2. \A w \in Workers : worker'[w].seq <= head
    BY <1>11, <2>1, FramesAfter DEF Bounded, Delivering, Workers
  <2>3. QED
    BY <1>11, <2>2, FramesAfter DEF ReadsMessage, Bounded, serverVars, cursorVars
<1>12. CASE ReadsAck
  BY <1>12, FramesAfter DEF ReadsAck, Bounded, serverVars, cursorVars
<1>13. CASE ReadsFetchRes
  BY <1>13, FramesAfter DEF ReadsFetchRes, Bounded, serverVars, cursorVars
<1>14. ASSUME NEW w \in Workers, NEW m \in Ids, DeliverSingle(w, m)
       PROVE  Bounded'
  <2>1. \A v \in Workers : worker'[v].seq = worker[v].seq
    BY <1>1, <1>14 DEF DeliverSingle, TypeOK
  <2>2. QED
    BY <1>14, <2>1 DEF DeliverSingle, Bounded, serverVars, wireVars, cursorVars
<1>15. ASSUME NEW w \in Workers, RecordSerial(w)
       PROVE  Bounded'
  <2>1. \A v \in Workers : worker'[v].seq <= head
    BY <1>1, <1>15, LocalTypes DEF RecordSerial, TypeOK, IdleWorker, Bounded
  <2>2. contiguousSerial' <= head
    BY <1>15 DEF RecordSerial, Bounded, cursorVars
  <2>3. fetch'.to <= head
    <3>1. fetch' = fetch \/ fetch'.to = 0
      BY <1>15 DEF RecordSerial, IdleFetch
    <3>2. QED
      BY <1>1, <3>1, LocalTypes DEF Bounded
  <2>4. told' = told
    BY <1>15 DEF RecordSerial
  <2>5. QED
    BY <1>15, <2>1, <2>2, <2>3, <2>4 DEF RecordSerial, Bounded, serverVars, wireVars
<1>16. CASE FetchSends \/ FetchFails
  <2>1. fetch'.to = fetch.to
    BY <1>1, <1>16 DEF FetchSends, FetchFails, TypeOK, FetchRecords
  <2>2. QED
    BY <1>16, <2>1 DEF FetchSends, FetchFails, Bounded, serverVars, wireVars, cursorVars
<1>17. CASE BackfillNext
  <2>1. /\ worker' = [worker EXCEPT !["backfill"] = Delivering(fetch.from + 1)]
        /\ worker \in [Workers -> WorkerRecords]
        /\ fetch.from < fetch.to
    BY <1>1, <1>17 DEF BackfillNext, TypeOK
  <2>2. fetch.from + 1 <= head
    BY <1>1, <2>1, LocalTypes DEF Bounded
  <2>3. \A w \in Workers : worker'[w].seq <= head
    BY <2>1, <2>2 DEF Bounded, Delivering, Workers
  <2>4. fetch'.to = fetch.to
    BY <1>1, <1>17 DEF BackfillNext, TypeOK, FetchRecords
  <2>5. QED
    BY <1>17, <2>3, <2>4 DEF BackfillNext, Bounded, serverVars, wireVars, cursorVars
<1>18. CASE Discontinuity
  <2>1. fetch'.to = fetch.to
    BY <1>1, <1>18 DEF Discontinuity, TypeOK, FetchRecords
  <2>2. QED
    BY <1>1, <1>18, <2>1, LocalTypes DEF Discontinuity, OnResumed, Reports, Bounded,
                                         serverVars, wireVars
<1>19. CASE BackfillEnds
  BY <1>1, <1>19, LocalTypes DEF BackfillEnds, IdleFetch, Bounded, serverVars, wireVars, cursorVars
<1>20. QED
  BY <1>2, <1>3, <1>4, <1>5, <1>6, <1>7, <1>8, <1>9, <1>10, <1>11, <1>12, <1>13, <1>14,
     <1>15, <1>16, <1>17, <1>18, <1>19 DEF Next

(* The cursor only goes back with a report, which covers what is stored.    *)
LEMMA CursorStep ==
    ASSUME IndInv, Next
    PROVE  /\ told' = told \/ told' = head
           /\ contiguousSerial' >= contiguousSerial \/ told' = head
<1>1. contiguousSerial \in Nat
  BY LocalTypes DEF IndInv
<1>2. ASSUME UNCHANGED <<contiguousSerial, told>>
      PROVE  /\ told' = told \/ told' = head
             /\ contiguousSerial' >= contiguousSerial \/ told' = head
  BY <1>1, <1>2
<1>3. CASE Stores \/ AgesOut \/ SendsLive \/ AnswersSub \/ AnswersFetch
  BY <1>2, <1>3 DEF Stores, AgesOut, SendsLive, AnswersSub, AnswersFetch, cursorVars
<1>4. CASE Drops \/ Reconnects \/ OnConnectionState
  BY <1>2, <1>4 DEF Drops, Reconnects, OnConnectionState, cursorVars
<1>5. ASSUME NEW g \in Subs, \/ Restores(g) \/ SubSends(g) \/ SubFails(g)
                             \/ Attach(g) \/ AttachEnds(g) \/ RestoreEnds(g)
      PROVE  /\ told' = told \/ told' = head
             /\ contiguousSerial' >= contiguousSerial \/ told' = head
  <2>1. CASE \/ Restores(g) \/ SubSends(g) \/ SubFails(g) \/ Attach(g)
    BY <1>2, <2>1 DEF Restores, SubSends, SubFails, Attach, cursorVars
  <2>2. CASE AttachEnds(g)
    BY <1>1, <2>2 DEF AttachEnds, Reports, cursorVars
  <2>3. CASE RestoreEnds(g)
    BY <1>1, <2>3 DEF RestoreEnds, OnResumed, Reports, cursorVars
  <2>4. QED
    BY <1>5, <2>1, <2>2, <2>3
<1>6. CASE ReadsMessage \/ ReadsAck \/ ReadsFetchRes
  BY <1>2, <1>6 DEF ReadsMessage, ReadsAck, ReadsFetchRes, cursorVars
<1>7. ASSUME NEW w \in Workers, NEW m \in Ids, DeliverSingle(w, m)
      PROVE  /\ told' = told \/ told' = head
             /\ contiguousSerial' >= contiguousSerial \/ told' = head
  BY <1>2, <1>7 DEF DeliverSingle, cursorVars
<1>8. ASSUME NEW w \in Workers, RecordSerial(w)
      PROVE  /\ told' = told \/ told' = head
             /\ contiguousSerial' >= contiguousSerial \/ told' = head
  <2>1. worker[w].seq \in Nat
    BY LocalTypes DEF IndInv
  <2>2. QED
    BY <1>1, <1>8, <2>1 DEF RecordSerial, Follows, cursorVars
<1>9. CASE FetchSends \/ FetchFails \/ BackfillNext \/ Discontinuity \/ BackfillEnds
  BY <1>1, <1>9 DEF FetchSends, FetchFails, BackfillNext, Discontinuity, BackfillEnds,
                    OnResumed, Reports, cursorVars
<1>10. QED
  BY <1>3, <1>4, <1>5, <1>6, <1>7, <1>8, <1>9 DEF Next

LEMMA KnownStays ==
    ASSUME IndInv, Bounded, Next, NEW n \in Nat, Known(n)
    PROVE  Known(n)'
<1>1. /\ head \in Nat /\ contiguousSerial \in Nat /\ told \in Nat
      /\ contiguousSerial' \in Nat /\ told' \in Nat
  BY IndStep, DeliveryAssumption DEF IndInv, TypeOK
<1>2. QED
  BY <1>1, CursorStep DEF Known, Bounded

(* A goroutine that is to send a sub has read the cursor of this moment, or *)
(* was to send it before; a sub under way was sent by such a goroutine.     *)
LEMMA SubsAfter ==
    ASSUME IndInv, Next
    PROVE  /\ \A g \in Subs : sub'[g].pc = "wait" =>
                 \/ sub'[g] = sub[g]
                 \/ sub'[g].from = contiguousSerial /\ contiguousSerial' = contiguousSerial
           /\ \A f \in Range(toServer') : f.type = "sub" =>
                 \/ f \in Range(toServer)
                 \/ \E g \in Subs : sub[g].pc = "wait" /\ f.from = sub[g].from
<1> DEFINE Froms ==
             \A g \in Subs : sub'[g].pc = "wait" =>
                 \/ sub'[g] = sub[g]
                 \/ sub'[g].from = contiguousSerial /\ contiguousSerial' = contiguousSerial
           Frames ==
             \A f \in Range(toServer') : f.type = "sub" =>
                 \/ f \in Range(toServer)
                 \/ \E g \in Subs : sub[g].pc = "wait" /\ f.from = sub[g].from
<1>1. sub \in [Subs -> SubRecords]
  BY DEF IndInv, TypeOK
<1>2. CASE Stores \/ AgesOut \/ SendsLive \/ Reconnects \/ OnConnectionState
  BY <1>2 DEF Stores, AgesOut, SendsLive, Reconnects, OnConnectionState, wireVars
<1>3. CASE AnswersSub \/ AnswersFetch
  <2>1. sub' = sub
    BY <1>3 DEF AnswersSub, AnswersFetch
  <2>2. Range(toServer') \subseteq Range(toServer)
    BY <1>3, FramesAfter
  <2>3. QED
    BY <2>1, <2>2
<1>4. CASE Drops
  <2>1. Froms
    BY <1>1, <1>4 DEF Drops, SubRecords
  <2>2. QED
    BY <1>4, <2>1, FramesAfter
<1>5. ASSUME NEW g \in Subs, Restores(g) \/ Attach(g)
      PROVE  Froms /\ Frames
  BY <1>1, <1>5 DEF Restores, Attach, wireVars, cursorVars
<1>6. ASSUME NEW g \in Subs, SubSends(g)
      PROVE  Froms /\ Frames
  <2>1. Froms
    BY <1>1, <1>6 DEF SubSends, SubRecords
  <2>2. Frames
    <3>1. Range(toServer') = Range(toServer) \cup
                {[type |-> "sub", slot |-> g, from |-> sub[g].from]}
      BY <1>6, FramesAfter
    <3>2. sub[g].pc = "wait"
      BY <1>6 DEF SubSends
    <3>3. QED
      BY <3>1, <3>2
  <2>3. QED
    BY <2>1, <2>2
<1>7. ASSUME NEW g \in Subs, SubFails(g) \/ AttachEnds(g) \/ RestoreEnds(g)
      PROVE  Froms /\ Frames
  <2>1. Froms
    BY <1>1, <1>7 DEF SubFails, AttachEnds, RestoreEnds, SubRecords, IdleSub
  <2>2. toServer' = toServer
    BY <1>7 DEF SubFails, AttachEnds, RestoreEnds, wireVars
  <2>3. QED
    BY <2>1, <2>2
<1>8. CASE ReadsMessage \/ ReadsFetchRes
  BY <1>8 DEF ReadsMessage, ReadsFetchRes
<1>9. CASE ReadsAck
  <2>1. Froms
    BY <1>1, <1>9 DEF ReadsAck, SubRecords
  <2>2. toServer' = toServer
    BY <1>9 DEF ReadsAck
  <2>3. QED
    BY <2>1, <2>2
<1>10. ASSUME NEW w \in Workers, RecordSerial(w) \/ \E m \in Ids : DeliverSingle(w, m)
       PROVE  Froms /\ Frames
  BY <1>10 DEF RecordSerial, DeliverSingle, wireVars
<1>11. CASE FetchSends
  BY <1>11, FramesAfter DEF FetchSends
<1>12. CASE FetchFails \/ BackfillNext \/ Discontinuity \/ BackfillEnds
  BY <1>12 DEF FetchFails, BackfillNext, Discontinuity, BackfillEnds, wireVars
<1>13. QED
  BY <1>2, <1>3, <1>4, <1>5, <1>6, <1>7, <1>8, <1>9, <1>10, <1>11, <1>12 DEF Next

LEMMA FromKnownStep ==
    ASSUME IndInv, Bounded, FromKnown, Next
    PROVE  FromKnown'
<1>1. TypeOK
  BY DEF IndInv
<1>2. ASSUME NEW n \in Nat, Known(n)
      PROVE  n <= contiguousSerial' \/ n <= told'
  BY <1>2, KnownStays DEF Known
<1>3. ASSUME NEW g \in Subs, sub'[g].pc = "wait"
      PROVE  sub'[g].from <= contiguousSerial' \/ sub'[g].from <= told'
  <2>1. CASE sub'[g] = sub[g]
    <3>1. Known(sub[g].from) /\ sub[g].from \in Nat
      BY <1>1, <1>3, <2>1, LocalTypes DEF FromKnown
    <3>2. QED
      BY <1>2, <2>1, <3>1
  <2>2. CASE sub'[g].from = contiguousSerial /\ contiguousSerial' = contiguousSerial
    BY <1>1, <2>2, LocalTypes
  <2>3. QED
    BY <1>3, <2>1, <2>2, SubsAfter
<1>4. ASSUME NEW f \in Range(toServer'), f.type = "sub"
      PROVE  f.from <= contiguousSerial' \/ f.from <= told'
  <2>1. CASE f \in Range(toServer)
    <3>1. Known(f.from) /\ f.from \in Nat
      BY <1>1, <1>4, <2>1, FrameTypes DEF FromKnown
    <3>2. QED
      BY <1>2, <3>1
  <2>2. CASE \E g \in Subs : sub[g].pc = "wait" /\ f.from = sub[g].from
    <3>1. Known(f.from) /\ f.from \in Nat
      BY <1>1, <2>2, LocalTypes DEF FromKnown
    <3>2. QED
      BY <1>2, <3>1
  <2>3. QED
    BY <1>4, <2>1, <2>2, SubsAfter
<1>5. QED
  BY <1>3, <1>4 DEF FromKnown, Known

LEMMA OneFrameStep ==
    ASSUME IndInv, OneFrameEach, Next
    PROVE  OneFrameEach'
<1> USE DeliveryAssumption
<1> DEFINE FS == SubFrame \cup FetchFrame
           FC == MsgFrame \cup AckFrame \cup FetchRes
<1>1. /\ TypeOK /\ sub \in [Subs -> SubRecords]
      /\ toServer \in Seq(FS) /\ toClient \in Seq(FC)
  BY DEF IndInv, TypeOK
<1> HIDE DEF FS, FC
<1>2. ASSUME UNCHANGED <<toServer, toClient>>,
             \A f \in Range(toServer) : f.type = "sub" => sub'[f.slot].pc = "sent",
             \A f \in Range(toClient) : f.type = "ack" => sub'[f.slot].pc = "sent"
      PROVE  OneFrameEach'
  BY <1>2 DEF OneFrameEach
<1>3. ASSUME UNCHANGED <<toServer, toClient, sub>> PROVE OneFrameEach'
  BY <1>3 DEF OneFrameEach
<1>4. CASE Stores \/ AgesOut \/ Reconnects \/ OnConnectionState
  BY <1>3, <1>4 DEF Stores, AgesOut, Reconnects, OnConnectionState, wireVars
<1>5. CASE SendsLive
  <2>1. toServer' = toServer /\ sub' = sub
    BY <1>5 DEF SendsLive
  <2>2. CASE toClient' = toClient
    BY <1>3, <2>1, <2>2
  <2>3. CASE toClient' = Append(toClient, [type |-> "msg", seq |-> tail + 1])
    <3> DEFINE x == [type |-> "msg", seq |-> tail + 1]
    <3>1. x \in FC
      <4>1. tail + 1 \in Serials
        BY <1>1, <1>5 DEF SendsLive, TypeOK, Serials
      <4>2. QED
        BY <4>1 DEF FC, MsgFrame
    <3>2. Range(toClient') = Range(toClient) \cup {x} /\ x.type # "ack"
      BY <1>1, <2>3, <3>1, FrameFacts
    <3>3. SlotsDistinct(toClient', "ack")
      BY <1>1, <2>3, <3>1, <3>2, SlotsDistinctAppend DEF OneFrameEach
    <3>4. QED
      BY <2>1, <3>2, <3>3 DEF OneFrameEach
  <2>4. QED
    BY <1>5, <2>2, <2>3 DEF SendsLive
<1>6. CASE AnswersSub
  <2> DEFINE f == Head(toServer)
  <2>1. PICK a : /\ f \in Range(toServer) /\ f.type = "sub"
                 /\ Range(toServer) = Range(toServer') \cup {f}
                 /\ Range(toClient') = Range(toClient) \cup {a}
                 /\ a = [type |-> "ack", slot |-> f.slot,
                         resumed |-> f.from > 0 /\ Retained(f.from)]
    BY <1>6, FramesAfter
  <2>2. a.type = "ack" /\ a.slot = f.slot
    BY <2>1
  <2>3. toServer # <<>> /\ toServer' = Tail(toServer) /\ sub' = sub
    BY <1>6 DEF AnswersSub
  <2>4. /\ SlotsDistinct(toServer', "sub")
        /\ \A g \in Range(toServer') : g.type = "sub" => g.slot # f.slot
    BY <1>1, <2>1, <2>3, SlotsDistinctTail DEF OneFrameEach
  <2>5. SlotsDistinct(toClient', "ack")
    <3>1. toClient' = Append(toClient, a)
      BY <1>6, <2>1 DEF AnswersSub
    <3>2. \A g \in Range(toClient) : g.type = "ack" => g.slot # a.slot
      BY <2>1, <2>2 DEF OneFrameEach
    <3>3. a \in FC
      BY <1>1, <2>1, FrameTypes DEF FC, AckFrame
    <3>4. QED
      BY <1>1, <3>1, <3>2, <3>3, SlotsDistinctAppend DEF OneFrameEach
  <2>6. sub[f.slot].pc = "sent" /\ \A g \in Range(toServer') : g \in Range(toServer)
    BY <2>1 DEF OneFrameEach
  <2>7. QED
    BY <2>1, <2>2, <2>3, <2>4, <2>5, <2>6 DEF OneFrameEach
<1>7. CASE AnswersFetch
  <2> DEFINE f == Head(toServer)
             a == [type |-> "fetchRes", from |-> f.from, to |-> head,
                   resumed |-> Retained(f.from)]
  <2>1. /\ f \in Range(toServer) /\ f.type = "fetch"
        /\ Range(toServer) = Range(toServer') \cup {f}
        /\ Range(toClient') = Range(toClient) \cup {a} /\ a.type # "ack"
    BY <1>7, FramesAfter
  <2>2. /\ toServer # <<>> /\ toServer' = Tail(toServer) /\ sub' = sub
        /\ toClient' = Append(toClient, a)
    BY <1>7 DEF AnswersFetch
  <2>3. SlotsDistinct(toServer', "sub")
    BY <1>1, <2>2, SlotsDistinctTail DEF OneFrameEach
  <2>4. SlotsDistinct(toClient', "ack")
    <3>1. f.from \in Serials
      BY <1>1, <2>1, FrameTypes
    <3>2. a \in FC
      BY <1>1, <3>1, FetchResFact DEF FC
    <3> HIDE DEF a
    <3>3. QED
      BY <1>1, <2>1, <2>2, <3>2, SlotsDistinctAppend DEF OneFrameEach
  <2> HIDE DEF a
  <2>5. QED
    BY <2>1, <2>2, <2>3, <2>4 DEF OneFrameEach
<1>8. CASE Drops
  <2>1. toServer' = <<>> /\ toClient' = <<>>
    BY <1>8 DEF Drops
  <2>2. QED
    BY <2>1, NoFrames DEF OneFrameEach, SlotsDistinct
<1>9. ASSUME NEW g \in Subs, \/ Restores(g) \/ SubFails(g) \/ Attach(g)
                             \/ AttachEnds(g) \/ RestoreEnds(g)
      PROVE  OneFrameEach'
  <2>1. sub[g].pc # "sent" /\ \A h \in Subs : h # g => sub'[h] = sub[h]
    BY <1>1, <1>9 DEF Restores, SubFails, Attach, AttachEnds, RestoreEnds
  <2>2. UNCHANGED <<toServer, toClient>>
    BY <1>9 DEF Restores, SubFails, Attach, AttachEnds, RestoreEnds, wireVars
  <2>3. QED
    BY <1>1, <1>2, <2>1, <2>2, FrameTypes DEF OneFrameEach
<1>10. ASSUME NEW g \in Subs, SubSends(g)
       PROVE  OneFrameEach'
  <2> DEFINE x == [type |-> "sub", slot |-> g, from |-> sub[g].from]
  <2>1. /\ Range(toServer') = Range(toServer) \cup {x} /\ x.type = "sub" /\ x.slot = g
        /\ toServer' = Append(toServer, x) /\ toClient' = toClient
    BY <1>10, FramesAfter DEF SubSends
  <2>2. sub[g].pc = "wait"
    BY <1>10 DEF SubSends
  <2>3. /\ \A f \in Range(toServer) : f.type = "sub" => f.slot # g
        /\ \A f \in Range(toClient) : f.type = "ack" => f.slot # g
    BY <2>2 DEF OneFrameEach
  <2>4. sub'[g].pc = "sent" /\ \A h \in Subs : h # g => sub'[h] = sub[h]
    BY <1>1, <1>10 DEF SubSends, SubRecords
  <2>5. x \in FS
    BY <1>1, SubRecordFacts DEF FS, SubFrame
  <2> HIDE DEF x
  <2>6. SlotsDistinct(toServer', "sub")
    BY <1>1, <2>1, <2>3, <2>5, SlotsDistinctAppend DEF OneFrameEach
  <2>7. QED
    BY <1>1, <2>1, <2>3, <2>4, <2>6, FrameTypes DEF OneFrameEach
<1>11. CASE ReadsMessage \/ ReadsFetchRes
  <2>1. /\ toClient # <<>> /\ toClient' = Tail(toClient)
        /\ toServer' = toServer /\ sub' = sub
    BY <1>11 DEF ReadsMessage, ReadsFetchRes
  <2>2. SlotsDistinct(toClient', "ack")
    BY <1>1, <2>1, SlotsDistinctTail DEF OneFrameEach
  <2>3. Range(toClient') \subseteq Range(toClient)
    BY <1>11, FramesAfter
  <2>4. QED
    BY <2>1, <2>2, <2>3 DEF OneFrameEach
<1>12. CASE ReadsAck
  <2> DEFINE f == Head(toClient)
  <2>1. /\ toClient # <<>> /\ toClient' = Tail(toClient) /\ toServer' = toServer
        /\ f.type = "ack"
        /\ sub' = [sub EXCEPT ![f.slot] = [@ EXCEPT !.pc = "acked", !.resumed = f.resumed]]
    BY <1>12 DEF ReadsAck
  <2>2. f \in Range(toClient) /\ Range(toClient') \subseteq Range(toClient)
    BY <1>12, FramesAfter
  <2>3. /\ SlotsDistinct(toClient', "ack")
        /\ \A a \in Range(toClient') : a.type = "ack" => a.slot # f.slot
    BY <1>1, <2>1, SlotsDistinctTail DEF OneFrameEach
  <2>4. \A h \in Subs : h # f.slot => sub'[h] = sub[h]
    BY <1>1, <2>1
  <2>5. \A s \in Range(toServer) : s.type = "sub" => s.slot # f.slot
    BY <2>1, <2>2 DEF OneFrameEach
  <2>6. QED
    BY <1>1, <2>1, <2>2, <2>3, <2>4, <2>5, FrameTypes DEF OneFrameEach
<1>13. ASSUME NEW w \in Workers, RecordSerial(w) \/ \E m \in Ids : DeliverSingle(w, m)
       PROVE  OneFrameEach'
  BY <1>3, <1>13 DEF RecordSerial, DeliverSingle, wireVars
<1>14. CASE FetchSends
  <2> DEFINE x == [type |-> "fetch", from |-> fetch.from]
  <2>1. /\ Range(toServer') = Range(toServer) \cup {x} /\ x.type # "sub"
        /\ toServer' = Append(toServer, x) /\ toClient' = toClient /\ sub' = sub
    BY <1>14, FramesAfter DEF FetchSends
  <2>2. x \in FS
    BY <1>14 DEF IndInv, FetchSends, FetchFromCursor, FetchFrame, FS
  <2> HIDE DEF x
  <2>3. SlotsDistinct(toServer', "sub")
    BY <1>1, <2>1, <2>2, SlotsDistinctAppend DEF OneFrameEach
  <2>4. QED
    BY <2>1, <2>3 DEF OneFrameEach
<1>15. CASE FetchFails \/ BackfillNext \/ Discontinuity \/ BackfillEnds
  BY <1>3, <1>15 DEF FetchFails, BackfillNext, Discontinuity, BackfillEnds, wireVars
<1>16. QED
  BY <1>4, <1>5, <1>6, <1>7, <1>8, <1>9, <1>10, <1>11, <1>12, <1>13, <1>14, <1>15 DEF Next

LEMMA InitializedStep ==
    ASSUME IndInv, InitializedIsFresh, Next
    PROVE  InitializedIsFresh'
<1> USE DeliveryAssumption
<1> SUFFICES ASSUME state' = "initialized"
             PROVE  /\ Fresh' /\ ~restoring'
                    /\ toServer' = <<>> /\ toClient' = <<>>
                    /\ \A g \in Subs : sub'[g].pc = "idle"
  BY DEF InitializedIsFresh
<1>1. ASSUME state = "initialized"
      PROVE  /\ Fresh /\ ~restoring /\ toServer = <<>> /\ toClient = <<>>
             /\ \A g \in Subs : sub[g].pc = "idle"
  BY <1>1 DEF InitializedIsFresh
<1>2. ASSUME state = "initialized",
             UNCHANGED <<contiguousSerial, tail, fetch, toServer, toClient, worker, sub>>,
             ~restoring'
      PROVE  /\ Fresh' /\ ~restoring'
             /\ toServer' = <<>> /\ toClient' = <<>>
             /\ \A g \in Subs : sub'[g].pc = "idle"
  BY <1>1, <1>2 DEF Fresh, NoFetch
<1>3. CASE Stores \/ AgesOut \/ Reconnects
  BY <1>1, <1>2, <1>3 DEF Stores, AgesOut, Reconnects, serverVars, wireVars, cursorVars
<1>4. CASE OnConnectionState
  <2>1. state = "initialized"
    BY <1>4 DEF OnConnectionState
  <2>2. QED
    BY <1>1, <1>2, <1>4, <2>1 DEF OnConnectionState, serverVars, wireVars, cursorVars
<1>5. CASE SendsLive \/ AnswersSub \/ AnswersFetch
  BY <1>1, <1>5 DEF SendsLive, AnswersSub, AnswersFetch, Fresh
<1>6. CASE Drops
  <2>1. state = "initialized"
    BY <1>6 DEF Drops
  <2>2. sub' = sub
    <3>1. sub \in [Subs -> SubRecords]
      BY DEF IndInv, TypeOK
    <3>2. QED
      BY <1>1, <1>6, <2>1, <3>1 DEF Drops
  <2>3. fetch' = fetch
    BY <1>1, <1>6, <2>1 DEF Drops, Fresh, NoFetch
  <2>4. /\ UNCHANGED <<contiguousSerial, tail, toServer, toClient, worker>> /\ ~restoring'
    BY <1>1, <1>6, <2>1 DEF Drops, Fresh, cursorVars
  <2>5. QED
    BY <1>2, <2>1, <2>2, <2>3, <2>4
<1>7. ASSUME NEW g \in Subs, \/ Restores(g) \/ SubSends(g) \/ SubFails(g)
                             \/ Attach(g) \/ AttachEnds(g) \/ RestoreEnds(g)
      PROVE  FALSE
  BY <1>1, <1>7 DEF Restores, SubSends, SubFails, Attach, AttachEnds, RestoreEnds, OnResumed
<1>8. ASSUME ReadsMessage \/ ReadsAck \/ ReadsFetchRes PROVE FALSE
  BY <1>1, <1>8 DEF ReadsMessage, ReadsAck, ReadsFetchRes
<1>9. ASSUME NEW w \in Workers, RecordSerial(w) \/ \E m \in Ids : DeliverSingle(w, m)
      PROVE  FALSE
  BY <1>1, <1>9 DEF RecordSerial, DeliverSingle, Fresh
<1>10. ASSUME FetchSends \/ FetchFails \/ BackfillNext \/ Discontinuity \/ BackfillEnds
       PROVE  FALSE
  BY <1>1, <1>10 DEF FetchSends, FetchFails, BackfillNext, Discontinuity, BackfillEnds,
                     OnResumed, Fresh, NoFetch
<1>11. QED
  BY <1>3, <1>4, <1>5, <1>6, <1>7, <1>8, <1>9, <1>10 DEF Next

(* A renewal stays ahead until the server has answered it.                  *)
LEMMA RenewingStep ==
    ASSUME IndInv, OneFrameEach, Renewing, Next
    PROVE  \/ Renewing'
           \/ Reconnects /\ state = "initialized"
           \/ AnswersSub /\ sub[Head(toServer).slot].kind = "restore"
<1> USE DeliveryAssumption
<1>1. TypeOK /\ sub \in [Subs -> SubRecords]
  BY DEF IndInv, TypeOK
<1>2. ASSUME UNCHANGED <<up, restoring, sub, toServer>> PROVE Renewing'
  BY <1>2 DEF Renewing
<1>3. CASE Stores \/ AgesOut \/ SendsLive \/ OnConnectionState
  BY <1>2, <1>3 DEF Stores, AgesOut, SendsLive, OnConnectionState, wireVars
<1>4. CASE AnswersSub
  <2>1. /\ Range(toServer) = Range(toServer') \cup {Head(toServer)}
        /\ UNCHANGED <<up, restoring, sub>>
    BY <1>4, FramesAfter DEF AnswersSub
  <2>2. QED
    BY <1>4, <2>1 DEF Renewing
<1>5. CASE AnswersFetch
  <2>1. /\ Range(toServer) = Range(toServer') \cup {Head(toServer)}
        /\ Head(toServer).type = "fetch"
        /\ UNCHANGED <<up, restoring, sub>>
    BY <1>5, FramesAfter DEF AnswersFetch
  <2>2. QED
    BY <2>1 DEF Renewing
<1>6. CASE Drops
  BY <1>6 DEF Drops, Renewing
<1>7. CASE Reconnects
  <2>1. state # "initialized" => restoring'
    BY <1>7 DEF Reconnects
  <2>2. QED
    BY <1>7, <2>1 DEF Renewing
<1>8. ASSUME NEW g \in Subs, Restores(g)
      PROVE  Renewing'
  <2>1. sub'[g].kind = "restore" /\ sub'[g].pc = "wait"
    BY <1>1, <1>8 DEF Restores
  <2>2. QED
    BY <2>1 DEF Renewing
<1>9. ASSUME NEW g \in Subs, SubSends(g)
      PROVE  Renewing'
  <2>1. /\ UNCHANGED <<up, restoring>> /\ sub[g].pc = "wait"
        /\ \A h \in Subs : sub'[h].kind = sub[h].kind /\ (h # g => sub'[h] = sub[h])
    BY <1>1, <1>9 DEF SubSends, SubRecords
  <2>2. Range(toServer') = Range(toServer) \cup
              {[type |-> "sub", slot |-> g, from |-> sub[g].from]}
    BY <1>9, FramesAfter
  <2>3. CASE sub[g].kind = "restore"
    <3> DEFINE x == [type |-> "sub", slot |-> g, from |-> sub[g].from]
    <3>1. x \in Range(toServer') /\ x.type = "sub" /\ sub'[x.slot].kind = "restore"
      BY <2>1, <2>2, <2>3
    <3>2. QED
      BY <3>1 DEF Renewing
  <2>4. CASE sub[g].kind # "restore"
    BY <1>1, <2>1, <2>2, <2>4, FrameTypes DEF Renewing
  <2>5. QED
    BY <2>3, <2>4
<1>10. ASSUME NEW g \in Subs, SubFails(g)
       PROVE  Renewing'
  BY <1>10 DEF SubFails, Renewing, wireVars
<1>11. ASSUME NEW g \in Subs, Attach(g) \/ AttachEnds(g) \/ RestoreEnds(g)
       PROVE  Renewing'
  <2>1. /\ UNCHANGED <<up, restoring, toServer>>
        /\ sub[g].pc \notin {"wait", "sent"} /\ \A h \in Subs : h # g => sub'[h] = sub[h]
    BY <1>1, <1>11 DEF Attach, AttachEnds, RestoreEnds, wireVars
  <2>2. \A f \in Range(toServer) : f.type = "sub" => f.slot # g /\ f.slot \in Subs
    BY <1>1, <2>1, FrameTypes DEF OneFrameEach
  <2>3. QED
    BY <2>1, <2>2 DEF Renewing
<1>12. CASE ReadsMessage \/ ReadsFetchRes
  BY <1>2, <1>12 DEF ReadsMessage, ReadsFetchRes
<1>13. CASE ReadsAck
  <2> DEFINE s == Head(toClient).slot
  <2>1. Head(toClient) \in Range(toClient) /\ Head(toClient).type = "ack"
    BY <1>13, FramesAfter DEF ReadsAck
  <2>2. s \in Subs /\ sub[s].pc = "sent"
    BY <1>1, <2>1, FrameTypes DEF OneFrameEach
  <2>3. /\ UNCHANGED <<up, restoring, toServer>>
        /\ \A h \in Subs : sub'[h].kind = sub[h].kind /\ (h # s => sub'[h] = sub[h])
    BY <1>1, <1>13 DEF ReadsAck, SubRecords
  <2>4. QED
    BY <1>1, <2>2, <2>3, FrameTypes DEF Renewing
<1>14. ASSUME NEW w \in Workers, RecordSerial(w) \/ \E m \in Ids : DeliverSingle(w, m)
       PROVE  Renewing'
  BY <1>2, <1>14 DEF RecordSerial, DeliverSingle, wireVars
<1>15. CASE FetchSends
  <2>1. UNCHANGED <<up, restoring, sub>> /\ Range(toServer) \subseteq Range(toServer')
    BY <1>15, FramesAfter DEF FetchSends
  <2>2. QED
    BY <2>1 DEF Renewing
<1>16. CASE FetchFails \/ BackfillNext \/ Discontinuity \/ BackfillEnds
  BY <1>2, <1>16 DEF FetchFails, BackfillNext, Discontinuity, BackfillEnds, wireVars
<1>17. QED
  BY <1>3, <1>4, <1>5, <1>6, <1>7, <1>8, <1>9, <1>10, <1>11, <1>12, <1>13, <1>14, <1>15,
     <1>16 DEF Next

(* A refusal under way stays so until it is reported or the connection      *)
(* drops.                                                                   *)
LEMMA ReportingStep ==
    ASSUME IndInv, OneFrameEach, Reporting, Next
    PROVE  Reporting' \/ Renewing' \/ (told' = head /\ head' = head)
<1> USE DeliveryAssumption
<1>1. TypeOK /\ sub \in [Subs -> SubRecords]
  BY DEF IndInv, TypeOK
<1>2. ASSUME sub' = sub, Range(toClient) \subseteq Range(toClient') PROVE Reporting'
  BY <1>2 DEF Reporting
<1>3. CASE Stores \/ AgesOut \/ Reconnects \/ OnConnectionState
  BY <1>2, <1>3 DEF Stores, AgesOut, Reconnects, OnConnectionState, wireVars
<1>4. CASE SendsLive
  <2>1. sub' = sub
    BY <1>4 DEF SendsLive
  <2>2. QED
    BY <1>2, <1>4, <2>1, FramesAfter
<1>5. CASE AnswersSub \/ AnswersFetch
  <2>1. sub' = sub
    BY <1>5 DEF AnswersSub, AnswersFetch
  <2>2. Range(toClient) \subseteq Range(toClient')
    BY <1>5, FramesAfter
  <2>3. QED
    BY <1>2, <2>1, <2>2
<1>6. CASE Drops
  BY <1>6 DEF Drops, Renewing
<1>7. ASSUME NEW g \in Subs, \/ Restores(g) \/ SubSends(g) \/ SubFails(g)
                             \/ Attach(g) \/ AttachEnds(g)
      PROVE  Reporting'
  <2>1. /\ toClient' = toClient
        /\ sub[g].pc # "sent" /\ ~(sub[g].kind = "restore" /\ sub[g].pc = "acked")
        /\ \A h \in Subs : h # g => sub'[h] = sub[h]
    BY <1>1, <1>7 DEF Restores, SubSends, SubFails, Attach, AttachEnds, wireVars
  <2>2. \A f \in Range(toClient) : f.type = "ack" => f.slot # g /\ f.slot \in Subs
    BY <1>1, <2>1, FrameTypes DEF OneFrameEach
  <2>3. QED
    BY <2>1, <2>2 DEF Reporting
<1>8. ASSUME NEW g \in Subs, RestoreEnds(g)
      PROVE  Reporting' \/ (told' = head /\ head' = head)
  <2>1. /\ toClient' = toClient /\ head' = head
        /\ sub[g].pc # "sent" /\ \A h \in Subs : h # g => sub'[h] = sub[h]
    BY <1>1, <1>8 DEF RestoreEnds, wireVars, serverVars
  <2>2. \A f \in Range(toClient) : f.type = "ack" => f.slot # g /\ f.slot \in Subs
    BY <1>1, <2>1, FrameTypes DEF OneFrameEach
  <2>3. CASE sub[g].pc = "acked" /\ ~sub[g].resumed
    BY <1>8, <2>1, <2>3 DEF RestoreEnds, OnResumed, Reports
  <2>4. CASE ~(sub[g].pc = "acked" /\ ~sub[g].resumed)
    BY <2>1, <2>2, <2>4 DEF Reporting
  <2>5. QED
    BY <2>3, <2>4
<1>9. CASE ReadsMessage \/ ReadsFetchRes
  <2>1. /\ Range(toClient) = Range(toClient') \cup {Head(toClient)} /\ sub' = sub
        /\ Head(toClient).type # "ack"
    BY <1>9, FramesAfter DEF ReadsMessage, ReadsFetchRes
  <2>2. QED
    BY <2>1 DEF Reporting
<1>10. CASE ReadsAck
  <2> DEFINE f == Head(toClient)
  <2>1. /\ f \in Range(toClient) /\ f.type = "ack"
        /\ Range(toClient) = Range(toClient') \cup {f}
    BY <1>10, FramesAfter DEF ReadsAck
  <2>2. f.slot \in Subs /\ sub[f.slot].pc = "sent"
    BY <1>1, <2>1, FrameTypes DEF OneFrameEach
  <2>3. /\ \A h \in Subs : sub'[h].kind = sub[h].kind /\ (h # f.slot => sub'[h] = sub[h])
        /\ sub'[f.slot].pc = "acked" /\ sub'[f.slot].resumed = f.resumed
    BY <1>1, <1>10, <2>2 DEF ReadsAck, SubRecords
  <2>4. CASE ~f.resumed /\ sub[f.slot].kind = "restore"
    BY <2>2, <2>3, <2>4 DEF Reporting
  <2>5. CASE ~(~f.resumed /\ sub[f.slot].kind = "restore")
    BY <1>1, <2>1, <2>2, <2>3, <2>5, FrameTypes DEF Reporting
  <2>6. QED
    BY <2>4, <2>5
<1>11. ASSUME NEW w \in Workers, RecordSerial(w) \/ \E m \in Ids : DeliverSingle(w, m)
       PROVE  Reporting'
  BY <1>2, <1>11 DEF RecordSerial, DeliverSingle, wireVars
<1>12. CASE FetchSends \/ FetchFails \/ BackfillNext \/ Discontinuity \/ BackfillEnds
  BY <1>2, <1>12 DEF FetchSends, FetchFails, BackfillNext, Discontinuity, BackfillEnds,
                     wireVars
<1>13. QED
  BY <1>3, <1>4, <1>5, <1>6, <1>7, <1>8, <1>9, <1>10, <1>11, <1>12 DEF Next

(* What was received stays received. *)
LEMMA ReceivedStays ==
    ASSUME IndInv, Next, NEW n \in Serials, Received(n)
    PROVE  Received(n)'
<1> USE DeliveryAssumption
<1>1. Members[n] \subseteq Ids /\ delivered \in [Ids -> Nat]
  BY DEF IndInv, TypeOK
<1>2. ASSUME UNCHANGED deliverVars PROVE Received(n)'
  BY <1>2 DEF Received, deliverVars
<1>3. CASE Stores \/ AgesOut \/ SendsLive \/ AnswersSub \/ AnswersFetch
  BY <1>2, <1>3 DEF Stores, AgesOut, SendsLive, AnswersSub, AnswersFetch
<1>4. CASE Drops \/ Reconnects \/ OnConnectionState
  BY <1>2, <1>4 DEF Drops, Reconnects, OnConnectionState
<1>5. ASSUME NEW g \in Subs, \/ Restores(g) \/ SubSends(g) \/ SubFails(g)
                             \/ Attach(g) \/ AttachEnds(g) \/ RestoreEnds(g)
      PROVE  Received(n)'
  BY <1>2, <1>5 DEF Restores, SubSends, SubFails, Attach, AttachEnds, RestoreEnds
<1>6. CASE ReadsMessage \/ ReadsAck \/ ReadsFetchRes
  BY <1>2, <1>6 DEF ReadsMessage, ReadsAck, ReadsFetchRes
<1>7. ASSUME NEW w \in Workers, NEW m \in Ids, DeliverSingle(w, m)
      PROVE  Received(n)'
  <2>1. CASE delivered' = [delivered EXCEPT ![m] = @ + 1]
    BY <1>1, <2>1 DEF Received
  <2>2. QED
    BY <1>2, <1>7, <2>1 DEF DeliverSingle
<1>8. ASSUME NEW w \in Workers, RecordSerial(w) PROVE Received(n)'
  BY <1>2, <1>8 DEF RecordSerial
<1>9. CASE FetchSends \/ FetchFails \/ BackfillNext \/ Discontinuity \/ BackfillEnds
  BY <1>2, <1>9 DEF FetchSends, FetchFails, BackfillNext, Discontinuity, BackfillEnds
<1>10. QED
  BY <1>3, <1>4, <1>5, <1>6, <1>7, <1>8, <1>9 DEF Next

(* A record on its way arrives, is lost, or is left to a renewal.           *)
LEMMA ComingStep ==
    ASSUME IndInv, NEW n \in Serials, Coming(n), Next, ~AnswersSub, ~dropped'
    PROVE  Coming(n)' \/ Received(n)' \/ Renewing'
<1> USE DeliveryAssumption
<1>1. TypeOK /\ worker \in [Workers -> WorkerRecords] /\ n \in Nat
  BY DEF IndInv, TypeOK, Serials
<1>2. ASSUME UNCHANGED <<tail, worker>>, Range(toClient) \subseteq Range(toClient')
      PROVE  Coming(n)'
  BY <1>2 DEF Coming
<1>3. CASE Stores \/ AgesOut \/ Reconnects \/ OnConnectionState
  BY <1>2, <1>3 DEF Stores, AgesOut, Reconnects, OnConnectionState, serverVars, wireVars
<1>4. CASE SendsLive
  <2>1. tail # None /\ tail \in Nat /\ tail' = tail + 1 /\ worker' = worker
    BY <1>1, <1>4, LocalTypes DEF SendsLive
  <2>2. Range(toClient') = Range(toClient) \cup {[type |-> "msg", seq |-> tail + 1]}
    BY <1>4, FramesAfter
  <2>3. CASE tail < n
    <3>1. CASE tail + 1 = n
      <4> DEFINE x == [type |-> "msg", seq |-> tail + 1]
      <4>1. x \in Range(toClient') /\ x.type = "msg" /\ x.seq = n
        BY <2>2, <3>1
      <4>2. QED
        BY <4>1 DEF Coming
    <3>2. CASE tail + 1 # n
      <4>1. tail' < n /\ tail' # None
        BY <1>1, <2>1, <2>3, <3>2
      <4>2. QED
        BY <4>1 DEF Coming
    <3>3. QED
      BY <3>1, <3>2
  <2>4. CASE ~(tail < n)
    BY <2>1, <2>2, <2>4 DEF Coming
  <2>5. QED
    BY <2>3, <2>4
<1>5. CASE AnswersFetch
  <2>1. UNCHANGED <<tail, worker>> /\ Range(toClient) \subseteq Range(toClient')
    BY <1>5, FramesAfter DEF AnswersFetch, serverVars
  <2>2. QED
    BY <1>2, <2>1
<1>6. CASE Drops
  BY <1>6 DEF Drops, Renewing
<1>7. ASSUME NEW g \in Subs, \/ Restores(g) \/ SubSends(g) \/ SubFails(g)
                             \/ Attach(g) \/ AttachEnds(g) \/ RestoreEnds(g)
      PROVE  Coming(n)'
  BY <1>2, <1>7 DEF Restores, SubSends, SubFails, Attach, AttachEnds, RestoreEnds,
                    serverVars, wireVars
<1>8. CASE ReadsMessage
  <2>1. /\ Range(toClient) = Range(toClient') \cup {Head(toClient)} /\ tail' = tail
        /\ worker' = [worker EXCEPT !["readLoop"] = Delivering(Head(toClient).seq)]
        /\ worker["readLoop"].pc = "idle"
    BY <1>8, FramesAfter DEF ReadsMessage, serverVars
  <2>2. /\ worker'["readLoop"].pc # "idle" /\ worker'["readLoop"].seq = Head(toClient).seq
        /\ \A w \in Workers : worker[w].pc # "idle" => worker'[w] = worker[w]
    BY <1>1, <2>1 DEF Delivering, Workers
  <2>3. "readLoop" \in Workers
    BY DEF Workers
  <2>4. QED
    BY <2>1, <2>2, <2>3 DEF Coming
<1>9. CASE ReadsAck \/ ReadsFetchRes
  <2>1. /\ Range(toClient) = Range(toClient') \cup {Head(toClient)}
        /\ Head(toClient).type # "msg" /\ UNCHANGED <<tail, worker>>
    BY <1>9, FramesAfter DEF ReadsAck, ReadsFetchRes, serverVars
  <2>2. QED
    BY <2>1 DEF Coming
<1>10. ASSUME NEW w \in Workers, NEW m \in Ids, DeliverSingle(w, m)
       PROVE  Coming(n)'
  <2>1. \A v \in Workers : worker[v].pc # "idle" =>
              worker'[v].pc # "idle" /\ worker'[v].seq = worker[v].seq
    BY <1>1, <1>10 DEF DeliverSingle
  <2>2. UNCHANGED <<tail, toClient>>
    BY <1>10 DEF DeliverSingle, serverVars, wireVars
  <2>3. QED
    BY <2>1, <2>2 DEF Coming
<1>11. ASSUME NEW w \in Workers, RecordSerial(w)
       PROVE  Coming(n)' \/ Received(n)'
  <2>1. \A v \in Workers : v # w => worker'[v] = worker[v]
    BY <1>1, <1>11 DEF RecordSerial
  <2>2. UNCHANGED <<tail, toClient>>
    BY <1>11 DEF RecordSerial, serverVars, wireVars
  <2>3. CASE worker[w].seq = n
    <3>1. Received(n)
      <4>1. WorkerDelivers /\ worker[w].pc = "record"
        BY <1>11 DEF IndInv, RecordSerial
      <4>2. worker[w].left = {} /\ \A m \in Members[n] \ worker[w].left : delivered[m] > 0
        BY <2>3, <4>1 DEF WorkerDelivers
      <4>3. QED
        BY <4>2 DEF Received
    <3>2. QED
      BY <1>11, <3>1 DEF RecordSerial, Received, deliverVars
  <2>4. CASE worker[w].seq # n
    BY <2>1, <2>2, <2>4 DEF Coming
  <2>5. QED
    BY <2>3, <2>4
<1>12. CASE BackfillNext
  <2>1. /\ worker' = [worker EXCEPT !["backfill"] = Delivering(fetch.from + 1)]
        /\ worker["backfill"].pc = "idle" /\ UNCHANGED <<tail, toClient>>
    BY <1>12 DEF BackfillNext, serverVars, wireVars
  <2>2. \A w \in Workers : worker[w].pc # "idle" => worker'[w] = worker[w]
    BY <1>1, <2>1
  <2>3. QED
    BY <2>1, <2>2 DEF Coming
<1>13. CASE FetchSends \/ FetchFails \/ Discontinuity \/ BackfillEnds
  BY <1>2, <1>13 DEF FetchSends, FetchFails, Discontinuity, BackfillEnds, serverVars, wireVars
<1>14. QED
  BY <1>3, <1>4, <1>5, <1>6, <1>7, <1>8, <1>9, <1>10, <1>11, <1>12, <1>13 DEF Next

(* What is older than the baseline stays so, until a report makes up for it. *)
LEMMA BeforeBaselineStep ==
    ASSUME IndInv, NEW n \in Serials, BeforeBaseline(n), Next, ~AnswersSub
    PROVE  BeforeBaseline(n)' \/ Renewing' \/ (told' = head /\ head' = head)
<1> USE DeliveryAssumption
<1>1. /\ TypeOK /\ worker \in [Workers -> WorkerRecords] /\ n \in Nat /\ n # 0
      /\ contiguousSerial \in Nat /\ baseline \in Nat
      /\ \A w \in Workers : worker[w].seq \in Nat
  BY LocalTypes DEF IndInv, TypeOK, Serials
<1> DEFINE First == contiguousSerial # 0 /\ n < baseline
           Second == /\ contiguousSerial = 0
                     /\ tail # None => n <= tail
                     /\ NoFetch
                     /\ \A f \in Range(toClient) : f.type = "msg" => n < f.seq
                     /\ \A w \in Workers : worker[w].pc # "idle" => n < worker[w].seq
<1>2. First \/ Second
  BY DEF BeforeBaseline
<1>3. First' \/ Second' => BeforeBaseline(n)'
  BY DEF BeforeBaseline
<1>4. First /\ UNCHANGED cursorVars => First'
  BY DEF cursorVars
<1>5. ASSUME UNCHANGED <<tail, toServer, toClient, worker, fetch, contiguousSerial>>
      PROVE  Second => Second'
  BY <1>5 DEF NoFetch
<1>6. CASE Stores \/ AgesOut \/ Reconnects \/ OnConnectionState
  <2>1. UNCHANGED <<tail, toServer, toClient, worker, fetch, cursorVars>>
    BY <1>6 DEF Stores, AgesOut, Reconnects, OnConnectionState, serverVars, wireVars
  <2>2. UNCHANGED contiguousSerial
    BY <2>1 DEF cursorVars
  <2> HIDE DEF First, Second
  <2>3. QED
    BY <1>2, <1>3, <1>4, <1>5, <2>1, <2>2
<1>7. CASE SendsLive
  <2>1. /\ tail # None /\ tail \in Nat /\ tail' = tail + 1
        /\ UNCHANGED <<toServer, worker, fetch, cursorVars>>
    BY <1>1, <1>7, LocalTypes DEF SendsLive
  <2>2. \/ Range(toClient') = Range(toClient) \cup {[type |-> "msg", seq |-> tail + 1]}
        \/ toClient' = toClient
    BY <1>7, FramesAfter
  <2>3. Second => Second'
    BY <1>1, <2>1, <2>2 DEF NoFetch, cursorVars
  <2> HIDE DEF First, Second
  <2>4. QED
    BY <1>2, <1>3, <1>4, <2>1, <2>3
<1>8. CASE AnswersFetch
  <2>1. Head(toServer) \in Range(toServer) /\ Head(toServer).type = "fetch"
    BY <1>8, FramesAfter
  <2>2. ~Second
    BY <2>1 DEF NoFetch
  <2>3. UNCHANGED cursorVars
    BY <1>8 DEF AnswersFetch
  <2> HIDE DEF First, Second
  <2>4. QED
    BY <1>2, <1>3, <1>4, <2>2, <2>3
<1>9. CASE Drops
  BY <1>9 DEF Drops, Renewing
<1>10. ASSUME NEW g \in Subs, Restores(g) \/ SubFails(g) \/ Attach(g) \/ AttachEnds(g)
       PROVE  BeforeBaseline(n)'
  <2>1. UNCHANGED <<tail, toServer, toClient, worker, fetch, cursorVars>>
    BY <1>10 DEF Restores, SubFails, Attach, AttachEnds, serverVars, wireVars
  <2>2. UNCHANGED contiguousSerial
    BY <2>1 DEF cursorVars
  <2> HIDE DEF First, Second
  <2>3. QED
    BY <1>2, <1>3, <1>4, <1>5, <2>1, <2>2
<1>11. ASSUME NEW g \in Subs, SubSends(g)
       PROVE  BeforeBaseline(n)'
  <2>1. UNCHANGED <<tail, toClient, worker, fetch, cursorVars>>
    BY <1>11 DEF SubSends, serverVars
  <2>2. Range(toServer') = Range(toServer) \cup
              {[type |-> "sub", slot |-> g, from |-> sub[g].from]}
    BY <1>11, FramesAfter
  <2>3. Second => Second'
    BY <2>1, <2>2 DEF NoFetch, cursorVars
  <2> HIDE DEF First, Second
  <2>4. QED
    BY <1>2, <1>3, <1>4, <2>1, <2>3
<1>12. ASSUME NEW g \in Subs, RestoreEnds(g)
       PROVE  BeforeBaseline(n)' \/ (told' = head /\ head' = head)
  <2>1. UNCHANGED <<tail, toServer, toClient, worker, fetch, head>>
    BY <1>12 DEF RestoreEnds, serverVars, wireVars
  <2>2. UNCHANGED <<contiguousSerial, baseline>> \/ told' = head
    BY <1>12 DEF RestoreEnds, OnResumed, Reports, cursorVars
  <2>3. UNCHANGED <<contiguousSerial, baseline>> => (First => First')
    OBVIOUS
  <2> HIDE DEF First, Second
  <2>4. QED
    BY <1>2, <1>3, <1>5, <2>1, <2>2, <2>3
<1>13. CASE ReadsMessage
  <2>1. /\ Head(toClient) \in Range(toClient) /\ Head(toClient).type = "msg"
        /\ Range(toClient) = Range(toClient') \cup {Head(toClient)}
        /\ UNCHANGED <<tail, toServer, fetch, cursorVars>>
        /\ worker' = [worker EXCEPT !["readLoop"] = Delivering(Head(toClient).seq)]
    BY <1>13, FramesAfter DEF ReadsMessage, serverVars
  <2>2. \A w \in Workers : worker'[w] = worker[w] \/ worker'[w].seq = Head(toClient).seq
    BY <1>1, <2>1 DEF Delivering
  <2>3. Second => Second'
    BY <2>1, <2>2 DEF NoFetch, cursorVars
  <2> HIDE DEF First, Second
  <2>4. QED
    BY <1>2, <1>3, <1>4, <2>1, <2>3
<1>14. CASE ReadsAck
  <2>1. /\ Range(toClient) = Range(toClient') \cup {Head(toClient)}
        /\ UNCHANGED <<tail, toServer, fetch, worker, cursorVars>>
    BY <1>14, FramesAfter DEF ReadsAck, serverVars
  <2>2. Second => Second'
    BY <2>1 DEF NoFetch, cursorVars
  <2> HIDE DEF First, Second
  <2>3. QED
    BY <1>2, <1>3, <1>4, <2>1, <2>2
<1>15. CASE ReadsFetchRes
  <2>1. Head(toClient) \in Range(toClient) /\ Head(toClient).type = "fetchRes"
    BY <1>15, FramesAfter DEF ReadsFetchRes
  <2>2. ~Second
    BY <2>1 DEF NoFetch
  <2>3. UNCHANGED cursorVars
    BY <1>15 DEF ReadsFetchRes
  <2> HIDE DEF First, Second
  <2>4. QED
    BY <1>2, <1>3, <1>4, <2>2, <2>3
<1>16. ASSUME NEW w \in Workers, NEW m \in Ids, DeliverSingle(w, m)
       PROVE  BeforeBaseline(n)'
  <2>1. \A v \in Workers : /\ worker'[v].seq = worker[v].seq
                           /\ worker[v].pc = "idle" => worker'[v] = worker[v]
    BY <1>1, <1>16 DEF DeliverSingle
  <2>2. UNCHANGED <<tail, toServer, toClient, fetch, cursorVars>>
    BY <1>16 DEF DeliverSingle, serverVars, wireVars
  <2>3. Second => Second'
    BY <2>1, <2>2 DEF NoFetch, cursorVars
  <2> HIDE DEF First, Second
  <2>4. QED
    BY <1>2, <1>3, <1>4, <2>2, <2>3
<1>17. ASSUME NEW w \in Workers, RecordSerial(w)
       PROVE  BeforeBaseline(n)'
  <2> DEFINE seq == worker[w].seq
  <2>1. seq \in Nat /\ seq # 0 /\ worker[w].pc = "record"
    BY <1>1, <1>17 DEF RecordSerial, IndInv, WorkerDelivers, Serials
  <2>2. First => First'
    BY <1>1, <1>17, <2>1 DEF RecordSerial, cursorVars
  <2>3. Second => First'
    <3>1. SUFFICES ASSUME Second PROVE First'
      OBVIOUS
    <3>2. contiguousSerial = 0 /\ n < seq
      BY <2>1, <3>1
    <3>3. contiguousSerial' = seq /\ baseline' = seq
      BY <1>17, <2>1, <3>2 DEF RecordSerial, Gap
    <3>4. QED
      BY <2>1, <3>2, <3>3
  <2> HIDE DEF First, Second
  <2>4. QED
    BY <1>2, <1>3, <2>2, <2>3
<1>18. CASE FetchSends \/ FetchFails \/ BackfillNext \/ BackfillEnds
  <2>1. ~Second
    BY <1>18 DEF FetchSends, FetchFails, BackfillNext, BackfillEnds, NoFetch
  <2>2. UNCHANGED cursorVars
    BY <1>18 DEF FetchSends, FetchFails, BackfillNext, BackfillEnds
  <2> HIDE DEF First, Second
  <2>3. QED
    BY <1>2, <1>3, <1>4, <2>1, <2>2
<1>19. CASE Discontinuity
  BY <1>19 DEF Discontinuity, OnResumed, Reports, serverVars
<1>20. QED
  BY <1>6, <1>7, <1>8, <1>9, <1>10, <1>11, <1>12, <1>13, <1>14, <1>15, <1>16, <1>17, <1>18,
     <1>19 DEF Next

LEMMA SubscribedStep ==
    ASSUME IndInv, OneFrameEach, InitializedIsFresh, Subscribed, Next
    PROVE  Subscribed'
<1> USE DeliveryAssumption
<1>1. TypeOK /\ worker \in [Workers -> WorkerRecords]
  BY DEF IndInv, TypeOK
<1>2. CASE AnswersSub
  <2>1. Head(toServer).from \in 0 .. MaxSerial
    BY <1>1, <1>2, FramesAfter, FrameTypes
  <2>2. tail' \in Int
    BY <1>1, <1>2, <2>1, LocalTypes DEF AnswersSub
  <2>3. QED
    BY <2>2 DEF Subscribed
<1>3. CASE ~AnswersSub /\ tail # None
  <2>1. CASE Drops
    BY <2>1 DEF Drops, Subscribed, Renewing
  <2>2. CASE SendsLive
    <3>1. tail' \in Int
      BY <1>1, <2>2, LocalTypes DEF SendsLive
    <3>2. QED
      BY <3>1 DEF Subscribed
  <2>3. CASE ~Drops /\ ~SendsLive
    <3>1. tail' = tail
      BY <1>3, <2>3 DEF Next, Stores, AgesOut, AnswersFetch, Reconnects, OnConnectionState,
         Restores, SubSends, SubFails, Attach, AttachEnds, RestoreEnds, ReadsMessage,
         ReadsAck, ReadsFetchRes, DeliverSingle, RecordSerial, FetchSends, FetchFails,
         BackfillNext, Discontinuity, BackfillEnds, serverVars
    <3>2. QED
      BY <1>3, <3>1 DEF Subscribed
  <2>4. QED
    BY <2>1, <2>2, <2>3
<1>4. CASE ~AnswersSub /\ Renewing
  <2>1. CASE Reconnects /\ state = "initialized"
    <3>1. InitializedIsFresh'
      BY InitializedStep
    <3>2. state' = "initialized"
      BY <2>1 DEF Reconnects
    <3>3. QED
      BY <3>1, <3>2 DEF InitializedIsFresh, Subscribed
  <2>2. QED
    BY <1>4, <2>1, RenewingStep DEF Subscribed
<1>5. CASE ~AnswersSub /\ Fresh
  <2>1. ASSUME UNCHANGED <<tail, toServer, toClient, worker, fetch, contiguousSerial>>
        PROVE  Fresh'
    BY <1>5, <2>1 DEF Fresh, NoFetch
  <2>2. CASE Stores \/ AgesOut \/ Reconnects \/ OnConnectionState
    <3>1. Fresh'
      BY <2>1, <2>2 DEF Stores, AgesOut, Reconnects, OnConnectionState, serverVars, wireVars,
                        cursorVars
    <3>2. QED
      BY <3>1 DEF Subscribed
  <2>3. CASE Drops
    BY <2>3 DEF Drops, Subscribed, Renewing
  <2>4. ASSUME NEW g \in Subs, \/ Restores(g) \/ SubFails(g) \/ Attach(g) \/ AttachEnds(g)
        PROVE  Subscribed'
    <3>1. Fresh'
      BY <2>1, <2>4 DEF Restores, SubFails, Attach, AttachEnds, serverVars, wireVars, cursorVars
    <3>2. QED
      BY <3>1 DEF Subscribed
  <2>5. ASSUME NEW g \in Subs, RestoreEnds(g)
        PROVE  Subscribed'
    <3>1. UNCHANGED <<tail, toServer, toClient, worker, fetch>>
      BY <2>5 DEF RestoreEnds, serverVars, wireVars
    <3>2. contiguousSerial' = contiguousSerial
      BY <1>5, <2>5 DEF RestoreEnds, OnResumed, cursorVars, Fresh
    <3>3. QED
      BY <2>1, <3>1, <3>2 DEF Subscribed
  <2>6. ASSUME NEW g \in Subs, SubSends(g)
        PROVE  Subscribed'
    <3>1. UNCHANGED <<tail, toClient, worker, fetch, contiguousSerial>>
      BY <2>6 DEF SubSends, serverVars, cursorVars
    <3>2. Range(toServer') = Range(toServer) \cup
                {[type |-> "sub", slot |-> g, from |-> sub[g].from]}
      BY <2>6, FramesAfter
    <3>3. Fresh'
      BY <1>5, <3>1, <3>2 DEF Fresh, NoFetch
    <3>4. QED
      BY <3>3 DEF Subscribed
  <2>7. CASE ReadsAck
    <3>1. UNCHANGED <<tail, toServer, worker, fetch, contiguousSerial>>
      BY <2>7 DEF ReadsAck, serverVars, cursorVars
    <3>2. Range(toClient') \subseteq Range(toClient)
      BY <2>7, FramesAfter
    <3>3. Fresh'
      BY <1>5, <3>1, <3>2 DEF Fresh, NoFetch
    <3>4. QED
      BY <3>3 DEF Subscribed
  <2>8. CASE AnswersFetch
    BY <1>5, <2>8, FramesAfter DEF Fresh, NoFetch
  <2>9. CASE ReadsMessage \/ ReadsFetchRes
    <3>1. /\ Head(toClient) \in Range(toClient)
          /\ Head(toClient).type = "msg" \/ Head(toClient).type = "fetchRes"
      BY <2>9, FramesAfter DEF ReadsMessage, ReadsFetchRes
    <3>2. QED
      BY <1>5, <3>1 DEF Fresh, NoFetch
  <2>10. CASE SendsLive
    BY <1>5, <2>10 DEF SendsLive, Fresh
  <2>11. ASSUME NEW w \in Workers, RecordSerial(w) \/ \E m \in Ids : DeliverSingle(w, m)
         PROVE  FALSE
    BY <1>5, <2>11 DEF RecordSerial, DeliverSingle, Fresh
  <2>12. ASSUME FetchSends \/ FetchFails \/ BackfillNext \/ Discontinuity \/ BackfillEnds
         PROVE  FALSE
    BY <1>5, <2>12 DEF FetchSends, FetchFails, BackfillNext, Discontinuity, BackfillEnds,
                       Fresh, NoFetch
  <2>13. QED
    BY <1>5, <2>2, <2>3, <2>4, <2>5, <2>6, <2>7, <2>8, <2>9, <2>10, <2>11, <2>12 DEF Next
<1>6. QED
  BY <1>2, <1>3, <1>4, <1>5 DEF Subscribed

(* The answer to a sub: what a granted resume does not replay is at or below *)
(* the cursor, and what a refused one skips was lost or is to be reported.   *)
LEMMA AnswersSubCovers ==
    ASSUME IndInv, ResumeInv, AnswersSub, ~dropped', NEW n \in 1 .. head, told < n
    PROVE  Covered(n)'
<1> USE DeliveryAssumption
<1> DEFINE f == Head(toServer)
           resumed == f.from > 0 /\ Retained(f.from)
<1>1. /\ TypeOK /\ head \in Nat /\ contiguousSerial \in Nat /\ told \in Nat /\ baseline \in Nat
      /\ n \in Nat /\ head \in 0 .. MaxSerial
  BY LocalTypes DEF IndInv, TypeOK
<1>2. PICK a : /\ f \in Range(toServer) /\ f.type = "sub"
               /\ Range(toServer) = Range(toServer') \cup {f}
               /\ Range(toClient') = Range(toClient) \cup {a}
               /\ a = [type |-> "ack", slot |-> f.slot, resumed |-> resumed]
  BY FramesAfter
<1>3. /\ f.from \in Nat /\ Known(f.from)
  BY <1>1, <1>2, FrameTypes DEF ResumeInv, FromKnown
<1>4. /\ UNCHANGED <<head, up, restoring, sub, worker, fetch, contiguousSerial, baseline>>
      /\ delivered' = delivered
  BY DEF AnswersSub, cursorVars, deliverVars
<1>5. CASE resumed
  <2>1. tail' = f.from /\ f.from > 0
    BY <1>5 DEF AnswersSub
  <2>2. CASE f.from < n
    <3>1. tail' # None /\ tail' < n
      BY <1>3, <2>1, <2>2
    <3>2. QED
      BY <3>1 DEF Covered, Coming
  <2>3. CASE n <= f.from
    <3>1. n <= contiguousSerial /\ contiguousSerial # 0
      BY <1>1, <1>3, <2>1, <2>3 DEF Known
    <3>2. CASE n < baseline
      <4>1. contiguousSerial' # 0 /\ n < baseline'
        BY <1>4, <3>1, <3>2
      <4>2. QED
        BY <4>1 DEF Covered, BeforeBaseline
    <3>3. CASE baseline <= n
      <4>1. Received(n)
        BY <1>1, <3>1, <3>3 DEF IndInv, CursorContiguous
      <4>2. QED
        BY <1>4, <4>1 DEF Covered, Received
    <3>4. QED
      BY <1>1, <3>2, <3>3
  <2>4. QED
    BY <1>1, <1>3, <2>2, <2>3
<1>6. CASE ~resumed
  <2>1. tail' = head /\ ~dropped /\ tail \in {None, head}
    BY <1>6 DEF AnswersSub
  <2>2. Covered(n)
    BY <1>1, <2>1 DEF ResumeInv, NothingMissed
  <2>3. CASE Received(n)
    BY <1>4, <2>3 DEF Covered, Received
  <2>4. CASE Coming(n)
    <3>1. ~(tail # None /\ tail < n)
      BY <1>1, <2>1
    <3>2. Coming(n)'
      BY <1>2, <1>4, <2>4, <3>1 DEF Coming
    <3>3. QED
      BY <3>2 DEF Covered
  <2>5. CASE Renewing
    <3>1. CASE sub[f.slot].kind = "restore"
      <4>1. /\ a \in Range(toClient') /\ a.type = "ack" /\ ~a.resumed
            /\ sub'[a.slot].kind = "restore"
        BY <1>2, <1>4, <1>6, <3>1
      <4>2. QED
        BY <4>1 DEF Covered, Reporting
    <3>2. CASE sub[f.slot].kind # "restore"
      <4>1. Renewing'
        BY <1>2, <1>4, <2>5, <3>2 DEF Renewing
      <4>2. QED
        BY <4>1 DEF Covered
    <3>3. QED
      BY <3>1, <3>2
  <2>6. CASE Reporting
    BY <1>2, <1>4, <2>6 DEF Covered, Reporting
  <2>7. CASE BeforeBaseline(n)
    <3>1. BeforeBaseline(n)'
      BY <1>1, <1>2, <1>4, <2>1, <2>7 DEF BeforeBaseline, NoFetch
    <3>2. QED
      BY <3>1 DEF Covered
  <2>8. QED
    BY <2>2, <2>3, <2>4, <2>5, <2>6, <2>7 DEF Covered
<1>7. QED
  BY <1>5, <1>6

LEMMA NothingMissedStep ==
    ASSUME IndInv, ResumeInv, Next
    PROVE  NothingMissed'
<1> USE DeliveryAssumption
<1> SUFFICES ASSUME ~dropped', NEW n \in 1 .. head', told' < n
             PROVE  Covered(n)'
  <2>1. told' \in Nat
    BY IndStep DEF IndInv, TypeOK
  <2>2. QED
    BY <2>1 DEF NothingMissed
<1>1. /\ TypeOK /\ head \in Nat /\ told \in Nat /\ n \in Nat
      /\ Bounded /\ OneFrameEach /\ InitializedIsFresh /\ Subscribed /\ NothingMissed
  BY LocalTypes DEF IndInv, ResumeInv
<1>2. head' = head \/ (Stores /\ head' = head + 1)
  BY DEF Next, Stores, AgesOut, SendsLive, AnswersSub, AnswersFetch, Drops, Reconnects,
     OnConnectionState, Restores, SubSends, SubFails, Attach, AttachEnds, RestoreEnds,
     ReadsMessage, ReadsAck, ReadsFetchRes, DeliverSingle, RecordSerial, FetchSends,
     FetchFails, BackfillNext, Discontinuity, BackfillEnds, serverVars
<1>3. n \in Serials
  <2>1. head' \in 0 .. MaxSerial
    BY IndStep DEF IndInv, TypeOK
  <2>2. QED
    BY <2>1 DEF Serials
<1>4. CASE n = head + 1
  <2>1. Stores /\ head' = head + 1
    BY <1>1, <1>2, <1>4
  <2>2. UNCHANGED <<tail, up, restoring, sub, toServer, toClient, worker, fetch,
                    contiguousSerial>>
    BY <2>1 DEF Stores, wireVars, cursorVars
  <2>3. CASE tail # None
    <3>1. tail' # None /\ tail' < n
      BY <1>1, <1>4, <2>2, <2>3, LocalTypes DEF Bounded
    <3>2. QED
      BY <3>1 DEF Covered, Coming
  <2>4. CASE Renewing
    <3>1. Renewing'
      BY <2>2, <2>4 DEF Renewing
    <3>2. QED
      BY <3>1 DEF Covered
  <2>5. CASE Fresh
    BY <2>2, <2>5 DEF Covered, BeforeBaseline, Fresh, NoFetch
  <2>6. QED
    BY <1>1, <2>3, <2>4, <2>5 DEF Subscribed
<1>5. CASE n \in 1 .. head
  <2>1. told < n /\ (told' = head => FALSE)
    BY <1>1, <1>5, CursorStep
  <2>2. CASE AnswersSub
    BY <1>5, <2>1, <2>2, AnswersSubCovers
  <2>3. CASE ~AnswersSub
    <3>1. ~dropped
      BY <2>3 DEF Next, Stores, AgesOut, SendsLive, AnswersFetch, Drops, Reconnects,
         OnConnectionState, Restores, SubSends, SubFails, Attach, AttachEnds, RestoreEnds,
         ReadsMessage, ReadsAck, ReadsFetchRes, DeliverSingle, RecordSerial, FetchSends,
         FetchFails, BackfillNext, Discontinuity, BackfillEnds, serverVars
    <3>2. Covered(n)
      BY <1>1, <1>5, <2>1, <3>1 DEF NothingMissed
    <3>3. CASE Received(n)
      BY <1>3, <3>3, ReceivedStays DEF Covered
    <3>4. CASE Coming(n)
      BY <1>3, <2>3, <3>4, ComingStep DEF Covered
    <3>5. CASE Renewing
      <4>1. CASE Reconnects /\ state = "initialized"
        <5>1. Fresh'
          <6>1. InitializedIsFresh' /\ state' = "initialized"
            BY <1>1, <4>1, InitializedStep DEF Reconnects
          <6>2. QED
            BY <6>1 DEF InitializedIsFresh
        <5>2. QED
          BY <5>1 DEF Covered, BeforeBaseline, Fresh
      <4>2. QED
        BY <1>1, <2>3, <3>5, <4>1, RenewingStep DEF Covered
    <3>6. CASE Reporting
      BY <1>1, <2>1, <3>6, ReportingStep DEF Covered
    <3>7. CASE BeforeBaseline(n)
      BY <1>3, <2>1, <2>3, <3>7, BeforeBaselineStep DEF Covered
    <3>8. QED
      BY <3>2, <3>3, <3>4, <3>5, <3>6, <3>7 DEF Covered
  <2>4. QED
    BY <2>2, <2>3
<1>6. QED
  BY <1>1, <1>2, <1>4, <1>5

LEMMA ResumeInit == Init => ResumeInv
<1> SUFFICES ASSUME Init PROVE ResumeInv
  OBVIOUS
<1> USE DeliveryAssumption
<1>1. /\ Range(toServer) = {} /\ Range(toClient) = {}
      /\ SlotsDistinct(toServer, "sub") /\ SlotsDistinct(toClient, "ack")
  BY NoFrames DEF Init, SlotsDistinct
<1>2. Bounded /\ FromKnown
  BY <1>1 DEF Init, Bounded, FromKnown, IdleFetch, IdleWorker, IdleSub
<1>3. OneFrameEach
  BY <1>1 DEF OneFrameEach
<1>4. Fresh
  BY <1>1 DEF Init, Fresh, NoFetch, IdleFetch, IdleWorker
<1>5. InitializedIsFresh
  BY <1>4 DEF Init, InitializedIsFresh, IdleSub
<1>6. Subscribed /\ NothingMissed
  BY <1>4 DEF Init, Subscribed, NothingMissed
<1>7. QED
  BY <1>2, <1>3, <1>5, <1>6 DEF ResumeInv

LEMMA ResumeStep == IndInv /\ ResumeInv /\ [Next]_vars => ResumeInv'
<1> SUFFICES ASSUME IndInv, ResumeInv, [Next]_vars PROVE ResumeInv'
  OBVIOUS
<1>1. CASE Next
  BY <1>1, BoundedStep, FromKnownStep, OneFrameStep, InitializedStep, SubscribedStep,
     NothingMissedStep DEF ResumeInv
<1>2. CASE UNCHANGED vars
  <2> USE <1>2 DEF vars, serverVars, wireVars, cursorVars, deliverVars
  <2>1. Bounded' /\ FromKnown' /\ OneFrameEach' /\ InitializedIsFresh'
    BY DEF ResumeInv, Bounded, FromKnown, Known, OneFrameEach, SlotsDistinct,
           InitializedIsFresh, Fresh, NoFetch
  <2>2. Renewing' = Renewing /\ Reporting' = Reporting /\ Fresh' = Fresh
    BY DEF Renewing, Reporting, Fresh, NoFetch
  <2>3. \A n : Covered(n)' = Covered(n)
    BY DEF Covered, Received, Coming, Renewing, Reporting, BeforeBaseline, NoFetch
  <2>4. Subscribed' /\ NothingMissed'
    BY <2>2, <2>3 DEF ResumeInv, Subscribed, NothingMissed
  <2>5. QED
    BY <2>1, <2>4 DEF ResumeInv
<1>3. QED
  BY <1>1, <1>2

(* The resume is complete (channel.go:211-212, 788-790): once all is quiet  *)
(* on a subscription that has lost nothing, no record since the baseline is *)
(* missing but those the listeners were told to recover themselves,         *)
(* whatever drops, replays, fetches and resets came before.                 *)
THEOREM ResumeCompletes == Spec => []ResumeIsComplete
<1>1. Spec => [](IndInv /\ ResumeInv)
  BY IndInit, IndStep, ResumeInit, ResumeStep, PTL DEF Spec
<1>2. IndInv /\ ResumeInv => ResumeIsComplete
  <2> SUFFICES ASSUME IndInv, ResumeInv, Quiet, ~dropped, contiguousSerial # 0,
                      NEW n \in baseline .. head, ~(n <= told)
               PROVE  Received(n)
    BY DEF ResumeIsComplete
  <2> USE DeliveryAssumption
  <2>1. /\ TypeOK /\ head \in Nat /\ contiguousSerial \in Nat /\ baseline \in Nat
        /\ told \in Nat /\ n \in Nat
    BY LocalTypes DEF IndInv
  <2>2. Range(toServer) = {} /\ Range(toClient) = {}
    BY NoFrames DEF Quiet
  <2>3. Covered(n)
    BY <2>1 DEF ResumeInv, NothingMissed
  <2>4. ~Coming(n)
    BY <2>1, <2>2 DEF Coming, Quiet
  <2>5. ~Renewing /\ ~Reporting
    BY <2>2 DEF Renewing, Reporting, Quiet
  <2>6. ~BeforeBaseline(n)
    BY <2>1 DEF BeforeBaseline
  <2>7. QED
    BY <2>3, <2>4, <2>5, <2>6 DEF Covered
<1>3. QED
  BY <1>1, <1>2, PTL
=============================================================================
