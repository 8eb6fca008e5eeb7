---------------------------- MODULE RequestsProofs ----------------------------
(***************************************************************************)
(* What holds of module Requests for every set of calls and sockets.       *)
(***************************************************************************)
EXTENDS Requests, TLAPS

CallRecords == [pc : {"idle", "connect", "lock", "write", "wait", "drop", "returned"},
                id : Nat, ws : Sockets \cup {None}]
Links == {"unused", "open", "lost", "shut"}
States == {"disconnected", "connecting", "connected", "closing", "closed"}

-----------------------------------------------------------------------------
(* Types. *)

LEMMA FailPendingType ==
    ASSUME TypeOK, FailPending
    PROVE  pending' \subseteq Entry /\ outcome' \in [Requests -> Outcomes \cup {"none"}]
BY DEF TypeOK, FailPending, Outcomes

LEMMA SocketClosedType ==
    ASSUME TypeOK, NEW s, SocketClosed(s)
    PROVE  /\ state' \in States /\ socket' \in Sockets \cup {None}
           /\ pending' \subseteq Entry /\ outcome' \in [Requests -> Outcomes \cup {"none"}]
<1>1. CASE socket # s /\ UNCHANGED <<state, socket, pending, outcome>>
  BY <1>1 DEF TypeOK, States
<1>2. CASE /\ socket = s
           /\ socket' = None
           /\ state' = IF state \in ClosedStates THEN "closed" ELSE "disconnected"
           /\ FailPending
  BY <1>2, FailPendingType DEF States
<1>3. QED
  BY <1>1, <1>2 DEF SocketClosed

LEMMA ShutType ==
    ASSUME TypeOK, NEW s \in Sockets \cup {None}, Shut(s)
    PROVE  link' \in [Sockets -> Links]
BY DEF TypeOK, Shut, Links

LEMMA ConnType ==
    ASSUME TypeOK, ConnNext
    PROVE  TypeOK'
<1>1. ASSUME NEW s \in Sockets, Dial(s) PROVE TypeOK'
  BY <1>1 DEF TypeOK, Dial, callVars
<1>2. ASSUME NEW s \in Sockets, Loses(s) PROVE TypeOK'
  BY <1>2 DEF TypeOK, Loses, callVars, wireVars
<1>3. ASSUME NEW s \in Sockets, ReadLoopEnds(s) PROVE TypeOK'
  BY <1>3, SocketClosedType DEF TypeOK, ReadLoopEnds, States
<1>4. ASSUME NEW s \in Sockets, DeadlineFires(s) PROVE TypeOK'
  BY <1>4, ShutType DEF TypeOK, DeadlineFires, callVars, wireVars, Links
<1>5. ASSUME NEW s \in Sockets, DeadlineTears(s) PROVE TypeOK'
  BY <1>5, SocketClosedType DEF TypeOK, DeadlineTears, wireVars, States
<1>6. CASE Connected
  BY <1>6 DEF TypeOK, Connected, callVars, wireVars
<1>7. CASE HandshakeEnds
  <2>1. /\ state' \in States /\ socket' \in Sockets \cup {None}
        /\ pending' \subseteq Entry /\ outcome' \in [Requests -> Outcomes \cup {"none"}]
    BY <1>7, SocketClosedType DEF TypeOK, HandshakeEnds, States
  <2>2. link' \in [Sockets -> Links]
    BY <1>7, ShutType DEF TypeOK, HandshakeEnds
  <2>3. QED
    BY <1>7, <2>1, <2>2 DEF TypeOK, HandshakeEnds, States, Links
<1>8. CASE CloseBegins
  BY <1>8 DEF TypeOK, CloseBegins, callVars, wireVars
<1>9. CASE CloseSocket
  <2>1. link' \in [Sockets -> Links]
    BY <1>9, ShutType DEF TypeOK, CloseSocket
  <2>2. QED
    BY <1>9, <2>1 DEF TypeOK, CloseSocket, callVars, wireVars, Links
<1>10. CASE CloseEnds
  BY <1>10, FailPendingType DEF TypeOK, CloseEnds, wireVars
<1>11. QED
  BY <1>1, <1>2, <1>3, <1>4, <1>5, <1>6, <1>7, <1>8, <1>9, <1>10 DEF ConnNext

(* The record a call becomes, for each way in which an action changes it. *)
LEMMA CallRecordTypes ==
    ASSUME TypeOK, NEW r \in Requests
    PROVE  /\ \A pc \in {"connect", "lock", "wait", "drop"} :
                 Pc(r, pc) => request' \in [Requests -> CallRecords]
           /\ Returns(r) => request' \in [Requests -> CallRecords]
<1>1. request \in [Requests -> CallRecords]
  BY DEF TypeOK, CallRecords
<1>2. ASSUME NEW pc \in {"connect", "lock", "wait", "drop"}, Pc(r, pc)
      PROVE  request' \in [Requests -> CallRecords]
  <2>1. request' = [request EXCEPT ![r] = [request[r] EXCEPT !.pc = pc]]
    BY <1>2 DEF Pc
  <2>2. request[r] \in CallRecords
    BY <1>1
  <2>3. [request[r] EXCEPT !.pc = pc] \in CallRecords
    BY <2>2 DEF CallRecords
  <2>4. QED
    BY <1>1, <2>1, <2>3
<1>3. ASSUME Returns(r) PROVE request' \in [Requests -> CallRecords]
  BY <1>1, <1>3 DEF Returns, CallRecords
<1>4. QED
  BY <1>2, <1>3

LEMMA CallType ==
    ASSUME TypeOK, NEW r \in Requests, CallNext(r)
    PROVE  TypeOK'
<1>1. CASE \/ Call(r) \/ ConnectReturns(r) \/ WriteFails(r)
           \/ ContextEnds(r) \/ Dropped(r) \/ Receives(r)
  <2>1. request' \in [Requests -> CallRecords]
    BY <1>1, CallRecordTypes
    DEF Call, ConnectReturns, WriteFails, ContextEnds, Dropped, Receives
  <2>2. pending' \subseteq pending
    BY <1>1 DEF Call, ConnectReturns, WriteFails, ContextEnds, Dropped, Receives
  <2>3. UNCHANGED <<connVars, nextID, outcome, delivering, wireVars>>
    BY <1>1 DEF Call, ConnectReturns, WriteFails, ContextEnds, Dropped, Receives
  <2>4. QED
    BY <2>1, <2>2, <2>3 DEF TypeOK, connVars, wireVars, CallRecords
<1>2. CASE Register(r)
  <2>1. [kind |-> KindOf[r], id |-> nextID + 1, r |-> r] \in Entry
    BY RequestsAssumption DEF TypeOK, Entry
  <2>2. QED
    BY <1>2, <2>1 DEF TypeOK, Register, connVars, wireVars
<1>3. CASE Write(r)
  <2>1. request' \in [Requests -> CallRecords]
    BY <1>3, CallRecordTypes DEF Write
  <2>2. toServer' \subseteq [ws : Sockets, id : Nat, r : Requests]
    BY <1>3 DEF TypeOK, Write
  <2>3. QED
    BY <1>3, <2>1, <2>2 DEF TypeOK, Write, connVars, CallRecords
<1>4. QED
  BY <1>1, <1>2, <1>3 DEF CallNext

LEMMA WireType ==
    ASSUME TypeOK, WireNext
    PROVE  TypeOK'
<1>1. ASSUME NEW f \in toServer, ServerAnswers(f) PROVE TypeOK'
  <2>1. f \in [ws : Sockets, id : Nat, r : Requests]
    BY DEF TypeOK
  <2>2. \A x \in {KindOf[f.r], "error"} :
            [ws |-> f.ws, id |-> f.id, r |-> f.r, frame |-> x]
              \in [ws : Sockets, id : Nat, r : Requests, frame : Kinds \cup {"error"}]
    BY <2>1, RequestsAssumption
  <2>3. /\ toServer' \subseteq toServer
        /\ toClient' \subseteq [ws : Sockets, id : Nat, r : Requests,
                                frame : Kinds \cup {"error"}]
    BY <1>1, <2>2 DEF TypeOK, ServerAnswers
  <2>4. QED
    BY <1>1, <2>3 DEF TypeOK, ServerAnswers, connVars, callVars
<1>2. ASSUME NEW f \in toClient, HandleFrame(f) PROVE TypeOK'
  <2>1. f.ws \in Sockets /\ Outcome(f) \in Outcomes
    BY DEF TypeOK, Outcome, Outcomes
  <2>2. \A e \in pending : e.r \in Requests
    BY DEF TypeOK, Entry
  <2>3. /\ pending' \subseteq Entry
        /\ delivering' \subseteq [ws : Sockets, r : Requests, res : Outcomes]
    BY <1>2, <2>1, <2>2 DEF TypeOK, HandleFrame
  <2>4. QED
    BY <1>2, <2>3 DEF TypeOK, HandleFrame, connVars
<1>3. ASSUME NEW d \in delivering, Deliver(d) PROVE TypeOK'
  <2>1. d.res \in Outcomes
    BY DEF TypeOK
  <2>2. outcome' \in [Requests -> Outcomes \cup {"none"}]
    BY <1>3, <2>1 DEF TypeOK, Deliver
  <2>3. QED
    BY <1>3, <2>2 DEF TypeOK, Deliver, connVars, wireVars
<1>4. QED
  BY <1>1, <1>2, <1>3 DEF WireNext

LEMMA TypeStep == TypeOK /\ [Next]_vars => TypeOK'
<1>1. ASSUME TypeOK, UNCHANGED vars PROVE TypeOK'
  BY <1>1 DEF TypeOK, vars, connVars, callVars, wireVars
<1>2. QED
  BY <1>1, ConnType, CallType, WireType DEF Next

LEMMA TypeInit == Init => TypeOK
BY DEF Init, TypeOK

(* The requests and the connection they meet keep their types.             *)
THEOREM TypeCorrect == Spec => []TypeOK
BY TypeInit, TypeStep, PTL DEF Spec

-----------------------------------------------------------------------------
(* One outcome, and answers that fit: the ids of the calls are distinct    *)
(* and what carries an id carries that of its call.                        *)

Early == {"idle", "connect", "lock"}

IdsAssigned ==
    \A r \in Requests : /\ request[r].id <= nextID
                        /\ request[r].pc \in Early => request[r].id = 0
                        /\ request[r].pc = "write" => request[r].id # 0
IdsDistinct ==
    \A q, r \in Requests : request[q].id = request[r].id /\ request[r].id # 0 => q = r
EntriesCarryIds ==
    \A e \in pending : e.id = request[e.r].id /\ e.id # 0
FramesCarryIds ==
    /\ \A f \in toServer : f.id = request[f.r].id /\ f.id # 0
    /\ \A f \in toClient : f.id = request[f.r].id /\ f.id # 0
NothingUnregistered ==
    \A r \in Requests : request[r].id = 0 =>
        outcome[r] = "none" /\ \A d \in delivering : d.r # r

CallInv ==
    /\ IdsAssigned /\ IdsDistinct /\ EntriesCarryIds
    /\ FramesCarryIds /\ NothingUnregistered /\ OneOutcome

(* What a step that assigns no id does not disturb.                        *)
KeepsIds ==
    /\ \A r \in Requests : /\ request'[r].id = request[r].id
                           /\ request'[r].pc \in Early => request[r].pc \in Early
                           /\ request'[r].pc = "write" => request[r].pc = "write"
    /\ nextID' = nextID
    /\ \A f \in toServer' : f \in toServer \/ (f.id = request[f.r].id /\ f.id # 0)
    /\ \A f \in toClient' : f \in toClient \/ (f.id = request[f.r].id /\ f.id # 0)

LEMMA FramesTyped ==
    ASSUME TypeOK
    PROVE  /\ \A f \in toServer : f.r \in Requests
           /\ \A f \in toClient : f.r \in Requests
           /\ \A e \in pending : e.r \in Requests
           /\ \A d \in delivering : d.r \in Requests
BY DEF TypeOK, Entry

LEMMA IdsKept ==
    ASSUME TypeOK, TypeOK', CallInv, KeepsIds
    PROVE  IdsAssigned' /\ IdsDistinct' /\ FramesCarryIds'
<1>1. IdsAssigned' /\ IdsDistinct'
  BY DEF CallInv, KeepsIds, IdsAssigned, IdsDistinct
<1>2. \A f \in toServer' : f.r \in Requests /\ f.id = request'[f.r].id /\ f.id # 0
  <2>1. \A f \in toServer' : f.r \in Requests
    BY DEF TypeOK
  <2>2. QED
    BY <2>1 DEF CallInv, KeepsIds, FramesCarryIds
<1>3. \A f \in toClient' : f.r \in Requests /\ f.id = request'[f.r].id /\ f.id # 0
  <2>1. \A f \in toClient' : f.r \in Requests
    BY DEF TypeOK
  <2>2. QED
    BY <2>1 DEF CallInv, KeepsIds, FramesCarryIds
<1>4. QED
  BY <1>1, <1>2, <1>3 DEF FramesCarryIds

(* Entries may go; outcomes stay as they are.                              *)
LEMMA EntriesDropped ==
    ASSUME TypeOK, TypeOK', CallInv, KeepsIds,
           pending' \subseteq pending, UNCHANGED <<outcome, delivering>>
    PROVE  CallInv'
<1>1. EntriesCarryIds'
  BY FramesTyped DEF CallInv, KeepsIds, EntriesCarryIds
<1>2. NothingUnregistered' /\ OneOutcome'
  BY DEF CallInv, KeepsIds, NothingUnregistered, OneOutcome
<1>3. QED
  BY IdsKept, <1>1, <1>2 DEF CallInv

(* failPendingLocked: what had an entry has an outcome instead.            *)
LEMMA EntriesFailed ==
    ASSUME TypeOK, TypeOK', CallInv, KeepsIds, FailPending, UNCHANGED delivering
    PROVE  CallInv'
<1>1. EntriesCarryIds'
  BY DEF FailPending, EntriesCarryIds
<1>2. NothingUnregistered'
  BY DEF CallInv, KeepsIds, FailPending, NothingUnregistered, EntriesCarryIds
<1>3. OneOutcome'
  <2>1. \A d \in delivering : outcome'[d.r] = "none"
    BY FramesTyped DEF CallInv, FailPending, OneOutcome
  <2>2. QED
    BY <2>1 DEF CallInv, FailPending, OneOutcome
<1>4. QED
  BY IdsKept, <1>1, <1>2, <1>3 DEF CallInv

LEMMA SocketClosedCalls ==
    ASSUME TypeOK, TypeOK', CallInv, KeepsIds, UNCHANGED delivering,
           NEW s, SocketClosed(s)
    PROVE  CallInv'
BY EntriesDropped, EntriesFailed DEF SocketClosed

LEMMA ConnCalls ==
    ASSUME TypeOK, TypeOK', CallInv, ConnNext
    PROVE  CallInv'
<1>1. KeepsIds
  <2>1. UNCHANGED <<request, nextID>> /\ toServer' \subseteq toServer
        /\ toClient' \subseteq toClient
    BY DEF ConnNext, Dial, Loses, ReadLoopEnds, DeadlineFires, DeadlineTears, Connected,
           HandshakeEnds, CloseBegins, CloseSocket, CloseEnds, callVars, wireVars
  <2>2. QED
    BY <2>1 DEF KeepsIds
<1>2. CASE \/ \E s \in Sockets : Dial(s) \/ Loses(s) \/ DeadlineFires(s)
           \/ Connected \/ CloseBegins \/ CloseSocket
  BY <1>1, <1>2, EntriesDropped
  DEF Dial, Loses, DeadlineFires, Connected, CloseBegins, CloseSocket, callVars
<1>3. ASSUME NEW s \in Sockets, ReadLoopEnds(s) \/ DeadlineTears(s) PROVE CallInv'
  BY <1>1, <1>3, SocketClosedCalls DEF ReadLoopEnds, DeadlineTears
<1>4. CASE HandshakeEnds
  BY <1>1, <1>4, SocketClosedCalls, EntriesDropped DEF HandshakeEnds
<1>5. CASE CloseEnds
  BY <1>1, <1>5, EntriesFailed DEF CloseEnds
<1>6. QED
  BY <1>2, <1>3, <1>4, <1>5 DEF ConnNext

LEMMA RegisterCalls ==
    ASSUME TypeOK, TypeOK', CallInv, NEW r \in Requests, Register(r)
    PROVE  CallInv'
<1> DEFINE id == nextID + 1
           new == [kind |-> KindOf[r], id |-> id, r |-> r]
<1>1. /\ request[r].id = 0 /\ request'[r].id = id /\ request'[r].pc = "write"
      /\ \A q \in Requests \ {r} : request'[q] = request[q]
      /\ nextID' = id /\ id \in Nat /\ id > nextID /\ id # 0
  BY DEF TypeOK, Register, CallInv, IdsAssigned, Early
<1>2. \A q \in Requests : request[q].id \in Nat /\ request[q].id <= nextID
  BY DEF TypeOK, CallInv, IdsAssigned
<1>3. IdsAssigned' /\ IdsDistinct'
  <2>1. \A q \in Requests \ {r} : request'[q].id <= nextID'
    BY <1>1, <1>2 DEF TypeOK
  <2>2. IdsAssigned'
    BY <1>1, <2>1 DEF CallInv, IdsAssigned, Early
  <2>3. \A q \in Requests \ {r} : request'[q].id # request'[r].id
    BY <1>1, <1>2 DEF TypeOK
  <2>4. IdsDistinct'
    BY <1>1, <2>3 DEF CallInv, IdsDistinct
  <2>5. QED
    BY <2>2, <2>4
<1>4. /\ \A e \in pending : e.r # r
      /\ \A f \in toServer : f.r # r
      /\ \A f \in toClient : f.r # r
  BY <1>1 DEF CallInv, EntriesCarryIds, FramesCarryIds
<1>5. EntriesCarryIds' /\ FramesCarryIds'
  BY <1>1, <1>4, FramesTyped
  DEF Register, CallInv, EntriesCarryIds, FramesCarryIds, wireVars
<1>6. outcome[r] = "none" /\ \A d \in delivering : d.r # r
  BY <1>1 DEF CallInv, NothingUnregistered
<1>7. NothingUnregistered'
  BY <1>1 DEF Register, CallInv, NothingUnregistered
<1>8. OneOutcome'
  <2>1. pending' = pending \cup {new} /\ UNCHANGED <<outcome, delivering>> /\ new.r = r
    BY DEF Register
  <2>2. QED
    BY <1>4, <1>6, <2>1 DEF CallInv, OneOutcome
<1>9. QED
  BY <1>3, <1>5, <1>7, <1>8 DEF CallInv

LEMMA CallCalls ==
    ASSUME TypeOK, TypeOK', CallInv, NEW r \in Requests, CallNext(r)
    PROVE  CallInv'
<1>1. CASE \/ Call(r) \/ ConnectReturns(r) \/ WriteFails(r)
           \/ ContextEnds(r) \/ Dropped(r) \/ Receives(r)
  <2>1. \A q \in Requests : /\ request'[q].id = request[q].id
                            /\ request'[q].pc \in Early => request[q].pc \in Early
                            /\ request'[q].pc = "write" => request[q].pc = "write"
    BY <1>1 DEF TypeOK, Call, ConnectReturns, WriteFails, ContextEnds, Dropped, Receives,
                Pc, Returns, Early
  <2>2. /\ pending' \subseteq pending
        /\ UNCHANGED <<nextID, outcome, delivering, toServer, toClient>>
    BY <1>1 DEF Call, ConnectReturns, WriteFails, ContextEnds, Dropped, Receives, wireVars
  <2>3. QED
    BY <2>1, <2>2, EntriesDropped DEF KeepsIds
<1>2. CASE Register(r)
  BY <1>2, RegisterCalls
<1>3. CASE Write(r)
  <2>1. request[r].id # 0 /\ request[r].pc = "write"
    BY <1>3 DEF Write, CallInv, IdsAssigned
  <2>2. \A q \in Requests : /\ request'[q].id = request[q].id
                            /\ request'[q].pc \in Early => request[q].pc \in Early
                            /\ request'[q].pc = "write" => request[q].pc = "write"
    BY <1>3 DEF TypeOK, Write, Pc, Early
  <2>3. \A f \in toServer' : f \in toServer \/ (f.id = request[f.r].id /\ f.id # 0)
    BY <1>3, <2>1 DEF Write
  <2>4. KeepsIds
    BY <1>3, <2>2, <2>3 DEF KeepsIds, Write
  <2>5. QED
    BY <1>3, <2>4, EntriesDropped DEF Write
<1>4. QED
  BY <1>1, <1>2, <1>3 DEF CallNext

LEMMA WireCalls ==
    ASSUME TypeOK, TypeOK', CallInv, WireNext
    PROVE  CallInv'
<1>1. ASSUME NEW f \in toServer, ServerAnswers(f) PROVE CallInv'
  <2>1. f.id = request[f.r].id /\ f.id # 0
    BY DEF CallInv, FramesCarryIds
  <2>2. \A g \in toClient' : g \in toClient \/ (g.id = request[g.r].id /\ g.id # 0)
    BY <1>1, <2>1 DEF ServerAnswers
  <2>3. KeepsIds
    BY <1>1, <2>2 DEF KeepsIds, ServerAnswers, callVars
  <2>4. QED
    BY <1>1, <2>3, EntriesDropped DEF ServerAnswers, callVars
<1>2. ASSUME NEW f \in toClient, HandleFrame(f) PROVE CallInv'
  <2>1. KeepsIds
    BY <1>2 DEF KeepsIds, HandleFrame
  <2>2. CASE UNCHANGED <<pending, delivering>>
    BY <1>2, <2>1, <2>2, EntriesDropped DEF HandleFrame
  <2>3. ASSUME NEW e \in pending,
               pending' = pending \ {e},
               delivering' = delivering \cup {[ws |-> f.ws, r |-> e.r, res |-> Outcome(f)]}
        PROVE  CallInv'
    <3>1. UNCHANGED <<request, outcome>>
      BY <1>2 DEF HandleFrame
    <3>2. e.r \in Requests /\ request[e.r].id # 0 /\ outcome[e.r] = "none"
          /\ \A d \in delivering : d.r # e.r
      BY FramesTyped DEF CallInv, EntriesCarryIds, OneOutcome
    <3>3. \A g \in pending' : g.r # e.r
      BY <2>3 DEF CallInv, OneOutcome
    <3>4. \A d \in delivering' : d \in delivering \/ d.r = e.r
      BY <2>3
    <3>5. EntriesCarryIds' /\ NothingUnregistered'
      BY <2>3, <3>1, <3>2, <3>4 DEF CallInv, EntriesCarryIds, NothingUnregistered
    <3>6. \A d, g \in delivering' : d.r = g.r => d = g
      BY <2>3, <3>2 DEF CallInv, OneOutcome
    <3>7. OneOutcome'
      BY <2>3, <3>1, <3>2, <3>3, <3>4, <3>6 DEF CallInv, OneOutcome
    <3>8. QED
      BY <2>1, <3>5, <3>7, IdsKept DEF CallInv
  <2>4. QED
    BY <1>2, <2>2, <2>3 DEF HandleFrame
<1>3. ASSUME NEW d \in delivering, Deliver(d) PROVE CallInv'
  <2>1. KeepsIds
    BY <1>3 DEF KeepsIds, Deliver, wireVars
  <2>2. /\ d.r \in Requests /\ request[d.r].id # 0
        /\ \A e \in pending : e.r # d.r
        /\ \A g \in delivering' : g \in delivering /\ g.r # d.r
    BY <1>3, FramesTyped DEF Deliver, CallInv, NothingUnregistered, OneOutcome
  <2>3. /\ UNCHANGED <<pending, request>>
        /\ \A r \in Requests \ {d.r} : outcome'[r] = outcome[r]
    BY <1>3 DEF Deliver, TypeOK
  <2>4. EntriesCarryIds' /\ NothingUnregistered'
    BY <2>2, <2>3 DEF CallInv, EntriesCarryIds, NothingUnregistered
  <2>5. OneOutcome'
    BY <2>2, <2>3, FramesTyped DEF CallInv, OneOutcome
  <2>6. QED
    BY <2>1, <2>4, <2>5, IdsKept DEF CallInv
<1>4. QED
  BY <1>1, <1>2, <1>3 DEF WireNext

LEMMA CallStep == TypeOK /\ CallInv /\ [Next]_vars => CallInv'
<1>1. ASSUME TypeOK, CallInv, UNCHANGED vars PROVE CallInv'
  BY <1>1 DEF vars, callVars, wireVars, CallInv, IdsAssigned, IdsDistinct, EntriesCarryIds,
              FramesCarryIds, NothingUnregistered, OneOutcome
<1>2. QED
  BY <1>1, TypeStep, ConnCalls, CallCalls, WireCalls DEF Next

LEMMA CallInit == Init => CallInv
BY DEF Init, CallInv, IdsAssigned, IdsDistinct, EntriesCarryIds, FramesCarryIds,
       NothingUnregistered, OneOutcome, Early

LEMMA CallInvHolds == Spec => [](TypeOK /\ CallInv)
BY TypeInit, TypeStep, CallInit, CallStep, PTL DEF Spec

(* The channel of a call receives one outcome at most: nobody who sends    *)
(* on it blocks.                                                           *)
THEOREM AlwaysOneOutcome == Spec => []OneOutcome
BY CallInvHolds, PTL DEF CallInv

LEMMA IdsFit == TypeOK /\ CallInv => AnswersFit
BY FramesTyped DEF CallInv, IdsDistinct, EntriesCarryIds, FramesCarryIds, AnswersFit, Fits

(* No call is given the answer to another one.                             *)
THEOREM AnswersAlwaysFit == Spec => []AnswersFit
BY CallInvHolds, IdsFit, PTL

-----------------------------------------------------------------------------
(* Waiting calls are served: what the state of the connection says about   *)
(* c.socket, and what a call may count on.                                 *)

AttemptInstalled ==
    attempt # None => /\ attempt = socket /\ attempt \notin readLoop \cup dying
                      /\ state \in {"connecting"} \cup ClosedStates
SocketFollowsState ==
    /\ state = "disconnected" => socket = None
    /\ state = "connecting" => attempt # None
    /\ state = "connected" => attempt = None /\ socket \in readLoop \cup dying
ClosedByCloser ==
    /\ closer = "idle" => state \notin ClosedStates
    /\ closer \in {"begun", "shut"} => state \in ClosedStates
    /\ closer = "returned" => state # "closing"
ClosedIsShut ==
    (closer = "shut" \/ (closer = "returned" /\ state = "closed")) /\ socket # None
        => link[socket] = "shut"
LinkInv == AttemptInstalled /\ SocketFollowsState /\ ClosedByCloser /\ ClosedIsShut

LEMMA LinkStep ==
    ASSUME TypeOK, LinkInv, [Next]_vars
    PROVE  LinkInv'
<1> USE RequestsAssumption
<1> USE DEF LinkInv, AttemptInstalled, SocketFollowsState, ClosedByCloser, ClosedIsShut,
            ClosedStates
<1>1. CASE UNCHANGED connVars
  BY <1>1 DEF connVars
<1>2. ASSUME NEW s \in Sockets, Dial(s) PROVE LinkInv'
  BY <1>2 DEF TypeOK, Dial
<1>3. ASSUME NEW s \in Sockets, Loses(s) PROVE LinkInv'
  BY <1>3 DEF TypeOK, Loses
<1>4. ASSUME NEW s \in Sockets, ReadLoopEnds(s) PROVE LinkInv'
  BY <1>4 DEF TypeOK, ReadLoopEnds, SocketClosed
<1>5. ASSUME NEW s \in Sockets, DeadlineFires(s) PROVE LinkInv'
  BY <1>5 DEF TypeOK, DeadlineFires, Shut
<1>6. ASSUME NEW s \in Sockets, DeadlineTears(s) PROVE LinkInv'
  BY <1>6 DEF TypeOK, DeadlineTears, SocketClosed
<1>7. CASE Connected
  BY <1>7 DEF TypeOK, Connected
<1>8. CASE HandshakeEnds
  BY <1>8 DEF TypeOK, HandshakeEnds, SocketClosed, Shut
<1>9. CASE CloseBegins
  BY <1>9 DEF TypeOK, CloseBegins
<1>10. CASE CloseSocket
  BY <1>10 DEF TypeOK, CloseSocket, Shut
<1>11. CASE CloseEnds
  BY <1>11 DEF TypeOK, CloseEnds
<1>12. ConnNext => LinkInv'
  BY <1>2, <1>3, <1>4, <1>5, <1>6, <1>7, <1>8, <1>9, <1>10, <1>11 DEF ConnNext
<1>13. (\E r \in Requests : CallNext(r)) => UNCHANGED connVars
  BY DEF CallNext, Call, ConnectReturns, Register, Write, WriteFails, ContextEnds,
         Dropped, Receives
<1>14. WireNext => UNCHANGED connVars
  BY DEF WireNext, ServerAnswers, HandleFrame, Deliver, callVars, connVars
<1>15. UNCHANGED vars => UNCHANGED connVars
  BY DEF vars
<1>16. QED
  BY <1>1, <1>12, <1>13, <1>14, <1>15 DEF Next

(* A call that holds a socket and has no outcome yet, nor one to come.     *)
Open(r) ==
    /\ request[r].pc \in {"write", "wait"} /\ request[r].ws # None
    /\ outcome[r] = "none" /\ \A d \in delivering : d.r # r
HasEntry(r) == \E e \in pending : e.r = r
(* Who will end it: the Close, the end of its socket, or its own write.    *)
Covered(r) ==
    \/ closer \in {"begun", "shut"}
    \/ state \in {"connecting", "connected"} /\ request[r].ws = socket
    \/ request[r].pc = "write" /\ link[request[r].ws] = "shut"
ServedInv ==
    \A r \in Requests : /\ request[r].pc = "wait" => request[r].ws # None
                        /\ Open(r) => HasEntry(r) /\ Covered(r)

LEMMA FailedServed ==
    ASSUME ServedInv, FailPending, UNCHANGED <<request, delivering>>
    PROVE  ServedInv'
<1>1. ASSUME NEW r \in Requests, Open(r)' PROVE FALSE
  <2>1. outcome'[r] = IF HasEntry(r) THEN "error" ELSE outcome[r]
    BY DEF FailPending, HasEntry
  <2>2. ~HasEntry(r) /\ Open(r)
    BY <1>1, <2>1 DEF Open
  <2>3. QED
    BY <2>2 DEF ServedInv
<1>2. QED
  BY <1>1 DEF ServedInv

(* A step of the connection that fails nobody.                             *)
LEMMA CoveredServed ==
    ASSUME ServedInv, UNCHANGED <<request, pending, outcome, delivering>>,
           \A r \in Requests : Open(r) /\ Covered(r) => Covered(r)'
    PROVE  ServedInv'
BY DEF ServedInv, Open, HasEntry

LEMMA ConnServed ==
    ASSUME TypeOK, LinkInv, ServedInv, ConnNext
    PROVE  ServedInv'
<1> USE RequestsAssumption
<1>0. \A r \in Requests : Open(r) => request[r].ws \in Sockets
  BY DEF TypeOK, Open
<1>1. ASSUME NEW s \in Sockets, Dial(s) PROVE ServedInv'
  <2>1. ASSUME NEW r \in Requests, Open(r), Covered(r) PROVE Covered(r)'
    <3>1. request[r].pc = "write" /\ link[request[r].ws] = "shut"
      BY <1>1, <2>1 DEF Dial, Covered
    <3>2. request[r].ws \in Sockets /\ request[r].ws # s
      BY <1>0, <1>1, <2>1 DEF Dial
    <3>3. link'[request[r].ws] = "shut" /\ request' = request
      BY <1>1, <3>1, <3>2 DEF Dial, TypeOK, callVars
    <3>4. QED
      BY <3>1, <3>3 DEF Covered
  <2>2. QED
    BY <1>1, <2>1, CoveredServed DEF Dial, callVars
<1>2. ASSUME NEW s \in Sockets, Loses(s) PROVE ServedInv'
  <2>1. \A r \in Requests : Open(r) /\ Covered(r) => Covered(r)'
    BY <1>0, <1>2 DEF Loses, Covered, TypeOK, callVars
  <2>2. QED
    BY <1>2, <2>1, CoveredServed DEF Loses, callVars
<1>3. ASSUME NEW s \in Sockets, UNCHANGED <<closer, link, request, delivering>>,
             SocketClosed(s)
      PROVE  ServedInv'
  <2>1. CASE UNCHANGED <<state, socket, pending, outcome>>
    <3>1. \A r \in Requests : Open(r) /\ Covered(r) => Covered(r)'
      BY <1>3, <2>1 DEF Covered
    <3>2. QED
      BY <1>3, <2>1, <3>1, CoveredServed
  <2>2. CASE FailPending
    BY <1>3, <2>2, FailedServed
  <2>3. QED
    BY <1>3, <2>1, <2>2 DEF SocketClosed
<1>4. ASSUME NEW s \in Sockets, ReadLoopEnds(s) \/ DeadlineTears(s) PROVE ServedInv'
  BY <1>3, <1>4 DEF ReadLoopEnds, DeadlineTears
<1>5. ASSUME NEW s \in Sockets, Shut(s), UNCHANGED <<callVars, state, socket>>,
             closer' = closer \/ closer' = "shut"
      PROVE  ServedInv'
  <2>1. ASSUME NEW r \in Requests, Open(r), Covered(r) PROVE Covered(r)'
    <3>1. request[r].ws \in Sockets /\ link' = [link EXCEPT ![s] = "shut"]
      BY <1>0, <1>5, <2>1 DEF Shut
    <3>2. link[request[r].ws] = "shut" => link'[request[r].ws] = "shut"
      BY <3>1 DEF TypeOK
    <3>3. QED
      BY <1>5, <2>1, <3>2 DEF Covered, callVars
  <2>2. QED
    BY <1>5, <2>1, CoveredServed DEF callVars
<1>6. ASSUME NEW s \in Sockets, DeadlineFires(s) PROVE ServedInv'
  BY <1>5, <1>6 DEF DeadlineFires
<1>7. CASE Connected
  <2>1. \A r \in Requests : Open(r) /\ Covered(r) => Covered(r)'
    BY <1>7 DEF Connected, Covered, callVars
  <2>2. QED
    BY <1>7, <2>1, CoveredServed DEF Connected, callVars
<1>8. CASE HandshakeEnds
  <2>1. CASE FailPending
    BY <1>8, <2>1, FailedServed DEF HandshakeEnds
  <2>2. attempt \in Sockets /\ attempt = socket
    BY <1>8 DEF HandshakeEnds, TypeOK, LinkInv, AttemptInstalled
  <2>3. CASE UNCHANGED <<state, socket, pending, outcome>>
    BY <1>5, <1>8, <2>2, <2>3 DEF HandshakeEnds, callVars
  <2>4. QED
    BY <1>8, <2>1, <2>3 DEF HandshakeEnds, SocketClosed
<1>9. CASE CloseBegins
  <2>1. \A r \in Requests : Covered(r)'
    BY <1>9 DEF CloseBegins, Covered
  <2>2. QED
    BY <1>9, <2>1, CoveredServed DEF CloseBegins, callVars
<1>10. CASE CloseSocket
  <2>1. \A r \in Requests : Covered(r)'
    BY <1>10 DEF CloseSocket, Covered
  <2>2. QED
    BY <1>10, <2>1, CoveredServed DEF CloseSocket, callVars
<1>11. CASE CloseEnds
  BY <1>11, FailedServed DEF CloseEnds
<1>12. QED
  BY <1>1, <1>2, <1>4, <1>6, <1>7, <1>8, <1>9, <1>10, <1>11 DEF ConnNext

(* A step of one call leaves the others as they are.                       *)
LEMMA OthersServed ==
    ASSUME TypeOK, ServedInv, NEW r \in Requests,
           UNCHANGED <<connVars, outcome, delivering>>,
           \A q \in Requests \ {r} : request'[q] = request[q],
           \A e \in pending : e \in pending' \/ e.r = r
    PROVE  \A q \in Requests \ {r} : /\ request'[q].pc = "wait" => request'[q].ws # None
                                     /\ Open(q)' => HasEntry(q)' /\ Covered(q)'
<1> SUFFICES ASSUME NEW q \in Requests \ {r}
    PROVE  /\ request'[q].pc = "wait" => request'[q].ws # None
           /\ Open(q)' => HasEntry(q)' /\ Covered(q)'
  OBVIOUS
<1>1. Open(q)' => Open(q)
  BY DEF Open
<1>2. HasEntry(q) => HasEntry(q)'
  BY DEF HasEntry
<1>3. Covered(q) => Covered(q)'
  BY DEF Covered, connVars
<1>4. QED
  BY <1>1, <1>2, <1>3 DEF ServedInv

LEMMA CallServed ==
    ASSUME TypeOK, LinkInv, ServedInv, NEW r \in Requests, CallNext(r)
    PROVE  ServedInv'
<1> USE RequestsAssumption
<1>1. /\ UNCHANGED <<connVars, outcome, delivering>>
      /\ \A q \in Requests \ {r} : request'[q] = request[q]
      /\ \A e \in pending : e \in pending' \/ e.r = r
  BY DEF CallNext, Call, ConnectReturns, Register, Write, WriteFails, ContextEnds,
         Dropped, Receives, Pc, Returns, TypeOK, wireVars
<1>2. ASSUME \/ request'[r].pc \notin {"write", "wait"}
             \/ /\ request'[r].ws # None
                /\ Open(r)' => HasEntry(r)' /\ Covered(r)'
      PROVE  ServedInv'
  <2>1. request'[r].pc \notin {"write", "wait"} => ~Open(r)'
    BY DEF Open
  <2>2. /\ request'[r].pc = "wait" => request'[r].ws # None
        /\ Open(r)' => HasEntry(r)' /\ Covered(r)'
    BY <1>2, <2>1
  <2>3. QED
    BY <1>1, <2>2, OthersServed DEF ServedInv
<1>3. CASE \/ Call(r) \/ ConnectReturns(r) \/ WriteFails(r)
           \/ ContextEnds(r) \/ Dropped(r) \/ Receives(r)
  <2>1. request'[r].pc \notin {"write", "wait"}
    BY <1>3 DEF Call, ConnectReturns, WriteFails, ContextEnds, Dropped, Receives,
                Pc, Returns, TypeOK
  <2>2. QED
    BY <1>2, <2>1
<1>4. CASE Register(r)
  <2>1. request'[r].pc = "write" /\ request'[r].ws = socket
    BY <1>4 DEF Register, TypeOK
  <2>2. HasEntry(r)'
    <3>1. [kind |-> KindOf[r], id |-> nextID + 1, r |-> r] \in pending'
      BY <1>4 DEF Register
    <3>2. QED
      BY <3>1 DEF HasEntry
  <2>3. socket # None => Covered(r)'
    <3>1. ASSUME socket # None
          PROVE  \/ closer \in {"begun", "shut"}
                 \/ state \in {"connecting", "connected"}
                 \/ link[socket] = "shut"
      BY <3>1 DEF TypeOK, LinkInv, SocketFollowsState, ClosedByCloser, ClosedIsShut,
                  ClosedStates
    <3>2. QED
      BY <1>1, <2>1, <3>1 DEF Covered, connVars
  <2>4. Open(r)' => socket # None
    BY <2>1 DEF Open
  <2>5. ServedInv' <=> \A q \in {r} : Open(q)' => HasEntry(q)' /\ Covered(q)'
    BY <1>1, <2>1, OthersServed DEF ServedInv
  <2>6. QED
    BY <2>2, <2>3, <2>4, <2>5
<1>5. CASE Write(r)
  <2>1. /\ request[r].pc = "write" /\ request[r].ws # None
        /\ link[request[r].ws] # "shut"
        /\ request'[r].pc = "wait" /\ request'[r].ws = request[r].ws
        /\ pending' = pending
    BY <1>5 DEF Write, Pc, TypeOK
  <2>2. Open(r)' => Open(r)
    BY <1>1, <2>1 DEF Open
  <2>3. HasEntry(r) => HasEntry(r)'
    BY <2>1 DEF HasEntry
  <2>4. Covered(r) => Covered(r)'
    BY <1>1, <2>1 DEF Covered, connVars
  <2>5. QED
    BY <1>2, <2>1, <2>2, <2>3, <2>4 DEF ServedInv
<1>6. QED
  BY <1>3, <1>4, <1>5 DEF CallNext

LEMMA WireServed ==
    ASSUME TypeOK, ServedInv, WireNext
    PROVE  ServedInv'
<1>1. UNCHANGED <<connVars, request>>
  BY DEF WireNext, ServerAnswers, HandleFrame, Deliver, callVars, connVars
<1>2. ASSUME \A r \in Requests : Open(r)' => Open(r) /\ (HasEntry(r) => HasEntry(r)')
      PROVE  ServedInv'
  <2>1. \A r \in Requests : Covered(r) => Covered(r)'
    BY <1>1 DEF Covered, connVars
  <2>2. QED
    BY <1>1, <1>2, <2>1 DEF ServedInv
<1>3. ASSUME NEW f \in toServer, ServerAnswers(f) PROVE ServedInv'
  BY <1>2, <1>3 DEF ServerAnswers, callVars, Open, HasEntry
<1>4. ASSUME NEW f \in toClient, HandleFrame(f) PROVE ServedInv'
  <2>1. CASE UNCHANGED <<pending, delivering>>
    BY <1>2, <1>4, <2>1 DEF HandleFrame, Open, HasEntry
  <2>2. ASSUME NEW e \in pending,
               pending' = pending \ {e},
               delivering' = delivering \cup {[ws |-> f.ws, r |-> e.r, res |-> Outcome(f)]}
        PROVE  ServedInv'
    <3>0. /\ UNCHANGED <<request, outcome>> /\ delivering \subseteq delivering'
          /\ [ws |-> f.ws, r |-> e.r, res |-> Outcome(f)] \in delivering'
      BY <1>1, <1>4, <2>2 DEF HandleFrame
    <3>1. \A r \in Requests : Open(r)' => Open(r) /\ r # e.r
      BY <3>0 DEF Open
    <3>2. \A r \in Requests : r # e.r /\ HasEntry(r) => HasEntry(r)'
      BY <2>2 DEF HasEntry
    <3>3. QED
      BY <1>2, <3>1, <3>2
  <2>3. QED
    BY <1>4, <2>1, <2>2 DEF HandleFrame
<1>5. ASSUME NEW d \in delivering, Deliver(d) PROVE ServedInv'
  <2>1. d.r \in Requests /\ d.res # "none"
    BY DEF TypeOK, Outcomes
  <2>2. \A r \in Requests : Open(r)' => r # d.r
    BY <1>5, <2>1 DEF Deliver, Open, TypeOK
  <2>3. \A r \in Requests : Open(r)' => Open(r)
    BY <1>1, <1>5, <2>1, <2>2 DEF Deliver, Open, TypeOK
  <2>4. QED
    BY <1>2, <1>5, <2>3 DEF Deliver, HasEntry
<1>6. QED
  BY <1>3, <1>4, <1>5 DEF WireNext

LEMMA ServedStep == TypeOK /\ LinkInv /\ ServedInv /\ [Next]_vars => ServedInv'
<1>1. ASSUME ServedInv, UNCHANGED vars PROVE ServedInv'
  BY <1>1 DEF vars, connVars, callVars, ServedInv, Open, HasEntry, Covered
<1>2. QED
  BY <1>1, ConnServed, CallServed, WireServed DEF Next

LEMMA ServedInit == Init => LinkInv /\ ServedInv
BY DEF Init, LinkInv, AttemptInstalled, SocketFollowsState, ClosedByCloser, ClosedIsShut,
       ClosedStates, ServedInv, Open

LEMMA InvServes == TypeOK /\ LinkInv /\ ServedInv => WaitingIsServed
<1> SUFFICES ASSUME TypeOK, LinkInv, ServedInv, NEW r \in Requests,
                    request[r].pc = "wait", outcome[r] = "none",
                    \A d \in delivering : d.r # r
    PROVE  /\ \E e \in pending : e.r = r
           /\ \/ closer \in {"begun", "shut"}
              \/ request[r].ws = socket /\ socket \in readLoop \cup dying \cup {attempt}
  BY DEF WaitingIsServed
<1>1. HasEntry(r) /\ Covered(r)
  BY DEF ServedInv, Open
<1>2. \/ closer \in {"begun", "shut"}
      \/ state \in {"connecting", "connected"} /\ request[r].ws = socket
  BY <1>1 DEF Covered
<1>3. state \in {"connecting", "connected"} => socket \in readLoop \cup dying \cup {attempt}
  BY DEF LinkInv, AttemptInstalled, SocketFollowsState
<1>4. QED
  BY <1>1, <1>2, <1>3 DEF HasEntry

(* Whoever waits without an outcome is in a table, and its socket's end or *)
(* the Close under way is still to come and empties the tables.            *)
THEOREM WaitingAlwaysServed == Spec => []WaitingIsServed
<1>1. Spec => [](TypeOK /\ LinkInv /\ ServedInv)
  <2>1. Init => TypeOK /\ LinkInv /\ ServedInv
    BY TypeInit, ServedInit
  <2>2. TypeOK /\ LinkInv /\ ServedInv /\ [Next]_vars => (TypeOK /\ LinkInv /\ ServedInv)'
    BY TypeStep, LinkStep, ServedStep
  <2>3. QED
    BY <2>1, <2>2, PTL DEF Spec
<1>2. QED
  BY <1>1, InvServes, PTL
=============================================================================
