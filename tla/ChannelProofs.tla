---------------------------- MODULE ChannelProofs ----------------------------
(***************************************************************************)
(* What holds of module Channel for every set of instances and requests    *)
(* and every bound.                                                        *)
(***************************************************************************)
EXTENDS Channel, SequenceTheorems, TLAPS

(* The records of requests that the actions build. *)
LEMMA RequestTypes ==
    /\ NoRequest \in RequestRecords
    /\ \A k \in Kinds, i \in Instances \cup {None}, s \in Stages : New(k, i, s) \in RequestRecords
    /\ \A q \in RequestRecords, o \in Outcomes : Returned(q, o) \in RequestRecords
<1>1. \A k \in Kinds, i \in Instances \cup {None}, s \in Stages : New(k, i, s) \in RequestRecords
  BY DEF New, RequestRecords, Outcomes
<1>2. NoRequest \in RequestRecords
  BY <1>1 DEF NoRequest, Kinds, Stages
<1>3. ASSUME NEW q \in RequestRecords, NEW o \in Outcomes PROVE Returned(q, o) \in RequestRecords
  <2>1. "forget" \in Stages /\ "mark" \in Stages
    BY DEF Stages
  <2>2. CASE q.kind = "detach"
    BY <2>1, <2>2 DEF Returned, RequestRecords
  <2>3. CASE q.kind # "detach" /\ o = "capability"
    BY <2>1, <2>3 DEF Returned, RequestRecords
  <2>4. CASE q.kind # "detach" /\ o # "capability"
    BY <2>1, <2>4 DEF Returned, RequestRecords
  <2>5. QED
    BY <2>2, <2>3, <2>4
<1>4. QED
  BY <1>1, <1>2, <1>3

(* A step of the request goroutines that starts one keeps the table well typed. *)
LEMMA StartType ==
    ASSUME TypeOK, NEW r \in Requests, NEW k \in Kinds, NEW i \in Instances \cup {None},
           NEW s \in Stages, request' = [request EXCEPT ![r] = New(k, i, s)]
    PROVE  request' \in [Requests -> RequestRecords]
BY RequestTypes DEF TypeOK

LEMMA ReturnsType ==
    ASSUME TypeOK, NEW r, NEW o \in Outcomes, Returns(r, o)
    PROVE  request' \in [Requests -> RequestRecords]
BY RequestTypes DEF TypeOK, Returns

LEMMA FailPendingType ==
    ASSUME TypeOK, FailPending
    PROVE  request' \in [Requests -> RequestRecords]
BY RequestTypes DEF TypeOK, FailPending, Outcomes

(* An event of a state leaves the queue well typed. *)
LEMMA EmitType ==
    ASSUME TypeOK, NEW c \in ConnStates, Emit(c)
    PROVE  events' \in Seq(ConnStates)
BY DEF TypeOK, Emit

LEMMA LosesFramesType ==
    ASSUME LosesFrames
    PROVE  /\ toServer' \in Seq(Frames) /\ toClient' \in Seq(Answers)
           /\ subscribed' \in BOOLEAN
<1>1. <<>> \in Seq(Frames) /\ <<>> \in Seq(Answers)
  OBVIOUS
<1>2. QED
  BY <1>1 DEF LosesFrames

-----------------------------------------------------------------------------
(* The type invariant. *)

LEMMA TypeInit == Init => TypeOK
<1> SUFFICES ASSUME Init PROVE TypeOK
  OBVIOUS
<1>1. /\ <<>> \in Seq(Frames) /\ <<>> \in Seq(Answers) /\ <<>> \in Seq(ConnStates)
      /\ 0 \in Nat
  OBVIOUS
<1>2. "initialized" \in ChannelStates /\ "disconnected" \in ConnStates
  BY DEF ChannelStates, ConnStates
<1>3. request \in [Requests -> RequestRecords]
  BY RequestTypes DEF Init
<1>4. QED
  BY <1>1, <1>2, <1>3 DEF Init, TypeOK

(* The actions of the connection. *)
LEMMA TypeConnection ==
    ASSUME TypeOK, Connects \/ Restore \/ SocketClosed \/ AttemptFails \/ Close
    PROVE  TypeOK'
<1> USE DEF connVars, intentVars, wireVars, registryVars, channelVars
<1>1. CASE Connects
  <2>1. events' \in Seq(ConnStates)
    BY <1>1, EmitType DEF Connects, ConnStates
  <2>2. QED
    BY <1>1, <2>1 DEF TypeOK, Connects, ConnStates
<1>2. CASE Restore
  <2>1. hooks \in Instances \cup {None} /\ "restore" \in Kinds /\ "connect" \in Stages
    BY DEF TypeOK, Kinds, Stages
  <2>2. request' \in [Requests -> RequestRecords]
    BY <1>2, <2>1, StartType DEF Restore, TypeOK
  <2>3. overlapped' \in BOOLEAN
    BY <1>2 DEF Restore, TypeOK
  <2>4. QED
    BY <1>2, <2>2, <2>3 DEF TypeOK, Restore
<1>3. CASE SocketClosed
  <2>1. events' \in Seq(ConnStates)
    BY <1>3, EmitType DEF SocketClosed, ConnStates
  <2>2. QED
    BY <1>3, <2>1, FailPendingType, LosesFramesType DEF TypeOK, SocketClosed, ConnStates
<1>4. CASE AttemptFails
  <2>1. PICK c \in {"disconnected"} \cup (Ends \cap {"failed"}) :
            conn' = c /\ Emit(c) /\ parted' = (parted \/ c = "failed")
    BY <1>4 DEF AttemptFails
  <2>2. c \in ConnStates
    BY DEF ConnStates
  <2>3. events' \in Seq(ConnStates)
    BY <2>1, <2>2, EmitType
  <2>4. QED
    BY <1>4, <2>1, <2>2, <2>3 DEF TypeOK, AttemptFails
<1>5. CASE Close
  <2>1. events' \in Seq(ConnStates)
    BY <1>5, EmitType DEF Close, ConnStates
  <2>2. QED
    BY <1>5, <2>1, FailPendingType, LosesFramesType DEF TypeOK, Close, ConnStates
<1>6. QED
  BY <1>1, <1>2, <1>3, <1>4, <1>5

(* The frames and the dispatcher. *)
LEMMA TypeWire ==
    ASSUME TypeOK, ServerAnswers \/ ReadAnswer \/ Dispatch
    PROVE  TypeOK'
<1> USE DEF connVars, intentVars, registryVars, channelVars, wireVars
<1>1. CASE ServerAnswers
  <2>1. Head(toServer) \in Frames /\ Tail(toServer) \in Seq(Frames)
    BY <1>1 DEF ServerAnswers, TypeOK
  <2>2. PICK a \in {"ok"} \cup Denials :
            /\ toClient' = Append(toClient, [id |-> Head(toServer).id, outcome |-> a])
            /\ subscribed' = IF a = "ok" THEN Head(toServer).op = "sub" ELSE subscribed
            /\ parted' = (parted \/ a # "ok")
    BY <1>1 DEF ServerAnswers
  <2>3. [id |-> Head(toServer).id, outcome |-> a] \in Answers
    BY <2>1, ChannelAssumption DEF Answers, Frames, Outcomes
  <2>4. toClient' \in Seq(Answers)
    BY <2>2, <2>3 DEF TypeOK
  <2>5. subscribed' \in BOOLEAN /\ parted' \in BOOLEAN
    BY <2>2 DEF TypeOK
  <2>6. QED
    BY <1>1, <2>1, <2>4, <2>5 DEF TypeOK, ServerAnswers
<1>2. CASE ReadAnswer
  <2>1. Head(toClient) \in Answers /\ Tail(toClient) \in Seq(Answers)
    BY <1>2 DEF ReadAnswer, TypeOK
  <2>2. Head(toClient).outcome \in Outcomes
    BY <2>1 DEF Answers
  <2>3. request' \in [Requests -> RequestRecords]
    BY <1>2, <2>2, ReturnsType DEF ReadAnswer, TypeOK
  <2>4. events' \in Seq(ConnStates)
    BY <1>2, EmitType DEF ReadAnswer, TypeOK
  <2>5. QED
    BY <1>2, <2>1, <2>3, <2>4 DEF TypeOK, ReadAnswer
<1>3. CASE Dispatch
  <2>1. Tail(events) \in Seq(ConnStates)
    BY <1>3 DEF Dispatch, TypeOK
  <2>2. \A s \in ChannelStates : After(s, Head(events)) \in ChannelStates
    BY DEF After, ChannelStates
  <2>3. QED
    BY <1>3, <2>1, <2>2 DEF TypeOK, Dispatch
<1>4. QED
  BY <1>1, <1>2, <1>3

(* The goroutines of the requests. *)
LEMMA TypeRequest ==
    ASSUME TypeOK, NEW r \in Requests, RequestStep(r) \/ Cancel(r)
    PROVE  TypeOK'
<1> USE DEF connVars, intentVars, registryVars, wireVars, channelVars
<1>1. CASE Remember(r) \/ ReadEpoch(r) \/ AttachForgets(r) \/ DetachForgets(r)
  <2> DEFINE Moved(s, n) == [request[r] EXCEPT !.stage = s, !.epoch = n]
  <2>1. request[r] \in RequestRecords /\ epoch \in Nat
    BY DEF TypeOK
  <2>2. "connect" \in Stages /\ "mark" \in Stages
    BY DEF Stages
  <2>3. \A s \in Stages, n \in Nat : Moved(s, n) \in RequestRecords
    BY <2>1 DEF RequestRecords
  <2>4. \A s \in Stages : [request[r] EXCEPT !.stage = s] \in RequestRecords
    BY <2>1 DEF RequestRecords
  <2>5. request' \in [Requests -> RequestRecords]
    <3>1. CASE Remember(r)
      BY <3>1, <2>2, <2>4 DEF TypeOK, Remember
    <3>2. CASE AttachForgets(r)
      BY <3>2, <2>2, <2>4 DEF TypeOK, AttachForgets
    <3>3. CASE ReadEpoch(r)
      <4>1. Moved("connect", epoch) \in RequestRecords
        BY <2>1, <2>2, <2>3
      <4>2. QED
        BY <3>3, <4>1 DEF TypeOK, ReadEpoch
    <3>4. CASE DetachForgets(r)
      <4>1. Moved("mark", 0) \in RequestRecords
        BY <2>2, <2>3
      <4>2. QED
        BY <3>4, <4>1 DEF TypeOK, DetachForgets
    <3>5. QED
      BY <1>1, <3>1, <3>2, <3>3, <3>4
  <2>6. epoch' \in Nat /\ desired' \in BOOLEAN
    <3>1. CASE Remember(r)
      BY <3>1 DEF TypeOK, Remember
    <3>2. CASE ReadEpoch(r)
      BY <3>2 DEF TypeOK, ReadEpoch
    <3>3. CASE AttachForgets(r)
      BY <3>3 DEF TypeOK, AttachForgets
    <3>4. CASE DetachForgets(r)
      BY <3>4 DEF TypeOK, DetachForgets
    <3>5. QED
      BY <1>1, <3>1, <3>2, <3>3, <3>4
  <2>7. UNCHANGED <<connVars, events, wireVars, registryVars, channelVars, overlapped, parted>>
    BY <1>1 DEF Remember, ReadEpoch, AttachForgets, DetachForgets
  <2>8. QED
    BY <2>5, <2>6, <2>7 DEF TypeOK
<1>2. CASE AttachMarks(r) \/ DetachMarks(r) \/ Resumed(r)
  <2>1. request' \in [Requests -> RequestRecords]
    BY <1>2, RequestTypes DEF TypeOK, AttachMarks, DetachMarks, Resumed, Finish
  <2>2. state' \in [Instances -> ChannelStates]
    <3>1. "attached" \in ChannelStates /\ "detached" \in ChannelStates
      BY DEF ChannelStates
    <3>2. \A o : StateAfterAttach(o) \in ChannelStates
      BY DEF StateAfterAttach, ChannelStates
    <3>3. QED
      BY <1>2, <3>1, <3>2 DEF TypeOK, AttachMarks, DetachMarks, Resumed
  <2>3. attaching' \in [Instances -> BOOLEAN]
    BY <1>2 DEF TypeOK, AttachMarks, DetachMarks, Resumed
  <2>4. UNCHANGED <<connVars, intentVars, events, wireVars, registryVars, overlapped, parted>>
    BY <1>2 DEF AttachMarks, DetachMarks, Resumed
  <2>5. QED
    BY <2>1, <2>2, <2>3, <2>4 DEF TypeOK
<1>3. CASE Send(r)
  <2>1. request' \in [Requests -> RequestRecords]
    BY <1>3 DEF TypeOK, Send, RequestRecords, Stages
  <2>2. [op |-> Op(request[r].kind), id |-> r] \in Frames
    BY DEF Frames, Op
  <2>3. toServer' \in Seq(Frames)
    BY <1>3, <2>2 DEF TypeOK, Send
  <2>4. QED
    BY <1>3, <2>1, <2>3 DEF TypeOK, Send
<1>4. CASE SendFails(r) \/ Cancel(r)
  <2>1. request' \in [Requests -> RequestRecords]
    BY <1>4, ReturnsType DEF SendFails, Cancel, Outcomes
  <2>2. QED
    BY <1>4, <2>1 DEF TypeOK, SendFails, Cancel
<1>5. QED
  BY <1>1, <1>2, <1>3, <1>4 DEF RequestStep

(* What the application does. *)
LEMMA TypeApplication ==
    ASSUME TypeOK, NEW i \in Instances,
           \/ Get(i) \/ AttachBegins(i) \/ Detach(i)
           \/ ReleaseBegins(i) \/ ReleaseUnregisters(i) \/ ReleaseDetaches(i)
    PROVE  TypeOK'
<1> USE DEF connVars, intentVars, wireVars, registryVars, channelVars
<1>1. CASE Get(i) \/ ReleaseBegins(i) \/ ReleaseUnregisters(i)
  BY <1>1 DEF TypeOK, Get, ReleaseBegins, ReleaseUnregisters
<1>2. CASE AttachBegins(i)
  <2>1. request' \in [Requests -> RequestRecords]
    BY <1>2, StartType DEF AttachBegins, Kinds, Stages
  <2>2. overlapped' \in BOOLEAN /\ parted' \in BOOLEAN
    BY <1>2 DEF AttachBegins, TypeOK
  <2>3. QED
    BY <1>2, <2>1, <2>2 DEF TypeOK, AttachBegins, ChannelStates
<1>3. ASSUME DetachBegins(i) PROVE /\ request' \in [Requests -> RequestRecords]
                                   /\ overlapped' \in BOOLEAN
                                   /\ state' \in [Instances -> ChannelStates]
  <2>1. request' \in [Requests -> RequestRecords]
    BY <1>3, StartType DEF DetachBegins, Kinds, Stages
  <2>2. QED
    BY <1>3, <2>1 DEF TypeOK, DetachBegins, ChannelStates
<1>4. CASE Detach(i)
  BY <1>3, <1>4 DEF TypeOK, Detach, DetachBegins
<1>5. CASE ReleaseDetaches(i)
  <2>1. releasing' \in [Instances -> {"no", "unregister", "detach", "done"}]
    BY <1>5 DEF TypeOK, ReleaseDetaches
  <2>2. CASE DetachBegins(i)
    BY <1>3, <1>5, <2>1, <2>2 DEF TypeOK, ReleaseDetaches, DetachBegins
  <2>3. CASE UNCHANGED <<channelVars, request, overlapped>>
    BY <1>5, <2>1, <2>3 DEF TypeOK, ReleaseDetaches, DetachBegins
  <2>4. QED
    BY <1>5, <2>2, <2>3 DEF ReleaseDetaches
<1>6. QED
  BY <1>1, <1>2, <1>4, <1>5

LEMMA TypeStep == TypeOK /\ [Next]_vars => TypeOK'
<1> SUFFICES ASSUME TypeOK, [Next]_vars PROVE TypeOK'
  OBVIOUS
<1>1. CASE UNCHANGED vars
  BY <1>1 DEF TypeOK, vars, connVars, intentVars, wireVars, registryVars, channelVars
<1>2. CASE Next
  BY <1>2, TypeConnection, TypeWire, TypeRequest, TypeApplication DEF Next
<1>3. QED
  BY <1>1, <1>2

(* Type correctness of the channels, their requests and the registry. *)
THEOREM TypeCorrect == Spec => []TypeOK
BY TypeInit, TypeStep, PTL DEF Spec

-----------------------------------------------------------------------------
(* An attached channel is remembered.  Until an attach and a detach overlap  *)
(* there is one attach under way at most, and a Detach that may still forget *)
(* the intent has read an epoch older than that of any attach that has       *)
(* remembered it since.                                                      *)

Attach(r) == request[r].kind = "attach" /\ ~Idle(r)

\* The Detach of r has read the epoch and may forget the intent.
MayForget(r) == request[r].kind = "detach" /\ request[r].stage \in {"connect", "sent", "forget"}

\* The channel of i counts on the restore, with no attach of its own under way.
Counting(i) ==
    byName = i /\ state[i] \in {"attached", "suspended", "attaching"} /\ ~attaching[i]

Shape(r) ==
    /\ request[r].stage = "remember" => request[r].kind = "attach"
    /\ request[r].stage = "epoch" => request[r].kind = "detach"
    /\ Attach(r) => request[r].owner \in created
    /\ request[r].stage \in {"remember", "epoch", "connect", "sent"} => request[r].outcome = "none"
    /\ Attach(r) /\ request[r].stage = "forget" => request[r].outcome = "capability"
    /\ request[r].epoch <= epoch

FreshInstance(i) ==
    i \notin created => /\ state[i] = "initialized" /\ ~attaching[i] /\ releasing[i] = "no"
                        /\ byName # i

OneAttach == \A r, s \in Requests : Attach(r) /\ Attach(s) => r = s

AttachRemembers(r) ==
    Attach(r) =>
        /\ attaching[request[r].owner]
        /\ ~DetachAt("epoch")
        /\ request[r].owner = byName => ~DetachPending
        /\ request[r].stage # "remember" =>
              /\ request[r].outcome # "capability" => desired
              /\ \A d \in Requests : MayForget(d) => request[d].epoch < epoch

CountingRemembered(i) ==
    Counting(i) =>
        /\ desired
        /\ ~DetachPending
        /\ \A r \in Requests : ~Attach(r)
        /\ \A d \in Requests : MayForget(d) => request[d].epoch < epoch

RememberInv ==
    /\ \A r \in Requests : Shape(r)
    /\ \A i \in Instances : FreshInstance(i)
    /\ ~overlapped => /\ OneAttach
                      /\ \A r \in Requests : AttachRemembers(r)
                      /\ \A i \in Instances : CountingRemembered(i)

LEMMA RememberInit == Init => RememberInv
BY ChannelAssumption DEF Init, RememberInv, Shape, FreshInstance, OneAttach, AttachRemembers, CountingRemembered,
       Attach, Counting, Idle, NoRequest, New

(* The state that RememberInv is about. *)
claimVars == <<desired, epoch, byName, created, releasing, state, attaching, overlapped>>

(* A request that only goes on waiting, or returns, takes nothing away from it. *)
LEMMA RememberAdvance ==
    ASSUME TypeOK, RememberInv, UNCHANGED claimVars,
           request' \in [Requests -> RequestRecords],
           \A r \in Requests :
              \/ request'[r] = request[r]
              \/ /\ request[r].stage \in {"connect", "sent"}
                 /\ request'[r].stage \in {"sent", "forget", "mark"}
                 /\ request'[r].kind = request[r].kind
                 /\ request'[r].owner = request[r].owner
                 /\ request'[r].epoch = request[r].epoch
                 /\ request'[r].stage = "sent" => request'[r].outcome = "none"
                 /\ request[r].kind = "attach" /\ request'[r].stage = "forget"
                    => request'[r].outcome = "capability"
    PROVE  RememberInv'
<1>1. ASSUME NEW r \in Requests
      PROVE  /\ Attach(r)' <=> Attach(r)
             /\ MayForget(r)' => MayForget(r)
             /\ request'[r].epoch = request[r].epoch
             /\ request'[r].stage = "epoch" => request[r].stage = "epoch" /\ request'[r].kind = request[r].kind
             /\ Shape(r)'
  <2>1. Shape(r)
    BY DEF RememberInv
  <2>2. QED
    BY <2>1 DEF Attach, MayForget, Idle, Shape, claimVars
<1>2. \A i \in Instances : FreshInstance(i)'
  BY DEF RememberInv, FreshInstance, claimVars
<1>3. DetachAt("epoch")' => DetachAt("epoch")
  BY <1>1 DEF DetachAt
<1>4. DetachPending' => DetachPending
  BY <1>3 DEF DetachPending, claimVars
<1>5. ASSUME ~overlapped PROVE OneAttach'
  BY <1>1, <1>5 DEF RememberInv, OneAttach
<1>6. ASSUME ~overlapped, NEW r \in Requests PROVE AttachRemembers(r)'
  <2>1. AttachRemembers(r) /\ Shape(r)
    BY <1>6 DEF RememberInv
  <2>2. CASE request'[r] = request[r]
    BY <1>1, <1>3, <1>4, <2>1, <2>2 DEF AttachRemembers, claimVars
  <2>3. CASE request'[r] # request[r]
    BY <1>1, <1>3, <1>4, <2>1, <2>3 DEF AttachRemembers, Shape, claimVars
  <2>4. QED
    BY <2>2, <2>3
<1>7. ASSUME ~overlapped, NEW i \in Instances PROVE CountingRemembered(i)'
  <2>1. CountingRemembered(i)
    BY <1>7 DEF RememberInv
  <2>2. QED
    BY <1>1, <1>4, <2>1 DEF CountingRemembered, Counting, claimVars
<1>8. QED
  BY <1>1, <1>2, <1>5, <1>6, <1>7 DEF RememberInv, claimVars
(* Requests that return: see RememberAdvance. *)
LEMMA ReturnsAdvance ==
    ASSUME TypeOK, NEW q \in RequestRecords, q.stage \in {"connect", "sent"}, NEW o \in Outcomes
    PROVE  /\ Returned(q, o).stage \in {"forget", "mark"}
           /\ Returned(q, o).kind = q.kind
           /\ Returned(q, o).owner = q.owner
           /\ Returned(q, o).epoch = q.epoch
           /\ q.kind = "attach" /\ Returned(q, o).stage = "forget"
              => Returned(q, o).outcome = "capability"
<1>1. CASE q.kind = "detach"
  BY <1>1 DEF Returned, RequestRecords
<1>2. CASE q.kind # "detach" /\ o = "capability"
  BY <1>2 DEF Returned, RequestRecords
<1>3. CASE q.kind # "detach" /\ o # "capability"
  BY <1>3 DEF Returned, RequestRecords
<1>4. QED
  BY <1>1, <1>2, <1>3

LEMMA RememberWire ==
    ASSUME TypeOK, TypeOK', RememberInv,
           \/ Connects \/ SocketClosed \/ AttemptFails \/ Close
           \/ ServerAnswers \/ ReadAnswer
           \/ \E r \in Requests : Send(r) \/ SendFails(r) \/ Cancel(r)
    PROVE  RememberInv'
<1> USE DEF connVars, intentVars, wireVars, registryVars, channelVars, claimVars
<1> DEFINE Goes(r) ==
              \/ request'[r] = request[r]
              \/ /\ request[r].stage \in {"connect", "sent"}
                 /\ request'[r].stage \in {"sent", "forget", "mark"}
                 /\ request'[r].kind = request[r].kind
                 /\ request'[r].owner = request[r].owner
                 /\ request'[r].epoch = request[r].epoch
                 /\ request'[r].stage = "sent" => request'[r].outcome = "none"
                 /\ request[r].kind = "attach" /\ request'[r].stage = "forget"
                    => request'[r].outcome = "capability"
<1>1. request' \in [Requests -> RequestRecords] /\ request \in [Requests -> RequestRecords]
  BY DEF TypeOK
<1>2. UNCHANGED claimVars
  BY DEF Connects, SocketClosed, AttemptFails, Close, ServerAnswers, ReadAnswer, Send,
         SendFails, Cancel
<1>3. ASSUME NEW r \in Requests, NEW o \in Outcomes, Returns(r, o),
             request[r].stage \in {"connect", "sent"}
      PROVE  \A s \in Requests : Goes(s)
  BY <1>1, <1>3, ReturnsAdvance DEF Returns
<1>4. FailPending => \A s \in Requests : Goes(s)
  BY <1>1, ReturnsAdvance DEF FailPending, Outcomes
<1>5. \A s \in Requests : Goes(s)
  <2>1. CASE Connects \/ AttemptFails \/ ServerAnswers
    BY <2>1 DEF Connects, AttemptFails, ServerAnswers
  <2>2. CASE SocketClosed \/ Close
    BY <1>4, <2>2 DEF SocketClosed, Close
  <2>3. CASE ReadAnswer
    <3>1. Head(toClient) \in Answers
      BY <2>3 DEF ReadAnswer, TypeOK
    <3>2. QED
      BY <1>3, <2>3, <3>1 DEF ReadAnswer, Answers
  <2>4. ASSUME NEW r \in Requests, SendFails(r) \/ Cancel(r) PROVE \A s \in Requests : Goes(s)
    BY <1>3, <2>4 DEF SendFails, Cancel, Outcomes
  <2>5. ASSUME NEW r \in Requests, Send(r) PROVE \A s \in Requests : Goes(s)
    <3>1. Shape(r)
      BY DEF RememberInv
    <3>2. QED
      BY <1>1, <2>5, <3>1 DEF Send, Shape, RequestRecords
  <2>6. QED
    BY <2>1, <2>2, <2>3, <2>4, <2>5
<1>6. QED
  BY <1>1, <1>2, <1>5, RememberAdvance

(* A step that begins no attach and no detach, and lets none go further, takes nothing  *)
(* away from it either.                                                                 *)
LEMMA RememberKeeps ==
    ASSUME RememberInv,
           \A s \in Requests : Shape(s)', \A i \in Instances : FreshInstance(i)',
           ~overlapped' => ~overlapped,
           desired' = desired, epoch' = epoch,
           \A s \in Requests : Attach(s)' => Attach(s) /\ request'[s] = request[s],
           \A s \in Requests : MayForget(s)' => MayForget(s) /\ request'[s] = request[s],
           DetachAt("epoch")' => DetachAt("epoch"),
           DetachPending' => DetachPending,
           attaching' = attaching,
           byName' = byName \/ \A s \in Requests : Attach(s) => request[s].owner # byName',
           \A i \in Instances : Counting(i)' => Counting(i)
    PROVE  RememberInv'
<1>1. ASSUME ~overlapped' PROVE OneAttach'
  BY <1>1 DEF RememberInv, OneAttach
<1>2. ASSUME ~overlapped', NEW s \in Requests PROVE AttachRemembers(s)'
  <2>1. AttachRemembers(s)
    BY <1>2 DEF RememberInv
  <2>2. QED
    BY <2>1 DEF AttachRemembers
<1>3. ASSUME ~overlapped', NEW i \in Instances PROVE CountingRemembered(i)'
  <2>1. CountingRemembered(i)
    BY <1>3 DEF RememberInv
  <2>2. QED
    BY <2>1 DEF CountingRemembered
<1>4. QED
  BY <1>1, <1>2, <1>3 DEF RememberInv

(* The restore: a goroutine that starts, and one that ends. *)
LEMMA RememberRestore ==
    ASSUME TypeOK, RememberInv, Restore
    PROVE  RememberInv'
<1> USE DEF intentVars, registryVars, channelVars
<1>1. /\ UNCHANGED <<desired, epoch, byName, created, releasing, state, attaching>>
      /\ ~overlapped' => ~overlapped
  BY DEF Restore, TypeOK
<1>2. PICK r : \/ request' = request
               \/ /\ r \in Requests
                  /\ Idle(r)
                  /\ request' = [request EXCEPT ![r] = New("restore", hooks, "connect")]
  <2>1. CASE desired
    BY <2>1 DEF Restore, FreshId
  <2>2. CASE ~desired
    BY <2>2 DEF Restore
  <2>3. QED
    BY <2>1, <2>2
<1>3. ASSUME NEW s \in Requests, request'[s] # request[s]
      PROVE  s = r /\ Idle(s) /\ request'[s] = New("restore", hooks, "connect")
  BY <1>2, <1>3 DEF TypeOK
<1>4. \A s \in Requests : /\ Attach(s)' => Attach(s) /\ request'[s] = request[s]
                          /\ MayForget(s)' => MayForget(s) /\ request'[s] = request[s]
                          /\ request'[s].stage = "epoch" => request'[s] = request[s]
  BY <1>3 DEF Attach, MayForget, Idle, New
<1>5. ASSUME NEW s \in Requests PROVE Shape(s)'
  <2>1. CASE request'[s] = request[s]
    BY <1>1, <2>1 DEF RememberInv, Shape, Attach, Idle
  <2>2. CASE request'[s] # request[s]
    <3>1. epoch \in Nat
      BY DEF TypeOK
    <3>2. QED
      BY <1>1, <1>3, <2>2, <3>1 DEF Shape, Attach, Idle, New
  <2>3. QED
    BY <2>1, <2>2
<1>6. DetachAt("epoch")' => DetachAt("epoch")
  BY <1>4 DEF DetachAt
<1>7. DetachPending' => DetachPending
  BY <1>1, <1>6 DEF DetachPending
<1>8. \A i \in Instances : FreshInstance(i)' /\ (Counting(i)' => Counting(i))
  BY <1>1 DEF RememberInv, FreshInstance, Counting
<1>9. QED
  BY <1>1, <1>4, <1>5, <1>6, <1>7, <1>8, RememberKeeps

(* A goroutine that ends leaves an idle slot. *)
LEMMA FinishKeeps ==
    ASSUME TypeOK, RememberInv, NEW r \in Requests, Finish(r), epoch' = epoch, created' = created
    PROVE  /\ \A s \in Requests : Shape(s)'
           /\ \A s \in Requests : Attach(s)' => s # r /\ Attach(s) /\ request'[s] = request[s]
           /\ \A s \in Requests : MayForget(s)' => MayForget(s) /\ request'[s] = request[s]
           /\ DetachAt("epoch")' => DetachAt("epoch")
<1>1. ASSUME NEW s \in Requests
      PROVE  request'[s] = IF s = r THEN NoRequest ELSE request[s]
  BY DEF TypeOK, Finish
<1>2. NoRequest.stage = "idle" /\ NoRequest.epoch = 0 /\ NoRequest.outcome = "none"
  BY DEF NoRequest, New
<1>3. ASSUME NEW s \in Requests PROVE Shape(s)'
  <2>1. CASE s = r
    <3>1. epoch \in Nat
      BY DEF TypeOK
    <3>2. QED
      BY <1>1, <1>2, <2>1, <3>1 DEF Shape, Attach, Idle
  <2>2. CASE s # r
    BY <1>1, <2>2 DEF RememberInv, Shape, Attach, Idle
  <2>3. QED
    BY <2>1, <2>2
<1>4. \A s \in Requests : /\ Attach(s)' => s # r /\ Attach(s) /\ request'[s] = request[s]
                          /\ MayForget(s)' => MayForget(s) /\ request'[s] = request[s]
                          /\ request'[s].stage = "epoch" => request'[s] = request[s]
  BY <1>1, <1>2 DEF Attach, MayForget, Idle
<1>5. DetachAt("epoch")' => DetachAt("epoch")
  BY <1>4 DEF DetachAt
<1>6. QED
  BY <1>3, <1>4, <1>5

LEMMA RememberEnds ==
    ASSUME TypeOK, RememberInv, NEW r \in Requests, Resumed(r) \/ DetachMarks(r)
    PROVE  RememberInv'
<1> USE DEF intentVars, registryVars
<1>1. /\ UNCHANGED <<desired, epoch, byName, created, releasing, attaching, overlapped>>
      /\ Finish(r)
  BY DEF Resumed, DetachMarks
<1>2. ASSUME NEW i \in Instances
      PROVE  \/ state'[i] = state[i]
             \/ state[i] \in {"attaching", "suspended", "attached"} /\ state'[i] = "attached"
             \/ state[i] = "detaching" /\ state'[i] = "detached"
  <2>1. state \in [Instances -> ChannelStates]
    BY DEF TypeOK
  <2>2. CASE Resumed(r)
    BY <2>1, <2>2 DEF Resumed
  <2>3. CASE DetachMarks(r)
    BY <2>1, <2>3 DEF DetachMarks
  <2>4. QED
    BY <2>2, <2>3
<1>3. \A i \in Instances : FreshInstance(i)' /\ (Counting(i)' => Counting(i))
  BY <1>1, <1>2 DEF RememberInv, FreshInstance, Counting
<1>4. DetachPending' => DetachPending
  BY <1>1, FinishKeeps DEF DetachPending
<1>5. QED
  BY <1>1, <1>3, <1>4, FinishKeeps, RememberKeeps

(* The events of the connection move a channel that counts on the restore only to a state *)
(* in which it still does, or out of these states.                                        *)
LEMMA RememberDispatch ==
    ASSUME TypeOK, RememberInv, Dispatch
    PROVE  RememberInv'
<1>1. UNCHANGED <<desired, epoch, byName, created, releasing, attaching, request, overlapped>>
  BY DEF Dispatch, intentVars, registryVars
<1>2. \A i \in Instances : \/ state'[i] = state[i]
                           \/ state'[i] = After(state[i], Head(events))
  BY DEF Dispatch, TypeOK
<1>3. ASSUME NEW i \in Instances
      PROVE  FreshInstance(i)' /\ (Counting(i)' => Counting(i))
  <2>1. /\ state[i] = "initialized" => state'[i] = "initialized"
        /\ state'[i] \in {"attached", "suspended", "attaching"}
           => state[i] \in {"attached", "suspended", "attaching"}
    BY <1>2 DEF After, Live
  <2>2. QED
    BY <1>1, <2>1 DEF RememberInv, FreshInstance, Counting
<1>4. \A s \in Requests : /\ Shape(s)'
                          /\ Attach(s)' <=> Attach(s)
                          /\ MayForget(s)' <=> MayForget(s)
  BY <1>1 DEF RememberInv, Shape, Attach, MayForget, Idle
<1>5. (DetachAt("epoch")' <=> DetachAt("epoch")) /\ (DetachPending' <=> DetachPending)
  BY <1>1 DEF DetachAt, DetachPending
<1>6. QED
  BY <1>1, <1>3, <1>4, <1>5, RememberKeeps

-----------------------------------------------------------------------------
(* The steps of an attach. *)

LEMMA RememberAttachBegins ==
    ASSUME TypeOK, RememberInv, NEW i \in Instances, AttachBegins(i)
    PROVE  RememberInv'
<1> USE DEF intentVars, registryVars
<1>1. /\ UNCHANGED <<desired, epoch, byName, created, releasing>>
      /\ byName = i
      /\ attaching' = [attaching EXCEPT ![i] = TRUE]
      /\ state' = [state EXCEPT ![i] = "attaching"]
      /\ ~overlapped' => ~overlapped /\ ~Under("attach") /\ ~DetachPending
  BY DEF AttachBegins, TypeOK
<1>2. PICK r \in Requests : /\ Idle(r)
                            /\ request' = [request EXCEPT ![r] = New("attach", i, "remember")]
  BY DEF AttachBegins, FreshId
<1>3. request'[r] = New("attach", i, "remember") /\ \A s \in Requests : s # r => request'[s] = request[s]
  BY <1>2 DEF TypeOK
<1>4. i \in created
  BY <1>1 DEF RememberInv, FreshInstance
<1>5. ASSUME NEW s \in Requests PROVE Shape(s)'
  <2>1. CASE s = r
    <3>1. epoch \in Nat
      BY DEF TypeOK
    <3>2. QED
      BY <1>1, <1>3, <1>4, <2>1, <3>1 DEF Shape, Attach, Idle, New
  <2>2. CASE s # r
    BY <1>1, <1>3, <2>2 DEF RememberInv, Shape, Attach, Idle
  <2>3. QED
    BY <2>1, <2>2
<1>6. \A j \in Instances : FreshInstance(j)'
  BY <1>1, <1>4 DEF RememberInv, FreshInstance, TypeOK
<1>7. ASSUME ~overlapped'
      PROVE  /\ OneAttach'
             /\ \A s \in Requests : AttachRemembers(s)'
             /\ \A j \in Instances : CountingRemembered(j)'
  <2>1. \A s \in Requests : ~Attach(s)
    BY <1>1, <1>7 DEF Attach, Under
  <2>2. \A s \in Requests : Attach(s)' => s = r
    BY <1>3, <2>1 DEF Attach, Idle
  <2>3. ~DetachAt("epoch")
    BY <1>1, <1>7 DEF DetachPending
  <2>4. ~DetachAt("epoch")'
    BY <1>3, <2>3 DEF DetachAt, New
  <2>5. ~DetachPending'
    BY <1>1, <1>7, <2>4 DEF DetachPending
  <2>6. ASSUME NEW s \in Requests PROVE AttachRemembers(s)'
    BY <1>1, <1>3, <2>2, <2>4, <2>5 DEF AttachRemembers, New, TypeOK
  <2>7. ASSUME NEW j \in Instances PROVE CountingRemembered(j)'
    BY <1>1 DEF CountingRemembered, Counting, TypeOK
  <2>8. QED
    BY <2>2, <2>6, <2>7 DEF OneAttach
<1>8. QED
  BY <1>5, <1>6, <1>7 DEF RememberInv

LEMMA RememberRemember ==
    ASSUME TypeOK, RememberInv, NEW r \in Requests, Remember(r)
    PROVE  RememberInv'
<1> USE DEF registryVars, channelVars
<1>1. /\ UNCHANGED <<byName, created, releasing, state, attaching, overlapped>>
      /\ request[r].stage = "remember"
      /\ desired' = TRUE
      /\ epoch' = epoch + 1
  BY DEF Remember
<1>2. /\ request'[r] = [request[r] EXCEPT !.stage = "connect"]
      /\ \A s \in Requests : s # r => request'[s] = request[s]
  BY DEF Remember, TypeOK
<1>3. /\ request[r] \in RequestRecords
      /\ epoch \in Nat
      /\ \A s \in Requests : request[s].epoch \in Nat
  BY DEF TypeOK, RequestRecords
<1>4. /\ request'[r].kind = request[r].kind /\ request'[r].stage = "connect"
      /\ request'[r].owner = request[r].owner /\ request'[r].epoch = request[r].epoch
      /\ request'[r].outcome = request[r].outcome
  BY <1>2, <1>3 DEF RequestRecords
<1>5. Shape(r) /\ request[r].kind = "attach" /\ Attach(r)
  BY <1>1 DEF RememberInv, Shape, Attach, Idle
<1>6. ASSUME NEW s \in Requests
      PROVE  /\ Shape(s)' /\ (Attach(s)' <=> Attach(s)) /\ (MayForget(s)' <=> MayForget(s))
             /\ request'[s].epoch = request[s].epoch
             /\ request'[s].stage = "epoch" => request'[s] = request[s]
  <2>1. Shape(s)
    BY DEF RememberInv
  <2>2. CASE s = r
    BY <1>1, <1>3, <1>4, <1>5, <2>2 DEF Shape, Attach, MayForget, Idle
  <2>3. CASE s # r
    <3>1. request'[s] = request[s]
      BY <1>2, <2>3
    <3>2. request[s].epoch <= epoch'
      BY <1>1, <1>3, <2>1 DEF Shape
    <3>3. QED
      BY <1>1, <2>1, <3>1, <3>2 DEF Shape, Attach, MayForget, Idle
  <2>4. QED
    BY <2>2, <2>3
<1>7. DetachAt("epoch")' => DetachAt("epoch")
  BY <1>6 DEF DetachAt
<1>8. DetachPending' => DetachPending
  BY <1>1, <1>7 DEF DetachPending
<1>9. \A i \in Instances : FreshInstance(i)'
  BY <1>1 DEF RememberInv, FreshInstance
<1>10. \A d \in Requests : MayForget(d)' => request'[d].epoch < epoch'
  <2>1. \A d \in Requests : request[d].epoch <= epoch
    BY DEF RememberInv, Shape
  <2>2. QED
    BY <1>1, <1>3, <1>6, <2>1
<1>11. ASSUME ~overlapped
       PROVE  /\ OneAttach'
              /\ \A s \in Requests : AttachRemembers(s)'
              /\ \A i \in Instances : CountingRemembered(i)'
  <2>1. OneAttach /\ AttachRemembers(r) /\ \A i \in Instances : CountingRemembered(i)
    BY <1>11 DEF RememberInv
  <2>2. \A s \in Requests : Attach(s)' => s = r
    BY <1>5, <1>6, <2>1 DEF OneAttach
  <2>3. ASSUME NEW s \in Requests PROVE AttachRemembers(s)'
    BY <1>1, <1>4, <1>5, <1>7, <1>8, <1>10, <2>1, <2>2 DEF AttachRemembers
  <2>4. ASSUME NEW i \in Instances PROVE CountingRemembered(i)'
    BY <1>1, <1>5, <2>1 DEF CountingRemembered, Counting
  <2>5. QED
    BY <2>2, <2>3, <2>4 DEF OneAttach
<1>12. QED
  BY <1>1, <1>6, <1>9, <1>11 DEF RememberInv

LEMMA RememberAttachForgets ==
    ASSUME TypeOK, RememberInv, NEW r \in Requests, AttachForgets(r)
    PROVE  RememberInv'
<1> USE DEF registryVars, channelVars
<1>1. /\ UNCHANGED <<epoch, byName, created, releasing, state, attaching, overlapped>>
      /\ request[r].stage = "forget"
      /\ request[r].kind = "attach"
  BY DEF AttachForgets
<1>2. /\ request'[r] = [request[r] EXCEPT !.stage = "mark"]
      /\ \A s \in Requests : s # r => request'[s] = request[s]
  BY DEF AttachForgets, TypeOK
<1>3. request[r] \in RequestRecords
  BY DEF TypeOK
<1>4. /\ request'[r].kind = request[r].kind /\ request'[r].stage = "mark"
      /\ request'[r].owner = request[r].owner /\ request'[r].epoch = request[r].epoch
      /\ request'[r].outcome = request[r].outcome
  BY <1>2, <1>3 DEF RequestRecords
<1>5. Attach(r) /\ request[r].outcome = "capability"
  BY <1>1 DEF RememberInv, Shape, Attach, Idle
<1>6. ASSUME NEW s \in Requests
      PROVE  /\ Shape(s)' /\ (Attach(s)' <=> Attach(s)) /\ (MayForget(s)' <=> MayForget(s))
             /\ request'[s].epoch = request[s].epoch
             /\ request'[s].stage = "epoch" => request'[s] = request[s]
  <2>1. Shape(s)
    BY DEF RememberInv
  <2>2. CASE s = r
    BY <1>1, <1>4, <2>1, <2>2 DEF Shape, Attach, MayForget, Idle
  <2>3. CASE s # r
    BY <1>1, <1>2, <2>1, <2>3 DEF Shape, Attach, MayForget, Idle
  <2>4. QED
    BY <2>2, <2>3
<1>7. DetachAt("epoch")' => DetachAt("epoch")
  BY <1>6 DEF DetachAt
<1>8. DetachPending' => DetachPending
  BY <1>1, <1>7 DEF DetachPending
<1>9. \A i \in Instances : FreshInstance(i)'
  BY <1>1 DEF RememberInv, FreshInstance
<1>10. ASSUME ~overlapped
       PROVE  /\ OneAttach'
              /\ \A s \in Requests : AttachRemembers(s)'
              /\ \A i \in Instances : CountingRemembered(i)'
  <2>1. OneAttach /\ AttachRemembers(r) /\ \A i \in Instances : CountingRemembered(i)
    BY <1>10 DEF RememberInv
  <2>2. \A s \in Requests : Attach(s)' => s = r
    BY <1>5, <1>6, <2>1 DEF OneAttach
  <2>3. ASSUME NEW s \in Requests PROVE AttachRemembers(s)'
    BY <1>1, <1>4, <1>5, <1>6, <1>7, <1>8, <2>1, <2>2 DEF AttachRemembers
  <2>4. ASSUME NEW i \in Instances PROVE CountingRemembered(i)'
    BY <1>1, <1>5, <2>1 DEF CountingRemembered, Counting
  <2>5. QED
    BY <2>2, <2>3, <2>4 DEF OneAttach
<1>11. QED
  BY <1>1, <1>6, <1>9, <1>10 DEF RememberInv

LEMMA RememberAttachMarks ==
    ASSUME TypeOK, RememberInv, NEW r \in Requests, AttachMarks(r)
    PROVE  RememberInv'
<1> USE DEF registryVars, intentVars
<1> DEFINE i == request[r].owner
<1>1. /\ UNCHANGED <<desired, epoch, byName, created, releasing, overlapped>>
      /\ request[r].stage = "mark"
      /\ request[r].kind = "attach"
      /\ attaching' = [attaching EXCEPT ![i] = FALSE]
      /\ state' = [state EXCEPT ![i] = StateAfterAttach(request[r].outcome)]
      /\ Finish(r)
  BY DEF AttachMarks
<1>2. Attach(r) /\ i \in created
  BY <1>1 DEF RememberInv, Shape, Attach, Idle
<1>3. \A j \in Instances : FreshInstance(j)'
  BY <1>1, <1>2 DEF RememberInv, FreshInstance, TypeOK
<1>4. ASSUME ~overlapped
      PROVE  /\ OneAttach'
             /\ \A s \in Requests : AttachRemembers(s)'
             /\ \A j \in Instances : CountingRemembered(j)'
  <2>1. OneAttach /\ AttachRemembers(r) /\ \A j \in Instances : CountingRemembered(j)
    BY <1>4 DEF RememberInv
  <2>2. \A s \in Requests : ~Attach(s)'
    BY <1>1, <1>2, <2>1, FinishKeeps DEF OneAttach
  <2>3. \A s \in Requests : AttachRemembers(s)'
    BY <2>2 DEF AttachRemembers
  <2>4. ASSUME NEW j \in Instances, Counting(j)' PROVE CountingRemembered(j)'
    <3>1. j = i
      <4>1. CASE j # i
        <5>1. Counting(j)
          BY <1>1, <2>4, <4>1 DEF Counting, TypeOK
        <5>2. QED
          BY <1>2, <2>1, <5>1 DEF CountingRemembered
      <4>2. QED
        BY <4>1
    <3>2. byName = i /\ request[r].outcome # "capability"
      BY <1>1, <2>4, <3>1 DEF Counting, TypeOK, StateAfterAttach
    <3>3. /\ desired /\ ~DetachPending
          /\ \A d \in Requests : MayForget(d) => request[d].epoch < epoch
      BY <1>1, <1>2, <2>1, <3>2 DEF AttachRemembers
    <3>4. ~DetachPending'
      BY <1>1, <3>3, FinishKeeps DEF DetachPending
    <3>5. QED
      BY <1>1, <2>2, <3>3, <3>4, FinishKeeps DEF CountingRemembered
  <2>5. ASSUME NEW j \in Instances PROVE CountingRemembered(j)'
    BY <2>4 DEF CountingRemembered
  <2>6. QED
    BY <2>2, <2>3, <2>5 DEF OneAttach
<1>5. QED
  BY <1>1, <1>3, <1>4, FinishKeeps DEF RememberInv

-----------------------------------------------------------------------------
(* The steps of a detach. *)

LEMMA RememberDetachBegins ==
    ASSUME TypeOK, RememberInv, NEW i \in Instances, DetachBegins(i),
           byName' = byName, created' = created,
           \/ byName = i /\ releasing' = releasing
           \/ /\ releasing[i] = "detach"
              /\ releasing' = [releasing EXCEPT ![i] = "done"]
    PROVE  RememberInv'
<1> USE DEF intentVars
<1>1. /\ UNCHANGED <<desired, epoch, attaching>>
      /\ state[i] # "initialized"
      /\ state' = [state EXCEPT ![i] = "detaching"]
      /\ ~overlapped' => ~overlapped /\ ~Under("attach")
  BY DEF DetachBegins, TypeOK
<1>2. PICK r \in Requests : /\ Idle(r)
                            /\ request' = [request EXCEPT ![r] = New("detach", i, "epoch")]
  BY DEF DetachBegins, FreshId
<1>3. request'[r] = New("detach", i, "epoch") /\ \A s \in Requests : s # r => request'[s] = request[s]
  BY <1>2 DEF TypeOK
<1>4. ASSUME NEW s \in Requests PROVE Shape(s)'
  <2>1. CASE s = r
    <3>1. epoch \in Nat
      BY DEF TypeOK
    <3>2. QED
      BY <1>1, <1>3, <2>1, <3>1 DEF Shape, Attach, Idle, New
  <2>2. CASE s # r
    BY <1>1, <1>3, <2>2 DEF RememberInv, Shape, Attach, Idle
  <2>3. QED
    BY <2>1, <2>2
<1>5. i \in created
  BY <1>1 DEF RememberInv, FreshInstance
<1>6. \A j \in Instances : FreshInstance(j)'
  BY <1>1, <1>5 DEF RememberInv, FreshInstance, TypeOK
<1>7. ASSUME ~overlapped'
      PROVE  /\ OneAttach'
             /\ \A s \in Requests : AttachRemembers(s)'
             /\ \A j \in Instances : CountingRemembered(j)'
  <2>1. \A s \in Requests : ~Attach(s)
    BY <1>1, <1>7 DEF Attach, Under
  <2>2. \A s \in Requests : ~Attach(s)'
    BY <1>3, <2>1 DEF Attach, Idle, New
  <2>3. ASSUME NEW j \in Instances PROVE ~Counting(j)'
    <3>1. CASE j = i
      BY <1>1, <3>1 DEF Counting, TypeOK
    <3>2. CASE j # i
      <4>1. Counting(j)' => Counting(j) /\ byName = j
        BY <1>1, <3>2 DEF Counting, TypeOK
      <4>2. releasing[i] = "detach" => DetachPending
        BY DEF DetachPending
      <4>3. CountingRemembered(j)
        BY <1>1, <1>7 DEF RememberInv
      <4>4. QED
        BY <3>2, <4>1, <4>2, <4>3 DEF CountingRemembered
    <3>3. QED
      BY <3>1, <3>2
  <2>4. QED
    BY <2>2, <2>3 DEF OneAttach, AttachRemembers, CountingRemembered
<1>8. QED
  BY <1>4, <1>6, <1>7 DEF RememberInv

LEMMA RememberReadEpoch ==
    ASSUME TypeOK, RememberInv, NEW r \in Requests, ReadEpoch(r)
    PROVE  RememberInv'
<1> USE DEF registryVars, channelVars, intentVars
<1>1. /\ UNCHANGED <<desired, epoch, byName, created, releasing, state, attaching, overlapped>>
      /\ request[r].stage = "epoch"
  BY DEF ReadEpoch
<1>2. /\ request'[r] = [request[r] EXCEPT !.stage = "connect", !.epoch = epoch]
      /\ \A s \in Requests : s # r => request'[s] = request[s]
  BY DEF ReadEpoch, TypeOK
<1>3. request[r] \in RequestRecords /\ epoch \in Nat
  BY DEF TypeOK
<1>4. /\ request'[r].kind = request[r].kind /\ request'[r].stage = "connect"
      /\ request'[r].owner = request[r].owner /\ request'[r].epoch = epoch
      /\ request'[r].outcome = request[r].outcome
  BY <1>2, <1>3 DEF RequestRecords
<1>5. request[r].kind = "detach" /\ DetachAt("epoch") /\ DetachPending
  BY <1>1 DEF RememberInv, Shape, DetachAt, DetachPending
<1>6. \A i \in Instances : FreshInstance(i)'
  BY <1>1 DEF RememberInv, FreshInstance
<1>7. ASSUME ~overlapped
      PROVE  /\ OneAttach'
             /\ \A s \in Requests : AttachRemembers(s)'
             /\ \A j \in Instances : CountingRemembered(j)'
  <2>1. \A s \in Requests : ~Attach(s)
    BY <1>5, <1>7 DEF RememberInv, AttachRemembers
  <2>2. \A s \in Requests : ~Attach(s)'
    BY <1>2, <1>4, <1>5, <2>1 DEF Attach, Idle
  <2>3. \A j \in Instances : ~Counting(j)
    BY <1>5, <1>7 DEF RememberInv, CountingRemembered
  <2>4. QED
    BY <1>1, <2>2, <2>3 DEF OneAttach, AttachRemembers, CountingRemembered, Counting
<1>8. ASSUME NEW s \in Requests PROVE Shape(s)'
  <2>1. CASE s = r
    BY <1>1, <1>3, <1>4, <1>5, <2>1 DEF RememberInv, Shape, Attach, Idle
  <2>2. CASE s # r
    BY <1>1, <1>2, <2>2 DEF RememberInv, Shape, Attach, Idle
  <2>3. QED
    BY <2>1, <2>2
<1>9. QED
  BY <1>1, <1>6, <1>7, <1>8 DEF RememberInv

(* The forget of a Detach: the epoch it has read is not the current one when the channel *)
(* counts on the intent, or an attach does.                                              *)
LEMMA RememberDetachForgets ==
    ASSUME TypeOK, RememberInv, NEW r \in Requests, DetachForgets(r)
    PROVE  RememberInv'
<1> USE DEF registryVars, channelVars
<1>1. /\ UNCHANGED <<epoch, byName, created, releasing, state, attaching, overlapped>>
      /\ request[r].stage = "forget"
      /\ request[r].kind = "detach"
      /\ desired' = (desired /\ request[r].epoch # epoch)
  BY DEF DetachForgets
<1>2. /\ request'[r] = [request[r] EXCEPT !.stage = "mark", !.epoch = 0]
      /\ \A s \in Requests : s # r => request'[s] = request[s]
  BY DEF DetachForgets, TypeOK
<1>3. request[r] \in RequestRecords /\ epoch \in Nat /\ desired \in BOOLEAN
  BY DEF TypeOK
<1>4. request'[r].kind = "detach" /\ request'[r].stage = "mark" /\ request'[r].epoch = 0
  BY <1>1, <1>2, <1>3 DEF RequestRecords
<1>5. ASSUME NEW s \in Requests
      PROVE  /\ Shape(s)'
             /\ Attach(s)' => Attach(s) /\ request'[s] = request[s]
             /\ MayForget(s)' => MayForget(s) /\ request'[s] = request[s]
             /\ request'[s].stage = "epoch" => request'[s] = request[s]
  <2>1. Shape(s)
    BY DEF RememberInv
  <2>2. CASE s = r
    BY <1>1, <1>3, <1>4, <2>1, <2>2 DEF Shape, Attach, MayForget, Idle
  <2>3. CASE s # r
    BY <1>1, <1>2, <2>1, <2>3 DEF Shape, Attach, MayForget, Idle
  <2>4. QED
    BY <2>2, <2>3
<1>6. DetachAt("epoch")' => DetachAt("epoch")
  BY <1>5 DEF DetachAt
<1>7. DetachPending' => DetachPending
  BY <1>1, <1>6 DEF DetachPending
<1>8. \A i \in Instances : FreshInstance(i)'
  BY <1>1 DEF RememberInv, FreshInstance
<1>9. MayForget(r)
  BY <1>1 DEF MayForget
<1>10. (\A d \in Requests : MayForget(d) => request[d].epoch < epoch) => desired' = desired
  <2>1. request[r].epoch \in Nat
    BY <1>3 DEF RequestRecords
  <2>2. request[r].epoch < epoch => request[r].epoch # epoch
    BY <1>3, <2>1
  <2>3. QED
    BY <1>1, <1>3, <1>9, <2>2
<1>11. ASSUME ~overlapped
       PROVE  /\ OneAttach'
              /\ \A s \in Requests : AttachRemembers(s)'
              /\ \A i \in Instances : CountingRemembered(i)'
  <2>1. OneAttach'
    BY <1>5, <1>11 DEF RememberInv, OneAttach
  <2>2. ASSUME NEW s \in Requests PROVE AttachRemembers(s)'
    <3>1. AttachRemembers(s)
      BY <1>11 DEF RememberInv
    <3>2. QED
      BY <1>1, <1>5, <1>6, <1>7, <1>10, <3>1 DEF AttachRemembers
  <2>3. ASSUME NEW i \in Instances PROVE CountingRemembered(i)'
    <3>1. CountingRemembered(i)
      BY <1>11 DEF RememberInv
    <3>2. QED
      BY <1>1, <1>5, <1>7, <1>10, <3>1 DEF CountingRemembered, Counting
  <2>4. QED
    BY <2>1, <2>2, <2>3
<1>12. QED
  BY <1>1, <1>5, <1>8, <1>11 DEF RememberInv

-----------------------------------------------------------------------------
(* The registry. *)

LEMMA RememberRegistry ==
    ASSUME TypeOK, RememberInv, NEW i \in Instances,
           Get(i) \/ ReleaseBegins(i) \/ ReleaseUnregisters(i)
    PROVE  RememberInv'
<1> USE DEF intentVars, channelVars
<1>1. UNCHANGED <<desired, epoch, state, attaching, request, overlapped>>
  BY DEF Get, ReleaseBegins, ReleaseUnregisters
<1>2. created \subseteq created'
  BY DEF Get, ReleaseBegins, ReleaseUnregisters
<1>3. \A s \in Requests : /\ Shape(s)'
                          /\ Attach(s)' <=> Attach(s)
                          /\ MayForget(s)' <=> MayForget(s)
  BY <1>1, <1>2 DEF RememberInv, Shape, Attach, MayForget, Idle
<1>4. DetachAt("epoch")' <=> DetachAt("epoch")
  BY <1>1 DEF DetachAt
<1>5. \A s \in Requests : Attach(s) => request[s].owner \in created
  BY DEF RememberInv, Shape
<1>6. CASE Get(i)
  <2>1. /\ i \notin created /\ byName' = i /\ created' = created \cup {i}
        /\ releasing' = releasing
    BY <1>6 DEF Get
  <2>2. state[i] = "initialized"
    BY <2>1 DEF RememberInv, FreshInstance
  <2>3. \A j \in Instances : FreshInstance(j)'
    BY <1>1, <2>1 DEF RememberInv, FreshInstance
  <2>4. \A j \in Instances : ~Counting(j)'
    BY <1>1, <2>1, <2>2 DEF Counting
  <2>5. DetachPending' => DetachPending
    BY <1>4, <2>1 DEF DetachPending
  <2>6. QED
    BY <1>1, <1>3, <1>4, <1>5, <2>1, <2>3, <2>4, <2>5, RememberKeeps
<1>7. CASE ReleaseUnregisters(i)
  <2>1. /\ releasing[i] = "unregister" /\ byName' = byName /\ created' = created
        /\ releasing' = [releasing EXCEPT ![i] = "detach"]
    BY <1>7 DEF ReleaseUnregisters
  <2>2. \A j \in Instances : FreshInstance(j)' /\ (Counting(j)' => Counting(j))
    BY <1>1, <2>1 DEF RememberInv, FreshInstance, Counting, TypeOK
  <2>3. DetachPending
    BY <2>1 DEF DetachPending
  <2>4. QED
    BY <1>1, <1>3, <1>4, <2>1, <2>2, <2>3, RememberKeeps
<1>8. CASE ReleaseBegins(i)
  <2>1. /\ byName = i /\ byName' = None /\ created' = created
        /\ releasing' = [releasing EXCEPT ![i] = "unregister"]
    BY <1>8 DEF ReleaseBegins
  <2>2. i \in created
    BY <2>1 DEF RememberInv, FreshInstance
  <2>3. \A j \in Instances : FreshInstance(j)' /\ ~Counting(j)'
    BY <1>1, <2>1, <2>2, ChannelAssumption DEF RememberInv, FreshInstance, Counting, TypeOK
  <2>4. \A s \in Requests : Attach(s) => request[s].owner # None
    BY <1>5, ChannelAssumption DEF TypeOK
  <2>5. ASSUME ~overlapped, NEW s \in Requests PROVE AttachRemembers(s)'
    <3>1. AttachRemembers(s)
      BY <2>5 DEF RememberInv
    <3>2. QED
      BY <1>1, <1>3, <1>4, <2>1, <2>4, <3>1 DEF AttachRemembers
  <2>6. ~overlapped => OneAttach'
    BY <1>3 DEF RememberInv, OneAttach
  <2>7. QED
    BY <1>1, <1>3, <2>3, <2>5, <2>6 DEF RememberInv, CountingRemembered
<1>9. QED
  BY <1>6, <1>7, <1>8

LEMMA RememberReleaseDetaches ==
    ASSUME TypeOK, RememberInv, NEW i \in Instances, ReleaseDetaches(i)
    PROVE  RememberInv'
<1>1. /\ UNCHANGED <<byName, created>>
      /\ releasing[i] = "detach"
      /\ releasing' = [releasing EXCEPT ![i] = "done"]
  BY DEF ReleaseDetaches
<1>2. CASE DetachBegins(i)
  BY <1>1, <1>2, RememberDetachBegins
<1>3. CASE UNCHANGED <<intentVars, channelVars, request, overlapped>>
  <2>1. UNCHANGED <<desired, epoch, state, attaching, request, overlapped>>
    BY <1>3 DEF intentVars, channelVars
  <2>2. \A j \in Instances : FreshInstance(j)' /\ (Counting(j)' => Counting(j))
    BY <1>1, <2>1 DEF RememberInv, FreshInstance, Counting, TypeOK
  <2>3. \A s \in Requests : /\ Shape(s)'
                            /\ Attach(s)' <=> Attach(s)
                            /\ MayForget(s)' <=> MayForget(s)
    BY <1>1, <2>1 DEF RememberInv, Shape, Attach, MayForget, Idle
  <2>4. DetachAt("epoch")' <=> DetachAt("epoch")
    BY <2>1 DEF DetachAt
  <2>5. DetachPending' => DetachPending
    BY <1>1, <2>4 DEF DetachPending, TypeOK
  <2>6. QED
    BY <1>1, <2>1, <2>2, <2>3, <2>4, <2>5, RememberKeeps
<1>4. QED
  BY <1>2, <1>3 DEF ReleaseDetaches

-----------------------------------------------------------------------------
LEMMA RememberStep == TypeOK /\ TypeOK' /\ RememberInv /\ [Next]_vars => RememberInv'
<1> SUFFICES ASSUME TypeOK, TypeOK', RememberInv, [Next]_vars PROVE RememberInv'
  OBVIOUS
<1>1. CASE UNCHANGED vars
  <2>1. UNCHANGED <<claimVars, request>>
    BY <1>1 DEF vars, claimVars, intentVars, registryVars, channelVars
  <2>2. QED
    BY <2>1, RememberAdvance DEF TypeOK
<1>2. CASE \/ Connects \/ SocketClosed \/ AttemptFails \/ Close
           \/ ServerAnswers \/ ReadAnswer
           \/ \E r \in Requests : Send(r) \/ SendFails(r) \/ Cancel(r)
  BY <1>2, RememberWire
<1>3. CASE Restore \/ Dispatch
  BY <1>3, RememberRestore, RememberDispatch
<1>4. ASSUME NEW r \in Requests,
             \/ Remember(r) \/ AttachForgets(r) \/ AttachMarks(r)
             \/ ReadEpoch(r) \/ DetachForgets(r) \/ DetachMarks(r) \/ Resumed(r)
      PROVE  RememberInv'
  BY <1>4, RememberRemember, RememberAttachForgets, RememberAttachMarks, RememberReadEpoch,
     RememberDetachForgets, RememberEnds
<1>5. ASSUME NEW i \in Instances,
             \/ Get(i) \/ AttachBegins(i) \/ Detach(i)
             \/ ReleaseBegins(i) \/ ReleaseUnregisters(i) \/ ReleaseDetaches(i)
      PROVE  RememberInv'
  <2>1. CASE Detach(i)
    BY <2>1, RememberDetachBegins DEF Detach, registryVars
  <2>2. QED
    BY <1>5, <2>1, RememberAttachBegins, RememberRegistry, RememberReleaseDetaches
<1>6. QED
  BY <1>1, <1>2, <1>3, <1>4, <1>5 DEF Next, RequestStep

(* A channel that the application has attached is one the next reconnect restores, as    *)
(* long as no attach has overlapped a Detach on its way to the epoch or another attach:  *)
(* the epochs of connection.go:610-641 do what they are for, with any number of          *)
(* instances, requests, reconnects and releases.                                         *)
THEOREM AttachedRemembered == Spec => []AttachedIsRemembered
<1>1. RememberInv => AttachedIsRemembered
  BY DEF RememberInv, CountingRemembered, Counting, AttachedIsRemembered, IntentLive
<1>2. QED
  BY <1>1, TypeCorrect, RememberInit, RememberStep, PTL DEF Spec

-----------------------------------------------------------------------------
(* The client and the server agree in the end.  Until an attach and a detach *)
(* overlap, and while nothing is refused, given up or ended, what the server *)
(* comes to once it has read the frames under way follows the intent, but    *)
(* for a Detach that will still forget it or write its unsub, or a sub that  *)
(* is still to be written; and the intent has an instance that wants it.     *)

Calm == ~overlapped /\ ~parted

Subs == {"attach", "restore"}
Wanting == {"attaching", "attached", "suspended"}

\* The Detach of r forgets the intent, or will if no attach begins.
Forgetful(r) ==
    /\ request[r].kind = "detach"
    /\ \/ request[r].stage = "epoch"
       \/ request[r].stage \in {"connect", "sent", "forget"} /\ request[r].epoch = epoch

\* The server delivers the channel once it has handled the frames that are under way.
Eventual == IF toServer = <<>> THEN subscribed ELSE toServer[Len(toServer)].op = "sub"

\* No sub has been written yet.
NeverSub ==
    /\ \A i \in Instances : state[i] # "attached"
    /\ \A r \in Requests : request[r].kind \in Subs
                           => request[r].outcome # "ok" /\ request[r].stage # "sent"

UnsubAhead == DetachAt("epoch") \/ DetachAt("connect")
SubAhead == \E r \in Requests : request[r].kind \in Subs /\ request[r].stage = "connect"

AttachingOwned ==
    \A i \in Instances : attaching[i] => \E r \in Requests : Attach(r) /\ request[r].owner = i

\* The connection has neither ended nor seen a refusal.
Healthy ==
    /\ conn \in {"connected", "disconnected"}
    /\ \A n \in DOMAIN events : events[n] \in {"connected", "disconnected"}
    /\ \A n \in DOMAIN toClient : toClient[n].outcome = "ok"
    /\ \A r \in Requests : request[r].kind \in Subs
                           => request[r].stage # "forget" /\ request[r].outcome # "capability"
    /\ ~hasConnectedBefore => NeverSub /\ conn # "connected"

\* A Detach keeps clear of the attaches and the restores.
Apart ==
    /\ UnsubAhead => \A r \in Requests : request[r].stage # "remember"
    /\ \A r \in Requests : request[r].kind = "detach" /\ request[r].stage = "connect"
                           => request[r].epoch = epoch
    /\ Under("restore") => desired /\ ~Under("detach")

\* An attach under way, and an intent that nobody forgets, have a channel that wants it.
Claimed ==
    /\ \A r \in Requests : Attach(r) => state[request[r].owner] \in Wanting
    /\ desired => \/ \E r \in Requests : Forgetful(r)
                  \/ \E i \in Instances : state[i] \in Wanting

\* The server ends with what the client intends.
Agreed ==
    /\ conn # "connected" => ~Eventual
    /\ \A r \in Requests : Forgetful(r) /\ request[r].stage \in {"sent", "forget"} => ~Eventual
    /\ Eventual => desired \/ UnsubAhead
    /\ \/ NeverSub
       \/ desired /\ conn = "connected" /\ (\A r \in Requests : ~Forgetful(r))
          => Eventual \/ restoring \/ SubAhead

Settled == Healthy /\ Apart /\ Claimed /\ Agreed

SettledInv == AttachingOwned /\ (Calm => Settled)

LEMMA SettledInit == Init => SettledInv
<1> SUFFICES ASSUME Init PROVE SettledInv
  OBVIOUS
<1>1. \A r \in Requests : /\ request[r].stage = "idle" /\ request[r].outcome = "none"
                         /\ request[r].kind = "restore"
  BY DEF Init, NoRequest, New
<1>2. ~Eventual
  BY DEF Init, Eventual
<1>3. \A r \in Requests : ~Attach(r) /\ ~Forgetful(r)
  BY <1>1 DEF Attach, Idle, Forgetful
<1>4. NeverSub
  BY <1>1 DEF Init, NeverSub
<1>5. Healthy
  <2>1. DOMAIN events = {} /\ DOMAIN toClient = {}
    BY DEF Init
  <2>2. QED
    BY <1>1, <1>4, <2>1 DEF Init, Healthy
<1>6. Apart
  BY <1>1 DEF Init, Apart, UnsubAhead, DetachAt, Under, Idle
<1>7. QED
  BY <1>2, <1>3, <1>4, <1>5, <1>6 DEF Init, SettledInv, Settled, AttachingOwned, Claimed, Agreed

-----------------------------------------------------------------------------
(* What the frames under way come to. *)

LEMMA EventualKept ==
    ASSUME UNCHANGED <<toServer, subscribed>>
    PROVE  Eventual' <=> Eventual
BY DEF Eventual

LEMMA EventualSent ==
    ASSUME TypeOK, NEW f, toServer' = Append(toServer, f)
    PROVE  Eventual' <=> f.op = "sub"
<1>1. /\ Append(toServer, f) # <<>>
      /\ Len(Append(toServer, f)) = Len(toServer) + 1
      /\ Append(toServer, f)[Len(toServer) + 1] = f
  <2>1. toServer \in Seq(Frames \cup {f})
    <3>1. toServer \in Seq(Frames)
      BY DEF TypeOK
    <3>2. QED
      BY ONLY <3>1
  <2>2. QED
    BY ONLY <2>1, f \in Frames \cup {f}, AppendProperties
<1>2. QED
  BY <1>1 DEF Eventual

LEMMA EventualLost == ASSUME LosesFrames PROVE ~Eventual'
BY DEF LosesFrames, Eventual

(* The length of the queue of frames, and whether it is empty. *)
LEMMA EmptyLength ==
    ASSUME NEW s \in Seq(Frames)
    PROVE  Len(s) \in Nat /\ (s = <<>> <=> Len(s) = 0)
<1>1. Len(s) \in Nat
  BY LenProperties
<1>2. s # <<>> => Len(s) \in Nat \ {0}
  BY EmptySeq
<1>3. Len(<<>>) = 0
  BY EmptySeq
<1>4. QED
  BY <1>1, <1>2, <1>3

LEMMA EventualServed ==
    ASSUME TypeOK, ServerAnswers, ~parted'
    PROVE  Eventual' <=> Eventual
<1>1. /\ toServer # <<>> /\ toServer \in Seq(Frames) /\ Tail(toServer) \in Seq(Frames)
      /\ toServer' = Tail(toServer)
      /\ subscribed' = (Head(toServer).op = "sub")
  <2>1. toServer # <<>> /\ toServer \in Seq(Frames) /\ toServer' = Tail(toServer)
    BY DEF ServerAnswers, TypeOK
  <2>2. PICK a : /\ subscribed' = IF a = "ok" THEN Head(toServer).op = "sub" ELSE subscribed
                 /\ parted' = (parted \/ a # "ok")
    BY DEF ServerAnswers
  <2>3. a = "ok"
    BY <2>2
  <2>4. QED
    BY <2>1, <2>2, <2>3, HeadTailProperties
<1>2. Len(toServer) \in Nat \ {0}
  BY <1>1, EmptyLength
<1>3. /\ Len(Tail(toServer)) = Len(toServer) - 1
      /\ \A n \in 1 .. Len(toServer) - 1 : Tail(toServer)[n] = toServer[n + 1]
      /\ Head(toServer) = toServer[1]
  BY <1>1, HeadTailProperties
<1>4. CASE Len(toServer) = 1
  <2>1. Tail(toServer) = <<>>
    BY <1>1, <1>3, <1>4, EmptyLength
  <2>2. Head(toServer) = toServer[Len(toServer)]
    BY <1>3, <1>4
  <2>3. QED
    BY <1>1, <2>1, <2>2 DEF Eventual
<1>5. CASE Len(toServer) # 1
  <2>1. /\ Tail(toServer) # <<>>
        /\ Tail(toServer)[Len(Tail(toServer))] = toServer[Len(toServer)]
    BY <1>1, <1>2, <1>3, <1>5, EmptyLength
  <2>2. QED
    BY <1>1, <2>1 DEF Eventual
<1>6. QED
  BY <1>4, <1>5

-----------------------------------------------------------------------------
(* A channel that is attaching has its attach under way. *)

LEMMA OwnedStep ==
    ASSUME TypeOK, TypeOK', RememberInv, AttachingOwned, [Next]_vars
    PROVE  AttachingOwned'
<1> USE DEF connVars, intentVars, wireVars, registryVars, channelVars
<1>1. ASSUME attaching' = attaching,
             \A r \in Requests : Attach(r) => Attach(r)' /\ request'[r].owner = request[r].owner
      PROVE  AttachingOwned'
  BY <1>1 DEF AttachingOwned
<1>2. request' = request => \A r \in Requests : Attach(r) => Attach(r)'
  BY DEF Attach, Idle
<1>3. CASE \/ UNCHANGED vars
           \/ Connects \/ AttemptFails \/ ServerAnswers \/ Dispatch
           \/ \E i \in Instances : Get(i) \/ ReleaseBegins(i) \/ ReleaseUnregisters(i)
  <2>1. attaching' = attaching /\ request' = request
    BY <1>3 DEF vars, Connects, AttemptFails, ServerAnswers, Dispatch, Get, ReleaseBegins,
                ReleaseUnregisters
  <2>2. QED
    BY <1>1, <1>2, <2>1
<1>4. ASSUME NEW r \in Requests, Idle(r), NEW q, request' = [request EXCEPT ![r] = q]
      PROVE  \A s \in Requests : Attach(s) => Attach(s)' /\ request'[s] = request[s]
  BY <1>4 DEF Attach, Idle, TypeOK
<1>5. CASE Restore
  <2>1. CASE desired
    BY <1>1, <1>4, <1>5, <2>1 DEF Restore, FreshId
  <2>2. CASE ~desired
    BY <1>1, <1>2, <1>5, <2>2 DEF Restore
  <2>3. QED
    BY <2>1, <2>2
<1>6. ASSUME NEW i \in Instances, DetachBegins(i)
      PROVE  AttachingOwned'
  BY <1>1, <1>4, <1>6 DEF DetachBegins, FreshId
<1>7. ASSUME NEW i \in Instances, ReleaseDetaches(i)
      PROVE  AttachingOwned'
  <2>1. CASE DetachBegins(i)
    BY <1>6, <2>1
  <2>2. CASE UNCHANGED <<channelVars, request>>
    BY <1>1, <1>2, <2>2
  <2>3. QED
    BY <1>7, <2>1, <2>2 DEF ReleaseDetaches
<1>8. ASSUME NEW i \in Instances, AttachBegins(i)
      PROVE  AttachingOwned'
  <2>1. PICK r \in Requests : Idle(r) /\ request' = [request EXCEPT ![r] = New("attach", i, "remember")]
    BY <1>8 DEF AttachBegins, FreshId
  <2>2. \A s \in Requests : Attach(s) => Attach(s)' /\ request'[s] = request[s]
    BY <1>4, <2>1
  <2>3. Attach(r)' /\ request'[r].owner = i
    BY <2>1 DEF Attach, Idle, New, TypeOK
  <2>4. attaching' = [attaching EXCEPT ![i] = TRUE]
    BY <1>8 DEF AttachBegins
  <2>5. ASSUME NEW j \in Instances, attaching'[j]
        PROVE  \E s \in Requests : Attach(s)' /\ request'[s].owner = j
    <3>1. CASE j = i
      BY <2>3, <3>1
    <3>2. CASE j # i
      <4>1. attaching[j]
        BY <2>4, <2>5, <3>2 DEF TypeOK
      <4>2. QED
        BY <2>2, <4>1 DEF AttachingOwned
    <3>3. QED
      BY <3>1, <3>2
  <2>6. QED
    BY <2>5 DEF AttachingOwned
<1>9. ASSUME NEW r \in Requests, AttachMarks(r)
      PROVE  AttachingOwned'
  <2>1. /\ request' = [request EXCEPT ![r] = NoRequest]
        /\ attaching' = [attaching EXCEPT ![request[r].owner] = FALSE]
    BY <1>9 DEF AttachMarks, Finish
  <2>2. \A s \in Requests : s # r => request'[s] = request[s]
    BY <2>1 DEF TypeOK
  <2>3. ASSUME NEW j \in Instances, attaching'[j]
        PROVE  \E s \in Requests : Attach(s)' /\ request'[s].owner = j
    <3>1. attaching[j] /\ j # request[r].owner
      BY <2>1, <2>3 DEF TypeOK
    <3>2. PICK s \in Requests : Attach(s) /\ request[s].owner = j
      BY <3>1 DEF AttachingOwned
    <3>3. Attach(s)' /\ request'[s].owner = j
      BY <2>2, <3>1, <3>2 DEF Attach, Idle
    <3>4. QED
      BY <3>3
  <2>4. QED
    BY <2>3 DEF AttachingOwned
<1>10. ASSUME NEW r \in Requests, NEW o \in Outcomes, Returns(r, o),
              request[r].stage \in {"connect", "sent"}, attaching' = attaching
       PROVE  AttachingOwned'
  <2>1. request[r] \in RequestRecords /\ \A s \in Requests : s # r => request'[s] = request[s]
    BY <1>10 DEF TypeOK, Returns
  <2>2. /\ request'[r].stage \in {"forget", "mark"}
        /\ request'[r].kind = request[r].kind
        /\ request'[r].owner = request[r].owner
    BY <1>10, <2>1, ReturnsAdvance DEF Returns, TypeOK
  <2>3. ASSUME NEW s \in Requests, Attach(s) PROVE Attach(s)' /\ request'[s].owner = request[s].owner
    <3>1. CASE s = r
      BY <2>2, <2>3, <3>1 DEF Attach, Idle
    <3>2. CASE s # r
      BY <2>1, <2>3, <3>2 DEF Attach, Idle
    <3>3. QED
      BY <3>1, <3>2
  <2>4. QED
    BY <1>1, <1>10, <2>3
<1>11. CASE SocketClosed \/ Close
  <2>1. \A s \in Requests : Attach(s) => Attach(s)' /\ request'[s].owner = request[s].owner
    BY <1>11, ReturnsAdvance DEF SocketClosed, Close, FailPending, Attach, Idle, TypeOK, Outcomes
  <2>2. QED
    BY <1>1, <1>11, <2>1 DEF SocketClosed, Close
<1>12. CASE ReadAnswer
  <2>1. Head(toClient) \in Answers
    BY <1>12 DEF ReadAnswer, TypeOK
  <2>2. attaching' = attaching
    BY <1>12 DEF ReadAnswer
  <2>3. CASE request[Head(toClient).id].stage = "sent"
    BY <1>10, <1>12, <2>1, <2>2, <2>3 DEF ReadAnswer, Answers
  <2>4. CASE request[Head(toClient).id].stage # "sent"
    BY <1>1, <1>2, <1>12, <2>2, <2>4 DEF ReadAnswer
  <2>5. QED
    BY <2>3, <2>4
<1>13. ASSUME NEW r \in Requests, SendFails(r) \/ Cancel(r)
       PROVE  AttachingOwned'
  BY <1>10, <1>13 DEF SendFails, Cancel, Outcomes
<1>14. ASSUME NEW r \in Requests,
              \/ Remember(r) \/ AttachForgets(r) \/ ReadEpoch(r) \/ DetachForgets(r) \/ Send(r)
       PROVE  AttachingOwned'
  <2>1. request[r] \in RequestRecords
    BY DEF TypeOK
  <2>2. /\ request'[r].kind = request[r].kind /\ request'[r].owner = request[r].owner
        /\ request'[r].stage \in {"connect", "mark", "sent"}
        /\ \A s \in Requests : s # r => request'[s] = request[s]
    BY <1>14, <2>1 DEF Remember, AttachForgets, ReadEpoch, DetachForgets, Send, TypeOK, RequestRecords
  <2>3. ASSUME NEW s \in Requests, Attach(s) PROVE Attach(s)' /\ request'[s].owner = request[s].owner
    <3>1. CASE s = r
      BY <2>2, <2>3, <3>1 DEF Attach, Idle
    <3>2. CASE s # r
      BY <2>2, <2>3, <3>2 DEF Attach, Idle
    <3>3. QED
      BY <3>1, <3>2
  <2>4. attaching' = attaching
    BY <1>14 DEF Remember, AttachForgets, ReadEpoch, DetachForgets, Send
  <2>5. QED
    BY <1>1, <2>3, <2>4
<1>15. ASSUME NEW r \in Requests, DetachMarks(r) \/ Resumed(r)
       PROVE  AttachingOwned'
  <2>1. \A s \in Requests : Attach(s) => Attach(s)' /\ request'[s].owner = request[s].owner
    BY <1>15 DEF DetachMarks, Resumed, Finish, Attach, Idle, TypeOK
  <2>2. QED
    BY <1>1, <1>15, <2>1 DEF DetachMarks, Resumed
<1>16. \A i \in Instances : Detach(i) => AttachingOwned'
  BY <1>6 DEF Detach
<1>17. QED
  BY <1>3, <1>5, <1>7, <1>8, <1>9, <1>11, <1>12, <1>13, <1>14, <1>15, <1>16
  DEF Next, RequestStep

-----------------------------------------------------------------------------
(* An attach that has remembered its intent is not one that a Detach forgets. *)
LEMMA AttachDesires ==
    ASSUME TypeOK, RememberInv, ~overlapped, Healthy, NEW a \in Requests, Attach(a),
           request[a].stage # "remember"
    PROVE  desired /\ \A d \in Requests : ~Forgetful(d)
<1>1. AttachRemembers(a) /\ request[a].outcome # "capability"
  BY DEF RememberInv, Healthy, Attach, Subs
<1>2. desired /\ ~DetachAt("epoch") /\ \A d \in Requests : MayForget(d) => request[d].epoch < epoch
  BY <1>1 DEF AttachRemembers
<1>3. epoch \in Nat /\ \A d \in Requests : request[d].epoch \in Nat
  BY DEF TypeOK, RequestRecords
<1>4. ASSUME NEW d \in Requests PROVE ~Forgetful(d)
  <2>1. request[d].kind = "detach" => request[d].stage # "epoch"
    BY <1>2 DEF DetachAt
  <2>2. MayForget(d) => request[d].epoch # epoch
    BY <1>2, <1>3
  <2>3. QED
    BY <2>1, <2>2 DEF Forgetful, MayForget
<1>5. QED
  BY <1>2, <1>4

(* The elements of a queue that grows, or loses its head. *)
LEMMA AppendedElements ==
    ASSUME NEW S, NEW q \in Seq(S), NEW x, NEW n \in DOMAIN Append(q, x)
    PROVE  (n \in DOMAIN q /\ Append(q, x)[n] = q[n]) \/ Append(q, x)[n] = x
<1>1. /\ DOMAIN q = 1 .. Len(q) /\ Len(q) \in Nat
      /\ DOMAIN Append(q, x) = 1 .. Len(q) + 1
      /\ Append(q, x)[Len(q) + 1] = x
      /\ \A k \in 1 .. Len(q) : Append(q, x)[k] = q[k]
  OBVIOUS
<1>2. QED
  BY <1>1

LEMMA TailElements ==
    ASSUME NEW S, NEW q \in Seq(S), q # <<>>
    PROVE  /\ \A n \in DOMAIN Tail(q) : n + 1 \in DOMAIN q /\ Tail(q)[n] = q[n + 1]
           /\ 1 \in DOMAIN q /\ Head(q) = q[1]
<1>1. /\ Len(Tail(q)) = Len(q) - 1 /\ Tail(q) \in Seq(S)
      /\ \A n \in 1 .. Len(q) - 1 : Tail(q)[n] = q[n + 1]
      /\ Head(q) = q[1]
  BY HeadTailProperties
<1>2. /\ DOMAIN q = 1 .. Len(q) /\ DOMAIN Tail(q) = 1 .. Len(Tail(q))
  BY <1>1, LenProperties
<1>3. Len(q) \in Nat \ {0}
  BY EmptySeq
<1>4. QED
  BY <1>1, <1>2, <1>3

LEMMA EventsEmitted ==
    ASSUME TypeOK, Healthy, NEW c \in {"connected", "disconnected"}, Emit(c)
    PROVE  \A n \in DOMAIN events' : events'[n] \in {"connected", "disconnected"}
BY AppendedElements DEF TypeOK, Healthy, Emit

(* A request that returns, and is not refused. *)
LEMMA ReturnedFields ==
    ASSUME NEW q \in RequestRecords, NEW o \in {"ok", "error"}
    PROVE  /\ Returned(q, o).kind = q.kind
           /\ Returned(q, o).owner = q.owner
           /\ Returned(q, o).epoch = q.epoch
           /\ q.kind = "detach" => Returned(q, o).stage = "forget"
           /\ q.kind # "detach" => Returned(q, o).stage = "mark" /\ Returned(q, o).outcome = o
<1>1. CASE q.kind = "detach"
  BY <1>1 DEF Returned, RequestRecords
<1>2. CASE q.kind # "detach"
  BY <1>2 DEF Returned, RequestRecords
<1>3. QED
  BY <1>1, <1>2

-----------------------------------------------------------------------------
(* Steps of the connection. *)

(* A step that moves no request and no channel, and leaves what the server comes to. *)
LEMMA SettledUnmoved ==
    ASSUME Settled, UNCHANGED <<desired, epoch, state, request>>,
           \A n \in DOMAIN events' : events'[n] \in {"connected", "disconnected"},
           \A n \in DOMAIN toClient' : toClient'[n].outcome = "ok",
           Eventual' <=> Eventual,
           \/ UNCHANGED connVars
           \/ conn # "connected" /\ conn' = "disconnected" /\ UNCHANGED <<hasConnectedBefore, restoring>>
           \/ conn # "connected" /\ conn' = "connected" /\ hasConnectedBefore' = TRUE
              /\ restoring' = hasConnectedBefore
    PROVE  Settled'
<1> USE DEF Settled
<1>1. /\ NeverSub' <=> NeverSub
      /\ \A r \in Requests : Forgetful(r)' <=> Forgetful(r)
      /\ \A r \in Requests : Attach(r)' <=> Attach(r)
      /\ UnsubAhead' <=> UnsubAhead
      /\ SubAhead' <=> SubAhead
      /\ \A k : Under(k)' <=> Under(k)
  BY DEF NeverSub, Forgetful, Attach, UnsubAhead, SubAhead, DetachAt, Under, Idle
<1>2. Healthy'
  BY <1>1 DEF Healthy, connVars
<1>3. Apart' /\ Claimed'
  BY <1>1 DEF Apart, Claimed
<1>4. Agreed'
  <2>1. CASE UNCHANGED connVars
    BY <1>1, <2>1 DEF Agreed, connVars
  <2>2. CASE conn # "connected" /\ conn' = "disconnected"
    BY <1>1, <2>2 DEF Agreed
  <2>3. CASE conn # "connected" /\ conn' = "connected" /\ restoring' = hasConnectedBefore
    BY <1>1, <2>3 DEF Agreed, Healthy
  <2>4. QED
    BY <2>1, <2>2, <2>3
<1>5. QED
  BY <1>2, <1>3, <1>4

(* Requests that return, with no refusal: on the end of their socket, or at their answer. *)
LEMMA SettledReturns ==
    ASSUME Settled, UNCHANGED <<desired, epoch, state, hasConnectedBefore, restoring>>,
           \A n \in DOMAIN events' : events'[n] \in {"connected", "disconnected"},
           \A n \in DOMAIN toClient' : toClient'[n].outcome = "ok",
           \A r \in Requests :
              \/ request'[r] = request[r]
              \/ /\ request[r].stage \in {"connect", "sent"}
                 /\ request'[r].kind = request[r].kind
                 /\ request'[r].owner = request[r].owner
                 /\ request'[r].epoch = request[r].epoch
                 /\ request[r].kind = "detach" => request'[r].stage = "forget"
                 /\ request[r].kind # "detach" =>
                       /\ request'[r].stage = "mark"
                       /\ request'[r].outcome # "capability"
                       /\ request'[r].outcome = "ok" => request[r].stage = "sent",
           \/ /\ conn' = conn
              /\ Eventual' <=> Eventual
              /\ \A r \in Requests : request[r].stage = "connect" => request'[r] = request[r]
           \/ conn' = "disconnected" /\ ~Eventual'
    PROVE  Settled'
<1> USE DEF Settled
<1>1. ASSUME NEW r \in Requests
      PROVE  /\ Forgetful(r)' <=> Forgetful(r)
             /\ Attach(r)' <=> Attach(r)
             /\ request'[r].kind = request[r].kind
             /\ request'[r].owner = request[r].owner
             /\ request'[r].epoch = request[r].epoch
             /\ Idle(r)' <=> Idle(r)
             /\ request'[r].stage = "remember" => request[r].stage = "remember"
             /\ request'[r].stage = "connect" => request[r].stage = "connect"
             /\ request'[r].stage = "epoch" <=> request[r].stage = "epoch"
  <2>1. CASE request'[r] = request[r]
    BY <2>1 DEF Forgetful, Attach, Idle
  <2>2. CASE request'[r] # request[r] /\ request[r].kind = "detach"
    BY <2>2 DEF Forgetful, Attach, Idle
  <2>3. CASE request'[r] # request[r] /\ request[r].kind # "detach"
    BY <2>3 DEF Forgetful, Attach, Idle
  <2>4. QED
    BY <2>1, <2>2, <2>3
<1>2. NeverSub => NeverSub'
  BY DEF NeverSub, Subs
<1>3. UnsubAhead' => UnsubAhead
  BY <1>1 DEF UnsubAhead, DetachAt
<1>4. \A k : Under(k)' <=> Under(k)
  BY <1>1 DEF Under
<1>5. Healthy'
  <2>1. \A r \in Requests : request'[r].kind \in Subs
                            => request'[r].stage # "forget" /\ request'[r].outcome # "capability"
    BY DEF Healthy, Subs
  <2>2. ~hasConnectedBefore' => NeverSub' /\ conn' # "connected"
    BY <1>2 DEF Healthy
  <2>3. QED
    BY <2>1, <2>2 DEF Healthy
<1>6. Apart' /\ Claimed'
  BY <1>1, <1>3, <1>4 DEF Apart, Claimed
<1>7. Agreed'
  <2>1. CASE conn' = "disconnected" /\ ~Eventual'
    BY <2>1 DEF Agreed
  <2>2. CASE /\ conn' = conn
             /\ Eventual' <=> Eventual
             /\ \A r \in Requests : request[r].stage = "connect" => request'[r] = request[r]
    <3>1. \A r \in Requests :
             request[r].stage = "connect"
             => request'[r].stage = "connect" /\ request'[r].kind = request[r].kind
      BY <2>2
    <3>2. (UnsubAhead => UnsubAhead') /\ (SubAhead => SubAhead')
      BY <1>1, <3>1 DEF UnsubAhead, SubAhead, DetachAt
    <3>3. \A r \in Requests : Forgetful(r)' /\ request'[r].stage \in {"sent", "forget"} => ~Eventual
      BY <1>1, <3>1 DEF Agreed, Forgetful
    <3>4. QED
      BY <1>1, <1>2, <2>2, <3>2, <3>3 DEF Agreed
  <2>3. QED
    BY <2>1, <2>2
<1>8. QED
  BY <1>5, <1>6, <1>7

LEMMA SettledConnection ==
    ASSUME TypeOK, RememberInv, Calm, Calm', Settled,
           Connects \/ AttemptFails \/ ServerAnswers \/ SocketClosed \/ Close
    PROVE  Settled'
<1> USE DEF Calm, intentVars, wireVars, channelVars
<1>1. Healthy
  BY DEF Settled
<1>2. CASE Connects
  <2>1. Eventual' <=> Eventual
    BY <1>2, EventualKept DEF Connects
  <2>2. \A n \in DOMAIN events' : events'[n] \in {"connected", "disconnected"}
    BY <1>1, <1>2, EventsEmitted DEF Connects
  <2>3. \A n \in DOMAIN toClient' : toClient'[n].outcome = "ok"
    BY <1>1, <1>2 DEF Connects, Healthy
  <2>4. QED
    BY <1>2, <2>1, <2>2, <2>3, SettledUnmoved DEF Connects
<1>3. CASE AttemptFails
  <2>1. Eventual' <=> Eventual
    BY <1>3, EventualKept DEF AttemptFails
  <2>2. conn' = "disconnected" /\ Emit("disconnected")
    BY <1>3 DEF AttemptFails
  <2>3. \A n \in DOMAIN events' : events'[n] \in {"connected", "disconnected"}
    BY <1>1, <2>2, EventsEmitted
  <2>4. \A n \in DOMAIN toClient' : toClient'[n].outcome = "ok"
    BY <1>1, <1>3 DEF AttemptFails, Healthy
  <2>5. QED
    BY <1>3, <2>1, <2>2, <2>3, <2>4, SettledUnmoved DEF AttemptFails
<1>4. CASE ServerAnswers
  <2>1. Eventual' <=> Eventual
    BY <1>4, EventualServed
  <2>2. toClient' = Append(toClient, [id |-> Head(toServer).id, outcome |-> "ok"])
    BY <1>4 DEF ServerAnswers
  <2>3. \A n \in DOMAIN toClient' : toClient'[n].outcome = "ok"
    BY <1>1, <2>2, AppendedElements DEF TypeOK, Healthy
  <2>4. QED
    BY <1>1, <1>4, <2>1, <2>3, SettledUnmoved DEF ServerAnswers, Healthy, connVars
<1>5. CASE SocketClosed
  <2>1. ~Eventual'
    BY <1>5, EventualLost DEF SocketClosed
  <2>2. \A n \in DOMAIN events' : events'[n] \in {"connected", "disconnected"}
    BY <1>1, <1>5, EventsEmitted DEF SocketClosed
  <2>3. \A n \in DOMAIN toClient' : toClient'[n].outcome = "ok"
    <3>1. DOMAIN toClient' = {}
      BY <1>5 DEF SocketClosed, LosesFrames
    <3>2. QED
      BY <3>1
  <2>4. ASSUME NEW r \in Requests, request'[r] # request[r]
        PROVE  /\ request[r].stage = "sent"
               /\ request'[r].kind = request[r].kind
               /\ request'[r].owner = request[r].owner
               /\ request'[r].epoch = request[r].epoch
               /\ request[r].kind = "detach" => request'[r].stage = "forget"
               /\ request[r].kind # "detach" =>
                     request'[r].stage = "mark" /\ request'[r].outcome = "error"
    <3>1. /\ request[r].stage = "sent" /\ request'[r] = Returned(request[r], "error")
          /\ request[r] \in RequestRecords
      BY <1>5, <2>4 DEF SocketClosed, FailPending, TypeOK
    <3>2. QED
      BY <3>1, ReturnedFields, ReturnsAdvance DEF Outcomes
  <2>5. UNCHANGED <<desired, epoch, state, hasConnectedBefore, restoring>> /\ conn' = "disconnected"
    BY <1>5 DEF SocketClosed
  <2>6. QED
    BY <2>1, <2>2, <2>3, <2>4, <2>5, SettledReturns
<1>6. CASE Close
  BY <1>6 DEF Close
<1>7. QED
  BY <1>2, <1>3, <1>4, <1>5, <1>6

(* The answer that is read, and the requests that cannot be sent. *)
LEMMA SettledAnswered ==
    ASSUME TypeOK, RememberInv, Calm, Calm', Settled,
           ReadAnswer \/ \E r \in Requests : SendFails(r) \/ Cancel(r)
    PROVE  Settled'
<1> USE DEF Calm, intentVars, wireVars, channelVars, connVars
<1>1. Healthy
  BY DEF Settled
<1>2. ASSUME NEW r \in Requests, NEW o \in {"ok", "error"}, Returns(r, o)
      PROVE  \A s \in Requests :
                \/ request'[s] = request[s]
                \/ /\ s = r
                   /\ request'[r].kind = request[r].kind
                   /\ request'[r].owner = request[r].owner
                   /\ request'[r].epoch = request[r].epoch
                   /\ request[r].kind = "detach" => request'[r].stage = "forget"
                   /\ request[r].kind # "detach" =>
                         request'[r].stage = "mark" /\ request'[r].outcome = o
  <2>1. request'[r] = Returned(request[r], o) /\ \A s \in Requests : s # r => request'[s] = request[s]
    BY <1>2 DEF Returns, TypeOK
  <2>2. request[r] \in RequestRecords
    BY DEF TypeOK
  <2>3. QED
    BY <2>1, <2>2, ReturnedFields
<1>3. CASE ReadAnswer
  <2>1. toClient # <<>> /\ toClient' = Tail(toClient) /\ toClient \in Seq(Answers)
    BY <1>3 DEF ReadAnswer, TypeOK
  <2>2. Head(toClient) \in Answers /\ Head(toClient).outcome = "ok"
    <3>1. Head(toClient).outcome = "ok"
      BY <1>1, <2>1, TailElements DEF Healthy
    <3>2. QED
      BY <2>1, <3>1
  <2>3. \A n \in DOMAIN toClient' : toClient'[n].outcome = "ok"
    BY <1>1, <2>1, TailElements DEF Healthy
  <2>4. /\ UNCHANGED <<desired, epoch, state, hasConnectedBefore, restoring, conn, events>>
        /\ Eventual' <=> Eventual
    BY <1>3, <2>2, EventualKept DEF ReadAnswer
  <2>5. \A n \in DOMAIN events' : events'[n] \in {"connected", "disconnected"}
    BY <1>1, <2>4 DEF Healthy
  <2>6. CASE request[Head(toClient).id].stage = "sent"
    <3>1. PICK r \in Requests : request[r].stage = "sent" /\ Returns(r, "ok")
      BY <1>3, <2>2, <2>6 DEF ReadAnswer, Answers
    <3>2. QED
      BY <1>2, <2>3, <2>4, <2>5, <3>1, SettledReturns
  <2>7. CASE request[Head(toClient).id].stage # "sent"
    <3>1. request' = request
      BY <1>3, <2>7 DEF ReadAnswer
    <3>2. QED
      BY <2>3, <2>4, <2>5, <3>1, SettledReturns
  <2>8. QED
    BY <2>6, <2>7
<1>4. ASSUME NEW r \in Requests, SendFails(r)
      PROVE  Settled'
  <2>1. /\ UNCHANGED <<desired, epoch, state, hasConnectedBefore, restoring, conn, events, toClient>>
        /\ Eventual' <=> Eventual
        /\ conn # "connected" /\ request[r].stage = "connect" /\ Returns(r, "error")
    BY <1>4, EventualKept DEF SendFails
  <2>2. ~Eventual' /\ conn' = "disconnected"
    BY <1>1, <2>1 DEF Settled, Agreed, Healthy
  <2>3. /\ \A n \in DOMAIN toClient' : toClient'[n].outcome = "ok"
        /\ \A n \in DOMAIN events' : events'[n] \in {"connected", "disconnected"}
    BY <1>1, <2>1 DEF Healthy
  <2>4. QED
    BY <1>2, <2>1, <2>2, <2>3, SettledReturns
<1>5. ASSUME NEW r \in Requests, Cancel(r)
      PROVE  Settled'
  BY <1>5 DEF Cancel
<1>6. QED
  BY <1>3, <1>4, <1>5

(* The frame of a request is written. *)
LEMMA SettledSend ==
    ASSUME TypeOK, RememberInv, Calm, Settled, NEW r \in Requests, Send(r)
    PROVE  Settled'
<1> USE DEF Settled, Calm, intentVars, channelVars, connVars
<1>1. /\ UNCHANGED <<desired, epoch, state, conn, hasConnectedBefore, restoring, events, toClient>>
      /\ request[r].stage = "connect" /\ conn = "connected"
      /\ toServer' = Append(toServer, [op |-> Op(request[r].kind), id |-> r])
  BY DEF Send
<1>2. /\ request[r] \in RequestRecords
      /\ request'[r] = [request[r] EXCEPT !.stage = "sent"]
      /\ \A s \in Requests : s # r => request'[s] = request[s]
  BY DEF Send, TypeOK
<1>3. /\ request'[r].kind = request[r].kind /\ request'[r].owner = request[r].owner
      /\ request'[r].epoch = request[r].epoch /\ request'[r].outcome = request[r].outcome
      /\ request'[r].stage = "sent"
  BY <1>2 DEF RequestRecords
<1>4. request[r].kind \in {"attach", "detach", "restore"}
  BY <1>2 DEF RequestRecords, Kinds
<1>5. Eventual' <=> request[r].kind # "detach"
  BY <1>1, EventualSent DEF Op
<1>6. ASSUME NEW s \in Requests
      PROVE  /\ Forgetful(s)' <=> Forgetful(s)
             /\ Attach(s)' <=> Attach(s)
             /\ request'[s].kind = request[s].kind
             /\ request'[s].owner = request[s].owner
             /\ request'[s].epoch = request[s].epoch
             /\ request'[s].outcome = request[s].outcome
             /\ Idle(s)' <=> Idle(s)
             /\ request'[s].stage = "remember" <=> request[s].stage = "remember"
             /\ request'[s].stage = "epoch" <=> request[s].stage = "epoch"
             /\ request'[s].stage = "connect" => request[s].stage = "connect"
             /\ request'[s].stage = "forget" <=> request[s].stage = "forget"
  <2>1. CASE s = r
    BY <1>1, <1>3, <2>1 DEF Forgetful, Attach, Idle
  <2>2. CASE s # r
    BY <1>1, <1>2, <2>2 DEF Forgetful, Attach, Idle
  <2>3. QED
    BY <2>1, <2>2
<1>7. UnsubAhead' => UnsubAhead
  BY <1>6 DEF UnsubAhead, DetachAt
<1>8. \A k : Under(k)' <=> Under(k)
  BY <1>6 DEF Under
<1>9. hasConnectedBefore /\ Healthy'
  BY <1>1, <1>6 DEF Healthy
<1>10. Apart' /\ Claimed'
  BY <1>1, <1>6, <1>7, <1>8 DEF Apart, Claimed
<1>11. CASE request[r].kind = "detach"
  <2>1. Forgetful(r)'
    BY <1>1, <1>6, <1>11 DEF Apart, Forgetful
  <2>2. QED
    BY <1>1, <1>5, <1>9, <1>10, <1>11, <2>1 DEF Agreed
<1>12. CASE request[r].kind = "attach"
  <2>1. Attach(r)
    BY <1>1, <1>12 DEF Attach, Idle
  <2>2. desired /\ \A s \in Requests : ~Forgetful(s)
    BY <1>1, <2>1, AttachDesires
  <2>3. QED
    BY <1>1, <1>5, <1>6, <1>9, <1>10, <1>12, <2>2 DEF Agreed
<1>13. CASE request[r].kind = "restore"
  <2>1. Under("restore")
    BY <1>1, <1>13 DEF Under, Idle
  <2>2. desired /\ \A s \in Requests : ~Forgetful(s)
    BY <2>1 DEF Apart, Under, Forgetful, Idle
  <2>3. QED
    BY <1>1, <1>5, <1>6, <1>9, <1>10, <1>13, <2>2 DEF Agreed
<1>14. QED
  BY <1>4, <1>11, <1>12, <1>13

(* The events of the connection, of which none ends a channel. *)
LEMMA SettledDispatch ==
    ASSUME TypeOK, RememberInv, Settled, Dispatch
    PROVE  Settled'
<1> USE DEF Settled, intentVars, wireVars, connVars
<1>1. /\ UNCHANGED <<desired, epoch, conn, hasConnectedBefore, restoring, toServer, toClient,
                     subscribed, request>>
      /\ events # <<>> /\ events' = Tail(events) /\ events \in Seq(ConnStates)
  BY DEF Dispatch, TypeOK
<1>2. Head(events) \in {"connected", "disconnected"}
  BY <1>1, TailElements DEF Healthy
<1>3. \A n \in DOMAIN events' : events'[n] \in {"connected", "disconnected"}
  BY <1>1, TailElements DEF Healthy
<1>4. ASSUME NEW i \in Instances
      PROVE  /\ state[i] \in Wanting => state'[i] \in Wanting
             /\ state'[i] = "attached" => state[i] = "attached"
  <2>1. state'[i] = state[i] \/ state'[i] = After(state[i], Head(events))
    BY DEF Dispatch, TypeOK
  <2>2. QED
    BY <1>2, <2>1 DEF After, Wanting
<1>5. /\ NeverSub => NeverSub'
      /\ \A r \in Requests : (Forgetful(r)' <=> Forgetful(r)) /\ (Attach(r)' <=> Attach(r))
      /\ UnsubAhead' <=> UnsubAhead
      /\ SubAhead' <=> SubAhead
      /\ \A k : Under(k)' <=> Under(k)
      /\ Eventual' <=> Eventual
  <2>1. NeverSub => NeverSub'
    BY <1>1, <1>4 DEF NeverSub
  <2>2. QED
    BY <1>1, <2>1 DEF Forgetful, Attach, UnsubAhead, SubAhead, DetachAt, Under, Idle, Eventual
<1>6. Healthy'
  BY <1>1, <1>3, <1>5 DEF Healthy
<1>7. Apart' /\ Agreed'
  BY <1>1, <1>5 DEF Apart, Agreed
<1>8. Claimed'
  <2>1. \A r \in Requests : Attach(r) => request[r].owner \in Instances
    BY DEF RememberInv, Shape, TypeOK
  <2>2. QED
    BY <1>1, <1>4, <1>5, <2>1 DEF Claimed
<1>9. QED
  BY <1>6, <1>7, <1>8

(* The restore begins. *)
LEMMA SettledRestore ==
    ASSUME TypeOK, RememberInv, Calm, Calm', Settled, Restore
    PROVE  Settled'
<1> USE DEF Settled, Calm, intentVars, channelVars, wireVars
<1>1. /\ UNCHANGED <<desired, epoch, state, conn, hasConnectedBefore, events, toClient>>
      /\ restoring' = FALSE
      /\ Eventual' <=> Eventual
  BY EventualKept DEF Restore
<1>2. CASE desired
  <2>1. PICK r \in Requests : /\ Idle(r)
                              /\ request' = [request EXCEPT ![r] = New("restore", hooks, "connect")]
    BY <1>2 DEF Restore, FreshId
  <2>2. ~Under("detach")
    BY <1>2 DEF Restore
  <2>3. /\ request'[r].kind = "restore" /\ request'[r].stage = "connect" /\ request'[r].outcome = "none"
        /\ \A s \in Requests : s # r => request'[s] = request[s]
    BY <2>1 DEF New, TypeOK
  <2>4. ASSUME NEW s \in Requests
        PROVE  /\ ~Forgetful(s)'
               /\ Attach(s)' => Attach(s) /\ request'[s] = request[s]
               /\ request'[s].stage = "remember" => request[s].stage = "remember"
               /\ ~Idle(s)' => request'[s].kind # "detach"
    <3>1. CASE s = r
      BY <2>3, <3>1 DEF Forgetful, Attach, Idle
    <3>2. CASE s # r
      BY <2>2, <2>3, <3>2 DEF Forgetful, Attach, Idle, Under
    <3>3. QED
      BY <3>1, <3>2
  <2>5. ~UnsubAhead /\ ~UnsubAhead' /\ ~Under("detach")' /\ SubAhead'
    BY <2>2, <2>3, <2>4 DEF UnsubAhead, DetachAt, Under, Idle, SubAhead, Subs
  <2>6. \A s \in Requests : ~Forgetful(s)
    BY <2>2 DEF Forgetful, Under, Idle
  <2>7. NeverSub => NeverSub'
    BY <1>1, <2>3 DEF NeverSub
  <2>8. Healthy'
    <3>1. \A s \in Requests : request'[s].kind \in Subs
                            => request'[s].stage # "forget" /\ request'[s].outcome # "capability"
      BY <2>3 DEF Healthy
    <3>2. QED
      BY <1>1, <2>7, <3>1 DEF Healthy
  <2>9. Apart'
    BY <1>1, <1>2, <2>4, <2>5 DEF Apart, Under, Idle
  <2>10. Claimed'
    BY <1>1, <2>4, <2>6 DEF Claimed
  <2>11. Agreed'
    BY <1>1, <1>2, <2>4, <2>5, <2>7 DEF Agreed
  <2>12. QED
    BY <2>8, <2>9, <2>10, <2>11
<1>3. CASE ~desired
  <2>1. request' = request
    BY <1>3 DEF Restore
  <2>2. /\ NeverSub => NeverSub'
        /\ \A r \in Requests : (Forgetful(r)' <=> Forgetful(r)) /\ (Attach(r)' <=> Attach(r))
        /\ UnsubAhead' <=> UnsubAhead
        /\ \A k : Under(k)' <=> Under(k)
    BY <1>1, <2>1 DEF NeverSub, Forgetful, Attach, UnsubAhead, DetachAt, Under, Idle
  <2>3. Healthy' /\ Apart' /\ Claimed'
    BY <1>1, <2>1, <2>2 DEF Healthy, Apart, Claimed
  <2>4. Agreed'
    BY <1>1, <1>3, <2>1, <2>2 DEF Agreed
  <2>5. QED
    BY <2>3, <2>4
<1>4. QED
  BY <1>2, <1>3

(* An attach begins: no Detach is on its way to its unsub, and no attach is under way. *)
LEMMA SettledAttachBegins ==
    ASSUME TypeOK, RememberInv, Calm, Calm', Settled, NEW i \in Instances, AttachBegins(i)
    PROVE  Settled'
<1> USE DEF Settled, Calm, intentVars, connVars, wireVars
<1>1. /\ UNCHANGED <<desired, epoch, conn, hasConnectedBefore, restoring, events, toClient>>
      /\ Eventual' <=> Eventual
      /\ state' = [state EXCEPT ![i] = "attaching"]
      /\ ~Under("attach") /\ ~DetachPending /\ ~DetachAt("connect")
  BY EventualKept DEF AttachBegins
<1>2. PICK r \in Requests : Idle(r) /\ request' = [request EXCEPT ![r] = New("attach", i, "remember")]
  BY DEF AttachBegins, FreshId
<1>3. /\ request'[r].kind = "attach" /\ request'[r].stage = "remember" /\ request'[r].outcome = "none"
      /\ request'[r].owner = i
      /\ \A s \in Requests : s # r => request'[s] = request[s]
  BY <1>2 DEF New, TypeOK
<1>4. ASSUME NEW s \in Requests
      PROVE  /\ Forgetful(s)' <=> Forgetful(s)
             /\ Attach(s)' => s = r
             /\ request'[s].stage \notin {"idle", "remember"} => request'[s] = request[s]
             /\ request[s].stage # "idle" => request'[s] = request[s]
  <2>1. CASE s = r
    BY <1>2, <1>3, <2>1 DEF Forgetful, Attach, Idle
  <2>2. CASE s # r
    BY <1>1, <1>3, <2>2 DEF Forgetful, Attach, Idle, Under
  <2>3. QED
    BY <2>1, <2>2
<1>5. ~UnsubAhead' /\ ~UnsubAhead
  BY <1>1, <1>4 DEF UnsubAhead, DetachAt, DetachPending
<1>6. /\ SubAhead => SubAhead'
      /\ Under("restore")' => Under("restore")
      /\ Under("detach")' => Under("detach")
  BY <1>3, <1>4 DEF SubAhead, Under, Idle
<1>7. state'[i] = "attaching" /\ \A j \in Instances : j # i => state'[j] = state[j]
  BY <1>1 DEF TypeOK
<1>8. NeverSub => NeverSub'
  BY <1>3, <1>7 DEF NeverSub
<1>9. Healthy'
  <2>1. \A s \in Requests : request'[s].kind \in Subs
                            => request'[s].stage # "forget" /\ request'[s].outcome # "capability"
    BY <1>3 DEF Healthy
  <2>2. QED
    BY <1>1, <1>8, <2>1 DEF Healthy
<1>10. Apart'
  BY <1>1, <1>3, <1>4, <1>5, <1>6 DEF Apart
<1>11. Claimed'
  BY <1>1, <1>3, <1>4, <1>7 DEF Claimed, Wanting
<1>12. Agreed'
  BY <1>1, <1>4, <1>5, <1>6, <1>8 DEF Agreed
<1>13. QED
  BY <1>9, <1>10, <1>11, <1>12

(* The intent is remembered, with an epoch no Detach has read. *)
LEMMA SettledRemember ==
    ASSUME TypeOK, RememberInv, Calm, Settled, NEW r \in Requests, Remember(r)
    PROVE  Settled'
<1> USE DEF Settled, Calm, channelVars, connVars, wireVars
<1>1. /\ UNCHANGED <<state, conn, hasConnectedBefore, restoring, events, toClient>>
      /\ Eventual' <=> Eventual
      /\ desired' = TRUE /\ epoch' = epoch + 1
      /\ request[r].stage = "remember"
  BY EventualKept DEF Remember
<1>2. Shape(r) /\ request[r].kind = "attach" /\ Attach(r)
  BY <1>1 DEF RememberInv, Shape, Attach, Idle
<1>3. /\ request[r] \in RequestRecords /\ epoch \in Nat
      /\ request'[r] = [request[r] EXCEPT !.stage = "connect"]
      /\ \A s \in Requests : s # r => request'[s] = request[s]
  BY DEF Remember, TypeOK
<1>4. /\ request'[r].kind = "attach" /\ request'[r].owner = request[r].owner
      /\ request'[r].outcome = request[r].outcome /\ request'[r].stage = "connect"
  BY <1>2, <1>3 DEF RequestRecords
<1>5. ~UnsubAhead
  BY <1>1 DEF Apart
<1>6. \A s \in Requests : request[s].epoch < epoch' /\ request[s].epoch \in Nat
  BY <1>1, <1>3 DEF RememberInv, Shape, TypeOK, RequestRecords
<1>7. ASSUME NEW s \in Requests
      PROVE  /\ ~Forgetful(s)'
             /\ Attach(s)' => Attach(s) /\ request'[s].owner = request[s].owner
             /\ request'[s].kind = request[s].kind
             /\ Idle(s)' <=> Idle(s)
             /\ request[s].kind = "detach" => request'[s] = request[s]
  <2>1. CASE s = r
    BY <1>1, <1>2, <1>4, <2>1 DEF Forgetful, Attach, Idle
  <2>2. CASE s # r
    <3>1. request'[s] = request[s] /\ request[s].epoch # epoch'
      BY <1>3, <1>6, <2>2
    <3>2. QED
      BY <1>5, <3>1 DEF Forgetful, Attach, Idle, UnsubAhead, DetachAt
  <2>3. QED
    BY <2>1, <2>2
<1>8. ~UnsubAhead'
  BY <1>5, <1>7 DEF UnsubAhead, DetachAt
<1>9. SubAhead' /\ \A k : Under(k)' <=> Under(k)
  BY <1>4, <1>7 DEF SubAhead, Subs, Under
<1>10. NeverSub => NeverSub'
  BY <1>1, <1>2, <1>3, <1>4 DEF NeverSub, Subs
<1>11. Healthy'
  <2>1. \A s \in Requests : request'[s].kind \in Subs
                            => request'[s].stage # "forget" /\ request'[s].outcome # "capability"
    BY <1>2, <1>3, <1>4 DEF Healthy, Subs
  <2>2. QED
    BY <1>1, <1>10, <2>1 DEF Healthy
<1>12. Apart'
  BY <1>1, <1>8, <1>9 DEF Apart, UnsubAhead, DetachAt
<1>13. Claimed'
  <2>1. request[r].owner \in Instances /\ state[request[r].owner] \in Wanting
    BY <1>2 DEF Claimed, Shape, TypeOK
  <2>2. QED
    BY <1>1, <1>7, <2>1 DEF Claimed
<1>14. Agreed'
  BY <1>1, <1>7, <1>9 DEF Agreed
<1>15. QED
  BY <1>11, <1>12, <1>13, <1>14

(* A Detach begins: no attach and no restore is under way. *)
LEMMA SettledDetachBegins ==
    ASSUME TypeOK, RememberInv, Calm, Calm', Settled, NEW i \in Instances, DetachBegins(i)
    PROVE  Settled'
<1> USE DEF Settled, Calm, intentVars, connVars, wireVars
<1>1. /\ UNCHANGED <<desired, epoch, conn, hasConnectedBefore, restoring, events, toClient>>
      /\ Eventual' <=> Eventual
      /\ state' = [state EXCEPT ![i] = "detaching"]
      /\ ~Under("attach") /\ ~Under("restore")
  BY EventualKept DEF DetachBegins
<1>2. PICK r \in Requests : Idle(r) /\ request' = [request EXCEPT ![r] = New("detach", i, "epoch")]
  BY DEF DetachBegins, FreshId
<1>3. /\ request'[r].kind = "detach" /\ request'[r].stage = "epoch"
      /\ \A s \in Requests : s # r => request'[s] = request[s]
  BY <1>2 DEF New, TypeOK
<1>4. ASSUME NEW s \in Requests
      PROVE  /\ request'[s].kind = "attach" => Idle(s)'
             /\ request'[s].kind = "restore" => Idle(s)'
             /\ request'[s].stage \notin {"idle", "epoch"} => request'[s] = request[s]
             /\ Forgetful(s)' /\ request'[s].stage \in {"sent", "forget"}
                => Forgetful(s) /\ request'[s] = request[s]
  <2>1. CASE s = r
    BY <1>3, <2>1
  <2>2. CASE s # r
    BY <1>1, <1>3, <2>2 DEF Under, Idle, Forgetful
  <2>3. QED
    BY <2>1, <2>2
<1>5. Forgetful(r)'
  BY <1>3 DEF Forgetful
<1>6. UnsubAhead'
  BY <1>3 DEF UnsubAhead, DetachAt
<1>7. \A j \in Instances : state'[j] = "attached" => state[j] = "attached"
  BY <1>1 DEF TypeOK
<1>8. NeverSub => NeverSub'
  BY <1>3, <1>7 DEF NeverSub, Subs
<1>9. Healthy'
  <2>1. \A s \in Requests : request'[s].kind \in Subs
                            => request'[s].stage # "forget" /\ request'[s].outcome # "capability"
    BY <1>3 DEF Healthy, Subs
  <2>2. QED
    BY <1>1, <1>8, <2>1 DEF Healthy
<1>10. Apart'
  <2>1. ~Under("restore")'
    BY <1>4 DEF Under
  <2>2. ASSUME NEW s \in Requests PROVE request'[s].stage # "remember"
    <3>1. request'[s].stage = "remember" => request'[s] = request[s] /\ request[s].kind = "attach"
      BY <1>4 DEF RememberInv, Shape
    <3>2. QED
      BY <1>4, <3>1 DEF Idle
  <2>3. QED
    BY <1>1, <1>4, <2>1, <2>2 DEF Apart
<1>11. Claimed'
  BY <1>4, <1>5 DEF Claimed, Attach
<1>12. Agreed'
  BY <1>1, <1>4, <1>5, <1>6 DEF Agreed
<1>13. QED
  BY <1>9, <1>10, <1>11, <1>12

(* A Detach reads the epoch; its unsub is ahead before and after. *)
LEMMA SettledReadEpoch ==
    ASSUME TypeOK, RememberInv, Settled, NEW r \in Requests, ReadEpoch(r)
    PROVE  Settled'
<1> USE DEF Settled, intentVars, channelVars, connVars, wireVars
<1>1. /\ UNCHANGED <<desired, epoch, state, conn, hasConnectedBefore, restoring, events, toClient>>
      /\ Eventual' <=> Eventual
      /\ request[r].stage = "epoch"
  BY EventualKept DEF ReadEpoch
<1>2. request[r].kind = "detach"
  BY <1>1 DEF RememberInv, Shape
<1>3. /\ request[r] \in RequestRecords
      /\ request'[r] = [request[r] EXCEPT !.stage = "connect", !.epoch = epoch]
      /\ \A s \in Requests : s # r => request'[s] = request[s]
  BY DEF ReadEpoch, TypeOK
<1>4. /\ request'[r].kind = "detach" /\ request'[r].stage = "connect" /\ request'[r].epoch = epoch
  BY <1>2, <1>3 DEF RequestRecords
<1>5. ASSUME NEW s \in Requests
      PROVE  /\ Forgetful(s)' <=> Forgetful(s)
             /\ Attach(s)' => Attach(s)
             /\ request'[s].kind = request[s].kind
             /\ request'[s].stage \notin {"epoch", "connect"} => request'[s] = request[s]
             /\ request'[s].kind \in Subs => request'[s] = request[s]
             /\ Idle(s)' <=> Idle(s)
  <2>1. CASE s = r
    BY <1>1, <1>2, <1>4, <2>1 DEF Forgetful, Attach, Idle, Subs
  <2>2. CASE s # r
    BY <1>1, <1>3, <2>2 DEF Forgetful, Attach, Idle
  <2>3. QED
    BY <2>1, <2>2
<1>6. UnsubAhead /\ UnsubAhead' /\ Forgetful(r)'
  BY <1>1, <1>2, <1>4 DEF UnsubAhead, DetachAt, Forgetful
<1>7. \A k : Under(k)' <=> Under(k)
  BY <1>5 DEF Under
<1>8. NeverSub => NeverSub'
  BY <1>1, <1>5 DEF NeverSub
<1>9. Healthy'
  <2>1. \A s \in Requests : request'[s].kind \in Subs
                            => request'[s].stage # "forget" /\ request'[s].outcome # "capability"
    BY <1>5 DEF Healthy
  <2>2. QED
    BY <1>1, <1>8, <2>1 DEF Healthy
<1>10. Apart'
  <2>1. \A s \in Requests : request'[s].kind = "detach" /\ request'[s].stage = "connect"
                            => request'[s].epoch = epoch
    BY <1>3, <1>4 DEF Apart
  <2>2. \A s \in Requests : request'[s].stage # "remember"
    BY <1>5, <1>6 DEF Apart
  <2>3. QED
    BY <1>1, <1>7, <2>1, <2>2 DEF Apart
<1>11. Claimed'
  <2>1. \A s \in Requests : Attach(s)' => Attach(s) /\ request'[s] = request[s]
    BY <1>5 DEF Attach, Subs
  <2>2. QED
    BY <1>1, <1>6, <2>1 DEF Claimed
<1>12. Agreed'
  BY <1>1, <1>5, <1>6, <1>8 DEF Agreed
<1>13. QED
  BY <1>9, <1>10, <1>11, <1>12

(* A Detach forgets the intent: the server has then forgotten the channel, or will. *)
LEMMA SettledDetachForgets ==
    ASSUME TypeOK, RememberInv, Calm, Settled, NEW r \in Requests, DetachForgets(r)
    PROVE  Settled'
<1> USE DEF Settled, Calm, channelVars, connVars, wireVars
<1>1. /\ UNCHANGED <<epoch, state, conn, hasConnectedBefore, restoring, events, toClient>>
      /\ Eventual' <=> Eventual
      /\ request[r].stage = "forget" /\ request[r].kind = "detach"
      /\ desired' = (desired /\ request[r].epoch # epoch)
  BY EventualKept DEF DetachForgets
<1>2. /\ request[r] \in RequestRecords
      /\ request'[r] = [request[r] EXCEPT !.stage = "mark", !.epoch = 0]
      /\ \A s \in Requests : s # r => request'[s] = request[s]
  BY DEF DetachForgets, TypeOK
<1>3. request'[r].kind = "detach" /\ request'[r].stage = "mark"
  BY <1>1, <1>2 DEF RequestRecords
<1>4. ASSUME NEW s \in Requests
      PROVE  /\ Forgetful(s)' <=> Forgetful(s) /\ s # r
             /\ Attach(s)' => Attach(s)
             /\ request'[s].kind = request[s].kind
             /\ request'[s].stage # "mark" => request'[s] = request[s]
             /\ request[s].stage \in {"epoch", "connect"} => request'[s] = request[s]
             /\ request'[s].kind \in Subs => request'[s] = request[s]
             /\ Idle(s)' <=> Idle(s)
  <2>1. CASE s = r
    BY <1>1, <1>3, <2>1 DEF Forgetful, Attach, Idle, Subs
  <2>2. CASE s # r
    BY <1>1, <1>2, <2>2 DEF Forgetful, Attach, Idle
  <2>3. QED
    BY <2>1, <2>2
<1>5. Forgetful(r) <=> request[r].epoch = epoch
  BY <1>1 DEF Forgetful
<1>6. UnsubAhead' <=> UnsubAhead
  BY <1>4 DEF UnsubAhead, DetachAt
<1>7. /\ \A k : Under(k)' <=> Under(k)
      /\ SubAhead => SubAhead'
  BY <1>4 DEF Under, SubAhead
<1>8. NeverSub => NeverSub'
  BY <1>1, <1>4 DEF NeverSub
<1>9. Under("detach")
  BY <1>1 DEF Under, Idle
<1>10. Healthy'
  <2>1. \A s \in Requests : request'[s].kind \in Subs
                            => request'[s].stage # "forget" /\ request'[s].outcome # "capability"
    BY <1>4 DEF Healthy
  <2>2. QED
    BY <1>1, <1>8, <2>1 DEF Healthy
<1>11. Apart'
  <2>1. ~Under("restore")'
    BY <1>7, <1>9 DEF Apart
  <2>2. QED
    BY <1>1, <1>4, <1>6, <2>1 DEF Apart
<1>12. Claimed'
  <2>1. \A s \in Requests : Attach(s)' => Attach(s) /\ request'[s] = request[s]
    BY <1>4 DEF Attach, Subs
  <2>2. desired' => desired /\ ~Forgetful(r)
    BY <1>1, <1>5
  <2>3. QED
    BY <1>1, <1>4, <2>1, <2>2 DEF Claimed
<1>13. Agreed'
  <2>1. CASE Forgetful(r)
    <3>1. ~Eventual /\ ~desired'
      BY <1>1, <1>5, <2>1 DEF Agreed
    <3>2. QED
      BY <1>1, <3>1 DEF Agreed
  <2>2. CASE ~Forgetful(r)
    <3>1. desired' <=> desired
      BY <1>1, <1>5, <2>2
    <3>2. \A s \in Requests : Forgetful(s)' <=> Forgetful(s)
      BY <1>4, <2>2
    <3>3. \A s \in Requests : Forgetful(s)' /\ request'[s].stage \in {"sent", "forget"} => ~Eventual'
      BY <1>1, <1>4, <3>2 DEF Agreed
    <3>4. QED
      BY <1>1, <1>6, <1>7, <1>8, <3>1, <3>2, <3>3 DEF Agreed
  <2>3. QED
    BY <2>1, <2>2
<1>14. QED
  BY <1>10, <1>11, <1>12, <1>13

(* A goroutine ends: with the mark of its attach or of its detach, or as a restore. *)
LEMMA SettledEnds ==
    ASSUME TypeOK, RememberInv, Calm, Settled, NEW r \in Requests,
           AttachMarks(r) \/ DetachMarks(r) \/ Resumed(r)
    PROVE  Settled'
<1> USE DEF Settled, Calm, intentVars, connVars, wireVars
<1>1. /\ UNCHANGED <<desired, epoch, conn, hasConnectedBefore, restoring, events, toClient>>
      /\ Eventual' <=> Eventual
      /\ Finish(r)
  BY EventualKept DEF AttachMarks, DetachMarks, Resumed
<1>2. request[r].stage \in {"forget", "mark"}
  BY DEF AttachMarks, DetachMarks, Resumed
<1>3. request'[r] = NoRequest /\ \A s \in Requests : s # r => request'[s] = request[s]
  BY <1>1 DEF Finish, TypeOK
<1>4. request'[r].stage = "idle" /\ request'[r].kind = "restore" /\ request'[r].outcome = "none"
  BY <1>3 DEF NoRequest, New
<1>5. ASSUME NEW i \in Instances
      PROVE  /\ state[i] \in Wanting => state'[i] \in Wanting
             /\ state'[i] = "attached" => \/ state[i] = "attached"
                                          \/ request[r].kind \in Subs /\ request[r].outcome = "ok"
  <2>1. state \in [Instances -> ChannelStates]
    BY DEF TypeOK
  <2>2. CASE AttachMarks(r)
    <3>1. request[r].outcome # "capability" /\ request[r].kind = "attach"
      BY <2>2 DEF AttachMarks, Healthy, Subs
    <3>2. state' = [state EXCEPT ![request[r].owner] = StateAfterAttach(request[r].outcome)]
      BY <2>2 DEF AttachMarks
    <3>3. state'[i] = state[i] \/ state'[i] = StateAfterAttach(request[r].outcome)
      BY <2>1, <3>2
    <3>4. QED
      BY <3>1, <3>3 DEF StateAfterAttach, Wanting, Subs
  <2>3. CASE DetachMarks(r)
    BY <2>1, <2>3 DEF DetachMarks, Wanting
  <2>4. CASE Resumed(r)
    BY <2>1, <2>4 DEF Resumed, Wanting, Subs
  <2>5. QED
    BY <2>2, <2>3, <2>4
<1>6. ASSUME NEW s \in Requests
      PROVE  /\ Forgetful(s)' => Forgetful(s) /\ request'[s] = request[s]
             /\ Attach(s)' => Attach(s) /\ request'[s] = request[s]
             /\ request[s].stage \notin {"forget", "mark"} => request'[s] = request[s]
             /\ request'[s].stage # "idle" => request'[s] = request[s]
  <2>1. CASE s = r
    BY <1>2, <1>4, <2>1 DEF Forgetful, Attach, Idle
  <2>2. CASE s # r
    BY <1>1, <1>3, <2>2 DEF Forgetful, Attach, Idle
  <2>3. QED
    BY <2>1, <2>2
<1>7. Forgetful(r) => request[r].stage = "forget" /\ request[r].kind = "detach"
  BY <1>2 DEF Forgetful
<1>8. ~Forgetful(r)
  BY <1>7, <1>2 DEF AttachMarks, DetachMarks, Resumed
<1>9. \A s \in Requests : Forgetful(s)' <=> Forgetful(s)
  BY <1>1, <1>3, <1>6, <1>8 DEF Forgetful
<1>10. /\ UnsubAhead' <=> UnsubAhead
       /\ SubAhead => SubAhead'
       /\ \A k : Under(k)' => Under(k)
  BY <1>6 DEF UnsubAhead, SubAhead, DetachAt, Under, Idle
<1>11. NeverSub => NeverSub'
  BY <1>3, <1>4, <1>5 DEF NeverSub
<1>12. Healthy'
  <2>1. \A s \in Requests : request'[s].kind \in Subs
                            => request'[s].stage # "forget" /\ request'[s].outcome # "capability"
    BY <1>3, <1>4 DEF Healthy
  <2>2. QED
    BY <1>1, <1>11, <2>1 DEF Healthy
<1>13. Apart'
  BY <1>1, <1>6, <1>10 DEF Apart
<1>14. Claimed'
  <2>1. \A s \in Requests : Attach(s) => request[s].owner \in Instances
    BY DEF RememberInv, Shape, TypeOK
  <2>2. QED
    BY <1>1, <1>5, <1>6, <1>9, <2>1 DEF Claimed
<1>15. Agreed'
  BY <1>1, <1>6, <1>9, <1>10, <1>11 DEF Agreed
<1>16. QED
  BY <1>12, <1>13, <1>14, <1>15

-----------------------------------------------------------------------------
LEMMA SettledStep == TypeOK /\ TypeOK' /\ RememberInv /\ SettledInv /\ [Next]_vars => SettledInv'
<1> SUFFICES ASSUME TypeOK, TypeOK', RememberInv, SettledInv, [Next]_vars PROVE SettledInv'
  OBVIOUS
<1> USE DEF connVars, intentVars, wireVars, registryVars, channelVars
<1>1. AttachingOwned'
  BY OwnedStep DEF SettledInv
<1>2. SUFFICES ASSUME Calm' PROVE Settled'
  BY <1>1 DEF SettledInv, Settled
<1>3. Calm
  <2>1. overlapped \in BOOLEAN /\ parted \in BOOLEAN
    BY DEF TypeOK
  <2>2. overlapped => overlapped'
    BY <2>1 DEF Next, vars, RequestStep, Connects, Restore, SocketClosed, AttemptFails, Close,
                ServerAnswers, ReadAnswer, Dispatch, Send, SendFails, Cancel, AttachBegins, Remember,
                AttachForgets, AttachMarks, DetachBegins, Detach, ReadEpoch, DetachForgets,
                DetachMarks, Resumed, Get, ReleaseBegins, ReleaseUnregisters, ReleaseDetaches
  <2>3. parted => parted'
    BY <2>1 DEF Next, vars, RequestStep, Connects, Restore, SocketClosed, AttemptFails, Close,
                ServerAnswers, ReadAnswer, Dispatch, Send, SendFails, Cancel, AttachBegins, Remember,
                AttachForgets, AttachMarks, DetachBegins, Detach, ReadEpoch, DetachForgets,
                DetachMarks, Resumed, Get, ReleaseBegins, ReleaseUnregisters, ReleaseDetaches
  <2>4. QED
    BY <1>2, <2>2, <2>3 DEF Calm
<1>4. Settled
  BY <1>3 DEF SettledInv, Settled
<1>5. ASSUME UNCHANGED <<connVars, intentVars, events, wireVars, state, request>>
      PROVE  Settled'
  <2>1. Eventual' <=> Eventual
    BY <1>5, EventualKept
  <2>2. /\ \A n \in DOMAIN events' : events'[n] \in {"connected", "disconnected"}
        /\ \A n \in DOMAIN toClient' : toClient'[n].outcome = "ok"
    BY <1>4, <1>5 DEF Settled, Healthy
  <2>3. QED
    BY <1>4, <1>5, <2>1, <2>2, SettledUnmoved
<1>6. CASE UNCHANGED vars
  BY <1>5, <1>6 DEF vars
<1>7. CASE Connects \/ AttemptFails \/ ServerAnswers \/ SocketClosed \/ Close
  BY <1>2, <1>3, <1>4, <1>7, SettledConnection
<1>8. CASE ReadAnswer \/ \E r \in Requests : SendFails(r) \/ Cancel(r)
  BY <1>2, <1>3, <1>4, <1>8, SettledAnswered
<1>9. CASE Restore \/ Dispatch
  BY <1>2, <1>3, <1>4, <1>9, SettledRestore, SettledDispatch
<1>10. ASSUME NEW r \in Requests,
              Remember(r) \/ Send(r) \/ ReadEpoch(r) \/ DetachForgets(r)
       PROVE  Settled'
  BY <1>3, <1>4, <1>10, SettledRemember, SettledSend, SettledReadEpoch, SettledDetachForgets
<1>11. ASSUME NEW r \in Requests, AttachMarks(r) \/ DetachMarks(r) \/ Resumed(r)
       PROVE  Settled'
  BY <1>3, <1>4, <1>11, SettledEnds
<1>12. ASSUME NEW r \in Requests, AttachForgets(r)
       PROVE  Settled'
  BY <1>4, <1>12 DEF AttachForgets, Settled, Healthy, Subs
<1>13. ASSUME NEW i \in Instances, DetachBegins(i)
       PROVE  Settled'
  BY <1>2, <1>3, <1>4, <1>13, SettledDetachBegins
<1>14. ASSUME NEW i \in Instances,
              \/ Get(i) \/ AttachBegins(i) \/ Detach(i)
              \/ ReleaseBegins(i) \/ ReleaseUnregisters(i) \/ ReleaseDetaches(i)
       PROVE  Settled'
  <2>1. CASE AttachBegins(i)
    BY <1>2, <1>3, <1>4, <2>1, SettledAttachBegins
  <2>2. CASE Detach(i)
    BY <1>13, <2>2 DEF Detach
  <2>3. CASE ReleaseDetaches(i)
    BY <1>5, <1>13, <2>3 DEF ReleaseDetaches
  <2>4. CASE Get(i) \/ ReleaseBegins(i) \/ ReleaseUnregisters(i)
    BY <1>5, <2>4 DEF Get, ReleaseBegins, ReleaseUnregisters
  <2>5. QED
    BY <1>14, <2>1, <2>2, <2>3, <2>4
<1>15. QED
  BY <1>6, <1>7, <1>8, <1>9, <1>10, <1>11, <1>12, <1>14 DEF Next, RequestStep

LEMMA SettledCorrect == Spec => []SettledInv
BY TypeCorrect, RememberInit, RememberStep, SettledInit, SettledStep, PTL DEF Spec

(* What the parts say of a client on which nothing is under way. *)
LEMMA QuietMeans ==
    ASSUME Quiet
    PROVE  /\ \A r \in Requests : ~Attach(r) /\ ~Forgetful(r)
           /\ ~SubAhead /\ ~UnsubAhead
           /\ Eventual <=> subscribed
BY DEF Quiet, Attach, Forgetful, SubAhead, UnsubAhead, DetachAt, Idle, Eventual

(* Once all is quiet, a channel that shows attached is one the server delivers: no drop,  *)
(* restore or late ack leaves it attached in name only, with any number of instances,     *)
(* requests and reconnects, and however late the listeners run.                           *)
THEOREM AttachedAlwaysSubscribed == Spec => []AttachedIsSubscribed
<1>1. RememberInv /\ SettledInv => AttachedIsSubscribed
  <2> SUFFICES ASSUME RememberInv, SettledInv, NEW i \in Instances, Quiet, byName = i,
                      state[i] = "attached", Calm
               PROVE  subscribed
    BY DEF AttachedIsSubscribed, Calm
  <2>1. ~attaching[i]
    BY QuietMeans DEF SettledInv, AttachingOwned
  <2>2. desired
    BY <2>1 DEF RememberInv, CountingRemembered, Counting, Calm
  <2>3. ~NeverSub
    BY DEF NeverSub
  <2>4. Eventual
    BY <2>2, <2>3, QuietMeans DEF SettledInv, Settled, Agreed, Quiet
  <2>5. QED
    BY <2>4, QuietMeans
<1>2. QED
  BY <1>1, TypeCorrect, RememberInit, RememberStep, SettledCorrect, PTL DEF Spec

(* Once all is quiet and no instance is attached, neither the server nor the next         *)
(* reconnect delivers the channel: Detach and Release undo an attach completely.          *)
THEOREM DetachedAlwaysForgotten == Spec => []DetachedIsForgotten
<1>1. SettledInv => DetachedIsForgotten
  <2> SUFFICES ASSUME SettledInv, Quiet, Calm,
                      \A i \in Instances : state[i] \in {"initialized", "detached"}
               PROVE  ~desired /\ ~subscribed
    BY DEF DetachedIsForgotten, Calm
  <2>1. ~desired
    BY QuietMeans DEF SettledInv, Settled, Claimed, Wanting
  <2>2. ~Eventual
    BY <2>1, QuietMeans DEF SettledInv, Settled, Agreed
  <2>3. QED
    BY <2>1, <2>2, QuietMeans
<1>2. QED
  BY <1>1, SettledCorrect, PTL
=============================================================================
