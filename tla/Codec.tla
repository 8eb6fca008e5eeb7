-------------------------------- MODULE Codec ---------------------------------
(***************************************************************************)
(* The binary protocol (src/binary.go): how frames become bytes, and how   *)
(* one WebSocket message, which carries several length-prefixed records    *)
(* and may be cut or damaged, becomes frames again.                        *)
(*                                                                         *)
(* A layout is the sequence of the fields of a frame in the order they are *)
(* written or read; writers and readers have layouts of their own, as in   *)
(* the code.                                                               *)
(***************************************************************************)
EXTENDS Wire, Integers, FiniteSets, SequencesExt

CONSTANTS
    ServerSamples, \* the frames the server sends
    ClientSamples, \* the frames the client sends
    MaxFrames,     \* bound: records in one WebSocket message
    Damages        \* what a damaged byte becomes

Opcode ==
    [auth |-> 1, sub |-> 2, unsub |-> 3, pub |-> 4, pres |-> 5, presSub |-> 6,
     presUnsub |-> 7, hist |-> 8, fetch |-> 9, ping |-> 10, connected |-> 11,
     ack |-> 12, msg |-> 13, presEvt |-> 14, err |-> 15, pong |-> 16,
     histRes |-> 17, fetchRes |-> 18, batch |-> 19]

-----------------------------------------------------------------------------
(* Writing. *)

Uvarint[n \in Nat] ==
    IF n < 128 THEN <<n>> ELSE <<128 + (n % 128)>> \o Uvarint[n \div 128]

appendBytes(text) == Uvarint[Len(text)] \o text

Numeric == {"id", "lastSerial", "limit", "before", "fromSerial", "keepAliveMs",
            "seq", "timestamp", "code"}

PutField(frame, x) ==
    IF x \in Numeric THEN Uvarint[frame[x]] ELSE appendBytes(frame[x])

Put(frame, layout) == FlattenSeq([i \in DOMAIN layout |-> PutField(frame, layout[i])])

(* A count and as many items. *)
PutAll(items, Item(_)) ==
    Uvarint[Len(items)] \o FlattenSeq([i \in DOMAIN items |-> Item(items[i])])

Flag(set, bit) == IF set THEN bit ELSE 0

presenceActionByte(action) ==
    CASE action = "enter" -> 1 [] action = "leave" -> 2 [] action = "update" -> 3

PutMember(m) == Put(m, <<"name", "data", "encoding">>)

(* Mutant: the reserved slot is not written. *)
EncodePublishUnreserved(f) ==
    <<Opcode.pub, Flag(f.ephemeral, 1)>>
      \o Put(f, <<"id", "channel", "name", "data", "encoding", "messageID">>)
      \o PutAll(f.members, PutMember)

(* encodeBinaryPublish; 0 is the reserved slot. *)
EncodePublish(f) ==
    <<Opcode.pub, Flag(f.ephemeral, 1)>>
      \o Put(f, <<"id", "channel", "name", "data", "encoding", "messageID">>)
      \o Uvarint[0] \o PutAll(f.members, PutMember)

ClientLayout ==
    [sub |-> <<"id", "lastSerial", "channel">>,
     unsub |-> <<"id", "channel">>,
     presSub |-> <<"id", "channel">>,
     presUnsub |-> <<"id", "channel">>,
     hist |-> <<"id", "limit", "channel", "before">>,
     fetch |-> <<"id", "fromSerial", "channel">>,
     ping |-> <<>>]

encodeClientFrame(f) ==
    CASE f.kind = "auth" ->
           <<Opcode.auth, 0>> \o Put(f, <<"token", "key", "clientID", "resumeConnectionID">>)
      [] f.kind = "pub" -> EncodePublish(f)
      [] f.kind = "pres" ->
           <<Opcode.pres, presenceActionByte(f.action)>>
             \o Put(f, <<"id", "channel", "data", "encoding">>)
      [] OTHER -> <<Opcode[f.kind]>> \o Put(f, ClientLayout[f.kind])

(* pushBatchFields, after the flags byte. *)
PutBatch(m) ==
    Put(m, <<"timestamp", "channel", "messageID", "clientID", "seq">>)
      \o PutAll(m.members, PutMember)

(* pushMember *)
PutMessage(m) ==
    IF m.members # <<>> THEN <<Flag(m.ephemeral, 1) + 2>> \o PutBatch(m)
    ELSE <<Flag(m.ephemeral, 1)>>
           \o Put(m, <<"timestamp", "channel", "name", "data", "messageID",
                       "clientID", "encoding", "seq">>)

(* bundledToMsg *)
Widen(m, channel) == [x \in DOMAIN m \cup {"channel"} |->
                         IF x = "channel" THEN channel ELSE m[x]]

EncodeResponse(f) ==
    <<Opcode[f.kind], Flag(f.flag, 1)>> \o Put(f, <<"id", "channel">>)
      \o PutAll(f.messages, LAMBDA m : PutMessage([m EXCEPT !.channel = f.channel]))

ServerLayout ==
    [connected |-> <<"connectionID", "keepAliveMs", "clientID">>,
     err |-> <<"id", "code", "message">>,
     pong |-> <<>>]

encodeServerFrame(f) ==
    CASE f.kind = "ack" ->
           <<Opcode.ack, CASE f.resumed = "nil" -> 0 [] f.resumed = "no" -> 1
                           [] f.resumed = "yes" -> 3>> \o Put(f, <<"id", "seq">>)
      [] f.kind = "msg" /\ f.message.members # <<>> ->
           <<Opcode.batch, Flag(f.message.ephemeral, 1)>> \o PutBatch(f.message)
      [] f.kind = "msg" /\ f.message.members = <<>> ->
           <<Opcode.msg, 1>> \o PutMessage(f.message)
      [] f.kind = "bundle" ->
           <<Opcode.msg>> \o PutAll(f.bundle, LAMBDA m : PutMessage(Widen(m, f.channel)))
      [] f.kind = "presEvt" ->
           <<Opcode.presEvt, presenceActionByte(f.action)>>
             \o Put(f, <<"timestamp", "channel", "clientID", "connectionID", "data",
                         "encoding">>)
      [] f.kind \in {"histRes", "fetchRes"} -> EncodeResponse(f)
      [] OTHER -> <<Opcode[f.kind]>> \o Put(f, ServerLayout[f.kind])

(* frameBinaryRecord *)
FrameRecord(record) == appendBytes(record)

(* What the writers rely on: a batch has no name, data and encoding of its  *)
(* own, a bundle has messages, and a record is as long as fits in memory.  *)
PlainBatch(m) == m.members # <<>> => m.name = <<>> /\ m.data = <<>> /\ m.encoding = <<>>
Sendable(f) ==
    /\ f.kind = "msg" => PlainBatch(f.message)
    /\ f.kind = "bundle" =>
          f.bundle # <<>> /\ \A i \in DOMAIN f.bundle : PlainBatch(f.bundle[i])
    /\ f.kind \in {"histRes", "fetchRes"} =>
          \A i \in DOMAIN f.messages : PlainBatch(f.messages[i])
    /\ Len(encodeServerFrame(f)) \in Uint64

ASSUME CodecAssumption ==
    /\ \A f \in ServerSamples : f \in ServerFrame /\ Sendable(f)
    /\ \A f \in ClientSamples :
          f \in ClientFrame /\ Len(encodeClientFrame(f)) \in Uint64
    /\ MaxFrames \in Nat /\ Damages \subseteq Byte

-----------------------------------------------------------------------------
(* Reading: binReader.  Each read returns the reader after it and a value; *)
(* the first error makes every later read empty.                           *)

Reader(buf) == [buf |-> buf, err |-> FALSE]
Truncated(rd) == [rd EXCEPT !.err = TRUE]
Skip(rd, n) == [rd EXCEPT !.buf = SubSeq(@, n + 1, Len(@))]

GetByte(rd) ==
    IF rd.err \/ rd.buf = <<>> THEN [rd |-> Truncated(rd), value |-> 0]
    ELSE [rd |-> Skip(rd, 1), value |-> rd.buf[1]]

(* binary.Uvarint ends at the first byte below 128 and overflows after     *)
(* MaxVarintLen bytes or on a last byte that does not fit.                 *)
GetUvarint(rd) ==
    LET ends == {i \in DOMAIN rd.buf \cap 1 .. MaxVarintLen : rd.buf[i] < 128}
        n == Min(ends)
        value[i \in 1 .. MaxVarintLen + 1] ==
            IF i > n THEN 0 ELSE (rd.buf[i] % 128) + 128 * value[i + 1]
    IN  IF \/ rd.err \/ ends = {}
           \/ n = MaxVarintLen /\ rd.buf[n] > MaxLastByte
        THEN [rd |-> Truncated(rd), value |-> 0]
        ELSE [rd |-> Skip(rd, n), value |-> value[1]]

(* Mutant: a field that is cut short yields what is there. *)
GetSliceClamped(rd) ==
    LET length == GetUvarint(rd)
        n == IF length.value > Len(length.rd.buf) THEN Len(length.rd.buf) ELSE length.value
    IN  [rd |-> Skip(length.rd, n), value |-> SubSeq(length.rd.buf, 1, n)]

(* slice, str and jsonField *)
GetSlice(rd) ==
    LET length == GetUvarint(rd)
    IN  IF length.rd.err \/ length.value > Len(length.rd.buf)
        THEN [rd |-> Truncated(length.rd), value |-> <<>>]
        ELSE [rd |-> Skip(length.rd, length.value),
              value |-> SubSeq(length.rd.buf, 1, length.value)]

GetField(rd, x) == IF x \in Numeric THEN GetUvarint(rd) ELSE GetSlice(rd)

(* The fields of f, and those of g that f does not have. *)
Join(f, g) == [x \in DOMAIN f \cup DOMAIN g |-> IF x \in DOMAIN f THEN f[x] ELSE g[x]]

(* got: what is read of the layout, or of the items, when i are read.       *)
AddField(got, x) ==
    LET one == GetField(got.rd, x)
    IN  [rd |-> one.rd, value |-> Join(got.value, [y \in {x} |-> one.value])]

Get(rd, layout) ==
    LET got[i \in 0 .. Len(layout)] ==
          IF i = 0 THEN [rd |-> rd, value |-> <<>>] ELSE AddField(got[i - 1], layout[i])
    IN  got[Len(layout)]

AddItem(got, one) == [rd |-> one.rd, value |-> Append(got.value, one.value)]

GetItems(rd, count, Item(_)) ==
    LET got[i \in 0 .. count] ==
          IF i = 0 THEN [rd |-> rd, value |-> <<>>]
          ELSE LET last == got[i - 1] IN AddItem(last, Item(last.rd))
    IN  got[count]

(* A count, which the rest of the record must have room for, and the items. *)
GetAll(rd, smallest, slack, Item(_)) ==
    LET count == GetUvarint(rd)
    IN  IF count.value > Len(count.rd.buf) \div smallest + slack
        THEN [rd |-> Truncated(count.rd), value |-> <<>>]
        ELSE GetItems(count.rd, count.value, Item)

(* Mutant: an action this version does not know is passed on. *)
presenceActionFromUnknown(byte) ==
    CASE byte = 2 -> "leave" [] byte = 3 -> "update" [] byte = 1 -> "enter"
      [] OTHER -> "unknown"

presenceActionFrom(byte) ==
    CASE byte = 2 -> "leave" [] byte = 3 -> "update" [] OTHER -> "enter"

HasBit(flags, bit) == (flags \div bit) % 2 = 1
GetMember(rd) == Get(rd, <<"name", "data", "encoding">>)

(* What a layout leaves out stays at the zero value of the Go struct. *)
NoText == [name |-> <<>>, data |-> <<>>, encoding |-> <<>>]

(* readBatchFields *)
GetBatch(rd, flags) ==
    LET head == Get(rd, <<"timestamp", "channel", "messageID", "clientID", "seq">>)
        list == GetAll(head.rd, 3, 0, GetMember)
    IN  [rd |-> list.rd,
         value |-> Join(Join(head.value, NoText),
                        [ephemeral |-> HasBit(flags, 1), members |-> list.value])]

(* readMember *)
GetMessage(rd) ==
    LET flags == GetByte(rd)
        one == Get(flags.rd, <<"timestamp", "channel", "name", "data", "messageID",
                               "clientID", "encoding", "seq">>)
    IN  IF HasBit(flags.value, 2) THEN GetBatch(flags.rd, flags.value)
        ELSE [rd |-> one.rd,
              value |-> Join(one.value, [ephemeral |-> HasBit(flags.value, 1),
                                         members |-> <<>>])]

(* toBundled *)
Narrow(m) == [x \in DOMAIN m \ {"channel"} |-> m[x]]

(* The frame a record or a part of it decodes to, or nil. *)
Nil == [kind |-> "nil"]
Frame(kind, got) == IF got.rd.err THEN Nil ELSE Join([kind |-> kind], got.value)

(* decodeMessage: one is a message of its own, several are a bundle.  The   *)
(* channel of a bundle is that of its last member.                         *)
DecodeMessage(rd) ==
    LET count == GetUvarint(rd)
        one == GetMessage(count.rd)
        list == GetAll(rd, 9, 1, GetMessage)
    IN  IF count.value = 1
        THEN Frame("msg", [rd |-> one.rd, value |-> [message |-> one.value]])
        ELSE Frame("bundle",
               [rd |-> list.rd,
                value |-> [bundle |-> [i \in DOMAIN list.value |-> Narrow(list.value[i])],
                           channel |-> IF list.value = <<>> THEN <<>>
                                       ELSE Last(list.value).channel]])

DecodeResponse(kind, rd) ==
    LET flags == GetByte(rd)
        head == Get(flags.rd, <<"id", "channel">>)
        list == GetAll(head.rd, 9, 1, GetMessage)
    IN  Frame(kind, [rd |-> list.rd,
                     value |-> Join(head.value, [flag |-> HasBit(flags.value, 1),
                                                 messages |-> list.value])])

DecodeAck(rd) ==
    LET flags == GetByte(rd)
        body == Get(flags.rd, <<"id", "seq">>)
    IN  Frame("ack", [body EXCEPT !.value = Join(@,
            [resumed |-> IF ~HasBit(flags.value, 1) THEN "nil"
                         ELSE IF HasBit(flags.value, 2) THEN "yes" ELSE "no"])])

(* A frame that starts with a presence action. *)
DecodeAction(kind, rd, layout) ==
    LET action == GetByte(rd)
        body == Get(action.rd, layout)
    IN  Frame(kind, [body EXCEPT !.value = Join(@,
            [action |-> presenceActionFrom(action.value)])])

(* decodeServerFrame: nil for an unknown opcode and for a malformed record. *)
decodeServerFrame(record) ==
    LET rd == Skip(Reader(record), 1)
        op == record[1]
        flags == GetByte(rd)
        batch == GetBatch(flags.rd, flags.value)
    IN  CASE record = <<>> -> Nil
          [] record # <<>> /\ op = Opcode.connected ->
               Frame("connected", Get(rd, <<"connectionID", "keepAliveMs", "clientID">>))
          [] record # <<>> /\ op = Opcode.ack -> DecodeAck(rd)
          [] record # <<>> /\ op = Opcode.msg -> DecodeMessage(rd)
          [] record # <<>> /\ op = Opcode.batch ->
               Frame("msg", [batch EXCEPT !.value = [message |-> batch.value]])
          [] record # <<>> /\ op = Opcode.presEvt ->
               DecodeAction("presEvt", rd, <<"timestamp", "channel", "clientID",
                                             "connectionID", "data", "encoding">>)
          [] record # <<>> /\ op = Opcode.err ->
               Frame("err", Get(rd, <<"id", "code", "message">>))
          [] record # <<>> /\ op = Opcode.pong -> [kind |-> "pong"]
          [] record # <<>> /\ op = Opcode.histRes -> DecodeResponse("histRes", rd)
          [] record # <<>> /\ op = Opcode.fetchRes -> DecodeResponse("fetchRes", rd)
          [] OTHER -> Nil

DecodePublish(rd) ==
    LET flags == GetByte(rd)
        head == Get(flags.rd, <<"id", "channel", "name", "data", "encoding", "messageID">>)
        reserved == GetUvarint(head.rd)
        list == GetAll(reserved.rd, 3, 0, GetMember)
    IN  Frame("pub", [rd |-> list.rd,
                      value |-> Join(head.value, [ephemeral |-> HasBit(flags.value, 1),
                                                  members |-> list.value])])

ClientReads ==
    [auth |-> <<"token", "key", "clientID", "resumeConnectionID">>,
     sub |-> <<"id", "lastSerial", "channel">>,
     unsub |-> <<"id", "channel">>,
     presSub |-> <<"id", "channel">>,
     presUnsub |-> <<"id", "channel">>,
     hist |-> <<"id", "limit", "channel", "before">>,
     fetch |-> <<"id", "fromSerial", "channel">>,
     ping |-> <<>>]

(* decodeClientRecord, which the fake edge of the tests uses. *)
decodeClientRecord(record) ==
    LET rd == Skip(Reader(record), 1)
        kinds == {k \in DOMAIN ClientReads \cup {"pub", "pres"} :
                     record # <<>> /\ Opcode[k] = record[1]}
        kind == CHOOSE k \in kinds : TRUE
    IN  CASE kinds = {} -> Nil
          [] kinds = {"pub"} -> DecodePublish(rd)
          [] kinds = {"pres"} ->
               DecodeAction("pres", rd, <<"id", "channel", "data", "encoding">>)
          [] kinds = {"auth"} -> Frame("auth", Get(GetByte(rd).rd, ClientReads.auth))
          [] OTHER -> Frame(kind, Get(rd, ClientReads[kind]))

-----------------------------------------------------------------------------
(* One WebSocket message: it is written, arrives whole, cut or damaged, is  *)
(* split into records, and they are decoded.                               *)

VARIABLES
    from,    \* who sent it: server or client
    sent,    \* the frames in it
    body,    \* its bytes
    damage,  \* what happened to it, and where
    phase,   \* write, split, decode, done
    reader,  \* the reader of splitBinaryRecords
    records, \* the records it found, without those decoded
    frames   \* the frames decoded

vars == <<from, sent, body, damage, phase, reader, records, frames>>

TypeOK ==
    /\ from \in {"server", "client"}
    /\ sent \in Seq(ServerFrame \cup ClientFrame)
    /\ body \in Seq(Byte)
    /\ damage \in [kind : {"none", "cut", "byte"}, at : Nat]
    /\ phase \in {"write", "split", "decode", "done"}
    /\ reader \in [buf : Seq(Byte), err : BOOLEAN]
    /\ records \in Seq(Seq(Byte))
    /\ frames \in Seq(IF from = "server" THEN ServerFrame ELSE ClientFrame)

Init ==
    /\ from = "server" /\ sent = <<>> /\ body = <<>>
    /\ damage = [kind |-> "none", at |-> 0]
    /\ phase = "write" /\ reader = Reader(<<>>)
    /\ records = <<>> /\ frames = <<>>

(* The server coalesces frames into one message. *)
ServerWrites(f) ==
    /\ phase = "write" /\ from = "server" /\ Len(sent) < MaxFrames
    /\ sent' = Append(sent, f)
    /\ body' = body \o FrameRecord(encodeServerFrame(f))
    /\ UNCHANGED <<from, damage, phase, reader, records, frames>>

(* Connection.send: one frame per message. *)
ClientWrites(f) ==
    /\ phase = "write" /\ sent = <<>>
    /\ from' = "client" /\ sent' = <<f>>
    /\ body' = FrameRecord(encodeClientFrame(f))
    /\ UNCHANGED <<damage, phase, reader, records, frames>>

Arrives(bytes, what, at) ==
    /\ phase' = "split"
    /\ damage' = [kind |-> what, at |-> at]
    /\ body' = bytes /\ reader' = Reader(bytes)
    /\ UNCHANGED <<from, sent, records, frames>>

OnItsWay == phase = "write" /\ sent # <<>>
ArrivesWhole == OnItsWay /\ Arrives(body, "none", 0)
ArrivesCut ==
    /\ OnItsWay
    /\ \E n \in 0 .. Len(body) - 1 : Arrives(SubSeq(body, 1, n), "cut", n)
ArrivesDamaged ==
    /\ OnItsWay
    /\ \E i \in DOMAIN body : \E b \in Damages \ {body[i]} :
          Arrives([body EXCEPT ![i] = b], "byte", i)

(* splitBinaryRecords: an iteration, the end of the loop. *)
SplitOne ==
    LET record == GetSlice(reader)
    IN  /\ phase = "split"
        /\ reader.buf # <<>> /\ ~reader.err
        /\ reader' = record.rd
        /\ records' = IF record.rd.err THEN records ELSE Append(records, record.value)
        /\ UNCHANGED <<from, sent, body, damage, phase, frames>>

SplitEnds ==
    /\ phase = "split" /\ (reader.buf = <<>> \/ reader.err)
    /\ phase' = "decode"
    /\ UNCHANGED <<from, sent, body, damage, reader, records, frames>>

Decode(record) ==
    IF from = "server" THEN decodeServerFrame(record) ELSE decodeClientRecord(record)

(* Mutant: a record that does not decode spoils the whole message. *)
DecodeOneDiscards ==
    /\ phase = "decode" /\ records # <<>>
    /\ \E frame \in {Decode(Head(records))} :
          IF frame = Nil THEN records' = <<>> /\ frames' = <<>>
          ELSE records' = Tail(records) /\ frames' = Append(frames, frame)
    /\ UNCHANGED <<from, sent, body, damage, phase, reader>>

(* decodeServerFrames: a record that does not decode is left out. *)
DecodeOne ==
    /\ phase = "decode" /\ records # <<>>
    /\ records' = Tail(records)
    /\ \E frame \in {Decode(Head(records))} :
          frames' = IF frame = Nil THEN frames ELSE Append(frames, frame)
    /\ UNCHANGED <<from, sent, body, damage, phase, reader>>

DecodeEnds ==
    /\ phase = "decode" /\ records = <<>>
    /\ phase' = "done"
    /\ UNCHANGED <<from, sent, body, damage, reader, records, frames>>

Next ==
    \/ \E f \in ServerSamples : ServerWrites(f)
    \/ \E f \in ClientSamples : ClientWrites(f)
    \/ ArrivesWhole \/ ArrivesCut \/ ArrivesDamaged
    \/ SplitOne \/ SplitEnds \/ DecodeOne \/ DecodeEnds

Spec == Init /\ [][Next]_vars

-----------------------------------------------------------------------------
(* Properties. *)

(* What a frame is to its receiver: a bundle of one message is that         *)
(* message, and the messages of a response are of its channel.             *)
Received(f) ==
    CASE f.kind = "bundle" /\ Len(f.bundle) = 1 ->
           [kind |-> "msg", message |-> Widen(f.bundle[1], f.channel)]
      [] f.kind \in {"histRes", "fetchRes"} ->
           [f EXCEPT !.messages = [i \in DOMAIN @ |-> [@[i] EXCEPT !.channel = f.channel]]]
      [] OTHER -> f

Wanted == [i \in DOMAIN sent |-> Received(sent[i])]

Written(f) == IF from = "server" THEN encodeServerFrame(f) ELSE encodeClientFrame(f)
Record(f) == FrameRecord(Written(f))

(* Where the record of frame n ends in the bytes sent. *)
End(n) == Len(FlattenSeq([i \in 1 .. n |-> Record(sent[i])]))

(* Both directions carry every frame unchanged, through two pairs of        *)
(* layouts that are written down separately (binary.go:194-273, 457-596     *)
(* against 277-453, 598-669).                                              *)
RoundTrip == phase = "done" /\ damage.kind = "none" => frames = Wanted

(* A message that is cut yields the frames that are whole before the cut    *)
(* and nothing else: "a malformed tail yields the records recovered before  *)
(* it" (binary.go:177-178).                                                *)
CutYieldsWhole ==
    phase = "done" /\ damage.kind = "cut" =>
        frames = SubSeq(Wanted, 1, Cardinality({n \in DOMAIN sent : End(n) <= damage.at}))

(* A damaged byte, in a length prefix or in a record, never costs or        *)
(* changes a frame before it: "a malformed record or tail yields the frames *)
(* decoded before it" (binary.go:343-345). And whatever count or length     *)
(* inside a record it was part of, the record yields one frame at most: the *)
(* counts of members and messages are not believed beyond the record       *)
(* (binary.go:308-313, 424-428, 444-447). Of the frames behind a malformed  *)
(* record nothing is claimed: the comment drops them, the code keeps them.  *)
DamageSparesEarlier ==
    phase = "done" /\ damage.kind = "byte" =>
        /\ \A n \in 0 .. Len(sent) :
              damage.at > End(n) => IsPrefix(SubSeq(Wanted, 1, n), frames)
        /\ \A n \in DOMAIN sent :
              damage.at <= End(n) /\ damage.at > End(n) - Len(Written(sent[n]))
              => Len(frames) <= Len(sent)
=============================================================================
