--------------------------------- MODULE Wire ---------------------------------
(***************************************************************************)
(* The frames of the protocol (src/wire.go) as sets of records.  Text and   *)
(* JSON are sequences of bytes; an absent payload is the empty sequence.   *)
(* Numbers are uint64, and so are lengths and counts.                      *)
(***************************************************************************)
EXTENDS Naturals, Sequences

(* The width of uint64: the bytes of its longest varint, at most 7 bits in  *)
(* each, and the largest last byte of those; 10 and 1 in the code.         *)
CONSTANTS MaxVarintLen, MaxLastByte

ASSUME WireAssumption == MaxVarintLen \in Nat \ {0} /\ MaxLastByte \in 0 .. 127

(* How many values n bytes have: 128 ^ (n - 1) * (MaxLastByte + 1).         *)
Values[n \in Nat] == IF n <= 1 THEN MaxLastByte + 1 ELSE 128 * Values[n - 1]
Uint64 == 0 .. Values[MaxVarintLen] - 1

Byte == 0 .. 255
List(S) == {s \in Seq(S) : Len(s) \in Uint64}
Text == List(Byte)
PresenceAction == {"enter", "leave", "update"}

(* Requests of the client. *)
authFrame == [kind : {"auth"}, token : Text, key : Text, clientID : Text,
              resumeConnectionID : Text]
subscribeFrame == [kind : {"sub"}, channel : Text, id : Uint64, lastSerial : Uint64]
unsubscribeFrame == [kind : {"unsub"}, channel : Text, id : Uint64]
wireMember == [name : Text, data : Text, encoding : Text]
publishFrame == [kind : {"pub"}, channel : Text, name : Text, data : Text,
                 members : List(wireMember), ephemeral : BOOLEAN, messageID : Text,
                 encoding : Text, id : Uint64]
presenceFrame == [kind : {"pres"}, channel : Text, action : PresenceAction,
                  data : Text, encoding : Text, id : Uint64]
presenceSubscribeFrame == [kind : {"presSub"}, channel : Text, id : Uint64]
presenceUnsubscribeFrame == [kind : {"presUnsub"}, channel : Text, id : Uint64]
historyFrame == [kind : {"hist"}, channel : Text, limit : Uint64, before : Uint64, id : Uint64]
fetchFrame == [kind : {"fetch"}, channel : Text, fromSerial : Uint64, id : Uint64]
pingFrame == [kind : {"ping"}]

ClientFrame ==
    authFrame \cup subscribeFrame \cup unsubscribeFrame \cup publishFrame
      \cup presenceFrame \cup presenceSubscribeFrame \cup presenceUnsubscribeFrame
      \cup historyFrame \cup fetchFrame \cup pingFrame

(* Frames of the server. *)
connectedFrame == [kind : {"connected"}, connectionID : Text, keepAliveMs : Uint64,
                   clientID : Text]
ackFrame == [kind : {"ack"}, id : Uint64, resumed : {"nil", "yes", "no"}, seq : Uint64]

(* A message, which is a batch when it has members; in a bundle its channel *)
(* is that of the frame.                                                   *)
bundledMessage == [name : Text, data : Text, timestamp : Uint64, messageID : Text,
                   clientID : Text, encoding : Text, seq : Uint64, ephemeral : BOOLEAN,
                   members : List(wireMember)]
message == [channel : Text, name : Text, data : Text, timestamp : Uint64,
            messageID : Text, clientID : Text, encoding : Text, seq : Uint64,
            ephemeral : BOOLEAN, members : List(wireMember)]
msgFrame == [kind : {"msg"}, message : message]
               \cup [kind : {"bundle"}, channel : Text, bundle : List(bundledMessage)]
presenceEventFrame == [kind : {"presEvt"}, channel : Text, action : PresenceAction,
                       clientID : Text, connectionID : Text, data : Text,
                       encoding : Text, timestamp : Uint64]
(* The code keeps its 64 bits: the int of the Go frame is the same bits read as signed. *)
errorFrame == [kind : {"err"}, id : Uint64, code : Uint64, message : Text]
pongFrame == [kind : {"pong"}]
historyResponseFrame == [kind : {"histRes"}, id : Uint64, channel : Text,
                         messages : List(message), flag : BOOLEAN]
fetchResponseFrame == [kind : {"fetchRes"}, id : Uint64, channel : Text,
                       messages : List(message), flag : BOOLEAN]

ServerFrame ==
    connectedFrame \cup ackFrame \cup msgFrame \cup presenceEventFrame
      \cup errorFrame \cup pongFrame \cup historyResponseFrame \cup fetchResponseFrame
===============================================================================
