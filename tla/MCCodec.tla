------------------------------- MODULE MCCodec --------------------------------
(* Frames of every kind for Codec: with different values in all fields, with *)
(* all fields empty, and with values that need longer varints.             *)
EXTENDS Codec

a == <<97>>
b == <<98, 98>>
c == <<99>>
d == <<100>>
e == <<101>>
g == <<103>>
Long == [i \in 1 .. 130 |-> 120]

None == [name |-> <<>>, data |-> <<>>, encoding |-> <<>>]
One == [name |-> a, data |-> b, encoding |-> c]

Empty == None @@ [channel |-> <<>>, timestamp |-> 0, messageID |-> <<>>,
                  clientID |-> <<>>, seq |-> 0, ephemeral |-> FALSE, members |-> <<>>]
Full == One @@ [channel |-> d, timestamp |-> 300, messageID |-> e, clientID |-> g,
                seq |-> 128, ephemeral |-> TRUE, members |-> <<>>]
Batch == None @@ [channel |-> d, timestamp |-> 5, messageID |-> e, clientID |-> g,
                  seq |-> 20000, ephemeral |-> FALSE, members |-> <<One, None>>]
Sparse == [Batch EXCEPT !.members = <<None, None, None>>, !.ephemeral = TRUE]

Msg(m) == [kind |-> "msg", message |-> m]
Bundle(ms) == [kind |-> "bundle", channel |-> d,
               bundle |-> [i \in DOMAIN ms |-> Narrow(ms[i])]]
Response(kind, ms, flag) ==
    [kind |-> kind, id |-> 9, channel |-> b, messages |-> ms, flag |-> flag]

MCServerSamples ==
    {[kind |-> "connected", connectionID |-> a, keepAliveMs |-> 20000, clientID |-> b],
     [kind |-> "ack", id |-> 127, resumed |-> "nil", seq |-> 3],
     [kind |-> "ack", id |-> 128, resumed |-> "no", seq |-> 0],
     Msg(Empty), Msg(Batch), Msg([Full EXCEPT !.data = Long]),
     Bundle(<<Full>>), Bundle(<<Full, Sparse>>),
     [kind |-> "presEvt", channel |-> a, action |-> "enter", clientID |-> b,
      connectionID |-> c, data |-> d, encoding |-> e, timestamp |-> 6],
     [kind |-> "err", id |-> 7, code |-> 16301, message |-> a],
     [kind |-> "pong"],
     Response("histRes", <<Full, Sparse>>, TRUE), Response("fetchRes", <<>>, FALSE)}

MCClientSamples ==
    {[kind |-> "auth", token |-> a, key |-> b, clientID |-> c, resumeConnectionID |-> d],
     [kind |-> "sub", channel |-> a, id |-> 1, lastSerial |-> 300],
     [kind |-> "unsub", channel |-> a, id |-> 2],
     [kind |-> "pub", channel |-> a, name |-> b, data |-> c, members |-> <<>>,
      ephemeral |-> TRUE, messageID |-> d, encoding |-> e, id |-> 3],
     [kind |-> "pub", channel |-> a, name |-> <<>>, data |-> <<>>, members |-> <<One, None>>,
      ephemeral |-> FALSE, messageID |-> Long, encoding |-> <<>>, id |-> 128],
     [kind |-> "pres", channel |-> a, action |-> "update", data |-> b, encoding |-> c,
      id |-> 4],
     [kind |-> "presSub", channel |-> a, id |-> 5],
     [kind |-> "presUnsub", channel |-> a, id |-> 6],
     [kind |-> "hist", channel |-> a, limit |-> 100, before |-> 20000, id |-> 7],
     [kind |-> "fetch", channel |-> a, fromSerial |-> 5, id |-> 8],
     [kind |-> "ping"]}
===============================================================================
