---------------------------- MODULE PublishContract ----------------------------
(***************************************************************************)
(* What a publish promises, without connections, sockets or request ids: a *)
(* call is settled at most once, with "ok" only when the server has stored *)
(* the message; a call that fails may have been stored or not.             *)
(***************************************************************************)
CONSTANT Msgs

VARIABLES
    called, \* the publishes that were called
    stored, \* the messages the server has stored
    result  \* what each call reported

cvars == <<called, stored, result>>

Init ==
    /\ called = {}
    /\ stored = {}
    /\ result = [m \in Msgs |-> "none"]

Waiting == {m \in called : result[m] = "none"}

Call(m) ==
    /\ m \notin called
    /\ called' = called \cup {m}
    /\ UNCHANGED <<stored, result>>

Refuse(m) ==
    /\ m \notin called
    /\ called' = called \cup {m}
    /\ result' = [result EXCEPT ![m] = "err"]
    /\ UNCHANGED stored

Store(m) ==
    /\ m \in called
    /\ stored' = stored \cup {m}
    /\ UNCHANGED <<called, result>>

Acknowledge(m) ==
    /\ m \in Waiting \cap stored
    /\ result' = [result EXCEPT ![m] = "ok"]
    /\ UNCHANGED <<called, stored>>

Fail(S) ==
    /\ S \subseteq Waiting
    /\ result' = [m \in Msgs |-> IF m \in S THEN "err" ELSE result[m]]
    /\ UNCHANGED <<called, stored>>

Next ==
    \/ \E m \in Msgs : Call(m) \/ Refuse(m) \/ Store(m) \/ Acknowledge(m)
    \/ \E S \in SUBSET Msgs : Fail(S)

Spec == Init /\ [][Next]_cvars
=============================================================================
