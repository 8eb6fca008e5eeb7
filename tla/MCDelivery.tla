------------------------------ MODULE MCDelivery ------------------------------
(* A small instance of Delivery for TLC: record 2 is a batch, and record 3 is  *)
(* a publisher's retry of one message of that batch.                           *)
EXTENDS Delivery, TLC

CONSTANTS m1, m2, m3

MCMembers == [n \in 1 .. MaxSerial |-> CASE n = 1 -> {m1}
                                         [] n = 2 -> {m2, m3}
                                         [] OTHER -> {m3}]
MCSerials == 1 .. MaxSerial
Symmetry == Permutations(Subs)
=============================================================================
