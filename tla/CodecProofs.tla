------------------------------ MODULE CodecProofs ------------------------------
(***************************************************************************)
(* What holds of module Codec for every set of frames, of any contents and *)
(* length, every number of them, every cut and every damaged byte.         *)
(*                                                                         *)
(* The codec is read from the inside out: numbers, texts, fields, items,   *)
(* records, the records of a message.  For each there is one lemma on what *)
(* is read back of what was written, and one on what arbitrary bytes give. *)
(***************************************************************************)
EXTENDS Codec, FiniteSetTheorems, SequenceTheorems, WellFoundedInduction, TLAPS

-----------------------------------------------------------------------------
(* Recursive functions on the numbers, and Uvarint as one of them. *)

(* Induction on the numbers, over a set: what holds of 0 and of the number *)
(* after any it holds of holds of all.                                     *)
LEMMA Induction ==
    ASSUME NEW T \in SUBSET Nat, 0 \in T, \A n \in T : n + 1 \in T
    PROVE  T = Nat
<1> DEFINE R == OpToRel(<, Nat)
<1>1. ASSUME T # Nat PROVE FALSE
  <2> DEFINE U == Nat \ T
  <2>1. U \subseteq Nat /\ U # {} BY <1>1
  <2>2. IsWellFoundedOn(R, Nat) BY NatLessThanWellFounded
  <2>3. PICK x \in U : \A y \in U : ~ (<<y, x>> \in R) BY <2>1, <2>2, WFMin
  <2>4. x \in Nat /\ x # 0 BY <2>3
  <2>5. x - 1 \in Nat /\ x - 1 < x BY <2>4
  <2>6. <<x - 1, x>> \in R BY <2>4, <2>5 DEF OpToRel
  <2>7. x - 1 \in T BY <2>3, <2>5, <2>6
  <2>8. (x - 1) + 1 = x BY <2>4
  <2>9. QED BY <2>3, <2>7, <2>8
<1>2. QED BY <1>1

(* f is the sequence of values that starts with base and goes on with Step. *)
Iterates(f, V, base, Step) ==
    f \in [Nat -> V] /\ f[0] = base /\ \A i \in Nat : f[i + 1] = Step[i][f[i]]

(* There is such a sequence: a recursive function on the numbers exists. *)
LEMMA Recursion ==
    ASSUME NEW V, NEW base \in V, NEW Step \in [Nat -> [V -> V]]
    PROVE  \E f : Iterates(f, V, base, Step)
<1> DEFINE Good(k, g) == g[0] = base /\ \A i \in 0 .. k - 1 : g[i + 1] = Step[i][g[i]]
           T == {k \in Nat : \E g \in [0 .. k -> V] : Good(k, g)}
<1>1. 0 \in T
  <2>1. Good(0, [i \in 0 .. 0 |-> base]) /\ [i \in 0 .. 0 |-> base] \in [0 .. 0 -> V]
    OBVIOUS
  <2>2. QED BY <2>1
<1>2. ASSUME NEW k \in T PROVE k + 1 \in T
  <2>0. k \in Nat OBVIOUS
  <2>1. PICK g \in [0 .. k -> V] : Good(k, g) OBVIOUS
  <2> DEFINE h == [i \in 0 .. k + 1 |-> IF i <= k THEN g[i] ELSE Step[k][g[k]]]
  <2>2. g[k] \in V /\ Step[k][g[k]] \in V BY <2>0
  <2>3. h \in [0 .. k + 1 -> V] BY <2>0, <2>2
  <2>4. h[0] = base BY <2>0, <2>1
  <2>5. ASSUME NEW i \in 0 .. k PROVE h[i + 1] = Step[i][h[i]]
    <3>1. h[i] = g[i] BY <2>0
    <3>2. CASE i = k BY <3>1, <3>2, <2>0
    <3>3. CASE i < k
      <4>1. i \in 0 .. k - 1 /\ i + 1 \in 0 .. k BY <3>3, <2>0
      <4>2. h[i + 1] = g[i + 1] BY <4>1, <2>0
      <4>3. g[i + 1] = Step[i][g[i]] BY <4>1, <2>1
      <4>4. QED BY <4>2, <4>3, <3>1
    <3>4. QED BY <3>2, <3>3, <2>0
  <2>6. (k + 1) - 1 = k BY <2>0
  <2>7. Good(k + 1, h) BY <2>4, <2>5, <2>6
  <2> HIDE DEF h, Good
  <2>8. QED BY <2>0, <2>3, <2>7
<1>3. T = Nat BY <1>1, <1>2, Induction
<1>4. ASSUME NEW k \in Nat, NEW l \in Nat, NEW g, NEW h, k <= l, Good(k, g), Good(l, h)
      PROVE  g[k] = h[k]
  <2> DEFINE U == {j \in Nat : j <= k => g[j] = h[j]}
  <2>1. 0 \in U BY <1>4
  <2>2. ASSUME NEW j \in U PROVE j + 1 \in U
    <3>1. j \in Nat OBVIOUS
    <3>2. CASE j + 1 <= k
      <4>1. j \in 0 .. k - 1 /\ j \in 0 .. l - 1 BY <3>1, <3>2, <1>4
      <4>2. g[j + 1] = Step[j][g[j]] /\ h[j + 1] = Step[j][h[j]] BY <4>1, <1>4
      <4>3. g[j] = h[j] BY <3>1, <3>2
      <4>4. QED BY <4>2, <4>3, <3>1
    <3>3. QED BY <3>1, <3>2
  <2>3. U = Nat BY <2>1, <2>2, Induction
  <2>4. k \in U BY <2>3
  <2>5. QED BY <2>4
<1> DEFINE G(k) == CHOOSE g \in [0 .. k -> V] : Good(k, g)
<1> HIDE DEF Good
<1>5. ASSUME NEW k \in Nat PROVE G(k) \in [0 .. k -> V] /\ Good(k, G(k))
  <2>1. \E g \in [0 .. k -> V] : Good(k, g) BY <1>3
  <2>2. QED BY <2>1
<1> HIDE DEF G
<1> DEFINE f == [k \in Nat |-> G(k)[k]]
<1>6. f \in [Nat -> V] BY <1>5
<1>7. f[0] = base BY <1>5 DEF Good
<1>8. ASSUME NEW i \in Nat PROVE f[i + 1] = Step[i][f[i]]
  <2>1. i + 1 \in Nat /\ i <= i + 1 /\ i \in 0 .. (i + 1) - 1 OBVIOUS
  <2>2. f[i + 1] = G(i + 1)[i + 1] /\ f[i] = G(i)[i] BY <2>1
  <2>3. Good(i + 1, G(i + 1)) /\ Good(i, G(i)) BY <2>1, <1>5
  <2>4. G(i)[i] = G(i + 1)[i] BY <2>1, <2>3, <1>4
  <2>5. G(i + 1)[i + 1] = Step[i][G(i + 1)[i]] BY <2>1, <2>3 DEF Good
  <2>6. QED BY <2>2, <2>4, <2>5
<1>9. Iterates(f, V, base, Step) BY <1>6, <1>7, <1>8 DEF Iterates
<1>10. QED BY <1>9

(* Values is what its recursive definition says, and positive. *)
LEMMA ValuesDef ==
    /\ Values \in [Nat -> Nat \ {0}]
    /\ \A n \in Nat : Values[n] = IF n <= 1 THEN MaxLastByte + 1 ELSE 128 * Values[n - 1]
<1> DEFINE V == Nat \ {0}
           F(x, n) == IF n <= 1 THEN MaxLastByte + 1 ELSE 128 * x
           Step == [i \in Nat |-> [v \in V |-> F(v, i + 1)]]
<1>1. MaxLastByte + 1 \in V BY WireAssumption
<1>2. \A v \in V, n \in Nat : F(v, n) \in V BY <1>1
<1>3. Step \in [Nat -> [V -> V]] BY <1>2
<1>4. PICK f \in [Nat -> V] : f[0] = MaxLastByte + 1 /\ \A i \in Nat : f[i + 1] = Step[i][f[i]]
  <2> HIDE DEF Step, V
  <2>1. PICK f : Iterates(f, V, MaxLastByte + 1, Step) BY <1>1, <1>3, Recursion
  <2>2. QED BY <2>1 DEF Iterates
<1>5. ASSUME NEW n \in Nat PROVE f[n] = F(f[n - 1], n)
  <2>1. CASE n = 0 BY <1>4, <2>1
  <2>2. CASE n # 0
    <3>1. n - 1 \in Nat /\ (n - 1) + 1 = n BY <2>2
    <3>2. f[n] = Step[n - 1][f[n - 1]] BY <3>1, <1>4
    <3>3. f[n - 1] \in V BY <3>1
    <3>4. QED BY <3>1, <3>2, <3>3
  <2>3. QED BY <2>1, <2>2
<1>6. f = [n \in Nat |-> F(f[n - 1], n)] BY <1>5
<1>7. Values = [n \in Nat |-> F(Values[n - 1], n)]
  <2>1. \E v : v = [n \in Nat |-> F(v[n - 1], n)] BY <1>6
  <2>2. QED BY <2>1, Zenon DEF Values
<1> HIDE DEF F
<1>8. \A n \in Nat : Values[n] = F(Values[n - 1], n)
  <2> DEFINE H == [n \in Nat |-> F(Values[n - 1], n)]
  <2>1. \A n \in Nat : H[n] = F(Values[n - 1], n) OBVIOUS
  <2>2. Values = H BY <1>7
  <2> HIDE DEF H
  <2>3. QED BY <2>1, <2>2
<1>9. DOMAIN Values = Nat
  <2> DEFINE H == [n \in Nat |-> F(Values[n - 1], n)]
  <2>1. Values = H /\ DOMAIN H = Nat BY <1>7
  <2> HIDE DEF H
  <2>2. QED BY <2>1
<1>10. ASSUME NEW n \in Nat PROVE Values[n] \in V
  <2> DEFINE U == {k \in Nat : Values[k] \in V}
  <2>1. 0 \in U BY <1>8, <1>1 DEF F
  <2>2. ASSUME NEW k \in U PROVE k + 1 \in U
    <3>1. k \in Nat /\ Values[k] \in V /\ (k + 1) - 1 = k OBVIOUS
    <3>2. Values[k + 1] = F(Values[k], k + 1) BY <3>1, <1>8
    <3>20. k + 1 \in Nat BY <3>1
    <3>3. F(Values[k], k + 1) \in V BY <3>1, <3>20, <1>2
    <3> HIDE DEF V
    <3>4. QED BY <3>1, <3>2, <3>3
  <2>3. U = Nat BY <2>1, <2>2, Induction
  <2>4. QED BY <2>3
<1>11. Values \in [Nat -> V]
  <2>1. Values = [n \in Nat |-> Values[n]] BY <1>7
  <2>2. QED BY <2>1, <1>10
<1>12. QED BY <1>8, <1>11 DEF F

(* One more byte carries seven more bits. *)
LEMMA ValuesGrow == \A n \in Nat \ {0} : Values[n + 1] = 128 * Values[n]
<1>1. ASSUME NEW n \in Nat \ {0} PROVE Values[n + 1] = 128 * Values[n]
  <2>1. n + 1 \in Nat /\ ~(n + 1 <= 1) /\ (n + 1) - 1 = n OBVIOUS
  <2>2. QED BY <2>1, ValuesDef
<1>2. QED BY <1>1

(* More bytes write more numbers. *)
LEMMA ValuesMonotone == \A k, n \in Nat \ {0} : k <= n => Values[k] <= Values[n]
<1>1. ASSUME NEW k \in Nat \ {0} PROVE \A n \in Nat \ {0} : k <= n => Values[k] <= Values[n]
  <2> DEFINE U == {j \in Nat : Values[k] <= Values[k + j]}
  <2>1. 0 \in U BY ValuesDef
  <2>2. ASSUME NEW j \in U PROVE j + 1 \in U
    <3>1. j \in Nat /\ k + j \in Nat \ {0} OBVIOUS
    <3>2. Values[k] <= Values[k + j] OBVIOUS
    <3>3. Values[(k + j) + 1] = 128 * Values[k + j] BY <3>1, ValuesGrow
    <3>4. k + (j + 1) = (k + j) + 1 BY <3>1
    <3>5. Values[k] \in Nat /\ Values[k + j] \in Nat BY <3>1, ValuesDef
    <3>6. QED BY <3>1, <3>2, <3>3, <3>4, <3>5
  <2>3. U = Nat BY <2>1, <2>2, Induction
  <2>4. ASSUME NEW n \in Nat \ {0}, k <= n PROVE Values[k] <= Values[n]
    <3>0. n - k \in Nat BY <2>4
    <3>1. n - k \in U BY <3>0, <2>3
    <3>2. k + (n - k) = n OBVIOUS
    <3>3. QED BY <3>1, <3>2
  <2>5. QED BY <2>4
<1>2. QED BY <1>1

(* The numbers of the protocol are numbers, and zero is one of them. *)
LEMMA Uint64Type == Uint64 \subseteq Nat /\ 0 \in Uint64
BY ValuesDef, WireAssumption DEF Uint64

(* With the widths of the code, ten bytes and a last one of 1, the numbers *)
(* of the protocol are those of uint64.                                    *)
THEOREM Uint64IsSixtyFourBits ==
    ASSUME MaxVarintLen = 10, MaxLastByte = 1
    PROVE  \A n \in Nat : n \in Uint64 <=> n < 18446744073709551616
<1>1. 1 \in Nat /\ 1 <= 1 /\ MaxLastByte + 1 = 2 OBVIOUS
<1>2. Values[1] = 2 BY <1>1, ValuesDef
<1>3. Values[2] = 256 BY <1>2, ValuesGrow
<1>4. Values[3] = 32768 BY <1>3, ValuesGrow
<1>5. Values[4] = 4194304 BY <1>4, ValuesGrow
<1>6. Values[5] = 536870912 BY <1>5, ValuesGrow
<1>7. Values[6] = 68719476736 BY <1>6, ValuesGrow
<1>8. Values[7] = 8796093022208 BY <1>7, ValuesGrow
<1>9. Values[8] = 1125899906842624 BY <1>8, ValuesGrow
<1>10. Values[9] = 144115188075855872 BY <1>9, ValuesGrow
<1>11. Values[10] = 18446744073709551616 BY <1>10, ValuesGrow
<1> DEFINE top == 18446744073709551616
<1>12. Values[MaxVarintLen] = top /\ top \in Nat BY <1>11
<1> HIDE DEF top
<1>13. ASSUME NEW n \in Nat PROVE n \in Uint64 <=> n < top BY <1>12 DEF Uint64
<1>14. QED BY <1>13 DEF top

(* Uvarint is what its recursive definition says (appendUvarint's loop). *)
LEMMA UvarintDef ==
    \A n \in Nat : Uvarint[n] = IF n < 128 THEN <<n>>
                                ELSE <<128 + (n % 128)>> \o Uvarint[n \div 128]
<1> DEFINE F(x, n) == IF n < 128 THEN <<n>> ELSE <<128 + (n % 128)>> \o x
           Good(k, g) == \A n \in 0 .. k : g[n] = F(g[n \div 128], n)
           T == {k \in Nat : \E g : Good(k, g)}
           Agree == {k \in Nat : \A g, h : Good(k, g) /\ Good(k, h) => g[k] = h[k]}
<1>0. \A n \in Nat : n >= 128 => n \div 128 \in 0 .. n - 1 OBVIOUS
<1>01. \A n \in Nat : \A x, y : n < 128 => F(x, n) = F(y, n) OBVIOUS
<1> HIDE DEF F
<1>1. 0 \in T
  <2>1. Good(0, [n \in 0 .. 0 |-> F(0, n)]) BY <1>01
  <2>2. QED BY <2>1
<1>2. ASSUME NEW k \in T PROVE k + 1 \in T
  <2>0. k \in Nat OBVIOUS
  <2>1. PICK g : Good(k, g) OBVIOUS
  <2> DEFINE h == [n \in 0 .. k + 1 |-> F(g[n \div 128], n)]
  <2>2. \A n \in 0 .. k : h[n] = g[n] BY <2>0, <2>1
  <2>3. ASSUME NEW n \in 0 .. k + 1 PROVE h[n] = F(h[n \div 128], n)
    <3>1. h[n] = F(g[n \div 128], n) OBVIOUS
    <3>2. n \in Nat BY <2>0
    <3>3. CASE n < 128 BY <3>1, <3>2, <3>3, <1>01
    <3>4. CASE n >= 128
      <4>1. n \div 128 \in 0 .. k BY <3>2, <3>4, <1>0, <2>0
      <4>2. h[n \div 128] = g[n \div 128] BY <4>1, <2>2
      <4>3. QED BY <4>2, <3>1
    <3>5. QED BY <3>2, <3>3, <3>4
  <2>4. Good(k + 1, h) BY <2>3
  <2>5. \E gg : Good(k + 1, gg) BY <2>4
  <2>6. QED BY <2>5, <2>0
<1>3. T = Nat BY <1>1, <1>2, Induction
<1>4. ASSUME NEW k \in Nat, NEW l \in Nat, NEW g, NEW h, k <= l, Good(k, g), Good(l, h)
      PROVE  \A n \in 0 .. k : g[n] = h[n]
  <2> DEFINE U == {j \in Nat : \A n \in 0 .. j : n <= k => g[n] = h[n]}
  <2>1. ASSUME NEW n \in Nat, n <= k, \A m \in 0 .. n - 1 : g[m] = h[m]
        PROVE  g[n] = h[n]
    <3>1. g[n] = F(g[n \div 128], n) /\ h[n] = F(h[n \div 128], n) BY <1>4, <2>1
    <3>2. CASE n < 128 BY <3>1, <3>2, <1>01
    <3>3. CASE n >= 128
      <4>1. g[n \div 128] = h[n \div 128] BY <3>3, <1>0, <2>1
      <4>2. QED BY <3>1, <4>1
    <3>4. QED BY <3>2, <3>3
  <2>2. 0 \in U BY <2>1
  <2>3. ASSUME NEW j \in U PROVE j + 1 \in U
    <3>1. j \in Nat OBVIOUS
    <3>2. \A m \in 0 .. (j + 1) - 1 : m <= k => g[m] = h[m] BY <3>1
    <3>3. j + 1 <= k => g[j + 1] = h[j + 1] BY <3>1, <3>2, <2>1
    <3>4. \A n \in 0 .. j + 1 : n <= k => g[n] = h[n] BY <3>1, <3>2, <3>3
    <3>5. QED BY <3>1, <3>4
  <2>4. U = Nat BY <2>2, <2>3, Induction
  <2>5. k \in U BY <2>4
  <2>6. QED BY <2>5
<1> DEFINE G(n) == CHOOSE g : Good(n, g)
           f == [n \in Nat |-> F(G(n)[n \div 128], n)]
<1>5. \A n \in Nat : Good(n, G(n))
  <2>1. ASSUME NEW n \in Nat PROVE Good(n, G(n))
    <3>1. \E g : Good(n, g) BY <1>3
    <3> HIDE DEF Good
    <3>2. QED BY <3>1
  <2>2. QED BY <2>1
<1> HIDE DEF G
<1>6. ASSUME NEW n \in Nat PROVE f[n] = F(f[n \div 128], n)
  <2>1. f[n] = F(G(n)[n \div 128], n) OBVIOUS
  <2>2. CASE n < 128 BY <2>1, <2>2, <1>01
  <2>3. CASE n >= 128
    <3> DEFINE m == n \div 128
    <3>1. m \in 0 .. n - 1 /\ m \in Nat BY <2>3, <1>0
    <3>2. Good(m, G(m)) /\ Good(n, G(n)) BY <3>1, <1>5
    <3>3. m <= n /\ m \in 0 .. m BY <3>1
    <3> HIDE DEF m, Good
    <3>4. G(m)[m] = G(n)[m] BY <3>1, <3>2, <3>3, <1>4
    <3>5. f[m] = F(G(m)[m \div 128], m) BY <3>1
    <3>6. G(m)[m] = F(G(m)[m \div 128], m) BY <3>2, <3>3 DEF Good
    <3>7. f[m] = G(n)[m] BY <3>4, <3>5, <3>6
    <3>8. QED BY <3>7, <2>1 DEF m
  <2>4. QED BY <2>2, <2>3
<1>7. f = [n \in Nat |-> F(f[n \div 128], n)] BY <1>6
<1>8. \E u : u = [n \in Nat |-> F(u[n \div 128], n)] BY <1>7
<1>9. Uvarint = [n \in Nat |-> F(Uvarint[n \div 128], n)]
  <2> USE DEF F
  <2>1. QED BY <1>8, Zenon DEF Uvarint
<1>10. \A n \in Nat : Uvarint[n] = F(Uvarint[n \div 128], n)
  <2> DEFINE H == [n \in Nat |-> F(Uvarint[n \div 128], n)]
  <2>1. ASSUME NEW n \in Nat PROVE Uvarint[n] = F(Uvarint[n \div 128], n)
    <3>1. H[n] = F(Uvarint[n \div 128], n) OBVIOUS
    <3>2. Uvarint = H BY <1>9
    <3> HIDE DEF H
    <3>3. QED BY <3>1, <3>2
  <2>2. QED BY <2>1
<1>11. QED BY <1>10 DEF F

-----------------------------------------------------------------------------
(* Varints: their length and the number they stand for. *)

(* Induction from all the smaller numbers. *)
LEMMA StrongInduction ==
    ASSUME NEW T \in SUBSET Nat, \A n \in Nat : 0 .. n - 1 \subseteq T => n \in T
    PROVE  T = Nat
<1> DEFINE U == {n \in Nat : 0 .. n - 1 \subseteq T}
<1>1. 0 \in U OBVIOUS
<1>2. ASSUME NEW n \in U PROVE n + 1 \in U
  <2>1. n \in Nat /\ n \in T OBVIOUS
  <2>2. 0 .. (n + 1) - 1 \subseteq T BY <2>1
  <2>3. QED BY <2>1, <2>2
<1>3. U = Nat BY <1>1, <1>2, Induction
<1>4. QED BY <1>3

(* Below 128 the varint is the number itself. *)
LEMMA UvarintShort == \A n \in 0 .. 127 : Uvarint[n] = <<n>>
<1>1. \A n \in 0 .. 127 : n \in Nat /\ n < 128 OBVIOUS
<1>2. QED BY <1>1, UvarintDef, Zenon

(* From 128 on it is seven bits with the continuation bit, and the rest. *)
LEMMA UvarintLong ==
    \A n \in Nat : n >= 128 => Uvarint[n] = <<128 + (n % 128)>> \o Uvarint[n \div 128]
<1>1. \A n \in Nat : n >= 128 => ~(n < 128) OBVIOUS
<1>2. QED BY <1>1, UvarintDef, Zenon

(* A varint: every byte but the last has the continuation bit. *)
Varint(u) ==
    /\ u \in Seq(Byte) /\ Len(u) \in Nat \ {0}
    /\ \A i \in 1 .. Len(u) - 1 : u[i] >= 128
    /\ u[Len(u)] < 128

(* d[i] is the number that the bytes of u from i to L stand for. *)
Digits(u, L, d) ==
    /\ d \in [1 .. L + 1 -> Nat] /\ d[L + 1] = 0
    /\ \A i \in 1 .. L : d[i] = (u[i] % 128) + 128 * d[i + 1]

(* What appendUvarint writes is a varint whose digits give the number back. *)
LEMMA UvarintWhole ==
    \A n \in Nat : /\ Varint(Uvarint[n])
                   /\ \E d : Digits(Uvarint[n], Len(Uvarint[n]), d) /\ d[1] = n
<1> DEFINE T == {n \in Nat : /\ Varint(Uvarint[n])
                             /\ \E d : Digits(Uvarint[n], Len(Uvarint[n]), d) /\ d[1] = n}
<1>1. ASSUME NEW n \in Nat, 0 .. n - 1 \subseteq T PROVE n \in T
  <2> DEFINE u == Uvarint[n]
  <2>1. CASE n < 128
    <3>0. n \in 0 .. 127 BY <2>1
    <3>1. u = <<n>> BY <3>0, UvarintShort
    <3>2. u \in Seq(Byte) /\ Len(u) = 1 /\ u[1] = n BY <3>1, <2>1 DEF Byte
    <3> HIDE DEF u
    <3>3. Varint(u) BY <3>2, <2>1 DEF Varint
    <3> DEFINE d == [i \in 1 .. 2 |-> IF i = 1 THEN n ELSE 0]
    <3>4. Digits(u, 1, d) /\ d[1] = n BY <3>2, <2>1 DEF Digits
    <3>5. \E dd : Digits(u, Len(u), dd) /\ dd[1] = n BY <3>2, <3>4
    <3>6. QED BY <3>3, <3>5 DEF u
  <2>2. CASE n >= 128
    <3> DEFINE m == n \div 128
               v == Uvarint[m]
               b == 128 + (n % 128)
    <3>1. m \in 0 .. n - 1 /\ n = (n % 128) + 128 * m /\ n % 128 \in 0 .. 127 BY <2>2
    <3>2. m \in T BY <3>1, <1>1
    <3>3. Varint(v) BY <3>2
    <3>4. PICK c : Digits(v, Len(v), c) /\ c[1] = m BY <3>2
    <3>5. u = <<b>> \o v BY <2>2, UvarintLong, Zenon
    <3>6. b \in Byte /\ b >= 128 /\ b % 128 = n % 128 BY <3>1 DEF Byte
    <3>7. v \in Seq(Byte) /\ Len(v) \in Nat \ {0} BY <3>3 DEF Varint
    <3> HIDE DEF u, v, b
    <3>8. <<b>> \in Seq(Byte) /\ Len(<<b>>) = 1 /\ <<b>>[1] = b BY <3>6
    <3>9. /\ u \in Seq(Byte) /\ Len(u) = Len(v) + 1
          /\ \A i \in 1 .. Len(v) + 1 : u[i] = IF i = 1 THEN b ELSE v[i - 1]
      <4>1. /\ u \in Seq(Byte) /\ Len(u) = 1 + Len(v)
            /\ \A i \in 1 .. 1 + Len(v) :
                  u[i] = IF i <= 1 THEN <<b>>[i] ELSE v[i - 1]
        BY <3>5, <3>7, <3>8, ConcatProperties
      <4>2. QED BY <4>1, <3>7, <3>8
    <3>10. Varint(u)
      <4>1. ASSUME NEW i \in 1 .. Len(u) - 1 PROVE u[i] >= 128
        <5>1. CASE i = 1 BY <5>1, <3>9, <3>7, <3>6
        <5>2. CASE i # 1
          <6>1. i - 1 \in 1 .. Len(v) - 1 /\ u[i] = v[i - 1] BY <5>2, <3>9, <3>7
          <6>2. QED BY <6>1, <3>3 DEF Varint
        <5>3. QED BY <5>1, <5>2
      <4>2. u[Len(u)] < 128
        <5>1. u[Len(u)] = v[Len(v)] BY <3>9, <3>7
        <5>2. QED BY <5>1, <3>3 DEF Varint
      <4>3. QED BY <4>1, <4>2, <3>9, <3>7 DEF Varint
    <3> DEFINE d == [i \in 1 .. Len(v) + 2 |-> IF i = 1 THEN n ELSE c[i - 1]]
    <3>11. Digits(u, Len(u), d)
      <4>1. c \in [1 .. Len(v) + 1 -> Nat] /\ c[Len(v) + 1] = 0 BY <3>4 DEF Digits
      <4>2. d \in [1 .. Len(u) + 1 -> Nat] BY <4>1, <3>9, <3>7
      <4>3. d[Len(u) + 1] = 0 BY <4>1, <3>9, <3>7
      <4>4. ASSUME NEW i \in 1 .. Len(u) PROVE d[i] = (u[i] % 128) + 128 * d[i + 1]
        <5>1. CASE i = 1
          <6>1. d[1] = n /\ d[2] = c[1] BY <3>7
          <6>2. u[1] % 128 = n % 128 BY <3>9, <3>7, <3>6
          <6>3. QED BY <5>1, <6>1, <6>2, <3>1, <3>4
        <5>2. CASE i # 1
          <6>1. i - 1 \in 1 .. Len(v) /\ i + 1 # 1 /\ i + 1 \in 1 .. Len(v) + 2
                /\ (i + 1) - 1 = (i - 1) + 1 /\ i \in 1 .. Len(v) + 2
            BY <5>2, <3>9, <3>7
          <6>2. d[i] = c[i - 1] /\ d[i + 1] = c[(i - 1) + 1] BY <6>1, <5>2
          <6>3. u[i] = v[i - 1] BY <6>1, <5>2, <3>9, <3>7
          <6>4. c[i - 1] = (v[i - 1] % 128) + 128 * c[(i - 1) + 1]
            BY <6>1, <3>4 DEF Digits
          <6> HIDE DEF d
          <6>5. QED BY <6>2, <6>3, <6>4
        <5>3. QED BY <5>1, <5>2
      <4> HIDE DEF d
      <4>5. QED BY <4>2, <4>3, <4>4 DEF Digits
    <3>12. d[1] = n BY <3>7
    <3> HIDE DEF d
    <3>13. QED BY <3>10, <3>11, <3>12 DEF u
  <2>3. QED BY <2>1, <2>2
<1>2. T = Nat
  <2> HIDE DEF T
  <2>1. T \in SUBSET Nat BY DEF T
  <2>2. QED BY <1>1, <2>1, StrongInduction
<1>3. QED BY <1>2

(* A number below Values[k] takes at most k bytes, the last of them small. *)
LEMMA UvarintFits ==
    ASSUME NEW k \in Nat \ {0}, NEW n \in Nat, n < Values[k]
    PROVE  /\ Len(Uvarint[n]) <= k
           /\ Len(Uvarint[n]) = k => Uvarint[n][k] <= MaxLastByte
<1> DEFINE P(j, m) == /\ Len(Uvarint[m]) <= j
                      /\ Len(Uvarint[m]) = j => Uvarint[m][j] <= MaxLastByte
           T == {j \in Nat : \A m \in Nat : m < Values[j + 1] => P(j + 1, m)}
<1>0. \A m \in Nat : m < 128 => Uvarint[m] = <<m>> /\ Len(Uvarint[m]) = 1 /\ Uvarint[m][1] = m
  <2>1. \A m : Len(<<m>>) = 1 /\ <<m>>[1] = m OBVIOUS
  <2>2. \A m \in Nat : m < 128 => m \in 0 .. 127 OBVIOUS
  <2>3. \A m \in Nat : m < 128 => Uvarint[m] = <<m>> BY <2>2, UvarintShort
  <2>4. QED BY <2>1, <2>3, Zenon
<1>1. 0 \in T
  <2>1. Values[1] = MaxLastByte + 1 /\ MaxLastByte \in 0 .. 127 BY ValuesDef, WireAssumption
  <2>2. ASSUME NEW m \in Nat, m < Values[1] PROVE P(1, m)
    <3>1. m < 128 /\ m <= MaxLastByte BY <2>1, <2>2
    <3>2. Len(Uvarint[m]) = 1 /\ Uvarint[m][1] = m BY <3>1, <1>0
    <3>3. QED BY <3>1, <3>2
  <2>3. QED BY <2>2
<1>2. ASSUME NEW j \in T PROVE j + 1 \in T
  <2>0. j \in Nat OBVIOUS
  <2>1. ASSUME NEW m \in Nat, m < Values[(j + 1) + 1] PROVE P((j + 1) + 1, m)
    <3>1. CASE m < 128
      <4>1. Len(Uvarint[m]) = 1 BY <3>1, <1>0
      <4>2. QED BY <4>1, <2>0
    <3>2. CASE m >= 128
      <4> DEFINE q == m \div 128
                 v == Uvarint[q]
                 b == 128 + (m % 128)
      <4>0. j + 1 \in Nat \ {0} BY <2>0
      <4>1. Values[(j + 1) + 1] = 128 * Values[j + 1] /\ Values[j + 1] \in Nat
        BY <4>0, ValuesGrow, ValuesDef
      <4>2. q \in Nat /\ q < Values[j + 1] BY <4>1, <2>1
      <4>3. P(j + 1, q) BY <4>2
      <4>4. Uvarint[m] = <<b>> \o v BY <3>2, UvarintLong, Zenon
      <4>5. v \in Seq(Byte) /\ Len(v) \in Nat \ {0} BY <4>2, UvarintWhole DEF Varint
      <4>6. b \in Byte BY DEF Byte
      <4> HIDE DEF v, b
      <4>7. <<b>> \in Seq(Byte) /\ Len(<<b>>) = 1 BY <4>6
      <4>8. /\ Len(Uvarint[m]) = 1 + Len(v)
            /\ \A i \in 1 .. 1 + Len(v) : i > 1 => Uvarint[m][i] = v[i - 1]
        <5>1. /\ Len(Uvarint[m]) = Len(<<b>>) + Len(v)
              /\ \A i \in 1 .. Len(<<b>>) + Len(v) :
                    Uvarint[m][i] = IF i <= Len(<<b>>) THEN <<b>>[i] ELSE v[i - Len(<<b>>)]
          BY <4>4, <4>5, <4>7, ConcatProperties
        <5>2. QED BY <5>1, <4>7, <4>5
      <4>9. Len(v) <= j + 1 /\ (Len(v) = j + 1 => v[j + 1] <= MaxLastByte)
        BY <4>3 DEF v
      <4>10. QED BY <4>8, <4>9, <4>5, <2>0
    <3>3. QED BY <3>1, <3>2
  <2>2. QED BY <2>0, <2>1
<1>3. T = Nat BY <1>1, <1>2, Induction
<1>3a. k - 1 \in Nat /\ (k - 1) + 1 = k OBVIOUS
<1>4. k - 1 \in T BY <1>3, <1>3a
<1>5. QED BY <1>3a, <1>4

(* Conversely, a varint of at most k bytes, the k-th of them small, stands *)
(* for a number below Values[k]: no overflow goes unnoticed.               *)
LEMMA DigitsBound ==
    ASSUME NEW u, NEW L \in Nat \ {0}, NEW d, Digits(u, L, d),
           \A i \in 1 .. L : u[i] \in Byte, u[L] < 128,
           NEW k \in Nat \ {0}, L <= k, L = k => u[L] <= MaxLastByte
    PROVE  d[1] < Values[k]
<1> DEFINE T == {j \in Nat : j < L => d[L - j] < Values[(k - L) + j + 1]}
<1>0. d \in [1 .. L + 1 -> Nat] /\ d[L + 1] = 0 BY DEF Digits
<1>1. 0 \in T
  <2>1. d[L] = (u[L] % 128) + 128 * d[L + 1]
    <3>1. L \in 1 .. L OBVIOUS
    <3>2. QED BY <3>1 DEF Digits
  <2>9. L \in 1 .. L OBVIOUS
  <2>90. u[L] \in Byte BY <2>9
  <2>10. u[L] \in 0 .. 127 BY <2>90 DEF Byte
  <2>11. u[L] % 128 = u[L] BY <2>10
  <2>12. 128 * d[L + 1] = 0 BY <1>0
  <2> HIDE DEF T
  <2>2. d[L] = u[L] BY <2>1, <2>11, <2>12, <2>10
  <2> USE DEF T
  <2>3. Values[1] = MaxLastByte + 1 /\ MaxLastByte \in 0 .. 127 BY ValuesDef, WireAssumption
  <2>4. CASE L = k BY <2>2, <2>3, <2>4, SMTT(60) DEF Byte
  <2>5. CASE L < k
    <3>1. Values[2] = 128 * Values[1] BY ValuesGrow
    <3>2. (k - L) + 0 + 1 \in Nat \ {0} /\ 2 <= (k - L) + 0 + 1 BY <2>5
    <3>3. Values[2] <= Values[(k - L) + 0 + 1] BY <3>2, ValuesMonotone
    <3>4. Values[(k - L) + 0 + 1] \in Nat BY <3>2, ValuesDef
    <3>5. d[L] < 128 /\ d[L] \in Nat BY <2>2, <1>0 DEF Byte
    <3>6. d[L] < Values[(k - L) + 0 + 1] BY <3>1, <3>3, <3>4, <3>5, <2>3
    <3>7. L - 0 = L OBVIOUS
    <3>8. QED BY <3>6, <3>7
  <2>6. QED BY <2>4, <2>5
<1>2. ASSUME NEW j \in T PROVE j + 1 \in T
  <2>0. j \in Nat OBVIOUS
  <2>1. ASSUME j + 1 < L PROVE d[L - (j + 1)] < Values[(k - L) + (j + 1) + 1]
    <3> DEFINE i == L - (j + 1)
               w == (k - L) + j + 1
    <3>1. i \in 1 .. L /\ i + 1 = L - j /\ w \in Nat \ {0} /\ (k - L) + (j + 1) + 1 = w + 1
      BY <2>0, <2>1
    <3>2. d[i + 1] < Values[w] BY <2>0, <2>1, <3>1
    <3>3. Values[w + 1] = 128 * Values[w] /\ Values[w] \in Nat BY <3>1, ValuesGrow, ValuesDef
    <3>4. d[i] = (u[i] % 128) + 128 * d[i + 1] BY <3>1 DEF Digits
    <3>50. u[i] \in 0 .. 255 BY <3>1 DEF Byte
    <3>5. u[i] % 128 \in 0 .. 127 BY <3>50
    <3>6. d[i + 1] \in Nat BY <3>1, <1>0
    <3> HIDE DEF i, w
    <3>7. d[i] < Values[w + 1] BY <3>2, <3>3, <3>4, <3>5, <3>6
    <3>8. QED BY <3>7, <3>1 DEF i
  <2>2. QED BY <2>0, <2>1
<1>3. T = Nat BY <1>1, <1>2, Induction
<1>3a. L - 1 \in Nat /\ L - 1 < L /\ L - (L - 1) = 1 /\ (k - L) + (L - 1) + 1 = k OBVIOUS
<1>4. L - 1 \in T BY <1>3, <1>3a
<1>5. QED BY <1>3a, <1>4

-----------------------------------------------------------------------------
(* Reading a varint. *)

(* The states of a reader. *)
Readers == [buf : Seq(Byte), err : BOOLEAN]

(* The varint at the head of a buffer is n bytes long. *)
Ends(buf, n) ==
    /\ n \in 1 .. MaxVarintLen /\ n \in DOMAIN buf /\ buf[n] < 128
    /\ \A i \in 1 .. n - 1 : buf[i] >= 128

(* Its last byte says more than uint64 can hold. *)
Overflows(buf, n) == n = MaxVarintLen /\ buf[n] > MaxLastByte

(* The recursion of Digits alone, whatever the type of the digits. *)
Chain(u, L, d) ==
    d[L + 1] = 0 /\ \A i \in 1 .. L : d[i] = (u[i] % 128) + 128 * d[i + 1]

(* A byte is a number below 256. *)
LEMMA ByteType == \A x \in Byte : x \in Nat /\ x < 256 BY DEF Byte

(* The first L elements of the two are the same. *)
Agree(u, v, L) == \A i \in 1 .. L : u[i] = v[i]

(* Bytes have digits. *)
LEMMA DigitsExist ==
    ASSUME NEW u, NEW L \in Nat, \A i \in 1 .. L : u[i] \in Byte
    PROVE  \E d : Digits(u, L, d)
<1> DEFINE Step == [j \in Nat |-> [v \in Nat |-> IF j < L THEN (u[L - j] % 128) + 128 * v ELSE v]]
<1>1. Step \in [Nat -> [Nat -> Nat]]
  <2>1. ASSUME NEW j \in Nat, NEW v \in Nat, j < L PROVE (u[L - j] % 128) + 128 * v \in Nat
    <3>1. L - j \in 1 .. L BY <2>1
    <3>2. u[L - j] \in 0 .. 255 BY <3>1 DEF Byte
    <3>3. QED BY <3>2
  <2>2. QED BY <2>1
<1>2. PICK g : Iterates(g, Nat, 0, Step)
  <2> HIDE DEF Step
  <2>1. QED BY <1>1, Recursion
<1>3. g \in [Nat -> Nat] /\ g[0] = 0 BY <1>2 DEF Iterates
<1> DEFINE d == [i \in 1 .. L + 1 |-> g[(L + 1) - i]]
<1>4. ASSUME NEW i \in 1 .. L PROVE d[i] = (u[i] % 128) + 128 * d[i + 1]
  <2>1. L - i \in Nat /\ L - i < L /\ (L - i) + 1 = (L + 1) - i /\ L - (L - i) = i OBVIOUS
  <2>2. g[(L - i) + 1] = Step[L - i][g[L - i]] BY <2>1, <1>2 DEF Iterates
  <2>3. Step[L - i][g[L - i]] = (u[i] % 128) + 128 * g[L - i] BY <2>1, <1>3
  <2>4. d[i] = g[(L + 1) - i] /\ d[i + 1] = g[L - i] OBVIOUS
  <2> HIDE DEF d, Step
  <2>5. QED BY <2>1, <2>2, <2>3, <2>4
<1>5. d \in [1 .. L + 1 -> Nat] /\ d[L + 1] = 0 BY <1>3
<1> HIDE DEF d
<1>6. Digits(u, L, d) BY <1>4, <1>5 DEF Digits
<1>7. QED BY <1>6

(* Bytes that agree have the same digits: a varint stands for one number. *)
LEMMA DigitsUnique ==
    ASSUME NEW u, NEW v, NEW L \in Nat, Agree(u, v, L),
           NEW c, NEW d, Chain(u, L, c), Chain(v, L, d)
    PROVE  c[1] = d[1]
<1>0. /\ c[L + 1] = 0 /\ d[L + 1] = 0
      /\ \A i \in 1 .. L : c[i] = (u[i] % 128) + 128 * c[i + 1]
      /\ \A i \in 1 .. L : d[i] = (v[i] % 128) + 128 * d[i + 1]
  BY DEF Chain
<1> DEFINE T == {j \in Nat : j <= L => c[(L + 1) - j] = d[(L + 1) - j]}
<1>1. 0 \in T BY <1>0
<1>2. ASSUME NEW j \in T PROVE j + 1 \in T
  <2>0. j \in Nat OBVIOUS
  <2>1. ASSUME j + 1 <= L PROVE c[(L + 1) - (j + 1)] = d[(L + 1) - (j + 1)]
    <3>1. L - j \in 1 .. L /\ (L + 1) - (j + 1) = L - j /\ (L - j) + 1 = (L + 1) - j
      BY <2>0, <2>1
    <3>2. c[(L + 1) - j] = d[(L + 1) - j] BY <2>0, <2>1
    <3>3. u[L - j] = v[L - j] BY <3>1 DEF Agree
    <3>4. c[L - j] = (u[L - j] % 128) + 128 * c[(L - j) + 1] BY <3>1, <1>0
    <3>5. d[L - j] = (v[L - j] % 128) + 128 * d[(L - j) + 1] BY <3>1, <1>0
    <3> HIDE DEF T
    <3>6. c[L - j] = d[L - j] BY <3>1, <3>2, <3>3, <3>4, <3>5, Zenon
    <3>7. QED BY <3>1, <3>6
  <2>2. QED BY <2>0, <2>1
<1>3. T = Nat BY <1>1, <1>2, Induction
<1>4. L \in T /\ (L + 1) - L = 1 BY <1>3
<1>5. QED BY <1>4

(* A least element is the minimum. *)
LEMMA MinIs ==
    ASSUME NEW S \in SUBSET Nat, NEW n \in S, \A i \in S : n <= i
    PROVE  Min(S) = n
<1>1. \E x \in S : \A y \in S : x <= y OBVIOUS
<1> DEFINE m == CHOOSE x \in S : \A y \in S : x <= y
<1>2. m \in S /\ \A y \in S : m <= y BY <1>1
<1>3. Min(S) = m BY DEF Min
<1> HIDE DEF m
<1>4. m <= n /\ n <= m BY <1>2
<1>5. m \in Nat /\ n \in Nat BY <1>2
<1>6. QED BY <1>3, <1>4, <1>5

(* What the reader makes of a varint that ends: an overflow is refused,    *)
(* anything else read.                                                     *)
LEMMA GetUvarintEnds ==
    ASSUME NEW rd \in Readers, ~rd.err, NEW n, Ends(rd.buf, n)
    PROVE  /\ Overflows(rd.buf, n) =>
                 GetUvarint(rd) = [rd |-> Truncated(rd), value |-> 0]
           /\ ~Overflows(rd.buf, n) =>
                 \E d : /\ Digits(rd.buf, n, d)
                        /\ GetUvarint(rd) = [rd |-> Skip(rd, n), value |-> d[1]]
<1> DEFINE buf == rd.buf
           ends == {i \in DOMAIN buf \cap 1 .. MaxVarintLen : buf[i] < 128}
           value == CHOOSE v : v = [i \in 1 .. MaxVarintLen + 1 |->
                       IF i > Min(ends) THEN 0 ELSE (buf[i] % 128) + 128 * v[i + 1]]
<1>1. buf \in Seq(Byte) BY DEF Readers
<1>2. n \in ends /\ n \in Nat \ {0} BY DEF Ends
<1>3. \A i \in DOMAIN buf : i \in 1 .. Len(buf) /\ buf[i] \in Byte
  BY <1>1
<1>4. ends \in SUBSET Nat BY WireAssumption
<1>5. \A i \in ends : n <= i
  <2>1. ASSUME NEW i \in ends, i < n PROVE FALSE
    <3>1. i \in 1 .. n - 1 /\ buf[i] < 128 BY <2>1, <1>2, <1>3
    <3>2. buf[i] >= 128 BY <3>1 DEF Ends
    <3>30. buf[i] \in Byte BY <2>1, <1>3
    <3>3. buf[i] \in 0 .. 255 BY <3>30 DEF Byte
    <3> HIDE DEF buf
    <3>4. QED BY <3>1, <3>2, <3>3
  <2>2. QED BY <2>1, <1>4, <1>2
<1>6. Min(ends) = n
  <2> HIDE DEF ends
  <2>1. QED BY <1>2, <1>4, <1>5, MinIs
<1>7. GetUvarint(rd) = IF \/ rd.err \/ ends = {}
                          \/ Min(ends) = MaxVarintLen /\ buf[Min(ends)] > MaxLastByte
                       THEN [rd |-> Truncated(rd), value |-> 0]
                       ELSE [rd |-> Skip(rd, Min(ends)), value |-> value[1]]
  BY DEF GetUvarint
<1>8. Overflows(buf, n) => GetUvarint(rd) = [rd |-> Truncated(rd), value |-> 0]
  <2> HIDE DEF ends, value
  <2>1. QED BY <1>6, <1>7 DEF Overflows
<1>9. ASSUME ~Overflows(buf, n)
      PROVE  GetUvarint(rd) = [rd |-> Skip(rd, n), value |-> value[1]]
  <2> HIDE DEF ends, value
  <2>1. QED BY <1>2, <1>6, <1>7, <1>9 DEF Overflows
<1>10. PICK d : Digits(buf, n, d)
  <2>1. \A i \in 1 .. n : i \in DOMAIN buf BY <1>1, <1>2 DEF Ends
  <2>2. \A i \in 1 .. n : buf[i] \in Byte BY <2>1, <1>3
  <2>3. QED BY <1>2, <2>2, DigitsExist
<1>11. d[1] = value[1]
  <2> DEFINE F(v, i) == IF i > n THEN 0 ELSE (buf[i] % 128) + 128 * v[i + 1]
             w == [i \in 1 .. MaxVarintLen + 1 |-> IF i > n THEN 0 ELSE d[i]]
  <2>0. n <= MaxVarintLen /\ MaxVarintLen \in Nat \ {0} BY WireAssumption DEF Ends
  <2>1. w = [i \in 1 .. MaxVarintLen + 1 |-> F(w, i)]
    <3>1. ASSUME NEW i \in 1 .. MaxVarintLen + 1 PROVE w[i] = F(w, i)
      <4>1. CASE i > n BY <4>1
      <4>2. CASE i <= n
        <5>1. i \in 1 .. n /\ i + 1 \in 1 .. MaxVarintLen + 1 BY <4>2, <2>0, <1>2
        <5>2. d[i] = (buf[i] % 128) + 128 * d[i + 1] BY <5>1, <1>10 DEF Digits
        <5>3. w[i + 1] = d[i + 1]
          <6>1. CASE i + 1 > n
            <7>1. i + 1 = n + 1 BY <6>1, <5>1, <1>2
            <7>2. d[n + 1] = 0 BY <1>10 DEF Digits
            <7>3. QED BY <6>1, <5>1, <7>1, <7>2
          <6>2. CASE ~(i + 1 > n) BY <6>2, <5>1
          <6>3. QED BY <6>1, <6>2
        <5>4. w[i] = d[i] BY <5>1, <1>2
        <5>5. ~(i > n) BY <5>1, <1>2
        <5> HIDE DEF w
        <5>6. QED BY <5>2, <5>3, <5>4, <5>5
      <4>3. QED BY <4>1, <4>2, <1>2
    <3>2. DOMAIN w = 1 .. MaxVarintLen + 1 OBVIOUS
    <3>3. QED BY <3>1
  <2>2. \E v : v = [i \in 1 .. MaxVarintLen + 1 |-> F(v, i)] BY <2>1
  <2> DEFINE val == CHOOSE v : v = [i \in 1 .. MaxVarintLen + 1 |-> F(v, i)]
  <2>3. value = val
    <3> HIDE DEF ends, buf
    <3>1. QED BY <1>6
  <2>4. val = [i \in 1 .. MaxVarintLen + 1 |-> F(val, i)] BY <2>2, Zenon
  <2>5. \A i \in 1 .. MaxVarintLen + 1 : val[i] = F(val, i)
    <3> DEFINE H == [i \in 1 .. MaxVarintLen + 1 |-> F(val, i)]
    <3> HIDE DEF F
    <3>1. \A i \in 1 .. MaxVarintLen + 1 : H[i] = F(val, i) OBVIOUS
    <3>2. val = H BY <2>4
    <3> HIDE DEF H, val
    <3>3. QED BY <3>1, <3>2
  <2> HIDE DEF val
  <2>6. val[n + 1] = 0
    <3>1. n + 1 \in 1 .. MaxVarintLen + 1 /\ n + 1 > n BY <2>0, <1>2
    <3>2. QED BY <3>1, <2>5
  <2>7. \A i \in 1 .. n : val[i] = (buf[i] % 128) + 128 * val[i + 1]
    <3>1. ASSUME NEW i \in 1 .. n PROVE val[i] = (buf[i] % 128) + 128 * val[i + 1]
      <4>1. i \in 1 .. MaxVarintLen + 1 /\ ~(i > n) BY <2>0, <1>2
      <4>2. QED BY <4>1, <2>5
    <3>2. QED BY <3>1
  <2>8. Chain(buf, n, d) BY <1>10 DEF Digits, Chain
  <2>80. Chain(buf, n, val) BY <2>6, <2>7 DEF Chain
  <2>81. Agree(buf, buf, n) BY DEF Agree
  <2> HIDE DEF buf, value
  <2>9. d[1] = val[1] BY <1>2, <2>8, <2>80, <2>81, DigitsUnique
  <2>10. QED BY <2>3, <2>9
<1>12. QED
  <2> HIDE DEF value
  <2>1. QED BY <1>8, <1>9, <1>10, <1>11

-----------------------------------------------------------------------------
(* Reading numbers and texts. *)

(* Skipping bytes keeps a reader. *)
LEMMA SkipType ==
    ASSUME NEW rd \in Readers, NEW n \in 0 .. Len(rd.buf)
    PROVE  /\ Skip(rd, n) \in Readers /\ Skip(rd, n).err = rd.err
           /\ Skip(rd, n).buf = SubSeq(rd.buf, n + 1, Len(rd.buf))
           /\ Len(Skip(rd, n).buf) = Len(rd.buf) - n
<1>1. rd.buf \in Seq(Byte) /\ rd.err \in BOOLEAN BY DEF Readers
<1> DEFINE rest == SubSeq(rd.buf, n + 1, Len(rd.buf))
<1>2. \A i \in n + 1 .. Len(rd.buf) : rd.buf[i] \in Byte BY <1>1
<1>3. Len(rd.buf) \in Nat /\ n + 1 \in Int BY <1>1
<1>4. rest \in Seq(Byte)
      /\ Len(rest) = IF n + 1 <= Len(rd.buf) THEN Len(rd.buf) - (n + 1) + 1 ELSE 0
  BY <1>2, <1>3, SubSeqProperties
<1> HIDE DEF rest
<1>5. Skip(rd, n) = [rd EXCEPT !.buf = rest] BY DEF Skip, rest
<1>6. Skip(rd, n) = [buf |-> rest, err |-> rd.err] BY <1>5 DEF Readers
<1>7. Len(rest) = Len(rd.buf) - n BY <1>3, <1>4
<1>8. QED BY <1>1, <1>4, <1>6, <1>7 DEF Readers, rest

(* A fresh reader has no error. *)
LEMMA ReaderType == ASSUME NEW s \in Seq(Byte) PROVE Reader(s) \in Readers /\ ~Reader(s).err
BY DEF Reader, Readers

(* A failed read keeps the buffer and leaves the error. *)
LEMMA TruncatedType ==
    ASSUME NEW rd \in Readers
    PROVE  /\ Truncated(rd) \in Readers /\ Truncated(rd).err /\ Truncated(rd).buf = rd.buf
BY DEF Truncated, Readers

(* Skipping the head of a concatenation leaves its tail. *)
LEMMA SkipConcat ==
    ASSUME NEW s \in Seq(Byte), NEW t \in Seq(Byte)
    PROVE  Skip(Reader(s \o t), Len(s)) = Reader(t)
<1> DEFINE b == s \o t
<1>1. /\ b \in Seq(Byte) /\ Len(b) = Len(s) + Len(t)
      /\ \A i \in 1 .. Len(s) + Len(t) : b[i] = IF i <= Len(s) THEN s[i] ELSE t[i - Len(s)]
  BY ConcatProperties
<1>2. Len(s) \in Nat /\ Len(t) \in Nat OBVIOUS
<1> HIDE DEF b
<1>3. Reader(b).buf = b /\ ~Reader(b).err /\ Reader(b) \in Readers BY <1>1 DEF Reader, Readers
<1>4. SubSeq(b, Len(s) + 1, Len(b)) = t
  <2> DEFINE r == SubSeq(b, Len(s) + 1, Len(b))
  <2>1. \A i \in Len(s) + 1 .. Len(b) : b[i] \in Byte BY <1>1, <1>2
  <2>2. Len(s) + 1 \in Int /\ Len(b) \in Int BY <1>1, <1>2
  <2>3. /\ r \in Seq(Byte)
        /\ Len(r) = IF Len(s) + 1 <= Len(b) THEN Len(b) - (Len(s) + 1) + 1 ELSE 0
        /\ \A i \in 1 .. Len(b) - (Len(s) + 1) + 1 : r[i] = b[Len(s) + 1 + i - 1]
    BY <2>1, <2>2, SubSeqProperties
  <2> HIDE DEF r
  <2>4. Len(r) = Len(t) BY <2>3, <1>1, <1>2
  <2>5. ASSUME NEW i \in 1 .. Len(r) PROVE r[i] = t[i]
    <3>1. Len(s) + 1 + i - 1 = Len(s) + i /\ i \in 1 .. Len(b) - (Len(s) + 1) + 1
      BY <2>4, <1>1, <1>2
    <3>2. r[i] = b[Len(s) + i] BY <2>3, <3>1
    <3>3. Len(s) + i \in 1 .. Len(s) + Len(t) /\ ~(Len(s) + i <= Len(s))
          /\ (Len(s) + i) - Len(s) = i
      BY <2>4, <1>2
    <3>4. b[Len(s) + i] = t[i] BY <3>3, <1>1
    <3>5. QED BY <3>2, <3>4
  <2>6. r = t BY <2>3, <2>4, <2>5, SeqEqual
  <2>7. QED BY <2>6 DEF r
<1>5. Skip(Reader(b), Len(s)) = [buf |-> t, err |-> FALSE]
  <2>1. Len(s) \in 0 .. Len(b) BY <1>1, <1>2
  <2>2. /\ Skip(Reader(b), Len(s)) \in Readers /\ ~Skip(Reader(b), Len(s)).err
        /\ Skip(Reader(b), Len(s)).buf = t
    BY <1>3, <1>4, <2>1, SkipType
  <2> DEFINE q == Skip(Reader(b), Len(s))
  <2> HIDE DEF q
  <2>3. q \in Readers /\ ~q.err /\ q.buf = t BY <2>2 DEF q
  <2>4. q = [buf |-> t, err |-> FALSE] BY <2>3 DEF Readers
  <2>5. QED BY <2>4 DEF q
<1>6. QED BY <1>5 DEF Reader, b

(* A reader that failed, or whose buffer ends within the varint, fails. *)
LEMMA GetUvarintFails ==
    ASSUME NEW rd \in Readers, rd.err \/ ~\E n : Ends(rd.buf, n)
    PROVE  GetUvarint(rd) = [rd |-> Truncated(rd), value |-> 0]
<1>1. CASE rd.err BY <1>1 DEF GetUvarint
<1>2. CASE ~\E n : Ends(rd.buf, n)
  <2> DEFINE buf == rd.buf
             ends == {i \in DOMAIN buf \cap 1 .. MaxVarintLen : buf[i] < 128}
  <2>1. buf \in Seq(Byte) /\ DOMAIN buf = 1 .. Len(buf) BY DEF Readers
  <2>2. ASSUME NEW e \in ends PROVE FALSE
    <3> DEFINE T == {j \in Nat : \A i \in 1 .. j : i \notin ends}
    <3>1. \A i \in ends : i \in Nat \ {0} BY WireAssumption
    <3>2. 0 \in T OBVIOUS
    <3>3. ASSUME NEW j \in T PROVE j + 1 \in T
      <4>1. j \in Nat /\ \A i \in 1 .. j : i \notin ends OBVIOUS
      <4>2. ASSUME j + 1 \in ends PROVE FALSE
        <5>1. j + 1 \in 1 .. MaxVarintLen /\ j + 1 \in DOMAIN buf /\ buf[j + 1] < 128
          BY <4>2
        <5>2. ASSUME NEW i \in 1 .. (j + 1) - 1 PROVE buf[i] >= 128
          <6>1. i \in 1 .. j /\ i \notin ends BY <4>1
          <6>2. i \in DOMAIN buf /\ i \in 1 .. MaxVarintLen
            BY <6>1, <5>1, <4>1, <2>1, WireAssumption
          <6>3. ~(buf[i] < 128) BY <6>1, <6>2
          <6>4. buf[i] \in Byte BY <6>2, <2>1
          <6>5. buf[i] \in 0 .. 255 BY <6>4 DEF Byte
          <6> HIDE DEF buf
          <6>6. QED BY <6>3, <6>5
        <5>3. Ends(buf, j + 1) BY <5>1, <5>2 DEF Ends
        <5>4. QED BY <5>3, <1>2
      <4> HIDE DEF ends
      <4>3. \A i \in 1 .. j + 1 : i \notin ends BY <4>1, <4>2
      <4>4. QED BY <4>1, <4>3
    <3> HIDE DEF ends
    <3>4. T = Nat BY <3>2, <3>3, Induction
    <3>5. e \in Nat \ {0} BY <3>1, <2>2
    <3>6. e \in T BY <3>4, <3>5
    <3>7. QED BY <3>5, <3>6, <2>2
  <2>3. ends = {} BY <2>2
  <2>4. QED BY <2>3 DEF GetUvarint
<1>3. QED BY <1>1, <1>2

(* Whatever the bytes, a varint read is a uint64, the error stays and the  *)
(* buffer does not grow.                                                   *)
LEMMA GetUvarintType ==
    ASSUME NEW rd \in Readers
    PROVE  /\ GetUvarint(rd).rd \in Readers /\ GetUvarint(rd).value \in Uint64
           /\ ~GetUvarint(rd).rd.err => ~rd.err
           /\ Len(GetUvarint(rd).rd.buf) <= Len(rd.buf)
<1> DEFINE bad == [rd |-> Truncated(rd), value |-> 0]
<1>0. rd.buf \in Seq(Byte) /\ rd.err \in BOOLEAN /\ Len(rd.buf) \in Nat BY DEF Readers
<1>1. CASE GetUvarint(rd) = bad BY <1>0, <1>1, TruncatedType, Uint64Type
<1>2. CASE rd.err \/ ~\E n : Ends(rd.buf, n) BY <1>1, <1>2, GetUvarintFails
<1>3. ASSUME NEW n, ~rd.err, Ends(rd.buf, n), GetUvarint(rd) # bad
      PROVE  /\ GetUvarint(rd).rd \in Readers /\ GetUvarint(rd).value \in Uint64
             /\ Len(GetUvarint(rd).rd.buf) <= Len(rd.buf)
  <2> DEFINE buf == rd.buf
  <2>1. n \in 1 .. MaxVarintLen /\ n \in 1 .. Len(buf) /\ buf[n] < 128
        /\ n \in Nat \ {0} /\ n \in 0 .. Len(buf)
    BY <1>3, <1>0, WireAssumption DEF Ends
  <2>2. \A i \in 1 .. n : buf[i] \in Byte BY <2>1, <1>0
  <2>3. ~Overflows(buf, n) BY <1>3, GetUvarintEnds
  <2>4. PICK d : Digits(buf, n, d) /\ GetUvarint(rd) = [rd |-> Skip(rd, n), value |-> d[1]]
    BY <2>3, <1>3, GetUvarintEnds
  <2>5. n = MaxVarintLen => buf[n] <= MaxLastByte
    <3>1. buf[n] \in Byte BY <2>1, <2>2
    <3>2. buf[n] \in 0 .. 255 /\ MaxLastByte \in 0 .. 127 BY <3>1, WireAssumption DEF Byte
    <3> HIDE DEF buf
    <3>3. QED BY <3>2, <2>3 DEF Overflows
  <2>6. MaxVarintLen \in Nat \ {0} /\ n <= MaxVarintLen BY <2>1, WireAssumption
  <2>7. d[1] < Values[MaxVarintLen]
    <3> HIDE DEF buf
    <3>1. QED BY <2>1, <2>2, <2>4, <2>5, <2>6, DigitsBound
  <2>8. d[1] \in Nat
    <3>1. 1 \in 1 .. n + 1 BY <2>1
    <3>2. QED BY <3>1, <2>4 DEF Digits
  <2>9. d[1] \in Uint64 BY <2>6, <2>7, <2>8, ValuesDef DEF Uint64
  <2>10. Skip(rd, n) \in Readers /\ Len(Skip(rd, n).buf) = Len(rd.buf) - n BY <2>1, SkipType
  <2>11. QED BY <2>1, <2>4, <2>9, <2>10, <1>0
<1>4. QED BY <1>1, <1>2, <1>3

(* The reader reads back the varint that was written, whatever follows. *)
LEMMA GetUvarintPut ==
    ASSUME NEW n \in Uint64, NEW t \in Seq(Byte)
    PROVE  GetUvarint(Reader(Uvarint[n] \o t)) = [rd |-> Reader(t), value |-> n]
<1> DEFINE u == Uvarint[n]
           b == u \o t
<1>1. n \in Nat /\ n < Values[MaxVarintLen] /\ MaxVarintLen \in Nat \ {0}
  BY ValuesDef, WireAssumption DEF Uint64
<1>2. /\ u \in Seq(Byte) /\ Len(u) \in Nat \ {0} /\ u[Len(u)] < 128
      /\ \A i \in 1 .. Len(u) - 1 : u[i] >= 128
  BY <1>1, UvarintWhole DEF Varint
<1>3. Len(u) <= MaxVarintLen /\ (Len(u) = MaxVarintLen => u[MaxVarintLen] <= MaxLastByte)
  BY <1>1, UvarintFits
<1>4. PICK c : Digits(u, Len(u), c) /\ c[1] = n BY <1>1, UvarintWhole
<1> HIDE DEF u
<1>5. /\ b \in Seq(Byte) /\ Len(b) = Len(u) + Len(t) /\ Len(t) \in Nat
      /\ \A i \in 1 .. Len(u) + Len(t) : b[i] = IF i <= Len(u) THEN u[i] ELSE t[i - Len(u)]
  BY <1>2, ConcatProperties
<1> HIDE DEF b
<1>6. \A i \in 1 .. Len(u) : b[i] = u[i] BY <1>2, <1>5
<1>7. Ends(b, Len(u))
  <2>1. Len(u) \in 1 .. Len(b) /\ DOMAIN b = 1 .. Len(b) /\ Len(u) \in 1 .. MaxVarintLen
    BY <1>2, <1>3, <1>5, <1>1
  <2>2. b[Len(u)] < 128 BY <1>2, <1>6
  <2>3. \A i \in 1 .. Len(u) - 1 : b[i] >= 128 BY <1>2, <1>6
  <2>4. QED BY <2>1, <2>2, <2>3 DEF Ends
<1>8. ~Overflows(b, Len(u))
  <2>1. u[Len(u)] \in Byte BY <1>2
  <2>2. u[Len(u)] \in Nat BY <2>1, ByteType
  <2>20. MaxLastByte \in Nat BY WireAssumption
  <2>3. b[Len(u)] = u[Len(u)] BY <1>2, <1>6
  <2>4. QED BY <1>3, <2>2, <2>20, <2>3 DEF Overflows
<1> DEFINE rd == Reader(b)
<1>9. rd \in Readers /\ ~rd.err /\ rd.buf = b BY <1>5 DEF Reader, Readers
<1> HIDE DEF rd
<1>10. PICK d : Digits(b, Len(u), d) /\ GetUvarint(rd) = [rd |-> Skip(rd, Len(u)), value |-> d[1]]
  BY <1>7, <1>8, <1>9, GetUvarintEnds
<1>11. d[1] = n
  <2>1. Chain(u, Len(u), c) /\ Chain(b, Len(u), d) BY <1>4, <1>10 DEF Digits, Chain
  <2>2. Agree(u, b, Len(u)) BY <1>6 DEF Agree
  <2>20. Len(u) \in Nat BY <1>2
  <2>3. c[1] = d[1] BY <2>20, <2>1, <2>2, DigitsUnique
  <2>4. QED BY <2>3, <1>4
<1>12. Skip(rd, Len(u)) = Reader(t) BY <1>2, SkipConcat DEF rd, b
<1>13. QED BY <1>10, <1>11, <1>12 DEF rd, b, u

(* What appendBytes writes: bytes, one at least. *)
LEMMA AppendBytesType ==
    ASSUME NEW s \in Seq(Byte)
    PROVE  appendBytes(s) \in Seq(Byte) /\ Len(appendBytes(s)) >= 1
<1>1. Len(s) \in Nat OBVIOUS
<1>2. Uvarint[Len(s)] \in Seq(Byte) /\ Len(Uvarint[Len(s)]) \in Nat \ {0}
  BY <1>1, UvarintWhole DEF Varint
<1> DEFINE u == Uvarint[Len(s)]
<1> HIDE DEF u
<1>3. u \o s \in Seq(Byte) /\ Len(u \o s) = Len(u) + Len(s) BY <1>2, ConcatProperties DEF u
<1>4. QED BY <1>1, <1>2, <1>3 DEF u, appendBytes

(* The head of a concatenation. *)
LEMMA SubSeqPrefix ==
    ASSUME NEW S, NEW s \in Seq(S), NEW t \in Seq(S)
    PROVE  SubSeq(s \o t, 1, Len(s)) = s
<1> DEFINE b == s \o t
           r == SubSeq(b, 1, Len(s))
<1>1. /\ b \in Seq(S) /\ Len(b) = Len(s) + Len(t)
      /\ \A i \in 1 .. Len(s) + Len(t) : b[i] = IF i <= Len(s) THEN s[i] ELSE t[i - Len(s)]
  BY ConcatProperties
<1>2. Len(s) \in Nat /\ Len(t) \in Nat OBVIOUS
<1> HIDE DEF b
<1>3. \A i \in 1 .. Len(s) : b[i] = s[i] /\ b[i] \in S BY <1>1, <1>2
<1>4. /\ r \in Seq(S) /\ Len(r) = (IF 1 <= Len(s) THEN Len(s) - 1 + 1 ELSE 0)
      /\ \A i \in 1 .. Len(s) - 1 + 1 : r[i] = b[1 + i - 1]
  BY <1>2, <1>3, SubSeqProperties
<1> HIDE DEF r
<1>5. Len(r) = Len(s) BY <1>4, <1>2
<1>6. \A i \in 1 .. Len(r) : r[i] = s[i]
  <2>1. ASSUME NEW i \in 1 .. Len(r) PROVE r[i] = s[i]
    <3>1. i \in 1 .. Len(s) - 1 + 1 /\ 1 + i - 1 = i /\ i \in 1 .. Len(s) BY <1>5, <1>2
    <3>2. QED BY <3>1, <1>4, <1>3
  <2>2. QED BY <2>1
<1>7. r = s BY <1>4, <1>5, <1>6, SeqEqual
<1>8. QED BY <1>7 DEF r, b

(* The reader reads back the text that was written, whatever follows. *)
LEMMA GetSlicePut ==
    ASSUME NEW s \in Text, NEW t \in Seq(Byte)
    PROVE  GetSlice(Reader(appendBytes(s) \o t)) = [rd |-> Reader(t), value |-> s]
<1>1. s \in Seq(Byte) /\ Len(s) \in Uint64 BY DEF Text, List
<1>2. Len(s) \in Nat OBVIOUS
<1> DEFINE u == Uvarint[Len(s)]
           rest == s \o t
<1>3. u \in Seq(Byte) BY <1>2, UvarintWhole DEF Varint
<1>4. rest \in Seq(Byte) /\ Len(rest) = Len(s) + Len(t) BY <1>1, ConcatProperties
<1>5. appendBytes(s) \o t = u \o rest
  <2> HIDE DEF u
  <2>1. (u \o s) \o t = u \o (s \o t) BY <1>1, <1>3, ConcatAssociative
  <2>2. QED BY <2>1 DEF appendBytes, u
<1> DEFINE length == GetUvarint(Reader(u \o rest))
<1>6. length = [rd |-> Reader(rest), value |-> Len(s)]
  <2> HIDE DEF rest
  <2>1. QED BY <1>1, <1>4, GetUvarintPut
<1> HIDE DEF length, u
<1>7. /\ ~length.rd.err /\ length.rd.buf = rest /\ length.value = Len(s)
      /\ length.rd = Reader(rest)
  BY <1>6 DEF Reader
<1>8. ~(length.value > Len(length.rd.buf)) BY <1>7, <1>4, <1>2
<1>9. GetSlice(Reader(u \o rest)) =
        [rd |-> Skip(length.rd, length.value), value |-> SubSeq(length.rd.buf, 1, length.value)]
  BY <1>7, <1>8 DEF GetSlice, length
<1>10. Skip(length.rd, length.value) = Reader(t) BY <1>1, <1>7, SkipConcat
<1>11. SubSeq(length.rd.buf, 1, length.value) = s BY <1>1, <1>7, SubSeqPrefix
<1> HIDE DEF rest
<1>12. QED BY <1>5, <1>9, <1>10, <1>11

(* The empty text is a text. *)
LEMMA EmptyText == <<>> \in Text /\ Len(<<>>) = 0
BY Uint64Type DEF Text, List

(* Whatever the bytes, a slice read is a text no longer than they are. *)
LEMMA GetSliceType ==
    ASSUME NEW rd \in Readers
    PROVE  /\ GetSlice(rd).rd \in Readers /\ GetSlice(rd).value \in Text
           /\ ~GetSlice(rd).rd.err => ~rd.err
           /\ Len(GetSlice(rd).rd.buf) <= Len(rd.buf)
<1> DEFINE length == GetUvarint(rd)
<1>1. /\ length.rd \in Readers /\ length.value \in Uint64
      /\ ~length.rd.err => ~rd.err /\ Len(length.rd.buf) <= Len(rd.buf)
  BY GetUvarintType
<1>2. Len(length.rd.buf) \in Nat /\ length.rd.buf \in Seq(Byte) /\ Len(rd.buf) \in Nat
  BY <1>1 DEF Readers
<1>3. CASE length.rd.err \/ length.value > Len(length.rd.buf)
  <2>1. GetSlice(rd) = [rd |-> Truncated(length.rd), value |-> <<>>] BY <1>3 DEF GetSlice
  <2> HIDE DEF length
  <2>2. QED BY <2>1, <1>1, <1>2, TruncatedType, EmptyText, GetUvarintType DEF length
<1>4. CASE ~(length.rd.err \/ length.value > Len(length.rd.buf))
  <2> DEFINE v == SubSeq(length.rd.buf, 1, length.value)
  <2>1. GetSlice(rd) = [rd |-> Skip(length.rd, length.value), value |-> v]
    BY <1>4 DEF GetSlice
  <2> HIDE DEF length
  <2>2. length.value \in Nat /\ length.value \in 0 .. Len(length.rd.buf)
    <3>1. length.value \in Nat BY <1>1, Uint64Type
    <3>2. ~(length.value > Len(length.rd.buf)) BY <1>4
    <3>3. QED BY <3>1, <3>2, <1>2
  <2>3. /\ Skip(length.rd, length.value) \in Readers
        /\ Len(Skip(length.rd, length.value).buf) = Len(length.rd.buf) - length.value
        /\ Skip(length.rd, length.value).err = length.rd.err
    BY <2>2, <1>1, SkipType
  <2>4. \A i \in 1 .. length.value : length.rd.buf[i] \in Byte BY <2>2, <1>2
  <2>5. v \in Seq(Byte)
        /\ Len(v) = IF 1 <= length.value THEN length.value - 1 + 1 ELSE 0
    BY <2>2, <2>4, SubSeqProperties
  <2>6. Len(v) = length.value BY <2>5, <2>2
  <2> HIDE DEF v
  <2>7. v \in Text BY <2>5, <2>6, <1>1 DEF Text, List
  <2>8. Len(length.rd.buf) <= Len(rd.buf) BY GetUvarintType DEF length
  <2>9. ~length.rd.err => ~rd.err BY GetUvarintType DEF length
  <2>10. GetSlice(rd).rd = Skip(length.rd, length.value) /\ GetSlice(rd).value = v BY <2>1
  <2>11. Len(GetSlice(rd).rd.buf) <= Len(rd.buf) BY <2>10, <2>3, <2>2, <2>8, <1>2
  <2>12. QED BY <2>10, <2>11, <2>3, <2>7, <2>9
<1>5. QED BY <1>3, <1>4

-----------------------------------------------------------------------------
(* Concatenations. *)

(* g[i] is the concatenation of the first i of ss. *)
Concats(ss, n, g) ==
    g[0] = <<>> /\ \A i \in 1 .. n : g[i] = g[i - 1] \o ss[i]

(* Sequences that agree have the same concatenations. *)
LEMMA ConcatsUnique ==
    ASSUME NEW ss, NEW tt, NEW n \in Nat, Agree(ss, tt, n),
           NEW g, NEW h, Concats(ss, n, g), Concats(tt, n, h)
    PROVE  g[n] = h[n]
<1> DEFINE T == {k \in Nat : k <= n => g[k] = h[k]}
<1>1. 0 \in T BY DEF Concats
<1>2. ASSUME NEW k \in T PROVE k + 1 \in T
  <2>0. k \in Nat OBVIOUS
  <2>1. ASSUME k + 1 <= n PROVE g[k + 1] = h[k + 1]
    <3>1. k + 1 \in 1 .. n /\ (k + 1) - 1 = k BY <2>0, <2>1
    <3>2. g[k + 1] = g[k] \o ss[k + 1] /\ h[k + 1] = h[k] \o tt[k + 1]
      BY <3>1 DEF Concats
    <3>3. ss[k + 1] = tt[k + 1] BY <3>1 DEF Agree
    <3>4. g[k] = h[k] BY <2>0, <2>1
    <3>5. QED BY <3>2, <3>3, <3>4
  <2>2. QED BY <2>0, <2>1
<1>3. T = Nat BY <1>1, <1>2, Induction
<1>4. n \in T BY <1>3
<1>5. QED BY <1>4

(* There are such concatenations. *)
LEMMA ConcatsExist ==
    ASSUME NEW S, NEW n \in Nat, NEW ss, \A i \in 1 .. n : ss[i] \in Seq(S)
    PROVE  \E g \in [0 .. n -> Seq(S)] : Concats(ss, n, g)
<1> DEFINE V == Seq(S)
           Step == [j \in Nat |-> [v \in V |-> IF j < n THEN v \o ss[j + 1] ELSE v]]
<1>1. Step \in [Nat -> [V -> V]]
  <2>1. ASSUME NEW j \in Nat, NEW v \in V, j < n PROVE v \o ss[j + 1] \in V
    <3>1. j + 1 \in 1 .. n BY <2>1
    <3>2. ss[j + 1] \in Seq(S) BY <3>1
    <3>3. QED BY <3>2, ConcatProperties
  <2>2. QED BY <2>1
<1>2. <<>> \in V OBVIOUS
<1>3. PICK f : Iterates(f, V, <<>>, Step)
  <2> HIDE DEF Step, V
  <2>1. QED BY <1>1, <1>2, Recursion
<1>4. f \in [Nat -> V] /\ f[0] = <<>> BY <1>3 DEF Iterates
<1> DEFINE g == [i \in 0 .. n |-> f[i]]
<1>5. g \in [0 .. n -> Seq(S)] /\ g[0] = <<>> BY <1>4
<1>6. ASSUME NEW i \in 1 .. n PROVE g[i] = g[i - 1] \o ss[i]
  <2>1. i - 1 \in Nat /\ i - 1 < n /\ (i - 1) + 1 = i OBVIOUS
  <2>2. f[(i - 1) + 1] = Step[i - 1][f[i - 1]] BY <2>1, <1>3 DEF Iterates
  <2>3. f[i - 1] \in V BY <2>1, <1>4
  <2>4. Step[i - 1][f[i - 1]] = f[i - 1] \o ss[(i - 1) + 1] BY <2>1, <2>3
  <2>5. g[i] = f[i] /\ g[i - 1] = f[i - 1] OBVIOUS
  <2> HIDE DEF Step, g
  <2>6. QED BY <2>1, <2>2, <2>4, <2>5
<1> HIDE DEF g
<1>7. Concats(ss, n, g) BY <1>5, <1>6 DEF Concats
<1>8. QED BY <1>5, <1>7

(* FlattenSeq, a fold, is the last of them. *)
LEMMA FlattenIs ==
    ASSUME NEW S, NEW ss \in Seq(Seq(S)), NEW h, Concats(ss, Len(ss), h)
    PROVE  FlattenSeq(ss) = h[Len(ss)] /\ FlattenSeq(ss) \in Seq(S)
<1> DEFINE n == Len(ss)
<1>1. n \in Nat /\ \A i \in 1 .. n : ss[i] \in Seq(S) OBVIOUS
<1>2. PICK g \in [0 .. n -> Seq(S)] : Concats(ss, n, g)
  <2> HIDE DEF n
  <2>1. QED BY <1>1, ConcatsExist
<1>3. Agree(ss, ss, n) BY DEF Agree
<1>4. g[n] = h[n]
  <2>1. Concats(ss, n, h) OBVIOUS
  <2> HIDE DEF n
  <2>2. QED BY <1>1, <1>2, <1>3, <2>1, ConcatsUnique
<1>5. g[n] \in Seq(S) BY <1>1, <1>2
<1>6. CASE n = 0
  <2>1. ss = <<>> BY <1>6
  <2>2. FlattenSeq(ss) = ss BY <1>6 DEF FlattenSeq
  <2>3. h[n] = <<>> BY <1>6 DEF Concats
  <2>4. QED BY <2>1, <2>2, <2>3, <1>4, <1>5
<1>7. CASE n # 0
  <2> DEFINE F(v, i) == IF i = 1 THEN ss[i] ELSE v[i - 1] \o ss[i]
             val == CHOOSE v : v = [i \in 1 .. n |-> F(v, i)]
             w == [i \in 1 .. n |-> g[i]]
  <2>1. FlattenSeq(ss) = val[n] BY <1>7 DEF FlattenSeq
  <2>2. w = [i \in 1 .. n |-> F(w, i)]
    <3>1. ASSUME NEW i \in 1 .. n PROVE w[i] = F(w, i)
      <4>1. g[i] = g[i - 1] \o ss[i] BY <1>2 DEF Concats
      <4>2. CASE i = 1
        <5>1. g[0] = <<>> BY <1>2 DEF Concats
        <5>2. ss[1] \in Seq(S) BY <1>1, <4>2
        <5>3. <<>> \o ss[1] = ss[1] BY <5>2, ConcatEmptySeq
        <5>4. g[i - 1] = <<>> /\ i - 1 = 0 BY <4>2, <5>1
        <5>5. g[i] = ss[i] BY <4>1, <4>2, <5>3, <5>4
        <5>6. w[i] = g[i] OBVIOUS
        <5> HIDE DEF w
        <5>7. F(w, i) = ss[i] BY <4>2
        <5>8. QED BY <5>5, <5>6, <5>7
      <4>3. CASE i # 1
        <5>1. i - 1 \in 1 .. n BY <4>3, <1>1
        <5>2. QED BY <4>1, <4>3, <5>1
      <4>4. QED BY <4>2, <4>3
    <3>2. QED BY <3>1
  <2>3. \E v : v = [i \in 1 .. n |-> F(v, i)] BY <2>2
  <2>4. val = [i \in 1 .. n |-> F(val, i)] BY <2>3, Zenon
  <2>5. \A i \in 1 .. n : val[i] = F(val, i)
    <3> DEFINE H == [i \in 1 .. n |-> F(val, i)]
    <3> HIDE DEF F
    <3>1. \A i \in 1 .. n : H[i] = F(val, i) OBVIOUS
    <3>2. val = H BY <2>4
    <3> HIDE DEF H, val
    <3>3. QED BY <3>1, <3>2
  <2> HIDE DEF val
  <2> DEFINE q == [i \in 0 .. n |-> IF i = 0 THEN <<>> ELSE val[i]]
  <2>6. Concats(ss, n, q)
    <3>1. q[0] = <<>> BY <1>1
    <3>2. ASSUME NEW i \in 1 .. n PROVE q[i] = q[i - 1] \o ss[i]
      <4>1. q[i] = val[i] /\ val[i] = F(val, i) BY <2>5, <1>1
      <4>2. CASE i = 1
        <5>1. ss[1] \in Seq(S) BY <1>1, <4>2
        <5>2. <<>> \o ss[1] = ss[1] BY <5>1, ConcatEmptySeq
        <5>3. q[i - 1] = <<>> BY <4>2, <1>1
        <5>4. QED BY <4>1, <4>2, <5>2, <5>3
      <4>3. CASE i # 1
        <5>1. q[i - 1] = val[i - 1] BY <4>3, <1>1
        <5>2. QED BY <4>1, <4>3, <5>1
      <4>4. QED BY <4>2, <4>3
    <3> HIDE DEF q
    <3>3. QED BY <3>1, <3>2 DEF Concats
  <2>7. q[n] = val[n] BY <1>1, <1>7
  <2>8. q[n] = g[n]
    <3> HIDE DEF q, n
    <3>1. QED BY <1>1, <1>2, <1>3, <2>6, ConcatsUnique
  <2>9. QED BY <2>1, <2>7, <2>8, <1>4, <1>5
<1>8. QED BY <1>6, <1>7

(* The first k of ss, concatenated. *)
Flat(ss, k) == FlattenSeq(SubSeq(ss, 1, k))

(* Flat adds one sequence at a time. *)
LEMMA FlatSteps ==
    ASSUME NEW S, NEW ss \in Seq(Seq(S))
    PROVE  /\ \A k \in 0 .. Len(ss) : Flat(ss, k) \in Seq(S)
           /\ Flat(ss, 0) = <<>> /\ Flat(ss, Len(ss)) = FlattenSeq(ss)
           /\ \A k \in 1 .. Len(ss) : Flat(ss, k) = Flat(ss, k - 1) \o ss[k]
<1> DEFINE n == Len(ss)
<1>1. n \in Nat /\ \A i \in 1 .. n : ss[i] \in Seq(S) OBVIOUS
<1>2. PICK g \in [0 .. n -> Seq(S)] : Concats(ss, n, g)
  <2> HIDE DEF n
  <2>1. QED BY <1>1, ConcatsExist
<1>3. ASSUME NEW k \in 0 .. n PROVE Flat(ss, k) = g[k]
  <2> DEFINE s == SubSeq(ss, 1, k)
  <2>1. k \in Int /\ \A i \in 1 .. k : ss[i] \in Seq(S) BY <1>1
  <2>2. /\ s \in Seq(Seq(S)) /\ Len(s) = IF 1 <= k THEN k - 1 + 1 ELSE 0
        /\ \A i \in 1 .. k - 1 + 1 : s[i] = ss[1 + i - 1]
    BY <2>1, SubSeqProperties
  <2> HIDE DEF s
  <2>3. Len(s) = k BY <2>2, <1>1
  <2>4. ASSUME NEW i \in 1 .. k PROVE s[i] = ss[i]
    <3>1. i \in 1 .. k - 1 + 1 /\ 1 + i - 1 = i BY <1>1
    <3>2. QED BY <3>1, <2>2
  <2>5. Concats(s, k, g)
    <3>1. \A i \in 1 .. k : i \in 1 .. n BY <1>1
    <3>2. QED BY <3>1, <2>4, <1>2 DEF Concats
  <2>6. FlattenSeq(s) = g[k] BY <2>2, <2>3, <2>5, FlattenIs
  <2>7. QED BY <2>6 DEF Flat, s
<1>4. \A k \in 0 .. n : Flat(ss, k) \in Seq(S) BY <1>2, <1>3
<1>5. Flat(ss, 0) = <<>> BY <1>1, <1>2, <1>3 DEF Concats
<1>6. Flat(ss, n) = FlattenSeq(ss)
  <2>1. SubSeq(ss, 1, Len(ss)) = ss BY SubSeqFull
  <2>2. QED BY <2>1 DEF Flat
<1>7. ASSUME NEW k \in 1 .. n PROVE Flat(ss, k) = Flat(ss, k - 1) \o ss[k]
  <2>1. k - 1 \in 0 .. n /\ k \in 0 .. n BY <1>1
  <2>2. g[k] = g[k - 1] \o ss[k] BY <1>2 DEF Concats
  <2>3. QED BY <2>1, <2>2, <1>3
<1>8. QED BY <1>4, <1>5, <1>6, <1>7

-----------------------------------------------------------------------------
(* Writing and reading the fields of a layout. *)

(* The fields that layouts name. *)
Names == Numeric \cup {"token", "key", "clientID", "resumeConnectionID", "channel", "name",
                       "data", "encoding", "messageID", "connectionID", "message"}

(* The values of a field: a number or a text. *)
FieldType(x) == IF x \in Numeric THEN Uint64 ELSE Text

(* The fields among the first i of a layout. *)
Fields(layout, i) == {layout[j] : j \in 1 .. i}

(* A field is written as bytes, one at least. *)
LEMMA PutFieldType ==
    ASSUME NEW frame, NEW x, frame[x] \in FieldType(x)
    PROVE  PutField(frame, x) \in Seq(Byte) /\ Len(PutField(frame, x)) >= 1
<1>1. CASE x \in Numeric
  <2>1. frame[x] \in Uint64 BY <1>1 DEF FieldType
  <2>2. frame[x] \in Nat BY <2>1, Uint64Type
  <2>3. Varint(Uvarint[frame[x]]) BY <2>2, UvarintWhole
  <2>4. Uvarint[frame[x]] \in Seq(Byte) /\ Len(Uvarint[frame[x]]) >= 1 BY <2>3 DEF Varint
  <2>5. QED BY <1>1, <2>4 DEF PutField
<1>2. CASE x \notin Numeric
  <2>1. frame[x] \in Seq(Byte) BY <1>2 DEF FieldType, Text, List
  <2>2. QED BY <1>2, <2>1, AppendBytesType DEF PutField
<1>3. QED BY <1>1, <1>2

(* A field that was written is read back. *)
LEMMA GetFieldPut ==
    ASSUME NEW frame, NEW x, frame[x] \in FieldType(x), NEW t \in Seq(Byte)
    PROVE  GetField(Reader(PutField(frame, x) \o t), x) = [rd |-> Reader(t), value |-> frame[x]]
<1>1. CASE x \in Numeric
  <2>1. frame[x] \in Uint64 BY <1>1 DEF FieldType
  <2>2. QED BY <1>1, <2>1, GetUvarintPut DEF PutField, GetField
<1>2. CASE x \notin Numeric
  <2>1. frame[x] \in Text BY <1>2 DEF FieldType
  <2>2. QED BY <1>2, <2>1, GetSlicePut DEF PutField, GetField
<1>3. QED BY <1>1, <1>2

(* Whatever the bytes, a field read has its type. *)
LEMMA GetFieldType ==
    ASSUME NEW rd \in Readers, NEW x
    PROVE  /\ GetField(rd, x).rd \in Readers /\ GetField(rd, x).value \in FieldType(x)
           /\ ~GetField(rd, x).rd.err => ~rd.err
<1>1. CASE x \in Numeric BY <1>1, GetUvarintType DEF FieldType, GetField
<1>2. CASE x \notin Numeric BY <1>2, GetSliceType DEF FieldType, GetField
<1>3. QED BY <1>1, <1>2

(* P[i] is what Put has written after i fields. *)
Puts(frame, layout, n, P) ==
    /\ P \in [0 .. n -> Seq(Byte)]
    /\ P[0] = <<>> /\ P[n] = Put(frame, layout)
    /\ \A i \in 1 .. n : P[i] = P[i - 1] \o PutField(frame, layout[i])

(* Put writes the fields of a layout one after the other. *)
LEMMA PutSteps ==
    ASSUME NEW frame, NEW n \in Nat, NEW layout, layout \in [1 .. n -> Names],
           \A x \in Fields(layout, n) : frame[x] \in FieldType(x)
    PROVE  \E P : Puts(frame, layout, n, P)
<1> DEFINE ss == [i \in DOMAIN layout |-> PutField(frame, layout[i])]
<1>1. \A i \in 1 .. n : ss[i] = PutField(frame, layout[i]) /\ ss[i] \in Seq(Byte)
  <2>1. ASSUME NEW i \in 1 .. n
        PROVE  ss[i] = PutField(frame, layout[i]) /\ ss[i] \in Seq(Byte)
    <3>1. layout[i] \in Fields(layout, n) BY DEF Fields
    <3>2. frame[layout[i]] \in FieldType(layout[i]) BY <3>1
    <3>3. PutField(frame, layout[i]) \in Seq(Byte) BY <3>2, PutFieldType
    <3>4. QED BY <3>3
  <2>2. QED BY <2>1
<1>2. ss \in [1 .. n -> Seq(Byte)] BY <1>1
<1>3. ss \in Seq(Seq(Byte)) /\ Len(ss) = n
  <2> HIDE DEF ss
  <2>1. QED BY <1>2
<1> DEFINE P == [i \in 0 .. n |-> Flat(ss, i)]
<1>4. Put(frame, layout) = FlattenSeq(ss) BY DEF Put
<1> HIDE DEF ss
<1>5. /\ \A k \in 0 .. n : Flat(ss, k) \in Seq(Byte)
      /\ Flat(ss, 0) = <<>> /\ Flat(ss, n) = FlattenSeq(ss)
      /\ \A k \in 1 .. n : Flat(ss, k) = Flat(ss, k - 1) \o ss[k]
  BY <1>3, FlatSteps
<1>6. P \in [0 .. n -> Seq(Byte)] /\ P[0] = <<>> /\ P[n] = Put(frame, layout)
  BY <1>4, <1>5
<1>7. ASSUME NEW i \in 1 .. n PROVE P[i] = P[i - 1] \o PutField(frame, layout[i])
  <2>1. P[i] = Flat(ss, i) /\ P[i - 1] = Flat(ss, i - 1) OBVIOUS
  <2> HIDE DEF P
  <2>2. QED BY <2>1, <1>1, <1>5
<1> HIDE DEF P
<1>8. Puts(frame, layout, n, P) BY <1>6, <1>7 DEF Puts
<1>9. QED BY <1>8

(* What Put writes: bytes, one for each field at least. *)
LEMMA PutType ==
    ASSUME NEW frame, NEW n \in Nat, NEW layout, layout \in [1 .. n -> Names],
           \A x \in Fields(layout, n) : frame[x] \in FieldType(x)
    PROVE  Put(frame, layout) \in Seq(Byte) /\ Len(Put(frame, layout)) >= n
<1>0. PICK P : Puts(frame, layout, n, P) BY PutSteps
<1>1. /\ P \in [0 .. n -> Seq(Byte)]
      /\ P[0] = <<>> /\ P[n] = Put(frame, layout)
      /\ \A i \in 1 .. n : P[i] = P[i - 1] \o PutField(frame, layout[i])
  BY <1>0 DEF Puts
<1> DEFINE T == {k \in Nat : k <= n => Len(P[k]) >= k}
<1>2. 0 \in T BY <1>1
<1>3. ASSUME NEW k \in T PROVE k + 1 \in T
  <2>0. k \in Nat OBVIOUS
  <2>1. ASSUME k + 1 <= n PROVE Len(P[k + 1]) >= k + 1
    <3>1. k + 1 \in 1 .. n /\ (k + 1) - 1 = k /\ k \in 0 .. n BY <2>0, <2>1
    <3> DEFINE f == PutField(frame, layout[k + 1])
    <3>2. P[k + 1] = P[k] \o f BY <3>1, <1>1
    <3>3. layout[k + 1] \in Fields(layout, n) BY <3>1 DEF Fields
    <3>4. f \in Seq(Byte) /\ Len(f) >= 1 BY <3>3, PutFieldType
    <3>5. P[k] \in Seq(Byte) BY <3>1, <1>1
    <3> HIDE DEF f
    <3>6. Len(P[k + 1]) = Len(P[k]) + Len(f) BY <3>2, <3>4, <3>5, ConcatProperties
    <3>7. Len(P[k]) >= k BY <3>1
    <3>8. Len(P[k]) \in Nat /\ Len(f) \in Nat BY <3>4, <3>5
    <3>9. QED BY <3>4, <3>6, <3>7, <3>8, <2>0
  <2>2. QED BY <2>0, <2>1
<1>4. T = Nat BY <1>2, <1>3, Induction
<1>5. n \in T BY <1>4
<1>6. QED BY <1>1, <1>5

(* g[i] is what Get has read after i fields. *)
Gets(rd, layout, n, g) ==
    /\ g[0] = [rd |-> rd, value |-> <<>>]
    /\ \A i \in 1 .. n : g[i] = AddField(g[i - 1], layout[i])

(* Reading one more field. *)
LEMMA AddFieldIs ==
    ASSUME NEW got, NEW x
    PROVE  AddField(got, x) = [rd |-> GetField(got.rd, x).rd,
                               value |-> Join(got.value, [y \in {x} |-> GetField(got.rd, x).value])]
BY DEF AddField

(* The partial frames: some names with a value each. *)
Maps == UNION {[D -> Uint64 \cup Text] : D \in SUBSET Names}

(* Joining one field to what has been read; the earlier of a name wins. *)
LEMMA Extend ==
    ASSUME NEW D, NEW f, DOMAIN f = D, NEW x, NEW v
    PROVE  Join(f, [y \in {x} |-> v]) = [y \in D \cup {x} |-> IF y \in D THEN f[y] ELSE v]
BY DEF Join

(* Get, a recursive function of the model, reads the fields one after the  *)
(* other.                                                                  *)
LEMMA GetIs ==
    ASSUME NEW rd \in Readers, NEW n \in Nat, NEW layout, layout \in [1 .. n -> Names]
    PROVE  \E g : Gets(rd, layout, n, g) /\ Get(rd, layout) = g[n]
<1> DEFINE V == [rd : Readers, value : Maps]
           base == [rd |-> rd, value |-> <<>>]
           Step == [j \in Nat |-> [v \in V |->
                      IF j < n THEN AddField(v, layout[j + 1]) ELSE v]]
<1>1. Step \in [Nat -> [V -> V]]
  <2>1. ASSUME NEW j \in Nat, NEW v \in V, j < n PROVE AddField(v, layout[j + 1]) \in V
    <3> DEFINE x == layout[j + 1]
               one == GetField(v.rd, x)
    <3>0. j + 1 \in 1 .. n BY <2>1
    <3>1. x \in Names BY <3>0
    <3>2. v.rd \in Readers /\ v.value \in Maps OBVIOUS
    <3>3. one.rd \in Readers /\ one.value \in Uint64 \cup Text
      BY <3>2, GetFieldType DEF FieldType
    <3> HIDE DEF one, x
    <3>4. PICK D \in SUBSET Names : v.value \in [D -> Uint64 \cup Text] BY <3>2 DEF Maps
    <3>5. DOMAIN v.value = D BY <3>4
    <3>6. Join(v.value, [y \in {x} |-> one.value]) =
            [y \in D \cup {x} |-> IF y \in D THEN v.value[y] ELSE one.value]
      BY <3>5 DEF Join
    <3>7. Join(v.value, [y \in {x} |-> one.value]) \in [D \cup {x} -> Uint64 \cup Text]
      BY <3>3, <3>4, <3>6
    <3>8. Join(v.value, [y \in {x} |-> one.value]) \in Maps
      <4>1. D \cup {x} \in SUBSET Names BY <3>1, <3>4
      <4> DEFINE w == Join(v.value, [y \in {x} |-> one.value])
      <4> HIDE DEF w
      <4>2. w \in [D \cup {x} -> Uint64 \cup Text] BY <3>7 DEF w
      <4>3. w \in Maps BY <4>1, <4>2 DEF Maps
      <4>4. QED BY <4>3 DEF w
    <3>9. AddField(v, x) = [rd |-> one.rd, value |-> Join(v.value, [y \in {x} |-> one.value])]
      BY AddFieldIs DEF one
    <3>10. AddField(v, x) \in V BY <3>3, <3>8, <3>9
    <3>11. QED BY <3>10 DEF x
  <2>2. QED BY <2>1
<1>2. base \in V
  <2>1. <<>> \in [{} -> Uint64 \cup Text] OBVIOUS
  <2>2. {} \in SUBSET Names OBVIOUS
  <2>3. <<>> \in Maps BY <2>1, <2>2 DEF Maps
  <2>4. QED BY <2>3
<1>3. PICK f : Iterates(f, V, base, Step)
  <2> HIDE DEF Step, V, base
  <2>1. QED BY <1>1, <1>2, Recursion
<1>4. f \in [Nat -> V] /\ f[0] = base BY <1>3 DEF Iterates
<1>5. ASSUME NEW i \in 1 .. n PROVE f[i] = AddField(f[i - 1], layout[i])
  <2>1. i - 1 \in Nat /\ i - 1 < n /\ (i - 1) + 1 = i OBVIOUS
  <2>2. f[(i - 1) + 1] = Step[i - 1][f[i - 1]] BY <2>1, <1>3 DEF Iterates
  <2>3. f[i - 1] \in V BY <2>1, <1>4
  <2> HIDE DEF V
  <2>4. Step[i - 1][f[i - 1]] = AddField(f[i - 1], layout[(i - 1) + 1]) BY <2>1, <2>3
  <2> HIDE DEF Step
  <2>5. QED BY <2>1, <2>2, <2>4
<1> DEFINE F(v, i) == IF i = 0 THEN base ELSE AddField(v[i - 1], layout[i])
           g == [i \in 0 .. n |-> f[i]]
<1>6. g = [i \in 0 .. n |-> F(g, i)]
  <2>1. ASSUME NEW i \in 0 .. n PROVE g[i] = F(g, i)
    <3> HIDE DEF base
    <3>1. CASE i = 0 BY <3>1, <1>4
    <3>2. CASE i # 0
      <4>1. i \in 1 .. n /\ i - 1 \in 0 .. n BY <3>2
      <4>2. g[i] = f[i] /\ g[i - 1] = f[i - 1] BY <4>1
      <4> HIDE DEF g
      <4>3. QED BY <4>1, <4>2, <3>2, <1>5
    <3>3. QED BY <3>1, <3>2
  <2> HIDE DEF F
  <2>2. QED BY <2>1
<1> DEFINE val == CHOOSE v : v = [i \in 0 .. n |-> F(v, i)]
<1>7. val = [i \in 0 .. n |-> F(val, i)]
  <2>1. \E v : v = [i \in 0 .. n |-> F(v, i)] BY <1>6
  <2>2. QED BY <2>1, Zenon
<1>8. Len(layout) = n OBVIOUS
<1>9. Get(rd, layout) = val[n]
  <2>1. Get(rd, layout) = (CHOOSE v : v = [i \in 0 .. Len(layout) |-> F(v, i)])[Len(layout)]
    BY DEF Get
  <2> HIDE DEF F
  <2>2. QED BY <2>1, <1>8
<1>10. \A i \in 0 .. n : val[i] = F(val, i)
  <2> DEFINE H == [i \in 0 .. n |-> F(val, i)]
  <2> HIDE DEF F
  <2>1. \A i \in 0 .. n : H[i] = F(val, i) OBVIOUS
  <2>2. val = H BY <1>7
  <2> HIDE DEF H, val
  <2>3. QED BY <2>1, <2>2
<1> HIDE DEF val
<1>11. Gets(rd, layout, n, val)
  <2>1. val[0] = base BY <1>10
  <2>2. \A i \in 1 .. n : val[i] = AddField(val[i - 1], layout[i]) BY <1>10
  <2>3. QED BY <2>1, <2>2 DEF Gets
<1>12. QED BY <1>9, <1>11

-----------------------------------------------------------------------------
(* Reading back what Put wrote. *)

(* P[i] continues P[i - 1]. *)
Grows(P, n) ==
    /\ P \in [0 .. n -> Seq(Byte)]
    /\ \A i \in 1 .. n : \E x \in Seq(Byte) : P[i] = P[i - 1] \o x

(* p is the head of s. *)
Starts(p, s) == \E q \in Seq(Byte) : s = p \o q

(* A head stays one when more follows. *)
LEMMA StartsMore ==
    ASSUME NEW p \in Seq(Byte), NEW s, Starts(p, s), NEW x \in Seq(Byte)
    PROVE  Starts(p, s \o x)
<1>1. PICK q \in Seq(Byte) : s = p \o q BY DEF Starts
<1>2. (p \o q) \o x = p \o (q \o x) BY ConcatAssociative
<1>3. q \o x \in Seq(Byte) BY ConcatProperties
<1>4. s \o x = p \o (q \o x) BY <1>1, <1>2
<1>5. QED BY <1>3, <1>4 DEF Starts

(* Concatenation is associative. *)
LEMMA Assoc ==
    ASSUME NEW a \in Seq(Byte), NEW s \in Seq(Byte), NEW t \in Seq(Byte)
    PROVE  (a \o s) \o t = a \o (s \o t)
BY ConcatAssociative

(* Equal concatenations with the same head have the same tail. *)
LEMMA CancelLeft ==
    ASSUME NEW a \in Seq(Byte), NEW s \in Seq(Byte), NEW t \in Seq(Byte), a \o s = a \o t
    PROVE  s = t
BY ConcatSimplifications

(* What was written first is the head of what is written at last. *)
LEMMA GrowsFrom ==
    ASSUME NEW n \in Nat, NEW P, Grows(P, n), NEW i \in 0 .. n
    PROVE  \E q \in Seq(Byte) : P[n] = P[i] \o q
<1> DEFINE T == {k \in Nat : k <= n - i => Starts(P[i], P[i + k])}
<1>0. P[i] \in Seq(Byte)
  <2>1. P \in [0 .. n -> Seq(Byte)] BY DEF Grows
  <2>2. QED BY <2>1
<1>1. 0 \in T
  <2>1. i + 0 = i OBVIOUS
  <2>2. P[i] = P[i] \o <<>> BY <1>0, ConcatEmptySeq
  <2>3. <<>> \in Seq(Byte) OBVIOUS
  <2>4. Starts(P[i], P[i + 0]) BY <2>1, <2>2, <2>3 DEF Starts
  <2>5. QED BY <2>4
<1>2. ASSUME NEW k \in T PROVE k + 1 \in T
  <2>0. k \in Nat OBVIOUS
  <2>1. ASSUME k + 1 <= n - i PROVE Starts(P[i], P[i + (k + 1)])
    <3>1. k <= n - i BY <2>0, <2>1
    <3>2. Starts(P[i], P[i + k]) BY <3>1
    <3>3. i + (k + 1) \in 1 .. n /\ (i + (k + 1)) - 1 = i + k BY <2>0, <2>1
    <3>4. PICK x \in Seq(Byte) : P[i + (k + 1)] = P[(i + (k + 1)) - 1] \o x BY <3>3 DEF Grows
    <3>5. P[i + (k + 1)] = P[i + k] \o x BY <3>3, <3>4
    <3>6. Starts(P[i], P[i + k] \o x) BY <1>0, <3>2, StartsMore
    <3>7. QED BY <3>5, <3>6
  <2>2. QED BY <2>0, <2>1
<1>3. T = Nat BY <1>1, <1>2, Induction
<1>4. n - i \in Nat /\ i + (n - i) = n OBVIOUS
<1>5. n - i \in T BY <1>3, <1>4
<1>6. Starts(P[i], P[i + (n - i)]) BY <1>4, <1>5
<1>7. QED BY <1>4, <1>6 DEF Starts

(* Whatever the bytes, Get reads a record of the layout's fields, each of  *)
(* its type.                                                               *)
LEMMA GetType ==
    ASSUME NEW rd \in Readers, NEW n \in Nat, NEW layout, layout \in [1 .. n -> Names]
    PROVE  /\ Get(rd, layout) = [rd |-> Get(rd, layout).rd, value |-> Get(rd, layout).value]
           /\ Get(rd, layout).rd \in Readers
           /\ ~Get(rd, layout).rd.err => ~rd.err
           /\ Get(rd, layout).value =
                [x \in Fields(layout, n) |-> Get(rd, layout).value[x]]
           /\ \A x \in Fields(layout, n) : Get(rd, layout).value[x] \in FieldType(x)
<1>1. PICK g : Gets(rd, layout, n, g) /\ Get(rd, layout) = g[n] BY GetIs
<1> DEFINE Good(i) == /\ g[i] = [rd |-> g[i].rd, value |-> g[i].value]
                      /\ g[i].rd \in Readers
                      /\ ~g[i].rd.err => ~rd.err
                      /\ g[i].value = [x \in Fields(layout, i) |-> g[i].value[x]]
                      /\ \A x \in Fields(layout, i) : g[i].value[x] \in FieldType(x)
           T == {i \in Nat : i <= n => Good(i)}
<1>2. 0 \in T
  <2>1. g[0] = [rd |-> rd, value |-> <<>>] BY <1>1 DEF Gets
  <2>2. Fields(layout, 0) = {} BY DEF Fields
  <2>3. <<>> = [x \in {} |-> <<>>[x]] OBVIOUS
  <2>4. g[0].rd = rd /\ g[0].value = <<>> BY <2>1
  <2>5. g[0] = [rd |-> g[0].rd, value |-> g[0].value] BY <2>1, <2>4
  <2>6. g[0].value = [x \in Fields(layout, 0) |-> g[0].value[x]] BY <2>2, <2>3, <2>4
  <2>7. \A x \in Fields(layout, 0) : g[0].value[x] \in FieldType(x) BY <2>2
  <2>8. g[0].rd \in Readers /\ (~g[0].rd.err => ~rd.err) BY <2>4
  <2>9. Good(0) BY <2>5, <2>6, <2>7, <2>8
  <2> HIDE DEF Good
  <2>10. QED BY <2>9
<1>3. ASSUME NEW i \in T PROVE i + 1 \in T
  <2>0. i \in Nat OBVIOUS
  <2>1. ASSUME i + 1 <= n PROVE Good(i + 1)
    <3> DEFINE x == layout[i + 1]
               one == GetField(g[i].rd, x)
               f == g[i].value
               h == [y \in Fields(layout, i) \cup {x} |->
                        IF y \in Fields(layout, i) THEN f[y] ELSE one.value]
    <3>1. i + 1 \in 1 .. n /\ (i + 1) - 1 = i /\ Good(i) BY <2>0, <2>1
    <3>2. g[i + 1] = AddField(g[i], x) BY <3>1, <1>1 DEF Gets
    <3>3. /\ one.rd \in Readers /\ one.value \in FieldType(x)
          /\ ~one.rd.err => ~g[i].rd.err
      BY <3>1, GetFieldType
    <3>4. g[i + 1] = [rd |-> one.rd, value |-> Join(f, [y \in {x} |-> one.value])]
      BY <3>2, AddFieldIs
    <3>5. DOMAIN f = Fields(layout, i) BY <3>1
    <3>6. Fields(layout, i + 1) = Fields(layout, i) \cup {x}
      <4>1. \A j \in 1 .. i + 1 : j \in 1 .. i \/ j = i + 1 BY <2>0
      <4>2. QED BY <4>1, <2>0 DEF Fields
    <3> HIDE DEF one
    <3>7. Join(f, [y \in {x} |-> one.value]) = h BY <3>5 DEF Join
    <3>8. g[i + 1] = [rd |-> one.rd, value |-> h] BY <3>4, <3>7
    <3>9. \A y \in Fields(layout, i + 1) : h[y] \in FieldType(y)
      <4>1. ASSUME NEW y \in Fields(layout, i + 1) PROVE h[y] \in FieldType(y)
        <5>1. CASE y \in Fields(layout, i)
          <6>1. f[y] \in FieldType(y) BY <5>1, <3>1
          <6>2. h[y] = f[y] BY <5>1
          <6> HIDE DEF h, f
          <6>3. QED BY <6>1, <6>2
        <5>2. CASE y \notin Fields(layout, i)
          <6>1. y = x BY <5>2, <3>6, <4>1
          <6>2. h[y] = one.value BY <5>2, <6>1
          <6> HIDE DEF h
          <6>3. QED BY <6>1, <6>2, <3>3
        <5>3. QED BY <5>1, <5>2
      <4>2. QED BY <4>1
    <3>10. h = [y \in Fields(layout, i + 1) |-> h[y]] BY <3>6
    <3> HIDE DEF h
    <3>11. g[i + 1].rd = one.rd /\ g[i + 1].value = h BY <3>8
    <3>12. ~g[i + 1].rd.err => ~rd.err BY <3>1, <3>3, <3>11
    <3>13. g[i + 1] = [rd |-> g[i + 1].rd, value |-> g[i + 1].value] BY <3>8, <3>11
    <3>14. g[i + 1].value = [y \in Fields(layout, i + 1) |-> g[i + 1].value[y]]
      BY <3>10, <3>11
    <3>15. g[i + 1].rd \in Readers BY <3>3, <3>11
    <3>16. \A y \in Fields(layout, i + 1) : g[i + 1].value[y] \in FieldType(y)
      BY <3>9, <3>11
    <3>17. QED BY <3>12, <3>13, <3>14, <3>15, <3>16
  <2> HIDE DEF Good
  <2>2. QED BY <2>0, <2>1
<1> HIDE DEF Good
<1>4. T = Nat BY <1>2, <1>3, Induction
<1>5. n \in T BY <1>4
<1>6. Good(n) BY <1>5
<1>7. QED BY <1>1, <1>6 DEF Good

(* Get reads back the fields Put wrote by the same layout. *)
LEMMA GetPut ==
    ASSUME NEW frame, NEW n \in Nat, NEW layout, layout \in [1 .. n -> Names],
           \A x \in Fields(layout, n) : frame[x] \in FieldType(x), NEW t \in Seq(Byte)
    PROVE  Get(Reader(Put(frame, layout) \o t), layout) =
              [rd |-> Reader(t), value |-> [x \in Fields(layout, n) |-> frame[x]]]
<1>0. PICK P : Puts(frame, layout, n, P) BY PutSteps
<1>1. /\ P \in [0 .. n -> Seq(Byte)]
      /\ P[0] = <<>> /\ P[n] = Put(frame, layout)
      /\ \A i \in 1 .. n : P[i] = P[i - 1] \o PutField(frame, layout[i])
  BY <1>0 DEF Puts
<1>2. \A i \in 1 .. n : /\ frame[layout[i]] \in FieldType(layout[i])
                        /\ PutField(frame, layout[i]) \in Seq(Byte)
  <2>1. ASSUME NEW i \in 1 .. n PROVE /\ frame[layout[i]] \in FieldType(layout[i])
                                      /\ PutField(frame, layout[i]) \in Seq(Byte)
    <3>1. layout[i] \in Fields(layout, n) BY DEF Fields
    <3>2. QED BY <3>1, PutFieldType
  <2>2. QED BY <2>1
<1>3. Grows(P, n) BY <1>1, <1>2 DEF Grows
<1> DEFINE all == P[n] \o t
           rd == Reader(all)
<1>4. P[n] \in Seq(Byte) /\ all \in Seq(Byte) BY <1>1, ConcatProperties
<1>5. rd \in Readers BY <1>4, ReaderType
<1>6. PICK g : Gets(rd, layout, n, g) /\ Get(rd, layout) = g[n]
  <2> HIDE DEF rd
  <2>1. QED BY <1>5, GetIs
<1> DEFINE Good(i) == \E r \in Seq(Byte) :
              /\ all = P[i] \o r
              /\ g[i] = [rd |-> Reader(r), value |-> [x \in Fields(layout, i) |-> frame[x]]]
           T == {i \in Nat : i <= n => Good(i)}
<1>7. 0 \in T
  <2>1. g[0] = [rd |-> Reader(all), value |-> <<>>] BY <1>6 DEF Gets
  <2>2. Fields(layout, 0) = {} BY DEF Fields
  <2>3. <<>> = [x \in {} |-> frame[x]] OBVIOUS
  <2> HIDE DEF all
  <2>4. all = P[0] \o all BY <1>1, <1>4, ConcatEmptySeq
  <2>5. g[0] = [rd |-> Reader(all), value |-> [x \in Fields(layout, 0) |-> frame[x]]]
    BY <2>1, <2>2, <2>3
  <2>6. Good(0) BY <1>4, <2>4, <2>5
  <2>7. QED BY <2>6
<1> HIDE DEF T, Good, all, rd
<1>8. ASSUME NEW i \in Nat, i + 1 <= n, Good(i) PROVE Good(i + 1)
  <2> DEFINE x == layout[i + 1]
             p == PutField(frame, x)
             k == i + 1
             f == [y \in Fields(layout, i) |-> frame[y]]
  <2>1. k \in 1 .. n /\ k - 1 = i /\ i \in 0 .. n /\ k \in 0 .. n BY <1>8
  <2>2. PICK r \in Seq(Byte) :
            /\ all = P[i] \o r
            /\ g[i] = [rd |-> Reader(r), value |-> f]
    BY <1>8 DEF Good
  <2>3. frame[x] \in FieldType(x) /\ p \in Seq(Byte) BY <2>1, <1>2
  <2>4. P[k] = P[i] \o p BY <2>1, <1>1
  <2>5. g[k] = AddField(g[i], x) BY <2>1, <1>6 DEF Gets
  <2>6. Fields(layout, k) = Fields(layout, i) \cup {x}
    <3>1. \A j \in 1 .. k : j \in 1 .. i \/ j = k BY <2>1
    <3>2. k \in 1 .. k /\ \A j \in 1 .. i : j \in 1 .. k BY <2>1
    <3>3. x = layout[k] OBVIOUS
    <3> HIDE DEF k, x
    <3>4. QED BY <3>1, <3>2, <3>3 DEF Fields
  <2>7. Join(f, [y \in {x} |-> frame[x]]) = [y \in Fields(layout, k) |-> frame[y]]
    <3>1. \A y \in Fields(layout, i) \cup {x} : y \notin Fields(layout, i) => y = x OBVIOUS
    <3> HIDE DEF k, x
    <3>2. QED BY <2>6, <3>1 DEF Join
  <2> HIDE DEF p, k
  <2>8. PICK q \in Seq(Byte) : P[n] = P[k] \o q
    <3>1. k \in 0 .. n BY <2>1
    <3> HIDE DEF x, f
    <3>2. QED BY <3>1, <1>3, GrowsFrom, ZenonT(60)
  <2> DEFINE w == q \o t
  <2>9. w \in Seq(Byte) BY ConcatProperties
  <2>10. P[i] \in Seq(Byte) /\ P[k] \in Seq(Byte) BY <2>1, <1>1
  <2>11. all = P[k] \o w
    <3>1. all = (P[k] \o q) \o t BY <2>8 DEF all
    <3> DEFINE a == P[k]
    <3>2. a \in Seq(Byte) BY <2>10
    <3> HIDE DEF a, x, f
    <3>3. (a \o q) \o t = a \o (q \o t) BY <3>2, ConcatAssociative
    <3>4. QED BY <3>1, <3>3 DEF a
  <2> HIDE DEF w, x, f
  <2>12. P[k] \o w = P[i] \o (p \o w)
    <3> DEFINE a == P[i]
    <3>1. a \in Seq(Byte) BY <2>10
    <3>2. P[k] = a \o p BY <2>4
    <3> HIDE DEF a
    <3>0. p \in Seq(Byte) BY <2>3
    <3>3. (a \o p) \o w = a \o (p \o w) BY <3>0, <2>9, <3>1, Assoc
    <3>4. QED BY <3>2, <3>3 DEF a
  <2>13. r = p \o w
    <3> DEFINE v == p \o w
    <3>1. v \in Seq(Byte)
      <4>1. QED BY <2>3, <2>9, ConcatProperties
    <3> DEFINE a == P[i]
    <3>2. a \o r = a \o v BY <2>2, <2>11, <2>12
    <3>3. a \in Seq(Byte) BY <2>10
    <3> HIDE DEF v, a
    <3>4. r = v
      <4>1. r \in Seq(Byte) OBVIOUS
      <4>2. QED BY <3>1, <3>2, <3>3, <4>1, CancelLeft
    <3>5. QED BY <3>4 DEF v
  <2>14. GetField(Reader(r), x) = [rd |-> Reader(w), value |-> frame[x]]
    BY <2>3, <2>9, <2>13, GetFieldPut DEF p
  <2>15. g[k] = [rd |-> Reader(w), value |-> Join(f, [y \in {x} |-> frame[x]])]
    <3>1. g[i].rd = Reader(r) /\ g[i].value = f BY <2>2
    <3>2. GetField(g[i].rd, x).rd = Reader(w) /\ GetField(g[i].rd, x).value = frame[x]
      BY <2>14, <3>1
    <3>3. QED BY <2>5, <3>1, <3>2, AddFieldIs
  <2>16. g[k] = [rd |-> Reader(w), value |-> [y \in Fields(layout, k) |-> frame[y]]]
    BY <2>7, <2>15
  <2>17. Good(k) BY <2>9, <2>11, <2>16 DEF Good
  <2>18. QED BY <2>17 DEF k
<1>9. T = Nat
  <2>1. ASSUME NEW i \in T PROVE i + 1 \in T BY <1>8 DEF T
  <2>2. T \in SUBSET Nat BY DEF T
  <2>3. QED BY <1>7, <2>1, <2>2, Induction
<1>10. Good(n)
  <2>1. n \in T BY <1>9
  <2>2. QED BY <2>1 DEF T
<1>11. PICK r \in Seq(Byte) :
              /\ all = P[n] \o r
              /\ g[n] = [rd |-> Reader(r), value |-> [x \in Fields(layout, n) |-> frame[x]]]
  BY <1>10 DEF Good
<1>12. r = t
  <2>1. P[n] \o r = P[n] \o t BY <1>11 DEF all
  <2>2. QED BY <2>1, <1>4, ConcatSimplifications
<1>13. QED BY <1>1, <1>6, <1>11, <1>12 DEF rd, all

-----------------------------------------------------------------------------
(* Writing and reading lists. *)

(* The length of items of k bytes or more: what getAll's bound on a count  *)
(* rests on.                                                               *)
LEMMA FlatLen ==
    ASSUME NEW ss \in Seq(Seq(Byte)), NEW k \in Nat, \A i \in 1 .. Len(ss) : Len(ss[i]) >= k
    PROVE  FlattenSeq(ss) \in Seq(Byte) /\ Len(FlattenSeq(ss)) >= k * Len(ss)
<1> DEFINE n == Len(ss)
           T == {i \in Nat : i <= n => Len(Flat(ss, i)) >= k * i}
<1>0. n \in Nat OBVIOUS
<1> HIDE DEF n
<1>1. /\ \A i \in 0 .. n : Flat(ss, i) \in Seq(Byte)
      /\ Flat(ss, 0) = <<>> /\ Flat(ss, n) = FlattenSeq(ss)
      /\ \A i \in 1 .. n : Flat(ss, i) = Flat(ss, i - 1) \o ss[i]
  BY FlatSteps DEF n
<1>2. 0 \in T
  <2>1. Len(Flat(ss, 0)) = 0 BY <1>1
  <2>2. k * 0 = 0 OBVIOUS
  <2>3. QED BY <2>1, <2>2
<1>3. ASSUME NEW i \in T PROVE i + 1 \in T
  <2>0. i \in Nat OBVIOUS
  <2>1. ASSUME i + 1 <= n PROVE Len(Flat(ss, i + 1)) >= k * (i + 1)
    <3> DEFINE j == i + 1
    <3>1. j \in 1 .. n /\ j - 1 = i /\ i \in 0 .. n /\ j \in 0 .. n BY <1>0, <2>0, <2>1
    <3>2. Len(Flat(ss, i)) >= k * i BY <2>0, <2>1, <1>0
    <3> HIDE DEF j
    <3>3. Flat(ss, j) = Flat(ss, i) \o ss[j] BY <1>1, <3>1
    <3> DEFINE a == Flat(ss, i)
               b == ss[j]
    <3>4. a \in Seq(Byte) BY <1>1, <3>1
    <3>5. b \in Seq(Byte) /\ Len(b) >= k BY <3>1 DEF n
    <3>6. Len(a) \in Nat /\ Len(b) \in Nat BY <3>4, <3>5
    <3>7. Len(Flat(ss, j)) = Len(a) + Len(b)
      <4> HIDE DEF a, b
      <4>1. Len(a \o b) = Len(a) + Len(b) BY <3>4, <3>5, ConcatProperties
      <4>2. QED BY <3>3, <4>1 DEF a, b
    <3>8. k * (i + 1) = k * i + k BY <2>0
    <3>9. Len(a) >= k * i BY <3>2
    <3> HIDE DEF a, b
    <3>10. k * i \in Nat BY <2>0
    <3>11. Len(a) + Len(b) >= k * (i + 1) BY <3>5, <3>6, <3>8, <3>9, <3>10
    <3>12. QED BY <3>7, <3>11 DEF j
  <2>2. QED BY <2>0, <2>1
<1>4. T = Nat BY <1>2, <1>3, Induction
<1>5. n \in T BY <1>0, <1>4
<1>6. Len(Flat(ss, n)) >= k * n BY <1>0, <1>5
<1>7. QED BY <1>0, <1>1, <1>6 DEF n

(* F reads one item of V. *)
ReadsOne(F, V) ==
    \A r \in Readers : /\ F[r].rd \in Readers /\ F[r].value \in V
                       /\ ~F[r].rd.err => ~r.err

(* g[i] is what F has read after i items. *)
Items(rd, F, n, g) ==
    /\ g[0] = [rd |-> rd, value |-> <<>>]
    /\ \A i \in 1 .. n : g[i - 1].rd \in Readers => g[i] = AddItem(g[i - 1], F[g[i - 1].rd])

(* Reading one more item. *)
LEMMA AddItemIs ==
    ASSUME NEW got, NEW one
    PROVE  /\ AddItem(got, one).rd = one.rd
           /\ AddItem(got, one).value = Append(got.value, one.value)
           /\ AddItem(got, one) = [rd |-> one.rd, value |-> Append(got.value, one.value)]
BY DEF AddItem

(* What is got when n items of V are read from rd. *)
ReadAll(rd, V, n, got) ==
    /\ got.rd \in Readers /\ got.value \in Seq(V) /\ Len(got.value) = n
    /\ ~got.rd.err => ~rd.err
    /\ got = [rd |-> got.rd, value |-> got.value]

(* Whatever the bytes, the items read are items, as many as were asked for. *)
LEMMA ItemsType ==
    ASSUME NEW rd \in Readers, NEW V, NEW F, ReadsOne(F, V), NEW n \in Nat,
           NEW g, Items(rd, F, n, g)
    PROVE  ReadAll(rd, V, n, g[n])
<1> DEFINE Good(i) == /\ g[i].rd \in Readers /\ g[i].value \in Seq(V) /\ Len(g[i].value) = i
                      /\ ~g[i].rd.err => ~rd.err
                      /\ g[i] = [rd |-> g[i].rd, value |-> g[i].value]
           T == {i \in Nat : i <= n => Good(i)}
<1>1. Good(0)
  <2>1. g[0] = [rd |-> rd, value |-> <<>>] BY DEF Items
  <2>2. g[0].rd = rd /\ g[0].value = <<>> BY <2>1
  <2>3. QED BY <2>1, <2>2
<1>2. ASSUME NEW i \in Nat, i + 1 <= n, Good(i) PROVE Good(i + 1)
  <2> DEFINE k == i + 1
             one == F[g[i].rd]
  <2>1. k \in 1 .. n /\ k - 1 = i BY <1>2
  <2>2. g[i].rd \in Readers /\ g[i].value \in Seq(V) /\ Len(g[i].value) = i BY <1>2
  <2>3. one.rd \in Readers /\ one.value \in V /\ (~one.rd.err => ~g[i].rd.err)
    BY <2>2 DEF ReadsOne
  <2> HIDE DEF k, one
  <2>4. g[k] = AddItem(g[i], one) BY <2>1, <2>2 DEF Items, one
  <2>5. g[k].rd = one.rd /\ g[k].value = Append(g[i].value, one.value)
    BY <2>4, AddItemIs
  <2>6. g[k] = [rd |-> g[k].rd, value |-> g[k].value] BY <2>4, <2>5, AddItemIs, SMTT(60)
  <2>7. ~g[k].rd.err => ~rd.err BY <1>2, <2>3, <2>5
  <2> DEFINE s == g[i].value
             v == one.value
  <2>8. s \in Seq(V) /\ v \in V /\ Len(s) = i BY <2>2, <2>3
  <2> HIDE DEF s, v
  <2>9. Append(s, v) \in Seq(V) /\ Len(Append(s, v)) = i + 1 BY <2>8, AppendProperties
  <2>10. g[k].value \in Seq(V) /\ Len(g[k].value) = k BY <2>5, <2>9 DEF s, v, k
  <2>11. g[k].rd \in Readers BY <2>3, <2>5
  <2>12. Good(k) BY <2>6, <2>7, <2>10, <2>11
  <2>13. QED BY <2>12 DEF k
<1> HIDE DEF Good
<1>3. T = Nat
  <2>1. 0 \in T BY <1>1
  <2>2. ASSUME NEW i \in T PROVE i + 1 \in T BY <1>2
  <2>3. T \in SUBSET Nat OBVIOUS
  <2> HIDE DEF T
  <2>4. QED BY <2>1, <2>2, <2>3, Induction
<1>4. n \in T BY <1>3
<1>5. Good(n) BY <1>4
<1>6. QED BY <1>5 DEF Good, ReadAll

(* ss[i] is what vs[i] is written as. *)
Reverts(F, ss, vs, n) ==
    \A i \in 1 .. n : \A t \in Seq(Byte) :
        F[Reader(ss[i] \o t)] = [rd |-> Reader(t), value |-> vs[i]]

(* The items that were written are read back. *)
LEMMA ItemsPut ==
    ASSUME NEW F, NEW ss \in Seq(Seq(Byte)), NEW V, NEW vs \in Seq(V), Len(vs) = Len(ss),
           Reverts(F, ss, vs, Len(ss)), NEW t \in Seq(Byte),
           NEW g, Items(Reader(FlattenSeq(ss) \o t), F, Len(ss), g)
    PROVE  g[Len(ss)] = [rd |-> Reader(t), value |-> vs]
<1> DEFINE n == Len(ss)
           P == [i \in 0 .. n |-> Flat(ss, i)]
<1>0. n \in Nat /\ \A i \in 1 .. n : ss[i] \in Seq(Byte) OBVIOUS
<1>1. /\ \A i \in 0 .. n : Flat(ss, i) \in Seq(Byte)
      /\ Flat(ss, 0) = <<>> /\ Flat(ss, n) = FlattenSeq(ss)
      /\ \A i \in 1 .. n : Flat(ss, i) = Flat(ss, i - 1) \o ss[i]
  <2>1. QED BY FlatSteps
<1>2. Reverts(F, ss, vs, n) /\ Items(Reader(FlattenSeq(ss) \o t), F, n, g) /\ Len(vs) = n OBVIOUS
<1> HIDE DEF n
<1>3. /\ P \in [0 .. n -> Seq(Byte)] /\ P[0] = <<>> /\ P[n] = FlattenSeq(ss) BY <1>0, <1>1
<1>4. \A i \in 1 .. n : P[i] = P[i - 1] \o ss[i]
  <2>1. ASSUME NEW i \in 1 .. n PROVE P[i] = P[i - 1] \o ss[i]
    <3>1. P[i] = Flat(ss, i) /\ P[i - 1] = Flat(ss, i - 1) BY <1>0
    <3> HIDE DEF P
    <3>2. QED BY <3>1, <1>1
  <2>2. QED BY <2>1
<1> HIDE DEF P
<1>5. Grows(P, n) BY <1>0, <1>3, <1>4 DEF Grows
<1> DEFINE all == P[n] \o t
           vals(i) == SubSeq(vs, 1, i)
           Good(i) == \E r \in Seq(Byte) :
                          all = P[i] \o r /\ g[i] = [rd |-> Reader(r), value |-> vals(i)]
           T == {i \in Nat : i <= n => Good(i)}
<1>6. P[n] \in Seq(Byte) /\ all \in Seq(Byte) BY <1>0, <1>3, ConcatProperties
<1>7. Good(0)
  <2>1. g[0] = [rd |-> Reader(all), value |-> <<>>] BY <1>2, <1>3 DEF Items
  <2>2. vals(0) = <<>> BY SubSeqEmpty
  <2> HIDE DEF all, vals
  <2>3. all = P[0] \o all BY <1>3, <1>6, ConcatEmptySeq
  <2>4. QED BY <1>6, <2>1, <2>2, <2>3
<1> HIDE DEF T, Good, all, vals
<1>8. ASSUME NEW i \in Nat, i + 1 <= n, Good(i) PROVE Good(i + 1)
  <2> DEFINE k == i + 1
             p == ss[k]
  <2>1. k \in 1 .. n /\ k - 1 = i /\ i \in 0 .. n /\ k \in 0 .. n BY <1>0, <1>8
  <2>2. PICK r \in Seq(Byte) : all = P[i] \o r /\ g[i] = [rd |-> Reader(r), value |-> vals(i)]
    BY <1>8 DEF Good
  <2>3. p \in Seq(Byte) BY <2>1, <1>0
  <2>4. P[k] = P[i] \o p BY <2>1, <1>4
  <2>5. vals(k) = Append(vals(i), vs[k])
    <3>1. k \in 1 .. Len(vs) BY <1>2, <2>1
    <3>2. SubSeq(vs, 1, k) = Append(SubSeq(vs, 1, k - 1), vs[k])
      <4>1. vs \in Seq(V) /\ k \in Int /\ 1 \in 1 .. k /\ k \in 1 .. Len(vs) BY <3>1
      <4> HIDE DEF k
      <4> DEFINE L == SubSeq(vs, 1, k)
                 R == Append(SubSeq(vs, 1, k - 1), vs[k])
      <4>2. L \in Seq(V) /\ Len(L) = k /\ \A j \in 1 .. k : L[j] = vs[j]
        BY <4>1
      <4>3. /\ SubSeq(vs, 1, k - 1) \in Seq(V) /\ Len(SubSeq(vs, 1, k - 1)) = k - 1
            /\ \A j \in 1 .. k - 1 : SubSeq(vs, 1, k - 1)[j] = vs[j]
        BY <4>1
      <4>4. vs[k] \in V BY <4>1
      <4>5. R \in Seq(V) /\ Len(R) = k BY <4>1, <4>3, <4>4, AppendProperties
      <4>6. \A j \in 1 .. k : R[j] = vs[j]
        BY <4>1, <4>3, <4>4, AppendProperties
      <4>7. QED BY <4>2, <4>5, <4>6, SeqEqual
    <3>3. QED BY <2>1, <3>2 DEF vals
  <2> HIDE DEF p, k
  <2>6. PICK q \in Seq(Byte) : P[n] = P[k] \o q
    <3>1. k \in 0 .. n /\ n \in Nat BY <1>0, <2>1
    <3>2. QED BY <3>1, <1>5, GrowsFrom
  <2> DEFINE w == q \o t
             a == P[i]
             b == P[k]
  <2>7. w \in Seq(Byte) BY ConcatProperties
  <2>8. a \in Seq(Byte) /\ b \in Seq(Byte) BY <2>1, <1>3
  <2>9. all = (b \o q) \o t BY <2>6 DEF all
  <2>10. all = a \o r /\ b = a \o p BY <2>2, <2>4
  <2> HIDE DEF a, b
  <2>11. all = b \o w
    <3>1. b \in Seq(Byte) BY <2>8
    <3>2. QED BY <2>9, <3>1, Assoc DEF w
  <2> HIDE DEF w
  <2>12. b \o w = a \o (p \o w)
    <3>1. a \in Seq(Byte) BY <2>8
    <3>2. (a \o p) \o w = a \o (p \o w) BY <3>1, <2>3, <2>7, Assoc, SMTT(60)
    <3>3. QED BY <2>10, <3>2
  <2>13. p \o w \in Seq(Byte) BY <2>3, <2>7, ConcatProperties
  <2>14. r = p \o w
    <3> DEFINE v == p \o w
    <3>1. v \in Seq(Byte) /\ a \o r = a \o v BY <2>10, <2>11, <2>12, <2>13
    <3> HIDE DEF v
    <3>2. a \in Seq(Byte) BY <2>8
    <3>3. r = v BY <3>1, <3>2, CancelLeft
    <3>4. QED BY <3>3 DEF v
  <2>15. F[Reader(r)] = [rd |-> Reader(w), value |-> vs[k]]
    BY <1>2, <2>1, <2>7, <2>14 DEF Reverts, p
  <2>16. g[i].rd = Reader(r) /\ g[i].value = vals(i) BY <2>2
  <2>17. Reader(r) \in Readers BY ReaderType
  <2>18. g[k] = AddItem(g[i], F[g[i].rd])
    <3>1. g[k - 1].rd \in Readers BY <2>1, <2>16, <2>17
    <3>2. QED BY <1>2, <2>1, <3>1 DEF Items
  <2>19. g[k] = [rd |-> Reader(w), value |-> Append(vals(i), vs[k])]
    <3> DEFINE one == F[g[i].rd]
    <3>1. one.rd = Reader(w) /\ one.value = vs[k] BY <2>15, <2>16
    <3> HIDE DEF one
    <3>2. g[k] = AddItem(g[i], one) BY <2>18 DEF one
    <3>3. g[k] = [rd |-> one.rd, value |-> Append(g[i].value, one.value)] BY <3>2, AddItemIs
    <3>4. QED BY <2>16, <3>1, <3>3
  <2>20. Good(k) BY <2>5, <2>7, <2>11, <2>19 DEF Good, b
  <2>21. QED BY <2>20 DEF k
<1>9. T = Nat
  <2>1. 0 \in T BY <1>7 DEF T
  <2>2. ASSUME NEW i \in T PROVE i + 1 \in T
    <3>1. i \in Nat /\ (i <= n => Good(i)) BY DEF T
    <3>2. i + 1 <= n => i <= n BY <1>0, <3>1
    <3>3. i + 1 <= n => Good(i + 1) BY <1>8, <3>1, <3>2
    <3>4. QED BY <3>1, <3>3 DEF T
  <2>3. T \in SUBSET Nat BY DEF T
  <2>4. QED BY <2>1, <2>2, <2>3, Induction
<1>10. Good(n) BY <1>0, <1>9 DEF T
<1>11. PICK r \in Seq(Byte) : all = P[n] \o r /\ g[n] = [rd |-> Reader(r), value |-> vals(n)]
  BY <1>10 DEF Good
<1>12. r = t
  <2> DEFINE a == P[n]
  <2>1. a \in Seq(Byte) /\ a \o r = a \o t BY <1>6, <1>11 DEF all
  <2> HIDE DEF a
  <2>2. QED BY <2>1, CancelLeft
<1>13. vals(n) = vs BY <1>2, SubSeqFull DEF vals
<1>14. QED BY <1>11, <1>12, <1>13 DEF n

-----------------------------------------------------------------------------
(* The layouts of the protocol. *)

(* layout names the fields of D. *)
Lays(layout, D) == layout \in Seq(Names) /\ Fields(layout, Len(layout)) = D

(* The fields D of a value have their types. *)
Typed(value, D) == \A x \in D : value[x] \in FieldType(x)

(* What a layout is, in the form the lemmas on Put and Get take. *)
LEMMA Lay ==
    ASSUME NEW layout, NEW D, Lays(layout, D)
    PROVE  /\ Len(layout) \in Nat /\ layout \in [1 .. Len(layout) -> Names]
           /\ Fields(layout, Len(layout)) = D
BY DEF Lays

(* GetType for a layout of the fields D. *)
LEMMA ReadType ==
    ASSUME NEW rd \in Readers, NEW layout, NEW D, Lays(layout, D)
    PROVE  /\ Get(rd, layout) = [rd |-> Get(rd, layout).rd, value |-> Get(rd, layout).value]
           /\ Get(rd, layout).rd \in Readers
           /\ ~Get(rd, layout).rd.err => ~rd.err
           /\ Get(rd, layout).value = [x \in D |-> Get(rd, layout).value[x]]
           /\ Typed(Get(rd, layout).value, D)
<1>1. /\ Len(layout) \in Nat /\ layout \in [1 .. Len(layout) -> Names]
      /\ Fields(layout, Len(layout)) = D
  BY Lay
<1> DEFINE n == Len(layout)
<1>2. n \in Nat /\ layout \in [1 .. n -> Names] /\ Fields(layout, n) = D BY <1>1
<1> HIDE DEF n
<1>3. QED BY <1>2, GetType DEF Typed

(* GetPut for a layout of the fields D. *)
LEMMA ReadPut ==
    ASSUME NEW frame, NEW layout, NEW D, Lays(layout, D), Typed(frame, D), NEW t \in Seq(Byte)
    PROVE  /\ Put(frame, layout) \in Seq(Byte) /\ Len(Put(frame, layout)) >= Len(layout)
           /\ Get(Reader(Put(frame, layout) \o t), layout) =
                 [rd |-> Reader(t), value |-> [x \in D |-> frame[x]]]
<1>1. /\ Len(layout) \in Nat /\ layout \in [1 .. Len(layout) -> Names]
      /\ Fields(layout, Len(layout)) = D
  BY Lay
<1> DEFINE n == Len(layout)
<1>2. n \in Nat /\ layout \in [1 .. n -> Names] /\ Fields(layout, n) = D BY <1>1
<1> HIDE DEF n
<1>3. \A x \in Fields(layout, n) : frame[x] \in FieldType(x) BY <1>2 DEF Typed
<1>4. Put(frame, layout) \in Seq(Byte) /\ Len(Put(frame, layout)) >= n
  BY <1>2, <1>3, PutType
<1>5. Get(Reader(Put(frame, layout) \o t), layout) =
         [rd |-> Reader(t), value |-> [x \in Fields(layout, n) |-> frame[x]]]
  BY <1>2, <1>3, GetPut
<1>6. QED BY <1>2, <1>4, <1>5 DEF n

(* The fields that are texts. *)
LEMMA TextTypes ==
    /\ FieldType("token") = Text /\ FieldType("key") = Text /\ FieldType("clientID") = Text
    /\ FieldType("resumeConnectionID") = Text /\ FieldType("channel") = Text
    /\ FieldType("name") = Text /\ FieldType("data") = Text /\ FieldType("encoding") = Text
    /\ FieldType("messageID") = Text /\ FieldType("connectionID") = Text
    /\ FieldType("message") = Text
BY DEF FieldType, Numeric

(* The fields that are numbers. *)
LEMMA NumberTypes ==
    \A x \in Numeric : FieldType(x) = Uint64
BY DEF FieldType

(* A ping and a pong have no fields. *)
LEMMA LayPing == Lays(<<>>, {})
BY DEF Lays, Fields

(* The layouts of the frames, each with its fields once. *)
LEMMA LayAuth ==
    Lays(<<"token", "key", "clientID", "resumeConnectionID">>,
         {"token", "key", "clientID", "resumeConnectionID"})
<1> DEFINE layout == <<"token", "key", "clientID", "resumeConnectionID">>
<1>1. 1 .. 4 = {1, 2, 3, 4} OBVIOUS
<1>2. layout \in Seq(Names) BY DEF Names, Numeric
<1>3. Len(layout) = 4 OBVIOUS
<1>4. Fields(layout, 4) = {"token", "key", "clientID", "resumeConnectionID"} BY <1>1 DEF Fields
<1>5. QED BY <1>2, <1>3, <1>4 DEF Lays

LEMMA LaySub ==
    Lays(<<"id", "lastSerial", "channel">>,
         {"id", "lastSerial", "channel"})
<1> DEFINE layout == <<"id", "lastSerial", "channel">>
<1>1. 1 .. 3 = {1, 2, 3} OBVIOUS
<1>2. layout \in Seq(Names) BY DEF Names, Numeric
<1>3. Len(layout) = 3 OBVIOUS
<1>4. Fields(layout, 3) = {"id", "lastSerial", "channel"} BY <1>1 DEF Fields
<1>5. QED BY <1>2, <1>3, <1>4 DEF Lays

LEMMA LayUnsub ==
    Lays(<<"id", "channel">>,
         {"id", "channel"})
<1> DEFINE layout == <<"id", "channel">>
<1>1. 1 .. 2 = {1, 2} OBVIOUS
<1>2. layout \in Seq(Names) BY DEF Names, Numeric
<1>3. Len(layout) = 2 OBVIOUS
<1>4. Fields(layout, 2) = {"id", "channel"} BY <1>1 DEF Fields
<1>5. QED BY <1>2, <1>3, <1>4 DEF Lays

LEMMA LayHist ==
    Lays(<<"id", "limit", "channel", "before">>,
         {"id", "limit", "channel", "before"})
<1> DEFINE layout == <<"id", "limit", "channel", "before">>
<1>1. 1 .. 4 = {1, 2, 3, 4} OBVIOUS
<1>2. layout \in Seq(Names) BY DEF Names, Numeric
<1>3. Len(layout) = 4 OBVIOUS
<1>4. Fields(layout, 4) = {"id", "limit", "channel", "before"} BY <1>1 DEF Fields
<1>5. QED BY <1>2, <1>3, <1>4 DEF Lays

LEMMA LayFetch ==
    Lays(<<"id", "fromSerial", "channel">>,
         {"id", "fromSerial", "channel"})
<1> DEFINE layout == <<"id", "fromSerial", "channel">>
<1>1. 1 .. 3 = {1, 2, 3} OBVIOUS
<1>2. layout \in Seq(Names) BY DEF Names, Numeric
<1>3. Len(layout) = 3 OBVIOUS
<1>4. Fields(layout, 3) = {"id", "fromSerial", "channel"} BY <1>1 DEF Fields
<1>5. QED BY <1>2, <1>3, <1>4 DEF Lays

LEMMA LayPres ==
    Lays(<<"id", "channel", "data", "encoding">>,
         {"id", "channel", "data", "encoding"})
<1> DEFINE layout == <<"id", "channel", "data", "encoding">>
<1>1. 1 .. 4 = {1, 2, 3, 4} OBVIOUS
<1>2. layout \in Seq(Names) BY DEF Names, Numeric
<1>3. Len(layout) = 4 OBVIOUS
<1>4. Fields(layout, 4) = {"id", "channel", "data", "encoding"} BY <1>1 DEF Fields
<1>5. QED BY <1>2, <1>3, <1>4 DEF Lays

LEMMA LayPublish ==
    Lays(<<"id", "channel", "name", "data", "encoding", "messageID">>,
         {"id", "channel", "name", "data", "encoding", "messageID"})
<1> DEFINE layout == <<"id", "channel", "name", "data", "encoding", "messageID">>
<1>1. 1 .. 6 = {1, 2, 3, 4, 5, 6} OBVIOUS
<1>2. layout \in Seq(Names) BY DEF Names, Numeric
<1>3. Len(layout) = 6 OBVIOUS
<1>4. Fields(layout, 6) = {"id", "channel", "name", "data", "encoding", "messageID"} BY <1>1 DEF Fields
<1>5. QED BY <1>2, <1>3, <1>4 DEF Lays

LEMMA LayMember ==
    Lays(<<"name", "data", "encoding">>,
         {"name", "data", "encoding"})
<1> DEFINE layout == <<"name", "data", "encoding">>
<1>1. 1 .. 3 = {1, 2, 3} OBVIOUS
<1>2. layout \in Seq(Names) BY DEF Names, Numeric
<1>3. Len(layout) = 3 OBVIOUS
<1>4. Fields(layout, 3) = {"name", "data", "encoding"} BY <1>1 DEF Fields
<1>5. QED BY <1>2, <1>3, <1>4 DEF Lays

LEMMA LayBatch ==
    Lays(<<"timestamp", "channel", "messageID", "clientID", "seq">>,
         {"timestamp", "channel", "messageID", "clientID", "seq"})
<1> DEFINE layout == <<"timestamp", "channel", "messageID", "clientID", "seq">>
<1>1. 1 .. 5 = {1, 2, 3, 4, 5} OBVIOUS
<1>2. layout \in Seq(Names) BY DEF Names, Numeric
<1>3. Len(layout) = 5 OBVIOUS
<1>4. Fields(layout, 5) = {"timestamp", "channel", "messageID", "clientID", "seq"} BY <1>1 DEF Fields
<1>5. QED BY <1>2, <1>3, <1>4 DEF Lays

LEMMA LayMessage ==
    Lays(<<"timestamp", "channel", "name", "data", "messageID", "clientID", "encoding", "seq">>,
         {"timestamp", "channel", "name", "data", "messageID", "clientID", "encoding", "seq"})
<1> DEFINE layout == <<"timestamp", "channel", "name", "data", "messageID", "clientID", "encoding", "seq">>
<1>1. 1 .. 8 = {1, 2, 3, 4, 5, 6, 7, 8} OBVIOUS
<1>2. layout \in Seq(Names) BY DEF Names, Numeric
<1>3. Len(layout) = 8 OBVIOUS
<1>4. Fields(layout, 8) = {"timestamp", "channel", "name", "data", "messageID", "clientID", "encoding", "seq"} BY <1>1 DEF Fields
<1>5. QED BY <1>2, <1>3, <1>4 DEF Lays

LEMMA LayConnected ==
    Lays(<<"connectionID", "keepAliveMs", "clientID">>,
         {"connectionID", "keepAliveMs", "clientID"})
<1> DEFINE layout == <<"connectionID", "keepAliveMs", "clientID">>
<1>1. 1 .. 3 = {1, 2, 3} OBVIOUS
<1>2. layout \in Seq(Names) BY DEF Names, Numeric
<1>3. Len(layout) = 3 OBVIOUS
<1>4. Fields(layout, 3) = {"connectionID", "keepAliveMs", "clientID"} BY <1>1 DEF Fields
<1>5. QED BY <1>2, <1>3, <1>4 DEF Lays

LEMMA LayErr ==
    Lays(<<"id", "code", "message">>,
         {"id", "code", "message"})
<1> DEFINE layout == <<"id", "code", "message">>
<1>1. 1 .. 3 = {1, 2, 3} OBVIOUS
<1>2. layout \in Seq(Names) BY DEF Names, Numeric
<1>3. Len(layout) = 3 OBVIOUS
<1>4. Fields(layout, 3) = {"id", "code", "message"} BY <1>1 DEF Fields
<1>5. QED BY <1>2, <1>3, <1>4 DEF Lays

LEMMA LayAck ==
    Lays(<<"id", "seq">>,
         {"id", "seq"})
<1> DEFINE layout == <<"id", "seq">>
<1>1. 1 .. 2 = {1, 2} OBVIOUS
<1>2. layout \in Seq(Names) BY DEF Names, Numeric
<1>3. Len(layout) = 2 OBVIOUS
<1>4. Fields(layout, 2) = {"id", "seq"} BY <1>1 DEF Fields
<1>5. QED BY <1>2, <1>3, <1>4 DEF Lays

LEMMA LayPresEvt ==
    Lays(<<"timestamp", "channel", "clientID", "connectionID", "data", "encoding">>,
         {"timestamp", "channel", "clientID", "connectionID", "data", "encoding"})
<1> DEFINE layout == <<"timestamp", "channel", "clientID", "connectionID", "data", "encoding">>
<1>1. 1 .. 6 = {1, 2, 3, 4, 5, 6} OBVIOUS
<1>2. layout \in Seq(Names) BY DEF Names, Numeric
<1>3. Len(layout) = 6 OBVIOUS
<1>4. Fields(layout, 6) = {"timestamp", "channel", "clientID", "connectionID", "data", "encoding"} BY <1>1 DEF Fields
<1>5. QED BY <1>2, <1>3, <1>4 DEF Lays

-----------------------------------------------------------------------------
(* Members of a batch. *)

(* f[i] is what F has read after i items, a total function. *)
ReadSoFar(rd, V, F, n, f) ==
    /\ f \in [0 .. n -> [rd : Readers, value : Seq(V)]]
    /\ f[0] = [rd |-> rd, value |-> <<>>]
    /\ \A i \in 1 .. n : f[i] = AddItem(f[i - 1], F[f[i - 1].rd])

(* Items can be read one after the other. *)
LEMMA ItemsExist ==
    ASSUME NEW rd \in Readers, NEW V, NEW F, ReadsOne(F, V), NEW n \in Nat
    PROVE  \E f : ReadSoFar(rd, V, F, n, f)
<1> DEFINE W == [rd : Readers, value : Seq(V)]
           base == [rd |-> rd, value |-> <<>>]
           Step == [j \in Nat |-> [v \in W |-> AddItem(v, F[v.rd])]]
<1>1. Step \in [Nat -> [W -> W]]
  <2>1. ASSUME NEW v \in W PROVE AddItem(v, F[v.rd]) \in W
    <3> DEFINE one == F[v.rd]
               s == v.value
               u == one.value
    <3>1. v.rd \in Readers /\ s \in Seq(V) OBVIOUS
    <3>2. one.rd \in Readers /\ u \in V BY <3>1 DEF ReadsOne
    <3> HIDE DEF s, u
    <3>3. Append(s, u) \in Seq(V) BY <3>1, <3>2, AppendProperties
    <3> HIDE DEF one
    <3>4. AddItem(v, one) = [rd |-> one.rd, value |-> Append(s, u)] BY AddItemIs DEF s, u
    <3>5. AddItem(v, one) \in W BY <3>2, <3>3, <3>4
    <3>6. QED BY <3>5 DEF one
  <2>2. QED BY <2>1
<1>2. base \in W OBVIOUS
<1>3. PICK f : Iterates(f, W, base, Step)
  <2> HIDE DEF Step, W, base
  <2>1. QED BY <1>1, <1>2, Recursion
<1>4. f \in [Nat -> W] /\ f[0] = base BY <1>3 DEF Iterates
<1> DEFINE g == [i \in 0 .. n |-> f[i]]
<1>5. g \in [0 .. n -> W] /\ g[0] = base BY <1>4
<1>6. ASSUME NEW i \in 1 .. n PROVE g[i] = AddItem(g[i - 1], F[g[i - 1].rd])
  <2>1. i - 1 \in Nat /\ (i - 1) + 1 = i /\ i - 1 \in 0 .. n /\ i \in 0 .. n OBVIOUS
  <2>2. f[(i - 1) + 1] = Step[i - 1][f[i - 1]] BY <2>1, <1>3 DEF Iterates
  <2>3. f[i - 1] \in W BY <2>1, <1>4
  <2> HIDE DEF W
  <2>4. Step[i - 1][f[i - 1]] = AddItem(f[i - 1], F[f[i - 1].rd]) BY <2>1, <2>3
  <2>5. g[i] = f[i] /\ g[i - 1] = f[i - 1] BY <2>1
  <2> HIDE DEF Step, g
  <2>6. QED BY <2>1, <2>2, <2>4, <2>5
<1> HIDE DEF g
<1>7. ReadSoFar(rd, V, F, n, g) BY <1>5, <1>6 DEF ReadSoFar
<1>8. QED BY <1>7

(* Whatever the bytes, a member read is a member. *)
LEMMA MemberType ==
    ASSUME NEW rd \in Readers
    PROVE  /\ GetMember(rd).rd \in Readers /\ GetMember(rd).value \in wireMember
           /\ ~GetMember(rd).rd.err => ~rd.err
           /\ GetMember(rd) = [rd |-> GetMember(rd).rd, value |-> GetMember(rd).value]
<1> DEFINE layout == <<"name", "data", "encoding">>
           D == {"name", "data", "encoding"}
           got == Get(rd, layout)
           v == got.value
<1>1. Lays(layout, D) BY LayMember
<1>2. GetMember(rd) = got BY DEF GetMember
<1> HIDE DEF layout, D
<1>3. /\ got = [rd |-> got.rd, value |-> v] /\ got.rd \in Readers
      /\ ~got.rd.err => ~rd.err
      /\ v = [x \in D |-> v[x]] /\ Typed(v, D)
  BY <1>1, ReadType
<1> HIDE DEF got, v
<1>4. v.name \in Text /\ v.data \in Text /\ v.encoding \in Text
  BY <1>3, TextTypes DEF Typed, D
<1>5. v \in wireMember BY <1>3, <1>4 DEF wireMember, D
<1>6. QED BY <1>2, <1>3, <1>5 DEF v

(* A member that was written is read back (pushMember of a batch). *)
LEMMA MemberPut ==
    ASSUME NEW m \in wireMember, NEW t \in Seq(Byte)
    PROVE  /\ PutMember(m) \in Seq(Byte) /\ Len(PutMember(m)) >= 3
           /\ GetMember(Reader(PutMember(m) \o t)) = [rd |-> Reader(t), value |-> m]
<1> DEFINE layout == <<"name", "data", "encoding">>
           D == {"name", "data", "encoding"}
<1>1. Lays(layout, D) /\ Len(layout) = 3 BY LayMember
<1>2. Typed(m, D) BY TextTypes DEF Typed, wireMember
<1>3. [x \in D |-> m[x]] = m BY DEF wireMember
<1>4. PutMember(m) = Put(m, layout) BY DEF PutMember
<1>5. \A r : GetMember(r) = Get(r, layout) BY DEF GetMember
<1> HIDE DEF layout, D
<1>6. /\ Put(m, layout) \in Seq(Byte) /\ Len(Put(m, layout)) >= Len(layout)
      /\ Get(Reader(Put(m, layout) \o t), layout) =
            [rd |-> Reader(t), value |-> [x \in D |-> m[x]]]
  BY <1>1, <1>2, ReadPut
<1>7. QED BY <1>1, <1>3, <1>4, <1>5, <1>6

(* The reader of members as a function. *)
MemberReader == [r \in Readers |-> GetMember(r)]

(* It reads one member. *)
LEMMA MemberReads == ReadsOne(MemberReader, wireMember)
BY MemberType DEF ReadsOne, MemberReader

(* GetItems reads members one after the other. *)
LEMMA MembersAre ==
    ASSUME NEW rd \in Readers, NEW n \in Nat
    PROVE  \E g : Items(rd, MemberReader, n, g) /\ GetItems(rd, n, GetMember) = g[n]
<1> DEFINE base == [rd |-> rd, value |-> <<>>]
           F(v, i) == IF i = 0 THEN base ELSE AddItem(v[i - 1], GetMember(v[i - 1].rd))
           val == CHOOSE v : v = [i \in 0 .. n |-> F(v, i)]
<1>0. PICK f : ReadSoFar(rd, wireMember, MemberReader, n, f)
  BY MemberReads, ItemsExist
<1>1. /\ f \in [0 .. n -> [rd : Readers, value : Seq(wireMember)]] /\ f[0] = base
      /\ \A i \in 1 .. n : f[i] = AddItem(f[i - 1], MemberReader[f[i - 1].rd])
  BY <1>0 DEF ReadSoFar
<1>2. \A r \in Readers : MemberReader[r] = GetMember(r) BY DEF MemberReader
<1>3. f = [i \in 0 .. n |-> F(f, i)]
  <2>1. ASSUME NEW i \in 0 .. n PROVE f[i] = F(f, i)
    <3> HIDE DEF base
    <3>1. CASE i = 0 BY <3>1, <1>1
    <3>2. CASE i # 0
      <4>1. i \in 1 .. n /\ i - 1 \in 0 .. n BY <3>2
      <4>2. f[i - 1] \in [rd : Readers, value : Seq(wireMember)] BY <4>1, <1>1
      <4>3. MemberReader[f[i - 1].rd] = GetMember(f[i - 1].rd) BY <4>2, <1>2
      <4>4. f[i] = AddItem(f[i - 1], GetMember(f[i - 1].rd)) BY <4>1, <4>3, <1>1
      <4>5. QED BY <3>2, <4>4
    <3>3. QED BY <3>1, <3>2
  <2> HIDE DEF F
  <2>2. QED BY <2>1, <1>1
<1>4. val = [i \in 0 .. n |-> F(val, i)]
  <2>1. \E v : v = [i \in 0 .. n |-> F(v, i)] BY <1>3
  <2>2. QED BY <2>1, Zenon
<1>5. GetItems(rd, n, GetMember) = val[n] BY DEF GetItems
<1>6. \A i \in 0 .. n : val[i] = F(val, i)
  <2> DEFINE H == [i \in 0 .. n |-> F(val, i)]
  <2> HIDE DEF F
  <2>1. \A i \in 0 .. n : H[i] = F(val, i) OBVIOUS
  <2>2. val = H BY <1>4
  <2> HIDE DEF H, val
  <2>3. QED BY <2>1, <2>2
<1> HIDE DEF val
<1>7. Items(rd, MemberReader, n, val)
  <2>1. val[0] = base
    <3>1. 0 \in 0 .. n OBVIOUS
    <3>2. val[0] = F(val, 0) BY <3>1, <1>6
    <3> HIDE DEF base
    <3>3. F(val, 0) = base OBVIOUS
    <3>4. QED BY <3>2, <3>3
  <2>2. ASSUME NEW i \in 1 .. n, val[i - 1].rd \in Readers
        PROVE  val[i] = AddItem(val[i - 1], MemberReader[val[i - 1].rd])
    <3>1. val[i] = AddItem(val[i - 1], GetMember(val[i - 1].rd)) BY <1>6
    <3>2. MemberReader[val[i - 1].rd] = GetMember(val[i - 1].rd) BY <1>2, <2>2
    <3>3. QED BY <3>1, <3>2
  <2>3. QED BY <2>1, <2>2 DEF Items
<1>8. QED BY <1>5, <1>7

-----------------------------------------------------------------------------
(* Lists of members. *)

(* getMembers: a count, refused when the bytes cannot hold as many, and the*)
(* members.                                                                *)
Members(rd) == GetAll(rd, 3, 0, GetMember)

(* The two outcomes of the count. *)
LEMMA MembersCases ==
    ASSUME NEW rd \in Readers
    PROVE  LET count == GetUvarint(rd)
           IN  /\ count.value > Len(count.rd.buf) \div 3 + 0 =>
                    Members(rd) = [rd |-> Truncated(count.rd), value |-> <<>>]
               /\ ~(count.value > Len(count.rd.buf) \div 3 + 0) =>
                    Members(rd) = GetItems(count.rd, count.value, GetMember)
BY DEF Members, GetAll

(* Whatever the bytes, a list of members is read or the reader fails. *)
LEMMA MembersType ==
    ASSUME NEW rd \in Readers
    PROVE  /\ Members(rd).rd \in Readers /\ Members(rd).value \in List(wireMember)
           /\ ~Members(rd).rd.err => ~rd.err
           /\ Members(rd) = [rd |-> Members(rd).rd, value |-> Members(rd).value]
<1> DEFINE count == GetUvarint(rd)
           n == count.value
<1>1. count.rd \in Readers /\ n \in Uint64 /\ (~count.rd.err => ~rd.err)
  BY GetUvarintType
<1>2. n \in Nat BY <1>1, Uint64Type
<1>3. CASE n > Len(count.rd.buf) \div 3 + 0
  <2>1. Members(rd) = [rd |-> Truncated(count.rd), value |-> <<>>] BY <1>3, MembersCases
  <2>2. <<>> \in List(wireMember) BY Uint64Type DEF List
  <2>3. Truncated(count.rd) \in Readers /\ Truncated(count.rd).err BY <1>1, TruncatedType
  <2> HIDE DEF count
  <2>4. QED BY <2>1, <2>2, <2>3
<1>4. CASE ~(n > Len(count.rd.buf) \div 3 + 0)
  <2>1. Members(rd) = GetItems(count.rd, n, GetMember) BY <1>4, MembersCases
  <2> DEFINE start == count.rd
  <2>0. start \in Readers /\ (~start.err => ~rd.err) BY <1>1
  <2> HIDE DEF count, n, start
  <2>2. PICK g : Items(start, MemberReader, n, g) /\ GetItems(start, n, GetMember) = g[n]
    BY <2>0, <1>2, MembersAre
  <2>3. /\ g[n].rd \in Readers /\ g[n].value \in Seq(wireMember) /\ Len(g[n].value) = n
        /\ ~g[n].rd.err => ~start.err
        /\ g[n] = [rd |-> g[n].rd, value |-> g[n].value]
    <3>1. Items(start, MemberReader, n, g) BY <2>2
    <3>2. start \in Readers /\ n \in Nat BY <2>0, <1>2
    <3>3. ReadsOne(MemberReader, wireMember) BY MemberReads
    <3>4. ReadAll(start, wireMember, n, g[n]) BY <3>1, <3>2, <3>3, ItemsType
    <3>5. QED BY <3>4 DEF ReadAll
  <2>4. g[n].value \in List(wireMember) BY <1>1, <2>3 DEF List
  <2>5. Members(rd) = g[n] BY <2>1, <2>2 DEF start
  <2>6. QED BY <2>0, <2>3, <2>4, <2>5
<1>5. QED BY <1>3, <1>4

(* The bytes of the members, one after the other. *)
MemberBytes(ms) == [i \in DOMAIN ms |-> PutMember(ms[i])]

(* The members as bytes, one sequence each. *)
LEMMA MemberBytesType ==
    ASSUME NEW ms \in Seq(wireMember)
    PROVE  /\ MemberBytes(ms) \in Seq(Seq(Byte)) /\ Len(MemberBytes(ms)) = Len(ms)
           /\ \A i \in 1 .. Len(ms) : Len(MemberBytes(ms)[i]) >= 3
           /\ Reverts(MemberReader, MemberBytes(ms), ms, Len(ms))
           /\ PutAll(ms, PutMember) = Uvarint[Len(ms)] \o FlattenSeq(MemberBytes(ms))
<1> DEFINE n == Len(ms)
           ss == MemberBytes(ms)
<1>0. n \in Nat /\ DOMAIN ms = 1 .. n /\ \A i \in 1 .. n : ms[i] \in wireMember OBVIOUS
<1>1. \A i \in 1 .. n : ss[i] = PutMember(ms[i]) BY <1>0 DEF MemberBytes
<1>2. \A i \in 1 .. n : ss[i] \in Seq(Byte) /\ Len(ss[i]) >= 3
  <2>1. ASSUME NEW i \in 1 .. n PROVE ss[i] \in Seq(Byte) /\ Len(ss[i]) >= 3
    <3>1. <<>> \in Seq(Byte) /\ ms[i] \in wireMember BY <1>0
    <3>2. PutMember(ms[i]) \in Seq(Byte) /\ Len(PutMember(ms[i])) >= 3 BY <3>1, MemberPut
    <3>3. ss[i] = PutMember(ms[i]) BY <1>1
    <3>4. QED BY <3>2, <3>3
  <2>2. QED BY <2>1
<1>3. ss = [i \in 1 .. n |-> ss[i]] BY <1>0 DEF MemberBytes
<1>4. PutAll(ms, PutMember) = Uvarint[n] \o FlattenSeq(ss) BY DEF PutAll, MemberBytes
<1>5. ASSUME NEW i \in 1 .. n, NEW t \in Seq(Byte)
      PROVE  MemberReader[Reader(ss[i] \o t)] = [rd |-> Reader(t), value |-> ms[i]]
  <2> DEFINE m == ms[i]
  <2>1. m \in wireMember /\ ss[i] = PutMember(m) BY <1>0, <1>1
  <2> HIDE DEF m
  <2>2. /\ PutMember(m) \in Seq(Byte)
        /\ GetMember(Reader(PutMember(m) \o t)) = [rd |-> Reader(t), value |-> m]
    BY <2>1, MemberPut
  <2>3. PutMember(m) \o t \in Seq(Byte) BY <2>2, ConcatProperties
  <2>4. Reader(PutMember(m) \o t) \in Readers BY <2>3, ReaderType
  <2>5. MemberReader[Reader(PutMember(m) \o t)] = [rd |-> Reader(t), value |-> m]
    BY <2>2, <2>4 DEF MemberReader
  <2>6. QED BY <2>1, <2>5 DEF m
<1> HIDE DEF ss
<1>6. ss \in Seq(Seq(Byte)) /\ Len(ss) = n
  <2>1. ss \in [1 .. n -> Seq(Byte)] BY <1>2, <1>3
  <2>2. QED BY <2>1, <1>0
<1>7. Reverts(MemberReader, ss, ms, n) BY <1>5 DEF Reverts
<1>8. QED BY <1>2, <1>4, <1>6, <1>7 DEF ss

(* The members that were written are read back. *)
LEMMA MembersPut ==
    ASSUME NEW ms \in List(wireMember), NEW t \in Seq(Byte)
    PROVE  /\ PutAll(ms, PutMember) \in Seq(Byte) /\ Len(PutAll(ms, PutMember)) >= 1 + 3 * Len(ms)
           /\ Members(Reader(PutAll(ms, PutMember) \o t)) = [rd |-> Reader(t), value |-> ms]
<1> DEFINE n == Len(ms)
           ss == MemberBytes(ms)
           flat == FlattenSeq(ss)
           u == Uvarint[n]
<1>0. ms \in Seq(wireMember) /\ n \in Uint64 BY DEF List
<1>1. /\ ss \in Seq(Seq(Byte)) /\ Len(ss) = n
      /\ \A i \in 1 .. n : Len(ss[i]) >= 3
      /\ Reverts(MemberReader, ss, ms, n)
      /\ PutAll(ms, PutMember) = u \o flat
  BY <1>0, MemberBytesType
<1>2. n \in Nat BY <1>0, Uint64Type
<1> HIDE DEF ss, n
<1>3. flat \in Seq(Byte) /\ Len(flat) >= 3 * n
  <2>1. 3 \in Nat /\ \A i \in 1 .. Len(ss) : Len(ss[i]) >= 3 BY <1>1
  <2>2. FlattenSeq(ss) \in Seq(Byte) /\ Len(FlattenSeq(ss)) >= 3 * Len(ss)
    BY <1>1, <2>1, FlatLen
  <2>3. QED BY <1>1, <2>2
<1>4. u \in Seq(Byte) /\ Len(u) >= 1
  <2>1. Varint(u) BY <1>2, UvarintWhole
  <2>2. QED BY <2>1 DEF Varint
<1>5. Len(flat) \in Nat /\ Len(u) \in Nat BY <1>3, <1>4
<1> HIDE DEF flat, u
<1>6. u \o flat \in Seq(Byte) /\ Len(u \o flat) = Len(u) + Len(flat)
  BY <1>3, <1>4, ConcatProperties
<1>7. Len(u) + Len(flat) >= 1 + 3 * n BY <1>2, <1>3, <1>4, <1>5
<1> DEFINE rest == flat \o t
           rd == Reader(u \o rest)
<1>8. rest \in Seq(Byte) /\ Len(rest) = Len(flat) + Len(t) BY <1>3, ConcatProperties
<1>9. (u \o flat) \o t = u \o rest BY <1>3, <1>4, Assoc
<1> HIDE DEF rest
<1>10. GetUvarint(rd) = [rd |-> Reader(rest), value |-> n]
  BY <1>0, <1>8, GetUvarintPut DEF u, n
<1>11. rd \in Readers
  <2>1. u \o rest \in Seq(Byte) BY <1>4, <1>8, ConcatProperties
  <2>2. QED BY <2>1, ReaderType
<1> HIDE DEF rd
<1>12. ~(n > Len(rest) \div 3 + 0)
  <2>1. Len(t) \in Nat OBVIOUS
  <2>2. Len(rest) \in Nat /\ Len(rest) >= 3 * n BY <1>2, <1>3, <1>5, <1>8, <2>1
  <2>3. QED BY <1>2, <2>2
<1>13. Members(rd) = GetItems(Reader(rest), n, GetMember)
  <2> DEFINE count == GetUvarint(rd)
  <2>1. count.value = n /\ count.rd = Reader(rest) /\ Reader(rest).buf = rest
    BY <1>10 DEF Reader
  <2>2. ~(count.value > Len(count.rd.buf) \div 3 + 0) BY <2>1, <1>12
  <2>3. Members(rd) = GetItems(count.rd, count.value, GetMember) BY <1>11, <2>2, MembersCases
  <2>4. QED BY <2>1, <2>3
<1>14. Reader(rest) \in Readers BY <1>8, ReaderType
<1>15. PICK g : /\ Items(Reader(rest), MemberReader, n, g)
                /\ GetItems(Reader(rest), n, GetMember) = g[n]
  BY <1>2, <1>14, MembersAre
<1>16. g[n] = [rd |-> Reader(t), value |-> ms]
  <2>1. Items(Reader(FlattenSeq(ss) \o t), MemberReader, Len(ss), g)
    BY <1>1, <1>15 DEF rest, flat
  <2>2. Len(ms) = Len(ss) /\ Reverts(MemberReader, ss, ms, Len(ss)) BY <1>1 DEF n
  <2>3. g[Len(ss)] = [rd |-> Reader(t), value |-> ms]
    BY <1>0, <1>1, <2>1, <2>2, ItemsPut
  <2>4. QED BY <1>1, <2>3
<1>17. Members(Reader((u \o flat) \o t)) = [rd |-> Reader(t), value |-> ms]
  BY <1>9, <1>13, <1>15, <1>16 DEF rd
<1>18. QED BY <1>1, <1>6, <1>7, <1>17 DEF n

-----------------------------------------------------------------------------
(* Flags and batches. *)

(* Whatever the bytes, a byte read is a byte. *)
LEMMA GetByteType ==
    ASSUME NEW rd \in Readers
    PROVE  /\ GetByte(rd).rd \in Readers /\ GetByte(rd).value \in Byte
           /\ ~GetByte(rd).rd.err => ~rd.err
<1>1. CASE rd.err \/ rd.buf = <<>>
  <2>1. GetByte(rd) = [rd |-> Truncated(rd), value |-> 0] BY <1>1 DEF GetByte
  <2>2. Truncated(rd) \in Readers /\ Truncated(rd).err BY TruncatedType
  <2>3. 0 \in Byte BY DEF Byte
  <2>4. QED BY <2>1, <2>2, <2>3
<1>2. CASE ~rd.err /\ rd.buf # <<>>
  <2>1. GetByte(rd) = [rd |-> Skip(rd, 1), value |-> rd.buf[1]] BY <1>2 DEF GetByte
  <2>2. rd.buf \in Seq(Byte) /\ rd.buf # <<>> BY <1>2 DEF Readers
  <2>3. 1 \in 1 .. Len(rd.buf) BY <2>2
  <2>4. rd.buf[1] \in Byte BY <2>2, <2>3
  <2>5. 1 \in 0 .. Len(rd.buf) BY <2>2
  <2>6. Skip(rd, 1) \in Readers /\ Skip(rd, 1).err = rd.err BY <2>5, SkipType
  <2>7. QED BY <1>2, <2>1, <2>4, <2>6
<1>3. QED BY <1>1, <1>2 DEF Readers

(* A byte that was written is read back. *)
LEMMA GetBytePut ==
    ASSUME NEW b \in Byte, NEW t \in Seq(Byte)
    PROVE  /\ <<b>> \o t \in Seq(Byte) /\ Len(<<b>> \o t) = 1 + Len(t)
           /\ GetByte(Reader(<<b>> \o t)) = [rd |-> Reader(t), value |-> b]
<1> DEFINE s == <<b>>
           all == s \o t
<1>1. s \in Seq(Byte) /\ Len(s) = 1 /\ s[1] = b OBVIOUS
<1> HIDE DEF s
<1>2. all \in Seq(Byte) /\ Len(all) = 1 + Len(t) /\ all[1] = b
  <2>1. s \o t \in Seq(Byte) /\ Len(s \o t) = Len(s) + Len(t) BY <1>1, ConcatProperties
  <2>2. \A i \in 1 .. Len(s) : (s \o t)[i] = s[i] BY <1>1, ConcatProperties
  <2>3. 1 \in 1 .. Len(s) BY <1>1
  <2>4. QED BY <1>1, <2>1, <2>2, <2>3
<1>3. Skip(Reader(s \o t), 1) = Reader(t) BY <1>1, SkipConcat
<1>4. all # <<>>
  <2>1. Len(t) \in Nat OBVIOUS
  <2>2. Len(all) # 0 BY <1>2, <2>1
  <2> HIDE DEF all
  <2>3. QED BY <2>2
<1> HIDE DEF all
<1>5. Reader(all).buf = all /\ Reader(all).err = FALSE BY DEF Reader
<1>6. GetByte(Reader(all)) = [rd |-> Skip(Reader(all), 1), value |-> all[1]]
  BY <1>4, <1>5 DEF GetByte
<1>7. QED BY <1>2, <1>3, <1>6 DEF all, s

(* The flags a writer sets are those a reader finds. *)
LEMMA Bits ==
    ASSUME NEW e \in BOOLEAN
    PROVE  /\ Flag(e, 1) \in Byte /\ Flag(e, 1) + 2 \in Byte
           /\ HasBit(Flag(e, 1), 1) = e /\ HasBit(Flag(e, 1), 2) = FALSE
           /\ HasBit(Flag(e, 1) + 2, 1) = e /\ HasBit(Flag(e, 1) + 2, 2) = TRUE
<1>1. CASE e = TRUE
  <2>1. Flag(e, 1) = 1 BY <1>1 DEF Flag
  <2>2. 1 \div 1 = 1 /\ 1 % 2 = 1 /\ 1 \div 2 = 0 /\ 0 % 2 = 0 OBVIOUS
  <2>3. 3 \div 1 = 3 /\ 3 % 2 = 1 /\ 3 \div 2 = 1 OBVIOUS
  <2>4. Flag(e, 1) + 2 = 3 BY <2>1
  <2>5. Flag(e, 1) \in Byte /\ Flag(e, 1) + 2 \in Byte BY <2>1, <2>4 DEF Byte
  <2>6. HasBit(1, 1) = TRUE /\ HasBit(1, 2) = FALSE BY <2>2 DEF HasBit
  <2>7. HasBit(3, 1) = TRUE /\ HasBit(3, 2) = TRUE BY <2>2, <2>3 DEF HasBit
  <2>8. QED BY <1>1, <2>1, <2>4, <2>5, <2>6, <2>7
<1>2. CASE e = FALSE
  <2>1. Flag(e, 1) = 0 BY <1>2 DEF Flag
  <2>2. 0 \div 1 = 0 /\ 0 % 2 = 0 /\ 0 \div 2 = 0 OBVIOUS
  <2>3. 2 \div 1 = 2 /\ 2 % 2 = 0 /\ 2 \div 2 = 1 /\ 1 % 2 = 1 OBVIOUS
  <2>4. Flag(e, 1) + 2 = 2 BY <2>1
  <2>5. Flag(e, 1) \in Byte /\ Flag(e, 1) + 2 \in Byte BY <2>1, <2>4 DEF Byte
  <2>6. HasBit(0, 1) = FALSE /\ HasBit(0, 2) = FALSE BY <2>2 DEF HasBit
  <2>7. HasBit(2, 1) = FALSE /\ HasBit(2, 2) = TRUE BY <2>2, <2>3 DEF HasBit
  <2>8. QED BY <1>2, <2>1, <2>4, <2>5, <2>6, <2>7
<1>3. QED BY <1>1, <1>2

(* The numeric fields. *)
LEMMA NumericHas ==
    /\ "id" \in Numeric /\ "lastSerial" \in Numeric /\ "limit" \in Numeric
    /\ "before" \in Numeric /\ "fromSerial" \in Numeric /\ "keepAliveMs" \in Numeric
    /\ "seq" \in Numeric /\ "timestamp" \in Numeric /\ "code" \in Numeric
BY DEF Numeric

(* The fields of a batch before its members. *)
BatchFields == {"timestamp", "channel", "messageID", "clientID", "seq"}

(* The message made of a batch's fields, members and flags. *)
BatchOf(head, list, flags) ==
    Join(Join(head, NoText), [ephemeral |-> HasBit(flags, 1), members |-> list])

(* GetBatch reads the fields, then the members. *)
LEMMA GetBatchIs ==
    ASSUME NEW rd, NEW flags
    PROVE  LET head == Get(rd, <<"timestamp", "channel", "messageID", "clientID", "seq">>)
           IN  GetBatch(rd, flags) =
                  [rd |-> Members(head.rd).rd,
                   value |-> BatchOf(head.value, Members(head.rd).value, flags)]
BY DEF GetBatch, BatchOf, Members

(* That message is a message. *)
LEMMA BatchOfType ==
    ASSUME NEW head, head = [x \in BatchFields |-> head[x]], Typed(head, BatchFields),
           NEW list \in List(wireMember), NEW flags
    PROVE  /\ BatchOf(head, list, flags) \in message
           /\ BatchOf(head, list, flags) =
                 [channel |-> head.channel, name |-> <<>>, data |-> <<>>,
                  timestamp |-> head.timestamp, messageID |-> head.messageID,
                  clientID |-> head.clientID, encoding |-> <<>>, seq |-> head.seq,
                  ephemeral |-> HasBit(flags, 1), members |-> list]
<1>1. /\ head.channel \in Text /\ head.messageID \in Text /\ head.clientID \in Text
      /\ head.timestamp \in Uint64 /\ head.seq \in Uint64
  BY TextTypes, NumberTypes, NumericHas DEF Typed, BatchFields
<1>2. HasBit(flags, 1) \in BOOLEAN BY DEF HasBit
<1>3. <<>> \in Text BY EmptyText
<1> DEFINE R == [channel |-> head.channel, name |-> <<>>, data |-> <<>>,
                  timestamp |-> head.timestamp, messageID |-> head.messageID,
                  clientID |-> head.clientID, encoding |-> <<>>, seq |-> head.seq,
                  ephemeral |-> HasBit(flags, 1), members |-> list]
<1>4. R \in message BY <1>1, <1>2, <1>3 DEF message
<1>5. BatchOf(head, list, flags) = R BY DEF BatchOf, Join, NoText, BatchFields
<1>6. QED BY <1>4, <1>5

(* Whatever the bytes, a batch read is a message. *)
LEMMA GetBatchType ==
    ASSUME NEW rd \in Readers, NEW flags
    PROVE  /\ GetBatch(rd, flags).rd \in Readers /\ GetBatch(rd, flags).value \in message
           /\ ~GetBatch(rd, flags).rd.err => ~rd.err
<1> DEFINE layout == <<"timestamp", "channel", "messageID", "clientID", "seq">>
           head == Get(rd, layout)
           list == Members(head.rd)
<1>1. Lays(layout, BatchFields) BY LayBatch DEF BatchFields
<1>2. GetBatch(rd, flags) = [rd |-> list.rd, value |-> BatchOf(head.value, list.value, flags)]
  BY GetBatchIs
<1> HIDE DEF layout
<1>3. /\ head.rd \in Readers /\ (~head.rd.err => ~rd.err)
      /\ head.value = [x \in BatchFields |-> head.value[x]] /\ Typed(head.value, BatchFields)
  BY <1>1, ReadType
<1> HIDE DEF head
<1>4. list.rd \in Readers /\ list.value \in List(wireMember) /\ (~list.rd.err => ~head.rd.err)
  BY <1>3, MembersType
<1> HIDE DEF list
<1>5. BatchOf(head.value, list.value, flags) \in message
  <2> DEFINE h == head.value
             l == list.value
  <2>1. h = [x \in BatchFields |-> h[x]] /\ Typed(h, BatchFields) /\ l \in List(wireMember)
    BY <1>3, <1>4
  <2> HIDE DEF h, l
  <2>2. BatchOf(h, l, flags) \in message BY <2>1, BatchOfType
  <2>3. QED BY <2>2 DEF h, l
<1>6. QED BY <1>2, <1>3, <1>4, <1>5

(* A batch without name, data and encoding of its own is read back. *)
LEMMA BatchPut ==
    ASSUME NEW m \in message, m.name = <<>>, m.data = <<>>, m.encoding = <<>>,
           NEW flags, HasBit(flags, 1) = m.ephemeral, NEW t \in Seq(Byte)
    PROVE  /\ PutBatch(m) \in Seq(Byte) /\ Len(PutBatch(m)) >= 6 + 3 * Len(m.members)
           /\ GetBatch(Reader(PutBatch(m) \o t), flags) = [rd |-> Reader(t), value |-> m]
<1> DEFINE layout == <<"timestamp", "channel", "messageID", "clientID", "seq">>
           p == Put(m, layout)
           ms == m.members
           q == PutAll(ms, PutMember)
           h == [x \in BatchFields |-> m[x]]
           w == q \o t
<1>1. Lays(layout, BatchFields) /\ Len(layout) = 5 BY LayBatch DEF BatchFields
<1>2. Typed(m, BatchFields)
  BY TextTypes, NumberTypes, NumericHas DEF Typed, BatchFields, message
<1>3. ms \in List(wireMember) /\ m.ephemeral \in BOOLEAN BY DEF message
<1>4. PutBatch(m) = p \o q BY DEF PutBatch
<1>5. \A rd : GetBatch(rd, flags) =
         [rd |-> Members(Get(rd, layout).rd).rd,
          value |-> BatchOf(Get(rd, layout).value, Members(Get(rd, layout).rd).value, flags)]
  BY GetBatchIs
<1> HIDE DEF layout, ms
<1>6. /\ q \in Seq(Byte) /\ Len(q) >= 1 + 3 * Len(ms)
      /\ Members(Reader(q \o t)) = [rd |-> Reader(t), value |-> ms]
  BY <1>3, MembersPut
<1> HIDE DEF q
<1>7. w \in Seq(Byte) BY <1>6, ConcatProperties
<1>8. Members(Reader(w)) = [rd |-> Reader(t), value |-> ms] BY <1>6
<1> HIDE DEF w
<1>9. /\ p \in Seq(Byte) /\ Len(p) >= 5
      /\ Get(Reader(p \o w), layout) = [rd |-> Reader(w), value |-> h]
  BY <1>1, <1>2, <1>7, ReadPut, ZenonT(60)
<1> HIDE DEF p
<1>10. (p \o q) \o t = p \o w BY <1>6, <1>9, Assoc DEF w
<1>11. BatchOf(h, ms, flags) = m
  <2>1. h = [x \in BatchFields |-> h[x]] BY DEF BatchFields
  <2>2. Typed(h, BatchFields) BY <1>2 DEF Typed
  <2>3. /\ h.channel = m.channel /\ h.timestamp = m.timestamp /\ h.messageID = m.messageID
        /\ h.clientID = m.clientID /\ h.seq = m.seq
    BY DEF BatchFields
  <2> HIDE DEF h
  <2>4. BatchOf(h, ms, flags) =
           [channel |-> h.channel, name |-> <<>>, data |-> <<>>,
            timestamp |-> h.timestamp, messageID |-> h.messageID,
            clientID |-> h.clientID, encoding |-> <<>>, seq |-> h.seq,
            ephemeral |-> HasBit(flags, 1), members |-> ms]
    BY <1>3, <2>1, <2>2, BatchOfType
  <2>5. m = [channel |-> m.channel, name |-> m.name, data |-> m.data,
             timestamp |-> m.timestamp, messageID |-> m.messageID,
             clientID |-> m.clientID, encoding |-> m.encoding, seq |-> m.seq,
             ephemeral |-> m.ephemeral, members |-> m.members]
    BY DEF message
  <2>6. QED BY <2>3, <2>4, <2>5 DEF ms
<1>12. GetBatch(Reader(p \o w), flags) = [rd |-> Reader(t), value |-> m]
  <2> DEFINE got == Get(Reader(p \o w), layout)
  <2>1. got.rd = Reader(w) /\ got.value = h BY <1>9
  <2>2. GetBatch(Reader(p \o w), flags) =
           [rd |-> Members(got.rd).rd, value |-> BatchOf(got.value, Members(got.rd).value, flags)]
    BY <1>5
  <2> HIDE DEF got, h
  <2>3. QED BY <1>8, <1>11, <2>1, <2>2
<1>13. Len(p \o q) = Len(p) + Len(q) /\ p \o q \in Seq(Byte) BY <1>6, <1>9, ConcatProperties
<1>14. Len(p) + Len(q) >= 6 + 3 * Len(ms)
  <2>1. ms \in Seq(wireMember) BY <1>3 DEF List
  <2>2. Len(ms) \in Nat BY <2>1
  <2>3. Len(p) \in Nat /\ Len(q) \in Nat BY <1>6, <1>9
  <2>4. QED BY <1>6, <1>9, <2>2, <2>3
<1>15. QED BY <1>4, <1>10, <1>12, <1>13, <1>14 DEF ms

-----------------------------------------------------------------------------
(* Messages and lists of them. *)

(* The fields of a message that is not a batch. *)
MessageFields == {"timestamp", "channel", "name", "data", "messageID", "clientID",
                  "encoding", "seq"}

(* A message is read as a batch or not, by its flag. *)
LEMMA GetMessageCases ==
    ASSUME NEW rd
    PROVE  LET flags == GetByte(rd)
               one == Get(flags.rd, <<"timestamp", "channel", "name", "data", "messageID",
                                      "clientID", "encoding", "seq">>)
           IN  /\ HasBit(flags.value, 2) => GetMessage(rd) = GetBatch(flags.rd, flags.value)
               /\ ~HasBit(flags.value, 2) =>
                    GetMessage(rd) =
                      [rd |-> one.rd,
                       value |-> Join(one.value, [ephemeral |-> HasBit(flags.value, 1),
                                                  members |-> <<>>])]
BY DEF GetMessage

(* The message made of the fields read is a message. *)
LEMMA PlainType ==
    ASSUME NEW one, one = [x \in MessageFields |-> one[x]], Typed(one, MessageFields),
           NEW e \in BOOLEAN
    PROVE  /\ Join(one, [ephemeral |-> e, members |-> <<>>]) \in message
           /\ Join(one, [ephemeral |-> e, members |-> <<>>]) =
                 [channel |-> one.channel, name |-> one.name, data |-> one.data,
                  timestamp |-> one.timestamp, messageID |-> one.messageID,
                  clientID |-> one.clientID, encoding |-> one.encoding, seq |-> one.seq,
                  ephemeral |-> e, members |-> <<>>]
<1>1. /\ one.channel \in Text /\ one.messageID \in Text /\ one.clientID \in Text
      /\ one.name \in Text /\ one.data \in Text /\ one.encoding \in Text
      /\ one.timestamp \in Uint64 /\ one.seq \in Uint64
  BY TextTypes, NumberTypes, NumericHas DEF Typed, MessageFields
<1>2. <<>> \in List(wireMember) BY Uint64Type DEF List
<1> DEFINE R == [channel |-> one.channel, name |-> one.name, data |-> one.data,
                  timestamp |-> one.timestamp, messageID |-> one.messageID,
                  clientID |-> one.clientID, encoding |-> one.encoding, seq |-> one.seq,
                  ephemeral |-> e, members |-> <<>>]
<1>3. R \in message BY <1>1, <1>2 DEF message
<1>4. Join(one, [ephemeral |-> e, members |-> <<>>]) = R BY DEF Join, MessageFields
<1>5. QED BY <1>3, <1>4

(* Whatever the bytes, a message read is a message. *)
LEMMA MessageType ==
    ASSUME NEW rd \in Readers
    PROVE  /\ GetMessage(rd).rd \in Readers /\ GetMessage(rd).value \in message
           /\ ~GetMessage(rd).rd.err => ~rd.err
<1> DEFINE flags == GetByte(rd)
           layout == <<"timestamp", "channel", "name", "data", "messageID", "clientID",
                       "encoding", "seq">>
           one == Get(flags.rd, layout)
<1>1. flags.rd \in Readers /\ (~flags.rd.err => ~rd.err) BY GetByteType
<1>2. CASE HasBit(flags.value, 2)
  <2>1. GetMessage(rd) = GetBatch(flags.rd, flags.value) BY <1>2, GetMessageCases
  <2> HIDE DEF flags
  <2>2. /\ GetBatch(flags.rd, flags.value).rd \in Readers
        /\ GetBatch(flags.rd, flags.value).value \in message
        /\ ~GetBatch(flags.rd, flags.value).rd.err => ~flags.rd.err
    BY <1>1, GetBatchType
  <2>3. QED BY <1>1, <2>1, <2>2
<1>3. CASE ~HasBit(flags.value, 2)
  <2> DEFINE e == HasBit(flags.value, 1)
             v == one.value
  <2>1. GetMessage(rd) = [rd |-> one.rd,
                          value |-> Join(v, [ephemeral |-> e, members |-> <<>>])]
    BY <1>3, GetMessageCases
  <2>2. e \in BOOLEAN BY DEF HasBit
  <2>3. Lays(layout, MessageFields) BY LayMessage DEF MessageFields
  <2> HIDE DEF flags, layout, e
  <2>4. /\ one.rd \in Readers /\ (~one.rd.err => ~flags.rd.err)
        /\ v = [x \in MessageFields |-> v[x]] /\ Typed(v, MessageFields)
    BY <1>1, <2>3, ReadType
  <2> HIDE DEF one, v
  <2>5. Join(v, [ephemeral |-> e, members |-> <<>>]) \in message BY <2>2, <2>4, PlainType
  <2>6. QED BY <1>1, <2>1, <2>4, <2>5
<1>4. QED BY <1>2, <1>3

(* A message that was written, batch or not, is read back. *)
LEMMA MessagePut ==
    ASSUME NEW m \in message, PlainBatch(m), NEW t \in Seq(Byte)
    PROVE  /\ PutMessage(m) \in Seq(Byte) /\ Len(PutMessage(m)) >= 9
           /\ GetMessage(Reader(PutMessage(m) \o t)) = [rd |-> Reader(t), value |-> m]
<1> DEFINE layout == <<"timestamp", "channel", "name", "data", "messageID", "clientID",
                       "encoding", "seq">>
           e == m.ephemeral
<1>1. m.members \in List(wireMember) /\ e \in BOOLEAN BY DEF message
<1>2. CASE m.members # <<>>
  <2> DEFINE b == Flag(e, 1) + 2
             p == PutBatch(m)
             w == p \o t
  <2>1. b \in Byte /\ HasBit(b, 1) = m.ephemeral /\ HasBit(b, 2) BY <1>1, Bits
  <2>2. PutMessage(m) = <<b>> \o p BY <1>2 DEF PutMessage
  <2>3. m.name = <<>> /\ m.data = <<>> /\ m.encoding = <<>> BY <1>2 DEF PlainBatch
  <2> HIDE DEF b
  <2>4. /\ PutBatch(m) \in Seq(Byte) /\ Len(PutBatch(m)) >= 6 + 3 * Len(m.members)
        /\ GetBatch(Reader(PutBatch(m) \o t), b) = [rd |-> Reader(t), value |-> m]
    BY <2>1, <2>3, BatchPut
  <2>5. Len(m.members) \in Nat /\ Len(m.members) # 0 BY <1>1, <1>2 DEF List
  <2>6. p \in Seq(Byte) /\ Len(p) >= 9
    <3>1. Len(p) \in Nat BY <2>4
    <3> HIDE DEF p
    <3>2. QED BY <2>4, <2>5, <3>1 DEF p
  <2> HIDE DEF p
  <2>7. w \in Seq(Byte) BY <2>6, ConcatProperties
  <2>8. <<b>> \o p \in Seq(Byte) /\ Len(<<b>> \o p) = 1 + Len(p) BY <2>1, <2>6, GetBytePut
  <2>9. (<<b>> \o p) \o t = <<b>> \o w
    <3>1. <<b>> \in Seq(Byte) BY <2>1
    <3>2. QED BY <2>6, <3>1, Assoc
  <2> HIDE DEF w
  <2>10. GetByte(Reader(<<b>> \o w)) = [rd |-> Reader(w), value |-> b] BY <2>1, <2>7, GetBytePut
  <2>11. GetMessage(Reader(<<b>> \o w)) = GetBatch(Reader(w), b)
    <3> DEFINE flags == GetByte(Reader(<<b>> \o w))
    <3>1. flags.value = b /\ flags.rd = Reader(w) BY <2>10
    <3>2. GetMessage(Reader(<<b>> \o w)) = GetBatch(flags.rd, flags.value)
      BY <2>1, <3>1, GetMessageCases
    <3>3. QED BY <3>1, <3>2
  <2>12. GetBatch(Reader(w), b) = [rd |-> Reader(t), value |-> m] BY <2>4 DEF w, p
  <2>13. Len(p) \in Nat BY <2>6
  <2>14. PutMessage(m) \in Seq(Byte) /\ Len(PutMessage(m)) >= 9
    <3>1. Len(<<b>> \o p) >= 9 BY <2>6, <2>8, <2>13
    <3>2. QED BY <2>2, <2>8, <3>1
  <2>15. GetMessage(Reader(PutMessage(m) \o t)) = [rd |-> Reader(t), value |-> m]
    BY <2>2, <2>9, <2>11, <2>12
  <2>16. QED BY <2>14, <2>15
<1>3. CASE m.members = <<>>
  <2> DEFINE b == Flag(e, 1)
             p == Put(m, layout)
             w == p \o t
             h == [x \in MessageFields |-> m[x]]
  <2>1. b \in Byte /\ HasBit(b, 1) = m.ephemeral /\ HasBit(b, 2) = FALSE BY <1>1, Bits
  <2>2. PutMessage(m) = <<b>> \o p BY <1>3 DEF PutMessage
  <2>3. Lays(layout, MessageFields) /\ Len(layout) = 8 BY LayMessage DEF MessageFields
  <2>4. Typed(m, MessageFields)
    BY TextTypes, NumberTypes, NumericHas DEF Typed, MessageFields, message
  <2>5. \A rd : ~HasBit(GetByte(rd).value, 2) =>
           GetMessage(rd) =
             [rd |-> Get(GetByte(rd).rd, layout).rd,
              value |-> Join(Get(GetByte(rd).rd, layout).value,
                             [ephemeral |-> HasBit(GetByte(rd).value, 1), members |-> <<>>])]
    BY GetMessageCases
  <2> HIDE DEF b, layout
  <2>6. p \in Seq(Byte) /\ Len(p) >= 8
    <3>1. <<>> \in Seq(Byte) OBVIOUS
    <3>2. QED BY <2>3, <2>4, <3>1, ReadPut
  <2>7. Get(Reader(p \o t), layout) = [rd |-> Reader(t), value |-> h]
    BY <2>3, <2>4, ReadPut
  <2> HIDE DEF p
  <2>8. w \in Seq(Byte) BY <2>6, ConcatProperties
  <2>9. <<b>> \o p \in Seq(Byte) /\ Len(<<b>> \o p) = 1 + Len(p) BY <2>1, <2>6, GetBytePut
  <2>10. (<<b>> \o p) \o t = <<b>> \o w
    <3>1. <<b>> \in Seq(Byte) BY <2>1
    <3>2. QED BY <2>6, <3>1, Assoc
  <2>11. Get(Reader(w), layout) = [rd |-> Reader(t), value |-> h] BY <2>7
  <2> HIDE DEF w
  <2>12. GetByte(Reader(<<b>> \o w)) = [rd |-> Reader(w), value |-> b] BY <2>1, <2>8, GetBytePut
  <2>13. Join(h, [ephemeral |-> e, members |-> <<>>]) = m
    <3>1. h = [x \in MessageFields |-> h[x]] BY DEF MessageFields
    <3>2. Typed(h, MessageFields) BY <2>4 DEF Typed
    <3>3. /\ h.channel = m.channel /\ h.timestamp = m.timestamp /\ h.messageID = m.messageID
          /\ h.clientID = m.clientID /\ h.seq = m.seq /\ h.name = m.name /\ h.data = m.data
          /\ h.encoding = m.encoding
      BY DEF MessageFields
    <3> HIDE DEF h
    <3>4. Join(h, [ephemeral |-> e, members |-> <<>>]) =
             [channel |-> h.channel, name |-> h.name, data |-> h.data,
              timestamp |-> h.timestamp, messageID |-> h.messageID,
              clientID |-> h.clientID, encoding |-> h.encoding, seq |-> h.seq,
              ephemeral |-> e, members |-> <<>>]
      BY <1>1, <3>1, <3>2, PlainType
    <3>5. m = [channel |-> m.channel, name |-> m.name, data |-> m.data,
               timestamp |-> m.timestamp, messageID |-> m.messageID,
               clientID |-> m.clientID, encoding |-> m.encoding, seq |-> m.seq,
               ephemeral |-> m.ephemeral, members |-> m.members]
      BY DEF message
    <3>6. QED BY <1>3, <3>3, <3>4, <3>5
  <2>14. GetMessage(Reader(<<b>> \o w)) = [rd |-> Reader(t), value |-> m]
    <3> DEFINE all == Reader(<<b>> \o w)
               flags == GetByte(all)
               one == Get(flags.rd, layout)
    <3>1. flags.value = b /\ flags.rd = Reader(w) BY <2>12
    <3>2. one.rd = Reader(t) /\ one.value = h BY <2>11, <3>1
    <3>3. GetMessage(all) =
             [rd |-> one.rd,
              value |-> Join(one.value, [ephemeral |-> HasBit(flags.value, 1), members |-> <<>>])]
      <4>1. ~HasBit(flags.value, 2) BY <2>1, <3>1
      <4> HIDE DEF all
      <4>2. QED BY <2>5, <4>1
    <3>4. HasBit(flags.value, 1) = e BY <2>1, <3>1
    <3> HIDE DEF one, flags, h
    <3>5. GetMessage(all) = [rd |-> Reader(t), value |-> m]
      BY <2>13, <3>2, <3>3, <3>4
    <3>6. QED BY <3>5
  <2>15. Len(p) \in Nat BY <2>6
  <2>16. PutMessage(m) \in Seq(Byte) /\ Len(PutMessage(m)) >= 9
    <3>1. Len(<<b>> \o p) >= 9 BY <2>6, <2>9, <2>15
    <3>2. QED BY <2>2, <2>9, <3>1
  <2>17. GetMessage(Reader(PutMessage(m) \o t)) = [rd |-> Reader(t), value |-> m]
    BY <2>2, <2>10, <2>14
  <2>18. QED BY <2>16, <2>17
<1>4. QED BY <1>2, <1>3

(* The reader of messages as a function. *)
MessageReader == [r \in Readers |-> GetMessage(r)]

(* It reads one message. *)
LEMMA MessageReads == ReadsOne(MessageReader, message)
BY MessageType DEF ReadsOne, MessageReader

(* GetItems reads messages one after the other. *)
LEMMA MessagesAre ==
    ASSUME NEW rd \in Readers, NEW n \in Nat
    PROVE  \E g : Items(rd, MessageReader, n, g) /\ GetItems(rd, n, GetMessage) = g[n]
<1> DEFINE base == [rd |-> rd, value |-> <<>>]
           F(v, i) == IF i = 0 THEN base ELSE AddItem(v[i - 1], GetMessage(v[i - 1].rd))
           val == CHOOSE v : v = [i \in 0 .. n |-> F(v, i)]
<1>0. PICK f : ReadSoFar(rd, message, MessageReader, n, f)
  BY MessageReads, ItemsExist
<1>1. /\ f \in [0 .. n -> [rd : Readers, value : Seq(message)]] /\ f[0] = base
      /\ \A i \in 1 .. n : f[i] = AddItem(f[i - 1], MessageReader[f[i - 1].rd])
  BY <1>0 DEF ReadSoFar
<1>2. \A r \in Readers : MessageReader[r] = GetMessage(r) BY DEF MessageReader
<1>3. f = [i \in 0 .. n |-> F(f, i)]
  <2>1. ASSUME NEW i \in 0 .. n PROVE f[i] = F(f, i)
    <3> HIDE DEF base
    <3>1. CASE i = 0 BY <3>1, <1>1
    <3>2. CASE i # 0
      <4>1. i \in 1 .. n /\ i - 1 \in 0 .. n BY <3>2
      <4>2. f[i - 1] \in [rd : Readers, value : Seq(message)] BY <4>1, <1>1
      <4>3. MessageReader[f[i - 1].rd] = GetMessage(f[i - 1].rd) BY <4>2, <1>2
      <4>4. f[i] = AddItem(f[i - 1], GetMessage(f[i - 1].rd)) BY <4>1, <4>3, <1>1
      <4>5. QED BY <3>2, <4>4
    <3>3. QED BY <3>1, <3>2
  <2> HIDE DEF F
  <2>2. QED BY <2>1, <1>1
<1>4. val = [i \in 0 .. n |-> F(val, i)]
  <2>1. \E v : v = [i \in 0 .. n |-> F(v, i)] BY <1>3
  <2>2. QED BY <2>1, Zenon
<1>5. GetItems(rd, n, GetMessage) = val[n] BY DEF GetItems
<1>6. \A i \in 0 .. n : val[i] = F(val, i)
  <2> DEFINE H == [i \in 0 .. n |-> F(val, i)]
  <2> HIDE DEF F
  <2>1. \A i \in 0 .. n : H[i] = F(val, i) OBVIOUS
  <2>2. val = H BY <1>4
  <2> HIDE DEF H, val
  <2>3. QED BY <2>1, <2>2
<1> HIDE DEF val
<1>7. Items(rd, MessageReader, n, val)
  <2>1. val[0] = base
    <3>1. 0 \in 0 .. n OBVIOUS
    <3>2. val[0] = F(val, 0) BY <3>1, <1>6
    <3> HIDE DEF base
    <3>3. F(val, 0) = base OBVIOUS
    <3>4. QED BY <3>2, <3>3
  <2>2. ASSUME NEW i \in 1 .. n, val[i - 1].rd \in Readers
        PROVE  val[i] = AddItem(val[i - 1], MessageReader[val[i - 1].rd])
    <3>1. val[i] = AddItem(val[i - 1], GetMessage(val[i - 1].rd)) BY <1>6
    <3>2. MessageReader[val[i - 1].rd] = GetMessage(val[i - 1].rd) BY <1>2, <2>2
    <3>3. QED BY <3>1, <3>2
  <2>3. QED BY <2>1, <2>2 DEF Items
<1>8. QED BY <1>5, <1>7

(* getAll for messages: 9 bytes each at least, and one to spare. *)
Messages(rd) == GetAll(rd, 9, 1, GetMessage)

(* The two outcomes of the count. *)
LEMMA MessagesCases ==
    ASSUME NEW rd \in Readers
    PROVE  LET count == GetUvarint(rd)
           IN  /\ count.value > Len(count.rd.buf) \div 9 + 1 =>
                    Messages(rd) = [rd |-> Truncated(count.rd), value |-> <<>>]
               /\ ~(count.value > Len(count.rd.buf) \div 9 + 1) =>
                    Messages(rd) = GetItems(count.rd, count.value, GetMessage)
BY DEF Messages, GetAll

(* Whatever the bytes, a list of messages is read or the reader fails. *)
LEMMA MessagesType ==
    ASSUME NEW rd \in Readers
    PROVE  /\ Messages(rd).rd \in Readers /\ Messages(rd).value \in List(message)
           /\ ~Messages(rd).rd.err => ~rd.err
           /\ Messages(rd) = [rd |-> Messages(rd).rd, value |-> Messages(rd).value]
<1> DEFINE count == GetUvarint(rd)
           n == count.value
<1>1. count.rd \in Readers /\ n \in Uint64 /\ (~count.rd.err => ~rd.err)
  BY GetUvarintType
<1>2. n \in Nat BY <1>1, Uint64Type
<1>3. CASE n > Len(count.rd.buf) \div 9 + 1
  <2>1. Messages(rd) = [rd |-> Truncated(count.rd), value |-> <<>>] BY <1>3, MessagesCases
  <2>2. <<>> \in List(message) BY Uint64Type DEF List
  <2>3. Truncated(count.rd) \in Readers /\ Truncated(count.rd).err BY <1>1, TruncatedType
  <2> HIDE DEF count
  <2>4. QED BY <2>1, <2>2, <2>3
<1>4. CASE ~(n > Len(count.rd.buf) \div 9 + 1)
  <2>1. Messages(rd) = GetItems(count.rd, n, GetMessage) BY <1>4, MessagesCases
  <2> DEFINE start == count.rd
  <2>0. start \in Readers /\ (~start.err => ~rd.err) BY <1>1
  <2> HIDE DEF count, n, start
  <2>2. PICK g : Items(start, MessageReader, n, g) /\ GetItems(start, n, GetMessage) = g[n]
    BY <2>0, <1>2, MessagesAre
  <2>3. /\ g[n].rd \in Readers /\ g[n].value \in Seq(message) /\ Len(g[n].value) = n
        /\ ~g[n].rd.err => ~start.err
        /\ g[n] = [rd |-> g[n].rd, value |-> g[n].value]
    <3>1. Items(start, MessageReader, n, g) BY <2>2
    <3>2. start \in Readers /\ n \in Nat BY <2>0, <1>2
    <3>3. ReadsOne(MessageReader, message) BY MessageReads
    <3>4. ReadAll(start, message, n, g[n]) BY <3>1, <3>2, <3>3, ItemsType
    <3>5. QED BY <3>4 DEF ReadAll
  <2>4. g[n].value \in List(message) BY <1>1, <2>3 DEF List
  <2>5. Messages(rd) = g[n] BY <2>1, <2>2 DEF start
  <2>6. QED BY <2>0, <2>3, <2>4, <2>5
<1>5. QED BY <1>3, <1>4

(* The bytes of the messages, one after the other. *)
MessageBytes(ms) == [i \in DOMAIN ms |-> PutMessage(ms[i])]

(* The messages as bytes, one sequence each. *)
LEMMA MessageBytesType ==
    ASSUME NEW ms \in Seq(message), \A i \in DOMAIN ms : PlainBatch(ms[i])
    PROVE  /\ MessageBytes(ms) \in Seq(Seq(Byte)) /\ Len(MessageBytes(ms)) = Len(ms)
           /\ \A i \in 1 .. Len(ms) : Len(MessageBytes(ms)[i]) >= 9
           /\ Reverts(MessageReader, MessageBytes(ms), ms, Len(ms))
<1> DEFINE n == Len(ms)
           ss == MessageBytes(ms)
<1>0. n \in Nat /\ DOMAIN ms = 1 .. n /\ \A i \in 1 .. n : ms[i] \in message OBVIOUS
<1>1. \A i \in 1 .. n : ss[i] = PutMessage(ms[i]) BY <1>0 DEF MessageBytes
<1>2. \A i \in 1 .. n : ss[i] \in Seq(Byte) /\ Len(ss[i]) >= 9
  <2>1. ASSUME NEW i \in 1 .. n PROVE ss[i] \in Seq(Byte) /\ Len(ss[i]) >= 9
    <3>1. <<>> \in Seq(Byte) /\ ms[i] \in message /\ PlainBatch(ms[i]) BY <1>0
    <3>2. PutMessage(ms[i]) \in Seq(Byte) /\ Len(PutMessage(ms[i])) >= 9 BY <3>1, MessagePut
    <3>3. ss[i] = PutMessage(ms[i]) BY <1>1
    <3>4. QED BY <3>2, <3>3
  <2>2. QED BY <2>1
<1>3. ss = [i \in 1 .. n |-> ss[i]] BY <1>0 DEF MessageBytes
<1>5. ASSUME NEW i \in 1 .. n, NEW t \in Seq(Byte)
      PROVE  MessageReader[Reader(ss[i] \o t)] = [rd |-> Reader(t), value |-> ms[i]]
  <2> DEFINE m == ms[i]
  <2>1. m \in message /\ PlainBatch(m) /\ ss[i] = PutMessage(m) BY <1>0, <1>1
  <2> HIDE DEF m
  <2>2. /\ PutMessage(m) \in Seq(Byte)
        /\ GetMessage(Reader(PutMessage(m) \o t)) = [rd |-> Reader(t), value |-> m]
    BY <2>1, MessagePut
  <2>3. PutMessage(m) \o t \in Seq(Byte) BY <2>2, ConcatProperties
  <2>4. Reader(PutMessage(m) \o t) \in Readers BY <2>3, ReaderType
  <2>5. MessageReader[Reader(PutMessage(m) \o t)] = [rd |-> Reader(t), value |-> m]
    BY <2>2, <2>4 DEF MessageReader
  <2>6. QED BY <2>1, <2>5 DEF m
<1> HIDE DEF ss
<1>6. ss \in Seq(Seq(Byte)) /\ Len(ss) = n
  <2>1. ss \in [1 .. n -> Seq(Byte)] BY <1>2, <1>3
  <2>2. QED BY <2>1, <1>0
<1>7. Reverts(MessageReader, ss, ms, n) BY <1>5 DEF Reverts
<1>8. QED BY <1>2, <1>6, <1>7 DEF ss

(* A count and as many messages. *)
PutMessages(ms) == Uvarint[Len(ms)] \o FlattenSeq(MessageBytes(ms))

(* The messages that were written are read back. *)
LEMMA MessagesPut ==
    ASSUME NEW ms \in List(message), \A i \in DOMAIN ms : PlainBatch(ms[i]), NEW t \in Seq(Byte)
    PROVE  /\ PutMessages(ms) \in Seq(Byte) /\ Len(PutMessages(ms)) >= 1 + 9 * Len(ms)
           /\ Messages(Reader(PutMessages(ms) \o t)) = [rd |-> Reader(t), value |-> ms]
<1> DEFINE n == Len(ms)
           ss == MessageBytes(ms)
           flat == FlattenSeq(ss)
           u == Uvarint[n]
<1>0. ms \in Seq(message) /\ n \in Uint64 BY DEF List
<1>1. /\ ss \in Seq(Seq(Byte)) /\ Len(ss) = n
      /\ \A i \in 1 .. n : Len(ss[i]) >= 9
      /\ Reverts(MessageReader, ss, ms, n)
      /\ PutMessages(ms) = u \o flat
  BY <1>0, MessageBytesType DEF PutMessages
<1>2. n \in Nat BY <1>0, Uint64Type
<1> HIDE DEF ss, n
<1>3. flat \in Seq(Byte) /\ Len(flat) >= 9 * n
  <2>1. 9 \in Nat /\ \A i \in 1 .. Len(ss) : Len(ss[i]) >= 9 BY <1>1
  <2>2. FlattenSeq(ss) \in Seq(Byte) /\ Len(FlattenSeq(ss)) >= 9 * Len(ss)
    BY <1>1, <2>1, FlatLen
  <2>3. QED BY <1>1, <2>2
<1>4. u \in Seq(Byte) /\ Len(u) >= 1
  <2>1. Varint(u) BY <1>2, UvarintWhole
  <2>2. QED BY <2>1 DEF Varint
<1>5. Len(flat) \in Nat /\ Len(u) \in Nat BY <1>3, <1>4
<1> HIDE DEF flat, u
<1>6. u \o flat \in Seq(Byte) /\ Len(u \o flat) = Len(u) + Len(flat)
  BY <1>3, <1>4, ConcatProperties
<1>7. Len(u) + Len(flat) >= 1 + 9 * n BY <1>2, <1>3, <1>4, <1>5
<1> DEFINE rest == flat \o t
           rd == Reader(u \o rest)
<1>8. rest \in Seq(Byte) /\ Len(rest) = Len(flat) + Len(t) BY <1>3, ConcatProperties
<1>9. (u \o flat) \o t = u \o rest BY <1>3, <1>4, Assoc
<1> HIDE DEF rest
<1>10. GetUvarint(rd) = [rd |-> Reader(rest), value |-> n]
  BY <1>0, <1>8, GetUvarintPut DEF u, n
<1>11. rd \in Readers
  <2>1. u \o rest \in Seq(Byte) BY <1>4, <1>8, ConcatProperties
  <2>2. QED BY <2>1, ReaderType
<1> HIDE DEF rd
<1>12. ~(n > Len(rest) \div 9 + 1)
  <2>1. Len(t) \in Nat OBVIOUS
  <2>2. Len(rest) \in Nat /\ Len(rest) >= 9 * n BY <1>2, <1>3, <1>5, <1>8, <2>1
  <2>3. QED BY <1>2, <2>2
<1>13. Messages(rd) = GetItems(Reader(rest), n, GetMessage)
  <2> DEFINE count == GetUvarint(rd)
  <2>1. count.value = n /\ count.rd = Reader(rest) /\ Reader(rest).buf = rest
    BY <1>10 DEF Reader
  <2>2. ~(count.value > Len(count.rd.buf) \div 9 + 1) BY <2>1, <1>12
  <2>3. Messages(rd) = GetItems(count.rd, count.value, GetMessage) BY <1>11, <2>2, MessagesCases
  <2>4. QED BY <2>1, <2>3
<1>14. Reader(rest) \in Readers BY <1>8, ReaderType
<1>15. PICK g : /\ Items(Reader(rest), MessageReader, n, g)
                /\ GetItems(Reader(rest), n, GetMessage) = g[n]
  BY <1>2, <1>14, MessagesAre
<1>16. g[n] = [rd |-> Reader(t), value |-> ms]
  <2>1. Items(Reader(FlattenSeq(ss) \o t), MessageReader, Len(ss), g)
    BY <1>1, <1>15 DEF rest, flat
  <2>2. Len(ms) = Len(ss) /\ Reverts(MessageReader, ss, ms, Len(ss)) BY <1>1 DEF n
  <2>3. g[Len(ss)] = [rd |-> Reader(t), value |-> ms]
    BY <1>0, <1>1, <2>1, <2>2, ItemsPut
  <2>4. QED BY <1>1, <2>3
<1>17. Messages(Reader((u \o flat) \o t)) = [rd |-> Reader(t), value |-> ms]
  BY <1>9, <1>13, <1>15, <1>16 DEF rd
<1>18. QED BY <1>1, <1>6, <1>7, <1>17 DEF n

-----------------------------------------------------------------------------
(* Records and their opcodes. *)

(* A record of an opcode and its payload. *)
LEMMA Opened ==
    ASSUME NEW op \in Byte, NEW p \in Seq(Byte)
    PROVE  /\ <<op>> \o p \in Seq(Byte) /\ <<op>> \o p # <<>> /\ (<<op>> \o p)[1] = op
           /\ Skip(Reader(<<op>> \o p), 1) = Reader(p)
<1> DEFINE s == <<op>>
           all == s \o p
<1>1. s \in Seq(Byte) /\ Len(s) = 1 /\ s[1] = op OBVIOUS
<1> HIDE DEF s
<1>2. all \in Seq(Byte) /\ Len(all) = 1 + Len(p) /\ all[1] = op
  <2>1. s \o p \in Seq(Byte) /\ Len(s \o p) = Len(s) + Len(p) BY <1>1, ConcatProperties
  <2>2. \A i \in 1 .. Len(s) : (s \o p)[i] = s[i] BY <1>1, ConcatProperties
  <2>3. 1 \in 1 .. Len(s) BY <1>1
  <2>4. QED BY <1>1, <2>1, <2>2, <2>3
<1>3. Skip(Reader(s \o p), 1) = Reader(p) BY <1>1, SkipConcat
<1>4. all # <<>>
  <2>1. Len(p) \in Nat OBVIOUS
  <2>2. Len(all) # 0 BY <1>2, <2>1
  <2> HIDE DEF all
  <2>3. QED BY <2>2
<1>5. QED BY <1>2, <1>3, <1>4 DEF s

(* An opcode, a flags byte and a payload. *)
LEMMA TwoBytes ==
    ASSUME NEW a \in Byte, NEW b \in Byte, NEW p \in Seq(Byte)
    PROVE  /\ <<a, b>> \o p = <<a>> \o (<<b>> \o p) /\ <<b>> \o p \in Seq(Byte)
<1>1. <<a>> \in Seq(Byte) /\ <<b>> \in Seq(Byte) OBVIOUS
<1> DEFINE s == <<a>>
           t == <<b>>
           w == <<a, b>>
<1>2. s \o t = w
  <2>1. s \in Seq(Byte) /\ t \in Seq(Byte) /\ w \in Seq(Byte) OBVIOUS
  <2>2. Len(s) = 1 /\ Len(t) = 1 /\ Len(w) = 2 OBVIOUS
  <2>3. s[1] = a /\ t[1] = b /\ w[1] = a /\ w[2] = b OBVIOUS
  <2> HIDE DEF s, t, w
  <2>4. s \o t \in Seq(Byte) /\ Len(s \o t) = 2
    <3>1. s \o t \in Seq(Byte) /\ Len(s \o t) = Len(s) + Len(t) BY <2>1, ConcatProperties
    <3>2. 1 + 1 = 2 OBVIOUS
    <3>3. QED BY <2>2, <3>1, <3>2
  <2>5. \A i \in 1 .. Len(s) + Len(t) :
           (s \o t)[i] = IF i <= Len(s) THEN s[i] ELSE t[i - Len(s)]
    BY <2>1, ConcatProperties
  <2>6. (s \o t)[1] = a /\ (s \o t)[2] = b
    <3> DEFINE q == s \o t
    <3>1. \A i \in 1 .. 1 + 1 : q[i] = IF i <= 1 THEN s[i] ELSE t[i - 1] BY <2>2, <2>5
    <3> HIDE DEF q
    <3>2. 1 \in 1 .. 1 + 1 /\ 2 \in 1 .. 1 + 1 /\ 2 - 1 = 1 OBVIOUS
    <3>3. q[1] = s[1] BY <3>1, <3>2
    <3>4. q[2] = t[1] BY <3>1, <3>2
    <3>5. QED BY <2>3, <3>3, <3>4 DEF q
  <2>7. \A i \in 1 .. 2 : i = 1 \/ i = 2 OBVIOUS
  <2>8. \A i \in 1 .. 2 : (s \o t)[i] = w[i] BY <2>3, <2>6, <2>7
  <2> DEFINE q == s \o t
  <2>9. q \in Seq(Byte) /\ Len(q) = 2 /\ \A i \in 1 .. 2 : q[i] = w[i] BY <2>4, <2>8
  <2> HIDE DEF q
  <2>10. Len(q) = Len(w) /\ \A i \in 1 .. Len(q) : q[i] = w[i] BY <2>2, <2>9
  <2>11. q = w BY <2>1, <2>9, <2>10, SeqEqual
  <2>12. QED BY <2>11 DEF q
<1>3. s \in Seq(Byte) /\ t \in Seq(Byte) BY <1>1
<1> HIDE DEF s, t
<1>4. (s \o t) \o p = s \o (t \o p) BY <1>3, Assoc
<1>5. t \o p \in Seq(Byte) BY <1>3, ConcatProperties
<1>6. QED BY <1>2, <1>4, <1>5 DEF s, t, w

(* ReadPut where nothing follows. *)
LEMMA ReadWhole ==
    ASSUME NEW frame, NEW layout, NEW D, Lays(layout, D), Typed(frame, D)
    PROVE  /\ Put(frame, layout) \in Seq(Byte)
           /\ Get(Reader(Put(frame, layout)), layout) =
                 [rd |-> Reader(<<>>), value |-> [x \in D |-> frame[x]]]
<1> DEFINE p == Put(frame, layout)
<1>1. <<>> \in Seq(Byte) OBVIOUS
<1>2. /\ p \in Seq(Byte)
      /\ Get(Reader(p \o <<>>), layout) =
            [rd |-> Reader(<<>>), value |-> [x \in D |-> frame[x]]]
  BY <1>1, ReadPut
<1> HIDE DEF p
<1>3. p \o <<>> = p BY <1>2, ConcatEmptySeq
<1>4. QED BY <1>2, <1>3 DEF p

(* The opcodes as numbers. *)
LEMMA Opcodes ==
    /\ Opcode.auth = 1 /\ Opcode.sub = 2 /\ Opcode.unsub = 3 /\ Opcode.pub = 4
    /\ Opcode.pres = 5 /\ Opcode.presSub = 6 /\ Opcode.presUnsub = 7 /\ Opcode.hist = 8
    /\ Opcode.fetch = 9 /\ Opcode.ping = 10 /\ Opcode.connected = 11 /\ Opcode.ack = 12
    /\ Opcode.msg = 13 /\ Opcode.presEvt = 14 /\ Opcode.err = 15 /\ Opcode.pong = 16
    /\ Opcode.histRes = 17 /\ Opcode.fetchRes = 18 /\ Opcode.batch = 19
BY DEF Opcode

(* decodeServerFrame, opcode by opcode. *)
LEMMA DecodeServerIs ==
    ASSUME NEW record, record # <<>>
    PROVE  LET op == record[1]
               rd == Skip(Reader(record), 1)
               flags == GetByte(rd)
               batch == GetBatch(flags.rd, flags.value)
           IN  /\ op = 11 => decodeServerFrame(record) =
                    Frame("connected", Get(rd, <<"connectionID", "keepAliveMs", "clientID">>))
               /\ op = 12 => decodeServerFrame(record) = DecodeAck(rd)
               /\ op = 13 => decodeServerFrame(record) = DecodeMessage(rd)
               /\ op = 19 => decodeServerFrame(record) =
                    Frame("msg", [batch EXCEPT !.value = [message |-> batch.value]])
               /\ op = 14 => decodeServerFrame(record) =
                    DecodeAction("presEvt", rd, <<"timestamp", "channel", "clientID",
                                                  "connectionID", "data", "encoding">>)
               /\ op = 15 => decodeServerFrame(record) =
                    Frame("err", Get(rd, <<"id", "code", "message">>))
               /\ op = 16 => decodeServerFrame(record) = [kind |-> "pong"]
               /\ op = 17 => decodeServerFrame(record) = DecodeResponse("histRes", rd)
               /\ op = 18 => decodeServerFrame(record) = DecodeResponse("fetchRes", rd)
               /\ op \notin 11 .. 19 => decodeServerFrame(record) = Nil
BY Opcodes DEF decodeServerFrame

(* An empty record is no frame of the server. *)
LEMMA DecodeServerNone == decodeServerFrame(<<>>) = Nil
BY DEF decodeServerFrame

-----------------------------------------------------------------------------
(* Frames of the server without messages. *)

(* encodeServerFrame, kind by kind. *)
LEMMA EncodeServerIs ==
    ASSUME NEW f
    PROVE  /\ f.kind = "ack" => encodeServerFrame(f) =
                 <<12, CASE f.resumed = "nil" -> 0 [] f.resumed = "no" -> 1
                         [] f.resumed = "yes" -> 3>> \o Put(f, <<"id", "seq">>)
           /\ f.kind = "msg" /\ f.message.members # <<>> => encodeServerFrame(f) =
                 <<19, Flag(f.message.ephemeral, 1)>> \o PutBatch(f.message)
           /\ f.kind = "msg" /\ f.message.members = <<>> => encodeServerFrame(f) =
                 <<13, 1>> \o PutMessage(f.message)
           /\ f.kind = "presEvt" => encodeServerFrame(f) =
                 <<14, presenceActionByte(f.action)>>
                   \o Put(f, <<"timestamp", "channel", "clientID", "connectionID", "data",
                               "encoding">>)
           /\ f.kind \in {"histRes", "fetchRes"} => encodeServerFrame(f) = EncodeResponse(f)
           /\ f.kind = "connected" => encodeServerFrame(f) =
                 <<11>> \o Put(f, <<"connectionID", "keepAliveMs", "clientID">>)
           /\ f.kind = "err" => encodeServerFrame(f) =
                 <<15>> \o Put(f, <<"id", "code", "message">>)
           /\ f.kind = "pong" => encodeServerFrame(f) = <<16>> \o Put(f, <<>>)
<1>1. CASE f.kind = "ack" BY <1>1, Opcodes DEF encodeServerFrame, PutAll
<1>2. CASE f.kind = "msg" BY <1>2, Opcodes DEF encodeServerFrame, PutAll
<1>3. CASE f.kind = "presEvt" BY <1>3, Opcodes DEF encodeServerFrame, PutAll
<1>4. CASE f.kind \in {"histRes", "fetchRes"} BY <1>4 DEF encodeServerFrame, PutAll
<1>5. CASE f.kind = "connected" BY <1>5, Opcodes DEF encodeServerFrame, PutAll, ServerLayout
<1>6. CASE f.kind = "err" BY <1>6, Opcodes DEF encodeServerFrame, PutAll, ServerLayout
<1>7. CASE f.kind = "pong" BY <1>7, Opcodes DEF encodeServerFrame, PutAll, ServerLayout
<1>8. QED BY <1>1, <1>2, <1>3, <1>4, <1>5, <1>6, <1>7

(* A bundle is written as messages of its channel. *)
LEMMA EncodeBundleIs ==
    ASSUME NEW f, f.kind = "bundle"
    PROVE  encodeServerFrame(f) =
              <<13>> \o (Uvarint[Len(f.bundle)] \o
                 FlattenSeq([i \in DOMAIN f.bundle |-> PutMessage(Widen(f.bundle[i], f.channel))]))
BY Opcodes DEF encodeServerFrame, PutAll

(* A reader without error makes a frame. *)
LEMMA FrameOk ==
    ASSUME NEW kind, NEW got, ~got.rd.err
    PROVE  Frame(kind, got) = Join([kind |-> kind], got.value)
BY DEF Frame

(* A reader at the end of its record has no error. *)
LEMMA EndOk == Reader(<<>>) \in Readers /\ ~Reader(<<>>).err
<1>1. <<>> \in Seq(Byte) OBVIOUS
<1>2. QED BY <1>1, ReaderType

(* The fields D of f. *)
Only(f, D) == [x \in D |-> f[x]]

(* A record that is an opcode and the fields of a layout. *)
LEMMA PlainRecord ==
    ASSUME NEW f, NEW op \in Byte, NEW layout, NEW D, Lays(layout, D), Typed(f, D)
    PROVE  /\ <<op>> \o Put(f, layout) \in Seq(Byte) /\ <<op>> \o Put(f, layout) # <<>>
           /\ (<<op>> \o Put(f, layout))[1] = op
           /\ Get(Skip(Reader(<<op>> \o Put(f, layout)), 1), layout) =
                 [rd |-> Reader(<<>>), value |-> Only(f, D)]
<1> DEFINE p == Put(f, layout)
           h == Only(f, D)
<1>1. p \in Seq(Byte) /\ Get(Reader(p), layout) = [rd |-> Reader(<<>>), value |-> h]
  BY ReadWhole DEF Only
<1> HIDE DEF p, h
<1>3. /\ <<op>> \o p \in Seq(Byte) /\ <<op>> \o p # <<>> /\ (<<op>> \o p)[1] = op
      /\ Skip(Reader(<<op>> \o p), 1) = Reader(p)
  BY <1>1, Opened
<1>4. QED BY <1>1, <1>3 DEF p, h

(* What is read to the end makes a frame. *)
LEMMA PlainFrame ==
    ASSUME NEW got, NEW h, got = [rd |-> Reader(<<>>), value |-> h], NEW kind
    PROVE  Frame(kind, got) = Join([kind |-> kind], h)
<1>1. got.rd = Reader(<<>>) /\ got.value = h OBVIOUS
<1>2. QED BY <1>1, EndOk, FrameOk

(* A record with a flags byte. *)
LEMMA FlaggedFrame ==
    ASSUME NEW op \in Byte, NEW b \in Byte, NEW p \in Seq(Byte)
    PROVE  /\ <<op, b>> \o p \in Seq(Byte) /\ <<op, b>> \o p # <<>> /\ (<<op, b>> \o p)[1] = op
           /\ GetByte(Skip(Reader(<<op, b>> \o p), 1)) = [rd |-> Reader(p), value |-> b]
<1> DEFINE q == <<b>> \o p
<1>1. <<op, b>> \o p = <<op>> \o q /\ q \in Seq(Byte) BY TwoBytes
<1>2. GetByte(Reader(q)) = [rd |-> Reader(p), value |-> b] BY GetBytePut
<1> HIDE DEF q
<1>3. /\ <<op>> \o q \in Seq(Byte) /\ <<op>> \o q # <<>> /\ (<<op>> \o q)[1] = op
      /\ Skip(Reader(<<op>> \o q), 1) = Reader(q)
  BY <1>1, Opened
<1>4. QED BY <1>1, <1>2, <1>3

(* The bytes of f decode to g. *)
SameServer(f, g) ==
    encodeServerFrame(f) \in Seq(Byte) /\ decodeServerFrame(encodeServerFrame(f)) = g

(* A connected frame arrives as it was sent. *)
LEMMA ConnectedTrip == ASSUME NEW f \in connectedFrame PROVE SameServer(f, f)
<1> DEFINE layout == <<"connectionID", "keepAliveMs", "clientID">>
           D == {"connectionID", "keepAliveMs", "clientID"}
           record == encodeServerFrame(f)
<1>1. Lays(layout, D) BY LayConnected
<1>2. Typed(f, D) BY TextTypes, NumberTypes, NumericHas DEF Typed, connectedFrame
<1>3. record = <<11>> \o Put(f, layout) BY EncodeServerIs DEF connectedFrame
<1>4. Join([kind |-> "connected"], Only(f, D)) = f BY DEF Only, Join, connectedFrame
<1>5. record # <<>> /\ record[1] = 11 =>
         decodeServerFrame(record) = Frame("connected", Get(Skip(Reader(record), 1), layout))
  BY DecodeServerIs
<1>6. 11 \in Byte BY DEF Byte
<1> DEFINE op == 11
           got == Get(Skip(Reader(record), 1), layout)
           h == Only(f, D)
<1>7. op \in Byte /\ record = <<op>> \o Put(f, layout) BY <1>3, <1>6
<1> HIDE DEF layout, D, record, op
<1>8. /\ record \in Seq(Byte) /\ record # <<>> /\ record[1] = op
      /\ got = [rd |-> Reader(<<>>), value |-> h]
  <2> DEFINE r == <<op>> \o Put(f, layout)
  <2>1. r \in Seq(Byte) /\ r # <<>> /\ r[1] = op BY <1>1, <1>2, <1>7, PlainRecord
  <2>2. Get(Skip(Reader(r), 1), layout) = [rd |-> Reader(<<>>), value |-> Only(f, D)]
    BY <1>1, <1>2, <1>7, PlainRecord
  <2>3. r = record BY <1>7
  <2> HIDE DEF r
  <2>4. QED BY <2>1, <2>2, <2>3
<1> HIDE DEF got, h
<1>9. Frame("connected", got) = Join([kind |-> "connected"], h) BY <1>8, PlainFrame
<1>10. QED BY <1>4, <1>5, <1>8, <1>9 DEF SameServer, record, op, got, h

(* So does an error frame. *)
LEMMA ErrTrip == ASSUME NEW f \in errorFrame PROVE SameServer(f, f)
<1> DEFINE layout == <<"id", "code", "message">>
           D == {"id", "code", "message"}
           record == encodeServerFrame(f)
<1>1. Lays(layout, D) BY LayErr
<1>2. Typed(f, D) BY TextTypes, NumberTypes, NumericHas DEF Typed, errorFrame
<1>3. record = <<15>> \o Put(f, layout) BY EncodeServerIs DEF errorFrame
<1>4. Join([kind |-> "err"], Only(f, D)) = f BY DEF Only, Join, errorFrame
<1>5. record # <<>> /\ record[1] = 15 =>
         decodeServerFrame(record) = Frame("err", Get(Skip(Reader(record), 1), layout))
  BY DecodeServerIs
<1>6. 15 \in Byte BY DEF Byte
<1> DEFINE op == 15
           got == Get(Skip(Reader(record), 1), layout)
           h == Only(f, D)
<1>7. op \in Byte /\ record = <<op>> \o Put(f, layout) BY <1>3, <1>6
<1> HIDE DEF layout, D, record, op
<1>8. /\ record \in Seq(Byte) /\ record # <<>> /\ record[1] = op
      /\ got = [rd |-> Reader(<<>>), value |-> h]
  <2> DEFINE r == <<op>> \o Put(f, layout)
  <2>1. r \in Seq(Byte) /\ r # <<>> /\ r[1] = op BY <1>1, <1>2, <1>7, PlainRecord
  <2>2. Get(Skip(Reader(r), 1), layout) = [rd |-> Reader(<<>>), value |-> Only(f, D)]
    BY <1>1, <1>2, <1>7, PlainRecord
  <2>3. r = record BY <1>7
  <2> HIDE DEF r
  <2>4. QED BY <2>1, <2>2, <2>3
<1> HIDE DEF got, h
<1>9. Frame("err", got) = Join([kind |-> "err"], h) BY <1>8, PlainFrame
<1>10. QED BY <1>4, <1>5, <1>8, <1>9 DEF SameServer, record, op, got, h

(* So does a pong. *)
LEMMA PongTrip == ASSUME NEW f \in pongFrame PROVE SameServer(f, f)
<1> DEFINE layout == <<>>
           record == encodeServerFrame(f)
<1>1. Lays(layout, {}) BY LayPing
<1>2. Typed(f, {}) BY DEF Typed
<1>3. record = <<16>> \o Put(f, layout) BY EncodeServerIs DEF pongFrame
<1>4. [kind |-> "pong"] = f BY DEF pongFrame
<1>5. record # <<>> /\ record[1] = 16 => decodeServerFrame(record) = [kind |-> "pong"]
  BY DecodeServerIs
<1>6. 16 \in Byte BY DEF Byte
<1> DEFINE op == 16
<1>7. op \in Byte /\ record = <<op>> \o Put(f, layout) BY <1>3, <1>6
<1> HIDE DEF layout, record, op
<1> DEFINE r == <<op>> \o Put(f, layout)
<1>70. r \in Seq(Byte) /\ r # <<>> /\ r[1] = op BY <1>1, <1>2, <1>7, PlainRecord
<1>8. record \in Seq(Byte) /\ record # <<>> /\ record[1] = op BY <1>7, <1>70
<1>9. QED BY <1>4, <1>5, <1>8 DEF SameServer, record, op

(* So does an ack, with its three-valued resumed flag. *)
LEMMA AckTrip == ASSUME NEW f \in ackFrame PROVE SameServer(f, f)
<1> DEFINE layout == <<"id", "seq">>
           D == {"id", "seq"}
           record == encodeServerFrame(f)
           b == CASE f.resumed = "nil" -> 0 [] f.resumed = "no" -> 1 [] f.resumed = "yes" -> 3
           p == Put(f, layout)
           rd == Skip(Reader(record), 1)
           h == Only(f, D)
           r == IF ~HasBit(b, 1) THEN "nil" ELSE IF HasBit(b, 2) THEN "yes" ELSE "no"
<1>1. Lays(layout, D) BY LayAck
<1>2. Typed(f, D) BY TextTypes, NumberTypes, NumericHas DEF Typed, ackFrame
<1>3. record = <<12, b>> \o p BY EncodeServerIs DEF ackFrame
<1>4. b \in Byte /\ r = f.resumed
  <2>1. f.resumed \in {"nil", "no", "yes"} BY DEF ackFrame
  <2>2. 0 \div 1 = 0 /\ 0 % 2 = 0 /\ 1 \div 1 = 1 /\ 1 % 2 = 1 /\ 1 \div 2 = 0 OBVIOUS
  <2>3. 3 \div 1 = 3 /\ 3 % 2 = 1 /\ 3 \div 2 = 1 OBVIOUS
  <2>4. HasBit(0, 1) = FALSE BY <2>2 DEF HasBit
  <2>5. HasBit(1, 1) = TRUE /\ HasBit(1, 2) = FALSE BY <2>2 DEF HasBit
  <2>6. HasBit(3, 1) = TRUE /\ HasBit(3, 2) = TRUE BY <2>2, <2>3 DEF HasBit
  <2>7. CASE f.resumed = "nil"
    <3>1. b = 0 BY <2>7
    <3> HIDE DEF b
    <3>2. QED BY <3>1, <2>7, <2>4 DEF Byte
  <2>8. CASE f.resumed = "no"
    <3>1. b = 1 BY <2>8
    <3> HIDE DEF b
    <3>2. QED BY <3>1, <2>8, <2>5 DEF Byte
  <2>9. CASE f.resumed = "yes"
    <3>1. b = 3 BY <2>9
    <3> HIDE DEF b
    <3>2. QED BY <3>1, <2>9, <2>6 DEF Byte
  <2>10. QED BY <2>1, <2>7, <2>8, <2>9
<1>5. record # <<>> /\ record[1] = 12 => decodeServerFrame(record) = DecodeAck(rd)
  BY DecodeServerIs
<1>6. 12 \in Byte BY DEF Byte
<1>7. DecodeAck(rd) =
         LET flags == GetByte(rd)
             body0 == Get(flags.rd, layout)
         IN  Frame("ack", [body0 EXCEPT !.value = Join(@,
                [resumed |-> IF ~HasBit(flags.value, 1) THEN "nil"
                             ELSE IF HasBit(flags.value, 2) THEN "yes" ELSE "no"])])
  BY DEF DecodeAck
<1>8. Join([kind |-> "ack"], Join(h, [resumed |-> f.resumed])) = f BY DEF Only, Join, ackFrame
<1> HIDE DEF b, layout
<1>9. p \in Seq(Byte) /\ Get(Reader(p), layout) = [rd |-> Reader(<<>>), value |-> h]
  BY <1>1, <1>2, ReadWhole DEF Only
<1> DEFINE op == 12
<1> HIDE DEF p, h, record, op
<1>10. /\ record \in Seq(Byte) /\ record # <<>> /\ record[1] = op
       /\ GetByte(rd) = [rd |-> Reader(p), value |-> b]
  <2>1. op \in Byte /\ record = <<op, b>> \o p BY <1>3, <1>6 DEF op
  <2>2. b \in Byte BY <1>4
  <2>3. p \in Seq(Byte) BY <1>9
  <2> DEFINE bytes == <<op, b>> \o p
  <2>4. bytes \in Seq(Byte) /\ bytes # <<>> /\ bytes[1] = op BY <2>1, <2>2, <2>3, FlaggedFrame
  <2>5. GetByte(Skip(Reader(bytes), 1)) = [rd |-> Reader(p), value |-> b]
    BY <2>1, <2>2, <2>3, FlaggedFrame
  <2>6. bytes = record BY <2>1
  <2> HIDE DEF bytes
  <2>7. QED BY <2>4, <2>5, <2>6
<1> DEFINE flags == GetByte(rd)
           body0 == Get(flags.rd, layout)
           got == [body0 EXCEPT !.value = Join(@, [resumed |-> r])]
<1>11. flags.value = b /\ flags.rd = Reader(p) BY <1>10
<1> HIDE DEF rd
<1>12. body0 = [rd |-> Reader(<<>>), value |-> h] BY <1>9, <1>11
<1>13. DecodeAck(rd) = Frame("ack", got) BY <1>7, <1>11
<1> HIDE DEF flags, body0, r
<1>14. got.rd = Reader(<<>>) /\ got.value = Join(h, [resumed |-> r]) BY <1>12
<1> HIDE DEF got
<1>15. Frame("ack", got) = Join([kind |-> "ack"], got.value) BY <1>14, EndOk, FrameOk
<1>16. Frame("ack", got) = f BY <1>4, <1>8, <1>14, <1>15
<1>17. QED BY <1>5, <1>10, <1>13, <1>16 DEF SameServer, record, op

-----------------------------------------------------------------------------
(* Presence events and single messages. *)

(* The count of one. *)
LEMMA UvarintOne == Uvarint[1] = <<1>>
<1>1. 1 \in 0 .. 127 OBVIOUS
<1>2. QED BY <1>1, UvarintShort, Zenon

(* A presence action survives its byte. *)
LEMMA Actions ==
    ASSUME NEW action \in PresenceAction
    PROVE  /\ presenceActionByte(action) \in Byte
           /\ presenceActionFrom(presenceActionByte(action)) = action
BY DEF PresenceAction, presenceActionByte, presenceActionFrom, Byte

(* A frame of an opcode, an action and the fields of a layout. *)
LEMMA ActionFrame ==
    ASSUME NEW f, NEW op \in Byte, NEW layout, NEW D, Lays(layout, D), Typed(f, D),
           f.action \in PresenceAction, NEW kind
    PROVE  LET record == <<op, presenceActionByte(f.action)>> \o Put(f, layout)
           IN  /\ record \in Seq(Byte) /\ record # <<>> /\ record[1] = op
               /\ DecodeAction(kind, Skip(Reader(record), 1), layout) =
                     Join([kind |-> kind], Join(Only(f, D), [action |-> f.action]))
<1> DEFINE b == presenceActionByte(f.action)
           p == Put(f, layout)
           record == <<op, b>> \o p
           h == Only(f, D)
           rd == Skip(Reader(record), 1)
<1>1. b \in Byte /\ presenceActionFrom(b) = f.action BY Actions
<1>2. p \in Seq(Byte) /\ Get(Reader(p), layout) = [rd |-> Reader(<<>>), value |-> h]
  BY ReadWhole DEF Only
<1> HIDE DEF b, p, h
<1>3. /\ record \in Seq(Byte) /\ record # <<>> /\ record[1] = op
      /\ GetByte(rd) = [rd |-> Reader(p), value |-> b]
  BY <1>1, <1>2, FlaggedFrame
<1> HIDE DEF record, rd
<1> DEFINE one == GetByte(rd)
           body0 == Get(one.rd, layout)
           got == [body0 EXCEPT !.value = Join(@, [action |-> presenceActionFrom(one.value)])]
<1>4. one.rd = Reader(p) /\ one.value = b BY <1>3
<1>5. body0 = [rd |-> Reader(<<>>), value |-> h] BY <1>2, <1>4
<1>6. DecodeAction(kind, rd, layout) = Frame(kind, got) BY DEF DecodeAction
<1>7. got = [rd |-> Reader(<<>>), value |-> Join(h, [action |-> f.action])]
  <2> HIDE DEF one
  <2>1. presenceActionFrom(one.value) = f.action BY <1>1, <1>4
  <2> HIDE DEF body0
  <2>2. QED BY <1>5, <2>1
<1> HIDE DEF got
<1>8. DecodeAction(kind, rd, layout) = Join([kind |-> kind], Join(h, [action |-> f.action]))
  <2> DEFINE v == Join(h, [action |-> f.action])
  <2>1. got = [rd |-> Reader(<<>>), value |-> v] BY <1>7
  <2> HIDE DEF v
  <2>2. Frame(kind, got) = Join([kind |-> kind], v) BY <2>1, PlainFrame
  <2>3. QED BY <1>6, <2>2 DEF v
<1>9. QED BY <1>3, <1>8 DEF record, rd, b, p, h

(* A presence event arrives as it was sent. *)
LEMMA PresenceTrip == ASSUME NEW f \in presenceEventFrame PROVE SameServer(f, f)
<1> DEFINE layout == <<"timestamp", "channel", "clientID", "connectionID", "data", "encoding">>
           D == {"timestamp", "channel", "clientID", "connectionID", "data", "encoding"}
           op == 14
           record == <<op, presenceActionByte(f.action)>> \o Put(f, layout)
           rd == Skip(Reader(record), 1)
<1>1. Lays(layout, D) BY LayPresEvt
<1>2. Typed(f, D) BY TextTypes, NumberTypes, NumericHas DEF Typed, presenceEventFrame
<1>3. encodeServerFrame(f) = record BY EncodeServerIs DEF presenceEventFrame
<1>4. Join([kind |-> "presEvt"], Join(Only(f, D), [action |-> f.action])) = f
  BY DEF Only, Join, presenceEventFrame
<1>5. record # <<>> /\ record[1] = 14 =>
         decodeServerFrame(record) = DecodeAction("presEvt", rd, layout)
  <2> HIDE DEF record
  <2>1. QED BY DecodeServerIs
<1>6. op \in Byte /\ f.action \in PresenceAction BY DEF Byte, presenceEventFrame
<1> HIDE DEF layout, D, op
<1>7. /\ record \in Seq(Byte) /\ record # <<>> /\ record[1] = op
      /\ DecodeAction("presEvt", rd, layout) =
            Join([kind |-> "presEvt"], Join(Only(f, D), [action |-> f.action]))
  BY <1>1, <1>2, <1>6, ActionFrame
<1> HIDE DEF record
<1>8. decodeServerFrame(record) = f BY <1>4, <1>5, <1>7 DEF op
<1>9. QED BY <1>3, <1>7, <1>8 DEF SameServer

(* A message that is a batch arrives as it was sent. *)
LEMMA BatchTrip ==
    ASSUME NEW f, f \in [kind : {"msg"}, message : message], PlainBatch(f.message),
           f.message.members # <<>>
    PROVE  SameServer(f, f)
<1> DEFINE m == f.message
           b == Flag(m.ephemeral, 1)
           op == 19
           p == PutBatch(m)
           record == <<op, b>> \o p
           rd == Skip(Reader(record), 1)
<1>1. m \in message /\ m.ephemeral \in BOOLEAN BY DEF message
<1>2. encodeServerFrame(f) = record BY EncodeServerIs
<1>3. record # <<>> /\ record[1] = 19 =>
         decodeServerFrame(record) =
            Frame("msg", [GetBatch(GetByte(rd).rd, GetByte(rd).value) EXCEPT
                             !.value = [message |-> GetBatch(GetByte(rd).rd,
                                                             GetByte(rd).value).value]])
  <2> HIDE DEF record
  <2>1. QED BY DecodeServerIs
<1>4. m.name = <<>> /\ m.data = <<>> /\ m.encoding = <<>> BY DEF PlainBatch
<1>5. b \in Byte /\ HasBit(b, 1) = m.ephemeral BY <1>1, Bits
<1>6. op \in Byte BY DEF Byte
<1>7. [kind |-> "msg", message |-> m] = f OBVIOUS
<1>8. Join([kind |-> "msg"], [message |-> m]) = f BY <1>7 DEF Join
<1> HIDE DEF m, b, op
<1>9. p \in Seq(Byte) /\ GetBatch(Reader(p), b) = [rd |-> Reader(<<>>), value |-> m]
  <2>1. <<>> \in Seq(Byte) OBVIOUS
  <2>2. p \in Seq(Byte) /\ GetBatch(Reader(p \o <<>>), b) = [rd |-> Reader(<<>>), value |-> m]
    BY <1>1, <1>4, <1>5, <2>1, BatchPut
  <2> HIDE DEF p
  <2>3. p \o <<>> = p BY <2>2, ConcatEmptySeq
  <2>4. QED BY <2>2, <2>3
<1> HIDE DEF p
<1>10. /\ record \in Seq(Byte) /\ record # <<>> /\ record[1] = op
       /\ GetByte(rd) = [rd |-> Reader(p), value |-> b]
  BY <1>5, <1>6, <1>9, FlaggedFrame
<1> HIDE DEF record, rd
<1> DEFINE flags == GetByte(rd)
           batch == GetBatch(flags.rd, flags.value)
           got == [batch EXCEPT !.value = [message |-> batch.value]]
<1>11. flags.rd = Reader(p) /\ flags.value = b BY <1>10
<1>12. batch = [rd |-> Reader(<<>>), value |-> m] BY <1>9, <1>11
<1>13. decodeServerFrame(record) = Frame("msg", got) BY <1>3, <1>10 DEF op
<1> HIDE DEF flags, batch
<1>14. got = [rd |-> Reader(<<>>), value |-> [message |-> m]] BY <1>12
<1> HIDE DEF got
<1>15. Frame("msg", got) = Join([kind |-> "msg"], [message |-> m]) BY <1>14, PlainFrame
<1>16. QED BY <1>2, <1>8, <1>10, <1>13, <1>15 DEF SameServer

(* A msg record is one message or a bundle, by its count. *)
LEMMA DecodeMessageIs ==
    ASSUME NEW rd
    PROVE  LET count == GetUvarint(rd)
               one == GetMessage(count.rd)
               list == Messages(rd)
           IN  /\ count.value = 1 =>
                    DecodeMessage(rd) =
                       Frame("msg", [rd |-> one.rd, value |-> [message |-> one.value]])
               /\ count.value # 1 =>
                    DecodeMessage(rd) =
                       Frame("bundle",
                          [rd |-> list.rd,
                           value |-> [bundle |-> [i \in DOMAIN list.value |-> Narrow(list.value[i])],
                                      channel |-> IF list.value = <<>> THEN <<>>
                                                  ELSE Last(list.value).channel]])
BY DEF DecodeMessage, Messages

(* One message, behind its count. *)
LEMMA OneMessage ==
    ASSUME NEW m \in message, PlainBatch(m), 1 \in Uint64, NEW record,
           record = <<13, 1>> \o PutMessage(m)
    PROVE  record \in Seq(Byte) /\ decodeServerFrame(record) = [kind |-> "msg", message |-> m]
<1> DEFINE p == PutMessage(m)
           op == 13
           b == 1
           q == Uvarint[1] \o p
           rd == Skip(Reader(record), 1)
<1>1. p \in Seq(Byte) /\ GetMessage(Reader(p)) = [rd |-> Reader(<<>>), value |-> m]
  <2>1. <<>> \in Seq(Byte) OBVIOUS
  <2>2. p \in Seq(Byte) /\ GetMessage(Reader(p \o <<>>)) = [rd |-> Reader(<<>>), value |-> m]
    BY <2>1, MessagePut
  <2> HIDE DEF p
  <2>3. p \o <<>> = p BY <2>2, ConcatEmptySeq
  <2>4. QED BY <2>2, <2>3
<1> HIDE DEF p
<1>2. op \in Byte /\ b \in Byte BY DEF Byte
<1>3. Uvarint[1] = <<1>> BY UvarintOne
<1>4. <<13, 1>> \o p = <<op>> \o (<<b>> \o p) /\ <<b>> \o p \in Seq(Byte)
  <2>1. <<op, b>> \o p = <<op>> \o (<<b>> \o p) /\ <<b>> \o p \in Seq(Byte)
    <3> HIDE DEF op, b
    <3>1. QED BY <1>1, <1>2, TwoBytes
  <2>2. QED BY <2>1
<1>5. record = <<op>> \o q /\ q \in Seq(Byte)
  <2>1. q = <<b>> \o p BY <1>3
  <2>2. record = <<13, 1>> \o p BY DEF p
  <2> HIDE DEF q, op, b
  <2>3. QED BY <1>4, <2>1, <2>2
<1>6. GetUvarint(Reader(q)) = [rd |-> Reader(p), value |-> 1]
  <2>0. 1 \in Uint64 OBVIOUS
  <2> DEFINE n == 1
  <2>1. n \in Uint64 BY <2>0, Zenon DEF n
  <2> HIDE DEF n
  <2>2. GetUvarint(Reader(Uvarint[n] \o p)) = [rd |-> Reader(p), value |-> n]
    BY <2>1, <1>1, GetUvarintPut
  <2>3. QED BY <2>2 DEF n
<1> HIDE DEF q, op
<1>7. /\ <<op>> \o q \in Seq(Byte) /\ <<op>> \o q # <<>> /\ (<<op>> \o q)[1] = op
      /\ Skip(Reader(<<op>> \o q), 1) = Reader(q)
  BY <1>2, <1>5, Opened
<1>8. record \in Seq(Byte) /\ record # <<>> /\ record[1] = op /\ rd = Reader(q)
  BY <1>5, <1>7
<1>9. decodeServerFrame(record) = DecodeMessage(rd) BY <1>8, DecodeServerIs DEF op
<1> HIDE DEF rd
<1> DEFINE count == GetUvarint(rd)
           one == GetMessage(count.rd)
           got == [rd |-> one.rd, value |-> [message |-> one.value]]
<1>10. count.rd = Reader(p) /\ count.value = 1 BY <1>6, <1>8
<1>11. DecodeMessage(rd) = Frame("msg", got) BY <1>10, DecodeMessageIs
<1>12. one.rd = Reader(<<>>) /\ one.value = m BY <1>1, <1>10
<1> HIDE DEF one
<1>13. got = [rd |-> Reader(<<>>), value |-> [message |-> m]] BY <1>12
<1> HIDE DEF got
<1>14. Frame("msg", got) = Join([kind |-> "msg"], [message |-> m]) BY <1>13, PlainFrame
<1>15. Join([kind |-> "msg"], [message |-> m]) = [kind |-> "msg", message |-> m] BY DEF Join
<1>16. QED BY <1>8, <1>9, <1>11, <1>14, <1>15

-----------------------------------------------------------------------------
(* Bundles. *)

(* Giving a bundled message its channel and taking it away again changes   *)
(* nothing.                                                                *)
LEMMA WidenType ==
    ASSUME NEW m \in bundledMessage, NEW c \in Text
    PROVE  /\ Widen(m, c) \in message /\ Narrow(Widen(m, c)) = m /\ Widen(m, c).channel = c
           /\ PlainBatch(m) => PlainBatch(Widen(m, c))
<1> DEFINE R == [channel |-> c, name |-> m.name, data |-> m.data,
                 timestamp |-> m.timestamp, messageID |-> m.messageID,
                 clientID |-> m.clientID, encoding |-> m.encoding, seq |-> m.seq,
                 ephemeral |-> m.ephemeral, members |-> m.members]
<1>1. Widen(m, c) = R BY DEF Widen, bundledMessage
<1>2. R \in message BY DEF bundledMessage, message
<1>3. Narrow(R) = m BY DEF Narrow, bundledMessage
<1>4. R.channel = c /\ (PlainBatch(m) => PlainBatch(R)) BY DEF PlainBatch
<1>5. QED BY <1>1, <1>2, <1>3, <1>4

(* MessagesPut where nothing follows. *)
LEMMA MessagesWhole ==
    ASSUME NEW ms \in List(message), \A i \in DOMAIN ms : PlainBatch(ms[i])
    PROVE  /\ PutMessages(ms) \in Seq(Byte)
           /\ Messages(Reader(PutMessages(ms))) = [rd |-> Reader(<<>>), value |-> ms]
           /\ GetUvarint(Reader(PutMessages(ms))).value = Len(ms)
<1>1. <<>> \in Seq(Byte) OBVIOUS
<1> DEFINE p == PutMessages(ms)
<1>2. p \in Seq(Byte) /\ Messages(Reader(p \o <<>>)) = [rd |-> Reader(<<>>), value |-> ms]
  BY <1>1, MessagesPut
<1>3. p = Uvarint[Len(ms)] \o FlattenSeq(MessageBytes(ms)) BY DEF PutMessages
<1> HIDE DEF p
<1>4. p \o <<>> = p BY <1>2, ConcatEmptySeq
<1>5. GetUvarint(Reader(p)).value = Len(ms)
  <2> DEFINE n == Len(ms)
             flat == FlattenSeq(MessageBytes(ms))
             ss == MessageBytes(ms)
  <2>1. ms \in Seq(message) /\ n \in Uint64 BY DEF List
  <2>2. ss \in Seq(Seq(Byte)) BY <2>1, MessageBytesType
  <2>3. 0 \in Nat /\ \A i \in 1 .. Len(ss) : Len(ss[i]) >= 0
    <3>1. \A i \in 1 .. Len(ss) : ss[i] \in Seq(Byte) BY <2>2
    <3>2. \A i \in 1 .. Len(ss) : Len(ss[i]) \in Nat BY <3>1
    <3>3. QED BY <3>2
  <2>4. flat \in Seq(Byte)
    <3> HIDE DEF ss
    <3>1. FlattenSeq(ss) \in Seq(Byte) BY <2>2, <2>3, FlatLen
    <3>2. QED BY <3>1 DEF ss
  <2>5. p = Uvarint[n] \o flat BY <1>3
  <2> HIDE DEF n, flat
  <2>6. GetUvarint(Reader(Uvarint[n] \o flat)) = [rd |-> Reader(flat), value |-> n]
    BY <2>1, <2>4, GetUvarintPut
  <2>7. QED BY <2>5, <2>6 DEF n
<1>6. QED BY <1>2, <1>4, <1>5 DEF p

(* A bundle of messages, each of the channel of the bundle. *)
LEMMA BundleTrip ==
    ASSUME NEW f, f \in [kind : {"bundle"}, channel : Text, bundle : List(bundledMessage)],
           f.bundle # <<>>, \A i \in DOMAIN f.bundle : PlainBatch(f.bundle[i])
    PROVE  SameServer(f, Received(f))
<1> DEFINE c == f.channel
           bs == f.bundle
           n == Len(bs)
           ms == [i \in DOMAIN bs |-> Widen(bs[i], c)]
           record == encodeServerFrame(f)
           p == PutMessages(ms)
<1>1. bs \in Seq(bundledMessage) /\ n \in Uint64 /\ c \in Text BY DEF List
<1>2. n \in Nat /\ DOMAIN bs = 1 .. n /\ \A i \in 1 .. n : bs[i] \in bundledMessage BY <1>1
<1>3. n # 0
  <2>1. bs # <<>> OBVIOUS
  <2> HIDE DEF bs
  <2>2. QED BY <1>1, <2>1 DEF n
<1>4. \A i \in 1 .. n : PlainBatch(bs[i]) BY <1>2
<1>5. f = [kind |-> "bundle", channel |-> c, bundle |-> bs] OBVIOUS
<1>6. record = <<13>> \o (Uvarint[n] \o FlattenSeq([i \in DOMAIN bs |-> PutMessage(Widen(bs[i], c))]))
  BY EncodeBundleIs
<1>7. Received(f) = IF n = 1 THEN [kind |-> "msg", message |-> Widen(bs[1], c)] ELSE f
  BY DEF Received
<1> HIDE DEF bs, c, record
<1>8. ms = [i \in 1 .. n |-> Widen(bs[i], c)] BY <1>2
<1>9. \A i \in 1 .. n : /\ ms[i] \in message /\ ms[i].channel = c /\ Narrow(ms[i]) = bs[i]
                        /\ PlainBatch(ms[i])
  <2>1. ASSUME NEW i \in 1 .. n
        PROVE  /\ ms[i] \in message /\ ms[i].channel = c /\ Narrow(ms[i]) = bs[i]
               /\ PlainBatch(ms[i])
    <3>1. ms[i] = Widen(bs[i], c) BY <1>8
    <3>2. bs[i] \in bundledMessage /\ PlainBatch(bs[i]) BY <1>2, <1>4
    <3> HIDE DEF ms
    <3>3. /\ Widen(bs[i], c) \in message /\ Narrow(Widen(bs[i], c)) = bs[i]
          /\ Widen(bs[i], c).channel = c /\ PlainBatch(Widen(bs[i], c))
      BY <1>1, <3>2, WidenType
    <3>4. QED BY <3>1, <3>3
  <2>2. QED BY <2>1
<1>10. ms \in List(message) /\ Len(ms) = n /\ DOMAIN ms = 1 .. n
  <2>1. ms \in [1 .. n -> message] BY <1>8, <1>9
  <2> HIDE DEF ms
  <2>2. ms \in Seq(message) /\ Len(ms) = n /\ DOMAIN ms = 1 .. n BY <1>2, <2>1
  <2>3. QED BY <1>1, <2>2 DEF List
<1>11. [i \in DOMAIN bs |-> PutMessage(Widen(bs[i], c))] = MessageBytes(ms)
  BY <1>2, <1>8 DEF MessageBytes
<1>12. record = <<13>> \o p BY <1>6, <1>10, <1>11 DEF PutMessages
<1> HIDE DEF ms
<1>13. \A i \in DOMAIN ms : PlainBatch(ms[i]) BY <1>9, <1>10
<1>14. CASE n = 1
  <2> DEFINE m == ms[1]
             q == PutMessage(m)
             s == <<q>>
  <2>1. m \in message /\ PlainBatch(m) BY <1>9, <1>14
  <2>2. 1 \in Uint64 BY <1>1, <1>14
  <2>3. <<>> \in Seq(Byte) OBVIOUS
  <2>4. q \in Seq(Byte)
    <3> HIDE DEF m
    <3>1. QED BY <2>1, <2>3, MessagePut
  <2>5. MessageBytes(ms) = s BY <1>10, <1>14 DEF MessageBytes
  <2> HIDE DEF q, m
  <2>6. FlattenSeq(s) = q
    <3>1. s \in Seq(Seq(Byte)) /\ Len(s) = 1 /\ s[1] = q BY <2>4
    <3> HIDE DEF s
    <3>2. /\ Flat(s, 0) = <<>> /\ Flat(s, 1) = FlattenSeq(s)
          /\ \A k \in 1 .. 1 : Flat(s, k) = Flat(s, k - 1) \o s[k]
      BY <3>1, FlatSteps
    <3>3. 1 \in 1 .. 1 /\ 1 - 1 = 0 OBVIOUS
    <3>4. Flat(s, 1) = Flat(s, 0) \o s[1] BY <3>2, <3>3
    <3>5. <<>> \o q = q BY <2>4, ConcatEmptySeq
    <3>6. QED BY <3>1, <3>2, <3>4, <3>5
  <2>7. Uvarint[1] = <<1>> BY UvarintOne
  <2>8. p = <<1>> \o q BY <1>10, <1>14, <2>5, <2>6, <2>7 DEF PutMessages
  <2> HIDE DEF p, s
  <2>9. <<13, 1>> \o q = <<13>> \o (<<1>> \o q)
    <3> DEFINE a == 13
               b == 1
    <3>1. a \in Byte /\ b \in Byte BY DEF Byte
    <3> HIDE DEF a, b
    <3>2. <<a, b>> \o q = <<a>> \o (<<b>> \o q) BY <2>4, <3>1, TwoBytes
    <3>3. QED BY <3>2 DEF a, b
  <2>10. record = <<13, 1>> \o PutMessage(m) BY <1>12, <2>8, <2>9 DEF q
  <2>11. record \in Seq(Byte) /\ decodeServerFrame(record) = [kind |-> "msg", message |-> m]
    BY <2>1, <2>2, <2>10, OneMessage
  <2>12. m = Widen(bs[1], c) BY <1>8, <1>14 DEF m
  <2>13. Received(f) = [kind |-> "msg", message |-> m] BY <1>7, <1>14, <2>12
  <2>14. QED BY <2>11, <2>13 DEF SameServer, record
<1>15. CASE n # 1
  <2> DEFINE op == 13
             rd == Skip(Reader(record), 1)
  <2>1. /\ p \in Seq(Byte) /\ Messages(Reader(p)) = [rd |-> Reader(<<>>), value |-> ms]
        /\ GetUvarint(Reader(p)).value = Len(ms)
    BY <1>10, <1>13, MessagesWhole
  <2>2. op \in Byte /\ record = <<op>> \o p BY <1>12 DEF Byte
  <2> HIDE DEF p, op
  <2>3. /\ <<op>> \o p \in Seq(Byte) /\ <<op>> \o p # <<>> /\ (<<op>> \o p)[1] = op
        /\ Skip(Reader(<<op>> \o p), 1) = Reader(p)
    BY <2>1, <2>2, Opened
  <2>4. record \in Seq(Byte) /\ record # <<>> /\ record[1] = op /\ rd = Reader(p)
    BY <2>2, <2>3
  <2>5. decodeServerFrame(record) = DecodeMessage(rd) BY <2>4, DecodeServerIs DEF op
  <2> HIDE DEF rd
  <2> DEFINE count == GetUvarint(rd)
             list == Messages(rd)
             v == [bundle |-> [i \in DOMAIN list.value |-> Narrow(list.value[i])],
                   channel |-> IF list.value = <<>> THEN <<>> ELSE Last(list.value).channel]
             got == [rd |-> list.rd, value |-> v]
  <2>6. count.value # 1 BY <1>10, <1>15, <2>1, <2>4
  <2>7. DecodeMessage(rd) = Frame("bundle", got) BY <2>6, DecodeMessageIs
  <2>8. list.rd = Reader(<<>>) /\ list.value = ms BY <2>1, <2>4
  <2> HIDE DEF list
  <2>9. v = [bundle |-> bs, channel |-> c]
    <3>1. [i \in DOMAIN list.value |-> Narrow(list.value[i])] = bs
      <4>1. bs = [i \in 1 .. n |-> bs[i]] BY <1>1, <1>2
      <4>2. QED BY <1>9, <1>10, <2>8, <4>1
    <3>2. ms # <<>>
      <4>1. ms \in Seq(message) BY <1>10 DEF List
      <4>2. QED BY <1>3, <1>10, <4>1
    <3>3. Last(ms).channel = c
      <4>1. Last(ms) = ms[n] BY <1>10 DEF Last
      <4>2. n \in 1 .. n BY <1>2, <1>3
      <4>3. QED BY <1>9, <4>1, <4>2
    <3>4. QED BY <2>8, <3>1, <3>2, <3>3
  <2> HIDE DEF v
  <2>10. got = [rd |-> Reader(<<>>), value |-> v] BY <2>8
  <2> HIDE DEF got
  <2>11. Frame("bundle", got) = Join([kind |-> "bundle"], v) BY <2>10, PlainFrame
  <2>12. Join([kind |-> "bundle"], [bundle |-> bs, channel |-> c]) = f BY <1>5 DEF Join
  <2>13. decodeServerFrame(record) = f BY <2>5, <2>7, <2>9, <2>11, <2>12
  <2>14. QED BY <1>7, <1>15, <2>4, <2>13 DEF SameServer, record
<1>16. QED BY <1>14, <1>15

-----------------------------------------------------------------------------
(* Responses, and messages. *)

(* The responses to a history and to a fetch request. *)
Responses(kind) == [kind : {kind}, id : Uint64, channel : Text, messages : List(message),
                    flag : BOOLEAN]

(* The messages of a response are those of its channel. *)
OfChannel(ms, c) == [i \in DOMAIN ms |-> [ms[i] EXCEPT !.channel = c]]

(* The messages of a response take the channel of the response. *)
LEMMA OfChannelType ==
    ASSUME NEW ms \in List(message), NEW c \in Text, \A i \in DOMAIN ms : PlainBatch(ms[i])
    PROVE  /\ OfChannel(ms, c) \in List(message)
           /\ \A i \in DOMAIN OfChannel(ms, c) : PlainBatch(OfChannel(ms, c)[i])
<1> DEFINE n == Len(ms)
           os == OfChannel(ms, c)
<1>1. ms \in Seq(message) /\ n \in Uint64 BY DEF List
<1>2. n \in Nat /\ DOMAIN ms = 1 .. n /\ \A i \in 1 .. n : ms[i] \in message BY <1>1
<1>3. \A i \in 1 .. n : PlainBatch(ms[i]) BY <1>2
<1>4. os = [i \in 1 .. n |-> [ms[i] EXCEPT !.channel = c]] BY <1>2 DEF OfChannel
<1> HIDE DEF os, n
<1>5. ASSUME NEW i \in 1 .. n PROVE os[i] \in message /\ PlainBatch(os[i])
  <2> DEFINE m == ms[i]
             w == [m EXCEPT !.channel = c]
  <2>1. m \in message /\ PlainBatch(m) BY <1>2, <1>3
  <2>2. os[i] = w BY <1>4
  <2> HIDE DEF m
  <2>3. w \in message BY <2>1 DEF message
  <2>4. w.members = m.members /\ w.name = m.name /\ w.data = m.data /\ w.encoding = m.encoding
    BY <2>1 DEF message
  <2> HIDE DEF w
  <2>5. PlainBatch(w) BY <2>1, <2>4 DEF PlainBatch
  <2>6. QED BY <2>2, <2>3, <2>5
<1>6. os \in [1 .. n -> message] BY <1>4, <1>5
<1>7. os \in Seq(message) /\ Len(os) = n /\ DOMAIN os = 1 .. n BY <1>2, <1>6
<1>8. os \in List(message) BY <1>1, <1>7 DEF List
<1>9. \A i \in DOMAIN os : PlainBatch(os[i]) BY <1>5, <1>7
<1>10. QED BY <1>8, <1>9 DEF os

(* The bytes of a response. *)
LEMMA ResponseBytes ==
    ASSUME NEW kind \in {"histRes", "fetchRes"}, NEW f \in Responses(kind)
    PROVE  encodeServerFrame(f) =
              (<<IF kind = "histRes" THEN 17 ELSE 18, Flag(f.flag, 1)>> \o Put(f, <<"id", "channel">>))
                 \o PutMessages(OfChannel(f.messages, f.channel))
<1> DEFINE ms == f.messages
           c == f.channel
           os == OfChannel(ms, c)
<1>1. f.kind = kind /\ ms \in Seq(message) BY DEF Responses, List
<1>2. encodeServerFrame(f) = EncodeResponse(f) BY <1>1, EncodeServerIs
<1>3. Opcode[f.kind] = IF kind = "histRes" THEN 17 ELSE 18 BY <1>1, Opcodes
<1>4. DOMAIN os = DOMAIN ms /\ Len(os) = Len(ms)
  <2>1. os = [i \in DOMAIN ms |-> os[i]] BY DEF OfChannel
  <2> HIDE DEF os, ms
  <2>2. QED BY <1>1, <2>1
<1>5. [i \in DOMAIN ms |-> PutMessage([ms[i] EXCEPT !.channel = c])] = MessageBytes(os)
  BY <1>4 DEF MessageBytes, OfChannel
<1>6. EncodeResponse(f) =
         (<<Opcode[f.kind], Flag(f.flag, 1)>> \o Put(f, <<"id", "channel">>))
           \o (Uvarint[Len(ms)] \o
                 FlattenSeq([i \in DOMAIN ms |-> PutMessage([ms[i] EXCEPT !.channel = c])]))
  BY DEF EncodeResponse, PutAll
<1>7. QED BY <1>2, <1>3, <1>4, <1>5, <1>6 DEF PutMessages

(* DecodeResponse, step by step. *)
LEMMA DecodeResponseIs ==
    ASSUME NEW kind, NEW rd
    PROVE  LET flags == GetByte(rd)
               head == Get(flags.rd, <<"id", "channel">>)
               list == Messages(head.rd)
           IN  DecodeResponse(kind, rd) =
                  Frame(kind, [rd |-> list.rd,
                               value |-> Join(head.value, [flag |-> HasBit(flags.value, 1),
                                                           messages |-> list.value])])
BY DEF DecodeResponse, Messages

(* A response arrives with its channel in every message. *)
LEMMA ReceivedResponse ==
    ASSUME NEW kind \in {"histRes", "fetchRes"}, NEW f \in Responses(kind)
    PROVE  /\ Received(f) = [kind |-> kind, id |-> f.id, channel |-> f.channel, flag |-> f.flag,
                             messages |-> OfChannel(f.messages, f.channel)]
<1> DEFINE os == OfChannel(f.messages, f.channel)
<1>1. Received(f) = [f EXCEPT !.messages = os] BY DEF Received, OfChannel, Responses
<1> HIDE DEF os
<1>2. [f EXCEPT !.messages = os] =
         [kind |-> kind, id |-> f.id, channel |-> f.channel, flag |-> f.flag, messages |-> os]
  BY DEF Responses
<1>3. QED BY <1>1, <1>2 DEF os

(* A response arrives as what it is to its receiver. *)
LEMMA ResponseTrip ==
    ASSUME NEW kind \in {"histRes", "fetchRes"}, NEW f \in Responses(kind),
           \A i \in DOMAIN f.messages : PlainBatch(f.messages[i])
    PROVE  SameServer(f, Received(f))
<1> DEFINE layout == <<"id", "channel">>
           D == {"id", "channel"}
           op == IF kind = "histRes" THEN 17 ELSE 18
           b == Flag(f.flag, 1)
           os == OfChannel(f.messages, f.channel)
           p == Put(f, layout)
           q == PutMessages(os)
           w == p \o q
           h == Only(f, D)
           record == encodeServerFrame(f)
           rd == Skip(Reader(record), 1)
<1>1. Lays(layout, D) BY LayUnsub
<1>2. Typed(f, D) BY TextTypes, NumberTypes, NumericHas DEF Typed, Responses
<1>3. record = (<<op, b>> \o p) \o q BY ResponseBytes
<1>4. Received(f) = [kind |-> kind, id |-> f.id, channel |-> f.channel, flag |-> f.flag,
                     messages |-> os]
  BY ReceivedResponse
<1>5. Join([kind |-> kind], Join(h, [flag |-> f.flag, messages |-> os])) = Received(f)
  <2> HIDE DEF os
  <2>1. QED BY <1>4 DEF Only, Join
<1>6. op \in Byte BY DEF Byte
<1>7. f.flag \in BOOLEAN /\ f.messages \in List(message) /\ f.channel \in Text BY DEF Responses
<1>8. b \in Byte /\ HasBit(b, 1) = f.flag BY <1>7, Bits
<1>9. os \in List(message) /\ \A i \in DOMAIN os : PlainBatch(os[i]) BY <1>7, OfChannelType
<1>10. record # <<>> /\ record[1] = op => decodeServerFrame(record) = DecodeResponse(kind, rd)
  <2> HIDE DEF record
  <2>1. CASE kind = "histRes" BY <2>1, DecodeServerIs
  <2>2. CASE kind = "fetchRes" BY <2>2, DecodeServerIs
  <2>3. QED BY <2>1, <2>2
<1> HIDE DEF layout, D, op, b, os
<1>11. q \in Seq(Byte) /\ Messages(Reader(q)) = [rd |-> Reader(<<>>), value |-> os]
  BY <1>9, MessagesWhole
<1> HIDE DEF q
<1>12. p \in Seq(Byte) /\ Get(Reader(w), layout) = [rd |-> Reader(q), value |-> h]
  BY <1>1, <1>2, <1>11, ReadPut DEF Only
<1> HIDE DEF p, h
<1>13. record = <<op, b>> \o w /\ w \in Seq(Byte)
  <2> DEFINE x == <<op, b>>
  <2>1. x \in Seq(Byte) BY <1>6, <1>8
  <2> HIDE DEF x
  <2>2. (x \o p) \o q = x \o (p \o q) BY <1>11, <1>12, <2>1, Assoc
  <2>3. p \o q \in Seq(Byte) BY <1>11, <1>12, ConcatProperties
  <2>4. QED BY <1>3, <2>2, <2>3 DEF x
<1> HIDE DEF w, record
<1>14. /\ record \in Seq(Byte) /\ record # <<>> /\ record[1] = op
       /\ GetByte(rd) = [rd |-> Reader(w), value |-> b]
  <2> DEFINE r == <<op, b>> \o w
  <2>1. r \in Seq(Byte) /\ r # <<>> /\ r[1] = op BY <1>6, <1>8, <1>13, FlaggedFrame
  <2>2. GetByte(Skip(Reader(r), 1)) = [rd |-> Reader(w), value |-> b]
    BY <1>6, <1>8, <1>13, FlaggedFrame
  <2>3. r = record BY <1>13
  <2> HIDE DEF r
  <2>4. QED BY <2>1, <2>2, <2>3
<1> HIDE DEF rd
<1> DEFINE flags == GetByte(rd)
           head == Get(flags.rd, layout)
           list == Messages(head.rd)
           v == Join(head.value, [flag |-> HasBit(flags.value, 1), messages |-> list.value])
           got == [rd |-> list.rd, value |-> v]
<1>15. flags.rd = Reader(w) /\ flags.value = b BY <1>14
<1>16. DecodeResponse(kind, rd) = Frame(kind, got) BY DecodeResponseIs DEF layout
<1> HIDE DEF flags
<1>17. head.rd = Reader(q) /\ head.value = h BY <1>12, <1>15
<1> HIDE DEF head
<1>18. list.rd = Reader(<<>>) /\ list.value = os BY <1>11, <1>17
<1> HIDE DEF list
<1>19. v = Join(h, [flag |-> f.flag, messages |-> os])
  <2>1. HasBit(flags.value, 1) = f.flag BY <1>8, <1>15
  <2>2. QED BY <1>17, <1>18, <2>1
<1> HIDE DEF v
<1>20. got = [rd |-> Reader(<<>>), value |-> v] BY <1>18
<1> HIDE DEF got
<1>21. Frame(kind, got) = Join([kind |-> kind], v) BY <1>20, PlainFrame
<1>22. decodeServerFrame(record) = Received(f) BY <1>5, <1>10, <1>14, <1>16, <1>19, <1>21
<1>23. QED BY <1>14, <1>22 DEF SameServer, record

(* A message arrives as it was sent. *)
LEMMA MessageTrip ==
    ASSUME NEW f, f \in [kind : {"msg"}, message : message], PlainBatch(f.message), 1 \in Uint64
    PROVE  SameServer(f, f)
<1>1. CASE f.message.members # <<>> BY <1>1, BatchTrip
<1>2. CASE f.message.members = <<>>
  <2> DEFINE m == f.message
             record == encodeServerFrame(f)
  <2>1. m \in message /\ PlainBatch(m) OBVIOUS
  <2>2. record = <<13, 1>> \o PutMessage(m) BY <1>2, EncodeServerIs
  <2>3. f = [kind |-> "msg", message |-> m] OBVIOUS
  <2> HIDE DEF m, record
  <2>4. record \in Seq(Byte) /\ decodeServerFrame(record) = [kind |-> "msg", message |-> m]
    BY <2>1, <2>2, OneMessage
  <2>5. QED BY <2>3, <2>4 DEF SameServer, record
<1>3. QED BY <1>1, <1>2

-----------------------------------------------------------------------------
(* What the server sends, and what arbitrary bytes decode to. *)

(* Nil is no frame. *)
LEMMA NotNil == Nil \notin ServerFrame /\ Nil \notin ClientFrame
<1>1. Nil.kind = "nil" BY DEF Nil
<1>2. \A f \in ServerFrame : f.kind # "nil"
  BY DEF ServerFrame, connectedFrame, ackFrame, msgFrame, presenceEventFrame, errorFrame,
         pongFrame, historyResponseFrame, fetchResponseFrame
<1>3. \A f \in ClientFrame : f.kind # "nil"
  BY DEF ClientFrame, authFrame, subscribeFrame, unsubscribeFrame, publishFrame,
         presenceFrame, presenceSubscribeFrame, presenceUnsubscribeFrame, historyFrame,
         fetchFrame, pingFrame
<1>4. QED BY <1>1, <1>2, <1>3

(* If a record fits, so does the count of one. *)
LEMMA OneFits ==
    ASSUME NEW m \in message, PlainBatch(m), Len(<<13, 1>> \o PutMessage(m)) \in Uint64
    PROVE  1 \in Uint64
<1> DEFINE p == PutMessage(m)
           s == <<13, 1>>
<1>1. p \in Seq(Byte)
  <2>1. <<>> \in Seq(Byte) OBVIOUS
  <2>2. QED BY <2>1, MessagePut
<1>2. s \in Seq(Byte) /\ Len(s) = 2 BY DEF Byte
<1>3. Len(s \o p) \in Uint64 OBVIOUS
<1> HIDE DEF p, s
<1>4. Len(s \o p) = Len(s) + Len(p) /\ Len(p) \in Nat
  <2>1. s \in Seq(Byte) /\ p \in Seq(Byte) BY <1>1, <1>2
  <2>2. Len(s \o p) = Len(s) + Len(p) BY <2>1, ConcatProperties
  <2>3. Len(p) \in Nat BY <2>1, LenProperties
  <2>4. QED BY <2>2, <2>3
<1>5. Len(s \o p) >= 1 BY <1>2, <1>4
<1> DEFINE top == Values[MaxVarintLen] - 1
           l == Len(s \o p)
<1>6. Uint64 = 0 .. top /\ top \in Int
  <2>1. Uint64 = 0 .. top BY DEF Uint64
  <2> DEFINE x == Values[MaxVarintLen]
  <2>2. x \in Nat BY WireAssumption, ValuesDef
  <2> HIDE DEF x
  <2>3. x - 1 \in Int BY <2>2
  <2>4. QED BY <2>1, <2>3 DEF x
<1> HIDE DEF top, l
<1>7. l \in 0 .. top /\ l >= 1 BY <1>3, <1>5, <1>6 DEF l
<1>8. 1 \in 0 .. top BY <1>6, <1>7
<1>9. QED BY <1>6, <1>8

(* encodeServerFrame and decodeServerFrame: every frame the server may     *)
(* send, of any contents and length, decodes to what it is to its receiver.*)
THEOREM ServerTrip ==
    ASSUME NEW f \in ServerFrame, Sendable(f)
    PROVE  SameServer(f, Received(f))
<1>1. CASE f \in connectedFrame
  <2>1. Received(f) = f BY <1>1 DEF Received, connectedFrame
  <2>2. QED BY <1>1, <2>1, ConnectedTrip
<1>2. CASE f \in ackFrame
  <2>1. Received(f) = f BY <1>2 DEF Received, ackFrame
  <2>2. QED BY <1>2, <2>1, AckTrip
<1>3. CASE f \in [kind : {"msg"}, message : message]
  <2>1. Received(f) = f BY <1>3 DEF Received
  <2>2. PlainBatch(f.message) BY <1>3 DEF Sendable
  <2>3. CASE f.message.members # <<>> BY <1>3, <2>1, <2>2, <2>3, BatchTrip
  <2>4. CASE f.message.members = <<>>
    <3> DEFINE m == f.message
    <3>1. encodeServerFrame(f) = <<13, 1>> \o PutMessage(m) BY <1>3, <2>4, EncodeServerIs
    <3>2. Len(encodeServerFrame(f)) \in Uint64 BY DEF Sendable
    <3>3. m \in message /\ PlainBatch(m) BY <1>3, <2>2
    <3> HIDE DEF m
    <3>4. 1 \in Uint64 BY <3>1, <3>2, <3>3, OneFits
    <3>5. QED BY <1>3, <2>1, <2>2, <3>4, MessageTrip
  <2>5. QED BY <2>3, <2>4
<1>4. CASE f \in [kind : {"bundle"}, channel : Text, bundle : List(bundledMessage)]
  <2>1. f.bundle # <<>> /\ \A i \in DOMAIN f.bundle : PlainBatch(f.bundle[i])
    BY <1>4 DEF Sendable
  <2>2. QED BY <1>4, <2>1, BundleTrip
<1>5. CASE f \in presenceEventFrame
  <2>1. Received(f) = f BY <1>5 DEF Received, presenceEventFrame
  <2>2. QED BY <1>5, <2>1, PresenceTrip
<1>6. CASE f \in errorFrame
  <2>1. Received(f) = f BY <1>6 DEF Received, errorFrame
  <2>2. QED BY <1>6, <2>1, ErrTrip
<1>7. CASE f \in pongFrame
  <2>1. Received(f) = f BY <1>7 DEF Received, pongFrame
  <2>2. QED BY <1>7, <2>1, PongTrip
<1>8. CASE f \in Responses("histRes")
  <2>1. \A i \in DOMAIN f.messages : PlainBatch(f.messages[i])
    BY <1>8 DEF Sendable, Responses
  <2>2. "histRes" \in {"histRes", "fetchRes"} OBVIOUS
  <2>3. QED BY <1>8, <2>1, <2>2, ResponseTrip
<1>9. CASE f \in Responses("fetchRes")
  <2>1. \A i \in DOMAIN f.messages : PlainBatch(f.messages[i])
    BY <1>9 DEF Sendable, Responses
  <2>2. "fetchRes" \in {"histRes", "fetchRes"} OBVIOUS
  <2>3. QED BY <1>9, <2>1, <2>2, ResponseTrip
<1>10. QED
  BY <1>1, <1>2, <1>3, <1>4, <1>5, <1>6, <1>7, <1>8, <1>9
     DEF ServerFrame, msgFrame, Responses, historyResponseFrame, fetchResponseFrame

(* The frames that bytes decode to. *)

(* A frame is of the set its fields make, or nil. *)
LEMMA FrameIn ==
    ASSUME NEW kind, NEW got, NEW S, Join([kind |-> kind], got.value) \in S
    PROVE  Frame(kind, got) \in S \cup {Nil}
BY DEF Frame

(* The reader behind the opcode. *)
LEMMA RecordReader ==
    ASSUME NEW record \in Seq(Byte), record # <<>>
    PROVE  Skip(Reader(record), 1) \in Readers /\ record[1] \in Byte
<1>1. 1 \in 0 .. Len(Reader(record).buf) /\ Reader(record).buf = record
  BY EmptySeq DEF Reader
<1>2. Reader(record) \in Readers BY ReaderType
<1>3. QED BY <1>1, <1>2, SkipType

(* Whatever the bytes, an ack or nil. *)
LEMMA AckIn == ASSUME NEW rd \in Readers PROVE DecodeAck(rd) \in ackFrame \cup {Nil}
<1> DEFINE layout == <<"id", "seq">>
           D == {"id", "seq"}
           flags == GetByte(rd)
           body0 == Get(flags.rd, layout)
           r == IF ~HasBit(flags.value, 1) THEN "nil"
                ELSE IF HasBit(flags.value, 2) THEN "yes" ELSE "no"
           got == [body0 EXCEPT !.value = Join(@, [resumed |-> r])]
<1>1. Lays(layout, D) BY LayAck
<1>2. flags.rd \in Readers BY GetByteType
<1>3. DecodeAck(rd) = Frame("ack", got) BY DEF DecodeAck
<1>4. r \in {"nil", "yes", "no"} OBVIOUS
<1> HIDE DEF flags, r
<1> DEFINE v == body0.value
<1> HIDE DEF layout
<1>5. body0 = [rd |-> body0.rd, value |-> v] BY <1>1, <1>2, ReadType
<1>6. v = [x \in D |-> v[x]] BY <1>1, <1>2, ReadType
<1>7. Typed(v, D) BY <1>1, <1>2, ReadType
<1> HIDE DEF body0
<1>8. got.value = Join(v, [resumed |-> r]) BY <1>5
<1> HIDE DEF v, got
<1>9. v.id \in Uint64 /\ v.seq \in Uint64 BY <1>7, NumberTypes, NumericHas DEF Typed
<1>10. Join([kind |-> "ack"], Join(v, [resumed |-> r])) =
          [kind |-> "ack", id |-> v.id, resumed |-> r, seq |-> v.seq]
  BY <1>6 DEF Join
<1>11. Join([kind |-> "ack"], got.value) \in ackFrame BY <1>4, <1>8, <1>9, <1>10 DEF ackFrame
<1>12. QED BY <1>3, <1>11, FrameIn

(* Whatever the bytes, a connected frame or nil. *)
LEMMA ConnectedIn ==
    ASSUME NEW rd \in Readers
    PROVE  Frame("connected", Get(rd, <<"connectionID", "keepAliveMs", "clientID">>))
              \in connectedFrame \cup {Nil}
<1> DEFINE layout == <<"connectionID", "keepAliveMs", "clientID">>
           D == {"connectionID", "keepAliveMs", "clientID"}
           got == Get(rd, layout)
           v == got.value
<1>1. Lays(layout, D) BY LayConnected
<1> HIDE DEF layout
<1>2. v = [x \in D |-> v[x]] BY <1>1, ReadType
<1>3. Typed(v, D) BY <1>1, ReadType
<1> HIDE DEF v
<1>4. v.connectionID \in Text /\ v.keepAliveMs \in Uint64 /\ v.clientID \in Text
  BY <1>3, TextTypes, NumberTypes, NumericHas DEF Typed
<1>5. Join([kind |-> "connected"], v) =
         [kind |-> "connected", connectionID |-> v.connectionID,
          keepAliveMs |-> v.keepAliveMs, clientID |-> v.clientID]
  BY <1>2 DEF Join
<1>6. Join([kind |-> "connected"], v) \in connectedFrame BY <1>4, <1>5 DEF connectedFrame
<1>7. Join([kind |-> "connected"], got.value) \in connectedFrame BY <1>6 DEF v
<1> HIDE DEF got
<1>8. Frame("connected", got) \in connectedFrame \cup {Nil} BY <1>7, FrameIn
<1>9. QED BY <1>8 DEF got, layout

(* Whatever the bytes, an error frame or nil. *)
LEMMA ErrIn ==
    ASSUME NEW rd \in Readers
    PROVE  Frame("err", Get(rd, <<"id", "code", "message">>)) \in errorFrame \cup {Nil}
<1> DEFINE layout == <<"id", "code", "message">>
           D == {"id", "code", "message"}
           got == Get(rd, layout)
           v == got.value
<1>1. Lays(layout, D) BY LayErr
<1> HIDE DEF layout
<1>2. v = [x \in D |-> v[x]] BY <1>1, ReadType
<1>3. Typed(v, D) BY <1>1, ReadType
<1> HIDE DEF v
<1>4. v.id \in Uint64 /\ v.code \in Uint64 /\ v.message \in Text
  BY <1>3, TextTypes, NumberTypes, NumericHas DEF Typed
<1>5. Join([kind |-> "err"], v) =
         [kind |-> "err", id |-> v.id, code |-> v.code, message |-> v.message]
  BY <1>2 DEF Join
<1>6. Join([kind |-> "err"], v) \in errorFrame BY <1>4, <1>5 DEF errorFrame
<1>7. Join([kind |-> "err"], got.value) \in errorFrame BY <1>6 DEF v
<1> HIDE DEF got
<1>8. Frame("err", got) \in errorFrame \cup {Nil} BY <1>7, FrameIn
<1>9. QED BY <1>8 DEF got, layout

(* Whatever the bytes, a frame with an action or nil; an unknown action    *)
(* byte reads as enter.                                                    *)
LEMMA ActionIn ==
    ASSUME NEW kind, NEW rd \in Readers, NEW layout, NEW D, Lays(layout, D), NEW S,
           \A v, a : v = [x \in D |-> v[x]] /\ Typed(v, D) /\ a \in PresenceAction
                        => Join([kind |-> kind], Join(v, [action |-> a])) \in S
    PROVE  DecodeAction(kind, rd, layout) \in S \cup {Nil}
<1> DEFINE one == GetByte(rd)
           body0 == Get(one.rd, layout)
           a == presenceActionFrom(one.value)
           got == [body0 EXCEPT !.value = Join(@, [action |-> a])]
<1>1. one.rd \in Readers BY GetByteType
<1>2. DecodeAction(kind, rd, layout) = Frame(kind, got) BY DEF DecodeAction
<1>3. a \in PresenceAction BY DEF presenceActionFrom, PresenceAction
<1> HIDE DEF one, a
<1> DEFINE v == body0.value
<1>4. body0 = [rd |-> body0.rd, value |-> v] BY <1>1, ReadType
<1>5. v = [x \in D |-> v[x]] BY <1>1, ReadType
<1>6. Typed(v, D) BY <1>1, ReadType
<1> HIDE DEF body0
<1>7. got.value = Join(v, [action |-> a]) BY <1>4
<1> HIDE DEF v, got
<1>8. Join([kind |-> kind], Join(v, [action |-> a])) \in S BY <1>3, <1>5, <1>6
<1>9. Join([kind |-> kind], got.value) \in S BY <1>7, <1>8
<1>10. QED BY <1>2, <1>9, FrameIn

(* Whatever the bytes, a presence event or nil. *)
LEMMA PresEvtIn ==
    ASSUME NEW rd \in Readers
    PROVE  DecodeAction("presEvt", rd, <<"timestamp", "channel", "clientID", "connectionID",
                                         "data", "encoding">>) \in presenceEventFrame \cup {Nil}
<1> DEFINE layout == <<"timestamp", "channel", "clientID", "connectionID", "data", "encoding">>
           D == {"timestamp", "channel", "clientID", "connectionID", "data", "encoding"}
<1>1. Lays(layout, D) BY LayPresEvt
<1>2. ASSUME NEW v, NEW a, v = [x \in D |-> v[x]], Typed(v, D), a \in PresenceAction
      PROVE  Join([kind |-> "presEvt"], Join(v, [action |-> a])) \in presenceEventFrame
  <2>1. /\ v.timestamp \in Uint64 /\ v.channel \in Text /\ v.clientID \in Text
        /\ v.connectionID \in Text /\ v.data \in Text /\ v.encoding \in Text
    BY <1>2, TextTypes, NumberTypes, NumericHas DEF Typed
  <2>2. Join([kind |-> "presEvt"], Join(v, [action |-> a])) =
           [kind |-> "presEvt", channel |-> v.channel, action |-> a, clientID |-> v.clientID,
            connectionID |-> v.connectionID, data |-> v.data, encoding |-> v.encoding,
            timestamp |-> v.timestamp]
    BY <1>2 DEF Join
  <2>3. QED BY <1>2, <2>1, <2>2 DEF presenceEventFrame
<1> HIDE DEF layout, D
<1>3. DecodeAction("presEvt", rd, layout) \in presenceEventFrame \cup {Nil}
  BY <1>1, <1>2, ActionIn
<1>4. QED BY <1>3 DEF layout

-----------------------------------------------------------------------------
(* Whatever arrives of the server. *)

(* Whatever the bytes, a response or nil. *)
LEMMA ResponseIn ==
    ASSUME NEW kind, NEW rd \in Readers
    PROVE  DecodeResponse(kind, rd) \in Responses(kind) \cup {Nil}
<1> DEFINE layout == <<"id", "channel">>
           D == {"id", "channel"}
           flags == GetByte(rd)
           head == Get(flags.rd, layout)
           list == Messages(head.rd)
           e == HasBit(flags.value, 1)
           h == head.value
           ms == list.value
           v == Join(h, [flag |-> e, messages |-> ms])
           got == [rd |-> list.rd, value |-> v]
<1>1. Lays(layout, D) BY LayUnsub
<1>2. flags.rd \in Readers BY GetByteType
<1>3. DecodeResponse(kind, rd) = Frame(kind, got) BY DecodeResponseIs
<1>4. e \in BOOLEAN BY DEF HasBit
<1> HIDE DEF layout, e, flags
<1>5. head.rd \in Readers BY <1>1, <1>2, ReadType
<1>6. h = [x \in D |-> h[x]] BY <1>1, <1>2, ReadType
<1>7. Typed(h, D) BY <1>1, <1>2, ReadType
<1> HIDE DEF head, h
<1>8. ms \in List(message) BY <1>5, MessagesType
<1> HIDE DEF ms, list
<1>9. h.id \in Uint64 /\ h.channel \in Text BY <1>7, TextTypes, NumberTypes, NumericHas DEF Typed
<1>10. Join([kind |-> kind], v) =
          [kind |-> kind, id |-> h.id, channel |-> h.channel, messages |-> ms, flag |-> e]
  BY <1>6 DEF Join
<1> HIDE DEF v
<1>11. Join([kind |-> kind], v) \in Responses(kind) BY <1>4, <1>8, <1>9, <1>10 DEF Responses
<1>12. got.value = v OBVIOUS
<1> HIDE DEF got
<1>13. Join([kind |-> kind], got.value) \in Responses(kind) BY <1>11, <1>12
<1>14. QED BY <1>3, <1>13, FrameIn

(* A message without its channel is a bundled one. *)
LEMMA NarrowType ==
    ASSUME NEW m \in message
    PROVE  Narrow(m) \in bundledMessage
<1> DEFINE R == [name |-> m.name, data |-> m.data,
                 timestamp |-> m.timestamp, messageID |-> m.messageID,
                 clientID |-> m.clientID, encoding |-> m.encoding, seq |-> m.seq,
                 ephemeral |-> m.ephemeral, members |-> m.members]
<1>1. Narrow(m) = R BY DEF Narrow, message
<1>2. R \in bundledMessage BY DEF bundledMessage, message
<1>3. QED BY <1>1, <1>2

(* Whatever the bytes, a message, a bundle or nil. *)
LEMMA MessageIn ==
    ASSUME NEW rd \in Readers
    PROVE  DecodeMessage(rd) \in msgFrame \cup {Nil}
<1> DEFINE count == GetUvarint(rd)
           one == GetMessage(count.rd)
           list == Messages(rd)
           ms == list.value
           bs == [i \in DOMAIN ms |-> Narrow(ms[i])]
           c == IF ms = <<>> THEN <<>> ELSE Last(ms).channel
           got1 == [rd |-> one.rd, value |-> [message |-> one.value]]
           got2 == [rd |-> list.rd, value |-> [bundle |-> bs, channel |-> c]]
<1>1. count.value = 1 => DecodeMessage(rd) = Frame("msg", got1) BY DecodeMessageIs
<1>2. count.value # 1 => DecodeMessage(rd) = Frame("bundle", got2) BY DecodeMessageIs
<1>3. Frame("msg", got1) \in msgFrame \cup {Nil}
  <2>1. count.rd \in Readers BY GetUvarintType
  <2> HIDE DEF count
  <2>2. one.value \in message BY <2>1, MessageType
  <2> DEFINE m == one.value
             w == [message |-> m]
  <2>3. m \in message BY <2>2
  <2>4. got1.value = w OBVIOUS
  <2> HIDE DEF m, got1
  <2>5. Join([kind |-> "msg"], w) = [kind |-> "msg", message |-> m] BY DEF Join
  <2>6. Join([kind |-> "msg"], got1.value) \in msgFrame BY <2>3, <2>4, <2>5 DEF msgFrame
  <2>7. QED BY <2>6, FrameIn
<1>4. Frame("bundle", got2) \in msgFrame \cup {Nil}
  <2>1. ms \in List(message) BY MessagesType
  <2>2. got2.value = [bundle |-> bs, channel |-> c] OBVIOUS
  <2> HIDE DEF got2, list, ms
  <2> DEFINE n == Len(ms)
  <2>3. ms \in Seq(message) /\ n \in Nat /\ n \in Uint64 BY <2>1 DEF List
  <2>4. DOMAIN ms = 1 .. n /\ \A i \in 1 .. n : ms[i] \in message BY <2>3
  <2>5. c \in Text
    <3>1. CASE ms = <<>> BY <3>1, EmptyText
    <3>2. CASE ms # <<>>
      <4>1. n # 0 /\ Last(ms) = ms[n] BY <2>3, <3>2 DEF Last
      <4>2. n \in 1 .. n BY <2>3, <4>1
      <4>3. ms[n] \in message BY <2>4, <4>2
      <4>4. ms[n].channel \in Text BY <4>3 DEF message
      <4>5. QED BY <3>2, <4>1, <4>4
    <3>3. QED BY <3>1, <3>2
  <2> HIDE DEF n
  <2>6. bs \in List(bundledMessage)
    <3>1. \A i \in 1 .. n : Narrow(ms[i]) \in bundledMessage BY <2>4, NarrowType
    <3>2. bs \in [1 .. n -> bundledMessage] BY <2>4, <3>1
    <3> HIDE DEF bs
    <3>3. bs \in Seq(bundledMessage) /\ Len(bs) = n BY <2>3, <3>2
    <3>4. QED BY <2>3, <3>3 DEF List
  <2> HIDE DEF c, bs
  <2>7. Join([kind |-> "bundle"], [bundle |-> bs, channel |-> c]) =
           [kind |-> "bundle", channel |-> c, bundle |-> bs]
    BY DEF Join
  <2>8. Join([kind |-> "bundle"], got2.value) \in msgFrame
    BY <2>2, <2>5, <2>6, <2>7 DEF msgFrame
  <2>9. QED BY <2>8, FrameIn
<1>5. QED BY <1>1, <1>2, <1>3, <1>4

(* Whatever the bytes, a batch or nil. *)
LEMMA BatchIn ==
    ASSUME NEW rd \in Readers, NEW flags
    PROVE  LET batch == GetBatch(rd, flags)
           IN  Frame("msg", [batch EXCEPT !.value = [message |-> batch.value]])
                  \in msgFrame \cup {Nil}
<1> DEFINE batch == GetBatch(rd, flags)
           m == batch.value
           w == [message |-> m]
           got == [batch EXCEPT !.value = w]
<1>1. m \in message BY GetBatchType
<1>2. batch = [rd |-> batch.rd, value |-> m] BY GetBatchIs
<1> HIDE DEF batch
<1>3. got.value = w BY <1>2
<1> HIDE DEF m, got
<1>4. Join([kind |-> "msg"], w) = [kind |-> "msg", message |-> m] BY DEF Join
<1>5. Join([kind |-> "msg"], got.value) \in msgFrame BY <1>1, <1>3, <1>4 DEF msgFrame
<1>6. Frame("msg", got) \in msgFrame \cup {Nil} BY <1>5, FrameIn
<1>7. QED BY <1>6 DEF got, m, batch

(* decodeServerFrame: whatever the bytes, what they decode to is a well-   *)
(* typed frame of the server or nil.                                       *)
THEOREM ServerDecodes ==
    ASSUME NEW record \in Seq(Byte)
    PROVE  decodeServerFrame(record) \in ServerFrame \cup {Nil}
<1>1. CASE record = <<>> BY <1>1, DecodeServerNone
<1>2. CASE record # <<>>
  <2> DEFINE op == record[1]
             rd == Skip(Reader(record), 1)
             flags == GetByte(rd)
             batch == GetBatch(flags.rd, flags.value)
  <2>1. rd \in Readers /\ op \in Byte BY <1>2, RecordReader
  <2> HIDE DEF rd
  <2>2. flags.rd \in Readers BY <2>1, GetByteType
  <2>3. op = 11 => decodeServerFrame(record) \in connectedFrame \cup {Nil}
    BY <1>2, <2>1, DecodeServerIs, ConnectedIn DEF rd
  <2>4. op = 12 => decodeServerFrame(record) \in ackFrame \cup {Nil}
    BY <1>2, <2>1, DecodeServerIs, AckIn DEF rd
  <2>5. op = 13 => decodeServerFrame(record) \in msgFrame \cup {Nil}
    BY <1>2, <2>1, DecodeServerIs, MessageIn DEF rd
  <2>6. op = 14 => decodeServerFrame(record) \in presenceEventFrame \cup {Nil}
    BY <1>2, <2>1, DecodeServerIs, PresEvtIn DEF rd
  <2>7. op = 15 => decodeServerFrame(record) \in errorFrame \cup {Nil}
    BY <1>2, <2>1, DecodeServerIs, ErrIn DEF rd
  <2>8. op = 16 => decodeServerFrame(record) \in pongFrame \cup {Nil}
    <3>1. op = 16 => decodeServerFrame(record) = [kind |-> "pong"] BY <1>2, DecodeServerIs
    <3>2. [kind |-> "pong"] \in pongFrame BY DEF pongFrame
    <3>3. QED BY <3>1, <3>2
  <2>9. op = 17 => decodeServerFrame(record) \in historyResponseFrame \cup {Nil}
    BY <1>2, <2>1, DecodeServerIs, ResponseIn DEF rd, Responses, historyResponseFrame
  <2>10. op = 18 => decodeServerFrame(record) \in fetchResponseFrame \cup {Nil}
    BY <1>2, <2>1, DecodeServerIs, ResponseIn DEF rd, Responses, fetchResponseFrame
  <2>11. op = 19 => decodeServerFrame(record) \in msgFrame \cup {Nil}
    <3>1. op = 19 => decodeServerFrame(record) =
                        Frame("msg", [batch EXCEPT !.value = [message |-> batch.value]])
      BY <1>2, DecodeServerIs DEF rd
    <3> HIDE DEF flags
    <3>2. Frame("msg", [batch EXCEPT !.value = [message |-> batch.value]])
             \in msgFrame \cup {Nil}
      BY <2>2, BatchIn
    <3>3. QED BY <3>1, <3>2
  <2>12. op \notin 11 .. 19 => decodeServerFrame(record) = Nil BY <1>2, DecodeServerIs
  <2> HIDE DEF op
  <2>13. op \in 11 .. 19 =>
           \/ op = 11 \/ op = 12 \/ op = 13 \/ op = 14 \/ op = 15 \/ op = 16 \/ op = 17
           \/ op = 18 \/ op = 19
    OBVIOUS
  <2>14. QED
    BY <2>3, <2>4, <2>5, <2>6, <2>7, <2>8, <2>9, <2>10, <2>11, <2>12, <2>13 DEF ServerFrame
<1>3. QED BY <1>1, <1>2

-----------------------------------------------------------------------------
(* Decoding what the client sends. *)

(* The kinds of the client that the opcode of a record names. *)
Kinds(record) == {k \in DOMAIN ClientReads \cup {"pub", "pres"} :
                     record # <<>> /\ Opcode[k] = record[1]}

(* There is one for each opcode of the client and none for the others. *)
LEMMA KindsAre ==
    ASSUME NEW record, record # <<>>
    PROVE  LET op == record[1]
           IN  /\ op = 1 => Kinds(record) = {"auth"}
               /\ op = 2 => Kinds(record) = {"sub"}
               /\ op = 3 => Kinds(record) = {"unsub"}
               /\ op = 4 => Kinds(record) = {"pub"}
               /\ op = 5 => Kinds(record) = {"pres"}
               /\ op = 6 => Kinds(record) = {"presSub"}
               /\ op = 7 => Kinds(record) = {"presUnsub"}
               /\ op = 8 => Kinds(record) = {"hist"}
               /\ op = 9 => Kinds(record) = {"fetch"}
               /\ op = 10 => Kinds(record) = {"ping"}
               /\ op \notin 1 .. 10 => Kinds(record) = {}
<1> DEFINE op == record[1]
           K == {"auth", "sub", "unsub", "presSub", "presUnsub", "hist", "fetch", "ping",
                 "pub", "pres"}
<1>1. DOMAIN ClientReads \cup {"pub", "pres"} = K BY DEF ClientReads
<1>2. Kinds(record) = {k \in K : Opcode[k] = op} BY <1>1 DEF Kinds
<1> DEFINE S == {k \in K : Opcode[k] = op}
<1>3. Kinds(record) = S BY <1>2
<1> HIDE DEF op
<1>4. op = 1 => S = {"auth"} BY Opcodes
<1>5. op = 2 => S = {"sub"} BY Opcodes
<1>6. op = 3 => S = {"unsub"} BY Opcodes
<1>7. op = 4 => S = {"pub"} BY Opcodes
<1>8. op = 5 => S = {"pres"} BY Opcodes
<1>9. op = 6 => S = {"presSub"} BY Opcodes
<1>10. op = 7 => S = {"presUnsub"} BY Opcodes
<1>11. op = 8 => S = {"hist"} BY Opcodes
<1>12. op = 9 => S = {"fetch"} BY Opcodes
<1>13. op = 10 => S = {"ping"} BY Opcodes
<1>14. op \notin 1 .. 10 => S = {} BY Opcodes
<1> HIDE DEF S
<1>15. QED BY <1>3, <1>4, <1>5, <1>6, <1>7, <1>8, <1>9, <1>10, <1>11, <1>12, <1>13, <1>14 DEF op

(* The layouts the server side reads by. *)
LEMMA ClientReadsAre ==
    /\ ClientReads.auth = <<"token", "key", "clientID", "resumeConnectionID">>
    /\ ClientReads.sub = <<"id", "lastSerial", "channel">>
    /\ ClientReads.unsub = <<"id", "channel">> /\ ClientReads.presSub = <<"id", "channel">>
    /\ ClientReads.presUnsub = <<"id", "channel">>
    /\ ClientReads.hist = <<"id", "limit", "channel", "before">>
    /\ ClientReads.fetch = <<"id", "fromSerial", "channel">> /\ ClientReads.ping = <<>>
BY DEF ClientReads

(* decodeClientRecord, kind by kind. *)
LEMMA DecodeClientKind ==
    ASSUME NEW record
    PROVE  LET rd == Skip(Reader(record), 1)
           IN  /\ Kinds(record) = {} => decodeClientRecord(record) = Nil
               /\ Kinds(record) = {"pub"} => decodeClientRecord(record) = DecodePublish(rd)
               /\ Kinds(record) = {"pres"} => decodeClientRecord(record) =
                    DecodeAction("pres", rd, <<"id", "channel", "data", "encoding">>)
               /\ Kinds(record) = {"auth"} => decodeClientRecord(record) =
                    Frame("auth", Get(GetByte(rd).rd, ClientReads.auth))
               /\ \A k \in {"sub", "unsub", "presSub", "presUnsub", "hist", "fetch", "ping"} :
                    Kinds(record) = {k} =>
                       decodeClientRecord(record) = Frame(k, Get(rd, ClientReads[k]))
<1> DEFINE rd == Skip(Reader(record), 1)
           ks == Kinds(record)
           kind == CHOOSE k \in ks : TRUE
<1>1. decodeClientRecord(record) =
         CASE ks = {} -> Nil
           [] ks = {"pub"} -> DecodePublish(rd)
           [] ks = {"pres"} -> DecodeAction("pres", rd, <<"id", "channel", "data", "encoding">>)
           [] ks = {"auth"} -> Frame("auth", Get(GetByte(rd).rd, ClientReads.auth))
           [] OTHER -> Frame(kind, Get(rd, ClientReads[kind]))
  BY DEF decodeClientRecord, Kinds
<1>2. ASSUME NEW k, ks = {k} PROVE kind = k
  <2>1. k \in ks BY <1>2
  <2>2. kind \in ks BY <2>1
  <2>3. QED BY <1>2, <2>2
<1> HIDE DEF ks, kind, rd
<1>3. ASSUME NEW k \in {"sub", "unsub", "presSub", "presUnsub", "hist", "fetch", "ping"},
             ks = {k}
      PROVE  decodeClientRecord(record) = Frame(k, Get(rd, ClientReads[k]))
  <2>1. ks # {} /\ ks # {"pub"} /\ ks # {"pres"} /\ ks # {"auth"} BY <1>3
  <2>2. kind = k BY <1>2, <1>3
  <2>3. QED BY <1>1, <2>1, <2>2
<1>4. ks = {} => decodeClientRecord(record) = Nil BY <1>1
<1>5. ks = {"pub"} => decodeClientRecord(record) = DecodePublish(rd) BY <1>1
<1>6. ks = {"pres"} => decodeClientRecord(record) =
         DecodeAction("pres", rd, <<"id", "channel", "data", "encoding">>)
  BY <1>1
<1>7. ks = {"auth"} => decodeClientRecord(record) =
         Frame("auth", Get(GetByte(rd).rd, ClientReads.auth))
  BY <1>1
<1>8. QED BY <1>3, <1>4, <1>5, <1>6, <1>7 DEF ks, rd

(* decodeClientRecord, opcode by opcode. *)
LEMMA DecodeClientIs ==
    ASSUME NEW record, record # <<>>
    PROVE  LET op == record[1]
               rd == Skip(Reader(record), 1)
           IN  /\ op = 1 => decodeClientRecord(record) =
                    Frame("auth", Get(GetByte(rd).rd, <<"token", "key", "clientID",
                                                        "resumeConnectionID">>))
               /\ op = 2 => decodeClientRecord(record) =
                    Frame("sub", Get(rd, <<"id", "lastSerial", "channel">>))
               /\ op = 3 => decodeClientRecord(record) = Frame("unsub", Get(rd, <<"id", "channel">>))
               /\ op = 4 => decodeClientRecord(record) = DecodePublish(rd)
               /\ op = 5 => decodeClientRecord(record) =
                    DecodeAction("pres", rd, <<"id", "channel", "data", "encoding">>)
               /\ op = 6 => decodeClientRecord(record) =
                    Frame("presSub", Get(rd, <<"id", "channel">>))
               /\ op = 7 => decodeClientRecord(record) =
                    Frame("presUnsub", Get(rd, <<"id", "channel">>))
               /\ op = 8 => decodeClientRecord(record) =
                    Frame("hist", Get(rd, <<"id", "limit", "channel", "before">>))
               /\ op = 9 => decodeClientRecord(record) =
                    Frame("fetch", Get(rd, <<"id", "fromSerial", "channel">>))
               /\ op = 10 => decodeClientRecord(record) = Frame("ping", Get(rd, <<>>))
               /\ op \notin 1 .. 10 => decodeClientRecord(record) = Nil
<1> DEFINE op == record[1]
           rd == Skip(Reader(record), 1)
<1>1. \A k \in {"sub", "unsub", "presSub", "presUnsub", "hist", "fetch", "ping"} :
         Kinds(record) = {k} => decodeClientRecord(record) = Frame(k, Get(rd, ClientReads[k]))
  BY DecodeClientKind
<1>2. /\ Kinds(record) = {} => decodeClientRecord(record) = Nil
      /\ Kinds(record) = {"pub"} => decodeClientRecord(record) = DecodePublish(rd)
      /\ Kinds(record) = {"pres"} => decodeClientRecord(record) =
           DecodeAction("pres", rd, <<"id", "channel", "data", "encoding">>)
      /\ Kinds(record) = {"auth"} => decodeClientRecord(record) =
           Frame("auth", Get(GetByte(rd).rd, ClientReads.auth))
  BY DecodeClientKind
<1> HIDE DEF rd
<1>4. op = 1 => decodeClientRecord(record) =
         Frame("auth", Get(GetByte(rd).rd, <<"token", "key", "clientID", "resumeConnectionID">>))
  BY <1>2, KindsAre, ClientReadsAre
<1>5. op = 2 => decodeClientRecord(record) =
         Frame("sub", Get(rd, <<"id", "lastSerial", "channel">>))
  BY <1>1, KindsAre, ClientReadsAre
<1>6. op = 3 => decodeClientRecord(record) = Frame("unsub", Get(rd, <<"id", "channel">>))
  BY <1>1, KindsAre, ClientReadsAre
<1>7. op = 4 => decodeClientRecord(record) = DecodePublish(rd) BY <1>2, KindsAre
<1>8. op = 5 => decodeClientRecord(record) =
         DecodeAction("pres", rd, <<"id", "channel", "data", "encoding">>)
  BY <1>2, KindsAre
<1>9. op = 6 => decodeClientRecord(record) = Frame("presSub", Get(rd, <<"id", "channel">>))
  BY <1>1, KindsAre, ClientReadsAre
<1>10. op = 7 => decodeClientRecord(record) = Frame("presUnsub", Get(rd, <<"id", "channel">>))
  BY <1>1, KindsAre, ClientReadsAre
<1>11. op = 8 => decodeClientRecord(record) =
         Frame("hist", Get(rd, <<"id", "limit", "channel", "before">>))
  BY <1>1, KindsAre, ClientReadsAre
<1>12. op = 9 => decodeClientRecord(record) =
         Frame("fetch", Get(rd, <<"id", "fromSerial", "channel">>))
  BY <1>1, KindsAre, ClientReadsAre
<1>13. op = 10 => decodeClientRecord(record) = Frame("ping", Get(rd, <<>>))
  BY <1>1, KindsAre, ClientReadsAre
<1>14. op \notin 1 .. 10 => decodeClientRecord(record) = Nil BY <1>2, KindsAre
<1>15. QED
  BY <1>4, <1>5, <1>6, <1>7, <1>8, <1>9, <1>10, <1>11, <1>12, <1>13, <1>14 DEF rd

(* An empty record is no frame of the client. *)
LEMMA DecodeClientNone == decodeClientRecord(<<>>) = Nil
<1>1. Kinds(<<>>) = {} BY DEF Kinds
<1>2. QED BY <1>1, DecodeClientKind

-----------------------------------------------------------------------------
(* Requests of the client. *)

(* The records of S are those of a kind and typed fields D. *)
Shape(kind, D, S) ==
    /\ \A f \in S : f.kind = kind /\ Typed(f, D) /\ Join([kind |-> kind], Only(f, D)) = f
    /\ \A v : v = [x \in D |-> v[x]] /\ Typed(v, D) => Join([kind |-> kind], v) \in S

(* encodeClientFrame, kind by kind. *)
LEMMA EncodeClientIs ==
    ASSUME NEW f
    PROVE  /\ f.kind = "auth" => encodeClientFrame(f) =
                 <<1, 0>> \o Put(f, <<"token", "key", "clientID", "resumeConnectionID">>)
           /\ f.kind = "pub" => encodeClientFrame(f) = EncodePublish(f)
           /\ f.kind = "pres" => encodeClientFrame(f) =
                 <<5, presenceActionByte(f.action)>> \o Put(f, <<"id", "channel", "data", "encoding">>)
           /\ f.kind = "sub" => encodeClientFrame(f) = <<2>> \o Put(f, <<"id", "lastSerial", "channel">>)
           /\ f.kind = "unsub" => encodeClientFrame(f) = <<3>> \o Put(f, <<"id", "channel">>)
           /\ f.kind = "presSub" => encodeClientFrame(f) = <<6>> \o Put(f, <<"id", "channel">>)
           /\ f.kind = "presUnsub" => encodeClientFrame(f) = <<7>> \o Put(f, <<"id", "channel">>)
           /\ f.kind = "hist" => encodeClientFrame(f) = <<8>> \o Put(f, <<"id", "limit", "channel", "before">>)
           /\ f.kind = "fetch" => encodeClientFrame(f) = <<9>> \o Put(f, <<"id", "fromSerial", "channel">>)
           /\ f.kind = "ping" => encodeClientFrame(f) = <<10>> \o Put(f, <<>>)
<1>1. CASE f.kind = "auth" BY <1>1, Opcodes DEF encodeClientFrame, ClientLayout
<1>2. CASE f.kind = "pub" BY <1>2, Opcodes DEF encodeClientFrame, ClientLayout
<1>3. CASE f.kind = "pres" BY <1>3, Opcodes DEF encodeClientFrame, ClientLayout
<1>4. CASE f.kind = "sub" BY <1>4, Opcodes DEF encodeClientFrame, ClientLayout
<1>5. CASE f.kind = "unsub" BY <1>5, Opcodes DEF encodeClientFrame, ClientLayout
<1>6. CASE f.kind = "presSub" BY <1>6, Opcodes DEF encodeClientFrame, ClientLayout
<1>7. CASE f.kind = "presUnsub" BY <1>7, Opcodes DEF encodeClientFrame, ClientLayout
<1>8. CASE f.kind = "hist" BY <1>8, Opcodes DEF encodeClientFrame, ClientLayout
<1>9. CASE f.kind = "fetch" BY <1>9, Opcodes DEF encodeClientFrame, ClientLayout
<1>10. CASE f.kind = "ping" BY <1>10, Opcodes DEF encodeClientFrame, ClientLayout
<1>11. QED BY <1>1, <1>2, <1>3, <1>4, <1>5, <1>6, <1>7, <1>8, <1>9, <1>10

(* The frames of the client that are a kind and their fields alone. *)
LEMMA ShapeAuth == Shape("auth", {"token", "key", "clientID", "resumeConnectionID"}, authFrame)
<1> DEFINE D == {"token", "key", "clientID", "resumeConnectionID"}
<1>1. ASSUME NEW f \in authFrame
      PROVE  f.kind = "auth" /\ Typed(f, D) /\ Join([kind |-> "auth"], Only(f, D)) = f
  <2>1. Typed(f, D) BY TextTypes, NumberTypes, NumericHas DEF Typed, authFrame
  <2>2. f.kind = "auth" /\ Join([kind |-> "auth"], Only(f, D)) = f BY DEF Only, Join, authFrame
  <2>3. QED BY <2>1, <2>2
<1>2. ASSUME NEW v, v = [x \in D |-> v[x]], Typed(v, D)
      PROVE  Join([kind |-> "auth"], v) \in authFrame
  <2>1. v.token \in Text /\ v.key \in Text /\ v.clientID \in Text /\ v.resumeConnectionID \in Text
    BY <1>2, TextTypes, NumberTypes, NumericHas DEF Typed
  <2>2. Join([kind |-> "auth"], v) = [kind |-> "auth", token |-> v.token, key |-> v.key, clientID |-> v.clientID, resumeConnectionID |-> v.resumeConnectionID]
    BY <1>2 DEF Join
  <2>3. QED BY <2>1, <2>2 DEF authFrame
<1>3. QED BY <1>1, <1>2 DEF Shape

LEMMA ShapeSub == Shape("sub", {"id", "lastSerial", "channel"}, subscribeFrame)
<1> DEFINE D == {"id", "lastSerial", "channel"}
<1>1. ASSUME NEW f \in subscribeFrame
      PROVE  f.kind = "sub" /\ Typed(f, D) /\ Join([kind |-> "sub"], Only(f, D)) = f
  <2>1. Typed(f, D) BY TextTypes, NumberTypes, NumericHas DEF Typed, subscribeFrame
  <2>2. f.kind = "sub" /\ Join([kind |-> "sub"], Only(f, D)) = f BY DEF Only, Join, subscribeFrame
  <2>3. QED BY <2>1, <2>2
<1>2. ASSUME NEW v, v = [x \in D |-> v[x]], Typed(v, D)
      PROVE  Join([kind |-> "sub"], v) \in subscribeFrame
  <2>1. v.id \in Uint64 /\ v.lastSerial \in Uint64 /\ v.channel \in Text
    BY <1>2, TextTypes, NumberTypes, NumericHas DEF Typed
  <2>2. Join([kind |-> "sub"], v) = [kind |-> "sub", id |-> v.id, lastSerial |-> v.lastSerial, channel |-> v.channel]
    BY <1>2 DEF Join
  <2>3. QED BY <2>1, <2>2 DEF subscribeFrame
<1>3. QED BY <1>1, <1>2 DEF Shape

LEMMA ShapeUnsub == Shape("unsub", {"id", "channel"}, unsubscribeFrame)
<1> DEFINE D == {"id", "channel"}
<1>1. ASSUME NEW f \in unsubscribeFrame
      PROVE  f.kind = "unsub" /\ Typed(f, D) /\ Join([kind |-> "unsub"], Only(f, D)) = f
  <2>1. Typed(f, D) BY TextTypes, NumberTypes, NumericHas DEF Typed, unsubscribeFrame
  <2>2. f.kind = "unsub" /\ Join([kind |-> "unsub"], Only(f, D)) = f BY DEF Only, Join, unsubscribeFrame
  <2>3. QED BY <2>1, <2>2
<1>2. ASSUME NEW v, v = [x \in D |-> v[x]], Typed(v, D)
      PROVE  Join([kind |-> "unsub"], v) \in unsubscribeFrame
  <2>1. v.id \in Uint64 /\ v.channel \in Text
    BY <1>2, TextTypes, NumberTypes, NumericHas DEF Typed
  <2>2. Join([kind |-> "unsub"], v) = [kind |-> "unsub", id |-> v.id, channel |-> v.channel]
    BY <1>2 DEF Join
  <2>3. QED BY <2>1, <2>2 DEF unsubscribeFrame
<1>3. QED BY <1>1, <1>2 DEF Shape

LEMMA ShapePresSub == Shape("presSub", {"id", "channel"}, presenceSubscribeFrame)
<1> DEFINE D == {"id", "channel"}
<1>1. ASSUME NEW f \in presenceSubscribeFrame
      PROVE  f.kind = "presSub" /\ Typed(f, D) /\ Join([kind |-> "presSub"], Only(f, D)) = f
  <2>1. Typed(f, D) BY TextTypes, NumberTypes, NumericHas DEF Typed, presenceSubscribeFrame
  <2>2. f.kind = "presSub" /\ Join([kind |-> "presSub"], Only(f, D)) = f BY DEF Only, Join, presenceSubscribeFrame
  <2>3. QED BY <2>1, <2>2
<1>2. ASSUME NEW v, v = [x \in D |-> v[x]], Typed(v, D)
      PROVE  Join([kind |-> "presSub"], v) \in presenceSubscribeFrame
  <2>1. v.id \in Uint64 /\ v.channel \in Text
    BY <1>2, TextTypes, NumberTypes, NumericHas DEF Typed
  <2>2. Join([kind |-> "presSub"], v) = [kind |-> "presSub", id |-> v.id, channel |-> v.channel]
    BY <1>2 DEF Join
  <2>3. QED BY <2>1, <2>2 DEF presenceSubscribeFrame
<1>3. QED BY <1>1, <1>2 DEF Shape

LEMMA ShapePresUnsub == Shape("presUnsub", {"id", "channel"}, presenceUnsubscribeFrame)
<1> DEFINE D == {"id", "channel"}
<1>1. ASSUME NEW f \in presenceUnsubscribeFrame
      PROVE  f.kind = "presUnsub" /\ Typed(f, D) /\ Join([kind |-> "presUnsub"], Only(f, D)) = f
  <2>1. Typed(f, D) BY TextTypes, NumberTypes, NumericHas DEF Typed, presenceUnsubscribeFrame
  <2>2. f.kind = "presUnsub" /\ Join([kind |-> "presUnsub"], Only(f, D)) = f BY DEF Only, Join, presenceUnsubscribeFrame
  <2>3. QED BY <2>1, <2>2
<1>2. ASSUME NEW v, v = [x \in D |-> v[x]], Typed(v, D)
      PROVE  Join([kind |-> "presUnsub"], v) \in presenceUnsubscribeFrame
  <2>1. v.id \in Uint64 /\ v.channel \in Text
    BY <1>2, TextTypes, NumberTypes, NumericHas DEF Typed
  <2>2. Join([kind |-> "presUnsub"], v) = [kind |-> "presUnsub", id |-> v.id, channel |-> v.channel]
    BY <1>2 DEF Join
  <2>3. QED BY <2>1, <2>2 DEF presenceUnsubscribeFrame
<1>3. QED BY <1>1, <1>2 DEF Shape

LEMMA ShapeHist == Shape("hist", {"id", "limit", "channel", "before"}, historyFrame)
<1> DEFINE D == {"id", "limit", "channel", "before"}
<1>1. ASSUME NEW f \in historyFrame
      PROVE  f.kind = "hist" /\ Typed(f, D) /\ Join([kind |-> "hist"], Only(f, D)) = f
  <2>1. Typed(f, D) BY TextTypes, NumberTypes, NumericHas DEF Typed, historyFrame
  <2>2. f.kind = "hist" /\ Join([kind |-> "hist"], Only(f, D)) = f BY DEF Only, Join, historyFrame
  <2>3. QED BY <2>1, <2>2
<1>2. ASSUME NEW v, v = [x \in D |-> v[x]], Typed(v, D)
      PROVE  Join([kind |-> "hist"], v) \in historyFrame
  <2>1. v.id \in Uint64 /\ v.limit \in Uint64 /\ v.channel \in Text /\ v.before \in Uint64
    BY <1>2, TextTypes, NumberTypes, NumericHas DEF Typed
  <2>2. Join([kind |-> "hist"], v) = [kind |-> "hist", id |-> v.id, limit |-> v.limit, channel |-> v.channel, before |-> v.before]
    BY <1>2 DEF Join
  <2>3. QED BY <2>1, <2>2 DEF historyFrame
<1>3. QED BY <1>1, <1>2 DEF Shape

LEMMA ShapeFetch == Shape("fetch", {"id", "fromSerial", "channel"}, fetchFrame)
<1> DEFINE D == {"id", "fromSerial", "channel"}
<1>1. ASSUME NEW f \in fetchFrame
      PROVE  f.kind = "fetch" /\ Typed(f, D) /\ Join([kind |-> "fetch"], Only(f, D)) = f
  <2>1. Typed(f, D) BY TextTypes, NumberTypes, NumericHas DEF Typed, fetchFrame
  <2>2. f.kind = "fetch" /\ Join([kind |-> "fetch"], Only(f, D)) = f BY DEF Only, Join, fetchFrame
  <2>3. QED BY <2>1, <2>2
<1>2. ASSUME NEW v, v = [x \in D |-> v[x]], Typed(v, D)
      PROVE  Join([kind |-> "fetch"], v) \in fetchFrame
  <2>1. v.id \in Uint64 /\ v.fromSerial \in Uint64 /\ v.channel \in Text
    BY <1>2, TextTypes, NumberTypes, NumericHas DEF Typed
  <2>2. Join([kind |-> "fetch"], v) = [kind |-> "fetch", id |-> v.id, fromSerial |-> v.fromSerial, channel |-> v.channel]
    BY <1>2 DEF Join
  <2>3. QED BY <2>1, <2>2 DEF fetchFrame
<1>3. QED BY <1>1, <1>2 DEF Shape

LEMMA ShapePing == Shape("ping", {}, pingFrame)
<1>1. ASSUME NEW f \in pingFrame
      PROVE  f.kind = "ping" /\ Typed(f, {}) /\ Join([kind |-> "ping"], Only(f, {})) = f
  BY DEF Typed, Only, Join, pingFrame
<1>2. ASSUME NEW v, v = [x \in {} |-> v[x]], Typed(v, {})
      PROVE  Join([kind |-> "ping"], v) \in pingFrame
  BY <1>2 DEF Join, pingFrame
<1>3. QED BY <1>1, <1>2 DEF Shape

(* A read of the fields of S yields one of S or nil. *)
LEMMA ShapeIn ==
    ASSUME NEW kind, NEW layout, NEW D, NEW S, Shape(kind, D, S), Lays(layout, D),
           NEW rd \in Readers
    PROVE  Frame(kind, Get(rd, layout)) \in S \cup {Nil}
<1> DEFINE got == Get(rd, layout)
           v == got.value
<1>1. v = [x \in D |-> v[x]] BY ReadType
<1>2. Typed(v, D) BY ReadType
<1> HIDE DEF v
<1>3. Join([kind |-> kind], v) \in S BY <1>1, <1>2 DEF Shape
<1>4. Join([kind |-> kind], got.value) \in S BY <1>3 DEF v
<1> HIDE DEF got
<1>5. Frame(kind, got) \in S \cup {Nil} BY <1>4, FrameIn
<1>6. QED BY <1>5 DEF got

(* What is written of a frame of S is read as that frame. *)
LEMMA ShapePut ==
    ASSUME NEW kind, NEW layout, NEW D, NEW S, Shape(kind, D, S), Lays(layout, D),
           NEW f \in S
    PROVE  /\ Put(f, layout) \in Seq(Byte)
           /\ Frame(kind, Get(Reader(Put(f, layout)), layout)) = f
<1> DEFINE p == Put(f, layout)
           h == Only(f, D)
           got == Get(Reader(p), layout)
<1>1. Typed(f, D) /\ Join([kind |-> kind], h) = f BY DEF Shape
<1>2. p \in Seq(Byte) /\ got = [rd |-> Reader(<<>>), value |-> h]
  BY <1>1, ReadWhole DEF Only
<1> HIDE DEF h, got
<1>3. Frame(kind, got) = Join([kind |-> kind], h) BY <1>2, PlainFrame
<1>4. QED BY <1>1, <1>2, <1>3 DEF got

(* The bytes of f decode to f. *)
SameClient(f) ==
    encodeClientFrame(f) \in Seq(Byte) /\ decodeClientRecord(encodeClientFrame(f)) = f

(* A frame of an opcode and the fields of a layout. *)
LEMMA ShapeTrip ==
    ASSUME NEW kind, NEW layout, NEW D, NEW S, Shape(kind, D, S), Lays(layout, D),
           NEW f \in S, NEW op \in Byte
    PROVE  LET record == <<op>> \o Put(f, layout)
           IN  /\ record \in Seq(Byte) /\ record # <<>> /\ record[1] = op
               /\ Frame(kind, Get(Skip(Reader(record), 1), layout)) = f
<1> DEFINE p == Put(f, layout)
           r == <<op>> \o p
<1>1. p \in Seq(Byte) /\ Frame(kind, Get(Reader(p), layout)) = f BY ShapePut
<1> HIDE DEF p
<1>3. r \in Seq(Byte) /\ r # <<>> /\ r[1] = op /\ Skip(Reader(r), 1) = Reader(p)
  BY <1>1, Opened
<1> HIDE DEF r
<1>4. QED BY <1>1, <1>3 DEF r, p

(* A subscribe frame arrives as it was sent. *)
LEMMA SubTrip == ASSUME NEW f \in subscribeFrame PROVE SameClient(f)
<1> DEFINE layout == <<"id", "lastSerial", "channel">>
           D == {"id", "lastSerial", "channel"}
           op == 2
           record == encodeClientFrame(f)
           r == <<op>> \o Put(f, layout)
<1>1. Shape("sub", D, subscribeFrame) /\ Lays(layout, D) BY ShapeSub, LaySub
<1>2. f.kind = "sub" BY <1>1 DEF Shape
<1>3. record = r BY <1>2, EncodeClientIs
<1> HIDE DEF record
<1>4. record # <<>> /\ record[1] = op =>
         decodeClientRecord(record) = Frame("sub", Get(Skip(Reader(record), 1), layout))
  BY DecodeClientIs
<1>5. op \in Byte BY DEF Byte
<1> HIDE DEF layout, D, op
<1>6. /\ r \in Seq(Byte) /\ r # <<>> /\ r[1] = op
      /\ Frame("sub", Get(Skip(Reader(r), 1), layout)) = f
  BY <1>1, <1>5, ShapeTrip
<1> HIDE DEF r
<1>7. QED BY <1>3, <1>4, <1>6 DEF SameClient, record

(* So does an unsubscribe frame. *)
LEMMA UnsubTrip == ASSUME NEW f \in unsubscribeFrame PROVE SameClient(f)
<1> DEFINE layout == <<"id", "channel">>
           D == {"id", "channel"}
           op == 3
           record == encodeClientFrame(f)
           r == <<op>> \o Put(f, layout)
<1>1. Shape("unsub", D, unsubscribeFrame) /\ Lays(layout, D) BY ShapeUnsub, LayUnsub
<1>2. f.kind = "unsub" BY <1>1 DEF Shape
<1>3. record = r BY <1>2, EncodeClientIs
<1> HIDE DEF record
<1>4. record # <<>> /\ record[1] = op =>
         decodeClientRecord(record) = Frame("unsub", Get(Skip(Reader(record), 1), layout))
  BY DecodeClientIs
<1>5. op \in Byte BY DEF Byte
<1> HIDE DEF layout, D, op
<1>6. /\ r \in Seq(Byte) /\ r # <<>> /\ r[1] = op
      /\ Frame("unsub", Get(Skip(Reader(r), 1), layout)) = f
  BY <1>1, <1>5, ShapeTrip
<1> HIDE DEF r
<1>7. QED BY <1>3, <1>4, <1>6 DEF SameClient, record

(* So does a presence subscribe frame. *)
LEMMA PresSubTrip == ASSUME NEW f \in presenceSubscribeFrame PROVE SameClient(f)
<1> DEFINE layout == <<"id", "channel">>
           D == {"id", "channel"}
           op == 6
           record == encodeClientFrame(f)
           r == <<op>> \o Put(f, layout)
<1>1. Shape("presSub", D, presenceSubscribeFrame) /\ Lays(layout, D) BY ShapePresSub, LayUnsub
<1>2. f.kind = "presSub" BY <1>1 DEF Shape
<1>3. record = r BY <1>2, EncodeClientIs
<1> HIDE DEF record
<1>4. record # <<>> /\ record[1] = op =>
         decodeClientRecord(record) = Frame("presSub", Get(Skip(Reader(record), 1), layout))
  BY DecodeClientIs
<1>5. op \in Byte BY DEF Byte
<1> HIDE DEF layout, D, op
<1>6. /\ r \in Seq(Byte) /\ r # <<>> /\ r[1] = op
      /\ Frame("presSub", Get(Skip(Reader(r), 1), layout)) = f
  BY <1>1, <1>5, ShapeTrip
<1> HIDE DEF r
<1>7. QED BY <1>3, <1>4, <1>6 DEF SameClient, record

(* So does a presence unsubscribe frame. *)
LEMMA PresUnsubTrip == ASSUME NEW f \in presenceUnsubscribeFrame PROVE SameClient(f)
<1> DEFINE layout == <<"id", "channel">>
           D == {"id", "channel"}
           op == 7
           record == encodeClientFrame(f)
           r == <<op>> \o Put(f, layout)
<1>1. Shape("presUnsub", D, presenceUnsubscribeFrame) /\ Lays(layout, D) BY ShapePresUnsub, LayUnsub
<1>2. f.kind = "presUnsub" BY <1>1 DEF Shape
<1>3. record = r BY <1>2, EncodeClientIs
<1> HIDE DEF record
<1>4. record # <<>> /\ record[1] = op =>
         decodeClientRecord(record) = Frame("presUnsub", Get(Skip(Reader(record), 1), layout))
  BY DecodeClientIs
<1>5. op \in Byte BY DEF Byte
<1> HIDE DEF layout, D, op
<1>6. /\ r \in Seq(Byte) /\ r # <<>> /\ r[1] = op
      /\ Frame("presUnsub", Get(Skip(Reader(r), 1), layout)) = f
  BY <1>1, <1>5, ShapeTrip
<1> HIDE DEF r
<1>7. QED BY <1>3, <1>4, <1>6 DEF SameClient, record

(* So does a history request. *)
LEMMA HistTrip == ASSUME NEW f \in historyFrame PROVE SameClient(f)
<1> DEFINE layout == <<"id", "limit", "channel", "before">>
           D == {"id", "limit", "channel", "before"}
           op == 8
           record == encodeClientFrame(f)
           r == <<op>> \o Put(f, layout)
<1>1. Shape("hist", D, historyFrame) /\ Lays(layout, D) BY ShapeHist, LayHist
<1>2. f.kind = "hist" BY <1>1 DEF Shape
<1>3. record = r BY <1>2, EncodeClientIs
<1> HIDE DEF record
<1>4. record # <<>> /\ record[1] = op =>
         decodeClientRecord(record) = Frame("hist", Get(Skip(Reader(record), 1), layout))
  BY DecodeClientIs
<1>5. op \in Byte BY DEF Byte
<1> HIDE DEF layout, D, op
<1>6. /\ r \in Seq(Byte) /\ r # <<>> /\ r[1] = op
      /\ Frame("hist", Get(Skip(Reader(r), 1), layout)) = f
  BY <1>1, <1>5, ShapeTrip
<1> HIDE DEF r
<1>7. QED BY <1>3, <1>4, <1>6 DEF SameClient, record

(* So does a fetch request. *)
LEMMA FetchTrip == ASSUME NEW f \in fetchFrame PROVE SameClient(f)
<1> DEFINE layout == <<"id", "fromSerial", "channel">>
           D == {"id", "fromSerial", "channel"}
           op == 9
           record == encodeClientFrame(f)
           r == <<op>> \o Put(f, layout)
<1>1. Shape("fetch", D, fetchFrame) /\ Lays(layout, D) BY ShapeFetch, LayFetch
<1>2. f.kind = "fetch" BY <1>1 DEF Shape
<1>3. record = r BY <1>2, EncodeClientIs
<1> HIDE DEF record
<1>4. record # <<>> /\ record[1] = op =>
         decodeClientRecord(record) = Frame("fetch", Get(Skip(Reader(record), 1), layout))
  BY DecodeClientIs
<1>5. op \in Byte BY DEF Byte
<1> HIDE DEF layout, D, op
<1>6. /\ r \in Seq(Byte) /\ r # <<>> /\ r[1] = op
      /\ Frame("fetch", Get(Skip(Reader(r), 1), layout)) = f
  BY <1>1, <1>5, ShapeTrip
<1> HIDE DEF r
<1>7. QED BY <1>3, <1>4, <1>6 DEF SameClient, record

(* So does a ping. *)
LEMMA PingTrip == ASSUME NEW f \in pingFrame PROVE SameClient(f)
<1> DEFINE layout == <<>>
           D == {}
           op == 10
           record == encodeClientFrame(f)
           r == <<op>> \o Put(f, layout)
<1>1. Shape("ping", D, pingFrame) /\ Lays(layout, D) BY ShapePing, LayPing
<1>2. f.kind = "ping" BY <1>1 DEF Shape
<1>3. record = r BY <1>2, EncodeClientIs
<1> HIDE DEF record
<1>4. record # <<>> /\ record[1] = op =>
         decodeClientRecord(record) = Frame("ping", Get(Skip(Reader(record), 1), layout))
  BY DecodeClientIs
<1>5. op \in Byte BY DEF Byte
<1> HIDE DEF layout, D, op
<1>6. /\ r \in Seq(Byte) /\ r # <<>> /\ r[1] = op
      /\ Frame("ping", Get(Skip(Reader(r), 1), layout)) = f
  BY <1>1, <1>5, ShapeTrip
<1> HIDE DEF r
<1>7. QED BY <1>3, <1>4, <1>6 DEF SameClient, record

(* So does an auth frame, behind its version byte. *)
LEMMA AuthTrip == ASSUME NEW f \in authFrame PROVE SameClient(f)
<1> DEFINE layout == <<"token", "key", "clientID", "resumeConnectionID">>
           D == {"token", "key", "clientID", "resumeConnectionID"}
           op == 1
           b == 0
           record == encodeClientFrame(f)
           p == Put(f, layout)
           r == <<op, b>> \o p
<1>1. Shape("auth", D, authFrame) /\ Lays(layout, D) BY ShapeAuth, LayAuth
<1>2. f.kind = "auth" BY <1>1 DEF Shape
<1>3. record = r BY <1>2, EncodeClientIs
<1> HIDE DEF record
<1>4. record # <<>> /\ record[1] = op =>
         decodeClientRecord(record) =
            Frame("auth", Get(GetByte(Skip(Reader(record), 1)).rd, layout))
  BY DecodeClientIs
<1>5. op \in Byte /\ b \in Byte BY DEF Byte
<1> HIDE DEF layout, D, op, b
<1>6. p \in Seq(Byte) /\ Frame("auth", Get(Reader(p), layout)) = f BY <1>1, ShapePut
<1> HIDE DEF p
<1>7. /\ r \in Seq(Byte) /\ r # <<>> /\ r[1] = op
      /\ GetByte(Skip(Reader(r), 1)) = [rd |-> Reader(p), value |-> b]
  BY <1>5, <1>6, FlaggedFrame
<1> HIDE DEF r
<1> DEFINE one == GetByte(Skip(Reader(record), 1))
<1>8. one.rd = Reader(p) BY <1>3, <1>7
<1> HIDE DEF one
<1>9. Frame("auth", Get(one.rd, layout)) = f BY <1>6, <1>8
<1>10. QED BY <1>3, <1>4, <1>7, <1>9 DEF SameClient, record, one

(* So does a presence frame. *)
LEMMA PresTrip == ASSUME NEW f \in presenceFrame PROVE SameClient(f)
<1> DEFINE layout == <<"id", "channel", "data", "encoding">>
           D == {"id", "channel", "data", "encoding"}
           op == 5
           record == <<op, presenceActionByte(f.action)>> \o Put(f, layout)
           rd == Skip(Reader(record), 1)
<1>1. Lays(layout, D) BY LayPres
<1>2. Typed(f, D) BY TextTypes, NumberTypes, NumericHas DEF Typed, presenceFrame
<1>3. encodeClientFrame(f) = record BY EncodeClientIs DEF presenceFrame
<1>4. Join([kind |-> "pres"], Join(Only(f, D), [action |-> f.action])) = f
  BY DEF Only, Join, presenceFrame
<1>5. record # <<>> /\ record[1] = 5 =>
         decodeClientRecord(record) = DecodeAction("pres", rd, layout)
  <2> HIDE DEF record
  <2>1. QED BY DecodeClientIs
<1>6. op \in Byte /\ f.action \in PresenceAction BY DEF Byte, presenceFrame
<1> HIDE DEF layout, D, op
<1>7. /\ record \in Seq(Byte) /\ record # <<>> /\ record[1] = op
      /\ DecodeAction("pres", rd, layout) =
            Join([kind |-> "pres"], Join(Only(f, D), [action |-> f.action]))
  BY <1>1, <1>2, <1>6, ActionFrame
<1> HIDE DEF record
<1>8. decodeClientRecord(record) = f BY <1>4, <1>5, <1>7 DEF op
<1>9. QED BY <1>3, <1>7, <1>8 DEF SameClient

(* Whatever the bytes, a presence frame or nil. *)
LEMMA PresIn ==
    ASSUME NEW rd \in Readers
    PROVE  DecodeAction("pres", rd, <<"id", "channel", "data", "encoding">>)
              \in presenceFrame \cup {Nil}
<1> DEFINE layout == <<"id", "channel", "data", "encoding">>
           D == {"id", "channel", "data", "encoding"}
<1>1. Lays(layout, D) BY LayPres
<1>2. ASSUME NEW v, NEW a, v = [x \in D |-> v[x]], Typed(v, D), a \in PresenceAction
      PROVE  Join([kind |-> "pres"], Join(v, [action |-> a])) \in presenceFrame
  <2>1. v.id \in Uint64 /\ v.channel \in Text /\ v.data \in Text /\ v.encoding \in Text
    BY <1>2, TextTypes, NumberTypes, NumericHas DEF Typed
  <2>2. Join([kind |-> "pres"], Join(v, [action |-> a])) =
           [kind |-> "pres", channel |-> v.channel, action |-> a, data |-> v.data,
            encoding |-> v.encoding, id |-> v.id]
    BY <1>2 DEF Join
  <2>3. QED BY <1>2, <2>1, <2>2 DEF presenceFrame
<1> HIDE DEF layout, D
<1>3. DecodeAction("pres", rd, layout) \in presenceFrame \cup {Nil} BY <1>1, <1>2, ActionIn
<1>4. QED BY <1>3 DEF layout

-----------------------------------------------------------------------------
(* Publishes, and every request. *)

(* The fields of a publish before its members. *)
PublishFields == {"id", "channel", "name", "data", "encoding", "messageID"}

(* DecodePublish: fields, the reserved slot, members. *)
LEMMA DecodePublishIs ==
    ASSUME NEW rd
    PROVE  LET flags == GetByte(rd)
               head == Get(flags.rd, <<"id", "channel", "name", "data", "encoding", "messageID">>)
               reserved == GetUvarint(head.rd)
               list == Members(reserved.rd)
           IN  DecodePublish(rd) =
                  Frame("pub", [rd |-> list.rd,
                                value |-> Join(head.value, [ephemeral |-> HasBit(flags.value, 1),
                                                            members |-> list.value])])
BY DEF DecodePublish, Members

(* What is read makes a publish frame. *)
LEMMA PublishJoin ==
    ASSUME NEW h, h = [x \in PublishFields |-> h[x]], Typed(h, PublishFields),
           NEW e \in BOOLEAN, NEW ms \in List(wireMember)
    PROVE  /\ Join([kind |-> "pub"], Join(h, [ephemeral |-> e, members |-> ms])) \in publishFrame
           /\ Join([kind |-> "pub"], Join(h, [ephemeral |-> e, members |-> ms])) =
                 [kind |-> "pub", channel |-> h.channel, name |-> h.name, data |-> h.data,
                  members |-> ms, ephemeral |-> e, messageID |-> h.messageID,
                  encoding |-> h.encoding, id |-> h.id]
<1>1. /\ h.id \in Uint64 /\ h.channel \in Text /\ h.name \in Text /\ h.data \in Text
      /\ h.encoding \in Text /\ h.messageID \in Text
  BY TextTypes, NumberTypes, NumericHas DEF Typed, PublishFields
<1>2. Join([kind |-> "pub"], Join(h, [ephemeral |-> e, members |-> ms])) =
         [kind |-> "pub", channel |-> h.channel, name |-> h.name, data |-> h.data,
          members |-> ms, ephemeral |-> e, messageID |-> h.messageID,
          encoding |-> h.encoding, id |-> h.id]
  BY DEF Join, PublishFields
<1>3. QED BY <1>1, <1>2 DEF publishFrame

(* Whatever the bytes, a publish frame or nil. *)
LEMMA PublishIn ==
    ASSUME NEW rd \in Readers
    PROVE  DecodePublish(rd) \in publishFrame \cup {Nil}
<1> DEFINE layout == <<"id", "channel", "name", "data", "encoding", "messageID">>
           flags == GetByte(rd)
           head == Get(flags.rd, layout)
           reserved == GetUvarint(head.rd)
           list == Members(reserved.rd)
           e == HasBit(flags.value, 1)
           h == head.value
           ms == list.value
           v == Join(h, [ephemeral |-> e, members |-> ms])
           got == [rd |-> list.rd, value |-> v]
<1>1. Lays(layout, PublishFields) BY LayPublish DEF PublishFields
<1>2. flags.rd \in Readers BY GetByteType
<1>3. DecodePublish(rd) = Frame("pub", got) BY DecodePublishIs
<1>4. e \in BOOLEAN BY DEF HasBit
<1> HIDE DEF layout, e, flags
<1>5. head.rd \in Readers BY <1>1, <1>2, ReadType
<1>6. h = [x \in PublishFields |-> h[x]] BY <1>1, <1>2, ReadType
<1>7. Typed(h, PublishFields) BY <1>1, <1>2, ReadType
<1> HIDE DEF head, h
<1>8. reserved.rd \in Readers BY <1>5, GetUvarintType
<1> HIDE DEF reserved
<1>9. ms \in List(wireMember) BY <1>8, MembersType
<1> HIDE DEF ms, list
<1>10. Join([kind |-> "pub"], v) \in publishFrame BY <1>4, <1>6, <1>7, <1>9, PublishJoin
<1> HIDE DEF v
<1>11. got.value = v OBVIOUS
<1> HIDE DEF got
<1>12. Join([kind |-> "pub"], got.value) \in publishFrame BY <1>10, <1>11
<1>13. QED BY <1>3, <1>12, FrameIn

(* A publish arrives as it was sent, the reserved slot skipped. *)
LEMMA PubTrip == ASSUME NEW f \in publishFrame PROVE SameClient(f)
<1> DEFINE layout == <<"id", "channel", "name", "data", "encoding", "messageID">>
           D == PublishFields
           op == 4
           b == Flag(f.ephemeral, 1)
           ms == f.members
           zero == 0
           p == Put(f, layout)
           u == Uvarint[zero]
           q == PutAll(ms, PutMember)
           t == u \o q
           w == p \o t
           h == Only(f, D)
           record == encodeClientFrame(f)
           rd == Skip(Reader(record), 1)
<1>1. Lays(layout, D) BY LayPublish DEF PublishFields
<1>2. Typed(f, D) BY TextTypes, NumberTypes, NumericHas DEF Typed, PublishFields, publishFrame
<1>3. record = ((<<op, b>> \o p) \o u) \o q
  BY EncodeClientIs, Opcodes, ZenonT(60) DEF EncodePublish, publishFrame
<1>4. f.ephemeral \in BOOLEAN /\ ms \in List(wireMember) BY DEF publishFrame
<1>5. b \in Byte /\ HasBit(b, 1) = f.ephemeral BY <1>4, Bits
<1>6. Join([kind |-> "pub"], Join(h, [ephemeral |-> f.ephemeral, members |-> ms])) = f
  BY DEF Join, Only, PublishFields, publishFrame
<1>7. record # <<>> /\ record[1] = op => decodeClientRecord(record) = DecodePublish(rd)
  <2> HIDE DEF record
  <2>1. QED BY DecodeClientIs
<1>8. op \in Byte BY DEF Byte
<1>9. zero \in Uint64 BY Uint64Type
<1> HIDE DEF layout, D, op, b, ms, zero
<1>10. q \in Seq(Byte) /\ Members(Reader(q)) = [rd |-> Reader(<<>>), value |-> ms]
  <2>1. <<>> \in Seq(Byte) OBVIOUS
  <2>2. q \in Seq(Byte) /\ Members(Reader(q \o <<>>)) = [rd |-> Reader(<<>>), value |-> ms]
    BY <1>4, <2>1, MembersPut
  <2> HIDE DEF q
  <2>3. q \o <<>> = q BY <2>2, ConcatEmptySeq
  <2>4. QED BY <2>2, <2>3
<1> HIDE DEF q
<1>11. u \in Seq(Byte)
  <2>1. zero \in Nat BY DEF zero
  <2>2. Varint(u) BY <2>1, UvarintWhole
  <2>3. QED BY <2>2 DEF Varint
<1>12. GetUvarint(Reader(t)) = [rd |-> Reader(q), value |-> zero] BY <1>9, <1>10, GetUvarintPut
<1> HIDE DEF u
<1>13. t \in Seq(Byte) BY <1>10, <1>11, ConcatProperties
<1>14. record = <<op, b>> \o w /\ w \in Seq(Byte) /\ p \in Seq(Byte)
  <2> DEFINE x == <<op, b>>
  <2>1. x \in Seq(Byte) BY <1>5, <1>8
  <2>2. p \in Seq(Byte) BY <1>1, <1>2, ReadWhole
  <2> HIDE DEF x, p
  <2>3. x \o p \in Seq(Byte) BY <2>1, <2>2, ConcatProperties
  <2> DEFINE y == x \o p
  <2>4. y \in Seq(Byte) BY <2>3
  <2> HIDE DEF y
  <2>5. (y \o u) \o q = y \o (u \o q) BY <1>10, <1>11, <2>4, Assoc
  <2>6. (x \o p) \o t = x \o (p \o t) BY <1>13, <2>1, <2>2, Assoc
  <2>7. p \o t \in Seq(Byte) BY <1>13, <2>2, ConcatProperties
  <2>8. QED BY <1>3, <2>2, <2>5, <2>6, <2>7 DEF x, y
<1> HIDE DEF t
<1>15. Get(Reader(w), layout) = [rd |-> Reader(t), value |-> h]
  BY <1>1, <1>2, <1>13, ReadPut DEF Only
<1> HIDE DEF p, h, w, record
<1>16. /\ record \in Seq(Byte) /\ record # <<>> /\ record[1] = op
       /\ GetByte(rd) = [rd |-> Reader(w), value |-> b]
  <2> DEFINE r == <<op, b>> \o w
  <2>1. r \in Seq(Byte) /\ r # <<>> /\ r[1] = op BY <1>5, <1>8, <1>14, FlaggedFrame
  <2>2. GetByte(Skip(Reader(r), 1)) = [rd |-> Reader(w), value |-> b]
    BY <1>5, <1>8, <1>14, FlaggedFrame
  <2>3. r = record BY <1>14
  <2> HIDE DEF r
  <2>4. QED BY <2>1, <2>2, <2>3
<1> HIDE DEF rd
<1> DEFINE flags == GetByte(rd)
           head == Get(flags.rd, layout)
           reserved == GetUvarint(head.rd)
           list == Members(reserved.rd)
           v == Join(head.value, [ephemeral |-> HasBit(flags.value, 1), members |-> list.value])
           got == [rd |-> list.rd, value |-> v]
<1>17. flags.rd = Reader(w) /\ flags.value = b BY <1>16
<1>18. DecodePublish(rd) = Frame("pub", got) BY DecodePublishIs DEF layout
<1> HIDE DEF flags
<1>19. head.rd = Reader(t) /\ head.value = h BY <1>15, <1>17
<1> HIDE DEF head
<1>20. reserved.rd = Reader(q) BY <1>12, <1>19
<1> HIDE DEF reserved
<1>21. list.rd = Reader(<<>>) /\ list.value = ms BY <1>10, <1>20
<1> HIDE DEF list
<1>22. v = Join(h, [ephemeral |-> f.ephemeral, members |-> ms])
  <2>1. HasBit(flags.value, 1) = f.ephemeral BY <1>5, <1>17
  <2>2. QED BY <1>19, <1>21, <2>1
<1> HIDE DEF v
<1>23. got = [rd |-> Reader(<<>>), value |-> v] BY <1>21
<1> HIDE DEF got
<1>24. Frame("pub", got) = Join([kind |-> "pub"], v) BY <1>23, PlainFrame
<1>25. decodeClientRecord(record) = f BY <1>6, <1>7, <1>16, <1>18, <1>22, <1>24
<1>26. QED BY <1>16, <1>25 DEF SameClient, record

(* encodeClientFrame and decodeClientRecord: every frame the client may    *)
(* send, of any contents and length, decodes to itself.                    *)
THEOREM ClientTrip == ASSUME NEW f \in ClientFrame PROVE SameClient(f)
BY SubTrip, UnsubTrip, PresSubTrip, PresUnsubTrip, HistTrip, FetchTrip, PingTrip, AuthTrip,
   PresTrip, PubTrip DEF ClientFrame

(* decodeClientRecord: whatever the bytes, what they decode to is a well-  *)
(* typed frame of the client or nil.                                       *)
THEOREM ClientDecodes ==
    ASSUME NEW record \in Seq(Byte)
    PROVE  decodeClientRecord(record) \in ClientFrame \cup {Nil}
<1>1. CASE record = <<>> BY <1>1, DecodeClientNone
<1>2. CASE record # <<>>
  <2> DEFINE op == record[1]
             rd == Skip(Reader(record), 1)
             flags == GetByte(rd)
             d == decodeClientRecord(record)
  <2>1. rd \in Readers /\ op \in Byte BY <1>2, RecordReader
  <2>2. flags.rd \in Readers
    <3> HIDE DEF rd
    <3>1. QED BY <2>1, GetByteType
  <2>3. op = 1 => d = Frame("auth", Get(flags.rd, <<"token", "key", "clientID",
                                                    "resumeConnectionID">>))
    BY <1>2, DecodeClientIs
  <2> HIDE DEF flags
  <2>4. op = 1 => d \in authFrame \cup {Nil} BY <2>2, <2>3, LayAuth, ShapeAuth, ShapeIn
  <2>5. op = 2 => d \in subscribeFrame \cup {Nil}
    <3>1. op = 2 => d = Frame("sub", Get(rd, <<"id", "lastSerial", "channel">>))
      BY <1>2, DecodeClientIs
    <3> HIDE DEF rd, d
    <3>2. QED BY <2>1, <3>1, LaySub, ShapeSub, ShapeIn
  <2>6. op = 3 => d \in unsubscribeFrame \cup {Nil}
    <3>1. op = 3 => d = Frame("unsub", Get(rd, <<"id", "channel">>)) BY <1>2, DecodeClientIs
    <3> HIDE DEF rd, d
    <3>2. QED BY <2>1, <3>1, LayUnsub, ShapeUnsub, ShapeIn
  <2>7. op = 4 => d \in publishFrame \cup {Nil}
    <3>1. op = 4 => d = DecodePublish(rd) BY <1>2, DecodeClientIs
    <3> HIDE DEF rd, d
    <3>2. QED BY <2>1, <3>1, PublishIn
  <2>8. op = 5 => d \in presenceFrame \cup {Nil}
    <3>1. op = 5 => d = DecodeAction("pres", rd, <<"id", "channel", "data", "encoding">>)
      BY <1>2, DecodeClientIs
    <3> HIDE DEF rd, d
    <3>2. QED BY <2>1, <3>1, PresIn
  <2>9. op = 6 => d \in presenceSubscribeFrame \cup {Nil}
    <3>1. op = 6 => d = Frame("presSub", Get(rd, <<"id", "channel">>)) BY <1>2, DecodeClientIs
    <3> HIDE DEF rd, d
    <3>2. QED BY <2>1, <3>1, LayUnsub, ShapePresSub, ShapeIn
  <2>10. op = 7 => d \in presenceUnsubscribeFrame \cup {Nil}
    <3>1. op = 7 => d = Frame("presUnsub", Get(rd, <<"id", "channel">>))
      BY <1>2, DecodeClientIs
    <3> HIDE DEF rd, d
    <3>2. QED BY <2>1, <3>1, LayUnsub, ShapePresUnsub, ShapeIn
  <2>11. op = 8 => d \in historyFrame \cup {Nil}
    <3>1. op = 8 => d = Frame("hist", Get(rd, <<"id", "limit", "channel", "before">>))
      BY <1>2, DecodeClientIs
    <3> HIDE DEF rd, d
    <3>2. QED BY <2>1, <3>1, LayHist, ShapeHist, ShapeIn
  <2>12. op = 9 => d \in fetchFrame \cup {Nil}
    <3>1. op = 9 => d = Frame("fetch", Get(rd, <<"id", "fromSerial", "channel">>))
      BY <1>2, DecodeClientIs
    <3> HIDE DEF rd, d
    <3>2. QED BY <2>1, <3>1, LayFetch, ShapeFetch, ShapeIn
  <2>13. op = 10 => d \in pingFrame \cup {Nil}
    <3>1. op = 10 => d = Frame("ping", Get(rd, <<>>)) BY <1>2, DecodeClientIs
    <3> HIDE DEF rd, d
    <3>2. QED BY <2>1, <3>1, LayPing, ShapePing, ShapeIn
  <2>14. op \notin 1 .. 10 => d = Nil BY <1>2, DecodeClientIs
  <2> HIDE DEF op, d
  <2>15. op \in 1 .. 10 =>
           \/ op = 1 \/ op = 2 \/ op = 3 \/ op = 4 \/ op = 5 \/ op = 6 \/ op = 7
           \/ op = 8 \/ op = 9 \/ op = 10
    OBVIOUS
  <2>16. d \in ClientFrame \cup {Nil}
    BY <2>4, <2>5, <2>6, <2>7, <2>8, <2>9, <2>10, <2>11, <2>12, <2>13, <2>14, <2>15
       DEF ClientFrame
  <2>17. QED BY <2>16 DEF d
<1>3. QED BY <1>1, <1>2

(* c is a and then some, which b starts with. *)
Splits(a, b, c, d) == \E x \in Seq(Byte) : c = a \o x /\ b = x \o d

(* Two ways to cut the same bytes. *)
LEMMA Levi ==
    ASSUME NEW a \in Seq(Byte), NEW b \in Seq(Byte), NEW c \in Seq(Byte), NEW d \in Seq(Byte),
           a \o b = c \o d, Len(a) <= Len(c)
    PROVE  Splits(a, b, c, d)
<1> DEFINE x == SubSeq(c, Len(a) + 1, Len(c))
<1>1. Len(a) \in Nat /\ Len(c) \in Nat /\ Len(b) \in Nat /\ Len(d) \in Nat BY LenProperties
<1>2. \A i \in 1 .. Len(a) : c[i] = a[i]
  <2>1. \A i \in 1 .. Len(a) : (a \o b)[i] = a[i]
    <3>1. \A i \in 1 .. Len(a) + Len(b) : (a \o b)[i] = IF i <= Len(a) THEN a[i] ELSE b[i - Len(a)]
      BY ConcatProperties
    <3>2. QED BY <1>1, <3>1
  <2>2. \A i \in 1 .. Len(c) : (c \o d)[i] = c[i]
    <3>1. \A i \in 1 .. Len(c) + Len(d) : (c \o d)[i] = IF i <= Len(c) THEN c[i] ELSE d[i - Len(c)]
      BY ConcatProperties
    <3>2. QED BY <1>1, <3>1
  <2>3. QED BY <1>1, <2>1, <2>2
<1>3. \A i \in 1 .. Len(c) : c[i] \in Byte BY ElementOfSeq
<1>4. x \in Seq(Byte)
  <2>1. \A i \in Len(a) + 1 .. Len(c) : c[i] \in Byte BY <1>1, <1>3
  <2>2. QED BY <1>1, <2>1, SubSeqProperties
<1>5. Len(x) = Len(c) - Len(a) /\ \A j \in 1 .. Len(x) : x[j] = c[Len(a) + j]
  <2>1. \A i \in Len(a) + 1 .. Len(c) : c[i] \in Byte BY <1>1, <1>3
  <2>2. /\ Len(x) = (IF Len(a) + 1 <= Len(c) THEN Len(c) - (Len(a) + 1) + 1 ELSE 0)
        /\ \A i \in 1 .. Len(c) - (Len(a) + 1) + 1 : x[i] = c[Len(a) + 1 + i - 1]
    BY <1>1, <2>1, SubSeqProperties
  <2> HIDE DEF x
  <2>3. Len(x) = Len(c) - Len(a) BY <1>1, <2>2
  <2>4. ASSUME NEW j \in 1 .. Len(x) PROVE x[j] = c[Len(a) + j]
    <3>1. j \in 1 .. Len(c) - (Len(a) + 1) + 1 /\ Len(a) + 1 + j - 1 = Len(a) + j
      BY <1>1, <2>3
    <3>2. QED BY <2>2, <3>1
  <2>5. QED BY <2>3, <2>4
<1> HIDE DEF x
<1>6. /\ a \o x \in Seq(Byte) /\ Len(a \o x) = Len(a) + Len(x)
      /\ \A i \in 1 .. Len(a) + Len(x) : (a \o x)[i] = IF i <= Len(a) THEN a[i] ELSE x[i - Len(a)]
  BY <1>4, ConcatProperties
<1> DEFINE w == a \o x
<1>7. Len(w) = Len(c) /\ w \in Seq(Byte) BY <1>1, <1>5, <1>6
<1>70. ASSUME NEW i \in 1 .. Len(w) PROVE w[i] = c[i]
  <2>1. i \in 1 .. Len(a) + Len(x) BY <1>6
  <2>2. w[i] = IF i <= Len(a) THEN a[i] ELSE x[i - Len(a)] BY <1>6, <2>1
  <2>3. i \in 1 .. Len(c) BY <1>7
  <2> HIDE DEF w
  <2>4. CASE i <= Len(a)
    <3>1. i \in 1 .. Len(a) BY <1>1, <2>3, <2>4
    <3>2. QED BY <1>2, <2>2, <2>4, <3>1
  <2>5. CASE ~(i <= Len(a))
    <3>1. i - Len(a) \in 1 .. Len(x) /\ Len(a) + (i - Len(a)) = i BY <1>1, <1>5, <2>3, <2>5
    <3>2. x[i - Len(a)] = c[i] BY <1>5, <3>1
    <3>3. QED BY <2>2, <2>5, <3>2
  <2>6. QED BY <2>4, <2>5
<1> HIDE DEF w
<1>71. w = c BY <1>7, <1>70, SeqEqual
<1>8. c = a \o x BY <1>71 DEF w
<1>9. a \o b = a \o (x \o d) BY <1>4, <1>8, Assoc, SMTT(60)
<1>10. x \o d \in Seq(Byte) BY <1>4, ConcatProperties
<1>11. b = x \o d BY <1>9, <1>10, CancelLeft
<1>12. QED BY <1>4, <1>8, <1>11 DEF Splits

(* A length or a text that is cut short is an error. *)
LEMMA GetSliceCut ==
    ASSUME NEW p \in Text, NEW buf \in Seq(Byte), NEW x \in Seq(Byte), x # <<>>,
           buf \o x = appendBytes(p)
    PROVE  GetSlice(Reader(buf)).rd.err
<1> DEFINE u == Uvarint[Len(p)]
           n == Len(p)
<1>1. p \in Seq(Byte) /\ n \in Uint64 /\ n \in Nat BY DEF Text, List
<1>2. u \in Seq(Byte) /\ Varint(u)
  <2>1. Varint(u) BY <1>1, UvarintWhole
  <2>2. QED BY <2>1 DEF Varint
<1>3. buf \o x = u \o p BY DEF appendBytes
<1>4. Len(buf) \in Nat /\ Len(u) \in Nat BY <1>2, LenProperties
<1> DEFINE length == GetUvarint(Reader(buf))
<1>5. length.rd.err \/ length.value > Len(length.rd.buf) => GetSlice(Reader(buf)).rd.err
  BY DEF GetSlice, Truncated
<1>6. CASE Len(buf) < Len(u)
  <2> HIDE DEF u
  <2>1. PICK y \in Seq(Byte) : u = buf \o y /\ x = y \o p
    <3>1. Len(buf) <= Len(u) BY <1>4, <1>6
    <3>2. u \in Seq(Byte) /\ p \in Seq(Byte) /\ buf \o x = u \o p BY <1>1, <1>2, <1>3
    <3>3. Splits(buf, x, u, p) BY <3>1, <3>2, Levi
    <3>4. QED BY <3>3 DEF Splits
  <2>2. \A i \in 1 .. Len(buf) : u[i] = buf[i]
    <3>1. \A i \in 1 .. Len(buf) + Len(y) :
             (buf \o y)[i] = IF i <= Len(buf) THEN buf[i] ELSE y[i - Len(buf)]
      BY ConcatProperties
    <3>2. Len(y) \in Nat BY LenProperties
    <3>3. QED BY <1>4, <2>1, <3>1, <3>2
  <2>3. \A i \in 1 .. Len(u) - 1 : u[i] >= 128 BY <1>2 DEF Varint
  <2>4. \A i \in 1 .. Len(buf) : ~(buf[i] < 128)
    <3>1. ASSUME NEW i \in 1 .. Len(buf) PROVE ~(buf[i] < 128)
      <4>1. i \in 1 .. Len(u) - 1 BY <1>4, <1>6
      <4>2. u[i] >= 128 /\ u[i] = buf[i] BY <2>2, <2>3, <4>1
      <4>3. i \in 1 .. Len(buf) OBVIOUS
      <4>4. buf[i] \in Byte BY <4>3, ElementOfSeq
      <4>5. buf[i] \in Nat BY <4>4, ByteType
      <4>6. QED BY <4>2, <4>5
    <3>2. QED BY <3>1
  <2>5. ~\E k : Ends(buf, k)
    <3>1. DOMAIN buf = 1 .. Len(buf) BY LenProperties
    <3>2. QED BY <2>4, <3>1 DEF Ends
  <2> DEFINE rd == Reader(buf)
  <2>6. rd \in Readers /\ rd.buf = buf BY ReaderType DEF Reader
  <2> HIDE DEF rd
  <2>7. GetUvarint(rd) = [rd |-> Truncated(rd), value |-> 0] BY <2>5, <2>6, GetUvarintFails
  <2>8. Truncated(rd).err BY <2>6, TruncatedType
  <2>9. length.rd.err BY <2>7, <2>8 DEF rd
  <2>10. QED BY <1>5, <2>9
<1>7. CASE ~(Len(buf) < Len(u))
  <2> HIDE DEF u
  <2>1. PICK y \in Seq(Byte) : buf = u \o y /\ p = y \o x
    <3>1. Len(u) <= Len(buf) BY <1>4, <1>7
    <3>2. u \in Seq(Byte) /\ p \in Seq(Byte) /\ u \o p = buf \o x BY <1>1, <1>2, <1>3
    <3>3. Splits(u, p, buf, x) BY <3>1, <3>2, Levi
    <3>4. QED BY <3>3 DEF Splits
  <2> HIDE DEF n
  <2>2. GetUvarint(Reader(Uvarint[n] \o y)) = [rd |-> Reader(y), value |-> n]
    BY <1>1, GetUvarintPut
  <2>3. u = Uvarint[n] BY DEF u, n
  <2>4. length = [rd |-> Reader(y), value |-> n] BY <2>1, <2>2, <2>3
  <2>5. n > Len(y)
    <3>1. Len(y \o x) = Len(y) + Len(x) BY ConcatProperties
    <3>2. Len(x) \in Nat /\ Len(y) \in Nat /\ Len(x) # 0 BY LenProperties, EmptySeq
    <3>3. n = Len(y \o x) BY <2>1 DEF n
    <3>4. QED BY <3>1, <3>2, <3>3
  <2>6. length.value = n /\ length.rd.buf = y BY <2>4 DEF Reader
  <2>7. QED BY <1>5, <2>5, <2>6
<1>8. QED BY <1>6, <1>7

-----------------------------------------------------------------------------
(* Framing: the records of a WebSocket message. *)

(* The records of payloads ps. *)
Framed(ps) == [i \in DOMAIN ps |-> FrameRecord(ps[i])]

(* The records of one WebSocket message. *)
LEMMA FramedType ==
    ASSUME NEW ps \in Seq(Text)
    PROVE  /\ Framed(ps) \in Seq(Seq(Byte)) /\ Len(Framed(ps)) = Len(ps)
           /\ \A i \in 1 .. Len(ps) : Framed(ps)[i] = appendBytes(ps[i])
           /\ \A i \in 1 .. Len(ps) : Len(Framed(ps)[i]) >= 1
<1> DEFINE F == Framed(ps)
           n == Len(ps)
<1>1. n \in Nat /\ DOMAIN ps = 1 .. n BY LenProperties
<1>2. F = [i \in 1 .. n |-> appendBytes(ps[i])] BY <1>1 DEF Framed, FrameRecord
<1>3. ASSUME NEW i \in 1 .. n PROVE appendBytes(ps[i]) \in Seq(Byte) /\ Len(appendBytes(ps[i])) >= 1
  <2> DEFINE p == ps[i]
  <2>1. p \in Text BY ElementOfSeq
  <2>2. p \in Seq(Byte) BY <2>1 DEF Text, List
  <2> HIDE DEF p
  <2>3. QED BY <2>2, AppendBytesType DEF p
<1> HIDE DEF F, n
<1>4. F \in [1 .. n -> Seq(Byte)] BY <1>2, <1>3
<1>5. F \in Seq(Seq(Byte)) /\ Len(F) = n BY <1>1, <1>4
<1>6. \A i \in 1 .. n : F[i] = appendBytes(ps[i]) /\ Len(F[i]) >= 1 BY <1>2, <1>3
<1>7. QED BY <1>5, <1>6 DEF F, n

(* The same bytes follow n sequences of ss and of tt. *)
Rest(ss, tt, n, m) ==
    \E r \in Seq(Byte) : Flat(ss, m) = Flat(ss, n) \o r /\ Flat(tt, m) = Flat(tt, n) \o r

(* The same rest with more behind it. *)
LEMMA RestMore ==
    ASSUME NEW ss, NEW tt, NEW n, NEW m, NEW k, Rest(ss, tt, n, m),
           Flat(ss, n) \in Seq(Byte), Flat(tt, n) \in Seq(Byte),
           NEW x \in Seq(Byte), Flat(ss, k) = Flat(ss, m) \o x, Flat(tt, k) = Flat(tt, m) \o x
    PROVE  Rest(ss, tt, n, k)
<1> DEFINE a == Flat(ss, n)
           b == Flat(tt, n)
<1>1. PICK r \in Seq(Byte) : Flat(ss, m) = a \o r /\ Flat(tt, m) = b \o r BY DEF Rest
<1>2. Flat(ss, k) = (a \o r) \o x /\ Flat(tt, k) = (b \o r) \o x BY <1>1
<1> HIDE DEF a, b
<1>3. a \in Seq(Byte) /\ b \in Seq(Byte) BY DEF a, b
<1>4. r \o x \in Seq(Byte) BY ConcatProperties
<1>5. (a \o r) \o x = a \o (r \o x) BY <1>3, Assoc, ZenonT(60)
<1>6. (b \o r) \o x = b \o (r \o x) BY <1>3, Assoc, ZenonT(60)
<1>7. QED BY <1>2, <1>4, <1>5, <1>6 DEF Rest, a, b

(* Sequences that agree from n to m have the same rest between them. *)
LEMMA SameRest ==
    ASSUME NEW ss \in Seq(Seq(Byte)), NEW tt \in Seq(Seq(Byte)), NEW n \in Nat, NEW m \in Nat,
           n <= m, m <= Len(ss), m <= Len(tt), \A i \in n + 1 .. m : ss[i] = tt[i]
    PROVE  Rest(ss, tt, n, m)
<1> DEFINE Good(k) == Rest(ss, tt, n, n + k)
           T == {k \in Nat : k <= m - n => Good(k)}
<1>0. Len(ss) \in Nat /\ Len(tt) \in Nat BY LenProperties
<1>1. Flat(ss, n) \in Seq(Byte) /\ Flat(tt, n) \in Seq(Byte)
  <2>1. n \in 0 .. Len(ss) /\ n \in 0 .. Len(tt) BY <1>0
  <2>2. QED BY <2>1, FlatSteps
<1>2. Good(0)
  <2>1. n + 0 = n /\ <<>> \in Seq(Byte) OBVIOUS
  <2>2. Flat(ss, n) = Flat(ss, n) \o <<>> /\ Flat(tt, n) = Flat(tt, n) \o <<>>
    BY <1>1, ConcatEmptySeq
  <2>3. Rest(ss, tt, n, n) BY <2>1, <2>2 DEF Rest
  <2>4. QED BY <2>1, <2>3
<1>3. ASSUME NEW k \in Nat, k + 1 <= m - n, Good(k) PROVE Good(k + 1)
  <2> DEFINE i == n + (k + 1)
             x == ss[i]
  <2>1. i \in 1 .. Len(ss) /\ i \in 1 .. Len(tt) /\ i - 1 = n + k /\ i \in n + 1 .. m BY <1>0, <1>3
  <2>2. tt[i] = x BY <2>1
  <2> HIDE DEF i
  <2>3. x \in Seq(Byte) BY <2>1, ElementOfSeq
  <2>4. Flat(ss, i) = Flat(ss, n + k) \o x
    <3>1. Flat(ss, i) = Flat(ss, i - 1) \o ss[i] BY <2>1, FlatSteps
    <3>2. QED BY <2>1, <3>1
  <2>5. Flat(tt, i) = Flat(tt, n + k) \o x
    <3>1. Flat(tt, i) = Flat(tt, i - 1) \o tt[i] BY <2>1, FlatSteps
    <3>2. QED BY <2>1, <2>2, <3>1
  <2> HIDE DEF x
  <2> DEFINE l == n + k
  <2>6. Rest(ss, tt, n, l) BY <1>3
  <2>7. Flat(ss, i) = Flat(ss, l) \o x /\ Flat(tt, i) = Flat(tt, l) \o x BY <2>4, <2>5
  <2> HIDE DEF l
  <2>8. Rest(ss, tt, n, i) BY <1>1, <2>3, <2>6, <2>7, RestMore
  <2>9. QED BY <2>8 DEF i
<1> HIDE DEF Good
<1>4. T \in SUBSET Nat /\ 0 \in T BY <1>2
<1>5. \A k \in T : k + 1 \in T
  <2>1. ASSUME NEW k \in T PROVE k + 1 \in T
    <3>1. k \in Nat /\ (k <= m - n => Good(k)) OBVIOUS
    <3>2. k + 1 <= m - n => Good(k + 1) BY <1>3, <3>1
    <3>3. QED BY <3>1, <3>2
  <2>2. QED BY <2>1
<1>6. T = Nat BY <1>4, <1>5, Induction
<1>7. m - n \in Nat /\ n + (m - n) = m OBVIOUS
<1>8. Good(m - n) BY <1>6, <1>7
<1>9. QED BY <1>7, <1>8 DEF Good

(* What follows the first sequences of ss. *)
LEMMA FlatRest ==
    ASSUME NEW ss \in Seq(Seq(Byte)), NEW n \in Nat, NEW m \in Nat, n <= m, m <= Len(ss)
    PROVE  /\ Flat(ss, n) \in Seq(Byte) /\ Flat(ss, m) \in Seq(Byte)
           /\ \E r \in Seq(Byte) : Flat(ss, m) = Flat(ss, n) \o r
           /\ Len(Flat(ss, n)) <= Len(Flat(ss, m))
<1>0. Len(ss) \in Nat BY LenProperties
<1>1. Flat(ss, n) \in Seq(Byte) /\ Flat(ss, m) \in Seq(Byte)
  <2>1. n \in 0 .. Len(ss) /\ m \in 0 .. Len(ss) BY <1>0
  <2>2. QED BY <2>1, FlatSteps
<1>2. Rest(ss, ss, n, m) BY SameRest
<1>3. PICK r \in Seq(Byte) : Flat(ss, m) = Flat(ss, n) \o r BY <1>2 DEF Rest
<1> DEFINE a == Flat(ss, n)
<1>4. a \in Seq(Byte) BY <1>1
<1> HIDE DEF a
<1>5. Len(a \o r) = Len(a) + Len(r) BY <1>4, ConcatProperties
<1>6. Len(a) \in Nat /\ Len(r) \in Nat BY <1>4, LenProperties
<1>7. Len(a) <= Len(a \o r) BY <1>5, <1>6
<1>8. QED BY <1>1, <1>3, <1>7 DEF a

(* The bytes are those of the records of ps, or the first of them. *)
Framing(ps, bytes) == \E t \in Seq(Byte) : bytes \o t = FlattenSeq(Framed(ps))

(* How many records of ps are whole in the bytes. *)
Whole(ps, bytes, k) ==
    /\ k \in 0 .. Len(ps) /\ Len(Flat(Framed(ps), k)) <= Len(bytes)
    /\ k < Len(ps) => Len(bytes) < Len(Flat(Framed(ps), k + 1))

(* The first n records are payloads of ps. *)
Found(ps, found) == Len(found) <= Len(ps) /\ \A i \in 1 .. Len(found) : found[i] = ps[i]

(* The splitter has found the first payloads and stands behind their records *)
(* or at one that is not whole.                                            *)
Progress(ps, bytes, found, rd) ==
    /\ Found(ps, found)
    /\ ~rd.err => bytes = Flat(Framed(ps), Len(found)) \o rd.buf
    /\ rd.err => Whole(ps, bytes, Len(found))

(* Finding the next record. *)
LEMMA FoundMore ==
    ASSUME NEW ps \in Seq(Text), NEW found \in Seq(Seq(Byte)), Found(ps, found),
           Len(found) < Len(ps)
    PROVE  LET more == Append(found, ps[Len(found) + 1])
           IN  more \in Seq(Seq(Byte)) /\ Len(more) = Len(found) + 1 /\ Found(ps, more)
<1> DEFINE k == Len(found)
           p == ps[k + 1]
           more == Append(found, p)
<1>1. k \in Nat /\ Len(ps) \in Nat BY LenProperties
<1>2. k + 1 \in 1 .. Len(ps) BY <1>1
<1>3. p \in Seq(Byte)
  <2>1. p \in Text BY <1>2, ElementOfSeq
  <2> HIDE DEF p
  <2>2. QED BY <2>1 DEF Text, List
<1> HIDE DEF p
<1>4. /\ more \in Seq(Seq(Byte)) /\ Len(more) = k + 1
      /\ \A i \in 1 .. k : more[i] = found[i]
      /\ more[k + 1] = p
  BY <1>3, AppendProperties
<1> HIDE DEF more
<1>5. ASSUME NEW i \in 1 .. k + 1 PROVE more[i] = ps[i]
  <2>1. CASE i \in 1 .. k BY <1>4, <2>1 DEF Found
  <2>2. CASE i = k + 1 BY <1>4, <2>2 DEF p
  <2>3. QED BY <1>1, <2>1, <2>2
<1>6. Found(ps, more) BY <1>1, <1>2, <1>4, <1>5 DEF Found
<1>7. QED BY <1>4, <1>6 DEF more, p

(* Behind k records, with bytes left, there is another, whole or cut. *)
LEMMA NextRecord ==
    ASSUME NEW ps \in Seq(Text), NEW bytes \in Seq(Byte), Framing(ps, bytes),
           NEW k \in Nat, k <= Len(ps), NEW buf \in Seq(Byte), buf # <<>>,
           bytes = Flat(Framed(ps), k) \o buf
    PROVE  /\ k < Len(ps)
           /\ \/ \E y \in Seq(Byte) : /\ buf = appendBytes(ps[k + 1]) \o y
                                      /\ bytes = Flat(Framed(ps), k + 1) \o y
              \/ /\ GetSlice(Reader(buf)).rd.err
                 /\ Whole(ps, bytes, k)
<1> DEFINE F == Framed(ps)
           N == Len(ps)
           G == Flat(F, k)
           p == ps[k + 1]
           fr == appendBytes(p)
<1>1. F \in Seq(Seq(Byte)) /\ Len(F) = N /\ \A i \in 1 .. N : F[i] = appendBytes(ps[i])
  BY FramedType
<1>2. N \in Nat BY LenProperties
<1>3. PICK t \in Seq(Byte) : bytes \o t = FlattenSeq(F) BY DEF Framing
<1>4. FlattenSeq(F) = Flat(F, N) BY <1>1, FlatSteps
<1>40. ps \in Seq(Text) OBVIOUS
<1> HIDE DEF F, N
<1>5. G \in Seq(Byte) /\ Flat(F, N) \in Seq(Byte)
  <2>1. k <= N BY DEF N
  <2>2. QED BY <1>1, <1>2, <2>1, FlatRest
<1>6. bytes = G \o buf BY DEF F
<1> DEFINE all == Flat(F, N)
<1>7. all = (G \o buf) \o t BY <1>3, <1>4, <1>6
<1> HIDE DEF G
<1>8. (G \o buf) \o t = G \o (buf \o t) BY <1>5, Assoc, SMTT(60)
<1>9. buf \o t \in Seq(Byte) /\ Len(buf \o t) = Len(buf) + Len(t) BY ConcatProperties
<1>10. Len(buf) \in Nat /\ Len(t) \in Nat /\ Len(buf) # 0 BY LenProperties, EmptySeq
<1>11. k < N
  <2>1. SUFFICES ASSUME k = N PROVE FALSE BY <1>2 DEF N
  <2>2. G = G \o (buf \o t) BY <1>7, <1>8, <2>1 DEF G
  <2>3. G \o <<>> = G BY <1>5, ConcatEmptySeq
  <2>4. <<>> \in Seq(Byte) OBVIOUS
  <2>5. G \o <<>> = G \o (buf \o t) BY <2>2, <2>3
  <2>6. <<>> = buf \o t BY <1>5, <1>9, <2>4, <2>5, CancelLeft
  <2>7. Len(buf \o t) = 0 BY <2>6, EmptySeq
  <2>8. QED BY <1>9, <1>10, <2>7
<1>12. k + 1 \in 1 .. N /\ (k + 1) - 1 = k BY <1>2, <1>11
<1>13. p \in Text /\ fr \in Seq(Byte) /\ fr = F[k + 1]
  <2>1. k + 1 \in 1 .. Len(ps) BY <1>12 DEF N
  <2>2. p \in Text BY <1>40, <2>1, ElementOfSeq
  <2>3. fr = F[k + 1] BY <1>1, <1>12
  <2> HIDE DEF p
  <2>4. p \in Seq(Byte) BY <2>2 DEF Text, List
  <2>5. fr \in Seq(Byte) BY <2>4, AppendBytesType
  <2>6. QED BY <2>2, <2>3, <2>5
<1> DEFINE H == Flat(F, k + 1)
<1>14. H = G \o fr
  <2>1. k + 1 \in 1 .. Len(F) BY <1>1, <1>12
  <2>2. \A i \in 1 .. Len(F) : Flat(F, i) = Flat(F, i - 1) \o F[i] BY <1>1, FlatSteps
  <2>3. Flat(F, k + 1) = Flat(F, (k + 1) - 1) \o F[k + 1] BY <2>1, <2>2
  <2>4. QED BY <1>12, <1>13, <2>3 DEF G
<1>15. PICK r \in Seq(Byte) : all = H \o r
  <2> DEFINE l == k + 1
  <2>1. l \in Nat /\ l <= N /\ N <= Len(F) BY <1>1, <1>2, <1>12
  <2> HIDE DEF l
  <2>2. \E r \in Seq(Byte) : Flat(F, N) = Flat(F, l) \o r BY <1>1, <1>2, <2>1, FlatRest
  <2>3. QED BY <2>2 DEF l
<1> HIDE DEF fr, H, all
<1>150. fr \in Seq(Byte) BY <1>13
<1>151. G \in Seq(Byte) BY <1>5
<1>16. (G \o fr) \o r = G \o (fr \o r) BY <1>150, <1>151, Assoc, ZenonT(60)
<1>17. fr \o r \in Seq(Byte) BY <1>13, ConcatProperties
<1>18. G \o (buf \o t) = G \o (fr \o r) BY <1>7, <1>8, <1>14, <1>15, <1>16
<1>19. buf \o t = fr \o r BY <1>5, <1>9, <1>17, <1>18, CancelLeft
<1>20. Len(fr) \in Nat /\ Len(G) \in Nat BY <1>5, <1>13, LenProperties
<1>21. CASE Len(fr) <= Len(buf)
  <2>1. fr \o r = buf \o t BY <1>19
  <2>2. Splits(fr, r, buf, t) BY <1>13, <1>21, <2>1, Levi
  <2>3. PICK y \in Seq(Byte) : buf = fr \o y BY <2>2 DEF Splits
  <2>4. (G \o fr) \o y = G \o (fr \o y) BY <1>150, <1>151, Assoc, ZenonT(60)
  <2>5. bytes = H \o y BY <1>6, <1>14, <2>3, <2>4
  <2>6. \E z \in Seq(Byte) : buf = appendBytes(ps[k + 1]) \o z /\ bytes = Flat(Framed(ps), k + 1) \o z
    BY <2>3, <2>5 DEF H, F, fr, p
  <2>7. k < Len(ps) BY <1>11 DEF N
  <2>8. QED BY <2>6, <2>7
<1>22. CASE ~(Len(fr) <= Len(buf))
  <2>1. Len(buf) <= Len(fr) BY <1>10, <1>20, <1>22
  <2>2. Splits(buf, t, fr, r) BY <1>13, <1>19, <2>1, Levi
  <2>3. PICK x \in Seq(Byte) : fr = buf \o x BY <2>2 DEF Splits
  <2>4. x # <<>>
    <3>1. buf \o <<>> = buf BY ConcatEmptySeq
    <3>2. x = <<>> => Len(fr) = Len(buf) BY <2>3, <3>1
    <3>3. QED BY <1>10, <1>20, <1>22, <3>2
  <2>5. buf \o x = appendBytes(p) BY <2>3 DEF fr
  <2> HIDE DEF p
  <2>6. GetSlice(Reader(buf)).rd.err BY <1>13, <2>4, <2>5, GetSliceCut
  <2>7. Len(G \o buf) = Len(G) + Len(buf) BY <1>5, ConcatProperties
  <2>8. Len(G \o fr) = Len(G) + Len(fr) BY <1>5, <1>13, ConcatProperties
  <2>9. Len(G) <= Len(bytes) /\ Len(bytes) < Len(H)
    BY <1>6, <1>10, <1>14, <1>20, <1>22, <2>7, <2>8
  <2>10. k \in 0 .. N BY <1>2, <1>11
  <2>11. Whole(ps, bytes, k) BY <2>9, <2>10 DEF Whole, N, F, G, H
  <2>12. k < Len(ps) BY <1>11 DEF N
  <2>13. QED BY <2>6, <2>11, <2>12
<1>23. QED BY <1>21, <1>22

(* A step of the splitter. *)
LEMMA SplitStep ==
    ASSUME NEW ps \in Seq(Text), NEW bytes \in Seq(Byte), Framing(ps, bytes),
           NEW found \in Seq(Seq(Byte)), NEW rd \in Readers,
           Progress(ps, bytes, found, rd), ~rd.err, rd.buf # <<>>
    PROVE  LET one == GetSlice(rd)
           IN  Progress(ps, bytes, IF one.rd.err THEN found ELSE Append(found, one.value), one.rd)
<1> DEFINE k == Len(found)
           buf == rd.buf
           p == ps[k + 1]
           F == Framed(ps)
           one == GetSlice(rd)
<1>1. rd = Reader(buf) /\ buf \in Seq(Byte) BY DEF Readers, Reader
<1>2. bytes = Flat(Framed(ps), k) \o buf /\ Found(ps, found) BY DEF Progress
<1>3. k \in Nat /\ k <= Len(ps) BY <1>2, LenProperties DEF Found
<1>4. buf # <<>> OBVIOUS
<1> HIDE DEF buf, k
<1>5. /\ k < Len(ps)
      /\ \/ \E y \in Seq(Byte) : /\ buf = appendBytes(ps[k + 1]) \o y
                                 /\ bytes = Flat(Framed(ps), k + 1) \o y
         \/ /\ GetSlice(Reader(buf)).rd.err
            /\ Whole(ps, bytes, k)
  BY <1>1, <1>2, <1>3, <1>4, NextRecord, ZenonT(60)
<1>6. CASE \E y \in Seq(Byte) : /\ buf = appendBytes(ps[k + 1]) \o y
                                /\ bytes = Flat(Framed(ps), k + 1) \o y
  <2>1. PICK y \in Seq(Byte) : buf = appendBytes(p) \o y /\ bytes = Flat(F, k + 1) \o y
    BY <1>6
  <2>2. p \in Text
    <3>1. Len(ps) \in Nat BY LenProperties
    <3>2. k + 1 \in 1 .. Len(ps) BY <1>3, <1>5, <3>1
    <3>3. QED BY <3>2, ElementOfSeq
  <2>20. /\ Append(found, p) \in Seq(Seq(Byte)) /\ Len(Append(found, p)) = k + 1
         /\ Found(ps, Append(found, p))
    BY <1>2, <1>5, FoundMore DEF k
  <2> HIDE DEF p, F
  <2>3. GetSlice(Reader(appendBytes(p) \o y)) = [rd |-> Reader(y), value |-> p]
    BY <2>2, GetSlicePut
  <2>4. one = [rd |-> Reader(y), value |-> p] BY <1>1, <2>1, <2>3
  <2>5. ~Reader(y).err /\ Reader(y).buf = y BY DEF Reader
  <2> DEFINE more == Append(found, p)
  <2>6. Len(more) = k + 1 /\ Found(ps, more) BY <2>20
  <2> HIDE DEF more
  <2>7. bytes = Flat(Framed(ps), Len(more)) \o Reader(y).buf BY <2>1, <2>5, <2>6 DEF F
  <2>8. Progress(ps, bytes, more, Reader(y)) BY <2>5, <2>6, <2>7 DEF Progress
  <2>9. one.rd = Reader(y) /\ one.value = p BY <2>4
  <2>10. (IF one.rd.err THEN found ELSE Append(found, one.value)) = more
    BY <2>5, <2>9 DEF more
  <2>11. QED BY <2>8, <2>9, <2>10
<1>7. CASE GetSlice(Reader(buf)).rd.err /\ Whole(ps, bytes, k)
  <2>1. one.rd.err BY <1>1, <1>7
  <2>2. Progress(ps, bytes, found, one.rd) BY <1>2, <1>7, <2>1 DEF Progress, k
  <2>3. QED BY <2>1, <2>2
<1>8. QED BY <1>5, <1>6, <1>7

(* The splitter ends with every record that is whole. *)
LEMMA SplitDone ==
    ASSUME NEW ps \in Seq(Text), NEW bytes \in Seq(Byte),
           NEW found \in Seq(Seq(Byte)), NEW rd \in Readers,
           Progress(ps, bytes, found, rd), rd.err \/ rd.buf = <<>>
    PROVE  Found(ps, found) /\ Whole(ps, bytes, Len(found))
<1> DEFINE k == Len(found)
           F == Framed(ps)
           G == Flat(F, k)
<1>1. Found(ps, found) BY DEF Progress
<1>2. k \in Nat /\ k <= Len(ps) /\ Len(ps) \in Nat BY <1>1, LenProperties DEF Found
<1>3. CASE rd.err BY <1>1, <1>3 DEF Progress
<1>4. CASE ~rd.err
  <2>1. bytes = G \o <<>> BY <1>4 DEF Progress
  <2>2. F \in Seq(Seq(Byte)) /\ Len(F) = Len(ps) /\ \A i \in 1 .. Len(ps) : Len(F[i]) >= 1
    BY FramedType
  <2> HIDE DEF F, k
  <2>3. G \in Seq(Byte)
    <3>1. k \in 0 .. Len(F) BY <1>2, <2>2
    <3>2. QED BY <2>2, <3>1, FlatSteps
  <2>4. bytes = G BY <2>1, <2>3, ConcatEmptySeq
  <2>5. ASSUME k < Len(ps) PROVE Len(bytes) < Len(Flat(F, k + 1))
    <3> DEFINE x == F[k + 1]
    <3>1. k + 1 \in 1 .. Len(F) /\ (k + 1) - 1 = k BY <1>2, <2>2, <2>5
    <3>2. Flat(F, k + 1) = Flat(F, (k + 1) - 1) \o x BY <2>2, <3>1, FlatSteps
    <3>3. x \in Seq(Byte) BY <2>2, <3>1, ElementOfSeq
    <3>4. Len(x) >= 1 BY <2>2, <3>1
    <3> HIDE DEF x, G
    <3>5. Flat(F, k + 1) = G \o x BY <3>1, <3>2 DEF G
    <3>6. Len(G \o x) = Len(G) + Len(x) BY <2>3, <3>3, ConcatProperties
    <3>7. Len(G) \in Nat /\ Len(x) \in Nat BY <2>3, <3>3, LenProperties
    <3>8. QED BY <2>4, <3>4, <3>5, <3>6, <3>7
  <2>6. Len(bytes) \in Nat BY LenProperties
  <2>7. Len(Flat(F, k)) <= Len(bytes) BY <2>4, <2>6
  <2>8. k \in 0 .. Len(ps) BY <1>2
  <2>9. Whole(ps, bytes, k) BY <2>5, <2>7, <2>8 DEF Whole, F
  <2>10. QED BY <1>1, <2>9 DEF k
<1>5. QED BY <1>3, <1>4

(* By sender c: what it sends, what it may be understood to say, the bytes   *)
(* of a frame and the frame of bytes.                                      *)
Samples(c) == IF c = "server" THEN ServerSamples ELSE ClientSamples
FramesOf(c) == IF c = "server" THEN ServerFrame ELSE ClientFrame
Payload(c, f) == IF c = "server" THEN encodeServerFrame(f) ELSE encodeClientFrame(f)
Decoded(c, p) == IF c = "server" THEN decodeServerFrame(p) ELSE decodeClientRecord(p)

(* What is received is a frame. *)
LEMMA ReceivedType ==
    ASSUME NEW f \in ServerFrame, Sendable(f)
    PROVE  Received(f) \in ServerFrame
<1>1. CASE f.kind = "bundle"
  <2>1. f \in [kind : {"bundle"}, channel : Text, bundle : List(bundledMessage)]
    BY <1>1 DEF ServerFrame, connectedFrame, ackFrame, msgFrame, presenceEventFrame, errorFrame,
                pongFrame, historyResponseFrame, fetchResponseFrame
  <2> DEFINE bs == f.bundle
             c == f.channel
             m == bs[1]
  <2>2. bs \in Seq(bundledMessage) /\ c \in Text BY <2>1 DEF List
  <2>3. CASE Len(bs) = 1
    <3>1. Received(f) = [kind |-> "msg", message |-> Widen(m, c)] BY <1>1, <2>3 DEF Received
    <3>2. 1 \in 1 .. Len(bs) BY <2>3
    <3>3. m \in bundledMessage
      <4> HIDE DEF bs
      <4>1. QED BY <2>2, <3>2, ElementOfSeq
    <3> HIDE DEF m, c
    <3>4. Widen(m, c) \in message BY <2>2, <3>3, WidenType
    <3>5. QED BY <3>1, <3>4 DEF ServerFrame, msgFrame
  <2>4. CASE Len(bs) # 1
    <3>1. Received(f) = f BY <1>1, <2>4 DEF Received
    <3>2. QED BY <3>1
  <2>5. QED BY <2>3, <2>4
<1>2. ASSUME NEW kind \in {"histRes", "fetchRes"}, f \in Responses(kind)
      PROVE  Received(f) \in Responses(kind)
  <2> DEFINE os == OfChannel(f.messages, f.channel)
  <2>1. \A i \in DOMAIN f.messages : PlainBatch(f.messages[i]) BY <1>2 DEF Sendable, Responses
  <2>2. /\ f.messages \in List(message) /\ f.channel \in Text /\ f.id \in Uint64
        /\ f.flag \in BOOLEAN
    BY <1>2 DEF Responses
  <2>3. os \in List(message) BY <2>1, <2>2, OfChannelType
  <2>4. Received(f) = [kind |-> kind, id |-> f.id, channel |-> f.channel, flag |-> f.flag,
                       messages |-> os]
    BY <1>2, ReceivedResponse
  <2> HIDE DEF os
  <2>5. QED BY <2>2, <2>3, <2>4 DEF Responses
<1>3. CASE f.kind \in {"histRes", "fetchRes"}
  <2>1. f \in Responses("histRes") \/ f \in Responses("fetchRes")
    BY <1>3 DEF ServerFrame, connectedFrame, ackFrame, msgFrame, presenceEventFrame, errorFrame,
                pongFrame, historyResponseFrame, fetchResponseFrame, Responses
  <2>2. Received(f) \in Responses("histRes") \/ Received(f) \in Responses("fetchRes")
    BY <1>2, <2>1
  <2>3. QED BY <2>2 DEF ServerFrame, historyResponseFrame, fetchResponseFrame, Responses
<1>4. CASE f.kind \notin {"bundle", "histRes", "fetchRes"}
  <2>1. Received(f) = f BY <1>4 DEF Received
  <2>2. QED BY <2>1
<1>5. QED BY <1>1, <1>3, <1>4

(* What a sample's payload decodes to. *)
LEMMA SampleTrip ==
    ASSUME NEW c \in {"server", "client"}, NEW f \in Samples(c)
    PROVE  /\ Payload(c, f) \in Text /\ Decoded(c, Payload(c, f)) = Received(f)
           /\ Received(f) \in FramesOf(c) /\ Received(f) # Nil
<1>1. CASE c = "server"
  <2>1. f \in ServerFrame /\ Sendable(f) BY <1>1, CodecAssumption DEF Samples
  <2>2. SameServer(f, Received(f)) BY <2>1, ServerTrip
  <2>3. Received(f) \in ServerFrame BY <2>1, ReceivedType
  <2>4. Len(encodeServerFrame(f)) \in Uint64 BY <2>1 DEF Sendable
  <2>5. encodeServerFrame(f) \in Text BY <2>2, <2>4 DEF SameServer, Text, List
  <2>6. decodeServerFrame(encodeServerFrame(f)) = Received(f) BY <2>2 DEF SameServer
  <2>7. Payload(c, f) = encodeServerFrame(f) BY <1>1 DEF Payload
  <2>8. Decoded(c, encodeServerFrame(f)) = Received(f) BY <1>1, <2>6 DEF Decoded
  <2>9. FramesOf(c) = ServerFrame BY <1>1 DEF FramesOf
  <2>10. QED BY <2>3, <2>5, <2>7, <2>8, <2>9, NotNil
<1>2. CASE c = "client"
  <2>1. f \in ClientFrame /\ Len(encodeClientFrame(f)) \in Uint64
    BY <1>2, CodecAssumption DEF Samples
  <2>2. SameClient(f) BY <2>1, ClientTrip
  <2>3. f.kind \notin {"bundle", "histRes", "fetchRes"}
    BY <2>1 DEF ClientFrame, authFrame, subscribeFrame, unsubscribeFrame, publishFrame,
                presenceFrame, presenceSubscribeFrame, presenceUnsubscribeFrame, historyFrame,
                fetchFrame, pingFrame
  <2>4. Received(f) = f BY <2>3 DEF Received
  <2>5. encodeClientFrame(f) \in Text BY <2>1, <2>2 DEF SameClient, Text, List
  <2>6. decodeClientRecord(encodeClientFrame(f)) = f BY <2>2 DEF SameClient
  <2>7. Payload(c, f) = encodeClientFrame(f) BY <1>2 DEF Payload
  <2>8. Decoded(c, encodeClientFrame(f)) = f BY <1>2, <2>6 DEF Decoded
  <2>9. FramesOf(c) = ClientFrame BY <1>2 DEF FramesOf
  <2>10. QED BY <2>1, <2>4, <2>5, <2>7, <2>8, <2>9, NotNil
<1>3. QED BY <1>1, <1>2

(* Whatever the bytes, a frame of the sender or nil. *)
LEMMA DecodedType ==
    ASSUME NEW c, NEW p \in Seq(Byte)
    PROVE  Decoded(c, p) \in FramesOf(c) \cup {Nil}
BY ServerDecodes, ClientDecodes DEF Decoded, FramesOf

(* The payloads of the frames fs, and their bytes. *)
Payloads(c, fs) == [i \in DOMAIN fs |-> Payload(c, fs[i])]
Bytes(c, fs) == FlattenSeq(Framed(Payloads(c, fs)))

(* The payloads of frames. *)
LEMMA PayloadsType ==
    ASSUME NEW c \in {"server", "client"}, NEW fs \in Seq(Samples(c))
    PROVE  /\ Payloads(c, fs) \in Seq(Text) /\ Len(Payloads(c, fs)) = Len(fs)
           /\ \A i \in 1 .. Len(fs) : Payloads(c, fs)[i] = Payload(c, fs[i])
           /\ Bytes(c, fs) \in Seq(Byte)
<1> DEFINE ps == Payloads(c, fs)
           n == Len(fs)
<1>1. n \in Nat /\ DOMAIN fs = 1 .. n BY LenProperties
<1>2. ps = [i \in 1 .. n |-> Payload(c, fs[i])] BY <1>1 DEF Payloads
<1>3. ASSUME NEW i \in 1 .. n PROVE Payload(c, fs[i]) \in Text
  <2> DEFINE f == fs[i]
  <2>1. f \in Samples(c) BY ElementOfSeq
  <2> HIDE DEF f
  <2>2. Payload(c, f) \in Text BY <2>1, SampleTrip
  <2>3. QED BY <2>2 DEF f
<1> HIDE DEF ps, n
<1>4. ps \in [1 .. n -> Text] BY <1>2, <1>3
<1>5. ps \in Seq(Text) /\ Len(ps) = n BY <1>1, <1>4
<1>6. \A i \in 1 .. n : ps[i] = Payload(c, fs[i]) BY <1>2
<1>7. FlattenSeq(Framed(ps)) \in Seq(Byte)
  <2> DEFINE F == Framed(ps)
  <2>1. F \in Seq(Seq(Byte)) /\ Len(F) \in Nat BY <1>5, FramedType, LenProperties
  <2> HIDE DEF F
  <2>2. Len(F) \in 0 .. Len(F) BY <2>1
  <2>3. Flat(F, Len(F)) = FlattenSeq(F) BY <2>1, FlatSteps
  <2>4. Flat(F, Len(F)) \in Seq(Byte) BY <2>1, <2>2, FlatSteps
  <2>5. QED BY <2>3, <2>4 DEF F
<1>8. QED BY <1>5, <1>6, <1>7 DEF Bytes, ps, n

(* Flattening one more sequence. *)
LEMMA FlattenAppend ==
    ASSUME NEW ss \in Seq(Seq(Byte)), NEW x \in Seq(Byte)
    PROVE  FlattenSeq(Append(ss, x)) = FlattenSeq(ss) \o x
<1> DEFINE tt == Append(ss, x)
           n == Len(ss)
<1>1. /\ tt \in Seq(Seq(Byte)) /\ Len(tt) = n + 1
      /\ \A i \in 1 .. n : tt[i] = ss[i]
      /\ tt[n + 1] = x
  BY AppendProperties
<1>2. n \in Nat BY LenProperties
<1> HIDE DEF tt
<1>3. Rest(tt, ss, 0, n)
  <2> DEFINE zero == 0
  <2>1. zero \in Nat /\ zero <= n /\ n <= Len(tt) /\ n <= Len(ss) BY <1>1, <1>2
  <2>2. \A i \in zero + 1 .. n : tt[i] = ss[i] BY <1>1
  <2> HIDE DEF zero, n
  <2>3. n \in Nat BY <1>2
  <2>4. Rest(tt, ss, zero, n) BY <1>1, <2>1, <2>2, <2>3, SameRest
  <2>5. QED BY <2>4 DEF zero
<1>4. Flat(tt, 0) = <<>> /\ Flat(tt, n + 1) = FlattenSeq(tt) BY <1>1, FlatSteps
<1>5. Flat(ss, 0) = <<>> /\ Flat(ss, n) = FlattenSeq(ss) BY FlatSteps
<1>6. Flat(tt, n) = Flat(ss, n) BY <1>3, <1>4, <1>5 DEF Rest
<1>7. n + 1 \in 1 .. Len(tt) /\ (n + 1) - 1 = n BY <1>1, <1>2
<1>8. \A i \in 1 .. Len(tt) : Flat(tt, i) = Flat(tt, i - 1) \o tt[i] BY <1>1, FlatSteps
<1>9. Flat(tt, n + 1) = Flat(tt, n) \o x BY <1>1, <1>7, <1>8
<1>10. QED BY <1>4, <1>5, <1>6, <1>9 DEF tt

(* The bytes of one more frame. *)
LEMMA BytesAppend ==
    ASSUME NEW c \in {"server", "client"}, NEW fs \in Seq(Samples(c)), NEW f \in Samples(c)
    PROVE  /\ Bytes(c, Append(fs, f)) = Bytes(c, fs) \o FrameRecord(Payload(c, f))
           /\ FrameRecord(Payload(c, f)) \in Seq(Byte)
<1> DEFINE gs == Append(fs, f)
           ps == Payloads(c, fs)
           qs == Payloads(c, gs)
           F == Framed(ps)
           G == Framed(qs)
           x == FrameRecord(Payload(c, f))
           n == Len(fs)
<1>1. /\ gs \in Seq(Samples(c)) /\ Len(gs) = n + 1
      /\ \A i \in 1 .. n : gs[i] = fs[i]
      /\ gs[n + 1] = f
  BY AppendProperties
<1>2. n \in Nat BY LenProperties
<1>3. ps \in Seq(Text) /\ Len(ps) = n /\ \A i \in 1 .. n : ps[i] = Payload(c, fs[i])
  BY PayloadsType
<1> HIDE DEF gs
<1>4. qs \in Seq(Text) /\ Len(qs) = n + 1 /\ \A i \in 1 .. n + 1 : qs[i] = Payload(c, gs[i])
  BY <1>1, PayloadsType
<1> HIDE DEF ps, qs
<1>5. F \in Seq(Seq(Byte)) /\ Len(F) = n /\ \A i \in 1 .. n : F[i] = appendBytes(ps[i])
  BY <1>3, FramedType
<1>6. G \in Seq(Seq(Byte)) /\ Len(G) = n + 1 /\ \A i \in 1 .. n + 1 : G[i] = appendBytes(qs[i])
  BY <1>4, FramedType
<1>7. Payload(c, f) \in Text BY SampleTrip
<1>8. x \in Seq(Byte)
  <2> DEFINE p == Payload(c, f)
  <2>1. p \in Seq(Byte) BY <1>7 DEF Text, List
  <2> HIDE DEF p
  <2>2. appendBytes(p) \in Seq(Byte) BY <2>1, AppendBytesType
  <2>3. QED BY <2>2 DEF FrameRecord, p
<1> DEFINE A == Append(F, x)
<1> HIDE DEF F, G, n
<1>9. /\ A \in Seq(Seq(Byte)) /\ Len(A) = n + 1
      /\ \A i \in 1 .. n : A[i] = F[i]
      /\ A[n + 1] = x
  <2> HIDE DEF x
  <2>1. /\ A \in Seq(Seq(Byte)) /\ Len(A) = Len(F) + 1
        /\ \A i \in 1 .. Len(F) : A[i] = F[i]
        /\ A[Len(F) + 1] = x
    BY <1>5, <1>8, AppendProperties
  <2>2. QED BY <1>5, <2>1
<1> HIDE DEF A
<1>10. ASSUME NEW i \in 1 .. n + 1 PROVE A[i] = G[i]
  <2>1. CASE i \in 1 .. n
    <3>1. A[i] = appendBytes(Payload(c, fs[i])) BY <1>3, <1>5, <1>9, <2>1
    <3>2. G[i] = appendBytes(Payload(c, gs[i])) BY <1>4, <1>6
    <3>3. gs[i] = fs[i] BY <1>1, <2>1
    <3>4. QED BY <3>1, <3>2, <3>3
  <2>2. CASE i = n + 1
    <3>1. G[i] = appendBytes(Payload(c, gs[i])) BY <1>4, <1>6
    <3>2. gs[i] = f BY <1>1, <2>2
    <3>3. QED BY <1>9, <2>2, <3>1, <3>2 DEF FrameRecord
  <2>3. QED BY <1>2, <2>1, <2>2
<1>11. A = G BY <1>6, <1>9, <1>10, SeqEqual
<1>12. FlattenSeq(A) = FlattenSeq(F) \o x
  <2> HIDE DEF x
  <2>1. QED BY <1>5, <1>8, FlattenAppend DEF A
<1>13. QED BY <1>8, <1>11, <1>12 DEF Bytes, F, G, ps, qs, gs

-----------------------------------------------------------------------------
(* From records to frames. *)

(* What the frames of sender c gain by a record, and by each of ps. *)
Outcome(c, p) == IF Decoded(c, p) = Nil THEN <<>> ELSE <<Decoded(c, p)>>

(* What the payloads come to, each a frame or nothing. *)
Outcomes(c, ps) == [i \in DOMAIN ps |-> Outcome(c, ps[i])]

(* What they are. *)
LEMMA OutcomesType ==
    ASSUME NEW c, NEW ps \in Seq(Text)
    PROVE  /\ Outcomes(c, ps) \in Seq(Seq(FramesOf(c))) /\ Len(Outcomes(c, ps)) = Len(ps)
           /\ \A i \in 1 .. Len(ps) : Outcomes(c, ps)[i] = Outcome(c, ps[i])
<1> DEFINE O == Outcomes(c, ps)
           n == Len(ps)
           S == FramesOf(c)
<1>1. n \in Nat /\ DOMAIN ps = 1 .. n BY LenProperties
<1>2. O = [i \in 1 .. n |-> Outcome(c, ps[i])] BY <1>1 DEF Outcomes
<1>3. ASSUME NEW i \in 1 .. n PROVE Outcome(c, ps[i]) \in Seq(S)
  <2> DEFINE p == ps[i]
             d == Decoded(c, p)
  <2>1. p \in Text BY ElementOfSeq
  <2> HIDE DEF p
  <2>2. p \in Seq(Byte) BY <2>1 DEF Text, List
  <2>3. d \in S \cup {Nil} BY <2>2, DecodedType
  <2>4. Outcome(c, p) = IF d = Nil THEN <<>> ELSE <<d>> BY DEF Outcome
  <2> HIDE DEF d, S
  <2>5. Outcome(c, p) \in Seq(S) BY <2>3, <2>4
  <2>6. QED BY <2>5 DEF p
<1> HIDE DEF O, n, S
<1>4. O \in [1 .. n -> Seq(S)] BY <1>2, <1>3
<1>5. O \in Seq(Seq(S)) /\ Len(O) = n BY <1>1, <1>4
<1>6. \A i \in 1 .. n : O[i] = Outcome(c, ps[i]) BY <1>2
<1>7. QED BY <1>5, <1>6 DEF O, n, S

(* Of the k records of ps that are whole in the bytes, the first j are       *)
(* decoded and rs are the others.                                          *)
Carried(c, ps, bytes, rs, fs) ==
    \E k, j \in Nat :
        /\ Whole(ps, bytes, k) /\ j <= k /\ Len(rs) = k - j
        /\ \A i \in 1 .. k - j : rs[i] = ps[j + i]
        /\ fs = Flat(Outcomes(c, ps), j)

(* Before anything is decoded. *)
LEMMA CarriedFirst ==
    ASSUME NEW c, NEW ps \in Seq(Text), NEW bytes, NEW rs \in Seq(Seq(Byte)),
           Found(ps, rs), Whole(ps, bytes, Len(rs))
    PROVE  Carried(c, ps, bytes, rs, <<>>)
<1> DEFINE k == Len(rs)
           O == Outcomes(c, ps)
<1>1. k \in Nat BY LenProperties
<1>2. Flat(O, 0) = <<>> BY OutcomesType, FlatSteps
<1>3. \A i \in 1 .. k : rs[i] = ps[i] BY DEF Found
<1> HIDE DEF k, O
<1>4. k - 0 = k /\ 0 <= k /\ 0 \in Nat BY <1>1
<1>5. \A i \in 1 .. k - 0 : rs[i] = ps[0 + i]
  <2>1. ASSUME NEW i \in 1 .. k - 0 PROVE rs[i] = ps[0 + i]
    <3>1. i \in 1 .. k /\ 0 + i = i BY <1>1
    <3>2. QED BY <1>3, <3>1
  <2>2. QED BY <2>1
<1>6. Len(rs) = k - 0 BY <1>4 DEF k
<1>7. Whole(ps, bytes, k) BY DEF k
<1>8. <<>> = Flat(O, 0) BY <1>2
<1>9. QED BY <1>1, <1>4, <1>5, <1>6, <1>7, <1>8 DEF Carried, O

(* Decoding the next record keeps what has been carried. *)
LEMMA CarriedNext ==
    ASSUME NEW c, NEW ps \in Seq(Text), NEW bytes, NEW rs \in Seq(Seq(Byte)), rs # <<>>,
           NEW fs, Carried(c, ps, bytes, rs, fs)
    PROVE  LET frame == Decoded(c, Head(rs))
           IN  Carried(c, ps, bytes, Tail(rs), IF frame = Nil THEN fs ELSE Append(fs, frame))
<1> DEFINE O == Outcomes(c, ps)
           frame == Decoded(c, Head(rs))
           next == IF frame = Nil THEN fs ELSE Append(fs, frame)
           S == FramesOf(c)
<1>1. PICK k \in Nat, j \in Nat :
         /\ Whole(ps, bytes, k) /\ j <= k /\ Len(rs) = k - j
         /\ \A i \in 1 .. k - j : rs[i] = ps[j + i]
         /\ fs = Flat(O, j)
  BY DEF Carried
<1>2. Len(rs) \in Nat /\ Len(rs) # 0 BY LenProperties, EmptySeq
<1>3. j + 1 <= k /\ Len(rs) - 1 = k - (j + 1) /\ k <= Len(ps) /\ Len(ps) \in Nat
  BY <1>1, <1>2, LenProperties DEF Whole
<1>4. /\ Len(Tail(rs)) = Len(rs) - 1
      /\ \A i \in 1 .. Len(Tail(rs)) : Tail(rs)[i] = rs[i + 1]
  BY HeadTailProperties
<1>5. Head(rs) = ps[j + 1]
  <2>1. 1 \in 1 .. k - j BY <1>1, <1>3
  <2>2. Head(rs) = rs[1] OBVIOUS
  <2>3. QED BY <1>1, <2>1, <2>2
<1>6. ASSUME NEW i \in 1 .. k - (j + 1) PROVE Tail(rs)[i] = ps[(j + 1) + i]
  <2>1. i \in 1 .. Len(Tail(rs)) BY <1>3, <1>4
  <2>2. i + 1 \in 1 .. k - j /\ j + (i + 1) = (j + 1) + i BY <1>1, <1>3
  <2>3. Tail(rs)[i] = rs[i + 1] BY <1>4, <2>1
  <2>4. rs[i + 1] = ps[j + (i + 1)] BY <1>1, <2>2
  <2>5. QED BY <2>2, <2>3, <2>4
<1>7. /\ O \in Seq(Seq(S)) /\ Len(O) = Len(ps)
      /\ \A i \in 1 .. Len(ps) : O[i] = Outcome(c, ps[i])
  BY OutcomesType
<1> DEFINE p == ps[j + 1]
<1>8. j + 1 \in 1 .. Len(O) /\ (j + 1) - 1 = j /\ j \in 0 .. Len(O) BY <1>3, <1>7
<1>80. j + 1 \in 1 .. Len(ps) BY <1>3
<1>9. O[j + 1] = Outcome(c, p) BY <1>7, <1>80
<1> HIDE DEF O, S
<1>10. Flat(O, j) \in Seq(S)
  <2>1. \A i \in 0 .. Len(O) : Flat(O, i) \in Seq(S) BY <1>7, FlatSteps
  <2>2. QED BY <1>8, <2>1
<1>11. Flat(O, j + 1) = Flat(O, j) \o Outcome(c, p)
  <2>1. \A i \in 1 .. Len(O) : Flat(O, i) = Flat(O, i - 1) \o O[i] BY <1>7, FlatSteps
  <2>2. QED BY <1>8, <1>9, <2>1
<1>12. next = fs \o Outcome(c, p)
  <2>1. frame = Decoded(c, p) BY <1>5
  <2>2. p \in Seq(Byte)
    <3>1. p \in Text BY <1>80, ElementOfSeq
    <3> HIDE DEF p
    <3>2. QED BY <3>1 DEF Text, List
  <2>3. Decoded(c, p) \in S \cup {Nil}
    <3> HIDE DEF p
    <3>1. QED BY <2>2, DecodedType DEF S
  <2>4. fs \in Seq(S) BY <1>1, <1>10
  <2> HIDE DEF frame, p
  <2>5. CASE frame = Nil
    <3>1. Outcome(c, p) = <<>> BY <2>1, <2>5 DEF Outcome
    <3>2. next = fs BY <2>5
    <3>3. fs \o <<>> = fs BY <2>4, ConcatEmptySeq
    <3>4. QED BY <3>1, <3>2, <3>3
  <2>6. CASE frame # Nil
    <3>1. Outcome(c, p) = <<frame>> BY <2>1, <2>6 DEF Outcome
    <3>2. next = Append(fs, frame) BY <2>6
    <3>3. frame \in S BY <2>1, <2>3, <2>6
    <3>4. Append(fs, frame) = fs \o <<frame>> BY <2>4, <3>3, AppendIsConcat
    <3>5. QED BY <3>1, <3>2, <3>4
  <2>7. QED BY <2>5, <2>6
<1> HIDE DEF next, p
<1>13. next = Flat(O, j + 1) BY <1>1, <1>11, <1>12
<1>14. Len(Tail(rs)) = k - (j + 1) BY <1>3, <1>4
<1>15. j + 1 \in Nat BY <1>1
<1>16. Carried(c, ps, bytes, Tail(rs), next)
  BY <1>1, <1>3, <1>6, <1>13, <1>14, <1>15 DEF Carried, O
<1>17. QED BY <1>16 DEF next

-----------------------------------------------------------------------------
(* The inductive invariant, and the types. *)

(* What becomes of the bytes w on their way. *)
Arrived(w, bytes, d) ==
    /\ d.kind = "none" => bytes = w
    /\ d.kind = "cut" => d.at \in 0 .. Len(w) - 1 /\ bytes = SubSeq(w, 1, d.at)
    /\ d.kind = "byte" => d.at \in DOMAIN w /\ \E b \in Byte : bytes = [w EXCEPT ![d.at] = b]

(* The body is what was sent until it leaves, and then what arrived of it. *)
Sending ==
    /\ sent \in Seq(Samples(from))
    /\ phase = "write" => body = Bytes(from, sent) /\ damage.kind = "none" /\ records = <<>>
    /\ phase \in {"write", "split"} => frames = <<>>
    /\ phase = "done" => records = <<>>
    /\ phase # "write" => Arrived(Bytes(from, sent), body, damage)

(* While it is split, the records found so far are the whole ones at its   *)
(* head.                                                                   *)
Splitting ==
    phase = "split" =>
        \A ps \in Seq(Text) : Framing(ps, body) => Progress(ps, body, records, reader)

(* While records are decoded, the frames so far are what the head of the   *)
(* payloads comes to.                                                      *)
Decoding ==
    phase \in {"decode", "done"} =>
        \A ps \in Seq(Text) : Framing(ps, body) => Carried(from, ps, body, records, frames)

(* The inductive invariant: the properties speak of a finished run only,   *)
(* this of every state on the way there.                                   *)
CodecInv == TypeOK /\ Sending /\ Splitting /\ Decoding

(* What a sender's frames, payloads and samples are. *)
LEMMA SamplesType ==
    /\ Samples("server") = ServerSamples /\ Samples("client") = ClientSamples
    /\ FramesOf("server") = ServerFrame /\ FramesOf("client") = ClientFrame
    /\ \A f : Payload("server", f) = encodeServerFrame(f)
    /\ \A f : Payload("client", f) = encodeClientFrame(f)
    /\ \A f \in ServerSamples : f \in ServerFrame \cup ClientFrame
    /\ \A f \in ClientSamples : f \in ServerFrame \cup ClientFrame
BY CodecAssumption DEF Samples, FramesOf, Payload

(* No frames, no bytes. *)
LEMMA NothingSent ==
    ASSUME NEW c PROVE Bytes(c, <<>>) = <<>>
<1> DEFINE F == Framed(Payloads(c, <<>>))
<1>1. F = [i \in {} |-> F[i]] BY DEF Framed, Payloads
<1>2. F = <<>> BY <1>1
<1> HIDE DEF F
<1>3. F \in Seq(Seq(Byte)) /\ Len(F) = 0 BY <1>2
<1>4. Flat(F, 0) = <<>> /\ Flat(F, Len(F)) = FlattenSeq(F) BY <1>3, FlatSteps
<1>5. QED BY <1>3, <1>4 DEF Bytes, F

(* It holds at first. *)
LEMMA CodecInit == Init => CodecInv
<1> SUFFICES ASSUME Init PROVE CodecInv OBVIOUS
<1>1. <<>> \in Seq(Byte) OBVIOUS
<1>2. reader \in Readers BY <1>1, ReaderType DEF Init
<1>3. TypeOK BY <1>2 DEF Init, TypeOK, Readers
<1>4. Bytes(from, sent) = <<>> BY NothingSent DEF Init
<1>5. Sending BY <1>4 DEF Init, Sending
<1>6. Splitting /\ Decoding BY DEF Init, Splitting, Decoding
<1>7. QED BY <1>3, <1>5, <1>6 DEF CodecInv

(* The server's writing a frame keeps it. *)
LEMMA ServerWritesStep ==
    ASSUME CodecInv, NEW f \in ServerSamples, ServerWrites(f) PROVE CodecInv'
<1>0. TypeOK /\ Sending BY DEF CodecInv
<1>1. /\ phase = "write" /\ from = "server"
      /\ sent' = Append(sent, f) /\ body' = body \o FrameRecord(encodeServerFrame(f))
      /\ from' = from /\ damage' = damage /\ phase' = phase /\ reader' = reader
      /\ records' = records /\ frames' = frames
  BY DEF ServerWrites
<1>2. /\ sent \in Seq(Samples("server")) /\ f \in Samples("server")
      /\ body = Bytes("server", sent) /\ damage.kind = "none" /\ records = <<>> /\ frames = <<>>
  BY <1>0, <1>1, SamplesType DEF Sending
<1> DEFINE c == "server"
           x == FrameRecord(Payload(c, f))
<1>3. c \in {"server", "client"} OBVIOUS
<1>4. sent \in Seq(Samples(c)) /\ f \in Samples(c) /\ body = Bytes(c, sent) /\ from = c
  BY <1>1, <1>2
<1>5. body' = body \o x BY <1>1, SamplesType
<1>6. sent \in Seq(ServerFrame \cup ClientFrame) /\ f \in ServerFrame \cup ClientFrame
  BY <1>0, SamplesType DEF TypeOK
<1> HIDE DEF c, x
<1>7. Bytes(c, Append(sent, f)) = Bytes(c, sent) \o x /\ x \in Seq(Byte)
  BY <1>3, <1>4, BytesAppend DEF x
<1>8. body' = Bytes(c, sent') BY <1>1, <1>4, <1>5, <1>7
<1>9. body' \in Seq(Byte)
  <2>1. body \in Seq(Byte) BY <1>0 DEF TypeOK
  <2>2. body \o x \in Seq(Byte) BY <1>7, <2>1, ConcatProperties
  <2>3. QED BY <1>5, <2>2
<1>10. sent' \in Seq(Samples(c)) BY <1>1, <1>4, AppendProperties
<1>11. sent' \in Seq(ServerFrame \cup ClientFrame) BY <1>1, <1>6, AppendProperties
<1>12. TypeOK' BY <1>0, <1>1, <1>9, <1>11 DEF TypeOK
<1>13. Sending' BY <1>1, <1>2, <1>4, <1>8, <1>10 DEF Sending
<1>14. (Splitting /\ Decoding)' BY <1>1 DEF Splitting, Decoding
<1>15. QED BY <1>12, <1>13, <1>14 DEF CodecInv

(* The client's writing a frame keeps it. *)
LEMMA ClientWritesStep ==
    ASSUME CodecInv, NEW f \in ClientSamples, ClientWrites(f) PROVE CodecInv'
<1>0. TypeOK /\ Sending BY DEF CodecInv
<1>1. /\ phase = "write" /\ sent = <<>>
      /\ from' = "client" /\ sent' = <<f>> /\ body' = FrameRecord(encodeClientFrame(f))
      /\ damage' = damage /\ phase' = phase /\ reader' = reader
      /\ records' = records /\ frames' = frames
  BY DEF ClientWrites
<1>2. damage.kind = "none" /\ records = <<>> /\ frames = <<>> BY <1>0, <1>1 DEF Sending
<1> DEFINE c == "client"
           x == FrameRecord(Payload(c, f))
           none == <<>>
<1>3. c \in {"server", "client"} OBVIOUS
<1>4. none \in Seq(Samples(c)) /\ f \in Samples(c) /\ Append(none, f) = <<f>>
  BY SamplesType
<1>5. body' = x /\ Bytes(c, none) = <<>> BY <1>1, NothingSent, SamplesType
<1>6. f \in ServerFrame \cup ClientFrame BY SamplesType
<1>60. from' = c BY <1>1
<1> HIDE DEF c, x, none
<1>7. Bytes(c, Append(none, f)) = Bytes(c, none) \o x /\ x \in Seq(Byte)
  BY <1>3, <1>4, BytesAppend DEF x
<1>8. <<>> \o x = x BY <1>7, ConcatEmptySeq
<1>9. body' = Bytes(c, sent') BY <1>1, <1>4, <1>5, <1>7, <1>8
<1>10. sent' \in Seq(Samples(c)) BY <1>1, <1>4
<1>11. sent' \in Seq(ServerFrame \cup ClientFrame) BY <1>1, <1>6
<1>12. body' \in Seq(Byte) BY <1>5, <1>7
<1>13. from' \in {"server", "client"} BY <1>3, <1>60
<1>14. frames' \in Seq(IF from' = "server" THEN ServerFrame ELSE ClientFrame) BY <1>1, <1>2
<1>15. TypeOK' BY <1>0, <1>1, <1>11, <1>12, <1>13, <1>14 DEF TypeOK
<1>16. Sending' BY <1>1, <1>2, <1>9, <1>10, <1>60 DEF Sending
<1>17. (Splitting /\ Decoding)' BY <1>1 DEF Splitting, Decoding
<1>18. QED BY <1>15, <1>16, <1>17 DEF CodecInv

(* The arrival, whole, cut or damaged, keeps it. *)
LEMMA ArrivesStep ==
    ASSUME CodecInv, OnItsWay, NEW bytes \in Seq(Byte), NEW what \in {"none", "cut", "byte"},
           NEW at \in Nat, Arrives(bytes, what, at),
           Arrived(body, bytes, [kind |-> what, at |-> at])
    PROVE  CodecInv'
<1>0. TypeOK /\ Sending BY DEF CodecInv
<1>1. /\ phase = "write"
      /\ phase' = "split" /\ damage' = [kind |-> what, at |-> at]
      /\ body' = bytes /\ reader' = Reader(bytes)
      /\ from' = from /\ sent' = sent /\ records' = records /\ frames' = frames
  BY DEF Arrives, OnItsWay
<1>2. body = Bytes(from, sent) /\ records = <<>> /\ frames = <<>> BY <1>0, <1>1 DEF Sending
<1>3. reader' \in Readers /\ ~reader'.err /\ reader'.buf = bytes BY <1>1, ReaderType DEF Reader
<1>4. TypeOK' BY <1>0, <1>1, <1>3 DEF TypeOK, Readers
<1>5. Sending'
  <2>1. Arrived(Bytes(from', sent'), body', damage') BY <1>1, <1>2
  <2>2. QED BY <1>0, <1>1, <1>2, <2>1 DEF Sending
<1>6. ASSUME NEW ps \in Seq(Text) PROVE Progress(ps, body', records', reader')
  <2> DEFINE F == Framed(ps)
             none == <<>>
  <2>1. Len(ps) \in Nat BY LenProperties
  <2>2. Len(none) = 0 BY EmptySeq
  <2>3. records' = none BY <1>1, <1>2
  <2>30. none \o bytes = bytes BY ConcatEmptySeq
  <2>4. Flat(F, 0) = none BY FramedType, FlatSteps
  <2> HIDE DEF none, F
  <2>5. Found(ps, none) BY <2>1, <2>2 DEF Found
  <2>6. bytes = Flat(F, Len(none)) \o bytes BY <2>2, <2>30, <2>4
  <2>7. QED BY <1>1, <1>3, <2>3, <2>5, <2>6 DEF Progress, F
<1>7. Splitting' BY <1>6 DEF Splitting
<1>8. Decoding' BY <1>1 DEF Decoding
<1>9. QED BY <1>4, <1>5, <1>7, <1>8 DEF CodecInv

(* Splitting off a record keeps it. *)
LEMMA SplitOneStep == ASSUME CodecInv, SplitOne PROVE CodecInv'
<1>0. TypeOK /\ Sending /\ Splitting BY DEF CodecInv
<1> DEFINE record == GetSlice(reader)
<1>1. /\ phase = "split" /\ reader.buf # <<>> /\ ~reader.err
      /\ reader' = record.rd
      /\ records' = IF record.rd.err THEN records ELSE Append(records, record.value)
      /\ from' = from /\ sent' = sent /\ body' = body /\ damage' = damage
      /\ phase' = phase /\ frames' = frames
  BY DEF SplitOne
<1>2. reader \in Readers /\ records \in Seq(Seq(Byte)) /\ body \in Seq(Byte)
  BY <1>0 DEF TypeOK, Readers
<1>3. reader' \in Readers /\ records' \in Seq(Seq(Byte))
  <2>1. record.rd \in Readers /\ record.value \in Text BY <1>2, GetSliceType
  <2> HIDE DEF record
  <2>2. record.value \in Seq(Byte) BY <2>1 DEF Text, List
  <2>3. Append(records, record.value) \in Seq(Seq(Byte)) BY <1>2, <2>2, AppendProperties
  <2>4. QED BY <1>1, <1>2, <2>1, <2>3
<1>4. TypeOK' BY <1>0, <1>1, <1>3 DEF TypeOK, Readers
<1>5. Sending' BY <1>0, <1>1 DEF Sending
<1>6. ASSUME NEW ps \in Seq(Text), Framing(ps, body)
      PROVE  Progress(ps, body, records', reader')
  <2>1. Progress(ps, body, records, reader) BY <1>0, <1>1, <1>6 DEF Splitting
  <2>2. Progress(ps, body, IF record.rd.err THEN records ELSE Append(records, record.value),
                 record.rd)
    BY <1>1, <1>2, <1>6, <2>1, SplitStep
  <2> HIDE DEF record
  <2>3. QED BY <1>1, <2>2
<1>7. Splitting'
  <2>1. body' = body BY <1>1
  <2>2. QED BY <1>6, <2>1 DEF Splitting
<1>8. Decoding' BY <1>1 DEF Decoding
<1>9. QED BY <1>4, <1>5, <1>7, <1>8 DEF CodecInv

(* The end of the splitting keeps it. *)
LEMMA SplitEndsStep == ASSUME CodecInv, SplitEnds PROVE CodecInv'
<1>0. TypeOK /\ Sending /\ Splitting BY DEF CodecInv
<1>1. /\ phase = "split" /\ (reader.buf = <<>> \/ reader.err)
      /\ phase' = "decode"
      /\ from' = from /\ sent' = sent /\ body' = body /\ damage' = damage
      /\ reader' = reader /\ records' = records /\ frames' = frames
  BY DEF SplitEnds
<1>2. reader \in Readers /\ records \in Seq(Seq(Byte)) /\ body \in Seq(Byte) /\ frames = <<>>
  BY <1>0, <1>1 DEF TypeOK, Readers, Sending
<1>3. TypeOK' BY <1>0, <1>1 DEF TypeOK
<1>4. Sending' BY <1>0, <1>1 DEF Sending
<1>5. ASSUME NEW ps \in Seq(Text), Framing(ps, body)
      PROVE  Carried(from, ps, body, records, frames)
  <2>1. Progress(ps, body, records, reader) BY <1>0, <1>1, <1>5 DEF Splitting
  <2>2. Found(ps, records) /\ Whole(ps, body, Len(records)) BY <1>1, <1>2, <2>1, SplitDone
  <2>3. Carried(from, ps, body, records, <<>>) BY <1>2, <2>2, CarriedFirst
  <2>4. QED BY <1>2, <2>3
<1>6. Decoding' BY <1>1, <1>5 DEF Decoding
<1>7. Splitting' BY <1>1 DEF Splitting
<1>8. QED BY <1>3, <1>4, <1>6, <1>7 DEF CodecInv

(* Decoding a record keeps it, whether it is a frame or nil. *)
LEMMA DecodeOneStep == ASSUME CodecInv, DecodeOne PROVE CodecInv'
<1>0. TypeOK /\ Sending /\ Decoding BY DEF CodecInv
<1> DEFINE frame == Decoded(from, Head(records))
<1>1. /\ phase = "decode" /\ records # <<>> /\ records' = Tail(records)
      /\ frames' = IF frame = Nil THEN frames ELSE Append(frames, frame)
      /\ from' = from /\ sent' = sent /\ body' = body /\ damage' = damage
      /\ phase' = phase /\ reader' = reader
  BY DEF DecodeOne, Decode, Decoded
<1>2. records \in Seq(Seq(Byte)) /\ frames \in Seq(FramesOf(from)) /\ body \in Seq(Byte)
  BY <1>0 DEF TypeOK, FramesOf
<1>3. Head(records) \in Seq(Byte) /\ Tail(records) \in Seq(Seq(Byte))
  BY <1>1, <1>2, HeadTailProperties
<1>4. frame \in FramesOf(from) \cup {Nil} BY <1>3, DecodedType
<1>5. frames' \in Seq(FramesOf(from))
  <2> DEFINE S == FramesOf(from)
  <2> HIDE DEF frame, S
  <2>1. frame # Nil => Append(frames, frame) \in Seq(S) BY <1>2, <1>4, AppendProperties DEF S
  <2>2. QED BY <1>1, <1>2, <2>1 DEF S
<1>6. TypeOK' BY <1>0, <1>1, <1>3, <1>5 DEF TypeOK, FramesOf
<1>7. Sending' BY <1>0, <1>1 DEF Sending
<1>8. ASSUME NEW ps \in Seq(Text), Framing(ps, body)
      PROVE  Carried(from, ps, body, records', frames')
  <2>1. Carried(from, ps, body, records, frames) BY <1>0, <1>1, <1>8 DEF Decoding
  <2>2. Carried(from, ps, body, Tail(records),
                IF frame = Nil THEN frames ELSE Append(frames, frame))
    BY <1>1, <1>2, <2>1, CarriedNext
  <2> HIDE DEF frame
  <2>3. QED BY <1>1, <2>2
<1>9. Decoding'
  <2>1. body' = body /\ from' = from BY <1>1
  <2>2. QED BY <1>8, <2>1 DEF Decoding
<1>10. Splitting' BY <1>1 DEF Splitting
<1>11. QED BY <1>6, <1>7, <1>9, <1>10 DEF CodecInv

(* Every step keeps it. *)
LEMMA CodecStep == CodecInv /\ [Next]_vars => CodecInv'
<1> SUFFICES ASSUME CodecInv, [Next]_vars PROVE CodecInv' OBVIOUS
<1>0. TypeOK /\ Sending /\ Decoding BY DEF CodecInv
<1>1. CASE \E f \in ServerSamples : ServerWrites(f) BY <1>1, ServerWritesStep
<1>2. CASE \E f \in ClientSamples : ClientWrites(f) BY <1>2, ClientWritesStep
<1>3. body \in Seq(Byte) /\ Len(body) \in Nat /\ DOMAIN body = 1 .. Len(body)
  BY <1>0, LenProperties DEF TypeOK
<1>4. CASE ArrivesWhole
  <2> DEFINE d == [kind |-> "none", at |-> 0]
  <2>1. OnItsWay /\ Arrives(body, "none", 0) BY <1>4 DEF ArrivesWhole
  <2>2. Arrived(body, body, d) BY DEF Arrived
  <2> DEFINE what == "none"
             zero == 0
  <2>3. what \in {"none", "cut", "byte"} /\ zero \in Nat /\ d = [kind |-> what, at |-> zero]
    OBVIOUS
  <2>4. Arrives(body, what, zero) BY <2>1
  <2> HIDE DEF d, what, zero
  <2>5. QED BY <1>3, <2>1, <2>2, <2>3, <2>4, ArrivesStep
<1>5. CASE ArrivesCut
  <2> DEFINE what == "cut"
  <2>1. PICK n \in 0 .. Len(body) - 1 : Arrives(SubSeq(body, 1, n), what, n)
    BY <1>5 DEF ArrivesCut
  <2>2. OnItsWay BY <1>5 DEF ArrivesCut
  <2> DEFINE bytes == SubSeq(body, 1, n)
             d == [kind |-> what, at |-> n]
  <2>3. n \in Nat /\ n <= Len(body) BY <1>3
  <2>4. bytes \in Seq(Byte)
    <3>1. \A i \in 1 .. n : body[i] \in Byte
      <4>1. ASSUME NEW i \in 1 .. n PROVE body[i] \in Byte
        <5>1. i \in 1 .. Len(body) BY <1>3, <2>3
        <5>2. QED BY <1>3, <5>1, ElementOfSeq
      <4>2. QED BY <4>1
    <3>2. QED BY <2>3, <3>1, SubSeqProperties
  <2>5. Arrived(body, bytes, d) BY <2>1 DEF Arrived
  <2>6. what \in {"none", "cut", "byte"} OBVIOUS
  <2> HIDE DEF bytes, what
  <2>7. Arrives(bytes, what, n) BY <2>1 DEF bytes
  <2>8. QED BY <2>2, <2>3, <2>4, <2>5, <2>6, <2>7, ArrivesStep
<1>6. CASE ArrivesDamaged
  <2> DEFINE what == "byte"
  <2>1. PICK i \in DOMAIN body, b \in Damages : Arrives([body EXCEPT ![i] = b], what, i)
    BY <1>6 DEF ArrivesDamaged
  <2>2. OnItsWay BY <1>6 DEF ArrivesDamaged
  <2> DEFINE bytes == [body EXCEPT ![i] = b]
             d == [kind |-> what, at |-> i]
  <2>3. i \in Nat /\ i \in 1 .. Len(body) /\ b \in Byte BY <1>3, CodecAssumption
  <2>4. bytes \in Seq(Byte) BY <1>3, <2>3, ExceptSeq
  <2>5. Arrived(body, bytes, d) BY <2>3 DEF Arrived
  <2>6. what \in {"none", "cut", "byte"} OBVIOUS
  <2> HIDE DEF bytes, what
  <2>7. Arrives(bytes, what, i) BY <2>1 DEF bytes
  <2>8. QED BY <2>2, <2>3, <2>4, <2>5, <2>6, <2>7, ArrivesStep
<1>7. CASE SplitOne BY <1>7, SplitOneStep
<1>8. CASE SplitEnds BY <1>8, SplitEndsStep
<1>9. CASE DecodeOne BY <1>9, DecodeOneStep
<1>10. CASE DecodeEnds
  <2>1. /\ phase = "decode" /\ records = <<>> /\ phase' = "done"
        /\ from' = from /\ sent' = sent /\ body' = body /\ damage' = damage
        /\ reader' = reader /\ records' = records /\ frames' = frames
    BY <1>10 DEF DecodeEnds
  <2>2. TypeOK' BY <1>0, <2>1 DEF TypeOK
  <2>3. Sending' BY <1>0, <2>1 DEF Sending
  <2>4. Decoding' BY <1>0, <2>1 DEF Decoding
  <2>5. Splitting' BY <2>1 DEF Splitting
  <2>6. QED BY <2>2, <2>3, <2>4, <2>5 DEF CodecInv
<1>11. CASE UNCHANGED vars
  <2>1. /\ from' = from /\ sent' = sent /\ body' = body /\ damage' = damage /\ phase' = phase
        /\ reader' = reader /\ records' = records /\ frames' = frames
    BY <1>11 DEF vars
  <2>2. TypeOK' BY <1>0, <2>1 DEF TypeOK
  <2>3. Sending' BY <1>0, <2>1 DEF Sending
  <2>4. Decoding' BY <1>0, <2>1 DEF Decoding
  <2>5. Splitting' BY <2>1 DEF CodecInv, Splitting
  <2>6. QED BY <2>2, <2>3, <2>4, <2>5 DEF CodecInv
<1>12. QED
  BY <1>1, <1>2, <1>4, <1>5, <1>6, <1>7, <1>8, <1>9, <1>10, <1>11 DEF Next

(* The reader of a WebSocket message (splitBinaryRecords and the decoders) *)
(* keeps the inductive invariant in every run.                             *)
THEOREM CodecInvariant == Spec => []CodecInv
BY CodecInit, CodecStep, PTL DEF Spec

(* The types: whatever the bytes become on their way, what is decoded of   *)
(* them are well-typed frames of the sender (no decoder makes a frame of   *)
(* its own).                                                               *)
THEOREM TypeCorrect == Spec => []TypeOK
<1>1. CodecInv => TypeOK BY DEF CodecInv
<1>2. QED BY <1>1, CodecInvariant, PTL

(* Outcomes that are all frames flatten to these frames. *)
LEMMA FlatSingles ==
    ASSUME NEW S, NEW ss \in Seq(Seq(S)), NEW ws \in Seq(S), NEW a \in Nat, NEW b \in Nat,
           a <= b, b <= Len(ss), b <= Len(ws), \A i \in a + 1 .. b : ss[i] = <<ws[i]>>
    PROVE  Flat(ss, b) = Flat(ss, a) \o SubSeq(ws, a + 1, b)
<1> DEFINE Good(k) == Flat(ss, a + k) = Flat(ss, a) \o SubSeq(ws, a + 1, a + k)
           T == {k \in Nat : k <= b - a => Good(k)}
<1>0. Len(ss) \in Nat /\ Len(ws) \in Nat BY LenProperties
<1>1. Flat(ss, a) \in Seq(S)
  <2>1. a \in 0 .. Len(ss) BY <1>0
  <2>2. QED BY <2>1, FlatSteps
<1>2. Good(0)
  <2>1. a + 0 = a /\ a < a + 1 OBVIOUS
  <2>2. SubSeq(ws, a + 1, a) = <<>> BY <2>1, SubSeqEmpty
  <2>3. Flat(ss, a) \o <<>> = Flat(ss, a) BY <1>1, ConcatEmptySeq
  <2>4. QED BY <2>1, <2>2, <2>3
<1>3. ASSUME NEW k \in Nat, k + 1 <= b - a, Good(k) PROVE Good(k + 1)
  <2> DEFINE i == a + (k + 1)
             l == a + k
             y == SubSeq(ws, a + 1, l)
             w == ws[i]
  <2>1. /\ i \in 1 .. Len(ss) /\ i - 1 = l /\ i \in a + 1 .. b /\ i \in 1 .. Len(ws)
        /\ a + 1 \in 1 .. Len(ws) /\ i \in a + 1 .. Len(ws)
    BY <1>0, <1>3
  <2>2. ss[i] = <<w>> BY <2>1
  <2>3. Flat(ss, l) = Flat(ss, a) \o y BY <1>3
  <2>4. SubSeq(ws, a + 1, i) = SubSeq(ws, a + 1, i - 1) \o <<w>>
    <3> DEFINE m == a + 1
    <3>1. m \in 1 .. Len(ws) /\ i \in m .. Len(ws) BY <2>1
    <3> HIDE DEF m, i
    <3>2. SubSeq(ws, m, i) = SubSeq(ws, m, i - 1) \o <<ws[i]>> BY <3>1, SubSeqRecursiveSecond
    <3>3. QED BY <3>2 DEF m
  <2>5. \A m \in 1 .. Len(ss) : Flat(ss, m) = Flat(ss, m - 1) \o ss[m] BY FlatSteps
  <2>6. w \in S BY <2>1, ElementOfSeq
  <2>7. y \in Seq(S)
    <3>1. \A j \in a + 1 .. l : ws[j] \in S
      <4>1. ASSUME NEW j \in a + 1 .. l PROVE ws[j] \in S
        <5>1. j \in 1 .. Len(ws) BY <1>0, <2>1
        <5>2. QED BY <5>1, ElementOfSeq
      <4>2. QED BY <4>1
    <3> DEFINE m == a + 1
    <3>2. m \in Int /\ l \in Int BY <1>3
    <3> HIDE DEF l
    <3>3. QED BY <3>1, <3>2, SubSeqProperties
  <2> HIDE DEF i, l, y, w
  <2>8. Flat(ss, i) = Flat(ss, l) \o <<w>> BY <2>1, <2>2, <2>5
  <2>9. <<w>> \in Seq(S) BY <2>6
  <2> DEFINE f == Flat(ss, a)
             z == <<w>>
  <2>10. f \in Seq(S) /\ z \in Seq(S) BY <1>1, <2>9
  <2> HIDE DEF f, z
  <2>11. (f \o y) \o z = f \o (y \o z) BY <2>7, <2>10, ConcatAssociative, SMTT(60)
  <2>12. SubSeq(ws, a + 1, i) = y \o z BY <2>1, <2>4 DEF y, z
  <2>13. Flat(ss, i) = f \o SubSeq(ws, a + 1, i) BY <2>3, <2>8, <2>11, <2>12 DEF f, z
  <2>14. QED BY <2>13 DEF i, f
<1> HIDE DEF Good
<1>4. T \in SUBSET Nat /\ 0 \in T BY <1>2
<1>5. \A k \in T : k + 1 \in T
  <2>1. ASSUME NEW k \in T PROVE k + 1 \in T
    <3>1. k \in Nat /\ k + 1 \in Nat /\ (k + 1 <= b - a => k <= b - a) OBVIOUS
    <3>2. k + 1 <= b - a => Good(k + 1) BY <1>3, <3>1
    <3>3. QED BY <3>1, <3>2
  <2>2. QED BY <2>1
<1>6. T = Nat BY <1>4, <1>5, Induction
<1>7. b - a \in Nat /\ a + (b - a) = b OBVIOUS
<1>8. Good(b - a) BY <1>6, <1>7
<1>9. QED BY <1>7, <1>8 DEF Good

(* The first b sequences of ss are each one element of ws. *)
FirstSingles(ss, ws, b) ==
    b <= Len(ss) /\ b <= Len(ws) /\ \A i \in 1 .. b : ss[i] = <<ws[i]>>

(* The same from the first one on. *)
LEMMA FlatSinglesFirst ==
    ASSUME NEW S, NEW ss \in Seq(Seq(S)), NEW ws \in Seq(S), NEW b \in Nat,
           FirstSingles(ss, ws, b)
    PROVE  /\ Flat(ss, b) = SubSeq(ws, 1, b)
           /\ SubSeq(ws, 1, b) \in Seq(S) /\ Len(SubSeq(ws, 1, b)) = b
<1> DEFINE zero == 0
           one == 1
           x == SubSeq(ws, one, b)
<1>1. Flat(ss, b) = Flat(ss, zero) \o SubSeq(ws, zero + 1, b)
  <2>1. zero \in Nat /\ zero <= b /\ b <= Len(ss) /\ b <= Len(ws) BY DEF FirstSingles
  <2>2. \A i \in zero + 1 .. b : ss[i] = <<ws[i]>> BY DEF FirstSingles
  <2> HIDE DEF zero, one, x
  <2>3. QED BY <2>1, <2>2, FlatSingles
<1>2. Flat(ss, zero) = <<>> BY FlatSteps
<1>3. zero + 1 = one /\ one \in Int /\ b \in Int OBVIOUS
<1>4. (IF one <= b THEN b - one + 1 ELSE 0) = b OBVIOUS
<1>5. \A i \in one .. b : ws[i] \in S
  <2>1. ASSUME NEW i \in one .. b PROVE ws[i] \in S
    <3>1. i \in 1 .. Len(ws) BY LenProperties DEF FirstSingles
    <3>2. QED BY <3>1, ElementOfSeq
  <2>2. QED BY <2>1
<1> HIDE DEF zero, one
<1>6. x \in Seq(S) /\ Len(x) = IF one <= b THEN b - one + 1 ELSE 0
  BY <1>3, <1>5, SubSeqProperties
<1>7. SubSeq(ws, zero + 1, b) = x BY <1>3
<1> HIDE DEF x
<1>8. <<>> \o x = x BY <1>6, ConcatEmptySeq
<1>9. Flat(ss, b) = x /\ x \in Seq(S) /\ Len(x) = b BY <1>1, <1>2, <1>4, <1>6, <1>7, <1>8
<1>10. QED BY <1>9 DEF x, one

(* Sequences that agree flatten alike. *)
LEMMA FlattenFirst ==
    ASSUME NEW ss \in Seq(Seq(Byte)), NEW tt \in Seq(Seq(Byte)), NEW n \in Nat, Len(ss) = n,
           n <= Len(tt), \A i \in 1 .. n : ss[i] = tt[i]
    PROVE  FlattenSeq(ss) = Flat(tt, n)
<1>1. Rest(ss, tt, 0, n)
  <2> DEFINE zero == 0
  <2>1. zero \in Nat /\ zero <= n /\ n <= Len(tt) /\ n <= Len(ss) OBVIOUS
  <2>2. \A i \in zero + 1 .. n : ss[i] = tt[i] OBVIOUS
  <2> HIDE DEF zero
  <2>3. Rest(ss, tt, zero, n) BY <2>1, <2>2, SameRest
  <2>4. QED BY <2>3 DEF zero
<1>2. Flat(ss, 0) = <<>> /\ Flat(ss, n) = FlattenSeq(ss) BY FlatSteps
<1>3. Flat(tt, 0) = <<>> BY FlatSteps
<1>4. Flat(ss, n) = Flat(tt, n) BY <1>1, <1>2, <1>3 DEF Rest
<1>5. QED BY <1>2, <1>4

(* All records are whole in all bytes. *)
LEMMA WholeAll ==
    ASSUME NEW ps \in Seq(Text), NEW k \in Nat, Whole(ps, FlattenSeq(Framed(ps)), k)
    PROVE  k = Len(ps)
<1> DEFINE F == Framed(ps)
           N == Len(ps)
           w == FlattenSeq(F)
<1>1. N \in Nat /\ F \in Seq(Seq(Byte)) /\ Len(F) = N BY FramedType, LenProperties
<1>2. k <= N /\ (k < N => Len(w) < Len(Flat(F, k + 1))) BY DEF Whole
<1> HIDE DEF F, N
<1>3. w = Flat(F, N) BY <1>1, FlatSteps
<1>4. CASE k < N
  <2> DEFINE l == k + 1
  <2>1. l \in Nat /\ l <= N /\ N <= Len(F) BY <1>1, <1>4
  <2>2. Len(w) < Len(Flat(F, l)) BY <1>2, <1>4
  <2> HIDE DEF l
  <2>3. Len(Flat(F, l)) <= Len(Flat(F, N)) /\ Flat(F, l) \in Seq(Byte) /\ Flat(F, N) \in Seq(Byte)
    BY <1>1, <2>1, FlatRest
  <2>4. Len(Flat(F, l)) \in Nat /\ Len(Flat(F, N)) \in Nat BY <2>3, LenProperties
  <2>5. QED BY <1>3, <2>2, <2>3, <2>4
<1>5. QED BY <1>1, <1>2, <1>4 DEF N

(* What the frames sent are to their receiver, and where their records end. *)
LEMMA Sent ==
    ASSUME NEW ps, NEW N, TypeOK, Sending, ps = Payloads(from, sent), N = Len(sent)
    PROVE  /\ N \in Nat /\ DOMAIN sent = 1 .. N
           /\ ps \in Seq(Text) /\ Len(ps) = N /\ Bytes(from, sent) = FlattenSeq(Framed(ps))
           /\ Bytes(from, sent) \in Seq(Byte)
           /\ Wanted \in Seq(FramesOf(from)) /\ Len(Wanted) = N
           /\ \A i \in 1 .. N : Outcome(from, ps[i]) = <<Wanted[i]>>
           /\ \A i \in 1 .. N : ps[i] = Payload(from, sent[i])
           /\ \A n \in 0 .. N : End(n) = Len(Flat(Framed(ps), n))
<1>1. from \in {"server", "client"} /\ sent \in Seq(Samples(from)) BY DEF TypeOK, Sending
<1>2. N \in Nat /\ DOMAIN sent = 1 .. N BY <1>1, LenProperties
<1>3. /\ ps \in Seq(Text) /\ Len(ps) = N
      /\ \A i \in 1 .. N : ps[i] = Payload(from, sent[i])
      /\ Bytes(from, sent) \in Seq(Byte)
  BY <1>1, PayloadsType
<1>4. Bytes(from, sent) = FlattenSeq(Framed(ps)) BY DEF Bytes
<1> DEFINE S == FramesOf(from)
<1>5. ASSUME NEW i \in 1 .. N
      PROVE  Received(sent[i]) \in S /\ Outcome(from, ps[i]) = <<Received(sent[i])>>
  <2> DEFINE f == sent[i]
             p == ps[i]
  <2>1. f \in Samples(from) BY <1>1, <1>2, ElementOfSeq
  <2>2. p = Payload(from, f) BY <1>3
  <2> HIDE DEF f, p
  <2>3. Decoded(from, Payload(from, f)) = Received(f) /\ Received(f) \in S /\ Received(f) # Nil
    BY <1>1, <2>1, SampleTrip
  <2>4. Outcome(from, p) = <<Received(f)>> BY <2>2, <2>3 DEF Outcome
  <2>5. QED BY <2>3, <2>4 DEF f, p
<1>6. Wanted = [i \in 1 .. N |-> Received(sent[i])] BY <1>2 DEF Wanted
<1>7. \A i \in 1 .. N : Wanted[i] = Received(sent[i]) BY <1>6
<1>8. Wanted \in Seq(S) /\ Len(Wanted) = N
  <2> HIDE DEF S
  <2>1. Wanted \in [1 .. N -> S] BY <1>5, <1>6
  <2>2. QED BY <1>2, <2>1
<1>9. \A i \in 1 .. N : Outcome(from, ps[i]) = <<Wanted[i]>> BY <1>5, <1>7
<1>10. ASSUME NEW n \in 0 .. N PROVE End(n) = Len(Flat(Framed(ps), n))
  <2> DEFINE R == [i \in 1 .. n |-> Record(sent[i])]
             F == Framed(ps)
  <2>1. F \in Seq(Seq(Byte)) /\ Len(F) = N /\ \A i \in 1 .. N : F[i] = appendBytes(ps[i])
    BY <1>3, FramedType
  <2>2. n \in Nat /\ n <= N BY <1>2
  <2>3. ASSUME NEW i \in 1 .. n PROVE Record(sent[i]) = F[i] /\ F[i] \in Seq(Byte)
    <3>1. i \in 1 .. N BY <1>2, <2>2
    <3>2. F[i] = appendBytes(Payload(from, sent[i])) BY <1>3, <2>1, <3>1
    <3>3. Record(sent[i]) = appendBytes(Payload(from, sent[i]))
      BY DEF Record, Written, Payload, FrameRecord
    <3> HIDE DEF F
    <3>4. F[i] \in Seq(Byte) BY <2>1, <3>1, ElementOfSeq
    <3>5. QED BY <3>2, <3>3, <3>4
  <2> HIDE DEF F
  <2>4. R \in [1 .. n -> Seq(Byte)] BY <2>3
  <2>5. R \in Seq(Seq(Byte)) /\ Len(R) = n BY <2>2, <2>4
  <2>6. \A i \in 1 .. n : R[i] = F[i] BY <2>3
  <2>7. End(n) = Len(FlattenSeq(R)) BY DEF End
  <2> HIDE DEF R
  <2>8. FlattenSeq(R) = Flat(F, n) BY <2>1, <2>2, <2>5, <2>6, FlattenFirst
  <2>9. QED BY <2>7, <2>8 DEF F
<1>11. QED BY <1>2, <1>3, <1>4, <1>8, <1>9, <1>10

-----------------------------------------------------------------------------
(* What was sent arrives; what was cut arrives up to the cut. *)

(* The frames at the end, for any payloads the bytes may be those of. *)
LEMMA AtTheEnd ==
    ASSUME CodecInv, phase = "done", NEW ps \in Seq(Text), Framing(ps, body)
    PROVE  \E k \in Nat : Whole(ps, body, k) /\ frames = Flat(Outcomes(from, ps), k)
<1>1. records = <<>> /\ Carried(from, ps, body, records, frames)
  BY DEF CodecInv, Sending, Decoding
<1> DEFINE O == Outcomes(from, ps)
<1>2. PICK k \in Nat, j \in Nat :
         Whole(ps, body, k) /\ j <= k /\ Len(records) = k - j /\ frames = Flat(O, j)
  BY <1>1 DEF Carried
<1>3. Len(records) = 0 BY <1>1, EmptySeq
<1>4. j = k BY <1>2, <1>3
<1>5. QED BY <1>2, <1>4

(* The invariant says at the end what RoundTrip says. *)
LEMMA CodecRoundTrip == CodecInv => RoundTrip
<1> SUFFICES ASSUME CodecInv, phase = "done", damage.kind = "none" PROVE frames = Wanted
  BY DEF RoundTrip
<1> DEFINE ps == Payloads(from, sent)
           N == Len(sent)
           c == from
           O == Outcomes(c, ps)
           W == Wanted
           S == FramesOf(c)
<1>1. TypeOK /\ Sending BY DEF CodecInv
<1>2. /\ N \in Nat /\ ps \in Seq(Text) /\ Len(ps) = N /\ Bytes(from, sent) = FlattenSeq(Framed(ps))
      /\ Bytes(from, sent) \in Seq(Byte) /\ W \in Seq(S) /\ Len(W) = N
      /\ \A i \in 1 .. N : Outcome(c, ps[i]) = <<W[i]>>
  BY <1>1, Sent
<1>3. body = Bytes(from, sent) BY <1>1 DEF Sending, Arrived
<1>4. body \in Seq(Byte) /\ body = FlattenSeq(Framed(ps)) BY <1>2, <1>3
<1> HIDE DEF ps, N, W
<1>5. body \o <<>> = FlattenSeq(Framed(ps)) /\ <<>> \in Seq(Byte) BY <1>4, ConcatEmptySeq
<1>6. Framing(ps, body) BY <1>5 DEF Framing
<1>7. PICK k \in Nat : Whole(ps, body, k) /\ frames = Flat(O, k) BY <1>2, <1>6, AtTheEnd
<1>8. k = N BY <1>2, <1>4, <1>7, WholeAll
<1>9. O \in Seq(Seq(S)) /\ Len(O) = N /\ \A i \in 1 .. N : O[i] = <<W[i]>>
  BY <1>2, OutcomesType
<1> HIDE DEF O, S
<1>10. Flat(O, N) = SubSeq(W, 1, N)
  <2>1. N <= Len(O) /\ N <= Len(W) /\ N \in Nat BY <1>2, <1>9
  <2>2. W \in Seq(S) /\ O \in Seq(Seq(S)) /\ \A i \in 1 .. N : O[i] = <<W[i]>> BY <1>2, <1>9
  <2>3. FirstSingles(O, W, N) BY <2>1, <2>2 DEF FirstSingles
  <2>4. QED BY <2>1, <2>2, <2>3, FlatSinglesFirst
<1>11. SubSeq(W, 1, N) = W BY <1>2, SubSeqFull
<1>12. QED BY <1>7, <1>8, <1>10, <1>11 DEF W

(* The invariant says at the end what CutYieldsWhole says. *)
LEMMA CodecCut == CodecInv => CutYieldsWhole
<1> DEFINE ps == Payloads(from, sent)
           N == Len(sent)
           c == from
           O == Outcomes(c, ps)
           W == Wanted
           S == FramesOf(c)
           w == Bytes(from, sent)
           F == Framed(ps)
           at == damage.at
           before == {n \in DOMAIN sent : End(n) <= at}
<1> SUFFICES ASSUME CodecInv, phase = "done", damage.kind = "cut"
             PROVE  frames = SubSeq(W, 1, Cardinality(before))
  BY DEF CutYieldsWhole
<1>1. TypeOK /\ Sending BY DEF CodecInv
<1>2. /\ N \in Nat /\ ps \in Seq(Text) /\ Len(ps) = N /\ w = FlattenSeq(F)
      /\ w \in Seq(Byte) /\ W \in Seq(S) /\ Len(W) = N
      /\ \A i \in 1 .. N : Outcome(c, ps[i]) = <<W[i]>>
  BY <1>1, Sent
<1>3. DOMAIN sent = 1 .. N /\ \A n \in 0 .. N : End(n) = Len(Flat(F, n)) BY <1>1, Sent
<1>4. at \in 0 .. Len(w) - 1 /\ body = SubSeq(w, 1, at) BY <1>1 DEF Sending, Arrived
<1>5. F \in Seq(Seq(Byte)) /\ Len(F) = N BY <1>2, FramedType
<1>6. before = {n \in 1 .. N : End(n) <= at} BY <1>3
<1> HIDE DEF ps, N, W, w, F, at, before
<1>7. Len(w) \in Nat BY <1>2, LenProperties
<1>8. /\ Len(body) = at /\ body \in Seq(Byte)
      /\ body \o SubSeq(w, at + 1, Len(w)) = w /\ SubSeq(w, at + 1, Len(w)) \in Seq(Byte)
  <2>1. \A i \in 1 .. Len(w) : w[i] \in Byte BY <1>2, ElementOfSeq
  <2>2. \A i \in 1 .. at : w[i] \in Byte BY <1>4, <1>7, <2>1
  <2>3. \A i \in at + 1 .. Len(w) : w[i] \in Byte BY <1>4, <1>7, <2>1
  <2> DEFINE one == 1
             l == Len(w)
             m == at + 1
  <2>4. one \in Int /\ at \in Int /\ l \in Int /\ m \in Int BY <1>4, <1>7
  <2>5. one \in 1 .. l + 1 /\ at \in one - 1 .. l /\ l \in at .. l BY <1>4, <1>7
  <2>6. \A i \in one .. at : w[i] \in Byte BY <2>2
  <2>7. \A i \in m .. l : w[i] \in Byte BY <2>3
  <2>8. l = Len(w) OBVIOUS
  <2>9. one = 1 /\ m = at + 1 OBVIOUS
  <2> HIDE DEF one, l, m
  <2>10. SubSeq(w, one, at) \in Seq(Byte) /\ Len(SubSeq(w, one, at)) = IF one <= at THEN at - one + 1 ELSE 0
    BY <2>4, <2>6, SubSeqProperties
  <2>11. SubSeq(w, m, l) \in Seq(Byte) BY <2>4, <2>7, SubSeqProperties
  <2>12. SubSeq(w, one, at) \o SubSeq(w, at + 1, l) = SubSeq(w, one, l)
    BY <1>2, <2>5, <2>8, ConcatAdjacentSubSeq
  <2>13. SubSeq(w, 1, Len(w)) = w BY <1>2, SubSeqFull
  <2>14. Len(SubSeq(w, one, at)) = at BY <1>4, <2>9, <2>10
  <2>15. QED BY <1>4, <2>8, <2>9, <2>10, <2>11, <2>12, <2>13, <2>14
<1>9. Framing(ps, body) BY <1>2, <1>8 DEF Framing, F
<1>10. PICK k \in Nat : Whole(ps, body, k) /\ frames = Flat(O, k) BY <1>2, <1>9, AtTheEnd
<1>11. k <= N /\ Len(Flat(F, k)) <= at /\ (k < N => at < Len(Flat(F, k + 1)))
  BY <1>2, <1>8, <1>10 DEF Whole, F
<1>12. ASSUME NEW n \in 1 .. N PROVE End(n) <= at <=> n <= k
  <2>1. n \in Nat /\ n <= N /\ n \in 0 .. N BY <1>2
  <2>2. End(n) = Len(Flat(F, n)) BY <1>3, <2>1
  <2>3. CASE n <= k
    <3>1. Len(Flat(F, n)) <= Len(Flat(F, k)) /\ Flat(F, n) \in Seq(Byte) /\ Flat(F, k) \in Seq(Byte)
      BY <1>5, <1>11, <2>1, <2>3, FlatRest
    <3>2. Len(Flat(F, n)) \in Nat /\ Len(Flat(F, k)) \in Nat BY <3>1, LenProperties
    <3>3. QED BY <1>4, <1>7, <1>11, <2>2, <2>3, <3>1, <3>2
  <2>4. CASE k < n
    <3> DEFINE l == k + 1
    <3>1. l \in Nat /\ l <= n /\ n <= Len(F) BY <1>5, <2>1, <2>4
    <3>2. at < Len(Flat(F, l)) BY <1>11, <2>1, <2>4, <1>2
    <3> HIDE DEF l
    <3>3. Len(Flat(F, l)) <= Len(Flat(F, n)) /\ Flat(F, l) \in Seq(Byte) /\ Flat(F, n) \in Seq(Byte)
      BY <1>5, <2>1, <3>1, FlatRest
    <3>4. Len(Flat(F, l)) \in Nat /\ Len(Flat(F, n)) \in Nat BY <3>3, LenProperties
    <3>5. QED BY <1>4, <1>7, <2>1, <2>2, <2>4, <3>2, <3>3, <3>4
  <2>5. QED BY <2>1, <2>3, <2>4
<1>13. before = 1 .. k
  <2>1. \A n : n \in 1 .. N /\ n <= k <=> n \in 1 .. k BY <1>2, <1>11
  <2>2. QED BY <1>6, <1>12, <2>1
<1>14. Cardinality(1 .. k) = k
  <2> DEFINE one == 1
  <2>1. one \in Int /\ k \in Int OBVIOUS
  <2>2. Cardinality(one .. k) = IF one > k THEN 0 ELSE k - one + 1
    <3> HIDE DEF one
    <3>1. QED BY <2>1, FS_Interval
  <2>3. QED BY <2>2
<1>15. O \in Seq(Seq(S)) /\ Len(O) = N /\ \A i \in 1 .. N : O[i] = <<W[i]>>
  BY <1>2, OutcomesType
<1> HIDE DEF O, S
<1>16. Flat(O, k) = SubSeq(W, 1, k)
  <2>1. k <= Len(O) /\ k <= Len(W) /\ k \in Nat BY <1>2, <1>11, <1>15
  <2>2. \A i \in 1 .. k : O[i] = <<W[i]>> BY <1>2, <1>11, <1>15
  <2>3. W \in Seq(S) /\ O \in Seq(Seq(S)) BY <1>2, <1>15
  <2>4. FirstSingles(O, W, k) BY <2>1, <2>2 DEF FirstSingles
  <2>5. QED BY <2>1, <2>3, <2>4, FlatSinglesFirst
<1>17. QED BY <1>10, <1>13, <1>14, <1>16

(* What the server and the client send arrives as it was sent: every frame *)
(* of an undamaged message, in order (RoundTrip).                          *)
THEOREM CodecCarriesEveryFrame == Spec => []RoundTrip
BY CodecRoundTrip, CodecInvariant, PTL

(* A message that is cut short gives the frames that arrived whole and     *)
(* nothing else (splitBinaryRecords stops at the truncated record).        *)
THEOREM CodecRecoversTheHead == Spec => []CutYieldsWhole
BY CodecCut, CodecInvariant, PTL

-----------------------------------------------------------------------------
(* One damaged byte. *)

(* A sequence with another element at i. *)
Altered(s, i, x) == [s EXCEPT ![i] = x]

(* A sequence with one element replaced. *)
LEMMA AlteredType ==
    ASSUME NEW S, NEW s \in Seq(S), NEW i \in 1 .. Len(s), NEW x \in S
    PROVE  /\ Altered(s, i, x) \in Seq(S) /\ Len(Altered(s, i, x)) = Len(s)
           /\ \A j \in 1 .. Len(s) : Altered(s, i, x)[j] = IF j = i THEN x ELSE s[j]
BY ExceptSeq DEF Altered

(* qs is the list of payloads ps with q in place of its payload n. *)
OneAltered(qs, ps, n, q) ==
    /\ qs \in Seq(Text) /\ Len(qs) = Len(ps)
    /\ \A i \in 1 .. Len(ps) : qs[i] = IF i = n THEN q ELSE ps[i]

(* So it is after altering it. *)
LEMMA AlteredText ==
    ASSUME NEW ps \in Seq(Text), NEW n \in 1 .. Len(ps), NEW q \in Text
    PROVE  OneAltered(Altered(ps, n, q), ps, n, q)
BY AlteredType DEF OneAltered

(* Replacing an element of the middle part. *)
Inside(a, p, r, i, x) ==
    Altered((a \o p) \o r, Len(a) + i, x) = (a \o Altered(p, i, x)) \o r

(* It changes the middle part alone. *)
LEMMA AlteredInside ==
    ASSUME NEW a \in Seq(Byte), NEW p \in Seq(Byte), NEW r \in Seq(Byte),
           NEW i \in 1 .. Len(p), NEW x \in Byte
    PROVE  Inside(a, p, r, i, x)
<1> DEFINE at == Len(a) + i
           q == Altered(p, i, x)
           ap == a \o p
           aq == a \o q
           s == ap \o r
           t == aq \o r
           e == Altered(s, at, x)
<1>1. q \in Seq(Byte) /\ Len(q) = Len(p) /\ \A j \in 1 .. Len(p) : q[j] = IF j = i THEN x ELSE p[j]
  BY AlteredType
<1>2. Len(a) \in Nat /\ Len(p) \in Nat /\ Len(r) \in Nat BY LenProperties
<1> HIDE DEF q
<1>3. /\ ap \in Seq(Byte) /\ Len(ap) = Len(a) + Len(p)
      /\ \A j \in 1 .. Len(a) + Len(p) : ap[j] = IF j <= Len(a) THEN a[j] ELSE p[j - Len(a)]
  BY ConcatProperties
<1>4. /\ aq \in Seq(Byte) /\ Len(aq) = Len(a) + Len(q)
      /\ \A j \in 1 .. Len(a) + Len(q) : aq[j] = IF j <= Len(a) THEN a[j] ELSE q[j - Len(a)]
  BY <1>1, ConcatProperties
<1>30. ap \in Seq(Byte) /\ aq \in Seq(Byte) BY <1>3, <1>4
<1> HIDE DEF ap, aq
<1>5. /\ s \in Seq(Byte) /\ Len(s) = Len(ap) + Len(r)
      /\ \A j \in 1 .. Len(ap) + Len(r) : s[j] = IF j <= Len(ap) THEN ap[j] ELSE r[j - Len(ap)]
  BY <1>30, ConcatProperties
<1>6. /\ t \in Seq(Byte) /\ Len(t) = Len(aq) + Len(r)
      /\ \A j \in 1 .. Len(aq) + Len(r) : t[j] = IF j <= Len(aq) THEN aq[j] ELSE r[j - Len(aq)]
  BY <1>30, ConcatProperties
<1> HIDE DEF s, t
<1>7. at \in 1 .. Len(s) BY <1>2, <1>3, <1>5
<1>70. at = Len(a) + i OBVIOUS
<1>71. s \in Seq(Byte) BY <1>5
<1> HIDE DEF at
<1>8. /\ e \in Seq(Byte) /\ Len(e) = Len(s)
      /\ \A j \in 1 .. Len(s) : e[j] = IF j = at THEN x ELSE s[j]
  BY <1>7, <1>71, AlteredType
<1> HIDE DEF e
<1>9. ASSUME NEW j \in 1 .. Len(e) PROVE e[j] = t[j]
  <2>0. j \in 1 .. Len(s) /\ j \in 1 .. Len(ap) + Len(r) /\ j \in 1 .. Len(aq) + Len(r)
    BY <1>1, <1>3, <1>4, <1>5, <1>8
  <2>1. e[j] = IF j = at THEN x ELSE s[j] BY <1>8, <2>0
  <2>2. s[j] = IF j <= Len(ap) THEN ap[j] ELSE r[j - Len(ap)] BY <1>5, <2>0
  <2>3. t[j] = IF j <= Len(aq) THEN aq[j] ELSE r[j - Len(aq)] BY <1>6, <2>0
  <2>4. Len(aq) = Len(ap) BY <1>1, <1>3, <1>4
  <2>5. CASE j > Len(ap)
    <3>1. j # at BY <1>2, <1>3, <1>70, <2>5
    <3>2. QED BY <2>1, <2>2, <2>3, <2>4, <2>5, <3>1, <1>2, <1>3
  <2>6. CASE j <= Len(ap)
    <3>1. j \in 1 .. Len(a) + Len(p) /\ j \in 1 .. Len(a) + Len(q) BY <1>1, <1>3, <2>0, <2>6
    <3>2. s[j] = IF j <= Len(a) THEN a[j] ELSE p[j - Len(a)] BY <1>3, <2>2, <2>6, <3>1
    <3>3. t[j] = IF j <= Len(a) THEN a[j] ELSE q[j - Len(a)] BY <1>4, <2>3, <2>4, <2>6, <3>1
    <3>4. CASE j <= Len(a)
      <4>1. j # at BY <1>2, <1>70, <3>4
      <4>2. QED BY <2>1, <3>2, <3>3, <3>4, <4>1
    <3>5. CASE j > Len(a)
      <4> DEFINE l == j - Len(a)
      <4>1. l \in 1 .. Len(p) /\ (l = i <=> j = at) /\ ~(j <= Len(a)) BY <1>2, <1>70, <3>1, <3>5
      <4>2. s[j] = p[l] /\ t[j] = q[l] BY <3>2, <3>3, <4>1
      <4> HIDE DEF l
      <4>3. q[l] = IF l = i THEN x ELSE p[l] BY <1>1, <4>1
      <4>4. QED BY <2>1, <4>1, <4>2, <4>3
    <3>6. QED BY <1>2, <3>1, <3>4, <3>5
  <2>7. QED BY <1>2, <1>3, <2>0, <2>5, <2>6
<1>10. Len(e) = Len(t) BY <1>1, <1>3, <1>4, <1>5, <1>6, <1>8
<1>11. e = t BY <1>6, <1>8, <1>9, <1>10, SeqEqual
<1>12. QED BY <1>11 DEF Inside, at, e, s, t, ap, aq, q

(* A part at the start or at the end of a sequence. *)
LEMMA StartsWith ==
    ASSUME NEW S, NEW a \in Seq(S), NEW b \in Seq(S)
    PROVE  IsPrefix(a, a \o b)
<1> DEFINE s == a \o b
           n == Len(a)
           one == 1
<1>1. /\ s \in Seq(S) /\ Len(s) = Len(a) + Len(b)
      /\ \A i \in 1 .. Len(a) + Len(b) : s[i] = IF i <= Len(a) THEN a[i] ELSE b[i - Len(a)]
  BY ConcatProperties
<1>2. n \in Nat /\ Len(b) \in Nat BY LenProperties
<1> HIDE DEF s
<1>3. SubSeq(a, 1, n) = a BY SubSeqFull
<1>4. \A i \in 1 .. n : s[i] = a[i]
  <2>1. ASSUME NEW i \in 1 .. n PROVE s[i] = a[i]
    <3>1. i \in 1 .. Len(a) + Len(b) /\ i <= Len(a) BY <1>2
    <3>2. QED BY <1>1, <3>1
  <2>2. QED BY <2>1
<1>5. \A i \in 1 .. n : a[i] \in S BY ElementOfSeq
<1>6. \A i \in one .. n : s[i] \in S BY <1>4, <1>5
<1> DEFINE c == SubSeq(s, one, n)
<1>7. one \in Int /\ n \in Int BY <1>2
<1>70. one = 1 OBVIOUS
<1> HIDE DEF one, n
<1>8. c \in Seq(S) /\ Len(c) = (IF one <= n THEN n - one + 1 ELSE 0)
      /\ \A i \in 1 .. n - one + 1 : c[i] = s[one + i - 1]
  BY <1>6, <1>7, SubSeqProperties
<1> HIDE DEF c
<1>9. n \in Nat BY <1>2 DEF n
<1>10. Len(c) = n BY <1>8, <1>9, <1>70
<1>11. ASSUME NEW i \in 1 .. n PROVE c[i] = a[i]
  <2>1. i \in 1 .. n - one + 1 /\ one + i - 1 = i BY <1>9, <1>70
  <2>2. QED BY <1>4, <1>8, <2>1
<1>12. c = a
  <2>1. Len(c) = Len(a) /\ \A i \in 1 .. Len(c) : c[i] = a[i] BY <1>10, <1>11 DEF n
  <2>2. QED BY <1>8, <2>1, SeqEqual
<1>13. n <= Len(s) BY <1>1, <1>2 DEF n
<1>14. QED BY <1>3, <1>12, <1>13, <1>70 DEF IsPrefix, c, s, n

(* A byte changed in payload n changes that payload and nothing else. *)
LEMMA DamagedBytes ==
    ASSUME NEW ps \in Seq(Text), NEW n \in 1 .. Len(ps), NEW at \in Nat, NEW x \in Byte,
           at <= Len(Flat(Framed(ps), n)), at > Len(Flat(Framed(ps), n)) - Len(ps[n])
    PROVE  \E q \in Text : Altered(FlattenSeq(Framed(ps)), at, x)
                             = FlattenSeq(Framed(Altered(ps, n, q)))
<1> DEFINE N == Len(ps)
           F == Framed(ps)
           p == ps[n]
           a == Flat(F, n - 1)
           u == Uvarint[Len(p)]
           h == a \o u
           j == at - Len(h)
           q == Altered(p, j, x)
           qs == Altered(ps, n, q)
           G == Framed(qs)
<1>1. N \in Nat /\ n \in 1 .. N /\ n - 1 \in Nat BY LenProperties
<1>2. F \in Seq(Seq(Byte)) /\ Len(F) = N /\ \A i \in 1 .. N : F[i] = appendBytes(ps[i])
  BY FramedType
<1>3. p \in Text BY ElementOfSeq
<1>4. F[n] = u \o p BY <1>1, <1>2 DEF appendBytes
<1>40. ps \in Seq(Text) OBVIOUS
<1> HIDE DEF F, N, p
<1>5. p \in Seq(Byte) /\ Len(p) \in Uint64 BY <1>3 DEF Text, List
<1>50. u \in Seq(Byte) /\ Len(p) \in Nat
  <2> DEFINE l == Len(p)
  <2>1. l \in Nat BY <1>5, LenProperties
  <2> HIDE DEF l
  <2>2. Uvarint[l] \in Seq(Byte) BY <2>1, UvarintWhole DEF Varint
  <2>3. QED BY <2>1, <2>2 DEF l
<1>6. Flat(F, n) = a \o (u \o p) /\ a \in Seq(Byte)
  <2> DEFINE m == n - 1
  <2>1. n \in 1 .. Len(F) /\ m \in 0 .. Len(F) BY <1>1, <1>2
  <2>2. \A k \in 1 .. Len(F) : Flat(F, k) = Flat(F, k - 1) \o F[k] BY <1>2, FlatSteps
  <2>3. Flat(F, n) = Flat(F, m) \o F[n] BY <2>1, <2>2
  <2> HIDE DEF m
  <2>4. Flat(F, m) \in Seq(Byte)
    <3>1. \A k \in 0 .. Len(F) : Flat(F, k) \in Seq(Byte) BY <1>2, FlatSteps
    <3>2. QED BY <2>1, <3>1
  <2>5. QED BY <1>4, <2>3, <2>4 DEF m
<1> HIDE DEF a, u
<1>7. h \in Seq(Byte) /\ Len(h) = Len(a) + Len(u) BY <1>6, <1>50, ConcatProperties
<1>8. a \o (u \o p) = h \o p
  <2>1. a \in Seq(Byte) /\ u \in Seq(Byte) /\ p \in Seq(Byte) BY <1>5, <1>6, <1>50
  <2>2. QED BY <2>1, Assoc
<1> HIDE DEF h
<1>9. Len(Flat(F, n)) = Len(h) + Len(p)
  <2>1. h \in Seq(Byte) /\ p \in Seq(Byte) BY <1>5, <1>7
  <2>2. Len(h \o p) = Len(h) + Len(p) BY <2>1, ConcatProperties
  <2>3. QED BY <1>6, <1>8, <2>2
<1>10. Len(h) \in Nat BY <1>7, LenProperties
<1>11. j \in 1 .. Len(p) /\ at = Len(h) + j
  <2>1. at <= Len(h) + Len(p) /\ at > (Len(h) + Len(p)) - Len(p)
    BY <1>9 DEF F, p
  <2>2. QED BY <2>1, <1>50, <1>10
<1> HIDE DEF j
<1>12. q \in Seq(Byte) /\ Len(q) = Len(p) BY <1>5, <1>11, AlteredType
<1>13. q \in Text BY <1>5, <1>12 DEF Text, List
<1> HIDE DEF q
<1>14. /\ qs \in Seq(Text) /\ Len(qs) = N
       /\ \A i \in 1 .. N : qs[i] = IF i = n THEN q ELSE ps[i]
  <2>1. OneAltered(qs, ps, n, q) BY <1>13, <1>40, AlteredText
  <2>2. QED BY <2>1 DEF OneAltered, N
<1> HIDE DEF qs
<1>15. G \in Seq(Seq(Byte)) /\ Len(G) = N /\ \A i \in 1 .. N : G[i] = appendBytes(qs[i])
  BY <1>14, FramedType
<1>16. G[n] = u \o q
  <2>1. G[n] = appendBytes(q) BY <1>1, <1>14, <1>15
  <2>2. QED BY <1>12, <2>1 DEF appendBytes, u
<1>17. \A i \in 1 .. N : i # n => G[i] = F[i] BY <1>2, <1>14, <1>15
<1> HIDE DEF G
<1>18. Flat(G, n - 1) = a
  <2> DEFINE zero == 0
             m == n - 1
  <2>1. zero \in Nat /\ m \in Nat /\ zero <= m /\ m <= Len(F) /\ m <= Len(G)
    BY <1>1, <1>2, <1>15
  <2>2. \A i \in zero + 1 .. m : F[i] = G[i] BY <1>1, <1>17
  <2>3. Flat(F, zero) = <<>> /\ Flat(G, zero) = <<>> BY <1>2, <1>15, FlatSteps
  <2>4. F \in Seq(Seq(Byte)) /\ G \in Seq(Seq(Byte)) BY <1>2, <1>15
  <2> HIDE DEF zero, m
  <2>5. Rest(F, G, zero, m) BY <2>1, <2>2, <2>4, SameRest
  <2>6. Flat(F, m) = Flat(G, m) BY <2>3, <2>5 DEF Rest
  <2>7. QED BY <2>6 DEF a, m
<1>19. Flat(G, n) = (h \o q)
  <2>1. n \in 1 .. Len(G) BY <1>1, <1>15
  <2>2. \A k \in 1 .. Len(G) : Flat(G, k) = Flat(G, k - 1) \o G[k] BY <1>15, FlatSteps
  <2>3. Flat(G, n) = a \o (u \o q) BY <1>16, <1>18, <2>1, <2>2
  <2>4. a \in Seq(Byte) /\ u \in Seq(Byte) /\ q \in Seq(Byte) BY <1>6, <1>12, <1>50
  <2>5. (a \o u) \o q = a \o (u \o q) BY <2>4, Assoc
  <2>6. QED BY <2>3, <2>5 DEF h
<1>20. Rest(F, G, n, N)
  <2>1. n \in Nat /\ N \in Nat /\ n <= N /\ N <= Len(F) /\ N <= Len(G) BY <1>1, <1>2, <1>15
  <2>2. \A i \in n + 1 .. N : F[i] = G[i] BY <1>1, <1>17
  <2>3. F \in Seq(Seq(Byte)) /\ G \in Seq(Seq(Byte)) BY <1>2, <1>15
  <2>4. QED BY <2>1, <2>2, <2>3, SameRest
<1>21. PICK r \in Seq(Byte) : Flat(F, N) = Flat(F, n) \o r /\ Flat(G, N) = Flat(G, n) \o r
  BY <1>20 DEF Rest
<1>22. FlattenSeq(F) = Flat(F, N) /\ FlattenSeq(G) = Flat(G, N) BY <1>2, <1>15, FlatSteps
<1>23. FlattenSeq(F) = (h \o p) \o r BY <1>6, <1>8, <1>21, <1>22
<1>24. FlattenSeq(G) = (h \o q) \o r BY <1>19, <1>21, <1>22
<1>25. Altered((h \o p) \o r, at, x) = (h \o q) \o r
  <2>1. h \in Seq(Byte) /\ p \in Seq(Byte) /\ r \in Seq(Byte) BY <1>5, <1>7
  <2>2. j \in 1 .. Len(p) BY <1>11
  <2>3. Inside(h, p, r, j, x) BY <2>1, <2>2, AlteredInside
  <2>4. QED BY <1>11, <2>3 DEF Inside, q
<1>26. Altered(FlattenSeq(F), at, x) = FlattenSeq(G) BY <1>23, <1>24, <1>25
<1>27. QED BY <1>13, <1>26 DEF F, G, qs

(* All payloads but n yield the frames W. *)
Elsewhere(O, W, N, n) ==
    Len(O) = N /\ Len(W) = N /\ \A i \in 1 .. N : i # n => O[i] = <<W[i]>>

(* What payload n yields is between the frames of the others. *)
Between(S, O, W, N, n) ==
    /\ O[n] \in Seq(S)
    /\ SubSeq(W, 1, n - 1) \in Seq(S) /\ Len(SubSeq(W, 1, n - 1)) = n - 1
    /\ SubSeq(W, n + 1, N) \in Seq(S) /\ Len(SubSeq(W, n + 1, N)) = N - n
    /\ Flat(O, N) = (SubSeq(W, 1, n - 1) \o O[n]) \o SubSeq(W, n + 1, N)

(* The outcomes elsewhere are frames; the one at n adds one frame at most. *)
LEMMA Others ==
    ASSUME NEW S, NEW O \in Seq(Seq(S)), NEW W \in Seq(S), NEW N \in Nat, NEW n \in 1 .. N,
           Elsewhere(O, W, N, n)
    PROVE  Between(S, O, W, N, n)
<1> DEFINE m == n - 1
           l == n + 1
           x == SubSeq(W, 1, m)
           y == SubSeq(W, l, N)
<1>1. n \in Nat /\ m \in Nat /\ l \in Nat /\ n <= N /\ m <= N OBVIOUS
<1>0. Len(O) = N /\ Len(W) = N /\ \A i \in 1 .. N : i # n => O[i] = <<W[i]>> BY DEF Elsewhere
<1>2. O[n] \in Seq(S)
  <2>1. n \in 1 .. Len(O) BY <1>0
  <2>2. QED BY <2>1, ElementOfSeq
<1>3. \A i \in 1 .. N : W[i] \in S BY <1>0, ElementOfSeq
<1>4. \A i \in l .. N : W[i] \in S BY <1>1, <1>3
<1>5. Flat(O, m) = x /\ x \in Seq(S) /\ Len(x) = m
  <2>1. m \in Nat /\ m <= Len(O) /\ m <= Len(W) BY <1>0, <1>1
  <2>2. \A i \in 1 .. m : O[i] = <<W[i]>> BY <1>0, <1>1
  <2> HIDE DEF m, y
  <2>3. FirstSingles(O, W, m) BY <2>1, <2>2 DEF FirstSingles
  <2>4. x \in Seq(S) /\ Len(x) = m BY <2>1, <2>3, FlatSinglesFirst
  <2>5. Flat(O, m) = x BY <2>1, <2>3, FlatSinglesFirst
  <2>6. QED BY <2>4, <2>5
<1>6. y \in Seq(S) /\ Len(y) = N - n
  <2>1. l \in Int /\ N \in Int BY <1>1
  <2>2. (IF l <= N THEN N - l + 1 ELSE 0) = N - n BY <1>1
  <2> HIDE DEF l
  <2>3. y \in Seq(S) /\ Len(y) = IF l <= N THEN N - l + 1 ELSE 0
    BY <1>4, <2>1, SubSeqProperties
  <2>4. QED BY <2>2, <2>3
<1>10. Flat(O, n) = Flat(O, m) \o O[n]
  <2>1. \A k \in 1 .. Len(O) : Flat(O, k) = Flat(O, k - 1) \o O[k] BY FlatSteps
  <2>2. n \in 1 .. Len(O) BY <1>0
  <2>3. QED BY <2>1, <2>2
<1>11. Flat(O, N) = Flat(O, n) \o SubSeq(W, n + 1, N)
  <2>1. n \in Nat /\ n <= N /\ N <= Len(O) /\ N <= Len(W) BY <1>0, <1>1
  <2>2. \A i \in n + 1 .. N : O[i] = <<W[i]>> BY <1>0, <1>1
  <2>20. O \in Seq(Seq(S)) /\ W \in Seq(S) OBVIOUS
  <2> HIDE DEF l, m, x, y
  <2>3. QED BY <2>1, <2>2, <2>20, FlatSingles
<1>12. QED BY <1>2, <1>5, <1>6, <1>10, <1>11 DEF Between

(* A byte damaged within a payload makes no frames. *)
LEMMA NothingInvented ==
    ASSUME CodecInv, phase = "done", damage.kind = "byte", NEW n \in 1 .. Len(sent),
           damage.at <= End(n), damage.at > End(n) - Len(Written(sent[n]))
    PROVE  Len(frames) <= Len(sent)
<1> DEFINE ps == Payloads(from, sent)
           N == Len(sent)
           c == from
           W == Wanted
           S == FramesOf(c)
           w == Bytes(from, sent)
           F == Framed(ps)
           at == damage.at
<1>a. at <= End(n) /\ at > End(n) - Len(Written(sent[n])) OBVIOUS
<1>1. TypeOK /\ Sending BY DEF CodecInv
<1>2. /\ N \in Nat /\ ps \in Seq(Text) /\ Len(ps) = N /\ w = FlattenSeq(F)
      /\ W \in Seq(S) /\ Len(W) = N
      /\ \A i \in 1 .. N : Outcome(c, ps[i]) = <<W[i]>>
  BY <1>1, Sent
<1>3. n \in 1 .. N /\ ps[n] = Payload(from, sent[n]) /\ End(n) = Len(Flat(F, n))
  <2>1. /\ DOMAIN sent = 1 .. N /\ \A k \in 0 .. N : End(k) = Len(Flat(F, k))
        /\ \A i \in 1 .. N : ps[i] = Payload(from, sent[i])
    BY <1>1, Sent
  <2>2. n \in 1 .. N /\ n \in 0 .. N BY <1>2, <2>1
  <2>3. QED BY <2>1, <2>2
<1>4. Written(sent[n]) = ps[n] BY <1>3 DEF Written, Payload
<1>5. at \in DOMAIN w /\ \E b \in Byte : body = [w EXCEPT ![at] = b]
  BY <1>1 DEF Sending, Arrived
<1>6. PICK b \in Byte : body = Altered(w, at, b) BY <1>5 DEF Altered
<1>7. at \in Nat BY <1>1 DEF TypeOK
<1> HIDE DEF ps, N, W, w, at
<1>8. at <= Len(Flat(Framed(ps), n)) /\ at > Len(Flat(Framed(ps), n)) - Len(ps[n])
  BY <1>3, <1>4, <1>a
<1>9. PICK q \in Text : Altered(FlattenSeq(Framed(ps)), at, b)
                          = FlattenSeq(Framed(Altered(ps, n, q)))
  <2>1. n \in 1 .. Len(ps) /\ ps \in Seq(Text) BY <1>2, <1>3
  <2>2. QED BY <1>7, <1>8, <2>1, DamagedBytes
<1> DEFINE qs == Altered(ps, n, q)
           O == Outcomes(c, qs)
<1>10. body = FlattenSeq(Framed(qs)) BY <1>2, <1>6, <1>9
<1>11. /\ qs \in Seq(Text) /\ Len(qs) = N
       /\ \A i \in 1 .. N : qs[i] = IF i = n THEN q ELSE ps[i]
  <2>1. n \in 1 .. Len(ps) /\ ps \in Seq(Text) BY <1>2, <1>3
  <2> HIDE DEF qs
  <2> DEFINE T == Text
             rs == Altered(ps, n, q)
  <2>10. n \in 1 .. Len(ps) /\ ps \in Seq(T) /\ q \in T BY <2>1
  <2> HIDE DEF T
  <2>11. rs \in Seq(T) /\ Len(rs) = Len(ps) BY <2>10, AlteredType
  <2>12. \A i \in 1 .. Len(ps) : rs[i] = IF i = n THEN q ELSE ps[i]
    BY <2>10, AlteredType
  <2>2. /\ qs \in Seq(Text) /\ Len(qs) = Len(ps)
        /\ \A i \in 1 .. Len(ps) : qs[i] = IF i = n THEN q ELSE ps[i]
    BY <2>11, <2>12 DEF qs, T
  <2>3. QED BY <1>2, <2>2
<1> HIDE DEF qs
<1>12. body \in Seq(Byte) BY <1>1 DEF TypeOK
<1>13. body \o <<>> = FlattenSeq(Framed(qs)) /\ <<>> \in Seq(Byte) BY <1>10, <1>12, ConcatEmptySeq
<1>14. Framing(qs, body) BY <1>13 DEF Framing
<1>15. PICK k \in Nat : Whole(qs, body, k) /\ frames = Flat(O, k) BY <1>11, <1>14, <1>a, AtTheEnd
<1>16. k = N BY <1>10, <1>11, <1>15, WholeAll
<1>17. O \in Seq(Seq(S)) /\ Len(O) = N /\ \A i \in 1 .. N : O[i] = Outcome(c, qs[i])
  BY <1>11, OutcomesType
<1>18. \A i \in 1 .. N : i # n => O[i] = <<W[i]>> BY <1>2, <1>11, <1>17
<1>19. Len(O[n]) \in {0, 1}
  <2> DEFINE d == Decoded(c, q)
  <2>1. O[n] = <<>> \/ O[n] = <<d>> BY <1>3, <1>11, <1>17 DEF Outcome
  <2> HIDE DEF d, O
  <2>2. Len(<<>>) = 0 /\ Len(<<d>>) = 1 OBVIOUS
  <2>3. QED BY <2>1, <2>2
<1> HIDE DEF O, S
<1> DEFINE x == SubSeq(W, 1, n - 1)
           y == SubSeq(W, n + 1, N)
           o == O[n]
<1>20. /\ o \in Seq(S) /\ x \in Seq(S) /\ Len(x) = n - 1 /\ y \in Seq(S) /\ Len(y) = N - n
       /\ Flat(O, N) = (x \o o) \o y
  <2>1. O \in Seq(Seq(S)) /\ W \in Seq(S) /\ N \in Nat /\ n \in 1 .. N BY <1>2, <1>3, <1>17
  <2>10. Elsewhere(O, W, N, n) BY <1>2, <1>17, <1>18 DEF Elsewhere
  <2> HIDE DEF x, y, o
  <2>2. Between(S, O, W, N, n) BY <2>1, <2>10, Others
  <2>3. QED BY <2>2 DEF Between, x, y, o
<1> HIDE DEF x, y, o
<1>21. o \in Seq(S) /\ x \in Seq(S) /\ y \in Seq(S) BY <1>20
<1>22. frames = (x \o o) \o y BY <1>15, <1>16, <1>20
<1>23. x \o o \in Seq(S) /\ Len(x \o o) = Len(x) + Len(o) BY <1>21, ConcatProperties
<1>24. Len((x \o o) \o y) = Len(x \o o) + Len(y) BY <1>21, <1>23, ConcatProperties
<1>25. Len(frames) = ((n - 1) + Len(o)) + (N - n) BY <1>20, <1>22, <1>23, <1>24
<1>26. Len(o) \in {0, 1} BY <1>19 DEF o
<1>27. QED
  <2>1. N \in Nat /\ n \in 1 .. N BY <1>2, <1>3
  <2> DEFINE e == Len(o)
             all == Len(frames)
  <2>2. all = ((n - 1) + e) + (N - n) /\ e \in {0, 1} BY <1>25, <1>26
  <2> HIDE DEF e, all
  <2>3. all <= N BY <2>1, <2>2
  <2>4. QED BY <2>3 DEF all, N

-----------------------------------------------------------------------------
(* Whatever stands behind them, whole records are found and decoded.       *)

(* The bytes start with the records of ps. *)
Leads(ps, bytes) == \E t \in Seq(Byte) : bytes = FlattenSeq(Framed(ps)) \o t

(* The splitter stands at the record behind k of ps. *)
Behind(ps, bytes, k, buf) == k < Len(ps) /\ bytes = Flat(Framed(ps), k) \o buf

(* The splitter has found all of ps, and perhaps more, or stands at the    *)
(* next of them.                                                           *)
Heading(ps, bytes, found, rd) ==
    \/ Found(found, ps)
    \/ Found(ps, found) /\ ~rd.err /\ Behind(ps, bytes, Len(found), rd.buf)

(* The next of them is whole. *)
LEMMA NextWhole ==
    ASSUME NEW ps \in Seq(Text), NEW bytes \in Seq(Byte), Leads(ps, bytes),
           NEW k \in Nat, NEW buf \in Seq(Byte), Behind(ps, bytes, k, buf)
    PROVE  \E y \in Seq(Byte) : /\ buf = appendBytes(ps[k + 1]) \o y
                                /\ bytes = Flat(Framed(ps), k + 1) \o y
<1> DEFINE F == Framed(ps)
           N == Len(ps)
           G == Flat(F, k)
           H == Flat(F, k + 1)
           fr == appendBytes(ps[k + 1])
<1>1. F \in Seq(Seq(Byte)) /\ Len(F) = N /\ \A i \in 1 .. N : F[i] = appendBytes(ps[i])
  BY FramedType
<1>2. N \in Nat /\ k < N BY LenProperties DEF Behind
<1>3. PICK t \in Seq(Byte) : bytes = FlattenSeq(F) \o t BY DEF Leads
<1>4. FlattenSeq(F) = Flat(F, N) BY <1>1, FlatSteps
<1>40. bytes = G \o buf BY DEF Behind
<1> HIDE DEF F, N
<1>5. k + 1 \in 1 .. Len(F) /\ k + 1 \in 1 .. N /\ (k + 1) - 1 = k /\ k \in 0 .. Len(F)
  BY <1>1, <1>2
<1>6. G \in Seq(Byte)
  <2>1. \A i \in 0 .. Len(F) : Flat(F, i) \in Seq(Byte) BY <1>1, FlatSteps
  <2>2. QED BY <1>5, <2>1
<1>7. fr = F[k + 1] BY <1>1, <1>5
<1>8. fr \in Seq(Byte)
  <2>1. F[k + 1] \in Seq(Byte) BY <1>1, <1>5, ElementOfSeq
  <2>2. QED BY <1>7, <2>1
<1>9. H = G \o fr
  <2>1. \A i \in 1 .. Len(F) : Flat(F, i) = Flat(F, i - 1) \o F[i] BY <1>1, FlatSteps
  <2>2. Flat(F, k + 1) = Flat(F, (k + 1) - 1) \o F[k + 1] BY <1>5, <2>1
  <2>3. QED BY <1>5, <1>7, <2>2
<1>10. PICK r \in Seq(Byte) : Flat(F, N) = H \o r
  <2> DEFINE l == k + 1
  <2>1. l \in Nat /\ l <= N /\ N <= Len(F) BY <1>1, <1>2
  <2> HIDE DEF l
  <2>2. \E r \in Seq(Byte) : Flat(F, N) = Flat(F, l) \o r BY <1>1, <1>2, <2>1, FlatRest
  <2>3. QED BY <2>2 DEF l
<1> HIDE DEF G, H, fr
<1>11. H \in Seq(Byte) BY <1>6, <1>8, <1>9, ConcatProperties
<1> DEFINE y == r \o t
<1>12. y \in Seq(Byte) BY ConcatProperties
<1>13. bytes = (H \o r) \o t BY <1>3, <1>4, <1>10
<1>14. (H \o r) \o t = H \o y BY <1>11, Assoc
<1> HIDE DEF y
<1>15. (G \o fr) \o y = G \o (fr \o y) BY <1>6, <1>8, <1>12, Assoc
<1>16. G \o buf = G \o (fr \o y) BY <1>9, <1>13, <1>14, <1>15, <1>40
<1>17. fr \o y \in Seq(Byte) BY <1>8, <1>12, ConcatProperties
<1>18. buf = fr \o y BY <1>6, <1>16, <1>17, CancelLeft
<1>19. bytes = H \o y BY <1>13, <1>14
<1>20. QED BY <1>12, <1>18, <1>19 DEF fr, H, F

(* A step of the splitter. *)
LEMMA HeadingStep ==
    ASSUME NEW ps \in Seq(Text), NEW bytes \in Seq(Byte), Leads(ps, bytes),
           NEW found \in Seq(Seq(Byte)), NEW rd \in Readers,
           Heading(ps, bytes, found, rd), ~rd.err
    PROVE  LET one == GetSlice(rd)
           IN  Heading(ps, bytes, IF one.rd.err THEN found ELSE Append(found, one.value), one.rd)
<1> DEFINE one == GetSlice(rd)
           k == Len(found)
           buf == rd.buf
           p == ps[k + 1]
           next == IF one.rd.err THEN found ELSE Append(found, one.value)
<1>1. rd = Reader(buf) /\ buf \in Seq(Byte) BY DEF Readers, Reader
<1>2. k \in Nat /\ Len(ps) \in Nat BY LenProperties
<1>3. one.value \in Seq(Byte)
  <2>1. one.value \in Text BY GetSliceType
  <2> HIDE DEF one
  <2>2. QED BY <2>1 DEF Text, List
<1>4. CASE Found(found, ps)
  <2> HIDE DEF one
  <2> DEFINE more == Append(found, one.value)
  <2>1. Len(more) = k + 1 /\ \A i \in 1 .. k : more[i] = found[i]
    BY <1>3, AppendProperties
  <2> HIDE DEF more
  <2>2. Len(ps) <= k /\ \A i \in 1 .. Len(ps) : ps[i] = found[i] BY <1>4 DEF Found
  <2> HIDE DEF k
  <2>3. Len(ps) <= Len(more) /\ \A i \in 1 .. Len(ps) : ps[i] = more[i] BY <1>2, <2>1, <2>2
  <2>4. Found(more, ps) BY <2>3 DEF Found
  <2>5. Found(next, ps) BY <1>4, <2>4 DEF more
  <2>6. QED BY <2>5 DEF Heading, one
<1>5. CASE Found(ps, found) /\ ~rd.err /\ Behind(ps, bytes, k, buf)
  <2>1. k < Len(ps) BY <1>5 DEF Behind
  <2>2. /\ Append(found, p) \in Seq(Seq(Byte)) /\ Len(Append(found, p)) = k + 1
        /\ Found(ps, Append(found, p))
    BY <1>5, <2>1, FoundMore
  <2>3. p \in Text
    <3>1. k + 1 \in 1 .. Len(ps) BY <1>2, <2>1
    <3>2. QED BY <3>1, ElementOfSeq
  <2> HIDE DEF buf, k
  <2>4. PICK y \in Seq(Byte) : buf = appendBytes(p) \o y /\ bytes = Flat(Framed(ps), k + 1) \o y
    BY <1>1, <1>2, <1>5, NextWhole
  <2> HIDE DEF p
  <2>5. GetSlice(Reader(appendBytes(p) \o y)) = [rd |-> Reader(y), value |-> p]
    BY <2>3, GetSlicePut
  <2>6. one = [rd |-> Reader(y), value |-> p] BY <1>1, <2>4, <2>5
  <2>7. ~Reader(y).err /\ Reader(y).buf = y BY DEF Reader
  <2> DEFINE more == Append(found, p)
  <2>8. Len(more) = k + 1 /\ Found(ps, more) BY <2>2
  <2>9. one.rd = Reader(y) /\ one.value = p BY <2>6
  <2>10. next = more BY <2>7, <2>9
  <2> HIDE DEF more, one, next
  <2>11. CASE k + 1 = Len(ps)
    <3>1. Len(ps) <= Len(more) /\ \A i \in 1 .. Len(ps) : ps[i] = more[i]
      BY <1>2, <2>8, <2>11 DEF Found
    <3>2. Found(more, ps) BY <3>1 DEF Found
    <3>3. QED BY <2>10, <3>2 DEF Heading, next, one
  <2>12. CASE k + 1 # Len(ps)
    <3>1. k + 1 < Len(ps) BY <1>2, <2>1, <2>12
    <3>2. Behind(ps, bytes, Len(more), Reader(y).buf) BY <2>4, <2>7, <2>8, <3>1 DEF Behind
    <3>3. Heading(ps, bytes, more, Reader(y)) BY <2>7, <2>8, <3>2 DEF Heading
    <3>4. QED BY <2>9, <2>10, <3>3 DEF next, one
  <2>13. QED BY <2>11, <2>12
<1>6. QED BY <1>4, <1>5 DEF Heading

(* The splitter does not end before it has found all of ps. *)
LEMMA HeadingDone ==
    ASSUME NEW ps \in Seq(Text), NEW bytes \in Seq(Byte), Leads(ps, bytes),
           NEW found \in Seq(Seq(Byte)), NEW rd \in Readers,
           Heading(ps, bytes, found, rd), rd.err \/ rd.buf = <<>>
    PROVE  Found(found, ps)
<1> SUFFICES ASSUME Found(ps, found), ~rd.err, Behind(ps, bytes, Len(found), rd.buf)
             PROVE  FALSE
  BY DEF Heading
<1> DEFINE k == Len(found)
           buf == rd.buf
           fr == appendBytes(ps[k + 1])
<1>1. buf \in Seq(Byte) /\ buf = <<>> BY DEF Readers
<1>2. k \in Nat /\ Len(ps) \in Nat /\ k < Len(ps) BY LenProperties DEF Behind
<1>3. PICK y \in Seq(Byte) : buf = fr \o y
  <2>1. Behind(ps, bytes, k, buf) /\ buf \in Seq(Byte) /\ k \in Nat BY <1>1, <1>2
  <2> HIDE DEF k, buf
  <2>2. \E y \in Seq(Byte) : /\ buf = appendBytes(ps[k + 1]) \o y
                             /\ bytes = Flat(Framed(ps), k + 1) \o y
    BY <2>1, NextWhole
  <2>3. QED BY <2>2
<1>4. fr \in Seq(Byte) /\ Len(fr) >= 1
  <2>1. k + 1 \in 1 .. Len(ps) BY <1>2
  <2>2. ps[k + 1] \in Text BY <2>1, ElementOfSeq
  <2> DEFINE p == ps[k + 1]
  <2>3. p \in Seq(Byte) BY <2>2 DEF Text, List
  <2> HIDE DEF p
  <2>4. appendBytes(p) \in Seq(Byte) /\ Len(appendBytes(p)) >= 1 BY <2>3, AppendBytesType
  <2>5. QED BY <2>4 DEF p
<1> HIDE DEF fr, buf
<1>5. Len(fr \o y) = Len(fr) + Len(y) BY <1>4, ConcatProperties
<1>6. Len(fr) \in Nat /\ Len(y) \in Nat BY <1>4, LenProperties
<1>7. Len(buf) = 0 BY <1>1, EmptySeq
<1>8. QED BY <1>3, <1>4, <1>5, <1>6, <1>7

(* Of ps the first j are decoded and the others wait, or all are decoded.  *)
Waiting(ps, rs, j) ==
    /\ j <= Len(ps) /\ Len(ps) - j <= Len(rs)
    /\ \A i \in 1 .. Len(ps) - j : rs[i] = ps[j + i]

Fetched(c, ps, rs, fs) ==
    \/ \E j \in Nat : Waiting(ps, rs, j) /\ fs = Flat(Outcomes(c, ps), j)
    \/ \E y \in Seq(FramesOf(c)) : fs = Flat(Outcomes(c, ps), Len(ps)) \o y

(* Before anything is decoded. *)
LEMMA FetchedFirst ==
    ASSUME NEW c, NEW ps \in Seq(Text), NEW rs \in Seq(Seq(Byte)), Found(rs, ps)
    PROVE  Fetched(c, ps, rs, <<>>)
<1> DEFINE O == Outcomes(c, ps)
           zero == 0
<1>1. Flat(O, zero) = <<>> BY OutcomesType, FlatSteps
<1>2. Len(ps) \in Nat /\ Len(rs) \in Nat BY LenProperties
<1>3. Len(ps) <= Len(rs) /\ \A i \in 1 .. Len(ps) : rs[i] = ps[i] BY DEF Found
<1>4. Waiting(ps, rs, zero) BY <1>2, <1>3 DEF Waiting
<1> HIDE DEF O
<1>5. QED BY <1>1, <1>4 DEF Fetched, O

(* Decoding the next record. *)
LEMMA FetchedNext ==
    ASSUME NEW c, NEW ps \in Seq(Text), NEW rs \in Seq(Seq(Byte)), rs # <<>>,
           NEW fs \in Seq(FramesOf(c)), Fetched(c, ps, rs, fs)
    PROVE  LET frame == Decoded(c, Head(rs))
           IN  Fetched(c, ps, Tail(rs), IF frame = Nil THEN fs ELSE Append(fs, frame))
<1> DEFINE O == Outcomes(c, ps)
           frame == Decoded(c, Head(rs))
           gain == IF frame = Nil THEN <<>> ELSE <<frame>>
           next == IF frame = Nil THEN fs ELSE Append(fs, frame)
           S == FramesOf(c)
           N == Len(ps)
<1>1. N \in Nat /\ Len(rs) \in Nat /\ Len(rs) # 0 BY LenProperties, EmptySeq
<1>2. /\ Head(rs) = rs[1] /\ Head(rs) \in Seq(Byte) /\ Len(Tail(rs)) = Len(rs) - 1
      /\ \A i \in 1 .. Len(Tail(rs)) : Tail(rs)[i] = rs[i + 1]
  BY HeadTailProperties
<1>3. frame \in S \cup {Nil} BY <1>2, DecodedType
<1>4. /\ O \in Seq(Seq(S)) /\ Len(O) = N /\ \A i \in 1 .. N : O[i] = Outcome(c, ps[i])
  BY OutcomesType
<1>5. frame = Decoded(c, rs[1]) BY <1>2
<1> HIDE DEF O, S, frame, N
<1>6. gain \in Seq(S) /\ next = fs \o gain
  <2>1. CASE frame = Nil
    <3>1. gain = <<>> /\ next = fs BY <2>1
    <3>2. fs \o <<>> = fs BY ConcatEmptySeq
    <3>3. QED BY <3>1, <3>2
  <2>2. CASE frame # Nil
    <3>1. gain = <<frame>> /\ next = Append(fs, frame) BY <2>2
    <3>2. frame \in S BY <1>3, <2>2
    <3>3. Append(fs, frame) = fs \o <<frame>> BY <3>2, AppendIsConcat DEF S
    <3>4. QED BY <3>1, <3>2, <3>3
  <2>3. QED BY <2>1, <2>2
<1> HIDE DEF gain, next
<1>7. Flat(O, N) \in Seq(S)
  <2>1. N \in 0 .. Len(O) BY <1>1, <1>4
  <2>2. \A i \in 0 .. Len(O) : Flat(O, i) \in Seq(S) BY <1>4, FlatSteps
  <2>3. QED BY <2>1, <2>2
<1>8. ASSUME NEW y \in Seq(S), fs = Flat(O, N) \o y
      PROVE  \E z \in Seq(S) : next = Flat(O, N) \o z
  <2> DEFINE f == Flat(O, N)
             z == y \o gain
  <2>1. f \in Seq(S) /\ z \in Seq(S) BY <1>6, <1>7, ConcatProperties
  <2> HIDE DEF f
  <2>2. (f \o y) \o gain = f \o z BY <1>6, <2>1, ConcatAssociative, SMTT(60)
  <2>3. next = f \o z BY <1>6, <1>8, <2>2 DEF f
  <2>4. QED BY <2>1, <2>3 DEF f
<1>9. ASSUME NEW j \in Nat, Waiting(ps, rs, j), fs = Flat(O, j), j < N
      PROVE  Waiting(ps, Tail(rs), j + 1) /\ next = Flat(O, j + 1)
  <2>1. Waiting(ps, Tail(rs), j + 1)
    <3>1. j <= N /\ N - j <= Len(rs) /\ \A i \in 1 .. N - j : rs[i] = ps[j + i]
      BY <1>9 DEF Waiting, N
    <3>2. j + 1 <= N /\ N - (j + 1) <= Len(Tail(rs)) BY <1>1, <1>2, <1>9, <3>1
    <3>3. ASSUME NEW i \in 1 .. N - (j + 1) PROVE Tail(rs)[i] = ps[(j + 1) + i]
      <4>1. i \in 1 .. Len(Tail(rs)) /\ i + 1 \in 1 .. N - j /\ j + (i + 1) = (j + 1) + i
        BY <1>1, <1>2, <3>1, <3>2
      <4>2. Tail(rs)[i] = rs[i + 1] BY <1>2, <4>1
      <4>3. rs[i + 1] = ps[j + (i + 1)] BY <3>1, <4>1
      <4>4. QED BY <4>1, <4>2, <4>3
    <3>4. QED BY <3>2, <3>3 DEF Waiting, N
  <2>2. rs[1] = ps[j + 1]
    <3>1. 1 \in 1 .. N - j BY <1>1, <1>9
    <3>2. \A i \in 1 .. N - j : rs[i] = ps[j + i] BY <1>9 DEF Waiting, N
    <3>3. QED BY <3>1, <3>2
  <2>3. gain = Outcome(c, ps[j + 1]) BY <1>5, <2>2 DEF gain, Outcome
  <2>4. j + 1 \in 1 .. N /\ j + 1 \in 1 .. Len(O) /\ (j + 1) - 1 = j BY <1>1, <1>4, <1>9
  <2>5. \A i \in 1 .. Len(O) : Flat(O, i) = Flat(O, i - 1) \o O[i] BY <1>4, FlatSteps
  <2>6. Flat(O, j + 1) = Flat(O, j) \o O[j + 1] BY <2>4, <2>5
  <2>7. O[j + 1] = gain BY <1>4, <2>3, <2>4
  <2>8. QED BY <1>6, <1>9, <2>1, <2>6, <2>7
<1>10. ASSUME NEW j \in Nat, Waiting(ps, rs, j), fs = Flat(O, j), ~(j < N)
       PROVE  \E z \in Seq(S) : next = Flat(O, N) \o z
  <2>1. j = N BY <1>1, <1>10 DEF Waiting, N
  <2>2. fs = Flat(O, N) BY <1>10, <2>1
  <2>3. QED BY <1>6, <2>2
<1>11. Fetched(c, ps, Tail(rs), next)
  <2>1. ASSUME NEW y \in Seq(S), fs = Flat(O, N) \o y PROVE Fetched(c, ps, Tail(rs), next)
    BY <1>8, <2>1 DEF Fetched, O, S, N
  <2>2. ASSUME NEW j \in Nat, Waiting(ps, rs, j), fs = Flat(O, j)
        PROVE  Fetched(c, ps, Tail(rs), next)
    <3>1. CASE j < N
      <4>1. Waiting(ps, Tail(rs), j + 1) /\ next = Flat(O, j + 1) /\ j + 1 \in Nat
        BY <1>9, <2>2, <3>1
      <4>2. QED BY <4>1 DEF Fetched, O
    <3>2. CASE ~(j < N)
      <4>1. \E z \in Seq(S) : next = Flat(O, N) \o z BY <1>10, <2>2, <3>2
      <4>2. QED BY <4>1 DEF Fetched, O, S, N
    <3>3. QED BY <3>1, <3>2
  <2>3. QED BY <2>1, <2>2 DEF Fetched, O, S, N
<1>12. QED BY <1>11 DEF next, frame

(* When nothing is left to decode, what ps comes to leads the frames. *)
LEMMA FetchedAll ==
    ASSUME NEW c, NEW ps \in Seq(Text), NEW fs \in Seq(FramesOf(c)), Fetched(c, ps, <<>>, fs)
    PROVE  \E y \in Seq(FramesOf(c)) : fs = Flat(Outcomes(c, ps), Len(ps)) \o y
<1> DEFINE O == Outcomes(c, ps)
           S == FramesOf(c)
           N == Len(ps)
           none == <<>>
<1>1. N \in Nat /\ Len(none) = 0 BY LenProperties, EmptySeq
<1>2. ASSUME NEW j \in Nat, Waiting(ps, none, j), fs = Flat(O, j)
      PROVE  \E y \in Seq(S) : fs = Flat(O, N) \o y
  <2>1. j <= N /\ N - j <= Len(none) BY <1>2 DEF Waiting
  <2> HIDE DEF none, N, O
  <2>2. j = N BY <1>1, <2>1
  <2>3. fs \o <<>> = fs /\ <<>> \in Seq(S) BY ConcatEmptySeq
  <2>4. QED BY <1>2, <2>2, <2>3
<1>3. QED BY <1>2 DEF Fetched

-----------------------------------------------------------------------------
(* Of records that lead the bytes the splitter misses none and the decoder *)
(* loses no frame, whatever stands behind them.                            *)
Leading ==
    phase = "split" =>
        \A ps \in Seq(Text) : Leads(ps, body) => Heading(ps, body, records, reader)

Keeping ==
    phase \in {"decode", "done"} =>
        \A ps \in Seq(Text) : Leads(ps, body) => Fetched(from, ps, records, frames)

HeadInv == Leading /\ Keeping

(* It holds when the bytes arrive. *)
LEMMA HeadArrives ==
    ASSUME CodecInv, CodecInv', OnItsWay, NEW bytes, NEW what, NEW at, Arrives(bytes, what, at)
    PROVE  HeadInv'
<1>1. phase' = "split" /\ reader' = Reader(body') /\ records' = records /\ records = <<>>
  BY DEF Arrives, OnItsWay, CodecInv, Sending
<1>2. body' \in Seq(Byte) BY DEF CodecInv, TypeOK
<1>3. ASSUME NEW ps \in Seq(Text) PROVE Heading(ps, body', records', reader')
  <2> DEFINE F == Framed(ps)
             none == <<>>
             zero == 0
             b == body'
  <2>1. Len(ps) \in Nat /\ Len(none) = zero BY LenProperties, EmptySeq
  <2>2. records' = none /\ reader' = Reader(b) /\ ~Reader(b).err /\ Reader(b).buf = b
    BY <1>1 DEF Reader
  <2>3. none \o b = b BY <1>2, ConcatEmptySeq
  <2>4. Flat(F, zero) = none BY FramedType, FlatSteps
  <2>5. Found(ps, none) BY <2>1 DEF Found
  <2> HIDE DEF none, F, b
  <2>6. CASE Len(ps) = 0
    <3>1. Found(none, ps) BY <2>1, <2>6 DEF Found
    <3>2. QED BY <2>2, <3>1 DEF Heading
  <2>7. CASE Len(ps) # 0
    <3>1. Len(none) < Len(ps) BY <2>1, <2>7
    <3>2. b = Flat(F, Len(none)) \o b BY <2>1, <2>3, <2>4
    <3>3. Behind(ps, b, Len(none), b) BY <3>1, <3>2 DEF Behind, F
    <3>4. Heading(ps, b, none, Reader(b)) BY <2>2, <2>5, <3>3 DEF Heading
    <3>5. QED BY <2>2, <3>4 DEF b
  <2>8. QED BY <2>6, <2>7
<1>4. Leading' BY <1>3 DEF Leading
<1>5. Keeping' BY <1>1 DEF Keeping
<1>6. QED BY <1>4, <1>5 DEF HeadInv

(* Every step keeps it. *)
LEMMA HeadStep == CodecInv /\ CodecInv' /\ HeadInv /\ [Next]_vars => HeadInv'
<1> SUFFICES ASSUME CodecInv, CodecInv', HeadInv, [Next]_vars PROVE HeadInv' OBVIOUS
<1>0. TypeOK /\ Sending /\ Leading /\ Keeping BY DEF CodecInv, HeadInv
<1>1. ASSUME phase' = "write" PROVE HeadInv' BY <1>1 DEF HeadInv, Leading, Keeping
<1>2. CASE (\E f \in ServerSamples : ServerWrites(f)) \/ (\E f \in ClientSamples : ClientWrites(f))
  <2>1. phase' = "write" BY <1>2 DEF ServerWrites, ClientWrites
  <2>2. QED BY <1>1, <2>1
<1>3. CASE ArrivesWhole \/ ArrivesCut \/ ArrivesDamaged
  <2>1. OnItsWay BY <1>3 DEF ArrivesWhole, ArrivesCut, ArrivesDamaged
  <2>2. \E bytes, what, at : Arrives(bytes, what, at)
    BY <1>3, Zenon DEF ArrivesWhole, ArrivesCut, ArrivesDamaged
  <2>3. QED BY <2>1, <2>2, HeadArrives
<1>4. CASE SplitOne
  <2> DEFINE record == GetSlice(reader)
  <2>1. /\ phase = "split" /\ ~reader.err /\ reader' = record.rd
        /\ records' = IF record.rd.err THEN records ELSE Append(records, record.value)
        /\ body' = body /\ phase' = phase
    BY <1>4 DEF SplitOne
  <2>2. reader \in Readers /\ records \in Seq(Seq(Byte)) /\ body \in Seq(Byte)
    BY <1>0 DEF TypeOK, Readers
  <2>3. ASSUME NEW ps \in Seq(Text), Leads(ps, body)
        PROVE  Heading(ps, body, records', reader')
    <3>1. Heading(ps, body, records, reader) BY <1>0, <2>1, <2>3 DEF Leading
    <3>2. Heading(ps, body, IF record.rd.err THEN records ELSE Append(records, record.value),
                  record.rd)
      BY <2>1, <2>2, <2>3, <3>1, HeadingStep
    <3> HIDE DEF record
    <3>3. QED BY <2>1, <3>2
  <2>4. Leading' BY <2>1, <2>3 DEF Leading
  <2>5. Keeping' BY <2>1 DEF Keeping
  <2>6. QED BY <2>4, <2>5 DEF HeadInv
<1>5. CASE SplitEnds
  <2>1. /\ phase = "split" /\ (reader.buf = <<>> \/ reader.err) /\ phase' = "decode"
        /\ from' = from /\ body' = body /\ records' = records /\ frames' = frames
    BY <1>5 DEF SplitEnds
  <2>2. reader \in Readers /\ records \in Seq(Seq(Byte)) /\ body \in Seq(Byte) /\ frames = <<>>
    BY <1>0, <2>1 DEF TypeOK, Readers, Sending
  <2>3. ASSUME NEW ps \in Seq(Text), Leads(ps, body)
        PROVE  Fetched(from, ps, records, frames)
    <3>1. Heading(ps, body, records, reader) BY <1>0, <2>1, <2>3 DEF Leading
    <3>2. Found(records, ps) BY <2>1, <2>2, <2>3, <3>1, HeadingDone
    <3>3. Fetched(from, ps, records, <<>>) BY <2>2, <3>2, FetchedFirst
    <3>4. QED BY <2>2, <3>3
  <2>4. Keeping' BY <2>1, <2>3 DEF Keeping
  <2>5. Leading' BY <2>1 DEF Leading
  <2>6. QED BY <2>4, <2>5 DEF HeadInv
<1>6. CASE DecodeOne
  <2> DEFINE frame == Decoded(from, Head(records))
  <2>1. /\ phase = "decode" /\ records # <<>> /\ records' = Tail(records)
        /\ frames' = IF frame = Nil THEN frames ELSE Append(frames, frame)
        /\ from' = from /\ body' = body /\ phase' = phase
    BY <1>6 DEF DecodeOne, Decode, Decoded
  <2>2. records \in Seq(Seq(Byte)) /\ frames \in Seq(FramesOf(from))
    BY <1>0 DEF TypeOK, FramesOf
  <2>3. ASSUME NEW ps \in Seq(Text), Leads(ps, body)
        PROVE  Fetched(from, ps, records', frames')
    <3>1. Fetched(from, ps, records, frames) BY <1>0, <2>1, <2>3 DEF Keeping
    <3>2. Fetched(from, ps, Tail(records), IF frame = Nil THEN frames ELSE Append(frames, frame))
      BY <2>1, <2>2, <3>1, FetchedNext
    <3> HIDE DEF frame
    <3>3. QED BY <2>1, <3>2
  <2>4. Keeping' BY <2>1, <2>3 DEF Keeping
  <2>5. Leading' BY <2>1 DEF Leading
  <2>6. QED BY <2>4, <2>5 DEF HeadInv
<1>7. CASE DecodeEnds
  <2>1. /\ phase = "decode" /\ phase' = "done" /\ from' = from /\ body' = body
        /\ records' = records /\ frames' = frames
    BY <1>7 DEF DecodeEnds
  <2>2. Keeping' BY <1>0, <2>1 DEF Keeping
  <2>3. Leading' BY <2>1 DEF Leading
  <2>4. QED BY <2>2, <2>3 DEF HeadInv
<1>8. CASE UNCHANGED vars
  <2>1. /\ phase' = phase /\ from' = from /\ body' = body /\ reader' = reader
        /\ records' = records /\ frames' = frames
    BY <1>8 DEF vars
  <2>2. Keeping' BY <1>0, <2>1 DEF Keeping
  <2>3. Leading' BY <1>0, <2>1 DEF Leading
  <2>4. QED BY <2>2, <2>3 DEF HeadInv
<1>9. QED BY <1>2, <1>3, <1>4, <1>5, <1>6, <1>7, <1>8 DEF Next

(* Records that arrive whole are decoded, whatever follows them: as soon   *)
(* as the splitter ends it has found them all, and no later record takes a *)
(* decoded frame away.                                                     *)
THEOREM HeadInvariant == Spec => []HeadInv
<1>1. Init => HeadInv BY DEF Init, HeadInv, Leading, Keeping
<1>2. QED BY <1>1, HeadStep, CodecInvariant, PTL DEF Spec

(* Bytes altered behind their head. *)
LEMMA HeadStays ==
    ASSUME NEW a \in Seq(Byte), NEW r \in Seq(Byte), NEW at \in 1 .. Len(a \o r), at > Len(a),
           NEW x \in Byte
    PROVE  \E q \in Seq(Byte) : Altered(a \o r, at, x) = a \o q
<1> DEFINE j == at - Len(a)
           q == Altered(r, j, x)
           none == <<>>
           w == a \o r
<1>1. w \in Seq(Byte) /\ Len(w) = Len(a) + Len(r) BY ConcatProperties
<1>2. Len(a) \in Nat /\ Len(r) \in Nat BY LenProperties
<1> HIDE DEF w
<1>3. j \in 1 .. Len(r) /\ at = Len(a) + j
  <2>1. at \in 1 .. Len(w) BY DEF w
  <2>2. QED BY <1>1, <1>2, <2>1
<1>4. q \in Seq(Byte) BY <1>3, AlteredType
<1>5. w \o none = w /\ none \in Seq(Byte) BY <1>1, ConcatEmptySeq
<1> HIDE DEF none, q, j
<1>6. Inside(a, r, none, j, x) BY <1>3, <1>5, AlteredInside
<1>7. Altered(w \o none, at, x) = (a \o q) \o none BY <1>3, <1>6 DEF Inside, w, q
<1>8. a \o q \in Seq(Byte) BY <1>4, ConcatProperties
<1>9. (a \o q) \o none = a \o q BY <1>8, ConcatEmptySeq DEF none
<1>10. Altered(w, at, x) = a \o q BY <1>5, <1>7, <1>9
<1>11. QED BY <1>4, <1>10 DEF w

(* The first n payloads. *)
LEMMA FirstPayloads ==
    ASSUME NEW ps \in Seq(Text), NEW n \in 0 .. Len(ps)
    PROVE  LET hs == SubSeq(ps, 1, n)
           IN  /\ hs \in Seq(Text) /\ Len(hs) = n /\ \A i \in 1 .. n : hs[i] = ps[i]
               /\ FlattenSeq(Framed(hs)) = Flat(Framed(ps), n)
<1> DEFINE T == Text
           one == 1
           hs == SubSeq(ps, one, n)
           F == Framed(ps)
           G == Framed(hs)
<1>1. n \in Nat /\ n <= Len(ps) /\ Len(ps) \in Nat BY LenProperties
<1>2. \A i \in one .. n : ps[i] \in T
  <2>1. ASSUME NEW i \in one .. n PROVE ps[i] \in T
    <3>1. i \in 1 .. Len(ps) BY <1>1
    <3>2. QED BY <3>1, ElementOfSeq
  <2>2. QED BY <2>1
<1>3. (IF one <= n THEN n - one + 1 ELSE 0) = n /\ one \in Int /\ n \in Int BY <1>1
<1>4. hs \in Seq(T) /\ Len(hs) = n /\ \A i \in 1 .. n : hs[i] = ps[i]
  <2> HIDE DEF T, one
  <2>1. /\ hs \in Seq(T) /\ Len(hs) = IF one <= n THEN n - one + 1 ELSE 0
        /\ \A i \in 1 .. n - one + 1 : hs[i] = ps[one + i - 1]
    BY <1>2, <1>3, SubSeqProperties
  <2>2. \A i \in 1 .. n : i \in 1 .. n - one + 1 /\ one + i - 1 = i BY <1>1 DEF one
  <2>3. QED BY <1>3, <2>1, <2>2
<1>5. F \in Seq(Seq(Byte)) /\ Len(F) = Len(ps) /\ \A i \in 1 .. Len(ps) : F[i] = appendBytes(ps[i])
  BY FramedType
<1> HIDE DEF hs
<1>6. G \in Seq(Seq(Byte)) /\ Len(G) = n /\ \A i \in 1 .. n : G[i] = appendBytes(hs[i])
  BY <1>4, FramedType
<1> HIDE DEF F, G
<1>7. \A i \in 1 .. n : G[i] = F[i] BY <1>1, <1>4, <1>5, <1>6
<1>8. FlattenSeq(G) = Flat(F, n) BY <1>1, <1>5, <1>6, <1>7, FlattenFirst
<1>9. QED BY <1>4, <1>8 DEF hs, F, G, T, one

(* A byte damaged behind the record of frame n spares the first n frames. *)
LEMMA EarlierSpared ==
    ASSUME CodecInv, HeadInv, phase = "done", damage.kind = "byte",
           NEW n \in 0 .. Len(sent), damage.at > End(n)
    PROVE  IsPrefix(SubSeq(Wanted, 1, n), frames)
<1> DEFINE ps == Payloads(from, sent)
           N == Len(sent)
           c == from
           W == Wanted
           S == FramesOf(c)
           w == Bytes(from, sent)
           F == Framed(ps)
           at == damage.at
           hs == SubSeq(ps, 1, n)
           a == Flat(F, n)
           O == Outcomes(c, hs)
<1>1. TypeOK /\ Sending BY DEF CodecInv
<1>2. /\ N \in Nat /\ ps \in Seq(Text) /\ Len(ps) = N /\ w = FlattenSeq(F)
      /\ W \in Seq(S) /\ Len(W) = N
      /\ \A i \in 1 .. N : Outcome(c, ps[i]) = <<W[i]>>
  BY <1>1, Sent
<1>3. at > Len(a)
  <2>1. \A k \in 0 .. N : End(k) = Len(Flat(F, k)) BY <1>1, Sent
  <2>2. End(n) = Len(Flat(F, n)) BY <2>1
  <2>3. QED BY <2>2
<1>4. at \in DOMAIN w /\ \E b \in Byte : body = [w EXCEPT ![at] = b]
  BY <1>1 DEF Sending, Arrived
<1>5. PICK b \in Byte : body = Altered(w, at, b) BY <1>4 DEF Altered
<1>6. records = <<>> /\ frames \in Seq(S) BY <1>1 DEF Sending, TypeOK, FramesOf
<1>7. n \in 0 .. N OBVIOUS
<1> HIDE DEF ps, N, W, w, at
<1>8. /\ hs \in Seq(Text) /\ Len(hs) = n /\ \A i \in 1 .. n : hs[i] = ps[i]
      /\ FlattenSeq(Framed(hs)) = a
  <2>1. n \in 0 .. Len(ps) BY <1>2, <1>7
  <2>2. QED BY <1>2, <2>1, FirstPayloads
<1> HIDE DEF hs
<1>9. F \in Seq(Seq(Byte)) /\ Len(F) = N BY <1>2, FramedType
<1>10. PICK r \in Seq(Byte) : w = a \o r
  <2>1. n \in Nat /\ n <= N /\ N <= Len(F) BY <1>2, <1>7, <1>9
  <2>2. w = Flat(F, N) BY <1>2, <1>9, FlatSteps
  <2> HIDE DEF F
  <2>3. \E r \in Seq(Byte) : Flat(F, N) = Flat(F, n) \o r BY <1>2, <1>9, <2>1, FlatRest
  <2>4. QED BY <2>2, <2>3
<1>11. a \in Seq(Byte)
  <2>1. n \in 0 .. Len(F) BY <1>7, <1>9
  <2>2. \A i \in 0 .. Len(F) : Flat(F, i) \in Seq(Byte) BY <1>9, FlatSteps
  <2> HIDE DEF F
  <2>3. QED BY <2>1, <2>2
<1> HIDE DEF a
<1>12. at \in 1 .. Len(a \o r)
  <2>1. a \o r \in Seq(Byte) BY <1>11, ConcatProperties
  <2>2. DOMAIN (a \o r) = 1 .. Len(a \o r) BY <2>1, LenProperties
  <2>3. QED BY <1>4, <1>10, <2>2
<1>13. PICK q \in Seq(Byte) : body = a \o q
  <2>1. \E q \in Seq(Byte) : Altered(a \o r, at, b) = a \o q
    BY <1>3, <1>11, <1>12, HeadStays
  <2>2. QED BY <1>5, <1>10, <2>1
<1>14. Leads(hs, body) BY <1>8, <1>13 DEF Leads
<1>15. Fetched(c, hs, <<>>, frames) BY <1>6, <1>8, <1>14 DEF HeadInv, Keeping
<1>16. PICK y \in Seq(S) : frames = Flat(O, Len(hs)) \o y BY <1>6, <1>8, <1>15, FetchedAll
<1>17. O \in Seq(Seq(S)) /\ Len(O) = n /\ \A i \in 1 .. n : O[i] = Outcome(c, hs[i])
  BY <1>8, OutcomesType
<1> HIDE DEF O, S
<1>18. \A i \in 1 .. n : O[i] = <<W[i]>>
  <2>1. ASSUME NEW i \in 1 .. n PROVE O[i] = <<W[i]>>
    <3>1. i \in 1 .. N BY <1>2, <1>7
    <3>2. QED BY <1>2, <1>8, <1>17, <3>1
  <2>2. QED BY <2>1
<1>19. n \in Nat /\ FirstSingles(O, W, n)
  <2>1. n \in Nat /\ n <= N BY <1>2, <1>7
  <2>2. n <= Len(O) /\ n <= Len(W) BY <1>2, <1>17, <2>1
  <2>3. QED BY <1>18, <2>1, <2>2 DEF FirstSingles
<1> DEFINE x == SubSeq(W, 1, n)
<1>20. Flat(O, n) = x /\ x \in Seq(S) BY <1>2, <1>17, <1>19, FlatSinglesFirst
<1> HIDE DEF x
<1>21. IsPrefix(x, x \o y) BY <1>20, StartsWith
<1>22. frames = x \o y BY <1>8, <1>16, <1>20
<1>23. IsPrefix(x, frames) BY <1>21, <1>22
<1>24. QED BY <1>23 DEF x, W

(* A damaged byte costs no frame before it, be it in a length prefix, where *)
(* the records behind it may be found at other places, or in a record; and *)
(* within a record it yields one frame at most.                            *)
THEOREM CodecSparesEarlier == Spec => []DamageSparesEarlier
<1>1. CodecInv /\ HeadInv => DamageSparesEarlier
  <2>1. ASSUME CodecInv PROVE DOMAIN sent = 1 .. Len(sent) BY <2>1, Sent DEF CodecInv
  <2>2. QED BY <2>1, EarlierSpared, NothingInvented DEF DamageSparesEarlier
<1>2. QED BY <1>1, CodecInvariant, HeadInvariant, PTL

================================================================================
