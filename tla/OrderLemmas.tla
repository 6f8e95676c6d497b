---------------------------- MODULE OrderLemmas ----------------------------
(***************************************************************************)
(* Natural numbers and sequences: least and greatest elements, for the     *)
(* CHOOSE expressions of the modules, induction, sequences as functions.   *)
(***************************************************************************)
EXTENDS Naturals, WellFoundedInduction, SequenceTheorems, TLAPS

\* A nonempty set of natural numbers has a least element.
LEMMA NatMin ==
  ASSUME NEW T, T \subseteq Nat, T # {}
  PROVE  \E x \in T : \A y \in T : x <= y
<1> DEFINE R == OpToRel(<, Nat)
<1>1. \E x \in T : \A y \in T : ~ (<<y, x>> \in R)
  <2>1. IsWellFoundedOn(R, Nat)
    BY NatLessThanWellFounded
  <2> HIDE DEF R
  <2> QED
    BY <2>1, WFMin
<1>2. \A x \in Nat, y \in Nat : <<y, x>> \in R <=> y < x
  BY DEF OpToRel
<1>3. \E x \in T : \A y \in T : ~ (y < x)
  <2> HIDE DEF R
  <2> QED
    BY <1>1, <1>2, Zenon
<1> HIDE DEF R
<1> QED
  BY <1>3

\* A nonempty bounded set of natural numbers has a greatest element.
LEMMA NatMax ==
  ASSUME NEW n \in Nat, NEW T, T \subseteq 0..n, T # {}
  PROVE  \E x \in T : \A y \in T : y <= x
<1> DEFINE U == {n - x : x \in T}
<1>1. U \subseteq Nat /\ U # {}
  <2>1. \A x \in T : x \in Nat /\ n - x \in Nat
    OBVIOUS
  <2> QED BY <2>1
<1>2. PICK u \in U : \A v \in U : u <= v
  <2> HIDE DEF U
  <2> QED BY <1>1, NatMin
<1>3. PICK x \in T : u = n - x
  OBVIOUS
<1>4. ASSUME NEW y \in T PROVE y <= x
  <2>1. n - y \in U OBVIOUS
  <2>2. n - x <= n - y BY <1>2, <1>3, <2>1
  <2> QED BY <2>2
<1> QED
  BY <1>4

\* Induction over the numbers, with a set in the place of a predicate.
LEMMA NatInduct ==
  ASSUME NEW T, 0 \in T, \A n \in Nat : n \in T => n + 1 \in T
  PROVE  Nat \subseteq T
<1>1. SUFFICES ASSUME Nat \ T # {} PROVE FALSE
  OBVIOUS
<1>2. PICK x \in Nat \ T : \A y \in Nat \ T : x <= y
  BY <1>1, NatMin, Nat \ T \subseteq Nat
<1>3. x # 0 /\ x - 1 \in Nat
  BY <1>2
<1>4. x - 1 \in T
  BY <1>2, <1>3
<1> QED
  BY <1>2, <1>3, <1>4

\* A sequence is a function on the first numbers ...
LEMMA SeqIsFunction ==
  ASSUME NEW S, NEW s \in Seq(S), NEW n, n = Len(s)
  PROVE  n \in Nat /\ DOMAIN s = 1..n /\ s \in [1..n -> S] /\ \A k \in 1..n : s[k] \in S
<1>1. s \in [1..n -> S] /\ n \in Nat
  BY LenProperties
<1> QED
  BY <1>1

\* ... and the other way round.
LEMMA FunctionIsSeq ==
  ASSUME NEW S, NEW n \in Nat, NEW s, s = [k \in 1..n |-> s[k]], \A k \in 1..n : s[k] \in S
  PROVE  s \in Seq(S) /\ Len(s) = n
<1>1. s \in [1..n -> S]
  OBVIOUS
<1> QED
  BY <1>1

\* A sequence with one element more, in parts.
LEMMA AppendParts ==
  ASSUME NEW S, NEW s \in Seq(S), NEW e \in S, NEW t, t = Append(s, e), NEW n, n = Len(s)
  PROVE  /\ n \in Nat /\ t \in Seq(S) /\ Len(t) = n + 1 /\ t[n + 1] = e
         /\ \A k \in 1..n : t[k] = s[k] /\ s[k] \in S
<1>1. n \in Nat /\ \A k \in 1..n : s[k] \in S
  BY SeqIsFunction
<1> QED
  BY <1>1, AppendProperties

\* A concatenation in two parts.
LEMMA ConcatParts ==
  ASSUME NEW S, NEW s \in Seq(S), NEW t \in Seq(S), NEW c, c = s \o t
  PROVE  /\ c \in Seq(S) /\ Len(c) = Len(s) + Len(t) /\ Len(s) \in Nat /\ Len(t) \in Nat
         /\ \A k \in 1..Len(s) : c[k] = s[k]
         /\ \A k \in 1..Len(t) : c[Len(s) + k] = t[k]
<1>1. PICK m \in Nat, n \in Nat : m = Len(s) /\ n = Len(t)
  BY SeqIsFunction
<1>2. /\ s \o t \in Seq(S) /\ Len(s \o t) = Len(s) + Len(t)
      /\ \A i \in 1..Len(s) + Len(t) : (s \o t)[i] = IF i <= Len(s) THEN s[i] ELSE t[i - Len(s)]
  BY ConcatProperties
<1>3. c \in Seq(S) /\ Len(c) = m + n
  BY Zenon, <1>1, <1>2
<1>4. \A k \in 1..m + n : c[k] = IF k <= m THEN s[k] ELSE t[k - m]
  BY Zenon, <1>1, <1>2
<1>5. ASSUME NEW k \in 1..m PROVE c[k] = s[k]
  <2>1. k \in 1..m + n /\ k <= m
    OBVIOUS
  <2> QED
    BY <1>4, <2>1
<1>6. ASSUME NEW k \in 1..n PROVE c[m + k] = t[k]
  <2>1. PICK j : j = m + k
    OBVIOUS
  <2>2. j \in 1..m + n /\ ~(j <= m) /\ j - m = k
    BY <2>1
  <2>3. c[j] = t[j - m]
    BY <1>4, <2>2
  <2> QED
    BY <2>1, <2>2, <2>3
<1> QED
  BY <1>1, <1>3, <1>5, <1>6

\* Induction over sequences, with a set in the place of a predicate.
LEMMA SeqInduct ==
  ASSUME NEW S, NEW P, <<>> \in P, \A t \in Seq(S), x \in S : t \in P => Append(t, x) \in P
  PROVE  Seq(S) \subseteq P
<1> DEFINE T == {n \in Nat : \A t \in Seq(S) : Len(t) = n => t \in P}
<1>1. 0 \in T
  <2>1. ASSUME NEW t \in Seq(S), Len(t) = 0 PROVE t \in P
    BY <2>1, EmptySeq
  <2> QED
    BY <2>1
<1>2. ASSUME NEW n \in Nat, n \in T PROVE n + 1 \in T
  <2>1. ASSUME NEW t \in Seq(S), Len(t) = n + 1 PROVE t \in P
    <3>1. PICK front, x : front = SubSeq(t, 1, n) /\ x = t[n + 1]
      OBVIOUS
    <3>2. front \in Seq(S) /\ Len(front) = n /\ x \in S /\ \A k \in 1..n : front[k] = t[k]
      BY <2>1, <3>1, SubSeqProperties, SeqIsFunction
    <3>3. PICK u : u = Append(front, x)
      OBVIOUS
    <3>4. /\ u \in Seq(S) /\ Len(u) = n + 1 /\ u[n + 1] = t[n + 1]
          /\ \A k \in 1..n : u[k] = t[k]
      BY <3>1, <3>2, <3>3, AppendParts
    <3>5. u = t
      <4>1. \A k \in 1..n + 1 : u[k] = t[k]
        BY <3>4
      <4> QED
        BY <2>1, <3>4, <4>1, SeqEqual
    <3>6. front \in P
      BY <1>2, <3>2
    <3> QED
      BY <3>2, <3>3, <3>5, <3>6
  <2> QED
    BY <2>1
<1>3. Nat \subseteq T
  <2>1. \A n \in Nat : n \in T => n + 1 \in T
    BY <1>2
  <2> HIDE DEF T
  <2> QED
    BY <1>1, <2>1, NatInduct
<1>4. ASSUME NEW t \in Seq(S) PROVE t \in P
  <2>1. Len(t) \in Nat
    BY SeqIsFunction
  <2>2. Len(t) \in T
    BY <1>3, <2>1
  <2> QED
    BY <2>2
<1> QED
  BY <1>4
=============================================================================
