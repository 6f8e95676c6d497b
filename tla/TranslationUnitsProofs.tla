------------------------ MODULE TranslationUnitsProofs ------------------------
(***************************************************************************)
(* Theorems about TranslationUnits: what ast_node_append makes of a file,  *)
(* for files of every length, blocks nested to any depth, every set of     *)
(* shapes and any number of list nodes; and what is printed of the files   *)
(* without the special shapes.                                             *)
(***************************************************************************)
EXTENDS TranslationUnits, OrderLemmas, SequenceTheorems

-----------------------------------------------------------------------------
(* Sequences and folds.                                                     *)

\* A position of two sequences in a row is one of the first or of the second.
LEMMA TwoParts ==
  ASSUME NEW m \in Nat, NEW n \in Nat, NEW k \in 1..m + n
  PROVE  k \in 1..m \/ \E j \in 1..n : k = m + j
<1>1. CASE k <= m
  BY <1>1
<1>2. CASE ~(k <= m)
  <2>1. k - m \in 1..n /\ k = m + (k - m)
    BY <1>2
  <2> QED
    BY <2>1
<1> QED
  BY <1>1, <1>2

\* What putting an element in front of a sequence does.
LEMMA Prepended ==
  ASSUME NEW S, NEW x \in S, NEW d \in Seq(S)
  PROVE  /\ <<x>> \o d \in Seq(S) /\ Len(<<x>> \o d) = Len(d) + 1 /\ (<<x>> \o d)[1] = x
         /\ \A k \in 1..Len(d) : (<<x>> \o d)[k + 1] = d[k]
<1>1. <<x>> \in Seq(S) /\ Len(<<x>>) = 1 /\ <<x>>[1] = x /\ Len(d) \in Nat
  OBVIOUS
<1>2. PICK c, l : c = <<x>> \o d /\ l = Len(d)
  OBVIOUS
<1>3. /\ c \in Seq(S) /\ Len(c) = 1 + l
      /\ \A k \in 1..1 + l : c[k] = IF k <= 1 THEN <<x>>[k] ELSE d[k - 1]
  BY <1>1, <1>2, ConcatProperties
<1>4. l \in Nat /\ 1 \in 1..1 + l
  BY <1>1, <1>2
<1>5. c[1] = x
  BY <1>1, <1>3, <1>4
<1>6. ASSUME NEW k \in 1..l PROVE c[k + 1] = d[k]
  <2>1. PICK m : m = k + 1
    OBVIOUS
  <2>2. m \in 1..1 + l /\ ~(m <= 1) /\ m - 1 = k
    BY <1>4, <2>1
  <2>3. c[m] = d[m - 1]
    BY <1>3, <2>2
  <2> QED
    BY <2>1, <2>2, <2>3
<1> QED
  BY <1>2, <1>3, <1>4, <1>5, <1>6

\* Flattening goes from the first sequence to the last.
Flattened(S, ss, n, flat) ==
  /\ flat[0] = <<>> /\ FlattenSeq(ss) = flat[n]
  /\ \A k \in 1..n : flat[k] = flat[k - 1] \o ss[k]
  /\ \A k \in 0..n : flat[k] \in Seq(S)

\* FlattenSeq, one sequence after the other.
LEMMA FlattenSteps ==
  ASSUME NEW S, NEW ss \in Seq(Seq(S))
  PROVE  \E flat : Flattened(S, ss, Len(ss), flat)
<1>1. PICK n : n = Len(ss)
  OBVIOUS
<1>2. n \in Nat /\ \A k \in 1..n : ss[k] \in Seq(S)
  BY <1>1, SeqIsFunction
<1> SUFFICES \E flat : /\ flat[0] = <<>> /\ FlattenSeq(ss) = flat[n]
                       /\ \A k \in 1..n : flat[k] = flat[k - 1] \o ss[k]
                       /\ \A k \in 0..n : flat[k] \in Seq(S)
  BY <1>1 DEF Flattened
<1>3. CASE n = 0
  <2>1. ss = <<>> /\ Len(ss) = 0
    BY <1>1, <1>3, EmptySeq
  <2>2. FlattenSeq(ss) = <<>>
    BY <1>3, <2>1 DEF FlattenSeq
  <2>3. PICK flat : flat = [k \in 0..0 |-> <<>>]
    OBVIOUS
  <2>4. flat[0] = <<>> /\ <<>> \in Seq(S)
    BY <2>3
  <2>5. (\A k \in 1..n : flat[k] = flat[k - 1] \o ss[k]) /\ \A k \in 0..n : flat[k] \in Seq(S)
    <3>1. \A k \in 0..n : k = 0
      BY <1>3
    <3>2. 1..n = {}
      BY <1>3
    <3> QED
      BY <2>4, <3>1, <3>2
  <2> QED
    BY <1>3, <2>2, <2>4, <2>5
<1>4. CASE n # 0
  <2> DEFINE Step(f, i) == IF i = 1 THEN ss[i] ELSE f[i - 1] \o ss[i]
             Flatten == CHOOSE f : f = [i \in 1..n |-> Step(f, i)]
             Upto(r, f) == f = [i \in 1..n |-> f[i]] /\ \A i \in 1..n : i <= r => f[i] = Step(f, i)
             T == {r \in Nat : \E f : Upto(r, f)}
  <2>1. FlattenSeq(ss) = Flatten[n]
    BY <1>1, <1>4 DEF FlattenSeq
  <2>2. 0 \in T
    <3>1. \A i \in 1..n : ~(i <= 0)
      OBVIOUS
    <3>2. Upto(0, [i \in 1..n |-> 0])
      BY <3>1
    <3> HIDE DEF Upto
    <3> QED
      BY <3>2
  <2>3. ASSUME NEW r \in Nat, r \in T PROVE r + 1 \in T
    <3>1. PICK f : Upto(r, f)
      BY <2>3
    <3> DEFINE g == [i \in 1..n |-> IF i = r + 1 THEN Step(f, i) ELSE f[i]]
    <3>2. ASSUME NEW i \in 1..n, i <= r + 1 PROVE g[i] = Step(g, i)
      <4>1. g[i] = Step(f, i)
        <5>1. i # r + 1 => i <= r
          BY <3>2
        <5>2. i <= r => f[i] = Step(f, i)
          BY <3>1
        <5> HIDE DEF Step
        <5> QED
          BY <5>1, <5>2
      <4>2. CASE i = 1
        BY <4>1, <4>2
      <4>3. CASE i # 1
        <5>1. i - 1 \in 1..n /\ i - 1 # r + 1
          BY <1>2, <3>2, <4>3
        <5>2. g[i - 1] = f[i - 1]
          BY <5>1
        <5> HIDE DEF g
        <5> QED
          BY <4>1, <4>3, <5>2
      <4> QED
        BY <4>2, <4>3
    <3>3. g = [i \in 1..n |-> g[i]]
      OBVIOUS
    <3> HIDE DEF g, Step
    <3>4. Upto(r + 1, g)
      BY <3>2, <3>3
    <3>5. r + 1 \in Nat
      OBVIOUS
    <3> HIDE DEF Upto
    <3> QED
      BY <3>4, <3>5
  <2>4. PICK f : Upto(n, f)
    <3>1. \A r \in Nat : r \in T => r + 1 \in T
      BY <2>3
    <3>2. n \in T
      <4> HIDE DEF T
      <4> QED
        BY <1>2, <2>2, <3>1, NatInduct
    <3> HIDE DEF Upto
    <3> QED
      BY <3>2
  <2>5. Flatten = [i \in 1..n |-> Step(Flatten, i)]
    <3>1. \A i \in 1..n : f[i] = Step(f, i)
      <4>1. \A i \in 1..n : i <= n
        BY <1>2
      <4> QED
        BY Zenon, <2>4, <4>1
    <3>2. f = [i \in 1..n |-> Step(f, i)]
      <4>1. f = [i \in 1..n |-> f[i]]
        BY <2>4
      <4> HIDE DEF Step
      <4> QED
        BY <3>1, <4>1
    <3> HIDE DEF Step
    <3> QED
      BY <3>2
  <2> HIDE DEF Flatten
  <2>6. \A i \in 1..n : Flatten[i] = Step(Flatten, i)
    <3> HIDE DEF Step
    <3> QED
      BY <2>5
  <2> DEFINE flat == [k \in 0..n |-> IF k = 0 THEN <<>> ELSE Flatten[k]]
  <2>7. flat[0] = <<>> /\ \A k \in 1..n : flat[k] = Flatten[k]
    BY <1>2
  <2> HIDE DEF flat
  <2>8. ASSUME NEW k \in 1..n PROVE flat[k] = flat[k - 1] \o ss[k]
    <3>1. CASE k = 1
      <4>1. ss[1] \in Seq(S) /\ flat[1] = ss[1] /\ ss[k] = ss[1] /\ flat[k] = flat[1]
        BY <1>2, <2>6, <2>7, <3>1
      <4>2. <<>> \o ss[1] = ss[1]
        BY <4>1
      <4>3. k - 1 = 0
        BY <3>1
      <4> QED
        BY Zenon, <2>7, <3>1, <4>1, <4>2, <4>3
    <3>2. CASE k # 1
      <4>1. k - 1 \in 1..n
        BY <1>2, <3>2
      <4>2. flat[k - 1] = Flatten[k - 1]
        BY <2>7, <4>1
      <4> QED
        BY <2>6, <2>7, <3>2, <4>2
    <3> QED
      BY <3>1, <3>2
  <2> DEFINE U == {k \in Nat : k <= n => flat[k] \in Seq(S)}
  <2>9. 0 \in U
    <3>1. flat[0] \in Seq(S)
      BY <2>7
    <3> QED
      BY <3>1
  <2>10. ASSUME NEW k \in Nat, k \in U PROVE k + 1 \in U
    <3>1. SUFFICES ASSUME k + 1 <= n PROVE flat[k + 1] \in Seq(S)
      OBVIOUS
    <3>2. PICK q \in 1..n : q = k + 1 /\ q - 1 = k
      BY <1>2, <3>1
    <3>3. flat[k] \in Seq(S) /\ ss[q] \in Seq(S)
      BY <1>2, <2>10, <3>1
    <3>4. flat[k] \o ss[q] \in Seq(S)
      BY <3>3, ConcatProperties
    <3> QED
      BY <2>8, <3>2, <3>4
  <2>11. \A k \in 0..n : flat[k] \in Seq(S)
    <3>1. \A k \in Nat : k \in U => k + 1 \in U
      BY <2>10
    <3>2. Nat \subseteq U
      <4> HIDE DEF U
      <4> QED
        BY <2>9, <3>1, NatInduct
    <3> QED
      BY <1>2, <3>2
  <2>12. FlattenSeq(ss) = flat[n]
    BY <1>2, <1>4, <2>1, <2>7
  <2> QED
    BY <2>7, <2>8, <2>11, <2>12
<1> QED
  BY <1>3, <1>4

\* Flattening a sequence with one more.
LEMMA FlattenAppend ==
  ASSUME NEW S, NEW ss \in Seq(Seq(S)), NEW s \in Seq(S)
  PROVE  /\ FlattenSeq(ss) \in Seq(S)
         /\ FlattenSeq(Append(ss, s)) = FlattenSeq(ss) \o s
         /\ FlattenSeq(<<s>>) = s
<1>1. PICK n \in Nat : n = Len(ss)
  BY SeqIsFunction
<1>2. PICK a : /\ a[0] = <<>> /\ FlattenSeq(ss) = a[n]
               /\ \A k \in 1..n : a[k] = a[k - 1] \o ss[k]
               /\ \A k \in 0..n : a[k] \in Seq(S)
  BY <1>1, FlattenSteps DEF Flattened
<1>3. PICK tt : tt = Append(ss, s)
  OBVIOUS
<1>4. /\ tt \in Seq(Seq(S)) /\ n + 1 = Len(tt) /\ tt[n + 1] = s
      /\ \A k \in 1..n : tt[k] = ss[k]
  BY <1>1, <1>3, AppendProperties
<1>5. PICK b : /\ b[0] = <<>> /\ FlattenSeq(tt) = b[n + 1]
               /\ \A k \in 1..n + 1 : b[k] = b[k - 1] \o tt[k]
               /\ \A k \in 0..n + 1 : b[k] \in Seq(S)
  <2>1. \E b : Flattened(S, tt, Len(tt), b)
    BY <1>4, FlattenSteps
  <2>2. \E b : Flattened(S, tt, n + 1, b)
    BY <1>4, <2>1
  <2> QED
    BY <2>2 DEF Flattened
<1> DEFINE T == {k \in Nat : k <= n => b[k] = a[k]}
<1>6. 0 \in T
  BY <1>2, <1>5
<1>7. ASSUME NEW k \in Nat, k \in T PROVE k + 1 \in T
  <2>1. SUFFICES ASSUME k + 1 <= n PROVE b[k + 1] = a[k + 1]
    OBVIOUS
  <2>2. PICK q : q = k + 1
    OBVIOUS
  <2>3. q \in 1..n /\ q \in 1..n + 1 /\ q - 1 = k /\ k <= n
    BY <1>1, <2>1, <2>2
  <2>4. b[q] = b[q - 1] \o tt[q] /\ a[q] = a[q - 1] \o ss[q]
    BY <1>2, <1>5, <2>3
  <2>5. b[k] = a[k] /\ tt[q] = ss[q]
    BY <1>4, <1>7, <2>3
  <2> QED
    BY <2>2, <2>3, <2>4, <2>5
<1>8. b[n] = a[n]
  <2>1. \A k \in Nat : k \in T => k + 1 \in T
    BY <1>7
  <2>2. n \in T
    <3> HIDE DEF T
    <3> QED
      BY <1>6, <2>1, NatInduct
  <2> QED
    BY <2>2
<1>9. b[n + 1] = b[n] \o s
  <2>1. PICK q : q = n + 1
    OBVIOUS
  <2>2. q \in 1..n + 1 /\ q - 1 = n
    BY <2>1
  <2>3. b[q] = b[q - 1] \o tt[q]
    BY <1>5, <2>2
  <2> QED
    BY <1>4, <2>1, <2>2, <2>3
<1>10. FlattenSeq(ss) \in Seq(S)
  BY <1>2
<1>11. FlattenSeq(<<s>>) = s
  <2>1. PICK one : one = <<s>>
    OBVIOUS
  <2>2. one \in Seq(Seq(S)) /\ Len(one) = 1 /\ one[1] = s
    BY <2>1
  <2>3. PICK c : /\ c[0] = <<>> /\ FlattenSeq(one) = c[1]
                 /\ \A k \in 1..1 : c[k] = c[k - 1] \o one[k]
    <3>1. \E c : Flattened(S, one, Len(one), c)
      BY <2>2, FlattenSteps
    <3>2. \E c : Flattened(S, one, 1, c)
      BY <2>2, <3>1
    <3> QED
      BY <3>2 DEF Flattened
  <2>4. c[1] = <<>> \o s
    <3>1. 1 \in 1..1 /\ 1 - 1 = 0
      OBVIOUS
    <3>2. c[1] = c[1 - 1] \o one[1]
      BY <2>3, <3>1
    <3> QED
      BY <2>2, <2>3, <3>1, <3>2
  <2> QED
    BY <2>1, <2>3, <2>4
<1> QED
  BY <1>2, <1>3, <1>5, <1>8, <1>9, <1>10, <1>11

-----------------------------------------------------------------------------
\* A heap whose lists end.
Falls(h, rank) ==
  \A i \in 1..Len(h) : h[i].next \in 0..Len(h) /\ rank[h[i].next] < rank[i]

\* The nodes reached from one of them are well defined.
Followed(h) ==
  /\ Chain(h, 0) = <<>>
  /\ \A i \in 1..Len(h) : /\ Chain(h, i) = <<i>> \o Chain(h, h[i].next)
                          /\ Chain(h, i) \in Seq(1..Len(h))

\* Chain is what its recursive definition says when next never leads in a circle:
\* rank falls along it.
LEMMA ChainEquation ==
  ASSUME NEW S, NEW h \in Seq(S), NEW m \in Nat, NEW rank \in [0..Len(h) -> 0..m], Falls(h, rank)
  PROVE  Followed(h)
<1> DEFINE n == Len(h)
           Next1(f, i) == IF i = NULL THEN <<>> ELSE <<i>> \o f[h[i].next]
           From == CHOOSE f : f = [i \in 0..n |-> Next1(f, i)]
           Upto(r, f) == /\ f \in [0..n -> Seq(1..n)]
                         /\ \A i \in 0..n : rank[i] < r => f[i] = Next1(f, i)
           T == {r \in Nat : \E f : Upto(r, f)}
<1>1. \A i : Chain(h, i) = From[i]
  BY DEF Chain
<1>2. /\ n \in Nat /\ rank \in [0..n -> 0..m]
      /\ \A i \in 1..n : h[i].next \in 0..n /\ rank[h[i].next] < rank[i]
  BY DEF Falls
<1> SUFFICES /\ From[0] = <<>>
             /\ \A i \in 1..n : From[i] = <<i>> \o From[h[i].next] /\ From[i] \in Seq(1..n)
  BY <1>1 DEF Followed
<1> HIDE DEF n
<1>3. 0 \in T
  <2> DEFINE none == [i \in 0..n |-> <<>>]
  <2>1. none \in [0..n -> Seq(1..n)]
    OBVIOUS
  <2>2. \A i \in 0..n : ~(rank[i] < 0)
    BY <1>2
  <2>3. Upto(0, none)
    BY <2>1, <2>2
  <2> HIDE DEF Upto, none
  <2> QED
    BY <2>3
<1>4. ASSUME NEW r \in Nat, r \in T PROVE r + 1 \in T
  <2>1. PICK f : Upto(r, f)
    BY <1>4
  <2> DEFINE g == [i \in 0..n |-> IF rank[i] = r THEN Next1(f, i) ELSE f[i]]
  <2>2. g \in [0..n -> Seq(1..n)]
    <3>1. ASSUME NEW i \in 0..n PROVE Next1(f, i) \in Seq(1..n)
      <4>1. CASE i = 0
        BY <4>1 DEF NULL
      <4>2. CASE i # 0
        <5>1. i \in 1..n /\ h[i].next \in 0..n
          BY <1>2, <4>2
        <5>2. f[h[i].next] \in Seq(1..n) /\ <<i>> \in Seq(1..n)
          BY <2>1, <5>1
        <5>3. <<i>> \o f[h[i].next] \in Seq(1..n)
          BY <5>2, ConcatProperties
        <5> QED
          BY <4>2, <5>3 DEF NULL
      <4> QED
        BY <4>1, <4>2
    <3>2. \A i \in 0..n : f[i] \in Seq(1..n)
      BY <2>1
    <3> HIDE DEF Next1, n
    <3>3. ASSUME NEW i \in 0..n
          PROVE  (IF rank[i] = r THEN Next1(f, i) ELSE f[i]) \in Seq(1..n)
      BY <3>1, <3>2
    <3> QED
      BY <3>3
  <2>3. ASSUME NEW i \in 0..n, rank[i] < r + 1 PROVE g[i] = Next1(g, i)
    <3>1. g[i] = Next1(f, i)
      <4>1. rank[i] = r \/ rank[i] < r
        <5>1. PICK a : a = rank[i]
          OBVIOUS
        <5>2. a \in Nat
          BY <1>2, <5>1
        <5> QED
          BY <2>3, <5>1, <5>2
      <4>2. rank[i] < r => f[i] = Next1(f, i)
        BY <2>1
      <4> HIDE DEF Next1
      <4> QED
        BY <4>1, <4>2
    <3>2. CASE i = 0
      BY <3>1, <3>2 DEF NULL
    <3>3. CASE i # 0
      <4>1. i \in 1..n /\ h[i].next \in 0..n /\ rank[h[i].next] < rank[i]
        BY <1>2, <3>3
      <4>2. rank[h[i].next] # r
        <5>1. PICK a, b : a = rank[h[i].next] /\ b = rank[i]
          OBVIOUS
        <5>2. a \in Nat /\ b \in Nat
          <6>1. i \in 0..n /\ h[i].next \in 0..n
            BY <4>1
          <6> QED
            BY <1>2, <5>1, <6>1
        <5> QED
          BY <2>3, <4>1, <5>1, <5>2
      <4>3. g[h[i].next] = f[h[i].next]
        BY <4>1, <4>2
      <4> HIDE DEF g
      <4> QED
        BY <3>1, <3>3, <4>3 DEF NULL
    <3> QED
      BY <3>2, <3>3
  <2> HIDE DEF g, Next1
  <2>4. Upto(r + 1, g)
    BY <2>2, <2>3
  <2>5. r + 1 \in Nat
    OBVIOUS
  <2> HIDE DEF Upto
  <2> QED
    BY <2>4, <2>5
<1>5. \E f : Upto(m + 1, f)
  <2>1. \A r \in Nat : r \in T => r + 1 \in T
    BY <1>4
  <2>2. Nat \subseteq T
    <3> HIDE DEF T
    <3> QED
      BY <1>3, <2>1, NatInduct
  <2>3. m + 1 \in T
    <3> HIDE DEF T
    <3> QED
      BY <2>2
  <2> HIDE DEF Upto
  <2> QED
    BY <2>3
<1>6. From = [i \in 0..n |-> Next1(From, i)]
  <2>1. PICK f : Upto(m + 1, f)
    BY <1>5
  <2>2. ASSUME NEW i \in 0..n PROVE f[i] = Next1(f, i)
    <3>1. rank[i] < m + 1
      BY <1>2
    <3> QED
      BY <2>1, <3>1
  <2>3. f = [i \in 0..n |-> Next1(f, i)]
    <3> HIDE DEF Next1
    <3> QED
      BY <2>1, <2>2
  <2> HIDE DEF Next1
  <2> QED
    BY <2>3
<1> HIDE DEF From
<1>7. \A i \in 0..n : From[i] = Next1(From, i)
  <2> HIDE DEF Next1
  <2> QED
    BY <1>6
<1> DEFINE U == {r \in Nat : \A i \in 0..n : rank[i] < r => From[i] \in Seq(1..n)}
<1>8. 0 \in U
  <2>1. \A i \in 0..n : ~(rank[i] < 0)
    BY <1>2
  <2> QED
    BY <2>1
<1>9. ASSUME NEW r \in Nat, r \in U PROVE r + 1 \in U
  <2>1. ASSUME NEW i \in 0..n, rank[i] < r + 1 PROVE From[i] \in Seq(1..n)
    <3>1. CASE i = 0
      BY <1>7, <3>1 DEF NULL
    <3>2. CASE i # 0
      <4>1. i \in 1..n /\ h[i].next \in 0..n /\ rank[h[i].next] < rank[i]
        BY <1>2, <3>2
      <4>2. rank[h[i].next] < r
        <5>1. PICK a, b : a = rank[h[i].next] /\ b = rank[i]
          OBVIOUS
        <5>2. a \in Nat /\ b \in Nat
          BY <1>2, <4>1, <5>1
        <5> QED
          BY <2>1, <4>1, <5>1, <5>2
      <4>3. From[h[i].next] \in Seq(1..n) /\ <<i>> \in Seq(1..n)
        BY <1>9, <4>1, <4>2
      <4>4. <<i>> \o From[h[i].next] \in Seq(1..n)
        BY <4>3, ConcatProperties
      <4> QED
        BY <1>7, <3>2, <4>4 DEF NULL
    <3> QED
      BY <3>1, <3>2
  <2> QED
    BY <2>1
<1>10. \A i \in 0..n : From[i] \in Seq(1..n)
  <2>1. \A r \in Nat : r \in U => r + 1 \in U
    BY <1>9
  <2>2. Nat \subseteq U
    <3> HIDE DEF U
    <3> QED
      BY <1>8, <2>1, NatInduct
  <2>3. m + 1 \in U
    <3> HIDE DEF U
    <3> QED
      BY <2>2
  <2>4. \A i \in 0..n : rank[i] < m + 1
    BY <1>2
  <2> QED
    BY <2>3, <2>4
<1>11. From[0] = <<>> /\ \A i \in 1..n : From[i] = <<i>> \o From[h[i].next]
  BY <1>7 DEF NULL
<1>12. \A i \in 1..n : i \in 0..n
  OBVIOUS
<1> QED
  BY <1>10, <1>11, <1>12

-----------------------------------------------------------------------------
AstNodes == [kind : StatementKinds \cup DeclarationKinds, id : Nat, value : Nat]
ListNodes == [node : AstNodes, next : Nat, end : Nat]

\* Every node belongs to one list, own[i], which is named by its first node; the
\* list goes on behind each node but one, the one its first node has as its end.
HeapOK(h, own) ==
  /\ h \in Seq(ListNodes)
  /\ own \in [1..Len(h) -> 1..Len(h)]
  /\ \A i \in 1..Len(h) :
       /\ own[own[i]] = own[i]
       /\ h[i].next # 0 => h[i].next \in i + 1..Len(h) /\ own[h[i].next] = own[i]
       /\ h[i].end \in 1..Len(h)
       /\ own[h[own[i]].end] = own[i] /\ h[h[own[i]].end].next = 0
  /\ \A i, j \in 1..Len(h) : own[i] = own[j] /\ h[i].next = 0 /\ h[j].next = 0 => i = j

\* In the heap of the parser next leads to younger nodes only.
LEMMA HeapFollowed ==
  ASSUME NEW h, NEW own, HeapOK(h, own)
  PROVE  Followed(h)
<1>1. PICK n : n = Len(h)
  OBVIOUS
<1>2. n \in Nat /\ h \in Seq(ListNodes)
  BY <1>1 DEF HeapOK
<1>3. PICK rank : rank = [i \in 0..n |-> IF i = 0 THEN 0 ELSE n + 1 - i]
  OBVIOUS
<1>4. rank \in [0..n -> 0..n]
  BY <1>2, <1>3
<1>5. ASSUME NEW i \in 1..n PROVE h[i].next \in 0..n /\ rank[h[i].next] < rank[i]
  <2>1. PICK k : k = h[i].next
    OBVIOUS
  <2>2. k # 0 => k \in i + 1..n
    BY <1>1, <2>1 DEF HeapOK
  <2>3. i \in Nat /\ i >= 1 /\ i <= n
    BY <1>2
  <2>4. k \in 0..n /\ rank[k] < rank[i]
    BY <1>2, <1>3, <2>2, <2>3
  <2> QED
    BY <2>1, <2>4
<1>6. Falls(h, rank)
  BY <1>1, <1>5 DEF Falls
<1> QED
  BY <1>1, <1>2, <1>4, <1>6, ChainEquation

\* A way through the nodes from i to the end of its list.
Path(h, i, c) ==
  /\ c \in Seq(1..Len(h)) /\ Len(c) >= 1 /\ c[1] = i
  /\ \A k \in 1..Len(c) : h[c[k]].next = IF k = Len(c) THEN 0 ELSE c[k + 1]

\* What Chain returns is one, in one list.
LEMMA ChainIsPath ==
  ASSUME NEW h, NEW own, HeapOK(h, own)
  PROVE  \A i \in 1..Len(h) : /\ Path(h, i, Chain(h, i))
                              /\ \A k \in 1..Len(Chain(h, i)) : own[Chain(h, i)[k]] = own[i]
<1>1. PICK n : n = Len(h)
  OBVIOUS
<1>2. n \in Nat /\ Followed(h)
  <2>1. n \in Nat
    BY <1>1 DEF HeapOK
  <2> QED
    BY <2>1, HeapFollowed
<1> DEFINE Good(i) == /\ Path(h, i, Chain(h, i))
                      /\ \A k \in 1..Len(Chain(h, i)) : own[Chain(h, i)[k]] = own[i]
           T == {r \in Nat : \A i \in 1..n : n - i < r => Good(i)}
<1>3. 0 \in T
  <2>1. \A i \in 1..n : ~(n - i < 0)
    BY <1>2
  <2> HIDE DEF Good
  <2> QED
    BY <2>1
<1>4. ASSUME NEW r \in Nat, r \in T PROVE r + 1 \in T
  <2>1. ASSUME NEW i \in 1..n, n - i < r + 1 PROVE Good(i)
    <3>1. PICK j, c, d : j = h[i].next /\ c = Chain(h, i) /\ d = Chain(h, j)
      OBVIOUS
    <3>2. c = <<i>> \o d /\ i \in 1..Len(h)
      BY <1>1, <1>2, <3>1 DEF Followed
    <3>3. CASE j = 0
      <4>1. d = <<>>
        BY <1>2, <3>1, <3>3 DEF Followed
      <4>2. c = <<i>>
        BY <3>2, <4>1
      <4>3. c \in Seq(1..Len(h)) /\ Len(c) = 1 /\ c[1] = i
        <5>1. <<i>> \in Seq(1..Len(h)) /\ Len(<<i>>) = 1 /\ <<i>>[1] = i
          BY <3>2
        <5> QED
          BY Zenon, <4>2, <5>1
      <4>4. \A k \in 1..Len(c) : k = Len(c) /\ c[k] = i
        BY <4>3
      <4>5. Path(h, i, c) /\ \A k \in 1..Len(c) : own[c[k]] = own[i]
        <5>1. \A k \in 1..Len(c) : own[c[k]] = own[i]
          BY Zenon, <4>4
        <5>2. \A k \in 1..Len(c) : h[c[k]].next = IF k = Len(c) THEN 0 ELSE c[k + 1]
          BY Zenon, <3>1, <3>3, <4>4
        <5> QED
          BY <4>3, <5>1, <5>2 DEF Path
      <4> QED
        BY <3>1, <4>5
    <3>4. CASE j # 0
      <4>1. j \in i + 1..n /\ own[j] = own[i]
        BY <1>1, <3>1, <3>4 DEF HeapOK
      <4>2. j \in 1..n /\ n - j < r
        BY <1>2, <2>1, <4>1
      <4>3. Path(h, j, d) /\ \A k \in 1..Len(d) : own[d[k]] = own[j]
        BY <1>4, <3>1, <4>2
      <4>4. PICK l \in Nat : l = Len(d)
        BY <4>3 DEF Path
      <4>5. d \in Seq(1..Len(h)) /\ l >= 1 /\ d[1] = j
        BY <4>3, <4>4 DEF Path
      <4>6. /\ c \in Seq(1..Len(h)) /\ Len(c) = l + 1 /\ c[1] = i
            /\ \A k \in 1..l : c[k + 1] = d[k]
        BY <3>2, <4>4, <4>5, Prepended
      <4>7. ASSUME NEW k \in 1..Len(c)
            PROVE  /\ h[c[k]].next = IF k = Len(c) THEN 0 ELSE c[k + 1]
                   /\ own[c[k]] = own[i]
        <5>1. CASE k = 1
          BY <3>1, <4>4, <4>5, <4>6, <5>1
        <5>2. CASE k # 1
          <6>1. PICK q \in 1..l : k = q + 1
            <7>1. k - 1 \in 1..l /\ k = (k - 1) + 1
              BY <4>4, <4>6, <5>2
            <7> QED
              BY <7>1
          <6>2. c[k] = d[q] /\ (q # l => c[k + 1] = d[q + 1])
            BY <4>4, <4>6, <6>1
          <6>3. /\ h[d[q]].next = IF q = l THEN 0 ELSE d[q + 1]
                /\ own[d[q]] = own[i]
            BY <4>1, <4>3, <4>4 DEF Path
          <6>4. Len(c) = l + 1 /\ (k = Len(c) <=> q = l)
            BY <4>4, <4>6, <6>1
          <6> QED
            BY <6>2, <6>3, <6>4
        <5> QED
          BY <5>1, <5>2
      <4>8. Path(h, i, c)
        BY <4>5, <4>6, <4>7 DEF Path
      <4> QED
        BY <3>1, <4>7, <4>8
    <3> QED
      BY <3>3, <3>4
  <2> HIDE DEF Good
  <2> QED
    BY <2>1
<1>5. \A r \in Nat : r \in T => r + 1 \in T
  BY <1>4
<1>6. Nat \subseteq T
  <2> HIDE DEF T
  <2> QED
    BY <1>3, <1>5, NatInduct
<1>7. n \in T
  <2> HIDE DEF T
  <2> QED
    BY <1>2, <1>6
<1>8. \A i \in 1..n : n - i < n
  BY <1>2
<1>9. \A i \in 1..n : Good(i)
  <2> HIDE DEF Good
  <2> QED
    BY <1>7, <1>8
<1> QED
  BY <1>1, <1>9

\* There is only one.
LEMMA PathIsChain ==
  ASSUME NEW S, NEW h \in Seq(S), Followed(h), NEW i \in 1..Len(h), NEW c, Path(h, i, c)
  PROVE  Chain(h, i) = c
<1>1. PICK n : n = Len(h)
  OBVIOUS
<1>2. n \in Nat
  BY <1>1
<1> DEFINE T == {r \in Nat : \A j \in 1..n : \A d \in Seq(1..n) :
                   Len(d) = r + 1 /\ Path(h, j, d) => Chain(h, j) = d}
<1>3. ASSUME NEW j \in 1..n, NEW d \in Seq(1..n), Len(d) = 1, Path(h, j, d)
      PROVE  Chain(h, j) = d
  <2>1. h[j].next = 0 /\ d[1] = j
    BY <1>3 DEF Path
  <2>2. Chain(h, j) = <<j>> \o <<>>
    BY <1>1, <2>1 DEF Followed
  <2>3. d = <<j>>
    BY <1>3, <2>1
  <2> QED
    BY <2>2, <2>3
<1>4. ASSUME NEW r \in Nat, r \in T PROVE r + 1 \in T
  <2>1. ASSUME NEW j \in 1..n, NEW d \in Seq(1..n), Len(d) = r + 2, Path(h, j, d)
        PROVE  Chain(h, j) = d
    <3>1. PICK e : e = Tail(d)
      OBVIOUS
    <3>2. /\ e \in Seq(1..n) /\ Len(e) = r + 1
          /\ \A k \in 1..r + 1 : e[k] = d[k + 1]
      <4>1. d # <<>>
        BY <2>1
      <4> QED
        BY <2>1, <3>1, <4>1, HeadTailProperties
    <3>3. d[1] = j /\ \A k \in 1..r + 2 : h[d[k]].next = IF k = r + 2 THEN 0 ELSE d[k + 1]
      BY <2>1 DEF Path
    <3>4. h[j].next = e[1] /\ e[1] \in 1..n
      <4>1. 1 \in 1..r + 1 /\ 1 \in 1..r + 2 /\ 1 # r + 2 /\ 1 + 1 = 2
        OBVIOUS
      <4>2. h[d[1]].next = d[2] /\ e[1] = d[2]
        BY <3>2, <3>3, <4>1
      <4>3. e[1] \in 1..n
        <5>1. e \in Seq(1..n) /\ Len(e) = r + 1
          BY <3>2
        <5>2. e \in [1..Len(e) -> 1..n]
          BY <5>1, LenProperties
        <5> QED
          BY <4>1, <5>1, <5>2
      <4> QED
        BY <3>3, <4>2, <4>3
    <3>5. ASSUME NEW k \in 1..r + 1
          PROVE  h[e[k]].next = IF k = r + 1 THEN 0 ELSE e[k + 1]
      <4>1. e[k] = d[k + 1] /\ k + 1 \in 1..r + 2 /\ (k # r + 1 => e[k + 1] = d[k + 2])
        BY <3>2
      <4>2. h[d[k + 1]].next = IF k + 1 = r + 2 THEN 0 ELSE d[k + 1 + 1]
        BY <3>3, <4>1
      <4> QED
        BY <4>1, <4>2
    <3>6. Path(h, e[1], e)
      BY <1>1, <3>2, <3>5 DEF Path
    <3>7. Chain(h, e[1]) = e
      BY <1>4, <3>2, <3>4, <3>6
    <3>8. Chain(h, j) = <<j>> \o e
      BY <1>1, <3>4, <3>7 DEF Followed
    <3>9. d = <<j>> \o e
      <4>1. PICK g : g = <<j>> \o e
        OBVIOUS
      <4>2. /\ g \in Seq(1..n) /\ Len(g) = r + 2 /\ g[1] = j
            /\ \A k \in 1..r + 1 : g[k + 1] = e[k]
        BY <3>2, <4>1, Prepended
      <4>3. ASSUME NEW k \in 1..r + 2 PROVE g[k] = d[k]
        <5>1. CASE k = 1
          BY <3>3, <4>2, <5>1
        <5>2. CASE k # 1
          <6>1. k - 1 \in 1..r + 1 /\ k - 1 + 1 = k
            BY <5>2
          <6> QED
            BY <3>2, <4>2, <6>1
        <5> QED
          BY <5>1, <5>2
      <4> QED
        BY <2>1, <4>1, <4>2, <4>3, SeqEqual
    <3> QED
      BY <3>8, <3>9
  <2>2. r + 1 \in Nat /\ r + 1 + 1 = r + 2
    OBVIOUS
  <2> QED
    BY <2>1, <2>2
<1>5. 0 \in T
  BY <1>3
<1>6. \A r \in Nat : r \in T => r + 1 \in T
  BY <1>4
<1>7. Nat \subseteq T
  <2> HIDE DEF T
  <2> QED
    BY <1>5, <1>6, NatInduct
<1>8. PICK l \in Nat : Len(c) = l + 1 /\ c \in Seq(1..n)
  <2>1. Len(c) \in Nat /\ Len(c) >= 1 /\ c \in Seq(1..n)
    BY <1>1 DEF Path
  <2> QED
    BY <2>1, Len(c) - 1 \in Nat
<1>9. l \in T
  <2> HIDE DEF T
  <2> QED
    BY <1>7
<1> QED
  BY <1>1, <1>8, <1>9

\* What a list holds.
LEMMA ItemsOfList ==
  ASSUME NEW h, NEW own, HeapOK(h, own)
  PROVE  /\ Items(h, 0) = <<>>
         /\ \A i \in 1..Len(h) : /\ Items(h, i) \in Seq(AstNodes)
                                 /\ Len(Items(h, i)) = Len(Chain(h, i)) /\ Len(Items(h, i)) >= 1
                                 /\ \A k \in 1..Len(Chain(h, i)) : Chain(h, i)[k] \in 1..Len(h)
                                 /\ \A k \in 1..Len(Chain(h, i)) :
                                      Items(h, i)[k] = h[Chain(h, i)[k]].node
                                 /\ Items(h, i)[1] = h[i].node
<1>1. Chain(h, 0) = <<>>
  BY HeapFollowed DEF Followed
<1>2. Items(h, 0) = <<>>
  BY <1>1 DEF Items
<1>3. h \in Seq(ListNodes)
  BY DEF HeapOK
<1>4. ASSUME NEW i \in 1..Len(h)
      PROVE  /\ Items(h, i) \in Seq(AstNodes)
             /\ Len(Items(h, i)) = Len(Chain(h, i)) /\ Len(Items(h, i)) >= 1
             /\ \A k \in 1..Len(Chain(h, i)) : Chain(h, i)[k] \in 1..Len(h)
             /\ \A k \in 1..Len(Chain(h, i)) : Items(h, i)[k] = h[Chain(h, i)[k]].node
             /\ Items(h, i)[1] = h[i].node
  <2>1. PICK c, n : c = Chain(h, i) /\ n = Len(h)
    OBVIOUS
  <2>2. c \in Seq(1..n) /\ Len(c) >= 1 /\ c[1] = i
    BY <2>1, ChainIsPath DEF Path
  <2>3. PICK l \in Nat : l = Len(c) /\ DOMAIN c = 1..l
    BY <2>2
  <2>4. Items(h, i) = [k \in 1..l |-> h[c[k]].node]
    BY <2>1, <2>3 DEF Items
  <2>5. \A k \in 1..l : c[k] \in 1..n
    BY <2>2, <2>3, SeqIsFunction
  <2>6. \A j \in 1..n : h[j].node \in AstNodes
    <3>1. \A j \in 1..n : h[j] \in ListNodes
      BY <1>3, <2>1, SeqIsFunction
    <3> QED
      BY <3>1 DEF ListNodes
  <2>7. \A k \in 1..l : h[c[k]].node \in AstNodes
    BY <2>5, <2>6
  <2>8. Items(h, i) \in Seq(AstNodes) /\ Len(Items(h, i)) = l
    BY <2>4, <2>7
  <2>9. 1 \in 1..l
    BY <2>2, <2>3
  <2> QED
    BY <2>1, <2>2, <2>3, <2>4, <2>5, <2>8, <2>9
<1> QED
  BY <1>2, <1>4

\* The last node of a list is the one its first node has as its end.
LEMMA EndOfChain ==
  ASSUME NEW h, NEW own, HeapOK(h, own), NEW i \in 1..Len(h), own[i] = i
  PROVE  h[i].end = Last(Chain(h, i))
<1>1. PICK c, n : c = Chain(h, i) /\ n = Len(h)
  OBVIOUS
<1>2. Path(h, i, c) /\ \A k \in 1..Len(c) : own[c[k]] = i
  BY <1>1, ChainIsPath
<1>3. PICK l \in Nat : l = Len(c) /\ l \in 1..l
  BY <1>2 DEF Path
<1>4. c[l] \in 1..n /\ h[c[l]].next = 0 /\ own[c[l]] = i
  BY <1>1, <1>2, <1>3 DEF Path
<1>5. PICK e : e = h[i].end
  OBVIOUS
<1>6. e \in 1..n /\ own[e] = i /\ h[e].next = 0
  <2>1. /\ h[i].end \in 1..n /\ own[h[own[i]].end] = own[i] /\ h[h[own[i]].end].next = 0
    BY <1>1 DEF HeapOK
  <2> QED
    BY <1>5, <2>1
<1>7. e = c[l]
  BY <1>1, <1>4, <1>6 DEF HeapOK
<1> QED
  BY <1>1, <1>3, <1>5, <1>7 DEF Last

-----------------------------------------------------------------------------
\* h becomes g: the list of p may have changed, the other lists and what the nodes
\* hold have not, and the new nodes hold members of N.
Kept(h, own, g, owg, p, N) ==
  /\ HeapOK(g, owg) /\ Len(h) <= Len(g)
  /\ \A i \in 1..Len(h) : owg[i] = own[i] /\ g[i].node = h[i].node
  /\ \A i \in 1..Len(h) : own[i] = i /\ i # p => g[i] = h[i] /\ Items(g, i) = Items(h, i)
  /\ \A i \in Len(h) + 1..Len(g) : g[i].node \in N

\* g is h with copies of the nodes of items behind the list of p.
Behind(h, g, p, items) ==
  /\ g \in Seq(ListNodes) /\ Len(g) = Len(h) + Len(items)
  /\ \A i \in 1..Len(h) : /\ g[i].node = h[i].node
                          /\ g[i].next = IF i = h[p].end THEN Len(h) + 1 ELSE h[i].next
                          /\ g[i].end = IF i = p THEN Len(h) + Len(items) ELSE h[i].end
                          /\ i # h[p].end /\ i # p => g[i] = h[i]
  /\ \A k \in 1..Len(items) :
       /\ g[Len(h) + k].node = items[k]
       /\ g[Len(h) + k].next = IF k = Len(items) THEN 0 ELSE Len(h) + k + 1
       /\ g[Len(h) + k].end = Len(h) + k

\* Writing one field of a list node keeps the others.
LEMMA PatchedNext ==
  ASSUME NEW x \in ListNodes, NEW v \in Nat, NEW y, y = [x EXCEPT !.next = v]
  PROVE  y \in ListNodes /\ y.next = v /\ y.node = x.node /\ y.end = x.end
BY DEF ListNodes

\* The same for the other field.
LEMMA PatchedEnd ==
  ASSUME NEW x \in ListNodes, NEW v \in Nat, NEW y, y = [x EXCEPT !.end = v]
  PROVE  y \in ListNodes /\ y.end = v /\ y.node = x.node /\ y.next = x.next
BY DEF ListNodes

\* Appended puts the copies at the end of the heap, behind the last node of the list.
LEMMA AppendedIsBehind ==
  ASSUME NEW h \in Seq(ListNodes), NEW p \in 1..Len(h), h[p].end \in 1..Len(h),
         NEW child, NEW items \in Seq(AstNodes), items = ItemsOf(h, child)
  PROVE  Behind(h, Appended(h, p, child), p, items)
<1>1. PICK n \in Nat, m \in Nat : n = Len(h) /\ m = Len(items)
  BY SeqIsFunction
<1>2. PICK e : n = Len(h) /\ m = Len(items) /\ e = h[p].end
  BY <1>1
<1>3. p \in 1..n /\ e \in 1..n /\ DOMAIN items = 1..m
  BY <1>2
<1>4. PICK f, c : /\ f = [h EXCEPT ![e].next = n + 1, ![p].end = n + m]
                  /\ c = Copies(h, items)
  OBVIOUS
<1>5. ASSUME NEW i \in 1..n
      PROVE  /\ h[i] \in ListNodes /\ f[i] \in ListNodes
             /\ f[i].node = h[i].node
             /\ f[i].next = IF i = e THEN n + 1 ELSE h[i].next
             /\ f[i].end = IF i = p THEN n + m ELSE h[i].end
             /\ i # e /\ i # p => f[i] = h[i]
  <2>1. h[i] \in ListNodes /\ h[e] \in ListNodes /\ DOMAIN h = 1..n
    BY <1>2, <1>3, SeqIsFunction
  <2>2. PICK f1 : f1 = [h EXCEPT ![e].next = n + 1]
    OBVIOUS
  <2>3. /\ f1[i] = IF i = e THEN [h[i] EXCEPT !.next = n + 1] ELSE h[i]
        /\ DOMAIN f1 = 1..n
    BY <2>1, <2>2
  <2>4. f = [f1 EXCEPT ![p].end = n + m]
    BY Zenon, <1>4, <2>2
  <2>5. f[i] = IF i = p THEN [f1[i] EXCEPT !.end = n + m] ELSE f1[i]
    BY <2>3, <2>4
  <2>6. /\ f1[i] \in ListNodes /\ f1[i].node = h[i].node /\ f1[i].end = h[i].end
        /\ f1[i].next = IF i = e THEN n + 1 ELSE h[i].next
    <3>1. PICK x, w : x = h[i] /\ w = n + 1
      OBVIOUS
    <3>2. x \in ListNodes /\ w \in Nat
      BY <2>1, <3>1
    <3>3. f1[i] = IF i = e THEN [x EXCEPT !.next = w] ELSE x
      BY Zenon, <2>3, <3>1
    <3>4. /\ f1[i] \in ListNodes /\ f1[i].node = x.node /\ f1[i].end = x.end
          /\ f1[i].next = IF i = e THEN w ELSE x.next
      <4>1. CASE i = e
        <5>1. f1[i] = [x EXCEPT !.next = w]
          BY Zenon, <3>3, <4>1
        <5>2. f1[i] \in ListNodes /\ f1[i].next = w /\ f1[i].node = x.node /\ f1[i].end = x.end
          BY <3>2, <5>1, PatchedNext
        <5> QED
          BY <4>1, <5>2
      <4>2. CASE i # e
        BY Zenon, <3>2, <3>3, <4>2
      <4> QED
        BY <4>1, <4>2
    <3> QED
      BY Zenon, <3>1, <3>4
  <2>7. /\ f[i] \in ListNodes /\ f[i].node = f1[i].node /\ f[i].next = f1[i].next
        /\ f[i].end = IF i = p THEN n + m ELSE f1[i].end
    <3>1. PICK x, w : x = f1[i] /\ w = n + m
      OBVIOUS
    <3>2. x \in ListNodes /\ w \in Nat
      BY <2>6, <3>1
    <3>3. f[i] = IF i = p THEN [x EXCEPT !.end = w] ELSE x
      BY Zenon, <2>5, <3>1
    <3>4. /\ f[i] \in ListNodes /\ f[i].node = x.node /\ f[i].next = x.next
          /\ f[i].end = IF i = p THEN w ELSE x.end
      <4>1. CASE i = p
        <5>1. f[i] = [x EXCEPT !.end = w]
          BY Zenon, <3>3, <4>1
        <5>2. f[i] \in ListNodes /\ f[i].end = w /\ f[i].node = x.node /\ f[i].next = x.next
          BY <3>2, <5>1, PatchedEnd
        <5> QED
          BY <4>1, <5>2
      <4>2. CASE i # p
        BY Zenon, <3>2, <3>3, <4>2
      <4> QED
        BY <4>1, <4>2
    <3> QED
      BY Zenon, <3>1, <3>4
  <2>8. i # e /\ i # p => f[i] = h[i]
    BY <2>3, <2>5
  <2> QED
    BY <2>1, <2>6, <2>7, <2>8
<1>6. f \in Seq(ListNodes) /\ Len(f) = n
  <2>1. DOMAIN h = 1..n
    BY <1>2, SeqIsFunction
  <2>2. f = [i \in 1..n |-> f[i]]
    BY <1>4, <2>1
  <2>3. \A i \in 1..n : f[i] \in ListNodes
    BY <1>5
  <2> QED
    BY <2>2, <2>3, FunctionIsSeq
<1>7. c = [k \in 1..m |-> ListNode(items[k], IF k = m THEN 0 ELSE n + k + 1, n + k)]
  BY <1>2, <1>3, <1>4 DEF Copies, NULL
<1>8. ASSUME NEW k \in 1..m
      PROVE  /\ c[k] \in ListNodes /\ c[k].node = items[k] /\ c[k].end = n + k
             /\ c[k].next = IF k = m THEN 0 ELSE n + k + 1
  <2>1. items[k] \in AstNodes /\ n + k \in Nat /\ n + k + 1 \in Nat
    BY <1>2
  <2> QED
    BY <1>7, <2>1 DEF ListNode, ListNodes
<1>9. c \in Seq(ListNodes) /\ Len(c) = m
  <2>1. c = [k \in 1..m |-> c[k]] /\ \A k \in 1..m : c[k] \in ListNodes
    BY <1>7, <1>8
  <2> QED
    BY <2>1, FunctionIsSeq
<1>10. PICK g : g = f \o c
  OBVIOUS
<1>11. /\ g \in Seq(ListNodes) /\ Len(g) = n + m
       /\ \A i \in 1..n + m : g[i] = IF i <= n THEN f[i] ELSE c[i - n]
  BY <1>6, <1>9, <1>10, ConcatProperties
<1>12. \A i \in 1..n : g[i] = f[i]
  BY <1>11
<1>13. ASSUME NEW k \in 1..m PROVE g[n + k] = c[k]
  <2>1. PICK j : j = n + k
    OBVIOUS
  <2>2. j \in 1..n + m /\ ~(j <= n) /\ j - n = k
    BY <2>1
  <2>3. g[j] = c[j - n]
    BY <1>11, <2>2
  <2> QED
    BY <2>1, <2>2, <2>3
<1>14. g = Appended(h, p, child)
  BY <1>2, <1>4, <1>10 DEF Appended
<1>15. /\ \A i \in 1..n : /\ g[i].node = h[i].node
                          /\ g[i].next = IF i = e THEN n + 1 ELSE h[i].next
                          /\ g[i].end = IF i = p THEN n + m ELSE h[i].end
                          /\ i # e /\ i # p => g[i] = h[i]
       /\ \A k \in 1..m : /\ g[n + k].node = items[k]
                          /\ g[n + k].next = IF k = m THEN 0 ELSE n + k + 1
                          /\ g[n + k].end = n + k
  <2>1. ASSUME NEW i \in 1..n
        PROVE  /\ g[i].node = h[i].node
               /\ g[i].next = IF i = e THEN n + 1 ELSE h[i].next
               /\ g[i].end = IF i = p THEN n + m ELSE h[i].end
               /\ i # e /\ i # p => g[i] = h[i]
    <3>1. g[i] = f[i]
      BY <1>12
    <3> QED
      BY Zenon, <1>5, <3>1
  <2>2. ASSUME NEW k \in 1..m
        PROVE  /\ g[n + k].node = items[k]
               /\ g[n + k].next = IF k = m THEN 0 ELSE n + k + 1
               /\ g[n + k].end = n + k
    <3>1. g[n + k] = c[k]
      BY <1>13
    <3> QED
      BY Zenon, <1>8, <3>1
  <2> QED
    BY Zenon, <2>1, <2>2
<1> QED
  BY <1>2, <1>11, <1>14, <1>15 DEF Behind

\* The copies belong to the list they are behind.
LEMMA BehindIsHeap ==
  ASSUME NEW h, NEW own, HeapOK(h, own), NEW p \in 1..Len(h), own[p] = p,
         NEW items \in Seq(AstNodes), Len(items) >= 1, NEW g, Behind(h, g, p, items)
  PROVE  \E owg : HeapOK(g, owg) /\ \A i \in 1..Len(h) : owg[i] = own[i]
<1>1. PICK owg : owg = [i \in 1..Len(h) + Len(items) |-> IF i <= Len(h) THEN own[i] ELSE p]
  OBVIOUS
<1>2. PICK n, m, e : n = Len(h) /\ m = Len(items) /\ e = h[p].end
  OBVIOUS
<1>3. n \in Nat /\ m \in Nat /\ m >= 1 /\ p \in 1..n
  BY <1>2, SeqIsFunction DEF HeapOK
<1>4. /\ \A i \in 1..n : /\ own[i] \in 1..n /\ own[own[i]] = own[i]
                         /\ h[i].next # 0 => h[i].next \in i + 1..n /\ own[h[i].next] = own[i]
                         /\ h[i].end \in 1..n
                         /\ own[h[own[i]].end] = own[i] /\ h[h[own[i]].end].next = 0
      /\ \A i, j \in 1..n : own[i] = own[j] /\ h[i].next = 0 /\ h[j].next = 0 => i = j
  BY <1>2 DEF HeapOK
<1>5. /\ g \in Seq(ListNodes) /\ Len(g) = n + m
      /\ \A i \in 1..n : /\ g[i].next = IF i = e THEN n + 1 ELSE h[i].next
                         /\ g[i].end = IF i = p THEN n + m ELSE h[i].end
      /\ \A k \in 1..m : /\ g[n + k].next = IF k = m THEN 0 ELSE n + k + 1
                         /\ g[n + k].end = n + k
  BY <1>2 DEF Behind
<1>6. /\ \A i \in 1..n : owg[i] = own[i]
      /\ \A k \in 1..m : owg[n + k] = p
  BY <1>1, <1>2, <1>3
<1>7. e \in 1..n /\ own[e] = p /\ h[e].next = 0
  <2>1. h[p].end \in 1..n /\ own[h[own[p]].end] = own[p] /\ h[h[own[p]].end].next = 0
    BY <1>3, <1>4
  <2> QED
    BY <1>2, <2>1
<1>8. owg \in [1..n + m -> 1..n + m]
  <2>1. \A i \in 1..n + m : (IF i <= n THEN own[i] ELSE p) \in 1..n + m
    <3>1. ASSUME NEW i \in 1..n + m, i <= n PROVE own[i] \in 1..n + m
      <4>1. i \in 1..n
        BY <1>3, <3>1
      <4>2. own[i] \in 1..n
        BY <1>4, <4>1
      <4> QED
        BY <1>3, <4>2
    <3>2. p \in 1..n + m
      BY <1>3
    <3> QED
      BY <3>1, <3>2
  <2> QED
    BY <1>1, <1>2, <2>1
<1>9. ASSUME NEW i \in 1..n + m
      PROVE  i \in 1..n \/ \E k \in 1..m : i = n + k
  <2>1. CASE i <= n
    BY <1>3, <2>1
  <2>2. CASE ~(i <= n)
    <3>1. i - n \in 1..m /\ i = n + (i - n)
      BY <1>3, <2>2
    <3> QED
      BY <3>1
  <2> QED
    BY <2>1, <2>2
<1>10. ASSUME NEW i \in 1..n + m PROVE owg[i] \in 1..n /\ own[owg[i]] = owg[i]
  <2>1. CASE i \in 1..n
    BY <1>4, <1>6, <2>1
  <2>2. CASE \E k \in 1..m : i = n + k
    BY <1>3, <1>6, <2>2
  <2> QED
    BY <1>9, <2>1, <2>2
<1>11. ASSUME NEW r \in 1..n, own[r] = r
       PROVE  owg[g[r].end] = r /\ g[g[r].end].next = 0
  <2>1. CASE r = p
    <3>1. m \in 1..m /\ g[r].end = n + m
      BY <1>3, <1>5, <2>1
    <3>2. owg[n + m] = r /\ g[n + m].next = 0
      BY <1>5, <1>6, <2>1, <3>1
    <3> QED
      BY Zenon, <3>1, <3>2
  <2>2. CASE r # p
    <3>1. PICK d : d = h[r].end
      OBVIOUS
    <3>2. d \in 1..n /\ own[d] = r /\ h[d].next = 0
      <4>1. h[r].end \in 1..n /\ own[h[own[r]].end] = own[r] /\ h[h[own[r]].end].next = 0
        BY <1>4
      <4> QED
        BY <1>11, <3>1, <4>1
    <3>3. g[r].end = d /\ d # e
      BY <1>5, <1>7, <2>2, <3>1, <3>2
    <3> QED
      BY <1>5, <1>6, <3>2, <3>3
  <2> QED
    BY <2>1, <2>2
<1>12. ASSUME NEW i \in 1..n + m
       PROVE  /\ owg[owg[i]] = owg[i]
              /\ g[i].next # 0 => g[i].next \in i + 1..n + m /\ owg[g[i].next] = owg[i]
              /\ g[i].end \in 1..n + m
              /\ owg[g[owg[i]].end] = owg[i] /\ g[g[owg[i]].end].next = 0
  <2>1. owg[owg[i]] = owg[i] /\ owg[g[owg[i]].end] = owg[i] /\ g[g[owg[i]].end].next = 0
    BY <1>6, <1>10, <1>11
  <2>2. CASE i \in 1..n
    <3>1. g[i].end \in 1..n + m
      <4>1. h[i].end \in 1..n + m /\ n + m \in 1..n + m
        <5>1. PICK d : d = h[i].end
          OBVIOUS
        <5>2. d \in 1..n
          BY <1>4, <2>2, <5>1
        <5> QED
          BY <1>3, <5>1, <5>2
      <4>2. g[i].end = h[i].end \/ g[i].end = n + m
        BY <1>5, <2>2
      <4> QED
        BY Zenon, <4>1, <4>2
    <3>2. CASE i = e
      <4>1. g[i].next = n + 1 /\ 1 \in 1..m
        BY <1>3, <1>5, <2>2, <3>2
      <4>2. n + 1 \in i + 1..n + m
        BY <1>3, <2>2
      <4>3. owg[n + 1] = p /\ owg[i] = p
        BY <1>6, <1>7, <2>2, <3>2, <4>1
      <4> QED
        BY <2>1, <3>1, <4>1, <4>2, <4>3
    <3>3. CASE i # e
      <4>1. PICK j : j = g[i].next /\ j = h[i].next
        BY <1>5, <2>2, <3>3
      <4>2. j # 0 => j \in i + 1..n /\ own[j] = own[i]
        BY <1>4, <2>2, <4>1
      <4>3. j # 0 => j \in i + 1..n + m /\ j \in 1..n
        BY <1>3, <2>2, <4>2
      <4>4. j # 0 => owg[j] = owg[i]
        BY <1>6, <2>2, <4>2, <4>3
      <4> QED
        BY <2>1, <3>1, <4>1, <4>3, <4>4
    <3> QED
      BY <3>2, <3>3
  <2>3. ASSUME NEW k \in 1..m, i = n + k
        PROVE  /\ g[i].next # 0 => g[i].next \in i + 1..n + m /\ owg[g[i].next] = owg[i]
               /\ g[i].end \in 1..n + m
    <3>1. g[i].end = i /\ owg[i] = p
      BY <1>5, <1>6, <2>3
    <3>2. CASE k = m
      BY <1>5, <2>3, <3>1, <3>2
    <3>3. CASE k # m
      <4>1. PICK q : q = k + 1
        OBVIOUS
      <4>2. q \in 1..m /\ n + k + 1 = n + q /\ n + q \in i + 1..n + m
        BY <1>3, <2>3, <3>3, <4>1
      <4>3. g[i].next = n + q
        BY <1>5, <2>3, <3>3, <4>2
      <4>4. owg[n + q] = p
        BY <1>6, <4>2
      <4> QED
        BY <3>1, <4>2, <4>3, <4>4
    <3> QED
      BY <3>2, <3>3
  <2> QED
    BY <1>9, <2>1, <2>2, <2>3
<1>13. ASSUME NEW i \in 1..n + m, g[i].next = 0
       PROVE  IF owg[i] = p THEN i = n + m ELSE i \in 1..n /\ h[i].next = 0
  <2>1. ASSUME i \in 1..n PROVE own[i] # p /\ h[i].next = 0
    <3>1. i # e
      BY <1>3, <1>5, <1>13, <2>1
    <3>2. h[i].next = 0
      BY <1>5, <1>13, <2>1, <3>1
    <3> QED
      BY <1>4, <1>7, <2>1, <3>1, <3>2
  <2>2. ASSUME NEW k \in 1..m, i = n + k PROVE owg[i] = p /\ i = n + m
    <3>1. k = m
      <4>1. n + k + 1 # 0
        BY <1>3
      <4> QED
        BY <1>5, <1>13, <2>2, <4>1
    <3> QED
      BY <1>6, <2>2, <3>1
  <2> QED
    BY <1>6, <1>9, <2>1, <2>2
<1>14. ASSUME NEW i \in 1..n + m, NEW j \in 1..n + m,
              owg[i] = owg[j], g[i].next = 0, g[j].next = 0
       PROVE  i = j
  <2>1. CASE owg[i] = p
    BY <1>13, <1>14, <2>1
  <2>2. CASE owg[i] # p
    <3>1. i \in 1..n /\ h[i].next = 0
      BY <1>13, <1>14, <2>2
    <3>2. j \in 1..n /\ h[j].next = 0
      BY <1>13, <1>14, <2>2
    <3>3. own[i] = own[j]
      BY <1>6, <1>14, <3>1, <3>2
    <3> QED
      BY <1>4, <3>1, <3>2, <3>3
  <2> QED
    BY <2>1, <2>2
<1>15. HeapOK(g, owg)
  BY <1>5, <1>8, <1>12, <1>14 DEF HeapOK
<1> QED
  BY <1>2, <1>6, <1>15

\* A list none of whose nodes changed.
Untouched(h, own, g, r) ==
  \A i \in 1..Len(h) : own[i] = own[r] => g[i].next = h[i].next /\ g[i].node = h[i].node

\* A list none of whose nodes changes is the same list.
LEMMA SameList ==
  ASSUME NEW h, NEW own, HeapOK(h, own), NEW g, NEW owg, HeapOK(g, owg), Len(h) <= Len(g),
         NEW r \in 1..Len(h), Untouched(h, own, g, r)
  PROVE  Chain(g, r) = Chain(h, r) /\ Items(g, r) = Items(h, r)
<1>1. PICK c, n, ng : c = Chain(h, r) /\ n = Len(h) /\ ng = Len(g)
  OBVIOUS
<1>2. Path(h, r, c) /\ \A k \in 1..Len(c) : own[c[k]] = own[r]
  BY <1>1, ChainIsPath
<1>3. n \in Nat /\ ng \in Nat /\ g \in Seq(ListNodes) /\ r \in 1..ng
  BY <1>1 DEF HeapOK
<1>4. PICK l \in Nat : l = Len(c) /\ DOMAIN c = 1..l /\ \A k \in 1..l : c[k] \in 1..n
  BY <1>1, <1>2, SeqIsFunction DEF Path
<1>5. c \in Seq(1..ng)
  <2>1. c = [k \in 1..l |-> c[k]]
    BY <1>2, <1>4 DEF Path
  <2>2. \A k \in 1..l : c[k] \in 1..ng
    <3>1. 1..n \subseteq 1..ng
      BY <1>1, <1>3
    <3> QED
      BY <1>4, <3>1
  <2> QED
    BY <1>4, <2>1, <2>2, FunctionIsSeq
<1>6. \A k \in 1..l : g[c[k]].next = h[c[k]].next /\ g[c[k]].node = h[c[k]].node
  BY <1>1, <1>2, <1>4 DEF Untouched
<1>7. Path(g, r, c)
  BY <1>1, <1>2, <1>4, <1>5, <1>6 DEF Path
<1>8. Chain(g, r) = c
  <2>1. Followed(g)
    BY HeapFollowed
  <2> QED
    BY <1>1, <1>3, <1>7, <2>1, PathIsChain
<1>9. Items(g, r) = Items(h, r)
  BY Zenon, <1>1, <1>4, <1>6, <1>8 DEF Items
<1> QED
  BY <1>1, <1>8, <1>9

\* A list gets the appended items behind its own.
LEMMA BehindChain ==
  ASSUME NEW h, NEW own, HeapOK(h, own), NEW p \in 1..Len(h), own[p] = p,
         NEW items \in Seq(AstNodes), Len(items) >= 1, NEW g, Behind(h, g, p, items),
         NEW owg, HeapOK(g, owg)
  PROVE  Items(g, p) = Items(h, p) \o items
<1>1. PICK n, m, e, c : n = Len(h) /\ m = Len(items) /\ e = h[p].end /\ c = Chain(h, p)
  OBVIOUS
<1>2. n \in Nat /\ m \in Nat /\ m >= 1 /\ p \in 1..n /\ DOMAIN items = 1..m
  BY <1>1, SeqIsFunction DEF HeapOK
<1>3. Path(h, p, c)
  BY <1>1, ChainIsPath
<1>4. PICK l \in Nat : /\ l = Len(c) /\ l >= 1 /\ DOMAIN c = 1..l
                       /\ \A k \in 1..l : c[k] \in 1..n
  BY <1>1, <1>3, SeqIsFunction DEF Path
<1>5. /\ g \in Seq(ListNodes) /\ Len(g) = n + m
      /\ \A i \in 1..n : /\ g[i].node = h[i].node
                         /\ g[i].next = IF i = e THEN n + 1 ELSE h[i].next
      /\ \A k \in 1..m : /\ g[n + k].node = items[k]
                         /\ g[n + k].next = IF k = m THEN 0 ELSE n + k + 1
  BY <1>1 DEF Behind
<1>6. e = c[l]
  BY <1>1, <1>4, EndOfChain DEF Last
<1>7. PICK d : d = [k \in 1..l + m |-> IF k <= l THEN c[k] ELSE n + (k - l)]
  OBVIOUS
<1>8. /\ \A k \in 1..l : d[k] = c[k]
      /\ \A k \in 1..m : d[l + k] = n + k
  <2>1. ASSUME NEW k \in 1..l PROVE d[k] = c[k]
    BY <1>2, <1>7
  <2>2. ASSUME NEW k \in 1..m PROVE d[l + k] = n + k
    <3>1. PICK j : j = l + k
      OBVIOUS
    <3>2. j \in 1..l + m /\ ~(j <= l) /\ j - l = k
      BY <1>2, <3>1
    <3>3. d[j] = n + (j - l)
      BY <1>7, <3>2
    <3> QED
      BY <3>1, <3>2, <3>3
  <2> QED
    BY <2>1, <2>2
<1>9. ASSUME NEW k \in 1..l + m
      PROVE  k \in 1..l \/ \E q \in 1..m : k = l + q
  <2>1. CASE k <= l
    BY <2>1
  <2>2. CASE ~(k <= l)
    <3>1. k - l \in 1..m /\ k = l + (k - l)
      BY <1>2, <2>2
    <3> QED
      BY <3>1
  <2> QED
    BY <2>1, <2>2
<1>10. ASSUME NEW k \in 1..l + m PROVE d[k] \in 1..n + m
  <2>1. CASE k \in 1..l
    <3>1. d[k] \in 1..n
      BY <1>4, <1>8, <2>1
    <3> QED
      BY <1>2, <3>1
  <2>2. ASSUME NEW q \in 1..m, k = l + q PROVE d[k] \in 1..n + m
    BY <1>2, <1>8, <2>2
  <2> QED
    BY <1>9, <2>1, <2>2
<1>11. d \in Seq(1..n + m) /\ Len(d) = l + m
  <2>1. d = [k \in 1..l + m |-> d[k]]
    BY <1>7
  <2>2. l + m \in Nat
    BY <1>2
  <2> QED
    BY <1>10, <2>1, <2>2, FunctionIsSeq
<1>12. ASSUME NEW k \in 1..l + m
       PROVE  g[d[k]].next = IF k = l + m THEN 0 ELSE d[k + 1]
  <2>1. CASE k \in 1..l
    <3>1. d[k] = c[k] /\ c[k] \in 1..n /\ k # l + m
      BY <1>2, <1>4, <1>8, <2>1
    <3>2. h[c[k]].next = IF k = l THEN 0 ELSE c[k + 1]
      BY <1>3, <1>4, <2>1 DEF Path
    <3>3. CASE k = l
      <4>1. d[l + 1] = n + 1
        BY <1>2, <1>8, 1 \in 1..m
      <4>2. g[c[k]].next = n + 1
        BY <1>5, <1>6, <3>1, <3>3
      <4> QED
        BY <3>1, <3>3, <4>1, <4>2
    <3>4. CASE k # l
      <4>1. c[k + 1] \in 1..n /\ d[k + 1] = c[k + 1]
        <5>1. k + 1 \in 1..l
          BY <2>1, <3>4
        <5> QED
          BY <1>4, <1>8, <5>1
      <4>2. h[c[k]].next # 0
        BY <1>2, <3>2, <3>4, <4>1
      <4>3. h[e].next = 0
        <5>1. l \in 1..l
          BY <1>4
        <5> QED
          BY <1>3, <1>4, <1>6, <5>1 DEF Path
      <4>4. g[c[k]].next = h[c[k]].next
        BY <1>5, <3>1, <4>2, <4>3
      <4> QED
        BY <3>1, <3>2, <3>4, <4>1, <4>4
    <3> QED
      BY <3>3, <3>4
  <2>2. ASSUME NEW q \in 1..m, k = l + q
        PROVE  g[d[k]].next = IF k = l + m THEN 0 ELSE d[k + 1]
    <3>1. d[k] = n + q /\ (k = l + m <=> q = m)
      BY <1>2, <1>4, <1>8, <2>2
    <3>2. g[n + q].next = IF q = m THEN 0 ELSE n + q + 1
      BY <1>5
    <3>3. q # m => d[k + 1] = n + q + 1
      <4>1. PICK s : s = q + 1
        OBVIOUS
      <4>2. q # m => s \in 1..m
        BY <1>2, <4>1
      <4>3. q # m => d[l + s] = n + s
        BY <1>8, <4>2
      <4>4. l + s = k + 1 /\ n + s = n + q + 1
        BY <1>2, <1>4, <2>2, <4>1
      <4> QED
        BY <4>3, <4>4
    <3> QED
      BY <3>1, <3>2, <3>3
  <2> QED
    BY <1>9, <2>1, <2>2
<1>13. Path(g, p, d)
  <2>1. 1 \in 1..l /\ l + m >= 1
    BY <1>2, <1>4
  <2>2. d[1] = p
    BY <1>3, <1>8, <2>1 DEF Path
  <2> QED
    BY <1>5, <1>11, <1>12, <2>1, <2>2 DEF Path
<1>14. Chain(g, p) = d
  <2>1. Followed(g) /\ p \in 1..Len(g)
    BY <1>2, <1>5, HeapFollowed
  <2> QED
    BY <1>5, <1>13, <2>1, PathIsChain
<1>15. Items(g, p) = [k \in 1..l + m |-> g[d[k]].node]
  <2>1. DOMAIN d = 1..l + m
    BY <1>7
  <2> QED
    BY Zenon, <1>14, <2>1 DEF Items
<1>16. PICK a : a = Items(h, p)
  OBVIOUS
<1>17. a \in Seq(AstNodes) /\ Len(a) = l /\ \A k \in 1..l : a[k] = h[c[k]].node
  BY <1>1, <1>4, <1>16, ItemsOfList
<1>18. /\ a \o items \in Seq(AstNodes) /\ Len(a \o items) = l + m
       /\ \A k \in 1..l + m : (a \o items)[k] = IF k <= l THEN a[k] ELSE items[k - l]
  BY <1>1, <1>17, ConcatProperties
<1>19. PICK b : b = a \o items
  OBVIOUS
<1>20. ASSUME NEW k \in 1..l + m PROVE g[d[k]].node = b[k]
  <2>1. b[k] = IF k <= l THEN a[k] ELSE items[k - l]
    BY <1>18, <1>19
  <2>2. CASE k \in 1..l
    <3>1. d[k] = c[k] /\ c[k] \in 1..n /\ k <= l
      BY <1>4, <1>8, <2>2
    <3>2. g[c[k]].node = h[c[k]].node
      BY <1>5, <3>1
    <3> QED
      BY <1>17, <2>1, <2>2, <3>1, <3>2
  <2>3. ASSUME NEW q \in 1..m, k = l + q PROVE g[d[k]].node = b[k]
    <3>1. ~(k <= l) /\ k - l = q
      BY <1>2, <1>4, <2>3
    <3>2. d[k] = n + q /\ g[n + q].node = items[q]
      BY <1>5, <1>8, <2>3
    <3> QED
      BY <2>1, <3>1, <3>2
  <2> QED
    BY <1>9, <2>2, <2>3
<1>21. b = [k \in 1..l + m |-> b[k]]
  BY <1>18, <1>19, SeqIsFunction
<1>22. Items(g, p) = b
  BY Zenon, <1>15, <1>20, <1>21
<1> QED
  BY <1>16, <1>19, <1>22

\* What an append does to a heap.
Members(s) == {s[k] : k \in 1..Len(s)}

\* Appended (ast_node_append) keeps the heap well formed, and no other list changes.
LEMMA AppendedKeeps ==
  ASSUME NEW h, NEW own, HeapOK(h, own), NEW p \in 1..Len(h), own[p] = p,
         NEW child, ItemsOf(h, child) \in Seq(AstNodes), Len(ItemsOf(h, child)) >= 1
  PROVE  \E owg : /\ Kept(h, own, Appended(h, p, child), owg, p, Members(ItemsOf(h, child)))
                  /\ Items(Appended(h, p, child), p) = Items(h, p) \o ItemsOf(h, child)
<1>1. PICK g, items : g = Appended(h, p, child) /\ items = ItemsOf(h, child)
  OBVIOUS
<1>2. PICK n, m : n = Len(h) /\ m = Len(items) /\ items \in Seq(AstNodes) /\ m >= 1
  BY <1>1
<1>3. h \in Seq(ListNodes) /\ h[p].end \in 1..Len(h)
  BY DEF HeapOK
<1>4. Behind(h, g, p, items)
  BY <1>1, <1>2, <1>3, AppendedIsBehind
<1>5. PICK owg : HeapOK(g, owg) /\ \A i \in 1..Len(h) : owg[i] = own[i]
  BY <1>2, <1>4, BehindIsHeap
<1>6. Items(g, p) = Items(h, p) \o items
  BY <1>2, <1>4, <1>5, BehindChain
<1>7. n \in Nat /\ m \in Nat /\ p \in 1..n
  BY <1>2, <1>3, SeqIsFunction
<1>8. ASSUME NEW i \in 1..n PROVE owg[i] = own[i] /\ g[i].node = h[i].node
  BY <1>2, <1>4, <1>5, <1>7 DEF Behind
<1>9. Len(g) = n + m /\ Len(h) <= Len(g)
  BY <1>2, <1>4, <1>7 DEF Behind
<1>10. ASSUME NEW i \in 1..n, own[i] # p PROVE g[i].next = h[i].next
  <2>1. own[h[own[p]].end] = own[p]
    BY <1>2, <1>7 DEF HeapOK
  <2>2. i # h[p].end
    BY <1>10, <2>1
  <2> QED
    BY <1>2, <1>4, <2>2 DEF Behind
<1>11. ASSUME NEW i \in 1..n, own[i] = i, i # p PROVE g[i] = h[i] /\ Items(g, i) = Items(h, i)
  <2>1. g[i] = h[i]
    <3>1. own[h[own[p]].end] = own[p]
      BY <1>2, <1>7 DEF HeapOK
    <3>2. i # h[p].end
      BY <1>11, <3>1
    <3> QED
      BY <1>2, <1>4, <1>11, <3>2 DEF Behind
  <2>2. \A j \in 1..n : own[j] = own[i] => g[j].next = h[j].next /\ g[j].node = h[j].node
    BY <1>8, <1>10, <1>11
  <2>3. Items(g, i) = Items(h, i)
    <3>1. Untouched(h, own, g, i)
      BY Zenon, <1>2, <2>2 DEF Untouched
    <3>2. i \in 1..Len(h) /\ Len(h) <= Len(g)
      BY <1>2, <1>9
    <3> QED
      BY <1>5, <3>1, <3>2, SameList
  <2> QED
    BY <2>1, <2>3
<1>12. ASSUME NEW i \in n + 1..n + m PROVE g[i].node \in {items[k] : k \in 1..m}
  <2>1. PICK k : k = i - n
    OBVIOUS
  <2>2. k \in 1..m /\ i = n + k
    BY <1>7, <2>1
  <2>3. g[n + k].node = items[k]
    BY <1>2, <1>4, <2>2 DEF Behind
  <2> QED
    BY <2>2, <2>3
<1>13. Kept(h, own, g, owg, p, Members(items))
  BY <1>2, <1>5, <1>8, <1>9, <1>11, <1>12 DEF Kept, Members
<1> QED
  BY Zenon, <1>1, <1>6, <1>13

\* A list of one new node.
LEMMA NewNodeKeeps ==
  ASSUME NEW h, NEW own, HeapOK(h, own), NEW child \in AstNodes, NEW g,
         g = Append(h, ListNode(child, 0, Len(h) + 1))
  PROVE  \E owg : /\ Kept(h, own, g, owg, 0, {child})
                  /\ Len(g) = Len(h) + 1 /\ owg[Len(h) + 1] = Len(h) + 1
                  /\ Items(g, Len(h) + 1) = <<child>>
<1>1. PICK n, x : n = Len(h) /\ x = ListNode(child, 0, n + 1)
  OBVIOUS
<1>2. n \in Nat /\ h \in Seq(ListNodes)
  BY <1>1, SeqIsFunction DEF HeapOK
<1>3. x \in ListNodes /\ x.node = child /\ x.next = 0 /\ x.end = n + 1
  BY <1>1, <1>2 DEF ListNode, ListNodes
<1>4. /\ g \in Seq(ListNodes) /\ Len(g) = n + 1 /\ g[n + 1] = x
      /\ \A i \in 1..n : g[i] = h[i]
  BY <1>1, <1>2, <1>3, AppendProperties
<1>5. PICK owg : owg = [i \in 1..n + 1 |-> IF i = n + 1 THEN n + 1 ELSE own[i]]
  OBVIOUS
<1>6. /\ \A i \in 1..n : /\ own[i] \in 1..n /\ own[own[i]] = own[i]
                         /\ h[i].next # 0 => h[i].next \in i + 1..n /\ own[h[i].next] = own[i]
                         /\ h[i].end \in 1..n
                         /\ own[h[own[i]].end] = own[i] /\ h[h[own[i]].end].next = 0
      /\ \A i, j \in 1..n : own[i] = own[j] /\ h[i].next = 0 /\ h[j].next = 0 => i = j
  BY <1>1 DEF HeapOK
<1>7. owg[n + 1] = n + 1 /\ \A i \in 1..n : owg[i] = own[i]
  BY <1>2, <1>5
<1>8. \A i \in 1..n + 1 : i \in 1..n \/ i = n + 1
  BY <1>2
<1>9. ASSUME NEW i \in 1..n + 1
      PROVE  /\ owg[i] \in 1..n + 1 /\ owg[owg[i]] = owg[i]
             /\ g[i].next # 0 => g[i].next \in i + 1..n + 1 /\ owg[g[i].next] = owg[i]
             /\ g[i].end \in 1..n + 1
             /\ owg[g[owg[i]].end] = owg[i] /\ g[g[owg[i]].end].next = 0
  <2>1. CASE i = n + 1
    BY <1>2, <1>3, <1>4, <1>7, <2>1
  <2>2. CASE i \in 1..n
    <3>1. PICK j, e, r, d : j = h[i].next /\ e = h[i].end /\ r = own[i] /\ d = h[r].end
      OBVIOUS
    <3>2. /\ r \in 1..n /\ own[r] = r /\ (j # 0 => j \in i + 1..n /\ own[j] = r) /\ e \in 1..n
          /\ own[d] = r /\ h[d].next = 0 /\ d \in 1..n
      BY <1>6, <2>2, <3>1
    <3>3. r \in 1..n + 1 /\ (j # 0 => j \in i + 1..n + 1 /\ j \in 1..n) /\ e \in 1..n + 1
      BY <1>2, <2>2, <3>2
    <3>4. g[i].next = j /\ g[i].end = e /\ owg[i] = r /\ owg[r] = r /\ g[r].end = d
      BY <1>4, <1>7, <2>2, <3>1, <3>2
    <3>5. owg[d] = r /\ g[d].next = 0 /\ (j # 0 => owg[j] = r)
      BY <1>4, <1>7, <3>2, <3>3
    <3> QED
      BY <3>3, <3>4, <3>5
  <2> QED
    BY <1>8, <2>1, <2>2
<1>10. ASSUME NEW i \in 1..n + 1, NEW j \in 1..n + 1,
              owg[i] = owg[j], g[i].next = 0, g[j].next = 0
       PROVE  i = j
  <2>1. \A k \in 1..n : owg[k] \in 1..n /\ n + 1 \notin 1..n
    BY <1>2, <1>6, <1>7
  <2>2. CASE i \in 1..n /\ j \in 1..n
    BY <1>4, <1>6, <1>7, <1>10, <2>2
  <2>3. CASE i = n + 1 \/ j = n + 1
    BY <1>7, <1>8, <1>10, <2>1, <2>3
  <2> QED
    BY <1>8, <2>2, <2>3
<1>11. owg \in [1..n + 1 -> 1..n + 1]
  <2>1. owg = [i \in 1..n + 1 |-> owg[i]]
    BY <1>5
  <2> QED
    BY <1>9, <2>1
<1>12. HeapOK(g, owg)
  BY <1>4, <1>9, <1>10, <1>11 DEF HeapOK
<1>13. ASSUME NEW i \in 1..n PROVE Items(g, i) = Items(h, i)
  <2>1. Untouched(h, own, g, i)
    BY <1>1, <1>4 DEF Untouched
  <2>2. i \in 1..Len(h) /\ Len(h) <= Len(g)
    BY <1>1, <1>2, <1>4
  <2> QED
    BY <1>12, <2>1, <2>2, SameList
<1>14. \A i \in n + 1..n + 1 : g[i].node \in {child}
  BY <1>2, <1>3, <1>4
<1>15. Kept(h, own, g, owg, 0, {child})
  BY <1>1, <1>2, <1>4, <1>7, <1>12, <1>13, <1>14 DEF Kept
<1>16. Items(g, n + 1) = <<child>>
  <2>1. Followed(g) /\ n + 1 \in 1..Len(g)
    BY <1>2, <1>4, <1>12, HeapFollowed
  <2>2. Chain(g, n + 1) = <<n + 1>>
    <3>1. Chain(g, n + 1) = <<n + 1>> \o Chain(g, 0) /\ Chain(g, 0) = <<>>
      BY <1>3, <1>4, <2>1 DEF Followed
    <3> QED
      BY <3>1
  <2>3. DOMAIN <<n + 1>> = 1..1 /\ <<n + 1>>[1] = n + 1
    OBVIOUS
  <2>4. Items(g, n + 1) = [k \in 1..1 |-> g[<<n + 1>>[k]].node]
    BY Zenon, <2>2, <2>3 DEF Items
  <2>5. \A k \in 1..1 : g[<<n + 1>>[k]].node = child
    BY <1>3, <1>4, <2>3
  <2>6. Items(g, n + 1) = [k \in 1..1 |-> child]
    BY Zenon, <2>4, <2>5
  <2> QED
    BY <2>6
<1> QED
  BY <1>1, <1>4, <1>7, <1>15, <1>16

-----------------------------------------------------------------------------
\* What an append is given: nothing, a node or the items of a list.
Given(h, child) == IF child = NoNode THEN <<>> ELSE ItemsOf(h, child)

\* The list an append returns.
Whole(h, parent, child) ==
  IF parent # 0 THEN parent ELSE IF child.kind = "LIST" THEN child.value ELSE Len(h) + 1

\* What is appended is one node, or the items of a list.
LEMMA GivenIsSeq ==
  ASSUME NEW h, NEW own, HeapOK(h, own), NEW child,
         child \in AstNodes \/ (\E l \in 1..Len(h) : child = List(l)) \/ child = NoNode
  PROVE  /\ Given(h, child) \in Seq(AstNodes)
         /\ child \in AstNodes => /\ child # NoNode /\ child.kind # "LIST"
                                  /\ Given(h, child) = <<child>>
         /\ \A l \in 1..Len(h) : child = List(l) => /\ child # NoNode /\ child.kind = "LIST"
                                                    /\ child.value = l
                                                    /\ Given(h, child) = Items(h, l)
         /\ child # NoNode => Given(h, child) = ItemsOf(h, child) /\ Len(Given(h, child)) >= 1
<1>1. CASE child \in AstNodes
  <2>1. child.kind # "NULL" /\ child.kind # "LIST"
    BY <1>1 DEF AstNodes, StatementKinds, DeclarationKinds
  <2>2. child # NoNode
    BY <2>1 DEF NoNode
  <2>3. Given(h, child) = <<child>> /\ ItemsOf(h, child) = <<child>>
    BY Zenon, <2>1, <2>2 DEF Given, ItemsOf
  <2>4. <<child>> \in Seq(AstNodes) /\ Len(<<child>>) = 1
    BY <1>1
  <2>5. \A l \in 1..Len(h) : child # List(l)
    <3>1. \A l \in 1..Len(h) : l # 0
      BY SeqIsFunction DEF HeapOK
    <3> QED
      BY <2>1, <3>1 DEF List, AstNode, NULL
  <2> QED
    BY <2>1, <2>2, <2>3, <2>4, <2>5
<1>2. ASSUME NEW l \in 1..Len(h), child = List(l)
      PROVE  /\ child # NoNode /\ child.kind = "LIST" /\ child.value = l
             /\ Given(h, child) = Items(h, l) /\ ItemsOf(h, child) = Items(h, l)
             /\ child \notin AstNodes
             /\ Items(h, l) \in Seq(AstNodes) /\ Len(Items(h, l)) >= 1
  <2>1. l # 0
    BY SeqIsFunction DEF HeapOK
  <2>2. child = [kind |-> "LIST", id |-> 0, value |-> l]
    BY <1>2, <2>1 DEF List, AstNode, NULL
  <2>3. child.kind = "LIST" /\ child.value = l /\ NoNode.kind = "NULL"
    BY <2>2 DEF NoNode
  <2>4. child # NoNode
    BY <2>3
  <2>5. Given(h, child) = Items(h, l) /\ ItemsOf(h, child) = Items(h, l)
    BY Zenon, <2>3, <2>4 DEF Given, ItemsOf
  <2>6. child \notin AstNodes
    BY <2>3 DEF AstNodes, StatementKinds, DeclarationKinds
  <2> QED
    BY <2>3, <2>4, <2>5, <2>6, ItemsOfList
<1>3. CASE child = NoNode
  <2>1. Given(h, child) = <<>> /\ NoNode.kind = "NULL"
    BY <1>3 DEF Given, NoNode
  <2>2. child \notin AstNodes
    BY <1>3, <2>1 DEF AstNodes, StatementKinds, DeclarationKinds
  <2>3. <<>> \in Seq(AstNodes)
    OBVIOUS
  <2> QED
    BY <1>2, <1>3, <2>1, <2>2, <2>3
<1> QED
  BY <1>1, <1>2, <1>3

\* What may be appended to what.
Joins(h, own, parent, child) ==
  /\ parent \in 0..Len(h) /\ (parent # 0 => own[parent] = parent)
  /\ \/ child \in AstNodes
     \/ \E l \in 1..Len(h) : own[l] = l /\ child = List(l)
     \/ child = NoNode /\ parent # 0

\* r is the list of parent with child behind it.
Joined(h, own, parent, child, r, owg) ==
  /\ Kept(h, own, r.heap, owg, parent, Members(Given(h, child)))
  /\ r.list = Whole(h, parent, child)
  /\ r.list \in 1..Len(r.heap) /\ owg[r.list] = r.list
  /\ Items(r.heap, r.list) = Items(h, parent) \o Given(h, child)

\* ast_node_append: the list returned holds what the list of parent did and what it is given.
LEMMA AstAppendKeeps ==
  ASSUME NEW h, NEW own, HeapOK(h, own), NEW parent, NEW child, Joins(h, own, parent, child)
  PROVE  \E owg : Joined(h, own, parent, child, AstAppend(h, parent, child), owg)
<1>1. PICK r : r = AstAppend(h, parent, child)
  OBVIOUS
<1>2. /\ parent \in 0..Len(h) /\ (parent # 0 => own[parent] = parent)
      /\ \/ child \in AstNodes
         \/ \E l \in 1..Len(h) : own[l] = l /\ child = List(l)
         \/ child = NoNode /\ parent # 0
  BY DEF Joins
<1>3. SUFFICES \E owg : /\ Kept(h, own, r.heap, owg, parent, Members(Given(h, child)))
                        /\ r.list = Whole(h, parent, child)
                        /\ r.list \in 1..Len(r.heap) /\ owg[r.list] = r.list
                        /\ Items(r.heap, r.list) = Items(h, parent) \o Given(h, child)
  BY Zenon, <1>1 DEF Joined
<1>4. PICK items : items = Given(h, child)
  OBVIOUS
<1>5. /\ items \in Seq(AstNodes)
      /\ child \in AstNodes => child # NoNode /\ child.kind # "LIST" /\ items = <<child>>
      /\ \A l \in 1..Len(h) : child = List(l) => /\ child # NoNode /\ child.kind = "LIST"
                                                 /\ child.value = l /\ items = Items(h, l)
      /\ child # NoNode => items = ItemsOf(h, child) /\ Len(items) >= 1
  <2>1. child \in AstNodes \/ (\E l \in 1..Len(h) : child = List(l)) \/ child = NoNode
    BY <1>2
  <2> QED
    BY <1>4, <2>1, GivenIsSeq
<1>6. Kept(h, own, h, own, parent, Members(items))
  <2>1. Len(h) \in Nat
    BY SeqIsFunction DEF HeapOK
  <2> QED
    BY <2>1 DEF Kept
<1>7. Len(h) \in Nat /\ Items(h, 0) = <<>>
  BY SeqIsFunction, ItemsOfList DEF HeapOK
<1>8. CASE parent = 0 /\ child \in AstNodes
  <2>1. r = NewList(h, child) /\ r = [heap |-> Append(h, ListNode(child, 0, Len(h) + 1)),
                                      list |-> Len(h) + 1]
    BY <1>1, <1>5, <1>8 DEF AstAppend, NewList, NULL
  <2>2. r.heap = Append(h, ListNode(child, 0, Len(h) + 1)) /\ r.list = Len(h) + 1
    BY <2>1
  <2>3. PICK owg : /\ Kept(h, own, r.heap, owg, 0, {child})
                   /\ Len(r.heap) = Len(h) + 1 /\ owg[Len(h) + 1] = Len(h) + 1
                   /\ Items(r.heap, Len(h) + 1) = <<child>>
    BY <1>8, <2>2, NewNodeKeeps
  <2>4. r.list = Whole(h, parent, child)
    BY <1>5, <1>8, <2>2 DEF Whole
  <2>5. Members(items) = {child} /\ <<>> \o items = <<child>>
    <3>1. items = <<child>> /\ Len(<<child>>) = 1 /\ <<child>>[1] = child
      BY <1>5, <1>8
    <3>2. Members(<<child>>) = {child} /\ <<>> \o <<child>> = <<child>>
      BY <3>1 DEF Members
    <3> QED
      BY <3>1, <3>2
  <2>6. r.list \in 1..Len(r.heap) /\ owg[r.list] = r.list
    BY <1>7, <2>2, <2>3
  <2> QED
    BY <1>4, <1>7, <1>8, <2>2, <2>3, <2>4, <2>5, <2>6
<1>9. ASSUME parent = 0, NEW l \in 1..Len(h), own[l] = l, child = List(l)
      PROVE  /\ Kept(h, own, r.heap, own, parent, Members(items))
             /\ r.list = Whole(h, parent, child)
             /\ r.list \in 1..Len(r.heap) /\ own[r.list] = r.list
             /\ Items(r.heap, r.list) = Items(h, parent) \o items
  <2>1. child # NoNode /\ child.kind = "LIST" /\ child.value = l /\ items = Items(h, l)
    BY <1>5, <1>9
  <2>2. r = [heap |-> h, list |-> l]
    BY <1>1, <1>9, <2>1 DEF AstAppend, NewList, NULL
  <2>3. r.heap = h /\ r.list = l
    BY <2>2
  <2>4. l = Whole(h, parent, child)
    BY <1>9, <2>1 DEF Whole
  <2>5. Items(h, parent) \o items = items
    BY <1>5, <1>7, <1>9
  <2> QED
    BY <1>6, <1>9, <2>1, <2>3, <2>4, <2>5
<1>10. CASE parent # 0 /\ child = NoNode
  <2>1. r = [heap |-> h, list |-> parent]
    BY <1>1, <1>10 DEF AstAppend, NULL
  <2>2. r.heap = h /\ r.list = parent
    BY <2>1
  <2>3. parent \in 1..Len(h)
    BY <1>2, <1>7, <1>10
  <2>4. items = <<>> /\ Items(h, parent) \o <<>> = Items(h, parent)
    BY <1>4, <1>10, <2>3, ItemsOfList DEF Given
  <2>5. parent = Whole(h, parent, child)
    BY <1>10 DEF Whole
  <2> QED
    BY <1>4, <1>2, <1>6, <1>10, <2>2, <2>3, <2>4, <2>5
<1>11. CASE parent # 0 /\ child # NoNode
  <2>1. r = [heap |-> Appended(h, parent, child), list |-> parent]
    BY <1>1, <1>11 DEF AstAppend, NULL
  <2>2. r.heap = Appended(h, parent, child) /\ r.list = parent
    BY <2>1
  <2>3. parent \in 1..Len(h) /\ own[parent] = parent
    BY <1>2, <1>7, <1>11
  <2>4. PICK owg : /\ Kept(h, own, r.heap, owg, parent, Members(items))
                   /\ Items(r.heap, parent) = Items(h, parent) \o items
    <3>1. items \in Seq(AstNodes) /\ Len(items) >= 1 /\ items = ItemsOf(h, child)
      BY <1>5, <1>11
    <3>2. ItemsOf(h, child) \in Seq(AstNodes) /\ Len(ItemsOf(h, child)) >= 1
      BY <3>1
    <3>3. \E owg : /\ Kept(h, own, Appended(h, parent, child), owg, parent,
                           Members(ItemsOf(h, child)))
                   /\ Items(Appended(h, parent, child), parent)
                        = Items(h, parent) \o ItemsOf(h, child)
      BY Zenon, <2>3, <3>2, AppendedKeeps
    <3> QED
      BY Zenon, <2>2, <3>1, <3>3
  <2>5. parent = Whole(h, parent, child)
    BY <1>11 DEF Whole
  <2>6. parent \in 1..Len(r.heap) /\ owg[parent] = parent
    <3>1. Len(r.heap) >= Len(h) /\ owg[parent] = own[parent]
      BY <2>3, <2>4 DEF Kept
    <3>2. Len(r.heap) \in Nat
      BY <2>4, SeqIsFunction DEF Kept, HeapOK
    <3> QED
      BY <1>7, <2>3, <3>1, <3>2
  <2> QED
    BY <1>4, <2>2, <2>4, <2>5, <2>6
<1> QED
  BY <1>2, <1>4, <1>8, <1>9, <1>10, <1>11

-----------------------------------------------------------------------------
\* The greatest element of an initial segment of the numbers, and of what lies below one.
LEMMA MaxOfSegment ==
  ASSUME NEW n \in Nat, NEW s, s \subseteq 1..n + 1, n + 1 \in s
  PROVE  Max(s) = n + 1 /\ s \ {n + 1} \subseteq 1..n
<1>1. \A y \in s : n + 1 >= y
  OBVIOUS
<1>2. Max(s) \in s /\ \A y \in s : Max(s) >= y
  BY <1>1 DEF Max
<1>3. PICK m : m = Max(s)
  OBVIOUS
<1>4. m \in 1..n + 1 /\ m >= n + 1
  BY <1>2, <1>3
<1>5. m = n + 1
  BY <1>4
<1> QED
  BY <1>3, <1>5

\* The lists that ListOf goes through.
LEMMA FoldListOf ==
  ASSUME NEW h, NEW items, NEW n \in Nat, DOMAIN items = 1..n
  PROVE  \E done : /\ done[0] = [heap |-> h, list |-> NULL]
                   /\ \A k \in 1..n :
                        done[k] = AstAppend(done[k - 1].heap, done[k - 1].list, items[k])
                   /\ ListOf(h, items) = done[n]
<1> DEFINE base == [heap |-> h, list |-> NULL]
           Op(done, item) == AstAppend(done.heap, done.list, item)
           Iter == CHOOSE it : it = [s \in SUBSET (1..n) |->
                     IF s = {} THEN base ELSE Op(it[s \ {Max(s)}], items[Max(s)])]
<1>1. ListOf(h, items) = Iter[1..n]
  BY Zenon DEF ListOf, FoldLeft, MapThenFoldSet
<1> HIDE DEF Op
<1> DEFINE Upto(m, it) ==
             /\ it = [s \in SUBSET (1..n) |-> it[s]]
             /\ \A s \in SUBSET (1..n) : s \subseteq 1..m =>
                  it[s] = IF s = {} THEN base ELSE Op(it[s \ {Max(s)}], items[Max(s)])
           T == {m \in Nat : \E it : Upto(m, it)}
<1>2. 0 \in T
  <2>1. Upto(0, [s \in SUBSET (1..n) |-> base])
    OBVIOUS
  <2> QED
    BY <2>1
<1>3. ASSUME NEW m \in Nat, m \in T PROVE m + 1 \in T
  <2>1. PICK it : Upto(m, it)
    BY <1>3
  <2> DEFINE new == [s \in SUBSET (1..n) |->
                       IF m + 1 \in s THEN Op(it[s \ {Max(s)}], items[Max(s)]) ELSE it[s]]
  <2>2. ASSUME NEW s \in SUBSET (1..n), s \subseteq 1..m + 1
        PROVE  new[s] = IF s = {} THEN base ELSE Op(new[s \ {Max(s)}], items[Max(s)])
    <3>1. CASE m + 1 \in s
      <4>1. Max(s) = m + 1 /\ s \ {m + 1} \in SUBSET (1..n)
        BY <2>2, <3>1, MaxOfSegment
      <4>2. new[s \ {Max(s)}] = it[s \ {Max(s)}]
        BY <4>1
      <4> QED
        BY <3>1, <4>2
    <3>2. CASE m + 1 \notin s
      <4>1. s \subseteq 1..m
        BY <2>2, <3>2
      <4>2. new[s] = IF s = {} THEN base ELSE Op(it[s \ {Max(s)}], items[Max(s)])
        BY <2>1, <3>2, <4>1
      <4>3. new[s \ {Max(s)}] = it[s \ {Max(s)}]
        BY <3>2
      <4> QED
        BY <4>2, <4>3
    <3> QED
      BY <3>1, <3>2
  <2>3. Upto(m + 1, new)
    <3> HIDE DEF new
    <3>1. new = [s \in SUBSET (1..n) |-> new[s]]
      BY DEF new
    <3> QED
      BY <2>2, <3>1
  <2> HIDE DEF new
  <2> HIDE DEF Upto
  <2>4. m + 1 \in Nat
    OBVIOUS
  <2> QED
    BY <2>3, <2>4
<1>4. \E it : Upto(n, it)
  <2>1. Nat \subseteq T
    <3>1. \A m \in Nat : m \in T => m + 1 \in T
      BY <1>3
    <3> HIDE DEF T
    <3> QED
      BY <1>2, <3>1, NatInduct
  <2> QED
    BY <2>1
<1>5. Iter = [s \in SUBSET (1..n) |->
                IF s = {} THEN base ELSE Op(Iter[s \ {Max(s)}], items[Max(s)])]
  <2>1. PICK it : Upto(n, it)
    BY <1>4
  <2>2. it = [s \in SUBSET (1..n) |->
                IF s = {} THEN base ELSE Op(it[s \ {Max(s)}], items[Max(s)])]
    BY <2>1
  <2> QED
    BY <2>2
<1> HIDE DEF Iter
<1> DEFINE done == [k \in 0..n |-> Iter[1..k]]
<1>6. done[0] = base
  <2>1. 1..0 = {}
    OBVIOUS
  <2> QED
    BY <1>5, <2>1
<1>7. ASSUME NEW k \in 1..n PROVE done[k] = Op(done[k - 1], items[k])
  <2>1. /\ 1..k \in SUBSET (1..n) /\ k \in 1..k
        /\ k \in 0..n /\ k - 1 \in 0..n /\ k \in Nat
    <3>1. k \in Nat /\ k >= 1 /\ k <= n
      OBVIOUS
    <3> QED
      BY <3>1
  <2>2. Max(1..k) = k /\ (1..k) \ {k} = 1..k - 1
    <3>1. PICK j \in Nat : j + 1 = k /\ j = k - 1
      BY k - 1 \in Nat
    <3>2. 1..k \subseteq 1..j + 1 /\ j + 1 \in 1..k
      BY <3>1
    <3>3. Max(1..k) = j + 1
      BY <3>2, MaxOfSegment
    <3>4. (1..k) \ {k} = 1..k - 1
      OBVIOUS
    <3> QED
      BY <3>1, <3>3, <3>4
  <2> QED
    BY <1>5, <2>1, <2>2
<1>8. ListOf(h, items) = done[n]
  BY <1>1
<1> HIDE DEF done
<1> QED
  BY <1>6, <1>7, <1>8 DEF Op

\* Two steps that keep the heap keep it together.
LEMMA KeptTwice ==
  ASSUME NEW h, NEW own, NEW f, NEW owf, NEW g, NEW owg, NEW p, NEW q, NEW t, NEW N, NEW M, NEW K,
         HeapOK(h, own), Kept(h, own, f, owf, p, N), Kept(f, owf, g, owg, q, M),
         p \in 1..Len(h) => p = t, q \in 1..Len(h) => q = t, N \subseteq K, M \subseteq K
  PROVE  Kept(h, own, g, owg, t, K)
<1>1. Len(h) \in Nat /\ Len(f) \in Nat /\ Len(g) \in Nat
  BY SeqIsFunction DEF HeapOK, Kept
<1>2. Len(h) <= Len(f) /\ Len(f) <= Len(g) /\ Len(h) <= Len(g) /\ HeapOK(g, owg)
  BY <1>1 DEF Kept
<1>3. ASSUME NEW i \in 1..Len(h) PROVE owg[i] = own[i] /\ g[i].node = h[i].node
  <2>1. i \in 1..Len(f)
    BY <1>1, <1>2
  <2> QED
    BY <2>1 DEF Kept
<1>4. ASSUME NEW i \in 1..Len(h), own[i] = i, i # t
      PROVE  g[i] = h[i] /\ Items(g, i) = Items(h, i)
  <2>1. i \in 1..Len(f) /\ owf[i] = i /\ i # p /\ i # q
    BY <1>1, <1>2, <1>4 DEF Kept
  <2> QED
    BY <1>4, <2>1 DEF Kept
<1>5. ASSUME NEW i \in Len(h) + 1..Len(g) PROVE g[i].node \in K
  <2>1. (i \in 1..Len(f) /\ i \in Len(h) + 1..Len(f)) \/ i \in Len(f) + 1..Len(g)
    BY <1>1, <1>2
  <2>2. CASE i \in 1..Len(f) /\ i \in Len(h) + 1..Len(f)
    BY <2>2 DEF Kept
  <2>3. CASE i \in Len(f) + 1..Len(g)
    BY <2>3 DEF Kept
  <2> QED
    BY <2>1, <2>2, <2>3
<1> QED
  BY <1>2, <1>3, <1>4, <1>5 DEF Kept

\* r is a new list of nodes.
Listed(h, own, nodes, r, owg) ==
  /\ Kept(h, own, r.heap, owg, 0, Members(nodes))
  /\ r.list = Len(h) + 1
  /\ r.list \in 1..Len(r.heap) /\ owg[r.list] = r.list
  /\ Items(r.heap, r.list) = nodes

\* A list made of nodes is new and holds these.
LEMMA ListOfKeeps ==
  ASSUME NEW h, NEW own, HeapOK(h, own), NEW nodes \in Seq(AstNodes), Len(nodes) >= 1
  PROVE  \E owg : Listed(h, own, nodes, ListOf(h, nodes), owg)
<1>1. PICK r : r = ListOf(h, nodes)
  OBVIOUS
<1>2. PICK n \in Nat : n = Len(nodes) /\ DOMAIN nodes = 1..n /\ n >= 1
  BY SeqIsFunction
<1>3. \A k \in 1..n : nodes[k] \in AstNodes
  BY <1>2, SeqIsFunction
<1>4. PICK done : /\ done[0] = [heap |-> h, list |-> NULL]
                  /\ \A k \in 1..n :
                       done[k] = AstAppend(done[k - 1].heap, done[k - 1].list, nodes[k])
                  /\ ListOf(h, nodes) = done[n]
  BY <1>2, FoldListOf
<1>5. Len(h) \in Nat /\ Items(h, 0) = <<>>
  BY SeqIsFunction, ItemsOfList DEF HeapOK
<1> DEFINE Good(k, owk) ==
             /\ Kept(h, own, done[k].heap, owk, 0, Members(nodes))
             /\ done[k].list = Len(h) + 1
             /\ done[k].list \in 1..Len(done[k].heap) /\ owk[done[k].list] = done[k].list
             /\ Len(Items(done[k].heap, done[k].list)) = k
             /\ \A j \in 1..k : Items(done[k].heap, done[k].list)[j] = nodes[j]
           T == {k \in Nat : k + 1 <= n => \E owk : Good(k + 1, owk)}
<1>6. ASSUME NEW k \in 1..n
      PROVE  /\ nodes[k] \in AstNodes /\ Given(done[k - 1].heap, nodes[k]) = <<nodes[k]>>
             /\ nodes[k] # NoNode /\ nodes[k].kind # "LIST"
             /\ Members(<<nodes[k]>>) \subseteq Members(nodes)
  <2>1. PICK x : x = nodes[k]
    OBVIOUS
  <2>2. x \in AstNodes
    BY <1>3, <2>1
  <2>3. x.kind # "NULL" /\ x.kind # "LIST"
    BY <2>2 DEF AstNodes, StatementKinds, DeclarationKinds
  <2>4. x # NoNode
    BY <2>3 DEF NoNode
  <2>5. Given(done[k - 1].heap, x) = <<x>>
    BY Zenon, <2>3, <2>4 DEF Given, ItemsOf
  <2>6. Len(<<x>>) = 1 /\ <<x>>[1] = x
    OBVIOUS
  <2>7. Members(<<x>>) \subseteq Members(nodes)
    BY <1>2, <2>1, <2>6 DEF Members
  <2> QED
    BY <2>1, <2>2, <2>3, <2>4, <2>5, <2>7
<1>7. 0 \in T
  <2>1. PICK r1 : r1 = done[1]
    OBVIOUS
  <2>2. 1 \in 1..n /\ 1 - 1 = 0 /\ done[0].heap = h /\ done[0].list = 0
    BY <1>2, <1>4 DEF NULL
  <2>3. r1 = AstAppend(done[1 - 1].heap, done[1 - 1].list, nodes[1])
    BY <1>4, <2>1, <2>2
  <2>4. r1 = AstAppend(h, 0, nodes[1])
    BY <2>2, <2>3
  <2>5. /\ nodes[1] \in AstNodes /\ Given(h, nodes[1]) = <<nodes[1]>> /\ nodes[1].kind # "LIST"
        /\ Members(<<nodes[1]>>) \subseteq Members(nodes)
    BY <1>6, <2>2
  <2>6. PICK owg : /\ Kept(h, own, r1.heap, owg, 0, Members(Given(h, nodes[1])))
                   /\ r1.list = Whole(h, 0, nodes[1])
                   /\ r1.list \in 1..Len(r1.heap) /\ owg[r1.list] = r1.list
                   /\ Items(r1.heap, r1.list) = Items(h, 0) \o Given(h, nodes[1])
    <3>1. Joins(h, own, 0, nodes[1])
      BY <1>5, <2>5 DEF Joins
    <3>2. \E owg : Joined(h, own, 0, nodes[1], r1, owg)
      BY <2>4, <3>1, AstAppendKeeps
    <3> QED
      BY <3>2 DEF Joined
  <2>7. r1.list = Len(h) + 1
    BY <2>5, <2>6 DEF Whole
  <2>8. Items(r1.heap, r1.list) = <<nodes[1]>>
    BY <1>5, <2>5, <2>6
  <2>9. Kept(h, own, r1.heap, owg, 0, Members(nodes))
    BY <2>5, <2>6 DEF Kept
  <2>10. Len(<<nodes[1]>>) = 1 /\ \A j \in 1..1 : <<nodes[1]>>[j] = nodes[j]
    OBVIOUS
  <2>11. Good(1, owg)
    BY Zenon, <2>1, <2>6, <2>7, <2>8, <2>9, <2>10
  <2> HIDE DEF Good
  <2> QED
    BY <2>11
<1>8. ASSUME NEW k \in Nat, k \in T PROVE k + 1 \in T
  <2>1. SUFFICES ASSUME k + 1 + 1 <= n PROVE \E owk : Good(k + 1 + 1, owk)
    <3> HIDE DEF Good
    <3> QED
      OBVIOUS
  <2>2. PICK l, f, s : l = k + 1 /\ f = done[l].heap /\ s = done[l].list
    OBVIOUS
  <2>3. l \in 1..n /\ l + 1 \in 1..n /\ l + 1 - 1 = l
    BY <1>2, <2>1, <2>2
  <2>4. PICK owf : Good(l, owf)
    <3>1. \E owk : Good(k + 1, owk)
      <4> HIDE DEF Good
      <4> QED
        BY <1>2, <1>8, <2>1
    <3> HIDE DEF Good
    <3> QED
      BY <2>2, <3>1
  <2>5. /\ Kept(h, own, f, owf, 0, Members(nodes)) /\ s = Len(h) + 1 /\ s \in 1..Len(f)
        /\ owf[s] = s /\ Len(Items(f, s)) = l /\ \A j \in 1..l : Items(f, s)[j] = nodes[j]
    BY Zenon, <2>2, <2>4
  <2>6. PICK g, x : g = done[l + 1] /\ x = nodes[l + 1]
    OBVIOUS
  <2>7. g = AstAppend(f, s, x)
    <3>1. done[l + 1] = AstAppend(done[l + 1 - 1].heap, done[l + 1 - 1].list, nodes[l + 1])
      BY <1>4, <2>3
    <3> QED
      BY <2>2, <2>3, <2>6, <3>1
  <2>8. x \in AstNodes /\ Given(f, x) = <<x>> /\ Members(<<x>>) \subseteq Members(nodes)
    <3>1. PICK q \in 1..n : q = l + 1 /\ q - 1 = l
      BY <2>3
    <3>2. /\ nodes[q] \in AstNodes /\ Given(done[q - 1].heap, nodes[q]) = <<nodes[q]>>
          /\ Members(<<nodes[q]>>) \subseteq Members(nodes)
      BY <1>6
    <3> QED
      BY <2>2, <2>6, <3>1, <3>2
  <2>9. HeapOK(f, owf) /\ Len(f) \in Nat
    BY <2>5, SeqIsFunction DEF Kept, HeapOK
  <2>10. PICK owg : /\ Kept(f, owf, g.heap, owg, s, Members(Given(f, x)))
                    /\ g.list = Whole(f, s, x)
                    /\ g.list \in 1..Len(g.heap) /\ owg[g.list] = g.list
                    /\ Items(g.heap, g.list) = Items(f, s) \o Given(f, x)
    <3>1. Joins(f, owf, s, x)
      BY <2>5, <2>8, <2>9 DEF Joins
    <3>2. \E owg : Joined(f, owf, s, x, g, owg)
      BY <2>7, <2>9, <3>1, AstAppendKeeps
    <3> QED
      BY <3>2 DEF Joined
  <2>11. g.list = s
    BY <2>5, <2>9, <2>10 DEF Whole
  <2>12. Kept(h, own, g.heap, owg, 0, Members(nodes))
    <3>1. s \notin 1..Len(h) /\ 0 \notin 1..Len(h)
      BY <1>5, <2>5
    <3>2. Members(Given(f, x)) \subseteq Members(nodes)
      BY <2>8
    <3> QED
      BY <2>5, <2>10, <3>1, <3>2, KeptTwice
  <2>13. Items(f, s) \in Seq(AstNodes)
    BY <2>5, <2>9, ItemsOfList
  <2>14. PICK a : a = Items(g.heap, g.list) /\ a = Items(f, s) \o <<x>>
    BY <2>8, <2>10
  <2>15. Len(a) = l + 1 /\ \A j \in 1..l + 1 : a[j] = nodes[j]
    <3>1. a = Append(Items(f, s), x)
      BY <2>8, <2>13, <2>14
    <3>2. /\ Len(a) = l + 1 /\ a[l + 1] = x
          /\ \A j \in 1..l : a[j] = nodes[j]
      BY <2>5, <2>8, <2>13, <3>1, AppendProperties
    <3> QED
      BY <2>3, <2>6, <3>2
  <2>16. Good(l + 1, owg)
    BY Zenon, <2>5, <2>6, <2>10, <2>11, <2>12, <2>14, <2>15
  <2> HIDE DEF Good
  <2> QED
    BY <2>2, <2>16
<1>9. \A k \in Nat : k \in T => k + 1 \in T
  BY <1>8
<1>10. n - 1 \in T
  <2>1. Nat \subseteq T
    <3> HIDE DEF T
    <3> QED
      BY <1>7, <1>9, NatInduct
  <2> HIDE DEF T
  <2> QED
    BY <1>2, <2>1
<1>11. PICK owg : Good(n, owg)
  <2>1. n - 1 + 1 = n /\ n - 1 + 1 <= n
    BY <1>2
  <2>2. \E owk : Good(n - 1 + 1, owk)
    <3> HIDE DEF Good
    <3> QED
      BY <1>10, <2>1
  <2> HIDE DEF Good
  <2> QED
    BY <2>1, <2>2
<1>12. r = done[n]
  BY <1>1, <1>4
<1>13. Items(r.heap, r.list) = nodes
  <2>1. PICK a : a = Items(r.heap, r.list)
    OBVIOUS
  <2>2. a \in Seq(AstNodes)
    BY <1>11, <1>12, <2>1, ItemsOfList DEF Kept
  <2>3. Len(a) = n /\ \A j \in 1..n : a[j] = nodes[j]
    BY <1>11, <1>12, <2>1
  <2> QED
    BY <1>2, <2>1, <2>2, <2>3, SeqEqual
<1>14. Listed(h, own, nodes, r, owg)
  BY <1>11, <1>12, <1>13 DEF Listed
<1> QED
  BY <1>1, <1>14

-----------------------------------------------------------------------------
(* What is emitted: sequences made of others.                               *)

\* A sequence is its front and its last element.
LEMMA FrontParts ==
  ASSUME NEW S, NEW s \in Seq(S), Len(s) >= 1, NEW n \in Nat, Len(s) = n + 1, NEW front,
         front = SubSeq(s, 1, n)
  PROVE  /\ front \in Seq(S) /\ Len(front) = n /\ (\A k \in 1..n : front[k] = s[k])
         /\ Last(s) \in S /\ s = Append(front, Last(s))
<1>1. front \in Seq(S) /\ Len(front) = n /\ \A k \in 1..n : front[k] = s[k]
  BY SubSeqProperties
<1>2. Last(s) = s[n + 1] /\ s[n + 1] \in S
  BY SeqIsFunction DEF Last
<1>3. PICK t : t = Append(front, s[n + 1])
  OBVIOUS
<1>4. t \in Seq(S) /\ Len(t) = n + 1 /\ t[n + 1] = s[n + 1] /\ \A k \in 1..n : t[k] = front[k]
  BY <1>1, <1>2, <1>3, AppendParts
<1>5. ASSUME NEW k \in 1..n + 1 PROVE t[k] = s[k]
  BY <1>1, <1>4
<1>6. t = s
  BY <1>4, <1>5, SeqEqual
<1> QED
  BY <1>1, <1>2, <1>3, <1>6

\* A sequence with one element more is the concatenation with that element.
LEMMA OneAtTheEnd ==
  ASSUME NEW S, NEW s \in Seq(S), NEW x \in S
  PROVE  /\ Append(s, x) = s \o <<x>> /\ <<x>> \in Seq(S) /\ Append(<<>>, x) = <<x>>
         /\ s \o <<>> = s /\ <<>> \o s = s
  OBVIOUS

\* A concatenation grows at its end.
LEMMA ConcatAppend ==
  ASSUME NEW S, NEW s \in Seq(S), NEW t \in Seq(S), NEW x \in S
  PROVE  s \o Append(t, x) = Append(s \o t, x) /\ s \o t \in Seq(S)
<1>1. PICK one : one = <<x>>
  OBVIOUS
<1>2. one \in Seq(S) /\ Append(t, x) = t \o one
  BY <1>1, OneAtTheEnd
<1>3. PICK c : c = s \o t /\ c \in Seq(S)
  BY ConcatProperties
<1>4. Append(c, x) = c \o one
  BY <1>1, <1>3, OneAtTheEnd
<1>5. s \o (t \o one) = (s \o t) \o one
  <2>1. s \in Seq(S) /\ t \in Seq(S) /\ one \in Seq(S)
    BY <1>2
  <2> QED
    BY ONLY <2>1, ConcatAssociative
<1> QED
  BY Zenon, <1>2, <1>3, <1>4, <1>5

\* FlattenSeq and concatenation.
LEMMA FlattenConcat ==
  ASSUME NEW S, NEW ss \in Seq(Seq(S)), NEW tt \in Seq(Seq(S))
  PROVE  FlattenSeq(ss \o tt) = FlattenSeq(ss) \o FlattenSeq(tt)
<1> DEFINE P == {uu \in Seq(Seq(S)) : FlattenSeq(ss \o uu) = FlattenSeq(ss) \o FlattenSeq(uu)}
<1>1. PICK f : f = FlattenSeq(ss) /\ f \in Seq(S)
  BY FlattenAppend, EmptySeq
<1>2. <<>> \in P
  <2>1. ss \o <<>> = ss /\ <<>> \in Seq(Seq(S))
    BY ConcatEmptySeq, EmptySeq
  <2>2. FlattenSeq(<<>>) = <<>>
    <3>1. PICK none : none = <<>>
      OBVIOUS
    <3>2. none \in Seq(Seq(S)) /\ Len(none) = 0
      BY <3>1, EmptySeq
    <3>3. PICK flat : Flattened(S, none, Len(none), flat)
      BY <3>2, FlattenSteps
    <3> QED
      BY <3>1, <3>2, <3>3 DEF Flattened
  <2>3. f \o <<>> = f
    BY <1>1, ConcatEmptySeq
  <2> QED
    BY <1>1, <2>1, <2>2, <2>3
<1>3. ASSUME NEW uu \in Seq(Seq(S)), NEW u \in Seq(S), uu \in P PROVE Append(uu, u) \in P
  <2>1. PICK g : g = FlattenSeq(uu) /\ g \in Seq(S)
    BY FlattenAppend, EmptySeq
  <2>2. PICK more, c : more = Append(uu, u) /\ c = ss \o uu
    OBVIOUS
  <2>3. c \in Seq(Seq(S)) /\ ss \o more = Append(c, u) /\ more \in Seq(Seq(S))
    BY <2>2, ConcatAppend, AppendProperties
  <2>4. FlattenSeq(more) = g \o u
    BY <2>1, <2>2, FlattenAppend
  <2>5. FlattenSeq(Append(c, u)) = FlattenSeq(c) \o u
    BY <2>3, FlattenAppend
  <2>6. FlattenSeq(c) = f \o g
    BY <1>1, <1>3, <2>1, <2>2
  <2>7. f \o (g \o u) = (f \o g) \o u
    <3>1. f \in Seq(S) /\ g \in Seq(S) /\ u \in Seq(S)
      BY <1>1, <2>1
    <3> QED
      BY ONLY <3>1, ConcatAssociative, SMTT(30)
  <2>8. FlattenSeq(ss \o more) = FlattenSeq(ss) \o FlattenSeq(more)
    BY Zenon, <1>1, <2>3, <2>4, <2>5, <2>6, <2>7
  <2> QED
    BY <2>2, <2>3, <2>8
<1>4. tt \in P
  <2>1. \A uu \in Seq(Seq(S)), u \in Seq(S) : uu \in P => Append(uu, u) \in P
    BY <1>3
  <2> HIDE DEF P
  <2> QED
    BY <1>2, <2>1, SeqInduct
<1> QED
  BY <1>4

\* Flattening nothing, and one sequence in front of others.
LEMMA FlattenFront ==
  ASSUME NEW S, NEW ss \in Seq(Seq(S)), NEW s \in Seq(S)
  PROVE  FlattenSeq(<<>>) = <<>> /\ FlattenSeq(<<s>> \o ss) = s \o FlattenSeq(ss)
<1>1. PICK none, one : none = <<>> /\ one = <<s>>
  OBVIOUS
<1>2. none \in Seq(Seq(S)) /\ Len(none) = 0 /\ one \in Seq(Seq(S))
  BY <1>1, EmptySeq
<1>3. PICK flat : Flattened(S, none, Len(none), flat)
  BY <1>2, FlattenSteps
<1>4. FlattenSeq(none) = <<>>
  BY <1>2, <1>3 DEF Flattened
<1>5. FlattenSeq(one) = s
  BY <1>1, <1>2, FlattenAppend
<1>6. FlattenSeq(one \o ss) = FlattenSeq(one) \o FlattenSeq(ss)
  BY <1>2, FlattenConcat
<1> QED
  BY Zenon, <1>1, <1>4, <1>5, <1>6

-----------------------------------------------------------------------------
(* The elements of some kinds, and the ids of elements.                     *)
Pick(x, kinds) == IF x.kind \in kinds THEN <<x>> ELSE <<>>
Picks(s, kinds) == [k \in DOMAIN s |-> Pick(s[k], kinds)]

\* OfKinds is what was picked.
LEMMA PicksOfSeq ==
  ASSUME NEW S, NEW s \in Seq(S), NEW kinds
  PROVE  /\ OfKinds(s, kinds) = FlattenSeq(Picks(s, kinds))
         /\ Picks(s, kinds) \in Seq(Seq({x \in S : x.kind \in kinds}))
         /\ Len(Picks(s, kinds)) = Len(s)
         /\ \A k \in 1..Len(s) : Picks(s, kinds)[k] = Pick(s[k], kinds)
<1>1. OfKinds(s, kinds) = FlattenSeq(Picks(s, kinds))
  BY DEF OfKinds, Picks, Pick
<1>2. PICK n \in Nat : n = Len(s) /\ DOMAIN s = 1..n /\ \A k \in 1..n : s[k] \in S
  BY SeqIsFunction
<1>3. PICK R, Q, p : R = {x \in S : x.kind \in kinds} /\ Q = Seq(R) /\ p = Picks(s, kinds)
  OBVIOUS
<1>4. p = [k \in 1..n |-> Pick(s[k], kinds)]
  BY Zenon, <1>2, <1>3 DEF Picks
<1>5. ASSUME NEW k \in 1..n PROVE p[k] \in Q
  <2>1. PICK x : x = s[k] /\ x \in S
    BY <1>2
  <2>2. p[k] = Pick(x, kinds)
    BY <1>4, <2>1
  <2>3. CASE x.kind \in kinds
    <3>1. x \in R /\ p[k] = <<x>>
      BY <1>3, <2>1, <2>2, <2>3 DEF Pick
    <3> QED
      BY <1>3, <3>1
  <2>4. CASE x.kind \notin kinds
    BY <1>3, <2>2, <2>4 DEF Pick
  <2> QED
    BY <2>3, <2>4
<1>6. p = [k \in 1..n |-> p[k]]
  BY <1>4
<1>7. p \in Seq(Q) /\ Len(p) = n
  BY <1>5, <1>6, FunctionIsSeq
<1>8. \A k \in 1..n : p[k] = Pick(s[k], kinds)
  BY <1>4
<1> QED
  BY Zenon, <1>1, <1>2, <1>3, <1>7, <1>8

\* They are elements, and of these kinds.
LEMMA OfKindsIsSeq ==
  ASSUME NEW S, NEW s \in Seq(S), NEW kinds, NEW R, R = {x \in S : x.kind \in kinds}
  PROVE  OfKinds(s, kinds) \in Seq(R)
<1>1. PICK p : p = Picks(s, kinds)
  OBVIOUS
<1>2. p \in Seq(Seq(R)) /\ OfKinds(s, kinds) = FlattenSeq(p)
  BY <1>1, PicksOfSeq
<1>3. FlattenSeq(p) \in Seq(R)
  BY <1>2, FlattenAppend, EmptySeq
<1> QED
  BY <1>2, <1>3

\* The elements of some kinds of a concatenation.
LEMMA OfKindsConcat ==
  ASSUME NEW S, NEW s \in Seq(S), NEW t \in Seq(S), NEW kinds
  PROVE  OfKinds(s \o t, kinds) = OfKinds(s, kinds) \o OfKinds(t, kinds)
<1>1. PICK c, a, b, p, R : /\ c = s \o t /\ a = Picks(s, kinds) /\ b = Picks(t, kinds)
                           /\ p = Picks(c, kinds) /\ R = {x \in S : x.kind \in kinds}
  OBVIOUS
<1>2. PICK m, n : m = Len(s) /\ n = Len(t)
  OBVIOUS
<1>3. /\ c \in Seq(S) /\ Len(c) = m + n /\ m \in Nat /\ n \in Nat
      /\ \A k \in 1..m : c[k] = s[k]
      /\ \A k \in 1..n : c[m + k] = t[k]
  BY <1>1, <1>2, ConcatParts
<1>4. /\ a \in Seq(Seq(R)) /\ Len(a) = m /\ \A k \in 1..m : a[k] = Pick(s[k], kinds)
      /\ OfKinds(s, kinds) = FlattenSeq(a)
  BY <1>1, <1>2, PicksOfSeq
<1>5. /\ b \in Seq(Seq(R)) /\ Len(b) = n /\ \A k \in 1..n : b[k] = Pick(t[k], kinds)
      /\ OfKinds(t, kinds) = FlattenSeq(b)
  BY <1>1, <1>2, PicksOfSeq
<1>6. /\ p \in Seq(Seq(R)) /\ Len(p) = m + n /\ \A k \in 1..m + n : p[k] = Pick(c[k], kinds)
      /\ OfKinds(c, kinds) = FlattenSeq(p)
  <2>1. c \in Seq(S)
    BY <1>3
  <2>2. /\ OfKinds(c, kinds) = FlattenSeq(Picks(c, kinds))
        /\ Picks(c, kinds) \in Seq(Seq({x \in S : x.kind \in kinds}))
        /\ Len(Picks(c, kinds)) = Len(c)
        /\ \A k \in 1..Len(c) : Picks(c, kinds)[k] = Pick(c[k], kinds)
    BY ONLY <2>1, PicksOfSeq
  <2> QED
    BY <1>1, <1>3, <2>2, Zenon
<1>7. PICK q : q = a \o b
  OBVIOUS
<1>8. /\ q \in Seq(Seq(R)) /\ Len(q) = m + n
      /\ \A k \in 1..m : q[k] = a[k]
      /\ \A k \in 1..n : q[m + k] = b[k]
  <2>1. PICK U : U = Seq(R)
    OBVIOUS
  <2>2. PICK d \in Seq(U), e \in Seq(U) : d = a /\ e = b
    BY <1>4, <1>5, <2>1
  <2>3. /\ q \in Seq(U) /\ Len(q) = Len(a) + Len(b)
        /\ \A k \in 1..Len(a) : q[k] = a[k]
        /\ \A k \in 1..Len(b) : q[Len(a) + k] = b[k]
    <3>1. q = d \o e
      BY <1>7, <2>2
    <3>2. /\ q \in Seq(U) /\ Len(q) = Len(d) + Len(e)
          /\ \A k \in 1..Len(d) : q[k] = d[k]
          /\ \A k \in 1..Len(e) : q[Len(d) + k] = e[k]
      BY <3>1, ConcatParts
    <3> QED
      BY Zenon, <2>2, <3>2
  <2>4. q \in Seq(Seq(R))
    BY Zenon, <2>1, <2>3
  <2>5. /\ Len(q) = m + n
        /\ \A k \in 1..m : q[k] = a[k]
        /\ \A k \in 1..n : q[m + k] = b[k]
    BY <1>4, <1>5, <2>3
  <2> QED
    BY Zenon, <2>4, <2>5
<1>9. ASSUME NEW k \in 1..m + n PROVE p[k] = q[k]
  <2>1. CASE k \in 1..m
    BY <1>3, <1>4, <1>6, <1>8, <2>1
  <2>2. ASSUME NEW j \in 1..n, k = m + j PROVE p[k] = q[k]
    BY <1>3, <1>5, <1>6, <1>8, <2>2
  <2>3. k \in 1..m \/ \E j \in 1..n : k = m + j
    BY <1>3, TwoParts
  <2> QED
    BY <2>1, <2>2, <2>3
<1>10. p = q
  BY <1>6, <1>8, <1>9, SeqEqual
<1>11. FlattenSeq(q) = FlattenSeq(a) \o FlattenSeq(b)
  BY <1>4, <1>5, <1>7, FlattenConcat
<1> QED
  BY Zenon, <1>1, <1>4, <1>5, <1>6, <1>10, <1>11

\* The elements of some kinds of a sequence with one more.
LEMMA OfKindsAppend ==
  ASSUME NEW S, NEW s \in Seq(S), NEW x \in S, NEW kinds
  PROVE  /\ OfKinds(<<>>, kinds) = <<>>
         /\ OfKinds(Append(s, x), kinds) =
              IF x.kind \in kinds THEN Append(OfKinds(s, kinds), x) ELSE OfKinds(s, kinds)
<1>1. OfKinds(<<>>, kinds) = <<>>
  <2>1. Picks(<<>>, kinds) = <<>>
    BY DEF Picks
  <2>2. <<>> \in Seq(S) /\ <<>> \in Seq(Seq(S))
    OBVIOUS
  <2>3. FlattenSeq(<<>>) = <<>>
    BY <2>2, FlattenFront
  <2>4. OfKinds(<<>>, kinds) = FlattenSeq(Picks(<<>>, kinds))
    BY DEF OfKinds, Picks, Pick
  <2> QED
    BY Zenon, <2>1, <2>3, <2>4
<1>2. PICK one : one = <<x>>
  OBVIOUS
<1>3. one \in Seq(S) /\ Len(one) = 1 /\ one[1] = x /\ Append(s, x) = s \o one
  BY <1>2, OneAtTheEnd
<1>4. OfKinds(Append(s, x), kinds) = OfKinds(s, kinds) \o OfKinds(one, kinds)
  <2>1. OfKinds(s \o one, kinds) = OfKinds(s, kinds) \o OfKinds(one, kinds)
    <3>1. one \in Seq(S)
      BY <1>3
    <3> QED
      BY <3>1, OfKindsConcat
  <2> QED
    BY Zenon, <1>3, <2>1
<1>5. PICK R, f, p, q : /\ R = {y \in S : y.kind \in kinds} /\ f = OfKinds(s, kinds)
                        /\ p = Pick(x, kinds) /\ q = Picks(one, kinds)
  OBVIOUS
<1>6. f \in Seq(R)
  BY <1>5, OfKindsIsSeq
<1>7. q \in Seq(Seq(R)) /\ Len(q) = 1 /\ q[1] = p /\ OfKinds(one, kinds) = FlattenSeq(q)
  BY <1>3, <1>5, PicksOfSeq
<1>8. OfKinds(one, kinds) = p
  <2>1. p \in Seq(R)
    <3>1. PICK U : U = Seq(R)
      OBVIOUS
    <3>2. q \in Seq(U) /\ 1 \in 1..Len(q)
      BY <1>7, <3>1
    <3>3. q[1] \in U
      BY <3>2, ElementOfSeq
    <3> QED
      BY <1>7, <3>1, <3>3
  <2>2. PICK w : w = <<p>>
    OBVIOUS
  <2>3. w \in Seq(Seq(R)) /\ Len(w) = 1 /\ w[1] = p
    BY <2>1, <2>2
  <2>4. \A k \in 1..1 : q[k] = w[k]
    BY <1>7, <2>3
  <2>5. q = w
    BY <1>7, <2>3, <2>4, SeqEqual
  <2>6. FlattenSeq(w) = p
    BY <2>1, <2>2, <1>7, FlattenAppend
  <2> QED
    BY <1>7, <2>5, <2>6
<1>9. CASE x.kind \in kinds
  <2>1. p = <<x>> /\ x \in R
    BY <1>5, <1>9 DEF Pick
  <2>2. Append(f, x) = f \o <<x>>
    BY <1>6, <2>1, OneAtTheEnd
  <2> QED
    BY Zenon, <1>1, <1>4, <1>5, <1>8, <1>9, <2>1, <2>2
<1>10. CASE x.kind \notin kinds
  <2>1. p = <<>>
    BY <1>5, <1>10 DEF Pick
  <2>2. f \o <<>> = f
    BY <1>6, ConcatEmptySeq
  <2> QED
    BY Zenon, <1>1, <1>4, <1>5, <1>8, <1>10, <2>1, <2>2
<1> QED
  BY <1>9, <1>10

\* All elements are of these kinds, or none is.
LEMMA OfAllKinds ==
  ASSUME NEW S, NEW kinds, NEW s \in Seq(S)
  PROVE  /\ (\A x \in S : x.kind \in kinds) => OfKinds(s, kinds) = s
         /\ (\A x \in S : x.kind \notin kinds) => OfKinds(s, kinds) = <<>>
<1> DEFINE All == \A x \in S : x.kind \in kinds
           None == \A x \in S : x.kind \notin kinds
           P == {t \in Seq(S) : /\ All => OfKinds(t, kinds) = t
                                /\ None => OfKinds(t, kinds) = <<>>}
<1>1. S = {} => s = <<>>
  BY SeqIsFunction
<1>2. CASE S = {}
  <2>1. PICK Z, e : Z = {e}
    OBVIOUS
  <2>2. OfKinds(<<>>, kinds) = <<>>
    BY <2>1, OfKindsAppend, EmptySeq
  <2> QED
    BY <1>1, <1>2, <2>2
<1>3. CASE S # {}
  <2>1. <<>> \in P
    <3>1. PICK e : e \in S
      BY <1>3
    <3>2. <<>> \in Seq(S)
      OBVIOUS
    <3>3. OfKinds(<<>>, kinds) = <<>>
      BY <3>1, <3>2, OfKindsAppend
    <3> QED
      BY <3>2, <3>3
  <2>2. ASSUME NEW t \in Seq(S), NEW x \in S, t \in P PROVE Append(t, x) \in P
    <3>1. PICK u : u = Append(t, x) /\ u \in Seq(S)
      BY AppendProperties
    <3>2. OfKinds(u, kinds) =
            IF x.kind \in kinds THEN Append(OfKinds(t, kinds), x) ELSE OfKinds(t, kinds)
      BY <3>1, OfKindsAppend
    <3>3. All => OfKinds(u, kinds) = u
      BY <2>2, <3>1, <3>2
    <3>4. None => OfKinds(u, kinds) = <<>>
      BY <2>2, <3>1, <3>2
    <3> QED
      BY <3>1, <3>3, <3>4
  <2>3. s \in P
    <3>1. \A t \in Seq(S), x \in S : t \in P => Append(t, x) \in P
      BY <2>2
    <3> HIDE DEF P
    <3> QED
      BY <2>1, <3>1, SeqInduct
  <2> QED
    BY <2>3
<1> QED
  BY <1>2, <1>3

-----------------------------------------------------------------------------
Numbered(S) == \A x \in S : x.id \in Nat
IdsOf(ss) == [k \in DOMAIN ss |-> Ids(ss[k])]

\* The ids of a sequence are as many.
LEMMA IdsOfSeq ==
  ASSUME NEW S, Numbered(S), NEW s \in Seq(S)
  PROVE  /\ Ids(s) \in Seq(Nat) /\ Len(Ids(s)) = Len(s)
         /\ \A k \in 1..Len(s) : Ids(s)[k] = s[k].id
<1>1. PICK n \in Nat : n = Len(s) /\ DOMAIN s = 1..n /\ \A k \in 1..n : s[k] \in S
  BY SeqIsFunction
<1>2. PICK i : i = Ids(s)
  OBVIOUS
<1>3. i = [k \in 1..n |-> s[k].id]
  BY Zenon, <1>1, <1>2 DEF Ids
<1>4. \A k \in 1..n : i[k] = s[k].id /\ i[k] \in Nat
  BY <1>1, <1>3 DEF Numbered
<1>5. i = [k \in 1..n |-> i[k]]
  BY <1>3
<1>6. i \in Seq(Nat) /\ Len(i) = n
  BY <1>4, <1>5, FunctionIsSeq
<1> QED
  BY <1>1, <1>2, <1>4, <1>6

\* The ids of a concatenation.
LEMMA IdsConcat ==
  ASSUME NEW S, Numbered(S), NEW s \in Seq(S), NEW t \in Seq(S)
  PROVE  Ids(s \o t) = Ids(s) \o Ids(t)
<1>1. PICK c, m, n : c = s \o t /\ m = Len(s) /\ n = Len(t)
  OBVIOUS
<1>2. /\ c \in Seq(S) /\ Len(c) = m + n /\ m \in Nat /\ n \in Nat
      /\ \A k \in 1..m : c[k] = s[k]
      /\ \A k \in 1..n : c[m + k] = t[k]
  BY <1>1, ConcatParts
<1>3. PICK a, b, i, j : a = Ids(s) /\ b = Ids(t) /\ i = Ids(c) /\ j = a \o b
  OBVIOUS
<1>4. /\ a \in Seq(Nat) /\ Len(a) = m /\ \A k \in 1..m : a[k] = s[k].id
      /\ b \in Seq(Nat) /\ Len(b) = n /\ \A k \in 1..n : b[k] = t[k].id
  BY <1>1, <1>3, IdsOfSeq
<1>5. i \in Seq(Nat) /\ Len(i) = m + n /\ \A k \in 1..m + n : i[k] = c[k].id
  BY <1>2, <1>3, IdsOfSeq
<1>6. /\ j \in Seq(Nat) /\ Len(j) = m + n
      /\ \A k \in 1..m : j[k] = a[k]
      /\ \A k \in 1..n : j[m + k] = b[k]
  <2>1. a \in Seq(Nat) /\ Len(a) = m /\ b \in Seq(Nat) /\ Len(b) = n /\ j = a \o b
    BY <1>3, <1>4
  <2>2. /\ j \in Seq(Nat) /\ Len(j) = Len(a) + Len(b)
        /\ \A k \in 1..Len(a) : j[k] = a[k]
        /\ \A k \in 1..Len(b) : j[Len(a) + k] = b[k]
    <3>1. a \in Seq(Nat) /\ b \in Seq(Nat) /\ j = a \o b
      BY <2>1
    <3> QED
      BY ONLY <3>1, ConcatParts
  <2> QED
    BY ONLY <2>1, <2>2
<1>7. ASSUME NEW k \in 1..m + n PROVE i[k] = j[k]
  <2>1. CASE k \in 1..m
    <3>1. c[k] = s[k] /\ j[k] = a[k] /\ a[k] = s[k].id
      BY <1>2, <1>4, <1>6, <2>1, Zenon
    <3>2. i[k] = c[k].id
      BY <1>5
    <3> QED
      BY <3>1, <3>2
  <2>2. ASSUME NEW l \in 1..n, k = m + l PROVE i[k] = j[k]
    <3>1. c[k] = t[l] /\ j[k] = b[l]
      BY <1>2, <1>6, <2>2
    <3>2. b[l] = t[l].id /\ i[k] = c[k].id
      BY <1>4, <1>5
    <3> QED
      BY <3>1, <3>2
  <2>3. k \in 1..m \/ \E l \in 1..n : k = m + l
    BY <1>2, TwoParts
  <2> QED
    BY <2>1, <2>2, <2>3
<1>8. i = j
  BY <1>5, <1>6, <1>7, SeqEqual
<1> QED
  BY Zenon, <1>1, <1>3, <1>8

\* The ids of a sequence with one more.
LEMMA IdsAppend ==
  ASSUME NEW S, Numbered(S), NEW s \in Seq(S), NEW x \in S
  PROVE  /\ Ids(<<>>) = <<>> /\ Ids(<<x>>) = <<x.id>>
         /\ Ids(Append(s, x)) = Append(Ids(s), x.id)
<1>1. PICK none, one : none = <<>> /\ one = <<x>>
  OBVIOUS
<1>2. /\ none \in Seq(S) /\ Len(none) = 0 /\ one \in Seq(S) /\ Len(one) = 1 /\ one[1] = x
      /\ Append(s, x) = s \o one /\ x.id \in Nat
  BY <1>1, OneAtTheEnd DEF Numbered
<1>3. Ids(none) = <<>>
  <2>1. Ids(none) \in Seq(Nat) /\ Len(Ids(none)) = 0
    BY <1>2, IdsOfSeq
  <2> QED
    BY <2>1, EmptySeq
<1>4. Ids(one) = <<x.id>>
  <2>1. PICK i, j : i = Ids(one) /\ j = <<x.id>>
    OBVIOUS
  <2>2. /\ i \in Seq(Nat) /\ Len(i) = 1 /\ \A k \in 1..1 : i[k] = one[k].id
    BY <1>2, <2>1, IdsOfSeq
  <2>3. j \in Seq(Nat) /\ Len(j) = 1 /\ j[1] = x.id
    BY <1>2, <2>1
  <2>4. \A k \in 1..1 : i[k] = j[k]
    BY <1>2, <2>2, <2>3
  <2>5. i = j
    BY <2>2, <2>3, <2>4, SeqEqual
  <2> QED
    BY <2>1, <2>5
<1>5. PICK i : i = Ids(s) /\ i \in Seq(Nat)
  BY IdsOfSeq
<1>6. Ids(s \o one) = i \o Ids(one)
  BY <1>2, <1>5, IdsConcat
<1>7. Append(i, x.id) = i \o <<x.id>>
  BY <1>2, <1>5, OneAtTheEnd
<1> QED
  BY Zenon, <1>1, <1>2, <1>3, <1>4, <1>5, <1>6, <1>7

\* The ids of sequences in a row.
LEMMA IdsFlatten ==
  ASSUME NEW S, Numbered(S), NEW ss \in Seq(Seq(S))
  PROVE  Ids(FlattenSeq(ss)) = FlattenSeq(IdsOf(ss)) /\ IdsOf(ss) \in Seq(Seq(Nat))
<1> DEFINE P == {tt \in Seq(Seq(S)) : /\ Ids(FlattenSeq(tt)) = FlattenSeq(IdsOf(tt))
                                      /\ IdsOf(tt) \in Seq(Seq(Nat))}
<1>1. <<>> \in P
  <2>1. PICK none : none = <<>>
    OBVIOUS
  <2>2. /\ none \in Seq(Seq(S)) /\ none \in Seq(S) /\ none \in Seq(Seq(Nat)) /\ none \in Seq(Nat)
        /\ Len(none) = 0
    BY <2>1
  <2>3. FlattenSeq(none) = none
    BY <2>1, <2>2, FlattenFront
  <2>4. IdsOf(none) = none
    BY <2>1 DEF IdsOf
  <2>5. Ids(none) = none
    BY <2>1 DEF Ids
  <2> QED
    BY Zenon, <2>1, <2>2, <2>3, <2>4, <2>5
<1>2. ASSUME NEW tt \in Seq(Seq(S)), NEW t \in Seq(S), tt \in P PROVE Append(tt, t) \in P
  <2>1. PICK vv, f, i, j : /\ vv = Append(tt, t) /\ f = FlattenSeq(tt) /\ i = Ids(t)
                           /\ j = IdsOf(tt)
    OBVIOUS
  <2>2. PICK U, V : U = Seq(S) /\ V = Seq(Nat)
    OBVIOUS
  <2>3. PICK n \in Nat : /\ n = Len(tt) /\ DOMAIN tt = 1..n /\ vv \in Seq(U) /\ Len(vv) = n + 1
                         /\ vv[n + 1] = t /\ \A k \in 1..n : vv[k] = tt[k]
    <3>1. tt \in Seq(U) /\ t \in U
      BY <2>2
    <3>2. PICK n \in Nat : n = Len(tt) /\ DOMAIN tt = 1..n
      BY <3>1, SeqIsFunction
    <3>3. /\ vv \in Seq(U) /\ Len(vv) = n + 1 /\ vv[n + 1] = t
          /\ \A k \in 1..n : vv[k] = tt[k]
      BY <2>1, <3>1, <3>2, AppendParts
    <3> QED
      BY <3>2, <3>3
  <2>4. i \in V /\ j \in Seq(V)
    BY <1>2, <2>1, <2>2, IdsOfSeq
  <2>5. IdsOf(vv) = Append(j, i)
    <3>1. PICK w : w = Append(j, i)
      OBVIOUS
    <3>2. j = [k \in 1..n |-> Ids(tt[k])]
      BY Zenon, <2>1, <2>3 DEF IdsOf
    <3>3. Len(j) = n /\ \A k \in 1..n : j[k] = Ids(tt[k])
      BY <2>4, <3>2, SeqIsFunction
    <3>4. w \in Seq(V) /\ Len(w) = n + 1 /\ w[n + 1] = i /\ \A k \in 1..n : w[k] = j[k]
      BY <2>4, <3>1, <3>3, AppendParts
    <3>5. w = [k \in 1..n + 1 |-> w[k]]
      BY <3>4, SeqIsFunction
    <3>6. DOMAIN vv = 1..n + 1
      BY <2>3, SeqIsFunction
    <3>7. ASSUME NEW k \in 1..n + 1 PROVE w[k] = Ids(vv[k])
      <4>1. CASE k = n + 1
        BY <2>1, <2>3, <3>4, <4>1
      <4>2. CASE k # n + 1
        <5>1. k \in 1..n
          BY <4>2
        <5> QED
          BY <2>3, <3>3, <3>4, <5>1
      <4> QED
        BY <4>1, <4>2
    <3>8. IdsOf(vv) = [k \in 1..n + 1 |-> Ids(vv[k])]
      BY Zenon, <3>6 DEF IdsOf
    <3>9. w = [k \in 1..n + 1 |-> Ids(vv[k])]
      BY <3>5, <3>7
    <3> QED
      BY <3>1, <3>8, <3>9
  <2>6. f \in Seq(S) /\ FlattenSeq(vv) = f \o t
    BY <2>1, FlattenAppend
  <2>7. Ids(f \o t) = Ids(f) \o i
    BY <2>1, <2>6, IdsConcat
  <2>8. FlattenSeq(Append(j, i)) = FlattenSeq(j) \o i
    BY <2>2, <2>4, FlattenAppend
  <2>9. Ids(f) = FlattenSeq(j)
    BY <1>2, <2>1
  <2>10. Append(j, i) \in Seq(V) /\ vv \in Seq(Seq(S))
    BY <2>2, <2>3, <2>4, AppendProperties
  <2> QED
    BY Zenon, <2>1, <2>2, <2>5, <2>6, <2>7, <2>8, <2>9, <2>10
<1>3. ss \in P
  <2>1. \A tt \in Seq(Seq(S)), t \in Seq(S) : tt \in P => Append(tt, t) \in P
    BY <1>2
  <2> HIDE DEF P
  <2> QED
    BY <1>1, <2>1, SeqInduct
<1> QED
  BY <1>3

-----------------------------------------------------------------------------
(* Appending node after node.                                               *)

\* r is the list of parent, or a new one, with nodes behind it.
Grown(h, own, parent, nodes, r, owg) ==
  /\ Kept(h, own, r.heap, owg, parent, Members(nodes))
  /\ r.list \in 1..Len(r.heap) /\ owg[r.list] = r.list
  /\ IF parent # 0 THEN r.list = parent ELSE r.list \notin 1..Len(h)
  /\ Items(r.heap, r.list) = Items(h, parent) \o nodes

\* Nodes are appended one by one ...
LEMMA NodeAppended ==
  ASSUME NEW h, NEW own, HeapOK(h, own), NEW parent \in 0..Len(h),
         parent # 0 => own[parent] = parent, NEW child \in AstNodes
  PROVE  \E owg : Grown(h, own, parent, <<child>>, AstAppend(h, parent, child), owg)
<1>1. Joins(h, own, parent, child)
  BY DEF Joins
<1>2. PICK r : r = AstAppend(h, parent, child)
  OBVIOUS
<1>3. PICK owg : Joined(h, own, parent, child, r, owg)
  BY <1>1, <1>2, AstAppendKeeps
<1>4. Given(h, child) = <<child>> /\ child.kind # "LIST"
  BY GivenIsSeq
<1>5. Len(h) + 1 \notin 1..Len(h)
  <2>1. Len(h) \in Nat
    BY SeqIsFunction DEF HeapOK
  <2> QED
    BY <2>1
<1>6. Grown(h, own, parent, <<child>>, r, owg)
  BY <1>3, <1>4, <1>5 DEF Grown, Joined, Whole
<1> QED
  BY <1>2, <1>6

\* ... or as the list that was made of them.
LEMMA ListAppended ==
  ASSUME NEW h, NEW own, HeapOK(h, own), NEW parent \in 0..Len(h),
         parent # 0 => own[parent] = parent, NEW nodes \in Seq(AstNodes), Len(nodes) >= 1
  PROVE  LET list == ListOf(h, nodes)
         IN  \E owg : Grown(h, own, parent, nodes,
                            AstAppend(list.heap, parent, List(list.list)), owg)
<1>1. PICK f : f = ListOf(h, nodes)
  OBVIOUS
<1>2. PICK owf : Listed(h, own, nodes, f, owf)
  BY <1>1, ListOfKeeps
<1>3. /\ Kept(h, own, f.heap, owf, 0, Members(nodes))
      /\ f.list = Len(h) + 1
      /\ f.list \in 1..Len(f.heap) /\ owf[f.list] = f.list
      /\ Items(f.heap, f.list) = nodes
  BY <1>2 DEF Listed
<1>4. HeapOK(f.heap, owf) /\ Len(h) \in Nat /\ Len(f.heap) \in Nat /\ Len(h) <= Len(f.heap)
  BY <1>3, SeqIsFunction DEF Kept, HeapOK
<1>5. PICK child : child = List(f.list)
  OBVIOUS
<1>6. parent \in 0..Len(f.heap) /\ (parent # 0 => owf[parent] = parent)
  <2>1. parent # 0 => parent \in 1..Len(h)
    OBVIOUS
  <2>2. parent # 0 => owf[parent] = own[parent]
    BY <1>3, <2>1 DEF Kept
  <2> QED
    BY <1>4, <2>2
<1>7. Joins(f.heap, owf, parent, child)
  BY <1>3, <1>5, <1>6 DEF Joins
<1>8. PICK r : r = AstAppend(f.heap, parent, child)
  OBVIOUS
<1>9. PICK owg : Joined(f.heap, owf, parent, child, r, owg)
  BY <1>4, <1>7, <1>8, AstAppendKeeps
<1>10. /\ child.kind = "LIST" /\ child.value = f.list
       /\ Given(f.heap, child) = nodes
  BY <1>3, <1>4, <1>5, GivenIsSeq
<1>11. r.list = IF parent # 0 THEN parent ELSE f.list
  BY <1>9, <1>10 DEF Joined, Whole
<1>12. Items(r.heap, r.list) = Items(h, parent) \o nodes
  <2>1. Items(r.heap, r.list) = Items(f.heap, parent) \o nodes
    BY <1>9, <1>10 DEF Joined
  <2>2. Items(f.heap, parent) = Items(h, parent)
    <3>1. CASE parent = 0
      BY <1>4, <3>1, ItemsOfList
    <3>2. CASE parent # 0
      <4>1. parent \in 1..Len(h)
        BY <3>2
      <4> QED
        BY <1>3, <3>2, <4>1 DEF Kept
    <3> QED
      BY <3>1, <3>2
  <2> QED
    BY <2>1, <2>2
<1>13. Kept(f.heap, owf, r.heap, owg, parent, Members(nodes))
  BY <1>9, <1>10 DEF Joined
<1>14. Kept(h, own, r.heap, owg, parent, Members(nodes))
  <2>1. (0 \in 1..Len(h) => 0 = parent) /\ (parent \in 1..Len(h) => parent = parent)
    OBVIOUS
  <2>2. Members(nodes) \subseteq Members(nodes)
    OBVIOUS
  <2> QED
    BY <1>3, <1>13, <2>1, <2>2, KeptTwice
<1>15. f.list \notin 1..Len(h)
  BY <1>3, <1>4
<1>16. r.list \in 1..Len(r.heap) /\ owg[r.list] = r.list
  BY <1>9 DEF Joined
<1>17. Grown(h, own, parent, nodes, r, owg)
  BY <1>11, <1>12, <1>14, <1>15, <1>16 DEF Grown
<1> QED
  BY <1>1, <1>5, <1>8, <1>17

-----------------------------------------------------------------------------
\* What a list says, and a node of the file.
Names == [kind : StatementKinds \cup DeclarationKinds, id : Nat]
NamesOf(s) == [j \in DOMAIN s |-> [kind |-> s[j].kind, id |-> s[j].id]]
Said(h, list) == NamesOf(Items(h, list))
Entry(h, x) == [kind |-> x.kind, id |-> x.id, body |-> Said(h, x.value)]
Body(h, bs) == FlattenSeq([b \in DOMAIN bs |-> Said(h, bs[b])])

\* The names of nodes are as many as the nodes ...
LEMMA NamesOfSeq ==
  ASSUME NEW s \in Seq(AstNodes)
  PROVE  /\ NamesOf(s) \in Seq(Names) /\ Len(NamesOf(s)) = Len(s)
         /\ \A j \in 1..Len(s) : NamesOf(s)[j] = [kind |-> s[j].kind, id |-> s[j].id]
<1>1. PICK n \in Nat : n = Len(s) /\ DOMAIN s = 1..n /\ \A j \in 1..n : s[j] \in AstNodes
  BY SeqIsFunction
<1>2. PICK t : t = NamesOf(s) /\ t = [j \in 1..n |-> [kind |-> s[j].kind, id |-> s[j].id]]
  BY <1>1 DEF NamesOf
<1>3. \A j \in 1..n : t[j] = [kind |-> s[j].kind, id |-> s[j].id] /\ t[j] \in Names
  <2>1. \A j \in 1..n : s[j].kind \in StatementKinds \cup DeclarationKinds /\ s[j].id \in Nat
    BY <1>1 DEF AstNodes
  <2> QED
    BY <1>2, <2>1 DEF Names
<1>4. t = [j \in 1..n |-> t[j]]
  BY <1>2
<1>5. t \in Seq(Names) /\ Len(t) = n
  BY <1>3, <1>4, FunctionIsSeq
<1> QED
  BY <1>1, <1>2, <1>3, <1>5

\* ... and those of two sequences are those of the one behind those of the other.
LEMMA NamesOfConcat ==
  ASSUME NEW s \in Seq(AstNodes), NEW t \in Seq(AstNodes)
  PROVE  NamesOf(s \o t) = NamesOf(s) \o NamesOf(t)
<1>1. PICK m \in Nat, n \in Nat : m = Len(s) /\ n = Len(t)
  BY SeqIsFunction
<1>2. PICK c, a, b, d, e : /\ c = s \o t /\ a = NamesOf(s) /\ b = NamesOf(t) /\ d = NamesOf(c)
                           /\ e = a \o b
  OBVIOUS
<1>3. /\ c \in Seq(AstNodes) /\ Len(c) = m + n
      /\ (\A k \in 1..m : c[k] = s[k]) /\ \A k \in 1..n : c[m + k] = t[k]
  BY <1>1, <1>2, ConcatParts
<1>4. /\ d \in Seq(Names) /\ Len(d) = m + n
      /\ \A k \in 1..m + n : d[k] = [kind |-> c[k].kind, id |-> c[k].id]
  BY <1>2, <1>3, NamesOfSeq
<1>5. /\ a \in Seq(Names) /\ Len(a) = m
      /\ \A k \in 1..m : a[k] = [kind |-> s[k].kind, id |-> s[k].id]
      /\ b \in Seq(Names) /\ Len(b) = n
      /\ \A k \in 1..n : b[k] = [kind |-> t[k].kind, id |-> t[k].id]
  BY <1>1, <1>2, NamesOfSeq
<1>6. /\ e \in Seq(Names) /\ Len(e) = m + n
      /\ (\A k \in 1..m : e[k] = a[k]) /\ \A k \in 1..n : e[m + k] = b[k]
  <2>1. a \in Seq(Names) /\ b \in Seq(Names) /\ e = a \o b
    BY <1>2, <1>5
  <2>2. /\ e \in Seq(Names) /\ Len(e) = Len(a) + Len(b)
        /\ \A k \in 1..Len(a) : e[k] = a[k]
        /\ \A k \in 1..Len(b) : e[Len(a) + k] = b[k]
    BY <2>1, ConcatParts
  <2> QED
    BY <1>5, <2>2
<1>7. ASSUME NEW k \in 1..m + n PROVE d[k] = e[k]
  <2>1. d[k] = [kind |-> c[k].kind, id |-> c[k].id]
    BY <1>4
  <2>2. CASE k \in 1..m
    <3>1. c[k] = s[k] /\ e[k] = [kind |-> s[k].kind, id |-> s[k].id]
      BY <1>3, <1>5, <1>6, <2>2
    <3> QED
      BY <2>1, <3>1
  <2>3. ASSUME NEW j \in 1..n, k = m + j PROVE d[k] = e[k]
    <3>1. c[k] = t[j] /\ e[k] = [kind |-> t[j].kind, id |-> t[j].id]
      BY <1>3, <1>5, <1>6, <2>3
    <3> QED
      BY <2>1, <3>1
  <2> QED
    BY <2>2, <2>3, TwoParts
<1>8. d = e
  BY <1>4, <1>6, <1>7, SeqEqual
<1> QED
  BY <1>2, <1>8

\* Every list has items and says their names.
LEMMA SaidIsSeq ==
  ASSUME NEW h, NEW own, HeapOK(h, own)
  PROVE  \A i \in 0..Len(h) : Items(h, i) \in Seq(AstNodes) /\ Said(h, i) \in Seq(Names)
<1>1. ASSUME NEW i \in 0..Len(h) PROVE Items(h, i) \in Seq(AstNodes)
  <2>1. CASE i = 0
    <3>1. Items(h, 0) = <<>> /\ <<>> \in Seq(AstNodes)
      BY ItemsOfList
    <3> QED
      BY <2>1, <3>1
  <2>2. CASE i # 0
    <3>1. i \in 1..Len(h)
      BY <2>2
    <3> QED
      BY <3>1, ItemsOfList
  <2> QED
    BY <2>1, <2>2
<1> QED
  BY <1>1, NamesOfSeq DEF Said

\* A change of another list does not show in one.
LEMMA SaidKept ==
  ASSUME NEW h, NEW own, HeapOK(h, own), NEW g, NEW owg, NEW p, NEW N, Kept(h, own, g, owg, p, N),
         NEW i \in 0..Len(h), i # 0 => own[i] = i /\ i # p
  PROVE  Items(g, i) = Items(h, i) /\ Said(g, i) = Said(h, i)
<1>1. CASE i = 0
  BY <1>1, ItemsOfList DEF Kept, Said
<1>2. CASE i # 0
  <2>1. i \in 1..Len(h)
    BY <1>2
  <2> QED
    BY <1>2, <2>1 DEF Kept, Said
<1> QED
  BY <1>1, <1>2

\* The body read so far, when a block is opened in it.
LEMMA BodyAppend ==
  ASSUME NEW h, NEW own, HeapOK(h, own), NEW bs \in Seq(0..Len(h)), NEW l \in 0..Len(h)
  PROVE  /\ Body(h, bs) \in Seq(Names)
         /\ Body(h, Append(bs, l)) = Body(h, bs) \o Said(h, l)
         /\ Body(h, <<l>>) = Said(h, l)
         /\ Append(bs, l) \in Seq(0..Len(h))
<1>1. PICK n \in Nat : n = Len(bs) /\ DOMAIN bs = 1..n /\ \A b \in 1..n : bs[b] \in 0..Len(h)
  BY SeqIsFunction
<1>2. PICK ss : ss = [b \in DOMAIN bs |-> Said(h, bs[b])]
  OBVIOUS
<1>3. Body(h, bs) = FlattenSeq(ss)
  BY <1>2 DEF Body
<1>4. ss \in Seq(Seq(Names)) /\ Len(ss) = n
  <2>1. ss = [b \in 1..n |-> ss[b]] /\ \A b \in 1..n : ss[b] = Said(h, bs[b])
    BY <1>1, <1>2
  <2>2. \A b \in 1..n : ss[b] \in Seq(Names)
    BY <1>1, <2>1, SaidIsSeq
  <2> QED
    BY <2>1, <2>2, FunctionIsSeq
<1>5. PICK cs : cs = Append(bs, l)
  OBVIOUS
<1>6. /\ cs \in Seq(0..Len(h)) /\ Len(cs) = n + 1 /\ cs[n + 1] = l
      /\ \A b \in 1..n : cs[b] = bs[b]
  BY <1>1, <1>5, AppendProperties
<1>7. PICK s : s = Said(h, l)
  OBVIOUS
<1>8. s \in Seq(Names)
  BY <1>7, SaidIsSeq
<1>9. [b \in DOMAIN cs |-> Said(h, cs[b])] = Append(ss, s)
  <2>1. PICK u, v : u = [b \in DOMAIN cs |-> Said(h, cs[b])] /\ v = Append(ss, s)
    OBVIOUS
  <2>2. DOMAIN cs = 1..n + 1
    BY <1>6, SeqIsFunction
  <2>3. u = [b \in 1..n + 1 |-> Said(h, cs[b])]
    BY <2>1, <2>2
  <2>4. /\ v \in Seq(Seq(Names)) /\ Len(v) = n + 1 /\ v[n + 1] = s
        /\ \A b \in 1..n : v[b] = ss[b]
    BY <1>4, <1>8, <2>1, AppendProperties
  <2>5. ASSUME NEW b \in 1..n + 1 PROVE Said(h, cs[b]) = v[b]
    <3>1. CASE b = n + 1
      BY <1>6, <1>7, <2>4, <3>1
    <3>2. CASE b # n + 1
      <4>1. b \in 1..n
        BY <3>2
      <4>2. ss[b] = Said(h, bs[b])
        BY <1>1, <1>2, <4>1
      <4> QED
        BY <1>6, <2>4, <4>1, <4>2
    <3> QED
      BY <3>1, <3>2
  <2>6. v = [b \in 1..n + 1 |-> v[b]]
    BY <2>4, SeqIsFunction
  <2>7. u = v
    BY <2>3, <2>5, <2>6
  <2> QED
    BY <2>1, <2>7
<1>10. Body(h, cs) = FlattenSeq(Append(ss, s))
  BY <1>9 DEF Body
<1>11. /\ FlattenSeq(ss) \in Seq(Names)
       /\ FlattenSeq(Append(ss, s)) = FlattenSeq(ss) \o s
       /\ FlattenSeq(<<s>>) = s
  BY <1>4, <1>8, FlattenAppend
<1>12. Body(h, <<l>>) = s
  <2>1. PICK one : one = <<l>>
    OBVIOUS
  <2>2. DOMAIN one = 1..1 /\ one[1] = l
    BY <2>1
  <2>3. [b \in DOMAIN one |-> Said(h, one[b])] = [b \in 1..1 |-> s]
    BY <1>7, <2>2
  <2>4. <<s>> = [b \in 1..1 |-> s]
    OBVIOUS
  <2>5. Body(h, one) = FlattenSeq(<<s>>)
    BY <2>3, <2>4 DEF Body
  <2> QED
    BY <1>11, <2>1, <2>5
<1> QED
  BY <1>3, <1>5, <1>6, <1>7, <1>10, <1>11, <1>12

\* The body depends on nothing but what each open block says.
LEMMA BodyKept ==
  ASSUME NEW h, NEW g, NEW bs, \A b \in DOMAIN bs : Said(g, bs[b]) = Said(h, bs[b])
  PROVE  Body(g, bs) = Body(h, bs)
<1>1. [b \in DOMAIN bs |-> Said(g, bs[b])] = [b \in DOMAIN bs |-> Said(h, bs[b])]
  OBVIOUS
<1> QED
  BY <1>1 DEF Body

-----------------------------------------------------------------------------
\* The list a function's node has is nobody else's.
ValueOK(own, h, u, bs, v) ==
  v # 0 => /\ v \in 1..Len(h) /\ own[v] = v /\ v # u
           /\ \A b \in 1..Len(bs) : bs[b] # v

\* The file and the open blocks have lists of their own.
Rooted(own, h, u, bs) ==
  /\ HeapOK(h, own)
  /\ u \in 0..Len(h) /\ (u # 0 => own[u] = u)
  /\ bs \in Seq(0..Len(h))
  /\ \A b \in 1..Len(bs) : bs[b] # 0 => /\ own[bs[b]] = bs[b] /\ bs[b] # u
                                        /\ \A c \in 1..Len(bs) : bs[c] = bs[b] => c = b
  /\ \A i \in 1..Len(h) : ValueOK(own, h, u, bs, h[i].node.value)

\* The text is what the file and the open blocks hold.
TextIs(h, u, bs, txt) ==
  \E m \in Nat :
    /\ Len(txt) = m + (IF bs = <<>> THEN 0 ELSE 1)
    /\ Len(Items(h, u)) = m
    /\ \A k \in 1..m : txt[k] = Entry(h, Items(h, u)[k])
    /\ bs # <<>> => txt[m + 1].kind = "function" /\ txt[m + 1].body = Body(h, bs)

\* Every item of a list is the node of some list node, so its value is as it should be.
LEMMA ItemValue ==
  ASSUME NEW own, NEW h, NEW u, NEW bs, Rooted(own, h, u, bs), NEW l \in 0..Len(h),
         NEW k \in 1..Len(Items(h, l))
  PROVE  /\ \E i \in 1..Len(h) : Items(h, l)[k] = h[i].node
         /\ ValueOK(own, h, u, bs, Items(h, l)[k].value)
<1>1. HeapOK(h, own)
  BY DEF Rooted
<1>2. l # 0
  <2>1. Items(h, 0) = <<>> /\ Len(<<>>) = 0
    BY <1>1, ItemsOfList
  <2> QED
    BY <2>1
<1>3. l \in 1..Len(h)
  BY <1>2
<1>4. /\ Len(Items(h, l)) = Len(Chain(h, l))
      /\ \A j \in 1..Len(Chain(h, l)) : Chain(h, l)[j] \in 1..Len(h)
      /\ \A j \in 1..Len(Chain(h, l)) : Items(h, l)[j] = h[Chain(h, l)[j]].node
  BY <1>1, <1>3, ItemsOfList
<1>5. PICK i \in 1..Len(h) : Items(h, l)[k] = h[i].node
  BY <1>4
<1>6. ValueOK(own, h, u, bs, h[i].node.value)
  BY DEF Rooted
<1> QED
  BY <1>5, <1>6

\* The value of a node is no other list, so that its entry is what it was.
LEMMA EntryKept ==
  ASSUME NEW own, NEW h, HeapOK(h, own), NEW g, NEW owg, NEW p, NEW N, Kept(h, own, g, owg, p, N),
         NEW x, x.value # 0 => x.value \in 1..Len(h) /\ own[x.value] = x.value /\ x.value # p,
         x.value \in Nat
  PROVE  Entry(g, x) = Entry(h, x)
<1>1. PICK v : v = x.value
  OBVIOUS
<1>2. v \in 0..Len(h) /\ (v # 0 => own[v] = v /\ v # p)
  <2>1. Len(h) \in Nat
    BY SeqIsFunction DEF HeapOK
  <2> QED
    BY <1>1, <2>1
<1>3. Said(g, v) = Said(h, v)
  BY <1>2, SaidKept
<1> QED
  BY <1>1, <1>3 DEF Entry

-----------------------------------------------------------------------------
\* top_list with nodes appended.
LEMMA ExternalRooted ==
  ASSUME NEW own, NEW h, NEW u, NEW bs, Rooted(own, h, u, bs), NEW nodes \in Seq(AstNodes),
         NEW r, NEW owg, Grown(h, own, u, nodes, r, owg),
         \A k \in 1..Len(nodes) : ValueOK(own, h, u, <<>>, nodes[k].value)
  PROVE  Rooted(owg, r.heap, r.list, <<>>)
<1>1. PICK g, w : g = r.heap /\ w = r.list
  OBVIOUS
<1>2. PICK n \in Nat, ng \in Nat : g = r.heap /\ w = r.list /\ n = Len(h) /\ ng = Len(g)
  <2>1. Len(h) \in Nat
    BY SeqIsFunction DEF Rooted, HeapOK
  <2>2. Len(r.heap) \in Nat
    BY SeqIsFunction DEF Grown, Kept, HeapOK
  <2> QED
    BY <1>1, <2>1, <2>2
<1>3. /\ Kept(h, own, g, owg, u, Members(nodes))
      /\ w \in 1..ng /\ owg[w] = w
      /\ IF u # 0 THEN w = u ELSE w \notin 1..n
  BY <1>2 DEF Grown
<1>4. HeapOK(g, owg) /\ n <= ng /\ \A i \in 1..n : owg[i] = own[i] /\ g[i].node = h[i].node
  BY <1>2, <1>3 DEF Kept
<1>5. ASSUME NEW v, ValueOK(own, h, u, <<>>, v) PROVE ValueOK(owg, g, w, <<>>, v)
  <2>1. SUFFICES ASSUME v # 0 PROVE v \in 1..ng /\ owg[v] = v /\ v # w
    BY <1>2 DEF ValueOK
  <2>2. v \in 1..n /\ own[v] = v /\ v # u
    BY <1>2, <1>5, <2>1 DEF ValueOK
  <2> QED
    BY <1>2, <1>3, <1>4, <2>2
<1>6. ASSUME NEW i \in 1..ng PROVE ValueOK(owg, g, w, <<>>, g[i].node.value)
  <2>1. CASE i \in 1..n
    <3>1. ValueOK(own, h, u, bs, h[i].node.value)
      BY <1>2, <2>1 DEF Rooted
    <3>2. ValueOK(own, h, u, <<>>, h[i].node.value)
      BY <3>1 DEF ValueOK
    <3> QED
      BY <1>4, <1>5, <2>1, <3>2
  <2>2. CASE i \notin 1..n
    <3>1. i \in n + 1..ng
      BY <1>2, <2>2
    <3>2. g[i].node \in Members(nodes)
      BY <1>2, <1>3, <3>1 DEF Kept
    <3>3. PICK k \in 1..Len(nodes) : g[i].node = nodes[k]
      BY <3>2 DEF Members
    <3> QED
      BY <1>5, <3>3
  <2> QED
    BY <2>1, <2>2
<1>7. <<>> \in Seq(0..ng) /\ Len(<<>>) = 0 /\ w \in 0..ng
  BY <1>2, <1>3
<1> QED
  BY <1>2, <1>3, <1>4, <1>6, <1>7 DEF Rooted

\* new is the text of the file with what the nodes are.
Continues(h, u, nodes, new) ==
  LET m == Len(Items(h, u))
  IN  /\ m \in Nat /\ Len(new) = m + Len(nodes)
      /\ \A k \in 1..m : new[k] = Entry(h, Items(h, u)[k])
      /\ \A k \in 1..Len(nodes) : new[m + k] = Entry(h, nodes[k])

\* When declarations or a function are appended to the file, the file says them too.
LEMMA ExternalText ==
  ASSUME NEW own, NEW h, NEW u, NEW bs, Rooted(own, h, u, bs), NEW nodes \in Seq(AstNodes),
         NEW r, NEW owg, Grown(h, own, u, nodes, r, owg),
         \A k \in 1..Len(nodes) : ValueOK(own, h, u, <<>>, nodes[k].value),
         NEW new, Continues(h, u, nodes, new)
  PROVE  TextIs(r.heap, r.list, <<>>, new)
<1>1. PICK m \in Nat : /\ m = Len(Items(h, u)) /\ Len(new) = m + Len(nodes)
                       /\ \A k \in 1..m : new[k] = Entry(h, Items(h, u)[k])
                       /\ \A k \in 1..Len(nodes) : new[m + k] = Entry(h, nodes[k])
  BY DEF Continues
<1>2. PICK g, w, s : g = r.heap /\ w = r.list /\ s = Items(h, u)
  OBVIOUS
<1>3. PICK n \in Nat : g = r.heap /\ w = r.list /\ n = Len(nodes) /\ s = Items(h, u)
  BY <1>2, SeqIsFunction
<1>4. Kept(h, own, g, owg, u, Members(nodes)) /\ Items(g, w) = s \o nodes
  BY <1>3 DEF Grown
<1>5. HeapOK(h, own) /\ u \in 0..Len(h)
  BY DEF Rooted
<1>6. s \in Seq(AstNodes) /\ m = Len(s)
  BY <1>1, <1>3, <1>5, SaidIsSeq
<1>7. PICK c : c = Items(g, w)
  OBVIOUS
<1>8. /\ c \in Seq(AstNodes) /\ Len(c) = m + n
      /\ (\A k \in 1..m : c[k] = s[k]) /\ \A k \in 1..n : c[m + k] = nodes[k]
  <2>1. c = s \o nodes
    BY <1>4, <1>7
  <2>2. /\ c \in Seq(AstNodes) /\ Len(c) = Len(s) + Len(nodes)
        /\ \A k \in 1..Len(s) : c[k] = s[k]
        /\ \A k \in 1..Len(nodes) : c[Len(s) + k] = nodes[k]
    BY <1>6, <2>1, ConcatParts
  <2> QED
    BY <1>3, <1>6, <2>2
<1>9. ASSUME NEW x \in AstNodes, ValueOK(own, h, u, <<>>, x.value)
      PROVE  Entry(g, x) = Entry(h, x)
  <2>1. x.value \in Nat
    BY DEF AstNodes
  <2>2. x.value # 0 => x.value \in 1..Len(h) /\ own[x.value] = x.value /\ x.value # u
    BY <1>9 DEF ValueOK
  <2> QED
    BY <1>4, <1>5, <2>1, <2>2, EntryKept
<1>10. ASSUME NEW k \in 1..m + n PROVE new[k] = Entry(g, c[k])
  <2>1. CASE k \in 1..m
    <3>1. ValueOK(own, h, u, bs, s[k].value) /\ s[k] \in AstNodes
      <4>1. k \in 1..Len(Items(h, u))
        BY <1>1, <2>1
      <4> QED
        BY <1>3, <1>5, <1>6, <2>1, <4>1, ItemValue, SeqIsFunction
    <3>2. ValueOK(own, h, u, <<>>, s[k].value)
      BY <3>1 DEF ValueOK
    <3>3. Entry(g, s[k]) = Entry(h, s[k])
      BY <1>9, <3>1, <3>2
    <3> QED
      BY <1>1, <1>3, <1>8, <2>1, <3>3
  <2>2. ASSUME NEW j \in 1..n, k = m + j PROVE new[k] = Entry(g, c[k])
    <3>1. nodes[j] \in AstNodes /\ ValueOK(own, h, u, <<>>, nodes[j].value)
      BY <1>3, SeqIsFunction
    <3>2. Entry(g, nodes[j]) = Entry(h, nodes[j])
      BY <1>9, <3>1
    <3> QED
      BY <1>1, <1>3, <1>8, <2>2, <3>2
  <2>3. k \in 1..m \/ \E j \in 1..n : k = m + j
    BY TwoParts
  <2> QED
    BY <2>1, <2>2, <2>3
<1>11. m + n \in Nat /\ Len(new) = m + n + (IF <<>> = <<>> THEN 0 ELSE 1)
  BY <1>1, <1>3
<1> QED
  BY <1>3, <1>7, <1>8, <1>10, <1>11 DEF TextIs

-----------------------------------------------------------------------------
\* One block fewer.
Fewer(bs, cs, f) ==
  /\ f \in [1..Len(cs) -> 1..Len(bs)]
  /\ \A b \in 1..Len(cs) : cs[b] = bs[f[b]]
  /\ \A b, c \in 1..Len(cs) : f[b] = f[c] => b = c

\* With fewer open blocks the lists are still well rooted.
LEMMA BlockDropped ==
  ASSUME NEW own, NEW h, NEW u, NEW bs, Rooted(own, h, u, bs), NEW cs \in Seq(0..Len(h)),
         NEW f, Fewer(bs, cs, f)
  PROVE  Rooted(own, h, u, cs)
<1>1. /\ f \in [1..Len(cs) -> 1..Len(bs)]
      /\ \A b \in 1..Len(cs) : cs[b] = bs[f[b]]
      /\ \A b, c \in 1..Len(cs) : f[b] = f[c] => b = c
  BY DEF Fewer
<1>2. PICK k \in Nat, m \in Nat : k = Len(cs) /\ m = Len(bs)
  BY SeqIsFunction DEF Rooted
<1>3. ASSUME NEW b \in 1..k, cs[b] # 0
      PROVE  /\ own[cs[b]] = cs[b] /\ cs[b] # u
             /\ \A c \in 1..k : cs[c] = cs[b] => c = b
  <2>1. PICK e \in 1..m : e = f[b] /\ bs[e] = cs[b]
    BY <1>2, <1>1
  <2>2. /\ own[bs[e]] = bs[e] /\ bs[e] # u
        /\ \A c \in 1..m : bs[c] = bs[e] => c = e
    BY <1>2, <1>3, <2>1 DEF Rooted
  <2>3. ASSUME NEW c \in 1..k, cs[c] = cs[b] PROVE c = b
    <3>1. f[c] \in 1..m /\ bs[f[c]] = bs[e]
      BY <1>2, <1>1, <2>1, <2>3
    <3>2. f[c] = f[b]
      BY <2>1, <2>2, <3>1
    <3> QED
      BY <1>2, <1>1, <3>2
  <2> QED
    BY <2>1, <2>2, <2>3
<1>4. ASSUME NEW v, ValueOK(own, h, u, bs, v) PROVE ValueOK(own, h, u, cs, v)
  BY <1>2, <1>1, <1>4 DEF ValueOK
<1>5. \A i \in 1..Len(h) : ValueOK(own, h, u, cs, h[i].node.value)
  BY <1>4 DEF Rooted
<1>6. HeapOK(h, own) /\ u \in 0..Len(h) /\ (u # 0 => own[u] = u)
  BY DEF Rooted
<1> QED
  BY <1>2, <1>3, <1>5, <1>6 DEF Rooted

\* l is the list of the innermost block.
Innermost(h, bs, outer, l) == outer \in Seq(0..Len(h)) /\ l \in 0..Len(h) /\ bs = Append(outer, l)

\* Nodes are added to it.
LEMMA ItemRooted ==
  ASSUME NEW own, NEW h, NEW u, NEW bs, Rooted(own, h, u, bs),
         NEW outer, NEW l, Innermost(h, bs, outer, l),
         NEW nodes \in Seq(AstNodes), NEW r, NEW owg, Grown(h, own, l, nodes, r, owg),
         \A k \in 1..Len(nodes) : ValueOK(own, h, u, bs, nodes[k].value)
  PROVE  Rooted(owg, r.heap, u, Append(outer, r.list))
<1>1. outer \in Seq(0..Len(h)) /\ l \in 0..Len(h) /\ bs = Append(outer, l)
  BY DEF Innermost
<1>2. PICK g, w : g = r.heap /\ w = r.list
  OBVIOUS
<1>3. PICK n \in Nat, ng \in Nat : g = r.heap /\ w = r.list /\ n = Len(h) /\ ng = Len(g)
  <2>1. Len(h) \in Nat
    BY SeqIsFunction DEF Rooted, HeapOK
  <2>2. Len(r.heap) \in Nat
    BY SeqIsFunction DEF Grown, Kept, HeapOK
  <2> QED
    BY <1>2, <2>1, <2>2
<1>4. /\ Kept(h, own, g, owg, l, Members(nodes))
      /\ w \in 1..ng /\ owg[w] = w
      /\ IF l # 0 THEN w = l ELSE w \notin 1..n
  BY <1>3 DEF Grown
<1>5. HeapOK(g, owg) /\ n <= ng /\ \A i \in 1..n : owg[i] = own[i] /\ g[i].node = h[i].node
  BY <1>3, <1>4 DEF Kept
<1>6. PICK k \in Nat : k = Len(outer)
  BY <1>1, SeqIsFunction
<1>7. /\ bs \in Seq(0..n) /\ Len(bs) = k + 1 /\ bs[k + 1] = l
      /\ \A b \in 1..k : bs[b] = outer[b] /\ outer[b] \in 0..n
  BY <1>3, <1>6, <1>1, AppendParts
<1>8. PICK bsg : bsg = Append(outer, w)
  OBVIOUS
<1>9. /\ bsg \in Seq(0..ng) /\ Len(bsg) = k + 1 /\ bsg[k + 1] = w
      /\ \A b \in 1..k : bsg[b] = bs[b] /\ bs[b] \in 0..n
  <2>1. 0..n \subseteq 0..ng
    BY <1>5
  <2>2. outer \in Seq(0..ng)
    <3>1. outer = [b \in 1..k |-> outer[b]]
      BY <1>6, <1>1, SeqIsFunction
    <3>2. \A b \in 1..k : outer[b] \in 0..ng
      BY <1>7, <2>1
    <3> QED
      BY <3>1, <3>2, FunctionIsSeq
  <2>3. w \in 0..ng
    BY <1>4
  <2> QED
    BY <1>6, <1>7, <1>8, <2>2, <2>3, AppendParts
<1>10. bsg[k + 1] = w /\ bs[k + 1] = l /\ \A b \in 1..k : bsg[b] = bs[b] /\ bs[b] \in 0..n
  BY <1>7, <1>9
<1>11. \A b \in 1..k + 1 : b = k + 1 \/ b \in 1..k
  OBVIOUS
<1>12. ASSUME NEW v, ValueOK(own, h, u, bs, v) PROVE ValueOK(owg, g, u, bsg, v)
  <2>1. SUFFICES ASSUME v # 0
                 PROVE  v \in 1..ng /\ owg[v] = v /\ v # u /\ \A b \in 1..k + 1 : bsg[b] # v
    BY <1>3, <1>9 DEF ValueOK
  <2>2. v \in 1..n /\ own[v] = v /\ v # u /\ \A b \in 1..k + 1 : bs[b] # v
    BY <1>3, <1>7, <1>12, <2>1 DEF ValueOK
  <2>3. ASSUME NEW b \in 1..k + 1 PROVE bsg[b] # v
    <3>1. CASE b = k + 1
      <4>1. l # v
        BY <1>7, <2>2
      <4> QED
        BY <1>4, <1>9, <2>2, <3>1, <4>1
    <3>2. CASE b # k + 1
      BY <1>10, <1>11, <2>2, <3>2
    <3> QED
      BY <3>1, <3>2
  <2> QED
    BY <1>3, <1>4, <1>5, <2>2, <2>3
<1>13. ASSUME NEW i \in 1..ng PROVE ValueOK(owg, g, u, bsg, g[i].node.value)
  <2>1. CASE i \in 1..n
    <3>1. ValueOK(own, h, u, bs, h[i].node.value)
      BY <1>3, <2>1 DEF Rooted
    <3> QED
      BY <1>5, <1>12, <2>1, <3>1
  <2>2. CASE i \notin 1..n
    <3>1. i \in n + 1..ng
      BY <1>3, <2>2
    <3>2. g[i].node \in Members(nodes)
      BY <1>3, <1>4, <3>1 DEF Kept
    <3>3. PICK j \in 1..Len(nodes) : g[i].node = nodes[j]
      BY <3>2 DEF Members
    <3> QED
      BY <1>12, <3>3
  <2> QED
    BY <2>1, <2>2
<1>14. u \in 0..n /\ (u # 0 => own[u] = u) /\ (l # 0 => l # u)
  <2>1. l # 0 => bs[k + 1] # u
    BY <1>7 DEF Rooted
  <2> QED
    BY <1>3, <1>7, <2>1 DEF Rooted
<1>15. u \in 0..ng /\ (u # 0 => owg[u] = u) /\ w # u
  <2>1. u # 0 => u \in 1..n
    BY <1>14
  <2> QED
    BY <1>4, <1>5, <1>14, <2>1
<1>16. ASSUME NEW b \in 1..k + 1, bsg[b] # 0
       PROVE  /\ owg[bsg[b]] = bsg[b] /\ bsg[b] # u
              /\ \A c \in 1..k + 1 : bsg[c] = bsg[b] => c = b
  <2>1. ASSUME NEW c \in 1..k, bs[c] # 0
        PROVE  /\ bs[c] \in 1..n /\ own[bs[c]] = bs[c] /\ bs[c] # u /\ bs[c] # l
               /\ \A d \in 1..k : bs[d] = bs[c] => d = c
    <3>1. c \in 1..k + 1 /\ k + 1 \in 1..k + 1 /\ c # k + 1
      OBVIOUS
    <3>2. /\ own[bs[c]] = bs[c] /\ bs[c] # u
          /\ \A d \in 1..k + 1 : bs[d] = bs[c] => d = c
      BY <1>7, <2>1, <3>1 DEF Rooted
    <3>3. bs[c] # l
      <4>1. bs[k + 1] = bs[c] => k + 1 = c
        BY <3>1, <3>2
      <4> QED
        BY <1>10, <3>1, <4>1
    <3>4. \A d \in 1..k : d \in 1..k + 1
      OBVIOUS
    <3>5. bs[c] \in 1..n
      <4>1. PICK x : x = bs[c]
        OBVIOUS
      <4>2. x \in 0..n /\ x # 0
        BY Zenon, <1>10, <2>1, <4>1
      <4>3. x \in 1..n
        BY <4>2
      <4> QED
        BY <4>1, <4>3
    <3>6. \A d \in 1..k : bs[d] = bs[c] => d = c
      BY Zenon, <3>2, <3>4
    <3> QED
      BY <3>2, <3>3, <3>5, <3>6
  <2>2. ASSUME NEW c \in 1..k, bs[c] # 0 PROVE bs[c] # w
    BY <1>4, <2>1, <2>2
  <2>3. w # 0
    BY <1>4
  <2>4. CASE b = k + 1
    <3>1. \A c \in 1..k : bsg[c] # w
      BY <1>10, <2>2, <2>3
    <3> QED
      BY <1>4, <1>10, <1>11, <1>15, <2>4, <3>1
  <2>5. CASE b # k + 1
    <3>1. b \in 1..k /\ bsg[b] = bs[b]
      BY <1>10, <1>11, <2>5
    <3>2. owg[bs[b]] = bs[b] /\ bs[b] # u
      BY <1>5, <1>16, <2>1, <3>1
    <3>3. ASSUME NEW c \in 1..k + 1, bsg[c] = bsg[b] PROVE c = b
      <4>1. c # k + 1
        BY <1>10, <1>16, <2>2, <3>1, <3>3
      <4>2. c \in 1..k /\ bs[c] = bs[b]
        BY <1>10, <1>11, <3>1, <3>3, <4>1
      <4> QED
        BY <1>16, <2>1, <3>1, <4>2
    <3> QED
      BY <3>1, <3>2, <3>3
  <2> QED
    BY <2>4, <2>5
<1>17. Rooted(owg, g, u, bsg)
  BY <1>3, <1>5, <1>9, <1>13, <1>15, <1>16 DEF Rooted
<1> QED
  BY <1>3, <1>8, <1>17

\* The file is not touched by what is added to a block.
LEMMA UnitKept ==
  ASSUME NEW own, NEW h, NEW u, NEW bs, Rooted(own, h, u, bs), NEW outer, NEW l,
         Innermost(h, bs, outer, l),
         NEW g, NEW owg, NEW N, Kept(h, own, g, owg, l, N)
  PROVE  /\ Items(g, u) = Items(h, u) /\ (u # 0 => g[u] = h[u])
         /\ \A j \in 1..Len(Items(h, u)) : Entry(g, Items(h, u)[j]) = Entry(h, Items(h, u)[j])
<1>1. HeapOK(h, own) /\ u \in 0..Len(h) /\ (u # 0 => own[u] = u)
  BY DEF Rooted
<1>2. PICK k \in Nat : Len(bs) = k + 1 /\ bs[k + 1] = l /\ k + 1 \in 1..Len(bs)
  <2>1. PICK k \in Nat : k = Len(outer)
    BY SeqIsFunction DEF Innermost
  <2>2. Len(bs) = k + 1 /\ bs[k + 1] = l
    BY <2>1, AppendParts DEF Innermost
  <2> QED
    BY <2>1, <2>2
<1>3. l # 0 => l # u
  BY <1>2 DEF Rooted
<1>4. u # 0 => own[u] = u /\ u # l
  BY <1>1, <1>3
<1>5. Items(g, u) = Items(h, u)
  BY <1>1, <1>4, SaidKept
<1>6. u # 0 => g[u] = h[u]
  <2>1. u # 0 => u \in 1..Len(h)
    BY <1>1
  <2> QED
    BY <1>4, <2>1 DEF Kept
<1>7. ASSUME NEW j \in 1..Len(Items(h, u)) PROVE Entry(g, Items(h, u)[j]) = Entry(h, Items(h, u)[j])
  <2>1. PICK x : x = Items(h, u)[j]
    OBVIOUS
  <2>2. ValueOK(own, h, u, bs, x.value) /\ \E i \in 1..Len(h) : x = h[i].node
    BY <1>1, <2>1, ItemValue
  <2>3. x.value # 0 => x.value \in 1..Len(h) /\ own[x.value] = x.value /\ x.value # l
    BY <1>2, <2>2 DEF ValueOK
  <2>4. x.value \in Nat
    <3>1. \A i \in 1..Len(h) : h[i] \in ListNodes
      BY <1>1, SeqIsFunction DEF HeapOK
    <3> QED
      BY <2>2, <3>1 DEF ListNodes, AstNodes
  <2>5. Entry(g, x) = Entry(h, x)
    BY <1>1, <2>3, <2>4, EntryKept
  <2> QED
    BY <2>1, <2>5
<1> QED
  BY <1>5, <1>6, <1>7

\* The function says what it did, and then the nodes.
LEMMA ItemBody ==
  ASSUME NEW own, NEW h, NEW u, NEW bs, Rooted(own, h, u, bs),
         NEW outer, NEW l, Innermost(h, bs, outer, l),
         NEW nodes \in Seq(AstNodes), NEW r, NEW owg, Grown(h, own, l, nodes, r, owg)
  PROVE  Body(r.heap, Append(outer, r.list)) = Body(h, bs) \o NamesOf(nodes)
<1>1. outer \in Seq(0..Len(h)) /\ l \in 0..Len(h) /\ bs = Append(outer, l)
  BY DEF Innermost
<1>2. PICK g, w, bsg : g = r.heap /\ w = r.list /\ bsg = Append(outer, w)
  OBVIOUS
<1>3. PICK k \in Nat, n \in Nat, ng \in Nat : k = Len(outer) /\ n = Len(h) /\ ng = Len(g)
  <2>1. Len(outer) \in Nat /\ Len(h) \in Nat
    BY <1>1, SeqIsFunction DEF Rooted, HeapOK
  <2>2. Len(g) \in Nat
    BY <1>2, SeqIsFunction DEF Grown, Kept, HeapOK
  <2> QED
    BY <2>1, <2>2
<1>4. /\ Kept(h, own, g, owg, l, Members(nodes)) /\ w \in 1..ng
      /\ Items(g, w) = Items(h, l) \o nodes
  BY <1>2, <1>3 DEF Grown
<1>5. HeapOK(h, own) /\ HeapOK(g, owg) /\ n <= ng
  BY <1>3, <1>4 DEF Rooted, Kept
<1>6. /\ Len(bs) = k + 1 /\ bs[k + 1] = l
      /\ \A b \in 1..k : bs[b] = outer[b] /\ outer[b] \in 0..n
  BY <1>3, <1>1, AppendParts
<1>7. ASSUME NEW b \in 1..k PROVE Said(g, outer[b]) = Said(h, outer[b])
  <2>1. PICK i \in 0..n : i = outer[b] /\ i = bs[b]
    BY <1>6
  <2>2. b \in 1..k + 1 /\ k + 1 \in 1..k + 1 /\ b # k + 1
    OBVIOUS
  <2>3. i # 0 => own[i] = i /\ (bs[k + 1] = i => k + 1 = b)
    BY <1>6, <2>1, <2>2 DEF Rooted
  <2>4. i # 0 => own[i] = i /\ i # l
    BY <1>6, <2>2, <2>3
  <2>5. Said(g, i) = Said(h, i)
    BY <1>3, <1>4, <1>5, <2>4, SaidKept
  <2> QED
    BY <2>1, <2>5
<1>8. Body(g, outer) = Body(h, outer)
  <2>1. DOMAIN outer = 1..k
    BY <1>3, <1>1, SeqIsFunction
  <2> QED
    BY <1>7, <2>1, BodyKept
<1>9. Said(g, w) = Said(h, l) \o NamesOf(nodes)
  <2>1. Items(h, l) \in Seq(AstNodes)
    BY <1>5, <1>1, SaidIsSeq
  <2>2. NamesOf(Items(h, l) \o nodes) = NamesOf(Items(h, l)) \o NamesOf(nodes)
    BY <2>1, NamesOfConcat
  <2> QED
    BY <1>4, <2>2 DEF Said
<1>10. Body(g, bsg) = Body(g, outer) \o Said(g, w)
  <2>1. outer = [b \in 1..k |-> outer[b]]
    BY <1>3, <1>1, SeqIsFunction
  <2>2. \A b \in 1..k : outer[b] \in 0..ng
    BY <1>5, <1>6
  <2>3. outer \in Seq(0..ng)
    BY <2>1, <2>2, FunctionIsSeq
  <2>4. w \in 0..ng
    BY <1>4
  <2> QED
    BY <1>2, <1>3, <1>5, <2>3, <2>4, BodyAppend
<1>11. Body(h, bs) = Body(h, outer) \o Said(h, l)
  BY <1>3, <1>5, <1>1, BodyAppend
<1>12. /\ Body(h, outer) \in Seq(Names) /\ Said(h, l) \in Seq(Names)
       /\ NamesOf(nodes) \in Seq(Names)
  BY <1>3, <1>5, <1>1, BodyAppend, SaidIsSeq, NamesOfSeq
<1>13. Body(h, outer) \o (Said(h, l) \o NamesOf(nodes))
         = (Body(h, outer) \o Said(h, l)) \o NamesOf(nodes)
  <2>1. PICK a, b, c : a = Body(h, outer) /\ b = Said(h, l) /\ c = NamesOf(nodes)
    OBVIOUS
  <2>2. a \in Seq(Names) /\ b \in Seq(Names) /\ c \in Seq(Names)
    BY <1>12, <2>1
  <2>3. (a \o b) \o c = a \o (b \o c)
    BY <2>2
  <2> QED
    BY Zenon, <2>1, <2>3
<1>14. Body(g, bsg) = Body(h, bs) \o NamesOf(nodes)
  BY Zenon, <1>8, <1>9, <1>10, <1>11, <1>13
<1> QED
  BY <1>2, <1>14

\* The file still says the text when only the body of the open function grew.
LEMMA TextOfItems ==
  ASSUME NEW h, NEW u, NEW bs, NEW txt, TextIs(h, u, bs, txt), bs # <<>>, NEW g, NEW cs, cs # <<>>,
         Items(g, u) = Items(h, u),
         \A j \in 1..Len(Items(h, u)) : Entry(g, Items(h, u)[j]) = Entry(h, Items(h, u)[j]),
         NEW new, Len(new) = Len(txt), \A k \in 1..Len(txt) - 1 : new[k] = txt[k],
         new[Len(txt)].kind = txt[Len(txt)].kind, new[Len(txt)].body = Body(g, cs)
  PROVE  TextIs(g, u, cs, new)
<1>1. PICK m \in Nat :
        /\ Len(txt) = m + (IF bs = <<>> THEN 0 ELSE 1)
        /\ Len(Items(h, u)) = m
        /\ \A k \in 1..m : txt[k] = Entry(h, Items(h, u)[k])
        /\ bs # <<>> => txt[m + 1].kind = "function" /\ txt[m + 1].body = Body(h, bs)
  BY DEF TextIs
<1>2. Len(txt) = m + 1 /\ Len(txt) - 1 = m /\ txt[m + 1].kind = "function"
  BY <1>1
<1>3. Len(new) = m + (IF cs = <<>> THEN 0 ELSE 1) /\ Len(Items(g, u)) = m
  BY <1>1, <1>2
<1>4. \A k \in 1..m : new[k] = Entry(g, Items(g, u)[k])
  BY <1>1, <1>2
<1>5. new[m + 1].kind = "function" /\ new[m + 1].body = Body(g, cs)
  BY <1>2
<1> QED
  BY <1>3, <1>4, <1>5 DEF TextIs

-----------------------------------------------------------------------------
\* No list, nothing said.
LEMMA NothingSaid ==
  ASSUME NEW h, NEW own, HeapOK(h, own)
  PROVE  Said(h, 0) = <<>>
<1>1. Items(h, 0) = <<>>
  BY ItemsOfList
<1>2. NamesOf(<<>>) \in Seq(Names) /\ Len(NamesOf(<<>>)) = 0
  <2>1. <<>> \in Seq(AstNodes) /\ Len(<<>>) = 0
    OBVIOUS
  <2> QED
    BY <2>1, NamesOfSeq
<1>3. NamesOf(<<>>) = <<>>
  BY <1>2
<1> QED
  BY <1>1, <1>3 DEF Said

\* A block begins without a list.
LEMMA BlockOpened ==
  ASSUME NEW own, NEW h, NEW u, NEW bs, Rooted(own, h, u, bs)
  PROVE  Rooted(own, h, u, Append(bs, 0)) /\ Body(h, Append(bs, 0)) = Body(h, bs)
<1>1. HeapOK(h, own) /\ bs \in Seq(0..Len(h)) /\ u \in 0..Len(h) /\ (u # 0 => own[u] = u)
  BY DEF Rooted
<1>2. PICK k \in Nat, n \in Nat : k = Len(bs) /\ n = Len(h)
  BY <1>1, SeqIsFunction DEF HeapOK
<1>3. PICK cs : cs = Append(bs, 0)
  OBVIOUS
<1>4. /\ cs \in Seq(0..n) /\ Len(cs) = k + 1 /\ cs[k + 1] = 0
      /\ \A b \in 1..k : cs[b] = bs[b]
  <2>1. 0 \in 0..n
    BY <1>2
  <2> QED
    BY <1>1, <1>2, <1>3, <2>1, AppendParts
<1>5. cs[k + 1] = 0 /\ \A b \in 1..k : cs[b] = bs[b]
  BY <1>4
<1>6. \A b \in 1..k + 1 : b = k + 1 \/ b \in 1..k
  OBVIOUS
<1>7. \A b \in 1..k : bs[b] # 0 => /\ own[bs[b]] = bs[b] /\ bs[b] # u
                                   /\ \A c \in 1..k : bs[c] = bs[b] => c = b
  BY <1>2 DEF Rooted
<1>8. ASSUME NEW b \in 1..k + 1, cs[b] # 0
      PROVE  /\ own[cs[b]] = cs[b] /\ cs[b] # u
             /\ \A c \in 1..k + 1 : cs[c] = cs[b] => c = b
  <2>1. b \in 1..k /\ cs[b] = bs[b]
    BY <1>5, <1>6, <1>8
  <2>2. ASSUME NEW c \in 1..k + 1, cs[c] = cs[b] PROVE c = b
    <3>1. c \in 1..k /\ cs[c] = bs[c]
      BY <1>5, <1>6, <1>8, <2>2
    <3> QED
      BY <1>7, <1>8, <2>1, <2>2, <3>1
  <2> QED
    BY <1>7, <1>8, <2>1, <2>2
<1>9. ASSUME NEW i \in 1..n PROVE ValueOK(own, h, u, cs, h[i].node.value)
  <2>1. PICK v : v = h[i].node.value
    OBVIOUS
  <2>2. ValueOK(own, h, u, bs, v)
    BY <1>2, <2>1 DEF Rooted
  <2>3. SUFFICES ASSUME v # 0
                 PROVE  v \in 1..n /\ own[v] = v /\ v # u /\ \A b \in 1..k + 1 : cs[b] # v
    BY <1>2, <1>4, <2>1 DEF ValueOK
  <2>4. v \in 1..n /\ own[v] = v /\ v # u /\ \A b \in 1..k : bs[b] # v
    BY <1>2, <2>2, <2>3 DEF ValueOK
  <2> QED
    BY <1>5, <1>6, <2>3, <2>4
<1>10. Rooted(own, h, u, cs)
  BY <1>1, <1>2, <1>4, <1>8, <1>9 DEF Rooted
<1>11. Body(h, cs) = Body(h, bs)
  <2>1. 0 \in 0..Len(h)
    BY <1>2
  <2>2. Body(h, cs) = Body(h, bs) \o Said(h, 0) /\ Body(h, bs) \in Seq(Names)
    BY <1>1, <1>3, <2>1, BodyAppend
  <2>3. Said(h, 0) = <<>>
    BY <1>1, NothingSaid
  <2>4. PICK s : s = Body(h, bs) /\ s \in Seq(Names)
    BY <2>2
  <2>5. s \o <<>> = s
    BY <2>4
  <2> QED
    BY Zenon, <2>2, <2>3, <2>4, <2>5
<1> QED
  BY <1>3, <1>10, <1>11

-----------------------------------------------------------------------------
\* The AST nodes of some tokens.
NodesFor(kinds) == [k \in DOMAIN kinds |-> AstNode(kinds[k], Position + k - 1, NULL)]
AreNodesFor(kinds, n, nodes) ==
  /\ nodes \in Seq(AstNodes) /\ Len(nodes) = n /\ Len(kinds) = n
  /\ \A k \in 1..n : /\ nodes[k].value = 0 /\ nodes[k].kind = kinds[k]
                      /\ nodes[k].id = Position + k - 1
  /\ NamesOf(nodes) = [k \in DOMAIN kinds |-> [kind |-> kinds[k], id |-> Position + k - 1]]

\* The nodes of one declaration or statement.
LEMMA NodesOfKinds ==
  ASSUME NEW n \in 1..2, NEW kinds \in [1..n -> StatementKinds \cup DeclarationKinds],
         tokens \in Nat
  PROVE  AreNodesFor(kinds, n, NodesFor(kinds))
<1>1. PICK nodes : nodes = NodesFor(kinds)
  OBVIOUS
<1>2. nodes = [k \in DOMAIN kinds |-> AstNode(kinds[k], Position + k - 1, NULL)]
  BY <1>1 DEF NodesFor
<1>3. DOMAIN kinds = 1..n /\ n \in Nat
  OBVIOUS
<1>4. nodes = [k \in 1..n |-> AstNode(kinds[k], Position + k - 1, NULL)]
  BY <1>3, <1>2
<1>5. ASSUME NEW k \in 1..n
      PROVE  /\ nodes[k] \in AstNodes
             /\ nodes[k].value = 0 /\ nodes[k].kind = kinds[k] /\ nodes[k].id = Position + k - 1
  <2>1. nodes[k] = [kind |-> kinds[k], id |-> Position + k - 1, value |-> 0]
    BY <1>4 DEF AstNode, NULL
  <2>2. Position + k - 1 \in Nat
    BY <1>3 DEF Position
  <2>3. kinds[k] \in StatementKinds \cup DeclarationKinds
    OBVIOUS
  <2>4. PICK a, b : a = kinds[k] /\ b = Position + k - 1
    OBVIOUS
  <2>5. nodes[k] = [kind |-> a, id |-> b, value |-> 0]
    BY Zenon, <2>1, <2>4
  <2>6. a \in StatementKinds \cup DeclarationKinds /\ b \in Nat
    BY Zenon, <2>2, <2>3, <2>4
  <2>7. nodes[k] \in AstNodes
    BY <2>5, <2>6 DEF AstNodes
  <2> QED
    BY <2>4, <2>5, <2>7
<1>6. nodes \in Seq(AstNodes) /\ Len(nodes) = n
  <2>1. nodes = [k \in 1..n |-> nodes[k]]
    BY <1>4
  <2>2. \A k \in 1..n : nodes[k] \in AstNodes
    BY Zenon, <1>5
  <2> QED
    BY <1>3, <2>1, <2>2, FunctionIsSeq
<1>7. Len(kinds) = n
  <2>1. kinds = [k \in 1..n |-> kinds[k]]
    OBVIOUS
  <2>2. \A k \in 1..n : kinds[k] \in StatementKinds \cup DeclarationKinds
    OBVIOUS
  <2> QED
    BY <1>3, <2>1, <2>2, FunctionIsSeq
<1>8. NamesOf(nodes) = [k \in DOMAIN kinds |-> [kind |-> kinds[k], id |-> Position + k - 1]]
  <2>1. DOMAIN nodes = 1..n
    BY <1>4
  <2>2. NamesOf(nodes) = [k \in 1..n |-> [kind |-> nodes[k].kind, id |-> nodes[k].id]]
    BY <2>1 DEF NamesOf
  <2>3. \A k \in 1..n : nodes[k].kind = kinds[k] /\ nodes[k].id = Position + k - 1
    BY Zenon, <1>5
  <2> QED
    BY <1>3, <2>2, <2>3
<1> QED
  BY Zenon, <1>1, <1>5, <1>6, <1>7, <1>8 DEF AreNodesFor

-----------------------------------------------------------------------------
Texts == Seq([kind : DeclarationKinds, id : Nat, body : Seq(Names)])
Phases == {"parse", "build", "print", "done", "crash"}

\* The last declaration of new has that body.
Says(txt, new, body) ==
  /\ new \in Texts /\ Len(new) = Len(txt) /\ \A k \in 1..Len(txt) - 1 : new[k] = txt[k]
  /\ new[Len(txt)].kind = txt[Len(txt)].kind /\ new[Len(txt)].body = body
Longer(txt, names) == [txt EXCEPT ![Len(txt)].body = @ \o names]

\* The strengthening of the type invariant and of the properties of the lists.
Typed ==
  /\ phase \in Phases
  /\ tokens \in 0..MaxTokens
  /\ Len(heap) <= MaxNodes
  /\ text \in Texts
  /\ unit # 0 => top = heap[unit]

Written == TextIs(heap, unit, blocks, text)
Shaped == \E own : Rooted(own, heap, unit, blocks)

ListInv == Typed /\ Written /\ Shaped

-----------------------------------------------------------------------------
\* After nodes were added to a block, the function says them too.
ItemStep(own, h, u, bs, outer, l, nodes, r, owg) ==
  /\ Rooted(own, h, u, bs) /\ Innermost(h, bs, outer, l)
  /\ nodes \in Seq(AstNodes) /\ Grown(h, own, l, nodes, r, owg)

\* When an item is appended to the innermost block, the text gets its names.
LEMMA ItemText ==
  ASSUME NEW own, NEW h, NEW u, NEW bs, NEW outer, NEW l, NEW nodes, NEW r, NEW owg,
         ItemStep(own, h, u, bs, outer, l, nodes, r, owg),
         NEW ws, ws # <<>>, NEW txt, TextIs(h, u, ws, txt),
         NEW new, Says(txt, new, Body(h, bs) \o NamesOf(nodes))
  PROVE  /\ TextIs(r.heap, u, Append(outer, r.list), new)
         /\ u # 0 => r.heap[u] = h[u]
<1>1. /\ Rooted(own, h, u, bs) /\ Innermost(h, bs, outer, l)
      /\ nodes \in Seq(AstNodes) /\ Grown(h, own, l, nodes, r, owg)
  BY DEF ItemStep
<1>2. PICK g, cs : g = r.heap /\ cs = Append(outer, r.list)
  OBVIOUS
<1>3. PICK k \in Nat : /\ k = Len(outer) /\ Len(bs) = k + 1 /\ bs[k + 1] = l
                       /\ outer \in Seq(0..Len(h))
  <2>1. outer \in Seq(0..Len(h)) /\ l \in 0..Len(h) /\ bs = Append(outer, l)
    BY <1>1 DEF Innermost
  <2>2. Len(outer) \in Nat
    BY <2>1, SeqIsFunction
  <2> QED
    BY <2>1, <2>2, AppendParts
<1>4. Kept(h, own, g, owg, l, Members(nodes))
  BY <1>2, <1>1 DEF Grown
<1>5. /\ Items(g, u) = Items(h, u) /\ (u # 0 => g[u] = h[u])
      /\ \A j \in 1..Len(Items(h, u)) : Entry(g, Items(h, u)[j]) = Entry(h, Items(h, u)[j])
  BY <1>4, <1>1, UnitKept
<1>6. Body(r.heap, Append(outer, r.list)) = Body(h, bs) \o NamesOf(nodes)
  BY <1>1, ItemBody
<1>7. cs # <<>>
  <2>1. r.list \in 0..Len(h) \cup {r.list} /\ \A b \in 1..k : outer[b] \in 0..Len(h) \cup {r.list}
    BY <1>3, SeqIsFunction
  <2>2. outer = [b \in 1..k |-> outer[b]]
    BY <1>3, SeqIsFunction
  <2>3. outer \in Seq(0..Len(h) \cup {r.list})
    BY <2>1, <2>2, FunctionIsSeq
  <2>4. Len(cs) = k + 1 /\ Len(<<>>) = 0
    BY <1>2, <1>3, <2>1, <2>3, AppendParts
  <2> QED
    BY <2>4
<1>8. /\ Len(new) = Len(txt) /\ \A j \in 1..Len(txt) - 1 : new[j] = txt[j]
      /\ new[Len(txt)].kind = txt[Len(txt)].kind /\ new[Len(txt)].body = Body(g, cs)
  BY <1>2, <1>6 DEF Says
<1>9. TextIs(g, u, cs, new)
  BY <1>5, <1>7, <1>8, TextOfItems
<1> QED
  BY <1>2, <1>5, <1>9

\* What the open function says.
LEMMA OpenFunction ==
  ASSUME Typed, Written, Shaped, blocks # <<>>
  PROVE  /\ Len(text) \in Nat /\ Len(text) >= 1 /\ Len(text) = Len(Items(heap, unit)) + 1
         /\ text[Len(text)].kind = "function" /\ text[Len(text)].body = Body(heap, blocks)
         /\ blocks \in Seq(0..Len(heap)) /\ Len(blocks) \in Nat /\ Len(blocks) >= 1
         /\ text \in Texts /\ Len(heap) \in Nat
<1>1. PICK m \in Nat :
        /\ Len(text) = m + (IF blocks = <<>> THEN 0 ELSE 1)
        /\ Len(Items(heap, unit)) = m
        /\ blocks # <<>> => text[m + 1].kind = "function" /\ text[m + 1].body = Body(heap, blocks)
  BY DEF Written, TextIs
<1>2. Len(text) = m + 1
  BY <1>1
<1>3. blocks \in Seq(0..Len(heap)) /\ Len(heap) \in Nat
  BY SeqIsFunction DEF Shaped, Rooted, HeapOK
<1>4. Len(blocks) \in Nat /\ Len(blocks) # 0
  BY <1>3
<1>5. text \in Texts
  BY DEF Typed
<1> QED
  BY <1>1, <1>2, <1>3, <1>4, <1>5

\* The text of a function with more in it.
LEMMA TextGrown ==
  ASSUME NEW txt \in Texts, Len(txt) >= 1, NEW names \in Seq(Names)
  PROVE  Says(txt, Longer(txt, names), txt[Len(txt)].body \o names)
<1>1. PICK n \in Nat : n = Len(txt) /\ n >= 1
  BY SeqIsFunction DEF Texts
<1>2. PICK new : new = [txt EXCEPT ![n].body = @ \o names]
  OBVIOUS
<1>3. new = Longer(txt, names)
  BY <1>1, <1>2 DEF Longer
<1> DEFINE E == [kind : DeclarationKinds, id : Nat, body : Seq(Names)]
<1>4. DOMAIN txt = 1..n /\ \A k \in 1..n : txt[k] \in E
  BY <1>1, SeqIsFunction DEF Texts
<1>5. n \in 1..n
  BY <1>1
<1>6. PICK x : x = txt[n]
  OBVIOUS
<1>7. x.kind \in DeclarationKinds /\ x.id \in Nat /\ x.body \in Seq(Names)
  <2>1. x \in E
    BY <1>4, <1>5, <1>6
  <2> QED
    BY <2>1
<1>8. PICK s : s = x.body \o names /\ s \in Seq(Names)
  <2>1. PICK b : b = x.body /\ b \in Seq(Names)
    BY <1>7
  <2>2. b \o names \in Seq(Names)
    BY <2>1
  <2> QED
    BY Zenon, <2>1, <2>2
<1>9. PICK y : y = [x EXCEPT !.body = s]
  OBVIOUS
<1>10. y.kind = x.kind /\ y.body = s /\ y \in E
  <2>1. x = [kind |-> x.kind, id |-> x.id, body |-> x.body]
    BY <1>4, <1>5, <1>6
  <2>2. y = [kind |-> x.kind, id |-> x.id, body |-> s]
    BY <1>9, <2>1
  <2> QED
    BY <1>7, <1>8, <2>2
<1>11. new = [k \in 1..n |-> IF k = n THEN y ELSE txt[k]]
  BY <1>4, <1>5, <1>6, <1>8, <1>9, <1>2
<1>12. \A k \in 1..n : new[k] \in E
  BY <1>4, <1>10, <1>11
<1>13. new \in Seq(E) /\ Len(new) = n
  <2>1. new = [k \in 1..n |-> new[k]]
    BY <1>11
  <2>2. PICK F, w : F = E /\ w = new
    OBVIOUS
  <2>3. w = [k \in 1..n |-> w[k]] /\ \A k \in 1..n : w[k] \in F
    BY Zenon, <1>12, <2>1, <2>2
  <2>4. w \in Seq(F) /\ Len(w) = n
    BY <2>3, FunctionIsSeq
  <2> QED
    BY Zenon, <2>2, <2>4
<1>14. new[n] = y /\ \A k \in 1..n - 1 : new[k] = txt[k]
  BY <1>5, <1>11
<1> QED
  BY <1>6, <1>8, <1>10, <1>13, <1>14, <1>1, <1>3 DEF Texts, Says

\* The items of the open block, in front of what is read next.
LEMMA InnermostBlock ==
  ASSUME Typed, Written, NEW own, Rooted(own, heap, unit, blocks), blocks # <<>>
  PROVE  /\ Innermost(heap, blocks, Outer, Last(blocks))
         /\ Last(blocks) \in 0..Len(heap)
         /\ Last(blocks) # 0 => own[Last(blocks)] = Last(blocks)
<1>1. blocks \in Seq(0..Len(heap)) /\ Len(blocks) \in Nat /\ Len(blocks) >= 1
  <2>1. Shaped
    BY DEF Shaped
  <2> QED
    BY <2>1, OpenFunction
<1>2. PICK k \in Nat : Len(blocks) = k + 1 /\ k = Len(blocks) - 1
  <2>1. Len(blocks) - 1 \in Nat /\ Len(blocks) = Len(blocks) - 1 + 1
    BY <1>1
  <2> QED
    BY <2>1
<1>3. PICK outer, l : outer = SubSeq(blocks, 1, k) /\ l = Last(blocks)
  OBVIOUS
<1>4. /\ outer \in Seq(0..Len(heap)) /\ l \in 0..Len(heap) /\ blocks = Append(outer, l)
  BY <1>1, <1>2, <1>3, FrontParts
<1>5. l = blocks[k + 1] /\ k + 1 \in 1..Len(blocks)
  BY <1>2, <1>3 DEF Last
<1>6. l # 0 => own[l] = l
  BY <1>5 DEF Rooted
<1>7. Outer = outer
  BY <1>2, <1>3 DEF Outer
<1> QED
  BY <1>3, <1>4, <1>6, <1>7 DEF Innermost

\* What AppendItem changes.
LEMMA ItemAppended ==
  ASSUME NEW h, NEW outer, NEW l, NEW item, AppendItem(h, outer, l, item), item # NoNode,
         NEW r, r = AstAppend(h, l, item)
  PROVE  /\ Len(r.heap) <= MaxNodes /\ heap' = r.heap /\ blocks' = Append(outer, r.list)
         /\ phase' = phase
  BY DEF AppendItem

\* A statement is read.
LEMMA StatementKeeps ==
  ASSUME ListInv, NEW kinds \in Expressions \cup {<<"return">>}, Statement(kinds)
  PROVE  ListInv'
<1>1. Typed /\ Written /\ Shaped
  BY DEF ListInv
<1>2. tokens \in Nat /\ blocks # <<>> /\ tokens' = tokens + Len(kinds) /\ tokens' <= MaxTokens
  BY <1>1, BoundsAssumption DEF Typed, Statement, Parsing, InFunction
<1>3. PICK n \in 1..2 : kinds \in [1..n -> StatementKinds]
  <2>1. CASE kinds = <<"return">>
    BY <2>1 DEF StatementKinds
  <2>2. CASE kinds \in Expressions
    <3>1. PICK n \in 1..2 : kinds \in [1..n -> {"expression", "string"}]
      BY <2>2 DEF Expressions
    <3>2. {"expression", "string"} \subseteq StatementKinds
      BY DEF StatementKinds
    <3> QED
      BY <3>1, <3>2
  <2> QED
    BY <2>1, <2>2
<1>4. PICK nodes : /\ nodes = NodesFor(kinds)
                   /\ nodes = [k \in DOMAIN kinds |-> AstNode(kinds[k], Position + k - 1, NULL)]
  BY DEF NodesFor
<1>5. /\ nodes \in Seq(AstNodes) /\ Len(nodes) = n /\ Len(kinds) = n
      /\ \A k \in 1..n : nodes[k].value = 0
      /\ NamesOf(nodes) = [k \in DOMAIN kinds |-> [kind |-> kinds[k], id |-> Position + k - 1]]
  <2>1. kinds \in [1..n -> StatementKinds \cup DeclarationKinds]
    BY <1>3
  <2>2. AreNodesFor(kinds, n, nodes)
    BY <1>2, <1>4, <2>1, NodesOfKinds
  <2> QED
    BY <2>2 DEF AreNodesFor
<1>6. PICK own : Rooted(own, heap, unit, blocks)
  BY <1>1 DEF Shaped
<1>7. PICK outer, l : outer = Outer /\ l = Last(blocks)
  OBVIOUS
<1>8. /\ Innermost(heap, blocks, outer, l) /\ l \in 0..Len(heap) /\ (l # 0 => own[l] = l)
      /\ HeapOK(heap, own)
  BY <1>1, <1>2, <1>6, <1>7, InnermostBlock DEF Rooted
<1>9. \E r, owg : /\ Grown(heap, own, l, nodes, r, owg)
                  /\ Len(r.heap) <= MaxNodes /\ heap' = r.heap /\ blocks' = Append(outer, r.list)
                  /\ phase' = phase
  <2>1. CASE kinds = <<"return">>
    <3>1. n = 1
      BY <1>5, <2>1
    <3>2. PICK x : x = nodes[1] /\ x \in AstNodes
      <4>1. 1 \in 1..n
        BY <3>1
      <4> QED
        BY <1>5, <4>1, SeqIsFunction
    <3>3. nodes = <<x>>
      <4>1. <<x>> \in Seq(AstNodes) /\ Len(<<x>>) = 1 /\ <<x>>[1] = x
        BY <3>2
      <4>2. \A k \in 1..1 : nodes[k] = <<x>>[k]
        BY <3>2
      <4> QED
        BY <1>5, <3>1, <4>1, <4>2, SeqEqual
    <3>4. AppendItem(heap, outer, l, x)
      BY <1>4, <1>7, <2>1, <3>2 DEF Statement
    <3>5. x # NoNode
      BY <3>2 DEF AstNodes, NoNode, StatementKinds, DeclarationKinds
    <3>6. PICK r : r = AstAppend(heap, l, x)
      OBVIOUS
    <3>7. PICK owg : Grown(heap, own, l, <<x>>, r, owg)
      BY <1>8, <3>2, <3>6, NodeAppended
    <3>8. /\ Len(r.heap) <= MaxNodes /\ heap' = r.heap /\ blocks' = Append(outer, r.list)
          /\ phase' = phase
      BY <3>4, <3>5, <3>6, ItemAppended
    <3> QED
      BY <3>3, <3>7, <3>8
  <2>2. CASE kinds # <<"return">>
    <3>1. PICK f : f = ListOf(heap, nodes)
      OBVIOUS
    <3>2. PICK x : x = List(f.list)
      OBVIOUS
    <3>3. AppendItem(f.heap, outer, l, x)
      BY <1>4, <1>7, <2>2, <3>1, <3>2 DEF Statement
    <3>4. x # NoNode
      <4>1. Len(nodes) >= 1
        BY <1>5
      <4>2. PICK owf : Listed(heap, own, nodes, f, owf)
        BY <1>5, <1>8, <3>1, <4>1, ListOfKeeps
      <4>3. f.list = Len(heap) + 1 /\ Len(heap) \in Nat
        BY <1>8, <4>2, SeqIsFunction DEF Listed, HeapOK
      <4>4. f.list # 0
        BY <4>3
      <4> QED
        BY <3>2, <4>4 DEF List, AstNode, NoNode, NULL
    <3>5. PICK r : r = AstAppend(f.heap, l, x)
      OBVIOUS
    <3>6. PICK owg : Grown(heap, own, l, nodes, r, owg)
      <4>1. Len(nodes) >= 1
        BY <1>5
      <4>2. \E owg : Grown(heap, own, l, nodes, AstAppend(ListOf(heap, nodes).heap, l,
                                                     List(ListOf(heap, nodes).list)), owg)
        BY <1>5, <1>8, <4>1, ListAppended
      <4> QED
        BY <3>1, <3>2, <3>5, <4>2
    <3>7. /\ Len(r.heap) <= MaxNodes /\ heap' = r.heap /\ blocks' = Append(outer, r.list)
          /\ phase' = phase
      BY <3>3, <3>4, <3>5, ItemAppended
    <3> QED
      BY <3>6, <3>7
  <2> QED
    BY <2>1, <2>2
<1>10. PICK r, owg : /\ Grown(heap, own, l, nodes, r, owg)
                     /\ Len(r.heap) <= MaxNodes /\ heap' = r.heap /\ blocks' = Append(outer, r.list)
                     /\ phase' = phase
  BY <1>9
<1>11. PICK m \in Nat :
         m = Len(text) /\ m >= 1 /\ text[m].body = Body(heap, blocks) /\ text \in Texts
  BY <1>1, <1>2, OpenFunction
<1>12. PICK names, new : names = NamesOf(nodes) /\ new = Longer(text, names)
  OBVIOUS
<1>13. text' = new
  BY <1>5, <1>12 DEF Statement, Longer
<1>14. names \in Seq(Names)
  BY <1>5, <1>12, NamesOfSeq
<1>15. Says(text, new, Body(heap, blocks) \o NamesOf(nodes))
  <2>1. Says(text, new, text[Len(text)].body \o names)
    BY <1>11, <1>12, <1>14, TextGrown
  <2> QED
    BY <1>11, <1>12, <2>1
<1>16. \A k \in 1..Len(nodes) : ValueOK(own, heap, unit, blocks, nodes[k].value)
  BY <1>5 DEF ValueOK
<1>17. Rooted(owg, r.heap, unit, Append(outer, r.list))
  BY <1>5, <1>6, <1>8, <1>10, <1>16, ItemRooted
<1>18. /\ TextIs(r.heap, unit, Append(outer, r.list), new)
       /\ unit # 0 => r.heap[unit] = heap[unit]
  <2>1. TextIs(heap, unit, blocks, text)
    BY <1>1 DEF Written
  <2>2. ItemStep(own, heap, unit, blocks, outer, l, nodes, r, owg)
    BY <1>5, <1>6, <1>8, <1>10 DEF ItemStep
  <2> QED
    BY <1>2, <1>15, <2>1, <2>2, ItemText
<1>19. unit' = unit /\ top' = top
  BY DEF Statement
<1>20. Written' /\ Shaped'
  BY <1>10, <1>13, <1>17, <1>18, <1>19 DEF Written, Shaped
<1>21. Typed'
  <2>1. tokens' \in 0..MaxTokens
    BY <1>2, <1>5, BoundsAssumption
  <2> QED
    BY <1>1, <1>10, <1>13, <1>15, <1>18, <1>19, <2>1 DEF Typed, Says
<1> QED
  BY <1>20, <1>21 DEF ListInv

\* Steps that change no list.
LEMMA SameKeeps ==
  ASSUME ListInv, heap' = heap, blocks' = blocks, text' = text, unit' = unit, top' = top,
         phase' \in Phases, tokens' \in 0..MaxTokens
  PROVE  ListInv'
<1>1. Written'
  BY DEF ListInv, Written
<1>2. Shaped'
  BY DEF ListInv, Shaped
<1>3. Typed'
  BY DEF ListInv, Typed
<1> QED
  BY <1>1, <1>2, <1>3 DEF ListInv

\* Positions are numbers.
LEMMA NextToken ==
  ASSUME Typed, Parsing
  PROVE  Position \in Nat /\ Position \in 0..MaxTokens
  BY BoundsAssumption DEF Typed, Parsing, Position

\* An empty statement leaves the lists as they are.
LEMMA EmptyStatementKeeps ==
  ASSUME ListInv, EmptyStatement
  PROVE  ListInv'
<1>1. Typed /\ Written /\ Shaped
  BY DEF ListInv
<1>2. /\ blocks # <<>> /\ tokens' = Position /\ text' = text /\ unit' = unit /\ top' = top
      /\ AppendItem(heap, Outer, Last(blocks), NoNode)
  BY DEF EmptyStatement, InFunction
<1>3. tokens' \in 0..MaxTokens
  BY <1>1, <1>2, NextToken DEF EmptyStatement
<1>4. PICK own : Rooted(own, heap, unit, blocks)
  BY <1>1 DEF Shaped
<1>5. PICK outer, l : outer = Outer /\ l = Last(blocks)
  OBVIOUS
<1>6. Innermost(heap, blocks, outer, l)
  BY <1>1, <1>2, <1>4, <1>5, InnermostBlock
<1>7. blocks = Append(outer, l)
  BY <1>6 DEF Innermost
<1>8. phase' \in Phases /\ heap' = heap /\ blocks' = blocks
  <2>1. CASE l = 0
    BY <1>2, <1>5, <2>1 DEF AppendItem, NULL, Phases
  <2>2. CASE l # 0
    <3>1. AstAppend(heap, l, NoNode) = [heap |-> heap, list |-> l]
      BY <2>2 DEF AstAppend, NULL
    <3>2. PICK r : r = AstAppend(heap, l, NoNode) /\ r.heap = heap /\ r.list = l
      BY <3>1
    <3>3. AppendItem(heap, outer, l, NoNode)
      BY <1>2, <1>5
    <3>4. heap' = r.heap /\ blocks' = Append(outer, r.list) /\ phase' = phase
      BY <2>2, <3>2, <3>3 DEF AppendItem, NULL
    <3>5. heap' = heap /\ blocks' = Append(outer, l) /\ phase' = phase
      BY Zenon, <3>2, <3>4
    <3> QED
      BY <1>1, <1>7, <3>5 DEF Typed
  <2> QED
    BY <2>1, <2>2
<1> QED
  BY <1>2, <1>3, <1>8, SameKeeps

\* The open blocks are others, which say the same.
LEMMA BlocksKeep ==
  ASSUME ListInv, blocks # <<>>, NEW own, NEW cs, Rooted(own, heap, unit, cs), cs # <<>>,
         Body(heap, cs) = Body(heap, blocks), heap' = heap, blocks' = cs, text' = text,
         unit' = unit, top' = top, phase' = phase, tokens' \in 0..MaxTokens
  PROVE  ListInv'
<1>1. Typed /\ Written /\ Shaped
  BY DEF ListInv
<1>2. TextIs(heap, unit, cs, text)
  <2>1. TextIs(heap, unit, blocks, text)
    BY <1>1 DEF Written
  <2>2. text[Len(text)].body = Body(heap, cs)
    BY <1>1, OpenFunction
  <2> QED
    BY <2>1, <2>2, TextOfItems
<1>3. Written' /\ Shaped'
  BY <1>2 DEF Written, Shaped
<1>4. Typed'
  BY <1>1 DEF Typed
<1> QED
  BY <1>3, <1>4 DEF ListInv

\* A block begins.
LEMMA BeginBlockKeeps ==
  ASSUME ListInv, BeginBlock
  PROVE  ListInv'
<1>1. Typed /\ Written /\ Shaped
  BY DEF ListInv
<1>2. /\ blocks # <<>> /\ tokens' = Position /\ text' = text /\ unit' = unit /\ top' = top
      /\ phase' = phase /\ heap' = heap /\ blocks' = Append(blocks, 0)
  BY DEF BeginBlock, InFunction, NULL
<1>3. tokens' \in 0..MaxTokens
  BY <1>1, <1>2, NextToken DEF BeginBlock
<1>4. PICK own : Rooted(own, heap, unit, blocks)
  BY <1>1 DEF Shaped
<1>5. PICK cs : cs = Append(blocks, 0)
  OBVIOUS
<1>6. Rooted(own, heap, unit, cs) /\ Body(heap, cs) = Body(heap, blocks)
  BY <1>4, <1>5, BlockOpened
<1>7. cs # <<>>
  <2>1. blocks \in Seq(0..Len(heap)) /\ 0 \in 0..Len(heap)
    BY <1>4, SeqIsFunction DEF Rooted, HeapOK
  <2>2. Len(cs) = Len(blocks) + 1 /\ Len(blocks) \in Nat /\ Len(<<>>) = 0
    BY <1>5, <2>1, AppendParts
  <2> QED
    BY <2>2
<1> QED
  BY <1>2, <1>3, <1>5, <1>6, <1>7, BlocksKeep

\* Between functions the text is what the file holds.
LEMMA NoFunction ==
  ASSUME Typed, Written, Shaped, blocks = <<>>
  PROVE  /\ Len(text) = Len(Items(heap, unit)) /\ Len(text) \in Nat /\ text \in Texts
         /\ \A k \in 1..Len(text) : text[k] = Entry(heap, Items(heap, unit)[k])
<1>1. PICK m \in Nat :
        /\ Len(text) = m + (IF blocks = <<>> THEN 0 ELSE 1)
        /\ Len(Items(heap, unit)) = m
        /\ \A k \in 1..m : text[k] = Entry(heap, Items(heap, unit)[k])
  BY DEF Written, TextIs
<1>2. Len(text) = m
  BY <1>1
<1> QED
  BY <1>1, <1>2 DEF Typed

\* A function begins: its body is the only open block.
LEMMA BeginFunctionKeeps ==
  ASSUME ListInv, BeginFunction
  PROVE  ListInv'
<1>1. Typed /\ Written /\ Shaped
  BY DEF ListInv
<1>2. PICK x : x = [kind |-> "function", id |-> Position, body |-> <<>>]
  OBVIOUS
<1>3. /\ blocks = <<>> /\ tokens' = Position /\ text' = Append(text, x) /\ unit' = unit
      /\ top' = top /\ phase' = phase /\ heap' = heap /\ blocks' = <<0>>
  BY <1>2 DEF BeginFunction, InFunction, NULL
<1>4. Position \in Nat /\ tokens' \in 0..MaxTokens
  BY <1>1, <1>3, NextToken DEF BeginFunction
<1>5. PICK own : Rooted(own, heap, unit, blocks)
  BY <1>1 DEF Shaped
<1>6. Rooted(own, heap, unit, <<0>>)
  <2>1. Append(<<>>, 0) = <<0>>
    OBVIOUS
  <2> QED
    BY <1>3, <1>5, <2>1, BlockOpened
<1>7. PICK m \in Nat : /\ m = Len(text) /\ m = Len(Items(heap, unit)) /\ text \in Texts
                       /\ \A k \in 1..m : text[k] = Entry(heap, Items(heap, unit)[k])
  BY <1>1, <1>3, NoFunction
<1>8. PICK new : new = text'
  OBVIOUS
<1>9. /\ new \in Texts /\ Len(new) = m + 1 /\ new[m + 1] = x
      /\ \A k \in 1..m : new[k] = text[k]
  <2>1. <<>> \in Seq(Names)
    OBVIOUS
  <2>2. x \in [kind : DeclarationKinds, id : Nat, body : Seq(Names)]
    BY <1>2, <1>4, <2>1 DEF DeclarationKinds
  <2>3. PICK E : E = [kind : DeclarationKinds, id : Nat, body : Seq(Names)]
    OBVIOUS
  <2>4. Texts = Seq(E) /\ x \in E
    BY Zenon, <2>2, <2>3 DEF Texts
  <2>5. text \in Seq(E) /\ new = Append(text, x)
    BY <1>3, <1>7, <1>8, <2>4
  <2>6. x \in E /\ m = Len(text)
    BY <1>7, <2>4
  <2>7. /\ new \in Seq(E) /\ Len(new) = m + 1 /\ new[m + 1] = x
        /\ \A k \in 1..m : new[k] = text[k]
    BY <2>5, <2>6, AppendParts
  <2> QED
    BY Zenon, <2>4, <2>7
<1>10. Body(heap, <<0>>) = <<>>
  <2>1. HeapOK(heap, own) /\ <<>> \in Seq(0..Len(heap)) /\ 0 \in 0..Len(heap)
    BY <1>5, SeqIsFunction DEF Rooted, HeapOK
  <2>2. Body(heap, <<0>>) = Said(heap, 0)
    BY <2>1, BodyAppend
  <2> QED
    BY <2>1, <2>2, NothingSaid
<1>11. TextIs(heap, unit, <<0>>, new)
  <2>1. <<0>> # <<>>
    OBVIOUS
  <2>2. new[m + 1].kind = "function" /\ new[m + 1].body = Body(heap, <<0>>)
    BY <1>2, <1>9, <1>10
  <2> QED
    BY <1>7, <1>9, <2>1, <2>2 DEF TextIs
<1>12. Written' /\ Shaped'
  BY <1>3, <1>6, <1>8, <1>11 DEF Written, Shaped
<1>13. Typed'
  BY <1>1, <1>3, <1>4, <1>8, <1>9 DEF Typed
<1> QED
  BY <1>12, <1>13 DEF ListInv

Ends(S, s, k, o, a, b) ==
  /\ o \in Seq(S) /\ Len(o) = k /\ (\A j \in 1..k : o[j] = s[j])
  /\ a \in S /\ b \in S /\ b = s[k + 2]
  /\ Append(o, a) \in Seq(S) /\ Append(o, b) \in Seq(S)
  /\ s = Append(Append(o, a), b)

\* The last two elements of a sequence.
LEMMA TwoLast ==
  ASSUME NEW S, NEW s \in Seq(S), NEW k \in Nat, Len(s) = k + 2
  PROVE  Ends(S, s, k, SubSeq(s, 1, k), s[k + 1], Last(s))
<1>1. PICK o, a, b : o = SubSeq(s, 1, k) /\ a = s[k + 1] /\ b = Last(s)
  OBVIOUS
<1>2. o \in Seq(S) /\ Len(o) = k /\ \A j \in 1..k : o[j] = s[j]
  BY <1>1, SubSeqProperties
<1>3. a \in S /\ b \in S /\ b = s[k + 2]
  <2>1. k + 1 \in 1..Len(s) /\ k + 2 \in 1..Len(s)
    OBVIOUS
  <2> QED
    BY <1>1, <2>1, SeqIsFunction DEF Last
<1>4. PICK t : t = Append(o, a)
  OBVIOUS
<1>5. t \in Seq(S) /\ Len(t) = k + 1 /\ t[k + 1] = a /\ \A j \in 1..k : t[j] = o[j]
  BY <1>2, <1>3, <1>4, AppendParts
<1>6. PICK c : c = Append(t, b)
  OBVIOUS
<1>7. c \in Seq(S) /\ Len(c) = k + 2 /\ c[k + 2] = b /\ \A j \in 1..k + 1 : c[j] = t[j]
  BY <1>3, <1>5, <1>6, AppendParts
<1>8. ASSUME NEW j \in 1..k + 2 PROVE s[j] = c[j]
  <2>1. CASE j \in 1..k
    <3>1. j \in 1..k + 1
      BY <2>1
    <3> QED
      BY <1>2, <1>5, <1>7, <2>1, <3>1
  <2>2. CASE j = k + 1
    <3>1. c[k + 1] = t[k + 1]
      BY <1>7
    <3> QED
      BY <1>5, <1>1, <2>2, <3>1
  <2>3. CASE j = k + 2
    BY <1>3, <1>7, <2>3
  <2>4. j \in 1..k \/ j = k + 1 \/ j = k + 2
    OBVIOUS
  <2> QED
    BY <2>1, <2>2, <2>3, <2>4
<1>9. s = c
  BY <1>7, <1>8, SeqEqual
<1>10. Append(o, b) \in Seq(S)
  BY <1>2, <1>3, AppendParts
<1> QED
  BY <1>2, <1>3, <1>4, <1>5, <1>6, <1>9, <1>10, <1>1 DEF Ends

\* Of two blocks one is left.
LEMMA OneOfTwo ==
  ASSUME NEW own, NEW h, NEW u, NEW bs, Rooted(own, h, u, bs),
         NEW k \in Nat, Len(bs) = k + 2, NEW o, o = SubSeq(bs, 1, k),
         NEW e \in {k + 1, k + 2}
  PROVE  Rooted(own, h, u, Append(o, bs[e]))
<1>1. bs \in Seq(0..Len(h))
  BY DEF Rooted
<1>2. PICK cs, x : cs = Append(o, x) /\ x = bs[e]
  OBVIOUS
<1>3. x \in 0..Len(h) /\ o \in Seq(0..Len(h)) /\ Len(o) = k /\ \A j \in 1..k : o[j] = bs[j]
  <2>1. e \in 1..Len(bs)
    OBVIOUS
  <2>2. Ends(0..Len(h), bs, k, o, bs[k + 1], Last(bs))
    BY <1>1, TwoLast
  <2>3. x \in 0..Len(h)
    BY <1>1, <1>2, <2>1, SeqIsFunction
  <2> QED
    BY <2>2, <2>3 DEF Ends
<1>4. /\ cs \in Seq(0..Len(h)) /\ Len(cs) = k + 1 /\ cs[k + 1] = x
      /\ \A j \in 1..k : cs[j] = o[j]
  BY <1>2, <1>3, AppendParts
<1>5. PICK f : f = [j \in 1..k + 1 |-> IF j = k + 1 THEN e ELSE j]
  OBVIOUS
<1>6. f \in [1..Len(cs) -> 1..Len(bs)]
  BY <1>4, <1>5
<1>7. \A j \in 1..Len(cs) : cs[j] = bs[f[j]]
  BY <1>2, <1>3, <1>4, <1>5
<1>8. \A i, j \in 1..Len(cs) : f[i] = f[j] => i = j
  BY <1>4, <1>5
<1>9. Rooted(own, h, u, cs)
  <2>1. Fewer(bs, cs, f)
    BY <1>6, <1>7, <1>8 DEF Fewer
  <2> QED
    BY <1>4, <2>1, BlockDropped
<1> QED
  BY <1>2, <1>9

\* The items of a block become items of the one around it.
LEMMA EndBlockKeeps ==
  ASSUME ListInv, EndBlock
  PROVE  ListInv'
<1>1. Typed /\ Written /\ Shaped
  BY DEF ListInv
<1>2. Len(blocks) > 1 /\ text' = text /\ unit' = unit /\ top' = top /\ tokens' = tokens
  BY DEF EndBlock
<1>3. PICK own : Rooted(own, heap, unit, blocks)
  BY <1>1 DEF Shaped
<1>4. blocks \in Seq(0..Len(heap)) /\ Len(blocks) \in Nat /\ HeapOK(heap, own)
  BY <1>3, SeqIsFunction DEF Rooted
<1>5. PICK k \in Nat : Len(blocks) = k + 2 /\ Len(blocks) - 2 = k /\ Len(blocks) - 1 = k + 1
  <2>1. Len(blocks) - 2 \in Nat
    BY <1>2, <1>4
  <2> QED
    BY <1>4, <2>1
<1>6. blocks # <<>>
  BY <1>5
<1>7. PICK o, a, b : o = SubSeq(blocks, 1, k) /\ a = blocks[k + 1] /\ b = Last(blocks)
  OBVIOUS
<1>8. PICK oa, ob : oa = Append(o, a) /\ ob = Append(o, b)
  OBVIOUS
<1>9. /\ o \in Seq(0..Len(heap)) /\ Len(o) = k /\ a \in 0..Len(heap) /\ b \in 0..Len(heap)
      /\ b = blocks[k + 2] /\ oa \in Seq(0..Len(heap)) /\ ob \in Seq(0..Len(heap))
      /\ blocks = Append(oa, b)
  <2>1. Ends(0..Len(heap), blocks, k, o, a, b)
    BY <1>4, <1>5, <1>7, TwoLast
  <2> QED
    BY Zenon, <1>8, <2>1 DEF Ends
<1>10. Rooted(own, heap, unit, oa) /\ Rooted(own, heap, unit, ob)
  <2>1. k + 1 \in {k + 1, k + 2} /\ k + 2 \in {k + 1, k + 2}
    OBVIOUS
  <2>2. Rooted(own, heap, unit, Append(o, blocks[k + 1]))
    BY <1>3, <1>5, <1>7, <2>1, OneOfTwo
  <2>3. Rooted(own, heap, unit, Append(o, blocks[k + 2]))
    BY <1>3, <1>5, <1>7, <2>1, OneOfTwo
  <2> QED
    BY <1>7, <1>8, <1>9, <2>2, <2>3
<1>11. oa # <<>> /\ ob # <<>>
  BY <1>8, <1>9, AppendParts
<1>12. AppendItem(heap, o, a, List(b))
  BY <1>5, <1>7 DEF EndBlock
<1>13. /\ Body(heap, blocks) = Body(heap, oa) \o Said(heap, b)
       /\ Body(heap, oa) = Body(heap, o) \o Said(heap, a)
       /\ Body(heap, ob) = Body(heap, o) \o Said(heap, b)
       /\ Body(heap, o) \in Seq(Names) /\ Said(heap, b) \in Seq(Names)
  <2>1. Body(heap, Append(oa, b)) = Body(heap, oa) \o Said(heap, b)
    BY <1>4, <1>9, BodyAppend
  <2>2. /\ Body(heap, Append(o, a)) = Body(heap, o) \o Said(heap, a)
        /\ Body(heap, o) \in Seq(Names)
    BY <1>4, <1>9, BodyAppend
  <2>3. Body(heap, Append(o, b)) = Body(heap, o) \o Said(heap, b)
    BY <1>4, <1>9, BodyAppend
  <2>4. Said(heap, b) \in Seq(Names)
    BY <1>4, <1>9, SaidIsSeq
  <2> QED
    BY Zenon, <1>8, <1>9, <2>1, <2>2, <2>3, <2>4
<1>14. tokens' \in 0..MaxTokens
  BY <1>1, <1>2 DEF Typed
<1>15. PICK x : x = List(b)
  OBVIOUS
<1>16. CASE a = 0 /\ b = 0
  <2>1. x = NoNode
    BY <1>15, <1>16 DEF List, NULL
  <2>2. phase' \in Phases /\ heap' = heap /\ blocks' = blocks
    BY <1>12, <1>15, <1>16, <2>1 DEF AppendItem, NULL, Phases
  <2> QED
    BY <1>2, <1>14, <2>2, SameKeeps
<1>17. CASE a = 0 /\ b # 0
  <2>1. x.kind = "LIST" /\ x.value = b /\ x # NoNode
    BY <1>15, <1>17 DEF List, AstNode, NULL, NoNode
  <2>2. PICK r : r = AstAppend(heap, a, x) /\ r.heap = heap /\ r.list = b
    <3>1. AstAppend(heap, a, x) = NewList(heap, x)
      BY <1>17, <2>1 DEF AstAppend, NULL
    <3>2. NewList(heap, x) = [heap |-> heap, list |-> b]
      BY <2>1 DEF NewList
    <3>3. PICK r : r = AstAppend(heap, a, x)
      OBVIOUS
    <3>4. r = [heap |-> heap, list |-> b]
      BY Zenon, <3>1, <3>2, <3>3
    <3> QED
      BY <3>3, <3>4
  <2>3. heap' = r.heap /\ blocks' = Append(o, r.list) /\ phase' = phase
    BY <1>12, <1>15, <2>1, <2>2, ItemAppended
  <2>4. Body(heap, ob) = Body(heap, blocks)
    <3>1. Said(heap, a) = <<>>
      BY <1>4, <1>17, NothingSaid
    <3>2. PICK s : s = Body(heap, o) /\ s \o <<>> = s
      BY <1>13
    <3> QED
      BY Zenon, <1>13, <3>1, <3>2
  <2>5. heap' = heap /\ blocks' = ob
    BY Zenon, <1>8, <2>2, <2>3
  <2> QED
    BY <1>2, <1>6, <1>10, <1>11, <1>14, <2>3, <2>4, <2>5, BlocksKeep
<1>18. CASE a # 0 /\ b = 0
  <2>1. x = NoNode
    BY <1>15, <1>18 DEF List, NULL
  <2>2. PICK r : r = AstAppend(heap, a, NoNode) /\ r.heap = heap /\ r.list = a
    <3>1. AstAppend(heap, a, NoNode) = [heap |-> heap, list |-> a]
      BY <1>18 DEF AstAppend, NULL
    <3> QED
      BY <3>1
  <2>3. heap' = r.heap /\ blocks' = Append(o, r.list) /\ phase' = phase
    BY <1>12, <1>15, <1>18, <2>1, <2>2 DEF AppendItem, NULL
  <2>4. Body(heap, oa) = Body(heap, blocks)
    <3>1. Body(heap, Append(oa, 0)) = Body(heap, oa)
      BY <1>10, BlockOpened
    <3> QED
      BY Zenon, <1>9, <1>18, <3>1
  <2>5. heap' = heap /\ blocks' = oa
    BY Zenon, <1>8, <2>2, <2>3
  <2> QED
    BY <1>2, <1>6, <1>10, <1>11, <1>14, <2>3, <2>4, <2>5, BlocksKeep
<1>19. CASE a # 0 /\ b # 0
  <2>1. x.kind = "LIST" /\ x.value = b /\ x # NoNode
    BY <1>15, <1>19 DEF List, AstNode, NULL, NoNode
  <2>2. PICK r : r = AstAppend(heap, a, x)
    OBVIOUS
  <2>3. /\ Len(r.heap) <= MaxNodes /\ heap' = r.heap /\ blocks' = Append(o, r.list)
        /\ phase' = phase
    BY <1>12, <1>15, <2>1, <2>2, ItemAppended
  <2>4. own[a] = a /\ own[b] = b /\ a \in 1..Len(heap) /\ b \in 1..Len(heap)
    <3>1. k + 1 \in 1..Len(blocks) /\ k + 2 \in 1..Len(blocks)
      BY <1>5
    <3>2. \A e \in 1..Len(blocks) : blocks[e] # 0 => own[blocks[e]] = blocks[e]
      BY <1>3 DEF Rooted
    <3>3. own[a] = a
      BY Zenon, <1>7, <1>19, <3>1, <3>2
    <3>4. own[b] = b
      BY Zenon, <1>9, <1>19, <3>1, <3>2
    <3>5. a \in 0..Len(heap) /\ b \in 0..Len(heap)
      BY Zenon, <1>9
    <3> QED
      BY <1>19, <3>3, <3>4, <3>5
  <2>5. PICK nodes : nodes = Items(heap, b)
    OBVIOUS
  <2>6. /\ nodes \in Seq(AstNodes) /\ Given(heap, x) = nodes
        /\ NamesOf(nodes) = Said(heap, b)
    <3>1. Given(heap, x) = nodes
      BY <1>4, <1>15, <2>4, <2>5, GivenIsSeq
    <3>2. nodes \in Seq(AstNodes)
      BY <1>4, <1>9, <2>5, SaidIsSeq
    <3>3. NamesOf(nodes) = Said(heap, b)
      BY <2>5 DEF Said
    <3> QED
      BY <3>1, <3>2, <3>3
  <2>7. PICK owg : Joined(heap, own, a, x, r, owg)
    <3>1. Joins(heap, own, a, x)
      BY <1>15, <2>4 DEF Joins
    <3> QED
      BY <1>4, <2>2, <3>1, AstAppendKeeps
  <2>8. Grown(heap, own, a, nodes, r, owg)
    BY <1>19, <2>6, <2>7 DEF Grown, Joined, Whole
  <2>9. Innermost(heap, oa, o, a)
    BY <1>8, <1>9 DEF Innermost
  <2>10. \A j \in 1..Len(nodes) : ValueOK(own, heap, unit, oa, nodes[j].value)
    <3>1. \A j \in 1..Len(Items(heap, b)) :
             ValueOK(own, heap, unit, oa, Items(heap, b)[j].value)
      BY <1>9, <1>10, ItemValue
    <3> QED
      BY Zenon, <2>5, <3>1
  <2>11. Rooted(owg, r.heap, unit, Append(o, r.list))
    BY <1>10, <2>6, <2>8, <2>9, <2>10, ItemRooted
  <2>12. /\ TextIs(r.heap, unit, Append(o, r.list), text)
         /\ unit # 0 => r.heap[unit] = heap[unit]
    <3>1. Says(text, text, Body(heap, oa) \o NamesOf(nodes))
      <4>1. text \in Texts /\ text[Len(text)].body = Body(heap, blocks)
        BY <1>1, <1>6, OpenFunction
      <4>2. Body(heap, oa) \o NamesOf(nodes) = Body(heap, blocks)
        BY Zenon, <1>13, <2>6
      <4> QED
        BY <4>1, <4>2 DEF Says
    <3>2. ItemStep(own, heap, unit, oa, o, a, nodes, r, owg)
      BY <1>10, <2>6, <2>8, <2>9 DEF ItemStep
    <3>3. TextIs(heap, unit, blocks, text)
      BY <1>1 DEF Written
    <3> QED
      BY <1>6, <3>1, <3>2, <3>3, ItemText
  <2>13. Written' /\ Shaped'
    BY <1>2, <2>3, <2>11, <2>12 DEF Written, Shaped
  <2>14. Typed'
    BY <1>1, <1>2, <1>14, <2>3, <2>12 DEF Typed
  <2> QED
    BY <2>13, <2>14 DEF ListInv
<1> QED
  BY <1>16, <1>17, <1>18, <1>19

-----------------------------------------------------------------------------
\* r is the list of the file with nodes behind it, and new the text with what they are.
ExternalStep(own, h, u, bs, nodes, r, owg) ==
  /\ Rooted(own, h, u, bs) /\ nodes \in Seq(AstNodes) /\ Grown(h, own, u, nodes, r, owg)
  /\ \A k \in 1..Len(nodes) : ValueOK(own, h, u, <<>>, nodes[k].value)

\* Whatever is appended to the file, the invariant holds again.
LEMMA ExternalKeeps ==
  ASSUME NEW own, NEW bs, NEW nodes, NEW r, NEW owg,
         ExternalStep(own, heap, unit, bs, nodes, r, owg), Typed,
         Len(r.heap) <= MaxNodes, heap' = r.heap, unit' = r.list, top' = r.heap[r.list],
         blocks' = <<>>, phase' = phase, tokens' \in 0..MaxTokens, text' \in Texts,
         Continues(heap, unit, nodes, text')
  PROVE  ListInv'
<1>1. /\ Rooted(own, heap, unit, bs) /\ nodes \in Seq(AstNodes)
      /\ Grown(heap, own, unit, nodes, r, owg)
      /\ \A k \in 1..Len(nodes) : ValueOK(own, heap, unit, <<>>, nodes[k].value)
  BY DEF ExternalStep
<1>2. Rooted(owg, r.heap, r.list, <<>>)
  BY <1>1, ExternalRooted
<1>3. PICK new : new = text'
  OBVIOUS
<1>4. TextIs(r.heap, r.list, <<>>, new)
  <2>1. Continues(heap, unit, nodes, new)
    BY <1>3
  <2> QED
    BY <1>1, <2>1, ExternalText
<1>5. Written' /\ Shaped'
  BY <1>2, <1>3, <1>4 DEF Written, Shaped
<1>6. Typed'
  BY <1>3 DEF Typed
<1> QED
  BY <1>5, <1>6 DEF ListInv

\* What AppendExternal changes.
LEMMA ExternalAppended ==
  ASSUME NEW h, NEW node, AppendExternal(h, node), NEW r, r = AstAppend(h, unit, node)
  PROVE  /\ Len(r.heap) <= MaxNodes /\ heap' = r.heap /\ unit' = r.list
         /\ top' = r.heap[r.list]
  BY DEF AppendExternal, Top

\* The entry of a declaration without a body.
LEMMA DeclarationEntry ==
  ASSUME NEW h, NEW own, HeapOK(h, own), NEW x, x.value = 0
  PROVE  Entry(h, x) = [kind |-> x.kind, id |-> x.id, body |-> <<>>]
<1>1. Said(h, x.value) = <<>>
  BY NothingSaid
<1> QED
  BY Zenon, <1>1 DEF Entry

\* A declaration at file scope.
LEMMA DeclarationKeeps ==
  ASSUME ListInv, NEW kinds \in Declarators, Declaration(kinds)
  PROVE  ListInv'
<1>1. Typed /\ Written /\ Shaped
  BY DEF ListInv
<1>2. PICK decls : decls = [k \in DOMAIN kinds |->
                              [kind |-> kinds[k], id |-> Position + k - 1, body |-> <<>>]]
  OBVIOUS
<1>3. /\ tokens \in Nat /\ tokens' = tokens + Len(kinds) /\ tokens + Len(kinds) <= MaxTokens
      /\ blocks = <<>> /\ blocks' = blocks /\ phase' = phase /\ text' = text \o decls
  BY <1>1, <1>2, BoundsAssumption DEF Typed, Declaration, InFunction
<1>4. PICK n \in 1..2 : kinds \in [1..n -> DeclarationKinds]
  <2>1. CASE kinds = <<"tag">>
    BY <2>1 DEF DeclarationKinds
  <2>2. CASE kinds # <<"tag">>
    <3>1. PICK n \in 1..2 : kinds \in [1..n -> {"variable", "prototype"}]
      BY <2>2 DEF Declarators
    <3>2. {"variable", "prototype"} \subseteq DeclarationKinds
      BY DEF DeclarationKinds
    <3> QED
      BY <3>1, <3>2
  <2> QED
    BY <2>1, <2>2
<1>5. PICK nodes : /\ nodes = NodesFor(kinds)
                   /\ nodes = [k \in DOMAIN kinds |-> AstNode(kinds[k], Position + k - 1, NULL)]
  BY DEF NodesFor
<1>6. /\ nodes \in Seq(AstNodes) /\ Len(nodes) = n /\ Len(kinds) = n /\ Len(nodes) >= 1
      /\ \A k \in 1..n : /\ nodes[k].value = 0 /\ nodes[k].kind = kinds[k]
                         /\ nodes[k].id = Position + k - 1
  <2>1. kinds \in [1..n -> StatementKinds \cup DeclarationKinds]
    BY <1>4
  <2>2. AreNodesFor(kinds, n, nodes)
    BY <1>3, <1>5, <2>1, NodesOfKinds
  <2> QED
    BY <2>2 DEF AreNodesFor
<1>7. PICK own : Rooted(own, heap, unit, blocks)
  BY <1>1 DEF Shaped
<1>8. HeapOK(heap, own) /\ unit \in 0..Len(heap) /\ (unit # 0 => own[unit] = unit)
  BY <1>7 DEF Rooted
<1>9. \E r, owg : /\ Grown(heap, own, unit, nodes, r, owg)
                  /\ Len(r.heap) <= MaxNodes /\ heap' = r.heap /\ unit' = r.list
                  /\ top' = r.heap[r.list]
  <2>1. CASE kinds = <<"tag">>
    <3>1. n = 1
      BY <1>6, <2>1
    <3>2. PICK x : x = nodes[1] /\ x \in AstNodes
      <4>1. 1 \in 1..n
        BY <3>1
      <4> QED
        BY <1>6, <4>1, SeqIsFunction
    <3>3. nodes = <<x>>
      <4>1. <<x>> \in Seq(AstNodes) /\ Len(<<x>>) = 1 /\ <<x>>[1] = x
        BY <3>2
      <4>2. \A k \in 1..1 : nodes[k] = <<x>>[k]
        BY <3>2
      <4> QED
        BY <1>6, <3>1, <4>1, <4>2, SeqEqual
    <3>4. AppendExternal(heap, x)
      BY <1>5, <2>1, <3>2 DEF Declaration
    <3>5. PICK r : r = AstAppend(heap, unit, x)
      OBVIOUS
    <3>6. PICK owg : Grown(heap, own, unit, <<x>>, r, owg)
      BY <1>8, <3>2, <3>5, NodeAppended
    <3>7. /\ Len(r.heap) <= MaxNodes /\ heap' = r.heap /\ unit' = r.list
          /\ top' = r.heap[r.list]
      BY <3>4, <3>5, ExternalAppended
    <3> QED
      BY <3>3, <3>6, <3>7
  <2>2. CASE kinds # <<"tag">>
    <3>1. PICK f, x : f = ListOf(heap, nodes) /\ x = List(f.list)
      OBVIOUS
    <3>2. AppendExternal(f.heap, x)
      BY <1>5, <2>2, <3>1 DEF Declaration
    <3>3. PICK r : r = AstAppend(f.heap, unit, x)
      OBVIOUS
    <3>4. PICK owg : Grown(heap, own, unit, nodes, r, owg)
      <4>1. \E owg : Grown(heap, own, unit, nodes, AstAppend(ListOf(heap, nodes).heap, unit,
                                                        List(ListOf(heap, nodes).list)), owg)
        BY <1>6, <1>8, ListAppended
      <4> QED
        BY <3>1, <3>3, <4>1
    <3>5. /\ Len(r.heap) <= MaxNodes /\ heap' = r.heap /\ unit' = r.list
          /\ top' = r.heap[r.list]
      BY <3>2, <3>3, ExternalAppended
    <3> QED
      BY <3>4, <3>5
  <2> QED
    BY <2>1, <2>2
<1>10. PICK r, owg : /\ Grown(heap, own, unit, nodes, r, owg)
                     /\ Len(r.heap) <= MaxNodes /\ heap' = r.heap /\ unit' = r.list
                     /\ top' = r.heap[r.list]
  BY <1>9
<1>11. PICK m \in Nat : /\ m = Len(text) /\ m = Len(Items(heap, unit)) /\ text \in Texts
                        /\ \A k \in 1..m : text[k] = Entry(heap, Items(heap, unit)[k])
  BY <1>1, <1>3, NoFunction
<1>12. PICK E : E = [kind : DeclarationKinds, id : Nat, body : Seq(Names)] /\ Texts = Seq(E)
  BY DEF Texts
<1>13. \A k \in 1..n : decls[k] = [kind |-> kinds[k], id |-> Position + k - 1, body |-> <<>>]
  BY <1>2, <1>4
<1>14. decls \in Seq(E) /\ Len(decls) = n
  <2>1. decls = [k \in 1..n |-> decls[k]]
    BY <1>2, <1>4
  <2>2. ASSUME NEW k \in 1..n PROVE decls[k] \in E
    <3>1. PICK a, b, c : a = kinds[k] /\ b = Position + k - 1 /\ c = <<>>
      OBVIOUS
    <3>2. a \in DeclarationKinds
      BY <1>4, <3>1
    <3>3. b \in Nat /\ c \in Seq(Names)
      BY <1>3, <3>1 DEF Position
    <3>4. decls[k] = [kind |-> a, id |-> b, body |-> c]
      BY Zenon, <1>13, <3>1
    <3> QED
      BY <1>12, <3>2, <3>3, <3>4
  <2>3. n \in Nat /\ \A k \in 1..n : decls[k] \in E
    BY <2>2
  <2> QED
    BY <2>1, <2>3, FunctionIsSeq
<1>15. PICK new : new = text'
  OBVIOUS
<1>16. /\ new \in Seq(E) /\ Len(new) = m + n
       /\ (\A k \in 1..m : new[k] = text[k]) /\ \A k \in 1..n : new[m + k] = decls[k]
  <2>1. text \in Seq(E) /\ new = text \o decls
    BY <1>3, <1>11, <1>12, <1>15
  <2>2. /\ new \in Seq(E) /\ Len(new) = Len(text) + Len(decls)
        /\ \A k \in 1..Len(text) : new[k] = text[k]
        /\ \A k \in 1..Len(decls) : new[Len(text) + k] = decls[k]
    BY <1>14, <2>1, ConcatParts
  <2> QED
    BY <1>11, <1>14, <2>2
<1>17. Continues(heap, unit, nodes, new)
  <2>1. ASSUME NEW k \in 1..n PROVE new[m + k] = Entry(heap, nodes[k])
    <3>1. Entry(heap, nodes[k]) = [kind |-> nodes[k].kind, id |-> nodes[k].id, body |-> <<>>]
      BY <1>6, <1>8, DeclarationEntry
    <3>2. nodes[k].kind = kinds[k] /\ nodes[k].id = Position + k - 1
      BY <1>6
    <3> QED
      BY Zenon, <1>13, <1>16, <3>1, <3>2
  <2> QED
    BY <1>6, <1>11, <1>16, <2>1 DEF Continues
<1>18. ExternalStep(own, heap, unit, blocks, nodes, r, owg)
  <2>1. \A k \in 1..Len(nodes) : ValueOK(own, heap, unit, <<>>, nodes[k].value)
    BY <1>6 DEF ValueOK
  <2> QED
    BY <1>6, <1>7, <1>10, <2>1 DEF ExternalStep
<1>19. tokens' \in 0..MaxTokens
  BY <1>3, <1>6, BoundsAssumption
<1>20. text' \in Texts /\ Continues(heap, unit, nodes, text')
  BY Zenon, <1>12, <1>15, <1>16, <1>17
<1> QED
  BY <1>1, <1>3, <1>10, <1>18, <1>19, <1>20, ExternalKeeps

\* A function definition is read.
LEMMA EndFunctionKeeps ==
  ASSUME ListInv, EndFunction
  PROVE  ListInv'
<1>1. Typed /\ Written /\ Shaped
  BY DEF ListInv
<1>2. Len(blocks) = 1 /\ text' = text /\ blocks' = <<>> /\ tokens' = tokens /\ phase' = phase
  BY DEF EndFunction
<1>3. blocks # <<>>
  BY <1>2
<1>4. PICK own : Rooted(own, heap, unit, blocks)
  BY <1>1 DEF Shaped
<1>5. /\ HeapOK(heap, own) /\ unit \in 0..Len(heap) /\ (unit # 0 => own[unit] = unit)
      /\ blocks \in Seq(0..Len(heap))
  BY <1>4 DEF Rooted
<1>6. PICK m \in Nat : /\ Len(text) = m + 1 /\ m = Len(Items(heap, unit)) /\ text \in Texts
                       /\ text[m + 1].kind = "function" /\ text[m + 1].body = Body(heap, blocks)
                       /\ \A k \in 1..m : text[k] = Entry(heap, Items(heap, unit)[k])
  <2>1. PICK m \in Nat :
          /\ Len(text) = m + (IF blocks = <<>> THEN 0 ELSE 1)
          /\ Len(Items(heap, unit)) = m
          /\ \A k \in 1..m : text[k] = Entry(heap, Items(heap, unit)[k])
          /\ blocks # <<>> => text[m + 1].kind = "function" /\ text[m + 1].body = Body(heap, blocks)
    BY <1>1 DEF Written, TextIs
  <2> QED
    BY <1>1, <1>3, <2>1 DEF Typed
<1>7. PICK l : l = Last(blocks) /\ l = blocks[1] /\ l \in 0..Len(heap)
  <2>1. Last(blocks) = blocks[1]
    BY <1>2 DEF Last
  <2>2. blocks[1] \in 0..Len(heap)
    <3>1. blocks \in Seq(0..Len(heap)) /\ 1 \in 1..Len(blocks)
      BY <1>2, <1>5
    <3>2. PICK S : S = 0..Len(heap)
      OBVIOUS
    <3> QED
      BY <3>1, <3>2, SeqIsFunction
  <2> QED
    BY <2>1, <2>2
<1>8. blocks = <<l>>
  <2>1. <<l>> \in Seq(0..Len(heap)) /\ Len(<<l>>) = 1 /\ <<l>>[1] = l
    BY <1>7
  <2>2. \A k \in 1..1 : blocks[k] = <<l>>[k]
    BY <1>7
  <2> QED
    BY <1>2, <1>5, <2>1, <2>2, SeqEqual
<1>9. PICK x : x = AstNode("function", text[Len(text)].id, l)
  OBVIOUS
<1>10. PICK e : /\ e = text[m + 1] /\ e = [kind |-> e.kind, id |-> e.id, body |-> e.body]
                /\ e.id \in Nat
  <2>1. m + 1 \in 1..Len(text)
    BY <1>6
  <2>2. text[m + 1] \in [kind : DeclarationKinds, id : Nat, body : Seq(Names)]
    BY <1>6, <2>1, SeqIsFunction DEF Texts
  <2> QED
    BY <2>2
<1>11. x.kind = "function" /\ x.id = e.id /\ x.value = l /\ x \in AstNodes
  <2>1. x = [kind |-> "function", id |-> e.id, value |-> l]
    BY <1>6, <1>9, <1>10 DEF AstNode
  <2>2. l \in Nat /\ "function" \in DeclarationKinds
    BY <1>5, <1>7, SeqIsFunction DEF DeclarationKinds, HeapOK
  <2> QED
    BY <1>10, <2>1, <2>2 DEF AstNodes
<1>12. Entry(heap, x) = e
  <2>1. <<>> \in Seq(0..Len(heap))
    OBVIOUS
  <2>2. Body(heap, <<l>>) = Said(heap, l)
    BY <1>5, <1>7, <2>1, BodyAppend
  <2>3. e.kind = "function" /\ e.body = Said(heap, l)
    BY <1>6, <1>8, <1>10, <2>2
  <2> QED
    BY Zenon, <1>10, <1>11, <2>3 DEF Entry
<1>13. AppendExternal(heap, x)
  BY <1>7, <1>9 DEF EndFunction
<1>14. PICK r : r = AstAppend(heap, unit, x)
  OBVIOUS
<1>15. /\ Len(r.heap) <= MaxNodes /\ heap' = r.heap /\ unit' = r.list
       /\ top' = r.heap[r.list]
  BY <1>13, <1>14, ExternalAppended
<1>16. PICK nodes : nodes = <<x>> /\ nodes \in Seq(AstNodes) /\ Len(nodes) = 1 /\ nodes[1] = x
  <2>1. PICK y : y = x /\ y \in AstNodes
    BY <1>11
  <2>2. <<y>> \in Seq(AstNodes) /\ Len(<<y>>) = 1 /\ <<y>>[1] = y
    BY <2>1
  <2> QED
    BY <2>1, <2>2
<1>17. PICK owg : Grown(heap, own, unit, nodes, r, owg)
  BY <1>5, <1>11, <1>14, <1>16, NodeAppended
<1>18. ValueOK(own, heap, unit, <<>>, l)
  <2>1. 1 \in 1..Len(blocks)
    BY <1>2
  <2>2. l # 0 => own[l] = l /\ l # unit
    BY <1>4, <1>7, <2>1 DEF Rooted
  <2> QED
    BY <1>7, <2>2 DEF ValueOK
<1>19. ExternalStep(own, heap, unit, blocks, nodes, r, owg)
  BY <1>4, <1>11, <1>16, <1>17, <1>18 DEF ExternalStep
<1>20. Continues(heap, unit, nodes, text)
  BY <1>6, <1>10, <1>12, <1>16 DEF Continues
<1>21. tokens' \in 0..MaxTokens /\ text' \in Texts /\ Continues(heap, unit, nodes, text')
  BY <1>1, <1>2, <1>20 DEF Typed
<1> QED
  BY <1>1, <1>2, <1>15, <1>19, <1>21, ExternalKeeps

-----------------------------------------------------------------------------
\* The empty file.
LEMMA ListInvInit ==
  ASSUME Init
  PROVE  ListInv
<1>1. /\ phase = "parse" /\ text = <<>> /\ heap = <<>> /\ unit = 0 /\ blocks = <<>> /\ tokens = 0
  BY DEF Init, NULL
<1>2. PICK own : own = [i \in 1..0 |-> i]
  OBVIOUS
<1>3. HeapOK(<<>>, own)
  <2>1. <<>> \in Seq(ListNodes) /\ Len(<<>>) = 0
    OBVIOUS
  <2> QED
    BY <1>2, <2>1 DEF HeapOK
<1>4. Rooted(own, <<>>, 0, <<>>)
  <2>1. <<>> \in Seq(0..Len(<<>>)) /\ Len(<<>>) = 0 /\ 0 \in 0..Len(<<>>)
    OBVIOUS
  <2> QED
    BY <1>3, <2>1 DEF Rooted
<1>5. TextIs(<<>>, 0, <<>>, <<>>)
  <2>1. Items(<<>>, 0) = <<>> /\ Len(<<>>) = 0
    BY <1>3, ItemsOfList
  <2> QED
    BY <2>1 DEF TextIs
<1>6. Written /\ Shaped
  BY <1>1, <1>4, <1>5 DEF Written, Shaped
<1>7. Typed
  <2>1. <<>> \in Texts /\ Len(<<>>) = 0
    BY DEF Texts
  <2> QED
    BY <1>1, <2>1, BoundsAssumption DEF Typed, Phases
<1> QED
  BY <1>6, <1>7 DEF ListInv

\* Every action of Next keeps the invariant, and so does a stutter.
LEMMA ListInvStep ==
  ASSUME ListInv, [Next]_vars
  PROVE  ListInv'
<1>1. ASSUME NEW kinds \in Declarators, Declaration(kinds) PROVE ListInv'
  BY <1>1, DeclarationKeeps
<1>2. CASE BeginFunction
  BY <1>2, BeginFunctionKeeps
<1>3. ASSUME NEW kinds \in Expressions \cup {<<"return">>}, Statement(kinds) PROVE ListInv'
  BY <1>3, StatementKeeps
<1>4. CASE EmptyStatement
  BY <1>4, EmptyStatementKeeps
<1>5. CASE BeginBlock
  BY <1>5, BeginBlockKeeps
<1>6. CASE EndBlock
  BY <1>6, EndBlockKeeps
<1>7. CASE EndFunction
  BY <1>7, EndFunctionKeeps
<1>8. ASSUME UNCHANGED Read, phase' \in Phases PROVE ListInv'
  <2>1. tokens \in 0..MaxTokens
    BY DEF ListInv, Typed
  <2>2. /\ heap' = heap /\ blocks' = blocks /\ text' = text
        /\ unit' = unit /\ top' = top /\ tokens' = tokens
    BY <1>8 DEF Read
  <2> QED
    BY <1>8, <2>1, <2>2, SameKeeps
<1>9. phase \in Phases
  BY DEF ListInv, Typed
<1>10. CASE BeginBuild
  BY <1>8, <1>10 DEF BeginBuild, Read, Phases
<1>11. CASE BuildExternal
  BY <1>8, <1>9, <1>11 DEF BuildExternal, Phases
<1>12. CASE PrintSymbols
  BY <1>8, <1>9, <1>12 DEF PrintSymbols
<1>13. CASE PrintFunction
  BY <1>8, <1>9, <1>13 DEF PrintFunction
<1>14. CASE EndPrint
  BY <1>8, <1>14 DEF EndPrint, Phases
<1>15. CASE UNCHANGED vars
  BY <1>8, <1>9, <1>15 DEF vars, Read
<1> QED
  BY <1>1, <1>2, <1>3, <1>4, <1>5, <1>6, <1>7, <1>10, <1>11, <1>12, <1>13, <1>14, <1>15 DEF Next

-----------------------------------------------------------------------------
\* The invariant implies the types ...
LEMMA ListInvType ==
  ASSUME ListInv
  PROVE  TypeOK
<1>1. PICK own : Rooted(own, heap, unit, blocks)
  BY DEF ListInv, Shaped
<1>2. PICK n \in Nat : /\ n = Len(heap) /\ DOMAIN heap = 1..n
                       /\ heap \in Seq(ListNodes) /\ HeapOK(heap, own)
  <2>1. HeapOK(heap, own) /\ heap \in Seq(ListNodes)
    BY <1>1 DEF Rooted, HeapOK
  <2>2. Len(heap) \in Nat /\ DOMAIN heap = 1..Len(heap)
    BY <2>1, SeqIsFunction
  <2> QED
    BY <2>1, <2>2
<1>3. ASSUME NEW i \in 1..n
      PROVE  /\ heap[i].node.kind \in StatementKinds \cup DeclarationKinds
             /\ heap[i].next \in 0..n /\ heap[i].end \in 1..n
  <2>1. heap[i] \in ListNodes
    BY <1>2, SeqIsFunction
  <2>2. heap[i].node.kind \in StatementKinds \cup DeclarationKinds
    BY <2>1 DEF ListNodes, AstNodes
  <2>3. heap[i].next \in Nat
    BY <2>1 DEF ListNodes
  <2>4. /\ heap[i].next # 0 => heap[i].next \in i + 1..n
        /\ heap[i].end \in 1..n
    BY <1>2 DEF HeapOK
  <2>5. heap[i].next \in 0..n
    BY <2>3, <2>4
  <2> QED
    BY <2>2, <2>4, <2>5
<1>4. Range(blocks) \subseteq 0..n
  <2>1. blocks \in Seq(0..n)
    BY <1>1, <1>2 DEF Rooted
  <2>2. \A b \in DOMAIN blocks : blocks[b] \in 0..n
    BY <2>1, SeqIsFunction
  <2> QED
    BY <2>2 DEF Range
<1>5. unit \in 0..n
  BY <1>1, <1>2 DEF Rooted
<1> QED
  BY <1>2, <1>3, <1>4, <1>5 DEF TypeOK, ListInv, Typed, Phases

\* ... that end is the last node of every list ...
LEMMA ListInvEnd ==
  ASSUME ListInv
  PROVE  EndIsLast
<1>1. PICK own : Rooted(own, heap, unit, blocks)
  BY DEF ListInv, Shaped
<1>2. HeapOK(heap, own)
  BY <1>1 DEF Rooted
<1>3. PICK n \in Nat : n = Len(heap) /\ DOMAIN heap = 1..n
  BY <1>2, SeqIsFunction DEF HeapOK
<1>4. SUFFICES ASSUME NEW list \in Lists PROVE heap[list].end = Last(Chain(heap, list))
  BY DEF EndIsLast
<1>5. list # 0
  BY DEF Lists, NULL
<1>6. list \in 1..n /\ own[list] = list
  <2>1. CASE list = unit
    BY <1>1, <1>3, <1>5, <2>1 DEF Rooted
  <2>2. CASE list \in Range(blocks)
    <3>1. blocks \in Seq(0..n)
      BY <1>1, <1>3 DEF Rooted
    <3>2. PICK b \in 1..Len(blocks) : list = blocks[b] /\ blocks[b] \in 0..n
      BY <2>2, <3>1, SeqIsFunction DEF Range
    <3>3. blocks[b] # 0 => own[blocks[b]] = blocks[b]
      BY <1>1 DEF Rooted
    <3> QED
      BY <1>5, <3>2, <3>3
  <2>3. CASE list \in {heap[i].node.value : i \in DOMAIN heap}
    <3>1. PICK i \in 1..n : list = heap[i].node.value
      BY <1>3, <2>3
    <3>2. ValueOK(own, heap, unit, blocks, list)
      BY <1>1, <1>3, <3>1 DEF Rooted
    <3> QED
      BY <1>3, <1>5, <3>2 DEF ValueOK
  <2> QED
    BY <2>1, <2>2, <2>3 DEF Lists
<1> QED
  BY <1>2, <1>3, <1>6, EndOfChain

\* main's copy of the first node is a list of the same items.
LEMMA CopyIsList ==
  ASSUME NEW h, NEW own, HeapOK(h, own), NEW u \in 1..Len(h)
  PROVE  Items(Append(h, h[u]), Len(h) + 1) = Items(h, u)
<1>1. PICK n \in Nat : n = Len(h) /\ DOMAIN h = 1..n /\ h \in Seq(ListNodes) /\ h[u] \in ListNodes
  BY SeqIsFunction DEF HeapOK
<1>2. PICK g : g = Append(h, h[u])
  OBVIOUS
<1>3. /\ g \in Seq(ListNodes) /\ Len(g) = n + 1 /\ g[n + 1] = h[u]
      /\ \A i \in 1..n : g[i] = h[i]
  BY <1>1, <1>2, AppendParts
<1>4. \A i \in 1..n : h[i].next \in Nat /\ (h[i].next # 0 => h[i].next \in i + 1..n)
  <2>1. \A i \in 1..n : h[i] \in ListNodes
    BY <1>1, SeqIsFunction
  <2>2. \A i \in 1..n : h[i].next \in Nat
    BY <2>1 DEF ListNodes
  <2> QED
    BY <1>1, <2>2 DEF HeapOK
<1>5. PICK rank :
         rank = [i \in 0..n + 1 |-> IF i = 0 THEN 0 ELSE IF i = n + 1 THEN n + 1 ELSE n + 1 - i]
  OBVIOUS
<1>6. Followed(g)
  <2>1. rank \in [0..Len(g) -> 0..n + 1]
    BY <1>3, <1>5
  <2>2. ASSUME NEW i \in 1..n + 1 PROVE g[i].next \in 0..n + 1 /\ rank[g[i].next] < rank[i]
    <3>1. CASE i \in 1..n
      <4>1. PICK q : q = g[i].next /\ q \in Nat /\ (q # 0 => q \in i + 1..n)
        BY <1>3, <1>4, <3>1
      <4>2. rank[i] = n + 1 - i
        BY <1>5, <3>1
      <4>3. CASE q = 0
        BY <1>5, <3>1, <4>1, <4>2, <4>3
      <4>4. CASE q # 0
        BY <1>5, <3>1, <4>1, <4>2, <4>4
      <4> QED
        BY <4>3, <4>4
    <3>2. CASE i = n + 1
      <4>1. PICK q : q = g[i].next /\ q \in Nat /\ (q # 0 => q \in u + 1..n)
        BY <1>1, <1>3, <1>4, <3>2
      <4>2. rank[i] = n + 1
        BY <1>5, <3>2
      <4>3. CASE q = 0
        BY <1>5, <3>2, <4>1, <4>2, <4>3
      <4>4. CASE q # 0
        BY <1>1, <1>5, <3>2, <4>1, <4>2, <4>4
      <4> QED
        BY <4>3, <4>4
    <3> QED
      BY <3>1, <3>2
  <2>3. Falls(g, rank)
    BY <1>3, <2>2 DEF Falls
  <2>4. n + 1 \in Nat
    OBVIOUS
  <2> QED
    BY <1>3, <2>1, <2>3, <2>4, ChainEquation
<1>7. PICK c : c = Chain(h, u)
  OBVIOUS
<1>8. Path(h, u, c)
  BY <1>7, ChainIsPath
<1>9. PICK l \in Nat : /\ l = Len(c) /\ l >= 1 /\ c[1] = u /\ c = [k \in 1..l |-> c[k]]
                       /\ \A k \in 1..l : c[k] \in 1..n
  <2>1. c \in Seq(1..n) /\ Len(c) >= 1 /\ c[1] = u
    BY <1>1, <1>8 DEF Path
  <2>2. Len(c) \in Nat /\ c = [k \in 1..Len(c) |-> c[k]]
    BY <2>1, SeqIsFunction
  <2>3. \A k \in 1..Len(c) : c[k] \in 1..n
    BY <2>1, SeqIsFunction
  <2> QED
    BY <2>1, <2>2, <2>3
<1>10. \A k \in 1..l : h[c[k]].next = IF k = l THEN 0 ELSE c[k + 1]
  BY <1>8, <1>9 DEF Path
<1>11. PICK d : d = [k \in 1..l |-> IF k = 1 THEN n + 1 ELSE c[k]]
  OBVIOUS
<1>12. d \in Seq(1..n + 1) /\ Len(d) = l
  <2>1. d = [k \in 1..l |-> d[k]]
    BY <1>11
  <2>2. ASSUME NEW k \in 1..l PROVE d[k] \in 1..n + 1
    <3>1. PICK a : a = c[k] /\ a \in 1..n
      BY <1>9
    <3>2. d[k] = IF k = 1 THEN n + 1 ELSE a
      BY <1>11, <3>1
    <3>3. a \in 1..n + 1 /\ n + 1 \in 1..n + 1
      BY <1>1, <3>1
    <3> QED
      BY <3>2, <3>3
  <2>3. PICK S : S = 1..n + 1
    OBVIOUS
  <2>4. \A k \in 1..l : d[k] \in S
    BY <2>2, <2>3
  <2> QED
    BY <2>1, <2>3, <2>4, FunctionIsSeq
<1>13. ASSUME NEW k \in 1..l PROVE g[d[k]] = h[c[k]]
  BY <1>3, <1>9, <1>11
<1>14. Path(g, n + 1, d)
  <2>1. d[1] = n + 1
    BY <1>9, <1>11
  <2>2. ASSUME NEW k \in 1..l PROVE g[d[k]].next = IF k = l THEN 0 ELSE d[k + 1]
    <3>1. g[d[k]].next = IF k = l THEN 0 ELSE c[k + 1]
      BY <1>10, <1>13
    <3>2. CASE k = l
      BY <3>1, <3>2
    <3>3. CASE k # l
      <4>1. k + 1 \in 1..l /\ k + 1 # 1
        BY <3>3
      <4>2. d[k + 1] = c[k + 1]
        BY <1>11, <4>1
      <4> QED
        BY <3>1, <3>3, <4>2
    <3> QED
      BY <3>2, <3>3
  <2> QED
    BY <1>3, <1>9, <1>12, <2>1, <2>2 DEF Path
<1>15. Chain(g, n + 1) = d
  <2>1. n + 1 \in 1..Len(g)
    BY <1>3
  <2> QED
    BY <1>3, <1>6, <1>14, <2>1, PathIsChain
<1>16. /\ Items(g, n + 1) = [k \in 1..l |-> g[d[k]].node]
       /\ Items(h, u) = [k \in 1..l |-> h[c[k]].node]
  <2>1. DOMAIN d = 1..l /\ DOMAIN c = 1..l
    BY <1>9, <1>11
  <2>2. Items(g, n + 1) = [k \in DOMAIN d |-> g[d[k]].node]
    BY <1>15 DEF Items
  <2>3. Items(h, u) = [k \in DOMAIN c |-> h[c[k]].node]
    BY <1>7 DEF Items
  <2> QED
    BY <2>1, <2>2, <2>3
<1>17. [k \in 1..l |-> g[d[k]].node] = [k \in 1..l |-> h[c[k]].node]
  BY <1>13
<1> QED
  BY <1>1, <1>2, <1>16, <1>17

\* ... and that the list main has, which begins with a copy of the first node, is the file.
LEMMA ListInvWhole ==
  ASSUME ListInv
  PROVE  TopIsWhole
<1>1. SUFFICES ASSUME blocks = <<>>, unit # 0
               PROVE  LET items == ItemsOf(Append(heap, top), List(Len(heap) + 1))
                      IN  [k \in DOMAIN items |-> Entry(heap, items[k])] = text
  <2>1. \A x : Entry(heap, x) =
          [kind |-> x.kind, id |-> x.id,
           body |-> LET body == Items(heap, x.value)
                    IN  [j \in DOMAIN body |-> [kind |-> body[j].kind, id |-> body[j].id]]]
    BY DEF Entry, Said, NamesOf
  <2> QED
    BY <2>1 DEF TopIsWhole, InFunction, NULL
<1>2. Typed /\ Written /\ Shaped
  BY DEF ListInv
<1>3. PICK own : Rooted(own, heap, unit, blocks)
  BY <1>2 DEF Shaped
<1>4. HeapOK(heap, own) /\ unit \in 1..Len(heap) /\ top = heap[unit] /\ Len(heap) \in Nat
  <2>1. HeapOK(heap, own) /\ unit \in 0..Len(heap)
    BY <1>3 DEF Rooted
  <2>2. Len(heap) \in Nat
    BY <2>1, SeqIsFunction DEF HeapOK
  <2> QED
    BY <1>1, <1>2, <2>1, <2>2 DEF Typed
<1>5. PICK items, x : items = ItemsOf(Append(heap, top), x) /\ x = List(Len(heap) + 1)
  OBVIOUS
<1>6. items = Items(heap, unit)
  <2>1. Len(heap) + 1 # 0
    BY <1>4
  <2>2. x.kind = "LIST" /\ x.value = Len(heap) + 1
    BY <1>5, <2>1 DEF List, AstNode, NULL
  <2>3. items = Items(Append(heap, top), Len(heap) + 1)
    BY <1>5, <2>2 DEF ItemsOf
  <2> QED
    BY <1>4, <2>3, CopyIsList
<1>7. PICK m \in Nat : /\ m = Len(text) /\ m = Len(items) /\ text \in Texts
                       /\ \A k \in 1..m : text[k] = Entry(heap, items[k])
  BY <1>1, <1>2, <1>6, NoFunction
<1>8. DOMAIN items = 1..m
  <2>1. items \in Seq(AstNodes)
    BY <1>4, <1>6, ItemsOfList
  <2> QED
    BY <1>7, <2>1, SeqIsFunction
<1>9. text = [k \in 1..m |-> text[k]]
  <2>1. PICK E : Texts = Seq(E)
    BY DEF Texts
  <2>2. text \in Seq(E)
    BY <1>7, <2>1
  <2> QED
    BY <1>7, <2>2, SeqIsFunction
<1> QED
  BY <1>5, <1>7, <1>8, <1>9

-----------------------------------------------------------------------------
(* What gkcc_ir_build_full makes of the file.                               *)
Symbols == [kind : {"comm", "string"}, id : Nat, label : Nat]
Ops == [id : Nat, label : Nat]
BuiltFunctions == [id : Nat, block : Nat, ops : Seq(Ops)]

Definitions(s, label) == {d \in DOMAIN s : s[d].kind = "string" /\ s[d].label = label}
Defined(s, label, id) == \E d \in DOMAIN s : Definitions(s, label) = {d} /\ s[d].id = id

\* The strings have the first n labels.
Labelled(s, n) ==
  /\ s \in Seq(Symbols) /\ n \in Nat
  /\ \A k \in 1..Len(s) : s[k].kind = "string" => s[k].label \in 1..n

\* What is defined stays defined, and the variables are the same.
Extends(s, t) ==
  /\ OfKinds(t, {"comm"}) = OfKinds(s, {"comm"})
  /\ \A label, id : Defined(s, label, id) => Defined(t, label, id)

\* Adding a symbol redefines no label.
LEMMA SymbolAdded ==
  ASSUME NEW s, NEW n \in Nat, Labelled(s, n), NEW x \in Symbols, NEW m \in Nat, m >= n,
         x.kind = "string" => x.label \in n + 1..m, NEW t, t = Append(s, x)
  PROVE  /\ Labelled(t, m)
         /\ \A label, id : Defined(s, label, id) => Defined(t, label, id)
         /\ x.kind = "string" => Defined(t, x.label, x.id)
<1>1. s \in Seq(Symbols) /\ n \in Nat
  BY DEF Labelled
<1>2. PICK l \in Nat : l = Len(s) /\ DOMAIN s = 1..l
  BY <1>1, SeqIsFunction
<1>3. /\ t \in Seq(Symbols) /\ Len(t) = l + 1 /\ t[l + 1] = x /\ DOMAIN t = 1..l + 1
      /\ \A k \in 1..l : t[k] = s[k]
  <2>1. /\ t \in Seq(Symbols) /\ Len(t) = l + 1 /\ t[l + 1] = x
        /\ \A k \in 1..l : t[k] = s[k]
    BY <1>1, <1>2, AppendParts
  <2>2. DOMAIN t = 1..l + 1
    BY <2>1, SeqIsFunction
  <2> QED
    BY <2>1, <2>2
<1>4. \A k \in 1..l : s[k].kind = "string" => s[k].label \in 1..n
  BY <1>2 DEF Labelled
<1>5. Labelled(t, m)
  <2>1. ASSUME NEW k \in 1..l + 1, t[k].kind = "string" PROVE t[k].label \in 1..m
    <3>1. CASE k = l + 1
      BY <1>1, <1>3, <2>1, <3>1
    <3>2. CASE k # l + 1
      <4>1. k \in 1..l
        BY <3>2
      <4>2. s[k].label \in 1..n
        BY <1>3, <1>4, <2>1, <4>1
      <4>3. t[k].label \in 1..n
        BY <1>3, <4>1, <4>2
      <4>4. PICK v \in 1..n : v = t[k].label
        BY <4>3
      <4>5. v \in 1..m
        <5>1. v \in Nat /\ v >= 1 /\ v <= n
          OBVIOUS
        <5>2. v <= m
          BY <5>1
        <5> QED
          BY <5>1, <5>2
      <4> QED
        BY <4>4, <4>5
    <3> QED
      BY <3>1, <3>2
  <2> QED
    BY <1>3, <2>1 DEF Labelled
<1>6. ASSUME NEW label, NEW id, Defined(s, label, id) PROVE Defined(t, label, id)
  <2>1. PICK d \in 1..l : Definitions(s, label) = {d} /\ s[d].id = id
    BY <1>2, <1>6 DEF Defined
  <2>2. s[d].kind = "string" /\ s[d].label = label
    BY <2>1 DEF Definitions
  <2>3. label \in 1..n
    BY <1>4, <2>2
  <2>4. ~(x.kind = "string" /\ x.label = label)
    BY <1>1, <2>3
  <2>5. ASSUME NEW e \in 1..l + 1, t[e].kind = "string", t[e].label = label PROVE e = d
    <3>1. e # l + 1
      BY <1>3, <2>4, <2>5
    <3>2. e \in 1..l
      BY <3>1
    <3>3. s[e].kind = "string" /\ s[e].label = label
      BY <1>3, <2>5, <3>2
    <3>4. e \in Definitions(s, label)
      BY <1>2, <3>2, <3>3 DEF Definitions
    <3> QED
      BY <2>1, <3>4
  <2>6. d \in 1..l + 1 /\ t[d] = s[d]
    BY <1>3
  <2>7. Definitions(t, label) = {d}
    BY <1>3, <2>2, <2>5, <2>6 DEF Definitions
  <2> QED
    BY <1>3, <2>1, <2>6, <2>7 DEF Defined
<1>7. ASSUME x.kind = "string" PROVE Defined(t, x.label, x.id)
  <2>1. x.label \in n + 1..m
    BY <1>7
  <2>2. ASSUME NEW e \in 1..l, t[e].kind = "string", t[e].label = x.label PROVE FALSE
    <3>1. s[e].label \in 1..n
      BY <1>3, <1>4, <2>2
    <3>2. s[e].label = x.label
      BY <1>3, <2>2
    <3> QED
      BY <1>1, <2>1, <3>1, <3>2
  <2>3. \A e \in 1..l + 1 : e \in 1..l \/ e = l + 1
    OBVIOUS
  <2>4. l + 1 \in 1..l + 1
    OBVIOUS
  <2>5. Definitions(t, x.label) = {l + 1}
    BY <1>3, <1>7, <2>2, <2>3, <2>4 DEF Definitions
  <2> QED
    BY <1>3, <2>4, <2>5 DEF Defined
<1> QED
  BY <1>5, <1>6, <1>7

\* The operations of a body, with labels that are defined.
OpsOK(ops, s) ==
  /\ ops \in Seq(Ops)
  /\ \A k \in 1..Len(ops) : ops[k].label # NoLabel => Defined(s, ops[k].label, ops[k].id)

\* They stay so when symbols are added.
LEMMA OpsKept ==
  ASSUME NEW ops, NEW s, OpsOK(ops, s), NEW t,
         \A label, id : Defined(s, label, id) => Defined(t, label, id)
  PROVE  OpsOK(ops, t)
  BY DEF OpsOK

\* What translating the first k statements gives.
BodyOK(b, from, items, k) ==
  /\ b = [strings |-> b.strings, symbols |-> b.symbols, ops |-> b.ops]
  /\ Labelled(b.symbols, b.strings) /\ Extends(from, b.symbols)
  /\ OpsOK(b.ops, b.symbols) /\ Len(b.ops) = k
  /\ \A j \in 1..k : b.ops[j].id = items[j].id

\* One statement more.
LEMMA StatementTranslated ==
  ASSUME NEW b, NEW from, NEW items, NEW k \in Nat, BodyOK(b, from, items, k),
         NEW x \in AstNodes, x = items[k + 1]
  PROVE  BodyOK(Translate(b, x), from, items, k + 1)
<1>1. PICK n, s, o : n = b.strings /\ s = b.symbols /\ o = b.ops
  OBVIOUS
<1>2. /\ b = [strings |-> n, symbols |-> s, ops |-> o] /\ Labelled(s, n) /\ Extends(from, s)
      /\ OpsOK(o, s) /\ Len(o) = k
      /\ \A j \in 1..k : o[j].id = items[j].id
  BY <1>1 DEF BodyOK
<1>3. n \in Nat /\ s \in Seq(Symbols) /\ o \in Seq(Ops) /\ x.id \in Nat
  BY <1>2 DEF Labelled, OpsOK, AstNodes
<1>4. ASSUME NEW label \in Nat, NEW p, p = Append(o, [id |-> x.id, label |-> label]), NEW t,
             OpsOK(o, t), label # NoLabel => Defined(t, label, x.id)
      PROVE  /\ OpsOK(p, t) /\ Len(p) = k + 1
             /\ \A j \in 1..k + 1 : p[j].id = items[j].id
  <2>1. PICK op : op = [id |-> x.id, label |-> label]
    OBVIOUS
  <2>2. op \in Ops /\ op.id = x.id /\ op.label = label
    BY <1>3, <2>1 DEF Ops
  <2>3. /\ p \in Seq(Ops) /\ Len(p) = k + 1 /\ p[k + 1] = op
        /\ \A j \in 1..k : p[j] = o[j]
    <3>1. p = Append(o, op)
      BY <1>4, <2>1
    <3> QED
      BY <1>2, <1>3, <2>2, <3>1, AppendParts
  <2>4. \A j \in 1..k + 1 : j \in 1..k \/ j = k + 1
    OBVIOUS
  <2>5. \A j \in 1..k : o[j].label # NoLabel => Defined(t, o[j].label, o[j].id)
    BY <1>2, <1>4 DEF OpsOK
  <2>6. \A j \in 1..k + 1 : p[j].label # NoLabel => Defined(t, p[j].label, p[j].id)
    BY <1>4, <2>2, <2>3, <2>4, <2>5
  <2>7. \A j \in 1..k + 1 : p[j].id = items[j].id
    BY <1>2, <2>2, <2>3, <2>4
  <2> QED
    BY <2>3, <2>6, <2>7 DEF OpsOK
<1>5. CASE x.kind # "string"
  <2>1. PICK p : p = Append(o, [id |-> x.id, label |-> NoLabel])
    OBVIOUS
  <2>2. Translate(b, x) = [strings |-> n, symbols |-> s, ops |-> p]
    BY <1>2, <1>5, <2>1 DEF Translate
  <2>3. /\ OpsOK(p, s) /\ Len(p) = k + 1
        /\ \A j \in 1..k + 1 : p[j].id = items[j].id
    <3>1. NoLabel \in Nat
      BY DEF NoLabel
    <3> QED
      BY <1>2, <1>4, <2>1, <3>1
  <2> QED
    BY <1>2, <2>2, <2>3 DEF BodyOK
<1>6. CASE x.kind = "string"
  <2>1. PICK label, y : label = n + 1 /\ y = [kind |-> "string", id |-> x.id, label |-> label]
    OBVIOUS
  <2>2. PICK t, p : t = Append(s, y) /\ p = Append(o, [id |-> x.id, label |-> label])
    OBVIOUS
  <2>3. Translate(b, x) = [strings |-> label, symbols |-> t, ops |-> p]
    BY <1>2, <1>6, <2>1, <2>2 DEF Translate, NextString
  <2>4. y \in Symbols /\ label \in Nat /\ y.kind = "string" /\ y.label = label /\ y.id = x.id
    BY <1>3, <2>1 DEF Symbols
  <2>5. /\ Labelled(t, label)
        /\ \A l, i : Defined(s, l, i) => Defined(t, l, i)
        /\ Defined(t, label, x.id)
    <3>1. label >= n /\ y.label \in n + 1..label
      BY <1>3, <2>1, <2>4
    <3> QED
      BY <1>2, <1>3, <2>2, <2>4, <3>1, SymbolAdded
  <2>6. Extends(from, t)
    <3>1. OfKinds(t, {"comm"}) = OfKinds(s, {"comm"})
      <4>1. y.kind \notin {"comm"}
        BY <2>4
      <4> QED
        BY <1>3, <2>2, <2>4, <4>1, OfKindsAppend
    <3> QED
      BY <1>2, <2>5, <3>1 DEF Extends
  <2>7. OpsOK(o, t)
    BY <1>2, <2>5, OpsKept
  <2>8. /\ OpsOK(p, t) /\ Len(p) = k + 1
        /\ \A j \in 1..k + 1 : p[j].id = items[j].id
    BY <1>4, <2>2, <2>4, <2>5, <2>7
  <2> QED
    BY <2>3, <2>5, <2>6, <2>8 DEF BodyOK
<1> QED
  BY <1>5, <1>6

TranslateAll(base, items) == FoldLeft(Translate, base, items)
TranslatesTo(base, items, n, done) ==
  /\ done[0] = base
  /\ \A k \in 1..n : done[k] = Translate(done[k - 1], items[k])
  /\ TranslateAll(base, items) = done[n]

\* The states that translating a body goes through.
LEMMA FoldTranslate ==
  ASSUME NEW base, NEW items, NEW n \in Nat, DOMAIN items = 1..n
  PROVE  \E done : TranslatesTo(base, items, n, done)
<1> DEFINE Op(done, item) == Translate(done, item)
           Iter == CHOOSE it : it = [s \in SUBSET (1..n) |->
                     IF s = {} THEN base ELSE Op(it[s \ {Max(s)}], items[Max(s)])]
<1>1. TranslateAll(base, items) = Iter[1..n]
  BY Zenon DEF TranslateAll, FoldLeft, MapThenFoldSet
<1> HIDE DEF Op
<1> DEFINE Upto(m, it) ==
             /\ it = [s \in SUBSET (1..n) |-> it[s]]
             /\ \A s \in SUBSET (1..n) : s \subseteq 1..m =>
                  it[s] = IF s = {} THEN base ELSE Op(it[s \ {Max(s)}], items[Max(s)])
           T == {m \in Nat : \E it : Upto(m, it)}
<1>2. 0 \in T
  <2>1. Upto(0, [s \in SUBSET (1..n) |-> base])
    OBVIOUS
  <2> QED
    BY <2>1
<1>3. ASSUME NEW m \in Nat, m \in T PROVE m + 1 \in T
  <2>1. PICK it : Upto(m, it)
    BY <1>3
  <2> DEFINE new == [s \in SUBSET (1..n) |->
                       IF m + 1 \in s THEN Op(it[s \ {Max(s)}], items[Max(s)]) ELSE it[s]]
  <2>2. ASSUME NEW s \in SUBSET (1..n), s \subseteq 1..m + 1
        PROVE  new[s] = IF s = {} THEN base ELSE Op(new[s \ {Max(s)}], items[Max(s)])
    <3>1. CASE m + 1 \in s
      <4>1. Max(s) = m + 1 /\ s \ {m + 1} \in SUBSET (1..n)
        BY <2>2, <3>1, MaxOfSegment
      <4>2. new[s \ {Max(s)}] = it[s \ {Max(s)}]
        BY <4>1
      <4> QED
        BY <3>1, <4>2
    <3>2. CASE m + 1 \notin s
      <4>1. s \subseteq 1..m
        BY <2>2, <3>2
      <4>2. new[s] = IF s = {} THEN base ELSE Op(it[s \ {Max(s)}], items[Max(s)])
        BY <2>1, <3>2, <4>1
      <4>3. new[s \ {Max(s)}] = it[s \ {Max(s)}]
        BY <3>2
      <4> QED
        BY <4>2, <4>3
    <3> QED
      BY <3>1, <3>2
  <2>3. Upto(m + 1, new)
    <3> HIDE DEF new
    <3>1. new = [s \in SUBSET (1..n) |-> new[s]]
      BY DEF new
    <3> QED
      BY <2>2, <3>1
  <2> HIDE DEF new
  <2> HIDE DEF Upto
  <2>4. m + 1 \in Nat
    OBVIOUS
  <2> QED
    BY <2>3, <2>4
<1>4. \E it : Upto(n, it)
  <2>1. Nat \subseteq T
    <3>1. \A m \in Nat : m \in T => m + 1 \in T
      BY <1>3
    <3> HIDE DEF T
    <3> QED
      BY <1>2, <3>1, NatInduct
  <2> QED
    BY <2>1
<1>5. Iter = [s \in SUBSET (1..n) |->
                IF s = {} THEN base ELSE Op(Iter[s \ {Max(s)}], items[Max(s)])]
  <2>1. PICK it : Upto(n, it)
    BY <1>4
  <2>2. it = [s \in SUBSET (1..n) |->
                IF s = {} THEN base ELSE Op(it[s \ {Max(s)}], items[Max(s)])]
    BY <2>1
  <2> QED
    BY <2>2
<1> HIDE DEF Iter
<1> DEFINE done == [k \in 0..n |-> Iter[1..k]]
<1>6. done[0] = base
  <2>1. 1..0 = {}
    OBVIOUS
  <2> QED
    BY <1>5, <2>1
<1>7. ASSUME NEW k \in 1..n PROVE done[k] = Op(done[k - 1], items[k])
  <2>1. /\ 1..k \in SUBSET (1..n) /\ k \in 1..k
        /\ k \in 0..n /\ k - 1 \in 0..n /\ k \in Nat
    <3>1. k \in Nat /\ k >= 1 /\ k <= n
      OBVIOUS
    <3> QED
      BY <3>1
  <2>2. Max(1..k) = k /\ (1..k) \ {k} = 1..k - 1
    <3>1. PICK j \in Nat : j + 1 = k /\ j = k - 1
      BY k - 1 \in Nat
    <3>2. 1..k \subseteq 1..j + 1 /\ j + 1 \in 1..k
      BY <3>1
    <3>3. Max(1..k) = j + 1
      BY <3>2, MaxOfSegment
    <3>4. (1..k) \ {k} = 1..k - 1
      OBVIOUS
    <3> QED
      BY <3>1, <3>3, <3>4
  <2> QED
    BY <1>5, <2>1, <2>2
<1>8. TranslateAll(base, items) = done[n]
  BY <1>1
<1> HIDE DEF done
<1> QED
  BY <1>6, <1>7, <1>8 DEF Op, TranslatesTo


\* What translating a whole body gives.
LEMMA BodyTranslated ==
  ASSUME NEW items \in Seq(AstNodes), NEW symbols, NEW strings, Labelled(symbols, strings),
         NEW b, 
         b = TranslateAll([strings |-> strings, symbols |-> symbols, ops |-> <<>>], items)
  PROVE  BodyOK(b, symbols, items, Len(items))
<1>1. PICK n \in Nat : /\ n = Len(items) /\ DOMAIN items = 1..n
                       /\ \A k \in 1..n : items[k] \in AstNodes
  BY SeqIsFunction
<1>2. PICK base : base = [strings |-> strings, symbols |-> symbols, ops |-> <<>>]
  OBVIOUS
<1>3. PICK done : /\ done[0] = base
                  /\ \A k \in 1..n : done[k] = Translate(done[k - 1], items[k])
                  /\ TranslateAll(base, items) = done[n]
  <2>1. DOMAIN items = 1..n
    BY <1>1
  <2>2. \E done : TranslatesTo(base, items, n, done)
    BY <2>1, FoldTranslate
  <2> QED
    BY <2>2 DEF TranslatesTo
<1>4. BodyOK(base, symbols, items, 0)
  <2>1. OpsOK(<<>>, symbols)
    BY EmptySeq DEF OpsOK
  <2>2. Extends(symbols, symbols)
    BY DEF Extends
  <2>3. base.strings = strings /\ base.symbols = symbols /\ base.ops = <<>> /\ Len(<<>>) = 0
    BY <1>2
  <2>4. base = [strings |-> base.strings, symbols |-> base.symbols, ops |-> base.ops]
    BY <1>2, <2>3
  <2> QED
    BY <2>1, <2>2, <2>3, <2>4 DEF BodyOK
<1> DEFINE T == {k \in Nat : k <= n => BodyOK(done[k], symbols, items, k)}
<1>5. 0 \in T
  BY <1>3, <1>4
<1>6. ASSUME NEW k \in Nat, k \in T PROVE k + 1 \in T
  <2>1. SUFFICES ASSUME k + 1 <= n PROVE BodyOK(done[k + 1], symbols, items, k + 1)
    OBVIOUS
  <2>2. PICK q : q = k + 1
    OBVIOUS
  <2>3. q \in 1..n /\ q - 1 = k /\ k <= n
    BY <2>1, <2>2
  <2>4. done[q] = Translate(done[k], items[q]) /\ items[q] \in AstNodes
    BY <1>1, <1>3, <2>3
  <2>5. BodyOK(done[k], symbols, items, k)
    BY <1>6, <2>3
  <2>6. BodyOK(Translate(done[k], items[q]), symbols, items, k + 1)
    BY <2>2, <2>4, <2>5, StatementTranslated
  <2> QED
    BY <2>2, <2>4, <2>6
<1>7. n \in T
  <2>1. \A k \in Nat : k \in T => k + 1 \in T
    BY <1>6
  <2> HIDE DEF T
  <2> QED
    BY <1>5, <2>1, NatInduct
<1>8. BodyOK(done[n], symbols, items, n)
  BY <1>7
<1> QED
  BY <1>1, <1>2, <1>3, <1>8

\* The functions built so far say what those read say.
FunctionsOK(fs, read, s) ==
  /\ fs \in Seq(BuiltFunctions) /\ Len(read) = Len(fs)
  /\ \A k \in 1..Len(fs) : /\ fs[k].block = k - 1 /\ fs[k].id = read[k].id
                           /\ Ids(fs[k].ops) = Ids(read[k].body)
                           /\ OpsOK(fs[k].ops, s)

\* ir after the declarations in done.
Built(state, done) ==
  /\ state = [symbols |-> state.symbols, functions |-> state.functions,
              strings |-> state.strings, blocks |-> state.blocks]
  /\ Labelled(state.symbols, state.strings) /\ done \in Texts
  /\ Ids(OfKinds(state.symbols, {"comm"})) = Ids(OfKinds(done, {"variable"}))
  /\ state.blocks = Len(state.functions)
  /\ FunctionsOK(state.functions, OfKinds(done, {"function"}), state.symbols)

\* The declarations of text.
Entries == [kind : DeclarationKinds, id : Nat, body : Seq(Names)]

\* Nothing is built of a prototype.
LEMMA PrototypeBuilt ==
  ASSUME NEW state, NEW done, Built(state, done), NEW e \in Entries, e.kind = "prototype"
  PROVE  Built(state, Append(done, e))
<1>1. PICK new : new = Append(done, e)
  OBVIOUS
<1>2. done \in Seq(Entries)
  BY DEF Built, Texts, Entries
<1>3. new \in Texts
  <2>1. new \in Seq(Entries)
    BY <1>1, <1>2, AppendProperties
  <2> QED
    BY <2>1 DEF Texts, Entries
<1>4. /\ OfKinds(new, {"variable"}) = OfKinds(done, {"variable"})
      /\ OfKinds(new, {"function"}) = OfKinds(done, {"function"})
  <2>1. e.kind \notin {"variable"} /\ e.kind \notin {"function"}
    OBVIOUS
  <2> QED
    BY <1>1, <1>2, <2>1, OfKindsAppend
<1> QED
  BY <1>1, <1>3, <1>4 DEF Built

\* A variable becomes a symbol.
LEMMA VariableBuilt ==
  ASSUME NEW state, NEW done, Built(state, done), NEW e \in Entries, e.kind = "variable",
         NEW x, x.id = e.id
  PROVE  Built(BuildVariable(state, x), Append(done, e))
<1>1. PICK new, s, f, n, b : /\ new = Append(done, e) /\ s = state.symbols /\ f = state.functions
                             /\ n = state.strings /\ b = state.blocks
  OBVIOUS
<1>2. /\ state = [symbols |-> s, functions |-> f, strings |-> n, blocks |-> b]
      /\ Labelled(s, n) /\ Ids(OfKinds(s, {"comm"})) = Ids(OfKinds(done, {"variable"}))
      /\ b = Len(f) /\ FunctionsOK(f, OfKinds(done, {"function"}), s)
  BY <1>1 DEF Built
<1>3. done \in Seq(Entries) /\ n \in Nat /\ s \in Seq(Symbols) /\ e.id \in Nat
  BY <1>2 DEF Built, Texts, Entries, Labelled
<1>4. new \in Texts
  <2>1. new \in Seq(Entries)
    BY <1>1, <1>3, AppendProperties
  <2> QED
    BY <2>1 DEF Texts, Entries
<1>5. PICK y, t : y = [kind |-> "comm", id |-> e.id, label |-> NoLabel] /\ t = Append(s, y)
  OBVIOUS
<1>6. y \in Symbols /\ y.kind = "comm" /\ y.id = e.id
  BY <1>3, <1>5 DEF Symbols, NoLabel
<1>7. BuildVariable(state, x) = [symbols |-> t, functions |-> f, strings |-> n, blocks |-> b]
  <2>1. PICK u : u = Append(state.symbols, [kind |-> "comm", id |-> x.id, label |-> NoLabel])
    OBVIOUS
  <2>2. u = t
    BY <1>2, <1>5, <2>1
  <2>3. BuildVariable(state, x) = [state EXCEPT !.symbols = u]
    BY Zenon, <2>1 DEF BuildVariable
  <2>4. [state EXCEPT !.symbols = u] = [symbols |-> u, functions |-> f, strings |-> n, blocks |-> b]
    BY <1>2
  <2> QED
    BY Zenon, <2>2, <2>3, <2>4
<1>8. Labelled(t, n) /\ \A label, id : Defined(s, label, id) => Defined(t, label, id)
  <2>1. y.kind # "string" /\ n >= n
    BY <1>3, <1>6
  <2>2. Labelled(s, n) /\ n \in Nat /\ y \in Symbols /\ t = Append(s, y)
    BY <1>2, <1>3, <1>5, <1>6
  <2> QED
    BY <2>1, <2>2, SymbolAdded
<1>9. /\ OfKinds(new, {"variable"}) = Append(OfKinds(done, {"variable"}), e)
      /\ OfKinds(new, {"function"}) = OfKinds(done, {"function"})
  <2>1. e.kind \in {"variable"} /\ e.kind \notin {"function"}
    OBVIOUS
  <2> QED
    BY <1>1, <1>3, <2>1, OfKindsAppend
<1>10. OfKinds(t, {"comm"}) = Append(OfKinds(s, {"comm"}), y)
  <2>1. y.kind \in {"comm"}
    BY <1>6
  <2> QED
    BY <1>3, <1>5, <1>6, <2>1, OfKindsAppend
<1>11. Ids(OfKinds(t, {"comm"})) = Ids(OfKinds(new, {"variable"}))
  <2>1. PICK c, v : c = OfKinds(s, {"comm"}) /\ v = OfKinds(done, {"variable"})
    OBVIOUS
  <2>2. c \in Seq(Symbols) /\ v \in Seq(Entries)
    <3>1. PICK R, Q : /\ R = {z \in Symbols : z.kind \in {"comm"}}
                      /\ Q = {z \in Entries : z.kind \in {"variable"}}
      OBVIOUS
    <3>2. c \in Seq(R) /\ v \in Seq(Q)
      BY <1>3, <2>1, <3>1, OfKindsIsSeq
    <3>3. R \subseteq Symbols /\ Q \subseteq Entries
      BY <3>1
    <3> QED
      BY <3>2, <3>3, SeqMonotonic
  <2>3. Numbered(Symbols) /\ Numbered(Entries)
    BY DEF Numbered, Symbols, Entries
  <2>4. Ids(Append(c, y)) = Append(Ids(c), y.id) /\ Ids(Append(v, e)) = Append(Ids(v), e.id)
    BY <1>6, <2>2, <2>3, IdsAppend
  <2> QED
    BY Zenon, <1>2, <1>6, <1>9, <1>10, <2>1, <2>4
<1>12. FunctionsOK(f, OfKinds(new, {"function"}), t)
  <2>1. FunctionsOK(f, OfKinds(new, {"function"}), s)
    BY <1>2, <1>9
  <2> QED
    BY <1>8, <2>1, OpsKept DEF FunctionsOK
<1> QED
  BY <1>1, <1>2, <1>4, <1>7, <1>8, <1>11, <1>12 DEF Built

\* The entry of a function in the file.
EntryOf(e, x, items) ==
  e \in Entries /\ e.kind = "function" /\ e.id = x.id /\ e.body = NamesOf(items)

\* The functions with one more.
LEMMA FunctionAdded ==
  ASSUME NEW fs, NEW read, NEW s, FunctionsOK(fs, read, s), NEW f \in BuiltFunctions,
         NEW e, read \in Seq(Entries), e \in Entries, f.block = Len(fs), f.id = e.id,
         Ids(f.ops) = Ids(e.body), OpsOK(f.ops, s)
  PROVE  FunctionsOK(Append(fs, f), Append(read, e), s)
<1>1. PICK gs, more : gs = Append(fs, f) /\ more = Append(read, e)
  OBVIOUS
<1>2. fs \in Seq(BuiltFunctions) /\ Len(read) = Len(fs)
  BY DEF FunctionsOK
<1>3. PICK n \in Nat : n = Len(fs)
  BY <1>2, SeqIsFunction
<1>4. \A k \in 1..n : /\ fs[k].block = k - 1 /\ fs[k].id = read[k].id
                      /\ Ids(fs[k].ops) = Ids(read[k].body)
                      /\ OpsOK(fs[k].ops, s)
  BY <1>3 DEF FunctionsOK
<1>5. /\ gs \in Seq(BuiltFunctions) /\ Len(gs) = n + 1 /\ gs[n + 1] = f
      /\ \A k \in 1..n : gs[k] = fs[k]
  BY <1>1, <1>2, <1>3, AppendParts
<1>6. /\ Len(more) = n + 1 /\ more[n + 1] = e
      /\ \A k \in 1..n : more[k] = read[k]
  <2>1. n = Len(read)
    BY <1>2, <1>3
  <2> QED
    BY <1>1, <2>1, AppendParts
<1>7. ASSUME NEW k \in 1..n + 1
      PROVE  /\ gs[k].block = k - 1 /\ gs[k].id = more[k].id
             /\ Ids(gs[k].ops) = Ids(more[k].body)
             /\ OpsOK(gs[k].ops, s)
  <2>1. CASE k = n + 1
    <3>1. k - 1 = n
      BY <2>1
    <3> QED
      BY <1>3, <1>5, <1>6, <2>1, <3>1
  <2>2. CASE k # n + 1
    <3>1. k \in 1..n
      BY <2>2
    <3>2. gs[k] = fs[k] /\ more[k] = read[k]
      BY <1>5, <1>6, <3>1
    <3> QED
      BY Zenon, <1>4, <3>1, <3>2
  <2> QED
    BY <2>1, <2>2
<1>8. Len(more) = Len(gs) /\ \A k \in 1..Len(gs) : k \in 1..n + 1
  BY <1>5, <1>6
<1> QED
  BY Zenon, <1>1, <1>5, <1>7, <1>8 DEF FunctionsOK

\* A function with statements becomes one with a block of its own, its strings symbols.
LEMMA FunctionBuilt ==
  ASSUME NEW state, NEW done, Built(state, done), NEW h, NEW x, NEW items \in Seq(AstNodes),
         items = Items(h, x.value), NEW e, EntryOf(e, x, items)
  PROVE  Built(BuildFunction(state, h, x), Append(done, e))
<1>1. PICK new, s, fs, n, b : /\ new = Append(done, e) /\ s = state.symbols /\ fs = state.functions
                              /\ n = state.strings /\ b = state.blocks
  OBVIOUS
<1>2. /\ state = [symbols |-> s, functions |-> fs, strings |-> n, blocks |-> b]
      /\ Labelled(s, n) /\ Ids(OfKinds(s, {"comm"})) = Ids(OfKinds(done, {"variable"}))
      /\ b = Len(fs) /\ FunctionsOK(fs, OfKinds(done, {"function"}), s)
  BY <1>1 DEF Built
<1>3. /\ done \in Seq(Entries) /\ e \in Entries /\ e.kind = "function" /\ e.id = x.id
      /\ e.body = NamesOf(items) /\ e.id \in Nat
  BY DEF Built, Texts, Entries, EntryOf
<1>4. new \in Texts
  <2>1. new \in Seq(Entries)
    BY <1>1, <1>3, AppendProperties
  <2> QED
    BY <2>1 DEF Texts, Entries
<1>5. PICK body : body = TranslateAll([strings |-> n, symbols |-> s, ops |-> <<>>], items)
  OBVIOUS
<1>6. PICK m : m = Len(items) /\ BodyOK(body, s, items, m)
  BY <1>2, <1>5, BodyTranslated
<1>7. PICK t, o, l : t = body.symbols /\ o = body.ops /\ l = body.strings
  OBVIOUS
<1>8. /\ Labelled(t, l) /\ Extends(s, t) /\ OpsOK(o, t) /\ Len(o) = m
      /\ \A j \in 1..m : o[j].id = items[j].id
  BY <1>6, <1>7 DEF BodyOK
<1>9. PICK f, gs : f = [id |-> x.id, block |-> b, ops |-> o] /\ gs = Append(fs, f)
  OBVIOUS
<1>10. BuildFunction(state, h, x) =
         [symbols |-> t, functions |-> gs, strings |-> l, blocks |-> b + 1]
  <2>1. BuildFunction(state, h, x) =
          [state EXCEPT !.strings = body.strings, !.symbols = body.symbols, !.blocks = @ + 1,
                        !.functions = Append(@, [id |-> x.id, block |-> state.blocks,
                                                 ops |-> body.ops])]
    BY Zenon, <1>1, <1>5 DEF BuildFunction, TranslateAll
  <2>2. [state EXCEPT !.strings = body.strings, !.symbols = body.symbols, !.blocks = @ + 1,
                      !.functions = Append(@, [id |-> x.id, block |-> state.blocks,
                                               ops |-> body.ops])]
          = [state EXCEPT !.strings = l, !.symbols = t, !.blocks = @ + 1,
                          !.functions = Append(@, f)]
    BY Zenon, <1>1, <1>7, <1>9
  <2>3. [state EXCEPT !.strings = l, !.symbols = t, !.blocks = @ + 1, !.functions = Append(@, f)]
          = [symbols |-> t, functions |-> gs, strings |-> l, blocks |-> b + 1]
    <3>1. PICK u, v : u = state.blocks + 1 /\ v = Append(state.functions, f)
      OBVIOUS
    <3>2. u = b + 1 /\ v = gs
      BY <1>1, <1>9, <3>1
    <3>3. PICK one : one = [state EXCEPT !.strings = l]
      OBVIOUS
    <3>4. one = [symbols |-> s, functions |-> fs, strings |-> l, blocks |-> b]
      BY <1>2, <3>3
    <3>5. PICK two : two = [one EXCEPT !.symbols = t]
      OBVIOUS
    <3>6. two = [symbols |-> t, functions |-> fs, strings |-> l, blocks |-> b]
      BY <3>4, <3>5
    <3>7. PICK three : three = [two EXCEPT !.blocks = u]
      OBVIOUS
    <3>8. three = [symbols |-> t, functions |-> fs, strings |-> l, blocks |-> u]
      BY <3>6, <3>7
    <3>9. [three EXCEPT !.functions = v]
            = [symbols |-> t, functions |-> v, strings |-> l, blocks |-> u]
      BY <3>8
    <3> QED
      BY Zenon, <3>1, <3>2, <3>3, <3>5, <3>7, <3>9
  <2> QED
    BY Zenon, <2>1, <2>2, <2>3
<1>11. f \in BuiltFunctions /\ f.id = x.id /\ f.block = b /\ f.ops = o
  <2>1. b \in Nat
    BY <1>2, SeqIsFunction DEF FunctionsOK
  <2>2. o \in Seq(Ops)
    BY <1>8 DEF OpsOK
  <2> QED
    BY <1>3, <1>9, <2>1, <2>2 DEF BuiltFunctions
<1>12. Ids(o) = Ids(e.body)
  <2>1. DOMAIN o = 1..m /\ m \in Nat
    BY <1>8, SeqIsFunction DEF OpsOK
  <2>2. DOMAIN items = 1..m
    BY <1>6, SeqIsFunction
  <2>3. e.body = [j \in 1..m |-> [kind |-> items[j].kind, id |-> items[j].id]]
    BY Zenon, <1>3, <2>2 DEF NamesOf
  <2>4. Ids(e.body) = [j \in 1..m |-> items[j].id]
    BY <2>3 DEF Ids
  <2>5. Ids(o) = [j \in 1..m |-> o[j].id]
    BY Zenon, <2>1 DEF Ids
  <2> QED
    BY <1>8, <2>4, <2>5
<1>13. /\ OfKinds(new, {"variable"}) = OfKinds(done, {"variable"})
       /\ OfKinds(new, {"function"}) = Append(OfKinds(done, {"function"}), e)
  <2>1. e.kind \notin {"variable"} /\ e.kind \in {"function"}
    BY <1>3
  <2> QED
    BY <1>1, <1>3, <2>1, OfKindsAppend
<1>14. FunctionsOK(gs, OfKinds(new, {"function"}), t)
  <2>1. FunctionsOK(fs, OfKinds(done, {"function"}), t)
    <3>1. \A label, id : Defined(s, label, id) => Defined(t, label, id)
      BY <1>8 DEF Extends
    <3> QED
      BY <1>2, <3>1, OpsKept DEF FunctionsOK
  <2>2. PICK read : read = OfKinds(done, {"function"})
    OBVIOUS
  <2>3. read \in Seq(Entries)
    <3>1. PICK R : R = {z \in Entries : z.kind \in {"function"}}
      OBVIOUS
    <3>2. read \in Seq(R)
      BY <1>3, <2>2, <3>1, OfKindsIsSeq
    <3>3. R \subseteq Entries
      BY <3>1
    <3> QED
      BY <3>2, <3>3, SeqMonotonic
  <2>4. FunctionsOK(Append(fs, f), Append(read, e), t)
    <3>1. /\ FunctionsOK(fs, read, t) /\ e \in Entries /\ f.block = Len(fs) /\ f.id = e.id
          /\ Ids(f.ops) = Ids(e.body) /\ OpsOK(f.ops, t)
      BY <1>2, <1>3, <1>8, <1>11, <1>12, <2>1, <2>2
    <3> QED
      BY <1>11, <2>3, <3>1, FunctionAdded
  <2> QED
    BY Zenon, <1>9, <1>13, <2>2, <2>4
<1>15. Ids(OfKinds(t, {"comm"})) = Ids(OfKinds(new, {"variable"}))
  BY <1>2, <1>8, <1>13 DEF Extends
<1>16. b + 1 = Len(gs)
  <2>1. fs \in Seq(BuiltFunctions)
    BY <1>2 DEF FunctionsOK
  <2> QED
    BY <1>2, <1>9, <1>11, <2>1, AppendParts
<1> QED
  BY <1>1, <1>4, <1>8, <1>10, <1>14, <1>15, <1>16 DEF Built

-----------------------------------------------------------------------------
(* Printing.                                                                *)
FunctionLines(f) ==
  <<Line("function", f.id, NoLabel)>>
    \o [k \in DOMAIN f.ops |-> Line("statement", f.ops[k].id, f.ops[k].label)]
AllLines(fs) == [k \in DOMAIN fs |-> FunctionLines(fs[k])]

\* The lines that are still to be printed.
Emits(state) == state.symbols \o FlattenSeq(AllLines(state.functions))

\* The lines of functions, with labels that are defined in s.
CodeLines(s) ==
  {x \in [kind : {"function", "statement"}, id : Nat, label : Nat] :
     x.label # NoLabel => Defined(s, x.label, x.id)}

\* The lines of a function are those of its declaration.
LEMMA LinesOfFunction ==
  ASSUME NEW f \in BuiltFunctions, NEW s, OpsOK(f.ops, s)
  PROVE  /\ FunctionLines(f) \in Seq(CodeLines(s))
         /\ Ids(FunctionLines(f)) = <<f.id>> \o Ids(f.ops)
<1>1. PICK o, n : o = f.ops /\ n = Len(o)
  OBVIOUS
<1>2. /\ o \in Seq(Ops) /\ n \in Nat /\ DOMAIN o = 1..n /\ f.id \in Nat
      /\ \A k \in 1..n : /\ o[k].id \in Nat /\ o[k].label \in Nat
                         /\ o[k].label # NoLabel => Defined(s, o[k].label, o[k].id)
  <2>1. o \in Seq(Ops) /\ f.id \in Nat
    BY <1>1 DEF BuiltFunctions
  <2>2. n \in Nat /\ DOMAIN o = 1..n /\ \A k \in 1..n : o[k] \in Ops
    BY <1>1, <2>1, SeqIsFunction
  <2>3. \A k \in 1..n : o[k].id \in Nat /\ o[k].label \in Nat
    BY <2>2 DEF Ops
  <2>4. \A k \in 1..n : o[k].label # NoLabel => Defined(s, o[k].label, o[k].id)
    BY <1>1 DEF OpsOK
  <2> QED
    BY <2>1, <2>2, <2>3, <2>4
<1>3. PICK C, rest, y, first :
        /\ C = CodeLines(s)
        /\ rest = [k \in DOMAIN f.ops |-> Line("statement", f.ops[k].id, f.ops[k].label)]
        /\ y = Line("function", f.id, NoLabel) /\ first = <<y>>
  OBVIOUS
<1>4. rest = [k \in 1..n |-> [kind |-> "statement", id |-> o[k].id, label |-> o[k].label]]
  <2>1. DOMAIN f.ops = 1..n
    BY <1>1, <1>2
  <2> QED
    BY Zenon, <1>1, <1>3, <2>1 DEF Line
<1>5. ASSUME NEW k \in 1..n PROVE rest[k] \in C /\ rest[k].id = o[k].id
  <2>1. PICK i, l : i = o[k].id /\ l = o[k].label
    OBVIOUS
  <2>2. i \in Nat /\ l \in Nat /\ (l # NoLabel => Defined(s, l, i))
    BY <1>2, <2>1
  <2>3. rest[k] = [kind |-> "statement", id |-> i, label |-> l]
    BY <1>4, <2>1
  <2> QED
    BY <1>3, <2>1, <2>2, <2>3 DEF CodeLines
<1>6. rest \in Seq(C) /\ Len(rest) = n
  <2>1. rest = [k \in 1..n |-> rest[k]] /\ \A k \in 1..n : rest[k] \in C
    BY <1>4, <1>5
  <2> QED
    BY <1>2, <2>1, FunctionIsSeq
<1>7. y \in C /\ y.id = f.id
  <2>1. y = [kind |-> "function", id |-> f.id, label |-> 0]
    BY <1>3 DEF Line, NoLabel
  <2> QED
    BY <1>2, <1>3, <2>1 DEF CodeLines, NoLabel
<1>8. first \in Seq(C)
  BY <1>3, <1>7
<1>9. FunctionLines(f) = first \o rest
  BY <1>3 DEF FunctionLines
<1>10. first \o rest \in Seq(C)
  BY <1>6, <1>8, ConcatProperties
<1>11. Numbered(C)
  BY <1>3 DEF Numbered, CodeLines
<1>12. Ids(first \o rest) = Ids(first) \o Ids(rest)
  BY <1>6, <1>8, <1>11, IdsConcat
<1>13. Ids(first) = <<f.id>>
  <2>1. Ids(<<y>>) = <<y.id>>
    BY <1>6, <1>7, <1>11, IdsAppend
  <2> QED
    BY <1>3, <1>7, <2>1
<1>14. Ids(rest) = Ids(o)
  <2>1. Ids(rest) = [k \in 1..n |-> rest[k].id]
    <3>1. DOMAIN rest = 1..n
      BY <1>4
    <3> QED
      BY Zenon, <3>1 DEF Ids
  <2>2. Ids(o) = [k \in 1..n |-> o[k].id]
    BY Zenon, <1>2 DEF Ids
  <2> QED
    BY <1>5, <2>1, <2>2
<1> QED
  BY Zenon, <1>1, <1>3, <1>9, <1>10, <1>12, <1>13, <1>14

\* Lines behind the symbols that are no symbols redefine nothing.
LEMMA DefinedInFront ==
  ASSUME NEW s, NEW label, NEW id, Defined(s, label, id), s \in Seq(Symbols),
         NEW C, \A x \in C : x.kind # "string", NEW c \in Seq(C), NEW t, t = s \o c
  PROVE  Defined(t, label, id)
<1>1. PICK m \in Nat, n \in Nat : m = Len(s) /\ n = Len(c)
  BY SeqIsFunction
<1>2. PICK U : U = Symbols \cup C
  OBVIOUS
<1>3. s \in Seq(U) /\ c \in Seq(U)
  <2>1. Symbols \subseteq U /\ C \subseteq U
    BY <1>2
  <2> QED
    BY <2>1, SeqMonotonic
<1>4. /\ t \in Seq(U) /\ Len(t) = m + n
      /\ \A k \in 1..m : t[k] = s[k]
      /\ \A k \in 1..n : t[m + k] = c[k]
  BY <1>1, <1>3, ConcatParts
<1>5. DOMAIN t = 1..m + n /\ DOMAIN s = 1..m /\ \A k \in 1..n : c[k] \in C
  BY <1>1, <1>4, SeqIsFunction
<1>6. PICK d \in 1..m : Definitions(s, label) = {d} /\ s[d].id = id
  BY <1>5 DEF Defined
<1>7. s[d].kind = "string" /\ s[d].label = label
  BY <1>6 DEF Definitions
<1>8. ASSUME NEW e \in 1..m + n, t[e].kind = "string", t[e].label = label PROVE e = d
  <2>1. CASE e \in 1..m
    <3>1. s[e].kind = "string" /\ s[e].label = label
      BY <1>4, <1>8, <2>1
    <3>2. e \in Definitions(s, label)
      BY <1>5, <2>1, <3>1 DEF Definitions
    <3> QED
      BY <1>6, <3>2
  <2>2. ASSUME NEW j \in 1..n, e = m + j PROVE FALSE
    <3>1. t[e] = c[j] /\ c[j] \in C
      BY <1>4, <1>5, <2>2
    <3> QED
      BY <1>8, <3>1
  <2>3. e \in 1..m \/ \E j \in 1..n : e = m + j
    BY TwoParts
  <2> QED
    BY <2>1, <2>2, <2>3
<1>9. d \in 1..m + n /\ t[d] = s[d]
  BY <1>4
<1>10. Definitions(t, label) = {d}
  BY <1>5, <1>7, <1>8, <1>9 DEF Definitions
<1> QED
  BY <1>5, <1>6, <1>9, <1>10 DEF Defined

\* The lines of all functions, with those of each one.
LEMMA LinesOfFunctions ==
  ASSUME NEW fs, NEW read, NEW s, FunctionsOK(fs, read, s), NEW D, read \in Seq(D)
  PROVE  /\ AllLines(fs) \in Seq(Seq(CodeLines(s)))
         /\ IdsOf(AllLines(fs)) = [k \in DOMAIN read |-> Code(read[k])]
<1>1. fs \in Seq(BuiltFunctions) /\ Len(read) = Len(fs)
  BY DEF FunctionsOK
<1>2. PICK n \in Nat : n = Len(fs) /\ DOMAIN fs = 1..n /\ DOMAIN read = 1..n
  BY <1>1, SeqIsFunction
<1>3. \A k \in 1..n : fs[k] \in BuiltFunctions
  BY <1>1, <1>2, SeqIsFunction
<1>4. \A k \in 1..n : /\ fs[k].id = read[k].id /\ Ids(fs[k].ops) = Ids(read[k].body)
                      /\ OpsOK(fs[k].ops, s)
  BY <1>2 DEF FunctionsOK
<1>5. PICK a, V : a = AllLines(fs) /\ V = Seq(CodeLines(s))
  OBVIOUS
<1>6. a = [k \in 1..n |-> FunctionLines(fs[k])]
  BY Zenon, <1>2, <1>5 DEF AllLines
<1>7. ASSUME NEW k \in 1..n PROVE a[k] \in V /\ Ids(a[k]) = Code(read[k])
  <2>1. PICK f : f = fs[k] /\ f \in BuiltFunctions /\ OpsOK(f.ops, s)
    BY <1>3, <1>4
  <2>2. FunctionLines(f) \in Seq(CodeLines(s)) /\ Ids(FunctionLines(f)) = <<f.id>> \o Ids(f.ops)
    BY <2>1, LinesOfFunction
  <2>3. a[k] = FunctionLines(f)
    BY <1>6, <2>1
  <2>4. f.id = read[k].id /\ Ids(f.ops) = Ids(read[k].body)
    BY <1>4, <2>1
  <2> QED
    BY Zenon, <1>5, <2>2, <2>3, <2>4 DEF Code
<1>8. a = [k \in 1..n |-> a[k]]
  BY <1>6
<1>9. a \in Seq(V)
  BY <1>7, <1>8, FunctionIsSeq
<1>10. DOMAIN a = 1..n
  BY <1>6
<1>11. IdsOf(a) = [k \in 1..n |-> Ids(a[k])]
  BY Zenon, <1>10 DEF IdsOf
<1>12. [k \in 1..n |-> Ids(a[k])] = [k \in 1..n |-> Code(read[k])]
  BY <1>7
<1> QED
  BY Zenon, <1>2, <1>5, <1>9, <1>11, <1>12

\* What will be printed after the last declaration is what the file says.
LEMMA BuiltIsComplete ==
  ASSUME NEW state, NEW done, Built(state, done)
  PROVE  Complete(Emits(state), done)
<1>1. PICK s, fs, read : /\ s = state.symbols /\ fs = state.functions
                         /\ read = OfKinds(done, {"function"})
  OBVIOUS
<1>2. /\ Labelled(s, state.strings) /\ FunctionsOK(fs, read, s)
      /\ Ids(OfKinds(s, {"comm"})) = Ids(OfKinds(done, {"variable"}))
      /\ done \in Seq(Entries)
  BY <1>1 DEF Built, Texts, Entries
<1>3. s \in Seq(Symbols)
  BY <1>2 DEF Labelled
<1>4. PICK R : R = {z \in Entries : z.kind \in {"function"}} /\ read \in Seq(R)
  BY <1>1, <1>2, OfKindsIsSeq
<1>5. PICK C, a, c, lines : /\ C = CodeLines(s) /\ a = AllLines(fs) /\ c = FlattenSeq(a)
                            /\ lines = s \o c
  OBVIOUS
<1>6. a \in Seq(Seq(C)) /\ IdsOf(a) = [k \in DOMAIN read |-> Code(read[k])]
  BY <1>2, <1>4, <1>5, LinesOfFunctions
<1>7. c \in Seq(C)
  BY <1>5, <1>6, FlattenAppend, EmptySeq
<1>8. /\ \A x \in C : /\ x.kind \in {"function", "statement"}
                     /\ x.kind \notin {"comm"} /\ x.kind # "string"
      /\ \A x \in Symbols : x.kind \notin {"function", "statement"}
      /\ Numbered(C)
  BY <1>5 DEF CodeLines, Symbols, Numbered
<1>9. PICK U : U = Symbols \cup C /\ s \in Seq(U) /\ c \in Seq(U)
  <2>1. PICK U : U = Symbols \cup C
    OBVIOUS
  <2>2. Symbols \subseteq U /\ C \subseteq U
    BY <2>1
  <2>3. s \in Seq(U)
    BY <1>3, <2>2, SeqMonotonic
  <2>4. c \in Seq(U)
    BY <1>7, <2>2, SeqMonotonic
  <2> QED
    BY <2>1, <2>3, <2>4
<1>10. Ids(OfKinds(lines, {"comm"})) = Ids(OfKinds(done, {"variable"}))
  <2>1. PICK K, v : K = {"comm"} /\ v = OfKinds(s, K)
    OBVIOUS
  <2>2. OfKinds(s \o c, K) = OfKinds(s, K) \o OfKinds(c, K)
    BY <1>9, OfKindsConcat
  <2>3. OfKinds(c, K) = <<>>
    <3>1. \A x \in C : x.kind \notin K
      BY <1>8, <2>1
    <3> QED
      BY <1>7, <3>1, OfAllKinds
  <2>4. v \in Seq({z \in Symbols : z.kind \in K})
    BY <1>3, <2>1, OfKindsIsSeq
  <2>5. v \o <<>> = v
    BY <2>4, ConcatEmptySeq
  <2> QED
    BY Zenon, <1>2, <1>5, <2>1, <2>2, <2>3, <2>5
<1>11. Ids(OfKinds(lines, {"function", "statement"})) =
         FlattenSeq([k \in DOMAIN read |-> Code(read[k])])
  <2>1. PICK K : K = {"function", "statement"}
    OBVIOUS
  <2>2. OfKinds(s \o c, K) = OfKinds(s, K) \o OfKinds(c, K)
    BY <1>9, OfKindsConcat
  <2>3. OfKinds(c, K) = c
    <3>1. \A x \in C : x.kind \in K
      BY <1>8, <2>1
    <3> QED
      BY <1>7, <3>1, OfAllKinds
  <2>4. OfKinds(s, K) = <<>>
    <3>1. \A x \in Symbols : x.kind \notin K
      BY <1>8, <2>1
    <3> QED
      BY <1>3, <3>1, OfAllKinds
  <2>5. <<>> \o c = c
    BY <1>7, ConcatEmptySeq
  <2>6. Ids(c) = FlattenSeq(IdsOf(a))
    BY <1>5, <1>6, <1>8, IdsFlatten
  <2> QED
    BY Zenon, <1>5, <1>6, <2>1, <2>2, <2>3, <2>4, <2>5, <2>6
<1>12. ASSUME NEW use \in Range(lines), use.kind = "statement", use.label # NoLabel
       PROVE  Defined(lines, use.label, use.id)
  <2>1. PICK m \in Nat, n \in Nat : m = Len(s) /\ n = Len(c)
    BY <1>3, <1>7, SeqIsFunction
  <2>2. /\ Len(lines) = m + n /\ lines \in Seq(U)
        /\ \A k \in 1..m : lines[k] = s[k]
        /\ \A k \in 1..n : lines[m + k] = c[k]
    BY <1>5, <1>9, <2>1, ConcatParts
  <2>3. PICK i \in 1..m + n : use = lines[i]
    <3>1. DOMAIN lines = 1..m + n
      BY <2>2, SeqIsFunction
    <3> QED
      BY <3>1 DEF Range
  <2>4. i \notin 1..m
    <3>1. SUFFICES ASSUME i \in 1..m PROVE FALSE
      OBVIOUS
    <3>2. s[i] \in Symbols
      BY <1>3, <2>1, <3>1, SeqIsFunction
    <3>3. use \in Symbols
      BY <2>2, <2>3, <3>1, <3>2
    <3> QED
      BY <1>8, <1>12, <3>3
  <2>5. PICK j \in 1..n : i = m + j
    BY <2>4, TwoParts
  <2>6. use \in C
    <3>1. c[j] \in C
      BY <1>7, <2>1, SeqIsFunction
    <3> QED
      BY <2>2, <2>3, <2>5, <3>1
  <2>7. Defined(s, use.label, use.id)
    BY <1>5, <1>12, <2>6 DEF CodeLines
  <2> QED
    BY <1>3, <1>5, <1>7, <1>8, <2>7, DefinedInFront
<1>13. lines = Emits(state)
  BY <1>1, <1>5 DEF Emits
<1>14. Complete(lines, done)
  BY Zenon, <1>1, <1>10, <1>11, <1>12 DEF Complete, Defined, Definitions
<1> QED
  BY <1>13, <1>14

-----------------------------------------------------------------------------
(* The order of the lines.                                                  *)

\* Without the special forms every declaration has a name, and a function that
\* is read to its end has statements.
Ready(e) == e.kind = "function" => e.body # <<>>
Made ==
  /\ \A k \in 1..Len(text) : text[k].kind # "tag"
  /\ \A k \in 1..Len(text) : k < Len(text) \/ blocks = <<>> => Ready(text[k])

\* Nothing was built or printed yet.
NothingBuilt ==
  /\ ir = [symbols |-> <<>>, functions |-> <<>>, strings |-> 0, blocks |-> 0]
  /\ printed = {} /\ output = <<>>

\* Reading, nothing goes wrong.
Reads == phase' = phase /\ Made' /\ UNCHANGED <<lnode, ir, printed, output>>

\* No item is nothing.
LEMMA ItemIsRead ==
  ASSUME Shapes = {}, NEW h, NEW S, NEW outer \in Seq(S), NEW l, NEW item,
         AppendItem(h, outer, l, item)
  PROVE  phase' = phase /\ blocks' # <<>>
<1>1. ~(l = NULL /\ item = NoNode)
  BY DEF AppendItem
<1>2. PICK r : r = AstAppend(h, l, item) /\ blocks' = Append(outer, r.list) /\ phase' = phase
  BY <1>1 DEF AppendItem
<1>3. Append(outer, r.list) # <<>>
  <2>1. outer \in Seq(S \cup {r.list})
    <3>1. outer \in [1..Len(outer) -> S] /\ Len(outer) \in Nat
      BY SeqIsFunction
    <3>2. /\ outer = [k \in 1..Len(outer) |-> outer[k]]
          /\ \A k \in 1..Len(outer) : outer[k] \in S \cup {r.list}
      BY <3>1
    <3> QED
      BY <3>1, <3>2, FunctionIsSeq
  <2>2. Len(Append(outer, r.list)) = Len(outer) + 1 /\ Len(outer) \in Nat
    BY <2>1
  <2>3. Len(Append(outer, r.list)) # 0
    BY <2>2
  <2>4. Len(<<>>) = 0
    OBVIOUS
  <2> QED
    BY Zenon, <2>3, <2>4
<1> QED
  BY <1>2, <1>3

\* The declarations before the last one stay what they are.
LEMMA OpenMade ==
  ASSUME Made, blocks' # <<>>, Len(text) \in Nat, Len(text) >= 1, Len(text') = Len(text),
         \A k \in 1..Len(text) - 1 : text'[k] = text[k], text'[Len(text)].kind # "tag"
  PROVE  Made'
<1>1. ASSUME NEW k \in 1..Len(text') PROVE text'[k].kind # "tag"
  <2>1. CASE k = Len(text)
    BY <2>1
  <2>2. CASE k # Len(text)
    BY <2>2 DEF Made
  <2> QED
    BY <2>1, <2>2
<1>2. ASSUME NEW k \in 1..Len(text'), k < Len(text') \/ blocks' = <<>> PROVE Ready(text'[k])
  <2>1. k \in 1..Len(text) /\ k < Len(text) /\ text'[k] = text[k]
    BY <1>2
  <2> QED
    BY <2>1 DEF Made
<1> QED
  BY <1>1, <1>2 DEF Made

\* An open function may have no statements yet.
LEMMA StatementReads ==
  ASSUME Shapes = {}, ListInv, Made, NEW kinds \in Expressions \cup {<<"return">>}, Statement(kinds)
  PROVE  Reads
<1>1. Typed /\ Written /\ Shaped /\ blocks # <<>>
  BY DEF ListInv, Statement, InFunction
<1>2. /\ Len(text) \in Nat /\ Len(text) >= 1 /\ text[Len(text)].kind = "function"
      /\ blocks \in Seq(0..Len(heap)) /\ Len(blocks) \in Nat /\ Len(blocks) >= 1
      /\ text \in Texts
  BY <1>1, OpenFunction
<1>3. Outer \in Seq(0..Len(heap))
  BY <1>2, FrontParts DEF Outer
<1>4. phase' = phase /\ blocks' # <<>>
  <2>1. \E h, item : AppendItem(h, Outer, Last(blocks), item)
    BY DEF Statement
  <2> QED
    BY <1>3, <2>1, ItemIsRead
<1>5. PICK x : text' = [text EXCEPT ![Len(text)].body = x]
  BY DEF Statement
<1>6. /\ Len(text') = Len(text) /\ \A k \in 1..Len(text) - 1 : text'[k] = text[k]
      /\ text'[Len(text)].kind = "function"
  BY <1>2, <1>5 DEF Texts
<1>7. Made'
  BY <1>2, <1>4, <1>6, OpenMade
<1> QED
  BY <1>4, <1>7 DEF Reads, Statement, KeepBuilding

\* Neither does a block or an empty statement end the function.
LEMMA OpenReads ==
  ASSUME Shapes = {}, ListInv, Made, EmptyStatement \/ BeginBlock \/ EndBlock
  PROVE  Reads
<1>1. Typed /\ Written /\ Shaped /\ text' = text
  BY DEF ListInv, EmptyStatement, BeginBlock, EndBlock
<1>2. blocks # <<>>
  <2>1. CASE EndBlock
    <3>1. blocks \in Seq(0..Len(heap))
      BY <1>1 DEF Shaped, Rooted
    <3> QED
      BY <2>1, <3>1 DEF EndBlock
  <2> QED
    BY <2>1 DEF EmptyStatement, BeginBlock, InFunction
<1>3. /\ Len(text) \in Nat /\ Len(text) >= 1 /\ text[Len(text)].kind = "function"
      /\ blocks \in Seq(0..Len(heap)) /\ Len(blocks) \in Nat /\ Len(blocks) >= 1
  BY <1>1, <1>2, OpenFunction
<1>4. phase' = phase /\ blocks' # <<>>
  <2>1. CASE EmptyStatement
    <3>1. Outer \in Seq(0..Len(heap)) /\ AppendItem(heap, Outer, Last(blocks), NoNode)
      BY <1>3, <2>1, FrontParts DEF Outer, EmptyStatement
    <3> QED
      BY <3>1, ItemIsRead
  <2>2. CASE BeginBlock
    <3>1. blocks' = Append(blocks, 0) /\ phase' = phase
      BY <2>2 DEF BeginBlock, NULL
    <3>2. 0 \in 0..Len(heap) \cup {0}
      OBVIOUS
    <3>3. blocks \in Seq(0..Len(heap) \cup {0})
      BY <1>3
    <3>4. Len(Append(blocks, 0)) = Len(blocks) + 1
      BY <3>2, <3>3
    <3> QED
      BY <1>3, <3>1, <3>4
  <2>3. CASE EndBlock
    <3>1. PICK o, l, item : o = SubSeq(blocks, 1, Len(blocks) - 2) /\ AppendItem(heap, o, l, item)
      BY <2>3 DEF EndBlock
    <3>2. o \in Seq(0..Len(heap))
      BY <1>3, <2>3, <3>1 DEF EndBlock
    <3> QED
      BY <3>1, <3>2, ItemIsRead
  <2> QED
    BY <2>1, <2>2, <2>3
<1>5. Made'
  BY <1>1, <1>3, <1>4, OpenMade DEF Made
<1> QED
  BY <1>4, <1>5 DEF Reads, EmptyStatement, BeginBlock, EndBlock, KeepBuilding

\* Between functions a new entry is appended.
LEMMA EntriesMade ==
  ASSUME Made, blocks = <<>>, text \in Texts, NEW new \in Texts, text' = text \o new,
         \A k \in 1..Len(new) : new[k].kind # "tag",
         \A k \in 1..Len(new) : new[k].kind = "function" => k = Len(new) /\ blocks' # <<>>
  PROVE  Made'
<1>1. PICK c : c = text'
  OBVIOUS
<1>2. PICK m \in Nat, n \in Nat : m = Len(text) /\ n = Len(new)
  BY DEF Texts
<1>3. /\ Len(c) = m + n
      /\ \A k \in 1..m : c[k] = text[k]
      /\ \A k \in 1..n : c[m + k] = new[k]
  BY <1>1, <1>2, ConcatParts DEF Texts
<1>4. ASSUME NEW k \in 1..Len(c)
      PROVE  c[k].kind # "tag" /\ (k < Len(c) \/ blocks' = <<>> => Ready(c[k]))
  <2>1. k \in 1..m + n
    BY <1>3
  <2>2. k \in 1..m \/ \E j \in 1..n : k = m + j
    BY <2>1, TwoParts
  <2>3. CASE k \in 1..m
    BY <1>2, <1>3, <2>3 DEF Made
  <2>4. ASSUME NEW j \in 1..n, k = m + j
        PROVE  c[k].kind # "tag" /\ (k < Len(c) \/ blocks' = <<>> => Ready(c[k]))
    <3>1. c[k] = new[j]
      BY <1>3, <2>4
    <3>2. new[j].kind # "tag" /\ (new[j].kind = "function" => j = n /\ blocks' # <<>>)
      BY <1>2
    <3>3. j = n => k = Len(c)
      BY <1>3, <2>4
    <3>4. k < Len(c) \/ blocks' = <<>> => new[j].kind # "function"
      BY <3>2, <3>3, <1>3
    <3> QED
      BY <3>1, <3>2, <3>4 DEF Ready
  <2> QED
    BY <2>2, <2>3, <2>4
<1> QED
  BY <1>1, <1>4 DEF Made

\* Declarations have no body, so they need none.
LEMMA DeclarationReads ==
  ASSUME Shapes = {}, ListInv, Made, NEW kinds \in Declarators, Declaration(kinds)
  PROVE  Reads
<1>1. blocks = <<>> /\ text \in Texts /\ tokens \in Nat /\ phase' = phase
  BY BoundsAssumption DEF ListInv, Typed, Declaration, InFunction
<1>2. PICK n \in 1..2 : kinds \in [1..n -> {"variable", "prototype"}]
  BY DEF Declarators
<1>3. PICK new : new = [k \in DOMAIN kinds |->
                          [kind |-> kinds[k], id |-> Position + k - 1, body |-> <<>>]]
  OBVIOUS
<1>4. ASSUME NEW k \in 1..n
      PROVE  new[k] \in Entries /\ new[k].kind \in {"variable", "prototype"}
  <2>1. kinds[k] \in {"variable", "prototype"} /\ kinds[k] \in DeclarationKinds
    BY <1>2 DEF DeclarationKinds
  <2>2. Position + k - 1 \in Nat
    BY <1>1 DEF Position
  <2>3. new[k] = [kind |-> kinds[k], id |-> Position + k - 1, body |-> <<>>]
    BY <1>2, <1>3
  <2>4. <<>> \in Seq(Names)
    OBVIOUS
  <2> QED
    BY <2>1, <2>2, <2>3, <2>4 DEF Entries
<1>5. new \in Seq(Entries) /\ Len(new) = n
  <2>1. n \in Nat /\ new = [k \in 1..n |-> new[k]]
    BY <1>2, <1>3
  <2> QED
    BY <1>4, <2>1, FunctionIsSeq
<1>6. new \in Texts /\ text' = text \o new
  BY <1>3, <1>5 DEF Texts, Entries, Declaration
<1>7. Made'
  BY <1>1, <1>4, <1>5, <1>6, EntriesMade
<1> QED
  BY <1>1, <1>7 DEF Reads, Declaration, KeepBuilding

\* A function that begins has no statements yet.
LEMMA FunctionReads ==
  ASSUME Shapes = {}, ListInv, Made, BeginFunction
  PROVE  Reads
<1>1. blocks = <<>> /\ text \in Texts /\ Position \in Nat /\ phase' = phase
  BY NextToken DEF ListInv, Typed, BeginFunction, InFunction
<1>2. PICK e : e = [kind |-> "function", id |-> Position, body |-> <<>>]
  OBVIOUS
<1>3. e \in Entries
  <2>1. <<>> \in Seq(Names) /\ "function" \in DeclarationKinds
    BY DEF DeclarationKinds
  <2> QED
    BY <1>1, <1>2, <2>1 DEF Entries
<1>4. text \in Seq(Entries)
  BY <1>1 DEF Texts, Entries
<1>5. <<e>> \in Seq(Entries) /\ text' = text \o <<e>>
  BY <1>2, <1>3, <1>4, OneAtTheEnd DEF BeginFunction
<1>6. <<e>> \in Texts
  BY <1>5 DEF Texts, Entries
<1>7. Len(<<e>>) = 1 /\ <<e>>[1] = e
  OBVIOUS
<1>8. blocks' # <<>>
  BY DEF BeginFunction
<1>9. PICK new : new = <<e>> /\ new \in Texts /\ Len(new) = 1 /\ new[1] = e
  BY <1>6, <1>7
<1>10. /\ \A k \in 1..Len(new) : new[k].kind # "tag"
       /\ \A k \in 1..Len(new) : new[k].kind = "function" => k = Len(new) /\ blocks' # <<>>
  BY <1>2, <1>8, <1>9
<1>11. text' = text \o new
  BY <1>5, <1>9
<1>12. Made'
  BY <1>1, <1>9, <1>10, <1>11, EntriesMade
<1> QED
  BY <1>1, <1>12 DEF Reads, BeginFunction, KeepBuilding

\* A function that ends has statements.
LEMMA EndFunctionReads ==
  ASSUME Shapes = {}, ListInv, Made, EndFunction
  PROVE  Reads
<1>1. Typed /\ Written /\ Shaped /\ Len(blocks) = 1 /\ text' = text /\ phase' = phase
  BY DEF ListInv, EndFunction
<1>2. blocks # <<>>
  BY <1>1
<1>3. /\ Len(text) \in Nat /\ Len(text) >= 1 /\ text[Len(text)].body = Body(heap, blocks)
      /\ blocks \in Seq(0..Len(heap))
  BY <1>1, <1>2, OpenFunction
<1>4. PICK own : HeapOK(heap, own)
  BY <1>1 DEF Shaped, Rooted
<1>5. PICK l : l = Last(blocks) /\ l = blocks[1] /\ l \in 0..Len(heap)
  <2>1. PICK S : S = 0..Len(heap)
    OBVIOUS
  <2>2. blocks \in Seq(S) /\ 1 \in 1..Len(blocks)
    BY <1>1, <1>3, <2>1
  <2>3. blocks[1] \in S
    BY <2>2, SeqIsFunction
  <2> QED
    BY <1>1, <2>1, <2>3 DEF Last
<1>6. blocks = <<l>>
  <2>1. <<l>> \in Seq(0..Len(heap)) /\ Len(<<l>>) = 1 /\ <<l>>[1] = l
    BY <1>5
  <2>2. \A k \in 1..1 : blocks[k] = <<l>>[k]
    BY <1>5
  <2> QED
    BY <1>1, <1>3, <2>1, <2>2, SeqEqual
<1>7. l # 0
  BY <1>5 DEF EndFunction, NULL
<1>8. Body(heap, blocks) = Said(heap, l)
  <2>1. <<>> \in Seq(0..Len(heap))
    OBVIOUS
  <2> QED
    BY <1>4, <1>5, <1>6, <2>1, BodyAppend
<1>9. Items(heap, l) \in Seq(AstNodes) /\ Len(Items(heap, l)) >= 1
  <2>1. l \in 1..Len(heap)
    BY <1>5, <1>7
  <2> QED
    BY <1>4, <2>1, ItemsOfList
<1>10. Said(heap, l) # <<>>
  <2>1. Len(Said(heap, l)) >= 1
    BY <1>9, NamesOfSeq DEF Said
  <2> QED
    BY <2>1
<1>11. Made'
  <2>1. ASSUME NEW k \in 1..Len(text) PROVE Ready(text[k])
    <3>1. CASE k < Len(text)
      BY <3>1 DEF Made
    <3>2. CASE k = Len(text)
      BY <1>3, <1>8, <1>10, <3>2 DEF Ready
    <3> QED
      BY <1>3, <3>1, <3>2
  <2> QED
    BY <1>1, <2>1 DEF Made
<1> QED
  BY <1>1, <1>11 DEF Reads, EndFunction, KeepBuilding

-----------------------------------------------------------------------------
\* ir holds what the declarations before the p-th one say.
BuildsAt(p, done) ==
  /\ p \in 1..Len(text) /\ lnode = heap[Chain(heap, unit)[p]]
  /\ done \in Texts /\ Len(done) = p - 1 /\ \A k \in 1..p - 1 : done[k] = text[k]
  /\ Built(ir, done)
Building ==
  /\ blocks = <<>> /\ unit # 0 /\ printed = {} /\ output = <<>>
  /\ \E p, done : BuildsAt(p, done)

\* The functions that are still to be printed, each with a block of its own.
Unprinted(fs, s) ==
  /\ fs \in Seq(BuiltFunctions)
  /\ \A i \in 1..Len(fs) : fs[i].block \notin printed /\ OpsOK(fs[i].ops, s)
  /\ \A i, j \in 1..Len(fs) : fs[i].block = fs[j].block => i = j

Lines == [kind : {"comm", "string", "function", "statement"}, id : Nat, label : Nat]

\* What was printed and what is still to be printed say what the file does.
Printing ==
  /\ output \in Seq(Lines) /\ ir.symbols \in Seq(Symbols)
  /\ ir = [symbols |-> ir.symbols, functions |-> ir.functions,
           strings |-> ir.strings, blocks |-> ir.blocks]
  /\ \E s : Unprinted(ir.functions, s)
  /\ Complete(output \o Emits(ir), text)
  /\ phase = "done" => ir.symbols = <<>> /\ ir.functions = <<>>

\* The strengthening of EmittedInOrder.
EmitInv ==
  /\ ListInv /\ Made /\ phase # "crash"
  /\ phase = "parse" => NothingBuilt
  /\ phase = "build" => Building
  /\ phase \in {"print", "done"} => Printing

\* Building begins with the first declaration.
LEMMA BuildBegins ==
  ASSUME EmitInv, BeginBuild
  PROVE  Building' /\ phase' = "build"
<1>1. /\ Typed /\ Written /\ Shaped /\ blocks = <<>> /\ unit # 0 /\ NothingBuilt
      /\ lnode' = top /\ UNCHANGED <<text, heap, unit, blocks, ir, printed, output>>
  BY DEF EmitInv, ListInv, BeginBuild, InFunction, NULL
<1>2. Len(text) = Len(Items(heap, unit)) /\ text \in Texts
  BY <1>1, NoFunction
<1>3. PICK own : HeapOK(heap, own) /\ unit \in 1..Len(heap)
  <2>1. PICK own : Rooted(own, heap, unit, blocks)
    BY <1>1 DEF Shaped
  <2>2. HeapOK(heap, own) /\ unit \in 0..Len(heap)
    BY <2>1 DEF Rooted
  <2>3. Len(heap) \in Nat
    BY <2>2, SeqIsFunction DEF HeapOK
  <2> QED
    BY <1>1, <2>2, <2>3
<1>4. Len(Items(heap, unit)) = Len(Chain(heap, unit)) /\ Len(Items(heap, unit)) >= 1
  BY <1>3, ItemsOfList
<1>5. Chain(heap, unit)[1] = unit
  BY <1>3, ChainIsPath DEF Path
<1>6. lnode' = heap[Chain(heap, unit)[1]]
  BY <1>1, <1>5 DEF Typed
<1>7. 1 \in 1..Len(text)
  BY <1>2, <1>4, SeqIsFunction DEF Texts
<1>8. Built(ir, <<>>)
  <2>1. /\ ir = [symbols |-> <<>>, functions |-> <<>>, strings |-> 0, blocks |-> 0]
        /\ ir.symbols = <<>> /\ ir.functions = <<>> /\ ir.strings = 0 /\ ir.blocks = 0
    BY <1>1 DEF NothingBuilt
  <2>2. Labelled(<<>>, 0)
    BY DEF Labelled
  <2>3. <<>> \in Texts
    BY DEF Texts
  <2>4. OfKinds(<<>>, {"comm"}) = <<>> /\ OfKinds(<<>>, {"variable"}) = <<>>
        /\ OfKinds(<<>>, {"function"}) = <<>>
    <3>1. PICK e : e = [kind |-> "tag", id |-> 0, body |-> <<>>]
      OBVIOUS
    <3>2. <<>> \in Seq({e}) /\ e \in {e}
      OBVIOUS
    <3> QED
      BY <3>2, OfKindsAppend
  <2>5. FunctionsOK(<<>>, <<>>, <<>>)
    <3>1. <<>> \in Seq(BuiltFunctions) /\ Len(<<>>) = 0
      OBVIOUS
    <3>2. \A k \in 1..0 : FALSE
      OBVIOUS
    <3> QED
      BY <3>1, <3>2 DEF FunctionsOK
  <2>6. Len(<<>>) = 0
    OBVIOUS
  <2> QED
    BY Zenon, <2>1, <2>2, <2>3, <2>4, <2>5, <2>6 DEF Built
<1>9. BuildsAt(1, <<>>)'
  <2>1. <<>> \in Texts /\ Len(<<>>) = 1 - 1 /\ \A k \in 1..1 - 1 : FALSE
    BY DEF Texts
  <2>2. Built(ir', <<>>)
    BY <1>1, <1>8
  <2> QED
    BY <1>1, <1>6, <1>7, <2>1, <2>2 DEF BuildsAt
<1> QED
  BY <1>1, <1>9 DEF Building, BeginBuild, NothingBuilt

\* x is the node of the p-th declaration, and can be built.
IsNext(x, p) ==
  /\ x \in AstNodes /\ text[p] \in Entries
  /\ text[p].kind = x.kind /\ text[p].id = x.id /\ text[p].body = NamesOf(Items(heap, x.value))
  /\ Items(heap, x.value) \in Seq(AstNodes) /\ x.kind # "tag"
  /\ x.kind = "function" => x.value # 0

\* The declaration that is built is the next one of the text.
LEMMA EntryIsBuilt ==
  ASSUME ListInv, Made, blocks = <<>>, unit # 0, NEW p, NEW done, BuildsAt(p, done)
  PROVE  IsNext(lnode.node, p)
<1>1. Typed /\ Written /\ Shaped /\ p \in 1..Len(text)
  BY DEF ListInv, BuildsAt
<1>2. /\ Len(text) = Len(Items(heap, unit)) /\ text \in Texts
      /\ text[p] = Entry(heap, Items(heap, unit)[p])
  BY <1>1, NoFunction
<1>3. PICK own : Rooted(own, heap, unit, blocks)
  BY <1>1 DEF Shaped
<1>4. HeapOK(heap, own) /\ unit \in 1..Len(heap) /\ Len(heap) \in Nat
  <2>1. HeapOK(heap, own) /\ unit \in 0..Len(heap)
    BY <1>3 DEF Rooted
  <2>2. Len(heap) \in Nat
    BY <2>1, SeqIsFunction DEF HeapOK
  <2> QED
    BY <2>1, <2>2
<1>5. /\ Len(Items(heap, unit)) = Len(Chain(heap, unit)) /\ Items(heap, unit) \in Seq(AstNodes)
      /\ \A k \in 1..Len(Chain(heap, unit)) :
            Items(heap, unit)[k] = heap[Chain(heap, unit)[k]].node
  BY <1>4, ItemsOfList
<1>6. PICK x : x = lnode.node /\ x = Items(heap, unit)[p] /\ x \in AstNodes
  BY <1>1, <1>2, <1>5, SeqIsFunction DEF BuildsAt
<1>7. p \in 1..Len(Items(heap, unit)) /\ unit \in 0..Len(heap)
  BY <1>1, <1>2, <1>4
<1>8. ValueOK(own, heap, unit, blocks, x.value)
  BY <1>3, <1>6, <1>7, ItemValue
<1>9. x.value \in 0..Len(heap)
  BY <1>4, <1>8 DEF ValueOK
<1>10. Items(heap, x.value) \in Seq(AstNodes)
  BY <1>4, <1>9, SaidIsSeq
<1>11. text[p] = [kind |-> x.kind, id |-> x.id, body |-> NamesOf(Items(heap, x.value))]
  BY Zenon, <1>2, <1>6 DEF Entry, Said
<1>12. PICK e : e = text[p] /\ e \in Entries
  BY <1>1, <1>2, SeqIsFunction DEF Texts, Entries
<1>13. e.kind = x.kind /\ e.id = x.id /\ e.body = NamesOf(Items(heap, x.value))
  BY <1>11, <1>12
<1>14. x.kind # "tag" /\ Ready(e)
  BY <1>1, <1>12, <1>13 DEF Made
<1>15. ASSUME x.kind = "function", x.value = 0 PROVE FALSE
  <2>1. Said(heap, x.value) = <<>>
    BY <1>4, <1>15, NothingSaid
  <2>2. e.body = <<>>
    BY <1>13, <2>1 DEF Said
  <2> QED
    BY <1>13, <1>14, <1>15, <2>2 DEF Ready
<1> QED
  BY <1>6, <1>10, <1>12, <1>13, <1>14, <1>15 DEF IsNext

\* After it is built, ir holds what it says too.
LEMMA OneBuilt ==
  ASSUME ListInv, Made, blocks = <<>>, unit # 0, NEW p, NEW done, BuildsAt(p, done), BuildExternal
  PROVE  Built(ir', Append(done, text[p])) /\ phase' # "crash"
<1>1. PICK x : x = lnode.node /\ IsNext(x, p)
  BY EntryIsBuilt
<1>2. PICK e : e = text[p]
  OBVIOUS
<1>3. /\ e \in Entries /\ e.kind = x.kind /\ e.id = x.id /\ e.body = NamesOf(Items(heap, x.value))
      /\ Items(heap, x.value) \in Seq(AstNodes) /\ x.kind # "tag"
      /\ x.kind = "function" => x.value # 0
  BY <1>1, <1>2 DEF IsNext
<1>4. Built(ir, done)
  BY DEF BuildsAt
<1>5. /\ ir' = CASE x.kind = "variable" -> BuildVariable(ir, x)
                [] x.kind = "function" /\ x.value # NULL -> BuildFunction(ir, heap, x)
                [] OTHER -> ir
      /\ phase' = "print" \/ phase' = phase
      /\ phase = "build"
  BY <1>1, <1>3 DEF BuildExternal
<1>6. e.kind \in {"variable", "prototype", "function"}
  BY <1>3 DEF Entries, DeclarationKinds
<1>7. CASE e.kind = "variable"
  <2>1. ir' = BuildVariable(ir, x)
    BY <1>3, <1>5, <1>7
  <2> QED
    BY <1>2, <1>3, <1>4, <1>5, <1>7, <2>1, VariableBuilt
<1>8. CASE e.kind = "prototype"
  <2>1. ir' = ir
    BY <1>3, <1>5, <1>8
  <2> QED
    BY <1>2, <1>3, <1>4, <1>5, <1>8, <2>1, PrototypeBuilt
<1>9. CASE e.kind = "function"
  <2>1. ir' = BuildFunction(ir, heap, x)
    BY <1>3, <1>5, <1>9 DEF NULL
  <2>2. PICK items : items = Items(heap, x.value) /\ items \in Seq(AstNodes)
    BY <1>3
  <2>3. EntryOf(e, x, items)
    BY <1>3, <1>9, <2>2 DEF EntryOf
  <2>4. Built(BuildFunction(ir, heap, x), Append(done, e))
    BY <1>4, <2>2, <2>3, FunctionBuilt
  <2> QED
    BY <1>2, <1>5, <2>1, <2>4
<1> QED
  BY <1>6, <1>7, <1>8, <1>9

\* The lines of what was built.
LEMMA BuiltLines ==
  ASSUME NEW state, NEW done, Built(state, done)
  PROVE  /\ state.symbols \in Seq(Symbols) /\ Emits(state) \in Seq(Lines)
         /\ state.functions \in Seq(BuiltFunctions)
         /\ \A i \in 1..Len(state.functions) : /\ state.functions[i].block = i - 1
                                                /\ OpsOK(state.functions[i].ops, state.symbols)
<1>1. PICK s, fs, read : /\ s = state.symbols /\ fs = state.functions
                         /\ read = OfKinds(done, {"function"})
  OBVIOUS
<1>2. Labelled(s, state.strings) /\ FunctionsOK(fs, read, s) /\ done \in Seq(Entries)
  BY <1>1 DEF Built, Texts, Entries
<1>3. s \in Seq(Symbols) /\ fs \in Seq(BuiltFunctions)
  BY <1>2 DEF Labelled, FunctionsOK
<1>4. PICK R : R = {z \in Entries : z.kind \in {"function"}}
  OBVIOUS
<1>5. read \in Seq(R)
  BY <1>1, <1>2, <1>4, OfKindsIsSeq
<1>6. AllLines(fs) \in Seq(Seq(CodeLines(s)))
  BY <1>2, <1>5, LinesOfFunctions
<1>7. FlattenSeq(AllLines(fs)) \in Seq(CodeLines(s))
  <2>1. PICK C, a : C = CodeLines(s) /\ a = AllLines(fs) /\ a \in Seq(Seq(C))
    BY <1>6
  <2>2. <<>> \in Seq(C)
    OBVIOUS
  <2>3. FlattenSeq(a) \in Seq(C)
    BY <2>1, <2>2, FlattenAppend
  <2> QED
    BY Zenon, <2>1, <2>3
<1>8. CodeLines(s) \subseteq Lines /\ Symbols \subseteq Lines
  BY DEF CodeLines, Lines, Symbols
<1>9. PICK t, f : t = s /\ f = FlattenSeq(AllLines(fs)) /\ t \in Seq(Lines) /\ f \in Seq(Lines)
  BY <1>3, <1>7, <1>8, SeqMonotonic
<1>10. Emits(state) = t \o f
  BY <1>1, <1>9 DEF Emits
<1>11. t \o f \in Seq(Lines)
  BY <1>9, ConcatProperties
<1>12. \A i \in 1..Len(fs) : fs[i].block = i - 1 /\ OpsOK(fs[i].ops, s)
  BY <1>2 DEF FunctionsOK
<1> QED
  BY Zenon, <1>1, <1>3, <1>10, <1>11, <1>12

\* The declarations before the next one.
LEMMA OneMore ==
  ASSUME NEW p, NEW done \in Texts, text \in Texts, p \in 1..Len(text), Len(done) = p - 1,
         \A k \in 1..p - 1 : done[k] = text[k], NEW more, more = Append(done, text[p])
  PROVE  more \in Texts /\ Len(more) = p /\ \A k \in 1..p : more[k] = text[k]
<1>1. PICK e : e = text[p] /\ e \in Entries /\ Len(text) \in Nat
  BY SeqIsFunction DEF Texts, Entries
<1>2. done \in Seq(Entries)
  BY DEF Texts, Entries
<1>3. PICK n : n = Len(done) /\ n = p - 1
  OBVIOUS
<1>4. /\ n \in Nat /\ more \in Seq(Entries) /\ Len(more) = n + 1 /\ more[n + 1] = e
      /\ \A k \in 1..n : more[k] = done[k]
  BY <1>1, <1>2, <1>3, AppendParts
<1>5. n + 1 = p
  BY <1>1, <1>3
<1>6. ASSUME NEW k \in 1..p PROVE more[k] = text[k]
  <2>1. CASE k = p
    BY <1>1, <1>4, <1>5, <2>1
  <2>2. CASE k # p
    BY <1>3, <1>4, <1>5, <2>2
  <2> QED
    BY <2>1, <2>2
<1> QED
  BY <1>4, <1>5, <1>6 DEF Texts, Entries

\* Building goes on to the next declaration, or all of the file is built.
LEMMA ExternalBuilt ==
  ASSUME EmitInv, BuildExternal
  PROVE  (phase' = "build" /\ Building') \/ (phase' = "print" /\ Printing')
<1>1. /\ Typed /\ Written /\ Shaped /\ phase = "build" /\ blocks = <<>> /\ unit # 0
      /\ printed = {} /\ output = <<>> /\ text' = text /\ heap' = heap /\ unit' = unit
      /\ blocks' = blocks /\ printed' = printed /\ output' = output /\ ListInv /\ Made
  BY DEF EmitInv, ListInv, Building, BuildExternal, Read
<1>2. \E p, done : BuildsAt(p, done)
  BY <1>1 DEF EmitInv, Building
<1>3. PICK p, done : BuildsAt(p, done)
  BY <1>2
<1>4. /\ p \in 1..Len(text) /\ lnode = heap[Chain(heap, unit)[p]]
      /\ done \in Texts /\ Len(done) = p - 1 /\ \A k \in 1..p - 1 : done[k] = text[k]
  BY <1>3 DEF BuildsAt
<1>5. PICK more : /\ more = Append(done, text[p]) /\ Built(ir', more) /\ phase' # "crash"
  BY <1>1, <1>3, OneBuilt
<1>6. more \in Texts /\ Len(more) = p /\ \A k \in 1..p : more[k] = text[k]
  <2>1. more = Append(done, text[p]) /\ text \in Texts
    BY <1>1, <1>5 DEF Typed
  <2> QED
    BY ONLY <1>4, <2>1, OneMore
<1>7. text \in Texts /\ Len(text) = Len(Items(heap, unit)) /\ Len(text) \in Nat
  BY <1>1, NoFunction
<1>8. PICK own : HeapOK(heap, own) /\ unit \in 1..Len(heap)
  <2>1. PICK own : Rooted(own, heap, unit, blocks)
    BY <1>1 DEF Shaped
  <2>2. HeapOK(heap, own) /\ unit \in 0..Len(heap)
    BY <2>1 DEF Rooted
  <2>3. Len(heap) \in Nat
    BY <2>2, SeqIsFunction DEF HeapOK
  <2> QED
    BY <1>1, <2>2, <2>3
<1>9. PICK c : c = Chain(heap, unit) /\ Path(heap, unit, c) /\ Len(c) = Len(text)
  BY <1>7, <1>8, ChainIsPath, ItemsOfList
<1>10. lnode = heap[c[p]] /\ lnode.next = IF p = Len(text) THEN 0 ELSE c[p + 1]
  BY <1>4, <1>9 DEF Path
<1>11. p < Len(text) => c[p + 1] \in 1..Len(heap)
  BY <1>4, <1>7, <1>9, SeqIsFunction DEF Path
<1>12. IF lnode.next = 0 THEN phase' = "print" /\ lnode' = lnode
       ELSE lnode' = heap[lnode.next] /\ phase' = phase
  BY <1>5 DEF BuildExternal, NULL
<1>13. CASE p < Len(text)
  <2>1. lnode.next = c[p + 1] /\ lnode.next # 0
    BY <1>4, <1>7, <1>10, <1>11, <1>13
  <2>2. phase' = "build" /\ lnode' = heap[c[p + 1]]
    BY <1>1, <1>12, <2>1
  <2>3. p + 1 \in 1..Len(text) /\ (p + 1) - 1 = p
    BY <1>4, <1>7, <1>13
  <2>4. BuildsAt(p + 1, more)'
    <3>1. /\ p + 1 \in 1..Len(text') /\ lnode' = heap'[Chain(heap', unit')[p + 1]]
          /\ more \in Texts /\ Len(more) = (p + 1) - 1
          /\ \A k \in 1..(p + 1) - 1 : more[k] = text'[k]
      BY <1>1, <1>6, <1>9, <2>2, <2>3
    <3> QED
      BY <1>5, <3>1 DEF BuildsAt
  <2>5. \E q, d : BuildsAt(q, d)'
    BY <2>4
  <2> QED
    BY <1>1, <2>2, <2>5 DEF Building
<1>14. CASE p = Len(text)
  <2>1. phase' = "print"
    BY <1>10, <1>12, <1>14
  <2>2. more = text
    BY <1>6, <1>7, <1>14, SeqEqual DEF Texts
  <2>3. Built(ir', text)
    BY <1>5, <2>2
  <2>4. Complete(Emits(ir'), text)
    BY <2>3, BuiltIsComplete
  <2>5. PICK state : state = ir' /\ Built(state, text)
    BY <2>3
  <2>6. /\ state.symbols \in Seq(Symbols) /\ Emits(state) \in Seq(Lines)
        /\ state.functions \in Seq(BuiltFunctions)
        /\ \A i \in 1..Len(state.functions) : /\ state.functions[i].block = i - 1
                                               /\ OpsOK(state.functions[i].ops, state.symbols)
    BY <2>5, BuiltLines
  <2>7. Unprinted(state.functions, state.symbols)'
    <3>1. PICK fs, s : fs = state.functions /\ s = state.symbols
      OBVIOUS
    <3>2. /\ fs \in Seq(BuiltFunctions)
          /\ \A i \in 1..Len(fs) : fs[i].block = i - 1 /\ OpsOK(fs[i].ops, s)
      BY <2>6, <3>1
    <3>3. printed' = {}
      BY <1>1
    <3>4. \A i, j \in 1..Len(fs) : fs[i].block = fs[j].block => i = j
      BY <3>2
    <3>5. /\ fs \in Seq(BuiltFunctions)
          /\ \A i \in 1..Len(fs) : fs[i].block \notin printed' /\ OpsOK(fs[i].ops, s)
      BY <3>2, <3>3
    <3> QED
      BY Zenon, <3>1, <3>4, <3>5 DEF Unprinted
  <2>8. output' \in Seq(Lines) /\ output' \o Emits(state) = Emits(state)
    <3>1. PICK e : e = Emits(state) /\ e \in Seq(Lines)
      BY <2>6
    <3>2. <<>> \o e = e /\ <<>> \in Seq(Lines)
      BY <3>1
    <3> QED
      BY <1>1, <3>1, <3>2
  <2>9. Complete(output' \o Emits(ir'), text')
    BY Zenon, <1>1, <2>4, <2>5, <2>8
  <2>10. /\ ir' = [symbols |-> ir'.symbols, functions |-> ir'.functions,
                   strings |-> ir'.strings, blocks |-> ir'.blocks]
         /\ ir'.symbols \in Seq(Symbols) /\ phase' # "done"
    BY <2>1, <2>3, <2>5, <2>6 DEF Built
  <2>11. \E s : Unprinted(ir.functions, s)'
    BY <2>5, <2>7
  <2> QED
    BY <2>1, <2>8, <2>9, <2>10, <2>11 DEF Printing
<1> QED
  BY <1>4, <1>7, <1>13, <1>14

-----------------------------------------------------------------------------
\* The lines of functions are lines.
LEMMA UnprintedLines ==
  ASSUME NEW fs, NEW s, Unprinted(fs, s)
  PROVE  AllLines(fs) \in Seq(Seq(Lines)) /\ FlattenSeq(AllLines(fs)) \in Seq(Lines)
<1>1. PICK n \in Nat : n = Len(fs) /\ DOMAIN fs = 1..n
  BY SeqIsFunction DEF Unprinted
<1>2. PICK a, V : a = AllLines(fs) /\ V = Seq(Lines)
  OBVIOUS
<1>3. a = [k \in 1..n |-> FunctionLines(fs[k])]
  BY Zenon, <1>1, <1>2 DEF AllLines
<1>4. ASSUME NEW k \in 1..n PROVE a[k] \in V
  <2>1. PICK f : f = fs[k] /\ f \in BuiltFunctions /\ OpsOK(f.ops, s)
    <3>1. fs \in Seq(BuiltFunctions) /\ OpsOK(fs[k].ops, s)
      BY <1>1 DEF Unprinted
    <3> QED
      BY <1>1, <3>1, SeqIsFunction
  <2>2. FunctionLines(f) \in Seq(CodeLines(s))
    BY <2>1, LinesOfFunction
  <2>3. CodeLines(s) \subseteq Lines
    BY DEF CodeLines, Lines
  <2>4. FunctionLines(f) \in Seq(Lines)
    BY <2>2, <2>3, SeqMonotonic
  <2> QED
    BY <1>2, <1>3, <2>1, <2>4
<1>5. a = [k \in 1..n |-> a[k]]
  BY <1>3
<1>6. a \in Seq(V)
  BY <1>4, <1>5, FunctionIsSeq
<1>7. FlattenSeq(a) \in Seq(Lines)
  <2>1. <<>> \in Seq(Lines) /\ a \in Seq(Seq(Lines))
    BY <1>2, <1>6
  <2> QED
    BY <2>1, FlattenAppend
<1> QED
  BY Zenon, <1>2, <1>6, <1>7

\* All symbols are printed at once.
LEMMA SymbolsPrinted ==
  ASSUME Printing, phase = "print", PrintSymbols
  PROVE  Printing' /\ phase' = "print"
<1>1. /\ output \in Seq(Lines) /\ ir.symbols \in Seq(Symbols)
      /\ ir = [symbols |-> ir.symbols, functions |-> ir.functions,
               strings |-> ir.strings, blocks |-> ir.blocks]
      /\ Complete(output \o Emits(ir), text)
      /\ phase' = phase /\ printed' = printed /\ text' = text
      /\ output' = output \o [k \in DOMAIN ir.symbols |->
                            Line(ir.symbols[k].kind, ir.symbols[k].id, ir.symbols[k].label)]
      /\ ir' = [ir EXCEPT !.symbols = <<>>]
  BY DEF Printing, PrintSymbols, Read
<1>2. PICK s, fs, o : s = ir.symbols /\ fs = ir.functions /\ o = output
  OBVIOUS
<1>3. PICK t : Unprinted(fs, t)
  BY <1>2 DEF Printing
<1>4. /\ ir' = [symbols |-> <<>>, functions |-> fs, strings |-> ir.strings, blocks |-> ir.blocks]
      /\ ir'.symbols = <<>> /\ ir'.functions = fs
  BY <1>1, <1>2
<1>5. [k \in DOMAIN s |-> Line(s[k].kind, s[k].id, s[k].label)] = s
  <2>1. PICK n \in Nat : DOMAIN s = 1..n /\ \A k \in 1..n : s[k] \in Symbols
    BY <1>1, <1>2, SeqIsFunction
  <2>2. ASSUME NEW k \in 1..n PROVE Line(s[k].kind, s[k].id, s[k].label) = s[k]
    <3>1. PICK x : x = s[k] /\ x \in Symbols
      BY <2>1
    <3>2. [kind |-> x.kind, id |-> x.id, label |-> x.label] = x
      BY <3>1 DEF Symbols
    <3> QED
      BY Zenon, <3>1, <3>2 DEF Line
  <2>3. s = [k \in 1..n |-> s[k]]
    BY <1>1, <1>2, <2>1
  <2>4. [k \in 1..n |-> Line(s[k].kind, s[k].id, s[k].label)] = [k \in 1..n |-> s[k]]
    BY <2>2
  <2> QED
    BY Zenon, <2>1, <2>3, <2>4
<1>6. output' = o \o s
  BY Zenon, <1>1, <1>2, <1>5
<1>7. PICK f : f = FlattenSeq(AllLines(fs)) /\ f \in Seq(Lines)
  BY <1>3, UnprintedLines
<1>8. s \in Seq(Lines) /\ o \in Seq(Lines)
  <2>1. Symbols \subseteq Lines
    BY DEF Symbols, Lines
  <2> QED
    BY <1>1, <1>2, <2>1, SeqMonotonic
<1>9. Emits(ir) = s \o f /\ Emits(ir') = <<>> \o f
  BY Zenon, <1>2, <1>4, <1>7 DEF Emits
<1>10. output' \o Emits(ir') = output \o Emits(ir)
  <2>1. (o \o s) \o f = o \o (s \o f) /\ <<>> \o f = f
    <3>1. o \in Seq(Lines) /\ s \in Seq(Lines) /\ f \in Seq(Lines)
      BY <1>7, <1>8
    <3>2. (o \o s) \o f = o \o (s \o f)
      BY ONLY <3>1, ConcatAssociative
    <3>3. <<>> \o f = f
      BY ONLY <3>1, ConcatEmptySeq
    <3> QED
      BY ONLY <3>2, <3>3
  <2> QED
    BY Zenon, <1>2, <1>6, <1>9, <2>1
<1>11. output' \in Seq(Lines)
  BY <1>6, <1>8, ConcatProperties
<1>12. Complete(output' \o Emits(ir'), text')
  BY Zenon, <1>1, <1>10
<1>13. Unprinted(fs, t)'
  BY <1>1, <1>3 DEF Unprinted
<1>14. \E x : Unprinted(ir.functions, x)'
  BY <1>4, <1>13
<1>15. /\ ir'.symbols \in Seq(Symbols)
       /\ ir' = [symbols |-> ir'.symbols, functions |-> ir'.functions,
                strings |-> ir'.strings, blocks |-> ir'.blocks]
  BY <1>4
<1> QED
  BY <1>1, <1>11, <1>12, <1>14, <1>15 DEF Printing

\* The lines of the first function and those of the rest.
FirstOf(fs, f, rest, s) ==
  /\ f \in BuiltFunctions /\ OpsOK(f.ops, s) /\ f.block \notin printed
  /\ \A i \in 1..Len(rest) : rest[i].block # f.block
  /\ Unprinted(rest, s)
  /\ FunctionLines(f) \in Seq(Lines)
  /\ FlattenSeq(AllLines(fs)) = FunctionLines(f) \o FlattenSeq(AllLines(rest))

\* Printing a function takes its lines from those still to be printed.
LEMMA FirstPrinted ==
  ASSUME NEW fs, NEW s, Unprinted(fs, s), fs # <<>>, NEW rest, rest = Tail(fs), NEW f, f = fs[1]
  PROVE  FirstOf(fs, f, rest, s)
<1>1. PICK n \in Nat : n = Len(fs) /\ fs \in Seq(BuiltFunctions) /\ n >= 1 /\ DOMAIN fs = 1..n
  <2>1. fs \in Seq(BuiltFunctions)
    BY DEF Unprinted
  <2>2. Len(fs) # 0 /\ Len(fs) \in Nat /\ DOMAIN fs = 1..Len(fs)
    BY <2>1, SeqIsFunction
  <2>3. Len(fs) >= 1
    BY <2>2
  <2> QED
    BY <2>1, <2>2, <2>3
<1>2. /\ rest \in Seq(BuiltFunctions) /\ Len(rest) = n - 1
      /\ \A i \in 1..n - 1 : rest[i] = fs[i + 1]
  BY <1>1, HeadTailProperties
<1>3. f \in BuiltFunctions
  BY <1>1, SeqIsFunction
<1>4. \A i \in 1..n : fs[i].block \notin printed /\ OpsOK(fs[i].ops, s)
  BY <1>1 DEF Unprinted
<1>5. \A i, j \in 1..n : fs[i].block = fs[j].block => i = j
  BY <1>1 DEF Unprinted
<1>6. 1 \in 1..n /\ \A i \in 1..n - 1 : i + 1 \in 1..n /\ i + 1 # 1
  BY <1>1
<1>7. OpsOK(f.ops, s) /\ f.block \notin printed
  BY <1>4, <1>6
<1>8. \A i \in 1..Len(rest) : rest[i].block # f.block
  BY <1>2, <1>5, <1>6
<1>9. Unprinted(rest, s)
  <2>1. \A i \in 1..n - 1 : rest[i].block \notin printed /\ OpsOK(rest[i].ops, s)
    BY <1>2, <1>4, <1>6
  <2>2. ASSUME NEW i \in 1..n - 1, NEW j \in 1..n - 1, rest[i].block = rest[j].block
        PROVE  i = j
    <3>1. fs[i + 1].block = fs[j + 1].block
      BY <1>2, <2>2
    <3>2. i + 1 = j + 1
      BY <1>5, <1>6, <3>1
    <3> QED
      BY <3>2
  <2> QED
    BY <1>2, <2>1, <2>2 DEF Unprinted
<1>10. PICK lines, more, all : /\ lines = FunctionLines(f) /\ more = AllLines(rest)
                               /\ all = AllLines(fs)
  OBVIOUS
<1>11. all \in Seq(Seq(Lines)) /\ more \in Seq(Seq(Lines))
  BY <1>9, <1>10, UnprintedLines
<1>12. all = [k \in 1..n |-> FunctionLines(fs[k])]
  BY Zenon, <1>1, <1>10 DEF AllLines
<1>13. more = [k \in 1..n - 1 |-> FunctionLines(fs[k + 1])]
  <2>1. DOMAIN rest = 1..n - 1
    BY <1>2, SeqIsFunction
  <2>2. more = [k \in 1..n - 1 |-> FunctionLines(rest[k])]
    BY Zenon, <1>10, <2>1 DEF AllLines
  <2>3. [k \in 1..n - 1 |-> FunctionLines(rest[k])] = [k \in 1..n - 1 |-> FunctionLines(fs[k + 1])]
    BY <1>2
  <2> QED
    BY Zenon, <2>2, <2>3
<1>14. all[1] = lines
  BY <1>6, <1>10, <1>12
<1>15. PICK V : V = Seq(Lines)
  OBVIOUS
<1>16. all \in Seq(V) /\ more \in Seq(V)
  BY <1>11, <1>15
<1>17. lines \in V
  <2>1. 1 \in 1..Len(all)
    BY <1>6, <1>12, <1>16, SeqIsFunction
  <2> QED
    BY <1>14, <1>16, <2>1, SeqIsFunction
<1>18. all = <<lines>> \o more
  <2>1. /\ <<lines>> \o more \in Seq(V) /\ Len(<<lines>> \o more) = Len(more) + 1
        /\ (<<lines>> \o more)[1] = lines
        /\ \A k \in 1..Len(more) : (<<lines>> \o more)[k + 1] = more[k]
    BY <1>16, <1>17, Prepended
  <2>2. PICK c : c = <<lines>> \o more
    OBVIOUS
  <2>3. Len(all) = n /\ Len(more) = n - 1
    <3>1. DOMAIN all = 1..n /\ DOMAIN more = 1..n - 1
      BY <1>12, <1>13
    <3>2. /\ DOMAIN all = 1..Len(all) /\ Len(all) \in Nat
          /\ DOMAIN more = 1..Len(more) /\ Len(more) \in Nat
      BY <1>16, SeqIsFunction
    <3> QED
      BY <1>1, <3>1, <3>2
  <2>4. ASSUME NEW k \in 1..n PROVE all[k] = c[k]
    <3>1. CASE k = 1
      BY <1>14, <2>1, <2>2, <3>1
    <3>2. CASE k # 1
      <4>1. PICK j : j = k - 1 /\ j \in 1..n - 1 /\ j + 1 = k
        BY <1>1, <3>2
      <4>2. c[k] = more[j]
        BY <2>1, <2>2, <2>3, <4>1
      <4>3. more[j] = FunctionLines(fs[k])
        BY <1>13, <4>1
      <4>4. all[k] = FunctionLines(fs[k])
        BY <1>12
      <4> QED
        BY Zenon, <4>2, <4>3, <4>4
    <3> QED
      BY <3>1, <3>2
  <2>5. c \in Seq(V) /\ Len(c) = n
    BY <1>1, <2>1, <2>2, <2>3
  <2>6. all = c
    BY <1>16, <2>3, <2>4, <2>5, SeqEqual
  <2> QED
    BY <2>2, <2>6
<1>19. FlattenSeq(all) = lines \o FlattenSeq(more)
  <2>1. more \in Seq(Seq(Lines)) /\ lines \in Seq(Lines)
    BY <1>11, <1>15, <1>17
  <2> QED
    BY <1>18, <2>1, FlattenFront
<1>20. lines \in Seq(Lines)
  BY <1>15, <1>17
<1> QED
  BY Zenon, <1>3, <1>7, <1>8, <1>9, <1>10, <1>19, <1>20 DEF FirstOf

\* A function is printed with its block, which was not printed before.
LEMMA FunctionPrinted ==
  ASSUME Printing, phase = "print", PrintFunction
  PROVE  Printing' /\ phase' = "print"
<1>1. /\ output \in Seq(Lines) /\ ir.symbols = <<>> /\ ir.functions # <<>>
      /\ ir = [symbols |-> ir.symbols, functions |-> ir.functions,
               strings |-> ir.strings, blocks |-> ir.blocks]
      /\ Complete(output \o Emits(ir), text)
      /\ phase' = phase /\ text' = text /\ ir' = [ir EXCEPT !.functions = Tail(@)]
  BY DEF Printing, PrintFunction, Read
<1>2. PICK fs, rest, f, o : /\ fs = ir.functions /\ rest = Tail(fs) /\ f = fs[1] /\ o = output
  OBVIOUS
<1>3. PICK t : Unprinted(fs, t)
  BY <1>2 DEF Printing
<1>4. /\ f.block \notin printed /\ \A i \in 1..Len(rest) : rest[i].block # f.block
      /\ Unprinted(rest, t) /\ FunctionLines(f) \in Seq(Lines)
      /\ FlattenSeq(AllLines(fs)) = FunctionLines(f) \o FlattenSeq(AllLines(rest))
  <2>1. FirstOf(fs, f, rest, t)
    BY <1>1, <1>2, <1>3, FirstPrinted
  <2> QED
    BY <2>1 DEF FirstOf
<1>5. /\ ir' = [symbols |-> <<>>, functions |-> rest, strings |-> ir.strings, blocks |-> ir.blocks]
      /\ ir'.symbols = <<>> /\ ir'.functions = rest
  BY <1>1, <1>2
<1>6. PICK first, body : /\ first = <<Line("function", f.id, NoLabel)>>
                         /\ body = [k \in DOMAIN f.ops |->
                                      Line("statement", f.ops[k].id, f.ops[k].label)]
  OBVIOUS
<1>7. output' = o \o first \o body /\ printed' = printed \cup {f.block}
  <2>1. f.block \notin printed
    BY <1>4
  <2> QED
    BY <1>2, <1>6, <2>1 DEF PrintFunction
<1>8. FunctionLines(f) = first \o body
  BY Zenon, <1>6 DEF FunctionLines
<1>9. first \in Seq(Lines) /\ body \in Seq(Lines) /\ o \in Seq(Lines)
  <2>1. PICK y : y = Line("function", f.id, NoLabel)
    OBVIOUS
  <2>2. f \in BuiltFunctions
    BY <1>1, <1>2, <1>3, FirstPrinted DEF FirstOf
  <2>3. f.id \in Nat /\ f.ops \in Seq(Ops)
    BY <2>2 DEF BuiltFunctions
  <2>4. y \in Lines
    BY <2>1, <2>3 DEF Line, Lines, NoLabel
  <2>5. PICK ops, n : ops = f.ops /\ n = Len(ops) /\ n \in Nat /\ DOMAIN ops = 1..n
                      /\ \A k \in 1..n : ops[k] \in Ops
    BY <2>3, SeqIsFunction
  <2>6. body = [k \in 1..n |-> Line("statement", ops[k].id, ops[k].label)]
    BY Zenon, <1>6, <2>5
  <2>7. ASSUME NEW k \in 1..n PROVE body[k] \in Lines
    <3>1. ops[k].id \in Nat /\ ops[k].label \in Nat
      BY <2>5 DEF Ops
    <3> QED
      BY <2>6, <3>1 DEF Line, Lines
  <2>8. body = [k \in 1..n |-> body[k]]
    BY <2>6
  <2>9. body \in Seq(Lines)
    BY <2>5, <2>7, <2>8, FunctionIsSeq
  <2>10. <<y>> \in Seq(Lines)
    BY <2>4
  <2> QED
    BY <1>1, <1>2, <1>6, <2>1, <2>9, <2>10
<1>10. PICK m : m = FlattenSeq(AllLines(rest)) /\ m \in Seq(Lines)
  BY <1>4, UnprintedLines
<1>11. Emits(ir) = <<>> \o ((first \o body) \o m) /\ Emits(ir') = <<>> \o m
  BY Zenon, <1>1, <1>2, <1>4, <1>5, <1>8, <1>10 DEF Emits
<1>12. output' \o Emits(ir') = output \o Emits(ir)
  <2>1. PICK b : b = first \o body /\ b \in Seq(Lines)
    BY <1>9, ConcatProperties
  <2>2. b \o m \in Seq(Lines)
    BY <1>10, <2>1, ConcatProperties
  <2>3. <<>> \o (b \o m) = b \o m /\ <<>> \o m = m
    BY <1>10, <2>2, ConcatEmptySeq
  <2>4. o \o first \o body = o \o b
    <3>1. o \in Seq(Lines) /\ first \in Seq(Lines) /\ body \in Seq(Lines)
      BY <1>9
    <3>2. (o \o first) \o body = o \o (first \o body)
      BY ONLY <3>1, ConcatAssociative
    <3> QED
      BY ONLY <2>1, <3>2
  <2>5. (o \o b) \o m = o \o (b \o m)
    <3>1. o \in Seq(Lines) /\ b \in Seq(Lines) /\ m \in Seq(Lines)
      BY <1>9, <1>10, <2>1
    <3> QED
      BY ONLY <3>1, ConcatAssociative
  <2> QED
    BY Zenon, <1>2, <1>7, <1>11, <2>1, <2>3, <2>4, <2>5
<1>13. output' \in Seq(Lines)
  <2>1. o \o first \in Seq(Lines)
    BY <1>9, ConcatProperties
  <2> QED
    BY <1>7, <1>9, <2>1, ConcatProperties
<1>14. Complete(output' \o Emits(ir'), text')
  BY Zenon, <1>1, <1>12
<1>15. Unprinted(rest, t)'
  <2>1. /\ rest \in Seq(BuiltFunctions)
        /\ \A i \in 1..Len(rest) : rest[i].block \notin printed /\ OpsOK(rest[i].ops, t)
        /\ \A i, j \in 1..Len(rest) : rest[i].block = rest[j].block => i = j
    BY <1>4 DEF Unprinted
  <2>2. \A i \in 1..Len(rest) : rest[i].block \notin printed' /\ OpsOK(rest[i].ops, t)
    BY <1>4, <1>7, <2>1
  <2> QED
    BY <2>1, <2>2 DEF Unprinted
<1>16. \E x : Unprinted(ir.functions, x)'
  BY <1>5, <1>15
<1>17. /\ ir'.symbols \in Seq(Symbols)
       /\ ir' = [symbols |-> ir'.symbols, functions |-> ir'.functions,
                strings |-> ir'.strings, blocks |-> ir'.blocks]
  BY <1>5
<1> QED
  BY <1>1, <1>13, <1>14, <1>16, <1>17 DEF Printing

-----------------------------------------------------------------------------
\* Nothing is built or printed while the file is read.
LEMMA ReadingKeeps ==
  ASSUME EmitInv, phase = "parse", ListInv', Reads
  PROVE  EmitInv'
  BY DEF EmitInv, Reads, NothingBuilt

\* The text and the open blocks are what they were.
LEMMA MadeKept ==
  ASSUME Made, UNCHANGED Read
  PROVE  Made'
  BY DEF Made, Read

\* Every action keeps the strengthened invariant, and so does a stutter.
LEMMA EmitInvStep ==
  ASSUME Shapes = {}, EmitInv, [Next]_vars
  PROVE  EmitInv'
<1>1. ListInv /\ Made /\ ListInv'
  BY ListInvStep DEF EmitInv
<1>2. ASSUME NEW kinds \in Declarators, Declaration(kinds) PROVE EmitInv'
  BY <1>1, <1>2, DeclarationReads, ReadingKeeps DEF Declaration, Parsing
<1>3. CASE BeginFunction
  BY <1>1, <1>3, FunctionReads, ReadingKeeps DEF BeginFunction, Parsing
<1>4. ASSUME NEW kinds \in Expressions \cup {<<"return">>}, Statement(kinds) PROVE EmitInv'
  BY <1>1, <1>4, StatementReads, ReadingKeeps DEF Statement, Parsing
<1>5. CASE EmptyStatement \/ BeginBlock \/ EndBlock
  BY <1>1, <1>5, OpenReads, ReadingKeeps DEF EmptyStatement, BeginBlock, EndBlock, Parsing
<1>6. CASE EndFunction
  BY <1>1, <1>6, EndFunctionReads, ReadingKeeps DEF EndFunction
<1>7. CASE BeginBuild
  <2>1. Made'
    BY <1>1, <1>7 DEF BeginBuild, Made
  <2> QED
    BY <1>1, <1>7, <2>1, BuildBegins DEF EmitInv
<1>8. CASE BuildExternal
  <2>1. Made'
    BY <1>1, <1>8, MadeKept DEF BuildExternal
  <2> QED
    BY <1>1, <1>8, <2>1, ExternalBuilt DEF EmitInv
<1>9. CASE PrintSymbols
  <2>1. Made' /\ phase = "print"
    BY <1>1, <1>9, MadeKept DEF PrintSymbols
  <2>2. Printing
    BY <2>1 DEF EmitInv
  <2> QED
    BY <1>1, <1>9, <2>1, <2>2, SymbolsPrinted DEF EmitInv
<1>10. CASE PrintFunction
  <2>1. Made' /\ phase = "print"
    BY <1>1, <1>10, MadeKept DEF PrintFunction
  <2>2. Printing
    BY <2>1 DEF EmitInv
  <2> QED
    BY <1>1, <1>10, <2>1, <2>2, FunctionPrinted DEF EmitInv
<1>11. CASE EndPrint
  <2>1. Made' /\ phase = "print" /\ phase' = "done"
    BY <1>1, <1>11, MadeKept DEF EndPrint
  <2>2. Printing
    BY <2>1 DEF EmitInv
  <2>3. /\ text' = text /\ UNCHANGED <<ir, printed, output>>
        /\ ir.symbols = <<>> /\ ir.functions = <<>>
    BY <1>11 DEF EndPrint, Read
  <2>4. Printing'
    BY <2>2, <2>3 DEF Printing, Unprinted
  <2> QED
    BY <1>1, <2>1, <2>4 DEF EmitInv
<1>12. CASE UNCHANGED vars
  <2>1. /\ UNCHANGED <<phase, text, heap, unit, blocks, lnode, ir, printed, output>>
    BY <1>12 DEF vars
  <2>2. Made'
    BY <1>1, <2>1 DEF Made
  <2>3. phase = "parse" => NothingBuilt'
    BY <2>1 DEF EmitInv, NothingBuilt
  <2>4. phase = "build" => Building'
    BY <2>1 DEF EmitInv, Building, BuildsAt
  <2>5. phase \in {"print", "done"} => Printing'
    BY <2>1 DEF EmitInv, Printing, Unprinted
  <2> QED
    BY <1>1, <2>1, <2>2, <2>3, <2>4, <2>5 DEF EmitInv
<1> QED
  BY <1>2, <1>3, <1>4, <1>5, <1>6, <1>7, <1>8, <1>9, <1>10, <1>11, <1>12 DEF Next

\* The empty file.
LEMMA EmitInvInit ==
  ASSUME Init
  PROVE  EmitInv
<1>1. ListInv
  BY ListInvInit
<1>2. Made
  <2>1. text = <<>> /\ Len(<<>>) = 0
    BY DEF Init
  <2> QED
    BY <2>1 DEF Made
<1>3. phase = "parse" /\ NothingBuilt
  BY DEF Init, NothingBuilt
<1> QED
  BY <1>1, <1>2, <1>3 DEF EmitInv

\* At the end everything is printed.
LEMMA EmitInvOrder ==
  ASSUME EmitInv
  PROVE  EmittedInOrder
<1>1. ASSUME phase = "done" PROVE Complete(output, text)
  <2>1. /\ output \in Seq(Lines) /\ ir.symbols = <<>> /\ ir.functions = <<>>
        /\ Complete(output \o Emits(ir), text)
    BY <1>1 DEF EmitInv, Printing
  <2>2. PICK fs : fs = ir.functions /\ fs = <<>>
    BY <2>1
  <2>3. AllLines(fs) = <<>>
    <3>1. DOMAIN fs = {}
      BY <2>2
    <3> QED
      BY <3>1 DEF AllLines
  <2>4. FlattenSeq(<<>>) = <<>>
    <3>1. <<>> \in Seq(Seq(Lines)) /\ <<>> \in Seq(Lines)
      OBVIOUS
    <3> QED
      BY <3>1, FlattenFront
  <2>5. Emits(ir) = <<>> \o <<>>
    BY Zenon, <2>1, <2>2, <2>3, <2>4 DEF Emits
  <2>6. <<>> \o <<>> = <<>> /\ output \o <<>> = output
    BY <2>1
  <2> QED
    BY Zenon, <2>1, <2>5, <2>6
<1> QED
  BY <1>1 DEF EmitInv, EmittedInOrder

-----------------------------------------------------------------------------
\* In every reachable state the lists of ast_node_append are disjoint, next leads to
\* younger nodes, end is the last one, and the lists say what was read.
THEOREM ListsInvariant == Spec => []ListInv
<1>1. Init => ListInv
  BY ListInvInit
<1>2. ListInv /\ [Next]_vars => ListInv'
  BY ListInvStep
<1> QED
  BY <1>1, <1>2, PTL DEF Spec

\* Every next, end, open block and the unit is a list node that exists
\* (ast_constructors.c:230, ast.c:584), for files of any length and all shapes.
THEOREM TypeCorrect == Spec => []TypeOK
<1>1. ListInv => TypeOK
  BY ListInvType
<1> QED
  BY <1>1, ListsInvariant, PTL

\* Following next from a list leads to its end pointer, although lists are appended
\* to lists and blocks are nested.
THEOREM EndsAreLast == Spec => []EndIsLast
<1>1. ListInv => EndIsLast
  BY ListInvEnd
<1> QED
  BY <1>1, ListsInvariant, PTL

\* The list that main hands to the translation is the whole file: every declaration
\* and every function with its whole body, in their order.
THEOREM FileIsWhole == Spec => []TopIsWhole
<1>1. ListInv => TopIsWhole
  BY ListInvWhole
<1> QED
  BY <1>1, ListsInvariant, PTL

\* Without the special forms no file crashes the compiler, and at the end the lines are
\* what the file says: a .comm for every variable, every function once, in order and
\* with its whole body, and each label with the one string it was made for
\* (ir_full.c:34-66, translators.c:52-75, x86.c:184-219).
THEOREM LinesAreTheFile ==
  ASSUME Shapes = {}
  PROVE  Spec => []EmittedInOrder
<1>1. Init => EmitInv
  BY EmitInvInit
<1>2. EmitInv /\ [Next]_vars => EmitInv'
  BY EmitInvStep
<1>3. EmitInv => EmittedInOrder
  BY EmitInvOrder
<1> QED
  BY <1>1, <1>2, <1>3, PTL DEF Spec
=============================================================================
