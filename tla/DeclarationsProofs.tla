------------------------- MODULE DeclarationsProofs -------------------------
(***************************************************************************)
(* Theorems about Declarations, for lists of specifiers and declarators of  *)
(* every length: the state machine of the data type accepts what C names,   *)
(* and a declarator read bottom up has the type that C reads from its       *)
(* identifier outwards.                                                     *)
(***************************************************************************)
EXTENDS Declarations, OrderLemmas, FiniteSetTheorems

-----------------------------------------------------------------------------
(* Counting specifiers.                                                     *)

\* Where an appended list has one of S.
LEMMA AtAppend ==
  ASSUME NEW K, NEW list \in Seq(K), NEW x \in K, NEW S
  PROVE  /\ At(list, S) \subseteq 1..Len(list) /\ Len(list) \in Nat
         /\ At(Append(list, x), S) =
              At(list, S) \cup (IF x \in S THEN {Len(list) + 1} ELSE {})
<1>1. PICK t : t = Append(list, x)
  OBVIOUS
<1>2. /\ Len(list) \in Nat /\ t \in Seq(K) /\ Len(t) = Len(list) + 1 /\ t[Len(list) + 1] = x
      /\ \A k \in 1..Len(list) : t[k] = list[k]
  BY <1>1, AppendParts
<1>3. DOMAIN list = 1..Len(list) /\ DOMAIN t = 1..Len(list) + 1
  BY <1>2, SeqIsFunction
<1> QED
  BY <1>1, <1>2, <1>3 DEF At

\* A list has no specifier infinitely often.
LEMMA CountsFinite ==
  ASSUME NEW K, NEW list \in Seq(K), NEW S
  PROVE  /\ IsFiniteSet(At(list, S)) /\ Cardinality(At(list, S)) \in Nat
         /\ Cardinality(At(list, S)) = 0 <=> At(list, S) = {}
<1>1. At(list, S) \subseteq 1..Len(list) /\ Len(list) \in Nat
  BY SeqIsFunction DEF At
<1>2. IsFiniteSet(At(list, S))
  <2>1. IsFiniteSet(1..Len(list))
    BY <1>1, FS_Interval
  <2> QED
    BY <1>1, <2>1, FS_Subset
<1>3. Cardinality(At(list, S)) \in Nat
  BY <1>2, FS_CardinalityType
<1>4. Cardinality(At(list, S)) = 0 <=> At(list, S) = {}
  <2>1. \A T : IsFiniteSet(T) => (Cardinality(T) = 0 <=> T = {})
    BY FS_EmptySet
  <2> QED
    BY <1>2, <2>1, Zenon
<1> QED
  BY <1>2, <1>3, <1>4

\* How often it has them.
LEMMA CountAppend ==
  ASSUME NEW K, NEW list \in Seq(K), NEW x \in K, NEW S
  PROVE  /\ Cardinality(At(list, S)) \in Nat
         /\ Cardinality(At(list, S)) = 0 <=> At(list, S) = {}
         /\ Cardinality(At(Append(list, x), S)) =
              Cardinality(At(list, S)) + (IF x \in S THEN 1 ELSE 0)
<1>1. /\ At(list, S) \subseteq 1..Len(list) /\ Len(list) \in Nat
      /\ At(Append(list, x), S) =
              At(list, S) \cup (IF x \in S THEN {Len(list) + 1} ELSE {})
  BY AtAppend
<1>2. /\ IsFiniteSet(At(list, S)) /\ Cardinality(At(list, S)) \in Nat
      /\ Cardinality(At(list, S)) = 0 <=> At(list, S) = {}
  BY CountsFinite
<1>3. Len(list) + 1 \notin At(list, S)
  BY <1>1
<1>4. Cardinality(At(list, S) \cup {Len(list) + 1}) = Cardinality(At(list, S)) + 1
  BY <1>2, <1>3, FS_AddElement
<1>5. CASE x \in S
  <2>1. At(Append(list, x), S) = At(list, S) \cup {Len(list) + 1}
    BY <1>1, <1>5
  <2> QED
    BY <1>2, <1>4, <1>5, <2>1
<1>6. CASE x \notin S
  <2>1. At(Append(list, x), S) = At(list, S)
    BY <1>1, <1>6
  <2> QED
    BY <1>2, <1>6, <2>1
<1> QED
  BY <1>5, <1>6

\* The empty list.
LEMMA CountEmpty ==
  ASSUME NEW S
  PROVE  At(<<>>, S) = {} /\ Cardinality(At(<<>>, S)) = 0
<1>1. At(<<>>, S) = {}
  <2>1. DOMAIN <<>> = {}
    OBVIOUS
  <2> QED
    BY <2>1 DEF At
<1> QED
  BY <1>1, FS_EmptySet

-----------------------------------------------------------------------------
(* The state machine of the data type.                                      *)

\* The greatest of the first numbers.
LEMMA MaxOfSegment ==
  ASSUME NEW n \in Nat, NEW s, s \subseteq 1..n + 1, n + 1 \in s
  PROVE  Max(s) = n + 1 /\ s \ {n + 1} \subseteq 1..n
<1>1. \A y \in s : n + 1 >= y
  OBVIOUS
<1>2. Max(s) \in s /\ \A y \in s : Max(s) >= y
  BY <1>1 DEF Max
<1>3. PICK m : m = Max(s)
  OBVIOUS
<1>4. m \in 1..n + 1 /\ m >= n + 1
  BY <1>2, <1>3
<1>5. m = n + 1
  BY <1>4
<1> QED
  BY <1>3, <1>5

\* What the state machine goes through.
LEMMA DataSteps ==
  ASSUME NEW list, NEW n \in Nat, DOMAIN list = 1..n
  PROVE  \E done : /\ done[0] = "unknown"
                   /\ \A k \in 1..n : done[k] = DataTypeStep(done[k - 1], list[k])
                   /\ Data(list) = done[n]
<1> DEFINE base == "unknown"
           Op(type, s) == DataTypeStep(type, s)
           Iter == CHOOSE it : it = [s \in SUBSET (1..n) |->
                     IF s = {} THEN base ELSE Op(it[s \ {Max(s)}], list[Max(s)])]
<1>1. Data(list) = Iter[1..n]
  BY Zenon DEF Data, FoldLeft, MapThenFoldSet
<1> HIDE DEF Op
<1> DEFINE Upto(m, it) ==
             /\ it = [s \in SUBSET (1..n) |-> it[s]]
             /\ \A s \in SUBSET (1..n) : s \subseteq 1..m =>
                  it[s] = IF s = {} THEN base ELSE Op(it[s \ {Max(s)}], list[Max(s)])
           T == {m \in Nat : \E it : Upto(m, it)}
<1>2. 0 \in T
  <2>1. Upto(0, [s \in SUBSET (1..n) |-> base])
    OBVIOUS
  <2> QED
    BY <2>1
<1>3. ASSUME NEW m \in Nat, m \in T PROVE m + 1 \in T
  <2>1. PICK it : Upto(m, it)
    BY <1>3
  <2> DEFINE new == [s \in SUBSET (1..n) |->
                       IF m + 1 \in s THEN Op(it[s \ {Max(s)}], list[Max(s)]) ELSE it[s]]
  <2>2. ASSUME NEW s \in SUBSET (1..n), s \subseteq 1..m + 1
        PROVE  new[s] = IF s = {} THEN base ELSE Op(new[s \ {Max(s)}], list[Max(s)])
    <3>1. CASE m + 1 \in s
      <4>1. Max(s) = m + 1 /\ s \ {m + 1} \in SUBSET (1..n)
        BY <2>2, <3>1, MaxOfSegment
      <4>2. new[s \ {Max(s)}] = it[s \ {Max(s)}]
        BY <4>1
      <4> QED
        BY <3>1, <4>2
    <3>2. CASE m + 1 \notin s
      <4>1. s \subseteq 1..m
        BY <2>2, <3>2
      <4>2. new[s] = IF s = {} THEN base ELSE Op(it[s \ {Max(s)}], list[Max(s)])
        BY <2>1, <3>2, <4>1
      <4>3. new[s \ {Max(s)}] = it[s \ {Max(s)}]
        BY <3>2
      <4> QED
        BY <4>2, <4>3
    <3> QED
      BY <3>1, <3>2
  <2>3. Upto(m + 1, new)
    <3> HIDE DEF new
    <3>1. new = [s \in SUBSET (1..n) |-> new[s]]
      BY DEF new
    <3> QED
      BY <2>2, <3>1
  <2> HIDE DEF new
  <2> HIDE DEF Upto
  <2>4. m + 1 \in Nat
    OBVIOUS
  <2> QED
    BY <2>3, <2>4
<1>4. \E it : Upto(n, it)
  <2>1. Nat \subseteq T
    <3>1. \A m \in Nat : m \in T => m + 1 \in T
      BY <1>3
    <3> HIDE DEF T
    <3> QED
      BY <1>2, <3>1, NatInduct
  <2> QED
    BY <2>1
<1>5. Iter = [s \in SUBSET (1..n) |->
                IF s = {} THEN base ELSE Op(Iter[s \ {Max(s)}], list[Max(s)])]
  <2>1. PICK it : Upto(n, it)
    BY <1>4
  <2>2. it = [s \in SUBSET (1..n) |->
                IF s = {} THEN base ELSE Op(it[s \ {Max(s)}], list[Max(s)])]
    BY <2>1
  <2> QED
    BY <2>2
<1> HIDE DEF Iter
<1> DEFINE done == [k \in 0..n |-> Iter[1..k]]
<1>6. done[0] = base
  <2>1. 1..0 = {}
    OBVIOUS
  <2> QED
    BY <1>5, <2>1
<1>7. ASSUME NEW k \in 1..n PROVE done[k] = Op(done[k - 1], list[k])
  <2>1. /\ 1..k \in SUBSET (1..n) /\ k \in 1..k
        /\ k \in 0..n /\ k - 1 \in 0..n /\ k \in Nat
    <3>1. k \in Nat /\ k >= 1 /\ k <= n
      OBVIOUS
    <3> QED
      BY <3>1
  <2>2. Max(1..k) = k /\ (1..k) \ {k} = 1..k - 1
    <3>1. PICK j \in Nat : j + 1 = k /\ j = k - 1
      BY k - 1 \in Nat
    <3>2. 1..k \subseteq 1..j + 1 /\ j + 1 \in 1..k
      BY <3>1
    <3>3. Max(1..k) = j + 1
      BY <3>2, MaxOfSegment
    <3>4. (1..k) \ {k} = 1..k - 1
      OBVIOUS
    <3> QED
      BY <3>1, <3>3, <3>4
  <2> QED
    BY <1>5, <2>1, <2>2
<1>8. Data(list) = done[n]
  BY <1>1
<1> HIDE DEF done
<1> QED
  BY <1>6, <1>7, <1>8 DEF Op
\* One specifier more is one step more.
LEMMA DataAppend ==
  ASSUME NEW K, NEW list \in Seq(K), NEW x \in K
  PROVE  Data(<<>>) = "unknown" /\ Data(Append(list, x)) = DataTypeStep(Data(list), x)
<1>1. Data(<<>>) = "unknown"
  <2>1. DOMAIN <<>> = 1..0
    OBVIOUS
  <2> QED
    BY <2>1, DataSteps
<1>2. PICK n, t : n = Len(list) /\ t = Append(list, x)
  OBVIOUS
<1>3. /\ n \in Nat /\ DOMAIN list = 1..n /\ DOMAIN t = 1..n + 1
      /\ t[n + 1] = x /\ \A k \in 1..n : t[k] = list[k]
  <2>1. /\ n \in Nat /\ t \in Seq(K) /\ Len(t) = n + 1 /\ t[n + 1] = x
        /\ \A k \in 1..n : t[k] = list[k]
    BY <1>2, AppendParts
  <2> QED
    BY <1>2, <2>1, SeqIsFunction
<1>4. PICK a : /\ a[0] = "unknown"
               /\ \A k \in 1..n : a[k] = DataTypeStep(a[k - 1], list[k])
               /\ Data(list) = a[n]
  BY <1>3, DataSteps
<1>5. PICK b : /\ b[0] = "unknown"
               /\ \A k \in 1..n + 1 : b[k] = DataTypeStep(b[k - 1], t[k])
               /\ Data(t) = b[n + 1]
  <2>1. n + 1 \in Nat
    BY <1>3
  <2> QED
    BY <1>3, <2>1, DataSteps
<1> DEFINE T == {k \in Nat : k <= n => a[k] = b[k]}
<1>6. 0 \in T
  BY <1>4, <1>5
<1>7. ASSUME NEW k \in Nat, k \in T PROVE k + 1 \in T
  <2>1. ASSUME k + 1 <= n PROVE a[k + 1] = b[k + 1]
    <3>1. k + 1 \in 1..n /\ k + 1 \in 1..n + 1 /\ (k + 1) - 1 = k
      BY <1>3, <2>1
    <3>2. a[k + 1] = DataTypeStep(a[k], list[k + 1])
      BY <1>4, <3>1
    <3>3. b[k + 1] = DataTypeStep(b[k], t[k + 1])
      BY <1>5, <3>1
    <3>4. a[k] = b[k]
      BY <1>3, <1>7, <2>1
    <3> QED
      BY <1>3, <3>1, <3>2, <3>3, <3>4
  <2> QED
    BY <2>1
<1>8. a[n] = b[n]
  <2>1. \A k \in Nat : k \in T => k + 1 \in T
    BY <1>7
  <2>2. Nat \subseteq T
    <3> HIDE DEF T
    <3> QED
      BY <1>6, <2>1, NatInduct
  <2> QED
    BY <1>3, <2>2
<1>9. b[n + 1] = DataTypeStep(b[n], x)
  <2>1. n + 1 \in 1..n + 1 /\ (n + 1) - 1 = n
    BY <1>3
  <2> QED
    BY <1>3, <1>5, <2>1
<1> QED
  BY <1>1, <1>2, <1>4, <1>5, <1>8, <1>9

\* How often each size specifier is in a list.
Counts(list) == [s \in Sizes |-> Count(list, s)]

\* n counts none but S.
Only(n, S) == \A s \in Sizes \ S : n[s] = 0

\* What the state machine has seen when it is in a state.
Accepts(type, n) ==
  CASE type = "unknown" -> Only(n, {})
    [] type \in {"void", "char", "int", "float", "double", "struct"} ->
         Only(n, {type}) /\ n[type] = 1
    [] type = "short" -> Only(n, {"short", "int"}) /\ n["short"] = 1
    [] type = "long" -> Only(n, {"long", "int"}) /\ n["long"] = 1
    [] type = "longlong" -> Only(n, {"long", "int"}) /\ n["long"] = 2
    [] type = "long_double" -> Only(n, {"long", "double"}) /\ n["long"] = 1 /\ n["double"] = 1
    [] OTHER -> FALSE

\* Specifiers that no type of C has, with or without others.
Clash(n) ==
  \/ \E s, t \in Sizes :
       /\ s # t /\ n[s] > 0 /\ n[t] > 0
       /\ ~(s = "int" /\ t \in {"short", "long"}) /\ ~(t = "int" /\ s \in {"short", "long"})
       /\ ~(s = "long" /\ t = "double") /\ ~(t = "long" /\ s = "double")
  \/ \E s \in Sizes \ {"long"} : n[s] > 1
  \/ n["long"] > 2
  \/ n["long"] > 1 /\ n["double"] > 0

\* The orders that the state machine does not know.
BadOrder(list) ==
  \/ FirstIsInt(list) /\ Before(list, "int", {"short", "long"})
  \/ Before(list, "long", {"double"})

\* A state of the machine tells what was counted.
LEMMA AcceptsStep ==
  ASSUME NEW n \in [Sizes -> Nat], NEW type, Accepts(type, n), NEW x \in Sizes, NEW m,
         m = [n EXCEPT ![x] = @ + 1], DataTypeStep(type, x) # "conflict"
  PROVE  Accepts(DataTypeStep(type, x), m)
<1>1. CASE x = "int"
  BY <1>1 DEF Accepts, Only, DataTypeStep, IntAfter, LongAfter, Set, Sizes
<1>2. CASE x = "long"
  BY <1>2 DEF Accepts, Only, DataTypeStep, IntAfter, LongAfter, Set, Sizes
<1>3. CASE x \notin {"int", "long"}
  BY <1>3 DEF Accepts, Only, DataTypeStep, IntAfter, LongAfter, Set, Sizes
<1> QED
  BY <1>1, <1>2, <1>3

\* It refuses a specifier that clashes, or that comes too late.
LEMMA RefusesStep ==
  ASSUME NEW n \in [Sizes -> Nat], NEW type, Accepts(type, n), NEW x \in Sizes, NEW m,
         m = [n EXCEPT ![x] = @ + 1], DataTypeStep(type, x) = "conflict"
  PROVE  \/ Clash(m)
         \/ type = "int" /\ x \in {"short", "long"}
         \/ type = "long" /\ x = "double"
<1>1. /\ type \in {"unknown", "void", "char", "short", "int", "long", "longlong", "float",
                    "double", "long_double", "struct"}
      /\ type # "unknown"
  BY DEF Accepts, DataTypeStep, IntAfter, LongAfter, Set, Sizes
<1> DEFINE s == CASE type = "longlong" -> "long" [] type = "long_double" -> "double"
                  [] OTHER -> type
<1>2. s \in Sizes /\ n[s] > 0
  BY <1>1 DEF Accepts, Sizes
<1>3. /\ m \in [Sizes -> Nat] /\ m[x] = n[x] + 1
      /\ \A t \in Sizes : t # x => m[t] = n[t]
  OBVIOUS
<1>4. CASE s = x /\ type # "long"
  BY <1>1, <1>2, <1>3, <1>4 DEF Accepts, DataTypeStep, LongAfter, Set, Sizes, Clash
<1>5. CASE s # x \/ type = "long"
  BY <1>1, <1>2, <1>3, <1>5 DEF Accepts, DataTypeStep, IntAfter, LongAfter, Set, Sizes, Clash
<1> QED
  BY <1>4, <1>5

\* The counts of a list, and of a list with one specifier more.
LEMMA CountsOfList ==
  ASSUME NEW K, NEW list \in Seq(K), NEW x \in K
  PROVE  /\ Counts(list) \in [Sizes -> Nat]
         /\ \A s \in Sizes : Counts(list)[s] = 0 <=> At(list, {s}) = {}
         /\ x \in Sizes => Counts(Append(list, x)) = [Counts(list) EXCEPT ![x] = @ + 1]
         /\ x \notin Sizes => Counts(Append(list, x)) = Counts(list)
<1>1. ASSUME NEW s
      PROVE  /\ Count(list, s) \in Nat
             /\ Count(list, s) = 0 <=> At(list, {s}) = {}
             /\ Count(Append(list, x), s) = Count(list, s) + (IF x = s THEN 1 ELSE 0)
  <2>1. PICK S, a, b : /\ S = {s} /\ a = Cardinality(At(list, S))
                       /\ b = Cardinality(At(Append(list, x), S))
    OBVIOUS
  <2>2. a \in Nat /\ (a = 0 <=> At(list, S) = {}) /\ b = a + (IF x \in S THEN 1 ELSE 0)
    <3>1. /\ Cardinality(At(list, S)) \in Nat
          /\ Cardinality(At(list, S)) = 0 <=> At(list, S) = {}
          /\ Cardinality(At(Append(list, x), S)) =
               Cardinality(At(list, S)) + (IF x \in S THEN 1 ELSE 0)
      BY CountAppend
    <3> QED
      BY <2>1, <3>1
  <2>3. a = Count(list, s) /\ b = Count(Append(list, x), s)
    BY <2>1 DEF Count
  <2> QED
    BY <2>1, <2>2, <2>3
<1>2. Counts(list) \in [Sizes -> Nat]
  BY <1>1 DEF Counts
<1>3. \A s \in Sizes : Counts(list)[s] = 0 <=> At(list, {s}) = {}
  BY <1>1 DEF Counts
<1>4. CASE x \in Sizes
  <2>1. PICK n, m : n = Counts(list) /\ m = Counts(Append(list, x))
    OBVIOUS
  <2>2. /\ \A s \in Sizes : n[s] \in Nat /\ m[s] = n[s] + (IF x = s THEN 1 ELSE 0)
        /\ n = [s \in Sizes |-> n[s]] /\ m = [s \in Sizes |-> m[s]]
    BY <1>1, <2>1 DEF Counts
  <2>3. m = [n EXCEPT ![x] = @ + 1]
    BY <1>4, <2>2
  <2> QED
    BY <1>2, <1>3, <1>4, <2>1, <2>3
<1>5. CASE x \notin Sizes
  <2>1. ASSUME NEW s \in Sizes PROVE Count(Append(list, x), s) = Count(list, s)
    <3>1. PICK a, b : a = Count(list, s) /\ b = Count(Append(list, x), s)
      OBVIOUS
    <3>2. a \in Nat /\ b = a + (IF x = s THEN 1 ELSE 0)
      BY <1>1, <3>1
    <3> QED
      BY <1>5, <3>1, <3>2
  <2>2. Counts(Append(list, x)) = Counts(list)
    BY <2>1 DEF Counts
  <2> QED
    BY <1>2, <1>3, <1>5, <2>2
<1> QED
  BY <1>4, <1>5

\* A list stays badly ordered.
LEMMA BadOrderStays ==
  ASSUME NEW K, NEW list \in Seq(K), NEW x \in K, BadOrder(list)
  PROVE  BadOrder(Append(list, x))
<1>1. ASSUME NEW S PROVE /\ At(list, S) \subseteq At(Append(list, x), S)
                         /\ At(list, S) \subseteq 1..Len(list) /\ Len(list) \in Nat
                         /\ \A j \in At(Append(list, x), S) :
                              j \in At(list, S) \/ j = Len(list) + 1
  BY AtAppend
<1>2. \A t, S : Before(list, t, S) => Before(Append(list, x), t, S)
  BY <1>1 DEF Before
<1>3. FirstIsInt(list) => FirstIsInt(Append(list, x))
  <2>1. ASSUME NEW i \in At(list, {"int"}), \A j \in At(list, Sizes) : i <= j
        PROVE  FirstIsInt(Append(list, x))
    <3>1. i \in At(Append(list, x), {"int"}) /\ i \in 1..Len(list)
      BY <1>1
    <3>2. \A j \in At(Append(list, x), Sizes) : i <= j
      BY <1>1, <2>1, <3>1
    <3> QED
      BY <3>1, <3>2 DEF FirstIsInt
  <2> QED
    BY <2>1 DEF FirstIsInt
<1> QED
  BY <1>2, <1>3 DEF BadOrder

\* A specifier that comes too late makes a list badly ordered.
LEMMA TooLate ==
  ASSUME NEW K, NEW list \in Seq(K), NEW x \in K, NEW type, Accepts(type, Counts(list)),
         \/ type = "int" /\ x \in {"short", "long"}
         \/ type = "long" /\ x = "double"
  PROVE  BadOrder(Append(list, x))
<1>1. ASSUME NEW S PROVE /\ At(list, S) \subseteq At(Append(list, x), S)
                         /\ At(list, S) \subseteq 1..Len(list) /\ Len(list) \in Nat
                         /\ At(Append(list, x), S) =
                              At(list, S) \cup (IF x \in S THEN {Len(list) + 1} ELSE {})
  BY AtAppend
<1>2. \A s \in Sizes : Counts(list)[s] = 0 <=> At(list, {s}) = {}
  BY CountsOfList
<1>3. CASE type = "long"
  <2>1. Counts(list)["long"] = 1
    BY <1>3 DEF Accepts
  <2>2. PICK i : i \in At(list, {"long"})
    BY <1>2, <2>1 DEF Sizes
  <2>3. Len(list) + 1 \in At(Append(list, x), {"double"})
    BY <1>1, <1>3
  <2>4. i \in At(Append(list, x), {"long"}) /\ i < Len(list) + 1
    BY <1>1, <2>2
  <2> QED
    BY <2>3, <2>4 DEF BadOrder, Before
<1>4. CASE type = "int"
  <2>1. Counts(list)["int"] = 1 /\ \A s \in Sizes \ {"int"} : Counts(list)[s] = 0
    BY <1>4 DEF Accepts, Only
  <2>2. At(list, {"int"}) # {} /\ \A s \in Sizes \ {"int"} : At(list, {s}) = {}
    <3>1. "int" \in Sizes
      BY DEF Sizes
    <3> QED
      BY <1>2, <2>1, <3>1
  <2>3. At(list, Sizes) = At(list, {"int"})
    BY <2>2 DEF At, Sizes
  <2>4. PICK i \in At(list, {"int"}) : \A j \in At(list, {"int"}) : i <= j
    BY <1>1, <2>2, NatMin
  <2>5. i \in 1..Len(list) /\ i < Len(list) + 1 /\ i \in At(Append(list, x), {"int"})
    BY <1>1
  <2>6. \A j \in At(Append(list, x), Sizes) : i <= j
    BY <1>1, <2>3, <2>4, <2>5
  <2>7. Len(list) + 1 \in At(Append(list, x), {"short", "long"})
    BY <1>1, <1>4
  <2>8. FirstIsInt(Append(list, x)) /\ Before(Append(list, x), "int", {"short", "long"})
    BY <2>5, <2>6, <2>7 DEF FirstIsInt, Before
  <2> QED
    BY <2>8 DEF BadOrder
<1> QED
  BY <1>3, <1>4

\* What the state machine knows of a list.
Machine(list) ==
  IF Data(list) = "conflict" THEN Clash(Counts(list)) \/ BadOrder(list)
  ELSE Accepts(Data(list), Counts(list))

\* It accepts what was counted, and refuses only what clashes or is badly ordered.
LEMMA MachineReads ==
  ASSUME NEW K, NEW list \in Seq(K)
  PROVE  Machine(list)
<1> DEFINE P == {l \in Seq(K) : Machine(l)}
<1>1. <<>> \in P
  <2>1. \A s \in Sizes : Counts(<<>>)[s] = 0
    BY CountEmpty DEF Counts, Count
  <2>2. Accepts("unknown", Counts(<<>>))
    BY <2>1 DEF Accepts, Only
  <2>3. Data(<<>>) = "unknown"
    <3>1. DOMAIN <<>> = 1..0
      OBVIOUS
    <3> QED
      BY <3>1, DataSteps
  <2> QED
    BY <2>2, <2>3 DEF Machine
<1>2. ASSUME NEW l \in Seq(K), NEW x \in K, l \in P PROVE Append(l, x) \in P
  <2>1. Append(l, x) \in Seq(K)
    OBVIOUS
  <2>2. PICK n, m, type, new : /\ n = Counts(l) /\ m = Counts(Append(l, x))
                               /\ type = Data(l) /\ new = Data(Append(l, x))
    OBVIOUS
  <2>3. new = DataTypeStep(type, x)
    BY <2>2, DataAppend
  <2>4. /\ n \in [Sizes -> Nat]
        /\ x \in Sizes => m = [n EXCEPT ![x] = @ + 1]
        /\ x \notin Sizes => m = n
    BY <2>2, CountsOfList
  <2>5. IF type = "conflict" THEN Clash(n) \/ BadOrder(l) ELSE Accepts(type, n)
    BY <1>2, <2>2 DEF Machine
  <2>6. IF new = "conflict" THEN Clash(m) \/ BadOrder(Append(l, x)) ELSE Accepts(new, m)
    <3>1. CASE x \notin Sizes
      <4>1. new = type /\ m = n
        BY <2>3, <2>4, <3>1 DEF DataTypeStep, Sizes
      <4> QED
        BY <2>5, <4>1, BadOrderStays
    <3>2. CASE type = "conflict"
      <4>1. new = "conflict"
        BY <2>3, <3>2 DEF DataTypeStep, IntAfter, LongAfter, Set
      <4>2. ASSUME Clash(n) PROVE Clash(m)
        <5>1. \A s \in Sizes : m[s] \in Nat /\ n[s] \in Nat /\ m[s] >= n[s]
          BY <2>4
        <5>2. \A s \in Sizes, k \in {0, 1, 2} : n[s] > k => m[s] > k
          BY <5>1
        <5>3. "long" \in Sizes /\ "double" \in Sizes
          BY DEF Sizes
        <5> QED
          BY <4>2, <5>2, <5>3 DEF Clash
      <4> QED
        BY <2>5, <3>2, <4>1, <4>2, BadOrderStays
    <3>3. CASE x \in Sizes /\ type # "conflict" /\ new # "conflict"
      BY <2>3, <2>4, <2>5, <3>3, AcceptsStep
    <3>4. CASE x \in Sizes /\ type # "conflict" /\ new = "conflict"
      <4>1. \/ Clash(m)
            \/ type = "int" /\ x \in {"short", "long"}
            \/ type = "long" /\ x = "double"
        BY <2>3, <2>4, <2>5, <3>4, RefusesStep
      <4>2. Accepts(type, Counts(l))
        BY <2>2, <2>5, <3>4
      <4> QED
        BY <3>4, <4>1, <4>2, TooLate
    <3> QED
      BY <3>1, <3>2, <3>3, <3>4
  <2> QED
    BY <2>1, <2>2, <2>6 DEF Machine
<1>3. Seq(K) \subseteq P
  <2>1. \A l \in Seq(K), x \in K : l \in P => Append(l, x) \in P
    BY <1>2
  <2> HIDE DEF P
  <2> QED
    BY <1>1, <2>1, SeqInduct
<1> QED
  BY <1>3

-----------------------------------------------------------------------------
(* What the state machine accepts and what C does.                          *)

\* The types in terms of the counts.
NamedBy(v, c, s, i, l, f, d, u, sign) ==
  CASE c = 0 /\ s = 0 /\ i = 0 /\ l = 0 /\ f = 0 /\ d = 0 /\ u = 0 /\ v = 1 -> "void"
    [] v = 0 /\ s = 0 /\ i = 0 /\ l = 0 /\ f = 0 /\ d = 0 /\ u = 0 /\ c = 1 -> "char"
    [] v = 0 /\ c = 0 /\ l = 0 /\ f = 0 /\ d = 0 /\ u = 0 /\ s = 1 /\ i <= 1 -> "short"
    [] v = 0 /\ c = 0 /\ s = 0 /\ l = 0 /\ f = 0 /\ d = 0 /\ u = 0 /\ i = 1 -> "int"
    [] v = 0 /\ c = 0 /\ s = 0 /\ f = 0 /\ d = 0 /\ u = 0 /\ l = 1 /\ i <= 1 -> "long"
    [] v = 0 /\ c = 0 /\ s = 0 /\ f = 0 /\ d = 0 /\ u = 0 /\ l = 2 /\ i <= 1 -> "longlong"
    [] v = 0 /\ c = 0 /\ s = 0 /\ i = 0 /\ l = 0 /\ d = 0 /\ u = 0 /\ f = 1 -> "float"
    [] v = 0 /\ c = 0 /\ s = 0 /\ i = 0 /\ l = 0 /\ f = 0 /\ u = 0 /\ d = 1 -> "double"
    [] v = 0 /\ c = 0 /\ s = 0 /\ i = 0 /\ f = 0 /\ u = 0 /\ l = 1 /\ d = 1 -> "long_double"
    [] v = 0 /\ c = 0 /\ s = 0 /\ i = 0 /\ l = 0 /\ f = 0 /\ d = 0 /\ u = 1 -> "struct"
    [] v = 0 /\ c = 0 /\ s = 0 /\ i = 0 /\ l = 0 /\ f = 0 /\ d = 0 /\ u = 0 /\ sign -> "int"
    [] OTHER -> "none"

\* The type is named by the counts.
LEMMA NamedByCounts ==
  ASSUME NEW K, NEW list \in Seq(K), NEW n, n = Counts(list)
  PROVE  NamedType(list) = NamedBy(n["void"], n["char"], n["short"], n["int"], n["long"],
                                   n["float"], n["double"], n["struct"], At(list, Signs) # {})
<1>1. \A s \in Sizes : Count(list, s) = n[s]
  BY DEF Counts
<1>2. (\A s \in Sizes \ {"void"} : Count(list, s) = 0)
        <=> n["char"] = 0 /\ n["short"] = 0 /\ n["int"] = 0 /\ n["long"] = 0
            /\ n["float"] = 0 /\ n["double"] = 0 /\ n["struct"] = 0
  BY <1>1 DEF Sizes
<1>3. (\A s \in Sizes \ {"char"} : Count(list, s) = 0)
        <=> n["void"] = 0 /\ n["short"] = 0 /\ n["int"] = 0 /\ n["long"] = 0
            /\ n["float"] = 0 /\ n["double"] = 0 /\ n["struct"] = 0
  BY <1>1 DEF Sizes
<1>4. (\A s \in Sizes \ {"short", "int"} : Count(list, s) = 0)
        <=> n["void"] = 0 /\ n["char"] = 0 /\ n["long"] = 0 /\ n["float"] = 0
            /\ n["double"] = 0 /\ n["struct"] = 0
  BY <1>1 DEF Sizes
<1>5. (\A s \in Sizes \ {"int"} : Count(list, s) = 0)
        <=> n["void"] = 0 /\ n["char"] = 0 /\ n["short"] = 0 /\ n["long"] = 0
            /\ n["float"] = 0 /\ n["double"] = 0 /\ n["struct"] = 0
  BY <1>1 DEF Sizes
<1>6. (\A s \in Sizes \ {"long", "int"} : Count(list, s) = 0)
        <=> n["void"] = 0 /\ n["char"] = 0 /\ n["short"] = 0 /\ n["float"] = 0
            /\ n["double"] = 0 /\ n["struct"] = 0
  BY <1>1 DEF Sizes
<1>7. (\A s \in Sizes \ {"float"} : Count(list, s) = 0)
        <=> n["void"] = 0 /\ n["char"] = 0 /\ n["short"] = 0 /\ n["int"] = 0
            /\ n["long"] = 0 /\ n["double"] = 0 /\ n["struct"] = 0
  BY <1>1 DEF Sizes
<1>8. (\A s \in Sizes \ {"double"} : Count(list, s) = 0)
        <=> n["void"] = 0 /\ n["char"] = 0 /\ n["short"] = 0 /\ n["int"] = 0
            /\ n["long"] = 0 /\ n["float"] = 0 /\ n["struct"] = 0
  BY <1>1 DEF Sizes
<1>9. (\A s \in Sizes \ {"long", "double"} : Count(list, s) = 0)
        <=> n["void"] = 0 /\ n["char"] = 0 /\ n["short"] = 0 /\ n["int"] = 0
            /\ n["float"] = 0 /\ n["struct"] = 0
  BY <1>1 DEF Sizes
<1>10. (\A s \in Sizes \ {"struct"} : Count(list, s) = 0)
        <=> n["void"] = 0 /\ n["char"] = 0 /\ n["short"] = 0 /\ n["int"] = 0
            /\ n["long"] = 0 /\ n["float"] = 0 /\ n["double"] = 0
  BY <1>1 DEF Sizes
<1>11. At(list, Sizes) = {} <=> n["void"] = 0 /\ n["char"] = 0 /\ n["short"] = 0
                                /\ n["int"] = 0 /\ n["long"] = 0 /\ n["float"] = 0
                                /\ n["double"] = 0 /\ n["struct"] = 0
  <2>1. At(list, Sizes) = {} <=> \A s \in Sizes : At(list, {s}) = {}
    BY DEF At
  <2>2. \A s \in Sizes : Count(list, s) = 0 <=> At(list, {s}) = {}
    BY CountsFinite DEF Count
  <2>3. At(list, Sizes) = {} <=> \A s \in Sizes : n[s] = 0
    BY <1>1, <2>1, <2>2
  <2> QED
    BY <2>3 DEF Sizes
<1>12. /\ Count(list, "void") = n["void"]
      /\ Count(list, "char") = n["char"]
      /\ Count(list, "short") = n["short"]
      /\ Count(list, "int") = n["int"]
      /\ Count(list, "long") = n["long"]
      /\ Count(list, "float") = n["float"]
      /\ Count(list, "double") = n["double"]
      /\ Count(list, "struct") = n["struct"]
  BY <1>1 DEF Sizes
<1> QED
  BY <1>2, <1>3, <1>4, <1>5, <1>6, <1>7, <1>8, <1>9, <1>10, <1>11, <1>12 DEF NamedType, NamedBy

\* The type the machine ends with is the one C names, if C names one or int is not
\* there twice.
LEMMA NamedIsData ==
  ASSUME NEW K, NEW list \in Seq(K), NEW type, type # "unknown",
         Accepts(type, Counts(list)), Count(list, "int") <= 1 \/ NamedType(list) # "none"
  PROVE  NamedType(list) = type
<1>1. PICK n : n = Counts(list)
  OBVIOUS
<1>2. n \in [Sizes -> Nat] /\ Accepts(type, n)
  <2>1. \A s \in Sizes : Count(list, s) \in Nat
    BY CountsFinite DEF Count
  <2> QED
    BY <1>1, <2>1 DEF Counts, Sizes
<1>3. PICK named : named = NamedType(list)
  OBVIOUS
<1>4. named = NamedBy(n["void"], n["char"], n["short"], n["int"], n["long"], n["float"],
                      n["double"], n["struct"], At(list, Signs) # {})
  BY <1>1, <1>3, NamedByCounts
<1>5. n["int"] <= 1 \/ named # "none"
  BY <1>1, <1>3 DEF Counts, Sizes
<1>6. n["int"] <= 1
  BY <1>2, <1>4, <1>5 DEF NamedBy, Accepts, Only, Sizes
<1>7. named = type
  BY <1>2, <1>4, <1>6 DEF NamedBy, Accepts, Only, Sizes
<1> QED
  BY <1>3, <1>7

\* What clashes has no type.
LEMMA ClashHasNone ==
  ASSUME NEW K, NEW list \in Seq(K), Clash(Counts(list))
  PROVE  NamedType(list) = "none"
<1>1. PICK n : n = Counts(list)
  OBVIOUS
<1>2. n \in [Sizes -> Nat] /\ Clash(n)
  <2>1. \A s \in Sizes : Count(list, s) \in Nat
    BY CountsFinite DEF Count
  <2> QED
    BY <1>1, <2>1 DEF Counts, Sizes
<1>3. NamedBy(n["void"], n["char"], n["short"], n["int"], n["long"], n["float"], n["double"],
              n["struct"], At(list, Signs) # {}) = "none"
  BY <1>2 DEF NamedBy, Clash, Sizes
<1> QED
  BY <1>1, <1>3, NamedByCounts

\* Without a size specifier a list has a type if it has a sign.
LEMMA UnknownHasSign ==
  ASSUME NEW K, NEW list \in Seq(K), Accepts("unknown", Counts(list))
  PROVE  /\ At(list, Sizes) = {}
         /\ NamedType(list) = IF At(list, Signs) = {} THEN "none" ELSE "int"
<1>1. \A s \in Sizes : Count(list, s) = 0
  BY DEF Accepts, Only, Counts
<1>2. At(list, Sizes) = {}
  <2>1. \A s \in Sizes : At(list, {s}) = {}
    BY <1>1, CountsFinite DEF Count
  <2> QED
    BY <2>1 DEF At
<1> QED
  BY <1>1, <1>2 DEF NamedType, Sizes

\* A set with more than one element has two.
LEMMA TwoElements ==
  ASSUME NEW T, IsFiniteSet(T), Cardinality(T) > 1
  PROVE  \E x, y \in T : x # y
<1>1. PICK c : c = Cardinality(T)
  OBVIOUS
<1>2. c > 1
  BY <1>1
<1>3. SUFFICES ASSUME \A x, y \in T : x = y PROVE FALSE
  OBVIOUS
<1>4. CASE T = {}
  <2>1. c = 0
    BY <1>1, <1>4, FS_EmptySet
  <2> QED
    BY <1>2, <2>1
<1>5. CASE T # {}
  <2>1. PICK x : T = {x}
    BY <1>3, <1>5
  <2>2. c = 1
    BY <1>1, <2>1, FS_Singleton
  <2> QED
    BY <1>2, <2>2
<1> QED
  BY <1>4, <1>5

\* What is no conflict and not one of the forms is a type of C.
LEMMA AcceptedSpecifiers ==
  ASSUME NEW K, NEW list \in Seq(K), ~Conflict(list),
         ~Before(list, "int", {"int"}),
         At(list, Sizes) # {} \/ At(list, Signs) # {},
         At(list, Signs) = {} \/ At(list, {"void", "float", "double", "struct"}) = {}
  PROVE  LegalInC(list)
<1>1. Accepts(Data(list), Counts(list))
  BY MachineReads DEF Machine, Conflict
<1>2. Cardinality(At(list, Signs)) <= 1
  <2>1. PICK c : c = Cardinality(At(list, Signs))
    OBVIOUS
  <2>2. c \in Nat /\ ~(c > 1)
    BY <2>1, CountsFinite DEF Conflict
  <2> QED
    BY <2>1, <2>2
<1>3. CASE Data(list) = "unknown"
  <2>1. /\ At(list, Sizes) = {}
        /\ NamedType(list) = IF At(list, Signs) = {} THEN "none" ELSE "int"
    BY <1>1, <1>3, UnknownHasSign
  <2>2. At(list, Signs) # {}
    BY <2>1
  <2> QED
    BY <1>2, <2>1, <2>2 DEF LegalInC, IntegerTypes
<1>4. CASE Data(list) # "unknown"
  <2>1. Count(list, "int") <= 1
    <3>1. SUFFICES ASSUME ~(Count(list, "int") <= 1) PROVE FALSE
      OBVIOUS
    <3>2. PICK c : c = Cardinality(At(list, {"int"}))
      OBVIOUS
    <3>3. c \in Nat /\ c > 1
      <4>1. c \in Nat /\ ~(c <= 1)
        BY <3>1, <3>2, CountsFinite DEF Count
      <4> QED
        BY <4>1
    <3>4. IsFiniteSet(At(list, {"int"}))
      BY CountsFinite
    <3>5. PICK i, j : i \in At(list, {"int"}) /\ j \in At(list, {"int"}) /\ i # j
      BY <3>2, <3>3, <3>4, TwoElements
    <3>6. i \in Nat /\ j \in Nat
      BY <3>5, SeqIsFunction DEF At
    <3>7. i < j \/ j < i
      BY <3>5, <3>6
    <3>8. Before(list, "int", {"int"})
      BY <3>5, <3>7 DEF Before
    <3> QED
      BY <3>8
  <2>2. NamedType(list) = Data(list)
    BY <1>1, <1>4, <2>1, NamedIsData
  <2>3. Data(list) # "none"
    BY <1>1 DEF Accepts
  <2>4. ASSUME At(list, Signs) # {} PROVE Data(list) \in IntegerTypes
    <3>1. At(list, {"void", "float", "double", "struct"}) = {}
      BY <2>4
    <3>2. \A s \in {"void", "float", "double", "struct"} : At(list, {s}) = {}
      BY <3>1 DEF At
    <3>3. \A s \in {"void", "float", "double", "struct"} : Counts(list)[s] = 0
      <4>1. \A s \in {"void", "float", "double", "struct"} : s \in Sizes
        BY DEF Sizes
      <4> QED
        BY <3>2, <4>1, CountsFinite DEF Counts, Count
    <3> QED
      BY <1>1, <1>4, <3>3 DEF Accepts, IntegerTypes
  <2> QED
    BY <1>2, <2>2, <2>3, <2>4 DEF LegalInC
<1> QED
  BY <1>3, <1>4

\* What is a conflict and not in one of the orders is no type of C.
LEMMA RefusedSpecifiers ==
  ASSUME NEW K, NEW list \in Seq(K), Conflict(list),
         ~BadOrder(list)
  PROVE  ~LegalInC(list)
<1>1. CASE Cardinality(At(list, Signs)) > 1
  <2>1. PICK c : c = Cardinality(At(list, Signs))
    OBVIOUS
  <2>2. c \in Nat /\ c > 1
    BY <1>1, <2>1, CountsFinite
  <2>3. ~(c <= 1)
    BY <2>2
  <2> QED
    BY <2>1, <2>3 DEF LegalInC
<1>2. CASE Data(list) = "conflict"
  <2>1. Clash(Counts(list)) \/ BadOrder(list)
    BY <1>2, MachineReads DEF Machine
  <2> QED
    BY <2>1, ClashHasNone DEF LegalInC
<1> QED
  BY <1>1, <1>2 DEF Conflict

SignOf(list) == IF At(list, {"unsigned"}) = {} THEN "signed" ELSE "unsigned"

\* The nodes made of a list are the type C gives it, with a sign in front of what
\* is a scalar.
LEMMA DataTypeIsCType ==
  ASSUME NEW K, NEW list \in Seq(K), LegalInC(list), ~Conflict(list),
         At(list, Sizes) # {} \/ At(list, Signs) = {}
  PROVE  /\ Data(list) \in {"void", "char", "short", "int", "long", "longlong", "float",
                             "double", "long_double", "struct"}
         /\ DataType(list) = IF Data(list) = "struct" THEN <<Node(Data(list))>>
                             ELSE <<Node(SignOf(list)), Node(Data(list))>>
         /\ CType(list) = IF Data(list) \in IntegerTypes THEN <<SignOf(list), Data(list)>>
                          ELSE <<Data(list)>>
<1>1. Accepts(Data(list), Counts(list))
  BY MachineReads DEF Machine, Conflict
<1>2. Data(list) # "unknown"
  <2>1. ASSUME Data(list) = "unknown" PROVE FALSE
    <3>1. /\ At(list, Sizes) = {}
          /\ NamedType(list) = IF At(list, Signs) = {} THEN "none" ELSE "int"
      BY <1>1, <2>1, UnknownHasSign
    <3> QED
      BY <3>1 DEF LegalInC
  <2> QED
    BY <2>1
<1>3. NamedType(list) = Data(list)
  BY <1>1, <1>2, NamedIsData DEF LegalInC
<1>4. Data(list) \in {"void", "char", "short", "int", "long", "longlong", "float",
                      "double", "long_double", "struct"}
  BY <1>1, <1>2 DEF Accepts
<1>5. DataType(list) = IF Data(list) = "struct" THEN <<Node(Data(list))>>
                       ELSE <<Node(SignOf(list)), Node(Data(list))>>
  BY <1>2 DEF DataType, SignOf
<1>6. Count(list, "unsigned") = 1 <=> At(list, {"unsigned"}) # {}
  <2>1. PICK a, c : a = Cardinality(At(list, {"unsigned"})) /\ c = Cardinality(At(list, Signs))
    OBVIOUS
  <2>2. a \in Nat /\ c \in Nat /\ (a = 0 <=> At(list, {"unsigned"}) = {})
    <3>1. /\ Cardinality(At(list, {"unsigned"})) \in Nat
          /\ Cardinality(At(list, {"unsigned"})) = 0 <=> At(list, {"unsigned"}) = {}
          /\ Cardinality(At(list, Signs)) \in Nat
      BY CountsFinite
    <3> QED
      BY <2>1, <3>1
  <2>3. a <= c
    <3>1. At(list, {"unsigned"}) \subseteq At(list, Signs) /\ IsFiniteSet(At(list, Signs))
      BY CountsFinite DEF At, Signs
    <3>2. Cardinality(At(list, {"unsigned"})) <= Cardinality(At(list, Signs))
      BY <3>1, FS_Subset
    <3> QED
      BY <2>1, <3>2
  <2>4. c <= 1
    BY <2>1 DEF LegalInC
  <2> QED
    <3>1. a = 1 <=> a # 0
      BY <2>2, <2>3, <2>4
    <3>2. Count(list, "unsigned") = a
      BY <2>1 DEF Count
    <3> QED
      BY <2>2, <3>1, <3>2, Zenon
<1>7. CType(list) = IF Data(list) \in IntegerTypes THEN <<SignOf(list), Data(list)>>
                    ELSE <<Data(list)>>
  BY <1>3, <1>6 DEF CType, SignOf
<1> QED
  BY <1>4, <1>5, <1>7

-----------------------------------------------------------------------------
(* Reading a declarator.                                                    *)
Tokens == {"*", "(", ")", "identifier", "[]", "()"}

Kinds == {"PTR", "ARRAY", "FUNCTION"}

TokenAt(tks, i) == IF i \in 1..Len(tks) THEN tks[i] ELSE "end"

\* What is read from l and r, when f says what is read from there on.
ReadingStep(tks, f, l, r) ==
  CASE TokenAt(tks, r) = "[]" -> <<"ARRAY">> \o f[<<l, r + 1>>]
    [] TokenAt(tks, r) = "()" -> <<"FUNCTION">> \o f[<<l, r + 1>>]
    [] TokenAt(tks, r) \notin {"[]", "()"} /\ TokenAt(tks, l) = "*" ->
         <<"PTR">> \o f[<<l - 1, r>>]
    [] TokenAt(tks, r) = ")" /\ TokenAt(tks, l) = "(" -> f[<<l - 1, r + 1>>]
    [] OTHER -> <<>>

\* Readings is what its recursive definition says: what is left to read shrinks.
LEMMA ReadingsEquation ==
  ASSUME NEW S, NEW tks \in Seq(S), NEW l \in 0..Len(tks), NEW r \in 1..Len(tks) + 1
  PROVE  Readings(tks)[<<l, r>>] = ReadingStep(tks, Readings(tks), l, r)
<1> DEFINE n == Len(tks)
           D == (0..n) \X (1..n + 1)
           From == CHOOSE f : f = [at \in D |-> ReadingStep(tks, f, at[1], at[2])]
           Left(at) == at[1] + (n + 1 - at[2])
           Upto(k, f) == \A at \in D : Left(at) < k => f[at] = ReadingStep(tks, f, at[1], at[2])
           T == {k \in Nat : \E f : Upto(k, f) /\ f = [at \in D |-> f[at]]}
<1>1. Readings(tks) = From
  BY DEF Readings, ReadingStep, TokenAt
<1>2. n \in Nat
  BY SeqIsFunction
<1> HIDE DEF n
<1>3. ASSUME NEW f, NEW g, NEW at \in D,
             \A other \in D : Left(other) < Left(at) => f[other] = g[other]
      PROVE  ReadingStep(tks, f, at[1], at[2]) = ReadingStep(tks, g, at[1], at[2])
  <2>1. PICK a, b : at = <<a, b>> /\ a \in 0..n /\ b \in 1..n + 1
    OBVIOUS
  <2>2. ASSUME NEW c \in 0..n, NEW d \in 1..n + 1, c + (n + 1 - d) < a + (n + 1 - b)
        PROVE  f[<<c, d>>] = g[<<c, d>>]
    <3>1. <<c, d>> \in D
      OBVIOUS
    <3>2. Left(<<c, d>>) < Left(at)
      BY <2>1, <2>2
    <3> QED
      BY <1>3, <3>1, <3>2
  <2>3. TokenAt(tks, b) # "end" => b + 1 \in 1..n + 1 /\ a + (n + 1 - (b + 1)) < a + (n + 1 - b)
    BY <1>2, <2>1 DEF TokenAt, n
  <2>4. TokenAt(tks, a) # "end" => a - 1 \in 0..n /\ a - 1 + (n + 1 - b) < a + (n + 1 - b)
    BY <1>2, <2>1 DEF TokenAt, n
  <2>5. TokenAt(tks, b) # "end" => f[<<a, b + 1>>] = g[<<a, b + 1>>]
    BY <2>1, <2>2, <2>3
  <2>6. TokenAt(tks, a) # "end" => f[<<a - 1, b>>] = g[<<a - 1, b>>]
    BY <2>1, <2>2, <2>4
  <2>7. TokenAt(tks, a) # "end" /\ TokenAt(tks, b) # "end" =>
          f[<<a - 1, b + 1>>] = g[<<a - 1, b + 1>>]
    <3>1. ASSUME TokenAt(tks, a) # "end", TokenAt(tks, b) # "end"
          PROVE  a - 1 + (n + 1 - (b + 1)) < a + (n + 1 - b)
      BY <1>2, <2>1
    <3> QED
      BY <2>1, <2>2, <2>3, <2>4, <3>1
  <2> QED
    BY <2>1, <2>5, <2>6, <2>7 DEF ReadingStep
<1> HIDE DEF D, Left
<1>4. 0 \in T
  <2>1. \A at \in D : ~(Left(at) < 0)
    BY <1>2 DEF D, Left
  <2>2. Upto(0, [at \in D |-> <<>>])
    BY <2>1
  <2>3. [at \in D |-> <<>>] = [at \in D |-> [x \in D |-> <<>>][at]]
    OBVIOUS
  <2> HIDE DEF Upto
  <2> QED
    BY <2>2, <2>3
<1>5. ASSUME NEW k \in Nat, k \in T PROVE k + 1 \in T
  <2>1. PICK f : Upto(k, f) /\ f = [at \in D |-> f[at]]
    BY <1>5
  <2> DEFINE g == [at \in D |-> ReadingStep(tks, f, at[1], at[2])]
  <2>2. ASSUME NEW at \in D, Left(at) < k + 1 PROVE g[at] = ReadingStep(tks, g, at[1], at[2])
    <3>1. ASSUME NEW other \in D, Left(other) < Left(at) PROVE f[other] = g[other]
      <4>1. Left(at) \in Int /\ Left(other) \in Int
        BY <1>2 DEF D, Left
      <4>2. PICK a, b : a = Left(at) /\ b = Left(other)
        OBVIOUS
      <4>3. b < k
        BY <2>2, <3>1, <4>1, <4>2
      <4> QED
        BY <2>1, <4>2, <4>3
    <3> HIDE DEF g
    <3>2. ReadingStep(tks, f, at[1], at[2]) = ReadingStep(tks, g, at[1], at[2])
      BY <1>3, <3>1
    <3> QED
      BY <3>2 DEF g
  <2>3. Upto(k + 1, g) /\ g = [at \in D |-> g[at]]
    <3> HIDE DEF g
    <3>1. Upto(k + 1, g)
      BY <2>2
    <3>2. g = [at \in D |-> g[at]]
      BY DEF g
    <3> QED
      BY <3>1, <3>2
  <2>4. k + 1 \in Nat
    OBVIOUS
  <2> HIDE DEF g, Upto
  <2> QED
    BY <2>3, <2>4
<1>6. \E f : f = [at \in D |-> ReadingStep(tks, f, at[1], at[2])]
  <2>1. Nat \subseteq T
    <3>1. \A k \in Nat : k \in T => k + 1 \in T
      BY <1>5
    <3> HIDE DEF T
    <3> QED
      BY <1>4, <3>1, NatInduct
  <2>2. n + n + 2 \in T
    <3>1. n + n + 2 \in Nat
      BY <1>2
    <3> HIDE DEF T
    <3> QED
      BY <2>1, <3>1
  <2>3. PICK f : Upto(n + n + 2, f) /\ f = [at \in D |-> f[at]]
    BY <2>2
  <2>4. ASSUME NEW at \in D PROVE f[at] = ReadingStep(tks, f, at[1], at[2])
    <3>1. Left(at) < n + n + 2
      BY <1>2 DEF D, Left
    <3> QED
      BY <2>3, <3>1
  <2> QED
    BY <2>3, <2>4
<1>7. From = [at \in D |-> ReadingStep(tks, From, at[1], at[2])]
  <2> DEFINE Body(f) == [at \in D |-> ReadingStep(tks, f, at[1], at[2])]
  <2>1. From = CHOOSE f : f = Body(f)
    OBVIOUS
  <2>2. \E f : f = Body(f)
    BY <1>6
  <2> HIDE DEF Body, From
  <2>3. From = Body(From)
    BY <2>1, <2>2
  <2> QED
    BY <2>3 DEF Body
<1>8. <<l, r>> \in D
  BY DEF D, n
<1> HIDE DEF From
<1>9. From[<<l, r>>] = ReadingStep(tks, From, <<l, r>>[1], <<l, r>>[2])
  BY <1>7, <1>8
<1> QED
  BY <1>1, <1>9

\* What is read are derivations.
LEMMA ReadingsType ==
  ASSUME NEW S, NEW tks \in Seq(S), NEW l \in 0..Len(tks), NEW r \in 1..Len(tks) + 1
  PROVE  Readings(tks)[<<l, r>>] \in Seq(Kinds)
<1> DEFINE n == Len(tks)
           f == Readings(tks)
           T == {k \in Nat : \A a \in 0..n, b \in 1..n + 1 :
                   a + (n + 1 - b) < k => f[<<a, b>>] \in Seq(Kinds)}
<1>1. n \in Nat
  BY SeqIsFunction
<1>2. 0 \in T
  BY <1>1
<1>3. ASSUME NEW k \in Nat, k \in T PROVE k + 1 \in T
  <2>1. ASSUME NEW a \in 0..n, NEW b \in 1..n + 1, a + (n + 1 - b) < k + 1
        PROVE  f[<<a, b>>] \in Seq(Kinds)
    <3>1. f[<<a, b>>] = ReadingStep(tks, f, a, b)
      BY ReadingsEquation
    <3>2. TokenAt(tks, b) # "end" => b + 1 \in 1..n + 1 /\ a + (n + 1 - (b + 1)) < k
      BY <1>1, <2>1 DEF TokenAt
    <3>3. TokenAt(tks, a) # "end" => a - 1 \in 0..n /\ a - 1 + (n + 1 - b) < k
      BY <1>1, <2>1 DEF TokenAt
    <3>4. TokenAt(tks, b) # "end" => f[<<a, b + 1>>] \in Seq(Kinds)
      BY <1>3, <3>2
    <3>5. TokenAt(tks, a) # "end" => f[<<a - 1, b>>] \in Seq(Kinds)
      BY <1>3, <3>3
    <3>6. TokenAt(tks, a) # "end" /\ TokenAt(tks, b) # "end" =>
            f[<<a - 1, b + 1>>] \in Seq(Kinds)
      <4>1. ASSUME TokenAt(tks, a) # "end", TokenAt(tks, b) # "end"
            PROVE  a - 1 + (n + 1 - (b + 1)) < k
        BY <1>1, <2>1, <3>2, <3>3, <4>1
      <4> QED
        BY <1>3, <3>2, <3>3, <4>1
    <3>7. /\ \A x \in Seq(Kinds) : <<"ARRAY">> \o x \in Seq(Kinds)
          /\ \A x \in Seq(Kinds) : <<"FUNCTION">> \o x \in Seq(Kinds)
          /\ \A x \in Seq(Kinds) : <<"PTR">> \o x \in Seq(Kinds)
          /\ <<>> \in Seq(Kinds)
      BY ConcatProperties DEF Kinds
    <3> HIDE DEF f, n
    <3> QED
      BY <3>1, <3>4, <3>5, <3>6, <3>7 DEF ReadingStep
  <2> HIDE DEF f, n
  <2> QED
    BY <2>1
<1>4. l + (n + 1 - r) + 1 \in T
  <2>1. \A k \in Nat : k \in T => k + 1 \in T
    BY <1>3
  <2>2. l + (n + 1 - r) + 1 \in Nat
    BY <1>1
  <2> HIDE DEF T
  <2> QED
    BY <1>2, <2>1, <2>2, NatInduct
<1>5. l + (n + 1 - r) < l + (n + 1 - r) + 1
  BY <1>1
<1> HIDE DEF f
<1>6. f[<<l, r>>] \in Seq(Kinds)
  BY <1>4, <1>5
<1> QED
  BY <1>6 DEF f

\* k pointers.
Pointers(k) == [i \in 1..k |-> "PTR"]

\* One pointer more.
LEMMA PointersAppend ==
  ASSUME NEW k \in Nat, NEW x \in Seq(Kinds)
  PROVE  /\ Pointers(k) \in Seq(Kinds) /\ Pointers(0) = <<>>
         /\ Pointers(k) \o (<<"PTR">> \o x) = Pointers(k + 1) \o x
<1>1. \A j \in Nat : Pointers(j) \in Seq(Kinds) /\ Len(Pointers(j)) = j
  BY DEF Pointers, Kinds
<1>2. Pointers(0) = <<>>
  BY <1>1, EmptySeq
<1>3. PICK p, q, one : p = Pointers(k) /\ q = Pointers(k + 1) /\ one = <<"PTR">>
  OBVIOUS
<1>4. p \in Seq(Kinds) /\ Len(p) = k /\ q \in Seq(Kinds) /\ Len(q) = k + 1
  BY <1>1, <1>3
<1>5. one \in Seq(Kinds) /\ Len(one) = 1 /\ one[1] = "PTR"
  BY <1>3 DEF Kinds
<1>6. p \o (one \o x) = (p \o one) \o x
  BY <1>4, <1>5
<1>7. PICK c : c = p \o one
  OBVIOUS
<1>8. c \in Seq(Kinds) /\ Len(c) = k + 1 /\ (\A i \in 1..k : c[i] = p[i]) /\ c[k + 1] = one[1]
  <2>1. /\ c \in Seq(Kinds) /\ Len(c) = Len(p) + Len(one)
        /\ \A i \in 1..Len(p) : c[i] = p[i]
        /\ \A i \in 1..Len(one) : c[Len(p) + i] = one[i]
    <3>1. p \in Seq(Kinds) /\ one \in Seq(Kinds) /\ c = p \o one
      BY <1>4, <1>5, <1>7
    <3> HIDE DEF Kinds
    <3> QED
      BY <3>1, ConcatParts
  <2>2. Len(c) = k + 1 /\ \A i \in 1..k : c[i] = p[i]
    BY <1>4, <1>5, <2>1
  <2>3. c[k + 1] = one[1]
    <3>1. 1 \in 1..Len(one)
      BY <1>5
    <3>2. c[Len(p) + 1] = one[1]
      BY <2>1, <3>1
    <3> QED
      BY <1>4, <3>2
  <2> QED
    BY <2>1, <2>2, <2>3
<1>9. \A i \in 1..k + 1 : c[i] = q[i]
  <2>1. \A i \in 1..k : p[i] = "PTR"
    BY <1>3 DEF Pointers
  <2>2. \A i \in 1..k + 1 : q[i] = "PTR"
    BY <1>3 DEF Pointers
  <2> QED
    BY <1>5, <1>8, <2>1, <2>2
<1>10. c = q
  BY <1>4, <1>8, <1>9, SeqEqual
<1> QED
  BY <1>1, <1>2, <1>3, <1>6, <1>7, <1>10

\* The stars of a declarator are read one after the other.
LEMMA StarsAreRead ==
  ASSUME NEW S, NEW tks \in Seq(S), NEW l \in 0..Len(tks), NEW r \in 1..Len(tks) + 1,
         TokenAt(tks, r) \notin {"[]", "()"},
         NEW k \in 0..l, \A i \in l - k + 1..l : tks[i] = "*"
  PROVE  Readings(tks)[<<l, r>>] = Pointers(k) \o Readings(tks)[<<l - k, r>>]
<1> DEFINE f == Readings(tks)
           T == {j \in Nat : j <= k => f[<<l, r>>] = Pointers(j) \o f[<<l - j, r>>]}
<1>1. Len(tks) \in Nat
  BY SeqIsFunction
<1>2. \A j \in 0..k : l - j \in 0..Len(tks) /\ f[<<l - j, r>>] \in Seq(Kinds)
  BY <1>1, ReadingsType
<1> HIDE DEF f
<1>3. 0 \in T
  <2>1. f[<<l - 0, r>>] = f[<<l, r>>] /\ f[<<l - 0, r>>] \in Seq(Kinds)
    <3>1. l - 0 = l /\ 0 \in 0..k
      BY <1>1
    <3> QED
      BY <1>2, <3>1
  <2>2. Pointers(0) = <<>>
    BY <2>1, PointersAppend
  <2>3. \A x \in Seq(Kinds) : <<>> \o x = x
    OBVIOUS
  <2> QED
    BY <2>1, <2>2, <2>3
<1>4. ASSUME NEW j \in Nat, j \in T PROVE j + 1 \in T
  <2>1. ASSUME j + 1 <= k PROVE f[<<l, r>>] = Pointers(j + 1) \o f[<<l - (j + 1), r>>]
    <3>1. /\ l - j \in 1..Len(tks) /\ l - j \in 0..Len(tks) /\ l - j \in l - k + 1..l
          /\ (l - j) - 1 = l - (j + 1) /\ j + 1 \in 0..k
      BY <1>1, <2>1
    <3>2. f[<<l, r>>] = Pointers(j) \o f[<<l - j, r>>]
      <4>1. j <= k
        BY <2>1
      <4> QED
        BY <1>4, <4>1
    <3>3. TokenAt(tks, l - j) = "*"
      BY <3>1 DEF TokenAt
    <3>4. f[<<l - j, r>>] = ReadingStep(tks, f, l - j, r)
      BY <3>1, ReadingsEquation DEF f
    <3>5. ReadingStep(tks, f, l - j, r) = <<"PTR">> \o f[<<(l - j) - 1, r>>]
      BY <3>3 DEF ReadingStep
    <3>6. f[<<l - (j + 1), r>>] \in Seq(Kinds)
      BY <1>2, <3>1
    <3>7. PICK x : x = f[<<l - (j + 1), r>>] /\ x \in Seq(Kinds)
      BY <3>6
    <3>8. f[<<l - j, r>>] = <<"PTR">> \o x
      BY <3>1, <3>4, <3>5, <3>7
    <3>9. Pointers(j) \o (<<"PTR">> \o x) = Pointers(j + 1) \o x
      BY <3>7, PointersAppend
    <3> QED
      BY <3>2, <3>7, <3>8, <3>9, Zenon
  <2>2. j + 1 \in Nat
    OBVIOUS
  <2> QED
    BY <2>1, <2>2
<1>5. k \in T
  <2>1. \A j \in Nat : j \in T => j + 1 \in T
    BY <1>4
  <2> HIDE DEF T
  <2> QED
    BY <1>3, <2>1, NatInduct
<1>6. k <= k
  OBVIOUS
<1>7. f[<<l, r>>] = Pointers(k) \o f[<<l - k, r>>]
  BY <1>5, <1>6
<1> QED
  BY <1>7 DEF f

\* f reads tks with k stars between b and l, and what is at r is no suffix.
InFront(tks, f, r, l, k, b) ==
  /\ tks \in Seq(Tokens) /\ k \in 0..l /\ b = l - k
  /\ f = Readings(tks) /\ r \in 1..Len(tks) + 1 /\ l \in 0..Len(tks)
  /\ TokenAt(tks, r) # "[]" /\ TokenAt(tks, r) # "()"
  /\ \A i \in b + 1..l : tks[i] = "*"

\* The reading of the stars is k pointers, and that of the rest.
PointersRead(f, r, l, k, b) == f[<<l, r>>] = Pointers(k) \o f[<<b, r>>]

\* The stars in front of what stops the suffixes are as many pointers.
LEMMA PointersInFront ==
  ASSUME NEW tks, NEW f, NEW r, NEW l, NEW k, NEW b, InFront(tks, f, r, l, k, b)
  PROVE  PointersRead(f, r, l, k, b)
BY StarsAreRead DEF InFront, PointersRead

-----------------------------------------------------------------------------
(* The open declarators and the text that was read for them.                *)

\* What the chains and the declarators are made of.
ChainNodes == [kind : Kinds, returns : {<<>>}]
Declarators == [stars : Seq(BOOLEAN), type : Seq(ChainNodes), nodes : Seq(ChainNodes),
                direct : BOOLEAN]

\* The kinds of the nodes of a chain.
KindsOf(type) == [i \in DOMAIN type |-> type[i].kind]

\* Behind its stars nothing of the declarator was read.
Fresh(d) == d.type = <<>> /\ d.nodes = <<>> /\ ~d.direct

\* The stars of the j-th open declarator end at ends[j] in the text t; the one
\* behind it begins with a parenthesis.
StarsEndAt(ends, ds, t, j) ==
  LET k == Len(ds[j].stars)
  IN  /\ k <= ends[j] /\ ends[j] <= Len(t)
      /\ \A i \in ends[j] - k + 1..ends[j] : t[i] = "*"
      /\ IF j = 1 THEN ends[1] = k
         ELSE ends[j] - k = ends[j - 1] + 1 /\ t[ends[j] - k] = "("

\* Read from the identifier at id, whatever text goes on from t begins with the kinds k
\* and goes on to the left of what ends at end.
ReadOn(id, end, k, t) ==
  \A rest \in Seq(Tokens) :
    Readings(t \o rest)[<<id - 1, id + 1>>] = k \o Readings(t \o rest)[<<end, Len(t) + 1>>]

\* Behind the identifier the innermost declarator has read what its type and its
\* nodes say.
ReadSoFar(end, d, t) ==
  IF d.direct
  THEN \E id \in 1..Len(t) :
         /\ end < id
         /\ \A i \in 1..Len(t) : t[i] = "identifier" <=> i = id
         /\ ReadOn(id, end, KindsOf(d.type \o d.nodes), t)
  ELSE /\ Fresh(d) /\ end = Len(t)
       /\ \A i \in 1..Len(t) : t[i] # "identifier"

\* The open declarators say what was read of the text.
OpenOK(ds, t) ==
  \E ends \in [1..Len(ds) -> Nat] :
    /\ \A j \in 1..Len(ds) : StarsEndAt(ends, ds, t, j)
    /\ \A j \in 1..Len(ds) - 1 : Fresh(ds[j])
    /\ ReadSoFar(ends[Len(ds)], ds[Len(ds)], t)

\* ... and there are some.
Opened(ds, t) == ds \in Seq(Declarators) /\ ds # <<>> /\ OpenOK(ds, t)

\* A sequence with elements.
LEMMA NotEmpty ==
  ASSUME NEW S, NEW s \in Seq(S), NEW m \in Nat, Len(s) = m + 1 \/ (m # 0 /\ Len(s) = m)
  PROVE  s # <<>>
OBVIOUS

\* The last element is replaced.
LEMMA LastReplaced ==
  ASSUME NEW S, NEW s \in Seq(S), NEW m \in Nat, Len(s) = m + 1, NEW d \in S, NEW u,
         u = Append(SubSeq(s, 1, Len(s) - 1), d)
  PROVE  /\ u \in Seq(S) /\ Len(u) = m + 1 /\ u[m + 1] = d
         /\ \A j \in 1..m : u[j] = s[j] /\ s[j] \in S
<1>1. PICK front : front = SubSeq(s, 1, m)
  OBVIOUS
<1>2. front \in Seq(S) /\ Len(front) = m /\ \A j \in 1..m : front[j] = s[j]
  BY <1>1, SubSeqProperties
<1>3. u = Append(front, d)
  BY <1>1
<1>4. u \in Seq(S) /\ Len(u) = m + 1 /\ u[m + 1] = d /\ \A j \in 1..m : u[j] = front[j]
  BY <1>2, <1>3, AppendParts
<1> QED
  BY <1>2, <1>4, SeqIsFunction

\* Of the texts and the stars in front of the innermost declarator nothing changes.
LEMMA StarsStay ==
  ASSUME NEW ds, NEW us, NEW t \in Seq(Tokens), NEW x \in Tokens, NEW w, w = Append(t, x),
         NEW ends, NEW es, NEW j \in Nat \ {0}, StarsEndAt(ends, ds, t, j),
         ends[j] \in Nat, Len(ds[j].stars) \in Nat, us[j].stars = ds[j].stars, es[j] = ends[j],
         j > 1 => es[j - 1] = ends[j - 1] /\ ends[j - 1] \in Nat
  PROVE  StarsEndAt(es, us, w, j)
<1>1. PICK k, e, n : k = Len(ds[j].stars) /\ e = ends[j] /\ n = Len(t)
  OBVIOUS
<1>2. /\ k \in Nat /\ e \in Nat /\ n \in Nat /\ k <= e /\ e <= n
      /\ \A i \in e - k + 1..e : t[i] = "*"
  BY <1>1, SeqIsFunction DEF StarsEndAt
<1>3. Len(w) = n + 1 /\ \A i \in 1..n : w[i] = t[i]
  BY <1>1, AppendParts
<1>4. e <= Len(w) /\ \A i \in e - k + 1..e : w[i] = "*"
  BY <1>2, <1>3
<1>5. CASE j = 1
  <2>1. es[1] = k
    BY <1>1, <1>5 DEF StarsEndAt
  <2> QED
    BY <1>1, <1>2, <1>4, <1>5, <2>1 DEF StarsEndAt
<1>6. CASE j # 1
  <2>1. e - k = ends[j - 1] + 1 /\ t[e - k] = "("
    BY <1>1, <1>6 DEF StarsEndAt
  <2>2. es[j - 1] = ends[j - 1] /\ ends[j - 1] \in Nat
    BY <1>6
  <2>3. e - k \in 1..n
    BY <1>2, <2>1, <2>2
  <2>4. w[e - k] = "("
    BY <1>3, <2>1, <2>3
  <2> QED
    BY <1>1, <1>2, <1>4, <1>6, <2>1, <2>2, <2>4 DEF StarsEndAt
<1> QED
  BY <1>5, <1>6

\* What is known of open declarators, for their number.
LEMMA OpenParts ==
  ASSUME NEW ds, NEW t, NEW m \in Nat, Len(ds) = m + 1
  PROVE  OpenOK(ds, t) <=>
           \E ends \in [1..m + 1 -> Nat] :
             /\ \A j \in 1..m + 1 : StarsEndAt(ends, ds, t, j)
             /\ \A j \in 1..m : Fresh(ds[j])
             /\ ReadSoFar(ends[m + 1], ds[m + 1], t)
<1>1. Len(ds) - 1 = m
  OBVIOUS
<1> HIDE DEF StarsEndAt, Fresh, ReadSoFar
<1> QED
  BY <1>1, Zenon DEF OpenOK

\* A star more.
LEMMA StarRead ==
  ASSUME NEW ds \in Seq(Declarators), NEW t \in Seq(Tokens), NEW m \in Nat, Len(ds) = m + 1,
         OpenOK(ds, t), ~ds[m + 1].direct, NEW d \in Declarators, NEW q \in BOOLEAN,
         d.stars = Append(ds[m + 1].stars, q), Fresh(d), NEW us, NEW w,
         us = Append(SubSeq(ds, 1, Len(ds) - 1), d), w = Append(t, "*")
  PROVE  Opened(us, w)
<1>1. PICK ends \in [1..m + 1 -> Nat] :
        /\ \A j \in 1..m + 1 : StarsEndAt(ends, ds, t, j)
        /\ \A j \in 1..m : Fresh(ds[j])
        /\ ReadSoFar(ends[m + 1], ds[m + 1], t)
  BY OpenParts
<1>2. /\ us \in Seq(Declarators) /\ Len(us) = m + 1 /\ us[m + 1] = d
      /\ \A j \in 1..m : us[j] = ds[j] /\ ds[j] \in Declarators
  BY LastReplaced
<1>3. "*" \in Tokens /\ "*" # "identifier"
  BY DEF Tokens
<1>4. PICK n : n = Len(t)
  OBVIOUS
<1>5. /\ n \in Nat /\ Len(w) = n + 1 /\ w[n + 1] = "*" /\ \A i \in 1..n : w[i] = t[i]
  BY <1>3, <1>4, AppendParts
<1>6. ends[m + 1] = n /\ \A i \in 1..n : t[i] # "identifier"
  BY <1>1, <1>4 DEF ReadSoFar
<1> DEFINE es == [ends EXCEPT ![m + 1] = n + 1]
<1>7. /\ es \in [1..m + 1 -> Nat] /\ es[m + 1] = n + 1
      /\ \A j \in 1..m : es[j] = ends[j] /\ ends[j] \in Nat
  BY <1>5
<1> HIDE DEF es
<1>8. ASSUME NEW j \in 1..m PROVE StarsEndAt(es, us, w, j)
  <2>1. /\ j \in Nat \ {0} /\ j \in 1..m + 1 /\ ends[j] \in Nat /\ us[j].stars = ds[j].stars
        /\ es[j] = ends[j] /\ (j > 1 => j - 1 \in 1..m)
    <3>1. j \in Nat \ {0} /\ j \in 1..m + 1 /\ (j > 1 => j - 1 \in 1..m)
      OBVIOUS
    <3>2. us[j].stars = ds[j].stars /\ es[j] = ends[j] /\ ends[j] \in Nat
      BY <1>2, <1>7
    <3> QED
      BY <3>1, <3>2, Zenon
  <2>2. Len(ds[j].stars) \in Nat
    <3>1. ds[j].stars \in Seq(BOOLEAN)
      BY <1>2 DEF Declarators
    <3> QED
      BY <3>1, SeqIsFunction
  <2>3. j > 1 => es[j - 1] = ends[j - 1] /\ ends[j - 1] \in Nat
    BY <1>7, <2>1
  <2> QED
    BY <1>1, <1>3, <2>1, <2>2, <2>3, StarsStay
<1>9. StarsEndAt(es, us, w, m + 1)
  <2>1. PICK k : k = Len(ds[m + 1].stars)
    OBVIOUS
  <2>2. k \in Nat /\ Len(d.stars) = k + 1
    <3>1. ds[m + 1] \in Declarators
      <4>1. m + 1 \in 1..m + 1
        OBVIOUS
      <4> QED
        BY <4>1, SeqIsFunction
    <3>2. ds[m + 1].stars \in Seq(BOOLEAN)
      BY <3>1 DEF Declarators
    <3> QED
      BY <2>1, <3>2, AppendParts
  <2>3. /\ k <= n /\ \A i \in n - k + 1..n : t[i] = "*"
        /\ IF m + 1 = 1 THEN ends[1] = k ELSE n - k = ends[(m + 1) - 1] + 1 /\ t[n - k] = "("
    <3>1. m + 1 \in 1..m + 1
      OBVIOUS
    <3>2. StarsEndAt(ends, ds, t, m + 1)
      BY <1>1, <3>1
    <3> QED
      BY <1>6, <2>1, <3>2 DEF StarsEndAt
  <2>4. \A i \in (n + 1) - (k + 1) + 1..n + 1 : w[i] = "*"
    <3>1. ASSUME NEW i \in (n + 1) - (k + 1) + 1..n + 1 PROVE w[i] = "*"
      <4>1. CASE i = n + 1
        BY <1>5, <4>1
      <4>2. CASE i # n + 1
        <5>1. i \in n - k + 1..n /\ i \in 1..n
          BY <1>5, <2>2, <2>3, <4>2
        <5> QED
          BY <1>5, <2>3, <5>1
      <4> QED
        BY <4>1, <4>2
    <3> QED
      BY <3>1
  <2>5. CASE m = 0
    <3>1. es[1] = k + 1
      BY <1>6, <1>7, <2>3, <2>5
    <3> QED
      BY <1>2, <1>5, <1>7, <2>2, <2>3, <2>4, <2>5, <3>1 DEF StarsEndAt
  <2>6. CASE m # 0
    <3>1. m \in 1..m /\ (m + 1) - 1 = m /\ m + 1 # 1
      BY <2>6
    <3>2. n - k = ends[m] + 1 /\ t[n - k] = "(" /\ es[m] = ends[m] /\ ends[m] \in Nat
      BY <1>7, <2>3, <3>1
    <3>3. (n + 1) - (k + 1) = es[m] + 1 /\ (n + 1) - (k + 1) \in 1..n
      BY <1>5, <2>2, <2>3, <3>2
    <3>4. w[(n + 1) - (k + 1)] = "("
      <4>1. (n + 1) - (k + 1) = n - k
        BY <1>5, <2>2
      <4> QED
        BY <1>5, <3>2, <3>3, <4>1
    <3>5. k + 1 <= n + 1 /\ n + 1 <= Len(w) /\ es[(m + 1) - 1] = es[m]
      BY <1>5, <2>2, <2>3, <3>1
    <3> QED
      BY <1>2, <1>5, <1>7, <2>2, <2>4, <3>1, <3>3, <3>4, <3>5, Zenon DEF StarsEndAt
  <2> QED
    BY <2>5, <2>6
<1>10. ReadSoFar(es[m + 1], us[m + 1], w)
  <2>1. \A i \in 1..n + 1 : w[i] # "identifier"
    BY <1>3, <1>5, <1>6
  <2> QED
    BY <1>2, <1>5, <1>7, <2>1 DEF ReadSoFar, Fresh
<1>11. \A j \in 1..m + 1 : StarsEndAt(es, us, w, j)
  <2>1. \A j \in 1..m + 1 : j \in 1..m \/ j = m + 1
    OBVIOUS
  <2> QED
    BY <1>8, <1>9, <2>1
<1>12. \A j \in 1..m : Fresh(us[j])
  BY <1>1, <1>2
<1>13. OpenOK(us, w)
  BY <1>2, <1>7, <1>10, <1>11, <1>12, OpenParts
<1> QED
  BY <1>2, <1>13, NotEmpty DEF Opened

\* What has been read behind the identifier.
LEMMA SoFar ==
  ASSUME NEW d, d.direct, NEW t, NEW n, Len(t) = n, NEW id \in 1..n, NEW end, end < id,
         \A i \in 1..n : t[i] = "identifier" <=> i = id,
         NEW k, KindsOf(d.type \o d.nodes) = k, ReadOn(id, end, k, t)
  PROVE  ReadSoFar(end, d, t)
BY Zenon DEF ReadSoFar

\* A token after the stars.
LEMMA StarsKept ==
  ASSUME NEW ds \in Seq(Declarators), NEW t \in Seq(Tokens), NEW x \in Tokens, NEW w,
         w = Append(t, x), NEW m \in Nat, m <= Len(ds), NEW us, NEW ends, NEW es,
         \A j \in 1..m : us[j].stars = ds[j].stars /\ es[j] = ends[j] /\ ends[j] \in Nat,
         \A j \in 1..m : StarsEndAt(ends, ds, t, j)
  PROVE  \A j \in 1..m : StarsEndAt(es, us, w, j)
<1>1. ASSUME NEW j \in 1..m PROVE StarsEndAt(es, us, w, j)
  <2>1. ds[j].stars \in Seq(BOOLEAN)
    <3>1. Len(ds) \in Nat
      BY SeqIsFunction
    <3>2. j \in 1..Len(ds)
      BY <3>1
    <3>3. ds[j] \in Declarators
      BY <3>2, SeqIsFunction
    <3> QED
      BY <3>3 DEF Declarators
  <2>2. Len(ds[j].stars) \in Nat
    BY <2>1, SeqIsFunction
  <2>3. /\ j \in Nat \ {0} /\ ends[j] \in Nat /\ us[j].stars = ds[j].stars /\ es[j] = ends[j]
        /\ (j > 1 => j - 1 \in 1..m)
    OBVIOUS
  <2>4. j > 1 => es[j - 1] = ends[j - 1] /\ ends[j - 1] \in Nat
    BY <2>3
  <2>5. StarsEndAt(ends, ds, t, j)
    OBVIOUS
  <2> QED
    BY <2>2, <2>3, <2>4, <2>5, StarsStay
<1> QED
  BY <1>1

\* An opening parenthesis: another declarator.
LEMMA ParenthesisRead ==
  ASSUME NEW ds \in Seq(Declarators), NEW t \in Seq(Tokens), NEW m \in Nat, Len(ds) = m + 1,
         OpenOK(ds, t), ~ds[m + 1].direct, NEW d \in Declarators, d.stars = <<>>, Fresh(d),
         NEW us, NEW w, us = Append(ds, d), w = Append(t, "(")
  PROVE  Opened(us, w)
<1>1. PICK ends \in [1..m + 1 -> Nat] :
        /\ \A j \in 1..m + 1 : StarsEndAt(ends, ds, t, j)
        /\ \A j \in 1..m : Fresh(ds[j])
        /\ ReadSoFar(ends[m + 1], ds[m + 1], t)
  BY OpenParts
<1>2. PICK p : p = m + 1
  OBVIOUS
<1>3. p \in Nat /\ Len(ds) = p /\ p \in 1..p
  BY <1>2
<1>4. /\ us \in Seq(Declarators) /\ Len(us) = p + 1 /\ us[p + 1] = d
      /\ \A j \in 1..p : us[j] = ds[j] /\ ds[j] \in Declarators
  BY <1>3, AppendParts
<1>5. "(" \in Tokens /\ "(" # "identifier"
  BY DEF Tokens
<1>6. PICK n : n = Len(t)
  OBVIOUS
<1>7. /\ n \in Nat /\ Len(w) = n + 1 /\ w[n + 1] = "(" /\ \A i \in 1..n : w[i] = t[i]
  BY <1>5, <1>6, AppendParts
<1>8. ends[p] = n /\ (\A i \in 1..n : t[i] # "identifier") /\ Fresh(ds[p])
  BY <1>1, <1>2, <1>6 DEF ReadSoFar
<1> DEFINE es == [j \in 1..p + 1 |-> IF j = p + 1 THEN n + 1 ELSE ends[j]]
<1>9. /\ es \in [1..p + 1 -> Nat] /\ es[p + 1] = n + 1
      /\ \A j \in 1..p : es[j] = ends[j] /\ ends[j] \in Nat
  <2>1. \A j \in 1..p : ends[j] \in Nat /\ j # p + 1 /\ j \in 1..p + 1
    BY <1>2
  <2>2. \A j \in 1..p + 1 : j \in 1..p \/ j = p + 1
    BY <1>3
  <2>3. n + 1 \in Nat /\ p + 1 \in 1..p + 1
    BY <1>3, <1>7
  <2>4. \A j \in 1..p + 1 : (IF j = p + 1 THEN n + 1 ELSE ends[j]) \in Nat
    BY <2>1, <2>2, <2>3
  <2> QED
    BY <2>1, <2>3, <2>4
<1> HIDE DEF es
<1>10. \A j \in 1..p : StarsEndAt(es, us, w, j)
  <2>1. /\ \A j \in 1..p : us[j].stars = ds[j].stars /\ es[j] = ends[j] /\ ends[j] \in Nat
        /\ p <= Len(ds)
    BY <1>3, <1>4, <1>9
  <2>2. \A j \in 1..p : StarsEndAt(ends, ds, t, j)
    BY <1>1, <1>2
  <2> QED
    BY <1>3, <1>5, <2>1, <2>2, StarsKept
<1>11. StarsEndAt(es, us, w, p + 1)
  <2>1. /\ Len(us[p + 1].stars) = 0 /\ es[p + 1] = n + 1 /\ es[(p + 1) - 1] = n /\ p + 1 # 1
        /\ n + 1 - 0 = n + 1 /\ 0 <= n + 1 /\ n + 1 <= Len(w)
        /\ n + 1 - 0 + 1..n + 1 = {}
    BY <1>3, <1>4, <1>7, <1>8, <1>9
  <2> QED
    BY <1>7, <2>1 DEF StarsEndAt
<1>12. \A j \in 1..p + 1 : StarsEndAt(es, us, w, j)
  <2>1. \A j \in 1..p + 1 : j \in 1..p \/ j = p + 1
    BY <1>3
  <2> QED
    BY <1>10, <1>11, <2>1
<1>13. \A j \in 1..p : Fresh(us[j])
  <2>1. \A j \in 1..p : j \in 1..m \/ j = p
    BY <1>2
  <2> QED
    BY <1>1, <1>4, <1>8, <2>1
<1>14. ReadSoFar(es[p + 1], us[p + 1], w)
  <2>1. \A i \in 1..n + 1 : w[i] # "identifier"
    BY <1>5, <1>7, <1>8
  <2> QED
    BY <1>4, <1>7, <1>9, <2>1 DEF ReadSoFar, Fresh
<1>15. OpenOK(us, w)
  BY <1>3, <1>4, <1>9, <1>12, <1>13, <1>14, OpenParts
<1> QED
  BY <1>3, <1>4, <1>15, NotEmpty DEF Opened

\* A text that goes on.
Continues(t, n, w, v, more) ==
  /\ n \in Nat /\ Len(w) = n + 1 /\ more \in Seq(Tokens) /\ v = t \o more
  /\ v \in Seq(Tokens) /\ Len(v) \in Nat /\ Len(v) >= n + 1
  /\ \A i \in 1..n + 1 : v[i] = w[i]

\* A token more is a token less of what follows.
LEMMA GoesOn ==
  ASSUME NEW t \in Seq(Tokens), NEW x \in Tokens, NEW rest \in Seq(Tokens), NEW w,
         w = Append(t, x), NEW n, n = Len(t), NEW v, v = w \o rest, NEW more,
         more = <<x>> \o rest
  PROVE  Continues(t, n, w, v, more)
<1>1. n \in Nat /\ w \in Seq(Tokens) /\ Len(w) = n + 1
  BY AppendParts
<1>2. <<x>> \in Seq(Tokens) /\ w = t \o <<x>>
  OBVIOUS
<1>3. /\ v \in Seq(Tokens) /\ Len(v) = Len(w) + Len(rest) /\ Len(w) \in Nat
      /\ Len(rest) \in Nat /\ \A k \in 1..Len(w) : v[k] = w[k]
  BY <1>1, ConcatParts
<1>4. Len(v) \in Nat /\ Len(v) >= n + 1 /\ \A i \in 1..n + 1 : v[i] = w[i]
  BY <1>1, <1>3
<1>5. more \in Seq(Tokens)
  BY <1>2, ConcatProperties
<1>6. (t \o <<x>>) \o rest = t \o (<<x>> \o rest)
  BY <1>2
<1> QED
  BY <1>1, <1>2, <1>3, <1>4, <1>5, <1>6 DEF Continues

\* The kinds of nodes in a row.
LEMMA KindsConcat ==
  ASSUME NEW N, NEW K, \A x \in N : x.kind \in K, NEW a \in Seq(N), NEW b \in Seq(N)
  PROVE  /\ a \o b \in Seq(N) /\ KindsOf(a \o b) = KindsOf(a) \o KindsOf(b)
         /\ KindsOf(a) \in Seq(K) /\ Len(KindsOf(a)) = Len(a)
<1>1. ASSUME NEW c \in Seq(N)
      PROVE  KindsOf(c) \in Seq(K) /\ Len(KindsOf(c)) = Len(c) /\ Len(c) \in Nat
             /\ \A k \in 1..Len(c) : KindsOf(c)[k] = c[k].kind
  <2>1. PICK n : n = Len(c)
    OBVIOUS
  <2>2. n \in Nat /\ DOMAIN c = 1..n /\ \A k \in 1..n : c[k] \in N
    BY <2>1, SeqIsFunction
  <2>3. KindsOf(c) = [k \in 1..n |-> c[k].kind] /\ \A k \in 1..n : c[k].kind \in K
    BY <2>2 DEF KindsOf
  <2> QED
    BY <2>1, <2>2, <2>3
<1>2. PICK c, n, m : c = a \o b /\ n = Len(a) /\ m = Len(b)
  OBVIOUS
<1>3. /\ c \in Seq(N) /\ n \in Nat /\ m \in Nat /\ Len(c) = n + m
      /\ (\A k \in 1..n : c[k] = a[k]) /\ (\A k \in 1..m : c[n + k] = b[k])
  <2>1. /\ c \in Seq(N) /\ Len(c) = Len(a) + Len(b) /\ Len(a) \in Nat /\ Len(b) \in Nat
        /\ \A k \in 1..Len(a) : c[k] = a[k]
        /\ \A k \in 1..Len(b) : c[Len(a) + k] = b[k]
    BY <1>2, ConcatParts
  <2> QED
    BY <1>2, <2>1
<1>4. PICK x, y, z, u : x = KindsOf(a) /\ y = KindsOf(b) /\ z = KindsOf(c) /\ u = x \o y
  OBVIOUS
<1>5. /\ x \in Seq(K) /\ y \in Seq(K) /\ z \in Seq(K)
      /\ Len(x) = n /\ Len(y) = m /\ Len(z) = n + m
      /\ \A k \in 1..n : x[k] = a[k].kind
      /\ \A k \in 1..m : y[k] = b[k].kind
      /\ \A k \in 1..n + m : z[k] = c[k].kind
  BY <1>1, <1>2, <1>3, <1>4
<1>6. /\ u \in Seq(K) /\ Len(u) = n + m
      /\ (\A k \in 1..n : u[k] = x[k]) /\ (\A k \in 1..m : u[n + k] = y[k])
  <2>1. /\ u \in Seq(K) /\ Len(u) = Len(x) + Len(y)
        /\ \A k \in 1..Len(x) : u[k] = x[k]
        /\ \A k \in 1..Len(y) : u[Len(x) + k] = y[k]
    <3>1. x \in Seq(K) /\ y \in Seq(K) /\ u = x \o y
      BY <1>4, <1>5
    <3> QED
      BY <3>1, ConcatParts
  <2> QED
    BY <1>5, <2>1
<1>7. ASSUME NEW k \in 1..n + m PROVE z[k] = u[k]
  <2>1. CASE k <= n
    <3>1. k \in 1..n
      BY <1>3, <2>1
    <3>2. z[k] = a[k].kind
      BY <1>3, <1>5, <3>1
    <3>3. u[k] = a[k].kind
      BY <1>5, <1>6, <3>1
    <3> QED
      BY <3>2, <3>3
  <2>2. CASE ~(k <= n)
    <3>1. PICK j : j = k - n
      OBVIOUS
    <3>2. j \in 1..m /\ k = n + j
      BY <1>3, <2>2, <3>1
    <3>3. z[n + j] = b[j].kind
      BY <1>3, <1>5, <3>2
    <3> QED
      BY <1>5, <1>6, <3>2, <3>3
  <2> QED
    BY <2>1, <2>2
<1>8. z = u
  BY <1>5, <1>6, <1>7, SeqEqual
<1> QED
  BY <1>1, <1>2, <1>3, <1>4, <1>8

\* The kinds of the nodes of a chain.
LEMMA KindsOfConcat ==
  ASSUME NEW a \in Seq(ChainNodes), NEW b \in Seq(ChainNodes)
  PROVE  /\ a \o b \in Seq(ChainNodes) /\ KindsOf(a \o b) = KindsOf(a) \o KindsOf(b)
         /\ KindsOf(a) \in Seq(Kinds) /\ Len(KindsOf(a)) = Len(a)
<1>1. \A x \in ChainNodes : x.kind \in Kinds
  BY DEF ChainNodes
<1> QED
  BY <1>1, KindsConcat

\* The kinds of no node, of one node, and of pointers.
LEMMA KindsOfNone == KindsOf(<<>>) = <<>>
<1>1. DOMAIN <<>> = 1..0 /\ 1..0 = {}
  OBVIOUS
<1>2. KindsOf(<<>>) \in Seq(Kinds) /\ Len(KindsOf(<<>>)) = 0
  BY <1>1 DEF KindsOf
<1> QED
  BY <1>2, EmptySeq

\* The kinds of one node and of pointers.
LEMMA KindsOfFew ==
  ASSUME NEW x, NEW k \in Nat
  PROVE  /\ KindsOf(<<x>>) = <<x.kind>>
         /\ [i \in 1..k |-> Pointer] \in Seq(ChainNodes)
         /\ KindsOf([i \in 1..k |-> Pointer]) = Pointers(k)
<1>1. KindsOf(<<x>>) = <<x.kind>>
  <2>1. DOMAIN <<x>> = 1..1 /\ \A i \in 1..1 : <<x>>[i] = x
    OBVIOUS
  <2>2. KindsOf(<<x>>) = [i \in 1..1 |-> x.kind]
    BY <2>1 DEF KindsOf
  <2> QED
    BY <2>2
<1>2. Pointer \in ChainNodes /\ Pointer.kind = "PTR"
  BY DEF Pointer, Node, ChainNodes, Kinds
<1> QED
  BY <1>1, <1>2 DEF KindsOf, Pointers

\* A token that leaves the stars of all declarators.
LEMMA SameStars ==
  ASSUME NEW ds \in Seq(Declarators), NEW t \in Seq(Tokens), NEW x \in Tokens, NEW w,
         w = Append(t, x), NEW m \in Nat, Len(ds) = m + 1, NEW us,
         us[m + 1].stars = ds[m + 1].stars, \A j \in 1..m : us[j] = ds[j],
         NEW ends \in [1..m + 1 -> Nat], \A j \in 1..m + 1 : StarsEndAt(ends, ds, t, j)
  PROVE  \A j \in 1..m + 1 : StarsEndAt(ends, us, w, j)
<1>1. PICK p, es : p = m + 1 /\ es = ends
  OBVIOUS
<1>2. p \in Nat /\ p <= Len(ds)
  BY <1>1
<1>3. \A j \in 1..p : us[j].stars = ds[j].stars /\ es[j] = ends[j] /\ ends[j] \in Nat
  <2>1. \A j \in 1..p : j \in 1..m \/ j = m + 1
    BY <1>1
  <2> QED
    BY <1>1, <2>1
<1>4. \A j \in 1..p : StarsEndAt(ends, ds, t, j)
  BY <1>1
<1>5. ds \in Seq(Declarators) /\ t \in Seq(Tokens) /\ x \in Tokens /\ w = Append(t, x)
  OBVIOUS
<1>6. \A j \in 1..p : StarsEndAt(es, us, w, j)
  BY ONLY <1>2, <1>3, <1>4, <1>5, StarsKept
<1> QED
  BY <1>1, <1>6

\* The identifier.
LEMMA IdentifierRead ==
  ASSUME NEW ds \in Seq(Declarators), NEW t \in Seq(Tokens), NEW m \in Nat, Len(ds) = m + 1,
         OpenOK(ds, t), ~ds[m + 1].direct, NEW d \in Declarators, d.stars = ds[m + 1].stars,
         d.type = <<>>, d.nodes = <<>>, d.direct,
         NEW us, NEW w, us = Append(SubSeq(ds, 1, Len(ds) - 1), d), w = Append(t, "identifier")
  PROVE  Opened(us, w)
<1>1. PICK ends \in [1..m + 1 -> Nat] :
        /\ \A j \in 1..m + 1 : StarsEndAt(ends, ds, t, j)
        /\ \A j \in 1..m : Fresh(ds[j])
        /\ ReadSoFar(ends[m + 1], ds[m + 1], t)
  BY OpenParts
<1>2. /\ us \in Seq(Declarators) /\ Len(us) = m + 1 /\ us[m + 1] = d
      /\ \A j \in 1..m : us[j] = ds[j] /\ ds[j] \in Declarators
  BY LastReplaced
<1>3. "identifier" \in Tokens
  BY DEF Tokens
<1>4. PICK n : n = Len(t)
  OBVIOUS
<1>5. /\ n \in Nat /\ Len(w) = n + 1 /\ w[n + 1] = "identifier" /\ \A i \in 1..n : w[i] = t[i]
  BY <1>3, <1>4, AppendParts
<1>6. ends[m + 1] = n /\ \A i \in 1..n : t[i] # "identifier"
  BY <1>1, <1>4 DEF ReadSoFar
<1>7. \A j \in 1..m + 1 : StarsEndAt(ends, us, w, j)
  <2>1. /\ us[m + 1].stars = ds[m + 1].stars /\ ds \in Seq(Declarators) /\ t \in Seq(Tokens)
        /\ w = Append(t, "identifier") /\ m \in Nat /\ Len(ds) = m + 1
        /\ ends \in [1..m + 1 -> Nat]
    BY <1>2
  <2> QED
    BY ONLY <1>1, <1>2, <1>3, <2>1, SameStars
<1>8. \A j \in 1..m : Fresh(us[j])
  BY <1>1, <1>2
<1>9. ReadSoFar(n, d, w)
  <2>1. n + 1 \in 1..Len(w) /\ n < n + 1 /\ (n + 1) - 1 = n
    BY <1>5
  <2>2. \A i \in 1..Len(w) : w[i] = "identifier" <=> i = n + 1
    <3>1. \A i \in 1..n + 1 : i \in 1..n \/ i = n + 1
      BY <1>5
    <3>2. \A i \in 1..n : i # n + 1
      BY <1>5
    <3> QED
      BY <1>5, <1>6, <3>1, <3>2
  <2>3. ASSUME NEW rest \in Seq(Tokens)
        PROVE  Readings(w \o rest)[<<(n + 1) - 1, (n + 1) + 1>>] =
                 KindsOf(d.type \o d.nodes) \o Readings(w \o rest)[<<n, Len(w) + 1>>]
    <3>1. KindsOf(d.type \o d.nodes) = <<>>
      <4>1. d.type \o d.nodes = <<>>
        OBVIOUS
      <4> QED
        BY <4>1, KindsOfNone
    <3>2. PICK v, more : v = w \o rest /\ more = <<"identifier">> \o rest
      OBVIOUS
    <3>3. v \in Seq(Tokens) /\ Len(v) \in Nat /\ Len(v) >= n + 1
      <4>1. t \in Seq(Tokens) /\ rest \in Seq(Tokens) /\ w = Append(t, "identifier")
        OBVIOUS
      <4>2. Continues(t, n, w, v, more)
        BY ONLY <1>3, <1>4, <3>2, <4>1, GoesOn
      <4> QED
        BY <4>2 DEF Continues
    <3>4. n \in 0..Len(v) /\ (n + 1) + 1 \in 1..Len(v) + 1
      BY <1>5, <3>3
    <3>5. Readings(v)[<<n, (n + 1) + 1>>] \in Seq(Kinds)
      BY <3>3, <3>4, ReadingsType
    <3>6. \A y \in Seq(Kinds) : <<>> \o y = y
      OBVIOUS
    <3>7. PICK y : y = Readings(v)[<<n, (n + 1) + 1>>]
      OBVIOUS
    <3>8. <<>> \o y = y
      BY <3>5, <3>6, <3>7
    <3> QED
      BY <1>5, <2>1, <3>1, <3>2, <3>7, <3>8, Zenon
  <2> QED
    BY <2>1, <2>2, <2>3 DEF ReadSoFar, ReadOn
<1>10. OpenOK(us, w)
  BY <1>2, <1>6, <1>7, <1>8, <1>9, OpenParts
<1> QED
  BY <1>2, <1>10, NotEmpty DEF Opened

\* Chains in a row.
LEMMA ConcatChains ==
  ASSUME NEW a \in Seq(ChainNodes), NEW b \in Seq(ChainNodes), NEW c \in Seq(ChainNodes)
  PROVE  a \o (b \o c) = (a \o b) \o c
BY SMTT(30)

\* The reading of a text that goes on by a token.
LEMMA ReadOnStep ==
  ASSUME NEW t \in Seq(Tokens), NEW x \in Tokens, NEW w, w = Append(t, x), NEW n, n = Len(t),
         NEW id \in 1..n, NEW e \in 0..n, NEW k \in Seq(Kinds), ReadOn(id, e, k, t),
         NEW c \in Seq(Kinds), NEW g \in 0..n,
         \A v \in Seq(Tokens) :
           Len(v) >= n + 1 /\ (\A i \in 1..n + 1 : v[i] = w[i]) =>
             Readings(v)[<<e, n + 1>>] = c \o Readings(v)[<<g, (n + 1) + 1>>]
  PROVE  ReadOn(id, g, k \o c, w)
<1>1. Len(w) = n + 1 /\ n \in Nat
  BY AppendParts
<1>2. ASSUME NEW rest \in Seq(Tokens)
      PROVE  Readings(w \o rest)[<<id - 1, id + 1>>] =
               (k \o c) \o Readings(w \o rest)[<<g, Len(w) + 1>>]
  <2>1. PICK v, more : v = w \o rest /\ more = <<x>> \o rest
    OBVIOUS
  <2>2. /\ more \in Seq(Tokens) /\ v = t \o more /\ v \in Seq(Tokens) /\ Len(v) \in Nat
        /\ Len(v) >= n + 1 /\ \A i \in 1..n + 1 : v[i] = w[i]
    <3>1. /\ n = Len(t) /\ w = Append(t, x) /\ t \in Seq(Tokens) /\ x \in Tokens
          /\ rest \in Seq(Tokens)
      OBVIOUS
    <3>2. Continues(t, n, w, v, more)
      BY ONLY <2>1, <3>1, GoesOn
    <3> QED
      BY <3>2 DEF Continues
  <2>3. Readings(v)[<<id - 1, id + 1>>] = k \o Readings(v)[<<e, n + 1>>]
    BY <2>2 DEF ReadOn
  <2>4. Readings(v)[<<e, n + 1>>] = c \o Readings(v)[<<g, (n + 1) + 1>>]
    BY <2>2
  <2>5. PICK y : y = Readings(v)[<<g, (n + 1) + 1>>]
    OBVIOUS
  <2>6. y \in Seq(Kinds)
    <3>1. g \in 0..Len(v) /\ (n + 1) + 1 \in 1..Len(v) + 1
      BY <1>1, <2>2
    <3> QED
      BY <2>2, <2>5, <3>1, ReadingsType
  <2>7. k \o (c \o y) = (k \o c) \o y
    <3>1. k \in Seq(Kinds) /\ c \in Seq(Kinds) /\ y \in Seq(Kinds)
      BY <2>6
    <3> QED
      BY ONLY <3>1, SMTT(30)
  <2> QED
    BY <1>1, <2>1, <2>3, <2>4, <2>5, <2>7, Zenon
<1> QED
  BY <1>2 DEF ReadOn

\* A suffix.
LEMMA SuffixRead ==
  ASSUME NEW ds \in Seq(Declarators), NEW t \in Seq(Tokens), NEW m \in Nat, Len(ds) = m + 1,
         OpenOK(ds, t), ds[m + 1].direct, NEW kind \in {"ARRAY", "FUNCTION"},
         NEW x, x = (IF kind = "ARRAY" THEN "[]" ELSE "()"),
         NEW d \in Declarators, d.stars = ds[m + 1].stars, d.type = ds[m + 1].type,
         d.nodes = Append(ds[m + 1].nodes, Node(kind)), d.direct,
         NEW us, NEW w, us = Append(SubSeq(ds, 1, Len(ds) - 1), d), w = Append(t, x)
  PROVE  Opened(us, w)
<1>1. PICK ends \in [1..m + 1 -> Nat] :
        /\ \A j \in 1..m + 1 : StarsEndAt(ends, ds, t, j)
        /\ \A j \in 1..m : Fresh(ds[j])
        /\ ReadSoFar(ends[m + 1], ds[m + 1], t)
  BY OpenParts
<1>2. /\ us \in Seq(Declarators) /\ Len(us) = m + 1 /\ us[m + 1] = d
      /\ \A j \in 1..m : us[j] = ds[j] /\ ds[j] \in Declarators
  BY LastReplaced
<1>3. x \in Tokens /\ x # "identifier" /\ x \in {"[]", "()"}
      /\ (x = "[]" => kind = "ARRAY") /\ (x = "()" => kind = "FUNCTION")
  BY DEF Tokens
<1>4. PICK n, e, dd : n = Len(t) /\ e = ends[m + 1] /\ dd = ds[m + 1]
  OBVIOUS
<1>5. /\ n \in Nat /\ Len(w) = n + 1 /\ w[n + 1] = x /\ \A i \in 1..n : w[i] = t[i]
  BY <1>3, <1>4, AppendParts
<1>6. PICK id \in 1..n :
        /\ e < id /\ \A i \in 1..n : t[i] = "identifier" <=> i = id
        /\ ReadOn(id, e, KindsOf(dd.type \o dd.nodes), t)
  BY <1>1, <1>4 DEF ReadSoFar
<1>7. \A j \in 1..m + 1 : StarsEndAt(ends, us, w, j)
  <2>1. /\ us[m + 1].stars = ds[m + 1].stars /\ ds \in Seq(Declarators) /\ t \in Seq(Tokens)
        /\ w = Append(t, x) /\ m \in Nat /\ Len(ds) = m + 1
        /\ ends \in [1..m + 1 -> Nat] /\ x \in Tokens
    BY <1>2, <1>3
  <2> QED
    BY ONLY <1>1, <1>2, <2>1, SameStars
<1>8. \A j \in 1..m : Fresh(us[j])
  BY <1>1, <1>2
<1>9. ReadSoFar(e, d, w)
  <2>1. id \in 1..n + 1 /\ e \in 0..n
    <3>1. m + 1 \in 1..m + 1
      OBVIOUS
    <3>2. e \in Nat
      BY <1>4, <3>1
    <3> QED
      BY <1>5, <1>6, <3>2
  <2>2. \A i \in 1..n + 1 : w[i] = "identifier" <=> i = id
    <3>1. \A i \in 1..n + 1 : i \in 1..n \/ i = n + 1
      BY <1>5
    <3>2. id # n + 1
      BY <1>5, <1>6
    <3>3. ASSUME NEW i \in 1..n PROVE w[i] = "identifier" <=> i = id
      BY <1>5, <1>6, Zenon
    <3>4. w[n + 1] # "identifier"
      BY <1>3, <1>5, Zenon
    <3> QED
      BY <3>1, <3>2, <3>3, <3>4, Zenon
  <2>3. dd.type \in Seq(ChainNodes) /\ dd.nodes \in Seq(ChainNodes)
    <3>1. m + 1 \in 1..m + 1
      OBVIOUS
    <3>2. dd \in Declarators
      BY <1>4, <3>1, SeqIsFunction
    <3> QED
      BY <3>2 DEF Declarators
  <2>4. PICK tn, node, k : tn = dd.type \o dd.nodes /\ node = Node(kind) /\ k = KindsOf(tn)
    OBVIOUS
  <2>5. node \in ChainNodes /\ node.kind = kind
    BY <2>4 DEF Node, ChainNodes, Kinds
  <2>6. tn \in Seq(ChainNodes) /\ k \in Seq(Kinds)
    <3>1. tn \in Seq(ChainNodes)
      BY <2>3, <2>4, ConcatProperties
    <3> QED
      BY <2>4, <3>1, KindsOfConcat
  <2>7. d.type \o d.nodes = tn \o <<node>>
    <3>1. Append(dd.nodes, node) = dd.nodes \o <<node>>
      BY <2>3, <2>5
    <3>2. <<node>> \in Seq(ChainNodes)
      BY <2>5
    <3>3. dd.type \o (dd.nodes \o <<node>>) = (dd.type \o dd.nodes) \o <<node>>
      <4>1. PICK a, b, c : a = dd.type /\ b = dd.nodes /\ c = <<node>>
        OBVIOUS
      <4>2. a \in Seq(ChainNodes) /\ b \in Seq(ChainNodes) /\ c \in Seq(ChainNodes)
        BY ONLY <2>3, <3>2, <4>1
      <4>3. a \o (b \o c) = (a \o b) \o c
        BY ONLY <4>2, ConcatChains
      <4> QED
        BY ONLY <4>1, <4>3
    <3> QED
      BY <1>4, <2>4, <3>1, <3>3
  <2>8. KindsOf(d.type \o d.nodes) = k \o <<kind>>
    <3>1. <<node>> \in Seq(ChainNodes)
      BY <2>5
    <3>2. KindsOf(tn \o <<node>>) = KindsOf(tn) \o KindsOf(<<node>>)
      BY <2>6, <3>1, KindsOfConcat
    <3>3. KindsOf(<<node>>) = <<node.kind>>
      BY KindsOfFew
    <3> QED
      BY <2>4, <2>5, <2>7, <3>2, <3>3
  <2>9. ASSUME NEW v \in Seq(Tokens), Len(v) >= n + 1, \A i \in 1..n + 1 : v[i] = w[i]
        PROVE  Readings(v)[<<e, n + 1>>] = <<kind>> \o Readings(v)[<<e, (n + 1) + 1>>]
    <3>1. PICK f, r, l : f = Readings(v) /\ r = n + 1 /\ l = Len(v)
      OBVIOUS
    <3>2. l \in Nat /\ r \in 1..l /\ e \in 0..l /\ r \in 1..l + 1
      BY <1>5, <2>1, <2>9, <3>1, SeqIsFunction
    <3>3. TokenAt(v, r) = x
      BY <1>5, <2>9, <3>1, <3>2 DEF TokenAt
    <3>4. f[<<e, r>>] = ReadingStep(v, f, e, r)
      BY <3>1, <3>2, ReadingsEquation
    <3>5. ReadingStep(v, f, e, r) = <<kind>> \o f[<<e, r + 1>>]
      BY <1>3, <3>3 DEF ReadingStep
    <3> QED
      BY <3>1, <3>4, <3>5
  <2>10. <<kind>> \in Seq(Kinds)
    BY DEF Kinds
  <2>11. ReadOn(id, e, k \o <<kind>>, w)
    <3>1. PICK c, g : c = <<kind>> /\ g = e
      OBVIOUS
    <3>2. /\ t \in Seq(Tokens) /\ w = Append(t, x) /\ n = Len(t) /\ c \in Seq(Kinds)
          /\ id \in 1..n /\ g \in 0..n /\ ReadOn(id, e, k, t)
      BY <1>4, <1>6, <2>1, <2>4, <2>10, <3>1
    <3>3. \A v \in Seq(Tokens) :
            Len(v) >= n + 1 /\ (\A i \in 1..n + 1 : v[i] = w[i]) =>
              Readings(v)[<<e, n + 1>>] = c \o Readings(v)[<<g, (n + 1) + 1>>]
      BY <2>9, <3>1
    <3>4. ReadOn(id, g, k \o c, w)
      BY ONLY <1>3, <2>1, <2>6, <3>2, <3>3, ReadOnStep
    <3> QED
      BY <3>1, <3>4
  <2> QED
    <3>1. Len(w) = n + 1 /\ e < id
      BY <1>5, <1>6
    <3> QED
      BY ONLY <2>1, <2>2, <2>8, <2>11, <3>1, d.direct, SoFar
<1>10. /\ m \in Nat /\ Len(us) = m + 1 /\ ends \in [1..m + 1 -> Nat]
       /\ ReadSoFar(ends[m + 1], us[m + 1], w)
  BY <1>2, <1>4, <1>9
<1>11. OpenOK(us, w)
  BY ONLY <1>7, <1>8, <1>10, OpenParts
<1> QED
  BY <1>2, <1>11, NotEmpty DEF Opened

\* The kinds of the type of a declarator.
LEMMA DeclaratorKinds ==
  ASSUME NEW d \in Declarators
  PROVE  /\ DeclaratorType(d) \in Seq(ChainNodes) /\ Len(d.stars) \in Nat
         /\ KindsOf(d.type \o d.nodes) \in Seq(Kinds)
         /\ KindsOf(DeclaratorType(d)) = KindsOf(d.type \o d.nodes) \o Pointers(Len(d.stars))
<1>1. /\ d.type \in Seq(ChainNodes) /\ d.nodes \in Seq(ChainNodes)
      /\ d.stars \in Seq(BOOLEAN)
  BY DEF Declarators
<1>2. PICK k, tn, ps : k = Len(d.stars) /\ tn = d.type \o d.nodes /\ ps = [i \in 1..k |-> Pointer]
  OBVIOUS
<1>3. k \in Nat /\ DOMAIN d.stars = 1..k
  BY <1>1, <1>2, SeqIsFunction
<1>4. DeclaratorType(d) = tn \o ps
  BY <1>2, <1>3, Zenon DEF DeclaratorType
<1>5. tn \in Seq(ChainNodes) /\ KindsOf(tn) \in Seq(Kinds)
  <2>1. tn \in Seq(ChainNodes)
    BY <1>1, <1>2, ConcatProperties
  <2> QED
    BY <2>1, KindsOfConcat
<1>6. ps \in Seq(ChainNodes) /\ KindsOf(ps) = Pointers(k)
  BY <1>2, <1>3, KindsOfFew
<1>7. tn \o ps \in Seq(ChainNodes) /\ KindsOf(tn \o ps) = KindsOf(tn) \o KindsOf(ps)
  BY <1>5, <1>6, KindsOfConcat
<1> QED
  BY <1>2, <1>3, <1>4, <1>5, <1>6, <1>7, Zenon

\* A closing parenthesis: the type of the innermost declarator is that of the next one.
LEMMA CloseRead ==
  ASSUME NEW ds \in Seq(Declarators), NEW t \in Seq(Tokens), NEW m \in Nat \ {0}, Len(ds) = m + 1,
         OpenOK(ds, t), ds[m + 1].direct, NEW d \in Declarators, d.stars = ds[m].stars,
         d.type = DeclaratorType(ds[m + 1]), d.nodes = ds[m].nodes, d.direct,
         NEW us, NEW w, us = Append(SubSeq(ds, 1, Len(ds) - 2), d), w = Append(t, ")")
  PROVE  Opened(us, w)
<1>1. PICK ends \in [1..m + 1 -> Nat] :
        /\ \A j \in 1..m + 1 : StarsEndAt(ends, ds, t, j)
        /\ \A j \in 1..m : Fresh(ds[j])
        /\ ReadSoFar(ends[m + 1], ds[m + 1], t)
  BY OpenParts
<1>2. PICK o : o = m - 1
  OBVIOUS
<1>3. o \in Nat /\ m = o + 1 /\ m \in 1..m /\ m + 1 \in 1..m + 1 /\ m \in 1..m + 1 /\ m + 1 # 1
      /\ (m + 1) - 1 = m
  BY <1>2
<1>4. /\ us \in Seq(Declarators) /\ Len(us) = m /\ us[m] = d
      /\ \A j \in 1..o : us[j] = ds[j]
  <2>1. PICK front : front = SubSeq(ds, 1, o)
    OBVIOUS
  <2>2. front \in Seq(Declarators) /\ Len(front) = o /\ \A j \in 1..o : front[j] = ds[j]
    BY <1>3, <2>1, SubSeqProperties
  <2>3. us = Append(front, d)
    BY <1>2, <2>1
  <2> QED
    BY <1>3, <2>2, <2>3, AppendParts
<1>5. ")" \in Tokens /\ ")" # "identifier"
  BY DEF Tokens
<1>6. PICK n, e, dd, k, g : /\ n = Len(t) /\ e = ends[m + 1] /\ dd = ds[m + 1]
                            /\ k = Len(dd.stars) /\ g = ends[m]
  OBVIOUS
<1>7. /\ n \in Nat /\ Len(w) = n + 1 /\ w[n + 1] = ")" /\ \A i \in 1..n : w[i] = t[i]
  BY <1>5, <1>6, AppendParts
<1>8. PICK id \in 1..n :
        /\ e < id /\ \A i \in 1..n : t[i] = "identifier" <=> i = id
        /\ ReadOn(id, e, KindsOf(dd.type \o dd.nodes), t)
  BY <1>1, <1>6 DEF ReadSoFar
<1>9. dd \in Declarators /\ k \in Nat
  <2>1. dd \in Declarators
    BY <1>3, <1>6, SeqIsFunction
  <2> QED
    BY <1>6, <2>1, DeclaratorKinds
<1>10. /\ k <= e /\ e <= n /\ e \in Nat /\ g \in Nat /\ e - k = g + 1 /\ t[e - k] = "("
       /\ \A i \in e - k + 1..e : t[i] = "*"
  <2>1. StarsEndAt(ends, ds, t, m + 1)
    BY <1>1, <1>3
  <2>2. e \in Nat /\ g \in Nat
    BY <1>3, <1>6
  <2> QED
    BY <1>3, <1>6, <2>1, <2>2 DEF StarsEndAt
<1>11. PICK es : es = [j \in 1..m |-> ends[j]]
  OBVIOUS
<1>12. es \in [1..m -> Nat] /\ \A j \in 1..m : es[j] = ends[j] /\ ends[j] \in Nat
  <2>1. \A j \in 1..m : j \in 1..m + 1
    OBVIOUS
  <2> QED
    BY <1>11, <2>1
<1>13. \A j \in 1..m : StarsEndAt(es, us, w, j)
  <2>1. \A j \in 1..m : us[j].stars = ds[j].stars /\ es[j] = ends[j] /\ ends[j] \in Nat
    <3>1. \A j \in 1..m : j \in 1..o \/ j = m
      BY <1>3
    <3> QED
      BY <1>4, <1>12, <3>1
  <2>2. /\ ds \in Seq(Declarators) /\ t \in Seq(Tokens) /\ w = Append(t, ")") /\ m \in Nat
        /\ m <= Len(ds)
    OBVIOUS
  <2>3. \A j \in 1..m : StarsEndAt(ends, ds, t, j)
    BY <1>1
  <2> QED
    <3>1. PICK x \in Tokens : x = ")"
      BY <1>5
    <3>2. w = Append(t, x)
      BY <2>2, <3>1
    <3> QED
      BY ONLY <2>1, <2>2, <2>3, <3>2, StarsKept
<1>14. \A j \in 1..o : Fresh(us[j])
  BY <1>1, <1>3, <1>4
<1>15. ReadSoFar(g, d, w)
  <2>1. id \in 1..n + 1 /\ e \in 0..n /\ g \in 0..n /\ g < id
    BY <1>7, <1>8, <1>9, <1>10
  <2>2. \A i \in 1..n + 1 : w[i] = "identifier" <=> i = id
    <3>1. \A i \in 1..n + 1 : i \in 1..n \/ i = n + 1
      BY <1>7
    <3>2. id # n + 1
      BY <1>7, <1>8
    <3>3. ASSUME NEW i \in 1..n PROVE w[i] = "identifier" <=> i = id
      BY <1>7, <1>8, Zenon
    <3>4. w[n + 1] # "identifier"
      BY <1>5, <1>7, Zenon
    <3> QED
      BY <3>1, <3>2, <3>3, <3>4, Zenon
  <2>3. PICK kk, c : kk = KindsOf(dd.type \o dd.nodes) /\ c = Pointers(k)
    OBVIOUS
  <2>4. kk \in Seq(Kinds) /\ c \in Seq(Kinds)
    BY <1>9, <2>3, DeclaratorKinds, PointersAppend
  <2>5. KindsOf(d.type \o d.nodes) = kk \o c
    <3>1. KindsOf(DeclaratorType(dd)) = kk \o c /\ DeclaratorType(dd) \in Seq(ChainNodes)
      BY <1>6, <1>9, <2>3, DeclaratorKinds
    <3>2. d.nodes = <<>>
      BY <1>1, <1>3 DEF Fresh
    <3>3. d.type \o <<>> = d.type
      BY <1>6, <3>1
    <3> QED
      BY <1>6, <3>1, <3>2, <3>3
  <2>6. ASSUME NEW v \in Seq(Tokens), Len(v) >= n + 1, \A i \in 1..n + 1 : v[i] = w[i]
        PROVE  Readings(v)[<<e, n + 1>>] = c \o Readings(v)[<<g, (n + 1) + 1>>]
    <3>1. PICK f, r, l, b : f = Readings(v) /\ r = n + 1 /\ l = Len(v) /\ b = e - k
      OBVIOUS
    <3>2. /\ l \in Nat /\ r \in 1..l /\ e \in 0..l /\ r \in 1..l + 1 /\ b \in 1..l
          /\ b \in 0..l /\ b - 1 = g /\ b \in 1..n /\ k \in 0..e
      BY <1>7, <1>9, <1>10, <2>1, <2>6, <3>1, SeqIsFunction
    <3>3. TokenAt(v, r) = ")"
      <4>1. r \in 1..n + 1
        BY <1>7, <3>1
      <4>2. v[r] = ")"
        BY <1>7, <2>6, <3>1, <4>1
      <4> QED
        BY <3>1, <3>2, <4>2 DEF TokenAt
    <3>4. TokenAt(v, b) = "("
      <4>1. v[b] = w[b] /\ w[b] = t[b] /\ t[b] = "("
        <5>1. b \in 1..n + 1
          BY <1>7, <3>2
        <5> QED
          BY <1>7, <1>10, <2>6, <3>1, <3>2, <5>1
      <4> QED
        BY <3>1, <3>2, <4>1 DEF TokenAt
    <3>5. \A i \in b + 1..e : v[i] = "*"
      <4>1. \A i \in b + 1..e : i \in 1..n /\ i \in 1..n + 1
        BY <1>7, <1>10, <3>2
      <4> QED
        BY <1>7, <1>10, <2>6, <3>1, <4>1
    <3>6. f[<<e, r>>] = c \o f[<<b, r>>]
      <4>1. /\ v \in Seq(Tokens) /\ e \in 0..Len(v) /\ r \in 1..Len(v) + 1 /\ k \in 0..e
            /\ TokenAt(v, r) # "[]" /\ TokenAt(v, r) # "()" /\ b = e - k /\ f = Readings(v)
        BY <3>1, <3>2, <3>3
      <4>2. f[<<e, r>>] = Pointers(k) \o f[<<b, r>>]
        <5>1. InFront(v, f, r, e, k, b)
          BY ONLY <3>5, <4>1 DEF InFront
        <5>2. PointersRead(f, r, e, k, b)
          BY ONLY <5>1, PointersInFront
        <5> QED
          BY <5>2 DEF PointersRead
      <4> QED
        BY ONLY <2>3, <4>2
    <3>7. f[<<b, r>>] = ReadingStep(v, f, b, r)
      BY <3>1, <3>2, ReadingsEquation
    <3>8. ReadingStep(v, f, b, r) = f[<<b - 1, r + 1>>]
      BY <3>3, <3>4 DEF ReadingStep
    <3> QED
      BY <3>1, <3>2, <3>6, <3>7, <3>8
  <2>7. ReadOn(id, g, kk \o c, w)
    <3>1. /\ t \in Seq(Tokens) /\ w = Append(t, ")") /\ n = Len(t) /\ id \in 1..n
          /\ ReadOn(id, e, kk, t)
      BY <1>6, <1>8, <2>3
    <3>2. \A v \in Seq(Tokens) :
            Len(v) >= n + 1 /\ (\A i \in 1..n + 1 : v[i] = w[i]) =>
              Readings(v)[<<e, n + 1>>] = c \o Readings(v)[<<g, (n + 1) + 1>>]
      BY <2>6
    <3> QED
      BY ONLY <1>5, <2>1, <2>4, <3>1, <3>2, ReadOnStep
  <2> QED
    <3>1. Len(w) = n + 1 /\ g < id
      BY <1>7, <2>1
    <3> QED
      BY ONLY <2>1, <2>2, <2>5, <2>7, <3>1, d.direct, SoFar
<1>16. OpenOK(us, w)
  <2>1. /\ o \in Nat /\ Len(us) = o + 1 /\ es \in [1..o + 1 -> Nat]
        /\ ReadSoFar(es[o + 1], us[o + 1], w)
    BY <1>3, <1>4, <1>6, <1>12, <1>15
  <2>2. \A j \in 1..o + 1 : StarsEndAt(es, us, w, j)
    BY <1>3, <1>13
  <2> QED
    BY ONLY <1>14, <2>1, <2>2, OpenParts
<1> QED
  BY <1>4, <1>16, NotEmpty DEF Opened

\* The whole text has been read.
LEMMA EndRead ==
  ASSUME NEW ds \in Seq(Declarators), NEW t \in Seq(Tokens), Len(ds) = 1, OpenOK(ds, t),
         ds[1].direct
  PROVE  KindsOf(DeclaratorType(ds[1])) = Derivation(t)
<1>1. PICK ends \in [1..0 + 1 -> Nat] :
        /\ \A j \in 1..0 + 1 : StarsEndAt(ends, ds, t, j)
        /\ ReadSoFar(ends[0 + 1], ds[0 + 1], t)
  <2>1. 0 \in Nat /\ Len(ds) = 0 + 1
    OBVIOUS
  <2> QED
    BY <2>1, OpenParts
<1>2. PICK n, e, dd : n = Len(t) /\ e = ends[1] /\ dd = ds[1]
  OBVIOUS
<1>3. n \in Nat /\ e \in Nat /\ dd \in Declarators
  BY <1>2, SeqIsFunction
<1>4. PICK id \in 1..n :
        /\ e < id /\ \A i \in 1..n : t[i] = "identifier" <=> i = id
        /\ ReadOn(id, e, KindsOf(dd.type \o dd.nodes), t)
  BY <1>1, <1>2 DEF ReadSoFar
<1>5. e <= n /\ e = Len(dd.stars) /\ \A i \in e - e + 1..e : t[i] = "*"
  <2>1. StarsEndAt(ends, ds, t, 1)
    BY <1>1
  <2>2. Len(dd.stars) \in Nat
    BY <1>3, DeclaratorKinds
  <2> QED
    BY <1>2, <1>3, <2>1, <2>2 DEF StarsEndAt
<1>6. PICK f, r, kk : f = Readings(t) /\ r = n + 1 /\ kk = KindsOf(dd.type \o dd.nodes)
  OBVIOUS
<1>7. f[<<id - 1, id + 1>>] = kk \o f[<<e, r>>]
  <2>1. <<>> \in Seq(Tokens) /\ t \o <<>> = t
    OBVIOUS
  <2>2. Readings(t \o <<>>)[<<id - 1, id + 1>>] = kk \o Readings(t \o <<>>)[<<e, Len(t) + 1>>]
    BY <1>4, <1>6, <2>1 DEF ReadOn
  <2> QED
    BY <1>2, <1>6, <2>1, <2>2, Zenon
<1>8. f[<<e, r>>] = Pointers(e) \o f[<<0, r>>]
  <2>1. TokenAt(t, r) = "end"
    BY <1>2, <1>3, <1>6 DEF TokenAt
  <2>2. PICK b : b = 0
    OBVIOUS
  <2>3. /\ t \in Seq(Tokens) /\ e \in 0..Len(t) /\ r \in 1..Len(t) + 1 /\ e \in 0..e
        /\ TokenAt(t, r) # "[]" /\ TokenAt(t, r) # "()" /\ b = e - e /\ f = Readings(t)
    BY <1>2, <1>3, <1>5, <1>6, <2>1, <2>2
  <2>4. \A i \in b + 1..e : t[i] = "*"
    BY <1>3, <1>5, <2>2
  <2>5. f[<<e, r>>] = Pointers(e) \o f[<<b, r>>]
    <3>1. InFront(t, f, r, e, e, b)
      BY ONLY <2>3, <2>4 DEF InFront
    <3>2. PointersRead(f, r, e, e, b)
      BY ONLY <3>1, PointersInFront
    <3> QED
      BY <3>2 DEF PointersRead
  <2> QED
    BY <2>2, <2>5
<1>9. f[<<0, r>>] = <<>>
  <2>1. TokenAt(t, r) = "end" /\ TokenAt(t, 0) = "end"
    BY <1>2, <1>3, <1>6 DEF TokenAt
  <2>2. 0 \in 0..n /\ r \in 1..n + 1
    BY <1>3, <1>6
  <2>3. f[<<0, r>>] = ReadingStep(t, f, 0, r)
    BY <1>2, <1>6, <2>2, ReadingsEquation
  <2>4. ReadingStep(t, f, 0, r) = <<>>
    BY <2>1 DEF ReadingStep
  <2> QED
    BY <2>3, <2>4
<1>10. f[<<id - 1, id + 1>>] = kk \o Pointers(e)
  <2>1. Pointers(e) \in Seq(Kinds)
    <3>1. <<>> \in Seq(Kinds)
      OBVIOUS
    <3> QED
      BY <1>3, <3>1, PointersAppend
  <2>2. Pointers(e) \o <<>> = Pointers(e)
    BY <2>1
  <2> QED
    BY <1>7, <1>8, <1>9, <2>2, Zenon
<1>11. (CHOOSE i \in DOMAIN t : t[i] = "identifier") = id
  <2>1. DOMAIN t = 1..n
    BY <1>2, SeqIsFunction
  <2> QED
    BY <1>4, <2>1
<1>12. Derivation(t) = f[<<id - 1, id + 1>>]
  BY <1>6, <1>11, Zenon DEF Derivation
<1>13. KindsOf(DeclaratorType(dd)) = kk \o Pointers(e)
  BY <1>3, <1>5, <1>6, DeclaratorKinds
<1> QED
  BY <1>2, <1>10, <1>12, <1>13

-----------------------------------------------------------------------------
(* The invariant.                                                           *)

\* Forms that a declaration may have.
PointerForm == "pointer returned" \in Shapes
InlineForm == "inline first" \in Shapes
StarForm == "qualified inner star" \in Shapes

\* A declarator's type is what C reads in its text.
Bases ==
  {x \in [type : Seq(ChainNodes), text : Seq(Tokens)] :
     KindsOf(x.type) = Derivation(x.text) /\ (ReturnsPointer(x.type) => PointerForm)}

\* What the specifiers make of it.
Finish(base, list) == [type |-> WithSpecifiers(base.type, DataType(list)), text |-> base.text]
Finished(bases, list) == [i \in 1..Len(bases) |-> Finish(bases[i], list)]

\* The type is not that of a function.
NoFunction(type) == type = <<>> \/ type[1].kind # "FUNCTION"

\* Why a declaration is refused: the node of inline, the last star, the specifiers, or a body
\* behind what is no function.
Refused ==
  \/ InlineForm
  \/ StarForm
  \/ Conflict(specifiers)
  \/ Complete /\ ~NoList(Innermost) /\ NoFunction(DeclaratorType(Innermost))

\* What is open says what was read of the text.
OpenInv ==
  /\ text \in Seq(Tokens) /\ open \in Seq(Declarators)
  /\ open = <<>> => text = <<>>
  /\ open # <<>> => OpenOK(open, text)

\* The specifiers are known, and have the forms that Shapes allows.
SpecifiersInv ==
  /\ specifiers \in Seq(KnownKeywords) /\ tokens \in 0..MaxTokens
  /\ phase # "specifiers" => specifiers # <<>> /\ SpecifierForms(specifiers) \subseteq Shapes

\* What was declared has the types C reads, at the end with the specifiers behind them.
DeclaredInv ==
  /\ phase # "done" => /\ declared \in Seq(Bases) /\ Len(declared) <= MaxDeclarators
                       /\ open # <<>> => Len(declared) < MaxDeclarators
  /\ phase = "done" =>
       ~Conflict(specifiers) /\ open = <<>>
       /\ \E bases \in Seq(Bases) :
            Len(bases) <= MaxDeclarators /\ declared = Finished(bases, specifiers)

\* The inductive invariant.
DInv ==
  /\ phase \in {"specifiers", "declarators", "done", "fatal"}
  /\ OpenInv /\ SpecifiersInv /\ DeclaredInv
  /\ phase = "specifiers" => open = <<>> /\ declared = <<>>
  /\ phase = "fatal" => Refused

\* A declarator of which nothing was read.
LEMMA FirstOpened ==
  ASSUME NEW ds, ds = <<NewDeclarator>>, NEW t, t = <<>>
  PROVE  Opened(ds, t) /\ NewDeclarator \in Declarators
         /\ Fresh(NewDeclarator) /\ NewDeclarator.stars = <<>>
<1>1. PICK d : d = NewDeclarator
  OBVIOUS
<1>2. d \in Declarators /\ Fresh(d) /\ d.stars = <<>>
  BY <1>1 DEF NewDeclarator, Declarators, Fresh
<1>3. ds = <<d>> /\ ds \in Seq(Declarators) /\ Len(ds) = 0 + 1 /\ ds[1] = d /\ ds # <<>>
  BY <1>1, <1>2
<1>4. PICK ends : ends = [j \in 1..0 + 1 |-> 0]
  OBVIOUS
<1>5. ends \in [1..0 + 1 -> Nat] /\ ends[1] = 0
  BY <1>4
<1>6. StarsEndAt(ends, ds, t, 1)
  <2>1. Len(ds[1].stars) = 0 /\ Len(t) = 0 /\ 0 - 0 + 1..0 = {} /\ 0 <= 0
    BY <1>2, <1>3
  <2> QED
    BY <1>5, <2>1 DEF StarsEndAt
<1>7. ReadSoFar(ends[0 + 1], ds[0 + 1], t)
  <2>1. Len(t) = 0 /\ 1..Len(t) = {} /\ 0 + 1 = 1
    OBVIOUS
  <2>2. ~d.direct
    BY <1>2 DEF Fresh
  <2> QED
    BY <1>2, <1>3, <1>5, <2>1, <2>2 DEF ReadSoFar
<1>8. \A j \in 1..0 + 1 : StarsEndAt(ends, ds, t, j)
  <2>1. \A j \in 1..0 + 1 : j = 1
    OBVIOUS
  <2> QED
    BY <1>6, <2>1
<1>9. \A j \in 1..0 : Fresh(ds[j])
  OBVIOUS
<1>10. 0 \in Nat
  OBVIOUS
<1>11. OpenOK(ds, t)
  BY ONLY <1>3, <1>5, <1>7, <1>8, <1>9, <1>10, OpenParts
<1> QED
  BY <1>1, <1>2, <1>3, <1>11 DEF Opened

\* What is known of the innermost declarator.
LEMMA InnermostKnown ==
  ASSUME OpenInv, open # <<>>
  PROVE  \E m \in Nat : /\ Len(open) = m + 1 /\ Innermost = open[m + 1]
                        /\ Innermost \in Declarators
                        /\ ~Innermost.direct => Fresh(Innermost)
                        /\ \A j \in 1..m : open[j] \in Declarators /\ Fresh(open[j])
<1>1. open \in Seq(Declarators) /\ OpenOK(open, text)
  BY DEF OpenInv
<1>2. PICK l : l = Len(open)
  OBVIOUS
<1>3. l \in Nat /\ l # 0 /\ \A j \in 1..l : open[j] \in Declarators
  <2>1. l \in Nat /\ \A j \in 1..l : open[j] \in Declarators
    BY <1>1, <1>2, SeqIsFunction
  <2>2. l # 0
    BY <1>1, <1>2, EmptySeq
  <2> QED
    BY <2>1, <2>2
<1>4. PICK m : m = l - 1
  OBVIOUS
<1>5. m \in Nat /\ l = m + 1 /\ m + 1 \in 1..l /\ \A j \in 1..m : j \in 1..l
  BY <1>3, <1>4
<1>6. Len(open) = m + 1
  BY <1>2, <1>5
<1>7. PICK ends \in [1..m + 1 -> Nat] :
        /\ \A j \in 1..m + 1 : StarsEndAt(ends, open, text, j)
        /\ \A j \in 1..m : Fresh(open[j])
        /\ ReadSoFar(ends[m + 1], open[m + 1], text)
  BY ONLY <1>1, <1>5, <1>6, OpenParts
<1>8. Innermost = open[m + 1]
  BY <1>6 DEF Innermost
<1>9. ~open[m + 1].direct => Fresh(open[m + 1])
  BY <1>7 DEF ReadSoFar
<1> QED
  BY <1>3, <1>5, <1>6, <1>7, <1>8, <1>9

\* A token of the innermost declarator.
LEMMA TokenRead ==
  ASSUME DInv, Reading, NEW t \in Tokens, NEW ds, NEW w, w = Append(text, t), Opened(ds, w),
         Token(t, ds)
  PROVE  DInv'
<1>1. /\ tokens < MaxTokens /\ tokens' = tokens + 1 /\ text' = w /\ open' = ds
      /\ phase' = phase /\ specifiers' = specifiers /\ declared' = declared
      /\ phase = "declarators" /\ open # <<>>
  BY DEF Token, ReadToken, Reading
<1>2. text \in Seq(Tokens)
  BY DEF DInv, OpenInv
<1>3. w \in Seq(Tokens)
  BY <1>2, AppendParts
<1>4. OpenInv'
  BY <1>1, <1>3 DEF OpenInv, Opened
<1>5. SpecifiersInv'
  <2>1. tokens' \in 0..MaxTokens
    BY <1>1, BoundsAssumption DEF DInv, SpecifiersInv
  <2> QED
    BY <1>1, <2>1 DEF DInv, SpecifiersInv
<1>6. DeclaredInv'
  BY <1>1 DEF DInv, DeclaredInv
<1> QED
  BY <1>1, <1>4, <1>5, <1>6 DEF DInv

\* A declarator of which one field is changed.
LEMMA StarsSet ==
  ASSUME NEW i \in Declarators, NEW x \in Seq(BOOLEAN), NEW d, d = [i EXCEPT !.stars = x]
  PROVE  d \in Declarators /\ d.stars = x /\ d.type = i.type /\ d.nodes = i.nodes
         /\ d.direct = i.direct
<1>1. d.stars = x /\ d.type = i.type /\ d.nodes = i.nodes
  BY DEF Declarators
<1>2. d.direct = i.direct
  BY DEF Declarators
<1>3. d \in Declarators
  BY DEF Declarators
<1> QED
  BY <1>1, <1>2, <1>3

\* ... its nodes ...
LEMMA NodesSet ==
  ASSUME NEW i \in Declarators, NEW x \in Seq(ChainNodes), NEW d, d = [i EXCEPT !.nodes = x]
  PROVE  d \in Declarators /\ d.stars = i.stars /\ d.type = i.type /\ d.nodes = x
         /\ d.direct = i.direct
<1>1. d.stars = i.stars /\ d.type = i.type /\ d.nodes = x
  BY DEF Declarators
<1>2. d.direct = i.direct
  BY DEF Declarators
<1>3. d \in Declarators
  BY DEF Declarators
<1> QED
  BY <1>1, <1>2, <1>3

\* ... that it is read ...
LEMMA DirectSet ==
  ASSUME NEW i \in Declarators, NEW d, d = [i EXCEPT !.direct = TRUE]
  PROVE  d \in Declarators /\ d.stars = i.stars /\ d.type = i.type /\ d.nodes = i.nodes
         /\ d.direct
<1>1. d.stars = i.stars /\ d.type = i.type /\ d.nodes = i.nodes
  BY DEF Declarators
<1>2. d.direct
  BY DEF Declarators
<1>3. d \in Declarators
  BY DEF Declarators
<1> QED
  BY <1>1, <1>2, <1>3

TypeIsSet(i, y, d) == d = [i EXCEPT !.direct = TRUE, !.type = y]

\* ... and its type with that.
LEMMA TypeSet ==
  ASSUME NEW i \in Declarators, NEW y \in Seq(ChainNodes), NEW d, TypeIsSet(i, y, d)
  PROVE  d \in Declarators /\ d.stars = i.stars /\ d.type = y /\ d.nodes = i.nodes
         /\ d.direct
<1>1. d.stars = i.stars /\ d.type = y /\ d.nodes = i.nodes
  BY DEF Declarators, TypeIsSet
<1>2. d.direct
  BY DEF Declarators, TypeIsSet
<1>3. d \in Declarators
  BY DEF Declarators, TypeIsSet
<1> QED
  BY <1>1, <1>2, <1>3

\* Each token.
LEMMA StarKeeps ==
  ASSUME DInv, NEW q \in BOOLEAN, Star(q)
  PROVE  DInv'
<1>1. PICK d, us, w : /\ d = [Innermost EXCEPT !.stars = Append(@, q)]
                      /\ us = Append(Outer, d) /\ w = Append(text, "*")
  OBVIOUS
<1>2. Reading /\ open # <<>> /\ OpenInv /\ ~Innermost.direct /\ Token("*", us)
  BY <1>1 DEF DInv, Star, Reading
<1>3. PICK m \in Nat : /\ Len(open) = m + 1 /\ Innermost = open[m + 1]
                       /\ Innermost \in Declarators
                       /\ ~Innermost.direct => Fresh(Innermost)
  BY <1>2, InnermostKnown
<1>4. /\ d \in Declarators /\ d.stars = Append(open[m + 1].stars, q)
      /\ d.type = Innermost.type /\ d.nodes = Innermost.nodes /\ d.direct = Innermost.direct
  <2>1. PICK i, x : i = Innermost /\ x = Append(i.stars, q)
    OBVIOUS
  <2>2. i \in Declarators /\ x \in Seq(BOOLEAN) /\ d = [i EXCEPT !.stars = x]
    <3>1. i.stars \in Seq(BOOLEAN)
      BY <1>3, <2>1 DEF Declarators
    <3> QED
      BY <1>1, <1>3, <2>1, <3>1, AppendProperties
  <2>3. /\ d \in Declarators /\ d.stars = x /\ d.type = i.type /\ d.nodes = i.nodes
        /\ d.direct = i.direct
    BY ONLY <2>2, StarsSet
  <2> QED
    BY <1>3, <2>1, <2>3
<1>5. Fresh(d)
  BY <1>2, <1>3, <1>4 DEF Fresh
<1>6. /\ open \in Seq(Declarators) /\ text \in Seq(Tokens) /\ OpenOK(open, text)
      /\ ~open[m + 1].direct /\ us = Append(SubSeq(open, 1, Len(open) - 1), d)
  BY <1>1, <1>2, <1>3 DEF OpenInv, Outer
<1>7. Opened(us, w)
  BY ONLY <1>1, <1>3, <1>4, <1>5, <1>6, StarRead
<1>8. "*" \in Tokens
  BY DEF Tokens
<1> QED
  BY <1>1, <1>2, <1>7, <1>8, TokenRead

\* A declarator in parentheses begins.
LEMMA OpenParenthesisKeeps ==
  ASSUME DInv, OpenParenthesis
  PROVE  DInv'
<1>1. PICK d, us, w : d = NewDeclarator /\ us = Append(open, d) /\ w = Append(text, "(")
  OBVIOUS
<1>2. Reading /\ open # <<>> /\ OpenInv /\ ~Innermost.direct /\ Token("(", us)
  BY <1>1 DEF DInv, OpenParenthesis, Reading
<1>3. PICK m \in Nat : Len(open) = m + 1 /\ Innermost = open[m + 1]
  BY <1>2, InnermostKnown
<1>4. d \in Declarators /\ d.stars = <<>> /\ Fresh(d)
  BY <1>1, FirstOpened
<1>5. /\ open \in Seq(Declarators) /\ text \in Seq(Tokens) /\ OpenOK(open, text)
      /\ ~open[m + 1].direct
  BY <1>2, <1>3 DEF OpenInv
<1>6. Opened(us, w)
  BY ONLY <1>1, <1>3, <1>4, <1>5, ParenthesisRead
<1>7. "(" \in Tokens
  BY DEF Tokens
<1> QED
  BY <1>1, <1>2, <1>6, <1>7, TokenRead

\* The identifier is read.
LEMMA IdentifierKeeps ==
  ASSUME DInv, Identifier
  PROVE  DInv'
<1>1. PICK d, us, w : /\ d = [Innermost EXCEPT !.direct = TRUE]
                      /\ us = Append(Outer, d) /\ w = Append(text, "identifier")
  OBVIOUS
<1>2. Reading /\ open # <<>> /\ OpenInv /\ ~Innermost.direct /\ Token("identifier", us)
  BY <1>1 DEF DInv, Identifier, Reading
<1>3. PICK m \in Nat : /\ Len(open) = m + 1 /\ Innermost = open[m + 1]
                       /\ Innermost \in Declarators
                       /\ ~Innermost.direct => Fresh(Innermost)
  BY <1>2, InnermostKnown
<1>4. /\ d \in Declarators /\ d.stars = open[m + 1].stars
      /\ d.type = <<>> /\ d.nodes = <<>> /\ d.direct
  <2>1. PICK i : i = Innermost
    OBVIOUS
  <2>2. i \in Declarators /\ d = [i EXCEPT !.direct = TRUE] /\ i.type = <<>> /\ i.nodes = <<>>
    BY <1>1, <1>2, <1>3, <2>1 DEF Fresh
  <2>3. /\ d \in Declarators /\ d.stars = i.stars /\ d.type = i.type /\ d.nodes = i.nodes
        /\ d.direct
    BY ONLY <2>2, DirectSet
  <2> QED
    BY <1>3, <2>1, <2>2, <2>3
<1>5. /\ open \in Seq(Declarators) /\ text \in Seq(Tokens) /\ OpenOK(open, text)
      /\ ~open[m + 1].direct /\ us = Append(SubSeq(open, 1, Len(open) - 1), d)
  BY <1>1, <1>2, <1>3 DEF OpenInv, Outer
<1>6. Opened(us, w)
  BY ONLY <1>1, <1>3, <1>4, <1>5, IdentifierRead
<1>7. "identifier" \in Tokens
  BY DEF Tokens
<1> QED
  BY <1>1, <1>2, <1>6, <1>7, TokenRead

\* An array or the parameters of a function.
LEMMA SuffixKeeps ==
  ASSUME DInv, NEW kind \in {"ARRAY", "FUNCTION"}, Suffix(kind)
  PROVE  DInv'
<1>1. PICK d, us, w, x : /\ d = [Innermost EXCEPT !.nodes = Append(@, Node(kind))]
                         /\ us = Append(Outer, d) /\ w = Append(text, x)
                         /\ x = IF kind = "ARRAY" THEN "[]" ELSE "()"
  OBVIOUS
<1>2. Reading /\ open # <<>> /\ OpenInv /\ Innermost.direct /\ Token(x, us)
  BY <1>1 DEF DInv, Suffix, Reading
<1>3. PICK m \in Nat : /\ Len(open) = m + 1 /\ Innermost = open[m + 1]
                       /\ Innermost \in Declarators
  BY <1>2, InnermostKnown
<1>4. /\ d \in Declarators /\ d.stars = open[m + 1].stars /\ d.type = open[m + 1].type
      /\ d.nodes = Append(open[m + 1].nodes, Node(kind)) /\ d.direct
  <2>1. PICK i, y : i = Innermost /\ y = Append(i.nodes, Node(kind))
    OBVIOUS
  <2>2. i \in Declarators /\ y \in Seq(ChainNodes) /\ d = [i EXCEPT !.nodes = y]
    <3>1. i.nodes \in Seq(ChainNodes)
      BY <1>3, <2>1 DEF Declarators
    <3>2. Node(kind) \in ChainNodes
      BY DEF Node, ChainNodes, Kinds
    <3> QED
      BY <1>1, <1>3, <2>1, <3>1, <3>2, AppendProperties
  <2>3. /\ d \in Declarators /\ d.stars = i.stars /\ d.type = i.type /\ d.nodes = y
        /\ d.direct = i.direct
    BY ONLY <2>2, NodesSet
  <2> QED
    BY <1>2, <1>3, <2>1, <2>3
<1>5. /\ open \in Seq(Declarators) /\ text \in Seq(Tokens) /\ OpenOK(open, text)
      /\ open[m + 1].direct /\ us = Append(SubSeq(open, 1, Len(open) - 1), d)
      /\ kind \in {"ARRAY", "FUNCTION"}
  BY <1>1, <1>2, <1>3 DEF OpenInv, Outer
<1>6. Opened(us, w)
  BY ONLY <1>1, <1>3, <1>4, <1>5, SuffixRead
<1>7. x \in Tokens
  BY <1>1 DEF Tokens
<1> QED
  BY <1>1, <1>2, <1>6, <1>7, TokenRead

\* A fatal error leaves everything else as it is.
LEMMA FatalKeeps ==
  ASSUME DInv, Fatal, phase = "declarators", Refused
  PROVE  DInv'
<1>1. /\ phase' = "fatal" /\ specifiers' = specifiers /\ open' = open /\ text' = text
      /\ declared' = declared /\ tokens' = tokens
  BY DEF Fatal
<1>2. OpenInv' /\ SpecifiersInv' /\ DeclaredInv'
  BY <1>1 DEF DInv, OpenInv, SpecifiersInv, DeclaredInv
<1>3. Refused'
  BY <1>1 DEF Refused, Complete, Innermost
<1> QED
  BY <1>1, <1>2, <1>3 DEF DInv

\* The declarator in parentheses ends.
LEMMA CloseParenthesisKeeps ==
  ASSUME DInv, CloseParenthesis
  PROVE  DInv'
<1>1. PICK d, us, w, around, i :
        /\ around = open[Len(open) - 1] /\ i = Innermost
        /\ d = [around EXCEPT !.direct = TRUE, !.type = DeclaratorType(i)]
        /\ us = Append(SubSeq(open, 1, Len(open) - 2), d) /\ w = Append(text, ")")
  OBVIOUS
<1>2. /\ Reading /\ Len(open) > 1 /\ Innermost.direct
      /\ NoList(Innermost) => StarForm /\ Fatal
      /\ ~NoList(Innermost) => Token(")", us)
  BY <1>1, Zenon DEF CloseParenthesis, StarForm, Fatal
<1>3. phase = "declarators" /\ open # <<>> /\ OpenInv
  BY <1>2 DEF Reading, DInv
<1>4. CASE NoList(Innermost)
  BY <1>2, <1>3, <1>4, FatalKeeps DEF Refused
<1>5. CASE ~NoList(Innermost)
  <2>1. PICK m \in Nat : /\ Len(open) = m + 1 /\ Innermost = open[m + 1]
                         /\ Innermost \in Declarators
                         /\ \A j \in 1..m : open[j] \in Declarators /\ Fresh(open[j])
    BY <1>3, InnermostKnown
  <2>2. m \in Nat \ {0} /\ around = open[m] /\ m \in 1..m
    BY <1>1, <1>2, <2>1
  <2>3. around \in Declarators /\ DeclaratorType(i) \in Seq(ChainNodes)
    BY <1>1, <2>1, <2>2, DeclaratorKinds
  <2>4. /\ d \in Declarators /\ d.stars = around.stars /\ d.type = DeclaratorType(i)
        /\ d.nodes = around.nodes /\ d.direct
    <3>1. PICK y : y = DeclaratorType(i)
      OBVIOUS
    <3>2. around \in Declarators /\ y \in Seq(ChainNodes) /\ TypeIsSet(around, y, d)
      BY <1>1, <2>3, <3>1 DEF TypeIsSet
    <3>3. /\ d \in Declarators /\ d.stars = around.stars /\ d.type = y
          /\ d.nodes = around.nodes /\ d.direct
      BY ONLY <3>2, TypeSet
    <3> QED
      BY <3>1, <3>3
  <2>5. /\ d \in Declarators /\ d.stars = open[m].stars /\ d.type = DeclaratorType(open[m + 1])
        /\ d.nodes = open[m].nodes /\ d.direct
    BY <1>1, <2>1, <2>2, <2>4
  <2>6. /\ open \in Seq(Declarators) /\ text \in Seq(Tokens) /\ OpenOK(open, text)
        /\ open[m + 1].direct
    BY <1>2, <1>3, <2>1 DEF OpenInv
  <2>7. Opened(us, w)
    BY ONLY <1>1, <2>1, <2>2, <2>5, <2>6, CloseRead
  <2>8. ")" \in Tokens
    BY DEF Tokens
  <2> QED
    BY <1>1, <1>2, <1>5, <2>7, <2>8, TokenRead
<1> QED
  BY <1>4, <1>5

\* A declarator that is whole.
LEMMA EndKnown ==
  ASSUME OpenInv, Complete, Ends(Innermost), NEW base,
         base = [type |-> DeclaratorType(Innermost), text |-> text]
  PROVE  /\ base \in Bases
         /\ NoList(Innermost) => StarForm
<1>1. open # <<>> /\ Len(open) = 1 /\ Innermost = open[1] /\ open[1].direct
  BY DEF Complete, Innermost
<1>2. /\ open \in Seq(Declarators) /\ text \in Seq(Tokens) /\ OpenOK(open, text)
  BY <1>1 DEF OpenInv
<1>3. KindsOf(DeclaratorType(open[1])) = Derivation(text)
  BY ONLY <1>1, <1>2, EndRead
<1>4. Innermost \in Declarators
  BY <1>1, <1>2, SeqIsFunction
<1>5. PICK type : type = DeclaratorType(Innermost)
  OBVIOUS
<1>6. type \in Seq(ChainNodes) /\ KindsOf(type) = Derivation(text)
  BY <1>1, <1>3, <1>4, <1>5, DeclaratorKinds
<1>7. /\ NoList(Innermost) => StarForm
      /\ ReturnsPointer(DeclaratorType(Innermost)) => PointerForm
  BY Zenon DEF Ends, StarForm, PointerForm
<1>8. base = [type |-> type, text |-> text]
  BY <1>5
<1>9. /\ base \in [type : Seq(ChainNodes), text : Seq(Tokens)]
      /\ base.type = type /\ base.text = text
  BY <1>2, <1>6, <1>8
<1>10. ReturnsPointer(base.type) => PointerForm
  BY <1>5, <1>7, <1>9
<1> QED
  BY <1>6, <1>7, <1>9, <1>10 DEF Bases

\* The declarator is added to what is declared.
LEMMA EndDeclaratorKeeps ==
  ASSUME DInv, EndDeclarator
  PROVE  DInv'
<1>1. /\ phase = "declarators" /\ open # <<>> /\ Complete /\ Ends(Innermost) /\ OpenInv
      /\ DeclaredInv
  BY DEF EndDeclarator, Reading, DInv
<1>2. PICK base : base = [type |-> DeclaratorType(Innermost), text |-> text]
  OBVIOUS
<1>3. base \in Bases /\ (NoList(Innermost) => StarForm)
  BY ONLY <1>1, <1>2, EndKnown
<1>4. CASE NoList(Innermost)
  <2>1. Fatal /\ Refused
    BY <1>3, <1>4 DEF EndDeclarator, Refused
  <2> QED
    BY <1>1, <2>1, FatalKeeps
<1>5. CASE ~NoList(Innermost)
  <2>1. /\ declared' = Append(declared, base) /\ open' = <<>> /\ text' = <<>>
        /\ phase' = phase /\ specifiers' = specifiers /\ tokens' = tokens
    BY <1>2, <1>5 DEF EndDeclarator
  <2>2. declared \in Seq(Bases) /\ Len(declared) < MaxDeclarators
    BY <1>1 DEF DeclaredInv
  <2>3. PICK ds, n : ds = Append(declared, base) /\ n = Len(declared)
    OBVIOUS
  <2>4. n \in Nat /\ ds \in Seq(Bases) /\ Len(ds) = n + 1
    BY <1>3, <2>2, <2>3, AppendParts
  <2>5. Len(ds) <= MaxDeclarators
    BY <2>2, <2>3, <2>4, BoundsAssumption
  <2>6. OpenInv'
    BY <2>1 DEF OpenInv
  <2>7. SpecifiersInv'
    BY <2>1 DEF DInv, SpecifiersInv
  <2>8. DeclaredInv'
    BY <1>1, <2>1, <2>3, <2>4, <2>5 DEF DeclaredInv
  <2> QED
    BY <1>1, <2>1, <2>6, <2>7, <2>8 DEF DInv
<1> QED
  BY <1>4, <1>5

\* The next one begins.
LEMMA NextDeclaratorKeeps ==
  ASSUME DInv, NextDeclarator
  PROVE  DInv'
<1>1. /\ phase = "declarators" /\ open = <<>> /\ Len(declared) < MaxDeclarators
      /\ open' = <<NewDeclarator>> /\ phase' = phase /\ specifiers' = specifiers
      /\ text' = text /\ declared' = declared /\ tokens' = tokens
  BY DEF NextDeclarator
<1>2. text = <<>>
  BY <1>1 DEF DInv, OpenInv
<1>3. Opened(open', text)
  BY <1>1, <1>2, FirstOpened
<1>4. OpenInv'
  BY <1>1, <1>2, <1>3 DEF OpenInv, Opened, DInv
<1>5. SpecifiersInv'
  BY <1>1 DEF DInv, SpecifiersInv
<1>6. DeclaredInv'
  BY <1>1 DEF DInv, DeclaredInv
<1> QED
  BY <1>1, <1>4, <1>5, <1>6 DEF DInv

\* The types of the declarators, finished.
LEMMA FinishedParts ==
  ASSUME NEW bases \in Seq(Bases), NEW list, NEW fs, fs = Finished(bases, list)
  PROVE  /\ Len(fs) = Len(bases) /\ Len(fs) \in Nat /\ DOMAIN fs = 1..Len(bases)
         /\ \A i \in 1..Len(bases) : fs[i] = Finish(bases[i], list) /\ bases[i] \in Bases
<1>1. PICK n : n = Len(bases)
  OBVIOUS
<1>2. n \in Nat /\ \A i \in 1..n : bases[i] \in Bases
  BY <1>1, SeqIsFunction
<1>3. fs = [i \in 1..n |-> Finish(bases[i], list)]
  BY <1>1 DEF Finished
<1>4. PICK S : S = {Finish(bases[i], list) : i \in 1..n}
  OBVIOUS
<1>5. \A i \in 1..n : fs[i] \in S
  BY <1>3, <1>4
<1>6. fs = [i \in 1..n |-> fs[i]]
  BY <1>3
<1>7. fs \in Seq(S) /\ Len(fs) = n
  BY ONLY <1>2, <1>5, <1>6, FunctionIsSeq
<1> QED
  BY <1>1, <1>2, <1>3, <1>7

\* All declarators get the type of the specifiers.
LEMMA EndDeclarationKeeps ==
  ASSUME DInv, EndDeclaration
  PROVE  DInv'
<1>1. /\ phase = "declarators" /\ open = <<>> /\ DeclaredInv
      /\ declared \in Seq(Bases) /\ Len(declared) <= MaxDeclarators
  BY DEF EndDeclaration, DInv, DeclaredInv
<1>2. CASE Conflict(specifiers)
  <2>1. Fatal /\ Refused
    BY <1>2 DEF EndDeclaration, Refused
  <2> QED
    BY <1>1, <2>1, FatalKeeps
<1>3. CASE ~Conflict(specifiers)
  <2>1. /\ phase' = "done" /\ specifiers' = specifiers /\ open' = open /\ text' = text
        /\ tokens' = tokens
        /\ declared' = [i \in DOMAIN declared |->
             [declared[i] EXCEPT !.type = WithSpecifiers(@, DataType(specifiers))]]
    BY <1>3 DEF EndDeclaration
  <2>2. PICK n, base : n = Len(declared) /\ base = DataType(specifiers)
    OBVIOUS
  <2>3. n \in Nat /\ DOMAIN declared = 1..n /\ \A i \in 1..n : declared[i] \in Bases
    BY <1>1, <2>2, SeqIsFunction
  <2>4. \A i \in 1..n : [declared[i] EXCEPT !.type = WithSpecifiers(@, base)]
                         = Finish(declared[i], specifiers)
    <3>1. ASSUME NEW i \in 1..n
          PROVE  [declared[i] EXCEPT !.type = WithSpecifiers(@, base)]
                 = Finish(declared[i], specifiers)
      <4>1. PICK x, y : x = declared[i] /\ y = WithSpecifiers(x.type, base)
        OBVIOUS
      <4>2. x \in [type : Seq(ChainNodes), text : Seq(Tokens)]
        BY <2>3, <4>1 DEF Bases
      <4>3. [x EXCEPT !.type = y] = [type |-> y, text |-> x.text]
        BY <4>2
      <4> QED
        BY <2>2, <4>1, <4>3 DEF Finish
    <3> QED
      BY <3>1
  <2>5. declared' = Finished(declared, specifiers)
    BY <2>1, <2>2, <2>3, <2>4, Zenon DEF Finished
  <2>6. DeclaredInv'
    BY <1>1, <1>3, <2>1, <2>5 DEF DeclaredInv
  <2>7. OpenInv' /\ SpecifiersInv'
    BY <1>1, <2>1 DEF DInv, OpenInv, SpecifiersInv
  <2> QED
    BY <2>1, <2>6, <2>7 DEF DInv
<1> QED
  BY <1>2, <1>3

\* A sequence of one or two nodes.
LEMMA DataTypeIsSeq ==
  ASSUME NEW list
  PROVE  \E S : DataType(list) \in Seq(S) /\ <<>> \o DataType(list) = DataType(list)
<1>1. PICK n, sign : n = Node(Data(list)) /\ sign = Node(SignOf(list))
  OBVIOUS
<1>2. DataType(list) = <<n>> \/ DataType(list) = <<sign, n>>
  BY <1>1 DEF DataType, SignOf
<1>3. <<n>> \in Seq({n, sign}) /\ <<sign, n>> \in Seq({n, sign})
  OBVIOUS
<1>4. DataType(list) \in Seq({n, sign})
  BY <1>2, <1>3
<1>5. \A s \in Seq({n, sign}) : <<>> \o s = s
  OBVIOUS
<1> QED
  BY <1>4, <1>5

\* A function gets it as its return type.
LEMMA EndDefinitionKeeps ==
  ASSUME DInv, EndDefinition
  PROVE  DInv'
<1>1. /\ phase = "declarators" /\ open # <<>> /\ Complete /\ Ends(Innermost) /\ OpenInv
      /\ DeclaredInv
  BY DEF EndDefinition, Reading, DInv
<1>2. PICK type, base, b : /\ type = DeclaratorType(Innermost) /\ b = DataType(specifiers)
                           /\ base = [type |-> DeclaratorType(Innermost), text |-> text]
  OBVIOUS
<1>3. base \in Bases /\ (NoList(Innermost) => StarForm)
  BY ONLY <1>1, <1>2, EndKnown
<1>4. CASE NoList(Innermost) \/ NoFunction(type) \/ Conflict(specifiers)
  <2>1. Fatal
    BY <1>2, <1>4 DEF EndDefinition, NoFunction
  <2>2. Refused
    BY <1>1, <1>2, <1>3, <1>4 DEF Refused
  <2> QED
    BY <1>1, <2>1, <2>2, FatalKeeps
<1>5. CASE ~(NoList(Innermost) \/ NoFunction(type) \/ Conflict(specifiers))
  <2>1. /\ declared' = <<[type |-> [type EXCEPT ![1].returns = b], text |-> text]>>
        /\ open' = <<>> /\ text' = <<>> /\ phase' = "done"
        /\ specifiers' = specifiers /\ tokens' = tokens
    BY <1>2, <1>5 DEF EndDefinition, NoFunction
  <2>2. base.type = type /\ base.text = text /\ type \in Seq(ChainNodes)
    <3>1. base.type = type /\ base.text = text
      BY <1>2
    <3> QED
      BY <1>3, <3>1 DEF Bases
  <2>3. type # <<>> /\ type[1].kind = "FUNCTION" /\ ~Conflict(specifiers)
    BY <1>5 DEF NoFunction
  <2>4. type[1].returns = <<>>
    <3>1. PICK l : l = Len(type)
      OBVIOUS
    <3>2. l \in Nat /\ l # 0 /\ \A k \in 1..l : type[k] \in ChainNodes
      <4>1. l \in Nat /\ \A k \in 1..l : type[k] \in ChainNodes
        BY <2>2, <3>1, SeqIsFunction
      <4>2. l # 0
        BY <2>2, <2>3, <3>1, EmptySeq
      <4> QED
        BY <4>1, <4>2
    <3>3. 1 \in 1..l
      BY <3>2
    <3> QED
      BY <3>2, <3>3 DEF ChainNodes
  <2>5. <<>> \o b = b
    BY <1>2, DataTypeIsSeq
  <2>6. WithSpecifiers(type, b) = [type EXCEPT ![1].returns = b]
    <3>1. WithSpecifiers(type, b) = [type EXCEPT ![1].returns = @ \o b]
      BY <2>3, Zenon DEF WithSpecifiers
    <3>2. type[1].returns \o b = b
      BY <2>4, <2>5, Zenon
    <3> QED
      BY <3>1, <3>2, Zenon
  <2>7. Finish(base, specifiers) = [type |-> [type EXCEPT ![1].returns = b], text |-> text]
    BY <1>2, <2>2, <2>6, Zenon DEF Finish
  <2>8. PICK bases, f : bases = <<base>> /\ f = Finish(base, specifiers)
    OBVIOUS
  <2>9. bases \in Seq(Bases) /\ Len(bases) = 1 /\ bases[1] = base
    BY <1>3, <2>8
  <2>10. declared' = Finished(bases, specifiers)
    <3>1. declared' = <<f>>
      BY <2>1, <2>7, <2>8, Zenon
    <3>2. Finished(bases, specifiers) = [i \in 1..1 |-> Finish(bases[i], specifiers)]
      BY <2>9 DEF Finished
    <3>3. [i \in 1..1 |-> Finish(bases[i], specifiers)] = [i \in 1..1 |-> f]
      <4>1. \A i \in 1..1 : Finish(bases[i], specifiers) = f
        <5>1. \A i \in 1..1 : i = 1
          OBVIOUS
        <5> QED
          BY <2>8, <2>9, <5>1, Zenon
      <4> QED
        BY <4>1, Zenon
    <3>4. [i \in 1..1 |-> f] = <<f>>
      OBVIOUS
    <3> QED
      BY <3>1, <3>2, <3>3, <3>4, Zenon
  <2>11. DeclaredInv'
    <3>1. Len(bases) <= MaxDeclarators
      BY <2>9, BoundsAssumption
    <3>2. ~Conflict(specifiers') /\ open' = <<>> /\ declared' = Finished(bases, specifiers')
      BY <2>1, <2>3, <2>10
    <3> QED
      BY <2>1, <2>9, <3>1, <3>2 DEF DeclaredInv
  <2>12. OpenInv' /\ SpecifiersInv'
    BY <1>1, <2>1 DEF DInv, OpenInv, SpecifiersInv
  <2> QED
    BY <2>1, <2>11, <2>12 DEF DInv
<1> QED
  BY <1>4, <1>5

\* A specifier is read.
LEMMA SpecifierKeeps ==
  ASSUME DInv, NEW s \in Keywords, Specifier(s)
  PROVE  DInv'
<1>1. /\ phase = "specifiers" /\ tokens < MaxTokens /\ tokens' = tokens + 1
      /\ specifiers' = Append(specifiers, s) /\ phase' = phase /\ open' = open
      /\ text' = text /\ declared' = declared
  BY DEF Specifier, ReadToken
<1>2. SpecifiersInv'
  <2>1. specifiers \in Seq(KnownKeywords) /\ tokens \in 0..MaxTokens
    BY DEF DInv, SpecifiersInv
  <2>2. s \in KnownKeywords
    BY KeywordsAssumption
  <2>3. specifiers' \in Seq(KnownKeywords)
    BY <1>1, <2>1, <2>2, AppendProperties
  <2>4. tokens' \in 0..MaxTokens
    BY <1>1, <2>1, BoundsAssumption
  <2> QED
    BY <1>1, <2>3, <2>4 DEF SpecifiersInv
<1>3. OpenInv' /\ DeclaredInv'
  BY <1>1 DEF DInv, OpenInv, DeclaredInv
<1> QED
  BY <1>1, <1>2, <1>3 DEF DInv

\* A list that begins with inline has that form.
LEMMA InlineFirst ==
  ASSUME NEW list, list[1] = "inline"
  PROVE  "inline first" \in SpecifierForms(list)
BY Zenon DEF SpecifierForms

\* The first declarator begins.
LEMMA EndSpecifiersKeeps ==
  ASSUME DInv, EndSpecifiers
  PROVE  DInv'
<1>1. /\ phase = "specifiers" /\ specifiers # <<>> /\ SpecifierForms(specifiers) \subseteq Shapes
      /\ specifiers' = specifiers /\ text' = text /\ declared' = declared /\ tokens' = tokens
      /\ \/ specifiers[1] = "inline" /\ phase' = "fatal" /\ open' = open
         \/ phase' = "declarators" /\ open' = <<NewDeclarator>>
  BY DEF EndSpecifiers
<1>2. open = <<>> /\ declared = <<>> /\ text = <<>>
  BY <1>1 DEF DInv, OpenInv
<1>3. SpecifiersInv'
  BY <1>1 DEF DInv, SpecifiersInv
<1>4. CASE specifiers[1] = "inline" /\ phase' = "fatal" /\ open' = open
  <2>1. InlineForm
    BY <1>1, <1>4, InlineFirst, Zenon DEF InlineForm
  <2>2. Refused'
    BY <2>1 DEF Refused
  <2>3. OpenInv' /\ DeclaredInv'
    BY <1>1, <1>2, <1>4 DEF DInv, OpenInv, DeclaredInv
  <2> QED
    BY <1>3, <1>4, <2>2, <2>3 DEF DInv
<1>5. CASE phase' = "declarators" /\ open' = <<NewDeclarator>>
  <2>1. Opened(open', text')
    BY <1>1, <1>2, <1>5, FirstOpened
  <2>2. OpenInv'
    BY <1>1, <1>2, <2>1 DEF OpenInv, Opened, DInv
  <2>3. DeclaredInv'
    <3>1. /\ declared' \in Seq(Bases)
          /\ Len(declared') < MaxDeclarators /\ Len(declared') <= MaxDeclarators
      BY <1>1, <1>2, BoundsAssumption
    <3> QED
      BY <1>5, <3>1 DEF DeclaredInv
  <2> QED
    BY <1>3, <1>5, <2>2, <2>3 DEF DInv
<1> QED
  BY <1>1, <1>4, <1>5

\* Nothing is read.
LEMMA InitHolds == Init => DInv
<1> SUFFICES ASSUME Init PROVE DInv
  OBVIOUS
<1>1. /\ phase = "specifiers" /\ specifiers = <<>> /\ open = <<>> /\ text = <<>>
      /\ declared = <<>> /\ tokens = 0
  BY DEF Init
<1>2. OpenInv
  BY <1>1 DEF OpenInv
<1>3. SpecifiersInv
  BY <1>1, BoundsAssumption DEF SpecifiersInv
<1>4. DeclaredInv
  BY <1>1, BoundsAssumption DEF DeclaredInv
<1> QED
  BY <1>1, <1>2, <1>3, <1>4 DEF DInv

\* Every action keeps the invariant ...
LEMMA NextKeeps == DInv /\ [Next]_vars => DInv'
<1> SUFFICES ASSUME DInv, [Next]_vars PROVE DInv'
  OBVIOUS
<1>1. ASSUME NEW s \in Keywords, Specifier(s) PROVE DInv'
  BY <1>1, SpecifierKeeps
<1>2. CASE EndSpecifiers
  BY <1>2, EndSpecifiersKeeps
<1>3. ASSUME NEW qualified \in BOOLEAN, Star(qualified) PROVE DInv'
  BY <1>3, StarKeeps
<1>4. CASE OpenParenthesis
  BY <1>4, OpenParenthesisKeeps
<1>5. CASE Identifier
  BY <1>5, IdentifierKeeps
<1>6. ASSUME NEW kind \in {"ARRAY", "FUNCTION"}, Suffix(kind) PROVE DInv'
  BY <1>6, SuffixKeeps
<1>7. CASE CloseParenthesis
  BY <1>7, CloseParenthesisKeeps
<1>8. CASE EndDeclarator
  BY <1>8, EndDeclaratorKeeps
<1>9. CASE NextDeclarator
  BY <1>9, NextDeclaratorKeeps
<1>10. CASE EndDeclaration
  BY <1>10, EndDeclarationKeeps
<1>11. CASE EndDefinition
  BY <1>11, EndDefinitionKeeps
<1>12. CASE UNCHANGED vars
  <2>1. /\ phase' = phase /\ specifiers' = specifiers /\ open' = open /\ text' = text
        /\ declared' = declared /\ tokens' = tokens
    BY <1>12 DEF vars
  <2>2. OpenInv' /\ SpecifiersInv' /\ DeclaredInv'
    BY <2>1 DEF DInv, OpenInv, SpecifiersInv, DeclaredInv
  <2>3. phase = "fatal" => Refused'
    BY <2>1 DEF DInv, Refused, Complete, Innermost
  <2> QED
    BY <2>1, <2>2, <2>3 DEF DInv
<1> QED
  BY <1>1, <1>2, <1>3, <1>4, <1>5, <1>6, <1>7, <1>8, <1>9, <1>10, <1>11, <1>12 DEF Next

\* ... so that it holds in every state.
LEMMA Invariance == Spec => []DInv
BY InitHolds, NextKeeps, PTL DEF Spec

-----------------------------------------------------------------------------
(* What is described.                                                       *)

\* Kinds of nodes, signs and data types included.
DataKinds == {"void", "char", "short", "int", "long", "longlong", "float", "double",
              "long_double", "struct"}
AllKinds == Kinds \cup Signs \cup DataKinds \cup {"unknown"}
AllNodes == [kind : AllKinds, returns : {<<>>}]

\* The kinds t without the sign of a type that has none.
Signless(t) ==
  IF Len(t) > 1 /\ t[Len(t)] \notin IntegerTypes /\ t[Len(t) - 1] \in Signs
  THEN SubSeq(t, 1, Len(t) - 2) \o <<t[Len(t)]>> ELSE t

\* A function returns what its return type describes.
LEMMA DescribedIs ==
  ASSUME NEW type
  PROVE  Described(type) = IF type[1].returns # <<>>
                           THEN <<type[1].kind>> \o Signless(KindsOf(type[1].returns))
                           ELSE Signless(KindsOf(type))
BY Zenon DEF Described, Signless, KindsOf

\* The sign in front of an integer type stays, the sign in front of another one goes.
LEMMA SignlessPair ==
  ASSUME NEW a \in Seq(Kinds), NEW sign \in Signs, NEW type \in DataKinds
  PROVE  Signless(a \o <<sign, type>>) =
           a \o (IF type \in IntegerTypes THEN <<sign, type>> ELSE <<type>>)
<1>1. PICK n, t, p : n = Len(a) /\ p = <<sign, type>> /\ t = a \o p
  OBVIOUS
<1>2. a \in Seq(AllKinds) /\ p \in Seq(AllKinds) /\ Len(p) = 2 /\ p[1] = sign /\ p[2] = type
  BY <1>1 DEF AllKinds
<1>3. /\ t \in Seq(AllKinds) /\ n \in Nat /\ Len(t) = n + 2 /\ t[n + 1] = sign /\ t[n + 2] = type
      /\ \A k \in 1..n : t[k] = a[k]
  <2>1. /\ t \in Seq(AllKinds) /\ Len(t) = Len(a) + Len(p) /\ Len(a) \in Nat
        /\ \A k \in 1..Len(a) : t[k] = a[k]
        /\ \A k \in 1..Len(p) : t[Len(a) + k] = p[k]
    BY <1>1, <1>2, ConcatParts
  <2>2. 1 \in 1..Len(p) /\ 2 \in 1..Len(p)
    BY <1>2
  <2> QED
    BY <1>1, <1>2, <2>1, <2>2
<1>4. PICK front : front = SubSeq(t, 1, n)
  OBVIOUS
<1>5. front = a
  <2>1. front \in Seq(AllKinds) /\ Len(front) = n /\ \A k \in 1..n : front[k] = t[k]
    <3>1. n <= Len(t) /\ 1 <= n + 1
      BY <1>3
    <3> QED
      BY <1>3, <1>4, <3>1, SubSeqProperties
  <2> QED
    BY <1>1, <1>2, <1>3, <2>1, SeqEqual
<1>6. Len(t) > 1 /\ (n + 2) - 1 = n + 1 /\ (n + 2) - 2 = n
  BY <1>3
<1>7. Signless(t) = IF type \notin IntegerTypes THEN a \o <<type>> ELSE t
  BY <1>3, <1>4, <1>5, <1>6 DEF Signless
<1> QED
  BY <1>1, <1>7

\* A type without a sign stays as it is.
LEMMA SignlessOne ==
  ASSUME NEW a \in Seq(Kinds), NEW type \in DataKinds
  PROVE  Signless(a \o <<type>>) = a \o <<type>>
<1>1. PICK n, t, p : n = Len(a) /\ p = <<type>> /\ t = a \o p
  OBVIOUS
<1>2. a \in Seq(AllKinds) /\ p \in Seq(AllKinds) /\ Len(p) = 1
  BY <1>1 DEF AllKinds
<1>3. /\ t \in Seq(AllKinds) /\ n \in Nat /\ Len(t) = n + 1
      /\ \A k \in 1..n : t[k] = a[k] /\ a[k] \in Kinds
  <2>1. /\ t \in Seq(AllKinds) /\ Len(t) = Len(a) + Len(p) /\ Len(a) \in Nat
        /\ \A k \in 1..Len(a) : t[k] = a[k]
    BY <1>1, <1>2, ConcatParts
  <2>2. \A k \in 1..Len(a) : a[k] \in Kinds
    BY SeqIsFunction
  <2> QED
    BY <1>1, <1>2, <2>1, <2>2
<1>4. ~(Len(t) > 1 /\ t[Len(t) - 1] \in Signs)
  <2>1. CASE n = 0
    BY <1>3, <2>1
  <2>2. CASE n # 0
    <3>1. n \in 1..n /\ (n + 1) - 1 = n
      BY <1>3, <2>2
    <3>2. t[Len(t) - 1] \in Kinds
      BY <1>3, <3>1
    <3> QED
      BY <3>2 DEF Kinds, Signs
  <2> QED
    BY <2>1, <2>2
<1> QED
  BY <1>1, <1>4 DEF Signless

\* The nodes of the specifiers.
LEMMA DataTypeNodes ==
  ASSUME NEW K, NEW list \in Seq(K), ~Conflict(list)
  PROVE  /\ Data(list) \in DataKinds \cup {"unknown"} /\ SignOf(list) \in Signs
         /\ DataType(list) \in Seq(AllNodes) /\ DataType(list) # <<>>
         /\ DataType(list)[1].kind \in AllKinds \ Kinds /\ DataType(list)[1].returns = <<>>
<1>1. Accepts(Data(list), Counts(list))
  BY MachineReads DEF Machine, Conflict
<1>2. Data(list) \in DataKinds \cup {"unknown"} /\ SignOf(list) \in Signs
  BY <1>1 DEF Accepts, DataKinds, SignOf, Signs
<1>3. PICK n, sign, b : /\ n = Node(Data(list)) /\ sign = Node(SignOf(list))
                        /\ b = DataType(list)
  OBVIOUS
<1>4. b = <<n>> \/ b = <<sign, n>>
  BY <1>3 DEF DataType, SignOf
<1>5. /\ n \in AllNodes /\ sign \in AllNodes /\ n.returns = <<>> /\ sign.returns = <<>>
      /\ n.kind = Data(list) /\ sign.kind = SignOf(list)
  BY <1>2, <1>3 DEF Node, AllNodes, AllKinds
<1>6. n.kind \in AllKinds \ Kinds /\ sign.kind \in AllKinds \ Kinds
  <2>1. \A k \in DataKinds \cup {"unknown"} \cup Signs : k \in AllKinds /\ k \notin Kinds
    BY DEF AllKinds, Kinds, Signs, DataKinds
  <2> QED
    BY <1>2, <1>5, <2>1
<1>7. b \in Seq(AllNodes) /\ b # <<>> /\ (b[1] = n \/ b[1] = sign)
  <2>1. n \in AllNodes /\ sign \in AllNodes
    BY <1>5
  <2>2. CASE b = <<n>>
    BY ONLY <2>1, <2>2
  <2>3. CASE b = <<sign, n>>
    BY ONLY <2>1, <2>3
  <2> QED
    BY ONLY <1>4, <2>2, <2>3
<1>8. b[1].kind \in AllKinds \ Kinds /\ b[1].returns = <<>>
  BY <1>5, <1>6, <1>7
<1> QED
  BY <1>2, <1>3, <1>7, <1>8

\* The first node of a declared type has a return type if it is a function's, and no
\* other node has one.
ReturnsAtFunction(r) ==
  /\ \A k \in DOMAIN r : r[k].returns # <<>> => k = 1 /\ r[k].kind = "FUNCTION"
  /\ r[1].kind = "FUNCTION" <=> r[1].returns # <<>>

\* Whatever the derivations and the specifiers are.
LEMMA WithSpecifiersShape ==
  ASSUME NEW type \in Seq(ChainNodes), NEW b \in Seq(AllNodes), b # <<>>,
         b[1].kind \in AllKinds \ Kinds, b[1].returns = <<>>
  PROVE  ReturnsAtFunction(WithSpecifiers(type, b))
<1>1. PICK l, m, r : l = Len(type) /\ m = Len(b) /\ r = WithSpecifiers(type, b)
  OBVIOUS
<1>2. /\ l \in Nat /\ DOMAIN type = 1..l
      /\ \A k \in 1..l : type[k] \in ChainNodes /\ type[k].returns = <<>>
  <2>1. l \in Nat /\ DOMAIN type = 1..l /\ \A k \in 1..l : type[k] \in ChainNodes
    BY <1>1, SeqIsFunction
  <2> QED
    BY <2>1 DEF ChainNodes
<1>3. m \in Nat /\ m # 0 /\ \A k \in 1..m : b[k].returns = <<>>
  <2>1. m \in Nat /\ \A k \in 1..m : b[k] \in AllNodes
    BY <1>1, SeqIsFunction
  <2>2. m # 0
    BY <1>1, EmptySeq
  <2> QED
    BY <2>1, <2>2 DEF AllNodes
<1>4. CASE type # <<>> /\ type[1].kind = "FUNCTION"
  <2>1. l # 0
    BY <1>1, <1>4, EmptySeq
  <2>2. 1 \in 1..l
    BY <1>2, <2>1
  <2>3. PICK f : f = [type[1] EXCEPT !.returns = <<>> \o b]
    OBVIOUS
  <2>4. r = [type EXCEPT ![1] = f]
    <3>1. r = [type EXCEPT ![1].returns = @ \o b]
      BY <1>1, <1>4, Zenon DEF WithSpecifiers
    <3>2. type[1].returns = <<>>
      BY <1>2, <2>2
    <3> QED
      BY <2>3, <3>1, <3>2, Zenon
  <2>5. f.returns = b /\ f.kind = "FUNCTION"
    <3>1. PICK x, y : x = type[1] /\ y = <<>> \o b
      OBVIOUS
    <3>2. x \in ChainNodes /\ x.kind = "FUNCTION" /\ f = [x EXCEPT !.returns = y]
      BY <1>2, <1>4, <2>2, <2>3, <3>1
    <3>3. f.returns = y /\ f.kind = x.kind
      BY <3>2 DEF ChainNodes
    <3>4. y = b
      BY <3>1
    <3> QED
      BY <3>2, <3>3, <3>4
  <2>6. DOMAIN r = 1..l /\ r[1] = f /\ \A k \in 1..l : k # 1 => r[k] = type[k]
    BY <1>2, <2>2, <2>4
  <2> QED
    BY <1>1, <1>2, <2>5, <2>6 DEF ReturnsAtFunction
<1>5. CASE ~(type # <<>> /\ type[1].kind = "FUNCTION")
  <2>1. r = type \o b
    BY <1>1, <1>5, Zenon DEF WithSpecifiers
  <2>2. /\ r \in Seq(ChainNodes \cup AllNodes) /\ Len(r) = l + m
        /\ \A k \in 1..l : r[k] = type[k]
        /\ \A k \in 1..m : r[l + k] = b[k]
    <3>1. PICK N : N = ChainNodes \cup AllNodes
      OBVIOUS
    <3>2. type \in Seq(N) /\ b \in Seq(N)
      BY <3>1
    <3>3. /\ r \in Seq(N) /\ Len(r) = Len(type) + Len(b)
          /\ \A k \in 1..Len(type) : r[k] = type[k]
          /\ \A k \in 1..Len(b) : r[Len(type) + k] = b[k]
      BY ONLY <2>1, <3>2, ConcatParts
    <3> QED
      BY <1>1, <3>1, <3>3
  <2>3. DOMAIN r = 1..l + m
    BY <2>2
  <2>4. ASSUME NEW k \in 1..l + m PROVE r[k].returns = <<>>
    <3>1. CASE k <= l
      <4>1. k \in 1..l
        BY <1>2, <3>1
      <4> QED
        BY <1>2, <2>2, <4>1
    <3>2. CASE ~(k <= l)
      <4>1. PICK j : j = k - l
        OBVIOUS
      <4>2. j \in 1..m /\ k = l + j
        BY <1>2, <1>3, <3>2, <4>1
      <4> QED
        BY <1>3, <2>2, <4>2
    <3> QED
      BY <3>1, <3>2
  <2>5. r[1].kind # "FUNCTION"
    <3>1. CASE l = 0
      <4>1. 1 \in 1..m /\ l + 1 = 1
        BY <1>3, <3>1
      <4>2. r[1] = b[1]
        BY <2>2, <4>1
      <4> QED
        BY <4>2 DEF Kinds
    <3>2. CASE l # 0
      <4>1. 1 \in 1..l /\ type # <<>>
        BY <1>1, <1>2, <3>2
      <4> QED
        BY <1>5, <2>2, <4>1
    <3> QED
      BY <3>1, <3>2
  <2>6. 1 \in 1..l + m
    BY <1>2, <1>3
  <2>7. r[1].returns = <<>>
    BY <2>4, <2>6
  <2> QED
    BY <1>1, <2>3, <2>4, <2>5, <2>7 DEF ReturnsAtFunction
<1> QED
  BY <1>4, <1>5

\* The type of a declarator with the specifiers describes what C reads, and the type of
\* the specifiers at the end.
LEMMA DescribedWithSpecifiers ==
  ASSUME NEW K, NEW list \in Seq(K), LegalInC(list), ~Conflict(list),
         At(list, Sizes) # {} \/ At(list, Signs) = {},
         NEW type \in Seq(ChainNodes), ~ReturnsPointer(type)
  PROVE  Described(WithSpecifiers(type, DataType(list))) = KindsOf(type) \o CType(list)
<1>1. PICK b, c, d, s, r, a : /\ b = DataType(list) /\ c = CType(list) /\ d = Data(list)
                              /\ s = SignOf(list) /\ r = WithSpecifiers(type, b)
                              /\ a = KindsOf(type)
  OBVIOUS
<1>2. /\ d \in DataKinds /\ s \in Signs
      /\ b = (IF d = "struct" THEN <<Node(d)>> ELSE <<Node(s), Node(d)>>)
      /\ c = (IF d \in IntegerTypes THEN <<s, d>> ELSE <<d>>)
  BY <1>1, DataTypeIsCType, DataTypeNodes DEF DataKinds
<1>3. b \in Seq(AllNodes) /\ b # <<>> /\ b[1].returns = <<>>
  BY <1>1, DataTypeNodes
<1>4. a \in Seq(Kinds)
  <2>1. <<>> \in Seq(ChainNodes)
    OBVIOUS
  <2> QED
    BY <1>1, <2>1, KindsOfConcat
<1>5. ASSUME NEW x \in Seq(Kinds) PROVE Signless(x \o KindsOf(b)) = x \o c
  <2>1. CASE d = "struct"
    <3>1. KindsOf(b) = <<d>>
      <4>1. b = <<Node(d)>> /\ Node(d).kind = d
        BY <1>2, <2>1 DEF Node
      <4> QED
        BY <4>1, KindsOfFew
    <3>2. c = <<d>>
      BY <1>2, <2>1 DEF IntegerTypes
    <3> QED
      BY <1>2, <3>1, <3>2, SignlessOne
  <2>2. CASE d # "struct"
    <3>1. KindsOf(b) = <<s, d>>
      <4>1. PICK u, v : u = Node(s) /\ v = Node(d)
        OBVIOUS
      <4>2. b = <<u, v>> /\ u.kind = s /\ v.kind = d
        BY <1>2, <2>2, <4>1 DEF Node
      <4>3. DOMAIN b = 1..2 /\ b[1] = u /\ b[2] = v
        BY <4>2
      <4>4. KindsOf(b) = [i \in 1..2 |-> b[i].kind]
        BY <4>3 DEF KindsOf
      <4>5. [i \in 1..2 |-> b[i].kind] = <<s, d>>
        BY <4>2, <4>3
      <4> QED
        BY <4>4, <4>5
    <3> QED
      BY <1>2, <3>1, SignlessPair
  <2> QED
    BY <2>1, <2>2
<1>6. c \in Seq(AllKinds)
  <2>1. d \in AllKinds /\ s \in AllKinds
    BY <1>2 DEF AllKinds
  <2>2. c = <<s, d>> \/ c = <<d>>
    BY <1>2
  <2>3. CASE c = <<s, d>>
    BY ONLY <2>1, <2>3
  <2>4. CASE c = <<d>>
    BY ONLY <2>1, <2>4
  <2> QED
    BY ONLY <2>2, <2>3, <2>4
<1>7. CASE type # <<>> /\ type[1].kind = "FUNCTION"
  <2>1. PICK f : f = type[1]
    OBVIOUS
  <2>2. /\ Len(type) = 1 /\ type = <<f>>
        /\ f \in ChainNodes /\ f.kind = "FUNCTION" /\ f.returns = <<>>
    <3>2. Len(type) \in Nat /\ Len(type) # 0
      BY <1>7, EmptySeq
    <3>3. Len(type) = 1
      <4>1. PICK l : l = Len(type)
        OBVIOUS
      <4>2. l \in Nat /\ l # 0 /\ ~(l > 1)
        BY <1>7, <3>2, <4>1 DEF ReturnsPointer
      <4>3. l = 1
        BY ONLY <4>2
      <4> QED
        BY <4>1, <4>3
    <3>4. f \in ChainNodes
      <4>1. PICK l : l = Len(type)
        OBVIOUS
      <4>2. \A k \in 1..l : type[k] \in ChainNodes
        BY <4>1, SeqIsFunction
      <4>3. 1 \in 1..l
        BY <3>3, <4>1
      <4> QED
        BY <2>1, <4>2, <4>3
    <3> QED
      BY <1>7, <2>1, <3>3, <3>4 DEF ChainNodes
  <2>3. r[1].returns = b /\ r[1].kind = "FUNCTION"
    <3>1. r = [type EXCEPT ![1].returns = @ \o b]
      BY <1>1, <1>7, Zenon DEF WithSpecifiers
    <3>2. PICK y, g : y = <<>> \o b /\ g = [f EXCEPT !.returns = y]
      OBVIOUS
    <3>3. r = [type EXCEPT ![1] = g]
      BY <2>1, <2>2, <3>1, <3>2, Zenon
    <3>4. DOMAIN type = 1..1
      BY <2>2
    <3>5. r[1] = g
      BY <3>3, <3>4
    <3>6. g.returns = y /\ g.kind = f.kind
      BY <2>2, <3>2 DEF ChainNodes
    <3>7. y = b
      BY <1>3, <3>2
    <3> QED
      BY <2>2, <3>5, <3>6, <3>7
  <2>4. Signless(KindsOf(b)) = c
    <3>1. <<>> \in Seq(Kinds) /\ <<>> \o c = c
      BY <1>6
    <3>2. <<>> \o KindsOf(b) = KindsOf(b)
      <4>1. \A x \in AllNodes : x.kind \in AllKinds
        BY DEF AllNodes
      <4>2. KindsOf(b) \in Seq(AllKinds)
        BY <1>3, <4>1, KindsConcat
      <4> QED
        BY <4>2
    <3>3. Signless(<<>> \o KindsOf(b)) = <<>> \o c
      BY <1>5, <3>1
    <3> QED
      BY <3>1, <3>2, <3>3
  <2>5. Described(r) = <<"FUNCTION">> \o c
    BY <1>3, <2>3, <2>4, DescribedIs
  <2>6. a = <<"FUNCTION">>
    BY <1>1, <2>2, KindsOfFew
  <2> QED
    BY <1>1, <2>5, <2>6
<1>8. CASE ~(type # <<>> /\ type[1].kind = "FUNCTION")
  <2>1. r = type \o b
    BY <1>1, <1>8, Zenon DEF WithSpecifiers
  <2>2. KindsOf(r) = a \o KindsOf(b)
    <3>1. \A x \in AllNodes : x.kind \in AllKinds
      BY DEF AllNodes
    <3>2. type \in Seq(AllNodes)
      <4>1. \A x \in ChainNodes : x \in AllNodes
        BY DEF ChainNodes, AllNodes, AllKinds
      <4> QED
        BY <4>1
    <3>3. KindsOf(type \o b) = KindsOf(type) \o KindsOf(b)
      BY <1>3, <3>1, <3>2, KindsConcat
    <3> QED
      BY <1>1, <2>1, <3>3
  <2>3. r[1].returns = <<>>
    <3>1. PICK l, m : l = Len(type) /\ m = Len(b)
      OBVIOUS
    <3>2. l \in Nat /\ m \in Nat /\ m # 0 /\ \A k \in 1..l : type[k] \in ChainNodes
      BY <1>3, <3>1, SeqIsFunction, EmptySeq
    <3>3. (l # 0 => r[1] = type[1]) /\ (l = 0 => r[1] = b[1])
      <4>1. PICK N : N = ChainNodes \cup AllNodes
        OBVIOUS
      <4>2. type \in Seq(N) /\ b \in Seq(N)
        BY <1>3, <4>1
      <4>3. /\ \A k \in 1..Len(type) : r[k] = type[k]
            /\ \A k \in 1..Len(b) : r[Len(type) + k] = b[k]
        BY ONLY <2>1, <4>2, ConcatParts
      <4>4. (l # 0 => 1 \in 1..l) /\ 1 \in 1..m /\ (l = 0 => l + 1 = 1)
        BY <3>2
      <4> QED
        BY <3>1, <4>3, <4>4
    <3>4. l # 0 => 1 \in 1..l
      BY <3>2
    <3> QED
      BY <1>3, <3>2, <3>3, <3>4 DEF ChainNodes
  <2>4. Described(r) = Signless(KindsOf(r))
    BY <2>3, DescribedIs
  <2> QED
    BY <1>1, <1>4, <1>5, <2>2, <2>4
<1> QED
  BY <1>7, <1>8

-----------------------------------------------------------------------------
(* The forms, in terms of the list.                                         *)
LEMMA NoTypeForm ==
  ASSUME NEW list, "no type" \notin SpecifierForms(list)
  PROVE  At(list, Sizes) # {} \/ At(list, Signs) # {}
BY Zenon DEF SpecifierForms

\* A sign has a type to stand in front of.
LEMMA SignAloneForm ==
  ASSUME NEW list, "sign alone" \notin SpecifierForms(list)
  PROVE  At(list, Sizes) # {} \/ At(list, Signs) = {}
BY Zenon DEF SpecifierForms

\* int is there at most once.
LEMMA IntTwiceForm ==
  ASSUME NEW list, "int twice" \notin SpecifierForms(list)
  PROVE  ~Before(list, "int", {"int"})
BY Zenon DEF SpecifierForms

\* No sign stands in front of a type that has none.
LEMMA OtherSignForm ==
  ASSUME NEW list, "sign of another type" \notin SpecifierForms(list)
  PROVE  At(list, Signs) = {} \/ At(list, {"void", "float", "double", "struct"}) = {}
BY Zenon DEF SpecifierForms

\* The order is one that the state machine knows.
LEMMA OrderForms ==
  ASSUME NEW list, "int first" \notin SpecifierForms(list),
         "long double" \notin SpecifierForms(list)
  PROVE  ~BadOrder(list)
<1>1. ~(FirstIsInt(list) /\ Before(list, "int", {"short", "long"}))
  BY Zenon DEF SpecifierForms
<1>2. ~Before(list, "long", {"double"})
  BY Zenon DEF SpecifierForms
<1> QED
  BY <1>1, <1>2, Zenon DEF BadOrder

-----------------------------------------------------------------------------
(* The state is of its types, whatever the forms.                           *)
LEMMA TypeHolds == DInv => TypeOK
<1> SUFFICES ASSUME DInv PROVE TypeOK
  OBVIOUS
<1>1. /\ phase \in {"specifiers", "declarators", "done", "fatal"}
      /\ specifiers \in Seq(KnownKeywords) /\ tokens \in 0..MaxTokens
  BY DEF DInv, SpecifiersInv
<1>2. CASE phase # "done"
  <2>1. declared \in Seq(Bases) /\ Len(declared) <= MaxDeclarators
    BY <1>2 DEF DInv, DeclaredInv
  <2>2. ASSUME NEW i \in DOMAIN declared, NEW k \in DOMAIN declared[i].type
        PROVE  declared[i].type[k].returns = <<>>
    <3>1. PICK type : type = declared[i].type
      OBVIOUS
    <3>2. declared[i] \in Bases
      BY <2>1, SeqIsFunction
    <3>3. type \in Seq(ChainNodes)
      BY <3>1, <3>2 DEF Bases
    <3>4. type[k] \in ChainNodes
      BY <3>1, <3>3, SeqIsFunction
    <3> QED
      BY <3>1, <3>4 DEF ChainNodes
  <2> QED
    BY <1>1, <1>2, <2>1, <2>2, Zenon DEF TypeOK
<1>3. CASE phase = "done"
  <2>1. PICK bases \in Seq(Bases) :
          Len(bases) <= MaxDeclarators /\ declared = Finished(bases, specifiers)
    BY <1>3 DEF DInv, DeclaredInv
  <2>2. ~Conflict(specifiers)
    BY <1>3 DEF DInv, DeclaredInv
  <2>3. /\ Len(declared) = Len(bases) /\ DOMAIN declared = 1..Len(bases)
        /\ \A i \in 1..Len(bases) :
             declared[i] = Finish(bases[i], specifiers) /\ bases[i] \in Bases
    BY <2>1, FinishedParts
  <2>4. ASSUME NEW i \in DOMAIN declared PROVE ReturnsAtFunction(declared[i].type)
    <3>1. PICK b, type : b = DataType(specifiers) /\ type = bases[i].type
      OBVIOUS
    <3>2. type \in Seq(ChainNodes)
      <4>1. bases[i] \in Bases
        BY <2>3
      <4> QED
        BY <3>1, <4>1 DEF Bases
    <3>3. /\ b \in Seq(AllNodes) /\ b # <<>> /\ b[1].kind \in AllKinds \ Kinds
          /\ b[1].returns = <<>>
      BY <1>1, <2>2, <3>1, DataTypeNodes
    <3>4. declared[i].type = WithSpecifiers(type, b)
      BY <2>3, <3>1 DEF Finish
    <3> QED
      BY <3>2, <3>3, <3>4, WithSpecifiersShape
  <2>5. Len(declared) <= MaxDeclarators
    BY <2>1, <2>3
  <2> QED
    BY <1>1, <2>4, <2>5, Zenon DEF TypeOK, ReturnsAtFunction
<1> QED
  BY <1>2, <1>3

\* Every chain is derivations that end in at most one data type, and return types are
\* those of functions (c.y:467-496, ast_constructors.c:190-243).
THEOREM DeclarationTypes == Spec => []TypeOK
<1>1. DInv => TypeOK
  BY TypeHolds
<1> QED
  BY <1>1, Invariance, PTL

-----------------------------------------------------------------------------
(* What is declared.                                                        *)
LEMMA DeclaredTypeHolds ==
  ASSUME DInv, ~PointerForm, phase = "done", LegalInC(specifiers),
         At(specifiers, Sizes) # {} \/ At(specifiers, Signs) = {}, NEW i \in DOMAIN declared
  PROVE  Described(declared[i].type) = Derivation(declared[i].text) \o CType(specifiers)
<1>1. specifiers \in Seq(KnownKeywords) /\ ~Conflict(specifiers)
  BY DEF DInv, SpecifiersInv, DeclaredInv
<1>2. PICK bases \in Seq(Bases) : declared = Finished(bases, specifiers)
  BY DEF DInv, DeclaredInv
<1>3. declared[i] = Finish(bases[i], specifiers) /\ bases[i] \in Bases
  BY <1>2, FinishedParts
<1>4. PICK type, text0 : type = bases[i].type /\ text0 = bases[i].text
  OBVIOUS
<1>5. type \in Seq(ChainNodes) /\ KindsOf(type) = Derivation(text0) /\ ~ReturnsPointer(type)
  BY <1>3, <1>4 DEF Bases
<1>6. /\ declared[i].type = WithSpecifiers(type, DataType(specifiers))
      /\ declared[i].text = text0
  BY <1>3, <1>4 DEF Finish
<1>7. Described(WithSpecifiers(type, DataType(specifiers))) = KindsOf(type) \o CType(specifiers)
  BY <1>1, <1>5, DescribedWithSpecifiers
<1> QED
  BY <1>5, <1>6, <1>7

\* Unless a sign stands alone or a function returns a pointer, what is declared has the
\* type C gives it (c.y:467-496 and 700-774, ast.c:411-455 and 488-612,
\* ast_constructors.c:190-243).
THEOREM DeclaredAsInC ==
  ASSUME {"sign alone", "pointer returned"} \cap Shapes = {}
  PROVE  Spec => []DeclaredTypeIsC
<1>1. "sign alone" \notin Shapes /\ ~PointerForm
  BY Zenon DEF PointerForm
<1>2. DInv /\ phase = "done" =>
        /\ SpecifierForms(specifiers) \subseteq Shapes
        /\ DInv
  BY Zenon DEF DInv, SpecifiersInv
<1>3. DInv /\ phase = "done" => "sign alone" \notin SpecifierForms(specifiers)
  BY <1>1, <1>2, Zenon
<1>4. DInv /\ phase = "done" => At(specifiers, Sizes) # {} \/ At(specifiers, Signs) = {}
  BY <1>3, SignAloneForm, Zenon
<1>5. DInv => DeclaredTypeIsC
  BY ONLY <1>1, <1>4, DeclaredTypeHolds, Zenon DEF DeclaredTypeIsC
<1> QED
  BY <1>5, Invariance, PTL

-----------------------------------------------------------------------------
(* What is refused.                                                         *)

\* What is accepted is legal.
LEMMA AcceptedHolds ==
  ASSUME DInv, phase = "done", ~Before(specifiers, "int", {"int"}),
         At(specifiers, Sizes) # {} \/ At(specifiers, Signs) # {},
         \/ At(specifiers, Signs) = {}
         \/ At(specifiers, {"void", "float", "double", "struct"}) = {}
  PROVE  LegalInC(specifiers)
<1>1. specifiers \in Seq(KnownKeywords) /\ ~Conflict(specifiers)
  BY DEF DInv, SpecifiersInv, DeclaredInv
<1> QED
  BY <1>1, AcceptedSpecifiers

\* Unless int is there twice, there is no type or a sign in front of a type that has
\* none, specifiers that are no type of C are refused (ast.c:488-533).
THEOREM AcceptedIsC ==
  ASSUME {"int twice", "no type", "sign of another type"} \cap Shapes = {}
  PROVE  Spec => []AcceptedIsLegal
<1>1. /\ "int twice" \notin Shapes /\ "no type" \notin Shapes
      /\ "sign of another type" \notin Shapes
  BY Zenon
<1>2. DInv /\ phase = "done" => SpecifierForms(specifiers) \subseteq Shapes
  BY Zenon DEF DInv, SpecifiersInv
<1>3. DInv /\ phase = "done" =>
        /\ "int twice" \notin SpecifierForms(specifiers)
        /\ "no type" \notin SpecifierForms(specifiers)
        /\ "sign of another type" \notin SpecifierForms(specifiers)
  BY <1>1, <1>2, Zenon
<1>4. DInv /\ phase = "done" =>
        /\ ~Before(specifiers, "int", {"int"})
        /\ At(specifiers, Sizes) # {} \/ At(specifiers, Signs) # {}
        /\ \/ At(specifiers, Signs) = {}
           \/ At(specifiers, {"void", "float", "double", "struct"}) = {}
  BY <1>3, IntTwiceForm, NoTypeForm, OtherSignForm, Zenon
<1>5. DInv => AcceptedIsLegal
  BY ONLY <1>4, AcceptedHolds, Zenon DEF AcceptedIsLegal
<1> QED
  BY <1>5, Invariance, PTL

\* What is refused is not legal, or the body of no function.
LEMMA RefusedHolds ==
  ASSUME DInv, phase = "fatal", ~InlineForm, ~StarForm, ~BadOrder(specifiers)
  PROVE  \/ ~LegalInC(specifiers)
         \/ /\ Complete /\ ~NoList(Innermost)
            /\ Derivation(text) = <<>> \/ Derivation(text)[1] # "FUNCTION"
<1>1. specifiers \in Seq(KnownKeywords) /\ Refused /\ OpenInv
  BY DEF DInv, SpecifiersInv
<1>2. CASE Conflict(specifiers)
  BY <1>1, <1>2, RefusedSpecifiers
<1>3. CASE Complete /\ ~NoList(Innermost) /\ NoFunction(DeclaratorType(Innermost))
  <2>1. open # <<>> /\ Len(open) = 1 /\ Innermost = open[1] /\ open[1].direct
    BY <1>3 DEF Complete, Innermost
  <2>2. open \in Seq(Declarators) /\ text \in Seq(Tokens) /\ OpenOK(open, text)
    BY <1>1, <2>1 DEF OpenInv
  <2>3. KindsOf(DeclaratorType(open[1])) = Derivation(text)
    BY ONLY <2>1, <2>2, EndRead
  <2>4. PICK type : type = DeclaratorType(Innermost)
    OBVIOUS
  <2>5. Innermost \in Declarators
    BY <2>1, <2>2, SeqIsFunction
  <2>6. type \in Seq(ChainNodes) /\ KindsOf(type) = Derivation(text)
    BY <2>1, <2>3, <2>4, <2>5, DeclaratorKinds
  <2>7. CASE type = <<>>
    BY <1>3, <2>6, <2>7, KindsOfNone
  <2>8. CASE type # <<>>
    <3>1. type[1].kind # "FUNCTION"
      BY <1>3, <2>4, <2>8 DEF NoFunction
    <3>2. PICK l : l = Len(type)
      OBVIOUS
    <3>3. l \in Nat /\ l # 0 /\ DOMAIN type = 1..l
      BY <2>6, <2>8, <3>2, SeqIsFunction, EmptySeq
    <3>4. 1 \in 1..l
      BY <3>3
    <3>5. KindsOf(type)[1] = type[1].kind
      BY <3>3, <3>4 DEF KindsOf
    <3> QED
      BY <1>3, <2>6, <3>1, <3>5
  <2> QED
    BY <2>7, <2>8
<1> QED
  BY <1>1, <1>2, <1>3 DEF Refused

\* Unless the list is in an order or begins with a specifier the code does not know, or
\* the last of several stars has qualifiers, a declaration of C is not refused
\* (ast.c:535-597, ast_constructors.c:132-144).
THEOREM LegalIsNotRefused ==
  ASSUME {"int first", "long double", "inline first", "qualified inner star"} \cap Shapes = {}
  PROVE  Spec => []LegalIsAccepted
<1>1. /\ "int first" \notin Shapes /\ "long double" \notin Shapes
      /\ ~InlineForm /\ ~StarForm
  BY Zenon DEF InlineForm, StarForm
<1>2. DInv /\ phase = "fatal" => SpecifierForms(specifiers) \subseteq Shapes
  BY Zenon DEF DInv, SpecifiersInv
<1>3. DInv /\ phase = "fatal" =>
        /\ "int first" \notin SpecifierForms(specifiers)
        /\ "long double" \notin SpecifierForms(specifiers)
  BY <1>1, <1>2, Zenon
<1>4. DInv /\ phase = "fatal" => ~BadOrder(specifiers)
  BY <1>3, OrderForms, Zenon
<1>5. DInv => LegalIsAccepted
  BY ONLY <1>1, <1>4, RefusedHolds, Zenon DEF LegalIsAccepted
<1> QED
  BY <1>5, Invariance, PTL
=============================================================================
