----------------------------- MODULE FrameProofs -----------------------------
(***************************************************************************)
(* Theorems about Frame for functions without arrays, for every number of  *)
(* objects and every depth of the stack.                                   *)
(***************************************************************************)
EXTENDS Frame, SequenceTheorems, TLAPS

Initially == [a \in Addresses |-> IF a = 0 THEN SavedEbp
                                  ELSE IF a = 1 THEN ReturnAddress ELSE Garbage]

\* Scalars lie one below the other, in the order they were allocated.
Layout ==
  /\ space = Len(objects) + 1
  /\ Len(objects) <= Depth
  /\ \A i \in 1..Len(objects) : objects[i].offset = i /\ objects[i].length = 1

\* %esp is what the preamble made it, less the arguments pushed.
StackPointer ==
  IF phase = "translating" THEN esp = 0 /\ pushed = 0 /\ memory = Initially
                           ELSE esp + pushed = -Reserved

IndInv == TypeOK /\ Layout /\ StackPointer /\ CallerIntact

LEMMA ReservedOK ==
  ASSUME space \in Nat
  PROVE  Reserved \in Nat /\ Reserved > space
<1>1. space % 4 \in 0..3
  OBVIOUS
<1> QED
  BY <1>1 DEF Reserved

LEMMA InitIndInv == Init => IndInv
<1> SUFFICES ASSUME Init PROVE IndInv
  OBVIOUS
<1>1. 0 \in Addresses /\ 1 \in Addresses
  BY BoundsAssumption DEF Addresses
<1>2. TypeOK
  BY BoundsAssumption DEF Init, TypeOK, Addresses, Content
<1> QED
  BY <1>1, <1>2, BoundsAssumption
  DEF Init, IndInv, Layout, StackPointer, Initially, CallerIntact

LEMMA AllocateIndInv ==
  ASSUME IndInv, Allocate(1)
  PROVE  IndInv'
<1> USE BoundsAssumption DEF IndInv, Allocate
<1> DEFINE new == [offset |-> space, length |-> 1]
<1>1. /\ objects \in Seq([offset : Nat \ {0}, length : Nat \ {0}])
      /\ space \in Nat \ {0} /\ Len(objects) \in Nat
      /\ new \in [offset : Nat \ {0}, length : Nat \ {0}]
  BY DEF TypeOK
<1>2. objects' = Append(objects, new)
  OBVIOUS
<1> HIDE DEF new
<1>3. /\ objects' \in Seq([offset : Nat \ {0}, length : Nat \ {0}])
      /\ Len(objects') = Len(objects) + 1
      /\ \A i \in 1..Len(objects) : objects'[i] = objects[i]
      /\ objects'[Len(objects) + 1] = new
  BY <1>1, <1>2
<1>4. TypeOK'
  BY <1>1, <1>3 DEF TypeOK
<1>5. Layout'
  <2>1. new.offset = Len(objects) + 1 /\ new.length = 1
    BY DEF new, Layout
  <2> QED
    BY <1>1, <1>3, <2>1 DEF Layout
<1>6. StackPointer'
  BY DEF StackPointer, Initially, Addresses
<1> QED
  BY <1>4, <1>5, <1>6 DEF CallerIntact

LEMMA PreambleIndInv ==
  ASSUME IndInv, Preamble
  PROVE  IndInv'
<1> USE BoundsAssumption DEF IndInv, Preamble
<1>1. Reserved \in Nat /\ Reserved > space
  BY ReservedOK DEF TypeOK
<1>2. Reserved' = Reserved
  BY DEF Reserved
<1>3. TypeOK'
  BY <1>1 DEF TypeOK, StackPointer, Addresses
<1>4. Layout' /\ CallerIntact'
  BY DEF Layout, CallerIntact
<1>5. StackPointer'
  BY <1>1, <1>2 DEF StackPointer
<1> QED
  BY <1>3, <1>4, <1>5

\* The word a scalar names is below the saved %ebp.
LEMMA ScalarAddress ==
  ASSUME IndInv, NEW i \in DOMAIN objects, NEW k \in 0..(objects[i].length - 1)
  PROVE  k = 0 /\ i \in 1..Len(objects) /\ Address(i, k) = -i /\ -i \in Addresses
<1>1. i \in 1..Len(objects) /\ Len(objects) \in Nat
  BY DEF IndInv, TypeOK
<1>2. objects[i].offset = i /\ objects[i].length = 1
  BY <1>1 DEF IndInv, Layout
<1>3. k = 0 /\ Address(i, k) = -i
  BY <1>1, <1>2 DEF Address
<1> QED
  BY <1>1, <1>3, BoundsAssumption DEF IndInv, Layout, Addresses

LEMMA StoreIndInv ==
  ASSUME IndInv, NEW i \in DOMAIN objects, NEW k \in 0..(objects[i].length - 1),
         NEW v \in Values, Store(i, k, v)
  PROVE  IndInv'
<1> USE BoundsAssumption DEF Store
<1>1. Address(i, k) = -i /\ -i < 0 /\ -i \in Int
  BY ScalarAddress DEF IndInv, TypeOK
<1>2. memory' = [memory EXCEPT ![-i] = v] /\ memory \in [Addresses -> Content]
  BY <1>1 DEF IndInv, TypeOK
<1>3. v \in Content
  BY DEF Content
<1>4. memory' \in [Addresses -> Content]
  BY <1>2, <1>3
<1>5. memory'[0] = memory[0] /\ memory'[1] = memory[1]
  BY <1>1, <1>2 DEF Addresses
<1>6. TypeOK' /\ Layout' /\ CallerIntact'
  BY <1>4, <1>5 DEF IndInv, TypeOK, Layout, CallerIntact
<1>7. StackPointer'
  BY DEF IndInv, StackPointer, Reserved
<1> QED
  BY <1>6, <1>7 DEF IndInv

LEMMA FunctionArgIndInv ==
  ASSUME IndInv, NEW v \in Values, FunctionArg(v)
  PROVE  IndInv'
<1> USE BoundsAssumption DEF FunctionArg
<1>1. Reserved \in Nat /\ Reserved > space /\ Reserved' = Reserved
  BY ReservedOK DEF IndInv, TypeOK, Reserved
<1>2. /\ esp \in (-Depth)..0 /\ pushed \in 0..Depth
      /\ esp + pushed = -Reserved
      /\ memory \in [Addresses -> Content]
  BY DEF IndInv, TypeOK, StackPointer
<1>3. esp' \in (-Depth)..0 /\ pushed' \in 0..Depth /\ esp' + pushed' = -Reserved
  BY <1>1, <1>2 DEF Reserved
<1>4. v \in Content /\ esp - 1 \in Int
  BY <1>2 DEF Content
<1>5. /\ memory' \in [Addresses -> Content]
      /\ memory'[0] = memory[0] /\ memory'[1] = memory[1]
  BY <1>2, <1>4 DEF Addresses
<1>6. TypeOK' /\ Layout' /\ CallerIntact'
  BY <1>3, <1>5 DEF IndInv, TypeOK, Layout, CallerIntact
<1>7. StackPointer'
  BY <1>1, <1>3 DEF IndInv, StackPointer
<1> QED
  BY <1>6, <1>7 DEF IndInv

LEMMA FunctionCallIndInv ==
  ASSUME IndInv, NEW v \in Values, FunctionCall(v)
  PROVE  IndInv'
<1> USE BoundsAssumption DEF FunctionCall
<1>1. Reserved \in Nat /\ Reserved > space /\ Reserved' = Reserved
  BY ReservedOK DEF IndInv, TypeOK, Reserved
<1>2. /\ esp \in (-Depth)..0 /\ pushed \in 0..Depth
      /\ esp + pushed = -Reserved
      /\ memory \in [Addresses -> Content]
  BY DEF IndInv, TypeOK, StackPointer
<1>3. esp' \in (-Depth)..0 /\ pushed' \in 0..Depth /\ esp' + pushed' = -Reserved
  BY <1>1, <1>2
<1>4. /\ memory' \in [Addresses -> Content]
      /\ memory'[0] = memory[0] /\ memory'[1] = memory[1]
  BY <1>1, <1>2 DEF Addresses, Content
<1>5. TypeOK' /\ Layout' /\ CallerIntact'
  BY <1>3, <1>4 DEF IndInv, TypeOK, Layout, CallerIntact
<1>6. StackPointer'
  BY <1>1, <1>3 DEF IndInv, StackPointer
<1> QED
  BY <1>5, <1>6 DEF IndInv

LEMMA NextIndInv ==
  ASSUME Lengths \subseteq {1}
  PROVE  IndInv /\ [Next]_vars => IndInv'
<1> SUFFICES ASSUME IndInv, [Next]_vars PROVE IndInv'
  OBVIOUS
<1>1. ASSUME NEW length \in Lengths, Declaration(length) PROVE IndInv'
  BY <1>1, AllocateIndInv DEF Declaration
<1>2. CASE Pseudoregister
  BY <1>2, AllocateIndInv DEF Pseudoregister
<1>3. CASE Preamble
  BY <1>3, PreambleIndInv
<1>4. ASSUME NEW i \in DOMAIN objects, NEW k \in 0..(objects[i].length - 1),
             NEW v \in Values, Store(i, k, v)
      PROVE  IndInv'
  BY <1>4, StoreIndInv
<1>5. ASSUME NEW v \in Values, FunctionArg(v) PROVE IndInv'
  BY <1>5, FunctionArgIndInv
<1>6. ASSUME NEW v \in Values, FunctionCall(v) PROVE IndInv'
  BY <1>6, FunctionCallIndInv
<1>7. CASE Return
  BY <1>7 DEF Return, IndInv, TypeOK, Layout, StackPointer, CallerIntact, Reserved
<1>8. CASE UNCHANGED vars
  BY <1>8 DEF vars, IndInv, TypeOK, Layout, StackPointer, CallerIntact, Reserved
<1> QED
  BY <1>1, <1>2, <1>3, <1>4, <1>5, <1>6, <1>7, <1>8, Zenon DEF Next

LEMMA Invariance ==
  ASSUME Lengths \subseteq {1}
  PROVE  Spec => []IndInv
  BY InitIndInv, NextIndInv, PTL DEF Spec

(* Without arrays the state keeps its shape: %esp never leaves the stack. *)
THEOREM TypeCorrect ==
  ASSUME Lengths \subseteq {1}
  PROVE  Spec => []TypeOK
<1>1. IndInv => TypeOK
  BY DEF IndInv
<1> QED
  BY <1>1, Invariance, PTL

(* Without arrays a function returns to its caller with the caller's %ebp. *)
THEOREM ReturnsToCaller ==
  ASSUME Lengths \subseteq {1}
  PROVE  Spec => []CallerIntact
<1>1. IndInv => CallerIntact
  BY DEF IndInv
<1> QED
  BY <1>1, Invariance, PTL

(* Without arrays every object lies between %ebp and the pushed arguments. *)
THEOREM ObjectsStayInFrame ==
  ASSUME Lengths \subseteq {1}
  PROVE  Spec => []ObjectsInFrame
<1>1. IndInv => ObjectsInFrame
  <2> SUFFICES ASSUME IndInv, phase # "translating", NEW i \in DOMAIN objects
               PROVE  /\ Address(i, 0) >= esp + pushed
                      /\ Address(i, objects[i].length - 1) < 0
    BY DEF ObjectsInFrame
  <2>1. i \in 1..Len(objects) /\ Len(objects) \in Nat
    BY DEF IndInv, TypeOK
  <2>2. objects[i].offset = i /\ objects[i].length = 1
    BY <2>1 DEF IndInv, Layout
  <2>3. esp + pushed = -Reserved /\ Reserved \in Nat /\ Reserved > Len(objects) + 1
    BY ReservedOK DEF IndInv, TypeOK, StackPointer, Layout
  <2> QED
    BY <2>1, <2>2, <2>3 DEF Address
<1> QED
  BY <1>1, Invariance, PTL

-----------------------------------------------------------------------------
\* What the frame holds, as the contents of Locals: n scalars of memory m.
Scalars(m, n) == [i \in 1..n |-> [k \in 0..0 |-> m[-i]]]

Bar == [i \in DOMAIN objects |->
          [k \in 0..(objects[i].length - 1) |-> memory[Address(i, k)]]]

HoldsScalars == Bar = Scalars(memory, Len(objects))

LEMMA BarIsScalars == IndInv => HoldsScalars
<1> USE DEF HoldsScalars
<1> SUFFICES ASSUME IndInv PROVE Bar = Scalars(memory, Len(objects))
  OBVIOUS
<1>1. DOMAIN objects = 1..Len(objects) /\ Len(objects) \in Nat
  BY DEF IndInv, TypeOK
<1>2. ASSUME NEW i \in 1..Len(objects)
      PROVE  [k \in 0..(objects[i].length - 1) |-> memory[Address(i, k)]]
               = [k \in 0..0 |-> memory[-i]]
  <2>1. objects[i].offset = i /\ objects[i].length = 1
    BY DEF IndInv, Layout
  <2>2. 0..(objects[i].length - 1) = 0..0
    BY <2>1
  <2>3. \A k \in 0..0 : Address(i, k) = -i
    BY <1>1, <2>1 DEF Address
  <2> QED
    BY <2>2, <2>3
<1> QED
  BY <1>1, <1>2 DEF Bar, Scalars

\* One more scalar, not yet stored to.
LEMMA ScalarsAppend ==
  ASSUME NEW n \in Nat, NEW m, m[-(n + 1)] = Garbage
  PROVE  Scalars(m, n + 1) = Append(Scalars(m, n), [k \in 0..0 |-> Garbage])
<1> DEFINE S == {Scalars(m, n + 1)[i] : i \in 1..(n + 1)}
           s == Scalars(m, n)
           t == Scalars(m, n + 1)
           e == [k \in 0..0 |-> Garbage]
<1>1. /\ s = [i \in 1..n |-> [k \in 0..0 |-> m[-i]]]
      /\ t = [i \in 1..(n + 1) |-> [k \in 0..0 |-> m[-i]]]
  BY DEF Scalars
<1>2. \A i \in 1..n : s[i] = t[i]
  BY <1>1
<1>3. t[n + 1] = e
  BY <1>1
<1>4. t \in [1..(n + 1) -> S] /\ e \in S
  BY <1>1, <1>3
<1>5. s \in [1..n -> S]
  BY <1>1, <1>2
<1> HIDE DEF s, t, e, S
<1>6. t \in Seq(S) /\ Len(t) = n + 1 /\ s \in Seq(S) /\ Len(s) = n
  BY <1>4, <1>5
<1>7. Append(s, e) \in Seq(S) /\ Len(Append(s, e)) = n + 1
  BY <1>4, <1>6
<1>8. \A i \in 1..(n + 1) : Append(s, e)[i] = t[i]
  BY <1>2, <1>3, <1>4, <1>6
<1>9. t = Append(s, e)
  BY <1>6, <1>7, <1>8, SeqEqual
<1> QED
  BY <1>9 DEF s, t, e

\* Memory that keeps the words of the objects keeps what the frame holds.
LEMMA ScalarsKeep ==
  ASSUME NEW n \in Nat, NEW m, NEW p, \A i \in 1..n : p[-i] = m[-i]
  PROVE  Scalars(p, n) = Scalars(m, n)
  BY DEF Scalars

LEMMA InitStorage == Init => Storage!Init
  BY DEF Init, Storage!Init

LEMMA AllocateStorage ==
  ASSUME IndInv, IndInv', Allocate(1)
  PROVE  Storage!Allocate(1)
<1>1. /\ Len(objects) \in Nat
      /\ Len(objects') = Len(objects) + 1
      /\ memory' = memory /\ memory = Initially
      /\ phase = "translating" /\ phase' = phase
      /\ Len(objects) < MaxObjects
  BY DEF Allocate, IndInv, TypeOK, StackPointer
<1>2. memory[-(Len(objects) + 1)] = Garbage
  <2>1. -(Len(objects) + 1) \in Addresses
    BY <1>1, BoundsAssumption DEF Addresses, IndInv, Layout
  <2> QED
    BY <1>1, <2>1 DEF Initially
<1>3. Bar = Scalars(memory, Len(objects)) /\ Bar' = Scalars(memory, Len(objects) + 1)
  <2>1. Bar = Scalars(memory, Len(objects))
    BY BarIsScalars DEF HoldsScalars
  <2>2. Bar' = Scalars(memory', Len(objects'))
    <3>1. HoldsScalars'
      BY BarIsScalars, PTL
    <3> QED
      BY <3>1 DEF HoldsScalars
  <2> QED
    BY <1>1, <2>1, <2>2
<1>4. Bar' = Append(Bar, [k \in 0..(1 - 1) |-> Garbage])
  BY <1>1, <1>2, <1>3, ScalarsAppend
<1>5. Len(Bar) < MaxObjects
  <2>1. DOMAIN Bar = 1..Len(objects)
    BY <1>3 DEF Scalars
  <2>2. Len(Bar) = Len(objects)
    BY <1>1, <1>3, <2>1 DEF Scalars
  <2> QED
    BY <1>1, <2>2
<1> QED
  BY <1>1, <1>4, <1>5 DEF Storage!Allocate, Bar

LEMMA PreambleStorage ==
  ASSUME Preamble
  PROVE  Storage!Enter
  BY DEF Preamble, Storage!Enter, Address

LEMMA ReturnStorage ==
  ASSUME Return
  PROVE  Storage!Return
  BY DEF Return, Storage!Return, Address

LEMMA StoreStorage ==
  ASSUME IndInv, IndInv', NEW i \in DOMAIN objects,
         NEW k \in 0..(objects[i].length - 1), NEW v \in Values, Store(i, k, v)
  PROVE  Storage!Store(i, k, v) /\ i \in DOMAIN Bar /\ k \in DOMAIN Bar[i]
<1>1. /\ k = 0 /\ i \in 1..Len(objects) /\ Len(objects) \in Nat
      /\ Address(i, k) = -i /\ -i \in Addresses
      /\ memory \in [Addresses -> Content]
      /\ objects' = objects /\ phase' = phase /\ phase = "running"
      /\ memory' = [memory EXCEPT ![Address(i, k)] = v]
  BY ScalarAddress DEF Store, IndInv, TypeOK
<1>2. memory' = [memory EXCEPT ![-i] = v]
  BY <1>1
<1>3. /\ Bar = Scalars(memory, Len(objects))
      /\ Bar' = Scalars(memory', Len(objects))
  <2>1. Bar' = Scalars(memory', Len(objects'))
    <3>1. HoldsScalars'
      BY BarIsScalars, PTL
    <3> QED
      BY <3>1 DEF HoldsScalars
  <2> QED
    BY <1>1, <2>1, BarIsScalars DEF HoldsScalars
<1>4. \A j \in 1..Len(objects) : memory'[-j] = IF j = i THEN v ELSE memory[-j]
  <2> SUFFICES ASSUME NEW j \in 1..Len(objects)
               PROVE  memory'[-j] = IF j = i THEN v ELSE memory[-j]
    OBVIOUS
  <2>1. CASE j = i
    BY <1>1, <1>2, <2>1
  <2>2. CASE j # i
    <3>1. -j # -i
      BY <1>1, <2>2
    <3> QED
      BY <1>1, <1>2, <2>2, <3>1
  <2> QED
    BY <2>1, <2>2
<1>5. Bar' = [Bar EXCEPT ![i] = [Bar[i] EXCEPT ![k] = v]]
  <2> DEFINE n == Len(objects)
  <2>1. /\ Bar = [j \in 1..n |-> [m \in 0..0 |-> memory[-j]]]
        /\ Bar' = [j \in 1..n |-> [m \in 0..0 |-> memory'[-j]]]
    BY <1>3 DEF Scalars
  <2>2. [Bar[i] EXCEPT ![k] = v] = [m \in 0..0 |-> v]
    BY <1>1, <2>1
  <2>3. \A j \in 1..n :
          [m \in 0..0 |-> memory'[-j]]
            = IF j = i THEN [m \in 0..0 |-> v] ELSE [m \in 0..0 |-> memory[-j]]
    BY <1>4
  <2> HIDE DEF n
  <2> QED
    BY <2>1, <2>2, <2>3
<1>6. i \in DOMAIN Bar /\ k \in DOMAIN Bar[i]
  BY <1>1, <1>3 DEF Scalars
<1>7. Storage!Store(i, k, v)
  BY <1>1, <1>5 DEF Storage!Store, Bar
<1> QED
  BY <1>6, <1>7

\* A step that changes only memory below the objects changes no object.
LEMMA BelowStorage ==
  ASSUME IndInv, IndInv', UNCHANGED <<objects, phase>>,
         \A i \in 1..Len(objects) : memory'[-i] = memory[-i]
  PROVE  UNCHANGED Storage!vars
<1>1. Bar = Scalars(memory, Len(objects))
  BY BarIsScalars DEF HoldsScalars
<1>2. Bar' = Scalars(memory', Len(objects'))
  <2>1. HoldsScalars'
    BY BarIsScalars, PTL
  <2> QED
    BY <2>1 DEF HoldsScalars
<1>3. Len(objects) \in Nat /\ Len(objects') = Len(objects)
  BY DEF IndInv, TypeOK
<1>4. Bar' = Bar
  BY <1>1, <1>2, <1>3, ScalarsKeep
<1> QED
  BY <1>4 DEF Storage!vars, Bar

LEMMA NextStorage ==
  ASSUME Lengths \subseteq {1}
  PROVE  IndInv /\ IndInv' /\ [Next]_vars => [Storage!Next]_(Storage!vars)
<1> SUFFICES ASSUME IndInv, IndInv', [Next]_vars
             PROVE  [Storage!Next]_(Storage!vars)
  OBVIOUS
<1>1. ASSUME Allocate(1) PROVE Storage!Next
  BY <1>1, AllocateStorage DEF Storage!Next
<1>2. ASSUME NEW length \in Lengths, Declaration(length) PROVE Storage!Next
  BY <1>1, <1>2 DEF Declaration
<1>3. CASE Pseudoregister
  BY <1>1, <1>3 DEF Pseudoregister
<1>4. CASE Preamble
  BY <1>4, PreambleStorage DEF Storage!Next
<1>5. ASSUME NEW i \in DOMAIN objects, NEW k \in 0..(objects[i].length - 1),
             NEW v \in Values, Store(i, k, v)
      PROVE  Storage!Next
  BY <1>5, StoreStorage DEF Storage!Next, Bar
<1>6. ASSUME NEW v \in Values, FunctionArg(v) PROVE UNCHANGED Storage!vars
  <2>1. /\ memory \in [Addresses -> Content]
        /\ esp \in Int /\ pushed \in Nat /\ Len(objects) \in Nat
        /\ esp + pushed = -Reserved /\ Reserved \in Nat
        /\ Reserved > Len(objects) + 1
    BY <1>6, ReservedOK DEF FunctionArg, IndInv, TypeOK, StackPointer, Layout
  <2>2. \A i \in 1..Len(objects) : memory'[-i] = memory[-i]
    BY <1>6, <2>1, BoundsAssumption DEF FunctionArg, Addresses, IndInv, Layout
  <2> QED
    BY <1>6, <2>2, BelowStorage DEF FunctionArg
<1>7. ASSUME NEW v \in Values, FunctionCall(v) PROVE UNCHANGED Storage!vars
  <2>1. /\ memory \in [Addresses -> Content]
        /\ esp \in Int /\ pushed \in Nat /\ Len(objects) \in Nat
        /\ esp + pushed = -Reserved /\ Reserved \in Nat
        /\ Reserved > Len(objects) + 1
    BY <1>7, ReservedOK DEF FunctionCall, IndInv, TypeOK, StackPointer, Layout
  <2>2. \A i \in 1..Len(objects) : memory'[-i] = memory[-i]
    BY <1>7, <2>1, BoundsAssumption DEF FunctionCall, Addresses, IndInv, Layout
  <2> QED
    BY <1>7, <2>2, BelowStorage DEF FunctionCall
<1>8. CASE Return
  BY <1>8, ReturnStorage DEF Storage!Next
<1>9. CASE UNCHANGED vars
  BY <1>9 DEF vars, Storage!vars, Address
<1> QED
  BY <1>2, <1>3, <1>4, <1>5, <1>6, <1>7, <1>8, <1>9, Zenon DEF Next

(* Without arrays the frame implements the storage of Locals: whatever the
   function stores, pushes and calls, each object keeps its own value. *)
THEOREM Implements ==
  ASSUME Lengths \subseteq {1}
  PROVE  Spec => StoresItsLocals
<1>1. Init => Storage!Init
  BY InitStorage
<1>2. IndInv /\ IndInv' /\ [Next]_vars => [Storage!Next]_(Storage!vars)
  BY NextStorage
<1>3. Spec => Storage!Spec
  BY <1>1, <1>2, Invariance, PTL DEF Spec, Storage!Spec
<1> QED
  BY <1>3 DEF StoresItsLocals
=============================================================================
