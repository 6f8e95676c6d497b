-------------------------------- MODULE Frame --------------------------------
(***************************************************************************)
(* The stack frame of one function: the IR generator gives every local and *)
(* every pseudoregister an offset (src/src/ir/quads.c), the x86 back end   *)
(* reserves the space and addresses an object at -offset(%ebp)             *)
(* (src/src/target_code/x86.c), and the emitted code stores into objects,  *)
(* pushes arguments, calls and returns.                                    *)
(*                                                                         *)
(* Everything is counted in words of four bytes, since gkcc_type_sizeof    *)
(* makes every object a multiple of sizeof(int) (ast/types.c:72-102).      *)
(* Addresses are relative to %ebp: 0 holds the caller's %ebp, 1 the return *)
(* address, and the stack grows towards -Depth.                            *)
(***************************************************************************)
EXTENDS Integers, Sequences

CONSTANTS
  Lengths,        \* lengths of the declared objects; a scalar has length 1
  MaxObjects,     \* bound on the locals and temporaries of the function
  Values,         \* what the program stores and pushes
  Garbage,        \* what the stack holds at the call
  SavedEbp,       \* what pushl %ebp leaves at 0
  ReturnAddress,  \* what the caller's call leaves at 1
  Depth,          \* the words modelled below %ebp ...
  Height          \* ... and above it

ASSUME LengthsAssumption == Lengths \subseteq 1..Height
ASSUME BoundsAssumption ==
  MaxObjects \in Nat /\ Depth \in Nat /\ Height \in Nat \ {0}

VARIABLES
  objects,  \* offset and length of each local and pseudoregister
  space,    \* required_space_for_locals
  phase,    \* "translating", "running" or "returned"
  memory,   \* the stack
  esp,      \* %esp
  pushed    \* current_function_push_val

vars == <<objects, space, phase, memory, esp, pushed>>

Addresses == (-Depth)..Height

\* The operand -offset(%ebp), and the k-th word of the object it names.
Address(i, k) == k - objects[i].offset

-----------------------------------------------------------------------------
Allocate(length) ==
  /\ phase = "translating"
  /\ Len(objects) < MaxObjects
  /\ space + length <= Depth
  /\ objects' = Append(objects, [offset |-> space, length |-> length])
  /\ space' = space + length
  /\ UNCHANGED <<phase, memory, esp, pushed>>

\* A declaration among the statements.
Declaration(length) == Allocate(length)

\* Mutant: the space does not grow.
PseudoregisterShares ==
  /\ phase = "translating"
  /\ Len(objects) < MaxObjects
  /\ objects' = Append(objects, [offset |-> space, length |-> 1])
  /\ UNCHANGED <<space, phase, memory, esp, pushed>>

\* The result of an expression.
Pseudoregister == Allocate(1)

\* Mutant: rounded down.
RoundedDown == space - (space % 4)

\* The space is rounded up to 16 bytes, to the next 16 if it is a multiple.
Reserved == space + (4 - (space % 4))

Preamble ==
  /\ phase = "translating"
  /\ Reserved <= Depth
  /\ phase' = "running"
  /\ esp' = -Reserved
  /\ UNCHANGED <<objects, space, memory, pushed>>

\* STR through the address LEA took, or the result of any other quad.
Store(i, k, v) ==
  /\ phase = "running"
  /\ memory' = [memory EXCEPT ![Address(i, k)] = v]
  /\ UNCHANGED <<objects, space, phase, esp, pushed>>

FunctionArg(v) ==
  /\ phase = "running"
  /\ esp > -Depth
  /\ esp' = esp - 1
  /\ memory' = [memory EXCEPT ![esp - 1] = v]
  /\ pushed' = pushed + 1
  /\ UNCHANGED <<objects, space, phase>>

\* Mutant: the arguments are counted once more at the next call.
FunctionCallCountsOn(v) ==
  /\ phase = "running"
  /\ memory' = [a \in Addresses |-> IF a < esp + pushed THEN v ELSE memory[a]]
  /\ esp' = esp + pushed
  /\ UNCHANGED <<objects, space, phase, pushed>>

\* The callee may change its arguments and everything below them.
FunctionCall(v) ==
  /\ phase = "running"
  /\ memory' = [a \in Addresses |-> IF a < esp + pushed THEN v ELSE memory[a]]
  /\ esp' = esp + pushed
  /\ pushed' = 0
  /\ UNCHANGED <<objects, space, phase>>

Return ==
  /\ phase = "running"
  /\ phase' = "returned"
  /\ UNCHANGED <<objects, space, memory, esp, pushed>>

-----------------------------------------------------------------------------
\* Mutant: the first object is given the offset 0.
InitFromZero ==
  /\ objects = <<>>
  /\ space = 0
  /\ phase = "translating"
  /\ memory = [a \in Addresses |-> IF a = 0 THEN SavedEbp
                                   ELSE IF a = 1 THEN ReturnAddress ELSE Garbage]
  /\ esp = 0
  /\ pushed = 0

Init ==
  /\ objects = <<>>
  /\ space = 1
  /\ phase = "translating"
  /\ memory = [a \in Addresses |-> IF a = 0 THEN SavedEbp
                                   ELSE IF a = 1 THEN ReturnAddress ELSE Garbage]
  /\ esp = 0
  /\ pushed = 0

Next ==
  \/ \E length \in Lengths : Declaration(length)
  \/ Pseudoregister
  \/ Preamble
  \/ \E i \in DOMAIN objects : \E k \in 0..(objects[i].length - 1), v \in Values :
       Store(i, k, v)
  \/ \E v \in Values : FunctionArg(v) \/ FunctionCall(v)
  \/ Return

Spec == Init /\ [][Next]_vars

-----------------------------------------------------------------------------
Content == Values \cup {Garbage, SavedEbp, ReturnAddress}

(* The shape of the state. *)
TypeOK ==
  /\ objects \in Seq([offset : Nat \ {0}, length : Nat \ {0}])
  /\ space \in Nat \ {0}
  /\ phase \in {"translating", "running", "returned"}
  /\ memory \in [Addresses -> Content]
  /\ esp \in (-Depth)..0
  /\ pushed \in 0..Depth

(* Every object lies inside the space the preamble reserves, below the saved
   %ebp and above the arguments being pushed (x86.c:140-147 and 26-28, quads.c
   110-119 and 154-165). *)
ObjectsInFrame ==
  phase # "translating" =>
    \A i \in DOMAIN objects : /\ Address(i, 0) >= esp + pushed
                              /\ Address(i, objects[i].length - 1) < 0

(* leave and ret find the caller's %ebp and the return address as the call left
   them, whatever was stored, pushed and called in between (x86_inst.c:46-52). *)
CallerIntact == memory[0] = SavedEbp /\ memory[1] = ReturnAddress

(* Every object keeps what was last stored in it: no store, push or call
   changes another object.  The frame implements the storage Locals describes. *)
Storage == INSTANCE Locals WITH
  Lengths <- Lengths \cup {1},
  contents <- [i \in DOMAIN objects |->
                 [k \in 0..(objects[i].length - 1) |-> memory[Address(i, k)]]]

StoresItsLocals == Storage!Spec

-----------------------------------------------------------------------------
(* scope.h:136: the offset is what one needs "to access this symbol if this
   symbol is a local variable".  A store through one symbol's offset changes no
   other's object. *)
OffsetAccessesSymbol ==
  [][\A i \in DOMAIN objects : \A k \in 0..(objects[i].length - 1), v \in Values :
       Store(i, k, v) =>
         \A j \in DOMAIN objects : \A m \in 0..(objects[j].length - 1) :
           <<j, m>> # <<i, k>> => memory'[Address(j, m)] = memory[Address(j, m)]]_vars
=============================================================================
