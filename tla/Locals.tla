------------------------------- MODULE Locals -------------------------------
(***************************************************************************)
(* What the storage of a function's locals promises: every object, array   *)
(* or scalar, holds what was last stored in it, whatever happens to the    *)
(* others.                                                                 *)
(***************************************************************************)
EXTENDS Integers, Sequences

CONSTANTS
  Lengths,     \* the lengths of the objects, in words
  MaxObjects,  \* bound on the objects of a function
  Values,      \* what a program stores
  Garbage      \* what an object holds before the first store

VARIABLES
  contents,  \* the words of each object, in the order of declaration
  phase      \* "translating", "running" or "returned"

vars == <<contents, phase>>

Init == contents = <<>> /\ phase = "translating"

Allocate(l) ==
  /\ phase = "translating"
  /\ Len(contents) < MaxObjects
  /\ contents' = Append(contents, [k \in 0..(l - 1) |-> Garbage])
  /\ UNCHANGED phase

Enter == phase = "translating" /\ phase' = "running" /\ UNCHANGED contents

Store(i, k, v) ==
  /\ phase = "running"
  /\ contents' = [contents EXCEPT ![i] = [@ EXCEPT ![k] = v]]
  /\ UNCHANGED phase

Return == phase = "running" /\ phase' = "returned" /\ UNCHANGED contents

Next ==
  \/ \E l \in Lengths : Allocate(l)
  \/ Enter
  \/ \E i \in DOMAIN contents : \E k \in DOMAIN contents[i], v \in Values :
       Store(i, k, v)
  \/ Return

Spec == Init /\ [][Next]_vars
=============================================================================
