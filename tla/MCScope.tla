------------------------------ MODULE MCScope ------------------------------
(***************************************************************************)
(* Scope on small translation units.  The constructs a run leaves out are  *)
(* those its configuration does not name.                                  *)
(***************************************************************************)
EXTENDS Scope, TLC

CONSTANTS a, b

Symmetry == Permutations(Names)
=============================================================================
