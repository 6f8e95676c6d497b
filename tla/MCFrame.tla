------------------------------ MODULE MCFrame ------------------------------
(***************************************************************************)
(* Frame for functions of a few objects.                                   *)
(***************************************************************************)
EXTENDS Frame, TLC

CONSTANTS x, y

Symmetry == Permutations(Values)
=============================================================================
