-------------------------- MODULE MCDeclarations --------------------------
(***************************************************************************)
(* Declarations for every list of specifiers and every declarator of a few *)
(* tokens together.                                                        *)
(***************************************************************************)
EXTENDS Declarations
=============================================================================
