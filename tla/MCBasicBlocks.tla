--------------------------- MODULE MCBasicBlocks ---------------------------
(***************************************************************************)
(* BasicBlocks for every function of a few tokens.                         *)
(***************************************************************************)
EXTENDS BasicBlocks
=============================================================================
