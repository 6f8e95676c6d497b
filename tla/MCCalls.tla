------------------------------ MODULE MCCalls ------------------------------
(***************************************************************************)
(* Calls for every program of two functions and a few tokens.              *)
(***************************************************************************)
EXTENDS Calls

MCOrder == <<"main", "f">>
=============================================================================
