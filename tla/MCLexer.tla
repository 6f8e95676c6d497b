------------------------------ MODULE MCLexer ------------------------------
(***************************************************************************)
(* Lexer over short literals of every kind of character, two identifiers   *)
(* and the boundary values of four-bit ints.                               *)
(***************************************************************************)
EXTENDS Lexer

\* a and 1 stand for themselves.
MCPlain == {97, 49}

\* \n, \\, \" and \v.
MCEscapes == {110, 92, 34, 118}

\* A digit that is written as an escape, \61, is among them.
MCOctals == {<<0>>, <<6, 1>>, <<3, 7, 7>>, <<4, 0, 0>>, <<1, 0, 1, 1>>}
MCHexes == {<<1>>, <<8, 0>>, <<1, 0, 0>>}
MCNames == {<<97>>, <<120, 95>>}
MCNumerals == {0, 7, 8, 15, 127, 200}
MCModulus == [INT |-> 16, LONG |-> 256, LONGLONG |-> 256]
=============================================================================
