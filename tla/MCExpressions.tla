--------------------------- MODULE MCExpressions ---------------------------
\* Expressions on the bounds its configurations name.
EXTENDS Expressions
=============================================================================
