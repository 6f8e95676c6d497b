---------------------------- MODULE CExpression ----------------------------
(***************************************************************************)
(* What C expression statements mean: the promise Expressions keeps.       *)
(*                                                                         *)
(* An expression is given in postfix order; "drop" ends its statement.     *)
(* Evaluating it leaves a value, and changes the variables; where the      *)
(* standard leaves the behaviour undefined (overflow, division by zero, a  *)
(* pointer out of its array, two unsequenced accesses of which one is a    *)
(* write) it is not defined.                                               *)
(***************************************************************************)
EXTENDS Integers, Sequences, SequencesExt

CONSTANT Bits  \* the width of an int

IntRange == -(2^(Bits - 1)) .. 2^(Bits - 1) - 1
Word == 4

IntType == <<"int">>
PointerTo(type) == <<"ptr">> \o type
IsPointer(type) == Head(type) = "ptr"
IsArray(type) == Head(type) = "array"

\* The variables in scope, with gaps between them; arrays have two elements.
Variables == [x |-> [at |-> 4,  type |-> IntType],
              p |-> [at |-> 12, type |-> PointerTo(IntType)],
              a |-> [at |-> 20, type |-> <<"array", "int">>],
              m |-> [at |-> 32, type |-> <<"array", "array", "int">>]]
Literals == [zero |-> 0, one |-> 1, three |-> 3]
Cells == {4, 12, 20, 24, 32, 36, 40, 44}

\* Where a pointer into a variable may point: to its cells and just past them.
Extents == {{4, 8}, {12, 16}, {20, 24, 28}, {32, 36, 40, 44, 48}}
Within(n, o) == \E e \in Extents : {n, o} \subseteq e

Size(type) ==
  Word * 2^Cardinality({i \in DOMAIN type : \A j \in 1..i : type[j] = "array"})

UnaryOps == {"neg", "bitnot", "not", "deref", "addressof", "sizeof", "postinc", "postdec"}
BinaryOps == {"add", "subtract", "multiply", "divide", "mod",
              "gt", "lt", "gteq", "lteq", "equals"}
AssignOps == [assign_add |-> "add", assign_subtract |-> "subtract",
              assign_multiply |-> "multiply", assign_divide |-> "divide",
              assign_mod |-> "mod"]

\* Division truncates.
Quotient(n, d) ==
  LET Abs(k) == IF k < 0 THEN -k ELSE k
      q == Abs(n) \div Abs(d)
  IN  IF (n < 0) = (d < 0) THEN q ELSE -q

Truth(b) == IF b THEN 1 ELSE 0

-----------------------------------------------------------------------------
(* An operand: n is an address if it is an lvalue and a value if it is not. *)
(* read and wrote are the cells its evaluation accessed; before, what they  *)
(* held when it began.                                                      *)
Operand(lvalue, type, n, memory) ==
  [lvalue |-> lvalue, type |-> type, n |-> n,
   read |-> {}, wrote |-> {}, before |-> memory]

\* An operand where its value is wanted.
Value(e, memory) ==
  CASE ~e.lvalue -> e
    [] e.lvalue /\ IsArray(e.type) ->
         [e EXCEPT !.lvalue = FALSE, !.type = PointerTo(Tail(@))]
    [] OTHER -> [e EXCEPT !.lvalue = FALSE, !.n = memory[@], !.read = @ \cup {e.n}]

\* The values, one or none, that an operator gives.
Ints(n) == {[type |-> IntType, n |-> k] : k \in {n} \cap IntRange}
Pointers(e, n) == {[type |-> e.type, n |-> k] : k \in {k \in {n} : Within(e.n, k)}}

OfInts(op, n, k) ==
  CASE op = "add" -> Ints(n + k)
    [] op = "subtract" -> Ints(n - k)
    [] op = "multiply" -> Ints(n * k)
    [] op = "divide" /\ k # 0 -> Ints(Quotient(n, k))
    [] op = "mod" /\ k # 0 -> Ints(n - k * Quotient(n, k))
    [] op = "gt" -> Ints(Truth(n > k))
    [] op = "lt" -> Ints(Truth(n < k))
    [] op = "gteq" -> Ints(Truth(n >= k))
    [] op = "lteq" -> Ints(Truth(n <= k))
    [] op = "equals" -> Ints(Truth(n = k))
    [] OTHER -> {}

OfPointers(op, l, r) ==
  CASE op = "equals" -> Ints(Truth(l.n = r.n))
    [] op = "subtract" /\ Within(l.n, r.n) -> Ints(Quotient(l.n - r.n, Size(Tail(l.type))))
    [] op \in {"gt", "lt", "gteq", "lteq"} /\ Within(l.n, r.n) -> OfInts(op, l.n, r.n)
    [] OTHER -> {}

Results(op, l, r) ==
  CASE l.type = IntType /\ r.type = IntType -> OfInts(op, l.n, r.n)
    [] IsPointer(l.type) /\ r.type = IntType /\ op = "add" ->
         Pointers(l, l.n + r.n * Size(Tail(l.type)))
    [] IsPointer(l.type) /\ r.type = IntType /\ op = "subtract" ->
         Pointers(l, l.n - r.n * Size(Tail(l.type)))
    [] l.type = IntType /\ IsPointer(r.type) /\ op = "add" ->
         Pointers(r, r.n + l.n * Size(Tail(r.type)))
    [] IsPointer(l.type) /\ r.type = l.type -> OfPointers(op, l, r)
    [] OTHER -> {}

\* The operands of an operator are unsequenced.
Sequenced(l, r) ==
  /\ l.wrote \cap (r.read \cup r.wrote) = {}
  /\ r.wrote \cap (l.read \cup l.wrote) = {}

Both(l, r) ==
  [l EXCEPT !.read = @ \cup r.read, !.wrote = @ \cup r.wrote, !.lvalue = FALSE]

-----------------------------------------------------------------------------
(* The evaluation so far: the operands, the variables, and whether C says   *)
(* what happens.                                                            *)
Undefined(s) == [s EXCEPT !.defined = FALSE]

Leave(s, popped, e, memory) ==
  [s EXCEPT !.stack = Append(SubSeq(@, 1, Len(@) - popped), e), !.memory = memory]

Leaf(s, e) == Leave(s, 0, e, s.memory)

Store(s, popped, to, e, value) ==
  IF to.n \in e.wrote THEN Undefined(s)
  ELSE Leave(s, popped, [e EXCEPT !.wrote = @ \cup {to.n}],
             [s.memory EXCEPT ![to.n] = value])

UnaryStep(s, op) ==
  LET e == Last(s.stack)
      v == Value(e, s.memory)
      Is(n) == Leave(s, 1, [v EXCEPT !.n = n, !.type = IntType], s.memory)
      Step(sign) ==
        LET results == Results("add", v, [type |-> IntType, n |-> sign])
        IN  IF results = {} THEN Undefined(s)
            ELSE Store(s, 1, e, v, (CHOOSE r \in results : TRUE).n)
      scalar == e.lvalue /\ ~IsArray(e.type)
  IN  CASE op = "neg" /\ v.type = IntType /\ -v.n \in IntRange -> Is(-v.n)
        [] op = "bitnot" /\ v.type = IntType -> Is(-v.n - 1)
        [] op = "not" -> Is(Truth(v.n = 0))
        [] op = "deref" /\ IsPointer(v.type) /\ v.n \in Cells \ v.wrote ->
             Leave(s, 1, [v EXCEPT !.lvalue = TRUE, !.type = Tail(@)], s.memory)
        [] op = "addressof" /\ scalar ->
             Leave(s, 1, [e EXCEPT !.lvalue = FALSE, !.type = PointerTo(@)], s.memory)
        [] op = "sizeof" ->  \* its operand is not evaluated
             Leave(s, 1, Operand(FALSE, IntType, Size(e.type), e.before), e.before)
        [] op = "postinc" /\ scalar -> Step(1)
        [] op = "postdec" /\ scalar -> Step(-1)
        [] OTHER -> Undefined(s)

BinaryStep(s, op) ==
  LET n == Len(s.stack)
      l == Value(s.stack[n - 1], s.memory)
      r == Value(s.stack[n], s.memory)
      results == Results(op, l, r)
  IN  IF results = {} \/ ~Sequenced(l, r) THEN Undefined(s)
      ELSE LET result == CHOOSE v \in results : TRUE
           IN  Leave(s, 2, [Both(l, r) EXCEPT !.type = result.type, !.n = result.n],
                     s.memory)

AssignStep(s) ==
  LET n == Len(s.stack)
      l == s.stack[n - 1]
      r == Value(s.stack[n], s.memory)
  IN  IF ~l.lvalue \/ l.type # r.type \/ ~Sequenced(l, r) THEN Undefined(s)
      ELSE Store(s, 2, l, [Both(l, r) EXCEPT !.n = r.n], r.n)

AssignOpStep(s, op) ==
  LET n == Len(s.stack)
      l == s.stack[n - 1]
      v == Value(l, s.memory)
      r == Value(s.stack[n], s.memory)
      results == Results(AssignOps[op], v, r)
  IN  IF ~l.lvalue \/ IsArray(l.type) \/ results = {} \/ ~Sequenced(v, r)
      THEN Undefined(s)
      ELSE LET result == CHOOSE w \in results : TRUE
           IN  IF result.type # l.type THEN Undefined(s)
               ELSE Store(s, 2, l, [Both(v, r) EXCEPT !.n = result.n], result.n)

Step(s, token) ==
  CASE token \in DOMAIN Variables ->
         Leaf(s, Operand(TRUE, Variables[token].type, Variables[token].at, s.memory))
    [] token \in DOMAIN Literals ->
         Leaf(s, Operand(FALSE, IntType, Literals[token], s.memory))
    [] token \in UnaryOps -> UnaryStep(s, token)
    [] token \in BinaryOps -> BinaryStep(s, token)
    [] token = "assign" -> AssignStep(s)
    [] token = "drop" -> [s EXCEPT !.stack = <<>>]
    [] token \in DOMAIN AssignOps -> AssignOpStep(s, token)

\* The evaluation of an expression that is not complete has more operands.
Evaluation(expression, memory) ==
  FoldLeft(LAMBDA s, token : IF s.defined THEN Step(s, token) ELSE s,
           [stack |-> <<>>, memory |-> memory, defined |-> TRUE], expression)

Result(evaluation) == Value(Last(evaluation.stack), evaluation.memory).n
=============================================================================
