---------------------------- MODULE Expressions ----------------------------
(***************************************************************************)
(* A function of expression statements and a return, from the expressions  *)
(* to the value in %eax:                                                   *)
(*                                                                         *)
(*   "translate"  gkcc_ir_quad_generate_for_ast turns the expressions into *)
(*                quads (src/src/ir/translators.c);                        *)
(*   "print"      gkcc_tx86_print_bb prints them, collapsing some          *)
(*                (src/src/target_code/x86.c);                             *)
(*   "run"        the instructions execute (src/src/target_code/           *)
(*                x86_inst.c).                                             *)
(*                                                                         *)
(* The recursion translates the operands of an operator first, the left    *)
(* one before the right one, so the model reads the expressions in postfix *)
(* order, one node at a time, and keeps the translation results that are   *)
(* still to be used on a stack.  The variables are global, every           *)
(* pseudoregister has a word of its own (Frame), and addresses are small   *)
(* numbers, those of pseudoregisters negative.                             *)
(***************************************************************************)
EXTENDS Integers, Sequences, SequencesExt

CONSTANTS
  Bits,       \* the width of a machine word
  Names,      \* the variables the expression uses
  Constants,  \* the constants it uses
  Operators,  \* the operators it uses
  Shapes,     \* the forms it may have of those in KnownShapes
  Contents,   \* what x may hold at the start
  Targets,    \* the variables p may point to at the start
  Stale,      \* what unwritten pseudoregisters may hold
  MaxNodes    \* bound on its size

C == INSTANCE CExpression

KnownShapes == {"store after load", "update through pointer", "pointer update",
                "value of store through pointer", "address of element",
                "mistyped operand", "sizeof expression", "statement after step"}

ASSUME NamesAssumption == Names \subseteq DOMAIN C!Variables
ASSUME ConstantsAssumption == Constants \subseteq DOMAIN C!Literals
ASSUME OperatorsAssumption ==
  Operators \subseteq C!UnaryOps \cup C!BinaryOps \cup DOMAIN C!AssignOps \cup {"assign"}
ASSUME ShapesAssumption == Shapes \subseteq KnownShapes
ASSUME ContentsAssumption == Contents \cup Stale \subseteq C!IntRange
ASSUME TargetsAssumption == Targets \subseteq {"x", "a"}

VARIABLES
  expression,  \* the nodes translated so far
  operands,    \* their translation results, the last one on top
  block,       \* the quads of the statements that are translated
  temps,       \* how many pseudoregisters there are
  phase,       \* "translate", "print", "run", "returned", or how it ended
  code,        \* the quads that are printed
  start,       \* what the variables hold when the function is called
  memory,      \* what the variables and the pseudoregisters hold
  eax          \* the value returned

vars == <<expression, operands, block, temps, phase, code, start, memory, eax>>

-----------------------------------------------------------------------------
(* Registers: a symbol or pseudoregister at an address, or a constant.      *)
Register(kind, at, type) == [kind |-> kind, at |-> at, type |-> type]
NoRegister == Register("none", 0, <<>>)

\* gkcc_type_new_signed_int_type, which every new register has.
SignedInt == <<"signed", "int">>
Symbol(name) ==
  LET type == C!Variables[name].type
  IN  Register("symbol", C!Variables[name].at,
               SubSeq(type, 1, Len(type) - 1) \o SignedInt)
Constant(n) == Register("constant", n, SignedInt)
Temp(n, type) == Register("temp", -C!Word * n, type)

Scalar(type) == Head(type) \in {"signed", "int"}
NoType == <<>>

\* gkcc_type_sizeof: everything but an array is a word.
SizeOf(type) == C!Size(type)

Quad(instruction, dest, source1, source2) ==
  [instruction |-> instruction, dest |-> dest, source1 |-> source1, source2 |-> source2]

\* A translation result; node says what was translated.
Translated(node, result, quads) == [node |-> node, result |-> result, quads |-> quads]

-----------------------------------------------------------------------------
\* An array is used by its address.
TranslateIdent(name) ==
  LET symbol == Symbol(name)
      address == Temp(temps + 1, symbol.type)
  IN  IF Head(symbol.type) = "array"
      THEN Translated("ident", address, <<Quad("LEA", address, symbol, NoRegister)>>)
      ELSE Translated("ident", symbol, <<>>)

UnaryQuad == [neg |-> "NEGATE_VALUE", bitnot |-> "BITWISE_NOT", not |-> "LOGICAL_NOT",
              postinc |-> "POSTINC", postdec |-> "POSTDEC"]

\* The operand comes first; the result has its type unless the operator sets it.
TranslateUnary(op, e) ==
  LET type == e.result.type
      result(t) == Temp(temps + 1, t)
      ends(instruction, t) ==
        Translated(op, result(t),
                   Append(e.quads, Quad(instruction, result(t), e.result, NoRegister)))
  IN  CASE op = "sizeof" -> Translated(op, Constant(SizeOf(type)), e.quads)
        [] op = "addressof" ->
             [ends("LEA", <<"ptr">> \o Tail(type)) EXCEPT
                !.node = IF Head(type) = "ptr" THEN "address of pointer" ELSE @]
        [] op = "deref" ->
             ends(IF IsPrefix(<<"array", "array">>, type) THEN "MOVE" ELSE "LOAD", Tail(type))
        [] OTHER -> ends(UnaryQuad[op], type)

\* Mutant: the result of appending the left operand's code is not used.
RightCode(l, r) == r.quads

\* The code of the right operand comes before that of the left one.
OperandCode(l, r) == r.quads \o l.quads

\* Mutant: a pointer moves by bytes.
ScaledByBytes(pointer, e) == [result |-> e.result, quads |-> <<>>]

\* The integer operand of + or - on a pointer is scaled.
Scaled(pointer, e) ==
  LET scaled == Temp(temps + 2, Tail(pointer.result.type))
  IN  [result |-> scaled,
       quads |-> <<Quad("MULTIPLY", scaled, e.result,
                        Constant(SizeOf(Tail(pointer.result.type))))>>]
Unscaled(e) == [result |-> e.result, quads |-> <<>>]

TranslateAdditive(op, instruction, l, r) ==
  LET lPointer == ~Scalar(l.result.type)
      rPointer == ~Scalar(r.result.type)
      left  == IF rPointer /\ ~lPointer THEN Scaled(r, l) ELSE Unscaled(l)
      right == IF lPointer /\ ~rPointer THEN Scaled(l, r) ELSE Unscaled(r)
      result == Temp(temps + 1, CASE lPointer /\ ~rPointer -> l.result.type
                                  [] rPointer /\ ~lPointer -> r.result.type
                                  [] OTHER -> SignedInt)
      quotient == Temp(temps + 2, l.result.type)
      quads == OperandCode(l, r) \o left.quads \o right.quads \o
               <<Quad(instruction, result, left.result, right.result)>>
  IN  IF lPointer /\ rPointer
      THEN Translated("difference", quotient,
                      Append(quads, Quad("DIVIDE", quotient, result,
                                         Constant(SizeOf(Tail(l.result.type))))))
      ELSE Translated(op, result, quads)

BinaryQuad == [multiply |-> "MULTIPLY", divide |-> "DIVIDE", mod |-> "MOD",
               gt |-> "GREATER_THAN", lt |-> "LESS_THAN",
               gteq |-> "GREATER_THAN_OR_EQUAL_TO", lteq |-> "LESS_THAN_OR_EQUAL_TO",
               equals |-> "EQUALS"]

TranslateBinary(op, l, r) ==
  LET result == Temp(temps + 1, SignedInt)
  IN  CASE op = "add" -> TranslateAdditive(op, "ADD", l, r)
        [] op = "subtract" -> TranslateAdditive(op, "SUBTRACT", l, r)
        [] OTHER ->
             Translated(op, result,
                        Append(OperandCode(l, r),
                               Quad(BinaryQuad[op], result, l.result, r.result)))

\* Mutant: the address takes a number that was not reserved for it.
TranslateAssignNext(l, r) ==
  LET address == Temp(temps + 2, SignedInt)
  IN  Translated(IF l.node = "deref" THEN "store through pointer" ELSE "assign", l.result,
                 OperandCode(l, r) \o
                 <<Quad("LEA", address, l.result, NoRegister),
                   Quad("STR", address, r.result, NoRegister)>>)

\* A store through a pointer is a store to the loaded value here: it is the
\* collapsing of the printed code that makes it one.
TranslateAssign(l, r) ==
  LET address == Temp(temps + 1, SignedInt)
  IN  Translated(IF l.node = "deref" THEN "store through pointer" ELSE "assign", l.result,
                 OperandCode(l, r) \o
                 <<Quad("LEA", address, l.result, NoRegister),
                   Quad("STR", address, r.result, NoRegister)>>)

AssignQuad == [assign_add |-> "ADD", assign_subtract |-> "SUBTRACT",
               assign_multiply |-> "MULTIPLY", assign_divide |-> "DIVIDE",
               assign_mod |-> "MOD"]

TranslateAssignOp(op, l, r) ==
  Translated("assign", l.result,
             Append(OperandCode(l, r), Quad(AssignQuad[op], l.result, l.result, r.result)))

-----------------------------------------------------------------------------
(* Printing a basic block: of a load, the address of something and a store, *)
(* only the store is printed, to the address that was loaded.               *)
IsLoadLeaStr(quads, i) ==
  /\ i + 2 \in DOMAIN quads
  /\ quads[i].instruction = "LOAD"
  /\ quads[i + 1].instruction = "LEA"
  /\ quads[i + 2].instruction = "STR"

\* Mutant: every quad is printed.
PrintedAsIs(quads) == quads

Printed(quads) ==
  LET from[i \in 1..Len(quads) + 1] ==
        CASE i > Len(quads) -> <<>>
          [] i <= Len(quads) /\ IsLoadLeaStr(quads, i) ->
               <<[quads[i + 2] EXCEPT !.dest = quads[i].source1]>> \o from[i + 3]
          [] OTHER -> <<quads[i]>> \o from[i + 1]
  IN  from[1]

-----------------------------------------------------------------------------
(* Running an instruction.  s holds the memory and what %eax returns.       *)
Wrap(n) == ((n + 2^(Bits - 1)) % 2^Bits) - 2^(Bits - 1)

Content(s, register) ==
  IF register.kind = "constant" THEN register.at ELSE s.memory[register.at]

Arithmetic(instruction, n, k) ==
  CASE instruction = "ADD" -> Wrap(n + k)
    [] instruction = "SUBTRACT" -> Wrap(n - k)
    [] instruction = "MULTIPLY" -> Wrap(n * k)
    [] instruction = "DIVIDE" -> C!Quotient(n, k)
    [] instruction = "MOD" -> n - k * C!Quotient(n, k)

Comparison(instruction, n, k) ==
  CASE instruction = "GREATER_THAN" -> n > k
    [] instruction = "LESS_THAN" -> n < k
    [] instruction = "GREATER_THAN_OR_EQUAL_TO" -> n >= k
    [] instruction = "LESS_THAN_OR_EQUAL_TO" -> n <= k
    [] instruction = "EQUALS" -> n = k
    [] instruction = "LOGICAL_NOT" -> n = 0

\* What is saved to the destination: POSTINC and POSTDEC save what they loaded
\* and step the register afterwards.
Computed(s, quad) ==
  LET source1 == Content(s, quad.source1)
      source2 == Content(s, quad.source2)
  IN  CASE quad.instruction \in {"ADD", "SUBTRACT", "MULTIPLY", "DIVIDE", "MOD"} ->
             Arithmetic(quad.instruction, source1, source2)
        [] quad.instruction \in {"GREATER_THAN", "LESS_THAN", "GREATER_THAN_OR_EQUAL_TO",
                                 "LESS_THAN_OR_EQUAL_TO", "EQUALS"} ->
             C!Truth(Comparison(quad.instruction, source1, source2))
        [] quad.instruction = "LOGICAL_NOT" ->
             C!Truth(Comparison(quad.instruction, source1, 0))
        [] quad.instruction = "NEGATE_VALUE" -> Wrap(-source1)
        [] quad.instruction = "BITWISE_NOT" -> -source1 - 1
        [] quad.instruction = "LEA" -> quad.source1.at
        [] quad.instruction = "LOAD" -> s.memory[source1]
        [] quad.instruction \in {"MOVE", "POSTINC", "POSTDEC"} -> source1

\* The processor traps on an address that is not mapped or a bad division.
Traps(s, quad) ==
  \/ /\ quad.instruction = "LOAD"
     /\ Content(s, quad.source1) \notin DOMAIN s.memory
  \/ /\ quad.instruction = "STR"
     /\ Content(s, quad.dest) \notin DOMAIN s.memory
  \/ /\ quad.instruction \in {"DIVIDE", "MOD"}
     /\ \/ Content(s, quad.source2) = 0
        \/ C!Quotient(Content(s, quad.source1), Content(s, quad.source2)) \notin C!IntRange

Run(s, quad) ==
  CASE s.trapped \/ Traps(s, quad) -> [s EXCEPT !.trapped = TRUE]
    [] quad.instruction = "RETURN" ->
         IF quad.source1 = NoRegister THEN s ELSE [s EXCEPT !.eax = Content(s, quad.source1)]
    [] quad.instruction = "STR" ->
         [s EXCEPT !.memory[Content(s, quad.dest)] = Content(s, quad.source1)]
    [] OTHER -> [s EXCEPT !.memory[quad.dest.at] = Computed(s, quad)]

-----------------------------------------------------------------------------
(* The expressions whose meaning C defines, of a bounded size, and without  *)
(* the forms that are known to be translated wrongly unless Shapes has them. *)
Room(popped) == Len(expression) + Len(operands) - popped + 1 <= MaxNodes

Defined(node) == C!Evaluation(Append(expression, node), start).defined

\* p - q has the type of p and !p that of p; &p has that of p, too.
Mistyped(e) ==
  \/ e.node = "difference"
  \/ e.node = "not" /\ ~Scalar(e.result.type)
  \/ e.node = "address of pointer"

SideEffect(quad) == quad.instruction = "STR" \/ quad.dest.kind = "symbol"

HasShape(shape, node, used, e) ==
  CASE shape = "store after load" ->  \* x = *p, and (x = 1) + *p
         LET quads == block \o e.quads
         IN  \E i \in DOMAIN quads :
               IsLoadLeaStr(quads, i) /\ quads[i + 1].source1 # quads[i].dest
    [] shape = "update through pointer" ->
         node \in DOMAIN C!AssignOps /\ used[1].node = "deref"
    [] shape = "pointer update" ->
         node \in DOMAIN C!AssignOps /\ ~Scalar(used[1].result.type)
    [] shape = "value of store through pointer" ->
         \E i \in DOMAIN used : used[i].node = "store through pointer"
    [] shape = "address of element" -> node = "addressof" /\ used[1].node = "deref"
    [] shape = "mistyped operand" -> \E i \in DOMAIN used : Mistyped(used[i])
    [] shape = "sizeof expression" ->
         /\ node = "sizeof"
         /\ \/ used[1].node \notin {"ident", "constant", "deref"}
            \/ \E i \in DOMAIN used[1].quads : SideEffect(used[1].quads[i])
    [] shape = "statement after step" ->
         \E i \in DOMAIN block : block[i].instruction \in {"POSTINC", "POSTDEC"}

Allowed(node, used, e) ==
  \A shape \in KnownShapes \ Shapes : ~HasShape(shape, node, used, e)

-----------------------------------------------------------------------------
Init ==
  /\ expression = <<>> /\ operands = <<>> /\ block = <<>> /\ temps = 0
  /\ phase = "translate" /\ code = <<>> /\ eax = 0
  /\ \E n \in Contents, target \in Targets :
       start = [c \in C!Cells |-> CASE c = C!Variables.x.at -> n
                                   [] c = C!Variables.p.at -> C!Variables[target].at
                                   [] OTHER -> c \div C!Word - 6]
  /\ memory = start

\* The node uses the last k results and leaves e.
Push(node, k, e, newTemps) ==
  /\ phase = "translate" /\ Len(operands) >= k /\ Room(k) /\ Defined(node)
  /\ Allowed(node, SubSeq(operands, Len(operands) - k + 1, Len(operands)), e)
  /\ expression' = Append(expression, node)
  /\ operands' = Append(SubSeq(operands, 1, Len(operands) - k), e)
  /\ temps' = temps + newTemps
  /\ UNCHANGED <<block, phase, code, start, memory, eax>>

Ident(name) ==
  LET e == TranslateIdent(name) IN Push(name, 0, e, Len(e.quads))

ConstantNode(name) ==
  Push(name, 0, Translated("constant", Constant(C!Literals[name]), <<>>), 0)

\* The compiler dies: of a missing type, a null pointer that only the address
\* of an element leads to, or of the fatal error for the sum of two pointers.
Crash(node, used) ==
  /\ Defined(node) /\ Room(Len(used)) /\ Allowed(node, used, Last(used))
  /\ phase' = "crashed"
  /\ UNCHANGED <<expression, operands, block, temps, code, start, memory, eax>>

Unary(op) ==
  /\ phase = "translate" /\ operands # <<>>
  /\ IF Last(operands).result.type = NoType /\ op \in {"deref", "addressof"}
     THEN Crash(op, <<Last(operands)>>)
     ELSE Push(op, 1, TranslateUnary(op, Last(operands)), 1)

L == operands[Len(operands) - 1]
R == operands[Len(operands)]

Additive == {"add", "subtract"}

Unadded(op, l, r) ==
  \/ op \in Additive /\ NoType \in {l, r}
  \/ op = "add" /\ ~Scalar(l) /\ ~Scalar(r)

Binary(op) ==
  /\ phase = "translate" /\ Len(operands) >= 2
  /\ IF Unadded(op, L.result.type, R.result.type)
     THEN Crash(op, <<L, R>>)
     ELSE Push(op, 2, TranslateBinary(op, L, R),
               IF op \in Additive /\ ~(Scalar(L.result.type) /\ Scalar(R.result.type))
               THEN 2 ELSE 1)

Assign ==
  /\ phase = "translate" /\ Len(operands) >= 2
  /\ Push("assign", 2, TranslateAssign(L, R), 1)

AssignOp(op) ==
  /\ phase = "translate" /\ Len(operands) >= 2
  /\ Push(op, 2, TranslateAssignOp(op, L, R), 0)

\* An expression statement: its quads join the block, its value is dropped.
ExpressionStatement ==
  /\ phase = "translate" /\ Len(operands) = 1
  /\ Len(expression) < MaxNodes
  /\ expression' = Append(expression, "drop")
  /\ block' = block \o R.quads
  /\ operands' = <<>>
  /\ UNCHANGED <<temps, phase, code, start, memory, eax>>

\* The function returns the value of an expression, or nothing.
ReturnStatement(e) ==
  /\ phase = "translate"
  /\ Allowed("return", operands, e)
  /\ block' = block \o Append(e.quads, Quad("RETURN", NoRegister, e.result, NoRegister))
  /\ operands' = <<>>
  /\ phase' = "print"
  /\ UNCHANGED <<expression, temps, code, start, memory, eax>>

Return ==
  \/ Len(operands) = 1 /\ ReturnStatement(R)
  \/ operands = <<>> /\ ReturnStatement(Translated("nothing", NoRegister, <<>>))

PrintBlock ==
  /\ phase = "print"
  /\ code' = Printed(block)
  /\ phase' = "run"
  /\ UNCHANGED <<expression, operands, block, temps, start, memory, eax>>

Execute ==
  /\ phase = "run"
  /\ \E stale \in Stale :
       LET frame == [t \in {-C!Word * n : n \in 1..temps} |-> stale]
           end == FoldLeft(Run, [memory |-> memory @@ frame, eax |-> stale, trapped |-> FALSE],
                           code)
       IN  /\ memory' = end.memory /\ eax' = end.eax
           /\ phase' = IF end.trapped THEN "trapped" ELSE "returned"
  /\ UNCHANGED <<expression, operands, block, temps, code, start>>

Next ==
  \/ \E name \in Names : Ident(name)
  \/ \E name \in Constants : ConstantNode(name)
  \/ \E op \in Operators \cap C!UnaryOps : Unary(op)
  \/ \E op \in Operators \cap C!BinaryOps : Binary(op)
  \/ "assign" \in Operators /\ Assign
  \/ \E op \in Operators \cap DOMAIN C!AssignOps : AssignOp(op)
  \/ ExpressionStatement
  \/ Return
  \/ PrintBlock
  \/ Execute

Spec == Init /\ [][Next]_vars

-----------------------------------------------------------------------------
Phases == {"translate", "print", "run", "returned", "crashed", "trapped"}
Types == {"signed", "int", "ptr", "array"}

RegisterOK(register) ==
  /\ register.kind = "symbol" => register.at \in C!Cells
  /\ register.kind = "temp" => -register.at \in {C!Word * n : n \in 1..temps}
  /\ register.kind = "constant" => register.at \in C!IntRange
  /\ ToSet(register.type) \subseteq Types

\* The type invariant: every result is a register, the printed quads name
\* registers this function has (gkcc_ir_quad_register_new_pseudoregister), and
\* memory holds words.
TypeOK ==
  /\ phase \in Phases /\ temps \in 0..2 * MaxNodes /\ Len(expression) <= MaxNodes
  /\ \A i \in DOMAIN operands : RegisterOK(operands[i].result)
  /\ \A i \in DOMAIN code : \A register \in {code[i].dest, code[i].source1, code[i].source2} :
       RegisterOK(register)
  /\ C!Cells \subseteq DOMAIN memory
  /\ \A c \in DOMAIN memory : memory[c] \in C!IntRange
  /\ eax \in C!IntRange

Meaning == C!Evaluation(expression, start)

\* The function returns the value C gives the expression of its return
\* statement, for every operator the translators have and whatever the
\* pseudoregisters held before; neither the compiler nor the code dies.
ValueIsMeaning ==
  /\ phase \notin {"crashed", "trapped"}
  /\ phase = "returned" /\ Last(code).source1 # NoRegister => eax = C!Result(Meaning)

\* It leaves the variables as C says, unless an expression has a ++ or --
\* after its operand: the stepped value is not stored (x86_inst.c:222-234).
StoresAreMeaning ==
  phase = "returned" /\ ToSet(expression) \cap {"postinc", "postdec"} = {} =>
    \A c \in C!Cells : memory[c] = Meaning.memory[c]

\* "If there is a (load, lea, str), collapse it into a single store"
\* (x86.c:171): where quads were collapsed, the code stores what C stores.
CollapsedIsOneStore ==
  phase \in {"returned", "trapped"} /\ code # block =>
    \A c \in C!Cells : memory[c] = Meaning.memory[c]

TempsRead(quad) ==
  {r \in {quad.source1, quad.source2} \cup
         (IF quad.instruction = "STR" THEN {quad.dest} ELSE {}) : r.kind = "temp"}

\* No instruction that is printed reads a pseudoregister before one that
\* writes it: collapsing drops a load with its destination, and the code of
\* the operands is put together in another order than it is generated in.
ReadAfterWrite ==
  \A i \in DOMAIN code : \A r \in TempsRead(code[i]) :
    \E j \in 1..i - 1 : code[j].instruction # "STR" /\ code[j].dest.at = r.at

=============================================================================
