-------------------------- MODULE TranslationUnits --------------------------
(***************************************************************************)
(* A whole file, from its declarations to the assembly:                    *)
(*                                                                         *)
(*   "parse"  the grammar (src/src/parser/c.y) builds the statement lists  *)
(*            of the functions and the list of the file out of list nodes  *)
(*            (src/src/ast/ast.c, ast_constructors.c), and main has a copy *)
(*            of the first node of the latter (src/src/gkcc_int.c);        *)
(*   "build"  gkcc_ir_build_full goes through the list of the file         *)
(*            (src/src/ir/ir_full.c);                                      *)
(*   "print"  gkcc_tx86_generate_ir_full prints the symbols, then the      *)
(*            functions (src/src/target_code/x86.c).                       *)
(*                                                                         *)
(* A list is shared by all who have its first node, and only that node     *)
(* knows the last one.  A name, a statement or a string is the position of *)
(* its token in the text.  A declaration in a block is a list like the     *)
(* expressions; the frame it takes is that of module Frame.  Control flow  *)
(* in a function is that of module BasicBlocks: here it is one block.      *)
(***************************************************************************)
EXTENDS Naturals, Sequences, SequencesExt, FiniteSets

CONSTANTS
  Shapes,     \* the forms the file may have of those in KnownShapes
  MaxTokens,  \* bound on the length of the file
  MaxNodes    \* bound on the list nodes made

KnownShapes == {"empty first item", "empty function", "tag only"}

ASSUME ShapesAssumption == Shapes \subseteq KnownShapes
ASSUME BoundsAssumption == MaxTokens \in Nat /\ MaxNodes \in Nat

VARIABLES
  phase,    \* "parse", "build", "print", "done" or "crash"
  text,     \* the external declarations read, with what a function's body says
  heap,     \* the list nodes
  unit,     \* top_list
  top,      \* *top_ast_node: a copy of a node
  blocks,   \* the block_item_lists of the open blocks, the innermost one last
  lnode,    \* the node of the file that is built next
  ir,       \* gkcc_ir_full and its generation state
  printed,  \* printed_bbs: the numbers of the blocks that are printed
  output,   \* the lines of assembly
  tokens    \* how many tokens were read

vars == <<phase, text, heap, unit, top, blocks, lnode, ir, printed, output, tokens>>

NULL == 0
NoNode == [kind |-> "NULL", id |-> 0, value |-> 0]

\* An AST node; the value of a function is its statements, that of a list its node.
AstNode(kind, id, value) == [kind |-> kind, id |-> id, value |-> value]
List(node) == IF node = NULL THEN NoNode ELSE AstNode("LIST", 0, node)

StatementKinds == {"expression", "string", "return"}
DeclarationKinds == {"variable", "prototype", "function", "tag"}

-----------------------------------------------------------------------------
(* Lists.                                                                   *)
ListNode(node, next, end) == [node |-> node, next |-> next, end |-> end]

\* The nodes reached from one of them.
Chain(h, first) ==
  LET from[i \in 0..Len(h)] == IF i = NULL THEN <<>> ELSE <<i>> \o from[h[i].next]
  IN  from[first]

Items(h, first) == LET chain == Chain(h, first) IN [k \in DOMAIN chain |-> h[chain[k]].node]

\* Mutant: a list gets a list around it.
NewListOfLists(h, child) ==
  [heap |-> Append(h, ListNode(child, NULL, Len(h) + 1)), list |-> Len(h) + 1]

\* ast_node_new_list_node: a list is its own list.
NewList(h, child) ==
  IF child.kind = "LIST"
  THEN [heap |-> h, list |-> child.value]
  ELSE [heap |-> Append(h, ListNode(child, NULL, Len(h) + 1)), list |-> Len(h) + 1]

\* The copies of list nodes that ast_node_append makes, one for each item.
Copies(h, items) ==
  [k \in DOMAIN items |->
     ListNode(items[k], IF k = Len(items) THEN NULL ELSE Len(h) + k + 1, Len(h) + k)]

ItemsOf(h, child) == IF child.kind = "LIST" THEN Items(h, child.value) ELSE <<child>>

\* Mutant: the list ends where the appended list does, not where its copy does.
AppendedKeepsEnd(h, parent, child) ==
  LET items == ItemsOf(h, child)
      end == IF child.kind = "LIST" THEN h[child.value].end ELSE Len(h) + 1
  IN  [h EXCEPT ![h[parent].end].next = Len(h) + 1, ![parent].end = end] \o Copies(h, items)

\* ast_node_append, to a list of something: a list is flattened.
Appended(h, parent, child) ==
  LET items == ItemsOf(h, child)
  IN  [h EXCEPT ![h[parent].end].next = Len(h) + 1, ![parent].end = Len(h) + Len(items)]
        \o Copies(h, items)

\* ast_node_append.
AstAppend(h, parent, child) ==
  CASE parent = NULL   -> NewList(h, child)
    [] child = NoNode  -> [heap |-> h, list |-> parent]
    [] OTHER           -> [heap |-> Appended(h, parent, child), list |-> parent]

\* A list of nodes, appended one after the other.
ListOf(h, nodes) ==
  FoldLeft(LAMBDA done, node : AstAppend(done.heap, done.list, node),
           [heap |-> h, list |-> NULL], nodes)

-----------------------------------------------------------------------------
(* Reading.                                                                 *)
Parsing == phase = "parse" /\ tokens < MaxTokens
InFunction == blocks # <<>>
Position == tokens + 1

\* Mutant: the copy is made for the first declaration only.
TopOnce(h, list) == IF list # unit THEN h[list] ELSE top

\* *top_ast_node = *$$
Top(h, list) == h[list]

KeepBuilding == UNCHANGED <<lnode, ir, printed, output>>

\* top_list: a declaration or a function definition is appended, with the list
\* nodes of h.
AppendExternal(h, node) ==
  LET result == AstAppend(h, unit, node)
  IN  /\ Len(result.heap) <= MaxNodes
      /\ heap' = result.heap
      /\ unit' = result.list
      /\ top' = Top(result.heap, result.list)

\* A declaration is the list of what it declares; that of a tag only is one node.
Declaration(kinds) ==
  LET nodes == [k \in DOMAIN kinds |-> AstNode(kinds[k], Position + k - 1, NULL)]
      declarators == ListOf(heap, nodes)
  IN  /\ Parsing /\ ~InFunction
      /\ tokens + Len(kinds) <= MaxTokens
      /\ IF kinds = <<"tag">>
         THEN AppendExternal(heap, nodes[1])
         ELSE AppendExternal(declarators.heap, List(declarators.list))
      /\ text' = text \o [k \in DOMAIN kinds |-> [kind |-> kinds[k], id |-> Position + k - 1, body |-> <<>>]]
      /\ tokens' = tokens + Len(kinds)
      /\ UNCHANGED <<phase, blocks>> /\ KeepBuilding

BeginFunction ==
  /\ Parsing /\ ~InFunction
  /\ blocks' = <<NULL>>
  /\ text' = Append(text, [kind |-> "function", id |-> Position, body |-> <<>>])
  /\ tokens' = Position
  /\ UNCHANGED <<phase, heap, unit, top>> /\ KeepBuilding

Outer == SubSeq(blocks, 1, Len(blocks) - 1)

\* block_item_list: the first item makes the list, and has to be something.
AppendItem(h, outer, list, item) ==
  /\ list = NULL /\ item = NoNode => "empty first item" \in Shapes
  /\ IF list = NULL /\ item = NoNode
     THEN phase' = "crash" /\ UNCHANGED <<heap, blocks>>
     ELSE LET result == AstAppend(h, list, item)
          IN  /\ Len(result.heap) <= MaxNodes
              /\ heap' = result.heap
              /\ blocks' = Append(outer, result.list)
              /\ UNCHANGED phase

\* An expression statement is the list of the expressions between the commas,
\* a jump is one node.
Statement(kinds) ==
  LET nodes == [k \in DOMAIN kinds |-> AstNode(kinds[k], Position + k - 1, NULL)]
      expressions == ListOf(heap, nodes)
      function == text[Len(text)]
  IN  /\ Parsing /\ InFunction
      /\ tokens + Len(kinds) <= MaxTokens
      /\ IF kinds = <<"return">>
         THEN AppendItem(heap, Outer, Last(blocks), nodes[1])
         ELSE AppendItem(expressions.heap, Outer, Last(blocks), List(expressions.list))
      /\ text' = [text EXCEPT ![Len(text)].body = @ \o
                    [k \in DOMAIN kinds |-> [kind |-> kinds[k], id |-> Position + k - 1]]]
      /\ tokens' = tokens + Len(kinds)
      /\ UNCHANGED <<unit, top>> /\ KeepBuilding

EmptyStatement ==
  /\ Parsing /\ InFunction
  /\ AppendItem(heap, Outer, Last(blocks), NoNode)
  /\ tokens' = Position
  /\ UNCHANGED <<text, unit, top>> /\ KeepBuilding

BeginBlock ==
  /\ Parsing /\ InFunction
  /\ blocks' = Append(blocks, NULL)
  /\ tokens' = Position
  /\ UNCHANGED <<phase, text, heap, unit, top>> /\ KeepBuilding

\* A compound statement is the list of its items, or NULL without one.
EndBlock ==
  /\ phase = "parse" /\ Len(blocks) > 1
  /\ AppendItem(heap, SubSeq(blocks, 1, Len(blocks) - 2), blocks[Len(blocks) - 1],
                List(Last(blocks)))
  /\ UNCHANGED <<text, unit, top, tokens>> /\ KeepBuilding

EndFunction ==
  /\ phase = "parse" /\ Len(blocks) = 1
  /\ Last(blocks) = NULL => "empty function" \in Shapes
  /\ AppendExternal(heap, AstNode("function", text[Len(text)].id, Last(blocks)))
  /\ blocks' = <<>>
  /\ UNCHANGED <<phase, text, tokens>> /\ KeepBuilding

-----------------------------------------------------------------------------
(* Building.                                                                *)
NoLabel == 0

\* Mutant: the strings of each function are numbered from the first one.
NextStringOfFunction(state) == Len(state.ops) + 1

\* .STR%d
NextString(state) == state.strings + 1

\* One statement: a string constant is a symbol with the next label.
Translate(state, statement) ==
  IF statement.kind # "string"
  THEN [state EXCEPT !.ops = Append(@, [id |-> statement.id, label |-> NoLabel])]
  ELSE LET label == NextString(state)
       IN  [state EXCEPT !.strings = label,
                         !.symbols = Append(@, [kind |-> "string", id |-> statement.id, label |-> label]),
                         !.ops = Append(@, [id |-> statement.id, label |-> label])]

\* gkcc_internal_build_basic_blocks_for_function
BuildFunction(state, h, function) ==
  LET body == FoldLeft(Translate,
                       [strings |-> state.strings, symbols |-> state.symbols, ops |-> <<>>],
                       Items(h, function.value))
  IN  [state EXCEPT !.strings = body.strings,
                    !.symbols = body.symbols,
                    !.blocks = @ + 1,
                    !.functions = Append(@, [id |-> function.id, block |-> state.blocks,
                                             ops |-> body.ops])]

BuildVariable(state, variable) ==
  [state EXCEPT !.symbols = Append(@, [kind |-> "comm", id |-> variable.id, label |-> NoLabel])]

Read == <<text, heap, unit, top, blocks, tokens>>

\* The list begins with main's copy of its first node.
BeginBuild ==
  /\ phase = "parse" /\ ~InFunction /\ unit # NULL
  /\ phase' = "build"
  /\ lnode' = top
  /\ UNCHANGED <<text, heap, unit, top, blocks, ir, printed, output, tokens>>

\* A function without statements is taken for a prototype; a tag has no identifier.
BuildExternal ==
  LET node == lnode.node
  IN  /\ phase = "build"
      /\ IF node.kind = "tag"
         THEN phase' = "crash" /\ UNCHANGED <<ir, lnode>>
         ELSE /\ ir' = CASE node.kind = "variable" -> BuildVariable(ir, node)
                         [] node.kind = "function" /\ node.value # NULL -> BuildFunction(ir, heap, node)
                         [] OTHER -> ir
              /\ IF lnode.next = NULL
                 THEN phase' = "print" /\ UNCHANGED lnode
                 ELSE lnode' = heap[lnode.next] /\ UNCHANGED phase
      /\ UNCHANGED <<printed, output>> /\ UNCHANGED Read

-----------------------------------------------------------------------------
(* Printing.                                                                *)
Line(kind, id, label) == [kind |-> kind, id |-> id, label |-> label]

PrintSymbols ==
  /\ phase = "print" /\ ir.symbols # <<>>
  /\ output' = output \o [k \in DOMAIN ir.symbols |->
                            Line(ir.symbols[k].kind, ir.symbols[k].id, ir.symbols[k].label)]
  /\ ir' = [ir EXCEPT !.symbols = <<>>]
  /\ UNCHANGED <<phase, lnode, printed>> /\ UNCHANGED Read

\* The block of a function is printed unless its number was.
PrintFunction ==
  LET function == ir.functions[1]
      body == IF function.block \in printed THEN <<>>
              ELSE [k \in DOMAIN function.ops |->
                      Line("statement", function.ops[k].id, function.ops[k].label)]
  IN  /\ phase = "print" /\ ir.symbols = <<>> /\ ir.functions # <<>>
      /\ output' = output \o <<Line("function", function.id, NoLabel)>> \o body
      /\ printed' = printed \cup {function.block}
      /\ ir' = [ir EXCEPT !.functions = Tail(@)]
      /\ UNCHANGED <<phase, lnode>> /\ UNCHANGED Read

EndPrint ==
  /\ phase = "print" /\ ir.symbols = <<>> /\ ir.functions = <<>>
  /\ phase' = "done"
  /\ UNCHANGED <<lnode, ir, printed, output>> /\ UNCHANGED Read

-----------------------------------------------------------------------------
Init ==
  /\ phase = "parse"
  /\ text = <<>>
  /\ heap = <<>>
  /\ unit = NULL
  /\ top = ListNode(NoNode, NULL, NULL)
  /\ blocks = <<>>
  /\ lnode = ListNode(NoNode, NULL, NULL)
  /\ ir = [symbols |-> <<>>, functions |-> <<>>, strings |-> 0, blocks |-> 0]
  /\ printed = {}
  /\ output = <<>>
  /\ tokens = 0

Declarators ==
  (UNION {[1..n -> {"variable", "prototype"}] : n \in 1..2})
    \cup (IF "tag only" \in Shapes THEN {<<"tag">>} ELSE {})
Expressions == UNION {[1..n -> {"expression", "string"}] : n \in 1..2}

Next ==
  \/ \E kinds \in Declarators : Declaration(kinds)
  \/ BeginFunction
  \/ \E kinds \in Expressions \cup {<<"return">>} : Statement(kinds)
  \/ EmptyStatement
  \/ BeginBlock
  \/ EndBlock
  \/ EndFunction
  \/ BeginBuild
  \/ BuildExternal
  \/ PrintSymbols
  \/ PrintFunction
  \/ EndPrint

Spec == Init /\ [][Next]_vars

-----------------------------------------------------------------------------
(* The lists somebody has: they are in the file, in open blocks, or functions. *)
Lists ==
  ({unit} \cup Range(blocks) \cup {heap[i].node.value : i \in DOMAIN heap}) \ {NULL}

(* The shape of the state: a list holds AST nodes, never another list. *)
TypeOK ==
  /\ phase \in {"parse", "build", "print", "done", "crash"}
  /\ tokens \in 0..MaxTokens
  /\ Len(heap) <= MaxNodes
  /\ \A i \in DOMAIN heap :
       /\ heap[i].node.kind \in StatementKinds \cup DeclarationKinds
       /\ heap[i].next \in 0..Len(heap)
       /\ heap[i].end \in DOMAIN heap
  /\ unit \in 0..Len(heap)
  /\ Range(blocks) \subseteq 0..Len(heap)

(* The node a list keeps as its last one is the last one, so that what is
   appended is neither lost nor put before something: after any sequence of
   appends to lists that were made of other lists (ast.c:361-395). *)
EndIsLast == \A list \in Lists : heap[list].end = Last(Chain(heap, list))

(* What main has after the last declaration is the whole file, each function
   with its statements in the order of the text, through nested blocks, commas
   and empty statements (c.y:196-204 and 868-919). *)
TopIsWhole ==
  phase = "parse" /\ ~InFunction /\ unit # NULL =>
    LET items == ItemsOf(Append(heap, top), List(Len(heap) + 1))
    IN  /\ [k \in DOMAIN items |-> [kind |-> items[k].kind, id |-> items[k].id,
              body |-> LET body == Items(heap, items[k].value)
                       IN  [j \in DOMAIN body |-> [kind |-> body[j].kind, id |-> body[j].id]]]]
          = text

Ids(s) == [k \in DOMAIN s |-> s[k].id]
OfKinds(s, kinds) ==
  FlattenSeq([k \in DOMAIN s |-> IF s[k].kind \in kinds THEN <<s[k]>> ELSE <<>>])
Code(e) == <<e.id>> \o Ids(e.body)

(* The lines say what the declarations do. *)
Complete(lines, declarations) ==
  LET functions == OfKinds(declarations, {"function"})
      definitions(label) ==
        {d \in DOMAIN lines : lines[d].kind = "string" /\ lines[d].label = label}
  IN  /\ Ids(OfKinds(lines, {"comm"})) = Ids(OfKinds(declarations, {"variable"}))
      /\ Ids(OfKinds(lines, {"function", "statement"})) =
           FlattenSeq([k \in DOMAIN functions |-> Code(functions[k])])
      /\ \A use \in Range(lines) : use.kind = "statement" /\ use.label # NoLabel =>
           \E d \in DOMAIN lines : definitions(use.label) = {d} /\ lines[d].id = use.id

(* Every variable is one .comm, in order; every function is printed once, in
   order, with all of its statements; and the label a statement uses is that of
   its own string, which is defined once (ir_full.c:34-66, translators.c:52-75,
   basic_block.c:195-205, x86.c:184-219).  No file outside the named forms
   crashes the compiler. *)
EmittedInOrder == phase # "crash" /\ (phase = "done" => Complete(output, text))
=============================================================================
