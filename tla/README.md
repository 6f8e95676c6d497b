# A TLA+ development of gkcc

gkcc (`src/src`) is a compiler for a subset of C: a flex lexer, a bison parser
that builds an AST and the symbol tables, a translation to quads in basic
blocks, and a printer of i386 assembly. The program is sequential and keeps
nothing between runs. What is hard about it is not concurrency: it is state
that one phase leaves behind for another, and that goes wrong only in some
sequence of constructs nobody wrote a test for. The models take the constructs
of the *input program* as their actions, so that TLC visits every short program
and the proofs cover every program.

## The system

| component | state | operations | talks to |
|---|---|---|---|
| driver (`gkcc_int.c`, `misc/`) | options, output file | parse, then IR, then code; a failed assertion or fatal error ends the process | calls every phase in order |
| lexer (`lexical/c.lex`) | start condition, string buffer | one rule per token | returns tokens to the parser |
| parser (`parser/c.y`) | `current_symbol_table`, the AST so far | one action per production, mid-rule actions for scopes | calls AST constructors and scope helpers |
| scopes (`scope/`) | sets linked by `parent_scope`, four tables each, symbols | new set, add variable, tag, label, look up | symbols are shared with identifiers of the AST and read by the translators |
| AST (`ast/ast*.c`) | nodes; lists with a pointer to their end | constructors, append, update of struct nodes, declaration specifiers | calls the scope helpers |
| types (`ast/types.c`) | chains of `gkcc_type` | new, append, sizeof | sizes are used by the IR |
| basic blocks (`ir/basic_block.c`) | blocks, the status (continue, break, true, false) of each | recursion over statement lists | appends the quads of expressions |
| quads (`ir/quads.c`) | `required_space_for_locals`, counters, quad lists | declaration, pseudoregister, lists | offsets are read by the back end |
| translators (`ir/translators.c`) | quads of one expression | one function per kind of expression | allocates pseudoregisters |
| functions, globals (`ir/ir_full.c`) | lists of functions and symbols | one pass over the top level | calls basic blocks |
| back end (`target_code/`) | `printed`, `current_function_push_val` | preamble, one function per quad, blocks depth first | reads everything above |

What makes each correct, and where it is hard:

* **scopes and parser.** The current set is that of the construct being read;
  names, tags and labels bind as C says. Scopes are entered and left in
  different productions, a struct body moves the parser to wherever the tag's
  set hangs, and tags and labels are used before and after they are defined.
* **basic blocks and printing.** The emitted code executes what the program
  means. Statuses are handed down and filled in later, and where control falls
  through depends on the order of printing.
* **frame.** Objects do not overlap each other, the caller's frame or the pushed
  arguments. Locals and temporaries share a counter; pushes share a static.
* **expressions.** The quads compute what the expression means, although the
  right operand's code comes first and variables are read late, and the rewrite
  of printed quads, which is what makes a store through a pointer, keeps that.
* **calls.** A nested call must not disturb the arguments of the outer one, and
  every return must lead back. The count of pushed arguments is a static of the
  code generator, not of a call.
* **lists and whole files.** The end pointer of a list is its last node, although
  lists are appended to lists; what main has is the whole file; numbers of blocks
  and strings go on over all functions.
* **types.** A list of specifiers means one type whatever its order, and a
  declarator is reduced from the inside while C reads it from the identifier.
* **lexer.** A token is what its text means, although all tokens share one
  `yylval`; it has the line and file it came from; a string is the same bytes to
  the assembler.

`PROJECT.json` lists the hazards one by one, each at its line.

## The modules

| module | models | proofs |
|---|---|---|
| `Scope` | symbol tables and the grammar actions that drive them | `ScopeProofs`, with `OrderLemmas` |
| `Locals` | abstract: independent storage for a function's objects | |
| `Frame` | offsets, preamble, stores, pushes, calls, return; implements `Locals` | `FrameProofs` |
| `Structured` | abstract: the order of execution of a structured program | |
| `BasicBlocks` | statements to blocks, blocks to code, code running; implements `Structured` | `BasicBlocksProofs` |
| `CExpression` | abstract: the meaning of C expression statements | |
| `Expressions` | expressions to quads, quads to code, code running; against `CExpression` | |
| `Activations` | abstract: functions that call each other, each activation with its own locals | |
| `Calls` | calls to pushes and pops, the stack of the running program; implements `Activations` | `CallsProofs`, with `OrderLemmas` |
| `Lexer` | the scanner's rules, the nodes made of tokens, strings on their way to the assembler | `LexerProofs`, with `OrderLemmas` |
| `Declarations` | specifiers and declarators to chains of types | `DeclarationsProofs`, with `OrderLemmas` |
| `TranslationUnits` | a file to lists, lists to functions and symbols, these to assembly | `TranslationUnitsProofs`, with `OrderLemmas` |
| `MCScope`, `MCFrame`, `MCBasicBlocks`, `MCExpressions`, `MCCalls`, `MCLexer`, `MCDeclarations`, `MCTranslationUnits` | model values and symmetry for TLC | |

The modules meet where the phases of the compiler do. `Lexer` delivers what
`Expressions` takes as constants; `Declarations` gives the types it computes with;
`Frame` proves the storage that `Expressions` and `Calls` give every temporary;
`TranslationUnits` puts functions side by side whose control flow is that of
`BasicBlocks` and whose calls are those of `Calls`.

### Scope

One action per production of `c.y` that touches the scope state, with
everything it calls. `sets` are the `gkcc_symbol_table_set`s in the order of
their allocation; a set carries its whole `parent_scope` chain, so a recursive
lookup is a choice of the first hit on the chain and needs no recursion.
`symbols` are the installed symbols with owner, namespace, `storage_class`,
`fully_defined` and, for tags, the set of their type. `current` is
`current_symbol_table`. `open` is the part of the parser's stack that matters: the
constructs it is inside of, each with the set it began in and the set it was
given; a declaration and a struct also with the identifiers declared so far, because
they are installed together, at the `;` or the `}`. `bound` is the `symbol_table_entry` of the last node. `placed` is a
history variable that counts the labels of each function. `outcome` is the reason
the process ended. An action that would fail an assertion of the code sets
`outcome` and nothing else.

A set that is allocated and never reached again is left out: the one every
`struct` node gets and a known tag replaces at once. `ast_node_new_goto_node`
has no return statement; a build in which the node survives in the return
register goes on (`GotoStatement`, `LabelStatement`), another one dies
(`GotoNodeLost`). In front of an empty statement, whose AST is NULL, a label is taken for a
goto: it is neither refused nor marked as placed (`LabelStatement` with `empty`).

An identifier may be used anywhere, as in a program: in a statement, and between the
declarators of a declaration or of a struct body, where it stands for an
initialiser or the size of an array. Two things then differ from C:

* In `int x = 1, y = x;` the second `x` is not the one declared in front of it, which is
  installed at the `;` only (`c.y:466-468`), but one of the scopes around, or an error.
* In a struct body a lookup stops at the body's own set (`scope.c:187`), and the members are
  not in it. `int x; struct s { int a[sizeof x]; };` is rejected. Only members of a tag
  that is being defined a second time are found. For the same reason a tag named in a body
  is never the one declared in front of it, but an incomplete one of the body's own,
  although `tests/ttests/struct1.out:51-52` has the member `p3` of `struct1.c:19` as a
  "pointer to struct str3 (defined at struct1.c:14)".

`UseBindsInnermost` says what the code does in both cases. A member that repeats a name
is dropped in silence (`DeclareMember`); a declaration that does is refused. A member's type is a scalar or a struct tag of the same body;
the check of a struct behind its anonymous declaration dereferences NULL
(`EndStructCrash`).

### Frame

Counted in words, because `gkcc_type_sizeof` makes every object a multiple of
`sizeof(int)`. While "translating", declarations and pseudoregisters take
offsets; the preamble reserves the space rounded up to 16 bytes; while
"running", the code stores into objects, pushes, calls and returns. A callee may
change its arguments and everything below. `Locals` promises that an object
holds what was last stored in it. The refinement mapping reads an object's words
at `-offset(%ebp)`.

### BasicBlocks

The recursion of `gkcc_internal_recurse_basic_blocks` visits statements from
left to right, so the model reads one token of the program per step and keeps
the open lists on a stack; `blocks` are the statuses with the quads of their
blocks. Then `gkcc_tx86_print_bb` prints depth first (its recursion is the
stack `todo`), then the printed code runs from its first instruction. Block
numbers are the code's. A statement, an expression, a loop's three expressions
and a return are events; conditions take either value. `Structured` says which
event follows which from the program text alone; its `did` is the last event,
and `BasicBlocks` implements it with the identity mapping. An execution may
stutter only finitely: `Structured` has weak fairness.

Bodies are compound statements. A body that is not a list (`if (c) return;`) is
read through a union as a list, which is undefined.

### Expressions

The body of a function: expression statements and a return. The translators
recurse into the left operand, then the right one, so the model reads one node
in postfix order per step and keeps the `gkcc_ir_translation_result`s that wait
for their operator in `operands`; `block` holds the quads of finished
statements. The return ends the translation, `PrintBlock` prints the block with
the load, lea, str rewrite, `Execute` runs what was printed. Registers carry
their type, because the translators decide by it what to scale and what to
load. Every pseudoregister has a word of its own (that is `Frame`'s theorem),
holding anything in `Stale` before it is written. The variables are an integer,
a pointer and arrays of one and two dimensions, with gaps between them.

`CExpression` says what the same text means in C, without quads: operands with
lvalues, and the cells each operand reads and writes so that what C leaves
undefined (overflow, division by zero, pointers out of their array, unsequenced
accesses) is recognised and left out. Calls are the subject of `Calls`. The
grammar accepts shifts, bitwise and logical operators, casts and `?:`, but
no translator exists for them and the compiler stops. `x != y` has no node of its own: the
parser makes it `!(x == y)` (`c.y:366`), which is in the model.

Some forms of expression are mistranslated. `KnownShapes` names them, and each is
left out unless a configuration puts it in `Shapes`:

| shape | example | what the code does |
|---|---|---|
| store after load | `x = *p` | the rewrite takes the load of the right operand for that of the target (`x86.c:149`) |
| update through pointer | `*p += 1` | adds to the loaded copy (`translators.c:367`) |
| pointer update | `p += 1` | is not scaled |
| value of store through pointer | `x = (*p = 1)` | reads the copy whose load the rewrite dropped |
| address of element | `&a[1]` | is the address of the loaded copy (`translators.c:593`) |
| mistyped operand | `(p - q) + 1`, `!p + 1`, `*&p` | the result keeps the type of its operand |
| sizeof expression | `sizeof(x = 1)` | evaluates the operand, or measures another type |
| statement after step | `x++; return x` | `x++` never stores the sum (`x86_inst.c:222`) |

### Calls

Bodies are sequences of assignments and calls, read in the order of the
translation: the last argument first, a call among the arguments where it stands.
`open` holds the calls being translated, `pushed` is `current_function_push_val`,
`code` is what is printed. After the last function the program runs: `memory` is a
stack of words, and an instruction moves `%esp` and `%ebp` over it the way the
processor does, through whatever the words hold. An external function may
overwrite its arguments and all below them; `received` is what it found. Frames
have the size the preamble gives them, with every temporary the translation
allocates, the unused ones of the argument lists included.

`Activations` knows no stack: an activation has a function, a position, arguments
and locals. The refinement mapping finds the frames along the saved `%ebp`,
reads where each goes on from the return address in the frame above it, and
takes locals and arguments from the words of the frame.

`CallBeforeArgument` says whether a call may be an argument with others behind it,
as in `f(g(), a)`. There the inner call pops the argument that was pushed
for the outer one (`x86.c:111`), and `ArgumentsArrive` fails when it is TRUE. The
value of a call is in `%eax` and is never stored (`translators.c:571`): what an outer
call gets for it is not compared.

### Lexer

An action is a rule of `c.lex`; `start` is the stack of start conditions, `yylval` the
one value all tokens share: its number overlays the bytes of its string. The text
is chosen as it is read. What C makes of it is kept apart from what the scanner
does: `literal` and `meaning` for tokens, `textFile` and `textLine` for the position.
When a token is delivered the parser's node is made of `yylval`. `PrintedString` and
`Assembled` are the way of a string through `misc.c` and the assembler. A character
that no rule of a literal matches stops the compiler, because the scanner has no
default rule (`Jam`).

| shape | example | what the code does |
|---|---|---|
| long long suffix | `1ll`, `0x1ull` | four rules do not set the type, so that a string may be what the parser sees; `1ll` is a long |
| wide constant | `4294967296` | keeps the type of the rule and loses the upper bits; a decimal `ul` is read as a signed long |
| escape out of range | `"\0101"`, `"\400"` | all digits are taken, and what is too large is 255 |
| empty constant | `''` | is accepted with a warning and has the byte an earlier token left in `yylval` (`c.lex:176`) |
| linemarker without name | `# 3` | the file name is whatever the last token left in `yylval` |
| octal byte | `"\001"` | printed as `\00`: the next character overwrites the last digit (`misc.c:132`) |
| digit behind zero | `"\0" "1"` in one literal | printed as `\01`, one byte |
| alert or vertical tab | `"\a"` | GNU as knows neither `\a` nor `\v` |

### Declarations

The productions of `declaration_specifiers` and `declarator`, one action each. A
`gkcc_type` chain is the sequence of its nodes. `open` holds the declarators being
read, `(` opens one; a declarator becomes a type when it ends
(`ast_node_direct_declarator_to_declarator`). When the declaration ends, the state
machine over the specifiers (`DataTypeStep`) makes the type that each declared
identifier gets. The reference is C's own reading of the same text: `Derivation`
goes from the identifier to the right and then to the left, `NamedType` counts
specifiers and knows no order.

| shape | example | what the code does |
|---|---|---|
| sign alone, no type | `unsigned x`, `const x` | the type stays unknown |
| int first | `int long x` | a conflict |
| int twice | `long int int x` | is accepted |
| long double | `long double x` | a conflict, though `tests/ttests/base.c:17` and `base.out:51` expect the type (`double long` works) |
| sign of another type | `unsigned double x` | is accepted |
| inline first | `inline int f()` | the specifier has no node: a crash |
| pointer returned | `int *f()` | the type is a pointer function returning int: the specifiers are put before the pointer |
| qualified inner star | `* * const x` | the last star is no list and nothing can be appended to it |

### TranslationUnits

`heap` holds the list nodes of `ast_node_append`, each with `next` and `end`; who has
a list has its first node. A list that is appended to another is copied item by
item. `top` is main's copy of the first node of the file, made anew after each
declaration. Then `gkcc_ir_build_full` goes through that copy, and the back end
prints the symbols and after them the functions. Statements and strings
are named by their position in the text, so that what is printed can be compared
with what was read.

| shape | example | what the code does |
|---|---|---|
| empty first item | `{ ; x; }`, `{ { } x; }` | makes a list node of NULL: a crash (`ast_constructors.c:230`) |
| empty function | `void f() { }` | its statements are NULL: it is taken for a prototype and never printed |
| tag only | `struct s { int x; };` at file scope | has no identifier: a crash (`ir_full.c:64`) |

## What the runs check

Passing runs:

* `scope_nested`: functions, `if`, `else`, statements that open no scope, declarations and
  struct bodies. `InnermostScope` (the current set is that of the innermost construct),
  `CompleteTagHasMembers`, `UseBindsInnermost`, `ExternAtFileScope`. Five sets, four
  symbols, nesting three, two names in a declaration or a struct:
  an if with else inside a function, two functions, a struct inside a struct, and a
  name declared in up to three scopes at once (a struct definition takes two sets).
* `scope_tags`: gotos, labels, and tags that may be referenced before their definition, which
  breaks `InnermostScope`. `FileScopeIsGlobal` still holds, and so do `LabelOfThisFunction`
  and `LabelTwiceIsInOneFunction` (a label is refused as a second one only
  where its own function has it already); `UniqueNames` does not depend on the nesting.
  Three symbols are two functions and a label of the first one, which the second one then
  looks for, a function with both labels, or a tag, its member and a function.
* `frame_scalars`: four objects, so that the space passes a multiple of 16 bytes
  and the rounding adds both one word and four.
* `blocks_meaning`: every program of at most seven tokens that ends in a
  return: two nested loops with a break or continue, if/else in a loop, code
  after a break. `ImplementsStructured` includes that the code does not stop.
* `blocks_printed`: also programs without a return, and `do` loops.
* `expressions`: every function of up to six nodes over all operators that have
  translators. `ValueIsMeaning`, `StoresAreMeaning`, `ReadAfterWrite`. Six nodes reach
  a store through a pointer followed by a use of what it changed, scaled pointers on
  both sides, elements of the two-dimensional array and two statements; the
  pointer starts at the integer or at an array.

* `calls`: every program of a main function and another one with five tokens
  (assignments, calls, arguments): calls with two arguments, a call as the last
  argument of a call, a function that calls itself until the stack is used
  up, and returns to a caller that goes on. `ArgumentsArrive`, `StackBalanced`,
  `ImplementsActivations`, `ProgramStops`. The stack of 26 words takes two or three frames.
* `lexer`: literals of up to three characters and file names of one, of plain
  characters, simple, octal and hexadecimal escapes; two identifiers, all suffixes at
  the boundary values of four-bit ints and eight-bit longs; lines 1 and 2.
  `TokensMeanText`, `PositionOfText`, `StringsSurvive` without the shapes. Nothing is remembered over more than
  one token except `yylval`, the file and the line, so all pairs of tokens occur.
* `declarations`: eight kinds of specifiers, seven tokens, two declarators: all lists
  of up to six specifiers with an identifier, all declarators of up to six tokens
  with a specifier. `DeclaredTypeIsC`, `LegalIsAccepted`, `AcceptedIsLegal`.
* `units`: every file of up to seven declarations and statements. `EndIsLast`, `TopIsWhole`,
  `EmittedInOrder`. Seven tokens reach two functions with strings between
  variables, a block in a block followed by a statement, and comma lists that are
  appended to lists. Twenty list nodes are enough for all of them.

Runs that find the code at odds with its own comments (each checks one property,
see "findings" in `PROJECT.json`): `frame_arrays`, `collapsed_store`.

Constructs a run leaves out are those its property does not survive:

* `while` enters a scope (`c.y:950`) that nothing exits, so the next function
  stands inside the last one: with `while`, `InnermostScope` fails, and so does
  `LabelTwiceIsInOneFunction` (in `scope_tags`), because a label of the next function
  is refused as a second one of the first.
* A tag first named at file scope and defined inside a function moves the parser out
  of the function, so that the next label finds no function scope; a tag
  referenced before its definition keeps the type of the reference, so that it is
  marked complete but has no members. With `tagref` in `scope_nested` `InnermostScope`
  and `CompleteTagHasMembers` fail.
* A goto before its label installs a symbol that the labelled statement does not mark
  as defined (`scope_helpers.c:131`), so the label may be placed again. This is in
  the model; no property promises the opposite.
* A nested compound statement opens no scope, although `tests/ttests/scope1.out`
  (lines 10-15) shows a variable of one "in block scope". In the model it is a
  `plain` statement: what it declares belongs to the scope around it.
* A tag declared inside a struct body hangs in the struct's own set and is not found
  after it, although `tests/ttests/struct1.out` (lines 31-33) expects it to be.
* Arrays break `StoresItsLocals` (`frame_arrays`).
* `do` is translated like `while`: the condition comes first (`basic_block.c:34` never
  reads `is_do_while`), so that `ImplementsStructured` fails. So it does without a
  return: the code has no end, and control runs on into what is printed next.
* A global with an initialiser is a `.comm` like any other: the value is dropped.
* Of `Expressions`, `Lexer`, `Declarations` and `TranslationUnits` the shapes above.

Bounds: `MaxSets`, `MaxSymbols`, `MaxNesting`, `MaxNames` (Scope), `MaxObjects`, `Depth`,
`Height` (Frame), `MaxTokens` (BasicBlocks, Calls, Declarations, TranslationUnits),
`MaxNodes` and `Bits` (Expressions: eight bits keep every intermediate value of small
constants apart, and overflow is undefined in C), `MaxArgs` and `Depth` (Calls), `MaxLength`,
`MaxName`, `MaxLine` and the number of values of each type (Lexer), `MaxDeclarators`
(Declarations), `MaxNodes` (TranslationUnits). Names and stored values are
interchangeable and declared symmetric where only invariants and step
properties are checked. Deadlock checking is off everywhere: a process that
ended, a program at its bound and a function that returned do stop.

Fairness: `BasicBlocks` and `Structured` have weak fairness of a step, `Calls` of a step
of the running program. The compiler and the code it emits are sequential:
nothing is ever waited for, so the next instruction is executed. Reading more of
the program is never required.

Each checked property has a mutant, an operator marked `Mutant` before the
definition it would replace: a plausible mistake in that piece of code that
breaks the property.

## What is proved

`ScopeProofs` proves `Spec => []TypeOK` for
every set of names, every set of constructs and all bounds. The types alone
are not inductive: `current' = Parent(current)` needs that chains are made of
sets that exist and end at the global one (`ChainsOK`), a lookup needs that
owners exist (`OwnersOK`), labels belong to function sets, and moving into a tag's set needs that tags on the
parser's stack and in the tables have sets (`TagsOK`). `IndInv` is their
conjunction. There is one lemma per action. Sets and symbols are only ever
appended or completed in place, so most of them follow from a few lemmas on
growth. `OrderLemmas` gives the least and greatest element of a set of numbers,
natural induction over a set, and sequences as functions, without the library's
induction principles; the other proof modules use it too.

It proves `UniqueNames` for all constructs as well. That needs to know which
set a lookup ends in: a label's function is found along the chain, a tag's set
hangs below the set the tag is in, and a struct body's parent is the body around
it. `NestInv` says so: chains climb to older sets, functions and blocks never hang
below a struct, inside a struct body the current set is the body's, and only
structs nest in structs.

The other properties of `Scope` are proved each under the weakest condition on
the constructs that the code leaves it:

* `CompleteTagHasMembers` without `tagref`. A tag is incomplete only while its
  definition is open (`TagInv`), because nothing but a definition makes one then.
* `FileScopeIsGlobal` without `while`. With early tags the current set is not
  where the open constructs say, so the invariant measures depth instead: every parent
  link climbs one level, and the current set is at most one level deeper than
  the number of constructs that entered a scope (`DepthInv`). `EXIT_SCOPE` climbs one
  level for each, so that after the last one either the global set is reached or the
  assertion has failed on the way.
* `LabelOfThisFunction` and `LabelTwiceIsInOneFunction` without `while`. With early
  tags the current set may hang too high, but the only function set its parent links
  can lead to is that of the function being read (`HomeInv`). `LabelsPlaced`
  ties the symbols that are marked as placed to `placed`.
* `InnermostScope`, `UseBindsInnermost` and `ExternAtFileScope` without either. `ScopesOK`
  says that every open construct was entered from the set of the one around it and
  that its set hangs below that one. A lookup then visits exactly the sets of the
  open constructs, innermost first.

No condition is there for the sake of the proof: with the construct that is
left out TLC finds the property violated (see "What the runs check").

`BasicBlocksProofs` proves `TypeOK`, `JumpTargetsPrinted` and `OneWayOut`
of `BasicBlocks` for programs of any length and any nesting. What is printed follows
from the status fields, and these are inherited from list to list, so the
invariant is about the blocks while they are built: they are numbered from the
outside to the inside (`ListsOK`); a block that can still get quads is open, every other
one has its two branches and ends in its jumps (`BlocksOK`); outside loops a block goes on
to the next block of the innermost list (`StatusesOK`), and the code there is
reachable, that is, in every set that has the first block and all successors
of its members (`ReachedOK`). The printer keeps that every branch of a printed block is
printed or waiting (`PrintedOK`). `OneWayOut` is where they meet: the block the body
ends in is the only open one left, and the printer reaches it.

`FrameProofs` proves for scalar objects (`Lengths \subseteq {1}`) and any number of
objects, values and any depth that the frame is well formed, that the caller's
words are never written, that objects lie in the reserved space, and that `Frame`
implements `Locals` (`Implements`). The inductive invariant says that the
object of index i is at offset i and that `%esp` with the pushed words taken
back is at the reserved space.

`LexerProofs` proves all four invariants of `Lexer` for
literals and file names of any length, every set of names and numbers and all
widths of the integer types with a `long` wider than `int`. For `PositionOfText` and `TokensMeanText` the text has none of
the first five shapes of the table. Neither is inductive: what a token means
depends on what `yylval` held when its literal began and on nothing having
written to it since. `IndInv` adds that `yylval` is the text read so far (`Literal`)
while a literal is read, and from the end of a file name to the end of its
linemarker, because the name reaches the file position through `yylval` only
then; and that elsewhere the file is the text's (`File`). One lemma per rule; the rules for
characters meet in `CharactersKeep`, those of identifiers and numbers in `TokenKeeps`.

`TypeOK` and `StringsSurvive` follow from a weaker invariant that holds in all texts, those
with the misread shapes included: `TextInv` says what a string token consists of
(`Delivered`), not that it is the right one. The rest of `StringsSurvive` is about what the
printer writes and the assembler reads. The printed string is laid out byte after byte
(`Laid`, from the fold taken apart in `WriteSteps`); the assembler's reading is a recursive
function of the position that looks ahead, and is unfolded from the end of the text
(`AssembledSteps`). Each byte is read back where it was laid (`ByteRead`): a zero byte takes
one digit because no digit follows, and no other byte begins an octal escape. The three
shapes that the theorem excludes are the ones `StringForms` names, and they are the only ones.

`CallsProofs` proves `TypeOK`, `StackBalanced` and `ArgumentsArrive` of `Calls` for any
number of functions and locals, calls nested to any depth and a stack of any
size. The properties are about instructions that execute, and what these do to the
stack depends on how the translation laid them out, so the invariant has two halves.
`TranslationInv` is about the code, from its first instruction on: every call
stands behind a run of pushes, as many as the `addl` behind it pops (`CallOK`),
nothing else separates the two, and every open call but the innermost one still
lacks its first argument. `RunInv` and `StackInv` are about the stack: `%esp` is below
the frame by exactly the pushes in front of the next instruction (`Height`), the words there
are what was pushed (`Held`), and following the saved `%ebp` leads through the frames
of all activations to that of `main` (`Chain`), each of which is resumed at an
`addl` that pops the arguments of its call. Behind a call the words are no
longer known, because the callee may have changed them, but their number is.
An external call may overwrite as many words as it has arguments, and these can be
more than were pushed for it. That it still does not reach a saved `%ebp` follows from
the temporaries: an argument list allocates at least one for each argument (`Small`).
The first two theorems need no condition on the calls. `ArgumentsArrive` has the
hypothesis that no call is an argument with others behind it; with one, TLC
finds it violated.

Under the same hypothesis the module proves the refinement: `Calls` implements
`Activations` (`CallsMeanWhatCSays`), for any program, any number of functions and
locals and a stack of any size. The mapping follows the saved `%ebp` through the
stack, so the proof has to show that an activation is what its words say, and that
nobody else writes them. Three invariants join the ones above:

* `ReadInv` relates the code to the source while both grow: the calls and
  assignments of a function, taken from its printed code, are the operations that were
  read, in their order, with the arguments still in `open` accounted for
  (`OperationsAre`). So an instruction pointer is a position in the source.
* `ReturnInv`: a return is the last instruction of its function, and nothing else is,
  so that control never runs on into the next function.
* `Seen`: the words a local or an argument is read from hold stored values or
  garbage, never an address.

Then each instruction is a step of the last activation or a stutter: a push and
the `addl` change no activation (`OlderKept`), an assignment changes one word of the
last one, a call adds an activation whose arguments are the words just pushed,
a return drops it, and all older frames keep their words (`Same`), an external call's
overwriting included. The mapping is defined by recursive functions over the stack;
`NatInduct` unfolds them.

`TranslationUnitsProofs` proves `TypeOK`, `EndIsLast` and `TopIsWhole` of
`TranslationUnits` for files of any length, blocks nested to any depth, all shapes and any
number of list nodes, and `EmittedInOrder` without the shapes. Its first half is about
`ast_node_append` alone: the heap splits into
disjoint lists, each owned by its first node (`own`), `next` leads to younger nodes of the
same list, and the first node's `end` is the one without a `next` (`HeapOK`). From that a
chain ends, an append puts the given items behind the list it is given and
leaves all other lists alone (`AstAppendKeeps`), and a list made of nodes holds these
(`ListOfKeeps`). `ListInv` adds what the parser does with them. Who
has a list has its first node, and no list has two owners (`Rooted`): the file, the
open blocks and the functions share nothing. What the lists say is what was
read (`TextIs`): the file the finished declarations with the functions' bodies, the
open blocks, from the outside in, the body of the open function. `TopIsWhole` alone is
not inductive, because it says nothing inside a function.

`EmittedInOrder` says something about the end only, so `EmitInv` says for each phase what is
missing to the end. While the file is read, every function that was read to its end has
statements (`Made`). While it is built, `ir` says what the declarations before the
next one do (`Built`): the symbols are the variables and strings so far, a label
below the next one is defined at most once, and the k-th function has block k - 1 and
labels that are defined. A string added later takes a new label and redefines nothing
(`SymbolAdded`). While it is printed, `output` followed by the lines that `ir` still holds
(`Emits`) is complete at every step (`Printing`), because no function that is left has
a block that was printed. `OfKindsConcat`, `IdsConcat` and `FlattenConcat` let each
of the three be built up one element at a time.

`DeclarationsProofs` proves all four properties of `Declarations` for lists of specifiers of
any length, declarators nested to any depth and any number of declarators. Two arguments
meet in them:

* The specifiers. The state machine reads the list from left to right, C counts. For
  each state of the machine `Accepts` says what was counted when it is reached, and
  `Clash` and `BadOrder` what was in the list when it is stuck (`Machine`). So a type that
  was made is the one C counts, and a conflict is either no type of C or one
  of the orders the machine does not know.
* The declarators. The grammar reduces from the inside to the outside, and C
  reads from the identifier: to say what a declarator that is not finished means, one has to
  know what comes after it. `OpenInv` says it for all that may come: whatever tokens
  follow, the reading from the identifier begins with the nodes the innermost declarator has
  so far and goes on to the left of its own stars (`ReadOn`); the stars of each open
  declarator are in front of its parenthesis (`StarsEndAt`). A suffix takes one step of that
  reading, a parenthesis takes one per star and two for the pair. The reading is
  a recursive function of two positions; that it exists at all is proved by `NatInduct` over
  the tokens that are left.

`DeclaredInv` puts the two together: while declarators are read, their types are what C
reads; at the end each has the type of the specifiers behind it. `Refused` says why
a declaration was given up. Each property is proved without just those forms of the table
that break it, the other forms stay allowed: `DeclaredTypeIsC` without "sign alone" and "pointer
returned", `AcceptedIsLegal` without "int twice", "no type" and "sign of another type",
`LegalIsAccepted` without "int first", "long double", "inline first" and "qualified inner star",
and `TypeOK` with all of them.

Assumptions: the named `ASSUME`s on the constants, which the runs evaluate;
in `ScopeProofs` the absence of `while` and `tagref` as above; in `FrameProofs` that
objects are scalars (the run `frame_arrays` shows that the theorem fails without it); in `LexerProofs` that the text has none of the first five
shapes of the table above (`Conventional`), each of which breaks one of the
invariants, in `PositionsAreText` and `TokensAreText`, and none of the other three in `StringsAreKept`; in `LinesAreTheFile` that `Shapes` is empty, because each shape of its table crashes
the compiler or loses a function; in three theorems of `DeclarationsProofs` that some forms are
left out, as above. `TextAssumption` says that the digits of escapes denote numbers,
because `Numeral` is a fold; in `ArgumentsAreOnTop` and `CallsMeanWhatCSays` of `CallsProofs` that
`CallBeforeArgument` is FALSE, without which the arguments are the wrong ones.

Only model-checked: that `BasicBlocks` implements `Structured`, and everything about `Expressions`. `ImplementsStructured` contains liveness, and
`ProgramStops` is liveness: these are out of the prover's reach. Recursive functions and folds
are not: their defining equation is proved by `NatInduct` where it is needed
(`ChainEquation`, `FlattenSteps`, `FoldListOf` in `TranslationUnitsProofs`, the reading of a
declarator in `DeclarationsProofs`, `WriteSteps` and `AssembledSteps` in `LexerProofs`), one
operator at a time, because the library's induction theorems take an operator as a parameter.
What a numeral of several digits is worth is not proved: `TextAssumption` says that it is a
number, and nothing depends on which.

## Plan

1. Done: `Scope`, `Frame` and `Lexer` with their proofs, `BasicBlocks`, `Expressions`, `Calls`,
   `Declarations`, `TranslationUnits`.
2. Done: the proofs of all properties of `Scope`, `Frame`, `Lexer`, `Declarations`, `TranslationUnits` and,
   but for liveness, `Calls`; of all of `BasicBlocks` but the refinement. Next: the safety
   part of the refinement of `Structured`; `ReadAfterWrite` of `Expressions`,
   whose rewrite becomes a step per quad first.
3. Expressions with calls in them, on the frame of `Calls`.

## Not modelled

Printing of ASTs and IR, option parsing, the token and parser test drivers,
third-party code (`3rdparty`, `generated`). Enumerations, `switch`, initialisers and
parameters are parsed and nothing is translated from them. Undefined behaviour
of the compiler (an overrun of the string buffer, a statement body that is not
a list) is left out, the missing return of `ast_node_new_goto_node` excepted.
