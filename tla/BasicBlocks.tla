---------------------------- MODULE BasicBlocks ----------------------------
(***************************************************************************)
(* Control flow from the AST to the emitted code, for one function:        *)
(*                                                                         *)
(*   "build"  gkcc_internal_recurse_basic_blocks turns the statement lists *)
(*            into basic blocks (src/src/ir/basic_block.c);                *)
(*   "print"  gkcc_tx86_print_bb prints the blocks, depth first            *)
(*            (src/src/target_code/x86.c);                                 *)
(*   "run"    the printed code executes.                                   *)
(*                                                                         *)
(* The recursion visits the statements from left to right, so the model    *)
(* reads the program one token at a time and keeps the open lists on a     *)
(* stack.  Statement bodies are compound statements; a nested compound     *)
(* statement is spliced into the list around it (ast.c:361-395).           *)
(***************************************************************************)
EXTENDS Naturals, Sequences, FiniteSets, Functions

CONSTANTS
  LoopKinds,   \* the loops the program uses: "for", "forever" and "do"
  MustReturn,  \* whether the function ends in a return statement
  MaxTokens    \* bound on the length of the program

ASSUME LoopKindsAssumption == LoopKinds \subseteq {"for", "forever", "do"}
ASSUME BoundsAssumption == MustReturn \in BOOLEAN /\ MaxTokens \in Nat

VARIABLES
  program,  \* the tokens read so far
  blocks,   \* the basic blocks, with their gkcc_basic_block_status
  current,  \* the block statements go to, 0 after a break or continue
  lists,    \* the statement lists being read, innermost last
  phase,    \* "build", "print", "run" or "over"
  todo,     \* the calls of gkcc_tx86_print_bb to come, the next one first
  layout,   \* the blocks in the order they were printed
  pc,       \* the printed block and the instruction in it
  flag,     \* the value of the last condition evaluated
  did       \* the last event

vars == <<program, blocks, current, lists, phase, todo, layout, pc, flag, did>>

Meaning == INSTANCE Structured
Event(kind, at, value) == Meaning!Event(kind, at, value)

NoBlock == 0

-----------------------------------------------------------------------------
\* An instruction: an event, or a jump to a block.
Op(kind, at) == [kind |-> kind, at |-> at]
Jumps == {"jump", "jump if true", "jump if false"}

\* A block's quads, and where its status leads.
BasicBlock(ops, continueBB, breakBB, trueBB, falseBB) ==
  [ops |-> ops, continueBB |-> continueBB, breakBB |-> breakBB,
   trueBB |-> trueBB, falseBB |-> falseBB]

\* gkcc_basic_block_status_new.
Block(continueBB, breakBB, trueBB, falseBB) ==
  BasicBlock(<<>>, continueBB, breakBB, trueBB, falseBB)

With(block, ops) ==
  BasicBlock(block.ops \o ops, block.continueBB, block.breakBB, block.trueBB, block.falseBB)

\* Mutant: a block with nowhere to go jumps.
BranchAlways(t, f) ==
  IF t = f THEN <<Op("jump", t)>>
           ELSE <<Op("jump if true", t), Op("jump if false", f)>>

Branch(t, f) ==
  IF t = NoBlock THEN <<>>
  ELSE IF t = f THEN <<Op("jump", t)>>
                ELSE <<Op("jump if true", t), Op("jump if false", f)>>

\* CLEANUP_AND_RETURN: the block branches to t and f.
Closed(block, t, f) ==
  BasicBlock(block.ops \o Branch(t, f), block.continueBB, block.breakBB, t, f)

ClosedAsIs(block) == Closed(block, block.trueBB, block.falseBB)

Position == Len(program) + 1
Innermost == lists[Len(lists)]
Outer == SubSeq(lists, 1, Len(lists) - 1)

\* A statement list being read: the construct it belongs to and the blocks that
\* follow.
List(kind, next, else) == [kind |-> kind, next |-> next, else |-> else]

\* Room for the tokens that close what is open.
Room(n) == Len(program) + Len(lists) + n <= MaxTokens

Building == phase = "build"
KeepRunning == UNCHANGED <<todo, layout, pc, flag>>

-----------------------------------------------------------------------------
\* An expression or a declaration goes to the current block, if there is one:
\* the rest of a list after a break or continue is never looked at.
Statement ==
  /\ Building /\ Room(2)
  /\ program' = Append(program, "stmt")
  /\ blocks' = IF current = NoBlock THEN blocks
               ELSE [blocks EXCEPT ![current] = With(@, <<Op("stmt", Position)>>)]
  /\ UNCHANGED <<current, lists, phase, did>> /\ KeepRunning

\* A return goes to the current block and does not end it.
ReturnStatement ==
  /\ Building /\ current # NoBlock /\ Room(1)
  /\ program' = Append(program, "return")
  /\ blocks' = [blocks EXCEPT ![current] = With(@, <<Op("returned", Position)>>)]
  /\ UNCHANGED <<current, lists, phase, did>> /\ KeepRunning

BeginIf ==
  LET this == blocks[current]
      next == Len(blocks) + 1
      else == Len(blocks) + 2
      then == Len(blocks) + 3
      cond == Len(blocks) + 4
  IN  /\ Building /\ current # NoBlock /\ Room(3)
      /\ program' = Append(program, "if")
      /\ blocks' = [blocks EXCEPT ![current] = Closed(@, cond, cond)] \o
           <<Block(this.continueBB, this.breakBB, this.trueBB, this.falseBB),
             Block(this.continueBB, this.breakBB, next, next),
             Block(this.continueBB, this.breakBB, next, next),
             ClosedAsIs(With(Block(NoBlock, NoBlock, then, else),
                             <<Op("cond", Position)>>))>>
      /\ lists' = Append(lists, List("then", next, else))
      /\ current' = then
      /\ UNCHANGED <<phase, did>> /\ KeepRunning

\* The initial, controlling and iteration expressions are constants where the
\* program has none; a do loop has the second only.
BeginLoop(kind) ==
  LET this == blocks[current]
      next == Len(blocks) + 1
      body == Len(blocks) + 2
      cond == Len(blocks) + 3
      iter == Len(blocks) + 4
      init == Len(blocks) + 5
      Expr(name) == IF kind = "do" /\ name # "cond" THEN <<>>
                                                    ELSE <<Op(name, Position)>>
  IN  /\ Building /\ current # NoBlock /\ Room(3)
      /\ program' = Append(program, kind)
      /\ blocks' = [blocks EXCEPT ![current] = Closed(@, init, init)] \o
           <<Block(this.continueBB, this.breakBB, this.trueBB, this.falseBB),
             Block(iter, next, iter, iter),
             ClosedAsIs(With(Block(NoBlock, NoBlock, body, next), Expr("cond"))),
             ClosedAsIs(With(Block(NoBlock, NoBlock, cond, cond), Expr("iter"))),
             ClosedAsIs(With(Block(NoBlock, NoBlock, cond, cond), Expr("init")))>>
      /\ lists' = Append(lists, List("loop", next, NoBlock))
      /\ current' = body
      /\ UNCHANGED <<phase, did>> /\ KeepRunning

\* The rest of the list is never looked at.
Break ==
  LET target == blocks[current].breakBB
  IN  /\ Building /\ current # NoBlock /\ target # NoBlock /\ Room(1)
      /\ program' = Append(program, "break")
      /\ blocks' = [blocks EXCEPT ![current] = Closed(@, target, target)]
      /\ current' = NoBlock
      /\ UNCHANGED <<lists, phase, did>> /\ KeepRunning

\* Mutant: continue skips the iteration expression.
ContinueToCondition ==
  LET iter == blocks[current].continueBB
      target == blocks[iter].trueBB
  IN  /\ Building /\ current # NoBlock /\ iter # NoBlock /\ Room(1)
      /\ program' = Append(program, "continue")
      /\ blocks' = [blocks EXCEPT ![current] = Closed(@, target, target)]
      /\ current' = NoBlock
      /\ UNCHANGED <<lists, phase, did>> /\ KeepRunning

Continue ==
  LET target == blocks[current].continueBB
  IN  /\ Building /\ current # NoBlock /\ target # NoBlock /\ Room(1)
      /\ program' = Append(program, "continue")
      /\ blocks' = [blocks EXCEPT ![current] = Closed(@, target, target)]
      /\ current' = NoBlock
      /\ UNCHANGED <<lists, phase, did>> /\ KeepRunning

\* The assertion on a break or a continue with nowhere to go ends the compiler.
Stray ==
  /\ Building /\ current # NoBlock
  /\ \/ blocks[current].breakBB = NoBlock
     \/ blocks[current].continueBB = NoBlock
  /\ phase' = "over"
  /\ did' = Meaning!Rejected
  /\ UNCHANGED <<program, blocks, current, lists>> /\ KeepRunning

\* The blocks once the current list has ended.
Ended == IF current = NoBlock THEN blocks
         ELSE [blocks EXCEPT ![current] = ClosedAsIs(@)]

BeginElse ==
  /\ Building /\ lists # <<>> /\ Innermost.kind = "then" /\ Room(1)
  /\ program' = Append(program, "else")
  /\ blocks' = Ended
  /\ lists' = Append(Outer, List("else", Innermost.next, Innermost.else))
  /\ current' = Innermost.else
  /\ UNCHANGED <<phase, did>> /\ KeepRunning

\* Mutant: the missing else block is left as it is.
EndConstructOpen ==
  /\ Building /\ lists # <<>>
  /\ program' = Append(program, "end")
  /\ blocks' = Ended
  /\ lists' = Outer
  /\ current' = Innermost.next
  /\ UNCHANGED <<phase, did>> /\ KeepRunning

\* The rest of the list around a construct goes to its next block.  An if
\* without else has an else block all the same.
EndConstruct ==
  /\ Building /\ lists # <<>>
  /\ program' = Append(program, "end")
  /\ blocks' = IF Innermost.kind = "then"
               THEN [Ended EXCEPT ![Innermost.else] = ClosedAsIs(@)]
               ELSE Ended
  /\ lists' = Outer
  /\ current' = Innermost.next
  /\ UNCHANGED <<phase, did>> /\ KeepRunning

EndFunction ==
  /\ Building /\ lists = <<>>
  /\ MustReturn => program # <<>> /\ program[Len(program)] = "return"
  /\ blocks' = Ended
  /\ phase' = "print"
  /\ todo' = <<1>>
  /\ UNCHANGED <<program, current, lists, layout, pc, flag, did>>

-----------------------------------------------------------------------------
Printed(b) == \E i \in DOMAIN layout : layout[i] = b

\* Mutant: the false branch is not followed.
PrintTrueBranch ==
  LET b == Head(todo)
  IN  /\ phase = "print" /\ todo # <<>>
      /\ IF b = NoBlock \/ Printed(b)
         THEN todo' = Tail(todo) /\ UNCHANGED layout
         ELSE /\ layout' = Append(layout, b)
              /\ todo' = <<blocks[b].trueBB>> \o Tail(todo)
      /\ UNCHANGED <<program, blocks, current, lists, phase, pc, flag, did>>

PrintBB ==
  LET b == Head(todo)
  IN  /\ phase = "print" /\ todo # <<>>
      /\ IF b = NoBlock \/ Printed(b)
         THEN todo' = Tail(todo) /\ UNCHANGED layout
         ELSE /\ layout' = Append(layout, b)
              /\ todo' = <<blocks[b].trueBB, blocks[b].falseBB>> \o Tail(todo)
      /\ UNCHANGED <<program, blocks, current, lists, phase, pc, flag, did>>

CallFunction ==
  /\ phase = "print" /\ todo = <<>>
  /\ phase' = "run"
  /\ pc' = <<1, 1>>
  /\ UNCHANGED <<program, blocks, current, lists, todo, layout, flag, did>>

-----------------------------------------------------------------------------
Code == blocks[layout[pc[1]]].ops
Instruction == Code[pc[2]]
Label(b) == <<CHOOSE i \in DOMAIN layout : layout[i] = b, 1>>
Following == <<pc[1], pc[2] + 1>>
Running == phase = "run" /\ pc[1] <= Len(layout)
KeepCode == UNCHANGED <<program, blocks, current, lists, todo, layout>>

\* A statement or an expression.
Compute ==
  /\ Running /\ pc[2] <= Len(Code)
  /\ Instruction.kind \notin Jumps \cup {"returned"}
  /\ \E value \in Meaning!Outcomes(program, Instruction.kind, Instruction.at) :
       /\ did' = Event(Instruction.kind, Instruction.at, value)
       /\ flag' = IF Instruction.kind = "cond" THEN value ELSE flag
  /\ pc' = Following
  /\ UNCHANGED phase /\ KeepCode

LeaveAndRet ==
  /\ Running /\ pc[2] <= Len(Code)
  /\ Instruction.kind = "returned"
  /\ did' = Event("returned", Instruction.at, TRUE)
  /\ phase' = "over"
  /\ UNCHANGED <<pc, flag>> /\ KeepCode

Jump ==
  /\ Running /\ pc[2] <= Len(Code)
  /\ Instruction.kind \in Jumps
  /\ pc' = IF \/ Instruction.kind = "jump"
              \/ Instruction.kind = "jump if true" /\ flag
              \/ Instruction.kind = "jump if false" /\ ~flag
           THEN Label(Instruction.at)
           ELSE Following
  /\ UNCHANGED <<phase, flag, did>> /\ KeepCode

\* Nothing separates a block from the one printed after it.
FallThrough ==
  /\ Running /\ pc[2] > Len(Code)
  /\ pc' = <<pc[1] + 1, 1>>
  /\ UNCHANGED <<phase, flag, did>> /\ KeepCode

FallOff ==
  /\ phase = "run" /\ pc[1] > Len(layout)
  /\ did' = Event("fell off", 0, TRUE)
  /\ phase' = "over"
  /\ UNCHANGED <<pc, flag>> /\ KeepCode

-----------------------------------------------------------------------------
Init ==
  /\ program = <<>>
  /\ blocks = <<Block(NoBlock, NoBlock, NoBlock, NoBlock)>>
  /\ current = 1
  /\ lists = <<>>
  /\ phase = "build"
  /\ todo = <<>>
  /\ layout = <<>>
  /\ pc = <<1, 1>>
  /\ flag = TRUE
  /\ did = Meaning!Start

Build ==
  \/ Statement
  \/ ReturnStatement
  \/ BeginIf
  \/ \E kind \in LoopKinds : BeginLoop(kind)
  \/ Break
  \/ Continue
  \/ Stray
  \/ BeginElse
  \/ EndConstruct
  \/ EndFunction

Run == Compute \/ LeaveAndRet \/ Jump \/ FallThrough \/ FallOff

Next == Build \/ PrintBB \/ CallFunction \/ Run

Spec == Init /\ [][Next]_vars /\ WF_vars(Next)

-----------------------------------------------------------------------------
BlockNumbers == NoBlock..Len(blocks)

OpType == [kind : {"stmt", "returned", "cond", "init", "iter"}, at : 1..MaxTokens]
          \cup [kind : Jumps, at : 1..Len(blocks)]

TypeOK ==
  /\ program \in Seq(Meaning!Tokens) /\ Len(program) <= MaxTokens
  /\ \A b \in 1..Len(blocks) :
       /\ \A i \in DOMAIN blocks[b].ops : blocks[b].ops[i] \in OpType
       /\ {blocks[b].continueBB, blocks[b].breakBB,
           blocks[b].trueBB, blocks[b].falseBB} \subseteq BlockNumbers
  /\ current \in BlockNumbers
  /\ lists \in Seq([kind : {"then", "else", "loop"}, next : BlockNumbers,
                     else : BlockNumbers])
  /\ phase \in {"build", "print", "run", "over"}
  /\ todo \in Seq(BlockNumbers)
  /\ layout \in Seq(1..Len(blocks))
  /\ pc \in Nat \X Nat
  /\ flag \in BOOLEAN
  /\ did.at \in 0..MaxTokens /\ did.value \in BOOLEAN

\* Every block a printed jump names is printed, so the assembler finds its
\* label, although blocks are only reached through true_branch and false_branch.
JumpTargetsPrinted ==
  phase = "run" =>
    \A i \in DOMAIN layout : \A op \in Range(blocks[layout[i]].ops) :
      op.kind \in Jumps => Printed(op.at)

\* Of the printed blocks only the one the body ends in is left without a jump:
\* every other one got its branches from the construct it belongs to.
OneWayOut ==
  phase = "run" =>
    {b \in Range(layout) :
       LET ops == blocks[b].ops
       IN  ops = <<>> \/ ops[Len(ops)].kind \notin Jumps} = {current}

\* The printed code does what the program means, event for event, and does not
\* stop doing so: the statuses handed down to nested lists, the jumps that
\* close a block and the order of printing give C's order of execution.
ImplementsStructured == Meaning!Spec
=============================================================================
