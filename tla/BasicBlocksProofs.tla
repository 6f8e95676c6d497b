------------------------- MODULE BasicBlocksProofs -------------------------
(***************************************************************************)
(* Theorems about BasicBlocks, for programs of every length and all kinds  *)
(* of loops.                                                               *)
(***************************************************************************)
EXTENDS BasicBlocks, OrderLemmas, SequenceTheorems, TLAPS

-----------------------------------------------------------------------------
(* One block of n.                                                          *)
EventKinds == {"stmt", "returned", "cond", "init", "iter"}
AnyOp == [kind : EventKinds \cup Jumps, at : Nat]
AnyBlock == [ops : Seq(AnyOp), continueBB : Nat, breakBB : Nat, trueBB : Nat, falseBB : Nat]

\* Its jumps lead where its status does.
OpOK(op, x, n) ==
  IF op.kind \in Jumps THEN op.at \in 1..n /\ op.at \in {x.trueBB, x.falseBB}
                       ELSE op.at \in 1..MaxTokens

BlockOK(x, n) ==
  /\ x \in AnyBlock
  /\ x.continueBB <= n /\ x.breakBB <= n /\ x.trueBB <= n /\ x.falseBB <= n
  /\ x.trueBB = NoBlock <=> x.falseBB = NoBlock
  /\ \A i \in 1..Len(x.ops) : OpOK(x.ops[i], x, n)

\* It can still get quads, or it has its jumps.
NoJumps(x) == \A i \in 1..Len(x.ops) : x.ops[i].kind \notin Jumps
Open(x) == x.trueBB = x.falseBB /\ NoJumps(x)
Finished(x) ==
  /\ x.trueBB # NoBlock
  /\ x.ops # <<>> /\ x.ops[Len(x.ops)].kind \in Jumps

-----------------------------------------------------------------------------
(* The inductive invariant.                                                 *)
AnyList == [kind : {"then", "else", "loop"}, next : Nat, else : Nat]

\* The last block of a list's construct that was made before the list.
LastOf(list) == IF list.kind = "then" THEN list.else ELSE list.next

\* Blocks are numbered from the outside to the inside.
ListsOK ==
  /\ lists \in Seq(AnyList)
  /\ \A k \in 1..Len(lists) :
       /\ lists[k].next \in 1..Len(blocks)
       /\ lists[k].else \in 0..Len(blocks)
       /\ lists[k].kind = "then" => lists[k].next < lists[k].else
  /\ \A j, k \in 1..Len(lists) : j < k => LastOf(lists[j]) < lists[k].next
  /\ current \in 0..Len(blocks)
  /\ current # NoBlock => \A k \in 1..Len(lists) : LastOf(lists[k]) < current

\* The blocks that are still to be filled.
Unfinished(b) ==
  \/ b = current
  \/ \E k \in 1..Len(lists) : \/ b = lists[k].next
                              \/ lists[k].kind = "then" /\ b = lists[k].else

BlocksOK ==
  /\ blocks \in Seq(AnyBlock) /\ blocks # <<>>
  /\ \A b \in 1..Len(blocks) :
       /\ BlockOK(blocks[b], Len(blocks))
       /\ IF Unfinished(b) THEN Open(blocks[b]) ELSE Finished(blocks[b])

\* A loop is among the first k lists.
Looping(k) == \E j \in 1..k : lists[j].kind = "loop"

\* The status of an unfinished block in the first k lists: outside loops it goes
\* on behind the innermost construct.
StatusOK(x, k) ==
  IF Looping(k)
  THEN x.trueBB # NoBlock
  ELSE /\ x.continueBB = NoBlock /\ x.breakBB = NoBlock
       /\ x.trueBB = IF k = 0 THEN NoBlock ELSE lists[k].next

StatusesOK ==
  /\ IF current = NoBlock THEN Looping(Len(lists))
                          ELSE StatusOK(blocks[current], Len(lists))
  /\ \A k \in 1..Len(lists) :
       /\ StatusOK(blocks[lists[k].next], k - 1)
       /\ lists[k].kind = "then" => StatusOK(blocks[lists[k].else], k)

\* A set with the first block and everything its finished blocks branch to.
Followed(S) ==
  /\ 1 \in S
  /\ \A b \in 1..Len(blocks) :
       b \in S /\ ~Unfinished(b) => blocks[b].trueBB \in S /\ blocks[b].falseBB \in S

\* Outside loops no code is unreachable.
ReachedOK ==
  \A S \in SUBSET Nat :
    Followed(S) =>
      /\ ~Looping(Len(lists)) => current \in S
      /\ \A k \in 1..Len(lists) :
           ~Looping(k - 1) =>
             /\ lists[k].kind = "loop" => lists[k].next \in S
             /\ lists[k].kind = "then" => lists[k].else \in S

ProgramOK ==
  /\ program \in Seq(Meaning!Tokens)
  /\ Len(program) + Len(lists) <= MaxTokens

\* What is called for is printed or about to be.
Seen(b) == Printed(b) \/ \E i \in 1..Len(todo) : todo[i] = b

PrintedOK ==
  /\ todo \in Seq(Nat) /\ \A i \in 1..Len(todo) : todo[i] <= Len(blocks)
  /\ layout \in Seq(Nat) /\ \A i \in 1..Len(layout) : layout[i] \in 1..Len(blocks)
  /\ phase = "build" => todo = <<>> /\ layout = <<>>
  /\ phase \in {"print", "run"} =>
       /\ lists = <<>>
       /\ Seen(1)
       /\ \A b \in 1..Len(blocks) :
            Printed(b) => /\ blocks[b].trueBB # NoBlock => Seen(blocks[b].trueBB)
                          /\ blocks[b].falseBB # NoBlock => Seen(blocks[b].falseBB)
  /\ phase = "run" => todo = <<>>

RunOK ==
  /\ phase \in {"build", "print", "run", "over"}
  /\ pc \in (Nat \ {0}) \X (Nat \ {0})
  /\ flag \in BOOLEAN
  /\ did.at \in 0..MaxTokens /\ did.value \in BOOLEAN

IndInv ==
  /\ ProgramOK /\ ListsOK /\ BlocksOK /\ StatusesOK /\ ReachedOK
  /\ PrintedOK /\ RunOK

-----------------------------------------------------------------------------
(* What the operators make of a block.                                      *)
LEMMA BlockFields ==
  ASSUME NEW ops, NEW c, NEW b, NEW t, NEW f
  PROVE  /\ BasicBlock(ops, c, b, t, f).ops = ops
         /\ BasicBlock(ops, c, b, t, f).continueBB = c
         /\ BasicBlock(ops, c, b, t, f).breakBB = b
         /\ BasicBlock(ops, c, b, t, f).trueBB = t
         /\ BasicBlock(ops, c, b, t, f).falseBB = f
BY DEF BasicBlock

LEMMA BlockIsAny ==
  ASSUME NEW ops \in Seq(AnyOp), NEW c \in Nat, NEW b \in Nat, NEW t \in Nat, NEW f \in Nat
  PROVE  BasicBlock(ops, c, b, t, f) \in AnyBlock
BY DEF BasicBlock, AnyBlock

\* A quad more.
LEMMA OneMore ==
  ASSUME NEW ops \in Seq(AnyOp), NEW op \in AnyOp
  PROVE  /\ ops \o <<op>> \in Seq(AnyOp)
         /\ Len(ops \o <<op>>) = Len(ops) + 1
         /\ \A i \in 1..Len(ops) : (ops \o <<op>>)[i] = ops[i]
         /\ (ops \o <<op>>)[Len(ops) + 1] = op
<1>1. /\ ops \o <<op>> = Append(ops, op)
  BY AppendIsConcat, Zenon
<1>2. /\ Append(ops, op) \in Seq(AnyOp)
      /\ Append(ops, op) # <<>>
      /\ Len(Append(ops, op)) = Len(ops) + 1
      /\ \A i \in 1..Len(ops) : Append(ops, op)[i] = ops[i]
      /\ Append(ops, op)[Len(ops) + 1] = op
  BY AppendProperties, Zenon
<1> QED
  BY <1>1, <1>2, Zenon

\* Two quads more.
LEMMA TwoMore ==
  ASSUME NEW ops \in Seq(AnyOp), NEW op \in AnyOp, NEW last \in AnyOp
  PROVE  /\ ops \o <<op, last>> \in Seq(AnyOp)
         /\ Len(ops \o <<op, last>>) = Len(ops) + 2
         /\ \A i \in 1..Len(ops) : (ops \o <<op, last>>)[i] = ops[i]
         /\ (ops \o <<op, last>>)[Len(ops) + 1] = op
         /\ (ops \o <<op, last>>)[Len(ops) + 2] = last
<1> DEFINE t == <<op, last>>
           c == ops \o t
<1>1. t \in Seq(AnyOp) /\ Len(t) = 2 /\ t[1] = op /\ t[2] = last
  OBVIOUS
<1> HIDE DEF t
<1>2. /\ c \in Seq(AnyOp)
      /\ Len(c) = Len(ops) + Len(t)
      /\ \A i \in 1..Len(ops) + Len(t) : c[i] = IF i <= Len(ops) THEN ops[i] ELSE t[i - Len(ops)]
  BY <1>1, ConcatProperties, Zenon
<1> HIDE DEF c
<1>3. /\ c \in Seq(AnyOp)
      /\ Len(c) = Len(ops) + 2
      /\ \A i \in 1..Len(ops) : c[i] = ops[i]
      /\ c[Len(ops) + 1] = op
      /\ c[Len(ops) + 2] = last
  BY <1>1, <1>2
<1> QED
  BY <1>3 DEF c, t

LEMMA BlockGrows ==
  ASSUME NEW x, NEW n \in Nat, NEW m \in Nat, n <= m, BlockOK(x, n)
  PROVE  BlockOK(x, m)
<1>1. ASSUME NEW op, OpOK(op, x, n) PROVE OpOK(op, x, m)
  BY <1>1 DEF OpOK
<1> QED
  BY <1>1 DEF BlockOK, AnyBlock

LEMMA EventOp ==
  ASSUME NEW kind \in EventKinds, NEW at \in 1..MaxTokens
  PROVE  /\ Op(kind, at) \in AnyOp
         /\ Op(kind, at).kind = kind /\ Op(kind, at).at = at
         /\ kind \notin Jumps
<1>1. at \in Nat
  BY BoundsAssumption
<1>2. kind \notin Jumps
  BY DEF EventKinds, Jumps
<1> QED
  BY <1>1, <1>2 DEF Op, AnyOp

LEMMA JumpOp ==
  ASSUME NEW kind \in Jumps, NEW at \in Nat
  PROVE  /\ Op(kind, at) \in AnyOp
         /\ Op(kind, at).kind = kind /\ Op(kind, at).at = at
BY DEF Op, AnyOp

LEMMA BlockParts ==
  ASSUME NEW x \in AnyBlock
  PROVE  /\ x.ops \in Seq(AnyOp) /\ Len(x.ops) \in Nat
         /\ x.continueBB \in Nat /\ x.breakBB \in Nat
         /\ x.trueBB \in Nat /\ x.falseBB \in Nat
<1>1. x.ops \in Seq(AnyOp)
  BY DEF AnyBlock
<1>2. Len(x.ops) \in Nat
  BY <1>1
<1> QED
  BY <1>1, <1>2 DEF AnyBlock

\* An event is added to a block without jumps.
LEMMA WithEvent ==
  ASSUME NEW x, NEW n \in Nat, BlockOK(x, n), NoJumps(x),
         NEW kind \in EventKinds, NEW at \in 1..MaxTokens
  PROVE  LET y == With(x, <<Op(kind, at)>>)
         IN  /\ BlockOK(y, n) /\ NoJumps(y)
             /\ y.continueBB = x.continueBB /\ y.breakBB = x.breakBB
             /\ y.trueBB = x.trueBB /\ y.falseBB = x.falseBB
<1> DEFINE op == Op(kind, at)
           ops == x.ops \o <<op>>
           y == With(x, <<op>>)
<1>1. op \in AnyOp /\ op.kind = kind /\ op.at = at /\ kind \notin Jumps
  BY EventOp
<1>2. /\ x.ops \in Seq(AnyOp) /\ Len(x.ops) \in Nat
      /\ x.continueBB \in Nat /\ x.breakBB \in Nat
      /\ x.trueBB \in Nat /\ x.falseBB \in Nat
  BY BlockParts DEF BlockOK
<1> HIDE DEF op
<1>3. /\ ops \in Seq(AnyOp)
      /\ Len(ops) = Len(x.ops) + 1
      /\ \A i \in 1..Len(x.ops) : ops[i] = x.ops[i]
      /\ ops[Len(x.ops) + 1] = op
  BY <1>1, <1>2, OneMore, Zenon
<1> HIDE DEF ops
<1>4. y = BasicBlock(ops, x.continueBB, x.breakBB, x.trueBB, x.falseBB)
  BY DEF With, ops
<1> HIDE DEF y
<1>5. y \in AnyBlock
  BY <1>2, <1>3, <1>4, BlockIsAny
<1>6. /\ y.ops = ops /\ y.continueBB = x.continueBB /\ y.breakBB = x.breakBB
      /\ y.trueBB = x.trueBB /\ y.falseBB = x.falseBB
  BY <1>4, BlockFields
<1>7. \A i \in 1..Len(y.ops) : OpOK(y.ops[i], y, n) /\ y.ops[i].kind \notin Jumps
  <2> SUFFICES ASSUME NEW i \in 1..Len(ops)
               PROVE  OpOK(ops[i], y, n) /\ ops[i].kind \notin Jumps
    BY <1>6
  <2>1. CASE i \in 1..Len(x.ops)
    <3>1. ops[i] = x.ops[i] /\ x.ops[i].kind \notin Jumps /\ OpOK(x.ops[i], x, n)
      BY <1>3, <2>1 DEF BlockOK, NoJumps
    <3> QED
      BY <3>1 DEF OpOK
  <2>2. CASE i = Len(x.ops) + 1
    BY <1>1, <1>3, <2>2 DEF OpOK
  <2> QED
    BY <1>2, <1>3, <2>1, <2>2
<1>8. BlockOK(y, n) /\ NoJumps(y)
  BY <1>5, <1>6, <1>7 DEF BlockOK, NoJumps
<1> QED
  BY <1>6, <1>8 DEF y, op

\* A block without jumps gets them.
LEMMA Closing ==
  ASSUME NEW x, NEW n \in Nat, BlockOK(x, n), NoJumps(x),
         NEW t \in 1..n, NEW f \in 1..n
  PROVE  LET y == Closed(x, t, f)
         IN  /\ BlockOK(y, n) /\ Finished(y)
             /\ y.continueBB = x.continueBB /\ y.breakBB = x.breakBB
             /\ y.trueBB = t /\ y.falseBB = f
<1> DEFINE ops == x.ops \o Branch(t, f)
           y == Closed(x, t, f)
<1>1. t \in Nat /\ f \in Nat /\ t # NoBlock /\ f # NoBlock
  BY DEF NoBlock
<1>2. /\ x.ops \in Seq(AnyOp) /\ Len(x.ops) \in Nat
      /\ x.continueBB \in Nat /\ x.breakBB \in Nat
      /\ x.trueBB \in Nat /\ x.falseBB \in Nat
  BY BlockParts DEF BlockOK
<1>3. "jump" \in Jumps /\ "jump if true" \in Jumps /\ "jump if false" \in Jumps
  BY DEF Jumps
<1>4. /\ ops \in Seq(AnyOp)
      /\ Len(ops) > Len(x.ops)
      /\ \A i \in 1..Len(x.ops) : ops[i] = x.ops[i]
      /\ \A i \in 1..Len(ops) : i > Len(x.ops) => ops[i].kind \in Jumps /\ ops[i].at \in {t, f}
  <2>1. CASE t = f
    <3> DEFINE op == Op("jump", t)
    <3>1. op \in AnyOp /\ op.kind \in Jumps /\ op.at = t
      BY <1>1, <1>3, JumpOp, ZenonT(40)
    <3>2. ops = x.ops \o <<op>>
      BY <1>1, <2>1 DEF Branch
    <3> HIDE DEF op
    <3>3. /\ x.ops \o <<op>> \in Seq(AnyOp)
          /\ Len(x.ops \o <<op>>) = Len(x.ops) + 1
          /\ \A i \in 1..Len(x.ops) : (x.ops \o <<op>>)[i] = x.ops[i]
          /\ (x.ops \o <<op>>)[Len(x.ops) + 1] = op
      BY <1>2, <3>1, OneMore, Zenon
    <3> HIDE DEF ops
    <3>4. /\ ops \in Seq(AnyOp)
          /\ Len(ops) = Len(x.ops) + 1
          /\ \A i \in 1..Len(x.ops) : ops[i] = x.ops[i]
          /\ ops[Len(x.ops) + 1] = op
      BY <3>2, <3>3, Zenon
    <3>5. ASSUME NEW i \in 1..Len(ops), i > Len(x.ops) PROVE i = Len(x.ops) + 1
      BY <1>2, <3>4, <3>5
    <3> QED
      BY <1>2, <3>1, <3>4, <3>5
  <2>2. CASE t # f
    <3> DEFINE op == Op("jump if true", t)
               last == Op("jump if false", f)
    <3>1. /\ op \in AnyOp /\ op.kind \in Jumps /\ op.at = t
          /\ last \in AnyOp /\ last.kind \in Jumps /\ last.at = f
      BY <1>1, <1>3, JumpOp, ZenonT(40)
    <3>2. ops = x.ops \o <<op, last>>
      BY <1>1, <2>2 DEF Branch
    <3> HIDE DEF op, last
    <3>3. /\ x.ops \o <<op, last>> \in Seq(AnyOp)
          /\ Len(x.ops \o <<op, last>>) = Len(x.ops) + 2
          /\ \A i \in 1..Len(x.ops) : (x.ops \o <<op, last>>)[i] = x.ops[i]
          /\ (x.ops \o <<op, last>>)[Len(x.ops) + 1] = op
          /\ (x.ops \o <<op, last>>)[Len(x.ops) + 2] = last
      BY <1>2, <3>1, TwoMore
    <3> HIDE DEF ops
    <3>4. /\ ops \in Seq(AnyOp)
          /\ Len(ops) = Len(x.ops) + 2
          /\ \A i \in 1..Len(x.ops) : ops[i] = x.ops[i]
          /\ ops[Len(x.ops) + 1] = op
          /\ ops[Len(x.ops) + 2] = last
      BY <3>2, <3>3, Zenon
    <3>5. ASSUME NEW i \in 1..Len(ops), i > Len(x.ops)
          PROVE  i = Len(x.ops) + 1 \/ i = Len(x.ops) + 2
      BY <1>2, <3>4, <3>5
    <3>6. Len(ops) > Len(x.ops)
      BY <1>2, <3>4
    <3>7. ASSUME NEW i \in 1..Len(ops), i > Len(x.ops)
          PROVE  ops[i].kind \in Jumps /\ ops[i].at \in {t, f}
      BY <3>1, <3>4, <3>5, <3>7
    <3> QED
      BY <3>4, <3>6, <3>7
  <2> QED
    BY <2>1, <2>2
<1>5. Len(ops) \in Nat /\ Len(ops) \in 1..Len(ops) /\ ops # <<>>
  <2>1. Len(ops) \in Nat
    <3> HIDE DEF ops
    <3> QED BY <1>4
  <2> HIDE DEF ops
  <2> QED
    BY <1>2, <1>4, <2>1
<1> HIDE DEF ops
<1>6. y = BasicBlock(ops, x.continueBB, x.breakBB, t, f)
  BY DEF Closed, ops
<1> HIDE DEF y
<1>7. y \in AnyBlock
  BY <1>1, <1>2, <1>4, <1>6, BlockIsAny
<1>8. /\ y.ops = ops /\ y.continueBB = x.continueBB /\ y.breakBB = x.breakBB
      /\ y.trueBB = t /\ y.falseBB = f
  BY <1>6, BlockFields
<1>9. \A i \in 1..Len(y.ops) : OpOK(y.ops[i], y, n)
  <2> SUFFICES ASSUME NEW i \in 1..Len(ops)
               PROVE  OpOK(ops[i], y, n)
    BY <1>8
  <2>1. CASE i \in 1..Len(x.ops)
    <3>1. ops[i] = x.ops[i] /\ x.ops[i].kind \notin Jumps /\ OpOK(x.ops[i], x, n)
      BY <1>4, <2>1 DEF BlockOK, NoJumps
    <3> QED
      BY <3>1 DEF OpOK
  <2>2. CASE i > Len(x.ops)
    <3>1. ops[i].kind \in Jumps /\ ops[i].at \in {t, f}
      BY <1>4, <2>2
    <3> QED
      BY <1>8, <3>1 DEF OpOK
  <2> QED
    BY <1>2, <1>5, <2>1, <2>2
<1>10. BlockOK(y, n)
  BY <1>1, <1>7, <1>8, <1>9 DEF BlockOK
<1>11. Finished(y)
  BY <1>1, <1>2, <1>4, <1>5, <1>8 DEF Finished
<1> QED
  BY <1>8, <1>10, <1>11 DEF y

\* A block with nowhere to go keeps its quads.
LEMMA ClosingNowhere ==
  ASSUME NEW x, NEW n \in Nat, BlockOK(x, n), x.trueBB = NoBlock
  PROVE  ClosedAsIs(x) = x
<1>1. x \in AnyBlock
  BY DEF BlockOK
<1>2. x.ops \in Seq(AnyOp)
  BY <1>1, BlockParts
<1>3. x.ops \o <<>> = x.ops
  BY <1>2, ConcatEmptySeq, Zenon
<1>4. ClosedAsIs(x) = BasicBlock(x.ops, x.continueBB, x.breakBB, x.trueBB, x.falseBB)
  BY <1>3 DEF ClosedAsIs, Closed, Branch
<1>5. x = [ops |-> x.ops, continueBB |-> x.continueBB, breakBB |-> x.breakBB,
           trueBB |-> x.trueBB, falseBB |-> x.falseBB]
  BY <1>1 DEF AnyBlock
<1> QED
  BY <1>4, <1>5 DEF BasicBlock

\* A new block.
LEMMA NewBlock ==
  ASSUME NEW n \in Nat, NEW c \in 0..n, NEW b \in 0..n, NEW t \in 0..n, NEW f \in 0..n,
         t = NoBlock <=> f = NoBlock
  PROVE  LET y == Block(c, b, t, f)
         IN  /\ BlockOK(y, n) /\ NoJumps(y)
             /\ y.continueBB = c /\ y.breakBB = b /\ y.trueBB = t /\ y.falseBB = f
<1> DEFINE y == Block(c, b, t, f)
<1>1. y = BasicBlock(<<>>, c, b, t, f)
  BY DEF Block
<1>2. <<>> \in Seq(AnyOp) /\ Len(<<>>) = 0
      /\ c \in Nat /\ b \in Nat /\ t \in Nat /\ f \in Nat
  OBVIOUS
<1> HIDE DEF y
<1>3. y \in AnyBlock
  BY <1>1, <1>2, BlockIsAny
<1>4. y.ops = <<>> /\ y.continueBB = c /\ y.breakBB = b /\ y.trueBB = t /\ y.falseBB = f
  BY <1>1, BlockFields
<1>5. BlockOK(y, n) /\ NoJumps(y)
  BY <1>2, <1>3, <1>4 DEF BlockOK, NoJumps
<1> QED
  BY <1>4, <1>5 DEF y

\* An open block with a status.
Opened(y, n, c, b, t) ==
  /\ BlockOK(y, n) /\ Open(y) /\ y \in AnyBlock
  /\ y.continueBB = c /\ y.breakBB = b /\ y.trueBB = t

\* A block that branches to t and f.
Branching(y, n, t, f) ==
  /\ BlockOK(y, n) /\ Finished(y) /\ y \in AnyBlock
  /\ y.trueBB = t /\ y.falseBB = f

LEMMA NewOpenBlock ==
  ASSUME NEW n \in Nat, NEW c \in 0..n, NEW b \in 0..n, NEW t \in 0..n
  PROVE  Opened(Block(c, b, t, t), n, c, b, t)
<1> DEFINE y == Block(c, b, t, t)
<1>1. /\ BlockOK(y, n) /\ NoJumps(y)
      /\ y.continueBB = c /\ y.breakBB = b /\ y.trueBB = t /\ y.falseBB = t
  BY NewBlock
<1> HIDE DEF y
<1>2. BlockOK(y, n) /\ Open(y) /\ y \in AnyBlock
  BY <1>1 DEF Open, BlockOK
<1> QED
  BY <1>1, <1>2 DEF y, Opened

\* A block for an expression, which branches at once.
LEMMA ExpressionBlock ==
  ASSUME NEW n \in Nat, NEW t \in 1..n, NEW f \in 1..n,
         NEW kind \in EventKinds, NEW at \in 1..MaxTokens,
         NEW ops, ops = <<>> \/ ops = <<Op(kind, at)>>
  PROVE  Branching(ClosedAsIs(With(Block(NoBlock, NoBlock, t, f), ops)), n, t, f)
<1> DEFINE x == Block(NoBlock, NoBlock, t, f)
           w == With(x, ops)
           y == Closed(w, t, f)
<1>1. BlockOK(x, n) /\ NoJumps(x) /\ x.trueBB = t /\ x.falseBB = f
  <2>1. 0 \in 0..n /\ t \in 0..n /\ f \in 0..n /\ t # 0 /\ f # 0
    OBVIOUS
  <2> QED
    BY <2>1, NewBlock DEF NoBlock
<1>2. BlockOK(w, n) /\ NoJumps(w) /\ w.trueBB = t /\ w.falseBB = f
  <2> HIDE DEF x
  <2>1. CASE ops = <<>>
    <3>1. x.ops \in Seq(AnyOp) /\ x \in AnyBlock
      BY <1>1, BlockParts DEF BlockOK
    <3>2. x.ops \o <<>> = x.ops
      BY <3>1, ConcatEmptySeq, Zenon
    <3>3. w = BasicBlock(x.ops, x.continueBB, x.breakBB, x.trueBB, x.falseBB)
      BY <2>1, <3>2 DEF With
    <3>4. x = [ops |-> x.ops, continueBB |-> x.continueBB, breakBB |-> x.breakBB,
               trueBB |-> x.trueBB, falseBB |-> x.falseBB]
      BY <3>1 DEF AnyBlock
    <3> QED
      BY <1>1, <3>3, <3>4 DEF BasicBlock
  <2>2. CASE ops = <<Op(kind, at)>>
    BY <1>1, <2>2, WithEvent
  <2> QED
    BY <2>1, <2>2
<1> HIDE DEF w
<1>3. BlockOK(y, n) /\ Finished(y) /\ y.trueBB = t /\ y.falseBB = f
  BY <1>2, Closing
<1>4. y = ClosedAsIs(w)
  BY <1>2 DEF ClosedAsIs
<1> HIDE DEF y
<1>5. Branching(y, n, t, f)
  BY <1>3 DEF Branching, BlockOK
<1> QED
  BY <1>4, <1>5 DEF w

-----------------------------------------------------------------------------
(* What the steps have in common.                                           *)
LEMMA StillBuilding ==
  ASSUME IndInv, Building, UNCHANGED <<phase, did>>, KeepRunning
  PROVE  PrintedOK' /\ RunOK'
<1>1. /\ phase' = "build" /\ todo' = <<>> /\ layout' = <<>>
      /\ pc' = pc /\ flag' = flag /\ did' = did /\ phase = "build"
  BY DEF IndInv, PrintedOK, Building, KeepRunning
<1>2. <<>> \in Seq(Nat) /\ Len(<<>>) = 0 /\ DOMAIN <<>> = {}
  OBVIOUS
<1>3. PrintedOK'
  BY <1>1, <1>2 DEF PrintedOK
<1>4. RunOK'
  BY <1>1 DEF IndInv, RunOK
<1> QED
  BY <1>3, <1>4

\* A token is read.
LEMMA TokenRead ==
  ASSUME IndInv, NEW token \in Meaning!Tokens, program' = Append(program, token)
  PROVE  program' \in Seq(Meaning!Tokens) /\ Len(program') = Len(program) + 1
BY DEF IndInv, ProgramOK

LEMMA PositionOK ==
  ASSUME IndInv, NEW n \in {1, 2, 3}, Room(n)
  PROVE  /\ Position \in 1..MaxTokens
         /\ Len(program) \in Nat /\ Len(lists) \in Nat
         /\ Len(program) + Len(lists) + n <= MaxTokens
<1>1. Len(program) \in Nat /\ Len(lists) \in Nat
  BY DEF IndInv, ProgramOK, ListsOK
<1> QED
  BY <1>1, BoundsAssumption DEF Room, Position

\* The numbers of the blocks that lists hold grow inwards.
LEMMA Numbers ==
  ASSUME ListsOK
  PROVE  /\ Len(lists) \in Nat
         /\ \A k \in 1..Len(lists) :
              /\ lists[k] \in AnyList
              /\ lists[k].kind \in {"then", "else", "loop"}
              /\ lists[k].next \in Nat /\ lists[k].else \in Nat
              /\ LastOf(lists[k]) \in Nat /\ lists[k].next <= LastOf(lists[k])
              /\ lists[k].kind = "then" => lists[k].else = LastOf(lists[k])
                                           /\ lists[k].next < lists[k].else
         /\ current \in Nat
<1>1. Len(lists) \in Nat
  BY DEF ListsOK
<1>2. ASSUME NEW k \in 1..Len(lists)
      PROVE  /\ lists[k] \in AnyList
             /\ lists[k].kind \in {"then", "else", "loop"}
             /\ lists[k].next \in Nat /\ lists[k].else \in Nat
  <2>1. lists[k] \in AnyList
    BY <1>2 DEF ListsOK
  <2> QED
    BY <2>1 DEF AnyList
<1>3. ASSUME NEW k \in 1..Len(lists)
      PROVE  /\ LastOf(lists[k]) \in Nat /\ lists[k].next <= LastOf(lists[k])
             /\ lists[k].kind = "then" => lists[k].else = LastOf(lists[k])
                                          /\ lists[k].next < lists[k].else
  BY <1>2, <1>3 DEF ListsOK, LastOf
<1>4. current \in Nat
  BY DEF ListsOK
<1> QED
  BY <1>1, <1>2, <1>3, <1>4

\* The current block is no other list's, and is open.
LEMMA CurrentBlock ==
  ASSUME IndInv, current # NoBlock
  PROVE  /\ current \in 1..Len(blocks) /\ Len(blocks) \in Nat
         /\ BlockOK(blocks[current], Len(blocks)) /\ Open(blocks[current])
         /\ blocks[current] \in AnyBlock
         /\ StatusOK(blocks[current], Len(lists))
         /\ \A k \in 1..Len(lists) :
              /\ current # lists[k].next
              /\ lists[k].kind = "then" => current # lists[k].else
<1>1. Len(blocks) \in Nat
  BY DEF IndInv, BlocksOK
<1>2. current \in 1..Len(blocks)
  BY <1>1 DEF IndInv, ListsOK, NoBlock
<1>3. BlockOK(blocks[current], Len(blocks)) /\ Open(blocks[current])
  BY <1>2 DEF IndInv, BlocksOK, Unfinished
<1>4. \A k \in 1..Len(lists) :
        /\ current # lists[k].next
        /\ lists[k].kind = "then" => current # lists[k].else
  <2>1. ListsOK
    BY DEF IndInv
  <2>2. \A k \in 1..Len(lists) : LastOf(lists[k]) < current
    BY DEF IndInv, ListsOK
  <2> QED
    BY <2>1, <2>2, Numbers
<1> QED
  BY <1>1, <1>2, <1>3, <1>4 DEF IndInv, StatusesOK, BlockOK

\* Where an open block goes when its list ends: outside loops to the next block
\* of the innermost construct, and nowhere at the end of the body.
LEMMA WhereTo ==
  ASSUME IndInv, lists # <<>>, NEW x, StatusOK(x, Len(lists))
  PROVE  /\ x.trueBB # NoBlock
         /\ ~Looping(Len(lists)) => x.trueBB = Innermost.next
<1>1. Len(lists) \in Nat /\ Len(lists) # 0
  BY DEF IndInv, ListsOK
<1>2. Len(lists) \in 1..Len(lists)
  BY <1>1
<1>3. lists[Len(lists)].next # 0
  BY <1>2 DEF IndInv, ListsOK
<1> QED
  BY <1>1, <1>3 DEF StatusOK, Innermost, NoBlock

-----------------------------------------------------------------------------
(* Statements.                                                              *)
LEMMA EventAdded ==
  ASSUME IndInv, current # NoBlock,
         NEW kind \in EventKinds, Position \in 1..MaxTokens,
         blocks' = [blocks EXCEPT ![current] = With(@, <<Op(kind, Position)>>)],
         UNCHANGED <<current, lists>>
  PROVE  ListsOK' /\ BlocksOK' /\ StatusesOK' /\ ReachedOK'
<1> DEFINE y == With(blocks[current], <<Op(kind, Position)>>)
<1>1. /\ current \in 1..Len(blocks) /\ Len(blocks) \in Nat
      /\ BlockOK(blocks[current], Len(blocks)) /\ Open(blocks[current])
  BY CurrentBlock
<1>2. /\ BlockOK(y, Len(blocks)) /\ NoJumps(y)
      /\ y.continueBB = blocks[current].continueBB /\ y.breakBB = blocks[current].breakBB
      /\ y.trueBB = blocks[current].trueBB /\ y.falseBB = blocks[current].falseBB
  BY <1>1, WithEvent DEF Open
<1>3. blocks' = [blocks EXCEPT ![current] = y]
  OBVIOUS
<1> HIDE DEF y
<1>4. Open(y) /\ y \in AnyBlock
  BY <1>1, <1>2 DEF Open, BlockOK
<1>5. blocks \in Seq(AnyBlock)
  BY DEF IndInv, BlocksOK
<1>6. /\ blocks' \in Seq(AnyBlock) /\ Len(blocks') = Len(blocks)
      /\ \A b \in 1..Len(blocks) : blocks'[b] = IF b = current THEN y ELSE blocks[b]
  BY <1>1, <1>3, <1>4, <1>5, ExceptSeq
<1>7. ListsOK'
  BY <1>6 DEF IndInv, ListsOK
<1>8. BlocksOK'
  <2>1. blocks' # <<>>
    BY <1>1, <1>6
  <2>2. ASSUME NEW b \in 1..Len(blocks)
        PROVE  /\ BlockOK(blocks'[b], Len(blocks))
               /\ IF Unfinished(b) THEN Open(blocks'[b]) ELSE Finished(blocks'[b])
    <3>1. CASE b = current
      BY <1>2, <1>4, <1>6, <3>1 DEF Unfinished
    <3>2. CASE b # current
      BY <1>6, <3>2 DEF IndInv, BlocksOK
    <3> QED
      BY <3>1, <3>2
  <2>3. \A b : Unfinished(b)' <=> Unfinished(b)
    BY DEF Unfinished
  <2> QED
    BY <1>6, <2>1, <2>2, <2>3 DEF BlocksOK
<1>9. ASSUME NEW b \in 1..Len(blocks)
      PROVE  /\ blocks'[b].continueBB = blocks[b].continueBB
             /\ blocks'[b].breakBB = blocks[b].breakBB
             /\ blocks'[b].trueBB = blocks[b].trueBB
             /\ blocks'[b].falseBB = blocks[b].falseBB
  BY <1>2, <1>6, <1>9
<1>10. StatusesOK'
  <2>1. \A k \in 1..Len(lists) : lists[k].next \in 1..Len(blocks)
    BY DEF IndInv, ListsOK
  <2>2. \A k \in 1..Len(lists) : lists[k].kind = "then" => lists[k].else \in 1..Len(blocks)
    BY <1>1, Numbers DEF IndInv, ListsOK
  <2>3. \A k : Looping(k)' <=> Looping(k)
    BY DEF Looping
  <2>4. ASSUME NEW b \in 1..Len(blocks), NEW k, StatusOK(blocks[b], k)
        PROVE  StatusOK(blocks[b], k)'
    BY <1>9, <2>3, <2>4 DEF StatusOK
  <2>5. StatusOK(blocks[current], Len(lists))
    BY CurrentBlock
  <2>6. StatusOK(blocks[current], Len(lists))'
    BY <1>1, <2>4, <2>5
  <2>7. \A k \in 1..Len(lists) :
          /\ StatusOK(blocks[lists[k].next], k - 1)'
          /\ lists[k].kind = "then" => StatusOK(blocks[lists[k].else], k)'
    BY <2>1, <2>2, <2>4 DEF IndInv, StatusesOK
  <2> QED
    BY <2>6, <2>7 DEF StatusesOK
<1>11. ReachedOK'
  <2>1. \A b : Unfinished(b)' <=> Unfinished(b)
    BY DEF Unfinished
  <2>2. \A S : Followed(S)' => Followed(S)
    BY <1>6, <1>9, <2>1 DEF Followed
  <2>3. \A k : Looping(k)' <=> Looping(k)
    BY DEF Looping
  <2> QED
    BY <2>2, <2>3 DEF IndInv, ReachedOK
<1> QED
  BY <1>7, <1>8, <1>10, <1>11

LEMMA StatementPreserves ==
  ASSUME IndInv, Statement
  PROVE  IndInv'
<1>1. /\ Position \in 1..MaxTokens
      /\ Len(program) \in Nat /\ Len(lists) \in Nat
      /\ Len(program) + Len(lists) + 2 <= MaxTokens
  BY PositionOK DEF Statement
<1>2. program' \in Seq(Meaning!Tokens) /\ Len(program') = Len(program) + 1
  <2>1. "stmt" \in Meaning!Tokens
    BY DEF Meaning!Tokens
  <2> QED
    BY <2>1, TokenRead DEF Statement
<1>3. ProgramOK'
  BY <1>1, <1>2, BoundsAssumption DEF ProgramOK, Statement
<1>4. PrintedOK' /\ RunOK'
  BY StillBuilding DEF Statement
<1>5. ListsOK' /\ BlocksOK' /\ StatusesOK' /\ ReachedOK'
  <2>1. CASE current = NoBlock
    <3>1. UNCHANGED <<current, lists, blocks>>
      BY <2>1 DEF Statement
    <3>2. \A b : Unfinished(b)' <=> Unfinished(b)
      BY <3>1 DEF Unfinished
    <3>3. \A k : Looping(k)' <=> Looping(k)
      BY <3>1 DEF Looping
    <3>4. \A S : Followed(S)' <=> Followed(S)
      BY <3>1, <3>2 DEF Followed
    <3>5. ListsOK'
      BY <3>1 DEF IndInv, ListsOK
    <3>6. BlocksOK'
      BY <3>1, <3>2 DEF IndInv, BlocksOK
    <3>7. StatusesOK'
      BY <3>1, <3>3 DEF IndInv, StatusesOK, StatusOK
    <3>8. ReachedOK'
      BY <3>1, <3>3, <3>4 DEF IndInv, ReachedOK
    <3> QED
      BY <3>5, <3>6, <3>7, <3>8
  <2>2. CASE current # NoBlock
    <3>1. "stmt" \in EventKinds
      BY DEF EventKinds
    <3>2. /\ blocks' = [blocks EXCEPT ![current] = With(@, <<Op("stmt", Position)>>)]
          /\ UNCHANGED <<current, lists>>
      BY <2>2 DEF Statement
    <3> QED
      BY <1>1, <2>2, <3>1, <3>2, EventAdded
  <2> QED
    BY <2>1, <2>2
<1> QED
  BY <1>3, <1>4, <1>5 DEF IndInv

LEMMA ReturnStatementPreserves ==
  ASSUME IndInv, ReturnStatement
  PROVE  IndInv'
<1>1. /\ Position \in 1..MaxTokens
      /\ Len(program) \in Nat /\ Len(lists) \in Nat
      /\ Len(program) + Len(lists) + 1 <= MaxTokens
  BY PositionOK DEF ReturnStatement
<1>2. program' \in Seq(Meaning!Tokens) /\ Len(program') = Len(program) + 1
  <2>1. "return" \in Meaning!Tokens
    BY DEF Meaning!Tokens
  <2> QED
    BY <2>1, TokenRead DEF ReturnStatement
<1>3. ProgramOK'
  BY <1>1, <1>2, BoundsAssumption DEF ProgramOK, ReturnStatement
<1>4. PrintedOK' /\ RunOK'
  BY StillBuilding DEF ReturnStatement
<1>5. ListsOK' /\ BlocksOK' /\ StatusesOK' /\ ReachedOK'
  <2>1. "returned" \in EventKinds
    BY DEF EventKinds
  <2>2. /\ blocks' = [blocks EXCEPT ![current] = With(@, <<Op("returned", Position)>>)]
        /\ current # NoBlock
        /\ UNCHANGED <<current, lists>>
    BY DEF ReturnStatement
  <2> QED
    BY <1>1, <2>1, <2>2, EventAdded
<1> QED
  BY <1>3, <1>4, <1>5 DEF IndInv

-----------------------------------------------------------------------------
(* Jumps out of a list.                                                     *)
LEMMA Left ==
  ASSUME IndInv, current # NoBlock, NEW target,
         target \in {blocks[current].breakBB, blocks[current].continueBB},
         target # NoBlock,
         blocks' = [blocks EXCEPT ![current] = Closed(@, target, target)],
         current' = NoBlock, lists' = lists
  PROVE  ListsOK' /\ BlocksOK' /\ StatusesOK' /\ ReachedOK'
<1> DEFINE y == Closed(blocks[current], target, target)
<1>1. /\ current \in 1..Len(blocks) /\ Len(blocks) \in Nat
      /\ BlockOK(blocks[current], Len(blocks)) /\ Open(blocks[current])
      /\ StatusOK(blocks[current], Len(lists))
      /\ \A k \in 1..Len(lists) :
           /\ current # lists[k].next
           /\ lists[k].kind = "then" => current # lists[k].else
  BY CurrentBlock
<1>2. target \in 1..Len(blocks)
  <2>1. /\ blocks[current].breakBB \in Nat /\ blocks[current].continueBB \in Nat
        /\ blocks[current].breakBB <= Len(blocks) /\ blocks[current].continueBB <= Len(blocks)
    BY <1>1, BlockParts DEF BlockOK
  <2> QED
    BY <1>1, <2>1 DEF NoBlock
<1>3. BlockOK(y, Len(blocks)) /\ Finished(y) /\ y \in AnyBlock
  <2>1. BlockOK(y, Len(blocks)) /\ Finished(y)
    BY <1>1, <1>2, Closing DEF Open
  <2> QED
    BY <2>1 DEF BlockOK
<1>4. blocks' = [blocks EXCEPT ![current] = y]
  OBVIOUS
<1> HIDE DEF y
<1>5. blocks \in Seq(AnyBlock)
  BY DEF IndInv, BlocksOK
<1>6. /\ blocks' \in Seq(AnyBlock) /\ Len(blocks') = Len(blocks)
      /\ \A b \in 1..Len(blocks) : blocks'[b] = IF b = current THEN y ELSE blocks[b]
  BY <1>1, <1>3, <1>4, <1>5, ExceptSeq
<1>7. ListsOK'
  BY <1>1, <1>6 DEF IndInv, ListsOK, NoBlock
<1>8. \A b \in 1..Len(blocks) : Unfinished(b)' <=> Unfinished(b) /\ b # current
  BY <1>1 DEF Unfinished, NoBlock
<1>9. BlocksOK'
  <2>1. blocks' # <<>>
    BY <1>1, <1>6
  <2>2. ASSUME NEW b \in 1..Len(blocks)
        PROVE  /\ BlockOK(blocks'[b], Len(blocks))
               /\ IF Unfinished(b)' THEN Open(blocks'[b]) ELSE Finished(blocks'[b])
    <3>1. CASE b = current
      BY <1>3, <1>6, <1>8, <3>1
    <3>2. CASE b # current
      BY <1>6, <1>8, <3>2 DEF IndInv, BlocksOK
    <3> QED
      BY <3>1, <3>2
  <2> QED
    BY <1>6, <2>1, <2>2 DEF BlocksOK
<1>10. \A k : Looping(k)' <=> Looping(k)
  BY DEF Looping
<1>11. Looping(Len(lists))
  BY <1>1 DEF StatusOK
<1>12. StatusesOK'
  <2>1. ASSUME NEW k \in 1..Len(lists)
        PROVE  blocks'[lists[k].next] = blocks[lists[k].next]
    <3>1. lists[k].next \in 1..Len(blocks)
      BY DEF IndInv, ListsOK
    <3> QED
      BY <1>1, <1>6, <3>1
  <2>2. ASSUME NEW k \in 1..Len(lists), lists[k].kind = "then"
        PROVE  blocks'[lists[k].else] = blocks[lists[k].else]
    <3>1. lists[k].else \in 0..Len(blocks) /\ lists[k].next < lists[k].else
      BY <2>2 DEF IndInv, ListsOK
    <3>2. lists[k].next \in Nat
      BY Numbers DEF IndInv
    <3>3. lists[k].else \in 1..Len(blocks)
      BY <1>1, <3>1, <3>2
    <3> QED
      BY <1>1, <1>6, <2>2, <3>3
  <2>3. ASSUME NEW k \in 1..Len(lists)
        PROVE  /\ StatusOK(blocks[lists[k].next], k - 1)'
               /\ lists[k].kind = "then" => StatusOK(blocks[lists[k].else], k)'
    BY <1>10, <2>1, <2>2 DEF IndInv, StatusesOK, StatusOK
  <2> QED
    BY <1>10, <1>11, <2>3 DEF StatusesOK
<1>13. ReachedOK'
  <2>1. ASSUME NEW S, Followed(S)' PROVE Followed(S)
    BY <1>6, <1>8, <2>1 DEF Followed, Unfinished
  <2> QED
    BY <1>10, <1>11, <2>1 DEF IndInv, ReachedOK
<1> QED
  BY <1>7, <1>9, <1>12, <1>13

LEMMA BreakPreserves ==
  ASSUME IndInv, Break
  PROVE  IndInv'
<1>1. /\ Len(program) \in Nat /\ Len(lists) \in Nat
      /\ Len(program) + Len(lists) + 1 <= MaxTokens
  BY PositionOK DEF Break
<1>2. program' \in Seq(Meaning!Tokens) /\ Len(program') = Len(program) + 1
  <2>1. "break" \in Meaning!Tokens
    BY DEF Meaning!Tokens
  <2> QED
    BY <2>1, TokenRead DEF Break
<1>3. ProgramOK'
  BY <1>1, <1>2, BoundsAssumption DEF ProgramOK, Break
<1>4. PrintedOK' /\ RunOK'
  BY StillBuilding DEF Break
<1>5. ListsOK' /\ BlocksOK' /\ StatusesOK' /\ ReachedOK'
  BY Left DEF Break
<1> QED
  BY <1>3, <1>4, <1>5 DEF IndInv

LEMMA ContinuePreserves ==
  ASSUME IndInv, Continue
  PROVE  IndInv'
<1>1. /\ Len(program) \in Nat /\ Len(lists) \in Nat
      /\ Len(program) + Len(lists) + 1 <= MaxTokens
  BY PositionOK DEF Continue
<1>2. program' \in Seq(Meaning!Tokens) /\ Len(program') = Len(program) + 1
  <2>1. "continue" \in Meaning!Tokens
    BY DEF Meaning!Tokens
  <2> QED
    BY <2>1, TokenRead DEF Continue
<1>3. ProgramOK'
  BY <1>1, <1>2, BoundsAssumption DEF ProgramOK, Continue
<1>4. PrintedOK' /\ RunOK'
  BY StillBuilding DEF Continue
<1>5. ListsOK' /\ BlocksOK' /\ StatusesOK' /\ ReachedOK'
  BY Left DEF Continue
<1> QED
  BY <1>3, <1>4, <1>5 DEF IndInv

LEMMA StrayPreserves ==
  ASSUME IndInv, Stray
  PROVE  IndInv'
<1>1. /\ UNCHANGED <<program, blocks, current, lists, todo, layout, pc, flag>>
      /\ phase' = "over" /\ did' = Meaning!Rejected
  BY DEF Stray, KeepRunning
<1>2. Meaning!Rejected.at = 0 /\ Meaning!Rejected.value = TRUE
  BY DEF Meaning!Rejected, Meaning!Event
<1>3. \A b : Unfinished(b)' <=> Unfinished(b)
  BY <1>1 DEF Unfinished
<1>4. \A k : Looping(k)' <=> Looping(k)
  BY <1>1 DEF Looping
<1>5. \A S : Followed(S)' <=> Followed(S)
  BY <1>1, <1>3 DEF Followed
<1>6. ProgramOK' /\ ListsOK'
  BY <1>1 DEF IndInv, ProgramOK, ListsOK
<1>7. BlocksOK'
  BY <1>1, <1>3 DEF IndInv, BlocksOK
<1>8. StatusesOK'
  BY <1>1, <1>4 DEF IndInv, StatusesOK, StatusOK
<1>9. ReachedOK'
  BY <1>1, <1>4, <1>5 DEF IndInv, ReachedOK
<1>10. PrintedOK'
  BY <1>1 DEF IndInv, PrintedOK
<1>12. RunOK'
  <2>1. did'.at = 0 /\ did'.value = TRUE
    BY <1>1, <1>2, Zenon
  <2>2. 0 \in 0..MaxTokens
    BY BoundsAssumption
  <2> QED
    BY <1>1, <2>1, <2>2 DEF IndInv, RunOK
<1> QED
  BY <1>6, <1>7, <1>8, <1>9, <1>10, <1>12 DEF IndInv

-----------------------------------------------------------------------------
(* The end of a list.                                                       *)
LEMMA EndedBlocks ==
  ASSUME IndInv, lists # <<>>
  PROVE  /\ Ended \in Seq(AnyBlock) /\ Len(Ended) = Len(blocks)
         /\ \A b \in 1..Len(blocks) : b # current => Ended[b] = blocks[b]
         /\ current # NoBlock =>
              /\ BlockOK(Ended[current], Len(blocks)) /\ Finished(Ended[current])
              /\ Ended[current].trueBB = blocks[current].trueBB
<1>1. blocks \in Seq(AnyBlock)
  BY DEF IndInv, BlocksOK
<1>2. CASE current = NoBlock
  BY <1>1, <1>2 DEF Ended
<1>3. CASE current # NoBlock
  <2> DEFINE y == ClosedAsIs(blocks[current])
  <2>1. /\ current \in 1..Len(blocks) /\ Len(blocks) \in Nat
        /\ BlockOK(blocks[current], Len(blocks)) /\ Open(blocks[current])
        /\ StatusOK(blocks[current], Len(lists))
    BY <1>3, CurrentBlock
  <2>2. /\ blocks[current].trueBB \in 1..Len(blocks)
        /\ blocks[current].falseBB \in 1..Len(blocks)
    <3>1. blocks[current].trueBB # NoBlock
      BY <2>1, WhereTo
    <3>2. blocks[current].trueBB \in Nat /\ blocks[current].falseBB \in Nat
      BY <2>1, BlockParts DEF BlockOK
    <3> QED
      BY <2>1, <3>1, <3>2 DEF BlockOK, NoBlock
  <2>3. /\ BlockOK(y, Len(blocks)) /\ Finished(y)
        /\ y.trueBB = blocks[current].trueBB
    BY <2>1, <2>2, Closing DEF ClosedAsIs, Open
  <2>4. y \in AnyBlock
    BY <2>3 DEF BlockOK
  <2>5. Ended = [blocks EXCEPT ![current] = y]
    BY <1>3 DEF Ended
  <2> HIDE DEF y
  <2>6. /\ Ended \in Seq(AnyBlock) /\ Len(Ended) = Len(blocks)
        /\ \A b \in 1..Len(blocks) : Ended[b] = IF b = current THEN y ELSE blocks[b]
    BY <1>1, <2>1, <2>4, <2>5, ExceptSeq
  <2> QED
    BY <2>1, <2>3, <2>6
<1> QED
  BY <1>2, <1>3

LEMMA OuterLists ==
  ASSUME IndInv, lists # <<>>
  PROVE  /\ Outer \in Seq(AnyList) /\ Len(Outer) = Len(lists) - 1
         /\ \A i \in 1..Len(lists) - 1 : Outer[i] = lists[i]
         /\ Len(lists) \in Nat /\ Len(lists) > 0
<1> DEFINE n == Len(lists) - 1
<1>1. /\ lists \in Seq(AnyList) /\ Len(lists) \in Nat /\ Len(lists) > 0
      /\ n \in Nat /\ \A i \in 1..n : lists[i] \in AnyList
  BY DEF IndInv, ListsOK
<1>2. Outer = SubSeq(lists, 1, n)
  BY DEF Outer
<1> HIDE DEF n
<1>3. /\ SubSeq(lists, 1, n) \in Seq(AnyList)
      /\ Len(SubSeq(lists, 1, n)) = n
      /\ \A i \in 1..n : SubSeq(lists, 1, n)[i] = lists[i]
  BY <1>1
<1> QED
  BY <1>1, <1>2, <1>3 DEF n

LEMMA ListParts ==
  ASSUME NEW kind \in {"then", "else", "loop"}, NEW next \in Nat, NEW else \in Nat
  PROVE  /\ List(kind, next, else) \in AnyList
         /\ List(kind, next, else).kind = kind
         /\ List(kind, next, else).next = next
         /\ List(kind, next, else).else = else
BY DEF List, AnyList

\* The blocks of the innermost construct.
LEMMA InnermostBlocks ==
  ASSUME IndInv, lists # <<>>
  PROVE  /\ Len(lists) \in 1..Len(lists) /\ Len(blocks) \in Nat
         /\ Innermost = lists[Len(lists)]
         /\ Innermost.kind \in {"then", "else", "loop"}
         /\ Innermost.next \in 1..Len(blocks)
         /\ current # Innermost.next
         /\ Innermost.else \in Nat
         /\ Innermost.kind = "then" =>
              /\ Innermost.else \in 1..Len(blocks) /\ Innermost.next < Innermost.else
              /\ Innermost.else # current
<1>1. Len(lists) \in 1..Len(lists) /\ Len(blocks) \in Nat
  BY DEF IndInv, ListsOK, BlocksOK
<1>2. Innermost = lists[Len(lists)]
  BY DEF Innermost
<1>3. /\ lists[Len(lists)].kind \in {"then", "else", "loop"}
      /\ lists[Len(lists)].next \in 1..Len(blocks)
      /\ lists[Len(lists)].else \in 0..Len(blocks)
      /\ lists[Len(lists)].kind = "then" => lists[Len(lists)].next < lists[Len(lists)].else
  BY <1>1, Numbers DEF IndInv, ListsOK
<1>4. /\ current # lists[Len(lists)].next
      /\ lists[Len(lists)].kind = "then" => lists[Len(lists)].else # current
  <2>1. CASE current = NoBlock
    BY <1>1, <1>3, <2>1 DEF NoBlock
  <2>2. CASE current # NoBlock
    BY <1>1, <2>2, CurrentBlock
  <2> QED
    BY <2>1, <2>2
<1> QED
  BY <1>1, <1>2, <1>3, <1>4

LEMMA BeginElseBuilds ==
  ASSUME IndInv, BeginElse
  PROVE  ListsOK' /\ BlocksOK' /\ StatusesOK' /\ ReachedOK' /\ Len(lists') = Len(lists)
<1> PICK K, next, else :
       K \in Nat /\ K = Len(lists) /\ next = Innermost.next /\ else = Innermost.else
  BY DEF IndInv, ListsOK
<1> DEFINE last == List("else", next, else)
<1>1. /\ lists # <<>> /\ Innermost.kind = "then"
      /\ blocks' = Ended /\ lists' = Append(Outer, last) /\ current' = else
  BY DEF BeginElse
<1>2. /\ K \in 1..K /\ K \in Nat /\ Len(blocks) \in Nat
      /\ next = lists[K].next /\ else = lists[K].else /\ lists[K].kind = "then"
      /\ next \in 1..Len(blocks) /\ else \in 1..Len(blocks) /\ next < else
      /\ current # next /\ current # else
  BY <1>1, InnermostBlocks
<1>3. last \in AnyList /\ last.kind = "else" /\ last.next = next /\ last.else = else
  BY <1>2, ListParts, SMTT(30)
<1> HIDE DEF last
<1>4. /\ lists' \in Seq(AnyList) /\ Len(lists') = K
      /\ \A k \in 1..K - 1 : lists'[k] = lists[k]
      /\ lists'[K] = last
  <2>1. /\ Outer \in Seq(AnyList) /\ Len(Outer) = K - 1
        /\ \A i \in 1..K - 1 : Outer[i] = lists[i]
    BY <1>1, OuterLists
  <2>2. /\ Append(Outer, last) \in Seq(AnyList)
        /\ Append(Outer, last) # <<>>
        /\ Len(Append(Outer, last)) = Len(Outer) + 1
        /\ \A i \in 1..Len(Outer) : Append(Outer, last)[i] = Outer[i]
        /\ Append(Outer, last)[Len(Outer) + 1] = last
    BY <1>3, <2>1, AppendProperties, Zenon
  <2>3. K - 1 + 1 = K
    BY <1>2
  <2> QED
    BY <1>1, <2>1, <2>2, <2>3
<1>5. /\ Ended \in Seq(AnyBlock) /\ Len(Ended) = Len(blocks)
      /\ \A b \in 1..Len(blocks) : b # current => Ended[b] = blocks[b]
      /\ current # NoBlock =>
           BlockOK(Ended[current], Len(blocks)) /\ Finished(Ended[current])
  BY <1>1, EndedBlocks
<1>6. \A k \in 1..K :
        /\ lists'[k].next = lists[k].next /\ lists'[k].else = lists[k].else
        /\ lists'[k].kind = IF k = K THEN "else" ELSE lists[k].kind
        /\ LastOf(lists'[k]) <= LastOf(lists[k])
  <2>1. ASSUME NEW k \in 1..K, k # K
        PROVE  lists'[k] = lists[k] /\ LastOf(lists[k]) \in Nat
    BY <1>2, <1>4, <2>1, Numbers DEF IndInv
  <2>2. LastOf(lists'[K]) = next /\ LastOf(lists[K]) = else
    BY <1>2, <1>3, <1>4 DEF LastOf
  <2> QED
    BY <1>2, <1>3, <1>4, <2>1, <2>2
<1>7. \A k \in 0..K : Looping(k)' <=> Looping(k)
  BY <1>2, <1>6 DEF Looping
<1>8. \A b \in 1..Len(blocks) : Unfinished(b)' <=> Unfinished(b) /\ b # current
  <2> SUFFICES ASSUME NEW b \in 1..Len(blocks)
               PROVE  Unfinished(b)' <=> Unfinished(b) /\ b # current
    OBVIOUS
  <2>1. ASSUME Unfinished(b)' PROVE Unfinished(b) /\ b # current
    <3>1. CASE b = else
      BY <1>2, <3>1 DEF Unfinished
    <3>2. CASE b # else
      <4>1. PICK k \in 1..K : \/ b = lists[k].next
                              \/ lists[k].kind = "then" /\ b = lists[k].else
        BY <1>1, <1>2, <1>4, <1>6, <2>1, <3>2 DEF Unfinished
      <4>2. b # current
        BY <1>2, <4>1, CurrentBlock DEF NoBlock
      <4> QED
        BY <1>2, <4>1, <4>2 DEF Unfinished
    <3> QED
      BY <3>1, <3>2
  <2>2. ASSUME Unfinished(b), b # current PROVE Unfinished(b)'
    <3>1. PICK k \in 1..K : \/ b = lists[k].next
                            \/ lists[k].kind = "then" /\ b = lists[k].else
      BY <2>2 DEF Unfinished
    <3>2. CASE b = lists[k].next
      BY <1>4, <1>6, <3>2 DEF Unfinished
    <3>3. CASE lists[k].kind = "then" /\ b = lists[k].else /\ k # K
      BY <1>4, <1>6, <3>3 DEF Unfinished
    <3>4. CASE b = lists[k].else /\ k = K
      BY <1>1, <1>2, <3>4 DEF Unfinished
    <3> QED
      BY <3>1, <3>2, <3>3, <3>4
  <2> QED
    BY <2>1, <2>2
<1>9. ListsOK'
  <2>1. \A k \in 1..K :
          /\ lists'[k].next \in 1..Len(blocks) /\ lists'[k].else \in 0..Len(blocks)
          /\ lists'[k].kind = "then" => lists'[k].next < lists'[k].else
    BY <1>6 DEF IndInv, ListsOK
  <2>2. ASSUME NEW j \in 1..K, NEW k \in 1..K, j < k
        PROVE  LastOf(lists'[j]) < lists'[k].next
    <3>1. LastOf(lists[j]) < lists[k].next
      BY <2>2 DEF IndInv, ListsOK
    <3>2. lists'[j] = lists[j]
      BY <1>2, <1>4, <2>2
    <3> QED
      BY <1>6, <3>1, <3>2
  <2>3. ASSUME NEW k \in 1..K PROVE LastOf(lists'[k]) < else
    <3>1. CASE k = K
      BY <1>2, <1>3, <1>4, <3>1 DEF LastOf
    <3>2. CASE k # K
      <4>1. LastOf(lists[k]) < next /\ LastOf(lists[k]) \in Nat
        BY <1>2, <3>2, Numbers DEF IndInv, ListsOK
      <4>2. lists'[k] = lists[k]
        BY <1>2, <1>4, <3>2
      <4> QED
        BY <1>2, <4>1, <4>2
    <3> QED
      BY <3>1, <3>2
  <2> QED
    BY <1>1, <1>2, <1>4, <1>5, <2>1, <2>2, <2>3 DEF ListsOK
<1>10. BlocksOK'
  <2>1. blocks' \in Seq(AnyBlock) /\ Len(blocks') = Len(blocks) /\ blocks' # <<>>
    BY <1>1, <1>2, <1>5
  <2>2. ASSUME NEW b \in 1..Len(blocks)
        PROVE  /\ BlockOK(blocks'[b], Len(blocks))
               /\ IF Unfinished(b)' THEN Open(blocks'[b]) ELSE Finished(blocks'[b])
    <3>1. CASE b = current
      BY <1>1, <1>2, <1>5, <1>8, <3>1 DEF NoBlock
    <3>2. CASE b # current
      BY <1>1, <1>5, <1>8, <3>2 DEF IndInv, BlocksOK
    <3> QED
      BY <3>1, <3>2
  <2> QED
    BY <2>1, <2>2 DEF BlocksOK
<1>11. StatusesOK'
  <2>1. ASSUME NEW b \in 1..Len(blocks), b # current, NEW k \in 0..K, StatusOK(blocks[b], k)
        PROVE  StatusOK(blocks[b], k)'
    <3>1. blocks'[b] = blocks[b]
      BY <1>1, <1>5, <2>1
    <3>2. k # 0 => lists'[k].next = lists[k].next
      BY <1>2, <1>6
    <3> QED
      BY <1>7, <2>1, <3>1, <3>2 DEF StatusOK
  <2>2. StatusOK(blocks[else], K)'
    <3>1. StatusOK(blocks[else], K)
      BY <1>2 DEF IndInv, StatusesOK
    <3>2. K \in 0..K
      BY <1>2
    <3> QED
      BY <1>2, <2>1, <3>1, <3>2
  <2>3. ASSUME NEW k \in 1..K, NEW b, b = lists[k].next
        PROVE  StatusOK(blocks[b], k - 1)'
    <3>1. b \in 1..Len(blocks) /\ b # current
      BY <1>2, <2>3, CurrentBlock DEF IndInv, ListsOK, NoBlock
    <3>2. k - 1 \in 0..K
      BY <1>2
    <3>3. StatusOK(blocks[b], k - 1)
      BY <2>3 DEF IndInv, StatusesOK
    <3> QED
      BY <2>1, <3>1, <3>2, <3>3
  <2>4. ASSUME NEW k \in 1..K, NEW b, lists'[k].kind = "then", b = lists[k].else
        PROVE  StatusOK(blocks[b], k)'
    <3>1. lists[k].kind = "then" /\ b \in 0..Len(blocks) /\ lists[k].next < b
      BY <1>2, <1>6, <2>4 DEF IndInv, ListsOK
    <3>2. b \in 1..Len(blocks) /\ b # current
      BY <1>2, <2>4, <3>1, CurrentBlock, Numbers DEF IndInv, NoBlock
    <3>3. StatusOK(blocks[b], k)
      BY <2>4, <3>1 DEF IndInv, StatusesOK
    <3> QED
      BY <1>2, <2>1, <3>2, <3>3
  <2>5. current' # NoBlock
    BY <1>1, <1>2 DEF NoBlock
  <2> QED
    BY <1>1, <1>4, <1>6, <2>2, <2>3, <2>4, <2>5 DEF StatusesOK
<1>12. ReachedOK'
  <2>1. ASSUME NEW S, Followed(S)' PROVE Followed(S)
    BY <1>1, <1>5, <1>8, <2>1 DEF Followed, Unfinished
  <2> SUFFICES ASSUME NEW S \in SUBSET Nat, Followed(S)
               PROVE  /\ ~Looping(K)' => else \in S
                      /\ \A k \in 1..K :
                           ~Looping(k - 1)' =>
                             /\ lists'[k].kind = "loop" => lists'[k].next \in S
                             /\ lists'[k].kind = "then" => lists'[k].else \in S
    BY <1>1, <1>4, <2>1 DEF ReachedOK
  <2>2. \A k \in 1..K :
          ~Looping(k - 1) => /\ lists[k].kind = "loop" => lists[k].next \in S
                             /\ lists[k].kind = "then" => lists[k].else \in S
    BY DEF IndInv, ReachedOK
  <2>3. ASSUME ~Looping(K) PROVE ~Looping(K - 1)
    BY <1>2, <2>3 DEF Looping
  <2>4. ~Looping(K)' => else \in S
    BY <1>2, <1>7, <2>2, <2>3
  <2>5. ASSUME NEW k \in 1..K, ~Looping(k - 1)'
        PROVE  /\ lists'[k].kind = "loop" => lists'[k].next \in S
               /\ lists'[k].kind = "then" => lists'[k].else \in S
    <3>1. ~Looping(k - 1)
      BY <1>2, <1>7, <2>5
    <3> QED
      BY <1>6, <2>2, <3>1
  <2> QED
    BY <2>4, <2>5
<1> QED
  BY <1>4, <1>9, <1>10, <1>11, <1>12

LEMMA BeginElsePreserves ==
  ASSUME IndInv, BeginElse
  PROVE  IndInv'
<1>1. /\ Len(program) \in Nat /\ Len(lists) \in Nat
      /\ Len(program) + Len(lists) + 1 <= MaxTokens
  BY PositionOK DEF BeginElse
<1>2. program' \in Seq(Meaning!Tokens) /\ Len(program') = Len(program) + 1
  <2>1. "else" \in Meaning!Tokens
    BY DEF Meaning!Tokens
  <2> QED
    BY <2>1, TokenRead DEF BeginElse
<1>3. ListsOK' /\ BlocksOK' /\ StatusesOK' /\ ReachedOK' /\ Len(lists') = Len(lists)
  BY BeginElseBuilds
<1>4. ProgramOK'
  BY <1>1, <1>2, <1>3, BoundsAssumption DEF ProgramOK
<1>5. PrintedOK' /\ RunOK'
  BY StillBuilding DEF BeginElse
<1> QED
  BY <1>3, <1>4, <1>5 DEF IndInv

\* The missing else block of an if goes on behind it, as the current block does.
LEMMA EndedElse ==
  ASSUME IndInv, lists # <<>>, Innermost.kind = "then"
  PROVE  LET bs == [Ended EXCEPT ![Innermost.else] = ClosedAsIs(@)]
         IN  /\ bs \in Seq(AnyBlock) /\ Len(bs) = Len(blocks)
             /\ \A b \in 1..Len(blocks) : b # Innermost.else => bs[b] = Ended[b]
             /\ BlockOK(bs[Innermost.else], Len(blocks)) /\ Finished(bs[Innermost.else])
             /\ bs[Innermost.else].trueBB = blocks[Innermost.else].trueBB
<1> PICK else : else = Innermost.else
  OBVIOUS
<1>1. /\ else \in 1..Len(blocks) /\ else # current /\ Len(blocks) \in Nat
      /\ else = lists[Len(lists)].else /\ lists[Len(lists)].kind = "then"
      /\ Len(lists) \in 1..Len(lists)
  BY InnermostBlocks
<1>2. /\ BlockOK(blocks[else], Len(blocks)) /\ Open(blocks[else])
      /\ StatusOK(blocks[else], Len(lists))
  BY <1>1 DEF IndInv, BlocksOK, Unfinished, StatusesOK
<1>3. blocks[else].trueBB \in 1..Len(blocks) /\ blocks[else].falseBB \in 1..Len(blocks)
  <2>1. blocks[else].trueBB # NoBlock
    BY <1>2, WhereTo
  <2>2. blocks[else].trueBB \in Nat /\ blocks[else].falseBB \in Nat
    BY <1>2, BlockParts DEF BlockOK
  <2> QED
    BY <1>1, <1>2, <2>1, <2>2 DEF BlockOK, NoBlock
<1> DEFINE y == ClosedAsIs(blocks[else])
<1>4. BlockOK(y, Len(blocks)) /\ Finished(y) /\ y.trueBB = blocks[else].trueBB
  BY <1>1, <1>2, <1>3, Closing DEF ClosedAsIs, Open
<1>5. /\ Ended \in Seq(AnyBlock) /\ Len(Ended) = Len(blocks)
      /\ Ended[else] = blocks[else]
  BY <1>1, EndedBlocks
<1> DEFINE bs == [Ended EXCEPT ![else] = ClosedAsIs(@)]
<1>6. bs = [Ended EXCEPT ![else] = y]
  BY <1>5
<1>7. y \in AnyBlock
  BY <1>4 DEF BlockOK
<1> HIDE DEF y, bs
<1>8. /\ bs \in Seq(AnyBlock) /\ Len(bs) = Len(Ended)
      /\ \A b \in 1..Len(Ended) : bs[b] = IF b = else THEN y ELSE Ended[b]
  BY <1>1, <1>5, <1>6, <1>7, ExceptSeq
<1>9. /\ bs \in Seq(AnyBlock) /\ Len(bs) = Len(blocks)
      /\ \A b \in 1..Len(blocks) : b # else => bs[b] = Ended[b]
      /\ BlockOK(bs[else], Len(blocks)) /\ Finished(bs[else])
      /\ bs[else].trueBB = blocks[else].trueBB
  BY <1>1, <1>4, <1>5, <1>8
<1> QED
  BY <1>9 DEF bs

LEMMA EndConstructBuilds ==
  ASSUME IndInv, EndConstruct
  PROVE  ListsOK' /\ BlocksOK' /\ StatusesOK' /\ ReachedOK' /\ Len(lists') = Len(lists) - 1
<1> PICK K, next, else, kind :
       /\ K \in Nat /\ K = Len(lists) /\ next = Innermost.next /\ else = Innermost.else
       /\ kind = Innermost.kind
  BY DEF IndInv, ListsOK
<1>1. /\ lists # <<>> /\ lists' = Outer /\ current' = next
      /\ kind = "then" => blocks' = [Ended EXCEPT ![Innermost.else] = ClosedAsIs(@)]
      /\ kind # "then" => blocks' = Ended
  BY DEF EndConstruct
<1>2. /\ K \in 1..K /\ Len(blocks) \in Nat
      /\ next = lists[K].next /\ else = lists[K].else /\ kind = lists[K].kind
      /\ kind \in {"then", "else", "loop"}
      /\ next \in 1..Len(blocks) /\ current # next
      /\ kind = "then" => else \in 1..Len(blocks) /\ next < else /\ current # else
  BY <1>1, InnermostBlocks
<1>3. /\ lists' \in Seq(AnyList) /\ Len(lists') = K - 1
      /\ \A k \in 1..K - 1 : lists'[k] = lists[k]
  BY <1>1, OuterLists
<1> DEFINE Closes(b) == b = current \/ (kind = "then" /\ b = else)
<1>4. /\ Ended \in Seq(AnyBlock) /\ Len(Ended) = Len(blocks)
      /\ \A b \in 1..Len(blocks) : b # current => Ended[b] = blocks[b]
      /\ current # NoBlock =>
           /\ BlockOK(Ended[current], Len(blocks)) /\ Finished(Ended[current])
           /\ Ended[current].trueBB = blocks[current].trueBB
  BY <1>1, EndedBlocks
<1>5. /\ blocks' \in Seq(AnyBlock) /\ Len(blocks') = Len(blocks)
      /\ \A b \in 1..Len(blocks) :
           IF Closes(b)
           THEN /\ BlockOK(blocks'[b], Len(blocks)) /\ Finished(blocks'[b])
                /\ blocks'[b].trueBB = blocks[b].trueBB
           ELSE blocks'[b] = blocks[b]
  <2>1. CASE kind = "then"
    <3>1. /\ blocks' \in Seq(AnyBlock) /\ Len(blocks') = Len(blocks)
          /\ \A b \in 1..Len(blocks) : b # else => blocks'[b] = Ended[b]
          /\ BlockOK(blocks'[else], Len(blocks)) /\ Finished(blocks'[else])
          /\ blocks'[else].trueBB = blocks[else].trueBB
      BY <1>1, <2>1, EndedElse
    <3> QED
      BY <1>2, <1>4, <2>1, <3>1 DEF NoBlock
  <2>2. CASE kind # "then"
    BY <1>1, <1>4, <2>2 DEF NoBlock
  <2> QED
    BY <2>1, <2>2
<1> HIDE DEF Closes
<1>6. \A k \in 0..K - 1 : Looping(k)' <=> Looping(k)
  BY <1>3 DEF Looping
<1>7. ASSUME NEW k \in 1..K - 1
      PROVE  /\ k \in 1..K /\ lists[k].next \in 1..Len(blocks)
             /\ LastOf(lists[k]) < next /\ LastOf(lists[k]) \in Nat
             /\ lists[k].next < next
             /\ lists[k].kind = "then" => lists[k].else < next /\ lists[k].else \in 1..Len(blocks)
  <2>1. k \in 1..K /\ k < K
    OBVIOUS
  <2>2. LastOf(lists[k]) < next
    BY <1>2, <2>1 DEF IndInv, ListsOK
  <2>3. lists[k].next \in 1..Len(blocks) /\ lists[k].else \in 0..Len(blocks)
    BY <2>1 DEF IndInv, ListsOK
  <2> QED
    BY <1>2, <2>1, <2>2, <2>3, Numbers DEF IndInv
<1>8. ASSUME NEW k \in 1..K - 1
      PROVE  /\ ~Closes(lists[k].next)
             /\ lists[k].kind = "then" => ~Closes(lists[k].else)
  BY <1>2, <1>7, CurrentBlock DEF Closes, NoBlock
<1>9. ~Closes(next)
  BY <1>2 DEF Closes
<1>10. \A b \in 1..Len(blocks) : Unfinished(b)' <=> Unfinished(b) /\ ~Closes(b)
  <2> SUFFICES ASSUME NEW b \in 1..Len(blocks)
               PROVE  Unfinished(b)' <=> Unfinished(b) /\ ~Closes(b)
    OBVIOUS
  <2>1. ASSUME Unfinished(b)' PROVE Unfinished(b) /\ ~Closes(b)
    <3>1. CASE b = next
      BY <1>2, <1>9, <3>1 DEF Unfinished
    <3>2. CASE b # next
      <4>1. PICK k \in 1..K - 1 : \/ b = lists[k].next
                                  \/ lists[k].kind = "then" /\ b = lists[k].else
        BY <1>1, <1>3, <2>1, <3>2 DEF Unfinished
      <4> QED
        BY <1>7, <1>8, <4>1 DEF Unfinished
    <3> QED
      BY <3>1, <3>2
  <2>2. ASSUME Unfinished(b), ~Closes(b) PROVE Unfinished(b)'
    <3>1. PICK k \in 1..K : \/ b = lists[k].next
                            \/ lists[k].kind = "then" /\ b = lists[k].else
      BY <2>2 DEF Unfinished, Closes
    <3>2. CASE k = K
      BY <1>1, <1>2, <2>2, <3>1, <3>2 DEF Unfinished, Closes
    <3>3. CASE k \in 1..K - 1
      BY <1>3, <3>1, <3>3 DEF Unfinished
    <3> QED
      BY <3>2, <3>3
  <2> QED
    BY <2>1, <2>2
<1>11. ListsOK'
  <2>1. \A k \in 1..K - 1 :
          /\ lists'[k].next \in 1..Len(blocks) /\ lists'[k].else \in 0..Len(blocks)
          /\ lists'[k].kind = "then" => lists'[k].next < lists'[k].else
    BY <1>3, <1>7 DEF IndInv, ListsOK
  <2>2. \A j, k \in 1..K - 1 : j < k => LastOf(lists'[j]) < lists'[k].next
    BY <1>3, <1>7 DEF IndInv, ListsOK
  <2>3. \A k \in 1..K - 1 : LastOf(lists'[k]) < next
    BY <1>3, <1>7
  <2> QED
    BY <1>1, <1>2, <1>3, <1>5, <2>1, <2>2, <2>3 DEF ListsOK
<1>12. BlocksOK'
  <2>1. blocks' # <<>>
    BY <1>2, <1>5
  <2>2. ASSUME NEW b \in 1..Len(blocks)
        PROVE  /\ BlockOK(blocks'[b], Len(blocks))
               /\ IF Unfinished(b)' THEN Open(blocks'[b]) ELSE Finished(blocks'[b])
    <3>1. CASE Closes(b)
      BY <1>5, <1>10, <3>1
    <3>2. CASE ~Closes(b)
      BY <1>5, <1>10, <3>2 DEF IndInv, BlocksOK
    <3> QED
      BY <3>1, <3>2
  <2> QED
    BY <1>5, <2>1, <2>2 DEF BlocksOK
<1>13. StatusesOK'
  <2>1. ASSUME NEW b \in 1..Len(blocks), ~Closes(b), NEW k \in 0..K - 1, StatusOK(blocks[b], k)
        PROVE  StatusOK(blocks[b], k)'
    <3>1. blocks'[b] = blocks[b]
      BY <1>5, <2>1
    <3>2. k # 0 => lists'[k].next = lists[k].next
      BY <1>3
    <3> QED
      BY <1>6, <2>1, <3>1, <3>2 DEF StatusOK
  <2>2. StatusOK(blocks[next], K - 1)'
    <3>1. StatusOK(blocks[next], K - 1)
      BY <1>2 DEF IndInv, StatusesOK
    <3>2. K - 1 \in 0..K - 1
      BY <1>2
    <3> QED
      BY <1>2, <1>9, <2>1, <3>1, <3>2
  <2>3. ASSUME NEW k \in 1..K - 1, NEW b, b = lists[k].next
        PROVE  StatusOK(blocks[b], k - 1)'
    <3>1. b \in 1..Len(blocks) /\ ~Closes(b) /\ k \in 1..K
      BY <1>7, <1>8, <2>3
    <3>2. k - 1 \in 0..K - 1
      OBVIOUS
    <3>3. StatusOK(blocks[b], k - 1)
      BY <2>3, <3>1 DEF IndInv, StatusesOK
    <3> QED
      BY <2>1, <3>1, <3>2, <3>3
  <2>4. ASSUME NEW k \in 1..K - 1, NEW b, lists[k].kind = "then", b = lists[k].else
        PROVE  StatusOK(blocks[b], k)'
    <3>1. b \in 1..Len(blocks) /\ ~Closes(b) /\ k \in 1..K
      BY <1>7, <1>8, <2>4
    <3>2. k \in 0..K - 1
      OBVIOUS
    <3>3. StatusOK(blocks[b], k)
      BY <2>4, <3>1 DEF IndInv, StatusesOK
    <3> QED
      BY <2>1, <3>1, <3>2, <3>3
  <2>5. current' # NoBlock
    BY <1>1, <1>2 DEF NoBlock
  <2> QED
    BY <1>1, <1>3, <2>2, <2>3, <2>4, <2>5 DEF StatusesOK
<1>14. ReachedOK'
  <2>1. ASSUME NEW S, Followed(S)' PROVE Followed(S)
    <3> SUFFICES ASSUME NEW b \in 1..Len(blocks), b \in S, ~Unfinished(b)
                 PROVE  blocks[b].trueBB \in S /\ blocks[b].falseBB \in S
      BY <2>1 DEF Followed
    <3>1. ~Closes(b)
      BY <1>2 DEF Closes, Unfinished
    <3> QED
      BY <1>5, <1>10, <2>1, <3>1 DEF Followed
  <2> SUFFICES ASSUME NEW S \in SUBSET Nat, Followed(S), Followed(S)'
               PROVE  /\ ~Looping(K - 1)' => next \in S
                      /\ \A k \in 1..K - 1 :
                           ~Looping(k - 1)' =>
                             /\ lists'[k].kind = "loop" => lists'[k].next \in S
                             /\ lists'[k].kind = "then" => lists'[k].else \in S
    BY <1>1, <1>3, <2>1 DEF ReachedOK
  <2>2. \A k \in 1..K :
          ~Looping(k - 1) => /\ lists[k].kind = "loop" => lists[k].next \in S
                             /\ lists[k].kind = "then" => lists[k].else \in S
    BY DEF IndInv, ReachedOK
  <2>3. ASSUME NEW k \in 1..K - 1, ~Looping(k - 1)'
        PROVE  /\ lists'[k].kind = "loop" => lists'[k].next \in S
               /\ lists'[k].kind = "then" => lists'[k].else \in S
    <3>1. ~Looping(k - 1) /\ k \in 1..K
      BY <1>6, <2>3
    <3> QED
      BY <1>3, <2>2, <3>1
  <2>4. ASSUME ~Looping(K - 1)' PROVE next \in S
    <3>1. ~Looping(K - 1)
      BY <1>2, <1>6, <2>4
    <3>2. CASE kind = "loop"
      BY <1>2, <2>2, <3>1, <3>2
    <3>3. ASSUME kind # "loop" PROVE ~Looping(K)
      <4>1. \A j \in 1..K : j = K \/ j \in 1..K - 1
        OBVIOUS
      <4> QED
        BY <1>2, <3>1, <3>3, <4>1 DEF Looping
    <3>4. CASE kind = "then"
      <4>1. else \in S
        BY <1>2, <2>2, <3>1, <3>4
      <4>2. else \in 1..Len(blocks) /\ Closes(else) /\ ~Unfinished(else)'
        BY <1>2, <1>10, <3>4 DEF Closes
      <4>3. blocks'[else].trueBB \in S
        BY <1>5, <4>1, <4>2 DEF Followed
      <4>4. StatusOK(blocks[else], K)
        BY <1>2, <3>4 DEF IndInv, StatusesOK
      <4>5. blocks[else].trueBB = next
        BY <1>1, <3>3, <3>4, <4>4, WhereTo
      <4> QED
        BY <1>5, <4>2, <4>3, <4>5
    <3>5. CASE kind = "else"
      <4>1. ~Looping(K)
        BY <3>3, <3>5
      <4>2. current # NoBlock /\ current \in S
        BY <4>1 DEF IndInv, StatusesOK, ReachedOK
      <4>3. current \in 1..Len(blocks) /\ StatusOK(blocks[current], K)
        BY <4>2, CurrentBlock
      <4> PICK c : c = current
        OBVIOUS
      <4>4. Closes(c) /\ c \in 1..Len(blocks) /\ c \in S
        BY <4>2, <4>3 DEF Closes
      <4>5. ~Unfinished(c)' /\ blocks'[c].trueBB = blocks[c].trueBB
        BY <1>5, <1>10, <4>4
      <4>6. blocks'[c].trueBB \in S
        BY <1>5, <4>4, <4>5 DEF Followed
      <4>7. blocks[current].trueBB = next
        BY <1>1, <4>1, <4>3, WhereTo
      <4> QED
        BY <4>5, <4>6, <4>7
    <3> QED
      BY <1>2, <3>2, <3>4, <3>5
  <2> QED
    BY <2>3, <2>4
<1> QED
  BY <1>3, <1>11, <1>12, <1>13, <1>14

LEMMA EndConstructPreserves ==
  ASSUME IndInv, EndConstruct
  PROVE  IndInv'
<1>1. /\ Len(program) \in Nat /\ Len(lists) \in Nat
      /\ Len(program) + Len(lists) <= MaxTokens
  BY DEF IndInv, ProgramOK, ListsOK
<1>2. program' \in Seq(Meaning!Tokens) /\ Len(program') = Len(program) + 1
  <2>1. "end" \in Meaning!Tokens
    BY DEF Meaning!Tokens
  <2> QED
    BY <2>1, TokenRead DEF EndConstruct
<1>3. ListsOK' /\ BlocksOK' /\ StatusesOK' /\ ReachedOK' /\ Len(lists') = Len(lists) - 1
  BY EndConstructBuilds
<1>4. ProgramOK'
  BY <1>1, <1>2, <1>3, BoundsAssumption DEF ProgramOK
<1>5. PrintedOK' /\ RunOK'
  BY StillBuilding DEF EndConstruct
<1> QED
  BY <1>3, <1>4, <1>5 DEF IndInv

-----------------------------------------------------------------------------
(* A construct begins.                                                      *)
LEMMA Extended ==
  ASSUME NEW s \in Seq(AnyBlock), NEW t \in Seq(AnyBlock)
  PROVE  /\ s \o t \in Seq(AnyBlock) /\ Len(s \o t) = Len(s) + Len(t)
         /\ \A b \in 1..Len(s) : (s \o t)[b] = s[b]
         /\ \A i \in 1..Len(t) : (s \o t)[Len(s) + i] = t[i]
<1> DEFINE c == s \o t
<1>1. /\ c \in Seq(AnyBlock)
      /\ Len(c) = Len(s) + Len(t)
      /\ \A i \in 1..Len(s) + Len(t) : c[i] = IF i <= Len(s) THEN s[i] ELSE t[i - Len(s)]
  BY ConcatProperties, Zenon
<1>2. Len(s) \in Nat /\ Len(t) \in Nat
  OBVIOUS
<1> HIDE DEF c
<1>3. ASSUME NEW i \in 1..Len(t) PROVE c[Len(s) + i] = t[i]
  <2>1. Len(s) + i \in 1..Len(s) + Len(t) /\ ~(Len(s) + i <= Len(s))
    BY <1>2
  <2>2. Len(s) + i - Len(s) = i
    BY <1>2
  <2> QED
    BY <1>1, <2>1, <2>2
<1>4. /\ c \in Seq(AnyBlock) /\ Len(c) = Len(s) + Len(t)
      /\ \A b \in 1..Len(s) : c[b] = s[b]
  BY <1>1, <1>2
<1> QED
  BY <1>3, <1>4 DEF c

\* The current block branches to a block to come, and new ones are made.
Branched(entry) == [blocks EXCEPT ![current] = Closed(@, entry, entry)]

Rebuilt(n, m, entry, new) ==
  /\ blocks' \in Seq(AnyBlock) /\ Len(blocks') = m
  /\ \A b \in 1..n :
       IF b = current
       THEN /\ BlockOK(blocks'[b], m) /\ Finished(blocks'[b])
            /\ blocks'[b].trueBB = entry
       ELSE blocks'[b] = blocks[b] /\ BlockOK(blocks'[b], m)
  /\ \A i \in 1..Len(new) : blocks'[n + i] = new[i]

LEMMA Constructed ==
  ASSUME IndInv, current # NoBlock, NEW n, n = Len(blocks),
         NEW m \in Nat, NEW entry \in 1..m,
         NEW new \in Seq(AnyBlock), Len(new) # 0, m = n + Len(new),
         blocks' = Branched(entry) \o new
  PROVE  Rebuilt(n, m, entry, new)
<1> DEFINE y == Closed(blocks[current], entry, entry)
<1> PICK bs : bs = Branched(entry)
  OBVIOUS
<1>1. /\ current \in 1..Len(blocks) /\ Len(blocks) \in Nat
      /\ BlockOK(blocks[current], Len(blocks)) /\ Open(blocks[current])
      /\ Len(new) \in Nat
  BY CurrentBlock
<1>2. BlockOK(y, m) /\ Finished(y) /\ y.trueBB = entry
  <2>1. BlockOK(blocks[current], m)
    BY <1>1, BlockGrows
  <2> QED
    BY <1>1, <2>1, Closing DEF Open
<1>3. y \in AnyBlock
  BY <1>2 DEF BlockOK
<1>4. blocks \in Seq(AnyBlock) /\ bs = [blocks EXCEPT ![current] = y]
  BY DEF IndInv, BlocksOK, Branched
<1> HIDE DEF y
<1>5. /\ bs \in Seq(AnyBlock) /\ Len(bs) = Len(blocks)
      /\ \A b \in 1..Len(blocks) : bs[b] = IF b = current THEN y ELSE blocks[b]
  BY <1>1, <1>3, <1>4, ExceptSeq
<1>6. blocks' = bs \o new
  OBVIOUS
<1>7. /\ blocks' \in Seq(AnyBlock) /\ Len(blocks') = m
      /\ \A b \in 1..Len(blocks) : blocks'[b] = bs[b]
      /\ \A i \in 1..Len(new) : blocks'[Len(blocks) + i] = new[i]
  <2>1. /\ bs \o new \in Seq(AnyBlock) /\ Len(bs \o new) = Len(bs) + Len(new)
        /\ \A b \in 1..Len(bs) : (bs \o new)[b] = bs[b]
        /\ \A i \in 1..Len(new) : (bs \o new)[Len(bs) + i] = new[i]
    <3>1. bs \in Seq(AnyBlock) /\ new \in Seq(AnyBlock)
      BY <1>5
    <3>2. \A s, t \in Seq(AnyBlock) :
            /\ s \o t \in Seq(AnyBlock) /\ Len(s \o t) = Len(s) + Len(t)
            /\ \A b \in 1..Len(s) : (s \o t)[b] = s[b]
            /\ \A i \in 1..Len(t) : (s \o t)[Len(s) + i] = t[i]
      BY Extended, Zenon
    <3> QED
      BY <3>1, <3>2, Zenon
  <2> QED
    BY <1>5, <1>6, <2>1
<1>8. \A b \in 1..Len(blocks) : BlockOK(blocks[b], m)
  BY <1>1, BlockGrows DEF IndInv, BlocksOK
<1> QED
  BY <1>2, <1>5, <1>7, <1>8 DEF Rebuilt

\* A list begins, and its blocks come after the n old ones.
NewList(list, body, n) ==
  /\ list \in AnyList /\ body \in Nat
  /\ list.next > n /\ list.next <= LastOf(list) /\ LastOf(list) < body
  /\ list.kind \in {"then", "loop"} /\ (list.kind = "loop" => list.else = 0)
  /\ list.kind = "then" => list.next < list.else
  /\ blocks' \in Seq(AnyBlock) /\ body <= Len(blocks')
  /\ lists' = Append(lists, list) /\ current' = body

\* The k lists around it stay what they were.
Deeper(list, body, n, k) ==
  /\ ListsOK' /\ Len(lists') = k + 1
  /\ \A j \in 1..k : j \in 1..Len(lists') /\ lists'[j] = lists[j]
  /\ lists'[k + 1] = list
  /\ \A j \in 0..k : Looping(j)' <=> Looping(j)
  /\ Looping(k + 1)' <=> Looping(k) \/ list.kind = "loop"
  /\ \A b \in 1..n : Unfinished(b)' <=> Unfinished(b) /\ b # current
  /\ \A b : b > n =>
       (Unfinished(b)' <=> \/ b = body \/ b = list.next
                           \/ list.kind = "then" /\ b = list.else)

LEMMA Nested ==
  ASSUME IndInv, current # NoBlock, NEW list, NEW body, NEW n, NEW K,
         K = Len(lists), n = Len(blocks), NewList(list, body, n)
  PROVE  Deeper(list, body, n, K)
<1> USE DEF NewList
<1>0. K \in Nat /\ n \in Nat
  BY DEF IndInv, ListsOK, BlocksOK
<1>1. /\ lists' \in Seq(AnyList) /\ Len(lists') = K + 1
      /\ \A k \in 1..K : lists'[k] = lists[k]
      /\ lists'[K + 1] = list
  <2>1. lists \in Seq(AnyList)
    BY DEF IndInv, ListsOK
  <2> QED
    BY <2>1, AppendProperties
<1>2. /\ list.next \in Nat /\ list.else \in Nat /\ Len(blocks') \in Nat
      /\ list.kind = "then" => LastOf(list) = list.else
      /\ list.kind = "loop" => LastOf(list) = list.next
  BY DEF AnyList, LastOf
<1>3. \A k \in 1..K + 1 : k = K + 1 \/ k \in 1..K
  BY <1>0
<1>4. ASSUME NEW k \in 1..K
      PROVE  /\ lists[k].next \in 1..n /\ lists[k].else \in 0..n
             /\ LastOf(lists[k]) \in 0..n
             /\ lists[k].kind = "then" => lists[k].next < lists[k].else
             /\ lists[k].next # current
             /\ lists[k].kind = "then" => lists[k].else # current
  <2>1. lists[k].next \in 1..n /\ lists[k].else \in 0..n
    BY DEF IndInv, ListsOK
  <2>2. /\ lists[k].next # current
        /\ lists[k].kind = "then" => lists[k].else # current
    BY CurrentBlock
  <2>3. LastOf(lists[k]) \in 0..n
    BY <1>0, <2>1 DEF LastOf
  <2>4. lists[k].kind = "then" => lists[k].next < lists[k].else
    BY DEF IndInv, ListsOK
  <2> QED
    BY <2>1, <2>2, <2>3, <2>4
<1>5. ListsOK'
  <2>1. ASSUME NEW k \in 1..K + 1
        PROVE  /\ lists'[k].next \in 1..Len(blocks') /\ lists'[k].else \in 0..Len(blocks')
               /\ lists'[k].kind = "then" => lists'[k].next < lists'[k].else
               /\ LastOf(lists'[k]) < body
    <3>1. CASE k = K + 1
      BY <1>0, <1>1, <1>2, <3>1
    <3>2. CASE k \in 1..K
      <4>1. n < body /\ n <= Len(blocks')
        BY <1>0, <1>2
      <4> QED
        BY <1>0, <1>1, <1>2, <1>4, <3>2, <4>1, SMTT(30)
    <3> QED
      BY <1>3, <3>1, <3>2
  <2>2. ASSUME NEW j \in 1..K + 1, NEW k \in 1..K + 1, j < k
        PROVE  LastOf(lists'[j]) < lists'[k].next
    <3>1. CASE k = K + 1
      <4>1. j \in 1..K
        BY <2>2, <3>1
      <4> QED
        BY <1>0, <1>1, <1>2, <1>4, <3>1, <4>1
    <3>2. CASE k \in 1..K
      <4>1. j \in 1..K
        BY <2>2, <3>2
      <4> QED
        BY <1>0, <1>1, <2>2, <3>2, <4>1 DEF IndInv, ListsOK
    <3> QED
      BY <1>3, <3>1, <3>2
  <2>3. body \in 0..Len(blocks')
    BY <1>0, <1>2
  <2> QED
    BY <1>0, <1>1, <2>1, <2>2, <2>3 DEF ListsOK
<1>6. \A k \in 0..K : Looping(k)' <=> Looping(k)
  BY <1>0, <1>1 DEF Looping
<1>7. Looping(K + 1)' <=> Looping(K) \/ list.kind = "loop"
  BY <1>0, <1>1, <1>3 DEF Looping
<1>8. ASSUME NEW b \in 1..n
      PROVE  Unfinished(b)' <=> Unfinished(b) /\ b # current
  <2>1. b # body /\ b # list.next /\ (list.kind = "then" => b # list.else)
    BY <1>0, <1>2
  <2>2. Unfinished(b)' <=> \E k \in 1..K : \/ b = lists[k].next
                                           \/ lists[k].kind = "then" /\ b = lists[k].else
    <3>1. K + 1 \in 1..K + 1 /\ \A k \in 1..K : k \in 1..K + 1
      BY <1>0
    <3> QED
      BY <1>0, <1>1, <1>3, <2>1, <3>1 DEF Unfinished
  <2> QED
    BY <1>4, <2>2 DEF Unfinished
<1>9. ASSUME NEW b, b > n
      PROVE  Unfinished(b)' <=> \/ b = body \/ b = list.next
                                \/ list.kind = "then" /\ b = list.else
  <2>1. \A k \in 1..K : b # lists[k].next /\ (lists[k].kind = "then" => b # lists[k].else)
    BY <1>4, <1>9
  <2>2. K + 1 \in 1..K + 1 /\ \A k \in 1..K : k \in 1..K + 1
    BY <1>0
  <2> QED
    BY <1>0, <1>1, <1>3, <2>1, <2>2 DEF Unfinished
<1>10. \A k \in 1..K : k \in 1..Len(lists') /\ lists'[k] = lists[k]
  BY <1>0, <1>1
<1>11. /\ ListsOK' /\ Len(lists') = K + 1
       /\ \A k \in 1..K : k \in 1..Len(lists') /\ lists'[k] = lists[k]
       /\ lists'[K + 1] = list
  BY <1>0, <1>1, <1>5, <1>10, Zenon
<1> QED
  BY <1>6, <1>7, <1>8, <1>9, <1>11 DEF Deeper

\* The status that the current block hands on.
LEMMA HandedOn ==
  ASSUME IndInv, current # NoBlock, NEW m \in Nat, Len(blocks) <= m
  PROVE  LET this == blocks[current]
         IN  /\ this.continueBB \in 0..m /\ this.breakBB \in 0..m
             /\ this.trueBB \in 0..m /\ this.falseBB \in 0..m
             /\ this.trueBB = this.falseBB
             /\ StatusOK(this, Len(lists))
<1>1. /\ Len(blocks) \in Nat
      /\ BlockOK(blocks[current], Len(blocks)) /\ Open(blocks[current])
      /\ StatusOK(blocks[current], Len(lists))
  BY CurrentBlock
<1>2. /\ blocks[current].continueBB \in Nat /\ blocks[current].breakBB \in Nat
      /\ blocks[current].trueBB \in Nat /\ blocks[current].falseBB \in Nat
  BY <1>1, BlockParts DEF BlockOK
<1> QED
  BY <1>1, <1>2 DEF BlockOK, Open

\* The old blocks after a construct has begun.
LEMMA OldBlocks ==
  ASSUME IndInv, current # NoBlock, NEW n, n = Len(blocks), NEW K, K = Len(lists),
         lists' # <<>>, Len(lists') = K + 1, \A k \in 1..K : lists'[k] = lists[k],
         \A k \in 0..K : Looping(k)' <=> Looping(k),
         \A b \in 1..n : b # current => blocks'[b] = blocks[b]
  PROVE  \A k \in 1..K :
           /\ StatusOK(blocks[lists[k].next], k - 1)'
           /\ lists[k].kind = "then" => StatusOK(blocks[lists[k].else], k)'
<1>1. K \in Nat /\ n \in Nat
  BY DEF IndInv, ListsOK, BlocksOK
<1>2. ASSUME NEW b \in 1..n, b # current, NEW k \in 0..K, StatusOK(blocks[b], k)
      PROVE  StatusOK(blocks[b], k)'
  <2>1. blocks'[b] = blocks[b]
    BY <1>2
  <2>2. k # 0 => lists'[k].next = lists[k].next
    BY <1>1
  <2> QED
    BY <1>2, <2>1, <2>2 DEF StatusOK
<1>3. ASSUME NEW k \in 1..K
      PROVE  /\ lists'[k] = lists[k]
             /\ lists[k].next \in 1..n /\ lists[k].next # current
             /\ lists[k].kind = "then" => lists[k].else \in 1..n /\ lists[k].else # current
             /\ StatusOK(blocks[lists[k].next], k - 1)
             /\ lists[k].kind = "then" => StatusOK(blocks[lists[k].else], k)
  <2>1. lists[k].next \in 1..n /\ lists[k].else \in 0..n
    BY DEF IndInv, ListsOK
  <2>2. lists[k].kind = "then" => lists[k].next < lists[k].else
    BY DEF IndInv, ListsOK
  <2>3. /\ lists[k].next # current
        /\ lists[k].kind = "then" => lists[k].else # current
    BY CurrentBlock
  <2>4. /\ StatusOK(blocks[lists[k].next], k - 1)
        /\ lists[k].kind = "then" => StatusOK(blocks[lists[k].else], k)
    BY DEF IndInv, StatusesOK
  <2> QED
    BY <1>1, <2>1, <2>2, <2>3, <2>4
<1>4. ASSUME NEW k \in 1..K, NEW b, b = lists[k].next
      PROVE  StatusOK(blocks[b], k - 1)'
  <2>1. k - 1 \in 0..K
    BY <1>1
  <2> QED
    BY <1>2, <1>3, <1>4, <2>1
<1>5. ASSUME NEW k \in 1..K, NEW b, lists[k].kind = "then", b = lists[k].else
      PROVE  StatusOK(blocks[b], k)'
  <2>1. k \in 0..K
    BY <1>1
  <2> QED
    BY <1>2, <1>3, <1>5, <2>1
<1> QED
  BY <1>3, <1>4, <1>5

\* What is reached from the old blocks.
LEMMA OldReached ==
  ASSUME IndInv, current # NoBlock, NEW n, n = Len(blocks),
         Len(blocks') \in Nat, Len(blocks') >= n,
         \A b \in 1..n : b # current => blocks'[b] = blocks[b],
         \A b \in 1..n : Unfinished(b)' <=> Unfinished(b) /\ b # current,
         NEW S \in SUBSET Nat, Followed(S)'
  PROVE  /\ ~Looping(Len(lists)) => current \in S
         /\ \A k \in 1..Len(lists) :
              ~Looping(k - 1) => /\ lists[k].kind = "loop" => lists[k].next \in S
                                 /\ lists[k].kind = "then" => lists[k].else \in S
<1>1. n \in Nat
  BY DEF IndInv, BlocksOK
<1>2. Followed(S)
  <2> SUFFICES ASSUME NEW b \in 1..n, b \in S, ~Unfinished(b)
               PROVE  blocks[b].trueBB \in S /\ blocks[b].falseBB \in S
    BY DEF Followed
  <2>1. b # current /\ b \in 1..Len(blocks')
    BY <1>1 DEF Unfinished
  <2>2. blocks'[b] = blocks[b] /\ ~Unfinished(b)'
    BY <2>1
  <2> QED
    BY <2>1, <2>2 DEF Followed
<1> QED
  BY <1>2 DEF IndInv, ReachedOK

\* The new blocks and their statuses.
NewBlocks(list, body, n, m) ==
  /\ \A b \in n + 1..m :
       /\ BlockOK(blocks'[b], m)
       /\ IF b = body \/ b = list.next \/ (list.kind = "then" /\ b = list.else)
          THEN Open(blocks'[b]) ELSE Finished(blocks'[b])
  /\ blocks'[list.next].continueBB = blocks[current].continueBB
  /\ blocks'[list.next].breakBB = blocks[current].breakBB
  /\ blocks'[list.next].trueBB = blocks[current].trueBB
  /\ list.kind = "loop" => blocks'[body].trueBB # NoBlock
  /\ list.kind = "then" =>
       /\ blocks'[body].trueBB = list.next /\ blocks'[list.else].trueBB = list.next
       /\ blocks'[body].continueBB = blocks[current].continueBB
       /\ blocks'[body].breakBB = blocks[current].breakBB
       /\ blocks'[list.else].continueBB = blocks[current].continueBB
       /\ blocks'[list.else].breakBB = blocks[current].breakBB

\* What is reached through the old block.
Entered(list, body) ==
  \A S \in SUBSET Nat :
    Followed(S)' /\ current \in S =>
      /\ list.kind = "loop" => list.next \in S
      /\ list.kind = "then" => list.else \in S /\ body \in S

\* What the lemmas above give together.
LEMMA Begun ==
  ASSUME IndInv, current # NoBlock, NEW n, n = Len(blocks), NEW K, K = Len(lists),
         NEW m, m \in Nat, n < m, NEW entry, NEW new, Rebuilt(n, m, entry, new),
         NEW list, NEW body, NewList(list, body, n),
         NewBlocks(list, body, n, m), Entered(list, body)
  PROVE  ListsOK' /\ BlocksOK' /\ StatusesOK' /\ ReachedOK' /\ Len(lists') = Len(lists) + 1
<1> USE DEF Rebuilt, NewBlocks
<1>1. /\ K \in Nat /\ n \in Nat /\ current \in 1..n
      /\ list.next \in Nat /\ LastOf(list) \in Nat /\ body > 0 /\ list.next > 0
      /\ current' = body /\ list.kind \in {"then", "loop"}
  <2>1. K \in Nat /\ n \in Nat /\ current \in 1..n
    BY CurrentBlock DEF IndInv, ListsOK, BlocksOK
  <2>2. list.next \in Nat /\ list.else \in Nat
    BY DEF NewList, AnyList
  <2>3. LastOf(list) \in Nat
    BY <2>2 DEF LastOf
  <2> QED
    BY <2>1, <2>2, <2>3 DEF NewList
<1>2. /\ ListsOK' /\ Len(lists') = K + 1
      /\ \A k \in 1..K : k \in 1..Len(lists') /\ lists'[k] = lists[k]
      /\ lists'[K + 1] = list
      /\ \A k \in 0..K : Looping(k)' <=> Looping(k)
      /\ Looping(K + 1)' <=> Looping(K) \/ list.kind = "loop"
      /\ \A b \in 1..n : Unfinished(b)' <=> Unfinished(b) /\ b # current
      /\ \A b : b > n =>
           (Unfinished(b)' <=> \/ b = body \/ b = list.next
                               \/ list.kind = "then" /\ b = list.else)
  <2>1. Deeper(list, body, n, K)
    BY Nested
  <2> QED
    BY <2>1 DEF Deeper
<1>3. BlocksOK'
  <2>1. blocks' # <<>>
    BY <1>1
  <2>2. ASSUME NEW b \in 1..m
        PROVE  /\ BlockOK(blocks'[b], m)
               /\ IF Unfinished(b)' THEN Open(blocks'[b]) ELSE Finished(blocks'[b])
    <3>1. CASE b \in 1..n /\ b # current
      <4>1. Unfinished(b)' <=> Unfinished(b)
        BY <1>2, <3>1
      <4>2. IF Unfinished(b) THEN Open(blocks[b]) ELSE Finished(blocks[b])
        BY <3>1 DEF IndInv, BlocksOK
      <4> QED
        BY <3>1, <4>1, <4>2
    <3>2. CASE b = current
      <4>1. ~Unfinished(b)'
        BY <1>1, <1>2, <3>2
      <4> QED
        BY <1>1, <3>2, <4>1
    <3>3. CASE b \in n + 1..m
      <4>1. b > n
        BY <1>1, <3>3
      <4> QED
        BY <1>2, <3>3, <4>1
    <3>4. b \in 1..n \/ b \in n + 1..m
      BY <1>1
    <3> QED
      BY <3>1, <3>2, <3>3, <3>4
  <2> QED
    BY <2>1, <2>2 DEF BlocksOK
<1>4. StatusesOK'
  <2>1. StatusOK(blocks[current], K)
    BY CurrentBlock
  <2>2. ASSUME NEW b, b = list.next PROVE StatusOK(blocks[b], K)'
    <3>1. K # 0 => lists'[K].next = lists[K].next
      BY <1>1, <1>2
    <3>2. K \in 0..K
      BY <1>1
    <3> QED
      BY <1>2, <2>1, <2>2, <3>1, <3>2 DEF StatusOK
  <2>3. /\ StatusOK(blocks[body], K + 1)'
        /\ \A b : list.kind = "then" /\ b = list.else => StatusOK(blocks[b], K + 1)'
    <3>1. K + 1 # 0 /\ K \in 0..K /\ list.next # NoBlock
      BY <1>1 DEF NoBlock
    <3>2. Looping(K + 1)' <=> Looping(K) \/ list.kind = "loop"
      BY <1>2
    <3>3. CASE list.kind = "loop"
      BY <3>2, <3>3 DEF StatusOK
    <3>4. CASE list.kind = "then"
      BY <1>2, <2>1, <3>1, <3>2, <3>4 DEF StatusOK
    <3> QED
      BY <1>1, <3>3, <3>4
  <2>4. \A k \in 1..K :
          /\ StatusOK(blocks[lists[k].next], k - 1)'
          /\ lists[k].kind = "then" => StatusOK(blocks[lists[k].else], k)'
    <3>1. lists' # <<>> /\ \A k \in 1..K : lists'[k] = lists[k]
      BY <1>1, <1>2
    <3>2. \A k \in 0..K : Looping(k)' <=> Looping(k)
      BY <1>2
    <3>3. Len(lists') = K + 1
      BY <1>2
    <3> QED
      BY <3>1, <3>2, <3>3, OldBlocks
  <2>5. ASSUME NEW k \in 1..K + 1
        PROVE  /\ StatusOK(blocks[lists[k].next], k - 1)'
               /\ lists'[k].kind = "then" => StatusOK(blocks[lists[k].else], k)'
    <3>1. CASE k \in 1..K
      BY <1>2, <2>4, <3>1
    <3>2. CASE k = K + 1
      <4>1. k - 1 = K /\ lists'[k] = list
        BY <1>1, <1>2, <3>2
      <4> QED
        BY <2>2, <2>3, <3>2, <4>1
    <3> QED
      BY <1>1, <3>1, <3>2
  <2>6. current' # NoBlock
    BY <1>1 DEF NoBlock
  <2> QED
    BY <1>1, <1>2, <2>3, <2>5, <2>6 DEF StatusesOK
<1>5. ReachedOK'
  <2> SUFFICES ASSUME NEW S \in SUBSET Nat, Followed(S)'
               PROVE  /\ ~Looping(K + 1)' => body \in S
                      /\ \A k \in 1..K + 1 :
                           ~Looping(k - 1)' =>
                             /\ lists'[k].kind = "loop" => lists'[k].next \in S
                             /\ lists'[k].kind = "then" => lists'[k].else \in S
    BY <1>1, <1>2 DEF ReachedOK
  <2>1. /\ ~Looping(K) => current \in S
        /\ \A k \in 1..K :
             ~Looping(k - 1) => /\ lists[k].kind = "loop" => lists[k].next \in S
                                /\ lists[k].kind = "then" => lists[k].else \in S
    <3>1. \A b \in 1..n : Unfinished(b)' <=> Unfinished(b) /\ b # current
      BY <1>2
    <3>2. Len(blocks') \in Nat /\ Len(blocks') >= n
      BY <1>1
    <3> QED
      BY <3>1, <3>2, OldReached
  <2>2. ~Looping(K + 1)' => body \in S
    BY <1>1, <1>2, <2>1 DEF Entered
  <2>3. ASSUME NEW k \in 1..K + 1, ~Looping(k - 1)'
        PROVE  /\ lists'[k].kind = "loop" => lists'[k].next \in S
               /\ lists'[k].kind = "then" => lists'[k].else \in S
    <3>1. CASE k \in 1..K
      <4>1. k - 1 \in 0..K
        BY <1>1, <3>1
      <4> QED
        BY <1>2, <2>1, <2>3, <3>1, <4>1
    <3>2. CASE k = K + 1
      <4>1. k - 1 = K /\ lists'[k] = list /\ K \in 0..K
        BY <1>1, <1>2, <3>2
      <4>2. current \in S
        BY <1>2, <2>1, <2>3, <4>1
      <4> QED
        BY <4>1, <4>2 DEF Entered
    <3> QED
      BY <1>1, <3>1, <3>2
  <2> QED
    BY <2>2, <2>3
<1> QED
  BY <1>2, <1>3, <1>4, <1>5

LEMMA BeginIfBuilds ==
  ASSUME IndInv, BeginIf, Position \in 1..MaxTokens
  PROVE  ListsOK' /\ BlocksOK' /\ StatusesOK' /\ ReachedOK' /\ Len(lists') = Len(lists) + 1
<1>0. PICK n, K, m, next, else, then, cond, c, bk, tb, at, list :
       /\ n = Len(blocks) /\ K = Len(lists) /\ m = n + 4
       /\ next = n + 1 /\ else = n + 2 /\ then = n + 3 /\ cond = n + 4
       /\ c = blocks[current].continueBB /\ bk = blocks[current].breakBB
       /\ tb = blocks[current].trueBB /\ at = Position /\ list = List("then", next, else)
  OBVIOUS
<1> DEFINE b1 == Block(c, bk, tb, tb)
           b2 == Block(c, bk, next, next)
           b4 == ClosedAsIs(With(Block(NoBlock, NoBlock, then, else), <<Op("cond", at)>>))
           new == <<b1, b2, b2, b4>>
<1>1. /\ current # NoBlock
      /\ blocks' = Branched(cond) \o new
      /\ lists' = Append(lists, list) /\ current' = then
  <2>1. current # NoBlock
    BY DEF BeginIf
  <2>2. blocks[current].falseBB = tb
    BY <1>0, <2>1, CurrentBlock DEF Open
  <2> QED
    BY <1>0, <2>2 DEF BeginIf, Branched
<1>2. /\ n \in Nat /\ K \in Nat /\ m \in Nat /\ current \in 1..n /\ at \in 1..MaxTokens
      /\ next \in 1..m /\ else \in 1..m /\ then \in 1..m /\ cond \in 1..m
  <2>1. n \in Nat /\ current \in 1..n
    BY <1>0, <1>1, CurrentBlock
  <2>2. K \in Nat
    BY <1>0 DEF IndInv, ListsOK
  <2> QED
    BY <1>0, <2>1, <2>2
<1>3. c \in 0..m /\ bk \in 0..m /\ tb \in 0..m /\ next \in 0..m
  <2>1. m \in Nat /\ Len(blocks) <= m
    BY <1>0, <1>2
  <2>2. /\ blocks[current].continueBB \in 0..m /\ blocks[current].breakBB \in 0..m
        /\ blocks[current].trueBB \in 0..m
    BY <1>1, <2>1, HandedOn, Zenon
  <2> QED
    BY <1>0, <1>2, <2>2
<1>4. Opened(b1, m, c, bk, tb) /\ Opened(b2, m, c, bk, next)
  BY <1>2, <1>3, NewOpenBlock, Zenon
<1>6. Branching(b4, m, then, else)
  <2>1. "cond" \in EventKinds
    BY DEF EventKinds
  <2> QED
    BY <1>2, <2>1, ExpressionBlock, Zenon
<1> HIDE DEF b1, b2, b4
<1>7. /\ new \in Seq(AnyBlock) /\ Len(new) = 4
      /\ new[1] = b1 /\ new[2] = b2 /\ new[3] = b2 /\ new[4] = b4
  BY <1>4, <1>6 DEF Opened, Branching
<1> HIDE DEF new
<1>8. Rebuilt(n, m, cond, new)
  <2>1. m = n + Len(new) /\ Len(new) # 0 /\ n = Len(blocks)
    BY <1>0, <1>7
  <2> QED
    BY <1>1, <1>2, <1>7, <2>1, Constructed, Zenon
<1>9. /\ blocks'[next] = b1 /\ blocks'[else] = b2 /\ blocks'[then] = b2 /\ blocks'[cond] = b4
  BY <1>0, <1>7, <1>8 DEF Rebuilt
<1>10. /\ list \in AnyList /\ list.kind = "then" /\ list.next = next /\ list.else = else
       /\ LastOf(list) = else
  BY <1>0, <1>2, ListParts, SMTT(30) DEF LastOf
<1>11. NewList(list, then, n)
  BY <1>0, <1>1, <1>2, <1>8, <1>10 DEF NewList, Rebuilt
<1>12. Entered(list, then)
  <2> SUFFICES ASSUME NEW S \in SUBSET Nat, Followed(S)', current \in S
               PROVE  else \in S /\ then \in S
    BY <1>10 DEF Entered
  <2>1. Deeper(list, then, n, K)
    BY <1>0, <1>1, <1>11, Nested
  <2>2. ~Unfinished(cond)'
    BY <1>0, <1>2, <1>10, <2>1 DEF Deeper
  <2>3. ASSUME NEW b, b = current PROVE ~Unfinished(b)'
    BY <1>2, <2>1, <2>3 DEF Deeper
  <2>4. current \in 1..m
    BY <1>0, <1>2
  <2>5. cond \in S
    BY <1>2, <1>8, <2>3, <2>4 DEF Followed, Rebuilt
  <2>6. blocks'[cond].trueBB \in S /\ blocks'[cond].falseBB \in S
    BY <1>2, <1>8, <2>2, <2>5 DEF Followed, Rebuilt
  <2> QED
    BY <1>6, <1>9, <2>6 DEF Branching
<1>13. NewBlocks(list, then, n, m)
  <2>1. ASSUME NEW b \in n + 1..m
        PROVE  /\ BlockOK(blocks'[b], m)
               /\ IF b = then \/ b = next \/ b = else
                  THEN Open(blocks'[b]) ELSE Finished(blocks'[b])
    <3>1. b = next \/ b = else \/ b = then \/ b = cond
      BY <1>0, <1>2
    <3>2. cond # next /\ cond # else /\ cond # then
      BY <1>0, <1>2
    <3> QED
      BY <1>4, <1>6, <1>9, <3>1, <3>2 DEF Opened, Branching
  <2> QED
    BY <1>0, <1>4, <1>9, <1>10, <2>1 DEF NewBlocks, Opened
<1>14. n < m
  BY <1>0, <1>2
<1> QED
  BY <1>0, <1>1, <1>2, <1>8, <1>11, <1>12, <1>13, <1>14, Begun, Zenon

LEMMA BeginIfPreserves ==
  ASSUME IndInv, BeginIf
  PROVE  IndInv'
<1>1. /\ Position \in 1..MaxTokens
      /\ Len(program) \in Nat /\ Len(lists) \in Nat
      /\ Len(program) + Len(lists) + 3 <= MaxTokens
  BY PositionOK DEF BeginIf
<1>2. program' \in Seq(Meaning!Tokens) /\ Len(program') = Len(program) + 1
  <2>1. "if" \in Meaning!Tokens
    BY DEF Meaning!Tokens
  <2> QED
    BY <2>1, TokenRead DEF BeginIf
<1>3. ListsOK' /\ BlocksOK' /\ StatusesOK' /\ ReachedOK' /\ Len(lists') = Len(lists) + 1
  BY <1>1, BeginIfBuilds
<1>4. ProgramOK'
  BY <1>1, <1>2, <1>3, BoundsAssumption DEF ProgramOK
<1>5. PrintedOK' /\ RunOK'
  BY StillBuilding DEF BeginIf
<1> QED
  BY <1>3, <1>4, <1>5 DEF IndInv

LEMMA BeginLoopBuilds ==
  ASSUME IndInv, NEW kind, BeginLoop(kind), Position \in 1..MaxTokens
  PROVE  ListsOK' /\ BlocksOK' /\ StatusesOK' /\ ReachedOK' /\ Len(lists') = Len(lists) + 1
<1>0. PICK n, K, m, next, body, cond, iter, init, c, bk, tb, at, list, e3, e4, e5 :
       /\ n = Len(blocks) /\ K = Len(lists) /\ m = n + 5
       /\ next = n + 1 /\ body = n + 2 /\ cond = n + 3 /\ iter = n + 4 /\ init = n + 5
       /\ c = blocks[current].continueBB /\ bk = blocks[current].breakBB
       /\ tb = blocks[current].trueBB /\ at = Position /\ list = List("loop", next, NoBlock)
       /\ e3 = <<Op("cond", at)>>
       /\ e4 = IF kind = "do" THEN <<>> ELSE <<Op("iter", at)>>
       /\ e5 = IF kind = "do" THEN <<>> ELSE <<Op("init", at)>>
  OBVIOUS
<1> DEFINE b1 == Block(c, bk, tb, tb)
           b2 == Block(iter, next, iter, iter)
           b3 == ClosedAsIs(With(Block(NoBlock, NoBlock, body, next), e3))
           b4 == ClosedAsIs(With(Block(NoBlock, NoBlock, cond, cond), e4))
           b5 == ClosedAsIs(With(Block(NoBlock, NoBlock, cond, cond), e5))
           new == <<b1, b2, b3, b4, b5>>
<1>1. /\ current # NoBlock
      /\ blocks' = Branched(init) \o new
      /\ lists' = Append(lists, list) /\ current' = body
  <2>1. current # NoBlock
    BY DEF BeginLoop
  <2>2. blocks[current].falseBB = tb
    BY <1>0, <2>1, CurrentBlock DEF Open
  <2> QED
    BY <1>0, <2>2 DEF BeginLoop, Branched
<1>2. /\ n \in Nat /\ K \in Nat /\ m \in Nat /\ current \in 1..n /\ at \in 1..MaxTokens
      /\ next \in 1..m /\ body \in 1..m /\ cond \in 1..m /\ iter \in 1..m /\ init \in 1..m
  <2>1. n \in Nat /\ current \in 1..n
    BY <1>0, <1>1, CurrentBlock
  <2>2. K \in Nat
    BY <1>0 DEF IndInv, ListsOK
  <2> QED
    BY <1>0, <2>1, <2>2
<1>3. c \in 0..m /\ bk \in 0..m /\ tb \in 0..m /\ next \in 0..m /\ iter \in 0..m
  <2>1. m \in Nat /\ Len(blocks) <= m
    BY <1>0, <1>2
  <2>2. /\ blocks[current].continueBB \in 0..m /\ blocks[current].breakBB \in 0..m
        /\ blocks[current].trueBB \in 0..m
    BY <1>1, <2>1, HandedOn, Zenon
  <2> QED
    BY <1>0, <1>2, <2>2
<1>4. Opened(b1, m, c, bk, tb) /\ Opened(b2, m, iter, next, iter)
  BY <1>2, <1>3, NewOpenBlock, Zenon
<1>5. "cond" \in EventKinds /\ "iter" \in EventKinds /\ "init" \in EventKinds
  BY DEF EventKinds
<1>6. /\ e3 = <<Op("cond", at)>>
      /\ e4 = <<>> \/ e4 = <<Op("iter", at)>>
      /\ e5 = <<>> \/ e5 = <<Op("init", at)>>
  BY <1>0, Zenon
<1>7. Branching(b3, m, body, next) /\ Branching(b4, m, cond, cond) /\ Branching(b5, m, cond, cond)
  <2>1. Branching(b3, m, body, next)
    BY <1>2, <1>5, <1>6, ExpressionBlock, Zenon
  <2>2. Branching(b4, m, cond, cond)
    BY <1>2, <1>5, <1>6, ExpressionBlock, Zenon
  <2>3. Branching(b5, m, cond, cond)
    BY <1>2, <1>5, <1>6, ExpressionBlock, Zenon
  <2> QED
    BY <2>1, <2>2, <2>3, Zenon
<1> HIDE DEF b1, b2, b3, b4, b5
<1>8. /\ new \in Seq(AnyBlock) /\ Len(new) = 5
      /\ new[1] = b1 /\ new[2] = b2 /\ new[3] = b3 /\ new[4] = b4 /\ new[5] = b5
  BY <1>4, <1>7 DEF Opened, Branching
<1> HIDE DEF new
<1>9. Rebuilt(n, m, init, new)
  <2>1. m = n + Len(new) /\ Len(new) # 0 /\ n = Len(blocks)
    BY <1>0, <1>8
  <2> QED
    BY <1>1, <1>2, <1>8, <2>1, Constructed, Zenon
<1>10. /\ blocks'[next] = b1 /\ blocks'[body] = b2 /\ blocks'[cond] = b3
       /\ blocks'[iter] = b4 /\ blocks'[init] = b5
  BY <1>0, <1>8, <1>9 DEF Rebuilt
<1>11. /\ list \in AnyList /\ list.kind = "loop" /\ list.next = next /\ list.else = 0
       /\ LastOf(list) = next
  <2>1. /\ "loop" \in {"then", "else", "loop"} /\ next \in Nat /\ NoBlock \in Nat
        /\ list = List("loop", next, NoBlock)
    BY <1>0, <1>2 DEF NoBlock
  <2>2. /\ list \in AnyList /\ list.kind = "loop" /\ list.next = next
        /\ list.else = NoBlock
    BY <2>1 DEF List, AnyList
  <2> QED
    BY <2>2 DEF LastOf, NoBlock
<1>12. NewList(list, body, n)
  BY <1>0, <1>1, <1>2, <1>9, <1>11 DEF NewList, Rebuilt
<1>13. Entered(list, body)
  <2> SUFFICES ASSUME NEW S \in SUBSET Nat, Followed(S)', current \in S
               PROVE  next \in S
    BY <1>11 DEF Entered
  <2>1. Deeper(list, body, n, K)
    BY <1>0, <1>1, <1>12, Nested
  <2>2. ~Unfinished(cond)' /\ ~Unfinished(init)'
    BY <1>0, <1>2, <1>11, <2>1, SMTT(30) DEF Deeper
  <2>3. ASSUME NEW b, b = current PROVE ~Unfinished(b)'
    BY <1>2, <2>1, <2>3 DEF Deeper
  <2>4. current \in 1..m
    BY <1>0, <1>2
  <2>5. init \in S
    BY <1>2, <1>9, <2>3, <2>4 DEF Followed, Rebuilt
  <2>6. blocks'[init].trueBB \in S
    BY <1>2, <1>9, <2>2, <2>5 DEF Followed, Rebuilt
  <2>7. cond \in S
    BY <1>7, <1>10, <2>6 DEF Branching
  <2>8. blocks'[cond].falseBB \in S
    BY <1>2, <1>9, <2>2, <2>7 DEF Followed, Rebuilt
  <2> QED
    BY <1>7, <1>10, <2>8 DEF Branching
<1>14. NewBlocks(list, body, n, m)
  <2>1. ASSUME NEW b \in n + 1..m
        PROVE  /\ BlockOK(blocks'[b], m)
               /\ IF b = body \/ b = next THEN Open(blocks'[b]) ELSE Finished(blocks'[b])
    <3>1. b = next \/ b = body \/ b = cond \/ b = iter \/ b = init
      BY <1>0, <1>2
    <3>2. \A x \in {cond, iter, init} : x # next /\ x # body
      BY <1>0, <1>2
    <3> QED
      BY <1>4, <1>7, <1>10, <3>1, <3>2 DEF Opened, Branching
  <2>2. blocks'[body].trueBB # NoBlock
    BY <1>2, <1>4, <1>10 DEF Opened, NoBlock
  <2> QED
    BY <1>0, <1>4, <1>10, <1>11, <2>1, <2>2 DEF NewBlocks, Opened
<1>15. n < m
  BY <1>0, <1>2
<1> QED
  BY <1>0, <1>1, <1>2, <1>9, <1>12, <1>13, <1>14, <1>15, Begun, Zenon

LEMMA BeginLoopPreserves ==
  ASSUME IndInv, NEW kind \in LoopKinds, BeginLoop(kind)
  PROVE  IndInv'
<1>1. /\ Position \in 1..MaxTokens
      /\ Len(program) \in Nat /\ Len(lists) \in Nat
      /\ Len(program) + Len(lists) + 3 <= MaxTokens
  BY PositionOK DEF BeginLoop
<1>2. program' \in Seq(Meaning!Tokens) /\ Len(program') = Len(program) + 1
  <2>1. kind \in Meaning!Tokens
    BY LoopKindsAssumption DEF Meaning!Tokens, Meaning!Loops
  <2> QED
    BY <2>1, TokenRead DEF BeginLoop
<1>3. ListsOK' /\ BlocksOK' /\ StatusesOK' /\ ReachedOK' /\ Len(lists') = Len(lists) + 1
  BY <1>1, BeginLoopBuilds
<1>4. ProgramOK'
  BY <1>1, <1>2, <1>3, BoundsAssumption DEF ProgramOK
<1>5. PrintedOK' /\ RunOK'
  BY StillBuilding DEF BeginLoop
<1> QED
  BY <1>3, <1>4, <1>5 DEF IndInv

-----------------------------------------------------------------------------
(* The end of the body: the current block goes nowhere and is left open.    *)
LEMMA EndFunctionPreserves ==
  ASSUME IndInv, EndFunction
  PROVE  IndInv'
<1>1. /\ UNCHANGED <<program, current, lists, layout, pc, flag, did>>
      /\ phase' = "print" /\ todo' = <<1>> /\ layout = <<>> /\ lists = <<>>
      /\ blocks' = Ended
  BY DEF EndFunction, IndInv, PrintedOK, Building
<1>2. ~Looping(Len(lists)) /\ Len(lists) = 0
  BY <1>1 DEF Looping
<1>3. current # NoBlock /\ blocks[current].trueBB = NoBlock
  <2>1. current # NoBlock
    BY <1>2 DEF IndInv, StatusesOK
  <2> QED
    BY <1>2, <2>1 DEF IndInv, StatusesOK, StatusOK
<1>4. current \in 1..Len(blocks) /\ BlockOK(blocks[current], Len(blocks))
      /\ Len(blocks) \in Nat
  BY <1>3, CurrentBlock
<1>5. blocks' = blocks
  <2>1. ClosedAsIs(blocks[current]) = blocks[current]
    BY <1>3, <1>4, ClosingNowhere
  <2>2. blocks' = [blocks EXCEPT ![current] = blocks[current]]
    BY <1>1, <1>3, <2>1 DEF Ended
  <2>3. blocks \in Seq(AnyBlock)
    BY DEF IndInv, BlocksOK
  <2>4. blocks = [b \in DOMAIN blocks |-> blocks[b]]
    BY <2>3
  <2> QED
    BY <2>2, <2>4
<1>6. \A b : Unfinished(b)' <=> Unfinished(b)
  BY <1>1 DEF Unfinished
<1>7. \A k : Looping(k)' <=> Looping(k)
  BY <1>1 DEF Looping
<1>8. \A S : Followed(S)' <=> Followed(S)
  BY <1>1, <1>5, <1>6 DEF Followed
<1>9. ProgramOK' /\ ListsOK'
  BY <1>1, <1>5 DEF IndInv, ProgramOK, ListsOK
<1>10. BlocksOK'
  BY <1>5, <1>6 DEF IndInv, BlocksOK
<1>11. StatusesOK'
  BY <1>1, <1>5, <1>7 DEF IndInv, StatusesOK, StatusOK
<1>12. ReachedOK'
  BY <1>1, <1>7, <1>8 DEF IndInv, ReachedOK
<1>13. PrintedOK'
  <2>1. todo' \in Seq(Nat) /\ Len(todo') = 1 /\ todo'[1] = 1
    BY <1>1
  <2>2. layout' \in Seq(Nat) /\ Len(layout') = 0 /\ DOMAIN layout' = {}
    BY <1>1
  <2>3. 1 <= Len(blocks')
    BY <1>4, <1>5
  <2>4. Seen(1)'
    BY <2>1 DEF Seen
  <2>5. \A b : ~Printed(b)'
    BY <2>2 DEF Printed
  <2> QED
    BY <1>1, <2>1, <2>2, <2>3, <2>4, <2>5 DEF PrintedOK
<1>15. RunOK'
  BY <1>1 DEF IndInv, RunOK
<1> QED
  BY <1>9, <1>10, <1>11, <1>12, <1>13, <1>15 DEF IndInv

-----------------------------------------------------------------------------
(* Printing and running.                                                    *)
\* The blocks stay as they are.
LEMMA BuiltStays ==
  ASSUME IndInv, UNCHANGED <<program, blocks, current, lists>>
  PROVE  ProgramOK' /\ ListsOK' /\ BlocksOK' /\ StatusesOK' /\ ReachedOK'
<1>1. \A b : Unfinished(b)' <=> Unfinished(b)
  BY DEF Unfinished
<1>2. \A k : Looping(k)' <=> Looping(k)
  BY DEF Looping
<1>3. \A S : Followed(S)' <=> Followed(S)
  BY <1>1 DEF Followed
<1>4. ProgramOK' /\ ListsOK'
  BY DEF IndInv, ProgramOK, ListsOK
<1>5. BlocksOK'
  BY <1>1 DEF IndInv, BlocksOK
<1>6. StatusesOK'
  BY <1>2 DEF IndInv, StatusesOK, StatusOK
<1>7. ReachedOK'
  BY <1>2, <1>3 DEF IndInv, ReachedOK
<1> QED
  BY <1>4, <1>5, <1>6, <1>7

\* So does what is printed, once the program runs.
LEMMA PrintedStays ==
  ASSUME IndInv, UNCHANGED <<blocks, lists, todo, layout>>,
         phase = "run", phase' \in {"run", "over"}
  PROVE  PrintedOK'
<1>1. \A b : Printed(b)' <=> Printed(b)
  BY DEF Printed
<1>2. \A b : Seen(b)' <=> Seen(b)
  BY <1>1 DEF Seen
<1> QED
  BY <1>1, <1>2 DEF IndInv, PrintedOK

\* The next call, and the calls behind it.
LEMMA TailParts ==
  ASSUME NEW s \in Seq(Nat), s # <<>>
  PROVE  /\ Len(s) \in Nat /\ Len(s) >= 1 /\ Head(s) = s[1] /\ s[1] \in Nat
         /\ Tail(s) \in Seq(Nat) /\ Len(Tail(s)) = Len(s) - 1
         /\ \A i \in 1..Len(s) - 1 : Tail(s)[i] = s[i + 1]
OBVIOUS

\* Two calls more.
LEMMA Pushed ==
  ASSUME NEW s \in Seq(Nat), NEW t \in Nat, NEW f \in Nat
  PROVE  LET c == <<t, f>> \o s
         IN  /\ c \in Seq(Nat) /\ Len(c) = Len(s) + 2 /\ c[1] = t /\ c[2] = f
             /\ \A i \in 1..Len(s) : c[i + 2] = s[i]
<1> DEFINE two == <<t, f>>
           c == two \o s
<1>1. two \in Seq(Nat) /\ Len(two) = 2 /\ two[1] = t /\ two[2] = f
  OBVIOUS
<1> HIDE DEF two
<1>2. /\ c \in Seq(Nat)
      /\ Len(c) = Len(two) + Len(s)
      /\ \A i \in 1..Len(two) + Len(s) : c[i] = IF i <= Len(two) THEN two[i] ELSE s[i - Len(two)]
  BY <1>1, ConcatProperties, Zenon
<1>3. Len(s) \in Nat
  OBVIOUS
<1> HIDE DEF c
<1>4. PICK n : n = Len(s)
  OBVIOUS
<1>5. /\ n \in Nat /\ c \in Seq(Nat) /\ Len(c) = 2 + n
      /\ \A i \in 1..2 + n : c[i] = IF i <= 2 THEN two[i] ELSE s[i - 2]
  BY <1>1, <1>2, <1>3, <1>4
<1>6. c[1] = t /\ c[2] = f
  <2>1. 1 \in 1..2 + n /\ 2 \in 1..2 + n
    BY <1>5
  <2> QED
    BY <1>1, <1>5, <2>1
<1>7. ASSUME NEW i \in 1..n PROVE c[i + 2] = s[i]
  <2>1. i + 2 \in 1..2 + n /\ ~(i + 2 <= 2) /\ (i + 2) - 2 = i
    BY <1>5
  <2> QED
    BY <1>5, <2>1
<1>8. Len(c) = n + 2
  BY <1>5
<1> QED
  BY <1>4, <1>5, <1>6, <1>7, <1>8 DEF c, two

\* A call for a block that is printed, or for none.
LEMMA SkipPreserves ==
  ASSUME IndInv, phase = "print", todo # <<>>,
         Head(todo) = NoBlock \/ Printed(Head(todo)),
         todo' = Tail(todo), UNCHANGED <<blocks, lists, phase, layout>>
  PROVE  PrintedOK'
<1>1. todo \in Seq(Nat) /\ \A i \in 1..Len(todo) : todo[i] <= Len(blocks)
  BY DEF IndInv, PrintedOK
<1>2. /\ Len(todo) \in Nat /\ Len(todo) >= 1 /\ Head(todo) = todo[1]
      /\ todo' \in Seq(Nat) /\ Len(todo') = Len(todo) - 1
      /\ \A i \in 1..Len(todo) - 1 : todo'[i] = todo[i + 1]
  BY <1>1, TailParts
<1>3. \A b : Printed(b)' <=> Printed(b)
  BY DEF Printed
<1>4. ASSUME NEW b, b # NoBlock, Seen(b) PROVE Seen(b)'
  <2>1. CASE Printed(b)
    BY <1>3, <2>1 DEF Seen
  <2>2. ASSUME NEW i \in 1..Len(todo), todo[i] = b PROVE Seen(b)'
    <3>1. CASE i = 1
      BY <1>2, <1>3, <1>4, <2>2, <3>1 DEF Seen
    <3>2. CASE i # 1
      <4>1. i - 1 \in 1..Len(todo) - 1 /\ (i - 1) + 1 = i
        BY <1>2, <3>2
      <4>2. todo'[i - 1] = b
        BY <1>2, <2>2, <4>1
      <4> QED
        BY <1>2, <4>1, <4>2 DEF Seen
    <3> QED
      BY <3>1, <3>2
  <2> QED
    BY <1>4, <2>1, <2>2 DEF Seen
<1>5. \A i \in 1..Len(todo') : todo'[i] <= Len(blocks')
  <2> SUFFICES ASSUME NEW i \in 1..Len(todo') PROVE todo'[i] <= Len(blocks)
    OBVIOUS
  <2>1. i + 1 \in 1..Len(todo) /\ i \in 1..Len(todo) - 1
    BY <1>2
  <2> QED
    BY <1>1, <1>2, <2>1
<1>6. Seen(1)'
  BY <1>4 DEF IndInv, PrintedOK, NoBlock
<1>7. \A b \in 1..Len(blocks) :
        Printed(b)' => /\ blocks[b].trueBB # NoBlock => Seen(blocks[b].trueBB)
                       /\ blocks[b].falseBB # NoBlock => Seen(blocks[b].falseBB)
  BY <1>3 DEF IndInv, PrintedOK
<1>8. \A b \in 1..Len(blocks) :
        Printed(b)' => /\ blocks'[b].trueBB # NoBlock => Seen(blocks[b].trueBB)'
                       /\ blocks'[b].falseBB # NoBlock => Seen(blocks[b].falseBB)'
  <2> SUFFICES ASSUME NEW b \in 1..Len(blocks), Printed(b)'
               PROVE  /\ blocks[b].trueBB # NoBlock => Seen(blocks[b].trueBB)'
                      /\ blocks[b].falseBB # NoBlock => Seen(blocks[b].falseBB)'
    OBVIOUS
  <2>1. ASSUME NEW t, t = blocks[b].trueBB, t # NoBlock PROVE Seen(t)'
    BY <1>4, <1>7, <2>1
  <2>2. ASSUME NEW f, f = blocks[b].falseBB, f # NoBlock PROVE Seen(f)'
    BY <1>4, <1>7, <2>2
  <2>3. blocks[b].trueBB # NoBlock => Seen(blocks[b].trueBB)'
    <3> PICK t : t = blocks[b].trueBB
      OBVIOUS
    <3>1. blocks'[b].trueBB = t
      OBVIOUS
    <3>2. t # NoBlock => Seen(t)'
      BY <2>1
    <3> QED
      BY <3>1, <3>2 DEF Seen, Printed
  <2>4. blocks[b].falseBB # NoBlock => Seen(blocks[b].falseBB)'
    <3> PICK f : f = blocks[b].falseBB
      OBVIOUS
    <3>1. blocks'[b].falseBB = f
      OBVIOUS
    <3>2. f # NoBlock => Seen(f)'
      BY <2>2
    <3> QED
      BY <3>1, <3>2 DEF Seen, Printed
  <2> QED
    BY <2>3, <2>4
<1> QED
  BY <1>2, <1>5, <1>6, <1>8 DEF IndInv, PrintedOK

\* A block is printed and its branches are called for.
LEMMA PrintPreserves ==
  ASSUME IndInv, phase = "print", todo # <<>>,
         Head(todo) # NoBlock, ~Printed(Head(todo)),
         layout' = Append(layout, Head(todo)),
         todo' = <<blocks[Head(todo)].trueBB, blocks[Head(todo)].falseBB>> \o Tail(todo),
         UNCHANGED <<blocks, lists, phase>>
  PROVE  PrintedOK'
<1>0. PICK p, t, f, n : /\ p = Head(todo) /\ t = blocks[p].trueBB /\ f = blocks[p].falseBB
                        /\ n = Len(blocks)
  OBVIOUS
<1>1. todo \in Seq(Nat) /\ \A i \in 1..Len(todo) : todo[i] <= n
  BY <1>0 DEF IndInv, PrintedOK
<1>2. /\ Len(todo) \in Nat /\ Len(todo) >= 1 /\ p = todo[1] /\ p \in Nat
      /\ Tail(todo) \in Seq(Nat) /\ Len(Tail(todo)) = Len(todo) - 1
      /\ \A i \in 1..Len(todo) - 1 : Tail(todo)[i] = todo[i + 1]
  BY <1>0, <1>1, TailParts
<1>3. n \in Nat /\ p \in 1..n
  <2>1. n \in Nat
    BY <1>0 DEF IndInv, BlocksOK
  <2>2. p <= n /\ p # 0
    BY <1>0, <1>1, <1>2 DEF NoBlock
  <2> QED
    BY <1>2, <2>1, <2>2
<1>4. t \in 0..n /\ f \in 0..n
  <2>1. BlockOK(blocks[p], n)
    BY <1>0, <1>3 DEF IndInv, BlocksOK
  <2>2. blocks[p].trueBB \in Nat /\ blocks[p].falseBB \in Nat
    BY <2>1, BlockParts DEF BlockOK
  <2> QED
    BY <1>0, <1>3, <2>1, <2>2 DEF BlockOK
<1>5. /\ todo' \in Seq(Nat) /\ Len(todo') = Len(todo) + 1 /\ todo'[1] = t /\ todo'[2] = f
      /\ \A i \in 1..Len(todo) - 1 : todo'[i + 2] = todo[i + 1]
  <2>1. t \in Nat /\ f \in Nat /\ todo' = <<t, f>> \o Tail(todo)
    BY <1>0, <1>4
  <2>2. /\ todo' \in Seq(Nat) /\ Len(todo') = Len(Tail(todo)) + 2
        /\ todo'[1] = t /\ todo'[2] = f
        /\ \A i \in 1..Len(Tail(todo)) : todo'[i + 2] = Tail(todo)[i]
    BY <1>2, <2>1, Pushed
  <2> QED
    BY <1>2, <2>2
<1>6. /\ layout \in Seq(Nat) /\ Len(layout) \in Nat /\ DOMAIN layout = 1..Len(layout)
      /\ layout' \in Seq(Nat) /\ Len(layout') = Len(layout) + 1
      /\ DOMAIN layout' = 1..Len(layout) + 1
      /\ \A i \in 1..Len(layout) : layout'[i] = layout[i]
      /\ layout'[Len(layout) + 1] = p
  <2>1. layout \in Seq(Nat) /\ layout' = Append(layout, p)
    BY <1>0 DEF IndInv, PrintedOK
  <2> QED
    BY <1>2, <2>1
<1>7. \A b : Printed(b)' <=> Printed(b) \/ b = p
  BY <1>6 DEF Printed
<1>8. ASSUME NEW b, Seen(b) PROVE Seen(b)'
  <2>1. CASE Printed(b)
    BY <1>7, <2>1 DEF Seen
  <2>2. ASSUME NEW i \in 1..Len(todo), todo[i] = b PROVE Seen(b)'
    <3>1. CASE i = 1
      BY <1>2, <1>7, <2>2, <3>1 DEF Seen
    <3>2. CASE i # 1
      <4>1. i - 1 \in 1..Len(todo) - 1 /\ (i - 1) + 1 = i /\ (i - 1) + 2 = i + 1
            /\ i + 1 \in 1..Len(todo')
        BY <1>2, <1>5, <3>2
      <4>2. todo'[i + 1] = b
        BY <1>5, <2>2, <4>1
      <4> QED
        BY <4>1, <4>2 DEF Seen
    <3> QED
      BY <3>1, <3>2
  <2> QED
    BY <1>8, <2>1, <2>2 DEF Seen
<1>9. \A i \in 1..Len(todo') : todo'[i] <= n
  <2> SUFFICES ASSUME NEW i \in 1..Len(todo') PROVE todo'[i] <= n
    OBVIOUS
  <2>1. CASE i = 1 \/ i = 2
    BY <1>3, <1>4, <1>5, <2>1
  <2>2. CASE i > 2
    <3>1. i - 2 \in 1..Len(todo) - 1 /\ (i - 2) + 2 = i /\ (i - 2) + 1 \in 1..Len(todo)
      BY <1>2, <1>5, <2>2
    <3>2. todo'[i] = todo[(i - 2) + 1]
      BY <1>5, <3>1
    <3> QED
      BY <1>1, <3>1, <3>2
  <2> QED
    BY <1>2, <1>5, <2>1, <2>2
<1>10. \A i \in 1..Len(layout') : layout'[i] \in 1..n
  <2>1. \A i \in 1..Len(layout) : layout[i] \in 1..n
    BY <1>0 DEF IndInv, PrintedOK
  <2> QED
    BY <1>3, <1>6, <2>1
<1>11. ASSUME NEW b \in 1..n, Printed(b)', NEW x \in {blocks[b].trueBB, blocks[b].falseBB},
              x # NoBlock
       PROVE  Seen(x)'
  <2>1. CASE b = p
    <3>1. x = todo'[1] \/ x = todo'[2]
      BY <1>0, <1>5, <1>11, <2>1
    <3>2. 1 \in 1..Len(todo') /\ 2 \in 1..Len(todo')
      BY <1>2, <1>5
    <3> QED
      BY <3>1, <3>2 DEF Seen
  <2>2. CASE b # p
    <3>1. Printed(b)
      BY <1>7, <1>11, <2>2
    <3>2. Seen(x)
      BY <1>0, <1>11, <3>1 DEF IndInv, PrintedOK
    <3> QED
      BY <1>8, <3>2
  <2> QED
    BY <2>1, <2>2
<1>12. \A b \in 1..Len(blocks') :
         Printed(b)' => /\ blocks'[b].trueBB # NoBlock => Seen(blocks[b].trueBB)'
                        /\ blocks'[b].falseBB # NoBlock => Seen(blocks[b].falseBB)'
  <2> SUFFICES ASSUME NEW b \in 1..n, Printed(b)'
               PROVE  /\ blocks'[b].trueBB # NoBlock => Seen(blocks[b].trueBB)'
                      /\ blocks'[b].falseBB # NoBlock => Seen(blocks[b].falseBB)'
    BY <1>0
  <2>0. PICK x, y : x = blocks[b].trueBB /\ y = blocks[b].falseBB
    OBVIOUS
  <2>1. x # NoBlock => Seen(x)'
    BY <1>11, <2>0
  <2>2. y # NoBlock => Seen(y)'
    BY <1>11, <2>0
  <2>3. blocks'[b].trueBB = x /\ blocks'[b].falseBB = y
    BY <2>0
  <2> QED
    BY <2>1, <2>2, <2>3 DEF Seen, Printed
<1>13. Seen(1)'
  BY <1>8 DEF IndInv, PrintedOK
<1>14. Len(blocks') = n /\ phase' = "print" /\ lists' = <<>>
  BY <1>0 DEF IndInv, PrintedOK
<1> QED
  BY <1>5, <1>6, <1>9, <1>10, <1>12, <1>13, <1>14 DEF PrintedOK

LEMMA PrintBBPreserves ==
  ASSUME IndInv, PrintBB
  PROVE  IndInv'
<1>1. /\ phase = "print" /\ todo # <<>>
      /\ UNCHANGED <<program, blocks, current, lists, phase, pc, flag, did>>
  BY DEF PrintBB
<1>2. PrintedOK'
  <2>1. CASE Head(todo) = NoBlock \/ Printed(Head(todo))
    <3>1. todo' = Tail(todo) /\ layout' = layout
      BY <2>1 DEF PrintBB
    <3> QED
      BY <1>1, <2>1, <3>1, SkipPreserves
  <2>2. CASE Head(todo) # NoBlock /\ ~Printed(Head(todo))
    <3>1. /\ layout' = Append(layout, Head(todo))
          /\ todo' = <<blocks[Head(todo)].trueBB, blocks[Head(todo)].falseBB>> \o Tail(todo)
      BY <2>2 DEF PrintBB
    <3> QED
      BY <1>1, <2>2, <3>1, PrintPreserves
  <2> QED
    BY <2>1, <2>2
<1>3. ProgramOK' /\ ListsOK' /\ BlocksOK' /\ StatusesOK' /\ ReachedOK'
  BY <1>1, BuiltStays
<1>4. RunOK'
  BY <1>1 DEF IndInv, RunOK
<1> QED
  BY <1>2, <1>3, <1>4 DEF IndInv

LEMMA CallFunctionPreserves ==
  ASSUME IndInv, CallFunction
  PROVE  IndInv'
<1>1. /\ phase = "print" /\ todo = <<>> /\ phase' = "run" /\ pc' = <<1, 1>>
      /\ UNCHANGED <<program, blocks, current, lists, todo, layout, flag, did>>
  BY DEF CallFunction
<1>2. \A b : Printed(b)' <=> Printed(b)
  BY <1>1 DEF Printed
<1>3. \A b : Seen(b)' <=> Seen(b)
  BY <1>1, <1>2 DEF Seen
<1>4. PrintedOK'
  BY <1>1, <1>2, <1>3 DEF IndInv, PrintedOK
<1>6. RunOK'
  BY <1>1 DEF IndInv, RunOK
<1>7. ProgramOK' /\ ListsOK' /\ BlocksOK' /\ StatusesOK' /\ ReachedOK'
  BY <1>1, BuiltStays
<1> QED
  BY <1>4, <1>6, <1>7 DEF IndInv

\* The quads of a printed block: a jump leads to a printed block.
LEMMA PrintedOps ==
  ASSUME IndInv, phase = "run", NEW i \in DOMAIN layout
  PROVE  /\ layout[i] \in 1..Len(blocks)
         /\ blocks[layout[i]].ops \in Seq(AnyOp)
         /\ \A j \in 1..Len(blocks[layout[i]].ops) :
              LET op == blocks[layout[i]].ops[j]
              IN  /\ op.kind \in Jumps => Printed(op.at)
                  /\ op.kind \notin Jumps => op.at \in 1..MaxTokens
<1>0. PICK p : p = layout[i]
  OBVIOUS
<1>1. p \in 1..Len(blocks) /\ Printed(p)
  <2>1. DOMAIN layout = 1..Len(layout)
    BY DEF IndInv, PrintedOK
  <2> QED
    BY <1>0, <2>1 DEF IndInv, PrintedOK, Printed
<1>2. BlockOK(blocks[p], Len(blocks))
  BY <1>1 DEF IndInv, BlocksOK
<1>3. blocks[p].ops \in Seq(AnyOp)
  BY <1>2, BlockParts DEF BlockOK
<1>4. ASSUME NEW x \in {blocks[p].trueBB, blocks[p].falseBB}, x # NoBlock
      PROVE  Printed(x)
  <2>1. Seen(x) /\ todo = <<>>
    BY <1>1, <1>4 DEF IndInv, PrintedOK
  <2> QED
    BY <2>1 DEF Seen
<1>5. ASSUME NEW j \in 1..Len(blocks[p].ops), NEW op, op = blocks[p].ops[j]
      PROVE  /\ op.kind \in Jumps => Printed(op.at)
             /\ op.kind \notin Jumps => op.at \in 1..MaxTokens
  <2>1. OpOK(op, blocks[p], Len(blocks))
    BY <1>2, <1>5 DEF BlockOK
  <2>2. op.kind \in Jumps => op.at \in {blocks[p].trueBB, blocks[p].falseBB} /\ op.at # NoBlock
    BY <2>1 DEF OpOK, NoBlock
  <2> QED
    BY <1>4, <2>1, <2>2 DEF OpOK
<1>6. \A j \in 1..Len(blocks[p].ops) :
        /\ blocks[p].ops[j].kind \in Jumps => Printed(blocks[p].ops[j].at)
        /\ blocks[p].ops[j].kind \notin Jumps => blocks[p].ops[j].at \in 1..MaxTokens
  BY <1>5
<1> QED
  BY <1>0, <1>1, <1>3, <1>6

\* The instruction that runs.
LEMMA RunningInstruction ==
  ASSUME IndInv, Running, pc[2] <= Len(Code)
  PROVE  /\ Instruction.kind \in Jumps => Printed(Instruction.at)
         /\ Instruction.kind \notin Jumps => Instruction.at \in 1..MaxTokens
<1>1. phase = "run" /\ pc[1] \in Nat \ {0} /\ pc[2] \in Nat \ {0} /\ pc[1] <= Len(layout)
  BY DEF Running, IndInv, RunOK
<1>2. pc[1] \in DOMAIN layout
  <2>1. DOMAIN layout = 1..Len(layout) /\ Len(layout) \in Nat
    BY DEF IndInv, PrintedOK
  <2> QED
    BY <1>1, <2>1
<1>3. PICK ops : ops = Code
  OBVIOUS
<1>4. /\ ops \in Seq(AnyOp)
      /\ \A j \in 1..Len(ops) : /\ ops[j].kind \in Jumps => Printed(ops[j].at)
                                /\ ops[j].kind \notin Jumps => ops[j].at \in 1..MaxTokens
  BY <1>1, <1>2, <1>3, PrintedOps DEF Code
<1>5. pc[2] \in 1..Len(ops)
  BY <1>1, <1>3, <1>4
<1>6. Instruction = ops[pc[2]]
  BY <1>3 DEF Instruction
<1> QED
  BY <1>4, <1>5, <1>6

LEMMA ComputePreserves ==
  ASSUME IndInv, Compute
  PROVE  IndInv'
<1>1. /\ phase = "run" /\ phase' = "run" /\ Running /\ pc[2] <= Len(Code)
      /\ UNCHANGED <<program, blocks, current, lists, todo, layout>>
      /\ pc' = <<pc[1], pc[2] + 1>> /\ Instruction.kind \notin Jumps
  BY DEF Compute, Running, KeepCode, Following
<1>2. PICK value \in Meaning!Outcomes(program, Instruction.kind, Instruction.at) :
        /\ did' = Event(Instruction.kind, Instruction.at, value)
        /\ flag' = IF Instruction.kind = "cond" THEN value ELSE flag
  BY DEF Compute
<1>3. value \in BOOLEAN
  BY <1>2 DEF Meaning!Outcomes
<1>4. Instruction.at \in 1..MaxTokens
  BY <1>1, RunningInstruction
<1>5. RunOK'
  <2>1. phase' \in {"build", "print", "run", "over"}
    BY <1>1
  <2>2. pc' \in (Nat \ {0}) \X (Nat \ {0})
    BY <1>1 DEF IndInv, RunOK
  <2>3. flag' \in BOOLEAN
    BY <1>2, <1>3 DEF IndInv, RunOK
  <2>4. PICK at : at = Instruction.at
    OBVIOUS
  <2>5. did'.at = at /\ did'.value = value
    BY <1>2, <2>4 DEF Event, Meaning!Event
  <2>6. at \in 0..MaxTokens
    BY <1>4, <2>4
  <2> QED
    BY <1>3, <2>1, <2>2, <2>3, <2>5, <2>6, Zenon DEF RunOK
<1>6. PrintedOK'
  BY <1>1, PrintedStays
<1>7. ProgramOK' /\ ListsOK' /\ BlocksOK' /\ StatusesOK' /\ ReachedOK'
  BY <1>1, BuiltStays
<1> QED
  BY <1>5, <1>6, <1>7 DEF IndInv

LEMMA LeaveAndRetPreserves ==
  ASSUME IndInv, LeaveAndRet
  PROVE  IndInv'
<1>1. /\ phase = "run" /\ phase' = "over" /\ Running /\ pc[2] <= Len(Code)
      /\ UNCHANGED <<program, blocks, current, lists, todo, layout, pc, flag>>
      /\ Instruction.kind = "returned" /\ did' = Event("returned", Instruction.at, TRUE)
  BY DEF LeaveAndRet, Running, KeepCode
<1>2. Instruction.at \in 1..MaxTokens
  <2>1. Instruction.kind \notin Jumps
    BY <1>1 DEF Jumps
  <2> QED
    BY <1>1, <2>1, RunningInstruction
<1>3. RunOK'
  <2>1. phase' \in {"build", "print", "run", "over"}
    BY <1>1
  <2>2. pc' \in (Nat \ {0}) \X (Nat \ {0}) /\ flag' \in BOOLEAN
    BY <1>1 DEF IndInv, RunOK
  <2>3. PICK at : at = Instruction.at
    OBVIOUS
  <2>4. did'.at = at /\ did'.value = TRUE
    BY <1>1, <2>3 DEF Event, Meaning!Event
  <2>5. at \in 0..MaxTokens
    BY <1>2, <2>3
  <2> QED
    BY <2>1, <2>2, <2>4, <2>5, Zenon DEF RunOK
<1>4. PrintedOK'
  BY <1>1, PrintedStays
<1>5. ProgramOK' /\ ListsOK' /\ BlocksOK' /\ StatusesOK' /\ ReachedOK'
  BY <1>1, BuiltStays
<1> QED
  BY <1>3, <1>4, <1>5 DEF IndInv

LEMMA JumpPreserves ==
  ASSUME IndInv, Jump
  PROVE  IndInv'
<1>1. /\ phase = "run" /\ phase' = "run" /\ Running /\ pc[2] <= Len(Code)
      /\ UNCHANGED <<program, blocks, current, lists, todo, layout, flag, did>>
      /\ Instruction.kind \in Jumps
      /\ pc' = Label(Instruction.at) \/ pc' = <<pc[1], pc[2] + 1>>
  BY DEF Jump, Running, KeepCode, Following
<1>2. pc' \in (Nat \ {0}) \X (Nat \ {0})
  <2>1. CASE pc' = Label(Instruction.at)
    <3>1. Printed(Instruction.at)
      BY <1>1, RunningInstruction
    <3>2. PICK i \in DOMAIN layout : layout[i] = Instruction.at
      BY <3>1 DEF Printed
    <3>3. (CHOOSE j \in DOMAIN layout : layout[j] = Instruction.at) \in DOMAIN layout
      BY <3>2, Zenon
    <3>4. PICK j \in DOMAIN layout : pc' = <<j, 1>>
      BY <2>1, <3>3 DEF Label
    <3>5. DOMAIN layout = 1..Len(layout)
      BY DEF IndInv, PrintedOK
    <3>6. j \in Nat \ {0}
      BY <3>5
    <3> QED
      BY <3>4, <3>6
  <2>2. CASE pc' = <<pc[1], pc[2] + 1>>
    BY <2>2 DEF IndInv, RunOK
  <2> QED
    BY <1>1, <2>1, <2>2
<1>3. RunOK'
  BY <1>1, <1>2 DEF IndInv, RunOK
<1>4. PrintedOK'
  BY <1>1, PrintedStays
<1>5. ProgramOK' /\ ListsOK' /\ BlocksOK' /\ StatusesOK' /\ ReachedOK'
  BY <1>1, BuiltStays
<1> QED
  BY <1>3, <1>4, <1>5 DEF IndInv

LEMMA FallThroughPreserves ==
  ASSUME IndInv, FallThrough
  PROVE  IndInv'
<1>1. /\ phase = "run" /\ phase' = "run" /\ pc' = <<pc[1] + 1, 1>>
      /\ UNCHANGED <<program, blocks, current, lists, todo, layout, flag, did>>
  BY DEF FallThrough, Running, KeepCode
<1>2. RunOK'
  BY <1>1 DEF IndInv, RunOK
<1>3. PrintedOK'
  BY <1>1, PrintedStays
<1>4. ProgramOK' /\ ListsOK' /\ BlocksOK' /\ StatusesOK' /\ ReachedOK'
  BY <1>1, BuiltStays
<1> QED
  BY <1>2, <1>3, <1>4 DEF IndInv

LEMMA FallOffPreserves ==
  ASSUME IndInv, FallOff
  PROVE  IndInv'
<1>1. /\ phase = "run" /\ phase' = "over" /\ did' = Event("fell off", 0, TRUE)
      /\ UNCHANGED <<program, blocks, current, lists, todo, layout, pc, flag>>
  BY DEF FallOff, KeepCode
<1>2. RunOK'
  <2>1. did'.at = 0 /\ did'.value = TRUE
    BY <1>1 DEF Event, Meaning!Event
  <2>2. 0 \in 0..MaxTokens /\ TRUE \in BOOLEAN
    BY BoundsAssumption
  <2>3. phase' \in {"build", "print", "run", "over"}
    BY <1>1
  <2>4. pc' \in (Nat \ {0}) \X (Nat \ {0}) /\ flag' \in BOOLEAN
    BY <1>1 DEF IndInv, RunOK
  <2> QED
    BY <2>1, <2>2, <2>3, <2>4, Zenon DEF RunOK
<1>3. PrintedOK'
  BY <1>1, PrintedStays
<1>4. ProgramOK' /\ ListsOK' /\ BlocksOK' /\ StatusesOK' /\ ReachedOK'
  BY <1>1, BuiltStays
<1> QED
  BY <1>2, <1>3, <1>4 DEF IndInv

-----------------------------------------------------------------------------
(* The invariant.                                                           *)
LEMMA InitIndInv ==
  ASSUME Init
  PROVE  IndInv
<1> DEFINE x == Block(NoBlock, NoBlock, NoBlock, NoBlock)
<1>1. Opened(x, 1, NoBlock, NoBlock, NoBlock)
  <2>1. 1 \in Nat /\ NoBlock \in 0..1
    BY DEF NoBlock
  <2> QED
    BY <2>1, NewOpenBlock, Zenon
<1> HIDE DEF x
<1>2. BlockOK(x, 1) /\ Open(x) /\ x \in AnyBlock
      /\ x.continueBB = NoBlock /\ x.breakBB = NoBlock /\ x.trueBB = NoBlock
  BY <1>1 DEF Opened, BlockOK
<1>3. /\ blocks = <<x>> /\ program = <<>> /\ current = 1 /\ lists = <<>>
      /\ phase = "build" /\ todo = <<>> /\ layout = <<>> /\ pc = <<1, 1>>
      /\ flag = TRUE /\ did = Meaning!Start
  BY DEF Init, x
<1>4. /\ blocks \in Seq(AnyBlock) /\ blocks # <<>> /\ Len(blocks) = 1 /\ blocks[1] = x
      /\ Len(lists) = 0 /\ lists \in Seq(AnyList)
      /\ program \in Seq(Meaning!Tokens) /\ Len(program) = 0
      /\ todo \in Seq(Nat) /\ Len(todo) = 0 /\ layout \in Seq(Nat) /\ Len(layout) = 0
      /\ DOMAIN layout = {}
  BY <1>2, <1>3
<1>5. ~Looping(0)
  BY DEF Looping
<1>6. Unfinished(1)
  BY <1>3 DEF Unfinished
<1>7. ProgramOK
  BY <1>4, BoundsAssumption DEF ProgramOK
<1>8. ListsOK
  BY <1>3, <1>4 DEF ListsOK
<1>9. BlocksOK
  BY <1>2, <1>4, <1>6 DEF BlocksOK
<1>10. StatusesOK
  <2>1. StatusOK(x, 0)
    BY <1>2, <1>5 DEF StatusOK
  <2>2. current # NoBlock
    BY <1>3 DEF NoBlock
  <2> QED
    BY <1>3, <1>4, <2>1, <2>2 DEF StatusesOK
<1>11. ReachedOK
  BY <1>3, <1>4 DEF ReachedOK, Followed
<1>12. PrintedOK
  BY <1>3, <1>4 DEF PrintedOK
<1>13. RunOK
  <2>1. did.at = 0 /\ did.value = TRUE
    BY <1>3 DEF Meaning!Start, Meaning!Event
  <2>2. 0 \in 0..MaxTokens /\ TRUE \in BOOLEAN
    BY BoundsAssumption
  <2>3. phase \in {"build", "print", "run", "over"}
    BY <1>3
  <2>4. pc \in (Nat \ {0}) \X (Nat \ {0}) /\ flag \in BOOLEAN
    BY <1>3
  <2> QED
    BY <2>1, <2>2, <2>3, <2>4, Zenon DEF RunOK
<1> QED
  BY <1>7, <1>8, <1>9, <1>10, <1>11, <1>12, <1>13 DEF IndInv

LEMMA StutterPreserves ==
  ASSUME IndInv, UNCHANGED vars
  PROVE  IndInv'
<1>1. UNCHANGED <<program, blocks, current, lists, phase, todo, layout, pc, flag, did>>
  BY DEF vars
<1>2. \A b : Printed(b)' <=> Printed(b)
  BY <1>1 DEF Printed
<1>3. \A b : Seen(b)' <=> Seen(b)
  BY <1>1, <1>2 DEF Seen
<1>4. PrintedOK'
  BY <1>1, <1>2, <1>3 DEF IndInv, PrintedOK
<1>5. RunOK'
  BY <1>1 DEF IndInv, RunOK
<1>6. ProgramOK' /\ ListsOK' /\ BlocksOK' /\ StatusesOK' /\ ReachedOK'
  BY <1>1, BuiltStays
<1> QED
  BY <1>4, <1>5, <1>6 DEF IndInv

LEMMA NextPreserves ==
  ASSUME IndInv, [Next]_vars
  PROVE  IndInv'
<1>1. CASE Build
  <2>1. CASE Statement
    BY <2>1, StatementPreserves
  <2>2. CASE ReturnStatement
    BY <2>2, ReturnStatementPreserves
  <2>3. CASE BeginIf
    BY <2>3, BeginIfPreserves
  <2>4. ASSUME NEW kind \in LoopKinds, BeginLoop(kind) PROVE IndInv'
    BY <2>4, BeginLoopPreserves
  <2>5. CASE Break
    BY <2>5, BreakPreserves
  <2>6. CASE Continue
    BY <2>6, ContinuePreserves
  <2>7. CASE Stray
    BY <2>7, StrayPreserves
  <2>8. CASE BeginElse
    BY <2>8, BeginElsePreserves
  <2>9. CASE EndConstruct
    BY <2>9, EndConstructPreserves
  <2>10. CASE EndFunction
    BY <2>10, EndFunctionPreserves
  <2> QED
    BY <1>1, <2>1, <2>2, <2>3, <2>4, <2>5, <2>6, <2>7, <2>8, <2>9, <2>10 DEF Build
<1>2. CASE PrintBB
  BY <1>2, PrintBBPreserves
<1>3. CASE CallFunction
  BY <1>3, CallFunctionPreserves
<1>4. CASE Run
  <2>1. CASE Compute
    BY <2>1, ComputePreserves
  <2>2. CASE LeaveAndRet
    BY <2>2, LeaveAndRetPreserves
  <2>3. CASE Jump
    BY <2>3, JumpPreserves
  <2>4. CASE FallThrough
    BY <2>4, FallThroughPreserves
  <2>5. CASE FallOff
    BY <2>5, FallOffPreserves
  <2> QED
    BY <1>4, <2>1, <2>2, <2>3, <2>4, <2>5 DEF Run
<1>5. CASE UNCHANGED vars
  BY <1>5, StutterPreserves
<1> QED
  BY <1>1, <1>2, <1>3, <1>4, <1>5 DEF Next

\* Every reachable state has the inductive invariant: the bookkeeping of
\* gkcc_internal_recurse_basic_blocks and gkcc_tx86_print_bb.
THEOREM Invariant == Spec => []IndInv
<1>1. Init => IndInv
  BY InitIndInv
<1>2. IndInv /\ [Next]_vars => IndInv'
  BY NextPreserves
<1> QED
  BY <1>1, <1>2, PTL DEF Spec

-----------------------------------------------------------------------------
(* What follows from it.                                                    *)
\* A sequence whose elements are in a smaller set.
LEMMA Among ==
  ASSUME NEW S, NEW T, NEW s \in Seq(S), \A i \in 1..Len(s) : s[i] \in T
  PROVE  s \in Seq(T)
OBVIOUS

LEMMA Typed ==
  ASSUME IndInv
  PROVE  TypeOK
<1>0. PICK n : n = Len(blocks)
  OBVIOUS
<1>1. n \in Nat /\ blocks \in Seq(AnyBlock) /\ BlockNumbers = 0..n
  BY <1>0 DEF IndInv, BlocksOK, BlockNumbers, NoBlock
<1>2. program \in Seq(Meaning!Tokens) /\ Len(program) <= MaxTokens
  BY BoundsAssumption DEF IndInv, ProgramOK, ListsOK
<1>3. ASSUME NEW op \in AnyOp, NEW x, OpOK(op, x, n) PROVE op \in OpType
  BY <1>0, <1>3 DEF AnyOp, OpOK, OpType, EventKinds
<1>4. ASSUME NEW b \in 1..n
      PROVE  /\ \A i \in DOMAIN blocks[b].ops : blocks[b].ops[i] \in OpType
             /\ {blocks[b].continueBB, blocks[b].breakBB,
                 blocks[b].trueBB, blocks[b].falseBB} \subseteq BlockNumbers
  <2>1. BlockOK(blocks[b], n)
    BY <1>0, <1>4 DEF IndInv, BlocksOK
  <2>2. /\ blocks[b].ops \in Seq(AnyOp)
        /\ blocks[b].continueBB \in Nat /\ blocks[b].breakBB \in Nat
        /\ blocks[b].trueBB \in Nat /\ blocks[b].falseBB \in Nat
    BY <2>1, BlockParts DEF BlockOK
  <2>3. \A i \in DOMAIN blocks[b].ops : blocks[b].ops[i] \in OpType
    <3>1. \A i \in DOMAIN blocks[b].ops : blocks[b].ops[i] \in AnyOp /\ i \in 1..Len(blocks[b].ops)
      BY <2>2
    <3> QED
      BY <1>3, <2>1, <3>1 DEF BlockOK
  <2>4. {blocks[b].continueBB, blocks[b].breakBB,
         blocks[b].trueBB, blocks[b].falseBB} \subseteq BlockNumbers
    BY <1>1, <2>1, <2>2 DEF BlockOK
  <2> QED
    BY <2>3, <2>4
<1>5. current \in BlockNumbers
  BY <1>0, <1>1 DEF IndInv, ListsOK
<1>6. lists \in Seq([kind : {"then", "else", "loop"}, next : BlockNumbers, else : BlockNumbers])
  <2>1. lists \in Seq(AnyList)
    BY DEF IndInv, ListsOK
  <2>2. ASSUME NEW k \in 1..Len(lists)
        PROVE  lists[k] \in [kind : {"then", "else", "loop"}, next : BlockNumbers,
                             else : BlockNumbers]
    <3>1. lists[k] \in AnyList
      BY <2>1
    <3>2. lists[k].next \in 0..n /\ lists[k].else \in 0..n
      BY <1>0, <1>1 DEF IndInv, ListsOK
    <3> QED
      BY <1>1, <3>1, <3>2 DEF AnyList
  <2> QED
    BY <2>1, <2>2, Among
<1>7. todo \in Seq(BlockNumbers)
  <2>1. todo \in Seq(Nat) /\ \A i \in 1..Len(todo) : todo[i] <= n
    BY <1>0 DEF IndInv, PrintedOK
  <2>2. \A i \in 1..Len(todo) : todo[i] \in BlockNumbers
    BY <1>1, <2>1
  <2> QED
    BY <2>1, <2>2, Among
<1>8. layout \in Seq(1..n)
  <2>1. layout \in Seq(Nat) /\ \A i \in 1..Len(layout) : layout[i] \in 1..n
    BY <1>0 DEF IndInv, PrintedOK
  <2> QED
    BY <2>1, Among
<1>9. /\ phase \in {"build", "print", "run", "over"}
      /\ pc \in Nat \X Nat
      /\ flag \in BOOLEAN
      /\ did.at \in 0..MaxTokens /\ did.value \in BOOLEAN
  <2>1. pc \in Nat \X Nat
    BY DEF IndInv, RunOK
  <2> QED
    BY <2>1, Zenon DEF IndInv, RunOK
<1> QED
  BY <1>0, <1>2, <1>4, <1>5, <1>6, <1>7, <1>8, <1>9, Zenon DEF TypeOK

LEMMA TargetsPrinted ==
  ASSUME IndInv
  PROVE  JumpTargetsPrinted
<1> SUFFICES ASSUME phase = "run", NEW i \in DOMAIN layout,
                    NEW op \in Range(blocks[layout[i]].ops), op.kind \in Jumps
             PROVE  Printed(op.at)
  BY DEF JumpTargetsPrinted
<1>1. PICK ops : ops = blocks[layout[i]].ops
  OBVIOUS
<1>2. /\ ops \in Seq(AnyOp)
      /\ \A j \in 1..Len(ops) : ops[j].kind \in Jumps => Printed(ops[j].at)
  BY <1>1, PrintedOps
<1>3. PICK j \in DOMAIN ops : op = ops[j]
  BY <1>1 DEF Range
<1> QED
  BY <1>2, <1>3

LEMMA ThereIsOneWayOut ==
  ASSUME IndInv
  PROVE  OneWayOut
<1> SUFFICES ASSUME phase = "run"
             PROVE  {b \in Range(layout) :
                       LET ops == blocks[b].ops
                       IN  ops = <<>> \/ ops[Len(ops)].kind \notin Jumps} = {current}
  BY DEF OneWayOut
<1>1. /\ todo = <<>> /\ lists = <<>> /\ layout \in Seq(Nat)
      /\ \A i \in 1..Len(layout) : layout[i] \in 1..Len(blocks)
  BY DEF IndInv, PrintedOK
<1>2. /\ \A b : b \in Range(layout) <=> Printed(b)
      /\ Range(layout) \subseteq 1..Len(blocks)
  BY <1>1 DEF Range, Printed
<1>3. Len(blocks) \in Nat
  BY DEF IndInv, BlocksOK
<1>4. ASSUME NEW b \in Range(layout), b # current PROVE Finished(blocks[b])
  <2>1. b \in 1..Len(blocks)
    BY <1>2
  <2>2. ~Unfinished(b)
    BY <1>1, <1>4 DEF Unfinished
  <2> QED
    BY <2>1, <2>2 DEF IndInv, BlocksOK
<1>5. \A b : Seen(b) => b \in Range(layout)
  BY <1>1, <1>2 DEF Seen
<1>6. Followed(Range(layout))
  <2>1. 1 \in Range(layout)
    BY <1>5 DEF IndInv, PrintedOK
  <2>2. ASSUME NEW b \in 1..Len(blocks), b \in Range(layout), ~Unfinished(b)
        PROVE  blocks[b].trueBB \in Range(layout) /\ blocks[b].falseBB \in Range(layout)
    <3>1. b # current
      BY <2>2 DEF Unfinished
    <3>2. Finished(blocks[b])
      BY <1>4, <2>2, <3>1
    <3>3. BlockOK(blocks[b], Len(blocks))
      BY DEF IndInv, BlocksOK
    <3>4. blocks[b].trueBB # NoBlock /\ blocks[b].falseBB # NoBlock
      BY <3>2, <3>3 DEF Finished, BlockOK
    <3>5. Seen(blocks[b].trueBB) /\ Seen(blocks[b].falseBB)
      BY <1>2, <2>2, <3>4 DEF IndInv, PrintedOK
    <3> QED
      BY <1>5, <3>5
  <2> QED
    BY <2>1, <2>2 DEF Followed
<1>7. ~Looping(Len(lists))
  BY <1>1 DEF Looping
<1>8. current \in Range(layout)
  <2>1. Range(layout) \in SUBSET Nat
    BY <1>2, <1>3
  <2> QED
    BY <1>6, <1>7, <2>1 DEF IndInv, ReachedOK
<1>9. blocks[current].ops = <<>>
      \/ blocks[current].ops[Len(blocks[current].ops)].kind \notin Jumps
  <2>1. PICK ops : ops = blocks[current].ops
    OBVIOUS
  <2>2. current # NoBlock
    BY <1>2, <1>8 DEF NoBlock
  <2>3. ops \in Seq(AnyOp) /\ \A i \in 1..Len(ops) : ops[i].kind \notin Jumps
    BY <2>1, <2>2, CurrentBlock, BlockParts DEF Open, NoJumps
  <2>4. ops # <<>> => Len(ops) \in 1..Len(ops)
    BY <2>3
  <2> QED
    BY <2>1, <2>3, <2>4
<1> QED
  BY <1>4, <1>8, <1>9 DEF Finished

\* The compiler builds, prints and runs blocks whose statuses, jumps and labels
\* are numbers of blocks that exist, at positions of the program.
THEOREM TypeCorrect == Spec => []TypeOK
<1>1. IndInv => TypeOK
  BY Typed
<1> QED
  BY <1>1, Invariant, PTL

\* A jump always finds its label: gkcc_tx86_print_bb, which only follows
\* true_branch and false_branch, prints every block a printed jump names.
THEOREM LabelsAreDefined == Spec => []JumpTargetsPrinted
<1>1. IndInv => JumpTargetsPrinted
  BY TargetsPrinted
<1> QED
  BY <1>1, Invariant, PTL

\* Only the block the body ends in falls through to what is printed behind it:
\* the constructs close every other block they leave, also behind a break, a
\* continue or a missing else.
THEOREM BodyEndsOnce == Spec => []OneWayOut
<1>1. IndInv => OneWayOut
  BY ThereIsOneWayOut
<1> QED
  BY <1>1, Invariant, PTL

=============================================================================
