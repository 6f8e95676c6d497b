----------------------------- MODULE Structured -----------------------------
(***************************************************************************)
(* What a function body means: the order in which C executes the           *)
(* statements and evaluates the controlling expressions of a structured    *)
(* program.  A program is the sequence of its tokens,                      *)
(*                                                                         *)
(*   "stmt"  "return"  "break"  "continue"                                 *)
(*   "if" ... "end"      "if" ... "else" ... "end"                         *)
(*   "for" ... "end"     "forever" ... "end"     "do" ... "end"            *)
(*                                                                         *)
(* and what it does is a sequence of events: a statement or an expression  *)
(* is executed, named by the position of its token.                        *)
(***************************************************************************)
EXTENDS Naturals, Sequences, FiniteSets

VARIABLES
  program,  \* the tokens read so far
  did       \* the last event

vars == <<program, did>>

Loops == {"for", "forever", "do"}
Tokens == {"stmt", "return", "break", "continue", "if", "else", "end"} \cup Loops

\* An event: what was executed, at which token, and the value of a condition.
Event(kind, at, value) == [kind |-> kind, at |-> at, value |-> value]
Start == Event("start", 0, TRUE)
Rejected == Event("rejected", 0, TRUE)
Finals == {"returned", "rejected"}

-----------------------------------------------------------------------------
Least(S) == CHOOSE p \in S : \A q \in S : p <= q
Greatest(S) == CHOOSE p \in S : \A q \in S : q <= p

Opens(prog) == {p \in DOMAIN prog : prog[p] \in Loops \cup {"if"}}

\* The constructs open before token q.
Depth(prog, q) == Cardinality({p \in Opens(prog) : p < q})
                  - Cardinality({p \in 1..(q - 1) : prog[p] = "end"})

\* Every construct is closed.
Complete(prog) == Depth(prog, Len(prog) + 1) = 0

\* The "end" of the construct opened at p, and its "else" or the same "end".
Close(prog, p) ==
  Least({q \in DOMAIN prog : /\ q > p /\ prog[q] = "end"
                             /\ Depth(prog, q) = Depth(prog, p) + 1})
Else(prog, p) ==
  Least({Close(prog, p)} \cup
        {q \in (p + 1)..Close(prog, p) : /\ prog[q] = "else"
                                         /\ Depth(prog, q) = Depth(prog, p) + 1})

\* The innermost construct, or loop, around token q.
Around(prog, q) ==
  Greatest({p \in Opens(prog) : p < q /\ q <= Close(prog, p)})
LoopAround(prog, q) ==
  Greatest({p \in Opens(prog) : p < q /\ q <= Close(prog, p) /\ prog[p] \in Loops})

\* What the next iteration of the loop at p begins with.
Again(prog, p) == IF prog[p] = "do" THEN <<"cond", p>> ELSE <<"iter", p>>

\* The event control reaching token q leads to.  Reaching the end returns.
Arrive(prog) ==
  LET to[q \in 1..(Len(prog) + 1)] ==
        CASE q = Len(prog) + 1        -> <<"returned", 0>>
          [] prog[q] = "stmt"         -> <<"stmt", q>>
          [] prog[q] = "return"       -> <<"returned", q>>
          [] prog[q] = "if"           -> <<"cond", q>>
          [] prog[q] \in {"for", "forever"} -> <<"init", q>>
          [] prog[q] = "do"           -> to[q + 1]
          [] prog[q] = "else"         -> to[Close(prog, Around(prog, q)) + 1]
          [] prog[q] = "break"        -> to[Close(prog, LoopAround(prog, q)) + 1]
          [] prog[q] = "continue"     -> Again(prog, LoopAround(prog, q))
          [] prog[q] = "end" /\ prog[Around(prog, q)] = "if" -> to[q + 1]
          [] OTHER                    -> Again(prog, Around(prog, q))
  IN  to

\* The event that follows event e.
After(prog, e) ==
  CASE e.kind = "start"            -> Arrive(prog)[1]
    [] e.kind = "stmt"             -> Arrive(prog)[e.at + 1]
    [] e.kind \in {"init", "iter"} -> <<"cond", e.at>>
    [] e.kind = "cond" /\ e.value  -> Arrive(prog)[e.at + 1]
    [] OTHER -> Arrive(prog)[IF prog[e.at] = "if"
                             THEN Else(prog, e.at) + 1
                             ELSE Close(prog, e.at) + 1]

\* The values an event can have: only conditions have two.
Outcomes(prog, kind, at) ==
  IF kind = "cond" /\ prog[at] # "forever" THEN BOOLEAN ELSE {TRUE}

-----------------------------------------------------------------------------
Init == program = <<>> /\ did = Start

Read(t) ==
  /\ did = Start
  /\ program' = Append(program, t)
  /\ UNCHANGED did

\* A break or continue with no loop around it.
Reject ==
  /\ did = Start
  /\ did' = Rejected
  /\ UNCHANGED program

Execute ==
  /\ did.kind \notin Finals
  /\ Complete(program)
  /\ LET e == After(program, did)
     IN  \E value \in Outcomes(program, e[1], e[2]) :
           did' = Event(e[1], e[2], value)
  /\ UNCHANGED program

Next == (\E t \in Tokens : Read(t)) \/ Reject \/ Execute

Spec == Init /\ [][Next]_vars /\ WF_vars(Execute \/ Reject)
=============================================================================
