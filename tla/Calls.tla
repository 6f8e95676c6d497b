------------------------------- MODULE Calls -------------------------------
(***************************************************************************)
(* Functions that call each other, from the calls in the source to the     *)
(* stack of the running program:                                           *)
(*                                                                         *)
(*   "translate"  gkcc_ir_translate_ast_function_call and the translation  *)
(*                of its arguments (src/src/ir/translators.c), and what    *)
(*                gkcc_tx86_translate_ir_quad prints for their quads       *)
(*                (src/src/target_code/x86.c);                             *)
(*   "run"        the printed instructions execute.                        *)
(*                                                                         *)
(* A body is a sequence of assignments to locals and of calls, read in the *)
(* order of the translation: the last argument of a call first, a call     *)
(* among the arguments where it stands.  All of an expression goes into    *)
(* one block, so its quads are printed in the order of their translation.  *)
(* Everything on the stack is counted in words.                            *)
(***************************************************************************)
EXTENDS Integers, Sequences, FiniteSets, SequencesExt

CONSTANTS
  Order,          \* the functions, in the order of their definitions
  Externals,      \* functions defined elsewhere
  LocalCount,     \* the locals of each function
  Values,         \* the constants it uses
  MaxArgs,        \* bound on the arguments of a call
  MaxTokens,      \* bound on the assignments, calls and arguments of the program
  CallBeforeArgument,  \* whether a call may be an argument with others behind it
  Depth           \* the words of the stack

Functions == ToSet(Order)

ASSUME OrderAssumption ==
  /\ Order \in Seq(Functions) /\ Order # <<>> /\ Cardinality(Functions) = Len(Order)
  /\ Externals \cap Functions = {}
ASSUME BoundsAssumption ==
  {LocalCount, MaxArgs, MaxTokens} \subseteq Nat /\ Depth \in Nat \ {0}
ASSUME ShapeAssumption == CallBeforeArgument \in BOOLEAN

VARIABLES
  phase,     \* "translate", "run", "exited" or "overflow"
  current,   \* the function being translated, an index of Order
  open,      \* the calls being translated, the innermost one last
  temps,     \* how many pseudoregisters each function has
  pushed,    \* current_function_push_val
  code,      \* what is printed for each function
  program,   \* the operations read, in the order of evaluation
  tokens,    \* how many tokens were read
  pc,        \* the function and the number of the next instruction
  esp, ebp,  \* %esp and %ebp, addresses of the stack
  memory,    \* the stack
  received   \* the external calls that were made, with their arguments

translating == <<current, open, temps, pushed, code, program, tokens>>
running == <<pc, esp, ebp, memory, received>>
vars == <<phase, translating, running>>

-----------------------------------------------------------------------------
(* Words of the stack.                                                      *)
Value(v) == <<"value", v>>
Pointer(a) == <<"pointer", a>>
CodeAddress(f, i) == <<"code", f, i>>
Garbage == <<"garbage">>

Addresses == 1..Depth
Startup == CodeAddress("startup", 1)  \* where main returns to
Outside == Depth + 1                  \* %ebp of what calls main
Result == <<"result">>

\* The operands $v, -k(%ebp) of a local and -k(%ebp) of a pseudoregister.
Operand(kind, of) == [kind |-> kind, of |-> of]
ConstantOperand(v) == Operand("constant", Value(v))
LocalOperand(k) == Operand("local", k)
TempOperand(t) == Operand("temp", t)
FrameAddress(base, source) ==
  base - source.of - (IF source.kind = "temp" THEN LocalCount ELSE 0)
Fetched(source) ==
  IF source.kind = "constant" THEN source.of ELSE memory[FrameAddress(ebp, source)]

-----------------------------------------------------------------------------
(* Translation.                                                             *)
Fn == Order[current]
Innermost == open[Len(open)]
Enclosing == SubSeq(open, 1, Len(open) - 1)
Translating == phase = "translate" /\ current <= Len(Order)

\* A statement may begin, or the innermost call still lacks an argument.
AtStatement == Translating /\ open = <<>>
AtArgument == Translating /\ open # <<>> /\ Innermost.left > 0

Max0(a, b) == IF a > b THEN a ELSE b
ReadToken == tokens < MaxTokens /\ tokens' = tokens + 1
Emit(instructions) == code' = [code EXCEPT ![Fn] = @ \o instructions]
Evaluate(operation) == program' = [program EXCEPT ![Fn] = Append(@, operation)]
NewTemps(n) == temps' = [temps EXCEPT ![Fn] = @ + n]

Push(source) == [kind |-> "pushl", source |-> source]

\* A call that lacks its first left arguments.
Call(callee, left, args, result) ==
  [callee |-> callee, left |-> left, args |-> args, result |-> result]

\* local = v; the address of the local is taken into a pseudoregister.
Assignment(k, v) ==
  /\ AtStatement /\ ReadToken
  /\ NewTemps(1)
  /\ Emit(<<[kind |-> "assign", local |-> k, value |-> Value(v), temp |-> temps[Fn] + 1]>>)
  /\ Evaluate([kind |-> "store", local |-> k, value |-> Value(v)])
  /\ UNCHANGED <<phase, current, open, pushed, running>>

\* The call's result and, per argument but at least once, another pseudoregister
\* are allocated before the arguments are translated.
BeginCall(f, n) ==
  /\ AtStatement \/ AtArgument
  /\ pushed > 0 => CallBeforeArgument
  /\ ReadToken
  /\ open' = Append(open, Call(f, n, <<>>, temps[Fn] + 1))
  /\ NewTemps(1 + Max0(n, 1))
  /\ UNCHANGED <<phase, current, pushed, code, program, running>>

\* Mutant: the arguments are translated from the first to the last.
ArgumentAppended(call, source) ==
  Call(call.callee, call.left - 1, Append(call.args, source), call.result)

\* FUNCTION_ARG follows the translation of every argument.
ArgumentAdded(call, source) ==
  Call(call.callee, call.left - 1, <<source>> \o call.args, call.result)

Argument(source) ==
  /\ AtArgument /\ ReadToken
  /\ open' = Append(Enclosing, ArgumentAdded(Innermost, source))
  /\ Emit(<<Push(source)>>)
  /\ pushed' = pushed + 1
  /\ UNCHANGED <<phase, current, temps, program, running>>

\* Mutant: the count is not reset.
CallCodeCountsOn(call) ==
  [instructions |-> <<[kind |-> "call", callee |-> call.callee, args |-> call.args],
                      [kind |-> "addl", words |-> pushed]>>,
   pushed |-> pushed]

\* The arguments pushed since the last call are popped after this one.
CallCode(call) ==
  [instructions |-> <<[kind |-> "call", callee |-> call.callee, args |-> call.args],
                      [kind |-> "addl", words |-> pushed]>>,
   pushed |-> 0]

\* The call has no destination; what an outer call is given is the call's result
\* pseudoregister, which nothing writes.
EndCall ==
  LET result == TempOperand(Innermost.result)
      printed == CallCode(Innermost)
      nested == Len(open) > 1
  IN  /\ Translating /\ open # <<>> /\ Innermost.left = 0
      /\ Evaluate([kind |-> "call", callee |-> Innermost.callee,
                   args |-> [i \in DOMAIN Innermost.args |->
                               IF Innermost.args[i].kind = "temp"
                               THEN Operand("result", Result) ELSE Innermost.args[i]]])
      /\ IF nested
         THEN /\ Emit(Append(printed.instructions, Push(result)))
              /\ open' = Append(SubSeq(open, 1, Len(open) - 2),
                                ArgumentAdded(open[Len(open) - 1], result))
              /\ pushed' = printed.pushed + 1
         ELSE /\ Emit(printed.instructions)
              /\ open' = <<>>
              /\ pushed' = printed.pushed
      /\ UNCHANGED <<phase, current, temps, tokens, running>>

\* Every function ends in a return statement.
EndFunction ==
  /\ AtStatement
  /\ Emit(<<[kind |-> "return"]>>)
  /\ current' = current + 1
  /\ UNCHANGED <<phase, open, temps, pushed, program, tokens, running>>

-----------------------------------------------------------------------------
(* Execution.                                                               *)
Running == phase = "run"
Instruction == code[pc[1]][pc[2]]
At(kind) == Running /\ Instruction.kind = kind
Continue == pc' = <<pc[1], pc[2] + 1>>
KeepCode == UNCHANGED <<phase, translating>>

Space(f) == 1 + LocalCount + temps[f]

Reserved(f) == Space(f) + 4 - (Space(f) % 4)

Stored(words, a, word) == [words EXCEPT ![a] = word]

\* Mutant: no space is reserved.
EnteredUnreserved(f, a, return) ==
  /\ memory' = Stored(Stored(memory, a, return), a - 1, Pointer(ebp))
  /\ ebp' = a - 1
  /\ esp' = a - 1
  /\ pc' = <<f, 1>>

\* call leaves the return address at a; pushl %ebp; movl %esp, %ebp; subl.
Entered(f, a, return) ==
  /\ memory' = Stored(Stored(memory, a, return), a - 1, Pointer(ebp))
  /\ ebp' = a - 1
  /\ esp' = a - 1 - Reserved(f)
  /\ pc' = <<f, 1>>

Fits(f, a) == a - 1 - Reserved(f) >= 1

StartProgram ==
  /\ phase = "translate" /\ current > Len(Order)
  /\ Fits(Order[1], Depth)
  /\ phase' = "run"
  /\ Entered(Order[1], Depth, Startup)
  /\ UNCHANGED <<translating, received>>

Assign ==
  /\ At("assign")
  /\ LET local == FrameAddress(ebp, LocalOperand(Instruction.local))
         temp == FrameAddress(ebp, TempOperand(Instruction.temp))
     IN  memory' = Stored(Stored(memory, temp, Pointer(local)), local, Instruction.value)
  /\ Continue
  /\ UNCHANGED <<esp, ebp, received>> /\ KeepCode

FunctionArg ==
  /\ At("pushl") /\ esp > 1
  /\ memory' = Stored(memory, esp - 1, Fetched(Instruction.source))
  /\ esp' = esp - 1
  /\ Continue
  /\ UNCHANGED <<ebp, received>> /\ KeepCode

FunctionCall ==
  /\ At("call") /\ Instruction.callee \in Functions
  /\ esp > 1 /\ Fits(Instruction.callee, esp - 1)
  /\ Entered(Instruction.callee, esp - 1, CodeAddress(pc[1], pc[2] + 1))
  /\ UNCHANGED received /\ KeepCode

\* What the program can tell of a word: what it never stored there is garbage.
Visible(word) == IF word[1] = "value" THEN word ELSE Garbage

\* What the function finds on the stack, without the results of calls.
Arrived(args, words, a) ==
  [i \in DOMAIN args |->
     IF args[i].kind = "temp" THEN Result ELSE Visible(words[a + i - 1])]

\* An external function may change its arguments and the words below them.
ExternalCall ==
  /\ At("call") /\ Instruction.callee \in Externals
  /\ received' = Append(received, [fn |-> Instruction.callee,
                                   args |-> Arrived(Instruction.args, memory, esp)])
  /\ memory' = [a \in Addresses |-> IF a < esp + Len(Instruction.args)
                                    THEN Garbage ELSE memory[a]]
  /\ Continue
  /\ UNCHANGED <<esp, ebp>> /\ KeepCode

PopArguments ==
  /\ At("addl")
  /\ esp' = esp + Instruction.words
  /\ Continue
  /\ UNCHANGED <<ebp, memory, received>> /\ KeepCode

\* Mutant: only ret.
RetWithoutLeave ==
  /\ At("return") /\ esp \in Addresses
  /\ memory[esp][1] = "code"
  /\ pc' = <<memory[esp][2], memory[esp][3]>>
  /\ esp' = esp + 1
  /\ phase' = IF memory[esp] = Startup THEN "exited" ELSE phase
  /\ UNCHANGED <<ebp, translating, memory, received>>

\* leave and ret, through whatever %ebp points to.
Return ==
  /\ At("return")
  /\ memory[ebp][1] = "pointer" /\ memory[ebp + 1][1] = "code"
  /\ ebp' = memory[ebp][2]
  /\ pc' = <<memory[ebp + 1][2], memory[ebp + 1][3]>>
  /\ esp' = ebp + 2
  /\ phase' = IF memory[ebp + 1] = Startup THEN "exited" ELSE phase
  /\ UNCHANGED <<translating, memory, received>>

\* The stack is used up.
Overflow ==
  /\ \/ At("pushl") /\ esp <= 1
     \/ At("call") /\ Instruction.callee \in Functions
          /\ (esp <= 1 \/ ~Fits(Instruction.callee, esp - 1))
  /\ phase' = "overflow"
  /\ UNCHANGED <<translating, running>>

-----------------------------------------------------------------------------
Init ==
  /\ phase = "translate"
  /\ current = 1
  /\ open = <<>>
  /\ temps = [f \in Functions |-> 0]
  /\ pushed = 0
  /\ code = [f \in Functions |-> <<>>]
  /\ program = [f \in Functions |-> <<>>]
  /\ tokens = 0
  /\ pc = <<"startup", 1>>
  /\ esp = Outside
  /\ ebp = Outside
  /\ memory = [a \in Addresses |-> Garbage]
  /\ received = <<>>

Translate ==
  \/ \E k \in 1..LocalCount, v \in Values : Assignment(k, v)
  \/ \E f \in Functions \cup Externals, n \in 0..MaxArgs : BeginCall(f, n)
  \/ \E v \in Values : Argument(ConstantOperand(v))
  \/ \E k \in 1..LocalCount : Argument(LocalOperand(k))
  \/ EndCall
  \/ EndFunction

Run ==
  Assign \/ FunctionArg \/ FunctionCall \/ ExternalCall \/ PopArguments \/ Return \/ Overflow

Next == Translate \/ StartProgram \/ Run

Spec == Init /\ [][Next]_vars /\ WF_vars(Run)

-----------------------------------------------------------------------------
TempNumbers == 1..(MaxTokens * (1 + Max0(MaxArgs, 1)))

(* The state is well formed: %esp and %ebp stay on the stack, and no more
   arguments are counted than a call can have. *)
TypeOK ==
  /\ phase \in {"translate", "run", "exited", "overflow"}
  /\ current \in 1..(Len(Order) + 1)
  /\ \A i \in DOMAIN open : /\ open[i].callee \in Functions \cup Externals
                            /\ open[i].left + Len(open[i].args) <= MaxArgs
                            /\ open[i].result \in TempNumbers
  /\ temps \in [Functions -> {0} \cup TempNumbers]
  /\ pushed \in 0..(IF CallBeforeArgument THEN MaxTokens ELSE MaxArgs)
  /\ \A f \in Functions : \A i \in DOMAIN code[f] :
       code[f][i].kind \in {"assign", "pushl", "call", "addl", "return"}
  /\ DOMAIN program = Functions
  /\ tokens \in 0..MaxTokens
  /\ pc[1] \in Functions \cup {"startup"}
  /\ esp \in Addresses \cup {Outside} /\ ebp \in Addresses \cup {Outside}
  /\ DOMAIN memory = Addresses
  /\ \A i \in DOMAIN received : received[i].fn \in Externals

(* The arguments of a call are on top of the stack, the first one at %esp, when
   the call executes, whatever other calls their evaluation took; what stands
   there for the result of a call is not compared (translators.c:519-575). *)
ArgumentsArrive ==
  At("call") =>
    \A i \in DOMAIN Instruction.args :
      Instruction.args[i].kind # "temp" =>
        memory[esp + i - 1] = Fetched(Instruction.args[i])

(* What is pushed is popped: at each return %esp is where the preamble left it,
   and no pushed argument is left over for a later call or the next function
   (x86.c:53 and 109-118). *)
StackBalanced ==
  /\ At("return") => esp = ebp - Reserved(pc[1])
  /\ AtStatement => pushed = 0

-----------------------------------------------------------------------------
(* The frames from the one at base on, the oldest one first, found along the
   saved %ebp; of what stands above, frames are those that were found.      *)
FrameStep(words, frames, e) ==
  CASE e = Depth \/ words[e + 1][1] # "code" -> <<>>
    [] words[e] = Pointer(Outside) -> <<e>>
    [] words[e][1] = "pointer" /\ words[e][2] \in (e + 1)..Depth ->
         Append(frames[words[e][2]], e)
    [] OTHER -> <<>>

Frames(words, base) ==
  LET chain[e \in Addresses] == FrameStep(words, chain, e) IN chain[base]

\* How many operations a body has begun before instruction n.
IsOperation(instruction) == instruction.kind \in {"assign", "call"}
OperationsBefore(body, n) == Cardinality({j \in 1..(n - 1) : IsOperation(body[j])})

\* Where the frame at a returns to, and the call it was entered by.
ReturnAddress(words, a) == Tail(words[a + 1])
EnteredBy(bodies, words, a) ==
  LET return == ReturnAddress(words, a) IN bodies[return[1]][return[2] - 1]

\* The activation of a frame whose function goes on at place.
LocalsAt(words, a) ==
  [k \in 1..LocalCount |-> Visible(words[FrameAddress(a, LocalOperand(k))])]
ActivationAt(bodies, words, a, args, place) ==
  [fn |-> place[1], at |-> 1 + OperationsBefore(bodies[place[1]], place[2]),
   args |-> args, locals |-> LocalsAt(words, a)]

\* The activations of the frames: all but the last go on where the next one returns to.
ActivationsIn(bodies, words, base, place) ==
  LET frames == Frames(words, base)
  IN  [i \in DOMAIN frames |->
         ActivationAt(bodies, words, frames[i],
           IF i = 1 THEN <<>>
           ELSE Arrived(EnteredBy(bodies, words, frames[i]).args, words, frames[i] + 2),
           IF i = Len(frames) THEN place ELSE ReturnAddress(words, frames[i + 1]))]

CallStack == IF phase = "run" THEN ActivationsIn(code, memory, ebp, pc) ELSE <<>>
Stage == CASE phase = "translate" -> "reading" [] phase = "run" -> "running" [] OTHER -> phase

Meaning == INSTANCE Activations WITH
  Main <- Order[1],
  Locals <- 1..LocalCount,
  Content <- {Garbage} \cup {Value(v) : v \in Values},
  phase <- Stage,
  activations <- CallStack

(* Calls mean what C says: every activation keeps locals and arguments of its
   own while others come and go above it, a return goes on behind its call, and
   the functions outside receive the arguments they are given
   (translators.c:547-575, x86.c:109-147, x86_inst.c:46-52 and 95-110). *)
ImplementsActivations == Meaning!Spec

(* A program of calls and assignments comes to its end, or to that of the stack:
   no return is taken twice or leads where there is no code. *)
ProgramStops == phase = "run" ~> phase \in {"exited", "overflow"}
=============================================================================
