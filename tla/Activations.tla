---------------------------- MODULE Activations ----------------------------
(***************************************************************************)
(* What calls mean in C: every activation of a function has locals of its  *)
(* own and the arguments it was passed, a call starts an activation and    *)
(* its end resumes the caller behind the call.  A function body is the     *)
(* sequence of its operations in the order of their evaluation,            *)
(*                                                                         *)
(*   [kind |-> "store", local, value]    local = value;                    *)
(*   [kind |-> "call", callee, args]     callee(args)                      *)
(*                                                                         *)
(* where a call among the arguments is an operation before the outer call. *)
(***************************************************************************)
EXTENDS Naturals, Sequences, SequencesExt

CONSTANTS
  Functions,  \* the functions of the program
  Externals,  \* functions defined elsewhere
  Main,       \* the function that is called first
  Locals,     \* the locals of each function
  Content     \* what an uninitialised local may hold

VARIABLES
  program,      \* the operations of each function
  phase,        \* "reading", "running", "exited" or "overflow"
  activations,  \* the last one is running
  received      \* the external calls that were made, with their arguments

vars == <<program, phase, activations, received>>

\* The result of a call that is used as an argument: its value is not compared.
Result == <<"result">>

Activation(f, args, locals) == [fn |-> f, at |-> 1, args |-> args, locals |-> locals]

Running == phase = "running"
Operations(top) == program[top.fn]
More(top) == Running /\ top.at <= Len(Operations(top))
Operation(top) == Operations(top)[top.at]
Advanced(top) == [top EXCEPT !.at = @ + 1]

\* What the arguments of a call stand for in the running activation.
ValueOf(arg, locals) == IF arg.kind = "local" THEN locals[arg.of] ELSE arg.of
Passed(call, locals) == [i \in DOMAIN call.args |-> ValueOf(call.args[i], locals)]

-----------------------------------------------------------------------------
Init ==
  /\ program = [f \in Functions |-> <<>>]
  /\ phase = "reading"
  /\ activations = <<>>
  /\ received = <<>>

Read ==
  /\ phase = "reading" /\ phase' = "reading"
  /\ program' # program
  /\ UNCHANGED <<activations, received>>

Start ==
  /\ phase = "reading" /\ phase' = "running"
  /\ \E locals \in [Locals -> Content] :
       activations' = <<Activation(Main, <<>>, locals)>>
  /\ UNCHANGED <<program, received>>

Store(top, suspended) ==
  /\ More(top) /\ Operation(top).kind = "store"
  /\ activations' = Append(suspended, [Advanced(top) EXCEPT
                                        !.locals[Operation(top).local] = Operation(top).value])
  /\ UNCHANGED <<program, phase, received>>

Call(top, suspended) ==
  /\ More(top) /\ Operation(top).kind = "call" /\ Operation(top).callee \in Functions
  /\ \E locals \in [Locals -> Content] :
       activations' = suspended \o
         <<Advanced(top),
           Activation(Operation(top).callee, Passed(Operation(top), top.locals), locals)>>
  /\ UNCHANGED <<program, phase, received>>

CallExternal(top, suspended) ==
  /\ More(top) /\ Operation(top).kind = "call" /\ Operation(top).callee \in Externals
  /\ activations' = Append(suspended, Advanced(top))
  /\ received' = Append(received, [fn |-> Operation(top).callee,
                                  args |-> Passed(Operation(top), top.locals)])
  /\ UNCHANGED <<program, phase>>

Return(top, suspended) ==
  /\ Running /\ ~More(top)
  /\ activations' = suspended
  /\ phase' = IF suspended = <<>> THEN "exited" ELSE phase
  /\ UNCHANGED <<program, received>>

\* There is no more room for an activation.
Overflow ==
  /\ Running
  /\ phase' = "overflow" /\ activations' = <<>>
  /\ UNCHANGED <<program, received>>

Step ==
  /\ Running /\ activations # <<>>
  /\ LET top == Last(activations)
         suspended == Front(activations)
     IN  \/ Store(top, suspended)
         \/ Call(top, suspended)
         \/ CallExternal(top, suspended)
         \/ Return(top, suspended)
         \/ Overflow

Next == Read \/ Start \/ Step

Spec == Init /\ [][Next]_vars
=============================================================================
