----------------------------- MODULE CallsProofs -----------------------------
(***************************************************************************)
(* Theorems about Calls, for any number of functions, locals, arguments,   *)
(* tokens and words of the stack: the invariants, by IInv, and that Calls  *)
(* implements Activations, by AllInv.                                      *)
(***************************************************************************)
EXTENDS Calls, OrderLemmas, FiniteSetTheorems, SequenceTheorems, TLAPS

-----------------------------------------------------------------------------
(* What is translated.                                                      *)
Operands ==
  [kind : {"constant"}, of : {Value(v) : v \in Values}]
    \cup [kind : {"local"}, of : 1..LocalCount]
    \cup [kind : {"temp"}, of : Nat]

Callees == Functions \cup Externals

Instructions ==
  [kind : {"assign"}, local : 1..LocalCount, value : {Value(v) : v \in Values},
   temp : Nat \ {0}]
    \cup [kind : {"pushl"}, source : Operands]
    \cup [kind : {"call"}, callee : Callees, args : Seq(Operands)]
    \cup [kind : {"addl"}, words : Nat]
    \cup [kind : {"return"}]

OpenCalls == [callee : Callees, left : Nat, args : Seq(Operands), result : TempNumbers]

\* The parts of an instruction.
LEMMA InstructionShape ==
  ASSUME NEW x \in Instructions
  PROVE  /\ x.kind \in {"assign", "pushl", "call", "addl", "return"}
         /\ x.kind = "assign" => x.local \in 1..LocalCount /\ x.temp \in Nat \ {0}
         /\ x.kind = "pushl" => x.source \in Operands
         /\ x.kind = "call" => x.callee \in Callees /\ x.args \in Seq(Operands)
         /\ x.kind = "addl" => x.words \in Nat
BY DEF Instructions

\* The parts of an operand.
LEMMA OperandShape ==
  ASSUME NEW s \in Operands
  PROVE  /\ s.kind \in {"constant", "local", "temp"}
         /\ s.kind = "local" => s.of \in 1..LocalCount
BY DEF Operands

-----------------------------------------------------------------------------
(* What a body looks like.                                                  *)

\* The h instructions in front of the i-th, and no more, push.
Pushes(c, i, h) ==
  /\ h \in 0..(i - 1)
  /\ \A k \in 1..h : c[i - k].kind = "pushl"
  /\ h < i - 1 => c[i - h - 1].kind # "pushl"

\* No call is an argument with others behind it.
Plain == CallBeforeArgument = FALSE

\* They push the arguments, the first one last.
Given(c, i, h, args) ==
  Plain => h = Len(args) /\ \A k \in 1..h : c[i - k] = Push(args[k])

\* At the end of the code h words are pushed, for the arguments args.
Pending(c, h, args) == Pushes(c, Len(c) + 1, h) /\ Given(c, Len(c) + 1, h, args)

\* A call stands behind the pushes of its arguments and in front of their pop.
CallOK(c, i) ==
  c[i].kind = "call" =>
    /\ i < Len(c) /\ c[i + 1].kind = "addl"
    /\ Pushes(c, i, c[i + 1].words) /\ Given(c, i, c[i + 1].words, c[i].args)

\* Only calls pop, and nothing else comes between the pushes and the call.
PlaceOK(c, i) ==
  /\ c[i].kind = "addl" => i > 1 /\ c[i - 1].kind = "call"
  /\ c[i].kind \in {"assign", "return"} /\ i > 1 => c[i - 1].kind \notin {"pushl", "call"}

Body(c) == \A i \in 1..Len(c) : CallOK(c, i) /\ PlaceOK(c, i)

Ended(c) == c # <<>> /\ c[Len(c)].kind = "return"

-----------------------------------------------------------------------------
(* The inductive invariant of the translation.                              *)
Step == 1 + Max0(MaxArgs, 1)

\* No call has more than max arguments.
Bounded(o, max) ==
  /\ o \in Seq(OpenCalls)
  /\ \A i \in 1..Len(o) : o[i].left + Len(o[i].args) <= max

Small(c, max) == \A i \in 1..Len(c) : c[i].kind = "call" => Len(c[i].args) <= max

\* What encloses the m-th call still has its first argument to come, and where
\* calls are plain no argument behind it.
Enclosed(o, m) == \A i \in 1..m - 1 : (Plain => o[i].args = <<>>) /\ o[i].left > 0

TypeInv ==
  /\ phase \in {"translate", "run", "exited", "overflow"}
  /\ current \in 1..(Len(Order) + 1)
  /\ Bounded(open, MaxArgs)
  /\ temps \in [Functions -> Nat]
  /\ \A f \in Functions : temps[f] <= tokens * Step
  /\ code \in [Functions -> Seq(Instructions)]
  /\ DOMAIN program = Functions
  /\ tokens \in 0..MaxTokens
  /\ pushed \in 0..tokens
  /\ open # <<>> => tokens > 0

\* The arguments that the innermost call has.
PendingArgs == IF open = <<>> THEN <<>> ELSE Innermost.args

TranslationInv ==
  /\ \A f \in Functions : Body(code[f]) /\ Small(code[f], temps[f])
  /\ Enclosed(open, Len(open))
  /\ open = <<>> => pushed = 0
  /\ IF current <= Len(Order)
     THEN Pending(code[Fn], pushed, PendingArgs) /\ Bounded(open, temps[Fn])
     ELSE open = <<>>
  /\ \A j \in 1..Len(Order) : /\ j < current => Ended(code[Order[j]])
                              /\ j > current => code[Order[j]] = <<>>

-----------------------------------------------------------------------------
(* Code that gets longer.                                                   *)
Longer(c, d, x) ==
  /\ d \in Seq(Instructions) /\ Len(d) = Len(c) + 1
  /\ \A i \in 1..Len(c) : d[i] = c[i]
  /\ d[Len(c) + 1] = x

\* A sequence of one instruction makes the code longer by one ...
LEMMA LongerByOne ==
  ASSUME NEW c \in Seq(Instructions), NEW s \in Seq(Instructions), Len(s) = 1,
         NEW d, d = c \o s
  PROVE  Longer(c, d, s[1])
<1>1. PICK n : n = Len(c)
  OBVIOUS
<1>2. /\ n \in Nat /\ d \in Seq(Instructions) /\ Len(d) = n + 1
      /\ \A i \in 1..n + 1 : d[i] = IF i <= n THEN c[i] ELSE s[i - n]
  <2>1. /\ c \o s \in Seq(Instructions) /\ Len(c \o s) = Len(c) + Len(s)
        /\ \A i \in 1..Len(c) + Len(s) :
             (c \o s)[i] = IF i <= Len(c) THEN c[i] ELSE s[i - Len(c)]
    BY ConcatProperties
  <2> QED
    BY <1>1, <2>1
<1>3. \A i \in 1..n : d[i] = c[i]
  BY <1>2
<1>4. d[n + 1] = s[1]
  <2>1. n + 1 \in 1..n + 1 /\ ~(n + 1 <= n) /\ (n + 1) - n = 1
    BY <1>2
  <2> QED
    BY <1>2, <2>1
<1> QED
  BY <1>1, <1>2, <1>3, <1>4 DEF Longer

\* ... and a sequence with one more instruction by one more.
LEMMA LongerAtEnd ==
  ASSUME NEW c \in Seq(Instructions), NEW s \in Seq(Instructions), NEW x \in Instructions,
         NEW d, d = c \o s, NEW t, t = Append(s, x), NEW e, e = c \o t
  PROVE  t \in Seq(Instructions) /\ Longer(d, e, x)
<1>1. PICK n, m : n = Len(c) /\ m = Len(s)
  OBVIOUS
<1>2. /\ n \in Nat /\ m \in Nat
      /\ t \in Seq(Instructions) /\ Len(t) = m + 1 /\ t[m + 1] = x
      /\ \A i \in 1..m : t[i] = s[i]
  BY <1>1, AppendProperties
<1>3. /\ d \in Seq(Instructions) /\ Len(d) = n + m
      /\ \A i \in 1..n + m : d[i] = IF i <= n THEN c[i] ELSE s[i - n]
  <2>1. /\ c \o s \in Seq(Instructions) /\ Len(c \o s) = Len(c) + Len(s)
        /\ \A i \in 1..Len(c) + Len(s) :
             (c \o s)[i] = IF i <= Len(c) THEN c[i] ELSE s[i - Len(c)]
    BY ConcatProperties
  <2> QED
    BY <1>1, <2>1
<1>4. /\ e \in Seq(Instructions) /\ Len(e) = n + (m + 1)
      /\ \A i \in 1..n + (m + 1) : e[i] = IF i <= n THEN c[i] ELSE t[i - n]
  <2>1. /\ c \o t \in Seq(Instructions) /\ Len(c \o t) = Len(c) + Len(t)
        /\ \A i \in 1..Len(c) + Len(t) :
             (c \o t)[i] = IF i <= Len(c) THEN c[i] ELSE t[i - Len(c)]
    BY <1>2, ConcatProperties
  <2> QED
    BY <1>1, <1>2, <2>1
<1>5. ASSUME NEW i \in 1..n + m PROVE e[i] = d[i]
  <2>1. i \in 1..n + (m + 1) /\ (i <= n \/ (~(i <= n) /\ i - n \in 1..m))
    BY <1>2
  <2> QED
    BY <1>2, <1>3, <1>4, <2>1
<1>6. e[n + m + 1] = x
  <2>1. n + m + 1 \in 1..n + (m + 1) /\ ~(n + m + 1 <= n) /\ (n + m + 1) - n = m + 1
    BY <1>2
  <2> QED
    BY <1>2, <1>4, <2>1
<1>7. Len(e) = Len(d) + 1 /\ Len(d) + 1 = n + m + 1
  BY <1>2, <1>3, <1>4
<1> QED
  BY <1>2, <1>3, <1>4, <1>5, <1>6, <1>7 DEF Longer

\* What is in place stays in place.
LEMMA OldPlace ==
  ASSUME NEW c \in Seq(Instructions), NEW d \in Seq(Instructions), Body(c),
         Len(d) >= Len(c), \A i \in 1..Len(c) : d[i] = c[i],
         NEW i \in 1..Len(c)
  PROVE  CallOK(d, i) /\ PlaceOK(d, i)
<1>1. PICK n : n = Len(c)
  OBVIOUS
<1>2. n \in Nat /\ i \in 1..n /\ CallOK(c, i) /\ PlaceOK(c, i) /\ d[i] = c[i]
  BY <1>1 DEF Body
<1>3. i > 1 => d[i - 1] = c[i - 1]
  BY <1>1, <1>2
<1>4. PlaceOK(d, i)
  BY <1>2, <1>3 DEF PlaceOK
<1>5. CASE c[i].kind = "call"
  <2>1. PICK h : h = c[i + 1].words
    OBVIOUS
  <2>2. /\ i < n /\ c[i + 1].kind = "addl"
        /\ h \in 0..i - 1
        /\ \A k \in 1..h : c[i - k].kind = "pushl"
        /\ h < i - 1 => c[i - h - 1].kind # "pushl"
        /\ Plain => h = Len(c[i].args) /\ \A k \in 1..h : c[i - k] = Push(c[i].args[k])
    BY <1>1, <1>2, <1>5, <2>1 DEF CallOK, Pushes, Given
  <2>3. \A k \in 1..h : i - k \in 1..n /\ d[i - k] = c[i - k]
    BY <1>1, <1>2, <2>2
  <2>4. h < i - 1 => d[i - h - 1] = c[i - h - 1]
    BY <1>1, <1>2, <2>2
  <2>5. d[i + 1] = c[i + 1] /\ i < Len(d)
    BY <1>1, <1>2, <2>2
  <2>6. Pushes(d, i, h)
    BY <2>2, <2>3, <2>4 DEF Pushes
  <2>7. Given(d, i, h, c[i].args)
    BY <2>2, <2>3 DEF Given
  <2> QED
    BY <1>2, <1>4, <2>1, <2>2, <2>5, <2>6, <2>7 DEF CallOK
<1> QED
  BY <1>2, <1>4, <1>5 DEF CallOK

\* No body ends in a call: its arguments are popped behind it.
LEMMA NoCallLast ==
  ASSUME NEW c \in Seq(Instructions), Body(c), Len(c) > 0
  PROVE  c[Len(c)].kind # "call"
<1>1. PICK n : n = Len(c)
  OBVIOUS
<1>2. n \in 1..Len(c)
  BY <1>1
<1>3. CallOK(c, n)
  BY <1>2 DEF Body
<1> QED
  BY <1>1, <1>2, <1>3 DEF CallOK

\* A push is one more pending argument.
LEMMA PushBody ==
  ASSUME NEW c \in Seq(Instructions), NEW args \in Seq(Operands), NEW x \in Operands,
         NEW h, Body(c), Pending(c, h, args), NEW d, Longer(c, d, Push(x)),
         NEW more, more = <<x>> \o args
  PROVE  Body(d) /\ Pending(d, h + 1, more)
<1>1. PICK n, l : n = Len(c) /\ l = Len(args)
  OBVIOUS
<1>2. /\ n \in Nat /\ l \in Nat /\ Len(d) = n + 1 /\ d \in Seq(Instructions)
      /\ \A i \in 1..n : d[i] = c[i]
      /\ d[n + 1] = Push(x)
  BY <1>1 DEF Longer
<1>3. Push(x).kind = "pushl"
  BY DEF Push
<1>4. CallOK(d, n + 1) /\ PlaceOK(d, n + 1)
  BY <1>2, <1>3 DEF CallOK, PlaceOK
<1>5. Body(d)
  <2>1. ASSUME NEW i \in 1..n + 1 PROVE CallOK(d, i) /\ PlaceOK(d, i)
    <3>1. CASE i = n + 1
      BY <1>4, <3>1
    <3>2. CASE i \in 1..n
      <4>1. Len(d) >= Len(c)
        BY <1>1, <1>2
      <4> QED
        BY <1>1, <1>2, <3>2, <4>1, OldPlace
    <3> QED
      BY <1>2, <3>1, <3>2
  <2> QED
    BY <1>2, <2>1 DEF Body
<1>6. PICK one : one = <<x>>
  OBVIOUS
<1>7. one \in Seq(Operands) /\ Len(one) = 1 /\ one[1] = x
  BY <1>6
<1>8. /\ Len(more) = l + 1 /\ more[1] = x
      /\ \A k \in 1..l : more[k + 1] = args[k]
  <2>1. /\ Len(more) = 1 + l
        /\ \A k \in 1..1 + l : more[k] = IF k <= 1 THEN one[k] ELSE args[k - 1]
    BY <1>1, <1>6, <1>7, ConcatProperties
  <2>2. more[1] = x
    BY <1>2, <1>7, <2>1
  <2>3. ASSUME NEW k \in 1..l PROVE more[k + 1] = args[k]
    <3>1. k + 1 \in 1..1 + l /\ ~(k + 1 <= 1) /\ (k + 1) - 1 = k
      BY <1>2
    <3> QED
      BY <2>1, <3>1
  <2> QED
    BY <1>2, <2>1, <2>2, <2>3
<1>9. /\ h \in 0..n
      /\ \A k \in 1..h : c[n + 1 - k].kind = "pushl"
      /\ h < n => c[n - h].kind # "pushl"
      /\ Plain => h = l /\ \A k \in 1..h : c[n + 1 - k] = Push(args[k])
  <2>1. Pushes(c, n + 1, h) /\ Given(c, n + 1, h, args)
    BY <1>1 DEF Pending
  <2>2. h \in 0..n
    BY <1>2, <2>1 DEF Pushes
  <2>3. n + 1 - h - 1 = n - h /\ (h < n => h < n + 1 - 1)
    BY <1>2, <2>2
  <2> QED
    BY <1>1, <2>1, <2>2, <2>3 DEF Pushes, Given
<1>10. PICK m, g : m = n + 2 /\ g = h + 1
  OBVIOUS
<1>11. ASSUME NEW k \in 1..g
       PROVE  k = 1 \/ (k - 1 \in 1..h /\ d[m - k] = c[n + 1 - (k - 1)])
  <2>1. SUFFICES ASSUME k # 1 PROVE k - 1 \in 1..h /\ d[m - k] = c[n + 1 - (k - 1)]
    OBVIOUS
  <2>2. PICK j : j = k - 1
    OBVIOUS
  <2>3. h \in 0..n /\ n \in Nat /\ m = n + 2 /\ g = h + 1
    BY <1>2, <1>9, <1>10
  <2>4. j \in 1..h /\ m - k = n + 1 - j /\ n + 1 - j \in 1..n
    BY <2>1, <2>2, <2>3
  <2> QED
    BY <1>2, <2>2, <2>4
<1>12. d[m - 1] = Push(x)
  BY <1>2, <1>10
<1>13. ASSUME NEW k \in 1..g PROVE d[m - k].kind = "pushl"
  BY <1>3, <1>9, <1>11, <1>12
<1>14. h + 1 < n + 1 => d[n - h].kind # "pushl"
  <2>1. h + 1 < n + 1 => h < n /\ n - h \in 1..n
    BY <1>2, <1>9
  <2> QED
    BY <1>2, <1>9, <2>1
<1>15. Pushes(d, m, g)
  <2>1. g \in 0..m - 1 /\ (g < m - 1 => h + 1 < n + 1) /\ m - g - 1 = n - h
    BY <1>2, <1>9, <1>10
  <2> QED
    BY <1>13, <1>14, <2>1 DEF Pushes
<1>16. Given(d, m, g, more)
  <2>1. SUFFICES ASSUME Plain PROVE g = Len(more) /\ \A k \in 1..g : d[m - k] = Push(more[k])
    BY DEF Given
  <2>2. g = Len(more)
    BY <1>8, <1>9, <1>10, <2>1
  <2>3. ASSUME NEW k \in 1..g PROVE d[m - k] = Push(more[k])
    <3>1. CASE k = 1
      BY <1>8, <1>12, <3>1
    <3>2. CASE k # 1
      <4>1. PICK j : j = k - 1
        OBVIOUS
      <4>2. j \in 1..h /\ d[m - k] = c[n + 1 - j] /\ k = j + 1
        BY <1>11, <3>2, <4>1
      <4> QED
        BY <1>8, <1>9, <2>1, <4>2
    <3> QED
      BY <3>1, <3>2
  <2> QED
    BY <2>2, <2>3
<1>17. Len(d) + 1 = m
  BY <1>2, <1>10
<1> QED
  BY <1>5, <1>10, <1>15, <1>16, <1>17 DEF Pending

\* A statement stands where nothing is pushed.
LEMMA StatementBody ==
  ASSUME NEW c \in Seq(Instructions), NEW x \in Instructions,
         Body(c), Pending(c, 0, <<>>), NEW d, Longer(c, d, x),
         x.kind \in {"assign", "return"}
  PROVE  Body(d) /\ Pending(d, 0, <<>>)
<1>1. PICK n, none : n = Len(c) /\ none = <<>>
  OBVIOUS
<1>2. /\ n \in Nat /\ Len(d) = n + 1 /\ d \in Seq(Instructions)
      /\ \A i \in 1..n : d[i] = c[i]
      /\ d[n + 1] = x
  BY <1>1 DEF Longer
<1>3. Len(none) = 0
  BY <1>1
<1>4. n > 0 => c[n].kind # "pushl"
  <2>1. 0 < (n + 1) - 1 => c[(n + 1) - 0 - 1].kind # "pushl"
    BY <1>1 DEF Pending, Pushes
  <2>2. (n + 1) - 1 = n /\ (n + 1) - 0 - 1 = n
    BY <1>2
  <2> QED
    BY <2>1, <2>2
<1>5. n > 0 => c[n].kind # "call"
  BY <1>1, NoCallLast
<1>6. CallOK(d, n + 1) /\ PlaceOK(d, n + 1)
  <2>1. (n + 1) - 1 = n /\ (n > 0 => d[n] = c[n]) /\ (n + 1 > 1 => n > 0)
    BY <1>2
  <2> QED
    BY <1>2, <1>4, <1>5, <2>1 DEF CallOK, PlaceOK
<1>7. Body(d)
  <2>1. ASSUME NEW i \in 1..n + 1 PROVE CallOK(d, i) /\ PlaceOK(d, i)
    <3>1. CASE i = n + 1
      BY <1>6, <3>1
    <3>2. CASE i \in 1..n
      <4>1. Len(d) >= Len(c)
        BY <1>1, <1>2
      <4> QED
        BY <1>1, <1>2, <3>2, <4>1, OldPlace
    <3> QED
      BY <1>2, <3>1, <3>2
  <2> QED
    BY <1>2, <2>1 DEF Body
<1>8. Pushes(d, n + 2, 0)
  <2>1. 0 \in 0..(n + 2) - 1 /\ (n + 2) - 0 - 1 = n + 1
    BY <1>2
  <2> QED
    BY <1>2, <2>1 DEF Pushes
<1>9. Pending(d, 0, none)
  <2>1. Len(d) + 1 = n + 2
    BY <1>2
  <2> QED
    BY <1>3, <1>8, <2>1 DEF Pending, Given
<1> QED
  BY <1>1, <1>7, <1>9

\* A call takes what is pending; rest is what the call around it has.
LEMMA CallBody ==
  ASSUME NEW c \in Seq(Instructions), NEW args \in Seq(Operands), NEW h,
         Body(c), Pending(c, h, args),
         NEW x, x.kind = "call", x.args = args, NEW y, y.kind = "addl", y.words = h,
         NEW d \in Seq(Instructions), Len(d) = Len(c) + 2,
         \A i \in 1..Len(c) : d[i] = c[i], d[Len(c) + 1] = x, d[Len(c) + 2] = y,
         NEW rest, Plain => Len(rest) = 0
  PROVE  Body(d) /\ Pending(d, 0, rest)
<1>1. PICK n : n = Len(c)
  OBVIOUS
<1>2. /\ n \in Nat /\ Len(d) = n + 2
      /\ \A i \in 1..n : d[i] = c[i]
      /\ d[n + 1] = x /\ d[n + 2] = y
  BY <1>1
<1>3. /\ h \in 0..n
      /\ \A k \in 1..h : c[n + 1 - k].kind = "pushl"
      /\ h < n => c[n - h].kind # "pushl"
      /\ Plain => h = Len(args) /\ \A k \in 1..h : c[n + 1 - k] = Push(args[k])
  <2>1. Pushes(c, n + 1, h) /\ Given(c, n + 1, h, args)
    BY <1>1 DEF Pending
  <2>2. h \in 0..n
    BY <1>2, <2>1 DEF Pushes
  <2>3. n + 1 - h - 1 = n - h /\ (h < n => h < n + 1 - 1)
    BY <1>2, <2>2
  <2> QED
    BY <1>1, <2>1, <2>2, <2>3 DEF Pushes, Given
<1>4. PICK m : m = n + 1
  OBVIOUS
<1>5. ASSUME NEW k \in 1..h PROVE d[m - k] = c[n + 1 - k]
  <2>1. m - k \in 1..n /\ m - k = n + 1 - k
    BY <1>4, <1>2, <1>3
  <2> QED
    BY <1>2, <2>1
<1>6. Pushes(d, m, h)
  <2>1. h \in 0..m - 1 /\ m - h - 1 = n - h /\ (h < m - 1 => h < n)
    BY <1>4, <1>2, <1>3
  <2>2. h < n => n - h \in 1..n
    BY <1>2, <1>3
  <2>3. h < n => d[n - h] = c[n - h]
    BY <1>2, <2>2
  <2> QED
    BY <1>3, <1>5, <2>1, <2>3 DEF Pushes
<1>7. Given(d, m, h, args)
  BY <1>3, <1>5 DEF Given
<1>8. CallOK(d, n + 1)
  <2>1. m < Len(d) /\ m + 1 = n + 2
    BY <1>4, <1>2
  <2>2. CallOK(d, m)
    BY <1>4, <1>2, <1>6, <1>7, <2>1 DEF CallOK
  <2> QED
    BY <1>4, <2>2
<1>9. CallOK(d, n + 2) /\ PlaceOK(d, n + 1) /\ PlaceOK(d, n + 2)
  <2>1. n + 2 > 1 /\ (n + 2) - 1 = n + 1
    BY <1>2
  <2> QED
    BY <1>2, <2>1 DEF CallOK, PlaceOK
<1>10. Body(d)
  <2>1. ASSUME NEW i \in 1..n + 2 PROVE CallOK(d, i) /\ PlaceOK(d, i)
    <3>1. CASE i = n + 1
      BY <1>8, <1>9, <3>1
    <3>2. CASE i = n + 2
      BY <1>9, <3>2
    <3>3. CASE i \in 1..n
      <4>1. Len(d) >= Len(c)
        BY <1>1, <1>2
      <4> QED
        BY <1>1, <1>2, <3>3, <4>1, OldPlace
    <3> QED
      BY <1>2, <3>1, <3>2, <3>3
  <2> QED
    BY <1>2, <2>1 DEF Body
<1>11. Pushes(d, n + 3, 0)
  <2>1. 0 \in 0..(n + 3) - 1 /\ (n + 3) - 0 - 1 = n + 2
    BY <1>2
  <2> QED
    BY <1>2, <2>1 DEF Pushes
<1>12. Pending(d, 0, rest)
  <2>1. Len(d) + 1 = n + 3
    BY <1>2
  <2> QED
    BY <1>11, <2>1 DEF Pending, Given
<1> QED
  BY <1>10, <1>12

-----------------------------------------------------------------------------
(* The functions, and what is allocated and printed for them.               *)
LEMMA OrderIsInjective ==
  /\ Len(Order) \in Nat \ {0}
  /\ \A i \in 1..Len(Order) : Order[i] \in Functions
  /\ \A i, j \in 1..Len(Order) : Order[i] = Order[j] => i = j
<1>1. PICK n : n = Len(Order)
  OBVIOUS
<1>2. /\ n \in Nat /\ n # 0 /\ DOMAIN Order = 1..n
      /\ Order \in [1..n -> Functions] /\ Cardinality(Functions) = n
  BY <1>1, OrderAssumption
<1>3. Order \in Surjection(1..n, Functions)
  BY <1>2 DEF Surjection, Functions, ToSet
<1>4. IsFiniteSet(1..n) /\ Cardinality(1..n) = n
  BY <1>2, FS_Interval
<1>5. Order \in Injection(1..n, Functions)
  BY <1>2, <1>3, <1>4, FS_SurjSameCardinalityImpliesInj
<1> QED
  BY <1>1, <1>2, <1>5 DEF Injection, IsInjective

\* The bounds are numbers.
LEMMA StepIsNat == Step \in Nat /\ Step >= 2 /\ MaxTokens \in Nat /\ MaxArgs \in Nat
BY BoundsAssumption DEF Step, Max0

\* What a token may bring, multiplied by the tokens.
LEMMA Products ==
  ASSUME NEW a \in Nat, NEW b \in Nat, NEW s \in Nat, a <= b
  PROVE  a * s <= b * s /\ a * s \in Nat /\ (a + 1) * s = a * s + s
<1>1. PICK k \in Nat : b = a + k
  <2>1. b - a \in Nat /\ b = a + (b - a)
    OBVIOUS
  <2> QED
    BY <2>1
<1>2. (a + k) * s = a * s + k * s /\ k * s >= 0 /\ a * s >= 0
  OBVIOUS
<1> QED
  BY <1>1, <1>2

\* A token brings no more pseudoregisters than Step.
LEMMA TempsGrow ==
  ASSUME temps \in [Functions -> Nat], \A f \in Functions : temps[f] <= tokens * Step,
         tokens \in 0..MaxTokens, ReadToken, NEW fn \in Functions, NEW n \in 0..Step,
         temps' = [temps EXCEPT ![fn] = @ + n]
  PROVE  /\ temps' \in [Functions -> Nat]
         /\ \A f \in Functions : temps'[f] <= tokens' * Step
         /\ \A f \in Functions : temps[f] <= temps'[f]
         /\ tokens' \in 0..MaxTokens /\ tokens' > 0
         /\ temps[fn] + 1 \in TempNumbers
<1>1. PICK s, t, u : s = Step /\ t = tokens /\ u = tokens'
  OBVIOUS
<1>2. s \in Nat /\ s >= 2 /\ MaxTokens \in Nat
  BY <1>1, StepIsNat
<1>3. t \in Nat /\ u = t + 1 /\ u <= MaxTokens
  BY <1>1, <1>2 DEF ReadToken
<1>4. /\ t * s \in Nat /\ u * s = t * s + s
      /\ u * s <= MaxTokens * s /\ MaxTokens * s \in Nat
  BY <1>2, <1>3, Products
<1>5. \A f \in Functions : temps[f] \in Nat /\ temps[f] <= t * s
  BY <1>1
<1>6. n \in Nat /\ n <= s
  BY <1>1, <1>2
<1>7. temps' \in [Functions -> Nat]
  BY <1>5, <1>6
<1>8. ASSUME NEW f \in Functions PROVE temps'[f] <= u * s /\ temps[f] <= temps'[f]
  <2>1. temps'[f] = IF f = fn THEN temps[f] + n ELSE temps[f]
    OBVIOUS
  <2> QED
    BY <1>2, <1>4, <1>5, <1>6, <2>1
<1>9. temps[fn] + 1 \in 1..MaxTokens * s
  BY <1>2, <1>4, <1>5
<1> QED
  BY <1>1, <1>2, <1>3, <1>7, <1>8, <1>9 DEF TempNumbers, Step

\* An argument that is no call brings none.
LEMMA TokensGrow ==
  ASSUME TypeInv, ReadToken, temps' = temps
  PROVE  /\ temps' \in [Functions -> Nat]
         /\ \A f \in Functions : temps'[f] <= tokens' * Step
         /\ \A f \in Functions : temps[f] <= temps'[f]
         /\ tokens' \in 0..MaxTokens /\ tokens' > 0
<1>1. PICK s, t, u : s = Step /\ t = tokens /\ u = tokens'
  OBVIOUS
<1>2. s \in Nat /\ MaxTokens \in Nat
  BY <1>1, StepIsNat
<1>3. t \in Nat /\ u \in Nat /\ t <= u /\ u \in 0..MaxTokens /\ u > 0
  BY <1>1, <1>2 DEF ReadToken, TypeInv
<1>4. t * s <= u * s /\ t * s \in Nat /\ u * s \in Nat
  BY <1>2, <1>3, Products
<1>5. \A f \in Functions : temps[f] \in Nat /\ temps[f] <= t * s
  BY <1>1 DEF TypeInv
<1>6. \A f \in Functions : temps[f] <= u * s
  BY <1>4, <1>5
<1> QED
  BY <1>1, <1>3, <1>6 DEF TypeInv

\* Only what is being translated gets longer.
LEMMA EmitKeeps ==
  ASSUME TypeInv, TranslationInv, current <= Len(Order),
         NEW s \in Seq(Instructions), NEW fn, fn = Fn, NEW c, c = code[fn],
         code' = [code EXCEPT ![fn] = @ \o s]
  PROVE  /\ fn \in Functions /\ c \in Seq(Instructions)
         /\ Body(c) /\ Small(c, temps[fn])
         /\ Pending(c, pushed, PendingArgs) /\ Bounded(open, temps[fn])
         /\ code' \in [Functions -> Seq(Instructions)]
         /\ code'[fn] = c \o s
         /\ \A f \in Functions : f # fn =>
              code'[f] = code[f] /\ Body(code[f]) /\ Small(code[f], temps[f])
         /\ \A j \in 1..Len(Order) :
              /\ j < current => Order[j] # fn /\ Ended(code'[Order[j]])
              /\ j > current => Order[j] # fn /\ code'[Order[j]] = <<>>
<1>1. /\ current \in 1..Len(Order) /\ code \in [Functions -> Seq(Instructions)]
      /\ Pending(code[Fn], pushed, PendingArgs) /\ Bounded(open, temps[Fn])
      /\ \A f \in Functions : Body(code[f]) /\ Small(code[f], temps[f])
      /\ \A j \in 1..Len(Order) : /\ j < current => Ended(code[Order[j]])
                                  /\ j > current => code[Order[j]] = <<>>
  BY OrderIsInjective DEF TypeInv, TranslationInv
<1>2. fn = Order[current] /\ fn \in Functions
  BY <1>1, OrderIsInjective DEF Fn
<1>3. c \in Seq(Instructions) /\ c \o s \in Seq(Instructions)
  BY <1>1, <1>2, ConcatProperties
<1>4. /\ code' \in [Functions -> Seq(Instructions)]
      /\ code'[fn] = c \o s
      /\ \A f \in Functions : f # fn => code'[f] = code[f]
  BY <1>1, <1>2, <1>3
<1>5. ASSUME NEW j \in 1..Len(Order), j # current
      PROVE  Order[j] # fn /\ code'[Order[j]] = code[Order[j]]
  <2>1. Order[j] # fn /\ Order[j] \in Functions
    BY <1>1, <1>2, <1>5, OrderIsInjective
  <2> QED
    BY <1>4, <2>1
<1>6. \A j \in 1..Len(Order) :
        /\ j < current => Order[j] # fn /\ Ended(code'[Order[j]])
        /\ j > current => Order[j] # fn /\ code'[Order[j]] = <<>>
  <2>1. SUFFICES ASSUME NEW j \in 1..Len(Order), j # current
                 PROVE  /\ j < current => Order[j] # fn /\ Ended(code'[Order[j]])
                        /\ j > current => Order[j] # fn /\ code'[Order[j]] = <<>>
    <3>1. current \in Nat
      BY <1>1
    <3>2. \A j \in 1..Len(Order) : j < current \/ j > current => j # current
      BY <3>1, OrderIsInjective
    <3> QED
      BY <3>2
  <2> QED
    BY <1>1, <1>5
<1> QED
  BY <1>1, <1>2, <1>3, <1>4, <1>6

\* More pseudoregisters allow for longer calls, ...
LEMMA SmallKept ==
  ASSUME NEW c \in Seq(Instructions), NEW a \in Nat, NEW b \in Nat, a <= b, Small(c, a)
  PROVE  Small(c, b)
<1>1. ASSUME NEW i \in 1..Len(c), c[i].kind = "call" PROVE Len(c[i].args) <= b
  <2>1. c[i] \in Instructions /\ Len(c[i].args) <= a
    BY <1>1 DEF Small
  <2>2. c[i].args \in Seq(Operands)
    BY <1>1, <2>1, InstructionShape
  <2>3. PICK l : l = Len(c[i].args)
    OBVIOUS
  <2>4. l \in Nat /\ l <= a
    BY <2>1, <2>2, <2>3
  <2>5. l <= b
    BY <2>4
  <2> QED
    BY <2>3, <2>5
<1> QED
  BY <1>1 DEF Small

\* ... in what is printed and in what is printed behind it, ...
LEMMA SmallMore ==
  ASSUME NEW c \in Seq(Instructions), NEW s \in Seq(Instructions), NEW d, d = c \o s,
         NEW a \in Nat, NEW b \in Nat, a <= b, Small(c, a), Small(s, b)
  PROVE  Small(d, b)
<1>1. PICK n, m : n = Len(c) /\ m = Len(s)
  OBVIOUS
<1>2. /\ n \in Nat /\ m \in Nat /\ Len(d) = n + m
      /\ \A i \in 1..n + m : d[i] = IF i <= n THEN c[i] ELSE s[i - n]
  BY <1>1, ConcatProperties
<1>3. ASSUME NEW i \in 1..n + m, d[i].kind = "call" PROVE Len(d[i].args) <= b
  <2>1. CASE i <= n
    <3>1. i \in 1..n /\ d[i] = c[i]
      BY <1>2, <2>1
    <3>2. \A k \in 1..n : c[k].kind = "call" => Len(c[k].args) <= b
      BY <1>1, SmallKept DEF Small
    <3> QED
      BY <1>3, <3>1, <3>2
  <2>2. CASE ~(i <= n)
    <3>1. PICK j : j = i - n
      OBVIOUS
    <3>2. j \in 1..m /\ d[i] = s[j]
      <4>1. i \in 1..n + m /\ d[i] = s[i - n]
        BY <1>2, <1>3, <2>2
      <4> QED
        BY <1>2, <2>2, <3>1, <4>1
    <3>3. \A k \in 1..m : s[k].kind = "call" => Len(s[k].args) <= b
      BY <1>1 DEF Small
    <3> QED
      BY <1>3, <3>2, <3>3
  <2> QED
    BY <2>1, <2>2
<1> QED
  BY <1>2, <1>3 DEF Small

\* ... and in what is open.
LEMMA BoundedMore ==
  ASSUME NEW o, NEW a \in Nat, NEW b \in Nat, a <= b, Bounded(o, a)
  PROVE  Bounded(o, b)
<1>1. ASSUME NEW i \in 1..Len(o) PROVE o[i].left + Len(o[i].args) <= b
  <2>1. o[i] \in OpenCalls /\ o[i].left + Len(o[i].args) <= a
    BY DEF Bounded
  <2>2. o[i].left \in Nat /\ o[i].args \in Seq(Operands)
    BY <2>1 DEF OpenCalls
  <2>3. PICK l, k : l = o[i].left /\ k = Len(o[i].args)
    OBVIOUS
  <2>4. l \in Nat /\ k \in Nat /\ l + k <= a
    BY <2>1, <2>2, <2>3
  <2>5. l + k <= b
    BY <2>4
  <2> QED
    BY <2>3, <2>5
<1> QED
  BY <1>1 DEF Bounded

-----------------------------------------------------------------------------
(* Each action of the translation preserves the invariant.                  *)

\* One more argument of the m-th open call, which becomes the innermost one.
Taken(o, m, x) == Append(SubSeq(o, 1, m - 1), ArgumentAdded(o[m], x))
InFront(x, args) == <<x>> \o args

\* The innermost call has one argument more in front, the others are as they were.
LEMMA ArgumentTaken ==
  ASSUME NEW max \in Nat, NEW o, Bounded(o, max), NEW m \in 1..Len(o), o[m].left > 0,
         NEW x \in Operands, Enclosed(o, m), NEW q, q = Taken(o, m, x)
  PROVE  Bounded(q, max) /\ Len(q) = m /\ Enclosed(q, m) /\ q[m].args = InFront(x, o[m].args)
<1>1. /\ o \in Seq(OpenCalls)
      /\ \A i \in 1..Len(o) : o[i].left + Len(o[i].args) <= max
      /\ \A i \in 1..m - 1 : (Plain => o[i].args = <<>>) /\ o[i].left > 0
  BY DEF Bounded, Enclosed
<1>2. PICK n, p : n = Len(o) /\ p = SubSeq(o, 1, m - 1)
  OBVIOUS
<1>3. n \in Nat /\ m \in 1..n /\ \A i \in 1..n : o[i] \in OpenCalls
  BY <1>1, <1>2
<1>4. \A i \in 1..m - 1 : i \in 1..n /\ o[i] \in OpenCalls
  BY <1>3
<1>5. /\ p \in Seq(OpenCalls) /\ Len(p) = m - 1
      /\ \A i \in 1..m - 1 : p[i] = o[i]
  <2>1. m - 1 \in Int /\ (m - 1) - 1 + 1 = m - 1 /\ (1 <= m - 1 \/ m - 1 = 0)
    BY <1>3
  <2>2. /\ p \in Seq(OpenCalls)
        /\ Len(p) = IF 1 <= m - 1 THEN (m - 1) - 1 + 1 ELSE 0
        /\ \A i \in 1..(m - 1) - 1 + 1 : p[i] = o[1 + i - 1]
    BY <1>2, <1>4, <2>1, SubSeqProperties
  <2>3. \A i \in 1..m - 1 : 1 + i - 1 = i
    BY <1>3
  <2> QED
    BY <2>1, <2>2, <2>3
<1>6. PICK one, a : one = <<x>> /\ a = o[m].args
  OBVIOUS
<1>7. o[m] \in OpenCalls
  BY <1>3
<1>8. /\ a \in Seq(Operands) /\ o[m].callee \in Callees
      /\ o[m].left \in Nat /\ o[m].result \in TempNumbers
  BY <1>6, <1>7 DEF OpenCalls
<1>9. one \in Seq(Operands) /\ Len(one) = 1
  BY <1>6
<1>10. one \o a \in Seq(Operands) /\ Len(one \o a) = 1 + Len(a) /\ Len(a) \in Nat
  <2>1. one \o a \in Seq(Operands) /\ Len(one \o a) = Len(one) + Len(a)
    BY <1>8, <1>9, ConcatProperties
  <2>2. Len(a) \in Nat
    BY <1>8
  <2> QED
    BY <1>9, <2>1, <2>2
<1>11. PICK y : y = ArgumentAdded(o[m], x)
  OBVIOUS
<1>12. /\ y.left = o[m].left - 1 /\ y.args = one \o a
       /\ y \in OpenCalls
  <2>1. y = [callee |-> o[m].callee, left |-> o[m].left - 1, args |-> one \o a,
             result |-> o[m].result]
    BY <1>6, <1>11 DEF ArgumentAdded, Call
  <2>2. o[m].left - 1 \in Nat
    BY <1>8
  <2> QED
    BY <1>8, <1>10, <2>1, <2>2 DEF OpenCalls
<1>13. y.left + Len(y.args) <= max
  <2>1. o[m].left + Len(a) <= max
    BY <1>1, <1>6
  <2>2. Len(y.args) = 1 + Len(a)
    BY <1>10, <1>12
  <2> QED
    BY <1>8, <1>10, <1>12, <2>1, <2>2
<1>14. /\ q \in Seq(OpenCalls) /\ Len(q) = Len(p) + 1
       /\ \A i \in 1..Len(p) : q[i] = p[i]
       /\ q[Len(p) + 1] = y
  BY <1>2, <1>5, <1>11, <1>12, AppendProperties DEF Taken
<1>15. Len(q) = m /\ q[m] = y /\ \A i \in 1..m - 1 : q[i] = o[i]
  BY <1>3, <1>5, <1>14
<1>16. ASSUME NEW i \in 1..m PROVE q[i].left + Len(q[i].args) <= max
  <2>1. i = m \/ (i \in 1..m - 1 /\ i \in 1..n)
    BY <1>3
  <2> QED
    BY <1>1, <1>2, <1>13, <1>15, <2>1
<1>17. Bounded(q, max)
  BY <1>14, <1>15, <1>16 DEF Bounded
<1>18. Enclosed(q, m)
  BY <1>1, <1>15 DEF Enclosed
<1> QED
  BY <1>6, <1>12, <1>15, <1>17, <1>18 DEF InFront

\* What is left to show of a step that prints something for the function.
LEMMA EmitDone ==
  ASSUME TypeInv, TranslationInv, current <= Len(Order),
         NEW s \in Seq(Instructions), NEW fn, fn = Fn, code' = [code EXCEPT ![fn] = @ \o s],
         NEW h, NEW args, Body(code[fn] \o s), Pending(code[fn] \o s, h, args),
         Small(s, temps'[fn]),
         NEW o, o = open', Bounded(o, MaxArgs), Bounded(o, temps'[fn]), Enclosed(o, Len(o)),
         args = IF o = <<>> THEN <<>> ELSE o[Len(o)].args,
         pushed' = h, h \in 0..tokens', o = <<>> => h = 0, o # <<>> => tokens' > 0,
         temps' \in [Functions -> Nat], \A f \in Functions : temps'[f] <= tokens' * Step,
         \A f \in Functions : temps[f] <= temps'[f],
         tokens' \in 0..MaxTokens, DOMAIN program' = Functions,
         phase' = phase, current' = current
  PROVE  TypeInv' /\ TranslationInv'
<1>1. PICK c : c = code[fn]
  OBVIOUS
<1>2. /\ fn \in Functions /\ c \in Seq(Instructions) /\ Small(c, temps[fn])
      /\ code' \in [Functions -> Seq(Instructions)]
      /\ code'[fn] = c \o s
      /\ \A f \in Functions : f # fn =>
           code'[f] = code[f] /\ Body(code[f]) /\ Small(code[f], temps[f])
      /\ \A j \in 1..Len(Order) :
           /\ j < current => Order[j] # fn /\ Ended(code'[Order[j]])
           /\ j > current => Order[j] # fn /\ code'[Order[j]] = <<>>
  BY <1>1, EmitKeeps
<1>3. TypeInv'
  <2>1. Bounded(open, MaxArgs)'
    BY DEF Bounded
  <2> QED
    BY <1>2, <2>1 DEF TypeInv
<1>4. PendingArgs' = args
  BY DEF PendingArgs, Innermost
<1>5. Fn' = fn
  BY DEF Fn
<1>6. ASSUME NEW f \in Functions PROVE Body(code'[f]) /\ Small(code'[f], temps'[f])
  <2>1. temps[f] \in Nat /\ temps'[f] \in Nat /\ temps[f] <= temps'[f]
    BY DEF TypeInv
  <2>2. CASE f = fn
    <3>1. PICK d, a, b : d = c \o s /\ a = temps[f] /\ b = temps'[f]
      OBVIOUS
    <3>2. Small(d, b)
      BY <1>2, <2>1, <2>2, <3>1, SmallMore
    <3> QED
      BY <1>1, <1>2, <2>2, <3>1, <3>2
  <2>3. CASE f # fn
    <3>1. code[f] \in Seq(Instructions) /\ Small(code[f], temps[f])
      BY <1>2, <2>3 DEF TypeInv
    <3>2. Small(code[f], temps'[f])
      BY <2>1, <3>1, SmallKept
    <3> QED
      BY <1>2, <2>3, <3>2
  <2> QED
    BY <2>2, <2>3
<1>7. Pending(code'[Fn'], pushed', PendingArgs')
  BY <1>1, <1>2, <1>4, <1>5
<1>8. Enclosed(open, Len(open))' /\ Bounded(open, temps[Fn])'
  <2>1. Enclosed(open, Len(open))'
    BY DEF Enclosed
  <2>2. temps'[Fn'] = temps'[fn]
    BY <1>5
  <2>3. Bounded(open, temps[Fn])'
    BY <2>2 DEF Bounded
  <2> QED
    BY <2>1, <2>3
<1> QED
  BY <1>2, <1>3, <1>6, <1>7, <1>8 DEF TranslationInv

\* An assignment stands where no call is open.
LEMMA KeepsAssignment ==
  ASSUME TypeInv, TranslationInv, NEW k \in 1..LocalCount, NEW v \in Values, Assignment(k, v)
  PROVE  TypeInv' /\ TranslationInv'
<1>1. /\ current <= Len(Order) /\ open = <<>> /\ open' = open
      /\ ReadToken /\ temps' = [temps EXCEPT ![Fn] = @ + 1]
      /\ pushed' = pushed /\ phase' = phase /\ current' = current
  BY DEF Assignment, AtStatement, Translating, NewTemps
<1>2. PICK fn, x, s, t : /\ fn = Fn /\ t = temps[Fn] + 1
                         /\ x = [kind |-> "assign", local |-> k, value |-> Value(v), temp |-> t]
                         /\ s = <<x>>
  OBVIOUS
<1>3. code' = [code EXCEPT ![fn] = @ \o s]
  BY <1>2 DEF Assignment, Emit
<1>4. DOMAIN program' = Functions
  BY DEF Assignment, Evaluate, TypeInv
<1>5. fn \in Functions /\ temps \in [Functions -> Nat]
  BY <1>1, <1>2, OrderIsInjective DEF TypeInv, Fn
<1>6. x \in Instructions /\ x.kind = "assign"
  <2>1. t \in Nat \ {0}
    BY <1>2, <1>5
  <2> QED
    BY <1>2, <2>1 DEF Instructions
<1>7. s \in Seq(Instructions) /\ Len(s) = 1 /\ s[1] = x
  BY <1>2, <1>6
<1>8. /\ temps' \in [Functions -> Nat]
      /\ \A f \in Functions : temps'[f] <= tokens' * Step
      /\ \A f \in Functions : temps[f] <= temps'[f]
      /\ tokens' \in 0..MaxTokens /\ tokens' > 0
  <2>1. 1 \in 0..Step /\ temps' = [temps EXCEPT ![fn] = @ + 1]
    BY <1>1, <1>2, StepIsNat
  <2>2. /\ temps \in [Functions -> Nat] /\ \A f \in Functions : temps[f] <= tokens * Step
        /\ tokens \in 0..MaxTokens
    BY DEF TypeInv
  <2> QED
    BY <1>1, <1>5, <2>1, <2>2, TempsGrow
<1>9. PICK c, d : c = code[fn] /\ d = c \o s
  OBVIOUS
<1>10. c \in Seq(Instructions) /\ Body(c) /\ Pending(c, pushed, PendingArgs)
  BY <1>1, <1>2, <1>3, <1>7, <1>9, EmitKeeps
<1>11. PendingArgs = <<>> /\ pushed = 0
  BY <1>1 DEF PendingArgs, TranslationInv
<1>12. Longer(c, d, x)
  BY <1>7, <1>9, <1>10, LongerByOne
<1>13. Body(d) /\ Pending(d, 0, <<>>)
  BY <1>6, <1>10, <1>11, <1>12, StatementBody
<1>14. PICK o, none : o = open' /\ none = <<>>
  OBVIOUS
<1>15. /\ Bounded(o, MaxArgs) /\ Bounded(o, temps'[fn]) /\ Enclosed(o, Len(o))
       /\ none = IF o = <<>> THEN <<>> ELSE o[Len(o)].args
  BY <1>1, <1>14 DEF Bounded, Enclosed
<1>16. pushed' = 0 /\ 0 \in 0..tokens'
  BY <1>1, <1>8, <1>11
<1>17. Small(s, temps'[fn])
  BY <1>6, <1>7 DEF Small
<1> QED
  BY <1>1, <1>2, <1>3, <1>4, <1>7, <1>8, <1>9, <1>13, <1>14, <1>15, <1>16, <1>17,
     EmitDone

\* An argument is one more push for the innermost call.
LEMMA KeepsArgument ==
  ASSUME TypeInv, TranslationInv, NEW x \in Operands, Argument(x)
  PROVE  TypeInv' /\ TranslationInv'
<1>1. /\ current <= Len(Order) /\ open # <<>> /\ Innermost.left > 0
      /\ ReadToken /\ temps' = temps
      /\ open' = Append(Enclosing, ArgumentAdded(Innermost, x))
      /\ pushed' = pushed + 1 /\ phase' = phase /\ current' = current /\ program' = program
  BY DEF Argument, AtArgument, Translating
<1>2. PICK fn, p, s : fn = Fn /\ p = Push(x) /\ s = <<p>>
  OBVIOUS
<1>3. code' = [code EXCEPT ![fn] = @ \o s]
  BY <1>2 DEF Argument, Emit
<1>4. DOMAIN program' = Functions
  BY <1>1 DEF TypeInv
<1>5. p \in Instructions
  BY <1>2 DEF Push, Instructions
<1>6. s \in Seq(Instructions) /\ Len(s) = 1 /\ s[1] = p
  BY <1>2, <1>5
<1>7. /\ temps' \in [Functions -> Nat]
      /\ \A f \in Functions : temps'[f] <= tokens' * Step
      /\ \A f \in Functions : temps[f] <= temps'[f]
      /\ tokens' \in 0..MaxTokens /\ tokens' > 0
  BY <1>1, TokensGrow
<1>8. PICK m, o, q, args, more :
        /\ m = Len(open) /\ o = open /\ q = open' /\ args = open[Len(open)].args
        /\ more = <<x>> \o args
  OBVIOUS
<1>9. /\ Bounded(o, MaxArgs) /\ Bounded(o, temps'[fn]) /\ Enclosed(o, m)
      /\ m \in 1..Len(o) /\ m = Len(o) /\ o[m].left > 0 /\ o[m].args = args
      /\ temps'[fn] \in Nat /\ MaxArgs \in Nat
  <2>1. Bounded(o, MaxArgs) /\ Bounded(o, temps[fn]) /\ Enclosed(o, m) /\ o # <<>>
    BY <1>1, <1>2, <1>8 DEF TypeInv, TranslationInv
  <2>2. m \in 1..Len(o) /\ m = Len(o)
    BY <1>8, <2>1 DEF Bounded
  <2>3. fn \in Functions
    BY <1>1, <1>2, OrderIsInjective DEF TypeInv, Fn
  <2> QED
    BY <1>1, <1>7, <1>8, <2>1, <2>2, <2>3, StepIsNat DEF Innermost
<1>10. q = Taken(o, m, x)
  BY <1>1, <1>8 DEF Enclosing, Innermost, Taken
<1>11. /\ Bounded(q, MaxArgs) /\ Bounded(q, temps'[fn])
       /\ Len(q) = m /\ Enclosed(q, m) /\ q[m].args = more
  <2>1. more = InFront(x, o[m].args)
    BY <1>8, <1>9, Zenon DEF InFront
  <2>2. ASSUME NEW max \in Nat, Bounded(o, max)
        PROVE  /\ Bounded(q, max) /\ Len(q) = m /\ Enclosed(q, m)
               /\ q[m].args = InFront(x, o[m].args)
    BY <1>9, <1>10, <2>2, ArgumentTaken
  <2> QED
    BY <1>9, <2>1, <2>2
<1>12. q # <<>>
  BY <1>9, <1>11 DEF Bounded
<1>13. PendingArgs = args /\ args \in Seq(Operands)
  <2>1. o[m] \in OpenCalls
    BY <1>9 DEF Bounded
  <2> QED
    BY <1>1, <1>8, <1>9, <2>1 DEF PendingArgs, Innermost, OpenCalls
<1>14. PICK c, d : c = code[fn] /\ d = c \o s
  OBVIOUS
<1>15. c \in Seq(Instructions) /\ Body(c) /\ Pending(c, pushed, args)
  BY <1>1, <1>2, <1>3, <1>6, <1>13, <1>14, EmitKeeps
<1>16. Longer(c, d, Push(x))
  BY <1>2, <1>5, <1>6, <1>14, <1>15, LongerByOne
<1>17. Body(d) /\ Pending(d, pushed + 1, more)
  BY <1>8, <1>13, <1>15, <1>16, PushBody
<1>18. pushed' = pushed + 1 /\ pushed + 1 \in 0..tokens'
  <2>1. tokens \in Nat /\ pushed \in 0..tokens /\ tokens' = tokens + 1
    BY <1>1, StepIsNat DEF TypeInv, ReadToken
  <2> QED
    BY <1>1, <2>1
<1>19. /\ Enclosed(q, Len(q)) /\ Small(s, temps'[fn])
       /\ more = IF q = <<>> THEN <<>> ELSE q[Len(q)].args
  <2>1. p.kind = "pushl"
    BY <1>2 DEF Push
  <2> QED
    BY <1>6, <1>11, <1>12, <2>1 DEF Small
<1> QED
  BY <1>1, <1>2, <1>3, <1>4, <1>6, <1>7, <1>8, <1>11, <1>12, <1>14, <1>17, <1>18, <1>19,
     EmitDone

\* A call opens with room for its arguments, whether it is itself one or not.
LEMMA KeepsBeginCall ==
  ASSUME TypeInv, TranslationInv, NEW f \in Callees, NEW n \in 0..MaxArgs, BeginCall(f, n)
  PROVE  TypeInv' /\ TranslationInv'
<1>1. /\ current <= Len(Order)
      /\ open = <<>> \/ (open # <<>> /\ Innermost.left > 0)
      /\ Plain => ~(pushed > 0)
      /\ ReadToken
      /\ phase' = phase /\ current' = current /\ pushed' = pushed
      /\ code' = code /\ program' = program
  BY DEF BeginCall, AtStatement, AtArgument, Translating, Plain
<1>2. PICK fn, k, r, o, q, y :
        /\ fn = Fn /\ k = 1 + Max0(n, 1) /\ r = temps[Fn] + 1 /\ o = open /\ q = open'
        /\ y = Call(f, n, <<>>, r)
  OBVIOUS
<1>3. fn \in Functions
  BY <1>1, <1>2, OrderIsInjective DEF TypeInv, Fn
<1>4. temps' = [temps EXCEPT ![fn] = @ + k]
  BY <1>2 DEF BeginCall, NewTemps
<1>5. q = Append(o, y)
  BY <1>2 DEF BeginCall
<1>6. k \in 0..Step
  BY <1>2, StepIsNat DEF Step, Max0
<1>7. /\ temps' \in [Functions -> Nat]
      /\ \A g \in Functions : temps'[g] <= tokens' * Step
      /\ \A g \in Functions : temps[g] <= temps'[g]
      /\ tokens' \in 0..MaxTokens /\ tokens' > 0
      /\ r \in TempNumbers
  <2>1. /\ temps \in [Functions -> Nat] /\ \A g \in Functions : temps[g] <= tokens * Step
        /\ tokens \in 0..MaxTokens
    BY DEF TypeInv
  <2> QED
    BY <1>1, <1>2, <1>3, <1>4, <1>6, <2>1, TempsGrow
<1>8. PICK none : none = <<>>
  OBVIOUS
<1>9. none \in Seq(Operands) /\ Len(none) = 0
  BY <1>8
<1>10. y \in OpenCalls /\ y.left = n /\ y.args = none
  <2>1. n \in Nat
    BY StepIsNat
  <2>2. y = [callee |-> f, left |-> n, args |-> none, result |-> r]
    BY <1>2, <1>8 DEF Call
  <2> QED
    BY <1>7, <1>9, <2>1, <2>2 DEF OpenCalls
<1>11. /\ o \in Seq(OpenCalls) /\ Bounded(o, MaxArgs) /\ Bounded(o, temps[fn])
       /\ \A i \in 1..Len(o) - 1 : (Plain => o[i].args = none) /\ o[i].left > 0
       /\ Pending(code[Fn], pushed, PendingArgs)
       /\ pushed \in Nat /\ tokens \in Nat /\ pushed \in 0..tokens
       /\ open = <<>> => pushed = 0
  BY <1>1, <1>2, <1>8, StepIsNat DEF TypeInv, TranslationInv, Bounded, Enclosed
<1>12. PICK m : m = Len(o)
  OBVIOUS
<1>13. /\ m \in Nat /\ q \in Seq(OpenCalls) /\ Len(q) = m + 1
       /\ \A i \in 1..m : q[i] = o[i]
       /\ q[m + 1] = y
  BY <1>5, <1>10, <1>11, <1>12, AppendProperties
<1>14. ASSUME NEW max \in Nat, Bounded(o, max), n <= max PROVE Bounded(q, max)
  <2>1. y.left + Len(y.args) <= max
    BY <1>9, <1>10, <1>14, StepIsNat
  <2>2. \A i \in 1..m : o[i].left + Len(o[i].args) <= max
    BY <1>12, <1>14 DEF Bounded
  <2>3. \A i \in 1..m + 1 : i \in 1..m \/ i = m + 1
    BY <1>13
  <2>4. \A i \in 1..m + 1 : q[i].left + Len(q[i].args) <= max
    BY <1>13, <2>1, <2>2, <2>3
  <2> QED
    BY <1>13, <2>4 DEF Bounded
<1>15. m > 0 => o[m].left > 0 /\ (Plain => o[m].args = none)
  <2>1. SUFFICES ASSUME m > 0 PROVE o[m].left > 0 /\ (Plain => o[m].args = none)
    OBVIOUS
  <2>2. open # <<>> /\ o[m] = Innermost /\ m \in 1..Len(o)
    BY <1>2, <1>11, <1>12, <1>13, <2>1 DEF Innermost
  <2>3. o[m] \in OpenCalls
    BY <1>11, <2>2
  <2>4. PICK a : a = o[m].args
    OBVIOUS
  <2>5. a \in Seq(Operands) /\ (Plain => pushed = Len(a))
    BY <1>11, <2>2, <2>3, <2>4 DEF OpenCalls, PendingArgs, Pending, Given
  <2>6. Plain => Len(a) = 0
    BY <1>1, <1>11, <2>5
  <2>7. Plain => a = <<>>
    BY <2>5, <2>6
  <2> QED
    BY <1>1, <1>8, <2>2, <2>4, <2>7
<1>16. \A i \in 1..m : (Plain => q[i].args = none) /\ q[i].left > 0
  <2>1. SUFFICES ASSUME NEW i \in 1..m PROVE (Plain => o[i].args = none) /\ o[i].left > 0
    BY <1>13
  <2>2. i = m \/ i \in 1..m - 1
    BY <1>13
  <2> QED
    BY <1>11, <1>12, <1>13, <1>15, <2>2
<1>17. (PendingArgs)' = none
  <2>1. q # <<>> /\ q[Len(q)].args = none
    BY <1>10, <1>13
  <2> QED
    BY <1>2, <2>1 DEF PendingArgs, Innermost
<1>18. Bounded(q, MaxArgs) /\ Bounded(q, temps'[fn])
  <2>1. /\ MaxArgs \in Nat /\ n <= MaxArgs /\ temps[fn] \in Nat /\ temps'[fn] \in Nat
        /\ temps[fn] <= temps'[fn]
    BY <1>3, <1>7, StepIsNat DEF TypeInv
  <2>2. n <= temps'[fn]
    <3>1. temps'[fn] = temps[fn] + k /\ n \in Nat
      BY <1>3, <1>4, StepIsNat DEF TypeInv
    <3>2. k \in Nat /\ n <= k
      BY <1>2, <3>1 DEF Max0
    <3> QED
      BY <2>1, <3>1, <3>2
  <2>3. Bounded(o, temps'[fn])
    BY <1>11, <2>1, BoundedMore
  <2> QED
    BY <1>11, <1>14, <2>1, <2>2, <2>3
<1>19. TypeInv'
  <2>1. Bounded(open, MaxArgs)'
    BY <1>2, <1>18 DEF Bounded
  <2>2. pushed' \in 0..tokens'
    BY <1>1, <1>11 DEF ReadToken
  <2> QED
    BY <1>1, <1>7, <2>1, <2>2 DEF TypeInv
<1>20. Enclosed(open, Len(open))'
  <2>1. Len(q) - 1 = m
    BY <1>13
  <2> QED
    BY <1>2, <1>8, <1>16, <2>1 DEF Enclosed
<1>21. Fn' = Fn /\ open' # <<>>
  BY <1>1, <1>2, <1>13 DEF Fn
<1>22. Pending(code'[Fn'], pushed', (PendingArgs)')
  <2>1. Given(code[Fn], Len(code[Fn]) + 1, pushed, none)
    <3>1. Plain => pushed = Len(none)
      BY <1>1, <1>9, <1>11
    <3> QED
      BY <1>9, <3>1 DEF Given
  <2>2. Pending(code[Fn], pushed, none)
    BY <1>11, <2>1 DEF Pending
  <2> QED
    BY <1>1, <1>17, <1>21, <2>2
<1>23. Bounded(open, temps[Fn])'
  <2>1. temps'[Fn'] = temps'[fn]
    BY <1>2, <1>21
  <2> QED
    BY <1>2, <1>18, <2>1 DEF Bounded
<1>24. ASSUME NEW g \in Functions PROVE Body(code'[g]) /\ Small(code'[g], temps'[g])
  <2>1. /\ code[g] \in Seq(Instructions) /\ Body(code[g]) /\ Small(code[g], temps[g])
        /\ temps[g] \in Nat /\ temps'[g] \in Nat /\ temps[g] <= temps'[g]
    BY <1>7 DEF TypeInv, TranslationInv
  <2>2. Small(code[g], temps'[g])
    BY <2>1, SmallKept
  <2> QED
    BY <1>1, <2>1, <2>2
<1> QED
  BY <1>1, <1>19, <1>20, <1>21, <1>22, <1>23, <1>24 DEF TranslationInv

\* The call and the pop of its arguments are printed behind the arguments.
LEMMA CallPrinted ==
  ASSUME NEW c \in Seq(Instructions), Body(c), NEW args \in Seq(Operands), NEW h \in Nat,
         Pending(c, h, args), NEW f \in Callees, NEW s,
         s = <<[kind |-> "call", callee |-> f, args |-> args],
               [kind |-> "addl", words |-> h]>>,
         NEW d, d = c \o s, NEW rest, Plain => Len(rest) = 0, NEW max, Len(args) <= max
  PROVE  /\ s \in Seq(Instructions) /\ d \in Seq(Instructions)
         /\ Body(d) /\ Pending(d, 0, rest) /\ Small(s, max)
<1>1. PICK x, y : /\ x = [kind |-> "call", callee |-> f, args |-> args]
                  /\ y = [kind |-> "addl", words |-> h]
  OBVIOUS
<1>2. x \in Instructions /\ y \in Instructions
  BY <1>1 DEF Instructions
<1>3. s \in Seq(Instructions) /\ Len(s) = 2 /\ s[1] = x /\ s[2] = y
  <2>1. s = <<x, y>>
    BY <1>1
  <2> QED
    BY <1>2, <2>1
<1>4. PICK n : n = Len(c)
  OBVIOUS
<1>5. /\ n \in Nat /\ d \in Seq(Instructions) /\ Len(d) = n + 2
      /\ \A i \in 1..n + 2 : d[i] = IF i <= n THEN c[i] ELSE s[i - n]
  BY <1>3, <1>4, ConcatProperties
<1>6. \A i \in 1..n : d[i] = c[i]
  BY <1>5
<1>7. d[n + 1] = x
  <2>1. n + 1 \in 1..n + 2 /\ ~(n + 1 <= n) /\ (n + 1) - n = 1
    BY <1>5
  <2> QED
    BY <1>3, <1>5, <2>1
<1>8. d[n + 2] = y
  <2>1. n + 2 \in 1..n + 2 /\ ~(n + 2 <= n) /\ (n + 2) - n = 2
    BY <1>5
  <2> QED
    BY <1>3, <1>5, <2>1
<1>9. x.kind = "call" /\ x.args = args /\ y.kind = "addl" /\ y.words = h
  BY <1>1
<1>10. /\ Len(d) = Len(c) + 2
       /\ \A i \in 1..Len(c) : d[i] = c[i]
       /\ d[Len(c) + 1] = x /\ d[Len(c) + 2] = y
  BY <1>4, <1>5, <1>6, <1>7, <1>8
<1>11. Body(d) /\ Pending(d, 0, rest)
  <2>1. /\ c \in Seq(Instructions) /\ args \in Seq(Operands) /\ Body(c) /\ Pending(c, h, args)
        /\ d \in Seq(Instructions)
        /\ Plain => Len(rest) = 0
    BY <1>5
  <2> QED
    BY ONLY <1>9, <1>10, <2>1, CallBody
<1>12. Small(s, max)
  <2>1. \A i \in 1..2 : i = 1 \/ i = 2
    OBVIOUS
  <2> QED
    BY <1>3, <1>9, <2>1 DEF Small
<1> QED
  BY <1>3, <1>5, <1>11, <1>12

\* A call takes what was pushed for it and may itself be pushed.
LEMMA KeepsEndCall ==
  ASSUME TypeInv, TranslationInv, EndCall
  PROVE  TypeInv' /\ TranslationInv'
<1>1. /\ current <= Len(Order) /\ open # <<>> /\ Innermost.left = 0
      /\ phase' = phase /\ current' = current /\ temps' = temps /\ tokens' = tokens
  BY DEF EndCall, Translating
<1>2. PICK fn, n, o, q, r, args, callee, h :
        /\ fn = Fn /\ n = Len(open) /\ o = open /\ q = open'
        /\ r = TempOperand(Innermost.result) /\ args = Innermost.args
        /\ callee = Innermost.callee /\ h = pushed
  OBVIOUS
<1>3. DOMAIN program' = Functions
  BY DEF EndCall, Evaluate, TypeInv
<1>4. /\ temps' \in [Functions -> Nat]
      /\ \A f \in Functions : temps'[f] <= tokens' * Step
      /\ \A f \in Functions : temps[f] <= temps'[f]
      /\ tokens' \in 0..MaxTokens /\ tokens' > 0
  BY <1>1 DEF TypeInv
<1>5. /\ o \in Seq(OpenCalls) /\ n \in Nat \ {0} /\ n = Len(o) /\ o[n] = Innermost
      /\ Bounded(o, MaxArgs) /\ Bounded(o, temps[fn])
      /\ \A i \in 1..n - 1 : (Plain => o[i].args = <<>>) /\ o[i].left > 0
      /\ h \in Nat /\ PendingArgs = args
  <2>1. /\ o \in Seq(OpenCalls) /\ o # <<>> /\ Bounded(o, MaxArgs) /\ Bounded(o, temps[fn])
        /\ \A i \in 1..Len(o) - 1 : (Plain => o[i].args = <<>>) /\ o[i].left > 0
        /\ h \in Nat
    BY <1>1, <1>2, StepIsNat DEF TypeInv, TranslationInv, Bounded, Enclosed
  <2>2. PendingArgs = args /\ o[n] = Innermost
    BY <1>1, <1>2 DEF PendingArgs, Innermost
  <2> QED
    BY <1>2, <2>1, <2>2
<1>6. /\ args \in Seq(Operands) /\ callee \in Callees /\ r \in Operands
      /\ Len(args) <= temps[fn]
  <2>1. o[n] \in OpenCalls /\ n \in 1..Len(o)
    BY <1>5
  <2>2. Innermost.result \in Nat
    BY <1>5, <2>1, StepIsNat DEF OpenCalls, TempNumbers
  <2>3. o[n].left + Len(o[n].args) <= temps[fn]
    BY <1>5, <2>1 DEF Bounded
  <2>4. args \in Seq(Operands)
    BY <1>2, <1>5, <2>1 DEF OpenCalls
  <2>5. 0 + Len(args) <= temps[fn] /\ Len(args) \in Nat
    BY <1>1, <1>2, <1>5, <2>3, <2>4
  <2> QED
    BY <1>2, <1>5, <2>1, <2>2, <2>4, <2>5 DEF OpenCalls, Operands, TempOperand, Operand
<1>7. PICK c : c = code[fn]
  OBVIOUS
<1>8. fn \in Functions /\ c \in Seq(Instructions) /\ Body(c) /\ Pending(c, h, args)
  BY <1>1, <1>2, <1>5, <1>7, OrderIsInjective DEF TypeInv, TranslationInv, Fn
<1>9. PICK s, d : /\ s = <<[kind |-> "call", callee |-> callee, args |-> args],
                           [kind |-> "addl", words |-> h]>>
                  /\ d = c \o s
  OBVIOUS
<1>10. ASSUME NEW rest, Plain => Len(rest) = 0
       PROVE  /\ s \in Seq(Instructions) /\ d \in Seq(Instructions)
              /\ Body(d) /\ Pending(d, 0, rest) /\ Small(s, temps[fn])
  BY <1>5, <1>6, <1>8, <1>9, <1>10, CallPrinted
<1>11. CallCode(Innermost).instructions = s /\ CallCode(Innermost).pushed = 0
  BY <1>2, <1>9 DEF CallCode
<1>12. CASE n = 1
  <2>1. /\ code' = [code EXCEPT ![fn] = @ \o s]
        /\ open' = <<>> /\ pushed' = 0
    BY <1>2, <1>11, <1>12 DEF EndCall, Emit
  <2>2. PICK none : none = <<>>
    OBVIOUS
  <2>3. /\ Bounded(q, MaxArgs) /\ Bounded(q, temps'[fn]) /\ Enclosed(q, Len(q))
        /\ none = IF q = <<>> THEN <<>> ELSE q[Len(q)].args
    BY <1>2, <2>1, <2>2 DEF Bounded, Enclosed
  <2>4. /\ s \in Seq(Instructions) /\ Body(code[fn] \o s) /\ Small(s, temps'[fn])
        /\ Pending(code[fn] \o s, 0, none)
    <3>1. Len(none) = 0
      BY <2>2
    <3> QED
      BY <1>1, <1>7, <1>9, <1>10, <3>1
  <2>5. pushed' = 0 /\ 0 \in 0..tokens' /\ q = open' /\ q = <<>>
    BY <1>2, <1>4, <2>1
  <2> QED
    BY <1>1, <1>2, <1>3, <1>4, <2>1, <2>3, <2>4, <2>5, EmitDone
<1>13. CASE n > 1
  <2>1. PICK p, t, m : p = Push(r) /\ t = Append(s, p) /\ m = n - 1
    OBVIOUS
  <2>2. /\ code' = [code EXCEPT ![fn] = @ \o t]
        /\ open' = Append(SubSeq(open, 1, n - 2), ArgumentAdded(open[n - 1], r))
        /\ pushed' = 1
    <3>1. /\ Emit(Append(CallCode(Innermost).instructions, Push(r)))
          /\ open' = Append(SubSeq(open, 1, n - 2), ArgumentAdded(open[n - 1], r))
          /\ pushed' = CallCode(Innermost).pushed + 1
      BY <1>2, <1>13 DEF EndCall
    <3> QED
      BY <1>2, <1>11, <2>1, <3>1 DEF Emit
  <2>3. p \in Instructions /\ p.kind = "pushl"
    BY <1>6, <2>1 DEF Push, Instructions
  <2>4. m \in 1..Len(o) /\ m - 1 = n - 2 /\ m \in 1..n - 1 /\ Enclosed(o, m)
    BY <1>5, <1>13, <2>1 DEF Enclosed
  <2>5. PICK rest, more : rest = o[m].args /\ more = InFront(r, rest)
    OBVIOUS
  <2>6. o[m].left > 0 /\ (Plain => Len(rest) = 0) /\ rest \in Seq(Operands)
    <3>1. o[m] \in OpenCalls /\ o[m].left > 0 /\ (Plain => o[m].args = <<>>)
      BY <1>5, <2>4
    <3> QED
      BY <2>5, <3>1 DEF OpenCalls
  <2>7. q = Taken(o, m, r)
    BY <1>2, <2>1, <2>2, <2>4 DEF Taken
  <2>8. /\ Bounded(q, MaxArgs) /\ Bounded(q, temps'[fn])
        /\ Len(q) = m /\ Enclosed(q, m) /\ q[m].args = more
    <3>1. ASSUME NEW max \in Nat, Bounded(o, max)
          PROVE  /\ Bounded(q, max) /\ Len(q) = m /\ Enclosed(q, m)
                 /\ q[m].args = InFront(r, o[m].args)
      BY <1>6, <2>4, <2>6, <2>7, <3>1, ArgumentTaken
    <3>2. MaxArgs \in Nat /\ temps'[fn] \in Nat /\ temps'[fn] = temps[fn]
      BY <1>1, <1>4, <1>8, StepIsNat
    <3> QED
      BY <1>5, <2>5, <3>1, <3>2
  <2>9. s \in Seq(Instructions) /\ d \in Seq(Instructions) /\ Body(d) /\ Pending(d, 0, rest)
        /\ Small(s, temps[fn])
    BY <1>10, <2>6
  <2>10. PICK e : e = c \o t
    OBVIOUS
  <2>11. t \in Seq(Instructions) /\ Longer(d, e, p)
    BY <1>8, <1>9, <2>1, <2>3, <2>9, <2>10, LongerAtEnd
  <2>12. Body(e) /\ Pending(e, 0 + 1, more)
    <3>1. more = <<r>> \o rest
      BY <2>5, Zenon DEF InFront
    <3> QED
      BY <1>6, <2>1, <2>6, <2>9, <2>11, <3>1, PushBody
  <2>13. Small(t, temps'[fn])
    <3>1. PICK l : l = Len(s)
      OBVIOUS
    <3>2. l \in Nat /\ Len(t) = l + 1 /\ t[l + 1] = p /\ \A i \in 1..l : t[i] = s[i]
      BY <2>1, <2>3, <2>9, <3>1, AppendProperties
    <3>3. \A i \in 1..l + 1 : i \in 1..l \/ i = l + 1
      BY <3>2
    <3> QED
      BY <1>1, <2>3, <2>9, <3>1, <3>2, <3>3 DEF Small
  <2>14. Enclosed(q, Len(q)) /\ q = open' /\ more = IF q = <<>> THEN <<>> ELSE q[Len(q)].args
    <3>1. q # <<>>
      BY <2>4, <2>8
    <3> QED
      BY <1>2, <2>8, <3>1
  <2>15. Body(code[fn] \o t) /\ Pending(code[fn] \o t, 1, more)
    BY <1>7, <2>10, <2>12
  <2>16. pushed' = 1 /\ 1 \in 0..tokens' /\ q # <<>>
    BY <1>4, <2>2, <2>4, <2>8, StepIsNat
  <2> QED
    BY <1>1, <1>2, <1>3, <1>4, <2>2, <2>8, <2>11, <2>13, <2>14, <2>15, <2>16, EmitDone
<1> QED
  BY <1>5, <1>12, <1>13

\* A function ends with nothing pushed and the next one begins with nothing printed.
LEMMA KeepsEndFunction ==
  ASSUME TypeInv, TranslationInv, EndFunction
  PROVE  TypeInv' /\ TranslationInv'
<1>1. /\ current <= Len(Order) /\ open = <<>> /\ open' = <<>> /\ current' = current + 1
      /\ phase' = phase /\ temps' = temps /\ tokens' = tokens /\ pushed' = pushed
      /\ program' = program
  BY DEF EndFunction, AtStatement, Translating
<1>2. PICK fn, x, s, c, d, none : /\ fn = Fn /\ x = [kind |-> "return"] /\ s = <<x>>
                                  /\ c = code[fn] /\ d = c \o s /\ none = <<>>
  OBVIOUS
<1>3. code' = [code EXCEPT ![fn] = @ \o s]
  BY <1>2 DEF EndFunction, Emit
<1>4. x \in Instructions /\ x.kind = "return"
  BY <1>2 DEF Instructions
<1>5. s \in Seq(Instructions) /\ Len(s) = 1 /\ s[1] = x
  BY <1>2, <1>4
<1>6. PendingArgs = none /\ (PendingArgs)' = none /\ Len(none) = 0
  BY <1>1, <1>2 DEF PendingArgs
<1>7. /\ fn \in Functions /\ c \in Seq(Instructions) /\ Body(c) /\ Small(c, temps[fn])
      /\ pushed = 0 /\ Pending(c, 0, none)
      /\ code' \in [Functions -> Seq(Instructions)]
      /\ code'[fn] = d
      /\ \A f \in Functions : f # fn =>
           code'[f] = code[f] /\ Body(code[f]) /\ Small(code[f], temps[f])
      /\ \A j \in 1..Len(Order) :
           /\ j < current => Order[j] # fn /\ Ended(code'[Order[j]])
           /\ j > current => Order[j] # fn /\ code'[Order[j]] = <<>>
  <2>1. pushed = 0
    BY <1>1 DEF TranslationInv
  <2>2. Body(c) /\ Small(c, temps[fn]) /\ Pending(c, pushed, PendingArgs)
    BY <1>1, <1>2, <1>3, <1>5, EmitKeeps
  <2>3. Pending(c, 0, none)
    BY <1>6, <2>1, <2>2
  <2> QED
    BY <1>1, <1>2, <1>3, <1>5, <2>1, <2>2, <2>3, EmitKeeps
<1>8. Longer(c, d, x)
  BY <1>2, <1>5, <1>7, LongerByOne
<1>9. Body(d)
  BY <1>2, <1>4, <1>7, <1>8, StatementBody
<1>10. Ended(d)
  <2>1. PICK n : n = Len(c)
    OBVIOUS
  <2>2. n \in Nat /\ d \in Seq(Instructions) /\ Len(d) = n + 1 /\ d[n + 1] = x
    BY <1>7, <1>8, <2>1 DEF Longer
  <2> QED
    BY <1>4, <2>2 DEF Ended
<1>11. \A f \in Functions : Body(code'[f]) /\ Small(code'[f], temps'[f])
  <2>1. Small(d, temps[fn])
    <3>1. PICK n : n = temps[fn]
      OBVIOUS
    <3>2. n \in Nat /\ n <= n /\ Small(c, n)
      BY <1>7, <3>1 DEF TypeInv
    <3>3. Small(s, n)
      BY <1>4, <1>5 DEF Small
    <3>4. Small(d, n)
      BY <1>2, <1>5, <1>7, <3>2, <3>3, SmallMore
    <3> QED
      BY <3>1, <3>4
  <2> QED
    BY <1>1, <1>7, <1>9, <2>1
<1>12. PICK m : m = Len(Order)
  OBVIOUS
<1>13. /\ m \in Nat /\ current \in 1..m /\ fn = Order[current]
       /\ \A j \in 1..m : Order[j] \in Functions
  BY <1>1, <1>2, <1>12, OrderIsInjective DEF TypeInv, Fn
<1>14. \A j \in 1..m : /\ j < current + 1 => Ended(code'[Order[j]])
                       /\ j > current + 1 => code'[Order[j]] = none
  <2>1. SUFFICES ASSUME NEW j \in 1..m
                 PROVE  /\ j < current + 1 => Ended(code'[Order[j]])
                        /\ j > current + 1 => code'[Order[j]] = none
    OBVIOUS
  <2>2. j < current + 1 => j < current \/ j = current
    BY <1>13
  <2>3. j > current + 1 => j > current
    BY <1>13
  <2> QED
    BY <1>2, <1>7, <1>10, <1>12, <1>13, <2>2, <2>3
<1>15. current + 1 <= m => code'[Order[current + 1]] = none
  <2>1. current + 1 <= m => current + 1 \in 1..m /\ current + 1 > current
    BY <1>13
  <2> QED
    BY <1>2, <1>7, <1>12, <2>1
<1>16. Pending(none, 0, none)
  <2>1. Len(none) + 1 = 1
    BY <1>6
  <2>2. Pushes(none, 1, 0)
    BY DEF Pushes
  <2> QED
    BY <1>6, <2>1, <2>2 DEF Pending, Given
<1>17. TypeInv'
  <2>1. Bounded(open, MaxArgs)'
    BY <1>1 DEF TypeInv, Bounded
  <2> QED
    BY <1>1, <1>7, <1>12, <1>13, <2>1 DEF TypeInv
<1>18. current' <= Len(Order) => Pending(code'[Fn'], 0, none)
  BY <1>1, <1>12, <1>15, <1>16 DEF Fn
<1>19. pushed' = 0 /\ Bounded(open, temps[Fn])'
  BY <1>1, <1>2, <1>6, <1>7 DEF Bounded
<1>20. Enclosed(open, Len(open))'
  BY <1>1, <1>2, <1>6 DEF Enclosed
<1> QED
  BY <1>1, <1>2, <1>6, <1>11, <1>12, <1>14, <1>17, <1>18, <1>19, <1>20 DEF TranslationInv

-----------------------------------------------------------------------------
(* The inductive invariant of the execution.                                *)
AfterCall(c, i) == i > 1 /\ c[i - 1].kind = "call"

\* How many words instruction i finds pushed.
Height(c, i, h) == IF AfterCall(c, i) THEN h = c[i].words ELSE Pushes(c, i, h)

\* What the source of a push denotes, pseudoregisters aside.
Denoted(words, base, source) ==
  IF source.kind = "constant" THEN source.of ELSE words[base - source.of]

\* They are what was pushed.
Held(words, base, top, c, i, h) ==
  AfterCall(c, i) \/ \A k \in 1..h :
    c[i - k].source.kind # "temp" => words[top + k - 1] = Denoted(words, base, c[i - k].source)

RunInv ==
  phase = "run" =>
    /\ current > Len(Order)
    /\ pc[1] \in Functions /\ pc[2] \in 1..Len(code[pc[1]])
    /\ ebp \in Int /\ esp \in Int /\ esp >= 1
    /\ \E h \in Nat : /\ Height(code[pc[1]], pc[2], h)
                      /\ esp = ebp - Reserved(pc[1]) - h
                      /\ Held(memory, ebp, esp, code[pc[1]], pc[2], h)

\* A function is resumed by popping the arguments of its call, gap words below
\* its %ebp without the two that call and preamble left.
Resumes(f, j, gap) ==
  /\ j \in 2..Len(code[f]) /\ code[f][j].kind = "addl"
  /\ gap = Reserved(f) + code[f][j].words

\* The m frames below main's caller, b their addresses and g their functions.
Chain(words, m, b, g) ==
  /\ b[1] = Depth - 1
  /\ words[Depth] = Startup /\ words[Depth - 1] = Pointer(Outside)
  /\ \A j, k \in 1..m : j < k => b[k] < b[j]
  /\ \A k \in 2..m :
       /\ words[b[k]] = Pointer(b[k - 1])
       /\ \E j \in Nat : /\ words[b[k] + 1] = CodeAddress(g[k - 1], j)
                         /\ Resumes(g[k - 1], j, b[k - 1] - b[k] - 2)

\* The innermost frame is at address e and belongs to f.
ChainTo(words, e, f) ==
  \E m \in Nat \ {0}, b \in [Nat -> Int], g \in [Nat -> Functions] :
    b[m] = e /\ g[m] = f /\ Chain(words, m, b, g)

StackInv == phase = "run" => ChainTo(memory, ebp, pc[1])

Registers ==
  /\ pc[1] \in Functions \cup {"startup"}
  /\ esp \in Addresses \cup {Outside} /\ ebp \in Addresses \cup {Outside}
  /\ phase = "translate" => ebp = Outside
  /\ DOMAIN memory = Addresses
  /\ \E S : received \in Seq(S) /\ \A x \in S : x.fn \in Externals

IInv == TypeInv /\ TranslationInv /\ RunInv /\ StackInv /\ Registers

-----------------------------------------------------------------------------
(* Instructions in their places.                                            *)
LEMMA PushesUnique ==
  ASSUME NEW c, NEW i \in Nat, NEW g, NEW h, Pushes(c, i, g), Pushes(c, i, h)
  PROVE  g = h
<1>1. ASSUME NEW x \in Nat, NEW y \in Nat, Pushes(c, i, x), Pushes(c, i, y), x < y
      PROVE  FALSE
  <2>1. x < i - 1 /\ x + 1 \in 1..y /\ i - (x + 1) = i - x - 1
    BY <1>1 DEF Pushes
  <2>2. c[i - (x + 1)].kind = "pushl"
    BY <1>1, <2>1 DEF Pushes
  <2>3. c[i - x - 1].kind # "pushl"
    BY <1>1, <2>1 DEF Pushes
  <2> QED
    BY <2>1, <2>2, <2>3
<1>2. g \in Nat /\ h \in Nat
  BY DEF Pushes
<1>3. ~(g < h) /\ ~(h < g)
  BY <1>1, <1>2
<1> QED
  BY <1>2, <1>3

\* Behind what neither pushes nor calls nothing is pushed ...
LEMMA NextHeight ==
  ASSUME NEW c, NEW i \in Nat \ {0}, c[i].kind \notin {"pushl", "call"}
  PROVE  Height(c, i + 1, 0) /\ ~AfterCall(c, i + 1)
<1>1. PICK n : n = i + 1
  OBVIOUS
<1>2. n - 1 = i /\ n - 0 - 1 = i /\ 0 \in 0..n - 1
  BY <1>1
<1>3. ~AfterCall(c, n)
  BY <1>2 DEF AfterCall
<1>4. Pushes(c, n, 0)
  BY <1>2 DEF Pushes
<1> QED
  BY <1>1, <1>3, <1>4 DEF Height

\* ... and behind a push one word more than in front of it.
LEMMA PushHeight ==
  ASSUME NEW c, NEW i \in Nat \ {0}, c[i].kind = "pushl", NEW h, Pushes(c, i, h)
  PROVE  Height(c, i + 1, h + 1) /\ ~AfterCall(c, i + 1)
<1>1. PICK n, g : n = i + 1 /\ g = h + 1
  OBVIOUS
<1>2. h \in Nat /\ h <= i - 1
  BY DEF Pushes
<1>3. n - 1 = i /\ g \in 0..n - 1 /\ n - g - 1 = i - h - 1 /\ (g < n - 1 => h < i - 1)
  BY <1>1, <1>2
<1>4. ~AfterCall(c, n)
  BY <1>3 DEF AfterCall
<1>5. ASSUME NEW k \in 1..g PROVE c[n - k].kind = "pushl"
  <2>1. CASE k = 1
    BY <1>3, <2>1
  <2>2. CASE k # 1
    <3>1. PICK j : j = k - 1
      OBVIOUS
    <3>2. j \in 1..h /\ n - k = i - j
      BY <1>1, <1>2, <2>2, <3>1
    <3> QED
      BY <3>2 DEF Pushes
  <2> QED
    BY <2>1, <2>2
<1>6. Pushes(c, n, g)
  BY <1>3, <1>5 DEF Pushes
<1> QED
  BY <1>1, <1>4, <1>6 DEF Height

\* What stands before an instruction.
LEMMA Heights ==
  ASSUME NEW c \in Seq(Instructions), Body(c), NEW i \in 1..Len(c), NEW h, Height(c, i, h)
  PROVE  /\ c[i].kind = "call" =>
              /\ ~AfterCall(c, i) /\ Given(c, i, h, c[i].args)
              /\ i < Len(c) /\ c[i + 1].kind = "addl" /\ c[i + 1].words = h
         /\ c[i].kind = "pushl" => ~AfterCall(c, i) /\ Pushes(c, i, h)
         /\ c[i].kind = "addl" => AfterCall(c, i) /\ h = c[i].words
         /\ c[i].kind \in {"assign", "return"} => ~AfterCall(c, i) /\ h = 0
<1>1. i \in Nat /\ CallOK(c, i) /\ PlaceOK(c, i)
  BY DEF Body
<1>2. ASSUME AfterCall(c, i) PROVE c[i].kind = "addl" /\ h = c[i].words
  <2>1. PICK j : j = i - 1
    OBVIOUS
  <2>2. j \in 1..Len(c) /\ j + 1 = i /\ c[j].kind = "call"
    BY <1>2, <2>1 DEF AfterCall
  <2>3. CallOK(c, j)
    BY <2>2 DEF Body
  <2>4. h = c[i].words
    BY <1>2 DEF Height
  <2> QED
    BY <2>2, <2>3, <2>4 DEF CallOK
<1>3. c[i].kind = "call" =>
        /\ Given(c, i, h, c[i].args)
        /\ i < Len(c) /\ c[i + 1].kind = "addl" /\ c[i + 1].words = h
  <2>1. SUFFICES ASSUME c[i].kind = "call"
                 PROVE  /\ Given(c, i, h, c[i].args)
                        /\ i < Len(c) /\ c[i + 1].kind = "addl" /\ c[i + 1].words = h
    OBVIOUS
  <2>2. Pushes(c, i, h)
    BY <1>2, <2>1 DEF Height
  <2>3. PICK g : g = c[i + 1].words
    OBVIOUS
  <2>4. /\ Pushes(c, i, g) /\ Given(c, i, g, c[i].args)
        /\ i < Len(c) /\ c[i + 1].kind = "addl"
    BY <1>1, <2>1, <2>3 DEF CallOK
  <2>5. g = h
    BY <1>1, <2>2, <2>4, PushesUnique
  <2> QED
    BY <2>3, <2>4, <2>5
<1>4. c[i].kind = "addl" => AfterCall(c, i)
  BY <1>1 DEF PlaceOK, AfterCall
<1>5. c[i].kind \in {"assign", "return"} => h = 0
  <2>1. SUFFICES ASSUME c[i].kind \in {"assign", "return"} PROVE h = 0
    OBVIOUS
  <2>2. Pushes(c, i, h)
    BY <1>2, <2>1 DEF Height
  <2>3. h \in Nat /\ h <= i - 1
    BY <2>2 DEF Pushes
  <2>4. h >= 1 => c[i - 1].kind = "pushl" /\ i > 1
    BY <1>1, <2>2, <2>3 DEF Pushes
  <2> QED
    BY <1>1, <2>1, <2>3, <2>4 DEF PlaceOK
<1> QED
  BY <1>2, <1>3, <1>4, <1>5 DEF Height

\* A frame has room for the locals and the pseudoregisters of its function.
LEMMA ReservedIsEnough ==
  ASSUME TypeInv, NEW f \in Functions
  PROVE  /\ Reserved(f) \in Nat /\ LocalCount \in Nat /\ temps[f] \in Nat
         /\ Reserved(f) >= LocalCount + 2 /\ Reserved(f) >= temps[f]
         /\ Reserved(f) >= LocalCount + temps[f] + 1
<1>1. PICK n, r : n = Space(f) /\ r = Reserved(f)
  OBVIOUS
<1>2. temps[f] \in Nat /\ LocalCount \in Nat
  BY BoundsAssumption DEF TypeInv
<1>3. n \in Nat /\ n = LocalCount + temps[f] + 1
  BY <1>1, <1>2 DEF Space
<1>4. n % 4 \in 0..3
  BY <1>3
<1>5. PICK k \in 0..3 : k = n % 4
  BY <1>4
<1>6. r = n + 4 - k
  BY <1>1, <1>5 DEF Reserved
<1>7. r \in Nat /\ r >= n + 1
  BY <1>3, <1>6
<1>8. r >= LocalCount + 2 /\ r >= temps[f] /\ r >= LocalCount + temps[f] + 1
  BY <1>2, <1>3, <1>7
<1> QED
  BY <1>1, <1>2, <1>7, <1>8

\* When all functions are translated each one ends in a return.
LEMMA FunctionsEnded ==
  ASSUME TypeInv, TranslationInv, current > Len(Order), NEW f \in Functions
  PROVE  code[f] \in Seq(Instructions) /\ Ended(code[f])
<1>1. PICK j \in 1..Len(Order) : f = Order[j]
  BY OrderAssumption DEF Functions, ToSet
<1>2. j < current
  BY <1>1, OrderIsInjective DEF TypeInv
<1> QED
  BY <1>1, <1>2 DEF TypeInv, TranslationInv

\* Where the program is.
LEMMA Place ==
  ASSUME TypeInv, TranslationInv, RunInv, phase = "run",
         NEW f, f = pc[1], NEW i, i = pc[2], NEW c, c = code[f]
  PROVE  /\ f \in Functions /\ c \in Seq(Instructions) /\ Body(c)
         /\ i \in 1..Len(c) /\ i \in Nat \ {0} /\ c[i] \in Instructions
         /\ c[i].kind # "return" => i + 1 \in 1..Len(c)
<1>1. f \in Functions /\ i \in 1..Len(c) /\ current > Len(Order)
  BY DEF RunInv
<1>2. c \in Seq(Instructions) /\ Body(c)
  BY <1>1 DEF TypeInv, TranslationInv
<1>3. Ended(c)
  BY <1>1, FunctionsEnded
<1>4. PICK n : n = Len(c)
  OBVIOUS
<1>5. n \in Nat /\ i \in 1..n /\ c[i] \in Instructions /\ c[n].kind = "return"
  BY <1>1, <1>2, <1>3, <1>4 DEF Ended
<1> QED
  BY <1>1, <1>2, <1>4, <1>5

-----------------------------------------------------------------------------
(* The frames.                                                              *)
LEMMA StoredWords ==
  ASSUME NEW words, NEW a, NEW word, NEW new, new = Stored(words, a, word)
  PROVE  /\ DOMAIN new = DOMAIN words
         /\ a \in DOMAIN words => new[a] = word
         /\ \A x \in DOMAIN words : x # a => new[x] = words[x]
BY DEF Stored

\* Frames stand above the innermost one and below main's caller.
LEMMA ChainBounds ==
  ASSUME NEW words, NEW m \in Nat \ {0}, NEW b \in [Nat -> Int], NEW g,
         Chain(words, m, b, g), NEW k \in 1..m
  PROVE  b[k] \in b[m]..Depth - 1 /\ b[k] + 1 \in b[m]..Depth /\ Depth \in Nat
<1>1. /\ Depth \in Nat /\ b[1] = Depth - 1 /\ b[1] \in Int /\ b[k] \in Int /\ b[m] \in Int
      /\ k \in Nat /\ 1 \in 1..m /\ m \in 1..m
  BY BoundsAssumption DEF Chain
<1>2. k = 1 \/ b[k] < b[1]
  BY <1>1 DEF Chain
<1>3. k = m \/ b[m] < b[k]
  BY <1>1 DEF Chain
<1> QED
  BY <1>1, <1>2, <1>3

\* What happens below the innermost frame leaves all of them alone.
LEMMA ChainKept ==
  ASSUME NEW words, NEW m \in Nat \ {0}, NEW b \in [Nat -> Int], NEW g,
         Chain(words, m, b, g), NEW new,
         \A a \in b[m]..Depth : new[a] = words[a]
  PROVE  Chain(new, m, b, g)
<1>1. Depth \in b[m]..Depth /\ Depth - 1 \in b[m]..Depth
  <2>1. 1 \in 1..m
    OBVIOUS
  <2>2. b[1] \in b[m]..Depth - 1 /\ b[1] = Depth - 1 /\ Depth \in Nat /\ b[m] \in Int
    BY <2>1, ChainBounds DEF Chain
  <2> QED
    BY <2>2
<1>2. ASSUME NEW k \in 2..m
      PROVE  /\ new[b[k]] = Pointer(b[k - 1])
             /\ \E j \in Nat : /\ new[b[k] + 1] = CodeAddress(g[k - 1], j)
                               /\ Resumes(g[k - 1], j, b[k - 1] - b[k] - 2)
  <2>1. k \in 1..m
    OBVIOUS
  <2>2. b[k] \in b[m]..Depth /\ b[k] + 1 \in b[m]..Depth
    BY <2>1, ChainBounds
  <2>3. new[b[k]] = words[b[k]] /\ new[b[k] + 1] = words[b[k] + 1]
    BY <2>2
  <2> QED
    BY <2>3 DEF Chain
<1> QED
  BY <1>1, <1>2 DEF Chain

\* The first m addresses are the same.
Over(m, b, c) == \A k \in 1..m : c[k] = b[k]

\* The words at e lead to the frame at a and to instruction i of its owner.
Linked(words, e, a, owner, i) ==
  /\ words[e] = Pointer(a) /\ words[e + 1] = CodeAddress(owner, i)
  /\ Resumes(owner, i, a - e - 2)

Extended(words, m, b, n, e, f) ==
  \E c \in [Nat -> Int], h \in [Nat -> Functions] :
    c[n] = e /\ h[n] = f /\ Over(m, b, c) /\ Chain(words, n, c, h)

\* The chain of the callee is the caller's and one frame more.
LEMMA ChainExtended ==
  ASSUME NEW words, NEW m \in Nat \ {0}, NEW b \in [Nat -> Int], NEW g \in [Nat -> Functions],
         Chain(words, m, b, g), NEW n, n = m + 1, NEW a \in Int, a = b[m], NEW owner, owner = g[m],
         NEW e \in Int, e < a, NEW i \in Nat, Linked(words, e, a, owner, i),
         NEW f \in Functions
  PROVE  Extended(words, m, b, n, e, f)
<1>1. PICK c, h : c = [b EXCEPT ![n] = e] /\ h = [g EXCEPT ![n] = f]
  OBVIOUS
<1>2. /\ n \in Nat \ {0} /\ c \in [Nat -> Int] /\ h \in [Nat -> Functions]
      /\ c[n] = e /\ h[n] = f
      /\ \A k \in 1..m : k # n /\ c[k] = b[k] /\ h[k] = g[k]
  BY <1>1
<1>3. 1 \in 1..m /\ m \in 1..m
  OBVIOUS
<1>4. c[1] = Depth - 1 /\ words[Depth] = Startup /\ words[Depth - 1] = Pointer(Outside)
  BY <1>2, <1>3 DEF Chain
<1>5. ASSUME NEW j \in 1..n, NEW k \in 1..n, j < k PROVE c[k] < c[j]
  <2>1. j \in 1..m
    BY <1>1, <1>5
  <2>2. CASE k = n
    <3>1. j = m \/ b[m] < b[j]
      BY <1>3, <2>1 DEF Chain
    <3>2. b[j] \in Int /\ b[m] \in Int
      BY <2>1
    <3> QED
      BY <1>2, <2>1, <2>2, <3>1, <3>2
  <2>3. CASE k # n
    <3>1. k \in 1..m
      BY <1>1, <2>3
    <3>2. b[k] < b[j]
      BY <1>5, <2>1, <3>1 DEF Chain
    <3> QED
      BY <1>2, <2>1, <3>1, <3>2
  <2> QED
    BY <2>2, <2>3
<1>6. ASSUME NEW k \in 2..n
      PROVE  /\ words[c[k]] = Pointer(c[k - 1])
             /\ \E j \in Nat : /\ words[c[k] + 1] = CodeAddress(h[k - 1], j)
                               /\ Resumes(h[k - 1], j, c[k - 1] - c[k] - 2)
  <2>1. CASE k = n
    <3>1. k - 1 = m /\ c[k - 1] = b[m] /\ h[k - 1] = g[m] /\ c[k] = e
      BY <1>1, <1>2, <1>3, <2>1
    <3> QED
      BY <3>1 DEF Linked
  <2>2. CASE k # n
    <3>1. k \in 2..m /\ k \in 1..m /\ k - 1 \in 1..m
      BY <1>1, <2>2
    <3>2. c[k] = b[k] /\ c[k - 1] = b[k - 1] /\ h[k - 1] = g[k - 1]
      BY <1>2, <3>1
    <3> QED
      BY <3>1, <3>2 DEF Chain
  <2> QED
    BY <2>1, <2>2
<1>7. Chain(words, n, c, h)
  BY <1>4, <1>5, <1>6 DEF Chain
<1>8. Over(m, b, c)
  BY <1>2 DEF Over
<1> QED
  BY <1>2, <1>7, <1>8 DEF Extended

\* A call puts a frame below the others.
LEMMA ChainGrows ==
  ASSUME NEW words, NEW m \in Nat \ {0}, NEW b \in [Nat -> Int], NEW g \in [Nat -> Functions],
         Chain(words, m, b, g), NEW new,
         \A a \in b[m]..Depth : new[a] = words[a],
         NEW e \in Int, e < b[m], new[e] = Pointer(b[m]),
         NEW i \in Nat, new[e + 1] = CodeAddress(g[m], i), Resumes(g[m], i, b[m] - e - 2),
         NEW f \in Functions
  PROVE  ChainTo(new, e, f)
<1>1. Chain(new, m, b, g)
  BY ChainKept
<1>2. PICK n, up, owner : n = m + 1 /\ up = b[m] /\ owner = g[m]
  OBVIOUS
<1>3. up \in Int /\ e < up /\ Linked(new, e, up, owner, i)
  BY <1>2 DEF Linked
<1>4. Extended(new, m, b, n, e, f)
  BY <1>1, <1>2, <1>3, ChainExtended
<1>5. n \in Nat \ {0}
  BY <1>2
<1> QED
  BY <1>4, <1>5 DEF Extended, ChainTo

\* A return removes the frame at the bottom.
LEMMA ChainShrinks ==
  ASSUME NEW words, NEW m \in Nat \ {0}, NEW b \in [Nat -> Int], NEW g,
         Chain(words, m, b, g), m > 1
  PROVE  m - 1 \in Nat \ {0} /\ Chain(words, m - 1, b, g)
<1>1. PICK n : n = m - 1
  OBVIOUS
<1>2. n \in Nat \ {0} /\ (\A k \in 1..n : k \in 1..m) /\ (\A k \in 2..n : k \in 2..m)
  BY <1>1
<1>3. Chain(words, n, b, g)
  BY <1>2 DEF Chain
<1> QED
  BY <1>1, <1>2, <1>3

-----------------------------------------------------------------------------
(* Each action of the execution preserves the invariant.                    *)
\* The code does not change any more.
LEMMA CodeStays ==
  ASSUME TypeInv, TranslationInv, UNCHANGED translating,
         phase' \in {"translate", "run", "exited", "overflow"}
  PROVE  /\ TypeInv' /\ TranslationInv'
         /\ code' = code /\ temps' = temps /\ current' = current
<1>1. /\ code' = code /\ temps' = temps /\ current' = current /\ open' = open
      /\ pushed' = pushed /\ program' = program /\ tokens' = tokens
  BY DEF translating
<1>2. TypeInv'
  BY <1>1 DEF TypeInv, Bounded
<1>3. (PendingArgs)' = PendingArgs /\ Fn' = Fn
  BY <1>1 DEF PendingArgs, Innermost, Fn
<1>4. TranslationInv'
  BY <1>1, <1>3 DEF TranslationInv, Enclosed
<1> QED
  BY <1>1, <1>2, <1>4

\* What is left to show of a step of the execution.
LEMMA StepDone ==
  ASSUME TypeInv, TranslationInv, UNCHANGED translating, phase' = "run",
         current > Len(Order),
         NEW f \in Functions, NEW i \in 1..Len(code[f]), pc' = <<f, i>>,
         NEW h \in Nat, Height(code[f], i, h),
         Held(memory', ebp', esp', code[f], i, h),
         esp' = ebp' - Reserved(f) - h, esp' >= 1,
         NEW m \in Nat \ {0}, NEW b \in [Nat -> Int], NEW g \in [Nat -> Functions],
         b[m] = ebp', g[m] = f, Chain(memory', m, b, g),
         DOMAIN memory' = Addresses,
         \E S : received' \in Seq(S) /\ \A x \in S : x.fn \in Externals
  PROVE  IInv'
<1>1. /\ TypeInv' /\ TranslationInv'
      /\ code' = code /\ temps' = temps /\ current' = current
  BY CodeStays
<1>2. pc'[1] = f /\ pc'[2] = i
  OBVIOUS
<1>3. \A e \in Functions : Reserved(e)' = Reserved(e)
  BY <1>1 DEF Reserved, Space
<1>4. /\ ebp' \in Int /\ ebp' <= Depth - 1 /\ Depth \in Nat
      /\ Reserved(f) \in Nat
  <2>1. m \in 1..m
    OBVIOUS
  <2>2. b[m] \in b[m]..Depth - 1 /\ Depth \in Nat /\ b[m] \in Int
    BY <2>1, ChainBounds
  <2> QED
    BY <2>2, ReservedIsEnough
<1>5. esp' \in Int /\ esp' <= ebp'
  <2>1. PICK e, r, t : e = ebp' /\ r = Reserved(f) /\ t = esp'
    OBVIOUS
  <2>2. e \in Int /\ r \in Nat /\ t = e - r - h
    BY <1>4, <2>1
  <2>3. t \in Int /\ t <= e
    BY <2>2
  <2> QED
    BY <2>1, <2>3
<1>6. RunInv'
  <2>1. /\ Height(code'[f], i, h) /\ esp' = ebp' - Reserved(f)' - h
        /\ Held(memory', ebp', esp', code'[f], i, h)
    BY <1>1, <1>3
  <2> QED
    BY <1>1, <1>2, <1>4, <1>5, <2>1 DEF RunInv
<1>7. Chain(memory, m, b, g)'
  <2>1. ASSUME NEW k \in 2..m
        PROVE  /\ memory'[b[k]] = Pointer(b[k - 1])
               /\ \E j \in Nat : /\ memory'[b[k] + 1] = CodeAddress(g[k - 1], j)
                                 /\ Resumes(g[k - 1], j, b[k - 1] - b[k] - 2)'
    <3>1. PICK e : e = g[k - 1]
      OBVIOUS
    <3>2. e \in Functions
      BY <3>1
    <3>3. /\ memory'[b[k]] = Pointer(b[k - 1])
          /\ \E j \in Nat : /\ memory'[b[k] + 1] = CodeAddress(e, j)
                            /\ Resumes(e, j, b[k - 1] - b[k] - 2)
      BY <3>1 DEF Chain
    <3>4. \A j : Resumes(e, j, b[k - 1] - b[k] - 2)' = Resumes(e, j, b[k - 1] - b[k] - 2)
      BY <1>1, <1>3, <3>2 DEF Resumes
    <3> QED
      BY <3>1, <3>3, <3>4
  <2> QED
    BY <2>1 DEF Chain
<1>8. StackInv'
  BY <1>2, <1>7 DEF StackInv, ChainTo
<1>9. Registers'
  <2>1. esp' \in Addresses /\ ebp' \in Addresses
    BY <1>4, <1>5 DEF Addresses
  <2>2. (DOMAIN memory)' = Addresses /\ Addresses' = Addresses
    BY DEF Addresses
  <2> QED
    BY <1>2, <2>1, <2>2 DEF Registers
<1> QED
  BY <1>1, <1>6, <1>8, <1>9 DEF IInv

\* The first function gets the frame below the address that main returns to.
LEMMA KeepsStartProgram ==
  ASSUME IInv, StartProgram
  PROVE  IInv'
<1>1. /\ TypeInv /\ TranslationInv /\ Registers /\ UNCHANGED translating
      /\ phase' = "run" /\ current > Len(Order) /\ received' = received /\ ebp = Outside
  BY DEF IInv, StartProgram, Registers
<1>2. PICK f, r : f = Order[1] /\ r = Reserved(f)
  OBVIOUS
<1>3. /\ Depth - 1 - r >= 1
      /\ memory' = Stored(Stored(memory, Depth, Startup), Depth - 1, Pointer(Outside))
      /\ ebp' = Depth - 1 /\ esp' = Depth - 1 - r /\ pc' = <<f, 1>>
  BY <1>1, <1>2 DEF StartProgram, Entered, Fits
<1>4. f \in Functions
  BY <1>2, OrderIsInjective
<1>5. r \in Nat /\ Depth \in Nat \ {0}
  BY <1>1, <1>2, <1>4, ReservedIsEnough, BoundsAssumption
<1>6. 1 \in 1..Len(code[f])
  BY <1>1, <1>4, FunctionsEnded DEF Ended
<1>7. Height(code[f], 1, 0) /\ Held(memory', ebp', esp', code[f], 1, 0)
  BY DEF Height, Held, AfterCall, Pushes
<1>8. PICK one : one = Stored(memory, Depth, Startup)
  OBVIOUS
<1>9. Depth \in Addresses /\ Depth - 1 \in Addresses /\ Depth # Depth - 1
  BY <1>3, <1>5 DEF Addresses
<1>10. DOMAIN one = Addresses /\ one[Depth] = Startup
  BY <1>1, <1>8, <1>9, StoredWords DEF Registers
<1>11. /\ DOMAIN memory' = Addresses /\ memory'[Depth] = Startup
       /\ memory'[Depth - 1] = Pointer(Outside)
  BY <1>3, <1>8, <1>9, <1>10, StoredWords
<1>12. PICK b, g : b = [n \in Nat |-> Depth - 1] /\ g = [n \in Nat |-> f]
  OBVIOUS
<1>13. b \in [Nat -> Int] /\ g \in [Nat -> Functions] /\ b[1] = Depth - 1 /\ g[1] = f
  BY <1>4, <1>5, <1>12
<1>14. Chain(memory', 1, b, g)
  BY <1>11, <1>13 DEF Chain
<1>15. \E S : received' \in Seq(S) /\ \A x \in S : x.fn \in Externals
  BY <1>1 DEF Registers
<1>16. esp' = ebp' - Reserved(f) - 0 /\ esp' >= 1
  BY <1>2, <1>3, <1>5
<1> QED
  <2>1. b[1] = ebp' /\ g[1] = f /\ pc' = <<f, 1>> /\ 1 \in Nat \ {0} /\ 0 \in Nat
    BY <1>3, <1>13
  <2>2. DOMAIN memory' = Addresses /\ b \in [Nat -> Int] /\ g \in [Nat -> Functions]
    BY <1>11, <1>13
  <2> QED
    BY <1>1, <1>4, <1>6, <1>7, <1>14, <1>15, <1>16, <2>1, <2>2, StepDone

\* What every step of the execution begins with: the words it has pushed, the frames below it,
\* and where the program counter and the registers stand.
LEMMA PushedHere ==
  ASSUME IInv, phase = "run", NEW f, f = pc[1], NEW i, i = pc[2], NEW c, c = code[f]
  PROVE  \E h \in Nat : /\ Height(c, i, h) /\ esp = ebp - Reserved(f) - h
                        /\ Held(memory, ebp, esp, c, i, h)
<1>1. RunInv
  BY DEF IInv
<1> QED
  BY <1>1 DEF RunInv

\* The frames below it.
LEMMA FramesHere ==
  ASSUME IInv, phase = "run", NEW f, f = pc[1]
  PROVE  \E m \in Nat \ {0}, b \in [Nat -> Int], g \in [Nat -> Functions] :
           b[m] = ebp /\ g[m] = f /\ Chain(memory, m, b, g)
<1>1. StackInv
  BY DEF IInv
<1> QED
  BY <1>1 DEF StackInv, ChainTo

\* Where the program counter and the registers stand.
LEMMA Stands ==
  ASSUME IInv, phase = "run", NEW f, f = pc[1], NEW i, i = pc[2], NEW c, c = code[f]
  PROVE  /\ TypeInv /\ TranslationInv /\ current > Len(Order) /\ DOMAIN memory = Addresses
         /\ f \in Functions /\ c \in Seq(Instructions) /\ Body(c)
         /\ i \in 1..Len(c) /\ i \in Nat \ {0} /\ c[i] \in Instructions
         /\ c[i].kind # "return" => i + 1 \in 1..Len(c)
         /\ esp \in Nat /\ esp >= 1 /\ esp <= ebp - LocalCount - 2
         /\ ebp \in 1..Depth - 1 /\ Depth \in Nat /\ LocalCount \in Nat
         /\ Reserved(f) \in Nat
         /\ \E S : received \in Seq(S) /\ \A x \in S : x.fn \in Externals
<1>1. TypeInv /\ TranslationInv /\ RunInv /\ StackInv /\ Registers
  BY DEF IInv
<1>2. /\ f \in Functions /\ c \in Seq(Instructions) /\ Body(c)
      /\ i \in 1..Len(c) /\ i \in Nat \ {0} /\ c[i] \in Instructions
      /\ c[i].kind # "return" => i + 1 \in 1..Len(c)
  BY <1>1, Place
<1>3. PICK h \in Nat : /\ Height(c, i, h) /\ esp = ebp - Reserved(f) - h
                       /\ Held(memory, ebp, esp, c, i, h)
  BY PushedHere
<1>4. PICK m \in Nat \ {0}, b \in [Nat -> Int], g \in [Nat -> Functions] :
        b[m] = ebp /\ g[m] = f /\ Chain(memory, m, b, g)
  BY FramesHere
<1>5. ebp <= Depth - 1 /\ Depth \in Nat /\ ebp \in Int
  <2>1. m \in 1..m
    OBVIOUS
  <2>2. b[m] \in b[m]..Depth - 1 /\ Depth \in Nat /\ b[m] \in Int
    BY <1>4, <2>1, ChainBounds
  <2> QED
    BY <1>4, <2>2
<1>6. PICK r, e, t : r = Reserved(f) /\ e = ebp /\ t = esp
  OBVIOUS
<1>7. r \in Nat /\ r >= LocalCount + 2 /\ LocalCount \in Nat
  BY <1>1, <1>2, <1>6, ReservedIsEnough
<1>8. e \in Int /\ e <= Depth - 1 /\ t = e - r - h /\ t >= 1
  BY <1>1, <1>3, <1>5, <1>6 DEF RunInv
<1>9. t \in Nat /\ t >= 1 /\ t <= e - LocalCount - 2 /\ e \in 1..Depth - 1
  BY <1>5, <1>7, <1>8
<1>10. current > Len(Order) /\ DOMAIN memory = Addresses
  BY <1>1 DEF RunInv, Registers
<1>11. \E S : received \in Seq(S) /\ \A x \in S : x.fn \in Externals
  BY <1>1 DEF Registers
<1> QED
  BY <1>1, <1>2, <1>5, <1>6, <1>7, <1>9, <1>10, <1>11

\* What a call was given is popped, whatever became of it.
LEMMA KeepsPopArguments ==
  ASSUME IInv, PopArguments
  PROVE  IInv'
<1>1. PICK f, i, c : f = pc[1] /\ i = pc[2] /\ c = code[f]
  OBVIOUS
<1>2. /\ phase = "run" /\ c[i].kind = "addl" /\ esp' = esp + c[i].words
      /\ pc' = <<f, i + 1>> /\ ebp' = ebp /\ memory' = memory /\ received' = received
      /\ phase' = "run" /\ UNCHANGED translating
  BY <1>1 DEF PopArguments, At, Running, Instruction, Continue, KeepCode
<1>3. /\ TypeInv /\ TranslationInv /\ current > Len(Order) /\ DOMAIN memory = Addresses
      /\ f \in Functions /\ c \in Seq(Instructions) /\ Body(c)
      /\ i \in 1..Len(c) /\ i \in Nat \ {0} /\ c[i] \in Instructions
      /\ i + 1 \in 1..Len(c)
      /\ esp \in Nat /\ esp >= 1 /\ ebp \in 1..Depth - 1 /\ Depth \in Nat /\ Reserved(f) \in Nat
      /\ \E S : received \in Seq(S) /\ \A x \in S : x.fn \in Externals
  BY <1>1, <1>2, Stands
<1>4. PICK h \in Nat : /\ Height(c, i, h) /\ esp = ebp - Reserved(f) - h
                       /\ Held(memory, ebp, esp, c, i, h)
  BY <1>1, <1>2, PushedHere
<1>5. PICK m \in Nat \ {0}, b \in [Nat -> Int], g \in [Nat -> Functions] :
        b[m] = ebp /\ g[m] = f /\ Chain(memory, m, b, g)
  BY <1>1, <1>2, FramesHere
<1>6. h = c[i].words
  BY <1>2, <1>3, <1>4, Heights
<1>7. Height(c, i + 1, 0) /\ ~AfterCall(c, i + 1)
  BY <1>2, <1>3, NextHeight
<1>8. Held(memory', ebp', esp', c, i + 1, 0)
  BY DEF Held
<1>9. esp' = ebp' - Reserved(f) - 0 /\ esp' >= 1
  <2>1. PICK e, r, t : e = ebp /\ r = Reserved(f) /\ t = esp
    OBVIOUS
  <2>2. e \in Int /\ r \in Nat /\ t = e - r - h /\ t >= 1
    BY <1>3, <1>4, <2>1
  <2>3. t + h = e - r - 0 /\ t + h >= 1
    BY <2>2
  <2> QED
    BY <1>2, <1>6, <2>1, <2>3
<1> QED
  BY <1>1, <1>2, <1>3, <1>5, <1>7, <1>8, <1>9, StepDone

\* What a push saved from a frame is still there after a change below the frame.
LEMMA DenotedKept ==
  ASSUME NEW s \in Operands, s.kind # "temp", NEW base \in Int, NEW words, NEW new,
         LocalCount \in Nat, \A a \in base - LocalCount..base - 1 : new[a] = words[a]
  PROVE  Denoted(new, base, s) = Denoted(words, base, s)
<1>1. CASE s.kind = "constant"
  BY <1>1 DEF Denoted
<1>2. CASE s.kind = "local"
  <2>1. s.of \in 1..LocalCount
    BY <1>2, OperandShape
  <2>2. base - s.of \in base - LocalCount..base - 1
    BY <2>1
  <2> QED
    BY <1>2, <2>2 DEF Denoted
<1> QED
  BY <1>1, <1>2, OperandShape

\* A push leaves the frames alone and the words pushed before it.
LEMMA KeepsFunctionArg ==
  ASSUME IInv, FunctionArg
  PROVE  IInv'
<1>1. PICK f, i, c, s, base, top :
        f = pc[1] /\ i = pc[2] /\ c = code[f] /\ s = c[i].source /\ base = ebp /\ top = esp
  OBVIOUS
<1>2. /\ phase = "run" /\ c[i].kind = "pushl" /\ top > 1 /\ esp' = top - 1
      /\ memory' = Stored(memory, top - 1, Fetched(s))
      /\ pc' = <<f, i + 1>> /\ ebp' = base /\ received' = received
      /\ phase' = "run" /\ UNCHANGED translating
  BY <1>1 DEF FunctionArg, At, Running, Instruction, Continue, KeepCode
<1>3. /\ TypeInv /\ TranslationInv /\ current > Len(Order) /\ DOMAIN memory = Addresses
      /\ f \in Functions /\ c \in Seq(Instructions) /\ Body(c)
      /\ i \in 1..Len(c) /\ i \in Nat \ {0} /\ c[i] \in Instructions
      /\ i + 1 \in 1..Len(c)
      /\ top \in Nat /\ top <= base - LocalCount - 2
      /\ base \in 1..Depth - 1 /\ Depth \in Nat /\ LocalCount \in Nat /\ Reserved(f) \in Nat
      /\ \E S : received \in Seq(S) /\ \A x \in S : x.fn \in Externals
  BY <1>1, <1>2, Stands
<1>4. PICK h \in Nat : /\ Height(c, i, h) /\ top = base - Reserved(f) - h
                       /\ Held(memory, base, top, c, i, h)
  BY <1>1, <1>2, PushedHere
<1>5. PICK m \in Nat \ {0}, b \in [Nat -> Int], g \in [Nat -> Functions] :
        b[m] = base /\ g[m] = f /\ Chain(memory, m, b, g)
  <2>1. phase = "run" /\ f = pc[1] /\ base = ebp
    BY <1>1, <1>2
  <2>2. \E m \in Nat \ {0}, b \in [Nat -> Int], g \in [Nat -> Functions] :
          b[m] = ebp /\ g[m] = f /\ Chain(memory, m, b, g)
    BY <2>1, FramesHere
  <2> QED
    BY <2>1, <2>2
<1>6. Pushes(c, i, h) /\ ~AfterCall(c, i)
  BY <1>2, <1>3, <1>4, Heights
<1>7. h \in 0..i - 1 /\ \A k \in 1..h : c[i - k].kind = "pushl"
  BY <1>6 DEF Pushes
<1>8. Height(c, i + 1, h + 1)
  BY <1>2, <1>3, <1>6, PushHeight
<1>9. /\ DOMAIN memory' = Addresses /\ memory'[top - 1] = Fetched(s)
      /\ \A a \in Addresses : a # top - 1 => memory'[a] = memory[a]
  <2>1. PICK a, word : a = top - 1 /\ word = Fetched(s)
    OBVIOUS
  <2>2. a \in Addresses
    <3>1. top > 1
      BY <1>2
    <3>2. /\ top \in Nat /\ LocalCount \in Nat /\ base \in 1..Depth - 1 /\ Depth \in Nat
          /\ top <= base - LocalCount - 2
      BY <1>3
    <3> QED
      BY <2>1, <3>1, <3>2 DEF Addresses
  <2>3. memory' = Stored(memory, a, word)
    BY <1>2, <2>1
  <2>4. /\ DOMAIN memory' = DOMAIN memory
        /\ a \in DOMAIN memory => memory'[a] = word
        /\ \A x \in DOMAIN memory : x # a => memory'[x] = memory[x]
    BY <2>3, StoredWords
  <2> QED
    BY <1>3, <2>1, <2>2, <2>4
<1>10. \A a \in top..Depth : memory'[a] = memory[a]
  <2>1. \A a \in top..Depth : a \in Addresses /\ a # top - 1
    BY <1>2, <1>3 DEF Addresses
  <2> QED
    BY <1>9, <2>1
<1>11. Chain(memory', m, b, g)
  <2>1. \A a \in b[m]..Depth : a \in top..Depth
    BY <1>3, <1>5
  <2> QED
    BY <1>5, <1>10, <2>1, ChainKept
<1>12. ASSUME NEW x \in Operands, x.kind # "temp"
       PROVE  Denoted(memory', base, x) = Denoted(memory, base, x)
  <2>1. \A a \in base - LocalCount..base - 1 : a \in top..Depth
    BY <1>3
  <2>2. \A a \in base - LocalCount..base - 1 : memory'[a] = memory[a]
    BY <1>10, <2>1
  <2>3. base \in Int /\ LocalCount \in Nat
    BY <1>3
  <2> QED
    BY <1>12, <2>2, <2>3, DenotedKept
<1>13. PICK n, u, v : n = i + 1 /\ u = top - 1 /\ v = h + 1
  OBVIOUS
<1>14. ASSUME NEW k \in 1..v, c[n - k].source.kind # "temp"
       PROVE  memory'[u + k - 1] = Denoted(memory', base, c[n - k].source)
  <2>1. CASE k = 1
    <3>1. n - k = i /\ u + k - 1 = top - 1
      BY <1>13, <1>3, <2>1
    <3>2. s \in Operands /\ s.kind # "temp"
      <4>1. s \in Operands
        BY <1>1, <1>2, <1>3, InstructionShape
      <4> QED
        BY <1>1, <1>14, <3>1, <4>1
    <3>3. Fetched(s) = Denoted(memory, base, s)
      <4>1. CASE s.kind = "constant"
        BY <4>1 DEF Fetched, Denoted
      <4>2. CASE s.kind = "local"
        <5>1. s.of \in 1..LocalCount /\ LocalCount \in Nat /\ base \in Int
          BY <1>3, <3>2, <4>2, OperandShape
        <5>2. FrameAddress(ebp, s) = base - s.of
          BY <1>1, <4>2, <5>1 DEF FrameAddress
        <5> QED
          BY <4>2, <5>2 DEF Fetched, Denoted
      <4> QED
        BY <3>2, <4>1, <4>2, OperandShape
    <3> QED
      BY <1>1, <1>9, <1>12, <3>1, <3>2, <3>3
  <2>2. CASE k # 1
    <3>1. PICK j : j = k - 1
      OBVIOUS
    <3>2. /\ j \in 1..h /\ n - k = i - j /\ i - j \in 1..Len(c)
          /\ u + k - 1 = top + j - 1 /\ top + j - 1 \in top..Depth
      <4>1. j \in 1..h /\ k = j + 1
        BY <1>13, <2>2, <3>1
      <4>2. n - k = i - j /\ u + k - 1 = top + j - 1
        BY <1>13, <1>3, <4>1
      <4>3. i - j \in 1..Len(c)
        <5>1. Len(c) \in Nat /\ i \in 1..Len(c) /\ h <= i - 1
          BY <1>3, <1>7
        <5> QED
          BY <4>1, <5>1
      <4>4. PICK r : r = Reserved(f)
        OBVIOUS
      <4>5. top + j - 1 \in top..Depth
        <5>1. r \in Nat /\ top = base - r - h /\ base <= Depth - 1 /\ base \in Int /\ Depth \in Nat
          BY <1>3, <1>4, <4>4
        <5> QED
          BY <4>1, <5>1
      <4> QED
        BY <4>1, <4>2, <4>3, <4>5
    <3>3. c[i - j] \in Instructions /\ c[i - j].kind = "pushl" /\ c[i - j].source.kind # "temp"
      <4>1. c[i - j] \in Instructions
        <5>1. \A y \in 1..Len(c) : c[y] \in Instructions
          BY <1>3
        <5> QED
          BY <3>2, <5>1
      <4>2. c[i - j].source.kind # "temp"
        BY <1>14, <3>2
      <4>3. c[i - j].kind = "pushl"
        BY <1>7, <3>2
      <4> QED
        BY <4>1, <4>2, <4>3
    <3>4. c[i - j].source \in Operands
      BY <3>3, InstructionShape
    <3>5. memory[top + j - 1] = Denoted(memory, base, c[i - j].source)
      BY <1>4, <1>6, <3>2, <3>3 DEF Held
    <3> QED
      BY <1>10, <1>12, <3>2, <3>3, <3>4, <3>5
  <2> QED
    BY <2>1, <2>2
<1>15. Held(memory', base, u, c, n, v)
  BY <1>14 DEF Held
<1>16. esp' = ebp' - Reserved(f) - (h + 1) /\ esp' >= 1
  <2>1. PICK r : r = Reserved(f)
    OBVIOUS
  <2>2. r \in Nat /\ top = base - r - h
    BY <1>3, <1>4, <2>1
  <2>3. top - 1 = base - r - (h + 1) /\ top - 1 >= 1
    BY <1>2, <1>3, <2>2
  <2> QED
    BY <1>2, <2>1, <2>3
<1>17. /\ Held(memory', ebp', esp', c, i + 1, h + 1) /\ h + 1 \in Nat
       /\ b[m] = ebp' /\ DOMAIN memory' = Addresses
       /\ \E S : received' \in Seq(S) /\ \A x \in S : x.fn \in Externals
  BY <1>13, <1>2, <1>3, <1>5, <1>9, <1>15
<1> QED
  BY <1>1, <1>2, <1>3, <1>5, <1>8, <1>11, <1>16, <1>17, StepDone

\* An assignment writes into its own frame, above what is pushed.
LEMMA KeepsAssign ==
  ASSUME IInv, Assign
  PROVE  IInv'
<1>1. PICK f, i, c, base, top :
        f = pc[1] /\ i = pc[2] /\ c = code[f] /\ base = ebp /\ top = esp
  OBVIOUS
<1>2. PICK x, y : /\ x = FrameAddress(ebp, LocalOperand(c[i].local))
                  /\ y = FrameAddress(ebp, TempOperand(c[i].temp))
  OBVIOUS
<1>3. /\ phase = "run" /\ c[i].kind = "assign" /\ esp' = top
      /\ memory' = Stored(Stored(memory, y, Pointer(x)), x, c[i].value)
      /\ pc' = <<f, i + 1>> /\ ebp' = base /\ received' = received
      /\ phase' = "run" /\ UNCHANGED translating
  BY <1>1, <1>2 DEF Assign, At, Running, Instruction, Continue, KeepCode
<1>4. /\ TypeInv /\ TranslationInv /\ current > Len(Order) /\ DOMAIN memory = Addresses
      /\ f \in Functions /\ c \in Seq(Instructions) /\ Body(c)
      /\ i \in 1..Len(c) /\ i \in Nat \ {0} /\ c[i] \in Instructions
      /\ i + 1 \in 1..Len(c)
      /\ top \in Nat /\ top >= 1 /\ top <= base - LocalCount - 2
      /\ base \in 1..Depth - 1 /\ Depth \in Nat /\ LocalCount \in Nat /\ Reserved(f) \in Nat
      /\ \E S : received \in Seq(S) /\ \A z \in S : z.fn \in Externals
  BY <1>1, <1>3, Stands
<1>5. PICK h \in Nat : /\ Height(c, i, h) /\ top = base - Reserved(f) - h
                       /\ Held(memory, base, top, c, i, h)
  BY <1>1, <1>3, PushedHere
<1>6. PICK m \in Nat \ {0}, b \in [Nat -> Int], g \in [Nat -> Functions] :
        b[m] = base /\ g[m] = f /\ Chain(memory, m, b, g)
  <2>1. phase = "run" /\ f = pc[1] /\ base = ebp
    BY <1>1, <1>3
  <2>2. \E m \in Nat \ {0}, b \in [Nat -> Int], g \in [Nat -> Functions] :
          b[m] = ebp /\ g[m] = f /\ Chain(memory, m, b, g)
    BY <2>1, FramesHere
  <2> QED
    BY <2>1, <2>2
<1>7. h = 0
  <2>1. /\ c \in Seq(Instructions) /\ Body(c) /\ i \in 1..Len(c) /\ Height(c, i, h)
        /\ c[i].kind = "assign"
    BY <1>3, <1>4, <1>5
  <2> QED
    BY <2>1, Heights
<1>8. Height(c, i + 1, 0)
  BY <1>3, <1>4, NextHeight
<1>9. x \in Int /\ x < base /\ y \in Int /\ y < base
  <2>1. c[i].local \in 1..LocalCount /\ c[i].temp \in Nat \ {0}
    BY <1>3, <1>4, InstructionShape
  <2>2. x = base - c[i].local - 0
    BY <1>1, <1>2 DEF FrameAddress, LocalOperand, Operand
  <2>3. y = base - c[i].temp - LocalCount
    BY <1>1, <1>2 DEF FrameAddress, TempOperand, Operand
  <2>4. base \in Int /\ LocalCount \in Nat
    BY <1>4
  <2> QED
    BY <2>1, <2>2, <2>3, <2>4
<1>10. PICK one : one = Stored(memory, y, Pointer(x))
  OBVIOUS
<1>11. /\ DOMAIN one = Addresses
       /\ \A a \in Addresses : a # y => one[a] = memory[a]
  BY <1>4, <1>10, StoredWords
<1>12. /\ DOMAIN memory' = Addresses
       /\ \A a \in Addresses : a # x => memory'[a] = one[a]
  BY <1>3, <1>10, <1>11, StoredWords
<1>13. Chain(memory', m, b, g)
  <2>1. \A a \in b[m]..Depth : a \in Addresses /\ a # x /\ a # y
    <3>1. b[m] = base /\ base \in Nat /\ base >= 1 /\ Depth \in Nat
      BY <1>4, <1>6
    <3> QED
      BY <1>9, <3>1 DEF Addresses
  <2>2. \A a \in b[m]..Depth : memory'[a] = memory[a]
    BY <1>11, <1>12, <2>1
  <2> QED
    BY <1>6, <2>2, ChainKept
<1>14. Held(memory', ebp', esp', c, i + 1, 0)
  BY DEF Held
<1>15. esp' = ebp' - Reserved(f) - 0 /\ esp' >= 1 /\ b[m] = ebp'
  BY <1>3, <1>4, <1>5, <1>6, <1>7
<1>16. \E S : received' \in Seq(S) /\ \A z \in S : z.fn \in Externals
  BY <1>3, <1>4
<1>17. /\ TypeInv /\ TranslationInv /\ current > Len(Order)
       /\ f \in Functions /\ i + 1 \in 1..Len(code[f])
       /\ phase' = "run" /\ pc' = <<f, i + 1>> /\ UNCHANGED translating
  BY <1>1, <1>3, <1>4
<1>18. Height(code[f], i + 1, 0) /\ Held(memory', ebp', esp', code[f], i + 1, 0)
  BY <1>1, <1>8, <1>14
<1> QED
  BY <1>6, <1>12, <1>13, <1>15, <1>16, <1>17, <1>18, StepDone

\* What is defined elsewhere may change its arguments and what is below them.
LEMMA KeepsExternalCall ==
  ASSUME IInv, ExternalCall
  PROVE  IInv'
<1>1. PICK f, i, c, args, base, top :
        f = pc[1] /\ i = pc[2] /\ c = code[f] /\ args = c[i].args /\ base = ebp /\ top = esp
  OBVIOUS
<1>2. PICK request : request = [fn |-> c[i].callee, args |-> Arrived(args, memory, esp)]
  OBVIOUS
<1>3. /\ phase = "run" /\ c[i].kind = "call" /\ c[i].callee \in Externals /\ esp' = top
      /\ memory' = [a \in Addresses |-> IF a < top + Len(args) THEN Garbage ELSE memory[a]]
      /\ pc' = <<f, i + 1>> /\ ebp' = base /\ received' = Append(received, request)
      /\ phase' = "run" /\ UNCHANGED translating
  BY <1>1, <1>2 DEF ExternalCall, At, Running, Instruction, Continue, KeepCode
<1>4. /\ TypeInv /\ TranslationInv /\ current > Len(Order) /\ DOMAIN memory = Addresses
      /\ f \in Functions /\ c \in Seq(Instructions) /\ Body(c)
      /\ i \in 1..Len(c) /\ i \in Nat \ {0} /\ c[i] \in Instructions
      /\ i + 1 \in 1..Len(c)
      /\ top \in Nat /\ top >= 1 /\ top <= base - LocalCount - 2
      /\ base \in 1..Depth - 1 /\ Depth \in Nat /\ LocalCount \in Nat /\ Reserved(f) \in Nat
  BY <1>1, <1>3, Stands
<1>5. PICK h \in Nat : /\ Height(c, i, h) /\ top = base - Reserved(f) - h
                       /\ Held(memory, base, top, c, i, h)
  BY <1>1, <1>3, PushedHere
<1>6. PICK m \in Nat \ {0}, b \in [Nat -> Int], g \in [Nat -> Functions] :
        b[m] = base /\ g[m] = f /\ Chain(memory, m, b, g)
  <2>1. phase = "run" /\ f = pc[1] /\ base = ebp
    BY <1>1, <1>3
  <2>2. \E m \in Nat \ {0}, b \in [Nat -> Int], g \in [Nat -> Functions] :
          b[m] = ebp /\ g[m] = f /\ Chain(memory, m, b, g)
    BY <2>1, FramesHere
  <2> QED
    BY <2>1, <2>2
<1>7. c[i + 1].words = h
  <2>1. /\ c \in Seq(Instructions) /\ Body(c) /\ i \in 1..Len(c) /\ Height(c, i, h)
        /\ c[i].kind = "call"
    BY <1>3, <1>4, <1>5
  <2> QED
    BY <2>1, Heights
<1>8. AfterCall(c, i + 1) /\ Height(c, i + 1, h)
  <2>1. PICK n : n = i + 1
    OBVIOUS
  <2>2. n > 1 /\ n - 1 = i
    BY <1>4, <2>1
  <2>3. AfterCall(c, n)
    BY <1>3, <2>2 DEF AfterCall
  <2>4. Height(c, n, h)
    BY <1>7, <2>1, <2>3 DEF Height
  <2> QED
    BY <2>1, <2>3, <2>4
<1>9. Held(memory', ebp', esp', c, i + 1, h)
  BY <1>8 DEF Held
<1>10. DOMAIN memory' = Addresses
  BY <1>3
<1>11. Chain(memory', m, b, g)
  <2>1. PICK r : r = Reserved(f)
    OBVIOUS
  <2>2. top + Len(args) <= base
    <3>1. PICK l : l = Len(args)
      OBVIOUS
    <3>2. l \in Nat /\ l <= temps[f]
      <4>1. Small(c, temps[f])
        BY <1>1, <1>4 DEF TranslationInv
      <4>2. args \in Seq(Operands)
        BY <1>1, <1>3, <1>4, InstructionShape
      <4>3. c[i].kind = "call" => Len(c[i].args) <= temps[f]
        BY <1>4, <4>1 DEF Small
      <4>4. Len(args) \in Nat
        BY <4>2
      <4> QED
        BY <1>1, <1>3, <3>1, <4>3, <4>4
    <3>3. r \in Nat /\ l <= r
      <4>1. temps[f] \in Nat /\ r \in Nat /\ temps[f] <= r
        BY <1>4, <2>1, ReservedIsEnough
      <4> QED
        BY <3>2, <4>1
    <3>4. top = base - r - h /\ base \in Int
      BY <1>4, <1>5, <2>1
    <3>5. top + l <= base
      BY <3>2, <3>3, <3>4
    <3> QED
      BY <3>1, <3>5
  <2>3. \A a \in b[m]..Depth : a \in Addresses /\ ~(a < top + Len(args))
    <3>1. PICK z : z = top + Len(args)
      OBVIOUS
    <3>2. z \in Int /\ z <= base
      <4>1. args \in Seq(Operands)
        BY <1>1, <1>3, <1>4, InstructionShape
      <4>2. Len(args) \in Nat
        BY <4>1
      <4> QED
        BY <1>4, <2>2, <3>1, <4>2
    <3>3. b[m] = base /\ base \in 1..Depth - 1 /\ Depth \in Nat
      BY <1>4, <1>6
    <3>4. \A a \in base..Depth : a \in 1..Depth /\ ~(a < z)
      BY <3>2, <3>3
    <3> QED
      BY <3>1, <3>3, <3>4 DEF Addresses
  <2>4. \A a \in b[m]..Depth : memory'[a] = memory[a]
    BY <1>3, <2>3
  <2> QED
    BY <1>6, <2>4, ChainKept
<1>12. \E S : received' \in Seq(S) /\ \A z \in S : z.fn \in Externals
  <2>1. PICK S : received \in Seq(S) /\ \A z \in S : z.fn \in Externals
    BY <1>1, <1>3, Stands
  <2>2. PICK T : T = S \cup {request}
    OBVIOUS
  <2>3. received \in Seq(T)
    BY <2>1, <2>2, SeqMonotonic
  <2>4. request.fn = c[i].callee
    BY <1>2
  <2>5. \A z \in T : z.fn \in Externals
    BY <1>3, <2>1, <2>2, <2>4
  <2>6. received' \in Seq(T)
    BY <1>3, <2>2, <2>3, AppendProperties
  <2> QED
    BY <2>5, <2>6
<1>13. esp' = ebp' - Reserved(f) - h /\ esp' >= 1 /\ b[m] = ebp'
  BY <1>3, <1>4, <1>5, <1>6
<1> QED
  BY <1>1, <1>3, <1>4, <1>6, <1>8, <1>9, <1>10, <1>11, <1>12, <1>13, StepDone

\* A call puts the frame of the callee below what is pushed.
LEMMA KeepsFunctionCall ==
  ASSUME IInv, FunctionCall
  PROVE  IInv'
<1>1. PICK f, i, c, callee, base, top, one, e :
        /\ f = pc[1] /\ i = pc[2] /\ c = code[f] /\ callee = c[i].callee
        /\ base = ebp /\ top = esp /\ e = top - 2
        /\ one = Stored(memory, top - 1, CodeAddress(f, i + 1))
  OBVIOUS
<1>2. /\ phase = "run" /\ c[i].kind = "call" /\ callee \in Functions
      /\ top > 1 /\ Fits(callee, top - 1)
      /\ Entered(callee, top - 1, CodeAddress(f, i + 1))
      /\ received' = received /\ phase' = "run" /\ UNCHANGED translating
  BY <1>1 DEF FunctionCall, At, Running, Instruction, KeepCode
<1>3. /\ TypeInv /\ TranslationInv /\ current > Len(Order) /\ DOMAIN memory = Addresses
      /\ f \in Functions /\ c \in Seq(Instructions) /\ Body(c)
      /\ i \in 1..Len(c) /\ i \in Nat \ {0} /\ c[i] \in Instructions
      /\ top \in Nat /\ top <= base - LocalCount - 2
      /\ base \in 1..Depth - 1 /\ Depth \in Nat /\ LocalCount \in Nat /\ Reserved(f) \in Nat
      /\ \E S : received \in Seq(S) /\ \A z \in S : z.fn \in Externals
  BY <1>1, <1>2, Stands
<1>4. PICK h \in Nat : /\ Height(c, i, h) /\ top = base - Reserved(f) - h
                       /\ Held(memory, base, top, c, i, h)
  BY <1>1, <1>2, PushedHere
<1>5. PICK m \in Nat \ {0}, b \in [Nat -> Int], g \in [Nat -> Functions] :
        b[m] = base /\ g[m] = f /\ Chain(memory, m, b, g)
  <2>1. phase = "run" /\ f = pc[1] /\ base = ebp
    BY <1>1, <1>2
  <2>2. \E m \in Nat \ {0}, b \in [Nat -> Int], g \in [Nat -> Functions] :
          b[m] = ebp /\ g[m] = f /\ Chain(memory, m, b, g)
    BY <2>1, FramesHere
  <2> QED
    BY <2>1, <2>2
<1>6. i < Len(c) /\ c[i + 1].kind = "addl" /\ c[i + 1].words = h
  <2>1. /\ c \in Seq(Instructions) /\ Body(c) /\ i \in 1..Len(c) /\ Height(c, i, h)
        /\ c[i].kind = "call"
    BY <1>2, <1>3, <1>4
  <2> QED
    BY <2>1, Heights
<1>7. PICK r : r = Reserved(callee)
  OBVIOUS
<1>8. r \in Nat /\ e = top - 2 /\ top - 1 - 1 = e /\ e + 1 = top - 1 /\ e - r >= 1
  <2>1. r \in Nat
    BY <1>2, <1>3, <1>7, ReservedIsEnough
  <2>2. top - 1 - 1 - r >= 1
    BY <1>2, <1>7 DEF Fits
  <2> QED
    BY <1>1, <1>3, <2>1, <2>2
<1>9. /\ memory' = Stored(one, e, Pointer(base)) /\ ebp' = e /\ esp' = e - r
      /\ pc' = <<callee, 1>>
  BY <1>1, <1>2, <1>7, <1>8 DEF Entered
<1>10. e \in Addresses /\ e + 1 \in Addresses /\ e < base /\ e \in Int
  <2>1. e \in Int /\ e >= 1 /\ e + 1 >= 1 /\ e + 1 < top
    BY <1>3, <1>8
  <2>2. top <= base /\ base < Depth /\ base \in Int /\ Depth \in Nat /\ top \in Int
    BY <1>3
  <2> QED
    BY <2>1, <2>2 DEF Addresses
<1>11. /\ DOMAIN one = Addresses /\ one[e + 1] = CodeAddress(f, i + 1)
       /\ \A a \in Addresses : a # e + 1 => one[a] = memory[a]
  <2>1. PICK a, word : a = e + 1 /\ word = CodeAddress(f, i + 1)
    OBVIOUS
  <2>2. one = Stored(memory, a, word)
    BY <1>1, <1>8, <2>1
  <2>3. /\ DOMAIN one = DOMAIN memory
        /\ a \in DOMAIN memory => one[a] = word
        /\ \A x \in DOMAIN memory : x # a => one[x] = memory[x]
    BY <2>2, StoredWords
  <2> QED
    BY <1>3, <1>10, <2>1, <2>3
<1>12. /\ DOMAIN memory' = Addresses /\ memory'[e] = Pointer(base)
       /\ memory'[e + 1] = CodeAddress(f, i + 1)
       /\ \A a \in Addresses : a # e /\ a # e + 1 => memory'[a] = memory[a]
  <2>1. /\ DOMAIN memory' = Addresses /\ memory'[e] = Pointer(base)
        /\ \A a \in Addresses : a # e => memory'[a] = one[a]
    BY <1>9, <1>10, <1>11, StoredWords
  <2>2. e + 1 # e
    BY <1>10
  <2> QED
    BY <1>10, <1>11, <2>1, <2>2
<1>13. \A a \in b[m]..Depth : memory'[a] = memory[a]
  <2>1. \A a \in b[m]..Depth : a \in Addresses /\ a # e /\ a # e + 1
    <3>1. b[m] = base /\ base \in Nat /\ base >= 1 /\ Depth \in Nat /\ e + 1 < base
      BY <1>3, <1>5, <1>8
    <3> QED
      BY <1>10, <3>1 DEF Addresses
  <2> QED
    BY <1>12, <2>1
<1>14. Resumes(f, i + 1, base - e - 2)
  <2>1. PICK s : s = Reserved(f)
    OBVIOUS
  <2>2. top = base - s - h /\ s \in Nat /\ base \in Int /\ e = top - 2
    BY <1>3, <1>4, <1>8, <2>1
  <2>3. base - e - 2 = s + h
    BY <2>2
  <2>4. i + 1 \in 2..Len(c)
    BY <1>3, <1>6
  <2> QED
    BY <1>1, <1>6, <2>1, <2>3, <2>4 DEF Resumes
<1>15. PICK n \in Nat \ {0}, d \in [Nat -> Int], k \in [Nat -> Functions] :
         d[n] = e /\ k[n] = callee /\ Chain(memory', n, d, k)
  <2>1. PICK p : p = i + 1
    OBVIOUS
  <2>2. b[m] = base /\ g[m] = f /\ p \in Nat
    BY <1>3, <1>5, <2>1
  <2>3. memory'[e] = Pointer(b[m]) /\ e < b[m] /\ e \in Int
    BY <1>10, <1>12, <2>2
  <2>4. memory'[e + 1] = CodeAddress(g[m], p)
    BY <1>12, <2>1, <2>2
  <2>5. Resumes(g[m], p, b[m] - e - 2)
    BY <1>14, <2>1, <2>2
  <2> QED
    <3>1. ChainTo(memory', e, callee)
      BY <1>2, <1>5, <1>13, <2>2, <2>3, <2>4, <2>5, ChainGrows
    <3> QED
      BY <3>1 DEF ChainTo
<1>16. 1 \in 1..Len(code[callee])
  <2>1. PICK body : body = code[callee]
    OBVIOUS
  <2>2. body \in Seq(Instructions) /\ Ended(body)
    BY <1>2, <1>3, <2>1, FunctionsEnded
  <2>3. 1 \in 1..Len(body)
    BY <2>2 DEF Ended
  <2> QED
    BY <2>1, <2>3
<1>17. Height(code[callee], 1, 0) /\ Held(memory', ebp', esp', code[callee], 1, 0)
  BY DEF Height, Held, AfterCall, Pushes
<1>18. /\ esp' = ebp' - Reserved(callee) - 0 /\ esp' >= 1 /\ d[n] = ebp'
       /\ pc' = <<callee, 1>> /\ DOMAIN memory' = Addresses
       /\ \E S : received' \in Seq(S) /\ \A z \in S : z.fn \in Externals
  <2>1. esp' = ebp' - Reserved(callee) - 0 /\ esp' >= 1
    <3>1. e - r = e - r - 0
      BY <1>8, <1>10
    <3> QED
      BY <1>7, <1>8, <1>9, <3>1
  <2> QED
    BY <1>2, <1>3, <1>9, <1>12, <1>15, <2>1
<1> QED
  BY <1>2, <1>3, <1>15, <1>16, <1>17, <1>18, StepDone

\* A return leads behind the call, where the arguments are still to be popped.
LEMMA KeepsReturn ==
  ASSUME IInv, Return
  PROVE  IInv'
<1>1. PICK f, i, c, base, top :
        f = pc[1] /\ i = pc[2] /\ c = code[f] /\ base = ebp /\ top = esp
  OBVIOUS
<1>2. /\ phase = "run" /\ c[i].kind = "return"
      /\ ebp' = memory[base][2] /\ pc' = <<memory[base + 1][2], memory[base + 1][3]>>
      /\ esp' = base + 2 /\ memory' = memory /\ received' = received
      /\ phase' = IF memory[base + 1] = Startup THEN "exited" ELSE phase
      /\ UNCHANGED translating
  BY <1>1 DEF Return, At, Running, Instruction
<1>3. /\ TypeInv /\ TranslationInv /\ current > Len(Order) /\ DOMAIN memory = Addresses
      /\ f \in Functions
      /\ base \in 1..Depth - 1 /\ Depth \in Nat /\ LocalCount \in Nat
      /\ \E S : received \in Seq(S) /\ \A z \in S : z.fn \in Externals
  BY <1>1, <1>2, Stands
<1>4. PICK m \in Nat \ {0}, b \in [Nat -> Int], g \in [Nat -> Functions] :
        b[m] = base /\ g[m] = f /\ Chain(memory, m, b, g)
  <2>1. phase = "run" /\ f = pc[1] /\ base = ebp
    BY <1>1, <1>2
  <2>2. \E m \in Nat \ {0}, b \in [Nat -> Int], g \in [Nat -> Functions] :
          b[m] = ebp /\ g[m] = f /\ Chain(memory, m, b, g)
    BY <2>1, FramesHere
  <2> QED
    BY <2>1, <2>2
<1>5. CASE m = 1
  <2>1. base = Depth - 1 /\ memory[base] = Pointer(Outside) /\ memory[base + 1] = Startup
    <3>1. base = Depth - 1 /\ base + 1 = Depth
      BY <1>3, <1>4, <1>5 DEF Chain
    <3> QED
      BY <1>4, <3>1 DEF Chain
  <2>2. /\ ebp' = Outside /\ pc' = <<"startup", 1>> /\ phase' = "exited" /\ esp' = Depth + 1
    BY <1>2, <1>3, <2>1 DEF Pointer, Startup, CodeAddress
  <2>3. TypeInv' /\ TranslationInv'
    BY <1>2, <1>3, <2>2, CodeStays
  <2>4. RunInv' /\ StackInv'
    BY <2>2 DEF RunInv, StackInv
  <2>5. Registers'
    <3>1. pc'[1] = "startup" /\ Outside' = Outside /\ Addresses' = Addresses /\ esp' = Outside
      BY <2>2 DEF Outside, Addresses
    <3> QED
      BY <1>2, <1>3, <2>2, <3>1 DEF Registers
  <2> QED
    BY <2>3, <2>4, <2>5 DEF IInv
<1>6. CASE m > 1
  <2>1. m \in 2..m
    BY <1>6
  <2>2. PICK e, up : e = g[m - 1] /\ up = b[m - 1]
    OBVIOUS
  <2>3. PICK j \in Nat : /\ memory[base] = Pointer(up)
                         /\ memory[base + 1] = CodeAddress(e, j)
                         /\ Resumes(e, j, up - base - 2)
    BY <1>4, <2>1, <2>2 DEF Chain
  <2>4. e \in Functions /\ up \in Int
    BY <1>6, <2>2
  <2>5. j \in 2..Len(code[e]) /\ code[e][j].kind = "addl"
    BY <2>3 DEF Resumes
  <2>6. PICK r, h : r = Reserved(e) /\ h = code[e][j].words
    OBVIOUS
  <2>7. up - base - 2 = r + h
    BY <2>3, <2>6 DEF Resumes
  <2>8. /\ code[e] \in Seq(Instructions) /\ Body(code[e]) /\ r \in Nat
        /\ j \in 1..Len(code[e])
    <3>1. code[e] \in Seq(Instructions) /\ Body(code[e])
      BY <1>3, <2>4 DEF TypeInv, TranslationInv
    <3>2. r \in Nat
      BY <1>3, <2>4, <2>6, ReservedIsEnough
    <3> QED
      BY <2>5, <3>1, <3>2
  <2>9. h \in Nat
    BY <2>5, <2>6, <2>8, InstructionShape
  <2>10. AfterCall(code[e], j)
    <3>1. PlaceOK(code[e], j)
      BY <2>8 DEF Body
    <3> QED
      BY <2>5, <3>1 DEF PlaceOK, AfterCall
  <2>11. Height(code[e], j, h)
    BY <2>6, <2>10 DEF Height
  <2>12. Held(memory', ebp', esp', code[e], j, h)
    BY <2>10 DEF Held
  <2>13. ebp' = up /\ pc' = <<e, j>>
    BY <1>2, <2>3 DEF Pointer, CodeAddress
  <2>14. phase' = "run"
    <3>1. memory[base + 1] # Startup
      BY <2>3, <2>5 DEF Startup, CodeAddress
    <3> QED
      BY <1>2, <3>1
  <2>15. esp' = ebp' - Reserved(e) - h /\ esp' >= 1
    <3>1. base + 2 = up - r - h /\ base + 2 >= 1
      <4>1. base \in Int /\ base >= 1
        BY <1>3
      <4> QED
        BY <2>4, <2>7, <2>8, <2>9, <4>1
    <3> QED
      BY <1>2, <2>6, <2>13, <3>1
  <2>16. PICK n : n = m - 1
    OBVIOUS
  <2>17. n \in Nat \ {0} /\ Chain(memory', n, b, g) /\ b[n] = ebp' /\ g[n] = e
    BY <1>2, <1>4, <1>6, <2>2, <2>13, <2>16, ChainShrinks
  <2>18. /\ DOMAIN memory' = Addresses
         /\ \E S : received' \in Seq(S) /\ \A z \in S : z.fn \in Externals
    BY <1>2, <1>3
  <2> QED
    BY <1>2, <1>3, <2>4, <2>8, <2>9, <2>11, <2>12, <2>13, <2>14, <2>15, <2>17, <2>18, StepDone
<1> QED
  BY <1>5, <1>6

\* At the end of the stack the program stops.
LEMMA KeepsOverflow ==
  ASSUME IInv, Overflow
  PROVE  IInv'
<1>1. /\ phase = "run" /\ phase' = "overflow" /\ UNCHANGED translating /\ UNCHANGED running
      /\ TypeInv /\ TranslationInv /\ Registers
  BY DEF Overflow, At, Running, IInv
<1>2. TypeInv' /\ TranslationInv'
  BY <1>1, CodeStays
<1>3. RunInv' /\ StackInv'
  BY <1>1 DEF RunInv, StackInv
<1>4. Registers'
  BY <1>1 DEF Registers, running, Outside, Addresses
<1> QED
  BY <1>2, <1>3, <1>4 DEF IInv

\* The translation does not touch the registers.
LEMMA KeepsTranslate ==
  ASSUME IInv, Translate
  PROVE  IInv'
<1>1. TypeInv /\ TranslationInv /\ Registers
  BY DEF IInv
<1>2. phase = "translate" /\ phase' = phase /\ UNCHANGED running
  BY DEF Translate, Assignment, BeginCall, Argument, EndCall, EndFunction, AtStatement,
     AtArgument, Translating
<1>3. TypeInv' /\ TranslationInv'
  <2>1. ASSUME NEW k \in 1..LocalCount, NEW v \in Values, Assignment(k, v)
        PROVE  TypeInv' /\ TranslationInv'
    BY <1>1, <2>1, KeepsAssignment
  <2>2. ASSUME NEW f \in Callees, NEW n \in 0..MaxArgs, BeginCall(f, n)
        PROVE  TypeInv' /\ TranslationInv'
    BY <1>1, <2>2, KeepsBeginCall
  <2>3. ASSUME NEW v \in Values, Argument(ConstantOperand(v))
        PROVE  TypeInv' /\ TranslationInv'
    <3>1. ConstantOperand(v) \in Operands
      BY DEF ConstantOperand, Operand, Operands
    <3> QED
      BY <1>1, <2>3, <3>1, KeepsArgument
  <2>4. ASSUME NEW k \in 1..LocalCount, Argument(LocalOperand(k))
        PROVE  TypeInv' /\ TranslationInv'
    <3>1. LocalOperand(k) \in Operands
      BY DEF LocalOperand, Operand, Operands
    <3> QED
      BY <1>1, <2>4, <3>1, KeepsArgument
  <2>5. ASSUME EndCall PROVE TypeInv' /\ TranslationInv'
    BY <1>1, <2>5, KeepsEndCall
  <2>6. ASSUME EndFunction PROVE TypeInv' /\ TranslationInv'
    BY <1>1, <2>6, KeepsEndFunction
  <2> QED
    BY <2>1, <2>2, <2>3, <2>4, <2>5, <2>6 DEF Translate, Callees
<1>4. RunInv' /\ StackInv'
  BY <1>2 DEF RunInv, StackInv
<1>5. Registers'
  BY <1>1, <1>2 DEF Registers, running, Outside, Addresses
<1> QED
  BY <1>3, <1>4, <1>5 DEF IInv

-----------------------------------------------------------------------------
(* The arguments of a call.                                                 *)

\* What is pushed for a call that takes all of it is what it was given.
LEMMA ArgumentsHere ==
  ASSUME IInv, Plain
  PROVE  ArgumentsArrive
<1>1. SUFFICES ASSUME At("call"), NEW j \in DOMAIN Instruction.args,
                      Instruction.args[j].kind # "temp"
               PROVE  memory[esp + j - 1] = Fetched(Instruction.args[j])
  BY DEF ArgumentsArrive
<1>2. PICK f, i, c, args, a : /\ f = pc[1] /\ i = pc[2] /\ c = code[f]
                              /\ args = c[i].args /\ a = args[j]
  OBVIOUS
<1>3. /\ phase = "run" /\ c[i].kind = "call" /\ Instruction.args = args
      /\ j \in DOMAIN args /\ a.kind # "temp"
  BY <1>1, <1>2 DEF At, Running, Instruction
<1>4. phase = "run"
  BY <1>3
<1>5. /\ c \in Seq(Instructions) /\ Body(c) /\ i \in 1..Len(c) /\ c[i] \in Instructions
      /\ ebp \in 1..Depth - 1 /\ Depth \in Nat /\ LocalCount \in Nat
  BY <1>1, <1>2, <1>3, Stands
<1>6. PICK h \in Nat : /\ Height(c, i, h) /\ esp = ebp - Reserved(f) - h
                       /\ Held(memory, ebp, esp, c, i, h)
  BY <1>4, <1>1, <1>2, PushedHere
<1>7. ~AfterCall(c, i) /\ h = Len(args) /\ \A k \in 1..h : c[i - k] = Push(args[k])
  <2>1. ~AfterCall(c, i) /\ Given(c, i, h, c[i].args)
    BY <1>3, <1>5, <1>6, Heights
  <2> QED
    BY <1>2, <2>1 DEF Given, Plain
<1>8. args \in Seq(Operands) /\ j \in 1..h /\ a \in Operands
  <2>1. args \in Seq(Operands)
    BY <1>2, <1>3, <1>5, InstructionShape
  <2> QED
    BY <1>2, <1>3, <1>7, <2>1
<1>9. c[i - j] = Push(a)
  BY <1>2, <1>7, <1>8
<1>10. memory[esp + j - 1] = Denoted(memory, ebp, a)
  <2>1. c[i - j].source = a
    BY <1>9 DEF Push
  <2> QED
    BY <1>3, <1>6, <1>7, <1>8, <2>1 DEF Held
<1>11. Fetched(a) = Denoted(memory, ebp, a)
  <2>1. CASE a.kind = "constant"
    BY <2>1 DEF Fetched, Denoted
  <2>2. CASE a.kind = "local"
    <3>1. a.of \in 1..LocalCount /\ ebp \in Int
      BY <1>5, <1>8, <2>2, OperandShape
    <3>2. FrameAddress(ebp, a) = ebp - a.of
      BY <1>5, <2>2, <3>1 DEF FrameAddress
    <3> QED
      BY <2>2, <3>2 DEF Fetched, Denoted
  <2> QED
    BY <1>3, <1>8, <2>1, <2>2, OperandShape
<1> QED
  BY <1>2, <1>3, <1>10, <1>11

-----------------------------------------------------------------------------
(* The theorems.                                                            *)

\* The invariant holds at first.
LEMMA InitIInv == Init => IInv
<1>1. SUFFICES ASSUME Init PROVE IInv
  OBVIOUS
<1>2. PICK none : none = <<>>
  OBVIOUS
<1>3. /\ phase = "translate" /\ current = 1 /\ open = none
      /\ temps = [f \in Functions |-> 0] /\ pushed = 0
      /\ code = [f \in Functions |-> none] /\ program = [f \in Functions |-> none]
      /\ tokens = 0 /\ pc = <<"startup", 1>> /\ esp = Outside /\ ebp = Outside
      /\ memory = [a \in Addresses |-> Garbage] /\ received = none
  BY <1>1, <1>2 DEF Init
<1>4. Len(none) = 0 /\ \A S : none \in Seq(S)
  BY <1>2
<1>5. /\ \A max : Bounded(none, max) /\ Small(none, max)
      /\ Enclosed(none, 0) /\ Body(none)
  BY <1>4 DEF Bounded, Enclosed, Body, Small
<1>6. TypeInv
  <2>1. 0 <= 0 * Step
    BY StepIsNat
  <2>2. temps \in [Functions -> Nat] /\ \A f \in Functions : temps[f] <= tokens * Step
    BY <1>3, <2>1
  <2>3. code \in [Functions -> Seq(Instructions)]
    BY <1>3, <1>4
  <2>4. current \in 1..Len(Order) + 1 /\ tokens \in 0..MaxTokens /\ pushed \in 0..tokens
    BY <1>3, OrderIsInjective, StepIsNat
  <2> QED
    BY <1>2, <1>3, <1>5, <2>2, <2>3, <2>4 DEF TypeInv
<1>7. TranslationInv
  <2>1. PendingArgs = none
    BY <1>2, <1>3 DEF PendingArgs
  <2>2. Pending(none, 0, none)
    <3>1. Pushes(none, 1, 0)
      BY DEF Pushes
    <3> QED
      BY <1>4, <3>1 DEF Pending, Given
  <2>3. \A j \in 1..Len(Order) : Order[j] \in Functions /\ code[Order[j]] = none
    BY <1>3, OrderIsInjective
  <2>4. Fn \in Functions /\ code[Fn] = none
    BY <1>3, OrderIsInjective, <2>3 DEF Fn
  <2>5. \A f \in Functions : Body(code[f]) /\ Small(code[f], temps[f])
    BY <1>3, <1>5
  <2>6. current <= Len(Order) /\ \A j \in 1..Len(Order) : ~(j < current)
    BY <1>3, OrderIsInjective
  <2> QED
    BY <1>2, <1>3, <1>4, <1>5, <2>1, <2>2, <2>3, <2>4, <2>5, <2>6 DEF TranslationInv
<1>8. RunInv /\ StackInv
  BY <1>3 DEF RunInv, StackInv
<1>9. Registers
  <2>1. none \in Seq({}) /\ \A x \in {} : x.fn \in Externals
    BY <1>4
  <2> QED
    BY <1>3, <2>1 DEF Registers
<1> QED
  BY <1>6, <1>7, <1>8, <1>9 DEF IInv

\* Every step preserves the invariant.
LEMMA NextIInv == IInv /\ [Next]_vars => IInv'
<1>1. SUFFICES ASSUME IInv, [Next]_vars PROVE IInv'
  OBVIOUS
<1>2. CASE Translate
  BY <1>1, <1>2, KeepsTranslate
<1>3. CASE StartProgram
  BY <1>1, <1>3, KeepsStartProgram
<1>4. CASE Assign
  BY <1>1, <1>4, KeepsAssign
<1>5. CASE FunctionArg
  BY <1>1, <1>5, KeepsFunctionArg
<1>6. CASE FunctionCall
  BY <1>1, <1>6, KeepsFunctionCall
<1>7. CASE ExternalCall
  BY <1>1, <1>7, KeepsExternalCall
<1>8. CASE PopArguments
  BY <1>1, <1>8, KeepsPopArguments
<1>9. CASE Return
  BY <1>1, <1>9, KeepsReturn
<1>10. CASE Overflow
  BY <1>1, <1>10, KeepsOverflow
<1>11. CASE UNCHANGED vars
  <2>1. UNCHANGED phase /\ UNCHANGED translating /\ UNCHANGED running
    BY <1>11 DEF vars
  <2>2. TypeInv /\ TranslationInv
    BY <1>1 DEF IInv
  <2>3. TypeInv' /\ TranslationInv' /\ code' = code /\ temps' = temps /\ current' = current
    BY <2>1, <2>2, CodeStays DEF TypeInv
  <2>4. /\ pc' = pc /\ esp' = esp /\ ebp' = ebp /\ memory' = memory /\ received' = received
    BY <2>1 DEF running
  <2>5. RunInv'
    BY <1>1, <2>1, <2>3, <2>4 DEF IInv, RunInv, Reserved, Space
  <2>6. StackInv'
    <3>1. \A f, j, gap : Resumes(f, j, gap)' = Resumes(f, j, gap)
      BY <2>3 DEF Resumes, Reserved, Space
    <3>2. ASSUME NEW m, NEW b, NEW g, Chain(memory, m, b, g) PROVE Chain(memory, m, b, g)'
      BY <2>4, <3>1, <3>2 DEF Chain
    <3>3. ChainTo(memory, ebp, pc[1]) => ChainTo(memory, ebp, pc[1])'
      BY <2>4, <3>2 DEF ChainTo
    <3> QED
      BY <1>1, <2>1, <3>3 DEF IInv, StackInv
  <2>7. Registers'
    BY <1>1, <2>1, <2>4 DEF IInv, Registers, Outside, Addresses
  <2> QED
    BY <2>3, <2>5, <2>6, <2>7 DEF IInv
<1> QED
  BY <1>1, <1>2, <1>3, <1>4, <1>5, <1>6, <1>7, <1>8, <1>9, <1>10, <1>11 DEF Next, Run

\* The state is well formed: %esp and %ebp stay on the stack, and no more
\* arguments are counted than a call can have (x86.c:53 and 109-147).
THEOREM TypeCorrect == Spec => []TypeOK
<1>1. IInv => TypeOK
  <2>1. SUFFICES ASSUME IInv PROVE TypeOK
    OBVIOUS
  <2>2. TypeInv /\ TranslationInv /\ Registers
    BY <2>1 DEF IInv
  <2>3. PICK o, n : o = open /\ n = Len(open)
    OBVIOUS
  <2>4. /\ o \in Seq(OpenCalls) /\ n \in Nat /\ DOMAIN o = 1..n
        /\ \A i \in 1..n : o[i].left + Len(o[i].args) <= MaxArgs
    BY <2>2, <2>3 DEF TypeInv, Bounded
  <2>5. ASSUME NEW i \in DOMAIN open
        PROVE  /\ open[i].callee \in Functions \cup Externals
               /\ open[i].left + Len(open[i].args) <= MaxArgs
               /\ open[i].result \in TempNumbers
    <3>1. i \in 1..n /\ o[i] \in OpenCalls
      BY <2>3, <2>4
    <3> QED
      BY <2>3, <2>4, <3>1 DEF OpenCalls, Callees
  <2>6. temps \in [Functions -> {0} \cup TempNumbers]
    <3>1. PICK s, t : s = Step /\ t = tokens
      OBVIOUS
    <3>2. s \in Nat /\ t \in Nat /\ t <= MaxTokens /\ MaxTokens \in Nat
      BY <2>2, <3>1, StepIsNat DEF TypeInv
    <3>3. t * s <= MaxTokens * s /\ t * s \in Nat /\ MaxTokens * s \in Nat
      BY <3>2, Products
    <3>4. \A f \in Functions : temps[f] \in Nat /\ temps[f] <= t * s
      BY <2>2, <3>1 DEF TypeInv
    <3>5. TempNumbers = 1..MaxTokens * s
      BY <3>1 DEF TempNumbers, Step
    <3>6. \A f \in Functions : temps[f] \in {0} \cup TempNumbers
      BY <3>3, <3>4, <3>5
    <3> QED
      BY <2>2, <3>6 DEF TypeInv
  <2>7. pushed \in 0..(IF CallBeforeArgument THEN MaxTokens ELSE MaxArgs)
    <3>1. CASE Plain
      <4>1. CASE open = <<>>
        BY <2>2, <4>1, <3>1, StepIsNat DEF TranslationInv, Plain
      <4>2. CASE open # <<>>
        <5>1. n \in 1..n /\ o[n] \in OpenCalls
          BY <2>3, <2>4, <4>2
        <5>2. PICK a : a = o[n].args
          OBVIOUS
        <5>3. a \in Seq(Operands) /\ o[n].left \in Nat /\ PendingArgs = a
          BY <2>3, <4>2, <5>1, <5>2 DEF PendingArgs, Innermost, OpenCalls
        <5>4. pushed = Len(a)
          BY <2>2, <3>1, <4>2, <5>3 DEF TranslationInv, Pending, Given
        <5>5. o[n].left + Len(a) <= MaxArgs
          BY <2>4, <5>1, <5>2
        <5>6. pushed \in 0..MaxArgs
          BY <5>3, <5>4, <5>5, StepIsNat
        <5> QED
          BY <3>1, <5>6 DEF Plain
      <4> QED
        BY <4>1, <4>2
    <3>2. CASE ~Plain
      <4>1. pushed \in 0..tokens /\ tokens \in 0..MaxTokens
        BY <2>2 DEF TypeInv
      <4>2. pushed \in 0..MaxTokens
        BY <4>1, StepIsNat
      <4> QED
        BY <3>2, <4>2, ShapeAssumption DEF Plain
    <3> QED
      BY <3>1, <3>2
  <2>8. ASSUME NEW f \in Functions, NEW i \in DOMAIN code[f]
        PROVE  code[f][i].kind \in {"assign", "pushl", "call", "addl", "return"}
    <3>1. code[f] \in Seq(Instructions)
      BY <2>2 DEF TypeInv
    <3>2. code[f][i] \in Instructions
      BY <3>1
    <3> QED
      BY <3>2, InstructionShape
  <2>9. \A i \in DOMAIN received : received[i].fn \in Externals
    <3>1. PICK S : received \in Seq(S) /\ \A x \in S : x.fn \in Externals
      BY <2>2 DEF Registers
    <3>2. \A i \in DOMAIN received : received[i] \in S
      BY <3>1
    <3> QED
      BY <3>1, <3>2
  <2> QED
    BY <2>2, <2>5, <2>6, <2>7, <2>8, <2>9 DEF TypeOK, TypeInv, Registers
<1>2. IInv /\ [Next]_vars => IInv'
  BY NextIInv
<1> QED
  BY <1>1, <1>2, InitIInv, PTL DEF Spec

\* What is pushed is popped: at each return %esp is where the preamble left it,
\* and no pushed argument is left over for a later call or the next function
\* (x86.c:53 and 109-118).
THEOREM PushedIsPopped == Spec => []StackBalanced
<1>1. IInv => StackBalanced
  <2>1. SUFFICES ASSUME IInv PROVE StackBalanced
    OBVIOUS
  <2>2. ASSUME At("return") PROVE esp = ebp - Reserved(pc[1])
    <3>1. PICK f, i, c : f = pc[1] /\ i = pc[2] /\ c = code[f]
      OBVIOUS
    <3>2. phase = "run" /\ c[i].kind = "return"
      BY <2>2, <3>1 DEF At, Running, Instruction
    <3>3. /\ c \in Seq(Instructions) /\ Body(c) /\ i \in 1..Len(c)
          /\ ebp \in 1..Depth - 1 /\ Depth \in Nat /\ Reserved(f) \in Nat
      BY <2>1, <3>1, <3>2, Stands
    <3>4. PICK h \in Nat : /\ Height(c, i, h) /\ esp = ebp - Reserved(f) - h
                           /\ Held(memory, ebp, esp, c, i, h)
      BY <2>1, <3>1, <3>2, PushedHere
    <3>5. h = 0
      <4>1. Body(c) /\ Height(c, i, h)
        BY <3>3, <3>4
      <4>2. c[i].kind \in {"assign", "return"} => ~AfterCall(c, i) /\ h = 0
        BY <3>3, <4>1, Heights
      <4> QED
        BY <3>2, <4>2
    <3> QED
      BY <3>1, <3>3, <3>4, <3>5
  <2>3. ASSUME AtStatement PROVE pushed = 0
    BY <2>1, <2>3 DEF AtStatement, IInv, TranslationInv
  <2> QED
    BY <2>2, <2>3 DEF StackBalanced
<1>2. IInv /\ [Next]_vars => IInv'
  BY NextIInv
<1> QED
  BY <1>1, <1>2, InitIInv, PTL DEF Spec

\* The arguments of a call are on top of the stack, the first one at %esp, when
\* the call executes (translators.c:519-575), where no call is an argument with
\* others behind it: the call would pop those (x86.c:111).
THEOREM ArgumentsAreOnTop ==
  ASSUME CallBeforeArgument = FALSE
  PROVE  Spec => []ArgumentsArrive
<1>1. IInv => ArgumentsArrive
  BY ArgumentsHere DEF Plain
<1>2. IInv /\ [Next]_vars => IInv'
  BY NextIInv
<1> QED
  BY <1>1, <1>2, InitIInv, PTL DEF Spec

-----------------------------------------------------------------------------
(* Calls implements Activations.  The operations of the source are those of *)
(* the printed code, in its order (ReadInv); every frame on the stack is an *)
(* activation, and its words keep the activation as it is until the frame   *)
(* is left (Same, OlderKept); a step of the execution is then a step of the *)
(* last activation or none.                                                 *)

-----------------------------------------------------------------------------
(* What is read and what is printed for it.                                 *)

\* A call's result, when it is the argument of another call, is not named.
ArgumentsRead(args) ==
  [i \in DOMAIN args |->
     IF args[i].kind = "temp" THEN Operand("result", Result) ELSE args[i]]

OperationOf(x) ==
  IF x.kind = "assign" THEN [kind |-> "store", local |-> x.local, value |-> x.value]
  ELSE [kind |-> "call", callee |-> x.callee, args |-> ArgumentsRead(x.args)]

\* ops are the operations that the instructions of c were printed for.
Reads(c, ops) ==
  /\ \E S : ops \in Seq(S)
  /\ Len(ops) = OperationsBefore(c, Len(c) + 1)
  /\ \A i \in 1..Len(c) :
       IsOperation(c[i]) => ops[1 + OperationsBefore(c, i)] = OperationOf(c[i])

\* No pseudoregister beyond max is pushed.
TempsBelow(c, max) ==
  \A i \in 1..Len(c) :
    c[i].kind = "pushl" /\ c[i].source.kind = "temp" => c[i].source.of \in 1..max

ResultsBelow(o, max) == \A i \in 1..Len(o) : o[i].result \in 1..max

ReadInv ==
  /\ \A f \in Functions : Reads(code[f], program[f]) /\ TempsBelow(code[f], temps[f])
  /\ ResultsBelow(open, temps[Fn])

\* The values of the program are all that can be seen of the stack.
Content == {Garbage} \cup {Value(v) : v \in Values}
Seen(words) == \A a \in Addresses : Visible(words[a]) \in Content

-----------------------------------------------------------------------------
(* Counting operations.                                                     *)
LEMMA OperationCounts ==
  ASSUME NEW c, NEW i \in Nat \ {0}
  PROVE  /\ OperationsBefore(c, i) \in Nat
         /\ IsOperation(c[i]) => OperationsBefore(c, i + 1) = OperationsBefore(c, i) + 1
         /\ ~IsOperation(c[i]) => OperationsBefore(c, i + 1) = OperationsBefore(c, i)
<1>1. PICK P, Q : /\ P = {j \in 1..i - 1 : IsOperation(c[j])}
                  /\ Q = {j \in 1..i + 1 - 1 : IsOperation(c[j])}
  OBVIOUS
<1>2. Cardinality(P) = OperationsBefore(c, i) /\ Cardinality(Q) = OperationsBefore(c, i + 1)
  BY <1>1 DEF OperationsBefore
<1>3. IsFiniteSet(P)
  <2>1. IsFiniteSet(1..i - 1) /\ P \subseteq 1..i - 1
    BY <1>1, FS_Interval
  <2> QED
    BY <2>1, FS_Subset
<1>4. Cardinality(P) \in Nat
  BY <1>3, FS_CardinalityType
<1>5. CASE IsOperation(c[i])
  <2>1. Q = P \cup {i} /\ i \notin P
    BY <1>1, <1>5
  <2> QED
    BY <1>2, <1>3, <1>4, <1>5, <2>1, FS_AddElement
<1>6. CASE ~IsOperation(c[i])
  <2>1. Q = P
    BY <1>1, <1>6
  <2> QED
    BY <1>2, <1>4, <1>6, <2>1
<1> QED
  BY <1>2, <1>4, <1>5, <1>6

\* The first instruction has no operation in front of it.
LEMMA NoneBefore ==
  ASSUME NEW c
  PROVE  OperationsBefore(c, 1) = 0
<1>1. {j \in 1..1 - 1 : IsOperation(c[j])} = {}
  OBVIOUS
<1> QED
  BY <1>1, FS_EmptySet DEF OperationsBefore

\* How many there are in front of an instruction depends on nothing behind it.
LEMMA SameBefore ==
  ASSUME NEW c, NEW d, NEW i \in Nat, \A j \in 1..i - 1 : c[j] = d[j]
  PROVE  OperationsBefore(d, i) = OperationsBefore(c, i)
<1>1. {j \in 1..i - 1 : IsOperation(c[j])} = {j \in 1..i - 1 : IsOperation(d[j])}
  OBVIOUS
<1> QED
  BY <1>1 DEF OperationsBefore

\* No operation is counted twice: the count climbs with every one.
LEMMA CountClimbs ==
  ASSUME NEW c \in Seq(Instructions), NEW d, NEW x, Longer(c, d, x), NEW n, n = Len(c)
  PROVE  /\ n \in Nat
         /\ \A i \in 1..n + 1 : OperationsBefore(d, i) = OperationsBefore(c, i)
         /\ OperationsBefore(d, n + 2) =
              IF IsOperation(x) THEN OperationsBefore(c, n + 1) + 1 ELSE OperationsBefore(c, n + 1)
<1>1. /\ n \in Nat /\ Len(d) = n + 1 /\ \A i \in 1..n : d[i] = c[i]
      /\ d[n + 1] = x
  BY DEF Longer
<1>2. ASSUME NEW i \in 1..n + 1 PROVE OperationsBefore(d, i) = OperationsBefore(c, i)
  <2>1. i \in Nat /\ \A j \in 1..i - 1 : c[j] = d[j]
    BY <1>1
  <2> QED
    BY <2>1, SameBefore
<1>3. n + 1 \in Nat \ {0} /\ n + 1 \in 1..n + 1 /\ n + 1 + 1 = n + 2
  BY <1>1
<1>4. OperationsBefore(d, n + 2) =
        IF IsOperation(d[n + 1]) THEN OperationsBefore(d, n + 1) + 1 ELSE OperationsBefore(d, n + 1)
  BY <1>3, OperationCounts
<1> QED
  BY <1>1, <1>2, <1>3, <1>4

\* The operation of an instruction is one of those in front of every later one.
LEMMA CountInside ==
  ASSUME NEW c, NEW n \in Nat, NEW i \in 1..n, IsOperation(c[i])
  PROVE  1 + OperationsBefore(c, i) \in 1..OperationsBefore(c, n + 1)
<1>1. PICK P, Q : /\ P = {j \in 1..i - 1 : IsOperation(c[j])}
                  /\ Q = {j \in 1..n + 1 - 1 : IsOperation(c[j])}
  OBVIOUS
<1>2. Cardinality(P) = OperationsBefore(c, i) /\ Cardinality(Q) = OperationsBefore(c, n + 1)
  BY <1>1 DEF OperationsBefore
<1>3. IsFiniteSet(Q) /\ P \cup {i} \subseteq Q /\ i \notin P
  <2>1. IsFiniteSet(1..n + 1 - 1) /\ Q \subseteq 1..n + 1 - 1
    BY <1>1, FS_Interval
  <2> QED
    BY <1>1, <2>1, FS_Subset
<1>4. IsFiniteSet(P) /\ Cardinality(P \cup {i}) <= Cardinality(Q)
  BY <1>3, FS_Subset
<1>5. Cardinality(P \cup {i}) = Cardinality(P) + 1
  BY <1>3, <1>4, FS_AddElement
<1>6. Cardinality(P) \in Nat /\ Cardinality(Q) \in Nat
  BY <1>3, <1>4, FS_CardinalityType
<1> QED
  BY <1>2, <1>4, <1>5, <1>6

\* A push, a pop or a return is no operation ...
LEMMA ReadsQuiet ==
  ASSUME NEW c \in Seq(Instructions), NEW d, NEW x, Longer(c, d, x), ~IsOperation(x),
         NEW ops, Reads(c, ops)
  PROVE  Reads(d, ops)
<1>1. PICK n : n = Len(c)
  OBVIOUS
<1>2. /\ n \in Nat
      /\ \A i \in 1..n + 1 : OperationsBefore(d, i) = OperationsBefore(c, i)
      /\ OperationsBefore(d, n + 2) = OperationsBefore(c, n + 1)
  BY <1>1, CountClimbs
<1>3. Len(d) = n + 1 /\ (\A i \in 1..n : d[i] = c[i]) /\ d[n + 1] = x
  BY <1>1 DEF Longer
<1>4. /\ \E S : ops \in Seq(S)
      /\ Len(ops) = OperationsBefore(c, n + 1)
      /\ \A i \in 1..n :
           IsOperation(c[i]) => ops[1 + OperationsBefore(c, i)] = OperationOf(c[i])
  BY <1>1 DEF Reads
<1>5. Len(ops) = OperationsBefore(d, Len(d) + 1)
  <2>1. Len(d) + 1 = n + 2
    BY <1>2, <1>3
  <2> QED
    BY <1>2, <1>4, <2>1
<1>6. ASSUME NEW i \in 1..Len(d), IsOperation(d[i])
      PROVE  ops[1 + OperationsBefore(d, i)] = OperationOf(d[i])
  <2>1. i \in 1..n + 1 /\ i # n + 1
    BY <1>2, <1>3, <1>6
  <2>2. i \in 1..n /\ d[i] = c[i] /\ OperationsBefore(d, i) = OperationsBefore(c, i)
    BY <1>2, <1>3, <2>1
  <2> QED
    BY <1>4, <1>6, <2>2
<1> QED
  BY <1>4, <1>5, <1>6 DEF Reads

\* ... and an assignment or a call is one more.
LEMMA ReadsOne ==
  ASSUME NEW c \in Seq(Instructions), NEW d, NEW x, Longer(c, d, x), IsOperation(x),
         NEW ops, Reads(c, ops), NEW more, more = Append(ops, OperationOf(x))
  PROVE  Reads(d, more)
<1>1. PICK n : n = Len(c)
  OBVIOUS
<1>2. /\ n \in Nat
      /\ \A i \in 1..n + 1 : OperationsBefore(d, i) = OperationsBefore(c, i)
      /\ OperationsBefore(d, n + 2) = OperationsBefore(c, n + 1) + 1
  BY <1>1, CountClimbs
<1>3. Len(d) = n + 1 /\ (\A i \in 1..n : d[i] = c[i]) /\ d[n + 1] = x
  BY <1>1 DEF Longer
<1>4. /\ \E S : ops \in Seq(S)
      /\ Len(ops) = OperationsBefore(c, n + 1)
      /\ \A i \in 1..n :
           IsOperation(c[i]) => ops[1 + OperationsBefore(c, i)] = OperationOf(c[i])
  BY <1>1 DEF Reads
<1>5. PICK op, l : op = OperationOf(x) /\ l = Len(ops)
  OBVIOUS
<1>6. PICK S : ops \in Seq(S) /\ op \in S
  <2>1. PICK R : ops \in Seq(R)
    BY <1>4
  <2>2. PICK S : S = R \cup {op}
    OBVIOUS
  <2>3. ops \in Seq(S)
    BY <2>1, <2>2, SeqMonotonic
  <2> QED
    BY <2>2, <2>3
<1>7. /\ more \in Seq(S) /\ Len(more) = l + 1 /\ more[l + 1] = op /\ l \in Nat
      /\ \A k \in 1..l : more[k] = ops[k]
  BY <1>5, <1>6, AppendProperties
<1>8. Len(more) = OperationsBefore(d, Len(d) + 1)
  <2>1. Len(d) + 1 = n + 2
    BY <1>2, <1>3
  <2> QED
    BY <1>2, <1>4, <1>5, <1>7, <2>1
<1>9. ASSUME NEW i \in 1..Len(d), IsOperation(d[i])
      PROVE  more[1 + OperationsBefore(d, i)] = OperationOf(d[i])
  <2>1. CASE i = n + 1
    <3>1. OperationsBefore(d, i) = l
      BY <1>2, <1>4, <1>5, <2>1
    <3>2. 1 + l = l + 1
      BY <1>7
    <3> QED
      BY <1>3, <1>5, <1>7, <2>1, <3>1, <3>2
  <2>2. CASE i # n + 1
    <3>1. i \in 1..n /\ i \in 1..n + 1
      BY <1>2, <1>3, <2>2
    <3>2. d[i] = c[i] /\ OperationsBefore(d, i) = OperationsBefore(c, i)
      BY <1>2, <1>3, <3>1
    <3>3. 1 + OperationsBefore(c, i) \in 1..l
      BY <1>1, <1>4, <1>5, <1>9, <3>1, <3>2, CountInside
    <3> QED
      BY <1>4, <1>7, <1>9, <3>1, <3>2, <3>3
  <2> QED
    BY <2>1, <2>2
<1> QED
  BY <1>6, <1>7, <1>8, <1>9 DEF Reads

-----------------------------------------------------------------------------
(* Each action of the translation keeps what was read with what is printed. *)

\* More pseudoregisters are allocated, those that are pushed are among them.
LEMMA BelowMore ==
  ASSUME NEW c, NEW a \in Nat, NEW b \in Nat, a <= b, TempsBelow(c, a)
  PROVE  TempsBelow(c, b)
<1>1. ASSUME NEW i \in 1..Len(c), c[i].kind = "pushl", c[i].source.kind = "temp"
      PROVE  c[i].source.of \in 1..b
  <2>1. PICK w : w = c[i].source.of /\ w \in 1..a
    BY <1>1 DEF TempsBelow
  <2> QED
    BY <2>1
<1> QED
  BY <1>1 DEF TempsBelow

\* Another argument of an open call does not change its result.
LEMMA ResultsTaken ==
  ASSUME NEW o \in Seq(OpenCalls), NEW m \in 1..Len(o), NEW x, NEW max,
         ResultsBelow(o, max), NEW q, q = Taken(o, m, x)
  PROVE  ResultsBelow(q, max)
<1>1. PICK y, f : y = ArgumentAdded(o[m], x) /\ f = SubSeq(o, 1, m - 1)
  OBVIOUS
<1>2. y.result = o[m].result
  BY <1>1 DEF ArgumentAdded, Call
<1>3. PICK S : S = OpenCalls \cup {y}
  OBVIOUS
<1>4. f \in Seq(OpenCalls) /\ Len(f) = m - 1 /\ \A i \in 1..m - 1 : f[i] = o[i]
  BY <1>1
<1>5. f \in Seq(S)
  BY <1>3, <1>4, SeqMonotonic
<1>6. q = Append(f, y)
  BY <1>1 DEF Taken
<1>7. Len(q) = m /\ q[m] = y /\ \A i \in 1..m - 1 : q[i] = f[i]
  <2>1. Len(q) = m - 1 + 1 /\ q[m - 1 + 1] = y /\ \A i \in 1..m - 1 : q[i] = f[i]
    BY <1>3, <1>4, <1>5, <1>6, AppendProperties
  <2> QED
    BY <2>1
<1>8. \A i \in 1..Len(o) : o[i].result \in 1..max
  BY DEF ResultsBelow
<1>9. ASSUME NEW i \in 1..m PROVE q[i].result \in 1..max
  <2>1. CASE i = m
    BY <1>2, <1>7, <1>8, <2>1
  <2>2. CASE i # m
    <3>1. i \in 1..m - 1 /\ i \in 1..Len(o)
      BY <2>2
    <3> QED
      BY <1>4, <1>7, <1>8, <3>1
  <2> QED
    BY <2>1, <2>2
<1> QED
  BY <1>7, <1>9 DEF ResultsBelow

\* Code that gets longer by a push pushes an allocated pseudoregister.
LEMMA BelowLonger ==
  ASSUME NEW c \in Seq(Instructions), NEW d, NEW x, Longer(c, d, x),
         NEW a \in Nat, NEW b \in Nat, a <= b, TempsBelow(c, a),
         x.kind = "pushl" /\ x.source.kind = "temp" => x.source.of \in 1..b
  PROVE  TempsBelow(d, b)
<1>1. PICK n : n = Len(c)
  OBVIOUS
<1>2. /\ n \in Nat /\ Len(d) = n + 1 /\ d[n + 1] = x /\ \A i \in 1..n : d[i] = c[i]
  BY <1>1 DEF Longer
<1>3. ASSUME NEW i \in 1..Len(d), d[i].kind = "pushl", d[i].source.kind = "temp"
      PROVE  d[i].source.of \in 1..b
  <2>1. CASE i = n + 1
    BY <1>2, <1>3, <2>1
  <2>2. CASE i # n + 1
    <3>1. i \in 1..n /\ d[i] = c[i]
      BY <1>2, <2>2
    <3>2. c[i].source.of \in 1..a
      BY <1>1, <1>3, <3>1 DEF TempsBelow
    <3>3. PICK w : w = d[i].source.of /\ w \in 1..a
      BY <3>1, <3>2
    <3> QED
      BY <3>3
  <2> QED
    BY <2>1, <2>2
<1> QED
  BY <1>3 DEF TempsBelow

\* The results of open calls stay allocated.
LEMMA ResultsMore ==
  ASSUME NEW o, NEW a \in Nat, NEW b \in Nat, a <= b, ResultsBelow(o, a)
  PROVE  ResultsBelow(o, b)
<1>1. ASSUME NEW i \in 1..Len(o) PROVE o[i].result \in 1..b
  <2>1. PICK w : w = o[i].result /\ w \in 1..a
    BY DEF ResultsBelow
  <2> QED
    BY <2>1
<1> QED
  BY <1>1 DEF ResultsBelow

\* What is left to show of such an action.
LEMMA ReadDone ==
  ASSUME TypeInv, ReadInv, current <= Len(Order),
         NEW fn, fn = Fn, NEW s, code' = [code EXCEPT ![fn] = @ \o s],
         NEW more, program'[fn] = more, \A f \in Functions : f # fn => program'[f] = program[f],
         Reads(code[fn] \o s, more), TempsBelow(code[fn] \o s, temps'[fn]),
         temps' \in [Functions -> Nat], \A f \in Functions : temps[f] <= temps'[f],
         ResultsBelow(open', (temps[Fn])')
  PROVE  ReadInv'
<1>1. fn \in Functions /\ temps \in [Functions -> Nat] /\ DOMAIN code = Functions
  BY OrderIsInjective DEF TypeInv, Fn
<1>2. code'[fn] = code[fn] \o s
  BY <1>1
<1>3. ASSUME NEW f \in Functions
      PROVE  Reads(code'[f], program'[f]) /\ TempsBelow(code'[f], temps'[f])
  <2>1. CASE f = fn
    BY <1>2, <2>1
  <2>2. CASE f # fn
    <3>1. code'[f] = code[f] /\ program'[f] = program[f]
      BY <1>1, <2>2
    <3>2. Reads(code[f], program[f]) /\ TempsBelow(code[f], temps[f])
      BY DEF ReadInv
    <3>3. temps[f] \in Nat /\ temps'[f] \in Nat /\ temps[f] <= temps'[f]
      BY <1>1
    <3>4. TempsBelow(code[f], temps'[f])
      BY <3>2, <3>3, BelowMore
    <3> QED
      BY <3>1, <3>2, <3>4
  <2> QED
    BY <2>1, <2>2
<1> QED
  BY <1>3 DEF ReadInv

\* An assignment is read and printed.
LEMMA ReadAssignment ==
  ASSUME TypeInv, TranslationInv, ReadInv,
         NEW k \in 1..LocalCount, NEW v \in Values, Assignment(k, v)
  PROVE  ReadInv'
<1>1. /\ current <= Len(Order) /\ open = <<>> /\ open' = open
      /\ temps' = [temps EXCEPT ![Fn] = @ + 1]
  BY DEF Assignment, AtStatement, Translating, NewTemps
<1>2. PICK fn, x, s, t : /\ fn = Fn /\ t = temps[Fn] + 1
                         /\ x = [kind |-> "assign", local |-> k, value |-> Value(v), temp |-> t]
                         /\ s = <<x>>
  OBVIOUS
<1>3. PICK more : more = Append(program[fn], OperationOf(x))
  OBVIOUS
<1>4. /\ code' = [code EXCEPT ![fn] = @ \o s] /\ program'[fn] = more
      /\ \A f \in Functions : f # fn => program'[f] = program[f]
  <2>1. code' = [code EXCEPT ![fn] = @ \o s]
    BY <1>2 DEF Assignment, Emit
  <2>2. OperationOf(x) = [kind |-> "store", local |-> k, value |-> Value(v)]
    BY <1>2 DEF OperationOf
  <2>3. program' = [program EXCEPT ![Fn] =
                      Append(@, [kind |-> "store", local |-> k, value |-> Value(v)])]
    BY DEF Assignment, Evaluate
  <2>4. fn \in Functions /\ DOMAIN program = Functions
    BY <1>1, <1>2, OrderIsInjective DEF TypeInv, Fn
  <2>5. program' = [program EXCEPT ![fn] = more]
    BY <1>2, <1>3, <2>2, <2>3
  <2> QED
    BY <2>1, <2>4, <2>5
<1>5. /\ fn \in Functions /\ temps \in [Functions -> Nat] /\ code[fn] \in Seq(Instructions)
  BY <1>1, <1>2, OrderIsInjective DEF TypeInv, Fn
<1>6. /\ temps' \in [Functions -> Nat] /\ \A f \in Functions : temps[f] <= temps'[f]
  BY <1>1, <1>2, <1>5
<1>7. x \in Instructions /\ x.kind = "assign"
  <2>1. t \in Nat \ {0}
    BY <1>2, <1>5
  <2> QED
    BY <1>2, <2>1 DEF Instructions
<1>8. s \in Seq(Instructions) /\ Len(s) = 1 /\ s[1] = x
  BY <1>2, <1>7
<1>9. Longer(code[fn], code[fn] \o s, x)
  BY <1>5, <1>8, LongerByOne
<1>10. Reads(code[fn] \o s, more)
  <2>1. Reads(code[fn], program[fn])
    BY <1>5 DEF ReadInv
  <2>2. IsOperation(x)
    BY <1>7 DEF IsOperation
  <2> QED
    BY <1>3, <1>5, <1>9, <2>1, <2>2, ReadsOne
<1>11. TempsBelow(code[fn] \o s, temps'[fn])
  <2>1. TempsBelow(code[fn], temps[fn])
    BY <1>5 DEF ReadInv
  <2>2. temps[fn] \in Nat /\ temps'[fn] \in Nat /\ temps[fn] <= temps'[fn]
    BY <1>5, <1>6
  <2> QED
    BY <1>5, <1>7, <1>9, <2>1, <2>2, BelowLonger
<1>12. ResultsBelow(open', (temps[Fn])')
  BY <1>1 DEF ResultsBelow
<1> QED
  BY <1>1, <1>2, <1>4, <1>6, <1>10, <1>11, <1>12, ReadDone

\* An argument is printed and part of an operation to come.
LEMMA ReadArgument ==
  ASSUME TypeInv, TranslationInv, ReadInv, NEW x \in Operands, Argument(x),
         x.kind # "temp"
  PROVE  ReadInv'
<1>1. /\ current <= Len(Order) /\ open # <<>> /\ Innermost.left > 0
      /\ temps' = temps /\ program' = program /\ current' = current
      /\ open' = Append(Enclosing, ArgumentAdded(Innermost, x))
  BY DEF Argument, AtArgument, Translating
<1>2. PICK fn, p, s : fn = Fn /\ p = Push(x) /\ s = <<p>>
  OBVIOUS
<1>3. code' = [code EXCEPT ![fn] = @ \o s]
  BY <1>2 DEF Argument, Emit
<1>4. /\ fn \in Functions /\ temps \in [Functions -> Nat] /\ code[fn] \in Seq(Instructions)
  BY <1>1, <1>2, OrderIsInjective DEF TypeInv, Fn
<1>5. p \in Instructions /\ p.kind = "pushl" /\ p.source = x
  BY <1>2 DEF Push, Instructions
<1>6. s \in Seq(Instructions) /\ Len(s) = 1 /\ s[1] = p
  BY <1>2, <1>5
<1>7. Longer(code[fn], code[fn] \o s, p)
  BY <1>4, <1>6, LongerByOne
<1>8. Reads(code[fn] \o s, program[fn])
  <2>1. Reads(code[fn], program[fn])
    BY <1>4 DEF ReadInv
  <2>2. ~IsOperation(p)
    BY <1>5 DEF IsOperation
  <2> QED
    BY <1>4, <1>7, <2>1, <2>2, ReadsQuiet
<1>9. TempsBelow(code[fn] \o s, temps'[fn])
  <2>1. TempsBelow(code[fn], temps[fn])
    BY <1>4 DEF ReadInv
  <2>2. temps[fn] \in Nat /\ temps'[fn] = temps[fn]
    BY <1>1, <1>4
  <2> QED
    BY <1>4, <1>5, <1>7, <2>1, <2>2, BelowLonger
<1>10. ResultsBelow(open', (temps[Fn])')
  <2>1. PICK m, o, q : m = Len(open) /\ o = open /\ q = open'
    OBVIOUS
  <2>2. o \in Seq(OpenCalls) /\ m \in 1..Len(o) /\ m = Len(o) /\ q = Taken(o, m, x)
    <3>1. o \in Seq(OpenCalls)
      BY <2>1 DEF TypeInv, Bounded
    <3>2. m \in 1..Len(o) /\ m = Len(o)
      BY <1>1, <2>1, <3>1
    <3> QED
      BY <1>1, <2>1, <3>1, <3>2 DEF Enclosing, Innermost, Taken
  <2>3. ResultsBelow(o, temps[fn])
    BY <1>2, <2>1 DEF ReadInv
  <2>4. ResultsBelow(q, temps[fn])
    BY <2>2, <2>3, ResultsTaken
  <2>5. (temps[Fn])' = temps[fn]
    BY <1>1, <1>2 DEF Fn
  <2> QED
    BY <2>1, <2>4, <2>5
<1>11. /\ temps' \in [Functions -> Nat] /\ \A f \in Functions : temps[f] <= temps'[f]
  BY <1>1, <1>4
<1> QED
  BY <1>1, <1>2, <1>3, <1>8, <1>9, <1>10, <1>11, ReadDone

\* What only allocates or ends a function leaves both as they are.
LEMMA ReadBeginCall ==
  ASSUME TypeInv, TranslationInv, ReadInv, NEW f \in Callees, NEW n \in 0..MaxArgs,
         BeginCall(f, n)
  PROVE  ReadInv'
<1>1. current <= Len(Order) /\ current' = current /\ code' = code /\ program' = program
  BY DEF BeginCall, AtStatement, AtArgument, Translating
<1>2. PICK fn, k, r, o, q, y, old :
        /\ fn = Fn /\ k = 1 + Max0(n, 1) /\ old = temps[Fn] /\ r = old + 1
        /\ o = open /\ q = open' /\ y = Call(f, n, <<>>, r)
  OBVIOUS
<1>3. fn \in Functions /\ temps \in [Functions -> Nat] /\ old \in Nat
  BY <1>1, <1>2, OrderIsInjective DEF TypeInv, Fn
<1>4. temps' = [temps EXCEPT ![fn] = @ + k] /\ q = Append(o, y)
  BY <1>2 DEF BeginCall, NewTemps
<1>5. k \in Nat /\ k >= 2
  BY <1>2, StepIsNat DEF Max0
<1>6. \A g \in Functions : temps'[g] \in Nat /\ temps[g] <= temps'[g]
  BY <1>3, <1>4, <1>5
<1>7. temps'[fn] = old + k
  BY <1>2, <1>3, <1>4
<1>8. ASSUME NEW g \in Functions
      PROVE  Reads(code'[g], program'[g]) /\ TempsBelow(code'[g], temps'[g])
  <2>1. Reads(code[g], program[g]) /\ TempsBelow(code[g], temps[g])
    BY DEF ReadInv
  <2>2. temps[g] \in Nat /\ temps'[g] \in Nat /\ temps[g] <= temps'[g]
    BY <1>3, <1>6
  <2>3. TempsBelow(code[g], temps'[g])
    BY <2>1, <2>2, BelowMore
  <2> QED
    BY <1>1, <2>1, <2>3
<1>9. PICK m, S : m = Len(o) /\ S = OpenCalls \cup {y}
  OBVIOUS
<1>10. o \in Seq(OpenCalls)
  BY <1>2 DEF TypeInv, Bounded
<1>11. m \in Nat /\ Len(q) = m + 1 /\ q[m + 1] = y /\ \A i \in 1..m : q[i] = o[i]
  <2>1. o \in Seq(S) /\ y \in S
    BY <1>9, <1>10, SeqMonotonic
  <2> QED
    BY <1>4, <1>9, <2>1, AppendProperties
<1>12. \A i \in 1..m : o[i].result \in 1..old
  BY <1>2, <1>9 DEF ReadInv, ResultsBelow
<1>13. ResultsBelow(q, old + k)
  <2>1. ASSUME NEW i \in 1..m + 1 PROVE q[i].result \in 1..old + k
    <3>1. CASE i = m + 1
      <4>1. q[i].result = old + 1
        BY <1>2, <1>11, <3>1 DEF Call
      <4> QED
        BY <1>3, <1>5, <4>1
    <3>2. CASE i # m + 1
      <4>1. PICK w : w = q[i].result /\ w \in 1..old
        BY <1>11, <1>12, <3>2
      <4> QED
        BY <1>3, <1>5, <4>1
    <3> QED
      BY <3>1, <3>2
  <2> QED
    BY <1>11, <2>1 DEF ResultsBelow
<1>14. ResultsBelow(open', (temps[Fn])')
  <2>1. (temps[Fn])' = temps'[fn]
    BY <1>1, <1>2 DEF Fn
  <2> QED
    BY <1>2, <1>7, <1>13, <2>1
<1> QED
  BY <1>8, <1>14 DEF ReadInv

\* A return is printed, no operation is read.
LEMMA ReadEndFunction ==
  ASSUME TypeInv, TranslationInv, ReadInv, EndFunction
  PROVE  ReadInv'
<1>1. /\ current <= Len(Order) /\ open = <<>> /\ open' = <<>>
      /\ temps' = temps /\ program' = program
  BY DEF EndFunction, AtStatement, Translating
<1>2. PICK fn, x, s : fn = Fn /\ x = [kind |-> "return"] /\ s = <<x>>
  OBVIOUS
<1>3. code' = [code EXCEPT ![fn] = @ \o s]
  BY <1>2 DEF EndFunction, Emit
<1>4. /\ fn \in Functions /\ temps \in [Functions -> Nat] /\ code[fn] \in Seq(Instructions)
  BY <1>1, <1>2, OrderIsInjective DEF TypeInv, Fn
<1>5. x \in Instructions /\ x.kind = "return"
  BY <1>2 DEF Instructions
<1>6. s \in Seq(Instructions) /\ Len(s) = 1 /\ s[1] = x
  BY <1>2, <1>5
<1>7. Longer(code[fn], code[fn] \o s, x)
  BY <1>4, <1>6, LongerByOne
<1>8. Reads(code[fn] \o s, program[fn])
  <2>1. Reads(code[fn], program[fn])
    BY <1>4 DEF ReadInv
  <2>2. ~IsOperation(x)
    BY <1>5 DEF IsOperation
  <2> QED
    BY <1>4, <1>7, <2>1, <2>2, ReadsQuiet
<1>9. TempsBelow(code[fn] \o s, temps'[fn])
  <2>1. TempsBelow(code[fn], temps[fn])
    BY <1>4 DEF ReadInv
  <2>2. temps[fn] \in Nat /\ temps'[fn] = temps[fn]
    BY <1>1, <1>4
  <2> QED
    BY <1>4, <1>5, <1>7, <2>1, <2>2, BelowLonger
<1>10. ResultsBelow(open', (temps[Fn])')
  BY <1>1 DEF ResultsBelow
<1>11. /\ temps' \in [Functions -> Nat] /\ \A f \in Functions : temps[f] <= temps'[f]
  BY <1>1, <1>4
<1> QED
  BY <1>1, <1>2, <1>3, <1>8, <1>9, <1>10, <1>11, ReadDone

\* The call that is printed is the operation that was read.
LEMMA ReadEndCall ==
  ASSUME TypeInv, TranslationInv, ReadInv, EndCall
  PROVE  ReadInv'
<1>1. /\ current <= Len(Order) /\ open # <<>>
      /\ current' = current /\ temps' = temps
  BY DEF EndCall, Translating
<1>2. PICK fn, n, o, q, r, args, callee, h, x, y, s :
        /\ fn = Fn /\ n = Len(open) /\ o = open /\ q = open'
        /\ r = TempOperand(Innermost.result) /\ args = Innermost.args
        /\ callee = Innermost.callee /\ h = pushed
        /\ x = [kind |-> "call", callee |-> callee, args |-> args]
        /\ y = [kind |-> "addl", words |-> h] /\ s = <<x, y>>
  OBVIOUS
<1>3. PICK more : more = Append(program[fn], OperationOf(x))
  OBVIOUS
<1>4. /\ fn \in Functions /\ temps \in [Functions -> Nat] /\ code[fn] \in Seq(Instructions)
      /\ DOMAIN program = Functions
  BY <1>1, <1>2, OrderIsInjective DEF TypeInv, Fn
<1>5. /\ o \in Seq(OpenCalls) /\ n \in 1..Len(o) /\ n = Len(o) /\ n \in Nat
      /\ o[n] = Innermost /\ h \in Nat
  <2>1. o \in Seq(OpenCalls) /\ h \in Nat
    BY <1>2, StepIsNat DEF TypeInv, Bounded
  <2> QED
    BY <1>1, <1>2, <2>1 DEF Innermost
<1>6. /\ args \in Seq(Operands) /\ callee \in Callees
      /\ Innermost.result \in 1..temps[fn]
  <2>1. o[n] \in OpenCalls
    BY <1>5
  <2>2. ResultsBelow(o, temps[fn])
    BY <1>2 DEF ReadInv
  <2> QED
    BY <1>2, <1>5, <2>1, <2>2 DEF OpenCalls, ResultsBelow
<1>7. /\ r \in Operands /\ r.kind = "temp" /\ r.of \in 1..temps[fn]
  <2>1. PICK w : w = Innermost.result /\ w \in 1..temps[fn]
    BY <1>6
  <2>2. r = [kind |-> "temp", of |-> w] /\ w \in Nat
    BY <1>2, <1>4, <2>1 DEF TempOperand, Operand
  <2> QED
    BY <2>1, <2>2 DEF Operands
<1>8. x \in Instructions /\ y \in Instructions /\ x.kind = "call" /\ y.kind = "addl"
  BY <1>2, <1>5, <1>6 DEF Instructions
<1>9. program'[fn] = more /\ \A f \in Functions : f # fn => program'[f] = program[f]
  <2>1. OperationOf(x) = [kind |-> "call", callee |-> callee,
                          args |-> [i \in DOMAIN args |->
                                      IF args[i].kind = "temp"
                                      THEN Operand("result", Result) ELSE args[i]]]
    BY <1>2 DEF OperationOf, ArgumentsRead
  <2>2. program' = [program EXCEPT ![Fn] = Append(@,
                      [kind |-> "call", callee |-> Innermost.callee,
                       args |-> [i \in DOMAIN Innermost.args |->
                                   IF Innermost.args[i].kind = "temp"
                                   THEN Operand("result", Result) ELSE Innermost.args[i]]])]
    BY DEF EndCall, Evaluate
  <2>3. program' = [program EXCEPT ![fn] = more]
    BY <1>2, <1>3, <2>1, <2>2
  <2> QED
    BY <1>4, <2>3
<1>10. PICK c, one, d : c = code[fn] /\ one = <<x>> /\ d = c \o one
  OBVIOUS
<1>11. one \in Seq(Instructions) /\ Len(one) = 1 /\ one[1] = x /\ s = Append(one, y)
  BY <1>2, <1>8, <1>10
<1>12. Longer(c, d, x) /\ d \in Seq(Instructions)
  <2>1. Longer(c, d, x)
    BY <1>4, <1>10, <1>11, LongerByOne
  <2> QED
    BY <2>1 DEF Longer
<1>13. PICK e : e = c \o s
  OBVIOUS
<1>14. s \in Seq(Instructions) /\ Longer(d, e, y) /\ e \in Seq(Instructions)
  <2>1. s \in Seq(Instructions) /\ Longer(d, e, y)
    BY <1>4, <1>8, <1>10, <1>11, <1>13, LongerAtEnd
  <2> QED
    BY <2>1 DEF Longer
<1>15. Reads(e, more)
  <2>1. Reads(c, program[fn])
    BY <1>4, <1>10 DEF ReadInv
  <2>2. Reads(d, more)
    BY <1>3, <1>4, <1>8, <1>10, <1>12, <2>1, ReadsOne DEF IsOperation
  <2>3. ~IsOperation(y)
    BY <1>8 DEF IsOperation
  <2> QED
    BY <1>12, <1>14, <2>2, <2>3, ReadsQuiet
<1>16. PICK max : max = temps[fn] /\ max \in Nat
  BY <1>4
<1>17. TempsBelow(e, max)
  <2>1. TempsBelow(c, max)
    BY <1>4, <1>10, <1>16 DEF ReadInv
  <2>2. TempsBelow(d, max)
    BY <1>4, <1>8, <1>10, <1>12, <1>16, <2>1, BelowLonger
  <2> QED
    BY <1>8, <1>12, <1>14, <1>16, <2>2, BelowLonger
<1>18. CallCode(Innermost).instructions = s
  BY <1>2 DEF CallCode
<1>19. (temps[Fn])' = max /\ ResultsBelow(o, max) /\ temps'[fn] = max
  BY <1>1, <1>2, <1>16 DEF Fn, ReadInv
<1>20. /\ temps' \in [Functions -> Nat] /\ \A f \in Functions : temps[f] <= temps'[f]
  BY <1>1, <1>4
<1>21. CASE n = 1
  <2>1. code' = [code EXCEPT ![fn] = @ \o s] /\ open' = <<>>
    BY <1>2, <1>18, <1>21 DEF EndCall, Emit
  <2>2. ResultsBelow(open', (temps[Fn])')
    BY <2>1 DEF ResultsBelow
  <2>3. Reads(code[fn] \o s, more) /\ TempsBelow(code[fn] \o s, temps'[fn])
    BY <1>10, <1>13, <1>15, <1>17, <1>19
  <2> QED
    BY <1>1, <1>2, <1>9, <1>20, <2>1, <2>2, <2>3, ReadDone
<1>22. CASE n > 1
  <2>1. PICK p, t, m : p = Push(r) /\ t = Append(s, p) /\ m = n - 1
    OBVIOUS
  <2>2. /\ code' = [code EXCEPT ![fn] = @ \o t]
        /\ open' = Append(SubSeq(open, 1, n - 2), ArgumentAdded(open[n - 1], r))
    <3>1. /\ Emit(Append(CallCode(Innermost).instructions, Push(r)))
          /\ open' = Append(SubSeq(open, 1, n - 2), ArgumentAdded(open[n - 1], r))
      BY <1>2, <1>22 DEF EndCall
    <3> QED
      BY <1>2, <1>18, <2>1, <3>1 DEF Emit
  <2>3. p \in Instructions /\ p.kind = "pushl" /\ p.source = r
    BY <1>7, <2>1 DEF Push, Instructions
  <2>4. PICK g : g = c \o t
    OBVIOUS
  <2>5. Longer(e, g, p)
    BY <1>4, <1>10, <1>13, <1>14, <2>1, <2>3, <2>4, LongerAtEnd
  <2>6. Reads(g, more)
    <3>1. ~IsOperation(p)
      BY <2>3 DEF IsOperation
    <3> QED
      BY <1>14, <1>15, <2>5, <3>1, ReadsQuiet
  <2>7. TempsBelow(g, max)
    <3>1. r.of \in 1..max
      BY <1>7, <1>16
    <3> QED
      BY <1>14, <1>16, <1>17, <2>3, <2>5, <3>1, BelowLonger
  <2>8. ResultsBelow(q, max)
    <3>1. m \in 1..Len(o) /\ m - 1 = n - 2
      BY <1>5, <1>22, <2>1
    <3>2. q = Taken(o, m, r)
      BY <1>2, <2>1, <2>2, <3>1 DEF Taken
    <3> QED
      BY <1>5, <1>19, <3>1, <3>2, ResultsTaken
  <2>9. ResultsBelow(open', (temps[Fn])')
    BY <1>2, <1>19, <2>8
  <2>10. Reads(code[fn] \o t, more) /\ TempsBelow(code[fn] \o t, temps'[fn])
    BY <1>10, <1>19, <2>4, <2>6, <2>7
  <2> QED
    BY <1>1, <1>2, <1>9, <1>20, <2>2, <2>9, <2>10, ReadDone
<1> QED
  BY <1>5, <1>21, <1>22

-----------------------------------------------------------------------------
(* The frames that the saved %ebp lead to.                                  *)

\* A frame is found by what stands above it: the recursion comes to an end.
LEMMA FramesEquation ==
  ASSUME NEW words, Depth \in Nat
  PROVE  \E f : /\ \A e \in Addresses : f[e] = FrameStep(words, f, e)
                /\ \A e : Frames(words, e) = f[e]
<1> DEFINE Upto(r, f) == /\ f = [e \in Addresses |-> f[e]]
                         /\ \A e \in Addresses : Depth - e < r => f[e] = FrameStep(words, f, e)
           T == {r \in Nat : \E f : Upto(r, f)}
           All == CHOOSE f : f = [e \in Addresses |-> FrameStep(words, f, e)]
<1>1. \A e : Frames(words, e) = All[e]
  BY Zenon DEF Frames
<1>2. 0 \in T
  <2>1. PICK none : none = [e \in Addresses |-> <<>>]
    OBVIOUS
  <2>2. none = [e \in Addresses |-> none[e]]
    BY <2>1
  <2>3. \A e \in Addresses : ~(Depth - e < 0)
    BY DEF Addresses
  <2>4. Upto(0, none)
    BY <2>2, <2>3
  <2> HIDE DEF Upto
  <2> QED
    BY <2>4
<1>3. ASSUME NEW r \in Nat, r \in T PROVE r + 1 \in T
  <2>1. PICK f : Upto(r, f)
    BY <1>3
  <2>2. PICK g : g = [e \in Addresses |-> IF Depth - e = r THEN FrameStep(words, f, e) ELSE f[e]]
    OBVIOUS
  <2>3. ASSUME NEW e \in Addresses, Depth - e <= r
        PROVE  FrameStep(words, g, e) = FrameStep(words, f, e)
    <3>1. words[e][2] \in (e + 1)..Depth => g[words[e][2]] = f[words[e][2]]
      <4>1. SUFFICES ASSUME NEW a, a = words[e][2], a \in (e + 1)..Depth PROVE g[a] = f[a]
        OBVIOUS
      <4>2. a \in Addresses /\ Depth - a # r
        BY <2>3, <4>1 DEF Addresses
      <4> QED
        BY <2>2, <4>2
    <3> QED
      BY <3>1 DEF FrameStep
  <2>4. ASSUME NEW e \in Addresses, Depth - e < r + 1 PROVE g[e] = FrameStep(words, g, e)
    <3>1. Depth - e <= r
      BY <2>4 DEF Addresses
    <3>2. FrameStep(words, g, e) = FrameStep(words, f, e)
      BY <2>3, <3>1
    <3>3. CASE Depth - e = r
      BY <2>2, <3>2, <3>3
    <3>4. CASE Depth - e # r
      <4>1. Depth - e < r
        BY <3>1, <3>4 DEF Addresses
      <4>2. f[e] = FrameStep(words, f, e)
        BY <2>1, <4>1
      <4> QED
        BY <2>2, <3>2, <3>4, <4>2
    <3> QED
      BY <3>3, <3>4
  <2>5. g = [e \in Addresses |-> g[e]]
    BY <2>2
  <2>6. Upto(r + 1, g)
    BY <2>4, <2>5
  <2>7. r + 1 \in Nat
    OBVIOUS
  <2> HIDE DEF Upto
  <2> QED
    BY <2>6, <2>7
<1>4. PICK f : Upto(Depth, f)
  <2>1. Nat \subseteq T
    <3> HIDE DEF T
    <3> QED
      BY <1>2, <1>3, NatInduct
  <2> HIDE DEF Upto
  <2> QED
    BY <2>1
<1>5. \A e \in Addresses : f[e] = FrameStep(words, f, e)
  BY <1>4 DEF Addresses
<1>6. f = [e \in Addresses |-> FrameStep(words, f, e)]
  <2>1. f = [e \in Addresses |-> f[e]]
    BY <1>4
  <2> HIDE DEF Upto
  <2> QED
    BY Zenon, <1>5, <2>1
<1>7. All = [e \in Addresses |-> FrameStep(words, All, e)]
  <2> HIDE DEF Upto
  <2> QED
    BY Zenon, <1>6
<1>8. \A e \in Addresses : All[e] = FrameStep(words, All, e)
  <2>1. PICK a : a = All
    OBVIOUS
  <2>2. a = [e \in Addresses |-> FrameStep(words, a, e)]
    BY Zenon, <1>7, <2>1
  <2>3. \A e \in Addresses : a[e] = FrameStep(words, a, e)
    BY Zenon, <2>2
  <2> HIDE DEF All
  <2> QED
    BY Zenon, <2>1, <2>3
<1> HIDE DEF All
<1> QED
  BY <1>1, <1>8

-----------------------------------------------------------------------------
(* What a step is in the abstract specification.                            *)

\* The stage in a state and in the next.
LEMMA RunningStage ==
  /\ phase = "run" => Stage = "running"
  /\ phase' = "run" => Stage' = "running"
BY DEF Stage

\* A step of the activation that runs, top, above the rest.
LEMMA StepMeans ==
  ASSUME phase = "run", CallStack # <<>>, NEW top, top = Last(CallStack),
         NEW rest, rest = Front(CallStack),
         \/ Meaning!Store(top, rest)
         \/ Meaning!Call(top, rest)
         \/ Meaning!CallExternal(top, rest)
         \/ Meaning!Return(top, rest)
         \/ Meaning!Overflow
  PROVE  Meaning!Next
<1>1. Meaning!Last(CallStack) = top /\ Meaning!Front(CallStack) = rest
  BY DEF Meaning!Last, Last, Meaning!Front, Front
<1>2. Stage = "running"
  BY RunningStage
<1> QED
  BY <1>1, <1>2 DEF Meaning!Next, Meaning!Step, Meaning!Running

\* A store advances the activation and changes one of its locals.
LEMMA StoreMeans ==
  ASSUME phase = "run", phase' = "run", UNCHANGED <<program, received>>,
         NEW top, NEW rest, NEW body, body = program[top.fn], top.at <= Len(body),
         NEW op, op = body[top.at], op.kind = "store",
         CallStack' = Append(rest,
           [top EXCEPT !.at = @ + 1, !.locals[op.local] = op.value])
  PROVE  Meaning!Store(top, rest)
<1>1. Stage = "running" /\ Stage' = "running"
  BY RunningStage
<1> QED
  BY <1>1 DEF Meaning!Store, Meaning!More, Meaning!Running,
    Meaning!Operation, Meaning!Operations, Meaning!Advanced

\* A call advances the activation and puts that of the callee above it.
LEMMA CallMeans ==
  ASSUME phase = "run", phase' = "run", UNCHANGED <<program, received>>,
         NEW top, NEW rest, NEW body, body = program[top.fn], top.at <= Len(body),
         NEW op, op = body[top.at], op.kind = "call", op.callee \in Functions,
         NEW passed, passed = Meaning!Passed(op, top.locals),
         NEW locals, locals \in [1..LocalCount -> Content],
         CallStack' = rest \o
           <<[top EXCEPT !.at = @ + 1],
             [fn |-> op.callee, at |-> 1, args |-> passed, locals |-> locals]>>
  PROVE  Meaning!Call(top, rest)
<1>1. Stage = "running" /\ Stage' = "running"
  BY RunningStage
<1> QED
  BY <1>1 DEF Meaning!Call, Meaning!More, Meaning!Running,
    Meaning!Operation, Meaning!Operations, Meaning!Advanced, Meaning!Activation, Content

\* A call of what is defined elsewhere advances it and is recorded.
LEMMA CallExternalMeans ==
  ASSUME phase = "run", phase' = "run", UNCHANGED program,
         NEW top, NEW rest, NEW body, body = program[top.fn], top.at <= Len(body),
         NEW op, op = body[top.at], op.kind = "call", op.callee \in Externals,
         NEW passed, passed = Meaning!Passed(op, top.locals),
         CallStack' = Append(rest, [top EXCEPT !.at = @ + 1]),
         received' = Append(received, [fn |-> op.callee, args |-> passed])
  PROVE  Meaning!CallExternal(top, rest)
<1>1. Stage = "running" /\ Stage' = "running"
  BY RunningStage
<1> QED
  BY <1>1 DEF Meaning!CallExternal, Meaning!More, Meaning!Running,
    Meaning!Operation, Meaning!Operations, Meaning!Advanced

\* A return removes the activation and ends the program with the last one.
LEMMA ReturnMeans ==
  ASSUME phase = "run", UNCHANGED <<program, received>>,
         NEW top, NEW rest, NEW body, body = program[top.fn], ~(top.at <= Len(body)),
         CallStack' = rest, phase' = IF rest = <<>> THEN "exited" ELSE phase
  PROVE  Meaning!Return(top, rest)
<1>1. Stage = "running" /\ (phase' = "run" => Stage' = "running")
  BY RunningStage
<1>2. phase' = "exited" => Stage' = "exited"
  BY DEF Stage
<1> QED
  BY <1>1, <1>2 DEF Meaning!Return, Meaning!More, Meaning!Running, Meaning!Operations

\* The end of the stack removes them all.
LEMMA OverflowMeans ==
  ASSUME phase = "run", phase' = "overflow", UNCHANGED <<program, received>>
  PROVE  Meaning!Overflow
<1>1. Stage = "running" /\ Stage' = "overflow" /\ CallStack' = <<>>
  BY DEF Stage, CallStack
<1> QED
  BY <1>1 DEF Meaning!Overflow, Meaning!Running

\* The translation only reads.
LEMMA ReadMeans ==
  ASSUME phase = "translate", phase' = "translate", program' # program, UNCHANGED received
  PROVE  Meaning!Read
<1>1. /\ Stage = "reading" /\ Stage' = "reading"
      /\ CallStack' = <<>> /\ CallStack = <<>>
  BY DEF Stage, CallStack
<1> QED
  BY <1>1 DEF Meaning!Read

\* The program starts with the activation of its first function.
LEMMA StartMeans ==
  ASSUME phase = "translate", phase' = "run", UNCHANGED <<program, received>>,
         NEW locals, locals \in [1..LocalCount -> Content],
         CallStack' = <<[fn |-> Order[1], at |-> 1, args |-> <<>>, locals |-> locals]>>
  PROVE  Meaning!Start
<1>1. Stage = "reading" /\ Stage' = "running"
  BY DEF Stage
<1> QED
  BY <1>1 DEF Meaning!Start, Meaning!Activation, Content

-----------------------------------------------------------------------------
(* The frames of a chain.                                                   *)

\* A sequence of n is one of n - 1 and what follows.
LEMMA AppendedTo ==
  ASSUME NEW S, NEW n \in Nat \ {0}, NEW r, NEW s,
         s = [k \in 1..n |-> r[k]], \A k \in 1..n : r[k] \in S,
         NEW t, t = [k \in 1..n - 1 |-> r[k]]
  PROVE  s \in Seq(S) /\ t \in Seq(S) /\ Len(s) = n /\ Len(t) = n - 1 /\ s = Append(t, r[n])
<1>1. s \in Seq(S) /\ Len(s) = n
  BY FunctionIsSeq
<1>2. t \in Seq(S) /\ Len(t) = n - 1
  <2>1. PICK l \in Nat : l = n - 1
    OBVIOUS
  <2>2. t = [k \in 1..l |-> t[k]]
    BY <2>1
  <2>3. \A k \in 1..l : t[k] \in S
    BY <2>1
  <2>4. t \in Seq(S) /\ Len(t) = l
    BY <2>2, <2>3, FunctionIsSeq
  <2> QED
    BY <2>1, <2>4
<1>3. PICK q : q = Append(t, r[n])
  OBVIOUS
<1>4. r[n] \in S
  OBVIOUS
<1>5. /\ q \in Seq(S) /\ Len(q) = n /\ q[n] = r[n]
      /\ \A k \in 1..n - 1 : q[k] = t[k]
  BY <1>2, <1>3, <1>4
<1>6. q \in [1..n -> S] /\ s \in [1..n -> S]
  BY <1>1, <1>5, SeqIsFunction
<1>7. \A k \in 1..n : q[k] = s[k]
  <2>1. SUFFICES ASSUME NEW k \in 1..n PROVE q[k] = r[k]
    OBVIOUS
  <2>2. CASE k = n
    BY <1>5, <2>2
  <2>3. CASE k # n
    <3>1. k \in 1..n - 1
      BY <2>3
    <3> QED
      BY <1>5, <3>1
  <2> QED
    BY <2>2, <2>3
<1>8. q = s
  BY <1>6, <1>7
<1> QED
  BY <1>1, <1>2, <1>3, <1>8

\* The frames that are found along the saved %ebp are those of the chain.
LEMMA FramesFound ==
  ASSUME NEW words, NEW m \in Nat \ {0}, NEW b \in [Nat -> Int], NEW g,
         Chain(words, m, b, g), b[m] >= 1
  PROVE  Frames(words, b[m]) = [k \in 1..m |-> b[k]]
<1>1. Depth \in Nat /\ \A k \in 1..m : b[k] \in 1..Depth - 1 /\ b[k] \in Addresses
  <2>1. SUFFICES ASSUME NEW k \in 1..m
                 PROVE  Depth \in Nat /\ b[k] \in 1..Depth - 1 /\ b[k] \in Addresses
    BY BoundsAssumption
  <2>2. b[k] \in b[m]..Depth - 1 /\ Depth \in Nat
    BY ChainBounds
  <2>3. b[m] \in Int
    OBVIOUS
  <2> QED
    BY <2>2, <2>3 DEF Addresses
<1>2. PICK f : /\ \A e \in Addresses : f[e] = FrameStep(words, f, e)
               /\ \A e : Frames(words, e) = f[e]
  BY <1>1, FramesEquation
<1>3. PICK upto : upto = [k \in 0..m |-> [i \in 1..k |-> b[i]]]
  OBVIOUS
<1> DEFINE T == {k \in Nat : k \in 1..m => f[b[k]] = upto[k]}
<1>4. 0 \in T
  OBVIOUS
<1>5. ASSUME NEW n \in Nat, n \in T PROVE n + 1 \in T
  <2>1. SUFFICES ASSUME n + 1 \in 1..m PROVE f[b[n + 1]] = upto[n + 1]
    OBVIOUS
  <2>2. PICK k, e : k = n + 1 /\ e = b[k] /\ k \in 1..m
    BY <2>1
  <2>3. e \in Addresses /\ e # Depth /\ f[e] = FrameStep(words, f, e)
    BY <1>1, <1>2, <2>2
  <2>4. PICK s, t : s = [i \in 1..k |-> b[i]] /\ t = [i \in 1..k - 1 |-> b[i]]
    OBVIOUS
  <2>5. upto[k] = s /\ upto[k - 1] = t
    BY <1>3, <2>2, <2>4
  <2>6. s = Append(t, e) /\ (k = 1 => t = <<>>)
    <3>1. k \in Nat \ {0} /\ \A i \in 1..k : b[i] \in Int
      BY <2>2
    <3>2. t \in Seq(Int) /\ Len(t) = k - 1 /\ s = Append(t, e)
      BY <2>2, <2>4, <3>1, AppendedTo
    <3> QED
      BY <3>2
  <2>7. CASE k = 1
    <3>1. e = Depth - 1 /\ e + 1 = Depth
      BY <1>1, <2>2, <2>7 DEF Chain
    <3>2. words[e + 1] = Startup /\ words[e] = Pointer(Outside)
      BY <3>1 DEF Chain
    <3>3. words[e + 1][1] = "code"
      BY <3>2 DEF Startup, CodeAddress
    <3>4. FrameStep(words, f, e) = <<e>>
      <4>1. CASE words[e][1] = "pointer" /\ words[e][2] \in (e + 1)..Depth
        <5>1. words[e][2] = Outside
          BY <3>2 DEF Pointer
        <5> QED
          BY <1>1, <4>1, <5>1 DEF Outside
      <4>2. CASE ~(words[e][1] = "pointer" /\ words[e][2] \in (e + 1)..Depth)
        BY <2>3, <3>2, <3>3, <4>2 DEF FrameStep
      <4> QED
        BY <4>1, <4>2
    <3>5. s = <<e>>
      BY <2>6, <2>7
    <3> QED
      BY <2>2, <2>3, <2>5, <3>4, <3>5
  <2>8. CASE k # 1
    <3>1. k \in 2..m /\ k - 1 = n /\ n \in 1..m
      BY <2>2, <2>8
    <3>2. PICK a : a = b[k - 1]
      OBVIOUS
    <3>3. words[e] = Pointer(a) /\ words[e + 1][1] = "code"
      <4>1. words[e] = Pointer(a)
        BY <2>2, <3>1, <3>2 DEF Chain
      <4>2. PICK j \in Nat : words[e + 1] = CodeAddress(g[k - 1], j)
        BY <2>2, <3>1 DEF Chain
      <4> QED
        BY <4>1, <4>2 DEF CodeAddress
    <3>4. a \in 1..Depth - 1 /\ e < a /\ e \in Int
      <4>1. a \in 1..Depth - 1
        BY <1>1, <3>1, <3>2
      <4>2. e < a
        <5>1. n \in 1..m /\ k \in 1..m /\ n < k
          BY <2>2, <3>1
        <5>2. b[k] < b[n]
          BY <5>1 DEF Chain
        <5> QED
          BY <2>2, <3>1, <3>2, <5>2
      <4> QED
        BY <2>2, <4>1, <4>2
    <3>5. words[e][1] = "pointer" /\ words[e][2] = a /\ words[e] # Pointer(Outside)
      <4>1. a # Outside
        BY <1>1, <3>4 DEF Outside
      <4> QED
        BY <3>3, <4>1 DEF Pointer
    <3>6. a \in (e + 1)..Depth
      BY <1>1, <3>4
    <3>7. FrameStep(words, f, e) = Append(f[a], e)
      BY <2>3, <3>3, <3>5, <3>6 DEF FrameStep
    <3>8. f[a] = t
      BY <1>5, <2>5, <3>1, <3>2
    <3> QED
      BY <2>2, <2>3, <2>5, <2>6, <3>7, <3>8
  <2> QED
    BY <2>7, <2>8
<1>6. m \in T
  <2>1. Nat \subseteq T
    <3> HIDE DEF T
    <3> QED
      BY <1>4, <1>5, NatInduct
  <2> HIDE DEF T
  <2> QED
    BY <2>1
<1>7. f[b[m]] = upto[m]
  BY <1>6
<1>8. m \in 0..m /\ upto[m] = [k \in 1..m |-> b[k]]
  <2>1. m \in 0..m
    OBVIOUS
  <2> QED
    BY <1>3, <2>1
<1> QED
  BY Zenon, <1>2, <1>7, <1>8

-----------------------------------------------------------------------------
(* The activations of a chain.                                              *)
Had(words, a) == Arrived(EnteredBy(code, words, a).args, words, a + 2)

ActivationOf(words, m, b, place, i) ==
  ActivationAt(code, words, b[i], IF i = 1 THEN <<>> ELSE Had(words, b[i]),
               IF i = m THEN place ELSE ReturnAddress(words, b[i + 1]))

\* There is one activation for each frame of the chain.
LEMMA ActivationsFound ==
  ASSUME NEW words, NEW m \in Nat \ {0}, NEW b \in [Nat -> Int], NEW g,
         Chain(words, m, b, g), b[m] >= 1, NEW place, NEW e, e = b[m]
  PROVE  ActivationsIn(code, words, e, place) =
           [i \in 1..m |-> ActivationOf(words, m, b, place, i)]
<1>1. PICK frames : frames = Frames(words, e)
  OBVIOUS
<1>2. frames = [k \in 1..m |-> b[k]]
  <2>1. PICK s : s = [k \in 1..m |-> b[k]]
    OBVIOUS
  <2>2. Frames(words, b[m]) = s
    BY <2>1, FramesFound
  <2>3. frames = s
    BY <1>1, <2>2
  <2> QED
    BY <2>1, <2>3
<1>3. DOMAIN frames = 1..m /\ Len(frames) = m /\ \A i \in 1..m : frames[i] = b[i]
  <2>1. \A k \in 1..m : frames[k] \in Int
    BY <1>2
  <2>2. frames = [k \in 1..m |-> frames[k]]
    BY <1>2
  <2>3. Len(frames) = m
    BY <2>1, <2>2, FunctionIsSeq
  <2> QED
    BY <1>2, <2>3
<1>4. ActivationsIn(code, words, e, place) =
        [i \in DOMAIN frames |->
           ActivationAt(code, words, frames[i],
             IF i = 1 THEN <<>> ELSE Had(words, frames[i]),
             IF i = Len(frames) THEN place ELSE ReturnAddress(words, frames[i + 1]))]
  BY Zenon, <1>1 DEF ActivationsIn, Had
<1>5. ASSUME NEW i \in 1..m
      PROVE  ActivationAt(code, words, frames[i],
               IF i = 1 THEN <<>> ELSE Had(words, frames[i]),
               IF i = Len(frames) THEN place ELSE ReturnAddress(words, frames[i + 1]))
             = ActivationOf(words, m, b, place, i)
  <2>1. frames[i] = b[i] /\ Len(frames) = m
    BY <1>3
  <2>2. i # m => i + 1 \in 1..m
    OBVIOUS
  <2>3. i # m => frames[i + 1] = b[i + 1]
    BY <1>3, <2>2
  <2> QED
    BY Zenon, <2>1, <2>3 DEF ActivationOf
<1> QED
  BY Zenon, <1>3, <1>4, <1>5

\* The frame at a, below the one at e, was entered by the call in front of instruction j of f.
CalledFrom(words, a, e, f, j, args) ==
  /\ j \in 2..Len(code[f]) /\ words[a + 1] = CodeAddress(f, j)
  /\ ReturnAddress(words, a) = <<f, j>>
  /\ EnteredBy(code, words, a) = code[f][j - 1]
  /\ code[f][j - 1].kind = "call" /\ code[f][j - 1].args = args
  /\ e - a - 2 = Reserved(f) + Len(args)

\* Every frame but the oldest one was entered by a call of the function below it.
LEMMA Caller ==
  ASSUME TypeInv, TranslationInv, Plain,
         NEW words, NEW m \in Nat \ {0}, NEW b \in [Nat -> Int], NEW g \in [Nat -> Functions],
         Chain(words, m, b, g), NEW k \in 2..m,
         NEW a, a = b[k], NEW e, e = b[k - 1], NEW f, f = g[k - 1]
  PROVE  \E j \in Nat, args \in Seq(Operands) : CalledFrom(words, a, e, f, j, args)
<1>1. PICK c : c = code[f]
  OBVIOUS
<1>2. f \in Functions /\ c \in Seq(Instructions) /\ Body(c)
  <2>1. k - 1 \in Nat
    OBVIOUS
  <2> QED
    BY <1>1, <2>1 DEF TypeInv, TranslationInv
<1>3. PICK j \in Nat : words[a + 1] = CodeAddress(f, j) /\ Resumes(f, j, e - a - 2)
  BY DEF Chain
<1>4. j \in 2..Len(c) /\ c[j].kind = "addl" /\ e - a - 2 = Reserved(f) + c[j].words
  BY <1>1, <1>3 DEF Resumes
<1>5. ReturnAddress(words, a) = <<f, j>>
  BY <1>3 DEF ReturnAddress, CodeAddress
<1>6. EnteredBy(code, words, a) = c[j - 1]
  <2>1. PICK r : r = ReturnAddress(words, a)
    OBVIOUS
  <2>2. r[1] = f /\ r[2] = j
    BY <1>5, <2>1
  <2>3. EnteredBy(code, words, a) = code[r[1]][r[2] - 1]
    BY Zenon, <2>1 DEF EnteredBy
  <2> QED
    BY <1>1, <2>2, <2>3
<1>7. j \in 1..Len(c) /\ j - 1 \in 1..Len(c) /\ j - 1 + 1 = j
  BY <1>4
<1>8. PICK x, args : x = c[j - 1] /\ args = x.args
  OBVIOUS
<1>9. x.kind = "call"
  BY <1>2, <1>4, <1>7, <1>8 DEF Body, PlaceOK
<1>10. args \in Seq(Operands) /\ c[j].words = Len(args)
  <2>1. x \in Instructions
    BY <1>2, <1>7, <1>8
  <2>2. Given(c, j - 1, c[j].words, args)
    <3>1. CallOK(c, j - 1)
      BY <1>2, <1>7 DEF Body
    <3> QED
      BY <1>7, <1>8, <1>9, <3>1 DEF CallOK
  <2> QED
    BY <1>8, <1>9, <2>1, <2>2, InstructionShape DEF Given
<1>11. CalledFrom(words, a, e, f, j, args)
  BY <1>1, <1>3, <1>4, <1>5, <1>6, <1>8, <1>9, <1>10 DEF CalledFrom
<1> QED
  BY <1>10, <1>11

\* Locals stay as they are when their words do ...
LEMMA LocalsKept ==
  ASSUME NEW words, NEW new, NEW base \in Int, LocalCount \in Nat,
         \A a \in base - LocalCount..base - 1 : new[a] = words[a]
  PROVE  LocalsAt(new, base) = LocalsAt(words, base)
<1>1. ASSUME NEW k \in 1..LocalCount
      PROVE  Visible(new[FrameAddress(base, LocalOperand(k))])
               = Visible(words[FrameAddress(base, LocalOperand(k))])
  <2>1. PICK a : a = FrameAddress(base, LocalOperand(k))
    OBVIOUS
  <2>2. a = base - k
    BY <2>1 DEF FrameAddress, LocalOperand, Operand
  <2>3. new[a] = words[a]
    BY <2>2
  <2> QED
    BY <2>1, <2>3
<1> QED
  BY Zenon, <1>1 DEF LocalsAt

\* The words from low on are the same.
Same(new, words, low) == \A a \in low..Depth : new[a] = words[a]

\* The words of a callee's frame down to the arguments are those below the caller's frame.
LEMMA Inside ==
  ASSUME NEW a \in Int, NEW e \in Int, NEW low \in Int, NEW d \in Nat, NEW l \in Nat,
         low <= a, a <= d - 1, e <= d - 1, e - a - 2 >= l
  PROVE  a + 1 \in low..d /\ \A k \in 1..l : a + 2 + k - 1 \in low..d
OBVIOUS

\* ... and arguments when the words down to the frame do.
LEMMA HadKept ==
  ASSUME TypeInv, TranslationInv, Plain,
         NEW words, NEW m \in Nat \ {0}, NEW b \in [Nat -> Int], NEW g \in [Nat -> Functions],
         Chain(words, m, b, g), NEW new, Same(new, words, b[m]),
         NEW i \in 2..m, NEW a \in Int, a = b[i]
  PROVE  Had(new, a) = Had(words, a)
<1>1. i \in 1..m /\ i - 1 \in 1..m
  OBVIOUS
<1>2. PICK e \in Int : e = b[i - 1]
  OBVIOUS
<1>3. /\ a \in Int /\ e \in Int /\ b[m] \in Int /\ Depth \in Nat
      /\ a \in b[m]..Depth - 1 /\ e \in b[m]..Depth - 1
  BY <1>1, <1>2, ChainBounds
<1>4. PICK j \in Nat, args \in Seq(Operands) : CalledFrom(words, a, e, g[i - 1], j, args)
  BY <1>2, Caller
<1>5. args = EnteredBy(code, words, a).args
  BY <1>4 DEF CalledFrom
<1>6. PICK low \in Int, d \in Nat : low = b[m] /\ d = Depth
  BY <1>3
<1>7. PICK l \in Nat : l = Len(args) /\ DOMAIN args = 1..l
  OBVIOUS
<1>8. low <= a /\ a <= d - 1 /\ e <= d - 1 /\ e - a - 2 >= l
  <2>1. e - a - 2 = Reserved(g[i - 1]) + l
    BY <1>4, <1>7 DEF CalledFrom
  <2>2. i - 1 \in Nat
    OBVIOUS
  <2>3. PICK f \in Functions : f = g[i - 1]
    BY <2>2
  <2>4. PICK r \in Nat : r = Reserved(f)
    BY <2>3, ReservedIsEnough
  <2> QED
    BY <1>3, <1>6, <2>1, <2>3, <2>4
<1>9. \A x \in low..d : new[x] = words[x]
  BY Zenon, <1>6 DEF Same
<1>10. new[a + 1] = words[a + 1]
  <2>1. a + 1 \in low..d
    BY <1>8, Inside
  <2> QED
    BY <1>9, <2>1
<1>11. EnteredBy(code, new, a) = EnteredBy(code, words, a)
  BY <1>10 DEF EnteredBy, ReturnAddress
<1>12. \A k \in DOMAIN args : new[a + 2 + k - 1] = words[a + 2 + k - 1]
  <2>1. SUFFICES ASSUME NEW k \in 1..l PROVE new[a + 2 + k - 1] = words[a + 2 + k - 1]
    BY <1>7
  <2>2. a + 2 + k - 1 \in low..d
    BY <1>8, Inside
  <2> QED
    BY <1>9, <2>2
<1>13. Arrived(args, new, a + 2) = Arrived(args, words, a + 2)
  <2>1. \A k \in DOMAIN args : Visible(new[a + 2 + k - 1]) = Visible(words[a + 2 + k - 1])
    BY <1>12
  <2> QED
    BY Zenon, <2>1 DEF Arrived
<1> QED
  BY Zenon, <1>5, <1>11, <1>13 DEF Had

\* What happens below a frame, its words and those of the frames below it leaves
\* the activation as it is; whether others came above it does not matter.
LEMMA OlderKept ==
  ASSUME TypeInv, TranslationInv, Plain,
         NEW words, NEW m \in Nat \ {0}, NEW b \in [Nat -> Int], NEW g \in [Nat -> Functions],
         Chain(words, m, b, g), NEW new, Same(new, words, b[m]),
         NEW n \in Nat, n >= m, NEW c, \A k \in 1..m : c[k] = b[k],
         NEW i \in 1..m - 1, NEW p, NEW q
  PROVE  ActivationOf(new, n, c, q, i) = ActivationOf(words, m, b, p, i)
<1>1. /\ i \in 1..m /\ i + 1 \in 1..m /\ i + 1 \in 2..m /\ i # m /\ i # n
      /\ (i # 1 => i \in 2..m) /\ i + 1 - 1 = i
  OBVIOUS
<1>2. c[i] = b[i] /\ c[i + 1] = b[i + 1]
  BY <1>1
<1>3. ReturnAddress(new, c[i + 1]) = ReturnAddress(words, b[i + 1])
  <2>1. b[i + 1] + 1 \in b[m]..Depth
    BY <1>1, ChainBounds
  <2> QED
    BY <1>2, <2>1 DEF ReturnAddress, Same
<1>4. LocalsAt(new, c[i]) = LocalsAt(words, b[i])
  <2>1. PICK a, e : a = b[i] /\ e = b[i + 1]
    OBVIOUS
  <2>2. /\ a \in Int /\ e \in Int /\ b[m] \in Int /\ Depth \in Nat
        /\ a \in b[m]..Depth - 1 /\ e \in b[m]..Depth - 1
    BY <1>1, <2>1, ChainBounds
  <2>3. PICK gap \in Nat : a - e - 2 = Reserved(g[i]) + gap
    <3>1. PICK k : k = i + 1
      OBVIOUS
    <3>2. k \in 2..m /\ e = b[k] /\ a = b[k - 1] /\ g[k - 1] = g[i]
      BY <1>1, <2>1, <3>1
    <3>3. PICK j \in Nat, args \in Seq(Operands) : CalledFrom(words, e, a, g[i], j, args)
      BY <3>2, Caller
    <3> QED
      BY <3>3 DEF CalledFrom
  <2>4. Reserved(g[i]) \in Nat /\ LocalCount \in Nat /\ Reserved(g[i]) >= LocalCount + 2
    BY <1>1, ReservedIsEnough
  <2>5. \A x \in a - LocalCount..a - 1 : new[x] = words[x]
    BY <2>2, <2>3, <2>4 DEF Same
  <2> QED
    BY <1>2, <2>1, <2>2, <2>4, <2>5, LocalsKept
<1>5. i # 1 => Had(new, c[i]) = Had(words, b[i])
  <2>1. SUFFICES ASSUME i # 1, NEW a \in Int, a = b[i] PROVE Had(new, a) = Had(words, a)
    BY <1>2
  <2>2. i \in 2..m
    BY <1>1, <2>1
  <2> QED
    BY SMTT(30), <2>1, <2>2, HadKept
<1>6. PICK had, place : /\ had = (IF i = 1 THEN <<>> ELSE Had(words, b[i]))
                        /\ place = ReturnAddress(words, b[i + 1])
  OBVIOUS
<1>7. ActivationOf(words, m, b, p, i) = ActivationAt(code, words, b[i], had, place)
  BY <1>1, <1>6 DEF ActivationOf
<1>8. ActivationOf(new, n, c, q, i) = ActivationAt(code, new, c[i], had, place)
  BY <1>1, <1>3, <1>5, <1>6 DEF ActivationOf
<1> QED
  BY Zenon, <1>4, <1>7, <1>8 DEF ActivationAt

-----------------------------------------------------------------------------
(* The activation that runs and the rest.                                   *)
Rest(words, m, b, place) == [i \in 1..m - 1 |-> ActivationOf(words, m, b, place, i)]

Split(stack, rest, top) ==
  /\ stack = Append(rest, top) /\ stack # <<>> /\ Last(stack) = top /\ Front(stack) = rest
  /\ \E S : rest \in Seq(S)

\* What is appended is the last one, what it is appended to the front.
LEMMA SplitAppend ==
  ASSUME NEW S, NEW rest \in Seq(S), NEW top \in S, NEW stack, stack = Append(rest, top)
  PROVE  Split(stack, rest, top)
<1>1. /\ stack \in Seq(S) /\ Len(stack) = Len(rest) + 1 /\ stack[Len(rest) + 1] = top
      /\ \A k \in 1..Len(rest) : stack[k] = rest[k]
  OBVIOUS
<1>2. Last(stack) = top
  BY <1>1 DEF Last
<1>3. Front(stack) = rest
  <2>1. PICK n \in Nat : n = Len(rest)
    OBVIOUS
  <2>2. Front(stack) = SubSeq(stack, 1, n)
    BY <1>1, <2>1 DEF Front
  <2>3. PICK front : front = SubSeq(stack, 1, n)
    OBVIOUS
  <2>4. front \in Seq(S) /\ Len(front) = n /\ \A k \in 1..n : front[k] = stack[k]
    BY <1>1, <2>1, <2>3
  <2>5. front \in [1..n -> S] /\ rest \in [1..n -> S]
    BY <2>1, <2>4, SeqIsFunction
  <2>6. \A k \in 1..n : front[k] = rest[k]
    BY <1>1, <2>1, <2>4
  <2>7. front = rest
    BY <2>5, <2>6
  <2> QED
    BY <2>2, <2>3, <2>7
<1> QED
  BY <1>1, <1>2, <1>3 DEF Split

\* The last frame of the chain is that of the activation that runs.
LEMMA ActivationsSplit ==
  ASSUME NEW words, NEW m \in Nat \ {0}, NEW b \in [Nat -> Int], NEW g,
         Chain(words, m, b, g), b[m] >= 1, NEW place, NEW e, e = b[m]
  PROVE  Split(ActivationsIn(code, words, e, place), Rest(words, m, b, place),
               ActivationOf(words, m, b, place, m))
<1>1. PICK r : r = [i \in 1..m |-> ActivationOf(words, m, b, place, i)]
  OBVIOUS
<1>2. PICK S : S = {r[i] : i \in 1..m}
  OBVIOUS
<1>3. PICK stack : stack = ActivationsIn(code, words, e, place)
  OBVIOUS
<1>4. stack = [i \in 1..m |-> r[i]]
  BY <1>1, <1>3, ActivationsFound
<1>5. PICK rest : rest = [i \in 1..m - 1 |-> r[i]]
  OBVIOUS
<1>6. rest = Rest(words, m, b, place)
  <2>1. \A i \in 1..m - 1 : r[i] = ActivationOf(words, m, b, place, i)
    BY <1>1
  <2> QED
    BY Zenon, <1>5, <2>1 DEF Rest
<1>7. \A k \in 1..m : r[k] \in S
  BY <1>2
<1>8. rest \in Seq(S) /\ stack = Append(rest, r[m])
  BY <1>4, <1>5, <1>7, AppendedTo
<1>9. r[m] \in S /\ r[m] = ActivationOf(words, m, b, place, m)
  BY <1>1, <1>7
<1>10. Split(stack, rest, r[m])
  BY <1>8, <1>9, SplitAppend
<1> QED
  BY Zenon, <1>3, <1>6, <1>9, <1>10

\* The others stay when the words down to the last frame do.
LEMMA RestKept ==
  ASSUME TypeInv, TranslationInv, Plain,
         NEW words, NEW m \in Nat \ {0}, NEW b \in [Nat -> Int], NEW g \in [Nat -> Functions],
         Chain(words, m, b, g), NEW new, Same(new, words, b[m]), NEW p, NEW q
  PROVE  Rest(new, m, b, q) = Rest(words, m, b, p)
<1>1. \A i \in 1..m - 1 : ActivationOf(new, m, b, q, i) = ActivationOf(words, m, b, p, i)
  BY OlderKept
<1> QED
  BY Zenon, <1>1 DEF Rest

\* The activations in a state of the run, ...
LEMMA StackHere ==
  ASSUME IInv, phase = "run", NEW m \in Nat \ {0}, NEW b \in [Nat -> Int], NEW g,
         b[m] = ebp, Chain(memory, m, b, g)
  PROVE  /\ Split(CallStack, Rest(memory, m, b, pc), ActivationOf(memory, m, b, pc, m))
         /\ ebp >= 1
<1>1. ebp >= 1
  BY Stands
<1>2. CallStack = ActivationsIn(code, memory, ebp, pc)
  BY DEF CallStack
<1>3. Split(ActivationsIn(code, memory, ebp, pc), Rest(memory, m, b, pc),
            ActivationOf(memory, m, b, pc, m))
  BY <1>1, ActivationsSplit
<1> QED
  BY Zenon, <1>1, <1>2, <1>3

\* ... and in the next, when the words down to the last frame are as they were.
LEMMA SameFrames ==
  ASSUME IInv, Plain, phase = "run", phase' = "run", code' = code, ebp' = ebp,
         Same(memory', memory, ebp)
  PROVE  \E rest, had :
           /\ Split(CallStack, rest, ActivationAt(code, memory, ebp, had, pc))
           /\ Split(CallStack', rest, ActivationAt(code, memory', ebp, had, pc'))
<1>1. PICK m \in Nat \ {0}, b \in [Nat -> Int], g \in [Nat -> Functions] :
        b[m] = ebp /\ g[m] = pc[1] /\ Chain(memory, m, b, g)
  BY FramesHere
<1>2. TypeInv /\ TranslationInv
  BY DEF IInv
<1>3. /\ Split(CallStack, Rest(memory, m, b, pc), ActivationOf(memory, m, b, pc, m))
      /\ ebp >= 1
  BY <1>1, StackHere
<1>4. PICK new : new = memory'
  OBVIOUS
<1>5. Same(new, memory, b[m])
  BY <1>1, <1>4
<1>6. Chain(new, m, b, g)
  <2>1. \A a \in b[m]..Depth : new[a] = memory[a]
    BY <1>5 DEF Same
  <2> QED
    BY <1>1, <2>1, ChainKept
<1>7. Split(CallStack', Rest(new, m, b, pc'), ActivationOf(new, m, b, pc', m))
  <2>1. CallStack' = ActivationsIn(code, new, ebp, pc')
    BY <1>4 DEF CallStack
  <2>2. PICK place : place = pc'
    OBVIOUS
  <2>3. Split(ActivationsIn(code, new, ebp, place), Rest(new, m, b, place),
              ActivationOf(new, m, b, place, m))
    BY <1>1, <1>3, <1>6, ActivationsSplit
  <2> QED
    BY Zenon, <2>1, <2>2, <2>3
<1>8. Rest(new, m, b, pc') = Rest(memory, m, b, pc)
  <2>1. PICK p, q : p = pc /\ q = pc'
    OBVIOUS
  <2>2. Rest(new, m, b, q) = Rest(memory, m, b, p)
    BY <1>1, <1>2, <1>5, RestKept
  <2> QED
    BY Zenon, <2>1, <2>2
<1>9. PICK had : had = (IF m = 1 THEN <<>> ELSE Had(memory, b[m]))
  OBVIOUS
<1>10. (IF m = 1 THEN <<>> ELSE Had(new, b[m])) = had
  <2>1. CASE m = 1
    BY <1>9, <2>1
  <2>2. CASE m # 1
    <3>1. m \in 2..m
      BY <2>2
    <3>2. PICK a \in Int : a = b[m]
      OBVIOUS
    <3>3. Had(new, a) = Had(memory, a)
      BY <1>1, <1>2, <1>5, <3>1, <3>2, HadKept
    <3> QED
      BY <1>9, <2>2, <3>2, <3>3
  <2> QED
    BY <2>1, <2>2
<1>11. ActivationOf(memory, m, b, pc, m) = ActivationAt(code, memory, ebp, had, pc)
  BY Zenon, <1>1, <1>9 DEF ActivationOf
<1>12. ActivationOf(new, m, b, pc', m) = ActivationAt(code, new, ebp, had, pc')
  BY Zenon, <1>1, <1>10 DEF ActivationOf
<1>13. Split(CallStack', Rest(memory, m, b, pc), ActivationAt(code, memory', ebp, had, pc'))
  BY Zenon, <1>4, <1>7, <1>8, <1>12
<1>14. Split(CallStack, Rest(memory, m, b, pc), ActivationAt(code, memory, ebp, had, pc))
  BY Zenon, <1>3, <1>11
<1> QED
  BY Zenon, <1>13, <1>14

\* A step that performs no operation and leaves the locals alone is none.
LEMMA QuietStep ==
  ASSUME IInv, Plain, phase = "run", phase' = "run", UNCHANGED translating, ebp' = ebp,
         Same(memory', memory, ebp - LocalCount), Continue, ~IsOperation(Instruction),
         UNCHANGED received
  PROVE  UNCHANGED Meaning!vars
<1>1. PICK f, i, c, base : f = pc[1] /\ i = pc[2] /\ c = code[f] /\ base = ebp
  OBVIOUS
<1>2. /\ i \in Nat \ {0} /\ base \in 1..Depth - 1 /\ Depth \in Nat /\ LocalCount \in Nat
  BY <1>1, Stands
<1>3. PICK new : new = memory'
  OBVIOUS
<1>4. PICK d \in Nat, low \in Int : d = Depth /\ low = base - LocalCount
  BY <1>2
<1>5. \A a \in low..d : new[a] = memory[a]
  BY Zenon, <1>1, <1>4, <1>3 DEF Same
<1>6. low <= base
  BY <1>2, <1>4
<1>7. Same(new, memory, base)
  <2>1. \A a \in base..d : a \in low..d
    BY <1>2, <1>6
  <2> QED
    BY <1>4, <1>5, <2>1 DEF Same
<1>8. LocalsAt(new, base) = LocalsAt(memory, base)
  <2>1. \A a \in base - LocalCount..base - 1 : a \in low..d
    BY <1>2, <1>4
  <2>2. \A a \in base - LocalCount..base - 1 : new[a] = memory[a]
    BY <1>5, <2>1
  <2> QED
    BY <1>2, <2>2, LocalsKept
<1>9. code' = code /\ program' = program
  BY DEF translating
<1>10. PICK rest, had :
         /\ Split(CallStack, rest, ActivationAt(code, memory, ebp, had, pc))
         /\ Split(CallStack', rest, ActivationAt(code, memory', ebp, had, pc'))
  BY <1>1, <1>3, <1>7, <1>9, SameFrames
<1>11. ActivationAt(code, memory', ebp, had, pc') = ActivationAt(code, memory, ebp, had, pc)
  <2>1. PICK place : place = pc'
    OBVIOUS
  <2>2. place[1] = f /\ place[2] = i + 1
    BY <1>1, <2>1 DEF Continue
  <2>3. OperationsBefore(c, i + 1) = OperationsBefore(c, i)
    BY <1>1, <1>2, OperationCounts DEF Instruction
  <2> QED
    BY Zenon, <1>1, <1>3, <1>8, <2>1, <2>2, <2>3 DEF ActivationAt
<1>12. CallStack' = CallStack
  BY Zenon, <1>10, <1>11 DEF Split
<1>13. Stage' = Stage
  BY DEF Stage
<1> QED
  BY <1>9, <1>12, <1>13 DEF Meaning!vars

-----------------------------------------------------------------------------
(* A return stands at the end of a function and nowhere else.               *)
OneReturn(c, ended) == \A i \in 1..Len(c) : c[i].kind = "return" => ended /\ i = Len(c)
ReturnInv == \A j \in 1..Len(Order) : OneReturn(code[Order[j]], j < current)

\* What is printed within a function is no return.
LEMMA NoReturn ==
  ASSUME TypeInv, TranslationInv, ReturnInv, current <= Len(Order), current' = current,
         NEW s \in Seq(Instructions), \A i \in 1..Len(s) : s[i].kind # "return",
         code' = [code EXCEPT ![Fn] = @ \o s]
  PROVE  ReturnInv'
<1>1. PICK fn, c, d : fn = Fn /\ c = code[fn] /\ d = code'[fn]
  OBVIOUS
<1>2. PICK n \in Nat, k \in Nat : n = Len(c) /\ k = Len(s)
  <2>1. c \in Seq(Instructions)
    BY <1>1, EmitKeeps
  <2> QED
    BY <2>1
<1>3. /\ fn \in Functions /\ c \in Seq(Instructions) /\ d = c \o s
      /\ \A f \in Functions : f # fn => code'[f] = code[f]
  BY <1>1, EmitKeeps
<1>4. current \in 1..Len(Order) /\ Order[current] = fn
  BY <1>1 DEF Fn, TypeInv
<1>5. OneReturn(c, FALSE)
  <2>1. OneReturn(code[Order[current]], current < current)
    BY <1>4 DEF ReturnInv
  <2>2. ~(current < current)
    BY <1>4
  <2> QED
    BY <1>1, <1>4, <2>1, <2>2 DEF OneReturn
<1>6. \A i \in 1..Len(d) : d[i].kind # "return"
  <2>1. SUFFICES ASSUME NEW i \in 1..Len(d) PROVE d[i].kind # "return"
    OBVIOUS
  <2>2. Len(d) = n + k
    BY <1>2, <1>3
  <2>3. CASE i <= n
    <3>1. i \in 1..Len(c) /\ d[i] = c[i]
      BY <1>2, <1>3, <2>2, <2>3
    <3> QED
      BY <1>5, <3>1 DEF OneReturn
  <2>4. CASE i > n
    <3>1. i \in n + 1..n + k
      BY <2>2, <2>4
    <3>2. PICK l \in Nat : l = i - n /\ l \in 1..k
      BY <3>1
    <3>3. d[i] = s[l]
      BY <1>2, <1>3, <2>2, <2>4, <3>2
    <3> QED
      BY <1>2, <3>2, <3>3
  <2> QED
    BY <1>2, <2>2, <2>3, <2>4
<1>7. ASSUME NEW j \in 1..Len(Order) PROVE OneReturn(code'[Order[j]], j < current)
  <2>1. CASE Order[j] = fn
    BY <1>1, <1>6, <2>1 DEF OneReturn
  <2>2. CASE Order[j] # fn
    <3>1. code'[Order[j]] = code[Order[j]]
      BY <1>3, <2>2, OrderIsInjective
    <3> QED
      BY <3>1 DEF ReturnInv
  <2> QED
    BY <2>1, <2>2
<1> QED
  BY <1>7 DEF ReturnInv

\* The end of a function prints its return.
LEMMA ReturnPrinted ==
  ASSUME TypeInv, TranslationInv, ReturnInv, EndFunction
  PROVE  ReturnInv'
<1>1. current <= Len(Order) /\ current' = current + 1
  BY DEF EndFunction, AtStatement, Translating
<1>2. PICK fn, c, d, x, s :
        fn = Fn /\ c = code[fn] /\ d = code'[fn] /\ x = [kind |-> "return"] /\ s = <<x>>
  OBVIOUS
<1>3. code' = [code EXCEPT ![fn] = @ \o s]
  BY <1>2 DEF EndFunction, Emit
<1>4. x \in Instructions
  BY <1>2 DEF Instructions
<1>5. s \in Seq(Instructions) /\ Len(s) = 1 /\ s[1] = x
  BY <1>2, <1>4
<1>6. /\ fn \in Functions /\ c \in Seq(Instructions) /\ d = c \o s
      /\ \A f \in Functions : f # fn => code'[f] = code[f]
  BY <1>1, <1>2, <1>3, <1>5, EmitKeeps
<1>7. Longer(c, d, x)
  BY <1>5, <1>6, LongerByOne
<1>8. current \in 1..Len(Order) /\ Order[current] = fn
  BY <1>1, <1>2 DEF Fn, TypeInv
<1>9. \A i \in 1..Len(c) : c[i].kind # "return"
  <2>1. OneReturn(code[Order[current]], current < current)
    BY <1>8 DEF ReturnInv
  <2>2. ~(current < current)
    BY <1>8
  <2> QED
    BY <1>2, <1>8, <2>1, <2>2 DEF OneReturn
<1>10. \A i \in 1..Len(d) : d[i].kind = "return" => i = Len(d)
  <2>1. PICK n \in Nat : n = Len(c)
    BY <1>6
  <2>2. Len(d) = n + 1 /\ \A i \in 1..n : d[i] = c[i]
    BY <1>7, <2>1 DEF Longer
  <2> QED
    BY <1>9, <2>1, <2>2
<1>11. ASSUME NEW j \in 1..Len(Order) PROVE OneReturn(code'[Order[j]], j < current')
  <2>1. CASE j = current
    <3>1. j < current'
      BY <1>1, <1>8, <2>1
    <3>2. code'[Order[j]] = d
      BY <1>2, <1>8, <2>1
    <3> QED
      BY <1>10, <3>1, <3>2 DEF OneReturn
  <2>2. CASE j # current
    <3>1. Order[j] # fn /\ Order[j] \in Functions
      BY <1>8, <2>2, OrderIsInjective
    <3>2. OneReturn(code'[Order[j]], j < current)
      BY <1>6, <3>1 DEF ReturnInv
    <3>3. j < current => j < current'
      BY <1>1, <1>8
    <3> QED
      BY <3>2, <3>3 DEF OneReturn
  <2> QED
    BY <2>1, <2>2
<1> QED
  BY <1>11 DEF ReturnInv

\* The translation prints a return at the end of each function and nowhere else.
LEMMA ReturnTranslate ==
  ASSUME TypeInv, TranslationInv, ReturnInv, Translate
  PROVE  ReturnInv'
<1>1. ASSUME NEW k \in 1..LocalCount, NEW v \in Values, Assignment(k, v) PROVE ReturnInv'
  <2>1. current <= Len(Order) /\ current' = current
    BY <1>1 DEF Assignment, AtStatement, Translating
  <2>2. PICK t, x, s : /\ t = temps[Fn] + 1
                       /\ x = [kind |-> "assign", local |-> k, value |-> Value(v), temp |-> t]
                       /\ s = <<x>>
    OBVIOUS
  <2>3. code' = [code EXCEPT ![Fn] = @ \o s]
    BY <1>1, <2>2 DEF Assignment, Emit
  <2>4. t \in Nat \ {0}
    <3>1. Fn \in Functions
      BY <2>1, OrderIsInjective DEF TypeInv, Fn
    <3>2. temps[Fn] \in Nat
      BY <3>1 DEF TypeInv
    <3> QED
      BY <2>2, <3>2
  <2>5. x \in Instructions /\ x.kind = "assign"
    BY <2>2, <2>4 DEF Instructions
  <2>6. s \in Seq(Instructions) /\ \A i \in 1..Len(s) : s[i].kind # "return"
    BY <2>2, <2>5
  <2> QED
    BY <2>1, <2>3, <2>6, NoReturn
<1>2. ASSUME NEW f \in Callees, NEW n \in 0..MaxArgs, BeginCall(f, n) PROVE ReturnInv'
  BY <1>2 DEF BeginCall, ReturnInv, OneReturn
<1>3. ASSUME NEW x \in Operands, Argument(x) PROVE ReturnInv'
  <2>1. current <= Len(Order) /\ current' = current
    BY <1>3 DEF Argument, AtArgument, Translating
  <2>2. PICK p, s : p = Push(x) /\ s = <<p>>
    OBVIOUS
  <2>3. code' = [code EXCEPT ![Fn] = @ \o s]
    BY <1>3, <2>2 DEF Argument, Emit
  <2>4. p \in Instructions /\ p.kind = "pushl"
    BY <2>2 DEF Push, Instructions
  <2>5. s \in Seq(Instructions) /\ \A i \in 1..Len(s) : s[i].kind # "return"
    BY <2>2, <2>4
  <2> QED
    BY <2>1, <2>3, <2>5, NoReturn
<1>4. ASSUME EndCall PROVE ReturnInv'
  <2>1. current <= Len(Order) /\ current' = current /\ open # <<>>
    BY <1>4 DEF EndCall, Translating
  <2>2. /\ Innermost.callee \in Callees /\ Innermost.args \in Seq(Operands)
        /\ Innermost.result \in TempNumbers /\ pushed \in Nat
    <3>1. open \in Seq(OpenCalls) /\ pushed \in Nat
      BY StepIsNat DEF TypeInv, Bounded
    <3>2. open[Len(open)] \in OpenCalls
      BY <2>1, <3>1
    <3> QED
      BY <3>1, <3>2 DEF OpenCalls, Innermost
  <2>3. PICK r, x, y, p, s, t :
          /\ r = TempOperand(Innermost.result)
          /\ x = [kind |-> "call", callee |-> Innermost.callee, args |-> Innermost.args]
          /\ y = [kind |-> "addl", words |-> pushed] /\ p = Push(r)
          /\ s = <<x, y>> /\ t = Append(s, p)
    OBVIOUS
  <2>4. \/ code' = [code EXCEPT ![Fn] = @ \o s]
        \/ code' = [code EXCEPT ![Fn] = @ \o t]
    <3>1. CallCode(Innermost).instructions = s
      BY <2>3 DEF CallCode
    <3> QED
      BY <1>4, <2>3, <3>1 DEF EndCall, Emit
  <2>5. x \in Instructions /\ y \in Instructions /\ x.kind = "call" /\ y.kind = "addl"
    BY <2>2, <2>3 DEF Instructions
  <2>6. p \in Instructions /\ p.kind = "pushl"
    <3>1. Innermost.result \in Nat
      BY <2>2, StepIsNat DEF TempNumbers
    <3>2. r \in Operands
      BY <2>3, <3>1 DEF TempOperand, Operand, Operands
    <3> QED
      BY <2>3, <3>2 DEF Push, Instructions
  <2>7. s \in Seq(Instructions) /\ \A i \in 1..Len(s) : s[i].kind # "return"
    BY <2>3, <2>5
  <2>8. t \in Seq(Instructions) /\ \A i \in 1..Len(t) : t[i].kind # "return"
    BY <2>3, <2>5, <2>6
  <2>9. CASE code' = [code EXCEPT ![Fn] = @ \o s]
    BY <2>1, <2>7, <2>9, NoReturn
  <2>10. CASE code' = [code EXCEPT ![Fn] = @ \o t]
    BY <2>1, <2>8, <2>10, NoReturn
  <2> QED
    BY <2>4, <2>9, <2>10
<1>5. ASSUME EndFunction PROVE ReturnInv'
  BY <1>5, ReturnPrinted
<1>6. ASSUME NEW v \in Values PROVE ConstantOperand(v) \in Operands
  BY DEF ConstantOperand, Operand, Operands
<1>7. ASSUME NEW k \in 1..LocalCount PROVE LocalOperand(k) \in Operands
  BY DEF LocalOperand, Operand, Operands
<1> QED
  BY <1>1, <1>2, <1>3, <1>4, <1>5, <1>6, <1>7 DEF Translate, Callees

-----------------------------------------------------------------------------
(* The operation of the instruction that executes.                          *)
LEMMA OperationHere ==
  ASSUME IInv, ReadInv, phase = "run",
         NEW f, f = pc[1], NEW i, i = pc[2], NEW c, c = code[f], NEW x, x = c[i],
         IsOperation(x), NEW at, at = 1 + OperationsBefore(c, i)
  PROVE  /\ at \in Nat \ {0} /\ at <= Len(program[f]) /\ program[f][at] = OperationOf(x)
         /\ OperationsBefore(c, i + 1) = at
<1>1. f \in Functions /\ c \in Seq(Instructions) /\ i \in 1..Len(c) /\ i \in Nat \ {0}
  BY Stands
<1>2. Reads(c, program[f])
  BY <1>1 DEF ReadInv
<1>3. PICK n \in Nat : n = Len(c)
  BY <1>1
<1>4. at \in 1..OperationsBefore(c, n + 1)
  BY <1>1, <1>3, CountInside
<1>5. OperationsBefore(c, n + 1) = Len(program[f])
  BY <1>2, <1>3 DEF Reads
<1>6. program[f][at] = OperationOf(x)
  BY <1>1, <1>2 DEF Reads
<1>7. OperationsBefore(c, i + 1) = OperationsBefore(c, i) + 1 /\ OperationsBefore(c, i) \in Nat
  BY <1>1, OperationCounts
<1>8. OperationsBefore(c, n + 1) \in Nat
  BY <1>3, OperationCounts
<1> QED
  BY <1>4, <1>5, <1>6, <1>7, <1>8

\* The return stands behind all of them.
LEMMA ReturnHere ==
  ASSUME IInv, ReadInv, ReturnInv, phase = "run",
         NEW f, f = pc[1], NEW i, i = pc[2], NEW c, c = code[f], c[i].kind = "return"
  PROVE  ~(1 + OperationsBefore(c, i) <= Len(program[f]))
<1>1. f \in Functions /\ c \in Seq(Instructions) /\ i \in 1..Len(c) /\ i \in Nat \ {0}
  BY Stands
<1>2. i = Len(c)
  <2>1. PICK j \in 1..Len(Order) : Order[j] = f
    <3>1. Functions = {Order[j] : j \in 1..Len(Order)}
      BY OrderAssumption DEF Functions, ToSet
    <3> QED
      BY <1>1, <3>1
  <2>2. OneReturn(c, j < current)
    BY <2>1 DEF ReturnInv
  <2> QED
    BY <1>1, <2>2 DEF OneReturn
<1>3. Len(program[f]) = OperationsBefore(c, i + 1)
  BY <1>1, <1>2 DEF ReadInv, Reads
<1>4. OperationsBefore(c, i + 1) = OperationsBefore(c, i) /\ OperationsBefore(c, i) \in Nat
  <2>1. ~IsOperation(c[i])
    BY DEF IsOperation
  <2> QED
    BY <1>1, <2>1, OperationCounts
<1> QED
  BY <1>3, <1>4

\* The inductive invariant of the refinement.
AllInv == IInv /\ ReadInv /\ ReturnInv /\ Seen(memory)

\* The parts of an activation.
LEMMA ActivationFields ==
  ASSUME NEW words, NEW base, NEW had, NEW place, NEW f, f = place[1], NEW i, i = place[2],
         NEW c, c = code[f], NEW at, at = 1 + OperationsBefore(c, i),
         NEW locals, locals = LocalsAt(words, base)
  PROVE  ActivationAt(code, words, base, had, place)
           = [fn |-> f, at |-> at, args |-> had, locals |-> locals]
BY Zenon DEF ActivationAt

\* An assignment stores into a local of the activation that runs.
LEMMA RefinesAssign ==
  ASSUME AllInv, Plain, Assign
  PROVE  Meaning!Next
<1>1. PICK f, i, c, x, place : f = pc[1] /\ i = pc[2] /\ c = code[f] /\ x = c[i] /\ place = pc'
  OBVIOUS
<1>2. PICK base, a, t, new : /\ base = ebp /\ a = FrameAddress(ebp, LocalOperand(x.local))
                             /\ t = FrameAddress(ebp, TempOperand(x.temp)) /\ new = memory'
  OBVIOUS
<1>3. /\ phase = "run" /\ x.kind = "assign"
      /\ new = Stored(Stored(memory, t, Pointer(a)), a, x.value)
      /\ place = <<f, i + 1>> /\ ebp' = base /\ received' = received
      /\ phase' = "run" /\ code' = code /\ program' = program
  BY <1>1, <1>2 DEF Assign, At, Running, Instruction, Continue, KeepCode, translating
<1>4. /\ DOMAIN memory = Addresses /\ i \in Nat \ {0} /\ x \in Instructions
      /\ base \in 1..Depth - 1 /\ Depth \in Nat /\ LocalCount \in Nat
      /\ esp \in Nat /\ esp >= 1 /\ esp <= base - LocalCount - 2
  BY <1>1, <1>2, <1>3, Stands DEF AllInv
<1>5. /\ x.local \in 1..LocalCount /\ x.temp \in Nat \ {0}
      /\ \E v \in Values : x.value = Value(v)
  BY <1>3, <1>4 DEF Instructions
<1>6. PICK k \in 1..LocalCount, n \in Nat \ {0} : k = x.local /\ n = x.temp
  BY <1>5
<1>7. a = base - k /\ t = base - n - LocalCount
  <2>1. a = base - k - 0
    BY <1>2, <1>6 DEF FrameAddress, LocalOperand, Operand
  <2>2. t = base - n - LocalCount
    BY <1>2, <1>6 DEF FrameAddress, TempOperand, Operand
  <2>3. base \in Int
    BY <1>4
  <2> QED
    BY <2>1, <2>2, <2>3
<1>8. /\ a \in Addresses /\ a < base /\ t < base - LocalCount
      /\ \A l \in 1..LocalCount : base - l \in Addresses /\ base - l # t
                                  /\ (l # k => base - l # a)
  BY <1>4, <1>7 DEF Addresses
<1>9. \A z \in Addresses : z # a /\ z # t => new[z] = memory[z]
  <2>1. PICK one : one = Stored(memory, t, Pointer(a))
    OBVIOUS
  <2>2. DOMAIN one = Addresses /\ \A z \in Addresses : z # t => one[z] = memory[z]
    BY <1>4, <2>1, StoredWords
  <2>3. \A z \in Addresses : z # a => new[z] = one[z]
    BY <1>3, <2>1, <2>2, StoredWords
  <2> QED
    BY <2>2, <2>3
<1>10. new[a] = x.value
  <2>1. PICK one : one = Stored(memory, t, Pointer(a))
    OBVIOUS
  <2>2. DOMAIN one = Addresses
    BY <1>4, <2>1, StoredWords
  <2> QED
    BY <1>3, <1>8, <2>1, <2>2, StoredWords
<1>11. Same(new, memory, base)
  <2>1. \A z \in base..Depth : z \in Addresses /\ z # a /\ z # t
    BY <1>4, <1>7, <1>8 DEF Addresses
  <2> QED
    BY <1>9, <2>1 DEF Same
<1>12. PICK rest, had :
         /\ Split(CallStack, rest, ActivationAt(code, memory, ebp, had, pc))
         /\ Split(CallStack', rest, ActivationAt(code, memory', ebp, had, pc'))
  BY <1>2, <1>3, <1>11, SameFrames DEF AllInv
<1>13. PICK l, m : l = LocalsAt(memory, base) /\ m = LocalsAt(new, base)
  OBVIOUS
<1>14. m = [l EXCEPT ![k] = x.value]
  <2>1. /\ l = [j \in 1..LocalCount |-> l[j]]
        /\ \A j \in 1..LocalCount : l[j] = Visible(memory[base - j])
    BY <1>4, <1>13 DEF LocalsAt, FrameAddress, LocalOperand, Operand
  <2>2. /\ m = [j \in 1..LocalCount |-> m[j]]
        /\ \A j \in 1..LocalCount : m[j] = Visible(new[base - j])
    BY <1>4, <1>13 DEF LocalsAt, FrameAddress, LocalOperand, Operand
  <2>3. \A j \in 1..LocalCount : j # k => m[j] = l[j]
    BY <1>8, <1>9, <2>1, <2>2
  <2>4. m[k] = x.value
    <3>1. m[k] = Visible(x.value)
      BY <1>7, <1>10, <2>2
    <3>2. Visible(x.value) = x.value
      BY <1>5 DEF Visible, Value
    <3> QED
      BY <3>1, <3>2
  <2> QED
    BY <2>1, <2>2, <2>3, <2>4
<1>15. PICK at, op : at = 1 + OperationsBefore(c, i) /\ op = OperationOf(x)
  OBVIOUS
<1>16. /\ at \in Nat \ {0} /\ at <= Len(program[f]) /\ program[f][at] = op
       /\ OperationsBefore(c, i + 1) = at
  <2>1. IsOperation(x)
    BY <1>3 DEF IsOperation
  <2> QED
    BY <1>1, <1>3, <1>15, <2>1, OperationHere DEF AllInv
<1>17. op.kind = "store" /\ op.local = k /\ op.value = x.value
  BY <1>3, <1>15, <1>6 DEF OperationOf
<1>18. PICK top, after : /\ top = [fn |-> f, at |-> at, args |-> had, locals |-> l]
                         /\ after = [fn |-> f, at |-> at + 1, args |-> had, locals |-> m]
  OBVIOUS
<1>19. Split(CallStack, rest, top)
  <2>1. ActivationAt(code, memory, ebp, had, pc) = top
    BY <1>1, <1>2, <1>13, <1>15, <1>18, ActivationFields
  <2> QED
    BY Zenon, <1>12, <2>1
<1>20. Split(CallStack', rest, after)
  <2>1. place[1] = f /\ place[2] = i + 1
    BY <1>3
  <2>2. at + 1 = 1 + OperationsBefore(c, i + 1)
    BY <1>16
  <2>3. ActivationAt(code, new, base, had, place) = after
    BY <1>1, <1>13, <1>18, <2>1, <2>2, ActivationFields
  <2> QED
    BY Zenon, <1>1, <1>2, <1>12, <2>3
<1>21. after = [top EXCEPT !.at = @ + 1, !.locals[op.local] = op.value]
  <2>1. PICK one : one = [top EXCEPT !.at = @ + 1]
    OBVIOUS
  <2>2. one = [fn |-> f, at |-> at + 1, args |-> had, locals |-> l]
    BY <1>18, <2>1
  <2>3. after = [one EXCEPT !.locals = m]
    BY <1>18, <2>2
  <2>4. m = [one.locals EXCEPT ![op.local] = op.value]
    BY <1>14, <1>17, <2>2
  <2> QED
    BY <2>1, <2>3, <2>4
<1>22. Meaning!Store(top, rest)
  <2>1. CallStack' = Append(rest,
           [top EXCEPT !.at = @ + 1, !.locals[op.local] = op.value])
    BY <1>20, <1>21 DEF Split
  <2>2. top.fn = f /\ top.at = at
    BY <1>18
  <2>3. PICK body : body = program[top.fn]
    OBVIOUS
  <2>4. top.at <= Len(body) /\ op = body[top.at]
    BY <1>16, <2>2, <2>3
  <2> QED
    BY <1>3, <1>17, <2>1, <2>3, <2>4, StoreMeans
<1>23. CallStack # <<>> /\ top = Last(CallStack) /\ rest = Front(CallStack)
  BY <1>19 DEF Split
<1> QED
  BY <1>3, <1>22, <1>23, StepMeans

\* A push is part of a call to come ...
LEMMA RefinesPush ==
  ASSUME AllInv, Plain, FunctionArg
  PROVE  UNCHANGED Meaning!vars
<1>1. PICK top, base, low \in Int : top = esp /\ base = ebp /\ low = ebp - LocalCount /\ top < low
  <2>1. /\ esp \in Nat /\ esp <= ebp - LocalCount - 2 /\ ebp \in 1..Depth - 1
        /\ Depth \in Nat /\ LocalCount \in Nat
    BY Stands DEF AllInv, FunctionArg, At, Running
  <2> QED
    BY <2>1
<1>2. /\ phase = "run" /\ phase' = "run" /\ UNCHANGED translating /\ ebp' = ebp
      /\ Continue /\ ~IsOperation(Instruction) /\ UNCHANGED received
      /\ memory' = Stored(memory, top - 1, Fetched(Instruction.source))
  BY <1>1 DEF FunctionArg, At, Running, KeepCode, IsOperation
<1>3. top \in Nat /\ Depth \in Nat /\ low >= 1 /\ DOMAIN memory = Addresses
  BY <1>1, <1>2, Stands DEF AllInv
<1>4. Same(memory', memory, low)
  <2>1. PICK new : new = memory'
    OBVIOUS
  <2>2. \A a \in Addresses : a # top - 1 => new[a] = memory[a]
    BY <1>2, <1>3, <2>1, StoredWords
  <2>3. \A a \in low..Depth : a \in Addresses /\ a # top - 1
    BY <1>1, <1>3 DEF Addresses
  <2>4. Same(new, memory, low)
    BY <2>2, <2>3 DEF Same
  <2> QED
    BY <2>1, <2>4
<1> QED
  BY <1>1, <1>2, <1>4, QuietStep DEF AllInv

\* ... and a pop part of a call that was.
LEMMA RefinesPop ==
  ASSUME AllInv, Plain, PopArguments
  PROVE  UNCHANGED Meaning!vars
<1>1. /\ phase = "run" /\ phase' = "run" /\ UNCHANGED translating /\ ebp' = ebp
      /\ Continue /\ ~IsOperation(Instruction) /\ UNCHANGED received /\ memory' = memory
  BY DEF PopArguments, At, Running, KeepCode, IsOperation
<1>2. Same(memory', memory, ebp - LocalCount)
  BY <1>1 DEF Same
<1> QED
  BY <1>1, <1>2, QuietStep DEF AllInv

\* Where a call stands.
LEMMA CallHere ==
  ASSUME IInv, Plain, At("call"), NEW f, f = pc[1], NEW i, i = pc[2], NEW c, c = code[f],
         NEW x, x = c[i], NEW args, args = x.args
  PROVE  /\ args \in Seq(Operands) /\ x.callee \in Callees /\ IsOperation(x)
         /\ esp = ebp - Reserved(f) - Len(args)
         /\ Resumes(f, i + 1, Reserved(f) + Len(args))
<1>1. phase = "run" /\ x.kind = "call"
  BY DEF At, Running, Instruction
<1>2. /\ c \in Seq(Instructions) /\ Body(c) /\ i \in 1..Len(c) /\ c[i] \in Instructions
      /\ ebp \in 1..Depth - 1 /\ Depth \in Nat
  BY <1>1, Stands
<1>3. PICK h \in Nat : Height(c, i, h) /\ esp = ebp - Reserved(f) - h
  BY <1>1, PushedHere
<1>4. /\ Given(c, i, h, args) /\ i < Len(c)
      /\ c[i + 1].kind = "addl" /\ c[i + 1].words = h
  BY <1>1, <1>2, <1>3, Heights
<1>5. h = Len(args)
  BY <1>4 DEF Given
<1>6. Resumes(f, i + 1, Reserved(f) + Len(args))
  <2>1. i + 1 \in 2..Len(c)
    BY <1>2, <1>4
  <2> QED
    BY <1>4, <1>5, <2>1 DEF Resumes
<1> QED
  BY <1>1, <1>2, <1>3, <1>5, <1>6, InstructionShape DEF IsOperation

\* The arguments that arrive are those that the operation passes.
LEMMA PassedArrive ==
  ASSUME IInv, Plain, At("call"), NEW x, x = Instruction, NEW op, op = OperationOf(x),
         NEW l, l = LocalsAt(memory, ebp)
  PROVE  Meaning!Passed(op, l) = Arrived(x.args, memory, esp)
<1>1. PICK args, read : args = x.args /\ read = ArgumentsRead(args)
  OBVIOUS
<1>2. args \in Seq(Operands) /\ x.kind = "call"
  BY <1>1, CallHere DEF At, Instruction
<1>3. op.args = read
  BY <1>1, <1>2 DEF OperationOf
<1>4. /\ DOMAIN read = DOMAIN args
      /\ \A j \in DOMAIN args :
           read[j] = IF args[j].kind = "temp" THEN Operand("result", Result) ELSE args[j]
  BY <1>1 DEF ArgumentsRead
<1>5. ebp \in 1..Depth - 1 /\ Depth \in Nat
  BY Stands DEF At, Running
<1>6. ASSUME NEW j \in DOMAIN args
      PROVE  Meaning!ValueOf(read[j], l)
               = IF args[j].kind = "temp" THEN Result ELSE Visible(memory[esp + j - 1])
  <2>1. PICK y : y = args[j]
    OBVIOUS
  <2>2. y \in Operands
    BY <1>2, <2>1
  <2>3. CASE y.kind = "temp"
    <3>1. read[j] = [kind |-> "result", of |-> Result]
      BY <1>4, <2>1, <2>3 DEF Operand
    <3> QED
      BY <2>1, <2>3, <3>1 DEF Meaning!ValueOf
  <2>4. CASE y.kind # "temp"
    <3>1. memory[esp + j - 1] = Fetched(y)
      BY <1>1, <2>1, <2>4, ArgumentsHere DEF ArgumentsArrive
    <3>2. read[j] = y
      BY <1>4, <2>1, <2>4
    <3>3. CASE y.kind = "constant"
      <4>1. PICK v \in Values : y.of = Value(v)
        BY <2>2, <3>3 DEF Operands
      <4>2. Visible(y.of) = y.of
        BY <4>1 DEF Visible, Value
      <4>3. Fetched(y) = y.of
        BY <3>3 DEF Fetched
      <4>4. Meaning!ValueOf(y, l) = y.of
        BY <3>3 DEF Meaning!ValueOf
      <4> QED
        BY Zenon, <2>1, <2>4, <3>1, <3>2, <4>2, <4>3, <4>4
    <3>4. CASE y.kind = "local"
      <4>1. y.of \in 1..LocalCount
        BY <2>2, <3>4, OperandShape
      <4>2. FrameAddress(ebp, y) = FrameAddress(ebp, LocalOperand(y.of))
        BY <3>4 DEF FrameAddress, LocalOperand, Operand
      <4>3. Fetched(y) = memory[FrameAddress(ebp, LocalOperand(y.of))]
        BY <3>4, <4>2 DEF Fetched
      <4>4. l[y.of] = Visible(memory[FrameAddress(ebp, LocalOperand(y.of))])
        BY <4>1 DEF LocalsAt
      <4>5. Meaning!ValueOf(y, l) = l[y.of]
        BY <3>4 DEF Meaning!ValueOf
      <4> QED
        BY Zenon, <2>1, <2>4, <3>1, <3>2, <4>3, <4>4, <4>5
    <3> QED
      BY <2>2, <2>4, <3>3, <3>4, OperandShape
  <2> QED
    BY <2>3, <2>4
<1>7. Meaning!Passed(op, l) = [j \in DOMAIN read |-> Meaning!ValueOf(read[j], l)]
  BY <1>3 DEF Meaning!Passed
<1>8. Arrived(args, memory, esp) =
        [j \in DOMAIN args |->
           IF args[j].kind = "temp" THEN Result ELSE Visible(memory[esp + j - 1])]
  BY Zenon DEF Arrived
<1> QED
  BY Zenon, <1>1, <1>4, <1>6, <1>7, <1>8

\* The locals of a frame stay as they are with the words from the lowest of them on.
LEMMA SameLocals ==
  ASSUME NEW words, NEW new, NEW base \in Int, base <= Depth, Depth \in Nat, LocalCount \in Nat,
         Same(new, words, base - LocalCount)
  PROVE  Same(new, words, base) /\ LocalsAt(new, base) = LocalsAt(words, base)
<1>1. PICK low \in Int, d \in Nat : low = base - LocalCount /\ d = Depth
  OBVIOUS
<1>2. \A a \in low..d : new[a] = words[a]
  BY Zenon, <1>1 DEF Same
<1>3. \A a \in base..d : a \in low..d
  BY <1>1
<1>4. \A a \in base - LocalCount..base - 1 : a \in low..d
  BY <1>1
<1>5. \A a \in base - LocalCount..base - 1 : new[a] = words[a]
  BY <1>2, <1>4
<1>6. Same(new, words, base)
  BY <1>1, <1>2, <1>3 DEF Same
<1> QED
  BY <1>5, <1>6, LocalsKept

\* What is called elsewhere receives what the operation passes.
LEMMA RefinesExternalCall ==
  ASSUME AllInv, Plain, ExternalCall
  PROVE  Meaning!Next
<1>1. PICK f, i, c, x, place : f = pc[1] /\ i = pc[2] /\ c = code[f] /\ x = c[i] /\ place = pc'
  OBVIOUS
<1>2. PICK base, args, new : base = ebp /\ args = x.args /\ new = memory'
  OBVIOUS
<1>3. /\ phase = "run" /\ x.kind = "call" /\ x.callee \in Externals /\ x = Instruction
      /\ place = <<f, i + 1>> /\ ebp' = base /\ At("call")
      /\ phase' = "run" /\ code' = code /\ program' = program
  BY <1>1, <1>2 DEF ExternalCall, At, Running, Instruction, Continue, KeepCode, translating
<1>4. /\ received' = Append(received, [fn |-> x.callee, args |-> Arrived(args, memory, esp)])
      /\ new = [a \in Addresses |-> IF a < esp + Len(args) THEN Garbage ELSE memory[a]]
  BY <1>1, <1>2 DEF ExternalCall, Instruction
<1>5. /\ i \in Nat \ {0} /\ f \in Functions /\ esp \in Nat
      /\ base \in 1..Depth - 1 /\ Depth \in Nat /\ LocalCount \in Nat
      /\ esp <= base - LocalCount - 2 /\ esp >= 1
  BY <1>1, <1>2, <1>3, Stands DEF AllInv
<1>6. /\ args \in Seq(Operands) /\ IsOperation(x)
      /\ esp = base - Reserved(f) - Len(args)
  BY <1>1, <1>2, <1>3, CallHere DEF AllInv
<1>7. PICK low \in Int, above \in Int : /\ low = base - LocalCount /\ above = esp + Len(args)
                                        /\ above < low /\ low >= 1 /\ low <= base
  <2>1. PICK n \in Nat, r \in Nat : n = Len(args) /\ r = Reserved(f) /\ r >= LocalCount + 2
    BY <1>5, <1>6, ReservedIsEnough DEF AllInv, IInv
  <2> QED
    BY <1>5, <1>6, <2>1
<1>8. Same(new, memory, base - LocalCount)
  <2>1. \A a \in low..Depth : a \in Addresses /\ ~(a < above)
    BY <1>5, <1>7 DEF Addresses
  <2>2. \A a \in Addresses : ~(a < above) => new[a] = memory[a]
    BY <1>4, <1>7
  <2>3. Same(new, memory, low)
    BY <2>1, <2>2 DEF Same
  <2> QED
    BY <1>7, <2>3
<1>9. PICK l : l = LocalsAt(memory, base)
  OBVIOUS
<1>10. Same(new, memory, base) /\ LocalsAt(new, base) = l
  BY <1>5, <1>8, <1>9, SameLocals
<1>11. PICK rest, had :
         /\ Split(CallStack, rest, ActivationAt(code, memory, ebp, had, pc))
         /\ Split(CallStack', rest, ActivationAt(code, memory', ebp, had, pc'))
  BY <1>2, <1>3, <1>10, SameFrames DEF AllInv
<1>12. PICK at, op : at = 1 + OperationsBefore(c, i) /\ op = OperationOf(x)
  OBVIOUS
<1>13. /\ at \in Nat \ {0} /\ at <= Len(program[f]) /\ program[f][at] = op
       /\ OperationsBefore(c, i + 1) = at
  <2>1. IsOperation(x) /\ phase = "run"
    BY <1>3, <1>6
  <2> QED
    BY <1>1, <1>12, <2>1, OperationHere DEF AllInv
<1>14. op.kind = "call" /\ op.callee = x.callee
  BY <1>3, <1>12 DEF OperationOf
<1>15. PICK top, after : /\ top = [fn |-> f, at |-> at, args |-> had, locals |-> l]
                         /\ after = [fn |-> f, at |-> at + 1, args |-> had, locals |-> l]
  OBVIOUS
<1>16. Split(CallStack, rest, top)
  <2>1. ActivationAt(code, memory, ebp, had, pc) = top
    BY <1>1, <1>2, <1>9, <1>12, <1>15, ActivationFields
  <2> QED
    BY Zenon, <1>11, <2>1
<1>17. Split(CallStack', rest, after)
  <2>1. place[1] = f /\ place[2] = i + 1
    BY <1>3
  <2>2. at + 1 = 1 + OperationsBefore(c, i + 1)
    BY <1>13
  <2>3. ActivationAt(code, new, base, had, place) = after
    BY <1>1, <1>10, <1>15, <2>1, <2>2, ActivationFields
  <2> QED
    BY Zenon, <1>1, <1>2, <1>11, <2>3
<1>18. after = [top EXCEPT !.at = @ + 1]
  BY <1>15
<1>19. Meaning!CallExternal(top, rest)
  <2>1. CallStack' = Append(rest, [top EXCEPT !.at = @ + 1])
    BY <1>17, <1>18 DEF Split
  <2>2. top.fn = f /\ top.at = at /\ top.locals = l
    BY <1>15
  <2>3. PICK passed : passed = Meaning!Passed(op, top.locals)
    OBVIOUS
  <2>4. passed = Arrived(args, memory, esp)
    <3>1. Meaning!Passed(op, l) = Arrived(args, memory, esp)
      BY <1>2, <1>3, <1>9, <1>12, PassedArrive DEF AllInv
    <3> QED
      BY Zenon, <2>2, <2>3, <3>1
  <2>5. PICK body : body = program[top.fn]
    OBVIOUS
  <2>6. top.at <= Len(body) /\ op = body[top.at]
    BY <1>13, <2>2, <2>5
  <2>7. received' = Append(received, [fn |-> op.callee, args |-> passed])
    BY <1>4, <1>14, <2>4
  <2>8. op.callee \in Externals
    BY <1>3, <1>14
  <2> QED
    BY <1>3, <1>14, <2>1, <2>3, <2>5, <2>6, <2>7, <2>8, CallExternalMeans
<1>20. CallStack # <<>> /\ top = Last(CallStack) /\ rest = Front(CallStack)
  BY <1>16 DEF Split
<1> QED
  BY <1>3, <1>19, <1>20, StepMeans

Added(r, t, x) == r = Append(t, x)
Behind(t, rest, x, y) == t = rest \o <<x, y>>

\* Two are appended one after the other.
LEMMA AppendTwo ==
  ASSUME NEW S, NEW rest \in Seq(S), NEW x \in S, NEW y \in S,
         NEW s, Added(s, rest, x), NEW t, Added(t, s, y)
  PROVE  Behind(t, rest, x, y)
<1>1. PICK two : two = <<x, y>>
  OBVIOUS
<1>2. s = Append(rest, x) /\ t = Append(s, y)
  BY DEF Added
<1>3. PICK n \in Nat : n = Len(rest)
  OBVIOUS
<1>4. PICK u : u = rest \o two
  OBVIOUS
<1>5. /\ two \in Seq(S) /\ Len(two) = 2 /\ two[1] = x /\ two[2] = y
  BY <1>1
<1>6. /\ u \in Seq(S) /\ Len(u) = n + 2 /\ u[n + 1] = x /\ u[n + 2] = y
      /\ \A k \in 1..n : u[k] = rest[k]
  BY <1>1, <1>3, <1>4
<1>7. s \in Seq(S) /\ Len(s) = n + 1 /\ s[n + 1] = x /\ \A k \in 1..n : s[k] = rest[k]
  BY <1>3, <1>2
<1>8. /\ t \in Seq(S) /\ Len(t) = n + 2 /\ t[n + 2] = y /\ \A k \in 1..n + 1 : t[k] = s[k]
  BY <1>7, <1>2
<1>9. u \in [1..n + 2 -> S] /\ t \in [1..n + 2 -> S]
  BY <1>6, <1>8, SeqIsFunction
<1>10. \A k \in 1..n + 2 : u[k] = t[k]
  <2>1. SUFFICES ASSUME NEW k \in 1..n + 2 PROVE u[k] = t[k]
    OBVIOUS
  <2>2. k \in 1..n \/ k = n + 1 \/ k = n + 2
    OBVIOUS
  <2>3. n + 1 \in 1..n + 1 /\ (k \in 1..n => k \in 1..n + 1)
    OBVIOUS
  <2> QED
    BY <1>6, <1>7, <1>8, <2>2, <2>3
<1>11. u = t
  BY <1>9, <1>10
<1> QED
  BY <1>1, <1>4, <1>11 DEF Behind

OneMore(r, rest, x) == \E S : rest \in Seq(S) /\ x \in S /\ r = Append(rest, x)

\* Beneath another frame, which is above the one that is entered, the activations stay.
LEMMA RestGrown ==
  ASSUME TypeInv, TranslationInv, Plain,
         NEW words, NEW m \in Nat \ {0}, NEW b \in [Nat -> Int], NEW g \in [Nat -> Functions],
         Chain(words, m, b, g), NEW new, Same(new, words, b[m]), NEW p, NEW q,
         NEW n, n = m + 1, NEW c, Over(m, b, c),
         NEW rest, rest = Rest(words, m, b, p), NEW x, x = ActivationOf(new, n, c, q, m),
         NEW r, r = Rest(new, n, c, q)
  PROVE  OneMore(r, rest, x)
<1>1. r = [i \in 1..m |-> ActivationOf(new, n, c, q, i)]
  <2>1. n - 1 = m
    OBVIOUS
  <2> QED
    BY Zenon, <2>1 DEF Rest
<1>2. r[m] = x
  BY <1>1
<1>3. PICK s : s = r
  OBVIOUS
<1>4. s = [i \in 1..m |-> r[i]]
  BY <1>1, <1>3
<1>5. PICK S : S = {r[i] : i \in 1..m}
  OBVIOUS
<1>6. \A i \in 1..m : r[i] \in S
  BY <1>5
<1>7. PICK t : t = [i \in 1..m - 1 |-> r[i]]
  OBVIOUS
<1>8. t \in Seq(S) /\ s = Append(t, r[m])
  BY <1>6, <1>7, <1>4, AppendedTo
<1>9. t = rest
  <2>1. \A i \in 1..m - 1 : r[i] = ActivationOf(words, m, b, p, i)
    <3>1. SUFFICES ASSUME NEW i \in 1..m - 1 PROVE r[i] = ActivationOf(words, m, b, p, i)
      OBVIOUS
    <3>2. ActivationOf(new, n, c, q, i) = ActivationOf(words, m, b, p, i)
      <4>1. n \in Nat /\ n >= m
        OBVIOUS
      <4> QED
        BY <4>1, OlderKept DEF Over
    <3>3. i \in 1..m
      OBVIOUS
    <3> QED
      BY <1>1, <3>2, <3>3
  <2> QED
    BY Zenon, <1>7, <2>1 DEF Rest
<1>10. x \in S
  BY <1>6, <1>2
<1> QED
  BY <1>3, <1>8, <1>9, <1>10, <1>2 DEF OneMore

\* A new frame below %ebp is a new activation above the others, and only the place
\* where the caller goes on has changed of these.
LEMMA MoreFrames ==
  ASSUME IInv, Plain, phase = "run", phase' = "run", code' = code,
         NEW new, new = memory', Same(new, memory, ebp),
         NEW e \in Int, e = ebp', e >= 1, e < ebp, NEW f, f = pc[1], NEW j \in Nat,
         Linked(new, e, ebp, f, j), NEW callee \in Functions,
         NEW place, place = pc', NEW return, return = <<f, j>>
  PROVE  \E rest, had :
           /\ Split(CallStack, rest, ActivationAt(code, memory, ebp, had, pc))
           /\ CallStack' = rest \o <<ActivationAt(code, new, ebp, had, return),
                                     ActivationAt(code, new, e, Had(new, e), place)>>
<1>1. PICK m \in Nat \ {0}, b \in [Nat -> Int], g \in [Nat -> Functions] :
        b[m] = ebp /\ g[m] = f /\ Chain(memory, m, b, g)
  BY FramesHere
<1>2. TypeInv /\ TranslationInv
  BY DEF IInv
<1>3. PICK base, from, top, rest :
        /\ base \in Int /\ base = ebp /\ from = pc
        /\ top = ActivationOf(memory, m, b, pc, m) /\ rest = Rest(memory, m, b, pc)
  BY <1>1
<1>4. Split(CallStack, rest, top)
  BY <1>1, <1>3, StackHere
<1>5. Chain(new, m, b, g)
  <2>1. \A a \in b[m]..Depth : new[a] = memory[a]
    BY <1>1 DEF Same
  <2> QED
    BY <1>1, <2>1, ChainKept
<1>6. PICK n \in Nat \ {0} : n = m + 1
  OBVIOUS
<1>7. PICK c \in [Nat -> Int], h \in [Nat -> Functions] :
        c[n] = e /\ h[n] = callee /\ Over(m, b, c) /\ Chain(new, n, c, h)
  <2>1. base = b[m] /\ f = g[m] /\ e < base /\ Linked(new, e, base, f, j)
    BY <1>1, <1>3
  <2>2. Extended(new, m, b, n, e, callee)
    BY <1>5, <1>6, <2>1, ChainExtended
  <2> QED
    BY <2>2 DEF Extended
<1>8. PICK more, after, last : /\ more = Rest(new, n, c, place)
                               /\ after = ActivationOf(new, n, c, place, m)
                               /\ last = ActivationOf(new, n, c, place, n)
  OBVIOUS
<1>9. Split(CallStack', more, last)
  <2>1. CallStack' = ActivationsIn(code, new, e, place)
    BY DEF CallStack
  <2>2. Chain(new, n, c, h) /\ e = c[n] /\ c[n] >= 1
    BY <1>7, <1>6
  <2>3. Split(ActivationsIn(code, new, e, place), more, last)
    BY <1>8, <2>2, ActivationsSplit
  <2> QED
    BY Zenon, <2>1, <2>3
<1>10. PICK S : rest \in Seq(S) /\ after \in S /\ more = Append(rest, after)
  <2>1. Same(new, memory, b[m])
    BY <1>1
  <2>2. rest = Rest(memory, m, b, from)
    BY <1>3
  <2>3. OneMore(more, rest, after)
    BY <1>1, <1>2, <1>7, <1>6, <1>8, <2>1, <2>2, RestGrown
  <2> QED
    BY <2>3 DEF OneMore
<1>11. CallStack' = rest \o <<after, last>>
  <2>1. PICK T : T = S \cup {last}
    OBVIOUS
  <2>2. rest \in Seq(T) /\ after \in T /\ last \in T
    BY <1>10, <2>1
  <2>3. PICK stack : stack = CallStack'
    OBVIOUS
  <2>4. Added(stack, more, last)
    BY <1>9, <2>3 DEF Split, Added
  <2>5. Added(more, rest, after)
    BY <1>10 DEF Added
  <2>6. Behind(stack, rest, after, last)
    BY <2>2, <2>4, <2>5, AppendTwo
  <2> QED
    BY <2>3, <2>6 DEF Behind
<1>12. PICK had : had = (IF m = 1 THEN <<>> ELSE Had(memory, b[m]))
  OBVIOUS
<1>13. (IF m = 1 THEN <<>> ELSE Had(new, b[m])) = had
  <2>1. CASE m = 1
    BY <1>12, <2>1
  <2>2. CASE m # 1
    <3>1. m \in 2..m
      BY <2>2
    <3>2. PICK a \in Int : a = b[m]
      OBVIOUS
    <3>3. Same(new, memory, b[m])
      BY <1>1
    <3>4. Had(new, a) = Had(memory, a)
      BY <1>1, <1>2, <3>1, <3>2, <3>3, HadKept
    <3> QED
      BY <1>12, <2>2, <3>2, <3>4
  <2> QED
    BY <2>1, <2>2
<1>14. top = ActivationAt(code, memory, ebp, had, pc)
  BY Zenon, <1>1, <1>3, <1>12 DEF ActivationOf
<1>15. last = ActivationAt(code, new, e, Had(new, e), place)
  <2>1. n # 1 /\ c[n] = e
    BY <1>7, <1>6
  <2> QED
    BY Zenon, <1>8, <2>1 DEF ActivationOf
<1>16. after = ActivationAt(code, new, ebp, had, return)
  <2>1. m # n /\ m \in 1..m /\ c[m + 1] = e
    BY <1>7, <1>6
  <2>2. c[m] = ebp /\ c[m] = b[m]
    BY <1>1, <1>7, <2>1 DEF Over
  <2>3. ReturnAddress(new, e) = return
    BY DEF ReturnAddress, CodeAddress, Linked
  <2>4. (IF m = 1 THEN <<>> ELSE Had(new, c[m])) = had
    BY Zenon, <1>13, <2>2
  <2> QED
    BY Zenon, <1>8, <2>1, <2>2, <2>3, <2>4 DEF ActivationOf
<1>17. Split(CallStack, rest, ActivationAt(code, memory, ebp, had, pc))
  BY Zenon, <1>4, <1>14
<1>18. CallStack' = rest \o <<ActivationAt(code, new, ebp, had, return),
                              ActivationAt(code, new, e, Had(new, e), place)>>
  BY Zenon, <1>11, <1>15, <1>16
<1> QED
  BY Zenon, <1>17, <1>18

-----------------------------------------------------------------------------
(* What can be seen of the stack.                                           *)

\* A word that can be seen is stored among others that can.
LEMMA SeenStored ==
  ASSUME NEW words, DOMAIN words = Addresses, Seen(words), NEW a, NEW word,
         Visible(word) \in Content, NEW new, new = Stored(words, a, word)
  PROVE  DOMAIN new = Addresses /\ Seen(new)
<1>1. /\ DOMAIN new = Addresses
      /\ a \in Addresses => new[a] = word
      /\ \A x \in Addresses : x # a => new[x] = words[x]
  BY StoredWords
<1>2. ASSUME NEW x \in Addresses PROVE Visible(new[x]) \in Content
  <2>1. CASE x = a
    BY <1>1, <2>1
  <2>2. CASE x # a
    <3>1. new[x] = words[x]
      BY <1>1, <2>2
    <3>2. Visible(words[x]) \in Content
      BY DEF Seen
    <3> QED
      BY <3>1, <3>2
  <2> QED
    BY <2>1, <2>2
<1> QED
  BY <1>1, <1>2 DEF Seen

\* Addresses and code cannot be seen, constants can.
LEMMA SeenWords ==
  /\ \A a : Visible(Pointer(a)) \in Content
  /\ \A f, i : Visible(CodeAddress(f, i)) \in Content
  /\ Visible(Garbage) \in Content
  /\ \A word \in {Value(v) : v \in Values} : Visible(word) \in Content
BY DEF Visible, Pointer, CodeAddress, Garbage, Value, Content

\* The locals of a frame are garbage or values of the program.
LEMMA SeenLocals ==
  ASSUME NEW words, Seen(words), NEW base \in Int, base - LocalCount >= 1, base <= Depth,
         LocalCount \in Nat, Depth \in Nat
  PROVE  LocalsAt(words, base) \in [1..LocalCount -> Content]
<1>1. \A k \in 1..LocalCount : base - k \in Addresses
  BY DEF Addresses
<1>2. \A k \in 1..LocalCount : FrameAddress(base, LocalOperand(k)) = base - k
  BY DEF FrameAddress, LocalOperand, Operand
<1>3. \A k \in 1..LocalCount : Visible(words[FrameAddress(base, LocalOperand(k))]) \in Content
  BY <1>1, <1>2 DEF Seen
<1> QED
  BY <1>3 DEF LocalsAt

-----------------------------------------------------------------------------
(* A call.                                                                  *)

\* What a call makes of the stack: the callee's frame, linked to the caller's, below
\* all that belongs to the caller.
LEMMA Entering ==
  ASSUME IInv, Plain, FunctionCall,
         NEW f, f = pc[1], NEW i, i = pc[2], NEW x, x = code[f][i],
         NEW base, base = ebp, NEW new, new = memory', NEW e, e = esp - 2
  PROVE  /\ e \in Int /\ e = ebp' /\ e >= 1 /\ e < base /\ x.callee \in Functions
         /\ e - LocalCount >= 1 /\ e <= Depth
         /\ base \in 1..Depth - 1 /\ Depth \in Nat /\ LocalCount \in Nat
         /\ i \in Nat \ {0}
         /\ pc' = <<x.callee, 1>>
         /\ \E one : /\ one = Stored(memory, e + 1, CodeAddress(f, i + 1))
                     /\ new = Stored(one, e, Pointer(base))
         /\ Linked(new, e, base, f, i + 1)
         /\ Same(new, memory, e + 2) /\ esp <= base - LocalCount
<1>1. esp \in Int
  BY Stands DEF FunctionCall, At, Running
<1>2. PICK c, callee, top, args, r :
        /\ c = code[f] /\ callee = x.callee /\ top = esp
        /\ args = x.args /\ r = Reserved(callee)
  OBVIOUS
<1>3. /\ phase = "run" /\ x = Instruction /\ At("call") /\ callee \in Functions
      /\ top > 1 /\ Fits(callee, top - 1)
      /\ Entered(callee, top - 1, CodeAddress(f, i + 1))
  BY <1>2 DEF FunctionCall, At, Running, Instruction
<1>4. /\ TypeInv /\ DOMAIN memory = Addresses /\ i \in Nat \ {0}
      /\ top \in Nat /\ top <= base - LocalCount - 2
      /\ base \in 1..Depth - 1 /\ Depth \in Nat /\ LocalCount \in Nat
  BY <1>2, <1>3, Stands
<1>5. r \in Nat /\ r >= LocalCount + 2
  BY <1>2, <1>3, <1>4, ReservedIsEnough
<1>6. e = top - 2 /\ top - 1 - 1 = e /\ top - 1 = e + 1 /\ e - r >= 1 /\ e \in Int
  <2>1. top - 1 - 1 - r >= 1
    BY <1>2, <1>3 DEF Fits
  <2> QED
    BY <1>2, <1>4, <1>5, <2>1
<1>7. /\ e >= 1 /\ e < base /\ e - LocalCount >= 1 /\ e <= Depth
      /\ e + 1 < base /\ top <= base - LocalCount
  BY <1>4, <1>5, <1>6
<1>8. /\ ebp' = e /\ pc' = <<callee, 1>>
      /\ new = Stored(Stored(memory, e + 1, CodeAddress(f, i + 1)), e, Pointer(base))
  BY <1>3, <1>6 DEF Entered
<1>9. PICK one : one = Stored(memory, e + 1, CodeAddress(f, i + 1))
  OBVIOUS
<1>10. new = Stored(one, e, Pointer(base))
  BY <1>8, <1>9
<1>11. e \in Addresses /\ e + 1 \in Addresses /\ e # e + 1
  BY <1>4, <1>7, <1>6 DEF Addresses
<1>12. /\ DOMAIN one = Addresses /\ one[e + 1] = CodeAddress(f, i + 1)
       /\ \A a \in Addresses : a # e + 1 => one[a] = memory[a]
  BY <1>4, <1>9, <1>11, StoredWords
<1>13. /\ new[e] = Pointer(base) /\ new[e + 1] = CodeAddress(f, i + 1)
       /\ \A a \in Addresses : a # e /\ a # e + 1 => new[a] = memory[a]
  <2>1. new[e] = Pointer(base) /\ \A a \in Addresses : a # e => new[a] = one[a]
    BY <1>10, <1>11, <1>12, StoredWords
  <2> QED
    BY <1>11, <1>12, <2>1
<1>14. Resumes(f, i + 1, base - e - 2)
  <2>1. Resumes(f, i + 1, Reserved(f) + Len(args)) /\ top = base - Reserved(f) - Len(args)
    BY <1>2, <1>3, CallHere
  <2>2. PICK n \in Nat, s \in Nat : n = Len(args) /\ s = Reserved(f)
    <3>1. args \in Seq(Operands) /\ f \in Functions
      BY <1>2, <1>3, CallHere, Stands
    <3>2. Len(args) \in Nat
      BY <3>1
    <3>3. Reserved(f) \in Nat
      BY <1>4, <3>1, ReservedIsEnough
    <3> QED
      BY <3>2, <3>3
  <2>3. base - e - 2 = s + n
    <3>1. top = base - s - n
      BY <2>1, <2>2
    <3>2. base \in Int /\ e = top - 2
      BY <1>4, <1>6
    <3> QED
      BY <3>1, <3>2
  <2> QED
    BY <2>1, <2>2, <2>3
<1>15. Linked(new, e, base, f, i + 1)
  BY <1>13, <1>14 DEF Linked
<1>16. Same(new, memory, e + 2)
  <2>1. \A a \in e + 2..Depth : a \in Addresses /\ a # e /\ a # e + 1
    BY <1>4, <1>7, <1>6 DEF Addresses
  <2> QED
    BY <1>13, <2>1 DEF Same
<1> QED
  BY <1>2, <1>3, <1>4, <1>6, <1>7, <1>8, <1>9, <1>10, <1>15, <1>16

\* The callee finds what the caller passed.
LEMMA HadPassed ==
  ASSUME IInv, Plain, At("call"), NEW f, f = pc[1], NEW i, i = pc[2], NEW x, x = code[f][i],
         NEW new, NEW e \in Int, e = esp - 2, Same(new, memory, e + 2),
         new[e + 1] = CodeAddress(f, i + 1)
  PROVE  Had(new, e) = Arrived(x.args, memory, esp)
<1>1. PICK args, top : args = x.args /\ top = esp
  OBVIOUS
<1>2. /\ i \in Nat \ {0} /\ f \in Functions /\ TypeInv
      /\ top \in Nat /\ ebp \in 1..Depth - 1 /\ Depth \in Nat
  BY <1>1, Stands DEF At, Running
<1>3. x = Instruction /\ args \in Seq(Operands) /\ top = ebp - Reserved(f) - Len(args)
  BY <1>1, CallHere DEF Instruction
<1>4. EnteredBy(code, new, e) = x
  <2>1. ReturnAddress(new, e) = <<f, i + 1>>
    BY DEF ReturnAddress, CodeAddress
  <2>2. PICK return : return = <<f, i + 1>>
    OBVIOUS
  <2>3. return[1] = f /\ return[2] - 1 = i
    BY <1>2, <2>2
  <2>4. EnteredBy(code, new, e) = code[return[1]][return[2] - 1]
    BY Zenon, <2>1, <2>2 DEF EnteredBy
  <2> QED
    BY <2>3, <2>4
<1>5. \A j \in DOMAIN args : new[top + j - 1] = memory[top + j - 1]
  <2>1. SUFFICES ASSUME NEW j \in DOMAIN args PROVE new[top + j - 1] = memory[top + j - 1]
    OBVIOUS
  <2>2. PICK n \in Nat, r \in Nat, base \in Int :
          n = Len(args) /\ r = Reserved(f) /\ base = ebp /\ j \in 1..n
    <3>1. Reserved(f) \in Nat
      BY <1>2, ReservedIsEnough
    <3>2. Len(args) \in Nat /\ j \in 1..Len(args)
      BY <1>3
    <3> QED
      BY <1>2, <3>1, <3>2
  <2>3. top = base - r - n
    BY <1>3, <2>2
  <2>4. base <= Depth - 1 /\ Depth \in Nat /\ top \in Nat
    BY <1>2, <2>2
  <2>5. j \in 1..n
    BY <2>2
  <2>6. top + j - 1 \in top..Depth
    BY <2>3, <2>4, <2>5
  <2>7. e + 2 = top
    BY <1>1, <1>2
  <2> QED
    BY <2>6, <2>7 DEF Same
<1>6. Arrived(args, new, top) = Arrived(args, memory, top)
  BY <1>5 DEF Arrived
<1>7. e + 2 = top
  BY <1>1, <1>2
<1> QED
  BY <1>1, <1>4, <1>6, <1>7 DEF Had

\* A call starts an activation with the arguments that the operation passes.
LEMMA RefinesFunctionCall ==
  ASSUME AllInv, Plain, FunctionCall
  PROVE  Meaning!Next
<1>1. PICK f, i, c, x, place, base, new, e :
        /\ f = pc[1] /\ i = pc[2] /\ c = code[f] /\ x = c[i] /\ place = pc'
        /\ base = ebp /\ new = memory' /\ e = esp - 2
  OBVIOUS
<1>2. IInv
  BY DEF AllInv
<1>3. /\ e \in Int /\ e = ebp' /\ e >= 1 /\ e < base /\ x.callee \in Functions
      /\ e - LocalCount >= 1 /\ e <= Depth
      /\ base \in 1..Depth - 1 /\ Depth \in Nat /\ LocalCount \in Nat
      /\ i \in Nat \ {0}
      /\ pc' = <<x.callee, 1>>
      /\ \E one : /\ one = Stored(memory, e + 1, CodeAddress(f, i + 1))
                  /\ new = Stored(one, e, Pointer(base))
      /\ Linked(new, e, base, f, i + 1)
      /\ Same(new, memory, e + 2) /\ esp <= base - LocalCount
  BY <1>1, <1>2, Entering
<1>4. /\ phase = "run" /\ x.kind = "call" /\ x = Instruction /\ At("call")
      /\ phase' = "run" /\ code' = code /\ program' = program /\ received' = received
  BY <1>1 DEF FunctionCall, At, Running, Instruction, KeepCode, translating
<1>5. Same(new, memory, base - LocalCount)
  <2>1. esp \in Int
    BY <1>2, <1>4, Stands
  <2>2. base - LocalCount >= e + 2
    BY <1>1, <1>3, <2>1
  <2>3. base \in Int /\ LocalCount \in Nat
    BY <1>3
  <2>4. PICK low \in Int : low = base - LocalCount /\ low >= e + 2
    BY <2>2, <2>3
  <2>5. e \in Int /\ Depth \in Nat
    BY <1>3
  <2>6. \A a \in low..Depth : a \in e + 2..Depth
    BY <2>4, <2>5
  <2>7. Same(new, memory, low)
    BY <1>3, <2>6 DEF Same
  <2> QED
    BY <2>4, <2>7
<1>6. PICK l, locals : l = LocalsAt(memory, base) /\ locals = LocalsAt(new, e)
  OBVIOUS
<1>7. Same(new, memory, base) /\ LocalsAt(new, base) = l
  BY <1>3, <1>5, <1>6, SameLocals
<1>8. Seen(new)
  <2>1. PICK one : /\ one = Stored(memory, e + 1, CodeAddress(f, i + 1))
                   /\ new = Stored(one, e, Pointer(base))
    BY <1>3
  <2>2. DOMAIN memory = Addresses /\ Seen(memory)
    BY DEF AllInv, IInv, Registers
  <2>3. DOMAIN one = Addresses /\ Seen(one)
    BY <2>1, <2>2, SeenStored, SeenWords
  <2> QED
    BY <2>1, <2>3, SeenStored, SeenWords
<1>9. locals \in [1..LocalCount -> Content]
  BY <1>3, <1>6, <1>8, SeenLocals
<1>10. i + 1 \in Nat
  BY <1>3
<1>11. PICK args, return, p :
         args = Had(new, e) /\ return = <<f, i + 1>> /\ p = i + 1
  OBVIOUS
<1>12. PICK rest, had :
         /\ Split(CallStack, rest, ActivationAt(code, memory, ebp, had, pc))
         /\ CallStack' = rest \o <<ActivationAt(code, new, ebp, had, return),
                                   ActivationAt(code, new, e, Had(new, e), place)>>
  <2>1. Same(new, memory, ebp) /\ e < ebp /\ Linked(new, e, ebp, f, p) /\ return = <<f, p>>
         /\ p \in Nat
    BY <1>1, <1>3, <1>7, <1>11, <1>10
  <2>2. x.callee \in Functions /\ e = ebp' /\ e >= 1 /\ e \in Int
    BY <1>3
  <2>3. new = memory' /\ f = pc[1] /\ place = pc'
    BY <1>1
  <2>4. IInv /\ Plain /\ phase = "run" /\ phase' = "run" /\ code' = code
    BY <1>2, <1>4
  <2> QED
    BY ONLY <2>1, <2>2, <2>3, <2>4, MoreFrames
<1>13. PICK at, op : at = 1 + OperationsBefore(c, i) /\ op = OperationOf(x)
  OBVIOUS
<1>14. /\ at \in Nat \ {0} /\ at <= Len(program[f]) /\ program[f][at] = op
       /\ OperationsBefore(c, i + 1) = at
  <2>1. IsOperation(x) /\ phase = "run"
    BY <1>4 DEF IsOperation
  <2> QED
    BY <1>1, <1>13, <2>1, OperationHere DEF AllInv
<1>15. op.kind = "call" /\ op.callee = x.callee
  BY <1>4, <1>13 DEF OperationOf
<1>16. PICK top, after, callee :
         /\ top = [fn |-> f, at |-> at, args |-> had, locals |-> l]
         /\ after = [fn |-> f, at |-> at + 1, args |-> had, locals |-> l]
         /\ callee = [fn |-> op.callee, at |-> 1, args |-> args, locals |-> locals]
  OBVIOUS
<1>17. Split(CallStack, rest, top)
  <2>1. ActivationAt(code, memory, ebp, had, pc) = top
    BY <1>1, <1>6, <1>13, <1>16, ActivationFields
  <2> QED
    BY Zenon, <1>12, <2>1
<1>18. ActivationAt(code, new, base, had, return) = after
  <2>1. return[1] = f /\ return[2] = i + 1
    BY <1>11
  <2>2. at + 1 = 1 + OperationsBefore(c, i + 1)
    BY <1>14
  <2> QED
    BY <1>1, <1>7, <1>16, <2>1, <2>2, ActivationFields
<1>19. ActivationAt(code, new, e, args, place) = callee
  <2>1. place[1] = op.callee /\ place[2] = 1
    BY <1>1, <1>3, <1>15
  <2>2. 1 = 1 + OperationsBefore(code[op.callee], 1)
    BY NoneBefore
  <2> QED
    BY <1>6, <1>16, <2>1, <2>2, ActivationFields
<1>20. CallStack' = rest \o <<after, callee>>
  BY Zenon, <1>1, <1>11, <1>12, <1>18, <1>19
<1>21. after = [top EXCEPT !.at = @ + 1]
  BY <1>16
<1>22. args = Meaning!Passed(op, top.locals)
  <2>1. new[e + 1] = CodeAddress(f, i + 1) /\ e \in Int /\ Same(new, memory, e + 2)
    BY <1>3 DEF Linked
  <2>2. f = pc[1] /\ i = pc[2] /\ x = code[f][i] /\ e = esp - 2 /\ IInv /\ Plain /\ At("call")
    BY <1>1, <1>2, <1>4
  <2>3. Had(new, e) = Arrived(x.args, memory, esp)
    BY SMTT(30), <2>1, <2>2, HadPassed
  <2>4. Meaning!Passed(op, l) = Arrived(x.args, memory, esp)
    BY <1>2, <1>1, <1>4, <1>6, <1>13, PassedArrive
  <2>5. top.locals = l
    BY <1>16
  <2> QED
    BY Zenon, <1>11, <2>3, <2>4, <2>5
<1>23. Meaning!Call(top, rest)
  <2>1. PICK passed : passed = args
    OBVIOUS
  <2>2. passed = Meaning!Passed(op, top.locals)
    BY Zenon, <1>22, <2>1
  <2>3. CallStack' = rest \o
          <<[top EXCEPT !.at = @ + 1],
            [fn |-> op.callee, at |-> 1, args |-> passed, locals |-> locals]>>
    BY Zenon, <1>16, <1>20, <1>21, <2>1
  <2>4. top.fn = f /\ top.at = at
    BY <1>16
  <2>5. PICK body : body = program[top.fn]
    OBVIOUS
  <2>6. top.at <= Len(body) /\ op = body[top.at]
    BY <1>14, <2>4, <2>5
  <2>7. op.callee \in Functions
    BY <1>3, <1>15
  <2> QED
    BY <1>4, <1>9, <1>15, <2>2, <2>3, <2>5, <2>6, <2>7, CallMeans
<1>24. CallStack # <<>> /\ top = Last(CallStack) /\ rest = Front(CallStack)
  BY <1>17 DEF Split
<1> QED
  BY <1>4, <1>23, <1>24, StepMeans

-----------------------------------------------------------------------------
(* A return.                                                                *)

\* The caller goes on where the callee's frame says.
LEMMA Resumed ==
  ASSUME NEW words, NEW m \in Nat \ {0}, NEW b \in [Nat -> Int], NEW g,
         Chain(words, m, b, g), b[m] >= 1, m > 1, NEW n, n = m - 1,
         NEW place, place = ReturnAddress(words, b[m]), NEW p
  PROVE  ActivationsIn(code, words, b[n], place) = Rest(words, m, b, p)
<1>1. n \in Nat \ {0} /\ Chain(words, n, b, g) /\ n \in 1..m /\ m \in 1..m
  BY ChainShrinks
<1>2. PICK e \in Int, low \in Int : e = b[n] /\ low = b[m]
  BY <1>1
<1>3. e >= 1
  <2>1. b[m] < b[n]
    <3>1. n < m
      OBVIOUS
    <3> QED
      BY <1>1, <3>1 DEF Chain
  <2> QED
    BY <1>2, <2>1
<1>4. ActivationsIn(code, words, e, place) = [i \in 1..n |-> ActivationOf(words, n, b, place, i)]
  <2>1. b[n] >= 1 /\ e = b[n]
    BY <1>2, <1>3
  <2> QED
    BY <1>1, <2>1, ActivationsFound
<1>5. ASSUME NEW i \in 1..n
      PROVE  ActivationOf(words, n, b, place, i) = ActivationOf(words, m, b, p, i)
  <2>1. i # m
    OBVIOUS
  <2>2. CASE i = n
    <3>1. i + 1 = m
      BY <2>2
    <3>2. (IF i = n THEN place ELSE ReturnAddress(words, b[i + 1])) = ReturnAddress(words, b[i + 1])
      BY <2>2, <3>1
    <3>3. (IF i = m THEN p ELSE ReturnAddress(words, b[i + 1])) = ReturnAddress(words, b[i + 1])
      BY <2>1
    <3> QED
      BY Zenon, <3>2, <3>3 DEF ActivationOf
  <2>3. CASE i # n
    BY Zenon, <2>1, <2>3 DEF ActivationOf
  <2> QED
    BY <2>2, <2>3
<1>6. Rest(words, m, b, p) = [i \in 1..n |-> ActivationOf(words, m, b, p, i)]
  BY DEF Rest
<1> QED
  BY Zenon, <1>2, <1>4, <1>5, <1>6

\* A return removes the activation that runs, and the program ends with the last one.
LEMMA RefinesReturn ==
  ASSUME AllInv, Plain, Return
  PROVE  Meaning!Next
<1>1. PICK f, i, c, base, words :
        f = pc[1] /\ i = pc[2] /\ c = code[f] /\ base = ebp /\ words = memory
  OBVIOUS
<1>2. /\ phase = "run" /\ c[i].kind = "return"
      /\ ebp' = words[base][2] /\ pc' = <<words[base + 1][2], words[base + 1][3]>>
      /\ memory' = words /\ received' = received
      /\ phase' = IF words[base + 1] = Startup THEN "exited" ELSE phase
      /\ code' = code /\ program' = program
  BY <1>1 DEF Return, At, Running, Instruction, translating
<1>3. IInv
  BY DEF AllInv
<1>4. base \in 1..Depth - 1 /\ Depth \in Nat /\ base \in Int
  BY <1>1, <1>2, <1>3, Stands
<1>5. PICK m \in Nat \ {0}, b \in [Nat -> Int], g \in [Nat -> Functions] :
        b[m] = ebp /\ g[m] = f /\ Chain(memory, m, b, g)
  BY <1>1, <1>2, <1>3, FramesHere
<1>6. PICK rest, top, from, had : /\ rest = Rest(words, m, b, pc) /\ from = pc
                                  /\ top = ActivationOf(words, m, b, pc, m)
                                  /\ had = (IF m = 1 THEN <<>> ELSE Had(words, base))
  OBVIOUS
<1>7. Split(CallStack, rest, top)
  BY <1>1, <1>2, <1>3, <1>5, <1>6, StackHere
<1>8. top.fn = f /\ top.at = 1 + OperationsBefore(c, i)
  <2>1. top = ActivationAt(code, words, base, had, from)
    BY Zenon, <1>1, <1>5, <1>6 DEF ActivationOf
  <2> QED
    BY <1>1, <1>6, <2>1 DEF ActivationAt
<1>9. PICK body : body = program[top.fn]
  OBVIOUS
<1>10. ~(top.at <= Len(body))
  <2>1. ~(1 + OperationsBefore(c, i) <= Len(program[f]))
    BY <1>1, <1>2, ReturnHere DEF AllInv
  <2> QED
    BY <1>8, <1>9, <2>1
<1>11. Chain(words, m, b, g) /\ b[m] = base
  BY <1>1, <1>5
<1>12. CASE m = 1
  <2>1. words[base + 1] = Startup
    <3>1. base = Depth - 1 /\ base + 1 = Depth
      BY <1>4, <1>11, <1>12 DEF Chain
    <3> QED
      BY <1>11, <3>1 DEF Chain
  <2>2. phase' = "exited"
    BY <1>2, <2>1
  <2>3. CallStack' = <<>>
    BY <2>2 DEF CallStack
  <2>4. rest = <<>>
    <3>1. 1..m - 1 = {}
      BY <1>12
    <3>2. Rest(words, m, b, pc) = [k \in {} |-> ActivationOf(words, m, b, pc, k)]
      BY Zenon, <3>1 DEF Rest
    <3>3. rest = [k \in {} |-> ActivationOf(words, m, b, pc, k)]
      BY Zenon, <1>6, <3>2
    <3> QED
      BY <3>3
  <2> QED
    <3>1. CallStack' = rest /\ phase' = IF rest = <<>> THEN "exited" ELSE phase
      BY <2>2, <2>3, <2>4
    <3>2. Meaning!Return(top, rest)
      BY <1>2, <1>9, <1>10, <3>1, ReturnMeans
    <3>3. CallStack # <<>> /\ top = Last(CallStack) /\ rest = Front(CallStack)
      BY <1>7 DEF Split
    <3> QED
      BY <1>2, <3>2, <3>3, StepMeans
<1>13. CASE m > 1
  <2>1. m \in 2..m
    BY <1>13
  <2>2. PICK n, e, up : n = m - 1 /\ e = g[m - 1] /\ up = b[m - 1]
    OBVIOUS
  <2>3. PICK j \in Nat : /\ words[base] = Pointer(up)
                         /\ words[base + 1] = CodeAddress(e, j)
                         /\ Resumes(e, j, up - base - 2)
    BY <1>11, <2>1, <2>2 DEF Chain
  <2>4. j \in 2..Len(code[e])
    BY <2>3 DEF Resumes
  <2>5. ebp' = up /\ pc' = <<e, j>>
    BY <1>2, <2>3 DEF Pointer, CodeAddress
  <2>6. phase' = "run"
    <3>1. words[base + 1] # Startup
      BY <2>3, <2>4 DEF Startup, CodeAddress
    <3> QED
      BY <1>2, <3>1
  <2>7. PICK place : place = pc'
    OBVIOUS
  <2>8. place = ReturnAddress(words, base)
    BY <2>3, <2>5, <2>7 DEF ReturnAddress, CodeAddress
  <2>9. CallStack' = rest
    <3>1. CallStack' = ActivationsIn(code, words, up, place)
      BY <1>2, <2>5, <2>6, <2>7 DEF CallStack
    <3>2. b[m] >= 1 /\ place = ReturnAddress(words, b[m]) /\ m > 1
      BY <1>4, <1>11, <1>13, <2>8
    <3>3. ActivationsIn(code, words, b[n], place) = Rest(words, m, b, from)
      BY <1>11, <2>2, <3>2, Resumed
    <3>4. b[n] = up
      BY <2>2
    <3> QED
      BY Zenon, <1>6, <3>1, <3>3, <3>4
  <2>10. rest # <<>>
    <3>1. 1 \in 1..m - 1
      BY <1>13
    <3>2. DOMAIN rest = 1..m - 1
      BY <1>6 DEF Rest
    <3> QED
      BY <3>1, <3>2
  <2> QED
    <3>1. CallStack' = rest /\ phase' = IF rest = <<>> THEN "exited" ELSE phase
      BY <1>2, <2>6, <2>9, <2>10
    <3>2. Meaning!Return(top, rest)
      BY <1>2, <1>9, <1>10, <3>1, ReturnMeans
    <3>3. CallStack # <<>> /\ top = Last(CallStack) /\ rest = Front(CallStack)
      BY <1>7 DEF Split
    <3> QED
      BY <1>2, <3>2, <3>3, StepMeans
<1>14. m = 1 \/ m > 1
  OBVIOUS
<1> QED
  BY <1>12, <1>13, <1>14

\* The end of the stack may come at any push or call.
LEMMA RefinesOverflow ==
  ASSUME AllInv, Overflow
  PROVE  Meaning!Next
<1>1. /\ phase = "run" /\ phase' = "overflow" /\ UNCHANGED <<program, received>> /\ IInv
  BY DEF Overflow, At, Running, AllInv, translating, running
<1>2. PICK m \in Nat \ {0}, b \in [Nat -> Int], g \in [Nat -> Functions] :
        b[m] = ebp /\ g[m] = pc[1] /\ Chain(memory, m, b, g)
  BY <1>1, FramesHere
<1>3. Split(CallStack, Rest(memory, m, b, pc), ActivationOf(memory, m, b, pc, m))
  BY <1>1, <1>2, StackHere
<1>4. CallStack # <<>>
  BY <1>3 DEF Split
<1>5. PICK top, rest : top = Last(CallStack) /\ rest = Front(CallStack)
  OBVIOUS
<1>6. Meaning!Overflow
  BY <1>1, OverflowMeans
<1> QED
  BY <1>1, <1>4, <1>5, <1>6, StepMeans

\* The program starts with one activation, that of the first function.
LEMMA RefinesStartProgram ==
  ASSUME AllInv, StartProgram
  PROVE  Meaning!Next
<1>1. /\ TypeInv /\ Registers /\ Seen(memory) /\ current > Len(Order)
      /\ phase = "translate" /\ phase' = "run" /\ ebp = Outside
      /\ code' = code /\ program' = program /\ received' = received
  BY DEF AllInv, IInv, StartProgram, Registers, translating
<1>2. PICK low \in Int : low = Depth - 1
  <2>1. Depth \in Nat
    BY BoundsAssumption
  <2> QED
    BY <2>1
<1>3. PICK f, r, new, place :
        /\ f = Order[1] /\ r = Reserved(f) /\ new = memory' /\ place = pc'
  OBVIOUS
<1>4. /\ low - r >= 1
      /\ new = Stored(Stored(memory, Depth, Startup), low, Pointer(Outside))
      /\ ebp' = low /\ place = <<f, 1>>
  BY <1>1, <1>3, <1>2 DEF StartProgram, Entered, Fits
<1>5. f \in Functions
  BY <1>3, OrderIsInjective
<1>6. r \in Nat /\ Depth \in Nat \ {0} /\ LocalCount \in Nat /\ r >= LocalCount + 2
  BY <1>1, <1>3, <1>5, ReservedIsEnough, BoundsAssumption
<1>7. PICK one : one = Stored(memory, Depth, Startup)
  OBVIOUS
<1>8. /\ low >= 1 /\ low - LocalCount >= 1 /\ low <= Depth
      /\ Depth \in Addresses /\ low \in Addresses /\ Depth # low
  BY <1>2, <1>4, <1>6 DEF Addresses
<1>9. DOMAIN one = Addresses /\ one[Depth] = Startup
  BY <1>1, <1>7, <1>8, StoredWords DEF Registers
<1>10. DOMAIN new = Addresses /\ new[Depth] = Startup /\ new[low] = Pointer(Outside)
  BY <1>4, <1>7, <1>8, <1>9, StoredWords
<1>11. Seen(new)
  <2>1. DOMAIN memory = Addresses /\ new = Stored(one, low, Pointer(Outside))
    BY <1>1, <1>4, <1>7 DEF Registers
  <2>2. DOMAIN one = Addresses /\ Seen(one)
    BY <1>1, <1>7, <2>1, SeenStored, SeenWords DEF Startup
  <2> QED
    BY <2>1, <2>2, SeenStored, SeenWords
<1>12. PICK locals : locals = LocalsAt(new, low)
  OBVIOUS
<1>13. locals \in [1..LocalCount -> Content]
  BY <1>6, <1>8, <1>11, <1>12, SeenLocals
<1>14. PICK b, g : b = [n \in Nat |-> low] /\ g = [n \in Nat |-> f]
  OBVIOUS
<1>15. b \in [Nat -> Int] /\ g \in [Nat -> Functions] /\ b[1] = low
  BY <1>5, <1>14
<1>16. Chain(new, 1, b, g)
  BY <1>2, <1>10, <1>15 DEF Chain
<1>17. Split(ActivationsIn(code, new, low, place), Rest(new, 1, b, place),
             ActivationOf(new, 1, b, place, 1))
  <2>1. PICK m \in Nat \ {0} : m = 1
    OBVIOUS
  <2>2. b[m] >= 1 /\ low = b[m] /\ Chain(new, m, b, g)
    BY <1>8, <1>15, <1>16, <2>1
  <2>3. Split(ActivationsIn(code, new, low, place), Rest(new, m, b, place),
              ActivationOf(new, m, b, place, m))
    BY <1>15, <2>2, ActivationsSplit
  <2> QED
    BY Zenon, <2>1, <2>3
<1>18. PICK first : first = [fn |-> Order[1], at |-> 1, args |-> <<>>, locals |-> locals]
  OBVIOUS
<1>19. ActivationOf(new, 1, b, place, 1) = first
  <2>1. ActivationOf(new, 1, b, place, 1) = ActivationAt(code, new, low, <<>>, place)
    BY Zenon, <1>15 DEF ActivationOf
  <2>2. place[1] = f /\ place[2] = 1
    BY <1>4
  <2>3. 1 = 1 + OperationsBefore(code[f], 1)
    BY NoneBefore
  <2>4. ActivationAt(code, new, low, <<>>, place) = first
    BY <1>3, <1>12, <1>18, <2>2, <2>3, ActivationFields
  <2> QED
    BY Zenon, <2>1, <2>4
<1>20. ActivationsIn(code, new, low, place) = <<first>>
  <2>1. PICK stack, rest : /\ stack = ActivationsIn(code, new, low, place)
                           /\ rest = Rest(new, 1, b, place)
    OBVIOUS
  <2>2. stack = Append(rest, first)
    BY Zenon, <1>17, <1>19, <2>1 DEF Split
  <2>3. rest = <<>>
    <3>1. 1..1 - 1 = {}
      OBVIOUS
    <3>2. rest = [k \in {} |-> ActivationOf(new, 1, b, place, k)]
      BY Zenon, <2>1, <3>1 DEF Rest
    <3> QED
      BY <3>2
  <2>4. stack = <<first>>
    BY <2>2, <2>3
  <2> QED
    BY <2>1, <2>4
<1>21. CallStack' = <<first>>
  <2>1. CallStack' = ActivationsIn(code, new, low, place)
    BY <1>1, <1>3, <1>4 DEF CallStack
  <2> QED
    BY Zenon, <1>20, <2>1
<1>22. Meaning!Start
  BY <1>1, <1>13, <1>18, <1>21, StartMeans
<1> QED
  BY <1>22 DEF Meaning!Next

-----------------------------------------------------------------------------
(* The translation.                                                         *)

\* What reads no operation is no step, what reads one is.
LEMMA NothingRead ==
  ASSUME phase = "translate", phase' = "translate", UNCHANGED <<program, received>>
  PROVE  UNCHANGED Meaning!vars
BY DEF Meaning!vars, Stage, CallStack

\* What reads an operation reads one more than there were.
LEMMA OneRead ==
  ASSUME TypeInv, ReadInv, current <= Len(Order), phase = "translate", phase' = "translate",
         UNCHANGED received, NEW op, Evaluate(op)
  PROVE  Meaning!Next
<1>1. PICK fn, ops : fn = Fn /\ ops = program[fn]
  OBVIOUS
<1>2. fn \in Functions /\ DOMAIN program = Functions
  BY <1>1, OrderIsInjective DEF TypeInv, Fn
<1>3. PICK S : ops \in Seq(S)
  BY <1>1, <1>2 DEF ReadInv, Reads
<1>4. PICK more : more = Append(ops, op)
  OBVIOUS
<1>5. more # ops
  <2>1. PICK T : T = S \cup {op}
    OBVIOUS
  <2>2. ops \in Seq(T) /\ op \in T
    BY <1>3, <2>1
  <2>3. Len(more) = Len(ops) + 1 /\ Len(ops) \in Nat
    BY <1>4, <2>2
  <2> QED
    BY <2>3
<1>6. program'[fn] = more
  BY <1>1, <1>2, <1>4 DEF Evaluate
<1>7. program' # program
  BY <1>1, <1>5, <1>6
<1>8. Meaning!Read
  BY <1>7, ReadMeans
<1> QED
  BY <1>8 DEF Meaning!Next

\* Every step of the translation reads an operation or none.
LEMMA RefinesTranslate ==
  ASSUME AllInv, Translate
  PROVE  Meaning!Next \/ UNCHANGED Meaning!vars
<1>1. TypeInv /\ ReadInv
  BY DEF AllInv, IInv
<1>2. phase = "translate" /\ phase' = "translate" /\ received' = received
  BY DEF Translate, Assignment, BeginCall, Argument, EndCall, EndFunction, AtStatement,
     AtArgument, Translating, running
<1>3. current <= Len(Order)
  BY DEF Translate, Assignment, BeginCall, Argument, EndCall, EndFunction, AtStatement,
     AtArgument, Translating
<1>4. ASSUME program' = program PROVE UNCHANGED Meaning!vars
  BY <1>2, <1>4, NothingRead
<1>5. ASSUME NEW op, Evaluate(op) PROVE Meaning!Next
  BY <1>1, <1>2, <1>3, <1>5, OneRead
<1>6. (\E op : Evaluate(op)) \/ program' = program
  BY DEF Translate, Assignment, BeginCall, Argument, EndCall, EndFunction
<1> QED
  BY <1>4, <1>5, <1>6

-----------------------------------------------------------------------------
(* Nothing but what the program stored is ever seen.                        *)

\* An assignment stores a value and the address of a local, ...
LEMMA SeenAssign ==
  ASSUME AllInv, Assign
  PROVE  Seen(memory')
<1>1. PICK x, a, t, one, new :
        /\ x = Instruction /\ a = FrameAddress(ebp, LocalOperand(x.local))
        /\ t = FrameAddress(ebp, TempOperand(x.temp))
        /\ one = Stored(memory, t, Pointer(a)) /\ new = memory'
  OBVIOUS
<1>2. phase = "run" /\ x.kind = "assign" /\ new = Stored(one, a, x.value)
  BY <1>1 DEF Assign, At, Running
<1>3. DOMAIN memory = Addresses /\ Seen(memory) /\ IInv
  BY DEF AllInv, IInv, Registers
<1>4. x \in Instructions
  BY <1>1, <1>2, <1>3, Stands DEF Instruction
<1>5. x.value \in {Value(v) : v \in Values}
  BY <1>2, <1>4 DEF Instructions
<1>6. DOMAIN one = Addresses /\ Seen(one)
  BY <1>1, <1>3, SeenStored, SeenWords
<1> QED
  BY <1>1, <1>2, <1>5, <1>6, SeenStored, SeenWords

\* ... a push what is a value or was on the stack, within the frame, ...
LEMMA SeenPush ==
  ASSUME AllInv, FunctionArg
  PROVE  Seen(memory')
<1>1. PICK f, source, base, word, new :
        /\ f = pc[1] /\ source = Instruction.source /\ base = ebp
        /\ word = Fetched(source) /\ new = memory'
  OBVIOUS
<1>2. /\ phase = "run" /\ Instruction.kind = "pushl"
      /\ new = Stored(memory, esp - 1, word)
  BY <1>1 DEF FunctionArg, At, Running
<1>3. /\ DOMAIN memory = Addresses /\ Seen(memory) /\ IInv /\ TypeInv
  BY DEF AllInv, IInv, Registers
<1>4. PICK i, c : i = pc[2] /\ c = code[f]
  OBVIOUS
<1>5. /\ f \in Functions /\ i \in 1..Len(c) /\ c[i] \in Instructions /\ c[i].kind = "pushl"
      /\ c[i].source = source /\ esp \in Nat /\ esp >= 1
      /\ base \in 1..Depth - 1 /\ Depth \in Nat /\ LocalCount \in Nat
  BY <1>1, <1>2, <1>3, <1>4, Stands DEF Instruction
<1>6. source \in Operands
  BY <1>5 DEF Instructions
<1>7. PICK r \in Nat, n \in Nat : /\ r = Reserved(f) /\ n = temps[f]
                                  /\ r >= LocalCount + n + 1
  BY <1>3, <1>5, ReservedIsEnough
<1>8. base - r >= 1
  <2>1. PICK h \in Nat : Height(c, i, h) /\ esp = ebp - Reserved(f) - h
    BY <1>1, <1>2, <1>3, <1>4, PushedHere
  <2>2. esp = base - r - h
    BY <1>1, <1>7, <2>1
  <2>3. base \in Int
    BY <1>5
  <2> QED
    BY <1>5, <2>2, <2>3
<1>9. Visible(word) \in Content
  <2>1. CASE source.kind = "constant"
    <3>1. source.of \in {Value(v) : v \in Values}
      BY <1>6, <2>1 DEF Operands
    <3>2. word = source.of
      BY <1>1, <2>1 DEF Fetched
    <3> QED
      BY <3>1, <3>2, SeenWords
  <2>2. CASE source.kind = "local"
    <3>1. PICK k \in 1..LocalCount : k = source.of
      BY <1>6, <2>2 DEF Operands
    <3>2. word = memory[base - k]
      <4>1. FrameAddress(base, source) = base - k - 0
        BY <2>2, <3>1 DEF FrameAddress
      <4>2. base - k - 0 = base - k
        BY <1>5
      <4> QED
        BY <1>1, <2>2, <4>1, <4>2 DEF Fetched
    <3>3. base - k \in Addresses
      BY <1>5, <1>7, <1>8 DEF Addresses
    <3> QED
      BY <1>3, <3>2, <3>3 DEF Seen
  <2>3. CASE source.kind = "temp"
    <3>1. PICK k \in 1..n : k = source.of
      <4>1. TempsBelow(c, temps[f])
        BY <1>4, <1>5 DEF AllInv, ReadInv
      <4>2. source.of \in 1..temps[f]
        BY <1>5, <2>3, <4>1 DEF TempsBelow
      <4> QED
        BY <1>7, <4>2
    <3>2. word = memory[base - k - LocalCount]
      <4>1. FrameAddress(base, source) = base - k - LocalCount
        BY <2>3, <3>1 DEF FrameAddress
      <4> QED
        BY <1>1, <2>3, <4>1 DEF Fetched
    <3>3. base - k - LocalCount \in Addresses
      BY <1>5, <1>7, <1>8 DEF Addresses
    <3> QED
      BY <1>3, <3>2, <3>3 DEF Seen
  <2> QED
    BY <1>6, <2>1, <2>2, <2>3, OperandShape
<1> QED
  BY <1>1, <1>2, <1>3, <1>9, SeenStored

\* ... what is defined elsewhere leaves garbage, ...
LEMMA SeenExternal ==
  ASSUME AllInv, ExternalCall
  PROVE  Seen(memory')
<1>1. PICK low : low = esp + Len(Instruction.args)
  OBVIOUS
<1>2. memory' = [a \in Addresses |-> IF a < low THEN Garbage ELSE memory[a]]
  BY <1>1 DEF ExternalCall
<1>3. ASSUME NEW a \in Addresses PROVE Visible(memory'[a]) \in Content
  <2>1. memory'[a] = Garbage \/ memory'[a] = memory[a]
    BY <1>2
  <2> QED
    BY <2>1, SeenWords DEF AllInv, Seen
<1> QED
  BY <1>3 DEF Seen, Addresses

\* ... and a call two words that are no values, ...
LEMMA SeenCall ==
  ASSUME AllInv, FunctionCall
  PROVE  Seen(memory')
<1>1. PICK a, return, one, new :
        /\ a = esp - 1 /\ return = CodeAddress(pc[1], pc[2] + 1)
        /\ one = Stored(memory, a, return) /\ new = memory'
  OBVIOUS
<1>2. DOMAIN memory = Addresses /\ Seen(memory)
  BY DEF AllInv, IInv, Registers
<1>3. new = Stored(one, a - 1, Pointer(ebp))
  BY <1>1 DEF FunctionCall, Entered
<1>4. DOMAIN one = Addresses /\ Seen(one)
  BY <1>1, <1>2, SeenStored, SeenWords
<1> QED
  BY <1>1, <1>3, <1>4, SeenStored, SeenWords

\* ... the first one as well.
LEMMA SeenStart ==
  ASSUME AllInv, StartProgram
  PROVE  Seen(memory')
<1>1. PICK one, new, a, base :
        /\ one = Stored(memory, Depth, Startup) /\ new = memory' /\ a = Depth - 1 /\ base = ebp
  OBVIOUS
<1>2. DOMAIN memory = Addresses /\ Seen(memory)
  BY DEF AllInv, IInv, Registers
<1>3. new = Stored(one, a, Pointer(base))
  BY <1>1 DEF StartProgram, Entered
<1>4. DOMAIN one = Addresses /\ Seen(one)
  BY <1>1, <1>2, SeenStored, SeenWords DEF Startup
<1> QED
  BY <1>1, <1>3, <1>4, SeenStored, SeenWords

-----------------------------------------------------------------------------
(* The invariant of the refinement.                                         *)

\* What is printed stays what was read.
LEMMA ReadTranslate ==
  ASSUME TypeInv, TranslationInv, ReadInv, Translate
  PROVE  ReadInv'
<1>1. ASSUME NEW k \in 1..LocalCount, NEW v \in Values, Assignment(k, v) PROVE ReadInv'
  BY <1>1, ReadAssignment
<1>2. ASSUME NEW f \in Callees, NEW n \in 0..MaxArgs, BeginCall(f, n) PROVE ReadInv'
  BY <1>2, ReadBeginCall
<1>3. ASSUME NEW v \in Values, Argument(ConstantOperand(v)) PROVE ReadInv'
  <2>1. ConstantOperand(v) \in Operands /\ ConstantOperand(v).kind # "temp"
    BY DEF ConstantOperand, Operand, Operands
  <2> QED
    BY <1>3, <2>1, ReadArgument
<1>4. ASSUME NEW k \in 1..LocalCount, Argument(LocalOperand(k)) PROVE ReadInv'
  <2>1. LocalOperand(k) \in Operands /\ LocalOperand(k).kind # "temp"
    BY DEF LocalOperand, Operand, Operands
  <2> QED
    BY <1>4, <2>1, ReadArgument
<1>5. ASSUME EndCall PROVE ReadInv'
  BY <1>5, ReadEndCall
<1>6. ASSUME EndFunction PROVE ReadInv'
  BY <1>6, ReadEndFunction
<1> QED
  BY <1>1, <1>2, <1>3, <1>4, <1>5, <1>6 DEF Translate, Callees

\* The code and what was read stay as they are while the program runs.
LEMMA BodiesStay ==
  ASSUME ReadInv, ReturnInv, UNCHANGED translating
  PROVE  ReadInv' /\ ReturnInv'
<1>1. /\ code' = code /\ program' = program /\ temps' = temps /\ open' = open
      /\ current' = current
  BY DEF translating
<1>2. ReadInv'
  BY <1>1 DEF ReadInv, Fn
<1>3. ReturnInv'
  BY <1>1 DEF ReturnInv
<1> QED
  BY <1>2, <1>3

\* All of it holds at first ...
LEMMA InitAllInv == Init => AllInv
<1>1. SUFFICES ASSUME Init PROVE AllInv
  OBVIOUS
<1>2. IInv
  BY <1>1, InitIInv
<1>3. PICK none : none = <<>> /\ Len(none) = 0 /\ none \in Seq({})
  <2>1. Len(<<>>) = 0 /\ <<>> \in Seq({})
    OBVIOUS
  <2> QED
    BY <2>1
<1>4. /\ current = 1 /\ open = none
      /\ code = [f \in Functions |-> none] /\ program = [f \in Functions |-> none]
      /\ memory = [a \in Addresses |-> Garbage]
  BY <1>1, <1>3 DEF Init
<1>5. Reads(none, none)
  <2>1. OperationsBefore(none, Len(none) + 1) = 0
    BY <1>3, NoneBefore
  <2> QED
    BY <1>3, <2>1 DEF Reads
<1>6. \A max : TempsBelow(none, max) /\ ResultsBelow(none, max)
  BY <1>3 DEF TempsBelow, ResultsBelow
<1>7. ReadInv
  BY <1>4, <1>5, <1>6 DEF ReadInv
<1>8. ReturnInv
  <2>1. \A ended : OneReturn(none, ended)
    BY <1>3 DEF OneReturn
  <2>2. \A j \in 1..Len(Order) : code[Order[j]] = none
    BY <1>4, OrderIsInjective
  <2> QED
    BY <2>1, <2>2 DEF ReturnInv
<1>9. Seen(memory)
  BY <1>4, SeenWords DEF Seen
<1> QED
  BY <1>2, <1>7, <1>8, <1>9 DEF AllInv

\* ... and after every step.
LEMMA NextAllInv ==
  ASSUME AllInv, [Next]_vars
  PROVE  AllInv'
<1>1. IInv /\ TypeInv /\ TranslationInv /\ ReadInv /\ ReturnInv /\ Seen(memory)
  BY DEF AllInv, IInv
<1>2. IInv'
  BY <1>1, NextIInv
<1>3. Addresses' = Addresses /\ Content' = Content
  BY DEF Addresses, Content
<1>4. ASSUME memory' = memory PROVE Seen(memory')
  BY <1>1, <1>4
<1>5. ASSUME UNCHANGED translating, Seen(memory') PROVE AllInv'
  <2>1. ReadInv' /\ ReturnInv'
    BY <1>1, <1>5, BodiesStay
  <2>2. Seen(memory)'
    BY <1>5
  <2> QED
    BY <1>2, <2>1, <2>2 DEF AllInv
<1>6. CASE Translate
  <2>1. ReadInv' /\ ReturnInv'
    BY <1>1, <1>6, ReadTranslate, ReturnTranslate
  <2>2. memory' = memory
    BY <1>6 DEF Translate, Assignment, BeginCall, Argument, EndCall, EndFunction, running
  <2>3. Seen(memory)'
    BY <1>4, <2>2
  <2> QED
    BY <1>2, <2>1, <2>3 DEF AllInv
<1>7. CASE StartProgram
  BY <1>5, <1>7, SeenStart DEF StartProgram
<1>8. CASE Assign
  BY <1>5, <1>8, SeenAssign DEF Assign, KeepCode
<1>9. CASE FunctionArg
  BY <1>5, <1>9, SeenPush DEF FunctionArg, KeepCode
<1>10. CASE FunctionCall
  BY <1>5, <1>10, SeenCall DEF FunctionCall, KeepCode
<1>11. CASE ExternalCall
  BY <1>5, <1>11, SeenExternal DEF ExternalCall, KeepCode
<1>12. CASE PopArguments
  BY <1>4, <1>5, <1>12 DEF PopArguments, KeepCode
<1>13. CASE Return
  BY <1>4, <1>5, <1>13 DEF Return
<1>14. CASE Overflow
  BY <1>4, <1>5, <1>14 DEF Overflow, running
<1>15. CASE UNCHANGED vars
  BY <1>4, <1>5, <1>15 DEF vars, running
<1> QED
  BY <1>6, <1>7, <1>8, <1>9, <1>10, <1>11, <1>12, <1>13, <1>14, <1>15 DEF Next, Run

-----------------------------------------------------------------------------
(* The refinement.                                                          *)

\* The initial states are initial states of the abstract specification ...
LEMMA InitRefines ==
  ASSUME Init
  PROVE  Meaning!Init
BY DEF Init, Meaning!Init, Stage, CallStack

\* ... and every step is one of its steps or none.
LEMMA NextRefines ==
  ASSUME AllInv, Plain, [Next]_vars
  PROVE  [Meaning!Next]_(Meaning!vars)
<1>1. CASE Translate
  BY <1>1, RefinesTranslate
<1>2. CASE StartProgram
  BY <1>2, RefinesStartProgram
<1>3. CASE Assign
  BY <1>3, RefinesAssign
<1>4. CASE FunctionArg
  BY <1>4, RefinesPush
<1>5. CASE FunctionCall
  BY <1>5, RefinesFunctionCall
<1>6. CASE ExternalCall
  BY <1>6, RefinesExternalCall
<1>7. CASE PopArguments
  BY <1>7, RefinesPop
<1>8. CASE Return
  BY <1>8, RefinesReturn
<1>9. CASE Overflow
  BY <1>9, RefinesOverflow
<1>10. CASE UNCHANGED vars
  <2>1. UNCHANGED <<phase, program, code, memory, ebp, pc, received>>
    BY <1>10 DEF vars, translating, running
  <2>2. Stage' = Stage
    BY <2>1 DEF Stage
  <2>3. CallStack' = CallStack
    BY <2>1 DEF CallStack
  <2> QED
    BY <2>1, <2>2, <2>3 DEF Meaning!vars
<1> QED
  BY <1>1, <1>2, <1>3, <1>4, <1>5, <1>6, <1>7, <1>8, <1>9, <1>10 DEF Next, Run

\* Calls mean what C says: every activation keeps locals and arguments of its own while
\* others come and go above it, a return goes on behind its call, and the functions outside
\* receive the arguments they are given (translators.c:547-575, x86.c:109-147,
\* x86_inst.c:46-52 and 95-110), where no call is an argument with others behind it.
THEOREM CallsMeanWhatCSays ==
  ASSUME CallBeforeArgument = FALSE
  PROVE  Spec => ImplementsActivations
<1>1. Plain
  BY DEF Plain
<1>2. Init => AllInv
  BY InitAllInv
<1>3. AllInv /\ [Next]_vars => AllInv'
  BY NextAllInv
<1>4. Init => Meaning!Init
  BY InitRefines
<1>5. AllInv /\ [Next]_vars => [Meaning!Next]_(Meaning!vars)
  BY <1>1, NextRefines
<1> QED
  BY <1>2, <1>3, <1>4, <1>5, PTL DEF Spec, ImplementsActivations, Meaning!Spec

=============================================================================
