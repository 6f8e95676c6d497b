----------------------------- MODULE LexerProofs -----------------------------
(***************************************************************************)
(* Theorems about Lexer, for literals of every length, all names and every *)
(* width of the integer types: tokens and positions without the forms that *)
(* it misreads, the state and the strings in all texts.                    *)
(***************************************************************************)
EXTENDS Lexer, OrderLemmas, SequenceTheorems, FiniteSetTheorems

(* The text has none of the forms that the scanner takes for something else. *)
Conventional ==
  /\ "long long suffix" \notin Shapes /\ "wide constant" \notin Shapes
  /\ "escape out of range" \notin Shapes /\ "empty constant" \notin Shapes
  /\ "linemarker without name" \notin Shapes

StartConditions == {"INITIAL", "SC_STRING", "SC_CHAR", "SC_PREPROCESSOR"}

Initial == <<"INITIAL">>
InString == <<"INITIAL", "SC_STRING">>
InChar == <<"INITIAL", "SC_CHAR">>
Marker == <<"INITIAL", "SC_PREPROCESSOR">>
InName == <<"INITIAL", "SC_PREPROCESSOR", "SC_STRING">>

Starts == {Initial, InString, InChar, Marker, InName}
Reading == {InString, InChar, InName}

-----------------------------------------------------------------------------
(* Stacks of start conditions.                                              *)
LEMMA Pair ==
  ASSUME NEW S, NEW a \in S, NEW b \in S,
         NEW t \in Seq(S), Len(t) = 2, t[1] = a, t[2] = b
  PROVE  t = <<a, b>>
<1>1. <<a, b>> \in Seq(S) /\ Len(<<a, b>>) = 2 /\ <<a, b>>[1] = a /\ <<a, b>>[2] = b
  OBVIOUS
<1>2. \A i \in 1..Len(t) : t[i] = <<a, b>>[i]
  BY <1>1
<1> QED
  BY <1>1, <1>2, SeqEqual

LEMMA Triple ==
  ASSUME NEW S, NEW a \in S, NEW b \in S, NEW c \in S,
         NEW t \in Seq(S), Len(t) = 3, t[1] = a, t[2] = b, t[3] = c
  PROVE  t = <<a, b, c>>
<1>1. /\ <<a, b, c>> \in Seq(S) /\ Len(<<a, b, c>>) = 3
      /\ <<a, b, c>>[1] = a /\ <<a, b, c>>[2] = b /\ <<a, b, c>>[3] = c
  OBVIOUS
<1>2. \A i \in 1..Len(t) : t[i] = <<a, b, c>>[i]
  BY <1>1
<1> QED
  BY <1>1, <1>2, SeqEqual

LEMMA Appended ==
  ASSUME NEW S, NEW u \in Seq(S), Len(u) = 2, NEW s \in S
  PROVE  /\ Append(u, s) \in Seq(S)
         /\ Len(Append(u, s)) = 3
         /\ Append(u, s)[1] = u[1] /\ Append(u, s)[2] = u[2] /\ Append(u, s)[3] = s
<1>1. /\ Append(u, s) \in Seq(S)
      /\ Append(u, s) # <<>>
      /\ Len(Append(u, s)) = Len(u) + 1
      /\ \A i \in 1..Len(u) : Append(u, s)[i] = u[i]
      /\ Append(u, s)[Len(u) + 1] = s
  BY AppendProperties, Zenon
<1> DEFINE t == Append(u, s)
<1> HIDE DEF t
<1>2. t[1] = u[1] /\ t[2] = u[2] /\ t[3] = s /\ Len(t) = 3
  BY <1>1 DEF t
<1> QED
  BY <1>1, <1>2, Zenon DEF t

LEMMA Pushes ==
  ASSUME NEW s \in StartConditions
  PROVE  /\ Append(<<"INITIAL">>, s) = <<"INITIAL", s>>
         /\ Append(<<"INITIAL", "SC_PREPROCESSOR">>, s) = <<"INITIAL", "SC_PREPROCESSOR", s>>
<1>1. Append(<<"INITIAL">>, s) = <<"INITIAL", s>>
  <2> DEFINE t == Append(<<"INITIAL">>, s)
  <2>1. <<"INITIAL">> \in Seq(StartConditions) /\ Len(<<"INITIAL">>) = 1 /\ <<"INITIAL">>[1] = "INITIAL"
    BY DEF StartConditions
  <2>2. t \in Seq(StartConditions) /\ Len(t) = 2 /\ t[1] = "INITIAL" /\ t[2] = s
    BY <2>1
  <2> HIDE DEF t
  <2>3. t = <<"INITIAL", s>>
    BY <2>2, Pair DEF StartConditions
  <2> QED
    BY <2>3 DEF t
<1>2. Append(<<"INITIAL", "SC_PREPROCESSOR">>, s) = <<"INITIAL", "SC_PREPROCESSOR", s>>
  <2> DEFINE u == <<"INITIAL", "SC_PREPROCESSOR">>
  <2> DEFINE t == Append(u, s)
  <2>1. u \in Seq(StartConditions) /\ Len(u) = 2 /\ u[1] = "INITIAL" /\ u[2] = "SC_PREPROCESSOR"
    BY DEF StartConditions
  <2> HIDE DEF u
  <2>2. t \in Seq(StartConditions) /\ Len(t) = 3 /\ t[1] = "INITIAL" /\ t[2] = "SC_PREPROCESSOR" /\ t[3] = s
    <3>1. /\ Append(u, s) \in Seq(StartConditions) /\ Len(Append(u, s)) = 3
          /\ Append(u, s)[1] = u[1] /\ Append(u, s)[2] = u[2] /\ Append(u, s)[3] = s
      BY <2>1, Appended, ZenonT(40)
    <3> QED
      BY <2>1, <3>1
  <2> HIDE DEF t
  <2>3. t = <<"INITIAL", "SC_PREPROCESSOR", s>>
    BY <2>2, Triple DEF StartConditions
  <2> QED
    BY <2>3 DEF t, u
<1> QED
  BY <1>1, <1>2

LEMMA Pops ==
  ASSUME NEW s \in StartConditions
  PROVE  /\ SubSeq(<<"INITIAL", s>>, 1, 1) = <<"INITIAL">>
         /\ SubSeq(<<"INITIAL", "SC_PREPROCESSOR", s>>, 1, 2) = <<"INITIAL", "SC_PREPROCESSOR">>
<1>1. SubSeq(<<"INITIAL", s>>, 1, 1) = <<"INITIAL">>
  <2> DEFINE u == <<"INITIAL", s>>
  <2> DEFINE t == SubSeq(u, 1, 1)
  <2>1. u \in Seq(StartConditions) /\ Len(u) = 2 /\ u[1] = "INITIAL"
    BY DEF StartConditions
  <2> HIDE DEF u
  <2>2. t \in Seq(StartConditions) /\ Len(t) = 1 /\ t[1] = "INITIAL"
    BY <2>1
  <2> HIDE DEF t
  <2>3. <<"INITIAL">> \in Seq(StartConditions) /\ Len(<<"INITIAL">>) = 1 /\ <<"INITIAL">>[1] = "INITIAL"
    BY DEF StartConditions
  <2>4. \A i \in 1..Len(t) : t[i] = <<"INITIAL">>[i]
    BY <2>2, <2>3
  <2>5. t = <<"INITIAL">>
    BY <2>2, <2>3, <2>4, SeqEqual
  <2> QED
    BY <2>5 DEF t, u
<1>2. SubSeq(<<"INITIAL", "SC_PREPROCESSOR", s>>, 1, 2) = <<"INITIAL", "SC_PREPROCESSOR">>
  <2> DEFINE u == <<"INITIAL", "SC_PREPROCESSOR", s>>
  <2> DEFINE t == SubSeq(u, 1, 2)
  <2>1. u \in Seq(StartConditions) /\ Len(u) = 3 /\ u[1] = "INITIAL" /\ u[2] = "SC_PREPROCESSOR"
    BY DEF StartConditions
  <2> HIDE DEF u
  <2>2. t \in Seq(StartConditions) /\ Len(t) = 2 /\ t[1] = "INITIAL" /\ t[2] = "SC_PREPROCESSOR"
    BY <2>1
  <2> HIDE DEF t
  <2>3. t = <<"INITIAL", "SC_PREPROCESSOR">>
    BY <2>2, Pair DEF StartConditions
  <2> QED
    BY <2>3 DEF t, u
<1> QED
  BY <1>1, <1>2

LEMMA Conditions ==
  ASSUME start \in Starts
  PROVE  /\ State = "INITIAL" <=> start = Initial
         /\ State = "SC_CHAR" <=> start = InChar
         /\ State = "SC_PREPROCESSOR" <=> start = Marker
         /\ State = "SC_STRING" <=> start \in {InString, InName}
         /\ Len(start) = 3 <=> start = InName
<1>1. /\ Len(Initial) = 1 /\ Len(InString) = 2 /\ Len(InChar) = 2
      /\ Len(Marker) = 2 /\ Len(InName) = 3
  BY DEF Initial, InString, InChar, Marker, InName
<1>2. /\ Initial[1] = "INITIAL" /\ InString[2] = "SC_STRING" /\ InChar[2] = "SC_CHAR"
      /\ Marker[2] = "SC_PREPROCESSOR" /\ InName[3] = "SC_STRING"
  BY DEF Initial, InString, InChar, Marker, InName
<1> QED
  BY <1>1, <1>2, SMTT(30) DEF Starts, State

LEMMA Different ==
  /\ Initial \notin {InString, InChar, Marker, InName}
  /\ Marker \notin {InString, InChar, InName}
  /\ InString # InName /\ InString # InChar /\ InChar # InName
BY DEF Initial, InString, InChar, Marker, InName

LEMMA Entering ==
  /\ start = Initial /\ PushState("SC_STRING") => start' = InString
  /\ start = Initial /\ PushState("SC_CHAR") => start' = InChar
  /\ start = Initial /\ PushState("SC_PREPROCESSOR") => start' = Marker
  /\ start = Marker /\ PushState("SC_STRING") => start' = InName
BY Pushes DEF StartConditions, PushState, Initial, InString, InChar, Marker, InName

LEMMA Leaving ==
  /\ start \in {InString, InChar, Marker} /\ Pop
       => start' = Initial /\ start'[Len(start')] = "INITIAL"
  /\ start = InName /\ Pop
       => start' = Marker /\ start'[Len(start')] # "INITIAL"
<1>1. /\ Len(InString) - 1 = 1 /\ Len(InChar) - 1 = 1 /\ Len(Marker) - 1 = 1
      /\ Len(InName) - 1 = 2
  BY DEF InString, InChar, Marker, InName
<1>2. /\ SubSeq(InString, 1, 1) = Initial /\ SubSeq(InChar, 1, 1) = Initial
      /\ SubSeq(Marker, 1, 1) = Initial /\ SubSeq(InName, 1, 2) = Marker
  BY Pops DEF StartConditions, Initial, InString, InChar, Marker, InName
<1>3. Initial[Len(Initial)] = "INITIAL" /\ Marker[Len(Marker)] # "INITIAL"
  BY DEF Initial, Marker
<1>4. ASSUME start \in {InString, InChar, Marker}, Pop
      PROVE  start' = Initial /\ start'[Len(start')] = "INITIAL"
  <2>1. start' = Initial
    BY <1>1, <1>2, <1>4, Zenon DEF Pop
  <2> QED
    BY <2>1, <1>3, Zenon
<1>5. ASSUME start = InName, Pop
      PROVE  start' = Marker /\ start'[Len(start')] # "INITIAL"
  <2>1. start' = Marker
    BY <1>1, <1>2, <1>5, Zenon DEF Pop
  <2> QED
    BY <2>1, <1>3, Zenon
<1> QED
  BY <1>4, <1>5

-----------------------------------------------------------------------------
(* The inductive invariant: what yylval holds while a literal is read, and
   from the end of a file name to the end of its linemarker.                *)
Typed ==
  /\ start \in Starts
  /\ yylval.type \in {"NUMBER", "STRING", "CHAR"}
  /\ yylval.string \in Seq(-1..255)
  /\ jammed \in BOOLEAN

Lines == yylineno \in 1..MaxLine /\ yylineno = textLine
File == start \notin {Marker, InName} => filename = textFile
Tokens == token = meaning /\ (token # NoToken => start = Initial)

Literal ==
  /\ start \in Reading => yylval.type = "STRING" /\ yylval.string = literal
  /\ start = Marker =>
       IF previous = "marker" THEN literal = <<>> ELSE yylval.string = literal

IndInv == Typed /\ Lines /\ File /\ Tokens /\ Literal

-----------------------------------------------------------------------------
(* Steps that keep the characters read.                                     *)
LEMMA LinemarkerKeeps ==
  ASSUME IndInv, NEW n \in 1..MaxLine, Linemarker(n)
  PROVE  IndInv'
<1>1. start = Initial
  BY Conditions DEF IndInv, Typed, Linemarker, In
<1>2. start' = Marker
  BY <1>1, Entering DEF Linemarker
<1>3. Typed'
  BY <1>2 DEF IndInv, Typed, Linemarker, Starts
<1>4. Lines' /\ File' /\ Tokens'
  BY <1>2 DEF IndInv, Lines, File, Tokens, Linemarker, NothingDelivered
<1>5. Literal'
  BY <1>2, Different DEF Literal, Linemarker, Reading
<1> QED
  BY <1>3, <1>4, <1>5 DEF IndInv

LEMMA BeginNameKeeps ==
  ASSUME IndInv, BeginName
  PROVE  IndInv'
<1>1. start = Marker
  BY Conditions DEF IndInv, Typed, BeginName, In
<1>2. start' = InName
  BY <1>1, Entering DEF BeginName
<1>3. yylval'.type = "STRING" /\ yylval'.string = <<>>
  BY DEF BeginName, StringBegun, Val
<1>4. Typed'
  BY <1>2, <1>3 DEF IndInv, Typed, BeginName, KeepPosition, Starts
<1>5. Lines' /\ File' /\ Tokens'
  BY <1>2 DEF IndInv, Lines, File, Tokens, BeginName, KeepPosition, NothingDelivered
<1>6. Literal'
  BY <1>1, <1>2, <1>3, Different DEF IndInv, Literal, BeginName, Reading
<1> QED
  BY <1>4, <1>5, <1>6 DEF IndInv

LEMMA EndLinemarkerKeeps ==
  ASSUME Conventional, IndInv, EndLinemarker
  PROVE  IndInv'
<1>1. start = Marker /\ previous # "marker"
  BY Conditions DEF Conventional, IndInv, Typed, EndLinemarker, In
<1>2. start' = Initial
  BY <1>1, Leaving DEF EndLinemarker
<1>3. Typed'
  BY <1>2 DEF IndInv, Typed, EndLinemarker, Starts
<1>4. Lines'
  <2>1. yylineno \in Int
    BY BoundsAssumption DEF IndInv, Lines
  <2>2. \A line \in Int : (line + 1) - 1 = line
    OBVIOUS
  <2>3. yylineno' = yylineno
    BY <2>1, <2>2, Zenon DEF EndLinemarker
  <2> QED
    BY <2>3 DEF IndInv, Lines, EndLinemarker
<1>5. Tokens'
  BY <1>2 DEF Tokens, EndLinemarker, NothingDelivered
<1>6. File'
  BY <1>1 DEF IndInv, Literal, File, EndLinemarker
<1>7. Literal'
  BY <1>2, Different DEF Literal, Reading
<1> QED
  BY <1>3, <1>4, <1>5, <1>6, <1>7 DEF IndInv

LEMMA NewlineKeeps ==
  ASSUME IndInv, Newline
  PROVE  IndInv'
<1>1. start = Initial /\ start' = Initial
  BY Conditions DEF IndInv, Typed, Newline, In
<1>2. Typed'
  BY DEF IndInv, Typed, Newline
<1>3. Lines'
  BY BoundsAssumption DEF IndInv, Lines, Newline
<1>4. File' /\ Tokens'
  BY <1>1 DEF IndInv, File, Tokens, Newline, NothingDelivered
<1>5. Literal'
  BY <1>1, Different DEF Literal, Reading
<1> QED
  BY <1>2, <1>3, <1>4, <1>5 DEF IndInv

LEMMA BeginLiteralKeeps ==
  ASSUME IndInv, NEW s \in {"SC_STRING", "SC_CHAR"}, BeginLiteral(s)
  PROVE  IndInv'
<1>1. start = Initial
  BY Conditions DEF IndInv, Typed, BeginLiteral, In
<1>2. start' \in {InString, InChar}
  BY <1>1, Entering DEF BeginLiteral
<1>3. yylval'.type = "STRING" /\ yylval'.string = <<>> /\ literal' = <<>>
  BY DEF BeginLiteral, StringBegun, Val
<1>4. Typed'
  BY <1>2, <1>3 DEF IndInv, Typed, BeginLiteral, KeepPosition, Starts
<1>5. Lines' /\ Tokens'
  BY <1>2 DEF IndInv, Lines, Tokens, BeginLiteral, KeepPosition, NothingDelivered
<1>6. File'
  BY <1>1, Different DEF IndInv, File, BeginLiteral, KeepPosition
<1>7. Literal'
  BY <1>2, <1>3, Different DEF Literal
<1> QED
  BY <1>4, <1>5, <1>6, <1>7 DEF IndInv

LEMMA JamKeeps ==
  ASSUME IndInv, Jam
  PROVE  IndInv'
BY DEF IndInv, Typed, Lines, File, Tokens, Literal, Jam, scanner, text

(* The literal is delivered, or it was a file's name and stays in yylval.   *)
LEMMA EndStringKeeps ==
  ASSUME IndInv, EndString
  PROVE  IndInv'
<1>1. start \in {InString, InName} /\ (Len(start) = 3 <=> start = InName)
  BY Conditions DEF IndInv, Typed, EndString, In
<1>2. yylval.type = "STRING" /\ yylval.string = literal /\ yylval' = yylval
  BY <1>1 DEF IndInv, Literal, Reading, EndString
<1>3. Lines'
  BY DEF IndInv, Lines, EndString, KeepPosition
<1>4. CASE start = InString
  <2>1. start' = Initial /\ start'[Len(start')] = "INITIAL"
    BY <1>4, Leaving DEF EndString
  <2>2. Typed'
    BY <1>2, <2>1 DEF IndInv, Typed, EndString, KeepPosition, Starts
  <2>3. Node(yylval') = StringNode(literal)
    BY <1>2 DEF Node
  <2>4. Tokens'
    BY <2>1, <2>3 DEF Tokens, EndString, Deliver, Means
  <2>5. File'
    BY <1>4, Different DEF IndInv, File, EndString, KeepPosition
  <2>6. Literal'
    BY <2>1, Different DEF Literal, Reading
  <2> QED
    BY <1>3, <2>2, <2>4, <2>5, <2>6 DEF IndInv
<1>5. CASE start = InName
  <2>1. start' = Marker /\ start'[Len(start')] # "INITIAL"
    BY <1>5, Leaving DEF EndString
  <2>2. Typed'
    BY <1>2, <2>1 DEF IndInv, Typed, EndString, KeepPosition, Starts
  <2>3. Tokens'
    BY <2>1 DEF Tokens, EndString, NothingDelivered
  <2>4. File'
    BY <2>1 DEF File
  <2>5. Literal'
    BY <1>1, <1>2, <1>5, <2>1, Different DEF Literal, Reading, EndString
  <2> QED
    BY <1>3, <2>2, <2>3, <2>4, <2>5 DEF IndInv
<1> QED
  BY <1>1, <1>4, <1>5

LEMMA EndCharKeeps ==
  ASSUME Conventional, IndInv, EndChar
  PROVE  IndInv'
<1>0. literal # <<>>
  BY DEF Conventional, EndChar
<1>1. start = InChar
  BY Conditions DEF IndInv, Typed, EndChar, In
<1>2. start' = Initial
  BY <1>1, Leaving DEF EndChar
<1>3. yylval'.type = "CHAR" /\ yylval'.string = yylval.string /\ yylval.string = literal
  BY <1>1 DEF IndInv, Literal, Reading, EndChar, Val
<1>4. Node(yylval') = CharNode(literal[1])
  BY <1>0, <1>3 DEF Node, FirstByte
<1>5. Typed'
  BY <1>2, <1>3 DEF IndInv, Typed, EndChar, KeepPosition, Starts
<1>6. Lines'
  BY DEF IndInv, Lines, EndChar, KeepPosition
<1>7. File'
  BY <1>1, Different DEF IndInv, File, EndChar, KeepPosition
<1>8. Tokens'
  BY <1>0, <1>2, <1>4 DEF Tokens, EndChar, Deliver, Means
<1>9. Literal'
  BY <1>2, Different DEF Literal, Reading
<1> QED
  BY <1>5, <1>6, <1>7, <1>8, <1>9 DEF IndInv

-----------------------------------------------------------------------------
(* Steps that read a character: one byte more in yylval and in the literal. *)
LEMMA CharactersKeep ==
  ASSUME IndInv, NEW byte \in 0..255, NEW rule, Characters(byte, <<byte>>, rule)
  PROVE  IndInv'
<1>1. start \in Reading /\ start' = start
  BY Conditions DEF IndInv, Typed, Characters, InLiteral, In, Reading
<1>2. yylval.type = "STRING" /\ yylval.string = literal /\ literal \in Seq(-1..255)
  BY <1>1 DEF IndInv, Typed, Literal
<1>3. byte \in -1..255
  OBVIOUS
<1>4. literal \o <<byte>> = Append(literal, byte)
  BY <1>2, <1>3, AppendIsConcat, Zenon
<1>5. Append(literal, byte) \in Seq(-1..255)
  BY <1>2, <1>3, AppendProperties, Zenon
<1>6. /\ yylval' = Val(yylval.type, Append(yylval.string, byte), yylval.number)
      /\ literal' = literal \o <<byte>>
  BY DEF Characters
<1>7. yylval'.type = "STRING" /\ yylval'.string = Append(literal, byte)
  BY <1>2, <1>6 DEF Val
<1>8. Typed'
  BY <1>1, <1>5, <1>7 DEF IndInv, Typed, Characters, KeepPosition
<1>9. Lines' /\ Tokens'
  BY <1>1 DEF IndInv, Lines, Tokens, Characters, KeepPosition, NothingDelivered
<1>10. File'
  BY <1>1 DEF IndInv, File, Characters, KeepPosition
<1>11. Literal'
  BY <1>1, <1>4, <1>6, <1>7, Different DEF Literal, Reading
<1> QED
  BY <1>8, <1>9, <1>10, <1>11 DEF IndInv

LEMMA EscapedIsByte ==
  ASSUME NEW c \in 0..255
  PROVE  Escaped(c) \in 0..255
<1>1. ASSUME c \in DOMAIN Control
      PROVE  Control[c] \in 7..13
  <2>1. /\ ControlLetters[1] = 97 /\ ControlLetters[2] = 98 /\ ControlLetters[3] = 116
        /\ ControlLetters[4] = 110 /\ ControlLetters[5] = 118 /\ ControlLetters[6] = 102
        /\ ControlLetters[7] = 114 /\ DOMAIN ControlLetters = 1..7
    BY DEF ControlLetters
  <2>2. PICK i \in 1..7 : ControlLetters[i] = c
    BY <1>1, <2>1 DEF Control, Range
  <2>3. i + 6 \in 7..13 /\ ControlLetters[(i + 6) - 6] = c
    BY <2>2
  <2>4. (CHOOSE b \in 7..13 : ControlLetters[b - 6] = c) \in 7..13
    BY <2>3
  <2> QED
    BY <1>1, <2>4 DEF Control
<1> QED
  BY <1>1 DEF Escaped

LEMMA MoreThanThree ==
  ASSUME NEW n \in Nat, ~(n <= 3)
  PROVE  n - 3 # 0
OBVIOUS

LEMMA Byte ==
  ASSUME NEW n \in Nat, n <= 255
  PROVE  n \in 0..255 /\ Decoded(n) = n
BY DEF Decoded

(* What an octal escape that C allows stands for.                           *)
LEMMA OctalIsByte ==
  ASSUME Conventional, NEW digits \in Octals, OctalEscape(digits)
  PROVE  \E byte \in 0..255 : Characters(byte, <<byte>>, "octal")
<1> DEFINE own == SubSeq(digits, 1, Least(3, Len(digits)))
           rest == SubSeq(digits, Len(own) + 1, Len(digits))
           ascii == [i \in DOMAIN rest |-> Zero + rest[i]]
           byte == Numeral(8, digits)
<1>1. /\ Numeral(8, own) <= 255 /\ rest = <<>>
      /\ Characters(Decoded(byte), <<Numeral(8, own)>> \o ascii, "octal")
  BY DEF Conventional, OctalEscape
<1>2. digits \in Seq(0..7) /\ byte \in Nat /\ Len(digits) \in Nat
  BY TextAssumption, LenProperties
<1>3. own = digits
  <2>1. CASE Len(digits) <= 3
    <3>1. Least(3, Len(digits)) = Len(digits)
      BY <1>2, <2>1 DEF Least
    <3> QED
      BY <1>2, <3>1, SubSeqFull, Zenon
  <2>2. Len(digits) \in Nat
    BY <1>2
  <2>3. CASE ~(Len(digits) <= 3)
    <3>1. Least(3, Len(digits)) = 3
      BY <1>2, <2>3 DEF Least
    <3>2. own \in Seq(0..7) /\ Len(own) = 3
      BY <1>2, <2>3, <3>1
    <3> HIDE DEF own
    <3>3. Len(rest) = Len(digits) - 3
      BY <1>2, <2>3, <3>2
    <3> HIDE DEF rest
    <3>4. Len(rest) = 0
      BY <1>1, EmptySeq, Zenon
    <3>5. Len(digits) - 3 # 0
      BY <2>2, <2>3, MoreThanThree, Zenon
    <3> QED
      BY <3>3, <3>4, <3>5, Zenon
  <2> QED
    BY <2>1, <2>3
<1> HIDE DEF own, rest, byte
<1>4. ascii = <<>>
  BY <1>1
<1>5. Numeral(8, own) = byte
  BY <1>3, Zenon DEF byte
<1>6. byte \in 0..255 /\ Decoded(byte) = byte
  BY <1>1, <1>2, <1>5, Byte
<1> HIDE DEF ascii
<1>7. <<Numeral(8, own)>> \o ascii = <<byte>>
  BY <1>4, <1>5, <1>6
<1> QED
  BY <1>1, <1>6, <1>7

LEMMA HexIsByte ==
  ASSUME Conventional, NEW digits \in Hexes, HexEscape(digits)
  PROVE  \E byte \in 0..255 : Characters(byte, <<byte>>, "hex")
<1> DEFINE byte == Numeral(16, digits)
<1>1. byte \in Nat
  BY TextAssumption, Zenon
<1>2. /\ byte <= 255
      /\ Characters(Decoded(byte), <<byte>>, "hex")
  BY DEF Conventional, HexEscape
<1> HIDE DEF byte
<1> QED
  BY <1>1, <1>2, Byte

LEMMA CharacterKeeps ==
  ASSUME Conventional, IndInv,
         \/ \E c \in Plain : PlainCharacter(c)
         \/ OtherQuote
         \/ \E c \in Escapes : SimpleEscape(c)
         \/ \E digits \in Octals : OctalEscape(digits)
         \/ \E digits \in Hexes : HexEscape(digits)
  PROVE  IndInv'
<1>1. ASSUME NEW c \in Plain, PlainCharacter(c)
      PROVE  IndInv'
  <2>1. c \in 0..255
    BY <1>1 DEF PlainCharacter, Listed
  <2>2. Characters(c, <<c>>, "other")
    BY <1>1 DEF PlainCharacter
  <2> QED
    BY <2>1, <2>2, CharactersKeep
<1>2. ASSUME OtherQuote
      PROVE  IndInv'
  <2> DEFINE c == IF State = "SC_CHAR" THEN DoubleQuote ELSE SingleQuote
  <2>1. c \in 0..255
    BY DEF DoubleQuote, SingleQuote
  <2>2. Characters(c, <<c>>, "other")
    BY <1>2 DEF OtherQuote
  <2> HIDE DEF c
  <2> QED
    BY <2>1, <2>2, CharactersKeep
<1>3. ASSUME NEW c \in Escapes, SimpleEscape(c)
      PROVE  IndInv'
  <2>1. Escaped(c) \in 0..255
    BY TextAssumption, EscapedIsByte
  <2>2. Characters(Escaped(c), <<Escaped(c)>>, "other")
    BY <1>3 DEF SimpleEscape
  <2> QED
    BY <2>1, <2>2, CharactersKeep
<1>4. ASSUME NEW digits \in Octals, OctalEscape(digits)
      PROVE  IndInv'
  BY <1>4, OctalIsByte, CharactersKeep
<1>5. ASSUME NEW digits \in Hexes, HexEscape(digits)
      PROVE  IndInv'
  BY <1>5, HexIsByte, CharactersKeep
<1> QED
  BY <1>1, <1>2, <1>3, <1>4, <1>5

-----------------------------------------------------------------------------
(* Identifiers and numbers.                                                 *)

(* A rule of the initial condition that returns a token and sets yylval.    *)
LEMMA TokenKeeps ==
  ASSUME IndInv, In("INITIAL"), UNCHANGED <<start, literal, previous>>, KeepPosition,
         yylval'.type \in {"NUMBER", "STRING"}, yylval'.string \in Seq(-1..255),
         token' = meaning'
  PROVE  IndInv'
<1>1. start = Initial /\ start' = Initial
  BY Conditions DEF IndInv, Typed, In
<1>2. Typed' /\ Lines' /\ File'
  BY DEF IndInv, Typed, Lines, File, KeepPosition
<1>3. Tokens'
  BY <1>1 DEF Tokens
<1>4. Literal'
  BY <1>1, Different DEF Literal, Reading
<1> QED
  BY <1>2, <1>3, <1>4 DEF IndInv

LEMMA IdentifierKeeps ==
  ASSUME IndInv, NEW name \in Names, Identifier(name)
  PROVE  IndInv'
<1>1. name \in Seq(0..255) /\ 0..255 \subseteq -1..255
  BY TextAssumption
<1>2. name \in Seq(-1..255)
  BY <1>1, SeqMonotonic
<1>3. yylval'.type = "STRING" /\ yylval'.string = name
  BY DEF Identifier, Val
<1>4. Node(yylval') = StringNode(name)
  BY <1>3 DEF Node
<1>5. token' = meaning'
  BY <1>4 DEF Identifier, Deliver, Means
<1> QED
  BY <1>2, <1>3, <1>5, TokenKeeps DEF Identifier

LEMMA Constantly ==
  ASSUME NEW n \in Nat, NEW S, NEW e \in S
  PROVE  [i \in 1..n |-> e] \in Seq(S)
OBVIOUS

LEMMA OverlaidIsSequence ==
  ASSUME IndInv
  PROVE  Overlaid \in Seq(-1..255)
<1>1. PICK n \in Nat : DOMAIN yylval.string = 1..n
  BY LenProperties DEF IndInv, Typed
<1>2. -1 \in -1..255
  OBVIOUS
<1>3. [i \in 1..n |-> -1] \in Seq(-1..255)
  BY <1>2, Constantly
<1> QED
  BY <1>1, <1>3 DEF Overlaid, Stale

LEMMA Halves ==
  ASSUME NEW m \in Nat, NEW v \in Nat
  PROVE  /\ m \div 2 \in Nat /\ m \div 2 <= m
         /\ 2 * v <= m => v <= m \div 2
OBVIOUS

LEMMA Less ==
  ASSUME NEW m \in Nat, NEW v \in Nat, ~(v >= m)
  PROVE  v < m
OBVIOUS

LEMMA Remainder ==
  ASSUME NEW m \in Nat \ {0}, NEW v \in Nat, v < m
  PROVE  v % m = v
OBVIOUS

LEMMA IntegerConstantKeeps ==
  ASSUME Conventional, IndInv, NEW form \in {"hex", "oct", "dec"},
         NEW suffix \in IntegerSuffixes, NEW value \in Numerals,
         IntegerConstant(form, suffix, value)
  PROVE  IndInv'
<1> DEFINE type == RuleType(form, suffix)
           signed == ~Unsigned(suffix) \/ (form = "dec" /\ suffix = "ul")
           number == Number(type, Unsigned(suffix), Converted(form, type, value))
<1>1. type = SuffixType(suffix)
  BY DEF Conventional, IntegerConstant, RuleType, SuffixType, IntegerSuffixes
<1>2. SetsType(form, suffix)
  BY DEF Conventional, IntegerConstant, SetsType
<1>3. /\ type \in {"INT", "LONG", "LONGLONG"}
      /\ type = "LONG" /\ form = "dec" => signed
      /\ type = "INT" /\ form = "dec" => suffix \in {"", "u"}
  BY <1>1 DEF SuffixType, IntegerSuffixes, Unsigned
<1> DEFINE m == Modulus[type]
           long == Modulus["LONG"]
<1>4. m \in Nat \ {0} /\ long \in Nat \ {0} /\ value \in Nat
  BY <1>3, ModulusAssumption, TextAssumption
<1>5. value < (m \div (IF signed THEN 2 ELSE 1))
  <2> DEFINE limit == m \div (IF signed THEN 2 ELSE 1)
  <2>1. value >= limit => "wide constant" \in Shapes
    BY <1>1, Zenon DEF IntegerConstant
  <2>2. ~(value >= limit)
    BY <2>1, Zenon DEF Conventional
  <2>3. limit \in Nat
    BY <1>4, Halves
  <2> QED
    BY <1>4, <2>2, <2>3, Less, Zenon
<1>6. value < m /\ (signed => value < m \div 2)
  BY <1>4, <1>5
<1>7. form = "dec" /\ type # "LONGLONG" => value <= (long \div 2) - 1
  <2>1. CASE type = "LONG"
    BY <1>3, <1>4, <1>6, <2>1
  <2>2. CASE type = "INT"
    BY <1>4, <1>6, <2>2, ModulusAssumption, Halves
  <2> QED
    BY <1>3, <2>1, <2>2
<1>8. Converted(form, type, value) = value
  BY <1>4, <1>6, <1>7, Remainder DEF Converted, Least
<1>9. number = Number(SuffixType(suffix), Unsigned(suffix), value)
  BY <1>1, <1>8
<1>10. yylval' = Val("NUMBER", Overlaid, number)
  BY <1>2 DEF IntegerConstant
<1> HIDE DEF number
<1>11. yylval'.type = "NUMBER" /\ yylval'.string = Overlaid /\ yylval'.number = number
  BY <1>10 DEF Val
<1>12. Node(yylval') = NumberNode(number)
  BY <1>11 DEF Node
<1>13. token' = meaning'
  BY <1>9, <1>12 DEF IntegerConstant, Deliver, Means
<1> QED
  BY <1>11, <1>13, OverlaidIsSequence, TokenKeeps DEF IntegerConstant

LEMMA FloatConstantKeeps ==
  ASSUME IndInv, NEW suffix, FloatConstant(suffix)
  PROVE  IndInv'
<1> DEFINE number == Number(FloatType(suffix), FALSE, 0)
<1>1. yylval' = Val("NUMBER", Overlaid, number) /\ Deliver("NUMBER")
      /\ Means("NUMBER", NumberNode(number))
  BY DEF FloatConstant
<1> HIDE DEF number
<1>2. yylval'.type = "NUMBER" /\ yylval'.string = Overlaid /\ yylval'.number = number
  BY <1>1 DEF Val
<1>3. Node(yylval') = NumberNode(number)
  BY <1>2 DEF Node
<1>4. token' = meaning'
  BY <1>1, <1>3 DEF Deliver, Means
<1> QED
  BY <1>2, <1>4, OverlaidIsSequence, TokenKeeps DEF FloatConstant

-----------------------------------------------------------------------------
LEMMA InitHolds == ASSUME Init PROVE IndInv
<1>1. start = Initial /\ yylval.type = "NUMBER" /\ yylval.string = <<>>
  BY DEF Init, Initial, Val
<1>2. Typed
  BY <1>1, EmptySeq DEF Init, Typed, Starts
<1>3. Lines
  BY BoundsAssumption DEF Init, Lines
<1>4. File /\ Tokens
  BY <1>1 DEF Init, File, Tokens
<1>5. Literal
  BY <1>1, Different DEF Literal, Reading
<1> QED
  BY <1>2, <1>3, <1>4, <1>5 DEF IndInv

LEMMA NextKeeps == ASSUME Conventional, IndInv, [Next]_vars PROVE IndInv'
<1>1. CASE UNCHANGED vars
  BY <1>1 DEF vars, scanner, text, IndInv, Typed, Lines, File, Tokens, Literal
<1>2. CASE Next
  BY <1>2, LinemarkerKeeps, BeginNameKeeps, EndLinemarkerKeeps, NewlineKeeps,
     BeginLiteralKeeps, CharacterKeeps, JamKeeps, EndStringKeeps, EndCharKeeps,
     IdentifierKeeps, IntegerConstantKeeps, FloatConstantKeeps DEF Next
<1> QED
  BY <1>1, <1>2

(* A literal in yylval is the text read so far, until its token or the end
   of its linemarker.                                                       *)
THEOREM Inductive == ASSUME Conventional PROVE Spec => []IndInv
<1>1. Init => IndInv
  BY InitHolds
<1>2. IndInv /\ [Next]_vars => IndInv'
  BY NextKeeps
<1> QED
  BY <1>1, <1>2, PTL DEF Spec

(* Every token has the file and the line its text came from (c.lex:57-78).  *)
THEOREM PositionsAreText == ASSUME Conventional PROVE Spec => []PositionOfText
<1>1. IndInv => PositionOfText
  BY Conditions, Different DEF IndInv, Typed, Lines, File, PositionOfText
<1> QED
  BY <1>1, Inductive, PTL

(* The node of every token is what its text denotes, although all of them
   share one yylval (c.lex:62-446, ast.c:330-359 and 614-649).              *)
THEOREM TokensAreText == ASSUME Conventional PROVE Spec => []TokensMeanText
<1>1. IndInv => TokensMeanText
  BY DEF IndInv, Tokens, TokensMeanText
<1> QED
  BY <1>1, Inductive, PTL

-----------------------------------------------------------------------------
(* Strings on their way to the assembler.                                   *)

\* What is kept of what is written for a character.
Written(c) == SubSeq(PrintedChar(c).chars, 1, PrintedChar(c).used - 1)

\* The greatest of the first numbers.
LEMMA MaxOfSegment ==
  ASSUME NEW n \in Nat, NEW s, s \subseteq 1..n + 1, n + 1 \in s
  PROVE  Max(s) = n + 1 /\ s \ {n + 1} \subseteq 1..n
<1>1. \A y \in s : n + 1 >= y
  OBVIOUS
<1>2. Max(s) \in s /\ \A y \in s : Max(s) >= y
  BY <1>1 DEF Max
<1>3. PICK m : m = Max(s)
  OBVIOUS
<1>4. m \in 1..n + 1 /\ m >= n + 1
  BY <1>2, <1>3
<1>5. m = n + 1
  BY <1>4
<1> QED
  BY <1>3, <1>5

\* The printer writes one character after the other.
LEMMA WriteSteps ==
  ASSUME NEW list, NEW n \in Nat, DOMAIN list = 1..n
  PROVE  \E done : /\ done[0] = <<>>
                   /\ \A k \in 1..n : done[k] = done[k - 1] \o Written(list[k])
                   /\ PrintedString(list) = done[n]
<1> DEFINE base == <<>>
           Op(s, c) == s \o Written(c)
           Iter == CHOOSE it : it = [s \in SUBSET (1..n) |->
                     IF s = {} THEN base ELSE Op(it[s \ {Max(s)}], list[Max(s)])]
<1>1. PrintedString(list) = Iter[1..n]
  BY Zenon DEF PrintedString, Written, FoldLeft, MapThenFoldSet
<1> HIDE DEF Op
<1> DEFINE Upto(m, it) ==
             /\ it = [s \in SUBSET (1..n) |-> it[s]]
             /\ \A s \in SUBSET (1..n) : s \subseteq 1..m =>
                  it[s] = IF s = {} THEN base ELSE Op(it[s \ {Max(s)}], list[Max(s)])
           T == {m \in Nat : \E it : Upto(m, it)}
<1>2. 0 \in T
  <2>1. Upto(0, [s \in SUBSET (1..n) |-> base])
    OBVIOUS
  <2> QED
    BY <2>1
<1>3. ASSUME NEW m \in Nat, m \in T PROVE m + 1 \in T
  <2>1. PICK it : Upto(m, it)
    BY <1>3
  <2> DEFINE new == [s \in SUBSET (1..n) |->
                       IF m + 1 \in s THEN Op(it[s \ {Max(s)}], list[Max(s)]) ELSE it[s]]
  <2>2. ASSUME NEW s \in SUBSET (1..n), s \subseteq 1..m + 1
        PROVE  new[s] = IF s = {} THEN base ELSE Op(new[s \ {Max(s)}], list[Max(s)])
    <3>1. CASE m + 1 \in s
      <4>1. Max(s) = m + 1 /\ s \ {m + 1} \in SUBSET (1..n)
        BY <2>2, <3>1, MaxOfSegment
      <4>2. new[s \ {Max(s)}] = it[s \ {Max(s)}]
        BY <4>1
      <4> QED
        BY <3>1, <4>2
    <3>2. CASE m + 1 \notin s
      <4>1. s \subseteq 1..m
        BY <2>2, <3>2
      <4>2. new[s] = IF s = {} THEN base ELSE Op(it[s \ {Max(s)}], list[Max(s)])
        BY <2>1, <3>2, <4>1
      <4>3. new[s \ {Max(s)}] = it[s \ {Max(s)}]
        BY <3>2
      <4> QED
        BY <4>2, <4>3
    <3> QED
      BY <3>1, <3>2
  <2>3. Upto(m + 1, new)
    <3> HIDE DEF new
    <3>1. new = [s \in SUBSET (1..n) |-> new[s]]
      BY DEF new
    <3> QED
      BY <2>2, <3>1
  <2> HIDE DEF new
  <2> HIDE DEF Upto
  <2>4. m + 1 \in Nat
    OBVIOUS
  <2> QED
    BY <2>3, <2>4
<1>4. \E it : Upto(n, it)
  <2>1. Nat \subseteq T
    <3>1. \A m \in Nat : m \in T => m + 1 \in T
      BY <1>3
    <3> HIDE DEF T
    <3> QED
      BY <1>2, <3>1, NatInduct
  <2> QED
    BY <2>1
<1>5. Iter = [s \in SUBSET (1..n) |->
                IF s = {} THEN base ELSE Op(Iter[s \ {Max(s)}], list[Max(s)])]
  <2>1. PICK it : Upto(n, it)
    BY <1>4
  <2>2. it = [s \in SUBSET (1..n) |->
                IF s = {} THEN base ELSE Op(it[s \ {Max(s)}], list[Max(s)])]
    BY <2>1
  <2> QED
    BY <2>2
<1> HIDE DEF Iter
<1> DEFINE done == [k \in 0..n |-> Iter[1..k]]
<1>6. done[0] = base
  <2>1. 1..0 = {}
    OBVIOUS
  <2> QED
    BY <1>5, <2>1
<1>7. ASSUME NEW k \in 1..n PROVE done[k] = Op(done[k - 1], list[k])
  <2>1. /\ 1..k \in SUBSET (1..n) /\ k \in 1..k
        /\ k \in 0..n /\ k - 1 \in 0..n /\ k \in Nat
    <3>1. k \in Nat /\ k >= 1 /\ k <= n
      OBVIOUS
    <3> QED
      BY <3>1
  <2>2. Max(1..k) = k /\ (1..k) \ {k} = 1..k - 1
    <3>1. PICK j \in Nat : j + 1 = k /\ j = k - 1
      BY k - 1 \in Nat
    <3>2. 1..k \subseteq 1..j + 1 /\ j + 1 \in 1..k
      BY <3>1
    <3>3. Max(1..k) = j + 1
      BY <3>2, MaxOfSegment
    <3>4. (1..k) \ {k} = 1..k - 1
      OBVIOUS
    <3> QED
      BY <3>1, <3>3, <3>4
  <2> QED
    BY <1>5, <2>1, <2>2
<1>8. PrintedString(list) = done[n]
  BY <1>1
<1> HIDE DEF done
<1> QED
  BY <1>6, <1>7, <1>8 DEF Op

\* What is printed of a string with one character more.
LEMMA PrintedAppend ==
  ASSUME NEW K, NEW list \in Seq(K), NEW x \in K
  PROVE  /\ PrintedString(<<>>) = <<>>
         /\ PrintedString(Append(list, x)) = PrintedString(list) \o Written(x)
<1>1. PrintedString(<<>>) = <<>>
  <2>1. DOMAIN <<>> = 1..0
    OBVIOUS
  <2> QED
    BY <2>1, WriteSteps
<1>2. PICK n, t : n = Len(list) /\ t = Append(list, x)
  OBVIOUS
<1>3. /\ n \in Nat /\ DOMAIN list = 1..n /\ DOMAIN t = 1..n + 1
      /\ t[n + 1] = x /\ \A k \in 1..n : t[k] = list[k]
  <2>1. /\ n \in Nat /\ t \in Seq(K) /\ Len(t) = n + 1 /\ t[n + 1] = x
        /\ \A k \in 1..n : t[k] = list[k]
    BY <1>2, AppendParts
  <2> QED
    BY <1>2, <2>1, SeqIsFunction
<1>4. PICK a : /\ a[0] = <<>>
               /\ \A k \in 1..n : a[k] = a[k - 1] \o Written(list[k])
               /\ PrintedString(list) = a[n]
  BY <1>3, WriteSteps
<1>5. PICK b : /\ b[0] = <<>>
               /\ \A k \in 1..n + 1 : b[k] = b[k - 1] \o Written(t[k])
               /\ PrintedString(t) = b[n + 1]
  <2>1. n + 1 \in Nat
    BY <1>3
  <2> QED
    BY <1>3, <2>1, WriteSteps
<1> DEFINE T == {k \in Nat : k <= n => a[k] = b[k]}
<1>6. 0 \in T
  BY <1>4, <1>5
<1>7. ASSUME NEW k \in Nat, k \in T PROVE k + 1 \in T
  <2>1. ASSUME k + 1 <= n PROVE a[k + 1] = b[k + 1]
    <3>1. k + 1 \in 1..n /\ k + 1 \in 1..n + 1 /\ (k + 1) - 1 = k
      BY <1>3, <2>1
    <3>2. a[k + 1] = a[k] \o Written(list[k + 1])
      BY <1>4, <3>1
    <3>3. b[k + 1] = b[k] \o Written(t[k + 1])
      BY <1>5, <3>1
    <3>4. a[k] = b[k]
      BY <1>3, <1>7, <2>1
    <3> QED
      BY <1>3, <3>1, <3>2, <3>3, <3>4
  <2> QED
    BY <2>1
<1>8. a[n] = b[n]
  <2>1. \A k \in Nat : k \in T => k + 1 \in T
    BY <1>7
  <2>2. Nat \subseteq T
    <3> HIDE DEF T
    <3> QED
      BY <1>6, <2>1, NatInduct
  <2> QED
    BY <1>3, <2>2
<1>9. b[n + 1] = b[n] \o Written(x)
  <2>1. n + 1 \in 1..n + 1 /\ (n + 1) - 1 = n
    BY <1>3
  <2> QED
    BY <1>3, <1>5, <2>1
<1> QED
  BY <1>1, <1>2, <1>4, <1>5, <1>8, <1>9

\* The whole of short sequences.
LEMMA OneOfOne == ASSUME NEW a PROVE SubSeq(<<a>>, 1, 1) = <<a>>
<1>1. PICK t, u : t = <<a>> /\ u = SubSeq(t, 1, 1)
  OBVIOUS
<1>2. t \in Seq({a}) /\ Len(t) = 1 /\ t[1] = a
  BY <1>1
<1>3. u \in Seq({a}) /\ Len(u) = 1 /\ u[1] = t[1]
  BY <1>1, <1>2
<1>4. u = [i \in 1..1 |-> a] /\ <<a>> = [i \in 1..1 |-> a]
  <2>1. 1..1 = {1} /\ DOMAIN u = 1..1
    BY <1>3
  <2> QED
    BY <1>2, <1>3, <2>1
<1> QED
  BY <1>1, <1>4

\* ... of two elements.
LEMMA TwoOfTwo == ASSUME NEW a, NEW b PROVE SubSeq(<<a, b>>, 1, 2) = <<a, b>>
<1>1. PICK t, u : t = <<a, b>> /\ u = SubSeq(t, 1, 2)
  OBVIOUS
<1>2. t \in Seq({a, b}) /\ Len(t) = 2 /\ t[1] = a /\ t[2] = b
  BY <1>1
<1>3. u \in Seq({a, b}) /\ Len(u) = 2 /\ u[1] = t[1] /\ u[2] = t[2]
  BY <1>1, <1>2
<1> QED
  BY <1>1, <1>2, <1>3, Pair

\* The bytes of strings that the assembler gets right, and what is written behind the
\* backslash for those that need one.
Known == Printing \cup {0, 8, 9, 10, 12, 13}
Letter == [b \in {8, 9, 10, 12, 13} |->
             CASE b = 8 -> 98 [] b = 9 -> 116 [] b = 10 -> 110 [] b = 12 -> 102 [] b = 13 -> 114]
Behind(c) == IF c \in Quoted THEN c ELSE IF c = 0 THEN Zero ELSE Letter[c]
Bare(c) == c \in Printing \ Quoted

\* Each control character has its letter.
LEMMA ControlOfLetters ==
  /\ DOMAIN Control = {97, 98, 116, 110, 118, 102, 114}
  /\ Control[97] = 7 /\ Control[98] = 8 /\ Control[116] = 9 /\ Control[110] = 10
  /\ Control[118] = 11 /\ Control[102] = 12 /\ Control[114] = 13
  /\ Range(Control) = 7..13
<1>1. /\ ControlLetters[1] = 97 /\ ControlLetters[2] = 98 /\ ControlLetters[3] = 116
      /\ ControlLetters[4] = 110 /\ ControlLetters[5] = 118 /\ ControlLetters[6] = 102
      /\ ControlLetters[7] = 114 /\ DOMAIN ControlLetters = 1..7
  BY DEF ControlLetters
<1>2. 1..7 = {1, 2, 3, 4, 5, 6, 7}
  OBVIOUS
<1>3. DOMAIN Control = {97, 98, 116, 110, 118, 102, 114}
  BY <1>1, <1>2 DEF Control, Range
<1>4. ASSUME NEW i \in 1..7, NEW c, c = ControlLetters[i], c \in DOMAIN Control
      PROVE  Control[c] = i + 6
  <2>1. \A j \in 1..7 : ControlLetters[j] = c => j = i
    BY <1>1, <1>2, <1>4
  <2>2. \A b \in 7..13 : b - 6 \in 1..7 /\ (b - 6 = i => b = i + 6)
    OBVIOUS
  <2>3. i + 6 \in 7..13 /\ (i + 6) - 6 = i
    OBVIOUS
  <2>4. (CHOOSE b \in 7..13 : ControlLetters[b - 6] = c) = i + 6
    BY <1>4, <2>1, <2>2, <2>3
  <2>5. Control[c] = CHOOSE b \in 7..13 : ControlLetters[b - 6] = c
    BY <1>4 DEF Control
  <2> QED
    BY <2>4, <2>5
<1>5. \A i \in 1..7 : Control[ControlLetters[i]] = i + 6
  <2>1. \A i \in 1..7 : ControlLetters[i] \in DOMAIN Control
    BY <1>1, <1>2, <1>3
  <2> QED
    BY <1>4, <2>1
<1>6. /\ Control[97] = 7 /\ Control[98] = 8 /\ Control[116] = 9 /\ Control[110] = 10
      /\ Control[118] = 11 /\ Control[102] = 12 /\ Control[114] = 13
  BY <1>1, <1>5
<1>7. Range(Control) = 7..13
  <2>1. 7..13 = {7, 8, 9, 10, 11, 12, 13}
    OBVIOUS
  <2> QED
    BY <1>3, <1>6, <2>1 DEF Range
<1> QED
  BY <1>3, <1>6, <1>7

\* One character, or a backslash and one character, is written.
LEMMA WrittenIs ==
  ASSUME NEW c \in Known
  PROVE  /\ Written(c) = IF Bare(c) THEN <<c>> ELSE <<Backslash, Behind(c)>>
         /\ ~Bare(c) => Behind(c) \in 0..127
<1>1. CASE c \in Quoted
  <2>1. PrintedChar(c) = Escape(<<Backslash, c>>, 3)
    <3>1. /\ c \in Quoted /\ c \notin Printing \ Quoted /\ c # 0
          /\ c \notin Range(Control)
      BY <1>1, ControlOfLetters DEF Quoted, SingleQuote, DoubleQuote, Backslash
    <3> QED
      BY ONLY <3>1, Zenon DEF PrintedChar
  <2>2. Written(c) = SubSeq(<<Backslash, c>>, 1, 2)
    BY <2>1 DEF Written, Escape
  <2>3. c \in 0..127
    BY <1>1 DEF Quoted, SingleQuote, DoubleQuote, Backslash
  <2> QED
    BY <1>1, <2>2, <2>3, TwoOfTwo DEF Bare, Behind, Backslash
<1>2. CASE c \in Printing \ Quoted
  <2>1. PrintedChar(c) = Escape(<<c>>, 2)
    <3>1. /\ c \notin Quoted /\ c \in Printing \ Quoted /\ c # 0
          /\ c \notin Range(Control)
      BY <1>2, ControlOfLetters DEF Printing
    <3> QED
      BY ONLY <3>1, Zenon DEF PrintedChar
  <2>2. Written(c) = SubSeq(<<c>>, 1, 1)
    BY <2>1 DEF Written, Escape
  <2> QED
    BY <1>2, <2>2, OneOfOne DEF Bare
<1>3. CASE c = 0
  <2>1. c \notin Quoted /\ c \notin Printing
    BY <1>3 DEF Quoted, Printing, SingleQuote, DoubleQuote, Backslash
  <2>2. PrintedChar(c) = Escape(<<Backslash, Zero>>, 3)
    <3>1. c \notin Range(Control)
      BY <1>3, ControlOfLetters
    <3> QED
      BY <1>3, <2>1, <3>1 DEF PrintedChar
  <2>3. Written(c) = SubSeq(<<Backslash, Zero>>, 1, 2)
    BY <2>2 DEF Written, Escape
  <2> QED
    BY <1>3, <2>1, <2>3, TwoOfTwo DEF Bare, Behind, Backslash, Zero
<1>4. CASE c \in {8, 9, 10, 12, 13}
  <2>1. c \notin Quoted /\ c \notin Printing /\ c # 0
    BY <1>4 DEF Quoted, Printing, SingleQuote, DoubleQuote, Backslash
  <2>2. /\ Letter[c] \in DOMAIN Control /\ Control[Letter[c]] = c
        /\ \A l \in DOMAIN Control : Control[l] = c => l = Letter[c]
    BY <1>4, ControlOfLetters DEF Letter
  <2>3. c \in Range(Control) /\ (CHOOSE l \in DOMAIN Control : Control[l] = c) = Letter[c]
    BY <2>2 DEF Range
  <2>4. PrintedChar(c) = Escape(<<Backslash, Letter[c]>>, 3)
    BY <2>1, <2>3 DEF PrintedChar
  <2>5. Written(c) = SubSeq(<<Backslash, Letter[c]>>, 1, 2)
    BY <2>4 DEF Written, Escape
  <2>6. Letter[c] \in 0..127
    BY <1>4 DEF Letter
  <2> QED
    BY <2>1, <2>5, <2>6, TwoOfTwo DEF Bare, Behind, Backslash
<1> QED
  BY <1>1, <1>2, <1>3, <1>4 DEF Known

\* A byte of the string is written from p to q.
LaidAt(b, s, p, q) ==
  /\ p \in Nat /\ p # 0 /\ q \in Nat /\ q <= Len(s) + 1
  /\ IF Bare(b) THEN q = p + 1 /\ s[p] = b
     ELSE q = p + 2 /\ s[p] = Backslash /\ s[p + 1] = Behind(b)

\* All bytes are, one behind the other.
Laid(bytes, s, pos) ==
  /\ pos[1] = 1 /\ pos[Len(bytes) + 1] = Len(s) + 1
  /\ \A k \in 1..Len(bytes) : LaidAt(bytes[k], s, pos[k], pos[k + 1])

\* What is written for a byte, as a sequence.
LEMMA WrittenParts ==
  ASSUME NEW c \in Known, NEW w, w = Written(c)
  PROVE  /\ w \in Seq(0..127)
         /\ IF Bare(c) THEN Len(w) = 1 /\ w[1] = c
            ELSE Len(w) = 2 /\ w[1] = Backslash /\ w[2] = Behind(c)
<1>1. CASE Bare(c)
  <2>1. w = <<c>>
    BY <1>1, WrittenIs
  <2>2. c \in 0..127
    BY DEF Known, Printing
  <2> QED
    BY <1>1, <2>1, <2>2
<1>2. CASE ~Bare(c)
  <2>1. w = <<Backslash, Behind(c)>> /\ Behind(c) \in 0..127
    BY <1>2, WrittenIs
  <2>2. Backslash \in 0..127
    BY DEF Backslash
  <2>3. PICK a, b : a = Backslash /\ b = Behind(c)
    OBVIOUS
  <2>4. w \in Seq(0..127) /\ Len(w) = 2 /\ w[1] = a /\ w[2] = b
    BY ONLY <2>1, <2>2, <2>3
  <2> QED
    BY <1>2, <2>3, <2>4
<1> QED
  BY <1>1, <1>2

\* What was written stays when more is.
LEMMA LaidStays ==
  ASSUME NEW b, NEW S, NEW s \in Seq(S), NEW w \in Seq(S), NEW p, NEW q, LaidAt(b, s, p, q)
  PROVE  LaidAt(b, s \o w, p, q)
<1>1. PICK t, n, m : t = s \o w /\ n = Len(s) /\ m = Len(w)
  OBVIOUS
<1>2. n \in Nat /\ m \in Nat /\ Len(t) = n + m /\ \A i \in 1..n : t[i] = s[i]
  BY <1>1, ConcatParts
<1>3. p \in Nat /\ p # 0 /\ q \in Nat /\ q <= n + 1
  BY <1>1 DEF LaidAt
<1>4. q <= Len(t) + 1
  BY <1>2, <1>3
<1>5. CASE Bare(b)
  <2>1. q = p + 1 /\ s[p] = b
    BY <1>5 DEF LaidAt
  <2>2. p \in 1..n
    BY <1>2, <1>3, <2>1
  <2> QED
    BY <1>1, <1>2, <1>3, <1>4, <1>5, <2>1, <2>2 DEF LaidAt
<1>6. CASE ~Bare(b)
  <2>1. q = p + 2 /\ s[p] = Backslash /\ s[p + 1] = Behind(b)
    BY <1>6 DEF LaidAt
  <2>2. p \in 1..n /\ p + 1 \in 1..n
    BY <1>2, <1>3, <2>1
  <2> QED
    BY <1>1, <1>2, <1>3, <1>4, <1>6, <2>1, <2>2 DEF LaidAt
<1> QED
  BY <1>5, <1>6

\* The string is written byte after byte.
LEMMA StringLaid ==
  ASSUME NEW bytes \in Seq(Known)
  PROVE  /\ PrintedString(bytes) \in Seq(0..127)
         /\ \E pos : Laid(bytes, PrintedString(bytes), pos)
<1> DEFINE P == {b \in Seq(Known) : /\ PrintedString(b) \in Seq(0..127)
                                    /\ \E pos : Laid(b, PrintedString(b), pos)}
<1>1. <<>> \in P
  <2>1. PrintedString(<<>>) = <<>>
    BY PrintedAppend, EmptySeq
  <2>2. Laid(<<>>, <<>>, [k \in {1} |-> 1])
    BY DEF Laid
  <2>3. \E pos : Laid(<<>>, <<>>, pos)
    BY <2>2
  <2>4. <<>> \in Seq(Known) /\ <<>> \in Seq(0..127)
    OBVIOUS
  <2> QED
    BY ONLY <2>1, <2>3, <2>4, Zenon
<1>2. ASSUME NEW b \in Seq(Known), NEW x \in Known, b \in P PROVE Append(b, x) \in P
  <2>1. PICK s, w, n, m, l : /\ s = PrintedString(b) /\ w = Written(x) /\ n = Len(b)
                             /\ m = Len(s) /\ l = Len(w)
    OBVIOUS
  <2>2. PICK pos : Laid(b, s, pos)
    BY <1>2, <2>1
  <2>3. PICK c, t : c = Append(b, x) /\ t = s \o w
    OBVIOUS
  <2>4. PrintedString(c) = t
    BY <2>1, <2>3, PrintedAppend
  <2>5. s \in Seq(0..127) /\ w \in Seq(0..127)
    BY <1>2, <2>1, WrittenParts
  <2>6. /\ c \in Seq(Known) /\ n \in Nat /\ Len(c) = n + 1 /\ c[n + 1] = x
        /\ \A k \in 1..n : c[k] = b[k]
    BY <2>1, <2>3, AppendParts
  <2>7. /\ t \in Seq(0..127) /\ m \in Nat /\ l \in Nat /\ Len(t) = m + l
        /\ \A i \in 1..l : t[m + i] = w[i]
    BY <2>1, <2>3, <2>5, ConcatParts
  <2> DEFINE new == [k \in 1..n + 2 |-> IF k <= n + 1 THEN pos[k] ELSE m + l + 1]
  <2>8. pos[n + 1] = m + 1 /\ pos[1] = 1
    BY <2>1, <2>2 DEF Laid
  <2>9. /\ new[1] = 1 /\ new[n + 2] = m + l + 1
        /\ \A k \in 1..n + 1 : new[k] = pos[k]
    <3>1. 1 \in 1..n + 2 /\ 1 <= n + 1 /\ n + 2 \in 1..n + 2 /\ ~(n + 2 <= n + 1)
      BY <2>6
    <3>2. \A k \in 1..n + 1 : k \in 1..n + 2 /\ k <= n + 1
      BY <2>6
    <3> QED
      BY <2>8, <3>1, <3>2
  <2> HIDE DEF new
  <2>10. ASSUME NEW k \in 1..n PROVE LaidAt(c[k], t, new[k], new[k + 1])
    <3>1. LaidAt(b[k], s, pos[k], pos[k + 1])
      BY <2>1, <2>2 DEF Laid
    <3>2. LaidAt(b[k], t, pos[k], pos[k + 1])
      BY <2>3, <2>5, <3>1, LaidStays
    <3>3. k \in 1..n + 1 /\ k + 1 \in 1..n + 1
      BY <2>6
    <3> QED
      BY <2>6, <2>9, <3>2, <3>3
  <2>11. LaidAt(x, t, m + 1, m + l + 1)
    <3>1. IF Bare(x) THEN l = 1 /\ w[1] = x
          ELSE l = 2 /\ w[1] = Backslash /\ w[2] = Behind(x)
      BY <2>1, WrittenParts
    <3>2. CASE Bare(x)
      <4>1. l = 1 /\ t[m + 1] = x
        BY <2>7, <3>1, <3>2
      <4>2. m + 1 \in Nat /\ m + 1 # 0 /\ m + l + 1 = (m + 1) + 1 /\ m + l + 1 \in Nat
        BY <2>7, <4>1
      <4> QED
        BY <2>7, <3>2, <4>1, <4>2 DEF LaidAt
    <3>3. CASE ~Bare(x)
      <4>1. l = 2 /\ t[m + 1] = Backslash /\ t[m + 2] = Behind(x)
        BY <2>7, <3>1, <3>3
      <4>2. /\ m + 1 \in Nat /\ m + 1 # 0 /\ m + l + 1 = (m + 1) + 2 /\ m + l + 1 \in Nat
            /\ (m + 1) + 1 = m + 2
        BY <2>7, <4>1
      <4> QED
        BY <2>7, <3>3, <4>1, <4>2 DEF LaidAt
    <3> QED
      BY <3>2, <3>3
  <2>12. Laid(c, t, new)
    <3>1. LaidAt(c[n + 1], t, new[n + 1], new[(n + 1) + 1])
      <4>1. (n + 1) + 1 = n + 2 /\ n + 1 \in 1..n + 1
        BY <2>6
      <4> QED
        BY <2>6, <2>8, <2>9, <2>11, <4>1
    <3>2. ASSUME NEW k \in 1..n + 1 PROVE LaidAt(c[k], t, new[k], new[k + 1])
      <4>1. k \in 1..n \/ k = n + 1
        BY <2>6
      <4> QED
        BY <2>10, <3>1, <4>1
    <3>3. new[Len(c) + 1] = Len(t) + 1
      <4>1. Len(c) + 1 = n + 2 /\ Len(t) + 1 = m + l + 1
        BY <2>6, <2>7
      <4> QED
        BY <2>9, <4>1
    <3> QED
      BY <2>6, <2>9, <3>2, <3>3 DEF Laid
  <2> QED
    BY <2>3, <2>4, <2>6, <2>7, <2>12
<1>3. Seq(Known) \subseteq P
  <2>1. \A b \in Seq(Known), x \in Known : b \in P => Append(b, x) \in P
    BY <1>2
  <2> HIDE DEF P
  <2> QED
    BY <1>1, <2>1, SeqInduct
<1> QED
  BY <1>3

\* How many octal digits the assembler takes from i on.
DigitsFrom(s, i) ==
  Least(3, Cardinality({n \in 1..3 :
             i + n - 1 <= Len(s) /\ \A m \in 0..(n - 1) : s[i + m] \in OctalDigits}))
NumberFrom(s, i) == Numeral(8, [m \in 1..DigitsFrom(s, i) |-> s[i + m - 1] - Zero]) % 256

\* What the assembler makes of s from i on, when f says what it makes of the rest.
AssembledStep(s, f, i) ==
  IF i > Len(s) THEN <<>>
  ELSE IF i = Len(s) \/ s[i] # Backslash THEN <<s[i]>> \o f[i + 1]
  ELSE CASE s[i + 1] \in OctalDigits ->
              <<NumberFrom(s, i + 1)>> \o f[i + 1 + DigitsFrom(s, i + 1)]
         [] s[i + 1] \in AssemblerControl -> <<Control[s[i + 1]]>> \o f[i + 2]
         [] OTHER -> <<s[i + 1]>> \o f[i + 2]

\* At least one digit, and no more than there are characters.
LEMMA DigitsBounded ==
  ASSUME NEW S, NEW s \in Seq(S), NEW i \in 1..Len(s), s[i] \in OctalDigits
  PROVE  DigitsFrom(s, i) \in 1..Len(s) + 1 - i
<1> DEFINE D == {n \in 1..3 :
                   i + n - 1 <= Len(s) /\ \A m \in 0..(n - 1) : s[i + m] \in OctalDigits}
<1>1. PICK l \in Nat : l = Len(s)
  BY SeqIsFunction
<1>2. i \in Nat /\ i >= 1 /\ i <= l /\ l + 1 - i \in Nat
  BY <1>1
<1>3. D \subseteq 1..l + 1 - i
  <2>1. ASSUME NEW n \in D PROVE n \in 1..l + 1 - i
    <3>1. n \in 1..3 /\ i + n - 1 <= l
      BY <1>1
    <3> QED
      BY <1>2, <3>1
  <2> QED
    BY <2>1
<1>4. 1 \in D
  <2>1. i + 1 - 1 <= Len(s) /\ \A m \in 0..(1 - 1) : i + m = i
    BY <1>1, <1>2
  <2>2. \A m \in 0..(1 - 1) : s[i + m] \in OctalDigits
    BY <2>1
  <2>3. 1 \in 1..3
    OBVIOUS
  <2> QED
    BY ONLY <2>1, <2>2, <2>3
<1>5. IsFiniteSet(D) /\ Cardinality(D) \in Nat /\ Cardinality(D) <= l + 1 - i
  <2> HIDE DEF D
  <2>1. IsFiniteSet(1..l + 1 - i) /\ Cardinality(1..l + 1 - i) = l + 1 - i
    <3>1. PICK k \in Nat : k = l + 1 - i
      BY <1>2
    <3>2. 1 \in Int /\ k \in Int
      BY <3>1
    <3>3. IsFiniteSet(1..k) /\ Cardinality(1..k) = IF 1 > k THEN 0 ELSE k - 1 + 1
      BY ONLY <3>2, FS_Interval
    <3> QED
      BY <3>1, <3>3
  <2>2. IsFiniteSet(D) /\ Cardinality(D) <= Cardinality(1..l + 1 - i)
    BY ONLY <1>3, <2>1, FS_Subset
  <2> QED
    BY <2>1, <2>2, FS_CardinalityType
<1>6. Cardinality(D) # 0
  <2> HIDE DEF D
  <2>1. \A T : IsFiniteSet(T) => (Cardinality(T) = 0 <=> T = {})
    BY FS_EmptySet
  <2> QED
    BY <1>4, <1>5, <2>1
<1>7. DigitsFrom(s, i) = Least(3, Cardinality(D))
  BY DEF DigitsFrom
<1> HIDE DEF D
<1>8. PICK k \in Nat : k = Cardinality(D)
  BY <1>5
<1>9. Least(3, k) \in 1..l + 1 - i
  BY <1>2, <1>5, <1>6, <1>8 DEF Least
<1> QED
  BY <1>1, <1>7, <1>8, <1>9

\* The assembler reads from the end what it makes of the whole operand.
LEMMA AssembledSteps ==
  ASSUME NEW S, NEW s \in Seq(S)
  PROVE  \E f : /\ Assembled(s) = f[1]
                /\ \A i \in 1..Len(s) + 1 : f[i] = AssembledStep(s, f, i)
<1> DEFINE n == Len(s)
           From == CHOOSE f : f = [i \in 1..(n + 1) |-> AssembledStep(s, f, i)]
           Upto(k, f) == \A i \in 1..n + 1 : n + 1 - i < k => f[i] = AssembledStep(s, f, i)
           T == {k \in Nat : \E f : Upto(k, f) /\ f = [i \in 1..n + 1 |-> f[i]]}
<1>1. Assembled(s) = From[1]
  BY Zenon DEF Assembled, AssembledStep, DigitsFrom, NumberFrom
<1>2. n \in Nat
  BY SeqIsFunction
<1>3. ASSUME NEW f, NEW g, NEW i \in 1..n + 1, \A j \in 1..n + 1 : j > i => f[j] = g[j]
      PROVE  AssembledStep(s, f, i) = AssembledStep(s, g, i)
  <2>1. CASE i > n
    BY <2>1 DEF AssembledStep
  <2>2. CASE ~(i > n)
    <3>1. i \in 1..n /\ i + 1 \in 1..n + 1 /\ i + 1 > i
      BY <1>2, <2>2
    <3>2. f[i + 1] = g[i + 1]
      BY <1>3, <3>1
    <3>3. i # n => f[i + 2] = g[i + 2]
      <4>1. i # n => i + 2 \in 1..n + 1 /\ i + 2 > i
        BY <1>2, <3>1
      <4> QED
        BY <1>3, <4>1
    <3>4. i # n /\ s[i + 1] \in OctalDigits =>
            f[i + 1 + DigitsFrom(s, i + 1)] = g[i + 1 + DigitsFrom(s, i + 1)]
      <4>1. ASSUME i # n, s[i + 1] \in OctalDigits
            PROVE  i + 1 + DigitsFrom(s, i + 1) \in 1..n + 1 /\ i + 1 + DigitsFrom(s, i + 1) > i
        <5>1. i + 1 \in 1..Len(s)
          BY <1>2, <3>1, <4>1
        <5>2. PICK k : k = DigitsFrom(s, i + 1)
          OBVIOUS
        <5>3. k \in 1..n + 1 - (i + 1)
          BY <4>1, <5>1, <5>2, DigitsBounded
        <5>4. i + 1 + k \in 1..n + 1 /\ i + 1 + k > i
          BY <1>2, <3>1, <5>3
        <5> QED
          BY <5>2, <5>4
      <4> QED
        BY <1>3, <4>1
    <3> HIDE DEF n
    <3>5. n = Len(s)
      BY DEF n
    <3>6. CASE i = n \/ s[i] # Backslash
      BY <2>2, <3>2, <3>5, <3>6 DEF AssembledStep
    <3>7. CASE ~(i = n \/ s[i] # Backslash)
      BY <2>2, <3>3, <3>4, <3>5, <3>7 DEF AssembledStep
    <3> QED
      BY <3>6, <3>7
  <2> QED
    BY <2>1, <2>2
<1> HIDE DEF n
<1>4. 0 \in T
  <2>1. \A i \in 1..n + 1 : ~(n + 1 - i < 0)
    BY <1>2
  <2>2. Upto(0, [i \in 1..n + 1 |-> <<>>])
    BY <2>1
  <2>3. [i \in 1..n + 1 |-> <<>>] = [i \in 1..n + 1 |-> [j \in 1..n + 1 |-> <<>>][i]]
    OBVIOUS
  <2> HIDE DEF Upto
  <2> QED
    BY <2>2, <2>3
<1>5. ASSUME NEW k \in Nat, k \in T PROVE k + 1 \in T
  <2>1. PICK f : Upto(k, f) /\ f = [i \in 1..n + 1 |-> f[i]]
    BY <1>5
  <2> DEFINE g == [i \in 1..n + 1 |-> AssembledStep(s, f, i)]
  <2>2. ASSUME NEW i \in 1..n + 1, n + 1 - i < k + 1 PROVE g[i] = AssembledStep(s, g, i)
    <3>1. ASSUME NEW j \in 1..n + 1, j > i PROVE f[j] = g[j]
      <4>1. n + 1 - j < k
        BY <1>2, <2>2, <3>1
      <4> QED
        BY <2>1, <4>1
    <3> HIDE DEF g
    <3>2. AssembledStep(s, f, i) = AssembledStep(s, g, i)
      BY <1>3, <3>1
    <3> QED
      BY <3>2 DEF g
  <2>3. Upto(k + 1, g) /\ g = [i \in 1..n + 1 |-> g[i]]
    <3> HIDE DEF g
    <3>1. Upto(k + 1, g)
      BY <2>2
    <3>2. g = [i \in 1..n + 1 |-> g[i]]
      BY DEF g
    <3> QED
      BY <3>1, <3>2
  <2>4. k + 1 \in Nat
    OBVIOUS
  <2> HIDE DEF g, Upto
  <2> QED
    BY <2>3, <2>4
<1>6. \E f : f = [i \in 1..n + 1 |-> AssembledStep(s, f, i)]
  <2>1. Nat \subseteq T
    <3>1. \A k \in Nat : k \in T => k + 1 \in T
      BY <1>5
    <3> HIDE DEF T
    <3> QED
      BY <1>4, <3>1, NatInduct
  <2>2. n + 1 \in T
    <3>1. n + 1 \in Nat
      BY <1>2
    <3> HIDE DEF T
    <3> QED
      BY <2>1, <3>1
  <2>3. PICK f : Upto(n + 1, f) /\ f = [i \in 1..n + 1 |-> f[i]]
    BY <2>2
  <2>4. ASSUME NEW i \in 1..n + 1 PROVE f[i] = AssembledStep(s, f, i)
    <3>1. n + 1 - i < n + 1
      BY <1>2
    <3> QED
      BY <2>3, <3>1
  <2> HIDE DEF Upto
  <2>5. f = [i \in 1..n + 1 |-> AssembledStep(s, f, i)]
    BY <2>3, <2>4
  <2> QED
    BY <2>5
<1>7. From = [i \in 1..n + 1 |-> AssembledStep(s, From, i)]
  BY <1>6
<1> HIDE DEF From
<1>8. \A i \in 1..n + 1 : From[i] = AssembledStep(s, From, i)
  BY <1>7, Zenon
<1> QED
  BY <1>1, <1>8 DEF n

\* The number 0.
LEMMA NumeralOfZero == ASSUME NEW z, z = [m \in 1..1 |-> 0] PROVE Numeral(8, z) = 0
<1> DEFINE Op(n, d) == 8 * n + d
           Iter == CHOOSE it : it = [s \in SUBSET (1..1) |->
                     IF s = {} THEN 0 ELSE Op(it[s \ {Max(s)}], z[Max(s)])]
<1>1. DOMAIN z = 1..1
  OBVIOUS
<1>2. Numeral(8, z) = Iter[1..1]
  BY <1>1, Zenon DEF Numeral, FoldLeft, MapThenFoldSet
<1> HIDE DEF Op
<1> DEFINE w == [s \in SUBSET (1..1) |-> 0]
<1>3. \A s \in SUBSET (1..1) : s # {} => Max(s) = 1 /\ s \ {Max(s)} \in SUBSET (1..1)
  <2>1. ASSUME NEW s \in SUBSET (1..1), s # {} PROVE Max(s) = 1
    <3>1. PICK x : x \in s
      BY <2>1
    <3>2. x \in 1..1
      BY <3>1
    <3>3. s \subseteq 1..1 /\ 1 \in s
      BY <3>1, <3>2
    <3>4. s \subseteq 1..0 + 1 /\ 0 + 1 \in s
      BY <3>3
    <3>5. Max(s) = 0 + 1
      BY <3>4, MaxOfSegment
    <3> QED
      BY <3>5
  <2> QED
    BY <2>1
<1>4. Op(0, 0) = 0
  BY DEF Op
<1>5. w = [s \in SUBSET (1..1) |-> IF s = {} THEN 0 ELSE Op(w[s \ {Max(s)}], z[Max(s)])]
  <2>1. \A s \in SUBSET (1..1) : s # {} => w[s \ {Max(s)}] = 0 /\ z[Max(s)] = 0
    BY <1>3
  <2>2. \A s \in SUBSET (1..1) : (IF s = {} THEN 0 ELSE Op(w[s \ {Max(s)}], z[Max(s)])) = 0
    BY <1>4, <2>1
  <2> QED
    BY <2>2
<1>6. Iter = [s \in SUBSET (1..1) |-> IF s = {} THEN 0 ELSE Op(Iter[s \ {Max(s)}], z[Max(s)])]
  <2> HIDE DEF w
  <2> QED
    BY <1>5
<1> HIDE DEF Iter
<1>7. {} \in SUBSET (1..1) /\ 1..1 \in SUBSET (1..1) /\ 1..1 # {}
  OBVIOUS
<1>8. Iter[{}] = 0
  BY <1>6, <1>7
<1>9. Max(1..1) = 1 /\ (1..1) \ {Max(1..1)} = {}
  BY <1>3, <1>7
<1>10. Iter[1..1] = Op(Iter[{}], z[1])
  BY <1>6, <1>7, <1>9
<1>11. z[1] = 0
  OBVIOUS
<1> QED
  BY <1>2, <1>4, <1>8, <1>10, <1>11

\* A zero with no digit behind it is the byte 0.
LEMMA OneDigit ==
  ASSUME NEW S, NEW s \in Seq(S), NEW i \in 1..Len(s), s[i] = Zero,
         i = Len(s) \/ s[i + 1] \notin OctalDigits
  PROVE  DigitsFrom(s, i) = 1 /\ NumberFrom(s, i) = 0
<1> DEFINE D == {n \in 1..3 :
                   i + n - 1 <= Len(s) /\ \A m \in 0..(n - 1) : s[i + m] \in OctalDigits}
<1>1. PICK l \in Nat : l = Len(s)
  BY SeqIsFunction
<1>2. i \in Nat /\ i >= 1 /\ i <= l
  BY <1>1
<1>3. 1 \in D
  <2>1. i + 1 - 1 <= Len(s) /\ \A m \in 0..(1 - 1) : i + m = i
    BY <1>1, <1>2
  <2>2. \A m \in 0..(1 - 1) : s[i + m] \in OctalDigits
    BY <2>1 DEF Zero, OctalDigits
  <2>3. 1 \in 1..3
    OBVIOUS
  <2> QED
    BY ONLY <2>1, <2>2, <2>3
<1>4. ASSUME NEW n \in D, n # 1 PROVE FALSE
  <2>1. n \in 1..3 /\ i + n - 1 <= l /\ 1 \in 0..(n - 1)
    BY <1>1, <1>4
  <2>2. s[i + 1] \in OctalDigits
    BY <2>1
  <2>3. i # l
    BY <1>2, <1>4, <2>1
  <2> QED
    BY <1>1, <2>2, <2>3
<1>5. D = {1}
  <2> HIDE DEF D
  <2> QED
    BY <1>3, <1>4
<1>6. Cardinality(D) = 1
  <2> HIDE DEF D
  <2> QED
    BY <1>5, FS_Singleton
<1>7. DigitsFrom(s, i) = 1
  <2>1. DigitsFrom(s, i) = Least(3, Cardinality(D))
    BY DEF DigitsFrom
  <2> HIDE DEF D
  <2> QED
    BY <1>6, <2>1 DEF Least
<1>8. [m \in 1..1 |-> s[i + m - 1] - Zero] = [m \in 1..1 |-> 0]
  <2>1. \A m \in 1..1 : i + m - 1 = i
    BY <1>2
  <2> QED
    BY <2>1 DEF Zero
<1>9. NumberFrom(s, i) = 0 % 256
  BY <1>7, <1>8, NumeralOfZero DEF NumberFrom
<1> QED
  BY <1>7, <1>9

\* The assembler reads a byte as it was written.
LEMMA ByteRead ==
  ASSUME NEW s \in Seq(0..127), NEW f,
         \A i \in 1..Len(s) + 1 : f[i] = AssembledStep(s, f, i),
         NEW b \in Known, NEW p, NEW q, LaidAt(b, s, p, q),
         b = 0 => q = Len(s) + 1 \/ s[q] \notin OctalDigits
  PROVE  f[p] = <<b>> \o f[q]
<1>1. PICK l \in Nat : l = Len(s)
  BY SeqIsFunction
<1>2. p \in Nat /\ p >= 1 /\ q \in Nat /\ q <= l + 1
  BY <1>1 DEF LaidAt
<1>3. CASE Bare(b)
  <2>1. q = p + 1 /\ s[p] = b /\ b # Backslash
    BY <1>3 DEF LaidAt, Bare, Quoted
  <2>2. p \in 1..l + 1 /\ ~(p > l)
    BY <1>2, <2>1
  <2>3. f[p] = AssembledStep(s, f, p)
    BY <1>1, <2>2
  <2> QED
    BY <1>1, <2>1, <2>2, <2>3 DEF AssembledStep
<1>4. CASE ~Bare(b)
  <2>1. q = p + 2 /\ s[p] = Backslash /\ s[p + 1] = Behind(b)
    BY <1>4 DEF LaidAt
  <2>2. /\ p \in 1..l + 1 /\ ~(p > l) /\ p # l /\ p + 1 \in 1..l
        /\ (p + 1) + 1 = p + 2 /\ (p + 1 = l <=> q = l + 1)
    BY <1>2, <2>1
  <2>3. f[p] = AssembledStep(s, f, p)
    BY <1>1, <2>2
  <2>4. f[p] = CASE s[p + 1] \in OctalDigits ->
                      <<NumberFrom(s, p + 1)>> \o f[p + 1 + DigitsFrom(s, p + 1)]
                 [] s[p + 1] \in AssemblerControl -> <<Control[s[p + 1]]>> \o f[p + 2]
                 [] OTHER -> <<s[p + 1]>> \o f[p + 2]
    BY <1>1, <2>1, <2>2, <2>3 DEF AssembledStep
  <2>5. CASE b \in Quoted
    <3>1. Behind(b) = b
      BY <2>5 DEF Behind
    <3>2. b \notin OctalDigits /\ b \notin AssemblerControl
      BY <2>5 DEF Quoted, SingleQuote, DoubleQuote, Backslash, OctalDigits, AssemblerControl
    <3> QED
      BY ONLY <2>1, <2>4, <3>1, <3>2
  <2>6. CASE b = 0
    <3>1. s[p + 1] = Zero /\ Zero \in OctalDigits /\ Zero \notin AssemblerControl
      BY <2>1, <2>6 DEF Behind, Quoted, SingleQuote, DoubleQuote, Backslash, Zero, OctalDigits,
                        AssemblerControl
    <3>2. p + 1 = Len(s) \/ s[(p + 1) + 1] \notin OctalDigits
      BY <1>1, <2>1, <2>2, <2>6
    <3>3. DigitsFrom(s, p + 1) = 1 /\ NumberFrom(s, p + 1) = 0
      BY <1>1, <2>2, <3>1, <3>2, OneDigit
    <3>4. p + 1 + DigitsFrom(s, p + 1) = p + 2
      BY <1>2, <3>3
    <3> QED
      BY ONLY <2>1, <2>4, <2>6, <3>1, <3>3, <3>4
  <2>7. CASE b \in {8, 9, 10, 12, 13}
    <3>1. Behind(b) = Letter[b]
      BY <2>7 DEF Behind, Quoted, SingleQuote, DoubleQuote, Backslash
    <3>2. /\ Letter[b] \notin OctalDigits /\ Letter[b] \in AssemblerControl
          /\ Control[Letter[b]] = b
      BY <2>7, ControlOfLetters DEF Letter, OctalDigits, AssemblerControl
    <3> QED
      BY ONLY <2>1, <2>4, <3>1, <3>2
  <2> QED
    BY <1>4, <2>5, <2>6, <2>7 DEF Known, Bare
<1> QED
  BY <1>3, <1>4

\* No digit follows a zero.
ZeroEnds(bytes) ==
  \A k \in 1..Len(bytes) :
    k + 1 \in 1..Len(bytes) /\ bytes[k] = 0 => bytes[k + 1] \notin OctalDigits

\* The assembler reads a string as it was written.
LEMMA StringRead ==
  ASSUME NEW bytes \in Seq(Known), ZeroEnds(bytes)
  PROVE  Assembled(PrintedString(bytes)) = bytes
<1>1. PICK s, n : s = PrintedString(bytes) /\ n = Len(bytes)
  OBVIOUS
<1>2. s \in Seq(0..127)
  BY <1>1, StringLaid
<1>3. PICK pos : Laid(bytes, s, pos)
  BY <1>1, StringLaid
<1>4. PICK f : /\ Assembled(s) = f[1]
               /\ \A i \in 1..Len(s) + 1 : f[i] = AssembledStep(s, f, i)
  BY <1>2, AssembledSteps
<1>5. n \in Nat /\ \A k \in 1..n : bytes[k] \in Known
  BY <1>1, SeqIsFunction
<1>6. /\ pos[1] = 1 /\ pos[n + 1] = Len(s) + 1
      /\ \A k \in 1..n : LaidAt(bytes[k], s, pos[k], pos[k + 1])
  BY <1>1, <1>3 DEF Laid
<1>7. ASSUME NEW k \in 1..n PROVE f[pos[k]] = <<bytes[k]>> \o f[pos[k + 1]]
  <2>1. bytes[k] = 0 => pos[k + 1] = Len(s) + 1 \/ s[pos[k + 1]] \notin OctalDigits
    <3>1. CASE k = n
      BY <1>6, <3>1
    <3>2. CASE k # n
      <4>1. k + 1 \in 1..n
        BY <1>5, <3>2
      <4>2. LaidAt(bytes[k + 1], s, pos[k + 1], pos[(k + 1) + 1])
        BY <1>6, <4>1
      <4>3. s[pos[k + 1]] \in {bytes[k + 1], Backslash}
        BY <4>2 DEF LaidAt
      <4>4. bytes[k] = 0 => bytes[k + 1] \notin OctalDigits
        BY <1>1, <4>1 DEF ZeroEnds
      <4>5. Backslash \notin OctalDigits
        BY DEF Backslash, OctalDigits
      <4> QED
        BY <4>3, <4>4, <4>5
    <3> QED
      BY <3>1, <3>2
  <2>2. PICK b, p, q : b = bytes[k] /\ p = pos[k] /\ q = pos[k + 1]
    OBVIOUS
  <2>3. b \in Known /\ LaidAt(b, s, p, q) /\ (b = 0 => q = Len(s) + 1 \/ s[q] \notin OctalDigits)
    BY <1>5, <1>6, <2>1, <2>2
  <2>4. f[p] = <<b>> \o f[q]
    BY ONLY <1>2, <1>4, <2>3, ByteRead
  <2> QED
    BY <2>2, <2>4
<1> DEFINE Rest(k) == [i \in 1..k |-> bytes[n - k + i]]
           T == {k \in Nat : k <= n => f[pos[n + 1 - k]] = Rest(k)}
<1>8. 0 \in T
  <2>1. f[Len(s) + 1] = <<>>
    <3>1. PICK l \in Nat : l = Len(s)
      BY <1>2, SeqIsFunction
    <3>2. l + 1 \in 1..l + 1 /\ l + 1 > l
      BY <3>1
    <3> QED
      BY <1>4, <3>1, <3>2 DEF AssembledStep
  <2>2. n + 1 - 0 = n + 1
    BY <1>5
  <2>3. Rest(0) = <<>>
    <3>1. 1..0 = {} /\ <<>> = [i \in 1..0 |-> bytes[n - 0 + i]]
      OBVIOUS
    <3> QED
      BY <3>1
  <2> QED
    BY <1>6, <2>1, <2>2, <2>3
<1>9. ASSUME NEW k \in Nat, k \in T PROVE k + 1 \in T
  <2>1. ASSUME k + 1 <= n PROVE f[pos[n + 1 - (k + 1)]] = Rest(k + 1)
    <3>1. PICK j : j = n - k
      OBVIOUS
    <3>2. j \in 1..n /\ n + 1 - (k + 1) = j /\ n + 1 - k = j + 1 /\ n - (k + 1) = j - 1
      BY <1>5, <2>1, <3>1
    <3>3. f[pos[j]] = <<bytes[j]>> \o Rest(k)
      <4>1. k <= n
        BY <1>5, <2>1
      <4>2. f[pos[n + 1 - k]] = Rest(k)
        BY <1>9, <4>1
      <4> HIDE DEF Rest
      <4>3. f[pos[j + 1]] = Rest(k)
        BY <3>2, <4>2
      <4>4. f[pos[j]] = <<bytes[j]>> \o f[pos[j + 1]]
        BY <1>7, <3>2
      <4> QED
        BY <4>3, <4>4
    <3>4. \A i \in 1..k : n - k + i \in 1..n
      BY <1>5, <2>1
    <3>5. Rest(k) \in Seq(Known) /\ Len(Rest(k)) = k /\ \A i \in 1..k : Rest(k)[i] = bytes[j + i]
      <4>1. \A i \in 1..k : Rest(k)[i] = bytes[n - k + i] /\ Rest(k)[i] \in Known
        BY <1>5, <3>4
      <4>2. Rest(k) = [i \in 1..k |-> Rest(k)[i]]
        OBVIOUS
      <4>3. PICK r : r = Rest(k)
        OBVIOUS
      <4>4. r \in Seq(Known) /\ Len(r) = k
        <5>1. r = [i \in 1..k |-> r[i]] /\ \A i \in 1..k : r[i] \in Known
          BY <4>1, <4>2, <4>3
        <5> QED
          BY ONLY <5>1, k \in Nat, FunctionIsSeq
      <4> QED
        BY <3>1, <4>1, <4>3, <4>4
    <3>6. PICK r : r = Rest(k)
      OBVIOUS
    <3>7. PICK h, t : h = <<bytes[j]>> /\ t = h \o r
      OBVIOUS
    <3>8. h \in Seq(Known) /\ Len(h) = 1 /\ h[1] = bytes[j] /\ r \in Seq(Known) /\ Len(r) = k
      BY <1>5, <3>2, <3>5, <3>6, <3>7
    <3>9. /\ t \in Seq(Known) /\ Len(t) = 1 + k /\ t[1] = bytes[j]
          /\ \A i \in 1..k : t[1 + i] = r[i]
      <4>1. /\ t \in Seq(Known) /\ Len(t) = Len(h) + Len(r)
            /\ \A i \in 1..Len(h) : t[i] = h[i]
            /\ \A i \in 1..Len(r) : t[Len(h) + i] = r[i]
        BY ONLY <3>7, <3>8, ConcatParts
      <4> QED
        BY <3>8, <4>1
    <3>10. ASSUME NEW i \in 1..k + 1 PROVE t[i] = bytes[n - (k + 1) + i]
      <4>1. CASE i = 1
        <5>1. n - (k + 1) + i = j
          BY <3>2, <4>1
        <5> QED
          BY <3>9, <4>1, <5>1
      <4>2. CASE i # 1
        <5>1. i - 1 \in 1..k /\ 1 + (i - 1) = i /\ j + (i - 1) = n - (k + 1) + i
          BY <3>2, <4>2
        <5> QED
          BY <3>5, <3>6, <3>9, <5>1
      <4> QED
        BY <4>1, <4>2
    <3>11. t = Rest(k + 1)
      <4>1. DOMAIN t = 1..k + 1 /\ t = [i \in 1..k + 1 |-> t[i]]
        BY <3>9, SeqIsFunction
      <4> QED
        BY <3>10, <4>1
    <3> QED
      BY <3>2, <3>3, <3>6, <3>7, <3>11
  <2>2. k + 1 \in Nat
    OBVIOUS
  <2> HIDE DEF Rest
  <2> QED
    BY <2>1, <2>2
<1>10. n \in T
  <2>1. \A k \in Nat : k \in T => k + 1 \in T
    BY <1>9
  <2> HIDE DEF T
  <2>2. Nat \subseteq T
    BY <1>8, <2>1, NatInduct
  <2> QED
    BY <1>5, <2>2
<1>11. Rest(n) = bytes
  <2>1. bytes = [i \in 1..n |-> bytes[i]] /\ \A i \in 1..n : n - n + i = i
    BY <1>1, <1>5, SeqIsFunction
  <2> QED
    BY <2>1
<1>12. n + 1 - n = 1 /\ n <= n
  BY <1>5
<1> HIDE DEF Rest
<1> QED
  BY <1>1, <1>4, <1>6, <1>10, <1>11, <1>12

-----------------------------------------------------------------------------
(* What holds in all texts, the forms that are misread included.            *)

\* Where tokens come, what they are made of, and what literals are read into.
Delivered ==
  /\ token # NoToken => start = Initial
  /\ token.name = "STRING" => token.node.bytes \in Seq(-1..255)
  /\ start \in Reading => yylval.type = "STRING"

TextInv == Typed /\ Lines /\ Delivered

\* A step that delivers nothing.
LEMMA QuietKeeps ==
  ASSUME TextInv, NothingDelivered, start' \in Starts, jammed' \in BOOLEAN,
         yylval'.type \in {"NUMBER", "STRING", "CHAR"}, yylval'.string \in Seq(-1..255),
         start' \in Reading => yylval'.type = "STRING", Lines'
  PROVE  TextInv'
<1>1. token' = NoToken
  BY DEF NothingDelivered
<1>2. NoToken.name # "STRING"
  BY DEF NoToken
<1>3. Delivered'
  BY <1>1, <1>2, Zenon DEF Delivered
<1>4. Typed'
  BY DEF Typed
<1> QED
  BY <1>3, <1>4 DEF TextInv

\* A step that delivers a token.
LEMMA TokenStays ==
  ASSUME TextInv, NEW name, Deliver(name), start' = Initial, UNCHANGED jammed,
         yylval'.type \in {"NUMBER", "STRING", "CHAR"}, yylval'.string \in Seq(-1..255),
         name = "STRING" => yylval'.type = "STRING", Lines'
  PROVE  TextInv'
<1>1. token'.name = name /\ token'.node = Node(yylval')
  BY DEF Deliver
<1>2. yylval'.type = "STRING" => Node(yylval').bytes = yylval'.string
  BY DEF Node, StringNode
<1>3. Delivered'
  <2>1. token'.name = "STRING" => token'.node.bytes \in Seq(-1..255)
    BY <1>1, <1>2
  <2>2. start' \notin Reading
    BY Different, Zenon DEF Reading
  <2> QED
    BY <2>1, <2>2, Zenon DEF Delivered
<1>4. Typed'
  BY DEF TextInv, Typed, Starts
<1> QED
  BY <1>3, <1>4 DEF TextInv

\* Steps between literals.
LEMMA MarkersStay ==
  ASSUME TextInv,
         \/ \E n \in 1..MaxLine : Linemarker(n)
         \/ BeginName
         \/ EndLinemarker
         \/ Newline
         \/ \E s \in {"SC_STRING", "SC_CHAR"} : BeginLiteral(s)
  PROVE  TextInv'
<1>1. /\ start \in Starts /\ yylval.type \in {"NUMBER", "STRING", "CHAR"}
      /\ yylval.string \in Seq(-1..255) /\ jammed \in BOOLEAN
  BY DEF TextInv, Typed
<1>2. ASSUME NEW n \in 1..MaxLine, Linemarker(n) PROVE TextInv'
  <2>1. start = Initial
    BY <1>1, <1>2, Conditions DEF Linemarker, In
  <2>2. start' = Marker
    BY <1>2, <2>1, Entering DEF Linemarker
  <2>3. start' \in Starts /\ start' \notin Reading
    BY <2>2, Different, Zenon DEF Starts, Reading
  <2>4. Lines' /\ NothingDelivered /\ UNCHANGED <<yylval, jammed>>
    BY <1>2 DEF Lines, Linemarker
  <2> QED
    BY <1>1, <2>3, <2>4, QuietKeeps
<1>3. ASSUME BeginName PROVE TextInv'
  <2>1. start = Marker
    BY <1>1, <1>3, Conditions DEF BeginName, In
  <2>2. start' = InName
    BY <1>3, <2>1, Entering DEF BeginName
  <2>3. yylval'.type = "STRING" /\ yylval'.string \in Seq(-1..255)
    BY <1>3 DEF BeginName, StringBegun, Val
  <2>4. Lines' /\ NothingDelivered /\ UNCHANGED jammed
    BY <1>3 DEF TextInv, Lines, BeginName, KeepPosition
  <2> QED
    BY <1>1, <2>2, <2>3, <2>4, QuietKeeps DEF Starts
<1>4. ASSUME EndLinemarker PROVE TextInv'
  <2>1. start = Marker
    BY <1>1, <1>4, Conditions DEF EndLinemarker, In
  <2>2. start' = Initial
    BY <1>4, <2>1, Leaving DEF EndLinemarker
  <2>3. start' \in Starts /\ start' \notin Reading
    BY <2>2, Different, Zenon DEF Starts, Reading
  <2>4. Lines'
    <3>1. yylineno \in 1..MaxLine /\ yylineno = textLine /\ MaxLine \in Nat
      BY BoundsAssumption DEF TextInv, Lines
    <3>2. yylineno' = (yylineno + 1) - 1 /\ textLine' = textLine
      BY <1>4 DEF EndLinemarker
    <3>3. yylineno' = yylineno
      BY <3>1, <3>2
    <3> QED
      BY <3>1, <3>2, <3>3 DEF Lines
  <2>5. NothingDelivered /\ UNCHANGED <<yylval, jammed>>
    BY <1>4 DEF EndLinemarker
  <2> QED
    BY <1>1, <2>3, <2>4, <2>5, QuietKeeps
<1>5. ASSUME Newline PROVE TextInv'
  <2>1. start = Initial /\ start' = Initial
    BY <1>1, <1>5, Conditions DEF Newline, In
  <2>2. start' \in Starts /\ start' \notin Reading
    BY <2>1, Different, Zenon DEF Starts, Reading
  <2>3. Lines'
    BY <1>5, BoundsAssumption DEF TextInv, Lines, Newline
  <2>4. NothingDelivered /\ UNCHANGED <<yylval, jammed>>
    BY <1>5 DEF Newline
  <2> QED
    BY <1>1, <2>2, <2>3, <2>4, QuietKeeps
<1>6. ASSUME NEW s \in {"SC_STRING", "SC_CHAR"}, BeginLiteral(s) PROVE TextInv'
  <2>1. start = Initial
    BY <1>1, <1>6, Conditions DEF BeginLiteral, In
  <2>2. start' \in {InString, InChar}
    BY <1>6, <2>1, Entering DEF BeginLiteral
  <2>3. yylval'.type = "STRING" /\ yylval'.string \in Seq(-1..255)
    BY <1>6 DEF BeginLiteral, StringBegun, Val
  <2>4. Lines' /\ NothingDelivered /\ UNCHANGED jammed
    BY <1>6 DEF TextInv, Lines, BeginLiteral, KeepPosition
  <2>5. start' \in Starts
    BY <2>2 DEF Starts
  <2> QED
    BY <1>1, <2>3, <2>4, <2>5, QuietKeeps
<1> QED
  BY <1>2, <1>3, <1>4, <1>5, <1>6

\* One byte more.
LEMMA BytesStay ==
  ASSUME TextInv, NEW byte \in 0..255, NEW bytes, NEW rule, Characters(byte, bytes, rule)
  PROVE  TextInv'
<1>1. start \in Starts /\ yylval.string \in Seq(-1..255) /\ jammed \in BOOLEAN
  BY DEF TextInv, Typed
<1>2. start \in Reading /\ start' = start
  BY <1>1, Conditions DEF Characters, InLiteral, In, Reading
<1>3. yylval.type = "STRING"
  BY <1>2 DEF TextInv, Delivered
<1>4. Append(yylval.string, byte) \in Seq(-1..255)
  <2>1. byte \in -1..255
    OBVIOUS
  <2> QED
    BY <1>1, <2>1, AppendProperties, Zenon
<1>5. yylval'.type = "STRING" /\ yylval'.string \in Seq(-1..255)
  BY <1>3, <1>4 DEF Characters, Val
<1>6. Lines' /\ NothingDelivered /\ UNCHANGED jammed
  BY DEF TextInv, Lines, Characters, KeepPosition
<1> QED
  BY <1>1, <1>2, <1>5, <1>6, QuietKeeps

\* Whatever an escape says, its byte is one.
LEMMA DecodedIsByte == ASSUME NEW n \in Nat PROVE Decoded(n) \in 0..255
BY DEF Decoded

\* The rules for characters add a byte each.
LEMMA CharactersStay ==
  ASSUME TextInv,
         \/ \E c \in Plain : PlainCharacter(c)
         \/ OtherQuote
         \/ \E c \in Escapes : SimpleEscape(c)
         \/ \E digits \in Octals : OctalEscape(digits)
         \/ \E digits \in Hexes : HexEscape(digits)
  PROVE  TextInv'
<1>1. ASSUME NEW c \in Plain, PlainCharacter(c) PROVE TextInv'
  <2>1. c \in 0..255
    BY <1>1 DEF PlainCharacter, Listed
  <2>2. Characters(c, <<c>>, "other")
    BY <1>1 DEF PlainCharacter
  <2> QED
    BY <2>1, <2>2, BytesStay
<1>2. ASSUME OtherQuote PROVE TextInv'
  <2> DEFINE c == IF State = "SC_CHAR" THEN DoubleQuote ELSE SingleQuote
  <2>1. c \in 0..255
    BY DEF DoubleQuote, SingleQuote
  <2>2. Characters(c, <<c>>, "other")
    BY <1>2 DEF OtherQuote
  <2> HIDE DEF c
  <2> QED
    BY <2>1, <2>2, BytesStay
<1>3. ASSUME NEW c \in Escapes, SimpleEscape(c) PROVE TextInv'
  <2>1. Escaped(c) \in 0..255
    BY TextAssumption, EscapedIsByte
  <2>2. Characters(Escaped(c), <<Escaped(c)>>, "other")
    BY <1>3 DEF SimpleEscape
  <2> QED
    BY <2>1, <2>2, BytesStay
<1>4. ASSUME NEW digits \in Octals, OctalEscape(digits) PROVE TextInv'
  <2>1. \E bytes : Characters(Decoded(Numeral(8, digits)), bytes, "octal")
    BY <1>4, Zenon DEF OctalEscape
  <2>2. Decoded(Numeral(8, digits)) \in 0..255
    BY TextAssumption, DecodedIsByte
  <2> QED
    BY <2>1, <2>2, BytesStay
<1>5. ASSUME NEW digits \in Hexes, HexEscape(digits) PROVE TextInv'
  <2>1. \E bytes : Characters(Decoded(Numeral(16, digits)), bytes, "hex")
    BY <1>5, Zenon DEF HexEscape
  <2>2. Decoded(Numeral(16, digits)) \in 0..255
    BY TextAssumption, DecodedIsByte
  <2> QED
    BY <2>1, <2>2, BytesStay
<1> QED
  BY <1>1, <1>2, <1>3, <1>4, <1>5

\* The ends of literals.
LEMMA EndsStay ==
  ASSUME TextInv, EndString \/ EndChar
  PROVE  TextInv'
<1>1. start \in Starts /\ yylval.string \in Seq(-1..255) /\ jammed \in BOOLEAN
  BY DEF TextInv, Typed
<1>2. ASSUME EndString PROVE TextInv'
  <2>1. start \in {InString, InName}
    BY <1>1, <1>2, Conditions DEF EndString, In
  <2>2. yylval.type = "STRING" /\ yylval' = yylval
    BY <1>2, <2>1 DEF TextInv, Delivered, Reading, EndString
  <2>3. Lines' /\ UNCHANGED jammed
    BY <1>2 DEF TextInv, Lines, EndString, KeepPosition
  <2>4. CASE start = InString
    <3>1. start' = Initial /\ start'[Len(start')] = "INITIAL"
      BY <1>2, <2>4, Leaving DEF EndString
    <3>2. Deliver("STRING")
      BY <1>2, <3>1 DEF EndString
    <3> QED
      BY <1>1, <2>2, <2>3, <3>1, <3>2, TokenStays
  <2>5. CASE start = InName
    <3>1. start' = Marker /\ start'[Len(start')] # "INITIAL"
      BY <1>2, <2>5, Leaving DEF EndString
    <3>2. NothingDelivered
      BY <1>2, <3>1 DEF EndString
    <3>3. start' \in Starts /\ start' \notin Reading
      BY <3>1, Different, Zenon DEF Starts, Reading
    <3> QED
      BY <1>1, <2>2, <2>3, <3>2, <3>3, QuietKeeps
  <2> QED
    BY <2>1, <2>4, <2>5
<1>3. ASSUME EndChar PROVE TextInv'
  <2>1. start = InChar
    BY <1>1, <1>3, Conditions DEF EndChar, In
  <2>2. start' = Initial
    BY <1>3, <2>1, Leaving DEF EndChar
  <2>3. yylval'.type = "CHAR" /\ yylval'.string = yylval.string
    BY <1>3 DEF EndChar, Val
  <2>4. Lines' /\ UNCHANGED jammed /\ Deliver("CHARLIT")
    BY <1>3 DEF TextInv, Lines, EndChar, KeepPosition
  <2>5. "CHARLIT" # "STRING"
    OBVIOUS
  <2> QED
    BY <1>1, <2>2, <2>3, <2>4, <2>5, TokenStays
<1> QED
  BY <1>2, <1>3

\* Identifiers and numbers.
LEMMA NamesAndNumbersStay ==
  ASSUME TextInv,
         \/ \E name \in Names : Identifier(name)
         \/ \E form \in {"hex", "oct", "dec"}, suffix \in IntegerSuffixes, value \in Numerals :
              IntegerConstant(form, suffix, value)
         \/ \E suffix \in FloatSuffixes : FloatConstant(suffix)
  PROVE  TextInv'
<1>1. /\ start \in Starts /\ yylval.string \in Seq(-1..255) /\ jammed \in BOOLEAN
      /\ yylval.type \in {"NUMBER", "STRING", "CHAR"}
  BY DEF TextInv, Typed
<1>2. "IDENT" # "STRING" /\ "NUMBER" # "STRING"
  OBVIOUS
<1>3. Overlaid \in Seq(-1..255)
  <2>1. PICK n \in Nat : DOMAIN yylval.string = 1..n
    BY <1>1, LenProperties
  <2>2. -1 \in -1..255
    OBVIOUS
  <2>3. [i \in 1..n |-> -1] \in Seq(-1..255)
    BY <2>2, Constantly
  <2> QED
    BY <2>1, <2>3 DEF Overlaid, Stale
<1>4. ASSUME NEW name \in Names, Identifier(name) PROVE TextInv'
  <2>1. start = Initial /\ start' = start
    BY <1>1, <1>4, Conditions DEF Identifier, In
  <2>2. name \in Seq(-1..255)
    <3>1. name \in Seq(0..255) /\ 0..255 \subseteq -1..255
      BY TextAssumption
    <3> QED
      BY <3>1, SeqMonotonic
  <2>3. yylval'.type = "STRING" /\ yylval'.string \in Seq(-1..255)
    BY <1>4, <2>2 DEF Identifier, Val
  <2>4. Lines' /\ UNCHANGED jammed /\ Deliver("IDENT")
    BY <1>4 DEF TextInv, Lines, Identifier, KeepPosition
  <2> QED
    BY <1>2, <2>1, <2>3, <2>4, TokenStays
<1>5. ASSUME NEW form \in {"hex", "oct", "dec"}, NEW suffix \in IntegerSuffixes,
             NEW value \in Numerals, IntegerConstant(form, suffix, value)
      PROVE  TextInv'
  <2>1. start = Initial /\ start' = start
    BY <1>1, <1>5, Conditions DEF IntegerConstant, In
  <2>2. yylval'.string = Overlaid /\ yylval'.type \in {"NUMBER", yylval.type}
    BY <1>5, Zenon DEF IntegerConstant, Val
  <2>3. Lines' /\ UNCHANGED jammed /\ Deliver("NUMBER")
    <3>1. KeepPosition /\ Deliver("NUMBER")
      BY <1>5, Zenon DEF IntegerConstant
    <3> QED
      BY <3>1 DEF TextInv, Lines, KeepPosition
  <2> QED
    BY <1>1, <1>2, <1>3, <2>1, <2>2, <2>3, TokenStays
<1>6. ASSUME NEW suffix \in FloatSuffixes, FloatConstant(suffix) PROVE TextInv'
  <2>1. start = Initial /\ start' = start
    BY <1>1, <1>6, Conditions DEF FloatConstant, In
  <2>2. yylval'.string = Overlaid /\ yylval'.type = "NUMBER"
    BY <1>6 DEF FloatConstant, Val
  <2>3. Lines' /\ UNCHANGED jammed /\ Deliver("NUMBER")
    BY <1>6 DEF TextInv, Lines, FloatConstant, KeepPosition
  <2> QED
    BY <1>2, <1>3, <2>1, <2>2, <2>3, TokenStays
<1> QED
  BY <1>4, <1>5, <1>6

\* The invariant of all texts.
LEMMA TextHolds == Spec => []TextInv
<1>1. Init => TextInv
  <2> SUFFICES ASSUME Init PROVE TextInv
    OBVIOUS
  <2>1. start = Initial /\ yylval.type = "NUMBER" /\ yylval.string = <<>> /\ token = NoToken
    BY DEF Init, Initial, Val
  <2>2. Typed
    BY <2>1, EmptySeq DEF Init, Typed, Starts
  <2>3. Lines
    BY BoundsAssumption DEF Init, Lines
  <2>4. NoToken.name # "STRING"
    BY DEF NoToken
  <2>5. Initial \notin Reading
    BY Different DEF Reading
  <2>6. Delivered
    BY <2>1, <2>4, <2>5, Zenon DEF Delivered
  <2> QED
    BY <2>2, <2>3, <2>6 DEF TextInv
<1>2. TextInv /\ [Next]_vars => TextInv'
  <2> SUFFICES ASSUME TextInv, [Next]_vars PROVE TextInv'
    OBVIOUS
  <2>1. CASE UNCHANGED vars
    BY <2>1 DEF vars, scanner, text, TextInv, Typed, Lines, Delivered
  <2>2. CASE Jam
    BY <2>2 DEF Jam, scanner, text, TextInv, Typed, Lines, Delivered
  <2>3. CASE Next
    BY <2>2, <2>3, MarkersStay, CharactersStay, EndsStay, NamesAndNumbersStay DEF Next
  <2> QED
    BY <2>1, <2>3
<1> QED
  BY <1>1, <1>2, PTL DEF Spec

\* The bytes that have a form of their own are known, but for two.
LEMMA KnownBytes == Printing \cup Range(Control) \cup {0} \subseteq Known \cup {7, 11}
<1>1. \A b \in 7..13 : b \in {7, 8, 9, 10, 11, 12, 13}
  OBVIOUS
<1> QED
  BY <1>1, ControlOfLetters DEF Known

\* What a string is made of that has none of the forms.
LEMMA PlainForms ==
  ASSUME NEW S, NEW bytes \in Seq(S),
         "octal byte" \notin StringForms(bytes), "digit behind zero" \notin StringForms(bytes),
         "alert or vertical tab" \notin StringForms(bytes)
  PROVE  bytes \in Seq(Known) /\ ZeroEnds(bytes)
<1>1. PICK n : n = Len(bytes)
  OBVIOUS
<1>2. n \in Nat /\ DOMAIN bytes = 1..n /\ bytes = [i \in 1..n |-> bytes[i]]
  BY <1>1, SeqIsFunction
<1>3. \A i \in DOMAIN bytes : bytes[i] \in Printing \cup Range(Control) \cup {0}
  BY Zenon DEF StringForms
<1>4. ~\E i, j \in DOMAIN bytes : j = i + 1 /\ bytes[i] = 0 /\ bytes[j] \in OctalDigits
  BY Zenon DEF StringForms
<1>5. Range(bytes) \cap {7, 11} = {}
  BY Zenon DEF StringForms
<1>6. \A i \in 1..n : bytes[i] # 7 /\ bytes[i] # 11
  BY <1>2, <1>5 DEF Range
<1>7. \A i \in 1..n : bytes[i] \in Known
  <2>1. Printing \cup Range(Control) \cup {0} \subseteq Known \cup {7, 11}
    BY KnownBytes
  <2> QED
    BY <1>2, <1>3, <1>6, <2>1
<1>8. bytes \in Seq(Known)
  BY <1>2, <1>7, FunctionIsSeq
<1>9. ZeroEnds(bytes)
  BY <1>1, <1>2, <1>4 DEF ZeroEnds
<1> QED
  BY <1>8, <1>9

\* A string constant is the same bytes to the assembler as to the program, in all texts, if
\* it has none of the bytes that are printed as octal digits, no digit behind a zero byte
\* and no escape that the assembler does not know (misc.c:79-134, x86.c:192-200).
THEOREM StringsAreKept ==
  ASSUME {"octal byte", "digit behind zero", "alert or vertical tab"} \cap Shapes = {}
  PROVE  Spec => []StringsSurvive
<1>1. /\ "octal byte" \notin Shapes /\ "digit behind zero" \notin Shapes
      /\ "alert or vertical tab" \notin Shapes
  BY Zenon
<1>2. ASSUME TextInv, token.name = "STRING", NEW bytes, bytes = token.node.bytes,
             StringForms(bytes) \subseteq Shapes
      PROVE  Assembled(PrintedString(bytes)) = bytes
  <2>1. bytes \in Seq(-1..255)
    BY <1>2 DEF TextInv, Delivered
  <2>2. /\ "octal byte" \notin StringForms(bytes) /\ "digit behind zero" \notin StringForms(bytes)
        /\ "alert or vertical tab" \notin StringForms(bytes)
    BY <1>1, <1>2, Zenon
  <2> QED
    BY <2>1, <2>2, PlainForms, StringRead
<1>3. TextInv => StringsSurvive
  BY <1>2, Zenon DEF StringsSurvive
<1> QED
  BY <1>3, TextHolds, PTL

(* The scanner is in one of its five stacks of start conditions, and tokens
   come only in the initial one, in all texts (c.lex:57-78 and 334-446).    *)
THEOREM TypeCorrect == Spec => []TypeOK
<1>1. TextInv => TypeOK
  <2> SUFFICES ASSUME TextInv PROVE TypeOK
    OBVIOUS
  <2>1. token # NoToken => State = "INITIAL"
    BY Conditions DEF TextInv, Typed, Delivered
  <2> QED
    BY <2>1 DEF TextInv, Typed, Lines, TypeOK, Starts, Initial, InString, InChar, Marker, InName
<1> QED
  BY <1>1, TextHolds, PTL

=============================================================================
