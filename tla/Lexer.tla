------------------------------- MODULE Lexer -------------------------------
(***************************************************************************)
(* The scanner (src/src/lexical/c.lex): start conditions, the one yylval   *)
(* that all tokens share, the file name and line number that linemarkers   *)
(* of the preprocessor set, and the AST node the parser makes of a token   *)
(* (src/src/ast/ast.c).                                                    *)
(*                                                                         *)
(* An action is one rule of the scanner.  The text is chosen as it is      *)
(* read, and what C says of it is kept in variables of its own: meaning,   *)
(* textFile and textLine.  Characters are their ASCII codes.               *)
(*                                                                         *)
(* Keywords, operators and white space other than newlines change no       *)
(* state and are left out, as are the flags behind a linemarker's name.    *)
(* Literals fit the buffer of MAX_STR_LENGTH bytes: longer ones are        *)
(* undefined behaviour of the scanner.                                     *)
(***************************************************************************)
EXTENDS Integers, Sequences, SequencesExt, FiniteSets

CONSTANTS
  Plain,      \* characters of literals that stand for themselves
  Escapes,    \* letters behind a backslash
  Octals,     \* digits of octal escapes
  Hexes,      \* digits of hexadecimal escapes
  Names,      \* identifiers
  Numerals,   \* values of integer constants
  Modulus,    \* how many values int and the longer types have
  Shapes,     \* the forms the text may have of those in KnownShapes
  MaxLength,  \* bound on the characters of a literal ...
  MaxName,    \* ... and of a file name
  MaxLine     \* bound on line numbers

KnownShapes == {"long long suffix", "wide constant", "escape out of range",
                "empty constant", "linemarker without name", "octal byte",
                "digit behind zero", "alert or vertical tab"}

ASSUME ShapesAssumption == Shapes \subseteq KnownShapes
ASSUME BoundsAssumption == {MaxLength, MaxName} \subseteq Nat /\ MaxLine \in Nat \ {0}
ASSUME ModulusAssumption ==
  /\ Modulus \in [{"INT", "LONG", "LONGLONG"} -> Nat \ {0}]
  /\ 2 * Modulus["INT"] <= Modulus["LONG"]

VARIABLES
  start,     \* the stack of start conditions, YYSTATE last
  yylval,    \* the value shared by all tokens
  filename,  \* YY_FILENAME
  yylineno,  \* the line
  token,     \* what yylex returned: the token and the node made of it
  meaning,   \* what the text of that token denotes in C
  literal,   \* the bytes of the literal being read, in C
  previous,  \* the rule that matched last, where it matters to the next one
  textFile, textLine,  \* the position in the preprocessed file
  jammed     \* no rule matches

scanner == <<start, yylval, filename, yylineno, token>>
text == <<meaning, literal, previous, textFile, textLine>>
vars == <<scanner, text, jammed>>

-----------------------------------------------------------------------------
(* ASCII codes.                                                             *)
Backslash == 92
DoubleQuote == 34
SingleQuote == 39
Zero == 48
OctalDigits == 48..55
HexDigits == (48..57) \cup (65..70) \cup (97..102)

\* The characters of the rule for plain ones: + is among them, _ is not.
Listed == {32, 33} \cup (37..38) \cup (40..63) \cup (65..91) \cup (93..94)
          \cup (97..126)

\* The letters a b t n v f r of escapes stand for the bytes 7 to 13.
ControlLetters == <<97, 98, 116, 110, 118, 102, 114>>
Control == [c \in Range(ControlLetters) |-> CHOOSE b \in 7..13 : ControlLetters[b - 6] = c]
Escaped(c) == IF c \in DOMAIN Control THEN Control[c] ELSE c

Least(a, b) == IF a < b THEN a ELSE b
Numeral(base, digits) == FoldLeft(LAMBDA n, d : base * n + d, 0, digits)

\* That the numerals are numbers is stated of those that are used, because Numeral
\* is a fold.
ASSUME TextAssumption ==
  /\ Escapes \subseteq 0..255
  /\ Names \subseteq Seq(0..255)
  /\ \A digits \in Octals : digits \in Seq(0..7) /\ Numeral(8, digits) \in Nat
  /\ \A digits \in Hexes : digits \in Seq(0..15) /\ Numeral(16, digits) \in Nat
  /\ Numerals \subseteq Nat

-----------------------------------------------------------------------------
(* yylval.                                                                  *)
NoToken == [name |-> "none"]
Number(type, unsigned, value) == [type |-> type, unsigned |-> unsigned, value |-> value]
NoNumber == Number("none", FALSE, 0)
Val(type, string, number) == [type |-> type, string |-> string, number |-> number]
State == start[Len(start)]
Pop == start' = SubSeq(start, 1, Len(start) - 1)
PushState(s) == start' = Append(start, s)
In(s) == ~jammed /\ State = s
InLiteral == In("SC_STRING") \/ In("SC_CHAR")

\* The bytes of the string overlay the number.
StringBegun == Val("STRING", <<>>, NoNumber)

\* A byte of yylval that is not one of its string: of a number, or left by some
\* earlier token.
Stale == -1
FirstByte(string) == IF string = <<>> THEN Stale ELSE string[1]

NumberNode(number) == [kind |-> "number", number |-> number]
CharNode(char) == [kind |-> "char", char |-> char]
StringNode(bytes) == [kind |-> "string", bytes |-> bytes]

\* What yylval2ast_node and yylval2ast_node_ident make of yylval.
Node(value) ==
  IF value.type = "NUMBER" THEN NumberNode(value.number)
  ELSE IF value.type = "CHAR" THEN CharNode(FirstByte(value.string))
  ELSE StringNode(value.string)

\* yylex returns the token, and the parser makes its node.
Deliver(name) == token' = [name |-> name, node |-> Node(yylval')]
Means(name, node) == meaning' = [name |-> name, node |-> node]
NothingDelivered == token' = NoToken /\ meaning' = NoToken
KeepPosition == UNCHANGED <<filename, yylineno, textFile, textLine, jammed>>

-----------------------------------------------------------------------------
(* Linemarkers, # line "name" flags.                                        *)
Linemarker(n) ==
  /\ In("INITIAL")
  /\ PushState("SC_PREPROCESSOR")
  /\ yylineno' = n
  /\ textLine' = n
  /\ literal' = <<>>
  /\ previous' = "marker"
  /\ NothingDelivered
  /\ UNCHANGED <<yylval, filename, textFile, jammed>>

BeginName ==
  /\ In("SC_PREPROCESSOR") /\ previous = "marker"
  /\ PushState("SC_STRING")
  /\ yylval' = StringBegun
  /\ previous' = "quote"
  /\ NothingDelivered
  /\ UNCHANGED literal /\ KeepPosition

\* strncpy copies up to the first NUL.
FileName(bytes) ==
  LET nul == SelectInSeq(bytes, LAMBDA b : b = 0)
  IN  IF nul = 0 THEN bytes ELSE SubSeq(bytes, 1, nul - 1)

\* Mutant: the newline that ends the marker is counted.
EndLinemarkerCounts ==
  /\ In("SC_PREPROCESSOR")
  /\ previous = "marker" => "linemarker without name" \in Shapes
  /\ Pop
  /\ filename' = FileName(yylval.string)
  /\ yylineno' = yylineno + 1
  /\ textFile' = IF previous = "marker" THEN textFile ELSE FileName(literal)
  /\ previous' = "other"
  /\ NothingDelivered
  /\ literal' = <<>>
  /\ UNCHANGED <<yylval, textLine, jammed>>

\* yylineno is advanced before the action and set back by it; whatever yylval
\* holds is the file's name.
EndLinemarker ==
  /\ In("SC_PREPROCESSOR")
  /\ previous = "marker" => "linemarker without name" \in Shapes
  /\ Pop
  /\ filename' = FileName(yylval.string)
  /\ yylineno' = (yylineno + 1) - 1
  /\ textFile' = IF previous = "marker" THEN textFile ELSE FileName(literal)
  /\ previous' = "other"
  /\ NothingDelivered
  /\ literal' = <<>>
  /\ UNCHANGED <<yylval, textLine, jammed>>

Newline ==
  /\ In("INITIAL")
  /\ textLine < MaxLine
  /\ yylineno' = yylineno + 1
  /\ textLine' = textLine + 1
  /\ NothingDelivered
  /\ UNCHANGED <<start, yylval, filename, literal, previous, textFile, jammed>>

-----------------------------------------------------------------------------
(* String literals, character constants and file names.                     *)
BeginLiteral(s) ==
  /\ In("INITIAL")
  /\ PushState(s)
  /\ yylval' = StringBegun
  /\ literal' = <<>>
  /\ previous' = "quote"
  /\ NothingDelivered
  /\ KeepPosition

\* One more byte in yylval, and what C reads.
Characters(byte, bytes, rule) ==
  /\ InLiteral
  /\ Len(literal) + Len(bytes) <= (IF Len(start) = 3 THEN MaxName ELSE MaxLength)
  /\ yylval' = Val(yylval.type, Append(yylval.string, byte), yylval.number)
  /\ literal' = literal \o bytes
  /\ previous' = rule
  /\ NothingDelivered
  /\ UNCHANGED start /\ KeepPosition

\* A digit behind a numeric escape is part of it.
PlainCharacter(c) ==
  /\ c \in Listed
  /\ previous = "octal" => c \notin OctalDigits
  /\ previous = "hex" => c \notin HexDigits
  /\ Characters(c, <<c>>, "other")

OtherQuote ==
  LET c == IF State = "SC_CHAR" THEN DoubleQuote ELSE SingleQuote
  IN  Characters(c, <<c>>, "other")

SimpleEscape(c) == Characters(Escaped(c), <<Escaped(c)>>, "other")

\* Out of range is 0xFF, with a warning.
Decoded(value) == IF value > 255 THEN 255 ELSE value

\* All digits are taken; an octal escape of C has no more than three.
OctalEscape(digits) ==
  LET own == SubSeq(digits, 1, Least(3, Len(digits)))
      rest == SubSeq(digits, Len(own) + 1, Len(digits))
  IN  /\ "escape out of range" \in Shapes \/ (Numeral(8, own) <= 255 /\ rest = <<>>)
      /\ Characters(Decoded(Numeral(8, digits)),
                    <<Numeral(8, own)>> \o [i \in DOMAIN rest |-> Zero + rest[i]],
                    "octal")

HexEscape(digits) ==
  /\ "escape out of range" \in Shapes \/ Numeral(16, digits) <= 255
  /\ Characters(Decoded(Numeral(16, digits)), <<Numeral(16, digits)>>, "hex")

\* A character that is not listed, as _ in a file name: no rule matches, there is
\* no default rule, and the scanner stops the compiler.
Jam ==
  /\ InLiteral
  /\ jammed' = TRUE
  /\ UNCHANGED <<scanner, text>>

\* Mutant: a file name is delivered as a string.
EndStringDelivers ==
  /\ In("SC_STRING")
  /\ Pop
  /\ UNCHANGED yylval
  /\ Deliver("STRING")
  /\ IF start'[Len(start')] = "INITIAL"
     THEN Means("STRING", StringNode(literal))
     ELSE meaning' = NoToken
  /\ previous' = "other"
  /\ literal' = IF Len(start) = 3 THEN literal ELSE <<>>
  /\ KeepPosition

EndString ==
  /\ In("SC_STRING")
  /\ Pop
  /\ UNCHANGED yylval
  /\ IF start'[Len(start')] = "INITIAL"
     THEN Deliver("STRING") /\ Means("STRING", StringNode(literal))
     ELSE NothingDelivered
  /\ previous' = "other"
  /\ literal' = IF Len(start) = 3 THEN literal ELSE <<>>
  /\ KeepPosition

\* Of several characters the first one is taken, and of none what is in its place,
\* both with a warning.
EndChar ==
  /\ In("SC_CHAR")
  /\ literal = <<>> => "empty constant" \in Shapes
  /\ Pop
  /\ yylval' = Val("CHAR", yylval.string, yylval.number)
  /\ Deliver("CHARLIT")
  /\ IF literal = <<>> THEN meaning' = NoToken
                       ELSE Means("CHARLIT", CharNode(literal[1]))
  /\ previous' = "other"
  /\ literal' = <<>>
  /\ KeepPosition

-----------------------------------------------------------------------------
Identifier(name) ==
  /\ In("INITIAL")
  /\ yylval' = Val("STRING", name, NoNumber)
  /\ Deliver("IDENT")
  /\ Means("IDENT", StringNode(name))
  /\ UNCHANGED <<start, literal, previous>> /\ KeepPosition

(* Integer and floating constants: a rule for each form and suffix.         *)
IntegerSuffixes == {"", "u", "l", "ul", "ll", "ull"}
FloatSuffixes == {"", "f", "l"}
Unsigned(suffix) == suffix \in {"u", "ul", "ull"}

\* The type C gives a constant that fits it.
SuffixType(suffix) ==
  IF suffix \in {"", "u"} THEN "INT"
  ELSE IF suffix \in {"l", "ul"} THEN "LONG" ELSE "LONGLONG"
FloatType(suffix) == CASE suffix = "" -> "DOUBLE" [] suffix = "f" -> "FLOAT"
                       [] OTHER -> "LONG_DOUBLE"

\* sscanf with the conversion of the rule: decimal ones are read as signed longs,
\* which stop at the largest one, except for those with ull.
Converted(form, type, value) ==
  LET read == IF form = "dec" /\ type # "LONGLONG"
              THEN Least(value, (Modulus["LONG"] \div 2) - 1) ELSE value
  IN  read % Modulus[type]

\* The type the rule stores.
RuleType(form, suffix) ==
  IF form = "dec" /\ suffix = "ll" THEN "LONG" ELSE SuffixType(suffix)

\* Mutant: hexadecimal constants that are long do not set the type either.
SetsTypeUnlessLong(form, suffix) == ~(form = "hex" /\ SuffixType(suffix) # "INT")

\* Four rules do not set yylval.type.
SetsType(form, suffix) == ~(form \in {"hex", "oct"} /\ SuffixType(suffix) = "LONGLONG")

\* The number overlays the characters of the string.
Overlaid == [i \in DOMAIN yylval.string |-> Stale]

IntegerConstant(form, suffix, value) ==
  LET type == RuleType(form, suffix)
      signed == ~Unsigned(suffix) \/ (form = "dec" /\ suffix = "ul")
      limit == Modulus[SuffixType(suffix)] \div (IF signed THEN 2 ELSE 1)
  IN  /\ In("INITIAL")
      /\ SuffixType(suffix) = "LONGLONG" /\ (form # "dec" \/ suffix = "ll")
           => "long long suffix" \in Shapes
      /\ value >= limit => "wide constant" \in Shapes
      /\ form = "dec" => value > 0
      /\ yylval' = Val(IF SetsType(form, suffix) THEN "NUMBER" ELSE yylval.type, Overlaid,
                       Number(type, Unsigned(suffix), Converted(form, type, value)))
      /\ Deliver("NUMBER")
      /\ Means("NUMBER", NumberNode(Number(SuffixType(suffix), Unsigned(suffix), value)))
      /\ UNCHANGED <<start, literal, previous>> /\ KeepPosition

FloatConstant(suffix) ==
  /\ In("INITIAL")
  /\ yylval' = Val("NUMBER", Overlaid, Number(FloatType(suffix), FALSE, 0))
  /\ Deliver("NUMBER")
  /\ Means("NUMBER", NumberNode(Number(FloatType(suffix), FALSE, 0)))
  /\ UNCHANGED <<start, literal, previous>> /\ KeepPosition

-----------------------------------------------------------------------------
Stdin == <<115, 116, 100, 105, 110>>

Init ==
  /\ start = <<"INITIAL">>
  /\ yylval = Val("NUMBER", <<>>, Number("LONGLONG", FALSE, 0))
  /\ filename = Stdin
  /\ yylineno = 1
  /\ token = NoToken
  /\ meaning = NoToken
  /\ literal = <<>>
  /\ previous = "other"
  /\ textFile = Stdin
  /\ textLine = 1
  /\ jammed = FALSE

Next ==
  \/ \E n \in 1..MaxLine : Linemarker(n)
  \/ BeginName
  \/ EndLinemarker
  \/ Newline
  \/ \E s \in {"SC_STRING", "SC_CHAR"} : BeginLiteral(s)
  \/ \E c \in Plain : PlainCharacter(c)
  \/ OtherQuote
  \/ \E c \in Escapes : SimpleEscape(c)
  \/ \E digits \in Octals : OctalEscape(digits)
  \/ \E digits \in Hexes : HexEscape(digits)
  \/ Jam
  \/ EndString
  \/ EndChar
  \/ \E name \in Names : Identifier(name)
  \/ \E form \in {"hex", "oct", "dec"}, suffix \in IntegerSuffixes, value \in Numerals :
       IntegerConstant(form, suffix, value)
  \/ \E suffix \in FloatSuffixes : FloatConstant(suffix)

Spec == Init /\ [][Next]_vars

-----------------------------------------------------------------------------
(* A string constant's way into the assembly, src/src/misc/misc.c.          *)
Printing == 32..126
Quoted == {SingleQuote, DoubleQuote, Backslash}

\* What sprint_escaped_char writes, and the "used up length" it returns.
Escape(chars, used) == [chars |-> chars, used |-> used]

\* Mutant: a backslash is not escaped.
PrintedCharRaw(c) ==
  CASE c \in Quoted \ {Backslash} -> Escape(<<Backslash, c>>, 3)
    [] c \in (Printing \ Quoted) \cup {Backslash} -> Escape(<<c>>, 2)
    [] c = 0 -> Escape(<<Backslash, Zero>>, 3)
    [] c \in Range(Control) ->
         Escape(<<Backslash, CHOOSE l \in DOMAIN Control : Control[l] = c>>, 3)
    [] OTHER -> Escape(<<Backslash, Zero + (c \div 64), Zero + ((c \div 8) % 8), Zero + (c % 8)>>, 4)

\* The length of an octal escape is what sprintf returns: without the NUL that
\* all the others count.
PrintedChar(c) ==
  CASE c \in Quoted -> Escape(<<Backslash, c>>, 3)
    [] c \in Printing \ Quoted -> Escape(<<c>>, 2)
    [] c = 0 -> Escape(<<Backslash, Zero>>, 3)
    [] c \in Range(Control) ->
         Escape(<<Backslash, CHOOSE l \in DOMAIN Control : Control[l] = c>>, 3)
    [] OTHER -> Escape(<<Backslash, Zero + (c \div 64), Zero + ((c \div 8) % 8), Zero + (c % 8)>>, 4)

\* Each character is written over the NUL of the one before.
PrintedString(bytes) ==
  FoldLeft(LAMBDA s, c : s \o SubSeq(PrintedChar(c).chars, 1, PrintedChar(c).used - 1),
           <<>>, bytes)

\* What the assembler makes of the operand of .string: \b, \f, \n, \r, \t, one to
\* three octal digits, and any other character for itself.
AssemblerControl == {98, 102, 110, 114, 116}
Assembled(s) ==
  LET octal(i) == Least(3, Cardinality({n \in 1..3 :
                    i + n - 1 <= Len(s) /\ \A m \in 0..(n - 1) : s[i + m] \in OctalDigits}))
      digits(i) == [m \in 1..octal(i) |-> s[i + m - 1] - Zero]
      from[i \in 1..(Len(s) + 1)] ==
        IF i > Len(s) THEN <<>>
        ELSE IF i = Len(s) \/ s[i] # Backslash THEN <<s[i]>> \o from[i + 1]
        ELSE CASE s[i + 1] \in OctalDigits ->
                    <<Numeral(8, digits(i + 1)) % 256>> \o from[i + 1 + octal(i + 1)]
               [] s[i + 1] \in AssemblerControl -> <<Control[s[i + 1]]>> \o from[i + 2]
               [] OTHER -> <<s[i + 1]>> \o from[i + 2]
  IN  from[1]

\* Bytes printed as octal escapes lose the last digit, \0 takes digits behind it
\* for its own, and the assembler does not know \a and \v.
StringForms(bytes) ==
  (IF \E i \in DOMAIN bytes : bytes[i] \notin Printing \cup Range(Control) \cup {0}
   THEN {"octal byte"} ELSE {})
  \cup (IF \E i, j \in DOMAIN bytes : j = i + 1 /\ bytes[i] = 0 /\ bytes[j] \in OctalDigits
        THEN {"digit behind zero"} ELSE {})
  \cup (IF Range(bytes) \cap {7, 11} # {} THEN {"alert or vertical tab"} ELSE {})

-----------------------------------------------------------------------------
(* The scanner's state: a literal is read inside the initial condition or a
   linemarker and nowhere else, and tokens come in the initial condition only. *)
TypeOK ==
  /\ start \in {<<"INITIAL">>, <<"INITIAL", "SC_STRING">>, <<"INITIAL", "SC_CHAR">>,
                <<"INITIAL", "SC_PREPROCESSOR">>,
                <<"INITIAL", "SC_PREPROCESSOR", "SC_STRING">>}
  /\ yylval.type \in {"NUMBER", "STRING", "CHAR"}
  /\ yylval.string \in Seq(-1..255)
  /\ yylineno \in 1..MaxLine
  /\ token # NoToken => State = "INITIAL"
  /\ jammed \in BOOLEAN

(* The node of every token is the constant or the name its text denotes,
   whatever literals, names, numbers and linemarkers were read into the same
   yylval before (c.lex:62-446, ast.c:330-359 and 614-649). *)
TokensMeanText == token = meaning

(* Every token has the file and the line its text came from, which symbols and
   error messages use (c.lex:57-78, c.y:216 and 1003). *)
PositionOfText ==
  State = "INITIAL" => filename = textFile /\ yylineno = textLine

(* A string constant is the same bytes to the assembler as to the program: its
   escapes end where the next character begins (misc.c:79-134, x86.c:192-200). *)
StringsSurvive ==
  token.name = "STRING" =>
    LET bytes == token.node.bytes
    IN  StringForms(bytes) \subseteq Shapes => Assembled(PrintedString(bytes)) = bytes
=============================================================================
