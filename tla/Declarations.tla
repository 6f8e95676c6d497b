---------------------------- MODULE Declarations ----------------------------
(***************************************************************************)
(* From the text of a declaration to the types of what it declares: the    *)
(* productions of declaration_specifiers and declarator                    *)
(* (src/src/parser/c.y), the chain of type nodes they build                *)
(* (src/src/ast/ast.c, ast_constructors.c, types.c), and the state machine *)
(* that makes one type of a list of specifiers.                            *)
(*                                                                         *)
(* A chain of gkcc_type nodes linked by "of" is the sequence of the nodes. *)
(* The grammar reads the declarators bottom up, so each step is a          *)
(* reduction; what C says of the same text is read from the text itself.   *)
(* Enumerations, alignment and typedef are left out, and so are            *)
(* declarators of types C does not have (a function returning an array).   *)
(***************************************************************************)
EXTENDS Integers, Sequences, SequencesExt, FiniteSets

CONSTANTS
  Keywords,        \* the specifiers a declaration may have
  Shapes,          \* the forms it may have of those in KnownShapes
  MaxTokens,       \* bound on the specifiers and the tokens of declarators
  MaxDeclarators   \* bound on the declarators of a declaration

Sizes == {"void", "char", "short", "int", "long", "float", "double", "struct"}
Signs == {"signed", "unsigned"}
\* Storage classes and qualifiers, which have no part in the type.
Ignored == {"static", "const"}
KnownKeywords == Sizes \cup Signs \cup Ignored \cup {"inline"}

KnownShapes == {"sign alone", "no type", "int first", "int twice", "long double",
                "sign of another type", "inline first", "pointer returned",
                "qualified inner star"}

ASSUME KeywordsAssumption == Keywords \subseteq KnownKeywords
ASSUME ShapesAssumption == Shapes \subseteq KnownShapes
ASSUME BoundsAssumption == MaxTokens \in Nat /\ MaxDeclarators \in Nat \ {0}

VARIABLES
  phase,       \* "specifiers", "declarators", "done" or "fatal"
  specifiers,  \* declaration_specifiers
  open,        \* the declarators being read, the innermost one last
  text,        \* the tokens of the outermost one
  declared,    \* the declarations: their types, and their texts
  tokens       \* how many tokens were read

vars == <<phase, specifiers, open, text, declared, tokens>>

-----------------------------------------------------------------------------
(* Types.                                                                   *)
Node(kind) == [kind |-> kind, returns |-> <<>>]
Pointer == Node("PTR")

\* Mutant: CHECK_AND_SET_TYPE does not check.
SetUnchecked(type, new) == new

\* CHECK_AND_SET_TYPE
Set(type, new) == IF type = "unknown" THEN new ELSE "conflict"

\* Mutant: a short is not followed by int.
IntAfterLong == [unknown |-> "int", long |-> "long", longlong |-> "longlong"]

\* int behind the types it may follow, and long.
IntAfter == [unknown |-> "int", long |-> "long", longlong |-> "longlong", short |-> "short"]
LongAfter == [unknown |-> "long", long |-> "longlong", double |-> "long_double"]

\* One specifier of the list; void, char, short, float, double and struct are set.
DataTypeStep(type, s) ==
  CASE type = "conflict" -> type
    [] s \notin Sizes -> type
    [] s = "int" -> IF type \in DOMAIN IntAfter THEN IntAfter[type] ELSE "conflict"
    [] s = "long" -> IF type \in DOMAIN LongAfter THEN LongAfter[type] ELSE "conflict"
    [] OTHER -> Set(type, s)

Data(list) == FoldLeft(DataTypeStep, "unknown", list)

\* Where the list has one of the specifiers S.
At(list, S) == {i \in DOMAIN list : list[i] \in S}

\* The fatal errors of ast_node_declaration_specifiers_to_gkcc_data_type.
Conflict(list) == Cardinality(At(list, Signs)) > 1 \/ Data(list) = "conflict"

\* The sign goes in front of what is a scalar; the type of const x is none.
DataType(list) ==
  LET sign == IF At(list, {"unsigned"}) = {} THEN "signed" ELSE "unsigned"
  IN  IF Data(list) \in {"unknown", "struct"}
      THEN <<Node(Data(list))>>
      ELSE <<Node(sign), Node(Data(list))>>

-----------------------------------------------------------------------------
(* Forms the code is known not to get right.                                *)
Before(list, s, S) ==
  \E i \in At(list, {s}), j \in At(list, S) : i < j

FirstIsInt(list) == \E i \in At(list, {"int"}) : \A j \in At(list, Sizes) : i <= j

SpecifierForms(list) ==
  (IF At(list, Sizes) = {}
   THEN {IF At(list, Signs) = {} THEN "no type" ELSE "sign alone"} ELSE {})
  \cup (IF FirstIsInt(list) /\ Before(list, "int", {"short", "long"}) THEN {"int first"} ELSE {})
  \cup (IF Before(list, "int", {"int"}) THEN {"int twice"} ELSE {})
  \cup (IF Before(list, "long", {"double"}) THEN {"long double"} ELSE {})
  \cup (IF At(list, Signs) # {} /\ At(list, {"void", "float", "double", "struct"}) # {}
        THEN {"sign of another type"} ELSE {})
  \cup (IF list[1] = "inline" THEN {"inline first"} ELSE {})

-----------------------------------------------------------------------------
ReadToken == tokens < MaxTokens /\ tokens' = tokens + 1

\* inline has no node: a list cannot begin with it, and it is not appended.
Specifier(s) ==
  /\ phase = "specifiers"
  /\ ReadToken
  /\ specifiers' = Append(specifiers, s)
  /\ UNCHANGED <<phase, open, text, declared>>

NewDeclarator == [stars |-> <<>>, type |-> <<>>, nodes |-> <<>>, direct |-> FALSE]

EndSpecifiers ==
  /\ phase = "specifiers" /\ specifiers # <<>>
  /\ SpecifierForms(specifiers) \subseteq Shapes
  /\ IF specifiers[1] = "inline"
     THEN phase' = "fatal" /\ UNCHANGED open
     ELSE phase' = "declarators" /\ open' = <<NewDeclarator>>
  /\ UNCHANGED <<specifiers, text, declared, tokens>>

Innermost == open[Len(open)]
Outer == SubSeq(open, 1, Len(open) - 1)
Reading == phase = "declarators" /\ open # <<>>

\* A token of the innermost declarator.
Token(t, declarators) ==
  /\ ReadToken
  /\ text' = Append(text, t)
  /\ open' = declarators
  /\ UNCHANGED <<phase, specifiers, declared>>

Star(qualified) ==
  /\ Reading /\ ~Innermost.direct
  /\ Token("*", Append(Outer, [Innermost EXCEPT !.stars = Append(@, qualified)]))

OpenParenthesis ==
  /\ Reading /\ ~Innermost.direct
  /\ Token("(", Append(open, NewDeclarator))

Identifier ==
  /\ Reading /\ ~Innermost.direct
  /\ Token("identifier", Append(Outer, [Innermost EXCEPT !.direct = TRUE]))

Suffix(kind) ==
  /\ Reading /\ Innermost.direct
  /\ Token(IF kind = "ARRAY" THEN "[]" ELSE "()",
           Append(Outer, [Innermost EXCEPT !.nodes = Append(@, Node(kind))]))

\* Mutant: the type the identifier has already comes last.
DeclaratorTypeOutermost(d) ==
  d.nodes \o [i \in DOMAIN d.stars |-> Pointer] \o d.type

\* The nodes behind the first one of the list, in their order, continue the type
\* the identifier has already; the pointers come after the suffixes.
DeclaratorType(d) ==
  d.type \o d.nodes \o [i \in DOMAIN d.stars |-> Pointer]

\* The last star with qualifiers is no list, so that nothing can be appended.
NoList(d) == Len(d.stars) > 1 /\ d.stars[Len(d.stars)]

CloseParenthesis ==
  /\ Reading /\ Len(open) > 1 /\ Innermost.direct
  /\ NoList(Innermost) => "qualified inner star" \in Shapes
  /\ IF NoList(Innermost)
     THEN phase' = "fatal" /\ UNCHANGED <<specifiers, open, text, declared, tokens>>
     ELSE LET around == open[Len(open) - 1]
          IN  Token(")", Append(SubSeq(open, 1, Len(open) - 2),
                                [around EXCEPT !.direct = TRUE,
                                               !.type = DeclaratorType(Innermost)]))

-----------------------------------------------------------------------------
(* What C says: from the identifier to the right, then to the left.         *)
Readings(tks) ==
  LET n == Len(tks)
      token(i) == IF i \in 1..n THEN tks[i] ELSE "end"
      from[at \in (0..n) \X (1..(n + 1))] ==
        LET l == at[1]
            r == at[2]
        IN  CASE token(r) = "[]" -> <<"ARRAY">> \o from[<<l, r + 1>>]
              [] token(r) = "()" -> <<"FUNCTION">> \o from[<<l, r + 1>>]
              [] token(r) \notin {"[]", "()"} /\ token(l) = "*" ->
                   <<"PTR">> \o from[<<l - 1, r>>]
              [] token(r) = ")" /\ token(l) = "(" -> from[<<l - 1, r + 1>>]
              [] OTHER -> <<>>
  IN  from

Derivation(tks) ==
  LET ident == CHOOSE i \in DOMAIN tks : tks[i] = "identifier"
  IN  Readings(tks)[<<ident - 1, ident + 1>>]

\* No function returns an array or a function, and there are no arrays of them.
Possible(derivation) ==
  \A i \in 1..(Len(derivation) - 1) :
    /\ derivation[i] = "FUNCTION" => derivation[i + 1] = "PTR"
    /\ derivation[i] = "ARRAY" => derivation[i + 1] # "FUNCTION"

ReturnsPointer(type) == Len(type) > 1 /\ type[1].kind = "FUNCTION"

\* Mutant: the type of the specifiers is appended to a function too.
SpecifiersAppended(type, base) == type \o base

\* The type of a function's own declaration has the specifiers in return_type,
\* every other one at the end of the chain.
WithSpecifiers(type, base) ==
  IF type # <<>> /\ type[1].kind = "FUNCTION"
  THEN [type EXCEPT ![1].returns = @ \o base]
  ELSE type \o base

Complete == open # <<>> /\ Len(open) = 1 /\ Innermost.direct
Ends(d) ==
  /\ Possible(Derivation(text))
  /\ NoList(d) => "qualified inner star" \in Shapes
  /\ ReturnsPointer(DeclaratorType(d)) => "pointer returned" \in Shapes
Fatal == phase' = "fatal" /\ UNCHANGED <<specifiers, open, text, declared, tokens>>

\* "," or ";" after a declarator.  Each one gets specifiers of its own, when
\* all of them are read.
EndDeclarator ==
  /\ Reading /\ Complete /\ Ends(Innermost)
  /\ IF NoList(Innermost)
     THEN Fatal
     ELSE /\ declared' = Append(declared, [type |-> DeclaratorType(Innermost), text |-> text])
          /\ open' = <<>>
          /\ text' = <<>>
          /\ UNCHANGED <<phase, specifiers, tokens>>

NextDeclarator ==
  /\ phase = "declarators" /\ open = <<>> /\ Len(declared) < MaxDeclarators
  /\ open' = <<NewDeclarator>>
  /\ UNCHANGED <<phase, specifiers, text, declared, tokens>>

EndDeclaration ==
  /\ phase = "declarators" /\ open = <<>>
  /\ IF Conflict(specifiers)
     THEN Fatal
     ELSE /\ phase' = "done"
          /\ declared' = [i \in DOMAIN declared |->
               [declared[i] EXCEPT !.type = WithSpecifiers(@, DataType(specifiers))]]
          /\ UNCHANGED <<specifiers, open, text, tokens>>

\* declaration_specifiers declarator compound_statement: the declarator has to be
\* that of a function, whose return_type is set.
EndDefinition ==
  /\ Reading /\ Complete /\ Ends(Innermost) /\ declared = <<>>
  /\ LET type == DeclaratorType(Innermost)
     IN  IF NoList(Innermost) \/ type = <<>> \/ type[1].kind # "FUNCTION" \/ Conflict(specifiers)
         THEN Fatal
         ELSE /\ phase' = "done"
              /\ declared' = <<[type |-> [type EXCEPT ![1].returns = DataType(specifiers)],
                                text |-> text]>>
              /\ open' = <<>>
              /\ text' = <<>>
              /\ UNCHANGED <<specifiers, tokens>>

-----------------------------------------------------------------------------
Init ==
  /\ phase = "specifiers"
  /\ specifiers = <<>>
  /\ open = <<>>
  /\ text = <<>>
  /\ declared = <<>>
  /\ tokens = 0

Next ==
  \/ \E s \in Keywords : Specifier(s)
  \/ EndSpecifiers
  \/ \E qualified \in BOOLEAN : Star(qualified)
  \/ OpenParenthesis
  \/ Identifier
  \/ \E kind \in {"ARRAY", "FUNCTION"} : Suffix(kind)
  \/ CloseParenthesis
  \/ EndDeclarator
  \/ NextDeclarator
  \/ EndDeclaration
  \/ EndDefinition

Spec == Init /\ [][Next]_vars

-----------------------------------------------------------------------------
(* The types C has for lists of specifiers, in whatever order (C11, 6.7.2). *)
Count(list, s) == Cardinality(At(list, {s}))
IntegerTypes == {"char", "short", "int", "long", "longlong"}

\* The type the size specifiers name, "none" if no type.
NamedType(list) ==
  LET n(s) == Count(list, s)
      only(S) == \A s \in Sizes \ S : n(s) = 0
  IN  CASE only({"void"}) /\ n("void") = 1 -> "void"
        [] only({"char"}) /\ n("char") = 1 -> "char"
        [] only({"short", "int"}) /\ n("short") = 1 /\ n("int") <= 1 -> "short"
        [] only({"int"}) /\ n("int") = 1 -> "int"
        [] only({"long", "int"}) /\ n("long") = 1 /\ n("int") <= 1 -> "long"
        [] only({"long", "int"}) /\ n("long") = 2 /\ n("int") <= 1 -> "longlong"
        [] only({"float"}) /\ n("float") = 1 -> "float"
        [] only({"double"}) /\ n("double") = 1 -> "double"
        [] only({"long", "double"}) /\ n("long") = 1 /\ n("double") = 1 -> "long_double"
        [] only({"struct"}) /\ n("struct") = 1 -> "struct"
        [] At(list, Sizes) = {} /\ At(list, Signs) # {} -> "int"
        [] OTHER -> "none"

LegalInC(list) ==
  /\ NamedType(list) # "none"
  /\ Cardinality(At(list, Signs)) <= 1
  /\ At(list, Signs) # {} => NamedType(list) \in IntegerTypes

CType(list) ==
  IF NamedType(list) \in IntegerTypes
  THEN <<IF Count(list, "unsigned") = 1 THEN "unsigned" ELSE "signed", NamedType(list)>>
  ELSE <<NamedType(list)>>

\* The type a chain describes: a function returns its return_type, or what the
\* chain goes on with; the sign in front of void, float and double is not used.
Described(type) ==
  LET kinds(t) == [i \in DOMAIN t |-> t[i].kind]
      signless(t) == IF Len(t) > 1 /\ t[Len(t)] \notin IntegerTypes /\ t[Len(t) - 1] \in Signs
                     THEN SubSeq(t, 1, Len(t) - 2) \o <<t[Len(t)]>> ELSE t
  IN  IF type[1].returns # <<>>
      THEN <<type[1].kind>> \o signless(kinds(type[1].returns))
      ELSE signless(kinds(type))

(* The shape of the state: a chain is derivations that end in at most one data
   type, return types are those of functions, and what is open is read. *)
TypeOK ==
  /\ phase \in {"specifiers", "declarators", "done", "fatal"}
  /\ specifiers \in Seq(KnownKeywords)
  /\ tokens \in 0..MaxTokens
  /\ Len(declared) <= MaxDeclarators
  /\ \A i \in DOMAIN declared :
       LET type == declared[i].type
       IN  /\ \A k \in DOMAIN type : type[k].returns # <<>> => k = 1 /\ type[k].kind = "FUNCTION"
           /\ phase = "done" => (type[1].kind = "FUNCTION" <=> type[1].returns # <<>>)

(* What is declared has the type C gives it: the derivations in the order C
   reads them, through any parentheses, ending in the type of the specifiers in
   any order (c.y:467-496 and 700-774, ast.c:411-455 and 488-612,
   ast_constructors.c:190-243). *)
DeclaredTypeIsC ==
  phase = "done" /\ LegalInC(specifiers) =>
    \A i \in DOMAIN declared :
      Described(declared[i].type) = Derivation(declared[i].text) \o CType(specifiers)

(* A declaration of C is not refused: the state machine has a case for every
   order of the specifiers outside the named forms (ast.c:535-597), and only
   the body of what is no function is an error (ast_constructors.c:132-144). *)
LegalIsAccepted ==
  phase = "fatal" =>
    \/ ~LegalInC(specifiers)
    \/ /\ Complete /\ ~NoList(Innermost)
       /\ Derivation(text) = <<>> \/ Derivation(text)[1] # "FUNCTION"

(* Specifiers that are no type of C are refused, two types or signs among them,
   wherever they stand in the list (ast.c:488-533). *)
AcceptedIsLegal == phase = "done" => LegalInC(specifiers)
=============================================================================
