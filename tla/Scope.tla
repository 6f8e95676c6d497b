------------------------------- MODULE Scope -------------------------------
(***************************************************************************)
(* The symbol tables of src/src/scope and the way the grammar actions of   *)
(* src/src/parser/c.y drive them while a translation unit is reduced.      *)
(*                                                                         *)
(* The parser keeps one pointer, current_symbol_table, to a tree of        *)
(* gkcc_symbol_table_set linked by parent_scope.  Grammar actions enter a  *)
(* set, leave it through its parent link, install symbols in one of its    *)
(* namespaces, and resolve names by walking the parent links.  A failed    *)
(* gkcc_assert or gkcc_error_fatal ends the process.                       *)
(***************************************************************************)
EXTENDS Naturals, Sequences, FiniteSets

CONSTANTS
  Names,       \* identifiers, shared by variables, tags and labels
  Constructs,  \* the grammar constructs the translation unit uses
  MaxSets,     \* bound on the symbol table sets allocated
  MaxSymbols,  \* bound on the symbols created
  MaxNesting,  \* bound on the constructs open at once
  MaxNames     \* bound on the declarators of one declaration or struct

AllConstructs == {"if", "while", "plain", "struct", "tagref", "goto", "label"}

ASSUME ConstructsAssumption == Constructs \subseteq AllConstructs
ASSUME BoundsAssumption ==
  /\ MaxSets \in Nat \ {0}
  /\ MaxSymbols \in Nat
  /\ MaxNesting \in Nat
  /\ MaxNames \in Nat \ {0}

VARIABLES
  sets,     \* the symbol table sets, in the order they were allocated
  symbols,  \* the installed symbols, in the order they were installed
  current,  \* current_symbol_table, an index into sets
  open,     \* the constructs the parser is inside of, innermost last
  bound,    \* symbol_table_entry of the last identifier, tag or label node
  placed,   \* how often a function set's function has labelled a name
  outcome   \* "parsing", or the reason the process ended

vars == <<sets, symbols, current, open, bound, placed, outcome>>

Global == 1     \* the set gkcc_int.c allocates before it calls yyparse
NoSymbol == 0

Scopes == {"GLOBAL", "FUNCTION", "BLOCK", "STRUCT_OR_UNION"}
Namespaces == {"GENERAL", "LABEL", "TAG"}
Kinds == {"function", "if", "else", "while", "plain", "struct", "declaration"}
Reasons == {"redeclared", "undeclared", "label twice", "orphan label",
            "tag redefined", "incomplete member", "no parent", "crash"}

-----------------------------------------------------------------------------
\* chain is the set itself and what its parent_scope links lead to.
NewSet(parent, scope) ==
  [scope |-> scope, chain |-> <<Len(sets) + 1>> \o sets[parent].chain]

HasParent(s) == Len(sets[s].chain) > 1
Parent(s) == sets[s].chain[2]

Table(s, ns, n) ==
  {i \in DOMAIN symbols : /\ symbols[i].owner = s
                          /\ symbols[i].ns = ns
                          /\ symbols[i].name = n}

\* The positions of the chain a recursive lookup visits: it never leaves a
\* struct or union definition scope.
Visited(s) ==
  {k \in DOMAIN sets[s].chain :
     \A j \in 1..(k - 1) : sets[sets[s].chain[j]].scope # "STRUCT_OR_UNION"}

Newest(ids) == CHOOSE i \in ids : \A j \in ids : j <= i

\* Mutant: an outer declaration wins.
LookupOutermost(s, ns, n) ==
  LET hits == {k \in Visited(s) : Table(sets[s].chain[k], ns, n) # {}}
      last == CHOOSE k \in hits : \A j \in hits : j <= k
  IN  IF hits = {} THEN NoSymbol
                   ELSE Newest(Table(sets[s].chain[last], ns, n))

Lookup(s, ns, n) ==
  LET hits == {k \in Visited(s) : Table(sets[s].chain[k], ns, n) # {}}
      first == CHOOSE k \in hits : \A j \in hits : k <= j
  IN  IF hits = {} THEN NoSymbol
                   ELSE Newest(Table(sets[s].chain[first], ns, n))

\* Mutant: labels do not climb.
LabelOwnerIsCurrent(s) == s

\* Labels climb to the nearest function scope; 0 when there is none.
LabelOwner(s) ==
  LET fns == {k \in DOMAIN sets[s].chain :
                sets[sets[s].chain[k]].scope = "FUNCTION"}
  IN  IF fns = {} THEN 0
                  ELSE sets[s].chain[CHOOSE k \in fns : \A j \in fns : k <= j]

\* Mutant: a function's own scope is taken for file scope.
StorageClassOutsideBlocks(s) ==
  IF sets[s].scope = "BLOCK" THEN "AUTO" ELSE "EXTERN"

StorageClass(s) == IF sets[s].scope = "GLOBAL" THEN "EXTERN" ELSE "AUTO"

\* body is history: the members in the definition of a complete tag.
Symbol(n, ns, owner, storage, defined, tset) ==
  [name |-> n, ns |-> ns, owner |-> owner, storage |-> storage,
   defined |-> defined, tset |-> tset, body |-> {}]

\* Mutant: a complete tag keeps the set it was made with.
CompletedInPlace(x, tset, names) ==
  [x EXCEPT !.defined = TRUE, !.body = names]

Completed(x, tset, names) ==
  [x EXCEPT !.defined = TRUE, !.tset = tset, !.body = names]

Variable(n, s) == Symbol(n, "GENERAL", s, StorageClass(s), FALSE, 0)
Variables(names) == [k \in DOMAIN names |-> Variable(names[k], current)]
Members(names, s) ==
  [k \in DOMAIN names |-> Symbol(names[k], "GENERAL", s, "INVALID", FALSE, 0)]
Tag(n, tset) == Symbol(n, "TAG", current, "INVALID", FALSE, tset)
Label(n, pointing) ==
  Symbol(n, "LABEL", LabelOwner(current), "INVALID", pointing, 0)

-----------------------------------------------------------------------------
Parsing == outcome = "parsing"
Within == IF open = <<>> THEN "top" ELSE open[Len(open)].kind
InStatements == Within \notin {"top", "struct", "declaration"}
\* The symbol table set of the function being read.
Function == open[1].inner

Fatal(reason) ==
  /\ outcome' = reason
  /\ UNCHANGED <<sets, symbols, current, open, bound, placed>>

\* A construct on the parser's stack: the set current when it began, the set
\* it was given, and for a struct its tag symbol and what is so of its node:
\* "fresh" if the tag's type is this node's, "anonymous" once an anonymous
\* struct has closed inside it.  A declaration and a struct have the list of
\* the identifiers declared so far, and the tags that are types of members.
Construct(kind, outer, inner, tag, flags) ==
  [kind |-> kind, outer |-> outer, inner |-> inner, tag |-> tag,
   flags |-> flags, names |-> <<>>, types |-> {}]

Declaration(n) ==
  [Construct("declaration", current, current, NoSymbol, {}) EXCEPT !.names = <<n>>]

Begin(construct) ==
  /\ Len(open) < MaxNesting
  /\ open' = Append(open, construct)

End == open' = SubSeq(open, 1, Len(open) - 1)

\* Mutant: the set that is entered was never made.
EnterNothing(parent, scope) ==
  /\ Len(sets) < MaxSets
  /\ current' = Len(sets) + 1
  /\ UNCHANGED sets

Enter(parent, scope) ==
  /\ Len(sets) < MaxSets
  /\ sets' = Append(sets, NewSet(parent, scope))
  /\ current' = Len(sets) + 1

Install(symbol) ==
  /\ Len(symbols) < MaxSymbols
  /\ symbols' = Append(symbols, symbol)

\* The parser reads another declarator of the innermost construct.
Declare(names, types) ==
  /\ Len(names) <= MaxNames
  /\ open' = [open EXCEPT ![Len(open)].names = names, ![Len(open)].types = types]
  /\ UNCHANGED <<sets, symbols, current, bound, placed, outcome>>

-----------------------------------------------------------------------------
\* A declaration, at top level or in a block, begins to have names with its
\* first declarator.  What is before it is read where the declaration stands.
BeginDeclaration(n) ==
  /\ Parsing
  /\ Within \notin {"struct", "declaration"}
  /\ Begin(Declaration(n))
  /\ UNCHANGED <<sets, symbols, current, bound, placed, outcome>>

NextDeclarator(n) ==
  /\ Parsing
  /\ Within = "declaration"
  /\ Declare(Append(open[Len(open)].names, n), {})

\* Mutant: the name is compared with older declarations only.
EndDeclarationAtOnce ==
  LET names == open[Len(open)].names
  IN  /\ Parsing
      /\ Within = "declaration"
      /\ IF \E k \in DOMAIN names : Table(current, "GENERAL", names[k]) # {}
         THEN Fatal("redeclared")
         ELSE /\ Len(symbols) + Len(names) <= MaxSymbols
              /\ symbols' = symbols \o Variables(names)
              /\ End
              /\ UNCHANGED <<sets, current, bound, placed, outcome>>

\* The ; of a declaration installs its identifiers, one after the other.
EndDeclaration ==
  LET names == open[Len(open)].names
      again == \E k \in DOMAIN names : \/ Table(current, "GENERAL", names[k]) # {}
                                       \/ \E j \in 1..(k - 1) : names[j] = names[k]
  IN  /\ Parsing
      /\ Within = "declaration"
      /\ IF again
         THEN Fatal("redeclared")
         ELSE /\ Len(symbols) + Len(names) <= MaxSymbols
              /\ symbols' = symbols \o Variables(names)
              /\ End
              /\ UNCHANGED <<sets, current, bound, placed, outcome>>

\* A primary expression: in a statement, an initialiser, the size of an array,
\* a parameter or a member.
UseIdentifier(n) ==
  LET symbol == Lookup(current, "GENERAL", n)
  IN  /\ Parsing
      /\ IF symbol = NoSymbol
         THEN Fatal("undeclared")
         ELSE /\ bound' = symbol
              /\ UNCHANGED <<sets, symbols, current, open, placed, outcome>>

BeginFunction(n) ==
  /\ Parsing
  /\ Within = "top"
  /\ IF Table(current, "GENERAL", n) # {}
     THEN Fatal("redeclared")
     ELSE /\ Install(Variable(n, current))
          /\ Enter(current, "FUNCTION")
          /\ Begin(Construct("function", current, current', NoSymbol, {}))
          /\ UNCHANGED <<bound, placed, outcome>>

\* The statement of an if or a while opens a block scope ...
BeginStatement(kind) ==
  /\ Parsing
  /\ InStatements
  /\ kind \in Constructs \cap {"if", "while"}
  /\ Enter(current, "BLOCK")
  /\ Begin(Construct(kind, current, current', NoSymbol, {}))
  /\ UNCHANGED <<symbols, bound, placed, outcome>>

\* ... the compound, do, for and switch statements open none.
BeginPlain ==
  /\ Parsing
  /\ InStatements
  /\ "plain" \in Constructs
  /\ Begin(Construct("plain", current, current, NoSymbol, {}))
  /\ UNCHANGED <<sets, symbols, current, bound, placed, outcome>>

\* The end of a function, an if or an else is an EXIT_SCOPE.
EndScoped ==
  /\ Parsing
  /\ Within \in {"function", "if", "else"}
  /\ IF HasParent(current)
     THEN /\ current' = Parent(current)
          /\ End
          /\ UNCHANGED <<sets, symbols, bound, placed, outcome>>
     ELSE Fatal("no parent")

\* Nothing exits the scope a while statement entered.
EndUnscoped ==
  /\ Parsing
  /\ Within \in {"while", "plain"}
  /\ End
  /\ UNCHANGED <<sets, symbols, current, bound, placed, outcome>>

\* Mutant: ENTER_SCOPE without EXIT_SCOPE.
BeginElseInside ==
  /\ Parsing
  /\ Within = "if"
  /\ Enter(current, "BLOCK")
  /\ open' = [open EXCEPT ![Len(open)] =
                Construct("else", @.outer, current', NoSymbol, {})]
  /\ UNCHANGED <<symbols, bound, placed, outcome>>

\* EXIT_SCOPE, then ENTER_SCOPE for the statement after else.
BeginElse ==
  /\ Parsing
  /\ Within = "if"
  /\ IF HasParent(current)
     THEN /\ Enter(Parent(current), "BLOCK")
          /\ open' = [open EXCEPT ![Len(open)] =
                        Construct("else", @.outer, current', NoSymbol, {})]
          /\ UNCHANGED <<symbols, bound, placed, outcome>>
     ELSE Fatal("no parent")

-----------------------------------------------------------------------------
GotoStatement(n) ==
  LET symbol == Lookup(current, "LABEL", n)
  IN  /\ Parsing
      /\ InStatements
      /\ "goto" \in Constructs
      /\ \/ /\ symbol # NoSymbol
            /\ bound' = symbol
            /\ UNCHANGED <<sets, symbols, current, open, placed, outcome>>
         \/ /\ symbol = NoSymbol
            /\ LabelOwner(current) = 0
            /\ Fatal("orphan label")
         \/ /\ symbol = NoSymbol
            /\ LabelOwner(current) # 0
            /\ Install(Label(n, FALSE))
            /\ UNCHANGED <<sets, current, open, bound, placed, outcome>>

\* The label in front of a statement.  The AST of an empty statement is NULL,
\* as that of a goto is, so that its label is not seen as placed.
LabelStatement(n, empty) ==
  LET symbol == Lookup(current, "LABEL", n)
      place == placed' = [placed EXCEPT ![Function][n] = IF @ = 2 THEN 2
                                                          ELSE @ + 1]
  IN  /\ Parsing
      /\ InStatements
      /\ "label" \in Constructs
      /\ \/ /\ symbol # NoSymbol
            /\ symbols[symbol].defined /\ ~empty
            /\ Fatal("label twice")
         \/ /\ symbol # NoSymbol
            /\ ~symbols[symbol].defined \/ empty
            /\ bound' = symbol
            /\ place
            /\ UNCHANGED <<sets, symbols, current, open, outcome>>
         \/ /\ symbol = NoSymbol
            /\ LabelOwner(current) = 0
            /\ Fatal("orphan label")
         \/ /\ symbol = NoSymbol
            /\ LabelOwner(current) # 0
            /\ Install(Label(n, ~empty))
            /\ place
            /\ UNCHANGED <<sets, current, open, bound, outcome>>

\* ast_node_new_goto_node has no return statement: the node its caller uses is
\* the one it built or garbage, whatever the build left in the register.
GotoNodeLost ==
  /\ Parsing
  /\ InStatements
  /\ Constructs \cap {"goto", "label"} # {}
  /\ Fatal("crash")

-----------------------------------------------------------------------------
\* struct t without a body: the tag's symbol, made now if no scope knows it.
TagReference(t) ==
  LET symbol == Lookup(current, "TAG", t)
  IN  /\ Parsing
      /\ "tagref" \in Constructs
      /\ IF symbol # NoSymbol
         THEN /\ bound' = symbol
              /\ UNCHANGED <<sets, symbols, current, open, placed, outcome>>
         ELSE /\ Len(sets) < MaxSets
              /\ sets' = Append(sets, NewSet(current, "STRUCT_OR_UNION"))
              /\ Install(Tag(t, Len(sets) + 1))
              /\ bound' = Len(symbols) + 1
              /\ UNCHANGED <<current, open, placed, outcome>>

\* struct t { : the parser moves into the set of the tag's type, wherever that
\* set hangs.
BeginTagged(t) ==
  LET symbol == Lookup(current, "TAG", t)
      tset == symbols[symbol].tset
  IN  /\ Parsing
      /\ "struct" \in Constructs
      /\ IF symbol # NoSymbol
         THEN /\ current' = tset
              /\ Begin(Construct("struct", current, tset, symbol, {}))
              /\ bound' = symbol
              /\ UNCHANGED <<sets, symbols, placed, outcome>>
         ELSE /\ Enter(current, "STRUCT_OR_UNION")
              /\ Install(Tag(t, current'))
              /\ Begin(Construct("struct", current, current',
                                 Len(symbols) + 1, {"fresh"}))
              /\ bound' = Len(symbols) + 1
              /\ UNCHANGED <<placed, outcome>>

BeginAnonymous ==
  /\ Parsing
  /\ "struct" \in Constructs
  /\ Enter(current, "STRUCT_OR_UNION")
  /\ Begin(Construct("struct", current, current', NoSymbol, {"fresh"}))
  /\ UNCHANGED <<symbols, bound, placed, outcome>>

\* The types a member named directly (not behind a pointer) may have: a scalar
\* (NoSymbol) or a struct whose tag was found inside this body.
MemberTypes ==
  {NoSymbol} \cup {i \in DOMAIN symbols : /\ symbols[i].owner = current
                                          /\ symbols[i].ns = "TAG"}

\* The enclosing struct remembers that an anonymous one closed inside it.
EndInner(tag) ==
  LET outer == Len(open) - 1
      rest == SubSeq(open, 1, outer)
  IN  open' = IF tag = NoSymbol /\ outer > 0 /\ open[outer].kind = "struct"
              THEN [rest EXCEPT ![outer].flags = @ \cup {"anonymous"}]
              ELSE rest

\* A declarator of a member.  A second one of a name will not be installed:
\* add_symbol refuses it, and nobody looks at the result.
DeclareMember(n, type) ==
  /\ Parsing
  /\ Within = "struct"
  /\ LET this == open[Len(open)]
     IN  Declare(IF \E k \in DOMAIN this.names : this.names[k] = n
                 THEN this.names ELSE Append(this.names, n),
                 this.types \cup ({type} \ {NoSymbol}))

\* }: EXIT_SCOPE, then the members, if any has a name, go to a new set that
\* becomes the type's.
EndStruct ==
  LET this == open[Len(open)]
      members == Len(sets) + 1
      redefined == this.tag # NoSymbol /\ symbols[this.tag].defined
      incomplete == \E type \in this.types : ~symbols[type].defined
      complete == IF this.tag = NoSymbol THEN symbols
                  ELSE [symbols EXCEPT ![this.tag] =
                          Completed(@, IF "fresh" \in this.flags THEN members
                                                                 ELSE @.tset,
                                    {this.names[k] : k \in DOMAIN this.names})]
  IN  /\ Parsing
      /\ Within = "struct"
      /\ \/ ~HasParent(current) /\ Fatal("no parent")
         \/ HasParent(current) /\ redefined /\ Fatal("tag redefined")
         \/ /\ HasParent(current) /\ ~redefined
            /\ incomplete
            /\ Fatal("incomplete member")
         \/ /\ HasParent(current) /\ ~redefined /\ ~incomplete
            /\ Len(sets) < MaxSets
            /\ sets' = Append(sets,
                              NewSet(Parent(current), "STRUCT_OR_UNION"))
            /\ Len(symbols) + Len(this.names) <= MaxSymbols
            /\ symbols' = complete \o Members(this.names, members)
            /\ current' = Parent(current)
            /\ EndInner(this.tag)
            /\ UNCHANGED <<bound, placed, outcome>>

\* A member whose type is an anonymous struct: the completeness assertion
\* follows the NULL ident of that type.
EndStructCrash ==
  /\ Parsing
  /\ Within = "struct"
  /\ "anonymous" \in open[Len(open)].flags
  /\ Fatal("crash")

-----------------------------------------------------------------------------
Init ==
  /\ sets = <<[scope |-> "GLOBAL", chain |-> <<Global>>]>>
  /\ symbols = <<>>
  /\ current = Global
  /\ open = <<>>
  /\ bound = NoSymbol
  /\ placed = [s \in 1..MaxSets |-> [n \in Names |-> 0]]
  /\ outcome = "parsing"

Next ==
  \/ \E n \in Names : \/ BeginDeclaration(n)
                      \/ NextDeclarator(n)
                      \/ UseIdentifier(n)
                      \/ BeginFunction(n)
                      \/ GotoStatement(n)
                      \/ \E empty \in BOOLEAN : LabelStatement(n, empty)
                      \/ TagReference(n)
                      \/ BeginTagged(n)
                      \/ \E type \in MemberTypes : DeclareMember(n, type)
  \/ EndDeclaration
  \/ \E kind \in {"if", "while"} : BeginStatement(kind)
  \/ BeginPlain
  \/ EndScoped
  \/ EndUnscoped
  \/ BeginElse
  \/ GotoNodeLost
  \/ BeginAnonymous
  \/ EndStruct
  \/ EndStructCrash

Spec == Init /\ [][Next]_vars

-----------------------------------------------------------------------------
(* The shape of the state: every index points into its table, every chain
   starts at its own set and ends at the global one. *)
SetType == [scope : Scopes, chain : Seq(Nat \ {0})]
SymbolType == [name : Names, ns : Namespaces, owner : Nat \ {0},
               storage : {"AUTO", "EXTERN", "INVALID"},
               defined : BOOLEAN, tset : Nat, body : SUBSET Names]
ConstructType == [kind : Kinds, outer : Nat \ {0}, inner : Nat \ {0},
                  tag : Nat, flags : SUBSET {"fresh", "anonymous"},
                  names : Seq(Names), types : SUBSET Nat]
TypeOK ==
  /\ sets \in Seq(SetType)
  /\ symbols \in Seq(SymbolType)
  /\ current \in 1..Len(sets)
  /\ open \in Seq(ConstructType)
  /\ bound \in 0..Len(symbols)
  /\ placed \in [1..MaxSets -> [Names -> 0..2]]
  /\ outcome \in Reasons \cup {"parsing"}

\* The sets the constructs being read opened, the global one included.
Nest == {Global} \cup {open[k].inner : k \in DOMAIN open}

(* Whatever nests in whatever, current_symbol_table is the set of the innermost
   open construct, and the global set between external declarations: no
   EXIT_SCOPE (c.y:35) pops too much, too little or into another branch of the
   tree.  While statements and tags that were referenced first break it. *)
InnermostScope ==
  Parsing => current = IF open = <<>> THEN Global ELSE open[Len(open)].inner

(* Between external declarations the current set is the global one.  It holds
   even where InnermostScope does not: a struct body can move the parser to a
   shallower set (the tag's type hangs where the tag was first named), but the
   function around it then runs into the assertion of EXIT_SCOPE
   (scope_helpers.c:99) before the next external declaration. *)
FileScopeIsGlobal == Parsing /\ open = <<>> => current = Global

(* No namespace of a symbol table set ever holds two symbols of one name,
   although each installer tests for the name in its own way: in one table
   (scope.c:68), or by a lookup through the scopes (scope_helpers.c:128,
   ast_constructors.c:349). *)
UniqueNames ==
  \A i, j \in DOMAIN symbols :
    /\ symbols[i].owner = symbols[j].owner
    /\ symbols[i].ns = symbols[j].ns
    /\ symbols[i].name = symbols[j].name
    => i = j

(* A tag that is fully defined has a type whose symbol table set holds the
   members of its definition, all of them and nothing else, from then on
   (ast_constructors.c:359-419), in whatever scope and nesting the definitions
   stand.  A reference made before the definition breaks it: the tag keeps the
   type of the reference, and the definition gives the members to its own. *)
CompleteTagHasMembers ==
  \A i \in DOMAIN symbols :
    symbols[i].ns = "TAG" /\ symbols[i].defined
      => {symbols[j].name : j \in {k \in DOMAIN symbols :
                                     /\ symbols[k].ns = "GENERAL"
                                     /\ symbols[k].owner = symbols[i].tset}}
           = symbols[i].body

(* Outside struct bodies an identifier resolves to the innermost enclosing
   declaration that has ended, and is rejected exactly when there is none
   (scope.c:183-202, c.y:214-217, 466-468): wherever blocks, functions and
   struct bodies were entered and left before, no inner or finished scope
   hides, and no declaration being read is seen.  Inside a body the lookup
   stops at the body (scope.c:187), so nothing that is declared around it is
   ever found there, and only members of a tag that is defined again are. *)
UseBindsInnermost ==
  [][\A n \in Names :
       UseIdentifier(n) =>
         LET declaring == {s \in Nest : Table(s, "GENERAL", n) # {}}
             found == IF Within = "struct" THEN declaring \cap {current} ELSE declaring
         IN  IF found = {}
             THEN outcome' = "undeclared"
             ELSE bound' \in Table(Newest(found), "GENERAL", n)]_vars

(* After a goto or a labelled statement the label is one of the function being
   read: no goto reaches into another function (scope_helpers.c:128-150). *)
LabelOfThisFunction ==
  [][\A n \in Names :
       /\ GotoStatement(n) \/ \E empty \in BOOLEAN : LabelStatement(n, empty)
       /\ outcome' = "parsing"
       =>
         \E i \in DOMAIN symbols' :
           /\ symbols'[i].owner = Function
           /\ symbols'[i].ns = "LABEL"
           /\ symbols'[i].name = n
           /\ bound' # bound => bound' = i]_vars

(* What a declaration declares is EXTERN exactly when it stands outside every
   function (scope_helpers.c:40-43); translators.c:30 addresses the symbol by
   its label or by a frame offset accordingly. *)
ExternAtFileScope ==
  [][EndDeclaration /\ outcome' = "parsing" =>
       \A i \in DOMAIN symbols' \ DOMAIN symbols :
         (symbols'[i].storage = "EXTERN") <=> (Len(open) = 1)]_vars

(* A label is refused as the second one of its name only if the function it
   stands in has one already: no label of an earlier function is taken for it
   ("Attempt to put the same label twice in the same function",
   scope_helpers.c:128-135). *)
LabelTwiceIsInOneFunction ==
  [][\A n \in Names :
       /\ \E empty \in BOOLEAN : LabelStatement(n, empty)
       /\ outcome' = "label twice"
       => placed[Function][n] > 0]_vars
=============================================================================
