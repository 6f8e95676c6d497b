---------------------------- MODULE ScopeProofs ----------------------------
(***************************************************************************)
(* Theorems about Scope, for every set of names, every subset of the       *)
(* constructs and every bound.                                             *)
(***************************************************************************)
EXTENDS Scope, OrderLemmas, SequenceTheorems, FiniteSetTheorems, TLAPS

\* Every parent_scope chain consists of allocated sets.
ChainsOK ==
  \A s \in 1..Len(sets) :
    /\ sets[s].chain # <<>>
    /\ \A k \in DOMAIN sets[s].chain : sets[s].chain[k] \in 1..Len(sets)

\* Owners and tag types are allocated sets.
OwnersOK ==
  \A i \in 1..Len(symbols) :
    /\ symbols[i].owner \in 1..Len(sets)
    /\ symbols[i].ns = "TAG" => symbols[i].tset \in 1..Len(sets)

\* The tag of an open struct is the symbol of a tag.
TagsOK ==
  \A k \in 1..Len(open) :
    open[k].tag # NoSymbol => /\ open[k].tag \in 1..Len(symbols)
                              /\ symbols[open[k].tag].ns = "TAG"

\* A label is a symbol of a function's set.
LabelsInFunctionScope ==
  \A i \in DOMAIN symbols :
    symbols[i].ns = "LABEL" => sets[symbols[i].owner].scope = "FUNCTION"

IndInv == TypeOK /\ ChainsOK /\ OwnersOK /\ TagsOK /\ LabelsInFunctionScope

LEMMA InitIndInv == Init => IndInv
  BY BoundsAssumption
  DEF Init, IndInv, TypeOK, ChainsOK, OwnersOK, TagsOK, LabelsInFunctionScope,
      Global, NoSymbol, SetType, SymbolType, ConstructType, Scopes, Namespaces,
      Reasons, Kinds

-----------------------------------------------------------------------------
\* Allocating a set keeps the others and the shape of the chains.
LEMMA NewSetOK ==
  ASSUME sets \in Seq(SetType), ChainsOK,
         NEW p \in 1..Len(sets), NEW scope \in Scopes,
         sets' = Append(sets, NewSet(p, scope))
  PROVE  /\ sets' \in Seq(SetType)
         /\ Len(sets') = Len(sets) + 1
         /\ \A s \in 1..Len(sets) : sets'[s] = sets[s]
         /\ sets'[Len(sets) + 1] = NewSet(p, scope)
         /\ ChainsOK'
<1>1. sets[p] \in SetType
  OBVIOUS
<1>2. sets[p].chain \in Seq(Nat \ {0})
  BY <1>1 DEF SetType
<1>3. <<Len(sets) + 1>> \in Seq(Nat \ {0})
  OBVIOUS
<1> DEFINE c == <<Len(sets) + 1>> \o sets[p].chain
           r == NewSet(p, scope)
<1>4. /\ c \in Seq(Nat \ {0})
      /\ Len(c) = 1 + Len(sets[p].chain)
      /\ \A i \in 1..Len(c) : c[i] = IF i = 1 THEN Len(sets) + 1
                                              ELSE sets[p].chain[i - 1]
  <2>1. Len(<<Len(sets) + 1>>) = 1 /\ <<Len(sets) + 1>>[1] = Len(sets) + 1
    OBVIOUS
  <2> HIDE DEF c
  <2>2. /\ c \in Seq(Nat \ {0})
        /\ Len(c) = Len(<<Len(sets) + 1>>) + Len(sets[p].chain)
        /\ \A i \in 1..(Len(<<Len(sets) + 1>>) + Len(sets[p].chain)) :
             c[i] = IF i <= Len(<<Len(sets) + 1>>)
                    THEN <<Len(sets) + 1>>[i]
                    ELSE sets[p].chain[i - Len(<<Len(sets) + 1>>)]
    BY <1>2, <1>3, ConcatProperties, Zenon DEF c
  <2> QED
    BY <1>2, <2>1, <2>2
<1>5. r \in SetType /\ r.chain = c
  BY <1>4 DEF SetType, NewSet
<1>6. /\ sets' \in Seq(SetType)
      /\ Len(sets') = Len(sets) + 1
      /\ \A s \in 1..Len(sets) : sets'[s] = sets[s]
      /\ sets'[Len(sets) + 1] = r
  <2> HIDE DEF r
  <2>1. sets' = Append(sets, r)
    BY DEF r
  <2> QED
    BY <1>5, <2>1
<1>7. ChainsOK'
  <2> SUFFICES ASSUME NEW s \in 1..(Len(sets) + 1)
               PROVE  /\ sets'[s].chain # <<>>
                      /\ \A k \in DOMAIN sets'[s].chain :
                           sets'[s].chain[k] \in 1..(Len(sets) + 1)
    BY <1>6 DEF ChainsOK
  <2>1. CASE s \in 1..Len(sets)
    BY <1>6, <2>1 DEF ChainsOK, SetType
  <2>2. CASE s = Len(sets) + 1
    <3> HIDE DEF c, r
    <3>1. sets'[s].chain = c
      BY <1>5, <1>6, <2>2
    <3>2. c # <<>> /\ DOMAIN c = 1..Len(c)
      BY <1>2, <1>4
    <3>3. ASSUME NEW k \in 1..Len(c)
          PROVE  c[k] \in 1..(Len(sets) + 1)
      <4>1. CASE k = 1
        BY <1>4, <4>1
      <4>2. CASE k # 1
        <5>1. k - 1 \in DOMAIN sets[p].chain
          BY <1>2, <1>4, <4>2
        <5>2. sets[p].chain[k - 1] \in 1..Len(sets)
          BY <5>1 DEF ChainsOK
        <5> QED
          BY <1>4, <4>2, <5>2, SMTT(30)
      <4> QED
        BY <4>1, <4>2
    <3> QED
      BY <3>1, <3>2, <3>3
  <2> QED
    BY <2>1, <2>2
<1> QED
  BY <1>6, <1>7

\* Installing a symbol keeps the others.
LEMMA InstallOK ==
  ASSUME symbols \in Seq(SymbolType), NEW x \in SymbolType,
         symbols' = Append(symbols, x)
  PROVE  /\ symbols' \in Seq(SymbolType)
         /\ Len(symbols') = Len(symbols) + 1
         /\ \A i \in 1..Len(symbols) : symbols'[i] = symbols[i]
         /\ symbols'[Len(symbols) + 1] = x
  OBVIOUS

\* Opening a construct keeps the others.
LEMMA BeginOK ==
  ASSUME open \in Seq(ConstructType), NEW c \in ConstructType,
         open' = Append(open, c)
  PROVE  /\ open' \in Seq(ConstructType)
         /\ Len(open') = Len(open) + 1
         /\ \A k \in 1..Len(open) : open'[k] = open[k]
         /\ open'[Len(open) + 1] = c
  OBVIOUS

\* Closing one too.
LEMMA EndOK ==
  ASSUME open \in Seq(ConstructType), open # <<>>, End
  PROVE  /\ open' \in Seq(ConstructType)
         /\ Len(open') = Len(open) - 1
         /\ \A k \in 1..Len(open') : open'[k] = open[k]
<1>1. Len(open) \in Nat \ {0}
  OBVIOUS
<1>2. \A k \in 1..(Len(open) - 1) : open[k] \in ConstructType
  OBVIOUS
<1>3. /\ open' \in Seq(ConstructType)
      /\ Len(open') = IF 1 <= Len(open) - 1 THEN Len(open) - 1 - 1 + 1 ELSE 0
      /\ \A k \in 1..(Len(open) - 1 - 1 + 1) : open'[k] = open[1 + k - 1]
  BY <1>1, <1>2, SubSeqProperties DEF End
<1>4. Len(open') = Len(open) - 1
  <2> DEFINE n == Len(open)
             m == Len(open')
  <2>1. n \in Nat \ {0} /\ m = IF 1 <= n - 1 THEN n - 1 - 1 + 1 ELSE 0
    BY <1>1, <1>3
  <2> HIDE DEF n, m
  <2>2. m = n - 1
    BY <2>1
  <2> QED
    BY <2>2 DEF n, m
<1>5. ASSUME NEW k \in 1..Len(open') PROVE open'[k] = open[k]
  <2>1. open'[k] = open[1 + k - 1] /\ 1 + k - 1 = k
    BY <1>1, <1>3, <1>4
  <2> QED
    BY <2>1
<1> QED
  BY <1>3, <1>4, <1>5

\* The positions of a chain are natural numbers.
LEMMA ChainDomain ==
  ASSUME IndInv, NEW s \in 1..Len(sets)
  PROVE  DOMAIN sets[s].chain \subseteq Nat
<1>1. sets[s] \in SetType
  BY DEF IndInv, TypeOK
<1> QED
  BY <1>1 DEF SetType

\* What a name resolves to is a symbol of that name in that namespace.
LEMMA LookupOK ==
  ASSUME IndInv, NEW s \in 1..Len(sets), NEW ns, NEW n,
         Lookup(s, ns, n) # NoSymbol
  PROVE  /\ Lookup(s, ns, n) \in 1..Len(symbols)
         /\ symbols[Lookup(s, ns, n)].ns = ns
         /\ symbols[Lookup(s, ns, n)].name = n
<1> DEFINE hits == {k \in Visited(s) : Table(sets[s].chain[k], ns, n) # {}}
           first == CHOOSE k \in hits : \A j \in hits : k <= j
           ids == Table(sets[s].chain[first], ns, n)
<1>1. hits # {} /\ Lookup(s, ns, n) = Newest(ids)
  BY DEF Lookup
<1>2. hits \subseteq Nat
  BY ChainDomain DEF Visited
<1>3. first \in hits
  <2> HIDE DEF hits
  <2>1. \E k \in hits : \A j \in hits : k <= j
    BY <1>1, <1>2, NatMin
  <2> QED
    BY <2>1
<1>4. ids # {} /\ ids \subseteq 1..Len(symbols)
  <2>1. ids # {}
    <3> HIDE DEF first
    <3> QED
      BY <1>3
  <2>2. DOMAIN symbols = 1..Len(symbols)
    BY DEF IndInv, TypeOK
  <2> QED
    BY <2>1, <2>2 DEF Table
<1>5. Newest(ids) \in ids
  <2> HIDE DEF ids
  <2>1. Len(symbols) \in Nat /\ ids \subseteq 0..Len(symbols)
    BY <1>4 DEF IndInv, TypeOK
  <2>2. \E i \in ids : \A j \in ids : j <= i
    BY <1>4, <2>1, NatMax
  <2> QED
    BY <2>2 DEF Newest
<1> QED
  BY <1>1, <1>4, <1>5 DEF Table

\* A label's owner, where there is one, is a function scope on the chain.
LEMMA LabelOwnerOK ==
  ASSUME IndInv, NEW s \in 1..Len(sets), LabelOwner(s) # 0
  PROVE  /\ LabelOwner(s) \in 1..Len(sets)
         /\ sets[LabelOwner(s)].scope = "FUNCTION"
<1> DEFINE fns == {k \in DOMAIN sets[s].chain :
                     sets[sets[s].chain[k]].scope = "FUNCTION"}
           first == CHOOSE k \in fns : \A j \in fns : k <= j
<1>1. fns # {} /\ LabelOwner(s) = sets[s].chain[first]
  BY DEF LabelOwner
<1>2. fns \subseteq Nat
  BY ChainDomain
<1>3. first \in fns
  <2> HIDE DEF fns
  <2>1. \E k \in fns : \A j \in fns : k <= j
    BY <1>1, <1>2, NatMin
  <2> QED
    BY <2>1
<1> QED
  BY <1>1, <1>3 DEF IndInv, ChainsOK

-----------------------------------------------------------------------------
\* The positions of one sequence and then of another.
LEMMA ConcatOK ==
  ASSUME NEW S, NEW a \in Seq(S), NEW b \in Seq(S)
  PROVE  /\ a \o b \in Seq(S)
         /\ Len(a \o b) = Len(a) + Len(b)
         /\ \A i \in 1..Len(a) : (a \o b)[i] = a[i]
         /\ \A i \in (Len(a) + 1)..(Len(a) + Len(b)) : (a \o b)[i] = b[i - Len(a)]
<1>1. Len(a) \in Nat /\ Len(b) \in Nat
  OBVIOUS
<1> DEFINE c == a \o b
<1>2. /\ c \in Seq(S)
      /\ Len(c) = Len(a) + Len(b)
      /\ \A i \in 1..(Len(a) + Len(b)) :
           c[i] = IF i <= Len(a) THEN a[i] ELSE b[i - Len(a)]
  BY ConcatProperties, Zenon
<1> HIDE DEF c
<1>3. \A i \in 1..Len(a) : c[i] = a[i]
  BY <1>1, <1>2
<1>4. \A i \in (Len(a) + 1)..(Len(a) + Len(b)) : c[i] = b[i - Len(a)]
  BY <1>1, <1>2
<1> QED
  BY <1>2, <1>3, <1>4 DEF c

\* The symbols the names of a declaration or a struct get in a set.
Declares(more, names, s) ==
  /\ more \in Seq(SymbolType)
  /\ Len(more) = Len(names)
  /\ \A k \in 1..Len(names) : /\ more[k].name = names[k]
                               /\ more[k].ns = "GENERAL"
                               /\ more[k].owner = s

LEMMA VariablesOK ==
  ASSUME IndInv, NEW names \in Seq(Names)
  PROVE  /\ Declares(Variables(names), names, current)
         /\ \A k \in 1..Len(names) :
              Variables(names)[k].storage = StorageClass(current)
<1>1. current \in Nat \ {0}
  BY DEF IndInv, TypeOK
<1>2. \A k \in 1..Len(names) : Variables(names)[k] = Variable(names[k], current)
  BY DEF Variables
<1>3. \A n \in Names : /\ Variable(n, current) \in SymbolType
                       /\ Variable(n, current).name = n
                       /\ Variable(n, current).ns = "GENERAL"
                       /\ Variable(n, current).owner = current
                       /\ Variable(n, current).storage = StorageClass(current)
  BY <1>1 DEF Variable, Symbol, SymbolType, Namespaces, StorageClass
<1>4. \A k \in 1..Len(names) : names[k] \in Names
  OBVIOUS
<1>5. /\ Variables(names) \in Seq(SymbolType)
      /\ Len(Variables(names)) = Len(names)
  <2>1. Variables(names) = [k \in 1..Len(names) |-> Variable(names[k], current)]
    BY DEF Variables
  <2>2. \A k \in 1..Len(names) : Variable(names[k], current) \in SymbolType
    BY <1>3, <1>4
  <2> QED
    BY <2>1, <2>2
<1> QED
  BY <1>2, <1>3, <1>4, <1>5 DEF Declares

LEMMA MembersOK ==
  ASSUME NEW names \in Seq(Names), NEW s \in Nat \ {0}
  PROVE  Declares(Members(names, s), names, s)
<1> DEFINE member(n) == Symbol(n, "GENERAL", s, "INVALID", FALSE, 0)
<1>1. \A n \in Names : /\ member(n) \in SymbolType
                       /\ member(n).name = n
                       /\ member(n).ns = "GENERAL"
                       /\ member(n).owner = s
  BY DEF Symbol, SymbolType, Namespaces
<1>2. Members(names, s) = [k \in 1..Len(names) |-> member(names[k])]
  BY DEF Members
<1>3. \A k \in 1..Len(names) : names[k] \in Names
  OBVIOUS
<1> HIDE DEF member
<1>4. \A k \in 1..Len(names) : Members(names, s)[k] = member(names[k])
  BY <1>2
<1>5. Members(names, s) \in Seq(SymbolType) /\ Len(Members(names, s)) = Len(names)
  BY <1>1, <1>2, <1>3
<1> QED
  BY <1>1, <1>3, <1>4, <1>5 DEF Declares

\* The symbols after a number of names has been declared at once.
Grown(done, more, names, s) ==
  /\ symbols' \in Seq(SymbolType)
  /\ Len(symbols') = Len(done) + Len(names)
  /\ \A i \in 1..Len(done) : symbols'[i] = done[i]
  /\ \A i \in (Len(done) + 1)..Len(symbols') :
       /\ i - Len(done) \in 1..Len(names)
       /\ symbols'[i] = more[i - Len(done)]
       /\ symbols'[i].name = names[i - Len(done)]
       /\ symbols'[i].ns = "GENERAL"
       /\ symbols'[i].owner = s

LEMMA DeclaredOK ==
  ASSUME NEW done \in Seq(SymbolType), NEW names \in Seq(Names), NEW s, NEW more,
         Declares(more, names, s), symbols' = done \o more
  PROVE  Grown(done, more, names, s)
<1>1. more \in Seq(SymbolType) /\ Len(more) = Len(names)
  BY DEF Declares
<1>2. /\ done \o more \in Seq(SymbolType)
      /\ Len(done \o more) = Len(done) + Len(more)
      /\ \A i \in 1..Len(done) : (done \o more)[i] = done[i]
      /\ \A i \in (Len(done) + 1)..(Len(done) + Len(more)) :
           (done \o more)[i] = more[i - Len(done)]
  BY ONLY <1>1, done \in Seq(SymbolType), ConcatOK
<1>3. /\ symbols' \in Seq(SymbolType)
      /\ Len(symbols') = Len(done) + Len(names)
      /\ \A i \in 1..Len(done) : symbols'[i] = done[i]
      /\ \A i \in (Len(done) + 1)..Len(symbols') :
           symbols'[i] = more[i - Len(done)]
  BY ONLY <1>1, <1>2, symbols' = done \o more
<1>4. Len(done) \in Nat /\ Len(names) \in Nat
  OBVIOUS
<1>5. ASSUME NEW i \in (Len(done) + 1)..Len(symbols')
      PROVE  i - Len(done) \in 1..Len(names)
  BY ONLY <1>3, <1>4, <1>5
<1> QED
  BY <1>3, <1>5 DEF Declares, Grown

-----------------------------------------------------------------------------
\* The sets after a step that allocates none or one.
SetsGrow ==
  /\ sets' \in Seq(SetType)
  /\ Len(sets') >= Len(sets)
  /\ \A s \in 1..Len(sets) : sets'[s] = sets[s]
  /\ ChainsOK'

LEMMA UnchangedSetsGrow == IndInv /\ UNCHANGED sets => SetsGrow
  BY DEF IndInv, TypeOK, ChainsOK, SetsGrow

LEMMA NewSetGrows ==
  ASSUME IndInv, NEW p \in 1..Len(sets), NEW scope \in Scopes,
         sets' = Append(sets, NewSet(p, scope))
  PROVE  /\ SetsGrow
         /\ Len(sets') = Len(sets) + 1
         /\ sets'[Len(sets) + 1].scope = scope
<1>1. NewSet(p, scope).scope = scope
  BY DEF NewSet
<1>2. Len(sets) \in Nat /\ sets \in Seq(SetType) /\ ChainsOK
  BY DEF IndInv, TypeOK
<1> QED
  BY <1>1, <1>2, NewSetOK DEF SetsGrow

\* The symbols after a step that installs none or one.
SymbolsGrow ==
  /\ symbols' \in Seq(SymbolType)
  /\ Len(symbols') >= Len(symbols)
  /\ \A i \in 1..Len(symbols) : symbols'[i].ns = symbols[i].ns
  /\ OwnersOK'
  /\ LabelsInFunctionScope'

LEMMA UnchangedSymbolsGrow ==
  ASSUME IndInv, SetsGrow, UNCHANGED symbols
  PROVE  SymbolsGrow
<1>1. /\ symbols \in Seq(SymbolType) /\ DOMAIN symbols = 1..Len(symbols)
      /\ Len(sets) \in Nat /\ Len(sets') \in Nat
  BY DEF IndInv, TypeOK, SetsGrow
<1>2. OwnersOK'
  BY <1>1 DEF IndInv, OwnersOK, SetsGrow
<1>3. LabelsInFunctionScope'
  BY <1>1 DEF IndInv, OwnersOK, LabelsInFunctionScope, SetsGrow
<1> QED
  BY <1>1, <1>2, <1>3 DEF SymbolsGrow

LEMMA NewSymbolGrows ==
  ASSUME IndInv, SetsGrow, NEW x \in SymbolType,
         symbols' = Append(symbols, x),
         x.owner \in 1..Len(sets'),
         x.ns = "TAG" => x.tset \in 1..Len(sets'),
         x.ns = "LABEL" => sets'[x.owner].scope = "FUNCTION"
  PROVE  SymbolsGrow /\ Len(symbols') = Len(symbols) + 1
<1>1. /\ symbols \in Seq(SymbolType) /\ Len(symbols) \in Nat
      /\ Len(sets) \in Nat /\ Len(sets') \in Nat /\ Len(sets') >= Len(sets)
  BY DEF IndInv, TypeOK, SetsGrow
<1>2. /\ symbols' \in Seq(SymbolType)
      /\ Len(symbols') = Len(symbols) + 1
      /\ \A i \in 1..Len(symbols) : symbols'[i] = symbols[i]
      /\ symbols'[Len(symbols) + 1] = x
  BY <1>1, InstallOK
<1>3. OwnersOK'
  <2> SUFFICES ASSUME NEW i \in 1..(Len(symbols) + 1)
               PROVE  /\ symbols'[i].owner \in 1..Len(sets')
                      /\ symbols'[i].ns = "TAG" =>
                           symbols'[i].tset \in 1..Len(sets')
    BY <1>2 DEF OwnersOK
  <2>1. CASE i \in 1..Len(symbols)
    BY <1>1, <1>2, <2>1 DEF IndInv, OwnersOK
  <2>2. CASE i = Len(symbols) + 1
    BY <1>2, <2>2
  <2> QED
    BY <1>1, <2>1, <2>2
<1>4. LabelsInFunctionScope'
  <2> SUFFICES ASSUME NEW i \in 1..(Len(symbols) + 1), symbols'[i].ns = "LABEL"
               PROVE  sets'[symbols'[i].owner].scope = "FUNCTION"
    BY <1>2 DEF LabelsInFunctionScope
  <2>1. CASE i \in 1..Len(symbols)
    <3>1. symbols[i].owner \in 1..Len(sets) /\ i \in DOMAIN symbols
      BY <1>1, <2>1 DEF IndInv, OwnersOK
    <3> QED
      BY <1>2, <2>1, <3>1 DEF IndInv, LabelsInFunctionScope, SetsGrow
  <2>2. CASE i = Len(symbols) + 1
    BY <1>2, <2>2
  <2> QED
    BY <1>1, <2>1, <2>2
<1> QED
  BY <1>1, <1>2, <1>3, <1>4 DEF SymbolsGrow

\* The open constructs after a step that opens or closes one.
LEMMA BeginTagsOK ==
  ASSUME IndInv, SymbolsGrow, NEW c \in ConstructType, Begin(c),
         c.tag # NoSymbol => c.tag \in 1..Len(symbols') /\ symbols'[c.tag].ns = "TAG"
  PROVE  open' \in Seq(ConstructType) /\ TagsOK'
<1>1. /\ open \in Seq(ConstructType) /\ Len(open) \in Nat
      /\ Len(symbols) \in Nat /\ Len(symbols') \in Nat /\ Len(symbols') >= Len(symbols)
  BY DEF IndInv, TypeOK, SymbolsGrow
<1>2. /\ open' \in Seq(ConstructType)
      /\ Len(open') = Len(open) + 1
      /\ \A k \in 1..Len(open) : open'[k] = open[k]
      /\ open'[Len(open) + 1] = c
  BY <1>1, BeginOK DEF Begin
<1>3. ASSUME NEW k \in 1..(Len(open) + 1), open'[k].tag # NoSymbol
      PROVE  /\ open'[k].tag \in 1..Len(symbols')
             /\ symbols'[open'[k].tag].ns = "TAG"
  <2>1. CASE k \in 1..Len(open)
    BY <1>1, <1>2, <1>3, <2>1, SMTT(30) DEF IndInv, TagsOK, SymbolsGrow
  <2>2. CASE k = Len(open) + 1
    BY <1>2, <1>3, <2>2
  <2> QED
    BY <1>1, <2>1, <2>2
<1> QED
  BY <1>2, <1>3 DEF TagsOK

LEMMA KeepTagsOK ==
  ASSUME IndInv, SymbolsGrow, open' \in Seq(ConstructType), Len(open') <= Len(open),
         \A k \in 1..Len(open') : open'[k].tag \in {open[k].tag, NoSymbol}
  PROVE  TagsOK'
<1>1. /\ Len(open) \in Nat /\ Len(open') \in Nat
      /\ Len(symbols) \in Nat /\ Len(symbols') \in Nat /\ Len(symbols') >= Len(symbols)
  BY DEF IndInv, TypeOK, SymbolsGrow
<1> QED
  BY <1>1 DEF IndInv, TagsOK, SymbolsGrow

\* A declaration begins where the parser is.
LEMMA DeclarationOK ==
  ASSUME IndInv, NEW n \in Names
  PROVE  /\ Declaration(n) \in ConstructType
         /\ Declaration(n).kind = "declaration"
         /\ Declaration(n).outer = current
         /\ Declaration(n).inner = current
         /\ Declaration(n).tag = NoSymbol
         /\ Declaration(n).flags = {}
<1>1. current \in Nat \ {0} /\ <<n>> \in Seq(Names)
  BY DEF IndInv, TypeOK
<1> QED
  BY <1>1 DEF Declaration, Construct, ConstructType, Kinds, NoSymbol

\* Another declarator changes nothing but the lists of the innermost construct.
LEMMA DeclareOK ==
  ASSUME IndInv, open # <<>>, NEW names \in Seq(Names), NEW types \in SUBSET Nat,
         Declare(names, types)
  PROVE  /\ open' \in Seq(ConstructType)
         /\ Len(open') = Len(open)
         /\ \A k \in 1..Len(open) :
              /\ open'[k].kind = open[k].kind
              /\ open'[k].outer = open[k].outer
              /\ open'[k].inner = open[k].inner
              /\ open'[k].tag = open[k].tag
              /\ open'[k].flags = open[k].flags
              /\ open'[k].names = IF k = Len(open) THEN names ELSE open[k].names
<1> DEFINE top == open[Len(open)]
           e == [top EXCEPT !.names = names, !.types = types]
<1>1. open \in Seq(ConstructType) /\ Len(open) \in 1..Len(open)
  BY DEF IndInv, TypeOK
<1>2. top \in ConstructType
  BY <1>1
<1>3. /\ e \in ConstructType
      /\ e.kind = top.kind /\ e.outer = top.outer /\ e.inner = top.inner
      /\ e.tag = top.tag /\ e.flags = top.flags /\ e.names = names
  <2> HIDE DEF top
  <2> QED
    BY <1>2 DEF ConstructType
<1>4. open' = [open EXCEPT ![Len(open)] = e]
  BY Zenon DEF Declare
<1>5. /\ open' \in Seq(ConstructType)
      /\ Len(open') = Len(open)
      /\ \A k \in 1..Len(open) : open'[k] = IF k = Len(open) THEN e ELSE open[k]
  <2> HIDE DEF e
  <2> QED
    BY <1>1, <1>3, <1>4, ExceptSeq
<1> HIDE DEF e
<1> QED
  BY <1>3, <1>5

\* What is left of the invariant once the tables have grown.
LEMMA GrownIndInv ==
  ASSUME IndInv, SetsGrow, SymbolsGrow, open' \in Seq(ConstructType), TagsOK',
         current' \in 1..Len(sets'), bound' \in 0..Len(symbols'),
         placed' \in [1..MaxSets -> [Names -> 0..2]],
         outcome' \in Reasons \cup {"parsing"}
  PROVE  IndInv'
  BY DEF IndInv, TypeOK, SetsGrow, SymbolsGrow

-----------------------------------------------------------------------------
LEMMA StutterIndInv == IndInv /\ UNCHANGED vars => IndInv'
<1> SUFFICES ASSUME IndInv, UNCHANGED vars PROVE IndInv'
  OBVIOUS
<1>1. SetsGrow /\ SymbolsGrow
  BY UnchangedSetsGrow, UnchangedSymbolsGrow DEF vars
<1>2. TagsOK' /\ open' \in Seq(ConstructType)
  BY DEF vars, IndInv, TypeOK, TagsOK
<1> QED
  BY <1>1, <1>2, GrownIndInv DEF vars, IndInv, TypeOK

\* An error ends the process and touches nothing.
LEMMA FatalIndInv ==
  ASSUME IndInv, NEW reason \in Reasons, Fatal(reason)
  PROVE  IndInv'
<1>1. SetsGrow /\ SymbolsGrow
  BY UnchangedSetsGrow, UnchangedSymbolsGrow DEF Fatal
<1>2. TagsOK' /\ open' \in Seq(ConstructType)
  BY DEF Fatal, IndInv, TypeOK, TagsOK
<1> QED
  BY <1>1, <1>2, GrownIndInv DEF Fatal, IndInv, TypeOK

\* A name resolved to a symbol that exists: nothing else moves.
LEMMA BindIndInv ==
  ASSUME IndInv, NEW b \in 0..Len(symbols), bound' = b,
         UNCHANGED <<sets, symbols, current, open, outcome>>,
         placed' \in [1..MaxSets -> [Names -> 0..2]]
  PROVE  IndInv'
<1>1. SetsGrow /\ SymbolsGrow
  BY UnchangedSetsGrow, UnchangedSymbolsGrow
<1>2. TagsOK' /\ open' \in Seq(ConstructType)
  BY DEF IndInv, TypeOK, TagsOK
<1> QED
  BY <1>1, <1>2, GrownIndInv DEF IndInv, TypeOK

\* One symbol is installed in an allocated set; the scopes do not move.
LEMMA InstallIndInv ==
  ASSUME IndInv, SetsGrow, NEW x \in SymbolType, Install(x),
         x.owner \in 1..Len(sets'),
         x.ns = "TAG" => x.tset \in 1..Len(sets'),
         x.ns = "LABEL" => sets'[x.owner].scope = "FUNCTION",
         UNCHANGED <<current, open, outcome>>,
         bound' = bound \/ bound' = Len(symbols) + 1,
         placed' \in [1..MaxSets -> [Names -> 0..2]]
  PROVE  IndInv'
<1>1. SymbolsGrow /\ Len(symbols') = Len(symbols) + 1
  BY NewSymbolGrows DEF Install
<1>2. open' \in Seq(ConstructType) /\ TagsOK'
  <2>1. open' \in Seq(ConstructType) /\ open' = open
    BY DEF IndInv, TypeOK
  <2> QED
    BY <1>1, <2>1, KeepTagsOK
<1>3. current' \in 1..Len(sets') /\ bound' \in 0..Len(symbols')
  <2>1. /\ current \in 1..Len(sets) /\ bound \in 0..Len(symbols)
        /\ Len(sets) \in Nat /\ Len(sets') \in Nat /\ Len(sets') >= Len(sets)
        /\ Len(symbols) \in Nat
    BY DEF IndInv, TypeOK, SetsGrow
  <2> QED
    BY <1>1, <2>1
<1>4. outcome' \in Reasons \cup {"parsing"}
  BY DEF IndInv, TypeOK
<1> QED
  BY <1>1, <1>2, <1>3, <1>4, GrownIndInv

LEMMA VariableOK ==
  ASSUME NEW n \in Names, NEW s \in Nat \ {0}
  PROVE  /\ Variable(n, s) \in SymbolType
         /\ Variable(n, s).owner = s
         /\ Variable(n, s).ns = "GENERAL"
  BY DEF Variable, Symbol, SymbolType, Namespaces, StorageClass

LEMMA TagOK ==
  ASSUME IndInv, NEW t \in Names, NEW s \in Nat
  PROVE  /\ Tag(t, s) \in SymbolType
         /\ Tag(t, s).owner = current
         /\ Tag(t, s).ns = "TAG"
         /\ Tag(t, s).tset = s
<1>1. current \in Nat \ {0}
  BY DEF IndInv, TypeOK
<1> QED
  BY <1>1 DEF Tag, Symbol, SymbolType, Namespaces

LEMMA LabelOK ==
  ASSUME IndInv, NEW n \in Names, NEW pointing \in BOOLEAN, LabelOwner(current) # 0
  PROVE  /\ Label(n, pointing) \in SymbolType
         /\ Label(n, pointing).owner \in 1..Len(sets)
         /\ Label(n, pointing).ns = "LABEL"
         /\ sets[Label(n, pointing).owner].scope = "FUNCTION"
<1>1. current \in 1..Len(sets) /\ Len(sets) \in Nat
  BY DEF IndInv, TypeOK
<1>2. /\ LabelOwner(current) \in 1..Len(sets)
      /\ sets[LabelOwner(current)].scope = "FUNCTION"
  BY <1>1, LabelOwnerOK
<1> QED
  BY <1>1, <1>2 DEF Label, Symbol, SymbolType, Namespaces

-----------------------------------------------------------------------------
\* Only the lists of the innermost construct change.
LEMMA DeclareIndInv ==
  ASSUME IndInv, open # <<>>, NEW names \in Seq(Names), NEW types \in SUBSET Nat,
         Declare(names, types)
  PROVE  IndInv'
<1>1. SetsGrow /\ SymbolsGrow
  BY UnchangedSetsGrow, UnchangedSymbolsGrow DEF Declare
<1>2. /\ open' \in Seq(ConstructType)
      /\ Len(open') = Len(open)
      /\ \A k \in 1..Len(open) : open'[k].tag = open[k].tag
  BY DeclareOK
<1>3. TagsOK'
  <2>1. Len(open') <= Len(open)
    BY <1>2 DEF IndInv, TypeOK
  <2> QED
    BY <1>1, <1>2, <2>1, KeepTagsOK
<1> QED
  BY <1>1, <1>2, <1>3, GrownIndInv DEF Declare, IndInv, TypeOK

LEMMA BeginDeclarationIndInv ==
  ASSUME IndInv, NEW n \in Names, BeginDeclaration(n)
  PROVE  IndInv'
<1> USE DEF BeginDeclaration
<1>1. SetsGrow /\ SymbolsGrow
  BY UnchangedSetsGrow, UnchangedSymbolsGrow
<1>2. Declaration(n) \in ConstructType /\ Declaration(n).tag = NoSymbol
  BY DeclarationOK
<1>3. open' \in Seq(ConstructType) /\ TagsOK'
  BY <1>1, <1>2, BeginTagsOK
<1> QED
  BY <1>1, <1>3, GrownIndInv DEF IndInv, TypeOK

\* What the innermost construct is while a declaration or a struct is read.
LEMMA TopOK ==
  ASSUME IndInv, Within # "top"
  PROVE  /\ open # <<>> /\ Len(open) \in 1..Len(open)
         /\ open[Len(open)] \in ConstructType
         /\ open[Len(open)].kind = Within
         /\ open[Len(open)].names \in Seq(Names)
         /\ open[Len(open)].types \in SUBSET Nat
         /\ open[Len(open)].inner \in Nat \ {0}
         /\ open[Len(open)].outer \in Nat \ {0}
<1>1. open # <<>> /\ open[Len(open)].kind = Within
  BY DEF Within
<1>2. Len(open) \in 1..Len(open) /\ open[Len(open)] \in ConstructType
  BY <1>1 DEF IndInv, TypeOK
<1> QED
  BY <1>1, <1>2 DEF ConstructType

LEMMA NextDeclaratorOK ==
  ASSUME IndInv, NEW n \in Names, NextDeclarator(n)
  PROVE  /\ open # <<>> /\ Within = "declaration"
         /\ \E names \in Seq(Names), types \in SUBSET Nat : Declare(names, types)
<1>1. open # <<>> /\ open[Len(open)].names \in Seq(Names)
  BY TopOK DEF NextDeclarator
<1>2. Append(open[Len(open)].names, n) \in Seq(Names)
  BY <1>1
<1> QED
  BY <1>1, <1>2 DEF NextDeclarator

\* A member that has a new name is added to the list.
LEMMA DeclareMemberOK ==
  ASSUME IndInv, NEW n \in Names, NEW type \in MemberTypes, DeclareMember(n, type)
  PROVE  /\ open # <<>> /\ Within = "struct"
         /\ \E names \in Seq(Names), types \in SUBSET Nat :
              /\ Declare(names, types)
              /\ \/ names = open[Len(open)].names
                 \/ /\ names = Append(open[Len(open)].names, n)
                    /\ \A k \in 1..Len(open[Len(open)].names) :
                         open[Len(open)].names[k] # n
<1> DEFINE this == open[Len(open)]
           names == IF \E k \in DOMAIN this.names : this.names[k] = n
                    THEN this.names ELSE Append(this.names, n)
           types == this.types \cup ({type} \ {NoSymbol})
<1>1. /\ open # <<>> /\ this.names \in Seq(Names) /\ this.types \in SUBSET Nat
      /\ Within = "struct" /\ Declare(names, types)
  BY TopOK, Zenon DEF DeclareMember
<1>2. names \in Seq(Names)
  <2> HIDE DEF this
  <2> QED
    BY <1>1
<1>3. types \in SUBSET Nat
  <2>1. type \in Nat
    BY DEF MemberTypes, NoSymbol, IndInv, TypeOK
  <2> HIDE DEF this
  <2> QED
    BY <1>1, <2>1
<1>4. \/ names = this.names
      \/ /\ names = Append(this.names, n)
         /\ \A k \in 1..Len(this.names) : this.names[k] # n
  <2>1. DOMAIN this.names = 1..Len(this.names)
    BY <1>1
  <2> HIDE DEF this
  <2> QED
    BY <2>1
<1> HIDE DEF names, types
<1> QED
  BY <1>1, <1>2, <1>3, <1>4

LEMMA DeclaratorIndInv ==
  ASSUME IndInv, NEW n \in Names,
         NextDeclarator(n) \/ \E type \in MemberTypes : DeclareMember(n, type)
  PROVE  IndInv'
<1>1. open # <<>> /\ \E names \in Seq(Names), types \in SUBSET Nat : Declare(names, types)
  BY NextDeclaratorOK, DeclareMemberOK
<1> QED
  BY <1>1, DeclareIndInv

LEMMA UseIdentifierIndInv ==
  ASSUME IndInv, NEW n \in Names, UseIdentifier(n)
  PROVE  IndInv'
<1> DEFINE symbol == Lookup(current, "GENERAL", n)
<1>1. CASE Fatal("undeclared")
  BY <1>1, FatalIndInv DEF Reasons
<1>2. CASE /\ symbol # NoSymbol
           /\ bound' = symbol
           /\ UNCHANGED <<sets, symbols, current, open, placed, outcome>>
  <2>1. symbol \in 0..Len(symbols)
    <3>1. current \in 1..Len(sets) /\ Len(symbols) \in Nat
      BY DEF IndInv, TypeOK
    <3> QED
      BY <1>2, <3>1, LookupOK
  <2>2. placed' \in [1..MaxSets -> [Names -> 0..2]]
    BY <1>2 DEF IndInv, TypeOK
  <2> QED
    BY <1>2, <2>1, <2>2, BindIndInv
<1> QED
  BY <1>1, <1>2 DEF UseIdentifier

LEMMA BeginFunctionIndInv ==
  ASSUME IndInv, NEW n \in Names, BeginFunction(n)
  PROVE  IndInv'
<1>1. CASE Fatal("redeclared")
  BY <1>1, FatalIndInv DEF Reasons
<1>2. CASE /\ Install(Variable(n, current))
           /\ Enter(current, "FUNCTION")
           /\ Begin(Construct("function", current, current', NoSymbol, {}))
           /\ UNCHANGED <<bound, placed, outcome>>
  <2>1. /\ current \in 1..Len(sets) /\ Len(sets) \in Nat
        /\ bound \in 0..Len(symbols) /\ Len(symbols) \in Nat
    BY DEF IndInv, TypeOK
  <2>2. /\ SetsGrow
        /\ Len(sets') = Len(sets) + 1
        /\ current' = Len(sets) + 1
    BY <1>2, <2>1, NewSetGrows DEF Enter, Scopes
  <2>3. SymbolsGrow /\ Len(symbols') = Len(symbols) + 1
    BY <1>2, <2>1, <2>2, VariableOK, NewSymbolGrows DEF Install
  <2>4. open' \in Seq(ConstructType) /\ TagsOK'
    <3>1. /\ Construct("function", current, current', NoSymbol, {})
               \in ConstructType
          /\ Construct("function", current, current', NoSymbol, {}).tag
               = NoSymbol
      BY <2>1, <2>2 DEF Construct, ConstructType, Kinds, NoSymbol
    <3> QED
      BY <1>2, <2>3, <3>1, BeginTagsOK
  <2> QED
    BY <1>2, <2>1, <2>2, <2>3, <2>4, GrownIndInv DEF IndInv, TypeOK
<1> QED
  BY <1>1, <1>2 DEF BeginFunction

LEMMA BeginStatementIndInv ==
  ASSUME IndInv, NEW kind \in {"if", "while"}, BeginStatement(kind)
  PROVE  IndInv'
<1> USE DEF BeginStatement
<1>1. /\ current \in 1..Len(sets) /\ Len(sets) \in Nat
      /\ bound \in 0..Len(symbols) /\ Len(symbols) \in Nat
  BY DEF IndInv, TypeOK
<1>2. /\ SetsGrow
      /\ Len(sets') = Len(sets) + 1
      /\ current' = Len(sets) + 1
  BY <1>1, NewSetGrows DEF Enter, Scopes
<1>3. SymbolsGrow /\ UNCHANGED symbols
  BY <1>2, UnchangedSymbolsGrow
<1>4. open' \in Seq(ConstructType) /\ TagsOK'
  <2>1. /\ Construct(kind, current, current', NoSymbol, {}) \in ConstructType
        /\ Construct(kind, current, current', NoSymbol, {}).tag = NoSymbol
    BY <1>1, <1>2 DEF Construct, ConstructType, Kinds, NoSymbol
  <2> QED
    BY <1>3, <2>1, BeginTagsOK
<1> QED
  BY <1>1, <1>2, <1>3, <1>4, GrownIndInv DEF IndInv, TypeOK

LEMMA BeginPlainIndInv == ASSUME IndInv, BeginPlain PROVE IndInv'
<1> USE DEF BeginPlain
<1>1. current \in 1..Len(sets) /\ Len(sets) \in Nat
  BY DEF IndInv, TypeOK
<1>2. SetsGrow /\ SymbolsGrow
  BY UnchangedSetsGrow, UnchangedSymbolsGrow
<1>3. open' \in Seq(ConstructType) /\ TagsOK'
  <2>1. /\ Construct("plain", current, current, NoSymbol, {}) \in ConstructType
        /\ Construct("plain", current, current, NoSymbol, {}).tag = NoSymbol
    BY <1>1 DEF Construct, ConstructType, Kinds, NoSymbol
  <2> QED
    BY <1>2, <2>1, BeginTagsOK
<1> QED
  BY <1>2, <1>3, GrownIndInv DEF IndInv, TypeOK

\* The set a parent link leads to is allocated.
LEMMA ParentOK ==
  ASSUME IndInv, NEW s \in 1..Len(sets), HasParent(s)
  PROVE  Parent(s) \in 1..Len(sets)
<1>1. sets[s] \in SetType
  BY DEF IndInv, TypeOK
<1>2. 2 \in DOMAIN sets[s].chain
  BY <1>1 DEF SetType, HasParent
<1> QED
  BY <1>2 DEF Parent, IndInv, ChainsOK

\* A construct closes and the parser may move to another allocated set.
LEMMA ClosingIndInv ==
  ASSUME IndInv, open # <<>>, End, current' \in 1..Len(sets),
         UNCHANGED <<sets, symbols, bound, placed, outcome>>
  PROVE  IndInv'
<1>1. SetsGrow /\ SymbolsGrow
  BY UnchangedSetsGrow, UnchangedSymbolsGrow
<1>2. /\ open' \in Seq(ConstructType)
      /\ Len(open') = Len(open) - 1
      /\ \A k \in 1..Len(open') : open'[k] = open[k]
  BY EndOK DEF IndInv, TypeOK
<1>3. TagsOK'
  <2>1. Len(open) \in Nat
    BY DEF IndInv, TypeOK
  <2> QED
    BY <1>1, <1>2, <2>1, KeepTagsOK
<1> QED
  BY <1>1, <1>2, <1>3, GrownIndInv DEF IndInv, TypeOK

LEMMA EndScopedIndInv == ASSUME IndInv, EndScoped PROVE IndInv'
<1>1. open # <<>>
  BY DEF EndScoped, Within
<1>2. CASE Fatal("no parent")
  BY <1>2, FatalIndInv DEF Reasons
<1>3. CASE /\ HasParent(current)
           /\ current' = Parent(current)
           /\ End
           /\ UNCHANGED <<sets, symbols, bound, placed, outcome>>
  <2>1. current' \in 1..Len(sets)
    BY <1>3, ParentOK DEF IndInv, TypeOK
  <2> QED
    BY <1>1, <1>3, <2>1, ClosingIndInv
<1> QED
  BY <1>2, <1>3 DEF EndScoped

LEMMA EndUnscopedIndInv == ASSUME IndInv, EndUnscoped PROVE IndInv'
<1>1. open # <<>>
  BY DEF EndUnscoped, Within
<1>2. current' \in 1..Len(sets)
  BY DEF EndUnscoped, IndInv, TypeOK
<1> QED
  BY <1>1, <1>2, ClosingIndInv DEF EndUnscoped

\* The ; of a declaration is an error, or what its names become.
LEMMA EndDeclarationEffect ==
  ASSUME IndInv, EndDeclaration
  PROVE  \/ Fatal("redeclared")
         \/ \E names \in Seq(Names) :
              /\ \A k \in 1..Len(names) :
                   /\ Table(current, "GENERAL", names[k]) = {}
                   /\ \A j \in 1..(k - 1) : names[j] # names[k]
              /\ symbols' = symbols \o Variables(names)
              /\ open # <<>>
              /\ Within = "declaration"
              /\ End
              /\ UNCHANGED <<sets, current, bound, placed, outcome>>
<1> DEFINE names == open[Len(open)].names
           again == \E k \in DOMAIN names : \/ Table(current, "GENERAL", names[k]) # {}
                                           \/ \E j \in 1..(k - 1) : names[j] = names[k]
<1>1. open # <<>> /\ names \in Seq(Names) /\ Within = "declaration"
  BY TopOK, Zenon DEF EndDeclaration
<1>2. CASE again
  BY <1>2, Zenon DEF EndDeclaration
<1>3. CASE ~again
  <2>1. /\ symbols' = symbols \o Variables(names) /\ End
        /\ UNCHANGED <<sets, current, bound, placed, outcome>>
    BY <1>3, Zenon DEF EndDeclaration
  <2>2. \A k \in 1..Len(names) : /\ Table(current, "GENERAL", names[k]) = {}
                                 /\ \A j \in 1..(k - 1) : names[j] # names[k]
    <3>1. DOMAIN names = 1..Len(names)
      BY <1>1
    <3> HIDE DEF names
    <3> QED
      BY <1>3, <3>1
  <2> HIDE DEF names
  <2> QED
    BY <1>1, <2>1, <2>2
<1> QED
  BY <1>2, <1>3

LEMMA BeginElseIndInv == ASSUME IndInv, BeginElse PROVE IndInv'
<1>1. CASE Fatal("no parent")
  BY <1>1, FatalIndInv DEF Reasons
<1>2. CASE /\ HasParent(current)
           /\ Enter(Parent(current), "BLOCK")
           /\ open' = [open EXCEPT ![Len(open)] =
                         Construct("else", @.outer, current', NoSymbol, {})]
           /\ UNCHANGED <<symbols, bound, placed, outcome>>
  <2>1. /\ current \in 1..Len(sets) /\ Len(sets) \in Nat
        /\ bound \in 0..Len(symbols) /\ Len(symbols) \in Nat
        /\ open \in Seq(ConstructType)
    BY DEF IndInv, TypeOK
  <2>2. Parent(current) \in 1..Len(sets)
    BY <1>2, <2>1, ParentOK
  <2>3. /\ SetsGrow
        /\ Len(sets') = Len(sets) + 1
        /\ current' = Len(sets) + 1
    BY <1>2, <2>2, NewSetGrows DEF Enter, Scopes
  <2>4. SymbolsGrow
    BY <1>2, <2>3, UnchangedSymbolsGrow
  <2>5. Len(open) \in 1..Len(open)
    <3>1. open # <<>>
      BY DEF BeginElse, Within
    <3> QED
      BY <2>1, <3>1
  <2>6. /\ open' \in Seq(ConstructType)
        /\ Len(open') = Len(open)
        /\ \A k \in 1..Len(open) :
             open'[k].tag = IF k = Len(open) THEN NoSymbol ELSE open[k].tag
    <3> DEFINE e == Construct("else", open[Len(open)].outer, current', NoSymbol, {})
    <3>1. open[Len(open)] \in ConstructType
      BY <2>1, <2>5
    <3>2. e \in ConstructType /\ e.tag = NoSymbol
      BY <2>1, <2>3, <3>1 DEF Construct, ConstructType, Kinds, NoSymbol
    <3>3. open' = [open EXCEPT ![Len(open)] = e]
      BY <1>2
    <3> HIDE DEF e
    <3> QED
      BY <2>1, <2>5, <3>2, <3>3, ExceptSeq
  <2>7. TagsOK'
    BY <2>1, <2>4, <2>6, KeepTagsOK
  <2>8. /\ current' \in 1..Len(sets') /\ bound' \in 0..Len(symbols')
        /\ placed' \in [1..MaxSets -> [Names -> 0..2]]
        /\ outcome' \in Reasons \cup {"parsing"}
    BY <1>2, <2>1, <2>3 DEF IndInv, TypeOK
  <2> QED
    BY <2>3, <2>4, <2>6, <2>7, <2>8, GrownIndInv
<1> QED
  BY <1>1, <1>2 DEF BeginElse

LEMMA GotoStatementIndInv ==
  ASSUME IndInv, NEW n \in Names, GotoStatement(n)
  PROVE  IndInv'
<1> DEFINE symbol == Lookup(current, "LABEL", n)
<1>1. /\ current \in 1..Len(sets) /\ Len(symbols) \in Nat
      /\ placed \in [1..MaxSets -> [Names -> 0..2]]
  BY DEF IndInv, TypeOK
<1>2. CASE /\ symbol # NoSymbol
           /\ bound' = symbol
           /\ UNCHANGED <<sets, symbols, current, open, placed, outcome>>
  <2>1. symbol \in 0..Len(symbols)
    BY <1>1, <1>2, LookupOK
  <2> QED
    BY <1>1, <1>2, <2>1, BindIndInv
<1>3. CASE Fatal("orphan label")
  BY <1>3, FatalIndInv DEF Reasons
<1>4. CASE /\ LabelOwner(current) # 0
           /\ Install(Label(n, FALSE))
           /\ UNCHANGED <<sets, current, open, bound, placed, outcome>>
  <2>1. SetsGrow
    BY <1>4, UnchangedSetsGrow
  <2>2. /\ Label(n, FALSE) \in SymbolType
        /\ Label(n, FALSE).owner \in 1..Len(sets)
        /\ Label(n, FALSE).ns = "LABEL"
        /\ sets[Label(n, FALSE).owner].scope = "FUNCTION"
    BY <1>4, LabelOK
  <2> QED
    BY <1>1, <1>4, <2>1, <2>2, InstallIndInv
<1> QED
  BY <1>2, <1>3, <1>4 DEF GotoStatement

\* Counting a placement keeps the counts in range; outside the table's domain
\* the EXCEPT changes nothing.
LEMMA PlacedOK ==
  ASSUME placed \in [1..MaxSets -> [Names -> 0..2]], NEW f, NEW n \in Names,
         placed' = [placed EXCEPT ![f][n] = IF @ = 2 THEN 2 ELSE @ + 1]
  PROVE  placed' \in [1..MaxSets -> [Names -> 0..2]]
<1> DEFINE count(g) == [g EXCEPT ![n] = IF @ = 2 THEN 2 ELSE @ + 1]
<1>1. \A g \in [Names -> 0..2] : count(g) \in [Names -> 0..2]
  OBVIOUS
<1>2. placed' = [placed EXCEPT ![f] = count(placed[f])]
  OBVIOUS
<1> HIDE DEF count
<1>3. CASE f \in 1..MaxSets
  BY <1>1, <1>2, <1>3
<1>4. CASE f \notin 1..MaxSets
  BY <1>2, <1>4
<1> QED
  BY <1>3, <1>4

LEMMA LabelStatementIndInv ==
  ASSUME IndInv, NEW n \in Names, NEW empty \in BOOLEAN,
         LabelStatement(n, empty)
  PROVE  IndInv'
<1> DEFINE symbol == Lookup(current, "LABEL", n)
           place == placed' = [placed EXCEPT ![Function][n] = IF @ = 2 THEN 2
                                                                     ELSE @ + 1]
<1>1. /\ current \in 1..Len(sets) /\ Len(symbols) \in Nat
      /\ placed \in [1..MaxSets -> [Names -> 0..2]]
  BY DEF IndInv, TypeOK
<1>2. place => placed' \in [1..MaxSets -> [Names -> 0..2]]
  BY <1>1, PlacedOK, Zenon
<1>3. CASE Fatal("label twice") \/ Fatal("orphan label")
  BY <1>3, FatalIndInv DEF Reasons
<1>4. CASE /\ symbol # NoSymbol
           /\ bound' = symbol
           /\ place
           /\ UNCHANGED <<sets, symbols, current, open, outcome>>
  <2>1. symbol \in 0..Len(symbols)
    BY <1>1, <1>4, LookupOK
  <2> QED
    BY <1>1, <1>2, <1>4, <2>1, BindIndInv
<1>5. CASE /\ LabelOwner(current) # 0
           /\ Install(Label(n, ~empty))
           /\ place
           /\ UNCHANGED <<sets, current, open, bound, outcome>>
  <2>1. SetsGrow
    BY <1>5, UnchangedSetsGrow
  <2>2. /\ Label(n, ~empty) \in SymbolType
        /\ Label(n, ~empty).owner \in 1..Len(sets)
        /\ Label(n, ~empty).ns = "LABEL"
        /\ sets[Label(n, ~empty).owner].scope = "FUNCTION"
    BY <1>5, LabelOK
  <2>3. /\ Label(n, ~empty).owner \in 1..Len(sets')
        /\ sets'[Label(n, ~empty).owner].scope = "FUNCTION"
    BY <1>5, <2>2
  <2> QED
    BY <1>2, <1>5, <2>1, <2>2, <2>3, InstallIndInv
<1> QED
  BY <1>3, <1>4, <1>5 DEF LabelStatement

LEMMA TagReferenceIndInv ==
  ASSUME IndInv, NEW t \in Names, TagReference(t)
  PROVE  IndInv'
<1> DEFINE symbol == Lookup(current, "TAG", t)
<1>1. /\ current \in 1..Len(sets) /\ Len(symbols) \in Nat /\ Len(sets) \in Nat
      /\ placed \in [1..MaxSets -> [Names -> 0..2]]
  BY DEF IndInv, TypeOK
<1>2. CASE /\ symbol # NoSymbol
           /\ bound' = symbol
           /\ UNCHANGED <<sets, symbols, current, open, placed, outcome>>
  <2>1. symbol \in 0..Len(symbols)
    BY <1>1, <1>2, LookupOK
  <2> QED
    BY <1>1, <1>2, <2>1, BindIndInv
<1>3. CASE /\ sets' = Append(sets, NewSet(current, "STRUCT_OR_UNION"))
           /\ Install(Tag(t, Len(sets) + 1))
           /\ bound' = Len(symbols) + 1
           /\ UNCHANGED <<current, open, placed, outcome>>
  <2>1. SetsGrow /\ Len(sets') = Len(sets) + 1
    BY <1>1, <1>3, NewSetGrows DEF Scopes
  <2>2. /\ Tag(t, Len(sets) + 1) \in SymbolType
        /\ Tag(t, Len(sets) + 1).owner = current
        /\ Tag(t, Len(sets) + 1).ns = "TAG"
        /\ Tag(t, Len(sets) + 1).tset = Len(sets) + 1
    BY <1>1, TagOK
  <2> QED
    BY <1>1, <1>3, <2>1, <2>2, InstallIndInv
<1> QED
  BY <1>2, <1>3 DEF TagReference

LEMMA BeginTaggedIndInv ==
  ASSUME IndInv, NEW t \in Names, BeginTagged(t)
  PROVE  IndInv'
<1> DEFINE symbol == Lookup(current, "TAG", t)
           tset == symbols[symbol].tset
           known == Construct("struct", current, tset, symbol, {})
           new == Construct("struct", current, current', Len(symbols) + 1, {"fresh"})
<1>1. /\ current \in 1..Len(sets) /\ Len(symbols) \in Nat /\ Len(sets) \in Nat
      /\ placed \in [1..MaxSets -> [Names -> 0..2]]
      /\ outcome \in Reasons \cup {"parsing"}
  BY DEF IndInv, TypeOK
<1>2. CASE /\ symbol # NoSymbol
           /\ current' = tset
           /\ Begin(known)
           /\ bound' = symbol
           /\ UNCHANGED <<sets, symbols, placed, outcome>>
  <2>1. symbol \in 1..Len(symbols) /\ symbols[symbol].ns = "TAG"
    BY <1>1, <1>2, LookupOK
  <2>2. tset \in 1..Len(sets)
    BY <2>1 DEF IndInv, OwnersOK
  <2>3. SetsGrow /\ SymbolsGrow
    BY <1>2, UnchangedSetsGrow, UnchangedSymbolsGrow
  <2>4. known \in ConstructType /\ known.tag = symbol
    BY <1>1, <2>1, <2>2 DEF Construct, ConstructType, Kinds
  <2>5. open' \in Seq(ConstructType) /\ TagsOK'
    <3> HIDE DEF known, symbol
    <3> QED
      BY <1>2, <2>1, <2>3, <2>4, BeginTagsOK
  <2>6. /\ current' \in 1..Len(sets') /\ bound' \in 0..Len(symbols')
        /\ placed' \in [1..MaxSets -> [Names -> 0..2]]
        /\ outcome' \in Reasons \cup {"parsing"}
    <3> HIDE DEF symbol, tset
    <3> QED
      BY <1>1, <1>2, <2>1, <2>2
  <2> QED
    BY <2>3, <2>5, <2>6, GrownIndInv
<1>3. CASE /\ Enter(current, "STRUCT_OR_UNION")
           /\ Install(Tag(t, current'))
           /\ Begin(new)
           /\ bound' = Len(symbols) + 1
           /\ UNCHANGED <<placed, outcome>>
  <2>1. /\ SetsGrow
        /\ Len(sets') = Len(sets) + 1
        /\ current' = Len(sets) + 1
    BY <1>1, <1>3, NewSetGrows DEF Enter, Scopes
  <2>2. /\ Tag(t, current') \in SymbolType
        /\ Tag(t, current').owner = current
        /\ Tag(t, current').ns = "TAG"
        /\ Tag(t, current').tset = current'
    BY <1>1, <2>1, TagOK
  <2>3. /\ SymbolsGrow
        /\ Len(symbols') = Len(symbols) + 1
        /\ symbols'[Len(symbols) + 1].ns = "TAG"
    <3> DEFINE x == Tag(t, current')
    <3>1. symbols' = Append(symbols, x) /\ symbols \in Seq(SymbolType)
      BY <1>3 DEF Install, IndInv, TypeOK
    <3>2. x \in SymbolType /\ x.owner \in 1..Len(sets') /\ x.ns = "TAG"
          /\ x.tset \in 1..Len(sets')
      BY <1>1, <2>1, <2>2
    <3> HIDE DEF x
    <3>3. SymbolsGrow /\ Len(symbols') = Len(symbols) + 1
      BY <2>1, <3>1, <3>2, NewSymbolGrows
    <3> QED
      BY <3>1, <3>2, <3>3, InstallOK
  <2>4. new \in ConstructType /\ new.tag = Len(symbols) + 1
    BY <1>1, <2>1 DEF Construct, ConstructType, Kinds
  <2>5. open' \in Seq(ConstructType) /\ TagsOK'
    <3>1. new.tag \in 1..Len(symbols') /\ symbols'[new.tag].ns = "TAG"
      BY <1>1, <2>3, <2>4
    <3> HIDE DEF new
    <3> QED
      BY <1>3, <2>3, <2>4, <3>1, BeginTagsOK
  <2>6. /\ current' \in 1..Len(sets') /\ bound' \in 0..Len(symbols')
        /\ placed' \in [1..MaxSets -> [Names -> 0..2]]
        /\ outcome' \in Reasons \cup {"parsing"}
    BY <1>1, <1>3, <2>1, <2>3
  <2> QED
    BY <2>1, <2>3, <2>5, <2>6, GrownIndInv
<1> QED
  BY <1>2, <1>3 DEF BeginTagged

LEMMA BeginAnonymousIndInv == ASSUME IndInv, BeginAnonymous PROVE IndInv'
<1> USE DEF BeginAnonymous
<1>1. /\ current \in 1..Len(sets) /\ Len(sets) \in Nat
      /\ bound \in 0..Len(symbols) /\ Len(symbols) \in Nat
  BY DEF IndInv, TypeOK
<1>2. /\ SetsGrow
      /\ Len(sets') = Len(sets) + 1
      /\ current' = Len(sets) + 1
  BY <1>1, NewSetGrows DEF Enter, Scopes
<1>3. SymbolsGrow /\ UNCHANGED symbols
  BY <1>2, UnchangedSymbolsGrow
<1>4. open' \in Seq(ConstructType) /\ TagsOK'
  <2> DEFINE c == Construct("struct", current, current', NoSymbol, {"fresh"})
  <2>1. c \in ConstructType /\ c.tag = NoSymbol
    BY <1>1, <1>2 DEF Construct, ConstructType, Kinds, NoSymbol
  <2>2. Begin(c)
    OBVIOUS
  <2> HIDE DEF c
  <2> QED
    BY <1>3, <2>1, <2>2, BeginTagsOK
<1> QED
  BY <1>1, <1>2, <1>3, <1>4, GrownIndInv DEF IndInv, TypeOK

LEMMA GotoNodeLostIndInv == IndInv /\ GotoNodeLost => IndInv'
  BY FatalIndInv DEF GotoNodeLost, Reasons

LEMMA EndStructCrashIndInv == IndInv /\ EndStructCrash => IndInv'
  BY FatalIndInv DEF EndStructCrash, Reasons

\* The symbols once the definition of tag t has completed it.
Complete(t, tset, names) ==
  [symbols EXCEPT ![t] = Completed(symbols[t], tset, names)]

\* What a definition leaves of the symbols: their number, names, namespaces and
\* owners, and tag types that are allocated.
DoneOK(done) ==
  /\ done \in Seq(SymbolType)
  /\ Len(done) = Len(symbols)
  /\ \A i \in 1..Len(symbols) :
       /\ done[i].name = symbols[i].name
       /\ done[i].ns = symbols[i].ns
       /\ done[i].owner = symbols[i].owner
       /\ done[i].ns = "TAG" => done[i].tset \in 1..Len(sets')

LEMMA SameDone == ASSUME IndInv, SetsGrow PROVE DoneOK(symbols)
<1>1. Len(sets) \in Nat /\ Len(sets') \in Nat /\ Len(sets') >= Len(sets)
  BY DEF IndInv, TypeOK, SetsGrow
<1>2. symbols \in Seq(SymbolType)
  BY DEF IndInv, TypeOK
<1>3. \A i \in 1..Len(symbols) :
        symbols[i].ns = "TAG" => symbols[i].tset \in 1..Len(sets)
  BY DEF IndInv, OwnersOK
<1> QED
  BY <1>1, <1>2, <1>3 DEF DoneOK

LEMMA CompleteOK ==
  ASSUME IndInv, SetsGrow, NEW t \in 1..Len(symbols), NEW tset \in 1..Len(sets'),
         NEW names \in SUBSET Names
  PROVE  /\ DoneOK(Complete(t, tset, names))
         /\ \A i \in 1..Len(symbols) :
              Complete(t, tset, names)[i] = IF i = t THEN Completed(symbols[t], tset, names)
                                                    ELSE symbols[i]
<1> DEFINE x == symbols[t]
           e == Completed(x, tset, names)
           done == Complete(t, tset, names)
<1>1. /\ symbols \in Seq(SymbolType) /\ Len(symbols) \in Nat
      /\ Len(sets) \in Nat /\ x \in SymbolType
      /\ Len(sets') \in Nat /\ Len(sets') >= Len(sets)
  BY DEF IndInv, TypeOK, SetsGrow
<1>2. \A i \in 1..Len(symbols) :
        symbols[i].ns = "TAG" => symbols[i].tset \in 1..Len(sets)
  BY DEF IndInv, OwnersOK
<1>4. /\ e \in SymbolType /\ e.name = x.name /\ e.ns = x.ns
      /\ e.owner = x.owner /\ e.tset = tset
  <2> HIDE DEF x
  <2>1. tset \in Nat
    BY <1>1
  <2> QED
    BY <1>1, <2>1 DEF Completed, SymbolType
<1>5. done = [symbols EXCEPT ![t] = e]
  BY DEF Complete
<1>6. /\ done \in Seq(SymbolType)
      /\ Len(done) = Len(symbols)
      /\ \A i \in 1..Len(symbols) : done[i] = IF i = t THEN e ELSE symbols[i]
  <2> HIDE DEF e, done
  <2> QED
    BY <1>1, <1>4, <1>5, ExceptSeq
<1> HIDE DEF e, done
<1>7. DoneOK(done)
  BY <1>1, <1>2, <1>4, <1>6 DEF DoneOK
<1> QED
  BY <1>6, <1>7 DEF done, e

\* The symbols after a definition has completed its tag, or a declaration has
\* not, and names were installed in one set.
LEMMA DefinitionGrows ==
  ASSUME IndInv, SetsGrow, NEW done, DoneOK(done), NEW names \in Seq(Names),
         NEW s \in 1..Len(sets'), NEW more, Declares(more, names, s),
         symbols' = done \o more
  PROVE  SymbolsGrow /\ Len(symbols') = Len(symbols) + Len(names)
<1>1. /\ Len(symbols) \in Nat /\ DOMAIN symbols = 1..Len(symbols)
      /\ Len(names) \in Nat
      /\ Len(sets) \in Nat /\ Len(sets') \in Nat /\ Len(sets') >= Len(sets)
      /\ \A i \in 1..Len(symbols) : symbols[i].owner \in 1..Len(sets)
  BY DEF IndInv, TypeOK, OwnersOK, SetsGrow
<1>2. /\ symbols' \in Seq(SymbolType)
      /\ Len(symbols') = Len(symbols) + Len(names)
      /\ \A i \in 1..Len(symbols) : symbols'[i] = done[i]
      /\ \A i \in (Len(symbols) + 1)..Len(symbols') :
           symbols'[i].ns = "GENERAL" /\ symbols'[i].owner = s
  <2>1. done \in Seq(SymbolType) /\ Len(done) = Len(symbols)
    BY DEF DoneOK
  <2>2. Grown(done, more, names, s)
    BY <2>1, DeclaredOK
  <2> QED
    BY ONLY <2>1, <2>2 DEF Grown
<1>3. \A i \in 1..Len(symbols) :
        /\ symbols'[i].ns = symbols[i].ns
        /\ symbols'[i].owner = symbols[i].owner
        /\ symbols'[i].ns = "TAG" => symbols'[i].tset \in 1..Len(sets')
  BY <1>2 DEF DoneOK
<1>4. \A i \in 1..Len(symbols') :
        i \in 1..Len(symbols) \/ i \in (Len(symbols) + 1)..Len(symbols')
  BY <1>1
<1>5. OwnersOK'
  <2> SUFFICES ASSUME NEW i \in 1..Len(symbols')
               PROVE  /\ symbols'[i].owner \in 1..Len(sets')
                      /\ symbols'[i].ns = "TAG" =>
                           symbols'[i].tset \in 1..Len(sets')
    BY DEF OwnersOK
  <2>1. CASE i \in 1..Len(symbols)
    <3>1. symbols[i].owner \in 1..Len(sets')
      BY ONLY <1>1, <2>1
    <3> QED
      BY <1>3, <2>1, <3>1
  <2>2. CASE i \in (Len(symbols) + 1)..Len(symbols')
    BY <1>2, <2>2
  <2> QED
    BY <1>4, <2>1, <2>2
<1>6. LabelsInFunctionScope'
  <2> SUFFICES ASSUME NEW i \in 1..Len(symbols'), symbols'[i].ns = "LABEL"
               PROVE  sets'[symbols'[i].owner].scope = "FUNCTION"
    BY <1>2 DEF LabelsInFunctionScope
  <2>1. i \in 1..Len(symbols)
    BY <1>2, <1>4
  <2>2. sets[symbols[i].owner].scope = "FUNCTION"
    BY <1>1, <1>3, <2>1 DEF IndInv, LabelsInFunctionScope
  <2> QED
    BY <1>1, <1>3, <2>1, <2>2 DEF SetsGrow
<1>7. Len(symbols') >= Len(symbols)
  BY <1>1, <1>2
<1> QED
  BY <1>2, <1>3, <1>5, <1>6, <1>7 DEF SymbolsGrow

LEMMA EndDeclarationIndInv == ASSUME IndInv, EndDeclaration PROVE IndInv'
<1>1. CASE Fatal("redeclared")
  BY <1>1, FatalIndInv DEF Reasons
<1>2. ASSUME NEW names \in Seq(Names), open # <<>>, End,
             symbols' = symbols \o Variables(names),
             UNCHANGED <<sets, current, bound, placed, outcome>>
      PROVE  IndInv'
  <2>1. SetsGrow /\ current \in 1..Len(sets')
    BY <1>2, UnchangedSetsGrow DEF IndInv, TypeOK
  <2>2. SymbolsGrow /\ Len(symbols') = Len(symbols) + Len(names)
    BY <1>2, <2>1, SameDone, VariablesOK, DefinitionGrows
  <2>3. /\ open' \in Seq(ConstructType)
        /\ Len(open') = Len(open) - 1
        /\ \A k \in 1..Len(open') : open'[k] = open[k]
    BY <1>2, EndOK DEF IndInv, TypeOK
  <2>4. TagsOK'
    <3>1. Len(open) \in Nat
      BY DEF IndInv, TypeOK
    <3> QED
      BY <2>2, <2>3, <3>1, KeepTagsOK
  <2>5. bound' \in 0..Len(symbols')
    <3>1. bound \in 0..Len(symbols) /\ Len(symbols) \in Nat /\ Len(names) \in Nat
      BY DEF IndInv, TypeOK
    <3> QED
      BY <1>2, <2>2, <3>1
  <2>6. /\ placed' \in [1..MaxSets -> [Names -> 0..2]]
        /\ outcome' \in Reasons \cup {"parsing"}
        /\ current' \in 1..Len(sets')
    BY <1>2, <2>1 DEF IndInv, TypeOK
  <2> QED
    BY <2>1, <2>2, <2>3, <2>4, <2>5, <2>6, GrownIndInv
<1> QED
  BY <1>1, <1>2, EndDeclarationEffect

\* The first n elements of a sequence.
LEMMA PrefixOK ==
  ASSUME NEW S, NEW s \in Seq(S), NEW n \in 0..Len(s)
  PROVE  /\ SubSeq(s, 1, n) \in Seq(S)
         /\ Len(SubSeq(s, 1, n)) = n
         /\ \A k \in 1..n : SubSeq(s, 1, n)[k] = s[k]
<1>1. n \in Int /\ 1 \in Int /\ \A i \in 1..n : s[i] \in S
  OBVIOUS
<1> DEFINE t == SubSeq(s, 1, n)
<1>2. /\ t \in Seq(S)
      /\ Len(t) = IF 1 <= n THEN n - 1 + 1 ELSE 0
      /\ \A i \in 1..n - 1 + 1 : t[i] = s[1 + i - 1]
  BY <1>1, SubSeqProperties
<1> HIDE DEF t
<1>3. \A k \in 1..n : t[k] = s[k]
  <2> SUFFICES ASSUME NEW k \in 1..n PROVE t[k] = s[k]
    OBVIOUS
  <2>1. k \in 1..n - 1 + 1 /\ 1 + k - 1 = k
    OBVIOUS
  <2> QED
    BY <1>2, <2>1
<1> QED
  BY <1>2, <1>3 DEF t

\* Closing a struct keeps the tags of the constructs around it.
LEMMA EndInnerOK ==
  ASSUME IndInv, open # <<>>, NEW tag, EndInner(tag)
  PROVE  /\ open' \in Seq(ConstructType)
         /\ Len(open') <= Len(open)
         /\ \A k \in 1..Len(open') : open'[k].tag \in {open[k].tag, NoSymbol}
<1> DEFINE outer == Len(open) - 1
           rest == SubSeq(open, 1, outer)
           around == rest[outer]
           e == [around EXCEPT !.flags = @ \cup {"anonymous"}]
<1>1. open \in Seq(ConstructType) /\ Len(open) \in Nat \ {0} /\ outer \in Nat
  BY DEF IndInv, TypeOK
<1>2. /\ rest \in Seq(ConstructType)
      /\ Len(rest) = outer
      /\ \A k \in 1..outer : rest[k] = open[k]
  <2>1. outer \in 0..Len(open)
    BY <1>1
  <2> HIDE DEF outer
  <2> QED
    BY <1>1, <2>1, PrefixOK
<1>3. CASE open' = rest
  <2> HIDE DEF rest
  <2> QED
    BY <1>1, <1>2, <1>3
<1>4. CASE outer > 0 /\ open' = [rest EXCEPT ![outer].flags = @ \cup {"anonymous"}]
  <2>1. outer \in 1..Len(rest) /\ around \in ConstructType
    <3> HIDE DEF rest
    <3> QED
      BY <1>1, <1>2, <1>4
  <2>2. e \in ConstructType /\ e.tag = around.tag
    <3> HIDE DEF around
    <3> QED
      BY <2>1 DEF ConstructType
  <2>4. open' = [rest EXCEPT ![outer] = e]
    BY <1>4, Zenon
  <2>3. /\ open' \in Seq(ConstructType)
        /\ Len(open') = Len(rest)
        /\ \A k \in 1..Len(rest) : open'[k] = IF k = outer THEN e ELSE rest[k]
    <3> HIDE DEF e, rest, outer
    <3> QED
      BY <1>2, <2>1, <2>2, <2>4, ExceptSeq
  <2> HIDE DEF e, rest
  <2> QED
    BY <1>1, <1>2, <2>2, <2>3
<1> QED
  BY <1>3, <1>4, Zenon DEF EndInner

\* The } of a struct is an error, or the completion of its tag and a set for
\* its members.
Redefines == open[Len(open)].tag # NoSymbol /\ symbols[open[Len(open)].tag].defined

EndedTset ==
  IF "fresh" \in open[Len(open)].flags THEN Len(sets) + 1
                                       ELSE symbols[open[Len(open)].tag].tset

MemberNames == {open[Len(open)].names[k] : k \in DOMAIN open[Len(open)].names}

StructDone ==
  IF open[Len(open)].tag = NoSymbol THEN symbols
  ELSE Complete(open[Len(open)].tag, EndedTset, MemberNames)

StructDefined ==
  /\ HasParent(current)
  /\ ~Redefines
  /\ sets' = Append(sets, NewSet(Parent(current), "STRUCT_OR_UNION"))
  /\ Len(sets) < MaxSets
  /\ symbols' = StructDone \o Members(open[Len(open)].names, Len(sets) + 1)
  /\ current' = Parent(current)
  /\ EndInner(open[Len(open)].tag)
  /\ UNCHANGED <<bound, placed, outcome>>

LEMMA EndStructCases ==
  ASSUME IndInv, EndStruct
  PROVE  /\ Within = "struct" /\ open # <<>>
         /\ \/ \E reason \in {"no parent", "tag redefined", "incomplete member"} :
                 Fatal(reason)
            \/ StructDefined
<1> DEFINE this == open[Len(open)]
           members == Len(sets) + 1
           redefined == this.tag # NoSymbol /\ symbols[this.tag].defined
           incomplete == \E type \in this.types : ~symbols[type].defined
           complete == IF this.tag = NoSymbol THEN symbols
                       ELSE [symbols EXCEPT ![this.tag] =
                               Completed(@, IF "fresh" \in this.flags THEN members
                                                                      ELSE @.tset,
                                         {this.names[k] : k \in DOMAIN this.names})]
<1>1. Within = "struct"
  BY Zenon DEF EndStruct
<1>2. open # <<>>
  BY <1>1 DEF Within
<1>3. \/ ~HasParent(current) /\ Fatal("no parent")
      \/ HasParent(current) /\ redefined /\ Fatal("tag redefined")
      \/ /\ HasParent(current) /\ ~redefined
         /\ incomplete
         /\ Fatal("incomplete member")
      \/ /\ HasParent(current) /\ ~redefined /\ ~incomplete
         /\ Len(sets) < MaxSets
         /\ sets' = Append(sets, NewSet(Parent(current), "STRUCT_OR_UNION"))
         /\ Len(symbols) + Len(this.names) <= MaxSymbols
         /\ symbols' = complete \o Members(this.names, members)
         /\ current' = Parent(current)
         /\ EndInner(this.tag)
         /\ UNCHANGED <<bound, placed, outcome>>
  BY Zenon DEF EndStruct
<1>4. complete = StructDone
  BY Zenon DEF StructDone, Complete, EndedTset, MemberNames
<1>5. redefined <=> Redefines
  BY DEF Redefines
<1> HIDE DEF complete, redefined, incomplete
<1> QED
  BY <1>1, <1>2, <1>3, <1>4, <1>5, Zenon DEF StructDefined

LEMMA StructDoneOK ==
  ASSUME IndInv, SetsGrow, Within = "struct", Len(sets') = Len(sets) + 1
  PROVE  /\ DoneOK(StructDone)
         /\ open[Len(open)].names \in Seq(Names)
         /\ MemberNames \in SUBSET Names
         /\ open[Len(open)].tag # NoSymbol =>
              /\ open[Len(open)].tag \in 1..Len(symbols)
              /\ symbols[open[Len(open)].tag].ns = "TAG"
              /\ EndedTset \in 1..Len(sets')
<1> DEFINE this == open[Len(open)]
<1>1. /\ open # <<>> /\ Len(open) \in 1..Len(open)
      /\ this.names \in Seq(Names)
  BY TopOK
<1>2. MemberNames \in SUBSET Names
  <2>1. MemberNames = {this.names[k] : k \in DOMAIN this.names}
    BY DEF MemberNames
  <2> HIDE DEF this
  <2> QED
    BY <1>1, <2>1
<1>3. CASE this.tag = NoSymbol
  BY <1>1, <1>2, <1>3, SameDone DEF StructDone
<1>4. CASE this.tag # NoSymbol
  <2>1. /\ this.tag \in 1..Len(symbols)
        /\ symbols[this.tag].ns = "TAG"
    BY <1>1, <1>4 DEF IndInv, TagsOK
  <2>2. symbols[this.tag].tset \in 1..Len(sets) /\ Len(sets) \in Nat
    BY <2>1 DEF IndInv, OwnersOK, TypeOK
  <2>3. EndedTset \in 1..Len(sets')
    <3>1. EndedTset \in {Len(sets) + 1, symbols[this.tag].tset}
      BY DEF EndedTset
    <3> HIDE DEF this
    <3> QED
      BY <2>2, <3>1
  <2>4. StructDone = Complete(this.tag, EndedTset, MemberNames)
    BY <1>4 DEF StructDone
  <2>5. DoneOK(StructDone)
    <3> HIDE DEF this
    <3> QED
      BY <1>2, <2>1, <2>3, <2>4, CompleteOK
  <2> QED
    BY <1>1, <1>2, <2>1, <2>3, <2>5
<1> QED
  BY <1>3, <1>4

LEMMA EndStructIndInv == ASSUME IndInv, EndStruct PROVE IndInv'
<1>1. Within = "struct" /\ open # <<>>
  BY EndStructCases
<1>2. CASE \E reason \in {"no parent", "tag redefined", "incomplete member"} :
             Fatal(reason)
  BY <1>2, FatalIndInv DEF Reasons
<1>3. CASE StructDefined
  <2> DEFINE this == open[Len(open)]
  <2>1. /\ current \in 1..Len(sets) /\ Len(sets) \in Nat
        /\ Len(symbols) \in Nat /\ bound \in 0..Len(symbols)
        /\ placed \in [1..MaxSets -> [Names -> 0..2]]
        /\ outcome \in Reasons \cup {"parsing"}
    BY DEF IndInv, TypeOK
  <2>2. Parent(current) \in 1..Len(sets)
    BY <1>3, <2>1, ParentOK DEF StructDefined
  <2>3. SetsGrow /\ Len(sets') = Len(sets) + 1
    BY <1>3, <2>2, NewSetGrows DEF Scopes, StructDefined
  <2>4. DoneOK(StructDone) /\ this.names \in Seq(Names)
    BY <1>1, <2>3, StructDoneOK
  <2>5. Declares(Members(this.names, Len(sets) + 1), this.names, Len(sets) + 1)
    <3>1. Len(sets) + 1 \in Nat \ {0}
      BY <2>1
    <3> HIDE DEF this
    <3> QED
      BY <2>4, <3>1, MembersOK
  <2>6. SymbolsGrow /\ Len(symbols') = Len(symbols) + Len(this.names)
    <3>1. symbols' = StructDone \o Members(this.names, Len(sets) + 1)
      BY <1>3 DEF StructDefined
    <3>2. Len(sets) + 1 \in 1..Len(sets')
      BY <2>1, <2>3
    <3> HIDE DEF this
    <3> QED
      BY <2>3, <2>4, <2>5, <3>1, <3>2, DefinitionGrows
  <2>7. open' \in Seq(ConstructType) /\ TagsOK'
    <3>1. EndInner(this.tag)
      BY <1>3 DEF StructDefined
    <3> HIDE DEF this
    <3> QED
      BY <1>1, <2>6, <3>1, EndInnerOK, KeepTagsOK
  <2>8. /\ current' \in 1..Len(sets') /\ bound' \in 0..Len(symbols')
        /\ placed' \in [1..MaxSets -> [Names -> 0..2]]
        /\ outcome' \in Reasons \cup {"parsing"}
    <3>1. /\ current' = Parent(current) /\ bound' = bound
          /\ placed' = placed /\ outcome' = outcome
      BY <1>3 DEF StructDefined
    <3>2. Len(this.names) \in Nat
      BY <2>4
    <3> HIDE DEF this
    <3> QED
      BY <2>1, <2>2, <2>3, <2>6, <3>1, <3>2
  <2> QED
    BY <2>3, <2>6, <2>7, <2>8, GrownIndInv
<1> QED
  BY <1>2, <1>3, EndStructCases

-----------------------------------------------------------------------------
LEMMA NextIndInv == IndInv /\ [Next]_vars => IndInv'
<1> SUFFICES ASSUME IndInv, [Next]_vars PROVE IndInv'
  OBVIOUS
<1>1. ASSUME NEW n \in Names, BeginDeclaration(n) PROVE IndInv'
  BY <1>1, BeginDeclarationIndInv
<1>2. ASSUME NEW n \in Names, UseIdentifier(n) PROVE IndInv'
  BY <1>2, UseIdentifierIndInv
<1>3. ASSUME NEW n \in Names, BeginFunction(n) PROVE IndInv'
  BY <1>3, BeginFunctionIndInv
<1>4. ASSUME NEW n \in Names, GotoStatement(n) PROVE IndInv'
  BY <1>4, GotoStatementIndInv
<1>5. ASSUME NEW n \in Names, NEW empty \in BOOLEAN, LabelStatement(n, empty)
      PROVE IndInv'
  BY <1>5, LabelStatementIndInv
<1>6. ASSUME NEW n \in Names, TagReference(n) PROVE IndInv'
  BY <1>6, TagReferenceIndInv
<1>7. ASSUME NEW n \in Names, BeginTagged(n) PROVE IndInv'
  BY <1>7, BeginTaggedIndInv
<1>8. CASE EndStruct
  BY <1>8, EndStructIndInv
<1>9. ASSUME NEW kind \in {"if", "while"}, BeginStatement(kind) PROVE IndInv'
  BY <1>9, BeginStatementIndInv
<1>10. CASE BeginPlain
  BY <1>10, BeginPlainIndInv
<1>11. CASE EndScoped
  BY <1>11, EndScopedIndInv
<1>12. CASE EndUnscoped
  BY <1>12, EndUnscopedIndInv
<1>13. CASE BeginElse
  BY <1>13, BeginElseIndInv
<1>14. CASE GotoNodeLost
  BY <1>14, GotoNodeLostIndInv
<1>15. CASE BeginAnonymous
  BY <1>15, BeginAnonymousIndInv
<1>16. CASE EndStructCrash
  BY <1>16, EndStructCrashIndInv
<1>18. ASSUME NEW n \in Names,
              NextDeclarator(n) \/ \E type \in MemberTypes : DeclareMember(n, type)
       PROVE  IndInv'
  BY <1>18, DeclaratorIndInv
<1>19. CASE EndDeclaration
  BY <1>19, EndDeclarationIndInv
<1>17. CASE UNCHANGED vars
  BY <1>17, StutterIndInv
<1> QED
  BY <1>1, <1>2, <1>3, <1>4, <1>5, <1>6, <1>7, <1>8, <1>9, <1>10, <1>11,
     <1>12, <1>13, <1>14, <1>15, <1>16, <1>17, <1>18, <1>19,
     Zenon DEF Next

LEMMA Invariance == Spec => []IndInv
<1> QED
  BY InitIndInv, NextIndInv, PTL DEF Spec

(* Every index into the tables stays inside them, whatever the program and
   whatever the grammar actions do to the current set. *)
THEOREM TypeCorrect == Spec => []TypeOK
<1>1. IndInv => TypeOK
  BY DEF IndInv
<1> QED
  BY <1>1, Invariance, PTL

-----------------------------------------------------------------------------
(***************************************************************************)
(* How scopes nest: what current_symbol_table and the parent_scope links   *)
(* are while constructs open and close, and what follows for the names.    *)
(***************************************************************************)
-----------------------------------------------------------------------------
(* The inductive invariant, whatever constructs the program uses.           *)
IsStruct(s) == sets[s].scope = "STRUCT_OR_UNION"

\* A chain starts at its set and climbs to older ones.  Functions and blocks
\* never hang below a struct.
SetOK(s) ==
  /\ sets[s].chain[1] = s
  /\ \A i, j \in DOMAIN sets[s].chain : i < j => sets[s].chain[j] < sets[s].chain[i]
  /\ s = Global <=> ~HasParent(s)
  /\ s = Global <=> sets[s].scope = "GLOBAL"
  /\ ~IsStruct(s) => \A k \in DOMAIN sets[s].chain : ~IsStruct(sets[s].chain[k])

SetsOK == \A s \in 1..Len(sets) : SetOK(s)

\* Inside a struct the current set is the struct's, elsewhere it is no struct's.
CurrentOK == IF Within = "struct" THEN current = open[Len(open)].inner
                                  ELSE ~IsStruct(current)

\* The names of a list differ.
Distinct(names) ==
  \A k \in 1..Len(names) : \A j \in 1..(k - 1) : names[j] # names[k]

\* A struct's set hangs below the one of the struct around it, or below no
\* struct's at all, where its tag is.
StructOK(k) ==
  open[k].kind = "struct" =>
    /\ open[k].inner \in 1..Len(sets) /\ IsStruct(open[k].inner)
    /\ IF k > 1 /\ open[k - 1].kind = "struct"
       THEN Parent(open[k].inner) = open[k - 1].inner
       ELSE ~IsStruct(Parent(open[k].inner))
    /\ open[k].tag # NoSymbol => symbols[open[k].tag].owner = Parent(open[k].inner)
    /\ Distinct(open[k].names)

\* Only structs nest in structs.
StructsOK ==
  /\ \A k \in 1..Len(open) : StructOK(k)
  /\ \A k \in 2..Len(open) : open[k - 1].kind = "struct" => open[k].kind = "struct"

\* The set of a tag's type hangs below the set the tag is in.
TagSetOK(i) ==
  symbols[i].ns = "TAG" => /\ IsStruct(symbols[i].tset)
                           /\ Parent(symbols[i].tset) = symbols[i].owner

TagSetsOK == \A i \in 1..Len(symbols) : TagSetOK(i)

NestInv == SetsOK /\ CurrentOK /\ StructsOK /\ TagSetsOK /\ UniqueNames

-----------------------------------------------------------------------------
(* Lookups.                                                                 *)
Hits(s, ns, n) == {k \in Visited(s) : Table(sets[s].chain[k], ns, n) # {}}

\* A lookup that misses has missed in every table it visited.
LEMMA LookupMisses ==
  ASSUME NEW s, NEW ns, NEW n, Hits(s, ns, n) = {}
  PROVE  Lookup(s, ns, n) = NoSymbol
BY DEF Lookup, Hits

\* One that hits finds the newest symbol of the innermost table with the name.
LEMMA LookupHits ==
  ASSUME IndInv, NEW s \in 1..Len(sets), NEW ns, NEW n, Hits(s, ns, n) # {}
  PROVE  /\ Lookup(s, ns, n) # NoSymbol
         /\ \E k \in Hits(s, ns, n) :
              /\ \A j \in Hits(s, ns, n) : k <= j
              /\ Lookup(s, ns, n) \in Table(sets[s].chain[k], ns, n)
<1> DEFINE hits == {k \in Visited(s) : Table(sets[s].chain[k], ns, n) # {}}
           first == CHOOSE k \in hits : \A j \in hits : k <= j
           ids == Table(sets[s].chain[first], ns, n)
<1>1. hits # {} /\ hits = Hits(s, ns, n) /\ Lookup(s, ns, n) = Newest(ids)
  BY DEF Lookup, Hits
<1>2. hits \subseteq Nat
  BY ChainDomain DEF Visited
<1>3. first \in hits /\ \A j \in hits : first <= j
  <2> HIDE DEF hits
  <2>1. \E k \in hits : \A j \in hits : k <= j
    BY <1>1, <1>2, NatMin
  <2> QED
    BY <2>1
<1>4. ids # {} /\ ids \subseteq 1..Len(symbols)
  <2>1. ids # {}
    <3> HIDE DEF first
    <3> QED
      BY <1>3
  <2>2. DOMAIN symbols = 1..Len(symbols)
    BY DEF IndInv, TypeOK
  <2> QED
    BY <2>1, <2>2 DEF Table
<1>5. Newest(ids) \in ids
  <2> HIDE DEF ids
  <2>1. Len(symbols) \in Nat /\ ids \subseteq 0..Len(symbols)
    BY <1>4 DEF IndInv, TypeOK
  <2>2. \E i \in ids : \A j \in ids : j <= i
    BY <1>4, <2>1, NatMax
  <2> QED
    BY <2>2 DEF Newest
<1> HIDE DEF hits, first
<1>6. Newest(ids) # NoSymbol
  <2> HIDE DEF ids
  <2> QED
    BY <1>4, <1>5 DEF NoSymbol
<1> QED
  BY <1>1, <1>3, <1>5, <1>6

\* The current table is always visited, and from outside structs the whole chain.
LEMMA VisitedSets ==
  ASSUME IndInv, SetsOK, NEW s \in 1..Len(sets)
  PROVE  /\ 1 \in Visited(s) /\ sets[s].chain[1] = s
         /\ ~IsStruct(s) => Visited(s) = DOMAIN sets[s].chain
         /\ IsStruct(s) => Visited(s) = {1}
<1>1. sets[s].chain # <<>> /\ sets[s].chain \in Seq(Nat \ {0})
  <2>1. sets[s] \in SetType
    BY DEF IndInv, TypeOK
  <2> QED
    BY <2>1 DEF IndInv, ChainsOK, SetType
<1>2. /\ 1 \in DOMAIN sets[s].chain /\ DOMAIN sets[s].chain = 1..Len(sets[s].chain)
      /\ Len(sets[s].chain) \in Nat
  BY <1>1
<1>3. sets[s].chain[1] = s
  BY DEF SetsOK, SetOK
<1>4. 1 \in Visited(s)
  BY <1>2 DEF Visited
<1>5. ASSUME ~IsStruct(s) PROVE Visited(s) = DOMAIN sets[s].chain
  <2>1. \A k \in DOMAIN sets[s].chain : \A j \in 1..(k - 1) :
          sets[sets[s].chain[j]].scope # "STRUCT_OR_UNION"
    BY <1>2, <1>5 DEF SetsOK, SetOK, IsStruct
  <2> QED
    BY <2>1 DEF Visited
<1>6. ASSUME IsStruct(s) PROVE Visited(s) = {1}
  <2> SUFFICES ASSUME NEW k \in Visited(s) PROVE k = 1
    BY <1>4
  <2>1. k \in 1..Len(sets[s].chain) /\ (1 \in 1..(k - 1) => sets[s].scope # "STRUCT_OR_UNION")
    BY <1>2, <1>3 DEF Visited
  <2> QED
    BY <1>2, <1>6, <2>1 DEF IsStruct
<1> QED
  BY <1>3, <1>4, <1>5, <1>6

\* A name not found is not in the current table ...
LEMMA MissedHere ==
  ASSUME IndInv, SetsOK, NEW s \in 1..Len(sets), NEW ns, NEW n,
         Lookup(s, ns, n) = NoSymbol
  PROVE  Table(s, ns, n) = {}
<1>1. Hits(s, ns, n) = {}
  BY LookupHits
<1> QED
  BY <1>1, VisitedSets DEF Hits

\* ... and outside structs in no table on the chain.
LEMMA MissedAbove ==
  ASSUME IndInv, SetsOK, NEW s \in 1..Len(sets), NEW ns, NEW n, ~IsStruct(s),
         Lookup(s, ns, n) = NoSymbol, NEW k \in DOMAIN sets[s].chain
  PROVE  Table(sets[s].chain[k], ns, n) = {}
<1>1. Hits(s, ns, n) = {}
  BY LookupHits
<1> QED
  BY <1>1, VisitedSets DEF Hits

\* A name that is found is in a table on the chain, from a struct in its own.
LEMMA FoundOnChain ==
  ASSUME IndInv, SetsOK, NEW s \in 1..Len(sets), NEW ns, NEW n,
         NEW i, i = Lookup(s, ns, n), i # NoSymbol
  PROVE  /\ i \in 1..Len(symbols) /\ symbols[i].ns = ns /\ symbols[i].name = n
         /\ IsStruct(s) => symbols[i].owner = s
         /\ ~IsStruct(s) => ~IsStruct(symbols[i].owner)
<1>1. Hits(s, ns, n) # {}
  BY LookupMisses
<1>2. PICK k \in Hits(s, ns, n) : i \in Table(sets[s].chain[k], ns, n)
  BY <1>1, LookupHits
<1>3. /\ i \in DOMAIN symbols /\ symbols[i].owner = sets[s].chain[k]
      /\ symbols[i].ns = ns /\ symbols[i].name = n
  BY <1>2 DEF Table
<1>4. i \in 1..Len(symbols)
  BY <1>3 DEF IndInv, TypeOK
<1>5. k \in Visited(s) /\ k \in DOMAIN sets[s].chain
  BY DEF Hits, Visited
<1>6. IsStruct(s) => symbols[i].owner = s
  BY <1>3, <1>5, VisitedSets
<1>7. ~IsStruct(s) => ~IsStruct(symbols[i].owner)
  BY <1>3, <1>5 DEF SetsOK, SetOK
<1> QED
  BY <1>3, <1>4, <1>5, <1>6, <1>7

\* A label's owner is on the chain.
LEMMA LabelOwnerOnChain ==
  ASSUME IndInv, NEW s \in 1..Len(sets), LabelOwner(s) # 0
  PROVE  \E k \in DOMAIN sets[s].chain : LabelOwner(s) = sets[s].chain[k]
<1> DEFINE fns == {k \in DOMAIN sets[s].chain :
                     sets[sets[s].chain[k]].scope = "FUNCTION"}
           first == CHOOSE k \in fns : \A j \in fns : k <= j
<1>1. fns # {} /\ LabelOwner(s) = sets[s].chain[first]
  BY DEF LabelOwner
<1>2. fns \subseteq Nat
  BY ChainDomain
<1>3. first \in fns
  <2> HIDE DEF fns
  <2>1. \E k \in fns : \A j \in fns : k <= j
    BY <1>1, <1>2, NatMin
  <2> QED
    BY <2>1
<1> HIDE DEF first
<1> QED
  BY <1>1, <1>3

-----------------------------------------------------------------------------
(* What a step leaves.                                                      *)
Allocates(p, scope) == sets' = Append(sets, NewSet(p, scope))

\* The new set of an ENTER_SCOPE, and the ones that were there.
LEMMA NewSetParts ==
  ASSUME IndInv, NEW p \in 1..Len(sets), NEW scope \in Scopes, Allocates(p, scope)
  PROVE  /\ SetsGrow /\ Len(sets) \in Nat /\ Len(sets') = Len(sets) + 1
         /\ sets'[Len(sets) + 1].scope = scope
         /\ Len(sets[p].chain) \in Nat /\ Len(sets[p].chain) >= 1
         /\ sets'[Len(sets) + 1].chain \in Seq(Nat \ {0})
         /\ Len(sets'[Len(sets) + 1].chain) = Len(sets[p].chain) + 1
         /\ sets'[Len(sets) + 1].chain[1] = Len(sets) + 1
         /\ \A i \in 1..Len(sets[p].chain) :
              sets'[Len(sets) + 1].chain[i + 1] = sets[p].chain[i]
<1>1. sets \in Seq(SetType) /\ Len(sets) \in Nat /\ sets[p] \in SetType
  BY DEF IndInv, TypeOK
<1>2. sets[p].chain \in Seq(Nat \ {0}) /\ sets[p].chain # <<>>
  BY <1>1 DEF SetType, IndInv, ChainsOK
<1>3. Len(sets[p].chain) \in Nat /\ Len(sets[p].chain) >= 1
  BY <1>2
<1>4. /\ SetsGrow /\ Len(sets') = Len(sets) + 1
      /\ sets'[Len(sets) + 1].scope = scope
  BY NewSetGrows DEF Allocates
<1>5. PICK n : n = Len(sets) + 1
  OBVIOUS
<1> DEFINE one == <<n>>
           c == one \o sets[p].chain
<1>6. n \in Nat \ {0}
  BY <1>1, <1>5
<1>7. one \in Seq(Nat \ {0}) /\ Len(one) = 1 /\ one[1] = n
  BY <1>6
<1> HIDE DEF one
<1>8. /\ c \in Seq(Nat \ {0})
      /\ Len(c) = Len(one) + Len(sets[p].chain)
      /\ \A i \in 1..Len(one) + Len(sets[p].chain) :
           c[i] = IF i <= Len(one) THEN one[i] ELSE sets[p].chain[i - Len(one)]
  BY <1>2, <1>7, ConcatProperties, Zenon
<1>9. sets'[n].chain = c
  <2>1. sets' = Append(sets, NewSet(p, scope)) /\ NewSet(p, scope).chain = c
    BY <1>5 DEF Allocates, NewSet, one
  <2>2. NewSet(p, scope) \in SetType
    BY <1>8 DEF NewSet, SetType, c, one, Allocates
  <2> HIDE DEF c
  <2> QED
    BY <1>1, <1>5, <2>1, <2>2
<1> HIDE DEF c
<1>10. /\ Len(c) = Len(sets[p].chain) + 1 /\ c[1] = n
       /\ \A i \in 1..Len(sets[p].chain) : c[i + 1] = sets[p].chain[i]
  <2>1. PICK m : m = Len(sets[p].chain)
    OBVIOUS
  <2>2. /\ m \in Nat /\ m >= 1 /\ Len(c) = 1 + m
        /\ \A i \in 1..1 + m : c[i] = IF i <= 1 THEN one[i] ELSE sets[p].chain[i - 1]
    BY <1>3, <1>7, <1>8, <2>1
  <2>3. c[1] = n
    BY <1>7, <2>2
  <2>4. ASSUME NEW i \in 1..m PROVE c[i + 1] = sets[p].chain[i]
    <3>1. i + 1 \in 1..1 + m /\ ~(i + 1 <= 1) /\ (i + 1) - 1 = i
      BY <2>2
    <3> QED
      BY <2>2, <3>1
  <2> QED
    BY <2>1, <2>2, <2>3, <2>4
<1> QED
  BY <1>1, <1>3, <1>4, <1>5, <1>8, <1>9, <1>10

\* It hangs below p.
LEMMA NewParent ==
  ASSUME IndInv, SetsOK, NEW p \in 1..Len(sets), NEW scope \in Scopes, Allocates(p, scope),
         NEW n, n = Len(sets) + 1
  PROVE  HasParent(n)' /\ Parent(n)' = p
<1>2. sets[p].chain[1] = p
  BY DEF SetsOK, SetOK
<1>3. /\ Len(sets[p].chain) \in Nat /\ Len(sets[p].chain) >= 1
      /\ Len(sets'[n].chain) = Len(sets[p].chain) + 1
      /\ \A i \in 1..Len(sets[p].chain) : sets'[n].chain[i + 1] = sets[p].chain[i]
  BY NewSetParts
<1>4. sets'[n].chain[1 + 1] = sets[p].chain[1]
  BY <1>3
<1> QED
  BY <1>2, <1>3, <1>4 DEF HasParent, Parent

LEMMA OldSetOK ==
  ASSUME IndInv, SetsOK, SetsGrow, NEW s \in 1..Len(sets)
  PROVE  SetOK(s)'
<1>1. sets'[s] = sets[s]
  BY DEF SetsGrow
<1>2. \A k \in DOMAIN sets[s].chain :
        sets[s].chain[k] \in 1..Len(sets) /\ sets'[sets[s].chain[k]] = sets[sets[s].chain[k]]
  BY DEF IndInv, ChainsOK, SetsGrow
<1>3. SetOK(s)
  BY DEF SetsOK
<1> QED
  BY <1>1, <1>2, <1>3 DEF SetOK, IsStruct, HasParent

LEMMA NewSetsOK ==
  ASSUME IndInv, SetsOK, NEW p \in 1..Len(sets), NEW scope \in Scopes \ {"GLOBAL"},
         Allocates(p, scope), scope # "STRUCT_OR_UNION" => ~IsStruct(p)
  PROVE  SetsOK'
<1>1. PICK n, m : n = Len(sets) + 1 /\ m = Len(sets[p].chain)
  OBVIOUS
<1>2. /\ SetsGrow /\ n \in Nat /\ Len(sets') = n
      /\ sets'[n].scope = scope
      /\ m \in Nat /\ m >= 1
      /\ DOMAIN sets'[n].chain = 1..m + 1
      /\ sets'[n].chain[1] = n
      /\ \A i \in 1..m : sets'[n].chain[i + 1] = sets[p].chain[i]
  <2>1. Allocates(p, scope) /\ scope \in Scopes
    OBVIOUS
  <2>2. /\ SetsGrow /\ Len(sets) \in Nat /\ Len(sets') = Len(sets) + 1
        /\ sets'[n].scope = scope /\ m \in Nat /\ m >= 1
        /\ sets'[n].chain \in Seq(Nat \ {0}) /\ Len(sets'[n].chain) = m + 1
        /\ sets'[n].chain[1] = n
        /\ \A i \in 1..m : sets'[n].chain[i + 1] = sets[p].chain[i]
    BY <1>1, <2>1, NewSetParts
  <2> QED
    BY <1>1, <2>2
<1>3. /\ DOMAIN sets[p].chain = 1..m
      /\ \A k \in 1..m : sets[p].chain[k] \in 1..Len(sets)
      /\ \A i, j \in 1..m : i < j => sets[p].chain[j] < sets[p].chain[i]
  <2>1. sets[p] \in SetType
    BY DEF IndInv, TypeOK
  <2>2. DOMAIN sets[p].chain = 1..m
    BY <1>1, <2>1 DEF SetType
  <2> QED
    BY <2>2 DEF IndInv, ChainsOK, SetsOK, SetOK
<1>4. ASSUME NEW k \in 2..m + 1
      PROVE  /\ sets'[n].chain[k] = sets[p].chain[k - 1] /\ k - 1 \in 1..m
             /\ sets'[n].chain[k] \in 1..Len(sets)
  <2>1. k - 1 \in 1..m /\ (k - 1) + 1 = k
    BY <1>2
  <2> QED
    BY <1>2, <1>3, <2>1
<1>5. \A i, j \in 1..m + 1 : i < j => sets'[n].chain[j] < sets'[n].chain[i]
  <2> SUFFICES ASSUME NEW i \in 1..m + 1, NEW j \in 1..m + 1, i < j
               PROVE  sets'[n].chain[j] < sets'[n].chain[i]
    OBVIOUS
  <2>1. j \in 2..m + 1
    BY <1>2
  <2>2. CASE i = 1
    <3>1. sets'[n].chain[j] \in 1..Len(sets)
      BY <1>4, <2>1
    <3> QED
      BY <1>1, <1>2, <2>2, <3>1
  <2>3. CASE i # 1
    <3>1. i \in 2..m + 1 /\ i - 1 < j - 1
      BY <1>2, <2>1, <2>3
    <3> QED
      BY <1>3, <1>4, <2>1, <3>1
  <2> QED
    BY <2>2, <2>3
<1>6. n # Global /\ HasParent(n)'
  <2>1. Len(sets) >= 1
    BY <1>1, <1>2
  <2>2. HasParent(n)'
    BY <1>1, NewParent
  <2> QED
    BY <1>1, <1>2, <2>1, <2>2 DEF Global
<1>7. ASSUME scope # "STRUCT_OR_UNION", NEW k \in 1..m + 1
      PROVE  sets'[sets'[n].chain[k]].scope # "STRUCT_OR_UNION"
  <2>1. CASE k = 1
    BY <1>2, <1>7, <2>1
  <2>2. CASE k # 1
    <3>1. k \in 2..m + 1
      BY <1>2, <2>2
    <3>2. k - 1 \in 1..m /\ sets'[n].chain[k] = sets[p].chain[k - 1]
      BY <1>4, <3>1
    <3>3. sets[p].chain[k - 1] \in 1..Len(sets) /\ ~IsStruct(sets[p].chain[k - 1])
      BY <1>3, <1>7, <3>2 DEF SetsOK, SetOK
    <3> QED
      BY <1>2, <3>2, <3>3 DEF SetsGrow, IsStruct
  <2> QED
    BY <2>1, <2>2
<1>8. SetOK(n)'
  BY <1>2, <1>5, <1>6, <1>7 DEF SetOK, IsStruct
<1>9. ASSUME NEW s \in 1..Len(sets) PROVE SetOK(s)'
  BY <1>2, OldSetOK
<1> QED
  BY <1>1, <1>2, <1>8, <1>9 DEF SetsOK

LEMMA SameSetsOK == ASSUME IndInv, SetsOK, UNCHANGED sets PROVE SetsOK'
<1>1. SetsGrow
  BY UnchangedSetsGrow
<1>2. ASSUME NEW s \in 1..Len(sets) PROVE SetOK(s)'
  BY <1>1, OldSetOK
<1> QED
  BY <1>2 DEF SetsOK

\* Every struct's set has a parent.
LEMMA StructParent ==
  ASSUME IndInv, SetsOK, NEW s \in 1..Len(sets), IsStruct(s)
  PROVE  HasParent(s) /\ Parent(s) \in 1..Len(sets)
<1>1. HasParent(s)
  BY DEF SetsOK, SetOK, IsStruct
<1> QED
  BY <1>1, ParentOK

\* The symbols stay where they are.
SymbolsKept ==
  /\ Len(symbols') >= Len(symbols)
  /\ \A i \in 1..Len(symbols) : /\ symbols'[i].owner = symbols[i].owner
                                /\ symbols'[i].ns = symbols[i].ns
                                /\ symbols'[i].name = symbols[i].name

LEMMA UnchangedKept == ASSUME IndInv, UNCHANGED symbols PROVE SymbolsKept
BY DEF IndInv, TypeOK, SymbolsKept

LEMMA UniqueStays ==
  ASSUME IndInv, IndInv', UniqueNames, SymbolsKept, Len(symbols') = Len(symbols)
  PROVE  UniqueNames'
<1>1. DOMAIN symbols = 1..Len(symbols) /\ DOMAIN symbols' = 1..Len(symbols')
  BY DEF IndInv, TypeOK
<1> QED
  BY <1>1 DEF UniqueNames, SymbolsKept

\* A symbol is new to its table.
LEMMA UniqueGrows ==
  ASSUME IndInv, IndInv', UniqueNames, SymbolsKept, Len(symbols') = Len(symbols) + 1,
         NEW x, x = symbols'[Len(symbols')], Table(x.owner, x.ns, x.name) = {}
  PROVE  UniqueNames'
<1>1. DOMAIN symbols = 1..Len(symbols) /\ DOMAIN symbols' = 1..Len(symbols')
      /\ Len(symbols) \in Nat
  BY DEF IndInv, TypeOK
<1>2. ASSUME NEW i \in 1..Len(symbols), symbols[i].owner = x.owner,
             symbols[i].ns = x.ns, symbols[i].name = x.name
      PROVE  FALSE
  BY <1>1, <1>2 DEF Table
<1>3. ASSUME NEW i \in 1..Len(symbols'), NEW j \in 1..Len(symbols'),
             symbols'[i].owner = symbols'[j].owner, symbols'[i].ns = symbols'[j].ns,
             symbols'[i].name = symbols'[j].name
      PROVE  i = j
  <2>1. CASE i \in 1..Len(symbols) /\ j \in 1..Len(symbols)
    BY <1>1, <1>3, <2>1 DEF UniqueNames, SymbolsKept
  <2>2. CASE i \in 1..Len(symbols) /\ j = Len(symbols')
    BY <1>2, <1>3, <2>2 DEF SymbolsKept
  <2>3. CASE i = Len(symbols') /\ j \in 1..Len(symbols)
    BY <1>2, <1>3, <2>3 DEF SymbolsKept
  <2> QED
    BY <1>1, <2>1, <2>2, <2>3
<1> QED
  BY <1>1, <1>3 DEF UniqueNames

\* Different names are new to one table.
LEMMA UniqueMore ==
  ASSUME IndInv, IndInv', UniqueNames, SymbolsKept, NEW done, Len(done) = Len(symbols),
         NEW more, NEW names \in Seq(Names), NEW s, Grown(done, more, names, s),
         Distinct(names), \A k \in 1..Len(names) : Table(s, "GENERAL", names[k]) = {}
  PROVE  UniqueNames'
<1>1. /\ DOMAIN symbols = 1..Len(symbols) /\ DOMAIN symbols' = 1..Len(symbols')
      /\ Len(symbols) \in Nat /\ Len(symbols') \in Nat /\ Len(names) \in Nat
  BY DEF IndInv, TypeOK
<1>2. \A i \in (Len(symbols) + 1)..Len(symbols') :
        /\ i - Len(symbols) \in 1..Len(names)
        /\ symbols'[i].name = names[i - Len(symbols)]
        /\ symbols'[i].ns = "GENERAL"
        /\ symbols'[i].owner = s
  BY DEF Grown
<1>3. ASSUME NEW i \in 1..Len(symbols), NEW j \in (Len(symbols) + 1)..Len(symbols'),
             symbols'[i].owner = symbols'[j].owner, symbols'[i].ns = symbols'[j].ns,
             symbols'[i].name = symbols'[j].name
      PROVE  FALSE
  <2>1. PICK k : k = j - Len(symbols)
    OBVIOUS
  <2>2. k \in 1..Len(names) /\ symbols'[j].name = names[k]
        /\ symbols'[j].ns = "GENERAL" /\ symbols'[j].owner = s
    BY <1>2, <2>1
  <2>3. i \in Table(s, "GENERAL", names[k])
    BY <1>1, <1>3, <2>2 DEF SymbolsKept, Table
  <2> QED
    BY <2>2, <2>3
<1>4. ASSUME NEW i \in (Len(symbols) + 1)..Len(symbols'),
             NEW j \in (Len(symbols) + 1)..Len(symbols'), i < j
      PROVE  symbols'[i].name # symbols'[j].name
  <2>1. PICK k, l : k = i - Len(symbols) /\ l = j - Len(symbols)
    OBVIOUS
  <2>2. /\ k \in 1..Len(names) /\ l \in 1..Len(names)
        /\ symbols'[i].name = names[k] /\ symbols'[j].name = names[l]
    BY <1>2, <2>1
  <2>3. k \in 1..(l - 1)
    BY <1>1, <1>4, <2>1, <2>2
  <2> QED
    BY <2>2, <2>3 DEF Distinct
<1>5. ASSUME NEW i \in 1..Len(symbols'), NEW j \in 1..Len(symbols'), i < j,
             symbols'[i].owner = symbols'[j].owner, symbols'[i].ns = symbols'[j].ns,
             symbols'[i].name = symbols'[j].name
      PROVE  FALSE
  <2>1. CASE j \in 1..Len(symbols)
    <3>1. i \in 1..Len(symbols)
      BY <1>1, <1>5, <2>1
    <3>2. i = j
      BY <1>1, <1>5, <2>1, <3>1 DEF UniqueNames, SymbolsKept
    <3> QED
      BY <1>5, <3>2
  <2>2. CASE j \in (Len(symbols) + 1)..Len(symbols') /\ i \in 1..Len(symbols)
    BY <1>3, <1>5, <2>2
  <2>3. CASE j \in (Len(symbols) + 1)..Len(symbols') /\ i \in (Len(symbols) + 1)..Len(symbols')
    BY <1>4, <1>5, <2>3
  <2> QED
    BY <1>1, <2>1, <2>2, <2>3
<1>6. ASSUME NEW i \in 1..Len(symbols'), NEW j \in 1..Len(symbols'),
             symbols'[i].owner = symbols'[j].owner, symbols'[i].ns = symbols'[j].ns,
             symbols'[i].name = symbols'[j].name
      PROVE  i = j
  <2>1. ~(i < j)
    BY <1>5, <1>6
  <2>2. ~(j < i)
    BY <1>5, <1>6
  <2> QED
    BY <1>1, <2>1, <2>2
<1> QED
  BY <1>1, <1>6 DEF UniqueNames

\* A tag that keeps its type.
LEMMA TagSetStays ==
  ASSUME IndInv, SetsOK, TagSetsOK, SetsGrow, NEW i \in 1..Len(symbols),
         symbols'[i].ns = symbols[i].ns, symbols'[i].owner = symbols[i].owner,
         symbols'[i].tset = symbols[i].tset
  PROVE  TagSetOK(i)'
<1> SUFFICES ASSUME symbols[i].ns = "TAG"
             PROVE  /\ sets'[symbols[i].tset].scope = "STRUCT_OR_UNION"
                    /\ sets'[symbols[i].tset].chain[2] = symbols[i].owner
  BY DEF TagSetOK, IsStruct, Parent
<1>1. symbols[i].tset \in 1..Len(sets)
  BY DEF IndInv, OwnersOK
<1>2. sets'[symbols[i].tset] = sets[symbols[i].tset]
  BY <1>1 DEF SetsGrow
<1> QED
  BY <1>2 DEF TagSetsOK, TagSetOK, IsStruct, Parent

LEMMA SameTagSets ==
  ASSUME IndInv, SetsOK, TagSetsOK, SetsGrow, UNCHANGED symbols
  PROVE  TagSetsOK'
<1>1. ASSUME NEW i \in 1..Len(symbols) PROVE TagSetOK(i)'
  BY TagSetStays
<1> QED
  BY <1>1 DEF TagSetsOK

\* A symbol more.
LEMMA InstallTagSets ==
  ASSUME IndInv, SetsOK, TagSetsOK, SetsGrow, NEW x \in SymbolType,
         symbols' = Append(symbols, x),
         x.ns = "TAG" => IsStruct(x.tset)' /\ Parent(x.tset)' = x.owner
  PROVE  /\ TagSetsOK' /\ SymbolsKept
         /\ Len(symbols') = Len(symbols) + 1 /\ x = symbols'[Len(symbols')]
<1>1. symbols \in Seq(SymbolType) /\ Len(symbols) \in Nat
  BY DEF IndInv, TypeOK
<1>2. /\ Len(symbols') = Len(symbols) + 1
      /\ \A i \in 1..Len(symbols) : symbols'[i] = symbols[i]
      /\ symbols'[Len(symbols) + 1] = x
  BY <1>1, InstallOK
<1>3. ASSUME NEW i \in 1..Len(symbols) PROVE TagSetOK(i)'
  BY <1>2, TagSetStays
<1>4. ASSUME NEW i, i = Len(symbols) + 1 PROVE TagSetOK(i)'
  BY <1>2, <1>4 DEF TagSetOK, IsStruct, Parent
<1>5. SymbolsKept
  BY <1>1, <1>2 DEF SymbolsKept
<1> QED
  BY <1>1, <1>2, <1>3, <1>4, <1>5 DEF TagSetsOK

\* The names of a declaration: the old tags keep their types.
LEMMA DeclaredTagSets ==
  ASSUME IndInv, SetsOK, TagSetsOK, SetsGrow, NEW more, NEW names \in Seq(Names), NEW s,
         Grown(symbols, more, names, s)
  PROVE  TagSetsOK' /\ SymbolsKept
<1>1. Len(symbols) \in Nat /\ Len(names) \in Nat
  BY DEF IndInv, TypeOK
<1>2. /\ Len(symbols') = Len(symbols) + Len(names)
      /\ \A i \in 1..Len(symbols) : symbols'[i] = symbols[i]
      /\ \A i \in (Len(symbols) + 1)..Len(symbols') : symbols'[i].ns = "GENERAL"
  BY DEF Grown
<1>3. ASSUME NEW i \in 1..Len(symbols) PROVE TagSetOK(i)'
  BY <1>2, TagSetStays
<1>4. ASSUME NEW i \in (Len(symbols) + 1)..Len(symbols') PROVE TagSetOK(i)'
  BY <1>2 DEF TagSetOK
<1>5. SymbolsKept
  BY <1>1, <1>2 DEF SymbolsKept
<1>6. \A i \in 1..Len(symbols') :
        i \in 1..Len(symbols) \/ i \in (Len(symbols) + 1)..Len(symbols')
  BY <1>1, <1>2
<1> QED
  BY <1>3, <1>4, <1>5, <1>6 DEF TagSetsOK

\* A construct that stays, apart from what is declared in it.
SameShape(k) ==
  /\ open'[k].kind = open[k].kind /\ open'[k].inner = open[k].inner
  /\ open'[k].tag = open[k].tag /\ open[k].flags \subseteq open'[k].flags

\* A construct that stays.
SameConstruct(k) == SameShape(k) /\ open'[k].names = open[k].names

LEMMA StructStays ==
  ASSUME IndInv, SetsOK, StructsOK, SetsGrow, SymbolsKept,
         NEW k \in 1..Len(open), SameShape(k), k > 1 => SameShape(k - 1),
         open'[k].names = open[k].names \/ Distinct(open'[k].names)
  PROVE  StructOK(k)'
<1> SUFFICES ASSUME open[k].kind = "struct" PROVE StructOK(k)'
  BY DEF StructOK, SameShape
<1>0. PICK s : s = open[k].inner
  OBVIOUS
<1>1. /\ s \in 1..Len(sets) /\ IsStruct(s)
      /\ IF k > 1 /\ open[k - 1].kind = "struct"
         THEN Parent(s) = open[k - 1].inner ELSE ~IsStruct(Parent(s))
      /\ open[k].tag # NoSymbol => symbols[open[k].tag].owner = Parent(s)
      /\ Distinct(open[k].names)
  BY <1>0 DEF StructsOK, StructOK
<1>2. Parent(s) \in 1..Len(sets)
  BY <1>1, StructParent
<1>3. /\ sets'[s] = sets[s] /\ sets'[Parent(s)] = sets[Parent(s)]
      /\ Len(sets) \in Nat /\ Len(sets') \in Nat /\ Len(sets') >= Len(sets)
  BY <1>1, <1>2 DEF SetsGrow, IndInv, TypeOK
<1>4. IsStruct(s)' /\ Parent(s)' = Parent(s) /\ (IsStruct(Parent(s))' <=> IsStruct(Parent(s)))
  BY <1>1, <1>3 DEF IsStruct, Parent
<1>5. open[k].tag # NoSymbol => symbols'[open[k].tag].owner = symbols[open[k].tag].owner
  BY DEF SymbolsKept, IndInv, TagsOK
<1>6. k \in Nat
  BY DEF IndInv, TypeOK
<1>7. Distinct(open'[k].names)
  <2>1. CASE open'[k].names = open[k].names
    <3>1. PICK a, b : a = open'[k].names /\ b = open[k].names
      OBVIOUS
    <3>2. a = b /\ Distinct(b)
      BY <1>1, <2>1, <3>1
    <3> QED
      BY <3>1, <3>2
  <2> QED
    BY <2>1
<1> QED
  BY <1>0, <1>1, <1>3, <1>4, <1>5, <1>6, <1>7 DEF StructOK, SameShape, IsStruct, Parent

-----------------------------------------------------------------------------
(* The constructs.                                                          *)
LEMMA OpenTop ==
  ASSUME IndInv
  PROVE  /\ open \in Seq(ConstructType) /\ Len(open) \in Nat
         /\ Within = "struct" <=> (open # <<>> /\ open[Len(open)].kind = "struct")
         /\ open # <<>> => /\ Len(open) \in 1..Len(open)
                           /\ Within = open[Len(open)].kind
<1>1. open \in Seq(ConstructType) /\ Len(open) \in Nat
  BY DEF IndInv, TypeOK
<1>2. open # <<>> => Len(open) \in 1..Len(open)
  BY <1>1
<1> QED
  BY <1>1, <1>2 DEF Within

\* Nothing opens or closes.
LEMMA SameOpen ==
  ASSUME IndInv, NestInv, SetsGrow, SymbolsKept, UNCHANGED <<open, current>>
  PROVE  CurrentOK' /\ StructsOK'
<1>1. current \in 1..Len(sets) /\ sets'[current] = sets[current]
  BY DEF IndInv, TypeOK, SetsGrow
<1>2. CurrentOK'
  BY <1>1 DEF NestInv, CurrentOK, Within, IsStruct
<1>3. \A k \in 1..Len(open) : SameShape(k) /\ open'[k].names = open[k].names
  BY DEF SameShape
<1>4. ASSUME NEW k \in 1..Len(open) PROVE StructOK(k)'
  <2>1. k > 1 => SameShape(k - 1)
    BY <1>3, OpenTop
  <2> QED
    BY <1>3, <2>1, StructStays DEF NestInv
<1>5. StructsOK'
  BY <1>4 DEF NestInv, StructsOK
<1> QED
  BY <1>2, <1>5

\* One more construct is open.
LEMMA PushStructs ==
  ASSUME IndInv, IndInv', NestInv, SetsGrow, SymbolsKept, NEW c \in ConstructType, Begin(c),
         c.kind # "struct" => Within # "struct" /\ ~IsStruct(current)',
         c.kind = "struct" =>
           /\ current' = c.inner /\ IsStruct(c.inner)'
           /\ IF Within = "struct" THEN Parent(c.inner)' = open[Len(open)].inner
                                   ELSE ~IsStruct(Parent(c.inner))'
           /\ c.tag # NoSymbol => symbols'[c.tag].owner = Parent(c.inner)'
           /\ c.names = <<>>
  PROVE  CurrentOK' /\ StructsOK'
<1>1. PICK n : n = Len(open)
  OBVIOUS
<1>2. /\ n \in Nat /\ Len(open') = n + 1 /\ open' # <<>>
      /\ \A k \in 1..n : open'[k] = open[k]
      /\ open'[n + 1] = c
  BY <1>1, BeginOK, OpenTop DEF Begin
<1>3. Within' = c.kind
  BY <1>2 DEF Within
<1>4. CurrentOK'
  BY <1>2, <1>3 DEF CurrentOK
<1>5. \A k \in 1..n : SameShape(k) /\ open'[k].names = open[k].names
  BY <1>2 DEF SameShape
<1>6. ASSUME NEW k \in 1..n PROVE StructOK(k)'
  <2>1. k > 1 => SameShape(k - 1)
    BY <1>2, <1>5
  <2> QED
    BY <1>1, <1>5, <2>1, StructStays DEF NestInv
<1>7. Within = "struct" <=> (n > 0 /\ open[n].kind = "struct")
  BY <1>1, <1>2, OpenTop
<1>8. ASSUME NEW k, k = n + 1 PROVE StructOK(k)'
  <2>1. open'[k] = c /\ k - 1 = n /\ (k > 1 <=> n > 0) /\ (n > 0 => open'[n] = open[n])
    BY <1>2, <1>8
  <2>2. c.kind = "struct" => c.inner \in 1..Len(sets')
    BY DEF IndInv, TypeOK
  <2>3. c.kind = "struct" => Distinct(c.names)
    <3>1. Distinct(<<>>)
      BY DEF Distinct
    <3> QED
      BY <3>1, Zenon
  <2> QED
    BY <1>1, <1>7, <2>1, <2>2, <2>3 DEF StructOK, IsStruct, Parent
<1>9. ASSUME NEW k \in 2..n + 1, open'[k - 1].kind = "struct" PROVE open'[k].kind = "struct"
  <2>1. CASE k = n + 1
    <3>1. k - 1 = n /\ n \in 1..n
      BY <1>2, <2>1
    <3> QED
      BY <1>2, <1>7, <1>9, <2>1, <3>1
  <2>2. CASE k # n + 1
    <3>1. k \in 2..n /\ k - 1 \in 1..n /\ k \in 1..n
      BY <1>2, <2>2
    <3> QED
      BY <1>1, <1>2, <1>9, <3>1 DEF NestInv, StructsOK
  <2> QED
    BY <2>1, <2>2
<1>10. \A k \in 1..n + 1 : StructOK(k)'
  BY <1>2, <1>6, <1>8
<1>11. StructsOK'
  BY <1>2, <1>9, <1>10 DEF StructsOK
<1> QED
  BY <1>4, <1>11

\* The innermost construct closes.
LEMMA PopStructs ==
  ASSUME IndInv, IndInv', NestInv, SetsGrow, SymbolsKept, open # <<>>,
         Len(open') = Len(open) - 1, \A k \in 1..Len(open') : SameConstruct(k),
         IF Len(open) > 1 /\ open[Len(open) - 1].kind = "struct"
         THEN current' = open[Len(open) - 1].inner ELSE ~IsStruct(current)'
  PROVE  CurrentOK' /\ StructsOK'
<1>1. PICK n : n = Len(open) - 1
  OBVIOUS
<1>2. /\ n \in Nat /\ Len(open') = n /\ Len(open) = n + 1
      /\ open' \in Seq(ConstructType)
      /\ \A k \in 1..n : SameShape(k) /\ open'[k].names = open[k].names
  <2>1. Len(open) \in 1..Len(open) /\ Len(open) \in Nat
    BY OpenTop
  <2>2. open' \in Seq(ConstructType)
    BY DEF IndInv, TypeOK
  <2> QED
    BY <1>1, <2>1, <2>2 DEF SameConstruct
<1>3. Within' = "struct" <=> (n > 0 /\ open[n].kind = "struct")
  BY <1>2 DEF Within, SameShape
<1>4. CurrentOK'
  <2>1. CASE n > 0 /\ open[n].kind = "struct"
    <3>1. current' = open[n].inner /\ n \in 1..n
      BY <1>1, <1>2, <2>1
    <3> QED
      BY <1>2, <1>3, <2>1, <3>1 DEF CurrentOK, SameShape
  <2>2. CASE ~(n > 0 /\ open[n].kind = "struct")
    <3>1. ~IsStruct(current)'
      BY <1>1, <1>2, <2>2
    <3> QED
      BY <1>3, <2>2, <3>1 DEF CurrentOK
  <2> QED
    BY <2>1, <2>2
<1>5. ASSUME NEW k \in 1..n PROVE StructOK(k)'
  <2>1. k \in 1..Len(open) /\ (k > 1 => SameShape(k - 1))
    BY <1>2
  <2> QED
    BY <1>2, <2>1, StructStays DEF NestInv
<1>6. ASSUME NEW k \in 2..n, open'[k - 1].kind = "struct" PROVE open'[k].kind = "struct"
  <2>1. k \in 2..Len(open) /\ k - 1 \in 1..n /\ k \in 1..n
    BY <1>2
  <2> QED
    BY <1>2, <1>6, <2>1 DEF NestInv, StructsOK, SameShape
<1>7. StructsOK'
  BY <1>2, <1>5, <1>6 DEF StructsOK
<1> QED
  BY <1>4, <1>7

-----------------------------------------------------------------------------
(* The actions.                                                             *)
LEMMA FatalNest ==
  ASSUME IndInv, IndInv', NestInv, UNCHANGED <<sets, symbols, current, open>>
  PROVE  NestInv'
<1>1. SetsGrow /\ SymbolsKept
  BY UnchangedSetsGrow, UnchangedKept
<1>2. SetsOK' /\ TagSetsOK'
  BY <1>1, SameSetsOK, SameTagSets DEF NestInv
<1>3. CurrentOK' /\ StructsOK'
  BY <1>1, SameOpen
<1>4. UniqueNames'
  BY <1>1, UniqueStays DEF NestInv
<1> QED
  BY <1>2, <1>3, <1>4 DEF NestInv

\* A symbol is installed in a table without its name; the scopes do not move.
LEMMA InstallNest ==
  ASSUME IndInv, IndInv', NestInv, NEW x \in SymbolType, Install(x), x.ns # "TAG",
         Table(x.owner, x.ns, x.name) = {}, UNCHANGED <<sets, current, open>>
  PROVE  NestInv'
<1>1. SetsGrow
  BY UnchangedSetsGrow
<1>2. /\ TagSetsOK' /\ SymbolsKept /\ Len(symbols') = Len(symbols) + 1
      /\ x = symbols'[Len(symbols')]
  BY <1>1, InstallTagSets DEF NestInv, Install
<1>3. SetsOK'
  BY SameSetsOK DEF NestInv
<1>4. CurrentOK' /\ StructsOK'
  BY <1>1, <1>2, SameOpen
<1>5. UniqueNames'
  BY <1>2, UniqueGrows DEF NestInv
<1> QED
  BY <1>2, <1>3, <1>4, <1>5 DEF NestInv

\* Another declarator of the innermost construct.
LEMMA DeclareShape ==
  ASSUME IndInv, open # <<>>, NEW names \in Seq(Names), NEW types \in SUBSET Nat,
         Declare(names, types)
  PROVE  /\ Len(open') = Len(open) /\ Within' = Within
         /\ \A k \in 1..Len(open) : SameShape(k)
         /\ \A k \in 1..Len(open) :
              open'[k].names = IF k = Len(open) THEN names ELSE open[k].names
<1>1. /\ Len(open') = Len(open)
      /\ \A k \in 1..Len(open) :
           /\ open'[k].kind = open[k].kind /\ open'[k].inner = open[k].inner
           /\ open'[k].tag = open[k].tag /\ open'[k].flags = open[k].flags
           /\ open'[k].names = IF k = Len(open) THEN names ELSE open[k].names
  BY DeclareOK
<1>2. Within' = Within
  <2>1. Len(open) \in 1..Len(open) /\ Len(open) # 0
    BY OpenTop
  <2>2. open' # <<>>
    BY <1>1, <2>1
  <2> QED
    BY <1>1, <2>1, <2>2 DEF Within
<1> QED
  BY <1>1, <1>2 DEF SameShape

LEMMA DeclareNest ==
  ASSUME IndInv, IndInv', NestInv, open # <<>>, NEW names \in Seq(Names),
         NEW types \in SUBSET Nat, Declare(names, types),
         Within = "struct" => Distinct(names)
  PROVE  NestInv'
<1>1. /\ UNCHANGED <<sets, symbols, current>>
      /\ Len(open') = Len(open) /\ Within' = Within
      /\ \A k \in 1..Len(open) : SameShape(k)
      /\ \A k \in 1..Len(open) :
           open'[k].names = IF k = Len(open) THEN names ELSE open[k].names
  BY DeclareShape DEF Declare
<1>2. SetsGrow /\ SymbolsKept
  BY <1>1, UnchangedSetsGrow, UnchangedKept
<1>3. SetsOK' /\ TagSetsOK' /\ UniqueNames'
  BY <1>1, <1>2, SameSetsOK, SameTagSets, UniqueStays DEF NestInv
<1>4. CurrentOK'
  <2>1. Len(open) \in 1..Len(open) /\ open'[Len(open')].inner = open[Len(open)].inner
    BY <1>1, OpenTop DEF SameShape
  <2> QED
    BY <1>1, <2>1 DEF NestInv, CurrentOK, IsStruct
<1>5. ASSUME NEW k \in 1..Len(open) PROVE StructOK(k)'
  <2>1. k > 1 => SameShape(k - 1)
    BY <1>1, OpenTop
  <2>2. CASE open[k].kind # "struct"
    BY <1>1, <2>2 DEF StructOK, SameShape
  <2>3. CASE open[k].kind = "struct"
    <3>1. open'[k].names = open[k].names \/ Distinct(open'[k].names)
      <4>1. CASE k = Len(open)
        <5>1. Distinct(names)
          BY <2>3, <4>1, OpenTop
        <5>2. open'[k].names = names
          BY <1>1, <4>1
        <5> QED
          BY <5>1, <5>2, Zenon
      <4>2. CASE k # Len(open)
        BY <1>1, <4>2
      <4> QED
        BY <4>1, <4>2
    <3> QED
      BY <1>1, <1>2, <2>1, <3>1, StructStays DEF NestInv
  <2> QED
    BY <2>2, <2>3
<1>6. StructsOK'
  <2>1. ASSUME NEW k \in 2..Len(open), open'[k - 1].kind = "struct"
        PROVE  open'[k].kind = "struct"
    <3>1. k \in 1..Len(open) /\ k - 1 \in 1..Len(open)
      BY OpenTop
    <3> QED
      BY <1>1, <2>1, <3>1 DEF SameShape, NestInv, StructsOK
  <2> QED
    BY <1>1, <1>5, <2>1 DEF StructsOK
<1> QED
  BY <1>3, <1>4, <1>6 DEF NestInv

\* A name that the list does not have.
LEMMA AppendDistinct ==
  ASSUME NEW names \in Seq(Names), NEW n \in Names, Distinct(names),
         \A k \in 1..Len(names) : names[k] # n
  PROVE  Distinct(Append(names, n))
BY DEF Distinct

LEMMA DeclaratorNest ==
  ASSUME IndInv, IndInv', NestInv, NEW n \in Names,
         NextDeclarator(n) \/ \E type \in MemberTypes : DeclareMember(n, type)
  PROVE  NestInv'
<1>1. CASE NextDeclarator(n)
  <2>1. open # <<>> /\ Within # "struct"
    BY <1>1, NextDeclaratorOK
  <2>2. PICK names \in Seq(Names), types \in SUBSET Nat : Declare(names, types)
    BY <1>1, NextDeclaratorOK
  <2> QED
    BY <2>1, <2>2, DeclareNest
<1>2. ASSUME NEW type \in MemberTypes, DeclareMember(n, type) PROVE NestInv'
  <2>1. open # <<>> /\ Within = "struct"
    BY <1>2, DeclareMemberOK
  <2>2. PICK old : old = open[Len(open)].names
    OBVIOUS
  <2>3. old \in Seq(Names) /\ Distinct(old)
    <3>1. open[Len(open)].names \in Seq(Names) /\ Len(open) \in 1..Len(open)
      BY <2>1, TopOK
    <3>2. open[Len(open)].kind = "struct"
      BY <2>1, OpenTop
    <3>3. Distinct(open[Len(open)].names)
      BY <3>1, <3>2 DEF NestInv, StructsOK, StructOK
    <3> QED
      BY <2>2, <3>1, <3>3, Zenon
  <2>4. PICK names \in Seq(Names), types \in SUBSET Nat :
          /\ Declare(names, types)
          /\ names = old \/ (names = Append(old, n) /\ \A k \in 1..Len(old) : old[k] # n)
    BY <1>2, <2>2, DeclareMemberOK
  <2>5. Distinct(names)
    <3>1. CASE names = old
      BY <2>3, <3>1
    <3>2. CASE names = Append(old, n) /\ \A k \in 1..Len(old) : old[k] # n
      BY <2>3, <3>2, AppendDistinct
    <3> QED
      BY <2>4, <3>1, <3>2
  <2> QED
    BY <2>1, <2>4, <2>5, DeclareNest
<1> QED
  BY <1>1, <1>2

LEMMA UseIdentifierNest ==
  ASSUME IndInv, IndInv', NestInv, NEW n \in Names, UseIdentifier(n)
  PROVE  NestInv'
<1>1. UNCHANGED <<sets, symbols, current, open>>
  BY DEF UseIdentifier, Fatal
<1> QED
  BY <1>1, FatalNest

\* A construct that is no struct opens, in a set of its own below the current.
LEMMA EnterNest ==
  ASSUME IndInv, IndInv', NestInv, Within # "struct",
         NEW scope \in {"FUNCTION", "BLOCK"}, Enter(current, scope),
         NEW c \in ConstructType, c.kind # "struct", Begin(c), SymbolsKept
  PROVE  SetsGrow /\ SetsOK' /\ CurrentOK' /\ StructsOK'
<1>1. current \in 1..Len(sets) /\ scope \in Scopes /\ scope \in Scopes \ {"GLOBAL"}
  BY DEF IndInv, TypeOK, Scopes
<1>2. ~IsStruct(current)
  BY DEF NestInv, CurrentOK
<1>3. Allocates(current, scope)
  BY DEF Enter, Allocates
<1>4. SetsGrow /\ sets'[Len(sets) + 1].scope = scope
  BY <1>1, <1>3, NewSetParts
<1>5. SetsOK'
  BY <1>1, <1>2, <1>3, NewSetsOK DEF NestInv
<1>6. ~IsStruct(current)'
  BY <1>4 DEF Enter, IsStruct
<1>7. CurrentOK' /\ StructsOK'
  BY <1>4, <1>6, PushStructs
<1> QED
  BY <1>4, <1>5, <1>7

LEMMA BeginFunctionNest ==
  ASSUME IndInv, IndInv', NestInv, NEW n \in Names, BeginFunction(n)
  PROVE  NestInv'
<1>1. CASE Fatal("redeclared")
  BY <1>1, FatalNest DEF Fatal
<1>2. CASE /\ Table(current, "GENERAL", n) = {}
           /\ Install(Variable(n, current))
           /\ Enter(current, "FUNCTION")
           /\ Begin(Construct("function", current, current', NoSymbol, {}))
  <2> DEFINE c == Construct("function", current, current', NoSymbol, {})
  <2>1. /\ current \in 1..Len(sets) /\ current \in Nat \ {0} /\ current' \in Nat \ {0}
    BY DEF IndInv, TypeOK
  <2>2. c \in ConstructType /\ c.kind # "struct"
    BY <2>1 DEF Construct, ConstructType, Kinds, NoSymbol
  <2>3. /\ Variable(n, current) \in SymbolType
        /\ Variable(n, current).owner = current
        /\ Variable(n, current).ns = "GENERAL" /\ Variable(n, current).name = n
    BY <2>1, VariableOK DEF Variable, Symbol
  <2>4. Within # "struct"
    BY DEF BeginFunction
  <2>5. SetsGrow
    BY <1>2, <2>1, NewSetGrows DEF Enter, Scopes
  <2>6. /\ TagSetsOK' /\ SymbolsKept /\ Len(symbols') = Len(symbols) + 1
        /\ Variable(n, current) = symbols'[Len(symbols')]
    BY <1>2, <2>3, <2>5, InstallTagSets DEF NestInv, Install
  <2>7. SetsOK' /\ CurrentOK' /\ StructsOK'
    <3>1. Begin(c) /\ Enter(current, "FUNCTION")
      BY <1>2
    <3> HIDE DEF c
    <3> QED
      BY <2>2, <2>4, <2>6, <3>1, EnterNest
  <2>8. UniqueNames'
    BY <1>2, <2>3, <2>6, UniqueGrows DEF NestInv
  <2> QED
    BY <2>6, <2>7, <2>8 DEF NestInv
<1> QED
  BY <1>1, <1>2 DEF BeginFunction

LEMMA BeginStatementNest ==
  ASSUME IndInv, IndInv', NestInv, NEW kind \in {"if", "while"}, BeginStatement(kind)
  PROVE  NestInv'
<1> DEFINE c == Construct(kind, current, current', NoSymbol, {})
<1>1. current \in Nat \ {0} /\ current' \in Nat \ {0}
  BY DEF IndInv, TypeOK
<1>2. c \in ConstructType /\ c.kind # "struct"
  BY <1>1 DEF Construct, ConstructType, Kinds, NoSymbol
<1>3. /\ Within # "struct" /\ UNCHANGED symbols
      /\ Begin(c) /\ Enter(current, "BLOCK")
  BY DEF BeginStatement, InStatements
<1>4. SymbolsKept
  BY <1>3, UnchangedKept
<1>5. SetsGrow /\ SetsOK' /\ CurrentOK' /\ StructsOK'
  <2> HIDE DEF c
  <2> QED
    BY <1>2, <1>3, <1>4, EnterNest
<1>6. TagSetsOK' /\ UniqueNames'
  BY <1>3, <1>4, <1>5, SameTagSets, UniqueStays DEF NestInv
<1> QED
  BY <1>5, <1>6 DEF NestInv

LEMMA BeginDeclarationNest ==
  ASSUME IndInv, IndInv', NestInv, NEW n \in Names, BeginDeclaration(n)
  PROVE  NestInv'
<1>1. PICK c : c = Declaration(n)
  OBVIOUS
<1>2. c \in ConstructType /\ c.kind # "struct"
  BY <1>1, DeclarationOK
<1>3. Within # "struct" /\ UNCHANGED <<sets, symbols, current>> /\ Begin(c)
  BY <1>1 DEF BeginDeclaration
<1>4. SymbolsKept /\ SetsGrow
  BY <1>3, UnchangedKept, UnchangedSetsGrow
<1>5. ~IsStruct(current)'
  BY <1>3 DEF NestInv, CurrentOK, IsStruct
<1>6. CurrentOK' /\ StructsOK'
  BY <1>2, <1>3, <1>4, <1>5, PushStructs
<1>7. SetsOK' /\ TagSetsOK' /\ UniqueNames'
  BY <1>3, <1>4, SameSetsOK, SameTagSets, UniqueStays DEF NestInv
<1> QED
  BY <1>6, <1>7 DEF NestInv

LEMMA BeginPlainNest == ASSUME IndInv, IndInv', NestInv, BeginPlain PROVE NestInv'
<1> DEFINE c == Construct("plain", current, current, NoSymbol, {})
<1>1. current \in Nat \ {0} /\ current \in 1..Len(sets)
  BY DEF IndInv, TypeOK
<1>2. c \in ConstructType /\ c.kind # "struct"
  BY <1>1 DEF Construct, ConstructType, Kinds, NoSymbol
<1>3. Within # "struct" /\ UNCHANGED <<sets, symbols, current>> /\ Begin(c)
  BY DEF BeginPlain, InStatements
<1>4. SymbolsKept /\ SetsGrow
  BY <1>3, UnchangedKept, UnchangedSetsGrow
<1>5. ~IsStruct(current)'
  BY <1>3 DEF NestInv, CurrentOK, IsStruct
<1>6. CurrentOK' /\ StructsOK'
  <2> HIDE DEF c
  <2> QED
    BY <1>2, <1>3, <1>4, <1>5, PushStructs
<1>7. SetsOK' /\ TagSetsOK' /\ UniqueNames'
  BY <1>3, <1>4, SameSetsOK, SameTagSets, UniqueStays DEF NestInv
<1> QED
  BY <1>6, <1>7 DEF NestInv

\* From outside a struct the parent link leads outside every struct.
LEMMA ParentPlain ==
  ASSUME IndInv, SetsOK, NEW s \in 1..Len(sets), HasParent(s), ~IsStruct(s)
  PROVE  ~IsStruct(Parent(s))
<1>1. sets[s] \in SetType
  BY DEF IndInv, TypeOK
<1>2. 2 \in DOMAIN sets[s].chain
  BY <1>1 DEF SetType, HasParent
<1> QED
  BY <1>2 DEF SetsOK, SetOK, Parent

\* A construct that is no struct has no struct around it.
LEMMA PlainAround ==
  ASSUME IndInv, NestInv, open # <<>>, Within # "struct"
  PROVE  ~(Len(open) > 1 /\ open[Len(open) - 1].kind = "struct")
<1>1. Len(open) \in Nat /\ Within = open[Len(open)].kind
  BY OpenTop
<1>2. Len(open) > 1 => Len(open) \in 2..Len(open)
  BY <1>1
<1> QED
  BY <1>1, <1>2 DEF NestInv, StructsOK

\* It closes, and the parser is in no struct.
LEMMA EndNest ==
  ASSUME IndInv, IndInv', NestInv, open # <<>>, Within # "struct", End,
         ~IsStruct(current'), current' \in 1..Len(sets), UNCHANGED sets,
         SymbolsKept, TagSetsOK', UniqueNames'
  PROVE  NestInv'
<1>1. SetsGrow
  BY UnchangedSetsGrow
<1>2. Len(open') = Len(open) - 1 /\ \A k \in 1..Len(open') : SameConstruct(k)
  <2>1. Len(open') = Len(open) - 1 /\ \A k \in 1..Len(open') : open'[k] = open[k]
    BY OpenTop, EndOK
  <2> QED
    BY <2>1 DEF SameConstruct, SameShape
<1>3. ~IsStruct(current)'
  BY DEF IsStruct
<1>4. ~(Len(open) > 1 /\ open[Len(open) - 1].kind = "struct")
  BY PlainAround
<1>5. CurrentOK' /\ StructsOK'
  BY <1>1, <1>2, <1>3, <1>4, PopStructs
<1>6. SetsOK'
  BY SameSetsOK DEF NestInv
<1> QED
  BY <1>5, <1>6 DEF NestInv

\* No symbol is made.
LEMMA SameNest ==
  ASSUME IndInv, IndInv', NestInv, UNCHANGED <<sets, symbols>>
  PROVE  SymbolsKept /\ TagSetsOK' /\ UniqueNames'
<1>1. SetsGrow /\ SymbolsKept
  BY UnchangedSetsGrow, UnchangedKept
<1> QED
  BY <1>1, SameTagSets, UniqueStays DEF NestInv

\* The names of a declaration are in no table of the set, and differ.
LEMMA EndDeclarationNest ==
  ASSUME IndInv, IndInv', NestInv, EndDeclaration
  PROVE  NestInv'
<1>1. CASE Fatal("redeclared")
  BY <1>1, FatalNest DEF Fatal
<1>2. ASSUME NEW names \in Seq(Names),
             \A k \in 1..Len(names) : /\ Table(current, "GENERAL", names[k]) = {}
                                      /\ \A j \in 1..(k - 1) : names[j] # names[k],
             symbols' = symbols \o Variables(names),
             open # <<>>, Within = "declaration", End, UNCHANGED <<sets, current>>
      PROVE  NestInv'
  <2>1. Grown(symbols, Variables(names), names, current)
    <3>1. symbols \in Seq(SymbolType)
      BY DEF IndInv, TypeOK
    <3>2. Declares(Variables(names), names, current)
      BY VariablesOK
    <3> QED
      BY <1>2, <3>1, <3>2, DeclaredOK
  <2>2. SetsGrow
    BY <1>2, UnchangedSetsGrow
  <2>3. TagSetsOK' /\ SymbolsKept
    BY <2>1, <2>2, DeclaredTagSets DEF NestInv
  <2>4. Distinct(names)
    BY <1>2 DEF Distinct
  <2>5. UniqueNames'
    BY <1>2, <2>1, <2>3, <2>4, UniqueMore DEF NestInv
  <2>6. Within # "struct" /\ current \in 1..Len(sets)
    BY <1>2 DEF IndInv, TypeOK
  <2>7. ~IsStruct(current)
    BY <2>6 DEF NestInv, CurrentOK
  <2> QED
    BY <1>2, <2>3, <2>5, <2>6, <2>7, EndNest
<1> QED
  BY <1>1, <1>2, EndDeclarationEffect

LEMMA EndScopedNest == ASSUME IndInv, IndInv', NestInv, EndScoped PROVE NestInv'
<1>1. CASE Fatal("no parent")
  BY <1>1, FatalNest DEF Fatal
<1>2. CASE HasParent(current) /\ current' = Parent(current) /\ End /\ UNCHANGED <<sets, symbols>>
  <2>1. open # <<>> /\ Within # "struct"
    BY DEF EndScoped, Within
  <2>2. current \in 1..Len(sets) /\ ~IsStruct(current)
    BY <2>1 DEF IndInv, TypeOK, NestInv, CurrentOK
  <2>3. ~IsStruct(current') /\ current' \in 1..Len(sets)
    BY <1>2, <2>2, ParentOK, ParentPlain DEF NestInv
  <2> QED
    BY <1>2, <2>1, <2>3, SameNest, EndNest
<1> QED
  BY <1>1, <1>2 DEF EndScoped

LEMMA EndUnscopedNest == ASSUME IndInv, IndInv', NestInv, EndUnscoped PROVE NestInv'
<1>1. open # <<>> /\ Within # "struct" /\ End /\ UNCHANGED <<sets, symbols, current>>
  BY DEF EndUnscoped, Within
<1>2. current \in 1..Len(sets) /\ ~IsStruct(current)
  BY <1>1 DEF IndInv, TypeOK, NestInv, CurrentOK
<1> QED
  BY <1>1, <1>2, SameNest, EndNest

\* The else replaces the if ...
ElseReplaces ==
  /\ open # <<>> /\ Len(open') = Len(open) /\ Len(open) \in 1..Len(open)
  /\ open'[Len(open)].kind = "else" /\ open'[Len(open)].tag = NoSymbol
  /\ open'[Len(open)].inner = current'
  /\ \A k \in 1..Len(open) - 1 : SameConstruct(k)

LEMMA ElseOpens ==
  ASSUME IndInv, IndInv', Within = "if",
         open' = [open EXCEPT ![Len(open)] =
                    Construct("else", @.outer, current', NoSymbol, {})]
  PROVE  ElseReplaces
<1> DEFINE e == Construct("else", open[Len(open)].outer, current', NoSymbol, {})
<1>1. open # <<>> /\ current' \in Nat \ {0}
  BY DEF Within, IndInv, TypeOK
<1>2. /\ open \in Seq(ConstructType) /\ Len(open) \in 1..Len(open) /\ Len(open) \in Nat
      /\ open[Len(open)] \in ConstructType
  BY <1>1, OpenTop
<1>3. e \in ConstructType /\ e.kind = "else" /\ e.tag = NoSymbol /\ e.inner = current'
  BY <1>1, <1>2 DEF Construct, ConstructType, Kinds, NoSymbol
<1>4. open' = [open EXCEPT ![Len(open)] = e]
  OBVIOUS
<1> HIDE DEF e
<1>5. /\ Len(open') = Len(open)
      /\ \A k \in 1..Len(open) : open'[k] = IF k = Len(open) THEN e ELSE open[k]
  BY <1>2, <1>3, <1>4, ExceptSeq
<1>6. ASSUME NEW k \in 1..Len(open) - 1 PROVE open'[k] = open[k]
  <2>1. k \in 1..Len(open) /\ k # Len(open)
    BY <1>2
  <2> QED
    BY <1>5, <2>1
<1> QED
  BY <1>1, <1>2, <1>3, <1>5, <1>6 DEF ElseReplaces, SameConstruct, SameShape

\* ... in a new set beside it.
LEMMA ElseStructs ==
  ASSUME IndInv, IndInv', NestInv, SetsGrow, SymbolsKept, Within # "struct",
         ~IsStruct(current)', ElseReplaces
  PROVE  CurrentOK' /\ StructsOK'
<1>1. PICK n : n = Len(open)
  OBVIOUS
<1>2. /\ n \in Nat /\ n >= 1 /\ n \in 1..n /\ Len(open') = n
      /\ Within = open[n].kind /\ open[n].kind # "struct" /\ open'[n].kind = "else"
      /\ \A k \in 1..n - 1 : SameShape(k) /\ open'[k].names = open[k].names
  BY <1>1, OpenTop DEF ElseReplaces, SameConstruct
<1>3. Within' = "else"
  BY <1>2 DEF Within
<1>4. CurrentOK'
  BY <1>3 DEF CurrentOK
<1>5. ASSUME NEW k \in 1..n PROVE StructOK(k)'
  <2>1. CASE k = n
    BY <1>2, <2>1 DEF StructOK
  <2>2. CASE k # n
    <3>1. /\ SameShape(k) /\ (k > 1 => SameShape(k - 1))
          /\ open'[k].names = open[k].names
      BY <1>2, <2>2
    <3> QED
      BY <1>1, <3>1, StructStays DEF NestInv
  <2> QED
    BY <2>1, <2>2
<1>6. ASSUME NEW k \in 2..n, open'[k - 1].kind = "struct" PROVE open'[k].kind = "struct"
  <2>1. k - 1 \in 1..n - 1
    BY <1>2
  <2>2. open[k - 1].kind = "struct"
    BY <1>2, <1>6, <2>1 DEF SameShape
  <2>3. open[k].kind = "struct"
    BY <1>1, <2>2 DEF NestInv, StructsOK
  <2>4. k \in 1..n - 1
    BY <1>2, <2>3
  <2> QED
    BY <1>2, <2>3, <2>4 DEF SameShape
<1>7. StructsOK'
  BY <1>2, <1>5, <1>6 DEF StructsOK
<1> QED
  BY <1>4, <1>7

LEMMA BeginElseNest == ASSUME IndInv, IndInv', NestInv, BeginElse PROVE NestInv'
<1>1. CASE Fatal("no parent")
  BY <1>1, FatalNest DEF Fatal
<1>2. CASE /\ HasParent(current)
           /\ Enter(Parent(current), "BLOCK")
           /\ open' = [open EXCEPT ![Len(open)] =
                         Construct("else", @.outer, current', NoSymbol, {})]
           /\ UNCHANGED symbols
  <2>1. Within # "struct"
    BY DEF BeginElse
  <2>2. current \in 1..Len(sets) /\ ~IsStruct(current)
    BY <2>1 DEF IndInv, TypeOK, NestInv, CurrentOK
  <2>3. PICK p : p = Parent(current)
    OBVIOUS
  <2>4. p \in 1..Len(sets) /\ ~IsStruct(p)
    BY <1>2, <2>2, <2>3, ParentOK, ParentPlain DEF NestInv
  <2>5. Allocates(p, "BLOCK") /\ current' = Len(sets) + 1
    BY <1>2, <2>3 DEF Enter, Allocates
  <2>6. /\ SetsGrow /\ sets'[Len(sets) + 1].scope = "BLOCK"
    BY <2>4, <2>5, NewSetParts DEF Scopes
  <2>7. SetsOK'
    BY <2>4, <2>5, NewSetsOK DEF NestInv, Scopes
  <2>8. ~IsStruct(current)'
    BY <2>5, <2>6 DEF IsStruct
  <2>9. SymbolsKept
    BY <1>2, UnchangedKept
  <2>10. ElseReplaces
    BY <1>2, ElseOpens DEF BeginElse
  <2>11. CurrentOK' /\ StructsOK'
    BY <2>1, <2>6, <2>8, <2>9, <2>10, ElseStructs
  <2>12. TagSetsOK' /\ UniqueNames'
    BY <1>2, <2>6, <2>9, SameTagSets, UniqueStays DEF NestInv
  <2> QED
    BY <2>7, <2>11, <2>12 DEF NestInv
<1> QED
  BY <1>1, <1>2 DEF BeginElse

\* A label that no scope knew is new in its function's table.
LEMMA LabelNest ==
  ASSUME IndInv, IndInv', NestInv, NEW n \in Names, NEW pointing \in BOOLEAN, InStatements,
         Lookup(current, "LABEL", n) = NoSymbol, LabelOwner(current) # 0,
         Install(Label(n, pointing)), UNCHANGED <<sets, current, open>>
  PROVE  NestInv'
<1>1. current \in 1..Len(sets) /\ ~IsStruct(current)
  BY DEF IndInv, TypeOK, NestInv, CurrentOK, InStatements
<1>2. PICK k \in DOMAIN sets[current].chain : LabelOwner(current) = sets[current].chain[k]
  BY <1>1, LabelOwnerOnChain
<1>3. Table(LabelOwner(current), "LABEL", n) = {}
  BY <1>1, <1>2, MissedAbove DEF NestInv
<1>4. Label(n, pointing) \in SymbolType
  BY LabelOK
<1>5. /\ Label(n, pointing).ns = "LABEL" /\ Label(n, pointing).name = n
      /\ Label(n, pointing).owner = LabelOwner(current)
  BY DEF Label, Symbol
<1> QED
  BY <1>3, <1>4, <1>5, InstallNest

LEMMA GotoStatementNest ==
  ASSUME IndInv, IndInv', NestInv, NEW n \in Names, GotoStatement(n)
  PROVE  NestInv'
<1>1. CASE UNCHANGED <<sets, symbols, current, open>>
  BY <1>1, FatalNest
<1>2. CASE /\ Lookup(current, "LABEL", n) = NoSymbol
           /\ LabelOwner(current) # 0
           /\ Install(Label(n, FALSE))
           /\ UNCHANGED <<sets, current, open, bound, placed, outcome>>
  BY <1>2, LabelNest DEF GotoStatement
<1> QED
  BY <1>1, <1>2 DEF GotoStatement, Fatal

LEMMA LabelStatementNest ==
  ASSUME IndInv, IndInv', NestInv, NEW n \in Names, NEW empty \in BOOLEAN,
         LabelStatement(n, empty)
  PROVE  NestInv'
<1>1. CASE UNCHANGED <<sets, symbols, current, open>>
  BY <1>1, FatalNest
<1>2. CASE /\ InStatements
           /\ Lookup(current, "LABEL", n) = NoSymbol
           /\ LabelOwner(current) # 0
           /\ Install(Label(n, ~empty))
           /\ UNCHANGED <<sets, current, open, bound, outcome>>
  BY <1>2, LabelNest
<1> QED
  BY <1>1, <1>2 DEF LabelStatement, Fatal

\* A set for a struct below the current one.
LEMMA StructSetNest ==
  ASSUME IndInv, NestInv, Allocates(current, "STRUCT_OR_UNION"),
         NEW s, s = Len(sets) + 1
  PROVE  /\ SetsGrow /\ SetsOK' /\ s \in 1..Len(sets') /\ s \in Nat
         /\ IsStruct(s)' /\ Parent(s)' = current
<1>1. current \in 1..Len(sets) /\ Len(sets) \in Nat
  BY DEF IndInv, TypeOK
<1>2. /\ SetsGrow /\ Len(sets') = Len(sets) + 1
      /\ sets'[Len(sets) + 1].scope = "STRUCT_OR_UNION"
  BY <1>1, NewSetParts DEF Scopes
<1>3. SetsOK'
  BY <1>1, NewSetsOK DEF NestInv, Scopes
<1>4. Parent(s)' = current
  BY <1>1, NewParent DEF NestInv, Scopes
<1> QED
  BY <1>1, <1>2, <1>3, <1>4 DEF IsStruct

\* A tag that the current scope did not know, with a set for its type.
LEMMA NewTagNest ==
  ASSUME IndInv, IndInv', NestInv, NEW t \in Names, Allocates(current, "STRUCT_OR_UNION"),
         Lookup(current, "TAG", t) = NoSymbol, NEW s, s = Len(sets) + 1,
         Install(Tag(t, s))
  PROVE  /\ TagSetsOK' /\ UniqueNames' /\ SymbolsKept
         /\ symbols'[Len(symbols) + 1].owner = current
<1>1. /\ SetsGrow /\ s \in Nat /\ IsStruct(s)' /\ Parent(s)' = current
  BY StructSetNest
<1>2. current \in 1..Len(sets) /\ Len(symbols) \in Nat
  BY DEF IndInv, TypeOK
<1>3. PICK x : x = Tag(t, s)
  OBVIOUS
<1>4. /\ x \in SymbolType /\ x.owner = current /\ x.ns = "TAG" /\ x.tset = s
  BY <1>1, <1>3, TagOK
<1>5. x.name = t
  BY <1>3 DEF Tag, Symbol
<1>6. IsStruct(x.tset)' /\ Parent(x.tset)' = x.owner
  BY <1>1, <1>4 DEF IsStruct, Parent
<1>7. /\ TagSetsOK' /\ SymbolsKept
      /\ Len(symbols') = Len(symbols) + 1 /\ x = symbols'[Len(symbols')]
  BY <1>1, <1>3, <1>4, <1>6, InstallTagSets DEF NestInv, Install
<1>8. Table(x.owner, x.ns, x.name) = {}
  BY <1>2, <1>4, <1>5, MissedHere DEF NestInv
<1>9. UniqueNames'
  BY <1>7, <1>8, UniqueGrows DEF NestInv
<1> QED
  BY <1>4, <1>7, <1>9

LEMMA TagReferenceNest ==
  ASSUME IndInv, IndInv', NestInv, NEW t \in Names, TagReference(t)
  PROVE  NestInv'
<1>1. CASE UNCHANGED <<sets, symbols, current, open>>
  BY <1>1, FatalNest
<1>2. CASE /\ Lookup(current, "TAG", t) = NoSymbol
           /\ Allocates(current, "STRUCT_OR_UNION")
           /\ Install(Tag(t, Len(sets) + 1))
           /\ UNCHANGED <<current, open>>
  <2>1. SetsGrow /\ SetsOK'
    BY <1>2, StructSetNest
  <2>2. TagSetsOK' /\ UniqueNames' /\ SymbolsKept
    BY <1>2, NewTagNest
  <2>3. CurrentOK' /\ StructsOK'
    BY <1>2, <2>1, <2>2, SameOpen
  <2> QED
    BY <2>1, <2>2, <2>3 DEF NestInv
<1> QED
  BY <1>1, <1>2 DEF TagReference, Allocates

\* A struct opens in a set below the current one.
LEMMA NewStructNest ==
  ASSUME IndInv, IndInv', NestInv, Allocates(current, "STRUCT_OR_UNION"), SymbolsKept,
         current' = Len(sets) + 1, NEW c \in ConstructType, Begin(c),
         c.kind = "struct", c.inner = current', c.names = <<>>,
         c.tag # NoSymbol => symbols'[c.tag].owner = current
  PROVE  SetsGrow /\ SetsOK' /\ CurrentOK' /\ StructsOK'
<1>1. PICK s : s = Len(sets) + 1
  OBVIOUS
<1>2. /\ SetsGrow /\ SetsOK' /\ IsStruct(s)' /\ Parent(s)' = current
  BY <1>1, StructSetNest
<1>3. c.inner = s /\ current' = s
  BY <1>1
<1>4. IF Within = "struct" THEN current = open[Len(open)].inner ELSE ~IsStruct(current)
  BY DEF NestInv, CurrentOK
<1>5. current \in 1..Len(sets)
  BY DEF IndInv, TypeOK
<1>6. ~IsStruct(current) => ~(sets'[current].scope = "STRUCT_OR_UNION")
  BY <1>2, <1>5 DEF SetsGrow, IsStruct
<1>7. IF Within = "struct" THEN Parent(c.inner)' = open[Len(open)].inner
                           ELSE ~IsStruct(Parent(c.inner))'
  <2>1. Parent(c.inner)' = current
    BY <1>2, <1>3 DEF Parent
  <2> QED
    BY <1>4, <1>6, <2>1 DEF IsStruct
<1>8. IsStruct(c.inner)' /\ (c.tag # NoSymbol => symbols'[c.tag].owner = Parent(c.inner)')
  BY <1>2, <1>3 DEF Parent, IsStruct
<1>9. CurrentOK' /\ StructsOK'
  BY <1>2, <1>7, <1>8, PushStructs
<1> QED
  BY <1>2, <1>9

LEMMA BeginAnonymousNest == ASSUME IndInv, IndInv', NestInv, BeginAnonymous PROVE NestInv'
<1> DEFINE c == Construct("struct", current, current', NoSymbol, {"fresh"})
<1>1. /\ Allocates(current, "STRUCT_OR_UNION") /\ current' = Len(sets) + 1
      /\ UNCHANGED symbols /\ Begin(c)
  BY DEF BeginAnonymous, Enter, Allocates
<1>2. SymbolsKept
  BY <1>1, UnchangedKept
<1>3. /\ c \in ConstructType /\ c.kind = "struct" /\ c.inner = current' /\ c.tag = NoSymbol
      /\ c.names = <<>>
  <2>1. current \in Nat \ {0} /\ current' \in Nat \ {0}
    BY DEF IndInv, TypeOK
  <2> QED
    BY <2>1 DEF Construct, ConstructType, Kinds, NoSymbol
<1> HIDE DEF c
<1>4. SetsGrow /\ SetsOK' /\ CurrentOK' /\ StructsOK'
  BY <1>1, <1>2, <1>3, NewStructNest
<1>5. TagSetsOK' /\ UniqueNames'
  BY <1>1, <1>2, <1>4, SameTagSets, UniqueStays DEF NestInv
<1> QED
  BY <1>4, <1>5 DEF NestInv

LEMMA BeginTaggedNest ==
  ASSUME IndInv, IndInv', NestInv, NEW t \in Names, BeginTagged(t)
  PROVE  NestInv'
<1> DEFINE symbol == Lookup(current, "TAG", t)
           tset == symbols[symbol].tset
           known == Construct("struct", current, tset, symbol, {})
           new == Construct("struct", current, current', Len(symbols) + 1, {"fresh"})
<1>1. current \in 1..Len(sets) /\ current \in Nat \ {0} /\ current' \in Nat \ {0}
      /\ Len(symbols) \in Nat
  BY DEF IndInv, TypeOK
<1>2. CASE /\ symbol # NoSymbol
           /\ current' = tset
           /\ Begin(known)
           /\ UNCHANGED <<sets, symbols>>
  <2>1. PICK i, s : i = symbol /\ s = tset
    OBVIOUS
  <2>2. /\ i \in 1..Len(symbols) /\ symbols[i].ns = "TAG"
        /\ IsStruct(current) => symbols[i].owner = current
        /\ ~IsStruct(current) => ~IsStruct(symbols[i].owner)
    <3>1. i = Lookup(current, "TAG", t) /\ i # NoSymbol
      BY <1>2, <2>1
    <3> QED
      BY <1>1, <3>1, FoundOnChain DEF NestInv
  <2>3. s = symbols[i].tset /\ IsStruct(s) /\ Parent(s) = symbols[i].owner
    BY <2>1, <2>2 DEF NestInv, TagSetsOK, TagSetOK
  <2>4. PICK c : /\ c \in ConstructType /\ c.kind = "struct" /\ c.inner = s
                 /\ c.tag = i /\ c.names = <<>> /\ current' = s /\ Begin(c)
    <3>1. s \in Nat \ {0} /\ i \in Nat
      BY <1>1, <1>2, <2>1, <2>2
    <3>2. known = Construct("struct", current, s, i, {})
      BY <2>1
    <3>3. Begin(known)
      BY <1>2
    <3> HIDE DEF known
    <3>4. /\ known \in ConstructType /\ known.kind = "struct" /\ known.inner = s
          /\ known.tag = i /\ known.names = <<>>
      BY <1>1, <3>1, <3>2 DEF Construct, ConstructType, Kinds
    <3> QED
      BY <1>2, <2>1, <3>3, <3>4
  <2>5. SetsGrow /\ SymbolsKept
    BY <1>2, UnchangedSetsGrow, UnchangedKept
  <2>6. IF Within = "struct" THEN Parent(s) = open[Len(open)].inner
                             ELSE ~IsStruct(Parent(s))
    <3>1. CASE Within = "struct"
      <4>1. current = open[Len(open)].inner /\ Len(open) \in 1..Len(open)
            /\ open[Len(open)].kind = "struct"
        BY <3>1, OpenTop DEF NestInv, CurrentOK
      <4>2. IsStruct(current)
        BY <4>1 DEF NestInv, StructsOK, StructOK
      <4> QED
        BY <2>2, <2>3, <3>1, <4>1, <4>2
    <3>2. CASE Within # "struct"
      <4>1. ~IsStruct(current)
        BY <3>2 DEF NestInv, CurrentOK
      <4> QED
        BY <2>2, <2>3, <3>2, <4>1
    <3> QED
      BY <3>1, <3>2
  <2>7. CurrentOK' /\ StructsOK'
    <3>1. /\ IsStruct(c.inner)' /\ Parent(c.inner)' = Parent(s)
          /\ ~IsStruct(Parent(s)) => ~IsStruct(Parent(c.inner))'
      BY <1>2, <2>3, <2>4 DEF IsStruct, Parent
    <3>2. symbols'[c.tag].owner = Parent(c.inner)'
      BY <1>2, <2>3, <2>4, <3>1
    <3> QED
      BY <2>4, <2>5, <2>6, <3>1, <3>2, PushStructs
  <2>8. SetsOK' /\ TagSetsOK' /\ UniqueNames'
    BY <1>2, <2>5, SameSetsOK, SameTagSets, UniqueStays DEF NestInv
  <2> QED
    BY <2>7, <2>8 DEF NestInv
<1>3. CASE /\ symbol = NoSymbol
           /\ Enter(current, "STRUCT_OR_UNION")
           /\ Install(Tag(t, current'))
           /\ Begin(new)
  <2>1. Allocates(current, "STRUCT_OR_UNION") /\ current' = Len(sets) + 1
    BY <1>3 DEF Enter, Allocates
  <2>2. /\ TagSetsOK' /\ UniqueNames' /\ SymbolsKept
        /\ symbols'[Len(symbols) + 1].owner = current
    BY <1>3, <2>1, NewTagNest
  <2>3. /\ new \in ConstructType /\ new.kind = "struct" /\ new.inner = current'
        /\ new.tag = Len(symbols) + 1 /\ new.names = <<>> /\ Begin(new)
    BY <1>1, <1>3 DEF Construct, ConstructType, Kinds
  <2>4. SetsOK' /\ CurrentOK' /\ StructsOK'
    <3> HIDE DEF new
    <3> QED
      BY <2>1, <2>2, <2>3, NewStructNest
  <2> QED
    BY <2>2, <2>4 DEF NestInv
<1> QED
  BY <1>2, <1>3 DEF BeginTagged

\* Closing a struct only marks the one around it.
LEMMA EndInnerKeeps ==
  ASSUME IndInv, open # <<>>, NEW tag, EndInner(tag)
  PROVE  Len(open') = Len(open) - 1 /\ \A k \in 1..Len(open') : SameConstruct(k)
<1> DEFINE outer == Len(open) - 1
           rest == SubSeq(open, 1, outer)
           around == rest[outer]
           e == [around EXCEPT !.flags = @ \cup {"anonymous"}]
<1>1. open \in Seq(ConstructType) /\ Len(open) \in Nat \ {0} /\ outer \in Nat
  BY DEF IndInv, TypeOK
<1>2. /\ rest \in Seq(ConstructType)
      /\ Len(rest) = outer
      /\ \A k \in 1..outer : rest[k] = open[k]
  <2>1. outer \in 0..Len(open)
    BY <1>1
  <2> HIDE DEF outer
  <2> QED
    BY <1>1, <2>1, PrefixOK
<1>3. CASE open' = rest
  <2> HIDE DEF rest
  <2> QED
    BY <1>1, <1>2, <1>3 DEF SameConstruct, SameShape
<1>4. CASE outer > 0 /\ open' = [rest EXCEPT ![outer].flags = @ \cup {"anonymous"}]
  <2>1. outer \in 1..Len(rest) /\ around \in ConstructType
    <3> HIDE DEF rest
    <3> QED
      BY <1>1, <1>2, <1>4
  <2>2. /\ e \in ConstructType /\ e.tag = around.tag /\ e.kind = around.kind
        /\ e.inner = around.inner /\ around.flags \subseteq e.flags
        /\ e.names = around.names
    <3> HIDE DEF around
    <3> QED
      BY <2>1 DEF ConstructType
  <2>4. open' = [rest EXCEPT ![outer] = e]
    BY <1>4, Zenon
  <2>3. /\ Len(open') = Len(rest)
        /\ \A k \in 1..Len(rest) : open'[k] = IF k = outer THEN e ELSE rest[k]
    <3> HIDE DEF e, rest, outer
    <3> QED
      BY <1>2, <2>1, <2>2, <2>4, ExceptSeq
  <2> HIDE DEF e, rest
  <2> QED
    BY <1>1, <1>2, <2>2, <2>3 DEF SameConstruct, SameShape
<1> QED
  BY <1>3, <1>4, Zenon DEF EndInner

\* A definition is over: the parser is in p, where s is the new set of the
\* members, and the symbols are done and then the members.
StructEnds(p, s, tag, done, names, more) ==
  /\ p = Parent(current) /\ s = Len(sets) + 1 /\ tag = open[Len(open)].tag
  /\ Len(sets) < MaxSets /\ Allocates(p, "STRUCT_OR_UNION")
  /\ current' = p /\ EndInner(tag) /\ UNCHANGED placed
  /\ done \in Seq(SymbolType) /\ Len(done) = Len(symbols)
  /\ \A i \in 1..Len(symbols) : i # tag => done[i] = symbols[i]
  /\ tag # NoSymbol => /\ tag \in 1..Len(symbols) /\ ~symbols[tag].defined
                       /\ done[tag].ns = symbols[tag].ns
                       /\ done[tag].owner = symbols[tag].owner
                       /\ done[tag].name = symbols[tag].name
                       /\ done[tag].defined
                       /\ done[tag].body = {names[k] : k \in 1..Len(names)}
                       /\ done[tag].tset = IF "fresh" \in open[Len(open)].flags
                                           THEN s ELSE symbols[tag].tset
  /\ names = open[Len(open)].names /\ names \in Seq(Names)
  /\ Declares(more, names, s) /\ symbols' = done \o more

LEMMA DefinitionNest ==
  ASSUME IndInv, IndInv', NestInv, open # <<>>, Within = "struct",
         NEW p, NEW s, NEW tag, NEW done, NEW names, NEW more,
         StructEnds(p, s, tag, done, names, more)
  PROVE  NestInv'
<1> USE DEF StructEnds
<1>0. \A i \in 1..Len(symbols) :
        /\ done[i].ns = symbols[i].ns
        /\ done[i].owner = symbols[i].owner
        /\ done[i].name = symbols[i].name
        /\ done[i].tset = symbols[i].tset \/ (i = tag /\ tag # NoSymbol /\ done[i].tset = s)
  <2>1. NoSymbol \notin 1..Len(symbols)
    BY DEF NoSymbol, IndInv, TypeOK
  <2> QED
    BY <2>1
<1>1. PICK n : n = Len(open)
  OBVIOUS
<1>2. /\ n \in 1..Len(open) /\ n \in Nat /\ open[n].kind = "struct" /\ current = open[n].inner
      /\ current \in 1..Len(sets) /\ IsStruct(current) /\ tag = open[n].tag
  <2>1. n \in 1..Len(open) /\ n \in Nat /\ open[n].kind = "struct"
    BY <1>1, OpenTop
  <2>2. current = open[n].inner
    BY <1>1 DEF NestInv, CurrentOK
  <2> QED
    BY <1>1, <2>1, <2>2 DEF NestInv, StructsOK, StructOK
<1>3. HasParent(current) /\ p \in 1..Len(sets)
  BY <1>2, StructParent DEF NestInv
<1>4. /\ SetsGrow /\ Len(sets) \in Nat /\ Len(sets') = Len(sets) + 1
      /\ sets'[Len(sets) + 1].scope = "STRUCT_OR_UNION"
  BY <1>3, NewSetParts DEF Scopes
<1>5. SetsOK'
  BY <1>3, NewSetsOK DEF NestInv, Scopes
<1>6. IsStruct(s)' /\ Parent(s)' = p
  <2>1. Parent(s)' = p
    BY <1>3, NewParent DEF NestInv, Scopes
  <2> QED
    BY <1>4, <2>1 DEF IsStruct
<1>16. Len(done) = Len(symbols) /\ names \in Seq(Names) /\ Grown(done, more, names, s)
  <2>1. /\ done \in Seq(SymbolType) /\ Len(done) = Len(symbols)
        /\ names \in Seq(Names) /\ Declares(more, names, s)
        /\ symbols' = done \o more
    OBVIOUS
  <2> QED
    BY ONLY <2>1, DeclaredOK
<1>7. /\ Len(symbols) \in Nat /\ Len(names) \in Nat
      /\ Len(symbols') = Len(symbols) + Len(names)
      /\ \A i \in 1..Len(symbols) : symbols'[i] = done[i]
      /\ \A i \in (Len(symbols) + 1)..Len(symbols') : symbols'[i].ns = "GENERAL"
  <2>1. Len(symbols) \in Nat /\ Len(names) \in Nat
    BY <1>16 DEF IndInv, TypeOK
  <2> QED
    BY ONLY <1>16, <2>1 DEF Grown
<1>8. SymbolsKept
  BY <1>0, <1>7 DEF SymbolsKept
<1>9. CurrentOK' /\ StructsOK'
  <2>1. Len(open') = Len(open) - 1 /\ \A k \in 1..Len(open') : SameConstruct(k)
    BY EndInnerKeeps
  <2>2. IF n > 1 /\ open[n - 1].kind = "struct" THEN p = open[n - 1].inner ELSE ~IsStruct(p)
    BY <1>2 DEF NestInv, StructsOK, StructOK
  <2>3. ~IsStruct(p) => ~IsStruct(current)'
    BY <1>3, <1>4 DEF SetsGrow, IsStruct
  <2>4. IF Len(open) > 1 /\ open[Len(open) - 1].kind = "struct"
        THEN current' = open[Len(open) - 1].inner ELSE ~IsStruct(current)'
    BY <1>1, <2>2, <2>3
  <2> QED
    BY <1>4, <1>8, <2>1, <2>4, PopStructs
<1>10. ASSUME NEW i \in 1..Len(symbols) PROVE TagSetOK(i)'
  <2>1. CASE done[i].tset = symbols[i].tset
    BY <1>0, <1>4, <1>7, <2>1, TagSetStays DEF NestInv
  <2>2. CASE i = tag /\ tag # NoSymbol /\ done[i].tset = s
    <3>1. symbols[i].owner = p
      BY <1>2, <2>2 DEF NestInv, StructsOK, StructOK
    <3>2. symbols'[i].tset = s /\ symbols'[i].owner = p
      BY <1>0, <1>7, <2>2, <3>1
    <3> QED
      BY <1>6, <3>2 DEF TagSetOK, IsStruct, Parent
  <2> QED
    BY <1>0, <2>1, <2>2
<1>11. ASSUME NEW i \in (Len(symbols) + 1)..Len(symbols') PROVE TagSetOK(i)'
  BY <1>7, <1>11 DEF TagSetOK
<1>12. TagSetsOK'
  <2>1. \A i \in 1..Len(symbols') :
          i \in 1..Len(symbols) \/ i \in (Len(symbols) + 1)..Len(symbols')
    BY <1>7
  <2> QED
    BY <1>10, <1>11, <2>1 DEF TagSetsOK
<1>13. \A k \in 1..Len(names) : Table(s, "GENERAL", names[k]) = {}
  <2>1. \A i \in DOMAIN symbols : symbols[i].owner # s
    BY <1>4 DEF IndInv, TypeOK, OwnersOK
  <2> QED
    BY <2>1 DEF Table
<1>15. Distinct(names)
  <2>1. Distinct(open[n].names)
    BY <1>2 DEF NestInv, StructsOK, StructOK
  <2> QED
    BY <1>1, <2>1, Zenon
<1>14. UniqueNames'
  BY <1>8, <1>13, <1>15, <1>16, UniqueMore DEF NestInv
<1> QED
  BY <1>5, <1>9, <1>12, <1>14 DEF NestInv

\* What an EndStruct does, unless it ends the process.
LEMMA EndStructEffect ==
  ASSUME IndInv, EndStruct
  PROVE  /\ Within = "struct" /\ open # <<>>
         /\ \/ UNCHANGED <<sets, symbols, current, open, placed>>
            \/ \E p, s, tag, done, names, more :
                 StructEnds(p, s, tag, done, names, more)
<1>1. Within = "struct" /\ open # <<>>
  BY EndStructCases
<1>2. CASE \E reason \in {"no parent", "tag redefined", "incomplete member"} :
             Fatal(reason)
  BY <1>1, <1>2 DEF Fatal
<1>3. CASE StructDefined
  <2>1. PICK p, s, tag, done, names, more :
          /\ p = Parent(current) /\ s = Len(sets) + 1 /\ tag = open[Len(open)].tag
          /\ done = StructDone /\ names = open[Len(open)].names
          /\ more = Members(names, s)
    OBVIOUS
  <2>2. /\ current \in 1..Len(sets) /\ Len(sets) \in Nat
        /\ symbols \in Seq(SymbolType) /\ Len(symbols) \in Nat
    BY DEF IndInv, TypeOK
  <2>3. Parent(current) \in 1..Len(sets)
    BY <1>3, <2>2, ParentOK DEF StructDefined
  <2>4. SetsGrow /\ Len(sets') = Len(sets) + 1
    BY <1>3, <2>3, NewSetGrows DEF Scopes, StructDefined
  <2>5. /\ DoneOK(done) /\ names \in Seq(Names) /\ MemberNames \in SUBSET Names
        /\ tag # NoSymbol => /\ tag \in 1..Len(symbols)
                             /\ EndedTset \in 1..Len(sets')
    BY <1>1, <2>1, <2>4, StructDoneOK
  <2>6. MemberNames = {names[k] : k \in 1..Len(names)}
    <3>1. MemberNames = {names[k] : k \in DOMAIN names}
      BY <2>1 DEF MemberNames
    <3> QED
      BY <2>5, <3>1
  <2>7. /\ done \in Seq(SymbolType) /\ Len(done) = Len(symbols)
        /\ \A i \in 1..Len(symbols) : /\ done[i].name = symbols[i].name
                                      /\ done[i].ns = symbols[i].ns
                                      /\ done[i].owner = symbols[i].owner
    BY <2>5 DEF DoneOK
  <2>8. /\ \A i \in 1..Len(symbols) : i # tag => done[i] = symbols[i]
        /\ tag # NoSymbol => /\ done[tag].defined
                             /\ done[tag].body = MemberNames
                             /\ done[tag].tset = EndedTset
    <3>1. CASE tag = NoSymbol
      <4>1. done = symbols
        BY <2>1, <3>1 DEF StructDone
      <4> QED
        BY <3>1, <4>1
    <3>2. CASE tag # NoSymbol
      <4>1. done = Complete(tag, EndedTset, MemberNames)
        BY <2>1, <3>2 DEF StructDone
      <4>2. PICK u, b, c : /\ u = EndedTset /\ b = MemberNames
                           /\ c = Completed(symbols[tag], u, b)
        OBVIOUS
      <4>3. \A i \in 1..Len(symbols) : done[i] = IF i = tag THEN c ELSE symbols[i]
        <5>1. /\ tag \in 1..Len(symbols) /\ u \in 1..Len(sets') /\ b \in SUBSET Names
              /\ done = Complete(tag, u, b)
          BY <2>5, <3>2, <4>1, <4>2
        <5>2. \A i \in 1..Len(symbols) :
                Complete(tag, u, b)[i] = IF i = tag THEN Completed(symbols[tag], u, b)
                                                    ELSE symbols[i]
          BY <2>4, <5>1, CompleteOK
        <5> QED
          BY <4>2, <5>1, <5>2, Zenon
      <4>4. symbols[tag] \in SymbolType
        BY <2>2, <2>5, <3>2
      <4>5. c.defined = TRUE /\ c.body = b /\ c.tset = u
        BY <4>2, <4>4 DEF Completed, SymbolType
      <4>6. done[tag] = c
        BY <2>5, <3>2, <4>3
      <4> QED
        BY <4>2, <4>3, <4>5, <4>6
    <3> QED
      BY <3>1, <3>2
  <2>9. tag # NoSymbol => ~symbols[tag].defined
    BY <1>3, <2>1 DEF StructDefined, Redefines
  <2>10. EndedTset = IF "fresh" \in open[Len(open)].flags THEN s ELSE symbols[tag].tset
    BY <2>1, Zenon DEF EndedTset
  <2>11. Declares(more, names, s)
    <3>1. s \in Nat \ {0}
      BY <2>1, <2>2
    <3> QED
      BY <2>1, <2>5, <3>1, MembersOK
  <2>12. /\ Len(sets) < MaxSets /\ Allocates(p, "STRUCT_OR_UNION")
         /\ current' = p /\ EndInner(tag) /\ UNCHANGED placed
         /\ symbols' = done \o more
    BY <1>3, <2>1 DEF StructDefined, Allocates
  <2>13. StructEnds(p, s, tag, done, names, more)
    BY <2>1, <2>5, <2>6, <2>7, <2>8, <2>9, <2>10, <2>11, <2>12, Zenon DEF StructEnds
  <2> QED
    BY <1>1, <2>13
<1> QED
  BY <1>2, <1>3, EndStructCases

LEMMA EndStructNest == ASSUME IndInv, IndInv', NestInv, EndStruct PROVE NestInv'
<1>1. CASE UNCHANGED <<sets, symbols, current, open>>
  BY <1>1, FatalNest
<1>2. ASSUME NEW p, NEW s, NEW tag, NEW done, NEW names, NEW more,
             StructEnds(p, s, tag, done, names, more)
      PROVE  NestInv'
  BY <1>2, EndStructEffect, DefinitionNest
<1> QED
  BY <1>1, <1>2, EndStructEffect

-----------------------------------------------------------------------------
LEMMA InitNest == Init => NestInv
<1> SUFFICES ASSUME Init PROVE NestInv
  OBVIOUS
<1>0. PICK c : c = <<1>>
  OBVIOUS
<1>1. /\ Len(sets) = 1 /\ sets[1].chain = c /\ sets[1].scope = "GLOBAL"
      /\ symbols = <<>> /\ Len(symbols) = 0 /\ current = 1 /\ open = <<>> /\ Len(open) = 0
  BY <1>0 DEF Init, Global
<1>2. ASSUME NEW s \in 1..Len(sets) PROVE SetOK(s)
  <2>1. s = 1
    BY <1>1
  <2>2. Len(c) = 1 /\ DOMAIN c = 1..1 /\ c[1] = 1
    BY <1>0
  <2>3. Len(sets[s].chain) = 1 /\ DOMAIN sets[s].chain = 1..1 /\ sets[s].chain[1] = 1
    BY <1>1, <2>1, <2>2, Zenon
  <2>4. ASSUME NEW i \in DOMAIN sets[s].chain PROVE i = 1
    BY <2>3
  <2>5. ASSUME NEW i \in DOMAIN sets[s].chain, NEW j \in DOMAIN sets[s].chain PROVE ~(i < j)
    <3>1. i = 1 /\ j = 1
      BY <2>4
    <3> QED
      BY <3>1
  <2>6. ~HasParent(s) /\ s = Global /\ sets[s].scope = "GLOBAL"
    <3>1. s = Global /\ sets[s].scope = "GLOBAL"
      BY <1>1, <2>1 DEF Global
    <3>2. PICK m : m = Len(sets[s].chain)
      OBVIOUS
    <3>3. m = 1
      BY <2>3, <3>2, Zenon
    <3>4. HasParent(s) <=> m > 1
      BY <3>2, Zenon DEF HasParent
    <3>5. ~(m > 1)
      BY <3>3
    <3> QED
      BY <3>1, <3>4, <3>5, Zenon
  <2>7. \A k \in DOMAIN sets[s].chain : ~IsStruct(sets[s].chain[k])
    BY <2>1, <2>3, <2>4, <2>6 DEF IsStruct
  <2> QED
    BY <2>1, <2>3, <2>5, <2>6, <2>7, Zenon DEF SetOK
<1>3. SetsOK
  BY <1>2 DEF SetsOK
<1>4. CurrentOK
  BY <1>1 DEF CurrentOK, Within, IsStruct
<1>5. StructsOK
  BY <1>1 DEF StructsOK
<1>6. TagSetsOK /\ UniqueNames
  BY <1>1 DEF TagSetsOK, UniqueNames
<1> QED
  BY <1>3, <1>4, <1>5, <1>6 DEF NestInv

LEMMA NextNest == IndInv /\ NestInv /\ [Next]_vars => NestInv'
<1> SUFFICES ASSUME IndInv, NestInv, [Next]_vars PROVE NestInv'
  OBVIOUS
<1>0. IndInv'
  BY NextIndInv
<1>1. ASSUME NEW n \in Names, BeginDeclaration(n) PROVE NestInv'
  BY <1>0, <1>1, BeginDeclarationNest
<1>2. ASSUME NEW n \in Names, UseIdentifier(n) PROVE NestInv'
  BY <1>0, <1>2, UseIdentifierNest
<1>3. ASSUME NEW n \in Names, BeginFunction(n) PROVE NestInv'
  BY <1>0, <1>3, BeginFunctionNest
<1>4. ASSUME NEW n \in Names, GotoStatement(n) PROVE NestInv'
  BY <1>0, <1>4, GotoStatementNest
<1>5. ASSUME NEW n \in Names, NEW empty \in BOOLEAN, LabelStatement(n, empty)
      PROVE NestInv'
  BY <1>0, <1>5, LabelStatementNest
<1>6. ASSUME NEW n \in Names, TagReference(n) PROVE NestInv'
  BY <1>0, <1>6, TagReferenceNest
<1>7. ASSUME NEW n \in Names, BeginTagged(n) PROVE NestInv'
  BY <1>0, <1>7, BeginTaggedNest
<1>8. CASE EndStruct
  BY <1>0, <1>8, EndStructNest
<1>9. ASSUME NEW kind \in {"if", "while"}, BeginStatement(kind) PROVE NestInv'
  BY <1>0, <1>9, BeginStatementNest
<1>10. CASE BeginPlain
  BY <1>0, <1>10, BeginPlainNest
<1>11. CASE EndScoped
  BY <1>0, <1>11, EndScopedNest
<1>12. CASE EndUnscoped
  BY <1>0, <1>12, EndUnscopedNest
<1>13. CASE BeginElse
  BY <1>0, <1>13, BeginElseNest
<1>14. CASE GotoNodeLost
  BY <1>0, <1>14, FatalNest DEF GotoNodeLost, Fatal
<1>15. CASE BeginAnonymous
  BY <1>0, <1>15, BeginAnonymousNest
<1>16. CASE EndStructCrash
  BY <1>0, <1>16, FatalNest DEF EndStructCrash, Fatal
<1>18. ASSUME NEW n \in Names,
              NextDeclarator(n) \/ \E type \in MemberTypes : DeclareMember(n, type)
       PROVE  NestInv'
  BY <1>0, <1>18, DeclaratorNest
<1>19. CASE EndDeclaration
  BY <1>0, <1>19, EndDeclarationNest
<1>17. CASE UNCHANGED vars
  BY <1>0, <1>17, FatalNest DEF vars
<1> QED
  BY <1>1, <1>2, <1>3, <1>4, <1>5, <1>6, <1>7, <1>8, <1>9, <1>10, <1>11,
     <1>12, <1>13, <1>14, <1>15, <1>16, <1>17, <1>18, <1>19,
     Zenon DEF Next

LEMMA Nesting == Spec => []NestInv
<1> QED
  BY InitNest, NextNest, Invariance, PTL DEF Spec

(* No table ever holds two symbols of one name, whatever constructs the program
   uses and however they nest: what the three installers test before they
   install (scope.c:68, scope_helpers.c:128, ast_constructors.c:349) is enough
   in every state the parser reaches. *)
THEOREM NamesAreUnique == Spec => []UniqueNames
<1>1. NestInv => UniqueNames
  BY DEF NestInv
<1> QED
  BY <1>1, Nesting, PTL

-----------------------------------------------------------------------------
(***************************************************************************)
(* Translation units without the constructs that break the correspondence  *)
(* of the current set and the open constructs: references to a tag ahead   *)
(* of its definition, which the theorems above can do with, and while.     *)
(***************************************************************************)
-----------------------------------------------------------------------------
(* Tags without references: the inductive invariant.                        *)

\* Everything inside a struct is a struct, with a younger set.
Stacked ==
  \A j, k \in 1..Len(open) :
    j < k /\ open[j].kind = "struct" => /\ open[k].kind = "struct"
                                        /\ open[j].inner < open[k].inner

\* A body is the first of its type, or the tag has one already.
MarkOK(k) ==
  IF open[k].kind = "struct"
  THEN "fresh" \in open[k].flags
         \/ (open[k].tag # NoSymbol /\ symbols[open[k].tag].defined)
  ELSE open[k].tag = NoSymbol

MarksOK == \A k \in 1..Len(open) : MarkOK(k)

\* A tag is incomplete only within its definition.
IncompleteIsOpen(i) ==
  symbols[i].ns = "TAG" /\ ~symbols[i].defined => \E k \in 1..Len(open) : open[k].tag = i

\* The identifiers a set declares.
NamesIn(u) ==
  {symbols[j].name : j \in {k \in 1..Len(symbols) : /\ symbols[k].ns = "GENERAL"
                                                   /\ symbols[k].owner = u}}

HasMembers(i) ==
  symbols[i].ns = "TAG" /\ symbols[i].defined => NamesIn(symbols[i].tset) = symbols[i].body

TagInv ==
  /\ Stacked /\ MarksOK
  /\ \A i \in 1..Len(symbols) : IncompleteIsOpen(i) /\ HasMembers(i)

\* The symbols stay what they are, and there may be more.
SymbolsExtend ==
  /\ Len(symbols') >= Len(symbols)
  /\ \A i \in 1..Len(symbols) : symbols'[i] = symbols[i]

LEMMA UnchangedExtend == ASSUME IndInv, UNCHANGED symbols PROVE SymbolsExtend
BY DEF IndInv, TypeOK, SymbolsExtend

LEMMA InstallExtends ==
  ASSUME IndInv, NEW x \in SymbolType, Install(x)
  PROVE  /\ SymbolsExtend /\ Len(symbols) \in Nat /\ Len(symbols') = Len(symbols) + 1
         /\ symbols'[Len(symbols) + 1] = x
BY InstallOK DEF Install, IndInv, TypeOK, SymbolsExtend

LEMMA ExtendKept == ASSUME SymbolsExtend PROVE SymbolsKept
BY DEF SymbolsExtend, SymbolsKept

\* What is installed where the parser is, outside every struct.
Outside(i) ==
  symbols'[i].ns = "GENERAL" => symbols'[i].owner = current /\ ~IsStruct(current)

\* The names of a set that gets none.
LEMMA NamesStay ==
  ASSUME IndInv, IndInv', SymbolsKept, NEW u,
         \A i \in Len(symbols) + 1..Len(symbols') :
           ~(symbols'[i].ns = "GENERAL" /\ symbols'[i].owner = u)
  PROVE  NamesIn(u)' = NamesIn(u)
<1> DEFINE old == {k \in 1..Len(symbols) : symbols[k].ns = "GENERAL" /\ symbols[k].owner = u}
           new == {k \in 1..Len(symbols') : symbols'[k].ns = "GENERAL" /\ symbols'[k].owner = u}
<1>1. Len(symbols) \in Nat /\ Len(symbols') \in Nat
  BY DEF IndInv, TypeOK
<1>2. old \subseteq new
  BY <1>1 DEF SymbolsKept
<1>3. ASSUME NEW k \in new PROVE k \in old
  <2>1. k \in 1..Len(symbols)
    BY <1>1, <1>3
  <2> QED
    BY <1>3, <2>1 DEF SymbolsKept
<1>4. new = old
  BY <1>2, <1>3
<1>5. \A j \in old : symbols'[j].name = symbols[j].name
  BY DEF SymbolsKept
<1>6. NamesIn(u) = {symbols[j].name : j \in old}
  BY DEF NamesIn
<1>7. NamesIn(u)' = {symbols'[j].name : j \in new}
  BY DEF NamesIn
<1> HIDE DEF old, new
<1> QED
  BY <1>4, <1>5, <1>6, <1>7

\* A complete tag's names stay as long as nothing is declared in a struct's set.
LEMMA MembersStay ==
  ASSUME IndInv, IndInv', NestInv, SymbolsKept, NEW i \in 1..Len(symbols),
         symbols'[i] = symbols[i], HasMembers(i),
         \A j \in Len(symbols) + 1..Len(symbols') :
           \/ Outside(j)
           \/ symbols'[j].owner \notin 1..Len(sets)
  PROVE  HasMembers(i)'
<1> SUFFICES ASSUME symbols[i].ns = "TAG", symbols[i].defined
             PROVE  NamesIn(symbols[i].tset)' = symbols[i].body
  BY DEF HasMembers
<1>1. PICK u : u = symbols[i].tset
  OBVIOUS
<1>2. u \in 1..Len(sets) /\ IsStruct(u) /\ NamesIn(u) = symbols[i].body
  BY <1>1 DEF NestInv, TagSetsOK, TagSetOK, IndInv, OwnersOK, HasMembers
<1>3. \A j \in Len(symbols) + 1..Len(symbols') :
        ~(symbols'[j].ns = "GENERAL" /\ symbols'[j].owner = u)
  BY <1>2 DEF Outside
<1>4. NamesIn(u)' = NamesIn(u)
  BY <1>3, NamesStay
<1>5. symbols'[i].tset = u
  BY <1>1
<1>6. NamesIn(symbols[i].tset)' = NamesIn(u)'
  BY ONLY <1>5, Zenon DEF NamesIn
<1> QED
  BY <1>2, <1>4, <1>6

\* The constructs with tags stay open.
TagsStay ==
  \A k \in 1..Len(open) :
    open[k].tag # NoSymbol => k \in 1..Len(open') /\ open'[k].tag = open[k].tag

\* A step that completes no tag.
LEMMA TagStep ==
  ASSUME IndInv, IndInv', NestInv, TagInv, SymbolsExtend, TagsStay, Stacked', MarksOK',
         \A i \in Len(symbols) + 1..Len(symbols') :
           /\ symbols'[i].ns = "TAG" => /\ ~symbols'[i].defined
                                        /\ \E k \in 1..Len(open') : open'[k].tag = i
           /\ Outside(i)
  PROVE  TagInv'
<1>1. Len(symbols) \in Nat /\ Len(symbols') \in Nat
  BY DEF IndInv, TypeOK
<1>2. ASSUME NEW i \in 1..Len(symbols) PROVE IncompleteIsOpen(i)' /\ HasMembers(i)'
  <2>1. symbols'[i] = symbols[i] /\ IncompleteIsOpen(i) /\ HasMembers(i)
    BY DEF SymbolsExtend, TagInv
  <2>2. IncompleteIsOpen(i)'
    <3> SUFFICES ASSUME symbols[i].ns = "TAG", ~symbols[i].defined
                 PROVE  \E k \in 1..Len(open') : open'[k].tag = i
      BY <2>1 DEF IncompleteIsOpen
    <3>1. PICK k \in 1..Len(open) : open[k].tag = i
      BY <2>1 DEF IncompleteIsOpen
    <3>2. i # NoSymbol
      BY <1>1 DEF NoSymbol
    <3> QED
      BY <3>1, <3>2 DEF TagsStay
  <2>3. HasMembers(i)'
    BY <2>1, ExtendKept, MembersStay
  <2> QED
    BY <2>2, <2>3
<1>3. ASSUME NEW i \in Len(symbols) + 1..Len(symbols')
      PROVE  IncompleteIsOpen(i)' /\ HasMembers(i)'
  BY DEF IncompleteIsOpen, HasMembers
<1>4. \A i \in 1..Len(symbols') :
        i \in 1..Len(symbols) \/ i \in Len(symbols) + 1..Len(symbols')
  BY <1>1
<1>5. \A i \in 1..Len(symbols') : IncompleteIsOpen(i)' /\ HasMembers(i)'
  BY <1>2, <1>3, <1>4
<1> QED
  BY <1>5 DEF TagInv

\* No tag loses its definition.
DefinedStays == \A i \in 1..Len(symbols) : symbols[i].defined => symbols'[i].defined

LEMMA ExtendDefined == ASSUME SymbolsExtend PROVE DefinedStays
BY DEF SymbolsExtend, DefinedStays

LEMMA MarkStays ==
  ASSUME IndInv, DefinedStays, NEW k \in 1..Len(open), MarkOK(k), SameShape(k)
  PROVE  MarkOK(k)'
<1>1. /\ open'[k].kind = open[k].kind /\ open'[k].tag = open[k].tag
      /\ "fresh" \in open[k].flags => "fresh" \in open'[k].flags
  BY DEF SameShape
<1>2. open[k].tag # NoSymbol /\ symbols[open[k].tag].defined => symbols'[open[k].tag].defined
  BY DEF IndInv, TagsOK, DefinedStays
<1> QED
  BY <1>1, <1>2 DEF MarkOK

\* Nothing opens or closes and no tag is made.
LEMMA SameOpenTags ==
  ASSUME IndInv, IndInv', NestInv, TagInv, SymbolsExtend, Len(open') = Len(open),
         \A k \in 1..Len(open) : SameShape(k),
         \A i \in Len(symbols) + 1..Len(symbols') : symbols'[i].ns # "TAG" /\ Outside(i)
  PROVE  TagInv'
<1>1. Stacked' /\ TagsStay
  BY DEF TagInv, Stacked, TagsStay, SameShape
<1>2. ASSUME NEW k \in 1..Len(open) PROVE MarkOK(k)'
  BY MarkStays, ExtendDefined DEF TagInv, MarksOK, SameShape
<1>3. MarksOK'
  BY <1>2 DEF MarksOK
<1> QED
  BY <1>1, <1>3, TagStep

LEMMA SameSymbolsTags ==
  ASSUME IndInv, IndInv', NestInv, TagInv, UNCHANGED <<open, symbols>> PROVE TagInv'
<1>1. SymbolsExtend
  BY UnchangedExtend
<1>2. Len(symbols) + 1..Len(symbols') = {}
  BY DEF IndInv, TypeOK
<1>3. Len(open') = Len(open) /\ \A k \in 1..Len(open) : SameShape(k)
  BY DEF SameShape
<1> QED
  BY <1>1, <1>2, <1>3, SameOpenTags

\* Another declarator.
LEMMA DeclaratorTags ==
  ASSUME IndInv, IndInv', NestInv, TagInv, NEW n \in Names,
         NextDeclarator(n) \/ \E type \in MemberTypes : DeclareMember(n, type)
  PROVE  TagInv'
<1>1. open # <<>>
  BY NextDeclaratorOK, DeclareMemberOK
<1>2. PICK names \in Seq(Names), types \in SUBSET Nat : Declare(names, types)
  BY NextDeclaratorOK, DeclareMemberOK
<1>3. Len(open') = Len(open) /\ \A k \in 1..Len(open) : SameShape(k)
  BY <1>1, <1>2, DeclareShape
<1>4. SymbolsExtend /\ Len(symbols) + 1..Len(symbols') = {}
  BY <1>2, UnchangedExtend DEF Declare, IndInv, TypeOK
<1> QED
  BY <1>3, <1>4, SameOpenTags

LEMMA InstallTags ==
  ASSUME IndInv, IndInv', NestInv, TagInv, NEW x \in SymbolType, Install(x), x.ns = "LABEL",
         UNCHANGED open
  PROVE  TagInv'
<1>1. /\ SymbolsExtend /\ Len(symbols) \in Nat /\ Len(symbols') = Len(symbols) + 1
      /\ symbols'[Len(symbols) + 1] = x
  BY InstallExtends
<1>2. \A i \in Len(symbols) + 1..Len(symbols') : i = Len(symbols) + 1
  BY <1>1
<1>3. Len(open') = Len(open) /\ \A k \in 1..Len(open) : SameShape(k)
  BY DEF SameShape
<1>4. \A i \in Len(symbols) + 1..Len(symbols') : symbols'[i].ns # "TAG" /\ Outside(i)
  BY <1>1, <1>2 DEF Outside
<1> QED
  BY <1>1, <1>3, <1>4, SameOpenTags

\* A construct opens.
LEMMA PushMarks ==
  ASSUME IndInv, IndInv', NestInv, TagInv, SymbolsExtend, NEW c \in ConstructType, Begin(c),
         c.kind # "struct" => Within # "struct" /\ c.tag = NoSymbol,
         c.kind = "struct" =>
           /\ "fresh" \in c.flags \/ (c.tag # NoSymbol /\ symbols'[c.tag].defined)
           /\ Within = "struct" => open[Len(open)].inner < c.inner
  PROVE  Stacked' /\ MarksOK' /\ TagsStay
<1>1. PICK n : n = Len(open)
  OBVIOUS
<1>2. /\ n \in Nat /\ Len(open') = n + 1
      /\ \A k \in 1..n : open'[k] = open[k]
      /\ open'[n + 1] = c
  BY <1>1, BeginOK, OpenTop DEF Begin
<1>3. ASSUME NEW j \in 1..n + 1, NEW k \in 1..n + 1, j < k, open'[j].kind = "struct"
      PROVE  open'[k].kind = "struct" /\ open'[j].inner < open'[k].inner
  <2>1. j \in 1..n /\ open'[j] = open[j] /\ n \in 1..n
    BY <1>2, <1>3
  <2>2. CASE k \in 1..n
    BY <1>1, <1>2, <1>3, <2>1, <2>2 DEF TagInv, Stacked
  <2>3. CASE k = n + 1
    <3>1. /\ open[n].kind = "struct" /\ open[j].inner <= open[n].inner
          /\ open[j].inner \in Nat /\ open[n].inner \in Nat
      <4>1. /\ open \in Seq(ConstructType) /\ open[j] \in ConstructType /\ open[n] \in ConstructType
        BY <1>1, <2>1, OpenTop
      <4>2. open[j].inner \in Nat /\ open[n].inner \in Nat
        BY <4>1 DEF ConstructType
      <4>3. CASE j = n
        BY <1>3, <2>1, <4>2, <4>3
      <4>4. CASE j # n
        <5>1. j < n
          BY <1>2, <2>1, <4>4
        <5>2. open[n].kind = "struct" /\ open[j].inner < open[n].inner
          BY <1>1, <1>3, <2>1, <5>1 DEF TagInv, Stacked
        <5> QED
          BY <4>2, <5>2
      <4> QED
        BY <4>3, <4>4
    <3>2. Within = "struct"
      BY <1>1, <2>1, <3>1, OpenTop
    <3>3. c.kind = "struct" /\ open[n].inner < c.inner /\ c.inner \in Nat
      BY <1>1, <3>2 DEF ConstructType
    <3> QED
      BY <1>2, <2>1, <2>3, <3>1, <3>3
  <2> QED
    BY <1>2, <2>2, <2>3
<1>4. Stacked'
  BY <1>2, <1>3 DEF Stacked
<1>5. ASSUME NEW k \in 1..n PROVE MarkOK(k)'
  BY <1>1, <1>2, MarkStays, ExtendDefined DEF TagInv, MarksOK, SameShape
<1>6. ASSUME NEW k, k = n + 1 PROVE MarkOK(k)'
  BY <1>2, <1>6 DEF MarkOK
<1>7. MarksOK'
  BY <1>2, <1>5, <1>6 DEF MarksOK
<1>8. TagsStay
  BY <1>1, <1>2 DEF TagsStay
<1> QED
  BY <1>4, <1>7, <1>8

\* A construct that is no struct closes, or another takes its place.
LEMMA TopMarks ==
  ASSUME IndInv, IndInv', NestInv, TagInv, SymbolsExtend, open # <<>>, Within # "struct",
         NEW n, n = Len(open), \A k \in 1..n - 1 : SameShape(k),
         Len(open') = n - 1
           \/ (Len(open') = n /\ open'[n].kind = "else" /\ open'[n].tag = NoSymbol)
  PROVE  Stacked' /\ MarksOK' /\ TagsStay
<1>1. n \in Nat /\ n >= 1 /\ n \in 1..n /\ open[n].kind # "struct"
  BY OpenTop
<1>2. ASSUME NEW j \in 1..n - 1 PROVE open'[j].kind # "struct"
  <2>1. j < n /\ j \in 1..n
    BY <1>1
  <2> QED
    BY <1>1, <2>1 DEF TagInv, Stacked, SameShape
<1>3. ASSUME NEW j \in 1..Len(open') PROVE open'[j].kind # "struct" /\ MarkOK(j)'
  <2>1. CASE j \in 1..n - 1
    <3>1. MarkOK(j)'
      <4>1. j \in 1..Len(open) /\ SameShape(j)
        BY <1>1, <2>1
      <4> QED
        BY <4>1, MarkStays, ExtendDefined DEF TagInv, MarksOK
    <3> QED
      BY <1>2, <2>1, <3>1
  <2>2. CASE j \notin 1..n - 1
    <3>1. j = n /\ open'[n].kind = "else" /\ open'[n].tag = NoSymbol
      BY <1>1, <2>2
    <3> QED
      BY <3>1 DEF MarkOK
  <2> QED
    BY <2>1, <2>2
<1>4. Stacked' /\ MarksOK'
  BY <1>3 DEF Stacked, MarksOK
<1>5. TagsStay
  <2> SUFFICES ASSUME NEW k \in 1..n, open[k].tag # NoSymbol
               PROVE  k \in 1..Len(open') /\ open'[k].tag = open[k].tag
    BY DEF TagsStay
  <2>1. k # n
    BY <1>1 DEF TagInv, MarksOK, MarkOK
  <2>2. k \in 1..n - 1
    BY <1>1, <2>1
  <2> QED
    BY <1>1, <2>2 DEF SameShape
<1> QED
  BY <1>4, <1>5

\* Popping one.
LEMMA EndTags ==
  ASSUME IndInv, IndInv', NestInv, TagInv, open # <<>>, Within # "struct", End, SymbolsExtend,
         \A i \in Len(symbols) + 1..Len(symbols') : symbols'[i].ns # "TAG" /\ Outside(i)
  PROVE  TagInv'
<1>2. PICK n : n = Len(open)
  OBVIOUS
<1>3. Len(open') = n - 1 /\ \A k \in 1..n - 1 : SameShape(k)
  <2>1. Len(open') = n - 1 /\ \A k \in 1..Len(open') : open'[k] = open[k]
    BY <1>2, OpenTop, EndOK
  <2> QED
    BY <2>1 DEF SameShape
<1>4. Stacked' /\ MarksOK' /\ TagsStay
  BY <1>2, <1>3, TopMarks
<1> QED
  BY <1>4, TagStep

\* What a declaration installs.
Installed(i) ==
  /\ symbols'[i].ns = "GENERAL" /\ symbols'[i].owner = current
  /\ symbols'[i].storage = StorageClass(current)

LEMMA DeclarationInstalls ==
  ASSUME IndInv, EndDeclaration
  PROVE  \/ Fatal("redeclared")
         \/ /\ SymbolsExtend /\ \A i \in Len(symbols) + 1..Len(symbols') : Installed(i)
            /\ open # <<>> /\ Within = "declaration" /\ End
            /\ UNCHANGED <<sets, current, bound, placed, outcome>>
<1>1. ASSUME NEW names \in Seq(Names), symbols' = symbols \o Variables(names)
      PROVE  SymbolsExtend /\ \A i \in Len(symbols) + 1..Len(symbols') : Installed(i)
  <2>1. Grown(symbols, Variables(names), names, current)
    <3>1. symbols \in Seq(SymbolType)
      BY DEF IndInv, TypeOK
    <3>2. Declares(Variables(names), names, current)
      BY VariablesOK
    <3> QED
      BY <1>1, <3>1, <3>2, DeclaredOK
  <2>2. \A k \in 1..Len(names) : Variables(names)[k].storage = StorageClass(current)
    BY VariablesOK
  <2>3. /\ \A i \in 1..Len(symbols) : symbols'[i] = symbols[i]
        /\ Len(symbols') = Len(symbols) + Len(names)
        /\ \A i \in Len(symbols) + 1..Len(symbols') :
             /\ i - Len(symbols) \in 1..Len(names)
             /\ symbols'[i] = Variables(names)[i - Len(symbols)]
             /\ symbols'[i].ns = "GENERAL" /\ symbols'[i].owner = current
    BY ONLY <2>1 DEF Grown
  <2>4. SymbolsExtend
    <3>1. Len(symbols) \in Nat /\ Len(names) \in Nat
      BY DEF IndInv, TypeOK
    <3> QED
      BY <2>3, <3>1 DEF SymbolsExtend
  <2>5. \A i \in Len(symbols) + 1..Len(symbols') : Installed(i)
    BY ONLY <2>2, <2>3 DEF Installed
  <2> QED
    BY <2>4, <2>5
<1> QED
  BY <1>1, EndDeclarationEffect

\* They go where the parser is.
LEMMA EndDeclarationTags ==
  ASSUME IndInv, IndInv', NestInv, TagInv, EndDeclaration
  PROVE  TagInv'
<1>1. CASE Fatal("redeclared")
  BY <1>1, SameSymbolsTags DEF Fatal
<1>2. CASE /\ SymbolsExtend /\ \A i \in Len(symbols) + 1..Len(symbols') : Installed(i)
           /\ open # <<>> /\ Within = "declaration" /\ End
  <2>1. Within # "struct" /\ ~IsStruct(current)
    BY <1>2 DEF NestInv, CurrentOK
  <2>2. \A i \in Len(symbols) + 1..Len(symbols') : symbols'[i].ns # "TAG" /\ Outside(i)
    BY <1>2, <2>1 DEF Outside, Installed
  <2> QED
    BY <1>2, <2>1, <2>2, EndTags
<1> QED
  BY <1>1, <1>2, DeclarationInstalls

\* A construct opens and no tag is made.
LEMMA PushTags ==
  ASSUME IndInv, IndInv', NestInv, TagInv, SymbolsExtend, NEW c \in ConstructType, Begin(c),
         c.kind # "struct" => Within # "struct" /\ c.tag = NoSymbol,
         c.kind = "struct" =>
           /\ "fresh" \in c.flags \/ (c.tag # NoSymbol /\ symbols'[c.tag].defined)
           /\ Within = "struct" => open[Len(open)].inner < c.inner,
         \A i \in Len(symbols) + 1..Len(symbols') : symbols'[i].ns # "TAG" /\ Outside(i)
  PROVE  TagInv'
<1>1. Stacked' /\ MarksOK' /\ TagsStay
  BY PushMarks
<1> QED
  BY <1>1, TagStep

LEMMA BeginFunctionTags ==
  ASSUME IndInv, IndInv', NestInv, TagInv, NEW n \in Names, BeginFunction(n)
  PROVE  TagInv'
<1>1. CASE Fatal("redeclared")
  BY <1>1, SameSymbolsTags DEF Fatal
<1>2. CASE /\ Install(Variable(n, current))
           /\ Begin(Construct("function", current, current', NoSymbol, {}))
  <2> DEFINE c == Construct("function", current, current', NoSymbol, {})
  <2>1. /\ current \in Nat \ {0} /\ current' \in Nat \ {0}
    BY DEF IndInv, TypeOK
  <2>2. c \in ConstructType /\ c.kind # "struct" /\ c.tag = NoSymbol
    BY <2>1 DEF Construct, ConstructType, Kinds, NoSymbol
  <2>3. /\ Variable(n, current) \in SymbolType /\ Variable(n, current).ns = "GENERAL"
        /\ Variable(n, current).owner = current
    BY <2>1, VariableOK
  <2>4. /\ SymbolsExtend /\ Len(symbols) \in Nat /\ Len(symbols') = Len(symbols) + 1
        /\ symbols'[Len(symbols) + 1].ns = "GENERAL"
        /\ symbols'[Len(symbols) + 1].owner = current
    BY <1>2, <2>3, InstallExtends
  <2>5. Within # "struct" /\ Begin(c) /\ ~IsStruct(current)
    BY <1>2 DEF BeginFunction, NestInv, CurrentOK
  <2>6. \A i \in Len(symbols) + 1..Len(symbols') : symbols'[i].ns # "TAG" /\ Outside(i)
    <3>1. \A i \in Len(symbols) + 1..Len(symbols') : i = Len(symbols) + 1
      BY <2>4
    <3> QED
      BY <2>4, <2>5, <3>1 DEF Outside
  <2> HIDE DEF c
  <2> QED
    BY <2>2, <2>4, <2>5, <2>6, PushTags
<1> QED
  BY <1>1, <1>2 DEF BeginFunction

LEMMA BeginStatementTags ==
  ASSUME IndInv, IndInv', NestInv, TagInv, NEW kind \in {"if", "while"}, BeginStatement(kind)
  PROVE  TagInv'
<1> DEFINE c == Construct(kind, current, current', NoSymbol, {})
<1>1. current \in Nat \ {0} /\ current' \in Nat \ {0}
  BY DEF IndInv, TypeOK
<1>2. c \in ConstructType /\ c.kind # "struct" /\ c.tag = NoSymbol
  BY <1>1 DEF Construct, ConstructType, Kinds, NoSymbol
<1>3. Within # "struct" /\ UNCHANGED symbols /\ Begin(c)
  BY DEF BeginStatement, InStatements
<1>4. SymbolsExtend /\ Len(symbols) + 1..Len(symbols') = {}
  BY <1>3, UnchangedExtend DEF IndInv, TypeOK
<1> HIDE DEF c
<1> QED
  BY <1>2, <1>3, <1>4, PushTags

LEMMA BeginDeclarationTags ==
  ASSUME IndInv, IndInv', NestInv, TagInv, NEW n \in Names, BeginDeclaration(n)
  PROVE  TagInv'
<1>1. PICK c : c = Declaration(n)
  OBVIOUS
<1>2. c \in ConstructType /\ c.kind # "struct" /\ c.tag = NoSymbol
  BY <1>1, DeclarationOK
<1>3. Within # "struct" /\ UNCHANGED symbols /\ Begin(c)
  BY <1>1 DEF BeginDeclaration
<1>4. SymbolsExtend /\ Len(symbols) + 1..Len(symbols') = {}
  BY <1>3, UnchangedExtend DEF IndInv, TypeOK
<1> QED
  BY <1>2, <1>3, <1>4, PushTags

LEMMA BeginPlainTags == ASSUME IndInv, IndInv', NestInv, TagInv, BeginPlain PROVE TagInv'
<1> DEFINE c == Construct("plain", current, current, NoSymbol, {})
<1>1. current \in Nat \ {0}
  BY DEF IndInv, TypeOK
<1>2. c \in ConstructType /\ c.kind # "struct" /\ c.tag = NoSymbol
  BY <1>1 DEF Construct, ConstructType, Kinds, NoSymbol
<1>3. Within # "struct" /\ UNCHANGED symbols /\ Begin(c)
  BY DEF BeginPlain, InStatements
<1>4. SymbolsExtend /\ Len(symbols) + 1..Len(symbols') = {}
  BY <1>3, UnchangedExtend DEF IndInv, TypeOK
<1> HIDE DEF c
<1> QED
  BY <1>2, <1>3, <1>4, PushTags

LEMMA BeginElseTags == ASSUME IndInv, IndInv', NestInv, TagInv, BeginElse PROVE TagInv'
<1>1. CASE Fatal("no parent")
  BY <1>1, SameSymbolsTags DEF Fatal
<1>2. CASE /\ open' = [open EXCEPT ![Len(open)] =
                         Construct("else", @.outer, current', NoSymbol, {})]
           /\ UNCHANGED symbols
  <2>1. ElseReplaces /\ Within # "struct"
    BY <1>2, ElseOpens DEF BeginElse
  <2>2. SymbolsExtend /\ Len(symbols) + 1..Len(symbols') = {}
    BY <1>2, UnchangedExtend DEF IndInv, TypeOK
  <2>3. PICK n : n = Len(open)
    OBVIOUS
  <2>4. /\ open # <<>> /\ Len(open') = n /\ open'[n].kind = "else" /\ open'[n].tag = NoSymbol
        /\ \A k \in 1..n - 1 : SameShape(k)
    BY <2>1, <2>3 DEF ElseReplaces, SameConstruct
  <2>5. Stacked' /\ MarksOK' /\ TagsStay
    BY <2>1, <2>2, <2>3, <2>4, TopMarks
  <2> QED
    BY <2>2, <2>5, TagStep
<1> QED
  BY <1>1, <1>2 DEF BeginElse

LEMMA GotoStatementTags ==
  ASSUME IndInv, IndInv', NestInv, TagInv, NEW n \in Names,
         \/ GotoStatement(n)
         \/ \E empty \in BOOLEAN : LabelStatement(n, empty)
         \/ UseIdentifier(n)
  PROVE  TagInv'
<1>1. CASE UNCHANGED <<open, symbols>>
  BY <1>1, SameSymbolsTags
<1>2. ASSUME NEW pointing \in BOOLEAN, LabelOwner(current) # 0, Install(Label(n, pointing)),
             UNCHANGED open
      PROVE  TagInv'
  <2>1. Label(n, pointing) \in SymbolType /\ Label(n, pointing).ns = "LABEL"
    BY <1>2, LabelOK
  <2> QED
    BY <1>2, <2>1, InstallTags
<1>3. CASE GotoStatement(n)
  BY <1>1, <1>2, <1>3 DEF GotoStatement, Fatal
<1>4. ASSUME NEW empty \in BOOLEAN, LabelStatement(n, empty) PROVE TagInv'
  BY <1>1, <1>2, <1>4 DEF LabelStatement, Fatal
<1>5. CASE UseIdentifier(n)
  BY <1>1, <1>5 DEF UseIdentifier, Fatal
<1> QED
  BY <1>3, <1>4, <1>5

\* A parent is older than the set.
LEMMA ParentOlder ==
  ASSUME IndInv, SetsOK, NEW s \in 1..Len(sets), HasParent(s) PROVE Parent(s) < s
<1>1. sets[s] \in SetType
  BY DEF IndInv, TypeOK
<1>2. 1 \in DOMAIN sets[s].chain /\ 2 \in DOMAIN sets[s].chain /\ 1 < 2
  BY <1>1 DEF SetType, HasParent
<1> QED
  BY <1>2 DEF SetsOK, SetOK, Parent

\* A tag that is found is complete: if it were being defined, its set would hang
\* below the current one.
LEMMA FoundIsComplete ==
  ASSUME IndInv, NestInv, TagInv, NEW t \in Names, NEW i, i = Lookup(current, "TAG", t),
         i # NoSymbol
  PROVE  symbols[i].defined
<1> SUFFICES ASSUME ~symbols[i].defined PROVE FALSE
  OBVIOUS
<1>1. /\ current \in 1..Len(sets) /\ i \in 1..Len(symbols) /\ symbols[i].ns = "TAG"
      /\ IsStruct(current) => symbols[i].owner = current
      /\ ~IsStruct(current) => ~IsStruct(symbols[i].owner)
  <2>1. current \in 1..Len(sets)
    BY DEF IndInv, TypeOK
  <2> QED
    BY <2>1, FoundOnChain DEF NestInv
<1>2. PICK n : n = Len(open)
  OBVIOUS
<1>3. PICK k \in 1..n : open[k].tag = i
  BY <1>1, <1>2 DEF TagInv, IncompleteIsOpen
<1>4. n \in Nat /\ n \in 1..n /\ open # <<>> /\ open \in Seq(ConstructType)
  BY <1>2, <1>3, OpenTop
<1>5. open[k].kind = "struct"
  BY <1>2, <1>3 DEF TagInv, MarksOK, MarkOK
<1>6. open[n].kind = "struct" /\ open[k].inner <= open[n].inner
  <2>0. open[n] \in ConstructType /\ open[k] \in ConstructType
    BY <1>2, <1>4
  <2>1. open[n].inner \in Nat /\ open[k].inner \in Nat
    BY <2>0 DEF ConstructType
  <2>2. CASE k = n
    BY <1>5, <2>1, <2>2
  <2>3. CASE k # n
    <3>1. k < n
      BY <1>4, <2>3
    <3> QED
      BY <1>2, <1>4, <1>5, <2>1, <3>1 DEF TagInv, Stacked
  <2> QED
    BY <2>2, <2>3
<1>7. current = open[n].inner /\ IsStruct(current)
  <2>1. Within = "struct"
    BY <1>2, <1>4, <1>6, OpenTop
  <2> QED
    BY <1>2, <1>4, <1>6, <2>1 DEF NestInv, CurrentOK, StructsOK, StructOK
<1>8. /\ open[k].inner \in 1..Len(sets) /\ IsStruct(open[k].inner)
      /\ symbols[i].owner = Parent(open[k].inner)
  BY <1>2, <1>3, <1>5 DEF NestInv, StructsOK, StructOK
<1>9. Parent(open[k].inner) < open[k].inner
  BY <1>8, StructParent, ParentOlder DEF NestInv
<1>10. current < open[k].inner /\ open[k].inner <= current
  BY <1>1, <1>6, <1>7, <1>8, <1>9
<1>11. current \in Nat /\ open[k].inner \in Nat
  BY <1>1, <1>8
<1> QED
  BY <1>10, <1>11

LEMMA BeginTaggedTags ==
  ASSUME IndInv, IndInv', NestInv, TagInv, NEW t \in Names, BeginTagged(t)
  PROVE  TagInv'
<1> DEFINE symbol == Lookup(current, "TAG", t)
           tset == symbols[symbol].tset
           known == Construct("struct", current, tset, symbol, {})
           new == Construct("struct", current, current', Len(symbols) + 1, {"fresh"})
<1>1. current \in 1..Len(sets) /\ current \in Nat \ {0} /\ current' \in Nat \ {0}
      /\ Len(symbols) \in Nat /\ Len(sets) \in Nat
  BY DEF IndInv, TypeOK
<1>2. Within = "struct" => /\ current = open[Len(open)].inner /\ IsStruct(current)
  BY OpenTop DEF NestInv, CurrentOK, StructsOK, StructOK
<1>3. CASE /\ symbol # NoSymbol
           /\ current' = tset
           /\ Begin(known)
           /\ UNCHANGED <<sets, symbols>>
  <2>1. PICK i, s : i = symbol /\ s = tset
    OBVIOUS
  <2>2. /\ i \in 1..Len(symbols) /\ symbols[i].ns = "TAG"
        /\ IsStruct(current) => symbols[i].owner = current
    <3>1. i = Lookup(current, "TAG", t) /\ i # NoSymbol
      BY <1>3, <2>1
    <3> QED
      BY <1>1, <3>1, FoundOnChain DEF NestInv
  <2>3. symbols[i].defined /\ i # NoSymbol
    <3>1. i = Lookup(current, "TAG", t) /\ i # NoSymbol
      BY <1>3, <2>1
    <3> QED
      BY <3>1, FoundIsComplete
  <2>4. /\ s = symbols[i].tset /\ s \in 1..Len(sets)
        /\ IsStruct(s) /\ Parent(s) = symbols[i].owner
    BY <2>1, <2>2 DEF NestInv, TagSetsOK, TagSetOK, IndInv, OwnersOK
  <2>5. Parent(s) < s
    BY <2>4, StructParent, ParentOlder DEF NestInv
  <2>6. PICK c : /\ c \in ConstructType /\ c.kind = "struct" /\ c.inner = s
                 /\ c.tag = i /\ Begin(c)
    <3>1. s \in Nat \ {0} /\ i \in Nat
      BY <1>1, <1>3, <2>1, <2>2
    <3>2. known = Construct("struct", current, s, i, {})
      BY <2>1
    <3>3. Begin(known)
      BY <1>3
    <3> HIDE DEF known
    <3>4. /\ known \in ConstructType /\ known.kind = "struct" /\ known.inner = s
          /\ known.tag = i
      BY <1>1, <3>1, <3>2 DEF Construct, ConstructType, Kinds
    <3> QED
      BY <3>3, <3>4
  <2>7. Within = "struct" => open[Len(open)].inner < c.inner
    BY <1>2, <2>2, <2>4, <2>5, <2>6
  <2>8. SymbolsExtend /\ Len(symbols) + 1..Len(symbols') = {}
    BY <1>3, UnchangedExtend DEF IndInv, TypeOK
  <2>9. c.tag # NoSymbol /\ symbols'[c.tag].defined
    BY <1>3, <2>3, <2>6
  <2> QED
    BY <2>6, <2>7, <2>8, <2>9, PushTags
<1>4. CASE /\ symbol = NoSymbol
           /\ Enter(current, "STRUCT_OR_UNION")
           /\ Install(Tag(t, current'))
           /\ Begin(new)
  <2>1. PICK c : c = new
    OBVIOUS
  <2>2. /\ c \in ConstructType /\ c.kind = "struct" /\ c.inner = current'
        /\ c.tag = Len(symbols) + 1 /\ "fresh" \in c.flags /\ Begin(c)
    BY <1>1, <1>4, <2>1 DEF Construct, ConstructType, Kinds
  <2>3. /\ SymbolsExtend /\ Len(symbols') = Len(symbols) + 1
        /\ ~symbols'[Len(symbols) + 1].defined
        /\ symbols'[Len(symbols) + 1].ns = "TAG"
    <3>1. /\ Tag(t, current') \in SymbolType /\ ~Tag(t, current').defined
          /\ Tag(t, current').ns = "TAG"
      BY <1>1, TagOK DEF Tag, Symbol
    <3> QED
      BY <1>4, <3>1, InstallExtends
  <2>4. Within = "struct" => open[Len(open)].inner < c.inner
    <3>1. current' = Len(sets) + 1
      BY <1>4 DEF Enter
    <3> QED
      BY <1>1, <1>2, <2>2, <3>1
  <2>5. Stacked' /\ MarksOK' /\ TagsStay
    BY <2>2, <2>3, <2>4, PushMarks
  <2>6. Len(open) + 1 \in 1..Len(open') /\ open'[Len(open) + 1].tag = Len(symbols) + 1
    <3>1. /\ Len(open') = Len(open) + 1 /\ open'[Len(open) + 1] = c /\ Len(open) \in Nat
      BY <2>2, BeginOK, OpenTop DEF Begin
    <3> QED
      BY <2>2, <3>1
  <2>7. ASSUME NEW i \in Len(symbols) + 1..Len(symbols')
        PROVE  /\ ~symbols'[i].defined /\ \E k \in 1..Len(open') : open'[k].tag = i
               /\ Outside(i)
    <3>1. i = Len(symbols) + 1
      BY <1>1, <2>3
    <3> QED
      BY <2>3, <2>6, <3>1 DEF Outside
  <2> QED
    BY <2>3, <2>5, <2>7, TagStep
<1> QED
  BY <1>3, <1>4 DEF BeginTagged

LEMMA BeginAnonymousTags ==
  ASSUME IndInv, IndInv', NestInv, TagInv, BeginAnonymous PROVE TagInv'
<1> DEFINE new == Construct("struct", current, current', NoSymbol, {"fresh"})
<1>1. /\ current \in 1..Len(sets) /\ current \in Nat \ {0} /\ current' \in Nat \ {0}
      /\ Len(sets) \in Nat
  BY DEF IndInv, TypeOK
<1>2. /\ current' = Len(sets) + 1 /\ UNCHANGED symbols /\ Begin(new)
  BY DEF BeginAnonymous, Enter
<1>3. PICK c : c = new
  OBVIOUS
<1>4. /\ c \in ConstructType /\ c.kind = "struct" /\ c.inner = current'
      /\ "fresh" \in c.flags /\ Begin(c)
  BY <1>1, <1>2, <1>3 DEF Construct, ConstructType, Kinds, NoSymbol
<1>5. Within = "struct" => open[Len(open)].inner < c.inner
  <2>1. Within = "struct" => current = open[Len(open)].inner
    BY OpenTop DEF NestInv, CurrentOK
  <2> QED
    BY <1>1, <1>2, <1>4, <2>1
<1>6. SymbolsExtend /\ Len(symbols) + 1..Len(symbols') = {}
  BY <1>2, UnchangedExtend DEF IndInv, TypeOK
<1> QED
  BY <1>4, <1>5, <1>6, PushTags

\* The symbols after a definition.
LEMMA StructEndsGrown ==
  ASSUME IndInv, NEW p, NEW s, NEW tag, NEW done, NEW names, NEW more,
         StructEnds(p, s, tag, done, names, more)
  PROVE  Grown(done, more, names, s)
<1>1. /\ done \in Seq(SymbolType) /\ names \in Seq(Names)
      /\ Declares(more, names, s) /\ symbols' = done \o more
  BY DEF StructEnds
<1> QED
  BY ONLY <1>1, DeclaredOK

\* A definition completes its tag, and leaves the others.
LEMMA DefinitionDefines ==
  ASSUME IndInv, NEW p, NEW s, NEW tag, NEW done, NEW names, NEW more,
         StructEnds(p, s, tag, done, names, more)
  PROVE  DefinedStays
<1>0. Grown(done, more, names, s)
  BY StructEndsGrown
<1> USE DEF StructEnds
<1> SUFFICES ASSUME NEW i \in 1..Len(symbols), symbols[i].defined
             PROVE  symbols'[i].defined
  BY DEF DefinedStays
<1>1. i # NoSymbol /\ symbols'[i] = done[i]
  BY <1>0 DEF NoSymbol, IndInv, TypeOK, Grown
<1>2. CASE i = tag
  BY <1>1, <1>2
<1>3. CASE i # tag
  <2>1. done[i] = symbols[i]
    BY <1>3
  <2> QED
    BY <1>1, <2>1
<1> QED
  BY <1>2, <1>3

LEMMA DefinitionTags ==
  ASSUME IndInv, IndInv', NestInv, TagInv, open # <<>>, Within = "struct",
         NEW p, NEW s, NEW tag, NEW done, NEW names, NEW more,
         StructEnds(p, s, tag, done, names, more)
  PROVE  TagInv'
<1>0. Grown(done, more, names, s) /\ DefinedStays
  BY StructEndsGrown, DefinitionDefines
<1> USE DEF StructEnds
<1>1. PICK n : n = Len(open)
  OBVIOUS
<1>2. n \in Nat /\ n >= 1 /\ n \in 1..n /\ open[n].kind = "struct" /\ tag = open[n].tag
  BY <1>1, OpenTop
<1>3. Len(open') = n - 1 /\ \A k \in 1..n - 1 : SameShape(k) /\ k \in 1..n
  BY <1>1, <1>2, EndInnerKeeps DEF SameConstruct
<1>13. Grown(done, more, names, s) /\ Len(done) = Len(symbols) /\ names \in Seq(Names)
  BY <1>0
<1>4. /\ Len(symbols) \in Nat /\ Len(names) \in Nat
      /\ Len(symbols') = Len(symbols) + Len(names)
      /\ \A i \in 1..Len(symbols) : symbols'[i] = done[i]
      /\ \A i \in Len(symbols) + 1..Len(symbols') :
           /\ i - Len(symbols) \in 1..Len(names)
           /\ symbols'[i].ns = "GENERAL" /\ symbols'[i].owner = s
           /\ symbols'[i].name = names[i - Len(symbols)]
  <2>1. Len(symbols) \in Nat /\ Len(names) \in Nat
    BY <1>13 DEF IndInv, TypeOK
  <2> QED
    BY ONLY <1>13, <2>1 DEF Grown
<1>14. s = Len(sets) + 1 /\ s \notin 1..Len(sets) /\ Len(sets) \in Nat
  BY DEF IndInv, TypeOK
<1>15. SymbolsKept
  <2>1. \A i \in 1..Len(symbols) : /\ done[i].owner = symbols[i].owner
                                   /\ done[i].ns = symbols[i].ns
                                   /\ done[i].name = symbols[i].name
    <3>1. NoSymbol \notin 1..Len(symbols)
      BY DEF NoSymbol, IndInv, TypeOK
    <3> QED
      BY <3>1
  <2> QED
    BY <1>4, <2>1 DEF SymbolsKept
<1>5. tag # NoSymbol => symbols'[tag].tset = s
  <2>1. tag # NoSymbol => "fresh" \in open[n].flags
    BY <1>1, <1>2 DEF TagInv, MarksOK, MarkOK
  <2> QED
    BY <1>1, <1>4, <2>1
<1>6. DefinedStays
  BY <1>0
<1>7. Stacked'
  <2>1. ASSUME NEW j \in 1..n - 1, NEW k \in 1..n - 1, j < k, open'[j].kind = "struct"
        PROVE  open'[k].kind = "struct" /\ open'[j].inner < open'[k].inner
    <3>1. open'[j].kind = open[j].kind /\ open'[j].inner = open[j].inner
      BY <1>3 DEF SameShape
    <3>2. open'[k].kind = open[k].kind /\ open'[k].inner = open[k].inner
      BY <1>3 DEF SameShape
    <3>3. open[k].kind = "struct" /\ open[j].inner < open[k].inner
      BY <1>1, <1>3, <2>1, <3>1 DEF TagInv, Stacked
    <3> QED
      BY <3>1, <3>2, <3>3
  <2> QED
    BY <1>3, <2>1 DEF Stacked
<1>8. MarksOK'
  <2>1. ASSUME NEW k \in 1..n - 1 PROVE MarkOK(k)'
    BY <1>1, <1>3, <1>6, MarkStays DEF TagInv, MarksOK
  <2> QED
    BY <1>3, <2>1 DEF MarksOK
<1>9. ASSUME NEW i \in 1..Len(symbols), i # tag
      PROVE  IncompleteIsOpen(i)' /\ HasMembers(i)'
  <2>1. symbols'[i] = symbols[i] /\ IncompleteIsOpen(i) /\ HasMembers(i)
    BY <1>4, <1>9 DEF TagInv
  <2>2. IncompleteIsOpen(i)'
    <3> SUFFICES ASSUME symbols[i].ns = "TAG", ~symbols[i].defined
                 PROVE  \E k \in 1..Len(open') : open'[k].tag = i
      BY <2>1 DEF IncompleteIsOpen
    <3>1. PICK k \in 1..n : open[k].tag = i
      BY <1>1, <2>1 DEF IncompleteIsOpen
    <3>2. k \in 1..n - 1
      BY <1>2, <1>9, <3>1
    <3> QED
      BY <1>3, <3>1, <3>2 DEF SameShape
  <2>3. HasMembers(i)'
    BY <1>4, <1>14, <1>15, <2>1, MembersStay
  <2> QED
    BY <2>2, <2>3
<1>10. ASSUME NEW i \in 1..Len(symbols), i = tag
       PROVE  IncompleteIsOpen(i)' /\ HasMembers(i)'
  <2>1. tag # NoSymbol
    BY <1>4, <1>10 DEF NoSymbol
  <2>2. /\ symbols'[i].defined /\ symbols'[i].tset = s
        /\ symbols'[i].body = {names[k] : k \in 1..Len(names)}
    BY <1>4, <1>5, <1>10, <2>1
  <2>3. NamesIn(s)' = {names[k] : k \in 1..Len(names)}
    <3> DEFINE new == {k \in 1..Len(symbols') : /\ symbols'[k].ns = "GENERAL"
                                                /\ symbols'[k].owner = s}
    <3>1. ASSUME NEW j \in new
          PROVE  \E k \in 1..Len(names) : symbols'[j].name = names[k]
      <4>1. j \notin 1..Len(symbols)
        <5> SUFFICES ASSUME j \in 1..Len(symbols) PROVE FALSE
          OBVIOUS
        <5>1. symbols[j].owner = s
          BY <1>15, <3>1 DEF SymbolsKept
        <5> QED
          BY <1>14, <5>1 DEF IndInv, OwnersOK
      <4>2. j \in Len(symbols) + 1..Len(symbols')
        BY <1>4, <3>1, <4>1
      <4> QED
        BY <1>4, <4>2
    <3>2. ASSUME NEW k \in 1..Len(names)
          PROVE  \E j \in new : symbols'[j].name = names[k]
      <4>1. PICK j : j = Len(symbols) + k
        OBVIOUS
      <4>2. j \in Len(symbols) + 1..Len(symbols') /\ j - Len(symbols) = k
            /\ j \in 1..Len(symbols')
        BY <1>4, <4>1
      <4> QED
        BY <1>4, <4>2
    <3>3. NamesIn(s)' = {symbols'[j].name : j \in new}
      BY DEF NamesIn
    <3> HIDE DEF new
    <3>4. {symbols'[j].name : j \in new} \subseteq {names[k] : k \in 1..Len(names)}
      BY ONLY <3>1
    <3>5. {names[k] : k \in 1..Len(names)} \subseteq {symbols'[j].name : j \in new}
      BY ONLY <3>2
    <3> QED
      BY ONLY <3>3, <3>4, <3>5
  <2>5. HasMembers(i)'
    <3>1. NamesIn(symbols[i].tset)' = NamesIn(s)'
      BY ONLY <2>2, Zenon DEF NamesIn
    <3>2. NamesIn(symbols[i].tset)' = symbols'[i].body
      BY ONLY <2>2, <2>3, <3>1
    <3> QED
      BY ONLY <3>2 DEF HasMembers
  <2> QED
    BY <2>2, <2>5 DEF IncompleteIsOpen
<1>11. ASSUME NEW i \in Len(symbols) + 1..Len(symbols')
       PROVE  IncompleteIsOpen(i)' /\ HasMembers(i)'
  BY <1>4, <1>11 DEF IncompleteIsOpen, HasMembers
<1>12. \A i \in 1..Len(symbols') : IncompleteIsOpen(i)' /\ HasMembers(i)'
  <2>1. \A i \in 1..Len(symbols') :
          i \in 1..Len(symbols) \/ i \in Len(symbols) + 1..Len(symbols')
    BY <1>4
  <2> QED
    BY <1>9, <1>10, <1>11, <2>1
<1> QED
  BY <1>7, <1>8, <1>12 DEF TagInv

LEMMA EndStructTags ==
  ASSUME IndInv, IndInv', NestInv, TagInv, EndStruct
  PROVE  TagInv'
<1>1. CASE UNCHANGED <<open, symbols>>
  BY <1>1, SameSymbolsTags
<1>2. ASSUME NEW p, NEW s, NEW tag, NEW done, NEW names, NEW more,
             StructEnds(p, s, tag, done, names, more)
      PROVE  TagInv'
  BY <1>2, EndStructEffect, DefinitionTags
<1> QED
  BY <1>1, <1>2, EndStructEffect

-----------------------------------------------------------------------------
LEMMA NextTags ==
  ASSUME "tagref" \notin Constructs, IndInv, NestInv, TagInv, [Next]_vars
  PROVE  TagInv'
<1>0. IndInv'
  BY NextIndInv
<1>1. ASSUME NEW n \in Names,
             \/ GotoStatement(n)
             \/ \E empty \in BOOLEAN : LabelStatement(n, empty)
             \/ UseIdentifier(n)
      PROVE  TagInv'
  BY <1>0, <1>1, GotoStatementTags
<1>2. ASSUME NEW n \in Names, BeginFunction(n) PROVE TagInv'
  BY <1>0, <1>2, BeginFunctionTags
<1>3. ASSUME NEW n \in Names PROVE ~TagReference(n)
  BY DEF TagReference
<1>4. ASSUME NEW n \in Names, BeginTagged(n) PROVE TagInv'
  BY <1>0, <1>4, BeginTaggedTags
<1>5. CASE EndStruct
  BY <1>0, <1>5, EndStructTags
<1>6. ASSUME NEW kind \in {"if", "while"}, BeginStatement(kind) PROVE TagInv'
  BY <1>0, <1>6, BeginStatementTags
<1>7. CASE BeginPlain
  BY <1>0, <1>7, BeginPlainTags
<1>8. CASE EndScoped \/ EndUnscoped
  <2>1. CASE UNCHANGED <<open, symbols>>
    BY <1>0, <2>1, SameSymbolsTags
  <2>2. CASE End /\ UNCHANGED symbols
    <3>1. open # <<>> /\ Within # "struct"
      BY <1>8 DEF EndScoped, EndUnscoped, Within
    <3>2. SymbolsExtend /\ Len(symbols) + 1..Len(symbols') = {}
      BY <2>2, UnchangedExtend DEF IndInv, TypeOK
    <3> QED
      BY <1>0, <2>2, <3>1, <3>2, EndTags
  <2> QED
    BY <1>8, <2>1, <2>2 DEF EndScoped, EndUnscoped, Fatal
<1>9. CASE BeginElse
  BY <1>0, <1>9, BeginElseTags
<1>10. CASE GotoNodeLost \/ EndStructCrash \/ UNCHANGED vars
  <2>1. UNCHANGED <<open, symbols>>
    BY <1>10 DEF GotoNodeLost, EndStructCrash, Fatal, vars
  <2> QED
    BY <1>0, <2>1, SameSymbolsTags
<1>11. CASE BeginAnonymous
  BY <1>0, <1>11, BeginAnonymousTags
<1>12. ASSUME NEW n \in Names, BeginDeclaration(n) PROVE TagInv'
  BY <1>0, <1>12, BeginDeclarationTags
<1>13. ASSUME NEW n \in Names,
              NextDeclarator(n) \/ \E type \in MemberTypes : DeclareMember(n, type)
       PROVE  TagInv'
  BY <1>0, <1>13, DeclaratorTags
<1>14. CASE EndDeclaration
  BY <1>0, <1>14, EndDeclarationTags
<1> QED
  BY <1>1, <1>2, <1>3, <1>4, <1>5, <1>6, <1>7, <1>8, <1>9, <1>10, <1>11, <1>12,
     <1>13, <1>14, Zenon DEF Next

LEMMA InitTags == ASSUME Init PROVE TagInv
<1>1. Len(open) = 0 /\ Len(symbols) = 0
  BY DEF Init
<1> QED
  BY <1>1 DEF TagInv, Stacked, MarksOK

LEMMA Tags == ASSUME "tagref" \notin Constructs PROVE Spec => []TagInv
<1>1. Init => TagInv
  BY InitTags
<1>2. IndInv /\ NestInv /\ TagInv /\ [Next]_vars => TagInv'
  BY NextTags
<1> QED
  BY <1>1, <1>2, Invariance, Nesting, PTL DEF Spec

(* A tag that is fully defined has a type whose set holds the members of its
   definition and nothing else (ast_constructors.c:359-419), in every program
   that names no tag ahead of its definition: a set given to a new type is the
   one its definition fills, because a tag that a body finds is complete, and
   the definition then ends in the assertion against a second one; and nothing
   is declared in a struct's set but by its definition.  While statements do
   not disturb it. *)
THEOREM CompleteTagsHaveMembers ==
  ASSUME "tagref" \notin Constructs PROVE Spec => []CompleteTagHasMembers
<1>1. IndInv /\ TagInv => CompleteTagHasMembers
  <2> SUFFICES ASSUME IndInv, TagInv PROVE CompleteTagHasMembers
    OBVIOUS
  <2>1. DOMAIN symbols = 1..Len(symbols)
    BY DEF IndInv, TypeOK
  <2>2. \A i \in 1..Len(symbols) :
          symbols[i].ns = "TAG" /\ symbols[i].defined
            => NamesIn(symbols[i].tset) = symbols[i].body
    BY DEF TagInv, HasMembers
  <2> QED
    BY <2>1, <2>2, Zenon DEF NamesIn, CompleteTagHasMembers
<1> QED
  BY <1>1, Invariance, Tags, PTL

-----------------------------------------------------------------------------
(* Without while statements too: the inductive invariant.                   *)
Prev(k) == IF k = 1 THEN Global ELSE open[k - 1].inner

OnChain(s, t) == \E i \in DOMAIN sets[s].chain : sets[s].chain[i] = t

\* The parent link of a construct's set leads to the construct around it, unless
\* the construct is a second body of a complete tag.
PlaceOK(k) ==
  /\ open[k].inner \in 1..Len(sets)
  /\ open[k].kind # "while"
  /\ open[k].kind \in {"function", "if", "else"} =>
       HasParent(open[k].inner) /\ Parent(open[k].inner) = Prev(k)
  /\ open[k].kind \in {"plain", "declaration"} => open[k].inner = Prev(k)
  /\ open[k].kind = "struct" =>
       \/ Parent(open[k].inner) = Prev(k)
       \/ open[k].tag # NoSymbol /\ symbols[open[k].tag].defined

\* In a function the chain is what the open constructs opened, and the only
\* function set on it is the first.
FunctionOK(k) ==
  open[k].kind # "struct" =>
    /\ open[k].kind = "function" => k = 1
    /\ IF k = 1 THEN open[1].kind \in {"function", "declaration"}
                ELSE open[1].kind = "function"
    /\ open[1].kind = "function" =>
         /\ sets[open[1].inner].scope = "FUNCTION"
         /\ sets[open[k].inner].scope \in {"FUNCTION", "BLOCK"}
         /\ sets[open[k].inner].scope = "FUNCTION" => open[k].inner = open[1].inner
    /\ \A t : OnChain(open[k].inner, t) <=> (t = Global \/ \E j \in 1..k : t = open[j].inner)

CurrentInner == current = IF open = <<>> THEN Global ELSE open[Len(open)].inner

ScopesOK == CurrentInner /\ \A k \in 1..Len(open) : PlaceOK(k) /\ FunctionOK(k)

\* Chains of old sets are kept.
LEMMA ChainKept ==
  ASSUME SetsGrow, NEW s \in 1..Len(sets), NEW t PROVE OnChain(s, t)' <=> OnChain(s, t)
BY DEF SetsGrow, OnChain

LEMMA PlaceStays ==
  ASSUME IndInv, SetsGrow, DefinedStays, NEW k \in 1..Len(open), PlaceOK(k),
         SameShape(k), k > 1 => SameShape(k - 1)
  PROVE  PlaceOK(k)'
<1>1. PICK s : s = open[k].inner
  OBVIOUS
<1>2. /\ s \in 1..Len(sets) /\ sets'[s] = sets[s] /\ s \in 1..Len(sets')
      /\ open'[k].inner = s /\ open'[k].kind = open[k].kind /\ open'[k].tag = open[k].tag
  BY <1>1 DEF PlaceOK, SetsGrow, SameShape, IndInv, TypeOK
<1>3. HasParent(s)' = HasParent(s) /\ Parent(s)' = Parent(s)
  BY <1>2 DEF HasParent, Parent
<1>4. Prev(k)' = Prev(k)
  <2>1. k \in Nat
    BY DEF IndInv, TypeOK
  <2> QED
    BY <2>1 DEF Prev, SameShape
<1>5. open[k].tag # NoSymbol /\ symbols[open[k].tag].defined => symbols'[open[k].tag].defined
  BY DEF IndInv, TagsOK, DefinedStays
<1> QED
  BY <1>1, <1>2, <1>3, <1>4, <1>5 DEF PlaceOK, HasParent, Parent

LEMMA FunctionStays ==
  ASSUME IndInv, SetsGrow, NEW k \in 1..Len(open), FunctionOK(k),
         \A j \in 1..k : SameShape(j) /\ PlaceOK(j)
  PROVE  FunctionOK(k)'
<1>1. k \in Nat /\ 1 \in 1..k /\ k \in 1..k
  BY DEF IndInv, TypeOK
<1>2. \A j \in 1..k : /\ open'[j].inner = open[j].inner /\ open[j].inner \in 1..Len(sets)
                      /\ sets'[open[j].inner] = sets[open[j].inner]
  BY DEF SameShape, PlaceOK, SetsGrow
<1>3. \A t : OnChain(open[k].inner, t)' <=> OnChain(open[k].inner, t)
  <2>1. PICK s : s = open[k].inner
    OBVIOUS
  <2>2. s \in 1..Len(sets) /\ open'[k].inner = s
    BY <1>1, <1>2, <2>1
  <2>3. \A t : OnChain(s, t)' <=> OnChain(s, t)
    BY <2>2, ChainKept
  <2> QED
    BY <2>1, <2>2, <2>3 DEF OnChain
<1>4. open'[k].kind = open[k].kind /\ open'[1].kind = open[1].kind
  BY <1>1 DEF SameShape
<1>5. CASE open[k].kind = "struct"
  BY <1>4, <1>5 DEF FunctionOK
<1>6. CASE open[k].kind # "struct"
  <2>1. /\ open'[k].kind = "function" => k = 1
        /\ IF k = 1 THEN open'[1].kind \in {"function", "declaration"}
                    ELSE open'[1].kind = "function"
        /\ open'[1].kind = "function" =>
             /\ sets'[open'[1].inner].scope = "FUNCTION"
             /\ sets'[open'[k].inner].scope \in {"FUNCTION", "BLOCK"}
             /\ sets'[open'[k].inner].scope = "FUNCTION" => open'[k].inner = open'[1].inner
    BY <1>1, <1>2, <1>4, <1>6 DEF FunctionOK
  <2>2. ASSUME NEW t
        PROVE  OnChain(open[k].inner, t)' <=> (t = Global \/ \E j \in 1..k : t = open'[j].inner)
    <3>1. OnChain(open[k].inner, t) <=> (t = Global \/ \E j \in 1..k : t = open[j].inner)
      BY <1>6 DEF FunctionOK
    <3> QED
      BY <1>2, <1>3, <3>1
  <2> QED
    BY <2>1, <2>2 DEF FunctionOK
<1> QED
  BY <1>5, <1>6

\* Nothing opens or closes.
LEMMA SameOpenScopes ==
  ASSUME IndInv, IndInv', ScopesOK, SetsGrow, DefinedStays, UNCHANGED current,
         Len(open') = Len(open), \A k \in 1..Len(open) : SameShape(k)
  PROVE  ScopesOK'
<1>1. CurrentInner'
  <2>1. CASE open = <<>>
    <3>1. open' = <<>>
      BY <2>1 DEF IndInv, TypeOK
    <3> QED
      BY <2>1, <3>1 DEF ScopesOK, CurrentInner
  <2>2. CASE open # <<>>
    <3>1. Len(open) \in 1..Len(open) /\ open' # <<>>
      BY <2>2, OpenTop
    <3> QED
      BY <2>2, <3>1 DEF ScopesOK, CurrentInner, SameShape
  <2> QED
    BY <2>1, <2>2
<1>2. ASSUME NEW k \in 1..Len(open) PROVE PlaceOK(k)' /\ FunctionOK(k)'
  <2>1. Len(open) \in Nat
    BY OpenTop
  <2>2. (k > 1 => SameShape(k - 1)) /\ \A j \in 1..k : j \in 1..Len(open)
    BY <2>1
  <2> QED
    BY <2>2, PlaceStays, FunctionStays DEF ScopesOK
<1> QED
  BY <1>1, <1>2 DEF ScopesOK

LEMMA DeclaratorScopes ==
  ASSUME IndInv, IndInv', ScopesOK, NEW n \in Names,
         NextDeclarator(n) \/ \E type \in MemberTypes : DeclareMember(n, type)
  PROVE  ScopesOK'
<1>1. open # <<>>
  BY NextDeclaratorOK, DeclareMemberOK
<1>2. PICK names \in Seq(Names), types \in SUBSET Nat : Declare(names, types)
  BY NextDeclaratorOK, DeclareMemberOK
<1>3. Len(open') = Len(open) /\ \A k \in 1..Len(open) : SameShape(k)
  BY <1>1, <1>2, DeclareShape
<1>4. SetsGrow /\ DefinedStays /\ UNCHANGED current
  BY <1>2, UnchangedSetsGrow, UnchangedExtend, ExtendDefined DEF Declare
<1> QED
  BY <1>3, <1>4, SameOpenScopes

\* A construct opens ...
LEMMA PushScopes ==
  ASSUME IndInv, ScopesOK, SetsGrow, DefinedStays, NEW c \in ConstructType, Begin(c),
         current' = c.inner, NEW n, n = Len(open) + 1, PlaceOK(n)', FunctionOK(n)'
  PROVE  ScopesOK'
<1>1. /\ n - 1 \in Nat /\ n \in Nat /\ Len(open) = n - 1 /\ Len(open') = n /\ open' # <<>>
      /\ \A k \in 1..n - 1 : open'[k] = open[k]
      /\ open'[n] = c
  <2>1. /\ Len(open) \in Nat /\ Len(open') = Len(open) + 1
        /\ open' \in Seq(ConstructType)
        /\ \A k \in 1..Len(open) : open'[k] = open[k]
        /\ open'[Len(open) + 1] = c
    BY BeginOK, OpenTop DEF Begin
  <2> QED
    BY <2>1
<1>2. CurrentInner'
  BY <1>1 DEF CurrentInner
<1>3. \A k \in 1..n - 1 : SameShape(k)
  BY <1>1 DEF SameShape
<1>4. ASSUME NEW k \in 1..n - 1 PROVE PlaceOK(k)' /\ FunctionOK(k)'
  <2>1. (k > 1 => SameShape(k - 1)) /\ \A j \in 1..k : j \in 1..n - 1
    BY <1>1, <1>3
  <2>2. PlaceOK(k)'
    BY <1>1, <1>3, <2>1, PlaceStays DEF ScopesOK
  <2>3. FunctionOK(k)'
    BY <1>1, <1>3, <2>1, FunctionStays DEF ScopesOK
  <2> QED
    BY <2>2, <2>3
<1>5. \A k \in 1..n : PlaceOK(k)' /\ FunctionOK(k)'
  BY <1>1, <1>4
<1> QED
  BY <1>1, <1>2, <1>5 DEF ScopesOK

\* ... and closes, and the parser is where it was.
LEMMA PopScopes ==
  ASSUME IndInv, ScopesOK, SetsGrow, DefinedStays, NEW n, n = Len(open), n >= 1,
         Len(open') = n - 1, open' \in Seq(ConstructType),
         \A k \in 1..n - 1 : SameShape(k), current' = Prev(n)
  PROVE  ScopesOK'
<1>1. n \in Nat
  BY OpenTop
<1>2. CurrentInner'
  <2>1. CASE n = 1
    BY <2>1 DEF CurrentInner, Prev
  <2>2. CASE n # 1
    <3>1. open' # <<>> /\ n - 1 \in 1..n - 1
      BY <1>1, <2>2
    <3> QED
      BY <2>2, <3>1 DEF CurrentInner, Prev, SameShape
  <2> QED
    BY <2>1, <2>2
<1>3. ASSUME NEW k \in 1..n - 1 PROVE PlaceOK(k)' /\ FunctionOK(k)'
  <2>1. k \in 1..n /\ (k > 1 => SameShape(k - 1)) /\ \A j \in 1..k : j \in 1..n - 1 /\ j \in 1..n
    BY <1>1
  <2>2. PlaceOK(k)'
    BY <2>1, PlaceStays DEF ScopesOK
  <2>3. FunctionOK(k)'
    BY <2>1, FunctionStays DEF ScopesOK
  <2> QED
    BY <2>2, <2>3
<1> QED
  BY <1>2, <1>3 DEF ScopesOK

\* The chain of the set around construct k.
LEMMA PrevChain ==
  ASSUME IndInv, SetsOK, ScopesOK, NEW k \in 1..Len(open) + 1,
         k > 1 => open[k - 1].kind # "struct", NEW t
  PROVE  OnChain(Prev(k), t) <=> (t = Global \/ \E j \in 1..k - 1 : t = open[j].inner)
<1>1. Len(open) \in Nat
  BY OpenTop
<1>2. CASE k = 1
  <2>1. Global \in 1..Len(sets)
    BY DEF IndInv, TypeOK, Global
  <2>2. PICK s : s = Global
    OBVIOUS
  <2>3. s \in 1..Len(sets) /\ ~HasParent(s) /\ sets[s].chain[1] = s
    BY <2>1, <2>2 DEF SetsOK, SetOK
  <2>4. sets[s].chain \in Seq(Nat \ {0}) /\ sets[s].chain # <<>>
    <3>1. sets[s] \in SetType
      BY <2>3 DEF IndInv, TypeOK
    <3> QED
      BY <2>3, <3>1 DEF SetType, IndInv, ChainsOK
  <2>5. DOMAIN sets[s].chain = {1}
    BY <2>3, <2>4 DEF HasParent
  <2>6. OnChain(s, t) <=> t = s
    BY <2>3, <2>5 DEF OnChain
  <2>7. 1..k - 1 = {} /\ Prev(k) = s
    BY <1>2, <2>2 DEF Prev
  <2> QED
    BY <2>2, <2>6, <2>7
<1>3. CASE k # 1
  <2>1. k - 1 \in 1..Len(open) /\ open[k - 1].kind # "struct" /\ Prev(k) = open[k - 1].inner
    BY <1>1, <1>3 DEF Prev
  <2>2. FunctionOK(k - 1)
    BY <2>1 DEF ScopesOK
  <2>3. OnChain(open[k - 1].inner, t) <=> (t = Global \/ \E j \in 1..k - 1 : t = open[j].inner)
    BY ONLY <2>1, <2>2 DEF FunctionOK
  <2> QED
    BY <2>1, <2>3, Zenon
<1> QED
  BY <1>2, <1>3

LEMMA CurrentPrev ==
  ASSUME IndInv, ScopesOK
  PROVE  /\ current = Prev(Len(open) + 1)
         /\ Within # "struct" /\ Len(open) >= 1 => open[Len(open)].kind # "struct"
<1>1. Len(open) \in Nat /\ open \in Seq(ConstructType)
  BY OpenTop
<1>2. open = <<>> <=> Len(open) + 1 = 1
  BY <1>1
<1>3. (Len(open) + 1) - 1 = Len(open)
  BY <1>1
<1>4. Len(open) >= 1 => open # <<>>
  BY <1>1
<1> QED
  BY <1>2, <1>3, <1>4, OpenTop DEF ScopesOK, CurrentInner, Prev

\* The chain of a new set.
LEMMA NewChain ==
  ASSUME IndInv, NEW p \in 1..Len(sets), NEW scope \in Scopes, Allocates(p, scope),
         NEW s, s = Len(sets) + 1, NEW t
  PROVE  OnChain(s, t)' <=> (t = s \/ OnChain(p, t))
<1>1. PICK m : m = Len(sets[p].chain)
  OBVIOUS
<1>2. /\ m \in Nat /\ m >= 1 /\ sets'[s].chain \in Seq(Nat \ {0})
      /\ Len(sets'[s].chain) = m + 1 /\ sets'[s].chain[1] = s
      /\ \A i \in 1..m : sets'[s].chain[i + 1] = sets[p].chain[i]
  BY <1>1, NewSetParts
<1>3. DOMAIN sets'[s].chain = 1..m + 1
  BY <1>2
<1>4. DOMAIN sets[p].chain = 1..m
  <2>1. sets[p] \in SetType
    BY DEF IndInv, TypeOK
  <2> QED
    BY <1>1, <2>1 DEF SetType
<1>5. ASSUME NEW i \in 1..m + 1, sets'[s].chain[i] = t PROVE t = s \/ OnChain(p, t)
  <2>1. CASE i = 1
    BY <1>2, <1>5, <2>1
  <2>2. CASE i # 1
    <3>1. i - 1 \in 1..m /\ (i - 1) + 1 = i
      BY <1>2, <2>2
    <3>2. sets[p].chain[i - 1] = t
      BY <1>2, <1>5, <3>1
    <3> QED
      BY <1>4, <3>1, <3>2 DEF OnChain
  <2> QED
    BY <2>1, <2>2
<1>6. ASSUME t = s PROVE OnChain(s, t)'
  <2>1. 1 \in DOMAIN sets'[s].chain
    BY <1>2, <1>3
  <2> QED
    BY <1>2, <1>6, <2>1 DEF OnChain
<1>7. ASSUME NEW i \in 1..m, sets[p].chain[i] = t PROVE OnChain(s, t)'
  <2>1. i + 1 \in DOMAIN sets'[s].chain
    BY <1>2, <1>3
  <2> QED
    BY <1>2, <1>7, <2>1 DEF OnChain
<1> QED
  BY <1>3, <1>4, <1>5, <1>6, <1>7 DEF OnChain

\* The scopes stay as they are.
LEMMA SameScopes ==
  ASSUME IndInv, IndInv', ScopesOK, UNCHANGED <<sets, symbols, current, open>> PROVE ScopesOK'
<1>1. SetsGrow /\ DefinedStays
  BY UnchangedSetsGrow, UnchangedExtend, ExtendDefined
<1> QED
  BY <1>1, SameOpenScopes DEF SameShape

LEMMA InstallScopes ==
  ASSUME IndInv, IndInv', ScopesOK, NEW x \in SymbolType, Install(x),
         UNCHANGED <<sets, current, open>>
  PROVE  ScopesOK'
<1>1. SetsGrow /\ DefinedStays
  BY UnchangedSetsGrow, InstallExtends, ExtendDefined
<1> QED
  BY <1>1, SameOpenScopes DEF SameShape

LEMMA StatementScopes ==
  ASSUME IndInv, IndInv', ScopesOK, NEW n \in Names,
         \/ GotoStatement(n)
         \/ \E empty \in BOOLEAN : LabelStatement(n, empty)
         \/ UseIdentifier(n)
  PROVE  ScopesOK'
<1>1. CASE UNCHANGED <<sets, symbols, current, open>>
  BY <1>1, SameScopes
<1>2. ASSUME NEW pointing \in BOOLEAN, LabelOwner(current) # 0, Install(Label(n, pointing)),
             UNCHANGED <<sets, current, open>>
      PROVE  ScopesOK'
  <2>1. Label(n, pointing) \in SymbolType
    BY <1>2, LabelOK
  <2> QED
    BY <1>2, <2>1, InstallScopes
<1>3. CASE GotoStatement(n)
  BY <1>1, <1>2, <1>3 DEF GotoStatement, Fatal
<1>4. ASSUME NEW empty \in BOOLEAN, LabelStatement(n, empty) PROVE ScopesOK'
  BY <1>1, <1>2, <1>4 DEF LabelStatement, Fatal
<1>5. CASE UseIdentifier(n)
  BY <1>1, <1>5 DEF UseIdentifier, Fatal
<1> QED
  BY <1>3, <1>4, <1>5

\* A function, or a statement with a block scope, opens.
LEMMA EnterScopes ==
  ASSUME IndInv, SetsOK, ScopesOK, Within \notin {"struct", "declaration"}, DefinedStays,
         NEW scope \in {"FUNCTION", "BLOCK"}, Enter(current, scope),
         NEW c \in ConstructType, Begin(c), c.inner = current', c.kind \in {"function", "if"},
         c.kind = "function" <=> open = <<>>, c.kind = "function" <=> scope = "FUNCTION"
  PROVE  ScopesOK'
<1>1. PICK n, s, p : n = Len(open) + 1 /\ s = Len(sets) + 1 /\ p = current
  OBVIOUS
<1>2. /\ p \in 1..Len(sets) /\ Len(open) \in Nat /\ n \in Nat /\ n >= 1 /\ n - 1 = Len(open)
      /\ n = 1 <=> open = <<>>
  <2>1. open \in Seq(ConstructType) /\ Len(open) \in Nat /\ current \in 1..Len(sets)
    BY OpenTop DEF IndInv, TypeOK
  <2>2. open = <<>> <=> Len(open) = 0
    BY <2>1
  <2> QED
    BY <1>1, <2>1, <2>2
<1>3. Allocates(p, scope) /\ current' = s /\ c.inner = s /\ scope \in Scopes
  BY <1>1 DEF Enter, Allocates, Scopes
<1>4. SetsGrow /\ Len(sets') = s /\ s \in 1..Len(sets') /\ sets'[s].scope = scope
  BY <1>1, <1>2, <1>3, NewSetParts
<1>5. HasParent(s)' /\ Parent(s)' = p
  BY <1>1, <1>2, <1>3, NewParent
<1>6. /\ \A k \in 1..n - 1 : open'[k] = open[k]
      /\ open'[n] = c
  BY <1>1, <1>2, BeginOK, OpenTop DEF Begin
<1>7. p = Prev(n) /\ (n > 1 => open[n - 1].kind # "struct")
  BY <1>1, <1>2, CurrentPrev
<1>8. Prev(n)' = p
  BY <1>2, <1>6, <1>7 DEF Prev
<1>9. PlaceOK(n)'
  BY <1>3, <1>4, <1>5, <1>6, <1>8 DEF PlaceOK, HasParent, Parent
<1>10. open'[1].kind = "function" /\ sets'[open'[1].inner].scope = "FUNCTION"
  <2>1. CASE n = 1
    BY <1>2, <1>3, <1>4, <1>6, <2>1
  <2>2. CASE n # 1
    <3>1. n - 1 \in 1..Len(open) /\ 1 \in 1..n - 1 /\ 1 \in 1..Len(open)
      BY <1>1, <1>2, <2>2
    <3>2. open[n - 1].kind \notin {"struct", "declaration"}
      BY <1>2, <2>2, OpenTop
    <3>3. open[1].kind = "function"
      BY <3>1, <3>2 DEF ScopesOK, FunctionOK
    <3>4. sets[open[1].inner].scope = "FUNCTION" /\ open[1].inner \in 1..Len(sets)
      BY <3>1, <3>3 DEF ScopesOK, FunctionOK, PlaceOK
    <3> QED
      BY <1>4, <1>6, <3>1, <3>3, <3>4 DEF SetsGrow
  <2> QED
    BY <2>1, <2>2
<1>11. /\ c.kind = "function" <=> n = 1
       /\ sets'[c.inner].scope \in {"FUNCTION", "BLOCK"}
       /\ sets'[c.inner].scope = "FUNCTION" => c.inner = open'[1].inner
  BY <1>2, <1>3, <1>4, <1>6
<1>12. ASSUME NEW t
       PROVE  OnChain(s, t)' <=> (t = Global \/ \E j \in 1..n : t = open'[j].inner)
  <2>1. OnChain(s, t)' <=> (t = s \/ OnChain(p, t))
    BY <1>1, <1>2, <1>3, NewChain
  <2>2. OnChain(p, t) <=> (t = Global \/ \E j \in 1..n - 1 : t = open[j].inner)
    <3>1. n \in 1..Len(open) + 1
      BY <1>1, <1>2
    <3> QED
      BY <1>7, <3>1, PrevChain
  <2>3. (\E j \in 1..n : t = open'[j].inner) <=> (t = s \/ \E j \in 1..n - 1 : t = open[j].inner)
    <3>1. \A j \in 1..n : j = n \/ j \in 1..n - 1
      BY <1>2
    <3>2. n \in 1..n /\ \A j \in 1..n - 1 : j \in 1..n
      BY <1>2
    <3> QED
      BY <1>3, <1>6, <3>1, <3>2
  <2> QED
    BY <2>1, <2>2, <2>3
<1>13. FunctionOK(n)'
  <2>1. \A t : OnChain(open[n].inner, t)' <=> (t = Global \/ \E j \in 1..n : t = open'[j].inner)
    BY <1>3, <1>6, <1>12 DEF OnChain
  <2> QED
    BY <1>6, <1>10, <1>11, <2>1 DEF FunctionOK
<1> QED
  BY <1>1, <1>4, <1>9, <1>13, PushScopes

LEMMA BeginFunctionScopes ==
  ASSUME IndInv, IndInv', NestInv, ScopesOK, NEW n \in Names, BeginFunction(n)
  PROVE  ScopesOK'
<1>1. CASE Fatal("redeclared")
  BY <1>1, SameScopes DEF Fatal
<1>2. CASE /\ Install(Variable(n, current))
           /\ Enter(current, "FUNCTION")
           /\ Begin(Construct("function", current, current', NoSymbol, {}))
  <2>1. PICK c : c = Construct("function", current, current', NoSymbol, {})
    OBVIOUS
  <2>2. current \in Nat \ {0} /\ current' \in Nat \ {0}
    BY <1>2 DEF IndInv, TypeOK, Enter
  <2>3. c \in ConstructType /\ c.kind = "function" /\ c.inner = current' /\ Begin(c)
    BY <1>2, <2>1, <2>2 DEF Construct, ConstructType, Kinds, NoSymbol
  <2>4. DefinedStays
    <3>1. Variable(n, current) \in SymbolType
      BY <2>2, VariableOK
    <3> QED
      BY <1>2, <3>1, InstallExtends, ExtendDefined
  <2>5. Within \notin {"struct", "declaration"} /\ open = <<>>
    <3>1. Within = "top"
      BY DEF BeginFunction
    <3>2. open # <<>> => Within \in Kinds
      <4>1. open # <<>> => open[Len(open)] \in ConstructType /\ Within = open[Len(open)].kind
        BY OpenTop
      <4> QED
        BY <4>1 DEF ConstructType
    <3> QED
      BY <3>1, <3>2 DEF Kinds
  <2> QED
    BY <1>2, <2>3, <2>4, <2>5, EnterScopes DEF NestInv
<1> QED
  BY <1>1, <1>2 DEF BeginFunction

LEMMA BeginStatementScopes ==
  ASSUME "while" \notin Constructs, IndInv, NestInv, ScopesOK,
         NEW kind \in {"if", "while"}, BeginStatement(kind)
  PROVE  ScopesOK'
<1>1. PICK c : c = Construct(kind, current, current', NoSymbol, {})
  OBVIOUS
<1>2. /\ kind = "if" /\ Within \notin {"struct", "declaration"} /\ open # <<>>
      /\ UNCHANGED symbols /\ Enter(current, "BLOCK") /\ Begin(c)
  BY <1>1 DEF BeginStatement, InStatements, Within
<1>3. current \in Nat \ {0} /\ current' \in Nat \ {0}
  BY <1>2 DEF IndInv, TypeOK, Enter
<1>4. c \in ConstructType /\ c.kind = "if" /\ c.inner = current'
  BY <1>1, <1>2, <1>3 DEF Construct, ConstructType, Kinds, NoSymbol
<1>5. DefinedStays
  BY <1>2, UnchangedExtend, ExtendDefined
<1> QED
  BY <1>2, <1>4, <1>5, EnterScopes DEF NestInv

\* A construct opens in the set the parser is in.
LEMMA SamePlaceScopes ==
  ASSUME IndInv, NestInv, ScopesOK, Within \notin {"struct", "declaration"},
         UNCHANGED <<sets, symbols, current>>, NEW c \in ConstructType, Begin(c),
         c.kind \in {"plain", "declaration"}, c.inner = current,
         open = <<>> => c.kind = "declaration"
  PROVE  ScopesOK'
<1>1. PICK n : n = Len(open) + 1
  OBVIOUS
<1>2. /\ Len(open) \in Nat /\ n - 1 = Len(open) /\ n \in Nat /\ n >= 1
      /\ n = 1 <=> open = <<>>
  BY <1>1 DEF IndInv, TypeOK
<1>3. /\ \A k \in 1..n - 1 : open'[k] = open[k]
      /\ open'[n] = c
  BY <1>1, <1>2, BeginOK, OpenTop DEF Begin
<1>4. current = Prev(n) /\ current \in 1..Len(sets)
  BY <1>1, CurrentPrev DEF IndInv, TypeOK
<1>5. n > 1 => n - 1 \in 1..Len(open) /\ open[n - 1].kind \notin {"struct", "declaration"}
  BY <1>2, OpenTop
<1>6. Prev(n)' = current
  BY <1>2, <1>3, <1>4 DEF Prev
<1>7. SetsGrow /\ DefinedStays
  BY UnchangedSetsGrow, UnchangedExtend, ExtendDefined
<1>8. PlaceOK(n)'
  BY <1>3, <1>4, <1>6 DEF PlaceOK
<1>9. /\ IF n = 1 THEN open'[1].kind \in {"function", "declaration"}
                  ELSE open'[1].kind = "function"
      /\ open'[1].kind = "function" =>
           /\ sets'[open'[1].inner].scope = "FUNCTION"
           /\ sets'[c.inner].scope \in {"FUNCTION", "BLOCK"}
           /\ sets'[c.inner].scope = "FUNCTION" => c.inner = open'[1].inner
  <2>1. CASE n = 1
    BY <1>2, <1>3, <2>1
  <2>2. CASE n # 1
    <3>1. /\ n - 1 \in 1..Len(open) /\ 1 \in 1..n - 1
          /\ open[n - 1].kind \notin {"struct", "declaration"}
          /\ current = open[n - 1].inner
      BY <1>2, <1>4, <1>5, <2>2 DEF Prev
    <3>2. FunctionOK(n - 1)
      BY <3>1 DEF ScopesOK
    <3>3. open[1].kind = "function"
      BY <3>1, <3>2 DEF FunctionOK
    <3>4. /\ sets[open[1].inner].scope = "FUNCTION"
          /\ sets[open[n - 1].inner].scope \in {"FUNCTION", "BLOCK"}
          /\ sets[open[n - 1].inner].scope = "FUNCTION" => open[n - 1].inner = open[1].inner
      BY <3>1, <3>2, <3>3 DEF FunctionOK
    <3> QED
      BY <1>3, <2>2, <3>1, <3>3, <3>4
  <2> QED
    BY <2>1, <2>2
<1>10. ASSUME NEW t
       PROVE  OnChain(c.inner, t)' <=> (t = Global \/ \E j \in 1..n : t = open'[j].inner)
  <2>1. OnChain(c.inner, t)' <=> OnChain(current, t)
    BY DEF OnChain
  <2>2. OnChain(current, t) <=> (t = Global \/ \E j \in 1..n - 1 : t = open[j].inner)
    <3>1. n \in 1..Len(open) + 1 /\ (n > 1 => open[n - 1].kind # "struct")
      BY <1>2, <1>5
    <3>2. OnChain(Prev(n), t) <=> (t = Global \/ \E j \in 1..n - 1 : t = open[j].inner)
      BY <3>1, PrevChain DEF NestInv
    <3> QED
      BY <1>4, <3>2
  <2>3. (t = Global \/ \E j \in 1..n : t = open'[j].inner)
          <=> (t = Global \/ \E j \in 1..n - 1 : t = open[j].inner)
    <3>1. \A j \in 1..n : j = n \/ j \in 1..n - 1
      BY <1>2
    <3>2. \A j \in 1..n - 1 : j \in 1..n
      BY <1>2
    <3>3. current = Global \/ (n - 1 \in 1..n - 1 /\ current = open[n - 1].inner)
      BY <1>2, <1>4 DEF Prev
    <3> QED
      BY <1>3, <3>1, <3>2, <3>3
  <2> QED
    BY <2>1, <2>2, <2>3
<1>11. FunctionOK(n)'
  <2>1. \A t : OnChain(open[n].inner, t)' <=> (t = Global \/ \E j \in 1..n : t = open'[j].inner)
    BY <1>3, <1>10 DEF OnChain
  <2>2. open'[n].kind # "function"
    BY <1>3
  <2>3. /\ IF n = 1 THEN open'[1].kind \in {"function", "declaration"}
                    ELSE open'[1].kind = "function"
        /\ open'[1].kind = "function" =>
             /\ sets'[open'[1].inner].scope = "FUNCTION"
             /\ sets'[open'[n].inner].scope \in {"FUNCTION", "BLOCK"}
             /\ sets'[open'[n].inner].scope = "FUNCTION" => open'[n].inner = open'[1].inner
    BY <1>3, <1>9
  <2> QED
    BY ONLY <2>1, <2>2, <2>3 DEF FunctionOK
<1> QED
  BY <1>1, <1>7, <1>8, <1>11, PushScopes

LEMMA BeginPlainScopes ==
  ASSUME IndInv, NestInv, ScopesOK, BeginPlain PROVE ScopesOK'
<1>1. PICK c : c = Construct("plain", current, current, NoSymbol, {})
  OBVIOUS
<1>2. /\ Within \notin {"struct", "declaration"} /\ open # <<>>
      /\ UNCHANGED <<sets, symbols, current>> /\ Begin(c)
  BY <1>1 DEF BeginPlain, InStatements, Within
<1>3. current \in Nat \ {0}
  BY DEF IndInv, TypeOK
<1>4. c \in ConstructType /\ c.kind = "plain" /\ c.inner = current
  BY <1>1, <1>3 DEF Construct, ConstructType, Kinds, NoSymbol
<1> QED
  BY <1>2, <1>4, SamePlaceScopes

LEMMA BeginDeclarationScopes ==
  ASSUME IndInv, NestInv, ScopesOK, NEW n \in Names, BeginDeclaration(n) PROVE ScopesOK'
<1>1. PICK c : c = Declaration(n)
  OBVIOUS
<1>2. c \in ConstructType /\ c.kind = "declaration" /\ c.inner = current
  BY <1>1, DeclarationOK
<1>3. /\ Within \notin {"struct", "declaration"}
      /\ UNCHANGED <<sets, symbols, current>> /\ Begin(c)
  BY <1>1 DEF BeginDeclaration
<1> QED
  BY <1>2, <1>3, SamePlaceScopes

\* A struct opens.
LEMMA PushStructScopes ==
  ASSUME IndInv, ScopesOK, SetsGrow, DefinedStays, NEW c \in ConstructType, Begin(c),
         c.kind = "struct", current' = c.inner, c.inner \in 1..Len(sets'),
         \/ Parent(c.inner)' = current
         \/ c.tag # NoSymbol /\ symbols'[c.tag].defined
  PROVE  ScopesOK'
<1>1. PICK n : n = Len(open) + 1
  OBVIOUS
<1>2. /\ n \in Nat /\ n - 1 = Len(open) /\ n >= 1
      /\ \A k \in 1..n - 1 : open'[k] = open[k]
      /\ open'[n] = c
  BY <1>1, BeginOK, OpenTop DEF Begin
<1>3. current = Prev(n) /\ Prev(n)' = Prev(n)
  BY <1>1, <1>2, CurrentPrev DEF Prev
<1>4. PlaceOK(n)'
  BY <1>2, <1>3 DEF PlaceOK, Parent
<1>5. FunctionOK(n)'
  BY <1>2 DEF FunctionOK
<1> QED
  BY <1>1, <1>4, <1>5, PushScopes

LEMMA BeginTaggedScopes ==
  ASSUME IndInv, NestInv, TagInv, ScopesOK, NEW t \in Names, BeginTagged(t)
  PROVE  ScopesOK'
<1> DEFINE symbol == Lookup(current, "TAG", t)
           tset == symbols[symbol].tset
           known == Construct("struct", current, tset, symbol, {})
           new == Construct("struct", current, current', Len(symbols) + 1, {"fresh"})
<1>1. current \in 1..Len(sets) /\ current \in Nat \ {0} /\ Len(symbols) \in Nat /\ Len(sets) \in Nat
  BY DEF IndInv, TypeOK
<1>2. CASE /\ symbol # NoSymbol
           /\ current' = tset
           /\ Begin(known)
           /\ UNCHANGED <<sets, symbols>>
  <2>1. PICK i, s : i = symbol /\ s = tset
    OBVIOUS
  <2>2. i = Lookup(current, "TAG", t) /\ i # NoSymbol
    BY <1>2, <2>1
  <2>3. i \in 1..Len(symbols) /\ symbols[i].ns = "TAG"
    BY <1>1, <2>2, FoundOnChain DEF NestInv
  <2>4. symbols[i].defined
    BY <2>2, FoundIsComplete
  <2>5. s \in 1..Len(sets)
    BY <2>1, <2>3 DEF IndInv, OwnersOK
  <2>6. PICK c : /\ c \in ConstructType /\ c.kind = "struct" /\ c.inner = s
                 /\ c.tag = i /\ Begin(c)
    <3>1. s \in Nat \ {0} /\ i \in Nat
      BY <1>1, <2>3, <2>5
    <3>2. known = Construct("struct", current, s, i, {})
      BY <2>1
    <3>3. Begin(known)
      BY <1>2
    <3> HIDE DEF known
    <3>4. /\ known \in ConstructType /\ known.kind = "struct" /\ known.inner = s
          /\ known.tag = i
      BY <1>1, <3>1, <3>2 DEF Construct, ConstructType, Kinds
    <3> QED
      BY <3>3, <3>4
  <2>7. SetsGrow /\ DefinedStays
    BY <1>2, UnchangedSetsGrow, UnchangedExtend, ExtendDefined
  <2>8. current' = c.inner /\ c.inner \in 1..Len(sets') /\ c.tag # NoSymbol /\ symbols'[c.tag].defined
    BY <1>2, <2>1, <2>2, <2>4, <2>5, <2>6
  <2> QED
    BY <2>6, <2>7, <2>8, PushStructScopes
<1>3. CASE /\ Enter(current, "STRUCT_OR_UNION")
           /\ Install(Tag(t, current'))
           /\ Begin(new)
  <2>1. PICK c, s : c = new /\ s = Len(sets) + 1
    OBVIOUS
  <2>2. current' = s /\ s \in Nat \ {0} /\ Allocates(current, "STRUCT_OR_UNION")
    BY <1>1, <1>3, <2>1 DEF Enter, Allocates
  <2>3. c \in ConstructType /\ c.kind = "struct" /\ c.inner = current' /\ Begin(c)
    BY <1>1, <1>3, <2>1, <2>2 DEF Construct, ConstructType, Kinds
  <2>4. SetsGrow /\ s \in 1..Len(sets') /\ Parent(s)' = current
    BY <2>1, <2>2, StructSetNest
  <2>5. DefinedStays
    <3>1. Tag(t, current') \in SymbolType
      BY <2>2, TagOK
    <3> QED
      BY <1>3, <3>1, InstallExtends, ExtendDefined
  <2>6. Parent(c.inner)' = current /\ c.inner \in 1..Len(sets')
    BY <2>2, <2>3, <2>4 DEF Parent
  <2> QED
    BY <2>3, <2>4, <2>5, <2>6, PushStructScopes
<1> QED
  BY <1>2, <1>3 DEF BeginTagged

LEMMA BeginAnonymousScopes ==
  ASSUME IndInv, NestInv, ScopesOK, BeginAnonymous PROVE ScopesOK'
<1>1. PICK c, s : /\ c = Construct("struct", current, current', NoSymbol, {"fresh"})
                  /\ s = Len(sets) + 1
  OBVIOUS
<1>2. /\ current \in Nat \ {0} /\ Len(sets) \in Nat
  BY DEF IndInv, TypeOK
<1>3. /\ current' = s /\ s \in Nat \ {0} /\ Allocates(current, "STRUCT_OR_UNION")
      /\ UNCHANGED symbols /\ Begin(c)
  BY <1>1, <1>2 DEF BeginAnonymous, Enter, Allocates
<1>4. c \in ConstructType /\ c.kind = "struct" /\ c.inner = current'
  BY <1>1, <1>2, <1>3 DEF Construct, ConstructType, Kinds, NoSymbol
<1>5. SetsGrow /\ s \in 1..Len(sets') /\ Parent(s)' = current
  BY <1>1, <1>3, StructSetNest
<1>6. Parent(c.inner)' = current /\ c.inner \in 1..Len(sets')
  BY <1>3, <1>4, <1>5 DEF Parent
<1>7. DefinedStays
  BY <1>3, UnchangedExtend, ExtendDefined
<1> QED
  BY <1>3, <1>4, <1>5, <1>6, <1>7, PushStructScopes

\* What closes outside structs leads back to where the parser was.
LEMMA EndPlainScopes ==
  ASSUME IndInv, ScopesOK, open # <<>>, End, UNCHANGED sets, SymbolsExtend,
         current' = Prev(Len(open))
  PROVE  ScopesOK'
<1>1. PICK n : n = Len(open)
  OBVIOUS
<1>2. n \in Nat /\ n >= 1 /\ open \in Seq(ConstructType)
  BY <1>1, OpenTop
<1>3. /\ open' \in Seq(ConstructType) /\ Len(open') = n - 1
      /\ \A k \in 1..Len(open') : open'[k] = open[k]
  BY <1>1, <1>2, EndOK
<1>4. \A k \in 1..n - 1 : SameShape(k)
  BY <1>3 DEF SameShape
<1>5. SetsGrow /\ DefinedStays
  BY UnchangedSetsGrow, ExtendDefined
<1> QED
  BY <1>1, <1>2, <1>3, <1>4, <1>5, PopScopes

LEMMA EndScopedScopes == ASSUME IndInv, IndInv', ScopesOK, EndScoped PROVE ScopesOK'
<1>1. CASE Fatal("no parent")
  BY <1>1, SameScopes DEF Fatal
<1>2. CASE current' = Parent(current) /\ End /\ UNCHANGED <<sets, symbols>>
  <2>1. open # <<>> /\ Within \in {"function", "if", "else"}
    BY DEF EndScoped, Within
  <2>2. /\ Len(open) \in 1..Len(open) /\ open[Len(open)].kind \in {"function", "if", "else"}
        /\ current = open[Len(open)].inner
    BY <2>1, OpenTop DEF ScopesOK, CurrentInner
  <2>3. Parent(current) = Prev(Len(open))
    BY <2>2 DEF ScopesOK, PlaceOK
  <2> QED
    BY <1>2, <2>1, <2>3, EndPlainScopes, UnchangedExtend
<1> QED
  BY <1>1, <1>2 DEF EndScoped

LEMMA EndUnscopedScopes == ASSUME IndInv, ScopesOK, EndUnscoped PROVE ScopesOK'
<1>1. open # <<>> /\ Within \in {"while", "plain"} /\ End /\ UNCHANGED <<sets, symbols, current>>
  BY DEF EndUnscoped, Within
<1>2. /\ Len(open) \in 1..Len(open) /\ open[Len(open)].kind \in {"while", "plain"}
      /\ current = open[Len(open)].inner
  BY <1>1, OpenTop DEF ScopesOK, CurrentInner
<1>3. current = Prev(Len(open))
  BY <1>2 DEF ScopesOK, PlaceOK
<1> QED
  BY <1>1, <1>3, EndPlainScopes, UnchangedExtend

LEMMA EndDeclarationScopes == ASSUME IndInv, IndInv', ScopesOK, EndDeclaration PROVE ScopesOK'
<1>1. CASE Fatal("redeclared")
  BY <1>1, SameScopes DEF Fatal
<1>2. CASE /\ SymbolsExtend /\ open # <<>> /\ Within = "declaration" /\ End
           /\ UNCHANGED <<sets, current>>
  <2>1. /\ Len(open) \in 1..Len(open) /\ open[Len(open)].kind = "declaration"
        /\ current = open[Len(open)].inner
    BY <1>2, OpenTop DEF ScopesOK, CurrentInner
  <2>2. current = Prev(Len(open))
    BY <2>1 DEF ScopesOK, PlaceOK
  <2> QED
    BY <1>2, <2>2, EndPlainScopes
<1> QED
  BY <1>1, <1>2, DeclarationInstalls

LEMMA DefinitionScopes ==
  ASSUME IndInv, IndInv', NestInv, ScopesOK, open # <<>>, Within = "struct",
         NEW p, NEW s, NEW tag, NEW done, NEW names, NEW more,
         StructEnds(p, s, tag, done, names, more)
  PROVE  ScopesOK'
<1>1. PICK n : n = Len(open)
  OBVIOUS
<1>2. /\ n \in Nat /\ n >= 1 /\ n \in 1..Len(open) /\ open[n].kind = "struct"
      /\ current = open[n].inner
  BY <1>1, OpenTop DEF ScopesOK, CurrentInner
<1>3. /\ p = Parent(current) /\ current' = p /\ EndInner(tag) /\ tag = open[n].tag
      /\ tag # NoSymbol => ~symbols[tag].defined
      /\ Allocates(p, "STRUCT_OR_UNION")
  BY <1>1 DEF StructEnds
<1>4. p = Prev(n)
  BY <1>2, <1>3 DEF ScopesOK, PlaceOK
<1>5. /\ open' \in Seq(ConstructType) /\ Len(open') = n - 1
      /\ \A k \in 1..Len(open') : SameShape(k)
  BY <1>1, <1>3, EndInnerKeeps DEF IndInv, TypeOK, SameConstruct
<1>6. SetsGrow
  <2>1. p \in 1..Len(sets)
    BY <1>2, <1>3, StructParent DEF NestInv, StructsOK, StructOK
  <2> QED
    BY <1>3, <2>1, NewSetParts DEF Scopes
<1>7. DefinedStays
  BY DefinitionDefines
<1> QED
  BY <1>1, <1>2, <1>3, <1>4, <1>5, <1>6, <1>7, PopScopes

LEMMA EndStructScopes ==
  ASSUME IndInv, IndInv', NestInv, ScopesOK, EndStruct
  PROVE  ScopesOK'
<1>1. CASE UNCHANGED <<sets, symbols, current, open>>
  BY <1>1, SameScopes
<1>2. ASSUME NEW p, NEW s, NEW tag, NEW done, NEW names, NEW more,
             StructEnds(p, s, tag, done, names, more)
      PROVE  ScopesOK'
  BY <1>2, EndStructEffect, DefinitionScopes
<1> QED
  BY <1>1, <1>2, EndStructEffect

\* The else's block is where the if's was.
LEMMA BeginElseScopes ==
  ASSUME IndInv, IndInv', NestInv, ScopesOK, BeginElse PROVE ScopesOK'
<1>1. CASE Fatal("no parent")
  BY <1>1, SameScopes DEF Fatal
<1>2. CASE /\ Enter(Parent(current), "BLOCK")
           /\ open' = [open EXCEPT ![Len(open)] =
                         Construct("else", @.outer, current', NoSymbol, {})]
           /\ UNCHANGED symbols
  <2>1. PICK n, s, p : n = Len(open) /\ s = Len(sets) + 1 /\ p = Parent(current)
    OBVIOUS
  <2>2. Within = "if" /\ open # <<>> /\ Within # "struct"
    BY DEF BeginElse, Within
  <2>3. /\ n \in Nat /\ n >= 1 /\ n \in 1..n /\ open[n].kind = "if"
        /\ current = open[n].inner
    BY <2>1, <2>2, OpenTop DEF ScopesOK, CurrentInner
  <2>4. PlaceOK(n) /\ FunctionOK(n)
    BY <2>1, <2>3 DEF ScopesOK
  <2>5. /\ n # 1 /\ HasParent(current) /\ p = Prev(n) /\ open[n].kind # "struct"
        /\ open[1].kind = "function" /\ sets[open[1].inner].scope = "FUNCTION"
    BY <2>1, <2>3, <2>4 DEF PlaceOK, FunctionOK
  <2>6. n > 1 /\ n - 1 \in 1..n - 1 /\ 1 \in 1..n - 1 /\ \A k \in 1..n - 1 : k \in 1..n
    BY <2>3, <2>5
  <2>7. open[n - 1].kind # "struct"
    BY <2>1, <2>2, <2>6, PlainAround
  <2>8. p = open[n - 1].inner /\ p \in 1..Len(sets) /\ open[1].inner \in 1..Len(sets)
    BY <2>1, <2>5, <2>6 DEF Prev, ScopesOK, PlaceOK
  <2>9. Allocates(p, "BLOCK") /\ current' = s
    BY <1>2, <2>1 DEF Enter, Allocates
  <2>10. /\ SetsGrow /\ Len(sets') = s /\ s \in Nat /\ s \in 1..Len(sets')
         /\ sets'[s].scope = "BLOCK"
    BY <2>1, <2>8, <2>9, NewSetParts DEF Scopes
  <2>11. HasParent(s)' /\ Parent(s)' = p
    BY <2>1, <2>8, <2>9, NewParent DEF NestInv, Scopes
  <2>12. /\ Len(open') = n /\ open'[n].kind = "else" /\ open'[n].inner = s
         /\ \A k \in 1..n - 1 : SameShape(k)
    BY <1>2, <2>1, <2>2, <2>9, ElseOpens DEF ElseReplaces, SameConstruct
  <2>13. open'[1].inner = open[1].inner /\ open'[1].kind = open[1].kind /\ Prev(n)' = p
    BY <2>6, <2>8, <2>12 DEF SameShape, Prev
  <2>14. PlaceOK(n)'
    BY <2>10, <2>11, <2>12, <2>13 DEF PlaceOK, HasParent, Parent
  <2>15. ASSUME NEW t
         PROVE  OnChain(s, t)' <=> (t = Global \/ \E j \in 1..n : t = open'[j].inner)
    <3>1. OnChain(s, t)' <=> (t = s \/ OnChain(p, t))
      BY <2>1, <2>8, <2>9, NewChain DEF Scopes
    <3>2. OnChain(p, t) <=> (t = Global \/ \E j \in 1..n - 1 : t = open[j].inner)
      <4>1. n \in 1..Len(open) + 1
        BY <2>1, <2>3
      <4> QED
        BY <2>5, <2>7, <4>1, PrevChain DEF NestInv
    <3>3. (\E j \in 1..n : t = open'[j].inner) <=> (t = s \/ \E j \in 1..n - 1 : t = open[j].inner)
      <4>1. \A j \in 1..n : j = n \/ j \in 1..n - 1
        BY <2>3
      <4> QED
        BY <2>3, <2>6, <2>12, <4>1 DEF SameShape
    <3> QED
      BY <3>1, <3>2, <3>3
  <2>16. FunctionOK(n)'
    <3>1. \A t : OnChain(open[n].inner, t)' <=> (t = Global \/ \E j \in 1..n : t = open'[j].inner)
      BY <2>12, <2>15 DEF OnChain
    <3>2. sets'[open'[1].inner].scope = "FUNCTION"
      BY <2>5, <2>8, <2>10, <2>13 DEF SetsGrow
    <3> QED
      BY <2>5, <2>10, <2>12, <2>13, <3>1, <3>2 DEF FunctionOK
  <2>17. DefinedStays
    BY <1>2, UnchangedExtend, ExtendDefined
  <2>18. ASSUME NEW k \in 1..n - 1 PROVE PlaceOK(k)' /\ FunctionOK(k)'
    <3>1. /\ k \in 1..n /\ (k > 1 => SameShape(k - 1))
          /\ \A j \in 1..k : j \in 1..n - 1 /\ j \in 1..n
      BY <2>3, <2>12
    <3>2. PlaceOK(k)'
      BY <2>1, <2>10, <2>12, <2>17, <3>1, PlaceStays DEF ScopesOK
    <3>3. FunctionOK(k)'
      BY <2>1, <2>10, <2>12, <3>1, FunctionStays DEF ScopesOK
    <3> QED
      BY <3>2, <3>3
  <2>19. CurrentInner'
    <3>1. open' # <<>>
      BY <2>3, <2>12
    <3> QED
      BY <2>9, <2>12, <3>1 DEF CurrentInner
  <2>20. \A k \in 1..n : PlaceOK(k)' /\ FunctionOK(k)'
    BY <2>3, <2>14, <2>16, <2>18
  <2> QED
    BY <2>12, <2>19, <2>20 DEF ScopesOK
<1> QED
  BY <1>1, <1>2 DEF BeginElse

-----------------------------------------------------------------------------
LEMMA InitScopes == ASSUME Init PROVE ScopesOK
BY DEF Init, ScopesOK, CurrentInner

LEMMA NextScopes ==
  ASSUME Constructs \cap {"while", "tagref"} = {}, IndInv, NestInv, TagInv, ScopesOK,
         [Next]_vars
  PROVE  ScopesOK'
<1>0. IndInv' /\ "while" \notin Constructs
  BY NextIndInv
<1>1. ASSUME NEW n \in Names,
             \/ GotoStatement(n)
             \/ \E empty \in BOOLEAN : LabelStatement(n, empty)
             \/ UseIdentifier(n)
      PROVE  ScopesOK'
  BY <1>0, <1>1, StatementScopes
<1>2. ASSUME NEW n \in Names, BeginFunction(n) PROVE ScopesOK'
  BY <1>0, <1>2, BeginFunctionScopes
<1>3. ASSUME NEW n \in Names PROVE ~TagReference(n)
  BY DEF TagReference
<1>4. ASSUME NEW n \in Names, BeginTagged(n) PROVE ScopesOK'
  BY <1>4, BeginTaggedScopes
<1>5. CASE EndStruct
  BY <1>0, <1>5, EndStructScopes
<1>6. ASSUME NEW kind \in {"if", "while"}, BeginStatement(kind) PROVE ScopesOK'
  BY <1>0, <1>6, BeginStatementScopes
<1>7. CASE BeginPlain
  BY <1>7, BeginPlainScopes
<1>8. CASE EndScoped \/ EndUnscoped
  BY <1>0, <1>8, EndScopedScopes, EndUnscopedScopes
<1>9. CASE BeginElse
  BY <1>0, <1>9, BeginElseScopes
<1>10. CASE GotoNodeLost \/ EndStructCrash \/ UNCHANGED vars
  <2>1. UNCHANGED <<sets, symbols, current, open>>
    BY <1>10 DEF GotoNodeLost, EndStructCrash, Fatal, vars
  <2> QED
    BY <1>0, <2>1, SameScopes
<1>11. CASE BeginAnonymous
  BY <1>11, BeginAnonymousScopes
<1>12. ASSUME NEW n \in Names, BeginDeclaration(n) PROVE ScopesOK'
  BY <1>12, BeginDeclarationScopes
<1>13. ASSUME NEW n \in Names,
              NextDeclarator(n) \/ \E type \in MemberTypes : DeclareMember(n, type)
       PROVE  ScopesOK'
  BY <1>0, <1>13, DeclaratorScopes
<1>14. CASE EndDeclaration
  BY <1>0, <1>14, EndDeclarationScopes
<1> QED
  BY <1>1, <1>2, <1>3, <1>4, <1>5, <1>6, <1>7, <1>8, <1>9, <1>10, <1>11, <1>12,
     <1>13, <1>14, Zenon DEF Next

LEMMA Scoping ==
  ASSUME Constructs \cap {"while", "tagref"} = {} PROVE Spec => []ScopesOK
<1>1. Init => ScopesOK
  BY InitScopes
<1>2. IndInv /\ NestInv /\ TagInv /\ ScopesOK /\ [Next]_vars => ScopesOK'
  BY NextScopes
<1>3. Spec => []TagInv
  <2>1. "tagref" \notin Constructs
    OBVIOUS
  <2> QED
    BY <2>1, Tags
<1> QED
  BY <1>1, <1>2, <1>3, Invariance, Nesting, PTL DEF Spec

(* Whatever nests in whatever, current_symbol_table is the set of the innermost
   open construct, and the global set between external declarations: no
   EXIT_SCOPE (c.y:35) pops too much, too little or into another branch of the
   tree, in every program without while statements, whose scopes are never
   left, and without a tag named ahead of its definition, whose body may hang
   anywhere. *)
THEOREM CurrentIsInnermost ==
  ASSUME Constructs \cap {"while", "tagref"} = {} PROVE Spec => []InnermostScope
<1>1. ScopesOK => InnermostScope
  BY DEF ScopesOK, CurrentInner, InnermostScope
<1> QED
  BY <1>1, Scoping, PTL

-----------------------------------------------------------------------------
(* What the invariants say of single steps.                                 *)
LEMMA DeclareStorage ==
  ASSUME IndInv, NestInv, ScopesOK, EndDeclaration, outcome' = "parsing"
  PROVE  \A i \in DOMAIN symbols' \ DOMAIN symbols :
           (symbols'[i].storage = "EXTERN") <=> (Len(open) = 1)
<1>1. /\ SymbolsExtend /\ \A i \in Len(symbols) + 1..Len(symbols') : Installed(i)
      /\ open # <<>> /\ Within = "declaration"
  BY DeclarationInstalls DEF Fatal
<1>2. /\ current \in 1..Len(sets) /\ symbols \in Seq(SymbolType) /\ open \in Seq(ConstructType)
      /\ Len(open) \in 1..Len(open) /\ open[Len(open)].kind = "declaration"
      /\ current = open[Len(open)].inner
  BY <1>1, OpenTop DEF IndInv, TypeOK, ScopesOK, CurrentInner
<1>3. symbols' \in Seq(SymbolType)
  BY NextIndInv DEF Next, IndInv, TypeOK
<1>4. \A i \in DOMAIN symbols' \ DOMAIN symbols : i \in Len(symbols) + 1..Len(symbols')
  BY <1>2, <1>3
<1>5. \A i \in Len(symbols) + 1..Len(symbols') :
        (symbols'[i].storage = "EXTERN") <=> (sets[current].scope = "GLOBAL")
  BY <1>1 DEF Installed, StorageClass
<1>6. PlaceOK(Len(open)) /\ FunctionOK(Len(open))
  BY <1>2 DEF ScopesOK
<1>7. CASE Len(open) = 1
  <2>1. current = Global
    BY <1>2, <1>6, <1>7 DEF PlaceOK, Prev
  <2>2. sets[current].scope = "GLOBAL"
    BY <1>2, <2>1 DEF NestInv, SetsOK, SetOK
  <2> QED
    BY <1>4, <1>5, <1>7, <2>2
<1>8. CASE Len(open) # 1
  <2>1. sets[current].scope \in {"FUNCTION", "BLOCK"}
    BY <1>2, <1>6, <1>8 DEF FunctionOK
  <2> QED
    BY <1>4, <1>5, <1>8, <2>1
<1> QED
  BY <1>7, <1>8

(* What a declaration declares is EXTERN exactly when it stands outside every
   function (scope_helpers.c:40-43), without while statements and early tags: the
   set it goes to is then the global one, and in a function that of the function
   or of a block. *)
THEOREM DeclarationsAreExternAtFileScope ==
  ASSUME Constructs \cap {"while", "tagref"} = {} PROVE Spec => ExternAtFileScope
<1>1. IndInv /\ NestInv /\ ScopesOK /\ [Next]_vars =>
        [EndDeclaration /\ outcome' = "parsing" =>
           \A i \in DOMAIN symbols' \ DOMAIN symbols :
             (symbols'[i].storage = "EXTERN") <=> (Len(open) = 1)]_vars
  BY DeclareStorage
<1> QED
  BY <1>1, Scoping, Invariance, Nesting, PTL DEF Spec, ExternAtFileScope

\* Outside structs the open sets are the ones on the chain of the current set.
LEMMA NestIsChain ==
  ASSUME IndInv, NestInv, ScopesOK, Within # "struct"
  PROVE  \A t : OnChain(current, t) <=> t \in Nest
<1>1. PICK n : n = Len(open) + 1
  OBVIOUS
<1>2. /\ n \in 1..Len(open) + 1 /\ n - 1 = Len(open) /\ DOMAIN open = 1..n - 1
      /\ n > 1 => open[n - 1].kind # "struct"
  <2>1. Len(open) \in Nat /\ DOMAIN open = 1..Len(open)
    BY DEF IndInv, TypeOK
  <2>2. Len(open) >= 1 => open[Len(open)].kind # "struct"
    BY CurrentPrev
  <2> QED
    BY <1>1, <2>1, <2>2
<1>3. current = Prev(n)
  BY <1>1, CurrentPrev
<1>4. \A t : OnChain(Prev(n), t) <=> (t = Global \/ \E j \in 1..n - 1 : t = open[j].inner)
  BY <1>2, PrevChain DEF NestInv
<1> QED
  BY <1>2, <1>3, <1>4 DEF Nest

LEMMA NewestIs ==
  ASSUME NEW T, T \subseteq Nat, NEW x \in T, \A y \in T : y <= x
  PROVE  Newest(T) = x
<1>1. PICK z : z = Newest(T)
  OBVIOUS
<1>2. z \in T /\ \A y \in T : y <= z
  BY <1>1, Zenon DEF Newest
<1>3. z \in Nat /\ x \in Nat /\ x <= z /\ z <= x
  BY <1>2
<1>4. z = x
  BY <1>3
<1> QED
  BY <1>1, <1>4

\* The sets that declare a name, and those of them that are searched.
Declaring(n) == {s \in Nest : Table(s, "GENERAL", n) # {}}
Searched(n) == IF Within = "struct" THEN Declaring(n) \cap {current} ELSE Declaring(n)

LEMMA SearchedAreHits ==
  ASSUME IndInv, NestInv, ScopesOK, NEW n \in Names
  PROVE  /\ Hits(current, "GENERAL", n) \subseteq DOMAIN sets[current].chain
         /\ \A t : t \in Searched(n)
                     <=> \E k \in Hits(current, "GENERAL", n) : sets[current].chain[k] = t
<1>1. current \in 1..Len(sets)
  BY DEF IndInv, TypeOK
<1>2. CASE Within = "struct"
  <2>1. /\ Len(open) \in 1..Len(open) /\ Len(open) \in DOMAIN open
        /\ open[Len(open)].kind = "struct" /\ current = open[Len(open)].inner
    BY <1>2, OpenTop DEF NestInv, CurrentOK
  <2>2. IsStruct(current)
    BY <2>1 DEF NestInv, StructsOK, StructOK
  <2>3. /\ Visited(current) = {1} /\ sets[current].chain[1] = current
        /\ 1 \in DOMAIN sets[current].chain
    BY <1>1, <2>2, VisitedSets DEF NestInv, Visited
  <2>4. current \in Nest
    BY <2>1 DEF Nest
  <2> QED
    BY <1>2, <2>3, <2>4 DEF Hits, Searched, Declaring
<1>3. CASE Within # "struct"
  <2>1. ~IsStruct(current)
    BY <1>3 DEF NestInv, CurrentOK
  <2>2. Visited(current) = DOMAIN sets[current].chain
    BY <1>1, <2>1, VisitedSets DEF NestInv
  <2> QED
    BY <1>3, <2>2, NestIsChain DEF OnChain, Hits, Searched, Declaring
<1> QED
  BY <1>2, <1>3

LEMMA UseResolves ==
  ASSUME IndInv, NestInv, ScopesOK, NEW n \in Names, UseIdentifier(n)
  PROVE  IF Searched(n) = {}
         THEN outcome' = "undeclared"
         ELSE bound' \in Table(Newest(Searched(n)), "GENERAL", n)
<1> DEFINE symbol == Lookup(current, "GENERAL", n)
           hits == Hits(current, "GENERAL", n)
<1>1. current \in 1..Len(sets)
  BY DEF IndInv, TypeOK
<1>2. hits \subseteq DOMAIN sets[current].chain
  BY SearchedAreHits
<1>3. \A t : t \in Searched(n) <=> \E k \in hits : sets[current].chain[k] = t
  BY SearchedAreHits
<1>4. CASE hits = {}
  <2>1. Searched(n) = {}
    BY <1>3, <1>4
  <2>2. symbol = NoSymbol
    BY <1>4, LookupMisses
  <2>3. outcome' = "undeclared"
    BY <2>2 DEF UseIdentifier, Fatal
  <2> QED
    BY <2>1, <2>3
<1>5. CASE hits # {}
  <2>1. PICK k \in hits : /\ \A j \in hits : k <= j
                          /\ symbol # NoSymbol
                          /\ symbol \in Table(sets[current].chain[k], "GENERAL", n)
    BY <1>1, <1>5, LookupHits
  <2>2. PICK t : t = sets[current].chain[k]
    OBVIOUS
  <2>3. t \in Searched(n) /\ bound' = symbol
    BY <1>3, <2>1, <2>2 DEF UseIdentifier
  <2>4. ASSUME NEW u \in Searched(n) PROVE u \in Nat /\ u <= t
    <3>1. PICK j \in hits : sets[current].chain[j] = u
      BY <1>3, <2>4
    <3>2. k \in DOMAIN sets[current].chain /\ j \in DOMAIN sets[current].chain /\ k <= j
      BY <1>2, <2>1
    <3>3. k \in Nat /\ j \in Nat /\ t \in Nat /\ u \in Nat
      BY <1>1, <2>2, <3>1, <3>2, ChainDomain DEF IndInv, ChainsOK
    <3>4. k < j => u < t
      BY <1>1, <2>2, <3>1, <3>2 DEF NestInv, SetsOK, SetOK
    <3> QED
      BY <2>2, <3>1, <3>2, <3>3, <3>4
  <2>5. Newest(Searched(n)) = t
    BY <2>3, <2>4, NewestIs
  <2>6. Searched(n) # {} /\ bound' \in Table(Newest(Searched(n)), "GENERAL", n)
    <3> HIDE DEF symbol
    <3> QED
      BY <2>1, <2>2, <2>3, <2>5
  <2> QED
    BY <2>6, Zenon
<1> QED
  BY <1>4, <1>5

(* Outside struct bodies an identifier resolves to the innermost enclosing
   declaration that has ended, and is rejected exactly when there is none; in a
   body it is one of the body's own set or rejected (scope.c:183-202), whatever
   nests in whatever, without while statements and early tags: the parent links
   then lead through the sets the open constructs entered, all of them and no
   others. *)
THEOREM UsesBindInnermost ==
  ASSUME Constructs \cap {"while", "tagref"} = {} PROVE Spec => UseBindsInnermost
<1>1. IndInv /\ NestInv /\ ScopesOK /\ [Next]_vars =>
        [\A n \in Names :
           UseIdentifier(n) =>
             LET declaring == {s \in Nest : Table(s, "GENERAL", n) # {}}
                 found == IF Within = "struct" THEN declaring \cap {current} ELSE declaring
             IN  IF found = {}
                 THEN outcome' = "undeclared"
                 ELSE bound' \in Table(Newest(found), "GENERAL", n)]_vars
  BY UseResolves DEF Searched, Declaring
<1> QED
  BY <1>1, Scoping, Invariance, Nesting, PTL DEF Spec, UseBindsInnermost

-----------------------------------------------------------------------------
(* With early tags again, and no while statements: between external           *)
(* declarations the parser is back at the global set.                         *)
Depth(s) == Len(sets[s].chain)

\* Every parent link climbs one level.
DepthOK(s) ==
  \A k \in 1..Depth(s) : Depth(sets[s].chain[k]) + k = Depth(s) + 1

Unscoped == {"plain", "declaration"}

Scoped == {k \in 1..Len(open) : open[k].kind \notin Unscoped}

\* A body may lead the parser up the tree, never further down than it has open.
DepthInv ==
  /\ \A s \in 1..Len(sets) : DepthOK(s)
  /\ \A k \in 1..Len(open) : open[k].kind # "while"
  /\ Depth(current) <= 1 + Cardinality(Scoped)

LEMMA DepthNat ==
  ASSUME IndInv, NEW s \in 1..Len(sets)
  PROVE  /\ Depth(s) \in Nat /\ Depth(s) >= 1 /\ DOMAIN sets[s].chain = 1..Depth(s)
         /\ \A k \in 1..Depth(s) : sets[s].chain[k] \in 1..Len(sets)
<1>1. sets[s] \in SetType
  BY DEF IndInv, TypeOK
<1>2. sets[s].chain \in Seq(Nat \ {0}) /\ sets[s].chain # <<>>
  BY <1>1 DEF SetType, IndInv, ChainsOK
<1>3. DOMAIN sets[s].chain = 1..Depth(s)
  BY <1>2 DEF Depth
<1> QED
  BY <1>2, <1>3 DEF Depth, IndInv, ChainsOK

LEMMA ParentDepth ==
  ASSUME IndInv, DepthInv, NEW s \in 1..Len(sets), HasParent(s)
  PROVE  Depth(Parent(s)) + 1 = Depth(s)
<1>1. Depth(s) \in Nat /\ 2 \in 1..Depth(s) /\ Parent(s) \in 1..Len(sets)
  BY DepthNat, ParentOK DEF HasParent, Depth
<1>2. Depth(Parent(s)) + 2 = Depth(s) + 1 /\ Depth(Parent(s)) \in Nat
  BY <1>1, DepthNat DEF DepthInv, DepthOK, Parent
<1> QED
  BY <1>1, <1>2

LEMMA OldDepth ==
  ASSUME IndInv, DepthInv, SetsGrow, NEW s \in 1..Len(sets)
  PROVE  DepthOK(s)' /\ Depth(s)' = Depth(s)
<1>1. sets'[s] = sets[s] /\ Depth(s)' = Depth(s)
  BY DEF SetsGrow, Depth
<1>2. ASSUME NEW k \in 1..Depth(s) PROVE Depth(sets[s].chain[k])' + k = Depth(s) + 1
  <2>1. PICK t : t = sets[s].chain[k]
    OBVIOUS
  <2>2. t \in 1..Len(sets) /\ Depth(t) + k = Depth(s) + 1
    BY <2>1, DepthNat DEF DepthInv, DepthOK
  <2>3. Depth(t)' = Depth(t)
    BY <2>2 DEF SetsGrow, Depth
  <2> QED
    BY <1>1, <2>1, <2>2, <2>3 DEF Depth
<1> QED
  BY <1>1, <1>2 DEF DepthOK, Depth

LEMMA SameDepths ==
  ASSUME IndInv, DepthInv, UNCHANGED sets
  PROVE  SetsGrow /\ \A s \in 1..Len(sets') : DepthOK(s)'
<1>1. SetsGrow
  BY UnchangedSetsGrow
<1> QED
  BY <1>1, OldDepth

LEMMA NewDepths ==
  ASSUME IndInv, DepthInv, NEW p \in 1..Len(sets), NEW scope \in Scopes, Allocates(p, scope),
         NEW n, n = Len(sets) + 1
  PROVE  /\ SetsGrow /\ \A s \in 1..Len(sets') : DepthOK(s)'
         /\ Depth(n)' = Depth(p) + 1 /\ n \in 1..Len(sets')
<1>1. PICK m : m = Depth(p)
  OBVIOUS
<1>2. /\ SetsGrow /\ Len(sets) \in Nat /\ Len(sets') = n /\ m \in Nat /\ m >= 1
      /\ Depth(n)' = m + 1 /\ sets'[n].chain[1] = n
      /\ \A i \in 1..m : sets'[n].chain[i + 1] = sets[p].chain[i]
  BY <1>1, NewSetParts DEF Depth
<1>3. ASSUME NEW k \in 1..m + 1 PROVE Len(sets'[sets'[n].chain[k]].chain) + k = m + 2
  <2>1. CASE k = 1
    <3>1. Len(sets'[n].chain) = m + 1
      BY <1>2 DEF Depth
    <3> QED
      BY <1>2, <2>1, <3>1
  <2>2. CASE k # 1
    <3>1. PICK i, t : i = k - 1 /\ t = sets[p].chain[i]
      OBVIOUS
    <3>2. i \in 1..m /\ i + 1 = k
      BY <1>2, <2>2, <3>1
    <3>3. t \in 1..Len(sets) /\ Depth(t) + i = m + 1 /\ sets'[n].chain[k] = t
      BY <1>1, <1>2, <3>1, <3>2, DepthNat DEF DepthInv, DepthOK
    <3>4. Depth(t)' = Depth(t) /\ Depth(t) \in Nat
      BY <1>2, <3>3, OldDepth, DepthNat
    <3>5. Len(sets'[sets'[n].chain[k]].chain) = Depth(t)
      BY <3>3, <3>4 DEF Depth
    <3> QED
      BY <1>2, <3>2, <3>3, <3>4, <3>5
  <2> QED
    BY <2>1, <2>2
<1>4. DepthOK(n)'
  <2>1. m + 2 = (m + 1) + 1 /\ Len(sets'[n].chain) = m + 1
    BY <1>2 DEF Depth
  <2> QED
    BY <1>3, <2>1 DEF DepthOK, Depth
<1>5. ASSUME NEW s \in 1..Len(sets') PROVE DepthOK(s)'
  <2>1. s = n \/ s \in 1..Len(sets)
    BY <1>2
  <2> QED
    BY <1>2, <1>4, <2>1, OldDepth
<1> QED
  BY <1>1, <1>2, <1>5

\* Counting the constructs with a set.
LEMMA ScopedFinite ==
  ASSUME IndInv PROVE IsFiniteSet(Scoped) /\ Cardinality(Scoped) \in Nat
<1>1. Len(open) \in Nat
  BY OpenTop
<1>2. IsFiniteSet(1..Len(open))
  BY <1>1, FS_Interval
<1>3. IsFiniteSet(Scoped)
  BY <1>2, FS_Subset DEF Scoped
<1> QED
  BY <1>3, FS_CardinalityType

LEMMA PushScoped ==
  ASSUME IndInv, DepthInv, NEW c \in ConstructType, Begin(c), c.kind # "while"
  PROVE  /\ \A k \in 1..Len(open') : open'[k].kind # "while"
         /\ Cardinality(Scoped)' = IF c.kind \in Unscoped THEN Cardinality(Scoped)
                                                          ELSE Cardinality(Scoped) + 1
<1>1. PICK n : n = Len(open) + 1
  OBVIOUS
<1>2. /\ n \in Nat /\ n - 1 = Len(open) /\ Len(open') = n
      /\ \A k \in 1..n - 1 : open'[k] = open[k]
      /\ open'[n] = c
  BY <1>1, BeginOK, OpenTop DEF Begin
<1>3. \A k \in 1..Len(open') : open'[k].kind # "while"
  BY <1>2 DEF DepthInv
<1>4. CASE c.kind \in Unscoped
  <2>1. Scoped' = Scoped
    BY <1>2, <1>4 DEF Scoped
  <2> QED
    BY <1>3, <1>4, <2>1
<1>5. CASE c.kind \notin Unscoped
  <2>1. Scoped' = Scoped \cup {n} /\ n \notin Scoped
    BY <1>2, <1>5 DEF Scoped
  <2>2. Cardinality(Scoped \cup {n}) = Cardinality(Scoped) + 1
    BY <2>1, ScopedFinite, FS_AddElement
  <2> QED
    BY <1>3, <1>5, <2>1, <2>2
<1> QED
  BY <1>4, <1>5

LEMMA PopScoped ==
  ASSUME IndInv, DepthInv, NEW n, n = Len(open), n >= 1, Len(open') = n - 1,
         \A k \in 1..n - 1 : SameShape(k)
  PROVE  /\ \A k \in 1..Len(open') : open'[k].kind # "while"
         /\ Cardinality(Scoped)' = IF open[n].kind \in Unscoped THEN Cardinality(Scoped)
                                                                ELSE Cardinality(Scoped) - 1
<1>1. n \in Nat /\ n \in 1..n /\ \A k \in 1..n - 1 : k \in 1..n /\ open'[k].kind = open[k].kind
  BY OpenTop DEF SameShape
<1>2. \A k \in 1..Len(open') : open'[k].kind # "while"
  BY <1>1 DEF DepthInv
<1>3. CASE open[n].kind \in Unscoped
  <2>1. Scoped' = Scoped
    BY <1>1, <1>3 DEF Scoped
  <2> QED
    BY <1>2, <1>3, <2>1
<1>4. CASE open[n].kind \notin Unscoped
  <2>1. Scoped' = Scoped \ {n} /\ n \in Scoped
    BY <1>1, <1>4 DEF Scoped
  <2>2. Cardinality(Scoped \ {n}) = Cardinality(Scoped) - 1
    BY <2>1, ScopedFinite, FS_RemoveElement
  <2> QED
    BY <1>2, <1>4, <2>1, <2>2
<1> QED
  BY <1>3, <1>4

LEMMA SameOpenDepth ==
  ASSUME IndInv, DepthInv, UNCHANGED <<sets, current>>,
         Len(open') = Len(open), \A k \in 1..Len(open) : SameShape(k)
  PROVE  DepthInv'
<1>1. \A s \in 1..Len(sets') : DepthOK(s)'
  BY SameDepths
<1>2. Scoped' = Scoped /\ Depth(current)' = Depth(current)
  BY DEF Scoped, Depth, SameShape
<1>3. \A k \in 1..Len(open') : open'[k].kind # "while"
  BY DEF DepthInv, SameShape
<1> QED
  BY <1>1, <1>2, <1>3 DEF DepthInv

LEMMA SameDepthInv ==
  ASSUME IndInv, DepthInv, UNCHANGED <<sets, current, open>> PROVE DepthInv'
BY SameOpenDepth DEF SameShape

LEMMA DeclaratorDepth ==
  ASSUME IndInv, DepthInv, NEW n \in Names,
         NextDeclarator(n) \/ \E type \in MemberTypes : DeclareMember(n, type)
  PROVE  DepthInv'
<1>1. open # <<>>
  BY NextDeclaratorOK, DeclareMemberOK
<1>2. PICK names \in Seq(Names), types \in SUBSET Nat : Declare(names, types)
  BY NextDeclaratorOK, DeclareMemberOK
<1>3. Len(open') = Len(open) /\ \A k \in 1..Len(open) : SameShape(k)
  BY <1>1, <1>2, DeclareShape
<1>4. UNCHANGED <<sets, current>>
  BY <1>2 DEF Declare
<1> QED
  BY <1>3, <1>4, SameOpenDepth

\* The parser goes into a new set.
LEMMA EnterDepth ==
  ASSUME IndInv, DepthInv, NEW scope \in Scopes, Enter(current, scope),
         NEW c \in ConstructType, Begin(c), c.kind \notin {"while", "plain", "declaration"}
  PROVE  DepthInv'
<1>1. PICK n, p : n = Len(sets) + 1 /\ p = current
  OBVIOUS
<1>2. p \in 1..Len(sets) /\ Allocates(p, scope) /\ current' = n
  BY <1>1 DEF Enter, Allocates, IndInv, TypeOK
<1>3. /\ \A s \in 1..Len(sets') : DepthOK(s)'
      /\ Depth(n)' = Depth(p) + 1 /\ Depth(p) \in Nat
  BY <1>1, <1>2, NewDepths, DepthNat
<1>4. /\ \A k \in 1..Len(open') : open'[k].kind # "while"
      /\ Cardinality(Scoped)' = Cardinality(Scoped) + 1 /\ Cardinality(Scoped) \in Nat
  BY PushScoped, ScopedFinite DEF Unscoped
<1>5. Depth(current)' = Depth(p) + 1
  BY <1>2, <1>3 DEF Depth
<1>6. Depth(p) <= 1 + Cardinality(Scoped)
  BY <1>1 DEF DepthInv
<1>7. Depth(current)' <= 1 + Cardinality(Scoped)'
  BY <1>3, <1>4, <1>5, <1>6
<1> QED
  BY <1>3, <1>4, <1>7 DEF DepthInv

LEMMA BeginFunctionDepth ==
  ASSUME IndInv, DepthInv, NEW n \in Names, BeginFunction(n) PROVE DepthInv'
<1>1. CASE UNCHANGED <<sets, current, open>>
  BY <1>1, SameDepthInv
<1>2. CASE /\ Enter(current, "FUNCTION")
           /\ Begin(Construct("function", current, current', NoSymbol, {}))
  <2>1. PICK c : c = Construct("function", current, current', NoSymbol, {})
    OBVIOUS
  <2>2. current \in Nat \ {0} /\ current' \in Nat \ {0}
    BY <1>2 DEF IndInv, TypeOK, Enter
  <2>3. c \in ConstructType /\ c.kind = "function" /\ Begin(c)
    BY <1>2, <2>1, <2>2 DEF Construct, ConstructType, Kinds, NoSymbol
  <2> QED
    BY <1>2, <2>3, EnterDepth DEF Scopes
<1> QED
  BY <1>1, <1>2 DEF BeginFunction, Fatal

LEMMA BeginIfDepth ==
  ASSUME IndInv, DepthInv, BeginStatement("if") PROVE DepthInv'
<1>1. PICK c : c = Construct("if", current, current', NoSymbol, {})
  OBVIOUS
<1>2. Enter(current, "BLOCK") /\ Begin(c)
  BY <1>1 DEF BeginStatement
<1>3. current \in Nat \ {0} /\ current' \in Nat \ {0}
  BY <1>2 DEF IndInv, TypeOK, Enter
<1>4. c \in ConstructType /\ c.kind = "if"
  BY <1>1, <1>3 DEF Construct, ConstructType, Kinds, NoSymbol
<1> QED
  BY <1>2, <1>4, EnterDepth DEF Scopes

\* A construct without a set opens.
LEMMA SamePlaceDepth ==
  ASSUME IndInv, DepthInv, UNCHANGED <<sets, current>>,
         NEW c \in ConstructType, Begin(c), c.kind \in Unscoped
  PROVE  DepthInv'
<1>1. /\ \A k \in 1..Len(open') : open'[k].kind # "while"
      /\ Cardinality(Scoped)' = Cardinality(Scoped)
  BY PushScoped DEF Unscoped
<1>2. (\A s \in 1..Len(sets') : DepthOK(s)') /\ Depth(current)' = Depth(current)
  BY SameDepths DEF Depth
<1> QED
  BY <1>1, <1>2 DEF DepthInv

LEMMA BeginPlainDepth == ASSUME IndInv, DepthInv, BeginPlain PROVE DepthInv'
<1>1. PICK c : c = Construct("plain", current, current, NoSymbol, {})
  OBVIOUS
<1>2. UNCHANGED <<sets, current>> /\ Begin(c)
  BY <1>1 DEF BeginPlain
<1>3. current \in Nat \ {0}
  BY DEF IndInv, TypeOK
<1>4. c \in ConstructType /\ c.kind = "plain"
  BY <1>1, <1>3 DEF Construct, ConstructType, Kinds, NoSymbol
<1> QED
  BY <1>2, <1>4, SamePlaceDepth DEF Unscoped

LEMMA BeginDeclarationDepth ==
  ASSUME IndInv, DepthInv, NEW n \in Names, BeginDeclaration(n) PROVE DepthInv'
<1>1. PICK c : c = Declaration(n)
  OBVIOUS
<1>2. c \in ConstructType /\ c.kind = "declaration"
  BY <1>1, DeclarationOK
<1>3. UNCHANGED <<sets, current>> /\ Begin(c)
  BY <1>1 DEF BeginDeclaration
<1> QED
  BY <1>2, <1>3, SamePlaceDepth DEF Unscoped

\* A construct closes, and the parser climbs a level if it had a set.
LEMMA PopDepth ==
  ASSUME IndInv, DepthInv, NEW n, n = Len(open), n >= 1, Len(open') = n - 1,
         \A k \in 1..n - 1 : SameShape(k),
         SetsGrow, \A s \in 1..Len(sets') : DepthOK(s)',
         IF open[n].kind \in Unscoped THEN current' = current
                                      ELSE HasParent(current) /\ current' = Parent(current)
  PROVE  DepthInv'
<1>1. PICK c, p : c = current /\ p = current'
  OBVIOUS
<1>2. c \in 1..Len(sets)
  BY <1>1 DEF IndInv, TypeOK
<1>3. /\ p \in 1..Len(sets) /\ Depth(p) \in Nat /\ Depth(c) \in Nat
      /\ IF open[n].kind \in Unscoped THEN p = c ELSE Depth(p) + 1 = Depth(c)
  <2>1. CASE open[n].kind \in Unscoped
    BY <1>1, <1>2, <2>1, DepthNat
  <2>2. CASE open[n].kind \notin Unscoped
    <3>1. HasParent(c) /\ p = Parent(c)
      BY <1>1, <2>2
    <3>2. p \in 1..Len(sets) /\ Depth(p) + 1 = Depth(c)
      BY <1>2, <3>1, ParentOK, ParentDepth
    <3> QED
      BY <1>2, <2>2, <3>2, DepthNat
  <2> QED
    BY <2>1, <2>2
<1>4. Depth(current)' = Depth(p)
  BY <1>1, <1>3, OldDepth DEF Depth
<1>5. /\ \A k \in 1..Len(open') : open'[k].kind # "while"
      /\ Cardinality(Scoped) \in Nat
      /\ Cardinality(Scoped)' = IF open[n].kind \in Unscoped THEN Cardinality(Scoped)
                                                             ELSE Cardinality(Scoped) - 1
  BY PopScoped, ScopedFinite
<1>6. Depth(c) <= 1 + Cardinality(Scoped)
  BY <1>1 DEF DepthInv
<1>7. Depth(current)' <= 1 + Cardinality(Scoped)'
  BY <1>3, <1>4, <1>5, <1>6
<1> QED
  BY <1>5, <1>7 DEF DepthInv

LEMMA ClosedDepth ==
  ASSUME IndInv, DepthInv, End, UNCHANGED sets, open # <<>>,
         IF Within \in Unscoped THEN current' = current
                                ELSE HasParent(current) /\ current' = Parent(current)
  PROVE  DepthInv'
<1>1. PICK n : n = Len(open)
  OBVIOUS
<1>2. /\ open \in Seq(ConstructType) /\ n \in Nat /\ n >= 1 /\ Within = open[n].kind
  BY <1>1, OpenTop
<1>3. Len(open') = n - 1 /\ \A k \in 1..Len(open') : open'[k] = open[k]
  BY <1>1, <1>2, EndOK
<1>4. \A k \in 1..n - 1 : SameShape(k)
  BY <1>3 DEF SameShape
<1>5. SetsGrow /\ \A s \in 1..Len(sets') : DepthOK(s)'
  BY SameDepths
<1> QED
  BY <1>1, <1>2, <1>3, <1>4, <1>5, PopDepth

LEMMA EndDepth ==
  ASSUME IndInv, DepthInv, EndScoped \/ EndUnscoped PROVE DepthInv'
<1>1. CASE Fatal("no parent")
  BY <1>1, SameDepthInv DEF Fatal
<1>2. open # <<>>
  BY DEF EndScoped, EndUnscoped, Within
<1>3. Within # "while"
  BY <1>2, OpenTop DEF DepthInv
<1>4. CASE EndScoped /\ ~Fatal("no parent")
  <2>1. /\ End /\ UNCHANGED sets /\ Within \notin Unscoped
        /\ HasParent(current) /\ current' = Parent(current)
    BY <1>4 DEF EndScoped, Unscoped
  <2> QED
    BY <1>2, <2>1, ClosedDepth
<1>5. CASE EndUnscoped
  <2>1. End /\ UNCHANGED sets /\ Within \in Unscoped /\ current' = current
    BY <1>3, <1>5 DEF EndUnscoped, Unscoped
  <2> QED
    BY <1>2, <2>1, ClosedDepth
<1> QED
  BY <1>1, <1>4, <1>5

LEMMA EndDeclarationDepth ==
  ASSUME IndInv, DepthInv, EndDeclaration PROVE DepthInv'
<1>1. CASE Fatal("redeclared")
  BY <1>1, SameDepthInv DEF Fatal
<1>2. CASE /\ open # <<>> /\ Within = "declaration" /\ End /\ UNCHANGED <<sets, current>>
  BY <1>2, ClosedDepth DEF Unscoped
<1> QED
  BY <1>1, <1>2, DeclarationInstalls

LEMMA BeginElseDepth == ASSUME IndInv, IndInv', DepthInv, BeginElse PROVE DepthInv'
<1>1. CASE UNCHANGED <<sets, current, open>>
  BY <1>1, SameDepthInv
<1>2. CASE /\ HasParent(current)
           /\ Enter(Parent(current), "BLOCK")
           /\ open' = [open EXCEPT ![Len(open)] =
                         Construct("else", @.outer, current', NoSymbol, {})]
  <2>1. PICK c, p, s : c = current /\ p = Parent(current) /\ s = Len(sets) + 1
    OBVIOUS
  <2>2. /\ c \in 1..Len(sets) /\ p \in 1..Len(sets) /\ Depth(p) + 1 = Depth(c)
    BY <1>2, <2>1, ParentOK, ParentDepth DEF IndInv, TypeOK
  <2>3. Allocates(p, "BLOCK") /\ current' = s
    BY <1>2, <2>1 DEF Enter, Allocates
  <2>4. (\A t \in 1..Len(sets') : DepthOK(t)') /\ Depth(s)' = Depth(p) + 1
    BY <2>1, <2>2, <2>3, NewDepths DEF Scopes
  <2>5. Depth(current)' = Depth(c)
    BY <2>2, <2>3, <2>4 DEF Depth
  <2>6. PICK n : n = Len(open)
    OBVIOUS
  <2>7. /\ n \in Nat /\ n \in 1..n /\ Len(open') = n /\ open[n].kind = "if"
        /\ open'[n].kind = "else" /\ \A k \in 1..n - 1 : open'[k].kind = open[k].kind
    BY <1>2, <2>6, ElseOpens, OpenTop DEF BeginElse, ElseReplaces, SameConstruct, SameShape
  <2>8. \A k \in 1..n : k = n \/ k \in 1..n - 1
    BY <2>7
  <2>9. Scoped' = Scoped
    BY <2>6, <2>7, <2>8 DEF Scoped, Unscoped
  <2>10. \A k \in 1..Len(open') : open'[k].kind # "while"
    BY <2>6, <2>7, <2>8 DEF DepthInv
  <2> QED
    BY <2>1, <2>4, <2>5, <2>9, <2>10 DEF DepthInv
<1> QED
  BY <1>1, <1>2 DEF BeginElse, Fatal

LEMMA TagReferenceDepth ==
  ASSUME IndInv, DepthInv, NEW t \in Names, TagReference(t) PROVE DepthInv'
<1>1. CASE UNCHANGED <<sets, current, open>>
  BY <1>1, SameDepthInv
<1>2. CASE Allocates(current, "STRUCT_OR_UNION") /\ UNCHANGED <<current, open>>
  <2>1. PICK c : c = current
    OBVIOUS
  <2>2. c \in 1..Len(sets) /\ Allocates(c, "STRUCT_OR_UNION")
    BY <1>2, <2>1 DEF IndInv, TypeOK
  <2>3. SetsGrow /\ \A s \in 1..Len(sets') : DepthOK(s)'
    BY <2>2, NewDepths DEF Scopes
  <2>4. Depth(current)' = Depth(current) /\ Scoped' = Scoped
    BY <1>2, <2>1, <2>2, <2>3 DEF SetsGrow, Depth, Scoped
  <2> QED
    BY <1>2, <2>3, <2>4 DEF DepthInv
<1> QED
  BY <1>1, <1>2 DEF TagReference, Allocates

LEMMA BeginTaggedDepth ==
  ASSUME IndInv, NestInv, DepthInv, NEW t \in Names, BeginTagged(t)
  PROVE  DepthInv'
<1> DEFINE symbol == Lookup(current, "TAG", t)
           tset == symbols[symbol].tset
           known == Construct("struct", current, tset, symbol, {})
           new == Construct("struct", current, current', Len(symbols) + 1, {"fresh"})
<1>1. current \in 1..Len(sets) /\ current \in Nat \ {0} /\ Len(symbols) \in Nat /\ Len(sets) \in Nat
  BY DEF IndInv, TypeOK
<1>2. CASE /\ symbol # NoSymbol
           /\ current' = tset
           /\ Begin(known)
           /\ UNCHANGED <<sets, symbols>>
  <2>1. PICK i, s, c : i = symbol /\ s = tset /\ c = current
    OBVIOUS
  <2>2. c \in 1..Len(sets) /\ i = Lookup(c, "TAG", t) /\ i # NoSymbol
    BY <1>1, <1>2, <2>1
  <2>3. PICK k \in Hits(c, "TAG", t) : i \in Table(sets[c].chain[k], "TAG", t)
    BY <2>2, LookupMisses, LookupHits
  <2>4. PICK o : o = sets[c].chain[k]
    OBVIOUS
  <2>5. /\ k \in 1..Depth(c) /\ i \in 1..Len(symbols)
        /\ symbols[i].ns = "TAG" /\ symbols[i].owner = o
    <3>1. k \in DOMAIN sets[c].chain
      BY DEF Hits, Visited
    <3>2. i \in DOMAIN symbols /\ symbols[i].ns = "TAG" /\ symbols[i].owner = o
      BY <2>3, <2>4 DEF Table
    <3>3. DOMAIN symbols = 1..Len(symbols)
      BY DEF IndInv, TypeOK
    <3> QED
      BY <2>2, <3>1, <3>2, <3>3, DepthNat
  <2>6. /\ Depth(c) \in Nat /\ o \in 1..Len(sets) /\ Depth(o) \in Nat
        /\ Depth(o) + k = Depth(c) + 1
    BY <2>2, <2>4, <2>5, DepthNat DEF DepthInv, DepthOK
  <2>7. s \in 1..Len(sets) /\ IsStruct(s) /\ Parent(s) = o
    BY <2>1, <2>5 DEF NestInv, TagSetsOK, TagSetOK, IndInv, OwnersOK
  <2>8. Depth(o) + 1 = Depth(s)
    BY <2>7, StructParent, ParentDepth DEF NestInv
  <2>9. PICK b : b \in ConstructType /\ b.kind = "struct" /\ Begin(b)
    <3>1. s \in Nat \ {0} /\ i \in Nat
      BY <1>1, <2>5, <2>7
    <3>2. known = Construct("struct", current, s, i, {})
      BY <2>1
    <3>3. Begin(known)
      BY <1>2
    <3> HIDE DEF known
    <3>4. known \in ConstructType /\ known.kind = "struct"
      BY <1>1, <3>1, <3>2 DEF Construct, ConstructType, Kinds
    <3> QED
      BY <3>3, <3>4
  <2>10. /\ \A j \in 1..Len(open') : open'[j].kind # "while"
         /\ Cardinality(Scoped)' = Cardinality(Scoped) + 1 /\ Cardinality(Scoped) \in Nat
    BY <2>9, PushScoped, ScopedFinite DEF Unscoped
  <2>11. \A u \in 1..Len(sets') : DepthOK(u)'
    BY <1>2, SameDepths
  <2>12. Depth(current)' = Depth(s) /\ Depth(c) <= 1 + Cardinality(Scoped)
    BY <1>2, <2>1 DEF Depth, DepthInv
  <2>13. Depth(current)' <= 1 + Cardinality(Scoped)'
    BY <2>5, <2>6, <2>8, <2>10, <2>12
  <2> QED
    BY <2>10, <2>11, <2>13 DEF DepthInv
<1>3. CASE Enter(current, "STRUCT_OR_UNION") /\ Begin(new)
  <2>1. PICK c : c = new
    OBVIOUS
  <2>2. current' \in Nat \ {0}
    BY <1>1, <1>3 DEF Enter
  <2>3. c \in ConstructType /\ c.kind = "struct" /\ Begin(c)
    BY <1>1, <1>3, <2>1, <2>2 DEF Construct, ConstructType, Kinds
  <2> QED
    BY <1>3, <2>3, EnterDepth DEF Scopes
<1> QED
  BY <1>2, <1>3 DEF BeginTagged

LEMMA BeginAnonymousDepth == ASSUME IndInv, DepthInv, BeginAnonymous PROVE DepthInv'
<1>1. PICK c : c = Construct("struct", current, current', NoSymbol, {"fresh"})
  OBVIOUS
<1>2. Enter(current, "STRUCT_OR_UNION") /\ Begin(c)
  BY <1>1 DEF BeginAnonymous
<1>3. current \in Nat \ {0} /\ current' \in Nat \ {0}
  BY <1>2 DEF IndInv, TypeOK, Enter
<1>4. c \in ConstructType /\ c.kind = "struct"
  BY <1>1, <1>3 DEF Construct, ConstructType, Kinds, NoSymbol
<1> QED
  BY <1>2, <1>4, EnterDepth DEF Scopes

LEMMA EndStructDepth ==
  ASSUME IndInv, NestInv, DepthInv, EndStruct PROVE DepthInv'
<1>1. CASE UNCHANGED <<sets, current, open>>
  BY <1>1, SameDepthInv
<1>2. ASSUME NEW p, NEW s, NEW tag, NEW done, NEW names, NEW more,
             StructEnds(p, s, tag, done, names, more)
      PROVE  DepthInv'
  <2>1. Within = "struct" /\ open # <<>>
    BY EndStructEffect
  <2>2. PICK n : n = Len(open)
    OBVIOUS
  <2>3. n \in Nat /\ n >= 1 /\ n \in 1..n /\ open[n].kind = "struct"
    BY <2>1, <2>2, OpenTop
  <2>4. Len(open') = n - 1 /\ \A k \in 1..n - 1 : SameShape(k)
    BY <1>2, <2>1, <2>2, EndInnerKeeps DEF StructEnds, SameConstruct
  <2>5. /\ p = Parent(current) /\ current' = p /\ Allocates(p, "STRUCT_OR_UNION")
    BY <1>2 DEF StructEnds
  <2>6. HasParent(current) /\ p \in 1..Len(sets)
    <3>1. current \in 1..Len(sets) /\ IsStruct(current)
      BY <2>1, <2>2, <2>3 DEF NestInv, CurrentOK, StructsOK, StructOK
    <3> QED
      BY <2>5, <3>1, StructParent DEF NestInv
  <2>7. SetsGrow /\ \A t \in 1..Len(sets') : DepthOK(t)'
    BY <2>5, <2>6, NewDepths DEF Scopes
  <2> QED
    BY <2>2, <2>3, <2>4, <2>5, <2>6, <2>7, PopDepth DEF Unscoped
<1> QED
  BY <1>1, <1>2, EndStructEffect

LEMMA NextDepth ==
  ASSUME "while" \notin Constructs, IndInv, NestInv, DepthInv, [Next]_vars
  PROVE  DepthInv'
<1>1. ASSUME NEW n \in Names, BeginFunction(n) PROVE DepthInv'
  BY <1>1, BeginFunctionDepth
<1>2. ASSUME NEW n \in Names, TagReference(n) PROVE DepthInv'
  BY <1>2, TagReferenceDepth
<1>3. ASSUME NEW n \in Names, BeginTagged(n) PROVE DepthInv'
  BY <1>3, BeginTaggedDepth
<1>4. CASE EndStruct
  BY <1>4, EndStructDepth
<1>5. ASSUME NEW kind \in {"if", "while"}, BeginStatement(kind) PROVE DepthInv'
  <2>1. kind = "if"
    BY <1>5 DEF BeginStatement
  <2> QED
    BY <1>5, <2>1, BeginIfDepth
<1>6. CASE BeginPlain
  BY <1>6, BeginPlainDepth
<1>7. CASE EndScoped \/ EndUnscoped
  BY <1>7, EndDepth
<1>8. CASE BeginElse
  BY <1>8, NextIndInv, BeginElseDepth
<1>9. CASE BeginAnonymous
  BY <1>9, BeginAnonymousDepth
<1>10. CASE \/ GotoNodeLost \/ EndStructCrash \/ UNCHANGED vars
            \/ \E n \in Names : \/ GotoStatement(n)
                                \/ \E empty \in BOOLEAN : LabelStatement(n, empty)
                                \/ UseIdentifier(n)
  <2>1. UNCHANGED <<sets, current, open>>
    BY <1>10 DEF GotoNodeLost, EndStructCrash, GotoStatement, LabelStatement,
                 UseIdentifier, Fatal, vars
  <2> QED
    BY <2>1, SameDepthInv
<1>11. ASSUME NEW n \in Names, BeginDeclaration(n) PROVE DepthInv'
  BY <1>11, BeginDeclarationDepth
<1>12. ASSUME NEW n \in Names,
              NextDeclarator(n) \/ \E type \in MemberTypes : DeclareMember(n, type)
       PROVE  DepthInv'
  BY <1>12, DeclaratorDepth
<1>13. CASE EndDeclaration
  BY <1>13, EndDeclarationDepth
<1> QED
  BY <1>1, <1>2, <1>3, <1>4, <1>5, <1>6, <1>7, <1>8, <1>9, <1>10, <1>11, <1>12, <1>13,
     Zenon DEF Next

LEMMA InitDepth == ASSUME Init PROVE DepthInv
<1>1. PICK g : g = [scope |-> "GLOBAL", chain |-> <<Global>>]
  OBVIOUS
<1>2. g.chain = <<Global>> /\ sets = <<g>>
  BY <1>1 DEF Init
<1>3. PICK one : one = <<Global>>
  OBVIOUS
<1>4. Len(one) = 1 /\ one[1] = 1
  BY <1>3 DEF Global
<1>5. Len(sets) = 1 /\ sets[1].chain = one
  BY <1>2, <1>3
<1>6. Depth(1) = 1 /\ current = 1 /\ Len(open) = 0
  BY <1>4, <1>5 DEF Init, Global, Depth
<1>7. \A s \in 1..Len(sets) : DepthOK(s)
  BY <1>4, <1>5, <1>6 DEF DepthOK
<1>8. Scoped = {} /\ Cardinality({}) = 0
  BY <1>6, FS_EmptySet DEF Scoped
<1> QED
  BY <1>6, <1>7, <1>8 DEF DepthInv

TopIsGlobal == open = <<>> => current = Global

LEMMA AtTop == ASSUME "while" \notin Constructs PROVE Spec => []TopIsGlobal
<1>1. Init => DepthInv
  BY InitDepth
<1>2. IndInv /\ NestInv /\ DepthInv /\ [Next]_vars => DepthInv'
  BY NextDepth
<1>3. Spec => []DepthInv
  BY <1>1, <1>2, Invariance, Nesting, PTL DEF Spec
<1>4. IndInv /\ NestInv /\ DepthInv => TopIsGlobal
  <2> SUFFICES ASSUME IndInv, NestInv, DepthInv, open = <<>> PROVE current = Global
    BY DEF TopIsGlobal
  <2>1. PICK c : c = current
    OBVIOUS
  <2>2. c \in 1..Len(sets) /\ Depth(c) \in Nat
    BY <2>1, DepthNat DEF IndInv, TypeOK
  <2>3. Scoped = {} /\ Cardinality({}) = 0
    BY FS_EmptySet DEF Scoped
  <2>4. ~HasParent(c)
    BY <2>1, <2>2, <2>3 DEF DepthInv, Depth, HasParent
  <2> QED
    BY <2>1, <2>2, <2>4 DEF NestInv, SetsOK, SetOK
<1> QED
  BY <1>3, <1>4, Invariance, Nesting, PTL

(* Between external declarations the current set is the global one
   (EXIT_SCOPE, c.y:35, scope_helpers.c:99), in every program without while
   statements, early tags or not: a struct body may leave the parser higher up
   in the tree than it was, never lower, so that a function that is over has
   climbed all the way or run into the assertion of EXIT_SCOPE. *)
THEOREM FileScope == ASSUME "while" \notin Constructs PROVE Spec => []FileScopeIsGlobal
<1>1. TopIsGlobal => FileScopeIsGlobal
  BY DEF TopIsGlobal, FileScopeIsGlobal
<1> QED
  BY <1>1, AtTop, PTL

-----------------------------------------------------------------------------
(* Labels: which function's set the parser is in.                           *)

\* A chain goes on with that of the parent, and has those of all its sets.
Continues(s) ==
  \A t : OnChain(s, t) <=> (t = s \/ (HasParent(s) /\ OnChain(Parent(s), t)))

Closed(s) == \A t, u : OnChain(s, t) /\ OnChain(t, u) => OnChain(s, u)

LinkOK(s) == Continues(s) /\ Closed(s)

\* A function set on the chain is that of the function being read.
HomeOK(s) ==
  \A t \in 1..Len(sets) :
    OnChain(s, t) /\ sets[t].scope = "FUNCTION" =>
      open # <<>> /\ open[1].kind = "function" /\ open[1].inner = t

HomeInv ==
  /\ \A s \in 1..Len(sets) : LinkOK(s)
  /\ open # <<>> => open[1].kind \in {"function", "struct", "declaration"}
  /\ HomeOK(current)

LEMMA OldLink ==
  ASSUME IndInv, HomeInv, SetsGrow, NEW s \in 1..Len(sets) PROVE LinkOK(s)'
<1>1. Continues(s) /\ Closed(s) /\ \A t : OnChain(s, t)' <=> OnChain(s, t)
  BY ChainKept DEF HomeInv, LinkOK
<1>2. HasParent(s)' = HasParent(s) /\ Parent(s)' = Parent(s)
  BY DEF SetsGrow, HasParent, Parent
<1>3. ASSUME HasParent(s) PROVE Continues(s)'
  <2>1. PICK p : p = Parent(s)
    OBVIOUS
  <2>2. p \in 1..Len(sets)
    BY <1>3, <2>1, ParentOK
  <2>3. \A t : OnChain(p, t)' <=> OnChain(p, t)
    BY <2>2, ChainKept
  <2>4. \A t : OnChain(Parent(s), t)' <=> OnChain(Parent(s), t)
    BY <1>2, <2>1, <2>3 DEF OnChain
  <2>5. ASSUME NEW t PROVE OnChain(s, t)' <=> (t = s \/ (HasParent(s)' /\ OnChain(Parent(s), t)'))
    <3>1. OnChain(s, t) <=> (t = s \/ OnChain(Parent(s), t))
      BY <1>1, <1>3 DEF Continues
    <3> QED
      BY <1>1, <1>2, <1>3, <2>4, <3>1
  <2> QED
    BY <2>5 DEF Continues
<1>4. ASSUME ~HasParent(s) PROVE Continues(s)'
  <2>1. ~HasParent(s)' /\ \A t : OnChain(s, t)' <=> t = s
    BY <1>1, <1>2, <1>4 DEF Continues
  <2> QED
    BY <2>1 DEF Continues
<1>5. ASSUME NEW t, NEW u, OnChain(s, t)', OnChain(t, u)' PROVE OnChain(s, u)'
  <2>1. OnChain(s, t)
    BY <1>1, <1>5
  <2>2. t \in 1..Len(sets)
    BY <2>1 DEF OnChain, IndInv, ChainsOK
  <2>3. OnChain(t, u)
    BY <1>5, <2>2, ChainKept
  <2> QED
    BY <1>1, <2>1, <2>3 DEF Closed
<1>6. Closed(s)'
  BY <1>5 DEF Closed
<1> QED
  BY <1>3, <1>4, <1>6, Zenon DEF LinkOK

LEMMA SameLinks ==
  ASSUME IndInv, HomeInv, UNCHANGED sets PROVE SetsGrow /\ \A s \in 1..Len(sets') : LinkOK(s)'
BY UnchangedSetsGrow, OldLink

LEMMA NewLinks ==
  ASSUME IndInv, NestInv, HomeInv, NEW p \in 1..Len(sets), NEW scope \in Scopes,
         Allocates(p, scope), NEW n, n = Len(sets) + 1
  PROVE  /\ SetsGrow /\ \A s \in 1..Len(sets') : LinkOK(s)'
         /\ Len(sets') = n /\ sets'[n].scope = scope
         /\ \A t : OnChain(n, t)' <=> (t = n \/ OnChain(p, t))
<1>1. SetsGrow /\ Len(sets) \in Nat /\ Len(sets') = n /\ sets'[n].scope = scope
  BY NewSetParts
<1>2. \A t : OnChain(n, t)' <=> (t = n \/ OnChain(p, t))
  BY NewChain
<1>3. HasParent(n)' /\ Parent(n)' = p
  BY NewParent DEF NestInv
<1>4. \A t : OnChain(p, t)' <=> OnChain(p, t)
  BY <1>1, ChainKept
<1>5. \A t : OnChain(Parent(n), t)' <=> OnChain(p, t)
  BY <1>3, <1>4 DEF OnChain
<1>6. LinkOK(n)'
  <2>1. Continues(n)'
    BY <1>2, <1>3, <1>5, Zenon DEF Continues
  <2>2. ASSUME NEW t, NEW u, OnChain(n, t)', OnChain(t, u)' PROVE OnChain(n, u)'
    <3>1. CASE OnChain(p, t)
      <4>1. t \in 1..Len(sets)
        BY <3>1 DEF OnChain, IndInv, ChainsOK
      <4>2. OnChain(t, u)
        BY <1>1, <2>2, <4>1, ChainKept
      <4>3. OnChain(p, u)
        BY <3>1, <4>2 DEF HomeInv, LinkOK, Closed
      <4> QED
        BY <1>2, <4>3
    <3>2. CASE t = n
      BY <2>2, <3>2
    <3> QED
      BY <1>2, <2>2, <3>1, <3>2
  <2>3. Closed(n)'
    BY <2>2 DEF Closed
  <2> QED
    BY <2>1, <2>3, Zenon DEF LinkOK
<1>7. ASSUME NEW s \in 1..Len(sets') PROVE LinkOK(s)'
  <2>1. s = n \/ s \in 1..Len(sets)
    BY <1>1
  <2> QED
    BY <1>1, <1>6, <2>1, OldLink
<1> QED
  BY <1>1, <1>2, <1>7

\* No new function on the chain, and the first construct stays the first.
FirstStays ==
  \/ open' = <<>>
  \/ open # <<>> /\ open'[1].kind = open[1].kind /\ open'[1].inner = open[1].inner
  \/ open = <<>> /\ open'[1].kind \in {"struct", "declaration"}

LEMMA HomeStays ==
  ASSUME IndInv, IndInv', NestInv', HomeInv, TopIsGlobal', SetsGrow, FirstStays,
         \A s \in 1..Len(sets') : LinkOK(s)',
         \A t : OnChain(current, t)' =>
                  OnChain(current, t) \/ sets'[t].scope # "FUNCTION"
  PROVE  HomeInv'
<1>1. open' # <<>> => open'[1].kind \in {"function", "struct", "declaration"}
  BY DEF FirstStays, HomeInv
<1>2. CASE open' = <<>>
  <2>1. current' = Global /\ Global \in 1..Len(sets')
    BY <1>2 DEF TopIsGlobal, IndInv, TypeOK
  <2>2. ~HasParent(Global)' /\ sets'[Global].scope = "GLOBAL" /\ LinkOK(Global)'
    BY <2>1 DEF NestInv, SetsOK, SetOK, HasParent
  <2>3. \A t : OnChain(Global, t)' => t = Global
    BY <2>2, Zenon DEF LinkOK, Continues
  <2>4. HomeOK(current)'
    BY <2>1, <2>2, <2>3 DEF HomeOK, OnChain
  <2> QED
    BY <1>1, <2>4 DEF HomeInv
<1>3. CASE open' # <<>>
  <2>1. ASSUME NEW t \in 1..Len(sets'), OnChain(current, t)', sets'[t].scope = "FUNCTION"
        PROVE  open'[1].kind = "function" /\ open'[1].inner = t
    <3>1. OnChain(current, t)
      BY <2>1
    <3>2. PICK c : c = current
      OBVIOUS
    <3>3. c \in 1..Len(sets) /\ OnChain(c, t)
      BY <3>1, <3>2 DEF IndInv, TypeOK
    <3>4. t \in 1..Len(sets)
      BY <3>3 DEF OnChain, IndInv, ChainsOK
    <3>5. sets[t].scope = "FUNCTION"
      BY <2>1, <3>4 DEF SetsGrow
    <3>6. open # <<>> /\ open[1].kind = "function" /\ open[1].inner = t
      BY <3>1, <3>4, <3>5 DEF HomeInv, HomeOK
    <3> QED
      BY <1>3, <3>6 DEF FirstStays
  <2>2. HomeOK(current)'
    BY <1>3, <2>1 DEF HomeOK
  <2> QED
    BY <1>1, <2>2 DEF HomeInv
<1> QED
  BY <1>2, <1>3

\* Going into a new set that is not a function's.
LEMMA EnterHome ==
  ASSUME IndInv, IndInv', NestInv, NestInv', HomeInv, TopIsGlobal', FirstStays,
         NEW p \in 1..Len(sets), \A t : OnChain(p, t) => OnChain(current, t),
         NEW scope \in {"BLOCK", "STRUCT_OR_UNION"}, Allocates(p, scope),
         current' = Len(sets) + 1
  PROVE  HomeInv'
<1>1. PICK n : n = Len(sets) + 1
  OBVIOUS
<1>2. /\ SetsGrow /\ \A s \in 1..Len(sets') : LinkOK(s)'
      /\ sets'[n].scope # "FUNCTION"
      /\ \A t : OnChain(n, t)' <=> (t = n \/ OnChain(p, t))
  BY <1>1, NewLinks DEF Scopes
<1>3. \A t : OnChain(current, t)' <=> OnChain(n, t)'
  BY <1>1 DEF OnChain
<1>4. \A t : OnChain(current, t)' => OnChain(current, t) \/ sets'[t].scope # "FUNCTION"
  BY <1>2, <1>3
<1> QED
  BY <1>2, <1>4, HomeStays

\* Staying in a set, or climbing.
LEMMA MoveHome ==
  ASSUME IndInv, IndInv', NestInv', HomeInv, TopIsGlobal', FirstStays, SetsGrow,
         \A s \in 1..Len(sets') : LinkOK(s)',
         current' = current \/ (HasParent(current) /\ current' = Parent(current))
  PROVE  HomeInv'
<1>1. PICK c, d : c = current /\ d = current'
  OBVIOUS
<1>2. c \in 1..Len(sets) /\ LinkOK(c)
  BY <1>1 DEF IndInv, TypeOK, HomeInv
<1>3. d \in 1..Len(sets) /\ \A t : OnChain(d, t) => OnChain(c, t)
  <2>1. CASE d = c
    BY <1>2, <2>1
  <2>2. CASE HasParent(c) /\ d = Parent(c)
    BY <1>2, <2>2, ParentOK DEF LinkOK, Continues
  <2> QED
    BY <1>1, <2>1, <2>2
<1>4. \A t : OnChain(d, t)' <=> OnChain(d, t)
  BY <1>3, ChainKept
<1>5. \A t : OnChain(current, t)' => OnChain(current, t)
  BY <1>1, <1>3, <1>4 DEF OnChain
<1> QED
  BY <1>5, HomeStays

LEMMA SameHome ==
  ASSUME IndInv, IndInv', NestInv', HomeInv, TopIsGlobal', UNCHANGED <<sets, current, open>>
  PROVE  HomeInv'
<1>1. FirstStays
  BY DEF FirstStays
<1> QED
  BY <1>1, SameLinks, MoveHome

LEMMA DeclaratorHome ==
  ASSUME IndInv, IndInv', NestInv', HomeInv, TopIsGlobal', NEW n \in Names,
         NextDeclarator(n) \/ \E type \in MemberTypes : DeclareMember(n, type)
  PROVE  HomeInv'
<1>1. open # <<>>
  BY NextDeclaratorOK, DeclareMemberOK
<1>2. PICK names \in Seq(Names), types \in SUBSET Nat : Declare(names, types)
  BY NextDeclaratorOK, DeclareMemberOK
<1>3. \A k \in 1..Len(open) : SameShape(k)
  BY <1>1, <1>2, DeclareShape
<1>4. 1 \in 1..Len(open)
  BY <1>1, OpenTop
<1>5. FirstStays
  BY <1>1, <1>3, <1>4 DEF FirstStays, SameShape
<1>6. UNCHANGED <<sets, current>>
  BY <1>2 DEF Declare
<1> QED
  BY <1>5, <1>6, SameLinks, MoveHome

-----------------------------------------------------------------------------
(* The constructs on it.                                                    *)
LEMMA PushFirst ==
  ASSUME IndInv, NEW c \in ConstructType, Begin(c),
         open # <<>> \/ c.kind \in {"struct", "declaration"}
  PROVE  FirstStays
<1>1. PICK n : n = Len(open) + 1
  OBVIOUS
<1>2. /\ n \in Nat /\ n - 1 = Len(open) /\ Len(open') = n
      /\ \A k \in 1..n - 1 : open'[k] = open[k]
      /\ open'[n] = c
  BY <1>1, BeginOK, OpenTop DEF Begin
<1>3. CASE open = <<>>
  BY <1>1, <1>2, <1>3 DEF FirstStays
<1>4. CASE open # <<>>
  <2>1. 1 \in 1..n - 1
    BY <1>2, <1>4, OpenTop
  <2> QED
    BY <1>2, <1>4, <2>1 DEF FirstStays
<1> QED
  BY <1>3, <1>4

LEMMA PopFirst ==
  ASSUME IndInv, IndInv', open # <<>>, NEW n, n = Len(open), Len(open') = n - 1,
         \A k \in 1..n - 1 : SameShape(k)
  PROVE  FirstStays
<1>1. n \in Nat /\ n >= 1 /\ open' \in Seq(ConstructType)
  BY OpenTop DEF IndInv, TypeOK
<1>2. CASE n = 1
  BY <1>1, <1>2 DEF FirstStays
<1>3. CASE n # 1
  <2>1. 1 \in 1..n - 1
    BY <1>1, <1>3
  <2> QED
    BY <2>1 DEF FirstStays, SameShape
<1> QED
  BY <1>2, <1>3

LEMMA NoFunctionOutside ==
  ASSUME HomeInv, open = <<>>, NEW t \in 1..Len(sets), OnChain(current, t)
  PROVE  sets[t].scope # "FUNCTION"
BY DEF HomeInv, HomeOK

LEMMA BeginFunctionHome ==
  ASSUME IndInv, IndInv', NestInv, NestInv', HomeInv, TopIsGlobal', NEW m \in Names,
         BeginFunction(m)
  PROVE  HomeInv'
<1>1. CASE UNCHANGED <<sets, current, open>>
  BY <1>1, SameHome
<1>2. CASE /\ Within = "top" /\ Enter(current, "FUNCTION")
           /\ Begin(Construct("function", current, current', NoSymbol, {}))
  <2>1. PICK c, p, n : /\ c = Construct("function", current, current', NoSymbol, {})
                       /\ p = current /\ n = current'
    OBVIOUS
  <2>2. /\ p \in 1..Len(sets) /\ p \in Nat \ {0} /\ n \in Nat \ {0} /\ n = Len(sets) + 1
        /\ Allocates(p, "FUNCTION")
    BY <1>2, <2>1 DEF IndInv, TypeOK, Enter, Allocates
  <2>3. /\ c \in ConstructType /\ c.kind = "function" /\ c.inner = n /\ Begin(c)
    BY <1>2, <2>1, <2>2 DEF Construct, ConstructType, Kinds, NoSymbol
  <2>4. open = <<>> /\ Len(open) = 0
    <3>1. ASSUME open # <<>> PROVE Within \in Kinds
      <4>1. PICK k : k = Len(open)
        OBVIOUS
      <4>2. open[k] \in ConstructType /\ Within = open[k].kind
        BY <3>1, <4>1, OpenTop
      <4> QED
        BY <4>2 DEF ConstructType
    <3> QED
      BY <1>2, <3>1 DEF Kinds
  <2>5. open' # <<>> /\ open'[1] = c
    <3>1. Len(open') = 1 /\ open'[1] = c
      BY <2>3, <2>4, BeginOK, OpenTop DEF Begin
    <3> QED
      BY <3>1
  <2>6. /\ SetsGrow /\ \A s \in 1..Len(sets') : LinkOK(s)'
        /\ \A t : OnChain(n, t)' <=> (t = n \/ OnChain(p, t))
    BY <2>2, NewLinks DEF Scopes
  <2>7. ASSUME NEW t \in 1..Len(sets'), OnChain(current, t)', sets'[t].scope = "FUNCTION"
        PROVE  t = n
    <3>1. OnChain(n, t)'
      BY <2>1, <2>7 DEF OnChain
    <3>2. CASE OnChain(p, t)
      <4>1. t \in 1..Len(sets)
        BY <2>2, <3>2 DEF OnChain, IndInv, ChainsOK
      <4>2. sets[t].scope = "FUNCTION"
        BY <2>6, <2>7, <4>1 DEF SetsGrow
      <4> QED
        BY <2>1, <2>4, <3>2, <4>1, <4>2, NoFunctionOutside
    <3> QED
      BY <2>6, <3>1, <3>2
  <2>8. HomeOK(current)'
    BY <2>3, <2>5, <2>7 DEF HomeOK
  <2> QED
    BY <2>3, <2>5, <2>6, <2>8 DEF HomeInv
<1> QED
  BY <1>1, <1>2 DEF BeginFunction, Fatal

LEMMA StatementFirst ==
  ASSUME IndInv, InStatements PROVE open # <<>>
BY DEF InStatements, Within

LEMMA BeginStatementHome ==
  ASSUME IndInv, IndInv', NestInv, NestInv', HomeInv, TopIsGlobal',
         NEW kind \in {"if", "while"}, BeginStatement(kind)
  PROVE  HomeInv'
<1>1. PICK c : c = Construct(kind, current, current', NoSymbol, {})
  OBVIOUS
<1>2. InStatements /\ Enter(current, "BLOCK") /\ Begin(c)
  BY <1>1 DEF BeginStatement
<1>3. current \in Nat \ {0} /\ current' \in Nat \ {0} /\ current \in 1..Len(sets)
  BY <1>2 DEF IndInv, TypeOK, Enter
<1>4. c \in ConstructType
  BY <1>1, <1>3 DEF Construct, ConstructType, Kinds, NoSymbol
<1>5. FirstStays
  BY <1>2, <1>4, StatementFirst, PushFirst
<1>6. Allocates(current, "BLOCK") /\ current' = Len(sets) + 1
  BY <1>2 DEF Enter, Allocates
<1> QED
  BY <1>3, <1>5, <1>6, EnterHome

LEMMA BeginPlainHome ==
  ASSUME IndInv, IndInv', NestInv', HomeInv, TopIsGlobal', BeginPlain PROVE HomeInv'
<1>1. PICK c : c = Construct("plain", current, current, NoSymbol, {})
  OBVIOUS
<1>2. InStatements /\ UNCHANGED <<sets, current>> /\ Begin(c)
  BY <1>1 DEF BeginPlain
<1>3. current \in Nat \ {0}
  BY DEF IndInv, TypeOK
<1>4. c \in ConstructType
  BY <1>1, <1>3 DEF Construct, ConstructType, Kinds, NoSymbol
<1>5. FirstStays
  BY <1>2, <1>4, StatementFirst, PushFirst
<1> QED
  BY <1>2, <1>5, SameLinks, MoveHome

LEMMA BeginDeclarationHome ==
  ASSUME IndInv, IndInv', NestInv', HomeInv, TopIsGlobal', NEW n \in Names,
         BeginDeclaration(n)
  PROVE  HomeInv'
<1>1. PICK c : c = Declaration(n)
  OBVIOUS
<1>2. c \in ConstructType /\ c.kind = "declaration"
  BY <1>1, DeclarationOK
<1>3. UNCHANGED <<sets, current>> /\ Begin(c)
  BY <1>1 DEF BeginDeclaration
<1>4. FirstStays
  BY <1>2, <1>3, PushFirst
<1> QED
  BY <1>3, <1>4, SameLinks, MoveHome

LEMMA ClosedHome ==
  ASSUME IndInv, IndInv', NestInv', HomeInv, TopIsGlobal', open # <<>>, End,
         UNCHANGED sets,
         current' = current \/ (HasParent(current) /\ current' = Parent(current))
  PROVE  HomeInv'
<1>1. PICK n : n = Len(open)
  OBVIOUS
<1>2. n \in Nat /\ n >= 1
  BY <1>1, OpenTop
<1>3. Len(open') = n - 1 /\ \A k \in 1..Len(open') : open'[k] = open[k]
  BY <1>1, <1>2, EndOK, OpenTop
<1>4. \A k \in 1..n - 1 : SameShape(k)
  BY <1>3 DEF SameShape
<1>5. FirstStays
  BY <1>1, <1>3, <1>4, PopFirst
<1> QED
  BY <1>5, SameLinks, MoveHome

LEMMA EndHome ==
  ASSUME IndInv, IndInv', NestInv', HomeInv, TopIsGlobal', EndScoped \/ EndUnscoped
  PROVE  HomeInv'
<1>1. CASE Fatal("no parent")
  BY <1>1, SameHome DEF Fatal
<1>2. CASE /\ End /\ UNCHANGED sets
           /\ current' = current \/ (HasParent(current) /\ current' = Parent(current))
  <2>1. open # <<>>
    BY DEF EndScoped, EndUnscoped, Within
  <2> QED
    BY <1>2, <2>1, ClosedHome
<1> QED
  BY <1>1, <1>2 DEF EndScoped, EndUnscoped

LEMMA EndDeclarationHome ==
  ASSUME IndInv, IndInv', NestInv', HomeInv, TopIsGlobal', EndDeclaration PROVE HomeInv'
<1>1. CASE Fatal("redeclared")
  BY <1>1, SameHome DEF Fatal
<1>2. CASE open # <<>> /\ End /\ UNCHANGED <<sets, current>>
  BY <1>2, ClosedHome
<1> QED
  BY <1>1, <1>2, DeclarationInstalls

LEMMA BeginElseHome ==
  ASSUME IndInv, IndInv', NestInv, NestInv', HomeInv, TopIsGlobal', BeginElse PROVE HomeInv'
<1>1. CASE UNCHANGED <<sets, current, open>>
  BY <1>1, SameHome
<1>2. CASE /\ HasParent(current)
           /\ Enter(Parent(current), "BLOCK")
           /\ open' = [open EXCEPT ![Len(open)] =
                         Construct("else", @.outer, current', NoSymbol, {})]
  <2>1. PICK c, p : c = current /\ p = Parent(current)
    OBVIOUS
  <2>2. /\ c \in 1..Len(sets) /\ p \in 1..Len(sets) /\ LinkOK(c)
    BY <1>2, <2>1, ParentOK DEF IndInv, TypeOK, HomeInv
  <2>3. Allocates(p, "BLOCK") /\ current' = Len(sets) + 1
    BY <1>2, <2>1 DEF Enter, Allocates
  <2>4. \A t : OnChain(p, t) => OnChain(current, t)
    BY <1>2, <2>1, <2>2, Zenon DEF LinkOK, Continues
  <2>5. PICK n : n = Len(open)
    OBVIOUS
  <2>6. /\ n \in Nat /\ n \in 1..n /\ open # <<>> /\ open[n].kind = "if"
        /\ \A k \in 1..n - 1 : SameShape(k)
    BY <1>2, <2>5, ElseOpens, OpenTop DEF BeginElse, ElseReplaces, SameConstruct
  <2>7. n # 1
    BY <2>6 DEF HomeInv
  <2>8. 1 \in 1..n - 1
    BY <2>6, <2>7
  <2>9. FirstStays
    BY <2>6, <2>8 DEF FirstStays, SameShape
  <2> QED
    BY <2>2, <2>3, <2>4, <2>9, EnterHome
<1> QED
  BY <1>1, <1>2 DEF BeginElse, Fatal

LEMMA TagReferenceHome ==
  ASSUME IndInv, IndInv', NestInv, NestInv', HomeInv, TopIsGlobal', NEW t \in Names,
         TagReference(t)
  PROVE  HomeInv'
<1>1. CASE UNCHANGED <<sets, current, open>>
  BY <1>1, SameHome
<1>2. CASE Allocates(current, "STRUCT_OR_UNION") /\ UNCHANGED <<current, open>>
  <2>1. current \in 1..Len(sets)
    BY DEF IndInv, TypeOK
  <2>2. SetsGrow /\ \A s \in 1..Len(sets') : LinkOK(s)'
    BY <1>2, <2>1, NewLinks DEF Scopes
  <2>3. FirstStays
    BY <1>2 DEF FirstStays
  <2> QED
    BY <1>2, <2>2, <2>3, MoveHome
<1> QED
  BY <1>1, <1>2 DEF TagReference, Allocates

\* A struct opens in a set below one on the chain.
LEMMA BeginTaggedHome ==
  ASSUME IndInv, IndInv', NestInv, NestInv', HomeInv, TopIsGlobal', NEW t \in Names,
         BeginTagged(t)
  PROVE  HomeInv'
<1> DEFINE symbol == Lookup(current, "TAG", t)
           tset == symbols[symbol].tset
           known == Construct("struct", current, tset, symbol, {})
           new == Construct("struct", current, current', Len(symbols) + 1, {"fresh"})
<1>1. current \in 1..Len(sets) /\ current \in Nat \ {0} /\ Len(symbols) \in Nat /\ Len(sets) \in Nat
  BY DEF IndInv, TypeOK
<1>2. CASE /\ symbol # NoSymbol
           /\ current' = tset
           /\ Begin(known)
           /\ UNCHANGED <<sets, symbols>>
  <2>1. PICK i, s, c : i = symbol /\ s = tset /\ c = current
    OBVIOUS
  <2>2. c \in 1..Len(sets) /\ i = Lookup(c, "TAG", t) /\ i # NoSymbol
    BY <1>1, <1>2, <2>1
  <2>3. PICK k \in Hits(c, "TAG", t) : i \in Table(sets[c].chain[k], "TAG", t)
    BY <2>2, LookupMisses, LookupHits
  <2>4. PICK o : o = sets[c].chain[k]
    OBVIOUS
  <2>5. /\ k \in DOMAIN sets[c].chain /\ i \in 1..Len(symbols)
        /\ symbols[i].ns = "TAG" /\ symbols[i].owner = o
    <3>1. k \in DOMAIN sets[c].chain
      BY DEF Hits, Visited
    <3>2. i \in DOMAIN symbols /\ symbols[i].ns = "TAG" /\ symbols[i].owner = o
      BY <2>3, <2>4 DEF Table
    <3>3. DOMAIN symbols = 1..Len(symbols)
      BY DEF IndInv, TypeOK
    <3> QED
      BY <3>1, <3>2, <3>3
  <2>6. s \in 1..Len(sets) /\ IsStruct(s) /\ Parent(s) = o
    BY <2>1, <2>5 DEF NestInv, TagSetsOK, TagSetOK, IndInv, OwnersOK
  <2>7. ASSUME NEW u, OnChain(s, u) PROVE u = s \/ OnChain(o, u)
    BY <2>6, <2>7, Zenon DEF HomeInv, LinkOK, Continues
  <2>8. ASSUME NEW u, OnChain(s, u), u \in 1..Len(sets), sets[u].scope = "FUNCTION"
        PROVE  OnChain(c, u)
    <3>1. OnChain(o, u)
      BY <2>6, <2>7, <2>8 DEF IsStruct
    <3> QED
      BY <2>2, <2>4, <2>5, <3>1 DEF OnChain, HomeInv, LinkOK, Closed
  <2>9. ASSUME NEW u, OnChain(current, u)'
        PROVE  OnChain(current, u) \/ sets'[u].scope # "FUNCTION"
    <3>1. OnChain(s, u)
      BY <1>2, <2>1, <2>9 DEF OnChain
    <3>2. u \in 1..Len(sets)
      BY <2>6, <3>1 DEF OnChain, IndInv, ChainsOK
    <3> QED
      BY <1>2, <2>1, <2>8, <3>1, <3>2
  <2>10. PICK b : b \in ConstructType /\ b.kind = "struct" /\ Begin(b)
    <3>1. s \in Nat \ {0} /\ i \in Nat
      BY <1>1, <2>5, <2>6
    <3>2. known = Construct("struct", current, s, i, {})
      BY <2>1
    <3>3. Begin(known)
      BY <1>2
    <3> HIDE DEF known
    <3>4. known \in ConstructType /\ known.kind = "struct"
      BY <1>1, <3>1, <3>2 DEF Construct, ConstructType, Kinds
    <3> QED
      BY <3>3, <3>4
  <2>11. FirstStays
    BY <2>10, PushFirst
  <2>12. SetsGrow /\ \A u \in 1..Len(sets') : LinkOK(u)'
    BY <1>2, SameLinks
  <2> QED
    BY <2>9, <2>11, <2>12, HomeStays
<1>3. CASE Enter(current, "STRUCT_OR_UNION") /\ Begin(new)
  <2>1. PICK c : c = new
    OBVIOUS
  <2>2. current' \in Nat \ {0}
    BY <1>1, <1>3 DEF Enter
  <2>3. c \in ConstructType /\ c.kind = "struct" /\ Begin(c)
    BY <1>1, <1>3, <2>1, <2>2 DEF Construct, ConstructType, Kinds
  <2>4. FirstStays
    BY <2>3, PushFirst
  <2>5. Allocates(current, "STRUCT_OR_UNION") /\ current' = Len(sets) + 1
    BY <1>3 DEF Enter, Allocates
  <2> QED
    BY <1>1, <2>4, <2>5, EnterHome
<1> QED
  BY <1>2, <1>3 DEF BeginTagged

LEMMA BeginAnonymousHome ==
  ASSUME IndInv, IndInv', NestInv, NestInv', HomeInv, TopIsGlobal', BeginAnonymous
  PROVE  HomeInv'
<1>1. PICK c : c = Construct("struct", current, current', NoSymbol, {"fresh"})
  OBVIOUS
<1>2. Enter(current, "STRUCT_OR_UNION") /\ Begin(c)
  BY <1>1 DEF BeginAnonymous
<1>3. current \in Nat \ {0} /\ current' \in Nat \ {0} /\ current \in 1..Len(sets)
  BY <1>2 DEF IndInv, TypeOK, Enter
<1>4. c \in ConstructType /\ c.kind = "struct"
  BY <1>1, <1>3 DEF Construct, ConstructType, Kinds, NoSymbol
<1>5. FirstStays
  BY <1>2, <1>4, PushFirst
<1>6. Allocates(current, "STRUCT_OR_UNION") /\ current' = Len(sets) + 1
  BY <1>2 DEF Enter, Allocates
<1> QED
  BY <1>3, <1>5, <1>6, EnterHome

LEMMA EndStructHome ==
  ASSUME IndInv, IndInv', NestInv, NestInv', HomeInv, TopIsGlobal', EndStruct
  PROVE  HomeInv'
<1>1. CASE UNCHANGED <<sets, current, open>>
  BY <1>1, SameHome
<1>2. ASSUME NEW p, NEW s, NEW tag, NEW done, NEW names, NEW more,
             StructEnds(p, s, tag, done, names, more)
      PROVE  HomeInv'
  <2>1. Within = "struct" /\ open # <<>>
    BY EndStructEffect
  <2>2. PICK n : n = Len(open)
    OBVIOUS
  <2>3. n \in Nat /\ n >= 1 /\ n \in 1..n /\ open[n].kind = "struct"
    BY <2>1, <2>2, OpenTop
  <2>4. Len(open') = n - 1 /\ \A k \in 1..n - 1 : SameShape(k)
    BY <1>2, <2>1, <2>2, EndInnerKeeps DEF StructEnds, SameConstruct
  <2>5. /\ p = Parent(current) /\ current' = p /\ Allocates(p, "STRUCT_OR_UNION")
    BY <1>2 DEF StructEnds
  <2>6. HasParent(current) /\ p \in 1..Len(sets)
    <3>1. current \in 1..Len(sets) /\ IsStruct(current)
      BY <2>1, <2>2, <2>3 DEF NestInv, CurrentOK, StructsOK, StructOK
    <3> QED
      BY <2>5, <3>1, StructParent DEF NestInv
  <2>7. SetsGrow /\ \A t \in 1..Len(sets') : LinkOK(t)'
    BY <2>5, <2>6, NewLinks DEF Scopes
  <2>8. FirstStays
    BY <2>1, <2>2, <2>4, PopFirst
  <2> QED
    BY <2>5, <2>6, <2>7, <2>8, MoveHome
<1> QED
  BY <1>1, <1>2, EndStructEffect

LEMMA NextHome ==
  ASSUME IndInv, IndInv', NestInv, NestInv', HomeInv, TopIsGlobal', [Next]_vars
  PROVE  HomeInv'
<1>1. ASSUME NEW n \in Names, BeginFunction(n) PROVE HomeInv'
  BY <1>1, BeginFunctionHome
<1>2. ASSUME NEW n \in Names, TagReference(n) PROVE HomeInv'
  BY <1>2, TagReferenceHome
<1>3. ASSUME NEW n \in Names, BeginTagged(n) PROVE HomeInv'
  BY <1>3, BeginTaggedHome
<1>4. CASE EndStruct
  BY <1>4, EndStructHome
<1>5. ASSUME NEW kind \in {"if", "while"}, BeginStatement(kind) PROVE HomeInv'
  BY <1>5, BeginStatementHome
<1>6. CASE BeginPlain
  BY <1>6, BeginPlainHome
<1>7. CASE EndScoped \/ EndUnscoped
  BY <1>7, EndHome
<1>8. CASE BeginElse
  BY <1>8, BeginElseHome
<1>9. CASE BeginAnonymous
  BY <1>9, BeginAnonymousHome
<1>10. CASE \/ GotoNodeLost \/ EndStructCrash \/ UNCHANGED vars
            \/ \E n \in Names : \/ GotoStatement(n)
                                \/ \E empty \in BOOLEAN : LabelStatement(n, empty)
                                \/ UseIdentifier(n)
  <2>1. UNCHANGED <<sets, current, open>>
    BY <1>10 DEF GotoNodeLost, EndStructCrash, GotoStatement, LabelStatement,
                 UseIdentifier, Fatal, vars
  <2> QED
    BY <2>1, SameHome
<1>11. ASSUME NEW n \in Names, BeginDeclaration(n) PROVE HomeInv'
  BY <1>11, BeginDeclarationHome
<1>12. ASSUME NEW n \in Names,
              NextDeclarator(n) \/ \E type \in MemberTypes : DeclareMember(n, type)
       PROVE  HomeInv'
  BY <1>12, DeclaratorHome
<1>13. CASE EndDeclaration
  BY <1>13, EndDeclarationHome
<1> QED
  BY <1>1, <1>2, <1>3, <1>4, <1>5, <1>6, <1>7, <1>8, <1>9, <1>10, <1>11, <1>12, <1>13,
     Zenon DEF Next

LEMMA InitHome == ASSUME Init, IndInv, NestInv PROVE HomeInv
<1>1. PICK g, one : g = [scope |-> "GLOBAL", chain |-> one] /\ one = <<Global>>
  OBVIOUS
<1>2. /\ sets = <<g>> /\ g.chain = one /\ g.scope = "GLOBAL" /\ current = Global /\ open = <<>>
  BY <1>1 DEF Init
<1>3. Len(one) = 1 /\ one[1] = 1 /\ DOMAIN one = 1..1
  BY <1>1 DEF Global
<1>4. Len(sets) = 1 /\ sets[1].chain = one /\ sets[1].scope = "GLOBAL"
  BY <1>2
<1>5. ~HasParent(1)
  BY <1>3, <1>4 DEF HasParent
<1>6. \A t : OnChain(1, t) <=> t = 1
  BY <1>3, <1>4 DEF OnChain
<1>7. LinkOK(1)
  BY <1>5, <1>6, Zenon DEF LinkOK, Continues, Closed
<1>8. HomeOK(1)
  BY <1>4, <1>6 DEF HomeOK
<1> QED
  BY <1>2, <1>4, <1>7, <1>8 DEF HomeInv, Global

LEMMA Homing == ASSUME "while" \notin Constructs PROVE Spec => []HomeInv
<1>1. Init /\ IndInv /\ NestInv => HomeInv
  BY InitHome
<1>2. IndInv /\ IndInv' /\ NestInv /\ NestInv' /\ HomeInv /\ TopIsGlobal' /\ [Next]_vars => HomeInv'
  BY NextHome
<1>3. Spec => []TopIsGlobal
  BY AtTop
<1> QED
  BY <1>1, <1>2, <1>3, Invariance, Nesting, PTL DEF Spec

-----------------------------------------------------------------------------
(* What labels belong to.                                                   *)
LEMMA FunctionSet ==
  ASSUME HomeInv, NEW s \in 1..Len(sets), OnChain(current, s), sets[s].scope = "FUNCTION"
  PROVE  s = Function
BY DEF HomeInv, HomeOK, Function

\* A label that is found is one of the function being read ...
LEMMA FoundInFunction ==
  ASSUME IndInv, HomeInv, NEW n, NEW i,
         i = Lookup(current, "LABEL", n), i # NoSymbol
  PROVE  /\ i \in 1..Len(symbols) /\ symbols[i].owner = Function
         /\ symbols[i].ns = "LABEL" /\ symbols[i].name = n
<1>1. current \in 1..Len(sets) /\ DOMAIN symbols = 1..Len(symbols)
  BY DEF IndInv, TypeOK
<1>2. PICK k \in Hits(current, "LABEL", n) : i \in Table(sets[current].chain[k], "LABEL", n)
  BY <1>1, LookupMisses, LookupHits
<1>3. /\ i \in 1..Len(symbols) /\ symbols[i].owner = sets[current].chain[k]
      /\ symbols[i].ns = "LABEL" /\ symbols[i].name = n
  BY <1>1, <1>2 DEF Table
<1>4. OnChain(current, symbols[i].owner)
  BY <1>3 DEF OnChain, Hits, Visited
<1>5. symbols[i].owner \in 1..Len(sets) /\ sets[symbols[i].owner].scope = "FUNCTION"
  BY <1>1, <1>3 DEF IndInv, OwnersOK, LabelsInFunctionScope
<1> QED
  BY <1>3, <1>4, <1>5, FunctionSet

\* ... and so is a new one.
LEMMA NewInFunction ==
  ASSUME IndInv, HomeInv, LabelOwner(current) # 0
  PROVE  LabelOwner(current) = Function
<1>1. current \in 1..Len(sets)
  BY DEF IndInv, TypeOK
<1>2. PICK s : s = LabelOwner(current)
  OBVIOUS
<1>3. s \in 1..Len(sets) /\ sets[s].scope = "FUNCTION" /\ OnChain(current, s)
  BY <1>1, <1>2, LabelOwnerOK, LabelOwnerOnChain DEF OnChain
<1> QED
  BY <1>2, <1>3, FunctionSet

LEMMA LabelInstalled ==
  ASSUME IndInv, HomeInv, NEW n \in Names,
         NEW pointing \in BOOLEAN, LabelOwner(current) # 0, Install(Label(n, pointing))
  PROVE  /\ Len(symbols) \in Nat /\ Len(symbols') = Len(symbols) + 1 /\ SymbolsExtend
         /\ symbols'[Len(symbols) + 1].owner = Function
         /\ symbols'[Len(symbols) + 1].ns = "LABEL"
         /\ symbols'[Len(symbols) + 1].name = n
         /\ symbols'[Len(symbols) + 1].defined = pointing
<1>1. Label(n, pointing) \in SymbolType
  BY LabelOK
<1>2. PICK x : x = Label(n, pointing)
  OBVIOUS
<1>3. /\ x.owner = Function /\ x.ns = "LABEL" /\ x.name = n /\ x.defined = pointing
  BY <1>2, NewInFunction DEF Label, Symbol
<1>4. x \in SymbolType /\ Install(x)
  BY <1>1, <1>2
<1>5. /\ SymbolsExtend /\ Len(symbols) \in Nat /\ Len(symbols') = Len(symbols) + 1
      /\ symbols'[Len(symbols) + 1] = x
  BY <1>4, InstallExtends
<1> QED
  BY <1>3, <1>5

LEMMA LabelBelongs ==
  ASSUME IndInv, IndInv', HomeInv, NEW n \in Names,
         GotoStatement(n) \/ \E empty \in BOOLEAN : LabelStatement(n, empty),
         outcome' = "parsing"
  PROVE  \E i \in DOMAIN symbols' :
           /\ symbols'[i].owner = Function
           /\ symbols'[i].ns = "LABEL"
           /\ symbols'[i].name = n
           /\ bound' # bound => bound' = i
<1>1. InStatements /\ DOMAIN symbols' = 1..Len(symbols')
  <2>1. InStatements
    BY Zenon DEF GotoStatement, LabelStatement
  <2>2. DOMAIN symbols' = 1..Len(symbols')
    BY DEF IndInv, TypeOK
  <2> QED
    BY <2>1, <2>2
<1>2. PICK i : i = Lookup(current, "LABEL", n)
  OBVIOUS
<1>3. CASE i # NoSymbol /\ bound' = i /\ UNCHANGED symbols
  <2>1. /\ i \in 1..Len(symbols) /\ symbols[i].owner = Function
        /\ symbols[i].ns = "LABEL" /\ symbols[i].name = n
    BY <1>1, <1>2, <1>3, FoundInFunction
  <2> QED
    BY <1>1, <1>3, <2>1
<1>4. ASSUME NEW pointing \in BOOLEAN, LabelOwner(current) # 0, Install(Label(n, pointing)),
             UNCHANGED bound
      PROVE  \E j \in DOMAIN symbols' :
               /\ symbols'[j].owner = Function
               /\ symbols'[j].ns = "LABEL"
               /\ symbols'[j].name = n
               /\ bound' # bound => bound' = j
  <2>1. PICK m : m = Len(symbols) + 1
    OBVIOUS
  <2>2. /\ m \in DOMAIN symbols' /\ symbols'[m].owner = Function
        /\ symbols'[m].ns = "LABEL" /\ symbols'[m].name = n
    <3>1. /\ Len(symbols) \in Nat /\ Len(symbols') = m /\ symbols'[m].owner = Function
          /\ symbols'[m].ns = "LABEL" /\ symbols'[m].name = n
      BY <1>1, <1>4, <2>1, LabelInstalled
    <3> QED
      BY <1>1, <2>1, <3>1
  <2> QED
    BY <1>4, <2>2
<1>5. \/ i # NoSymbol /\ bound' = i /\ UNCHANGED symbols
      \/ \E pointing \in BOOLEAN : /\ LabelOwner(current) # 0
                                   /\ Install(Label(n, pointing)) /\ UNCHANGED bound
  <2>1. TRUE \in BOOLEAN /\ FALSE \in BOOLEAN
    OBVIOUS
  <2>2. CASE GotoStatement(n)
    BY <1>2, <2>1, <2>2 DEF GotoStatement, Fatal
  <2>3. ASSUME NEW empty \in BOOLEAN, LabelStatement(n, empty)
        PROVE  \/ i # NoSymbol /\ bound' = i /\ UNCHANGED symbols
               \/ \E pointing \in BOOLEAN : /\ LabelOwner(current) # 0
                                            /\ Install(Label(n, pointing)) /\ UNCHANGED bound
    <3>1. \/ i # NoSymbol /\ bound' = i /\ UNCHANGED symbols
          \/ LabelOwner(current) # 0 /\ Install(Label(n, ~empty)) /\ UNCHANGED bound
      BY <1>2, <2>3 DEF LabelStatement, Fatal
    <3>2. PICK pointing \in BOOLEAN : pointing = ~empty
      BY Zenon
    <3>3. \/ i # NoSymbol /\ bound' = i /\ UNCHANGED symbols
          \/ LabelOwner(current) # 0 /\ Install(Label(n, pointing)) /\ UNCHANGED bound
      BY <3>1, <3>2, Zenon
    <3> QED
      BY <3>3
  <2> QED
    BY <2>2, <2>3
<1> QED
  BY <1>3, <1>4, <1>5

(* After a goto or a labelled statement the label is one of the function being
   read: no goto reaches into another function (scope_helpers.c:128-150), in
   every program without while statements, early tags or not.  Labels live in
   function scope sets, and the only such set the current one's parent links
   lead to is that of the function being read, wherever a body left the parser. *)
THEOREM LabelsBelongToTheFunction ==
  ASSUME "while" \notin Constructs PROVE Spec => LabelOfThisFunction
<1>1. IndInv /\ HomeInv /\ [Next]_vars =>
        [\A n \in Names :
           /\ GotoStatement(n) \/ \E empty \in BOOLEAN : LabelStatement(n, empty)
           /\ outcome' = "parsing"
           =>
             \E i \in DOMAIN symbols' :
               /\ symbols'[i].owner = Function
               /\ symbols'[i].ns = "LABEL"
               /\ symbols'[i].name = n
               /\ bound' # bound => bound' = i]_vars
  BY NextIndInv, LabelBelongs
<1> QED
  BY <1>1, Homing, Invariance, PTL DEF Spec, LabelOfThisFunction

\* A label that is in place has been counted for the function it is in.
LabelPlaced(i) ==
  symbols[i].ns = "LABEL" /\ symbols[i].defined => placed[symbols[i].owner][symbols[i].name] > 0

LabelsPlaced == Len(sets) <= MaxSets /\ \A i \in 1..Len(symbols) : LabelPlaced(i)

\* Every new set is within the bound.
Bounded(p) == Len(sets) < MaxSets /\ \E scope : Allocates(p, scope)

LEMMA BoundKept ==
  ASSUME IndInv, LabelsPlaced, UNCHANGED sets \/ \E p : Bounded(p)
  PROVE  Len(sets') <= MaxSets
<1>1. Len(sets) \in Nat /\ sets \in Seq(SetType) /\ MaxSets \in Nat /\ Len(sets) <= MaxSets
  BY BoundsAssumption DEF IndInv, TypeOK, LabelsPlaced
<1>2. ASSUME NEW x, sets' = Append(sets, x), Len(sets) < MaxSets PROVE Len(sets') <= MaxSets
  <2>1. Len(sets') = Len(sets) + 1
    BY <1>1, <1>2
  <2> QED
    BY <1>1, <1>2, <2>1
<1> QED
  BY <1>1, <1>2 DEF Bounded, Allocates

LEMMA UncountedLabels ==
  ASSUME IndInv, LabelsPlaced, UNCHANGED sets \/ \E p : Bounded(p), UNCHANGED placed,
         \A i \in 1..Len(symbols') :
           symbols'[i].ns = "LABEL" /\ symbols'[i].defined =>
             i \in 1..Len(symbols) /\ symbols'[i] = symbols[i]
  PROVE  LabelsPlaced'
<1>1. Len(sets') <= MaxSets
  BY BoundKept
<1>2. ASSUME NEW i \in 1..Len(symbols') PROVE LabelPlaced(i)'
  BY DEF LabelsPlaced, LabelPlaced
<1> QED
  BY <1>1, <1>2 DEF LabelsPlaced

LEMMA SameLabels ==
  ASSUME IndInv, LabelsPlaced, UNCHANGED sets \/ \E p : Bounded(p), UNCHANGED <<symbols, placed>>
  PROVE  LabelsPlaced'
<1>1. \A i \in 1..Len(symbols') : i \in 1..Len(symbols) /\ symbols'[i] = symbols[i]
  OBVIOUS
<1> QED
  BY <1>1, UncountedLabels

LEMMA InstallLabels ==
  ASSUME IndInv, LabelsPlaced, UNCHANGED sets \/ \E p : Bounded(p), UNCHANGED placed,
         NEW x \in SymbolType, Install(x), ~(x.ns = "LABEL" /\ x.defined)
  PROVE  LabelsPlaced'
<1>1. /\ SymbolsExtend /\ Len(symbols) \in Nat /\ Len(symbols') = Len(symbols) + 1
      /\ symbols'[Len(symbols) + 1] = x
  BY InstallExtends
<1>2. ASSUME NEW i \in 1..Len(symbols'), symbols'[i].ns = "LABEL" /\ symbols'[i].defined
      PROVE  i \in 1..Len(symbols) /\ symbols'[i] = symbols[i]
  <2>1. i # Len(symbols) + 1
    BY <1>1, <1>2
  <2>2. i \in 1..Len(symbols)
    BY <1>1, <2>1
  <2> QED
    BY <1>1, <2>2 DEF SymbolsExtend
<1> QED
  BY <1>2, UncountedLabels

LEMMA DefinitionLabels ==
  ASSUME IndInv, LabelsPlaced, open # <<>>,
         NEW p, NEW s, NEW tag, NEW done, NEW names, NEW more,
         StructEnds(p, s, tag, done, names, more)
  PROVE  LabelsPlaced'
<1>0. Grown(done, more, names, s)
  BY StructEndsGrown
<1> USE DEF StructEnds
<1>1. /\ Len(symbols) \in Nat /\ Len(symbols') \in Nat
      /\ \A i \in 1..Len(symbols) : symbols'[i] = done[i]
      /\ \A i \in (Len(symbols) + 1)..Len(symbols') : symbols'[i].ns = "GENERAL"
  <2>1. Len(symbols) \in Nat /\ Len(done) = Len(symbols)
    BY DEF IndInv, TypeOK
  <2>2. Len(symbols') \in Nat
    BY <1>0 DEF Grown
  <2> QED
    BY ONLY <1>0, <2>1, <2>2 DEF Grown
<1>2. ASSUME NEW i \in 1..Len(symbols'), symbols'[i].ns = "LABEL" /\ symbols'[i].defined
      PROVE  i \in 1..Len(symbols) /\ symbols'[i] = symbols[i]
  <2>1. i \notin (Len(symbols) + 1)..Len(symbols')
    BY <1>1, <1>2
  <2>2. i \in 1..Len(symbols) /\ i # NoSymbol
    BY <1>1, <2>1 DEF NoSymbol
  <2>3. i # tag
    <3>1. tag # NoSymbol => symbols[tag].ns = "TAG"
      BY OpenTop DEF IndInv, TagsOK
    <3> QED
      BY <1>1, <1>2, <2>2, <3>1
  <2> QED
    BY <1>1, <2>2, <2>3
<1>3. Bounded(p)
  BY DEF Bounded
<1> QED
  BY <1>2, <1>3, UncountedLabels

\* Placing a label is counted, and no count drops to zero.
LEMMA PlaceCounts ==
  ASSUME IndInv, NEW n \in Names, NEW f \in 1..MaxSets,
         placed' = [placed EXCEPT ![f][n] = IF @ = 2 THEN 2 ELSE @ + 1]
  PROVE  /\ placed'[f][n] > 0
         /\ \A g \in 1..MaxSets, m \in Names : placed[g][m] > 0 => placed'[g][m] > 0
<1> DEFINE count(g) == [g EXCEPT ![n] = IF @ = 2 THEN 2 ELSE @ + 1]
<1>1. placed \in [1..MaxSets -> [Names -> 0..2]]
  BY DEF IndInv, TypeOK
<1>2. \A g \in [Names -> 0..2] :
        /\ count(g)[n] > 0
        /\ \A m \in Names : g[m] > 0 => count(g)[m] > 0
  OBVIOUS
<1>3. placed' = [placed EXCEPT ![f] = count(placed[f])]
  OBVIOUS
<1> HIDE DEF count
<1>4. placed'[f] = count(placed[f]) /\ \A g \in 1..MaxSets : g # f => placed'[g] = placed[g]
  BY <1>1, <1>3
<1>5. placed[f] \in [Names -> 0..2]
  BY <1>1
<1>6. placed'[f][n] > 0 /\ \A m \in Names : placed[f][m] > 0 => placed'[f][m] > 0
  BY <1>2, <1>4, <1>5
<1> QED
  BY <1>4, <1>6

LEMMA LabelStatementLabels ==
  ASSUME IndInv, IndInv', HomeInv, LabelsPlaced, NEW n \in Names, NEW empty \in BOOLEAN,
         LabelStatement(n, empty)
  PROVE  LabelsPlaced'
<1>1. CASE UNCHANGED <<sets, symbols, placed>>
  BY <1>1, SameLabels
<1>2. InStatements
  BY Zenon DEF LabelStatement
<1>3. PICK f : f = Function
  OBVIOUS
<1>4. /\ Len(sets) \in Nat /\ Len(sets) <= MaxSets /\ MaxSets \in Nat
      /\ \A i \in 1..Len(symbols) : symbols[i].owner \in 1..MaxSets /\ symbols[i].name \in Names
  <2>1. Len(sets) \in Nat /\ Len(sets) <= MaxSets /\ MaxSets \in Nat /\ symbols \in Seq(SymbolType)
    BY BoundsAssumption DEF IndInv, TypeOK, LabelsPlaced
  <2>2. ASSUME NEW i \in 1..Len(symbols)
        PROVE  symbols[i].owner \in 1..MaxSets /\ symbols[i].name \in Names
    <3>1. symbols[i] \in SymbolType /\ symbols[i].owner \in 1..Len(sets)
      BY <2>1 DEF IndInv, OwnersOK
    <3> QED
      BY <2>1, <3>1 DEF SymbolType
  <2> QED
    BY <2>1, <2>2
<1>5. ASSUME f \in 1..MaxSets, UNCHANGED sets,
             placed' = [placed EXCEPT ![f][n] = IF @ = 2 THEN 2 ELSE @ + 1],
             \A i \in 1..Len(symbols') :
               \/ i \in 1..Len(symbols) /\ symbols'[i] = symbols[i]
               \/ symbols'[i].owner = f /\ symbols'[i].name = n
      PROVE  LabelsPlaced'
  <2>1. /\ placed'[f][n] > 0
        /\ \A g \in 1..MaxSets, m \in Names : placed[g][m] > 0 => placed'[g][m] > 0
    BY <1>5, PlaceCounts
  <2>2. ASSUME NEW i \in 1..Len(symbols') PROVE LabelPlaced(i)'
    <3>1. CASE i \in 1..Len(symbols) /\ symbols'[i] = symbols[i]
      BY <1>4, <2>1, <3>1 DEF LabelsPlaced, LabelPlaced
    <3>2. CASE symbols'[i].owner = f /\ symbols'[i].name = n
      BY <2>1, <3>2 DEF LabelPlaced
    <3> QED
      BY <1>5, <3>1, <3>2
  <2> QED
    BY <1>4, <1>5, <2>2 DEF LabelsPlaced
<1>6. CASE /\ Lookup(current, "LABEL", n) # NoSymbol
           /\ placed' = [placed EXCEPT ![Function][n] = IF @ = 2 THEN 2 ELSE @ + 1]
           /\ UNCHANGED <<sets, symbols>>
  <2>1. f \in 1..MaxSets
    <3>1. PICK i : i = Lookup(current, "LABEL", n)
      OBVIOUS
    <3>2. i \in 1..Len(symbols) /\ symbols[i].owner = f
      BY <1>2, <1>3, <1>6, <3>1, FoundInFunction
    <3> QED
      BY <1>4, <3>2
  <2> QED
    BY <1>3, <1>5, <1>6, <2>1
<1>7. CASE /\ LabelOwner(current) # 0
           /\ Install(Label(n, ~empty))
           /\ placed' = [placed EXCEPT ![Function][n] = IF @ = 2 THEN 2 ELSE @ + 1]
           /\ UNCHANGED sets
  <2>1. f \in 1..MaxSets
    <3>1. current \in 1..Len(sets)
      BY DEF IndInv, TypeOK
    <3>2. f \in 1..Len(sets)
      BY <1>2, <1>3, <1>7, <3>1, NewInFunction, LabelOwnerOK
    <3> QED
      BY <1>4, <3>2
  <2>2. PICK m : m = Len(symbols) + 1
    OBVIOUS
  <2>3. /\ m - 1 = Len(symbols) /\ Len(symbols) \in Nat /\ Len(symbols') = m /\ SymbolsExtend
        /\ symbols'[m].owner = f /\ symbols'[m].name = n
    <3>1. /\ Len(symbols) \in Nat /\ Len(symbols') = Len(symbols) + 1 /\ SymbolsExtend
          /\ symbols'[Len(symbols) + 1].owner = Function
          /\ symbols'[Len(symbols) + 1].name = n
      <4>1. PICK pointing \in BOOLEAN : pointing = ~empty
        BY Zenon
      <4>2. Install(Label(n, pointing))
        BY <1>7, <4>1, Zenon
      <4> QED
        BY <1>2, <1>7, <4>2, LabelInstalled
    <3> QED
      BY <1>3, <2>2, <3>1
  <2>4. ASSUME NEW i \in 1..Len(symbols')
        PROVE  \/ i \in 1..Len(symbols) /\ symbols'[i] = symbols[i]
               \/ symbols'[i].owner = f /\ symbols'[i].name = n
    <3>1. i = m \/ i \in 1..Len(symbols)
      BY <2>3
    <3> QED
      BY <2>3, <3>1 DEF SymbolsExtend
  <2> QED
    BY <1>3, <1>5, <1>7, <2>1, <2>4
<1> QED
  BY <1>1, <1>6, <1>7 DEF LabelStatement, Fatal

LEMMA GotoStatementLabels ==
  ASSUME IndInv, LabelsPlaced, NEW n \in Names, GotoStatement(n) PROVE LabelsPlaced'
<1>1. CASE UNCHANGED <<sets, symbols, placed>>
  BY <1>1, SameLabels
<1>2. CASE LabelOwner(current) # 0 /\ Install(Label(n, FALSE)) /\ UNCHANGED <<sets, placed>>
  <2>1. PICK x : x = Label(n, FALSE)
    OBVIOUS
  <2>2. x \in SymbolType /\ x.defined = FALSE /\ Install(x)
    BY <1>2, <2>1, LabelOK DEF Label, Symbol
  <2> QED
    BY <1>2, <2>2, InstallLabels
<1> QED
  BY <1>1, <1>2 DEF GotoStatement, Fatal

LEMMA VariableLabels ==
  ASSUME IndInv, LabelsPlaced, UNCHANGED sets \/ \E p : Bounded(p), UNCHANGED placed,
         NEW n \in Names, Install(Variable(n, current))
  PROVE  LabelsPlaced'
<1>1. PICK x : x = Variable(n, current)
  OBVIOUS
<1>2. current \in Nat \ {0}
  BY DEF IndInv, TypeOK
<1>3. x \in SymbolType /\ x.ns = "GENERAL" /\ Install(x)
  BY <1>1, <1>2, VariableOK
<1> QED
  BY <1>3, InstallLabels

LEMMA BeginLabels ==
  ASSUME IndInv, LabelsPlaced, NEW n \in Names,
         BeginFunction(n) \/ BeginTagged(n)
  PROVE  LabelsPlaced'
<1>1. CASE UNCHANGED <<sets, symbols, placed>>
  BY <1>1, SameLabels
<1>2. ASSUME NEW scope, Enter(current, scope) PROVE \E p : Bounded(p)
  BY <1>2 DEF Enter, Bounded, Allocates
<1>4. CASE BeginFunction(n)
  BY <1>1, <1>2, <1>4, VariableLabels DEF BeginFunction, Fatal
<1>5. CASE BeginTagged(n)
  <2>1. CASE Enter(current, "STRUCT_OR_UNION") /\ Install(Tag(n, current')) /\ UNCHANGED placed
    <3>1. PICK x : x = Tag(n, current')
      OBVIOUS
    <3>2. current' \in Nat
      BY <2>1 DEF Enter, IndInv, TypeOK
    <3>3. x \in SymbolType /\ x.ns = "TAG" /\ Install(x)
      BY <2>1, <3>1, <3>2, TagOK
    <3> QED
      BY <1>2, <2>1, <3>3, InstallLabels
  <2> QED
    BY <1>1, <1>5, <2>1 DEF BeginTagged
<1> QED
  BY <1>4, <1>5

LEMMA EndDeclarationLabels ==
  ASSUME IndInv, LabelsPlaced, EndDeclaration PROVE LabelsPlaced'
<1>1. CASE Fatal("redeclared")
  BY <1>1, SameLabels DEF Fatal
<1>2. CASE /\ SymbolsExtend /\ \A i \in Len(symbols) + 1..Len(symbols') : Installed(i)
           /\ UNCHANGED <<sets, placed>>
  <2>1. Len(symbols) \in Nat /\ Len(symbols') >= Len(symbols)
    BY <1>2 DEF IndInv, TypeOK, SymbolsExtend
  <2>2. ASSUME NEW i \in 1..Len(symbols'), symbols'[i].ns = "LABEL" /\ symbols'[i].defined
        PROVE  i \in 1..Len(symbols) /\ symbols'[i] = symbols[i]
    <3>1. i \notin Len(symbols) + 1..Len(symbols')
      BY <1>2, <2>2 DEF Installed
    <3>2. i \in 1..Len(symbols)
      BY <2>1, <3>1
    <3> QED
      BY <1>2, <3>2 DEF SymbolsExtend
  <2> QED
    BY <1>2, <2>2, UncountedLabels
<1> QED
  BY <1>1, <1>2, DeclarationInstalls

LEMMA TagReferenceLabels ==
  ASSUME IndInv, LabelsPlaced, NEW n \in Names, TagReference(n) PROVE LabelsPlaced'
<1>1. CASE UNCHANGED <<sets, symbols, placed>>
  BY <1>1, SameLabels
<1>2. CASE /\ Len(sets) < MaxSets /\ Allocates(current, "STRUCT_OR_UNION")
           /\ Install(Tag(n, Len(sets) + 1)) /\ UNCHANGED placed
  <2>1. PICK x : x = Tag(n, Len(sets) + 1)
    OBVIOUS
  <2>2. current \in Nat \ {0} /\ Len(sets) + 1 \in Nat
    BY DEF IndInv, TypeOK
  <2>3. x \in SymbolType /\ x.ns = "TAG" /\ Install(x)
    BY <1>2, <2>1, <2>2, TagOK
  <2>4. \E p : Bounded(p)
    BY <1>2 DEF Bounded
  <2> QED
    BY <1>2, <2>3, <2>4, InstallLabels
<1> QED
  BY <1>1, <1>2 DEF TagReference, Allocates

LEMMA EndStructLabels ==
  ASSUME IndInv, LabelsPlaced, EndStruct PROVE LabelsPlaced'
<1>1. CASE UNCHANGED <<sets, symbols, placed>>
  BY <1>1, SameLabels
<1>2. ASSUME NEW p, NEW s, NEW tag, NEW done, NEW names, NEW more,
             StructEnds(p, s, tag, done, names, more)
      PROVE  LabelsPlaced'
  BY <1>2, EndStructEffect, DefinitionLabels
<1> QED
  BY <1>1, <1>2, EndStructEffect

LEMMA NextLabels ==
  ASSUME IndInv, HomeInv, LabelsPlaced,
         [Next]_vars
  PROVE  LabelsPlaced'
<1>0. IndInv'
  BY NextIndInv
<1>1. ASSUME NEW n \in Names, GotoStatement(n) PROVE LabelsPlaced'
  BY <1>1, GotoStatementLabels
<1>2. ASSUME NEW n \in Names, NEW empty \in BOOLEAN, LabelStatement(n, empty)
      PROVE  LabelsPlaced'
  BY <1>0, <1>2, LabelStatementLabels
<1>3. ASSUME NEW n \in Names, BeginFunction(n) \/ BeginTagged(n)
      PROVE  LabelsPlaced'
  BY <1>3, BeginLabels
<1>4. ASSUME NEW n \in Names, TagReference(n) PROVE LabelsPlaced'
  BY <1>4, TagReferenceLabels
<1>5. CASE EndStruct
  BY <1>5, EndStructLabels
<1>6. ASSUME NEW kind \in {"if", "while"}, BeginStatement(kind) PROVE LabelsPlaced'
  BY <1>6, SameLabels DEF BeginStatement, Enter, Bounded, Allocates
<1>7. CASE BeginElse
  BY <1>7, SameLabels DEF BeginElse, Enter, Bounded, Allocates, Fatal
<1>8. CASE BeginAnonymous
  BY <1>8, SameLabels DEF BeginAnonymous, Enter, Bounded, Allocates
<1>9. CASE \/ BeginPlain \/ EndScoped \/ EndUnscoped \/ GotoNodeLost \/ EndStructCrash
           \/ UNCHANGED vars
           \/ \E n \in Names : UseIdentifier(n) \/ BeginDeclaration(n) \/ NextDeclarator(n)
  <2>1. UNCHANGED <<sets, symbols, placed>>
    BY <1>9 DEF BeginPlain, EndScoped, EndUnscoped, GotoNodeLost, EndStructCrash,
                UseIdentifier, BeginDeclaration, NextDeclarator, Declare, Fatal, vars
  <2> QED
    BY <2>1, SameLabels
<1>10. ASSUME NEW n \in Names, NEW type \in MemberTypes, DeclareMember(n, type)
       PROVE  LabelsPlaced'
  <2>1. UNCHANGED <<sets, symbols, placed>>
    BY <1>10 DEF DeclareMember, Declare
  <2> QED
    BY <2>1, SameLabels
<1>11. CASE EndDeclaration
  BY <1>11, EndDeclarationLabels
<1> QED
  BY <1>1, <1>2, <1>3, <1>4, <1>5, <1>6, <1>7, <1>8, <1>9, <1>10, <1>11, Zenon DEF Next

LEMMA TwiceIsPlaced ==
  ASSUME IndInv, HomeInv, LabelsPlaced, NEW n \in Names,
         \E empty \in BOOLEAN : LabelStatement(n, empty), outcome' = "label twice"
  PROVE  placed[Function][n] > 0
<1>1. PICK i : i = Lookup(current, "LABEL", n)
  OBVIOUS
<1>2. Parsing /\ InStatements
  BY Zenon DEF LabelStatement
<1>3. i # NoSymbol /\ symbols[i].defined
  BY <1>1, <1>2 DEF LabelStatement, Fatal, Parsing
<1>4. /\ i \in 1..Len(symbols) /\ symbols[i].owner = Function
      /\ symbols[i].ns = "LABEL" /\ symbols[i].name = n
  BY <1>1, <1>2, <1>3, FoundInFunction
<1> QED
  BY <1>3, <1>4 DEF LabelsPlaced, LabelPlaced

(* A label is refused as the second one of its name only if the function it
   stands in has one already (scope_helpers.c:128-135), in every program without
   while statements: a label that is in place has been placed in the function of
   its table, and the table found is that of this function. *)
THEOREM LabelsAreTwiceInOneFunction ==
  ASSUME "while" \notin Constructs PROVE Spec => LabelTwiceIsInOneFunction
<1>1. IndInv /\ HomeInv /\ LabelsPlaced /\ [Next]_vars =>
        [\A n \in Names :
           /\ \E empty \in BOOLEAN : LabelStatement(n, empty)
           /\ outcome' = "label twice"
           => placed[Function][n] > 0]_vars
  BY TwiceIsPlaced
<1>2. Init => LabelsPlaced
  BY BoundsAssumption DEF Init, LabelsPlaced
<1>3. IndInv /\ HomeInv /\ LabelsPlaced /\ [Next]_vars => LabelsPlaced'
  BY NextLabels
<1>4. Spec => []LabelsPlaced
  BY <1>2, <1>3, Homing, Invariance, PTL DEF Spec
<1> QED
  BY <1>1, <1>4, Homing, Invariance, PTL DEF Spec, LabelTwiceIsInOneFunction
=============================================================================
