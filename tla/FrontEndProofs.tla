--------------------------- MODULE FrontEndProofs ---------------------------
(***************************************************************************)
(* Proofs about FrontEnd, for any set of programs and any threshold of the   *)
(* scopes' index, and about SymbolTable alone: for every threshold, and       *)
(* whatever a client enters, leaves and adds, a name is found in the         *)
(* innermost scope around the current one that declares it, whether that     *)
(* scope scans or has an index.                                            *)
(***************************************************************************)
EXTENDS FrontEnd, ProgramText, SequenceTheorems, WellFoundedInduction, TLAPS

Less == {pair \in Nat \X Nat : pair[1] < pair[2]}

LEMMA LessIsWellFounded == IsWellFoundedOn(Less, Nat)
<1>1. OpToRel(<, Nat) = Less
  BY DEF OpToRel, Less
<1> QED BY <1>1, NatLessThanWellFounded

LEMMA Least ==
  ASSUME NEW S, S \subseteq Nat, S # {}
  PROVE  \E n \in S : \A m \in S : n <= m
<1>1. PICK n \in S : \A m \in S : <<m, n>> \notin Less
  BY LessIsWellFounded, WFMin
<1>2. ASSUME NEW m \in S
      PROVE  n <= m
  <2>1. <<m, n>> \notin Less /\ m \in Nat /\ n \in Nat
    BY <1>1
  <2>2. <<m, n>> \in Nat \X Nat
    BY <2>1
  <2>3. ~(m < n)
    BY <2>1, <2>2 DEF Less
  <2> QED BY <2>1, <2>3
<1> QED BY <1>2

LEMMA Greatest ==
  ASSUME NEW n \in Nat, NEW S, S \subseteq 0 .. n, S # {}
  PROVE  \E m \in S : \A k \in S : k <= m
<1> DEFINE T == {k \in Nat : n - k \in S}
<1>1. PICK k \in T : \A j \in T : k <= j
  <2>1. PICK m \in S : TRUE
    OBVIOUS
  <2>2. n - m \in Nat /\ n - (n - m) = m
    BY <2>1
  <2>3. T # {} /\ T \subseteq Nat
    BY <2>1, <2>2
  <2> HIDE DEF T
  <2> QED BY <2>3, Least
<1>2. ASSUME NEW m \in S
      PROVE  m <= n - k
  <2>1. m \in 0 .. n /\ n - m \in Nat /\ n - (n - m) = m
    OBVIOUS
  <2>2. n - m \in T
    BY <2>1
  <2> QED BY <1>1, <2>1, <2>2
<1> QED BY <1>1, <1>2

(* Induction, on a set instead of a predicate. *)
LEMMA SetInduction ==
  ASSUME NEW S, 0 \in S, \A n \in Nat : n \in S => n + 1 \in S
  PROVE  Nat \subseteq S
<1>1. SUFFICES ASSUME Nat \ S # {} PROVE FALSE
  OBVIOUS
<1>2. PICK n \in Nat \ S : \A m \in Nat \ S : <<m, n>> \notin Less
  <2>1. Nat \ S \subseteq Nat
    OBVIOUS
  <2> QED BY <1>1, <2>1, LessIsWellFounded, WFMin
<1>3. n \in Nat /\ n # 0 /\ n - 1 \in Nat
  OBVIOUS
<1>4. <<n - 1, n>> \in Less
  BY <1>3 DEF Less
<1>5. n - 1 \in S
  BY <1>2, <1>3, <1>4
<1> QED BY <1>3, <1>5

-------------------------------------------------------------------------------

CONSTANT Symbols   \* what a declaration says of its name

(* A client of the table: the passes call nothing else that changes it.     *)
TableNext ==
  \/ enterScope
  \/ exitScope
  \/ \E name \in Spellings, sym \in Symbols : addSymbol(name, sym)

TableSpec == TableInit /\ [][TableNext]_tableVars

-------------------------------------------------------------------------------
(* Types *)

Entry == [name : Spellings, symbol : Nat \ {None}]

AnyIndex == UNION {[names -> Nat \ {None}] : names \in SUBSET Spellings}

AnyScope == [parent : Nat, entries : Seq(Entry), index : AnyIndex]

(* A scope's index is that of all its entries. *)
Indexed(scope) ==
  scope.index # NoIndex =>
    /\ DOMAIN scope.index = Names(scope.entries)
    /\ \A i \in DOMAIN scope.entries : scope.index[scope.entries[i].name] = scope.entries[i].symbol

Once(scope) ==
  \A i, j \in DOMAIN scope.entries : scope.entries[i].name = scope.entries[j].name => i = j

Sound(scope) == scope \in AnyScope /\ Indexed(scope) /\ Once(scope)

ScopesInv ==
  /\ scopes \in Seq(AnyScope)
  /\ current \in DOMAIN scopes
  /\ \A s \in DOMAIN scopes : Sound(scopes[s]) /\ scopes[s].parent \in 0 .. s - 1

TableInv == ScopesInv /\ arena \in Seq(Symbols)

LEMMA FirstIsOnly ==
  ASSUME NEW scope, Once(scope), scope \in AnyScope, NEW i \in DOMAIN scope.entries
  PROVE  FirstOf(scope.entries, scope.entries[i].name) = scope.entries[i].symbol
<1> DEFINE same == {j \in DOMAIN scope.entries : scope.entries[j].name = scope.entries[i].name}
<1>1. same = {i}
  BY DEF Once
<1>2. i \in Nat
  BY LenProperties DEF AnyScope
<1>3. Min({i}) = i
  BY <1>2 DEF Min
<1> QED BY <1>1, <1>3 DEF FirstOf

(* lookupSymbolLocal finds what was declared, by scan and by index. *)
LEMMA LocalIsExact ==
  ASSUME NEW scope, Sound(scope)
  PROVE  /\ \A i \in DOMAIN scope.entries :
              LookupLocal(scope, scope.entries[i].name) = scope.entries[i].symbol
         /\ \A name : name \notin Names(scope.entries) => LookupLocal(scope, name) = None
<1>1. ASSUME NEW i \in DOMAIN scope.entries
      PROVE  LookupLocal(scope, scope.entries[i].name) = scope.entries[i].symbol
  <2>1. scope.entries[i].name \in Names(scope.entries)
    BY DEF Names
  <2>2. FirstOf(scope.entries, scope.entries[i].name) = scope.entries[i].symbol
    BY FirstIsOnly DEF Sound
  <2> QED BY <2>1, <2>2 DEF LookupLocal, Sound, Indexed
<1>2. ASSUME NEW name, name \notin Names(scope.entries)
      PROVE  LookupLocal(scope, name) = None
  BY <1>2 DEF LookupLocal, Sound, Indexed
<1> QED BY <1>1, <1>2

LEMMA AddedIsSound ==
  ASSUME NEW scope, Sound(scope), NEW name \in Spellings, NEW sym \in Nat \ {None},
         LookupLocal(scope, name) = None
  PROVE  /\ Sound(WithSymbol(scope, name, sym))
         /\ WithSymbol(scope, name, sym).parent = scope.parent
<1> DEFINE e == [name |-> name, symbol |-> sym]
           entries == Append(scope.entries, e)
           n == Len(scope.entries)
<1>1. scope \in AnyScope /\ scope.entries \in Seq(Entry) /\ scope.index \in AnyIndex
  BY DEF Sound, AnyScope
<1>2. e \in Entry /\ e.name = name /\ e.symbol = sym
  BY DEF Entry
<1> HIDE DEF e
<1>3. /\ entries \in Seq(Entry) /\ n \in Nat /\ Len(entries) = n + 1
      /\ DOMAIN entries = 1 .. n + 1 /\ DOMAIN scope.entries = 1 .. n
      /\ entries[n + 1] = e /\ \A i \in 1 .. n : entries[i] = scope.entries[i]
  BY <1>1, <1>2
<1> HIDE DEF entries
<1>4. \A i \in 1 .. n : scope.entries[i] \in Entry
  BY <1>1, <1>3, ElementOfSeq
<1>5. name \notin Names(scope.entries)
  <2> SUFFICES ASSUME NEW i \in 1 .. n, scope.entries[i].name = name PROVE FALSE
    BY <1>3 DEF Names
  <2>1. scope.entries[i].symbol = None
    BY <1>3, LocalIsExact
  <2> QED BY <2>1, <1>4 DEF Entry
<1>6. Names(entries) = Names(scope.entries) \cup {name}
  BY <1>2, <1>3 DEF Names
<1>7. \A i, j \in 1 .. n + 1 : entries[i].name = entries[j].name => i = j
  <2> SUFFICES ASSUME NEW i \in 1 .. n + 1, NEW j \in 1 .. n + 1, entries[i].name = entries[j].name
               PROVE  i = j
    OBVIOUS
  <2>1. CASE i \in 1 .. n /\ j \in 1 .. n
    BY <1>1, <1>3, <2>1 DEF Sound, Once
  <2>2. CASE i \in 1 .. n /\ j = n + 1
    BY <1>2, <1>3, <1>5, <2>2 DEF Names
  <2>3. CASE i = n + 1 /\ j \in 1 .. n
    BY <1>2, <1>3, <1>5, <2>3 DEF Names
  <2> QED BY <1>3, <2>1, <2>2, <2>3
<1>8. Names(entries) \subseteq Spellings
  <2>1. \A i \in 1 .. n + 1 : entries[i].name \in Spellings
    <3>1. \A i \in 1 .. n + 1 : entries[i] \in Entry
      BY <1>3, ElementOfSeq
    <3> QED BY <3>1 DEF Entry
  <2> QED BY <1>3, <2>1 DEF Names
<1>9. ASSUME NEW f, f \in AnyIndex,
             f # NoIndex => /\ DOMAIN f = Names(entries)
                            /\ \A i \in 1 .. n + 1 : f[entries[i].name] = entries[i].symbol
      PROVE  Sound([scope EXCEPT !.entries = entries, !.index = f])
  <2> DEFINE new == [scope EXCEPT !.entries = entries, !.index = f]
  <2>1. new \in AnyScope /\ new.entries = entries /\ new.index = f
    BY <1>1, <1>3, <1>9 DEF AnyScope
  <2> HIDE DEF new
  <2>2. Indexed(new)
    BY <2>1, <1>3, <1>9 DEF Indexed
  <2>3. Once(new)
    BY <2>1, <1>3, <1>7 DEF Once
  <2> QED BY <2>1, <2>2, <2>3 DEF Sound, new
<1>10. \A f : [scope EXCEPT !.entries = entries, !.index = f].parent = scope.parent
  BY <1>1 DEF AnyScope
<1>11. CASE scope.index # NoIndex
  <2> DEFINE f == Emplaced(scope.index, name, sym)
  <2>1. DOMAIN scope.index = Names(scope.entries)
    BY <1>11 DEF Sound, Indexed
  <2>2. /\ DOMAIN f = Names(entries) /\ f[name] = sym
        /\ \A m \in Names(scope.entries) : f[m] = scope.index[m]
    BY <2>1, <1>5, <1>6 DEF Emplaced
  <2>3. \A m \in Names(scope.entries) : scope.index[m] \in Nat \ {None}
    BY <1>1, <2>1 DEF AnyIndex
  <2>4. f = [m \in Names(entries) |-> f[m]]
    <3>1. f = [m \in DOMAIN f |-> f[m]]
      BY DEF Emplaced
    <3> HIDE DEF f
    <3> QED BY <2>2, <3>1
  <2> HIDE DEF f
  <2>5. f \in AnyIndex
    BY <2>2, <2>3, <2>4, <1>6, <1>8 DEF AnyIndex
  <2>6. ASSUME NEW i \in 1 .. n + 1
        PROVE  f[entries[i].name] = entries[i].symbol
    <3>1. CASE i = n + 1
      BY <3>1, <2>2, <1>2, <1>3
    <3>2. CASE i \in 1 .. n
      <4>1. entries[i] = scope.entries[i] /\ i \in DOMAIN scope.entries
        BY <3>2, <1>3
      <4>2. scope.entries[i].name \in Names(scope.entries)
        BY <4>1 DEF Names
      <4>3. scope.index[scope.entries[i].name] = scope.entries[i].symbol
        BY <1>11, <4>1 DEF Sound, Indexed
      <4> QED BY <2>2, <4>1, <4>2, <4>3
    <3> QED BY <1>3, <3>1, <3>2
  <2>7. WithSymbol(scope, name, sym) = [scope EXCEPT !.entries = entries, !.index = f]
    BY <1>11 DEF WithSymbol, f, entries, e
  <2>8. Sound([scope EXCEPT !.entries = entries, !.index = f])
    BY <2>2, <2>5, <2>6, <1>9
  <2> QED BY <2>7, <2>8, <1>10
<1>12. CASE scope.index = NoIndex /\ Len(entries) > IndexThreshold
  <2> DEFINE f == BuiltIndex(entries)
             all == [scope EXCEPT !.entries = entries, !.index = NoIndex]
  <2>1. all \in AnyScope /\ all.entries = entries /\ Once(all)
    <3>1. NoIndex \in AnyIndex
      BY <1>1, <1>12 DEF AnyScope
    <3>2. all \in AnyScope /\ all.entries = entries
      BY <1>1, <1>3, <3>1 DEF AnyScope
    <3> HIDE DEF all
    <3> QED BY <1>3, <1>7, <3>2 DEF Once
  <2> HIDE DEF all
  <2>2. ASSUME NEW i \in 1 .. n + 1
        PROVE  f[entries[i].name] = entries[i].symbol /\ entries[i] \in Entry
    <3>1. entries[i].name \in Names(entries)
      BY <1>3 DEF Names
    <3>2. FirstOf(entries, entries[i].name) = entries[i].symbol
      BY <2>1, <1>3, FirstIsOnly
    <3> QED BY <3>1, <3>2, <1>3, ElementOfSeq DEF BuiltIndex
  <2>3. DOMAIN f = Names(entries) /\ f = [m \in Names(entries) |-> f[m]]
    BY DEF BuiltIndex
  <2> HIDE DEF f
  <2>4. \A m \in Names(entries) : f[m] \in Nat \ {None}
    BY <2>2, <1>3 DEF Names, Entry
  <2>5. f \in AnyIndex
    BY <2>3, <2>4, <1>8 DEF AnyIndex
  <2>6. WithSymbol(scope, name, sym) = [scope EXCEPT !.entries = entries, !.index = f]
    BY <1>12 DEF WithSymbol, f, entries, e
  <2>7. Sound([scope EXCEPT !.entries = entries, !.index = f])
    BY <2>2, <2>3, <2>5, <1>9
  <2> QED BY <2>6, <2>7, <1>10
<1>13. CASE scope.index = NoIndex /\ ~(Len(entries) > IndexThreshold)
  <2>1. WithSymbol(scope, name, sym) = [scope EXCEPT !.entries = entries, !.index = scope.index]
    BY <1>13 DEF WithSymbol, entries, e
  <2> QED BY <2>1, <1>1, <1>9, <1>10, <1>13
<1> QED BY <1>11, <1>12, <1>13
-------------------------------------------------------------------------------
(* The table                                                               *)

LEMMA ScopesInit == TableInit => ScopesInv
<1> SUFFICES ASSUME TableInit PROVE ScopesInv
  OBVIOUS
<1> DEFINE global == NewScope(None)
<1>1. global \in AnyScope /\ global.entries = <<>> /\ global.index = NoIndex /\ global.parent = 0
  <2>1. NoIndex \in AnyIndex
    <3>1. {} \in SUBSET Spellings /\ NoIndex \in [{} -> Nat \ {None}]
      BY DEF NoIndex
    <3> QED BY <3>1 DEF AnyIndex
  <2> QED BY <2>1 DEF NewScope, AnyScope, None
<1> HIDE DEF global
<1>2. Sound(global)
  BY <1>1 DEF Sound, Indexed, Once
<1>3. scopes = <<global>>
  BY DEF TableInit, global
<1>4. scopes \in Seq(AnyScope) /\ DOMAIN scopes = {1} /\ scopes[1] = global
  BY <1>1, <1>3
<1> QED BY <1>1, <1>2, <1>4 DEF TableInit, ScopesInv

(* What each operation leaves in the scopes. *)
LEMMA EnterKeeps ==
  ASSUME ScopesInv, enterScope
  PROVE  /\ ScopesInv'
         /\ DOMAIN scopes' = DOMAIN scopes \cup {Len(scopes) + 1}
         /\ Len(scopes) + 1 \notin DOMAIN scopes
         /\ current' = Len(scopes) + 1
         /\ scopes'[current'].parent = current /\ scopes'[current'].entries = <<>>
         /\ \A s \in DOMAIN scopes : scopes'[s] = scopes[s]
<1> DEFINE inner == NewScope(current)
<1>0. /\ scopes \in Seq(AnyScope) /\ DOMAIN scopes = 1 .. Len(scopes) /\ Len(scopes) \in Nat
      /\ current \in DOMAIN scopes
  BY LenProperties DEF ScopesInv
<1>1. /\ inner \in AnyScope /\ inner.entries = <<>> /\ inner.index = NoIndex
      /\ inner.parent = current
  <2>1. NoIndex \in AnyIndex
    <3>1. {} \in SUBSET Spellings /\ NoIndex \in [{} -> Nat \ {None}]
      BY DEF NoIndex
    <3> QED BY <3>1 DEF AnyIndex
  <2> QED BY <1>0, <2>1 DEF NewScope, AnyScope
<1>2. scopes' = Append(scopes, inner) /\ current' = Len(scopes) + 1
  BY DEF enterScope
<1> HIDE DEF inner
<1>3. Sound(inner)
  BY <1>1 DEF Sound, Indexed, Once
<1>4. /\ scopes' \in Seq(AnyScope) /\ DOMAIN scopes' = 1 .. Len(scopes) + 1
      /\ scopes'[Len(scopes) + 1] = inner
      /\ \A s \in 1 .. Len(scopes) : scopes'[s] = scopes[s]
  BY <1>0, <1>1, <1>2
<1>5. ASSUME NEW s \in 1 .. Len(scopes) + 1
      PROVE  Sound(scopes'[s]) /\ scopes'[s].parent \in 0 .. s - 1
  <2>1. CASE s = Len(scopes) + 1
    BY <2>1, <1>0, <1>1, <1>3, <1>4
  <2>2. CASE s # Len(scopes) + 1
    BY <2>2, <1>0, <1>4 DEF ScopesInv
  <2> QED BY <2>1, <2>2
<1>6. ScopesInv'
  BY <1>0, <1>2, <1>4, <1>5 DEF ScopesInv
<1> QED BY <1>0, <1>1, <1>2, <1>4, <1>6

LEMMA ExitKeeps ==
  ASSUME ScopesInv, exitScope
  PROVE  /\ ScopesInv'
         /\ scopes' = scopes
         /\ current' = IF scopes[current].parent # None THEN scopes[current].parent ELSE current
<1>0. DOMAIN scopes = 1 .. Len(scopes) /\ Len(scopes) \in Nat /\ current \in DOMAIN scopes
  BY LenProperties DEF ScopesInv
<1>1. scopes[current].parent \in 0 .. current - 1
  BY DEF ScopesInv
<1> QED BY <1>0, <1>1 DEF exitScope, ScopesInv, None

LEMMA AddKeeps ==
  ASSUME ScopesInv, Len(arena) \in Nat, NEW name \in Spellings, NEW sym,
         addSymbol(name, sym)
  PROVE  /\ ScopesInv'
         /\ DOMAIN scopes' = DOMAIN scopes
         /\ current' = current
         /\ \A s \in DOMAIN scopes :
              /\ scopes'[s].parent = scopes[s].parent
              /\ scopes'[s].entries =
                   IF s = current
                   THEN Append(scopes[s].entries, [name |-> name, symbol |-> Len(arena) + 1])
                   ELSE scopes[s].entries
<1> DEFINE new == WithSymbol(scopes[current], name, Len(arena) + 1)
<1>0. /\ scopes \in Seq(AnyScope) /\ current \in DOMAIN scopes
      /\ Sound(scopes[current]) /\ scopes[current] \in AnyScope
  BY DEF ScopesInv, Sound
<1>1. /\ LookupLocal(scopes[current], name) = None /\ current' = current
      /\ scopes' = [scopes EXCEPT ![current] = new]
  BY DEF addSymbol, Redefines
<1>2. Len(arena) + 1 \in Nat \ {None}
  BY DEF None
<1>3. Sound(new) /\ new.parent = scopes[current].parent
  BY <1>0, <1>1, <1>2, AddedIsSound
<1>4. new.entries = Append(scopes[current].entries, [name |-> name, symbol |-> Len(arena) + 1])
  BY <1>0 DEF WithSymbol, AnyScope
<1> HIDE DEF new
<1>5. new \in AnyScope
  BY <1>3 DEF Sound
<1>6. /\ scopes' \in Seq(AnyScope) /\ DOMAIN scopes' = DOMAIN scopes
      /\ \A s \in DOMAIN scopes : scopes'[s] = IF s = current THEN new ELSE scopes[s]
  BY <1>0, <1>1, <1>5
<1>7. \A s \in DOMAIN scopes : Sound(scopes'[s]) /\ scopes'[s].parent \in 0 .. s - 1
  BY <1>3, <1>6 DEF ScopesInv
<1>8. ScopesInv'
  BY <1>0, <1>1, <1>6, <1>7 DEF ScopesInv
<1> QED BY <1>1, <1>3, <1>4, <1>6, <1>8

LEMMA TableStep == TableInv /\ [TableNext]_tableVars => TableInv'
<1> SUFFICES ASSUME TableInv, [TableNext]_tableVars PROVE TableInv'
  OBVIOUS
<1>1. CASE enterScope
  BY <1>1, EnterKeeps DEF TableInv, enterScope
<1>2. CASE exitScope
  BY <1>2, ExitKeeps DEF TableInv, exitScope
<1>3. ASSUME NEW name \in Spellings, NEW sym \in Symbols, addSymbol(name, sym)
      PROVE  TableInv'
  <2>1. Len(arena) \in Nat /\ arena' \in Seq(Symbols)
    BY <1>3 DEF TableInv, addSymbol
  <2> QED BY <1>3, <2>1, AddKeeps DEF TableInv
<1>4. CASE UNCHANGED tableVars
  BY <1>4 DEF tableVars, TableInv, ScopesInv
<1> QED BY <1>1, <1>2, <1>3, <1>4 DEF TableNext

-------------------------------------------------------------------------------
(* lookupSymbol                                                            *)

LookupStep(f, name, s) ==
  IF s = None THEN None
  ELSE LET sym == LookupLocal(scopes[s], name)
       IN IF sym # None THEN sym ELSE f[scopes[s].parent]

(* The walk ends: the scope around a scope was made before it. *)
LEMMA LookupExists ==
  ASSUME ScopesInv, NEW name
  PROVE  \E f : f = [s \in 0 .. Len(scopes) |-> LookupStep(f, name, s)]
<1> DEFINE All == 0 .. Len(scopes)
           Known(f, k) == \A s \in All : s <= k => f[s] = LookupStep(f, name, s)
           IsMap(f) == f = [s \in All |-> f[s]]
           T == {k \in Nat : \E f : IsMap(f) /\ Known(f, k)}
<1>0. Len(scopes) \in Nat /\ \A s \in All : s # 0 => scopes[s].parent \in 0 .. s - 1
  BY LenProperties DEF ScopesInv
<1>1. 0 \in T
  <2> DEFINE f == [s \in All |-> None]
  <2>1. IsMap(f)
    OBVIOUS
  <2>2. Known(f, 0)
    BY <1>0 DEF LookupStep, None
  <2> HIDE DEF f, Known, IsMap
  <2> QED BY <2>1, <2>2
<1>2. ASSUME NEW k \in Nat, k \in T
      PROVE  k + 1 \in T
  <2>1. PICK f : IsMap(f) /\ Known(f, k)
    BY <1>2
  <2> DEFINE more == [s \in All |-> IF s = k + 1 THEN LookupStep(f, name, s) ELSE f[s]]
  <2>2. IsMap(more)
    OBVIOUS
  <2>3. \A s \in All : s # k + 1 => more[s] = f[s]
    OBVIOUS
  <2>4. k + 1 \in All => more[k + 1] = LookupStep(f, name, k + 1)
    OBVIOUS
  <2> HIDE DEF more
  <2>5. ASSUME NEW s \in All, s <= k + 1
        PROVE  LookupStep(more, name, s) = LookupStep(f, name, s)
    <3>1. CASE s = 0
      BY <3>1 DEF LookupStep, None
    <3>2. CASE s # 0
      <4>1. scopes[s].parent \in All /\ scopes[s].parent # k + 1
        BY <1>0, <2>5, <3>2
      <4> QED BY <2>3, <4>1 DEF LookupStep
    <3> QED BY <3>1, <3>2
  <2>6. Known(more, k + 1)
    <3> SUFFICES ASSUME NEW s \in All, s <= k + 1
                 PROVE  more[s] = LookupStep(more, name, s)
      OBVIOUS
    <3>1. CASE s = k + 1
      BY <2>4, <2>5, <3>1
    <3>2. CASE s # k + 1
      <4>1. s <= k
        BY <3>2, <1>0
      <4>2. f[s] = LookupStep(f, name, s)
        BY <2>1, <4>1
      <4>3. more[s] = f[s] /\ LookupStep(more, name, s) = LookupStep(f, name, s)
        BY <2>3, <2>5, <3>2
      <4> QED BY <4>2, <4>3
    <3> QED BY <3>1, <3>2
  <2> HIDE DEF Known, IsMap
  <2> QED BY <2>2, <2>6
<1>3. Nat \subseteq T
  <2> HIDE DEF T
  <2> QED BY <1>1, <1>2, SetInduction
<1>4. PICK f : IsMap(f) /\ Known(f, Len(scopes))
  <2> HIDE DEF Known, IsMap
  <2> QED BY <1>0, <1>3
<1>5. \A s \in All : f[s] = LookupStep(f, name, s)
  BY <1>0, <1>4
<1>6. f = [s \in All |-> LookupStep(f, name, s)]
  BY <1>4, <1>5
<1> QED BY <1>6

(* The scopes that a walk from s passes do not declare the name, and the     *)
(* scope it ends at does, with this symbol; it ends at None when there is *)
(* no such scope.                                                          *)
FoundFrom(s, name, sym) ==
  \E skipped \in SUBSET DOMAIN scopes, last \in DOMAIN scopes \cup {None} :
    /\ s \in skipped \cup {last}
    /\ \A t \in skipped : /\ name \notin Names(scopes[t].entries)
                          /\ scopes[t].parent \in skipped \cup {last}
    /\ IF last = None THEN sym = None
       ELSE \E i \in DOMAIN scopes[last].entries :
              scopes[last].entries[i] = [name |-> name, symbol |-> sym]

FindsInnermost == \A name \in Spellings : FoundFrom(current, name, Lookup(name))

LEMMA WalkFinds ==
  ASSUME ScopesInv, NEW name \in Spellings
  PROVE  FoundFrom(current, name, Lookup(name))
<1> DEFINE from == CHOOSE f : f = [s \in 0 .. Len(scopes) |-> LookupStep(f, name, s)]
<1>0. Len(scopes) \in Nat /\ DOMAIN scopes = 1 .. Len(scopes) /\ current \in DOMAIN scopes
  BY LenProperties DEF ScopesInv
<1>1. from = [s \in 0 .. Len(scopes) |-> LookupStep(from, name, s)]
  BY LookupExists
<1>2. Lookup(name) = from[current]
  BY DEF Lookup, LookupStep
<1> HIDE DEF from
<1>3. \A s \in 0 .. Len(scopes) : from[s] = LookupStep(from, name, s)
  BY <1>1
<1> DEFINE T == {k \in Nat : \A s \in 0 .. Len(scopes) : s <= k => FoundFrom(s, name, from[s])}
<1>4. FoundFrom(0, name, from[0])
  <2>1. from[0] = None
    BY <1>0, <1>3 DEF LookupStep, None
  <2>2. {} \in SUBSET DOMAIN scopes /\ 0 \in DOMAIN scopes \cup {None} /\ 0 \in {} \cup {0} /\ 0 = None
    BY DEF None
  <2> QED BY <2>1, <2>2 DEF FoundFrom
<1>5. ASSUME NEW s \in DOMAIN scopes, FoundFrom(scopes[s].parent, name, from[scopes[s].parent])
      PROVE  FoundFrom(s, name, from[s])
  <2>0. Sound(scopes[s]) /\ s # None /\ s \in 0 .. Len(scopes)
    BY <1>0 DEF ScopesInv, None
  <2>1. CASE name \in Names(scopes[s].entries)
    <3>1. PICK i \in DOMAIN scopes[s].entries : scopes[s].entries[i].name = name
      BY <2>1 DEF Names
    <3>2. scopes[s].entries[i] \in Entry
      BY <2>0, ElementOfSeq, LenProperties DEF Sound, AnyScope
    <3>3. LookupLocal(scopes[s], name) = scopes[s].entries[i].symbol
      BY <2>0, <3>1, LocalIsExact
    <3>4. from[s] = scopes[s].entries[i].symbol
      BY <1>3, <2>0, <3>2, <3>3 DEF LookupStep, Entry
    <3>5. scopes[s].entries[i] = [name |-> name, symbol |-> from[s]]
      BY <3>1, <3>2, <3>4 DEF Entry
    <3>6. {} \in SUBSET DOMAIN scopes /\ s \in DOMAIN scopes \cup {None} /\ s \in {} \cup {s}
      OBVIOUS
    <3> QED BY <2>0, <3>5, <3>6 DEF FoundFrom
  <2>2. CASE name \notin Names(scopes[s].entries)
    <3>1. from[s] = from[scopes[s].parent]
      BY <1>3, <2>0, <2>2, LocalIsExact DEF LookupStep
    <3>2. PICK skipped \in SUBSET DOMAIN scopes, last \in DOMAIN scopes \cup {None} :
            /\ scopes[s].parent \in skipped \cup {last}
            /\ \A t \in skipped : /\ name \notin Names(scopes[t].entries)
                                  /\ scopes[t].parent \in skipped \cup {last}
            /\ IF last = None THEN from[s] = None
               ELSE \E i \in DOMAIN scopes[last].entries :
                      scopes[last].entries[i] = [name |-> name, symbol |-> from[s]]
      BY <1>5, <3>1 DEF FoundFrom
    <3> DEFINE more == skipped \cup {s}
    <3>3. /\ more \in SUBSET DOMAIN scopes /\ s \in more \cup {last}
          /\ \A t \in more : /\ name \notin Names(scopes[t].entries)
                             /\ scopes[t].parent \in more \cup {last}
      BY <2>2, <3>2
    <3> HIDE DEF more
    <3> QED BY <3>2, <3>3 DEF FoundFrom
  <2> QED BY <2>1, <2>2
<1>6. 0 \in T
  BY <1>4
<1>7. ASSUME NEW k \in Nat, k \in T
      PROVE  k + 1 \in T
  <2> SUFFICES ASSUME NEW s \in 0 .. Len(scopes), s = k + 1
               PROVE  FoundFrom(s, name, from[s])
    BY <1>7
  <2>1. s \in DOMAIN scopes /\ scopes[s].parent \in 0 .. k /\ scopes[s].parent \in 0 .. Len(scopes)
    BY <1>0 DEF ScopesInv
  <2> QED BY <1>5, <1>7, <2>1
<1>8. Nat \subseteq T
  <2> HIDE DEF T
  <2> QED BY <1>6, <1>7, SetInduction
<1>9. FoundFrom(current, name, from[current])
  BY <1>0, <1>8
<1> QED BY <1>2, <1>9

(* A lookup scans a scope up to IndexThreshold entries and asks an index      *)
(* beyond (Scope.cpp:43-62): for every threshold, and whatever is entered,   *)
(* left and added, it finds the declaration in the innermost scope that has  *)
(* one, and nothing only where there is none.                              *)
THEOREM LookupFindsInnermost == TableSpec => []FindsInnermost
<1>1. TableInit => TableInv
  BY ScopesInit DEF TableInv, TableInit
<1>2. TableSpec => []TableInv
  BY <1>1, TableStep, PTL DEF TableSpec
<1>3. TableInv => FindsInnermost
  BY WalkFinds DEF FindsInnermost, TableInv
<1> QED BY <1>2, <1>3, PTL

-------------------------------------------------------------------------------
(* Programs as trees *)

LEMMA ProgramFacts ==
  ASSUME NEW p, IsProgram(p)
  PROVE  /\ DOMAIN p = 1 .. Len(p) /\ Len(p) \in Nat \ {0}
         /\ \A n \in 1 .. Len(p) :
              /\ p[n] \in ProgramNode /\ p[n].kids \in Seq(Nat)
              /\ DOMAIN p[n].kids = 1 .. Len(p[n].kids) /\ Len(p[n].kids) \in Nat
<1>1. p \in Seq(ProgramNode) /\ Len(p) > 0
  BY DEF IsProgram
<1>2. DOMAIN p = 1 .. Len(p) /\ Len(p) \in Nat
  BY <1>1, LenProperties
<1>3. ASSUME NEW n \in 1 .. Len(p)
      PROVE  /\ p[n] \in ProgramNode /\ p[n].kids \in Seq(Nat)
             /\ DOMAIN p[n].kids = 1 .. Len(p[n].kids) /\ Len(p[n].kids) \in Nat
  <2>1. p[n] \in ProgramNode
    BY <1>1, ElementOfSeq
  <2>2. p[n].kids \in Seq(Nat)
    BY <2>1 DEF ProgramNode
  <2> QED BY <2>1, <2>2, LenProperties
<1> QED BY <1>1, <1>2, <1>3

(* The children of a node, by place. *)
LEMMA KidFacts ==
  ASSUME NEW p, IsProgram(p), NEW n \in 1 .. Len(p)
  PROVE  /\ Children(p, n) \subseteq n + 1 .. Len(p)
         /\ \A i \in 1 .. Len(p[n].kids) : p[n].kids[i] \in Children(p, n)
         /\ \A i, j \in 1 .. Len(p[n].kids) : i < j => p[n].kids[i] < p[n].kids[j]
         /\ \A m \in Children(p, n) : \E i \in 1 .. Len(p[n].kids) : m = p[n].kids[i]
<1>1. n \in DOMAIN p /\ DOMAIN p[n].kids = 1 .. Len(p[n].kids)
  BY ProgramFacts
<1>2. \A i, j \in DOMAIN p[n].kids : /\ p[n].kids[i] \in n + 1 .. Len(p)
                                     /\ i < j => p[n].kids[i] < p[n].kids[j]
  BY <1>1 DEF IsProgram, IsTree
<1>3. Children(p, n) = {p[n].kids[i] : i \in 1 .. Len(p[n].kids)}
  BY <1>1 DEF Children
<1> QED BY <1>1, <1>2, <1>3

(* Edges do not cross. *)
LEMMA NoCrossing ==
  ASSUME NEW p, IsProgram(p), NEW n \in 1 .. Len(p), NEW m \in Children(p, n),
         NEW o \in n + 1 .. m - 1, NEW k \in Children(p, o)
  PROVE  k < m
<1>1. n \in DOMAIN p
  BY ProgramFacts
<1> QED BY <1>1 DEF IsProgram, IsTree

LEMMA OneParent ==
  ASSUME NEW p, IsProgram(p)
  PROVE  /\ \A n \in 1 .. Len(p) : \A m \in Children(p, n) : Par(p, m) = n
         /\ \A m \in 2 .. Len(p) : Par(p, m) \in 1 .. m - 1 /\ m \in Children(p, Par(p, m))
<1>0. DOMAIN p = 1 .. Len(p) /\ Len(p) \in Nat
  BY ProgramFacts
<1>1. ASSUME NEW n \in 1 .. Len(p), NEW o \in 1 .. Len(p), n < o,
             NEW m \in Children(p, n), m \in Children(p, o)
      PROVE  FALSE
  <2>1. m \in o + 1 .. Len(p)
    BY <1>1, KidFacts
  <2>2. o \in n + 1 .. m - 1
    BY <1>1, <2>1
  <2>3. m < m
    BY <1>1, <2>2, NoCrossing
  <2> QED BY <2>1, <2>3
<1>2. ASSUME NEW n \in 1 .. Len(p), NEW m \in Children(p, n)
      PROVE  Par(p, m) = n
  <2>1. Par(p, m) \in 1 .. Len(p) /\ m \in Children(p, Par(p, m))
    BY <1>0 DEF Par
  <2> HIDE DEF Par
  <2>2. ~(Par(p, m) < n) /\ ~(n < Par(p, m))
    BY <1>1, <2>1
  <2> QED BY <1>0, <2>1, <2>2
<1>3. ASSUME NEW m \in 2 .. Len(p)
      PROVE  Par(p, m) \in 1 .. m - 1 /\ m \in Children(p, Par(p, m))
  <2>1. PICK n \in 1 .. m - 1 : m \in Children(p, n)
    BY DEF IsProgram, IsTree
  <2> QED BY <1>0, <1>2, <2>1
<1> QED BY <1>2, <1>3

LEMMA EndFacts ==
  ASSUME NEW p, IsProgram(p), NEW n \in 1 .. Len(p)
  PROVE  /\ End(p, n) \in n .. Len(p)
         /\ \A m \in n + 1 .. End(p, n) : Par(p, m) >= n
         /\ End(p, n) < Len(p) => Par(p, End(p, n) + 1) < n
<1> DEFINE C == {e \in n .. Len(p) : e = Len(p) \/ Par(p, e + 1) < n}
<1>0. Len(p) \in Nat /\ \A m \in 2 .. Len(p) : Par(p, m) \in Nat
  BY ProgramFacts, OneParent
<1>1. PICK e \in C : \A m \in C : e <= m
  <2>1. C # {} /\ C \subseteq Nat
    <3>1. Len(p) \in C
      BY <1>0
    <3> QED BY <3>1
  <2> HIDE DEF C
  <2> QED BY <2>1, Least
<1>2. \A m \in n + 1 .. e : Par(p, m) >= n
  <2> SUFFICES ASSUME NEW m \in n + 1 .. e
               PROVE  Par(p, m) >= n
    OBVIOUS
  <2>1. m - 1 \notin C /\ m - 1 \in n .. Len(p) /\ m - 1 # Len(p) /\ m - 1 + 1 = m
    BY <1>0, <1>1
  <2> QED BY <1>0, <2>1
<1>3. \E x \in n .. Len(p) : /\ \A m \in n + 1 .. x : Par(p, m) >= n
                             /\ x < Len(p) => Par(p, x + 1) < n
  BY <1>0, <1>1, <1>2
<1> QED BY <1>3 DEF End

LEMMA KidNodes ==
  ASSUME NEW p, IsProgram(p), NEW n \in 1 .. Len(p)
  PROVE  \A i \in 1 .. Len(p[n].kids) : p[n].kids[i] \in 2 .. Len(p) /\ End(p, p[n].kids[i]) \in Nat
<1> SUFFICES ASSUME NEW i \in 1 .. Len(p[n].kids), NEW k, k = p[n].kids[i]
             PROVE  k \in 2 .. Len(p) /\ End(p, k) \in Nat
  OBVIOUS
<1>1. k \in Children(p, n) /\ Children(p, n) \subseteq n + 1 .. Len(p) /\ Len(p) \in Nat
  BY KidFacts, ProgramFacts, Zenon
<1>2. k \in 2 .. Len(p) /\ k \in 1 .. Len(p)
  BY <1>1
<1>3. End(p, k) \in k .. Len(p)
  BY <1>2, EndFacts, Zenon
<1> QED BY <1>1, <1>2, <1>3

(* Where the subtrees of a node's children lie: behind it, behind one another, *)
(* up to its End.                                                          *)
LEMMA KidsTile ==
  ASSUME NEW p, IsProgram(p), NEW n \in 1 .. Len(p)
  PROVE  LET kids == p[n].kids IN
         /\ \A m \in Children(p, n) : m <= End(p, n)
         /\ Len(kids) = 0 => End(p, n) = n
         /\ Len(kids) > 0 => kids[1] = n + 1 /\ End(p, kids[Len(kids)]) = End(p, n)
         /\ \A i \in 1 .. Len(kids) - 1 : kids[i + 1] = End(p, kids[i]) + 1
<1> DEFINE kids == p[n].kids
<1>0. /\ Len(p) \in Nat /\ Len(kids) \in Nat
      /\ \A i \in 1 .. Len(kids) : kids[i] \in n + 1 .. Len(p) /\ kids[i] \in Children(p, n)
      /\ \A i, j \in 1 .. Len(kids) : i < j => kids[i] < kids[j]
      /\ Children(p, n) \subseteq n + 1 .. Len(p)
      /\ \A m \in Children(p, n) : \E i \in 1 .. Len(kids) : m = kids[i]
  BY ProgramFacts, KidFacts
<1> HIDE DEF kids
<1>a. /\ \A m \in Children(p, n) : Par(p, m) = n
      /\ \A m \in 2 .. Len(p) : Par(p, m) \in 1 .. m - 1 /\ m \in Children(p, Par(p, m))
  BY OneParent
<1>b. /\ End(p, n) \in n .. Len(p)
      /\ \A m \in n + 1 .. End(p, n) : Par(p, m) >= n
      /\ End(p, n) < Len(p) => Par(p, End(p, n) + 1) < n
  BY EndFacts
<1>1. ASSUME NEW m \in Children(p, n)
      PROVE  m <= End(p, n)
  <2> SUFFICES ASSUME End(p, n) < m PROVE FALSE
    BY <1>0, <1>b
  <2> DEFINE x == End(p, n) + 1
             q == Par(p, x)
  <2>1. x \in 2 .. Len(p) /\ x \in n + 1 .. m
    BY <1>0, <1>b
  <2>2. q \in 1 .. x - 1 /\ x \in Children(p, q) /\ q < n
    <3>1. q \in 1 .. x - 1 /\ x \in Children(p, q)
      BY <1>a, <2>1
    <3>2. End(p, n) < Len(p)
      BY <1>0, <1>b, <2>1
    <3>3. q < n
      BY <1>b, <3>2
    <3> QED BY <3>1, <3>3
  <2> HIDE DEF x, q
  <2>3. n \in q + 1 .. x - 1 /\ q \in 1 .. Len(p)
    BY <2>1, <2>2
  <2>4. m < x
    BY <2>2, <2>3, NoCrossing
  <2> QED BY <1>0, <2>1, <2>4
<1>2. ASSUME Len(kids) = 0
      PROVE  End(p, n) = n
  <2> SUFFICES ASSUME End(p, n) # n PROVE FALSE
    OBVIOUS
  <2>1. n + 1 \in n + 1 .. End(p, n) /\ n + 1 \in 2 .. Len(p)
    BY <1>b
  <2>2. Par(p, n + 1) = n /\ n + 1 \in Children(p, n)
    BY <1>a, <1>b, <2>1
  <2> QED BY <1>0, <1>2, <2>2
<1>3. ASSUME Len(kids) > 0
      PROVE  kids[1] = n + 1
  <2>1. kids[1] \in n + 1 .. End(p, n)
    BY <1>0, <1>1, <1>3
  <2>2. n + 1 \in n + 1 .. End(p, n) /\ n + 1 \in 2 .. Len(p)
    BY <1>b, <2>1
  <2>3. Par(p, n + 1) = n /\ n + 1 \in Children(p, n)
    BY <1>a, <1>b, <2>2
  <2>4. PICK j \in 1 .. Len(kids) : kids[j] = n + 1
    BY <1>0, <2>3
  <2>5. j = 1 \/ 1 < j
    OBVIOUS
  <2> QED BY <1>0, <1>3, <2>1, <2>4, <2>5
(* A node within the subtree of n behind that of the i-th child is a child. *)
<1>4. ASSUME NEW i \in 1 .. Len(kids), End(p, kids[i]) + 1 <= End(p, n)
      PROVE  \E j \in 1 .. Len(kids) : kids[j] = End(p, kids[i]) + 1
  <2> DEFINE k == kids[i]
             x == End(p, k) + 1
             q == Par(p, x)
  <2>1. k \in n + 1 .. Len(p) /\ k \in Children(p, n)
    BY <1>0
  <2>2. /\ End(p, k) \in k .. Len(p)
        /\ End(p, k) < Len(p) => Par(p, x) < k
    BY <2>1, EndFacts
  <2>3. x \in n + 1 .. End(p, n) /\ x \in 2 .. Len(p) /\ x > k
    BY <1>4, <1>b, <2>1, <2>2
  <2>4. q \in n .. k - 1 /\ x \in Children(p, q)
    BY <1>a, <1>b, <2>1, <2>2, <2>3
  <2> HIDE DEF k, x, q
  <2>5. q = n
    <3> SUFFICES ASSUME q # n PROVE FALSE
      OBVIOUS
    <3>1. q \in n + 1 .. k - 1
      BY <2>4
    <3>2. x < k
      BY <2>1, <2>4, <3>1, NoCrossing
    <3> QED BY <2>1, <2>3, <3>2
  <2> QED BY <1>0, <2>4, <2>5 DEF x, k
<1>5. ASSUME NEW i \in 1 .. Len(kids)
      PROVE  End(p, kids[i]) \in kids[i] .. Len(p)
  BY <1>0, EndFacts
<1>6. ASSUME NEW i \in 1 .. Len(kids), NEW j \in 1 .. Len(kids), i < j
      PROVE  End(p, kids[i]) < kids[j]
  <2>1. kids[i] < kids[j] /\ Par(p, kids[j]) = n /\ n < kids[i]
    BY <1>0, <1>6, <1>a
  <2>2. ~(kids[j] \in kids[i] + 1 .. End(p, kids[i]))
    <3>1. \A m \in kids[i] + 1 .. End(p, kids[i]) : Par(p, m) >= kids[i]
      BY <1>0, EndFacts
    <3>2. kids[i] \in Nat /\ kids[j] \in Nat /\ n \in Nat
      BY <1>0
    <3> QED BY <2>1, <3>1, <3>2
  <2>3. kids[i] \in Nat /\ kids[j] \in Nat /\ End(p, kids[i]) \in Nat
    BY <1>0, <1>5
  <2> QED BY <2>1, <2>2, <2>3
<1>7. ASSUME Len(kids) > 0
      PROVE  End(p, kids[Len(kids)]) = End(p, n)
  <2> DEFINE k == kids[Len(kids)]
  <2>1. k \in n + 1 .. End(p, n) /\ Len(kids) \in 1 .. Len(kids) /\ End(p, k) \in k .. Len(p)
    BY <1>0, <1>1, <1>5, <1>7
  <2>2. ~(End(p, k) > End(p, n))
    <3> SUFFICES ASSUME End(p, k) > End(p, n) PROVE FALSE
      OBVIOUS
    <3>1. End(p, n) + 1 \in k + 1 .. End(p, k) /\ k \in 1 .. Len(p)
      BY <1>b, <2>1
    <3>2. Par(p, End(p, n) + 1) >= k
      BY <3>1, EndFacts
    <3>3. End(p, n) + 1 \in 2 .. Len(p) /\ End(p, n) < Len(p)
      BY <1>b, <2>1, <3>1
    <3>4. Par(p, End(p, n) + 1) < n /\ Par(p, End(p, n) + 1) \in Nat
      BY <1>a, <1>b, <3>3
    <3>5. k \in Nat /\ n < k
      BY <2>1
    <3> HIDE DEF k
    <3> QED BY <3>2, <3>4, <3>5
  <2>3. ~(End(p, k) + 1 <= End(p, n))
    <3> SUFFICES ASSUME End(p, k) + 1 <= End(p, n) PROVE FALSE
      OBVIOUS
    <3>1. PICK j \in 1 .. Len(kids) : kids[j] = End(p, k) + 1
      BY <1>4, <2>1
    <3>2. j = Len(kids) \/ j < Len(kids)
      BY <1>0
    <3>3. kids[j] = k \/ kids[j] < k
      BY <1>0, <2>1, <3>2
    <3>4. k \in Nat /\ End(p, k) \in Nat /\ k <= End(p, k)
      BY <2>1
    <3> HIDE DEF k
    <3> QED BY <3>1, <3>3, <3>4
  <2> QED BY <1>b, <2>1, <2>2, <2>3
<1>8. ASSUME NEW i \in 1 .. Len(kids) - 1
      PROVE  kids[i + 1] = End(p, kids[i]) + 1
  <2>1. i \in 1 .. Len(kids) /\ i + 1 \in 1 .. Len(kids) /\ i < i + 1
    BY <1>0
  <2>2. End(p, kids[i]) < kids[i + 1] /\ kids[i + 1] <= End(p, n)
        /\ End(p, kids[i]) \in kids[i] .. Len(p) /\ kids[i + 1] \in Nat
    BY <1>0, <1>1, <1>5, <1>6, <2>1
  <2>3. PICK j \in 1 .. Len(kids) : kids[j] = End(p, kids[i]) + 1
    BY <1>4, <1>b, <2>1, <2>2
  <2>4. ~(j <= i)
    <3>1. j < i => kids[j] < kids[i]
      BY <1>0, <2>1
    <3>2. kids[i] \in Nat /\ End(p, kids[i]) \in Nat /\ kids[i] <= End(p, kids[i])
      BY <1>0, <2>1, <2>2
    <3>3. kids[j] > kids[i]
      BY <2>3, <3>2
    <3>4. ~(j < i)
      <4>1. kids[j] \in Nat
        BY <1>0
      <4> QED BY <3>1, <3>2, <3>3, <4>1
    <3>5. j # i
      <4>1. ~(kids[i] > kids[i])
        BY <3>2
      <4> QED BY <3>3, <4>1
    <3> QED BY <3>4, <3>5
  <2>5. ~(i + 1 < j)
    BY <1>0, <2>1, <2>2, <2>3
  <2> QED BY <2>3, <2>4, <2>5
<1> QED BY <1>1, <1>2, <1>3, <1>7, <1>8 DEF kids

LEMMA NestedSubtrees ==
  ASSUME NEW p, IsProgram(p), NEW a \in 1 .. Len(p), NEW m, Inside(p, a, m)
  PROVE  m \in 1 .. Len(p) /\ End(p, m) <= End(p, a) /\ End(p, m) \in m .. Len(p)
<1>0. /\ Len(p) \in Nat /\ m \in a .. End(p, a)
      /\ End(p, a) \in a .. Len(p)
      /\ End(p, a) < Len(p) => Par(p, End(p, a) + 1) < a
  BY ProgramFacts, EndFacts DEF Inside
<1>1. m \in 1 .. Len(p)
  BY <1>0
<1>2. /\ End(p, m) \in m .. Len(p)
      /\ \A k \in m + 1 .. End(p, m) : Par(p, k) >= m
  BY <1>1, EndFacts
<1>3. ~(End(p, a) < End(p, m))
  <2> SUFFICES ASSUME End(p, a) < End(p, m) PROVE FALSE
    OBVIOUS
  <2>1. End(p, a) + 1 \in m + 1 .. End(p, m) /\ End(p, a) + 1 \in 2 .. Len(p)
    BY <1>0, <1>1, <1>2
  <2>2. Par(p, End(p, a) + 1) \in Nat
    BY <2>1, OneParent
  <2> QED BY <1>0, <1>1, <1>2, <2>1, <2>2
<1> QED BY <1>0, <1>1, <1>2, <1>3

(* a is an ancestor of a node other than itself if it is one of its parent's. *)
LEMMA InsideParent ==
  ASSUME NEW p, IsProgram(p), NEW a \in 1 .. Len(p), NEW m \in 2 .. Len(p)
  PROVE  /\ Inside(p, a, m) /\ a # m => Inside(p, a, Par(p, m))
         /\ Inside(p, a, Par(p, m)) => Inside(p, a, m)
<1>0. Len(p) \in Nat /\ Par(p, m) \in 1 .. m - 1 /\ m \in Children(p, Par(p, m))
  BY ProgramFacts, OneParent
<1>1. /\ End(p, a) \in a .. Len(p)
      /\ \A k \in a + 1 .. End(p, a) : Par(p, k) >= a
  BY EndFacts
<1>2. ASSUME Inside(p, a, m), a # m
      PROVE  Inside(p, a, Par(p, m))
  BY <1>0, <1>1, <1>2 DEF Inside
<1>3. ASSUME Inside(p, a, Par(p, m))
      PROVE  Inside(p, a, m)
  <2>1. Par(p, m) \in 1 .. Len(p) /\ End(p, Par(p, m)) <= End(p, a)
    BY <1>3, NestedSubtrees
  <2>2. m <= End(p, Par(p, m)) /\ End(p, Par(p, m)) \in Nat
    BY <1>0, <2>1, KidsTile, EndFacts
  <2> QED BY <1>0, <1>1, <1>3, <2>1, <2>2 DEF Inside
<1> QED BY <1>2, <1>3

LEMMA RootIsAround ==
  ASSUME NEW p, IsProgram(p)
  PROVE  /\ 1 \in 1 .. Len(p) /\ p[1].kind = "program" /\ End(p, 1) = Len(p)
         /\ \A n \in 2 .. Len(p) : p[n].kind # "program"
         /\ \A n \in 1 .. Len(p) : Inside(p, 1, n) /\ Inside(p, n, n)
<1>0. Len(p) \in Nat \ {0} /\ DOMAIN p = 1 .. Len(p) /\ \A n \in DOMAIN p : Arranged(p, n)
  BY ProgramFacts DEF IsProgram
<1>1. \A n \in 1 .. Len(p) : p[n].kind = "program" <=> n = 1
  BY <1>0 DEF Arranged
<1>2. 1 \in 1 .. Len(p) /\ \A n \in 1 .. Len(p) : End(p, n) \in n .. Len(p)
  BY <1>0, EndFacts
<1>3. End(p, 1) = Len(p)
  <2> SUFFICES ASSUME End(p, 1) # Len(p) PROVE FALSE
    OBVIOUS
  <2>1. End(p, 1) < Len(p) /\ End(p, 1) + 1 \in 2 .. Len(p)
    BY <1>0, <1>2
  <2>2. Par(p, End(p, 1) + 1) < 1 /\ Par(p, End(p, 1) + 1) \in Nat \ {0}
    BY <1>2, <2>1, EndFacts, OneParent
  <2> QED BY <2>2
<1> QED BY <1>0, <1>1, <1>2, <1>3 DEF Inside

(* A descendant is below one of the children. *)
LEMMA BelowChild ==
  ASSUME NEW p, IsProgram(p), NEW n \in 1 .. Len(p), NEW m, Inside(p, n, m), m # n
  PROVE  \E k \in Children(p, n) : Inside(p, k, m)
<1> DEFINE kids == p[n].kids
<1>0. /\ Len(p) \in Nat /\ Len(kids) \in Nat
      /\ \A i \in 1 .. Len(kids) : kids[i] \in n + 1 .. Len(p) /\ kids[i] \in Children(p, n)
      /\ m \in n + 1 .. End(p, n) /\ End(p, n) \in n .. Len(p)
  <2>1. Len(p) \in Nat /\ Len(kids) \in Nat
    BY ProgramFacts
  <2>2. \A i \in 1 .. Len(kids) : kids[i] \in Children(p, n)
    BY KidFacts, Zenon
  <2>3. Children(p, n) \subseteq n + 1 .. Len(p)
    BY KidFacts, Zenon
  <2>4. End(p, n) \in n .. Len(p)
    BY EndFacts, Zenon
  <2>5. m \in n + 1 .. End(p, n)
    BY <2>1, <2>4 DEF Inside
  <2> QED BY <2>1, <2>2, <2>3, <2>4, <2>5
<1>1. /\ Len(kids) = 0 => End(p, n) = n
      /\ Len(kids) > 0 => kids[1] = n + 1 /\ End(p, kids[Len(kids)]) = End(p, n)
      /\ \A i \in 1 .. Len(kids) - 1 : kids[i + 1] = End(p, kids[i]) + 1
  BY KidsTile
<1> HIDE DEF kids
<1>2. \A i \in 1 .. Len(kids) : End(p, kids[i]) \in kids[i] .. Len(p)
  BY <1>0, EndFacts
<1> DEFINE S == {i \in 1 .. Len(kids) : kids[i] <= m}
<1>3. PICK i \in S : \A j \in S : j <= i
  <2>1. 1 \in S
    BY <1>0, <1>1
  <2>2. S \subseteq 0 .. Len(kids) /\ S # {}
    BY <1>0, <2>1
  <2> HIDE DEF S
  <2> QED BY <1>0, <2>2, Greatest
<1>4. m <= End(p, kids[i])
  <2>1. CASE i = Len(kids)
    BY <1>0, <1>1, <1>2, <1>3, <2>1
  <2>2. CASE i # Len(kids)
    <3>1. i \in 1 .. Len(kids) - 1 /\ i + 1 \in 1 .. Len(kids) /\ i + 1 \notin S
      BY <1>0, <1>3, <2>2
    <3> QED BY <1>0, <1>1, <1>2, <3>1
  <2> QED BY <2>1, <2>2
<1> QED BY <1>0, <1>3, <1>4 DEF Inside

-------------------------------------------------------------------------------
(* Nodes that have a scope, and the scope that a node is in. *)

LEMMA AroundFacts ==
  ASSUME NEW p, IsProgram(p), NEW n \in 1 .. Len(p)
  PROVE  /\ Around(p, n) \in 1 .. n
         /\ Scoped(p, Around(p, n)) /\ Inside(p, Around(p, n), n)
         /\ \A b \in 1 .. Len(p) : Scoped(p, b) /\ Inside(p, b, n) => b <= Around(p, n)
<1> DEFINE S == {a \in 1 .. Len(p) : Scoped(p, a) /\ Inside(p, a, n)}
<1>1. Len(p) \in Nat /\ 1 \in 1 .. Len(p) /\ Inside(p, 1, n) /\ Scoped(p, 1)
  BY ProgramFacts, RootIsAround DEF Scoped, WithBody
<1>2. PICK a \in S : \A b \in S : b <= a
  <2>1. S # {} /\ S \subseteq 0 .. Len(p)
    BY <1>1
  <2> HIDE DEF S
  <2> QED BY <1>1, <2>1, Greatest
<1>3. \E x \in 1 .. Len(p) : /\ Scoped(p, x) /\ Inside(p, x, n)
                             /\ \A b \in 1 .. Len(p) : Scoped(p, b) /\ Inside(p, b, n) => b <= x
  BY <1>2
<1>4. /\ Around(p, n) \in 1 .. Len(p)
      /\ Scoped(p, Around(p, n)) /\ Inside(p, Around(p, n), n)
      /\ \A b \in 1 .. Len(p) : Scoped(p, b) /\ Inside(p, b, n) => b <= Around(p, n)
  BY <1>3 DEF Around
<1>5. End(p, Around(p, n)) \in Nat
  BY <1>1, <1>4, EndFacts
<1> QED BY <1>1, <1>4, <1>5 DEF Inside

LEMMA AroundSteps ==
  ASSUME NEW p, IsProgram(p), NEW n \in 1 .. Len(p)
  PROVE  /\ Scoped(p, n) => Around(p, n) = n
         /\ ~Scoped(p, n) => n # 1 /\ Around(p, n) = Around(p, Par(p, n))
<1>0. Len(p) \in Nat /\ Inside(p, n, n) /\ Scoped(p, 1)
  BY ProgramFacts, RootIsAround DEF Scoped, WithBody
<1>1. /\ Around(p, n) \in 1 .. n
      /\ Scoped(p, Around(p, n)) /\ Inside(p, Around(p, n), n)
      /\ \A b \in 1 .. Len(p) : Scoped(p, b) /\ Inside(p, b, n) => b <= Around(p, n)
  BY AroundFacts
<1>2. ASSUME Scoped(p, n)
      PROVE  Around(p, n) = n
  BY <1>0, <1>1, <1>2
<1>3. ASSUME ~Scoped(p, n)
      PROVE  n # 1 /\ Around(p, n) = Around(p, Par(p, n))
  <2>1. n \in 2 .. Len(p)
    BY <1>0, <1>3
  <2> DEFINE q == Par(p, n)
  <2>2. q \in 1 .. n - 1 /\ q \in 1 .. Len(p)
    BY <1>0, <2>1, OneParent
  <2>3. \A b \in 1 .. Len(p) : b # n => (Inside(p, b, n) <=> Inside(p, b, q))
    BY <2>1, InsideParent
  <2> HIDE DEF q
  <2>4. /\ Around(p, q) \in 1 .. q
        /\ Scoped(p, Around(p, q)) /\ Inside(p, Around(p, q), q)
        /\ \A b \in 1 .. Len(p) : Scoped(p, b) /\ Inside(p, b, q) => b <= Around(p, q)
    BY <2>2, AroundFacts
  <2>5. Around(p, q) \in 1 .. Len(p) /\ Around(p, q) # n /\ Around(p, n) \in 1 .. Len(p) /\ Around(p, n) # n
    BY <1>0, <1>1, <1>3, <2>2, <2>4
  <2>6. Around(p, n) <= Around(p, q) /\ Around(p, q) <= Around(p, n)
    BY <1>1, <2>3, <2>4, <2>5
  <2> QED BY <2>1, <2>5, <2>6 DEF q
<1> QED BY <1>2, <1>3

(* The functions of the program: everything is in one of them. *)
LEMMA InAFunction ==
  ASSUME NEW p, IsProgram(p), NEW n \in 2 .. Len(p)
  PROVE  /\ \E k \in Children(p, 1) : Inside(p, k, n)
         /\ \A k \in Children(p, 1) : p[k].kind = "fn" /\ k \in 2 .. Len(p)
         /\ Around(p, n) # 1
<1>0. Len(p) \in Nat /\ n \in 1 .. Len(p) /\ Inside(p, 1, n) /\ 1 \in 1 .. Len(p) /\ p[1].kind = "program"
  BY ProgramFacts, RootIsAround
<1>1. PICK k \in Children(p, 1) : Inside(p, k, n)
  BY <1>0, BelowChild
<1>2. ASSUME NEW j \in Children(p, 1)
      PROVE  p[j].kind = "fn" /\ j \in 2 .. Len(p)
  <2>1. PICK i \in 1 .. Len(p[1].kids) : j = p[1].kids[i]
    BY <1>0, KidFacts
  <2>2. p[j].kind = "fn"
    BY <1>0, <2>1, ProgramFacts DEF IsProgram, Arranged
  <2> QED BY <1>0, <2>2, KidFacts
<1>3. k <= Around(p, n)
  <2>1. k \in 1 .. Len(p) /\ Scoped(p, k)
    BY <1>0, <1>1, <1>2 DEF Scoped, WithBody
  <2> QED BY <1>0, <1>1, <2>1, AroundFacts
<1> QED BY <1>1, <1>2, <1>3

-------------------------------------------------------------------------------
(* What is still to be done.  The nodes that an item may yet visit are those  *)
(* from its Lo to its Hi; none when Lo is beyond Hi.  One item begins where   *)
(* the one before ends, except for a block that opens no scope and is never  *)
(* visited itself.                                                         *)

Ats   == {"visit", "exit", "iterator", "leave", "condition", "range", "argument"}
Notes == Nat \cup Types \cup {Null}
Item  == [at : Ats, node : Nat, note : Notes]

Fits(p, it) ==
  /\ it.node \in 2 .. Len(p)
  /\ it.at = "exit" => Scoped(p, it.node)
  /\ it.at \in {"iterator", "range"} => p[it.node].kind = "for"
  /\ it.at = "condition" => p[it.node].kind \in {"if", "while"}
  /\ it.at = "argument" => /\ p[it.node].kind = "call"
                           /\ it.note \in 1 .. Len(p[it.node].kids) + 1

Lo(p, it) ==
  LET kids == p[it.node].kids IN
  CASE it.at \in {"visit", "iterator"} -> it.node
    [] it.at = "condition" -> End(p, kids[1]) + 1
    [] it.at = "range" -> kids[3]
    [] it.at = "argument" /\ it.note <= Len(kids) -> kids[it.note]
    [] OTHER -> End(p, it.node) + 1

Hi(p, it) == IF it.at = "iterator" THEN it.node ELSE End(p, it.node)

(* Where a list of items begins, when lo comes after it. *)
LoOf(p, seq, lo) == IF seq = <<>> THEN lo ELSE Lo(p, seq[1])

Bare(p, m) == p[m].kind = "block" /\ ~Scoped(p, m)

Follows(p, hi, lo) == lo = hi + 1 \/ (lo = hi + 2 /\ Bare(p, hi + 1))

Linked(p, seq, lo) ==
  /\ seq \in Seq(Item)
  /\ \A i \in 1 .. Len(seq) :
       /\ Fits(p, seq[i])
       /\ Follows(p, Hi(p, seq[i]), IF i = Len(seq) THEN lo ELSE Lo(p, seq[i + 1]))

LEMMA LinkedConcat ==
  ASSUME NEW p, NEW a, NEW b, NEW lo, Linked(p, a, LoOf(p, b, lo)), Linked(p, b, lo)
  PROVE  /\ Linked(p, a \o b, lo)
         /\ LoOf(p, a \o b, lo) = LoOf(p, a, LoOf(p, b, lo))
<1> DEFINE c == a \o b
<1>1. a \in Seq(Item) /\ b \in Seq(Item) /\ Len(a) \in Nat /\ Len(b) \in Nat
  BY LenProperties DEF Linked
<1>2. /\ c \in Seq(Item) /\ Len(c) = Len(a) + Len(b)
      /\ \A i \in 1 .. Len(c) : c[i] = IF i <= Len(a) THEN a[i] ELSE b[i - Len(a)]
  BY <1>1, ConcatProperties
<1>3. /\ a = <<>> <=> Len(a) = 0
      /\ b = <<>> <=> Len(b) = 0
      /\ c = <<>> <=> Len(c) = 0
  BY <1>1, <1>2, EmptySeq
<1> HIDE DEF c
<1>4. ASSUME NEW i \in 1 .. Len(c)
      PROVE  /\ Fits(p, c[i])
             /\ Follows(p, Hi(p, c[i]), IF i = Len(c) THEN lo ELSE Lo(p, c[i + 1]))
  <2>1. CASE i < Len(a)
    <3>1. c[i] = a[i] /\ c[i + 1] = a[i + 1] /\ i # Len(c) /\ i \in 1 .. Len(a) /\ i # Len(a)
      BY <1>1, <1>2, <2>1
    <3> QED BY <3>1 DEF Linked
  <2>2. CASE i = Len(a)
    <3>1. i \in 1 .. Len(a) /\ c[i] = a[i]
      BY <1>1, <1>2, <2>2
    <3>2. CASE b = <<>>
      BY <1>1, <1>2, <1>3, <2>2, <3>1, <3>2 DEF Linked, LoOf
    <3>3. CASE b # <<>>
      <4>1. i # Len(c) /\ c[i + 1] = b[1]
        <5>1. Len(b) # 0
          BY <1>3, <3>3
        <5>2. i # Len(c) /\ i + 1 \in 1 .. Len(c) /\ ~(i + 1 <= Len(a)) /\ (i + 1) - Len(a) = 1
          BY <1>1, <1>2, <2>2, <5>1
        <5>3. c[i + 1] = b[(i + 1) - Len(a)]
          BY <1>2, <5>2
        <5> QED BY <5>2, <5>3
      <4> QED BY <2>2, <3>1, <3>3, <4>1 DEF Linked, LoOf
    <3> QED BY <3>2, <3>3
  <2>3. CASE i > Len(a)
    <3> DEFINE j == i - Len(a)
    <3>1. j \in 1 .. Len(b) /\ c[i] = b[j] /\ (i = Len(c) <=> j = Len(b))
      BY <1>1, <1>2, <2>3
    <3>2. i # Len(c) => c[i + 1] = b[j + 1]
      BY <1>1, <1>2, <2>3
    <3> HIDE DEF j
    <3> QED BY <3>1, <3>2 DEF Linked
  <2> QED BY <1>1, <2>1, <2>2, <2>3
<1>5. LoOf(p, c, lo) = LoOf(p, a, LoOf(p, b, lo))
  BY <1>1, <1>2, <1>3 DEF LoOf
<1> QED BY <1>2, <1>4, <1>5 DEF Linked, c

LEMMA LinkedTail ==
  ASSUME NEW p, NEW seq, seq # <<>>, NEW lo, Linked(p, seq, lo)
  PROVE  /\ seq[1] \in Item /\ Fits(p, seq[1])
         /\ Linked(p, Tail(seq), lo)
         /\ Follows(p, Hi(p, seq[1]), LoOf(p, Tail(seq), lo))
<1> DEFINE t == Tail(seq)
<1>1. seq \in Seq(Item) /\ Len(seq) \in Nat \ {0}
  BY EmptySeq DEF Linked
<1>a. t \in Seq(Item) /\ Len(t) = Len(seq) - 1 /\ \A i \in 1 .. Len(t) : t[i] = seq[i + 1]
  BY <1>1, HeadTailProperties
<1>b. t = <<>> <=> Len(t) = 0
  BY <1>a, EmptySeq
<1>2. /\ t \in Seq(Item) /\ Len(t) = Len(seq) - 1 /\ \A i \in 1 .. Len(t) : t[i] = seq[i + 1]
      /\ t = <<>> <=> Len(seq) = 1
  BY <1>1, <1>a, <1>b
<1> HIDE DEF t
<1>3. \A i \in 1 .. Len(seq) :
        /\ Fits(p, seq[i])
        /\ Follows(p, Hi(p, seq[i]), IF i = Len(seq) THEN lo ELSE Lo(p, seq[i + 1]))
  BY DEF Linked
<1>4. ASSUME NEW i \in 1 .. Len(t)
      PROVE  /\ Fits(p, t[i])
             /\ Follows(p, Hi(p, t[i]), IF i = Len(t) THEN lo ELSE Lo(p, t[i + 1]))
  <2> DEFINE j == i + 1
  <2>1. j \in 1 .. Len(seq) /\ t[i] = seq[j] /\ (i = Len(t) <=> j = Len(seq))
    BY <1>1, <1>2
  <2>2. i # Len(t) => t[i + 1] = seq[j + 1]
    BY <1>1, <1>2
  <2> HIDE DEF j
  <2> QED BY <1>3, <2>1, <2>2
<1>5. Follows(p, Hi(p, seq[1]), LoOf(p, t, lo))
  <2>1. 1 \in 1 .. Len(seq)
    BY <1>1
  <2>2. CASE Len(seq) = 1
    BY <1>2, <1>3, <2>1, <2>2 DEF LoOf
  <2>3. CASE Len(seq) # 1
    <3>1. t[1] = seq[1 + 1] /\ t # <<>>
      BY <1>1, <1>2, <2>3
    <3> QED BY <1>3, <2>1, <2>3, <3>1 DEF LoOf
  <2> QED BY <2>2, <2>3
<1>6. seq[1] \in Item /\ Fits(p, seq[1])
  BY <1>1, <1>3, ElementOfSeq
<1> QED BY <1>2, <1>4, <1>5, <1>6 DEF Linked, t

(* One item, and visits of nodes whose subtrees lie behind one another. *)
LEMMA LinkedOne ==
  ASSUME NEW p, NEW it \in Item, Fits(p, it), NEW lo, Follows(p, Hi(p, it), lo)
  PROVE  Linked(p, <<it>>, lo) /\ LoOf(p, <<it>>, lo) = Lo(p, it)
<1>1. <<it>> \in Seq(Item) /\ Len(<<it>>) = 1 /\ <<it>>[1] = it /\ <<it>> # <<>>
  OBVIOUS
<1> QED BY <1>1 DEF Linked, LoOf

Tiles(p, nodes, lo) ==
  /\ nodes \in Seq(Nat)
  /\ \A i \in 1 .. Len(nodes) :
       /\ nodes[i] \in 2 .. Len(p)
       /\ Follows(p, End(p, nodes[i]), IF i = Len(nodes) THEN lo ELSE nodes[i + 1])

LEMMA LinkedVisits ==
  ASSUME NEW p, NEW nodes, NEW lo, Tiles(p, nodes, lo)
  PROVE  /\ Linked(p, Visits(nodes), lo)
         /\ LoOf(p, Visits(nodes), lo) = IF nodes = <<>> THEN lo ELSE nodes[1]
         /\ Visits(nodes) \in Seq(Item) /\ Len(Visits(nodes)) = Len(nodes)
         /\ \A i \in 1 .. Len(nodes) : Visits(nodes)[i] = Visit(nodes[i])
<1> DEFINE v == Visits(nodes)
<1>1. nodes \in Seq(Nat) /\ Len(nodes) \in Nat /\ DOMAIN nodes = 1 .. Len(nodes)
  BY LenProperties DEF Tiles
<1>2. \A n \in Nat : /\ Visit(n) \in Item /\ Visit(n).at = "visit" /\ Visit(n).node = n
  BY DEF Visit, Item, Ats, Notes
<1>3. v = [i \in 1 .. Len(nodes) |-> Visit(nodes[i])]
  BY <1>1 DEF Visits
<1>4. \A i \in 1 .. Len(nodes) : nodes[i] \in Nat
  BY <1>1, ElementOfSeq
<1>5. /\ v \in Seq(Item) /\ Len(v) = Len(nodes)
      /\ \A i \in 1 .. Len(nodes) : v[i] = Visit(nodes[i])
  BY <1>1, <1>2, <1>3, <1>4
<1>6. (v = <<>> <=> Len(v) = 0) /\ (nodes = <<>> <=> Len(nodes) = 0)
  BY <1>1, <1>5, EmptySeq
<1> HIDE DEF v
<1>7. \A i \in 1 .. Len(nodes) : Fits(p, v[i]) /\ Lo(p, v[i]) = nodes[i] /\ Hi(p, v[i]) = End(p, nodes[i])
  BY <1>2, <1>4, <1>5 DEF Fits, Lo, Hi, Tiles
<1>8. Linked(p, v, lo)
  <2> SUFFICES ASSUME NEW i \in 1 .. Len(v)
               PROVE  /\ Fits(p, v[i])
                      /\ Follows(p, Hi(p, v[i]), IF i = Len(v) THEN lo ELSE Lo(p, v[i + 1]))
    BY <1>5 DEF Linked
  <2>a. Len(v) = Len(nodes) /\ Len(nodes) \in Nat /\ i \in 1 .. Len(nodes)
    BY <1>1, <1>5
  <2>1. i # Len(v) => i + 1 \in 1 .. Len(nodes)
    BY <2>a
  <2> QED BY <2>a, <1>7, <2>1 DEF Tiles
<1>9. LoOf(p, v, lo) = IF nodes = <<>> THEN lo ELSE nodes[1]
  BY <1>1, <1>5, <1>6, <1>7 DEF LoOf
<1> QED BY <1>5, <1>8, <1>9 DEF v

(* The children of a node, all or some of them. *)
LEMMA KidsLinked ==
  ASSUME NEW p, IsProgram(p), NEW n \in 1 .. Len(p), NEW lo, Follows(p, End(p, n), lo)
  PROVE  LET v == Visits(p[n].kids)
         IN /\ Linked(p, v, lo) /\ Follows(p, n, LoOf(p, v, lo))
            /\ LoOf(p, v, lo) = IF End(p, n) = n THEN lo ELSE n + 1
<1> DEFINE kids == p[n].kids
<1>0. /\ Len(p) \in Nat /\ Len(kids) \in Nat /\ kids \in Seq(Nat)
      /\ \A i \in 1 .. Len(kids) : kids[i] \in 2 .. Len(p) /\ End(p, kids[i]) \in Nat
  <2>1. \A i \in 1 .. Len(kids) : kids[i] \in 2 .. Len(p) /\ End(p, kids[i]) \in Nat
    BY KidNodes, Zenon
  <2> QED BY <2>1, ProgramFacts
<1>1. /\ Len(kids) = 0 => End(p, n) = n
      /\ Len(kids) > 0 => kids[1] = n + 1 /\ End(p, kids[Len(kids)]) = End(p, n)
      /\ \A i \in 1 .. Len(kids) - 1 : kids[i + 1] = End(p, kids[i]) + 1
  BY KidsTile
<1> HIDE DEF kids
<1>2. Tiles(p, kids, lo)
  <2> SUFFICES ASSUME NEW i \in 1 .. Len(kids)
               PROVE  Follows(p, End(p, kids[i]), IF i = Len(kids) THEN lo ELSE kids[i + 1])
    BY <1>0 DEF Tiles
  <2>1. CASE i = Len(kids)
    BY <1>0, <1>1, <2>1
  <2>2. CASE i # Len(kids)
    BY <1>0, <1>1, <2>2 DEF Follows
  <2> QED BY <2>1, <2>2
<1>3. /\ Linked(p, Visits(kids), lo)
      /\ LoOf(p, Visits(kids), lo) = IF kids = <<>> THEN lo ELSE kids[1]
  BY <1>2, LinkedVisits
<1>4. Follows(p, n, LoOf(p, Visits(kids), lo))
  <2>1. CASE kids = <<>>
    BY <1>0, <1>1, <1>3, <2>1, EmptySeq
  <2>2. CASE kids # <<>>
    BY <1>0, <1>1, <1>3, <2>2, EmptySeq DEF Follows
  <2> QED BY <2>1, <2>2
<1>5. kids = <<>> => End(p, n) = n
  BY <1>0, <1>1, EmptySeq
<1>6. kids # <<>> => kids[1] = n + 1 /\ End(p, n) # n
  <2> SUFFICES ASSUME kids # <<>> PROVE kids[1] = n + 1 /\ End(p, n) # n
    OBVIOUS
  <2>1. Len(kids) > 0
    BY <1>0, EmptySeq
  <2>2. n + 1 \in Children(p, n) /\ End(p, n) \in Nat
    <3>1. 1 \in 1 .. Len(p[n].kids)
      BY <1>0, <2>1 DEF kids
    <3>2. p[n].kids[1] \in Children(p, n)
      BY <3>1, KidFacts, Zenon
    <3>3. End(p, n) \in n .. Len(p)
      BY EndFacts, Zenon
    <3> QED BY <1>0, <1>1, <2>1, <3>2, <3>3 DEF kids
  <2>3. n + 1 <= End(p, n)
    BY <2>2, KidsTile
  <2> QED BY <1>1, <2>1, <2>2, <2>3
<1> QED BY <1>3, <1>4, <1>5, <1>6 DEF kids

LEMMA FrontFacts ==
  ASSUME NEW S, NEW s \in Seq(S), Len(s) > 0
  PROVE  /\ Front(s) \in Seq(S) /\ Len(Front(s)) = Len(s) - 1
         /\ \A i \in 1 .. Len(s) - 1 : Front(s)[i] = s[i]
         /\ Front(s) = <<>> <=> Len(s) = 1
<1> DEFINE n == Len(s) - 1
           front == SubSeq(s, 1, n)
<1>1. n \in Nat /\ n \in Int /\ Len(s) = n + 1
  BY LenProperties
<1>2. \A i \in 1 .. n : s[i] \in S
  BY <1>1, ElementOfSeq
<1> HIDE DEF n
<1>3. /\ front \in Seq(S)
      /\ Len(front) = IF 1 <= n THEN n - 1 + 1 ELSE 0
      /\ \A i \in 1 .. n - 1 + 1 : front[i] = s[1 + i - 1]
  BY <1>1, <1>2, SubSeqProperties
<1> HIDE DEF front
<1>4. Len(front) = n /\ n - 1 + 1 = n /\ \A i \in 1 .. n : 1 + i - 1 = i
  BY <1>1, <1>3
<1>5. /\ \A i \in 1 .. n : front[i] = s[i]
      /\ front = <<>> <=> Len(front) = 0
  BY <1>3, <1>4, EmptySeq
<1>6. Front(s) = front
  BY DEF Front, front, n
<1>7. Len(s) - 1 = n /\ (n = 0 <=> Len(s) = 1)
  BY <1>1
<1> QED BY <1>3, <1>4, <1>5, <1>6, <1>7

LEMMA TailFacts ==
  ASSUME NEW S, NEW s \in Seq(S), Len(s) > 0
  PROVE  /\ Tail(s) \in Seq(S) /\ Len(Tail(s)) = Len(s) - 1
         /\ \A i \in 1 .. Len(s) - 1 : Tail(s)[i] = s[i + 1]
         /\ Tail(s) = <<>> <=> Len(s) = 1
<1>1. Len(s) \in Nat /\ s # <<>>
  BY LenProperties, EmptySeq
<1>2. /\ Tail(s) \in Seq(S) /\ Len(Tail(s)) = Len(s) - 1
      /\ \A i \in 1 .. Len(s) - 1 : Tail(s)[i] = s[i + 1]
  BY <1>1, HeadTailProperties
<1>3. Tail(s) = <<>> <=> Len(Tail(s)) = 0
  BY <1>2, EmptySeq
<1> QED BY <1>1, <1>2, <1>3

LEMMA FrontLinked ==
  ASSUME NEW p, IsProgram(p), NEW n \in 1 .. Len(p), Len(p[n].kids) > 0, NEW lo,
         Follows(p, Last(p[n].kids) - 1, lo)
  PROVE  LET v == Visits(Front(p[n].kids)) IN Linked(p, v, lo) /\ Follows(p, n, LoOf(p, v, lo))
<1> DEFINE kids == p[n].kids
           front == Front(kids)
<1>0. /\ Len(p) \in Nat /\ Len(kids) \in Nat \ {0} /\ kids \in Seq(Nat)
      /\ \A i \in 1 .. Len(kids) : kids[i] \in 2 .. Len(p) /\ End(p, kids[i]) \in Nat
  <2>1. \A i \in 1 .. Len(kids) : kids[i] \in 2 .. Len(p) /\ End(p, kids[i]) \in Nat
    BY KidNodes, Zenon
  <2> QED BY <2>1, ProgramFacts
<1>1. /\ kids[1] = n + 1
      /\ \A i \in 1 .. Len(kids) - 1 : kids[i + 1] = End(p, kids[i]) + 1
  BY <1>0, KidsTile
<1>a. Follows(p, kids[Len(kids)] - 1, lo)
  BY DEF Last
<1>c. kids \in Seq(Nat) /\ Len(kids) > 0
  BY <1>0
<1>n. Len(kids) \in Nat \ {0}
  BY <1>0
<1>k. \A i \in 1 .. Len(kids) : kids[i] \in 2 .. Len(p) /\ End(p, kids[i]) \in Nat
  BY <1>0
<1> HIDE DEF kids
<1>2. /\ front \in Seq(Nat) /\ Len(front) = Len(kids) - 1
      /\ \A i \in 1 .. Len(kids) - 1 : front[i] = kids[i]
      /\ front = <<>> <=> Len(kids) = 1
  BY <1>c, FrontFacts
<1>b. /\ Len(front) = Len(kids) - 1
      /\ \A i \in 1 .. Len(kids) - 1 : front[i] = kids[i]
      /\ front = <<>> <=> Len(kids) = 1
  BY <1>2
<1> HIDE DEF front
<1>3. Tiles(p, front, lo)
  <2>1. ASSUME NEW i \in 1 .. Len(kids) - 1
        PROVE  front[i] \in 2 .. Len(p) /\ Follows(p, End(p, front[i]), IF i = Len(front) THEN lo ELSE front[i + 1])
    <3>1. i \in 1 .. Len(kids) /\ front[i] = kids[i] /\ kids[i + 1] = End(p, kids[i]) + 1
      BY <1>n, <1>1, <1>b
    <3>2. CASE i = Len(kids) - 1
      <4>1. i + 1 = Len(kids)
        BY <1>n, <3>2
      <4>2. End(p, kids[i]) = kids[Len(kids)] - 1
        BY <1>k, <3>1, <4>1
      <4> QED BY <1>a, <1>b, <1>k, <3>1, <3>2, <4>2
    <3>3. CASE i # Len(kids) - 1
      <4>0. i + 1 \in 1 .. Len(kids) - 1
        BY <1>n, <3>3
      <4>1. front[i + 1] = kids[i + 1]
        BY <1>b, <4>0
      <4> QED BY <1>b, <1>k, <3>1, <3>3, <4>1 DEF Follows
    <3> QED BY <3>2, <3>3
  <2> QED BY <1>2, <2>1 DEF Tiles
<1>4. /\ Linked(p, Visits(front), lo)
      /\ LoOf(p, Visits(front), lo) = IF front = <<>> THEN lo ELSE front[1]
  BY <1>3, LinkedVisits
<1>5. Follows(p, n, LoOf(p, Visits(front), lo))
  <2>1. CASE Len(kids) = 1
    <3>1. kids[Len(kids)] - 1 = n
      BY <1>1, <2>1
    <3> QED BY <1>a, <1>b, <1>4, <2>1, <3>1
  <2>2. CASE Len(kids) # 1
    <3>1. front[1] = n + 1
      BY <1>n, <1>1, <1>b, <2>2
    <3> QED BY <1>b, <1>4, <2>2, <3>1 DEF Follows
  <2> QED BY <2>1, <2>2
<1> QED BY <1>4, <1>5 DEF kids, front

LEMMA TailLinked ==
  ASSUME NEW p, IsProgram(p), NEW n \in 1 .. Len(p), Len(p[n].kids) > 0, NEW lo,
         Follows(p, End(p, n), lo)
  PROVE  LET v == Visits(Tail(p[n].kids))
         IN Linked(p, v, lo) /\ Follows(p, End(p, p[n].kids[1]), LoOf(p, v, lo))
<1> DEFINE kids == p[n].kids
           tail == Tail(kids)
<1>0. /\ Len(p) \in Nat /\ Len(kids) \in Nat \ {0} /\ kids \in Seq(Nat)
      /\ \A i \in 1 .. Len(kids) : kids[i] \in 2 .. Len(p) /\ End(p, kids[i]) \in Nat
  <2>1. \A i \in 1 .. Len(kids) : kids[i] \in 2 .. Len(p) /\ End(p, kids[i]) \in Nat
    BY KidNodes, Zenon
  <2> QED BY <2>1, ProgramFacts
<1>1. /\ End(p, kids[Len(kids)]) = End(p, n)
      /\ \A i \in 1 .. Len(kids) - 1 : kids[i + 1] = End(p, kids[i]) + 1
  BY <1>0, KidsTile
<1>c. kids \in Seq(Nat) /\ Len(kids) > 0
  BY <1>0
<1>n. Len(kids) \in Nat \ {0}
  BY <1>0
<1>k. \A i \in 1 .. Len(kids) : kids[i] \in 2 .. Len(p) /\ End(p, kids[i]) \in Nat
  BY <1>0
<1> HIDE DEF kids
<1>2. /\ tail \in Seq(Nat) /\ Len(tail) = Len(kids) - 1
      /\ \A i \in 1 .. Len(kids) - 1 : tail[i] = kids[i + 1]
      /\ tail = <<>> <=> Len(kids) = 1
  BY <1>c, TailFacts
<1>b. /\ Len(tail) = Len(kids) - 1
      /\ \A i \in 1 .. Len(kids) - 1 : tail[i] = kids[i + 1]
      /\ tail = <<>> <=> Len(kids) = 1
  BY <1>2
<1> HIDE DEF tail
<1>3. Tiles(p, tail, lo)
  <2>1. ASSUME NEW i \in 1 .. Len(kids) - 1
        PROVE  tail[i] \in 2 .. Len(p) /\ Follows(p, End(p, tail[i]), IF i = Len(tail) THEN lo ELSE tail[i + 1])
    <3> DEFINE j == i + 1
    <3>1. j \in 1 .. Len(kids) /\ tail[i] = kids[j] /\ (i = Len(kids) - 1 <=> j = Len(kids))
      BY <1>n, <1>b
    <3>2. CASE i = Len(kids) - 1
      BY <1>1, <1>b, <1>k, <3>1, <3>2
    <3>3. CASE i # Len(kids) - 1
      <4>1. j \in 1 .. Len(kids) - 1 /\ tail[i + 1] = kids[j + 1]
        BY <1>n, <1>b, <3>1, <3>3
      <4> HIDE DEF j
      <4> QED BY <1>1, <1>b, <1>k, <3>1, <3>3, <4>1 DEF Follows
    <3> QED BY <3>2, <3>3
  <2> QED BY <1>2, <2>1 DEF Tiles
<1>4. /\ Linked(p, Visits(tail), lo)
      /\ LoOf(p, Visits(tail), lo) = IF tail = <<>> THEN lo ELSE tail[1]
  BY <1>3, LinkedVisits
<1>5. Follows(p, End(p, kids[1]), LoOf(p, Visits(tail), lo))
  <2>1. CASE Len(kids) = 1
    BY <1>1, <1>b, <1>4, <2>1
  <2>2. CASE Len(kids) # 1
    <3>1. tail[1] = End(p, kids[1]) + 1
      BY <1>n, <1>1, <1>b, <2>2
    <3> QED BY <1>b, <1>4, <2>2, <3>1 DEF Follows
  <2> QED BY <2>1, <2>2
<1> QED BY <1>4, <1>5 DEF kids, tail

(* A block that is a body is bare, so that its place is skipped. *)
LEMMA BareBody ==
  ASSUME NEW p, IsProgram(p), NEW n \in 1 .. Len(p), p[n].kind \in WithBody
  PROVE  LET kids == p[n].kids
             b == Last(kids)
         IN /\ Len(kids) > 0 /\ b \in Children(p, n) /\ b \in n + 1 .. Len(p)
            /\ End(p, b) = End(p, n) /\ Par(p, b) = n
            /\ p[b].kind = "block" => Bare(p, b)
<1> DEFINE kids == p[n].kids
<1>1. Len(kids) > 0 /\ Len(kids) \in Nat
  BY ProgramFacts DEF IsProgram, Arranged, WithBody
<1>2. Last(kids) = kids[Len(kids)] /\ Len(kids) \in 1 .. Len(kids)
  BY <1>1 DEF Last
<1>3. kids[Len(kids)] \in Children(p, n) /\ kids[Len(kids)] \in n + 1 .. Len(p)
  BY <1>2, KidFacts
<1>4. End(p, kids[Len(kids)]) = End(p, n) /\ Par(p, kids[Len(kids)]) = n
  BY <1>1, <1>3, KidsTile, OneParent
<1>5. p[Last(kids)].kind = "block" => Bare(p, Last(kids))
  BY <1>2, <1>4 DEF Bare, Scoped, WithBody
<1> QED BY <1>1, <1>2, <1>3, <1>4, <1>5

BodyOf(p, n) ==
  LET b == Last(p[n].kids)
  IN IF p[b].kind = "block" THEN Visits(p[b].kids) ELSE <<Visit(b)>>

LEMMA BodyLinked ==
  ASSUME NEW p, IsProgram(p), NEW n \in 1 .. Len(p), p[n].kind \in WithBody
  PROVE  LET lo == End(p, n) + 1
         IN /\ Linked(p, BodyOf(p, n), lo)
            /\ Follows(p, Last(p[n].kids) - 1, LoOf(p, BodyOf(p, n), lo))
<1> DEFINE b == Last(p[n].kids)
           lo == End(p, n) + 1
<1>1. b \in 2 .. Len(p) /\ b \in 1 .. Len(p) /\ End(p, b) = End(p, n) /\ (p[b].kind = "block" => Bare(p, b))
      /\ End(p, n) \in Nat /\ Len(p) \in Nat
  BY BareBody, ProgramFacts, EndFacts
<1> HIDE DEF b
<1>2. Follows(p, End(p, b), lo)
  BY <1>1 DEF Follows
<1>3. CASE p[b].kind = "block"
  <2>1. Linked(p, Visits(p[b].kids), lo) /\ Follows(p, b, LoOf(p, Visits(p[b].kids), lo))
    BY <1>1, <1>2, KidsLinked
  <2>2. LoOf(p, Visits(p[b].kids), lo) = b + 1
    BY <1>1, <1>2, KidsLinked
  <2>3. b + 1 = (b - 1) + 2 /\ (b - 1) + 1 = b
    BY <1>1
  <2> QED BY <1>1, <1>3, <2>1, <2>2, <2>3 DEF BodyOf, Follows, b
<1>4. CASE p[b].kind # "block"
  <2>1. Visit(b) \in Item /\ Fits(p, Visit(b)) /\ Hi(p, Visit(b)) = End(p, b) /\ Lo(p, Visit(b)) = b
    BY <1>1 DEF Visit, Item, Ats, Notes, Fits, Hi, Lo
  <2>2. Linked(p, <<Visit(b)>>, lo) /\ LoOf(p, <<Visit(b)>>, lo) = b
    BY <1>2, <2>1, LinkedOne
  <2>3. b = (b - 1) + 1
    BY <1>1
  <2> QED BY <1>4, <2>2, <2>3 DEF BodyOf, Follows, b
<1> QED BY <1>3, <1>4

-------------------------------------------------------------------------------
(* Where the items of name resolution take place: the node whose scope is the *)
(* current one before an item, and the one after it.                       *)

Home(p, it) == IF it.at = "visit" THEN Around(p, Par(p, it.node)) ELSE it.node
Left(p, it) == IF it.at = "iterator" THEN it.node ELSE Around(p, Par(p, it.node))

HomeIn(p, seq, home) == IF seq = <<>> THEN home ELSE Home(p, seq[1])

Walks(p, it) == /\ it.at \in {"visit", "exit", "iterator"}
                /\ it.at = "visit" => ~Bare(p, it.node)

Homed(p, seq, home) ==
  /\ seq \in Seq(Item)
  /\ \A i \in 1 .. Len(seq) :
       /\ Walks(p, seq[i])
       /\ Left(p, seq[i]) = IF i = Len(seq) THEN home ELSE Home(p, seq[i + 1])

LEMMA HomedConcat ==
  ASSUME NEW p, NEW a, NEW b, NEW home, Homed(p, a, HomeIn(p, b, home)), Homed(p, b, home)
  PROVE  /\ Homed(p, a \o b, home)
         /\ HomeIn(p, a \o b, home) = HomeIn(p, a, HomeIn(p, b, home))
<1> DEFINE c == a \o b
<1>1. a \in Seq(Item) /\ b \in Seq(Item) /\ Len(a) \in Nat /\ Len(b) \in Nat
  BY LenProperties DEF Homed
<1>2. /\ c \in Seq(Item) /\ Len(c) = Len(a) + Len(b)
      /\ \A i \in 1 .. Len(c) : c[i] = IF i <= Len(a) THEN a[i] ELSE b[i - Len(a)]
  BY <1>1, ConcatProperties
<1>3. /\ a = <<>> <=> Len(a) = 0
      /\ b = <<>> <=> Len(b) = 0
      /\ c = <<>> <=> Len(c) = 0
  BY <1>1, <1>2, EmptySeq
<1> HIDE DEF c
<1>4. ASSUME NEW i \in 1 .. Len(c)
      PROVE  /\ Walks(p, c[i])
             /\ Left(p, c[i]) = IF i = Len(c) THEN home ELSE Home(p, c[i + 1])
  <2>1. CASE i < Len(a)
    <3>1. c[i] = a[i] /\ c[i + 1] = a[i + 1] /\ i # Len(c) /\ i \in 1 .. Len(a) /\ i # Len(a)
      BY <1>1, <1>2, <2>1
    <3> QED BY <3>1 DEF Homed
  <2>2. CASE i = Len(a)
    <3>1. i \in 1 .. Len(a) /\ c[i] = a[i]
      BY <1>1, <1>2, <2>2
    <3>2. CASE b = <<>>
      BY <1>1, <1>2, <1>3, <2>2, <3>1, <3>2 DEF Homed, HomeIn
    <3>3. CASE b # <<>>
      <4>1. i # Len(c) /\ c[i + 1] = b[1]
        <5>1. Len(b) # 0
          BY <1>3, <3>3
        <5>2. i # Len(c) /\ i + 1 \in 1 .. Len(c) /\ ~(i + 1 <= Len(a)) /\ (i + 1) - Len(a) = 1
          BY <1>1, <1>2, <2>2, <5>1
        <5>3. c[i + 1] = b[(i + 1) - Len(a)]
          BY <1>2, <5>2
        <5> QED BY <5>2, <5>3
      <4> QED BY <2>2, <3>1, <3>3, <4>1 DEF Homed, HomeIn
    <3> QED BY <3>2, <3>3
  <2>3. CASE i > Len(a)
    <3> DEFINE j == i - Len(a)
    <3>1. j \in 1 .. Len(b) /\ c[i] = b[j] /\ (i = Len(c) <=> j = Len(b))
      BY <1>1, <1>2, <2>3
    <3>2. i # Len(c) => c[i + 1] = b[j + 1]
      BY <1>1, <1>2, <2>3
    <3> HIDE DEF j
    <3> QED BY <3>1, <3>2 DEF Homed
  <2> QED BY <1>1, <2>1, <2>2, <2>3
<1>5. HomeIn(p, c, home) = HomeIn(p, a, HomeIn(p, b, home))
  BY <1>1, <1>2, <1>3 DEF HomeIn
<1> QED BY <1>2, <1>4, <1>5 DEF Homed, c

LEMMA HomedTail ==
  ASSUME NEW p, NEW seq, seq # <<>>, NEW home, Homed(p, seq, home)
  PROVE  /\ Walks(p, seq[1])
         /\ Homed(p, Tail(seq), home)
         /\ Left(p, seq[1]) = HomeIn(p, Tail(seq), home)
<1> DEFINE t == Tail(seq)
<1>1. seq \in Seq(Item) /\ Len(seq) \in Nat \ {0}
  BY EmptySeq DEF Homed
<1>a. t \in Seq(Item) /\ Len(t) = Len(seq) - 1 /\ \A i \in 1 .. Len(t) : t[i] = seq[i + 1]
  BY <1>1, HeadTailProperties
<1>b. t = <<>> <=> Len(t) = 0
  BY <1>a, EmptySeq
<1>2. /\ t \in Seq(Item) /\ Len(t) = Len(seq) - 1 /\ \A i \in 1 .. Len(t) : t[i] = seq[i + 1]
      /\ t = <<>> <=> Len(seq) = 1
  BY <1>1, <1>a, <1>b
<1> HIDE DEF t
<1>3. \A i \in 1 .. Len(seq) :
        /\ Walks(p, seq[i])
        /\ Left(p, seq[i]) = IF i = Len(seq) THEN home ELSE Home(p, seq[i + 1])
  BY DEF Homed
<1>4. ASSUME NEW i \in 1 .. Len(t)
      PROVE  /\ Walks(p, t[i])
             /\ Left(p, t[i]) = IF i = Len(t) THEN home ELSE Home(p, t[i + 1])
  <2> DEFINE j == i + 1
  <2>1. j \in 1 .. Len(seq) /\ t[i] = seq[j] /\ (i = Len(t) <=> j = Len(seq))
    BY <1>1, <1>2
  <2>2. i # Len(t) => t[i + 1] = seq[j + 1]
    BY <1>1, <1>2
  <2> HIDE DEF j
  <2> QED BY <1>3, <2>1, <2>2
<1>5. Left(p, seq[1]) = HomeIn(p, t, home)
  <2>1. 1 \in 1 .. Len(seq)
    BY <1>1
  <2>2. CASE Len(seq) = 1
    BY <1>2, <1>3, <2>1, <2>2 DEF HomeIn
  <2>3. CASE Len(seq) # 1
    <3>1. t[1] = seq[1 + 1] /\ t # <<>>
      BY <1>1, <1>2, <2>3
    <3> QED BY <1>3, <2>1, <2>3, <3>1 DEF HomeIn
  <2> QED BY <2>2, <2>3
<1>6. Walks(p, seq[1])
  BY <1>1, <1>3
<1> QED BY <1>2, <1>4, <1>5, <1>6 DEF Homed, t

LEMMA HomedOne ==
  ASSUME NEW p, NEW it \in Item, Walks(p, it)
  PROVE  Homed(p, <<it>>, Left(p, it)) /\ \A home : HomeIn(p, <<it>>, home) = Home(p, it)
<1>1. <<it>> \in Seq(Item) /\ Len(<<it>>) = 1 /\ <<it>>[1] = it /\ <<it>> # <<>>
  OBVIOUS
<1> QED BY <1>1 DEF Homed, HomeIn

(* Nodes that are all in one scope. *)
LEMMA HomedVisits ==
  ASSUME NEW p, NEW nodes \in Seq(Nat), NEW home,
         \A i \in 1 .. Len(nodes) : ~Bare(p, nodes[i]) /\ Around(p, Par(p, nodes[i])) = home
  PROVE  Homed(p, Visits(nodes), home) /\ HomeIn(p, Visits(nodes), home) = home
<1> DEFINE v == Visits(nodes)
<1>1. Len(nodes) \in Nat /\ DOMAIN nodes = 1 .. Len(nodes)
  BY LenProperties
<1>2. \A n \in Nat : /\ Visit(n) \in Item /\ Visit(n).at = "visit" /\ Visit(n).node = n
  BY DEF Visit, Item, Ats, Notes
<1>3. v = [i \in 1 .. Len(nodes) |-> Visit(nodes[i])]
  BY <1>1 DEF Visits
<1>4. \A i \in 1 .. Len(nodes) : nodes[i] \in Nat
  BY ElementOfSeq
<1>5. /\ v \in Seq(Item) /\ Len(v) = Len(nodes)
      /\ \A i \in 1 .. Len(nodes) : v[i] = Visit(nodes[i])
  BY <1>1, <1>2, <1>3, <1>4
<1>6. v = <<>> <=> Len(v) = 0
  BY <1>5, EmptySeq
<1> HIDE DEF v
<1>7. \A i \in 1 .. Len(nodes) : Walks(p, v[i]) /\ Left(p, v[i]) = home /\ Home(p, v[i]) = home
  BY <1>2, <1>4, <1>5 DEF Walks, Left, Home
<1>8. \A n \in Nat : \A i \in 1 .. n : i # n => i + 1 \in 1 .. n
  OBVIOUS
<1>9. Homed(p, v, home)
  <2>1. \A i \in 1 .. Len(nodes) : i # Len(nodes) => i + 1 \in 1 .. Len(nodes)
    BY <1>1, <1>8, Zenon
  <2> QED BY <1>5, <1>7, <2>1 DEF Homed
<1>10. HomeIn(p, v, home) = home
  BY <1>1, <1>5, <1>6, <1>7 DEF HomeIn
<1> QED BY <1>9, <1>10 DEF v

(* Where the children of a node are. *)
LEMMA KidsHomed ==
  ASSUME NEW p, IsProgram(p), NEW n \in 1 .. Len(p), p[n].kind \notin WithBody
  PROVE  LET v == Visits(p[n].kids)
         IN Homed(p, v, Around(p, n)) /\ HomeIn(p, v, Around(p, n)) = Around(p, n)
<1> DEFINE kids == p[n].kids
<1>1. kids \in Seq(Nat) /\ \A i \in 1 .. Len(kids) : Par(p, kids[i]) = n
  BY ProgramFacts, KidFacts, OneParent
<1>2. \A i \in 1 .. Len(kids) : ~Bare(p, kids[i]) /\ Around(p, Par(p, kids[i])) = Around(p, n)
  BY <1>1 DEF Bare, Scoped
<1> HIDE DEF kids
<1>3. Homed(p, Visits(kids), Around(p, n)) /\ HomeIn(p, Visits(kids), Around(p, n)) = Around(p, n)
  BY <1>1, <1>2, HomedVisits
<1> QED BY <1>3 DEF kids

LEMMA FrontHomed ==
  ASSUME NEW p, IsProgram(p), NEW n \in 1 .. Len(p), p[n].kind \in WithBody
  PROVE  LET v == Visits(Front(p[n].kids)) IN Homed(p, v, n) /\ HomeIn(p, v, n) = n
<1> DEFINE kids == p[n].kids
           front == Front(kids)
<1>1. kids \in Seq(Nat) /\ Len(kids) \in Nat /\ \A i \in 1 .. Len(kids) : Par(p, kids[i]) = n
  BY ProgramFacts, KidFacts, OneParent
<1>2. Len(kids) > 0 /\ \A i \in 1 .. Len(kids) - 1 : p[kids[i]].kind # "block"
  <2>1. Arranged(p, n)
    BY ProgramFacts DEF IsProgram
  <2>2. CASE p[n].kind = "fn"
    BY <2>1, <2>2 DEF Arranged
  <2>3. CASE p[n].kind = "for"
    <3>1. Len(kids) = 3 /\ p[kids[1]].kind \in Expressions /\ p[kids[2]].kind \in Expressions
      BY <2>1, <2>3 DEF Arranged
    <3>2. \A i \in 1 .. Len(kids) - 1 : i = 1 \/ i = 2
      BY <3>1
    <3> QED BY <3>1, <3>2 DEF Expressions
  <2>4. CASE p[n].kind = "while"
    <3>1. Len(kids) = 2 /\ p[kids[1]].kind \in Expressions
      BY <2>1, <2>4 DEF Arranged
    <3>2. \A i \in 1 .. Len(kids) - 1 : i = 1
      BY <3>1
    <3> QED BY <3>1, <3>2 DEF Expressions
  <2> QED BY <2>2, <2>3, <2>4 DEF WithBody
<1>3. Around(p, n) = n
  BY AroundSteps DEF Scoped
<1>4. \A i \in 1 .. Len(kids) - 1 : ~Bare(p, kids[i]) /\ Around(p, Par(p, kids[i])) = n
  <2>1. \A i \in 1 .. Len(kids) - 1 : i \in 1 .. Len(kids)
    BY <1>1
  <2> QED BY <1>1, <1>2, <1>3, <2>1 DEF Bare
<1> HIDE DEF kids
<1>5. /\ front \in Seq(Nat) /\ Len(front) = Len(kids) - 1
      /\ \A i \in 1 .. Len(kids) - 1 : front[i] = kids[i]
  BY <1>1, <1>2, FrontFacts
<1> HIDE DEF front
<1>6. \A i \in 1 .. Len(front) : ~Bare(p, front[i]) /\ Around(p, Par(p, front[i])) = n
  BY <1>4, <1>5
<1>7. Homed(p, Visits(front), n) /\ HomeIn(p, Visits(front), n) = n
  BY <1>5, <1>6, HomedVisits
<1> QED BY <1>7 DEF kids, front

LEMMA BodyHomed ==
  ASSUME NEW p, IsProgram(p), NEW n \in 1 .. Len(p), p[n].kind \in WithBody
  PROVE  Homed(p, BodyOf(p, n), n) /\ HomeIn(p, BodyOf(p, n), n) = n
<1> DEFINE b == Last(p[n].kids)
<1>1. b \in 1 .. Len(p) /\ b \in Nat /\ Par(p, b) = n /\ (p[b].kind = "block" => Bare(p, b)) /\ Around(p, n) = n
  BY BareBody, ProgramFacts, AroundSteps DEF Scoped
<1> HIDE DEF b
<1>2. CASE p[b].kind = "block"
  <2>1. Around(p, b) = n
    BY <1>1, <1>2, AroundSteps DEF Bare
  <2> QED BY <1>1, <1>2, <2>1, KidsHomed DEF WithBody, BodyOf, b
<1>3. CASE p[b].kind # "block"
  <2>1. /\ Visit(b) \in Item /\ Walks(p, Visit(b))
        /\ Left(p, Visit(b)) = n /\ Home(p, Visit(b)) = n
    BY <1>1, <1>3 DEF Visit, Item, Ats, Notes, Walks, Bare, Left, Home
  <2> QED BY <1>3, <2>1, HomedOne DEF BodyOf, b
<1> QED BY <1>2, <1>3

(* What name resolution does inside a node that has a scope. *)
One(at, n, note) == <<[at |-> at, node |-> n, note |-> note]>>

ScopeItems(p, n) ==
  CASE p[n].kind = "fn" -> Visits(Front(p[n].kids)) \o BodyOf(p, n) \o One("exit", n, 0)
    [] p[n].kind = "for" -> One("iterator", n, 0) \o Visits(Front(p[n].kids))
                            \o BodyOf(p, n) \o One("exit", n, 0)
    [] p[n].kind = "while" -> Visits(Front(p[n].kids)) \o BodyOf(p, n) \o One("exit", n, 0)
    [] OTHER -> Visits(p[n].kids) \o One("exit", n, 0)

LEMMA ExitItem ==
  ASSUME NEW p, IsProgram(p), NEW n \in 2 .. Len(p), Scoped(p, n), NEW lo, Follows(p, End(p, n), lo)
  PROVE  LET e == One("exit", n, 0)
         IN /\ Linked(p, e, lo) /\ LoOf(p, e, lo) = End(p, n) + 1
            /\ Homed(p, e, Around(p, Par(p, n))) /\ HomeIn(p, e, Around(p, Par(p, n))) = n
<1> DEFINE it == [at |-> "exit", node |-> n, note |-> 0]
<1>1. /\ it \in Item /\ Fits(p, it) /\ Hi(p, it) = End(p, n) /\ Lo(p, it) = End(p, n) + 1
      /\ Walks(p, it) /\ Left(p, it) = Around(p, Par(p, n)) /\ Home(p, it) = n
  BY DEF Item, Ats, Notes, Fits, Hi, Lo, Walks, Left, Home
<1>2. One("exit", n, 0) = <<it>>
  BY DEF One
<1> HIDE DEF it
<1> QED BY <1>1, <1>2, LinkedOne, HomedOne

LEMMA ConcatFirst ==
  ASSUME NEW S, NEW a \in Seq(S), NEW b \in Seq(S)
  PROVE  /\ a # <<>> => a \o b # <<>> /\ (a \o b)[1] = a[1]
         /\ b # <<>> => a \o b # <<>>
<1>1. /\ Len(a) \in Nat /\ Len(b) \in Nat /\ a \o b \in Seq(S) /\ Len(a \o b) = Len(a) + Len(b)
      /\ \A i \in 1 .. Len(a) + Len(b) : (a \o b)[i] = IF i <= Len(a) THEN a[i] ELSE b[i - Len(a)]
  BY ConcatProperties
<1>2. /\ a = <<>> <=> Len(a) = 0
      /\ b = <<>> <=> Len(b) = 0
      /\ a \o b = <<>> <=> Len(a \o b) = 0
  BY <1>1, EmptySeq
<1> DEFINE c == a \o b
<1> HIDE DEF c
<1>3. /\ Len(a) \in Nat /\ Len(b) \in Nat /\ Len(c) = Len(a) + Len(b)
      /\ \A i \in 1 .. Len(a) + Len(b) : c[i] = IF i <= Len(a) THEN a[i] ELSE b[i - Len(a)]
      /\ c = <<>> <=> Len(c) = 0
  BY <1>1, <1>2 DEF c
<1> QED BY <1>2, <1>3 DEF c

LEMMA ScopeItemsFit ==
  ASSUME NEW p, IsProgram(p), NEW n \in 2 .. Len(p), Scoped(p, n), NEW lo, Follows(p, End(p, n), lo)
  PROVE  LET v == ScopeItems(p, n)
         IN /\ Linked(p, v, lo)
            /\ IF p[n].kind = "for" THEN v # <<>> /\ v[1].at = "iterator" /\ LoOf(p, v, lo) = n
               ELSE Follows(p, n, LoOf(p, v, lo))
            /\ Homed(p, v, Around(p, Par(p, n))) /\ HomeIn(p, v, Around(p, Par(p, n))) = n
<1> DEFINE v == ScopeItems(p, n)
           front == Visits(Front(p[n].kids))
           body == BodyOf(p, n)
           e == One("exit", n, 0)
           out == Around(p, Par(p, n))
<1>0. n \in 1 .. Len(p) /\ Len(p) \in Nat
  BY ProgramFacts
<1>1. /\ Linked(p, e, lo) /\ LoOf(p, e, lo) = End(p, n) + 1
      /\ Homed(p, e, out) /\ HomeIn(p, e, out) = n
  BY ExitItem
<1>2. ASSUME p[n].kind \in WithBody
      PROVE  LET lo1 == LoOf(p, body, End(p, n) + 1)
             IN /\ Linked(p, body, End(p, n) + 1)
                /\ Homed(p, body, n) /\ HomeIn(p, body, n) = n
                /\ Linked(p, front, lo1) /\ Follows(p, n, LoOf(p, front, lo1))
                /\ Homed(p, front, n) /\ HomeIn(p, front, n) = n
  <2>1. /\ Linked(p, body, End(p, n) + 1)
        /\ Follows(p, Last(p[n].kids) - 1, LoOf(p, body, End(p, n) + 1))
        /\ Homed(p, body, n) /\ HomeIn(p, body, n) = n
    BY <1>0, <1>2, BodyLinked, BodyHomed
  <2>2. Len(p[n].kids) > 0
    BY <1>0, <1>2, BareBody
  <2> QED BY <1>0, <1>2, <2>1, <2>2, FrontLinked, FrontHomed
<1>3. CASE p[n].kind \in {"fn", "while"}
  <2>1. v = (front \o body) \o e
    BY <1>3 DEF ScopeItems
  <2>2. p[n].kind \in WithBody /\ p[n].kind # "for"
    BY <1>3 DEF WithBody
  <2> HIDE DEF v, front, body, e, out
  <2>3. /\ Linked(p, front \o body, End(p, n) + 1) /\ Follows(p, n, LoOf(p, front \o body, End(p, n) + 1))
        /\ Homed(p, front \o body, n) /\ HomeIn(p, front \o body, n) = n
    BY <1>2, <2>2, LinkedConcat, HomedConcat
  <2>4. /\ Linked(p, (front \o body) \o e, lo) /\ Follows(p, n, LoOf(p, (front \o body) \o e, lo))
        /\ Homed(p, (front \o body) \o e, out) /\ HomeIn(p, (front \o body) \o e, out) = n
    BY <1>1, <2>3, LinkedConcat, HomedConcat
  <2> QED BY <2>1, <2>2, <2>4 DEF v, out
<1>4. CASE p[n].kind = "for"
  <2> DEFINE it == [at |-> "iterator", node |-> n, note |-> 0]
             first == One("iterator", n, 0)
  <2>1. /\ it \in Item /\ Fits(p, it) /\ Hi(p, it) = n /\ Lo(p, it) = n
        /\ Walks(p, it) /\ Left(p, it) = n /\ Home(p, it) = n /\ it.at = "iterator"
    BY <1>4 DEF Item, Ats, Notes, Fits, Hi, Lo, Walks, Left, Home
  <2>2. v = ((first \o front) \o body) \o e
    BY <1>4 DEF ScopeItems
  <2>3. first = <<it>>
    BY DEF One
  <2>4. first # <<>> /\ first[1] = it
    BY <2>3
  <2>5. p[n].kind \in WithBody
    BY <1>4 DEF WithBody
  <2> HIDE DEF v, front, body, e, out, it, first
  <2> DEFINE lo0 == End(p, n) + 1
             lo1 == LoOf(p, body, lo0)
             lo2 == LoOf(p, front, lo1)
  <2>6. /\ Linked(p, first, lo2) /\ LoOf(p, first, lo2) = n
        /\ Homed(p, first, n) /\ HomeIn(p, first, n) = n
    BY <1>2, <2>1, <2>3, <2>5, LinkedOne, HomedOne
  <2>7. /\ Linked(p, first \o front, lo1) /\ LoOf(p, first \o front, lo1) = n
        /\ Homed(p, first \o front, n) /\ HomeIn(p, first \o front, n) = n
    BY <1>2, <2>5, <2>6, LinkedConcat, HomedConcat
  <2>8. /\ Linked(p, (first \o front) \o body, lo0) /\ LoOf(p, (first \o front) \o body, lo0) = n
        /\ Homed(p, (first \o front) \o body, n) /\ HomeIn(p, (first \o front) \o body, n) = n
    BY <1>2, <2>5, <2>7, LinkedConcat, HomedConcat
  <2>9. /\ Linked(p, v, lo) /\ LoOf(p, v, lo) = n
        /\ Homed(p, v, out) /\ HomeIn(p, v, out) = n
    BY <1>1, <2>2, <2>8, LinkedConcat, HomedConcat
  <2>10. v # <<>> /\ v[1] = it
    <3>1. /\ first \in Seq(Item) /\ front \in Seq(Item) /\ body \in Seq(Item) /\ e \in Seq(Item)
          /\ first \o front \in Seq(Item) /\ (first \o front) \o body \in Seq(Item)
      BY <1>1, <1>2, <2>5, <2>6, <2>7, <2>8 DEF Linked
    <3>2. first \o front # <<>> /\ (first \o front)[1] = it
      BY <2>4, <3>1, ConcatFirst
    <3>3. (first \o front) \o body # <<>> /\ ((first \o front) \o body)[1] = it
      BY <3>1, <3>2, ConcatFirst
    <3> QED BY <2>2, <3>1, <3>3, ConcatFirst
  <2> QED BY <1>4, <2>1, <2>9, <2>10 DEF v, out
<1>5. CASE p[n].kind \notin WithBody
  <2>1. v = Visits(p[n].kids) \o e /\ p[n].kind # "for"
    BY <1>5 DEF ScopeItems, WithBody
  <2>2. Around(p, n) = n
    BY <1>0, AroundSteps
  <2>3. Follows(p, End(p, n), End(p, n) + 1)
    BY DEF Follows
  <2> DEFINE kids == Visits(p[n].kids)
  <2>4. /\ Linked(p, kids, End(p, n) + 1) /\ Follows(p, n, LoOf(p, kids, End(p, n) + 1))
        /\ Homed(p, kids, n) /\ HomeIn(p, kids, n) = n
    BY <1>0, <1>5, <2>2, <2>3, KidsLinked, KidsHomed
  <2> HIDE DEF v, e, out, kids
  <2>5. /\ Linked(p, kids \o e, lo) /\ Follows(p, n, LoOf(p, kids \o e, lo))
        /\ Homed(p, kids \o e, out) /\ HomeIn(p, kids \o e, out) = n
    BY <1>1, <2>4, LinkedConcat, HomedConcat
  <2> QED BY <2>1, <2>5 DEF v, out, kids
<1> QED BY <1>3, <1>4, <1>5 DEF WithBody

-------------------------------------------------------------------------------
(* The passes over the functions *)

(* The program consists of functions. *)
LEMMA FunctionsAreKids ==
  ASSUME IsProgram(ast)
  PROVE  Functions = ast[1].kids
<1> DEFINE kids == ast[1].kids
           Step(f, i) == IF i = 0 THEN <<>>
                         ELSE f[i - 1] \o (IF ast[kids[i]].kind = "fn" THEN <<kids[i]>> ELSE <<>>)
           IsUpto(f) == f = [i \in 0 .. Len(kids) |-> Step(f, i)]
           upto == CHOOSE f : IsUpto(f)
           g == [i \in 0 .. Len(kids) |-> SubSeq(kids, 1, i)]
<1>1. Functions = upto[Len(kids)]
  BY DEF Functions, Kids
<1>2. /\ kids \in Seq(Nat) /\ Len(kids) \in Nat
      /\ \A i \in 1 .. Len(kids) : ast[kids[i]].kind = "fn"
  <2>1. \A i \in 1 .. Len(kids) : kids[i] \in Children(ast, 1)
    BY RootIsAround, KidFacts
  <2>2. 1 \in 1 .. Len(ast) /\ Len(ast) \in Nat
    BY RootIsAround, ProgramFacts
  <2>3. \A m \in 2 .. Len(ast) : m \in Children(ast, 1) => ast[m].kind = "fn"
    BY InAFunction
  <2>4. \A i \in 1 .. Len(kids) : kids[i] \in 2 .. Len(ast)
    BY <2>1, <2>2, KidFacts
  <2> QED BY <2>1, <2>2, <2>3, <2>4, ProgramFacts
<1> HIDE DEF kids
<1>3. \A i \in 1 .. Len(kids) : SubSeq(kids, 1, i) = SubSeq(kids, 1, i - 1) \o <<kids[i]>>
  <2> SUFFICES ASSUME NEW i \in 1 .. Len(kids)
               PROVE  SubSeq(kids, 1, i) = SubSeq(kids, 1, i - 1) \o <<kids[i]>>
    OBVIOUS
  <2>1. 1 \in 1 .. Len(kids) /\ i \in 1 .. Len(kids)
    BY <1>2
  <2> QED BY <1>2, <2>1, SubSeqRecursiveSecond
<1>4. SubSeq(kids, 1, 0) = <<>>
  BY SubSeqEmpty
<1>5. \A i \in 1 .. Len(kids) : i - 1 \in 0 .. Len(kids) /\ i \in 0 .. Len(kids) /\ i # 0
  BY <1>2
<1>6. IsUpto(g)
  <2>1. ASSUME NEW i \in 0 .. Len(kids)
        PROVE  g[i] = Step(g, i)
    <3>1. CASE i = 0
      BY <1>2, <1>4, <3>1
    <3>2. CASE i # 0
      <4>1. i \in 1 .. Len(kids)
        BY <1>2, <3>2
      <4>2. g[i] = SubSeq(kids, 1, i) /\ g[i - 1] = SubSeq(kids, 1, i - 1)
        BY <1>5, <4>1
      <4> HIDE DEF g
      <4> QED BY <1>2, <1>3, <3>2, <4>1, <4>2
    <3> QED BY <3>1, <3>2
  <2> QED BY <2>1
<1>7. IsUpto(upto)
  BY <1>6
<1> HIDE DEF upto
<1> DEFINE T == {i \in Nat : i \in 0 .. Len(kids) => upto[i] = SubSeq(kids, 1, i)}
<1>8. \A i \in 0 .. Len(kids) : upto[i] = Step(upto, i)
  BY <1>7
<1>9. 0 \in T
  BY <1>2, <1>4, <1>8
<1>10. ASSUME NEW i \in Nat, i \in T
       PROVE  i + 1 \in T
  <2> SUFFICES ASSUME NEW j \in 1 .. Len(kids), j = i + 1
               PROVE  upto[j] = SubSeq(kids, 1, j)
    BY <1>2
  <2>1. j - 1 = i /\ i \in 0 .. Len(kids) /\ j \in 0 .. Len(kids) /\ j # 0
    BY <1>5
  <2>2. upto[j] = upto[j - 1] \o <<kids[j]>>
    BY <1>2, <1>8, <2>1
  <2> QED BY <1>3, <1>10, <2>1, <2>2
<1>11. Nat \subseteq T
  <2> HIDE DEF T
  <2> QED BY <1>9, <1>10, SetInduction
<1>12. upto[Len(kids)] = SubSeq(kids, 1, Len(kids))
  BY <1>2, <1>11
<1> QED BY <1>1, <1>2, <1>12, SubSeqFull DEF kids

-------------------------------------------------------------------------------
(* The stack of the passes *)

Frontier == LoOf(ast, todo, Len(ast) + 1)
Rest     == LoOf(ast, Tail(todo), Len(ast) + 1)

Flat(seq) == \A i \in 1 .. Len(seq) : seq[i].at = "visit" /\ seq[i].node \in Children(ast, 1)

StackInv ==
  /\ IsProgram(ast)
  /\ pass \in {"collect", "resolve", "sign", "check", "declare", "generate"}
  /\ Linked(ast, todo, Len(ast) + 1)
  /\ pass \in {"collect", "sign", "declare"} => Flat(todo)
  /\ pass = "resolve" => Homed(ast, todo, 1)

LEMMA StackTop ==
  ASSUME StackInv, todo # <<>>
  PROVE  /\ todo \in Seq(Item) /\ Top = todo[1] /\ Top \in Item /\ Fits(ast, Top)
         /\ This \in 2 .. Len(ast) /\ This \in 1 .. Len(ast) /\ This \in DOMAIN ast
         /\ Len(ast) \in Nat /\ End(ast, This) \in This .. Len(ast)
         /\ Linked(ast, Tail(todo), Len(ast) + 1)
         /\ Follows(ast, Hi(ast, Top), Rest)
         /\ Frontier = Lo(ast, Top)
<1>1. Linked(ast, todo, Len(ast) + 1) /\ IsProgram(ast)
  BY DEF StackInv
<1>2. todo \in Seq(Item) /\ Top = todo[1]
  BY <1>1 DEF Linked, Top
<1>3. /\ Top \in Item /\ Fits(ast, Top) /\ Linked(ast, Tail(todo), Len(ast) + 1)
      /\ Follows(ast, Hi(ast, Top), Rest)
  BY <1>1, <1>2, LinkedTail DEF Rest
<1>4. This \in 2 .. Len(ast) /\ Len(ast) \in Nat /\ DOMAIN ast = 1 .. Len(ast)
  BY <1>1, <1>3, ProgramFacts DEF Fits, This
<1>5. End(ast, This) \in This .. Len(ast)
  BY <1>1, <1>4, EndFacts
<1>6. Frontier = Lo(ast, Top)
  BY <1>2 DEF Frontier, LoOf
<1> QED BY <1>2, <1>3, <1>4, <1>5, <1>6

(* Items that fit in front of the rest. *)
LEMMA Continues ==
  ASSUME StackInv, todo # <<>>, NEW items, Continue(items), UNCHANGED ast,
         Linked(ast, items, Rest)
  PROVE  Linked(ast, todo, Len(ast) + 1)' /\ Frontier' = LoOf(ast, items, Rest)
<1>1. Linked(ast, Tail(todo), Len(ast) + 1)
  BY StackTop
<1>2. todo' = items \o Tail(todo)
  BY DEF Continue
<1> QED BY <1>1, <1>2, LinkedConcat DEF Rest, Frontier

LEMMA NoItems == \A lo : Linked(ast, <<>>, lo) /\ LoOf(ast, <<>>, lo) = lo
BY EmptySeq DEF Linked, LoOf

(* A step that is done with its item. *)
LEMMA Finishes ==
  ASSUME StackInv, todo # <<>>, Continue(<<>>), UNCHANGED ast
  PROVE  /\ Linked(ast, todo, Len(ast) + 1)' /\ Frontier' = Rest
         /\ todo' = Tail(todo)
<1>1. Linked(ast, Tail(todo), Len(ast) + 1) /\ Tail(todo) \in Seq(Item)
  BY StackTop DEF Linked
<1>2. todo' = Tail(todo)
  BY <1>1, ConcatEmptySeq DEF Continue
<1> QED BY <1>1, <1>2 DEF Rest, Frontier

(* The same for where name resolution is. *)
LEMMA Walking ==
  ASSUME StackInv, pass = "resolve", todo # <<>>
  PROVE  /\ Walks(ast, Top) /\ Homed(ast, Tail(todo), 1)
         /\ HomeIn(ast, Tail(todo), 1) = Left(ast, Top)
         /\ HomeIn(ast, todo, 1) = Home(ast, Top)
BY StackTop, HomedTail DEF StackInv, HomeIn

LEMMA ContinuesHomed ==
  ASSUME StackInv, pass = "resolve", todo # <<>>, NEW items, Continue(items), UNCHANGED ast,
         Homed(ast, items, Left(ast, Top))
  PROVE  Homed(ast, todo, 1)' /\ HomeIn(ast, todo, 1)' = HomeIn(ast, items, Left(ast, Top))
<1>1. Homed(ast, Tail(todo), 1) /\ HomeIn(ast, Tail(todo), 1) = Left(ast, Top)
  BY Walking
<1>2. todo' = items \o Tail(todo)
  BY DEF Continue
<1> QED BY <1>1, <1>2, HomedConcat

LEMMA FlatTail ==
  ASSUME StackInv, pass \in {"collect", "sign", "declare"}, todo # <<>>, Continue(<<>>),
         UNCHANGED <<ast, pass>>
  PROVE  StackInv' /\ Top.at = "visit" /\ This \in Children(ast, 1)
<1>0. Len(todo) \in Nat /\ todo \in Seq(Item) /\ Top = todo[1] /\ Len(todo) # 0
  BY StackTop, LenProperties, EmptySeq
<1>1. Linked(ast, todo, Len(ast) + 1)' /\ todo' = Tail(todo)
  BY Finishes
<1>2. Len(todo') = Len(todo) - 1 /\ \A i \in 1 .. Len(todo') : todo'[i] = todo[i + 1]
  BY <1>0, <1>1, HeadTailProperties
<1>3. \A i \in 1 .. Len(todo) : todo[i].at = "visit" /\ todo[i].node \in Children(ast, 1)
  BY DEF StackInv, Flat
<1>4. ASSUME NEW i \in 1 .. Len(todo')
      PROVE  todo'[i].at = "visit" /\ todo'[i].node \in Children(ast, 1)
  <2>1. i + 1 \in 1 .. Len(todo)
    BY <1>0, <1>2
  <2> QED BY <1>2, <1>3, <2>1
<1>5. Top.at = "visit" /\ This \in Children(ast, 1)
  BY <1>0, <1>3 DEF This
<1> QED BY <1>1, <1>4, <1>5 DEF StackInv, Flat

-------------------------------------------------------------------------------
(* Name resolution, for its stack *)

LEMMA ThenIsOne == \A at, note : Then(at, note) = One(at, This, note)
BY DEF Then, One, This, Top

LEMMA ResolveScopeStack ==
  ASSUME StackInv, ResolveScope
  PROVE  /\ StackInv' /\ todo # <<>> /\ pass = "resolve"
         /\ Scoped(ast, This) /\ Frontier = This
         /\ IF ast[This].kind = "for"
            THEN todo' # <<>> /\ todo'[1].at = "iterator" /\ Frontier' = This
            ELSE Follows(ast, This, Frontier')
         /\ HomeIn(ast, todo, 1) = Around(ast, Par(ast, This))
         /\ HomeIn(ast, todo, 1)' = This
<1>1. /\ pass = "resolve" /\ todo # <<>> /\ Top.at = "visit"
      /\ ast[This].kind \in {"fn", "for", "while", "block"}
      /\ UNCHANGED <<ast, pass>>
  BY DEF ResolveScope, At, Node, ResolverFrame
<1>2. /\ This \in 2 .. Len(ast) /\ Follows(ast, Hi(ast, Top), Rest) /\ Frontier = Lo(ast, Top)
      /\ IsProgram(ast) /\ Tail(todo) \in Seq(Item)
  BY <1>1, StackTop DEF StackInv, Linked
<1>3. Lo(ast, Top) = This /\ Hi(ast, Top) = End(ast, This)
  BY <1>1 DEF Lo, Hi, This
<1>4. /\ Walks(ast, Top) /\ HomeIn(ast, todo, 1) = Around(ast, Par(ast, This))
      /\ Left(ast, Top) = Around(ast, Par(ast, This))
  BY <1>1, Walking DEF Home, Left, This
<1>5. Scoped(ast, This)
  BY <1>1, <1>4 DEF Walks, Bare, Scoped, WithBody, This
<1> DEFINE v == ScopeItems(ast, This)
<1>6. Continue(v)
  <2>1. v = CASE Node.kind = "fn" -> Visits(Front(Kids(This))) \o Body(This) \o Then("exit", 0)
              [] Node.kind = "for" -> Then("iterator", 0) \o Visits(Front(Kids(This)))
                                      \o Body(This) \o Then("exit", 0)
              [] Node.kind = "while" -> Visits(Front(Kids(This))) \o Body(This) \o Then("exit", 0)
              [] OTHER -> Visits(Kids(This)) \o Then("exit", 0)
    BY ThenIsOne DEF ScopeItems, Body, BodyOf, Kids, Node
  <2> HIDE DEF v
  <2> QED BY <2>1 DEF ResolveScope
<1>7. /\ Linked(ast, v, Rest)
      /\ IF ast[This].kind = "for" THEN v # <<>> /\ v[1].at = "iterator" /\ LoOf(ast, v, Rest) = This
         ELSE Follows(ast, This, LoOf(ast, v, Rest))
      /\ Homed(ast, v, Left(ast, Top)) /\ HomeIn(ast, v, Left(ast, Top)) = This
  BY <1>2, <1>3, <1>4, <1>5, ScopeItemsFit
<1> HIDE DEF v
<1>8. Linked(ast, todo, Len(ast) + 1)' /\ Frontier' = LoOf(ast, v, Rest)
  BY <1>1, <1>6, <1>7, Continues
<1>9. Homed(ast, todo, 1)' /\ HomeIn(ast, todo, 1)' = This
  BY <1>1, <1>6, <1>7, ContinuesHomed
<1>10. v # <<>> => todo' # <<>> /\ todo'[1] = v[1]
  BY <1>2, <1>6, <1>7, ConcatFirst DEF Continue, Linked
<1>11. StackInv'
  BY <1>1, <1>8, <1>9 DEF StackInv
<1> QED BY <1>1, <1>2, <1>3, <1>4, <1>5, <1>7, <1>8, <1>9, <1>10, <1>11

LEMMA ExitScopeStack ==
  ASSUME StackInv, ExitScope
  PROVE  /\ StackInv' /\ todo # <<>> /\ pass = "resolve" /\ Top.at = "exit"
         /\ Scoped(ast, This) /\ Frontier = End(ast, This) + 1
         /\ Follows(ast, End(ast, This), Frontier')
         /\ HomeIn(ast, todo, 1) = This
         /\ HomeIn(ast, todo, 1)' = Around(ast, Par(ast, This))
<1>1. /\ pass = "resolve" /\ todo # <<>> /\ Top.at = "exit"
      /\ UNCHANGED <<ast, pass>> /\ Continue(<<>>)
  BY DEF ExitScope, At, ResolverFrame
<1>2. /\ Fits(ast, Top) /\ Follows(ast, Hi(ast, Top), Rest) /\ Frontier = Lo(ast, Top)
  BY <1>1, StackTop
<1>3. Lo(ast, Top) = End(ast, This) + 1 /\ Hi(ast, Top) = End(ast, This) /\ Scoped(ast, This)
  BY <1>1, <1>2 DEF Lo, Hi, Fits, This
<1>4. /\ Homed(ast, Tail(todo), 1) /\ HomeIn(ast, todo, 1) = This
      /\ HomeIn(ast, Tail(todo), 1) = Around(ast, Par(ast, This))
  BY <1>1, Walking DEF Home, Left, This
<1>5. Linked(ast, todo, Len(ast) + 1)' /\ Frontier' = Rest /\ todo' = Tail(todo)
  BY <1>1, Finishes
<1>6. StackInv'
  BY <1>1, <1>4, <1>5 DEF StackInv
<1> QED BY <1>1, <1>2, <1>3, <1>4, <1>5, <1>6

(* The other items: one node after the other. *)
NextNode ==
  /\ StackInv' /\ todo # <<>> /\ pass = "resolve" /\ UNCHANGED <<ast, pass>>
  /\ Frontier = This /\ Follows(ast, This, Frontier')
  /\ HomeIn(ast, todo, 1)' = HomeIn(ast, todo, 1)
  /\ IF Top.at = "iterator" THEN ast[This].kind = "for" /\ HomeIn(ast, todo, 1) = This
     ELSE HomeIn(ast, todo, 1) = Around(ast, Par(ast, This))

LEMMA VisitKids ==
  ASSUME StackInv, pass = "resolve", todo # <<>>, Top.at = "visit", UNCHANGED <<ast, pass>>,
         ast[This].kind \notin {"program", "fn", "for", "while", "block"},
         Continue(Visits(Kids(This)))
  PROVE  NextNode
<1>1. /\ This \in 2 .. Len(ast) /\ This \in 1 .. Len(ast) /\ Frontier = Lo(ast, Top)
      /\ Follows(ast, Hi(ast, Top), Rest) /\ IsProgram(ast)
  BY StackTop DEF StackInv
<1>2. Lo(ast, Top) = This /\ Hi(ast, Top) = End(ast, This)
  BY DEF Lo, Hi, This
<1>3. /\ HomeIn(ast, todo, 1) = Around(ast, Par(ast, This))
      /\ Left(ast, Top) = Around(ast, Par(ast, This))
  BY Walking DEF Home, Left, This
<1>4. Around(ast, This) = Around(ast, Par(ast, This)) /\ ast[This].kind \notin WithBody
  BY <1>1, AroundSteps DEF Scoped, WithBody
<1> DEFINE v == Visits(ast[This].kids)
<1>5. Linked(ast, v, Rest) /\ Follows(ast, This, LoOf(ast, v, Rest))
  BY <1>1, <1>2, KidsLinked
<1>6. Homed(ast, v, Left(ast, Top)) /\ HomeIn(ast, v, Left(ast, Top)) = Left(ast, Top)
  BY <1>1, <1>3, <1>4, KidsHomed
<1>7. Continue(v)
  BY DEF Kids
<1> HIDE DEF v
<1>8. Linked(ast, todo, Len(ast) + 1)' /\ Frontier' = LoOf(ast, v, Rest)
  BY <1>5, <1>7, Continues
<1>9. Homed(ast, todo, 1)' /\ HomeIn(ast, todo, 1)' = Left(ast, Top)
  BY <1>6, <1>7, ContinuesHomed
<1>10. StackInv'
  BY <1>8, <1>9 DEF StackInv
<1> QED BY <1>1, <1>2, <1>3, <1>5, <1>8, <1>9, <1>10 DEF NextNode

LEMMA DoneNode ==
  ASSUME StackInv, pass = "resolve", todo # <<>>, UNCHANGED <<ast, pass>>, Continue(<<>>),
         (Top.at = "visit" /\ ast[This].kind = "param") \/ (Top.at = "iterator" /\ ast[This].kind = "for")
  PROVE  NextNode
<1>1. /\ This \in 2 .. Len(ast) /\ This \in 1 .. Len(ast) /\ Frontier = Lo(ast, Top)
      /\ Follows(ast, Hi(ast, Top), Rest) /\ IsProgram(ast) /\ DOMAIN ast = 1 .. Len(ast)
  BY StackTop, ProgramFacts DEF StackInv
<1>2. Lo(ast, Top) = This /\ Hi(ast, Top) = This
  <2>1. CASE Top.at = "iterator"
    BY <2>1 DEF Lo, Hi, This
  <2>2. CASE Top.at = "visit" /\ ast[This].kind = "param"
    <3>1. Len(ast[This].kids) = 0
      BY <1>1, <2>2 DEF IsProgram, Arranged
    <3>2. End(ast, This) = This
      BY <1>1, <3>1, KidsTile
    <3> QED BY <2>2, <3>2 DEF Lo, Hi, This
  <2> QED BY <2>1, <2>2
<1>3. /\ Homed(ast, Tail(todo), 1)
      /\ HomeIn(ast, Tail(todo), 1) = HomeIn(ast, todo, 1)
      /\ Top.at = "iterator" => HomeIn(ast, todo, 1) = This
      /\ Top.at # "iterator" => HomeIn(ast, todo, 1) = Around(ast, Par(ast, This))
  BY Walking DEF Home, Left, This
<1>4. Linked(ast, todo, Len(ast) + 1)' /\ Frontier' = Rest /\ todo' = Tail(todo)
  BY Finishes
<1>5. StackInv'
  BY <1>3, <1>4 DEF StackInv
<1> QED BY <1>1, <1>2, <1>3, <1>4, <1>5 DEF NextNode

LEMMA NodeStack ==
  ASSUME StackInv, ResolveDeclaration \/ ResolveName \/ ResolveChildren
  PROVE  NextNode
<1>1. CASE ResolveDeclaration
  <2>1. todo # <<>> /\ pass = "resolve" /\ UNCHANGED <<ast, pass>>
    BY <1>1 DEF ResolveDeclaration, At, ResolverFrame
  <2>2. CASE Top.at = "visit" /\ ast[This].kind = "let"
    <3>1. Continue(Visits(Kids(This)))
      BY <1>1, <2>2 DEF ResolveDeclaration, Node
    <3> QED BY <2>1, <2>2, <3>1, VisitKids
  <2>3. CASE (Top.at = "visit" /\ ast[This].kind = "param") \/ (Top.at = "iterator" /\ ast[This].kind = "for")
    <3>1. Continue(<<>>)
      BY <1>1, <2>3 DEF ResolveDeclaration, Node
    <3> QED BY <2>1, <2>3, <3>1, DoneNode
  <2> QED BY <1>1, <2>2, <2>3 DEF ResolveDeclaration, At, Node
<1>2. CASE ResolveName
  BY <1>2, VisitKids DEF ResolveName, At, Node, ResolverFrame
<1>3. CASE ResolveChildren
  BY <1>3, VisitKids DEF ResolveChildren, At, Node, ResolverFrame
<1> QED BY <1>1, <1>2, <1>3

-------------------------------------------------------------------------------
(* The type checker and the generator, for their stack *)

(* Between the nodes that are done and those that come next there are at      *)
(* most the item's own node, bare blocks and parameters.                   *)
Skips == \A m \in Frontier .. Frontier' - 1 : m = This \/ ast[m].kind = "block"

Descends(p) == p \in {"check", "generate"}

LEMMA FollowsSkips ==
  ASSUME NEW x \in Nat, Follows(ast, x, Frontier'), Frontier = x + 1 \/ (Frontier = x /\ x = This)
  PROVE  Skips
<1> SUFFICES ASSUME NEW m \in Frontier .. Frontier' - 1
             PROVE  m = This \/ ast[m].kind = "block"
  BY DEF Skips
<1>1. CASE Frontier' = x + 1
  BY <1>1
<1>2. CASE Frontier' = x + 2 /\ Bare(ast, x + 1)
  BY <1>2 DEF Bare
<1> QED BY <1>1, <1>2 DEF Follows

LEMMA Walked ==
  ASSUME StackInv, UNCHANGED ast, Descends(pass'), Linked(ast, todo, Len(ast) + 1)'
  PROVE  StackInv'
BY DEF StackInv, Descends

(* The item is done and nothing more is to be done for it. *)
LEMMA Dropped ==
  ASSUME StackInv, todo # <<>>, Descends(pass), UNCHANGED <<ast, pass>>, Continue(<<>>)
  PROVE  /\ StackInv'
         /\ Top.at = "leave" => Skips
         /\ Top.at = "visit" /\ ast[This].kids = <<>> => Skips
<1>1. Linked(ast, todo, Len(ast) + 1)' /\ Frontier' = Rest
  BY Finishes
<1>2. StackInv'
  BY <1>1, Walked
<1>3. /\ Follows(ast, Hi(ast, Top), Rest) /\ Frontier = Lo(ast, Top)
      /\ End(ast, This) \in Nat /\ This \in Nat /\ This \in 1 .. Len(ast) /\ IsProgram(ast)
  BY StackTop DEF StackInv
<1>4. ASSUME Top.at = "leave"
      PROVE  Skips
  <2>1. Hi(ast, Top) = End(ast, This) /\ Lo(ast, Top) = End(ast, This) + 1
    BY <1>4 DEF Hi, Lo, This
  <2> QED BY <1>1, <1>3, <2>1, FollowsSkips
<1>5. ASSUME Top.at = "visit", ast[This].kids = <<>>
      PROVE  Skips
  <2>1. End(ast, This) = This
    BY <1>3, <1>5, KidsTile, EmptySeq
  <2>2. Hi(ast, Top) = This /\ Lo(ast, Top) = This
    BY <1>5, <2>1 DEF Hi, Lo, This
  <2> QED BY <1>1, <1>3, <2>2, FollowsSkips
<1> QED BY <1>2, <1>4, <1>5

(* Items that are put in front of the rest, and where they begin. *)
LEMMA Stacked ==
  ASSUME StackInv, todo # <<>>, Descends(pass), UNCHANGED <<ast, pass>>,
         NEW items, Continue(items), Linked(ast, items, Rest),
         NEW x \in Nat, Follows(ast, x, LoOf(ast, items, Rest)),
         Frontier = x + 1 \/ (Frontier = x /\ x = This)
  PROVE  StackInv' /\ Skips
<1>1. Linked(ast, todo, Len(ast) + 1)' /\ Frontier' = LoOf(ast, items, Rest)
  BY Continues
<1> QED BY <1>1, Walked, FollowsSkips

(* Visits of all children. *)
LEMMA AllKids ==
  ASSUME StackInv, todo # <<>>, Descends(pass), UNCHANGED <<ast, pass>>, Top.at = "visit",
         Continue(Visits(Kids(This)))
  PROVE  StackInv' /\ Skips
<1>1. /\ Follows(ast, Hi(ast, Top), Rest) /\ Frontier = Lo(ast, Top)
      /\ This \in Nat /\ This \in 1 .. Len(ast) /\ IsProgram(ast)
  BY StackTop DEF StackInv
<1>2. Lo(ast, Top) = This /\ Hi(ast, Top) = End(ast, This)
  BY DEF Lo, Hi, This
<1> DEFINE v == Visits(ast[This].kids)
<1>3. Linked(ast, v, Rest) /\ Follows(ast, This, LoOf(ast, v, Rest)) /\ Continue(v)
  BY <1>1, <1>2, KidsLinked DEF Kids
<1> HIDE DEF v
<1> QED BY <1>1, <1>2, <1>3, Stacked

LEMMA LeaveItem ==
  ASSUME NEW p, IsProgram(p), NEW n \in 2 .. Len(p), NEW lo, Follows(p, End(p, n), lo),
         NEW note \in Notes
  PROVE  Linked(p, One("leave", n, note), lo) /\ LoOf(p, One("leave", n, note), lo) = End(p, n) + 1
<1> DEFINE it == [at |-> "leave", node |-> n, note |-> note]
<1>1. /\ it \in Item /\ Fits(p, it) /\ Hi(p, it) = End(p, n) /\ Lo(p, it) = End(p, n) + 1
  BY DEF Item, Ats, Fits, Hi, Lo
<1>2. One("leave", n, note) = <<it>>
  BY DEF One
<1> HIDE DEF it
<1> QED BY <1>1, <1>2, LinkedOne

LEMMA KidsThenLeave ==
  ASSUME StackInv, todo # <<>>, Descends(pass), UNCHANGED <<ast, pass>>, Top.at = "visit",
         NEW note \in Notes, Continue(Visits(Kids(This)) \o Then("leave", note))
  PROVE  StackInv' /\ Skips
<1>1. /\ Follows(ast, Hi(ast, Top), Rest) /\ Frontier = Lo(ast, Top)
      /\ This \in Nat /\ This \in 1 .. Len(ast) /\ This \in 2 .. Len(ast) /\ IsProgram(ast)
  BY StackTop DEF StackInv
<1>2. Lo(ast, Top) = This /\ Hi(ast, Top) = End(ast, This)
  BY DEF Lo, Hi, This
<1> DEFINE v == Visits(ast[This].kids)
           e == One("leave", This, note)
<1>3. Linked(ast, e, Rest) /\ LoOf(ast, e, Rest) = End(ast, This) + 1
  BY <1>1, <1>2, LeaveItem
<1>4. Follows(ast, End(ast, This), End(ast, This) + 1)
  BY DEF Follows
<1>5. Linked(ast, v, End(ast, This) + 1) /\ Follows(ast, This, LoOf(ast, v, End(ast, This) + 1))
  BY <1>1, <1>4, KidsLinked
<1>6. Continue(v \o e)
  BY ThenIsOne DEF Kids
<1> HIDE DEF v, e
<1>7. Linked(ast, v \o e, Rest) /\ Follows(ast, This, LoOf(ast, v \o e, Rest))
  BY <1>3, <1>5, LinkedConcat
<1> QED BY <1>1, <1>2, <1>6, <1>7, Stacked

(* One child, and what comes after it. *)
LEMMA VisitItem ==
  ASSUME NEW p, IsProgram(p), NEW n \in 2 .. Len(p), NEW lo, Follows(p, End(p, n), lo)
  PROVE  Linked(p, <<Visit(n)>>, lo) /\ LoOf(p, <<Visit(n)>>, lo) = n
<1>1. Visit(n) \in Item /\ Fits(p, Visit(n)) /\ Hi(p, Visit(n)) = End(p, n) /\ Lo(p, Visit(n)) = n
  BY DEF Visit, Item, Ats, Notes, Fits, Hi, Lo
<1> QED BY <1>1, LinkedOne

LEMMA ParamsOnly ==
  ASSUME NEW p, IsProgram(p), NEW n \in 1 .. Len(p), p[n].kind = "fn"
  PROVE  \A m \in n + 1 .. Last(p[n].kids) - 1 : p[m].kind = "param" /\ m \in Children(p, n)
<1> DEFINE kids == p[n].kids
<1> SUFFICES ASSUME NEW m \in n + 1 .. Last(kids) - 1
             PROVE  p[m].kind = "param" /\ m \in Children(p, n)
  OBVIOUS
<1>1. /\ Last(kids) \in n + 1 .. Len(p) /\ End(p, Last(kids)) = End(p, n)
      /\ Len(p) \in Nat /\ Len(kids) > 0 /\ Len(kids) \in Nat
      /\ End(p, Last(kids)) \in Last(kids) .. Len(p)
  BY BareBody, EndFacts, ProgramFacts DEF WithBody
<1>2. Inside(p, n, m) /\ m # n
  BY <1>1 DEF Inside
<1>3. PICK k \in Children(p, n) : Inside(p, k, m)
  BY <1>2, BelowChild
<1>4. PICK i \in 1 .. Len(kids) : k = kids[i]
  BY <1>3, KidFacts
<1>5. k \in n + 1 .. Len(p) /\ k \in 1 .. Len(p) /\ m \in k .. End(p, k)
  BY <1>1, <1>3, KidFacts DEF Inside
<1>6. i # Len(kids)
  BY <1>1, <1>4, <1>5 DEF Last
<1>7. p[k].kind = "param"
  <2>1. Arranged(p, n)
    BY ProgramFacts DEF IsProgram
  <2>2. i \in 1 .. Len(kids) - 1
    BY <1>1, <1>6
  <2> QED BY <1>4, <2>1, <2>2 DEF Arranged
<1>8. Len(p[k].kids) = 0
  <2>1. Arranged(p, k)
    BY <1>5, ProgramFacts DEF IsProgram
  <2> QED BY <1>7, <2>1 DEF Arranged
<1>9. End(p, k) = k
  BY <1>5, <1>8, KidsTile
<1> QED BY <1>3, <1>5, <1>7, <1>9

LEMMA CheckFunctionStack ==
  ASSUME StackInv, returns \in Notes, CheckFunction
  PROVE  /\ StackInv'
         /\ \A m \in Frontier .. Frontier' - 1 :
              m = This \/ (ast[m].kind = "param" /\ m \in Children(ast, This))
<1>1. /\ todo # <<>> /\ Descends(pass) /\ UNCHANGED <<ast, pass>> /\ Top.at = "visit"
      /\ ast[This].kind = "fn"
      /\ Continue(<<Visit(Last(ast[This].kids))>> \o One("leave", This, returns))
  BY ThenIsOne DEF CheckFunction, At, Node, CheckerFrame, Descends, Kids
<1>2. /\ Follows(ast, Hi(ast, Top), Rest) /\ Frontier = Lo(ast, Top)
      /\ This \in Nat /\ This \in 1 .. Len(ast) /\ This \in 2 .. Len(ast) /\ IsProgram(ast)
      /\ End(ast, This) \in Nat /\ Len(ast) \in Nat
  BY <1>1, StackTop DEF StackInv
<1>3. Lo(ast, Top) = This /\ Hi(ast, Top) = End(ast, This)
  BY <1>1 DEF Lo, Hi, This
<1> DEFINE b == Last(ast[This].kids)
           e == One("leave", This, returns)
<1>4. Linked(ast, e, Rest) /\ LoOf(ast, e, Rest) = End(ast, This) + 1
  BY <1>2, <1>3, LeaveItem
<1>5. b \in This + 1 .. Len(ast) /\ b \in 2 .. Len(ast) /\ End(ast, b) = End(ast, This)
  BY <1>1, <1>2, BareBody DEF WithBody
<1>6. Linked(ast, <<Visit(b)>>, End(ast, This) + 1) /\ LoOf(ast, <<Visit(b)>>, End(ast, This) + 1) = b
  BY <1>2, <1>5, VisitItem DEF Follows
<1>7. Linked(ast, <<Visit(b)>> \o e, Rest) /\ LoOf(ast, <<Visit(b)>> \o e, Rest) = b
  BY <1>4, <1>6, LinkedConcat
<1>8. Linked(ast, todo, Len(ast) + 1)' /\ Frontier' = b
  BY <1>1, <1>7, Continues
<1>9. \A m \in Frontier .. Frontier' - 1 :
        m = This \/ (ast[m].kind = "param" /\ m \in Children(ast, This))
  BY <1>1, <1>2, <1>3, <1>8, ParamsOnly
<1> QED BY <1>1, <1>8, <1>9, Walked

LEMMA ConditionItem ==
  ASSUME NEW p, IsProgram(p), NEW n \in 2 .. Len(p), p[n].kind \in {"if", "while"},
         NEW lo, Follows(p, End(p, n), lo)
  PROVE  LET e == <<Visit(Head(p[n].kids))>> \o One("condition", n, Null)
         IN Linked(p, e, lo) /\ LoOf(p, e, lo) = n + 1
<1> DEFINE it == [at |-> "condition", node |-> n, note |-> Null]
           k == p[n].kids[1]
<1>1. n \in 1 .. Len(p) /\ Len(p[n].kids) \in Nat /\ p[n].kids \in Seq(Nat) /\ Len(p) \in Nat
  BY ProgramFacts
<1>2. Len(p[n].kids) > 0
  <2>1. Arranged(p, n)
    BY ProgramFacts DEF IsProgram
  <2>2. Len(p[n].kids) \in {2, 3}
    BY <2>1 DEF Arranged
  <2> QED BY <2>2
<1>3. Head(p[n].kids) = k /\ k = n + 1 /\ k \in Children(p, n)
  BY <1>1, <1>2, KidsTile, KidFacts
<1>4. k \in 2 .. Len(p)
  BY <1>1, <1>3, KidFacts
<1>5. /\ it \in Item /\ Fits(p, it) /\ Hi(p, it) = End(p, n) /\ Lo(p, it) = End(p, k) + 1
  BY DEF Item, Ats, Notes, Fits, Hi, Lo
<1>6. One("condition", n, Null) = <<it>>
  BY DEF One
<1> HIDE DEF it, k
<1>7. Linked(p, <<it>>, lo) /\ LoOf(p, <<it>>, lo) = End(p, k) + 1
  BY <1>5, LinkedOne
<1>8. Linked(p, <<Visit(k)>>, End(p, k) + 1) /\ LoOf(p, <<Visit(k)>>, End(p, k) + 1) = k
  BY <1>4, VisitItem DEF Follows
<1> QED BY <1>3, <1>6, <1>7, <1>8, LinkedConcat

LEMMA RangeItem ==
  ASSUME NEW p, IsProgram(p), NEW n \in 2 .. Len(p), p[n].kind = "for",
         NEW lo, Follows(p, End(p, n), lo)
  PROVE  LET e == Visits(Front(p[n].kids)) \o One("range", n, Null)
         IN Linked(p, e, lo) /\ Follows(p, n, LoOf(p, e, lo))
<1> DEFINE it == [at |-> "range", node |-> n, note |-> Null]
           b == Last(p[n].kids)
<1>1. n \in 1 .. Len(p) /\ Len(p) \in Nat
  BY ProgramFacts
<1>2. Len(p[n].kids) = 3
  BY <1>1, ProgramFacts DEF IsProgram, Arranged
<1>3. b = p[n].kids[3] /\ b \in n + 1 .. Len(p)
  BY <1>1, <1>2, BareBody DEF Last, WithBody
<1>4. /\ it \in Item /\ Fits(p, it) /\ Hi(p, it) = End(p, n) /\ Lo(p, it) = b
  BY <1>3 DEF Item, Ats, Notes, Fits, Hi, Lo
<1>5. One("range", n, Null) = <<it>>
  BY DEF One
<1>6. Follows(p, Last(p[n].kids) - 1, b) /\ Len(p[n].kids) > 0
  BY <1>1, <1>2, <1>3 DEF Follows
<1>7. /\ Linked(p, Visits(Front(p[n].kids)), b)
      /\ Follows(p, n, LoOf(p, Visits(Front(p[n].kids)), b))
  <2> HIDE DEF it, b
  <2> QED BY <1>1, <1>6, FrontLinked
<1> HIDE DEF it, b
<1>8. Linked(p, <<it>>, lo) /\ LoOf(p, <<it>>, lo) = b
  BY <1>4, LinkedOne
<1> QED BY <1>5, <1>7, <1>8, LinkedConcat

LEMMA CheckChildrenStack ==
  ASSUME StackInv, CheckChildren
  PROVE  StackInv' /\ Skips
<1>1. /\ todo # <<>> /\ Descends(pass) /\ UNCHANGED <<ast, pass>> /\ Top.at = "visit"
      /\ Node = ast[This] /\ Kids(This) = ast[This].kids
  BY DEF CheckChildren, At, Node, CheckerFrame, Descends, Kids
<1>2. /\ Follows(ast, Hi(ast, Top), Rest) /\ Frontier = Lo(ast, Top)
      /\ This \in Nat /\ This \in 1 .. Len(ast) /\ This \in 2 .. Len(ast) /\ IsProgram(ast)
  BY <1>1, StackTop DEF StackInv
<1>3. Lo(ast, Top) = This /\ Hi(ast, Top) = End(ast, This)
  BY <1>1 DEF Lo, Hi, This
<1>4. CASE Node.kind = "block"
  <2>1. Continue(Visits(Kids(This)))
    BY <1>4 DEF CheckChildren
  <2> QED BY <1>1, <2>1, AllKids
<1>5. CASE Node.kind \in {"if", "while"}
  <2> DEFINE v == <<Visit(Head(ast[This].kids))>> \o One("condition", This, Null)
  <2>1. Continue(v)
    <3>1. Continue(<<Visit(Head(Kids(This)))>> \o Then("condition", Null))
      BY <1>5 DEF CheckChildren
    <3> QED BY <1>1, <3>1, ThenIsOne
  <2>2. Linked(ast, v, Rest) /\ LoOf(ast, v, Rest) = This + 1
    BY <1>1, <1>2, <1>3, <1>5, ConditionItem
  <2> HIDE DEF v
  <2>3. Follows(ast, This, LoOf(ast, v, Rest))
    BY <2>2 DEF Follows
  <2> QED BY <1>1, <1>2, <1>3, <2>1, <2>2, <2>3, Stacked
<1>6. CASE Node.kind = "for"
  <2> DEFINE v == Visits(Front(ast[This].kids)) \o One("range", This, Null)
  <2>1. Continue(v)
    <3>1. Continue(Visits(Front(Kids(This))) \o Then("range", Null))
      BY <1>6 DEF CheckChildren
    <3> QED BY <1>1, <3>1, ThenIsOne
  <2>2. Linked(ast, v, Rest) /\ Follows(ast, This, LoOf(ast, v, Rest))
    BY <1>1, <1>2, <1>3, <1>6, RangeItem
  <2> HIDE DEF v
  <2> QED BY <1>1, <1>2, <1>3, <2>1, <2>2, Stacked
<1>7. CASE Node.kind \notin {"block", "if", "while", "for"}
  <2>1. Continue(Visits(Kids(This)) \o Then("leave", Null))
    BY <1>7 DEF CheckChildren
  <2>2. Null \in Notes
    BY DEF Notes
  <2> QED BY <1>1, <2>1, <2>2, KidsThenLeave
<1> QED BY <1>4, <1>5, <1>6, <1>7

LEMMA CheckConditionStack ==
  ASSUME StackInv, CheckCondition
  PROVE  StackInv' /\ (TypeOf(Head(Kids(This))) # Null => Skips)
<1>1. /\ todo # <<>> /\ Descends(pass) /\ UNCHANGED <<ast, pass>> /\ Top.at = "condition"
      /\ ast[This].kind \in {"if", "while"}
      /\ Continue(IF TypeOf(Head(Kids(This))) = Null THEN <<>> ELSE Visits(Tail(ast[This].kids)))
  BY DEF CheckCondition, At, Node, CheckerFrame, Descends, Kids
<1>2. /\ Follows(ast, Hi(ast, Top), Rest) /\ Frontier = Lo(ast, Top)
      /\ This \in Nat /\ This \in 1 .. Len(ast) /\ IsProgram(ast)
  BY <1>1, StackTop DEF StackInv
<1>3. Lo(ast, Top) = End(ast, ast[This].kids[1]) + 1 /\ Hi(ast, Top) = End(ast, This)
  BY <1>1 DEF Lo, Hi, This
<1>4. CASE TypeOf(Head(Kids(This))) = Null
  BY <1>1, <1>4, Dropped
<1>5. CASE TypeOf(Head(Kids(This))) # Null
  <2>1. Len(ast[This].kids) > 0 /\ Len(ast[This].kids) \in Nat
    <3>1. Arranged(ast, This) /\ Len(ast[This].kids) \in Nat
      BY <1>2, ProgramFacts DEF IsProgram
    <3>2. Len(ast[This].kids) = 2 \/ Len(ast[This].kids) = 3
      <4>1. ast[This].kind = "if" \/ ast[This].kind = "while"
        BY <1>1
      <4> QED BY <3>1, <4>1 DEF Arranged
    <3>3. \A x : x = 2 \/ x = 3 => x > 0
      BY ONLY TRUE
    <3> QED BY ONLY <3>1, <3>2, <3>3, Zenon
  <2> DEFINE v == Visits(Tail(ast[This].kids))
             x == End(ast, ast[This].kids[1])
  <2>2. Linked(ast, v, Rest) /\ Follows(ast, x, LoOf(ast, v, Rest))
    BY <1>2, <1>3, <2>1, TailLinked
  <2>3. x \in Nat
    <3>1. ast[This].kids[1] \in 1 .. Len(ast) /\ Len(ast) \in Nat
      BY <1>2, <2>1, KidFacts, ProgramFacts
    <3> QED BY <1>2, <3>1, EndFacts
  <2>4. Continue(v) /\ Frontier = x + 1
    BY <1>1, <1>2, <1>3, <1>5
  <2> HIDE DEF v, x
  <2> QED BY <1>1, <2>2, <2>3, <2>4, Stacked
<1> QED BY <1>4, <1>5

LEMMA CheckRangeStack ==
  ASSUME StackInv, CheckRange
  PROVE  StackInv' /\ Skips
<1>1. /\ todo # <<>> /\ Descends(pass) /\ UNCHANGED <<ast, pass>> /\ Top.at = "range"
      /\ ast[This].kind = "for"
      /\ Continue(<<Visit(Last(ast[This].kids))>>)
  BY DEF CheckRange, At, Node, CheckerFrame, Descends, Kids
<1>2. /\ Follows(ast, Hi(ast, Top), Rest) /\ Frontier = Lo(ast, Top)
      /\ This \in Nat /\ This \in 1 .. Len(ast) /\ IsProgram(ast) /\ Len(ast) \in Nat
  BY <1>1, StackTop DEF StackInv
<1> DEFINE b == Last(ast[This].kids)
<1>3. Len(ast[This].kids) = 3
  BY <1>1, <1>2, ProgramFacts DEF IsProgram, Arranged
<1>4. /\ b = ast[This].kids[3] /\ b \in This + 1 .. Len(ast) /\ b \in 2 .. Len(ast)
      /\ End(ast, b) = End(ast, This)
  BY <1>1, <1>2, <1>3, BareBody DEF Last, WithBody
<1>5. Lo(ast, Top) = b /\ Hi(ast, Top) = End(ast, This)
  BY <1>1, <1>4 DEF Lo, Hi, This
<1>6. Linked(ast, <<Visit(b)>>, Rest) /\ LoOf(ast, <<Visit(b)>>, Rest) = b
  BY <1>2, <1>4, <1>5, VisitItem
<1>7. Follows(ast, b - 1, b) /\ b - 1 \in Nat /\ Frontier = (b - 1) + 1
  BY <1>2, <1>4, <1>5 DEF Follows
<1> HIDE DEF b
<1> QED BY <1>1, <1>6, <1>7, Stacked DEF b

LEMMA ArgumentItem ==
  ASSUME NEW p, IsProgram(p), NEW n \in 2 .. Len(p), p[n].kind = "call",
         NEW i \in 1 .. Len(p[n].kids) + 1, NEW lo, Follows(p, End(p, n), lo)
  PROVE  /\ Linked(p, One("argument", n, i), lo)
         /\ LoOf(p, One("argument", n, i), lo) =
              IF i <= Len(p[n].kids) THEN p[n].kids[i] ELSE End(p, n) + 1
<1> DEFINE it == [at |-> "argument", node |-> n, note |-> i]
<1>1. Len(p[n].kids) \in Nat
  BY ProgramFacts
<1>2. /\ it \in Item /\ Fits(p, it) /\ Hi(p, it) = End(p, n)
      /\ Lo(p, it) = IF i <= Len(p[n].kids) THEN p[n].kids[i] ELSE End(p, n) + 1
  BY <1>1 DEF Item, Ats, Notes, Fits, Hi, Lo
<1>3. One("argument", n, i) = <<it>>
  BY DEF One
<1> HIDE DEF it
<1> QED BY <1>2, <1>3, LinkedOne

LEMMA CheckCallStack ==
  ASSUME StackInv, CheckCall
  PROVE  /\ StackInv'
         /\ SymbolType(Sym) # Null /\ Len(Expects) = Len(Kids(This)) => Skips
<1>1. /\ todo # <<>> /\ Descends(pass) /\ UNCHANGED <<ast, pass>> /\ Top.at = "visit"
      /\ ast[This].kind = "call"
      /\ Continue(IF SymbolType(Sym) # Null /\ Len(Expects) = Len(Kids(This))
                  THEN One("argument", This, 1) ELSE <<>>)
  BY ThenIsOne DEF CheckCall, At, Node, CheckerFrame, Descends
<1>2. /\ Follows(ast, Hi(ast, Top), Rest) /\ Frontier = Lo(ast, Top)
      /\ This \in Nat /\ This \in 1 .. Len(ast) /\ This \in 2 .. Len(ast) /\ IsProgram(ast)
  BY <1>1, StackTop DEF StackInv
<1>3. Lo(ast, Top) = This /\ Hi(ast, Top) = End(ast, This)
  BY <1>1 DEF Lo, Hi, This
<1>4. CASE ~(SymbolType(Sym) # Null /\ Len(Expects) = Len(Kids(This)))
  BY <1>1, <1>4, Dropped
<1>5. CASE SymbolType(Sym) # Null /\ Len(Expects) = Len(Kids(This))
  <2> DEFINE v == One("argument", This, 1)
             kids == ast[This].kids
  <2>1. Len(kids) \in Nat
    BY <1>2, ProgramFacts
  <2>2. /\ Linked(ast, v, Rest)
        /\ LoOf(ast, v, Rest) = IF 1 <= Len(kids) THEN kids[1] ELSE End(ast, This) + 1
    BY <1>1, <1>2, <1>3, <2>1, ArgumentItem
  <2>3. /\ Len(kids) = 0 => End(ast, This) = This
        /\ Len(kids) > 0 => kids[1] = This + 1
    BY <1>2, KidsTile
  <2>4. Follows(ast, This, LoOf(ast, v, Rest))
    BY <2>1, <2>2, <2>3 DEF Follows
  <2>5. Continue(v)
    BY <1>1, <1>5
  <2> HIDE DEF v
  <2> QED BY <1>1, <1>2, <1>3, <2>2, <2>4, <2>5, Stacked
<1> QED BY <1>4, <1>5
(* An argument that has another type than its parameter ends the call. *)
LEMMA CheckArgumentStack ==
  ASSUME StackInv, CheckArgument
  PROVE  StackInv' /\ (errors' = {} => Skips)
<1> DEFINE i == Top.note
           kids == ast[This].kids
           mismatch == i > 1 /\ TypeOf(kids[i - 1]) # Expects[i - 1]
<1>1. /\ todo # <<>> /\ Descends(pass) /\ UNCHANGED <<ast, pass>> /\ Top.at = "argument"
      /\ ast[This].kind = "call"
      /\ Continue(IF mismatch \/ i > Len(kids) THEN <<>>
                  ELSE <<Visit(kids[i])>> \o One("argument", This, i + 1))
      /\ mismatch => errors' # {}
  BY ThenIsOne DEF CheckArgument, At, Node, CheckerFrame, Descends, Kids, Report
<1> HIDE DEF mismatch
<1>2. /\ Follows(ast, Hi(ast, Top), Rest) /\ Frontier = Lo(ast, Top) /\ Fits(ast, Top)
      /\ This \in Nat /\ This \in 1 .. Len(ast) /\ This \in 2 .. Len(ast) /\ IsProgram(ast)
      /\ End(ast, This) \in Nat /\ Len(ast) \in Nat
  BY <1>1, StackTop DEF StackInv
<1>3. /\ i \in 1 .. Len(kids) + 1 /\ Hi(ast, Top) = End(ast, This)
      /\ Lo(ast, Top) = IF i <= Len(kids) THEN kids[i] ELSE End(ast, This) + 1
  BY <1>1, <1>2 DEF Fits, Lo, Hi, This
<1>4. Len(kids) \in Nat
  BY <1>2, ProgramFacts
<1>5. CASE mismatch
  BY <1>1, <1>5, Dropped
<1>6. CASE ~mismatch /\ i > Len(kids)
  <2>1. Continue(<<>>) /\ Frontier = End(ast, This) + 1
    BY <1>1, <1>2, <1>3, <1>4, <1>6
  <2>2. Linked(ast, <<>>, Rest) /\ LoOf(ast, <<>>, Rest) = Rest
    BY NoItems
  <2> QED BY <1>1, <1>2, <1>3, <2>1, <2>2, Stacked
<1>7. CASE ~mismatch /\ ~(i > Len(kids))
  <2>0. i \in 1 .. Len(kids) /\ i + 1 \in 1 .. Len(kids) + 1
    BY <1>3, <1>4, <1>7
  <2> DEFINE k == kids[i]
             e == One("argument", This, i + 1)
             lo == LoOf(ast, e, Rest)
  <2>1. Continue(<<Visit(k)>> \o e) /\ Frontier = k
    BY <1>1, <1>2, <1>3, <1>7, <2>0
  <2>2. k \in 2 .. Len(ast) /\ k \in Children(ast, This)
    <3>1. \A m \in 1 .. Len(ast[This].kids) :
            ast[This].kids[m] \in Children(ast, This) /\ ast[This].kids[m] \in 2 .. Len(ast)
      BY <1>2, KidFacts, KidNodes, Zenon
    <3> QED BY <1>2, <2>0, <3>1
  <2>3. /\ Linked(ast, e, Rest)
        /\ lo = IF i + 1 <= Len(kids) THEN kids[i + 1] ELSE End(ast, This) + 1
    BY <1>1, <1>2, <1>3, <2>0, ArgumentItem
  <2>4. lo = End(ast, k) + 1
    <3>1. /\ Len(kids) > 0 => End(ast, kids[Len(kids)]) = End(ast, This)
          /\ \A j \in 1 .. Len(kids) - 1 : kids[j + 1] = End(ast, kids[j]) + 1
      BY <1>2, KidsTile
    <3>2. CASE i = Len(kids)
      BY <1>4, <2>0, <2>3, <3>1, <3>2
    <3>3. CASE i # Len(kids)
      <4>1. i \in 1 .. Len(kids) - 1 /\ i + 1 <= Len(kids)
        BY <1>4, <2>0, <3>3
      <4> QED BY <2>3, <3>1, <4>1
    <3> QED BY <3>2, <3>3
  <2>5. Linked(ast, <<Visit(k)>>, lo) /\ LoOf(ast, <<Visit(k)>>, lo) = k
    BY <1>2, <2>2, <2>4, VisitItem DEF Follows
  <2> HIDE DEF e, k, lo
  <2>6. Linked(ast, <<Visit(k)>> \o e, Rest) /\ LoOf(ast, <<Visit(k)>> \o e, Rest) = k
    BY <2>3, <2>5, LinkedConcat DEF lo
  <2>7. Follows(ast, k - 1, k) /\ k - 1 \in Nat /\ Frontier = (k - 1) + 1
    BY <1>2, <2>1, <2>2 DEF Follows
  <2> QED BY <1>1, <2>1, <2>6, <2>7, Stacked
<1> QED BY <1>5, <1>6, <1>7

LEMMA CheckLetStack ==
  ASSUME StackInv, CheckLet
  PROVE  StackInv' /\ (errors' = {} => Skips)
<1>1. /\ todo # <<>> /\ Descends(pass) /\ UNCHANGED <<ast, pass>> /\ Top.at = "visit"
  BY DEF CheckLet, At, CheckerFrame, Descends
<1>2. CASE Sym = None
  <2>1. Continue(<<>>) /\ errors' # {}
    BY <1>2 DEF CheckLet, Report
  <2> QED BY <1>1, <2>1, Dropped
<1>3. CASE Sym # None
  <2>1. Continue(Visits(Kids(This)) \o Then("leave", Null)) /\ Null \in Notes
    BY <1>3 DEF CheckLet, Notes
  <2> QED BY <1>1, <2>1, KidsThenLeave
<1> QED BY <1>2, <1>3

CheckLast == LeaveFunction \/ LeaveLet \/ LeaveAdd \/ LeaveAssign \/ LeavePrint \/ LeaveReturn

(* What a node is looked at last for, and nodes without children. *)
LEMMA CheckLastStack ==
  ASSUME StackInv, CheckLast \/ CheckLeaf
  PROVE  StackInv' /\ Skips
<1>1. /\ todo # <<>> /\ Descends(pass) /\ UNCHANGED <<ast, pass>> /\ Continue(<<>>)
  BY DEF CheckLast, LeaveFunction, LeaveLet, LeaveAdd, LeaveAssign, LeavePrint, LeaveReturn,
         CheckLeaf, At, CheckerFrame, Descends
<1>2. CASE CheckLast
  <2>1. Top.at = "leave"
    BY <1>2 DEF CheckLast, LeaveFunction, LeaveLet, LeaveAdd, LeaveAssign, LeavePrint,
                LeaveReturn, At
  <2> QED BY <1>1, <2>1, Dropped
<1>3. CASE CheckLeaf
  <2>1. Top.at = "visit" /\ ast[This].kind \in {"literal", "var"}
    BY <1>3 DEF CheckLeaf, At, Node
  <2>2. This \in 1 .. Len(ast) /\ IsProgram(ast)
    BY <1>1, StackTop DEF StackInv
  <2>3. Arranged(ast, This) /\ ast[This].kids \in Seq(Nat)
    BY <2>2, ProgramFacts DEF IsProgram
  <2>4. Len(ast[This].kids) = 0
    BY <2>1, <2>3 DEF Arranged
  <2>5. ast[This].kids = <<>>
    BY <2>3, <2>4, EmptySeq
  <2> QED BY <1>1, <2>1, <2>5, Dropped
<1> QED BY <1>2, <1>3

-------------------------------------------------------------------------------
(* The generator, for its stack *)

LEMMA FailStack ==
  ASSUME StackInv, Fail, UNCHANGED <<ast, pass>>, Descends(pass)
  PROVE  StackInv'
<1>1. Linked(ast, todo, Len(ast) + 1)'
  BY NoItems DEF Fail
<1> QED BY <1>1, Walked

LEMMA EmitStack ==
  ASSUME StackInv, EmitFunction \/ EmitStorage \/ EmitOperands
  PROVE  StackInv'
<1>1. /\ todo # <<>> /\ Descends(pass) /\ UNCHANGED <<ast, pass>> /\ Top.at = "visit"
  BY DEF EmitFunction, EmitStorage, EmitOperands, Emitting, At, GeneratorFrame, Descends
<1>2. \/ Continue(<<>>) \/ Continue(Visits(Kids(This))) \/ Fail
      \/ Node.kind = "assign" /\ Continue(Visits(Tail(Kids(This))))
  BY DEF EmitFunction, EmitStorage, EmitOperands
<1>3. CASE Continue(<<>>)
  BY <1>1, <1>3, Dropped
<1>4. CASE Continue(Visits(Kids(This)))
  BY <1>1, <1>4, AllKids
<1>5. CASE Fail
  BY <1>1, <1>5, FailStack
<1>6. CASE Node.kind = "assign" /\ Continue(Visits(Tail(Kids(This))))
  <2>1. /\ Follows(ast, Hi(ast, Top), Rest) /\ This \in 1 .. Len(ast) /\ IsProgram(ast)
    BY <1>1, StackTop DEF StackInv
  <2>2. Hi(ast, Top) = End(ast, This)
    BY <1>1 DEF Hi, This
  <2>3. Len(ast[This].kids) > 0
    <3>1. Arranged(ast, This)
      BY <2>1, ProgramFacts DEF IsProgram
    <3>2. Len(ast[This].kids) = 2
      BY <1>6, <3>1 DEF Arranged, Node
    <3> QED BY <3>2
  <2>4. Linked(ast, Visits(Tail(Kids(This))), Rest)
    BY <2>1, <2>2, <2>3, TailLinked DEF Kids
  <2>5. Linked(ast, todo, Len(ast) + 1)'
    BY <1>1, <1>6, <2>4, Continues
  <2> QED BY <1>1, <2>5, Walked
<1> QED BY <1>2, <1>3, <1>4, <1>5, <1>6

-------------------------------------------------------------------------------
(* The stack of every pass: it begins with the functions. *)

LEMMA FunctionItems ==
  ASSUME IsProgram(ast)
  PROVE  LET items == Visits(ast[1].kids)
         IN /\ Functions = ast[1].kids /\ Kids(1) = ast[1].kids
            /\ Linked(ast, items, Len(ast) + 1) /\ Flat(items)
            /\ Follows(ast, 1, LoOf(ast, items, Len(ast) + 1))
            /\ Homed(ast, items, 1) /\ HomeIn(ast, items, 1) = 1
<1> DEFINE items == Visits(ast[1].kids)
<1>1. /\ 1 \in 1 .. Len(ast) /\ End(ast, 1) = Len(ast) /\ ast[1].kind = "program"
  BY RootIsAround
<1>2. Linked(ast, items, Len(ast) + 1) /\ Follows(ast, 1, LoOf(ast, items, Len(ast) + 1))
  BY <1>1, KidsLinked DEF Follows
<1>3. Around(ast, 1) = 1
  BY <1>1, AroundSteps DEF Scoped
<1>4. Homed(ast, items, 1) /\ HomeIn(ast, items, 1) = 1
  BY <1>1, <1>3, KidsHomed DEF WithBody
<1>5. Flat(items)
  <2>1. DOMAIN ast[1].kids = 1 .. Len(ast[1].kids) /\ ast[1].kids \in Seq(Nat)
    BY <1>1, ProgramFacts
  <2>2. \A i \in 1 .. Len(ast[1].kids) : ast[1].kids[i] \in Children(ast, 1)
    BY <1>1, KidFacts
  <2>3. /\ Len(items) = Len(ast[1].kids)
        /\ \A i \in 1 .. Len(items) : items[i] = Visit(ast[1].kids[i])
    <3>1. DOMAIN items = 1 .. Len(ast[1].kids) /\ Len(ast[1].kids) \in Nat
      BY <2>1 DEF Visits
    <3>2. items \in Seq(Item)
      BY <1>2 DEF Linked
    <3> HIDE DEF items
    <3>3. Len(items) = Len(ast[1].kids)
      BY <3>1, <3>2, LenProperties
    <3> QED BY <2>1, <3>3 DEF items, Visits
  <2> HIDE DEF items
  <2>4. ASSUME NEW i \in 1 .. Len(items)
        PROVE  items[i].at = "visit" /\ items[i].node \in Children(ast, 1)
    <3>1. items[i] = Visit(ast[1].kids[i]) /\ ast[1].kids[i] \in Children(ast, 1)
      BY <2>2, <2>3
    <3> QED BY <3>1 DEF Visit
  <2> QED BY <2>4 DEF Flat
<1> QED BY <1>2, <1>4, <1>5, FunctionsAreKids DEF Kids

LEMMA StartStack ==
  ASSUME IsProgram(ast), UNCHANGED ast,
         pass' \in {"collect", "resolve", "sign", "check", "declare", "generate"},
         todo' = Visits(Functions) \/ todo' = Visits(Kids(1))
  PROVE  StackInv' /\ Follows(ast, 1, Frontier') /\ HomeIn(ast, todo, 1)' = 1
<1> DEFINE items == Visits(ast[1].kids)
<1>1. /\ Linked(ast, items, Len(ast) + 1) /\ Flat(items)
      /\ Follows(ast, 1, LoOf(ast, items, Len(ast) + 1))
      /\ Homed(ast, items, 1) /\ HomeIn(ast, items, 1) = 1
      /\ todo' = items
  BY FunctionItems
<1> HIDE DEF items
<1> QED BY <1>1 DEF StackInv, Frontier, Flat

(* Init and the steps of all passes. *)
FlatStep == CollectFunction \/ ResolveSignature \/ DeclareFunction

LEMMA FlatStack ==
  ASSUME StackInv, FlatStep
  PROVE  /\ StackInv' /\ todo # <<>> /\ Top.at = "visit" /\ This \in Children(ast, 1)
         /\ Frontier = This /\ Follows(ast, End(ast, This), Frontier')
         /\ UNCHANGED <<ast, pass>> /\ pass \in {"collect", "sign", "declare"}
<1>1. /\ todo # <<>> /\ UNCHANGED <<ast, pass>> /\ pass \in {"collect", "sign", "declare"}
      /\ Continue(<<>>)
  BY DEF FlatStep, CollectFunction, ResolveSignature, DeclareFunction, At, ResolverFrame,
         CheckerFrame, GeneratorFrame
<1>2. StackInv' /\ Top.at = "visit" /\ This \in Children(ast, 1)
  BY <1>1, FlatTail
<1>3. Frontier = Lo(ast, Top) /\ Follows(ast, Hi(ast, Top), Rest) /\ Frontier' = Rest
  BY <1>1, StackTop, Finishes
<1> QED BY <1>1, <1>2, <1>3 DEF Lo, Hi, This

CheckStep ==
  \/ CheckFunction \/ CheckLet \/ CheckLeaf \/ CheckChildren \/ CheckCondition \/ CheckRange
  \/ CheckCall \/ CheckArgument \/ CheckLast

GenerateStep == EmitFunction \/ EmitStorage \/ EmitOperands

StartStep == NextPass \/ Accepted \/ Generate

LEMMA StackStep ==
  ASSUME StackInv, returns \in Notes, [Next]_vars
  PROVE  StackInv'
<1>1. CASE FlatStep
  BY <1>1, FlatStack
<1>2. CASE ResolveScope
  BY <1>2, ResolveScopeStack
<1>3. CASE ExitScope
  BY <1>3, ExitScopeStack
<1>4. CASE ResolveDeclaration \/ ResolveName \/ ResolveChildren
  BY <1>4, NodeStack DEF NextNode
<1>5. CASE CheckStep
  BY <1>5, CheckFunctionStack, CheckLetStack, CheckLastStack, CheckChildrenStack,
     CheckConditionStack, CheckRangeStack, CheckCallStack, CheckArgumentStack DEF CheckStep
<1>6. CASE GenerateStep
  BY <1>6, EmitStack DEF GenerateStep
<1>7. CASE StartStep
  BY <1>7, StartStack DEF StartStep, NextPass, Accepted, Generate, StackInv
<1>8. CASE UNCHANGED vars
  BY <1>8 DEF vars, analysisVars, StackInv, Flat
<1> QED
  BY <1>1, <1>2, <1>3, <1>4, <1>5, <1>6, <1>7, <1>8
     DEF Next, Analyse, AnalysisNext, FlatStep, CheckStep, CheckLast, GenerateStep, StartStep

-------------------------------------------------------------------------------
(* Declarations and uses of names, in the program.                         *)

Named(p, n) == Declares(p, n) \/ p[n].kind \in Uses

LEMMA NamedFacts ==
  ASSUME NEW p, IsProgram(p), NEW n \in 1 .. Len(p)
  PROVE  /\ Bare(p, n) => ~Named(p, n)
         /\ n \in Children(p, 1) => p[n].kind = "fn"
         /\ Declares(p, n) => p[n].kind \notin Uses /\ n # 1
         /\ Named(p, n) => p[n].kind \in Variables \cup Uses \cup {"fn"}
<1>1. n = 1 => p[n].kind = "program"
  BY RootIsAround
<1>2. n # 1 /\ n \in Children(p, 1) => p[n].kind = "fn"
  BY InAFunction
<1>3. 1 \notin Children(p, 1)
  BY RootIsAround, KidFacts
<1> QED BY <1>1, <1>2, <1>3 DEF Bare, Named, Declares, Variables, Uses

LEMMA HomeFacts ==
  ASSUME NEW p, IsProgram(p), NEW n \in 1 .. Len(p)
  PROVE  /\ HomeOf(p, n) \in 1 .. n /\ HomeOf(p, n) \in 1 .. Len(p)
         /\ Scoped(p, HomeOf(p, n)) /\ Inside(p, HomeOf(p, n), n)
         /\ Declares(p, n) /\ HomeOf(p, n) = 1 => n \in Children(p, 1)
<1>1. /\ 1 \in 1 .. Len(p) /\ p[1].kind = "program" /\ Inside(p, 1, n)
      /\ Len(p) \in Nat
  BY RootIsAround, ProgramFacts
<1>2. /\ Around(p, n) \in 1 .. n /\ Scoped(p, Around(p, n)) /\ Inside(p, Around(p, n), n)
  BY AroundFacts
<1>3. Declares(p, n) => n \in 2 .. Len(p)
  BY <1>1, NamedFacts
<1>4. n \in 2 .. Len(p) => Around(p, n) # 1
  BY InAFunction
<1> QED BY <1>1, <1>2, <1>3, <1>4 DEF HomeOf, Scoped

(* A scope around a scope around a node. *)
LEMMA AroundAround ==
  ASSUME NEW p, IsProgram(p), NEW n \in 1 .. Len(p), NEW b \in 2 .. Len(p), Inside(p, b, n)
  PROVE  LET c == Around(p, Par(p, b))
         IN /\ c \in 1 .. b - 1 /\ Scoped(p, c) /\ Inside(p, c, n)
            /\ \A a \in 1 .. Len(p) : Scoped(p, a) /\ Inside(p, a, n) /\ a < b => a <= c
<1> DEFINE m == Par(p, b)
           c == Around(p, m)
<1>1. m \in 1 .. b - 1 /\ m \in 1 .. Len(p) /\ b \in 1 .. Len(p) /\ Len(p) \in Nat
  BY OneParent, ProgramFacts
<1>2. /\ c \in 1 .. m /\ Scoped(p, c) /\ Inside(p, c, m)
      /\ \A a \in 1 .. Len(p) : Scoped(p, a) /\ Inside(p, a, m) => a <= c
  BY <1>1, AroundFacts
<1>3. c \in 1 .. b - 1 /\ c \in 1 .. Len(p)
  BY <1>1, <1>2
<1> HIDE DEF c
<1>4. Inside(p, c, b)
  BY <1>2, <1>3, InsideParent
<1>5. Inside(p, c, n)
  <2>1. End(p, b) <= End(p, c) /\ End(p, c) \in c .. Len(p) /\ End(p, b) \in b .. Len(p)
    BY <1>1, <1>3, <1>4, NestedSubtrees, EndFacts
  <2> QED BY <1>3, <2>1 DEF Inside
<1>6. ASSUME NEW a \in 1 .. Len(p), Scoped(p, a), Inside(p, a, n), a < b
      PROVE  a <= c
  <2>1. Inside(p, a, b) /\ a # b
    <3>1. End(p, a) \in a .. Len(p) /\ End(p, b) \in b .. Len(p)
      BY <1>1, EndFacts
    <3> QED BY <1>6, <3>1 DEF Inside
  <2>2. Inside(p, a, m)
    BY <2>1, InsideParent
  <2> QED BY <1>2, <1>6, <2>2
<1> QED BY <1>2, <1>3, <1>5, <1>6 DEF c

-------------------------------------------------------------------------------
(* The invariants of name resolution                                       *)

(* Names that have been looked at. *)
Reached(n) ==
  \/ pass \notin {"collect", "resolve"}
  \/ pass = "resolve" /\ n < Frontier
  \/ n \in Children(ast, 1) /\ (pass = "resolve" \/ n < Frontier)

(* Symbols and the nodes that declare them know each other. *)
SymbolsInv ==
  /\ \A s \in DOMAIN arena :
       /\ arena[s].node \in 1 .. Len(ast)
       /\ Declares(ast, arena[s].node) /\ Reached(arena[s].node)
       /\ symbol[arena[s].node] = s
  /\ \A n \in 1 .. Len(ast) :
       /\ symbol[n] \in 0 .. Len(arena)
       /\ symbol[n] # None => \/ Declares(ast, n) /\ arena[symbol[n]].node = n
                              \/ ast[n].kind \in Uses

(* The node that a scope was entered for, of every scope. *)
Entered(opener) ==
  /\ opener[1] = 1
  /\ \A s \in DOMAIN scopes : Scoped(ast, opener[s]) /\ opener[s] \in 1 .. Len(ast)
  /\ \A s \in DOMAIN scopes : s # 1 =>
       /\ scopes[s].parent # None /\ opener[s] # 1
       /\ opener[scopes[s].parent] = Around(ast, Par(ast, opener[s]))
  /\ \A s, t \in DOMAIN scopes : opener[s] = opener[t] => s = t

Placed(opener) ==
  /\ opener[current] = IF pass = "resolve" THEN HomeIn(ast, todo, 1) ELSE 1
  /\ pass = "collect" => DOMAIN scopes = {1}
  /\ pass = "resolve" =>
       \A s \in DOMAIN scopes :
         \/ opener[s] < Frontier
         \/ opener[s] = Frontier /\ todo # <<>> /\ todo[1].at = "iterator"

(* A scope has the declarations that are at home in its node. *)
Kept(opener) ==
  /\ \A s \in DOMAIN scopes : \A i \in DOMAIN scopes[s].entries :
       LET e == scopes[s].entries[i]
       IN /\ e.symbol \in DOMAIN arena
          /\ ast[arena[e.symbol].node].name = e.name
          /\ HomeOf(ast, arena[e.symbol].node) = opener[s]
  /\ \A d \in 1 .. Len(ast) : Declares(ast, d) /\ symbol[d] # None =>
       \E s \in DOMAIN scopes : \E i \in DOMAIN scopes[s].entries :
         /\ opener[s] = HomeOf(ast, d)
         /\ scopes[s].entries[i] = [name |-> ast[d].name, symbol |-> symbol[d]]

Opened == \E opener \in [DOMAIN scopes -> 1 .. Len(ast)] :
            Entered(opener) /\ Placed(opener) /\ Kept(opener)

(* Of the declarations of a name in a scope, the first has a symbol. *)
Claimed(d) ==
  \E e \in 1 .. d : /\ Declares(ast, e) /\ ast[e].name = ast[d].name
                    /\ HomeOf(ast, e) = HomeOf(ast, d) /\ symbol[e] # None

Claims == \A d \in 1 .. Len(ast) : Declares(ast, d) /\ Reached(d) => Claimed(d)

(* A use has the symbol of what it means. *)
Bound(n) ==
  IF Seen(ast, n) = {} THEN symbol[n] = None
  ELSE \E d \in Seen(ast, n) : Best(ast, n, d) /\ symbol[n] = symbol[d]

Bounds == \A n \in 1 .. Len(ast) : ast[n].kind \in Uses /\ Reached(n) => Bound(n)

(* What the passes know of a symbol, a node and a function. *)
Symbol == [node : Nat, type : Types \cup {Null}, mutable : BOOLEAN, op : Nat]

ValuesInv ==
  /\ arena \in Seq(Symbol)
  /\ symbol \in [1 .. Len(ast) -> Nat]
  /\ type \in [1 .. Len(ast) -> Types \cup {Null}]
  /\ returns \in Notes
  /\ errors \subseteq 1 .. Len(ast)
  /\ fault \in 0 .. Len(ast)

NamesInv ==
  /\ ScopesInv
  /\ SymbolsInv
  /\ Opened
  /\ Claims
  /\ Bounds

Inv == StackInv /\ ValuesInv /\ NamesInv

-------------------------------------------------------------------------------
(* Which names a step reaches: the node of its item or none.               *)

Reaches(n)  == \A m \in 1 .. Len(ast) : Named(ast, m) => (Reached(m)' <=> Reached(m) \/ m = n)
ReachesNone == \A m \in 1 .. Len(ast) : Named(ast, m) => (Reached(m)' <=> Reached(m))

LEMMA NextNodeReaches ==
  ASSUME StackInv, NextNode
  PROVE  /\ Reaches(This) /\ (This \notin Children(ast, 1) => ~Reached(This))
         /\ This \in 2 .. Len(ast) /\ Frontier' > This
<1>1. /\ This \in 2 .. Len(ast) /\ IsProgram(ast) /\ pass = "resolve" /\ UNCHANGED <<ast, pass>>
      /\ Frontier = This /\ Follows(ast, This, Frontier') /\ Len(ast) \in Nat
  BY StackTop DEF NextNode, StackInv
<1>2. ASSUME NEW m \in 1 .. Len(ast), Named(ast, m)
      PROVE  ~Bare(ast, m)
  BY <1>1, <1>2, NamedFacts
<1>3. ASSUME NEW m \in 1 .. Len(ast), Named(ast, m)
      PROVE  m < Frontier' <=> m < Frontier \/ m = This
  BY <1>1, <1>2, <1>3 DEF Follows
<1>4. ASSUME NEW m \in 1 .. Len(ast), Named(ast, m)
      PROVE  Reached(m)' <=> Reached(m) \/ m = This
  BY <1>1, <1>3, <1>4 DEF Reached
<1> QED BY <1>1, <1>4 DEF Reaches, Reached, Follows

LEMMA ResolveScopeReaches ==
  ASSUME StackInv, ResolveScope
  PROVE  ReachesNone
<1>1. /\ This \in 2 .. Len(ast) /\ IsProgram(ast) /\ pass = "resolve" /\ UNCHANGED <<ast, pass>>
      /\ Frontier = This /\ Len(ast) \in Nat /\ todo # <<>>
      /\ IF ast[This].kind = "for" THEN Frontier' = This ELSE Follows(ast, This, Frontier')
      /\ ast[This].kind \in {"fn", "for", "while", "block"}
  BY ResolveScopeStack, StackTop DEF ResolveScope, ResolverFrame, StackInv, At, Node
<1>2. ASSUME NEW m \in 1 .. Len(ast), Named(ast, m)
      PROVE  Reached(m)' <=> Reached(m)
  <2>1. ~Bare(ast, m) /\ ast[m].kind \in Variables \cup Uses \cup {"fn"}
    BY <1>1, <1>2, NamedFacts
  <2>2. m = This /\ ast[This].kind # "for" => m \in Children(ast, 1)
    BY <1>1, <1>2, <2>1 DEF Named, Declares, Variables, Uses
  <2>3. m < Frontier' <=> m < Frontier \/ (m = This /\ ast[This].kind # "for")
    BY <1>1, <2>1 DEF Follows
  <2> QED BY <1>1, <2>2, <2>3 DEF Reached
<1> QED BY <1>2 DEF ReachesNone

LEMMA ExitScopeReaches ==
  ASSUME StackInv, ExitScope
  PROVE  ReachesNone
<1>1. /\ This \in 2 .. Len(ast) /\ IsProgram(ast) /\ pass = "resolve" /\ UNCHANGED <<ast, pass>>
      /\ End(ast, This) \in Nat /\ Len(ast) \in Nat
      /\ Frontier = End(ast, This) + 1 /\ Follows(ast, End(ast, This), Frontier')
  BY ExitScopeStack, StackTop DEF ExitScope, ResolverFrame, StackInv
<1>2. ASSUME NEW m \in 1 .. Len(ast), Named(ast, m)
      PROVE  Reached(m)' <=> Reached(m)
  <2>1. ~Bare(ast, m)
    BY <1>1, <1>2, NamedFacts
  <2>2. m < Frontier' <=> m < Frontier
    BY <1>1, <2>1 DEF Follows
  <2> QED BY <1>1, <2>2 DEF Reached
<1> QED BY <1>2 DEF ReachesNone

LEMMA CollectReaches ==
  ASSUME StackInv, CollectFunction
  PROVE  Reaches(This) /\ ~Reached(This) /\ This \in 2 .. Len(ast) /\ This \in Children(ast, 1)
<1>1. FlatStep /\ pass = "collect" /\ todo # <<>>
  BY DEF FlatStep, CollectFunction, At
<1>2. /\ This \in 2 .. Len(ast) /\ IsProgram(ast) /\ UNCHANGED <<ast, pass>>
      /\ End(ast, This) \in This .. Len(ast) /\ Len(ast) \in Nat /\ This \in Children(ast, 1)
      /\ Frontier = This /\ Follows(ast, End(ast, This), Frontier')
  BY <1>1, FlatStack, StackTop DEF StackInv
<1>3. ASSUME NEW m \in Children(ast, 1)
      PROVE  m < Frontier' <=> m < Frontier \/ m = This
  <2>1. 1 \in 1 .. Len(ast) /\ m \in 1 .. Len(ast) /\ m \in 2 .. Len(ast)
    BY <1>2, KidFacts, RootIsAround
  <2>2. ~Bare(ast, m)
    BY <1>2, <2>1, NamedFacts DEF Named, Declares
  <2>3. ~(m \in This + 1 .. End(ast, This))
    <3>1. Par(ast, m) = 1 /\ \A k \in This + 1 .. End(ast, This) : Par(ast, k) >= This
      BY <1>2, <2>1, OneParent, EndFacts
    <3> QED BY <1>2, <3>1
  <2> QED BY <1>2, <2>1, <2>2, <2>3 DEF Follows
<1>4. ASSUME NEW m \in 1 .. Len(ast)
      PROVE  Reached(m)' <=> Reached(m) \/ m = This
  BY <1>1, <1>2, <1>3 DEF Reached
<1>5. ~Reached(This)
  BY <1>1, <1>2 DEF Reached
<1> QED BY <1>2, <1>4, <1>5 DEF Reaches

(* The passes follow one another when all names have been reached. *)
LEMMA NextPassReaches ==
  ASSUME StackInv, NextPass
  PROVE  /\ ReachesNone /\ StackInv' /\ UNCHANGED ast
         /\ HomeIn(ast, todo, 1)' = 1
         /\ pass = "resolve" => HomeIn(ast, todo, 1) = 1
         /\ Frontier' \in Nat /\ Frontier' > 1
<1>1. /\ IsProgram(ast) /\ UNCHANGED ast /\ Len(ast) \in Nat /\ 1 \in 1 .. Len(ast)
      /\ DOMAIN ast = 1 .. Len(ast)
  BY ProgramFacts, RootIsAround DEF StackInv, NextPass
<1>2. StackInv' /\ Follows(ast, 1, Frontier') /\ HomeIn(ast, todo, 1)' = 1
  BY <1>1, StartStack DEF NextPass, StackInv
<1>3. Frontier = Len(ast) + 1 /\ HomeIn(ast, todo, 1) = 1
  BY DEF NextPass, Frontier, LoOf, HomeIn
<1>4. \/ pass = "collect" /\ pass' = "resolve"
      \/ pass = "resolve" /\ pass' = "sign"
      \/ pass = "sign" /\ pass' = "check"
  BY DEF NextPass
<1>5. ASSUME NEW m \in 1 .. Len(ast), Named(ast, m)
      PROVE  Reached(m)' <=> Reached(m)
  <2>1. ~Bare(ast, m) /\ m # 1
    <3>1. ast[1].kind = "program"
      BY <1>1, RootIsAround
    <3> QED BY <1>1, <1>5, <3>1, NamedFacts DEF Named, Uses
  <2>2. ~(m < Frontier')
    BY <1>2, <2>1 DEF Follows
  <2>3. m < Frontier
    BY <1>1, <1>3
  <2> QED BY <1>1, <1>4, <2>2, <2>3 DEF Reached
<1>6. Frontier' \in Nat /\ Frontier' > 1
  BY <1>2 DEF Follows
<1> QED BY <1>1, <1>2, <1>3, <1>5, <1>6 DEF ReachesNone

-------------------------------------------------------------------------------
(* Steps that declare nothing                                              *)

SameNodes ==
  /\ Len(arena') = Len(arena) /\ DOMAIN arena' = DOMAIN arena
  /\ \A s \in DOMAIN arena : arena'[s].node = arena[s].node

SameSymbols == \A n \in 1 .. Len(ast) : ast[n].kind \notin Uses => symbol'[n] = symbol[n]

Quiet == UNCHANGED ast /\ SameNodes /\ SameSymbols

LEMMA DeclaredSame ==
  ASSUME IsProgram(ast), SameSymbols
  PROVE  \A d \in 1 .. Len(ast) : Declares(ast, d) => symbol'[d] = symbol[d]
BY NamedFacts DEF SameSymbols

LEMMA QuietKeeps ==
  ASSUME IsProgram(ast), Quiet, UNCHANGED scopes, NEW opener
  PROVE  /\ Entered(opener) => Entered(opener)'
         /\ SymbolsInv /\ Kept(opener) => Kept(opener)'
<1>1. Entered(opener) => Entered(opener)'
  BY DEF Quiet, Entered
<1>2. ASSUME SymbolsInv, Kept(opener)
      PROVE  Kept(opener)'
  <2>1. ASSUME NEW s \in DOMAIN scopes, NEW i \in DOMAIN scopes[s].entries
        PROVE  LET e == scopes[s].entries[i]
               IN /\ e.symbol \in DOMAIN arena'
                  /\ ast[arena'[e.symbol].node].name = e.name
                  /\ HomeOf(ast, arena'[e.symbol].node) = opener[s]
    <3> DEFINE e == scopes[s].entries[i]
    <3>1. /\ e.symbol \in DOMAIN arena /\ ast[arena[e.symbol].node].name = e.name
          /\ HomeOf(ast, arena[e.symbol].node) = opener[s]
      BY <1>2 DEF Kept
    <3>2. DOMAIN arena' = DOMAIN arena /\ \A x \in DOMAIN arena : arena'[x].node = arena[x].node
      BY DEF Quiet, SameNodes
    <3> QED BY <3>1, <3>2
  <2>2. ASSUME NEW d \in 1 .. Len(ast), Declares(ast, d), symbol'[d] # None
        PROVE  \E s \in DOMAIN scopes : \E i \in DOMAIN scopes[s].entries :
                 /\ opener[s] = HomeOf(ast, d)
                 /\ scopes[s].entries[i] = [name |-> ast[d].name, symbol |-> symbol'[d]]
    BY <1>2, <2>2, DeclaredSame DEF Quiet, Kept
  <2> QED BY <2>1, <2>2 DEF Kept, Quiet
<1> QED BY <1>1, <1>2

LEMMA QuietSymbols ==
  ASSUME IsProgram(ast), ValuesInv, SymbolsInv, Quiet,
         \A m \in 1 .. Len(ast) : Named(ast, m) /\ Reached(m) => Reached(m)',
         \A m \in 1 .. Len(ast) : symbol'[m] \in 0 .. Len(arena)
  PROVE  SymbolsInv'
<1>1. ASSUME NEW s \in DOMAIN arena
      PROVE  /\ arena'[s].node \in 1 .. Len(ast)
             /\ Declares(ast, arena'[s].node) /\ Reached(arena[s].node)'
             /\ symbol'[arena'[s].node] = s
  <2>1. /\ arena[s].node \in 1 .. Len(ast) /\ Declares(ast, arena[s].node)
        /\ Reached(arena[s].node) /\ symbol[arena[s].node] = s
    BY DEF SymbolsInv
  <2>2. arena'[s].node = arena[s].node
    BY DEF Quiet, SameNodes
  <2>3. \A n \in 1 .. Len(ast) : Declares(ast, n) /\ Reached(n) => Reached(n)' /\ symbol'[n] = symbol[n]
    BY DeclaredSame DEF Quiet, Named
  <2>4. \A n : n = arena'[s].node => (Reached(n)' <=> Reached(arena[s].node)')
    OBVIOUS
  <2> QED BY <2>1, <2>2, <2>3, <2>4
<1>2. ASSUME NEW n \in 1 .. Len(ast), symbol'[n] # None
      PROVE  \/ Declares(ast, n) /\ arena'[symbol'[n]].node = n
             \/ ast[n].kind \in Uses
  <2>1. CASE symbol'[n] = symbol[n]
    <3>1. \/ Declares(ast, n) /\ arena[symbol[n]].node = n
          \/ ast[n].kind \in Uses
      BY <1>2, <2>1 DEF SymbolsInv
    <3>2. symbol[n] \in DOMAIN arena
      <4>1. symbol[n] \in 0 .. Len(arena) /\ symbol[n] # 0 /\ arena \in Seq(Symbol)
        BY <1>2, <2>1 DEF SymbolsInv, ValuesInv, None
      <4>2. DOMAIN arena = 1 .. Len(arena) /\ Len(arena) \in Nat
        BY <4>1, LenProperties
      <4> QED BY <4>1, <4>2
    <3> QED BY <2>1, <3>1, <3>2 DEF Quiet, SameNodes
  <2>2. CASE symbol'[n] # symbol[n]
    <3> QED BY <1>2, <2>2 DEF Quiet, SameSymbols, SymbolsInv
  <2> QED BY <2>1, <2>2
<1>3. UNCHANGED ast /\ DOMAIN arena' = DOMAIN arena /\ Len(arena') = Len(arena)
  BY DEF Quiet, SameNodes
<1>4. \A s \in DOMAIN arena' :
        /\ arena'[s].node \in 1 .. Len(ast')
        /\ Declares(ast', arena'[s].node) /\ Reached(arena[s].node)'
        /\ symbol'[arena'[s].node] = s
  BY <1>1, <1>3
<1>5. \A n \in 1 .. Len(ast') :
        /\ symbol'[n] \in 0 .. Len(arena')
        /\ symbol'[n] # None => \/ Declares(ast', n) /\ arena'[symbol'[n]].node = n
                               \/ ast'[n].kind \in Uses
  BY <1>2, <1>3
<1> QED BY <1>4, <1>5 DEF SymbolsInv

LEMMA QuietClaims ==
  ASSUME IsProgram(ast), Quiet, Claims,
         \A m \in 1 .. Len(ast) : Declares(ast, m) /\ Reached(m)' => Reached(m)
  PROVE  Claims'
<1>1. ASSUME NEW d \in 1 .. Len(ast), Declares(ast, d), Reached(d)'
      PROVE  \E e \in 1 .. d : /\ Declares(ast, e) /\ ast[e].name = ast[d].name
                               /\ HomeOf(ast, e) = HomeOf(ast, d) /\ symbol'[e] # None
  <2>1. PICK e \in 1 .. d : /\ Declares(ast, e) /\ ast[e].name = ast[d].name
                            /\ HomeOf(ast, e) = HomeOf(ast, d) /\ symbol[e] # None
    BY <1>1 DEF Claims, Claimed
  <2>2. e \in 1 .. Len(ast)
    BY ProgramFacts
  <2>3. symbol'[e] = symbol[e]
    BY <2>1, <2>2, DeclaredSame DEF Quiet
  <2> QED BY <2>1, <2>3
<1>2. UNCHANGED ast
  BY DEF Quiet
<1> QED BY <1>1, <1>2 DEF Claims, Claimed

LEMMA QuietBounds ==
  ASSUME IsProgram(ast), Quiet, Bounds, NEW m,
         \A n \in 1 .. Len(ast) : ast[n].kind \in Uses /\ n # m /\ Reached(n)' =>
           Reached(n) /\ symbol'[n] = symbol[n],
         m \in 1 .. Len(ast) /\ ast[m].kind \in Uses => Bound(m)'
  PROVE  Bounds'
<1>0. UNCHANGED ast
  BY DEF Quiet
<1>1. ASSUME NEW n \in 1 .. Len(ast), ast[n].kind \in Uses, Reached(n)', n # m
      PROVE  Bound(n)'
  <2>1. Bound(n) /\ symbol'[n] = symbol[n]
    BY <1>1 DEF Bounds
  <2>2. \A d \in Seen(ast, n) : symbol'[d] = symbol[d]
    BY DeclaredSame DEF Seen, Quiet
  <2> QED BY <1>0, <2>1, <2>2 DEF Bound
<1>2. ASSUME NEW n \in 1 .. Len(ast), ast[n].kind \in Uses, Reached(n)'
      PROVE  Bound(n)'
  BY <1>1, <1>2
<1> QED BY <1>0, <1>2 DEF Bounds

(* All that a use shows has been reached before the use is. *)
LEMMA SeenReached ==
  ASSUME StackInv, pass = "resolve", Frontier \in Int, NEW n \in 1 .. Len(ast), n <= Frontier,
         NEW d \in Seen(ast, n)
  PROVE  d \in 1 .. Len(ast) /\ Declares(ast, d) /\ Reached(d)
BY DEF Seen, Reached

(* A step that changes neither scopes nor symbols. *)
LEMMA QuietNames ==
  ASSUME IsProgram(ast), ValuesInv, NamesInv, UNCHANGED <<scopes, symbol, ast>>,
         SameNodes, ScopesInv', ReachesNone,
         \A opener \in [DOMAIN scopes -> 1 .. Len(ast)] :
           Entered(opener) /\ Placed(opener) => Placed(opener)'
  PROVE  NamesInv'
<1>1. Quiet
  BY DEF Quiet, SameSymbols
<1>2. \A m \in 1 .. Len(ast) : Named(ast, m) => (Reached(m)' <=> Reached(m))
  BY DEF ReachesNone
<1>4. SymbolsInv'
  BY <1>1, <1>2, QuietSymbols DEF NamesInv, SymbolsInv
<1>5. Opened'
  <2>1. PICK opener \in [DOMAIN scopes -> 1 .. Len(ast)] :
          Entered(opener) /\ Placed(opener) /\ Kept(opener)
    BY DEF NamesInv, Opened
  <2>2. Entered(opener)' /\ Kept(opener)' /\ Placed(opener)'
    BY <1>1, <2>1, QuietKeeps DEF NamesInv
  <2> QED BY <2>2 DEF Opened
<1>6. Claims'
  <2>1. \A m \in 1 .. Len(ast) : Declares(ast, m) /\ Reached(m)' => Reached(m)
    BY <1>2 DEF Named
  <2> QED BY <1>1, <2>1, QuietClaims DEF NamesInv
<1>7. Bounds'
  <2>1. \A n \in 1 .. Len(ast) : ast[n].kind \in Uses /\ n # 0 /\ Reached(n)' =>
          Reached(n) /\ symbol'[n] = symbol[n]
    BY <1>2 DEF Named
  <2>2. 0 \in 1 .. Len(ast) /\ ast[0].kind \in Uses => Bound(0)'
    OBVIOUS
  <2> QED BY <1>1, <2>1, <2>2, QuietBounds DEF NamesInv
<1> QED BY <1>4, <1>5, <1>6, <1>7 DEF NamesInv

LEMMA SameScopes ==
  ASSUME NamesInv, UNCHANGED <<scopes, current>>
  PROVE  ScopesInv'
BY DEF NamesInv, ScopesInv

(* The steps of the passes after name resolution. *)
LEMMA LaterNames ==
  ASSUME IsProgram(ast), ValuesInv, NamesInv, UNCHANGED <<scopes, current, symbol, ast>>,
         SameNodes, pass \notin {"collect", "resolve"}, pass' \notin {"collect", "resolve"}
  PROVE  NamesInv'
<1>1. ReachesNone
  BY DEF ReachesNone, Reached
<1>2. ASSUME NEW opener, Placed(opener)
      PROVE  Placed(opener)'
  BY <1>2 DEF Placed
<1> QED BY <1>1, <1>2, QuietNames, SameScopes

LEMMA NextPassNames ==
  ASSUME StackInv, ValuesInv, NamesInv, NextPass
  PROVE  NamesInv'
<1>1. /\ IsProgram(ast) /\ ReachesNone /\ HomeIn(ast, todo, 1)' = 1
      /\ pass = "resolve" => HomeIn(ast, todo, 1) = 1
      /\ Frontier' \in Nat /\ Frontier' > 1
  BY NextPassReaches DEF StackInv
<1>2. /\ UNCHANGED <<scopes, current, symbol, ast, arena>> /\ SameNodes
      /\ \/ pass = "collect" /\ pass' = "resolve"
         \/ pass = "resolve" /\ pass' = "sign"
         \/ pass = "sign" /\ pass' = "check"
  BY DEF NextPass, tableVars, SameNodes
<1>3. ASSUME NEW opener, Entered(opener), Placed(opener)
      PROVE  Placed(opener)'
  BY <1>1, <1>2, <1>3 DEF Placed, Entered
<1> QED BY <1>1, <1>2, <1>3, QuietNames, SameScopes

LEMMA ResolveChildrenNames ==
  ASSUME StackInv, ValuesInv, NamesInv, ResolveChildren
  PROVE  NamesInv'
<1>1. /\ NextNode /\ IsProgram(ast) /\ pass = "resolve" /\ UNCHANGED <<ast, pass>>
      /\ Frontier = This
      /\ HomeIn(ast, todo, 1)' = HomeIn(ast, todo, 1)
  BY NodeStack DEF StackInv, NextNode
<1>2. Reaches(This) /\ This \in 2 .. Len(ast) /\ Frontier' > This
  BY <1>1, NextNodeReaches
<1>3. /\ UNCHANGED <<scopes, current, symbol, ast, arena>> /\ SameNodes /\ todo # <<>>
      /\ Top.at = "visit"
      /\ ast[This].kind \in {"if", "return", "assign", "add", "print", "literal"}
  BY DEF ResolveChildren, tableVars, SameNodes, ResolverFrame, At, Node
<1>4. ~Named(ast, This)
  <2>1. This \in 1 .. Len(ast)
    BY <1>2
  <2>2. Named(ast, This) => ast[This].kind \in Variables \cup Uses \cup {"fn"}
    BY <1>1, <2>1, NamedFacts
  <2> QED BY <1>3, <2>2 DEF Variables, Uses
<1>5. ReachesNone
  BY <1>2, <1>4 DEF Reaches, ReachesNone
<1>6. todo[1].at = "visit"
  BY <1>3, StackTop
<1>7. ASSUME NEW opener \in [DOMAIN scopes -> 1 .. Len(ast)], Placed(opener)
      PROVE  Placed(opener)'
  <2>1. \A s \in DOMAIN scopes : opener[s] < Frontier'
    <3>1. \A s \in DOMAIN scopes : opener[s] < Frontier
      BY <1>1, <1>3, <1>6, <1>7 DEF Placed
    <3>2. \A s \in DOMAIN scopes : opener[s] \in Nat
      BY <1>7
    <3>3. Frontier' \in Int
      BY <1>1, <1>2 DEF NextNode, Follows
    <3> QED BY <1>1, <1>2, <3>1, <3>2, <3>3
  <2> QED BY <1>1, <1>3, <1>7, <2>1 DEF Placed
<1> QED BY <1>1, <1>3, <1>5, <1>7, QuietNames, SameScopes

LEMMA ExitScopeNames ==
  ASSUME StackInv, ValuesInv, NamesInv, ExitScope
  PROVE  NamesInv'
<1>1. /\ IsProgram(ast) /\ pass = "resolve" /\ Top.at = "exit" /\ todo # <<>>
      /\ UNCHANGED <<ast, pass>>
      /\ Frontier = End(ast, This) + 1 /\ Follows(ast, End(ast, This), Frontier')
      /\ HomeIn(ast, todo, 1) = This /\ HomeIn(ast, todo, 1)' = Around(ast, Par(ast, This))
  BY ExitScopeStack DEF ExitScope, ResolverFrame, StackInv
<1>2. This \in 2 .. Len(ast) /\ End(ast, This) \in Nat /\ todo[1].at = "exit"
  BY <1>1, StackTop
<1>3. exitScope /\ ScopesInv /\ UNCHANGED <<scopes, symbol, arena>> /\ SameNodes
  BY DEF ExitScope, exitScope, NamesInv, SameNodes
<1>4. /\ ScopesInv'
      /\ current' = IF scopes[current].parent # None THEN scopes[current].parent ELSE current
  BY <1>3, ExitKeeps
<1>5. ASSUME NEW opener \in [DOMAIN scopes -> 1 .. Len(ast)], Entered(opener), Placed(opener)
      PROVE  Placed(opener)'
  <2>1. opener[current] = This /\ current \in DOMAIN scopes
    BY <1>1, <1>3, <1>5 DEF Placed, ScopesInv
  <2>2. current # 1
    BY <1>2, <1>5, <2>1 DEF Entered
  <2>3. opener[current'] = HomeIn(ast, todo, 1)'
    BY <1>1, <1>4, <1>5, <2>1, <2>2 DEF Entered
  <2>4. ASSUME NEW s \in DOMAIN scopes
        PROVE  opener[s] < Frontier'
    <3>1. opener[s] < Frontier /\ opener[s] \in Nat
      BY <1>1, <1>2, <1>5 DEF Placed
    <3> QED BY <1>1, <1>2, <3>1 DEF Follows
  <2> QED BY <1>1, <1>3, <2>3, <2>4 DEF Placed
<1> QED BY <1>1, <1>3, <1>4, <1>5, ExitScopeReaches, QuietNames

LEMMA ResolveScopeNames ==
  ASSUME StackInv, ValuesInv, NamesInv, ResolveScope
  PROVE  NamesInv'
<1>1. /\ IsProgram(ast) /\ pass = "resolve" /\ Top.at = "visit" /\ todo # <<>>
      /\ UNCHANGED <<ast, pass>> /\ Scoped(ast, This) /\ Frontier = This
      /\ IF ast[This].kind = "for" THEN todo' # <<>> /\ todo'[1].at = "iterator" /\ Frontier' = This
         ELSE Follows(ast, This, Frontier')
      /\ HomeIn(ast, todo, 1) = Around(ast, Par(ast, This)) /\ HomeIn(ast, todo, 1)' = This
  BY ResolveScopeStack DEF ResolveScope, ResolverFrame, StackInv, At
<1>2. This \in 2 .. Len(ast) /\ This \in 1 .. Len(ast) /\ todo[1].at = "visit"
  BY <1>1, StackTop
<1>3. enterScope /\ ScopesInv /\ UNCHANGED <<symbol, arena>> /\ SameNodes /\ SameSymbols
  BY DEF ResolveScope, enterScope, NamesInv, SameNodes, SameSymbols
<1>4. Quiet /\ \A m \in 1 .. Len(ast) : Named(ast, m) => (Reached(m)' <=> Reached(m))
  BY <1>1, <1>3, ResolveScopeReaches DEF Quiet, ReachesNone
<1>5. SymbolsInv'
  BY <1>1, <1>3, <1>4, QuietSymbols DEF NamesInv, SymbolsInv
<1>6. Claims'
  <2>1. \A m \in 1 .. Len(ast) : Declares(ast, m) /\ Reached(m)' => Reached(m)
    BY <1>4 DEF Named
  <2> QED BY <1>1, <1>4, <2>1, QuietClaims DEF NamesInv
<1>7. Bounds'
  <2>1. \A n \in 1 .. Len(ast) : ast[n].kind \in Uses /\ n # 0 /\ Reached(n)' =>
          Reached(n) /\ symbol'[n] = symbol[n]
    BY <1>3, <1>4 DEF Named
  <2>2. 0 \in 1 .. Len(ast) /\ ast[0].kind \in Uses => Bound(0)'
    OBVIOUS
  <2> QED BY <1>1, <1>4, <2>1, <2>2, QuietBounds DEF NamesInv
<1> DEFINE new == Len(scopes) + 1
<1>8. /\ ScopesInv' /\ DOMAIN scopes' = DOMAIN scopes \cup {new} /\ new \notin DOMAIN scopes
      /\ current' = new /\ scopes'[new].parent = current /\ scopes'[new].entries = <<>>
      /\ \A s \in DOMAIN scopes : scopes'[s] = scopes[s]
      /\ current \in DOMAIN scopes /\ 1 \in DOMAIN scopes /\ current # None
      /\ \A s \in DOMAIN scopes : scopes[s].parent \in DOMAIN scopes \cup {None}
  <2>1. current \in DOMAIN scopes /\ scopes \in Seq(AnyScope)
    BY <1>3 DEF ScopesInv
  <2>2. DOMAIN scopes = 1 .. Len(scopes) /\ Len(scopes) \in Nat
    BY <2>1, LenProperties
  <2>3. 1 \in DOMAIN scopes /\ current # None
    BY <2>1, <2>2 DEF None
  <2>4. \A s \in DOMAIN scopes : scopes[s].parent \in DOMAIN scopes \cup {None}
    <3>1. \A s \in DOMAIN scopes : scopes[s].parent \in 0 .. s - 1
      BY <1>3 DEF ScopesInv
    <3> QED BY <2>2, <3>1 DEF None
  <2> QED BY <1>3, <2>1, <2>3, <2>4, EnterKeeps
<1> HIDE DEF new
<1>9. Opened'
  <2>1. PICK opener \in [DOMAIN scopes -> 1 .. Len(ast)] :
          Entered(opener) /\ Placed(opener) /\ Kept(opener)
    BY DEF NamesInv, Opened
  <2>2. PICK next \in [DOMAIN scopes' -> 1 .. Len(ast)] :
          next[new] = This /\ \A s \in DOMAIN scopes : next[s] = opener[s]
    <3> DEFINE added == [s \in DOMAIN scopes' |-> IF s = new THEN This ELSE opener[s]]
    <3>1. /\ added \in [DOMAIN scopes' -> 1 .. Len(ast)]
          /\ added[new] = This /\ \A s \in DOMAIN scopes : added[s] = opener[s]
      BY <1>2, <1>8
    <3> QED BY <3>1
  <2>3. \A s \in DOMAIN scopes : opener[s] < This /\ opener[s] \in Nat
    BY <1>1, <1>2, <2>1 DEF Placed
  <2>4. opener[current] = Around(ast, Par(ast, This)) /\ opener[1] = 1
    BY <1>1, <2>1 DEF Placed, Entered
  <2>5. Entered(next)'
    <3>1. next[1] = 1
      BY <1>8, <2>2, <2>4
    <3>2. \A s \in DOMAIN scopes' : Scoped(ast, next[s]) /\ next[s] \in 1 .. Len(ast)
      BY <1>1, <1>2, <1>8, <2>1, <2>2 DEF Entered
    <3>3. ASSUME NEW s \in DOMAIN scopes', s # 1
          PROVE  /\ scopes'[s].parent # None /\ next[s] # 1
                 /\ next[scopes'[s].parent] = Around(ast, Par(ast, next[s]))
      <4>1. CASE s = new
        BY <1>2, <1>8, <2>2, <2>4, <4>1
      <4>2. CASE s # new
        <5>1. s \in DOMAIN scopes /\ scopes'[s] = scopes[s] /\ next[s] = opener[s]
          BY <1>8, <2>2, <4>2
        <5>2. /\ scopes[s].parent # None /\ opener[s] # 1
              /\ opener[scopes[s].parent] = Around(ast, Par(ast, opener[s]))
          BY <2>1, <3>3, <5>1 DEF Entered
        <5>3. scopes[s].parent \in DOMAIN scopes
          BY <1>8, <5>1, <5>2
        <5> QED BY <2>2, <5>1, <5>2, <5>3
      <4> QED BY <4>1, <4>2
    <3>4. \A s, t \in DOMAIN scopes' : next[s] = next[t] => s = t
      <4>1. \A s, t \in DOMAIN scopes : opener[s] = opener[t] => s = t
        BY <2>1 DEF Entered
      <4>2. \A s \in DOMAIN scopes : next[s] # This
        BY <1>2, <2>2, <2>3
      <4> QED BY <1>8, <2>2, <4>1, <4>2
    <3> QED BY <1>1, <3>1, <3>2, <3>3, <3>4 DEF Entered
  <2>6. Placed(next)'
    <3>1. \A s \in DOMAIN scopes' : next[s] <= This
      BY <1>2, <1>8, <2>2, <2>3
    <3>2. ast[This].kind # "for" => \A s \in DOMAIN scopes' : next[s] < Frontier'
      <4>1. \A s \in DOMAIN scopes' : next[s] \in Nat
        BY <2>2
      <4> QED BY <1>1, <1>2, <3>1, <4>1 DEF Follows
    <3>3. ast[This].kind = "for" =>
            \A s \in DOMAIN scopes' : \/ next[s] < Frontier'
                                      \/ next[s] = Frontier' /\ todo' # <<>> /\ todo'[1].at = "iterator"
      <4>1. \A s \in DOMAIN scopes' : next[s] \in Nat
        BY <2>2
      <4> QED BY <1>1, <1>2, <3>1, <4>1
    <3> QED BY <1>1, <1>8, <2>2, <3>2, <3>3 DEF Placed
  <2>7. Kept(next)'
    <3>1. ASSUME NEW s \in DOMAIN scopes', NEW i \in DOMAIN scopes'[s].entries
          PROVE  LET e == scopes'[s].entries[i]
                 IN /\ e.symbol \in DOMAIN arena
                    /\ ast[arena[e.symbol].node].name = e.name
                    /\ HomeOf(ast, arena[e.symbol].node) = next[s]
      <4>1. s # new
        <5>1. DOMAIN (<<>>) = {}
          OBVIOUS
        <5> QED BY <1>8, <3>1, <5>1
      <4>2. s \in DOMAIN scopes /\ scopes'[s] = scopes[s] /\ next[s] = opener[s]
        BY <1>8, <2>2, <4>1
      <4>3. i \in DOMAIN scopes[s].entries /\ scopes'[s].entries[i] = scopes[s].entries[i]
        BY <3>1, <4>2
      <4>4. Kept(opener)
        BY <2>1
      <4>5. LET e == scopes[s].entries[i]
            IN /\ e.symbol \in DOMAIN arena
               /\ ast[arena[e.symbol].node].name = e.name
               /\ HomeOf(ast, arena[e.symbol].node) = opener[s]
        BY <4>2, <4>3, <4>4 DEF Kept
      <4> QED BY <4>2, <4>3, <4>5
    <3>2. ASSUME NEW d \in 1 .. Len(ast), Declares(ast, d), symbol[d] # None
          PROVE  \E s \in DOMAIN scopes' : \E i \in DOMAIN scopes'[s].entries :
                   /\ next[s] = HomeOf(ast, d)
                   /\ scopes'[s].entries[i] = [name |-> ast[d].name, symbol |-> symbol[d]]
      BY <1>8, <2>1, <2>2, <3>2 DEF Kept
    <3> QED BY <1>1, <1>3, <3>1, <3>2 DEF Kept
  <2> QED BY <1>1, <2>2, <2>5, <2>6, <2>7 DEF Opened
<1> QED BY <1>5, <1>6, <1>7, <1>8, <1>9 DEF NamesInv

-------------------------------------------------------------------------------
(* Declarations                                                            *)

(* A declaration, that of a function of the program or that of a variable.  *)
Declaring ==
  /\ StackInv /\ ValuesInv /\ NamesInv /\ Declare /\ UNCHANGED <<ast, pass>>
  /\ pass \in {"collect", "resolve"} /\ Frontier = This
  /\ This \in 1 .. Len(ast) /\ Declares(ast, This)
  /\ Reaches(This) /\ ~Reached(This)
  /\ HomeOf(ast, This) = IF pass = "resolve" THEN HomeIn(ast, todo, 1) ELSE 1
  /\ pass = "resolve" => HomeIn(ast, todo, 1)' = HomeIn(ast, todo, 1) /\ Frontier' \in Int /\ Frontier' > This

LEMMA DeclarationDeclares ==
  ASSUME StackInv, ValuesInv, NamesInv, ResolveDeclaration
  PROVE  Declaring
<1>1. NextNode /\ IsProgram(ast)
  BY NodeStack DEF StackInv
<1>2. /\ todo # <<>> /\ pass = "resolve" /\ UNCHANGED <<ast, pass>> /\ Frontier = This
      /\ HomeIn(ast, todo, 1)' = HomeIn(ast, todo, 1)
      /\ IF Top.at = "iterator" THEN ast[This].kind = "for" /\ HomeIn(ast, todo, 1) = This
         ELSE HomeIn(ast, todo, 1) = Around(ast, Par(ast, This))
  BY <1>1 DEF NextNode
<1>3. Reaches(This) /\ This \in 2 .. Len(ast) /\ Frontier' > This
      /\ (This \notin Children(ast, 1) => ~Reached(This))
  BY <1>1, NextNodeReaches
<1>4. Frontier' \in Int
  BY <1>1, <1>3 DEF NextNode, Follows
<1>5. /\ Declare
      /\ \/ Top.at = "visit" /\ ast[This].kind \in {"let", "param"}
         \/ Top.at = "iterator" /\ ast[This].kind = "for"
  BY DEF ResolveDeclaration, At, Node
<1>6. This \in 1 .. Len(ast) /\ This \notin Children(ast, 1)
  BY <1>1, <1>3, <1>5, NamedFacts
<1>7. HomeOf(ast, This) = HomeIn(ast, todo, 1)
  <2>1. HomeOf(ast, This) = Around(ast, This)
    BY <1>6 DEF HomeOf
  <2>2. CASE ast[This].kind = "for"
    BY <1>1, <1>2, <1>5, <1>6, <2>1, <2>2, AroundSteps DEF Scoped, WithBody
  <2>3. CASE ast[This].kind \in {"let", "param"}
    BY <1>1, <1>2, <1>5, <1>6, <2>1, <2>3, AroundSteps DEF Scoped, WithBody
  <2> QED BY <1>5, <2>2, <2>3
<1> QED BY <1>2, <1>3, <1>4, <1>5, <1>6, <1>7 DEF Declaring, Declares, Variables

LEMMA CollectDeclares ==
  ASSUME StackInv, ValuesInv, NamesInv, CollectFunction
  PROVE  Declaring
<1>1. /\ pass = "collect" /\ Declare /\ UNCHANGED <<ast, pass>> /\ FlatStep
  BY DEF CollectFunction, At, ResolverFrame, FlatStep
<1>2. Reaches(This) /\ ~Reached(This) /\ This \in 2 .. Len(ast) /\ This \in Children(ast, 1)
  BY CollectReaches
<1>3. Frontier = This
  BY <1>1, FlatStack
<1> QED BY <1>1, <1>2, <1>3 DEF Declaring, Declares, HomeOf

LEMMA DeclaringFacts ==
  ASSUME Declaring
  PROVE  /\ IsProgram(ast) /\ Len(ast) \in Nat /\ ast[This].kind \notin Uses
         /\ ast[This].name \in Spellings
         /\ \A e \in 1 .. Len(ast) :
              Declares(ast, e) /\ Reached(e) /\ HomeOf(ast, e) = HomeOf(ast, This) => e < This
         /\ \A n \in 1 .. Len(ast) : ast[n].kind \in Uses /\ Reached(n) =>
              \A d \in Seen(ast, n) : d # This
         /\ \A m \in 1 .. Len(ast) : Named(ast, m) => (Reached(m)' <=> Reached(m) \/ m = This)
<1>1. IsProgram(ast) /\ Len(ast) \in Nat /\ ast[This].name \in Spellings
  BY ProgramFacts DEF Declaring, StackInv, ProgramNode
<1>2. ast[This].kind \notin Uses
  BY <1>1, NamedFacts DEF Declaring
<1>3. ASSUME NEW e \in 1 .. Len(ast), Declares(ast, e), Reached(e),
             HomeOf(ast, e) = HomeOf(ast, This)
      PROVE  e < This
  <2>1. CASE pass = "collect"
    BY <1>3, <2>1 DEF Declaring, Reached
  <2>2. CASE pass = "resolve"
    <3>1. This \notin Children(ast, 1)
      BY <2>2 DEF Declaring, Reached
    <3>2. HomeOf(ast, This) # 1
      BY <1>1, <3>1, HomeFacts DEF Declaring
    <3>3. e \notin Children(ast, 1)
      BY <1>3, <3>2 DEF HomeOf
    <3> QED BY <1>3, <2>2, <3>3 DEF Declaring, Reached
  <2> QED BY <2>1, <2>2 DEF Declaring
<1>4. ASSUME NEW n \in 1 .. Len(ast), ast[n].kind \in Uses, Reached(n), NEW d \in Seen(ast, n)
      PROVE  d # This
  <2>1. n \notin Children(ast, 1)
    BY <1>1, <1>4, NamedFacts DEF Uses
  <2>2. pass = "resolve" /\ n < This /\ StackInv /\ Frontier = This
    BY <1>4, <2>1 DEF Declaring, Reached
  <2>3. Frontier \in Int /\ n <= Frontier
    BY <1>1, <2>2 DEF Declaring
  <2>4. Reached(d)
    BY <1>4, <2>2, <2>3, SeenReached
  <2> QED BY <2>4 DEF Declaring
<1> QED BY <1>1, <1>2, <1>3, <1>4 DEF Declaring, Reaches

(* The name is in the current scope already. *)
LEMMA RefusedNames ==
  ASSUME Declaring, Redefines(ast[This].name), UNCHANGED <<tableVars, symbol>>
  PROVE  NamesInv'
<1>0. /\ StackInv /\ ValuesInv /\ NamesInv /\ UNCHANGED <<ast, pass>>
      /\ pass \in {"collect", "resolve"} /\ Frontier = This /\ This \in 1 .. Len(ast)
      /\ Declares(ast, This) /\ ~Reached(This)
      /\ HomeOf(ast, This) = IF pass = "resolve" THEN HomeIn(ast, todo, 1) ELSE 1
      /\ pass = "resolve" => HomeIn(ast, todo, 1)' = HomeIn(ast, todo, 1) /\ Frontier' \in Int /\ Frontier' > This
  BY DEF Declaring
<1>1. /\ IsProgram(ast) /\ Len(ast) \in Nat /\ ast[This].kind \notin Uses
      /\ \A e \in 1 .. Len(ast) :
           Declares(ast, e) /\ Reached(e) /\ HomeOf(ast, e) = HomeOf(ast, This) => e < This
      /\ \A m \in 1 .. Len(ast) : Named(ast, m) => (Reached(m)' <=> Reached(m) \/ m = This)
  BY DeclaringFacts
<1>2. UNCHANGED <<scopes, current, arena, symbol>> /\ Quiet
  BY <1>0 DEF tableVars, Quiet, SameNodes, SameSymbols
<1>3. ScopesInv'
  BY <1>0, <1>2, SameScopes
<1>4. SymbolsInv'
  BY <1>0, <1>1, <1>2, QuietSymbols DEF NamesInv, SymbolsInv
<1>5. PICK opener \in [DOMAIN scopes -> 1 .. Len(ast)] :
        Entered(opener) /\ Placed(opener) /\ Kept(opener)
  BY <1>0 DEF NamesInv, Opened
<1>6. opener[current] = HomeOf(ast, This) /\ current \in DOMAIN scopes /\ Sound(scopes[current])
  BY <1>0, <1>5 DEF Placed, NamesInv, ScopesInv
<1>7. Opened'
  <2>1. Entered(opener)' /\ Kept(opener)'
    BY <1>0, <1>1, <1>2, <1>5, QuietKeeps DEF NamesInv
  <2>2. Placed(opener)'
    <3>1. ASSUME pass = "resolve", NEW s \in DOMAIN scopes
          PROVE  opener[s] < Frontier'
      <4>1. opener[s] <= This /\ opener[s] \in Nat
        BY <1>0, <1>5, <3>1 DEF Placed
      <4>2. Frontier' > This
        BY <1>0, <3>1
      <4> QED BY <1>0, <3>1, <4>1, <4>2
    <3> QED BY <1>0, <1>2, <1>5, <3>1 DEF Placed
  <2> QED BY <1>0, <1>2, <1>5, <2>1, <2>2 DEF Opened
<1>8. Claimed(This)
  <2>1. LookupLocal(scopes[current], ast[This].name) # None
    BY DEF Redefines
  <2>2. ast[This].name \in Names(scopes[current].entries)
    BY <1>6, <2>1, LocalIsExact
  <2>3. PICK i \in DOMAIN scopes[current].entries :
          scopes[current].entries[i].name = ast[This].name
    BY <2>2 DEF Names
  <2> DEFINE y == scopes[current].entries[i].symbol
             e == arena[y].node
  <2>4. /\ y \in DOMAIN arena /\ ast[e].name = ast[This].name
        /\ HomeOf(ast, e) = HomeOf(ast, This)
    BY <1>5, <1>6, <2>3 DEF Kept
  <2>5. e \in 1 .. Len(ast) /\ Declares(ast, e) /\ Reached(e) /\ symbol[e] = y /\ y # None
    <3>1. DOMAIN arena = 1 .. Len(arena)
      BY <1>0, LenProperties DEF ValuesInv
    <3>2. y \in 1 .. Len(arena) /\ y # None
      <4>1. y \in 1 .. Len(arena)
        BY <2>4, <3>1
      <4> HIDE DEF y
      <4> QED BY <4>1 DEF None
    <3>3. SymbolsInv
      BY <1>0 DEF NamesInv
    <3> HIDE DEF y
    <3> QED BY <3>1, <3>2, <3>3 DEF SymbolsInv
  <2>6. e < This
    BY <1>1, <2>4, <2>5
  <2> HIDE DEF e, y
  <2>7. e \in 1 .. This
    BY <1>0, <1>1, <2>5, <2>6
  <2> QED BY <2>4, <2>5, <2>7 DEF Claimed
<1>9. Claims'
  <2>1. \A d \in 1 .. Len(ast) : Declares(ast, d) /\ Reached(d)' => Claimed(d)
    BY <1>0, <1>1, <1>8 DEF Named, NamesInv, Claims
  <2> QED BY <1>0, <1>2, <2>1 DEF Claims, Claimed
<1>10. Bounds'
  <2>1. \A n \in 1 .. Len(ast) : ast[n].kind \in Uses /\ n # 0 /\ Reached(n)' =>
          Reached(n) /\ symbol'[n] = symbol[n]
    BY <1>1, <1>2 DEF Named
  <2>2. 0 \in 1 .. Len(ast) /\ ast[0].kind \in Uses => Bound(0)'
    OBVIOUS
  <2> QED BY <1>0, <1>1, <1>2, <2>1, <2>2, QuietBounds DEF NamesInv
<1> QED BY <1>3, <1>4, <1>7, <1>9, <1>10 DEF NamesInv

(* The table after a declaration, and who has the symbols. *)
LEMMA AddedTable ==
  ASSUME Declaring, addSymbol(ast[This].name, NewSymbol(This)),
         symbol' = [symbol EXCEPT ![This] = Len(arena) + 1]
  PROVE  LET new == Len(arena) + 1
         IN /\ ScopesInv' /\ DOMAIN scopes' = DOMAIN scopes /\ current' = current
            /\ \A s \in DOMAIN scopes :
                 /\ scopes'[s].parent = scopes[s].parent
                 /\ scopes'[s].entries =
                      IF s = current
                      THEN Append(scopes[s].entries, [name |-> ast[This].name, symbol |-> new])
                      ELSE scopes[s].entries
                 /\ scopes[s].entries \in Seq(Entry)
            /\ current \in DOMAIN scopes /\ [name |-> ast[This].name, symbol |-> new] \in Entry
            /\ new \in Nat /\ new # None /\ Len(arena') = new
            /\ DOMAIN arena' = DOMAIN arena \cup {new} /\ new \notin DOMAIN arena
            /\ DOMAIN arena = 1 .. Len(arena)
            /\ \A s \in DOMAIN arena : arena'[s] = arena[s]
            /\ arena'[new].node = This
            /\ symbol'[This] = new
            /\ \A n \in 1 .. Len(ast) : n # This => symbol'[n] = symbol[n]
<1>1. /\ ScopesInv /\ arena \in Seq(Symbol) /\ symbol \in [1 .. Len(ast) -> Nat]
      /\ This \in 1 .. Len(ast)
  BY DEF Declaring, NamesInv, ValuesInv
<1>2. Len(arena) \in Nat /\ DOMAIN arena = 1 .. Len(arena)
  BY <1>1, LenProperties
<1>3. ast[This].name \in Spellings
  BY DeclaringFacts
<1>4. arena' = Append(arena, NewSymbol(This))
  BY DEF addSymbol
<1>5. /\ Len(arena') = Len(arena) + 1 /\ DOMAIN arena' = 1 .. Len(arena) + 1
      /\ arena'[Len(arena) + 1] = NewSymbol(This)
      /\ \A s \in 1 .. Len(arena) : arena'[s] = arena[s]
  <2>1. NewSymbol(This) \in Symbol
    BY <1>1, DeclaringFacts DEF NewSymbol, Symbol, None
  <2> QED BY <1>1, <1>2, <1>4, <2>1, AppendProperties
<1>6. \A s \in DOMAIN scopes : scopes[s].entries \in Seq(Entry)
  BY <1>1 DEF ScopesInv, Sound, AnyScope
<1>7. current \in DOMAIN scopes
  BY <1>1 DEF ScopesInv
<1>8. /\ symbol'[This] = Len(arena) + 1
      /\ \A n \in 1 .. Len(ast) : n # This => symbol'[n] = symbol[n]
  BY <1>1
<1>9. /\ ScopesInv' /\ DOMAIN scopes' = DOMAIN scopes /\ current' = current
      /\ \A s \in DOMAIN scopes :
           /\ scopes'[s].parent = scopes[s].parent
           /\ scopes'[s].entries =
                IF s = current
                THEN Append(scopes[s].entries, [name |-> ast[This].name, symbol |-> Len(arena) + 1])
                ELSE scopes[s].entries
  BY <1>1, <1>2, <1>3, AddKeeps
<1>10. [name |-> ast[This].name, symbol |-> Len(arena) + 1] \in Entry
  BY <1>2, <1>3 DEF Entry, None
<1>11. arena'[Len(arena) + 1].node = This
  BY <1>5 DEF NewSymbol
<1> QED BY <1>2, <1>5, <1>6, <1>7, <1>8, <1>9, <1>10, <1>11 DEF None

LEMMA AddedNames ==
  ASSUME Declaring, addSymbol(ast[This].name, NewSymbol(This)),
         symbol' = [symbol EXCEPT ![This] = Len(arena) + 1]
  PROVE  NamesInv'
<1> DEFINE new == Len(arena) + 1
<1>0. /\ StackInv /\ ValuesInv /\ NamesInv /\ UNCHANGED <<ast, pass>>
      /\ pass \in {"collect", "resolve"} /\ Frontier = This /\ This \in 1 .. Len(ast)
      /\ Declares(ast, This) /\ ~Reached(This)
      /\ HomeOf(ast, This) = IF pass = "resolve" THEN HomeIn(ast, todo, 1) ELSE 1
      /\ pass = "resolve" => HomeIn(ast, todo, 1)' = HomeIn(ast, todo, 1) /\ Frontier' \in Int /\ Frontier' > This
  BY DEF Declaring
<1>1. /\ IsProgram(ast) /\ Len(ast) \in Nat /\ ast[This].kind \notin Uses
      /\ \A n \in 1 .. Len(ast) : ast[n].kind \in Uses /\ Reached(n) =>
           \A d \in Seen(ast, n) : d # This
      /\ \A m \in 1 .. Len(ast) : Named(ast, m) => (Reached(m)' <=> Reached(m) \/ m = This)
  BY DeclaringFacts
<1>2. /\ ScopesInv' /\ DOMAIN scopes' = DOMAIN scopes /\ current' = current
      /\ \A s \in DOMAIN scopes :
           /\ scopes'[s].parent = scopes[s].parent
           /\ scopes'[s].entries =
                IF s = current
                THEN Append(scopes[s].entries, [name |-> ast[This].name, symbol |-> new])
                ELSE scopes[s].entries
           /\ scopes[s].entries \in Seq(Entry)
      /\ current \in DOMAIN scopes /\ [name |-> ast[This].name, symbol |-> new] \in Entry
  BY AddedTable
<1>3. /\ new \in Nat /\ new # None /\ Len(arena') = new /\ DOMAIN arena = 1 .. Len(arena)
      /\ DOMAIN arena' = DOMAIN arena \cup {new} /\ new \notin DOMAIN arena
      /\ \A s \in DOMAIN arena : arena'[s] = arena[s]
      /\ arena'[new].node = This
      /\ symbol'[This] = new
      /\ \A n \in 1 .. Len(ast) : n # This => symbol'[n] = symbol[n]
  BY AddedTable
<1> HIDE DEF new
<1>4. SymbolsInv'
  <2>1. ASSUME NEW s \in DOMAIN arena', NEW n, n = arena'[s].node
        PROVE  n \in 1 .. Len(ast) /\ Declares(ast, n) /\ Reached(n)' /\ symbol'[n] = s
    <3>1. CASE s = new
      BY <1>0, <1>1, <1>3, <2>1, <3>1 DEF Named
    <3>2. CASE s # new
      <4>1. s \in DOMAIN arena /\ n = arena[s].node
        BY <1>3, <2>1, <3>2
      <4>2. n \in 1 .. Len(ast) /\ Declares(ast, n) /\ Reached(n) /\ symbol[n] = s
        BY <1>0, <4>1 DEF NamesInv, SymbolsInv
      <4>3. n # This
        BY <1>0, <4>2
      <4> QED BY <1>1, <1>3, <4>2, <4>3 DEF Named
    <3> QED BY <3>1, <3>2
  <2>2. ASSUME NEW n \in 1 .. Len(ast)
        PROVE  /\ symbol'[n] \in 0 .. Len(arena')
               /\ symbol'[n] # None => \/ Declares(ast, n) /\ arena'[symbol'[n]].node = n
                                      \/ ast[n].kind \in Uses
    <3>1. CASE n = This
      BY <1>0, <1>3, <3>1
    <3>2. CASE n # This
      <4>1. /\ symbol'[n] = symbol[n] /\ symbol[n] \in 0 .. Len(arena)
            /\ symbol[n] # None => \/ Declares(ast, n) /\ arena[symbol[n]].node = n
                                   \/ ast[n].kind \in Uses
        BY <1>0, <1>3, <3>2 DEF NamesInv, SymbolsInv
      <4>2. symbol[n] # None => symbol[n] \in DOMAIN arena
        BY <1>3, <4>1 DEF None
      <4>3. Len(arena) \in Nat /\ Len(arena') = Len(arena) + 1
        BY <1>0, <1>3, LenProperties DEF new, ValuesInv
      <4> QED BY <1>3, <4>1, <4>2, <4>3
    <3> QED BY <3>1, <3>2
  <2>3. \A s \in DOMAIN arena' : Reached(arena[s].node)'
    BY <2>1
  <2> QED BY <1>0, <2>1, <2>2, <2>3 DEF SymbolsInv
<1>5. Opened'
  <2>1. PICK opener \in [DOMAIN scopes -> 1 .. Len(ast)] :
          Entered(opener) /\ Placed(opener) /\ Kept(opener)
    BY <1>0 DEF NamesInv, Opened
  <2>2. opener[current] = HomeOf(ast, This)
    BY <1>0, <2>1 DEF Placed
  <2>3. Entered(opener)'
    BY <1>0, <1>2, <2>1 DEF Entered
  <2>4. Placed(opener)'
    <3>1. ASSUME pass = "resolve", NEW s \in DOMAIN scopes
          PROVE  opener[s] < Frontier'
      <4>1. opener[s] <= This /\ opener[s] \in Nat
        BY <1>0, <2>1, <3>1 DEF Placed
      <4> QED BY <1>0, <3>1, <4>1
    <3> QED BY <1>0, <1>2, <2>1, <3>1 DEF Placed
  <2>5. ASSUME NEW s \in DOMAIN scopes
        PROVE  /\ DOMAIN scopes'[s].entries =
                    IF s = current THEN DOMAIN scopes[s].entries \cup {Len(scopes[s].entries) + 1}
                    ELSE DOMAIN scopes[s].entries
               /\ \A i \in DOMAIN scopes[s].entries : scopes'[s].entries[i] = scopes[s].entries[i]
               /\ s = current => scopes'[s].entries[Len(scopes[s].entries) + 1] =
                                   [name |-> ast[This].name, symbol |-> new]
    <3> DEFINE old == scopes[s].entries
               e   == [name |-> ast[This].name, symbol |-> new]
    <3>1. old \in Seq(Entry) /\ e \in Entry
      BY <1>2
    <3>2. scopes'[s].entries = IF s = current THEN Append(old, e) ELSE old
      BY <1>2
    <3> HIDE DEF old, e
    <3>3. /\ DOMAIN old = 1 .. Len(old) /\ Len(old) \in Nat
          /\ DOMAIN Append(old, e) = 1 .. Len(old) + 1
          /\ \A i \in 1 .. Len(old) : Append(old, e)[i] = old[i]
          /\ Append(old, e)[Len(old) + 1] = e
      BY <3>1, AppendProperties, LenProperties
    <3>4. 1 .. Len(old) + 1 = 1 .. Len(old) \cup {Len(old) + 1}
      BY <3>3
    <3> QED BY <3>2, <3>3, <3>4 DEF old, e
  <2>6. ASSUME NEW s \in DOMAIN scopes, NEW i \in DOMAIN scopes'[s].entries, NEW e,
               e = scopes'[s].entries[i]
        PROVE  /\ e.symbol \in DOMAIN arena'
               /\ ast[arena'[e.symbol].node].name = e.name
               /\ HomeOf(ast, arena'[e.symbol].node) = opener[s]
    <3>1. CASE i \in DOMAIN scopes[s].entries
      <4>1. e = scopes[s].entries[i]
        BY <2>5, <2>6, <3>1
      <4>2. /\ e.symbol \in DOMAIN arena
            /\ ast[arena[e.symbol].node].name = e.name
            /\ HomeOf(ast, arena[e.symbol].node) = opener[s]
        BY <2>1, <3>1, <4>1 DEF Kept
      <4> QED BY <1>3, <4>2
    <3>2. CASE i \notin DOMAIN scopes[s].entries
      <4>1. s = current /\ e = [name |-> ast[This].name, symbol |-> new]
        BY <2>5, <2>6, <3>2
      <4> QED BY <1>3, <2>2, <4>1
    <3> QED BY <3>1, <3>2
  <2>7. ASSUME NEW d \in 1 .. Len(ast), Declares(ast, d), symbol'[d] # None
        PROVE  \E s \in DOMAIN scopes : \E i \in DOMAIN scopes'[s].entries :
                 /\ opener[s] = HomeOf(ast, d)
                 /\ scopes'[s].entries[i] = [name |-> ast[d].name, symbol |-> symbol'[d]]
    <3>1. CASE d = This
      <4>1. Len(scopes[current].entries) + 1 \in DOMAIN scopes'[current].entries
        BY <1>2, <2>5
      <4>2. scopes'[current].entries[Len(scopes[current].entries) + 1] =
              [name |-> ast[d].name, symbol |-> symbol'[d]]
        BY <1>2, <1>3, <2>5, <3>1
      <4>3. opener[current] = HomeOf(ast, d)
        BY <2>2, <3>1
      <4> QED BY <1>2, <4>1, <4>2, <4>3
    <3>2. CASE d # This
      <4>1. symbol'[d] = symbol[d]
        BY <1>3, <3>2
      <4>2. PICK s \in DOMAIN scopes : \E i \in DOMAIN scopes[s].entries :
              /\ opener[s] = HomeOf(ast, d)
              /\ scopes[s].entries[i] = [name |-> ast[d].name, symbol |-> symbol[d]]
        BY <2>1, <2>7, <4>1 DEF Kept
      <4>3. PICK i \in DOMAIN scopes[s].entries :
              /\ opener[s] = HomeOf(ast, d)
              /\ scopes[s].entries[i] = [name |-> ast[d].name, symbol |-> symbol[d]]
        BY <4>2
      <4>4. i \in DOMAIN scopes'[s].entries /\ scopes'[s].entries[i] = scopes[s].entries[i]
        BY <2>5
      <4> QED BY <4>1, <4>3, <4>4
    <3> QED BY <3>1, <3>2
  <2>8. Kept(opener)'
    <3>1. \A s \in DOMAIN scopes' : \A i \in DOMAIN scopes'[s].entries :
            LET e == scopes'[s].entries[i]
            IN /\ e.symbol \in DOMAIN arena'
               /\ ast[arena'[e.symbol].node].name = e.name
               /\ HomeOf(ast, arena'[e.symbol].node) = opener[s]
      BY <1>2, <2>6
    <3>2. \A d \in 1 .. Len(ast) : Declares(ast, d) /\ symbol'[d] # None =>
            \E s \in DOMAIN scopes' : \E i \in DOMAIN scopes'[s].entries :
              /\ opener[s] = HomeOf(ast, d)
              /\ scopes'[s].entries[i] = [name |-> ast[d].name, symbol |-> symbol'[d]]
      BY <1>2, <2>7
    <3> QED BY <1>0, <3>1, <3>2 DEF Kept
  <2> QED BY <1>0, <1>2, <2>1, <2>3, <2>4, <2>8 DEF Opened
<1>6. Claims'
  <2>1. ASSUME NEW d \in 1 .. Len(ast), Declares(ast, d), Reached(d)'
        PROVE  \E e \in 1 .. d : /\ Declares(ast, e) /\ ast[e].name = ast[d].name
                                 /\ HomeOf(ast, e) = HomeOf(ast, d) /\ symbol'[e] # None
    <3>1. CASE d = This
      <4>1. This \in 1 .. d
        BY <3>1
      <4> QED BY <1>3, <2>1, <3>1, <4>1
    <3>2. CASE d # This
      <4>1. PICK e \in 1 .. d : /\ Declares(ast, e) /\ ast[e].name = ast[d].name
                                /\ HomeOf(ast, e) = HomeOf(ast, d) /\ symbol[e] # None
        BY <1>0, <1>1, <2>1, <3>2 DEF Named, NamesInv, Claims, Claimed
      <4>2. symbol'[e] # None
        BY <1>1, <1>3, <4>1
      <4> QED BY <4>1, <4>2
    <3> QED BY <3>1, <3>2
  <2> QED BY <1>0, <2>1 DEF Claims, Claimed
<1>7. Bounds'
  <2>1. ASSUME NEW n \in 1 .. Len(ast), ast[n].kind \in Uses, Reached(n)'
        PROVE  Bound(n)'
    <3>1. n # This /\ Reached(n) /\ symbol'[n] = symbol[n]
      BY <1>1, <1>3, <2>1 DEF Named
    <3>2. Bound(n) /\ \A d \in Seen(ast, n) : symbol'[d] = symbol[d]
      BY <1>0, <1>1, <1>3, <2>1, <3>1 DEF NamesInv, Bounds, Seen
    <3> QED BY <1>0, <3>1, <3>2 DEF Bound
  <2> QED BY <1>0, <2>1 DEF Bounds
<1> QED BY <1>2, <1>4, <1>5, <1>6, <1>7 DEF NamesInv

LEMMA DeclaringNames ==
  ASSUME Declaring
  PROVE  NamesInv'
<1>1. \/ /\ addSymbol(ast[This].name, NewSymbol(This))
         /\ symbol' = [symbol EXCEPT ![This] = Len(arena) + 1]
      \/ Redefines(ast[This].name) /\ UNCHANGED <<tableVars, symbol>>
  BY DEF Declaring, Declare, Node
<1> QED BY <1>1, AddedNames, RefusedNames

-------------------------------------------------------------------------------
(* Uses: the walk of a lookup meets the scopes around the use from the inside *)
(* out, up to the one it ends at.                                          *)

Walk(skipped, last, name) ==
  /\ skipped \in SUBSET DOMAIN scopes /\ last \in DOMAIN scopes \cup {None}
  /\ current \in skipped \cup {last}
  /\ \A t \in skipped : /\ name \notin Names(scopes[t].entries)
                        /\ scopes[t].parent \in skipped \cup {last}

(* The scope around a scope that the walk meets. *)
LEMMA WalkStep ==
  ASSUME IsProgram(ast), ScopesInv, NEW opener \in [DOMAIN scopes -> 1 .. Len(ast)],
         Entered(opener), NEW n \in 1 .. Len(ast),
         NEW skipped, NEW last, NEW name, Walk(skipped, last, name),
         NEW t \in skipped, Inside(ast, opener[t], n), last # None \/ t # 1
  PROVE  LET u == scopes[t].parent
         IN /\ u \in skipped \cup {last} /\ u \in Nat /\ u < t
            /\ u = None => t = 1 /\ last = None
            /\ t # 1 => /\ u # None /\ opener[u] < opener[t] /\ Inside(ast, opener[u], n)
                        /\ \A a \in 1 .. Len(ast) :
                             Scoped(ast, a) /\ Inside(ast, a, n) /\ a < opener[t] => a <= opener[u]
<1> DEFINE u == scopes[t].parent
           b == opener[t]
<1>1. /\ u \in skipped \cup {last} /\ t \in DOMAIN scopes /\ skipped \subseteq DOMAIN scopes
      /\ last \in DOMAIN scopes \cup {None}
  BY DEF Walk
<1>2. /\ DOMAIN scopes = 1 .. Len(scopes) /\ Len(scopes) \in Nat /\ u \in 0 .. t - 1
      /\ Len(ast) \in Nat
  BY <1>1, LenProperties, ProgramFacts DEF ScopesInv
<1>3. u = None => last = None
  BY <1>1, <1>2 DEF None
<1>4. u = None => t = 1
  BY <1>1 DEF Entered
<1>5. ASSUME t # 1
      PROVE  /\ u # None /\ opener[u] < b /\ Inside(ast, opener[u], n)
             /\ \A a \in 1 .. Len(ast) :
                  Scoped(ast, a) /\ Inside(ast, a, n) /\ a < b => a <= opener[u]
  <2>1. u # None /\ b # 1 /\ opener[u] = Around(ast, Par(ast, b)) /\ b \in 1 .. Len(ast)
    BY <1>1, <1>5 DEF Entered
  <2>2. b \in 2 .. Len(ast)
    BY <1>2, <2>1
  <2> QED BY <1>2, <2>1, <2>2, AroundAround
<1> QED BY <1>1, <1>2, <1>3, <1>4, <1>5

(* The walk ends at a scope around the use, and every scope around the use    *)
(* that it has not passed is around that one.                              *)
LEMMA WalkMeets ==
  ASSUME IsProgram(ast), ScopesInv, NEW opener \in [DOMAIN scopes -> 1 .. Len(ast)],
         Entered(opener), NEW n \in 1 .. Len(ast), opener[current] = Around(ast, n),
         NEW skipped, NEW last, NEW name, Walk(skipped, last, name)
  PROVE  /\ last # None => Inside(ast, opener[last], n)
         /\ \A a \in 1 .. Len(ast) : Scoped(ast, a) /\ Inside(ast, a, n) =>
              \/ \E t \in skipped : opener[t] = a
              \/ last # None /\ a <= opener[last]
<1>1. /\ current \in DOMAIN scopes /\ DOMAIN scopes = 1 .. Len(scopes) /\ Len(scopes) \in Nat
      /\ Len(ast) \in Nat
  BY LenProperties, ProgramFacts DEF ScopesInv
<1>2. /\ skipped \subseteq DOMAIN scopes /\ last \in DOMAIN scopes \cup {None}
      /\ current \in skipped \cup {last}
  BY DEF Walk
<1>3. /\ Inside(ast, opener[current], n)
      /\ \A a \in 1 .. Len(ast) : Scoped(ast, a) /\ Inside(ast, a, n) => a <= opener[current]
  BY AroundFacts
<1> DEFINE Met == {t \in skipped \cup {last} : t # None /\ Inside(ast, opener[t], n)}
<1>4. current \in Met /\ Met \subseteq DOMAIN scopes /\ Met \subseteq Nat
  BY <1>1, <1>2, <1>3 DEF None
<1>5. last # None => last \in Met
  <2> SUFFICES ASSUME last # None, last \notin Met PROVE FALSE
    OBVIOUS
  <2> HIDE DEF Met
  <2>1. PICK t \in Met : \A s \in Met : t <= s
    BY <1>4, Least
  <2>2. t \in skipped /\ Inside(ast, opener[t], n) /\ t \in Nat
    BY <1>4, <2>1 DEF Met
  <2> DEFINE u == scopes[t].parent
  <2>3. u \in skipped \cup {last} /\ u \in Nat /\ u < t /\ u # None /\ t # 1
    BY <2>2, WalkStep DEF Entered, None
  <2>4. Inside(ast, opener[u], n)
    BY <2>2, <2>3, WalkStep
  <2>5. u \in Met
    BY <2>3, <2>4 DEF Met
  <2> QED BY <2>1, <2>2, <2>3, <2>5
<1>6. ASSUME NEW a \in 1 .. Len(ast), Scoped(ast, a), Inside(ast, a, n),
             \A t \in skipped : opener[t] # a
      PROVE  last # None /\ a <= opener[last]
  <2> SUFFICES ASSUME last # None => ~(a <= opener[last]) PROVE FALSE
    OBVIOUS
  <2> DEFINE Beyond == {t \in Met : a <= opener[t]}
  <2>1. current \in Beyond /\ Beyond \subseteq Nat
    BY <1>3, <1>4, <1>6
  <2> HIDE DEF Beyond, Met
  <2>2. PICK t \in Beyond : \A s \in Beyond : t <= s
    BY <2>1, Least
  <2>3. t \in Met /\ a <= opener[t] /\ t \in Nat
    BY <2>1, <2>2 DEF Beyond
  <2>4. t \in skipped /\ Inside(ast, opener[t], n) /\ t \in DOMAIN scopes
    BY <1>4, <1>6, <2>3 DEF Met
  <2>5. a < opener[t] /\ opener[t] \in Nat
    BY <1>6, <2>3, <2>4
  <2>6. t # 1
    BY <1>6, <2>5 DEF Entered
  <2> DEFINE u == scopes[t].parent
  <2>7. /\ u \in skipped \cup {last} /\ u \in Nat /\ u < t /\ u # None
        /\ Inside(ast, opener[u], n) /\ a <= opener[u]
    BY <1>6, <2>4, <2>5, <2>6, WalkStep
  <2>8. u \in Met
    BY <2>7 DEF Met
  <2>9. u \in Beyond
    BY <2>7, <2>8 DEF Beyond
  <2> QED BY <2>2, <2>3, <2>7, <2>9
<1>7. last # None => Inside(ast, opener[last], n)
  BY <1>5
<1> QED BY <1>6, <1>7

(* The entry for the name of a declaration in the scope it is at home in. *)
EntryFor(opener, d, y) ==
  \E s \in DOMAIN scopes : \E i \in DOMAIN scopes[s].entries :
    /\ opener[s] = HomeOf(ast, d)
    /\ scopes[s].entries[i] = [name |-> ast[d].name, symbol |-> y]

LEMMA HasEntry ==
  ASSUME IsProgram(ast), Claims, NEW opener, Kept(opener),
         NEW d \in 1 .. Len(ast), Declares(ast, d), Reached(d)
  PROVE  \E e \in 1 .. d :
           /\ e \in 1 .. Len(ast) /\ Declares(ast, e) /\ symbol[e] # None
           /\ EntryFor(opener, d, symbol[e])
<1>1. PICK e \in 1 .. d : /\ Declares(ast, e) /\ ast[e].name = ast[d].name
                          /\ HomeOf(ast, e) = HomeOf(ast, d) /\ symbol[e] # None
  BY DEF Claims, Claimed
<1>2. e \in 1 .. Len(ast)
  BY ProgramFacts
<1>3. EntryFor(opener, d, symbol[e])
  BY <1>1, <1>2 DEF Kept, EntryFor
<1> QED BY <1>1, <1>2, <1>3

(* A walk for the name of a use that ends at an entry or outside. *)
LEMMA LookupBinds ==
  ASSUME StackInv, ValuesInv, ScopesInv, SymbolsInv, Claims, pass = "resolve",
         NEW opener \in [DOMAIN scopes -> 1 .. Len(ast)], Entered(opener), Kept(opener),
         NEW n \in 1 .. Len(ast), Frontier = n, ast[n].kind \in Uses,
         opener[current] = Around(ast, n)
  PROVE  LET y == Lookup(ast[n].name)
         IN /\ y \in 0 .. Len(arena)
            /\ IF Seen(ast, n) = {} THEN y = None
               ELSE \E d \in Seen(ast, n) : Best(ast, n, d) /\ y = symbol[d]
<1> DEFINE name == ast[n].name
           y    == Lookup(name)
<1>1. IsProgram(ast) /\ Len(ast) \in Nat /\ name \in Spellings
  BY ProgramFacts DEF StackInv, ProgramNode
<1>2. FoundFrom(current, name, y)
  BY <1>1, WalkFinds
<1> HIDE DEF y
<1>3. PICK skipped \in SUBSET DOMAIN scopes, last \in DOMAIN scopes \cup {None} :
        /\ Walk(skipped, last, name)
        /\ IF last = None THEN y = None
           ELSE \E i \in DOMAIN scopes[last].entries :
                  scopes[last].entries[i] = [name |-> name, symbol |-> y]
  BY <1>2 DEF FoundFrom, Walk
<1>4. /\ last # None => Inside(ast, opener[last], n)
      /\ \A a \in 1 .. Len(ast) : Scoped(ast, a) /\ Inside(ast, a, n) =>
           \/ \E t \in skipped : opener[t] = a
           \/ last # None /\ a <= opener[last]
  BY <1>1, <1>3, WalkMeets
<1>5. ASSUME NEW d \in Seen(ast, n)
      PROVE  /\ d \in 1 .. Len(ast) /\ Declares(ast, d) /\ Reached(d) /\ ast[d].name = name
             /\ HomeOf(ast, d) \in 1 .. Len(ast) /\ Scoped(ast, HomeOf(ast, d))
             /\ Inside(ast, HomeOf(ast, d), n)
  <2>1. n <= Frontier /\ Frontier \in Int
    OBVIOUS
  <2>2. /\ d \in 1 .. Len(ast) /\ Declares(ast, d) /\ Reached(d) /\ ast[d].name = name
        /\ d \in Children(ast, 1) \/ Inside(ast, HomeOf(ast, d), n)
    BY <2>1, SeenReached DEF Seen
  <2>3. d \in Children(ast, 1) => Inside(ast, HomeOf(ast, d), n)
    BY <1>1, RootIsAround DEF HomeOf
  <2> QED BY <1>1, <2>2, <2>3, HomeFacts
<1>6. ASSUME NEW d \in Seen(ast, n)
      PROVE  /\ last # None /\ HomeOf(ast, d) <= opener[last]
             /\ HomeOf(ast, d) = opener[last] =>
                  \E e \in 1 .. d : /\ e \in 1 .. Len(ast) /\ Declares(ast, e)
                                    /\ symbol[e] # None /\ symbol[e] = y
  <2>0. PICK e \in 1 .. d :
           /\ e \in 1 .. Len(ast) /\ Declares(ast, e) /\ symbol[e] # None
           /\ EntryFor(opener, d, symbol[e])
    <3>1. d \in 1 .. Len(ast) /\ Declares(ast, d) /\ Reached(d) /\ IsProgram(ast)
      BY <1>1, <1>5
    <3> QED BY <3>1, HasEntry
  <2>1. PICK s \in DOMAIN scopes : \E i \in DOMAIN scopes[s].entries :
           /\ opener[s] = HomeOf(ast, d)
           /\ scopes[s].entries[i] = [name |-> ast[d].name, symbol |-> symbol[e]]
    BY <2>0 DEF EntryFor
  <2>2. PICK i \in DOMAIN scopes[s].entries :
           /\ opener[s] = HomeOf(ast, d)
           /\ scopes[s].entries[i] = [name |-> name, symbol |-> symbol[e]]
    BY <1>5, <2>1
  <2>3. name \in Names(scopes[s].entries)
    BY <2>2 DEF Names
  <2>4. s \notin skipped
    BY <1>3, <2>3 DEF Walk
  <2>5. \A t \in skipped : opener[t] # HomeOf(ast, d)
    BY <2>2, <2>4 DEF Entered
  <2>6. last # None /\ HomeOf(ast, d) <= opener[last]
    BY <1>4, <1>5, <2>5
  <2>7. ASSUME HomeOf(ast, d) = opener[last]
        PROVE  symbol[e] = y
    <3>1. s = last
      BY <1>3, <2>2, <2>6, <2>7 DEF Entered
    <3>2. PICK j \in DOMAIN scopes[last].entries :
            scopes[last].entries[j] = [name |-> name, symbol |-> y]
      BY <1>3, <2>6
    <3>3. i = j
      BY <2>2, <3>1, <3>2 DEF ScopesInv, Sound, Once
    <3> QED BY <2>2, <3>1, <3>2, <3>3
  <2> QED BY <2>0, <2>6, <2>7
<1>7. CASE last = None
  <2>1. Seen(ast, n) = {}
    BY <1>6, <1>7
  <2> QED BY <1>3, <1>7, <2>1 DEF None, y, ValuesInv
<1>8. CASE last # None
  <2>1. PICK i \in DOMAIN scopes[last].entries :
          scopes[last].entries[i] = [name |-> name, symbol |-> y]
    BY <1>3, <1>8
  <2> DEFINE b == arena[y].node
  <2>2. y \in DOMAIN arena /\ ast[b].name = name /\ HomeOf(ast, b) = opener[last]
    BY <1>3, <1>8, <2>1 DEF Kept
  <2>3. b \in 1 .. Len(ast) /\ Declares(ast, b) /\ Reached(b) /\ symbol[b] = y
    BY <2>2 DEF SymbolsInv
  <2>4. y \in 0 .. Len(arena) /\ y # None
    BY <2>2, LenProperties DEF ValuesInv, None
  <2> HIDE DEF b
  <2>5. b \in Children(ast, 1) \/ b < n
    BY <2>3 DEF Reached
  <2>6. b \in Seen(ast, n)
    BY <1>4, <1>8, <2>2, <2>3, <2>5 DEF Seen
  <2>7. ASSUME NEW d \in Seen(ast, n)
        PROVE  \/ HomeOf(ast, b) > HomeOf(ast, d)
               \/ HomeOf(ast, b) = HomeOf(ast, d) /\ b <= d
    <3>1. HomeOf(ast, d) <= HomeOf(ast, b) /\ HomeOf(ast, d) \in Nat /\ HomeOf(ast, b) \in Nat
      <4>1. HomeOf(ast, d) <= opener[last] /\ HomeOf(ast, d) \in Nat
        BY <1>5, <1>6
      <4>2. opener[last] \in Nat
        BY <1>3, <1>8
      <4> QED BY <2>2, <4>1, <4>2
    <3>2. ASSUME HomeOf(ast, d) = HomeOf(ast, b)
          PROVE  b <= d
      <4>1. PICK e \in 1 .. d : /\ e \in 1 .. Len(ast) /\ Declares(ast, e)
                                /\ symbol[e] # None /\ symbol[e] = y
        BY <1>6, <2>2, <3>2
      <4>2. arena[y].node = e
        BY <1>1, <4>1, NamedFacts DEF SymbolsInv
      <4> QED BY <1>5, <4>1, <4>2 DEF b
    <3> QED BY <3>1, <3>2
  <2> QED BY <2>3, <2>4, <2>6, <2>7 DEF Best, y
<1> QED BY <1>7, <1>8

LEMMA ResolveNameNames ==
  ASSUME StackInv, ValuesInv, NamesInv, ResolveName
  PROVE  NamesInv'
<1>1. /\ NextNode /\ IsProgram(ast) /\ pass = "resolve" /\ UNCHANGED <<ast, pass>>
      /\ Frontier = This
      /\ HomeIn(ast, todo, 1)' = HomeIn(ast, todo, 1)
  BY NodeStack DEF StackInv, NextNode
<1>2. Reaches(This) /\ This \in 2 .. Len(ast) /\ Frontier' > This /\ Frontier' \in Int
  BY <1>1, NextNodeReaches DEF NextNode, Follows
<1>3. /\ UNCHANGED <<scopes, current, arena>> /\ SameNodes /\ todo # <<>>
      /\ Top.at = "visit" /\ ast[This].kind \in Uses
      /\ symbol' = [symbol EXCEPT ![This] = Lookup(ast[This].name)]
  BY DEF ResolveName, tableVars, SameNodes, ResolverFrame, At, Node, Uses
<1>4. This \in 1 .. Len(ast) /\ todo[1].at = "visit"
  BY <1>2, <1>3, StackTop
<1>5. Quiet
  BY <1>1, <1>3 DEF Quiet, SameSymbols, ValuesInv
<1>6. PICK opener \in [DOMAIN scopes -> 1 .. Len(ast)] :
        Entered(opener) /\ Placed(opener) /\ Kept(opener)
  BY DEF NamesInv, Opened
<1>7. opener[current] = Around(ast, This)
  <2>1. ~Scoped(ast, This)
    BY <1>3 DEF Scoped, WithBody, Uses
  <2> QED BY <1>1, <1>3, <1>4, <1>6, <2>1, AroundSteps DEF NextNode, Placed
<1> DEFINE y == Lookup(ast[This].name)
<1>8. /\ y \in 0 .. Len(arena)
      /\ IF Seen(ast, This) = {} THEN y = None
         ELSE \E d \in Seen(ast, This) : Best(ast, This, d) /\ y = symbol[d]
  BY <1>1, <1>3, <1>4, <1>6, <1>7, LookupBinds DEF NamesInv
<1> HIDE DEF y
<1>9. /\ symbol'[This] = y
      /\ \A m \in 1 .. Len(ast) : m # This => symbol'[m] = symbol[m]
  BY <1>3, <1>4 DEF ValuesInv, y
<1>10. \A m \in 1 .. Len(ast) : Named(ast, m) => (Reached(m)' <=> Reached(m) \/ m = This)
  BY <1>2 DEF Reaches
<1>11. SymbolsInv'
  <2>1. \A m \in 1 .. Len(ast) : symbol'[m] \in 0 .. Len(arena)
    BY <1>8, <1>9 DEF NamesInv, SymbolsInv
  <2> QED BY <1>1, <1>5, <1>10, <2>1, QuietSymbols DEF NamesInv
<1>12. Opened'
  <2>1. Entered(opener)' /\ Kept(opener)'
    BY <1>1, <1>3, <1>5, <1>6, QuietKeeps DEF NamesInv
  <2>2. ASSUME NEW s \in DOMAIN scopes
        PROVE  opener[s] < Frontier'
    <3>1. opener[s] < Frontier
      BY <1>1, <1>3, <1>4, <1>6 DEF Placed
    <3>2. opener[s] \in Nat
      BY <1>6
    <3> QED BY <1>1, <1>2, <3>1, <3>2
  <2>3. Placed(opener)'
    BY <1>1, <1>3, <1>6, <2>2 DEF Placed
  <2> QED BY <1>1, <1>3, <1>6, <2>1, <2>3 DEF Opened
<1>13. Claims'
  <2>1. ~Declares(ast, This)
    BY <1>1, <1>3, <1>4, NamedFacts
  <2>2. \A m \in 1 .. Len(ast) : Declares(ast, m) /\ Reached(m)' => Reached(m)
    BY <1>10, <2>1 DEF Named
  <2> QED BY <1>1, <1>5, <2>2, QuietClaims DEF NamesInv
<1>14. PICK n \in 1 .. Len(ast) : n = This
  BY <1>4
<1>15. Bounds'
  <2>1. \A m \in 1 .. Len(ast) : ast[m].kind \in Uses /\ m # n /\ Reached(m)' =>
          Reached(m) /\ symbol'[m] = symbol[m]
    BY <1>9, <1>10, <1>14 DEF Named
  <2>2. Bound(n)'
    <3>1. \A d \in Seen(ast, n) : symbol'[d] = symbol[d]
      BY <1>1, <1>5, DeclaredSame DEF Seen, Quiet
    <3>2. IF Seen(ast, n) = {} THEN symbol'[n] = None
          ELSE \E d \in Seen(ast, n) : Best(ast, n, d) /\ symbol'[n] = symbol'[d]
      BY <1>8, <1>9, <1>14, <3>1
    <3> QED BY <1>1, <3>2 DEF Bound
  <2> QED BY <1>1, <1>5, <2>1, <2>2, QuietBounds DEF NamesInv
<1>16. ScopesInv'
  BY <1>3, SameScopes
<1> QED BY <1>11, <1>12, <1>13, <1>15, <1>16 DEF NamesInv

-------------------------------------------------------------------------------
(* What the passes store                                                   *)

LaterStep == ResolveSignature \/ CheckStep \/ DeclareFunction \/ GenerateStep

LEMMA LaterFrame ==
  ASSUME LaterStep
  PROVE  /\ UNCHANGED <<scopes, current, symbol, ast, pass>> /\ todo # <<>>
         /\ pass \in {"sign", "check", "declare", "generate"}
BY DEF LaterStep, CheckStep, CheckLast, GenerateStep, ResolveSignature, CheckFunction,
       LeaveFunction, CheckLet, LeaveLet, CheckLeaf, CheckChildren, CheckCondition, CheckRange,
       LeaveAdd, LeaveAssign, CheckCall, CheckArgument, LeavePrint, LeaveReturn,
       DeclareFunction, EmitFunction, EmitStorage, EmitOperands, Emitting, At,
       CheckerFrame, GeneratorFrame

LEMMA NodeFacts ==
  ASSUME StackInv, todo # <<>>
  PROVE  /\ This \in 1 .. Len(ast) /\ Arranged(ast, This) /\ IsProgram(ast)
         /\ ast[This].type \in {"number", "bool", Absent} /\ ast[This].mut \in BOOLEAN
         /\ Kids(This) = ast[This].kids /\ Node = ast[This] /\ DOMAIN ast = 1 .. Len(ast)
         /\ Kids(This) \in Seq(Nat) /\ Len(Kids(This)) \in Nat
         /\ DOMAIN Kids(This) = 1 .. Len(Kids(This))
         /\ \A i \in 1 .. Len(Kids(This)) :
              Kids(This)[i] \in 1 .. Len(ast) /\ Kids(This)[i] \in Children(ast, This)
<1>1. This \in 1 .. Len(ast) /\ IsProgram(ast)
  BY StackTop DEF StackInv
<1>2. /\ Arranged(ast, This) /\ ast[This] \in ProgramNode /\ DOMAIN ast = 1 .. Len(ast)
      /\ ast[This].kids \in Seq(Nat) /\ Len(ast[This].kids) \in Nat
      /\ DOMAIN ast[This].kids = 1 .. Len(ast[This].kids) /\ Len(ast) \in Nat
  BY <1>1, ProgramFacts DEF IsProgram
<1>3. ast[This].type \in {"number", "bool", Absent} /\ ast[This].mut \in BOOLEAN
  BY <1>2 DEF ProgramNode
<1>4. \A i \in 1 .. Len(ast[This].kids) :
        ast[This].kids[i] \in 1 .. Len(ast) /\ ast[This].kids[i] \in Children(ast, This)
  <2>1. \A i \in 1 .. Len(ast[This].kids) :
          ast[This].kids[i] \in 2 .. Len(ast) /\ ast[This].kids[i] \in Children(ast, This)
    BY <1>1, KidNodes, KidFacts, Zenon
  <2> QED BY <1>2, <2>1
<1> QED BY <1>1, <1>2, <1>3, <1>4 DEF Kids, Node

(* A symbol that gets another field. *)
LEMMA SymbolEdit ==
  ASSUME NEW r \in Symbol
  PROVE  /\ \A t \in Types \cup {Null} :
              [r EXCEPT !.type = t] \in Symbol /\ [r EXCEPT !.type = t].node = r.node
         /\ \A m \in BOOLEAN :
              [r EXCEPT !.mutable = m] \in Symbol /\ [r EXCEPT !.mutable = m].node = r.node
         /\ \A n \in Nat : [r EXCEPT !.op = n] \in Symbol /\ [r EXCEPT !.op = n].node = r.node
<1>1. ASSUME NEW t \in Types \cup {Null}
      PROVE  [r EXCEPT !.type = t] \in Symbol /\ [r EXCEPT !.type = t].node = r.node
  BY DEF Symbol
<1>2. ASSUME NEW m \in BOOLEAN
      PROVE  [r EXCEPT !.mutable = m] \in Symbol /\ [r EXCEPT !.mutable = m].node = r.node
  BY DEF Symbol
<1>3. ASSUME NEW n \in Nat
      PROVE  [r EXCEPT !.op = n] \in Symbol /\ [r EXCEPT !.op = n].node = r.node
  BY DEF Symbol
<1> QED BY <1>1, <1>2, <1>3

LEMMA FieldEdit ==
  ASSUME arena \in Seq(Symbol), NEW s,
         \/ \E t \in Types \cup {Null} : arena' = [arena EXCEPT ![s].type = t]
         \/ \E m \in BOOLEAN : arena' = [arena EXCEPT ![s].mutable = m]
         \/ \E n \in Nat : arena' = [arena EXCEPT ![s].op = n]
         \/ UNCHANGED arena
  PROVE  arena' \in Seq(Symbol) /\ SameNodes
<1>1. Len(arena) \in Nat /\ DOMAIN arena = 1 .. Len(arena) /\ arena \in [1 .. Len(arena) -> Symbol]
  BY LenProperties, SeqDef
<1>2. arena' \in [1 .. Len(arena) -> Symbol]
      /\ \A r \in 1 .. Len(arena) : arena'[r].node = arena[r].node
  <2>1. CASE \E t \in Types \cup {Null} : arena' = [arena EXCEPT ![s].type = t]
    <3>1. PICK t \in Types \cup {Null} : arena' = [arena EXCEPT ![s].type = t]
      BY <2>1
    <3>2. arena' = [r \in 1 .. Len(arena) |-> IF r = s THEN [arena[r] EXCEPT !.type = t] ELSE arena[r]]
      BY <1>1, <3>1
    <3>3. \A r \in 1 .. Len(arena) :
            /\ arena[r] \in Symbol /\ [arena[r] EXCEPT !.type = t] \in Symbol
            /\ [arena[r] EXCEPT !.type = t].node = arena[r].node
      BY <1>1, <3>1, SymbolEdit
    <3> QED BY <3>2, <3>3
  <2>2. CASE \E m \in BOOLEAN : arena' = [arena EXCEPT ![s].mutable = m]
    <3>1. PICK m \in BOOLEAN : arena' = [arena EXCEPT ![s].mutable = m]
      BY <2>2
    <3>2. arena' = [r \in 1 .. Len(arena) |-> IF r = s THEN [arena[r] EXCEPT !.mutable = m] ELSE arena[r]]
      BY <1>1, <3>1
    <3>3. \A r \in 1 .. Len(arena) :
            /\ arena[r] \in Symbol /\ [arena[r] EXCEPT !.mutable = m] \in Symbol
            /\ [arena[r] EXCEPT !.mutable = m].node = arena[r].node
      BY <1>1, <3>1, SymbolEdit
    <3> QED BY <3>2, <3>3
  <2>3. CASE \E n \in Nat : arena' = [arena EXCEPT ![s].op = n]
    <3>1. PICK n \in Nat : arena' = [arena EXCEPT ![s].op = n]
      BY <2>3
    <3>2. arena' = [r \in 1 .. Len(arena) |-> IF r = s THEN [arena[r] EXCEPT !.op = n] ELSE arena[r]]
      BY <1>1, <3>1
    <3>3. \A r \in 1 .. Len(arena) :
            /\ arena[r] \in Symbol /\ [arena[r] EXCEPT !.op = n] \in Symbol
            /\ [arena[r] EXCEPT !.op = n].node = arena[r].node
      BY <1>1, <3>1, SymbolEdit
    <3> QED BY <3>2, <3>3
  <2>4. CASE UNCHANGED arena
    BY <1>1, <2>4
  <2> QED BY <2>1, <2>2, <2>3, <2>4
<1>3. arena' \in Seq(Symbol) /\ Len(arena') = Len(arena) /\ DOMAIN arena' = 1 .. Len(arena)
  <2>1. arena' \in Seq(Symbol)
    BY <1>1, <1>2, SeqDef
  <2>2. DOMAIN arena' = 1 .. Len(arena)
    BY <1>2
  <2> QED BY <1>1, <2>1, <2>2, LenProperties
<1> QED BY <1>1, <1>2, <1>3 DEF SameNodes

(* The symbols of a function whose signature is resolved. *)
LEMMA SignedFits ==
  ASSUME IsProgram(ast), ValuesInv, SymbolsInv, NEW fn \in 1 .. Len(ast), ast[fn].kind = "fn",
         arena' = Signed(fn)
  PROVE  arena' \in Seq(Symbol) /\ SameNodes
<1>1. /\ Len(arena) \in Nat /\ DOMAIN arena = 1 .. Len(arena)
      /\ arena \in [1 .. Len(arena) -> Symbol] /\ arena \in Seq(Symbol)
  BY LenProperties, SeqDef DEF ValuesInv
<1> DEFINE typed == {symbol[Params(fn)[i]] : i \in DOMAIN Params(fn)}
<1>2. ASSUME NEW s \in 1 .. Len(arena), s \in typed
      PROVE  ast[arena[s].node].type \in {"number", "bool"}
  <2>1. PICK i \in DOMAIN Params(fn) : s = symbol[Params(fn)[i]]
    BY <1>2
  <2>2. Len(ast[fn].kids) > 0 /\ ast[fn].kids \in Seq(Nat) /\ Len(ast[fn].kids) \in Nat
    BY BareBody, ProgramFacts DEF WithBody
  <2>3. i \in 1 .. Len(ast[fn].kids) - 1 /\ Params(fn)[i] = ast[fn].kids[i]
    <3>1. DOMAIN Front(ast[fn].kids) = 1 .. Len(ast[fn].kids) - 1
      BY <2>2, FrontFacts, LenProperties
    <3> QED BY <2>2, <3>1, FrontFacts DEF Params, Kids
  <2> DEFINE m == ast[fn].kids[i]
  <2>4. m \in 1 .. Len(ast) /\ ast[m].kind = "param"
    <3>1. m \in Children(ast, fn) /\ Len(ast) \in Nat
      BY <2>2, <2>3, KidFacts, ProgramFacts
    <3>2. m \in 1 .. Len(ast)
      BY <3>1, KidFacts
    <3>3. Arranged(ast, fn)
      BY ProgramFacts DEF IsProgram
    <3> QED BY <2>3, <3>2, <3>3 DEF Arranged
  <2>5. ast[m].type \in {"number", "bool"}
    <3>1. Arranged(ast, m) /\ ast[m] \in ProgramNode
      BY <2>4, ProgramFacts DEF IsProgram
    <3> QED BY <2>4, <3>1 DEF Arranged, ProgramNode
  <2>6. arena[s].node = m
    <3>1. symbol[m] = s /\ s # None
      BY <2>1, <2>3 DEF None
    <3> QED BY <2>4, <3>1 DEF SymbolsInv, Uses
  <2> QED BY <2>5, <2>6
<1> HIDE DEF typed
<1>3. arena' = [s \in DOMAIN arena |->
                  IF s = symbol[fn] THEN [arena[s] EXCEPT !.type = "function"]
                  ELSE IF s \in typed THEN [arena[s] EXCEPT !.type = ast[arena[s].node].type]
                  ELSE arena[s]]
  BY DEF Signed, typed
<1>4. /\ arena' \in [1 .. Len(arena) -> Symbol]
      /\ \A s \in 1 .. Len(arena) : arena'[s].node = arena[s].node
  <2>1. ASSUME NEW s \in 1 .. Len(arena)
        PROVE  arena'[s] \in Symbol /\ arena'[s].node = arena[s].node
    <3>1. arena[s] \in Symbol /\ "function" \in Types \cup {Null}
      BY <1>1 DEF Types
    <3>2. CASE s = symbol[fn]
      <4>1. arena'[s] = [arena[s] EXCEPT !.type = "function"]
        BY <1>1, <1>3, <3>2
      <4> QED BY <3>1, <4>1, SymbolEdit
    <3>3. CASE s # symbol[fn] /\ s \in typed
      <4>1. arena'[s] = [arena[s] EXCEPT !.type = ast[arena[s].node].type]
        BY <1>1, <1>3, <3>3
      <4>2. ast[arena[s].node].type \in Types \cup {Null}
        BY <1>2, <3>3 DEF Types
      <4> QED BY <3>1, <4>1, <4>2, SymbolEdit
    <3>4. CASE s # symbol[fn] /\ s \notin typed
      BY <1>1, <1>3, <3>1, <3>4
    <3> QED BY <3>2, <3>3, <3>4
  <2>2. arena' = [s \in 1 .. Len(arena) |-> arena'[s]]
    BY <1>1, <1>3
  <2> QED BY <2>1, <2>2
<1>5. arena' \in Seq(Symbol)
  BY <1>1, <1>4, SeqDef
<1>6. DOMAIN arena' = 1 .. Len(arena)
  BY <1>4
<1> QED BY <1>1, <1>4, <1>5, <1>6, LenProperties DEF SameNodes

LEMMA SymbolTypes ==
  ASSUME IsProgram(ast), ValuesInv, SymbolsInv
  PROVE  /\ \A n \in 1 .. Len(ast) : /\ SymbolType(symbol[n]) \in Types \cup {Null}
                                     /\ ReturnType(n) \in Types
                                     /\ TypeOf(n) \in Types \cup {Null}
                                     /\ symbol[n] # None => symbol[n] \in DOMAIN arena
         /\ \A s \in DOMAIN arena : arena[s].node \in 1 .. Len(ast) /\ arena[s] \in Symbol
<1>1. DOMAIN arena = 1 .. Len(arena) /\ \A s \in DOMAIN arena : arena[s] \in Symbol
  BY LenProperties, ElementOfSeq DEF ValuesInv
<1>2. ASSUME NEW n \in 1 .. Len(ast)
      PROVE  /\ SymbolType(symbol[n]) \in Types \cup {Null}
             /\ symbol[n] # None => symbol[n] \in DOMAIN arena
  <2>1. symbol[n] # None => symbol[n] \in DOMAIN arena
    BY <1>1 DEF SymbolsInv, None
  <2> QED BY <1>1, <2>1 DEF SymbolType, Symbol
<1>3. ASSUME NEW n \in 1 .. Len(ast)
      PROVE  ReturnType(n) \in Types
  <2>1. ast[n] \in ProgramNode
    BY ProgramFacts
  <2> QED BY <2>1 DEF ReturnType, ProgramNode, Types
<1>4. \A n \in 1 .. Len(ast) : TypeOf(n) \in Types \cup {Null}
  BY DEF TypeOf, ValuesInv
<1> QED BY <1>1, <1>2, <1>3, <1>4 DEF SymbolsInv

LEMMA LaterArena ==
  ASSUME StackInv, ValuesInv, SymbolsInv, LaterStep
  PROVE  arena' \in Seq(Symbol) /\ SameNodes
<1>1. IsProgram(ast) /\ todo # <<>> /\ arena \in Seq(Symbol)
  BY LaterFrame DEF StackInv, ValuesInv
<1>2. /\ This \in 1 .. Len(ast) /\ ast[This].type \in {"number", "bool", Absent}
      /\ ast[This].mut \in BOOLEAN /\ Node = ast[This] /\ Len(ast) \in Nat
  BY <1>1, NodeFacts, ProgramFacts
<1>3. CASE ResolveSignature \/ CheckFunction
  <2>1. ast[This].kind = "fn" /\ (arena' = Signed(This) \/ UNCHANGED arena)
    BY <1>2, <1>3 DEF ResolveSignature, CheckFunction, At
  <2>2. CASE arena' = Signed(This)
    BY <1>1, <1>2, <2>1, <2>2, SignedFits
  <2>3. CASE UNCHANGED arena
    BY <1>1, <2>3 DEF SameNodes
  <2> QED BY <2>1, <2>2, <2>3
<1>4. CASE CheckLet
  <2>1. (\E m \in BOOLEAN : arena' = [arena EXCEPT ![Sym].mutable = m]) \/ UNCHANGED arena
    BY <1>2, <1>4 DEF CheckLet
  <2> QED BY <1>1, <2>1, FieldEdit
<1>5. CASE LeaveLet
  <2>1. LetType \in Types \cup {Null}
    <3>1. Value \in Types \cup {Null}
      <4>1. CASE Kids(This) = <<>>
        BY <4>1 DEF Value
      <4>2. CASE Kids(This) # <<>>
        <5>1. Kids(This)[1] \in 1 .. Len(ast)
          <6>1. Kids(This) \in Seq(Nat) /\ \A i \in 1 .. Len(Kids(This)) : Kids(This)[i] \in 1 .. Len(ast)
            BY <1>1, NodeFacts
          <6>2. 1 \in 1 .. Len(Kids(This))
            BY <4>2, <6>1, EmptySeq, LenProperties
          <6> QED BY <6>1, <6>2
        <5> QED BY <1>1, <4>2, <5>1, SymbolTypes DEF Value
      <4> QED BY <4>1, <4>2
    <3> QED BY <1>2, <3>1 DEF LetType, Types
  <2>2. (\E t \in Types \cup {Null} : arena' = [arena EXCEPT ![Sym].type = t]) \/ UNCHANGED arena
    BY <1>5, <2>1 DEF LeaveLet
  <2> QED BY <1>1, <2>2, FieldEdit
<1>6. CASE CheckRange
  <2>1. (\E t \in Types \cup {Null} : arena' = [arena EXCEPT ![Sym].type = t]) \/ UNCHANGED arena
    BY <1>6 DEF CheckRange, Types
  <2> QED BY <1>1, <2>1, FieldEdit
<1>7. CASE DeclareFunction \/ EmitStorage
  <2>1. (\E n \in Nat : arena' = [arena EXCEPT ![Sym].op = n]) \/ UNCHANGED arena
    BY <1>2, <1>7 DEF DeclareFunction, EmitStorage, SetOp, Sym
  <2> QED BY <1>1, <2>1, FieldEdit
<1>8. CASE \/ LeaveFunction \/ CheckLeaf \/ CheckChildren \/ CheckCondition \/ LeaveAdd
           \/ LeaveAssign \/ CheckCall \/ CheckArgument \/ LeavePrint \/ LeaveReturn
           \/ EmitFunction \/ EmitOperands
  <2>1. UNCHANGED arena
    BY <1>8 DEF LeaveFunction, CheckLeaf, CheckChildren, CheckCondition, LeaveAdd, LeaveAssign,
                CheckCall, CheckArgument, LeavePrint, LeaveReturn, EmitFunction, EmitOperands
  <2> QED BY <1>1, <2>1 DEF SameNodes
<1> QED
  BY <1>3, <1>4, <1>5, <1>6, <1>7, <1>8 DEF LaterStep, CheckStep, CheckLast, GenerateStep

(* The type of the node that is looked at. *)
LEMMA LaterTypes ==
  ASSUME StackInv, ValuesInv, SymbolsInv, LaterStep
  PROVE  type' \in [1 .. Len(ast) -> Types \cup {Null}]
<1>1. /\ IsProgram(ast) /\ todo # <<>> /\ This \in 1 .. Len(ast) /\ Node = ast[This]
      /\ ast[This].type \in {"number", "bool", Absent} /\ Arranged(ast, This)
      /\ Len(Kids(This)) \in Nat /\ Kids(This) = ast[This].kids
      /\ \A i \in 1 .. Len(Kids(This)) : Kids(This)[i] \in 1 .. Len(ast)
  BY LaterFrame, NodeFacts
<1>2. type \in [1 .. Len(ast) -> Types \cup {Null}]
  BY DEF ValuesInv
<1>3. \A t \in Types \cup {Null} :
        SetType(t) => type' \in [1 .. Len(ast) -> Types \cup {Null}]
  BY <1>1, <1>2 DEF SetType
<1>4. /\ Sym = symbol[This] /\ SymbolType(Sym) \in Types \cup {Null}
      /\ Sym # None => Callee \in 1 .. Len(ast)
  BY <1>1, SymbolTypes DEF Sym, Callee
<1>5. CASE UNCHANGED type
  BY <1>2, <1>5
<1>6. CASE CheckLeaf
  <2>1. ast[This].kind = "literal" => ast[This].type \in Types
    BY <1>1 DEF Arranged, Types
  <2>2. (IF Node.kind = "literal" THEN Node.type ELSE SymbolType(Sym)) \in Types \cup {Null}
    BY <1>1, <1>4, <2>1
  <2> QED BY <1>3, <1>6, <2>2 DEF CheckLeaf
<1>7. CASE CheckChildren
  <2>1. SetType("unit") \/ UNCHANGED type
    BY <1>7 DEF CheckChildren
  <2> QED BY <1>3, <1>5, <2>1 DEF Types
<1>8. CASE LeaveAdd
  <2>1. \E t \in Types \cup {Null} : SetType(t)
    BY <1>8 DEF LeaveAdd, Types
  <2> QED BY <1>3, <2>1
<1>9. CASE LeaveAssign
  <2>1. TypeOf(Kids(This)[1]) \in Types \cup {Null}
    <3>1. Len(ast[This].kids) = 2
      BY <1>1, <1>9 DEF LeaveAssign, At, Arranged
    <3> QED BY <1>1, <3>1, SymbolTypes
  <2>2. \E t \in Types \cup {Null} : SetType(t)
    BY <1>9, <2>1 DEF LeaveAssign
  <2> QED BY <1>3, <2>2
<1>10. CASE CheckCall
  <2>1. SymbolType(Sym) = "function" => ReturnType(Callee) \in Types
    <3>1. SymbolType(Sym) = "function" => Sym # None
      BY DEF SymbolType, Null
    <3> QED BY <1>1, <1>4, <3>1, SymbolTypes
  <2>2. (IF SymbolType(Sym) = "function" THEN ReturnType(Callee) ELSE Null) \in Types \cup {Null}
    BY <2>1
  <2>3. UNCHANGED type
        \/ SetType(IF SymbolType(Sym) = "function" THEN ReturnType(Callee) ELSE Null)
    BY <1>10 DEF CheckCall
  <2> QED BY <1>3, <1>5, <2>2, <2>3
<1>11. CASE ~(CheckLeaf \/ CheckChildren \/ LeaveAdd \/ LeaveAssign \/ CheckCall)
  <2>1. UNCHANGED type
    BY <1>11 DEF LaterStep, CheckStep, CheckLast, GenerateStep, ResolveSignature, CheckFunction,
       LeaveFunction, CheckLet, LeaveLet, CheckCondition, CheckRange, CheckArgument, LeavePrint,
       LeaveReturn, DeclareFunction, EmitFunction, EmitStorage, EmitOperands, GeneratorFrame
  <2> QED BY <1>5, <2>1
<1> QED BY <1>6, <1>7, <1>8, <1>9, <1>10, <1>11

(* Diagnostics, the return type that is expected, and where the generator fails. *)
LEMMA LaterRest ==
  ASSUME StackInv, ValuesInv, LaterStep, UNCHANGED fault \/ Fail
  PROVE  errors' \subseteq 1 .. Len(ast) /\ returns' \in Notes /\ fault' \in 0 .. Len(ast)
<1>1. /\ IsProgram(ast) /\ todo # <<>> /\ This \in 1 .. Len(ast) /\ Node = ast[This]
      /\ ast[This].type \in {"number", "bool", Absent} /\ Len(ast) \in Nat
      /\ Len(Kids(This)) \in Nat /\ Kids(This) \in Seq(Nat) /\ Kids(This) = ast[This].kids
      /\ \A i \in 1 .. Len(Kids(This)) : Kids(This)[i] \in 1 .. Len(ast)
  BY LaterFrame, NodeFacts, ProgramFacts
<1>2. errors \subseteq 1 .. Len(ast) /\ returns \in Notes /\ fault \in 0 .. Len(ast)
  BY DEF ValuesInv
<1>3. errors' \subseteq 1 .. Len(ast)
  <2>1. Silent \/ Report => errors' \subseteq 1 .. Len(ast)
    BY <1>1, <1>2 DEF Silent, Report
  <2>2. CASE ResolveSignature \/ CheckFunction
    <3>1. ast[This].kind = "fn" /\ (ReportParams(This) \/ Silent)
      BY <1>1, <2>2 DEF ResolveSignature, CheckFunction, At
    <3>2. Len(Kids(This)) > 0
      BY <1>1, <3>1, BareBody DEF WithBody
    <3>3. /\ Params(This) \in Seq(Nat) /\ Len(Params(This)) = Len(Kids(This)) - 1
          /\ \A i \in 1 .. Len(Kids(This)) - 1 : Params(This)[i] = Kids(This)[i]
      BY <1>1, <3>2, FrontFacts DEF Params
    <3>6. ASSUME NEW i \in DOMAIN Params(This)  PROVE  Params(This)[i] \in 1 .. Len(ast)
      <4>1. i \in 1 .. Len(Kids(This)) - 1 /\ i \in 1 .. Len(Kids(This))
        BY <1>1, <3>3, LenProperties
      <4> QED BY <1>1, <3>3, <4>1
    <3>4. {Params(This)[i] : i \in DOMAIN Params(This)} \subseteq 1 .. Len(ast)
      BY <3>6
    <3>5. ReportParams(This) => errors' \subseteq 1 .. Len(ast)
      BY <1>2, <3>4 DEF ReportParams
    <3> QED BY <2>1, <3>1, <3>5
  <2>3. CASE ~(ResolveSignature \/ CheckFunction)
    <3>1. Silent \/ Report
      BY <2>3 DEF LaterStep, CheckStep, CheckLast, GenerateStep, LeaveFunction, CheckLet, LeaveLet,
         CheckLeaf, CheckChildren, CheckCondition, CheckRange, LeaveAdd, LeaveAssign, CheckCall,
         CheckArgument, LeavePrint, LeaveReturn, DeclareFunction, EmitFunction, EmitStorage,
         EmitOperands, GeneratorFrame, Silent
    <3> QED BY <2>1, <3>1
  <2> QED BY <2>2, <2>3
<1>4. returns' \in Notes
  <2>1. CASE CheckFunction
    BY <1>1, <2>1 DEF CheckFunction, Notes, Types
  <2>2. CASE LeaveFunction
    <3>1. Top \in Item
      BY <1>1, StackTop
    <3> QED BY <2>2, <3>1 DEF LeaveFunction, Item
  <2>3. CASE ~(CheckFunction \/ LeaveFunction)
    <3>1. UNCHANGED returns
      BY <2>3 DEF LaterStep, CheckStep, CheckLast, GenerateStep, ResolveSignature, CheckLet, LeaveLet,
         CheckLeaf, CheckChildren, CheckCondition, CheckRange, LeaveAdd, LeaveAssign, CheckCall,
         CheckArgument, LeavePrint, LeaveReturn, DeclareFunction, EmitFunction, EmitStorage,
         EmitOperands, GeneratorFrame
    <3> QED BY <1>2, <3>1
  <2> QED BY <2>1, <2>2, <2>3
<1>5. fault' \in 0 .. Len(ast)
  BY <1>1, <1>2 DEF Fail
<1> QED BY <1>3, <1>4, <1>5

(* The steps of the two passes that resolve names. *)
LEMMA DeclaringValues ==
  ASSUME StackInv, ValuesInv, todo # <<>>, Declare, UNCHANGED <<ast, type, returns, fault>>
  PROVE  ValuesInv'
<1>1. /\ This \in 1 .. Len(ast) /\ Node = ast[This] /\ Len(ast) \in Nat
  BY NodeFacts, ProgramFacts
<1>2. /\ arena \in Seq(Symbol) /\ Len(arena) \in Nat /\ symbol \in [1 .. Len(ast) -> Nat]
      /\ errors \subseteq 1 .. Len(ast)
  BY LenProperties DEF ValuesInv
<1>3. CASE /\ addSymbol(Node.name, NewSymbol(This))
           /\ symbol' = [symbol EXCEPT ![This] = Len(arena) + 1]
           /\ Silent
  <2>1. NewSymbol(This) \in Symbol
    BY <1>1 DEF NewSymbol, Symbol, Null, None
  <2>2. arena' = Append(arena, NewSymbol(This))
    BY <1>3 DEF addSymbol
  <2>3. arena' \in Seq(Symbol)
    BY <1>2, <2>1, <2>2, AppendProperties
  <2>4. symbol' \in [1 .. Len(ast) -> Nat]
    BY <1>1, <1>2, <1>3
  <2> QED BY <1>3, <2>3, <2>4 DEF ValuesInv, Silent
<1>4. CASE Redefines(Node.name) /\ Report /\ UNCHANGED <<tableVars, symbol>>
  BY <1>1, <1>2, <1>4 DEF ValuesInv, Report, tableVars
<1> QED BY <1>3, <1>4 DEF Declare

LEMMA ResolverValues ==
  ASSUME StackInv, ValuesInv, NamesInv, UNCHANGED fault,
         CollectFunction \/ ResolveDeclaration \/ ResolveScope \/ ExitScope \/ ResolveName \/ ResolveChildren
  PROVE  ValuesInv'
<1>1. CASE CollectFunction \/ ResolveDeclaration
  BY <1>1, DeclaringValues DEF CollectFunction, ResolveDeclaration, At, ResolverFrame
<1>2. CASE ResolveScope \/ ExitScope \/ ResolveChildren
  BY <1>2 DEF ResolveScope, ExitScope, ResolveChildren, enterScope, exitScope, ResolverFrame, Silent,
     tableVars, ValuesInv
<1>3. CASE ResolveName
  <2>1. NamesInv'
    BY <1>3, ResolveNameNames
  <2>2. /\ UNCHANGED <<ast, type, returns, arena>> /\ todo # <<>> /\ (Silent \/ Report)
        /\ \E y : symbol' = [symbol EXCEPT ![This] = y]
    BY <1>3 DEF ResolveName, tableVars, ResolverFrame, At
  <2>3. This \in 1 .. Len(ast)
    BY <2>2, NodeFacts
  <2>4. symbol' \in [1 .. Len(ast) -> Nat]
    <3>1. PICK y : symbol' = [symbol EXCEPT ![This] = y]
      BY <2>2
    <3>2. symbol'[This] = y /\ symbol'[This] \in 0 .. Len(arena')
      BY <2>1, <2>2, <2>3, <3>1 DEF ValuesInv, NamesInv, SymbolsInv
    <3>3. Len(arena') \in Nat
      BY <2>2, LenProperties DEF ValuesInv
    <3>4. y \in Nat
      BY <3>2, <3>3
    <3> QED BY <3>1, <3>4 DEF ValuesInv
  <2> QED BY <2>2, <2>3, <2>4 DEF ValuesInv, Silent, Report
<1> QED BY <1>1, <1>2, <1>3

LEMMA LaterValues ==
  ASSUME StackInv, ValuesInv, SymbolsInv, LaterStep, UNCHANGED fault \/ Fail
  PROVE  ValuesInv'
BY LaterArena, LaterTypes, LaterRest, LaterFrame DEF ValuesInv

(* Init and the steps. *)
LEMMA InvInit ==
  ASSUME Init
  PROVE  Inv
<1>1. IsProgram(ast)
  BY ProgramsAssumption DEF Init, AnalysisInit, IsProgram
<1>2. /\ DOMAIN ast = 1 .. Len(ast) /\ Len(ast) \in Nat \ {0} /\ 1 \in 1 .. Len(ast)
      /\ ast[1].kind = "program"
  BY <1>1, ProgramFacts, RootIsAround
<1>3. /\ pass = "collect" /\ todo = Visits(Functions) /\ TableInit /\ arena = <<>>
      /\ symbol = [n \in 1 .. Len(ast) |-> None] /\ type = [n \in 1 .. Len(ast) |-> Null]
      /\ returns = Null /\ errors = {} /\ fault = None
      /\ scopes = <<NewScope(None)>> /\ current = 1
  BY <1>2 DEF Init, AnalysisInit, TableInit, Nodes
<1>4. /\ Linked(ast, todo, Len(ast) + 1) /\ Flat(todo) /\ Follows(ast, 1, Frontier)
  BY <1>1, <1>3, FunctionItems DEF Frontier
<1>5. StackInv
  BY <1>1, <1>3, <1>4 DEF StackInv
<1>6. DOMAIN arena = {} /\ Len(arena) = 0 /\ arena \in Seq(Symbol) /\ DOMAIN scopes = {1}
      /\ scopes[1].entries = <<>>
  BY <1>3, EmptySeq DEF NewScope
<1>7. ValuesInv
  BY <1>2, <1>3, <1>6 DEF ValuesInv, None, Notes
<1>8. ASSUME NEW m \in 1 .. Len(ast), Named(ast, m)
      PROVE  ~Reached(m)
  <2>1. m # 1 /\ ~Bare(ast, m)
    BY <1>1, <1>2, <1>8, NamedFacts DEF Named, Uses
  <2>2. ~(m < Frontier)
    BY <1>2, <1>4, <2>1 DEF Follows
  <2> QED BY <1>3, <2>2 DEF Reached
<1>9. ScopesInv
  BY <1>3, ScopesInit
<1>10. SymbolsInv
  BY <1>3, <1>6 DEF SymbolsInv, None
<1>11. Opened
  <2> DEFINE opener == [s \in {1} |-> 1]
  <2>1. opener \in [DOMAIN scopes -> 1 .. Len(ast)] /\ opener[1] = 1
    BY <1>2, <1>6
  <2> HIDE DEF opener
  <2>2. Entered(opener)
    BY <1>2, <1>6, <2>1 DEF Entered, Scoped
  <2>3. Placed(opener)
    BY <1>3, <1>6, <2>1 DEF Placed
  <2>4. Kept(opener)
    <3>1. DOMAIN scopes[1].entries = {}
      BY <1>6
    <3> QED BY <1>3, <1>6, <3>1 DEF Kept
  <2> QED BY <2>1, <2>2, <2>3, <2>4 DEF Opened
<1>12. Claims
  BY <1>8 DEF Claims, Named
<1>13. Bounds
  BY <1>8 DEF Bounds, Named
<1> QED BY <1>5, <1>7, <1>9, <1>10, <1>11, <1>12, <1>13 DEF Inv, NamesInv

LEMMA InvStep ==
  ASSUME Inv, [Next]_vars
  PROVE  Inv'
<1>0. StackInv /\ ValuesInv /\ NamesInv /\ IsProgram(ast) /\ SymbolsInv
  BY DEF Inv, StackInv, NamesInv
<1>1. StackInv'
  BY <1>0, StackStep DEF ValuesInv
<1>2. CASE UNCHANGED fault /\
           (CollectFunction \/ ResolveDeclaration \/ ResolveScope \/ ExitScope \/ ResolveName \/ ResolveChildren)
  <2>1. ValuesInv'
    BY <1>0, <1>2, ResolverValues
  <2>2. NamesInv'
    BY <1>0, <1>2, CollectDeclares, DeclarationDeclares, DeclaringNames, ResolveScopeNames,
       ExitScopeNames, ResolveNameNames, ResolveChildrenNames
  <2> QED BY <1>1, <2>1, <2>2 DEF Inv
<1>3. CASE LaterStep /\ (UNCHANGED fault \/ Fail)
  <2>1. ValuesInv'
    BY <1>0, <1>3, LaterValues
  <2>2. NamesInv'
    BY <1>0, <1>3, LaterArena, LaterFrame, LaterNames
  <2> QED BY <1>1, <2>1, <2>2 DEF Inv
<1>4. CASE StartStep /\ UNCHANGED fault
  <2>1. UNCHANGED <<tableVars, ast, symbol, type, returns, errors, fault>>
    BY <1>4 DEF StartStep, NextPass, Accepted, Generate
  <2>5. ValuesInv'
    BY <1>0, <2>1 DEF ValuesInv, tableVars
  <2>2. SameNodes
    BY <2>1 DEF SameNodes, tableVars
  <2>3. CASE NextPass
    BY <1>0, <1>1, <2>3, <2>5, NextPassNames DEF Inv
  <2>4. CASE Accepted \/ Generate
    <3>1. pass \notin {"collect", "resolve"} /\ pass' \notin {"collect", "resolve"}
      BY <2>4 DEF Accepted, Generate
    <3> QED BY <1>0, <1>1, <2>1, <2>2, <2>5, <3>1, LaterNames DEF tableVars, Inv
  <2> QED BY <1>4, <2>3, <2>4 DEF StartStep
<1>5. CASE UNCHANGED vars
  <2>1. /\ UNCHANGED <<scopes, current, arena, ast, pass, todo, symbol, type, returns, errors, fault>>
    BY <1>5 DEF vars, analysisVars, tableVars
  <2>2. ValuesInv'
    BY <1>0, <2>1 DEF ValuesInv
  <2>3. SymbolsInv' /\ Claims' /\ Bounds' /\ ScopesInv'
    BY <1>0, <2>1 DEF NamesInv, SymbolsInv, Claims, Claimed, Bounds, Bound, Reached, Frontier, ScopesInv
  <2>4. Opened'
    <3>1. PICK opener \in [DOMAIN scopes -> 1 .. Len(ast)] :
            Entered(opener) /\ Placed(opener) /\ Kept(opener)
      BY <1>0 DEF NamesInv, Opened
    <3>2. Entered(opener)'
      BY <2>1, <3>1 DEF Entered
    <3>3. Placed(opener)'
      BY <2>1, <3>1 DEF Placed, Frontier
    <3>4. Kept(opener)'
      BY <2>1, <3>1 DEF Kept
    <3>5. opener \in [DOMAIN scopes' -> 1 .. Len(ast')]
      BY <2>1
    <3> QED BY <3>2, <3>3, <3>4, <3>5 DEF Opened
  <2> QED BY <1>1, <2>2, <2>3, <2>4 DEF Inv, NamesInv
<1>6. CASE Next
  <2>1. CASE Analyse
    BY <1>2, <1>3, <1>4, <2>1 DEF Analyse, AnalysisNext, LaterStep, CheckStep, CheckLast, StartStep
  <2>2. CASE DeclareFunction \/ EmitFunction \/ EmitStorage \/ EmitOperands
    <3>1. UNCHANGED fault \/ Fail
      BY <2>2 DEF DeclareFunction, EmitFunction, EmitStorage, EmitOperands
    <3> QED BY <1>3, <2>2, <3>1 DEF LaterStep, GenerateStep
  <2>3. CASE Accepted \/ Generate
    BY <1>4, <2>3 DEF StartStep, Accepted, Generate
  <2> QED BY <1>6, <2>1, <2>2, <2>3 DEF Next
<1> QED BY <1>5, <1>6

-------------------------------------------------------------------------------
(* Theorems                                                                *)

(* The invariant of the stack, the scopes, the symbols and the names holds   *)
(* in every state of the analysis and of the walk of MLIRGen.              *)
THEOREM InvHolds == Spec => []Inv
<1>1. Init => Inv
  BY InvInit
<1>2. Inv /\ [Next]_vars => Inv'
  BY InvStep
<1> QED BY <1>1, <1>2, PTL DEF Spec

LEMMA InvTypeOK ==
  ASSUME Inv
  PROVE  TypeOK
<1>1. StackInv /\ ValuesInv /\ ScopesInv /\ SymbolsInv /\ Opened
  BY DEF Inv, NamesInv
<1>2. /\ Nodes = 1 .. Len(ast) /\ Len(ast) \in Nat /\ IsProgram(ast)
  BY <1>1, ProgramFacts DEF StackInv, Nodes
<1>3. /\ pass \in {"collect", "resolve", "sign", "check", "declare", "generate"}
      /\ current \in DOMAIN scopes
      /\ \A s \in DOMAIN scopes : scopes[s].parent \in 0 .. s - 1
      /\ errors \subseteq Nodes /\ 1 \in DOMAIN scopes
  BY <1>1, <1>2 DEF StackInv, ScopesInv, ValuesInv
<1>4. \A s \in DOMAIN arena : /\ arena[s].type \in Types \cup {Null} /\ arena[s].node \in Nodes
                              /\ symbol[arena[s].node] = s
  BY <1>1, <1>2, SymbolTypes DEF SymbolsInv, Symbol
<1>5. \A n \in Nodes : symbol[n] \in 0 .. Len(arena) /\ type[n] \in Types \cup {Null}
  BY <1>1, <1>2 DEF SymbolsInv, ValuesInv
<1>6. ASSUME pass # "resolve"
      PROVE  current = 1
  <2>1. PICK opener \in [DOMAIN scopes -> 1 .. Len(ast)] : Entered(opener) /\ Placed(opener)
    BY <1>1 DEF Opened
  <2>2. opener[current] = opener[1]
    BY <1>6, <2>1 DEF Entered, Placed
  <2> QED BY <1>3, <2>1, <2>2 DEF Entered
<1>7. fault \in Nodes \cup {None}
  BY <1>1, <1>2 DEF ValuesInv, None
<1> QED BY <1>3, <1>4, <1>5, <1>6, <1>7 DEF TypeOK, AnalysisTypeOK

(* Scopes are left in the order they were entered (every pass but the name   *)
(* resolver runs in the global scope), a scope's parent is older, a symbol   *)
(* and the node that declared it know each other, and types, symbols,        *)
(* diagnostics and faults are what they should be: whatever the programs.  *)
THEOREM TypeOKHolds == Spec => []TypeOK
BY InvHolds, InvTypeOK, PTL

-------------------------------------------------------------------------------
(* What the properties say of the program's text is what the proof says.   *)

LEMMA ParentIsPar ==
  ASSUME IsProgram(ast)
  PROVE  /\ Nodes = 1 .. Len(ast) /\ Len(ast) \in Nat \ {0}
         /\ ParentOf[1] = 1
         /\ \A m \in 2 .. Len(ast) : /\ m \in 1 .. Len(ast) /\ m # 1 /\ ParentOf[m] = Par(ast, m)
                                     /\ Par(ast, m) \in 1 .. m - 1 /\ Par(ast, m) \in 1 .. Len(ast)
<1>1. Nodes = 1 .. Len(ast) /\ Len(ast) \in Nat \ {0} /\ DOMAIN ast = 1 .. Len(ast)
  BY ProgramFacts DEF Nodes
<1>2. ASSUME NEW m \in 2 .. Len(ast)
      PROVE  /\ m \in 1 .. Len(ast) /\ m # 1 /\ ParentOf[m] = Par(ast, m)
             /\ Par(ast, m) \in 1 .. m - 1 /\ Par(ast, m) \in 1 .. Len(ast)
  <2>1. m \in 1 .. Len(ast) /\ m # 1 /\ Par(ast, m) \in 1 .. m - 1
    BY <1>1, OneParent
  <2>2. ParentOf[m] = CHOOSE p \in Nodes : m \in {Kids(p)[i] : i \in DOMAIN Kids(p)}
    BY <1>1, <2>1 DEF ParentOf
  <2>3. ParentOf[m] = Par(ast, m)
    BY <2>2 DEF Par, Children, Kids, Nodes
  <2> QED BY <1>1, <2>1, <2>3
<1>3. ParentOf[1] = 1
  BY <1>1 DEF ParentOf
<1> QED BY <1>1, <1>2, <1>3

LEMMA HasScopeIsScoped ==
  ASSUME IsProgram(ast), NEW n \in 1 .. Len(ast)
  PROVE  HasScope(n) <=> Scoped(ast, n)
<1>1. n = 1 => ast[n].kind = "program"
  BY RootIsAround
<1>2. n # 1 => n \in 2 .. Len(ast)
  BY ProgramFacts
<1> QED BY <1>1, <1>2, ParentIsPar DEF HasScope, Scoped, WithBody

LEMMA ScopeAroundIsAround ==
  ASSUME IsProgram(ast), NEW n \in 1 .. Len(ast)
  PROVE  ScopeAround(n) = Around(ast, n)
<1> DEFINE Step(f, m) == IF HasScope(m) THEN m ELSE f[ParentOf[m]]
           IsAround(f) == f = [m \in Nodes |-> Step(f, m)]
           around == CHOOSE f : IsAround(f)
           g == [m \in Nodes |-> Around(ast, m)]
<1>1. ScopeAround(n) = around[n]
  BY DEF ScopeAround
<1>2. Nodes = 1 .. Len(ast) /\ Len(ast) \in Nat
  BY ParentIsPar
<1>3. ASSUME NEW m \in 1 .. Len(ast)
      PROVE  /\ HasScope(m) => Around(ast, m) = m
             /\ ~HasScope(m) => /\ ParentOf[m] \in 1 .. m - 1 /\ ParentOf[m] \in 1 .. Len(ast)
                                /\ Around(ast, m) = Around(ast, ParentOf[m])
  <2>1. ~HasScope(m) => m # 1 /\ m \in 2 .. Len(ast)
    BY <1>2, HasScopeIsScoped, AroundSteps
  <2> QED BY <2>1, HasScopeIsScoped, AroundSteps, ParentIsPar
<1>4. IsAround(g)
  <2>1. ASSUME NEW m \in Nodes
        PROVE  g[m] = Step(g, m)
    BY <1>2, <1>3
  <2> QED BY <2>1
<1>5. IsAround(around)
  BY <1>4
<1> HIDE DEF around
<1>6. \A m \in 1 .. Len(ast) : around[m] = Step(around, m)
  BY <1>2, <1>5
<1> DEFINE T == {i \in Nat : \A m \in 1 .. Len(ast) : m <= i => around[m] = Around(ast, m)}
<1>7. 0 \in T
  BY <1>2
<1>8. ASSUME NEW i \in Nat, i \in T
      PROVE  i + 1 \in T
  <2>1. ASSUME NEW m \in 1 .. Len(ast), m = i + 1
        PROVE  around[m] = Around(ast, m)
    <3>1. CASE HasScope(m)
      BY <1>3, <1>6, <3>1
    <3>2. CASE ~HasScope(m)
      <4>1. ParentOf[m] \in 1 .. Len(ast) /\ ParentOf[m] <= i /\ around[m] = around[ParentOf[m]]
        BY <1>3, <1>6, <2>1, <3>2
      <4> QED BY <1>3, <1>8, <3>2, <4>1
    <3> QED BY <3>1, <3>2
  <2> QED BY <1>8, <2>1
<1>9. Nat \subseteq T
  <2> HIDE DEF T
  <2> QED BY <1>7, <1>8, SetInduction
<1> QED BY <1>1, <1>2, <1>9

LEMMA ScopesAroundAreInside ==
  ASSUME IsProgram(ast), NEW n \in 1 .. Len(ast)
  PROVE  ScopesAround(n) = {s \in 1 .. Len(ast) : Scoped(ast, s) /\ Inside(ast, s, n)}
<1>1. Nodes = 1 .. Len(ast) /\ Len(ast) \in Nat
  BY ParentIsPar
<1>2. ASSUME NEW s \in 1 .. Len(ast)
      PROVE  (LET inside[m \in Nodes] == m = s \/ (m # 1 /\ inside[ParentOf[m]]) IN inside[n])
             <=> Inside(ast, s, n)
  <2> DEFINE Step(f, m) == m = s \/ (m # 1 /\ f[ParentOf[m]])
             IsInside(f) == f = [m \in Nodes |-> Step(f, m)]
             inside == CHOOSE f : IsInside(f)
             g == [m \in Nodes |-> Inside(ast, s, m)]
  <2>1. (LET inner[m \in Nodes] == m = s \/ (m # 1 /\ inner[ParentOf[m]]) IN inner[n]) = inside[n]
    OBVIOUS
  <2>2. ASSUME NEW m \in 1 .. Len(ast)
        PROVE  /\ Inside(ast, s, m) = (m = s \/ (m # 1 /\ Inside(ast, s, ParentOf[m])))
               /\ m # 1 => ParentOf[m] \in 1 .. m - 1 /\ ParentOf[m] \in 1 .. Len(ast)
    <3>1. CASE m = 1
      <4>1. Inside(ast, s, m) <=> m = s
        <5>1. End(ast, s) \in s .. Len(ast)
          BY EndFacts
        <5> QED BY <1>1, <3>1, <5>1 DEF Inside
      <4> QED BY <3>1, <4>1 DEF Inside
    <3>2. CASE m # 1
      <4>1. m \in 2 .. Len(ast) /\ End(ast, s) \in s .. Len(ast)
        BY <1>1, <3>2, EndFacts
      <4>2. Inside(ast, s, s)
        BY <1>1, <4>1 DEF Inside
      <4>3. Inside(ast, s, m) <=> m = s \/ Inside(ast, s, Par(ast, m))
        BY <4>1, <4>2, InsideParent
      <4> QED BY <3>2, <4>1, <4>3, ParentIsPar DEF Inside
    <3> QED BY <3>1, <3>2
  <2>3. IsInside(g)
    <3>1. ASSUME NEW m \in Nodes
          PROVE  g[m] = Step(g, m)
      BY <1>1, <2>2
    <3> QED BY <3>1
  <2>4. IsInside(inside)
    BY <2>3
  <2> HIDE DEF inside
  <2>5. \A m \in 1 .. Len(ast) : inside[m] = Step(inside, m)
    BY <1>1, <2>4
  <2> DEFINE T == {i \in Nat : \A m \in 1 .. Len(ast) : m <= i => inside[m] = Inside(ast, s, m)}
  <2>6. 0 \in T
    BY <1>1
  <2>7. ASSUME NEW i \in Nat, i \in T
        PROVE  i + 1 \in T
    <3>1. ASSUME NEW m \in 1 .. Len(ast), m = i + 1
          PROVE  inside[m] = Inside(ast, s, m)
      <4>1. m # 1 => inside[ParentOf[m]] = Inside(ast, s, ParentOf[m])
        BY <1>1, <2>2, <2>7, <3>1
      <4> QED BY <2>2, <2>5, <4>1
    <3> QED BY <2>7, <3>1
  <2>8. Nat \subseteq T
    <3> HIDE DEF T
    <3> QED BY <2>6, <2>7, SetInduction
  <2>9. inside[n] = Inside(ast, s, n)
    BY <1>1, <2>8
  <2> QED BY <2>1, <2>9
<1> QED BY <1>1, <1>2, HasScopeIsScoped DEF ScopesAround

(* What the text shows to a use. *)
LEMMA VisibleIsSeen ==
  ASSUME IsProgram(ast), NEW n \in 1 .. Len(ast)
  PROVE  Visible(n) = Seen(ast, n)
<1>1. Nodes = 1 .. Len(ast) /\ Len(ast) \in Nat
  BY ParentIsPar
<1>2. ASSUME NEW d \in 1 .. Len(ast)
      PROVE  /\ ast[d].kind = "fn" /\ ParentOf[d] = 1 <=> d \in Children(ast, 1)
             /\ d \in Children(ast, 1) => ast[d].kind = "fn"
  <2>1. 1 \in 1 .. Len(ast) /\ ast[1].kind = "program"
    BY RootIsAround
  <2>2. CASE d = 1
    BY <2>1, <2>2, NamedFacts DEF Declares
  <2>3. CASE d # 1
    <3>1. d \in 2 .. Len(ast)
      BY <1>1, <2>3
    <3>2. Par(ast, d) = 1 <=> d \in Children(ast, 1)
      BY <2>1, <3>1, OneParent
    <3> QED BY <3>1, <3>2, ParentIsPar, InAFunction
  <2> QED BY <2>2, <2>3
<1>3. ASSUME NEW d \in 1 .. Len(ast), ast[d].kind \in Variables
      PROVE  ScopeAround(d) \in ScopesAround(n) <=> Inside(ast, HomeOf(ast, d), n)
  <2>1. HomeOf(ast, d) = Around(ast, d)
    BY <1>2, <1>3 DEF HomeOf, Variables
  <2>2. Around(ast, d) \in 1 .. Len(ast) /\ Scoped(ast, Around(ast, d))
    BY <2>1, HomeFacts
  <2> QED BY <2>1, <2>2, ScopeAroundIsAround, ScopesAroundAreInside
<1>4. ASSUME NEW d \in 1 .. Len(ast), ast[d].name = ast[n].name
      PROVE  (\/ ast[d].kind = "fn" /\ ParentOf[d] = 1
              \/ ast[d].kind \in Variables /\ d < n /\ ScopeAround(d) \in ScopesAround(n))
             <=> /\ Declares(ast, d)
                 /\ d \in Children(ast, 1) \/ (d < n /\ Inside(ast, HomeOf(ast, d), n))
  BY <1>2, <1>3 DEF Declares, Variables
<1> QED BY <1>1, <1>4 DEF Visible, Seen, Variables, Declares

LEMMA InnermostIsBest ==
  ASSUME IsProgram(ast), NEW n \in 1 .. Len(ast), NEW d \in Seen(ast, n), Best(ast, n, d)
  PROVE  Innermost(n) = d
<1>1. \A e \in Seen(ast, n) : /\ e \in 1 .. Len(ast) /\ Declares(ast, e)
                              /\ HomeOf(ast, e) \in Nat
                              /\ (IF ast[e].kind = "fn" THEN 1 ELSE ScopeAround(e)) = HomeOf(ast, e)
  <2>1. SUFFICES ASSUME NEW e \in Seen(ast, n)
                 PROVE  /\ e \in 1 .. Len(ast) /\ Declares(ast, e) /\ HomeOf(ast, e) \in Nat
                        /\ (IF ast[e].kind = "fn" THEN 1 ELSE ScopeAround(e)) = HomeOf(ast, e)
    OBVIOUS
  <2>2. e \in 1 .. Len(ast) /\ Declares(ast, e)
    BY DEF Seen
  <2>3. ast[e].kind = "fn" <=> e \in Children(ast, 1)
    BY <2>2, NamedFacts DEF Declares, Variables
  <2> QED BY <2>2, <2>3, HomeFacts, ScopeAroundIsAround DEF HomeOf
<1> DEFINE Wins(c) == \A o \in Seen(ast, n) : \/ HomeOf(ast, c) > HomeOf(ast, o)
                                              \/ HomeOf(ast, c) = HomeOf(ast, o) /\ c <= o
<1>2. \A c \in Seen(ast, n) :
        (\A other \in Seen(ast, n) :
           LET scope == IF ast[c].kind = "fn" THEN 1 ELSE ScopeAround(c)
               rival == IF ast[other].kind = "fn" THEN 1 ELSE ScopeAround(other)
           IN scope > rival \/ (scope = rival /\ c <= other)) <=> Wins(c)
  BY <1>1
<1>3. \A c \in Seen(ast, n) : Wins(c) => c = d
  <2>1. Wins(d)
    BY DEF Best
  <2> SUFFICES ASSUME NEW c \in Seen(ast, n), Wins(c)
               PROVE  c = d
    OBVIOUS
  <2>2. /\ HomeOf(ast, c) > HomeOf(ast, d) \/ (HomeOf(ast, c) = HomeOf(ast, d) /\ c <= d)
        /\ HomeOf(ast, d) > HomeOf(ast, c) \/ (HomeOf(ast, d) = HomeOf(ast, c) /\ d <= c)
    BY <2>1
  <2> HIDE DEF Wins
  <2> QED BY <1>1, <2>2
<1>4. Wins(d)
  BY DEF Best
<1>5. Innermost(n) = CHOOSE c \in Seen(ast, n) :
        \A other \in Seen(ast, n) :
          LET scope == IF ast[c].kind = "fn" THEN 1 ELSE ScopeAround(c)
              rival == IF ast[other].kind = "fn" THEN 1 ELSE ScopeAround(other)
          IN scope > rival \/ (scope = rival /\ c <= other)
  BY VisibleIsSeen DEF Innermost
<1> HIDE DEF Wins
<1> QED BY <1>2, <1>3, <1>4, <1>5

LEMMA InvBinds ==
  ASSUME Inv
  PROVE  BindsInnermost
<1>1. IsProgram(ast) /\ Bounds
  BY DEF Inv, StackInv, NamesInv
<1>2. ASSUME pass = "sign", NEW n \in Nodes, ast[n].kind \in {"var", "call"}
      PROVE  IF Visible(n) = {} THEN symbol[n] = None ELSE symbol[n] = symbol[Innermost(n)]
  <2>1. n \in 1 .. Len(ast)
    BY <1>1, <1>2, ParentIsPar
  <2>2. Bound(n)
    BY <1>1, <1>2, <2>1 DEF Bounds, Reached, Uses
  <2>3. CASE Seen(ast, n) = {}
    BY <1>1, <2>1, <2>2, <2>3, VisibleIsSeen DEF Bound
  <2>4. CASE Seen(ast, n) # {}
    <3>1. PICK d \in Seen(ast, n) : Best(ast, n, d) /\ symbol[n] = symbol[d]
      BY <2>2, <2>4 DEF Bound
    <3> QED BY <1>1, <2>1, <2>4, <3>1, InnermostIsBest, VisibleIsSeen
  <2> QED BY <2>3, <2>4
<1> QED BY <1>2 DEF BindsInnermost

(* Shadowing in nested scopes: when names have been resolved, every use of   *)
(* one has the symbol of the innermost declaration that the text shows, the  *)
(* first of a scope that has several, and none when it shows none; for every *)
(* program and whatever the threshold of the scopes' index.                *)
THEOREM BindsInnermostHolds == Spec => []BindsInnermost
BY InvHolds, InvBinds, PTL
===============================================================================
