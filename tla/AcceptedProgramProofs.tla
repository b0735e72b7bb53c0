-------------------------- MODULE AcceptedProgramProofs --------------------------
(***************************************************************************)
(* Proofs about the type checker and the generator of FrontEnd: what a        *)
(* program has that was accepted, for any set of programs and any threshold  *)
(* of the scopes' index.                                                   *)
(***************************************************************************)
EXTENDS FrontEndProofs

-------------------------------------------------------------------------------
(* Expressions, and what is not circular in them. *)

(* What begins with expressions goes on with them. *)
LEMMA ExpressionsBelow ==
  ASSUME NEW p, IsProgram(p), NEW S \in SUBSET (1 .. Len(p)),
         \A n \in S : p[n].kind \in Expressions \/ (n \in 2 .. Len(p) /\ Par(p, n) \in S)
  PROVE  \A n \in S : p[n].kind \in Expressions
<1> DEFINE Bad == {n \in S : p[n].kind \notin Expressions}
<1>1. SUFFICES ASSUME Bad # {} PROVE FALSE
  OBVIOUS
<1>2. PICK n \in Bad : \A m \in Bad : n <= m
  <2>1. Bad \subseteq Nat
    <3>1. S \subseteq 1 .. Len(p) /\ Len(p) \in Nat /\ Bad \subseteq S
      BY ProgramFacts
    <3>2. 1 .. Len(p) \subseteq Nat
      BY <3>1
    <3> HIDE DEF Bad
    <3> QED BY <3>1, <3>2
  <2> HIDE DEF Bad
  <2> QED BY <1>1, <2>1, Least
<1> DEFINE q == Par(p, n)
<1>3. n \in 2 .. Len(p) /\ q \in S /\ q \in 1 .. n - 1 /\ n \in Children(p, q) /\ q \in 1 .. Len(p)
  BY <1>2, OneParent, ProgramFacts
<1>4. q \notin Bad /\ p[q].kind \in Expressions
  BY <1>2, <1>3
<1>5. PICK i \in 1 .. Len(p[q].kids) : n = p[q].kids[i]
  BY <1>3, KidFacts
<1>6. Arranged(p, q) /\ Len(p[q].kids) \in Nat
  BY <1>3, ProgramFacts DEF IsProgram
<1>7. p[n].kind \in Expressions
  <2>1. Len(p[q].kids) # 0
    BY <1>5, <1>6
  <2>2. p[q].kind \in {"add", "assign", "call", "print"}
    BY <1>4, <1>6, <2>1 DEF Arranged, Expressions
  <2>3. \A k \in 1 .. Len(p[q].kids) : p[p[q].kids[k]].kind \in Expressions
    BY <1>6, <2>2 DEF Arranged
  <2> QED BY <1>5, <2>3
<1> QED BY <1>2, <1>7

LEMMA BelowExpression ==
  ASSUME NEW p, IsProgram(p), NEW a \in 1 .. Len(p), p[a].kind \in Expressions,
         NEW n \in 1 .. Len(p), Inside(p, a, n)
  PROVE  p[n].kind \in Expressions
<1> DEFINE S == {m \in 1 .. Len(p) : Inside(p, a, m)}
<1>1. ASSUME NEW m \in S
      PROVE  p[m].kind \in Expressions \/ (m \in 2 .. Len(p) /\ Par(p, m) \in S)
  <2>1. CASE m = a
    BY <2>1
  <2>2. CASE m # a
    <3>1. m \in 2 .. Len(p)
      BY <1>1, <2>2, ProgramFacts DEF Inside
    <3>2. Inside(p, a, Par(p, m)) /\ Par(p, m) \in 1 .. m - 1
      BY <1>1, <2>2, <3>1, InsideParent, OneParent
    <3> QED BY <3>1, <3>2, ProgramFacts
  <2> QED BY <2>1, <2>2
<1> HIDE DEF S
<1>2. S \in SUBSET (1 .. Len(p)) /\ n \in S
  BY DEF S
<1> QED BY <1>1, <1>2, ExpressionsBelow

LEMMA LoopBlock ==
  ASSUME NEW p, IsProgram(p), NEW d \in 1 .. Len(p), p[d].kind = "for"
  PROVE  p[d].kids[3] \in Nat
<1>1. 3 \in 1 .. Len(p[d].kids)
  <2>1. Arranged(p, d)
    BY ProgramFacts DEF IsProgram
  <2>2. Len(p[d].kids) = 3
    BY <2>1 DEF Arranged
  <2> QED BY <2>2
<1>2. p[d].kids[3] \in Children(p, d)
  BY <1>1, KidFacts, Zenon
<1>3. Children(p, d) \subseteq d + 1 .. Len(p)
  BY KidFacts, Zenon
<1> QED BY <1>2, <1>3

LEMMA BehindIsExpression ==
  ASSUME NEW p, IsProgram(p), NEW d \in 1 .. Len(p), NEW n \in 1 .. Len(p), Behind(p, d, n)
  PROVE  p[n].kind \in Expressions
<1> DEFINE S == {m \in 1 .. Len(p) : Behind(p, d, m)}
<1>1. ASSUME NEW m \in S
      PROVE  p[m].kind \in Expressions \/ (m \in 2 .. Len(p) /\ Par(p, m) \in S)
  <2> DEFINE q == Par(p, m)
  <2>1. m \in 2 .. Len(p) /\ Len(p) \in Nat
    BY <1>1, ProgramFacts DEF Behind
  <2>2. Inside(p, d, q) /\ q \in 1 .. m - 1 /\ m \in Children(p, q) /\ q \in 1 .. Len(p)
    BY <1>1, <2>1, InsideParent, OneParent DEF Behind
  <2>3. CASE q = d
    <3>1. PICK i \in 1 .. Len(p[d].kids) : m = p[d].kids[i]
      BY <2>2, <2>3, KidFacts
    <3>2. Arranged(p, d) /\ Len(p[d].kids) \in Nat
      BY ProgramFacts DEF IsProgram
    <3>3. CASE p[d].kind = "let"
      BY <3>1, <3>2, <3>3 DEF Arranged
    <3>4. CASE p[d].kind = "for"
      <4>1. Len(p[d].kids) = 3
        BY <3>2, <3>4 DEF Arranged
      <4>2. i # 3
        BY <1>1, <3>1, <3>4 DEF Behind
      <4>3. i = 1 \/ i = 2
        BY <3>1, <4>1, <4>2
      <4> QED BY <3>1, <3>2, <3>4, <4>3 DEF Arranged
    <3> QED BY <1>1, <3>3, <3>4 DEF Behind
  <2>4. CASE q # d
    <3>1. d < q
      BY <2>2, <2>4 DEF Inside
    <3>2. p[d].kind = "for" => q < p[d].kids[3]
      <4> SUFFICES ASSUME p[d].kind = "for" PROVE q < p[d].kids[3]
        OBVIOUS
      <4>3. p[d].kids[3] \in Nat
        BY LoopBlock
      <4> QED BY <1>1, <2>1, <2>2, <4>3 DEF Behind
    <3> QED BY <1>1, <2>1, <2>2, <3>1, <3>2 DEF Behind
  <2> QED BY <2>3, <2>4
<1> HIDE DEF S
<1>2. S \in SUBSET (1 .. Len(p)) /\ n \in S
  BY DEF S
<1> QED BY <1>1, <1>2, ExpressionsBelow

(* Operands of what is not circular, and conditions, are not circular. *)
LEMMA PartsNotCircular ==
  ASSUME NEW p, IsProgram(p), NEW n \in 1 .. Len(p), ~Circular(p, n), NEW k \in Children(p, n)
  PROVE  ~Circular(p, k)
<1>1. k \in 1 .. Len(p) /\ k > n /\ End(p, k) <= End(p, n) /\ Len(p) \in Nat
      /\ End(p, k) \in k .. Len(p) /\ End(p, n) \in n .. Len(p)
  <2>1. k \in n + 1 .. Len(p) /\ Len(p) \in Nat /\ k <= End(p, n)
    BY KidFacts, KidsTile, ProgramFacts
  <2>2. k \in 1 .. Len(p) /\ End(p, n) \in n .. Len(p)
    BY <2>1, EndFacts
  <2>3. Inside(p, n, k)
    BY <2>1, <2>2 DEF Inside
  <2> QED BY <2>1, <2>2, <2>3, NestedSubtrees
<1> QED BY <1>1 DEF Circular

LEMMA ConditionNotCircular ==
  ASSUME NEW p, IsProgram(p), NEW n \in 1 .. Len(p), p[n].kind \in {"if", "while"},
         NEW k \in Children(p, n), p[k].kind \in Expressions
  PROVE  ~Circular(p, k)
<1> SUFFICES ASSUME NEW m \in k .. End(p, k), NEW d \in 1 .. Len(p), Behind(p, d, m)
             PROVE  FALSE
  BY DEF Circular
<1>1. k \in 2 .. Len(p) /\ k \in 1 .. Len(p) /\ Len(p) \in Nat /\ Par(p, k) = n
      /\ k > n
  BY KidFacts, OneParent, ProgramFacts
<1>2. End(p, k) \in k .. Len(p) /\ End(p, d) \in d .. Len(p)
  BY <1>1, EndFacts
<1>3. m \in 1 .. Len(p) /\ Inside(p, k, m) /\ d < m /\ Inside(p, d, m) /\ p[d].kind \in {"let", "for"}
  BY <1>1, <1>2 DEF Inside, Behind
<1>4. ~Inside(p, k, d)
  <2>1. Inside(p, k, d) => p[d].kind \in Expressions
    BY <1>1, BelowExpression
  <2> QED BY <1>3, <2>1 DEF Expressions
<1>5. d < k /\ Inside(p, d, k)
  BY <1>1, <1>2, <1>3, <1>4 DEF Inside
<1>6. Inside(p, d, n)
  BY <1>1, <1>5, InsideParent
<1>7. d # n /\ d < n
  BY <1>2, <1>3, <1>6 DEF Inside
<1>8. p[d].kind = "for" => n < p[d].kids[3]
  <2> SUFFICES ASSUME p[d].kind = "for" PROVE n < p[d].kids[3]
    OBVIOUS
  <2>3. p[d].kids[3] \in Nat
    BY LoopBlock
  <2> QED BY <1>1, <1>2, <2>3 DEF Behind
<1>9. Behind(p, d, n)
  BY <1>3, <1>6, <1>7, <1>8 DEF Behind
<1>10. p[n].kind \in Expressions
  BY <1>9, BehindIsExpression
<1> QED BY <1>10 DEF Expressions

-------------------------------------------------------------------------------
(* The stack of the type checker: what is behind an item is not below its     *)
(* node.                                                                   *)

Nests(p, seq) ==
  \A i, j \in 1 .. Len(seq) : i < j => ~Inside(p, seq[i].node, seq[j].node)

Suits(p, it) ==
  /\ it.at \in {"visit", "leave", "condition", "range", "argument"}
  /\ it.at = "leave" => p[it.node].kind \in {"fn", "let", "add", "assign", "print", "return"}

CheckerStack == Nests(ast, todo) /\ \A i \in 1 .. Len(todo) : Suits(ast, todo[i])

Pending(n) == \E i \in 1 .. Len(todo) : todo[i].node = n

LEMMA SiblingsApart ==
  ASSUME NEW p, IsProgram(p), NEW n \in 1 .. Len(p),
         NEW k \in Children(p, n), NEW m \in Children(p, n), k # m
  PROVE  ~Inside(p, k, m)
<1>1. /\ k \in 2 .. Len(p) /\ m \in 2 .. Len(p) /\ k \in 1 .. Len(p) /\ k > n
      /\ Par(p, m) = n /\ Len(p) \in Nat
  BY KidFacts, OneParent, ProgramFacts
<1>2. Inside(p, k, m) => Inside(p, k, n)
  BY <1>1, InsideParent
<1> QED BY <1>1, <1>2 DEF Inside

(* Children of the node, each once. *)
ChildList(nodes) ==
  /\ nodes \in Seq(Nat)
  /\ \A i \in 1 .. Len(nodes) : nodes[i] \in Children(ast, This)
  /\ \A i, j \in 1 .. Len(nodes) : i < j => nodes[i] # nodes[j]

LEMMA ChildLists ==
  ASSUME StackInv, todo # <<>>
  PROVE  /\ ChildList(<<>>) /\ ChildList(Kids(This))
         /\ Len(Kids(This)) > 0 => ChildList(Front(Kids(This))) /\ ChildList(Tail(Kids(This)))
         /\ \A k \in Children(ast, This) : ChildList(<<k>>)
<1> DEFINE kids == Kids(This)
<1>1. /\ This \in 1 .. Len(ast) /\ IsProgram(ast) /\ kids \in Seq(Nat) /\ Len(kids) \in Nat
      /\ kids = ast[This].kids /\ Len(ast) \in Nat
  BY NodeFacts, ProgramFacts
<1>2. /\ Children(ast, This) \subseteq This + 1 .. Len(ast)
      /\ \A i \in 1 .. Len(kids) : kids[i] \in Children(ast, This)
      /\ \A i, j \in 1 .. Len(kids) : i < j => kids[i] < kids[j]
  BY <1>1, KidFacts
<1>3. \A i, j \in 1 .. Len(kids) : i < j => kids[i] # kids[j]
  BY <1>1, <1>2
<1> HIDE DEF kids
<1>4. ChildList(kids)
  BY <1>1, <1>2, <1>3 DEF ChildList
<1>5. ASSUME Len(kids) > 0
      PROVE  ChildList(Front(kids)) /\ ChildList(Tail(kids))
  <2>1. /\ Front(kids) \in Seq(Nat) /\ Len(Front(kids)) = Len(kids) - 1
        /\ \A i \in 1 .. Len(kids) - 1 : Front(kids)[i] = kids[i] /\ i \in 1 .. Len(kids)
    <3>1. /\ Front(kids) \in Seq(Nat) /\ Len(Front(kids)) = Len(kids) - 1
          /\ \A i \in 1 .. Len(kids) - 1 : Front(kids)[i] = kids[i]
      BY <1>1, <1>5, FrontFacts
    <3>2. \A i \in 1 .. Len(kids) - 1 : i \in 1 .. Len(kids)
      BY <1>1
    <3> QED BY <3>1, <3>2
  <2>2. /\ Tail(kids) \in Seq(Nat) /\ Len(Tail(kids)) = Len(kids) - 1
        /\ \A i \in 1 .. Len(kids) - 1 : Tail(kids)[i] = kids[i + 1] /\ i + 1 \in 1 .. Len(kids)
    BY <1>1, <1>5, TailFacts
  <2>3. ChildList(Front(kids))
    BY <1>2, <1>3, <2>1 DEF ChildList
  <2>4. ChildList(Tail(kids))
    <3>1. \A i, j \in 1 .. Len(kids) - 1 : i < j => i + 1 < j + 1
      BY <1>1
    <3> QED BY <1>2, <1>3, <2>2, <3>1 DEF ChildList
  <2> QED BY <2>3, <2>4
<1>6. ASSUME NEW k \in Children(ast, This)
      PROVE  ChildList(<<k>>)
  <2>1. <<k>> \in Seq(Nat) /\ Len(<<k>>) = 1 /\ <<k>>[1] = k
    BY <1>1, <1>2
  <2> QED BY <2>1 DEF ChildList
<1>7. ChildList(<<>>)
  BY EmptySeq DEF ChildList
<1> QED BY <1>4, <1>5, <1>6, <1>7 DEF kids

(* Items that visit such children, and one for the node after them. *)
Branches(seq) ==
  /\ seq \in Seq(Item)
  /\ \A i \in 1 .. Len(seq) :
       /\ Suits(ast, seq[i])
       /\ seq[i].node \in Children(ast, This) \/ (seq[i].node = This /\ i = Len(seq))
  /\ \A i, j \in 1 .. Len(seq) : i < j => seq[i].node # seq[j].node

Lasts(at) == [at |-> at, node |-> This, note |-> 0]

LEMMA VisitsBranch ==
  ASSUME StackInv, todo # <<>>, NEW nodes, ChildList(nodes)
  PROVE  /\ Branches(Visits(nodes))
         /\ \A at \in Ats : \A note \in Notes : Suits(ast, Lasts(at)) =>
              /\ Branches(Visits(nodes) \o Then(at, note))
              /\ \E i \in 1 .. Len(Visits(nodes) \o Then(at, note)) :
                   (Visits(nodes) \o Then(at, note))[i].node = This
<1> DEFINE v == Visits(nodes)
<1>1. /\ nodes \in Seq(Nat) /\ Len(nodes) \in Nat /\ DOMAIN nodes = 1 .. Len(nodes)
      /\ \A i \in 1 .. Len(nodes) : nodes[i] \in Nat /\ nodes[i] \in Children(ast, This)
      /\ \A i, j \in 1 .. Len(nodes) : i < j => nodes[i] # nodes[j]
  BY LenProperties, ElementOfSeq DEF ChildList
<1>2. \A n \in Nat : /\ Visit(n) \in Item /\ Visit(n).at = "visit" /\ Visit(n).node = n
                     /\ Suits(ast, Visit(n))
  BY DEF Visit, Item, Ats, Notes, Suits
<1>3. v = [i \in 1 .. Len(nodes) |-> Visit(nodes[i])]
  BY <1>1 DEF Visits
<1>4. /\ v \in Seq(Item) /\ Len(v) = Len(nodes)
      /\ \A i \in 1 .. Len(nodes) : v[i] = Visit(nodes[i])
  BY <1>1, <1>2, <1>3
<1> HIDE DEF v
<1>5. \A i \in 1 .. Len(v) : /\ v[i].node = nodes[i] /\ Suits(ast, v[i])
                             /\ v[i].node \in Children(ast, This)
  <2>1. ASSUME NEW i \in 1 .. Len(v)
        PROVE  /\ v[i].node = nodes[i] /\ Suits(ast, v[i])
               /\ v[i].node \in Children(ast, This)
    <3>1. i \in 1 .. Len(nodes) /\ v[i] = Visit(nodes[i])
      BY <1>4
    <3>2. nodes[i] \in Nat /\ nodes[i] \in Children(ast, This)
      BY <1>1, <3>1
    <3> QED BY <1>2, <3>1, <3>2, Zenon
  <2> QED BY <2>1
<1>6. \A i, j \in 1 .. Len(v) : i < j => v[i].node # v[j].node
  BY <1>1, <1>4, <1>5
<1>7. Branches(v)
  BY <1>4, <1>5, <1>6 DEF Branches
<1>8. ASSUME NEW at \in Ats, NEW note \in Notes, Suits(ast, Lasts(at))
      PROVE  /\ Branches(v \o Then(at, note))
             /\ \E i \in 1 .. Len(v \o Then(at, note)) : (v \o Then(at, note))[i].node = This
  <2> DEFINE it == [at |-> at, node |-> This, note |-> note]
             c  == v \o Then(at, note)
  <2>1. This \in 1 .. Len(ast) /\ IsProgram(ast) /\ Len(ast) \in Nat
    BY NodeFacts, ProgramFacts
  <2>2. it \in Item /\ it.node = This /\ Suits(ast, it)
    BY <1>8, <2>1 DEF Item, Suits, Lasts
  <2>3. Then(at, note) = <<it>>
    BY DEF Then, This, Top
  <2> HIDE DEF it
  <2>4. /\ c \in Seq(Item) /\ Len(c) = Len(v) + 1
        /\ \A i \in 1 .. Len(v) : c[i] = v[i]
        /\ c[Len(v) + 1] = it
    <3>1. <<it>> \in Seq(Item) /\ Len(<<it>>) = 1 /\ <<it>>[1] = it
      BY <2>2
    <3>2. /\ c \in Seq(Item) /\ Len(c) = Len(v) + Len(<<it>>)
          /\ \A i \in 1 .. Len(c) : c[i] = IF i <= Len(v) THEN v[i] ELSE <<it>>[i - Len(v)]
      BY <1>4, <2>3, <3>1, ConcatProperties
    <3>3. Len(v) \in Nat
      BY <1>1, <1>4
    <3> QED BY <3>1, <3>2, <3>3
  <2> HIDE DEF c
  <2>5. Len(v) \in Nat /\ \A i \in 1 .. Len(c) : i \in 1 .. Len(v) \/ i = Len(v) + 1
    BY <1>1, <1>4, <2>4
  <2>6. This \notin Children(ast, This)
    BY <2>1, KidFacts
  <2>7. \A i \in 1 .. Len(c) :
          /\ Suits(ast, c[i])
          /\ c[i].node \in Children(ast, This) \/ (c[i].node = This /\ i = Len(c))
    BY <1>5, <2>2, <2>4, <2>5
  <2>8. \A i, j \in 1 .. Len(c) : i < j => c[i].node # c[j].node
    <3> SUFFICES ASSUME NEW i \in 1 .. Len(c), NEW j \in 1 .. Len(c), i < j
                 PROVE  c[i].node # c[j].node
      OBVIOUS
    <3>1. i \in 1 .. Len(v)
      BY <2>4, <2>5
    <3>2. CASE j \in 1 .. Len(v)
      BY <1>6, <2>4, <3>1, <3>2
    <3>3. CASE j = Len(v) + 1
      BY <1>5, <2>2, <2>4, <2>6, <3>1, <3>3
    <3> QED BY <2>5, <3>2, <3>3
  <2>9. Len(v) + 1 \in 1 .. Len(c) /\ c[Len(v) + 1].node = This
    BY <2>2, <2>4, <2>5
  <2> QED BY <2>4, <2>7, <2>8, <2>9 DEF Branches, c
<1> QED BY <1>7, <1>8 DEF v

LEMMA VisitsFew ==
  /\ Visits(<<>>) = <<>>
  /\ \A k : Visits(<<k>>) = <<Visit(k)>>
<1>1. Visits(<<>>) = <<>>
  BY DEF Visits
<1>2. ASSUME NEW k
      PROVE  Visits(<<k>>) = <<Visit(k)>>
  BY DEF Visits
<1> QED BY <1>1, <1>2

LEMMA BranchesNest ==
  ASSUME StackInv, todo # <<>>, CheckerStack, UNCHANGED ast, NEW items, Branches(items),
         Continue(items)
  PROVE  /\ CheckerStack'
         /\ \A n : n # This /\ Pending(n) => Pending(n)'
         /\ \A n : (\E i \in 1 .. Len(items) : items[i].node = n) => Pending(n)'
         /\ \A n : Pending(n)' => Pending(n) \/ n \in Children(ast, This)
<1> DEFINE t == Tail(todo)
<1>1. /\ todo \in Seq(Item) /\ Top = todo[1] /\ This \in 1 .. Len(ast) /\ IsProgram(ast)
      /\ Len(ast) \in Nat /\ This = todo[1].node
  BY StackTop DEF StackInv, This
<1>2. items \in Seq(Item) /\ Len(items) \in Nat /\ Len(todo) \in Nat \ {0}
  BY <1>1, LenProperties, EmptySeq DEF Branches
<1>3. t \in Seq(Item) /\ Len(t) = Len(todo) - 1 /\ \A i \in 1 .. Len(t) : t[i] = todo[i + 1]
  BY <1>1, <1>2, HeadTailProperties
<1>4. todo' = items \o t
  BY DEF Continue
<1> HIDE DEF t
<1>5. /\ Len(todo') = Len(items) + Len(t)
      /\ \A i \in 1 .. Len(todo') : todo'[i] = IF i <= Len(items) THEN items[i] ELSE t[i - Len(items)]
  BY <1>2, <1>3, <1>4, ConcatProperties
<1>6. /\ \A i \in 1 .. Len(items) : i \in 1 .. Len(todo') /\ todo'[i] = items[i]
      /\ \A i \in 2 .. Len(todo) : /\ Len(items) + i - 1 \in 1 .. Len(todo')
                                   /\ todo'[Len(items) + i - 1] = todo[i]
      /\ \A i \in 1 .. Len(todo') : \/ i \in 1 .. Len(items) /\ todo'[i] = items[i]
                                    \/ /\ i > Len(items) /\ i - Len(items) + 1 \in 2 .. Len(todo)
                                       /\ todo'[i] = todo[i - Len(items) + 1]
  <2>1. ASSUME NEW i \in 1 .. Len(items)
        PROVE  i \in 1 .. Len(todo') /\ todo'[i] = items[i]
    <3>1. i \in 1 .. Len(todo') /\ i <= Len(items)
      BY <1>2, <1>3, <1>5
    <3> QED BY <1>5, <3>1
  <2>2. ASSUME NEW i \in 2 .. Len(todo)
        PROVE  /\ Len(items) + i - 1 \in 1 .. Len(todo')
               /\ todo'[Len(items) + i - 1] = todo[i]
    <3>1. /\ Len(items) + i - 1 \in 1 .. Len(todo') /\ ~(Len(items) + i - 1 <= Len(items))
          /\ Len(items) + i - 1 - Len(items) = i - 1
          /\ i - 1 \in 1 .. Len(t) /\ (i - 1) + 1 = i
      BY <1>2, <1>3, <1>5
    <3> QED BY <1>3, <1>5, <3>1
  <2>3. ASSUME NEW i \in 1 .. Len(todo')
        PROVE  \/ i \in 1 .. Len(items) /\ todo'[i] = items[i]
               \/ /\ i > Len(items) /\ i - Len(items) + 1 \in 2 .. Len(todo)
                  /\ todo'[i] = todo[i - Len(items) + 1]
    <3>1. CASE i <= Len(items)
      <4>1. i \in 1 .. Len(items)
        BY <1>2, <3>1
      <4> QED BY <2>1, <4>1
    <3>2. CASE ~(i <= Len(items))
      <4>1. /\ i > Len(items) /\ i - Len(items) + 1 \in 2 .. Len(todo)
            /\ i - Len(items) \in 1 .. Len(t)
        BY <1>2, <1>3, <1>5, <3>2
      <4> QED BY <1>3, <1>5, <3>2, <4>1
    <3> QED BY <3>1, <3>2
  <2> QED BY <2>1, <2>2, <2>3
<1>7. \A i \in 1 .. Len(todo') : Suits(ast, todo'[i])
  <2>1. \A i \in 2 .. Len(todo) : Suits(ast, todo[i])
    BY DEF CheckerStack
  <2>2. \A i \in 1 .. Len(items) : Suits(ast, items[i])
    BY DEF Branches
  <2> QED BY <1>6, <2>1, <2>2
<1>8. ASSUME NEW k \in Children(ast, This)
      PROVE  ~Inside(ast, k, This) /\ \A m : Inside(ast, k, m) => Inside(ast, This, m)
  <2>1. k \in This + 1 .. Len(ast) /\ k <= End(ast, This) /\ End(ast, This) \in This .. Len(ast)
    BY <1>1, KidFacts, KidsTile, EndFacts
  <2>2. Inside(ast, This, k)
    BY <1>1, <2>1 DEF Inside
  <2>3. End(ast, k) <= End(ast, This) /\ End(ast, k) \in k .. Len(ast)
    BY <1>1, <2>2, NestedSubtrees
  <2> QED BY <1>1, <2>1, <2>3 DEF Inside
<1>9. ASSUME NEW i \in 1 .. Len(todo'), NEW j \in 1 .. Len(todo'), i < j
      PROVE  ~Inside(ast, todo'[i].node, todo'[j].node)
  <2>1. CASE i \in 1 .. Len(items) /\ j \in 1 .. Len(items)
    <3>1. /\ todo'[i] = items[i] /\ todo'[j] = items[j] /\ items[i].node # items[j].node
          /\ items[i].node \in Children(ast, This)
          /\ items[j].node \in Children(ast, This) \/ items[j].node = This
      <4>1. i # Len(items)
        BY <1>2, <1>9, <2>1
      <4>2. todo'[i] = items[i] /\ todo'[j] = items[j]
        BY <1>6, <2>1
      <4>3. /\ items[i].node \in Children(ast, This) \/ (items[i].node = This /\ i = Len(items))
            /\ items[j].node \in Children(ast, This) \/ (items[j].node = This /\ j = Len(items))
            /\ items[i].node # items[j].node
        BY <1>9, <2>1 DEF Branches
      <4> QED BY <4>1, <4>2, <4>3
    <3> QED BY <1>1, <1>8, <3>1, SiblingsApart
  <2>2. CASE i \in 1 .. Len(items) /\ j \notin 1 .. Len(items)
    <3>1. PICK m \in 2 .. Len(todo) : todo'[j] = todo[m]
      BY <1>6, <2>2
    <3>2. ~Inside(ast, This, todo[m].node)
      BY <1>1, <1>2, <3>1 DEF CheckerStack, Nests
    <3>3. todo'[i].node \in Children(ast, This) \/ todo'[i].node = This
      <4>1. todo'[i] = items[i]
        BY <1>6, <2>2
      <4>2. items[i].node \in Children(ast, This) \/ items[i].node = This
        BY <2>2 DEF Branches
      <4> QED BY <4>1, <4>2
    <3> QED BY <1>8, <3>1, <3>2, <3>3
  <2>3. CASE i \notin 1 .. Len(items)
    <3> DEFINE a == i - Len(items) + 1
               b == j - Len(items) + 1
    <3>1. /\ a \in 2 .. Len(todo) /\ todo'[i] = todo[a]
          /\ b \in 2 .. Len(todo) /\ todo'[j] = todo[b]
          /\ a < b
      <4>1. j \notin 1 .. Len(items)
        BY <1>2, <1>9, <2>3
      <4> QED BY <1>2, <1>6, <1>9, <2>3, <4>1
    <3> HIDE DEF a, b
    <3>2. a \in 1 .. Len(todo) /\ b \in 1 .. Len(todo)
      BY <1>2, <3>1
    <3> QED BY <3>1, <3>2 DEF CheckerStack, Nests
  <2> QED BY <2>1, <2>2, <2>3
<1>10. CheckerStack'
  BY <1>7, <1>9 DEF CheckerStack, Nests
<1>11. ASSUME NEW n, n # This, Pending(n)
       PROVE  Pending(n)'
  <2>1. PICK i \in 1 .. Len(todo) : todo[i].node = n
    BY <1>11 DEF Pending
  <2>2. i \in 2 .. Len(todo)
    BY <1>1, <1>2, <1>11, <2>1
  <2> QED BY <1>6, <2>1, <2>2 DEF Pending
<1>12. ASSUME NEW n, \E i \in 1 .. Len(items) : items[i].node = n
       PROVE  Pending(n)'
  BY <1>6, <1>12 DEF Pending
<1>13. ASSUME NEW n, Pending(n)'
       PROVE  Pending(n) \/ n \in Children(ast, This)
  <2>1. PICK i \in 1 .. Len(todo') : todo'[i].node = n
    BY <1>13 DEF Pending
  <2>2. CASE i \in 1 .. Len(items)
    <3>1. n \in Children(ast, This) \/ n = This
      BY <1>6, <2>1, <2>2 DEF Branches
    <3>2. 1 \in 1 .. Len(todo) /\ todo[1].node = This
      BY <1>1, <1>2
    <3> QED BY <3>1, <3>2 DEF Pending
  <2>3. CASE i \notin 1 .. Len(items)
    <3>1. PICK m \in 2 .. Len(todo) : todo'[i] = todo[m]
      BY <1>6, <2>3
    <3>2. m \in 1 .. Len(todo)
      BY <1>2
    <3> QED BY <2>1, <3>1, <3>2 DEF Pending
  <2> QED BY <2>2, <2>3
<1> QED BY <1>10, <1>11, <1>12, <1>13

-------------------------------------------------------------------------------
(* The invariants of the type checker and the generator                    *)

(* Nodes that the type checker is done with. *)
Passed(n) ==
  \/ pass \in {"declare", "generate"}
  \/ pass = "check" /\ n < Frontier /\ ~Pending(n)

(* Nodes in a function within another, which MLIRGen leaves out. *)
Hidden(p, n) ==
  \E g \in 2 .. Len(p) : p[g].kind = "fn" /\ g \notin Children(p, 1) /\ Inside(p, g, n)

WalkInv ==
  /\ pass = "check" => CheckerStack
  /\ pass = "generate" =>
       \A i \in 1 .. Len(todo) : todo[i].at = "visit" /\ ~Hidden(ast, Par(ast, todo[i].node))

(* A symbol has the type and the operation of the kind of its node, and is    *)
(* mutable where the text says so.                                         *)
Valued == {"number", "bool"}
Apt(p, r) ==
  /\ IF r.node \in Children(p, 1) THEN r.type \in {"function", Null} ELSE r.type \in Valued \cup {Null}
  /\ r.mutable => p[r.node].kind = "let" /\ p[r.node].mut
  /\ r.op \in {None, r.node}

FieldsInv ==
  /\ \A n \in 1 .. Len(ast) : type[n] # "function"
  /\ \A s \in DOMAIN arena : Apt(ast, arena[s])

(* The signatures of the functions of the program. *)
Typed(n) == symbol[n] # None => arena[symbol[n]].type \in Valued
Signatures ==
  /\ pass \in {"collect", "resolve"} => \A s \in DOMAIN arena : arena[s].type = Null
  /\ \A k \in Children(ast, 1) :
       symbol[k] # None /\ (pass = "sign" => k < Frontier) /\ pass \notin {"collect", "resolve"} =>
         arena[symbol[k]].type = "function"
  /\ \A k \in Children(ast, 1) :
       symbol[k] # None /\ arena[symbol[k]].type = "function" =>
         \A d \in Children(ast, k) : ast[d].kind = "param" => Typed(d)

(* Without diagnostics: names have symbols, and what the type checker is done *)
(* with has a type.                                                        *)
Resolved == \A n \in 1 .. Len(ast) : Named(ast, n) /\ Reached(n) => symbol[n] # None

ExpressionsTyped ==
  \A n \in 1 .. Len(ast) :
    ast[n].kind \in Expressions /\ Passed(n) /\ ~Circular(ast, n) => type[n] # Null
VariablesTyped ==
  \A d \in 1 .. Len(ast) : ast[d].kind \in Variables /\ Passed(d) => Typed(d)
TargetsMutable ==
  \A n \in 1 .. Len(ast) : ast[n].kind = "assign" /\ Passed(n) =>
    LET target == symbol[ast[n].kids[1]] IN target # None /\ arena[target].mutable
PendingTyped ==
  pass = "check" =>
    \A i \in 1 .. Len(todo) :
      todo[i].at = "argument" \/ (todo[i].at = "leave" /\ ast[todo[i].node].kind = "print") =>
        type[todo[i].node] # Null

Accepting ==
  /\ Resolved
  /\ ExpressionsTyped
  /\ VariablesTyped
  /\ TargetsMutable
  /\ PendingTyped

(* Functions and variables that MLIRGen has come by have their operations.  *)
Generating ==
  /\ fault = None
  /\ pass \in {"declare", "generate"} => errors = {}
  /\ \A k \in Children(ast, 1) : pass = "generate" \/ (pass = "declare" /\ k < Frontier) =>
       arena[symbol[k]].op = k
  /\ pass = "generate" =>
       \A d \in 1 .. Len(ast) : ast[d].kind \in Variables /\ d < Frontier /\ ~Hidden(ast, d) =>
         arena[symbol[d]].op = d

Consistent == WalkInv /\ FieldsInv /\ Signatures /\ (errors = {} => Accepting) /\ Generating

-------------------------------------------------------------------------------
(* What the type checker is done with                                      *)

LEMMA LoBounds ==
  ASSUME NEW p, IsProgram(p), NEW it, Fits(p, it)
  PROVE  /\ Lo(p, it) \in Nat /\ Hi(p, it) \in Nat /\ Lo(p, it) <= Hi(p, it) + 1
         /\ it.node \in 1 .. Len(p) /\ it.node <= Hi(p, it)
<1> DEFINE n == it.node
           kids == p[n].kids
<1>1. /\ n \in 2 .. Len(p) /\ n \in 1 .. Len(p) /\ Len(p) \in Nat
      /\ kids \in Seq(Nat) /\ Len(kids) \in Nat /\ Arranged(p, n)
      /\ End(p, n) \in Nat /\ End(p, n) >= n
  <2>1. n \in 2 .. Len(p) /\ n \in 1 .. Len(p) /\ Len(p) \in Nat
    BY ProgramFacts DEF Fits
  <2>2. End(p, n) \in n .. Len(p)
    BY <2>1, EndFacts
  <2>3. kids \in Seq(Nat) /\ Len(kids) \in Nat /\ Arranged(p, n)
    BY <2>1, ProgramFacts DEF IsProgram
  <2> QED BY <2>1, <2>2, <2>3
<1>2. ASSUME NEW i \in 1 .. Len(kids)
      PROVE  kids[i] \in Nat /\ kids[i] <= End(p, n) /\ End(p, kids[i]) \in Nat
             /\ End(p, kids[i]) <= End(p, n)
  <2>1. kids[i] \in Children(p, n) /\ Children(p, n) \subseteq n + 1 .. Len(p)
    BY <1>1, KidFacts, Zenon
  <2>2. kids[i] <= End(p, n)
    BY <1>1, <2>1, KidsTile, Zenon
  <2>3. Inside(p, n, kids[i])
    BY <1>1, <2>1, <2>2 DEF Inside
  <2>4. End(p, kids[i]) <= End(p, n) /\ End(p, kids[i]) \in kids[i] .. Len(p)
    BY <1>1, <2>3, NestedSubtrees, Zenon
  <2> HIDE DEF kids
  <2>5. kids[i] \in n + 1 .. Len(p)
    BY <2>1, Zenon
  <2>6. kids[i] \in Nat
    BY <1>1, <2>5
  <2>7. End(p, kids[i]) \in Nat
    BY <2>4, <2>6
  <2> QED BY <2>2, <2>4, <2>6, <2>7, Zenon
<1>3. it.at = "condition" => 1 \in 1 .. Len(kids)
  <2> SUFFICES ASSUME it.at = "condition" PROVE 1 \in 1 .. Len(kids)
    OBVIOUS
  <2>1. p[n].kind = "if" \/ p[n].kind = "while"
    BY DEF Fits
  <2>2. Len(kids) = 2 \/ Len(kids) = 3
    BY <1>1, <2>1 DEF Arranged
  <2> HIDE DEF kids
  <2> QED BY <2>2
<1>4. it.at = "range" => 3 \in 1 .. Len(kids)
  <2> SUFFICES ASSUME it.at = "range" PROVE 3 \in 1 .. Len(kids)
    OBVIOUS
  <2>1. p[n].kind = "for"
    BY DEF Fits
  <2>2. Len(kids) = 3
    BY <1>1, <2>1 DEF Arranged
  <2> HIDE DEF kids
  <2> QED BY <2>2
<1>5. it.at = "argument" /\ it.note <= Len(kids) => it.note \in 1 .. Len(kids)
  BY <1>1 DEF Fits
<1> HIDE DEF kids
<1>6. Lo(p, it) \in Nat /\ Hi(p, it) \in Nat /\ Lo(p, it) <= Hi(p, it) + 1
  <2>1. CASE it.at \in {"visit", "iterator"}
    BY <1>1, <2>1 DEF Lo, Hi
  <2>2. CASE it.at = "condition"
    BY <1>1, <1>2, <1>3, <2>2 DEF Lo, Hi, kids
  <2>3. CASE it.at = "range"
    <3>1. Lo(p, it) = kids[3] /\ Hi(p, it) = End(p, n)
      BY <2>3 DEF Lo, Hi, kids
    <3>2. kids[3] \in Nat /\ kids[3] <= End(p, n)
      BY <1>2, <1>4, <2>3
    <3> QED BY <1>1, <3>1, <3>2
  <2>4. CASE it.at = "argument" /\ it.note <= Len(kids)
    <3>1. Lo(p, it) = kids[it.note] /\ Hi(p, it) = End(p, n)
      BY <2>4 DEF Lo, Hi, kids
    <3>2. kids[it.note] \in Nat /\ kids[it.note] <= End(p, n)
      BY <1>2, <1>5, <2>4
    <3> QED BY <1>1, <3>1, <3>2
  <2>5. CASE /\ it.at \notin {"visit", "iterator", "condition", "range"}
             /\ ~(it.at = "argument" /\ it.note <= Len(kids))
    <3>1. Lo(p, it) = End(p, n) + 1
      BY <2>5 DEF Lo, kids
    <3> QED BY <1>1, <2>5, <3>1 DEF Hi
  <2> QED BY <2>1, <2>2, <2>3, <2>4, <2>5
<1> QED BY <1>1, <1>6 DEF Hi

(* Every item begins behind the first. *)
LEMMA LaterItems ==
  ASSUME NEW p, IsProgram(p), NEW seq, NEW lo, Linked(p, seq, lo), seq # <<>>
  PROVE  \A i \in 2 .. Len(seq) : Lo(p, seq[i]) > Hi(p, seq[1])
<1> DEFINE S == {i \in 2 .. Len(seq) : ~(Lo(p, seq[i]) > Hi(p, seq[1]))}
<1>1. Len(seq) \in Nat \ {0}
  BY EmptySeq DEF Linked
<1>2. \A i \in 1 .. Len(seq) :
        /\ Lo(p, seq[i]) \in Nat /\ Hi(p, seq[i]) \in Nat /\ Lo(p, seq[i]) <= Hi(p, seq[i]) + 1
  BY LoBounds DEF Linked
<1>3. \A i \in 1 .. Len(seq) - 1 : Lo(p, seq[i + 1]) > Hi(p, seq[i])
  <2>1. ASSUME NEW i \in 1 .. Len(seq) - 1
        PROVE  Lo(p, seq[i + 1]) > Hi(p, seq[i])
    <3>1. i \in 1 .. Len(seq) /\ i # Len(seq)
      BY <1>1
    <3>2. Follows(p, Hi(p, seq[i]), Lo(p, seq[i + 1]))
      BY <3>1 DEF Linked
    <3> QED BY <1>2, <3>1, <3>2 DEF Follows
  <2> QED BY <2>1
<1>4. SUFFICES ASSUME S # {} PROVE FALSE
  OBVIOUS
<1>5. PICK i \in S : \A j \in S : i <= j
  <2>1. S \subseteq Nat
    OBVIOUS
  <2> QED BY <1>4, <2>1, Least
<1>6. CASE i = 2
  <2>1. 1 \in 1 .. Len(seq) - 1 /\ 1 + 1 = 2
    BY <1>1, <1>6
  <2> QED BY <1>3, <1>6, <2>1
<1>7. CASE i # 2
  <2> DEFINE j == i - 1
  <2>1. j \in 2 .. Len(seq) /\ j \in 1 .. Len(seq) - 1 /\ j + 1 = i /\ ~(i <= j)
        /\ i \in 1 .. Len(seq) /\ 1 \in 1 .. Len(seq) /\ j \in 1 .. Len(seq)
    BY <1>1, <1>7
  <2> HIDE DEF j
  <2>2. Lo(p, seq[j]) > Hi(p, seq[1])
    BY <1>5, <2>1
  <2>3. Lo(p, seq[i]) > Hi(p, seq[j])
    BY <1>3, <2>1
  <2>4. /\ Lo(p, seq[j]) \in Nat /\ Hi(p, seq[j]) \in Nat /\ Lo(p, seq[j]) <= Hi(p, seq[j]) + 1
        /\ Lo(p, seq[i]) \in Nat /\ Hi(p, seq[1]) \in Nat
    BY <1>2, <2>1
  <2> QED BY <2>2, <2>3, <2>4
<1> QED BY <1>6, <1>7

(* Nodes below that of the item in hand are passed when they are behind. *)
LEMMA BelowPassed ==
  ASSUME StackInv, CheckerStack, pass = "check", todo # <<>>,
         NEW m, Inside(ast, This, m), m # This, m < Frontier
  PROVE  Passed(m)
<1>1. /\ todo \in Seq(Item) /\ Len(todo) \in Nat /\ 1 \in 1 .. Len(todo) /\ This = todo[1].node
  <2>1. todo \in Seq(Item) /\ Top = todo[1]
    BY StackTop
  <2> QED BY <2>1, EmptySeq DEF This
<1>2. \A i \in 1 .. Len(todo) : i = 1 \/ 1 < i
  BY <1>1
<1>3. ~Pending(m)
  BY <1>1, <1>2 DEF Pending, CheckerStack, Nests
<1> QED BY <1>3 DEF Passed

(* A variable that precedes a use in hand and is not passed is declared around *)
(* it.                                                                     *)
LEMMA UnpassedIsBehind ==
  ASSUME StackInv, CheckerStack, pass = "check", todo # <<>>, Top.at = "visit",
         NEW d \in 1 .. Len(ast), ast[d].kind \in Variables, d < This, ~Passed(d)
  PROVE  Behind(ast, d, This)
<1>1. /\ todo \in Seq(Item) /\ Len(todo) \in Nat /\ This = todo[1].node /\ Top = todo[1]
      /\ This \in 2 .. Len(ast) /\ Len(ast) \in Nat /\ Frontier = Lo(ast, Top)
      /\ Linked(ast, todo, Len(ast) + 1) /\ IsProgram(ast)
  BY StackTop DEF StackInv, This
<1>2. Frontier = This
  BY <1>1 DEF Lo, This
<1>3. PICK i \in 1 .. Len(todo) : todo[i].node = d
  BY <1>2 DEF Passed, Pending
<1>4. i \in 2 .. Len(todo)
  BY <1>1, <1>3
<1>5. Lo(ast, todo[i]) > Hi(ast, todo[1])
  BY <1>1, <1>4, LaterItems
<1>6. /\ Fits(ast, todo[1]) /\ Fits(ast, todo[i])
      /\ Suits(ast, todo[i])
  BY <1>1, <1>3 DEF Linked, CheckerStack
<1>7. This <= Hi(ast, todo[1]) /\ Hi(ast, todo[1]) \in Nat /\ Lo(ast, todo[i]) \in Nat
  BY <1>1, <1>6, LoBounds
<1>8. Lo(ast, todo[i]) > This
  BY <1>1, <1>5, <1>7
<1>9. todo[i].at # "visit"
  BY <1>1, <1>3, <1>8 DEF Lo
<1>10. \/ todo[i].at = "leave" /\ ast[d].kind = "let"
       \/ todo[i].at = "range" /\ ast[d].kind = "for"
  BY <1>3, <1>6, <1>9 DEF Suits, Fits, Variables
<1>11. End(ast, d) \in d .. Len(ast)
  BY <1>1, EndFacts
<1>12. CASE todo[i].at = "leave" /\ ast[d].kind = "let"
  <2>1. Lo(ast, todo[i]) = End(ast, d) + 1
    BY <1>3, <1>12 DEF Lo
  <2>2. This <= End(ast, d)
    BY <1>1, <1>8, <1>11, <2>1
  <2> QED BY <1>1, <1>11, <1>12, <2>2 DEF Behind, Inside
<1>13. CASE todo[i].at = "range" /\ ast[d].kind = "for"
  <2>1. Lo(ast, todo[i]) = ast[d].kids[3]
    BY <1>3, <1>13 DEF Lo
  <2>2. 3 \in 1 .. Len(ast[d].kids)
    BY <1>1, <1>13, ProgramFacts DEF IsProgram, Arranged
  <2>3. ast[d].kids[3] \in Children(ast, d) /\ ast[d].kids[3] <= End(ast, d)
        /\ ast[d].kids[3] \in d + 1 .. Len(ast)
    BY <1>1, <2>2, KidFacts, KidsTile
  <2>4. This < ast[d].kids[3] /\ This <= End(ast, d)
    BY <1>1, <1>8, <1>11, <2>1, <2>3
  <2> QED BY <1>1, <1>11, <1>13, <2>4 DEF Behind, Inside
<1> QED BY <1>10, <1>12, <1>13

(* The node in hand is to be looked at again; the others that were pending     *)
(* still are, and what is pending besides are children of the node.        *)
Stays == \A n : n = This => Pending(n)'
OthersStay ==
  /\ \A n : n # This /\ Pending(n) => Pending(n)'
  /\ \A i \in 1 .. Len(todo') :
       \/ todo'[i].at = "visit" \/ todo'[i].node = This
       \/ \E j \in 1 .. Len(todo) : todo'[i] = todo[j] /\ todo[j].node # This

LEMMA ContinueItems ==
  ASSUME StackInv, todo # <<>>, CheckerStack, NEW items \in Seq(Item), Continue(items)
  PROVE  \A i \in 1 .. Len(todo') :
           \/ \E j \in 1 .. Len(items) : todo'[i] = items[j]
           \/ \E j \in 1 .. Len(todo) : todo'[i] = todo[j] /\ todo[j].node # This
<1> DEFINE t == Tail(todo)
<1>1. /\ todo \in Seq(Item) /\ This \in 1 .. Len(ast) /\ This = todo[1].node
      /\ IsProgram(ast) /\ Len(items) \in Nat /\ Len(todo) \in Nat \ {0}
  BY StackTop, LenProperties, EmptySeq DEF StackInv, This
<1>2. t \in Seq(Item) /\ Len(t) = Len(todo) - 1 /\ \A i \in 1 .. Len(t) : t[i] = todo[i + 1]
  BY <1>1, HeadTailProperties
<1>3. todo' = items \o t
  BY DEF Continue
<1> HIDE DEF t
<1>4. /\ Len(todo') = Len(items) + Len(t)
      /\ \A i \in 1 .. Len(todo') : todo'[i] = IF i <= Len(items) THEN items[i] ELSE t[i - Len(items)]
  <2>1. items \in Seq(Item) /\ t \in Seq(Item)
    BY <1>2
  <2>2. /\ items \o t \in Seq(Item) /\ Len(items \o t) = Len(items) + Len(t)
        /\ \A i \in 1 .. Len(items \o t) :
             (items \o t)[i] = IF i <= Len(items) THEN items[i] ELSE t[i - Len(items)]
    BY <2>1, ConcatProperties
  <2> QED BY <1>3, <2>2
<1>5. ASSUME NEW j \in 2 .. Len(todo)
      PROVE  j \in 1 .. Len(todo) /\ todo[j].node # This
  <2>1. j \in 1 .. Len(todo) /\ 1 \in 1 .. Len(todo) /\ 1 < j
    BY <1>1
  <2>2. Inside(ast, This, This)
    BY <1>1, RootIsAround
  <2> QED BY <1>1, <2>1, <2>2 DEF CheckerStack, Nests
<1>6. ASSUME NEW i \in 1 .. Len(todo'), ~(i <= Len(items))
      PROVE  \E j \in 1 .. Len(todo) : todo'[i] = todo[j] /\ todo[j].node # This
  <2> DEFINE k == i - Len(items)
  <2>1. k \in 1 .. Len(t) /\ k + 1 \in 2 .. Len(todo)
    BY <1>1, <1>2, <1>4, <1>6
  <2>2. todo'[i] = todo[k + 1]
    BY <1>2, <1>4, <1>6, <2>1
  <2> QED BY <1>5, <2>1, <2>2
<1>7. ASSUME NEW i \in 1 .. Len(todo'), i <= Len(items)
      PROVE  \E j \in 1 .. Len(items) : todo'[i] = items[j]
  <2>1. i \in 1 .. Len(items)
    BY <1>1, <1>7
  <2> QED BY <1>4, <1>7, <2>1
<1> QED BY <1>6, <1>7

LEMMA Branching ==
  ASSUME StackInv, todo # <<>>, CheckerStack, UNCHANGED ast, NEW nodes, ChildList(nodes),
         NEW at \in Ats, NEW note \in Notes, Suits(ast, Lasts(at)),
         Continue(Visits(nodes)) \/ Continue(Visits(nodes) \o Then(at, note))
  PROVE  /\ CheckerStack' /\ OthersStay
         /\ Continue(Visits(nodes) \o Then(at, note)) => Stays
<1> DEFINE c == Visits(nodes) \o Then(at, note)
           v == Visits(nodes)
<1>1. Branches(v) /\ Branches(c) /\ \E i \in 1 .. Len(c) : c[i].node = This
  BY VisitsBranch
<1>2. ASSUME NEW i \in 1 .. Len(v)
      PROVE  v[i].at = "visit"
  <2>1. DOMAIN v = 1 .. Len(v) /\ DOMAIN v = DOMAIN nodes
    BY <1>1, LenProperties DEF Branches, Visits
  <2> QED BY <2>1 DEF Visits, Visit
<1>3. ASSUME NEW i \in 1 .. Len(c)
      PROVE  c[i].at = "visit" \/ c[i].node = This
  <2> DEFINE it == [at |-> at, node |-> This, note |-> note]
  <2>1. Then(at, note) = <<it>>
    BY DEF Then, This, Top
  <2>2. This \in Nat
    BY StackTop
  <2>3. it \in Item /\ it.node = This
    BY <2>2 DEF Item
  <2>4. <<it>> \in Seq(Item) /\ Len(<<it>>) = 1 /\ <<it>>[1] = it
    BY <2>3
  <2> HIDE DEF it
  <2>5. /\ Len(c) = Len(v) + 1 /\ Len(v) \in Nat
        /\ c[i] = IF i <= Len(v) THEN v[i] ELSE <<it>>[i - Len(v)]
    BY <1>1, <2>1, <2>4, ConcatProperties, LenProperties DEF Branches
  <2>6. CASE i <= Len(v)
    <3>1. i \in 1 .. Len(v)
      BY <2>5, <2>6
    <3> QED BY <1>2, <2>5, <2>6, <3>1
  <2>7. CASE ~(i <= Len(v))
    <3>1. i - Len(v) = 1
      BY <2>5, <2>7
    <3> QED BY <2>3, <2>4, <2>5, <2>7, <3>1
  <2> QED BY <2>6, <2>7
<1> HIDE DEF c, v
<1>4. v \in Seq(Item) /\ c \in Seq(Item)
  BY <1>1 DEF Branches
<1>5. CASE Continue(v)
  <2>1. CheckerStack' /\ \A n : n # This /\ Pending(n) => Pending(n)'
    BY <1>1, <1>5, BranchesNest
  <2>2. \A i \in 1 .. Len(todo') :
           \/ \E j \in 1 .. Len(v) : todo'[i] = v[j]
           \/ \E j \in 1 .. Len(todo) : todo'[i] = todo[j] /\ todo[j].node # This
    BY <1>4, <1>5, ContinueItems
  <2>3. OthersStay
    BY <1>2, <2>1, <2>2 DEF OthersStay
  <2>4. ASSUME Continue(c) PROVE Stays
    BY <1>1, <2>4, BranchesNest DEF Stays
  <2> QED BY <2>1, <2>3, <2>4 DEF c
<1>6. CASE Continue(c)
  <2>1. CheckerStack' /\ (\A n : n # This /\ Pending(n) => Pending(n)') /\ Stays
    BY <1>1, <1>6, BranchesNest DEF Stays
  <2>2. \A i \in 1 .. Len(todo') :
           \/ \E j \in 1 .. Len(c) : todo'[i] = c[j]
           \/ \E j \in 1 .. Len(todo) : todo'[i] = todo[j] /\ todo[j].node # This
    BY <1>4, <1>6, ContinueItems
  <2>3. OthersStay
    BY <1>3, <2>1, <2>2 DEF OthersStay
  <2> QED BY <2>1, <2>3
<1> QED BY <1>5, <1>6 DEF c, v

(* The items of every step of the type checker. *)
Dives == CheckerStack' /\ OthersStay

LEMMA DropDives ==
  ASSUME StackInv, todo # <<>>, CheckerStack, UNCHANGED ast, Continue(<<>>)
  PROVE  Dives
<1>1. ChildList(<<>>) /\ Visits(<<>>) = <<>>
  BY ChildLists, VisitsFew
<1>2. Suits(ast, Lasts("visit")) /\ "visit" \in Ats /\ Null \in Notes
  BY DEF Suits, Lasts, Ats, Notes
<1> QED BY <1>1, <1>2, Branching DEF Dives

LEMMA VisitsDive ==
  ASSUME StackInv, todo # <<>>, CheckerStack, UNCHANGED ast, NEW nodes, ChildList(nodes),
         Continue(Visits(nodes))
  PROVE  Dives
<1>1. Suits(ast, Lasts("visit")) /\ "visit" \in Ats /\ Null \in Notes
  BY DEF Suits, Lasts, Ats, Notes
<1> QED BY <1>1, Branching DEF Dives

LEMMA VisitsThenDive ==
  ASSUME StackInv, todo # <<>>, CheckerStack, UNCHANGED ast, NEW nodes, ChildList(nodes),
         NEW at \in Ats, NEW note \in Notes,
         \/ at \in {"condition", "range", "argument"}
         \/ at = "leave" /\ ast[This].kind \in {"fn", "let", "add", "assign", "print", "return"},
         Continue(Visits(nodes) \o Then(at, note))
  PROVE  Dives /\ Stays
<1>1. Suits(ast, Lasts(at))
  BY DEF Suits, Lasts
<1> QED BY <1>1, Branching DEF Dives

LEMMA LetDives ==
  ASSUME StackInv, CheckerStack, CheckLet
  PROVE  Dives /\ (Sym # None => Stays)
<1>1. todo # <<>> /\ UNCHANGED ast /\ ast[This].kind = "let" /\ Null \in Notes /\ "leave" \in Ats
  BY DEF CheckLet, At, CheckerFrame, Node, Notes, Ats
<1>2. ChildList(Kids(This))
  BY <1>1, ChildLists
<1>3. CASE Sym = None
  <2>1. Continue(<<>>)
    BY <1>3 DEF CheckLet
  <2> QED BY <1>1, <1>3, <2>1, DropDives
<1>4. CASE Sym # None
  <2>1. Continue(Visits(Kids(This)) \o Then("leave", Null))
    BY <1>4 DEF CheckLet
  <2> QED BY <1>1, <1>2, <2>1, VisitsThenDive
<1> QED BY <1>3, <1>4

LEMMA ChildrenDive ==
  ASSUME StackInv, CheckerStack, CheckChildren
  PROVE  Dives /\ (ast[This].kind \in {"for", "assign", "add", "print"} => Stays)
<1>1. /\ todo # <<>> /\ UNCHANGED ast /\ Null \in Notes /\ Node = ast[This]
      /\ "leave" \in Ats /\ "condition" \in Ats /\ "range" \in Ats
      /\ ast[This].kind \in {"block", "if", "while", "for", "return", "assign", "add", "print"}
  BY DEF CheckChildren, At, CheckerFrame, Node, Notes, Ats
<1>2. /\ ChildList(Kids(This))
      /\ Len(Kids(This)) > 0 => ChildList(Front(Kids(This)))
      /\ \A k \in Children(ast, This) : ChildList(<<k>>)
  BY <1>1, ChildLists
<1>3. /\ Arranged(ast, This) /\ Kids(This) = ast[This].kids /\ Len(Kids(This)) \in Nat
      /\ \A i \in 1 .. Len(Kids(This)) : Kids(This)[i] \in Children(ast, This)
  BY <1>1, NodeFacts
<1>4. CASE ast[This].kind = "block"
  <2>1. Continue(Visits(Kids(This)))
    BY <1>1, <1>4 DEF CheckChildren
  <2> QED BY <1>1, <1>2, <1>4, <2>1, VisitsDive
<1>5. CASE ast[This].kind \in {"if", "while"}
  <2>1. Continue(<<Visit(Head(Kids(This)))>> \o Then("condition", Null))
    BY <1>1, <1>5 DEF CheckChildren
  <2>2. 1 \in 1 .. Len(Kids(This)) /\ Head(Kids(This)) = Kids(This)[1]
    <3>1. Len(Kids(This)) > 0
      BY <1>3, <1>5 DEF Arranged
    <3> QED BY <1>3, <3>1
  <2>3. ChildList(<<Head(Kids(This))>>) /\ Visits(<<Head(Kids(This))>>) = <<Visit(Head(Kids(This)))>>
    BY <1>2, <1>3, <2>2, VisitsFew
  <2> QED BY <1>1, <1>5, <2>1, <2>3, VisitsThenDive
<1>6. CASE ast[This].kind = "for"
  <2>1. Continue(Visits(Front(Kids(This))) \o Then("range", Null))
    BY <1>1, <1>6 DEF CheckChildren
  <2>2. Len(Kids(This)) > 0
    BY <1>3, <1>6 DEF Arranged
  <2> QED BY <1>1, <1>2, <2>1, <2>2, VisitsThenDive
<1>7. CASE ast[This].kind \in {"return", "assign", "add", "print"}
  <2>1. Continue(Visits(Kids(This)) \o Then("leave", Null))
    BY <1>1, <1>7 DEF CheckChildren
  <2> QED BY <1>1, <1>2, <1>7, <2>1, VisitsThenDive
<1> QED BY <1>1, <1>4, <1>5, <1>6, <1>7

LEMMA CheckDives ==
  ASSUME StackInv, CheckerStack, returns \in Notes, CheckStep
  PROVE  Dives
<1>1. todo # <<>> /\ UNCHANGED ast
  BY LaterFrame DEF LaterStep
<1>2. /\ ChildList(<<>>) /\ Visits(<<>>) = <<>>
      /\ Len(Kids(This)) > 0 => ChildList(Tail(Kids(This)))
      /\ \A k \in Children(ast, This) : ChildList(<<k>>) /\ Visits(<<k>>) = <<Visit(k)>>
  BY <1>1, ChildLists, VisitsFew
<1>3. /\ Arranged(ast, This) /\ Kids(This) = ast[This].kids /\ Len(Kids(This)) \in Nat
      /\ \A i \in 1 .. Len(Kids(This)) : Kids(This)[i] \in Children(ast, This)
      /\ Node = ast[This] /\ Kids(This) \in Seq(Nat)
  BY <1>1, NodeFacts
<1>4. Len(Kids(This)) > 0 => Last(Kids(This)) \in Children(ast, This)
  BY <1>3 DEF Last
<1>5. CASE CheckFunction
  <2>1. /\ ast[This].kind = "fn" /\ "leave" \in Ats
        /\ Continue(<<Visit(Last(Kids(This)))>> \o Then("leave", returns))
    BY <1>5 DEF CheckFunction, At, Node, Ats
  <2>2. Len(Kids(This)) > 0
    BY <1>3, <2>1 DEF Arranged
  <2> QED BY <1>1, <1>2, <1>4, <2>1, <2>2, VisitsThenDive
<1>6. CASE CheckLet
  BY <1>6, LetDives
<1>7. CASE CheckLeaf
  BY <1>1, <1>7, DropDives DEF CheckLeaf
<1>8. CASE CheckChildren
  BY <1>8, ChildrenDive
<1>9. CASE CheckCondition
  <2>1. ast[This].kind \in {"if", "while"}
    BY <1>9 DEF CheckCondition, At, Node
  <2>2. Len(Kids(This)) > 0
    BY <1>3, <2>1 DEF Arranged
  <2>3. Continue(<<>>) \/ Continue(Visits(Tail(Kids(This))))
    BY <1>9 DEF CheckCondition
  <2> QED BY <1>1, <1>2, <2>2, <2>3, DropDives, VisitsDive
<1>10. CASE CheckRange
  <2>1. ast[This].kind = "for" /\ Continue(<<Visit(Last(Kids(This)))>>)
    BY <1>10 DEF CheckRange, At, Node
  <2>2. Len(Kids(This)) > 0
    BY <1>3, <2>1 DEF Arranged
  <2> QED BY <1>1, <1>2, <1>4, <2>1, <2>2, VisitsDive
<1>11. CASE CheckCall
  <2>1. Continue(<<>>) \/ Continue(Then("argument", 1))
    BY <1>11 DEF CheckCall
  <2>2. Then("argument", 1) = Visits(<<>>) \o Then("argument", 1)
    BY <1>2 DEF Then
  <2>3. 1 \in Notes /\ "argument" \in Ats
    BY DEF Notes, Ats
  <2> QED BY <1>1, <1>2, <2>1, <2>2, <2>3, DropDives, VisitsThenDive
<1>12. CASE CheckArgument
  <2> DEFINE i == Top.note
  <2>1. At("check", "argument", {"call"})
    BY <1>12 DEF CheckArgument
  <2>2. i \in 1 .. Len(Kids(This)) + 1
    BY <1>1, <1>3, <2>1, StackTop DEF At, Fits, This
  <2>3. \/ Continue(<<>>)
        \/ ~(i > Len(Kids(This))) /\ Continue(<<Visit(Kids(This)[i])>> \o Then("argument", i + 1))
    BY <1>12 DEF CheckArgument
  <2>4. CASE ~(i > Len(Kids(This))) /\ Continue(<<Visit(Kids(This)[i])>> \o Then("argument", i + 1))
    <3>1. i \in 1 .. Len(Kids(This)) /\ i + 1 \in Nat
      BY <1>3, <2>2, <2>4
    <3>2. Kids(This)[i] \in Children(ast, This) /\ i + 1 \in Notes /\ "argument" \in Ats
      BY <1>3, <3>1 DEF Notes, Ats
    <3> QED BY <1>1, <1>2, <2>4, <3>2, VisitsThenDive
  <2> QED BY <1>1, <2>3, <2>4, DropDives
<1>13. CASE CheckLast
  <2>1. Continue(<<>>)
    BY <1>13 DEF CheckLast, LeaveFunction, LeaveLet, LeaveAdd, LeaveAssign, LeavePrint, LeaveReturn
  <2> QED BY <1>1, <2>1, DropDives
<1> QED BY <1>5, <1>6, <1>7, <1>8, <1>9, <1>10, <1>11, <1>12, <1>13 DEF CheckStep

(* The nodes that a step of the type checker passes are its own, when it is    *)
(* not to be looked at again, and those that it goes beyond.               *)
LEMMA FrontierIsNat ==
  ASSUME NEW p, IsProgram(p), NEW seq, Linked(p, seq, Len(p) + 1)
  PROVE  LoOf(p, seq, Len(p) + 1) \in Nat
<1>1. Len(p) + 1 \in Nat
  BY ProgramFacts
<1>2. CASE seq # <<>>
  <2>1. 1 \in 1 .. Len(seq)
    BY <1>2, EmptySeq DEF Linked
  <2>2. Fits(p, seq[1])
    BY <2>1 DEF Linked
  <2> QED BY <1>2, <2>2, LoBounds DEF LoOf
<1> QED BY <1>1, <1>2 DEF LoOf

LEMMA NewlyPassed ==
  ASSUME StackInv, StackInv', todo # <<>>, pass = "check", UNCHANGED <<ast, pass>>, OthersStay,
         NEW n \in 1 .. Len(ast), Passed(n)'
  PROVE  /\ n = This => ~Stays
         /\ Passed(n) \/ n = This \/ n \in Frontier .. Frontier' - 1
<1>1. Frontier \in Nat /\ Frontier' \in Nat /\ Len(ast) \in Nat
  BY FrontierIsNat, ProgramFacts DEF StackInv, Frontier
<1>a. n \in Nat
  BY <1>1
<1>2. n < Frontier' /\ ~Pending(n)'
  BY DEF Passed
<1>3. n = This => ~Stays
  BY <1>2 DEF Stays
<1>4. CASE n < Frontier /\ n # This
  BY <1>2, <1>4 DEF OthersStay, Passed
<1>5. CASE ~(n < Frontier)
  <2>1. \A a, b \in Nat : \A k \in Nat : k < b /\ ~(k < a) => k \in a .. b - 1
    OBVIOUS
  <2>2. n \in Frontier .. Frontier' - 1
    BY <1>1, <1>2, <1>5, <1>a, <2>1, Zenon
  <2> QED BY <1>3, <2>2
<1> QED BY <1>3, <1>4, <1>5

-------------------------------------------------------------------------------
(* What a step of the later passes may do to a symbol                      *)

Grows(p, r, q) ==
  /\ q.node = r.node
  /\ Apt(p, q)
  /\ r.type # Null => q.type # Null
  /\ r.mutable => q.mutable
  /\ r.op # None => q.op = r.op

Grown ==
  /\ DOMAIN arena' = DOMAIN arena
  /\ \A s \in DOMAIN arena : Grows(ast, arena[s], arena'[s])

Fitting(p, n, t) == IF n \in Children(p, 1) THEN t = "function" ELSE t \in Valued

LEMMA SymbolGrows ==
  ASSUME NEW p, NEW r \in Symbol, Apt(p, r)
  PROVE  /\ Grows(p, r, r)
         /\ \A t \in Types : Fitting(p, r.node, t) =>
              Grows(p, r, [r EXCEPT !.type = t]) /\ [r EXCEPT !.type = t].type = t
         /\ \A m \in BOOLEAN : p[r.node].kind = "let" /\ p[r.node].mut = m =>
              Grows(p, r, [r EXCEPT !.mutable = m])
         /\ LET q == [r EXCEPT !.op = r.node] IN Grows(p, r, q) /\ q.op = r.node
<1>1. Grows(p, r, r)
  BY DEF Grows
<1>2. ASSUME NEW t \in Types, Fitting(p, r.node, t)
      PROVE  Grows(p, r, [r EXCEPT !.type = t]) /\ [r EXCEPT !.type = t].type = t
  <2> DEFINE q == [r EXCEPT !.type = t]
  <2>1. /\ q.node = r.node /\ q.type = t /\ q.mutable = r.mutable /\ q.op = r.op
    BY DEF Symbol
  <2> HIDE DEF q
  <2>2. t # Null
    BY DEF Types, Null
  <2>3. Apt(p, q)
    BY <1>2, <2>1 DEF Apt, Fitting
  <2>4. Grows(p, r, q) /\ q.type = t
    BY <2>1, <2>2, <2>3 DEF Grows
  <2> QED BY <2>4 DEF q
<1>3. ASSUME NEW m \in BOOLEAN, p[r.node].kind = "let", p[r.node].mut = m
      PROVE  Grows(p, r, [r EXCEPT !.mutable = m])
  <2> DEFINE q == [r EXCEPT !.mutable = m]
  <2>1. /\ q.node = r.node /\ q.type = r.type /\ q.mutable = m /\ q.op = r.op
    BY DEF Symbol
  <2> HIDE DEF q
  <2>2. Apt(p, q)
    BY <1>3, <2>1 DEF Apt
  <2>3. r.mutable => q.mutable
    BY <1>3, <2>1 DEF Apt
  <2>4. Grows(p, r, q)
    BY <2>1, <2>2, <2>3 DEF Grows
  <2> QED BY <2>4 DEF q
<1>4. LET q == [r EXCEPT !.op = r.node] IN Grows(p, r, q) /\ q.op = r.node
  <2> DEFINE q == [r EXCEPT !.op = r.node]
  <2>1. /\ q.node = r.node /\ q.type = r.type /\ q.mutable = r.mutable /\ q.op = r.node
    BY DEF Symbol
  <2> HIDE DEF q
  <2>2. Apt(p, q) /\ (r.op # None => q.op = r.op)
    BY <2>1 DEF Apt
  <2>3. Grows(p, r, q) /\ q.op = r.node
    BY <2>1, <2>2 DEF Grows
  <2> QED BY <2>3 DEF q
<1> QED BY <1>1, <1>2, <1>3, <1>4

LEMMA ArenaGrows ==
  ASSUME arena \in Seq(Symbol), \A s \in DOMAIN arena : Apt(ast, arena[s]), NEW s
  PROVE  /\ UNCHANGED arena => Grown
         /\ \A t \in Types :
              /\ s \in DOMAIN arena => Fitting(ast, arena[s].node, t)
              /\ arena' = [arena EXCEPT ![s].type = t]
              => Grown /\ (s \in DOMAIN arena => arena'[s].type = t)
         /\ \A m \in BOOLEAN :
              /\ s \in DOMAIN arena => ast[arena[s].node].kind = "let" /\ ast[arena[s].node].mut = m
              /\ arena' = [arena EXCEPT ![s].mutable = m]
              => Grown
         /\ \A n : /\ s \in DOMAIN arena => arena[s].node = n
                   /\ arena' = [arena EXCEPT ![s].op = n]
                   => Grown /\ (s \in DOMAIN arena => arena'[s].op = n)
<1>1. DOMAIN arena = 1 .. Len(arena) /\ \A r \in DOMAIN arena : arena[r] \in Symbol
  BY LenProperties, ElementOfSeq
<1>2. ASSUME UNCHANGED arena
      PROVE  Grown
  BY <1>1, <1>2, SymbolGrows DEF Grown
<1>3. ASSUME NEW t \in Types, s \in DOMAIN arena => Fitting(ast, arena[s].node, t),
             arena' = [arena EXCEPT ![s].type = t]
      PROVE  Grown /\ (s \in DOMAIN arena => arena'[s].type = t)
  <2>1. arena' = [r \in DOMAIN arena |-> IF r = s THEN [arena[r] EXCEPT !.type = t] ELSE arena[r]]
    BY <1>3
  <2>2. ASSUME NEW r \in DOMAIN arena
        PROVE  Grows(ast, arena[r], arena'[r]) /\ (r = s => arena'[r].type = t)
    <3>1. CASE r = s
      <4>1. arena'[r] = [arena[r] EXCEPT !.type = t]
        BY <2>1, <3>1
      <4>2. Fitting(ast, arena[r].node, t) /\ arena[r] \in Symbol /\ Apt(ast, arena[r])
        BY <1>1, <1>3, <3>1
      <4>3. \A u \in Types : Fitting(ast, arena[r].node, u) =>
              Grows(ast, arena[r], [arena[r] EXCEPT !.type = u]) /\ [arena[r] EXCEPT !.type = u].type = u
        BY <4>2, SymbolGrows
      <4> QED BY <4>1, <4>2, <4>3, Zenon
    <3>2. CASE r # s
      <4>1. arena'[r] = arena[r] /\ arena[r] \in Symbol /\ Apt(ast, arena[r])
        BY <1>1, <2>1, <3>2
      <4> QED BY <3>2, <4>1, SymbolGrows
    <3> QED BY <3>1, <3>2
  <2>3. DOMAIN arena' = DOMAIN arena
    BY <2>1
  <2> QED BY <2>2, <2>3 DEF Grown
<1>4. ASSUME NEW m \in BOOLEAN,
             s \in DOMAIN arena => ast[arena[s].node].kind = "let" /\ ast[arena[s].node].mut = m,
             arena' = [arena EXCEPT ![s].mutable = m]
      PROVE  Grown
  <2>1. arena' = [r \in DOMAIN arena |-> IF r = s THEN [arena[r] EXCEPT !.mutable = m] ELSE arena[r]]
    BY <1>4
  <2>2. ASSUME NEW r \in DOMAIN arena
        PROVE  Grows(ast, arena[r], arena'[r])
    <3>1. CASE r = s
      <4>1. arena'[r] = [arena[r] EXCEPT !.mutable = m]
        BY <2>1, <3>1
      <4>2. /\ ast[arena[r].node].kind = "let" /\ ast[arena[r].node].mut = m
            /\ arena[r] \in Symbol /\ Apt(ast, arena[r])
        BY <1>1, <1>4, <3>1
      <4>3. \A u \in BOOLEAN : ast[arena[r].node].kind = "let" /\ ast[arena[r].node].mut = u =>
              Grows(ast, arena[r], [arena[r] EXCEPT !.mutable = u])
        BY <4>2, SymbolGrows
      <4> QED BY <4>1, <4>2, <4>3, Zenon
    <3>2. CASE r # s
      <4>1. arena'[r] = arena[r] /\ arena[r] \in Symbol /\ Apt(ast, arena[r])
        BY <1>1, <2>1, <3>2
      <4> QED BY <3>2, <4>1, SymbolGrows
    <3> QED BY <3>1, <3>2
  <2>3. DOMAIN arena' = DOMAIN arena
    BY <2>1
  <2> QED BY <2>2, <2>3 DEF Grown
<1>5. ASSUME NEW n, s \in DOMAIN arena => arena[s].node = n, arena' = [arena EXCEPT ![s].op = n]
      PROVE  Grown /\ (s \in DOMAIN arena => arena'[s].op = n)
  <2>1. arena' = [r \in DOMAIN arena |-> IF r = s THEN [arena[r] EXCEPT !.op = n] ELSE arena[r]]
    BY <1>5
  <2>2. ASSUME NEW r \in DOMAIN arena
        PROVE  Grows(ast, arena[r], arena'[r]) /\ (r = s => arena'[r].op = n)
    <3>1. CASE r = s
      <4>1. arena'[r] = [arena[r] EXCEPT !.op = n]
        BY <2>1, <3>1
      <4>2. arena[r].node = n /\ arena[r] \in Symbol /\ Apt(ast, arena[r])
        BY <1>1, <1>5, <3>1
      <4> QED BY <4>1, <4>2, SymbolGrows
    <3>2. CASE r # s
      <4>1. arena'[r] = arena[r] /\ arena[r] \in Symbol /\ Apt(ast, arena[r])
        BY <1>1, <2>1, <3>2
      <4> QED BY <3>2, <4>1, SymbolGrows
    <3> QED BY <3>1, <3>2
  <2>3. DOMAIN arena' = DOMAIN arena
    BY <2>1
  <2> QED BY <2>2, <2>3 DEF Grown
<1> QED BY <1>2, <1>3, <1>4, <1>5

(* Symbols of declarations and of uses. *)
LEMMA OwnSymbol ==
  ASSUME IsProgram(ast), SymbolsInv, NEW n \in 1 .. Len(ast), ast[n].kind \notin Uses,
         symbol[n] # None
  PROVE  /\ symbol[n] \in DOMAIN arena /\ arena[symbol[n]].node = n /\ Declares(ast, n)
         /\ ast[n].kind = "fn" => n \in Children(ast, 1)
         /\ ast[n].kind # "fn" => n \notin Children(ast, 1)
<1>1. symbol[n] \in 0 .. Len(arena) /\ Declares(ast, n) /\ arena[symbol[n]].node = n
  BY DEF SymbolsInv
<1>2. symbol[n] \in DOMAIN arena
  BY <1>1 DEF None
<1>3. ast[n].kind = "fn" => n \in Children(ast, 1)
  BY <1>1 DEF Declares, Variables
<1>4. n \in Children(ast, 1) => ast[n].kind = "fn"
  BY NamedFacts
<1> QED BY <1>1, <1>2, <1>3, <1>4

LEMMA UseMeans ==
  ASSUME IsProgram(ast), NamesInv, Typeable(ast), pass \notin {"collect", "resolve"},
         NEW n \in 1 .. Len(ast), ast[n].kind \in Uses, symbol[n] # None
  PROVE  \E d \in 1 .. Len(ast) :
           /\ Best(ast, n, d) /\ symbol[n] = symbol[d] /\ symbol[d] # None
           /\ symbol[d] \in DOMAIN arena /\ arena[symbol[d]].node = d
           /\ ast[n].kind = "call" => d \in Children(ast, 1)
           /\ ast[n].kind = "var" => /\ ast[d].kind \in Variables /\ d < n
                                     /\ Inside(ast, HomeOf(ast, d), n)
<1>1. SymbolsInv /\ Bounds /\ Reached(n)
  BY DEF NamesInv, Reached
<1>2. Bound(n)
  BY <1>1 DEF Bounds
<1>3. PICK d \in Seen(ast, n) : Best(ast, n, d) /\ symbol[n] = symbol[d]
  BY <1>2 DEF Bound
<1>4. /\ d \in 1 .. Len(ast) /\ Declares(ast, d)
      /\ d \in Children(ast, 1) \/ (d < n /\ Inside(ast, HomeOf(ast, d), n))
  BY DEF Seen
<1>5. ast[d].kind \notin Uses
  BY <1>4, NamedFacts
<1>6. symbol[d] \in DOMAIN arena /\ arena[symbol[d]].node = d
  BY <1>1, <1>3, <1>4, <1>5, OwnSymbol
<1>7. ast[n].kind = "call" <=> d \in Children(ast, 1)
  BY <1>3, <1>4 DEF Typeable
<1>8. ast[n].kind = "var" => ast[d].kind \in Variables /\ d < n /\ Inside(ast, HomeOf(ast, d), n)
  BY <1>4, <1>7 DEF Declares
<1> QED BY <1>3, <1>4, <1>6, <1>7, <1>8

(* The parameters of a function whose signature is resolved. *)
LEMMA ParamPlace ==
  ASSUME IsProgram(ast), NEW fn \in 1 .. Len(ast), ast[fn].kind = "fn"
  PROVE  \A d : d \in Children(ast, fn) /\ ast[d].kind = "param" <=>
                \E i \in DOMAIN Params(fn) : d = Params(fn)[i]
<1> DEFINE kids == ast[fn].kids
<1>1. /\ kids \in Seq(Nat) /\ Len(kids) \in Nat /\ Len(kids) > 0 /\ Arranged(ast, fn)
      /\ \A i \in 1 .. Len(kids) : kids[i] \in Children(ast, fn)
      /\ \A m \in Children(ast, fn) : \E i \in 1 .. Len(kids) : m = kids[i]
  <2>1. kids \in Seq(Nat) /\ Len(kids) \in Nat /\ Arranged(ast, fn)
    BY ProgramFacts DEF IsProgram
  <2>2. Len(kids) > 0
    BY <2>1 DEF Arranged
  <2> QED BY <2>1, <2>2, KidFacts
<1>2. DOMAIN Params(fn) = 1 .. Len(kids) - 1 /\ \A i \in 1 .. Len(kids) - 1 : Params(fn)[i] = kids[i]
  <2>1. /\ Front(kids) \in Seq(Nat) /\ Len(Front(kids)) = Len(kids) - 1
        /\ \A i \in 1 .. Len(kids) - 1 : Front(kids)[i] = kids[i]
    BY <1>1, FrontFacts
  <2>2. DOMAIN Front(kids) = 1 .. Len(kids) - 1
    BY <2>1, LenProperties
  <2> QED BY <2>1, <2>2 DEF Params, Kids
<1>3. \A i \in 1 .. Len(kids) : ast[kids[i]].kind = IF i = Len(kids) THEN "block" ELSE "param"
  <2>1. ast[kids[Len(kids)]].kind = "block" /\ \A i \in 1 .. Len(kids) - 1 : ast[kids[i]].kind = "param"
    BY <1>1 DEF Arranged
  <2>2. \A i \in 1 .. Len(kids) : i = Len(kids) \/ i \in 1 .. Len(kids) - 1
    BY <1>1
  <2>3. \A i \in 1 .. Len(kids) - 1 : i # Len(kids)
    BY <1>1
  <2> QED BY <2>1, <2>2, <2>3
<1> HIDE DEF kids
<1>4. \A i \in 1 .. Len(kids) - 1 : i \in 1 .. Len(kids) /\ i # Len(kids)
  BY <1>1
<1>5. \A i \in 1 .. Len(kids) : i # Len(kids) => i \in 1 .. Len(kids) - 1
  BY <1>1
<1>6. ASSUME NEW d, d \in Children(ast, fn), ast[d].kind = "param"
      PROVE  \E i \in DOMAIN Params(fn) : d = Params(fn)[i]
  <2>1. PICK i \in 1 .. Len(kids) : d = kids[i]
    BY <1>1, <1>6
  <2>2. i \in 1 .. Len(kids) - 1
    BY <1>3, <1>5, <1>6, <2>1
  <2> QED BY <1>2, <2>1, <2>2
<1>7. ASSUME NEW i \in DOMAIN Params(fn)
      PROVE  Params(fn)[i] \in Children(ast, fn) /\ ast[Params(fn)[i]].kind = "param"
  BY <1>1, <1>2, <1>3, <1>4
<1> QED BY <1>6, <1>7

LEMMA SignedGrows ==
  ASSUME IsProgram(ast), ValuesInv, SymbolsInv, FieldsInv,
         NEW fn \in 1 .. Len(ast), ast[fn].kind = "fn", arena' = Signed(fn)
  PROVE  /\ Grown
         /\ symbol[fn] # None => arena'[symbol[fn]].type = "function"
         /\ \A d \in Children(ast, fn) : ast[d].kind = "param" /\ symbol[d] # None =>
              arena'[symbol[d]].type \in Valued
<1> DEFINE typed == {symbol[Params(fn)[i]] : i \in DOMAIN Params(fn)}
<1>1. \A s \in DOMAIN arena : arena[s] \in Symbol /\ Apt(ast, arena[s])
  <2>1. DOMAIN arena = 1 .. Len(arena) /\ arena \in Seq(Symbol)
    BY LenProperties DEF ValuesInv
  <2> QED BY <2>1, ElementOfSeq DEF FieldsInv
<1>2. ASSUME NEW d \in Children(ast, fn), ast[d].kind = "param", symbol[d] # None
      PROVE  /\ symbol[d] \in DOMAIN arena /\ arena[symbol[d]].node = d /\ d \notin Children(ast, 1)
             /\ ast[d].type \in Valued /\ symbol[d] # symbol[fn] /\ symbol[d] \in typed
  <2>1. d \in 1 .. Len(ast)
    BY KidFacts, ProgramFacts
  <2>2. symbol[d] \in DOMAIN arena /\ arena[symbol[d]].node = d /\ d \notin Children(ast, 1)
    BY <1>2, <2>1, OwnSymbol DEF Uses
  <2>3. ast[d].type \in Valued
    <3>1. Arranged(ast, d) /\ ast[d] \in ProgramNode
      BY <2>1, ProgramFacts DEF IsProgram
    <3> QED BY <1>2, <3>1 DEF Arranged, ProgramNode, Valued
  <2>4. symbol[d] # symbol[fn]
    BY <1>2, <2>2, OwnSymbol DEF Uses
  <2>5. symbol[d] \in typed
    BY <1>2, ParamPlace
  <2> QED BY <2>2, <2>3, <2>4, <2>5
<1>3. ASSUME NEW s \in DOMAIN arena, s \in typed
      PROVE  \E d \in Children(ast, fn) : ast[d].kind = "param" /\ symbol[d] = s /\ symbol[d] # None
  <2>1. PICK i \in DOMAIN Params(fn) : s = symbol[Params(fn)[i]]
    BY <1>3
  <2>2. s # None
    BY LenProperties DEF None, ValuesInv
  <2> QED BY <2>1, <2>2, ParamPlace
<1> HIDE DEF typed
<1>4. arena' = [s \in DOMAIN arena |->
                  IF s = symbol[fn] THEN [arena[s] EXCEPT !.type = "function"]
                  ELSE IF s \in typed THEN [arena[s] EXCEPT !.type = ast[arena[s].node].type]
                  ELSE arena[s]]
  BY DEF Signed, typed
<1>5. DOMAIN arena' = DOMAIN arena
  BY <1>4
<1>6. ASSUME NEW s \in DOMAIN arena
      PROVE  /\ Grows(ast, arena[s], arena'[s])
             /\ s = symbol[fn] => arena'[s].type = "function"
             /\ s # symbol[fn] /\ s \in typed => arena'[s].type \in Valued
  <2>1. \A t \in Types : Fitting(ast, arena[s].node, t) =>
           /\ Grows(ast, arena[s], [arena[s] EXCEPT !.type = t])
           /\ [arena[s] EXCEPT !.type = t].type = t
    BY <1>1, SymbolGrows
  <2>2. CASE s = symbol[fn]
    <3>1. symbol[fn] # None
      BY <2>2, LenProperties DEF None, ValuesInv
    <3>2. Fitting(ast, arena[s].node, "function") /\ "function" \in Types
      BY <2>2, <3>1, OwnSymbol DEF Uses, Fitting, Types
    <3>3. arena'[s] = [arena[s] EXCEPT !.type = "function"]
      BY <1>4, <2>2
    <3> QED BY <2>1, <2>2, <3>2, <3>3, Zenon
  <2>3. CASE s # symbol[fn] /\ s \in typed
    <3>1. PICK d \in Children(ast, fn) : ast[d].kind = "param" /\ symbol[d] = s /\ symbol[d] # None
      BY <1>3, <2>3
    <3>2. arena[s].node = d /\ ast[d].type \in Valued /\ d \notin Children(ast, 1)
      BY <1>2, <3>1
    <3> DEFINE t == ast[d].type
    <3>3. arena'[s] = [arena[s] EXCEPT !.type = t]
      BY <1>4, <2>3, <3>2
    <3>4. Fitting(ast, arena[s].node, t) /\ t \in Types /\ t \in Valued
      BY <3>2 DEF Fitting, Types, Valued
    <3> HIDE DEF t
    <3> QED BY <2>1, <2>3, <3>3, <3>4, Zenon
  <2>4. CASE s # symbol[fn] /\ s \notin typed
    <3>1. arena'[s] = arena[s]
      BY <1>4, <2>4
    <3> QED BY <1>1, <2>4, <3>1, SymbolGrows
  <2> QED BY <2>2, <2>3, <2>4
<1>7. Grown
  BY <1>5, <1>6 DEF Grown
<1>8. symbol[fn] # None => symbol[fn] \in DOMAIN arena
  BY OwnSymbol DEF Uses
<1> QED BY <1>2, <1>6, <1>7, <1>8

LEMMA LetTypes ==
  ASSUME StackInv, ValuesInv, FieldsInv, LeaveLet
  PROVE  LetType \notin Unbindable => LetType \in Valued
<1>1. todo # <<>> /\ ast[This].kind = "let"
  BY DEF LeaveLet, At, Node
<1>2. /\ ast[This].type \in {"number", "bool", Absent} /\ Node = ast[This]
      /\ Kids(This) \in Seq(Nat) /\ Len(Kids(This)) \in Nat
      /\ \A i \in 1 .. Len(Kids(This)) : Kids(This)[i] \in 1 .. Len(ast)
  BY <1>1, NodeFacts
<1>3. Value \in {"number", "bool", "unit", Null}
  <2>1. CASE Kids(This) = <<>>
    BY <2>1 DEF Value
  <2>2. CASE Kids(This) # <<>>
    <3>1. 1 \in 1 .. Len(Kids(This))
      BY <1>2, <2>2, EmptySeq
    <3>2. type[Kids(This)[1]] \in Types \cup {Null} /\ type[Kids(This)[1]] # "function"
      BY <1>2, <3>1 DEF ValuesInv, FieldsInv
    <3> QED BY <2>2, <3>2 DEF Value, TypeOf, Types
  <2> QED BY <2>1, <2>2
<1> QED BY <1>2, <1>3 DEF LetType, Unbindable, Valued, Absent, Null

LEMMA LaterGrows ==
  ASSUME StackInv, ValuesInv, SymbolsInv, FieldsInv, LaterStep
  PROVE  Grown
<1>1. /\ IsProgram(ast) /\ todo # <<>> /\ arena \in Seq(Symbol)
      /\ \A s \in DOMAIN arena : Apt(ast, arena[s])
  BY LaterFrame DEF StackInv, ValuesInv, FieldsInv
<1>2. /\ This \in 1 .. Len(ast) /\ ast[This].mut \in BOOLEAN /\ Node = ast[This]
      /\ Sym = symbol[This] /\ None \notin DOMAIN arena
  BY <1>1, NodeFacts, LenProperties DEF Sym, None
<1>3. ASSUME ast[This].kind \in Variables, Sym \in DOMAIN arena
      PROVE  arena[Sym].node = This /\ \A t \in Valued : Fitting(ast, arena[Sym].node, t)
  <2>1. ast[This].kind \notin Uses /\ ast[This].kind # "fn" /\ symbol[This] # None
    BY <1>2, <1>3 DEF Uses, Variables
  <2>2. arena[Sym].node = This /\ This \notin Children(ast, 1)
    BY <1>1, <1>2, <2>1, OwnSymbol
  <2> QED BY <2>2 DEF Fitting
<1>4. CASE ResolveSignature \/ CheckFunction
  <2>1. ast[This].kind = "fn" /\ (arena' = Signed(This) \/ UNCHANGED arena)
    BY <1>2, <1>4 DEF ResolveSignature, CheckFunction, At
  <2> QED BY <1>1, <1>2, <2>1, SignedGrows, ArenaGrows
<1>5. CASE CheckLet
  <2>1. /\ ast[This].kind = "let"
        /\ arena' = [arena EXCEPT ![Sym].mutable = ast[This].mut] \/ UNCHANGED arena
    BY <1>2, <1>5 DEF CheckLet, At
  <2>2. Sym \in DOMAIN arena => ast[arena[Sym].node].kind = "let" /\ ast[arena[Sym].node].mut = ast[This].mut
    BY <1>3, <2>1 DEF Variables
  <2> QED BY <1>1, <1>2, <2>1, <2>2, ArenaGrows
<1>6. CASE LeaveLet
  <2>1. /\ ast[This].kind = "let"
        /\ \/ LetType \notin Unbindable /\ arena' = [arena EXCEPT ![Sym].type = LetType]
           \/ UNCHANGED arena
    BY <1>2, <1>6 DEF LeaveLet, At
  <2>2. CASE LetType \notin Unbindable /\ arena' = [arena EXCEPT ![Sym].type = LetType]
    <3>1. LetType \in Valued /\ LetType \in Types
      BY <1>6, <2>2, LetTypes DEF Valued, Types
    <3>2. Sym \in DOMAIN arena => Fitting(ast, arena[Sym].node, LetType)
      BY <1>3, <2>1, <3>1 DEF Variables
    <3> QED BY <1>1, <2>2, <3>1, <3>2, ArenaGrows
  <2> QED BY <1>1, <2>1, <2>2, ArenaGrows
<1>7. CASE CheckRange
  <2>1. ast[This].kind = "for" /\ (arena' = [arena EXCEPT ![Sym].type = "number"] \/ UNCHANGED arena)
    BY <1>2, <1>7 DEF CheckRange, At
  <2>2. /\ "number" \in Types /\ "number" \in Valued
        /\ Sym \in DOMAIN arena => Fitting(ast, arena[Sym].node, "number")
    BY <1>3, <2>1 DEF Variables, Types, Valued
  <2> QED BY <1>1, <2>1, <2>2, ArenaGrows
<1>8. CASE DeclareFunction \/ EmitStorage
  <2>1. /\ ast[This].kind \notin Uses
        /\ arena' = [arena EXCEPT ![Sym].op = This] \/ UNCHANGED arena
    BY <1>2, <1>8 DEF DeclareFunction, EmitStorage, Emitting, At, SetOp, Uses
  <2>2. Sym \in DOMAIN arena => arena[Sym].node = This
    BY <1>1, <1>2, <2>1, OwnSymbol
  <2> QED BY <1>1, <2>1, <2>2, ArenaGrows
<1>9. CASE \/ LeaveFunction \/ CheckLeaf \/ CheckChildren \/ CheckCondition \/ LeaveAdd
           \/ LeaveAssign \/ CheckCall \/ CheckArgument \/ LeavePrint \/ LeaveReturn
           \/ EmitFunction \/ EmitOperands
  <2>1. UNCHANGED arena
    BY <1>9 DEF LeaveFunction, CheckLeaf, CheckChildren, CheckCondition, LeaveAdd, LeaveAssign,
                CheckCall, CheckArgument, LeavePrint, LeaveReturn, EmitFunction, EmitOperands
  <2> QED BY <1>1, <2>1, ArenaGrows
<1> QED
  BY <1>4, <1>5, <1>6, <1>7, <1>8, <1>9 DEF LaterStep, CheckStep, CheckLast, GenerateStep

(* No expression has the type of a function. *)
LEMMA LaterFields ==
  ASSUME StackInv, ValuesInv, NamesInv, Typeable(ast), FieldsInv, LaterStep
  PROVE  FieldsInv'
<1>1. /\ IsProgram(ast) /\ todo # <<>> /\ This \in 1 .. Len(ast) /\ Node = ast[This]
      /\ ast[This].type \in {"number", "bool", Absent} /\ Arranged(ast, This)
      /\ Len(Kids(This)) \in Nat /\ Kids(This) = ast[This].kids
      /\ \A i \in 1 .. Len(Kids(This)) : Kids(This)[i] \in 1 .. Len(ast)
      /\ UNCHANGED <<ast, pass>> /\ pass \notin {"collect", "resolve"}
  BY LaterFrame, NodeFacts
<1>2. /\ type \in [1 .. Len(ast) -> Types \cup {Null}]
      /\ \A n \in 1 .. Len(ast) : type[n] # "function"
      /\ SymbolsInv
  BY DEF ValuesInv, FieldsInv, NamesInv
<1>3. ASSUME NEW t, SetType(t), t # "function"
      PROVE  \A n \in 1 .. Len(ast) : type'[n] # "function"
  BY <1>1, <1>2, <1>3 DEF SetType
<1>4. \A n \in 1 .. Len(ast) : type'[n] # "function"
  <2>1. CASE UNCHANGED type
    BY <1>2, <2>1
  <2>2. CASE CheckLeaf
    <3> DEFINE t == IF Node.kind = "literal" THEN Node.type ELSE SymbolType(Sym)
    <3>1. SetType(t) /\ ast[This].kind \in {"literal", "var"}
      BY <1>1, <2>2 DEF CheckLeaf, At
    <3>2. CASE ast[This].kind = "literal"
      <4>1. t = ast[This].type
        BY <1>1, <3>2
      <4>2. t # "function"
        BY <1>1, <4>1 DEF Absent
      <4> HIDE DEF t
      <4> QED BY <1>3, <3>1, <4>2
    <3>3. CASE ast[This].kind = "var"
      <4>1. t = SymbolType(symbol[This])
        BY <1>1, <3>3 DEF Sym
      <4>2. SymbolType(symbol[This]) # "function"
        <5>1. CASE symbol[This] = None
          BY <5>1 DEF SymbolType, Null
        <5>2. CASE symbol[This] # None
          <6>1. PICK d \in 1 .. Len(ast) :
                  /\ symbol[This] = symbol[d] /\ symbol[d] \in DOMAIN arena
                  /\ arena[symbol[d]].node = d /\ ast[d].kind \in Variables
            BY <1>1, <3>3, <5>2, UseMeans DEF Uses
          <6>2. d \notin Children(ast, 1)
            BY <1>1, <6>1, NamedFacts DEF Variables
          <6>3. Apt(ast, arena[symbol[d]])
            BY <6>1 DEF FieldsInv
          <6>4. arena[symbol[d]].type \in Valued \cup {Null}
            BY <6>1, <6>2, <6>3 DEF Apt
          <6> QED BY <5>2, <6>1, <6>4 DEF SymbolType, Valued, Null
        <5> QED BY <5>1, <5>2
      <4> HIDE DEF t
      <4> QED BY <1>3, <3>1, <4>1, <4>2
    <3> QED BY <3>1, <3>2, <3>3
  <2>3. CASE CheckChildren
    <3>1. SetType("unit") \/ UNCHANGED type
      BY <2>3 DEF CheckChildren
    <3> QED BY <1>3, <2>1, <3>1
  <2>4. CASE LeaveAdd
    <3>1. SetType("number") \/ SetType(Null)
      BY <2>4 DEF LeaveAdd
    <3> QED BY <1>3, <3>1 DEF Null
  <2>5. CASE LeaveAssign
    <3>1. TypeOf(Kids(This)[1]) # "function"
      <4>1. Len(ast[This].kids) = 2
        BY <1>1, <2>5 DEF LeaveAssign, At, Arranged
      <4> QED BY <1>1, <1>2, <4>1 DEF TypeOf
    <3>2. SetType(TypeOf(Kids(This)[1])) \/ SetType(Null)
      BY <2>5 DEF LeaveAssign
    <3> QED BY <1>3, <3>1, <3>2 DEF Null
  <2>6. CASE CheckCall
    <3>1. UNCHANGED type \/ SetType(Null) \/ (SymbolType(Sym) = "function" /\ SetType(ReturnType(Callee)))
      BY <2>6 DEF CheckCall
    <3>2. ASSUME SymbolType(Sym) = "function"
          PROVE  ReturnType(Callee) # "function"
      <4>1. Sym # None /\ Sym = symbol[This]
        BY <3>2 DEF SymbolType, Null, Sym
      <4>2. Callee \in 1 .. Len(ast)
        BY <1>1, <1>2, <4>1, SymbolTypes DEF Callee
      <4>3. ast[Callee] \in ProgramNode
        BY <1>1, <4>2, ProgramFacts
      <4> QED BY <4>3 DEF ReturnType, ProgramNode, Absent
    <3> QED BY <1>3, <2>1, <3>1, <3>2 DEF Null
  <2>7. CASE ~(CheckLeaf \/ CheckChildren \/ LeaveAdd \/ LeaveAssign \/ CheckCall)
    <3>1. UNCHANGED type
      BY <2>7 DEF LaterStep, CheckStep, CheckLast, GenerateStep, ResolveSignature, CheckFunction,
                  LeaveFunction, CheckLet, LeaveLet, CheckCondition, CheckRange, CheckArgument,
                  LeavePrint, LeaveReturn, DeclareFunction, EmitFunction, EmitStorage, EmitOperands,
                  GeneratorFrame
    <3> QED BY <2>1, <3>1
  <2> QED BY <2>2, <2>3, <2>4, <2>5, <2>6, <2>7
<1>5. Grown
  BY <1>2, LaterGrows
<1>6. \A s \in DOMAIN arena' : Apt(ast, arena'[s])
  BY <1>5 DEF Grown, Grows
<1> QED BY <1>1, <1>4, <1>6 DEF FieldsInv

(* What a typed symbol stays. *)
LEMMA GrownTyped ==
  ASSUME Grown, UNCHANGED <<ast, symbol>>, IsProgram(ast), SymbolsInv, FieldsInv,
         NEW d \in 1 .. Len(ast), ast[d].kind \in Variables, Typed(d)
  PROVE  Typed(d)'
<1>1. CASE symbol[d] = None
  BY <1>1 DEF Typed
<1>2. CASE symbol[d] # None
  <2> DEFINE s == symbol[d]
  <2>1. s \in DOMAIN arena /\ arena[s].node = d /\ d \notin Children(ast, 1)
    BY <1>2, OwnSymbol DEF Variables, Uses
  <2>2. Grows(ast, arena[s], arena'[s]) /\ arena[s].type # Null
    BY <1>2, <2>1 DEF Grown, Typed, Valued, Null
  <2>3. arena'[s].type # Null /\ arena'[s].node = d /\ Apt(ast, arena'[s])
    BY <2>1, <2>2 DEF Grows
  <2>4. arena'[s].type \in Valued
    BY <2>1, <2>3 DEF Apt
  <2> QED BY <2>4 DEF Typed
<1> QED BY <1>1, <1>2

(* Signatures *)
LEMMA ParamIsVariable ==
  ASSUME IsProgram(ast), NEW k \in 1 .. Len(ast), NEW d \in Children(ast, k), ast[d].kind = "param"
  PROVE  d \in 1 .. Len(ast) /\ ast[d].kind \in Variables
BY KidFacts, ProgramFacts DEF Variables

(* The passes over the functions take them one by one. *)
LEMMA FlatReaches ==
  ASSUME StackInv, FlatStep, NEW k \in Children(ast, 1), k < Frontier'
  PROVE  k < Frontier \/ k = This
<1>1. /\ This \in Children(ast, 1) /\ Frontier = This /\ Follows(ast, End(ast, This), Frontier')
      /\ IsProgram(ast) /\ todo # <<>>
  BY FlatStack DEF StackInv
<1>2. /\ 1 \in 1 .. Len(ast) /\ This \in 1 .. Len(ast) /\ Len(ast) \in Nat
      /\ k \in 2 .. Len(ast) /\ ast[k].kind = "fn"
  <2>1. 1 \in 1 .. Len(ast) /\ This \in 1 .. Len(ast) /\ Len(ast) \in Nat
    BY <1>1, RootIsAround, NodeFacts, ProgramFacts
  <2>2. k \in 2 .. Len(ast)
    BY <1>1, <2>1, KidFacts
  <2> QED BY <1>1, <2>1, <2>2, NamedFacts
<1>3. SUFFICES ASSUME ~(k < Frontier), k # This
               PROVE  FALSE
  OBVIOUS
<1>4. End(ast, This) \in Nat
  BY <1>1, <1>2, EndFacts
<1>5. k \in Nat /\ This \in Nat
  BY <1>2
<1>6. ~(k < This)
  BY <1>1, <1>3, Zenon
<1>7. CASE k \in This .. End(ast, This)
  <2>1. Inside(ast, This, k)
    BY <1>7 DEF Inside
  <2> QED BY <1>1, <1>2, <1>3, <2>1, SiblingsApart
<1>8. CASE k \notin This .. End(ast, This)
  <2>1. \/ Frontier' = End(ast, This) + 1
        \/ Frontier' = End(ast, This) + 2 /\ Bare(ast, End(ast, This) + 1)
    BY <1>1 DEF Follows
  <2>2. k > End(ast, This)
    BY <1>4, <1>5, <1>6, <1>8
  <2>3. k = End(ast, This) + 1 /\ Bare(ast, End(ast, This) + 1)
    BY <1>4, <1>5, <2>1, <2>2
  <2> QED BY <1>2, <2>3 DEF Bare
<1> QED BY <1>7, <1>8

LEMMA LaterSignatures ==
  ASSUME StackInv, StackInv', ValuesInv, NamesInv, FieldsInv, Signatures, LaterStep
  PROVE  Signatures'
<1>1. /\ IsProgram(ast) /\ todo # <<>> /\ This \in 1 .. Len(ast) /\ Node = ast[This]
      /\ UNCHANGED <<ast, pass, symbol>> /\ pass \notin {"collect", "resolve"}
      /\ Sym = symbol[This] /\ SymbolsInv /\ Len(ast) \in Nat
  BY LaterFrame, NodeFacts, ProgramFacts DEF Sym, NamesInv
<1>2. Grown
  BY <1>1, LaterGrows
<1>3. \A k \in Children(ast, 1) : k \in 1 .. Len(ast) /\ ast[k].kind = "fn" /\ k \in 2 .. Len(ast)
  <2>1. 1 \in 1 .. Len(ast)
    BY <1>1, RootIsAround
  <2> QED BY <1>1, <2>1, KidFacts, NamedFacts
<1>4. ASSUME NEW k \in Children(ast, 1), symbol[k] # None, arena[symbol[k]].type = "function"
      PROVE  arena'[symbol[k]].type = "function"
  <2> DEFINE s == symbol[k]
  <2>1. s \in DOMAIN arena /\ arena[s].node = k
    BY <1>1, <1>3, <1>4, OwnSymbol DEF Uses
  <2>2. Grows(ast, arena[s], arena'[s]) /\ arena[s].type # Null
    BY <1>2, <1>4, <2>1 DEF Grown, Null
  <2> QED BY <1>4, <2>1, <2>2 DEF Grows, Apt
<1>5. CASE ResolveSignature
  <2>1. /\ This \in Children(ast, 1) /\ Frontier = This /\ Follows(ast, End(ast, This), Frontier')
        /\ pass = "sign" /\ ast[This].kind = "fn"
    <3>1. pass = "sign" /\ ast[This].kind = "fn"
      BY <1>1, <1>5 DEF ResolveSignature, At
    <3> QED BY <1>5, <3>1, FlatStack DEF FlatStep
  <2>2. arena' = IF SymbolType(Sym) = Null THEN Signed(This) ELSE arena
    BY <1>5 DEF ResolveSignature
  <2>3. symbol[This] # None => arena'[symbol[This]].type = "function"
    <3>1. CASE SymbolType(Sym) = Null
      BY <1>1, <2>1, <2>2, <3>1, SignedGrows
    <3>2. CASE SymbolType(Sym) # Null /\ symbol[This] # None
      <4>1. symbol[This] \in DOMAIN arena /\ arena[symbol[This]].node = This
        BY <1>1, <2>1, <3>2, OwnSymbol DEF Uses
      <4>2. Apt(ast, arena[symbol[This]])
        BY <4>1 DEF FieldsInv
      <4> QED BY <1>1, <2>1, <2>2, <3>2, <4>1, <4>2 DEF Apt, SymbolType
    <3> QED BY <3>1, <3>2
  <2>4. ASSUME NEW k \in Children(ast, 1), symbol[k] # None, k < Frontier'
        PROVE  arena'[symbol[k]].type = "function"
    <3>1. CASE k < Frontier
      <4>1. arena[symbol[k]].type = "function"
        BY <1>1, <2>1, <2>4, <3>1 DEF Signatures
      <4> QED BY <1>4, <2>4, <4>1
    <3>2. CASE k = This
      BY <2>3, <2>4, <3>2
    <3> QED BY <1>5, <2>4, <3>1, <3>2, FlatReaches DEF FlatStep
  <2>5. ASSUME NEW k \in Children(ast, 1), symbol[k] # None, arena'[symbol[k]].type = "function",
               NEW d \in Children(ast, k), ast[d].kind = "param"
        PROVE  Typed(d)'
    <3>1. CASE arena[symbol[k]].type = "function"
      <4>1. Typed(d)
        BY <2>5, <3>1 DEF Signatures
      <4> QED BY <1>1, <1>2, <1>3, <2>5, <4>1, GrownTyped, ParamIsVariable
    <3>2. CASE arena[symbol[k]].type # "function"
      <4>1. symbol[k] \in DOMAIN arena /\ arena[symbol[k]].node = k
        BY <1>1, <1>3, <2>5, OwnSymbol DEF Uses
      <4>2. arena' = Signed(This)
        BY <2>2, <2>5, <3>2
      <4>3. symbol[k] = symbol[This]
        <5> DEFINE typed == {symbol[Params(This)[i]] : i \in DOMAIN Params(This)}
        <5>1. arena' = [s \in DOMAIN arena |->
                  IF s = symbol[This] THEN [arena[s] EXCEPT !.type = "function"]
                  ELSE IF s \in typed THEN [arena[s] EXCEPT !.type = ast[arena[s].node].type]
                  ELSE arena[s]]
          BY <4>2 DEF Signed
        <5>2. symbol[k] \notin typed
          <6>1. SUFFICES ASSUME NEW i \in DOMAIN Params(This), symbol[k] = symbol[Params(This)[i]]
                         PROVE  FALSE
            OBVIOUS
          <6>2. Params(This)[i] \in Children(ast, This) /\ ast[Params(This)[i]].kind = "param"
            BY <1>1, <2>1, ParamPlace
          <6>3. Params(This)[i] \in 1 .. Len(ast)
            BY <1>1, <6>2, ParamIsVariable
          <6>4. arena[symbol[k]].node = Params(This)[i]
            BY <1>1, <2>5, <6>1, <6>2, <6>3, OwnSymbol DEF Uses
          <6> QED BY <1>3, <4>1, <6>2, <6>4
        <5> HIDE DEF typed
        <5> QED BY <2>5, <3>2, <4>1, <5>1, <5>2
      <4>4. k = This
        BY <1>1, <1>3, <2>1, <2>5, <4>1, <4>3, OwnSymbol DEF Uses
      <4>5. symbol[d] # None => arena'[symbol[d]].type \in Valued
        BY <1>1, <2>1, <2>5, <4>2, <4>4, SignedGrows
      <4> QED BY <1>1, <4>5 DEF Typed
    <3> QED BY <3>1, <3>2
  <2> QED BY <1>1, <2>1, <2>4, <2>5 DEF Signatures
<1>6. CASE ~ResolveSignature
  <2>1. pass # "sign"
    BY <1>6 DEF LaterStep, CheckStep, CheckLast, GenerateStep, CheckFunction, LeaveFunction, CheckLet,
                LeaveLet, CheckLeaf, CheckChildren, CheckCondition, CheckRange, LeaveAdd, LeaveAssign,
                CheckCall, CheckArgument, LeavePrint, LeaveReturn, DeclareFunction, EmitFunction,
                EmitStorage, EmitOperands, Emitting, At
  <2>2. \A k \in Children(ast, 1) : symbol[k] # None => arena[symbol[k]].type = "function"
    BY <1>1, <2>1 DEF Signatures
  <2>3. \A k \in Children(ast, 1) : symbol[k] # None => arena'[symbol[k]].type = "function"
    BY <1>4, <2>2
  <2>4. ASSUME NEW k \in Children(ast, 1), symbol[k] # None, NEW d \in Children(ast, k),
               ast[d].kind = "param"
        PROVE  Typed(d)'
    <3>1. Typed(d)
      BY <2>2, <2>4 DEF Signatures
    <3> QED BY <1>1, <1>2, <1>3, <2>4, <3>1, GrownTyped, ParamIsVariable
  <2> QED BY <1>1, <2>3, <2>4 DEF Signatures
<1> QED BY <1>5, <1>6

-------------------------------------------------------------------------------
(* A step of the type checker without a diagnostic settles what it passes.  *)

Ready == StackInv /\ ValuesInv /\ NamesInv /\ Typeable(ast) /\ Consistent

TypedNow(n) == symbol[n] # None => arena'[symbol[n]].type \in Valued

Settled ==
  /\ ast[This].kind \in Expressions /\ ~Circular(ast, This) => Stays \/ type'[This] # Null
  /\ ast[This].kind \in {"call", "print"} => type'[This] # Null
  /\ ast[This].kind \in Variables => Stays \/ TypedNow(This)
  /\ ast[This].kind = "assign" =>
       \/ Stays
       \/ /\ symbol[ast[This].kids[1]] # None
          /\ arena'[symbol[ast[This].kids[1]]].mutable
  /\ \A m \in Frontier .. Frontier' - 1 :
       m = This \/ ast[m].kind = "block" \/ (ast[m].kind = "param" /\ TypedNow(m))

LEMMA ErrorsStay ==
  ASSUME LaterStep
  PROVE  errors \subseteq errors'
<1>1. CASE ResolveSignature \/ CheckFunction
  BY <1>1 DEF ResolveSignature, CheckFunction, ReportParams, Silent
<1>2. CASE ~(ResolveSignature \/ CheckFunction)
  <2>1. Report \/ Silent
    BY <1>2 DEF LaterStep, CheckStep, CheckLast, GenerateStep, LeaveFunction, CheckLet,
                LeaveLet, CheckLeaf, CheckChildren, CheckCondition, CheckRange, LeaveAdd, LeaveAssign,
                CheckCall, CheckArgument, LeavePrint, LeaveReturn, DeclareFunction, EmitFunction,
                EmitStorage, EmitOperands, GeneratorFrame, Silent
  <2> QED BY <2>1 DEF Report, Silent
<1> QED BY <1>1, <1>2

LEMMA CheckReady ==
  ASSUME Ready, CheckStep, errors' = {}
  PROVE  /\ IsProgram(ast) /\ todo # <<>> /\ pass = "check" /\ errors = {} /\ Accepting
         /\ CheckerStack /\ This \in 1 .. Len(ast) /\ This \in 2 .. Len(ast) /\ Node = ast[This]
         /\ Sym = symbol[This] /\ SymbolsInv /\ Arranged(ast, This) /\ Len(ast) \in Nat
         /\ Kids(This) = ast[This].kids /\ Len(Kids(This)) \in Nat /\ Kids(This) \in Seq(Nat)
         /\ \A i \in 1 .. Len(Kids(This)) :
              Kids(This)[i] \in 1 .. Len(ast) /\ Kids(This)[i] \in Children(ast, This)
         /\ UNCHANGED <<ast, pass, symbol>>
<1>1. LaterStep /\ StackInv /\ NamesInv
  BY DEF LaterStep, Ready
<1>2. pass = "check"
  BY DEF CheckStep, CheckLast, CheckFunction, LeaveFunction, CheckLet, LeaveLet, CheckLeaf,
         CheckChildren, CheckCondition, CheckRange, LeaveAdd, LeaveAssign, CheckCall, CheckArgument,
         LeavePrint, LeaveReturn, At
<1>3. errors = {}
  BY <1>1, ErrorsStay
<1>4. Accepting /\ CheckerStack
  BY <1>2, <1>3 DEF Ready, Consistent, WalkInv
<1>5. todo # <<>> /\ UNCHANGED <<ast, pass, symbol>>
  BY <1>1, LaterFrame
<1> QED BY <1>1, <1>2, <1>3, <1>4, <1>5, NodeFacts, StackTop, ProgramFacts DEF Sym, NamesInv

LEMMA SkipsSettle ==
  ASSUME Skips
  PROVE  \A m \in Frontier .. Frontier' - 1 :
           m = This \/ ast[m].kind = "block" \/ (ast[m].kind = "param" /\ TypedNow(m))
BY DEF Skips

(* Operands that are behind have types unless they are circular. *)
LEMMA KidTyped ==
  ASSUME StackInv, CheckerStack, ExpressionsTyped, pass = "check", todo # <<>>,
         NEW k \in Children(ast, This), k < Frontier, ast[k].kind \in Expressions,
         ~Circular(ast, k)
  PROVE  TypeOf(k) # Null
<1>1. This \in 1 .. Len(ast) /\ IsProgram(ast) /\ Len(ast) \in Nat
  BY NodeFacts, ProgramFacts
<1>2. k \in This + 1 .. Len(ast) /\ k <= End(ast, This) /\ End(ast, This) \in This .. Len(ast)
  BY <1>1, KidFacts, KidsTile, EndFacts
<1>3. Inside(ast, This, k) /\ k # This /\ k \in 1 .. Len(ast)
  BY <1>1, <1>2 DEF Inside
<1>4. Passed(k)
  BY <1>3, BelowPassed
<1> QED BY <1>3, <1>4 DEF ExpressionsTyped, TypeOf

LEMMA LeaveFrontier ==
  ASSUME StackInv, todo # <<>>, Top.at = "leave"
  PROVE  \A k \in Children(ast, This) : k < Frontier
<1>1. This \in 1 .. Len(ast) /\ IsProgram(ast) /\ Frontier = Lo(ast, Top)
  BY NodeFacts, StackTop
<1>2. Frontier = End(ast, This) + 1 /\ End(ast, This) \in Nat
  BY <1>1, EndFacts, ProgramFacts DEF Lo, This
<1> QED BY <1>1, <1>2, KidFacts, KidsTile, ProgramFacts

LEMMA CheckFunctionSettled ==
  ASSUME Ready, CheckFunction, errors' = {}
  PROVE  Settled
<1>1. CheckStep
  BY DEF CheckStep
<1>2. ast[This].kind = "fn"
  BY <1>1, CheckReady DEF CheckFunction, At
<1>3. \A m \in Frontier .. Frontier' - 1 :
        m = This \/ (ast[m].kind = "param" /\ m \in Children(ast, This))
  BY CheckFunctionStack DEF Ready, ValuesInv
<1>4. ASSUME NEW m \in Children(ast, This), ast[m].kind = "param"
      PROVE  TypedNow(m)
  <2>1. CASE SymbolType(Sym) = Null
    <3>1. arena' = Signed(This)
      BY <2>1 DEF CheckFunction
    <3> QED BY <1>1, <1>2, <1>4, <3>1, CheckReady, SignedGrows DEF Ready, Consistent, TypedNow
  <2>2. CASE SymbolType(Sym) # Null
    <3>1. symbol[This] # None /\ arena[symbol[This]].type # Null /\ UNCHANGED arena
      BY <1>1, <2>2, CheckReady DEF SymbolType, CheckFunction
    <3>2. This \in Children(ast, 1)
      BY <1>1, <1>2, <3>1, CheckReady, OwnSymbol DEF Uses
    <3>3. arena[symbol[This]].type = "function"
      BY <1>1, <3>1, <3>2, CheckReady DEF Ready, Consistent, Signatures
    <3>4. Typed(m)
      BY <1>4, <3>1, <3>2, <3>3 DEF Ready, Consistent, Signatures
    <3> QED BY <3>1, <3>4 DEF TypedNow, Typed
  <2> QED BY <2>1, <2>2
<1> QED BY <1>2, <1>3, <1>4 DEF Settled, Expressions, Variables

LEMMA LetSettled ==
  ASSUME Ready, CheckLet \/ LeaveLet, errors' = {}
  PROVE  Settled
<1>1. CheckStep
  BY DEF CheckStep, CheckLast
<1>2. ast[This].kind = "let"
  BY <1>1, CheckReady DEF CheckLet, LeaveLet, At
<1>3. CASE CheckLet
  <2>1. Sym # None
    BY <1>3 DEF CheckLet, Report
  <2>2. Stays /\ Skips
    BY <1>1, <1>3, <2>1, CheckReady, LetDives, CheckLetStack DEF Ready
  <2> QED BY <1>2, <2>2, SkipsSettle DEF Settled, Expressions
<1>4. CASE LeaveLet
  <2>1. LetType \notin Unbindable /\ arena' = [arena EXCEPT ![Sym].type = LetType]
    BY <1>4 DEF LeaveLet, Report
  <2>2. LetType \in Valued /\ StackInv
    BY <1>4, <2>1, LetTypes DEF Ready, Consistent
  <2>3. symbol[This] # None => symbol[This] \in DOMAIN arena
    BY <1>1, <1>2, CheckReady, OwnSymbol DEF Uses
  <2>4. TypedNow(This)
    <3>1. CASE symbol[This] # None
      <4>1. arena' = [r \in DOMAIN arena |->
                        IF r = Sym THEN [arena[r] EXCEPT !.type = LetType] ELSE arena[r]]
        BY <2>1
      <4>2. Sym \in DOMAIN arena /\ Sym = symbol[This]
        BY <1>1, <2>3, <3>1, CheckReady
      <4>3. arena'[Sym] = [arena[Sym] EXCEPT !.type = LetType]
        BY <4>1, <4>2
      <4>4. arena[Sym] \in Symbol
        BY <4>2, ElementOfSeq, LenProperties DEF Ready, ValuesInv
      <4>5. arena'[Sym].type = LetType
        BY <4>3, <4>4 DEF Symbol
      <4> QED BY <2>2, <4>2, <4>5 DEF TypedNow
    <3> QED BY <3>1 DEF TypedNow
  <2>5. Skips
    BY <1>4, <2>2, CheckLastStack DEF CheckLast
  <2> QED BY <1>2, <2>4, <2>5, SkipsSettle DEF Settled, Expressions
<1> QED BY <1>3, <1>4

LEMMA LeafSettled ==
  ASSUME Ready, CheckLeaf, errors' = {}
  PROVE  Settled
<1>1. CheckStep
  BY DEF CheckStep
<1>2. /\ ast[This].kind \in {"literal", "var"} /\ Top.at = "visit"
      /\ SetType(IF ast[This].kind = "literal" THEN ast[This].type ELSE SymbolType(Sym))
  BY <1>1, CheckReady DEF CheckLeaf, At
<1>3. type'[This] = IF ast[This].kind = "literal" THEN ast[This].type ELSE SymbolType(Sym)
  BY <1>1, <1>2, CheckReady DEF SetType, Ready, ValuesInv
<1>4. ASSUME ast[This].kind = "literal"
      PROVE  type'[This] # Null
  <2>1. ast[This].type # Absent /\ ast[This].type \in {"number", "bool", Absent}
    BY <1>1, <1>4, CheckReady, NodeFacts DEF Arranged, Ready
  <2> QED BY <1>3, <1>4, <2>1 DEF Null
<1>5. ASSUME ast[This].kind = "var", ~Circular(ast, This)
      PROVE  type'[This] # Null
  <2>1. symbol[This] # None
    BY <1>1, <1>5, CheckReady DEF Accepting, Resolved, Named, Uses, Reached
  <2>2. pass \notin {"collect", "resolve"} /\ NamesInv /\ Typeable(ast) /\ StackInv
    BY <1>1, CheckReady DEF Ready
  <2>3. PICK d \in 1 .. Len(ast) :
          /\ Best(ast, This, d) /\ symbol[This] = symbol[d] /\ symbol[d] # None
          /\ ast[d].kind \in Variables /\ d < This
    BY <1>1, <1>5, <2>1, <2>2, CheckReady, UseMeans DEF Uses
  <2>4. Passed(d)
    <3>1. SUFFICES ASSUME ~Passed(d) PROVE FALSE
      OBVIOUS
    <3>2. Behind(ast, d, This)
      BY <1>1, <1>2, <2>2, <2>3, <3>1, CheckReady, UnpassedIsBehind
    <3>3. This \in This .. End(ast, This)
      BY <1>1, CheckReady, RootIsAround DEF Inside
    <3> QED BY <1>5, <2>3, <3>2, <3>3 DEF Circular
  <2>5. Typed(d)
    BY <1>1, <2>3, <2>4, CheckReady DEF Accepting, VariablesTyped
  <2>6. SymbolType(Sym) \in Valued
    BY <1>1, <2>3, <2>5, CheckReady DEF Typed, SymbolType
  <2> QED BY <1>3, <1>5, <2>6 DEF Valued, Null
<1>6. Skips
  BY CheckLastStack DEF Ready
<1> QED BY <1>2, <1>4, <1>5, <1>6, SkipsSettle DEF Settled, Variables

LEMMA ChildrenSettled ==
  ASSUME Ready, CheckChildren, errors' = {}
  PROVE  Settled
<1>1. CheckStep /\ StackInv
  BY DEF CheckStep, Ready
<1>2. ast[This].kind \in {"block", "if", "while", "for", "return", "assign", "add", "print"}
  BY <1>1, CheckReady DEF CheckChildren, At
<1>3. /\ ast[This].kind \in {"for", "assign", "add", "print"} => Stays
      /\ Skips
  BY <1>1, CheckReady, ChildrenDive, CheckChildrenStack
<1>4. ast[This].kind = "print" => type'[This] # Null
  <2>1. ast[This].kind = "print" => SetType("unit")
    BY <1>1, CheckReady DEF CheckChildren
  <2> QED BY <1>1, <2>1, CheckReady DEF SetType, Ready, ValuesInv, Null
<1> QED BY <1>2, <1>3, <1>4, SkipsSettle DEF Settled, Expressions, Variables

LEMMA ConditionSettled ==
  ASSUME Ready, CheckCondition, errors' = {}
  PROVE  Settled
<1>1. CheckStep /\ StackInv
  BY DEF CheckStep, Ready
<1>2. ast[This].kind \in {"if", "while"} /\ Top.at = "condition"
  BY <1>1, CheckReady DEF CheckCondition, At
<1> DEFINE k == Kids(This)[1]
<1>3. Len(Kids(This)) > 0 /\ ast[k].kind \in Expressions
  BY <1>1, <1>2, CheckReady DEF Arranged
<1>4. k \in Children(ast, This) /\ k \in 1 .. Len(ast) /\ Head(Kids(This)) = k
  BY <1>1, <1>3, CheckReady
<1>5. k < Frontier
  <2>1. Frontier = End(ast, k) + 1
    BY <1>1, <1>2, CheckReady, StackTop DEF Lo, This
  <2>2. End(ast, k) \in k .. Len(ast)
    BY <1>1, <1>4, CheckReady, EndFacts
  <2>3. k \in Nat /\ Len(ast) \in Nat
    BY <1>1, <1>4, CheckReady
  <2> HIDE DEF k
  <2> QED BY <2>1, <2>2, <2>3
<1> HIDE DEF k
<1>6. ~Circular(ast, k)
  BY <1>1, <1>2, <1>3, <1>4, CheckReady, ConditionNotCircular
<1>7. TypeOf(k) # Null
  BY <1>1, <1>3, <1>4, <1>5, <1>6, CheckReady, KidTyped DEF Accepting
<1>8. Skips
  BY <1>1, <1>4, <1>7, CheckConditionStack
<1> QED BY <1>2, <1>8, SkipsSettle DEF Settled, Expressions, Variables

LEMMA RangeSettled ==
  ASSUME Ready, CheckRange, errors' = {}
  PROVE  Settled
<1>1. CheckStep /\ StackInv
  BY DEF CheckStep, Ready
<1>2. ast[This].kind = "for" /\ Skips
  BY <1>1, CheckReady, CheckRangeStack DEF CheckRange, At
<1>3. TypedNow(This)
  <2>1. CASE symbol[This] # None
    <3>1. Sym \in DOMAIN arena /\ Sym = symbol[This]
      BY <1>1, <1>2, <2>1, CheckReady, OwnSymbol DEF Uses
    <3>2. arena' = [arena EXCEPT ![Sym].type = "number"]
      BY <1>1, <2>1, CheckReady DEF CheckRange
    <3>3. arena' = [r \in DOMAIN arena |->
                      IF r = Sym THEN [arena[r] EXCEPT !.type = "number"] ELSE arena[r]]
      BY <3>2
    <3>4. arena'[Sym] = [arena[Sym] EXCEPT !.type = "number"]
      BY <3>1, <3>3
    <3>5. arena[Sym] \in Symbol
      BY <3>1, ElementOfSeq, LenProperties DEF Ready, ValuesInv
    <3>6. arena'[Sym].type = "number"
      BY <3>4, <3>5 DEF Symbol
    <3> QED BY <3>1, <3>6 DEF TypedNow, Valued
  <2> QED BY <2>1 DEF TypedNow
<1> QED BY <1>2, <1>3, SkipsSettle DEF Settled, Expressions

(* The operands of what is looked at last. *)
LEMMA OperandTyped ==
  ASSUME Ready, CheckStep, errors' = {}, Top.at = "leave", ~Circular(ast, This),
         NEW i \in 1 .. Len(Kids(This)), ast[Kids(This)[i]].kind \in Expressions
  PROVE  TypeOf(Kids(This)[i]) # Null
<1>1. /\ StackInv /\ IsProgram(ast) /\ This \in 1 .. Len(ast) /\ Kids(This)[i] \in Children(ast, This)
      /\ CheckerStack /\ ExpressionsTyped /\ pass = "check" /\ todo # <<>>
  BY CheckReady DEF Ready, Accepting
<1>2. Kids(This)[i] < Frontier
  BY <1>1, LeaveFrontier
<1>3. ~Circular(ast, Kids(This)[i])
  BY <1>1, PartsNotCircular
<1> QED BY <1>1, <1>2, <1>3, KidTyped

LEMMA OperandsArranged ==
  ASSUME NEW p, NEW n, Arranged(p, n), p[n].kind \in {"add", "assign"}
  PROVE  /\ Len(p[n].kids) = 2
         /\ p[p[n].kids[1]].kind \in Expressions /\ p[p[n].kids[2]].kind \in Expressions
BY DEF Arranged

LEMMA AddSettled ==
  ASSUME Ready, LeaveAdd, errors' = {}
  PROVE  Settled
<1>1. CheckStep /\ StackInv /\ Skips
  BY CheckLastStack DEF CheckStep, CheckLast, Ready
<1>2. ast[This].kind = "add" /\ Top.at = "leave"
  BY <1>1, CheckReady DEF LeaveAdd, At
<1>3. /\ Len(Kids(This)) = 2
      /\ ast[Kids(This)[1]].kind \in Expressions /\ ast[Kids(This)[2]].kind \in Expressions
  <2>1. Arranged(ast, This) /\ Kids(This) = ast[This].kids
    BY <1>1, CheckReady
  <2> QED BY <1>2, <2>1, OperandsArranged
<1> DEFINE operands == {TypeOf(Kids(This)[i]) : i \in 1 .. 2}
<1>4. ASSUME ~Circular(ast, This)
      PROVE  type'[This] # Null
  <2>1. 1 \in 1 .. Len(Kids(This)) /\ 2 \in 1 .. Len(Kids(This))
    BY <1>3
  <2>2. TypeOf(Kids(This)[1]) # Null /\ TypeOf(Kids(This)[2]) # Null
    BY <1>1, <1>2, <1>3, <1>4, <2>1, OperandTyped
  <2>3. Null \notin operands
    BY <2>2
  <2> HIDE DEF operands
  <2>4. /\ SetType(IF operands = {"number"} THEN "number" ELSE Null)
        /\ operands = {"number"} \/ Null \in operands
    BY DEF LeaveAdd, Report, operands
  <2>5. SetType("number")
    BY <2>3, <2>4
  <2> QED BY <1>1, <2>5, CheckReady DEF SetType, Ready, ValuesInv, Null
<1> QED BY <1>1, <1>2, <1>4, SkipsSettle DEF Settled, Variables

LEMMA AssignSettled ==
  ASSUME Ready, LeaveAssign, errors' = {}
  PROVE  Settled
<1>1. CheckStep /\ StackInv /\ Skips
  BY CheckLastStack DEF CheckStep, CheckLast, Ready
<1>2. ast[This].kind = "assign" /\ Top.at = "leave"
  BY <1>1, CheckReady DEF LeaveAssign, At
<1>3. /\ Len(Kids(This)) = 2
      /\ ast[Kids(This)[1]].kind \in Expressions /\ ast[Kids(This)[2]].kind \in Expressions
  <2>1. Arranged(ast, This) /\ Kids(This) = ast[This].kids
    BY <1>1, CheckReady
  <2> QED BY <1>2, <2>1, OperandsArranged
<1>4. ~Circular(ast, This)
  BY <1>1, <1>2, CheckReady DEF Ready, Typeable
<1>5. TypeOf(Kids(This)[1]) # Null /\ TypeOf(Kids(This)[2]) # Null
  BY <1>1, <1>2, <1>3, <1>4, OperandTyped
<1>6. /\ SetType(TypeOf(Kids(This)[1])) /\ Assignable(Kids(This)[1], Kids(This)[2])
  <2>1. Null \notin {TypeOf(Kids(This)[1]), TypeOf(Kids(This)[2])}
    BY <1>5
  <2>2. Assignable(Kids(This)[1], Kids(This)[2])
    BY <2>1 DEF LeaveAssign, Report
  <2> QED BY <2>1, <2>2 DEF LeaveAssign
<1>7. type'[This] # Null
  BY <1>1, <1>5, <1>6, CheckReady DEF SetType, Ready, ValuesInv
<1>8. /\ symbol[ast[This].kids[1]] # None /\ arena'[symbol[ast[This].kids[1]]].mutable
  <2>1. UNCHANGED arena /\ Kids(This) = ast[This].kids
    BY <1>1, CheckReady DEF LeaveAssign
  <2> QED BY <1>6, <2>1 DEF Assignable
<1> QED BY <1>1, <1>2, <1>7, <1>8, SkipsSettle DEF Settled, Variables

(* A call that is resolved is that of a function whose signature is known. *)
LEMMA CallSettled ==
  ASSUME Ready, CheckCall, errors' = {}
  PROVE  Settled
<1>1. CheckStep /\ StackInv /\ NamesInv /\ Typeable(ast)
  BY DEF CheckStep, Ready
<1>2. ast[This].kind = "call"
  BY <1>1, CheckReady DEF CheckCall, At
<1>3. symbol[This] # None
  BY <1>1, <1>2, CheckReady DEF Accepting, Resolved, Named, Uses, Reached
<1>4. PICK d \in 1 .. Len(ast) :
        /\ symbol[This] = symbol[d] /\ symbol[d] # None /\ symbol[d] \in DOMAIN arena
        /\ arena[symbol[d]].node = d /\ d \in Children(ast, 1)
  BY <1>1, <1>2, <1>3, CheckReady, UseMeans DEF Uses
<1>5. arena[symbol[d]].type = "function"
  BY <1>1, <1>4, CheckReady DEF Ready, Consistent, Signatures
<1>6. SymbolType(Sym) = "function" /\ Callee = d
  BY <1>1, <1>3, <1>4, <1>5, CheckReady DEF SymbolType, Callee
<1>7. SetType(ReturnType(d)) /\ Len(Expects) = Len(Kids(This)) /\ SymbolType(Sym) # Null
  BY <1>6 DEF CheckCall, Report, Null
<1>8. ReturnType(d) # Null
  <2>1. ast[d] \in ProgramNode
    BY <1>1, CheckReady, ProgramFacts
  <2> QED BY <2>1 DEF ReturnType, ProgramNode, Null
<1>9. type'[This] # Null
  BY <1>1, <1>7, <1>8, CheckReady DEF SetType, Ready, ValuesInv
<1>10. Skips
  BY <1>1, <1>7, CheckCallStack
<1> QED BY <1>2, <1>9, <1>10, SkipsSettle DEF Settled, Variables

LEMMA PendingSettled ==
  ASSUME Ready, CheckArgument \/ LeavePrint, errors' = {}
  PROVE  Settled
<1>1. CheckStep /\ StackInv
  BY DEF CheckStep, CheckLast, Ready
<1>2. /\ UNCHANGED type /\ ast[This].kind \in {"call", "print"}
      /\ Top.at = "argument" \/ (Top.at = "leave" /\ ast[This].kind = "print")
  BY <1>1, CheckReady DEF CheckArgument, LeavePrint, At
<1>3. type[This] # Null
  <2>1. 1 \in 1 .. Len(todo) /\ todo[1] = Top /\ todo[1].node = This
    <3>1. todo \in Seq(Item) /\ todo # <<>> /\ Top = todo[1]
      BY <1>1, CheckReady, StackTop
    <3> QED BY <3>1, EmptySeq DEF This
  <2>2. PendingTyped /\ pass = "check"
    BY <1>1, CheckReady DEF Accepting
  <2> QED BY <1>2, <2>1, <2>2 DEF PendingTyped
<1>4. Skips
  BY <1>1, CheckArgumentStack, CheckLastStack DEF CheckLast
<1> QED BY <1>2, <1>3, <1>4, SkipsSettle DEF Settled, Variables

LEMMA OthersSettled ==
  ASSUME Ready, LeaveFunction \/ LeaveReturn, errors' = {}
  PROVE  Settled
<1>1. CheckStep /\ StackInv
  BY DEF CheckStep, CheckLast, Ready
<1>2. ast[This].kind \in {"fn", "return"}
  BY <1>1, CheckReady DEF LeaveFunction, LeaveReturn, At
<1>3. Skips
  BY <1>1, CheckLastStack DEF CheckLast
<1> QED BY <1>2, <1>3, SkipsSettle DEF Settled, Expressions, Variables

LEMMA StepSettled ==
  ASSUME Ready, CheckStep, errors' = {}
  PROVE  Settled
BY CheckFunctionSettled, LetSettled, LeafSettled, ChildrenSettled, ConditionSettled, RangeSettled,
   AddSettled, AssignSettled, CallSettled, PendingSettled, OthersSettled DEF CheckStep, CheckLast

LEMMA OnlyThisTyped ==
  ASSUME LaterStep, type \in [1 .. Len(ast) -> Types \cup {Null}]
  PROVE  \A n \in 1 .. Len(ast) : n # This => type'[n] = type[n]
<1>1. CASE UNCHANGED type
  BY <1>1
<1>2. ASSUME NEW t, SetType(t)
      PROVE  \A n \in 1 .. Len(ast) : n # This => type'[n] = type[n]
  BY <1>2 DEF SetType
<1>3. UNCHANGED type \/ \E t : SetType(t)
  <2>1. CASE CheckLeaf \/ CheckChildren \/ LeaveAdd \/ LeaveAssign \/ CheckCall
    BY <2>1 DEF CheckLeaf, CheckChildren, LeaveAdd, LeaveAssign, CheckCall
  <2>2. CASE ~(CheckLeaf \/ CheckChildren \/ LeaveAdd \/ LeaveAssign \/ CheckCall)
    BY <2>2 DEF LaterStep, CheckStep, CheckLast, GenerateStep, ResolveSignature, CheckFunction,
                LeaveFunction, CheckLet, LeaveLet, CheckCondition, CheckRange, CheckArgument,
                LeavePrint, LeaveReturn, DeclareFunction, EmitFunction, EmitStorage, EmitOperands,
                GeneratorFrame
  <2> QED BY <2>1, <2>2
<1> QED BY <1>1, <1>2, <1>3

LEMMA CheckAccepts ==
  ASSUME Ready, StackInv', CheckStep, errors' = {}
  PROVE  Accepting'
<1>1. /\ Settled /\ LaterStep /\ StackInv /\ FieldsInv /\ ValuesInv /\ NamesInv
  BY StepSettled DEF LaterStep, Ready, Consistent
<1>2. /\ IsProgram(ast) /\ todo # <<>> /\ pass = "check" /\ Accepting
      /\ CheckerStack /\ This \in 1 .. Len(ast) /\ SymbolsInv /\ Len(ast) \in Nat
      /\ UNCHANGED <<ast, pass, symbol>> /\ Arranged(ast, This)
  BY CheckReady
<1>3. OthersStay
  BY <1>1, <1>2, CheckDives DEF Dives, ValuesInv
<1>4. Grown
  BY <1>1, <1>2, LaterGrows
<1>5. \A n \in 1 .. Len(ast) : n # This => type'[n] = type[n]
  BY <1>1, OnlyThisTyped DEF ValuesInv
<1>6. ASSUME NEW n \in 1 .. Len(ast), Passed(n)'
      PROVE  \/ n = This /\ ~Stays
             \/ n # This /\ Passed(n)
             \/ n # This /\ ast[n].kind = "block"
             \/ n # This /\ ast[n].kind = "param" /\ TypedNow(n)
  <2>1. /\ n = This => ~Stays
        /\ Passed(n) \/ n = This \/ n \in Frontier .. Frontier' - 1
    BY <1>1, <1>2, <1>3, <1>6, NewlyPassed
  <2>2. n \in Frontier .. Frontier' - 1 =>
          n = This \/ ast[n].kind = "block" \/ (ast[n].kind = "param" /\ TypedNow(n))
    BY <1>1 DEF Settled
  <2> QED BY <2>1, <2>2
<1>7. Resolved'
  BY <1>2 DEF Accepting, Resolved, Reached
<1>8. ExpressionsTyped'
  <2>1. ASSUME NEW n \in 1 .. Len(ast), ast[n].kind \in Expressions, Passed(n)', ~Circular(ast, n)
        PROVE  type'[n] # Null
    <3>1. ast[n].kind \notin {"block", "param"}
      BY <2>1 DEF Expressions
    <3>2. CASE n = This /\ ~Stays
      BY <1>1, <2>1, <3>2 DEF Settled
    <3>3. CASE n # This /\ Passed(n)
      BY <1>2, <1>5, <2>1, <3>3 DEF Accepting, ExpressionsTyped
    <3> QED BY <1>6, <2>1, <3>1, <3>2, <3>3
  <2> QED BY <1>2, <2>1 DEF ExpressionsTyped
<1>9. VariablesTyped'
  <2>1. ASSUME NEW d \in 1 .. Len(ast), ast[d].kind \in Variables, Passed(d)'
        PROVE  Typed(d)'
    <3>1. ast[d].kind # "block"
      BY <2>1 DEF Variables
    <3>2. TypedNow(d) => Typed(d)'
      BY <1>2 DEF TypedNow, Typed
    <3>3. CASE d = This /\ ~Stays
      BY <1>1, <2>1, <3>2, <3>3 DEF Settled
    <3>4. CASE d # This /\ Passed(d)
      <4>1. Typed(d)
        BY <1>2, <2>1, <3>4 DEF Accepting, VariablesTyped
      <4> QED BY <1>1, <1>2, <1>4, <2>1, <4>1, GrownTyped
    <3> QED BY <1>6, <2>1, <3>1, <3>2, <3>3, <3>4
  <2> QED BY <1>2, <2>1 DEF VariablesTyped
<1>10. TargetsMutable'
  <2>1. ASSUME NEW n \in 1 .. Len(ast), ast[n].kind = "assign", Passed(n)'
        PROVE  LET target == symbol[ast[n].kids[1]] IN target # None /\ arena'[target].mutable
    <3> DEFINE k == ast[n].kids[1]
               target == symbol[k]
    <3>1. CASE n = This /\ ~Stays
      BY <1>1, <2>1, <3>1 DEF Settled
    <3>2. CASE n # This /\ Passed(n)
      <4>1. target # None /\ arena[target].mutable
        BY <1>2, <2>1, <3>2 DEF Accepting, TargetsMutable
      <4>2. k \in 1 .. Len(ast)
        <5>1. Len(ast[n].kids) = 2
          BY <1>2, <2>1, ProgramFacts DEF IsProgram, Arranged
        <5>2. k \in Children(ast, n)
          BY <1>2, <5>1, KidFacts
        <5> QED BY <1>2, <5>2, KidFacts
      <4>3. target \in DOMAIN arena
        BY <1>1, <1>2, <4>1, <4>2, SymbolTypes
      <4> QED BY <1>4, <4>1, <4>3 DEF Grown, Grows
    <3> QED BY <1>6, <2>1, <3>1, <3>2
  <2> QED BY <1>2, <2>1 DEF TargetsMutable
<1>11. PendingTyped'
  <2>1. ASSUME NEW i \in 1 .. Len(todo'),
               todo'[i].at = "argument" \/ (todo'[i].at = "leave" /\ ast[todo'[i].node].kind = "print")
        PROVE  type'[todo'[i].node] # Null
    <3>1. Fits(ast, todo'[i])
      BY <1>2 DEF StackInv, Linked
    <3>2. ast[todo'[i].node].kind \in {"call", "print"} /\ todo'[i].node \in 1 .. Len(ast)
      BY <1>2, <2>1, <3>1 DEF Fits
    <3>3. CASE todo'[i].node = This
      BY <1>1, <3>2, <3>3 DEF Settled
    <3>4. CASE \E j \in 1 .. Len(todo) : todo'[i] = todo[j] /\ todo[j].node # This
      <4>1. PICK j \in 1 .. Len(todo) : todo'[i] = todo[j] /\ todo[j].node # This
        BY <3>4
      <4>2. type[todo[j].node] # Null
        BY <1>2, <2>1, <4>1 DEF Accepting, PendingTyped
      <4> QED BY <1>5, <3>2, <4>1, <4>2
    <3> QED BY <1>3, <2>1, <3>3, <3>4 DEF OthersStay
  <2> QED BY <1>2, <2>1 DEF PendingTyped
<1> QED BY <1>7, <1>8, <1>9, <1>10, <1>11 DEF Accepting

-------------------------------------------------------------------------------
(* The walk of the generator, which stays out of nested functions          *)

LEMMA HiddenFacts ==
  ASSUME NEW p, IsProgram(p)
  PROVE  /\ ~Hidden(p, 1)
         /\ \A n \in 2 .. Len(p) :
              (p[n].kind # "fn" \/ n \in Children(p, 1)) /\ Hidden(p, n) => Hidden(p, Par(p, n))
         /\ \A n \in 1 .. Len(p) :
              p[n].kind = "fn" /\ n \notin Children(p, 1) => \A m : Inside(p, n, m) => Hidden(p, m)
<1>1. Len(p) \in Nat \ {0} /\ p[1].kind = "program"
  BY ProgramFacts, RootIsAround
<1>2. ~Hidden(p, 1)
  <2> SUFFICES ASSUME NEW g \in 2 .. Len(p), Inside(p, g, 1) PROVE FALSE
    BY DEF Hidden
  <2> QED BY <1>1 DEF Inside
<1>3. ASSUME NEW n \in 2 .. Len(p), p[n].kind # "fn" \/ n \in Children(p, 1), Hidden(p, n)
      PROVE  Hidden(p, Par(p, n))
  <2>1. PICK g \in 2 .. Len(p) : p[g].kind = "fn" /\ g \notin Children(p, 1) /\ Inside(p, g, n)
    BY <1>3 DEF Hidden
  <2>2. g # n /\ g \in 1 .. Len(p)
    BY <1>1, <1>3, <2>1
  <2>3. Inside(p, g, Par(p, n))
    BY <2>1, <2>2, InsideParent
  <2> QED BY <2>1, <2>3 DEF Hidden
<1>4. ASSUME NEW n \in 1 .. Len(p), p[n].kind = "fn", n \notin Children(p, 1), NEW m, Inside(p, n, m)
      PROVE  Hidden(p, m)
  <2>1. n # 1
    BY <1>1, <1>4
  <2>2. n \in 2 .. Len(p)
    BY <1>1, <2>1
  <2> QED BY <1>4, <2>2 DEF Hidden
<1> QED BY <1>2, <1>3, <1>4

(* What a node that is not hidden can name is not hidden. *)
LEMMA ShownDeclaration ==
  ASSUME NEW p, IsProgram(p), NEW d \in 1 .. Len(p), p[d].kind \in Variables,
         NEW n \in 1 .. Len(p), Inside(p, HomeOf(p, d), n), ~Hidden(p, n)
  PROVE  ~Hidden(p, d)
<1> SUFFICES ASSUME Hidden(p, d) PROVE FALSE
  OBVIOUS
<1>1. PICK g \in 2 .. Len(p) : p[g].kind = "fn" /\ g \notin Children(p, 1) /\ Inside(p, g, d)
  BY DEF Hidden
<1> DEFINE a == Around(p, d)
<1>2. HomeOf(p, d) = a
  BY NamedFacts DEF HomeOf, Variables
<1>3. g \in 1 .. Len(p) /\ Scoped(p, g) /\ Len(p) \in Nat
  BY <1>1, ProgramFacts DEF Scoped, WithBody
<1>4. a \in 1 .. d /\ g <= a
  BY <1>1, <1>3, AroundFacts
<1>5. Inside(p, a, n)
  BY <1>2
<1> HIDE DEF a
<1>6. End(p, g) \in g .. Len(p) /\ d \in g .. End(p, g)
  BY <1>1, <1>3, EndFacts DEF Inside
<1>7. Inside(p, g, a)
  BY <1>3, <1>4, <1>6 DEF Inside
<1>8. a \in 1 .. Len(p) /\ End(p, a) <= End(p, g) /\ End(p, a) \in a .. Len(p)
  BY <1>3, <1>7, NestedSubtrees
<1>9. n \in a .. End(p, a)
  BY <1>5 DEF Inside
<1>10. Inside(p, g, n)
  BY <1>3, <1>4, <1>6, <1>8, <1>9 DEF Inside
<1> QED BY <1>1, <1>10 DEF Hidden

(* The generator's stack *)
Shown(p, it) == it.at = "visit" /\ ~Hidden(p, Par(p, it.node))

LEMMA VisitsShown ==
  ASSUME StackInv, todo # <<>>, \A i \in 1 .. Len(todo) : Shown(ast, todo[i]),
         UNCHANGED ast, NEW nodes, ChildList(nodes), nodes = <<>> \/ ~Hidden(ast, This),
         Continue(Visits(nodes))
  PROVE  \A i \in 1 .. Len(todo') : Shown(ast, todo'[i])
<1> DEFINE t == Tail(todo)
           v == Visits(nodes)
<1>1. todo \in Seq(Item) /\ Len(todo) \in Nat \ {0} /\ This \in 1 .. Len(ast) /\ IsProgram(ast)
  BY StackTop, LenProperties, EmptySeq DEF StackInv
<1>2. t \in Seq(Item) /\ Len(t) = Len(todo) - 1 /\ \A i \in 1 .. Len(t) : t[i] = todo[i + 1]
  BY <1>1, HeadTailProperties
<1>3. v \in Seq(Item)
  BY VisitsBranch DEF Branches
<1>4. nodes \in Seq(Nat) /\ Len(nodes) \in Nat /\ DOMAIN nodes = 1 .. Len(nodes)
  BY LenProperties DEF ChildList
<1>5. DOMAIN v = 1 .. Len(v) /\ Len(v) \in Nat /\ DOMAIN v = DOMAIN nodes
  BY <1>3, LenProperties DEF Visits
<1>6. ASSUME NEW i \in 1 .. Len(v)
      PROVE  Shown(ast, v[i])
  <2>1. i \in DOMAIN nodes
    BY <1>5
  <2>2. v[i].at = "visit" /\ v[i].node = nodes[i]
    BY <2>1 DEF Visits, Visit
  <2>3. i \in 1 .. Len(nodes) /\ nodes # <<>>
    BY <1>4, <2>1, EmptySeq
  <2>4. nodes[i] \in Children(ast, This)
    BY <2>3 DEF ChildList
  <2>5. Par(ast, nodes[i]) = This
    BY <1>1, <2>4, OneParent
  <2> QED BY <2>2, <2>3, <2>5 DEF Shown
<1>7. ASSUME NEW i \in 1 .. Len(t)
      PROVE  Shown(ast, t[i])
  <2>1. i + 1 \in 1 .. Len(todo)
    BY <1>1, <1>2
  <2> QED BY <1>2, <2>1
<1>8. todo' = v \o t
  BY DEF Continue
<1> HIDE DEF t, v
<1>9. /\ Len(todo') = Len(v) + Len(t) /\ Len(t) \in Nat
      /\ \A i \in 1 .. Len(todo') : todo'[i] = IF i <= Len(v) THEN v[i] ELSE t[i - Len(v)]
  BY <1>2, <1>3, <1>8, ConcatProperties, LenProperties
<1>10. ASSUME NEW i \in 1 .. Len(todo')
       PROVE  Shown(ast, todo'[i])
  <2>1. CASE i <= Len(v)
    <3>1. i \in 1 .. Len(v)
      BY <1>5, <2>1
    <3> QED BY <1>6, <1>9, <2>1, <3>1
  <2>2. CASE ~(i <= Len(v))
    <3>1. i - Len(v) \in 1 .. Len(t)
      BY <1>5, <1>9, <2>2
    <3> QED BY <1>7, <1>9, <2>2, <3>1
  <2> QED BY <2>1, <2>2
<1> QED BY <1>10

(* The generator visits a node if it is not in a nested function. *)
LEMMA GeneratorShows ==
  ASSUME StackInv, SymbolsInv, WalkInv, GenerateStep
  PROVE  /\ pass = "generate" /\ todo # <<>> /\ Top.at = "visit" /\ UNCHANGED <<ast, pass>>
         /\ This \in 1 .. Len(ast) /\ Frontier = This
         /\ ast[This].kind # "fn" \/ Sym # None => ~Hidden(ast, This)
         /\ \A i \in 1 .. Len(todo) : Shown(ast, todo[i])
<1>1. /\ pass = "generate" /\ todo # <<>> /\ Top.at = "visit" /\ UNCHANGED <<ast, pass>>
  BY DEF GenerateStep, EmitFunction, EmitStorage, EmitOperands, Emitting, At, GeneratorFrame
<1>2. \A i \in 1 .. Len(todo) : Shown(ast, todo[i])
  BY <1>1 DEF WalkInv, Shown
<1>3. /\ This \in 1 .. Len(ast) /\ This \in 2 .. Len(ast) /\ IsProgram(ast)
      /\ todo \in Seq(Item) /\ Top = todo[1] /\ Frontier = Lo(ast, Top)
  BY <1>1, StackTop DEF StackInv
<1>4. Frontier = This
  BY <1>1, <1>3 DEF Lo, This
<1>5. 1 \in 1 .. Len(todo)
  BY <1>1, <1>3, EmptySeq, LenProperties
<1>6. ~Hidden(ast, Par(ast, This))
  BY <1>2, <1>3, <1>5 DEF Shown, This
<1>7. ast[This].kind = "fn" /\ Sym # None => This \in Children(ast, 1)
  BY <1>3, OwnSymbol DEF Sym, Uses
<1>8. ast[This].kind # "fn" \/ Sym # None => ~Hidden(ast, This)
  BY <1>3, <1>6, <1>7, HiddenFacts
<1> QED BY <1>1, <1>2, <1>3, <1>4, <1>8

LEMMA GeneratorWalks ==
  ASSUME StackInv, SymbolsInv, WalkInv, GenerateStep
  PROVE  WalkInv'
<1>1. /\ pass = "generate" /\ todo # <<>> /\ UNCHANGED <<ast, pass>>
      /\ ast[This].kind # "fn" \/ Sym # None => ~Hidden(ast, This)
      /\ \A i \in 1 .. Len(todo) : Shown(ast, todo[i])
  BY GeneratorShows
<1>2. \/ Fail \/ Continue(Visits(<<>>))
      \/ ~Hidden(ast, This) /\ Continue(Visits(Kids(This)))
      \/ ~Hidden(ast, This) /\ ast[This].kind = "assign" /\ Continue(Visits(Tail(Kids(This))))
  <2>1. CASE EmitFunction
    BY <1>1, <2>1, VisitsFew DEF EmitFunction
  <2>2. CASE EmitStorage
    BY <1>1, <2>2 DEF EmitStorage, Emitting, At, Node
  <2>3. CASE EmitOperands
    BY <1>1, <2>3 DEF EmitOperands, Emitting, At, Node
  <2> QED BY <2>1, <2>2, <2>3 DEF GenerateStep
<1>3. ChildList(<<>>) /\ ChildList(Kids(This))
      /\ (Len(Kids(This)) > 0 => ChildList(Tail(Kids(This))))
  BY <1>1, ChildLists
<1>4. ast[This].kind = "assign" => Len(Kids(This)) > 0
  <2>1. Arranged(ast, This) /\ Kids(This) = ast[This].kids
    BY <1>1, NodeFacts
  <2>2. ast[This].kind = "assign" => Len(ast[This].kids) = 2
    BY <2>1 DEF Arranged
  <2> QED BY <2>1, <2>2
<1>5. \A i \in 1 .. Len(todo') : Shown(ast, todo'[i])
  <2>1. CASE Fail
    BY <2>1, EmptySeq DEF Fail
  <2>2. CASE Continue(Visits(<<>>))
    BY <1>1, <1>3, <2>2, VisitsShown
  <2>3. CASE ~Hidden(ast, This) /\ Continue(Visits(Kids(This)))
    BY <1>1, <1>3, <2>3, VisitsShown
  <2>4. CASE ~Hidden(ast, This) /\ ast[This].kind = "assign" /\ Continue(Visits(Tail(Kids(This))))
    BY <1>1, <1>3, <1>4, <2>4, VisitsShown
  <2> QED BY <1>2, <2>1, <2>2, <2>3, <2>4
<1> QED BY <1>1, <1>5 DEF WalkInv, Shown

-------------------------------------------------------------------------------
(* A step of the generator does not fail and passes only storage that it has  *)
(* emitted.                                                                *)

Emitted ==
  \A m \in Frontier .. Frontier' - 1 :
    m = This \/ ast[m].kind \notin Variables \/ Hidden(ast, m)

LEMMA GeneratorFacts ==
  ASSUME Ready, GenerateStep
  PROVE  /\ StackInv /\ IsProgram(ast) /\ Len(ast) \in Nat /\ SymbolsInv /\ WalkInv /\ FieldsInv
         /\ NamesInv /\ Typeable(ast)
         /\ pass = "generate" /\ todo # <<>> /\ Top.at = "visit" /\ UNCHANGED <<ast, pass, symbol, type, errors>>
         /\ This \in 1 .. Len(ast) /\ This \in 2 .. Len(ast) /\ Frontier = This /\ Node = ast[This]
         /\ Sym = symbol[This] /\ Kids(This) = ast[This].kids /\ Arranged(ast, This)
         /\ ast[This].kind # "fn" \/ Sym # None => ~Hidden(ast, This)
         /\ errors = {} /\ Accepting
         /\ \A n \in 1 .. Len(ast) : Passed(n) /\ (Named(ast, n) => symbol[n] # None)
<1>1. StackInv /\ IsProgram(ast) /\ SymbolsInv /\ WalkInv /\ FieldsInv /\ NamesInv /\ Typeable(ast)
  BY DEF Ready, Consistent, StackInv, NamesInv
<1>2. /\ pass = "generate" /\ todo # <<>> /\ Top.at = "visit" /\ UNCHANGED <<ast, pass>>
      /\ This \in 1 .. Len(ast) /\ Frontier = This
      /\ ast[This].kind # "fn" \/ Sym # None => ~Hidden(ast, This)
  BY <1>1, GeneratorShows
<1>3. UNCHANGED <<symbol, type, errors>>
  BY DEF GenerateStep, EmitFunction, EmitStorage, EmitOperands, GeneratorFrame
<1>4. /\ Node = ast[This] /\ Kids(This) = ast[This].kids /\ Arranged(ast, This)
      /\ This \in 2 .. Len(ast) /\ Len(ast) \in Nat
  BY <1>1, <1>2, NodeFacts, StackTop
<1>5. errors = {} /\ Accepting
  BY <1>2 DEF Ready, Consistent, Generating
<1>6. \A n \in 1 .. Len(ast) : Passed(n) /\ (Named(ast, n) => symbol[n] # None)
  BY <1>2, <1>5 DEF Passed, Accepting, Resolved, Reached
<1> QED BY <1>1, <1>2, <1>3, <1>4, <1>5, <1>6 DEF Sym

LEMMA StorageEmitted ==
  ASSUME Ready, EmitStorage
  PROVE  /\ UNCHANGED fault /\ Emitted
         /\ symbol[This] # None /\ arena'[symbol[This]].op = This
<1>1. GenerateStep
  BY DEF GenerateStep
<1>2. ast[This].kind \in {"let", "param", "for"} /\ ast[This].kind \notin Uses
  BY <1>1, GeneratorFacts DEF EmitStorage, Emitting, At, Uses
<1>3. symbol[This] # None
  BY <1>1, <1>2, GeneratorFacts DEF Named, Declares, Variables
<1>4. Typed(This)
  BY <1>1, <1>2, GeneratorFacts DEF Accepting, VariablesTyped, Variables
<1>5. SymbolType(Sym) \in {"number", "bool"}
  BY <1>1, <1>3, <1>4, GeneratorFacts DEF Typed, SymbolType, Valued
<1>6. SetOp(This) /\ Continue(Visits(Kids(This))) /\ UNCHANGED fault
  BY <1>5 DEF EmitStorage
<1>7. Skips
  BY <1>1, <1>6, GeneratorFacts, AllKids DEF Descends
<1>8. Emitted
  BY <1>7 DEF Skips, Emitted, Variables
<1>9. arena'[symbol[This]].op = This
  <2> DEFINE s == symbol[This]
  <2>1. s \in DOMAIN arena /\ arena[s].node = This
    BY <1>1, <1>2, <1>3, GeneratorFacts, OwnSymbol
  <2>2. arena' = [arena EXCEPT ![s].op = This]
    BY <1>6 DEF SetOp
  <2>3. arena \in Seq(Symbol) /\ \A r \in DOMAIN arena : Apt(ast, arena[r])
    BY <1>1, GeneratorFacts DEF FieldsInv, Ready, ValuesInv
  <2> HIDE DEF s
  <2>4. arena'[s].op = This
    BY <2>1, <2>2, <2>3, ArenaGrows
  <2> QED BY <2>4 DEF s
<1> QED BY <1>3, <1>6, <1>8, <1>9

(* What a use in the text of a shown node names has its operation. *)
LEMMA UseHasOp ==
  ASSUME Ready, GenerateStep, NEW n \in 1 .. Len(ast), ast[n].kind \in Uses, ~Hidden(ast, n),
         n = This \/ n = This + 1, ast[This].kind \notin Variables
  PROVE  /\ symbol[n] # None /\ symbol[n] \in DOMAIN arena
         /\ ast[n].kind = "var" => HasStorage(n)
         /\ ast[n].kind = "call" => OpKind(n) = "fn" /\ ~arena[symbol[n]].mutable
<1>1. symbol[n] # None
  BY GeneratorFacts DEF Named
<1>2. PICK d \in 1 .. Len(ast) :
         /\ symbol[n] = symbol[d] /\ symbol[d] # None
         /\ symbol[d] \in DOMAIN arena /\ arena[symbol[d]].node = d
         /\ ast[n].kind = "call" => d \in Children(ast, 1)
         /\ ast[n].kind = "var" => /\ ast[d].kind \in Variables /\ d < n
                                   /\ Inside(ast, HomeOf(ast, d), n)
  BY <1>1, GeneratorFacts, UseMeans
<1>3. d # None
  BY <1>2 DEF None
<1>4. ASSUME ast[n].kind = "var"
      PROVE  HasStorage(n)
  <2>1. ast[d].kind \in Variables /\ d < n /\ ~Hidden(ast, d)
    BY <1>2, <1>4, GeneratorFacts, ShownDeclaration
  <2>2. d # This
    BY <2>1
  <2>3. d < Frontier
    BY <2>1, <2>2, GeneratorFacts
  <2>4. arena[symbol[d]].op = d
    BY <2>1, <2>3, GeneratorFacts DEF Ready, Consistent, Generating
  <2> QED BY <1>1, <1>2, <1>3, <2>1, <2>4 DEF HasStorage, OpKind, Variables
<1>5. ASSUME ast[n].kind = "call"
      PROVE  OpKind(n) = "fn" /\ ~arena[symbol[n]].mutable
  <2>1. d \in Children(ast, 1)
    BY <1>2, <1>5
  <2>2. ast[d].kind = "fn"
    BY <2>1, GeneratorFacts, NamedFacts
  <2>3. arena[symbol[d]].op = d
    BY <2>1, GeneratorFacts DEF Ready, Consistent, Generating
  <2>4. Apt(ast, arena[symbol[d]])
    BY <1>2, GeneratorFacts DEF FieldsInv
  <2>5. ~arena[symbol[d]].mutable
    BY <1>2, <2>2, <2>4 DEF Apt
  <2> QED BY <1>1, <1>2, <1>3, <2>2, <2>3, <2>5 DEF OpKind
<1> QED BY <1>1, <1>2, <1>4, <1>5

LEMMA OperandsEmittable ==
  ASSUME Ready, EmitOperands
  PROVE  Emittable
<1>1. GenerateStep
  BY DEF GenerateStep
<1>2. /\ ast[This].kind \in {"block", "if", "while", "return", "print", "literal", "add", "var", "call", "assign"}
      /\ ast[This].kind \notin Variables /\ ast[This].kind # "fn"
  BY <1>1, GeneratorFacts DEF EmitOperands, Emitting, At, Variables
<1>3. ~Hidden(ast, This) /\ This \in 1 .. Len(ast) /\ This \in 2 .. Len(ast) /\ Node = ast[This]
  BY <1>1, <1>2, GeneratorFacts
<1>4. CASE ast[This].kind = "var"
  <2>1. HasStorage(This)
    BY <1>1, <1>2, <1>3, <1>4, UseHasOp DEF Uses
  <2> QED BY <1>3, <1>4, <2>1 DEF Emittable
<1>5. CASE ast[This].kind = "call"
  <2>1. OpKind(This) = "fn"
    BY <1>1, <1>2, <1>3, <1>5, UseHasOp DEF Uses
  <2> QED BY <1>3, <1>5, <2>1 DEF Emittable
<1>6. CASE ast[This].kind = "assign"
  <2> DEFINE t == ast[This].kids[1]
  <2>1. Len(ast[This].kids) = 2 /\ ast[t].kind \in Expressions /\ Kids(This)[1] = t
    BY <1>1, <1>6, GeneratorFacts DEF Arranged
  <2>2. t = This + 1 /\ t \in Children(ast, This)
    BY <1>1, <1>3, <2>1, GeneratorFacts, KidsTile, KidFacts
  <2>3. t \in 1 .. Len(ast) /\ t \in 2 .. Len(ast) /\ Par(ast, t) = This
    BY <1>1, <1>3, <2>2, GeneratorFacts, KidFacts, OneParent
  <2> HIDE DEF t
  <2>4. ~Hidden(ast, t)
    <3>1. ast[t].kind # "fn"
      BY <2>1 DEF Expressions
    <3> QED BY <1>1, <1>3, <2>3, <3>1, GeneratorFacts, HiddenFacts
  <2>5. symbol[t] # None /\ arena[symbol[t]].mutable
    BY <1>1, <1>3, <1>6, GeneratorFacts DEF Accepting, TargetsMutable, t
  <2>6. ast[t].kind \in Uses
    <3>1. Declares(ast, t) \/ ast[t].kind \in Uses
      BY <1>1, <2>3, <2>5, GeneratorFacts DEF SymbolsInv
    <3>2. Declares(ast, t) => ast[t].kind \in {"let", "param", "for", "fn"}
      BY <1>1, <2>3, GeneratorFacts, NamedFacts DEF Declares, Variables
    <3> QED BY <2>1, <3>1, <3>2 DEF Expressions
  <2>7. ast[t].kind = "var"
    BY <1>1, <1>2, <2>2, <2>3, <2>4, <2>5, <2>6, UseHasOp DEF Uses
  <2>8. HasStorage(t)
    BY <1>1, <1>2, <2>2, <2>3, <2>4, <2>6, <2>7, UseHasOp
  <2> QED BY <1>3, <1>6, <2>1, <2>5, <2>8 DEF Emittable
<1>7. CASE ast[This].kind \notin {"var", "call", "assign"}
  BY <1>3, <1>7 DEF Emittable
<1> QED BY <1>4, <1>5, <1>6, <1>7

LEMMA OperandsEmitted ==
  ASSUME Ready, EmitOperands
  PROVE  UNCHANGED <<fault, arena>> /\ Emitted /\ ast[This].kind \notin Variables
<1>1. GenerateStep
  BY DEF GenerateStep
<1>2. /\ ast[This].kind \in {"block", "if", "while", "return", "print", "literal", "add", "var", "call", "assign"}
      /\ ast[This].kind \notin Variables
  BY <1>1, GeneratorFacts DEF EmitOperands, Emitting, At, Variables
<1>3. /\ Continue(Visits(IF ast[This].kind = "assign" THEN Tail(Kids(This)) ELSE Kids(This)))
      /\ UNCHANGED <<fault, arena>>
  BY <1>1, OperandsEmittable, GeneratorFacts DEF EmitOperands
<1>4. CASE ast[This].kind # "assign"
  <2>1. Continue(Visits(Kids(This)))
    BY <1>3, <1>4
  <2>2. Skips
    BY <1>1, <2>1, GeneratorFacts, AllKids DEF Descends
  <2> QED BY <1>2, <1>3, <2>2 DEF Skips, Emitted, Variables
<1>5. CASE ast[This].kind = "assign"
  <2> DEFINE t == ast[This].kids[1]
             v == Visits(Tail(ast[This].kids))
  <2>1. Len(ast[This].kids) = 2 /\ ast[t].kind \in Expressions
    BY <1>1, <1>5, GeneratorFacts DEF Arranged
  <2>2. t = This + 1 /\ t \in 1 .. Len(ast) /\ End(ast, t) \in t .. Len(ast)
    <3>1. t = This + 1 /\ t \in Children(ast, This)
      BY <1>1, <2>1, GeneratorFacts, KidsTile, KidFacts
    <3>2. t \in 1 .. Len(ast)
      BY <1>1, <3>1, GeneratorFacts, KidFacts
    <3> QED BY <1>1, <3>1, <3>2, GeneratorFacts, EndFacts
  <2>3. Follows(ast, End(ast, This), Rest)
    BY <1>1, GeneratorFacts, StackTop DEF Hi, This
  <2>4. Linked(ast, v, Rest) /\ Follows(ast, End(ast, t), LoOf(ast, v, Rest))
    BY <1>1, <2>1, <2>3, GeneratorFacts, TailLinked
  <2>5. Continue(v)
    BY <1>1, <1>3, <1>5, GeneratorFacts
  <2> HIDE DEF v, t
  <2>6. Follows(ast, End(ast, t), Frontier')
    BY <1>1, <2>4, <2>5, GeneratorFacts, Continues
  <2>7. ASSUME NEW m \in Frontier .. Frontier' - 1
        PROVE  m = This \/ ast[m].kind \notin Variables
    <3>1. Frontier = This /\ This \in Nat /\ Len(ast) \in Nat
      BY <1>1, GeneratorFacts
    <3>2. m = This \/ m \in t .. End(ast, t) \/ (m = End(ast, t) + 1 /\ Bare(ast, m))
      BY <2>2, <2>6, <2>7, <3>1 DEF Follows
    <3>3. ASSUME m \in t .. End(ast, t)
          PROVE  ast[m].kind \in Expressions
      <4>1. m \in 1 .. Len(ast) /\ Inside(ast, t, m)
        BY <2>2, <3>1, <3>3 DEF Inside
      <4> QED BY <1>1, <2>1, <2>2, <4>1, GeneratorFacts, BelowExpression DEF t
    <3> QED BY <3>2, <3>3 DEF Expressions, Variables, Bare
  <2> QED BY <1>2, <1>3, <2>7 DEF Emitted
<1> QED BY <1>4, <1>5

(* A function that is not generated is within another. *)
LEMMA FunctionEmitted ==
  ASSUME Ready, EmitFunction
  PROVE  UNCHANGED <<fault, arena>> /\ Emitted /\ ast[This].kind \notin Variables
<1>1. GenerateStep
  BY DEF GenerateStep
<1>2. ast[This].kind = "fn" /\ UNCHANGED <<fault, arena>>
  BY <1>1, GeneratorFacts DEF EmitFunction, Emitting, At
<1>3. CASE Sym # None
  <2>1. Continue(Visits(Kids(This)))
    BY <1>3 DEF EmitFunction
  <2>2. Skips
    BY <1>1, <2>1, GeneratorFacts, AllKids DEF Descends
  <2> QED BY <1>2, <2>2 DEF Skips, Emitted, Variables
<1>4. CASE Sym = None
  <2>1. Continue(<<>>) /\ This \notin Children(ast, 1)
    BY <1>1, <1>4, GeneratorFacts DEF EmitFunction, Named, Declares
  <2>2. Follows(ast, End(ast, This), Frontier')
    BY <1>1, <2>1, GeneratorFacts, StackTop, Finishes DEF Hi, This
  <2>3. End(ast, This) \in This .. Len(ast) /\ Frontier = This /\ Len(ast) \in Nat /\ This \in Nat
    BY <1>1, GeneratorFacts, EndFacts
  <2>4. ASSUME NEW m \in Frontier .. Frontier' - 1
        PROVE  Inside(ast, This, m) \/ Bare(ast, m)
    BY <2>2, <2>3, <2>4 DEF Follows, Inside
  <2>5. \A m : Inside(ast, This, m) => Hidden(ast, m)
    BY <1>1, <1>2, <2>1, GeneratorFacts, HiddenFacts
  <2> QED BY <1>2, <2>4, <2>5 DEF Emitted, Bare, Variables
<1> QED BY <1>3, <1>4

LEMMA GeneratorGenerates ==
  ASSUME Ready, GenerateStep
  PROVE  Generating'
<1>1. /\ pass = "generate" /\ UNCHANGED <<ast, pass, symbol, type, errors>> /\ Generating
      /\ IsProgram(ast) /\ This \in 1 .. Len(ast) /\ Frontier = This /\ Len(ast) \in Nat
      /\ StackInv /\ ValuesInv /\ SymbolsInv /\ FieldsInv
      /\ \A n \in 1 .. Len(ast) : Named(ast, n) => symbol[n] # None
  BY GeneratorFacts DEF Ready, Consistent
<1>2. Grown
  BY <1>1, LaterGrows DEF LaterStep
<1>3. /\ UNCHANGED fault /\ Emitted
      /\ ast[This].kind \in Variables => arena'[symbol[This]].op = This
  BY StorageEmitted, OperandsEmitted, FunctionEmitted DEF GenerateStep
<1>4. ASSUME NEW n \in 1 .. Len(ast), Declares(ast, n), arena[symbol[n]].op = n
      PROVE  arena'[symbol[n]].op = n
  <2>1. symbol[n] # None
    BY <1>1, <1>4 DEF Named
  <2>2. symbol[n] \in DOMAIN arena
    BY <1>1, <2>1, SymbolTypes
  <2>3. n # None
    BY DEF None
  <2> QED BY <1>2, <1>4, <2>2, <2>3 DEF Grown, Grows
<1>5. fault' = None /\ errors' = {}
  BY <1>1, <1>3 DEF Generating
<1>6. ASSUME NEW k \in Children(ast, 1)
      PROVE  arena'[symbol[k]].op = k
  <2>1. k \in 1 .. Len(ast) /\ Declares(ast, k)
    BY <1>1, KidFacts, RootIsAround DEF Declares
  <2>2. arena[symbol[k]].op = k
    BY <1>1 DEF Generating
  <2> QED BY <1>4, <2>1, <2>2
<1>7. ASSUME NEW d \in 1 .. Len(ast), ast[d].kind \in Variables, d < Frontier', ~Hidden(ast, d)
      PROVE  arena'[symbol[d]].op = d
  <2>1. CASE d < Frontier
    <3>1. arena[symbol[d]].op = d
      BY <1>1, <1>7, <2>1 DEF Generating
    <3> QED BY <1>4, <1>7, <3>1 DEF Declares
  <2>2. CASE ~(d < Frontier)
    <3>1. Frontier' \in Nat
      <4>1. StackInv'
        BY <1>1, EmitStack DEF GenerateStep
      <4> QED BY <4>1, FrontierIsNat DEF StackInv, Frontier
    <3>2. d \in Frontier .. Frontier' - 1
      <4>1. Frontier \in Nat /\ d \in Nat
        BY <1>1
      <4>2. d < Frontier'
        BY <1>7
      <4>3. \A x, a, b \in Nat : ~(x < a) /\ x < b => x \in a .. b - 1
        OBVIOUS
      <4> QED BY <2>2, <3>1, <4>1, <4>2, <4>3, Zenon
    <3>3. d = This
      BY <1>3, <1>7, <3>2 DEF Emitted
    <3> QED BY <1>3, <1>7, <3>3
  <2> QED BY <2>1, <2>2
<1> QED BY <1>1, <1>5, <1>6, <1>7 DEF Generating

(* The steps of the passes that type nothing. *)
LEMMA QuietAccepts ==
  ASSUME Ready, LaterStep, ~CheckStep, Accepting
  PROVE  Accepting'
<1>1. /\ StackInv /\ ValuesInv /\ SymbolsInv /\ FieldsInv /\ IsProgram(ast) /\ Len(ast) \in Nat
  BY ProgramFacts DEF Ready, Consistent, NamesInv, StackInv
<1>2. /\ UNCHANGED <<ast, pass, symbol, type>> /\ pass \in {"sign", "declare", "generate"}
  BY DEF LaterStep, ResolveSignature, DeclareFunction, GenerateStep, EmitFunction, EmitStorage,
         EmitOperands, GeneratorFrame, CheckerFrame, At, Emitting
<1>3. Grown
  BY <1>1, LaterGrows
<1>4. \A n : Passed(n)' <=> Passed(n)
  BY <1>2 DEF Passed
<1>5. Resolved'
  BY <1>2 DEF Accepting, Resolved, Reached
<1>6. ExpressionsTyped'
  BY <1>2, <1>4 DEF Accepting, ExpressionsTyped
<1>7. VariablesTyped'
  <2>1. ASSUME NEW d \in 1 .. Len(ast), ast[d].kind \in Variables, Passed(d)
        PROVE  Typed(d)'
    <3>1. Typed(d)
      BY <2>1 DEF Accepting, VariablesTyped
    <3> QED BY <1>1, <1>2, <1>3, <2>1, <3>1, GrownTyped
  <2> QED BY <1>2, <1>4, <2>1 DEF VariablesTyped
<1>8. TargetsMutable'
  <2>1. ASSUME NEW n \in 1 .. Len(ast), ast[n].kind = "assign", Passed(n)
        PROVE  LET target == symbol[ast[n].kids[1]] IN target # None /\ arena'[target].mutable
    <3> DEFINE k == ast[n].kids[1]
               target == symbol[k]
    <3>1. target # None /\ arena[target].mutable
      BY <2>1 DEF Accepting, TargetsMutable
    <3>2. k \in 1 .. Len(ast)
      <4>1. Len(ast[n].kids) = 2
        BY <1>1, <2>1, ProgramFacts DEF IsProgram, Arranged
      <4>2. k \in Children(ast, n)
        BY <1>1, <4>1, KidFacts
      <4> QED BY <1>1, <4>2, KidFacts
    <3>3. target \in DOMAIN arena
      BY <1>1, <3>1, <3>2, SymbolTypes
    <3> QED BY <1>3, <3>1, <3>3 DEF Grown, Grows
  <2> QED BY <1>2, <1>4, <2>1 DEF TargetsMutable
<1>9. PendingTyped'
  BY <1>2 DEF PendingTyped
<1> QED BY <1>5, <1>6, <1>7, <1>8, <1>9 DEF Accepting

(* genProgram has given every function before its own operation. *)
LEMMA DeclareGenerates ==
  ASSUME Ready, DeclareFunction
  PROVE  Generating'
<1>1. /\ StackInv /\ ValuesInv /\ SymbolsInv /\ FieldsInv /\ IsProgram(ast) /\ Generating
  BY DEF Ready, Consistent, NamesInv, StackInv
<1>2. /\ pass = "declare" /\ UNCHANGED <<ast, pass, symbol, errors, fault>>
      /\ ast[This].kind = "fn" /\ arena' = [arena EXCEPT ![Sym].op = This]
  BY DEF DeclareFunction, At, GeneratorFrame, SetOp, Node, Sym
<1>3. todo # <<>> /\ This \in Children(ast, 1)
  BY <1>1, FlatStack DEF FlatStep
<1>4. /\ This \in 1 .. Len(ast)
      /\ \A k \in Children(ast, 1) : k \in 1 .. Len(ast) /\ Declares(ast, k)
  BY <1>1, <1>3, KidFacts, RootIsAround DEF Declares
<1>5. \A n \in 1 .. Len(ast) : Named(ast, n) => symbol[n] # None
  <2>1. Resolved
    BY <1>1, <1>2 DEF Ready, Consistent, Generating, Accepting
  <2> QED BY <1>2, <2>1 DEF Resolved, Reached
<1>6. \A n \in 1 .. Len(ast) : Declares(ast, n) => symbol[n] # None
  BY <1>5 DEF Named
<1>7. Grown /\ arena'[symbol[This]].op = This
  <2> DEFINE s == symbol[This]
  <2>1. s \in DOMAIN arena /\ arena[s].node = This
    BY <1>1, <1>2, <1>3, <1>4, <1>6, OwnSymbol DEF Uses
  <2>2. arena' = [arena EXCEPT ![s].op = This]
    BY <1>2 DEF Sym
  <2>3. arena \in Seq(Symbol) /\ \A r \in DOMAIN arena : Apt(ast, arena[r])
    BY <1>1 DEF FieldsInv, ValuesInv
  <2> HIDE DEF s
  <2>4. Grown /\ arena'[s].op = This
    BY <2>1, <2>2, <2>3, ArenaGrows
  <2> QED BY <2>4 DEF s
<1>8. ASSUME NEW k \in Children(ast, 1), k < Frontier'
      PROVE  arena'[symbol[k]].op = k
  <2>1. CASE k = This
    BY <1>7, <2>1
  <2>2. CASE k # This
    <3>1. k < Frontier
      BY <1>1, <1>8, <2>2, FlatReaches DEF FlatStep
    <3>2. arena[symbol[k]].op = k
      BY <1>1, <1>2, <3>1 DEF Generating
    <3>3. symbol[k] \in DOMAIN arena
      BY <1>1, <1>4, <1>6, SymbolTypes
    <3>4. k # None
      BY <1>4 DEF None
    <3> QED BY <1>7, <3>2, <3>3, <3>4 DEF Grown, Grows
  <2> QED BY <2>1, <2>2
<1> QED BY <1>1, <1>2, <1>8 DEF Generating

LEMMA LaterConsistent ==
  ASSUME Ready, StackInv', LaterStep, UNCHANGED fault \/ GenerateStep
  PROVE  Consistent'
<1>1. /\ StackInv /\ ValuesInv /\ NamesInv /\ SymbolsInv /\ Typeable(ast) /\ FieldsInv
      /\ Signatures /\ WalkInv /\ Generating /\ IsProgram(ast)
  BY DEF Ready, Consistent, NamesInv, StackInv
<1>2. /\ UNCHANGED <<ast, pass>> /\ todo # <<>>
  BY LaterFrame
<1>3. FieldsInv' /\ Signatures'
  BY <1>1, LaterFields, LaterSignatures
<1>4. errors' = {} => Accepting'
  <2> SUFFICES ASSUME errors' = {} PROVE Accepting'
    OBVIOUS
  <2>1. CASE CheckStep
    BY <2>1, CheckAccepts
  <2>2. CASE ~CheckStep
    <3>1. Accepting
      BY ErrorsStay DEF Ready, Consistent
    <3> QED BY <2>2, <3>1, QuietAccepts
  <2> QED BY <2>1, <2>2
<1>5. CASE GenerateStep
  BY <1>1, <1>3, <1>4, <1>5, GeneratorWalks, GeneratorGenerates DEF Consistent
<1>6. CASE DeclareFunction
  <2>1. pass = "declare"
    BY <1>6 DEF DeclareFunction, At
  <2>2. WalkInv'
    BY <1>2, <2>1 DEF WalkInv
  <2> QED BY <1>3, <1>4, <1>6, <2>2, DeclareGenerates DEF Consistent
<1>7. CASE CheckStep \/ ResolveSignature
  <2>1. pass \in {"sign", "check"} /\ UNCHANGED fault
    <3>1. pass \in {"sign", "check"}
      BY <1>7 DEF CheckStep, CheckLast, ResolveSignature, CheckFunction, LeaveFunction, CheckLet,
                  LeaveLet, CheckLeaf, CheckChildren, CheckCondition, CheckRange, LeaveAdd,
                  LeaveAssign, CheckCall, CheckArgument, LeavePrint, LeaveReturn, At
    <3>2. ~GenerateStep
      BY <3>1 DEF GenerateStep, EmitFunction, EmitStorage, EmitOperands, Emitting, At
    <3> QED BY <3>1, <3>2
  <2>2. WalkInv'
    <3>1. pass = "check" => CheckStep
      BY <1>7 DEF ResolveSignature, At
    <3>2. pass = "check" => CheckerStack'
      BY <1>1, <3>1, CheckDives DEF WalkInv, Dives, ValuesInv
    <3> QED BY <1>2, <2>1, <3>2 DEF WalkInv
  <2>3. Generating'
    BY <1>1, <1>2, <2>1 DEF Generating
  <2> QED BY <1>3, <1>4, <2>2, <2>3 DEF Consistent
<1> QED BY <1>5, <1>6, <1>7 DEF LaterStep

-------------------------------------------------------------------------------
(* The passes that resolve names: no symbol has a type yet.                *)

ResolverStep ==
  CollectFunction \/ ResolveDeclaration \/ ResolveScope \/ ExitScope \/ ResolveName \/ ResolveChildren

Resolving == Inv /\ Inv' /\ Consistent /\ ResolverStep /\ UNCHANGED fault

LEMMA ResolvingFacts ==
  ASSUME Resolving
  PROVE  /\ StackInv /\ ValuesInv /\ NamesInv /\ IsProgram(ast) /\ Len(ast) \in Nat
         /\ FieldsInv /\ Signatures /\ Generating /\ (errors = {} => Resolved)
         /\ pass \in {"collect", "resolve"} /\ UNCHANGED <<ast, pass, type, returns, fault>>
         /\ todo # <<>>
         /\ SymbolsInv' /\ arena' \in Seq(Symbol)
<1>1. /\ StackInv /\ ValuesInv /\ NamesInv /\ FieldsInv /\ Signatures /\ Generating
      /\ errors = {} => Resolved
  BY DEF Resolving, Inv, Consistent, Accepting
<1>2. SymbolsInv' /\ arena' \in Seq(Symbol)
  BY DEF Resolving, Inv, NamesInv, ValuesInv
<1>3. /\ pass \in {"collect", "resolve"} /\ UNCHANGED <<ast, pass, type, returns, fault>>
      /\ todo # <<>>
  BY DEF Resolving, ResolverStep, CollectFunction, ResolveDeclaration, ResolveScope, ExitScope,
         ResolveName, ResolveChildren, At, ResolverFrame
<1> QED BY <1>1, <1>2, <1>3, ProgramFacts DEF StackInv

(* The symbols that there were and one that has nothing but its node. *)
Fresh(r) == r.type = Null /\ ~r.mutable /\ r.op = None

LEMMA ResolverArena ==
  ASSUME Resolving
  PROVE  \A s \in DOMAIN arena' : (s \in DOMAIN arena /\ arena'[s] = arena[s]) \/ Fresh(arena'[s])
<1>1. arena \in Seq(Symbol)
  BY ResolvingFacts DEF ValuesInv
<1>2. UNCHANGED arena \/ arena' = Append(arena, NewSymbol(This))
  BY DEF Resolving, ResolverStep, CollectFunction, ResolveDeclaration, ResolveScope, ExitScope,
         ResolveName, ResolveChildren, Declare, addSymbol, enterScope, exitScope, tableVars
<1>3. CASE UNCHANGED arena
  BY <1>3
<1>4. CASE arena' = Append(arena, NewSymbol(This))
  <2> DEFINE r == NewSymbol(This)
  <2>1. Fresh(r)
    BY DEF Fresh, NewSymbol
  <2> HIDE DEF r
  <2>2. Len(arena) \in Nat /\ DOMAIN arena = 1 .. Len(arena)
    BY <1>1, LenProperties
  <2>3. /\ DOMAIN Append(arena, r) = 1 .. Len(arena) + 1
        /\ \A i \in 1 .. Len(arena) : Append(arena, r)[i] = arena[i]
        /\ Append(arena, r)[Len(arena) + 1] = r
    BY <1>1
  <2>4. \A s \in 1 .. Len(arena) + 1 : s \in 1 .. Len(arena) \/ s = Len(arena) + 1
    BY <2>2
  <2>5. arena' = Append(arena, r)
    BY <1>4 DEF r
  <2> QED BY <2>1, <2>2, <2>3, <2>4, <2>5
<1> QED BY <1>2, <1>3, <1>4

LEMMA ResolverSigns ==
  ASSUME Resolving
  PROVE  FieldsInv' /\ Signatures'
<1>1. /\ FieldsInv /\ UNCHANGED <<ast, pass, type>> /\ pass \in {"collect", "resolve"}
      /\ \A s \in DOMAIN arena : arena[s].type = Null
      /\ SymbolsInv' /\ IsProgram(ast)
  BY ResolvingFacts DEF Signatures
<1>2. \A s \in DOMAIN arena' : arena'[s].type = Null
  BY <1>1, ResolverArena DEF Fresh
<1>3. ASSUME NEW s \in DOMAIN arena'
      PROVE  Apt(ast, arena'[s])
  <2>1. CASE s \in DOMAIN arena /\ arena'[s] = arena[s]
    BY <1>1, <2>1 DEF FieldsInv
  <2>2. CASE Fresh(arena'[s])
    BY <2>2 DEF Fresh, Apt
  <2> QED BY <2>1, <2>2, ResolverArena
<1>4. FieldsInv'
  BY <1>1, <1>3 DEF FieldsInv
<1>5. ASSUME NEW k \in Children(ast, 1), symbol'[k] # None
      PROVE  arena'[symbol'[k]].type # "function"
  <2>1. k \in 1 .. Len(ast)
    BY <1>1, KidFacts, RootIsAround
  <2>2. symbol'[k] \in 0 .. Len(arena') /\ symbol'[k] # 0
    BY <1>1, <1>5, <2>1 DEF SymbolsInv, None
  <2>3. arena' \in Seq(Symbol)
    BY ResolvingFacts
  <2>4. symbol'[k] \in DOMAIN arena'
    BY <2>2, <2>3, LenProperties
  <2> QED BY <1>2, <2>4 DEF Null
<1>6. Signatures'
  BY <1>1, <1>2, <1>5 DEF Signatures
<1> QED BY <1>4, <1>6

(* A name that gets no symbol is reported. *)
LEMMA DeclaringResolves ==
  ASSUME Resolving, Declaring, errors' = {}
  PROVE  Resolved'
<1>1. /\ Resolved /\ UNCHANGED ast /\ Reaches(This) /\ Declare
      /\ symbol \in [1 .. Len(ast) -> Nat] /\ This \in 1 .. Len(ast) /\ arena \in Seq(Symbol)
  <2>1. errors = {}
    BY DEF Declaring, Declare, Report, Silent
  <2> QED BY <2>1, ResolvingFacts DEF Declaring, ValuesInv
<1>2. symbol' = [symbol EXCEPT ![This] = Len(arena) + 1]
  BY <1>1 DEF Declare, Report
<1>3. Len(arena) + 1 # None
  BY <1>1, LenProperties DEF None
<1>4. ASSUME NEW n \in 1 .. Len(ast), Named(ast, n), Reached(n)'
      PROVE  symbol'[n] # None
  <2>1. CASE n = This
    BY <1>1, <1>2, <1>3, <2>1
  <2>2. CASE n # This
    <3>1. Reached(n)
      BY <1>1, <1>4, <2>2 DEF Reaches
    <3>2. symbol[n] # None
      BY <1>1, <1>4, <3>1 DEF Resolved
    <3> QED BY <1>1, <1>2, <2>2, <3>2
  <2> QED BY <2>1, <2>2
<1> QED BY <1>1, <1>4 DEF Resolved

LEMMA ResolverResolves ==
  ASSUME Resolving, errors' = {}
  PROVE  Resolved'
<1>1. StackInv /\ ValuesInv /\ NamesInv /\ UNCHANGED ast /\ (errors = {} => Resolved)
      /\ symbol \in [1 .. Len(ast) -> Nat]
  BY ResolvingFacts DEF ValuesInv
<1>2. CASE CollectFunction \/ ResolveDeclaration
  BY <1>1, <1>2, CollectDeclares, DeclarationDeclares, DeclaringResolves
<1>3. CASE ResolveScope \/ ExitScope
  <2>1. ReachesNone
    BY <1>1, <1>3, ResolveScopeReaches, ExitScopeReaches
  <2>2. UNCHANGED <<symbol, errors>>
    BY <1>3 DEF ResolveScope, ExitScope, Silent
  <2>3. Resolved
    BY <1>1, <2>2
  <2> QED BY <1>1, <2>1, <2>2, <2>3 DEF Resolved, ReachesNone
<1>4. CASE ResolveName
  <2>1. Reaches(This) /\ This \in 1 .. Len(ast)
    <3>1. NextNode
      BY <1>1, <1>4, NodeStack
    <3> QED BY <1>1, <3>1, NextNodeReaches, StackTop DEF NextNode
  <2>2. /\ symbol' = [symbol EXCEPT ![This] = Lookup(Node.name)]
        /\ Lookup(Node.name) # None /\ UNCHANGED errors
    BY <1>4 DEF ResolveName, Report, Silent
  <2>3. Resolved
    BY <1>1, <2>2
  <2>4. ASSUME NEW n \in 1 .. Len(ast), Named(ast, n), Reached(n)'
        PROVE  symbol'[n] # None
    <3>1. CASE n = This
      BY <1>1, <2>1, <2>2, <3>1
    <3>2. CASE n # This
      <4>1. Reached(n)
        BY <2>1, <2>4, <3>2 DEF Reaches
      <4>2. symbol[n] # None
        BY <2>3, <2>4, <4>1 DEF Resolved
      <4> QED BY <1>1, <2>2, <3>2, <4>2
    <3> QED BY <3>1, <3>2
  <2> QED BY <1>1, <2>4 DEF Resolved
<1>5. CASE ResolveChildren
  <2>1. /\ ast[This].kind \in {"if", "return", "assign", "add", "print", "literal"}
        /\ UNCHANGED <<symbol, errors>> /\ Resolved
    BY <1>1, <1>5 DEF ResolveChildren, At, Node, Silent
  <2>2. Reaches(This) /\ This \in 1 .. Len(ast) /\ IsProgram(ast)
    <3>1. NextNode
      BY <1>1, <1>5, NodeStack
    <3> QED BY <1>1, <3>1, NextNodeReaches, StackTop DEF NextNode, StackInv
  <2>3. ~Named(ast, This)
    BY <2>1, <2>2, NamedFacts DEF Variables, Uses
  <2>4. ASSUME NEW n \in 1 .. Len(ast), Named(ast, n), Reached(n)'
        PROVE  Reached(n)
    BY <2>2, <2>3, <2>4 DEF Reaches
  <2> QED BY <1>1, <2>1, <2>4 DEF Resolved
<1> QED BY <1>2, <1>3, <1>4, <1>5 DEF Resolving, ResolverStep

LEMMA ResolverConsistent ==
  ASSUME Resolving
  PROVE  Consistent'
<1>1. pass \in {"collect", "resolve"} /\ UNCHANGED <<pass, fault>> /\ Generating
  BY ResolvingFacts
<1>2. pass' \notin {"check", "declare", "generate"}
  BY <1>1
<1>3. WalkInv' /\ Generating'
  BY <1>1, <1>2 DEF WalkInv, Generating
<1>4. errors' = {} => Accepting'
  <2> SUFFICES ASSUME errors' = {} PROVE Accepting'
    OBVIOUS
  <2>1. Resolved'
    BY ResolverResolves
  <2>3. \A n : ~Passed(n)'
    BY <1>2 DEF Passed
  <2>4. ExpressionsTyped' /\ VariablesTyped' /\ TargetsMutable' /\ PendingTyped'
    BY <1>2, <2>3 DEF ExpressionsTyped, VariablesTyped, TargetsMutable, PendingTyped
  <2> QED BY <2>1, <2>4 DEF Accepting
<1> QED BY <1>3, <1>4, ResolverSigns DEF Consistent

-------------------------------------------------------------------------------
(* Init and the steps between the passes                                   *)

LEMMA ConsistentInit ==
  ASSUME Init
  PROVE  Consistent
<1>1. Inv
  BY InvInit
<1>2. /\ pass = "collect" /\ fault = None /\ arena = <<>>
      /\ symbol = [n \in 1 .. Len(ast) |-> None] /\ type = [n \in 1 .. Len(ast) |-> Null]
      /\ IsProgram(ast) /\ Len(ast) \in Nat
  <2>1. IsProgram(ast) /\ Nodes = 1 .. Len(ast) /\ Len(ast) \in Nat
    BY <1>1, ProgramFacts DEF Inv, StackInv, Nodes
  <2> QED BY <2>1 DEF Init, AnalysisInit, TableInit
<1>3. DOMAIN arena = {}
  BY <1>2
<1>4. WalkInv /\ Generating
  BY <1>2 DEF WalkInv, Generating
<1>5. FieldsInv
  BY <1>2, <1>3 DEF FieldsInv, Null
<1>6. \A k \in Children(ast, 1) : symbol[k] = None
  <2>1. Children(ast, 1) \subseteq 1 .. Len(ast)
    BY <1>2, KidFacts, RootIsAround
  <2> QED BY <1>2, <2>1
<1>7. Signatures
  BY <1>2, <1>3, <1>6 DEF Signatures
<1>8. \A n \in 1 .. Len(ast) : Named(ast, n) => ~Reached(n)
  <2>1. SUFFICES ASSUME NEW n \in 1 .. Len(ast), Named(ast, n), Reached(n)
                 PROVE  FALSE
    OBVIOUS
  <2>2. n < Frontier
    BY <1>2, <2>1 DEF Reached
  <2>3. Follows(ast, 1, Frontier)
    BY <1>2, FunctionItems DEF Init, AnalysisInit, Frontier
  <2>4. n # 1 /\ ~Bare(ast, n)
    BY <1>2, <2>1, RootIsAround, NamedFacts DEF Named, Uses
  <2> QED BY <1>2, <2>1, <2>2, <2>3, <2>4 DEF Follows
<1>9. Resolved
  BY <1>8 DEF Resolved
<1>10. \A n : ~Passed(n)
  BY <1>2 DEF Passed
<1>11. ExpressionsTyped /\ VariablesTyped /\ TargetsMutable /\ PendingTyped
  BY <1>2, <1>10 DEF ExpressionsTyped, VariablesTyped, TargetsMutable, PendingTyped
<1> QED BY <1>4, <1>5, <1>7, <1>9, <1>11 DEF Consistent, Accepting

(* A pass that begins has nothing behind it but the program. *)
LEMMA StartFacts ==
  ASSUME Inv, Inv', Consistent, StartStep, UNCHANGED fault
  PROVE  /\ StackInv /\ IsProgram(ast) /\ Len(ast) \in Nat /\ SymbolsInv
         /\ UNCHANGED <<tableVars, ast, symbol, type, returns, errors, fault>>
         /\ todo = <<>> /\ Frontier = Len(ast) + 1
         /\ \A n \in 1 .. Len(ast) : n < Frontier' => ast[n].kind \in {"program", "block"}
         /\ todo' = Visits(Kids(1))
         /\ \A i \in 1 .. Len(todo') : todo'[i].at = "visit" /\ todo'[i].node \in Children(ast, 1)
<1>1. /\ StackInv /\ IsProgram(ast) /\ Len(ast) \in Nat /\ SymbolsInv /\ StackInv'
      /\ 1 \in 1 .. Len(ast) /\ ast[1].kind = "program"
  BY ProgramFacts, RootIsAround DEF Inv, StackInv, NamesInv
<1>2. /\ UNCHANGED <<tableVars, ast, symbol, type, returns, errors, fault>> /\ todo = <<>>
      /\ todo' = Visits(Functions) \/ todo' = Visits(Kids(1))
  BY DEF StartStep, NextPass, Accepted, Generate
<1>3. Functions = Kids(1) /\ Kids(1) = ast[1].kids
  BY <1>1, FunctionsAreKids DEF Kids
<1>4. Frontier = Len(ast) + 1
  BY <1>2 DEF Frontier, LoOf
<1>5. /\ Follows(ast, 1, LoOf(ast, Visits(Kids(1)), Len(ast) + 1)) /\ Flat(Visits(Kids(1)))
  BY <1>1, <1>3, FunctionItems
<1>6. todo' = Visits(Kids(1))
  BY <1>2, <1>3
<1>7. Frontier' = LoOf(ast, Visits(Kids(1)), Len(ast) + 1)
  BY <1>2, <1>6 DEF Frontier
<1>8. ASSUME NEW n \in 1 .. Len(ast), n < Frontier'
      PROVE  ast[n].kind \in {"program", "block"}
  <2>1. n = 1 \/ (n = 2 /\ Bare(ast, 2))
    BY <1>1, <1>5, <1>7, <1>8 DEF Follows
  <2> QED BY <1>1, <2>1 DEF Bare
<1> QED BY <1>1, <1>2, <1>4, <1>5, <1>6, <1>8 DEF Flat

LEMMA StartAccepts ==
  ASSUME Inv, Inv', Consistent, StartStep, UNCHANGED fault, errors' = {}
  PROVE  Accepting'
<1>1. /\ StackInv /\ IsProgram(ast) /\ Len(ast) \in Nat
      /\ UNCHANGED <<tableVars, ast, symbol, type, returns, errors, fault>>
      /\ todo = <<>> /\ Frontier = Len(ast) + 1
      /\ \A n \in 1 .. Len(ast) : n < Frontier' => ast[n].kind \in {"program", "block"}
      /\ \A i \in 1 .. Len(todo') : todo'[i].at = "visit"
  BY StartFacts
<1>2. Accepting /\ UNCHANGED arena
  BY <1>1 DEF Consistent, tableVars
<1>3. Resolved'
  <2>1. ASSUME NEW n \in 1 .. Len(ast), Named(ast, n), Reached(n)'
        PROVE  Reached(n)
    <3>1. CASE NextPass
      BY <1>1, <2>1, <3>1, NextPassReaches DEF ReachesNone
    <3>2. CASE Accepted \/ Generate
      BY <3>2 DEF Reached, Accepted, Generate
    <3> QED BY <3>1, <3>2 DEF StartStep
  <2> QED BY <1>1, <1>2, <2>1 DEF Resolved, Accepting
<1>4. ASSUME NEW n \in 1 .. Len(ast), Passed(n)'
      PROVE  Passed(n) \/ ast[n].kind \in {"program", "block"}
  <2>1. CASE NextPass
    <3>1. pass' \notin {"declare", "generate"}
      BY <2>1 DEF NextPass
    <3>2. n < Frontier'
      BY <1>4, <3>1 DEF Passed
    <3> QED BY <1>1, <3>2
  <2>2. CASE Accepted
    <3>1. ~Pending(n)
      BY <1>1 DEF Pending
    <3>2. n < Frontier /\ pass = "check"
      BY <1>1, <2>2 DEF Accepted
    <3> QED BY <3>1, <3>2 DEF Passed
  <2>3. CASE Generate
    BY <2>3 DEF Generate, Passed
  <2> QED BY <2>1, <2>2, <2>3 DEF StartStep
<1>5. ExpressionsTyped'
  BY <1>1, <1>2, <1>4 DEF ExpressionsTyped, Accepting, Expressions
<1>6. VariablesTyped'
  BY <1>1, <1>2, <1>4 DEF VariablesTyped, Accepting, Typed, Variables
<1>7. TargetsMutable'
  BY <1>1, <1>2, <1>4 DEF TargetsMutable, Accepting
<1>8. PendingTyped'
  BY <1>1 DEF PendingTyped
<1> QED BY <1>3, <1>5, <1>6, <1>7, <1>8 DEF Accepting

LEMMA StartWalks ==
  ASSUME Inv, Inv', Consistent, StartStep, UNCHANGED fault
  PROVE  WalkInv'
<1>1. /\ StackInv /\ IsProgram(ast) /\ Len(ast) \in Nat /\ UNCHANGED ast
      /\ todo' = Visits(Kids(1)) /\ 1 \in 1 .. Len(ast)
      /\ \A i \in 1 .. Len(todo') : todo'[i].at = "visit" /\ todo'[i].node \in Children(ast, 1)
  BY StartFacts, RootIsAround
<1>2. ASSUME NEW i \in 1 .. Len(todo')
      PROVE  ~Hidden(ast, Par(ast, todo'[i].node))
  <2>1. Par(ast, todo'[i].node) = 1
    BY <1>1, OneParent
  <2> QED BY <1>1, <2>1, HiddenFacts
<1>3. ASSUME NEW i \in 1 .. Len(todo'), NEW j \in 1 .. Len(todo'), i < j
      PROVE  ~Inside(ast, todo'[i].node, todo'[j].node)
  <2> DEFINE kids == Kids(1)
  <2>1. kids = ast[1].kids /\ kids \in Seq(Nat) /\ DOMAIN kids = 1 .. Len(kids) /\ Len(kids) \in Nat
    BY <1>1, ProgramFacts DEF Kids
  <2>2. \A x, y \in 1 .. Len(kids) : x < y => kids[x] < kids[y]
    <3>1. \A x, y \in 1 .. Len(ast[1].kids) : x < y => ast[1].kids[x] < ast[1].kids[y]
      BY <1>1, KidFacts, Zenon
    <3> QED BY <2>1, <3>1
  <2> HIDE DEF kids
  <2>3. todo' = [x \in 1 .. Len(kids) |-> Visit(kids[x])]
    BY <1>1, <2>1 DEF Visits, kids
  <2>4. Len(todo') = Len(kids)
    BY <2>1, <2>3
  <2>5. todo'[i].node = kids[i] /\ todo'[j].node = kids[j]
    BY <2>3, <2>4 DEF Visit
  <2>6. kids[i] # kids[j]
    <3>1. i \in 1 .. Len(kids) /\ j \in 1 .. Len(kids)
      BY <2>4
    <3>2. kids[i] < kids[j]
      BY <1>3, <2>2, <3>1
    <3>3. kids[i] \in Nat
      BY <2>1, <3>1
    <3>4. ~(kids[i] < kids[i])
      BY <3>3
    <3> QED BY <3>2, <3>4
  <2> QED BY <1>1, <2>5, <2>6, SiblingsApart
<1>4. CheckerStack'
  BY <1>1, <1>3 DEF CheckerStack, Nests, Suits
<1> QED BY <1>1, <1>2, <1>4 DEF WalkInv

LEMMA StartConsistent ==
  ASSUME Inv, Inv', Consistent, StartStep, UNCHANGED fault
  PROVE  Consistent'
<1>1. /\ StackInv /\ IsProgram(ast) /\ Len(ast) \in Nat
      /\ UNCHANGED <<tableVars, ast, symbol, type, returns, errors, fault>>
      /\ todo = <<>> /\ Frontier = Len(ast) + 1
      /\ \A n \in 1 .. Len(ast) : n < Frontier' => ast[n].kind \in {"program", "block"}
  BY StartFacts
<1>2. /\ UNCHANGED arena /\ FieldsInv /\ Signatures /\ Generating
  BY <1>1 DEF Consistent, tableVars
<1>3. \A k \in Children(ast, 1) :
        k \in 1 .. Len(ast) /\ ast[k].kind = "fn" /\ k < Frontier /\ ~(k < Frontier')
  <2>1. \A k \in Children(ast, 1) : k \in 1 .. Len(ast) /\ ast[k].kind = "fn"
    BY <1>1, KidFacts, RootIsAround, NamedFacts
  <2>2. \A k \in Children(ast, 1) : k < Frontier
    BY <1>1, <2>1
  <2>3. \A k \in Children(ast, 1) : ~(k < Frontier')
    BY <1>1, <2>1
  <2> QED BY <2>1, <2>2, <2>3
<1>4. FieldsInv'
  BY <1>1, <1>2 DEF FieldsInv
<1>5. Signatures'
  <2>1. pass' \in {"collect", "resolve"} => pass \in {"collect", "resolve"}
    BY DEF StartStep, NextPass, Accepted, Generate
  <2>2. pass \in {"collect", "resolve"} => pass' \in {"resolve", "sign"}
    BY DEF StartStep, NextPass, Accepted, Generate
  <2>3. ASSUME NEW k \in Children(ast, 1), symbol[k] # None, pass' = "sign" => k < Frontier',
               pass' \notin {"collect", "resolve"}
        PROVE  arena[symbol[k]].type = "function"
    <3>1. pass' # "sign" /\ k < Frontier
      BY <1>3, <2>3
    <3>2. pass \notin {"collect", "resolve"}
      BY <2>2, <2>3, <3>1
    <3> QED BY <1>2, <2>3, <3>1, <3>2 DEF Signatures
  <2> QED BY <1>1, <1>2, <2>1, <2>3 DEF Signatures, Typed
<1>6. Generating'
  <2>1. CASE NextPass
    BY <1>1, <1>2, <2>1 DEF NextPass, Generating
  <2>2. CASE Accepted
    BY <1>1, <1>2, <1>3, <2>2 DEF Accepted, Generating
  <2>3. CASE Generate
    BY <1>1, <1>2, <1>3, <2>3 DEF Generate, Generating, Variables
  <2> QED BY <2>1, <2>2, <2>3 DEF StartStep
<1> QED BY <1>4, <1>5, <1>6, StartAccepts, StartWalks DEF Consistent

-------------------------------------------------------------------------------
(* The invariant of the type checker and the generator *)
ConsistentStep == Inv /\ Inv' /\ Typeable(ast) /\ Consistent

LEMMA ConsistentNext ==
  ASSUME ConsistentStep, [Next]_vars
  PROVE  Consistent'
<1>1. Ready /\ StackInv'
  BY DEF ConsistentStep, Ready, Inv
<1>2. CASE UNCHANGED fault /\ ResolverStep
  BY <1>2, ResolverConsistent DEF ConsistentStep, Resolving
<1>3. CASE LaterStep /\ (UNCHANGED fault \/ GenerateStep)
  BY <1>1, <1>3, LaterConsistent
<1>4. CASE StartStep /\ UNCHANGED fault
  BY <1>4, StartConsistent DEF ConsistentStep
<1>5. CASE UNCHANGED vars
  <2>1. UNCHANGED <<scopes, current, arena, ast, pass, todo, symbol, type, returns, errors, fault>>
    BY <1>5 DEF vars, analysisVars, tableVars
  <2>2. Frontier' = Frontier
    BY <2>1 DEF Frontier
  <2>3. \A n : (Passed(n)' <=> Passed(n)) /\ (Reached(n)' <=> Reached(n)) /\ (Typed(n)' <=> Typed(n))
    BY <2>1, <2>2 DEF Passed, Reached, Pending, Typed
  <2>4. WalkInv' /\ FieldsInv' /\ Generating'
    BY <2>1, <2>2 DEF ConsistentStep, Consistent, WalkInv, CheckerStack, FieldsInv, Generating
  <2>5. Signatures'
    BY <2>1, <2>2, <2>3 DEF ConsistentStep, Consistent, Signatures
  <2>6. errors' = {} => Accepting'
    BY <2>1, <2>3 DEF ConsistentStep, Consistent, Accepting, Resolved, ExpressionsTyped, VariablesTyped,
                      TargetsMutable, PendingTyped
  <2> QED BY <2>4, <2>5, <2>6 DEF Consistent
<1>6. CASE Next
  <2>1. CASE Analyse
    BY <1>2, <1>3, <1>4, <2>1 DEF Analyse, AnalysisNext, ResolverStep, LaterStep, CheckStep, CheckLast, StartStep
  <2>2. CASE DeclareFunction \/ EmitFunction \/ EmitStorage \/ EmitOperands
    <3>1. UNCHANGED fault \/ GenerateStep
      BY <2>2 DEF DeclareFunction, GenerateStep
    <3> QED BY <1>3, <2>2, <3>1 DEF LaterStep, GenerateStep
  <2>3. CASE Accepted \/ Generate
    BY <1>4, <2>3 DEF StartStep, Accepted, Generate
  <2> QED BY <1>6, <2>1, <2>2, <2>3 DEF Next
<1> QED BY <1>5, <1>6

LEMMA ProgramStays ==
  ASSUME [Next]_vars
  PROVE  UNCHANGED ast
BY DEF Next, Analyse, AnalysisNext, Accepted, DeclareFunction, Generate, EmitFunction, EmitStorage,
       EmitOperands, GeneratorFrame, CollectFunction, ResolveScope, ExitScope, ResolveDeclaration,
       ResolveName, ResolveChildren, ResolverFrame, ResolveSignature, CheckFunction, LeaveFunction,
       CheckLet, LeaveLet, CheckLeaf, CheckChildren, CheckCondition, CheckRange, LeaveAdd,
       LeaveAssign, CheckCall, CheckArgument, LeavePrint, LeaveReturn, CheckerFrame, NextPass,
       vars, analysisVars

(* In every state of the analysis and of the walk of MLIRGen over a typeable  *)
(* program: symbols have the types, the mutability and the operations of      *)
(* their declarations; without diagnostics, what the type checker is done     *)
(* with is typed and assignments are to mutable variables; and MLIRGen, that  *)
(* is run without diagnostics only, has not failed.                        *)
THEOREM ConsistentHolds == Spec => [](Typeable(ast) => Consistent)
<1> DEFINE I == Typeable(ast) => Consistent
<1>1. Init => I
  BY ConsistentInit
<1>2. Inv /\ Inv' /\ I /\ [Next]_vars => I'
  <2> SUFFICES ASSUME Inv, Inv', I, [Next]_vars, Typeable(ast)' PROVE Consistent'
    OBVIOUS
  <2>1. UNCHANGED ast
    BY ProgramStays
  <2>2. Typeable(ast)
    BY <2>1
  <2> QED BY <2>2, ConsistentNext DEF ConsistentStep
<1> HIDE DEF I
<1>3. Spec => []I
  BY <1>1, <1>2, InvHolds, PTL DEF Spec
<1> QED BY <1>3 DEF I

-------------------------------------------------------------------------------
(* The properties of the type checker and the generator *)

LEMMA ConsistentDiagnoses ==
  ASSUME Inv, Typeable(ast), Consistent
  PROVE  UntypedIsDiagnosed
<1> SUFFICES ASSUME pass = "check", todo # <<>>, Top.at = "leave", Node.kind = "print", errors = {},
                    NEW i \in DOMAIN Kids(This)
             PROVE  TypeOf(Kids(This)[i]) # Null
  BY DEF UntypedIsDiagnosed
<1>1. StackInv /\ CheckerStack /\ ExpressionsTyped /\ IsProgram(ast)
  BY DEF Inv, Consistent, WalkInv, Accepting, StackInv
<1>2. /\ This \in 1 .. Len(ast) /\ Arranged(ast, This) /\ ast[This].kind = "print"
      /\ Kids(This) = ast[This].kids /\ i \in 1 .. Len(Kids(This))
      /\ Kids(This)[i] \in Children(ast, This)
  BY <1>1, NodeFacts
<1>3. ast[Kids(This)[i]].kind \in Expressions
  BY <1>2 DEF Arranged
<1>4. ~Circular(ast, Kids(This)[i])
  BY <1>1, <1>2, PartsNotCircular DEF Typeable
<1>5. Kids(This)[i] < Frontier
  BY <1>1, <1>2, LeaveFrontier
<1> QED BY <1>1, <1>2, <1>3, <1>4, <1>5, KidTyped

LEMMA ConsistentAssigns ==
  ASSUME Inv, Typeable(ast), Consistent
  PROVE  AssignsDeclaredMut
<1> SUFFICES ASSUME pass = "declare", NEW n \in Nodes, ast[n].kind = "assign"
             PROVE  Visible(Kids(n)[1]) # {} /\ ast[Innermost(Kids(n)[1])].mut
  BY DEF AssignsDeclaredMut
<1> DEFINE t == ast[n].kids[1]
<1>1. /\ IsProgram(ast) /\ NamesInv /\ SymbolsInv /\ FieldsInv /\ Generating /\ TargetsMutable
      /\ Nodes = 1 .. Len(ast)
  BY ProgramFacts DEF Inv, Consistent, Accepting, Generating, StackInv, NamesInv, Nodes
<1>2. Len(ast[n].kids) = 2 /\ ast[t].kind \in Expressions
  BY <1>1 DEF IsProgram, Arranged
<1>3. t \in 1 .. Len(ast)
  <2>1. t \in Children(ast, n)
    BY <1>1, <1>2, KidFacts
  <2> QED BY <1>1, <2>1, KidFacts
<1>4. symbol[t] # None /\ arena[symbol[t]].mutable
  BY <1>1 DEF TargetsMutable, Passed
<1> HIDE DEF t
<1>5. ast[t].kind \in Uses
  <2>1. Declares(ast, t) \/ ast[t].kind \in Uses
    BY <1>1, <1>3, <1>4 DEF SymbolsInv
  <2>2. Declares(ast, t) => ast[t].kind \in {"let", "param", "for", "fn"}
    BY <1>1, <1>3, NamedFacts DEF Declares, Variables
  <2> QED BY <1>2, <2>1, <2>2 DEF Expressions
<1>6. PICK d \in 1 .. Len(ast) :
        /\ Best(ast, t, d) /\ symbol[t] = symbol[d]
        /\ symbol[d] \in DOMAIN arena /\ arena[symbol[d]].node = d
  <2>1. pass \notin {"collect", "resolve"}
    OBVIOUS
  <2> QED BY <1>1, <1>3, <1>4, <1>5, <2>1, UseMeans
<1>7. ast[d].mut
  <2>1. Apt(ast, arena[symbol[d]])
    BY <1>1, <1>6 DEF FieldsInv
  <2> QED BY <1>4, <1>6, <2>1 DEF Apt
<1>8. d \in Seen(ast, t)
  BY <1>6 DEF Best
<1>9. Visible(t) # {} /\ Innermost(t) = d
  BY <1>1, <1>3, <1>6, <1>8, VisibleIsSeen, InnermostIsBest
<1> QED BY <1>7, <1>9 DEF Kids, t

(* "Already diagnosed while checking the argument itself" (TypeChecker.cpp   *)
(* line 743): an argument of println! without a type has been reported, for  *)
(* every typeable program.                                                 *)
THEOREM UntypedIsDiagnosedHolds == Spec => [](Typeable(ast) => UntypedIsDiagnosed)
<1>1. Inv /\ (Typeable(ast) => Consistent) => (Typeable(ast) => UntypedIsDiagnosed)
  BY ConsistentDiagnoses
<1> QED BY <1>1, InvHolds, ConsistentHolds, PTL

(* visitAssignExpr asks the symbol of the target: an accepted program assigns *)
(* only to variables that the text declares mut, for every typeable program. *)
THEOREM AssignsDeclaredMutHolds == Spec => [](Typeable(ast) => AssignsDeclaredMut)
<1>1. Inv /\ (Typeable(ast) => Consistent) => (Typeable(ast) => AssignsDeclaredMut)
  BY ConsistentAssigns
<1> QED BY <1>1, InvHolds, ConsistentHolds, PTL

(* MLIRGen meets no symbol without storage or function in what the analysis   *)
(* accepts: no typeable program fails in the generator.                     *)
THEOREM AcceptedIsGeneratedHolds == Spec => [](Typeable(ast) => AcceptedIsGenerated)
<1>1. (Typeable(ast) => Consistent) => (Typeable(ast) => AcceptedIsGenerated)
  BY DEF Consistent, Generating, AcceptedIsGenerated
<1> QED BY <1>1, ConsistentHolds, PTL
=============================================================================
