---------------------------- MODULE SyntaxProofs ----------------------------
(***************************************************************************)
(* Proofs about Lexer and Parser, for every text, any keywords and any bound *)
(* on the nodes that a call keeps.                                         *)
(***************************************************************************)
EXTENDS Parser, SequenceTheorems, FiniteSetTheorems, WellFoundedInduction, TLAPS

Less == {pair \in Nat \X Nat : pair[1] < pair[2]}

LEMMA LessIsWellFounded == IsWellFoundedOn(Less, Nat)
<1>1. OpToRel(<, Nat) = Less
  BY DEF OpToRel, Less
<1> QED BY <1>1, NatLessThanWellFounded

LEMMA Least ==
  ASSUME NEW S, S \subseteq Nat, S # {}
  PROVE  \E n \in S : \A m \in S : n <= m
<1>1. PICK n \in S : \A m \in S : <<m, n>> \notin Less
  BY LessIsWellFounded, WFMin
<1>2. ASSUME NEW m \in S
      PROVE  n <= m
  <2>1. <<m, n>> \notin Less /\ m \in Nat /\ n \in Nat
    BY <1>1
  <2>2. <<m, n>> \in Nat \X Nat
    BY <2>1
  <2>3. ~(m < n)
    BY <2>1, <2>2 DEF Less
  <2> QED BY <2>1, <2>3
<1> QED BY <1>2

LEMMA Greatest ==
  ASSUME NEW n \in Nat, NEW S, S \subseteq 0 .. n, S # {}
  PROVE  \E m \in S : \A k \in S : k <= m
<1> DEFINE T == {k \in Nat : n - k \in S}
<1>1. PICK k \in T : \A j \in T : k <= j
  <2>1. PICK m \in S : TRUE
    OBVIOUS
  <2>2. n - m \in Nat /\ n - (n - m) = m
    BY <2>1
  <2>3. T # {} /\ T \subseteq Nat
    BY <2>1, <2>2
  <2> HIDE DEF T
  <2> QED BY <2>3, Least
<1>2. ASSUME NEW m \in S
      PROVE  m <= n - k
  <2>1. m \in 0 .. n /\ n - m \in Nat /\ n - (n - m) = m
    OBVIOUS
  <2>2. n - m \in T
    BY <2>1
  <2> QED BY <1>1, <2>1, <2>2
<1> QED BY <1>1, <1>2

(* Induction, on a set instead of a predicate. *)
LEMMA SetInduction ==
  ASSUME NEW S, 0 \in S, \A n \in Nat : n \in S => n + 1 \in S
  PROVE  Nat \subseteq S
<1>1. SUFFICES ASSUME Nat \ S # {} PROVE FALSE
  OBVIOUS
<1>2. PICK n \in Nat \ S : \A m \in Nat \ S : <<m, n>> \notin Less
  <2>1. Nat \ S \subseteq Nat
    OBVIOUS
  <2> QED BY <1>1, <2>1, LessIsWellFounded, WFMin
<1>3. n \in Nat /\ n # 0 /\ n - 1 \in Nat
  OBVIOUS
<1>4. <<n - 1, n>> \in Less
  BY <1>3 DEF Less
<1>5. n - 1 \in S
  BY <1>2, <1>3, <1>4
<1> QED BY <1>3, <1>5

(* A function of the first n numbers, each value from the one before. *)
Iteration(f, n, V, base, step) ==
  f \in [0 .. n -> V] /\ f[0] = base /\ \A k \in 1 .. n : f[k] = step[k][f[k - 1]]

LEMMA Iterated ==
  ASSUME NEW n \in Nat, NEW V, NEW base \in V, NEW step \in [1 .. n -> [V -> V]]
  PROVE  \E f : Iteration(f, n, V, base, step)
<1> DEFINE Known(f, k) == f[0] = base /\ \A j \in 1 .. k : f[j] = step[j][f[j - 1]]
           T == {k \in Nat : k <= n => \E f \in [0 .. n -> V] : Known(f, k)}
<1>1. 0 \in T
  <2>1. [j \in 0 .. n |-> base] \in [0 .. n -> V] /\ Known([j \in 0 .. n |-> base], 0)
    OBVIOUS
  <2> QED BY <2>1
<1>2. ASSUME NEW k \in Nat, k \in T
      PROVE  k + 1 \in T
  <2> SUFFICES ASSUME k + 1 <= n
               PROVE  \E f \in [0 .. n -> V] : Known(f, k + 1)
    OBVIOUS
  <2>1. PICK f \in [0 .. n -> V] : Known(f, k)
    BY <1>2
  <2> DEFINE g == [f EXCEPT ![k + 1] = step[k + 1][f[k]]]
  <2>2. step[k + 1][f[k]] \in V
    <3>1. k + 1 \in 1 .. n /\ f[k] \in V
      BY <2>1
    <3> QED BY <3>1
  <2>3. g \in [0 .. n -> V]
    BY <2>2
  <2>4. g[k + 1] = step[k + 1][f[k]] /\ \A j \in 0 .. k : g[j] = f[j]
    BY <2>1
  <2> HIDE DEF g
  <2>5. g[0] = base
    BY <2>1, <2>4
  <2>6. ASSUME NEW j \in 1 .. k + 1
        PROVE  g[j] = step[j][g[j - 1]]
    <3>1. CASE j = k + 1
      BY <2>4, <3>1
    <3>2. CASE j \in 1 .. k
      <4>1. j \in 0 .. k /\ j - 1 \in 0 .. k
        BY <3>2
      <4> QED BY <2>1, <2>4, <3>2, <4>1
    <3> QED BY <3>1, <3>2
  <2> QED BY <2>3, <2>5, <2>6
<1>3. Nat \subseteq T
  <2> HIDE DEF T
  <2> QED BY <1>1, <1>2, SetInduction
<1>4. n \in T
  BY <1>3
<1> QED BY <1>4 DEF Iteration

-------------------------------------------------------------------------------
(* Lines                                                                   *)

Newlines(i) == {k \in 1 .. i : text[k] = Newline}

StartsAfter(i, starts) == IF text[i] = Newline THEN Append(starts, i + 1) ELSE starts

LEMMA StartsSteps ==
  ASSUME text \in Seq(STRING)
  PROVE  /\ StartsUpTo \in [0 .. Len(text) -> Seq(Nat)]
         /\ StartsUpTo[0] = <<1>>
         /\ \A i \in 1 .. Len(text) : StartsUpTo[i] = StartsAfter(i, StartsUpTo[i - 1])
<1> DEFINE n == Len(text)
           step == [i \in 1 .. n |-> [s \in Seq(Nat) |-> StartsAfter(i, s)]]
           Good(f) == f = [i \in 0 .. n |-> IF i = 0 THEN <<1>>
                                            ELSE IF text[i] = Newline THEN Append(f[i - 1], i + 1)
                                            ELSE f[i - 1]]
<1>1. n \in Nat
  BY LenProperties
<1>2. step \in [1 .. n -> [Seq(Nat) -> Seq(Nat)]]
  <2>1. ASSUME NEW i \in 1 .. n, NEW s \in Seq(Nat)
        PROVE  StartsAfter(i, s) \in Seq(Nat)
    BY AppendProperties DEF StartsAfter
  <2> QED BY <2>1
<1>3. <<1>> \in Seq(Nat)
  OBVIOUS
<1>4. \A i \in 1 .. n, s \in Seq(Nat) : step[i][s] = StartsAfter(i, s)
  OBVIOUS
<1> HIDE DEF step
<1>5. PICK f \in [0 .. n -> Seq(Nat)] : f[0] = <<1>> /\ \A k \in 1 .. n : f[k] = step[k][f[k - 1]]
  <2>1. \E f : Iteration(f, n, Seq(Nat), <<1>>, step)
    BY <1>1, <1>2, <1>3, Iterated, Zenon
  <2> QED BY <2>1 DEF Iteration
<1>6. ASSUME NEW i \in 1 .. n
      PROVE  f[i] = StartsAfter(i, f[i - 1])
  <2>1. i - 1 \in 0 .. n /\ f[i - 1] \in Seq(Nat)
    BY <1>1, <1>5
  <2> QED BY <1>4, <1>5, <2>1
<1>7. Good(f)
  <2>1. ASSUME NEW i \in 0 .. n
        PROVE  f[i] = IF i = 0 THEN <<1>>
                      ELSE IF text[i] = Newline THEN Append(f[i - 1], i + 1) ELSE f[i - 1]
    <3>1. CASE i = 0
      BY <1>5, <3>1
    <3>2. CASE i # 0
      <4>1. i \in 1 .. n
        BY <1>1, <3>2
      <4>2. f[i] = StartsAfter(i, f[i - 1])
        BY <1>6, <4>1
      <4> QED BY <3>2, <4>2 DEF StartsAfter
    <3> QED BY <3>1, <3>2
  <2>2. f = [i \in 0 .. n |-> f[i]]
    BY <1>5
  <2> HIDE DEF n
  <2> QED BY <2>1, <2>2, Zenon
<1>8. Good(StartsUpTo)
  BY <1>7 DEF StartsUpTo
<1> DEFINE g == StartsUpTo
<1>9. g[0] = <<1>> /\ \A i \in 1 .. n : g[i] = StartsAfter(i, g[i - 1])
  <2> HIDE DEF g
  <2>1. g = [i \in 0 .. n |-> IF i = 0 THEN <<1>>
                              ELSE IF text[i] = Newline THEN Append(g[i - 1], i + 1)
                              ELSE g[i - 1]]
    BY <1>8 DEF g
  <2>2. 0 \in 0 .. n /\ \A i \in 1 .. n : i \in 0 .. n /\ i # 0
    BY <1>1
  <2> HIDE DEF n
  <2>3. g[0] = <<1>>
    BY ONLY <2>1, <2>2
  <2>4. ASSUME NEW i \in 1 .. n
        PROVE  g[i] = StartsAfter(i, g[i - 1])
    <3>1. g[i] = IF i = 0 THEN <<1>>
                 ELSE IF text[i] = Newline THEN Append(g[i - 1], i + 1) ELSE g[i - 1]
      BY ONLY <2>1, <2>2, i \in 1 .. n
    <3> QED BY <2>2, <3>1 DEF StartsAfter
  <2> QED BY <2>3, <2>4
<1>10. g = f
  <2> DEFINE T == {k \in Nat : k <= n => g[k] = f[k]}
  <2>1. 0 \in T
    BY <1>5, <1>9
  <2>2. ASSUME NEW k \in Nat, k \in T PROVE k + 1 \in T
    <3> HIDE DEF g
    <3> SUFFICES ASSUME k + 1 <= n PROVE g[k + 1] = f[k + 1]
      OBVIOUS
    <3>1. k + 1 \in 1 .. n /\ (k + 1) - 1 = k /\ g[k] = f[k]
      BY <2>2, <1>1
    <3> QED BY <1>6, <1>9, <3>1
  <2>3. Nat \subseteq T
    <3> HIDE DEF T
    <3> QED BY <2>1, <2>2, SetInduction
  <2>4. \A k \in 0 .. n : g[k] = f[k]
    BY <1>1, <2>3
  <2>5. DOMAIN g = 0 .. n /\ g = [k \in 0 .. n |-> g[k]]
    <3>1. g = [i \in 0 .. n |-> IF i = 0 THEN <<1>>
                                ELSE IF text[i] = Newline THEN Append(g[i - 1], i + 1)
                                ELSE g[i - 1]]
      BY <1>8
    <3> HIDE DEF g
    <3> QED BY <3>1
  <2>6. f = [k \in 0 .. n |-> f[k]]
    BY <1>5
  <2> HIDE DEF g
  <2> QED BY <2>4, <2>5, <2>6
<1> QED BY <1>5, <1>9, <1>10

LEMMA MaxIs ==
  ASSUME NEW S, S \subseteq Int, NEW m \in S, \A k \in S : k <= m
  PROVE  Max(S) = m
<1>1. \E x \in S : \A y \in S : x >= y
  <2>1. \A y \in S : m >= y
    OBVIOUS
  <2> QED BY <2>1
<1>2. Max(S) \in S /\ \A y \in S : Max(S) >= y
  <2> HIDE <1>1
  <2> QED BY <1>1 DEF Max
<1>3. Max(S) \in Int /\ m \in Int
  BY <1>2
<1>4. Max(S) >= m /\ m >= Max(S)
  BY <1>2, <1>3
<1> QED BY <1>3, <1>4

LEMMA MinIs ==
  ASSUME NEW S, S \subseteq Int, NEW m \in S, \A k \in S : m <= k
  PROVE  Min(S) = m
<1>1. \E x \in S : \A y \in S : x <= y
  OBVIOUS
<1>2. Min(S) \in S /\ \A y \in S : Min(S) <= y
  BY <1>1 DEF Min
<1>3. Min(S) \in Int /\ m \in Int
  BY <1>2
<1>4. Min(S) >= m /\ m >= Min(S)
  BY <1>2, <1>3
<1> QED BY <1>3, <1>4

(* The lines that the first i characters start. *)
LinesKnown(i, starts) ==
  /\ starts \in Seq(Nat)
  /\ Len(starts) = 1 + Cardinality(Newlines(i))
  /\ starts[1] = 1
  /\ \A a, b \in 1 .. Len(starts) : a < b => starts[a] < starts[b]
  /\ starts[Len(starts)] - 1 \in {0} \cup Newlines(i)
  /\ \A k \in Newlines(i) : k <= starts[Len(starts)] - 1
  /\ starts[Len(starts)] <= i + 1

LEMMA NewlinesFinite ==
  ASSUME NEW i \in Nat
  PROVE  IsFiniteSet(Newlines(i)) /\ Cardinality(Newlines(i)) \in Nat
<1>1. IsFiniteSet(1 .. i)
  BY FS_Interval
<1>2. Newlines(i) \subseteq 1 .. i
  BY DEF Newlines
<1>3. IsFiniteSet(Newlines(i))
  BY <1>1, <1>2, FS_Subset
<1> QED BY <1>3, FS_CardinalityType

LEMMA FirstLine == LinesKnown(0, <<1>>)
<1>1. Newlines(0) = {}
  BY DEF Newlines
<1>2. Cardinality(Newlines(0)) = 0
  BY <1>1, FS_EmptySet
<1> QED BY <1>1, <1>2 DEF LinesKnown

LEMMA NextLine ==
  ASSUME NEW i \in Nat, NEW starts, LinesKnown(i, starts)
  PROVE  LinesKnown(i + 1, StartsAfter(i + 1, starts))
<1> DEFINE n == Len(starts)
<1>1. /\ starts \in Seq(Nat) /\ n \in Nat /\ n > 0
      /\ n = 1 + Cardinality(Newlines(i)) /\ Cardinality(Newlines(i)) \in Nat
  BY NewlinesFinite, LenProperties DEF LinesKnown
<1>2. CASE text[i + 1] = Newline
  <2> DEFINE longer == Append(starts, i + 2)
  <2>1. /\ longer \in Seq(Nat) /\ Len(longer) = n + 1 /\ longer[n + 1] = i + 2
        /\ \A a \in 1 .. n : longer[a] = starts[a]
    BY <1>1, AppendProperties
  <2>2. Newlines(i + 1) = Newlines(i) \cup {i + 1} /\ i + 1 \notin Newlines(i)
    BY <1>2 DEF Newlines
  <2>3. Cardinality(Newlines(i + 1)) = n
    <3>1. IsFiniteSet(Newlines(i))
      BY NewlinesFinite
    <3>2. Cardinality(Newlines(i) \cup {i + 1})
            = IF i + 1 \in Newlines(i) THEN Cardinality(Newlines(i)) ELSE Cardinality(Newlines(i)) + 1
      BY <3>1, FS_AddElement, Zenon
    <3>3. Cardinality(Newlines(i + 1)) = Cardinality(Newlines(i)) + 1
      BY <2>2, <3>2, Zenon
    <3> QED BY <1>1, <3>3
  <2>4. StartsAfter(i + 1, starts) = longer
    BY <1>2 DEF StartsAfter
  <2>5. \A a, b \in 1 .. n + 1 : a < b => longer[a] < longer[b]
    <3> SUFFICES ASSUME NEW a \in 1 .. n + 1, NEW b \in 1 .. n + 1, a < b
                 PROVE  longer[a] < longer[b]
      OBVIOUS
    <3>1. /\ \A c, d \in 1 .. n : c < d => starts[c] < starts[d]
          /\ starts[n] <= i + 1
          /\ \A c \in 1 .. n : starts[c] \in Nat
      BY <1>1 DEF LinesKnown
    <3>2. a \in 1 .. n /\ longer[a] = starts[a] /\ starts[a] <= starts[n]
      <4>1. a \in 1 .. n
        BY <1>1
      <4>2. starts[a] <= starts[n]
        <5>1. CASE a = n
          BY <1>1, <3>1, <4>1, <5>1
        <5>2. CASE a # n
          <6>1. n \in 1 .. n /\ a < n
            BY <1>1, <4>1, <5>2
          <6>2. starts[a] < starts[n] /\ starts[a] \in Nat /\ starts[n] \in Nat
            BY <3>1, <4>1, <6>1
          <6> QED BY <6>2
        <5> QED BY <5>1, <5>2
      <4> QED BY <2>1, <4>1, <4>2
    <3>3. CASE b = n + 1
      BY <1>1, <2>1, <3>1, <3>2, <3>3
    <3>4. CASE b \in 1 .. n
      BY <2>1, <3>1, <3>2, <3>4
    <3> HIDE DEF longer
    <3> QED BY <1>1, <3>3, <3>4
  <2>6. \A k \in Newlines(i + 1) : k \in Nat /\ k <= i + 1
    BY DEF Newlines
  <2>7. longer[1] = 1
    BY <1>1, <2>1 DEF LinesKnown
  <2> HIDE DEF longer
  <2>8. i + 1 \in Newlines(i + 1)
    BY <2>2
  <2> QED BY <1>1, <2>1, <2>3, <2>4, <2>5, <2>6, <2>7, <2>8 DEF LinesKnown
<1>3. CASE text[i + 1] # Newline
  <2>1. StartsAfter(i + 1, starts) = starts
    BY <1>3 DEF StartsAfter
  <2>2. Newlines(i + 1) = Newlines(i)
    BY <1>3 DEF Newlines
  <2>3. starts[n] \in Nat
    BY <1>1
  <2> QED BY <1>1, <2>1, <2>2, <2>3 DEF LinesKnown
<1> QED BY <1>2, <1>3

LEMMA LinesOfText ==
  ASSUME text \in Seq(STRING)
  PROVE  \A i \in 0 .. Len(text) : LinesKnown(i, StartsUpTo[i])
<1> DEFINE T == {i \in Nat : i <= Len(text) => LinesKnown(i, StartsUpTo[i])}
<1>1. 0 \in T
  BY StartsSteps, FirstLine
<1>2. ASSUME NEW i \in Nat, i \in T PROVE i + 1 \in T
  <2> SUFFICES ASSUME i + 1 <= Len(text) PROVE LinesKnown(i + 1, StartsUpTo[i + 1])
    OBVIOUS
  <2>1. Len(text) \in Nat
    BY LenProperties
  <2>2. LinesKnown(i, StartsUpTo[i])
    BY <1>2, <2>1
  <2>3. LinesKnown(i + 1, StartsAfter(i + 1, StartsUpTo[i]))
    BY <2>2, NextLine, Zenon
  <2>4. i + 1 \in 1 .. Len(text) /\ (i + 1) - 1 = i
    BY <2>1
  <2>5. StartsUpTo[i + 1] = StartsAfter(i + 1, StartsUpTo[(i + 1) - 1])
    BY <2>4, StartsSteps, Zenon
  <2> QED BY <2>3, <2>4, <2>5
<1>3. Nat \subseteq T
  <2> HIDE DEF T
  <2> QED BY <1>1, <1>2, SetInduction
<1>4. Len(text) \in Nat
  BY LenProperties
<1> QED BY <1>3, <1>4

(* The lines that the first i characters start are the first lines of the text, *)
(* and later lines start later.                                             *)
LEMMA EarlierLines ==
  ASSUME text \in Seq(STRING), NEW i \in 0 .. Len(text)
  PROVE  LET u == StartsUpTo[i] IN
         /\ Len(u) <= Len(LineStarts)
         /\ \A a \in 1 .. Len(u) : LineStarts[a] = u[a]
         /\ \A a \in Len(u) + 1 .. Len(LineStarts) : LineStarts[a] > i + 1
<1> DEFINE u == StartsUpTo[i]
           Extends(w) == /\ Len(u) <= Len(w)
                         /\ \A a \in 1 .. Len(u) : w[a] = u[a]
                         /\ \A a \in Len(u) + 1 .. Len(w) : w[a] > i + 1
           T == {k \in Nat : i + k <= Len(text) => Extends(StartsUpTo[i + k])}
<1>1. Len(text) \in Nat /\ i \in Nat
  BY LenProperties
<1>2. u \in Seq(Nat) /\ Len(u) \in Nat
  BY LinesOfText, LenProperties DEF LinesKnown
<1>3. 0 \in T
  <2>1. i + 0 = i
    BY <1>1
  <2> QED BY <1>2, <2>1
<1>4. ASSUME NEW k \in Nat, k \in T PROVE k + 1 \in T
  <2> SUFFICES ASSUME i + (k + 1) <= Len(text) PROVE Extends(StartsUpTo[i + (k + 1)])
    OBVIOUS
  <2> DEFINE j == i + k
             w == StartsUpTo[j]
  <2>1. j \in Nat /\ j + 1 \in 1 .. Len(text) /\ (j + 1) - 1 = j /\ i + (k + 1) = j + 1 /\ j >= i
        /\ j \in 0 .. Len(text)
    BY <1>1
  <2>2. Extends(w)
    BY <1>4, <2>1
  <2>3. w \in Seq(Nat) /\ Len(w) \in Nat
    BY <2>1, LinesOfText, LenProperties DEF LinesKnown
  <2>4. StartsUpTo[j + 1] = StartsAfter(j + 1, StartsUpTo[(j + 1) - 1])
    BY <2>1, StartsSteps, Zenon
  <2>5. StartsUpTo[i + (k + 1)] = StartsAfter(j + 1, w)
    BY <2>1, <2>4
  <2> HIDE DEF w, u
  <2>6. CASE text[j + 1] = Newline
    <3> DEFINE longer == Append(w, j + 2)
    <3>1. /\ Len(longer) = Len(w) + 1 /\ longer[Len(w) + 1] = j + 2
          /\ \A a \in 1 .. Len(w) : longer[a] = w[a]
      BY <2>1, <2>3, AppendProperties
    <3>2. StartsAfter(j + 1, w) = longer
      BY <2>1, <2>6 DEF StartsAfter
    <3> HIDE DEF longer, j
    <3>3. Extends(longer)
      <4>1. Len(u) <= Len(longer)
        BY <1>2, <2>2, <2>3, <3>1
      <4>2. \A a \in 1 .. Len(u) : longer[a] = u[a]
        BY <1>2, <2>2, <2>3, <3>1
      <4>3. ASSUME NEW a \in Len(u) + 1 .. Len(longer)
            PROVE  longer[a] > i + 1
        <5>1. CASE a = Len(w) + 1
          BY <1>1, <2>1, <2>3, <3>1, <5>1
        <5>2. CASE a # Len(w) + 1
          <6>1. a \in 1 .. Len(w) /\ a \in Len(u) + 1 .. Len(w)
            BY <1>2, <2>3, <3>1, <5>2
          <6> QED BY <2>2, <3>1, <6>1
        <5> QED BY <5>1, <5>2
      <4> QED BY <4>1, <4>2, <4>3
    <3> QED BY <2>5, <3>2, <3>3
  <2>7. CASE text[j + 1] # Newline
    <3>1. StartsAfter(j + 1, w) = w
      BY <2>7 DEF StartsAfter
    <3> QED BY <2>2, <2>5, <3>1
  <2> QED BY <2>6, <2>7
<1>5. Nat \subseteq T
  <2> HIDE DEF T
  <2> QED BY <1>3, <1>4, SetInduction
<1>6. Len(text) - i \in Nat /\ i + (Len(text) - i) = Len(text)
  BY <1>1
<1>7. Extends(LineStarts)
  <2>1. Len(text) - i \in T
    BY <1>5, <1>6
  <2> QED BY <2>1, <1>6, <1>1 DEF LineStarts
<1> QED BY <1>7

(* What a line and column have to be. *)
NewlinesBefore(ptr) == {k \in 1 .. ptr - 1 : k <= Len(text) /\ text[k] = Newline}

Exact(loc) ==
  /\ loc.line = 1 + Cardinality(NewlinesBefore(loc.ptr))
  /\ loc.column = loc.ptr - Max({0} \cup NewlinesBefore(loc.ptr))

LEMMA OnLineIsExact ==
  ASSUME text \in Seq(STRING), NEW ptr \in Nat, ptr > 0, NEW l \in DOMAIN LineStarts,
         OnLine(LineStarts, l, ptr)
  PROVE  /\ l = 1 + Cardinality(NewlinesBefore(ptr))
         /\ ptr - LineStarts[l] + 1 = ptr - Max({0} \cup NewlinesBefore(ptr))
<1> DEFINE i == IF ptr - 1 <= Len(text) THEN ptr - 1 ELSE Len(text)
           u == StartsUpTo[i]
<1>1. Len(text) \in Nat
  BY LenProperties
<1>2. i \in 0 .. Len(text) /\ i <= ptr - 1 /\ (i = ptr - 1 \/ i = Len(text))
  BY <1>1
<1>3. NewlinesBefore(ptr) = Newlines(i)
  BY <1>1 DEF NewlinesBefore, Newlines
<1> HIDE DEF i
<1>4. LinesKnown(i, u)
  BY <1>2, LinesOfText
<1>5. /\ Len(u) <= Len(LineStarts)
      /\ \A a \in 1 .. Len(u) : LineStarts[a] = u[a]
      /\ \A a \in Len(u) + 1 .. Len(LineStarts) : LineStarts[a] > i + 1
  BY <1>2, EarlierLines
<1>6. i = Len(text) => u = LineStarts
  BY DEF LineStarts
<1> HIDE DEF u
<1>7. LineStarts \in Seq(Nat) /\ Len(LineStarts) \in Nat /\ l \in 1 .. Len(LineStarts)
  <2>1. LineStarts \in Seq(Nat)
    BY <1>1, StartsSteps DEF LineStarts
  <2> QED BY <2>1, LenProperties
<1>8. u \in Seq(Nat) /\ Len(u) \in Nat /\ Len(u) > 0
  BY <1>2, <1>4, NewlinesFinite, LenProperties DEF LinesKnown
<1>9. LineStarts[l] \in Nat /\ LineStarts[l] <= ptr
  BY <1>7 DEF OnLine
<1>10. l <= Len(u)
  <2> SUFFICES ASSUME l > Len(u) PROVE FALSE
    BY <1>7, <1>8
  <2>1. LineStarts[l] > i + 1
    <3>1. l \in Len(u) + 1 .. Len(LineStarts)
      BY <1>7, <1>8
    <3> QED BY <1>5, <3>1
  <2>2. i # ptr - 1
    BY <1>9, <2>1
  <2> QED BY <1>2, <1>6, <1>7, <2>2
<1>11. l >= Len(u)
  <2> SUFFICES ASSUME l < Len(u) PROVE FALSE
    BY <1>7, <1>8
  <2>1. l + 1 \in 1 .. Len(u) /\ l + 1 \in 1 .. Len(LineStarts) /\ l # Len(LineStarts)
    BY <1>5, <1>7, <1>8
  <2>2. ptr < LineStarts[l + 1]
    BY <2>1 DEF OnLine
  <2>3. LineStarts[l + 1] = u[l + 1] /\ u[l + 1] \in Nat /\ u[Len(u)] \in Nat
    BY <1>5, <1>8, <2>1
  <2>4. u[l + 1] <= u[Len(u)]
    <3>1. CASE l + 1 = Len(u)
      BY <2>3, <3>1
    <3>2. CASE l + 1 # Len(u)
      <4>1. l + 1 < Len(u) /\ Len(u) \in 1 .. Len(u)
        BY <1>8, <2>1, <3>2
      <4>2. \A a, b \in 1 .. Len(u) : a < b => u[a] < u[b]
        BY <1>4 DEF LinesKnown
      <4>3. u[l + 1] < u[Len(u)]
        BY <2>1, <4>1, <4>2
      <4> QED BY <2>3, <4>3
    <3> QED BY <3>1, <3>2
  <2>5. u[Len(u)] <= i + 1
    BY <1>4 DEF LinesKnown
  <2> QED BY <1>2, <2>2, <2>3, <2>4, <2>5
<1>12. l = Len(u)
  BY <1>7, <1>8, <1>10, <1>11
<1>13. l = 1 + Cardinality(NewlinesBefore(ptr))
  BY <1>3, <1>4, <1>12 DEF LinesKnown
<1>14. LineStarts[l] = u[l]
  BY <1>5, <1>7, <1>12
<1>15. Max({0} \cup NewlinesBefore(ptr)) = u[l] - 1
  <2> DEFINE S == {0} \cup NewlinesBefore(ptr)
  <2>1. S \subseteq Int
    BY DEF NewlinesBefore
  <2>2. u[l] - 1 \in S /\ u[l] - 1 \in Nat
    <3>1. S \subseteq Nat
      BY DEF NewlinesBefore
    <3> QED BY <1>3, <1>4, <1>12, <3>1 DEF LinesKnown
  <2>3. \A k \in S : k <= u[l] - 1
    BY <1>3, <1>4, <1>12, <2>2 DEF LinesKnown
  <2> HIDE DEF S
  <2>4. Max(S) = u[l] - 1
    BY <2>1, <2>2, <2>3, MaxIs
  <2> QED BY <2>4 DEF S
<1> QED BY <1>9, <1>13, <1>14, <1>15

LEMMA StartsTyped ==
  ASSUME text \in Seq(STRING)
  PROVE  /\ Len(text) \in Nat
         /\ LineStarts \in Seq(Nat) /\ Len(LineStarts) \in Nat /\ Len(LineStarts) > 0
         /\ DOMAIN LineStarts = 1 .. Len(LineStarts)
         /\ LineStarts[1] = 1
         /\ \A a, b \in 1 .. Len(LineStarts) : a < b => LineStarts[a] < LineStarts[b]
         /\ Len(LineStarts) <= Len(text) + 1
<1>1. Len(text) \in Nat /\ Len(text) \in 0 .. Len(text)
  BY LenProperties
<1>2. LinesKnown(Len(text), LineStarts)
  BY <1>1, LinesOfText DEF LineStarts
<1>3. LineStarts \in Seq(Nat)
  BY <1>2 DEF LinesKnown
<1>4. Len(LineStarts) \in Nat /\ DOMAIN LineStarts = 1 .. Len(LineStarts)
  BY <1>3, LenProperties
<1>5. Cardinality(Newlines(Len(text))) \in Nat /\ Cardinality(Newlines(Len(text))) <= Len(text)
  <2>1. IsFiniteSet(1 .. Len(text)) /\ Cardinality(1 .. Len(text)) = Len(text)
    BY <1>1, FS_Interval
  <2>2. Newlines(Len(text)) \subseteq 1 .. Len(text)
    BY DEF Newlines
  <2>3. Cardinality(Newlines(Len(text))) <= Cardinality(1 .. Len(text))
    BY <2>1, <2>2, FS_Subset, Zenon
  <2> QED BY <1>1, <2>1, <2>3, NewlinesFinite
<1> QED BY <1>1, <1>2, <1>3, <1>4, <1>5 DEF LinesKnown

LEMMA SearchFindsLine ==
  ASSUME text \in Seq(STRING), NEW ptr \in Nat, ptr > 0
  PROVE  /\ LineFound(LineStarts, ptr) \in 1 .. Len(LineStarts)
         /\ OnLine(LineStarts, LineFound(LineStarts, ptr), ptr)
<1> DEFINE starts == LineStarts
           n == Len(starts)
           S == {l \in DOMAIN starts : starts[l] >= ptr} \cup {n + 1}
<1>1. /\ n \in Nat /\ n > 0 /\ DOMAIN starts = 1 .. n /\ starts[1] = 1
      /\ \A a \in 1 .. n : starts[a] \in Nat
      /\ \A a, b \in 1 .. n : a < b => starts[a] < starts[b]
  BY StartsTyped
<1> HIDE DEF starts
<1>2. S \subseteq Nat /\ S # {}
  BY <1>1
<1>3. PICK it \in S : \A l \in S : it <= l
  <2> HIDE DEF S
  <2> QED BY <1>2, Least
<1>4. Min(S) = it
  <2>1. S \subseteq Int
    BY <1>1
  <2> HIDE DEF S
  <2> QED BY <1>3, <2>1, MinIs
<1>5. it \in 1 .. n + 1
  BY <1>1
<1>6. ASSUME NEW a \in 1 .. n, a < it
      PROVE  starts[a] < ptr
  BY <1>1, <1>3, <1>5, <1>6
<1> DEFINE line == IF it # 1 /\ (it = n + 1 \/ starts[it] > ptr) THEN it - 1 ELSE it
<1>7. LineFound(starts, ptr) = line
  BY <1>4 DEF LineFound
<1>8. line \in 1 .. n /\ OnLine(starts, line, ptr)
  <2>1. CASE it = 1
    <3>1. starts[1] >= ptr
      BY <1>1, <2>1
    <3>2. ptr = 1
      BY <1>1, <3>1
    <3>3. n # 1 => starts[2] > 1
      BY <1>1
    <3> QED BY <1>1, <2>1, <3>2, <3>3 DEF OnLine
  <2>2. CASE it = n + 1
    <3>1. starts[n] < ptr
      BY <1>1, <1>5, <1>6, <2>2
    <3>2. starts[n] <= ptr /\ line = n
      <4>1. starts[n] \in Nat
        BY <1>1
      <4>2. it # 1 /\ it - 1 = n
        BY <1>1, <2>2
      <4>3. line = n
        BY <2>2, <4>2
      <4> HIDE DEF line, n
      <4> QED BY <3>1, <4>1, <4>3
    <3>3. n \in 1 .. n
      BY <1>1
    <3> HIDE DEF line
    <3> QED BY <3>2, <3>3, <1>1 DEF OnLine
  <2>3. CASE it \in 2 .. n /\ starts[it] > ptr
    <3>1. it - 1 \in 1 .. n /\ starts[it - 1] < ptr /\ line = it - 1
      BY <1>1, <1>5, <1>6, <2>3
    <3>2. starts[it - 1] \in Nat /\ (it - 1) + 1 = it
      BY <1>1, <3>1
    <3> HIDE DEF line
    <3> QED BY <2>3, <3>1, <3>2 DEF OnLine
  <2>4. CASE it \in 2 .. n /\ starts[it] = ptr
    <3>1. it # n => it + 1 \in 1 .. n /\ starts[it + 1] > starts[it]
      BY <1>1, <2>4
    <3>2. starts[it] \in Nat
      BY <1>1, <2>4
    <3> QED BY <1>1, <2>4, <3>1, <3>2 DEF OnLine
  <2>5. it = 1 \/ it = n + 1 \/ it \in 2 .. n
    BY <1>1, <1>5
  <2>6. it \in 2 .. n => starts[it] >= ptr /\ starts[it] \in Nat
    BY <1>1, <1>3
  <2>7. starts[it] >= ptr /\ starts[it] \in Nat => starts[it] > ptr \/ starts[it] = ptr
    OBVIOUS
  <2>8. it = 1 \/ it = n + 1 \/ (it \in 2 .. n /\ starts[it] > ptr)
        \/ (it \in 2 .. n /\ starts[it] = ptr)
    BY <2>5, <2>6, <2>7, Zenon
  <2> HIDE DEF line, n
  <2> QED BY <2>1, <2>2, <2>3, <2>4, <2>8, Zenon
<1> HIDE DEF line
<1> QED BY <1>7, <1>8 DEF starts

LEMMA LineAtIsOn ==
  ASSUME text \in Seq(STRING), NEW ptr \in Nat, ptr > 0, NEW l \in DOMAIN LineStarts
  PROVE  LineAt(l, ptr) \in DOMAIN LineStarts /\ OnLine(LineStarts, LineAt(l, ptr), ptr)
<1>1. /\ DOMAIN LineStarts = 1 .. Len(LineStarts) /\ Len(LineStarts) \in Nat
  BY StartsTyped
<1>2. CASE OnLine(LineStarts, l, ptr)
  BY <1>2 DEF LineAt
<1>3. CASE ~OnLine(LineStarts, l, ptr) /\ l < Len(LineStarts) /\ OnLine(LineStarts, l + 1, ptr)
  <2>1. LineAt(l, ptr) = l + 1
    BY <1>3 DEF LineAt
  <2> QED BY <1>1, <1>3, <2>1
<1>4. CASE ~OnLine(LineStarts, l, ptr) /\ ~(l < Len(LineStarts) /\ OnLine(LineStarts, l + 1, ptr))
  <2>1. LineAt(l, ptr) = LineFound(LineStarts, ptr)
    BY <1>4 DEF LineAt
  <2> QED BY <1>1, <2>1, SearchFindsLine
<1> QED BY <1>2, <1>3, <1>4

Locs == [ptr : Nat \ {0}, line : DOMAIN LineStarts, column : Int]

LEMMA LocationIsExact ==
  ASSUME text \in Seq(STRING), NEW ptr \in Nat \ {0}, NEW l \in DOMAIN LineStarts
  PROVE  /\ getLocation(l, ptr) \in Locs
         /\ getLocation(l, ptr).ptr = ptr
         /\ Exact(getLocation(l, ptr))
<1> DEFINE line == LineAt(l, ptr)
<1>1. line \in DOMAIN LineStarts /\ OnLine(LineStarts, line, ptr)
  BY LineAtIsOn
<1>2. LineStarts[line] \in Nat
  BY <1>1, StartsTyped
<1> HIDE DEF line
<1>3. /\ line = 1 + Cardinality(NewlinesBefore(ptr))
      /\ ptr - LineStarts[line] + 1 = ptr - Max({0} \cup NewlinesBefore(ptr))
  <2>1. ptr \in Nat /\ ptr > 0
    OBVIOUS
  <2> QED BY <1>1, <2>1, OnLineIsExact, Zenon
<1>4. getLocation(l, ptr) = [ptr |-> ptr, line |-> line, column |-> ptr - LineStarts[line] + 1]
  BY DEF getLocation, line
<1> QED BY <1>1, <1>2, <1>3, <1>4 DEF Locs, Exact

LEMMA LocationsAreExact ==
  ASSUME text \in Seq(STRING), NEW ptrs \in Seq(Nat \ {0}), NEW l \in DOMAIN LineStarts
  PROVE  /\ Locations(l, ptrs) \in Seq(Locs)
         /\ Len(Locations(l, ptrs)) = Len(ptrs)
         /\ \A k \in 1 .. Len(ptrs) :
              Locations(l, ptrs)[k].ptr = ptrs[k] /\ Exact(Locations(l, ptrs)[k])
<1> DEFINE n == Len(ptrs)
           Good(f) == f = [k \in 1 .. n |-> getLocation(IF k = 1 THEN l ELSE f[k - 1].line, ptrs[k])]
           base == [ptr |-> 1, line |-> l, column |-> 0]
           step == [k \in 1 .. n |-> [loc \in Locs |-> getLocation(loc.line, ptrs[k])]]
           g == Locations(l, ptrs)
<1>1. n \in Nat /\ \A k \in 1 .. n : ptrs[k] \in Nat \ {0}
  BY LenProperties
<1>2. base \in Locs
  BY DEF Locs
<1>3. step \in [1 .. n -> [Locs -> Locs]]
  <2>1. ASSUME NEW k \in 1 .. n, NEW loc \in Locs
        PROVE  getLocation(loc.line, ptrs[k]) \in Locs
    <3>1. loc.line \in DOMAIN LineStarts
      BY DEF Locs
    <3> QED BY <1>1, <3>1, LocationIsExact
  <2> QED BY <2>1
<1>4. \A k \in 1 .. n, loc \in Locs : step[k][loc] = getLocation(loc.line, ptrs[k])
  OBVIOUS
<1>5. base.line = l
  OBVIOUS
<1> HIDE DEF step, base
<1>6. PICK f : Iteration(f, n, Locs, base, step)
  BY <1>1, <1>2, <1>3, Iterated, Zenon
<1>7. \E h : Good(h)
  <2> DEFINE h == [k \in 1 .. n |-> f[k]]
  <2>1. ASSUME NEW k \in 1 .. n
        PROVE  h[k] = getLocation(IF k = 1 THEN l ELSE h[k - 1].line, ptrs[k])
    <3>1. f[k] = step[k][f[k - 1]] /\ f[k - 1] \in Locs
      <4>1. k - 1 \in 0 .. n
        BY <1>1
      <4> HIDE DEF n
      <4> QED BY <1>6, <4>1 DEF Iteration
    <3>2. f[k] = getLocation(f[k - 1].line, ptrs[k])
      BY <1>4, <3>1
    <3>3. CASE k = 1
      BY <1>5, <1>6, <3>2, <3>3 DEF Iteration
    <3>4. CASE k # 1
      <4>1. k - 1 \in 1 .. n
        BY <1>1, <3>4
      <4> QED BY <3>2, <3>4, <4>1
    <3> QED BY <3>3, <3>4
  <2>2. h = [k \in 1 .. n |-> h[k]]
    OBVIOUS
  <2> HIDE DEF h, n
  <2>3. Good(h)
    BY <2>1, <2>2, Zenon
  <2> QED BY <2>3
<1>8. Good(g)
  BY <1>7 DEF Locations
<1> HIDE DEF g
<1>9. DOMAIN g = 1 .. n
  BY <1>8
<1>10. ASSUME NEW k \in 1 .. n
       PROVE  g[k] = getLocation(IF k = 1 THEN l ELSE g[k - 1].line, ptrs[k])
  BY <1>8, Zenon
<1> HIDE DEF Good
<1> DEFINE Fine(k) == g[k] \in Locs /\ g[k].ptr = ptrs[k] /\ Exact(g[k])
           T == {k \in Nat : k < n => Fine(k + 1)}
<1>11. 0 \in T
  <2> SUFFICES ASSUME 0 < n PROVE Fine(1)
    OBVIOUS
  <2>1. 1 \in 1 .. n
    BY <1>1
  <2>2. g[1] = getLocation(l, ptrs[1])
    BY <1>10, <2>1
  <2> QED BY <1>1, <2>1, <2>2, LocationIsExact
<1>12. ASSUME NEW k \in Nat, k \in T PROVE k + 1 \in T
  <2> SUFFICES ASSUME k + 1 < n PROVE Fine((k + 1) + 1)
    OBVIOUS
  <2>1. (k + 1) + 1 \in 1 .. n /\ k < n /\ (k + 1) + 1 # 1 /\ ((k + 1) + 1) - 1 = k + 1
    BY <1>1
  <2>2. Fine(k + 1)
    BY <1>12, <2>1
  <2>3. g[k + 1].line \in DOMAIN LineStarts
    BY <2>2 DEF Locs
  <2>4. g[(k + 1) + 1] = getLocation(g[k + 1].line, ptrs[(k + 1) + 1])
    BY <1>10, <2>1
  <2> QED BY <1>1, <2>1, <2>3, <2>4, LocationIsExact
<1>13. Nat \subseteq T
  <2> HIDE DEF T
  <2> QED BY <1>11, <1>12, SetInduction
<1>14. ASSUME NEW k \in 1 .. n PROVE Fine(k)
  <2>1. k - 1 \in Nat /\ k - 1 < n /\ (k - 1) + 1 = k
    BY <1>1
  <2>2. k - 1 \in T
    <3> HIDE DEF T
    <3> QED BY <1>13, <2>1
  <2>3. Fine((k - 1) + 1)
    BY <2>1, <2>2
  <2> HIDE DEF Fine
  <2> QED BY <2>1, <2>3
<1>15. g = [k \in 1 .. n |-> g[k]]
  BY <1>8 DEF Good
<1> HIDE DEF n
<1>16. g \in Seq(Locs) /\ Len(g) = n
  <2>1. g \in [1 .. n -> Locs]
    BY <1>14, <1>15
  <2> QED BY <1>1, <2>1, LenProperties
<1> QED BY <1>14, <1>16 DEF g, n

LEMMA SameLines ==
  ASSUME text' = text
  PROVE  LineStarts' = LineStarts /\ StartsUpTo' = StartsUpTo /\ Locs' = Locs
<1>1. StartsUpTo' = StartsUpTo
  BY DEF StartsUpTo
<1>2. LineStarts' = LineStarts
  BY <1>1 DEF LineStarts
<1> QED BY <1>1, <1>2 DEF Locs

LEMMA SameExact ==
  ASSUME text' = text, NEW loc
  PROVE  Exact(loc)' <=> Exact(loc)
<1>1. \A p : NewlinesBefore(p)' = NewlinesBefore(p)
  BY DEF NewlinesBefore
<1> QED BY <1>1 DEF Exact

-------------------------------------------------------------------------------
(* Tokens                                                                  *)

LEMMA FrontLast ==
  ASSUME NEW S, NEW s \in Seq(S), Len(s) > 0
  PROVE  /\ Len(s) \in Nat /\ Len(s) \in 1 .. Len(s)
         /\ Last(s) = s[Len(s)] /\ Last(s) \in S
         /\ Front(s) \in Seq(S) /\ Len(Front(s)) = Len(s) - 1
         /\ \A k \in 1 .. Len(s) - 1 : Front(s)[k] = s[k]
<1> DEFINE n == Len(s) - 1
           front == SubSeq(s, 1, n)
<1>1. Len(s) \in Nat /\ Len(s) \in 1 .. Len(s) /\ \A k \in 1 .. Len(s) : s[k] \in S
  BY LenProperties
<1>2. Last(s) = s[Len(s)] /\ Last(s) \in S
  BY <1>1 DEF Last
<1>3. n \in Int /\ 1 \in Int /\ n \in Nat /\ \A k \in 1 .. n : s[k] \in S
  BY <1>1
<1>4. Front(s) = front
  BY DEF Front
<1> HIDE DEF n
<1>5. /\ front \in Seq(S)
      /\ Len(front) = IF 1 <= n THEN n - 1 + 1 ELSE 0
      /\ \A k \in 1 .. n - 1 + 1 : front[k] = s[1 + k - 1]
  BY <1>3, SubSeqProperties
<1> HIDE DEF front
<1>6. Len(front) = n /\ \A k \in 1 .. n : front[k] = s[k]
  <2>1. n - 1 + 1 = n /\ \A k \in 1 .. n : 1 + k - 1 = k
    BY <1>3
  <2>2. Len(front) = n
    BY <1>3, <1>5
  <2> QED BY <1>5, <2>1, <2>2
<1> QED BY <1>1, <1>2, <1>4, <1>5, <1>6 DEF n

LEMMA CharsTyped ==
  ASSUME AnyText, NEW i \in Nat \ {0}
  PROVE  CharAt(i) \in STRING /\ (i < BufferEnd => CharAt(i) = text[i])
<1>1. Len(text) \in Nat
  BY LenProperties DEF AnyText
<1>2. CASE i < BufferEnd
  <2>1. i \in 1 .. Len(text)
    BY <1>1, <1>2 DEF BufferEnd
  <2>2. text[i] \in STRING
    BY <2>1, LenProperties DEF AnyText
  <2> QED BY <1>2, <2>2 DEF CharAt
<1>3. CASE ~(i < BufferEnd)
  BY <1>3 DEF AnyText, CharAt
<1> QED BY <1>2, <1>3

RunEnd(i, S, e) ==
  /\ e \in Nat /\ e >= i
  /\ i <= BufferEnd => e <= BufferEnd
  /\ i >= BufferEnd => e = i
  /\ \A j \in i .. e - 1 : text[j] \in S
  /\ i < BufferEnd /\ e < BufferEnd => text[e] \notin S

LEMMA RunEnds ==
  ASSUME AnyText, NEW i \in Nat \ {0}, NEW S
  PROVE  RunEnd(i, S, EndOfRun(i, S))
<1> DEFINE e == EndOfRun(i, S)
           T == {j \in i .. Len(text) : text[j] \notin S} \cup {BufferEnd}
<1> SUFFICES RunEnd(i, S, e)
  OBVIOUS
<1>1. Len(text) \in Nat /\ BufferEnd = Len(text) + 1
  BY LenProperties DEF AnyText, BufferEnd
<1>2. CASE i >= BufferEnd
  <2>1. e = i
    BY <1>2 DEF EndOfRun
  <2>2. i .. i - 1 = {}
    OBVIOUS
  <2> HIDE DEF e
  <2> QED BY <1>1, <1>2, <2>1, <2>2 DEF RunEnd
<1>3. CASE i < BufferEnd
  <2>1. T \subseteq Nat /\ T \subseteq Int /\ T # {}
    BY <1>1
  <2>2. PICK m \in T : \A j \in T : m <= j
    <3> HIDE DEF T
    <3> QED BY <2>1, Least
  <2>3. ~(i >= BufferEnd)
    BY <1>1, <1>3
  <2>4. e = m
    <3>1. Min(T) = m
      <4> HIDE DEF T
      <4> QED BY <2>1, <2>2, MinIs
    <3> QED BY <2>3, <3>1 DEF EndOfRun
  <2>5. m \in i .. BufferEnd
    BY <1>1, <1>3
  <2>6. ASSUME NEW j \in i .. m - 1 PROVE text[j] \in S
    <3> SUFFICES ASSUME text[j] \notin S PROVE FALSE
      OBVIOUS
    <3>1. j \in i .. Len(text)
      BY <1>1, <2>5
    <3>2. m <= j
      BY <2>2, <3>1
    <3> QED BY <2>5, <3>2
  <2>7. m < BufferEnd => text[m] \notin S
    BY <1>1, <2>5
  <2> HIDE DEF e, T
  <2> QED BY <1>1, <1>3, <2>4, <2>5, <2>6, <2>7 DEF RunEnd
<1> HIDE DEF e
<1>4. i >= BufferEnd \/ i < BufferEnd
  BY <1>1
<1> QED BY <1>2, <1>3, <1>4

Places == 1 .. Len(text) + 3
Kinds ==
  PunctuationKinds \cup Range(Keywords) \cup {"ident", "int", "float", "string", "unknown", "eof"}
Toks == [kind : Kinds, at : Locs, end : Places]

LexInv ==
  /\ AnyText
  /\ cur \in Places
  /\ lastLine \in DOMAIN LineStarts
  /\ tokens \in Seq(Toks)
  /\ reports \in Seq(Locs)
  /\ \A n \in 1 .. Len(tokens) : Exact(tokens[n].at)
  /\ \A n \in 1 .. Len(reports) : Exact(reports[n])

LEMMA TokenStarts ==
  ASSUME LexInv
  PROVE  /\ Len(text) \in Nat /\ BufferEnd = Len(text) + 1
         /\ cur \in Nat \ {0}
         /\ TokenStart \in Nat \ {0} /\ TokenStart \in Places /\ TokenStart >= cur
         /\ cur <= BufferEnd => TokenStart <= BufferEnd
         /\ \A j \in cur .. TokenStart - 1 : text[j] \in Spaces
<1>1. Len(text) \in Nat /\ BufferEnd = Len(text) + 1
  BY LenProperties DEF LexInv, AnyText, BufferEnd
<1>2. cur \in Nat \ {0} /\ cur \in Places
  BY <1>1 DEF LexInv, Places
<1>3. /\ TokenStart \in Nat /\ TokenStart >= cur
      /\ cur <= BufferEnd => TokenStart <= BufferEnd
      /\ cur >= BufferEnd => TokenStart = cur
      /\ \A j \in cur .. TokenStart - 1 : text[j] \in Spaces
  BY <1>2, RunEnds DEF TokenStart, LexInv, RunEnd
<1>4. TokenStart \in Places
  BY <1>1, <1>2, <1>3 DEF Places
<1> QED BY <1>1, <1>2, <1>3, <1>4

LEMMA ExactParts ==
  ASSUME NEW located \in Seq(Locs), Len(located) > 0, \A k \in 1 .. Len(located) : Exact(located[k])
  PROVE  /\ Last(located) \in Locs /\ Exact(Last(located)) /\ Last(located) = located[Len(located)]
         /\ Front(located) \in Seq(Locs)
         /\ \A k \in 1 .. Len(Front(located)) : Exact(Front(located)[k])
<1>1. /\ Len(located) \in Nat /\ Len(located) \in 1 .. Len(located)
      /\ Last(located) = located[Len(located)] /\ Last(located) \in Locs
      /\ Front(located) \in Seq(Locs) /\ Len(Front(located)) = Len(located) - 1
      /\ \A k \in 1 .. Len(located) - 1 : Front(located)[k] = located[k]
  BY FrontLast
<1> QED BY <1>1

(* What forming a token leaves. *)
Formed(kind, end) ==
  \E loc \in Locs :
    /\ loc.ptr = TokenStart /\ Exact(loc)
    /\ tokens' = Append(tokens, [kind |-> kind, at |-> loc, end |-> end])
    /\ cur' = end /\ text' = text /\ past' = past

LEMMA FormTokenFacts ==
  ASSUME LexInv, NEW kind \in Kinds, NEW end \in Places, NEW ptrs \in Seq(Nat \ {0}),
         FormToken(kind, end, ptrs)
  PROVE  Formed(kind, end) /\ LexInv'
<1> DEFINE all == Append(ptrs, TokenStart)
           located == Locations(lastLine, all)
           token == [kind |-> kind, at |-> Last(located), end |-> end]
<1>1. TokenStart \in Nat \ {0} /\ Len(ptrs) \in Nat
  BY TokenStarts, LenProperties
<1>2. /\ all \in Seq(Nat \ {0}) /\ Len(all) = Len(ptrs) + 1
      /\ all[Len(ptrs) + 1] = TokenStart
  <2> HIDE DEF TokenStart
  <2> QED BY <1>1, AppendProperties
<1>3. lastLine \in DOMAIN LineStarts /\ text \in Seq(STRING)
  BY DEF LexInv, AnyText
<1>4. /\ tokens' = Append(tokens, token)
      /\ lastLine' = Last(located).line
      /\ cur' = end
      /\ reports' = reports \o Front(located)
      /\ text' = text /\ past' = past
  BY DEF FormToken
<1> HIDE DEF all
<1>5. /\ located \in Seq(Locs) /\ Len(located) = Len(all)
      /\ \A k \in 1 .. Len(all) : located[k].ptr = all[k] /\ Exact(located[k])
  BY <1>2, <1>3, LocationsAreExact
<1> HIDE DEF located
<1>6. /\ Last(located) \in Locs /\ Exact(Last(located))
      /\ Front(located) \in Seq(Locs)
      /\ \A k \in 1 .. Len(Front(located)) : Exact(Front(located)[k])
      /\ Last(located).ptr = TokenStart
  <2>1. Len(located) > 0 /\ \A k \in 1 .. Len(located) : Exact(located[k])
    BY <1>1, <1>2, <1>5
  <2>2. Last(located) = located[Len(located)]
    BY <1>5, <2>1, ExactParts
  <2>3. Len(located) = Len(ptrs) + 1 /\ Len(located) \in 1 .. Len(all)
    BY <1>1, <1>2, <1>5
  <2> QED BY <1>2, <1>5, <2>1, <2>2, <2>3, ExactParts
<1>7. Formed(kind, end)
  BY <1>4, <1>6 DEF Formed
<1>8. token \in Toks
  BY <1>6 DEF Toks
<1>9. /\ tokens' \in Seq(Toks)
      /\ \A n \in 1 .. Len(tokens') : Exact(tokens'[n].at)
  <2>1. token.at = Last(located)
    OBVIOUS
  <2> HIDE DEF token
  <2>2. tokens \in Seq(Toks) /\ Len(tokens) \in Nat /\ \A n \in 1 .. Len(tokens) : Exact(tokens[n].at)
    BY LenProperties DEF LexInv
  <2>3. /\ tokens' \in Seq(Toks) /\ Len(tokens') = Len(tokens) + 1
        /\ \A n \in 1 .. Len(tokens) : tokens'[n] = tokens[n]
        /\ tokens'[Len(tokens) + 1] = token
    BY <1>4, <1>8, <2>2, AppendProperties
  <2>4. \A n \in 1 .. Len(tokens) + 1 : n \in 1 .. Len(tokens) \/ n = Len(tokens) + 1
    BY <2>2
  <2> QED BY <1>6, <2>1, <2>2, <2>3, <2>4
<1>10. /\ reports' \in Seq(Locs)
       /\ \A n \in 1 .. Len(reports') : Exact(reports'[n])
  <2>1. /\ reports \in Seq(Locs) /\ Len(reports) \in Nat /\ Len(Front(located)) \in Nat
        /\ \A n \in 1 .. Len(reports) : Exact(reports[n])
    BY <1>6, LenProperties DEF LexInv
  <2>2. /\ reports' \in Seq(Locs) /\ Len(reports') = Len(reports) + Len(Front(located))
        /\ \A n \in 1 .. Len(reports') :
             reports'[n] = IF n <= Len(reports) THEN reports[n] ELSE Front(located)[n - Len(reports)]
    BY <1>4, <1>6, <2>1, ConcatProperties
  <2>3. ASSUME NEW n \in 1 .. Len(reports') PROVE Exact(reports'[n])
    <3>1. CASE n \in 1 .. Len(reports)
      BY <2>1, <2>2, <3>1
    <3>2. CASE ~(n <= Len(reports))
      <4>1. n - Len(reports) \in 1 .. Len(Front(located))
        BY <2>1, <2>2, <3>2
      <4> QED BY <1>6, <2>2, <3>2, <4>1
    <3>3. n \in 1 .. Len(reports) \/ ~(n <= Len(reports))
      BY <2>1, <2>2
    <3> QED BY <3>1, <3>2, <3>3
  <2> QED BY <2>2, <2>3
<1>11. lastLine' \in DOMAIN LineStarts
  BY <1>4, <1>6 DEF Locs
<1>12. /\ LineStarts' = LineStarts /\ Locs' = Locs /\ Places' = Places /\ Toks' = Toks
       /\ \A loc : Exact(loc)' <=> Exact(loc)
  <2>1. LineStarts' = LineStarts /\ Locs' = Locs
    BY <1>4, SameLines
  <2>2. Places' = Places
    BY <1>4 DEF Places
  <2>3. Toks' = Toks
    BY <2>1, <2>2 DEF Toks
  <2>4. \A loc : Exact(loc)' <=> Exact(loc)
    BY <1>4, SameExact
  <2> QED BY <2>1, <2>2, <2>3, <2>4
<1>13. AnyText'
  BY <1>4 DEF LexInv, AnyText
<1> HIDE DEF token
<1>14. (\A n \in 1 .. Len(tokens) : Exact(tokens[n].at))'
       /\ (\A n \in 1 .. Len(reports) : Exact(reports[n]))'
  BY <1>9, <1>10, <1>12
<1>15. LexInv'
  BY <1>4, <1>9, <1>10, <1>11, <1>12, <1>13, <1>14 DEF LexInv
<1> QED BY <1>7, <1>15

-------------------------------------------------------------------------------
(* The tokens cover the text                                               *)

PrevEnd == IF tokens = <<>> THEN 1 ELSE Last(tokens).end

(* Between two tokens the lexer stays inside an ordinary text, and what it has *)
(* passed since the last token is spaces and comments.                     *)
Covered == Ordinary => cur \in 1 .. BufferEnd /\ PrevEnd <= cur /\ Trivia(PrevEnd, cur)

LEMMA SameText ==
  ASSUME text' = text, past' = past
  PROVE  /\ BufferEnd' = BufferEnd /\ (Ordinary' <=> Ordinary)
         /\ \A i : CharAt(i)' = CharAt(i)
         /\ \A from, end : Trivia(from, end)' <=> Trivia(from, end)
         /\ \A kind, from, end : Lexeme(kind, from, end)' <=> Lexeme(kind, from, end)
         /\ \A kind, from, end : Longest(kind, from, end)' <=> Longest(kind, from, end)
<1>1. BufferEnd' = BufferEnd /\ (Ordinary' <=> Ordinary)
  BY DEF BufferEnd, Ordinary
<1>2. \A i : CharAt(i)' = CharAt(i)
  BY <1>1 DEF CharAt
<1>3. \A from, end : Trivia(from, end)' <=> Trivia(from, end)
  BY DEF Trivia
<1>4. \A i : PairsAt(i)' = PairsAt(i) /\ (DotDotEqualAt(i)' <=> DotDotEqualAt(i))
  BY <1>2 DEF PairsAt, DotDotEqualAt
<1>5. \A from, end : Cut(from, end)' = Cut(from, end)
  BY <1>2 DEF Cut
<1>6. \A kind, from, end : Lexeme(kind, from, end)' <=> Lexeme(kind, from, end)
  BY <1>1, <1>4, <1>5 DEF Lexeme, Spells
<1>7. \A kind, from, end : Longest(kind, from, end)' <=> Longest(kind, from, end)
  BY <1>2, <1>4 DEF Longest
<1> QED BY <1>1, <1>2, <1>3, <1>6, <1>7

LEMMA SpacesAreTrivia ==
  ASSUME LexInv, NEW from \in Nat, Trivia(from, cur)
  PROVE  Trivia(from, TokenStart)
<1>1. /\ cur \in Nat /\ TokenStart \in Nat /\ TokenStart >= cur
      /\ \A j \in cur .. TokenStart - 1 : text[j] \in Spaces
  BY TokenStarts
<1> HIDE DEF TokenStart
<1>2. ASSUME NEW i \in from .. TokenStart - 1
      PROVE  \/ text[i] \in Spaces
             \/ \E s \in from .. i :
                  /\ text[s] = "/" /\ s < Len(text) /\ text[s + 1] = "/"
                  /\ i > s \/ i + 1 < TokenStart
                  /\ \A k \in s .. i : text[k] # Newline
  <2>1. CASE i \in from .. cur - 1
    <3>1. i + 1 < cur => i + 1 < TokenStart
      BY <1>1
    <3> QED BY <2>1, <3>1 DEF Trivia
  <2>2. CASE i \in cur .. TokenStart - 1
    BY <1>1, <2>2
  <2> QED BY <1>1, <2>1, <2>2
<1> QED BY <1>2 DEF Trivia

(* TokensCoverText with names for the parts of the last token. *)
LastCovers ==
  Ordinary /\ tokens # <<>> =>
    \A kind, from, at, end :
      /\ kind = tokens[Len(tokens)].kind
      /\ at = tokens[Len(tokens)].at.ptr
      /\ end = tokens[Len(tokens)].end
      /\ from = IF Len(tokens) = 1 THEN 1 ELSE tokens[Len(tokens) - 1].end
      => Trivia(from, at) /\ Lexeme(kind, at, end) /\ Longest(kind, at, end)

LEMMA LastCoversIs == TokensCoverText <=> LastCovers
BY DEF TokensCoverText, LastCovers

LEMMA TokenCovers ==
  ASSUME LexInv, Covered, NEW kind \in Kinds, NEW end \in Places, Formed(kind, end),
         Ordinary => /\ end <= BufferEnd
                     /\ Lexeme(kind, TokenStart, end)
                     /\ Longest(kind, TokenStart, end)
  PROVE  TokensCoverText' /\ Covered'
<1> DEFINE start == TokenStart
<1>1. PICK loc \in Locs :
        /\ loc.ptr = start
        /\ tokens' = Append(tokens, [kind |-> kind, at |-> loc, end |-> end])
        /\ cur' = end /\ text' = text /\ past' = past
  BY DEF Formed
<1> DEFINE token == [kind |-> kind, at |-> loc, end |-> end]
           n == Len(tokens)
<1>2. /\ tokens \in Seq(Toks) /\ n \in Nat
      /\ \A k \in 1 .. n : tokens[k] \in Toks
  BY LenProperties DEF LexInv
<1>3. token \in Toks /\ token.kind = kind /\ token.at.ptr = start /\ token.end = end
  BY <1>1 DEF Toks
<1> HIDE DEF token, start, n
<1>4. /\ Len(tokens') = n + 1 /\ tokens'[n + 1] = token /\ tokens' # <<>>
      /\ \A k \in 1 .. n : tokens'[k] = tokens[k]
  <2>1. tokens' = Append(tokens, token)
    BY <1>1 DEF token
  <2> QED BY <1>2, <1>3, <2>1, AppendProperties DEF n
<1>5. PrevEnd = (IF n + 1 = 1 THEN 1 ELSE tokens'[n + 1 - 1].end) /\ PrevEnd \in Nat
  <2>1. CASE tokens = <<>>
    BY <2>1 DEF PrevEnd, n
  <2>2. CASE tokens # <<>>
    <3>1. n > 0
      BY <1>2, <2>2, EmptySeq DEF n
    <3>2. n + 1 # 1 /\ n + 1 - 1 = n /\ n \in 1 .. n
      BY <1>2, <3>1
    <3>3. PrevEnd = tokens[n].end /\ tokens[n].end \in Places
      BY <1>2, <2>2, <3>2 DEF PrevEnd, Last, n, Toks
    <3>4. Places \subseteq Nat
      BY DEF Places
    <3> QED BY <1>4, <3>2, <3>3, <3>4
  <2> QED BY <2>1, <2>2
<1>6. ASSUME Ordinary
      PROVE  Trivia(PrevEnd, start) /\ Lexeme(kind, start, end) /\ Longest(kind, start, end)
             /\ end \in 1 .. BufferEnd
  <2>1. Trivia(PrevEnd, start)
    BY <1>5, <1>6, SpacesAreTrivia DEF Covered, start
  <2>2. end \in 1 .. BufferEnd
    BY <1>6, TokenStarts DEF Places
  <2> QED BY <1>6, <2>1, <2>2 DEF start
<1>7. /\ BufferEnd' = BufferEnd /\ (Ordinary' <=> Ordinary)
      /\ \A a, b : Trivia(a, b)' <=> Trivia(a, b)
      /\ \A k, a, b : Lexeme(k, a, b)' <=> Lexeme(k, a, b)
      /\ \A k, a, b : Longest(k, a, b)' <=> Longest(k, a, b)
  BY <1>1, SameText, Zenon
<1>8. TokensCoverText'
  <2>1. LastCovers'
    <3> SUFFICES ASSUME Ordinary', NEW k, NEW from, NEW at, NEW e,
                        k = tokens'[Len(tokens')].kind,
                        at = tokens'[Len(tokens')].at.ptr,
                        e = tokens'[Len(tokens')].end,
                        from = IF Len(tokens') = 1 THEN 1 ELSE tokens'[Len(tokens') - 1].end
                 PROVE  Trivia(from, at)' /\ Lexeme(k, at, e)' /\ Longest(k, at, e)'
      BY DEF LastCovers
    <3>1. Ordinary
      BY <1>7
    <3>2. k = kind /\ at = start /\ e = end /\ from = PrevEnd
      <4>1. Len(tokens') = n + 1
        BY <1>4
      <4>2. k = kind /\ at = start /\ e = end
        BY <1>3, <1>4, <4>1
      <4>3. from = IF n + 1 = 1 THEN 1 ELSE tokens'[n + 1 - 1].end
        BY <1>2, <4>1
      <4> QED BY <1>5, <4>2, <4>3, Zenon
    <3>3. Trivia(from, at) /\ Lexeme(k, at, e) /\ Longest(k, at, e)
      BY <1>6, <3>1, <3>2
    <3> QED BY <1>7, <3>3, Zenon
  <2> QED BY <2>1, LastCoversIs, PTL
<1>9. Covered'
  <2>1. PrevEnd' = end
    <3>1. PrevEnd' = tokens'[n + 1].end
      BY <1>4 DEF PrevEnd, Last
    <3> QED BY <1>3, <1>4, <3>1
  <2>2. Trivia(end, end)
    <3>1. end .. end - 1 = {}
      BY DEF Places
    <3> QED BY <3>1 DEF Trivia
  <2> QED BY <1>1, <1>6, <1>7, <2>1, <2>2 DEF Covered
<1> QED BY <1>8, <1>9

LEMMA OrdinaryText ==
  ASSUME LexInv, Ordinary
  PROVE  /\ Len(text) > 0 /\ text[Len(text)] = Newline
         /\ \A i \in 1 .. Len(text) - 2 :
              ~(text[i] = "/" /\ text[i + 1] = "/" /\ text[i + 2] = Newline)
<1>1. text \in Seq(STRING) /\ Len(text) \in Nat
  BY LenProperties DEF LexInv, AnyText
<1>2. Len(text) > 0
  BY <1>1, EmptySeq DEF Ordinary
<1>3. text[Len(text)] = Newline
  BY DEF Ordinary, Last
<1>4. ASSUME NEW i \in 1 .. Len(text) - 2, text[i] = "/", text[i + 1] = "/", text[i + 2] = Newline
      PROVE  FALSE
  <2> DEFINE three == SubSeq(text, i, i + 2)
  <2>1. /\ \A k \in i .. i + 2 : text[k] \in STRING
        /\ i \in Int /\ i + 2 \in Int
    BY <1>1, LenProperties
  <2>2. three \in Seq(STRING) /\ Len(three) = 3 /\ \A k \in 1 .. 3 : three[k] = text[i + k - 1]
    <3>1. /\ three \in Seq(STRING)
          /\ Len(three) = IF i <= i + 2 THEN (i + 2) - i + 1 ELSE 0
          /\ \A k \in 1 .. (i + 2) - i + 1 : three[k] = text[i + k - 1]
      BY <2>1, SubSeqProperties
    <3> HIDE DEF three
    <3> QED BY <2>1, <3>1
  <2> HIDE DEF three
  <2>3. three[1] = "/" /\ three[2] = "/" /\ three[3] = Newline
    <3>1. i + 1 - 1 = i /\ i + 2 - 1 = i + 1 /\ i + 3 - 1 = i + 2
      BY <2>1
    <3>2. three[1] = text[i + 1 - 1] /\ three[2] = text[i + 2 - 1] /\ three[3] = text[i + 3 - 1]
      BY <2>2
    <3> QED BY <1>4, <3>1, <3>2
  <2>4. three = <<"/", "/", Newline>>
    <3>1. three = [k \in 1 .. 3 |-> three[k]]
      BY <2>2, LenProperties
    <3>2. <<"/", "/", Newline>> = [k \in 1 .. 3 |-> <<"/", "/", Newline>>[k]]
      OBVIOUS
    <3>3. \A k \in 1 .. 3 : three[k] = <<"/", "/", Newline>>[k]
      BY <2>3
    <3> QED BY <3>1, <3>2, <3>3
  <2> QED BY <2>4 DEF Ordinary, three
<1> QED BY <1>2, <1>3, <1>4

LEMMA StartInText ==
  ASSUME LexInv, TokenStart < BufferEnd
  PROVE  /\ TokenStart \in 1 .. Len(text) /\ TokenStart \in Nat \ {0}
         /\ Len(text) \in Nat /\ BufferEnd = Len(text) + 1
         /\ CharAt(TokenStart) = text[TokenStart] /\ text[TokenStart] \in STRING
<1>1. /\ Len(text) \in Nat /\ BufferEnd = Len(text) + 1
      /\ TokenStart \in Nat \ {0}
  BY TokenStarts
<1>2. CharAt(TokenStart) = text[TokenStart] /\ text[TokenStart] \in STRING
  BY <1>1, CharsTyped DEF LexInv
<1> QED BY <1>1, <1>2

(* The end of a run that starts in an ordinary text, of characters that are no *)
(* newlines.                                                               *)
LEMMA RunInText ==
  ASSUME LexInv, NEW i \in Nat \ {0}, NEW S, Newline \notin S,
         i <= BufferEnd
  PROVE  /\ EndOfRun(i, S) \in Nat /\ EndOfRun(i, S) >= i /\ EndOfRun(i, S) <= BufferEnd
         /\ EndOfRun(i, S) \in Places
         /\ \A j \in i .. EndOfRun(i, S) - 1 : text[j] \in S
         /\ Ordinary /\ i < BufferEnd =>
              /\ EndOfRun(i, S) < BufferEnd
              /\ CharAt(EndOfRun(i, S)) = text[EndOfRun(i, S)]
              /\ text[EndOfRun(i, S)] \notin S
<1> DEFINE e == EndOfRun(i, S)
<1>1. Len(text) \in Nat /\ BufferEnd = Len(text) + 1 /\ AnyText
  BY TokenStarts DEF LexInv
<1>2. /\ e \in Nat /\ e >= i /\ e <= BufferEnd
      /\ \A j \in i .. e - 1 : text[j] \in S
      /\ i < BufferEnd /\ e < BufferEnd => text[e] \notin S
  BY <1>1, RunEnds DEF RunEnd
<1> HIDE DEF e
<1>3. e \in Places
  BY <1>1, <1>2 DEF Places
<1>4. ASSUME Ordinary, i < BufferEnd
      PROVE  e < BufferEnd /\ CharAt(e) = text[e] /\ text[e] \notin S
  <2>1. e < BufferEnd
    <3> SUFFICES ASSUME e = BufferEnd PROVE FALSE
      BY <1>1, <1>2
    <3>1. Len(text) \in i .. e - 1
      BY <1>1, <1>2, <1>4
    <3>2. text[Len(text)] \in S
      BY <1>2, <3>1
    <3> QED BY <1>4, <3>2, OrdinaryText
  <2>2. e \in Nat \ {0}
    BY <1>2
  <2> QED BY <1>1, <1>2, <1>4, <2>1, <2>2, CharsTyped
<1> QED BY <1>2, <1>3, <1>4 DEF e

(* What a lexeme is, kind by kind. *)
LEMMA LexemeOfClass ==
  ASSUME NEW kind, NEW from, NEW end
  PROVE  /\ kind = "int" /\ (\A k \in from .. end - 1 : text[k] \in Digits) => Lexeme(kind, from, end)
         /\ /\ kind = "float" /\ text[from] # "."
            /\ \A k \in from .. end - 1 : text[k] \in Digits \cup {"."}
            => Lexeme(kind, from, end)
         /\ kind = "string" /\ text[from] = Quote => Lexeme(kind, from, end)
         /\ /\ kind = "ident" /\ text[from] \in Letters
            /\ \A k \in from .. end - 1 : text[k] \in Letters \cup Digits
            => Lexeme(kind, from, end)
         /\ kind = "unknown" /\ end = from + 1 => Lexeme(kind, from, end)
         /\ kind = "eof" /\ from = BufferEnd /\ end = BufferEnd => Lexeme(kind, from, end)
<1>1. kind = "int" => (Lexeme(kind, from, end) <=> {text[k] : k \in from .. end - 1} \subseteq Digits)
  BY LexerAssumption DEF Lexeme
<1>2. kind = "float" => (Lexeme(kind, from, end) <=> {text[k] : k \in from .. end - 1} \subseteq Digits \cup {"."} /\ text[from] # ".")
  BY LexerAssumption DEF Lexeme
<1>3. kind = "string" => (Lexeme(kind, from, end) <=> text[from] = Quote)
  BY LexerAssumption DEF Lexeme
<1>4. kind = "ident" => (Lexeme(kind, from, end) <=> text[from] \in Letters /\ {text[k] : k \in from .. end - 1} \subseteq Letters \cup Digits)
  BY LexerAssumption DEF Lexeme
<1>5. kind = "unknown" => (Lexeme(kind, from, end) <=> end = from + 1)
  BY LexerAssumption DEF Lexeme
<1>6. kind = "eof" => (Lexeme(kind, from, end) <=> from = BufferEnd /\ end = BufferEnd)
  BY LexerAssumption DEF Lexeme
<1> QED BY <1>1, <1>2, <1>3, <1>4, <1>5, <1>6

LEMMA KindsDiffer ==
  /\ PunctuationKinds \cap {"ident", "int", "float", "string", "unknown", "eof"} = {}
  /\ Range(Keywords) \cap {"ident", "int", "float", "string", "unknown", "eof"} = {}
  /\ Range(Keywords) \cap PunctuationKinds = {}
<1>1. {p[3] : p \in Pairs} \cap {"ident", "int", "float", "string", "unknown", "eof"} = {}
  BY DEF Pairs
<1>2. PunctuationKinds \cap {"ident", "int", "float", "string", "unknown", "eof"} = {}
  BY <1>1 DEF PunctuationKinds, Punctuation
<1> QED BY <1>2, LexerAssumption

LEMMA LexemeOfKeyword ==
  ASSUME NEW kind \in Range(Keywords), NEW from, NEW end, Spells(from, end, kind)
  PROVE  Lexeme(kind, from, end)
<1>1. kind \notin {"ident", "int", "float", "string", "unknown", "eof"}
  BY KindsDiffer
<1> QED BY <1>1 DEF Lexeme

LEMMA LexemeOfPunctuation ==
  ASSUME NEW kind \in PunctuationKinds, NEW from, NEW end,
         \/ end = from + 1 /\ kind = text[from] /\ kind \in Punctuation
         \/ end = from + 2 /\ <<text[from], text[from + 1], kind>> \in Pairs
         \/ end = from + 3 /\ kind = "..=" /\ DotDotEqualAt(from)
  PROVE  Lexeme(kind, from, end)
<1>1. kind \notin {"ident", "int", "float", "string", "unknown", "eof"} /\ kind \notin Range(Keywords)
  BY KindsDiffer
<1> QED BY <1>1 DEF Lexeme

LEMMA LongestOfKind ==
  ASSUME NEW kind, NEW from, NEW end
  PROVE  /\ kind \in {"string", "unknown", "eof"} => Longest(kind, from, end)
         /\ kind \in {"ident"} \cup Range(Keywords) /\ CharAt(end) \notin Letters \cup Digits
            => Longest(kind, from, end)
         /\ /\ kind = "int" /\ CharAt(end) \notin Digits
            /\ CharAt(end) = "." => CharAt(end + 1) = "."
            => Longest(kind, from, end)
         /\ kind = "float" /\ CharAt(end) \notin Digits => Longest(kind, from, end)
         /\ /\ kind \in PunctuationKinds
            /\ DotDotEqualAt(from) => end = from + 3
            /\ PairsAt(from) # {} => end > from + 1
            /\ kind = "/" => CharAt(end) # "/"
            => Longest(kind, from, end)
<1>1. kind \in {"string", "unknown", "eof"} => Longest(kind, from, end)
  BY KindsDiffer DEF Longest
<1>2. kind \in {"ident"} \cup Range(Keywords) /\ CharAt(end) \notin Letters \cup Digits
      => Longest(kind, from, end)
  BY KindsDiffer DEF Longest
<1>3. /\ kind = "int" /\ CharAt(end) \notin Digits
      /\ CharAt(end) = "." => CharAt(end + 1) = "."
      => Longest(kind, from, end)
  BY KindsDiffer DEF Longest
<1>4. kind = "float" /\ CharAt(end) \notin Digits => Longest(kind, from, end)
  BY KindsDiffer DEF Longest
<1>5. /\ kind \in PunctuationKinds
      /\ DotDotEqualAt(from) => end = from + 3
      /\ PairsAt(from) # {} => end > from + 1
      /\ kind = "/" => CharAt(end) # "/"
      => Longest(kind, from, end)
  BY KindsDiffer DEF Longest
<1> QED BY <1>1, <1>2, <1>3, <1>4, <1>5

LEMMA LexEndSteps ==
  ASSUME LexInv, Covered, LexEnd
  PROVE  LexInv' /\ TokensCoverText' /\ Covered'
<1>1. TokenStart \in Places /\ TokenStart >= BufferEnd /\ BufferEnd \in Nat
  BY TokenStarts DEF LexEnd
<1>2. <<>> \in Seq(Nat \ {0}) /\ "eof" \in Kinds
  BY DEF Kinds
<1>3. FormToken("eof", TokenStart, <<>>)
  BY DEF LexEnd
<1>4. Formed("eof", TokenStart) /\ LexInv'
  BY <1>1, <1>2, <1>3, FormTokenFacts
<1>5. ASSUME Ordinary
      PROVE  TokenStart <= BufferEnd /\ Lexeme("eof", TokenStart, TokenStart)
             /\ Longest("eof", TokenStart, TokenStart)
  <2>1. TokenStart = BufferEnd
    BY <1>1, <1>5, TokenStarts DEF Covered
  <2>2. Longest("eof", TokenStart, TokenStart)
    BY LongestOfKind
  <2>3. Lexeme("eof", TokenStart, TokenStart)
    BY <2>1, LexemeOfClass, Zenon
  <2>4. TokenStart <= BufferEnd
    BY <1>1, <2>1
  <2> QED BY <2>2, <2>3, <2>4
<1> QED BY <1>1, <1>2, <1>4, <1>5, TokenCovers

LEMMA LexIdentifierOrKeywordSteps ==
  ASSUME LexInv, Covered, LexIdentifierOrKeyword
  PROVE  LexInv' /\ TokensCoverText' /\ Covered'
<1> DEFINE start == TokenStart
           chars == Letters \cup Digits
           end == EndOfRun(start, chars)
           word == Cut(start, end)
           kind == IF word \in DOMAIN Keywords THEN Keywords[word] ELSE "ident"
<1>1. /\ start \in Nat \ {0} /\ start < BufferEnd /\ BufferEnd \in Nat
      /\ text[start] \in Letters
      /\ FormToken(kind, end, <<>>)
  BY StartInText DEF LexIdentifierOrKeyword
<1>2. Newline \notin chars
  BY LexerAssumption DEF Spaces
<1> HIDE DEF start, chars
<1>3. /\ end \in Nat /\ end >= start /\ end <= BufferEnd /\ end \in Places
      /\ \A j \in start .. end - 1 : text[j] \in chars
      /\ Ordinary => CharAt(end) = text[end] /\ text[end] \notin chars
  BY <1>1, <1>2, RunInText
<1> HIDE DEF end
<1>4. kind \in Kinds /\ kind \in {"ident"} \cup Range(Keywords)
  BY DEF Kinds, Range
<1>5. kind # "ident" => Spells(start, end, kind)
  BY DEF Spells
<1> HIDE DEF kind
<1>6. <<>> \in Seq(Nat \ {0})
  OBVIOUS
<1>7. Formed(kind, end) /\ LexInv'
  BY <1>1, <1>3, <1>4, <1>6, FormTokenFacts
<1>8. Lexeme(kind, start, end)
  <2>1. CASE kind = "ident"
    BY <1>1, <1>3, <2>1, LexemeOfClass DEF chars
  <2>2. CASE kind # "ident"
    BY <1>4, <1>5, <2>2, LexemeOfKeyword
  <2> QED BY <2>1, <2>2
<1>9. Ordinary => Longest(kind, start, end)
  <2> SUFFICES ASSUME Ordinary PROVE Longest(kind, start, end)
    OBVIOUS
  <2>1. CharAt(end) \notin Letters \cup Digits
    BY <1>3 DEF chars
  <2> QED BY <1>4, <2>1, LongestOfKind, Zenon
<1> QED BY <1>3, <1>4, <1>7, <1>8, <1>9, TokenCovers DEF start

LEMMA LexNumberSteps ==
  ASSUME LexInv, Covered, LexNumber
  PROVE  LexInv' /\ TokensCoverText' /\ Covered'
<1> DEFINE start == TokenStart
           end == EndOfRun(start, Digits)
           last == EndOfRun(end + 1, Digits)
<1>1. /\ start \in Nat \ {0} /\ start < BufferEnd /\ BufferEnd = Len(text) + 1 /\ Len(text) \in Nat
      /\ text[start] \in Digits
  BY StartInText DEF LexNumber
<1>2. IF CharAt(end) = "." /\ CharAt(end + 1) # "." THEN FormToken("float", last, <<>>)
      ELSE FormToken("int", end, <<>>)
  BY DEF LexNumber
<1>3. Newline \notin Digits /\ "." \notin Digits
  BY LexerAssumption DEF Spaces, Punctuation
<1> HIDE DEF start
<1>4. /\ end \in Nat /\ end >= start /\ end <= BufferEnd /\ end \in Places
      /\ \A j \in start .. end - 1 : text[j] \in Digits
      /\ Ordinary => end < BufferEnd /\ CharAt(end) = text[end] /\ text[end] \notin Digits
  BY <1>1, <1>3, RunInText
<1> HIDE DEF end
<1>5. <<>> \in Seq(Nat \ {0}) /\ "int" \in Kinds /\ "float" \in Kinds
  BY DEF Kinds
<1>6. CASE ~(CharAt(end) = "." /\ CharAt(end + 1) # ".")
  <2>1. FormToken("int", end, <<>>)
    BY <1>2, <1>6
  <2>2. Formed("int", end) /\ LexInv'
    BY <1>4, <1>5, <2>1, FormTokenFacts
  <2>3. Lexeme("int", start, end)
    BY <1>4, LexemeOfClass
  <2>4. Ordinary => Longest("int", start, end)
    BY <1>4, <1>6, LongestOfKind
  <2> QED BY <1>4, <1>5, <2>2, <2>3, <2>4, TokenCovers DEF start
<1>7. CASE CharAt(end) = "." /\ CharAt(end + 1) # "."
  <2>1. FormToken("float", last, <<>>)
    BY <1>2, <1>7
  <2>2. AnyText /\ end + 1 \in Nat \ {0}
    BY <1>4 DEF LexInv
  <2>3. /\ last \in Nat /\ last >= end + 1
        /\ end + 1 <= BufferEnd => last <= BufferEnd
        /\ end + 1 >= BufferEnd => last = end + 1
        /\ \A j \in end + 1 .. last - 1 : text[j] \in Digits
    BY <2>2, RunEnds DEF RunEnd
  <2>4. Ordinary /\ end + 1 < BufferEnd => CharAt(last) = text[last] /\ text[last] \notin Digits
    BY <1>1, <1>3, <2>2, RunInText
  <2> HIDE DEF last
  <2>5. last \in Places
    BY <1>1, <1>4, <2>3 DEF Places
  <2>6. Formed("float", last) /\ LexInv'
    BY <1>5, <2>1, <2>5, FormTokenFacts
  <2>7. ASSUME Ordinary
        PROVE  last <= BufferEnd /\ Lexeme("float", start, last) /\ Longest("float", start, last)
    <3>1. end < BufferEnd /\ text[end] = "."
      BY <1>4, <1>7, <2>7
    <3>2. end + 1 < BufferEnd
      <4>1. end # Len(text)
        BY <2>7, <3>1, OrdinaryText DEF Newline
      <4> QED BY <1>1, <1>4, <3>1, <4>1
    <3>3. last <= BufferEnd
      BY <1>1, <1>4, <2>3, <3>2
    <3>4. \A j \in start .. last - 1 : text[j] \in Digits \cup {"."}
      <4>1. \A j \in start .. last - 1 : j \in start .. end - 1 \/ j = end \/ j \in end + 1 .. last - 1
        BY <1>1, <1>4, <2>3
      <4> QED BY <1>4, <2>3, <3>1, <4>1
    <3>5. Lexeme("float", start, last)
      BY <1>1, <1>3, <3>4, LexemeOfClass
    <3>6. Longest("float", start, last)
      BY <2>4, <2>7, <3>2, LongestOfKind
    <3> QED BY <3>3, <3>5, <3>6
  <2> QED BY <1>5, <2>5, <2>6, <2>7, TokenCovers DEF start
<1> QED BY <1>6, <1>7

(* What a literal may end as. *)
LiteralEnds == [end : TokenStart + 1 .. BufferEnd, closed : BOOLEAN, unknown : Seq(Nat \ {0})]

(* How the literal ends from i, when it is known how it ends from i + 1 and i + 2. *)
Noted(rest, i) == [rest EXCEPT !.unknown = <<i>> \o @]

LiteralFrom(i, next, afterNext) ==
  CASE i >= BufferEnd -> [end |-> BufferEnd, closed |-> FALSE, unknown |-> <<>>]
    [] i < BufferEnd /\ text[i] = Quote -> [end |-> i + 1, closed |-> TRUE, unknown |-> <<>>]
    [] i < BufferEnd /\ text[i] = Backslash ->
         IF i + 1 = BufferEnd \/ text[i + 1] \in SupportedEscapes THEN afterNext
         ELSE Noted(afterNext, i)
    [] OTHER -> next

LEMMA QuoteIsNoBackslash == Quote # Backslash
BY Zenon DEF Quote, Backslash

LEMMA LiteralFromTyped ==
  ASSUME LexInv, TokenStart < BufferEnd, NEW i \in TokenStart + 1 .. BufferEnd + 1,
         NEW next \in LiteralEnds, NEW afterNext \in LiteralEnds
  PROVE  LiteralFrom(i, next, afterNext) \in LiteralEnds
<1>1. TokenStart \in Nat /\ BufferEnd \in Nat /\ i \in Nat \ {0}
  BY StartInText
<1>2. CASE i >= BufferEnd
  <2>1. LiteralFrom(i, next, afterNext) = [end |-> BufferEnd, closed |-> FALSE, unknown |-> <<>>]
    BY <1>1, <1>2 DEF LiteralFrom
  <2> QED BY <1>1, <2>1 DEF LiteralEnds
<1>3. CASE i < BufferEnd /\ text[i] = Quote
  <2>1. LiteralFrom(i, next, afterNext) = [end |-> i + 1, closed |-> TRUE, unknown |-> <<>>]
    BY <1>1, <1>3, QuoteIsNoBackslash DEF LiteralFrom
  <2> QED BY <1>1, <1>3, <2>1 DEF LiteralEnds
<1>4. CASE i < BufferEnd /\ text[i] = Backslash
  <2> DEFINE longer == Noted(afterNext, i)
  <2>1. LiteralFrom(i, next, afterNext)
          = IF i + 1 = BufferEnd \/ text[i + 1] \in SupportedEscapes THEN afterNext ELSE longer
    BY <1>1, <1>4, QuoteIsNoBackslash DEF LiteralFrom
  <2>2. longer \in LiteralEnds
    <3>1. afterNext.unknown \in Seq(Nat \ {0}) /\ <<i>> \in Seq(Nat \ {0})
      BY <1>1 DEF LiteralEnds
    <3>2. <<i>> \o afterNext.unknown \in Seq(Nat \ {0})
      BY <3>1, ConcatProperties
    <3> QED BY <3>2 DEF LiteralEnds, Noted
  <2> QED BY <2>1, <2>2
<1>5. CASE i < BufferEnd /\ text[i] # Quote /\ text[i] # Backslash
  BY <1>1, <1>5 DEF LiteralFrom
<1> QED BY <1>1, <1>2, <1>3, <1>4, <1>5

LEMMA LiteralTyped ==
  ASSUME LexInv, TokenStart < BufferEnd
  PROVE  Literal \in LiteralEnds
<1> DEFINE low == TokenStart + 1
           top == BufferEnd + 1
           n == top - low
           ended == [end |-> BufferEnd, closed |-> FALSE, unknown |-> <<>>]
           Windows == [this : LiteralEnds, next : LiteralEnds]
           base == [this |-> ended, next |-> ended]
           step == [k \in 1 .. n |-> [w \in Windows |->
                     [this |-> LiteralFrom(top - k, w.this, w.next), next |-> w.this]]]
           Good(f) == f = [i \in low .. top |-> LiteralFrom(i, f[i + 1], f[i + 2])]
<1>1. /\ TokenStart \in Nat /\ BufferEnd \in Nat /\ low \in Nat /\ top \in Nat /\ n \in Nat
      /\ low < top /\ top = BufferEnd + 1
  BY StartInText
<1>2. ended \in LiteralEnds
  BY <1>1 DEF LiteralEnds
<1>3. base \in Windows /\ base.this = ended
  BY <1>2
<1>4. step \in [1 .. n -> [Windows -> Windows]]
  <2>1. ASSUME NEW k \in 1 .. n, NEW w \in Windows
        PROVE  LiteralFrom(top - k, w.this, w.next) \in LiteralEnds /\ w.this \in LiteralEnds
    <3>1. top - k \in low .. top
      BY <1>1
    <3>2. w.this \in LiteralEnds /\ w.next \in LiteralEnds
      OBVIOUS
    <3> QED BY <3>1, <3>2, LiteralFromTyped
  <2> QED BY <2>1
<1>5. \A k \in 1 .. n, w \in Windows :
        /\ step[k][w].this = LiteralFrom(top - k, w.this, w.next)
        /\ step[k][w].next = w.this
  OBVIOUS
<1>6. \A a, b : LiteralFrom(top, a, b) = ended
  BY <1>1 DEF LiteralFrom
<1>7. \A i \in low .. top : i >= BufferEnd => \A a, b, c, d : LiteralFrom(i, a, b) = LiteralFrom(i, c, d)
  BY <1>1 DEF LiteralFrom
<1> HIDE DEF step, base, Windows, n, low, top
<1>8. PICK f : Iteration(f, n, Windows, base, step)
  BY <1>1, <1>3, <1>4, Iterated, Zenon
<1>9. ASSUME NEW k \in 1 .. n
      PROVE  /\ f[k - 1] \in Windows
             /\ f[k].this = LiteralFrom(top - k, f[k - 1].this, f[k - 1].next)
             /\ f[k].next = f[k - 1].this
  <2>1. k - 1 \in 0 .. n
    BY <1>1
  <2>2. f[k - 1] \in Windows /\ f[k] = step[k][f[k - 1]]
    BY <1>8, <2>1 DEF Iteration
  <2> QED BY <1>5, <2>2
<1>10. f[0] = base
  BY <1>8 DEF Iteration
<1>11. n = top - low
  BY DEF n
<1> DEFINE h == [i \in low .. top |-> f[top - i].this]
<1>12. ASSUME NEW i \in low .. top
       PROVE  h[i] = LiteralFrom(i, h[i + 1], h[i + 2])
  <2>1. i \in Nat /\ h[i] = f[top - i].this
    BY <1>1
  <2>2. CASE i = top
    <3>1. top - i = 0
      BY <1>1, <2>2
    <3>2. h[i] = ended
      BY <1>3, <1>10, <2>1, <3>1
    <3> QED BY <1>6, <2>2, <3>2
  <2>3. CASE i # top
    <3> DEFINE k == top - i
    <3>1. /\ k \in 1 .. n /\ top - k = i
          /\ i + 1 \in low .. top /\ top - (i + 1) = k - 1
      BY <1>1, <1>11, <2>3
    <3>2. h[i + 1] = f[k - 1].this
      BY <3>1
    <3>3. h[i] = LiteralFrom(i, h[i + 1], f[k - 1].next)
      BY <1>9, <2>1, <3>1, <3>2
    <3>4. CASE k = 1
      <4>1. i >= BufferEnd
        BY <1>1, <2>1, <3>4
      <4> QED BY <1>7, <3>3, <4>1
    <3>5. CASE k # 1
      <4>1. k - 1 \in 1 .. n /\ i + 2 \in low .. top /\ top - (i + 2) = (k - 1) - 1
        BY <1>1, <1>11, <3>1, <3>5
      <4>2. f[k - 1].next = f[(k - 1) - 1].this
        BY <1>9, <4>1
      <4>3. h[i + 2] = f[(k - 1) - 1].this
        BY <4>1
      <4> QED BY <3>3, <4>2, <4>3
    <3> QED BY <3>4, <3>5
  <2> QED BY <2>2, <2>3
<1>13. h = [i \in low .. top |-> h[i]]
  OBVIOUS
<1> HIDE DEF h
<1>14. Good(h)
  BY <1>12, <1>13
<1> DEFINE Raw(r) ==
      r = [i \in TokenStart + 1 .. BufferEnd + 1 |->
             CASE i >= BufferEnd -> [end |-> BufferEnd, closed |-> FALSE, unknown |-> <<>>]
               [] i < BufferEnd /\ text[i] = Quote -> [end |-> i + 1, closed |-> TRUE, unknown |-> <<>>]
               [] i < BufferEnd /\ text[i] = Backslash ->
                    LET rest == r[i + 2]
                    IN IF i + 1 = BufferEnd \/ text[i + 1] \in SupportedEscapes THEN rest
                       ELSE [rest EXCEPT !.unknown = <<i>> \o @]
               [] OTHER -> r[i + 1]]
<1>15. \A r : Good(r) <=> Raw(r)
  BY DEF LiteralFrom, Noted, low, top
<1>16. \E r : Raw(r)
  BY <1>14, <1>15
<1>17. PICK g : Raw(g) /\ Literal = g[TokenStart + 1]
  <2>1. LET g == CHOOSE r : Raw(r) IN Raw(g) /\ Literal = g[TokenStart + 1]
    BY <1>16 DEF Literal
  <2> QED BY <2>1
<1>18. Good(g)
  BY <1>15, <1>17
<1>19. \A i \in low .. top : g[i] = LiteralFrom(i, g[i + 1], g[i + 2])
  BY <1>18
<1> HIDE DEF Good, Raw, ended
<1> DEFINE Fine(k) == g[top - k] \in LiteralEnds
           T == {k \in Nat : k <= n => Fine(k) /\ (k > 0 => Fine(k - 1))}
<1>20. 0 \in T
  <2>1. top - 0 = top /\ top \in low .. top
    BY <1>1
  <2> QED BY <1>2, <1>6, <1>19, <2>1
<1>21. ASSUME NEW k \in Nat, k \in T PROVE k + 1 \in T
  <2> SUFFICES ASSUME k + 1 <= n PROVE Fine(k + 1) /\ Fine(k)
    BY <1>1
  <2> DEFINE i == top - (k + 1)
  <2>1. Fine(k) /\ (k > 0 => Fine(k - 1))
    BY <1>1, <1>21
  <2>2. i \in low .. top /\ i + 1 = top - k /\ i + 2 = top - (k - 1)
    BY <1>1, <1>11
  <2>3. g[i] = LiteralFrom(i, g[i + 1], g[i + 2]) /\ g[i + 1] \in LiteralEnds
    BY <1>19, <2>1, <2>2
  <2>4. i \in TokenStart + 1 .. BufferEnd + 1
    BY <2>2 DEF low, top
  <2>5. CASE k = 0
    <3>1. i >= BufferEnd
      BY <1>1, <2>5
    <3>2. g[i] = LiteralFrom(i, ended, ended)
      BY <1>7, <2>2, <2>3, <3>1
    <3> QED BY <1>2, <2>1, <2>4, <3>2, LiteralFromTyped
  <2>6. CASE k > 0
    <3>1. g[i + 2] \in LiteralEnds
      BY <2>1, <2>2, <2>6
    <3> QED BY <2>1, <2>3, <2>4, <3>1, LiteralFromTyped
  <2> QED BY <2>5, <2>6
<1>22. Nat \subseteq T
  <2> HIDE DEF T
  <2> QED BY <1>20, <1>21, SetInduction
<1>23. g[low] \in LiteralEnds
  <2>1. n \in T /\ top - n = low
    BY <1>1, <1>11, <1>22
  <2> QED BY <1>1, <2>1
<1> QED BY <1>17, <1>23 DEF low

LEMMA LexStringLiteralSteps ==
  ASSUME LexInv, Covered, LexStringLiteral
  PROVE  LexInv' /\ TokensCoverText' /\ Covered'
<1> DEFINE start == TokenStart
           end == Literal.end
           ptrs == Literal.unknown \o (IF Literal.closed THEN <<>> ELSE <<TokenStart>>)
<1>1. /\ start < BufferEnd /\ start \in Nat \ {0} /\ text[start] = Quote
      /\ BufferEnd = Len(text) + 1 /\ Len(text) \in Nat
      /\ FormToken("string", end, ptrs)
  BY StartInText DEF LexStringLiteral
<1>2. Literal \in LiteralEnds
  BY <1>1, LiteralTyped
<1>3. end \in start + 1 .. BufferEnd
  BY <1>2 DEF LiteralEnds
<1>4. ptrs \in Seq(Nat \ {0})
  <2>1. Literal.unknown \in Seq(Nat \ {0})
    BY <1>2 DEF LiteralEnds
  <2>2. <<>> \in Seq(Nat \ {0}) /\ <<start>> \in Seq(Nat \ {0})
    BY <1>1
  <2> QED BY <2>1, <2>2, ConcatProperties
<1> HIDE DEF start, end, ptrs
<1>5. end \in Places /\ end <= BufferEnd
  BY <1>1, <1>3 DEF Places
<1>6. "string" \in Kinds
  BY DEF Kinds
<1>7. Formed("string", end) /\ LexInv'
  BY <1>1, <1>4, <1>5, <1>6, FormTokenFacts
<1>8. Lexeme("string", start, end) /\ Longest("string", start, end)
  BY <1>1, LexemeOfClass, LongestOfKind
<1> QED BY <1>5, <1>6, <1>7, <1>8, TokenCovers DEF start

LEMMA LexUnknownSteps ==
  ASSUME LexInv, Covered, LexUnknown
  PROVE  LexInv' /\ TokensCoverText' /\ Covered'
<1> DEFINE start == TokenStart
           end == start + 1
<1>1. /\ start < BufferEnd /\ start \in Nat \ {0} /\ BufferEnd = Len(text) + 1 /\ Len(text) \in Nat
      /\ FormToken("unknown", end, <<>>)
  BY StartInText DEF LexUnknown
<1> HIDE DEF start
<1>2. end \in Places /\ end <= BufferEnd
  BY <1>1 DEF Places
<1>3. "unknown" \in Kinds /\ <<>> \in Seq(Nat \ {0})
  BY DEF Kinds
<1>4. Lexeme("unknown", start, end) /\ Longest("unknown", start, end)
  BY LexemeOfClass, LongestOfKind
<1> HIDE DEF end
<1>5. Formed("unknown", end) /\ LexInv'
  BY <1>1, <1>2, <1>3, FormTokenFacts
<1> QED BY <1>2, <1>3, <1>4, <1>5, TokenCovers DEF start

(* Punctuation is no newline, and ends inside an ordinary text. *)
LEMMA CharInText ==
  ASSUME LexInv, Ordinary, NEW i \in Nat \ {0}, i < BufferEnd, CharAt(i) # Newline
  PROVE  i + 1 < BufferEnd
<1>1. Len(text) \in Nat /\ BufferEnd = Len(text) + 1 /\ CharAt(i) = text[i]
  BY TokenStarts, CharsTyped DEF LexInv
<1>2. i # Len(text)
  BY <1>1, OrdinaryText
<1> QED BY <1>1, <1>2

LEMMA PunctuationNoNewline ==
  /\ Newline \notin Punctuation
  /\ \A p \in Pairs : p[1] \in Punctuation /\ p[2] \in Punctuation /\ p[3] \in PunctuationKinds
                      /\ p = <<p[1], p[2], p[3]>>
<1>1. Newline \notin Punctuation
  BY DEF Newline, Punctuation
<1>2. ASSUME NEW p \in Pairs
      PROVE  p[1] \in Punctuation /\ p[2] \in Punctuation /\ p = <<p[1], p[2], p[3]>>
  <2>1. p = <<p[1], p[2], p[3]>>
    BY DEF Pairs
  <2>2. p[1] \in {":", "-", "+", ".", "=", "<", ">", "!", "&", "|"}
    BY DEF Pairs
  <2>3. p[2] \in {":", ">", "=", ".", "<", "&", "|"}
    BY DEF Pairs
  <2> QED BY <2>1, <2>2, <2>3 DEF Punctuation
<1>3. \A p \in Pairs : p[3] \in PunctuationKinds
  BY DEF PunctuationKinds
<1> QED BY <1>1, <1>2, <1>3

LEMMA LexPunctuationSteps ==
  ASSUME LexInv, Covered, LexPunctuation
  PROVE  LexInv' /\ TokensCoverText' /\ Covered'
<1> DEFINE start == TokenStart
           end == PunctuationEnd(start)
           kind == CASE end = start + 3 -> "..="
                     [] end = start + 2 -> (CHOOSE p \in PairsAt(start) : TRUE)[3]
                     [] OTHER -> CharAt(start)
<1>1. /\ start < BufferEnd /\ start \in Nat \ {0} /\ BufferEnd = Len(text) + 1 /\ Len(text) \in Nat
      /\ CharAt(start) \in Punctuation /\ CharAt(start) = text[start]
      /\ ~AtComment
      /\ FormToken(kind, end, <<>>)
  BY StartInText DEF LexPunctuation
<1>2. ~(CharAt(start) = "/" /\ CharAt(start + 1) = "/")
  BY <1>1 DEF AtComment
<1> HIDE DEF start
<1>3. \/ end = start + 3 /\ DotDotEqualAt(start)
      \/ end = start + 2 /\ ~DotDotEqualAt(start) /\ PairsAt(start) # {}
      \/ end = start + 1 /\ ~DotDotEqualAt(start) /\ PairsAt(start) = {}
  BY DEF PunctuationEnd
<1>4. /\ end = start + 3 => kind = "..="
      /\ end = start + 2 => kind = (CHOOSE p \in PairsAt(start) : TRUE)[3]
      /\ end = start + 1 => kind = CharAt(start)
  BY <1>1
<1> HIDE DEF kind, end
<1>5. end \in Places /\ end \in Nat
  BY <1>1, <1>3 DEF Places
<1>6. PairsAt(start) # {} =>
        LET p == CHOOSE p \in PairsAt(start) : TRUE IN
        p \in Pairs /\ p[1] = CharAt(start) /\ p[2] = CharAt(start + 1)
  BY DEF PairsAt
<1>7. kind \in PunctuationKinds /\ kind \in Kinds
  <2>1. "..=" \in PunctuationKinds /\ Punctuation \subseteq PunctuationKinds
    BY DEF PunctuationKinds
  <2>2. kind \in PunctuationKinds
    BY <1>1, <1>3, <1>4, <1>6, <2>1, PunctuationNoNewline
  <2> QED BY <2>2 DEF Kinds
<1>8. <<>> \in Seq(Nat \ {0})
  OBVIOUS
<1>9. Formed(kind, end) /\ LexInv'
  BY <1>1, <1>5, <1>7, <1>8, FormTokenFacts
<1>10. Longest(kind, start, end)
  <2>1. DotDotEqualAt(start) => end = start + 3
    BY <1>3
  <2>2. PairsAt(start) # {} => end > start + 1
    BY <1>1, <1>3
  <2>3. kind = "/" => CharAt(end) # "/"
    <3> SUFFICES ASSUME kind = "/" PROVE CharAt(end) # "/"
      OBVIOUS
    <3>1. end # start + 3
      BY <1>4
    <3>2. end # start + 2
      <4>1. \A p \in Pairs : p[3] # "/"
        BY DEF Pairs
      <4> SUFFICES ASSUME end = start + 2 PROVE FALSE
        OBVIOUS
      <4>2. PairsAt(start) # {}
        BY <1>1, <1>3, <3>1
      <4> QED BY <1>4, <1>6, <4>1, <4>2
    <3>3. end = start + 1 /\ CharAt(start) = "/"
      BY <1>3, <1>4, <3>1, <3>2
    <3> QED BY <1>2, <3>3
  <2> QED BY <1>7, <2>1, <2>2, <2>3, LongestOfKind, Zenon
<1>11. ASSUME Ordinary PROVE end <= BufferEnd /\ Lexeme(kind, start, end)
  <2>1. start + 1 < BufferEnd
    BY <1>1, <1>11, CharInText, PunctuationNoNewline
  <2>2. CharAt(start + 1) = text[start + 1] /\ start + 1 \in Nat \ {0}
    BY <1>1, <2>1, CharsTyped DEF LexInv
  <2>3. CASE end = start + 3 /\ DotDotEqualAt(start)
    <3>1. CharAt(start + 1) # Newline
      BY <2>3 DEF DotDotEqualAt, Newline
    <3>2. (start + 1) + 1 < BufferEnd
      BY <1>11, <2>1, <2>2, <3>1, CharInText
    <3>3. end <= BufferEnd
      BY <1>1, <2>3, <3>2
    <3> QED BY <1>4, <1>7, <2>3, <3>3, LexemeOfPunctuation
  <2>4. CASE end = start + 2 /\ PairsAt(start) # {}
    <3>1. end <= BufferEnd
      BY <1>1, <2>1, <2>4
    <3>2. <<text[start], text[start + 1], kind>> \in Pairs
      <4> DEFINE p == CHOOSE p \in PairsAt(start) : TRUE
      <4>1. p \in Pairs /\ p[1] = text[start] /\ p[2] = text[start + 1] /\ p[3] = kind
        BY <1>1, <1>4, <1>6, <2>2, <2>4
      <4> HIDE DEF p
      <4>2. p = <<p[1], p[2], p[3]>>
        BY <4>1, PunctuationNoNewline
      <4> QED BY <4>1, <4>2
    <3> QED BY <1>7, <2>4, <3>1, <3>2, LexemeOfPunctuation
  <2>5. CASE end = start + 1
    <3>1. kind = text[start] /\ kind \in Punctuation
      BY <1>1, <1>4, <2>5
    <3>2. end <= BufferEnd
      BY <1>1, <2>5
    <3> QED BY <1>7, <2>5, <3>1, <3>2, LexemeOfPunctuation
  <2> QED BY <1>3, <2>3, <2>4, <2>5
<1> QED BY <1>5, <1>7, <1>9, <1>10, <1>11, TokenCovers DEF start

LEMMA SameTokensCover ==
  ASSUME TokensCoverText, text' = text, past' = past, tokens' = tokens
  PROVE  TokensCoverText'
<1>1. /\ Ordinary' <=> Ordinary
      /\ \A a, b : Trivia(a, b)' <=> Trivia(a, b)
      /\ \A k, a, b : Lexeme(k, a, b)' <=> Lexeme(k, a, b)
      /\ \A k, a, b : Longest(k, a, b)' <=> Longest(k, a, b)
  BY SameText, Zenon
<1>2. LastCovers
  BY LastCoversIs
<1>3. LastCovers'
  BY <1>1, <1>2 DEF LastCovers
<1> QED BY <1>3, LastCoversIs, PTL

(* LexInv does not depend on what a step does with cur alone. *)
LEMMA LexInvElsewhere ==
  ASSUME LexInv, cur' \in Places, UNCHANGED <<text, past, lastLine, tokens, reports>>
  PROVE  LexInv'
<1>1. LineStarts' = LineStarts /\ Locs' = Locs
  BY SameLines
<1>2. Places' = Places
  BY DEF Places
<1>3. Toks' = Toks
  BY <1>1, <1>2 DEF Toks
<1>4. \A loc : Exact(loc)' <=> Exact(loc)
  BY SameExact
<1>5. (\A n \in 1 .. Len(tokens) : Exact(tokens[n].at))'
      /\ (\A n \in 1 .. Len(reports) : Exact(reports[n]))'
  BY <1>4 DEF LexInv
<1> QED BY <1>1, <1>2, <1>3, <1>5 DEF LexInv, AnyText

LEMMA LexCommentSteps ==
  ASSUME LexInv, Covered, TokensCoverText, LexComment
  PROVE  LexInv' /\ TokensCoverText' /\ Covered'
<1> DEFINE start == TokenStart
           rest == {CharAt(k) : k \in start + 3 .. Len(text)} \ {Newline}
           end == EndOfRun(start + 3, rest)
<1>1. /\ start < BufferEnd /\ start \in 1 .. Len(text) /\ start \in Nat \ {0}
      /\ BufferEnd = Len(text) + 1 /\ Len(text) \in Nat
      /\ CharAt(start) = "/" /\ text[start] = "/" /\ CharAt(start + 1) = "/"
      /\ cur' = end
      /\ UNCHANGED <<text, past, lastLine, tokens, reports>>
  BY StartInText DEF LexComment, AtComment, EndOfLine
<1>2. AnyText /\ start + 3 \in Nat \ {0}
  BY <1>1 DEF LexInv
<1> HIDE DEF start, rest
<1>3. RunEnd(start + 3, rest, end)
  BY <1>2, RunEnds
<1> HIDE DEF end
<1>4. cur' \in Places
  BY <1>1, <1>2, <1>3 DEF RunEnd, Places
<1>5. LexInv'
  BY <1>1, <1>4, LexInvElsewhere
<1>6. TokensCoverText'
  BY <1>1, SameTokensCover
<1>7. BufferEnd' = BufferEnd /\ (Ordinary' <=> Ordinary) /\ PrevEnd' = PrevEnd
      /\ \A a, b : Trivia(a, b)' <=> Trivia(a, b)
  <2>1. PrevEnd' = PrevEnd
    BY <1>1 DEF PrevEnd
  <2> QED BY <1>1, <2>1, SameText, Zenon
<1>8. ASSUME Ordinary
      PROVE  end \in 1 .. BufferEnd /\ PrevEnd <= end /\ Trivia(PrevEnd, end)
  <2>1. "/" # Newline
    BY DEF Newline
  <2>2. start + 1 < BufferEnd
    BY <1>1, <1>8, <2>1, CharInText
  <2>3. text[start + 1] = "/" /\ start + 1 \in Nat \ {0}
    BY <1>1, <1>2, <2>2, CharsTyped
  <2>4. start + 2 < BufferEnd
    <3>1. (start + 1) + 1 < BufferEnd
      BY <1>1, <1>8, <2>1, <2>2, <2>3, CharInText
    <3> QED BY <1>1, <3>1
  <2>5. text[start + 2] # Newline
    BY <1>1, <1>8, <2>3, <2>4, OrdinaryText
  <2>6. start + 2 # Len(text) /\ start + 3 <= BufferEnd
    BY <1>1, <1>8, <2>4, <2>5, OrdinaryText
  <2>7. end >= start + 3 /\ end <= BufferEnd /\ end \in Nat
        /\ \A j \in start + 3 .. end - 1 : text[j] # Newline
    BY <1>3, <2>6 DEF RunEnd, rest
  <2>8. PrevEnd \in Nat
    <3>1. CASE tokens = <<>>
      BY <3>1 DEF PrevEnd
    <3>2. CASE tokens # <<>>
      <4>1. tokens \in Seq(Toks) /\ Len(tokens) > 0
        BY <3>2, EmptySeq, LenProperties DEF LexInv
      <4>2. Last(tokens) \in Toks
        BY <4>1, FrontLast
      <4> QED BY <3>2, <4>2 DEF PrevEnd, Toks, Places
    <3> QED BY <3>1, <3>2
  <2>9. Trivia(PrevEnd, start)
    BY <1>8, <2>8, SpacesAreTrivia DEF Covered, start
  <2>11. PrevEnd <= start
    BY <1>8, <2>8, TokenStarts DEF Covered, start
  <2>12. ASSUME NEW i \in PrevEnd .. end - 1
         PROVE  \/ text[i] \in Spaces
                \/ \E s \in PrevEnd .. i :
                     /\ text[s] = "/" /\ s < Len(text) /\ text[s + 1] = "/"
                     /\ i > s \/ i + 1 < end
                     /\ \A k \in s .. i : text[k] # Newline
    <3>1. CASE i < start
      <4>1. i \in PrevEnd .. start - 1
        BY <1>1, <2>8, <3>1
      <4>2. i + 1 < start => i + 1 < end
        BY <1>1, <2>7, <2>8
      <4> QED BY <2>9, <4>1, <4>2 DEF Trivia
    <3>2. CASE i >= start
      <4>1. PrevEnd <= start /\ start \in PrevEnd .. i
        BY <1>1, <2>8, <2>11, <3>2
      <4>2. start < Len(text) /\ text[start + 1] = "/"
        BY <1>1, <2>2, <2>3
      <4>3. i > start \/ i + 1 < end
        BY <1>1, <2>7, <2>8, <3>2
      <4>4. ASSUME NEW k \in start .. i PROVE text[k] # Newline
        <5>1. k = start \/ k = start + 1 \/ k = start + 2 \/ k \in start + 3 .. end - 1
          BY <1>1, <2>7, <2>8
        <5> QED BY <1>1, <2>1, <2>3, <2>5, <2>7, <5>1
      <4> QED BY <1>1, <4>1, <4>2, <4>3, <4>4
    <3> QED BY <1>1, <2>8, <3>1, <3>2
  <2>13. Trivia(PrevEnd, end)
    BY <2>12 DEF Trivia
  <2>14. PrevEnd <= end
    BY <1>1, <2>7, <2>8, <2>11
  <2> QED BY <1>1, <2>7, <2>13, <2>14
<1>9. Covered'
  BY <1>1, <1>7, <1>8 DEF Covered
<1> QED BY <1>5, <1>6, <1>9

LexingInv == LexInv /\ Covered /\ TokensCoverText

LEMMA LexingStarts ==
  ASSUME AnyText, LexInit
  PROVE  LexingInv
<1>1. text \in Seq(STRING) /\ Len(text) \in Nat
  BY LenProperties DEF AnyText
<1>2. cur = 1 /\ lastLine = 1 /\ tokens = <<>> /\ reports = <<>>
  BY DEF LexInit
<1>3. lastLine \in DOMAIN LineStarts
  BY <1>1, <1>2, StartsTyped
<1>4. LexInv
  <2>1. cur \in Places
    BY <1>1, <1>2 DEF Places
  <2>2. tokens \in Seq(Toks) /\ reports \in Seq(Locs) /\ Len(tokens) = 0 /\ Len(reports) = 0
    BY <1>2, EmptySeq
  <2> QED BY <1>3, <2>1, <2>2 DEF LexInv
<1>5. Covered
  <2>1. PrevEnd = 1 /\ 1 \in 1 .. BufferEnd
    BY <1>1, <1>2 DEF PrevEnd, BufferEnd
  <2>2. Trivia(1, 1)
    BY DEF Trivia
  <2> QED BY <1>2, <2>1, <2>2 DEF Covered
<1>6. TokensCoverText
  BY <1>2 DEF TokensCoverText
<1> QED BY <1>4, <1>5, <1>6 DEF LexingInv

LEMMA LexingSteps ==
  ASSUME LexingInv, Lex \/ UNCHANGED lexVars
  PROVE  LexingInv'
<1>1. LexInv /\ Covered /\ TokensCoverText
  BY DEF LexingInv
<1>2. CASE Lex
  BY <1>1, <1>2, LexEndSteps, LexIdentifierOrKeywordSteps, LexNumberSteps, LexStringLiteralSteps,
     LexPunctuationSteps, LexUnknownSteps, LexCommentSteps, Zenon DEF Lex, LexingInv
<1>3. CASE UNCHANGED lexVars
  <2>1. UNCHANGED <<text, past, lastLine, tokens, reports>> /\ cur' = cur
    BY <1>3 DEF lexVars
  <2>2. LexInv'
    <3>1. cur' \in Places
      BY <1>1, <2>1 DEF LexInv
    <3> QED BY <1>1, <2>1, <3>1, LexInvElsewhere
  <2>3. TokensCoverText'
    BY <1>1, <2>1, SameTokensCover
  <2>4. Covered'
    <3>1. PrevEnd' = PrevEnd
      BY <2>1 DEF PrevEnd
    <3>2. BufferEnd' = BufferEnd /\ (Ordinary' <=> Ordinary) /\ \A a, b : Trivia(a, b)' <=> Trivia(a, b)
      BY <2>1, SameText, Zenon
    <3> QED BY <1>1, <2>1, <3>1, <3>2 DEF Covered
  <2> QED BY <2>2, <2>3, <2>4 DEF LexingInv
<1> QED BY <1>2, <1>3

LEMMA LexingHolds == SyntaxSpec => []LexingInv
<1>1. AnyText /\ SyntaxInit => LexingInv
  BY LexingStarts DEF SyntaxInit
<1>2. LexingInv /\ [SyntaxNext]_syntaxVars => LexingInv'
  <2> SUFFICES ASSUME LexingInv, [SyntaxNext]_syntaxVars PROVE LexingInv'
    OBVIOUS
  <2>1. Lex \/ UNCHANGED lexVars
    BY DEF SyntaxNext, LexStep, StartParsing, ParseStep, syntaxVars
  <2> QED BY <2>1, LexingSteps
<1> QED BY <1>1, <1>2, PTL DEF SyntaxSpec

(* The line and the column of every token and of every error are those of its *)
(* pointer, for any text: getLocation's cached line and its search agree with *)
(* the newlines that stand before the pointer.                             *)
THEOREM LocationsExactHolds == SyntaxSpec => []LocationsExact
<1>1. LexingInv => LocationsExact
  <2> SUFFICES ASSUME LexingInv PROVE LocationsExact
    OBVIOUS
  <2>1. /\ reports \in Seq(Locs) /\ tokens \in Seq(Toks)
        /\ \A n \in 1 .. Len(tokens) : Exact(tokens[n].at)
        /\ \A n \in 1 .. Len(reports) : Exact(reports[n])
    BY DEF LexingInv, LexInv
  <2>2. \A loc \in Range(reports) : Exact(loc)
    <3>1. DOMAIN reports = 1 .. Len(reports)
      BY <2>1, LenProperties
    <3> QED BY <2>1, <3>1 DEF Range
  <2>3. tokens # <<>> => Exact(Last(tokens).at)
    <3> SUFFICES ASSUME tokens # <<>> PROVE Exact(Last(tokens).at)
      OBVIOUS
    <3>1. Len(tokens) > 0
      BY <2>1, EmptySeq, LenProperties
    <3>2. Len(tokens) \in 1 .. Len(tokens) /\ Last(tokens) = tokens[Len(tokens)]
      BY <2>1, <3>1, FrontLast
    <3> QED BY <2>1, <3>2
  <2>4. ASSUME NEW loc \in Range(reports) \cup (IF tokens = <<>> THEN {} ELSE {Last(tokens).at})
        PROVE  Exact(loc)
    BY <2>2, <2>3
  <2> QED BY <2>4, Zenon DEF LocationsExact, Exact, NewlinesBefore
<1> QED BY <1>1, LexingHolds, PTL

(* The tokens of an ordinary text leave out nothing but spaces and comments, *)
(* each is a lexeme of its kind, and none stops early, for any keywords.     *)
THEOREM TokensCoverTextHolds == SyntaxSpec => []TokensCoverText
<1>1. LexingInv => TokensCoverText
  BY DEF LexingInv
<1> QED BY <1>1, LexingHolds, PTL

-------------------------------------------------------------------------------
(* Routines                                                                *)

IsList(s) == \E S : s \in Seq(S)

LEMMA ListFacts ==
  ASSUME NEW s, IsList(s)
  PROVE  /\ Len(s) \in Nat /\ DOMAIN s = 1 .. Len(s)
         /\ s # <<>> <=> Len(s) > 0
<1>1. PICK S : s \in Seq(S)
  BY DEF IsList
<1> QED BY <1>1, LenProperties, EmptySeq

LEMMA ListEmpty == IsList(<<>>) /\ Len(<<>>) = 0
<1>1. <<>> \in Seq({}) /\ Len(<<>>) = 0
  BY EmptySeq
<1> QED BY <1>1 DEF IsList

LEMMA ListOne ==
  ASSUME NEW x
  PROVE  IsList(<<x>>) /\ Len(<<x>>) = 1 /\ <<x>>[1] = x
<1>1. <<x>> \in Seq({x})
  OBVIOUS
<1> QED BY <1>1 DEF IsList

LEMMA ListAppend ==
  ASSUME NEW s, IsList(s), NEW x
  PROVE  /\ IsList(Append(s, x)) /\ Len(Append(s, x)) = Len(s) + 1 /\ Append(s, x) # <<>>
         /\ Append(s, x)[Len(s) + 1] = x
         /\ \A k \in 1 .. Len(s) : Append(s, x)[k] = s[k]
<1>1. PICK S : s \in Seq(S)
  BY DEF IsList
<1>2. s \in Seq(S \cup {x}) /\ x \in S \cup {x}
  <2>1. \A k \in 1 .. Len(s) : s[k] \in S
    BY <1>1, LenProperties
  <2>2. s \in [1 .. Len(s) -> S \cup {x}] /\ Len(s) \in Nat
    BY <1>1, <2>1, LenProperties
  <2> QED BY <2>2, SeqDef
<1> DEFINE t == Append(s, x)
<1>3. /\ t \in Seq(S \cup {x}) /\ Len(t) = Len(s) + 1
      /\ t[Len(s) + 1] = x
      /\ \A k \in 1 .. Len(s) : t[k] = s[k]
  BY <1>2, AppendProperties
<1>4. t # <<>>
  BY <1>1, <1>3, EmptySeq, LenProperties
<1> HIDE DEF t
<1> QED BY <1>3, <1>4 DEF IsList, t

LEMMA ListFront ==
  ASSUME NEW s, IsList(s), s # <<>>
  PROVE  /\ IsList(Front(s)) /\ Len(Front(s)) = Len(s) - 1
         /\ Last(s) = s[Len(s)] /\ Len(s) \in 1 .. Len(s)
         /\ \A k \in 1 .. Len(s) - 1 : Front(s)[k] = s[k]
<1>1. PICK S : s \in Seq(S)
  BY DEF IsList
<1>2. Len(s) > 0
  BY ListFacts
<1>3. Front(s) \in Seq(S)
  BY <1>1, <1>2, FrontLast
<1> QED BY <1>1, <1>2, <1>3, FrontLast DEF IsList

LEMMA ListTail ==
  ASSUME NEW s, IsList(s), s # <<>>
  PROVE  /\ IsList(Tail(s)) /\ Len(Tail(s)) = Len(s) - 1 /\ Head(s) = s[1] /\ 1 \in 1 .. Len(s)
         /\ \A k \in 1 .. Len(s) - 1 : Tail(s)[k] = s[k + 1]
<1>1. PICK S : s \in Seq(S)
  BY DEF IsList
<1>2. Len(s) > 0 /\ Len(s) \in Nat
  BY ListFacts
<1>3. Tail(s) \in Seq(S) /\ Len(Tail(s)) = Len(s) - 1
      /\ \A k \in 1 .. Len(Tail(s)) : Tail(s)[k] = s[k + 1]
  BY <1>1, HeadTailProperties
<1>4. Head(s) = s[1]
  BY <1>1, <1>2
<1> QED BY <1>2, <1>3, <1>4 DEF IsList

LEMMA ListConcat ==
  ASSUME NEW s, IsList(s), NEW t, IsList(t)
  PROVE  /\ IsList(s \o t) /\ Len(s \o t) = Len(s) + Len(t)
         /\ \A k \in 1 .. Len(s) : (s \o t)[k] = s[k]
         /\ \A k \in 1 .. Len(t) : (s \o t)[Len(s) + k] = t[k]
<1>1. PICK S : s \in Seq(S)
  BY DEF IsList
<1>2. PICK T : t \in Seq(T)
  BY DEF IsList
<1> DEFINE U == S \cup T
<1>3. s \in Seq(U)
  <2>1. s \in [1 .. Len(s) -> U] /\ Len(s) \in Nat
    BY <1>1, LenProperties
  <2> QED BY <2>1, SeqDef
<1>4. t \in Seq(U)
  <2>1. t \in [1 .. Len(t) -> U] /\ Len(t) \in Nat
    BY <1>2, LenProperties
  <2> QED BY <2>1, SeqDef
<1> HIDE DEF U
<1>5. /\ s \o t \in Seq(U) /\ Len(s \o t) = Len(s) + Len(t)
      /\ \A k \in 1 .. Len(s) + Len(t) : (s \o t)[k] = IF k <= Len(s) THEN s[k] ELSE t[k - Len(s)]
  BY <1>3, <1>4, ConcatProperties
<1>6. Len(s) \in Nat /\ Len(t) \in Nat
  BY <1>1, <1>2, LenProperties
<1>7. ASSUME NEW k \in 1 .. Len(t) PROVE (s \o t)[Len(s) + k] = t[k]
  <2>1. Len(s) + k \in 1 .. Len(s) + Len(t) /\ ~(Len(s) + k <= Len(s)) /\ Len(s) + k - Len(s) = k
    BY <1>6
  <2> QED BY <1>5, <2>1
<1>8. ASSUME NEW k \in 1 .. Len(s) PROVE (s \o t)[k] = s[k]
  <2>1. k \in 1 .. Len(s) + Len(t) /\ k <= Len(s)
    BY <1>6
  <2> QED BY <1>5, <2>1
<1> QED BY <1>5, <1>7, <1>8 DEF IsList

RoutineNames == {"primary", "expr", "type", "range", "stmt", "block"}
Terminal == {"build", "same", "null", "climb"}                       \* ends a routine
Takers == {"need", "same", "climb", "value", "recover", "skip"}      \* looks at the last node
Givers == {"leaf", "call", "combine"}                                \* leaves a node

(* Instructions whose branches are made of such instructions. *)
Closed(I) ==
  \A i \in I : i.then \in Seq(I) /\ i.else \in Seq(I) /\ (i.op = "call" => i.kind \in RoutineNames)

IsCode(s) == \E I : s \in Seq(I) /\ Closed(I)

Ends(s) == Len(s) > 0 /\ s[Len(s)].op \in Terminal

(* Outside a range, nullptr is returned right after a report.  The nodes that *)
(* are built are not Null, and "for" is handled apart.                      *)
Fits(where, s) ==
  \A k \in 1 .. Len(s) :
    /\ s[k].op = "null" => where = "range" \/ (k > 1 /\ s[k - 1].op = "report")
    /\ s[k].op = "build" => s[k].kind \notin {"null", "for"}
    /\ s[k].op = "combine" => s[k].kind # "null"
    /\ s[k].op = "call" => s[k].kind # "range"

(* A node is looked at after one was left. *)
Supplied(s) ==
  \A k \in 1 .. Len(s) : s[k].op \in Takers => \E j \in 1 .. k - 1 : s[j].op \in Givers

Gives(s) == \E k \in 1 .. Len(s) : s[k].op \in Givers

ClosedPlain(where, I) ==
  /\ Closed(I)
  /\ \A i \in I :
       Fits(where, i.then) /\ Supplied(i.then) /\ Fits(where, i.else) /\ Supplied(i.else)

(* Code that expects a node, code that does not, and code that leaves one. *)
Fed(where, s) == Fits(where, s) /\ \E I : s \in Seq(I) /\ ClosedPlain(where, I)
Plain(where, s) == Fed(where, s) /\ Supplied(s)
Feeds(where, s) == Plain(where, s) /\ Gives(s)

LEMMA SeqInUnion ==
  ASSUME NEW S, NEW T, NEW s \in Seq(S)
  PROVE  s \in Seq(S \cup T) /\ s \in Seq(T \cup S)
<1>1. s \in [1 .. Len(s) -> S \cup T] /\ Len(s) \in Nat
  BY LenProperties
<1>2. s \in [1 .. Len(s) -> T \cup S]
  BY <1>1
<1> QED BY <1>1, <1>2, SeqDef

LEMMA ClosedUnion ==
  ASSUME NEW where, NEW I, NEW J
  PROVE  /\ Closed(I) /\ Closed(J) => Closed(I \cup J)
         /\ ClosedPlain(where, I) /\ ClosedPlain(where, J) => ClosedPlain(where, I \cup J)
<1>1. ASSUME Closed(I), Closed(J) PROVE Closed(I \cup J)
  <2>1. ASSUME NEW i \in I
        PROVE  i.then \in Seq(I \cup J) /\ i.else \in Seq(I \cup J)
    BY <1>1, SeqInUnion DEF Closed
  <2>2. ASSUME NEW i \in J
        PROVE  i.then \in Seq(I \cup J) /\ i.else \in Seq(I \cup J)
    BY <1>1, SeqInUnion DEF Closed
  <2>3. \A i \in I \cup J : i.op = "call" => i.kind \in RoutineNames
    BY <1>1 DEF Closed
  <2> QED BY <2>1, <2>2, <2>3 DEF Closed
<1> QED BY <1>1 DEF ClosedPlain

LEMMA CodeConcat ==
  ASSUME NEW s, IsCode(s), NEW t, IsCode(t)
  PROVE  IsCode(s \o t)
<1>1. PICK I : s \in Seq(I) /\ Closed(I)
  BY DEF IsCode
<1>2. PICK J : t \in Seq(J) /\ Closed(J)
  BY DEF IsCode
<1>3. s \in Seq(I \cup J) /\ t \in Seq(I \cup J) /\ Closed(I \cup J)
  BY <1>1, <1>2, SeqInUnion, ClosedUnion
<1>4. s \o t \in Seq(I \cup J)
  BY <1>3, ConcatProperties
<1> QED BY <1>3, <1>4 DEF IsCode

LEMMA CodeIsList ==
  ASSUME NEW where, NEW s
  PROVE  /\ IsCode(s) => IsList(s)
         /\ Fed(where, s) => IsCode(s) /\ IsList(s)
         /\ Plain(where, s) => IsCode(s) /\ Fed(where, s) /\ IsList(s)
         /\ Feeds(where, s) => IsCode(s) /\ Plain(where, s) /\ Fed(where, s) /\ IsList(s)
<1>1. IsCode(s) => IsList(s)
  BY DEF IsCode, IsList
<1>2. Fed(where, s) => IsCode(s)
  BY DEF Fed, IsCode, ClosedPlain
<1> QED BY <1>1, <1>2 DEF Plain, Feeds

LEMMA FitsConcat ==
  ASSUME NEW where, NEW s, IsList(s), NEW t, IsList(t)
  PROVE  /\ Fits(where, s) /\ Fits(where, t) => Fits(where, s \o t)
         /\ Supplied(s) /\ Supplied(t) => Supplied(s \o t)
         /\ Supplied(s) /\ Gives(s) => Supplied(s \o t)
         /\ Gives(s) \/ Gives(t) => Gives(s \o t)
<1> DEFINE st == s \o t
           n == Len(s)
<1>1. /\ IsList(st) /\ n \in Nat /\ Len(t) \in Nat /\ Len(st) = n + Len(t)
      /\ \A k \in 1 .. n : st[k] = s[k]
      /\ \A k \in 1 .. Len(t) : st[n + k] = t[k]
  BY ListConcat, ListFacts
<1>2. \A k \in 1 .. Len(st) : k \in 1 .. n \/ (k - n \in 1 .. Len(t) /\ n + (k - n) = k /\ k \in Nat)
  BY <1>1
<1> HIDE DEF st, n
<1>3. ASSUME Fits(where, s), Fits(where, t) PROVE Fits(where, st)
  <2>1. ASSUME NEW k \in 1 .. Len(st)
        PROVE  /\ st[k].op = "null" => where = "range" \/ (k > 1 /\ st[k - 1].op = "report")
               /\ st[k].op = "build" => st[k].kind \notin {"null", "for"}
               /\ st[k].op = "combine" => st[k].kind # "null"
               /\ st[k].op = "call" => st[k].kind # "range"
    <3>1. CASE k \in 1 .. n
      <4>1. k > 1 => k - 1 \in 1 .. n
        BY <1>1, <3>1
      <4> QED BY <1>1, <1>3, <3>1, <4>1 DEF Fits, n
    <3>2. CASE k - n \in 1 .. Len(t) /\ n + (k - n) = k /\ k \in Nat
      <4> DEFINE m == k - n
      <4>1. m \in 1 .. Len(t) /\ st[k] = t[m]
        BY <1>1, <3>2
      <4>2. m > 1 => m - 1 \in 1 .. Len(t) /\ k > 1 /\ n + (m - 1) = k - 1
        BY <1>1, <3>2
      <4>3. m > 1 => st[k - 1] = t[m - 1]
        BY <1>1, <4>2
      <4> HIDE DEF m
      <4> QED BY <1>3, <4>1, <4>2, <4>3 DEF Fits
    <3> QED BY <1>2, <3>1, <3>2
  <2> QED BY <2>1 DEF Fits
<1>4. ASSUME Supplied(s), Supplied(t) \/ Gives(s) PROVE Supplied(st)
  <2>1. ASSUME NEW k \in 1 .. Len(st), st[k].op \in Takers
        PROVE  \E j \in 1 .. k - 1 : st[j].op \in Givers
    <3>1. CASE k \in 1 .. n
      <4>1. PICK j \in 1 .. k - 1 : s[j].op \in Givers
        BY <1>1, <1>4, <2>1, <3>1 DEF Supplied, n
      <4>2. j \in 1 .. n
        BY <1>1, <3>1
      <4> QED BY <1>1, <4>1, <4>2
    <3>2. CASE k - n \in 1 .. Len(t) /\ n + (k - n) = k /\ k \in Nat
      <4>1. CASE Gives(s)
        <5>1. PICK j \in 1 .. n : s[j].op \in Givers
          BY <4>1 DEF Gives, n
        <5>2. j \in 1 .. k - 1
          BY <1>1, <3>2
        <5> QED BY <1>1, <5>1, <5>2
      <4>2. CASE Supplied(t)
        <5> DEFINE m == k - n
        <5>1. m \in 1 .. Len(t) /\ st[k] = t[m]
          BY <1>1, <3>2
        <5>2. PICK j \in 1 .. m - 1 : t[j].op \in Givers
          BY <2>1, <4>2, <5>1 DEF Supplied
        <5>3. j \in 1 .. Len(t) /\ n + j \in 1 .. k - 1
          BY <1>1, <3>2, <5>1
        <5>4. st[n + j].op \in Givers
          BY <1>1, <5>2, <5>3
        <5> QED BY <5>3, <5>4
      <4> QED BY <1>4, <4>1, <4>2
    <3> QED BY <1>2, <2>1, <3>1, <3>2
  <2> QED BY <2>1 DEF Supplied
<1>5. ASSUME Gives(s) \/ Gives(t) PROVE Gives(st)
  <2>1. CASE Gives(s)
    <3>1. PICK j \in 1 .. n : s[j].op \in Givers
      BY <2>1 DEF Gives, n
    <3>2. j \in 1 .. Len(st)
      BY <1>1
    <3> QED BY <1>1, <3>1, <3>2 DEF Gives
  <2>2. CASE Gives(t)
    <3>1. PICK j \in 1 .. Len(t) : t[j].op \in Givers
      BY <2>2 DEF Gives
    <3>2. n + j \in 1 .. Len(st)
      BY <1>1
    <3>3. st[n + j].op \in Givers
      BY <1>1, <3>1
    <3> QED BY <3>2, <3>3 DEF Gives
  <2> QED BY <1>5, <2>1, <2>2
<1> QED BY <1>3, <1>4, <1>5 DEF st

LEMMA FedConcat ==
  ASSUME NEW where, NEW s, NEW t
  PROVE  /\ Fed(where, s) /\ Fed(where, t) => Fed(where, s \o t)
         /\ Plain(where, s) /\ Plain(where, t) => Plain(where, s \o t)
         /\ Plain(where, s) /\ Feeds(where, t) => Feeds(where, s \o t)
         /\ Feeds(where, s) /\ Fed(where, t) => Feeds(where, s \o t)
<1>1. ASSUME Fed(where, s), Fed(where, t) PROVE Fed(where, s \o t)
  <2>1. PICK I : s \in Seq(I) /\ ClosedPlain(where, I)
    BY <1>1 DEF Fed
  <2>2. PICK J : t \in Seq(J) /\ ClosedPlain(where, J)
    BY <1>1 DEF Fed
  <2>3. s \in Seq(I \cup J) /\ t \in Seq(I \cup J) /\ ClosedPlain(where, I \cup J)
    BY <2>1, <2>2, SeqInUnion, ClosedUnion
  <2>4. s \o t \in Seq(I \cup J)
    BY <2>3, ConcatProperties
  <2>5. Fits(where, s \o t)
    BY <1>1, CodeIsList, FitsConcat DEF Fed
  <2> QED BY <2>3, <2>4, <2>5 DEF Fed
<1>2. ASSUME Plain(where, s), Plain(where, t) PROVE Plain(where, s \o t)
  BY <1>1, <1>2, CodeIsList, FitsConcat DEF Plain
<1>3. ASSUME Plain(where, s), Feeds(where, t) PROVE Feeds(where, s \o t)
  BY <1>1, <1>3, CodeIsList, FitsConcat DEF Plain, Feeds
<1>4. ASSUME Feeds(where, s), Fed(where, t) PROVE Feeds(where, s \o t)
  BY <1>1, <1>4, CodeIsList, FitsConcat DEF Plain, Feeds
<1> QED BY <1>1, <1>2, <1>3, <1>4

(* The code of an instruction. *)
LEMMA InstrFacts ==
  ASSUME NEW op, NEW at, NEW kind, NEW then, NEW else
  PROVE  LET s == Instr(op, at, kind, then, else) IN
         /\ IsList(s) /\ Len(s) = 1
         /\ s[1].op = op /\ s[1].kind = kind /\ s[1].at = at /\ s[1].then = then /\ s[1].else = else
<1> QED BY ListOne DEF Instr

LEMMA InstrCode ==
  ASSUME NEW op, NEW at, NEW kind, NEW then, NEW else, IsCode(then), IsCode(else),
         op = "call" => kind \in RoutineNames
  PROVE  IsCode(Instr(op, at, kind, then, else))
<1>1. PICK I : then \in Seq(I) /\ Closed(I)
  BY DEF IsCode
<1>2. PICK J : else \in Seq(J) /\ Closed(J)
  BY DEF IsCode
<1> DEFINE i == [op |-> op, at |-> at, kind |-> kind, then |-> then, else |-> else]
           K == (I \cup J) \cup {i}
<1>3. then \in Seq(I \cup J) /\ else \in Seq(I \cup J) /\ Closed(I \cup J)
  BY <1>1, <1>2, SeqInUnion, ClosedUnion
<1>4. i.op = op /\ i.kind = kind /\ i.then = then /\ i.else = else
  OBVIOUS
<1>5. Closed(K)
  <2> HIDE DEF i
  <2>1. then \in Seq(K) /\ else \in Seq(K)
    BY <1>3, SeqInUnion
  <2>2. \A j \in I \cup J : j.then \in Seq(K) /\ j.else \in Seq(K) /\ (j.op = "call" => j.kind \in RoutineNames)
    BY <1>3, SeqInUnion DEF Closed
  <2> QED BY <1>4, <2>1, <2>2 DEF Closed
<1>6. <<i>> \in Seq(K)
  <2> HIDE DEF i
  <2> QED OBVIOUS
<1> QED BY <1>5, <1>6 DEF Instr, IsCode

LEMMA InstrFed ==
  ASSUME NEW where, NEW op, NEW at, NEW kind, NEW then, NEW else,
         Plain(where, then), Plain(where, else),
         op = "null" => where = "range",
         op = "build" => kind \notin {"null", "for"},
         op = "combine" => kind # "null",
         op = "call" => kind \in RoutineNames /\ kind # "range"
  PROVE  LET s == Instr(op, at, kind, then, else) IN
         /\ Fed(where, s)
         /\ op \notin Takers => Plain(where, s)
         /\ op \in Givers => Feeds(where, s)
<1> DEFINE i == [op |-> op, at |-> at, kind |-> kind, then |-> then, else |-> else]
           s == Instr(op, at, kind, then, else)
<1>1. PICK I : then \in Seq(I) /\ ClosedPlain(where, I)
  BY DEF Plain, Fed
<1>2. PICK J : else \in Seq(J) /\ ClosedPlain(where, J)
  BY DEF Plain, Fed
<1> DEFINE K == (I \cup J) \cup {i}
<1>3. then \in Seq(I \cup J) /\ else \in Seq(I \cup J) /\ ClosedPlain(where, I \cup J) /\ Closed(I \cup J)
  BY <1>1, <1>2, SeqInUnion, ClosedUnion DEF ClosedPlain
<1>4. i.op = op /\ i.kind = kind /\ i.then = then /\ i.else = else
  OBVIOUS
<1>5. Closed(K)
  <2> HIDE DEF i
  <2>1. then \in Seq(K) /\ else \in Seq(K)
    BY <1>3, SeqInUnion
  <2>2. \A j \in I \cup J : j.then \in Seq(K) /\ j.else \in Seq(K) /\ (j.op = "call" => j.kind \in RoutineNames)
    BY <1>3, SeqInUnion DEF Closed
  <2> QED BY <1>4, <2>1, <2>2 DEF Closed
<1>6. ClosedPlain(where, K)
  <2>1. Fits(where, then) /\ Supplied(then) /\ Fits(where, else) /\ Supplied(else)
    BY DEF Plain, Fed
  <2> HIDE DEF i
  <2>2. \A j \in I \cup J :
          Fits(where, j.then) /\ Supplied(j.then) /\ Fits(where, j.else) /\ Supplied(j.else)
    BY <1>3 DEF ClosedPlain
  <2> QED BY <1>4, <1>5, <2>1, <2>2 DEF ClosedPlain
<1>7. s \in Seq(K) /\ s = <<i>>
  <2>1. s = <<i>>
    BY DEF Instr
  <2> HIDE DEF i, s
  <2> QED BY <2>1
<1>8. Len(s) = 1 /\ s[1] = i
  <2> HIDE DEF i, s
  <2> QED BY <1>7
<1> HIDE DEF s, i
<1>9. Fits(where, s)
  BY <1>4, <1>8 DEF Fits
<1>10. op \notin Takers => Supplied(s)
  BY <1>4, <1>8 DEF Supplied
<1>11. op \in Givers => op \notin Takers /\ Gives(s)
  BY <1>4, <1>8 DEF Gives, Givers, Takers
<1>12. Fed(where, s)
  BY <1>6, <1>7, <1>9 DEF Fed
<1> QED BY <1>10, <1>11, <1>12 DEF Plain, Feeds, s

LEMMA NoCode ==
  ASSUME NEW where
  PROVE  Plain(where, <<>>) /\ IsCode(<<>>)
<1>1. Len(<<>>) = 0 /\ <<>> \in Seq({}) /\ 1 .. 0 = {}
  BY EmptySeq
<1>2. ClosedPlain(where, {}) /\ Closed({})
  BY DEF ClosedPlain, Closed
<1>3. Fits(where, <<>>) /\ Supplied(<<>>)
  BY <1>1 DEF Fits, Supplied
<1> QED BY <1>1, <1>2, <1>3 DEF Plain, Fed, IsCode

(* Reporting before nullptr is returned is fitting anywhere. *)
LEMMA ReportedNull ==
  ASSUME NEW where
  PROVE  Plain(where, Report \o NullReturn)
<1> DEFINE r == [op |-> "report", at |-> {}, kind |-> "", then |-> <<>>, else |-> <<>>]
           n == [op |-> "null", at |-> {}, kind |-> "", then |-> <<>>, else |-> <<>>]
           s == Report \o NullReturn
           K == {r, n}
<1>1. Report = <<r>> /\ NullReturn = <<n>>
  BY DEF Report, NullReturn, Do, Instr
<1>2. /\ r.op = "report" /\ r.then = <<>> /\ r.else = <<>>
      /\ n.op = "null" /\ n.then = <<>> /\ n.else = <<>>
  OBVIOUS
<1> HIDE DEF r, n
<1>3. s = <<r>> \o <<n>>
  BY <1>1
<1>4. s \in Seq(K) /\ Len(s) = 2 /\ s[1] = r /\ s[2] = n
  <2>1. /\ <<r>> \in Seq(K) /\ Len(<<r>>) = 1 /\ <<r>>[1] = r
        /\ <<n>> \in Seq(K) /\ Len(<<n>>) = 1 /\ <<n>>[1] = n
    OBVIOUS
  <2>2. s \in Seq(K) /\ Len(s) = 1 + 1 /\ s[1] = <<r>>[1] /\ s[1 + 1] = <<n>>[1]
    BY <1>3, <2>1, ConcatProperties, ListConcat DEF IsList
  <2> HIDE DEF s
  <2> QED BY <2>1, <2>2
<1> HIDE DEF s
<1>5. ClosedPlain(where, K)
  <2>1. <<>> \in Seq(K) /\ Fits(where, <<>>) /\ Supplied(<<>>)
    BY NoCode, EmptySeq DEF Plain, Fed
  <2> QED BY <1>2, <2>1 DEF ClosedPlain, Closed
<1>6. Fits(where, s)
  <2>1. \A k \in 1 .. 2 : k = 1 \/ (k = 2 /\ k > 1 /\ k - 1 = 1)
    OBVIOUS
  <2> QED BY <1>2, <1>4, <2>1 DEF Fits
<1>7. Supplied(s)
  <2>1. \A k \in 1 .. 2 : k = 1 \/ k = 2
    OBVIOUS
  <2> QED BY <1>2, <1>4, <2>1 DEF Supplied, Takers
<1> QED BY <1>4, <1>5, <1>6, <1>7 DEF Plain, Fed, s

(* The instructions of the routines. *)
LEMMA Instructions ==
  ASSUME NEW where
  PROVE  /\ \A S : Plain(where, Want(S))
         /\ Feeds(where, Leaf)
         /\ Plain(where, Report)
         /\ Fed(where, Need) /\ Fed(where, Same)
         /\ Fed(where, Do("value")) /\ Fed(where, Do("recover")) /\ Fed(where, Do("skip"))
         /\ \A kind : kind \notin {"null", "for"} => Plain(where, Build(kind))
         /\ \A kind : kind # "null" => Feeds(where, Instr("combine", {}, kind, <<>>, <<>>))
         /\ \A S : Fed(where, Instr("climb", S, "", <<>>, <<>>))
         /\ \A r \in RoutineNames \ {"range"} : Feeds(where, Call(r))
         /\ \A p : Feeds(where, Expr(p))
<1> USE NoCode
<1>1. \A S : Plain(where, Want(S))
  BY InstrFed DEF Want, Takers
<1>2. Feeds(where, Leaf)
  BY InstrFed DEF Leaf, Do, Givers
<1>3. Plain(where, Report)
  BY InstrFed DEF Report, Do, Takers
<1>4. Fed(where, Need) /\ Fed(where, Same)
  BY InstrFed DEF Need, Same, Do
<1>5. Fed(where, Do("value")) /\ Fed(where, Do("recover")) /\ Fed(where, Do("skip"))
  BY InstrFed DEF Do
<1>6. \A kind : kind \notin {"null", "for"} => Plain(where, Build(kind))
  BY InstrFed DEF Build, Takers
<1>7. \A kind : kind # "null" => Feeds(where, Instr("combine", {}, kind, <<>>, <<>>))
  BY InstrFed DEF Givers
<1>8. \A S : Fed(where, Instr("climb", S, "", <<>>, <<>>))
  BY InstrFed
<1>9. \A r \in RoutineNames \ {"range"} : Feeds(where, Call(r))
  BY InstrFed DEF Call, Givers
<1>10. \A p : Feeds(where, Expr(p))
  <2>1. "expr" \in RoutineNames /\ "expr" # "range"
    BY DEF RoutineNames
  <2> QED BY <2>1, InstrFed DEF Expr, Givers
<1> QED BY <1>1, <1>2, <1>3, <1>4, <1>5, <1>6, <1>7, <1>8, <1>9, <1>10

LEMMA Branches ==
  ASSUME NEW where, NEW S, NEW then, Plain(where, then), NEW else, Plain(where, else)
  PROVE  /\ Plain(where, If(S, then, else)) /\ Plain(where, When(S, then))
         /\ Plain(where, Until(S, then)) /\ Plain(where, While(S, then))
<1>1. Plain(where, If(S, then, else))
  BY InstrFed DEF If, Takers
<1>2. Plain(where, If(S, then, <<>>))
  BY InstrFed, NoCode DEF If, Takers
<1>3. Plain(where, Until(S, then))
  BY InstrFed, NoCode DEF Until, Takers
<1>4. Plain(where, While(S, then))
  BY InstrFed, NoCode DEF While, Takers
<1> QED BY <1>1, <1>2, <1>3, <1>4 DEF When

LEMMA Expectations ==
  ASSUME NEW where, NEW kind
  PROVE  Plain(where, Expect(kind)) /\ Plain(where, Require(kind))
<1>1. Plain(where, Want({kind})) /\ Plain(where, Report \o NullReturn) /\ Plain(where, <<>>)
  BY Instructions, ReportedNull, NoCode
<1> QED BY <1>1, Branches DEF Expect, Require

LEMMA EndsLast ==
  ASSUME NEW s, IsList(s), NEW t, IsList(t), Ends(t)
  PROVE  Ends(s \o t)
<1>1. Len(t) \in Nat /\ Len(s) \in Nat /\ Len(t) > 0 /\ Len(t) \in 1 .. Len(t)
  BY ListFacts DEF Ends
<1>2. Len(s \o t) = Len(s) + Len(t) /\ (s \o t)[Len(s) + Len(t)] = t[Len(t)]
  BY <1>1, ListConcat
<1> QED BY <1>1, <1>2 DEF Ends

(* A routine's whole code. *)
Body(where, s) == Plain(where, s) /\ Ends(s)

LEMMA LastInstruction ==
  /\ Ends(Same) /\ Ends(NullReturn) /\ \A kind : Ends(Build(kind))
  /\ \A S : Ends(Instr("climb", S, "", <<>>, <<>>))
<1>1. \A op, at, kind : op \in Terminal => Ends(Instr(op, at, kind, <<>>, <<>>))
  BY InstrFacts DEF Ends
<1>2. "same" \in Terminal /\ "null" \in Terminal /\ "build" \in Terminal /\ "climb" \in Terminal
  BY DEF Terminal
<1>3. Ends(Same) /\ Ends(NullReturn)
  BY <1>1, <1>2, Zenon DEF Same, NullReturn, Do
<1>4. \A kind : Ends(Build(kind))
  BY <1>1, <1>2, Zenon DEF Build
<1>5. \A S : Ends(Instr("climb", S, "", <<>>, <<>>))
  BY <1>1, <1>2, Zenon
<1> QED BY <1>3, <1>4, <1>5

LEMMA BodyConcat ==
  ASSUME NEW where, NEW s, NEW t, Ends(t)
  PROVE  /\ Plain(where, s) /\ Plain(where, t) => Body(where, s \o t)
         /\ Feeds(where, s) /\ Fed(where, t) => Body(where, s \o t)
<1> QED BY FedConcat, CodeIsList, EndsLast DEF Body, Feeds

LEMMA MacroCall == \A where : Plain(where, parseMacroCall)
<1> SUFFICES ASSUME NEW where PROVE Plain(where, parseMacroCall)
  OBVIOUS
<1> DEFINE comma == If({")"}, <<>>, Expect(","))
           next == When({"eof"}, Report \o NullReturn) \o Expr(0) \o Need \o comma
<1>1. Plain(where, comma)
  BY Expectations, NoCode, Branches
<1>2. Plain(where, next)
  <2> HIDE DEF comma
  <2>1. Plain(where, When({"eof"}, Report \o NullReturn))
    BY ReportedNull, NoCode, Branches
  <2> QED BY <1>1, <2>1, Instructions, FedConcat, CodeIsList
<1>3. Plain(where, Until({")"}, next))
  <2> HIDE DEF next
  <2> QED BY <1>2, NoCode, Branches
<1>4. Plain(where, When({"string"}, Leaf \o comma))
  <2> HIDE DEF comma
  <2>1. Plain(where, Leaf \o comma)
    BY <1>1, Instructions, FedConcat, CodeIsList
  <2> QED BY <2>1, NoCode, Branches
<1>5. Plain(where, Want({"!"})) /\ Plain(where, Want({")"})) /\ Plain(where, Expect("("))
      /\ Plain(where, Build("macro"))
  BY Instructions, Expectations
<1>6. parseMacroCall = Want({"!"}) \o Expect("(") \o When({"string"}, Leaf \o comma)
                       \o Until({")"}, next) \o Want({")"}) \o Build("macro")
  BY DEF parseMacroCall
<1> HIDE DEF comma, next
<1> QED BY <1>3, <1>4, <1>5, <1>6, FedConcat

LEMMA FunCall == \A where : Plain(where, parseFunCall)
<1> SUFFICES ASSUME NEW where PROVE Plain(where, parseFunCall)
  OBVIOUS
<1> DEFINE more == Until({")"}, Expect(",") \o Expr(0))
           arguments == If({")"}, <<>>, Expr(0) \o more)
<1>1. Plain(where, more)
  <2>1. Plain(where, Expect(",") \o Expr(0))
    BY Instructions, Expectations, FedConcat, CodeIsList
  <2> QED BY <2>1, NoCode, Branches
<1>2. Plain(where, arguments)
  <2> HIDE DEF more
  <2>1. Plain(where, Expr(0) \o more)
    BY <1>1, Instructions, FedConcat, CodeIsList
  <2> QED BY <2>1, NoCode, Branches
<1>3. Plain(where, Want({"("})) /\ Plain(where, Want({")"})) /\ Plain(where, Build("funcall"))
  BY Instructions
<1>4. parseFunCall = Want({"("}) \o arguments \o Want({")"}) \o Build("funcall")
  BY DEF parseFunCall, Separated
<1> HIDE DEF more, arguments
<1> QED BY <1>2, <1>3, <1>4, FedConcat

LEMMA ArrayAccess == \A where : Plain(where, parseArrayAccessExpr)
<1> SUFFICES ASSUME NEW where PROVE Plain(where, parseArrayAccessExpr)
  OBVIOUS
<1>1. Feeds(where, Call("primary"))
  BY Instructions DEF RoutineNames
<1>2. Plain(where, Want({"["}) \o Call("primary") \o Want({"]"}))
  BY <1>1, Instructions, FedConcat, CodeIsList
<1>3. Plain(where, While({"["}, Want({"["}) \o Call("primary") \o Want({"]"})))
  BY <1>2, NoCode, Branches
<1>4. Plain(where, Build("access"))
  BY Instructions
<1> QED BY <1>3, <1>4, FedConcat DEF parseArrayAccessExpr

LEMMA ArrayLiteral == \A where : Body(where, parseArray)
<1> SUFFICES ASSUME NEW where PROVE Body(where, parseArray)
  OBVIOUS
<1> DEFINE count == Want({";"}) \o Call("primary") \o Want({"]"}) \o Do("value") \o Build("array")
           more == Want({","}) \o Call("primary")
<1>1. Feeds(where, Call("primary"))
  BY Instructions DEF RoutineNames
<1>2. Plain(where, count)
  <2>1. Feeds(where, Want({";"}) \o Call("primary") \o Want({"]"}))
    BY <1>1, Instructions, FedConcat, CodeIsList
  <2>2. Fed(where, Do("value")) /\ Plain(where, Build("array"))
    BY Instructions
  <2> QED BY <2>1, <2>2, FedConcat, CodeIsList
<1>3. Plain(where, more)
  BY <1>1, Instructions, FedConcat, CodeIsList
<1>4. Plain(where, When({";"}, count)) /\ Plain(where, Until({"]"}, more))
  <2> HIDE DEF count, more
  <2> QED BY <1>2, <1>3, NoCode, Branches
<1>5. Plain(where, Want({"["})) /\ Plain(where, Want({"]"})) /\ Plain(where, Build("array"))
  BY Instructions
<1>6. parseArray = Want({"["}) \o Call("primary") \o When({";"}, count) \o Until({"]"}, more)
                   \o Want({"]"}) \o Build("array")
  BY DEF parseArray
<1> HIDE DEF count, more
<1>7. Plain(where, Want({"["}) \o Call("primary") \o When({";"}, count) \o Until({"]"}, more)
                   \o Want({"]"}))
  BY <1>1, <1>4, <1>5, FedConcat, CodeIsList
<1> QED BY <1>5, <1>6, <1>7, LastInstruction, BodyConcat

LEMMA Primary == \A where : Body(where, parsePrimary)
<1> SUFFICES ASSUME NEW where PROVE Body(where, parsePrimary)
  OBVIOUS
<1> DEFINE token == currentToken
           after == Leaf \o When({"!"}, parseMacroCall) \o When({"("}, parseFunCall)
                    \o When({"["}, parseArrayAccessExpr)
           inner == Want({"("}) \o Expr(0) \o Need \o Expect(")")
           reference == Want({"&"}) \o When({"mut"}, Want({"mut"})) \o Call("primary")
<1>1. /\ Feeds(where, Leaf) /\ Fed(where, Same) /\ Ends(Same) /\ Fed(where, Need)
      /\ Feeds(where, Call("primary")) /\ \A S : Plain(where, Want(S))
  BY Instructions, LastInstruction DEF RoutineNames
<1>2. Body(where, Leaf \o Same)
  BY <1>1, BodyConcat
<1>3. Body(where, after \o Same)
  <2>1. /\ Plain(where, When({"!"}, parseMacroCall)) /\ Plain(where, When({"("}, parseFunCall))
        /\ Plain(where, When({"["}, parseArrayAccessExpr))
    BY MacroCall, FunCall, ArrayAccess, NoCode, Branches
  <2>2. Feeds(where, after)
    BY <1>1, <2>1, FedConcat, CodeIsList
  <2> HIDE DEF after
  <2> QED BY <1>1, <2>2, BodyConcat
<1>4. Body(where, inner \o Same)
  <2>1. Feeds(where, inner)
    BY <1>1, Instructions, Expectations, FedConcat, CodeIsList
  <2> HIDE DEF inner
  <2> QED BY <1>1, <2>1, BodyConcat
<1>5. ASSUME token \in {"-", "!"}
      PROVE  Body(where, Want({token}) \o Call("primary") \o Need \o Build(token))
  <2>1. Plain(where, Build(token)) /\ Ends(Build(token))
    BY <1>5, Instructions, LastInstruction
  <2> HIDE DEF token
  <2>2. Plain(where, Want({token}) \o Call("primary") \o Need)
    BY <1>1, FedConcat, CodeIsList
  <2> QED BY <2>1, <2>2, BodyConcat
<1>6. Body(where, reference \o Build("&"))
  <2>1. Plain(where, When({"mut"}, Want({"mut"})))
    BY <1>1, NoCode, Branches
  <2>2. Plain(where, reference)
    BY <1>1, <2>1, FedConcat, CodeIsList
  <2>3. Plain(where, Build("&")) /\ Ends(Build("&"))
    BY Instructions, LastInstruction
  <2> HIDE DEF reference
  <2> QED BY <2>2, <2>3, BodyConcat
<1>7. Body(where, Report \o NullReturn)
  <2>1. Ends(Report \o NullReturn)
    <3>1. Fed("range", Report) /\ Fed("range", NullReturn)
      BY InstrFed, NoCode DEF Report, NullReturn, Do
    <3> QED BY <3>1, LastInstruction, EndsLast, CodeIsList
  <2> QED BY <2>1, ReportedNull DEF Body
<1>8. Body(where, parseArray)
  BY ArrayLiteral
<1>9. \/ parsePrimary = Leaf \o Same
      \/ parsePrimary = after \o Same
      \/ parsePrimary = inner \o Same
      \/ parsePrimary = parseArray
      \/ token \in {"-", "!"} /\ parsePrimary = Want({token}) \o Call("primary") \o Need \o Build(token)
      \/ parsePrimary = reference \o Build("&")
      \/ parsePrimary = Report \o NullReturn
  <2>1. CASE token \in {"float", "string", "int", "true", "false"}
    BY <2>1 DEF parsePrimary
  <2>2. CASE token = "ident"
    BY <2>2 DEF parsePrimary
  <2>3. CASE token = "("
    BY <2>3 DEF parsePrimary
  <2>4. CASE token = "["
    BY <2>4 DEF parsePrimary
  <2>5. CASE token \in {"-", "!"}
    BY <2>5 DEF parsePrimary
  <2>6. CASE token = "&"
    BY <2>6 DEF parsePrimary
  <2>7. CASE token \notin {"float", "string", "int", "true", "false", "ident", "(", "[", "-", "!", "&"}
    BY <2>7 DEF parsePrimary
  <2> QED BY <2>1, <2>2, <2>3, <2>4, <2>5, <2>6, <2>7
<1> HIDE DEF token, after, inner, reference
<1> QED BY <1>2, <1>3, <1>4, <1>5, <1>6, <1>7, <1>8, <1>9

LEMMA ClimbCode ==
  ASSUME NEW where, NEW min, currentToken # "null"
  PROVE  Fed(where, Climb(min)) /\ Ends(Climb(min))
<1> DEFINE operator == currentToken
           step == Want({operator}) \o Expr(Precedence(operator) + 1) \o Need
                   \o Instr("combine", {}, operator, <<>>, <<>>)
           again == Instr("climb", {min}, "", <<>>, <<>>)
<1>1. Climb(min) = Same \/ Climb(min) = step \o again
  BY DEF Climb
<1>2. Feeds(where, Instr("combine", {}, operator, <<>>, <<>>)) /\ Fed(where, again)
      /\ Fed(where, Same) /\ Ends(Same) /\ Ends(again)
  BY Instructions, LastInstruction
<1>3. Feeds(where, step)
  <2>1. Plain(where, Want({operator})) /\ Feeds(where, Expr(Precedence(operator) + 1)) /\ Fed(where, Need)
    BY Instructions
  <2> HIDE DEF operator
  <2> QED BY <1>2, <2>1, FedConcat, CodeIsList
<1> HIDE DEF operator, step, again
<1>4. Body(where, step \o again)
  BY <1>2, <1>3, BodyConcat
<1> QED BY <1>1, <1>2, <1>4 DEF Body, Plain

LEMMA Expression == \A where, min : Body(where, parseExpr(min))
<1> SUFFICES ASSUME NEW where, NEW min PROVE Body(where, parseExpr(min))
  OBVIOUS
<1> DEFINE cast == Want({"as"}) \o Call("type") \o Instr("combine", {}, "as", <<>>, <<>>)
           again == Instr("climb", {min}, "", <<>>, <<>>)
<1>1. /\ Feeds(where, Call("primary")) /\ Feeds(where, Call("type")) /\ Fed(where, Need)
      /\ Fed(where, again) /\ Ends(again) /\ Plain(where, Want({"as"}))
      /\ Feeds(where, Instr("combine", {}, "as", <<>>, <<>>))
  BY Instructions, LastInstruction DEF RoutineNames
<1>2. Plain(where, cast)
  BY <1>1, FedConcat, CodeIsList
<1>3. Plain(where, When({"as"}, cast))
  <2> HIDE DEF cast
  <2> QED BY <1>2, NoCode, Branches
<1>4. parseExpr(min) = Call("primary") \o Need \o When({"as"}, cast) \o again
  BY DEF parseExpr
<1> HIDE DEF cast, again
<1>5. Feeds(where, Call("primary") \o Need \o When({"as"}, cast))
  BY <1>1, <1>3, FedConcat, CodeIsList
<1> QED BY <1>1, <1>4, <1>5, BodyConcat

LEMMA Type == \A where : Body(where, parseType)
<1> SUFFICES ASSUME NEW where PROVE Body(where, parseType)
  OBVIOUS
<1> DEFINE pointer == Want({"*"}) \o If({"mut", "const"}, Want({"mut", "const"}), Report)
                      \o Call("type") \o Need
           reference == Want({"&"}) \o When({"mut"}, Want({"mut"})) \o Call("type") \o Need
           array == Want({"["}) \o Call("type") \o Need \o Expect(";") \o Require("int") \o Leaf
                    \o Expect("]")
           name == Require("ident") \o Leaf
<1>1. /\ Feeds(where, Call("type")) /\ Feeds(where, Leaf) /\ Fed(where, Need) /\ Fed(where, Same)
      /\ Plain(where, Report) /\ \A S : Plain(where, Want(S))
  BY Instructions DEF RoutineNames
<1>2. \A kind : Plain(where, Expect(kind)) /\ Plain(where, Require(kind))
  BY Expectations
<1>3. Plain(where, Build("*")) /\ Plain(where, Build("&")) /\ Plain(where, Build("arraytype"))
  BY Instructions
<1>4. Ends(Same) /\ \A kind : Ends(Build(kind))
  BY LastInstruction
<1>5. Plain(where, pointer)
  <2>1. Plain(where, If({"mut", "const"}, Want({"mut", "const"}), Report))
    BY <1>1, Branches
  <2> QED BY <1>1, <2>1, FedConcat, CodeIsList
<1>6. Plain(where, reference)
  <2>1. Plain(where, When({"mut"}, Want({"mut"})))
    BY <1>1, NoCode, Branches
  <2> QED BY <1>1, <2>1, FedConcat, CodeIsList
<1>7. Plain(where, array)
  BY <1>1, <1>2, FedConcat, CodeIsList
<1>8. Feeds(where, name)
  BY <1>1, <1>2, FedConcat, CodeIsList
<1>9. parseType \in {pointer \o Build("*"), reference \o Build("&"), array \o Build("arraytype"),
                     name \o Same}
  BY DEF parseType
<1> HIDE DEF pointer, reference, array, name
<1> QED BY <1>1, <1>3, <1>4, <1>5, <1>6, <1>7, <1>8, <1>9, BodyConcat

LEMMA RangeExpr == Body("range", parseRangeExpr)
<1>1. Feeds("range", Call("primary")) /\ Plain("range", Build("range")) /\ Ends(Build("range"))
  BY Instructions, LastInstruction DEF RoutineNames
<1>2. Plain("range", NullReturn) /\ Plain("range", Want({"..", "..="}))
  BY Instructions, InstrFed, NoCode DEF NullReturn, Do, Takers
<1>3. Plain("range", If({"..", "..="}, Want({"..", "..="}), NullReturn))
  BY <1>2, Branches
<1>4. Plain("range", Call("primary") \o If({"..", "..="}, Want({"..", "..="}), NullReturn)
                     \o Call("primary"))
  BY <1>1, <1>3, FedConcat, CodeIsList
<1> QED BY <1>1, <1>4, BodyConcat DEF parseRangeExpr

LEMMA LetStmt == \A where : Body(where, parseLetStmt)
<1> SUFFICES ASSUME NEW where PROVE Body(where, parseLetStmt)
  OBVIOUS
<1> DEFINE typed == When({":"}, Want({":"}) \o Call("type"))
           value == If({";"}, Want({";"}), Expect("=") \o Expr(0) \o Need \o Expect(";"))
           mutable == When({"mut"}, Want({"mut"}))
<1>1. /\ Feeds(where, Call("type")) /\ Feeds(where, Call("primary")) /\ Fed(where, Need)
      /\ Feeds(where, Expr(0)) /\ \A S : Plain(where, Want(S))
  BY Instructions DEF RoutineNames
<1>2. \A kind : Plain(where, Expect(kind)) /\ Plain(where, Require(kind))
  BY Expectations
<1>3. Plain(where, mutable)
  BY <1>1, NoCode, Branches
<1>4. Plain(where, typed)
  <2>1. Plain(where, Want({":"}) \o Call("type"))
    BY <1>1, FedConcat, CodeIsList
  <2> QED BY <2>1, NoCode, Branches
<1>5. Plain(where, value)
  <2>1. Plain(where, Expect("=") \o Expr(0) \o Need \o Expect(";"))
    BY <1>1, <1>2, FedConcat, CodeIsList
  <2> QED BY <1>1, <2>1, Branches
<1>6. parseLetStmt = Want({"let"}) \o mutable \o Require("ident") \o Call("primary") \o typed \o value
                     \o Build("let")
  BY DEF parseLetStmt
<1>7. Plain(where, Build("let")) /\ Ends(Build("let"))
  BY Instructions, LastInstruction
<1> HIDE DEF typed, value, mutable
<1>8. Plain(where, Want({"let"}) \o mutable \o Require("ident") \o Call("primary") \o typed \o value)
  BY <1>1, <1>2, <1>3, <1>4, <1>5, FedConcat, CodeIsList
<1> QED BY <1>6, <1>7, <1>8, BodyConcat

LEMMA IfStmt == \A where : Body(where, parseIfStmt)
<1> SUFFICES ASSUME NEW where PROVE Body(where, parseIfStmt)
  OBVIOUS
<1> DEFINE other == When({"else"}, Want({"else"}) \o Call("stmt") \o Need)
<1>1. /\ Feeds(where, Call("stmt")) /\ Fed(where, Need) /\ Feeds(where, Expr(0))
      /\ \A S : Plain(where, Want(S))
  BY Instructions DEF RoutineNames
<1>2. Plain(where, other)
  <2>1. Plain(where, Want({"else"}) \o Call("stmt") \o Need)
    BY <1>1, FedConcat, CodeIsList
  <2> QED BY <2>1, NoCode, Branches
<1>3. parseIfStmt = Want({"if"}) \o Expr(0) \o Need \o Call("stmt") \o Need \o other \o Build("if")
  BY DEF parseIfStmt
<1>4. Plain(where, Build("if")) /\ Ends(Build("if"))
  BY Instructions, LastInstruction
<1> HIDE DEF other
<1>5. Plain(where, Want({"if"}) \o Expr(0) \o Need \o Call("stmt") \o Need \o other)
  BY <1>1, <1>2, FedConcat, CodeIsList
<1> QED BY <1>3, <1>4, <1>5, BodyConcat

LEMMA WhileStmt == \A where : Body(where, parseWhileStmt)
<1> SUFFICES ASSUME NEW where PROVE Body(where, parseWhileStmt)
  OBVIOUS
<1>1. Feeds(where, Call("stmt")) /\ Feeds(where, Expr(0)) /\ Plain(where, Want({"while"}))
  BY Instructions DEF RoutineNames
<1>2. Plain(where, Build("while")) /\ Ends(Build("while"))
  BY Instructions, LastInstruction
<1>3. Plain(where, Want({"while"}) \o Expr(0) \o Call("stmt"))
  BY <1>1, FedConcat, CodeIsList
<1> QED BY <1>2, <1>3, BodyConcat DEF parseWhileStmt

LEMMA BlockStmt == \A where : Body(where, parseBlockStmt)
<1> SUFFICES ASSUME NEW where PROVE Body(where, parseBlockStmt)
  OBVIOUS
<1> DEFINE statements == Until({"}", "eof"}, Call("stmt") \o Do("recover"))
<1>1. Plain(where, statements)
  <2>1. Feeds(where, Call("stmt")) /\ Fed(where, Do("recover"))
    BY Instructions DEF RoutineNames
  <2>2. Plain(where, Call("stmt") \o Do("recover"))
    BY <2>1, FedConcat, CodeIsList
  <2> QED BY <2>2, NoCode, Branches
<1>2. parseBlockStmt = Want({"{"}) \o statements \o Expect("}") \o Build("block")
  BY DEF parseBlockStmt
<1>3. Plain(where, Build("block")) /\ Ends(Build("block")) /\ Plain(where, Want({"{"}))
      /\ Plain(where, Expect("}"))
  BY Instructions, LastInstruction, Expectations
<1> HIDE DEF statements
<1>4. Plain(where, Want({"{"}) \o statements \o Expect("}"))
  BY <1>1, <1>3, FedConcat, CodeIsList
<1> QED BY <1>2, <1>3, <1>4, BodyConcat

LEMMA Function == \A where : Body(where, parseFunction)
<1> SUFFICES ASSUME NEW where PROVE Body(where, parseFunction)
  OBVIOUS
<1> DEFINE typed == When({":"}, Want({":"}) \o Call("type"))
           parameter == Require("ident") \o Call("primary") \o typed
           more == Until({")"}, Expect(",") \o parameter)
           parameters == If({")"}, <<>>, parameter \o more)
           result == When({"->"}, Want({"->"}) \o Call("type"))
<1>1. /\ Feeds(where, Call("type")) /\ Feeds(where, Call("primary")) /\ Feeds(where, Call("block"))
      /\ Feeds(where, Leaf) /\ \A S : Plain(where, Want(S))
  BY Instructions DEF RoutineNames
<1>2. \A kind : Plain(where, Expect(kind)) /\ Plain(where, Require(kind))
  BY Expectations
<1>3. Plain(where, typed)
  <2>1. Plain(where, Want({":"}) \o Call("type"))
    BY <1>1, FedConcat, CodeIsList
  <2> QED BY <2>1, NoCode, Branches
<1>4. Plain(where, parameter)
  <2> HIDE DEF typed
  <2> QED BY <1>1, <1>2, <1>3, FedConcat, CodeIsList
<1>5. Plain(where, more)
  <2> HIDE DEF parameter
  <2>1. Plain(where, Expect(",") \o parameter)
    BY <1>2, <1>4, FedConcat
  <2> QED BY <2>1, NoCode, Branches
<1>6. Plain(where, parameters)
  <2> HIDE DEF parameter, more
  <2>1. Plain(where, parameter \o more)
    BY <1>4, <1>5, FedConcat
  <2> QED BY <2>1, NoCode, Branches
<1>7. Plain(where, result)
  <2>1. Plain(where, Want({"->"}) \o Call("type"))
    BY <1>1, FedConcat, CodeIsList
  <2> QED BY <2>1, NoCode, Branches
<1>8. parseFunction = Want({"fn"}) \o Require("ident") \o Leaf \o Expect("(") \o parameters
                      \o Want({")"}) \o result \o Call("block") \o Build("fn")
  BY DEF parseFunction, Separated
<1>9. Plain(where, Build("fn")) /\ Ends(Build("fn"))
  BY Instructions, LastInstruction
<1> HIDE DEF parameters, result
<1>10. Plain(where, Want({"fn"}) \o Require("ident") \o Leaf \o Expect("(") \o parameters
                    \o Want({")"}) \o result \o Call("block"))
  BY <1>1, <1>2, <1>6, <1>7, FedConcat, CodeIsList
<1> QED BY <1>8, <1>9, <1>10, BodyConcat

LEMMA ReturnStmt == \A where : Body(where, parseReturnStmt)
<1> SUFFICES ASSUME NEW where PROVE Body(where, parseReturnStmt)
  OBVIOUS
<1> DEFINE value == If({";"}, <<>>, Expr(0))
<1>1. Plain(where, value)
  BY Instructions, NoCode, Branches, CodeIsList
<1>2. /\ Plain(where, Want({"return"})) /\ Plain(where, Expect(";")) /\ Plain(where, Build("return"))
      /\ Ends(Build("return"))
  BY Instructions, Expectations, LastInstruction
<1>3. parseReturnStmt = Want({"return"}) \o value \o Expect(";") \o Build("return")
  BY DEF parseReturnStmt
<1> HIDE DEF value
<1>4. Plain(where, Want({"return"}) \o value \o Expect(";"))
  BY <1>1, <1>2, FedConcat
<1> QED BY <1>2, <1>3, <1>4, BodyConcat

LEMMA ExprStmt == \A where : Body(where, parseExprStmt)
<1> SUFFICES ASSUME NEW where PROVE Body(where, parseExprStmt)
  OBVIOUS
<1>1. /\ Feeds(where, Expr(0)) /\ Fed(where, Need) /\ Plain(where, Expect(";"))
      /\ Plain(where, Build("exprstmt")) /\ Ends(Build("exprstmt"))
  BY Instructions, Expectations, LastInstruction
<1>2. Plain(where, Expr(0) \o Need \o Expect(";"))
  BY <1>1, FedConcat, CodeIsList
<1> QED BY <1>1, <1>2, BodyConcat DEF parseExprStmt

LEMMA Program == \A where : Body(where, parse)
<1> SUFFICES ASSUME NEW where PROVE Body(where, parse)
  OBVIOUS
<1>1. Feeds(where, Call("stmt")) /\ Fed(where, Do("skip"))
  BY Instructions DEF RoutineNames
<1>2. Plain(where, Call("stmt") \o Do("skip"))
  BY <1>1, FedConcat, CodeIsList
<1>3. Plain(where, Until({"eof"}, Call("stmt") \o Do("skip")))
  BY <1>2, NoCode, Branches
<1>4. Plain(where, Build("program")) /\ Ends(Build("program"))
  BY Instructions, LastInstruction
<1> QED BY <1>3, <1>4, BodyConcat DEF parse

(* parseForStmt from the range on, and around it. *)
ForRest == Call("stmt") \o Build("for")

LEMMA ForCode ==
  /\ IsCode(Build("for")) /\ Ends(Build("for"))
  /\ IsCode(ForRest) /\ Ends(ForRest)
  /\ IsCode(parseForStmt) /\ Ends(parseForStmt)
<1>1. \A kind \in RoutineNames : IsCode(Call(kind))
  BY InstrCode, NoCode DEF Call
<1>2. IsCode(Build("for")) /\ IsCode(Want({"for"}))
  BY InstrCode, NoCode DEF Build, Want
<1>3. IsCode(Expect("in"))
  BY Expectations, CodeIsList
<1>4. "primary" \in RoutineNames /\ "range" \in RoutineNames /\ "stmt" \in RoutineNames
  BY DEF RoutineNames
<1>5. Ends(Build("for"))
  BY LastInstruction
<1>6. IsCode(ForRest) /\ Ends(ForRest)
  BY <1>1, <1>2, <1>4, <1>5, CodeConcat, EndsLast, CodeIsList DEF ForRest
<1>7. IsCode(Want({"for"}) \o Call("primary") \o Expect("in") \o Call("range") \o Call("stmt"))
  BY <1>1, <1>2, <1>3, <1>4, CodeConcat
<1> QED BY <1>2, <1>5, <1>6, <1>7, CodeConcat, EndsLast, CodeIsList DEF parseForStmt

LEMMA Stmt == parseStmt = parseForStmt \/ \A where : Body(where, parseStmt)
<1>1. \/ parseStmt = parseForStmt
      \/ parseStmt \in {parseLetStmt, parseIfStmt, parseWhileStmt, parseBlockStmt, parseFunction,
                        parseReturnStmt, parseExprStmt}
  BY DEF parseStmt
<1> QED BY <1>1, LetStmt, IfStmt, WhileStmt, BlockStmt, Function, ReturnStmt, ExprStmt

(* What a call starts. *)
LEMMA Routines ==
  ASSUME NEW i, i.kind \in RoutineNames
  PROVE  /\ IsCode(Routine(i)) /\ Ends(Routine(i))
         /\ i.kind = "range" => Routine(i) = parseRangeExpr
         /\ i.kind # "range" => Routine(i) = parseForStmt \/ Body("elsewhere", Routine(i))
<1>1. CASE i.kind = "primary"
  <2>1. Routine(i) = parsePrimary
    BY <1>1 DEF Routine
  <2> QED BY <1>1, <2>1, Primary, CodeIsList DEF Body
<1>2. CASE i.kind = "expr"
  <2>1. Routine(i) = parseExpr(CHOOSE precedence \in i.at : TRUE)
    BY <1>2 DEF Routine
  <2> QED BY <1>2, <2>1, Expression, CodeIsList DEF Body
<1>3. CASE i.kind = "type"
  <2>1. Routine(i) = parseType
    BY <1>3 DEF Routine
  <2> QED BY <1>3, <2>1, Type, CodeIsList DEF Body
<1>4. CASE i.kind = "range"
  <2>1. Routine(i) = parseRangeExpr
    BY <1>4 DEF Routine
  <2> QED BY <1>4, <2>1, RangeExpr, CodeIsList DEF Body
<1>5. CASE i.kind = "stmt"
  <2>1. Routine(i) = parseStmt
    BY <1>5 DEF Routine
  <2> QED BY <1>5, <2>1, Stmt, ForCode, CodeIsList DEF Body
<1>6. CASE i.kind = "block"
  <2>1. Routine(i) = parseBlockStmt
    BY <1>6 DEF Routine
  <2> QED BY <1>6, <2>1, BlockStmt, CodeIsList DEF Body
<1> QED BY <1>1, <1>2, <1>3, <1>4, <1>5, <1>6 DEF RoutineNames

-------------------------------------------------------------------------------
(* The call stack                                                          *)

FrameOf(code, nodes) == IsCode(code) /\ Ends(code) /\ IsList(nodes) /\ Len(nodes) <= MaxNodes

Frame(c) == c = [code |-> c.code, nodes |-> c.nodes] /\ FrameOf(c.code, c.nodes)

Stack(frames) == IsList(frames) /\ \A k \in 1 .. Len(frames) : Frame(frames[k])

LEMMA WithNode ==
  ASSUME NEW nodes, IsList(nodes), Len(nodes) <= MaxNodes, NEW n
  PROVE  /\ IsList(With(nodes, n)) /\ Len(With(nodes, n)) <= MaxNodes /\ With(nodes, n) # <<>>
         /\ \A k \in 1 .. Len(With(nodes, n)) :
              \/ k \in 1 .. Len(nodes) /\ With(nodes, n)[k] = nodes[k]
              \/ k = Len(nodes) + 1 /\ With(nodes, n)[k] = n
<1>1. Len(nodes) \in Nat /\ MaxNodes \in Nat /\ MaxNodes > 1
  BY ListFacts, MaxNodesAssumption
<1>2. CASE Len(nodes) < MaxNodes
  <2>1. With(nodes, n) = Append(nodes, n)
    BY <1>2 DEF With
  <2>2. /\ IsList(Append(nodes, n)) /\ Len(Append(nodes, n)) = Len(nodes) + 1
        /\ Append(nodes, n) # <<>> /\ Append(nodes, n)[Len(nodes) + 1] = n
        /\ \A k \in 1 .. Len(nodes) : Append(nodes, n)[k] = nodes[k]
    BY ListAppend
  <2>3. \A k \in 1 .. Len(nodes) + 1 : k \in 1 .. Len(nodes) \/ k = Len(nodes) + 1
    BY <1>1
  <2> QED BY <1>1, <1>2, <2>1, <2>2, <2>3
<1>3. CASE ~(Len(nodes) < MaxNodes)
  <2>1. With(nodes, n) = nodes
    BY <1>3 DEF With
  <2>2. nodes # <<>>
    BY <1>1, <1>3, ListFacts
  <2> QED BY <2>1, <2>2
<1> QED BY <1>2, <1>3

(* What an instruction leaves of its routine's code. *)
LEMMA RestOfCode ==
  ASSUME NEW code, IsCode(code), Ends(code)
  PROVE  /\ code # <<>> /\ Head(code) = code[1]
         /\ IsCode(Tail(code)) /\ Len(Tail(code)) = Len(code) - 1 /\ Len(code) \in Nat /\ Len(code) > 0
         /\ Head(code).op \notin Terminal => Ends(Tail(code))
         /\ IsCode(Head(code).then) /\ IsCode(Head(code).else)
         /\ Head(code).op = "call" => Head(code).kind \in RoutineNames
<1>1. PICK I : code \in Seq(I) /\ Closed(I)
  BY DEF IsCode
<1>2. /\ IsList(code) /\ Len(code) \in Nat /\ Len(code) > 0 /\ code # <<>>
      /\ code[Len(code)].op \in Terminal
  BY CodeIsList, ListFacts DEF Ends
<1>3. /\ IsList(Tail(code)) /\ Len(Tail(code)) = Len(code) - 1 /\ Head(code) = code[1]
      /\ 1 \in 1 .. Len(code)
      /\ \A k \in 1 .. Len(code) - 1 : Tail(code)[k] = code[k + 1]
  BY <1>2, ListTail
<1>4. Tail(code) \in Seq(I) /\ code[1] \in I
  BY <1>1, <1>2, <1>3, HeadTailProperties, LenProperties
<1>5. ASSUME Head(code).op \notin Terminal PROVE Ends(Tail(code))
  <2>1. Len(code) # 1
    BY <1>2, <1>3, <1>5
  <2>2. Len(code) - 1 \in 1 .. Len(code) - 1 /\ Len(code) - 1 + 1 = Len(code)
    <3>1. \A l \in Nat : l > 0 /\ l # 1 => l - 1 \in 1 .. l - 1 /\ l - 1 + 1 = l
      OBVIOUS
    <3> QED BY <1>2, <2>1, <3>1
  <2>3. Tail(code)[Len(code) - 1] = code[Len(code)]
    BY <1>3, <2>2
  <2> QED BY <1>2, <1>3, <2>2, <2>3 DEF Ends
<1>6. IsCode(code[1].then) /\ IsCode(code[1].else) /\ (code[1].op = "call" => code[1].kind \in RoutineNames)
  BY <1>1, <1>4 DEF Closed, IsCode
<1> QED BY <1>1, <1>2, <1>3, <1>4, <1>5, <1>6 DEF IsCode

LEMMA Activated ==
  ASSUME NEW code, IsCode(code), Ends(code)
  PROVE  Frame(Activation(code)) /\ Activation(code).code = code /\ Activation(code).nodes = <<>>
<1>1. Activation(code).code = code /\ Activation(code).nodes = <<>>
  BY DEF Activation
<1>2. Len(<<>>) <= MaxNodes
  BY MaxNodesAssumption, EmptySeq
<1> QED BY <1>1, <1>2, ListEmpty DEF Frame, FrameOf, Activation

LEMMA MadeFrame ==
  ASSUME NEW code, NEW nodes, FrameOf(code, nodes)
  PROVE  Frame([code |-> code, nodes |-> nodes])
<1> QED BY DEF Frame

(* How the instructions change the stack. *)
LEMMA GoOnFacts ==
  ASSUME IsList(calls), calls # <<>>, NEW code, NEW nodes, GoOn(code, nodes)
  PROVE  /\ IsList(calls') /\ calls' # <<>> /\ Len(calls') = Len(calls)
         /\ \A k \in 1 .. Len(calls) - 1 : calls'[k] = calls[k]
         /\ calls'[Len(calls)] = [code |-> code, nodes |-> nodes]
<1> DEFINE c == [code |-> code, nodes |-> nodes]
<1>1. Len(calls) \in Nat /\ Len(calls) > 0
  BY ListFacts
<1>2. /\ IsList(Front(calls)) /\ Len(Front(calls)) = Len(calls) - 1
      /\ \A k \in 1 .. Len(calls) - 1 : Front(calls)[k] = calls[k]
  BY ListFront
<1>3. calls' = Append(Front(calls), c)
  BY DEF GoOn
<1> HIDE DEF c
<1>4. /\ IsList(calls') /\ calls' # <<>> /\ Len(calls') = Len(calls) - 1 + 1
      /\ calls'[Len(calls) - 1 + 1] = c
      /\ \A k \in 1 .. Len(calls) - 1 : calls'[k] = calls[k]
  BY <1>2, <1>3, ListAppend
<1>5. Len(calls) - 1 + 1 = Len(calls)
  BY <1>1
<1> QED BY <1>4, <1>5 DEF c

LEMMA ListConcatOne ==
  ASSUME NEW s, IsList(s), NEW x
  PROVE  /\ IsList(s \o <<x>>) /\ Len(s \o <<x>>) = Len(s) + 1
         /\ \A k \in 1 .. Len(s) : (s \o <<x>>)[k] = s[k]
         /\ (s \o <<x>>)[Len(s) + 1] = x
<1> DEFINE o == <<x>>
<1>1. IsList(o)
  BY ListOne
<1>2. Len(o) = 1 /\ o[1] = x /\ 1 \in 1 .. 1
  BY ListOne
<1> HIDE DEF o
<1>3. /\ IsList(s \o o) /\ Len(s \o o) = Len(s) + Len(o)
      /\ \A k \in 1 .. Len(s) : (s \o o)[k] = s[k]
      /\ \A k \in 1 .. Len(o) : (s \o o)[Len(s) + k] = o[k]
  BY <1>1, ListConcat
<1>4. (s \o o)[Len(s) + 1] = x
  BY <1>2, <1>3
<1> QED BY <1>2, <1>3, <1>4 DEF o

LEMMA EnterFacts ==
  ASSUME IsList(calls), calls # <<>>, Enter, Frame(Top)
  PROVE  /\ IsList(calls') /\ calls' # <<>> /\ Len(calls') = Len(calls) + 1
         /\ \A k \in 1 .. Len(calls) - 1 : calls'[k] = calls[k]
         /\ calls'[Len(calls)] = [code |-> Rest, nodes |-> Nodes]
         /\ calls'[Len(calls) + 1] = Activation(Routine(Next1))
<1> DEFINE c == [Top EXCEPT !.code = Rest]
           e == Activation(Routine(Next1))
           fore == Append(Front(calls), c)
<1>1. Len(calls) \in Nat /\ Len(calls) > 0
  BY ListFacts
<1>2. /\ IsList(Front(calls)) /\ Len(Front(calls)) = Len(calls) - 1
      /\ \A k \in 1 .. Len(calls) - 1 : Front(calls)[k] = calls[k]
  BY ListFront
<1>3. calls' = fore \o <<e>>
  BY DEF Enter
<1>4. c = [code |-> Rest, nodes |-> Nodes]
  <2>1. Top = [code |-> Top.code, nodes |-> Top.nodes]
    BY DEF Frame
  <2> QED BY <2>1 DEF Nodes
<1> HIDE DEF c, e
<1>5. /\ IsList(fore) /\ Len(fore) = Len(calls) /\ fore[Len(calls)] = c
      /\ \A k \in 1 .. Len(calls) - 1 : fore[k] = calls[k]
  <2>1. /\ IsList(fore) /\ Len(fore) = Len(calls) - 1 + 1 /\ fore[Len(calls) - 1 + 1] = c
        /\ \A k \in 1 .. Len(calls) - 1 : fore[k] = calls[k]
    BY <1>2, ListAppend
  <2>2. Len(calls) - 1 + 1 = Len(calls)
    BY <1>1
  <2> QED BY <2>1, <2>2
<1> HIDE DEF fore
<1>7. /\ IsList(calls') /\ Len(calls') = Len(calls) + 1
      /\ \A k \in 1 .. Len(calls) : calls'[k] = fore[k]
      /\ calls'[Len(calls) + 1] = e
  BY <1>3, <1>5, ListConcatOne
<1>8. calls' # <<>>
  BY <1>1, <1>7, ListFacts
<1>9. Len(calls) \in 1 .. Len(calls) /\ \A k \in 1 .. Len(calls) - 1 : k \in 1 .. Len(calls)
  BY <1>1
<1> QED BY <1>4, <1>5, <1>7, <1>8, <1>9 DEF e

LEMMA ReturnFacts ==
  ASSUME Stack(calls), calls # <<>>, NEW n, Return(n)
  PROVE  \/ /\ Len(calls) = 1 /\ calls' = <<>> /\ program' = n
            /\ phase' = IF errors THEN "failed" ELSE "accepted"
         \/ /\ Len(calls) > 1 /\ IsList(calls') /\ calls' # <<>> /\ Len(calls') = Len(calls) - 1
            /\ \A k \in 1 .. Len(calls) - 2 : calls'[k] = calls[k]
            /\ calls'[Len(calls) - 1] = [code |-> calls[Len(calls) - 1].code,
                                         nodes |-> With(calls[Len(calls) - 1].nodes, n)]
            /\ UNCHANGED <<phase, program>>
<1>1. Len(calls) \in Nat /\ Len(calls) > 0 /\ IsList(calls)
  BY ListFacts DEF Stack
<1>2. CASE Len(calls) = 1
  BY <1>2 DEF Return
<1>3. CASE Len(calls) # 1
  <2> DEFINE m == Len(calls) - 1
             caller == calls[m]
             c == [caller EXCEPT !.nodes = With(@, n)]
  <2>1. m \in Nat /\ m > 0 /\ m \in 1 .. Len(calls) /\ m - 1 + 1 = m /\ Len(calls) - 2 = m - 1
        /\ m - 1 \in Nat
    <3>1. \A l \in Nat : l > 0 /\ l # 1 =>
            /\ l - 1 \in Nat /\ l - 1 > 0 /\ l - 1 \in 1 .. l /\ l - 1 - 1 + 1 = l - 1
            /\ l - 2 = l - 1 - 1 /\ l - 1 - 1 \in Nat
      OBVIOUS
    <3> QED BY <1>1, <1>3, <3>1
  <2>2. IsList(Front(calls)) /\ Len(Front(calls)) = m /\ \A k \in 1 .. m : Front(calls)[k] = calls[k]
    BY <1>1, ListFront
  <2>3. Front(calls) # <<>>
    BY <2>1, <2>2, ListFacts
  <2>4. /\ IsList(Front(Front(calls))) /\ Len(Front(Front(calls))) = m - 1
        /\ \A k \in 1 .. m - 1 : Front(Front(calls))[k] = Front(calls)[k]
    BY <2>2, <2>3, ListFront
  <2>5. c = [code |-> caller.code, nodes |-> With(caller.nodes, n)]
    <3>1. caller = [code |-> caller.code, nodes |-> caller.nodes]
      BY <2>1 DEF Stack, Frame
    <3> HIDE DEF caller
    <3> QED BY <3>1
  <2>6. calls' = Append(Front(Front(calls)), c) /\ UNCHANGED <<phase, program>>
    BY <1>3 DEF Return
  <2> HIDE DEF c, m
  <2>7. /\ IsList(calls') /\ calls' # <<>> /\ Len(calls') = m /\ calls'[m] = c
        /\ \A k \in 1 .. m - 1 : calls'[k] = Front(Front(calls))[k]
    <3>1. /\ IsList(calls') /\ calls' # <<>> /\ Len(calls') = m - 1 + 1 /\ calls'[m - 1 + 1] = c
          /\ \A k \in 1 .. m - 1 : calls'[k] = Front(Front(calls))[k]
      BY <2>4, <2>6, ListAppend
    <3> QED BY <2>1, <3>1
  <2>8. \A k \in 1 .. m - 1 : k \in 1 .. m
    BY <2>1
  <2>9. \A k \in 1 .. m - 1 : calls'[k] = calls[k]
    BY <2>2, <2>4, <2>7, <2>8
  <2>10. Len(calls) > 1
    BY <1>1, <1>3
  <2> QED BY <2>1, <2>5, <2>6, <2>7, <2>9, <2>10 DEF m
<1> QED BY <1>2, <1>3

Phases == {"lexing", "parsing", "failed", "crashed", "accepted"}

ParserInv ==
  /\ phase \in Phases
  /\ errors \in BOOLEAN
  /\ phase = "lexing" => idx = 1
  /\ phase # "lexing" => Lexed /\ idx \in 1 .. Len(tokens)
  /\ Stack(calls)
  /\ phase = "parsing" => calls # <<>>

(* The tokens are read up to the end of the file, and never behind it. *)
LEMMA TokensEnd ==
  ASSUME LexInv, Lexed
  PROVE  /\ Len(tokens) \in Nat /\ 1 \in 1 .. Len(tokens) /\ Len(tokens) \in 1 .. Len(tokens)
         /\ DOMAIN tokens = 1 .. Len(tokens)
         /\ tokens[Len(tokens)].kind = "eof"
         /\ \A i \in 1 .. Len(tokens) : tokens[i] \in Toks /\ tokens[i].kind \in Kinds
<1>1. tokens \in Seq(Toks)
  BY DEF LexInv
<1>2. Len(tokens) > 0
  BY <1>1, EmptySeq, LenProperties DEF Lexed
<1>3. /\ Len(tokens) \in Nat /\ Len(tokens) \in 1 .. Len(tokens)
      /\ Last(tokens) = tokens[Len(tokens)]
  BY <1>1, <1>2, FrontLast
<1>4. DOMAIN tokens = 1 .. Len(tokens) /\ \A i \in 1 .. Len(tokens) : tokens[i] \in Toks
  BY <1>1, LenProperties
<1>5. \A t \in Toks : t.kind \in Kinds
  BY DEF Toks
<1> QED BY <1>2, <1>3, <1>4, <1>5 DEF Lexed

LEMMA NullIsNoKind == "null" \notin Kinds
<1>1. "null" \notin {p[3] : p \in Pairs} /\ "null" \notin Punctuation
  BY DEF Pairs, Punctuation
<1> QED BY <1>1, NullAssumption DEF Kinds, PunctuationKinds

LEMMA AdvancedInTokens ==
  ASSUME LexInv, Lexed, NEW i \in 1 .. Len(tokens)
  PROVE  Advanced(i) \in 1 .. Len(tokens)
<1>1. Len(tokens) \in Nat /\ tokens[Len(tokens)].kind = "eof"
  BY TokensEnd
<1>2. CASE tokens[i].kind = "eof"
  BY <1>2 DEF Advanced
<1>3. CASE tokens[i].kind # "eof"
  <2>1. i # Len(tokens)
    BY <1>1, <1>3
  <2> QED BY <1>1, <1>3, <2>1 DEF Advanced
<1> QED BY <1>2, <1>3

LEMMA RecoveredInTokens ==
  ASSUME LexInv, Lexed, NEW i \in 1 .. Len(tokens)
  PROVE  Recovered(i) \in 1 .. Len(tokens)
<1> DEFINE S == {k \in i .. Len(tokens) : tokens[k].kind \in {"}", ";", "eof"}}
           j == Min(S)
<1>1. Len(tokens) \in Nat /\ tokens[Len(tokens)].kind = "eof"
  BY TokensEnd
<1>2. Len(tokens) \in S /\ S \subseteq Nat /\ S \subseteq Int /\ S \subseteq 1 .. Len(tokens)
  <2>1. Len(tokens) \in i .. Len(tokens) /\ i .. Len(tokens) \subseteq 1 .. Len(tokens)
    BY <1>1
  <2>2. Len(tokens) \in S
    BY <1>1, <2>1
  <2>3. S \subseteq 1 .. Len(tokens)
    BY <2>1
  <2> HIDE DEF S
  <2> QED BY <2>2, <2>3
<1>3. j \in 1 .. Len(tokens)
  <2> HIDE DEF S
  <2>1. PICK m \in S : \A k \in S : m <= k
    BY <1>2, Least
  <2>2. j = m
    BY <1>2, <2>1, MinIs
  <2> QED BY <1>2, <2>1, <2>2
<1>4. Recovered(i) = IF tokens[j].kind = ";" THEN Advanced(j) ELSE j
  BY DEF Recovered
<1> HIDE DEF j
<1> QED BY <1>3, <1>4, AdvancedInTokens

LEMMA TopFacts ==
  ASSUME Stack(calls), calls # <<>>
  PROVE  /\ IsList(calls) /\ Len(calls) \in Nat /\ Len(calls) > 0 /\ Len(calls) \in 1 .. Len(calls)
         /\ Top = calls[Len(calls)] /\ Frame(Top)
         /\ FrameOf(Top.code, Nodes) /\ IsCode(Top.code) /\ Ends(Top.code)
         /\ IsList(Nodes) /\ Len(Nodes) <= MaxNodes
<1>1. IsList(calls) /\ \A k \in 1 .. Len(calls) : Frame(calls[k])
  BY DEF Stack
<1>2. Len(calls) \in Nat /\ Len(calls) > 0 /\ Len(calls) \in 1 .. Len(calls)
      /\ Last(calls) = calls[Len(calls)]
  BY <1>1, ListFacts, ListFront
<1>3. Frame(Top) /\ Top = calls[Len(calls)]
  BY <1>1, <1>2 DEF Top
<1> QED BY <1>1, <1>2, <1>3 DEF Frame, FrameOf, Nodes

LEMMA StackGoesOn ==
  ASSUME Stack(calls), calls # <<>>, NEW code, NEW nodes, FrameOf(code, nodes), GoOn(code, nodes)
  PROVE  Stack(calls') /\ calls' # <<>>
<1> DEFINE c == [code |-> code, nodes |-> nodes]
<1>1. Len(calls) \in Nat /\ Len(calls) > 0 /\ IsList(calls)
  BY TopFacts
<1>2. Frame(c)
  BY MadeFrame
<1>3. /\ IsList(calls') /\ calls' # <<>> /\ Len(calls') = Len(calls)
      /\ \A k \in 1 .. Len(calls) - 1 : calls'[k] = calls[k]
      /\ calls'[Len(calls)] = c
  BY <1>1, GoOnFacts
<1> HIDE DEF c
<1>4. ASSUME NEW k \in 1 .. Len(calls') PROVE Frame(calls'[k])
  <2>1. k \in 1 .. Len(calls) /\ (k \in 1 .. Len(calls) - 1 \/ k = Len(calls))
    BY <1>1, <1>3
  <2> QED BY <1>2, <1>3, <2>1 DEF Stack
<1> QED BY <1>3, <1>4 DEF Stack

LEMMA StackReturns ==
  ASSUME Stack(calls), calls # <<>>, phase = "parsing", NEW n, Return(n)
  PROVE  /\ Stack(calls') /\ phase' \in Phases \ {"lexing"}
         /\ phase' = "parsing" => calls' # <<>>
<1>1. Len(calls) \in Nat /\ Len(calls) > 0 /\ IsList(calls)
  BY TopFacts
<1> DEFINE m == Len(calls) - 1
           c == [code |-> calls[m].code, nodes |-> With(calls[m].nodes, n)]
<1>2. \/ Len(calls) = 1 /\ calls' = <<>> /\ phase' = IF errors THEN "failed" ELSE "accepted"
      \/ /\ Len(calls) > 1 /\ IsList(calls') /\ calls' # <<>> /\ Len(calls') = Len(calls) - 1
         /\ \A k \in 1 .. Len(calls) - 2 : calls'[k] = calls[k]
         /\ calls'[m] = c
         /\ phase' = phase
  BY ReturnFacts
<1>3. CASE Len(calls) = 1 /\ calls' = <<>> /\ phase' = IF errors THEN "failed" ELSE "accepted"
  <2>1. phase' \in {"failed", "accepted"}
    BY <1>3
  <2>2. Stack(<<>>)
    BY ListEmpty DEF Stack
  <2> QED BY <1>3, <2>1, <2>2 DEF Phases
<1>4. CASE /\ Len(calls) > 1 /\ IsList(calls') /\ calls' # <<>> /\ Len(calls') = Len(calls) - 1
           /\ \A k \in 1 .. Len(calls) - 2 : calls'[k] = calls[k]
           /\ calls'[m] = c
           /\ phase' = phase
  <2>1. m \in 1 .. Len(calls)
    BY <1>1, <1>4
  <2>2. Frame(c)
    <3>1. FrameOf(calls[m].code, calls[m].nodes)
      BY <2>1 DEF Stack, Frame
    <3> HIDE DEF m
    <3>2. FrameOf(calls[m].code, With(calls[m].nodes, n))
      BY <3>1, WithNode DEF FrameOf
    <3> QED BY <3>2, MadeFrame
  <2> HIDE DEF c
  <2>3. ASSUME NEW k \in 1 .. Len(calls') PROVE Frame(calls'[k])
    <3>1. k = m \/ (k \in 1 .. Len(calls) - 2 /\ k \in 1 .. Len(calls))
      BY <1>1, <1>4
    <3> QED BY <1>4, <2>2, <3>1 DEF Stack
  <2>4. Stack(calls')
    BY <1>4, <2>3 DEF Stack
  <2> QED BY <1>4, <2>4 DEF Phases
<1> QED BY <1>2, <1>3, <1>4

LEMMA ParserStays ==
  ASSUME ParserInv, phase # "lexing", tokens' = tokens, phase' \in Phases \ {"lexing"},
         errors' \in BOOLEAN, idx' \in 1 .. Len(tokens), Stack(calls'),
         phase' = "parsing" => calls' # <<>>
  PROVE  ParserInv'
<1>1. Lexed'
  BY DEF ParserInv, Lexed
<1>2. Stack(calls)'
  OBVIOUS
<1> QED BY <1>1, <1>2 DEF ParserInv

LEMMA AtInstruction ==
  ASSUME LexInv, ParserInv, phase = "parsing"
  PROVE  /\ Stack(calls) /\ calls # <<>> /\ phase # "lexing" /\ phase \in Phases \ {"lexing"}
         /\ Lexed /\ idx \in 1 .. Len(tokens) /\ errors \in BOOLEAN
         /\ currentToken \in Kinds /\ currentToken # "null"
         /\ IsCode(Top.code) /\ Ends(Top.code) /\ IsList(Nodes) /\ Len(Nodes) <= MaxNodes
         /\ Next1.op \notin Terminal => FrameOf(Rest, Nodes) /\ \A n : FrameOf(Rest, With(Nodes, n))
         /\ Next1 = Top.code[1] /\ IsCode(Rest)
         /\ IsCode(Next1.then) /\ IsCode(Next1.else)
         /\ Next1.op = "call" => Next1.kind \in RoutineNames
<1>1. Stack(calls) /\ calls # <<>> /\ Lexed /\ idx \in 1 .. Len(tokens) /\ errors \in BOOLEAN
  BY DEF ParserInv
<1>2. phase # "lexing" /\ phase \in Phases \ {"lexing"}
  BY DEF Phases
<1>3. currentToken \in Kinds /\ currentToken # "null"
  <2>1. currentToken \in Kinds
    BY <1>1, TokensEnd DEF currentToken
  <2> QED BY <2>1, NullIsNoKind
<1>4. IsCode(Top.code) /\ Ends(Top.code) /\ IsList(Nodes) /\ Len(Nodes) <= MaxNodes
  BY <1>1, TopFacts
<1>5. /\ Next1 = Top.code[1] /\ IsCode(Rest) /\ IsCode(Next1.then) /\ IsCode(Next1.else)
      /\ Next1.op \notin Terminal => Ends(Rest)
      /\ Next1.op = "call" => Next1.kind \in RoutineNames
  BY <1>4, RestOfCode DEF Next1, Rest
<1>6. ASSUME Next1.op \notin Terminal
      PROVE  FrameOf(Rest, Nodes) /\ \A n : FrameOf(Rest, With(Nodes, n))
  BY <1>4, <1>5, <1>6, WithNode DEF FrameOf
<1> QED BY <1>1, <1>2, <1>3, <1>4, <1>5, <1>6

LEMMA ConsumeStep ==
  ASSUME LexInv, ParserInv, Consume, UNCHANGED lexVars
  PROVE  ParserInv'
<1>1. phase = "parsing" /\ Next1.op \in {"want", "leaf"} /\ tokens' = tokens
  BY DEF Consume, Running, lexVars
<1>2. PICK nodes : GoOn(Rest, nodes) /\ (nodes = Nodes \/ \E n : nodes = With(Nodes, n))
  BY DEF Consume
<1>3. Next1.op \notin Terminal
  BY <1>1 DEF Terminal
<1>4. FrameOf(Rest, nodes) /\ Stack(calls) /\ calls # <<>>
  BY <1>1, <1>2, <1>3, AtInstruction
<1>5. Stack(calls') /\ calls' # <<>>
  BY <1>2, <1>4, StackGoesOn
<1>6. errors' \in BOOLEAN /\ idx' \in 1 .. Len(tokens) /\ phase' = phase
  BY <1>1, AtInstruction, AdvancedInTokens DEF Consume
<1> QED BY <1>1, <1>5, <1>6, AtInstruction, ParserStays

LEMMA ReportErrorStep ==
  ASSUME LexInv, ParserInv, ReportError, UNCHANGED lexVars
  PROVE  ParserInv'
<1>1. phase = "parsing" /\ Next1.op = "report" /\ tokens' = tokens
  BY DEF ReportError, Running, lexVars
<1>2. Next1.op \notin Terminal
  BY <1>1 DEF Terminal
<1>3. FrameOf(Rest, Nodes) /\ Stack(calls) /\ calls # <<>> /\ GoOn(Rest, Nodes)
  BY <1>1, <1>2, AtInstruction DEF ReportError
<1>4. Stack(calls') /\ calls' # <<>>
  BY <1>3, StackGoesOn
<1>5. errors' \in BOOLEAN /\ idx' \in 1 .. Len(tokens) /\ phase' = phase
  BY <1>1, AtInstruction DEF ReportError
<1> QED BY <1>1, <1>4, <1>5, AtInstruction, ParserStays

LEMMA EndsFirst ==
  ASSUME NEW s, IsList(s), Ends(s)
  PROVE  Ends(s \o <<>>)
<1>1. Len(s) \in Nat /\ Len(s) > 0 /\ Len(s) \in 1 .. Len(s)
  BY ListFacts DEF Ends
<1>2. Len(s \o <<>>) = Len(s) + Len(<<>>) /\ \A k \in 1 .. Len(s) : (s \o <<>>)[k] = s[k]
  BY ListEmpty, ListConcat
<1>3. Len(<<>>) = 0
  BY ListEmpty
<1> DEFINE t == s \o <<>>
<1>4. Len(t) = Len(s) /\ t[Len(s)] = s[Len(s)]
  <2> HIDE DEF t
  <2> QED BY <1>1, <1>2, <1>3 DEF t
<1> HIDE DEF t
<1> QED BY <1>1, <1>4 DEF Ends, t

LEMMA EndsOrNothing ==
  ASSUME NEW code, IsCode(code), Ends(code)
  PROVE  Ends(Tail(code)) \/ Tail(code) = <<>>
<1>1. IsList(code) /\ Len(code) \in Nat /\ Len(code) > 0
  BY CodeIsList, RestOfCode
<1>2. /\ IsList(Tail(code)) /\ Len(Tail(code)) = Len(code) - 1 /\ code # <<>>
      /\ \A k \in 1 .. Len(code) - 1 : Tail(code)[k] = code[k + 1]
  BY <1>1, ListTail, RestOfCode
<1> DEFINE tail == Tail(code)
<1>3. /\ IsList(tail) /\ Len(tail) = Len(code) - 1
      /\ \A k \in 1 .. Len(code) - 1 : tail[k] = code[k + 1]
  BY <1>2
<1> HIDE DEF tail
<1>4. CASE Len(code) = 1
  <2>1. Len(tail) = 0
    BY <1>3, <1>4
  <2>2. tail = <<>>
    BY <1>3, <2>1, ListFacts
  <2> QED BY <2>2 DEF tail
<1>5. CASE Len(code) # 1
  <2>1. \A l \in Nat : l > 0 /\ l # 1 => l - 1 \in 1 .. l - 1 /\ l - 1 + 1 = l /\ l - 1 > 0
    OBVIOUS
  <2>2. tail[Len(code) - 1] = code[Len(code)] /\ Len(code) - 1 > 0
    BY <1>1, <1>3, <1>5, <2>1
  <2>3. Ends(tail)
    BY <1>1, <1>3, <2>2 DEF Ends
  <2> QED BY <2>3 DEF tail
<1> QED BY <1>4, <1>5

LEMMA BranchCases ==
  ASSUME Branch
  PROVE  /\ phase = "parsing" /\ UNCHANGED <<phase, idx, errors, program>>
         /\ \E code :
              /\ GoOn(code, Nodes)
              /\ \/ /\ Next1.op = "if"
                    /\ code = Next1.then \o Rest \/ code = Next1.else \o Rest
                 \/ /\ Next1.op \in {"until", "while"}
                    /\ code = Rest \/ code = Next1.then \o Top.code
                 \/ Next1.op = "climb" /\ \E min : code = Climb(min) \o Rest
<1> QED BY DEF Branch, Running

LEMMA BranchStep ==
  ASSUME LexInv, ParserInv, Branch, UNCHANGED lexVars
  PROVE  ParserInv'
<1>1. phase = "parsing" /\ tokens' = tokens /\ UNCHANGED <<phase, idx, errors, program>>
  BY BranchCases DEF lexVars
<1>2. PICK code :
        /\ GoOn(code, Nodes)
        /\ \/ Next1.op = "if" /\ (code = Next1.then \o Rest \/ code = Next1.else \o Rest)
           \/ Next1.op \in {"until", "while"} /\ (code = Rest \/ code = Next1.then \o Top.code)
           \/ Next1.op = "climb" /\ \E min : code = Climb(min) \o Rest
  BY BranchCases
<1>3. IsCode(code) /\ Ends(code)
  <2>1. IsCode(Rest) /\ IsCode(Top.code) /\ Ends(Top.code) /\ IsCode(Next1.then) /\ IsCode(Next1.else)
    BY <1>1, AtInstruction
  <2>2. CASE Next1.op = "if" /\ (code = Next1.then \o Rest \/ code = Next1.else \o Rest)
    <3>1. Ends(Rest)
      BY <1>1, <2>2, AtInstruction DEF FrameOf, Terminal
    <3> QED BY <2>1, <2>2, <3>1, CodeConcat, EndsLast, CodeIsList
  <2>3. CASE Next1.op \in {"until", "while"} /\ (code = Rest \/ code = Next1.then \o Top.code)
    <3>1. Ends(Rest)
      BY <1>1, <2>3, AtInstruction DEF FrameOf, Terminal
    <3> QED BY <2>1, <2>3, <3>1, CodeConcat, EndsLast, CodeIsList
  <2>4. CASE Next1.op = "climb" /\ \E min : code = Climb(min) \o Rest
    <3>1. PICK min : code = Climb(min) \o Rest
      BY <2>4
    <3>2. IsCode(Climb(min)) /\ Ends(Climb(min))
      BY <1>1, AtInstruction, ClimbCode, CodeIsList
    <3>3. Ends(Rest) \/ Rest = <<>>
      BY <1>1, AtInstruction, EndsOrNothing DEF Rest
    <3> QED BY <2>1, <3>1, <3>2, <3>3, CodeConcat, EndsLast, EndsFirst, CodeIsList
  <2> QED BY <1>2, <2>2, <2>3, <2>4
<1>4. FrameOf(code, Nodes) /\ Stack(calls) /\ calls # <<>>
  BY <1>1, <1>3, AtInstruction DEF FrameOf
<1>5. Stack(calls') /\ calls' # <<>>
  BY <1>2, <1>4, StackGoesOn
<1> QED BY <1>1, <1>5, AtInstruction, ParserStays

LEMMA FrontOfNothing == Front(<<>>) = <<>>
<1> QED BY DEF Front

LEMMA EnterStep ==
  ASSUME LexInv, ParserInv, Enter, UNCHANGED lexVars
  PROVE  ParserInv'
<1>1. phase = "parsing" /\ Next1.op = "call" /\ tokens' = tokens /\ UNCHANGED <<phase, idx, errors, program>>
  BY DEF Enter, Running, lexVars
<1>2. Stack(calls) /\ calls # <<>> /\ FrameOf(Rest, Nodes) /\ Next1.kind \in RoutineNames
  BY <1>1, AtInstruction DEF Terminal
<1>3. IsList(calls) /\ Len(calls) \in Nat /\ Len(calls) > 0 /\ Frame(Top)
  BY <1>2, TopFacts
<1> DEFINE c == [code |-> Rest, nodes |-> Nodes]
           e == Activation(Routine(Next1))
<1>4. Frame(c)
  BY <1>2, MadeFrame
<1>5. Frame(e)
  BY <1>2, Routines, Activated
<1>6. /\ IsList(calls') /\ calls' # <<>> /\ Len(calls') = Len(calls) + 1
      /\ \A k \in 1 .. Len(calls) - 1 : calls'[k] = calls[k]
      /\ calls'[Len(calls)] = c
      /\ calls'[Len(calls) + 1] = e
  BY <1>2, <1>3, EnterFacts
<1> HIDE DEF c, e
<1>7. ASSUME NEW k \in 1 .. Len(calls') PROVE Frame(calls'[k])
  <2>1. (k \in 1 .. Len(calls) - 1 /\ k \in 1 .. Len(calls)) \/ k = Len(calls) \/ k = Len(calls) + 1
    BY <1>3, <1>6
  <2> QED BY <1>2, <1>4, <1>5, <1>6, <2>1 DEF Stack
<1>8. Stack(calls')
  BY <1>6, <1>7 DEF Stack
<1> QED BY <1>1, <1>6, <1>8, AtInstruction, ParserStays

LEMMA ReturnStep ==
  ASSUME LexInv, ParserInv, phase = "parsing", NEW n, Return(n), UNCHANGED <<idx, errors>>,
         UNCHANGED lexVars
  PROVE  ParserInv'
<1>1. tokens' = tokens /\ idx' = idx /\ errors' = errors
  BY DEF lexVars
<1>2. Stack(calls) /\ calls # <<>>
  BY AtInstruction
<1>3. Stack(calls') /\ phase' \in Phases \ {"lexing"} /\ (phase' = "parsing" => calls' # <<>>)
  BY <1>2, StackReturns
<1> QED BY <1>1, <1>3, AtInstruction, ParserStays

LEMMA LeaveStep ==
  ASSUME LexInv, ParserInv, Leave, UNCHANGED lexVars
  PROVE  ParserInv'
<1>1. phase = "parsing" /\ UNCHANGED <<idx, errors>> /\ \E n : Return(n)
  BY DEF Leave, Running
<1> QED BY <1>1, ReturnStep

LEMMA CheckNeedStep ==
  ASSUME LexInv, ParserInv, CheckNeed, UNCHANGED lexVars
  PROVE  ParserInv'
<1>1. phase = "parsing" /\ Next1.op = "need" /\ tokens' = tokens /\ UNCHANGED <<idx, errors>>
  BY DEF CheckNeed, Running, lexVars
<1>2. CASE Return(Null)
  BY <1>1, <1>2, ReturnStep
<1>3. CASE GoOn(Rest, Nodes) /\ UNCHANGED <<phase, program>>
  <2>1. Stack(calls) /\ calls # <<>> /\ FrameOf(Rest, Nodes)
    BY <1>1, AtInstruction DEF Terminal
  <2>2. Stack(calls') /\ calls' # <<>>
    BY <1>3, <2>1, StackGoesOn
  <2> QED BY <1>1, <1>3, <2>2, AtInstruction, ParserStays
<1> QED BY <1>2, <1>3 DEF CheckNeed

LEMMA CombineStep ==
  ASSUME LexInv, ParserInv, Combine, UNCHANGED lexVars
  PROVE  ParserInv'
<1> DEFINE n == Node(Next1.kind, Nodes)
<1>1. /\ phase = "parsing" /\ Next1.op = "combine" /\ tokens' = tokens
      /\ UNCHANGED <<phase, idx, errors, program>> /\ GoOn(Rest, <<n>>)
  BY DEF Combine, Running, lexVars
<1> HIDE DEF n
<1>2. IsList(<<n>>) /\ Len(<<n>>) <= MaxNodes
  BY ListOne, MaxNodesAssumption
<1>3. Stack(calls) /\ calls # <<>> /\ FrameOf(Rest, Nodes)
  BY <1>1, AtInstruction DEF Terminal
<1>4. Stack(calls') /\ calls' # <<>>
  BY <1>1, <1>2, <1>3, StackGoesOn DEF FrameOf
<1> QED BY <1>1, <1>4, AtInstruction, ParserStays

LEMMA TakeValueStep ==
  ASSUME LexInv, ParserInv, TakeValue, UNCHANGED lexVars
  PROVE  ParserInv'
<1>1. phase = "parsing" /\ Next1.op = "value" /\ tokens' = tokens /\ UNCHANGED <<idx, errors>>
  BY DEF TakeValue, Running, lexVars
<1>2. Stack(calls) /\ calls # <<>> /\ FrameOf(Rest, Nodes)
  BY <1>1, AtInstruction DEF Terminal
<1>3. CASE phase' = "crashed" /\ UNCHANGED calls
  BY <1>1, <1>2, <1>3, AtInstruction, ParserStays DEF Phases
<1>4. CASE GoOn(Rest, Nodes) /\ UNCHANGED phase
  <2>1. Stack(calls') /\ calls' # <<>>
    BY <1>2, <1>4, StackGoesOn
  <2> QED BY <1>1, <1>4, <2>1, AtInstruction, ParserStays
<1> QED BY <1>3, <1>4 DEF TakeValue

LEMMA RecoverStep ==
  ASSUME LexInv, ParserInv, Recover, UNCHANGED lexVars
  PROVE  ParserInv'
<1>1. /\ phase = "parsing" /\ Next1.op \in {"recover", "skip"} /\ tokens' = tokens
      /\ UNCHANGED <<phase, errors, program>>
  BY DEF Recover, Running, lexVars
<1>2. Stack(calls) /\ calls # <<>> /\ FrameOf(Rest, Nodes) /\ Lexed /\ idx \in 1 .. Len(tokens)
  BY <1>1, AtInstruction DEF Terminal
<1>3. FrameOf(Rest, Front(Nodes))
  <2>1. IsList(Nodes) /\ Len(Nodes) <= MaxNodes /\ Len(Nodes) \in Nat /\ MaxNodes \in Nat
    BY <1>2, ListFacts, MaxNodesAssumption DEF FrameOf
  <2>2. IsList(Front(Nodes)) /\ Len(Front(Nodes)) <= MaxNodes
    <3>1. CASE Nodes = <<>>
      BY <2>1, <3>1, FrontOfNothing
    <3>2. CASE Nodes # <<>>
      <4>1. IsList(Front(Nodes)) /\ Len(Front(Nodes)) = Len(Nodes) - 1
        BY <2>1, <3>2, ListFront
      <4> QED BY <2>1, <4>1
    <3> QED BY <3>1, <3>2
  <2> QED BY <1>2, <2>2 DEF FrameOf
<1>4. GoOn(Rest, Nodes) \/ GoOn(Rest, Front(Nodes))
  BY DEF Recover
<1>5. Stack(calls') /\ calls' # <<>>
  BY <1>2, <1>3, <1>4, StackGoesOn
<1>6. idx' \in 1 .. Len(tokens)
  BY <1>2, AdvancedInTokens, RecoveredInTokens DEF Recover
<1> QED BY <1>1, <1>5, <1>6, AtInstruction, ParserStays

LEMMA StartParsingStep ==
  ASSUME LexInv, ParserInv, StartParsing
  PROVE  ParserInv'
<1>1. /\ phase = "lexing" /\ Lexed /\ tokens' = tokens /\ idx' = idx /\ errors' = errors
      /\ \/ phase' = "failed" /\ UNCHANGED calls
         \/ phase' = "parsing" /\ calls' = <<Activation(parse)>>
  BY DEF StartParsing, lexVars
<1>2. idx' \in 1 .. Len(tokens)
  BY <1>1, TokensEnd DEF ParserInv
<1>3. Stack(calls') /\ (phase' = "parsing" => calls' # <<>>)
  <2> DEFINE a == Activation(parse)
  <2>1. Frame(a)
    BY Program, Activated, CodeIsList DEF Body
  <2> HIDE DEF a
  <2>2. IsList(<<a>>) /\ Len(<<a>>) = 1 /\ <<a>>[1] = a
    BY ListOne
  <2>3. Stack(<<a>>) /\ <<a>> # <<>>
    BY <2>1, <2>2 DEF Stack
  <2>4. calls' = calls \/ calls' = <<a>>
    BY <1>1 DEF a
  <2> QED BY <1>1, <2>3, <2>4 DEF ParserInv, a
<1>4. Lexed' /\ Stack(calls)' /\ phase' \in Phases /\ phase' # "lexing" /\ errors' \in BOOLEAN
  BY <1>1, <1>3 DEF Lexed, Phases, ParserInv
<1> QED BY <1>1, <1>2, <1>3, <1>4 DEF ParserInv

LEMMA ParsingSteps ==
  ASSUME LexInv, ParserInv, [SyntaxNext]_syntaxVars
  PROVE  ParserInv'
<1>1. CASE LexStep
  <2>1. phase = "lexing" /\ phase' = phase /\ idx' = idx /\ calls' = calls /\ errors' = errors
    BY <1>1 DEF LexStep, parserVars
  <2> QED BY <2>1 DEF ParserInv, Phases
<1>2. CASE StartParsing
  BY <1>2, StartParsingStep
<1>3. CASE ParseStep
  BY <1>3, ConsumeStep, ReportErrorStep, BranchStep, EnterStep, LeaveStep, CheckNeedStep, CombineStep,
     TakeValueStep, RecoverStep DEF ParseStep
<1>4. CASE UNCHANGED syntaxVars
  <2>1. phase' = phase /\ idx' = idx /\ calls' = calls /\ errors' = errors /\ tokens' = tokens
    BY <1>4 DEF syntaxVars, parserVars, lexVars
  <2> QED BY <2>1 DEF ParserInv, Lexed
<1> QED BY <1>1, <1>2, <1>3, <1>4 DEF SyntaxNext

SyntaxInv == LexingInv /\ ParserInv

LEMMA SyntaxHolds == SyntaxSpec => []SyntaxInv
<1>1. SyntaxInit => ParserInv
  <2> SUFFICES ASSUME SyntaxInit PROVE ParserInv
    OBVIOUS
  <2>1. phase = "lexing" /\ idx = 1 /\ calls = <<>> /\ errors = FALSE
    BY DEF SyntaxInit
  <2>2. Stack(<<>>)
    BY ListEmpty DEF Stack
  <2> QED BY <2>1, <2>2 DEF ParserInv, Phases
<1>2. LexingInv /\ ParserInv /\ [SyntaxNext]_syntaxVars => ParserInv'
  BY ParsingSteps DEF LexingInv
<1> QED BY <1>1, <1>2, LexingHolds, PTL DEF SyntaxSpec, SyntaxInv

(* The parser reads tokens of the text only, up to the end of the file, and  *)
(* every call on its stack has code left and few enough nodes: for any text, *)
(* any keywords and any bound on the nodes.                                 *)
THEOREM SyntaxTypeOKHolds == SyntaxSpec => []SyntaxTypeOK
<1>1. SyntaxInv => SyntaxTypeOK
  <2> SUFFICES ASSUME SyntaxInv PROVE SyntaxTypeOK
    OBVIOUS
  <2>1. LexInv /\ ParserInv /\ text \in Seq(STRING) /\ Len(text) \in Nat
    BY LenProperties DEF SyntaxInv, LexingInv, LexInv, AnyText
  <2>2. cur \in 1 .. Len(text) + 3 /\ lastLine \in 1 .. Len(text) + 1
    <3>1. lastLine \in 1 .. Len(LineStarts) /\ Len(LineStarts) <= Len(text) + 1 /\ Len(LineStarts) \in Nat
      BY <2>1, StartsTyped DEF LexInv
    <3>2. lastLine \in 1 .. Len(text) + 1
      BY <2>1, <3>1
    <3> QED BY <2>1, <3>2 DEF LexInv, Places
  <2>3. \A n \in DOMAIN tokens : tokens[n].end \in 1 .. Len(text) + 3
    <3>1. tokens \in Seq(Toks) /\ \A n \in DOMAIN tokens : tokens[n] \in Toks
      BY <2>1, LenProperties DEF LexInv
    <3>2. \A t \in Toks : t.end \in Places
      BY DEF Toks
    <3> QED BY <3>1, <3>2 DEF Places
  <2>4. phase # "lexing" => idx \in DOMAIN tokens
    BY <2>1, TokensEnd DEF ParserInv
  <2>5. \A c \in Range(calls) : c.code # <<>> /\ Len(c.nodes) <= MaxNodes
    <3>1. IsList(calls) /\ \A k \in 1 .. Len(calls) : Frame(calls[k])
      BY <2>1 DEF ParserInv, Stack
    <3>2. DOMAIN calls = 1 .. Len(calls)
      BY <3>1, ListFacts
    <3>3. \A c \in Range(calls) : Frame(c)
      BY <3>1, <3>2 DEF Range
    <3> QED BY <3>3, RestOfCode DEF Frame, FrameOf
  <2> QED BY <2>1, <2>2, <2>3, <2>4, <2>5 DEF SyntaxTypeOK, ParserInv, Phases
<1> QED BY <1>1, SyntaxHolds, PTL

-------------------------------------------------------------------------------
(* nullptr                                                                 *)

(* Nodes that are not Null, and whose children are such nodes, but for those *)
(* of a loop that lacks its range.                                          *)
Sound(N) == \A m \in N : m.kind # "null" /\ (LacksRange(m) \/ Range(m.children) \subseteq N)

Proper(n) == \E N : n \in N /\ Sound(N)
ProperAll(nodes) == \E N : (\A k \in 1 .. Len(nodes) : nodes[k] \in N) /\ Sound(N)

LEMMA SoundUnion ==
  ASSUME NEW N, NEW M, Sound(N), Sound(M)
  PROVE  Sound(N \cup M)
<1> QED BY DEF Sound

LEMMA ProperLeaf == ProperAll(<<>>)
<1>1. Sound({})
  BY DEF Sound
<1>2. 1 .. Len(<<>>) = {}
  BY ListEmpty
<1> QED BY <1>1, <1>2 DEF ProperAll

LEMMA ProperNode ==
  ASSUME NEW kind, kind # "null", NEW nodes, IsList(nodes), ProperAll(nodes)
  PROVE  Proper(Node(kind, nodes))
<1> DEFINE n == Node(kind, nodes)
<1>1. PICK N : (\A k \in 1 .. Len(nodes) : nodes[k] \in N) /\ Sound(N)
  BY DEF ProperAll
<1>2. n.kind = kind /\ n.children = nodes
  BY DEF Node
<1> HIDE DEF n
<1>3. Range(nodes) \subseteq N
  <2>1. DOMAIN nodes = 1 .. Len(nodes)
    BY ListFacts
  <2> QED BY <1>1, <2>1 DEF Range
<1>4. Sound(N \cup {n})
  BY <1>1, <1>2, <1>3 DEF Sound
<1> QED BY <1>4 DEF Proper, n

LEMMA ProperFor ==
  ASSUME NEW nodes, nodes[2] = Null
  PROVE  Proper(Node("for", nodes))
<1> DEFINE n == Node("for", nodes)
<1>1. n.kind = "for" /\ n.children = nodes
  BY DEF Node
<1> HIDE DEF n
<1>2. Sound({n})
  BY <1>1 DEF Sound, LacksRange
<1> QED BY <1>2 DEF Proper, n

LEMMA ProperWith ==
  ASSUME NEW nodes, IsList(nodes), Len(nodes) <= MaxNodes, ProperAll(nodes), NEW n, Proper(n)
  PROVE  ProperAll(With(nodes, n))
<1>1. PICK N : (\A k \in 1 .. Len(nodes) : nodes[k] \in N) /\ Sound(N)
  BY DEF ProperAll
<1>2. PICK M : n \in M /\ Sound(M)
  BY DEF Proper
<1>3. Sound(N \cup M)
  BY <1>1, <1>2, SoundUnion
<1>4. \A k \in 1 .. Len(With(nodes, n)) : With(nodes, n)[k] \in N \cup M
  BY <1>1, <1>2, WithNode
<1> QED BY <1>3, <1>4 DEF ProperAll

LEMMA ProperOne ==
  ASSUME NEW n, Proper(n)
  PROVE  ProperAll(<<n>>)
<1>1. PICK M : n \in M /\ Sound(M)
  BY DEF Proper
<1> DEFINE o == <<n>>
<1>2. Len(o) = 1 /\ o[1] = n
  BY ListOne
<1> HIDE DEF o
<1>3. \A k \in 1 .. Len(o) : o[k] \in M
  BY <1>1, <1>2
<1> QED BY <1>1, <1>3 DEF ProperAll, o

LEMMA ProperLast ==
  ASSUME NEW nodes, IsList(nodes), nodes # <<>>, ProperAll(nodes)
  PROVE  Proper(Last(nodes)) /\ Last(nodes) # Null
<1>1. PICK N : (\A k \in 1 .. Len(nodes) : nodes[k] \in N) /\ Sound(N)
  BY DEF ProperAll
<1>2. Last(nodes) \in N
  BY <1>1, ListFront
<1>3. Last(nodes).kind # "null" /\ Null.kind = "null"
  BY <1>1, <1>2 DEF Sound, Null, Node
<1> QED BY <1>1, <1>2, <1>3 DEF Proper

(* The code of parseForStmt behind its first j instructions. *)
ForCodeFrom(j, code) ==
  /\ IsList(code) /\ Len(code) = 6 - j
  /\ \A k \in 1 .. 6 - j : code[k] = parseForStmt[j + k]

LEMMA ForInstructions ==
  /\ ForCodeFrom(0, parseForStmt)
  /\ parseForStmt[1].op = "want"
  /\ parseForStmt[2].op = "call" /\ parseForStmt[2].kind = "primary"
  /\ parseForStmt[3].op = "if" /\ parseForStmt[3].then = Want({"in"})
  /\ parseForStmt[3].else = Report \o NullReturn
  /\ parseForStmt[4].op = "call" /\ parseForStmt[4].kind = "range"
  /\ parseForStmt[5].op = "call" /\ parseForStmt[5].kind = "stmt"
  /\ parseForStmt[6].op = "build" /\ parseForStmt[6].kind = "for"
<1> DEFINE a == [op |-> "want", at |-> {"for"}, kind |-> "", then |-> <<>>, else |-> <<>>]
           b == [op |-> "call", at |-> {}, kind |-> "primary", then |-> <<>>, else |-> <<>>]
           c == [op |-> "if", at |-> {"in"}, kind |-> "", then |-> Want({"in"}),
                 else |-> Report \o NullReturn]
           d == [op |-> "call", at |-> {}, kind |-> "range", then |-> <<>>, else |-> <<>>]
           e == [op |-> "call", at |-> {}, kind |-> "stmt", then |-> <<>>, else |-> <<>>]
           f == [op |-> "build", at |-> {}, kind |-> "for", then |-> <<>>, else |-> <<>>]
<1>1. parseForStmt = <<a>> \o <<b>> \o <<c>> \o <<d>> \o <<e>> \o <<f>>
  BY Zenon DEF parseForStmt, Want, Call, Expect, If, Build, Instr
<1>2. /\ a.op = "want" /\ b.op = "call" /\ b.kind = "primary"
      /\ c.op = "if" /\ c.then = Want({"in"}) /\ c.else = Report \o NullReturn
      /\ d.op = "call" /\ d.kind = "range" /\ e.op = "call" /\ e.kind = "stmt"
      /\ f.op = "build" /\ f.kind = "for"
  OBVIOUS
<1> HIDE DEF a, b, c, d, e, f
<1>3. /\ IsList(parseForStmt) /\ Len(parseForStmt) = 6
      /\ parseForStmt[1] = a /\ parseForStmt[2] = b /\ parseForStmt[3] = c
      /\ parseForStmt[4] = d /\ parseForStmt[5] = e /\ parseForStmt[6] = f
  <2>1. IsList(<<a>>) /\ Len(<<a>>) = 1 /\ <<a>>[1] = a
    BY ListOne
  <2> DEFINE s1 == <<a>>
             s2 == s1 \o <<b>>
             s3 == s2 \o <<c>>
             s4 == s3 \o <<d>>
             s5 == s4 \o <<e>>
             s6 == s5 \o <<f>>
  <2>2. parseForStmt = s6
    BY <1>1
  <2> HIDE DEF s1
  <2>3. IsList(s2) /\ Len(s2) = 2 /\ s2[1] = a /\ s2[2] = b
    <3>1. IsList(s1) /\ Len(s1) = 1 /\ s1[1] = a
      BY <2>1 DEF s1
    <3>2. IsList(s2) /\ Len(s2) = Len(s1) + 1 /\ (\A k \in 1 .. Len(s1) : s2[k] = s1[k]) /\ s2[Len(s1) + 1] = b
      BY <3>1, ListConcatOne
    <3> HIDE DEF s2
    <3> QED BY <3>1, <3>2
  <2> HIDE DEF s2
  <2>4. IsList(s3) /\ Len(s3) = 3 /\ s3[1] = a /\ s3[2] = b /\ s3[3] = c
    <3>2. IsList(s3) /\ Len(s3) = Len(s2) + 1 /\ (\A k \in 1 .. Len(s2) : s3[k] = s2[k]) /\ s3[Len(s2) + 1] = c
      <4>1. IsList(s2)
        BY <2>3
      <4> QED BY <4>1, ListConcatOne
    <3> HIDE DEF s3
    <3> QED BY <2>3, <3>2
  <2> HIDE DEF s3
  <2>5. IsList(s4) /\ Len(s4) = 4 /\ s4[1] = a /\ s4[2] = b /\ s4[3] = c /\ s4[4] = d
    <3>2. IsList(s4) /\ Len(s4) = Len(s3) + 1 /\ (\A k \in 1 .. Len(s3) : s4[k] = s3[k]) /\ s4[Len(s3) + 1] = d
      <4>1. IsList(s3)
        BY <2>4
      <4> QED BY <4>1, ListConcatOne
    <3> HIDE DEF s4
    <3> QED BY <2>4, <3>2
  <2> HIDE DEF s4
  <2>6. IsList(s5) /\ Len(s5) = 5 /\ s5[1] = a /\ s5[2] = b /\ s5[3] = c /\ s5[4] = d /\ s5[5] = e
    <3>2. IsList(s5) /\ Len(s5) = Len(s4) + 1 /\ (\A k \in 1 .. Len(s4) : s5[k] = s4[k]) /\ s5[Len(s4) + 1] = e
      <4>1. IsList(s4)
        BY <2>5
      <4> QED BY <4>1, ListConcatOne
    <3> HIDE DEF s5
    <3> QED BY <2>5, <3>2
  <2> HIDE DEF s5
  <2>7. /\ IsList(s6) /\ Len(s6) = 6 /\ s6[1] = a /\ s6[2] = b /\ s6[3] = c /\ s6[4] = d /\ s6[5] = e
        /\ s6[6] = f
    <3>2. IsList(s6) /\ Len(s6) = Len(s5) + 1 /\ (\A k \in 1 .. Len(s5) : s6[k] = s5[k]) /\ s6[Len(s5) + 1] = f
      <4>1. IsList(s5)
        BY <2>6
      <4> QED BY <4>1, ListConcatOne
    <3> HIDE DEF s6
    <3> QED BY <2>6, <3>2
  <2> HIDE DEF s6
  <2> QED BY <2>2, <2>7
<1>4. ForCodeFrom(0, parseForStmt)
  BY <1>3 DEF ForCodeFrom
<1> QED BY <1>2, <1>3, <1>4

LEMMA ForCodeTail ==
  ASSUME NEW j \in 0 .. 5, NEW code, ForCodeFrom(j, code)
  PROVE  /\ code # <<>> /\ code[1] = parseForStmt[j + 1]
         /\ ForCodeFrom(j + 1, Tail(code))
<1>1. IsList(code) /\ Len(code) = 6 - j /\ \A k \in 1 .. 6 - j : code[k] = parseForStmt[j + k]
  BY DEF ForCodeFrom
<1>2. code # <<>>
  BY <1>1, ListFacts
<1> DEFINE tail == Tail(code)
<1>3. IsList(tail) /\ Len(tail) = 6 - j - 1 /\ \A k \in 1 .. 6 - j - 1 : tail[k] = code[k + 1]
  BY <1>1, <1>2, ListTail
<1> HIDE DEF tail
<1>4. ASSUME NEW k \in 1 .. 6 - (j + 1) PROVE tail[k] = parseForStmt[j + 1 + k]
  <2>1. k \in 1 .. 6 - j - 1 /\ k + 1 \in 1 .. 6 - j /\ j + (k + 1) = j + 1 + k
    OBVIOUS
  <2> QED BY <1>1, <1>3, <2>1
<1>5. ForCodeFrom(j + 1, tail)
  <2>1. 6 - j - 1 = 6 - (j + 1)
    OBVIOUS
  <2> QED BY <1>3, <1>4, <2>1 DEF ForCodeFrom
<1>6. code[1] = parseForStmt[j + 1]
  <2>1. 1 \in 1 .. 6 - j
    OBVIOUS
  <2> QED BY <1>1, <2>1
<1> QED BY <1>2, <1>5, <1>6 DEF tail

(* Only a loop waits for a range. *)
AwaitsRange(code) == ForCodeFrom(4, code)

LEMMA FedAwaitsNoRange ==
  ASSUME NEW where, NEW code, Fed(where, code)
  PROVE  ~AwaitsRange(code)
<1> SUFFICES ASSUME ForCodeFrom(4, code) PROVE FALSE
  BY DEF AwaitsRange
<1>1. Len(code) = 2 /\ code[2] = parseForStmt[6]
  <2>1. Len(code) = 6 - 4 /\ \A k \in 1 .. 6 - 4 : code[k] = parseForStmt[4 + k]
    BY DEF ForCodeFrom
  <2> QED BY <2>1
<1>2. code[2].op = "build" => code[2].kind # "for"
  BY <1>1 DEF Fed, Fits
<1> QED BY <1>1, <1>2, ForInstructions

(* A call, before the first error, of a routine without a loop's hole. *)
Orderly(where, code, nodes) ==
  Fed(where, code) /\ ProperAll(nodes) /\ (Supplied(code) \/ nodes # <<>>)

OneProper(nodes) == Len(nodes) = 1 /\ ProperAll(nodes)
RangeMayLack(nodes) == Len(nodes) > 1 /\ (nodes[2] = Null \/ ProperAll(nodes))

(* A call of parseForStmt, before the first error. *)
Looping(code, nodes) ==
  \/ nodes = <<>> /\ (ForCodeFrom(0, code) \/ ForCodeFrom(1, code))
  \/ OneProper(nodes) /\ (ForCodeFrom(2, code) \/ ForCodeFrom(3, code))
  \/ OneProper(nodes) /\ code[1].op = "want" /\ ForCodeFrom(3, Tail(code))
  \/ code[1].op = "report"
  \/ RangeMayLack(nodes) /\ (ForCodeFrom(4, code) \/ ForCodeFrom(5, code))

Good(where, code, nodes) ==
  Orderly(where, code, nodes) \/ (where = "elsewhere" /\ Looping(code, nodes))

WhereIn(frames, k) == IF k > 1 /\ AwaitsRange(frames[k - 1].code) THEN "range" ELSE "elsewhere"

MayReturn(code, n) == Proper(n) \/ (n = Null /\ AwaitsRange(code))

(* A call that waits goes on with whatever it may be given. *)
Waits(where, code, nodes) ==
  \A n : MayReturn(code, n) => Good(where, code, With(nodes, n))

Unbroken(frames) ==
  /\ \A k \in 1 .. Len(frames) - 1 : Waits(WhereIn(frames, k), frames[k].code, frames[k].nodes)
  /\ Good(WhereIn(frames, Len(frames)), frames[Len(frames)].code, frames[Len(frames)].nodes)

LEMMA WhereAbove ==
  ASSUME NEW frames, NEW l \in Nat, l > 0
  PROVE  WhereIn(frames, l + 1) = IF AwaitsRange(frames[l].code) THEN "range" ELSE "elsewhere"
<1>1. l + 1 > 1 /\ l + 1 - 1 = l
  OBVIOUS
<1> DEFINE k == l + 1
<1>2. frames[k - 1] = frames[l]
  BY <1>1
<1>3. k > 1
  BY <1>1
<1> HIDE DEF k
<1>4. WhereIn(frames, k) = IF AwaitsRange(frames[l].code) THEN "range" ELSE "elsewhere"
  BY <1>2, <1>3 DEF WhereIn
<1> QED BY <1>4 DEF k

LEMMA FedHead ==
  ASSUME NEW where, NEW code, Fed(where, code), IsCode(code), Ends(code)
  PROVE  /\ code[1].op # "report" => Fed(where, Tail(code))
         /\ Plain(where, code[1].then) /\ Plain(where, code[1].else)
         /\ code[1].op = "null" => where = "range"
         /\ code[1].op = "build" => code[1].kind \notin {"null", "for"}
         /\ code[1].op = "combine" => code[1].kind # "null"
         /\ code[1].op = "call" => code[1].kind # "range"
         /\ code[1].op \in Takers => ~Supplied(code)
         /\ code[1].op \notin Givers /\ Supplied(code) => Supplied(Tail(code))
<1>1. PICK I : code \in Seq(I) /\ ClosedPlain(where, I)
  BY DEF Fed
<1>2. /\ IsList(code) /\ Len(code) \in Nat /\ Len(code) > 0 /\ code # <<>>
  BY CodeIsList, RestOfCode
<1> DEFINE tail == Tail(code)
<1>3. /\ IsList(tail) /\ Len(tail) = Len(code) - 1 /\ Head(code) = code[1]
      /\ 1 \in 1 .. Len(code)
      /\ \A k \in 1 .. Len(code) - 1 : tail[k] = code[k + 1]
  BY <1>2, ListTail
<1>4. tail \in Seq(I) /\ code[1] \in I
  BY <1>1, <1>2, <1>3, HeadTailProperties, LenProperties
<1> HIDE DEF tail
<1>5. Fits(where, code)
  BY DEF Fed
<1>6. \A k \in 1 .. Len(tail) : k + 1 \in 1 .. Len(code) /\ tail[k] = code[k + 1]
  BY <1>2, <1>3
<1>7. ASSUME code[1].op # "report" PROVE Fed(where, tail)
  <2>1. ASSUME NEW k \in 1 .. Len(tail)
        PROVE  /\ tail[k].op = "null" => where = "range" \/ (k > 1 /\ tail[k - 1].op = "report")
               /\ tail[k].op = "build" => tail[k].kind \notin {"null", "for"}
               /\ tail[k].op = "combine" => tail[k].kind # "null"
               /\ tail[k].op = "call" => tail[k].kind # "range"
    <3>1. tail[k] = code[k + 1] /\ k + 1 \in 1 .. Len(code) /\ k + 1 - 1 = k
      BY <1>6
    <3>2. /\ code[k + 1].op = "null" => where = "range" \/ code[k].op = "report"
          /\ code[k + 1].op = "build" => code[k + 1].kind \notin {"null", "for"}
          /\ code[k + 1].op = "combine" => code[k + 1].kind # "null"
          /\ code[k + 1].op = "call" => code[k + 1].kind # "range"
      BY <1>5, <3>1 DEF Fits
    <3>3. code[k].op = "report" => k > 1 /\ k - 1 \in 1 .. Len(tail) /\ k - 1 + 1 = k
      BY <1>2, <1>3, <1>7
    <3>4. code[k].op = "report" => tail[k - 1].op = "report"
      BY <1>6, <3>3
    <3> QED BY <3>1, <3>2, <3>3, <3>4
  <2>2. Fits(where, tail)
    BY <2>1 DEF Fits
  <2> QED BY <1>1, <1>4, <2>2 DEF Fed
<1>8. Plain(where, code[1].then) /\ Plain(where, code[1].else)
  BY <1>1, <1>4 DEF ClosedPlain, Closed, Plain, Fed
<1>9. /\ code[1].op = "null" => where = "range"
      /\ code[1].op = "build" => code[1].kind \notin {"null", "for"}
      /\ code[1].op = "combine" => code[1].kind # "null"
      /\ code[1].op = "call" => code[1].kind # "range"
  BY <1>3, <1>5 DEF Fits
<1>10. code[1].op \in Takers => ~Supplied(code)
  <2>1. 1 .. 1 - 1 = {}
    OBVIOUS
  <2> QED BY <1>3, <2>1 DEF Supplied
<1>11. ASSUME code[1].op \notin Givers, Supplied(code) PROVE Supplied(tail)
  <2>1. ASSUME NEW k \in 1 .. Len(tail), tail[k].op \in Takers
        PROVE  \E j \in 1 .. k - 1 : tail[j].op \in Givers
    <3>1. tail[k] = code[k + 1] /\ k + 1 \in 1 .. Len(code) /\ k + 1 - 1 = k
      BY <1>6
    <3>2. PICK j \in 1 .. k : code[j].op \in Givers
      BY <1>11, <2>1, <3>1 DEF Supplied
    <3>3. j - 1 \in 1 .. k - 1 /\ j - 1 \in 1 .. Len(tail) /\ j - 1 + 1 = j
      BY <1>2, <1>3, <1>11, <3>2
    <3>4. tail[j - 1].op \in Givers
      BY <1>6, <3>2, <3>3
    <3> QED BY <3>3, <3>4
  <2> QED BY <2>1 DEF Supplied
<1> QED BY <1>7, <1>8, <1>9, <1>10, <1>11 DEF tail

(* How a call that is going on stays orderly. *)
LEMMA OrderlyConcat ==
  ASSUME NEW where, NEW code, NEW rest, NEW nodes, Plain(where, code), Orderly(where, rest, nodes)
  PROVE  Orderly(where, code \o rest, nodes)
<1>1. Fed(where, code \o rest)
  BY FedConcat DEF Plain, Orderly
<1>2. Supplied(rest) => Supplied(code \o rest)
  BY FitsConcat, CodeIsList DEF Plain, Orderly
<1> QED BY <1>1, <1>2 DEF Orderly

LEMMA OrderlyWith ==
  ASSUME NEW where, NEW code, NEW nodes, IsList(nodes), Len(nodes) <= MaxNodes,
         Fed(where, code), ProperAll(nodes), NEW n, Proper(n)
  PROVE  Orderly(where, code, With(nodes, n))
<1> QED BY ProperWith, WithNode DEF Orderly

LEMMA OrderlyWaits ==
  ASSUME NEW where, NEW code, NEW nodes, IsList(nodes), Len(nodes) <= MaxNodes,
         Fed(where, code), ProperAll(nodes)
  PROVE  Waits(where, code, nodes)
<1> QED BY FedAwaitsNoRange, OrderlyWith DEF Waits, Good, MayReturn

(* How the stack stays unbroken. *)
LEMMA UnbrokenGoesOn ==
  ASSUME Stack(calls), calls # <<>>, Unbroken(calls), NEW code, NEW nodes, GoOn(code, nodes),
         Good(WhereIn(calls, Len(calls)), code, nodes)
  PROVE  Unbroken(calls')
<1> DEFINE l == Len(calls)
           c == [code |-> code, nodes |-> nodes]
<1>1. l \in Nat /\ l > 0 /\ IsList(calls)
  BY TopFacts
<1>2. Len(calls') = l /\ (\A k \in 1 .. l - 1 : calls'[k] = calls[k]) /\ calls'[l] = c
  BY <1>1, GoOnFacts
<1>3. c.code = code /\ c.nodes = nodes
  OBVIOUS
<1> HIDE DEF l, c
<1>4. ASSUME NEW k \in 1 .. l PROVE WhereIn(calls', k) = WhereIn(calls, k)
  <2>1. k > 1 => k - 1 \in 1 .. l - 1
    BY <1>1
  <2> QED BY <1>2, <2>1 DEF WhereIn
<1>5. ASSUME NEW k \in 1 .. l - 1
      PROVE  Waits(WhereIn(calls', k), calls'[k].code, calls'[k].nodes)
  <2>1. k \in 1 .. l
    BY <1>1
  <2>2. Waits(WhereIn(calls, k), calls[k].code, calls[k].nodes)
    BY DEF Unbroken, l
  <2> QED BY <1>2, <1>4, <2>1, <2>2
<1>6. Good(WhereIn(calls', l), calls'[l].code, calls'[l].nodes)
  <2>1. l \in 1 .. l
    BY <1>1
  <2> QED BY <1>2, <1>3, <1>4, <2>1 DEF l
<1> QED BY <1>2, <1>5, <1>6 DEF Unbroken

LEMMA UnbrokenEnters ==
  ASSUME Stack(calls), calls # <<>>, Unbroken(calls), Enter,
         Waits(WhereIn(calls, Len(calls)), Rest, Nodes),
         Good(IF AwaitsRange(Rest) THEN "range" ELSE "elsewhere", Routine(Next1), <<>>)
  PROVE  Unbroken(calls')
<1> DEFINE l == Len(calls)
           c == [code |-> Rest, nodes |-> Nodes]
           e == Activation(Routine(Next1))
<1>1. l \in Nat /\ l > 0 /\ IsList(calls) /\ Frame(Top)
  BY TopFacts
<1>2. /\ Len(calls') = l + 1 /\ (\A k \in 1 .. l - 1 : calls'[k] = calls[k])
      /\ calls'[l] = c /\ calls'[l + 1] = e
  BY <1>1, EnterFacts
<1>3. c.code = Rest /\ c.nodes = Nodes /\ e.code = Routine(Next1) /\ e.nodes = <<>>
  BY DEF Activation
<1> HIDE DEF l, c, e
<1>4. ASSUME NEW k \in 1 .. l PROVE WhereIn(calls', k) = WhereIn(calls, k)
  <2>1. k > 1 => k - 1 \in 1 .. l - 1
    BY <1>1
  <2> QED BY <1>2, <2>1 DEF WhereIn
<1>5. ASSUME NEW k \in 1 .. l
      PROVE  Waits(WhereIn(calls', k), calls'[k].code, calls'[k].nodes)
  <2>1. CASE k = l
    BY <1>2, <1>3, <1>4, <2>1 DEF l
  <2>2. CASE k # l
    <3>1. k \in 1 .. l - 1
      BY <1>1, <2>2
    <3>2. Waits(WhereIn(calls, k), calls[k].code, calls[k].nodes)
      BY <3>1 DEF Unbroken, l
    <3> QED BY <1>2, <1>4, <3>1, <3>2
  <2> QED BY <2>1, <2>2
<1>6. Good(WhereIn(calls', l + 1), calls'[l + 1].code, calls'[l + 1].nodes)
  <2>1. WhereIn(calls', l + 1) = IF AwaitsRange(calls'[l].code) THEN "range" ELSE "elsewhere"
    BY <1>1, WhereAbove
  <2>2. calls'[l].code = Rest
    BY <1>2, <1>3
  <2> QED BY <1>2, <1>3, <2>1, <2>2
<1>7. Len(calls') - 1 = l
  BY <1>1, <1>2
<1> QED BY <1>2, <1>5, <1>6, <1>7 DEF Unbroken

LEMMA UnbrokenReturns ==
  ASSUME Stack(calls), calls # <<>>, Unbroken(calls), phase = "parsing", NEW n, Return(n),
         Proper(n) \/ (n = Null /\ WhereIn(calls, Len(calls)) = "range")
  PROVE  /\ phase' = "parsing" => Unbroken(calls')
         /\ phase' = "accepted" => Proper(program')
         /\ phase' # "crashed"
<1> DEFINE l == Len(calls)
           c == [code |-> calls[l - 1].code, nodes |-> With(calls[l - 1].nodes, n)]
<1>1. l \in Nat /\ l > 0
  BY TopFacts
<1>2. \/ l = 1 /\ program' = n /\ phase' = IF errors THEN "failed" ELSE "accepted"
      \/ /\ l > 1 /\ Len(calls') = l - 1 /\ (\A k \in 1 .. l - 2 : calls'[k] = calls[k])
         /\ calls'[l - 1] = c /\ phase' = phase
  BY ReturnFacts
<1>3. c.code = calls[l - 1].code /\ c.nodes = With(calls[l - 1].nodes, n)
  OBVIOUS
<1> HIDE DEF l, c
<1>4. CASE l = 1 /\ program' = n /\ phase' = IF errors THEN "failed" ELSE "accepted"
  <2>1. WhereIn(calls, 1) = "elsewhere"
    BY DEF WhereIn
  <2> QED BY <1>4, <2>1 DEF l
<1>5. CASE /\ l > 1 /\ Len(calls') = l - 1 /\ (\A k \in 1 .. l - 2 : calls'[k] = calls[k])
           /\ calls'[l - 1] = c /\ phase' = phase
  <2> DEFINE m == l - 1
  <2>1. m \in Nat /\ m > 0 /\ m \in 1 .. l - 1 /\ l - 2 = m - 1 /\ Len(calls') = m
    BY <1>1, <1>5
  <2>2. calls'[m] = c /\ \A k \in 1 .. m - 1 : calls'[k] = calls[k]
    BY <1>5, <2>1
  <2>3. Waits(WhereIn(calls, m), calls[m].code, calls[m].nodes)
    BY <2>1 DEF Unbroken, l
  <2>4. MayReturn(calls[m].code, n)
    BY <1>5 DEF MayReturn, WhereIn, l
  <2>5. Good(WhereIn(calls, m), calls[m].code, With(calls[m].nodes, n))
    BY <2>3, <2>4 DEF Waits
  <2>6. c.code = calls[m].code /\ c.nodes = With(calls[m].nodes, n)
    BY <1>3
  <2>7. \A k \in 1 .. m - 1 : Waits(WhereIn(calls, k), calls[k].code, calls[k].nodes)
    <3>1. \A k \in 1 .. m - 1 : k \in 1 .. l - 1
      BY <2>1
    <3> QED BY <3>1 DEF Unbroken, l
  <2> HIDE DEF m
  <2>8. ASSUME NEW k \in 1 .. m PROVE WhereIn(calls', k) = WhereIn(calls, k)
    <3>1. k > 1 => k - 1 \in 1 .. m - 1
      BY <2>1
    <3> QED BY <2>2, <3>1 DEF WhereIn
  <2>9. ASSUME NEW k \in 1 .. m - 1
        PROVE  Waits(WhereIn(calls', k), calls'[k].code, calls'[k].nodes)
    <3>1. k \in 1 .. m
      BY <2>1
    <3> QED BY <2>2, <2>7, <2>8, <3>1
  <2>10. Good(WhereIn(calls', m), calls'[m].code, calls'[m].nodes)
    <3>1. m \in 1 .. m
      BY <2>1
    <3> QED BY <2>2, <2>5, <2>6, <2>8, <3>1
  <2>11. Unbroken(calls')
    BY <2>1, <2>9, <2>10 DEF Unbroken
  <2> QED BY <1>5, <2>11
<1> QED BY <1>2, <1>4, <1>5

LEMMA OrderlyRest ==
  ASSUME NEW where, NEW code, NEW nodes, IsCode(code), Ends(code), Orderly(where, code, nodes),
         code[1].op \notin Givers, code[1].op # "report"
  PROVE  /\ Orderly(where, Tail(code), nodes)
         /\ code[1].op \in Takers => nodes # <<>>
<1> QED BY FedHead DEF Orderly

LEMMA ForCodeDiffers ==
  ASSUME NEW i \in Nat, NEW j \in Nat, NEW code, ForCodeFrom(i, code), ForCodeFrom(j, code)
  PROVE  i = j
<1>1. Len(code) = 6 - i /\ Len(code) = 6 - j
  BY DEF ForCodeFrom
<1> QED BY <1>1

LEMMA LoopCases ==
  ASSUME NEW code, NEW nodes, Looping(code, nodes)
  PROVE  LET i == code[1] IN
         /\ i.op \in {"want", "call", "if", "report", "build"}
         /\ i.op = "want" => Looping(Tail(code), nodes)
         /\ i.op = "if" => /\ OneProper(nodes) /\ ForCodeFrom(3, Tail(code))
                           /\ i.then = Want({"in"}) /\ i.else = Report \o NullReturn
         /\ i.op = "call" =>
              \/ i.kind = "primary" /\ nodes = <<>> /\ ForCodeFrom(2, Tail(code))
              \/ i.kind = "range" /\ OneProper(nodes) /\ ForCodeFrom(4, Tail(code))
              \/ i.kind = "stmt" /\ RangeMayLack(nodes) /\ ForCodeFrom(5, Tail(code))
         /\ i.op = "build" => i.kind = "for" /\ RangeMayLack(nodes)
<1> DEFINE i == code[1]
<1>1. \A j \in 0 .. 5 : ForCodeFrom(j, code) => i = parseForStmt[j + 1] /\ ForCodeFrom(j + 1, Tail(code))
  BY ForCodeTail
<1>2. CASE nodes = <<>> /\ ForCodeFrom(0, code)
  <2>1. i = parseForStmt[1] /\ ForCodeFrom(1, Tail(code))
    BY <1>1, <1>2
  <2> QED BY <1>2, <2>1, ForInstructions DEF Looping
<1>3. CASE nodes = <<>> /\ ForCodeFrom(1, code)
  <2>1. i = parseForStmt[2] /\ ForCodeFrom(2, Tail(code))
    BY <1>1, <1>3
  <2> QED BY <1>3, <2>1, ForInstructions
<1>4. CASE OneProper(nodes) /\ ForCodeFrom(2, code)
  <2>1. i = parseForStmt[3] /\ ForCodeFrom(3, Tail(code))
    BY <1>1, <1>4
  <2> QED BY <1>4, <2>1, ForInstructions
<1>5. CASE OneProper(nodes) /\ ForCodeFrom(3, code)
  <2>1. i = parseForStmt[4] /\ ForCodeFrom(4, Tail(code))
    BY <1>1, <1>5
  <2> QED BY <1>5, <2>1, ForInstructions
<1>6. CASE OneProper(nodes) /\ code[1].op = "want" /\ ForCodeFrom(3, Tail(code))
  BY <1>6 DEF Looping
<1>7. CASE code[1].op = "report"
  BY <1>7
<1>8. CASE RangeMayLack(nodes) /\ ForCodeFrom(4, code)
  <2>1. i = parseForStmt[5] /\ ForCodeFrom(5, Tail(code))
    BY <1>1, <1>8
  <2> QED BY <1>8, <2>1, ForInstructions
<1>9. CASE RangeMayLack(nodes) /\ ForCodeFrom(5, code)
  <2>1. i = parseForStmt[6]
    BY <1>1, <1>9
  <2> QED BY <1>9, <2>1, ForInstructions
<1> QED BY <1>2, <1>3, <1>4, <1>5, <1>6, <1>7, <1>8, <1>9 DEF Looping

LEMMA WithRoom ==
  ASSUME NEW nodes, IsList(nodes), Len(nodes) <= MaxNodes, NEW n
  PROVE  /\ nodes = <<>> => Len(With(nodes, n)) = 1 /\ With(nodes, n)[1] = n
         /\ Len(nodes) = 1 => Len(With(nodes, n)) = 2 /\ With(nodes, n)[2] = n
         /\ Len(With(nodes, n)) >= Len(nodes)
         /\ \A k \in 1 .. Len(nodes) : With(nodes, n)[k] = nodes[k]
<1>1. Len(nodes) \in Nat /\ MaxNodes \in Nat /\ MaxNodes > 1 /\ (nodes = <<>> => Len(nodes) = 0)
  BY ListFacts, MaxNodesAssumption
<1>2. CASE Len(nodes) < MaxNodes
  <2> DEFINE more == Append(nodes, n)
  <2>1. With(nodes, n) = more
    BY <1>2 DEF With
  <2>2. Len(more) = Len(nodes) + 1 /\ more[Len(nodes) + 1] = n /\ \A k \in 1 .. Len(nodes) : more[k] = nodes[k]
    BY ListAppend
  <2> HIDE DEF more
  <2> QED BY <1>1, <2>1, <2>2
<1>3. CASE ~(Len(nodes) < MaxNodes)
  <2>1. With(nodes, n) = nodes
    BY <1>3 DEF With
  <2> QED BY <1>1, <1>3, <2>1
<1> QED BY <1>2, <1>3

LEMMA LoopWaits ==
  ASSUME NEW code, NEW nodes, IsList(nodes), Len(nodes) <= MaxNodes,
         \/ nodes = <<>> /\ ForCodeFrom(2, code)
         \/ OneProper(nodes) /\ ForCodeFrom(4, code)
         \/ RangeMayLack(nodes) /\ ForCodeFrom(5, code)
  PROVE  Waits("elsewhere", code, nodes)
<1> SUFFICES ASSUME NEW n, MayReturn(code, n) PROVE Looping(code, With(nodes, n))
  BY DEF Waits, Good
<1> DEFINE more == With(nodes, n)
<1>1. /\ nodes = <<>> => Len(more) = 1 /\ more[1] = n
      /\ Len(nodes) = 1 => Len(more) = 2 /\ more[2] = n
      /\ Len(more) >= Len(nodes)
      /\ \A k \in 1 .. Len(nodes) : more[k] = nodes[k]
  BY WithRoom
<1>2. ProperAll(nodes) /\ Proper(n) => ProperAll(more)
  BY ProperWith
<1>3. Len(nodes) \in Nat /\ Len(more) \in Nat
  BY ListFacts, WithNode
<1> HIDE DEF more
<1>4. CASE nodes = <<>> /\ ForCodeFrom(2, code)
  <2>1. Proper(n)
    BY <1>4, ForCodeDiffers DEF MayReturn, AwaitsRange
  <2>2. OneProper(more)
    BY <1>1, <1>2, <1>4, <2>1, ProperLeaf DEF OneProper
  <2> QED BY <1>4, <2>2 DEF Looping, more
<1>5. CASE OneProper(nodes) /\ ForCodeFrom(4, code)
  <2>1. Len(more) = 2 /\ more[2] = n /\ ProperAll(nodes)
    BY <1>1, <1>5 DEF OneProper
  <2>2. RangeMayLack(more)
    BY <1>2, <2>1 DEF MayReturn, RangeMayLack
  <2> QED BY <1>5, <2>2 DEF Looping, more
<1>6. CASE RangeMayLack(nodes) /\ ForCodeFrom(5, code)
  <2>1. Proper(n)
    BY <1>6, ForCodeDiffers DEF MayReturn, AwaitsRange
  <2>2. Len(more) > 1 /\ more[2] = nodes[2]
    <3>1. Len(nodes) > 1 /\ 2 \in 1 .. Len(nodes)
      BY <1>3, <1>6 DEF RangeMayLack
    <3> QED BY <1>1, <1>3, <3>1
  <2>3. RangeMayLack(more)
    BY <1>2, <1>6, <2>1, <2>2 DEF RangeMayLack
  <2> QED BY <1>6, <2>3 DEF Looping, more
<1> QED BY <1>4, <1>5, <1>6

LEMMA ForCodeBehind ==
  ASSUME NEW j \in 0 .. 5, NEW rest, ForCodeFrom(j, rest), NEW i
  PROVE  (<<i>> \o rest)[1] = i /\ ForCodeFrom(j, Tail(<<i>> \o rest))
<1> DEFINE o == <<i>>
           code == o \o rest
           tail == Tail(code)
<1>1. IsList(o)
  BY ListOne
<1>2. Len(o) = 1 /\ o[1] = i /\ 1 \in 1 .. 1
  BY ListOne
<1> HIDE DEF o
<1>3. IsList(rest) /\ Len(rest) = 6 - j /\ \A k \in 1 .. 6 - j : rest[k] = parseForStmt[j + k]
  BY DEF ForCodeFrom
<1>4. IsList(rest)
  BY <1>3
<1>5. /\ IsList(code) /\ Len(code) = Len(o) + Len(rest)
      /\ \A k \in 1 .. Len(o) : code[k] = o[k]
      /\ \A k \in 1 .. Len(rest) : code[Len(o) + k] = rest[k]
  BY <1>1, <1>4, ListConcat
<1> HIDE DEF code
<1>6. code # <<>> /\ code[1] = i /\ Len(code) = 1 + (6 - j)
  BY <1>2, <1>3, <1>5, ListFacts
<1>7. IsList(tail) /\ Len(tail) = Len(code) - 1 /\ \A k \in 1 .. Len(code) - 1 : tail[k] = code[k + 1]
  BY <1>5, <1>6, ListTail
<1> HIDE DEF tail
<1>8. ASSUME NEW k \in 1 .. 6 - j PROVE tail[k] = parseForStmt[j + k]
  <2>1. k \in 1 .. Len(code) - 1 /\ k \in 1 .. Len(rest) /\ k + 1 = Len(o) + k
    BY <1>2, <1>3, <1>6
  <2>2. tail[k] = code[Len(o) + k]
    BY <1>7, <2>1
  <2>3. code[Len(o) + k] = rest[k]
    BY <1>5, <2>1
  <2> QED BY <1>3, <2>2, <2>3
<1>9. Len(tail) = 6 - j
  BY <1>6, <1>7
<1>10. ForCodeFrom(j, tail)
  BY <1>7, <1>8, <1>9 DEF ForCodeFrom
<1> QED BY <1>6, <1>10 DEF tail, code, o

LEMMA ReportFirst ==
  ASSUME NEW rest, IsList(rest)
  PROVE  ((Report \o NullReturn) \o rest)[1].op = "report"
<1> DEFINE s == Report \o NullReturn
           t == s \o rest
           r == [op |-> "report", at |-> {}, kind |-> "", then |-> <<>>, else |-> <<>>]
           n == [op |-> "null", at |-> {}, kind |-> "", then |-> <<>>, else |-> <<>>]
<1>0. Report = <<r>> /\ NullReturn = <<n>> /\ r.op = "report" /\ 1 \in 1 .. 1 /\ 1 \in 1 .. 2
  BY DEF Report, NullReturn, Do, Instr
<1> HIDE DEF r, n
<1>1. IsList(Report) /\ IsList(NullReturn)
  BY <1>0, ListOne
<1>2. Len(Report) = 1 /\ Report[1] = r /\ Len(NullReturn) = 1
  BY <1>0, ListOne
<1>3. IsList(s) /\ Len(s) = Len(Report) + Len(NullReturn) /\ \A k \in 1 .. Len(Report) : s[k] = Report[k]
  BY <1>1, ListConcat
<1> HIDE DEF s
<1>4. \A k \in 1 .. Len(s) : t[k] = s[k]
  BY <1>3, ListConcat
<1> HIDE DEF t
<1>5. t[1] = s[1] /\ s[1] = Report[1]
  BY <1>0, <1>2, <1>3, <1>4
<1> QED BY <1>0, <1>2, <1>5 DEF t, s

NullInv ==
  /\ phase = "crashed" => errors
  /\ phase = "accepted" => Proper(program)
  /\ phase = "parsing" /\ ~errors => Unbroken(calls)

Here == WhereIn(calls, Len(calls))

(* The call on top, before the first error. *)
LEMMA TopIsGood ==
  ASSUME LexInv, ParserInv, phase = "parsing", Unbroken(calls)
  PROVE  /\ Stack(calls) /\ calls # <<>>
         /\ Orderly(Here, Top.code, Nodes) \/ (Here = "elsewhere" /\ Looping(Top.code, Nodes))
         /\ IsCode(Top.code) /\ Ends(Top.code) /\ IsList(Nodes) /\ Len(Nodes) <= MaxNodes
         /\ Next1 = Top.code[1] /\ Rest = Tail(Top.code)
         /\ Orderly(Here, Top.code, Nodes) /\ Next1.op \notin Givers /\ Next1.op # "report" =>
              Orderly(Here, Rest, Nodes) /\ (Next1.op \in Takers => Nodes # <<>>)
<1>1. Stack(calls) /\ calls # <<>> /\ Next1 = Top.code[1] /\ Rest = Tail(Top.code)
  BY AtInstruction DEF Rest
<1>2. /\ Top = calls[Len(calls)] /\ IsCode(Top.code) /\ Ends(Top.code)
      /\ IsList(Nodes) /\ Len(Nodes) <= MaxNodes
  BY <1>1, TopFacts
<1>3. Good(Here, Top.code, Nodes)
  BY <1>2 DEF Unbroken, Here, Nodes
<1>4. Orderly(Here, Top.code, Nodes) /\ Next1.op \notin Givers /\ Next1.op # "report" =>
        Orderly(Here, Rest, Nodes) /\ (Next1.op \in Takers => Nodes # <<>>)
  BY <1>1, <1>2, OrderlyRest
<1> QED BY <1>1, <1>2, <1>3, <1>4 DEF Good

LEMMA GoesOnGood ==
  ASSUME Stack(calls), calls # <<>>, Unbroken(calls), phase = "parsing", phase' = "parsing",
         NEW code, NEW nodes, GoOn(code, nodes), Good(Here, code, nodes)
  PROVE  NullInv'
<1>1. Unbroken(calls')
  BY UnbrokenGoesOn DEF Here
<1> QED BY <1>1 DEF NullInv

LEMMA ConsumeGood ==
  ASSUME LexInv, ParserInv, phase = "parsing", Unbroken(calls), ~errors, Consume
  PROVE  NullInv'
<1>1. /\ phase' = "parsing" /\ Next1.op \in {"want", "leaf"}
      /\ GoOn(Rest, IF Next1.op = "leaf" THEN With(Nodes, Node(currentToken, <<>>)) ELSE Nodes)
  BY DEF Consume, Running
<1>2. Stack(calls) /\ calls # <<>>
  BY TopIsGood
<1>3. CASE Next1.op = "want"
  <2>1. GoOn(Rest, Nodes)
    BY <1>1, <1>3
  <2>2. Next1.op \notin Givers /\ Next1.op # "report"
    BY <1>3 DEF Givers
  <2>3. Good(Here, Rest, Nodes)
    BY <1>3, <2>2, TopIsGood, LoopCases DEF Good
  <2> QED BY <1>1, <1>2, <2>1, <2>3, GoesOnGood
<1>4. CASE Next1.op = "leaf"
  <2> DEFINE n == Node(currentToken, <<>>)
  <2>1. GoOn(Rest, With(Nodes, n))
    BY <1>1, <1>4
  <2>2. Proper(n)
    BY AtInstruction, ProperNode, ProperLeaf, ListEmpty
  <2> HIDE DEF n
  <2>3. Orderly(Here, Top.code, Nodes) /\ Next1.op # "report"
    BY <1>4, TopIsGood, LoopCases
  <2>4. Fed(Here, Rest) /\ ProperAll(Nodes)
    BY <2>3, TopIsGood, FedHead DEF Orderly
  <2>5. Good(Here, Rest, With(Nodes, n))
    BY <2>2, <2>4, TopIsGood, OrderlyWith DEF Good
  <2> QED BY <1>1, <1>2, <2>1, <2>5, GoesOnGood
<1> QED BY <1>1, <1>3, <1>4

LEMMA BranchGood ==
  ASSUME LexInv, ParserInv, phase = "parsing", Unbroken(calls), ~errors, Branch
  PROVE  NullInv'
<1>1. phase' = "parsing"
  BY BranchCases
<1>2. PICK code :
        /\ GoOn(code, Nodes)
        /\ \/ Next1.op = "if" /\ (code = Next1.then \o Rest \/ code = Next1.else \o Rest)
           \/ Next1.op \in {"until", "while"} /\ (code = Rest \/ code = Next1.then \o Top.code)
           \/ Next1.op = "climb" /\ \E min : code = Climb(min) \o Rest
  BY BranchCases
<1>3. /\ Stack(calls) /\ calls # <<>> /\ IsCode(Top.code) /\ Ends(Top.code)
      /\ Next1 = Top.code[1] /\ Rest = Tail(Top.code)
  BY TopIsGood
<1>4. Next1.op \notin Givers /\ Next1.op # "report"
  BY <1>2 DEF Givers
<1>5. CASE Orderly(Here, Top.code, Nodes)
  <2>1. Orderly(Here, Rest, Nodes) /\ (Next1.op \in Takers => Nodes # <<>>)
    BY <1>4, <1>5, TopIsGood
  <2>2. Plain(Here, Next1.then) /\ Plain(Here, Next1.else)
    BY <1>3, <1>5, FedHead DEF Orderly
  <2>3. ASSUME Next1.op = "if" /\ (code = Next1.then \o Rest \/ code = Next1.else \o Rest)
        PROVE  Good(Here, code, Nodes)
    <3>1. Orderly(Here, Next1.then \o Rest, Nodes) /\ Orderly(Here, Next1.else \o Rest, Nodes)
      BY <2>1, <2>2, OrderlyConcat
    <3>2. Orderly(Here, code, Nodes)
      BY <2>3, <3>1
    <3> QED BY <3>2 DEF Good
  <2>4. ASSUME Next1.op \in {"until", "while"} /\ (code = Rest \/ code = Next1.then \o Top.code)
        PROVE  Good(Here, code, Nodes)
    <3>1. Orderly(Here, Next1.then \o Top.code, Nodes)
      BY <1>5, <2>2, OrderlyConcat
    <3>2. Orderly(Here, code, Nodes)
      BY <2>1, <2>4, <3>1
    <3> QED BY <3>2 DEF Good
  <2>5. ASSUME Next1.op = "climb" /\ \E min : code = Climb(min) \o Rest
        PROVE  Good(Here, code, Nodes)
    <3>1. PICK min : code = Climb(min) \o Rest
      BY <2>5
    <3>2. Fed(Here, Climb(min))
      BY AtInstruction, ClimbCode
    <3>3. Nodes # <<>>
      BY <2>1, <2>5 DEF Takers
    <3>4. Fed(Here, code)
      BY <2>1, <3>1, <3>2, FedConcat DEF Orderly
    <3>5. Orderly(Here, code, Nodes)
      BY <2>1, <3>3, <3>4 DEF Orderly
    <3> QED BY <3>5 DEF Good
  <2>6. Good(Here, code, Nodes)
    BY <1>2, <2>3, <2>4, <2>5
  <2> QED BY <1>1, <1>2, <1>3, <2>6, GoesOnGood
<1>6. CASE Here = "elsewhere" /\ Looping(Top.code, Nodes)
  <2>1. /\ Next1.op = "if" /\ OneProper(Nodes) /\ ForCodeFrom(3, Rest)
        /\ Next1.then = Want({"in"}) /\ Next1.else = Report \o NullReturn
    BY <1>2, <1>3, <1>6, LoopCases
  <2>2. IsList(Rest) /\ Rest # <<>>
    BY <2>1, ForCodeTail DEF ForCodeFrom
  <2>3. ASSUME code = Want({"in"}) \o Rest
        PROVE  Good(Here, code, Nodes)
    <3> DEFINE i == [op |-> "want", at |-> {"in"}, kind |-> "", then |-> <<>>, else |-> <<>>]
    <3>1. i.op = "want" /\ Want({"in"}) = <<i>>
      BY DEF Want, Instr
    <3> HIDE DEF i
    <3>2. code[1] = i /\ ForCodeFrom(3, Tail(code))
      BY <2>1, <2>3, <3>1, ForCodeBehind
    <3>3. Looping(code, Nodes)
      BY <2>1, <3>1, <3>2 DEF Looping
    <3> QED BY <1>6, <3>3 DEF Good
  <2>4. ASSUME code = (Report \o NullReturn) \o Rest
        PROVE  Good(Here, code, Nodes)
    <3>1. code[1].op = "report"
      BY <2>2, <2>4, ReportFirst
    <3>2. Looping(code, Nodes)
      BY <3>1 DEF Looping
    <3> QED BY <1>6, <3>2 DEF Good
  <2>5. Good(Here, code, Nodes)
    BY <1>2, <2>1, <2>3, <2>4
  <2> QED BY <1>1, <1>2, <1>3, <2>5, GoesOnGood
<1> QED BY <1>5, <1>6, TopIsGood

LEMMA EnterGood ==
  ASSUME LexInv, ParserInv, phase = "parsing", Unbroken(calls), ~errors, Enter
  PROVE  NullInv'
<1>1. phase' = "parsing" /\ Next1.op = "call" /\ Next1.kind \in RoutineNames
  BY AtInstruction DEF Enter, Running
<1>2. /\ Stack(calls) /\ calls # <<>> /\ IsCode(Top.code) /\ Ends(Top.code)
      /\ IsList(Nodes) /\ Len(Nodes) <= MaxNodes
      /\ Next1 = Top.code[1] /\ Rest = Tail(Top.code)
  BY TopIsGood
<1>3. /\ Next1.kind # "range" => Good("elsewhere", Routine(Next1), <<>>)
      /\ Next1.kind = "range" => Good("range", Routine(Next1), <<>>)
  <2>1. ASSUME Next1.kind # "range" PROVE Good("elsewhere", Routine(Next1), <<>>)
    <3>1. Routine(Next1) = parseForStmt \/ Body("elsewhere", Routine(Next1))
      BY <1>1, <2>1, Routines
    <3>2. Looping(parseForStmt, <<>>)
      BY ForInstructions DEF Looping
    <3>3. Body("elsewhere", Routine(Next1)) => Orderly("elsewhere", Routine(Next1), <<>>)
      BY ProperLeaf DEF Body, Plain, Orderly
    <3> QED BY <3>1, <3>2, <3>3 DEF Good
  <2>2. ASSUME Next1.kind = "range" PROVE Good("range", Routine(Next1), <<>>)
    <3>1. Routine(Next1) = parseRangeExpr /\ Body("range", parseRangeExpr)
      BY <1>1, <2>2, Routines, RangeExpr
    <3>2. Orderly("range", Routine(Next1), <<>>)
      BY <3>1, ProperLeaf DEF Body, Plain, Orderly
    <3> QED BY <3>2 DEF Good
  <2> QED BY <2>1, <2>2
<1>4. CASE Orderly(Here, Top.code, Nodes)
  <2>1. Fed(Here, Rest) /\ ProperAll(Nodes) /\ Next1.kind # "range"
    BY <1>1, <1>2, <1>4, FedHead DEF Orderly
  <2>2. Waits(Here, Rest, Nodes) /\ ~AwaitsRange(Rest)
    BY <1>2, <2>1, OrderlyWaits, FedAwaitsNoRange
  <2>3. Unbroken(calls')
    BY <1>2, <1>3, <2>1, <2>2, UnbrokenEnters DEF Here
  <2> QED BY <1>1, <2>3 DEF NullInv
<1>5. CASE Here = "elsewhere" /\ Looping(Top.code, Nodes)
  <2>1. \/ Next1.kind = "primary" /\ Nodes = <<>> /\ ForCodeFrom(2, Rest)
        \/ Next1.kind = "range" /\ OneProper(Nodes) /\ ForCodeFrom(4, Rest)
        \/ Next1.kind = "stmt" /\ RangeMayLack(Nodes) /\ ForCodeFrom(5, Rest)
    BY <1>1, <1>2, <1>5, LoopCases
  <2>2. Waits(Here, Rest, Nodes)
    BY <1>2, <1>5, <2>1, LoopWaits
  <2>3. AwaitsRange(Rest) <=> Next1.kind = "range"
    BY <2>1, ForCodeDiffers DEF AwaitsRange
  <2>4. Good(IF AwaitsRange(Rest) THEN "range" ELSE "elsewhere", Routine(Next1), <<>>)
    BY <1>3, <2>3
  <2>5. Unbroken(calls')
    BY <1>2, <2>2, <2>4, UnbrokenEnters DEF Here
  <2> QED BY <1>1, <2>5 DEF NullInv
<1> QED BY <1>4, <1>5, TopIsGood

LEMMA ReturnsGood ==
  ASSUME LexInv, ParserInv, phase = "parsing", Unbroken(calls), NEW n, Return(n),
         Proper(n) \/ (n = Null /\ Here = "range")
  PROVE  NullInv'
<1>1. /\ phase' = "parsing" => Unbroken(calls')
      /\ phase' = "accepted" => Proper(program')
      /\ phase' # "crashed"
  BY TopIsGood, UnbrokenReturns DEF Here
<1> QED BY <1>1 DEF NullInv

LEMMA LeaveGood ==
  ASSUME LexInv, ParserInv, phase = "parsing", Unbroken(calls), ~errors, Leave
  PROVE  NullInv'
<1>1. \/ Next1.op = "build" /\ Return(Node(Next1.kind, Nodes))
      \/ Next1.op = "same" /\ Return(Last(Nodes))
      \/ Next1.op = "null" /\ Return(Null)
  BY DEF Leave, Running
<1>2. Next1.op \notin Givers /\ Next1.op # "report"
  BY <1>1 DEF Givers
<1>3. /\ Stack(calls) /\ calls # <<>> /\ IsCode(Top.code) /\ Ends(Top.code)
      /\ IsList(Nodes) /\ Next1 = Top.code[1] /\ Rest = Tail(Top.code)
  BY TopIsGood
<1>4. CASE Orderly(Here, Top.code, Nodes)
  <2>1. ProperAll(Nodes) /\ (Next1.op \in Takers => Nodes # <<>>)
    BY <1>2, <1>4, TopIsGood DEF Orderly
  <2>2. /\ Next1.op = "null" => Here = "range"
        /\ Next1.op = "build" => Next1.kind # "null"
    BY <1>3, <1>4, FedHead DEF Orderly
  <2>3. CASE Next1.op = "build" /\ Return(Node(Next1.kind, Nodes))
    BY <1>3, <2>1, <2>2, <2>3, ProperNode, ReturnsGood
  <2>4. CASE Next1.op = "same" /\ Return(Last(Nodes))
    <3>1. Proper(Last(Nodes))
      BY <1>3, <2>1, <2>4, ProperLast DEF Takers
    <3> QED BY <2>4, <3>1, ReturnsGood
  <2>5. CASE Next1.op = "null" /\ Return(Null)
    BY <2>2, <2>5, ReturnsGood
  <2> QED BY <1>1, <2>3, <2>4, <2>5
<1>5. CASE Here = "elsewhere" /\ Looping(Top.code, Nodes)
  <2>1. Next1.op = "build" /\ Next1.kind = "for" /\ RangeMayLack(Nodes)
    BY <1>1, <1>3, <1>5, LoopCases
  <2>2. Proper(Node("for", Nodes))
    BY <1>3, <2>1, ProperFor, ProperNode DEF RangeMayLack
  <2> QED BY <1>1, <2>1, <2>2, ReturnsGood
<1> QED BY <1>4, <1>5, TopIsGood

(* An instruction that looks at the last node finds one that is not Null. *)
LEMMA TakerGood ==
  ASSUME LexInv, ParserInv, phase = "parsing", Unbroken(calls), ~errors,
         Next1.op \in {"need", "value", "recover", "skip"}
  PROVE  Last(Nodes) # Null /\ Good(Here, Rest, Nodes)
<1>1. Next1.op \notin Givers /\ Next1.op # "report" /\ Next1.op \in Takers
      /\ Next1.op \notin {"want", "call", "if", "report", "build"}
  BY DEF Givers, Takers
<1>2. Orderly(Here, Top.code, Nodes)
  BY <1>1, TopIsGood, LoopCases
<1>3. Orderly(Here, Rest, Nodes) /\ Nodes # <<>> /\ IsList(Nodes)
  BY <1>1, <1>2, TopIsGood
<1>4. Last(Nodes) # Null
  BY <1>3, ProperLast DEF Orderly
<1> QED BY <1>3, <1>4 DEF Good

LEMMA CheckNeedGood ==
  ASSUME LexInv, ParserInv, phase = "parsing", Unbroken(calls), ~errors, CheckNeed
  PROVE  NullInv'
<1>1. Next1.op = "need"
  BY DEF CheckNeed, Running
<1>2. Last(Nodes) # Null /\ Good(Here, Rest, Nodes)
  BY <1>1, TakerGood
<1>3. GoOn(Rest, Nodes) /\ phase' = "parsing"
  BY <1>2 DEF CheckNeed
<1> QED BY <1>2, <1>3, TopIsGood, GoesOnGood

LEMMA TakeValueGood ==
  ASSUME LexInv, ParserInv, phase = "parsing", Unbroken(calls), ~errors, TakeValue
  PROVE  NullInv'
<1>1. Next1.op = "value"
  BY DEF TakeValue, Running
<1>2. Last(Nodes) # Null /\ Good(Here, Rest, Nodes)
  BY <1>1, TakerGood
<1>3. GoOn(Rest, Nodes) /\ phase' = "parsing"
  BY <1>2 DEF TakeValue
<1> QED BY <1>2, <1>3, TopIsGood, GoesOnGood

LEMMA RecoverGood ==
  ASSUME LexInv, ParserInv, phase = "parsing", Unbroken(calls), ~errors, Recover
  PROVE  NullInv'
<1>1. Next1.op \in {"recover", "skip"} /\ phase' = "parsing"
  BY DEF Recover, Running
<1>2. Last(Nodes) # Null /\ Good(Here, Rest, Nodes)
  BY <1>1, TakerGood
<1>3. GoOn(Rest, Nodes)
  BY <1>2 DEF Recover
<1> QED BY <1>1, <1>2, <1>3, TopIsGood, GoesOnGood

LEMMA CombineGood ==
  ASSUME LexInv, ParserInv, phase = "parsing", Unbroken(calls), ~errors, Combine
  PROVE  NullInv'
<1> DEFINE n == Node(Next1.kind, Nodes)
<1>1. Next1.op = "combine" /\ phase' = "parsing" /\ GoOn(Rest, <<n>>)
  BY DEF Combine, Running
<1>2. Orderly(Here, Top.code, Nodes)
  BY <1>1, TopIsGood, LoopCases
<1>3. Next1.kind # "null" /\ Fed(Here, Rest) /\ ProperAll(Nodes)
  BY <1>1, <1>2, TopIsGood, FedHead DEF Orderly
<1>4. Proper(n)
  BY <1>3, TopIsGood, ProperNode
<1> HIDE DEF n
<1>5. ProperAll(<<n>>) /\ <<n>> # <<>>
  BY <1>4, ProperOne
<1>6. Good(Here, Rest, <<n>>)
  BY <1>3, <1>5 DEF Good, Orderly
<1> QED BY <1>1, <1>6, TopIsGood, GoesOnGood

LEMMA ErrorsStay ==
  ASSUME LexInv, ParserInv, phase = "parsing", errors, ParseStep
  PROVE  errors' /\ phase' # "accepted"
<1>1. CASE Consume
  BY <1>1 DEF Consume
<1>2. CASE ReportError
  BY <1>2 DEF ReportError
<1>3. CASE Branch
  BY <1>3, BranchCases
<1>4. CASE Enter
  BY <1>4 DEF Enter
<1>5. ASSUME NEW n, Return(n), UNCHANGED errors PROVE errors' /\ phase' # "accepted"
  BY <1>5, AtInstruction, ReturnFacts
<1>6. CASE Leave
  BY <1>5, <1>6 DEF Leave
<1>7. CASE CheckNeed
  BY <1>5, <1>7 DEF CheckNeed
<1>8. CASE Combine
  BY <1>8 DEF Combine
<1>9. CASE TakeValue
  BY <1>9 DEF TakeValue
<1>10. CASE Recover
  BY <1>10 DEF Recover
<1> QED BY <1>1, <1>2, <1>3, <1>4, <1>6, <1>7, <1>8, <1>9, <1>10 DEF ParseStep

LEMMA NullSteps ==
  ASSUME LexInv, ParserInv, NullInv, [SyntaxNext]_syntaxVars
  PROVE  NullInv'
<1>1. CASE LexStep
  BY <1>1 DEF LexStep, parserVars, NullInv
<1>2. CASE StartParsing
  <2>1. CASE phase' = "failed"
    BY <2>1 DEF NullInv
  <2>2. CASE phase' = "parsing" /\ calls' = <<Activation(parse)>>
    <3> DEFINE a == Activation(parse)
    <3>1. a.code = parse /\ a.nodes = <<>>
      BY DEF Activation
    <3> HIDE DEF a
    <3>2. Len(<<a>>) = 1 /\ <<a>>[1] = a
      BY ListOne
    <3> DEFINE frames == <<a>>
    <3>3. frames[1] = a /\ Len(frames) = 1 /\ calls' = frames
      BY <2>2, <3>2 DEF a
    <3> HIDE DEF frames
    <3>4. WhereIn(frames, 1) = "elsewhere" /\ 1 .. 1 - 1 = {}
      BY DEF WhereIn
    <3>5. Orderly("elsewhere", parse, <<>>)
      BY Program, ProperLeaf DEF Body, Plain, Orderly
    <3>6. Unbroken(frames)
      BY <3>1, <3>3, <3>4, <3>5 DEF Unbroken, Good
    <3> QED BY <2>2, <3>3, <3>6 DEF NullInv
  <2> QED BY <1>2, <2>1, <2>2 DEF StartParsing
<1>3. CASE ParseStep
  <2>1. phase = "parsing"
    BY <1>3, BranchCases DEF ParseStep, Consume, ReportError, Enter, Leave, CheckNeed, Combine, TakeValue,
       Recover, Running
  <2>2. CASE errors
    BY <1>3, <2>1, <2>2, ErrorsStay DEF NullInv
  <2>3. CASE ~errors
    <3>1. Unbroken(calls)
      BY <2>1, <2>3 DEF NullInv
    <3>2. CASE ReportError
      BY <2>1, <3>2 DEF ReportError, NullInv
    <3> QED BY <1>3, <2>1, <2>3, <3>1, <3>2, ConsumeGood, BranchGood, EnterGood, LeaveGood, CheckNeedGood,
          CombineGood, TakeValueGood, RecoverGood DEF ParseStep
  <2> QED BY <2>2, <2>3
<1>4. CASE UNCHANGED syntaxVars
  BY <1>4 DEF syntaxVars, parserVars, NullInv
<1> QED BY <1>1, <1>2, <1>3, <1>4 DEF SyntaxNext

(* The levels of the tree of n. *)
Levels(f, n, depth) ==
  f = [k \in 0 .. depth |-> IF k = 0 THEN {n} ELSE UNION {Range(m.children) : m \in f[k - 1]}]

LEMMA LevelsExist ==
  ASSUME NEW n, NEW depth \in Nat
  PROVE  \E f : Levels(f, n, depth)
<1> DEFINE T == {d \in Nat : \E f : Levels(f, n, d)}
<1>1. 0 \in T
  <2> DEFINE f == [k \in 0 .. 0 |-> {n}]
  <2>1. f = [k \in 0 .. 0 |-> IF k = 0 THEN {n} ELSE UNION {Range(m.children) : m \in f[k - 1]}]
    OBVIOUS
  <2>2. \E g : Levels(g, n, 0)
    BY <2>1, Zenon DEF Levels
  <2> QED BY <2>2
<1>2. ASSUME NEW d \in Nat, d \in T PROVE d + 1 \in T
  <2>1. PICK f : Levels(f, n, d)
    BY <1>2
  <2> DEFINE next(S) == UNION {Range(m.children) : m \in S}
             g == [k \in 0 .. d + 1 |-> IF k <= d THEN f[k] ELSE next(f[d])]
  <2> HIDE DEF next
  <2>2. f = [k \in 0 .. d |-> IF k = 0 THEN {n} ELSE next(f[k - 1])]
    BY <2>1, Zenon DEF Levels, next
  <2>3. /\ \A k \in 0 .. d : g[k] = f[k] /\ f[k] = IF k = 0 THEN {n} ELSE next(f[k - 1])
        /\ g[d + 1] = next(f[d])
    <3>1. \A k \in 0 .. d : g[k] = f[k]
      OBVIOUS
    <3>2. g[d + 1] = next(f[d])
      OBVIOUS
    <3>3. \A k \in 0 .. d : f[k] = IF k = 0 THEN {n} ELSE next(f[k - 1])
      BY <2>2
    <3> QED BY <3>1, <3>2, <3>3
  <2>4. g = [k \in 0 .. d + 1 |-> g[k]]
    OBVIOUS
  <2> HIDE DEF g
  <2>5. ASSUME NEW k \in 0 .. d + 1 PROVE g[k] = IF k = 0 THEN {n} ELSE next(g[k - 1])
    <3>1. CASE k = d + 1
      <4>1. k # 0 /\ k - 1 = d /\ d \in 0 .. d
        BY <3>1
      <4> QED BY <2>3, <3>1, <4>1
    <3>2. CASE k \in 1 .. d
      <4>1. k # 0 /\ k \in 0 .. d /\ k - 1 \in 0 .. d
        BY <3>2
      <4> QED BY <2>3, <4>1
    <3>3. CASE k = 0
      BY <2>3, <3>3
    <3> QED BY <3>1, <3>2, <3>3
  <2>6. g = [k \in 0 .. d + 1 |-> IF k = 0 THEN {n} ELSE next(g[k - 1])]
    BY <2>4, <2>5, Zenon
  <2>7. Levels(g, n, d + 1)
    BY <2>6, Zenon DEF Levels, next
  <2> QED BY <2>7
<1> HIDE DEF T
<1>3. depth \in T
  BY <1>1, <1>2, SetInduction
<1> QED BY <1>3 DEF T

(* A node is in its tree, and so are the children of the nodes on all levels *)
(* but the last: the tree of a proper node has no Null, unless a loop in it  *)
(* lacks its range.                                                         *)
LEMMA ProperTree ==
  ASSUME NEW n, Proper(n), Len(tokens) \in Nat, Null \in Subtrees(n)
  PROVE  \E m \in Subtrees(n) : LacksRange(m)
<1> SUFFICES ASSUME \A m \in Subtrees(n) : ~LacksRange(m) PROVE FALSE
  OBVIOUS
<1> DEFINE depth == 2 * Len(tokens) + 2
           below[k \in 0 .. depth] ==
             IF k = 0 THEN {n} ELSE UNION {Range(m.children) : m \in below[k - 1]}
<1>1. depth \in Nat
  OBVIOUS
<1>2. Subtrees(n) = UNION {below[k] : k \in 0 .. depth}
  BY DEF Subtrees
<1>3. below = CHOOSE f : Levels(f, n, depth)
  BY DEF Levels
<1> HIDE DEF below, depth
<1>4. Levels(below, n, depth)
  <2>1. \E f : Levels(f, n, depth)
    BY <1>1, LevelsExist
  <2> QED BY <1>3, <2>1, Zenon
<1>5. PICK N : n \in N /\ Sound(N)
  BY DEF Proper
<1> DEFINE T == {k \in Nat : k <= depth => below[k] \subseteq N}
<1>6. 0 \in T
  BY <1>1, <1>4, <1>5 DEF Levels
<1>7. ASSUME NEW k \in Nat, k \in T PROVE k + 1 \in T
  <2> SUFFICES ASSUME k + 1 <= depth PROVE below[k + 1] \subseteq N
    OBVIOUS
  <2>1. k \in 0 .. depth /\ k + 1 \in 0 .. depth /\ k + 1 # 0 /\ k + 1 - 1 = k /\ below[k] \subseteq N
    BY <1>1, <1>7
  <2>2. below[k + 1] = UNION {Range(m.children) : m \in below[k]}
    BY <1>4, <2>1 DEF Levels
  <2>3. ASSUME NEW m \in below[k] PROVE Range(m.children) \subseteq N
    <3>1. m \in N /\ m \in Subtrees(n)
      BY <1>2, <2>1
    <3> QED BY <1>5, <3>1 DEF Sound
  <2> QED BY <2>2, <2>3
<1>8. \A k \in 0 .. depth : below[k] \subseteq N
  <2> HIDE DEF T
  <2>1. Nat \subseteq T
    BY <1>6, <1>7, SetInduction
  <2>2. \A k \in 0 .. depth : k \in T /\ k <= depth
    BY <1>1, <2>1
  <2> QED BY <2>2 DEF T
<1>9. Null \in N
  BY <1>2, <1>8
<1> QED BY <1>5, <1>9 DEF Sound, Null, Node

(* An accepted program is whole, but for a `for` without its range, and a    *)
(* crash follows a reported error: a parse function other than that of ranges *)
(* returns nullptr only after a report, for any text and any keywords.      *)
THEOREM NullIsReportedHolds == SyntaxSpec => []NullIsReported
<1>1. SyntaxInit => NullInv
  BY DEF SyntaxInit, NullInv
<1>2. SyntaxInv /\ NullInv /\ [SyntaxNext]_syntaxVars => NullInv'
  BY NullSteps DEF SyntaxInv, LexingInv
<1>3. SyntaxInv /\ NullInv => NullIsReported
  <2> SUFFICES ASSUME SyntaxInv, NullInv PROVE NullIsReported
    OBVIOUS
  <2>1. Len(tokens) \in Nat
    BY LenProperties DEF SyntaxInv, LexingInv, LexInv
  <2>2. ASSUME phase = "accepted", ~Whole PROVE \E n \in Subtrees(program) : LacksRange(n)
    BY <2>1, <2>2, ProperTree DEF NullInv, Whole
  <2> QED BY <2>2 DEF NullIsReported, NullInv
<1> QED BY <1>1, <1>2, <1>3, SyntaxHolds, PTL DEF SyntaxSpec

-------------------------------------------------------------------------------
(* Precedence                                                              *)

LEMMA Precedences ==
  /\ \A kind : Precedence(kind) \in Int
  /\ \A kind \in {"macro", "funcall", "access", "array", "arraytype", "range", "let", "for", "if",
                  "while", "block", "fn", "return", "exprstmt", "program", "as", "null", "true", "false"} :
       Precedence(kind) < 0
<1>1. \A kind : Precedence(kind) \in Int
  BY DEF Precedence
<1>2. \A kind \in {"macro", "funcall", "access", "array", "arraytype", "range", "let", "for", "if",
                   "while", "block", "fn", "return", "exprstmt", "program", "as", "null", "true", "false"} :
        Precedence(kind) < 0
  BY DEF Precedence
<1> QED BY <1>1, <1>2

(* Code that makes no node of an operator, and code that does not give back  *)
(* a node of another routine either.                                        *)
NoSame(s) == \A k \in 1 .. Len(s) : s[k].op # "same"

QuietSet(I) ==
  /\ Closed(I)
  /\ \A i \in I :
       /\ i.op \notin {"combine", "climb"} /\ (i.op = "build" => Precedence(i.kind) < 0)
       /\ NoSame(i.then) /\ NoSame(i.else)

Quiet(s) == \E I : s \in Seq(I) /\ QuietSet(I)
Mute(s) == Quiet(s) /\ NoSame(s)

LEMMA QuietIsList ==
  ASSUME NEW s, Quiet(s)
  PROVE  IsList(s) /\ IsCode(s)
<1> QED BY DEF Quiet, QuietSet, IsList, IsCode

LEMMA QuietConcat ==
  ASSUME NEW s, NEW t, Quiet(s), Quiet(t)
  PROVE  /\ Quiet(s \o t)
         /\ NoSame(s) /\ NoSame(t) => NoSame(s \o t)
<1>1. PICK I : s \in Seq(I) /\ QuietSet(I)
  BY DEF Quiet
<1>2. PICK J : t \in Seq(J) /\ QuietSet(J)
  BY DEF Quiet
<1>3. s \in Seq(I \cup J) /\ t \in Seq(I \cup J) /\ QuietSet(I \cup J)
  BY <1>1, <1>2, SeqInUnion, ClosedUnion DEF QuietSet
<1>4. s \o t \in Seq(I \cup J)
  BY <1>3, ConcatProperties
<1>5. ASSUME NoSame(s), NoSame(t) PROVE NoSame(s \o t)
  <2> DEFINE st == s \o t
  <2>1. IsList(s) /\ IsList(t)
    BY QuietIsList
  <2>2. /\ Len(s) \in Nat /\ Len(t) \in Nat /\ Len(st) = Len(s) + Len(t)
        /\ \A k \in 1 .. Len(s) : st[k] = s[k]
        /\ \A k \in 1 .. Len(t) : st[Len(s) + k] = t[k]
    BY <2>1, ListConcat, ListFacts
  <2> HIDE DEF st
  <2>3. ASSUME NEW k \in 1 .. Len(st) PROVE st[k].op # "same"
    <3>1. CASE k \in 1 .. Len(s)
      BY <1>5, <2>2, <3>1 DEF NoSame
    <3>2. CASE k \notin 1 .. Len(s)
      <4>1. k - Len(s) \in 1 .. Len(t) /\ Len(s) + (k - Len(s)) = k
        BY <2>2, <3>2
      <4>2. st[k] = t[k - Len(s)]
        BY <2>2, <4>1
      <4> QED BY <1>5, <4>1, <4>2 DEF NoSame
    <3> QED BY <3>1, <3>2
  <2> QED BY <2>3 DEF NoSame, st
<1> QED BY <1>3, <1>4, <1>5 DEF Quiet

LEMMA QuietInstr ==
  ASSUME NEW op, NEW at, NEW kind, NEW then, NEW else, Mute(then), Mute(else),
         op \notin {"combine", "climb"}, op = "build" => Precedence(kind) < 0,
         op = "call" => kind \in RoutineNames
  PROVE  /\ Quiet(Instr(op, at, kind, then, else))
         /\ op # "same" => Mute(Instr(op, at, kind, then, else))
<1>1. PICK I : then \in Seq(I) /\ QuietSet(I)
  BY DEF Mute, Quiet
<1>2. PICK J : else \in Seq(J) /\ QuietSet(J)
  BY DEF Mute, Quiet
<1> DEFINE i == [op |-> op, at |-> at, kind |-> kind, then |-> then, else |-> else]
           K == (I \cup J) \cup {i}
<1>3. then \in Seq(I \cup J) /\ else \in Seq(I \cup J) /\ QuietSet(I \cup J)
  BY <1>1, <1>2, SeqInUnion, ClosedUnion DEF QuietSet
<1>4. i.op = op /\ i.kind = kind /\ i.then = then /\ i.else = else
  OBVIOUS
<1> HIDE DEF i
<1>5. QuietSet(K)
  <2>1. then \in Seq(K) /\ else \in Seq(K)
    BY <1>3, SeqInUnion
  <2>2. \A j \in I \cup J : j.then \in Seq(K) /\ j.else \in Seq(K) /\ (j.op = "call" => j.kind \in RoutineNames)
    BY <1>3, SeqInUnion DEF QuietSet, Closed
  <2>3. Closed(K)
    BY <1>4, <2>1, <2>2 DEF Closed
  <2>4. \A j \in I \cup J : /\ j.op \notin {"combine", "climb"} /\ (j.op = "build" => Precedence(j.kind) < 0)
                            /\ NoSame(j.then) /\ NoSame(j.else)
    BY <1>3 DEF QuietSet
  <2> QED BY <1>4, <2>3, <2>4 DEF QuietSet, Mute
<1>6. <<i>> \in Seq(K)
  OBVIOUS
<1>7. Quiet(<<i>>)
  BY <1>5, <1>6 DEF Quiet
<1>8. op # "same" => NoSame(<<i>>)
  <2> DEFINE o == <<i>>
  <2>1. Len(o) = 1 /\ o[1] = i
    BY ListOne
  <2> HIDE DEF o
  <2>2. \A k \in 1 .. 1 : k = 1
    OBVIOUS
  <2> QED BY <1>4, <2>1, <2>2 DEF NoSame, o
<1> QED BY <1>7, <1>8 DEF Instr, Mute, i

LEMMA MuteNothing == Mute(<<>>)
<1>1. Len(<<>>) = 0 /\ <<>> \in Seq({}) /\ 1 .. 0 = {}
  BY EmptySeq
<1>2. QuietSet({})
  BY DEF QuietSet, Closed
<1> QED BY <1>1, <1>2 DEF Mute, Quiet, NoSame

(* The instructions that are mute, and what is made of mute code. *)
LEMMA MuteInstructions ==
  /\ \A S : Mute(Want(S))
  /\ Mute(Leaf) /\ Mute(Report) /\ Mute(NullReturn) /\ Mute(Need) /\ Quiet(Same)
  /\ Mute(Do("value")) /\ Mute(Do("recover")) /\ Mute(Do("skip"))
  /\ \A kind : Precedence(kind) < 0 => Mute(Build(kind))
  /\ \A kind \in RoutineNames : Mute(Call(kind))
  /\ \A p : Mute(Expr(p))
<1>1. \A op, at, kind :
        /\ op \notin {"combine", "climb"}
        /\ op = "build" => Precedence(kind) < 0
        /\ op = "call" => kind \in RoutineNames
        => /\ Quiet(Instr(op, at, kind, <<>>, <<>>))
           /\ op # "same" => Mute(Instr(op, at, kind, <<>>, <<>>))
  BY MuteNothing, QuietInstr
<1>2. \A S : Mute(Want(S))
  BY <1>1 DEF Want
<1>3. Mute(Leaf) /\ Mute(Report) /\ Mute(NullReturn) /\ Mute(Need) /\ Quiet(Same)
  BY <1>1 DEF Leaf, Report, NullReturn, Need, Same, Do
<1>4. Mute(Do("value")) /\ Mute(Do("recover")) /\ Mute(Do("skip"))
  BY <1>1 DEF Do
<1>5. \A kind : Precedence(kind) < 0 => Mute(Build(kind))
  BY <1>1 DEF Build
<1>6. \A kind \in RoutineNames : Mute(Call(kind))
  BY <1>1 DEF Call
<1>7. \A p : Mute(Expr(p))
  BY <1>1 DEF Expr, RoutineNames
<1> QED BY <1>2, <1>3, <1>4, <1>5, <1>6, <1>7

LEMMA MuteRules ==
  /\ \A s, t : Mute(s) /\ Mute(t) => Mute(s \o t)
  /\ \A S, s, t : Mute(s) /\ Mute(t) => Mute(If(S, s, t))
  /\ \A S, s : Mute(s) => Mute(When(S, s)) /\ Mute(Until(S, s)) /\ Mute(While(S, s))
  /\ \A kind : Mute(Expect(kind)) /\ Mute(Require(kind))
<1>1. \A s, t : Mute(s) /\ Mute(t) => Mute(s \o t)
  BY QuietConcat DEF Mute
<1>2. \A S, s, t : Mute(s) /\ Mute(t) => Mute(If(S, s, t))
  BY QuietInstr DEF If
<1>3. \A S, s : Mute(s) => Mute(When(S, s))
  BY <1>2, MuteNothing DEF When
<1>4. \A S, s : Mute(s) => Mute(Until(S, s)) /\ Mute(While(S, s))
  BY QuietInstr, MuteNothing DEF Until, While
<1>5. Mute(Report \o NullReturn) /\ \A S : Mute(Want(S))
  BY <1>1, MuteInstructions
<1>6. \A kind : Mute(Expect(kind)) /\ Mute(Require(kind))
  BY <1>2, <1>5, MuteNothing DEF Expect, Require
<1> QED BY <1>1, <1>2, <1>3, <1>4, <1>6

LEMMA MuteRoutines ==
  /\ Mute(parseMacroCall) /\ Mute(parseFunCall) /\ Mute(parseArrayAccessExpr) /\ Mute(parseArray)
  /\ Mute(parseRangeExpr) /\ Mute(parseLetStmt) /\ Mute(parseForStmt) /\ Mute(parseIfStmt)
  /\ Mute(parseWhileStmt) /\ Mute(parseBlockStmt) /\ Mute(parseFunction) /\ Mute(parseReturnStmt)
  /\ Mute(parseExprStmt) /\ Mute(parse)
<1>1. \A kind \in {"macro", "funcall", "access", "array", "range", "let", "for", "if", "while",
                   "block", "fn", "return", "exprstmt", "program"} : Mute(Build(kind))
  BY MuteInstructions, Precedences
<1>2. Mute(Call("primary")) /\ Mute(Call("type")) /\ Mute(Call("range")) /\ Mute(Call("stmt"))
      /\ Mute(Call("block"))
  BY MuteInstructions DEF RoutineNames
<1> USE <1>1, <1>2, MuteNothing, MuteInstructions, MuteRules
<1>3. Mute(parseMacroCall)
  BY DEF parseMacroCall
<1>4. Mute(parseFunCall)
  BY DEF parseFunCall, Separated
<1>5. Mute(parseArrayAccessExpr) /\ Mute(parseRangeExpr)
  BY DEF parseArrayAccessExpr, parseRangeExpr
<1>6. Mute(parseArray)
  BY DEF parseArray
<1>7. Mute(parseLetStmt)
  BY DEF parseLetStmt
<1>8. Mute(parseForStmt) /\ Mute(parseIfStmt)
  BY DEF parseForStmt, parseIfStmt
<1>9. Mute(parseWhileStmt) /\ Mute(parseBlockStmt)
  BY DEF parseWhileStmt, parseBlockStmt
<1>10. Mute(parseFunction)
  BY DEF parseFunction, Separated
<1>11. Mute(parseReturnStmt) /\ Mute(parseExprStmt) /\ Mute(parse)
  BY DEF parseReturnStmt, parseExprStmt, parse
<1> QED BY <1>3, <1>4, <1>5, <1>6, <1>7, <1>8, <1>9, <1>10, <1>11

-------------------------------------------------------------------------------
(* Sequences of instructions                                               *)

LEMMA Concats ==
  \A s, t : IsList(s) /\ IsList(t) =>
    /\ IsList(s \o t) /\ Len(s \o t) = Len(s) + Len(t)
    /\ \A k \in 1 .. Len(s) : (s \o t)[k] = s[k]
    /\ \A k \in 1 .. Len(t) : (s \o t)[Len(s) + k] = t[k]
<1> QED BY ListConcat

LEMMA ListEqual ==
  ASSUME NEW s, IsList(s), NEW t, IsList(t), Len(s) = Len(t), \A k \in 1 .. Len(s) : s[k] = t[k]
  PROVE  s = t
<1>1. PICK S : s \in Seq(S)
  BY DEF IsList
<1>2. PICK T : t \in Seq(T)
  BY DEF IsList
<1>3. s = [k \in 1 .. Len(s) |-> s[k]]
  BY <1>1, LenProperties
<1>4. t = [k \in 1 .. Len(t) |-> t[k]]
  BY <1>2, LenProperties
<1> QED BY <1>3, <1>4

LEMMA ConcatAssociates ==
  ASSUME NEW a, IsList(a), NEW b, IsList(b), NEW c, IsList(c)
  PROVE  (a \o b) \o c = a \o (b \o c)
<1> DEFINE ab == a \o b
           bc == b \o c
           l == ab \o c
           r == a \o bc
           m == Len(a)
           n == Len(b)
<1>1. m \in Nat /\ n \in Nat /\ Len(c) \in Nat
  BY ListFacts
<1>2. /\ IsList(ab) /\ Len(ab) = m + n /\ (\A k \in 1 .. m : ab[k] = a[k])
      /\ \A k \in 1 .. n : ab[m + k] = b[k]
  BY ListConcat
<1>3. /\ IsList(bc) /\ Len(bc) = n + Len(c) /\ (\A k \in 1 .. n : bc[k] = b[k])
      /\ \A k \in 1 .. Len(c) : bc[n + k] = c[k]
  BY ListConcat
<1> HIDE DEF ab, bc
<1>4. /\ IsList(l) /\ Len(l) = Len(ab) + Len(c) /\ (\A k \in 1 .. Len(ab) : l[k] = ab[k])
      /\ \A k \in 1 .. Len(c) : l[Len(ab) + k] = c[k]
  BY <1>2, Concats
<1>5. /\ IsList(r) /\ Len(r) = m + Len(bc) /\ (\A k \in 1 .. m : r[k] = a[k])
      /\ \A k \in 1 .. Len(bc) : r[m + k] = bc[k]
  BY <1>3, Concats
<1> HIDE DEF l, r, m, n
<1>6. Len(l) = m + n + Len(c) /\ Len(r) = m + n + Len(c)
  BY <1>1, <1>2, <1>3, <1>4, <1>5
<1>7. ASSUME NEW k \in 1 .. Len(l) PROVE l[k] = r[k]
  <2>1. CASE k \in 1 .. m
    <3>1. k \in 1 .. Len(ab)
      BY <1>1, <1>2, <2>1
    <3> QED BY <1>2, <1>4, <1>5, <2>1, <3>1
  <2>2. CASE k - m \in 1 .. n
    <3>1. k \in 1 .. Len(ab) /\ k - m \in 1 .. Len(bc) /\ m + (k - m) = k
      BY <1>1, <1>2, <1>3, <1>6, <2>2
    <3>2. l[k] = ab[m + (k - m)]
      BY <1>4, <3>1
    <3>3. r[m + (k - m)] = bc[k - m]
      BY <1>5, <3>1
    <3> QED BY <1>2, <1>3, <2>2, <3>1, <3>2, <3>3
  <2>3. CASE k - (m + n) \in 1 .. Len(c)
    <3> DEFINE j == k - (m + n)
    <3>1. j \in 1 .. Len(c) /\ (m + n) + j = k /\ n + j \in 1 .. Len(bc) /\ m + (n + j) = k
      BY <1>1, <1>3, <2>3
    <3> HIDE DEF j
    <3>2. l[k] = c[j]
      BY <1>2, <1>4, <3>1
    <3>3. r[k] = bc[n + j]
      BY <1>5, <3>1
    <3> QED BY <1>3, <3>1, <3>2, <3>3
  <2> QED BY <1>1, <1>6, <2>1, <2>2, <2>3
<1>8. l = r
  BY <1>4, <1>5, <1>6, <1>7, ListEqual
<1> QED BY <1>8 DEF l, r, ab, bc

LEMMA Associates ==
  \A a, b, c : IsList(a) /\ IsList(b) /\ IsList(c) => (a \o b) \o c = a \o (b \o c)
<1> QED BY ConcatAssociates

LEMMA NothingBehind ==
  ASSUME NEW s, IsList(s)
  PROVE  s \o <<>> = s /\ <<>> \o s = s
<1>1. PICK S : s \in Seq(S)
  BY DEF IsList
<1> QED BY <1>1

(* The first element of a sequence, and what is behind it. *)
LEMMA HeadConcat ==
  ASSUME NEW s, IsList(s), s # <<>>, NEW t, IsList(t)
  PROVE  /\ IsList(s \o t) /\ s \o t # <<>> /\ (s \o t)[1] = s[1]
         /\ Tail(s \o t) = Tail(s) \o t
<1> DEFINE st == s \o t
           tail == Tail(s)
           l == Tail(st)
           r == tail \o t
<1>1. Len(s) \in Nat /\ Len(s) > 0 /\ Len(t) \in Nat /\ 1 \in 1 .. Len(s)
  BY ListFacts
<1>2. /\ IsList(st) /\ Len(st) = Len(s) + Len(t) /\ (\A k \in 1 .. Len(s) : st[k] = s[k])
      /\ \A k \in 1 .. Len(t) : st[Len(s) + k] = t[k]
  BY ListConcat
<1>3. /\ IsList(tail) /\ Len(tail) = Len(s) - 1
      /\ \A k \in 1 .. Len(s) - 1 : tail[k] = s[k + 1]
  BY ListTail
<1> HIDE DEF st, tail
<1>4. st # <<>> /\ st[1] = s[1]
  <2>1. Len(st) > 0
    BY <1>1, <1>2
  <2> QED BY <1>1, <1>2, <2>1, ListFacts
<1>5. IsList(l) /\ Len(l) = Len(st) - 1 /\ \A k \in 1 .. Len(st) - 1 : l[k] = st[k + 1]
  BY <1>2, <1>4, ListTail
<1>6. /\ IsList(r) /\ Len(r) = Len(tail) + Len(t) /\ (\A k \in 1 .. Len(tail) : r[k] = tail[k])
      /\ \A k \in 1 .. Len(t) : r[Len(tail) + k] = t[k]
  <2>1. IsList(tail)
    BY <1>3
  <2> QED BY <2>1, ListConcat
<1> HIDE DEF l, r
<1>7. Len(l) = Len(r)
  BY <1>1, <1>2, <1>3, <1>5, <1>6
<1>8. ASSUME NEW k \in 1 .. Len(l) PROVE l[k] = r[k]
  <2>1. l[k] = st[k + 1]
    BY <1>5
  <2>2. CASE k \in 1 .. Len(tail)
    <3>1. k + 1 \in 1 .. Len(s) /\ k \in 1 .. Len(s) - 1
      BY <1>1, <1>3, <2>2
    <3> QED BY <1>2, <1>3, <1>6, <2>1, <2>2, <3>1
  <2>3. CASE k \notin 1 .. Len(tail)
    <3> DEFINE j == k - Len(tail)
    <3>1. j \in 1 .. Len(t) /\ Len(s) + j = k + 1 /\ Len(tail) + j = k
      BY <1>1, <1>2, <1>3, <1>5, <2>3
    <3> HIDE DEF j
    <3>2. st[k + 1] = t[j] /\ r[k] = t[j]
      BY <1>2, <1>6, <3>1
    <3> QED BY <2>1, <3>2
  <2> QED BY <2>2, <2>3
<1>9. l = r
  BY <1>5, <1>6, <1>7, <1>8, ListEqual
<1> QED BY <1>2, <1>4, <1>9 DEF st, l, r, tail

(* One instruction before others. *)
One(o) == IsList(o) /\ Len(o) = 1

(* t is s behind o. *)
Joined(o, s, t) == t = o \o s

LEMMA OneFirst ==
  ASSUME NEW o, One(o), NEW s, IsList(s)
  PROVE  IsList(o \o s) /\ (o \o s)[1] = o[1] /\ Tail(o \o s) = s
<1>1. IsList(o) /\ o # <<>>
  BY ListFacts, ListEmpty DEF One
<1>2. Tail(o) = <<>>
  <2> DEFINE t == Tail(o)
  <2>1. IsList(t) /\ Len(t) = Len(o) - 1
    BY <1>1, ListTail
  <2> HIDE DEF t
  <2>2. ~(Len(t) > 0)
    BY <2>1 DEF One
  <2>3. t = <<>>
    BY <2>1, <2>2, ListFacts
  <2> QED BY <2>3 DEF t
<1>3. IsList(o \o s) /\ (o \o s)[1] = o[1] /\ Tail(o \o s) = <<>> \o s
  BY <1>1, <1>2, HeadConcat
<1>4. <<>> \o s = s
  BY NothingBehind
<1> QED BY <1>3, <1>4

LEMMA JoinedFirst ==
  \A o, s, t : Joined(o, s, t) /\ One(o) /\ IsList(s) => IsList(t) /\ t[1] = o[1] /\ Tail(t) = s
<1> SUFFICES ASSUME NEW o, NEW s, NEW t, Joined(o, s, t), One(o), IsList(s)
             PROVE  IsList(t) /\ t[1] = o[1] /\ Tail(t) = s
  OBVIOUS
<1> DEFINE u == o \o s
<1>1. IsList(u) /\ u[1] = o[1] /\ Tail(u) = s
  BY OneFirst
<1>2. t = u
  BY DEF Joined
<1> HIDE DEF u
<1> QED BY <1>1, <1>2

LEMMA JoinedThree ==
  \A a, b, c, ab, bc, l, r :
    /\ IsList(a) /\ IsList(b) /\ IsList(c)
    /\ Joined(a, b, ab) /\ Joined(ab, c, l) /\ Joined(b, c, bc) /\ Joined(a, bc, r)
    => l = r
<1> SUFFICES ASSUME NEW a, NEW b, NEW c, NEW ab, NEW bc, NEW l, NEW r,
                    IsList(a), IsList(b), IsList(c),
                    Joined(a, b, ab), Joined(ab, c, l), Joined(b, c, bc), Joined(a, bc, r)
             PROVE  l = r
  OBVIOUS
<1>1. l = (a \o b) \o c
  BY DEF Joined
<1>2. r = a \o (b \o c)
  BY DEF Joined
<1>3. (a \o b) \o c = a \o (b \o c)
  BY ConcatAssociates
<1> QED BY <1>1, <1>2, <1>3

LEMMA JoinedFour ==
  ASSUME NEW a, IsList(a), NEW b, IsList(b), NEW c, IsList(c), NEW d, IsList(d),
         NEW ab, Joined(a, b, ab), NEW abc, Joined(ab, c, abc), NEW l, Joined(abc, d, l),
         NEW cd, Joined(c, d, cd), NEW bcd, Joined(b, cd, bcd), NEW r, Joined(a, bcd, r)
  PROVE  l = r
<1>1. IsList(ab) /\ IsList(cd)
  BY Concats DEF Joined
<1> DEFINE x == ab \o cd
<1>2. Joined(ab, cd, x)
  BY DEF Joined
<1> HIDE DEF x
<1>3. l = x
  BY <1>1, <1>2, JoinedThree
<1>4. x = r
  BY <1>1, <1>2, JoinedThree
<1> QED BY <1>3, <1>4

LEMMA LastIsNothing ==
  \A op, at, kind, then, else : Tail(Instr(op, at, kind, then, else)) = <<>>
BY DEF Instr

LEMMA Ones ==
  /\ \A S : One(Want(S)) /\ Want(S)[1].op = "want"
  /\ \A kind : One(Build(kind)) /\ Build(kind)[1].op = "build" /\ Build(kind)[1].kind = kind
  /\ \A kind : One(Call(kind)) /\ Call(kind)[1].op = "call" /\ Call(kind)[1].kind = kind
  /\ \A p : /\ One(Expr(p)) /\ Expr(p)[1].op = "call" /\ Expr(p)[1].kind = "expr"
            /\ Expr(p)[1].at = {p}
  /\ One(Need) /\ Need[1].op = "need"
  /\ One(Same) /\ Same[1].op = "same" /\ Tail(Same) = <<>>
  /\ One(Leaf) /\ Leaf[1].op = "leaf"
  /\ \A S, t : /\ One(When(S, t)) /\ When(S, t)[1].op = "if"
               /\ When(S, t)[1].then = t /\ When(S, t)[1].else = <<>>
<1>1. \A S : One(Want(S)) /\ Want(S)[1].op = "want"
  BY ListOne DEF Want, Instr, One
<1>2. \A kind : One(Build(kind)) /\ Build(kind)[1].op = "build" /\ Build(kind)[1].kind = kind
  BY ListOne DEF Build, Instr, One
<1>3. \A kind : One(Call(kind)) /\ Call(kind)[1].op = "call" /\ Call(kind)[1].kind = kind
  BY ListOne DEF Call, Instr, One
<1>4. \A p : /\ One(Expr(p)) /\ Expr(p)[1].op = "call" /\ Expr(p)[1].kind = "expr"
            /\ Expr(p)[1].at = {p}
  BY ListOne DEF Expr, Instr, One
<1>5. One(Need) /\ Need[1].op = "need"
  BY ListOne DEF Need, Do, Instr, One
<1>6. One(Same) /\ Same[1].op = "same"
  BY ListOne DEF Same, Do, Instr, One
<1>9. Tail(Same) = <<>>
  BY LastIsNothing DEF Same, Do
<1>7. One(Leaf) /\ Leaf[1].op = "leaf"
  BY ListOne DEF Leaf, Do, Instr, One
<1>8. \A S, t : /\ One(When(S, t)) /\ When(S, t)[1].op = "if"
               /\ When(S, t)[1].then = t /\ When(S, t)[1].else = <<>>
  BY ListOne DEF When, If, Instr, One
<1> QED BY <1>1, <1>2, <1>3, <1>4, <1>5, <1>6, <1>7, <1>8, <1>9

-------------------------------------------------------------------------------
(* Nodes in the order of precedence                                        *)

Ordered(N) == \A m \in N : Climbs(m) /\ Range(m.children) \subseteq N
Shaped(n) == \E N : n \in N /\ Ordered(N)
ShapedAll(nodes) == \E N : (\A k \in 1 .. Len(nodes) : nodes[k] \in N) /\ Ordered(N)

LEMMA ShapedNothing == ShapedAll(<<>>)
<1>1. Ordered({})
  BY DEF Ordered
<1>2. 1 .. Len(<<>>) = {}
  BY ListEmpty
<1> QED BY <1>1, <1>2 DEF ShapedAll

LEMMA ShapedNode ==
  ASSUME NEW kind, NEW nodes, IsList(nodes), ShapedAll(nodes), Climbs(Node(kind, nodes))
  PROVE  Shaped(Node(kind, nodes))
<1> DEFINE n == Node(kind, nodes)
<1>1. PICK N : (\A k \in 1 .. Len(nodes) : nodes[k] \in N) /\ Ordered(N)
  BY DEF ShapedAll
<1>2. n.children = nodes /\ Climbs(n)
  BY DEF Node
<1> HIDE DEF n
<1>3. Range(nodes) \subseteq N
  <2>1. DOMAIN nodes = 1 .. Len(nodes)
    BY ListFacts
  <2> QED BY <1>1, <2>1 DEF Range
<1>4. Ordered(N \cup {n})
  BY <1>1, <1>2, <1>3 DEF Ordered
<1> QED BY <1>4 DEF Shaped, n

(* A node that is not of a binary operator. *)
LEMMA PlainNode ==
  ASSUME NEW kind, NEW nodes, IsList(nodes), Precedence(kind) < 0 \/ Len(nodes) < 2
  PROVE  ~Binary(Node(kind, nodes)) /\ Climbs(Node(kind, nodes))
<1> DEFINE n == Node(kind, nodes)
<1>1. n.kind = kind /\ n.children = nodes
  BY DEF Node
<1> HIDE DEF n
<1>2. Precedence(kind) \in Int /\ Len(nodes) \in Nat
  BY Precedences, ListFacts
<1>3. ~Binary(n)
  BY <1>1, <1>2 DEF Binary
<1> QED BY <1>3 DEF Climbs, n

LEMMA ShapedLeaf ==
  ASSUME NEW kind
  PROVE  Shaped(Node(kind, <<>>)) /\ ~Binary(Node(kind, <<>>))
<1>1. IsList(<<>>) /\ Len(<<>>) < 2
  BY ListEmpty
<1> QED BY <1>1, PlainNode, ShapedNode, ShapedNothing

LEMMA ShapedWith ==
  ASSUME NEW nodes, IsList(nodes), Len(nodes) <= MaxNodes, ShapedAll(nodes), NEW n, Shaped(n)
  PROVE  ShapedAll(With(nodes, n))
<1>1. PICK N : (\A k \in 1 .. Len(nodes) : nodes[k] \in N) /\ Ordered(N)
  BY DEF ShapedAll
<1>2. PICK M : n \in M /\ Ordered(M)
  BY DEF Shaped
<1>3. Ordered(N \cup M)
  BY <1>1, <1>2 DEF Ordered
<1>4. \A k \in 1 .. Len(With(nodes, n)) : With(nodes, n)[k] \in N \cup M
  BY <1>1, <1>2, WithNode
<1> QED BY <1>3, <1>4 DEF ShapedAll

LEMMA ShapedOne ==
  ASSUME NEW n, Shaped(n)
  PROVE  ShapedAll(<<n>>)
<1>1. PICK M : n \in M /\ Ordered(M)
  BY DEF Shaped
<1> DEFINE o == <<n>>
<1>2. Len(o) = 1 /\ o[1] = n
  BY ListOne
<1> HIDE DEF o
<1>3. \A k \in 1 .. Len(o) : o[k] \in M
  BY <1>1, <1>2
<1> QED BY <1>1, <1>3 DEF ShapedAll, o

LEMMA ShapedLast ==
  ASSUME NEW nodes, IsList(nodes), nodes # <<>>, ShapedAll(nodes)
  PROVE  Shaped(Last(nodes))
<1>1. PICK N : (\A k \in 1 .. Len(nodes) : nodes[k] \in N) /\ Ordered(N)
  BY DEF ShapedAll
<1>2. Last(nodes) \in N
  BY <1>1, ListFront
<1> QED BY <1>1, <1>2 DEF Shaped

-------------------------------------------------------------------------------
(* What a call may return, and what it does until then                     *)

(* Code with a first part that ends the routine, and that makes its own node. *)
Stopping(code) == \E a, b : code = a \o b /\ Mute(a) /\ Ends(a) /\ IsList(b)

(* The code of a literal or a name: it leaves the token's node, or one that  *)
(* stopping code makes.                                                     *)
DirectSet(I) ==
  \A i \in I : \/ i.op \in {"leaf", "same"}
               \/ i.op = "if" /\ i.else = <<>> /\ Mute(i.then) /\ Ends(i.then)
Direct(s) == \E I : s \in Seq(I) /\ DirectSet(I)

(* Code that makes no node, in front of a unary operator's operand. *)
IdleSet(I) ==
  \A i \in I : i.op \in {"want", "if", "report"} /\ i.then \in Seq(I) /\ i.else \in Seq(I)
Idle(s) == \E I : s \in Seq(I) /\ IdleSet(I)

Unary(code, nodes) ==
  \/ /\ nodes = <<>>
     /\ \E a, routine, kind : /\ Idle(a) /\ routine \in RoutineNames
                              /\ \/ code = a \o (Call(routine) \o (Need \o Build(kind)))
                                 \/ code = a \o (Call(routine) \o Build(kind))
  \/ Len(nodes) < 2 /\ \E kind : code = Need \o Build(kind) \/ code = Build(kind)

NoneBinary(nodes) == \A k \in 1 .. Len(nodes) : ~Binary(nodes[k])

(* A call, made by instruction i, of a routine other than parseExpr. *)
Simple(i, code, nodes) ==
  \/ i.kind # "primary" /\ Quiet(code)
  \/ Stopping(code)
  \/ Direct(code) /\ NoneBinary(nodes)
  \/ Unary(code, nodes)

(* A call of parseExpr, before and at the operand, ... *)
RestOfExpr(min) ==
  When({"as"}, Want({"as"}) \o Call("type") \o Instr("combine", {}, "as", <<>>, <<>>))
  \o Instr("climb", {min}, "", <<>>, <<>>)
Combined(kind, min) ==
  Instr("combine", {}, kind, <<>>, <<>>) \o Instr("climb", {min}, "", <<>>, <<>>)
Cast(min) == Call("type") \o Combined("as", min)

AtOperand(min, code, nodes) ==
  \/ nodes = <<>> /\ code = Call("primary") \o (Need \o RestOfExpr(min))
  \/ /\ Len(nodes) = 1 /\ ~Binary(nodes[1])
     /\ code \in {Need \o RestOfExpr(min), RestOfExpr(min), Want({"as"}) \o Cast(min), Cast(min)}
  \/ code = Combined("as", min)

(* ... between an operand and an operator, ... *)
BindsOn(n, kind) == Binary(n) => Precedence(n.kind) >= Precedence(kind)

AtOperator(min, code, nodes, p) ==
  /\ Len(nodes) = 1 /\ (Binary(nodes[1]) => ~(Precedence(nodes[1].kind) < min))
  /\ \/ code = Instr("climb", {min}, "", <<>>, <<>>)
        /\ (Binary(nodes[1]) => p <= Precedence(nodes[1].kind))
     \/ code = Same /\ p < min

(* ... and from an operator to its right operand. *)
Right(kind, min) == Expr(Precedence(kind) + 1) \o (Need \o Combined(kind, min))

AtRight(min, code, nodes, p) ==
  \E kind :
    /\ ~(Precedence(kind) < min) /\ BindsOn(nodes[1], kind)
    /\ \/ Len(nodes) = 1 /\ code \in {Want({kind}) \o Right(kind, min), Right(kind, min)}
       \/ /\ Len(nodes) = 2 /\ (Binary(nodes[2]) => Precedence(nodes[2].kind) > Precedence(kind))
          /\ p <= Precedence(kind)
          /\ code \in {Need \o Combined(kind, min), Combined(kind, min)}

InExpr(min, code, nodes, p) ==
  AtOperand(min, code, nodes) \/ AtOperator(min, code, nodes, p) \/ AtRight(min, code, nodes, p)

Minimal(i) == CHOOSE precedence \in i.at : TRUE

(* The call that instruction i made, when the token's precedence is p. *)
Tidy(i, code, nodes, p) ==
  /\ ShapedAll(nodes)
  /\ IF i.kind = "expr"
     THEN InExpr(Minimal(i), code, nodes, p)
     ELSE Simple(i, code, nodes)

(* What that call returns. *)
Yields(i, n, p) ==
  /\ Shaped(n)
  /\ i.kind = "primary" => ~Binary(n)
  /\ i.kind = "expr" => (Binary(n) => ~(Precedence(n.kind) < Minimal(i))) /\ p < Minimal(i)

(* A call that waits for what instruction j called. *)
Expects(i, j, code, nodes) ==
  \A n : \A p \in Int : Yields(j, n, p) => Tidy(i, code, With(nodes, n), p)

(* Code without "same" and with its end. *)
LEMMA MuteEnds ==
  ASSUME NEW s, Mute(s), Ends(s), NEW t, IsList(t)
  PROVE  Stopping(s) /\ Stopping(s \o t)
<1>1. IsList(s) /\ s \o <<>> = s /\ IsList(<<>>)
  BY QuietIsList, NothingBehind, ListEmpty DEF Mute
<1>2. Stopping(s \o t) /\ Stopping(s \o <<>>)
  BY ListEmpty DEF Stopping
<1> QED BY <1>1, <1>2

LEMMA QuietHead ==
  ASSUME NEW s, Quiet(s), s # <<>>
  PROVE  /\ Quiet(Tail(s)) /\ Mute(s[1].then) /\ Mute(s[1].else)
         /\ s[1].op \notin {"combine", "climb"}
         /\ s[1].op = "build" => Precedence(s[1].kind) < 0
         /\ NoSame(s) => NoSame(Tail(s)) /\ s[1].op # "same"
<1>1. PICK I : s \in Seq(I) /\ QuietSet(I)
  BY DEF Quiet
<1>2. IsList(s) /\ Len(s) \in Nat /\ Len(s) > 0
  BY QuietIsList, ListFacts
<1> DEFINE tail == Tail(s)
<1>3. /\ IsList(tail) /\ Len(tail) = Len(s) - 1 /\ 1 \in 1 .. Len(s)
      /\ \A k \in 1 .. Len(s) - 1 : tail[k] = s[k + 1]
  BY <1>2, ListTail
<1>4. tail \in Seq(I) /\ s[1] \in I
  BY <1>1, <1>2, <1>3, HeadTailProperties, LenProperties
<1> HIDE DEF tail
<1>5. Mute(s[1].then) /\ Mute(s[1].else)
  BY <1>1, <1>4 DEF QuietSet, Closed, Mute, Quiet
<1>6. ASSUME NoSame(s) PROVE NoSame(tail) /\ s[1].op # "same"
  <2>1. \A k \in 1 .. Len(tail) : k + 1 \in 1 .. Len(s) /\ tail[k] = s[k + 1]
    BY <1>2, <1>3
  <2> QED BY <1>3, <1>6, <2>1 DEF NoSame
<1> QED BY <1>1, <1>4, <1>5, <1>6 DEF Quiet, QuietSet, tail

LEMMA DirectHead ==
  ASSUME NEW s, Direct(s), s # <<>>
  PROVE  /\ Direct(Tail(s)) /\ IsList(Tail(s))
         /\ \/ s[1].op \in {"leaf", "same"}
            \/ s[1].op = "if" /\ s[1].else = <<>> /\ Mute(s[1].then) /\ Ends(s[1].then)
<1>1. PICK I : s \in Seq(I) /\ DirectSet(I)
  BY DEF Direct
<1>2. IsList(s) /\ Len(s) \in Nat /\ Len(s) > 0
  BY <1>1, ListFacts DEF IsList
<1>3. Tail(s) \in Seq(I) /\ s[1] \in I
  BY <1>1, <1>2, HeadTailProperties, LenProperties
<1> QED BY <1>1, <1>3 DEF Direct, DirectSet, IsList

LEMMA IdleHead ==
  ASSUME NEW s, Idle(s)
  PROVE  /\ IsList(s)
         /\ s # <<>> => /\ Idle(Tail(s)) /\ Idle(s[1].then) /\ Idle(s[1].else)
                        /\ s[1].op \in {"want", "if", "report"}
<1>1. PICK I : s \in Seq(I) /\ IdleSet(I)
  BY DEF Idle
<1>2. IsList(s)
  BY <1>1 DEF IsList
<1>3. ASSUME s # <<>>
      PROVE  /\ Idle(Tail(s)) /\ Idle(s[1].then) /\ Idle(s[1].else)
             /\ s[1].op \in {"want", "if", "report"}
  <2>1. Len(s) \in Nat /\ Len(s) > 0
    BY <1>2, <1>3, ListFacts
  <2>2. Tail(s) \in Seq(I) /\ s[1] \in I
    BY <1>1, <1>3, <2>1, HeadTailProperties, LenProperties
  <2> QED BY <1>1, <2>2 DEF Idle, IdleSet
<1> QED BY <1>2, <1>3

LEMMA IdleConcat ==
  ASSUME NEW s, Idle(s), NEW t, Idle(t)
  PROVE  Idle(s \o t)
<1>1. PICK I : s \in Seq(I) /\ IdleSet(I)
  BY DEF Idle
<1>2. PICK J : t \in Seq(J) /\ IdleSet(J)
  BY DEF Idle
<1>3. s \in Seq(I \cup J) /\ t \in Seq(I \cup J)
  BY <1>1, <1>2, SeqInUnion
<1>4. IdleSet(I \cup J)
  BY <1>1, <1>2, SeqInUnion DEF IdleSet
<1>5. s \o t \in Seq(I \cup J)
  BY <1>3, ConcatProperties
<1> QED BY <1>4, <1>5 DEF Idle

LEMMA IdleInstr ==
  ASSUME NEW op \in {"want", "if", "report"}, NEW at, NEW kind,
         NEW then, Idle(then), NEW else, Idle(else)
  PROVE  Idle(Instr(op, at, kind, then, else))
<1>1. PICK I : then \in Seq(I) /\ IdleSet(I)
  BY DEF Idle
<1>2. PICK J : else \in Seq(J) /\ IdleSet(J)
  BY DEF Idle
<1> DEFINE i == [op |-> op, at |-> at, kind |-> kind, then |-> then, else |-> else]
           U == I \cup J
           K == U \cup {i}
<1>3. then \in Seq(U) /\ else \in Seq(U) /\ IdleSet(U)
  BY <1>1, <1>2, SeqInUnion DEF IdleSet
<1>4. i.op = op /\ i.kind = kind /\ i.then = then /\ i.else = else
  OBVIOUS
<1> HIDE DEF i, U
<1>5. IdleSet(K)
  <2>1. then \in Seq(K) /\ else \in Seq(K)
    BY <1>3, SeqInUnion
  <2>2. \A j \in U : j.op \in {"want", "if", "report"} /\ j.then \in Seq(K) /\ j.else \in Seq(K)
    BY <1>3, SeqInUnion DEF IdleSet
  <2> QED BY <1>4, <2>1, <2>2 DEF IdleSet
<1>6. <<i>> \in Seq(K)
  OBVIOUS
<1> QED BY <1>5, <1>6 DEF Idle, Instr, i

LEMMA StoppingHead ==
  ASSUME NEW code, Stopping(code)
  PROVE  /\ code[1].op \notin Terminal =>
              /\ Stopping(Tail(code))
              /\ Stopping(code[1].then \o Tail(code)) /\ Stopping(code[1].else \o Tail(code))
              /\ Stopping(code[1].then \o code)
         /\ code[1].op \notin {"climb", "combine", "same"}
         /\ code[1].op = "build" => Precedence(code[1].kind) < 0
<1>1. PICK a, b : code = a \o b /\ Mute(a) /\ Ends(a) /\ IsList(b)
  BY DEF Stopping
<1> DEFINE tail == Tail(a)
           then == a[1].then
           else == a[1].else
<1>2. IsCode(a) /\ IsList(a) /\ Quiet(a) /\ NoSame(a)
  BY <1>1, QuietIsList DEF Mute
<1>3. a # <<>> /\ IsCode(tail) /\ (a[1].op \notin Terminal => Ends(tail)) /\ Head(a) = a[1]
  BY <1>1, <1>2, RestOfCode
<1>4. code[1] = a[1] /\ Tail(code) = tail \o b
  BY <1>1, <1>2, <1>3, HeadConcat
<1>5. Mute(tail) /\ Mute(then) /\ Mute(else)
  BY <1>2, <1>3, QuietHead DEF Mute
<1>6. /\ a[1].op \notin {"climb", "combine", "same"}
      /\ a[1].op = "build" => Precedence(a[1].kind) < 0
  BY <1>2, <1>3, QuietHead
<1>7. IsList(a) /\ IsList(b) /\ IsList(tail) /\ IsList(then) /\ IsList(else)
  BY <1>1, <1>2, <1>5, QuietIsList DEF Mute
<1> HIDE DEF tail, then, else
<1>8. /\ then \o (tail \o b) = (then \o tail) \o b /\ else \o (tail \o b) = (else \o tail) \o b
      /\ then \o (a \o b) = (then \o a) \o b
  <2>1. IsList(tail) /\ IsList(b)
    BY <1>7
  <2>2. IsList(a) /\ IsList(b)
    BY <1>7
  <2>3. \A c : IsList(c) => c \o (tail \o b) = (c \o tail) \o b
    BY <2>1, Associates
  <2>4. \A c : IsList(c) => c \o (a \o b) = (c \o a) \o b
    BY <2>2, Associates
  <2> QED BY <1>7, <2>3, <2>4
<1>9. Mute(then \o tail) /\ Mute(else \o tail) /\ Mute(then \o a)
  BY <1>1, <1>5, MuteRules
<1>10. Ends(then \o a)
  BY <1>1, <1>2, <1>7, EndsLast
<1>11. Stopping((then \o a) \o b)
  BY <1>1, <1>9, <1>10, MuteEnds
<1>12. ASSUME a[1].op \notin Terminal
       PROVE  /\ Stopping(tail \o b) /\ Stopping((then \o tail) \o b) /\ Stopping((else \o tail) \o b)
  <2>1. Ends(tail) /\ Ends(then \o tail) /\ Ends(else \o tail)
    BY <1>3, <1>7, <1>12, EndsLast
  <2> QED BY <1>1, <1>5, <1>9, <2>1, MuteEnds
<1> QED BY <1>1, <1>4, <1>6, <1>8, <1>11, <1>12 DEF then, else

LEMMA UnaryHead ==
  ASSUME NEW code, NEW nodes, Unary(code, nodes)
  PROVE  /\ code[1].op \in {"want", "if", "report", "call", "need", "build"}
         /\ code[1].op \in {"want", "need"} => Unary(Tail(code), nodes)
         /\ code[1].op = "if" =>
              Unary(code[1].then \o Tail(code), nodes) /\ Unary(code[1].else \o Tail(code), nodes)
         /\ code[1].op = "call" =>
              nodes = <<>> /\ \A some : Len(some) < 2 => Unary(Tail(code), some)
         /\ code[1].op = "build" => Len(nodes) < 2
<1>1. \A kind : IsList(Build(kind)) /\ IsList(Need \o Build(kind))
  BY Ones, OneFirst DEF One
<1>2. \A kind : /\ (Need \o Build(kind))[1].op = "need" /\ Tail(Need \o Build(kind)) = Build(kind)
                /\ Build(kind)[1].op = "build"
  BY <1>1, Ones, OneFirst
<1>3. ASSUME NEW kind, code = Need \o Build(kind) \/ code = Build(kind), Len(nodes) < 2
      PROVE  /\ code[1].op \in {"need", "build"}
             /\ code[1].op = "need" => Unary(Tail(code), nodes)
  <2>1. CASE code = Need \o Build(kind)
    <3>1. Tail(code) = Build(kind) /\ code[1].op = "need"
      BY <1>2, <2>1
    <3> QED BY <1>3, <3>1 DEF Unary
  <2>2. CASE code = Build(kind)
    BY <1>2, <2>2
  <2> QED BY <1>3, <2>1, <2>2
<1>4. ASSUME NEW a, Idle(a), NEW b, IsList(b), code = a \o b, nodes = <<>>,
             \A c : Idle(c) => Unary(c \o b, nodes),
             b[1].op = "call", \A some : Len(some) < 2 => Unary(Tail(b), some)
      PROVE  /\ code[1].op \in {"want", "if", "report", "call"}
             /\ code[1].op = "want" => Unary(Tail(code), nodes)
             /\ code[1].op = "if" =>
                  Unary(code[1].then \o Tail(code), nodes) /\ Unary(code[1].else \o Tail(code), nodes)
             /\ code[1].op = "call" => \A some : Len(some) < 2 => Unary(Tail(code), some)
  <2>1. CASE a = <<>>
    <3>1. code = b
      BY <1>4, <2>1, NothingBehind
    <3> QED BY <1>4, <3>1
  <2>2. CASE a # <<>>
    <3> DEFINE tail == Tail(a)
               then == a[1].then
               else == a[1].else
    <3>1. /\ IsList(a) /\ Idle(tail) /\ Idle(then) /\ Idle(else) /\ a[1].op \in {"want", "if", "report"}
      BY <1>4, <2>2, IdleHead
    <3>2. code[1] = a[1] /\ Tail(code) = tail \o b
      BY <1>4, <2>2, <3>1, HeadConcat
    <3>3. IsList(b) /\ IsList(tail) /\ IsList(then) /\ IsList(else)
      BY <1>4, <3>1, IdleHead
    <3> HIDE DEF tail, then, else
    <3>4. then \o (tail \o b) = (then \o tail) \o b /\ else \o (tail \o b) = (else \o tail) \o b
      <4>1. ASSUME NEW c, IsList(c) PROVE c \o (tail \o b) = (c \o tail) \o b
        <5> DEFINE tb == tail \o b
                   ct == c \o tail
                   l == ct \o b
                   r == c \o tb
        <5>1. Joined(tail, b, tb) /\ Joined(c, tail, ct) /\ Joined(ct, b, l) /\ Joined(c, tb, r)
          BY DEF Joined
        <5>2. IsList(c) /\ IsList(tail) /\ IsList(b)
          BY <3>3, <4>1
        <5> HIDE DEF tb, ct, l, r
        <5>3. l = r
          BY <5>1, <5>2, JoinedThree
        <5> QED BY <5>3 DEF tb, ct, l, r
      <4> QED BY <3>3, <4>1
    <3>5. Idle(then \o tail) /\ Idle(else \o tail)
      BY <3>1, IdleConcat
    <3>6. Unary(tail \o b, nodes) /\ Unary((then \o tail) \o b, nodes) /\ Unary((else \o tail) \o b, nodes)
      BY <1>4, <3>1, <3>5
    <3> QED BY <3>1, <3>2, <3>4, <3>6 DEF then, else
  <2> QED BY <2>1, <2>2
<1>5. ASSUME nodes = <<>>, NEW a, NEW routine \in RoutineNames, NEW kind, Idle(a),
             \/ code = a \o (Call(routine) \o (Need \o Build(kind)))
             \/ code = a \o (Call(routine) \o Build(kind))
      PROVE  /\ code[1].op \in {"want", "if", "report", "call"}
             /\ code[1].op = "want" => Unary(Tail(code), nodes)
             /\ code[1].op = "if" =>
                  Unary(code[1].then \o Tail(code), nodes) /\ Unary(code[1].else \o Tail(code), nodes)
             /\ code[1].op = "call" => \A some : Len(some) < 2 => Unary(Tail(code), some)
  <2>1. ASSUME NEW s, IsList(s), s = Need \o Build(kind) \/ s = Build(kind),
               code = a \o (Call(routine) \o s)
        PROVE  /\ code[1].op \in {"want", "if", "report", "call"}
               /\ code[1].op = "want" => Unary(Tail(code), nodes)
               /\ code[1].op = "if" =>
                    Unary(code[1].then \o Tail(code), nodes) /\ Unary(code[1].else \o Tail(code), nodes)
               /\ code[1].op = "call" => \A some : Len(some) < 2 => Unary(Tail(code), some)
    <3> DEFINE c == Call(routine)
               b == c \o s
    <3>1. IsList(b) /\ b[1].op = "call" /\ Tail(b) = s
      <4>1. One(c) /\ c[1].op = "call"
        BY Ones
      <4>2. Joined(c, s, b)
        BY DEF Joined
      <4> HIDE DEF b, c
      <4> QED BY <2>1, <4>1, <4>2, JoinedFirst
    <3>2. \A quiet : Idle(quiet) => Unary(quiet \o b, nodes)
      BY <1>5, <2>1 DEF Unary
    <3>3. \A some : Len(some) < 2 => Unary(s, some)
      BY <2>1 DEF Unary
    <3>4. code = a \o b
      BY <2>1
    <3> HIDE DEF b
    <3> QED BY <1>4, <1>5, <3>1, <3>2, <3>3, <3>4
  <2> QED BY <1>1, <1>5, <2>1
<1>6. CASE Len(nodes) < 2 /\ \E kind : code = Need \o Build(kind) \/ code = Build(kind)
  BY <1>3, <1>6
<1>7. CASE ~(Len(nodes) < 2 /\ \E kind : code = Need \o Build(kind) \/ code = Build(kind))
  <2>1. PICK a, routine, kind :
          /\ nodes = <<>> /\ Idle(a) /\ routine \in RoutineNames
          /\ \/ code = a \o (Call(routine) \o (Need \o Build(kind)))
             \/ code = a \o (Call(routine) \o Build(kind))
    BY <1>7 DEF Unary
  <2> QED BY <1>5, <2>1
<1> QED BY <1>6, <1>7

LEMMA SimpleSteps ==
  ASSUME NEW i, NEW code, NEW nodes, Simple(i, code, nodes), code # <<>>,
         IsList(nodes), Len(nodes) <= MaxNodes
  PROVE  /\ code[1].op \in {"want", "need", "value", "recover", "skip"} => Simple(i, Tail(code), nodes)
         /\ code[1].op = "leaf" => \A n : ~Binary(n) => Simple(i, Tail(code), With(nodes, n))
         /\ code[1].op = "call" => \A n : Simple(i, Tail(code), With(nodes, n))
         /\ code[1].op = "if" => /\ Simple(i, code[1].then \o Tail(code), nodes)
                                 /\ Simple(i, code[1].else \o Tail(code), nodes)
         /\ code[1].op \in {"until", "while"} => /\ Simple(i, Tail(code), nodes)
                                                 /\ Simple(i, code[1].then \o code, nodes)
         /\ code[1].op \notin {"climb", "combine"}
         /\ code[1].op = "build" => Precedence(code[1].kind) < 0 \/ Len(nodes) < 2
         /\ code[1].op = "same" /\ nodes # <<>> /\ i.kind = "primary" => ~Binary(Last(nodes))
<1>1. CASE i.kind # "primary" /\ Quiet(code)
  <2>1. /\ Quiet(Tail(code)) /\ Quiet(code[1].then) /\ Quiet(code[1].else)
        /\ code[1].op \notin {"climb", "combine"}
        /\ code[1].op = "build" => Precedence(code[1].kind) < 0
    BY <1>1, QuietHead DEF Mute
  <2>2. /\ Quiet(code[1].then \o Tail(code)) /\ Quiet(code[1].else \o Tail(code))
        /\ Quiet(code[1].then \o code)
    BY <1>1, <2>1, QuietConcat
  <2> QED BY <1>1, <2>1, <2>2 DEF Simple
<1>2. CASE Stopping(code)
  <2>1. /\ code[1].op \notin Terminal =>
              /\ Stopping(Tail(code))
              /\ Stopping(code[1].then \o Tail(code)) /\ Stopping(code[1].else \o Tail(code))
              /\ Stopping(code[1].then \o code)
        /\ code[1].op \notin {"climb", "combine", "same"}
        /\ code[1].op = "build" => Precedence(code[1].kind) < 0
    BY <1>2, StoppingHead
  <2> QED BY <2>1 DEF Simple, Terminal
<1>3. CASE Direct(code) /\ NoneBinary(nodes)
  <2>1. /\ Direct(Tail(code)) /\ IsList(Tail(code))
        /\ \/ code[1].op \in {"leaf", "same"}
           \/ code[1].op = "if" /\ code[1].else = <<>> /\ Mute(code[1].then) /\ Ends(code[1].then)
    BY <1>3, DirectHead
  <2>2. \A n : ~Binary(n) => NoneBinary(With(nodes, n))
    BY <1>3, WithNode DEF NoneBinary
  <2>3. nodes # <<>> => ~Binary(Last(nodes))
    BY <1>3, ListFront DEF NoneBinary
  <2>4. ASSUME code[1].op = "if"
        PROVE  /\ Simple(i, code[1].then \o Tail(code), nodes)
               /\ Simple(i, code[1].else \o Tail(code), nodes)
    <3>1. code[1].else = <<>> /\ Mute(code[1].then) /\ Ends(code[1].then)
      BY <2>1, <2>4
    <3>2. Stopping(code[1].then \o Tail(code))
      BY <2>1, <3>1, MuteEnds
    <3>3. code[1].else \o Tail(code) = Tail(code)
      BY <2>1, <3>1, NothingBehind
    <3> QED BY <1>3, <2>1, <3>2, <3>3 DEF Simple
  <2> QED BY <1>3, <2>1, <2>2, <2>3, <2>4 DEF Simple
<1>4. CASE Unary(code, nodes)
  <2>1. /\ code[1].op \in {"want", "if", "report", "call", "need", "build"}
        /\ code[1].op \in {"want", "need"} => Unary(Tail(code), nodes)
        /\ code[1].op = "if" =>
             Unary(code[1].then \o Tail(code), nodes) /\ Unary(code[1].else \o Tail(code), nodes)
        /\ code[1].op = "call" =>
             nodes = <<>> /\ \A some : Len(some) < 2 => Unary(Tail(code), some)
        /\ code[1].op = "build" => Len(nodes) < 2
    BY <1>4, UnaryHead
  <2>2. nodes = <<>> => \A n : Len(With(nodes, n)) < 2
    <3>1. ASSUME nodes = <<>>, NEW n PROVE Len(With(nodes, n)) < 2
      <4>1. Len(With(nodes, n)) = 1
        BY <3>1, WithRoom
      <4> QED BY <4>1
    <3> QED BY <3>1
  <2> QED BY <2>1, <2>2 DEF Simple
<1> QED BY <1>1, <1>2, <1>3, <1>4 DEF Simple

(* The instructions of parseExpr. *)
Climber(min) == Instr("climb", {min}, "", <<>>, <<>>)

LEMMA ExprCodes ==
  ASSUME NEW min
  PROVE  /\ Climber(min)[1].op = "climb" /\ Climber(min)[1].at = {min} /\ Tail(Climber(min)) = <<>>
         /\ \A kind : /\ Combined(kind, min)[1].op = "combine" /\ Combined(kind, min)[1].kind = kind
                      /\ Tail(Combined(kind, min)) = Climber(min)
                      /\ IsList(Combined(kind, min))
         /\ IsList(Cast(min)) /\ Cast(min)[1].op = "call" /\ Cast(min)[1].kind = "type"
         /\ Tail(Cast(min)) = Combined("as", min)
         /\ (Want({"as"}) \o Cast(min))[1].op = "want" /\ Tail(Want({"as"}) \o Cast(min)) = Cast(min)
         /\ IsList(RestOfExpr(min)) /\ RestOfExpr(min)[1].op = "if"
         /\ RestOfExpr(min)[1].then \o Tail(RestOfExpr(min)) = Want({"as"}) \o Cast(min)
         /\ RestOfExpr(min)[1].else \o Tail(RestOfExpr(min)) = Climber(min)
         /\ (Need \o RestOfExpr(min))[1].op = "need" /\ Tail(Need \o RestOfExpr(min)) = RestOfExpr(min)
         /\ (Call("primary") \o (Need \o RestOfExpr(min)))[1].op = "call"
         /\ (Call("primary") \o (Need \o RestOfExpr(min)))[1].kind = "primary"
         /\ Tail(Call("primary") \o (Need \o RestOfExpr(min))) = Need \o RestOfExpr(min)
         /\ parseExpr(min) = Call("primary") \o (Need \o RestOfExpr(min))
<1> DEFINE climb == Climber(min)
           combine(kind) == Instr("combine", {}, kind, <<>>, <<>>)
           then == Want({"as"}) \o Call("type") \o combine("as")
           when == When({"as"}, then)
           rest == RestOfExpr(min)
           cast == Cast(min)
           wanted == Want({"as"}) \o cast
           needed == Need \o rest
           whole == Call("primary") \o needed
<1>1. One(climb) /\ climb[1].op = "climb" /\ climb[1].at = {min}
  BY ListOne DEF Instr, One, Climber
<1>2. Tail(climb) = <<>>
  BY LastIsNothing DEF Climber
<1>3. \A kind : One(combine(kind)) /\ combine(kind)[1].op = "combine" /\ combine(kind)[1].kind = kind
  BY ListOne DEF Instr, One
<1>4. /\ \A kind : Joined(combine(kind), climb, Combined(kind, min))
      /\ Joined(when, climb, rest) /\ Joined(Call("type"), Combined("as", min), cast)
      /\ Joined(Want({"as"}), cast, wanted) /\ Joined(Need, rest, needed)
      /\ Joined(Call("primary"), needed, whole)
  BY DEF Joined, Combined, RestOfExpr, Climber, Cast
<1>5. IsList(climb) /\ \A o : One(o) => IsList(o)
  BY <1>1 DEF One
<1>6. One(when) /\ when[1].op = "if" /\ when[1].then = then /\ when[1].else = <<>>
  <2> HIDE DEF then
  <2> QED BY Ones
<1>7. then \o climb = wanted
  <2> DEFINE w == Want({"as"})
             c == Call("type")
             k == combine("as")
             wc == w \o c
             l == then \o climb
  <2>1. IsList(w) /\ IsList(c) /\ IsList(k) /\ IsList(climb)
    BY <1>3, <1>5, Ones
  <2>2. /\ Joined(w, c, wc) /\ Joined(wc, k, then) /\ Joined(then, climb, l)
        /\ Joined(k, climb, Combined("as", min)) /\ Joined(c, Combined("as", min), cast)
        /\ Joined(w, cast, wanted)
    BY <1>4 DEF Joined
  <2> HIDE DEF w, c, k, wc, l, then, wanted, climb, cast
  <2>3. l = wanted
    BY <2>1, <2>2, JoinedFour
  <2> QED BY <2>3 DEF l
<1>8. parseExpr(min) = whole
  <2> DEFINE c == Call("primary")
             cn == c \o Need
             cnw == cn \o when
             l == cnw \o climb
  <2>1. parseExpr(min) = l
    BY DEF parseExpr, Climber
  <2>2. /\ Joined(c, Need, cn) /\ Joined(cn, when, cnw) /\ Joined(cnw, climb, l)
        /\ Joined(when, climb, rest) /\ Joined(Need, rest, needed) /\ Joined(c, needed, whole)
    BY <1>4 DEF Joined
  <2>3. IsList(c) /\ IsList(Need) /\ IsList(when) /\ IsList(climb)
    BY <1>5, <1>6, Ones
  <2> HIDE DEF c, cn, cnw, l, when, climb, whole, rest, needed
  <2>4. l = whole
    BY <2>2, <2>3, JoinedFour
  <2> QED BY <2>1, <2>4
<1> HIDE DEF climb, combine, then, when, rest, cast, wanted, needed, whole
<1>9. \A kind : /\ Combined(kind, min)[1].op = "combine" /\ Combined(kind, min)[1].kind = kind
                /\ Tail(Combined(kind, min)) = climb /\ IsList(Combined(kind, min))
  BY <1>3, <1>4, <1>5, JoinedFirst
<1>10. /\ IsList(cast) /\ cast[1].op = "call" /\ cast[1].kind = "type"
       /\ Tail(cast) = Combined("as", min)
  BY <1>4, <1>9, Ones, JoinedFirst
<1>11. wanted[1].op = "want" /\ Tail(wanted) = cast
  BY <1>4, <1>10, Ones, JoinedFirst
<1>12. /\ IsList(rest) /\ rest[1].op = "if" /\ rest[1].then = then /\ rest[1].else = <<>>
       /\ Tail(rest) = climb
  BY <1>4, <1>5, <1>6, JoinedFirst
<1>13. IsList(needed) /\ needed[1].op = "need" /\ Tail(needed) = rest
  BY <1>4, <1>12, Ones, JoinedFirst
<1>14. whole[1].op = "call" /\ whole[1].kind = "primary" /\ Tail(whole) = needed
  BY <1>4, <1>13, Ones, JoinedFirst
<1>15. rest[1].then \o Tail(rest) = wanted /\ rest[1].else \o Tail(rest) = climb
  <2>1. <<>> \o climb = climb
    BY <1>5, NothingBehind
  <2> QED BY <1>7, <1>12, <2>1
<1> QED BY <1>1, <1>2, <1>8, <1>9, <1>10, <1>11, <1>12, <1>13, <1>14, <1>15
        DEF rest, climb, cast, wanted, needed, whole

LEMMA RightCodes ==
  ASSUME NEW min, NEW kind
  PROVE  /\ IsList(Right(kind, min)) /\ Right(kind, min)[1].op = "call"
         /\ Right(kind, min)[1].kind = "expr" /\ Right(kind, min)[1].at = {Precedence(kind) + 1}
         /\ Tail(Right(kind, min)) = Need \o Combined(kind, min)
         /\ (Need \o Combined(kind, min))[1].op = "need"
         /\ Tail(Need \o Combined(kind, min)) = Combined(kind, min)
         /\ (Want({kind}) \o Right(kind, min))[1].op = "want"
         /\ Tail(Want({kind}) \o Right(kind, min)) = Right(kind, min)
<1> DEFINE combined == Combined(kind, min)
           needed == Need \o combined
           right == Right(kind, min)
           wanted == Want({kind}) \o right
           expr == Expr(Precedence(kind) + 1)
<1>1. IsList(combined)
  BY ExprCodes
<1>2. Joined(Need, combined, needed) /\ Joined(expr, needed, right) /\ Joined(Want({kind}), right, wanted)
  BY DEF Joined, Right
<1>3. One(expr) /\ expr[1].op = "call" /\ expr[1].kind = "expr" /\ expr[1].at = {Precedence(kind) + 1}
  BY Ones
<1> HIDE DEF combined, needed, right, wanted, expr
<1>4. IsList(needed) /\ needed[1].op = "need" /\ Tail(needed) = combined
  BY <1>1, <1>2, Ones, JoinedFirst
<1>5. /\ IsList(right) /\ right[1].op = "call" /\ right[1].kind = "expr"
      /\ right[1].at = {Precedence(kind) + 1} /\ Tail(right) = needed
  BY <1>2, <1>3, <1>4, JoinedFirst
<1>6. wanted[1].op = "want" /\ Tail(wanted) = right
  BY <1>2, <1>5, Ones, JoinedFirst
<1> QED BY <1>4, <1>5, <1>6 DEF combined, needed, right, wanted

LEMMA CombinedCode ==
  ASSUME NEW kind, NEW min
  PROVE  /\ Combined(kind, min)[1].op = "combine" /\ Combined(kind, min)[1].kind = kind
         /\ Tail(Combined(kind, min)) = Climber(min)
<1> DEFINE climb == Climber(min)
           combine == Instr("combine", {}, kind, <<>>, <<>>)
           combined == Combined(kind, min)
<1>1. One(combine) /\ combine[1].op = "combine" /\ combine[1].kind = kind
  BY ListOne DEF Instr, One
<1>2. IsList(climb)
  BY ListOne DEF Instr, Climber
<1>3. Joined(combine, climb, combined)
  BY DEF Joined, Combined, Climber
<1> HIDE DEF climb, combine, combined
<1>4. combined[1] = combine[1] /\ Tail(combined) = climb
  BY <1>1, <1>2, <1>3, JoinedFirst
<1> QED BY <1>1, <1>4 DEF climb, combined

LEMMA OperandSteps ==
  ASSUME NEW min, NEW code, NEW nodes, NEW p, AtOperand(min, code, nodes),
         IsList(nodes), Len(nodes) <= MaxNodes
  PROVE  /\ code[1].op \in {"want", "need", "if", "call", "combine"}
         /\ code[1].op \in {"want", "need"} => \A q : InExpr(min, Tail(code), nodes, q)
         /\ code[1].op = "if" => /\ InExpr(min, code[1].then \o Tail(code), nodes, p)
                                 /\ InExpr(min, code[1].else \o Tail(code), nodes, p)
         /\ code[1].op = "call" =>
              \A n, q : Yields(code[1], n, q) => InExpr(min, Tail(code), With(nodes, n), q)
         /\ code[1].op = "combine" =>
              /\ Climbs(Node(code[1].kind, nodes))
              /\ InExpr(min, Tail(code), <<Node(code[1].kind, nodes)>>, p)
<1> DEFINE rest == RestOfExpr(min)
           needed == Need \o rest
           cast == Cast(min)
           wanted == Want({"as"}) \o cast
           combined == Combined("as", min)
           whole == Call("primary") \o needed
           Lone == Len(nodes) = 1 /\ ~Binary(nodes[1])
<1>1. /\ nodes = <<>> => \A n : Len(With(nodes, n)) = 1 /\ With(nodes, n)[1] = n
      /\ IsList(nodes)
  BY WithRoom
<1>2. \/ nodes = <<>> /\ code = whole
      \/ Lone /\ (code = needed \/ code = rest \/ code = wanted \/ code = cast)
      \/ code = combined
  BY DEF AtOperand
<1>3. /\ \A some, q : Len(some) = 1 /\ ~Binary(some[1]) =>
           /\ InExpr(min, needed, some, q) /\ InExpr(min, rest, some, q)
           /\ InExpr(min, wanted, some, q) /\ InExpr(min, cast, some, q)
           /\ InExpr(min, Climber(min), some, q)
      /\ \A some, q : InExpr(min, combined, some, q)
  <2>1. \A some, q : Len(some) = 1 /\ ~Binary(some[1]) =>
          /\ InExpr(min, needed, some, q) /\ InExpr(min, rest, some, q)
          /\ InExpr(min, wanted, some, q) /\ InExpr(min, cast, some, q)
    BY DEF InExpr, AtOperand
  <2>2. \A some, q : Len(some) = 1 /\ ~Binary(some[1]) => InExpr(min, Climber(min), some, q)
    BY DEF InExpr, AtOperator, Climber
  <2>3. \A some, q : InExpr(min, combined, some, q)
    BY DEF InExpr, AtOperand
  <2> QED BY <2>1, <2>2, <2>3
<1>4. /\ combined[1].op = "combine" /\ combined[1].kind = "as" /\ Tail(combined) = Climber(min)
      /\ cast[1].op = "call" /\ cast[1].kind = "type" /\ Tail(cast) = combined
      /\ wanted[1].op = "want" /\ Tail(wanted) = cast
      /\ rest[1].op = "if" /\ needed[1].op = "need" /\ Tail(needed) = rest
      /\ rest[1].then \o Tail(rest) = wanted /\ rest[1].else \o Tail(rest) = Climber(min)
      /\ whole[1].op = "call" /\ whole[1].kind = "primary" /\ Tail(whole) = needed
  <2>1. combined[1].op = "combine" /\ combined[1].kind = "as" /\ Tail(combined) = Climber(min)
    BY CombinedCode
  <2>2. cast[1].op = "call" /\ cast[1].kind = "type" /\ Tail(cast) = combined
    BY ExprCodes
  <2>3. wanted[1].op = "want" /\ Tail(wanted) = cast
    BY ExprCodes
  <2>4. rest[1].op = "if" /\ needed[1].op = "need" /\ Tail(needed) = rest
    BY ExprCodes
  <2>5. rest[1].then \o Tail(rest) = wanted /\ rest[1].else \o Tail(rest) = Climber(min)
    BY ExprCodes
  <2>6. whole[1].op = "call" /\ whole[1].kind = "primary" /\ Tail(whole) = needed
    BY ExprCodes
  <2> QED BY <2>1, <2>2, <2>3, <2>4, <2>5, <2>6
<1> HIDE DEF rest, needed, cast, wanted, combined, whole
<1>5. ASSUME nodes = <<>>, code = whole
      PROVE  \A n, q : Yields(code[1], n, q) => InExpr(min, Tail(code), With(nodes, n), q)
  <2> SUFFICES ASSUME NEW n, NEW q, Yields(code[1], n, q)
               PROVE  InExpr(min, Tail(code), With(nodes, n), q)
    OBVIOUS
  <2> DEFINE more == With(nodes, n)
  <2>1. Len(more) = 1 /\ more[1] = n
    BY <1>1, <1>5
  <2>2. ~Binary(n)
    BY <1>4, <1>5 DEF Yields
  <2> HIDE DEF more
  <2>3. InExpr(min, needed, more, q)
    BY <1>3, <2>1, <2>2
  <2> QED BY <1>4, <1>5, <2>3 DEF more
<1>6. ASSUME code = combined
      PROVE  /\ Climbs(Node(code[1].kind, nodes))
             /\ InExpr(min, Tail(code), <<Node(code[1].kind, nodes)>>, p)
  <2> DEFINE n == Node("as", nodes)
             o == <<n>>
  <2>1. ~Binary(n) /\ Climbs(n)
    BY PlainNode, Precedences
  <2>2. Len(o) = 1 /\ o[1] = n
    BY ListOne
  <2> HIDE DEF o
  <2>3. InExpr(min, Climber(min), o, p)
    <3> HIDE DEF n
    <3> QED BY <1>3, <2>1, <2>2
  <2> QED BY <1>4, <1>6, <2>1, <2>3 DEF o
<1>7. ASSUME Lone, code = needed \/ code = rest \/ code = wanted \/ code = cast
      PROVE  /\ code[1].op \in {"want", "need", "if", "call"}
             /\ code[1].op \in {"want", "need"} => \A q : InExpr(min, Tail(code), nodes, q)
             /\ code[1].op = "if" => /\ InExpr(min, code[1].then \o Tail(code), nodes, p)
                                     /\ InExpr(min, code[1].else \o Tail(code), nodes, p)
             /\ code[1].op = "call" =>
                  \A n, q : Yields(code[1], n, q) => InExpr(min, Tail(code), With(nodes, n), q)
  <2>1. CASE code = needed
    BY <1>3, <1>4, <1>7, <2>1
  <2>2. CASE code = rest
    BY <1>3, <1>4, <1>7, <2>2
  <2>3. CASE code = wanted
    BY <1>3, <1>4, <1>7, <2>3
  <2>4. CASE code = cast
    BY <1>3, <1>4, <2>4
  <2> QED BY <1>7, <2>1, <2>2, <2>3, <2>4
<1>8. CASE nodes = <<>> /\ code = whole
  BY <1>4, <1>5, <1>8
<1>9. CASE code = combined
  <2>1. code[1].op = "combine"
    BY <1>4, <1>9
  <2> QED BY <1>6, <1>9, <2>1
<1>10. CASE Lone /\ (code = needed \/ code = rest \/ code = wanted \/ code = cast)
  <2>1. code[1].op # "combine"
    BY <1>7, <1>10
  <2> QED BY <1>7, <1>10, <2>1
<1> QED BY <1>2, <1>8, <1>9, <1>10

LEMMA RightSteps ==
  ASSUME NEW min, NEW code, NEW nodes, NEW p \in Int, AtRight(min, code, nodes, p),
         IsList(nodes), Len(nodes) <= MaxNodes
  PROVE  /\ code[1].op \in {"want", "need", "call", "combine"}
         /\ code[1].op = "want" => \A q : InExpr(min, Tail(code), nodes, q)
         /\ code[1].op = "need" => InExpr(min, Tail(code), nodes, p)
         /\ code[1].op = "call" =>
              \A n : \A q \in Int : Yields(code[1], n, q) => InExpr(min, Tail(code), With(nodes, n), q)
         /\ code[1].op = "combine" =>
              /\ Climbs(Node(code[1].kind, nodes))
              /\ InExpr(min, Tail(code), <<Node(code[1].kind, nodes)>>, p)
<1>1. PICK kind :
        /\ ~(Precedence(kind) < min) /\ BindsOn(nodes[1], kind)
        /\ \/ Len(nodes) = 1 /\ code \in {Want({kind}) \o Right(kind, min), Right(kind, min)}
           \/ /\ Len(nodes) = 2 /\ (Binary(nodes[2]) => Precedence(nodes[2].kind) > Precedence(kind))
              /\ p <= Precedence(kind)
              /\ code \in {Need \o Combined(kind, min), Combined(kind, min)}
  BY DEF AtRight
<1> DEFINE combined == Combined(kind, min)
           needed == Need \o combined
           right == Right(kind, min)
           wanted == Want({kind}) \o right
<1>2. /\ combined[1].op = "combine" /\ combined[1].kind = kind /\ Tail(combined) = Climber(min)
      /\ right[1].op = "call" /\ right[1].kind = "expr" /\ right[1].at = {Precedence(kind) + 1}
      /\ Tail(right) = needed /\ needed[1].op = "need" /\ Tail(needed) = combined
      /\ wanted[1].op = "want" /\ Tail(wanted) = right
  <2>1. /\ combined[1].op = "combine" /\ combined[1].kind = kind /\ Tail(combined) = Climber(min)
    BY CombinedCode
  <2>2. /\ right[1].op = "call" /\ right[1].kind = "expr" /\ right[1].at = {Precedence(kind) + 1}
        /\ Tail(right) = needed
    BY RightCodes
  <2>3. needed[1].op = "need" /\ Tail(needed) = combined
    BY RightCodes
  <2>4. wanted[1].op = "want" /\ Tail(wanted) = right
    BY RightCodes
  <2> QED BY <2>1, <2>2, <2>3, <2>4
<1>3. \A some, q : Len(some) = 2 /\ BindsOn(some[1], kind) /\ q <= Precedence(kind)
                   /\ (Binary(some[2]) => Precedence(some[2].kind) > Precedence(kind))
                   => InExpr(min, needed, some, q) /\ InExpr(min, combined, some, q)
  BY <1>1 DEF InExpr, AtRight
<1>4. \A q : Len(nodes) = 1 => InExpr(min, right, nodes, q)
  BY <1>1 DEF InExpr, AtRight
<1>5. Precedence(kind) \in Int /\ \A n : Precedence(n.kind) \in Int
  BY Precedences
<1>6. /\ Len(nodes) = 1 /\ (code = wanted \/ code = right)
      \/ /\ Len(nodes) = 2 /\ (Binary(nodes[2]) => Precedence(nodes[2].kind) > Precedence(kind))
         /\ p <= Precedence(kind) /\ (code = needed \/ code = combined)
  BY <1>1
<1> HIDE DEF combined, needed, right, wanted
<1>7. ASSUME code = right, Len(nodes) = 1, NEW n, NEW q \in Int, Yields(code[1], n, q)
      PROVE  InExpr(min, Tail(code), With(nodes, n), q)
  <2>1. Minimal(code[1]) = Precedence(kind) + 1
    <3>1. (CHOOSE precedence \in {Precedence(kind) + 1} : TRUE) = Precedence(kind) + 1
      OBVIOUS
    <3> QED BY <1>2, <1>7, <3>1 DEF Minimal
  <2>2. (Binary(n) => ~(Precedence(n.kind) < Precedence(kind) + 1)) /\ q < Precedence(kind) + 1
    BY <1>2, <1>7, <2>1 DEF Yields
  <2>3. (Binary(n) => Precedence(n.kind) > Precedence(kind)) /\ q <= Precedence(kind)
    BY <1>5, <2>2
  <2>4. /\ Len(With(nodes, n)) = 2 /\ With(nodes, n)[2] = n
        /\ With(nodes, n)[1] = nodes[1]
    <3> DEFINE more == With(nodes, n)
    <3>1. 1 \in 1 .. Len(nodes)
      BY <1>7
    <3>2. Len(more) = 2 /\ more[2] = n
      BY <1>7, WithRoom
    <3>3. \A k \in 1 .. Len(nodes) : more[k] = nodes[k]
      BY WithRoom
    <3> HIDE DEF more
    <3> QED BY <3>1, <3>2, <3>3 DEF more
  <2>5. InExpr(min, needed, With(nodes, n), q)
    BY <1>1, <1>3, <2>3, <2>4
  <2> QED BY <1>2, <1>7, <2>5
<1>8. ASSUME code = combined, Len(nodes) = 2, p <= Precedence(kind),
             Binary(nodes[2]) => Precedence(nodes[2].kind) > Precedence(kind)
      PROVE  /\ Climbs(Node(code[1].kind, nodes))
             /\ InExpr(min, Tail(code), <<Node(code[1].kind, nodes)>>, p)
  <2> DEFINE n == Node(kind, nodes)
             o == <<n>>
  <2>1. n.kind = kind /\ n.children = nodes
    BY DEF Node
  <2>2. Len(o) = 1 /\ o[1] = n
    BY ListOne
  <2> HIDE DEF n, o
  <2>3. Climbs(n)
    BY <1>1, <1>8, <2>1 DEF Climbs, BindsOn
  <2>4. InExpr(min, Climber(min), o, p)
    BY <1>1, <1>8, <2>1, <2>2 DEF InExpr, AtOperator, Climber
  <2> QED BY <1>2, <1>8, <2>3, <2>4 DEF n, o
<1>9. CASE Len(nodes) = 1 /\ code = wanted
  BY <1>2, <1>4, <1>9
<1>10. CASE Len(nodes) = 1 /\ code = right
  BY <1>2, <1>7, <1>10
<1>11. CASE /\ Len(nodes) = 2 /\ (Binary(nodes[2]) => Precedence(nodes[2].kind) > Precedence(kind))
            /\ p <= Precedence(kind) /\ code = needed
  BY <1>1, <1>2, <1>3, <1>11
<1>12. CASE /\ Len(nodes) = 2 /\ (Binary(nodes[2]) => Precedence(nodes[2].kind) > Precedence(kind))
            /\ p <= Precedence(kind) /\ code = combined
  <2>1. code[1].op = "combine"
    BY <1>2, <1>12
  <2> QED BY <1>8, <1>12, <2>1
<1> QED BY <1>6, <1>9, <1>10, <1>11, <1>12

(* A call of parseExpr goes on, ... *)
LEMMA ExprSteps ==
  ASSUME NEW min, NEW code, NEW nodes, NEW p \in Int, InExpr(min, code, nodes, p),
         IsList(nodes), Len(nodes) <= MaxNodes
  PROVE  /\ code[1].op \in {"want", "need", "if", "call", "combine", "climb", "same"}
         /\ code[1].op = "want" => \A q : InExpr(min, Tail(code), nodes, q)
         /\ code[1].op = "need" => InExpr(min, Tail(code), nodes, p)
         /\ code[1].op = "if" => /\ InExpr(min, code[1].then \o Tail(code), nodes, p)
                                 /\ InExpr(min, code[1].else \o Tail(code), nodes, p)
         /\ code[1].op = "call" =>
              \A n : \A q \in Int : Yields(code[1], n, q) => InExpr(min, Tail(code), With(nodes, n), q)
         /\ code[1].op = "combine" =>
              /\ Climbs(Node(code[1].kind, nodes))
              /\ InExpr(min, Tail(code), <<Node(code[1].kind, nodes)>>, p)
         /\ code[1].op = "climb" =>
              /\ Tail(code) = <<>> /\ code[1].at = {min} /\ Len(nodes) = 1
              /\ Binary(nodes[1]) => /\ ~(Precedence(nodes[1].kind) < min)
                                     /\ p <= Precedence(nodes[1].kind)
         /\ code[1].op = "same" =>
              /\ Len(nodes) = 1 /\ p < min
              /\ Binary(nodes[1]) => ~(Precedence(nodes[1].kind) < min)
<1>1. CASE AtOperand(min, code, nodes)
  BY <1>1, OperandSteps
<1>2. CASE AtRight(min, code, nodes, p)
  BY <1>2, RightSteps
<1>3. CASE AtOperator(min, code, nodes, p)
  <2>1. /\ Len(nodes) = 1 /\ (Binary(nodes[1]) => ~(Precedence(nodes[1].kind) < min))
        /\ \/ code = Climber(min) /\ (Binary(nodes[1]) => p <= Precedence(nodes[1].kind))
           \/ code = Same /\ p < min
    BY <1>3 DEF AtOperator, Climber
  <2>2. Climber(min)[1].op = "climb" /\ Climber(min)[1].at = {min} /\ Tail(Climber(min)) = <<>>
    BY ExprCodes
  <2>3. Same[1].op = "same"
    BY Ones
  <2>4. CASE code = Climber(min) /\ (Binary(nodes[1]) => p <= Precedence(nodes[1].kind))
    BY <2>1, <2>2, <2>4
  <2>5. CASE code = Same /\ p < min
    BY <2>1, <2>3, <2>5
  <2> QED BY <2>1, <2>4, <2>5
<1> QED BY <1>1, <1>2, <1>3 DEF InExpr

(* ... and meets the next operator. *)
LEMMA ExprClimbs ==
  ASSUME NEW min, NEW nodes, Len(nodes) = 1,
         Binary(nodes[1]) => /\ ~(Precedence(nodes[1].kind) < min)
                             /\ Precedence(currentToken) <= Precedence(nodes[1].kind)
  PROVE  InExpr(min, Climb(min), nodes, Precedence(currentToken))
<1>1. CASE Precedence(currentToken) < min
  <2>1. Climb(min) = Same
    BY <1>1 DEF Climb
  <2> QED BY <1>1, <2>1 DEF InExpr, AtOperator
<1>2. CASE ~(Precedence(currentToken) < min)
  <2> DEFINE kind == currentToken
             w == Want({kind})
             e == Expr(Precedence(kind) + 1)
             k == Instr("combine", {}, kind, <<>>, <<>>)
             c == Climber(min)
  <2>1. Climb(min) = w \o e \o Need \o k \o c
    BY <1>2 DEF Climb, Climber
  <2>2. Right(kind, min) = e \o (Need \o (k \o c))
    BY DEF Right, Combined, Climber
  <2>3. IsList(w) /\ IsList(e) /\ IsList(Need)
    BY Ones DEF One
  <2>4. IsList(k) /\ IsList(c)
    BY ListOne DEF Instr, Climber
  <2>5. Climb(min) = w \o Right(kind, min)
    <3> DEFINE we == w \o e
               wen == we \o Need
               wenk == wen \o k
               l == wenk \o c
               kc == k \o c
               nkc == Need \o kc
               r == e \o nkc
               s == w \o r
    <3>1. Climb(min) = l /\ Right(kind, min) = r
      BY <2>1, <2>2
    <3>2. Joined(we, Need, wen) /\ Joined(wen, k, wenk) /\ Joined(wenk, c, l)
          /\ Joined(k, c, kc) /\ Joined(Need, kc, nkc)
      BY DEF Joined
    <3>3. IsList(we)
      BY <2>3, Concats
    <3>4. IsList(nkc)
      <4>1. IsList(kc)
        BY <2>4, Concats
      <4> HIDE DEF kc
      <4> QED BY <2>3, <4>1, Concats
    <3>5. l = we \o nkc
      <4> DEFINE m == we \o nkc
      <4>1. Joined(we, nkc, m)
        BY DEF Joined
      <4> HIDE DEF m, we, wen, wenk, l, kc, nkc, k, c
      <4>2. l = m
        BY <2>3, <2>4, <3>2, <3>3, <4>1, JoinedFour
      <4> QED BY <4>2 DEF m
    <3>6. we \o nkc = s
      <4> HIDE DEF w, e, nkc
      <4> QED BY <2>3, <3>4, ConcatAssociates
    <3> QED BY <3>1, <3>5, <3>6
  <2> HIDE DEF w, e, k, c
  <2>6. ~(Precedence(kind) < min) /\ BindsOn(nodes[1], kind)
    <3>1. \A n : Precedence(n.kind) \in Int
      BY Precedences
    <3>2. Precedence(kind) \in Int
      BY Precedences
    <3> QED BY <1>2, <3>1, <3>2 DEF BindsOn
  <2>7. AtRight(min, w \o Right(kind, min), nodes, Precedence(kind))
    <3> HIDE DEF kind
    <3> QED BY <2>6 DEF AtRight, w
  <2> QED BY <2>5, <2>7 DEF InExpr
<1> QED BY <1>1, <1>2

-------------------------------------------------------------------------------
(* The routines, when they begin                                           *)

(* What a name's followers end in. *)
LEMMA RoutineEnds == Ends(parseMacroCall) /\ Ends(parseFunCall) /\ Ends(parseArrayAccessExpr)
<1>1. \A kind : IsList(Build(kind)) /\ Ends(Build(kind))
  BY Ones, LastInstruction DEF One
<1>2. Mute(Call("primary")) /\ \A S : Mute(Want(S))
  BY MuteInstructions DEF RoutineNames
<1>3. ASSUME NEW s, Mute(s), NEW kind PROVE Ends(s \o Build(kind))
  BY <1>1, <1>3, QuietIsList, EndsLast DEF Mute
<1> USE <1>2, MuteNothing, MuteInstructions, MuteRules
<1>4. Ends(parseMacroCall)
  <2> DEFINE s == Want({"!"}) \o Expect("(")
                  \o When({"string"}, Leaf \o If({")"}, <<>>, Expect(",")))
                  \o Until({")"}, When({"eof"}, Report \o NullReturn)
                                  \o Expr(0) \o Need \o If({")"}, <<>>, Expect(",")))
                  \o Want({")"})
  <2>1. Mute(s)
    OBVIOUS
  <2>2. parseMacroCall = s \o Build("macro")
    BY DEF parseMacroCall
  <2> HIDE DEF s
  <2> QED BY <1>3, <2>1, <2>2
<1>5. Ends(parseFunCall)
  <2> DEFINE s == Want({"("}) \o If({")"}, <<>>, Separated(Expr(0))) \o Want({")"})
  <2>1. Mute(s)
    BY DEF Separated
  <2>2. parseFunCall = s \o Build("funcall")
    BY DEF parseFunCall
  <2> HIDE DEF s
  <2> QED BY <1>3, <2>1, <2>2
<1>6. Ends(parseArrayAccessExpr)
  <2> DEFINE s == While({"["}, Want({"["}) \o Call("primary") \o Want({"]"}))
  <2>1. Mute(s)
    OBVIOUS
  <2>2. parseArrayAccessExpr = s \o Build("access")
    BY DEF parseArrayAccessExpr
  <2> HIDE DEF s
  <2> QED BY <1>3, <2>1, <2>2
<1> QED BY <1>4, <1>5, <1>6

LEMMA DirectConcat ==
  \A s, t : Direct(s) /\ Direct(t) => Direct(s \o t)
<1> SUFFICES ASSUME NEW s, Direct(s), NEW t, Direct(t)
             PROVE  Direct(s \o t)
  OBVIOUS
<1>1. PICK I : s \in Seq(I) /\ DirectSet(I)
  BY DEF Direct
<1>2. PICK J : t \in Seq(J) /\ DirectSet(J)
  BY DEF Direct
<1>3. s \in Seq(I \cup J) /\ t \in Seq(I \cup J)
  BY <1>1, <1>2, SeqInUnion
<1>4. DirectSet(I \cup J)
  BY <1>1, <1>2 DEF DirectSet
<1>5. s \o t \in Seq(I \cup J)
  BY <1>3, ConcatProperties
<1> QED BY <1>4, <1>5 DEF Direct

LEMMA DirectInstructions ==
  /\ Direct(Leaf) /\ Direct(Same)
  /\ \A S, then : Mute(then) /\ Ends(then) => Direct(When(S, then))
<1>1. ASSUME NEW i, \/ i.op \in {"leaf", "same"}
                    \/ i.op = "if" /\ i.else = <<>> /\ Mute(i.then) /\ Ends(i.then)
      PROVE  Direct(<<i>>)
  <2>1. DirectSet({i})
    BY <1>1 DEF DirectSet
  <2>2. <<i>> \in Seq({i})
    OBVIOUS
  <2> QED BY <2>1, <2>2 DEF Direct
<1>2. Direct(Leaf)
  BY <1>1 DEF Leaf, Do, Instr
<1>3. Direct(Same)
  BY <1>1 DEF Same, Do, Instr
<1>4. \A S, then : Mute(then) /\ Ends(then) => Direct(When(S, then))
  BY <1>1 DEF When, If, Instr
<1> QED BY <1>2, <1>3, <1>4

LEMMA IdleInstructions ==
  /\ Idle(Report) /\ \A S : Idle(Want(S))
  /\ \A S, s, t : Idle(s) /\ Idle(t) => Idle(If(S, s, t)) /\ Idle(When(S, s))
<1>1. Idle(<<>>)
  <2>1. <<>> \in Seq({})
    BY EmptySeq
  <2> QED BY <2>1 DEF Idle, IdleSet
<1>2. Idle(Report) /\ \A S : Idle(Want(S))
  BY <1>1, IdleInstr DEF Report, Do, Want
<1>3. \A S, s, t : Idle(s) /\ Idle(t) => Idle(If(S, s, t))
  BY IdleInstr DEF If
<1>4. \A S, s : Idle(s) => Idle(When(S, s))
  BY <1>1, <1>3 DEF When
<1> QED BY <1>2, <1>3, <1>4

(* An operand of a unary operator, behind idle code. *)
LEMMA UnaryCodes ==
  ASSUME NEW a, Idle(a), NEW routine \in RoutineNames, NEW kind
  PROVE  /\ Unary(a \o Call(routine) \o Need \o Build(kind), <<>>)
         /\ Unary(a \o Call(routine) \o Build(kind), <<>>)
<1> DEFINE c == Call(routine)
           b == Build(kind)
           ac == a \o c
           acn == ac \o Need
           l == acn \o b
           nb == Need \o b
           cnb == c \o nb
           r == a \o cnb
<1>1. Joined(a, c, ac) /\ Joined(ac, Need, acn) /\ Joined(acn, b, l)
      /\ Joined(Need, b, nb) /\ Joined(c, nb, cnb) /\ Joined(a, cnb, r)
  BY DEF Joined
<1>2. IsList(a) /\ IsList(c) /\ IsList(Need) /\ IsList(b)
  BY IdleHead, Ones DEF One
<1>3. l = r
  <2> HIDE DEF c, b, ac, acn, l, nb, cnb, r
  <2> QED BY <1>1, <1>2, JoinedFour
<1>4. (a \o c) \o b = a \o (c \o b)
  <2> HIDE DEF c, b
  <2> QED BY <1>2, ConcatAssociates
<1>5. Unary(r, <<>>) /\ Unary(a \o (c \o b), <<>>)
  BY DEF Unary
<1> QED BY <1>3, <1>4, <1>5

LEMMA PrimaryIsSimple ==
  ASSUME NEW i, i.kind = "primary", currentToken # "("
  PROVE  Simple(i, parsePrimary, <<>>)
<1> DEFINE token == currentToken
           after == Leaf \o When({"!"}, parseMacroCall) \o When({"("}, parseFunCall)
                    \o When({"["}, parseArrayAccessExpr)
           reference == Want({"&"}) \o When({"mut"}, Want({"mut"}))
<1>1. \A code : Direct(code) => Simple(i, code, <<>>)
  <2>1. 1 .. Len(<<>>) = {}
    BY ListEmpty
  <2>2. NoneBinary(<<>>)
    BY <2>1 DEF NoneBinary
  <2> QED BY <2>2 DEF Simple
<1>2. \A code : Mute(code) /\ Ends(code) => Simple(i, code, <<>>)
  <2>1. \A code : Mute(code) /\ Ends(code) => Stopping(code)
    BY MuteEnds, ListEmpty
  <2> QED BY <2>1 DEF Simple
<1>3. \A code : Unary(code, <<>>) => Simple(i, code, <<>>)
  BY DEF Simple
<1>4. CASE token \in {"float", "string", "int", "true", "false"}
  <2>1. Direct(Leaf \o Same)
    BY DirectInstructions, DirectConcat
  <2>2. parsePrimary = Leaf \o Same
    BY <1>4 DEF parsePrimary
  <2> QED BY <1>1, <2>1, <2>2
<1>5. CASE token = "ident"
  <2>1. Ends(parseMacroCall) /\ Ends(parseFunCall) /\ Ends(parseArrayAccessExpr)
    BY RoutineEnds
  <2>2. /\ Direct(When({"!"}, parseMacroCall)) /\ Direct(When({"("}, parseFunCall))
        /\ Direct(When({"["}, parseArrayAccessExpr))
    BY <2>1, MuteRoutines, DirectInstructions
  <2>3. Direct(after \o Same)
    BY <2>2, DirectInstructions, DirectConcat
  <2>4. parsePrimary = after \o Same
    BY <1>5 DEF parsePrimary
  <2> QED BY <1>1, <2>3, <2>4
<1>6. CASE token = "["
  <2>1. Mute(parseArray) /\ Ends(parseArray)
    BY MuteRoutines, ArrayLiteral DEF Body
  <2>2. parsePrimary = parseArray
    BY <1>6 DEF parsePrimary
  <2> QED BY <1>2, <2>1, <2>2
<1>7. CASE token \in {"-", "!"}
  <2>1. Idle(Want({token})) /\ "primary" \in RoutineNames
    BY IdleInstructions DEF RoutineNames
  <2>2. parsePrimary = Want({token}) \o Call("primary") \o Need \o Build(token)
    BY <1>7 DEF parsePrimary
  <2>3. Unary(Want({token}) \o Call("primary") \o Need \o Build(token), <<>>)
    <3> HIDE DEF token
    <3> QED BY <2>1, UnaryCodes
  <2> QED BY <1>3, <2>2, <2>3
<1>8. CASE token = "&"
  <2>1. Idle(reference) /\ "primary" \in RoutineNames
    BY IdleInstructions, IdleConcat DEF RoutineNames
  <2>2. parsePrimary = reference \o Call("primary") \o Build("&")
    BY <1>8 DEF parsePrimary
  <2>3. Unary(reference \o Call("primary") \o Build("&"), <<>>)
    <3> HIDE DEF reference
    <3> QED BY <2>1, UnaryCodes
  <2> QED BY <1>3, <2>2, <2>3
<1>9. CASE token \notin {"float", "string", "int", "true", "false", "ident", "(", "[", "-", "!", "&"}
  <2>1. parsePrimary = Report \o NullReturn
    BY <1>9 DEF parsePrimary
  <2>2. Mute(Report \o NullReturn)
    BY MuteInstructions, MuteRules
  <2>3. Ends(Report \o NullReturn)
    <3>1. IsList(Report) /\ IsList(NullReturn) /\ Ends(NullReturn)
      BY MuteInstructions, QuietIsList, LastInstruction DEF Mute
    <3> QED BY <3>1, EndsLast
  <2> QED BY <1>2, <2>1, <2>2, <2>3
<1> QED BY <1>4, <1>5, <1>6, <1>7, <1>8, <1>9

LEMMA TypeIsSimple ==
  ASSUME NEW i, i.kind # "primary"
  PROVE  Simple(i, parseType, <<>>)
<1> DEFINE pointer == Want({"*"}) \o If({"mut", "const"}, Want({"mut", "const"}), Report)
           reference == Want({"&"}) \o When({"mut"}, Want({"mut"}))
           array == Want({"["}) \o Call("type") \o Need \o Expect(";") \o Require("int") \o Leaf
                    \o Expect("]") \o Build("arraytype")
           name == Require("ident") \o Leaf \o Same
<1>1. /\ Unary(pointer \o Call("type") \o Need \o Build("*"), <<>>)
      /\ Unary(reference \o Call("type") \o Need \o Build("&"), <<>>)
  <2>1. Idle(pointer) /\ Idle(reference) /\ "type" \in RoutineNames
    BY IdleInstructions, IdleConcat DEF RoutineNames
  <2> HIDE DEF pointer, reference
  <2> QED BY <2>1, UnaryCodes
<1>2. Quiet(array)
  <2>1. Mute(Call("type")) /\ Mute(Build("arraytype"))
    BY MuteInstructions, Precedences DEF RoutineNames
  <2>2. Mute(array)
    BY <2>1, MuteInstructions, MuteRules
  <2> QED BY <2>2 DEF Mute
<1>3. Quiet(name)
  <2>1. Mute(Require("ident") \o Leaf)
    BY MuteInstructions, MuteRules
  <2>2. Quiet(Require("ident") \o Leaf) /\ Quiet(Same)
    BY <2>1, MuteInstructions DEF Mute
  <2> QED BY <2>2, QuietConcat
<1>4. \/ parseType = pointer \o Call("type") \o Need \o Build("*")
      \/ parseType = reference \o Call("type") \o Need \o Build("&")
      \/ parseType = array
      \/ parseType = name
  BY DEF parseType
<1> HIDE DEF pointer, reference, array, name
<1> QED BY <1>1, <1>2, <1>3, <1>4 DEF Simple

LEMMA TidyRoutines ==
  ASSUME NEW i, i.kind \in RoutineNames, currentToken # "(", NEW p
  PROVE  Tidy(i, Routine(i), <<>>, p)
<1>1. ShapedAll(<<>>)
  BY ShapedNothing
<1>2. CASE i.kind = "primary"
  <2>1. Routine(i) = parsePrimary
    BY <1>2 DEF Routine
  <2> QED BY <1>1, <1>2, <2>1, PrimaryIsSimple DEF Tidy
<1>3. CASE i.kind = "expr"
  <2> DEFINE min == Minimal(i)
  <2>1. Routine(i) = parseExpr(min)
    BY <1>3 DEF Routine, Minimal
  <2> HIDE DEF min
  <2>2. parseExpr(min) = Call("primary") \o (Need \o RestOfExpr(min))
    BY ExprCodes
  <2>3. InExpr(min, Routine(i), <<>>, p)
    BY <2>1, <2>2 DEF InExpr, AtOperand
  <2> QED BY <1>1, <1>3, <2>3 DEF Tidy, min
<1>4. CASE i.kind = "type"
  <2>1. Routine(i) = parseType
    BY <1>4 DEF Routine
  <2> QED BY <1>1, <1>4, <2>1, TypeIsSimple DEF Tidy
<1>5. CASE i.kind \in {"range", "stmt", "block"}
  <2>1. Quiet(parseRangeExpr) /\ Quiet(parseBlockStmt) /\ Quiet(parseStmt)
    <3>1. parseStmt \in {parseLetStmt, parseForStmt, parseIfStmt, parseWhileStmt, parseBlockStmt,
                         parseFunction, parseReturnStmt, parseExprStmt}
      BY DEF parseStmt
    <3> QED BY <3>1, MuteRoutines DEF Mute
  <2>2. Routine(i) \in {parseRangeExpr, parseBlockStmt, parseStmt}
    BY <1>5 DEF Routine
  <2> QED BY <1>1, <1>5, <2>1, <2>2 DEF Tidy, Simple
<1> QED BY <1>2, <1>3, <1>4, <1>5 DEF RoutineNames

-------------------------------------------------------------------------------
(* A call's steps                                                          *)

LEMMA ClimbIsList ==
  ASSUME NEW min
  PROVE  IsList(Climb(min))
<1> DEFINE w == Want({currentToken})
           e == Expr(Precedence(currentToken) + 1)
           k == Instr("combine", {}, currentToken, <<>>, <<>>)
           c == Instr("climb", {min}, "", <<>>, <<>>)
<1>1. Climb(min) = Same \/ Climb(min) = w \o e \o Need \o k \o c
  BY DEF Climb
<1>2. IsList(w) /\ IsList(e) /\ IsList(Need) /\ IsList(Same)
  BY Ones DEF One
<1>3. IsList(k) /\ IsList(c)
  BY ListOne DEF Instr
<1> HIDE DEF w, e, k, c
<1>4. IsList(w \o e \o Need \o k \o c)
  BY <1>2, <1>3, Concats
<1> QED BY <1>1, <1>2, <1>4

(* A call of a routine other than parseExpr keeps its order, ... *)
LEMMA SimpleIsTidy ==
  ASSUME NEW i, i.kind # "expr", NEW code, NEW nodes, NEW p, Tidy(i, code, nodes, p), code # <<>>,
         IsList(nodes), Len(nodes) <= MaxNodes
  PROVE  /\ code[1].op = "want" => \A q : Tidy(i, Tail(code), nodes, q)
         /\ code[1].op \in {"need", "value", "recover", "skip"} => Tidy(i, Tail(code), nodes, p)
         /\ code[1].op = "leaf" =>
              \A n, q : Shaped(n) /\ ~Binary(n) => Tidy(i, Tail(code), With(nodes, n), q)
         /\ code[1].op = "call" => Expects(i, code[1], Tail(code), nodes)
         /\ code[1].op = "if" => /\ Tidy(i, code[1].then \o Tail(code), nodes, p)
                                 /\ Tidy(i, code[1].else \o Tail(code), nodes, p)
         /\ code[1].op \in {"until", "while"} => /\ Tidy(i, Tail(code), nodes, p)
                                                 /\ Tidy(i, code[1].then \o code, nodes, p)
         /\ code[1].op \notin {"climb", "combine"}
         /\ code[1].op = "build" => Yields(i, Node(code[1].kind, nodes), p)
         /\ code[1].op = "same" /\ nodes # <<>> => Yields(i, Last(nodes), p)
         /\ code[1].op = "null" => Yields(i, Null, p)
<1> DEFINE rest == Tail(code)
           taken == code[1].then \o rest
           refused == code[1].else \o rest
           again == code[1].then \o code
<1>1. ShapedAll(nodes) /\ Simple(i, code, nodes)
  BY DEF Tidy
<1>2. /\ code[1].op \in {"want", "need", "value", "recover", "skip"} => Simple(i, rest, nodes)
      /\ code[1].op = "leaf" => \A n : ~Binary(n) => Simple(i, rest, With(nodes, n))
      /\ code[1].op = "call" => \A n : Simple(i, rest, With(nodes, n))
      /\ code[1].op \notin {"climb", "combine"}
      /\ code[1].op = "build" => Precedence(code[1].kind) < 0 \/ Len(nodes) < 2
      /\ code[1].op = "same" /\ nodes # <<>> /\ i.kind = "primary" => ~Binary(Last(nodes))
  BY <1>1, SimpleSteps
<1>3. code[1].op = "if" => Simple(i, taken, nodes) /\ Simple(i, refused, nodes)
  BY <1>1, SimpleSteps
<1>4. code[1].op \in {"until", "while"} => Simple(i, rest, nodes) /\ Simple(i, again, nodes)
  BY <1>1, SimpleSteps
<1> HIDE DEF rest, taken, refused, again
<1>5. \A some, q : ShapedAll(nodes) /\ Simple(i, some, nodes) => Tidy(i, some, nodes, q)
  BY DEF Tidy
<1>6. \A n, some, q : Shaped(n) /\ Simple(i, some, With(nodes, n)) => Tidy(i, some, With(nodes, n), q)
  BY <1>1, ShapedWith DEF Tidy
<1>7. code[1].op = "call" => Expects(i, code[1], rest, nodes)
  BY <1>2, <1>6 DEF Expects, Yields
<1>8. code[1].op = "build" => Yields(i, Node(code[1].kind, nodes), p)
  <2> SUFFICES ASSUME code[1].op = "build" PROVE Yields(i, Node(code[1].kind, nodes), p)
    OBVIOUS
  <2>1. ~Binary(Node(code[1].kind, nodes)) /\ Climbs(Node(code[1].kind, nodes))
    BY <1>2, PlainNode
  <2>2. Shaped(Node(code[1].kind, nodes))
    BY <1>1, <2>1, ShapedNode
  <2> QED BY <2>1, <2>2 DEF Yields
<1>9. code[1].op = "same" /\ nodes # <<>> => Yields(i, Last(nodes), p)
  BY <1>1, <1>2, ShapedLast DEF Yields
<1>10. Yields(i, Null, p)
  BY ShapedLeaf DEF Yields, Null
<1>11. /\ code[1].op = "want" => \A q : Tidy(i, rest, nodes, q)
       /\ code[1].op \in {"need", "value", "recover", "skip"} => Tidy(i, rest, nodes, p)
       /\ code[1].op = "leaf" => \A n, q : Shaped(n) /\ ~Binary(n) => Tidy(i, rest, With(nodes, n), q)
       /\ code[1].op = "if" => Tidy(i, taken, nodes, p) /\ Tidy(i, refused, nodes, p)
       /\ code[1].op \in {"until", "while"} => Tidy(i, rest, nodes, p) /\ Tidy(i, again, nodes, p)
  BY <1>1, <1>2, <1>3, <1>4, <1>5, <1>6
<1> QED BY <1>2, <1>7, <1>8, <1>9, <1>10, <1>11 DEF rest, taken, refused, again

(* ... and one of parseExpr climbs. *)
LEMMA ExprIsTidy ==
  ASSUME NEW i, i.kind = "expr", NEW code, NEW nodes, NEW p \in Int, Tidy(i, code, nodes, p),
         IsList(nodes), Len(nodes) <= MaxNodes
  PROVE  /\ code[1].op \in {"want", "need", "if", "call", "combine", "climb", "same"}
         /\ code[1].op = "want" => \A q : Tidy(i, Tail(code), nodes, q)
         /\ code[1].op = "need" => Tidy(i, Tail(code), nodes, p)
         /\ code[1].op = "if" => /\ Tidy(i, code[1].then \o Tail(code), nodes, p)
                                 /\ Tidy(i, code[1].else \o Tail(code), nodes, p)
         /\ code[1].op = "call" => Expects(i, code[1], Tail(code), nodes)
         /\ code[1].op = "combine" => Tidy(i, Tail(code), <<Node(code[1].kind, nodes)>>, p)
         /\ code[1].op = "climb" /\ p = Precedence(currentToken) =>
              Tidy(i, Climb(CHOOSE precedence \in code[1].at : TRUE) \o Tail(code), nodes, p)
         /\ code[1].op = "same" => Yields(i, Last(nodes), p)
<1> DEFINE min == Minimal(i)
           rest == Tail(code)
           taken == code[1].then \o rest
           refused == code[1].else \o rest
           n == Node(code[1].kind, nodes)
           one == <<n>>
<1>1. ShapedAll(nodes) /\ InExpr(min, code, nodes, p)
  BY DEF Tidy
<1> HIDE DEF min
<1>2. /\ code[1].op \in {"want", "need", "if", "call", "combine", "climb", "same"}
      /\ code[1].op = "want" => \A q : InExpr(min, rest, nodes, q)
      /\ code[1].op = "need" => InExpr(min, rest, nodes, p)
  BY <1>1, ExprSteps
<1>3. code[1].op = "if" => InExpr(min, taken, nodes, p) /\ InExpr(min, refused, nodes, p)
  BY <1>1, ExprSteps
<1>4. code[1].op = "call" =>
        \A m : \A q \in Int : Yields(code[1], m, q) => InExpr(min, rest, With(nodes, m), q)
  BY <1>1, ExprSteps
<1>5. code[1].op = "combine" => Climbs(n) /\ InExpr(min, rest, one, p)
  BY <1>1, ExprSteps
<1>6. code[1].op = "climb" =>
        /\ rest = <<>> /\ code[1].at = {min} /\ Len(nodes) = 1
        /\ Binary(nodes[1]) => /\ ~(Precedence(nodes[1].kind) < min)
                               /\ p <= Precedence(nodes[1].kind)
  BY <1>1, ExprSteps
<1>7. code[1].op = "same" =>
        /\ Len(nodes) = 1 /\ p < min
        /\ Binary(nodes[1]) => ~(Precedence(nodes[1].kind) < min)
  BY <1>1, ExprSteps
<1>8. \A some, q : InExpr(min, some, nodes, q) => Tidy(i, some, nodes, q)
  BY <1>1 DEF Tidy, min
<1>9. code[1].op = "call" => Expects(i, code[1], rest, nodes)
  <2> SUFFICES ASSUME code[1].op = "call", NEW m, NEW q \in Int, Yields(code[1], m, q)
               PROVE  Tidy(i, rest, With(nodes, m), q)
    BY DEF Expects
  <2>1. InExpr(min, rest, With(nodes, m), q)
    BY <1>4
  <2>2. ShapedAll(With(nodes, m))
    BY <1>1, ShapedWith DEF Yields
  <2> QED BY <2>1, <2>2 DEF Tidy, min
<1>10. code[1].op = "combine" => Tidy(i, rest, one, p)
  <2> SUFFICES ASSUME code[1].op = "combine" PROVE Tidy(i, rest, one, p)
    OBVIOUS
  <2>1. Climbs(n) /\ InExpr(min, rest, one, p)
    BY <1>5
  <2>2. Shaped(n)
    BY <1>1, <2>1, ShapedNode
  <2>3. ShapedAll(one)
    <3> HIDE DEF n
    <3> QED BY <2>2, ShapedOne
  <2> HIDE DEF one
  <2> QED BY <2>1, <2>3 DEF Tidy, min
<1>11. code[1].op = "same" => Yields(i, Last(nodes), p)
  <2> SUFFICES ASSUME code[1].op = "same" PROVE Yields(i, Last(nodes), p)
    OBVIOUS
  <2>1. nodes # <<>>
    <3>1. Len(nodes) > 0
      BY <1>7
    <3> QED BY <3>1, ListFacts
  <2>2. Last(nodes) = nodes[1]
    BY <1>7, <2>1, ListFront
  <2>3. Shaped(Last(nodes))
    BY <1>1, <2>1, ShapedLast
  <2> QED BY <1>7, <2>2, <2>3 DEF Yields, min
<1>12. ASSUME code[1].op = "climb", p = Precedence(currentToken)
       PROVE  Tidy(i, Climb(CHOOSE precedence \in code[1].at : TRUE) \o rest, nodes, p)
  <2>1. (CHOOSE precedence \in code[1].at : TRUE) = min
    <3>1. (CHOOSE precedence \in {min} : TRUE) = min
      OBVIOUS
    <3> QED BY <1>6, <1>12, <3>1
  <2> DEFINE climb == Climb(min)
             chosen == CHOOSE precedence \in code[1].at : TRUE
  <2>2. climb \o <<>> = climb
    <3>1. IsList(climb)
      <4>1. IsList(Climb(min))
        BY ClimbIsList
      <4> QED BY <4>1
    <3> HIDE DEF climb
    <3> QED BY <3>1, NothingBehind
  <2>3. InExpr(min, climb, nodes, p)
    BY <1>6, <1>12, ExprClimbs
  <2>4. Tidy(i, climb, nodes, p)
    BY <1>8, <2>3
  <2>5. Climb(chosen) = climb
    BY <2>1
  <2>6. rest = <<>>
    BY <1>6, <1>12
  <2> HIDE DEF climb, chosen
  <2>7. Climb(chosen) \o rest = climb
    BY <2>2, <2>5, <2>6
  <2> QED BY <2>4, <2>7 DEF chosen
<1> HIDE DEF rest, taken, refused, one, n
<1>13. /\ code[1].op = "want" => \A q : Tidy(i, rest, nodes, q)
       /\ code[1].op = "need" => Tidy(i, rest, nodes, p)
       /\ code[1].op = "if" => Tidy(i, taken, nodes, p) /\ Tidy(i, refused, nodes, p)
  BY <1>2, <1>3, <1>8
<1> QED BY <1>2, <1>9, <1>10, <1>11, <1>12, <1>13 DEF rest, taken, refused, one, n

-------------------------------------------------------------------------------
(* The calls below the top wait for what the next returns                  *)

Kept(asked, frames, p) ==
  /\ \A k \in 1 .. Len(frames) - 1 : Expects(asked[k], asked[k + 1], frames[k].code, frames[k].nodes)
  /\ Tidy(asked[Len(frames)], frames[Len(frames)].code, frames[Len(frames)].nodes, p)

Shapely(frames, p) == \E asked : Kept(asked, frames, p)

LEMMA KeptGoesOn ==
  ASSUME Stack(calls), calls # <<>>, NEW asked, NEW p, Kept(asked, calls, p),
         NEW code, NEW nodes, GoOn(code, nodes), NEW q, Tidy(asked[Len(calls)], code, nodes, q)
  PROVE  Shapely(calls', q)
<1> DEFINE l == Len(calls)
           c == [code |-> code, nodes |-> nodes]
<1>1. l \in Nat /\ l > 0 /\ IsList(calls)
  BY TopFacts
<1>2. Len(calls') = l /\ (\A k \in 1 .. l - 1 : calls'[k] = calls[k]) /\ calls'[l] = c
  BY <1>1, GoOnFacts
<1>3. c.code = code /\ c.nodes = nodes
  OBVIOUS
<1>4. \A k \in 1 .. l - 1 : Expects(asked[k], asked[k + 1], calls[k].code, calls[k].nodes)
  BY DEF Kept
<1> HIDE DEF c
<1>5. Tidy(asked[l], calls'[l].code, calls'[l].nodes, q)
  BY <1>2, <1>3
<1> HIDE DEF l
<1>6. Kept(asked, calls', q)
  BY <1>2, <1>4, <1>5 DEF Kept
<1> QED BY <1>6 DEF Shapely

LEMMA KeptEnters ==
  ASSUME Stack(calls), calls # <<>>, NEW asked, NEW p, Kept(asked, calls, p), Enter,
         Expects(asked[Len(calls)], Next1, Rest, Nodes), Tidy(Next1, Routine(Next1), <<>>, p)
  PROVE  Shapely(calls', p)
<1> DEFINE l == Len(calls)
           c == [code |-> Rest, nodes |-> Nodes]
           e == Activation(Routine(Next1))
           more == [k \in 1 .. l + 1 |-> IF k <= l THEN asked[k] ELSE Next1]
<1>1. l \in Nat /\ l > 0 /\ IsList(calls) /\ Frame(Top)
  BY TopFacts
<1>2. /\ Len(calls') = l + 1 /\ (\A k \in 1 .. l - 1 : calls'[k] = calls[k])
      /\ calls'[l] = c /\ calls'[l + 1] = e
  BY <1>1, EnterFacts
<1>3. c.code = Rest /\ c.nodes = Nodes /\ e.code = Routine(Next1) /\ e.nodes = <<>>
  BY DEF Activation
<1>4. \A k \in 1 .. l - 1 : Expects(asked[k], asked[k + 1], calls[k].code, calls[k].nodes)
  BY DEF Kept
<1>5. Expects(asked[l], Next1, Rest, Nodes)
  OBVIOUS
<1> HIDE DEF l, c, e
<1>6. (\A k \in 1 .. l : more[k] = asked[k]) /\ more[l + 1] = Next1
  BY <1>1
<1> HIDE DEF more
<1>7. ASSUME NEW k \in 1 .. l
      PROVE  Expects(more[k], more[k + 1], calls'[k].code, calls'[k].nodes)
  <2>1. CASE k = l
    BY <1>2, <1>3, <1>5, <1>6, <2>1
  <2>2. CASE k # l
    <3>1. k \in 1 .. l - 1 /\ k + 1 \in 1 .. l
      BY <1>1, <2>2
    <3> QED BY <1>2, <1>4, <1>6, <3>1
  <2> QED BY <2>1, <2>2
<1>8. Tidy(more[l + 1], calls'[l + 1].code, calls'[l + 1].nodes, p)
  BY <1>2, <1>3, <1>6
<1>9. Len(calls') - 1 = l
  BY <1>1, <1>2
<1>10. Kept(more, calls', p)
  BY <1>2, <1>7, <1>8, <1>9 DEF Kept
<1> QED BY <1>10 DEF Shapely

LEMMA KeptReturns ==
  ASSUME Stack(calls), calls # <<>>, NEW asked, NEW p \in Int, Kept(asked, calls, p),
         NEW n, Return(n), Yields(asked[Len(calls)], n, p), phase = "parsing"
  PROVE  /\ phase' = "parsing" => Shapely(calls', p)
         /\ phase' = "accepted" => Shaped(program')
<1> DEFINE l == Len(calls)
           m == l - 1
           c == [code |-> calls[m].code, nodes |-> With(calls[m].nodes, n)]
<1>1. l \in Nat /\ l > 0
  BY TopFacts
<1>2. \/ l = 1 /\ program' = n /\ phase' = IF errors THEN "failed" ELSE "accepted"
      \/ /\ l > 1 /\ Len(calls') = m /\ (\A k \in 1 .. l - 2 : calls'[k] = calls[k])
         /\ calls'[m] = c /\ phase' = phase
  BY ReturnFacts
<1>3. c.code = calls[m].code /\ c.nodes = With(calls[m].nodes, n)
  OBVIOUS
<1>4. \A k \in 1 .. m : Expects(asked[k], asked[k + 1], calls[k].code, calls[k].nodes)
  BY DEF Kept
<1>5. Yields(asked[l], n, p)
  OBVIOUS
<1> HIDE DEF l, c
<1>6. CASE l = 1 /\ program' = n /\ phase' = IF errors THEN "failed" ELSE "accepted"
  BY <1>5, <1>6 DEF Yields
<1>7. CASE /\ l > 1 /\ Len(calls') = m /\ (\A k \in 1 .. l - 2 : calls'[k] = calls[k])
           /\ calls'[m] = c /\ phase' = phase
  <2>1. m \in 1 .. m /\ m + 1 = l /\ \A k \in 1 .. m - 1 : k \in 1 .. l - 2 /\ k \in 1 .. m
    BY <1>1, <1>7
  <2>2. Expects(asked[m], asked[l], calls[m].code, calls[m].nodes)
    BY <1>4, <2>1
  <2>3. Tidy(asked[m], calls'[m].code, calls'[m].nodes, p)
    BY <1>3, <1>5, <1>7, <2>2 DEF Expects
  <2> HIDE DEF m
  <2>4. \A k \in 1 .. m - 1 : Expects(asked[k], asked[k + 1], calls'[k].code, calls'[k].nodes)
    BY <1>4, <1>7, <2>1
  <2>5. Kept(asked, calls', p)
    BY <1>7, <2>3, <2>4 DEF Kept
  <2> QED BY <1>7, <2>5 DEF Shapely
<1> QED BY <1>2, <1>6, <1>7

-------------------------------------------------------------------------------
(* The parser's steps, without parentheses and errors                      *)

NoParentheses == \A k \in DOMAIN tokens : tokens[k].kind # "("

Ahead == Precedence(currentToken)

ShapeInv ==
  NoParentheses =>
    /\ phase = "parsing" /\ ~errors => Shapely(calls, Ahead)
    /\ phase = "accepted" => Shaped(program)

(* What a step makes of the stack, or of the program. *)
KeepsShape ==
  /\ phase' = "parsing" /\ ~errors' => Shapely(calls', Ahead')
  /\ phase' = "accepted" => Shaped(program')

(* The call on top, before the first error. *)
LEMMA TopIsTidy ==
  ASSUME LexInv, ParserInv, phase = "parsing", NEW asked, Kept(asked, calls, Ahead)
  PROVE  /\ Stack(calls) /\ calls # <<>> /\ Ahead \in Int
         /\ Tidy(asked[Len(calls)], Top.code, Nodes, Ahead) /\ Top.code # <<>>
         /\ IsList(Nodes) /\ Len(Nodes) <= MaxNodes
         /\ Next1 = Top.code[1] /\ Rest = Tail(Top.code)
<1>1. Stack(calls) /\ calls # <<>> /\ Next1 = Top.code[1] /\ Rest = Tail(Top.code)
  BY AtInstruction DEF Rest
<1>2. /\ Top = calls[Len(calls)] /\ IsCode(Top.code) /\ Ends(Top.code)
      /\ IsList(Nodes) /\ Len(Nodes) <= MaxNodes
  BY <1>1, TopFacts
<1>3. Tidy(asked[Len(calls)], Top.code, Nodes, Ahead)
  BY <1>2 DEF Kept, Nodes
<1>4. Top.code # <<>>
  BY <1>2, RestOfCode
<1>5. Ahead \in Int
  BY Precedences DEF Ahead
<1> QED BY <1>1, <1>2, <1>3, <1>4, <1>5

LEMMA GoesOnTidily ==
  ASSUME Stack(calls), calls # <<>>, NEW asked, Kept(asked, calls, Ahead),
         phase = "parsing", phase' = "parsing",
         NEW code, NEW nodes, GoOn(code, nodes), Tidy(asked[Len(calls)], code, nodes, Ahead')
  PROVE  KeepsShape
<1>1. Shapely(calls', Ahead')
  BY KeptGoesOn
<1> QED BY <1>1 DEF KeepsShape

LEMMA SameAhead ==
  ASSUME tokens' = tokens, idx' = idx
  PROVE  Ahead' = Ahead
<1> QED BY DEF Ahead, currentToken

LEMMA ReturnsTidily ==
  ASSUME LexInv, ParserInv, phase = "parsing", NEW asked, Kept(asked, calls, Ahead),
         NEW n, Return(n), Yields(asked[Len(calls)], n, Ahead), Ahead' = Ahead
  PROVE  KeepsShape
<1>1. Stack(calls) /\ calls # <<>> /\ Ahead \in Int
  BY TopIsTidy
<1>2. /\ phase' = "parsing" => Shapely(calls', Ahead)
      /\ phase' = "accepted" => Shaped(program')
  BY <1>1, KeptReturns
<1> QED BY <1>2 DEF KeepsShape

(* Calls of parseExpr and calls of the others, in the same words. *)
LEMMA TopSteps ==
  ASSUME LexInv, ParserInv, phase = "parsing", NEW asked, Kept(asked, calls, Ahead), NEW i,
         i = asked[Len(calls)]
  PROVE  /\ Next1.op = "want" => \A q : Tidy(i, Rest, Nodes, q)
         /\ Next1.op \in {"need", "value", "recover", "skip"} => Tidy(i, Rest, Nodes, Ahead)
         /\ Next1.op = "leaf" =>
              \A n, q : Shaped(n) /\ ~Binary(n) => Tidy(i, Rest, With(Nodes, n), q)
         /\ Next1.op = "call" => Expects(i, Next1, Rest, Nodes)
         /\ Next1.op = "combine" => Tidy(i, Rest, <<Node(Next1.kind, Nodes)>>, Ahead)
         /\ Next1.op = "build" => Yields(i, Node(Next1.kind, Nodes), Ahead)
         /\ Next1.op = "same" /\ Nodes # <<>> => Yields(i, Last(Nodes), Ahead)
         /\ Next1.op = "null" => Yields(i, Null, Ahead)
<1> DEFINE code == Top.code
           nodes == Nodes
           p == Ahead
           one == <<Node(code[1].kind, nodes)>>
<1>1. /\ p \in Int /\ Tidy(i, code, nodes, p) /\ code # <<>>
      /\ IsList(nodes) /\ Len(nodes) <= MaxNodes /\ Next1 = code[1] /\ Rest = Tail(code)
  BY TopIsTidy
<1> HIDE DEF code, nodes, p
<1>2. CASE i.kind # "expr"
  <2>1. code[1].op = "call" => Expects(i, code[1], Tail(code), nodes)
    BY <1>1, <1>2, SimpleIsTidy
  <2>2. /\ code[1].op = "build" => Yields(i, Node(code[1].kind, nodes), p)
        /\ code[1].op = "same" /\ nodes # <<>> => Yields(i, Last(nodes), p)
        /\ code[1].op = "null" => Yields(i, Null, p)
        /\ code[1].op # "combine"
    BY <1>1, <1>2, SimpleIsTidy
  <2>3. /\ code[1].op = "want" => \A q : Tidy(i, Tail(code), nodes, q)
        /\ code[1].op \in {"need", "value", "recover", "skip"} => Tidy(i, Tail(code), nodes, p)
        /\ code[1].op = "leaf" =>
             \A n, q : Shaped(n) /\ ~Binary(n) => Tidy(i, Tail(code), With(nodes, n), q)
    BY <1>1, <1>2, SimpleIsTidy
  <2> QED BY <1>1, <2>1, <2>2, <2>3 DEF nodes, p
<1>3. CASE i.kind = "expr"
  <2>1. code[1].op = "call" => Expects(i, code[1], Tail(code), nodes)
    BY <1>1, <1>3, ExprIsTidy
  <2>2. /\ code[1].op = "combine" => Tidy(i, Tail(code), one, p)
        /\ code[1].op = "same" => Yields(i, Last(nodes), p)
    BY <1>1, <1>3, ExprIsTidy
  <2>3. /\ code[1].op \in {"want", "need", "if", "call", "combine", "climb", "same"}
        /\ code[1].op = "want" => \A q : Tidy(i, Tail(code), nodes, q)
        /\ code[1].op = "need" => Tidy(i, Tail(code), nodes, p)
    BY <1>1, <1>3, ExprIsTidy
  <2> HIDE DEF one
  <2> QED BY <1>1, <2>1, <2>2, <2>3 DEF nodes, p, one
<1> QED BY <1>2, <1>3

LEMMA ConsumeTidy ==
  ASSUME LexInv, ParserInv, phase = "parsing", NEW asked, Kept(asked, calls, Ahead), Consume
  PROVE  KeepsShape
<1>1. /\ phase' = "parsing" /\ Next1.op \in {"want", "leaf"}
      /\ GoOn(Rest, IF Next1.op = "leaf" THEN With(Nodes, Node(currentToken, <<>>)) ELSE Nodes)
  BY DEF Consume, Running
<1>2. Stack(calls) /\ calls # <<>>
  BY TopIsTidy
<1>3. CASE Next1.op = "want"
  <2>1. Tidy(asked[Len(calls)], Rest, Nodes, Ahead')
    BY <1>3, TopSteps
  <2>2. GoOn(Rest, Nodes)
    BY <1>1, <1>3
  <2> QED BY <1>1, <1>2, <2>1, <2>2, GoesOnTidily
<1>4. CASE Next1.op = "leaf"
  <2> DEFINE n == Node(currentToken, <<>>)
  <2>1. Shaped(n) /\ ~Binary(n)
    BY ShapedLeaf
  <2>2. GoOn(Rest, With(Nodes, n))
    BY <1>1, <1>4
  <2> HIDE DEF n
  <2>3. Tidy(asked[Len(calls)], Rest, With(Nodes, n), Ahead')
    BY <1>4, <2>1, TopSteps
  <2> QED BY <1>1, <1>2, <2>2, <2>3, GoesOnTidily
<1> QED BY <1>1, <1>3, <1>4

LEMMA BranchTidy ==
  ASSUME LexInv, ParserInv, phase = "parsing", NEW asked, Kept(asked, calls, Ahead), Branch,
         Ahead' = Ahead
  PROVE  KeepsShape
<1> DEFINE code == Top.code
           taken == code[1].then \o Tail(code)
           refused == code[1].else \o Tail(code)
           again == code[1].then \o code
           climb == Climb(CHOOSE precedence \in code[1].at : TRUE) \o Tail(code)
           i == asked[Len(calls)]
           nodes == Nodes
<1>1. /\ Ahead \in Int /\ Tidy(i, code, nodes, Ahead) /\ code # <<>>
      /\ IsList(nodes) /\ Len(nodes) <= MaxNodes /\ Next1 = code[1] /\ Rest = Tail(code)
      /\ Stack(calls) /\ calls # <<>>
  BY TopIsTidy
<1>2. /\ phase' = "parsing"
      /\ \/ Next1.op = "if" /\ GoOn(taken, nodes)
         \/ Next1.op = "if" /\ GoOn(refused, nodes)
         \/ Next1.op \in {"until", "while"} /\ GoOn(Rest, nodes)
         \/ Next1.op \in {"until", "while"} /\ GoOn(again, nodes)
         \/ Next1.op = "climb" /\ GoOn(climb, nodes)
  BY <1>1 DEF Branch, Running
<1> HIDE DEF code, i, nodes
<1>3. code[1].op = "if" => Tidy(i, taken, nodes, Ahead) /\ Tidy(i, refused, nodes, Ahead)
  <2>1. CASE i.kind # "expr"
    BY <1>1, <2>1, SimpleIsTidy
  <2>2. CASE i.kind = "expr"
    BY <1>1, <2>2, ExprIsTidy
  <2> QED BY <2>1, <2>2
<1>4. code[1].op \in {"until", "while"} =>
        Tidy(i, Tail(code), nodes, Ahead) /\ Tidy(i, again, nodes, Ahead)
  <2>1. CASE i.kind # "expr"
    BY <1>1, <2>1, SimpleIsTidy
  <2>2. CASE i.kind = "expr"
    <3>1. code[1].op \in {"want", "need", "if", "call", "combine", "climb", "same"}
      BY <1>1, <2>2, ExprIsTidy
    <3> QED BY <3>1
  <2> QED BY <2>1, <2>2
<1>5. code[1].op = "climb" => Tidy(i, climb, nodes, Ahead)
  <2>1. CASE i.kind # "expr"
    <3>1. code[1].op \notin {"climb", "combine"}
      BY <1>1, <2>1, SimpleIsTidy
    <3> QED BY <3>1
  <2>2. CASE i.kind = "expr"
    <3>1. Ahead = Precedence(currentToken)
      BY DEF Ahead
    <3> QED BY <1>1, <2>2, <3>1, ExprIsTidy
  <2> QED BY <2>1, <2>2
<1> HIDE DEF taken, refused, again, climb
<1>6. \E some : GoOn(some, nodes) /\ Tidy(i, some, nodes, Ahead)
  BY <1>1, <1>2, <1>3, <1>4, <1>5
<1>7. PICK some : GoOn(some, nodes) /\ Tidy(i, some, nodes, Ahead)
  BY <1>6
<1>8. Tidy(asked[Len(calls)], some, nodes, Ahead')
  BY <1>7 DEF i
<1> QED BY <1>1, <1>2, <1>7, <1>8, GoesOnTidily

LEMMA EnterTidy ==
  ASSUME LexInv, ParserInv, phase = "parsing", NEW asked, Kept(asked, calls, Ahead), Enter,
         Ahead' = Ahead, NoParentheses
  PROVE  KeepsShape
<1>1. phase' = "parsing" /\ Next1.op = "call" /\ Next1.kind \in RoutineNames
  BY AtInstruction DEF Enter, Running
<1>2. Stack(calls) /\ calls # <<>>
  BY TopIsTidy
<1>3. Expects(asked[Len(calls)], Next1, Rest, Nodes)
  BY <1>1, TopSteps
<1>4. currentToken # "("
  <2>1. idx \in 1 .. Len(tokens) /\ Lexed
    BY AtInstruction
  <2>2. DOMAIN tokens = 1 .. Len(tokens)
    BY LenProperties DEF LexInv
  <2> QED BY <2>1, <2>2 DEF NoParentheses, currentToken
<1>5. Tidy(Next1, Routine(Next1), <<>>, Ahead)
  BY <1>1, <1>4, TidyRoutines
<1>6. Shapely(calls', Ahead)
  BY <1>2, <1>3, <1>5, KeptEnters
<1> QED BY <1>1, <1>6 DEF KeepsShape

LEMMA LeaveTidy ==
  ASSUME LexInv, ParserInv, phase = "parsing", NEW asked, Kept(asked, calls, Ahead), Leave,
         Ahead' = Ahead, Unbroken(calls)
  PROVE  KeepsShape
<1>1. \/ Next1.op = "build" /\ Return(Node(Next1.kind, Nodes))
      \/ Next1.op = "same" /\ Return(Last(Nodes))
      \/ Next1.op = "null" /\ Return(Null)
  BY DEF Leave, Running
<1>2. CASE Next1.op = "build" /\ Return(Node(Next1.kind, Nodes))
  <2>1. Yields(asked[Len(calls)], Node(Next1.kind, Nodes), Ahead)
    BY <1>2, TopSteps
  <2> QED BY <1>2, <2>1, ReturnsTidily
<1>3. CASE Next1.op = "same" /\ Return(Last(Nodes))
  <2>1. Nodes # <<>>
    <3>1. Next1.op \notin Givers /\ Next1.op # "report" /\ Next1.op \in Takers
          /\ Next1.op \notin {"want", "call", "if", "report", "build"}
      BY <1>3 DEF Givers, Takers
    <3>2. Orderly(Here, Top.code, Nodes)
      BY <3>1, TopIsGood, LoopCases
    <3> QED BY <3>1, <3>2, TopIsGood
  <2>2. Yields(asked[Len(calls)], Last(Nodes), Ahead)
    BY <1>3, <2>1, TopSteps
  <2> QED BY <1>3, <2>2, ReturnsTidily
<1>4. CASE Next1.op = "null" /\ Return(Null)
  <2>1. Yields(asked[Len(calls)], Null, Ahead)
    BY <1>4, TopSteps
  <2> QED BY <1>4, <2>1, ReturnsTidily
<1> QED BY <1>1, <1>2, <1>3, <1>4

(* The instructions that look at the last node leave it. *)
LEMMA TakeTidy ==
  ASSUME LexInv, ParserInv, phase = "parsing", NEW asked, Kept(asked, calls, Ahead),
         CheckNeed \/ TakeValue \/ Recover, Unbroken(calls), ~errors, tokens' = tokens
  PROVE  KeepsShape
<1>1. Next1.op \in {"need", "value", "recover", "skip"}
  BY DEF CheckNeed, TakeValue, Recover, Running
<1>2. Last(Nodes) # Null
  BY <1>1, TakerGood
<1>3. GoOn(Rest, Nodes) /\ phase' = "parsing" /\ idx' = idx
  BY <1>2 DEF CheckNeed, TakeValue, Recover
<1>4. Stack(calls) /\ calls # <<>> /\ Ahead' = Ahead
  BY <1>3, TopIsTidy, SameAhead
<1>5. Tidy(asked[Len(calls)], Rest, Nodes, Ahead')
  BY <1>1, <1>4, TopSteps
<1> QED BY <1>3, <1>4, <1>5, GoesOnTidily

LEMMA CombineTidy ==
  ASSUME LexInv, ParserInv, phase = "parsing", NEW asked, Kept(asked, calls, Ahead), Combine,
         Ahead' = Ahead
  PROVE  KeepsShape
<1> DEFINE one == <<Node(Next1.kind, Nodes)>>
<1>1. Next1.op = "combine" /\ phase' = "parsing" /\ GoOn(Rest, one)
  BY DEF Combine, Running
<1>2. Stack(calls) /\ calls # <<>>
  BY TopIsTidy
<1>3. Tidy(asked[Len(calls)], Rest, one, Ahead)
  BY <1>1, TopSteps
<1> HIDE DEF one
<1> QED BY <1>1, <1>2, <1>3, GoesOnTidily

LEMMA StartsTidy ==
  ASSUME NEW p
  PROVE  Shapely(<<Activation(parse)>>, p)
<1> DEFINE a == Activation(parse)
           frames == <<a>>
           i == [kind |-> "program"]
           asked == [k \in 1 .. 1 |-> i]
<1>1. a.code = parse /\ a.nodes = <<>>
  BY DEF Activation
<1>2. Len(frames) = 1 /\ frames[1] = a
  BY ListOne
<1>3. i.kind = "program"
  OBVIOUS
<1>4. asked[1] = i /\ 1 .. 1 - 1 = {}
  OBVIOUS
<1> HIDE DEF a, frames, i, asked
<1>5. Simple(i, parse, <<>>)
  BY <1>3, MuteRoutines DEF Simple, Mute
<1>6. Tidy(i, parse, <<>>, p)
  BY <1>3, <1>5, ShapedNothing DEF Tidy
<1>7. Kept(asked, frames, p)
  BY <1>1, <1>2, <1>4, <1>6 DEF Kept
<1> QED BY <1>7 DEF Shapely, frames, a

LEMMA ShapeSteps ==
  ASSUME LexInv, ParserInv, NullInv, ShapeInv, [SyntaxNext]_syntaxVars
  PROVE  ShapeInv'
<1>1. CASE LexStep
  <2>1. phase' = "lexing"
    BY <1>1 DEF LexStep, parserVars
  <2> QED BY <2>1 DEF ShapeInv
<1>2. CASE StartParsing
  <2>1. CASE phase' = "failed"
    BY <2>1 DEF ShapeInv
  <2>2. CASE phase' = "parsing" /\ calls' = <<Activation(parse)>>
    <3>1. Shapely(calls', Ahead')
      BY <2>2, StartsTidy
    <3> QED BY <2>2, <3>1 DEF ShapeInv
  <2> QED BY <1>2, <2>1, <2>2 DEF StartParsing
<1>3. CASE ParseStep
  <2>1. phase = "parsing" /\ tokens' = tokens
    BY <1>3, BranchCases DEF ParseStep, Consume, ReportError, Enter, Leave, CheckNeed, Combine, TakeValue,
       Recover, Running, lexVars
  <2>2. NoParentheses' = NoParentheses
    BY <2>1 DEF NoParentheses
  <2>3. CASE errors
    BY <1>3, <2>1, <2>3, ErrorsStay DEF ShapeInv
  <2>4. CASE ~NoParentheses
    BY <2>2, <2>4 DEF ShapeInv
  <2>5. CASE ~errors /\ NoParentheses
    <3>1. PICK asked : Kept(asked, calls, Ahead)
      BY <2>1, <2>5 DEF ShapeInv, Shapely
    <3>2. Unbroken(calls)
      BY <2>1, <2>5 DEF NullInv
    <3>3. CASE ReportError
      BY <2>1, <3>3 DEF ReportError, ShapeInv
    <3>4. Branch \/ Enter \/ Leave \/ Combine => Ahead' = Ahead
      BY <2>1, SameAhead, BranchCases DEF Enter, Leave, Combine
    <3>5. ParseStep /\ ~ReportError => KeepsShape
      BY <2>1, <2>5, <3>1, <3>2, <3>4, ConsumeTidy, BranchTidy, EnterTidy, LeaveTidy, TakeTidy,
         CombineTidy DEF ParseStep
    <3> QED BY <1>3, <3>3, <3>5 DEF KeepsShape, ShapeInv
  <2> QED BY <2>3, <2>4, <2>5
<1>4. CASE UNCHANGED syntaxVars
  <2>1. /\ tokens' = tokens /\ idx' = idx /\ phase' = phase /\ errors' = errors
        /\ calls' = calls /\ program' = program
    BY <1>4 DEF syntaxVars, parserVars, lexVars
  <2>2. Ahead' = Ahead /\ NoParentheses' = NoParentheses
    BY <2>1, SameAhead DEF NoParentheses
  <2> QED BY <2>1, <2>2 DEF ShapeInv
<1> QED BY <1>1, <1>2, <1>3, <1>4 DEF SyntaxNext

(* The nodes of an ordered tree are in the order of precedence. *)
LEMMA ShapedTree ==
  ASSUME NEW n, Shaped(n), Len(tokens) \in Nat
  PROVE  \A m \in Subtrees(n) : Climbs(m)
<1> DEFINE depth == 2 * Len(tokens) + 2
           below[k \in 0 .. depth] ==
             IF k = 0 THEN {n} ELSE UNION {Range(m.children) : m \in below[k - 1]}
<1>1. depth \in Nat
  OBVIOUS
<1>2. Subtrees(n) = UNION {below[k] : k \in 0 .. depth}
  BY DEF Subtrees
<1>3. below = CHOOSE f : Levels(f, n, depth)
  BY DEF Levels
<1> HIDE DEF below, depth
<1>4. Levels(below, n, depth)
  <2>1. \E f : Levels(f, n, depth)
    BY <1>1, LevelsExist
  <2> QED BY <1>3, <2>1, Zenon
<1>5. PICK N : n \in N /\ Ordered(N)
  BY DEF Shaped
<1> DEFINE T == {k \in Nat : k <= depth => below[k] \subseteq N}
<1>6. 0 \in T
  BY <1>1, <1>4, <1>5 DEF Levels
<1>7. ASSUME NEW k \in Nat, k \in T PROVE k + 1 \in T
  <2> SUFFICES ASSUME k + 1 <= depth PROVE below[k + 1] \subseteq N
    OBVIOUS
  <2>1. k \in 0 .. depth /\ k + 1 \in 0 .. depth /\ k + 1 # 0 /\ k + 1 - 1 = k /\ below[k] \subseteq N
    BY <1>1, <1>7
  <2>2. below[k + 1] = UNION {Range(m.children) : m \in below[k]}
    BY <1>4, <2>1 DEF Levels
  <2>3. ASSUME NEW m \in below[k] PROVE Range(m.children) \subseteq N
    BY <1>5, <2>1 DEF Ordered
  <2> QED BY <2>2, <2>3
<1>8. \A k \in 0 .. depth : below[k] \subseteq N
  <2> HIDE DEF T
  <2>1. Nat \subseteq T
    BY <1>6, <1>7, SetInduction
  <2>2. \A k \in 0 .. depth : k \in T /\ k <= depth
    BY <1>1, <2>1
  <2> QED BY <2>2 DEF T
<1> QED BY <1>2, <1>5, <1>8 DEF Ordered

(* Without parentheses, an accepted program's tree is the one its operators' *)
(* precedence demands, equals to the left, for any text and any keywords:    *)
(* the loop of parseExpr leaves no operator that binds more than the one     *)
(* above it on the wrong side.                                              *)
THEOREM PrecedenceShapesTreeHolds == SyntaxSpec => []PrecedenceShapesTree
<1>1. SyntaxInit => NullInv /\ ShapeInv
  BY DEF SyntaxInit, NullInv, ShapeInv
<1>2. SyntaxInv /\ NullInv /\ ShapeInv /\ [SyntaxNext]_syntaxVars => NullInv' /\ ShapeInv'
  BY NullSteps, ShapeSteps DEF SyntaxInv, LexingInv
<1>3. SyntaxInv /\ ShapeInv => PrecedenceShapesTree
  <2> SUFFICES ASSUME SyntaxInv, ShapeInv, phase = "accepted",
                      \A k \in DOMAIN tokens : tokens[k].kind # "("
               PROVE  \A n \in Subtrees(program) : Climbs(n)
    BY DEF PrecedenceShapesTree
  <2>1. Len(tokens) \in Nat
    BY LenProperties DEF SyntaxInv, LexingInv, LexInv
  <2>2. Shaped(program)
    BY DEF ShapeInv, NoParentheses
  <2> QED BY <2>1, <2>2, ShapedTree
<1> QED BY <1>1, <1>2, <1>3, SyntaxHolds, PTL DEF SyntaxSpec

===============================================================================
