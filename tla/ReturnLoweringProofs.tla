-------------------------- MODULE ReturnLoweringProofs --------------------------
(***************************************************************************)
(* Proofs about ReturnLowering, for all bodies.                            *)
(***************************************************************************)
EXTENDS ReturnLowering, SequenceTheorems, WellFoundedInduction, TLAPS

Less == {pair \in Nat \X Nat : pair[1] < pair[2]}

LEMMA LessIsWellFounded == IsWellFoundedOn(Less, Nat)
<1>1. OpToRel(<, Nat) = Less
  BY DEF OpToRel, Less
<1> QED BY <1>1, NatLessThanWellFounded

(* Induction, on a set instead of a predicate. *)
LEMMA SetInduction ==
  ASSUME NEW S, 0 \in S, \A n \in Nat : n \in S => n + 1 \in S
  PROVE  Nat \subseteq S
<1>1. SUFFICES ASSUME Nat \ S # {} PROVE FALSE
  OBVIOUS
<1>2. PICK n \in Nat \ S : \A m \in Nat \ S : <<m, n>> \notin Less
  <2>1. Nat \ S \subseteq Nat
    OBVIOUS
  <2> QED BY <1>1, <2>1, LessIsWellFounded, WFMin
<1>3. n \in Nat /\ n # 0 /\ n - 1 \in Nat
  OBVIOUS
<1>4. <<n - 1, n>> \in Less
  BY <1>3 DEF Less
<1>5. n - 1 \in S
  BY <1>2, <1>3, <1>4
<1> QED BY <1>3, <1>5

-------------------------------------------------------------------------------
(* The function that FlattenSeq applies to the length of its argument. *)
Flattens(f, seqs) ==
  f = [i \in 1 .. Len(seqs) |-> IF i = 1 THEN seqs[i] ELSE f[i - 1] \o seqs[i]]

LEMMA FlatteningExists ==
  ASSUME NEW S, NEW seqs \in Seq(Seq(S))
  PROVE  \E f \in [1 .. Len(seqs) -> Seq(S)] : Flattens(f, seqs)
<1> DEFINE Upto(n) ==
      n <= Len(seqs) =>
        \E f \in [1 .. n -> Seq(S)] :
          \A i \in 1 .. n : f[i] = IF i = 1 THEN seqs[i] ELSE f[i - 1] \o seqs[i]
           T == {n \in Nat : Upto(n)}
<1>1. 0 \in T
  <2>1. Upto(0)
    <3>1. \E f \in [1 .. 0 -> Seq(S)] :
            \A i \in 1 .. 0 : f[i] = IF i = 1 THEN seqs[i] ELSE f[i - 1] \o seqs[i]
      <4>1. [i \in 1 .. 0 |-> <<>>] \in [1 .. 0 -> Seq(S)]
        OBVIOUS
      <4>2. 1 .. 0 = {}
        OBVIOUS
      <4> QED BY <4>1, <4>2, Zenon
    <3> QED BY <3>1
  <2> HIDE DEF Upto
  <2> QED BY <2>1
<1>2. ASSUME NEW n \in Nat, n \in T, n + 1 <= Len(seqs)
      PROVE  Upto(n + 1)
  <2>1. PICK f \in [1 .. n -> Seq(S)] :
          \A i \in 1 .. n : f[i] = IF i = 1 THEN seqs[i] ELSE f[i - 1] \o seqs[i]
    BY <1>2
  <2> DEFINE last == IF n = 0 THEN seqs[1] ELSE f[n] \o seqs[n + 1]
             g == [i \in 1 .. n + 1 |-> IF i = n + 1 THEN last ELSE f[i]]
  <2>2. seqs[n + 1] \in Seq(S)
    BY <1>2, ElementOfSeq
  <2>3. last \in Seq(S)
    <3>1. CASE n = 0
      BY <3>1, <2>2
    <3>2. CASE n # 0
      <4>1. f[n] \in Seq(S)
        BY <3>2
      <4> QED BY <3>2, <4>1, <2>2, ConcatProperties
    <3> QED BY <3>1, <3>2
  <2>4. g \in [1 .. n + 1 -> Seq(S)]
    <3> HIDE DEF last
    <3> QED BY <2>3
  <2>5. ASSUME NEW i \in 1 .. n + 1
        PROVE  g[i] = IF i = 1 THEN seqs[i] ELSE g[i - 1] \o seqs[i]
    <3>1. CASE i = n + 1
      BY <3>1
    <3>2. CASE i # n + 1
      <4>1. i \in 1 .. n /\ g[i] = f[i] /\ (i # 1 => g[i - 1] = f[i - 1])
        BY <3>2
      <4> QED BY <4>1, <2>1
    <3> QED BY <3>1, <3>2
  <2> HIDE DEF g
  <2> QED BY <2>4, <2>5
<1>3. ASSUME NEW n \in Nat, n \in T
      PROVE  n + 1 \in T
  <2>1. Upto(n + 1)
    <3>1. CASE n + 1 <= Len(seqs)
      <4> HIDE DEF Upto, T
      <4> QED BY <3>1, <1>2, <1>3
    <3>2. CASE ~(n + 1 <= Len(seqs))
      BY <3>2
    <3> QED BY <3>1, <3>2
  <2> HIDE DEF Upto
  <2> QED BY <2>1
<1>4. Nat \subseteq T
  <2> HIDE DEF T
  <2> QED BY <1>1, <1>3, SetInduction
<1>5. Len(seqs) \in Nat
  OBVIOUS
<1>6. Upto(Len(seqs))
  BY <1>4, <1>5
<1>7. PICK f \in [1 .. Len(seqs) -> Seq(S)] :
        \A i \in 1 .. Len(seqs) : f[i] = IF i = 1 THEN seqs[i] ELSE f[i - 1] \o seqs[i]
  BY <1>6
<1>8. Flattens(f, seqs)
  BY <1>7 DEF Flattens
<1> QED BY <1>8

(* The same, an equation for each place. *)
Steps(f, seqs) ==
  \A i \in 1 .. Len(seqs) : /\ i = 1 => f[i] = seqs[i]
                            /\ i # 1 => f[i] = f[i - 1] \o seqs[i]

LEMMA FlattensSteps ==
  ASSUME NEW seqs, NEW f, Flattens(f, seqs)
  PROVE  Steps(f, seqs)
BY DEF Flattens, Steps

LEMMA StepsType ==
  ASSUME NEW S, NEW seqs \in Seq(Seq(S)), NEW f, Steps(f, seqs)
  PROVE  \A i \in 1 .. Len(seqs) : f[i] \in Seq(S)
<1> DEFINE T == {n \in Nat : n \in 1 .. Len(seqs) => f[n] \in Seq(S)}
<1>1. 0 \in T
  OBVIOUS
<1>2. ASSUME NEW n \in Nat, n \in T
      PROVE  n + 1 \in T
  <2> SUFFICES ASSUME NEW m \in 1 .. Len(seqs), m = n + 1
               PROVE  f[m] \in Seq(S)
    OBVIOUS
  <2>1. seqs[m] \in Seq(S) /\ m \in 1 .. Len(seqs) /\ m = n + 1 /\ Len(seqs) \in Nat
    BY ElementOfSeq
  <2>2. CASE m = 1
    BY <2>1, <2>2 DEF Steps
  <2>3. CASE m # 1
    <3>1. n \in 1 .. Len(seqs) /\ m - 1 = n
      BY <2>1, <2>3
    <3>2. f[n] \in Seq(S)
      BY <1>2, <3>1
    <3>3. f[m] = f[n] \o seqs[m]
      BY <2>1, <2>3, <3>1 DEF Steps
    <3> QED BY <2>1, <3>2, <3>3, ConcatProperties
  <2> QED BY <2>2, <2>3
<1> HIDE DEF T
<1>3. Nat \subseteq T
  BY <1>1, <1>2, SetInduction
<1>4. \A i \in 1 .. Len(seqs) : i \in T
  BY <1>3
<1> QED BY <1>4 DEF T

LEMMA FlattenSeqSteps ==
  ASSUME NEW S, NEW seqs \in Seq(Seq(S))
  PROVE  \E f : Steps(f, seqs) /\ FlattenSeq(seqs) = IF seqs = <<>> THEN <<>> ELSE f[Len(seqs)]
<1> DEFINE f == CHOOSE f : Flattens(f, seqs)
<1>1. \E g : Flattens(g, seqs)
  BY FlatteningExists
<1>2. Flattens(f, seqs)
  BY <1>1
<1>3. FlattenSeq(seqs) = IF seqs = <<>> THEN <<>> ELSE f[Len(seqs)]
  BY DEF FlattenSeq, Flattens
<1>4. Steps(f, seqs)
  BY <1>2, FlattensSteps
<1> QED BY <1>3, <1>4

(* A flattened sequence of sequences is a sequence. *)
LEMMA FlattenSeqType ==
  ASSUME NEW S, NEW seqs \in Seq(Seq(S))
  PROVE  FlattenSeq(seqs) \in Seq(S)
<1>1. PICK f : /\ Steps(f, seqs)
               /\ FlattenSeq(seqs) = IF seqs = <<>> THEN <<>> ELSE f[Len(seqs)]
  BY FlattenSeqSteps
<1>2. CASE seqs = <<>>
  BY <1>1, <1>2
<1>3. CASE seqs # <<>>
  <2>1. Len(seqs) \in 1 .. Len(seqs)
    BY <1>3, EmptySeq
  <2> QED BY <1>1, <1>3, <2>1, StepsType
<1> QED BY <1>2, <1>3

LEMMA FlattenEmpty == FlattenSeq(<<>>) = <<>>
BY DEF FlattenSeq

(* A sequence in front of the others comes first: steps of both, in step. *)
Precedes(seq, seqs, all) ==
  /\ Len(all) = Len(seqs) + 1
  /\ all[1] = seq
  /\ \A i \in 1 .. Len(seqs) : all[i + 1] = seqs[i]

Joins(S, seq) == \A t, u \in Seq(S) : (seq \o t) \o u = seq \o (t \o u)

LEMMA SequenceJoins ==
  ASSUME NEW S, NEW seq \in Seq(S)
  PROVE  Joins(S, seq)
BY ConcatAssociative DEF Joins

(* What is in front of the others is in front of each step. *)
InFront(f, seq, g, n) == f[1] = seq /\ \A i \in 1 .. n : f[i + 1] = seq \o g[i]

LEMMA StepsCons ==
  ASSUME NEW S, NEW seq \in Seq(S), NEW seqs \in Seq(Seq(S)), NEW all \in Seq(Seq(S)),
         Precedes(seq, seqs, all),
         NEW f, Steps(f, all), NEW g, Steps(g, seqs)
  PROVE  InFront(f, seq, g, Len(seqs))
<1>0. Len(seqs) \in Nat
  OBVIOUS
<1>1. f[1] = seq
  BY <1>0 DEF Steps, Precedes
<1>2. \A i \in 1 .. Len(seqs) : f[i + 1] = f[i] \o seqs[i]
  <2> SUFFICES ASSUME NEW i \in 1 .. Len(seqs), NEW j, j = i + 1
               PROVE  f[j] = f[i] \o seqs[i]
    OBVIOUS
  <2>1. j \in 1 .. Len(all) /\ j # 1 /\ j - 1 = i
    BY <1>0 DEF Precedes
  <2> QED BY <2>1 DEF Steps, Precedes
<1>3. \A i \in 1 .. Len(seqs) : g[i] \in Seq(S) /\ seqs[i] \in Seq(S)
  BY StepsType, ElementOfSeq
<1>3a. Joins(S, seq)
  BY SequenceJoins, Zenon
<1> DEFINE T == {n \in Nat : n \in 1 .. Len(seqs) => f[n + 1] = seq \o g[n]}
<1>4. 0 \in T
  OBVIOUS
<1>5. ASSUME NEW n \in Nat, n \in T
      PROVE  n + 1 \in T
  <2> SUFFICES ASSUME NEW m \in 1 .. Len(seqs), m = n + 1
               PROVE  f[m + 1] = seq \o g[m]
    OBVIOUS
  <2>1. f[m + 1] = f[m] \o seqs[m]
    BY <1>2
  <2>2. CASE m = 1
    <3>1. g[m] = seqs[m]
      BY <2>2 DEF Steps
    <3> QED BY <1>1, <2>1, <2>2, <3>1
  <2>3. CASE m # 1
    <3>1. n \in 1 .. Len(seqs) /\ m - 1 = n
      BY <1>0, <2>3
    <3>2. f[m] = seq \o g[n]
      BY <1>5, <3>1
    <3>3. g[m] = g[n] \o seqs[m]
      BY <2>3, <3>1 DEF Steps
    <3>4. g[n] \in Seq(S) /\ seqs[m] \in Seq(S)
      BY <1>3, <3>1
    <3>5. (seq \o g[n]) \o seqs[m] = seq \o (g[n] \o seqs[m])
      BY <3>4, <1>3a, Zenon DEF Joins
    <3> QED BY <2>1, <3>2, <3>3, <3>5
  <2> QED BY <2>2, <2>3
<1> HIDE DEF T
<1>6. Nat \subseteq T
  BY <1>4, <1>5, SetInduction
<1>7. ASSUME NEW i \in 1 .. Len(seqs)
      PROVE  f[i + 1] = seq \o g[i]
  <2>1. i \in T
    BY <1>6
  <2> QED BY <2>1 DEF T
<1> QED BY <1>1, <1>7 DEF InFront

LEMMA FlattenCons ==
  ASSUME NEW S, NEW seq \in Seq(S), NEW seqs \in Seq(Seq(S))
  PROVE  FlattenSeq(<<seq>> \o seqs) = seq \o FlattenSeq(seqs)
<1> DEFINE all == <<seq>> \o seqs
<1>1. /\ all \in Seq(Seq(S)) /\ Len(all) = Len(seqs) + 1 /\ all # <<>> /\ all[1] = seq
      /\ Len(seqs) \in Nat
      /\ Precedes(seq, seqs, all)
  BY DEF Precedes
<1> HIDE DEF all
<1>2. PICK f : Steps(f, all) /\ FlattenSeq(all) = IF all = <<>> THEN <<>> ELSE f[Len(all)]
  BY <1>1, FlattenSeqSteps
<1>3. PICK g : Steps(g, seqs) /\ FlattenSeq(seqs) = IF seqs = <<>> THEN <<>> ELSE g[Len(seqs)]
  BY FlattenSeqSteps
<1>3a. InFront(f, seq, g, Len(seqs))
  BY <1>1, <1>2, <1>3, StepsCons, Zenon
<1>4. /\ f[1] = seq
      /\ \A i \in 1 .. Len(seqs) : f[i + 1] = seq \o g[i]
  BY <1>3a DEF InFront
<1>5. FlattenSeq(all) = f[Len(seqs) + 1]
  BY <1>1, <1>2
<1>6. FlattenSeq(all) = seq \o FlattenSeq(seqs)
  <2>1. CASE seqs = <<>>
    <3>1. FlattenSeq(all) = seq /\ FlattenSeq(seqs) = <<>>
      BY <2>1, <1>3, <1>4, <1>5
    <3> QED BY <3>1, ConcatEmptySeq
  <2>2. CASE seqs # <<>>
    <3>1. Len(seqs) \in 1 .. Len(seqs)
      BY <2>2, EmptySeq
    <3> QED BY <2>2, <3>1, <1>3, <1>4, <1>5
  <2> QED BY <2>1, <2>2
<1> QED BY <1>6 DEF all

-------------------------------------------------------------------------------
ItemsOf(b) == [node : DOMAIN b, entered : BOOLEAN]

FramesOf(b) ==
  [todo : Seq(ItemsOf(b)), flag : {"absent", "no", "yes"},
   value : DOMAIN b \cup {Default}, yields : BOOLEAN]

(* The flag and the value of a state travel together. *)
Paired(frame) == (frame.flag = "yes") = (frame.value # Default)

TInv ==
  /\ body \in Bodies
  /\ frames \in Seq(FramesOf(body))
  /\ \A i \in DOMAIN frames : Paired(frames[i])
  /\ fuel \in 0 .. MaxIterations
  /\ result \in DOMAIN body \cup {Running, Default}

-------------------------------------------------------------------------------
(* stmtMayReturn                                                           *)

LEMMA BodyShape ==
  ASSUME NEW b, b \in Bodies
  PROVE  /\ b \in Seq([kind : Kinds, kids : Seq(Nat)]) /\ b # <<>>
         /\ Len(b) \in Nat /\ DOMAIN b = 1 .. Len(b) /\ 1 \in DOMAIN b
         /\ \A n \in DOMAIN b : \A i \in DOMAIN b[n].kids :
              b[n].kids[i] \in DOMAIN b /\ b[n].kids[i] > n
<1>1. IsBody(b)
  BY BodiesAssumption
<1>2. b \in Seq([kind : Kinds, kids : Seq(Nat)]) /\ b # <<>>
  BY <1>1 DEF IsBody
<1>3. Len(b) \in Nat /\ DOMAIN b = 1 .. Len(b) /\ 1 \in DOMAIN b
  BY <1>2, EmptySeq, LenProperties
<1>4. ASSUME NEW n \in DOMAIN b, NEW i \in DOMAIN b[n].kids
      PROVE  b[n].kids[i] \in DOMAIN b /\ b[n].kids[i] > n
  BY <1>1, <1>3 DEF IsBody
<1> QED BY <1>2, <1>3, <1>4

(* The recursion of stmtMayReturn is well founded: substatements come later. *)
LEMMA MayReturnExists ==
  ASSUME body \in Bodies
  PROVE  \E may : may = [n \in DOMAIN body |-> MayGiven(may, n)]
<1> DEFINE Known(may, k) == \A n \in DOMAIN body : n > Len(body) - k => may[n] = MayGiven(may, n)
           T == {k \in Nat : k <= Len(body) => \E may \in [DOMAIN body -> BOOLEAN] : Known(may, k)}
<1>1. 0 \in T
  <2>1. [n \in DOMAIN body |-> FALSE] \in [DOMAIN body -> BOOLEAN]
    OBVIOUS
  <2>2. Known([n \in DOMAIN body |-> FALSE], 0)
    BY BodyShape
  <2> HIDE DEF Known
  <2> QED BY <2>1, <2>2
<1>2. ASSUME NEW k \in Nat, k \in T
      PROVE  k + 1 \in T
  <2> SUFFICES ASSUME k + 1 <= Len(body)
               PROVE  \E may \in [DOMAIN body -> BOOLEAN] : Known(may, k + 1)
    <3> HIDE DEF Known
    <3> QED OBVIOUS
  <2>0. Len(body) \in Nat /\ k <= Len(body)
    BY BodyShape
  <2>1. PICK may \in [DOMAIN body -> BOOLEAN] : Known(may, k)
    <3> HIDE DEF Known
    <3> QED BY <1>2, <2>0
  <2> DEFINE m == Len(body) - k
             more == [may EXCEPT ![m] = MayGiven(may, m)]
  <2>2. m \in DOMAIN body /\ m \in Nat
    BY <2>0, BodyShape
  <2>3. MayGiven(may, m) \in BOOLEAN
    BY <2>2 DEF MayGiven, Kids
  <2>4. more \in [DOMAIN body -> BOOLEAN]
    BY <2>2, <2>3
  <2>5. \A n \in DOMAIN body : n # m => more[n] = may[n]
    BY <2>1
  <2>6. more[m] = MayGiven(may, m)
    BY <2>2
  <2> HIDE DEF more
  <2>7. ASSUME NEW n \in DOMAIN body, n >= m
        PROVE  MayGiven(more, n) = MayGiven(may, n)
    <3>1. ASSUME NEW i \in DOMAIN body[n].kids
          PROVE  more[body[n].kids[i]] = may[body[n].kids[i]]
      <4>1. body[n].kids[i] \in DOMAIN body /\ body[n].kids[i] > n
        BY BodyShape
      <4>2. n \in Nat /\ body[n].kids[i] \in Nat
        BY <4>1, BodyShape
      <4>3. body[n].kids[i] # m
        BY <2>2, <2>7, <4>1, <4>2
      <4> QED BY <2>5, <4>1, <4>3
    <3> QED BY <3>1, Zenon DEF MayGiven, Kids
  <2>8. Known(more, k + 1)
    <3> SUFFICES ASSUME NEW n \in DOMAIN body, n > Len(body) - (k + 1)
                 PROVE  more[n] = MayGiven(more, n)
      OBVIOUS
    <3>1. n >= m
      BY <2>0, <2>2, BodyShape
    <3>2. CASE n = m
      BY <3>1, <3>2, <2>6, <2>7
    <3>3. CASE n # m
      <4>1. n > m
        BY <3>1, <3>3, <2>2, BodyShape
      <4> QED BY <4>1, <3>1, <3>3, <2>1, <2>5, <2>7
    <3> QED BY <3>2, <3>3
  <2> HIDE DEF Known
  <2> QED BY <2>4, <2>8
<1>3. Nat \subseteq T
  <2> HIDE DEF T
  <2> QED BY <1>1, <1>2, SetInduction
<1>4. PICK may \in [DOMAIN body -> BOOLEAN] : Known(may, Len(body))
  <2>1. Len(body) \in T
    BY <1>3, BodyShape
  <2> HIDE DEF Known
  <2> QED BY <2>1, BodyShape
<1>5. \A n \in DOMAIN body : may[n] = MayGiven(may, n)
  BY <1>4, BodyShape
<1>6. may = [n \in DOMAIN body |-> MayGiven(may, n)]
  BY <1>4, <1>5
<1> QED BY <1>6

LEMMA MayReturnUnfolds ==
  ASSUME body \in Bodies
  PROVE  \E may \in [DOMAIN body -> BOOLEAN] :
           \A n \in DOMAIN body : /\ MayReturn(n) = may[n]
                                  /\ may[n] = MayGiven(may, n)
<1> DEFINE may == CHOOSE may : may = [n \in DOMAIN body |-> MayGiven(may, n)]
<1>1. may = [n \in DOMAIN body |-> MayGiven(may, n)]
  BY MayReturnExists
<1>2. \A n \in DOMAIN body : MayReturn(n) = may[n]
  BY DEF MayReturn
<1> HIDE DEF may
<1>3. \A n \in DOMAIN body : may[n] = MayGiven(may, n) /\ MayGiven(may, n) \in BOOLEAN
  BY <1>1 DEF MayGiven, Kids
<1>4. may \in [DOMAIN body -> BOOLEAN]
  BY <1>1, <1>3
<1> QED BY <1>2, <1>3, <1>4

-------------------------------------------------------------------------------
(* Sequences of frames are changed at their first places only. *)

LEMMA Pushed ==
  ASSUME NEW S, NEW seq \in Seq(S), NEW e \in S
  PROVE  LET new == <<e>> \o seq
         IN /\ new \in Seq(S) /\ new # <<>> /\ Len(new) = Len(seq) + 1
            /\ Head(new) = e /\ new[1] = e /\ Tail(new) = seq
            /\ DOMAIN new = 1 .. Len(seq) + 1
            /\ \A i \in DOMAIN new : i # 1 => i - 1 \in DOMAIN seq /\ new[i] = seq[i - 1]
OBVIOUS

LEMMA Opened ==
  ASSUME NEW S, NEW seq \in Seq(S), seq # <<>>
  PROVE  /\ Head(seq) \in S /\ Head(seq) = seq[1] /\ Tail(seq) \in Seq(S)
         /\ Len(seq) \in Nat /\ Len(seq) >= 1 /\ DOMAIN seq = 1 .. Len(seq)
         /\ DOMAIN Tail(seq) = 1 .. Len(seq) - 1 /\ Len(Tail(seq)) = Len(seq) - 1
         /\ \A i \in DOMAIN Tail(seq) : i + 1 \in DOMAIN seq /\ Tail(seq)[i] = seq[i + 1]
         /\ seq = <<Head(seq)>> \o Tail(seq)
OBVIOUS

LEMMA TwoPushed ==
  ASSUME NEW S, NEW seq \in Seq(S), NEW d \in S, NEW e \in S
  PROVE  <<d, e>> \o seq = <<d>> \o (<<e>> \o seq)
<1> DEFINE two == <<d, e>>
           left == two \o seq
           inner == <<e>> \o seq
           right == <<d>> \o inner
<1>1. /\ two \in Seq(S) /\ Len(two) = 2 /\ two[1] = d /\ two[2] = e
  OBVIOUS
<1> HIDE DEF two
<1>2. /\ left \in Seq(S) /\ Len(left) = Len(seq) + 2 /\ Len(seq) \in Nat
      /\ \A i \in 1 .. Len(seq) + 2 : left[i] = IF i <= 2 THEN two[i] ELSE seq[i - 2]
  <2>1. left \in Seq(S) /\ Len(left) = Len(two) + Len(seq)
    BY ONLY <1>1, seq \in Seq(S), ConcatProperties
  <2>0. Len(seq) \in Nat
    BY LenProperties
  <2>2. \A i \in 1 .. Len(two) + Len(seq) :
          left[i] = IF i <= Len(two) THEN two[i] ELSE seq[i - Len(two)]
    BY <1>1, ConcatProperties
  <2> HIDE DEF left
  <2> QED BY <1>1, <2>0, <2>1, <2>2
<1>3. inner \in Seq(S) /\ Len(inner) = Len(seq) + 1
      /\ inner[1] = e /\ \A i \in 2 .. Len(seq) + 1 : inner[i] = seq[i - 1]
  BY Pushed
<1> HIDE DEF left, inner
<1>4. right \in Seq(S) /\ Len(right) = Len(inner) + 1
      /\ right[1] = d /\ \A i \in 2 .. Len(inner) + 1 : right[i] = inner[i - 1]
  BY <1>3, Pushed
<1> HIDE DEF right
<1>5. ASSUME NEW i \in 1 .. Len(left)
      PROVE  left[i] = right[i]
  <2>1. CASE i = 1
    BY <2>1, <1>1, <1>2, <1>4
  <2>2. CASE i = 2
    BY <2>2, <1>1, <1>2, <1>3, <1>4
  <2>3. CASE i > 2
    <3>1. i \in 2 .. Len(inner) + 1 /\ i - 1 \in 2 .. Len(seq) + 1 /\ (i - 1) - 1 = i - 2 /\ ~(i <= 2)
      BY <2>3, <1>2, <1>3
    <3>2. left[i] = seq[i - 2] /\ right[i] = inner[i - 1] /\ inner[i - 1] = seq[i - 2]
      BY <3>1, <1>2, <1>3, <1>4
    <3> QED BY <3>2
  <2> QED BY <2>1, <2>2, <2>3, <1>2
<1>6. left = right
  BY <1>2, <1>3, <1>4, <1>5, SeqEqual
<1> QED BY <1>6 DEF left, right, inner, two

-------------------------------------------------------------------------------
(* Types *)

LEMMA NextStatement ==
  ASSUME TInv, Executing
  PROVE  /\ Top \in FramesOf(body) /\ Top = frames[1] /\ Paired(Top)
         /\ Below \in Seq(FramesOf(body))
         /\ Stmt \in ItemsOf(body) /\ Stmt.node \in DOMAIN body
         /\ Tail(Top.todo) \in Seq(ItemsOf(body))
         /\ Rest \in FramesOf(body)
         /\ Rest.flag = Top.flag /\ Rest.value = Top.value /\ Rest.yields = Top.yields
         /\ Rest.todo = Tail(Top.todo)
<1>1. Top \in FramesOf(body) /\ Top = frames[1] /\ Below \in Seq(FramesOf(body)) /\ 1 \in DOMAIN frames
  BY Opened DEF Executing, TInv, Top, Below
<1>2. Paired(Top)
  BY <1>1 DEF TInv
<1>3. Top.todo \in Seq(ItemsOf(body)) /\ Top.todo # <<>>
  BY <1>1 DEF FramesOf, Executing
<1>4. Stmt \in ItemsOf(body) /\ Tail(Top.todo) \in Seq(ItemsOf(body))
  BY <1>3, Opened DEF Stmt
<1>5. Stmt.node \in DOMAIN body
  BY <1>4 DEF ItemsOf
<1>6. Rest \in FramesOf(body)
  BY <1>1, <1>4 DEF Rest, FramesOf
<1>7. /\ Rest.flag = Top.flag /\ Rest.value = Top.value /\ Rest.yields = Top.yields
      /\ Rest.todo = Tail(Top.todo)
  BY <1>1 DEF Rest, FramesOf
<1> QED BY <1>1, <1>2, <1>4, <1>5, <1>6, <1>7

LEMMA KidItems ==
  ASSUME body \in Bodies, NEW n \in DOMAIN body
  PROVE  /\ Items(Kids(n)) \in Seq(ItemsOf(body))
         /\ \A i \in DOMAIN Items(Kids(n)) : \E k \in DOMAIN Kids(n) : Items(Kids(n))[i].node = Kids(n)[k]
         /\ body[n].kind \in {"if", "while", "for"} =>
              /\ 1 \in DOMAIN Kids(n) /\ Item(Kids(n)[1]) \in ItemsOf(body)
              /\ Items(Tail(Kids(n))) \in Seq(ItemsOf(body))
              /\ \A i \in DOMAIN Items(Tail(Kids(n))) :
                   \E k \in DOMAIN Kids(n) : Items(Tail(Kids(n)))[i].node = Kids(n)[k]
<1>1. Kids(n) \in Seq(Nat) /\ \A i \in DOMAIN Kids(n) : Kids(n)[i] \in DOMAIN body
  <2>1. body[n] \in [kind : Kinds, kids : Seq(Nat)]
    BY BodyShape, ElementOfSeq
  <2> QED BY <2>1, BodyShape DEF Kids
<1>2. ASSUME NEW nodes \in Seq(Nat), \A i \in DOMAIN nodes : nodes[i] \in DOMAIN body
      PROVE  Items(nodes) \in Seq(ItemsOf(body)) /\ DOMAIN Items(nodes) = DOMAIN nodes
             /\ \A i \in DOMAIN nodes : Items(nodes)[i].node = nodes[i]
  <2>1. \A i \in DOMAIN nodes : Item(nodes[i]) \in ItemsOf(body) /\ Item(nodes[i]).node = nodes[i]
    BY <1>2 DEF Item, ItemsOf
  <2>2. DOMAIN nodes = 1 .. Len(nodes) /\ Len(nodes) \in Nat
    BY LenProperties
  <2> QED BY <2>1, <2>2 DEF Items
<1>3. ASSUME body[n].kind \in {"if", "while", "for"}
      PROVE  Kids(n) # <<>>
  BY <1>3, BodiesAssumption DEF IsBody, Kids
<1>4. ASSUME body[n].kind \in {"if", "while", "for"}
      PROVE  /\ 1 \in DOMAIN Kids(n) /\ Item(Kids(n)[1]) \in ItemsOf(body)
             /\ Tail(Kids(n)) \in Seq(Nat)
             /\ \A i \in DOMAIN Tail(Kids(n)) :
                  /\ Tail(Kids(n))[i] \in DOMAIN body
                  /\ i + 1 \in DOMAIN Kids(n) /\ Tail(Kids(n))[i] = Kids(n)[i + 1]
  <2>1. 1 \in DOMAIN Kids(n)
    BY <1>1, <1>3, <1>4, Opened
  <2>2. Item(Kids(n)[1]) \in ItemsOf(body)
    BY <2>1, <1>1 DEF Item, ItemsOf
  <2>3. /\ Tail(Kids(n)) \in Seq(Nat)
        /\ \A i \in DOMAIN Tail(Kids(n)) :
             i + 1 \in DOMAIN Kids(n) /\ Tail(Kids(n))[i] = Kids(n)[i + 1]
    BY <1>1, <1>3, <1>4, Opened
  <2> QED BY <2>1, <2>2, <2>3, <1>1
<1>5. /\ Items(Kids(n)) \in Seq(ItemsOf(body))
      /\ \A i \in DOMAIN Items(Kids(n)) : \E k \in DOMAIN Kids(n) : Items(Kids(n))[i].node = Kids(n)[k]
  BY <1>1, <1>2
<1>6. ASSUME body[n].kind \in {"if", "while", "for"}
      PROVE  /\ Items(Tail(Kids(n))) \in Seq(ItemsOf(body))
             /\ \A i \in DOMAIN Items(Tail(Kids(n))) :
                   \E k \in DOMAIN Kids(n) : Items(Tail(Kids(n)))[i].node = Kids(n)[k]
  BY <1>6, <1>4, <1>2
<1> QED BY <1>4, <1>5, <1>6

(* A region that is entered is of the statement's substatements. *)
LEMMA RegionType ==
  ASSUME body \in Bodies, NEW todo \in Seq(ItemsOf(body)), NEW yields \in BOOLEAN
  PROVE  /\ Region(todo, yields) \in FramesOf(body) /\ Paired(Region(todo, yields))
         /\ Region(todo, yields).todo = todo /\ Region(todo, yields).yields = yields
         /\ Region(todo, yields).flag = "absent"
BY DEF Region, FramesOf, Paired, Default

(* The two shapes that every step gives to frames keep their types. *)
LEMMA TypesOfChange ==
  ASSUME TInv, frames # <<>>, NEW t \in FramesOf(body), Paired(t)
  PROVE  /\ <<t>> \o Below \in Seq(FramesOf(body))
         /\ \A i \in DOMAIN (<<t>> \o Below) : Paired((<<t>> \o Below)[i])
<1>1. /\ Below \in Seq(FramesOf(body))
      /\ \A i \in DOMAIN Below : Paired(Below[i])
  BY Opened DEF TInv, Below
<1> QED BY <1>1, Pushed

LEMMA TypesOfEntry ==
  ASSUME TInv, frames # <<>>, NEW r \in FramesOf(body), Paired(r), NEW t \in FramesOf(body), Paired(t)
  PROVE  /\ <<r, t>> \o Below \in Seq(FramesOf(body))
         /\ \A i \in DOMAIN (<<r, t>> \o Below) : Paired((<<r, t>> \o Below)[i])
<1> DEFINE below == <<t>> \o Below
<1>1. below \in Seq(FramesOf(body)) /\ \A i \in DOMAIN below : Paired(below[i])
  BY TypesOfChange
<1>2. <<r, t>> \o Below = <<r>> \o below
  BY TwoPushed, Opened DEF TInv, Below
<1> HIDE DEF below
<1> DEFINE all == <<r>> \o below
<1>3. all \in Seq(FramesOf(body)) /\ \A i \in DOMAIN all : Paired(all[i])
  BY <1>1, Pushed
<1> HIDE DEF all
<1>4. <<r, t>> \o Below = all
  BY <1>2 DEF all
<1> QED BY <1>3, <1>4, Zenon

LEMMA FramesOpened ==
  ASSUME TInv, frames # <<>>
  PROVE  frames = <<Top>> \o Below
BY Opened DEF TInv, Top, Below

LEMMA TypesInit == Init => TInv
<1> SUFFICES ASSUME Init PROVE TInv
  OBVIOUS
<1>1. body \in Bodies /\ 1 \in DOMAIN body
  BY BodyShape DEF Init
<1>2. <<Item(1)>> \in Seq(ItemsOf(body))
  BY <1>1 DEF Item, ItemsOf
<1>3. Region(<<Item(1)>>, FALSE) \in FramesOf(body) /\ Paired(Region(<<Item(1)>>, FALSE))
  BY <1>1, <1>2, RegionType
<1>4. frames \in Seq(FramesOf(body)) /\ \A i \in DOMAIN frames : Paired(frames[i])
  <2> DEFINE r == Region(<<Item(1)>>, FALSE)
  <2> HIDE DEF r
  <2>1. r \in FramesOf(body) /\ Paired(r) /\ frames = <<r>>
    BY <1>3 DEF Init, r
  <2> QED BY <2>1
<1>5. fuel \in 0 .. MaxIterations
  BY MaxIterationsAssumption DEF Init
<1> QED BY <1>1, <1>4, <1>5 DEF Init, TInv

(* What a region of one statement, or of the branch of an if, is entered with. *)
LEMMA RegionsOfStatement ==
  ASSUME body \in Bodies, NEW n \in DOMAIN body
  PROVE  /\ MayReturn(n) \in BOOLEAN
         /\ \A item \in ItemsOf(body) : <<item>> \in Seq(ItemsOf(body))
         /\ body[n].kind = "if" => \A taken \in BOOLEAN : Branch(n, taken) \in Seq(ItemsOf(body))
<1>1. MayReturn(n) \in BOOLEAN
  BY MayReturnUnfolds
<1>2. \A item \in ItemsOf(body) : <<item>> \in Seq(ItemsOf(body))
  OBVIOUS
<1>3. body[n].kind = "if" => \A taken \in BOOLEAN : Branch(n, taken) \in Seq(ItemsOf(body))
  BY <1>2, KidItems DEF Branch
<1> QED BY <1>1, <1>2, <1>3

LEMMA MergedType ==
  ASSUME NEW inner \in FramesOf(body), Paired(inner), NEW outer \in FramesOf(body)
  PROVE  /\ Merged(inner, outer) \in FramesOf(body) /\ Paired(Merged(inner, outer))
         /\ Merged(inner, outer).todo = outer.todo /\ Merged(inner, outer).yields = outer.yields
         /\ Merged(inner, outer).value = inner.value
         /\ Merged(inner, outer).flag = IF inner.flag = "absent" THEN "no" ELSE inner.flag
BY DEF FramesOf, Paired, Merged

LEMMA TypesNext == TInv /\ [Next]_vars => TInv'
<1> SUFFICES ASSUME TInv, [Next]_vars PROVE TInv'
  OBVIOUS
<1> USE DEF At
<1>0. body \in Bodies
  BY DEF TInv
<1>1. CASE Plain
  <2>1. Rest \in FramesOf(body) /\ Paired(Rest) /\ frames # <<>>
    BY <1>1, NextStatement DEF Plain, Executing, Paired
  <2> QED BY <1>1, <2>1, TypesOfChange DEF Plain, TInv
<1>2. CASE Block
  <2> DEFINE t == [Top EXCEPT !.todo = Items(Kids(Stmt.node)) \o Tail(@)]
  <2>1. Top \in FramesOf(body) /\ Paired(Top) /\ frames # <<>> /\ Stmt.node \in DOMAIN body
        /\ Tail(Top.todo) \in Seq(ItemsOf(body))
    BY <1>2, NextStatement DEF Block, Executing
  <2>2. Items(Kids(Stmt.node)) \o Tail(Top.todo) \in Seq(ItemsOf(body))
    BY <2>1, <1>0, KidItems, ConcatProperties
  <2>3. t \in FramesOf(body) /\ Paired(t)
    BY <2>1, <2>2 DEF FramesOf, Paired
  <2> HIDE DEF t
  <2>4. frames' = <<t>> \o Below
    BY <1>2 DEF Block, t
  <2> QED BY <1>2, <2>1, <2>3, <2>4, TypesOfChange DEF Block, TInv
<1>3. CASE If
  <2>1. Rest \in FramesOf(body) /\ Paired(Rest) /\ frames # <<>> /\ Stmt.node \in DOMAIN body
    BY <1>3, NextStatement DEF If, Executing, Paired
  <2>2. PICK taken \in BOOLEAN :
          frames' = <<Region(Branch(Stmt.node, taken), MayReturn(Stmt.node)), Rest>> \o Below
    BY <1>3 DEF If
  <2>3. Branch(Stmt.node, taken) \in Seq(ItemsOf(body)) /\ MayReturn(Stmt.node) \in BOOLEAN
    BY <1>0, <1>3, <2>1, RegionsOfStatement DEF If
  <2> DEFINE r == Region(Branch(Stmt.node, taken), MayReturn(Stmt.node))
  <2>4. r \in FramesOf(body) /\ Paired(r)
    BY <1>0, <2>3, RegionType
  <2> HIDE DEF r
  <2>5. frames' = <<r, Rest>> \o Below
    BY <2>2 DEF r
  <2> QED BY <1>3, <2>1, <2>4, <2>5, TypesOfEntry DEF If, TInv
<1>4. CASE While \/ For
  <2>1. Rest \in FramesOf(body) /\ Paired(Rest) /\ frames # <<>> /\ Stmt.node \in DOMAIN body
        /\ Top \in FramesOf(body) /\ Paired(Top)
    BY <1>4, NextStatement DEF While, For, Executing, Paired
  <2> DEFINE r == Region(<<Item(Kids(Stmt.node)[1])>>, FALSE)
  <2>2. r \in FramesOf(body) /\ Paired(r)
    <3>1. <<Item(Kids(Stmt.node)[1])>> \in Seq(ItemsOf(body))
      BY <1>0, <1>4, <2>1, KidItems, RegionsOfStatement DEF While, For
    <3> QED BY <1>0, <3>1, RegionType
  <2> HIDE DEF r
  <2>3. CASE fuel > 0 /\ frames' = <<r>> \o frames /\ fuel' = fuel - 1
    <3>1. frames' = <<r, Top>> \o Below
      BY <2>1, <2>2, <2>3, FramesOpened, TwoPushed, Opened DEF TInv, Below
    <3>2. body' = body /\ result' = result /\ fuel' \in 0 .. MaxIterations
      BY <1>4, <2>3, MaxIterationsAssumption DEF While, For, TInv
    <3>3. /\ <<r, Top>> \o Below \in Seq(FramesOf(body))
          /\ \A i \in DOMAIN (<<r, Top>> \o Below) : Paired((<<r, Top>> \o Below)[i])
      BY <2>1, <2>2, TypesOfEntry
    <3> QED BY <3>1, <3>2, <3>3 DEF TInv
  <2>4. CASE frames' = <<Rest>> \o Below /\ UNCHANGED fuel
    BY <1>4, <2>1, <2>4, TypesOfChange DEF While, For, TInv
  <2> QED BY <1>4, <2>3, <2>4 DEF While, For, r
<1>5. CASE ForBounds
  <2> DEFINE t == [Top EXCEPT !.todo = <<Entered(Stmt.node)>> \o Tail(@)]
  <2>1. Top \in FramesOf(body) /\ Paired(Top) /\ frames # <<>> /\ Stmt.node \in DOMAIN body
        /\ Tail(Top.todo) \in Seq(ItemsOf(body))
    BY <1>5, NextStatement DEF ForBounds, Executing
  <2>2. <<Entered(Stmt.node)>> \o Tail(Top.todo) \in Seq(ItemsOf(body))
    <3>1. Entered(Stmt.node) \in ItemsOf(body)
      BY <2>1 DEF Entered, ItemsOf
    <3> QED BY <2>1, <3>1, Pushed
  <2>3. t \in FramesOf(body) /\ Paired(t)
    BY <2>1, <2>2 DEF FramesOf, Paired
  <2> HIDE DEF t
  <2>4. frames' = <<t>> \o Below
    BY <1>5 DEF ForBounds, t
  <2> QED BY <1>5, <2>1, <2>3, <2>4, TypesOfChange DEF ForBounds, TInv
<1>6. CASE Return
  <2> DEFINE t == [Rest EXCEPT !.flag = "yes", !.value = Stmt.node]
  <2>1. Rest \in FramesOf(body) /\ frames # <<>> /\ Stmt.node \in DOMAIN body
    BY <1>6, NextStatement DEF Return, Executing
  <2>2. Stmt.node # Default
    BY <2>1, <1>0, BodyShape DEF Default
  <2>3. t \in FramesOf(body) /\ Paired(t)
    BY <2>1, <2>2 DEF FramesOf, Paired
  <2> HIDE DEF t
  <2>4. frames' = <<t>> \o Below
    BY <1>6 DEF Return, t
  <2> QED BY <1>6, <2>1, <2>3, <2>4, TypesOfChange DEF Return, TInv
<1>7. CASE Guard
  <2>1. /\ Rest \in FramesOf(body) /\ Paired(Rest) /\ frames # <<>>
        /\ Stmt \in ItemsOf(body) /\ Stmt.node \in DOMAIN body
    BY <1>7, NextStatement DEF Guard, Executing, Paired
  <2> DEFINE r == Region(<<Stmt>>, MayReturn(Stmt.node))
  <2>2. r \in FramesOf(body) /\ Paired(r)
    BY <1>0, <2>1, RegionsOfStatement, RegionType
  <2> HIDE DEF r
  <2>3. CASE frames' = <<r, Rest>> \o Below
    BY <1>7, <2>1, <2>2, <2>3, TypesOfEntry DEF Guard, TInv
  <2>4. CASE frames' = <<Rest>> \o Below
    BY <1>7, <2>1, <2>4, TypesOfChange DEF Guard, TInv
  <2> QED BY <1>7, <2>3, <2>4 DEF Guard, r
<1>8. CASE Yield
  <2> DEFINE outer == Head(Below)
             t == IF Top.yields THEN Merged(Top, outer) ELSE outer
  <2>1. frames \in Seq(FramesOf(body)) /\ frames # <<>> /\ Below \in Seq(FramesOf(body)) /\ Below # <<>>
    <3>1. frames \in Seq(FramesOf(body)) /\ Len(frames) > 1
      BY <1>8 DEF Yield, TInv
    <3>2. frames # <<>>
      BY <3>1, EmptySeq
    <3>3. Below \in Seq(FramesOf(body)) /\ Len(Below) = Len(frames) - 1
      BY <3>1, <3>2, Opened DEF Below
    <3>4. Below # <<>>
      BY <3>1, <3>3, EmptySeq
    <3> QED BY <3>1, <3>2, <3>3, <3>4
  <2>2. Top \in FramesOf(body) /\ Paired(Top)
    BY <2>1, Opened DEF TInv, Top
  <2>3. \A i \in DOMAIN Below : Paired(Below[i])
    BY <2>1, Opened DEF TInv, Below
  <2>4. /\ outer \in FramesOf(body) /\ Paired(outer)
        /\ Tail(Below) \in Seq(FramesOf(body))
        /\ \A i \in DOMAIN Tail(Below) : Paired(Tail(Below)[i])
    BY <2>1, <2>3, Opened
  <2>5. t \in FramesOf(body) /\ Paired(t)
    BY <2>2, <2>4, MergedType
  <2> HIDE DEF t
  <2>6. frames' = <<t>> \o Tail(Below)
    BY <1>8 DEF Yield, t
  <2>7. frames' \in Seq(FramesOf(body)) /\ \A i \in DOMAIN frames' : Paired(frames'[i])
    BY <2>4, <2>5, <2>6, Pushed
  <2> QED BY <1>8, <2>7 DEF Yield, TInv
<1>9. CASE FuncReturn
  <2>1. Top \in FramesOf(body)
    <3>1. frames \in Seq(FramesOf(body)) /\ Len(frames) = 1
      BY <1>9 DEF FuncReturn, TInv
    <3>2. frames # <<>>
      <4>1. Len(<<>>) = 0
        OBVIOUS
      <4> QED BY <3>1, <4>1
    <3> QED BY <3>1, <3>2, Opened DEF Top
  <2>2. Top.value \in DOMAIN body \cup {Default}
    BY <2>1 DEF FramesOf
  <2>3. frames' \in Seq(FramesOf(body)) /\ DOMAIN frames' = {}
    BY <1>9 DEF FuncReturn
  <2> QED BY <1>9, <2>2, <2>3 DEF FuncReturn, TInv
<1>10. CASE UNCHANGED vars
  BY <1>10 DEF vars, TInv
<1> QED BY <1>1, <1>2, <1>3, <1>4, <1>5, <1>6, <1>7, <1>8, <1>9, <1>10 DEF Next

LEMMA TypesImply == TInv => TypeOK
<1> SUFFICES ASSUME TInv PROVE TypeOK
  OBVIOUS
<1>1. ASSUME NEW i \in DOMAIN frames
      PROVE  /\ \A j \in DOMAIN frames[i].todo : frames[i].todo[j].node \in DOMAIN body
             /\ frames[i].flag \in {"absent", "no", "yes"}
             /\ frames[i].value \in DOMAIN body \cup {Default}
             /\ (frames[i].flag = "yes") = (frames[i].value # Default)
  <2>1. frames[i] \in FramesOf(body) /\ Paired(frames[i])
    BY LenProperties, ElementOfSeq DEF TInv
  <2>2. frames[i].todo \in Seq(ItemsOf(body))
    BY <2>1 DEF FramesOf
  <2>3. \A j \in DOMAIN frames[i].todo : frames[i].todo[j] \in ItemsOf(body)
    BY <2>2, LenProperties, ElementOfSeq
  <2> QED BY <2>1, <2>3 DEF FramesOf, ItemsOf, Paired
<1> QED BY <1>1 DEF TInv, TypeOK

(* At every step of every body, the flag and the value of a region's state   *)
(* agree, what is still to be executed is of the body, and iterations are    *)
(* counted: genStmt and its merges (MLIRGen.cpp:253-360) keep their types.  *)
THEOREM TypeCorrect == Spec => []TypeOK
<1>1. Spec => []TInv
  BY TypesInit, TypesNext, PTL DEF Spec
<1> QED BY <1>1, TypesImply, PTL

-------------------------------------------------------------------------------
(* Regions that drop their state                                           *)

(* The state of a region gets to the end of the body unless a region on the  *)
(* way drops it, as loops do, and an scf.if of which stmtMayReturn said that *)
(* nothing in it returns.  So the inductive invariant says that nothing in   *)
(* a region that drops its state returns (Dropping), and that only the       *)
(* innermost region can know of a return (Innermost): whatever follows is    *)
(* under a guard.                                                          *)
Silent(b, frame) ==
  frame.flag # "yes" /\ \A k \in DOMAIN frame.todo : frame.todo[k].node \in Quiet(b)

Dropping(b, fs) ==
  \A i \in DOMAIN fs : \A j \in DOMAIN fs :
    i <= j /\ j # Len(fs) /\ ~fs[j].yields => Silent(b, fs[i])

Innermost(fs) == \A i \in DOMAIN fs : i # 1 => fs[i].flag # "yes"

RInv ==
  /\ Innermost(frames)
  /\ Dropping(body, frames)
  /\ frames = <<>> <=> result # Running

LEMMA QuietClosed ==
  ASSUME NEW b, NEW n \in Quiet(b)
  PROVE  b[n].kind # "return" /\ \A i \in DOMAIN b[n].kids : b[n].kids[i] \in Quiet(b)
<1>1. PICK S \in SUBSET DOMAIN b : n \in S /\ WithoutReturn(b, S)
  BY DEF Quiet
<1>2. S \subseteq Quiet(b)
  BY <1>1 DEF Quiet
<1> QED BY <1>1, <1>2 DEF WithoutReturn

(* stmtMayReturn finds every return that is in no loop. *)
LEMMA MayReturnFinds ==
  ASSUME body \in Bodies, ReturnsOutsideLoops(body), NEW n \in DOMAIN body, ~MayReturn(n)
  PROVE  n \in Quiet(body)
<1>1. PICK may \in [DOMAIN body -> BOOLEAN] :
        \A m \in DOMAIN body : MayReturn(m) = may[m] /\ may[m] = MayGiven(may, m)
  BY MayReturnUnfolds
<1> DEFINE S == {m \in DOMAIN body : ~may[m]} \cup Quiet(body)
<1>2. S \in SUBSET DOMAIN body
  BY DEF Quiet
<1>3. n \in S
  BY <1>1
<1>4. ASSUME NEW m \in S
      PROVE  body[m].kind # "return" /\ \A i \in DOMAIN body[m].kids : body[m].kids[i] \in S
  <2>1. CASE m \in Quiet(body)
    BY <2>1, QuietClosed
  <2>2. CASE m \in DOMAIN body /\ ~may[m]
    <3>1. ~MayGiven(may, m)
      BY <2>2, <1>1
    <3>2. body[m].kind # "return"
      BY <3>1 DEF MayGiven
    <3>3. body[m] \in [kind : Kinds, kids : Seq(Nat)] /\ \A i \in DOMAIN body[m].kids : body[m].kids[i] \in DOMAIN body
      BY <2>2, BodyShape, ElementOfSeq
    <3>4. CASE body[m].kind \in {"block", "if"}
      <4>1. \A i \in DOMAIN body[m].kids : ~may[body[m].kids[i]]
        BY <3>1, <3>2, <3>4 DEF MayGiven, Kids
      <4> QED BY <3>2, <3>3, <4>1
    <3>5. CASE body[m].kind \in {"while", "for"}
      BY <2>2, <3>2, <3>5 DEF ReturnsOutsideLoops
    <3>6. CASE body[m].kind = "plain"
      <4>1. body[m].kids = <<>>
        BY <2>2, <3>6, BodiesAssumption DEF IsBody
      <4> QED BY <3>2, <4>1
    <3> QED BY <3>2, <3>3, <3>4, <3>5, <3>6 DEF Kinds
  <2> QED BY <2>1, <2>2
<1>5. WithoutReturn(body, S)
  BY <1>4 DEF WithoutReturn
<1> HIDE DEF S
<1> QED BY <1>2, <1>3, <1>5 DEF Quiet

(* A change of the innermost region. *)
LEMMA ChangeDrops ==
  ASSUME NEW F, NEW fs \in Seq(F), fs # <<>>, NEW t \in F, NEW b,
         Innermost(fs), Dropping(b, fs),
         t.yields = Head(fs).yields, Silent(b, Head(fs)) => Silent(b, t)
  PROVE  Innermost(<<t>> \o Tail(fs)) /\ Dropping(b, <<t>> \o Tail(fs))
<1> DEFINE new == <<t>> \o Tail(fs)
<1>1. /\ Len(fs) \in Nat /\ Len(fs) >= 1 /\ DOMAIN fs = 1 .. Len(fs) /\ fs[1] = Head(fs)
      /\ Len(new) = Len(fs) /\ DOMAIN new = 1 .. Len(fs) /\ new[1] = t
      /\ \A i \in 1 .. Len(fs) : i # 1 => new[i] = fs[i]
  OBVIOUS
<1> HIDE DEF new
<1>2. Innermost(new)
  BY <1>1 DEF Innermost
<1>3. ASSUME NEW i \in DOMAIN new, NEW j \in DOMAIN new, i <= j, j # Len(new), ~new[j].yields
      PROVE  Silent(b, new[i])
  <2>1. ~fs[j].yields /\ j # Len(fs) /\ i \in DOMAIN fs /\ j \in DOMAIN fs
    BY <1>1, <1>3
  <2>2. Silent(b, fs[i])
    BY <1>3, <2>1 DEF Dropping
  <2> QED BY <1>1, <2>1, <2>2
<1>4. Dropping(b, new)
  BY <1>3 DEF Dropping
<1> QED BY <1>2, <1>4 DEF new

(* A region that is entered. *)
LEMMA EntryDrops ==
  ASSUME NEW F, NEW fs \in Seq(F), fs # <<>>, NEW r \in F, NEW t \in F, NEW b,
         Innermost(fs), Dropping(b, fs),
         t.yields = Head(fs).yields, t.flag # "yes",
         Silent(b, Head(fs)) => Silent(b, t) /\ Silent(b, r),
         ~r.yields => Silent(b, r)
  PROVE  Innermost(<<r, t>> \o Tail(fs)) /\ Dropping(b, <<r, t>> \o Tail(fs))
<1> DEFINE below == <<t>> \o Tail(fs)
           new == <<r>> \o below
<1>1. /\ Len(fs) \in Nat /\ Len(fs) >= 1 /\ DOMAIN fs = 1 .. Len(fs) /\ fs[1] = Head(fs)
      /\ below \in Seq(F) /\ Len(below) = Len(fs) /\ DOMAIN below = 1 .. Len(fs) /\ below[1] = t
      /\ \A i \in 1 .. Len(fs) : i # 1 => below[i] = fs[i]
  OBVIOUS
<1> HIDE DEF below
<1>2. /\ Len(new) = Len(fs) + 1 /\ DOMAIN new = 1 .. Len(fs) + 1 /\ new[1] = r
      /\ \A i \in 1 .. Len(fs) + 1 : i # 1 => new[i] = below[i - 1]
  BY <1>1, Pushed
<1> HIDE DEF new
<1>3. ASSUME NEW i \in DOMAIN new, i # 1
      PROVE  new[i].flag # "yes"
  <2>1. i - 1 \in 1 .. Len(fs) /\ new[i] = below[i - 1]
    BY <1>1, <1>2, <1>3
  <2>2. CASE i = 2
    BY <2>1, <2>2, <1>1
  <2>3. CASE i # 2
    <3>1. i - 1 # 1 /\ below[i - 1] = fs[i - 1]
      BY <2>1, <2>3, <1>1, <1>2
    <3> QED BY <2>1, <3>1, <1>1 DEF Innermost
  <2> QED BY <2>2, <2>3
<1>4. ASSUME NEW i \in DOMAIN new, NEW j \in DOMAIN new, i <= j, j # Len(new), ~new[j].yields
      PROVE  Silent(b, new[i])
  <2>1. CASE j = 1
    <3>1. i = 1
      BY <2>1, <1>2, <1>4
    <3> QED BY <2>1, <3>1, <1>2, <1>4
  <2>2. CASE j # 1
    <3> DEFINE m == j - 1
    <3>1. m \in 1 .. Len(fs) /\ m # Len(fs) /\ new[j] = below[m]
      BY <2>2, <1>1, <1>2, <1>4
    <3>2. ~fs[m].yields
      BY <3>1, <1>1, <1>4
    <3>3. \A k \in 1 .. Len(fs) : k <= m => Silent(b, fs[k])
      BY <3>1, <3>2, <1>1 DEF Dropping
    <3>4. Silent(b, t) /\ Silent(b, r)
      <4>1. 1 \in 1 .. Len(fs) /\ 1 <= m
        BY <3>1, <1>1
      <4> QED BY <4>1, <3>3, <1>1
    <3>5. CASE i = 1
      BY <3>4, <3>5, <1>2
    <3>6. CASE i # 1
      <4>1. i - 1 \in 1 .. Len(fs) /\ i - 1 <= m /\ new[i] = below[i - 1]
        BY <3>1, <3>6, <1>1, <1>2, <1>4
      <4>2. CASE i - 1 = 1
        BY <4>1, <4>2, <3>4, <1>1
      <4>3. CASE i - 1 # 1
        BY <4>1, <4>3, <3>3, <1>1
      <4> QED BY <4>2, <4>3
    <3> QED BY <3>5, <3>6
  <2> QED BY <2>1, <2>2
<1>5. Innermost(new) /\ Dropping(b, new)
  BY <1>3, <1>4 DEF Innermost, Dropping
<1>6. <<r, t>> \o Tail(fs) = new
  BY TwoPushed, Opened DEF new, below
<1> QED BY <1>5, <1>6

(* The innermost region ends. *)
LEMMA LeaveDrops ==
  ASSUME NEW F, NEW fs \in Seq(F), Len(fs) > 1, NEW t \in F, NEW b,
         Innermost(fs), Dropping(b, fs),
         t.yields = fs[2].yields, Silent(b, fs[1]) /\ Silent(b, fs[2]) => Silent(b, t)
  PROVE  Innermost(<<t>> \o Tail(Tail(fs))) /\ Dropping(b, <<t>> \o Tail(Tail(fs)))
<1> DEFINE new == <<t>> \o Tail(Tail(fs))
<1>1. /\ Len(fs) \in Nat /\ DOMAIN fs = 1 .. Len(fs)
      /\ Len(new) = Len(fs) - 1 /\ DOMAIN new = 1 .. Len(fs) - 1 /\ new[1] = t
      /\ \A i \in 1 .. Len(fs) - 1 : i # 1 => new[i] = fs[i + 1]
  <2> DEFINE below == Tail(fs)
             rest == Tail(below)
  <2>1. fs # <<>> /\ Len(fs) \in Nat /\ DOMAIN fs = 1 .. Len(fs)
    BY EmptySeq, LenProperties
  <2>2. /\ below \in Seq(F) /\ Len(below) = Len(fs) - 1
        /\ \A i \in 1 .. Len(fs) - 1 : below[i] = fs[i + 1]
    BY <2>1, Opened
  <2> HIDE DEF below
  <2>3. below # <<>>
    BY <2>1, <2>2, EmptySeq
  <2>4. /\ rest \in Seq(F) /\ Len(rest) = Len(fs) - 2
        /\ \A i \in 1 .. Len(fs) - 2 : rest[i] = below[i + 1]
    <3>1. /\ rest \in Seq(F) /\ Len(rest) = Len(below) - 1 /\ DOMAIN rest = 1 .. Len(below) - 1
          /\ \A i \in DOMAIN rest : rest[i] = below[i + 1]
      BY <2>2, <2>3, Opened
    <3> HIDE DEF rest
    <3>2. Len(below) - 1 = Len(fs) - 2
      BY <2>1, <2>2
    <3> QED BY <3>1, <3>2
  <2> HIDE DEF rest
  <2>5. new = <<t>> \o rest
    BY DEF rest, below
  <2> HIDE DEF new
  <2>6. /\ Len(new) = Len(fs) - 1 /\ DOMAIN new = 1 .. Len(fs) - 1 /\ new[1] = t
        /\ \A i \in 1 .. Len(fs) - 1 : i # 1 => new[i] = rest[i - 1]
    <3>1. /\ Len(new) = Len(rest) + 1 /\ DOMAIN new = 1 .. Len(rest) + 1 /\ new[1] = t
          /\ \A i \in DOMAIN new : i # 1 => new[i] = rest[i - 1]
      BY <2>4, <2>5, Pushed
    <3>2. Len(rest) + 1 = Len(fs) - 1
      BY <2>1, <2>4
    <3> QED BY <3>1, <3>2
  <2>7. ASSUME NEW i \in 1 .. Len(fs) - 1, i # 1
        PROVE  new[i] = fs[i + 1]
    <3>1. i - 1 \in 1 .. Len(fs) - 2 /\ (i - 1) + 1 = i
      BY <2>1, <2>7
    <3> QED BY <2>2, <2>4, <2>6, <2>7, <3>1
  <2> QED BY <2>1, <2>6, <2>7
<1> HIDE DEF new
<1>2. Innermost(new)
  <2> SUFFICES ASSUME NEW i \in DOMAIN new, i # 1 PROVE new[i].flag # "yes"
    BY DEF Innermost
  <2>1. i + 1 \in DOMAIN fs /\ i + 1 # 1 /\ new[i] = fs[i + 1]
    BY <1>1
  <2> QED BY <2>1 DEF Innermost
<1>3. ASSUME NEW i \in DOMAIN new, NEW j \in DOMAIN new, i <= j, j # Len(new), ~new[j].yields
      PROVE  Silent(b, new[i])
  <2>1. ~fs[j + 1].yields /\ j + 1 # Len(fs) /\ j + 1 \in DOMAIN fs
    BY <1>1, <1>3
  <2>2. \A k \in DOMAIN fs : k <= j + 1 => Silent(b, fs[k])
    BY <2>1 DEF Dropping
  <2>3. CASE i = 1
    <3>1. 1 \in DOMAIN fs /\ 2 \in DOMAIN fs /\ 1 <= j + 1 /\ 2 <= j + 1
      BY <1>1, <1>3
    <3> QED BY <2>2, <2>3, <3>1, <1>1
  <2>4. CASE i # 1
    <3>1. i + 1 \in DOMAIN fs /\ i + 1 <= j + 1 /\ new[i] = fs[i + 1]
      BY <1>1, <1>3, <2>4
    <3> QED BY <2>2, <3>1
  <2> QED BY <2>3, <2>4
<1>4. Dropping(b, new)
  BY <1>3 DEF Dropping
<1> QED BY <1>2, <1>4 DEF new

LEMMA FramesSeq ==
  ASSUME TInv
  PROVE  frames \in Seq(FramesOf(body)) /\ body \in Bodies
BY DEF TInv

(* What is entered, or left to do, in a silent region is silent.           *)
LEMMA SilentStatement ==
  ASSUME TInv, Executing, Silent(body, Top)
  PROVE  /\ Stmt.node \in Quiet(body)
         /\ \A k \in DOMAIN Tail(Top.todo) : Tail(Top.todo)[k].node \in Quiet(body)
<1>1. Top.todo \in Seq(ItemsOf(body)) /\ Top.todo # <<>>
  BY NextStatement DEF FramesOf, Executing
<1> QED BY <1>1, Opened DEF Silent, Stmt

LEMMA QuietKids ==
  ASSUME body \in Bodies, NEW n \in DOMAIN body,
         \A i \in DOMAIN Kids(n) : Kids(n)[i] \in Quiet(body)
  PROVE  /\ \A k \in DOMAIN Items(Kids(n)) : Items(Kids(n))[k].node \in Quiet(body)
         /\ body[n].kind = "if" => \A taken \in BOOLEAN :
              \A k \in DOMAIN Branch(n, taken) : Branch(n, taken)[k].node \in Quiet(body)
         /\ body[n].kind \in {"while", "for"} =>
              \A k \in DOMAIN <<Item(Kids(n)[1])>> : <<Item(Kids(n)[1])>>[k].node \in Quiet(body)
<1>1. \A k \in DOMAIN Items(Kids(n)) : Items(Kids(n))[k].node \in Quiet(body)
  BY KidItems
<1>2. ASSUME body[n].kind \in {"if", "while", "for"}
      PROVE  /\ \A k \in DOMAIN <<Item(Kids(n)[1])>> : <<Item(Kids(n)[1])>>[k].node \in Quiet(body)
             /\ \A k \in DOMAIN Items(Tail(Kids(n))) : Items(Tail(Kids(n)))[k].node \in Quiet(body)
  BY <1>2, KidItems DEF Item
<1>3. ASSUME body[n].kind = "if", NEW taken \in BOOLEAN
      PROVE  \A k \in DOMAIN Branch(n, taken) : Branch(n, taken)[k].node \in Quiet(body)
  BY <1>2, <1>3 DEF Branch
<1> QED BY <1>1, <1>2, <1>3

LEMMA RegionSilent ==
  ASSUME NEW todo, NEW yields, \A k \in DOMAIN todo : todo[k].node \in Quiet(body)
  PROVE  Silent(body, Region(todo, yields))
BY DEF Region, Silent

(* The region of a statement that stmtMayReturn clears, or that is quiet.    *)
LEMMA QuietOf ==
  ASSUME TInv, ReturnsOutsideLoops(body), Executing, Silent(body, Top) \/ ~MayReturn(Stmt.node)
  PROVE  /\ Stmt.node \in Quiet(body)
         /\ \A i \in DOMAIN Kids(Stmt.node) : Kids(Stmt.node)[i] \in Quiet(body)
<1>1. Stmt.node \in Quiet(body)
  BY FramesSeq, NextStatement, SilentStatement, MayReturnFinds
<1> QED BY <1>1, QuietClosed DEF Kids

LEMMA DropsInit == Init => RInv
<1> SUFFICES ASSUME Init PROVE RInv
  OBVIOUS
<1> DEFINE r == Region(<<Item(1)>>, FALSE)
<1>1. frames = <<r>>
  BY DEF Init
<1> HIDE DEF r
<1>2. frames # <<>> /\ DOMAIN frames = {1} /\ Len(frames) = 1
  BY <1>1
<1>3. Innermost(frames) /\ Dropping(body, frames)
  BY <1>2 DEF Innermost, Dropping
<1> QED BY <1>2, <1>3 DEF Init, RInv

LEMMA DropsNext ==
  ASSUME \A b \in Bodies : ReturnsOutsideLoops(b)
  PROVE  TInv /\ RInv /\ [Next]_vars => RInv'
<1> SUFFICES ASSUME TInv, RInv, [Next]_vars PROVE RInv'
  OBVIOUS
<1> USE DEF At
<1>0. /\ body \in Bodies /\ ReturnsOutsideLoops(body)
      /\ frames \in Seq(FramesOf(body)) /\ Innermost(frames) /\ Dropping(body, frames)
  BY FramesSeq DEF RInv
<1>a. ASSUME Executing, body' = body, result' = result, NEW t \in FramesOf(body),
             frames' = <<t>> \o Below, t.yields = Top.yields, Silent(body, Top) => Silent(body, t)
      PROVE  RInv'
  <2>1. frames # <<>> /\ result = Running
    BY <1>a DEF Executing
  <2>2. Innermost(frames') /\ Dropping(body', frames')
    BY <1>0, <1>a, <2>1, ChangeDrops DEF Top, Below
  <2>3. frames' # <<>>
    BY <1>0, <1>a, <2>1, Opened, Pushed DEF Below
  <2> QED BY <1>a, <2>1, <2>2, <2>3 DEF RInv
<1>b. ASSUME Executing, body' = body, result' = result,
             NEW r \in FramesOf(body), NEW t \in FramesOf(body), frames' = <<r, t>> \o Below,
             t.yields = Top.yields, t.flag # "yes",
             Silent(body, Top) => Silent(body, t) /\ Silent(body, r), ~r.yields => Silent(body, r)
      PROVE  RInv'
  <2>1. frames # <<>> /\ result = Running
    BY <1>b DEF Executing
  <2>2. Innermost(frames') /\ Dropping(body', frames')
    BY <1>0, <1>b, <2>1, EntryDrops DEF Top, Below
  <2>3. frames' # <<>>
    BY <1>0, <1>b, <2>1, Opened DEF Below
  <2> QED BY <1>b, <2>1, <2>2, <2>3 DEF RInv
<1>c. ASSUME Executing
      PROVE  /\ Rest \in FramesOf(body) /\ Rest.yields = Top.yields /\ Rest.flag = Top.flag
             /\ Silent(body, Top) => Silent(body, Rest)
             /\ Top \in FramesOf(body) /\ Stmt.node \in DOMAIN body
  <2>1. Silent(body, Top) => Silent(body, Rest)
    BY <1>c, NextStatement, SilentStatement DEF Silent
  <2> QED BY <1>c, <2>1, NextStatement
<1>1. CASE Plain
  BY <1>1, <1>a, <1>c DEF Plain
<1>2. CASE Block
  <2> DEFINE kids == Items(Kids(Stmt.node))
             t == [Top EXCEPT !.todo = kids \o Tail(@)]
  <2>1. /\ Executing /\ body' = body /\ result' = result /\ frames' = <<t>> \o Below
        /\ Top \in FramesOf(body) /\ Stmt.node \in DOMAIN body
        /\ Tail(Top.todo) \in Seq(ItemsOf(body)) /\ kids \in Seq(ItemsOf(body))
    BY <1>0, <1>2, NextStatement, KidItems DEF Block
  <2>2. /\ t \in FramesOf(body) /\ t.yields = Top.yields /\ t.flag = Top.flag
        /\ t.todo = kids \o Tail(Top.todo)
    <3> HIDE DEF kids
    <3>1. kids \o Tail(Top.todo) \in Seq(ItemsOf(body))
      BY <2>1, ConcatProperties
    <3> QED BY <2>1, <3>1 DEF FramesOf
  <2>3. ASSUME Silent(body, Top)
        PROVE  Silent(body, t)
    <3>1. /\ \A k \in DOMAIN Tail(Top.todo) : Tail(Top.todo)[k].node \in Quiet(body)
          /\ \A k \in DOMAIN kids : kids[k].node \in Quiet(body)
      BY <1>0, <2>1, <2>3, SilentStatement, QuietOf, QuietKids
    <3> HIDE DEF kids, t
    <3>2. \A k \in DOMAIN (kids \o Tail(Top.todo)) : (kids \o Tail(Top.todo))[k].node \in Quiet(body)
      BY <2>1, <3>1
    <3> QED BY <2>2, <2>3, <3>2 DEF Silent
  <2> HIDE DEF t
  <2> QED BY <1>a, <2>1, <2>2, <2>3
<1>3. CASE If
  <2>1. PICK taken \in BOOLEAN :
          frames' = <<Region(Branch(Stmt.node, taken), MayReturn(Stmt.node)), Rest>> \o Below
    BY <1>3 DEF If
  <2> DEFINE r == Region(Branch(Stmt.node, taken), MayReturn(Stmt.node))
  <2>2. /\ Executing /\ body' = body /\ result' = result /\ body[Stmt.node].kind = "if"
        /\ Stmt.node \in DOMAIN body /\ Rest.flag # "yes"
    BY <1>3, <1>c DEF If
  <2>3. r \in FramesOf(body) /\ r.yields = MayReturn(Stmt.node)
    BY <1>0, <2>2, RegionsOfStatement, RegionType
  <2>4. ASSUME Silent(body, Top) \/ ~MayReturn(Stmt.node)
        PROVE  Silent(body, r)
    BY <1>0, <2>2, <2>4, QuietOf, QuietKids, RegionSilent
  <2>5. frames' = <<r, Rest>> \o Below
    BY <2>1
  <2> HIDE DEF r
  <2> QED BY <1>b, <1>c, <2>2, <2>3, <2>4, <2>5
<1>4. CASE While \/ For
  <2> DEFINE r == Region(<<Item(Kids(Stmt.node)[1])>>, FALSE)
  <2>1. /\ Executing /\ body' = body /\ result' = result /\ body[Stmt.node].kind \in {"while", "for"}
        /\ Stmt.node \in DOMAIN body /\ Top.flag # "yes"
    BY <1>4, <1>c DEF While, For
  <2>2. r \in FramesOf(body)
    <3>1. <<Item(Kids(Stmt.node)[1])>> \in Seq(ItemsOf(body))
      BY <1>0, <2>1, KidItems, RegionsOfStatement
    <3> QED BY <1>0, <3>1, RegionType
  <2>3. Silent(body, r)
    <3>1. \A i \in DOMAIN Kids(Stmt.node) : Kids(Stmt.node)[i] \in Quiet(body)
      BY <1>0, <2>1 DEF ReturnsOutsideLoops, Kids
    <3> QED BY <1>0, <2>1, <3>1, QuietKids, RegionSilent
  <2> HIDE DEF r
  <2>4. CASE frames' = <<r>> \o frames
    <3>1. frames' = <<r, Top>> \o Below
      <4>1. frames # <<>> /\ Below \in Seq(FramesOf(body)) /\ Top \in FramesOf(body)
        BY <2>1, NextStatement DEF Executing
      <4>2. frames = <<Top>> \o Below
        BY <4>1, FramesOpened
      <4>3. <<r, Top>> \o Below = <<r>> \o (<<Top>> \o Below)
        BY <2>2, <4>1, TwoPushed
      <4> QED BY <2>4, <4>2, <4>3, Zenon
    <3> QED BY <1>b, <1>c, <2>1, <2>2, <2>3, <3>1
  <2>5. CASE frames' = <<Rest>> \o Below
    BY <1>a, <1>c, <2>1, <2>5
  <2> QED BY <1>4, <2>4, <2>5 DEF While, For, r
<1>5. CASE ForBounds
  <2> DEFINE t == [Top EXCEPT !.todo = <<Entered(Stmt.node)>> \o Tail(@)]
  <2>1. /\ Executing /\ body' = body /\ result' = result /\ frames' = <<t>> \o Below
        /\ Top \in FramesOf(body) /\ Stmt.node \in DOMAIN body
        /\ Tail(Top.todo) \in Seq(ItemsOf(body)) /\ Entered(Stmt.node) \in ItemsOf(body)
        /\ Entered(Stmt.node).node = Stmt.node
    BY <1>5, NextStatement DEF ForBounds, Entered, ItemsOf
  <2> DEFINE next == <<Entered(Stmt.node)>> \o Tail(Top.todo)
  <2>2. t \in FramesOf(body) /\ t.yields = Top.yields /\ t.flag = Top.flag /\ t.todo = next
    <3>1. next \in Seq(ItemsOf(body))
      BY <2>1, Pushed
    <3> HIDE DEF next
    <3>2. t = [Top EXCEPT !.todo = next]
      BY DEF next
    <3> QED BY <2>1, <3>1, <3>2 DEF FramesOf
  <2>3. ASSUME Silent(body, Top)
        PROVE  Silent(body, t)
    <3>1. /\ \A k \in DOMAIN Tail(Top.todo) : Tail(Top.todo)[k].node \in Quiet(body)
          /\ Stmt.node \in Quiet(body)
      BY <2>1, <2>3, SilentStatement
    <3>2. \A k \in DOMAIN next : next[k].node \in Quiet(body)
      BY <2>1, <3>1, Pushed
    <3> HIDE DEF next, t
    <3> QED BY <2>2, <2>3, <3>2 DEF Silent
  <2> HIDE DEF t
  <2> QED BY <1>a, <2>1, <2>2, <2>3
<1>6. CASE Return
  <2> DEFINE t == [Rest EXCEPT !.flag = "yes", !.value = Stmt.node]
  <2>1. /\ Executing /\ body' = body /\ result' = result /\ frames' = <<t>> \o Below
        /\ body[Stmt.node].kind = "return"
    BY <1>6 DEF Return
  <2>2. t \in FramesOf(body) /\ t.yields = Top.yields
    BY <1>c, <2>1 DEF FramesOf
  <2>3. ~Silent(body, Top)
    BY <2>1, SilentStatement, QuietClosed
  <2> HIDE DEF t
  <2> QED BY <1>a, <2>1, <2>2, <2>3
<1>7. CASE Guard
  <2> DEFINE r == Region(<<Stmt>>, MayReturn(Stmt.node))
  <2>1. /\ Executing /\ body' = body /\ result' = result
        /\ Stmt.node \in DOMAIN body /\ Stmt \in ItemsOf(body)
    BY <1>7, <1>c, NextStatement DEF Guard
  <2>2. r \in FramesOf(body) /\ r.yields = MayReturn(Stmt.node)
    BY <1>0, <2>1, RegionsOfStatement, RegionType
  <2>3. ASSUME Silent(body, Top) \/ ~MayReturn(Stmt.node)
        PROVE  Silent(body, r)
    BY <1>0, <2>1, <2>3, QuietOf, RegionSilent
  <2> HIDE DEF r
  <2>4. CASE Top.flag = "no" /\ frames' = <<r, Rest>> \o Below
    BY <1>b, <1>c, <2>1, <2>2, <2>3, <2>4
  <2>5. CASE frames' = <<Rest>> \o Below
    BY <1>a, <1>c, <2>1, <2>5
  <2> QED BY <1>7, <2>4, <2>5 DEF Guard, r
<1>8. CASE Yield
  <2> DEFINE outer == Head(Below)
             t == IF Top.yields THEN Merged(Top, outer) ELSE outer
  <2>1. /\ Len(frames) > 1 /\ body' = body /\ result' = result /\ frames' = <<t>> \o Tail(Below)
        /\ Top = frames[1] /\ outer = frames[2]
        /\ Top \in FramesOf(body) /\ outer \in FramesOf(body)
        /\ Tail(Below) \in Seq(FramesOf(body)) /\ frames # <<>>
    <3>1. /\ Len(frames) > 1 /\ body' = body /\ result' = result
          /\ frames' = <<t>> \o Tail(Below)
      BY <1>8 DEF Yield
    <3>2. frames # <<>>
      BY <1>0, <3>1, EmptySeq
    <3>3. /\ Top = frames[1] /\ Top \in FramesOf(body) /\ Below \in Seq(FramesOf(body))
          /\ Len(Below) = Len(frames) - 1 /\ \A i \in DOMAIN Below : Below[i] = frames[i + 1]
      BY <1>0, <3>2, Opened DEF Top, Below
    <3>4. Below # <<>>
      BY <1>0, <3>1, <3>3, EmptySeq
    <3>5. /\ outer = Below[1] /\ outer \in FramesOf(body) /\ 1 \in DOMAIN Below
          /\ Tail(Below) \in Seq(FramesOf(body))
      BY <3>3, <3>4, Opened
    <3> QED BY <3>1, <3>2, <3>3, <3>5
  <2>2. /\ t \in FramesOf(body) /\ t.yields = outer.yields /\ t.todo = outer.todo
        /\ Top.flag # "yes" /\ outer.flag # "yes" => t.flag # "yes"
    BY <2>1 DEF Merged, FramesOf
  <2> HIDE DEF t, outer
  <2>3. Silent(body, Top) /\ Silent(body, outer) => Silent(body, t)
    BY <2>2 DEF Silent
  <2>4. Innermost(frames') /\ Dropping(body', frames')
    BY <1>0, <2>1, <2>2, <2>3, LeaveDrops DEF Below
  <2>5. frames' # <<>>
    BY <2>1, <2>2, Pushed
  <2> QED BY <2>1, <2>4, <2>5 DEF RInv
<1>9. CASE FuncReturn
  <2>1. Top \in FramesOf(body) /\ frames' = <<>> /\ result' = Top.value /\ body' = body
    <3>0. Len(frames) = 1
      BY <1>9 DEF FuncReturn
    <3>1. frames' = <<>> /\ result' = Top.value /\ body' = body
      BY <1>9 DEF FuncReturn
    <3>2. frames # <<>>
      BY ONLY <3>0, <1>0, EmptySeq
    <3>3. Top \in FramesOf(body)
      BY <1>0, <3>2, Opened DEF Top
    <3> QED BY <3>1, <3>3
  <2>2. result' # Running
    BY <1>0, <2>1, BodyShape DEF FramesOf, Running, Default
  <2> QED BY <2>1, <2>2 DEF RInv, Innermost, Dropping
<1>10. CASE UNCHANGED vars
  BY <1>10 DEF vars, RInv
<1> QED BY <1>1, <1>2, <1>3, <1>4, <1>5, <1>6, <1>7, <1>8, <1>9, <1>10 DEF Next
-------------------------------------------------------------------------------
(* The lowering implements FunctionBody                                    *)

TodosOf(fs) == [i \in DOMAIN fs |-> fs[i].todo]
Flat(fs)    == FlattenSeq(TodosOf(fs))

ReturnedOf(fs) == {i \in DOMAIN fs : fs[i].flag = "yes"}
ControlOf(fs)  == IF ReturnedOf(fs) # {} THEN <<>> ELSE Flat(fs)
GivenOf(fs, res) ==
  IF ReturnedOf(fs) # {} /\ res = Running
  THEN fs[CHOOSE i \in ReturnedOf(fs) : \A j \in ReturnedOf(fs) : i <= j].value
  ELSE res

LEMMA MappedState ==
  /\ Control = ControlOf(frames) /\ Control' = ControlOf(frames')
  /\ Given = GivenOf(frames, result) /\ Given' = GivenOf(frames', result')
BY DEF Control, Given, Returned, Todos, ControlOf, GivenOf, ReturnedOf, Flat, TodosOf

LEMMA TodosType ==
  ASSUME NEW b, NEW fs \in Seq(FramesOf(b))
  PROVE  TodosOf(fs) \in Seq(Seq(ItemsOf(b)))
<1>1. ASSUME NEW i \in 1 .. Len(fs)
      PROVE  fs[i].todo \in Seq(ItemsOf(b))
  <2>1. fs[i] \in FramesOf(b)
    BY ElementOfSeq
  <2> QED BY <2>1 DEF FramesOf
<1>2. DOMAIN fs = 1 .. Len(fs) /\ Len(fs) \in Nat
  BY LenProperties
<1> QED BY <1>1, <1>2 DEF TodosOf

(* What is left to do is what the innermost region has left, and then the    *)
(* regions around it.                                                      *)
LEMMA FlatPushed ==
  ASSUME NEW b, NEW fs \in Seq(FramesOf(b)), NEW t \in FramesOf(b)
  PROVE  Flat(<<t>> \o fs) = t.todo \o Flat(fs) /\ Flat(fs) \in Seq(ItemsOf(b))
<1> DEFINE new == <<t>> \o fs
           todos == TodosOf(fs)
           more == <<t.todo>> \o todos
<1>1. todos \in Seq(Seq(ItemsOf(b))) /\ t.todo \in Seq(ItemsOf(b))
  BY TodosType DEF FramesOf
<1>2. /\ new \in Seq(FramesOf(b)) /\ Len(new) = Len(fs) + 1 /\ new[1] = t
      /\ DOMAIN new = 1 .. Len(fs) + 1 /\ Len(fs) \in Nat /\ DOMAIN fs = 1 .. Len(fs)
      /\ \A i \in 1 .. Len(fs) + 1 : i # 1 => i - 1 \in DOMAIN fs /\ new[i] = fs[i - 1]
  BY Pushed
<1> HIDE DEF new
<1>3. Len(todos) = Len(fs) /\ \A i \in DOMAIN fs : todos[i] = fs[i].todo
  BY <1>1, <1>2 DEF TodosOf
<1> HIDE DEF todos
<1>4. /\ more \in Seq(Seq(ItemsOf(b))) /\ Len(more) = Len(fs) + 1 /\ more[1] = t.todo
      /\ DOMAIN more = 1 .. Len(fs) + 1
      /\ \A i \in 1 .. Len(fs) + 1 : i # 1 => more[i] = todos[i - 1]
  BY <1>1, <1>2, <1>3, Pushed
<1> HIDE DEF more
<1>5. TodosOf(new) \in Seq(Seq(ItemsOf(b))) /\ Len(TodosOf(new)) = Len(fs) + 1
      /\ \A i \in 1 .. Len(fs) + 1 : TodosOf(new)[i] = new[i].todo
  <2>1. TodosOf(new) \in Seq(Seq(ItemsOf(b)))
    BY <1>2, TodosType
  <2>2. DOMAIN TodosOf(new) = 1 .. Len(fs) + 1 /\ \A i \in 1 .. Len(fs) + 1 : TodosOf(new)[i] = new[i].todo
    <3>1. TodosOf(new) = [i \in 1 .. Len(fs) + 1 |-> new[i].todo]
      BY <1>2 DEF TodosOf
    <3> QED BY ONLY <3>1
  <2>3. Len(TodosOf(new)) \in Nat /\ DOMAIN TodosOf(new) = 1 .. Len(TodosOf(new))
    BY <2>1, LenProperties
  <2>4. Len(TodosOf(new)) = Len(fs) + 1
    BY ONLY <1>2, <2>2, <2>3
  <2> QED BY <2>1, <2>2, <2>4
<1>6. ASSUME NEW i \in 1 .. Len(fs) + 1
      PROVE  TodosOf(new)[i] = more[i]
  <2>1. TodosOf(new)[i] = new[i].todo
    BY <1>5
  <2>2. CASE i = 1
    BY <1>2, <1>4, <2>1, <2>2
  <2>3. CASE i # 1
    <3>1. i - 1 \in DOMAIN fs /\ new[i] = fs[i - 1] /\ more[i] = todos[i - 1]
      BY <1>2, <1>4, <2>3
    <3> QED BY <1>3, <2>1, <3>1
  <2> QED BY <2>2, <2>3
<1>7. TodosOf(new) = more
  BY <1>4, <1>5, <1>6, SeqEqual
<1>8. FlattenSeq(more) = t.todo \o FlattenSeq(todos) /\ FlattenSeq(todos) \in Seq(ItemsOf(b))
  BY <1>1, FlattenCons, FlattenSeqType DEF more
<1>9. Flat(<<t>> \o fs) = FlattenSeq(TodosOf(new)) /\ Flat(fs) = FlattenSeq(todos)
  BY DEF Flat, new, todos
<1> QED BY <1>7, <1>8, <1>9, Zenon

LEMMA ControlPushed ==
  ASSUME NEW b, NEW fs \in Seq(FramesOf(b)), NEW t \in FramesOf(b), Innermost(<<t>> \o fs)
  PROVE  /\ ControlOf(<<t>> \o fs) = IF t.flag = "yes" THEN <<>> ELSE t.todo \o Flat(fs)
         /\ GivenOf(<<t>> \o fs, Running) = IF t.flag = "yes" THEN t.value ELSE Running
<1> DEFINE new == <<t>> \o fs
<1>1. new[1] = t /\ 1 \in DOMAIN new /\ DOMAIN new \subseteq Nat
  BY Pushed
<1>2. Innermost(new) /\ Flat(new) = t.todo \o Flat(fs)
  BY FlatPushed
<1> HIDE DEF new
<1>3. ReturnedOf(new) = IF t.flag = "yes" THEN {1} ELSE {}
  BY <1>1, <1>2 DEF ReturnedOf, Innermost
<1>4. CASE t.flag = "yes"
  <2>1. (CHOOSE i \in ReturnedOf(new) : \A j \in ReturnedOf(new) : i <= j) = 1
    BY <1>3, <1>4
  <2>2. ControlOf(new) = <<>>
    BY <1>3, <1>4 DEF ControlOf
  <2>3. GivenOf(new, Running) = new[1].value
    BY <1>3, <1>4, <2>1, Zenon DEF GivenOf
  <2> QED BY <1>1, <1>4, <2>2, <2>3 DEF new
<1>5. CASE t.flag # "yes"
  BY <1>2, <1>3, <1>5 DEF ControlOf, GivenOf, new
<1> QED BY <1>4, <1>5

LEMMA ControlEmpty ==
  /\ Flat(<<>>) = <<>> /\ ControlOf(<<>>) = <<>>
  /\ \A res : GivenOf(<<>>, res) = res
<1>1. ReturnedOf(<<>>) = {}
  BY DEF ReturnedOf
<1>2. TodosOf(<<>>) = <<>>
  BY DEF TodosOf
<1> QED BY <1>1, <1>2, FlattenEmpty DEF Flat, ControlOf, GivenOf

LEMMA SourceInit == Init => Source!Init
<1> SUFFICES ASSUME Init PROVE Source!Init
  OBVIOUS
<1> DEFINE r == Region(<<Item(1)>>, FALSE)
<1>1. body \in Bodies /\ 1 \in DOMAIN body
  BY BodyShape DEF Init
<1>2. <<Item(1)>> \in Seq(ItemsOf(body))
  BY <1>1 DEF Item, ItemsOf
<1>3. r \in FramesOf(body) /\ r.todo = <<Item(1)>> /\ r.flag # "yes"
  BY <1>1, <1>2, RegionType
<1>4. frames = <<r>>
  BY DEF Init
<1> HIDE DEF r
<1>5. frames = <<r>> \o <<>> /\ <<>> \in Seq(FramesOf(body)) /\ Innermost(frames)
  BY <1>3, <1>4 DEF Innermost
<1>6. ControlOf(frames) = r.todo \o Flat(<<>>) /\ GivenOf(frames, Running) = Running
  BY <1>3, <1>5, ControlPushed
<1>7. Control = <<Item(1)>> /\ Given = Running
  BY <1>2, <1>3, <1>6, MappedState, ControlEmpty, ConcatEmptySeq DEF Init
<1> QED BY <1>7 DEF Init, Source!Init, Item, Source!Item, Running, Source!Running

(* The mapped state of a region that executes its next statement. *)
LEMMA ExecutingControl ==
  ASSUME TInv, RInv, Executing
  PROVE  /\ Given = IF Top.flag = "yes" THEN Top.value ELSE Running
         /\ Flat(Below) \in Seq(ItemsOf(body))
         /\ Top.flag = "yes" => Control = <<>>
         /\ Top.flag # "yes" =>
              /\ Control = Top.todo \o Flat(Below)
              /\ Control = <<Stmt>> \o (Rest.todo \o Flat(Below))
              /\ Control # <<>> /\ Head(Control) = Stmt
              /\ Tail(Control) = Rest.todo \o Flat(Below)
<1>1. /\ Top \in FramesOf(body) /\ Below \in Seq(FramesOf(body)) /\ Stmt \in ItemsOf(body)
      /\ Tail(Top.todo) \in Seq(ItemsOf(body)) /\ Rest.todo = Tail(Top.todo)
      /\ Top.todo \in Seq(ItemsOf(body)) /\ Top.todo # <<>> /\ frames # <<>> /\ result = Running
  BY NextStatement DEF Executing, FramesOf
<1>2. frames = <<Top>> \o Below /\ Innermost(frames)
  BY <1>1, FramesOpened DEF RInv
<1>3. /\ Control = IF Top.flag = "yes" THEN <<>> ELSE Top.todo \o Flat(Below)
      /\ Given = IF Top.flag = "yes" THEN Top.value ELSE Running
  BY <1>1, <1>2, ControlPushed, MappedState
<1>4. Flat(Below) \in Seq(ItemsOf(body))
  BY <1>1, FlatPushed
<1> DEFINE rest == Tail(Top.todo)
           below == Flat(Below)
<1>5. Top.todo = <<Stmt>> \o rest /\ <<Stmt>> \in Seq(ItemsOf(body))
  BY <1>1, Opened DEF Stmt
<1>6. rest \in Seq(ItemsOf(body)) /\ below \in Seq(ItemsOf(body))
  BY <1>1, <1>4
<1> HIDE DEF rest, below
<1>7. (<<Stmt>> \o rest) \o below = <<Stmt>> \o (rest \o below)
  BY <1>5, <1>6, ConcatAssociative
<1>8. rest \o below \in Seq(ItemsOf(body))
  BY <1>6, ConcatProperties
<1> DEFINE after == rest \o below
           all == <<Stmt>> \o after
<1>9. all # <<>> /\ Head(all) = Stmt /\ Tail(all) = after
  <2> HIDE DEF after
  <2> QED BY <1>1, <1>8, Pushed DEF after
<1>10. ASSUME Top.flag # "yes"
       PROVE  Control = all
  BY <1>3, <1>5, <1>7, <1>10 DEF below
<1> QED BY <1>1, <1>3, <1>4, <1>9, <1>10 DEF rest, below

(* The mapped state after a change of the innermost region, and after an     *)
(* entry of a region.                                                      *)
LEMMA ChangedControl ==
  ASSUME TInv, Executing, RInv', body' = body, result' = result,
         NEW t \in FramesOf(body), frames' = <<t>> \o Below
  PROVE  /\ Control' = IF t.flag = "yes" THEN <<>> ELSE t.todo \o Flat(Below)
         /\ Given' = IF t.flag = "yes" THEN t.value ELSE Running
<1>1. Below \in Seq(FramesOf(body)) /\ result' = Running
  BY NextStatement DEF Executing
<1>2. Innermost(<<t>> \o Below)
  BY DEF RInv
<1> QED BY <1>1, <1>2, ControlPushed, MappedState

LEMMA EnteredControl ==
  ASSUME TInv, Executing, RInv', body' = body, result' = result,
         NEW r \in FramesOf(body), NEW t \in FramesOf(body), frames' = <<r, t>> \o Below,
         r.flag # "yes"
  PROVE  Control' = r.todo \o (t.todo \o Flat(Below)) /\ Given' = Running
<1> DEFINE fs == <<t>> \o Below
<1>1. Below \in Seq(FramesOf(body)) /\ result' = Running
  BY NextStatement DEF Executing
<1>2. fs \in Seq(FramesOf(body)) /\ Flat(fs) = t.todo \o Flat(Below)
  BY <1>1, Pushed, FlatPushed
<1>3. <<r, t>> \o Below = <<r>> \o fs
  BY <1>1, TwoPushed
<1> HIDE DEF fs
<1>4. Innermost(<<r>> \o fs) /\ frames' = <<r>> \o fs
  BY <1>3 DEF RInv
<1>5. /\ ControlOf(<<r>> \o fs) = r.todo \o Flat(fs)
      /\ GivenOf(<<r>> \o fs, Running) = Running
  BY <1>2, <1>4, ControlPushed
<1>6. Control' = r.todo \o Flat(fs) /\ Given' = Running
  BY <1>1, <1>4, <1>5, MappedState, Zenon
<1> QED BY <1>2, <1>6

LEMMA YieldedControl ==
  ASSUME TInv, RInv, RInv', ReturnsOutsideLoops(body), Yield
  PROVE  Control' = Control /\ Given' = Given
<1> DEFINE outer == Head(Below)
           t == IF Top.yields THEN Merged(Top, outer) ELSE outer
           rest == Tail(Below)
<1>1. /\ Len(frames) > 1 /\ Top.todo = <<>> /\ body' = body /\ result' = result
      /\ frames' = <<t>> \o rest
  BY DEF Yield
<1>2. frames \in Seq(FramesOf(body)) /\ frames # <<>> /\ result = Running
  BY <1>1, FramesSeq, EmptySeq DEF RInv
<1>3. /\ Top = frames[1] /\ Top \in FramesOf(body) /\ Below \in Seq(FramesOf(body))
      /\ Len(Below) = Len(frames) - 1 /\ \A i \in DOMAIN Below : Below[i] = frames[i + 1]
      /\ 1 \in DOMAIN frames /\ 2 \in DOMAIN frames /\ Paired(frames[2])
  BY <1>1, <1>2, Opened DEF Top, Below, TInv
<1>4. Below # <<>>
  BY <1>1, <1>2, <1>3, EmptySeq
<1>5. /\ outer = frames[2] /\ outer \in FramesOf(body) /\ rest \in Seq(FramesOf(body))
      /\ Below = <<outer>> \o rest
  BY <1>3, <1>4, Opened
<1>6. outer.flag # "yes"
  BY <1>3, <1>5 DEF RInv, Innermost
<1>7. /\ t \in FramesOf(body) /\ t.todo = outer.todo
      /\ Top.yields => (t.flag = "yes" <=> Top.flag = "yes") /\ t.value = Top.value
      /\ ~Top.yields => t.flag # "yes"
  BY <1>3, <1>5, <1>6 DEF Merged, FramesOf
<1>8. Top.flag = "yes" => Top.yields
  <2>0. 1 # Len(frames) /\ 1 <= 1
    <3>1. Len(frames) > 1
      BY DEF Yield
    <3> QED BY ONLY <3>1
  <2>1. ~Top.yields => Silent(body, Top)
    BY <2>0, <1>3 DEF RInv, Dropping
  <2> QED BY <2>1 DEF Silent
<1> HIDE DEF outer, t, rest
<1>9. frames = <<Top>> \o Below /\ Innermost(frames) /\ Innermost(frames')
  BY <1>2, FramesOpened DEF RInv
<1>10. /\ Control = IF Top.flag = "yes" THEN <<>> ELSE Top.todo \o Flat(Below)
       /\ Given = IF Top.flag = "yes" THEN Top.value ELSE Running
  <2>1. /\ ControlOf(<<Top>> \o Below) = IF Top.flag = "yes" THEN <<>> ELSE Top.todo \o Flat(Below)
        /\ GivenOf(<<Top>> \o Below, Running) = IF Top.flag = "yes" THEN Top.value ELSE Running
    BY <1>3, <1>9, ControlPushed
  <2> QED BY <2>1, <1>2, <1>9, MappedState, Zenon
<1>11. /\ Control' = IF t.flag = "yes" THEN <<>> ELSE t.todo \o Flat(rest)
       /\ Given' = IF t.flag = "yes" THEN t.value ELSE Running
  BY <1>1, <1>2, <1>5, <1>7, <1>9, ControlPushed, MappedState
<1>12. Flat(Below) = t.todo \o Flat(rest) /\ Flat(Below) \in Seq(ItemsOf(body))
  BY <1>3, <1>5, <1>7, FlatPushed
<1>13. Top.todo \o Flat(Below) = Flat(Below)
  BY <1>1, <1>12, ConcatEmptySeq
<1> QED BY <1>7, <1>8, <1>10, <1>11, <1>12, <1>13

(* The one func.return is the end of a body that no return has ended. *)
LEMMA FuncReturnControl ==
  ASSUME TInv, RInv, RInv', FuncReturn
  PROVE  /\ Control = <<>> /\ Control' = <<>>
         /\ \/ Given' = Given
            \/ Given = Running /\ Given' = Default
<1>1. Len(frames) = 1 /\ Top.todo = <<>> /\ frames' = <<>> /\ result' = Top.value
  BY DEF FuncReturn
<1>2. frames \in Seq(FramesOf(body)) /\ frames # <<>> /\ result = Running
  <2>1. frames \in Seq(FramesOf(body))
    BY FramesSeq
  <2>2. frames # <<>>
    BY ONLY <2>1, <1>1, EmptySeq
  <2> QED BY <2>1, <2>2 DEF RInv
<1>3. /\ Top = frames[1] /\ Top \in FramesOf(body) /\ Below \in Seq(FramesOf(body))
      /\ Len(Below) = 0 /\ Paired(Top)
  BY <1>1, <1>2, Opened DEF Top, Below, TInv
<1>4. Below = <<>>
  BY <1>3, EmptySeq
<1>5. frames = <<Top>> \o Below /\ Innermost(frames)
  BY <1>2, FramesOpened DEF RInv
<1>6. /\ Control = IF Top.flag = "yes" THEN <<>> ELSE Top.todo \o Flat(Below)
      /\ Given = IF Top.flag = "yes" THEN Top.value ELSE Running
  <2>1. /\ ControlOf(<<Top>> \o Below) = IF Top.flag = "yes" THEN <<>> ELSE Top.todo \o Flat(Below)
        /\ GivenOf(<<Top>> \o Below, Running) = IF Top.flag = "yes" THEN Top.value ELSE Running
    BY <1>3, <1>5, ControlPushed
  <2> QED BY <2>1, <1>2, <1>5, MappedState, Zenon
<1>7. Control' = <<>> /\ Given' = Top.value
  BY <1>1, MappedState, ControlEmpty
<1>8. Control = <<>>
  BY <1>1, <1>4, <1>6, ControlEmpty
<1>9. Top.flag # "yes" => Top.value = Default
  BY <1>3 DEF Paired
<1> QED BY <1>6, <1>7, <1>8, <1>9

(* A step of the lowered code is the step of the body of the same name; the *)
(* guards and the ends of regions are none.                                *)
LEMMA SourceNext ==
  ASSUME TInv, RInv, TInv', RInv', ReturnsOutsideLoops(body), [Next]_vars
  PROVE  [Source!Next]_Source!vars
<1> USE DEF At, Source!At, Source!Node, Source!Evaluate, Source!Event, Evaluate, Event,
            Running, Source!Running, Source!Kids, Kids
<1>0. body \in Bodies
  BY DEF TInv
<1>a. ASSUME Executing
      PROVE  /\ Top \in FramesOf(body) /\ Stmt.node \in DOMAIN body
             /\ Below \in Seq(FramesOf(body)) /\ Flat(Below) \in Seq(ItemsOf(body))
             /\ Rest \in FramesOf(body) /\ Rest.todo = Tail(Top.todo) /\ Rest.flag = Top.flag
             /\ Rest.todo \in Seq(ItemsOf(body)) /\ result = Running /\ Stmt \in ItemsOf(body)
  BY <1>a, NextStatement, ExecutingControl DEF Executing
<1>b. ASSUME Executing, Top.flag = "absent"
      PROVE  /\ Given = Running /\ Control # <<>> /\ Head(Control) = Stmt
             /\ Tail(Control) = Rest.todo \o Flat(Below) /\ Control = Top.todo \o Flat(Below)
  BY <1>b, ExecutingControl
<1>1. CASE Plain
  <2>1. Control' = Rest.todo \o Flat(Below) /\ Given' = Running
    BY <1>1, <1>a, ChangedControl DEF Plain
  <2>2. Source!Plain
    BY <1>1, <1>b, <2>1 DEF Plain, Source!Plain
  <2> QED BY <2>2 DEF Source!Next
<1>2. CASE Block
  <2> DEFINE kids == Items(Kids(Stmt.node))
             t == [Top EXCEPT !.todo = kids \o Tail(@)]
  <2>1. /\ kids \in Seq(ItemsOf(body)) /\ t \in FramesOf(body) /\ t.flag = Top.flag
        /\ t.todo = kids \o Rest.todo
    <3>1. kids \in Seq(ItemsOf(body))
      BY <1>0, <1>2, <1>a, KidItems DEF Block
    <3> HIDE DEF kids
    <3>2. kids \o Rest.todo \in Seq(ItemsOf(body))
      BY <1>2, <1>a, <3>1, ConcatProperties DEF Block
    <3> QED BY <1>2, <1>a, <3>1, <3>2 DEF Block, FramesOf
  <2>2. frames' = <<t>> \o Below
    BY <1>2 DEF Block
  <2> HIDE DEF t
  <2>3. Control' = (kids \o Rest.todo) \o Flat(Below) /\ Given' = Running
    BY <1>2, <1>a, <2>1, <2>2, ChangedControl DEF Block
  <2> HIDE DEF kids
  <2>4. (kids \o Rest.todo) \o Flat(Below) = kids \o (Rest.todo \o Flat(Below))
    <3> DEFINE rest == Rest.todo
               below == Flat(Below)
    <3>1. rest \in Seq(ItemsOf(body)) /\ below \in Seq(ItemsOf(body)) /\ kids \in Seq(ItemsOf(body))
      BY <1>2, <1>a, <2>1 DEF Block
    <3> HIDE DEF rest, below
    <3>2. (kids \o rest) \o below = kids \o (rest \o below)
      BY ONLY <3>1, ConcatAssociative
    <3> QED BY <3>2 DEF rest, below
  <2>5. kids = Source!Items(Source!Kids(Stmt.node))
    BY DEF kids, Items, Source!Items, Item, Source!Item
  <2>6. Source!Block
    BY <1>2, <1>b, <2>3, <2>4, <2>5 DEF Block, Source!Block
  <2> QED BY <2>6 DEF Source!Next
<1>3. CASE If
  <2>1. PICK taken \in BOOLEAN :
          /\ trace' = Append(trace, Event(Stmt.node, IF taken THEN "true" ELSE "false"))
          /\ frames' = <<Region(Branch(Stmt.node, taken), MayReturn(Stmt.node)), Rest>> \o Below
    BY <1>3 DEF If
  <2> DEFINE r == Region(Branch(Stmt.node, taken), MayReturn(Stmt.node))
  <2>2. r \in FramesOf(body) /\ r.todo = Branch(Stmt.node, taken) /\ r.flag # "yes"
    BY <1>0, <1>3, <1>a, RegionsOfStatement, RegionType DEF If
  <2>3. frames' = <<r, Rest>> \o Below
    BY <2>1
  <2> HIDE DEF r
  <2>4. Control' = Branch(Stmt.node, taken) \o (Rest.todo \o Flat(Below)) /\ Given' = Running
    BY <1>3, <1>a, <2>2, <2>3, EnteredControl DEF If
  <2>5. Branch(Stmt.node, taken) = Source!Branch(Stmt.node, taken)
    BY DEF Branch, Source!Branch, Items, Source!Items, Item, Source!Item
  <2>6. Source!If
    BY <1>3, <1>b, <2>1, <2>4, <2>5 DEF If, Source!If
  <2> QED BY <2>6 DEF Source!Next
<1>4. CASE While \/ For
  <2> DEFINE r == Region(<<Item(Kids(Stmt.node)[1])>>, FALSE)
  <2>1. Executing /\ Top.flag = "absent" /\ body[Stmt.node].kind \in {"while", "for"}
        /\ body' = body /\ result' = result
    BY <1>4 DEF While, For
  <2>2. r \in FramesOf(body) /\ r.todo = <<Item(Kids(Stmt.node)[1])>> /\ r.flag # "yes"
    <3>1. <<Item(Kids(Stmt.node)[1])>> \in Seq(ItemsOf(body))
      BY <1>0, <1>a, <2>1, KidItems, RegionsOfStatement
    <3> QED BY <1>0, <3>1, RegionType
  <2>3. Source!Item(Source!Kids(Stmt.node)[1]) = Item(Kids(Stmt.node)[1])
    BY DEF Item, Source!Item
  <2> HIDE DEF r
  <2>4. ASSUME frames' = <<r>> \o frames
        PROVE  Control' = <<Item(Kids(Stmt.node)[1])>> \o Control /\ Given' = Running
    <3>1. frames # <<>> /\ Top \in FramesOf(body) /\ Below \in Seq(FramesOf(body))
      BY <1>a, <2>1 DEF Executing
    <3>2. frames = <<Top>> \o Below
      BY <3>1, FramesOpened
    <3>3. <<r, Top>> \o Below = <<r>> \o (<<Top>> \o Below)
      BY <2>2, <3>1, TwoPushed
    <3>4. frames' = <<r, Top>> \o Below
      BY <2>4, <3>2, <3>3, Zenon
    <3>5. Control' = r.todo \o (Top.todo \o Flat(Below)) /\ Given' = Running
      BY <2>1, <2>2, <3>1, <3>4, EnteredControl
    <3> QED BY <1>b, <2>1, <2>2, <3>5, Zenon
  <2>5. ASSUME frames' = <<Rest>> \o Below
        PROVE  Control' = Tail(Control) /\ Given' = Running
    BY <1>a, <1>b, <2>1, <2>5, ChangedControl
  <2>6. CASE While
    <3>1. Source!While
      BY <1>b, <2>1, <2>3, <2>4, <2>5, <2>6 DEF While, Source!While, r
    <3> QED BY <3>1 DEF Source!Next
  <2>7. CASE For
    <3>1. Source!For
      BY <1>b, <2>1, <2>3, <2>4, <2>5, <2>7 DEF For, Source!For, r
    <3> QED BY <3>1 DEF Source!Next
  <2> QED BY <1>4, <2>6, <2>7
<1>5. CASE ForBounds
  <2> DEFINE again == <<Entered(Stmt.node)>>
             t == [Top EXCEPT !.todo = again \o Tail(@)]
  <2>1. /\ again \in Seq(ItemsOf(body)) /\ t \in FramesOf(body) /\ t.flag = Top.flag
        /\ t.todo = again \o Rest.todo
    <3>1. again \in Seq(ItemsOf(body))
      BY <1>5, <1>a DEF ForBounds, Entered, ItemsOf
    <3> HIDE DEF again
    <3>2. again \o Rest.todo \in Seq(ItemsOf(body))
      BY <1>5, <1>a, <3>1, ConcatProperties DEF ForBounds
    <3> QED BY <1>5, <1>a, <3>1, <3>2 DEF ForBounds, FramesOf
  <2>2. frames' = <<t>> \o Below
    BY <1>5 DEF ForBounds
  <2> HIDE DEF t
  <2>3. Control' = (again \o Rest.todo) \o Flat(Below) /\ Given' = Running
    BY <1>5, <1>a, <2>1, <2>2, ChangedControl DEF ForBounds
  <2> HIDE DEF again
  <2>4. (again \o Rest.todo) \o Flat(Below) = again \o (Rest.todo \o Flat(Below))
    <3> DEFINE rest == Rest.todo
               below == Flat(Below)
    <3>1. rest \in Seq(ItemsOf(body)) /\ below \in Seq(ItemsOf(body)) /\ again \in Seq(ItemsOf(body))
      BY <1>5, <1>a, <2>1 DEF ForBounds
    <3> HIDE DEF rest, below
    <3>2. (again \o rest) \o below = again \o (rest \o below)
      BY ONLY <3>1, ConcatAssociative
    <3> QED BY <3>2 DEF rest, below
  <2>5. again = <<Source!Entered(Stmt.node)>>
    BY DEF again, Entered, Source!Entered
  <2>6. Source!ForBounds
    BY <1>5, <1>b, <2>3, <2>4, <2>5 DEF ForBounds, Source!ForBounds
  <2> QED BY <2>6 DEF Source!Next
<1>6. CASE Return
  <2> DEFINE t == [Rest EXCEPT !.flag = "yes", !.value = Stmt.node]
  <2>1. t \in FramesOf(body) /\ t.flag = "yes" /\ t.value = Stmt.node
    BY <1>6, <1>a DEF Return, FramesOf
  <2>2. frames' = <<t>> \o Below
    BY <1>6 DEF Return
  <2> HIDE DEF t
  <2>3. Control' = <<>> /\ Given' = Stmt.node
    BY <1>6, <2>1, <2>2, ChangedControl DEF Return
  <2>4. Source!Return
    BY <1>6, <1>b, <2>3 DEF Return, Source!Return
  <2> QED BY <2>4 DEF Source!Next
<1>7. CASE Guard
  <2>1. Executing /\ body' = body /\ result' = result /\ Top.flag # "absent"
        /\ trace' = trace /\ fuel' = fuel
    BY <1>7 DEF Guard
  <2> DEFINE r == Region(<<Stmt>>, MayReturn(Stmt.node))
  <2>2. Control' = Control /\ Given' = Given
    <3>1. CASE Top.flag = "no"
      <4>1. r \in FramesOf(body) /\ r.todo = <<Stmt>> /\ r.flag # "yes"
        BY <1>0, <1>a, <2>1, RegionsOfStatement, RegionType
      <4>2. frames' = <<r, Rest>> \o Below
        BY <1>7, <3>1 DEF Guard
      <4> HIDE DEF r
      <4>3. Control' = <<Stmt>> \o (Rest.todo \o Flat(Below)) /\ Given' = Running
        BY <1>a, <2>1, <4>1, <4>2, EnteredControl
      <4> QED BY <2>1, <3>1, <4>3, ExecutingControl
    <3>2. CASE Top.flag # "no"
      <4>1. Top.flag = "yes" /\ frames' = <<Rest>> \o Below
        BY <1>7, <1>a, <2>1, <3>2 DEF Guard, FramesOf
      <4>2. Rest.value = Top.value
        BY <2>1, NextStatement
      <4>3. Control' = <<>> /\ Given' = Top.value
        BY <1>a, <2>1, <4>1, <4>2, ChangedControl
      <4> QED BY <2>1, <4>1, <4>3, ExecutingControl
    <3> QED BY <3>1, <3>2
  <2> QED BY <2>1, <2>2 DEF Source!vars
<1>8. CASE Yield
  <2>1. Control' = Control /\ Given' = Given
    BY <1>8, YieldedControl
  <2> QED BY <1>8, <2>1 DEF Yield, Source!vars
<1>9. CASE FuncReturn
  <2>1. /\ Control = <<>> /\ Control' = <<>>
        /\ \/ Given' = Given
           \/ Given = Running /\ Given' = Default
    BY <1>9, FuncReturnControl
  <2>2. body' = body /\ trace' = trace /\ fuel' = fuel
    BY <1>9 DEF FuncReturn
  <2>3. CASE Given' = Given
    BY <2>1, <2>2, <2>3 DEF Source!vars
  <2>4. CASE Given = Running /\ Given' = Default
    <3>1. Source!End
      BY <2>1, <2>2, <2>4 DEF Source!End, Source!Default, Default
    <3> QED BY <3>1 DEF Source!Next
  <2> QED BY <2>1, <2>3, <2>4
<1>10. CASE UNCHANGED vars
  BY <1>10 DEF vars, Source!vars, Control, Given, Returned, Todos
<1> QED BY <1>1, <1>2, <1>3, <1>4, <1>5, <1>6, <1>7, <1>8, <1>9, <1>10 DEF Next

(* "Once a nested region may have returned, execute the following statement *)
(* only on the path where that return did not happen" (MLIRGen.cpp:306):   *)
(* for every body that returns in no loop, the code that MLIRGen emits     *)
(* executes the body, statement by statement, and gives back what the      *)
(* return that ended it gave.                                              *)
THEOREM LoweringIsSound ==
  ASSUME \A b \in Bodies : ReturnsOutsideLoops(b)
  PROVE  Spec => ImplementsSource
<1>1. TInv /\ RInv /\ [Next]_vars => RInv'
  BY DropsNext
<1>2. TInv /\ RInv /\ TInv' /\ RInv' /\ [Next]_vars => [Source!Next]_Source!vars
  <2>1. TInv => ReturnsOutsideLoops(body)
    BY DEF TInv
  <2> QED BY <2>1, SourceNext
<1>3. Spec => [](TInv /\ RInv)
  BY <1>1, TypesInit, TypesNext, DropsInit, PTL DEF Spec
<1> QED BY <1>2, <1>3, SourceInit, PTL DEF Spec, ImplementsSource, Source!Spec

(* A return is evaluated when nothing is left to do, and it stays so.       *)
EventsOf(b) == [node : DOMAIN b, choice : {"done", "true", "false", "bounds"}]

EInv ==
  /\ trace \in Seq(EventsOf(body))
  /\ \A i \in DOMAIN trace :
       body[trace[i].node].kind = "return" => i = Len(trace) /\ Control = <<>>

LEMMA TraceNext ==
  ASSUME TInv, EInv, [Next]_vars
  PROVE  trace' \in Seq(EventsOf(body')) /\ body' = body
<1>1. ASSUME Executing, body' = body, NEW c \in {"done", "true", "false", "bounds"}, Evaluate(c)
      PROVE  trace' \in Seq(EventsOf(body'))
  <2>1. Event(Stmt.node, c) \in EventsOf(body)
    BY <1>1, NextStatement DEF Event, EventsOf
  <2> QED BY <1>1, <2>1 DEF EInv, Evaluate
<1>2. body' = body
  BY DEF Next, Plain, Block, If, While, ForBounds, For, Return, Guard, Yield, FuncReturn, vars
<1>3. CASE Plain \/ Return
  BY <1>1, <1>2, <1>3 DEF Plain, Return, At
<1>4. CASE If
  BY <1>1, <1>2, <1>4 DEF If, At
<1>5. CASE While
  BY <1>1, <1>2, <1>5 DEF While, At
<1>6. CASE ForBounds
  BY <1>1, <1>2, <1>6 DEF ForBounds, At
<1>7. CASE trace' = trace
  BY <1>2, <1>7 DEF EInv
<1> QED BY <1>2, <1>3, <1>4, <1>5, <1>6, <1>7
        DEF Next, Block, For, Guard, Yield, FuncReturn, vars

LEMMA EndsNext ==
  ASSUME TInv, EInv, [Next]_vars, [Source!Next]_Source!vars
  PROVE  EInv'
<1>1. trace' \in Seq(EventsOf(body)) /\ body' = body /\ trace \in Seq(EventsOf(body))
  BY TraceNext DEF EInv
<1>2. ASSUME trace' = trace, Control = <<>> => Control' = <<>>
      PROVE  EInv'
  BY <1>1, <1>2 DEF EInv
<1>3. ASSUME Control # <<>>, NEW c, Source!Evaluate(Source!Node, c),
             body[Source!Node].kind = "return" => Control' = <<>>
      PROVE  EInv'
  <2> DEFINE e == Source!Event(Source!Node, c)
  <2>1. trace' = Append(trace, e) /\ e.node = Source!Node
    BY <1>3 DEF Source!Evaluate, Source!Event
  <2> HIDE DEF e
  <2>2. /\ Len(trace) \in Nat /\ DOMAIN trace = 1 .. Len(trace)
        /\ Len(trace') = Len(trace) + 1 /\ DOMAIN trace' = 1 .. Len(trace) + 1
        /\ trace'[Len(trace) + 1] = e
        /\ \A i \in 1 .. Len(trace) : trace'[i] = trace[i]
    BY <1>1, <2>1
  <2>3. \A i \in 1 .. Len(trace) : body[trace[i].node].kind # "return"
    BY <1>3, <2>2 DEF EInv
  <2>4. ASSUME NEW i \in DOMAIN trace', body'[trace'[i].node].kind = "return"
        PROVE  i = Len(trace') /\ Control' = <<>>
    <3>1. i = Len(trace) + 1
      BY <1>1, <2>2, <2>3, <2>4
    <3> QED BY <1>1, <1>3, <2>1, <2>2, <2>4, <3>1
  <2> QED BY <1>1, <2>4 DEF EInv
<1> USE DEF Source!At
<1>4. CASE Source!Plain \/ Source!If \/ Source!ForBounds
  BY <1>3, <1>4 DEF Source!Plain, Source!If, Source!ForBounds, Source!Node
<1>5. CASE Source!While
  BY <1>3, <1>5 DEF Source!While, Source!Node
<1>6. CASE Source!Return
  BY <1>3, <1>6 DEF Source!Return
<1>7. CASE Source!Block \/ Source!For \/ Source!End \/ UNCHANGED Source!vars
  BY <1>2, <1>7 DEF Source!Block, Source!For, Source!End, Source!vars
<1> QED BY <1>4, <1>5, <1>6, <1>7 DEF Source!Next

(* The same comment of MLIRGen.cpp:306, of what is evaluated: nothing is     *)
(* after a return.                                                         *)
THEOREM NothingAfterReturn ==
  ASSUME \A b \in Bodies : ReturnsOutsideLoops(b)
  PROVE  Spec => []ReturnEndsBody
<1>1. Init => EInv
  BY DEF Init, EInv
<1>2. TInv /\ RInv /\ EInv /\ [Next]_vars => EInv' /\ RInv' /\ TInv'
  <2> SUFFICES ASSUME TInv, RInv, EInv, [Next]_vars
               PROVE  EInv' /\ RInv' /\ TInv'
    OBVIOUS
  <2>1. TInv' /\ RInv'
    BY TypesNext, DropsNext
  <2>2. ReturnsOutsideLoops(body)
    BY DEF TInv
  <2>3. [Source!Next]_Source!vars
    BY <2>1, <2>2, SourceNext
  <2> QED BY <2>1, <2>3, EndsNext
<1>3. EInv => ReturnEndsBody
  BY DEF EInv, ReturnEndsBody
<1> QED BY <1>1, <1>2, <1>3, TypesInit, DropsInit, PTL DEF Spec

===============================================================================
