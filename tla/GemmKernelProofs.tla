---------------------------- MODULE GemmKernelProofs ----------------------------
(***************************************************************************)
(* Proofs about GemmKernel for any well-formed shapes: any number of       *)
(* threads, of tiles of K and any tile sizes.                              *)
(*                                                                         *)
(* Between barriers the threads of a block are in one of four phases, the  *)
(* same for all of them: level 2 on its own, loading, multiplying, or      *)
(* writing.  In a phase they all work on the same tile.  While they load,  *)
(* a thread that has loaded leaves its slots behind; the barrier turns     *)
(* "everyone has loaded" into "everything needed is there", which nothing  *)
(* undoes before the next barrier.                                         *)
(***************************************************************************)
EXTENDS GemmKernel, TLAPS

T == Thread(shape)

LoadPhase     == \A t \in T : pc[t] \in {"load", "loaded"}
MultiplyPhase == \A t \in T : pc[t] \in {"multiply", "commit", "consumed"}
WritePhase    == \A t \in T : pc[t] \in {"write", "done"}
DirectPhase   == \A t \in T : pc[t] \in {"direct", "done"}

(* The slots of tile i that thread t copies. *)
Copied(t, i) ==
  IF DoubleBuffered /\ i > 0 THEN Prefetched(shape, t, i * shape.BK)
                             ELSE Stored(shape, t, i * shape.BK)

Types ==
  /\ shape \in Shapes
  /\ pc \in [T -> Labels]
  /\ tile \in [T -> Nat]
  /\ k \in [T -> Nat]
  /\ acc \in [T -> Nat \cup {Garbage}]
  /\ smem \in [{0, 1} -> [Slots(shape) -> Nat \cup {None}]]
  /\ c \in [Cells(shape) -> [products : Nat \cup {Garbage}, epilogues : Nat]]

(* All threads are in the same phase and in the same tile. *)
Phases ==
  /\ shape.level = 2 => DirectPhase
  /\ shape.level # 2 => LoadPhase \/ MultiplyPhase \/ WritePhase
  /\ \A t, u \in T : tile[t] = tile[u]

(* Where a thread stands in loopK, and what it has summed so far.           *)
Progress ==
  \A t \in T :
    /\ tile[t] = 0 \/ HasTile(tile[t] - 1)
    /\ pc[t] \in {"load", "loaded"} =>
         /\ k[t] = 0
         /\ acc[t] = tile[t] * shape.BK
         /\ IF DoubleBuffered THEN tile[t] = 0 ELSE HasTile(tile[t])
    /\ pc[t] \in {"multiply", "commit", "consumed"} =>
         HasTile(tile[t]) /\ acc[t] = tile[t] * shape.BK + k[t]
    /\ pc[t] = "multiply" => k[t] < shape.BK
    /\ pc[t] \in {"commit", "consumed"} => k[t] = shape.BK
    /\ pc[t] = "commit" => DoubleBuffered
    /\ pc[t] = "write" => acc[t] = tile[t] * shape.BK /\ ~HasTile(tile[t])
    /\ pc[t] = "direct" => k[t] <= shape.K

(* What is in shared memory. *)
LoadedSlots ==
  \A t \in T : pc[t] = "loaded" /\ HasTile(tile[t]) =>
    \A slot \in Copied(t, tile[t]) : smem[Buffer(tile[t])][slot] = tile[t]

CurrentSlots ==
  \A t \in T : pc[t] \in {"multiply", "commit", "consumed"} =>
    \A j \in 0 .. shape.BK - 1 : \A slot \in Needed(shape, t, j) :
      smem[Buffer(tile[t])][slot] = tile[t]

NextSlots ==
  \A t \in T : pc[t] = "consumed" /\ DoubleBuffered /\ HasTile(tile[t] + 1) =>
    \A slot \in Copied(t, tile[t] + 1) :
      smem[Buffer(tile[t] + 1)][slot] = tile[t] + 1

(* What is in C. *)
Results ==
  \A t \in T : \A cell \in Owned(shape, t) :
    /\ pc[t] = "direct" => c[cell] = [products |-> k[t], epilogues |-> 0]
    /\ pc[t] = "done" => c[cell] = [products |-> shape.K, epilogues |-> Epilogues]

IInv == Types /\ Phases /\ Progress /\ LoadedSlots /\ CurrentSlots /\ NextSlots /\ Results

ShapesWellFormed == \A s \in Shapes : WellFormed(s)

-------------------------------------------------------------------------------
(* Arithmetic of loopK, for K = n and BK = b                               *)

(* A tile that starts below a multiple of b ends at or below it. *)
LEMMA MultipleOrder ==
  ASSUME NEW b \in Nat \ {0}, NEW i \in Nat, NEW q \in Nat
  PROVE  /\ i * b < q * b <=> i < q
         /\ i < q => i * b + b <= q * b
<1>1. ASSUME i < q PROVE i * b + b <= q * b
  <2>1. PICK d \in Nat : q = i + 1 + d
    <3>1. q - i - 1 \in Nat /\ q = i + 1 + (q - i - 1)
      BY <1>1
    <3>2. QED
      BY <3>1
  <2>2. q * b = i * b + b + d * b
    BY <2>1
  <2>3. d * b >= 0
    OBVIOUS
  <2>4. i * b \in Nat /\ q * b \in Nat /\ d * b \in Nat
    OBVIOUS
  <2>5. QED
    BY <2>2, <2>3, <2>4
<1>2. ASSUME ~(i < q) PROVE ~(i * b < q * b)
  <2>1. PICK d \in Nat : i = q + d
    <3>1. i - q \in Nat /\ i = q + (i - q)
      BY <1>2
    <3>2. QED
      BY <3>1
  <2>2. i * b = q * b + d * b
    BY <2>1
  <2>3. d * b >= 0 /\ q * b \in Nat /\ d * b \in Nat
    OBVIOUS
  <2>4. QED
    BY <2>2, <2>3
<1>3. i * b \in Nat /\ q * b \in Nat
  OBVIOUS
<1>4. QED
  BY <1>1, <1>2, <1>3

(* With K a multiple of BK, every index of a tile is below K, and loopK ends *)
(* exactly at K.                                                           *)
LEMMA WholeTiles ==
  ASSUME NEW b \in Nat \ {0}, NEW n \in Nat, n % b = 0, NEW i \in Nat
  PROVE  /\ i * b < n => \A j \in 0 .. b - 1 : i * b + j < n
         /\ ~(i * b < n) /\ (i = 0 \/ (i - 1) * b < n) => i * b = n
<1>1. PICK q \in Nat : n = q * b
  <2>1. n = b * (n \div b) + (n % b) /\ n \div b \in Nat
    OBVIOUS
  <2>2. QED
    BY <2>1
<1>2. i * b \in Nat /\ q * b \in Nat
  OBVIOUS
<1>3. ASSUME i * b < n, NEW j \in 0 .. b - 1 PROVE i * b + j < n
  BY <1>1, <1>2, <1>3, MultipleOrder
<1>4. ASSUME ~(i * b < n), i = 0 \/ (i - 1) * b < n PROVE i * b = n
  <2>1. CASE i = 0
    BY <1>1, <1>4, <2>1
  <2>2. CASE i # 0
    <3>1. i - 1 \in Nat /\ (i - 1) * b \in Nat
      BY <2>2
    <3>2. i - 1 < q
      BY <1>1, <1>4, <2>2, <3>1, MultipleOrder
    <3>3. ~(i < q)
      BY <1>1, <1>4, MultipleOrder
    <3>4. i = q
      BY <3>1, <3>2, <3>3
    <3>5. QED
      BY <1>1, <3>4
  <2>3. QED
    BY <2>1, <2>2
<1>5. QED
  BY <1>3, <1>4

(* Tiles counts the iterations of loopK. *)
LEMMA TileCount ==
  ASSUME NEW b \in Nat \ {0}, NEW n \in Nat, NEW i \in Nat
  PROVE  i * b < n => i < (n + b - 1) \div b
<1> DEFINE m == (n + b - 1) \div b
<1>1. m \in Nat /\ n + b - 1 < (m + 1) * b
  <2>1. /\ m \in Int
        /\ n + b - 1 = b * m + ((n + b - 1) % b)
        /\ (n + b - 1) % b \in 0 .. b - 1
        /\ n + b - 1 \in Nat
    OBVIOUS
  <2>2. (m + 1) * b = b * m + b /\ b * m \in Int
    BY <2>1
  <2>3. m \in Nat
    OBVIOUS
  <2>4. QED
    BY <2>1, <2>2, <2>3
<1>2. ASSUME i * b < n PROVE i < m
  <2>1. (i + 1) * b = i * b + b /\ i * b \in Nat
    OBVIOUS
  <2>2. (i + 1) * b < (m + 1) * b
    BY <1>1, <1>2, <2>1
  <2>3. QED
    BY <1>1, <2>2, MultipleOrder
<1>3. QED
  BY <1>2

-------------------------------------------------------------------------------
(* What well-formedness gives: threads own disjoint cells that make up the  *)
(* block, and a tile that loopK reaches is copied in full.                  *)
LEMMA Geometry ==
  ASSUME ShapesWellFormed, shape \in Shapes
  PROVE  /\ shape.level \in 2 .. 8
         /\ shape.K \in Nat /\ shape.BK \in Nat \ {0}
         /\ shape.K % shape.BK = 0
         /\ T \subseteq Int
         /\ shape.level = 2 => Epilogues = 0
         /\ Epilogues \in Nat
         /\ \A t \in T : Owned(shape, t) \subseteq Cells(shape)
         /\ \A cell \in Cells(shape) : \E t \in T : cell \in Owned(shape, t)
         /\ \A t, u \in T : t # u => Owned(shape, t) \cap Owned(shape, u) = {}
<1> USE DEF T
<1>1. WellFormed(shape)
  BY DEF ShapesWellFormed
<1>2. OwnedOnce(shape) /\ T \subseteq Int
  BY <1>1 DEF WellFormed, Thread
<1>3. /\ \A t \in T : Owned(shape, t) \subseteq Cells(shape)
      /\ \A cell \in Cells(shape) : \E t \in T : cell \in Owned(shape, t)
  BY <1>2 DEF OwnedOnce
<1>4. ASSUME NEW t \in T, NEW u \in T, t < u
      PROVE  Owned(shape, t) \cap Owned(shape, u) = {}
  BY <1>2, <1>4 DEF OwnedOnce, Owned
<1>5. ASSUME NEW t \in T, NEW u \in T, t # u
      PROVE  Owned(shape, t) \cap Owned(shape, u) = {}
  <2>1. t < u \/ u < t
    BY <1>2, <1>5
  <2>2. QED
    BY <2>1, <1>4
<1>6. QED
  BY <1>1, <1>2, <1>3, <1>5 DEF WellFormed, Epilogues

LEMMA TileCopied ==
  ASSUME ShapesWellFormed, shape \in Shapes, shape.level # 2,
         NEW i \in Nat, HasTile(i)
  PROVE  /\ \A t \in T : Copied(t, i) \subseteq Slots(shape)
         /\ \A t \in T, j \in 0 .. shape.BK - 1 : \A slot \in Needed(shape, t, j) :
              \E u \in T : slot \in Copied(u, i)
<1> DEFINE k0 == i * shape.BK
<1>1. WellFormed(shape)
  BY DEF ShapesWellFormed
<1>2. /\ shape.level \in 3 .. 8 /\ shape.K \in Nat /\ shape.BK \in Nat \ {0}
      /\ shape.K % shape.BK = 0 /\ CoversAll(shape)
  BY <1>1 DEF WellFormed
<1>3. i \in 0 .. Tiles(shape) - 1
  <2>1. i < (shape.K + shape.BK - 1) \div shape.BK
    BY <1>2, TileCount DEF HasTile
  <2>2. (shape.K + shape.BK - 1) \div shape.BK \in Int
    BY <1>2
  <2>3. QED
    BY <2>1, <2>2 DEF Tiles
<1>4. /\ Covers(shape, k0, UNION {Stored(shape, t, k0) : t \in Thread(shape)})
      /\ shape.level >= 7 =>
           Covers(shape, k0, UNION {Prefetched(shape, t, k0) : t \in Thread(shape)})
  <2>1. k0 \in {n * shape.BK : n \in 0 .. Tiles(shape) - 1}
    BY <1>3
  <2>2. shape.level >= 3
    BY <1>2
  <2>3. QED
    BY <1>2, <2>1, <2>2 DEF CoversAll
<1>5. ASSUME NEW j \in 0 .. shape.BK - 1 PROVE KInBounds(shape, k0 + j)
  BY <1>2, WholeTiles DEF HasTile, KInBounds
<1>6. Covers(shape, k0, UNION {Copied(t, i) : t \in T})
  <2>1. CASE DoubleBuffered /\ i > 0
    <3>1. \A t : Copied(t, i) = Prefetched(shape, t, k0)
      BY <2>1 DEF Copied
    <3>2. UNION {Copied(t, i) : t \in T}
            = UNION {Prefetched(shape, t, k0) : t \in Thread(shape)}
      BY <3>1 DEF T
    <3>3. QED
      BY <3>2, <2>1, <1>4 DEF DoubleBuffered
  <2>2. CASE ~(DoubleBuffered /\ i > 0)
    <3>1. \A t : Copied(t, i) = Stored(shape, t, k0)
      BY <2>2 DEF Copied
    <3>2. UNION {Copied(t, i) : t \in T}
            = UNION {Stored(shape, t, k0) : t \in Thread(shape)}
      BY <3>1 DEF T
    <3>3. QED
      BY <3>2, <1>4
  <2>3. QED
    BY <2>1, <2>2
<1>7. \A t \in T : Copied(t, i) \subseteq Slots(shape)
  BY <1>6 DEF Covers
<1>8. ASSUME NEW t \in T, NEW j \in 0 .. shape.BK - 1, NEW slot \in Needed(shape, t, j)
      PROVE  \E u \in T : slot \in Copied(u, i)
  BY <1>5, <1>6 DEF Covers, T
<1>9. QED
  BY <1>7, <1>8

-------------------------------------------------------------------------------
(* The initial states.                                                     *)
LEMMA InitInv == ASSUME ShapesWellFormed, Init PROVE IInv
<1> USE DEF T
<1>1. shape \in Shapes /\ shape.level \in 2 .. 8 /\ shape.K \in Nat /\ shape.BK \in Nat \ {0}
      /\ \A t \in T : Owned(shape, t) \subseteq Cells(shape)
  BY Geometry DEF Init
<1>2. CASE shape.level = 2
  <2>1. Start = "direct"
    BY <1>2 DEF Start
  <2>2. QED
    BY <1>1, <1>2, <2>1 DEF Init, IInv, Types, Phases, Progress, LoadedSlots,
      CurrentSlots, NextSlots, Results, DirectPhase, Labels
<1>3. CASE shape.level \in 3 .. 6
  <2>1. Start = IF HasTile(0) THEN "load" ELSE "write"
    BY <1>3 DEF Start
  <2>2. ~DoubleBuffered
    BY <1>3 DEF DoubleBuffered
  <2>3. QED
    BY <1>1, <1>3, <2>1, <2>2 DEF Init, IInv, Types, Phases, Progress, LoadedSlots,
      CurrentSlots, NextSlots, Results, LoadPhase, WritePhase, Labels
<1>4. CASE shape.level \in 7 .. 8
  <2>1. Start = "load" /\ DoubleBuffered
    BY <1>4 DEF Start, DoubleBuffered
  <2>2. QED
    BY <1>1, <1>4, <2>1 DEF Init, IInv, Types, Phases, Progress, LoadedSlots,
      CurrentSlots, NextSlots, Results, LoadPhase, Labels
<1>5. QED
  BY <1>1, <1>2, <1>3, <1>4

-------------------------------------------------------------------------------
(* Level 2 adds a product to the cells of one thread; those of the others   *)
(* are different cells.                                                    *)
LEMMA DirectInv ==
  ASSUME ShapesWellFormed, IInv, NEW t \in T, Direct(t)
  PROVE  IInv'
<1> USE DEF T
<1>1. /\ shape.K \in Nat /\ (shape.level = 2 => Epilogues = 0) /\ Epilogues \in Nat
      /\ \A u \in T : Owned(shape, u) \subseteq Cells(shape)
      /\ \A u, v \in T : u # v => Owned(shape, u) \cap Owned(shape, v) = {}
  BY Geometry DEF IInv, Types
<1>2. /\ pc[t] = "direct" /\ shape.level = 2 /\ DirectPhase /\ Epilogues = 0
      /\ k[t] \in Nat /\ k[t] <= shape.K
  <2>1. pc[t] = "direct"
    BY DEF Direct, At
  <2>2. shape.level = 2
    BY <2>1 DEF IInv, Phases, LoadPhase, MultiplyPhase, WritePhase
  <2>3. QED
    BY <2>1, <2>2, <1>1 DEF IInv, Types, Phases, Progress
<1>3. UNCHANGED <<shape, tile, acc, smem>> /\ Epilogues' = Epilogues
  BY DEF Direct, Epilogues
<1>4. CASE k[t] < shape.K
  <2>1. /\ c' = [cell \in Cells(shape) |->
                   IF cell \in Owned(shape, t)
                   THEN [products |-> c[cell].products + 1,
                         epilogues |-> c[cell].epilogues]
                   ELSE c[cell]]
        /\ k' = [k EXCEPT ![t] = @ + 1]
        /\ UNCHANGED pc
    <3>1. ASSUME NEW cell \in Cells(shape), cell \in Owned(shape, t)
          PROVE  c[cell].epilogues + Epilogues = c[cell].epilogues
      BY <1>2, <3>1 DEF IInv, Types
    <3>2. QED
      BY <1>4, <3>1 DEF Direct
  <2>2. \A cell \in Owned(shape, t) : c[cell] = [products |-> k[t], epilogues |-> 0]
    BY <1>2 DEF IInv, Results
  <2>3. c' \in [Cells(shape) -> [products : Nat \cup {Garbage}, epilogues : Nat]]
    <3>1. ASSUME NEW cell \in Cells(shape)
          PROVE  c'[cell] \in [products : Nat \cup {Garbage}, epilogues : Nat]
      <4>1. CASE cell \in Owned(shape, t)
        BY <2>1, <2>2, <4>1, <1>2
      <4>2. CASE cell \notin Owned(shape, t)
        BY <2>1, <4>2 DEF IInv, Types
      <4>3. QED
        BY <4>1, <4>2
    <3>2. QED
      BY <2>1, <3>1
  <2>4. Types'
    BY <2>1, <2>3, <1>3 DEF IInv, Types
  <2>5. Phases'
    BY <2>1, <1>2, <1>3 DEF IInv, Phases, DirectPhase
  <2>6. Progress'
    <3>1. ASSUME NEW u \in T
          PROVE  /\ pc[u] = "direct" \/ pc[u] = "done"
                 /\ tile[u] = 0 \/ HasTile(tile[u] - 1)
                 /\ pc[u] = "direct" => k'[u] <= shape.K
      BY <2>1, <1>1, <1>2, <1>4 DEF IInv, Types, Progress, DirectPhase
    <3>2. QED
      BY <3>1, <2>1, <1>3 DEF Progress, HasTile
  <2>7. LoadedSlots' /\ CurrentSlots' /\ NextSlots'
    BY <2>1, <1>2, <1>3 DEF LoadedSlots, CurrentSlots, NextSlots, DirectPhase
  <2>8. Results'
    <3>1. ASSUME NEW u \in T, NEW cell \in Owned(shape, u)
          PROVE  /\ pc[u] = "direct" => c'[cell] = [products |-> k'[u], epilogues |-> 0]
                 /\ pc[u] = "done" => c'[cell] = [products |-> shape.K, epilogues |-> Epilogues]
      <4>1. CASE u = t
        BY <4>1, <2>1, <2>2, <1>1, <1>2 DEF IInv, Types
      <4>2. CASE u # t
        <5>1. c'[cell] = c[cell] /\ k'[u] = k[u]
          BY <4>2, <2>1, <1>1 DEF IInv, Types
        <5>2. QED
          BY <5>1 DEF IInv, Results
      <4>3. QED
        BY <4>1, <4>2
    <3>2. QED
      BY <3>1, <2>1, <1>3 DEF Results
  <2>9. QED
    BY <2>4, <2>5, <2>6, <2>7, <2>8 DEF IInv
<1>5. CASE ~(k[t] < shape.K)
  <2>1. pc' = [pc EXCEPT ![t] = "done"] /\ UNCHANGED <<k, c>> /\ k[t] = shape.K
    BY <1>1, <1>2, <1>5 DEF Direct, Goto
  <2>2. Types'
    BY <2>1, <1>3 DEF IInv, Types, Labels
  <2>3. Phases'
    BY <2>1, <1>2, <1>3 DEF IInv, Types, Phases, DirectPhase
  <2>4. Progress'
    BY <2>1, <1>2, <1>3 DEF IInv, Types, Progress, DirectPhase, HasTile
  <2>5. LoadedSlots' /\ CurrentSlots' /\ NextSlots'
    BY <2>1, <1>2, <1>3 DEF IInv, Types, LoadedSlots, CurrentSlots, NextSlots, DirectPhase
  <2>6. Results'
    BY <2>1, <1>2, <1>3 DEF IInv, Types, Results
  <2>7. QED
    BY <2>2, <2>3, <2>4, <2>5, <2>6 DEF IInv
<1>6. QED
  BY <1>4, <1>5

(* What Fill does to shared memory. *)
LEMMA FillEffect ==
  ASSUME Types, NEW S, NEW i \in Nat, Fill(S, i)
  PROVE  /\ smem' \in [{0, 1} -> [Slots(shape) -> Nat \cup {None}]]
         /\ \A slot \in Slots(shape) : slot \in S => smem'[Buffer(i)][slot] = i
         /\ \A slot \in Slots(shape) : smem'[Buffer(i)][slot] \in {i, smem[Buffer(i)][slot]}
         /\ \A b \in {0, 1} : b # Buffer(i) => smem'[b] = smem[b]
<1>1. Buffer(i) \in {0, 1}
  BY DEF Buffer
<1> DEFINE b == Buffer(i)
<1>2. smem' = [smem EXCEPT ![b] =
                 [slot \in Slots(shape) |-> IF slot \in S THEN i ELSE smem[b][slot]]]
  BY DEF Fill
<1> HIDE DEF b
<1>3. b \in {0, 1}
  BY <1>1 DEF b
<1>4. /\ smem' \in [{0, 1} -> [Slots(shape) -> Nat \cup {None}]]
      /\ \A slot \in Slots(shape) : slot \in S => smem'[b][slot] = i
      /\ \A slot \in Slots(shape) : smem'[b][slot] \in {i, smem[b][slot]}
      /\ \A d \in {0, 1} : d # b => smem'[d] = smem[d]
  BY <1>2, <1>3 DEF Types
<1>5. QED
  BY <1>4 DEF b

(* A load leaves the thread's slots; it cannot spoil those of others, who   *)
(* load the same tile.                                                     *)
LEMMA LoadInv ==
  ASSUME ShapesWellFormed, IInv, NEW t \in T, Load(t)
  PROVE  IInv'
<1> USE DEF T
<1> DEFINE i == tile[t]
<1>1. /\ pc[t] = "load" /\ pc' = [pc EXCEPT ![t] = "loaded"]
      /\ UNCHANGED <<shape, tile, k, acc, c>> /\ i \in Nat
      /\ Fill(Stored(shape, t, i * shape.BK), i)
  BY DEF Load, At, Goto, IInv, Types
<1>2. shape.level # 2 /\ LoadPhase
  BY <1>1 DEF IInv, Phases, DirectPhase, MultiplyPhase, WritePhase
<1>3. Copied(t, i) = Stored(shape, t, i * shape.BK)
  BY <1>1, <1>2 DEF IInv, Progress, Copied
<1>4. Types'
  BY <1>1, FillEffect DEF IInv, Types, Labels
<1>5. Phases'
  BY <1>1, <1>2 DEF IInv, Types, Phases, LoadPhase
<1>6. Progress'
  BY <1>1, <1>2 DEF IInv, Types, Progress, LoadPhase, HasTile, DoubleBuffered
<1>7. LoadedSlots'
  <2>1. ASSUME NEW u \in T, pc'[u] = "loaded", HasTile(i), NEW slot \in Copied(u, i)
        PROVE  smem'[Buffer(i)][slot] = i
    <3>1. slot \in Slots(shape)
      BY <1>1, <1>2, <2>1, TileCopied DEF IInv, Types
    <3>2. CASE u = t
      BY <1>1, <1>3, <3>1, <3>2, FillEffect DEF IInv
    <3>3. CASE u # t
      <4>1. pc[u] = "loaded" /\ tile[u] = i
        BY <1>1, <2>1, <3>3 DEF IInv, Types, Phases
      <4>2. smem[Buffer(i)][slot] = i
        BY <4>1, <2>1 DEF IInv, LoadedSlots
      <4>3. QED
        BY <1>1, <3>1, <4>2, FillEffect DEF IInv
    <3>4. QED
      BY <3>2, <3>3
  <2>2. \A u \in T : tile[u] = i
    BY DEF IInv, Phases
  <2>3. QED
    BY <1>1, <2>1, <2>2 DEF LoadedSlots, HasTile, Buffer, Copied, DoubleBuffered
<1>8. CurrentSlots' /\ NextSlots'
  BY <1>1, <1>2 DEF IInv, Types, CurrentSlots, NextSlots, LoadPhase
<1>9. Results'
  BY <1>1, <1>2 DEF IInv, Types, Results, LoadPhase, Epilogues
<1>10. QED
  BY <1>4, <1>5, <1>6, <1>7, <1>8, <1>9 DEF IInv

(* A product enters the accumulators with every operand from the tile.      *)
LEMMA MultiplyInv ==
  ASSUME ShapesWellFormed, IInv, NEW t \in T, Multiply(t)
  PROVE  IInv'
<1> USE DEF T
<1>1. /\ pc[t] = "multiply" /\ k' = [k EXCEPT ![t] = @ + 1]
      /\ UNCHANGED <<shape, tile, smem, c>>
      /\ shape.BK \in Nat \ {0} /\ tile[t] \in Nat /\ k[t] \in 0 .. shape.BK - 1
      /\ HasTile(tile[t]) /\ acc[t] = tile[t] * shape.BK + k[t]
  BY Geometry DEF Multiply, At, IInv, Types, Progress
<1>2. shape.level # 2 /\ MultiplyPhase
  BY <1>1 DEF IInv, Phases, DirectPhase, LoadPhase, WritePhase
<1>3. tile[t] * shape.BK \in Nat
  BY <1>1
<1>4. Multiplied(t) = acc[t] + 1
  <2>1. \A slot \in Needed(shape, t, k[t]) : smem[Buffer(tile[t])][slot] = tile[t]
    BY <1>1 DEF IInv, CurrentSlots
  <2>2. acc[t] # Garbage
    BY <1>1, <1>3 DEF Garbage
  <2>3. QED
    BY <2>1, <2>2 DEF Multiplied
<1>5. acc' = [acc EXCEPT ![t] = acc[t] + 1]
  BY <1>4 DEF Multiply
<1>6. PICK next \in {"multiply", "commit", "consumed"} :
        /\ pc' = [pc EXCEPT ![t] = next]
        /\ next = "multiply" => k[t] + 1 < shape.BK
        /\ next # "multiply" => k[t] + 1 = shape.BK
        /\ next = "commit" <=> DoubleBuffered /\ next # "multiply"
  <2>1. CASE k[t] + 1 < shape.BK
    BY <1>1, <2>1 DEF Multiply, IInv, Types
  <2>2. CASE ~(k[t] + 1 < shape.BK)
    BY <1>1, <2>2 DEF Multiply, Goto
  <2>3. QED
    BY <2>1, <2>2
<1>7. Types'
  BY <1>1, <1>3, <1>5, <1>6 DEF IInv, Types, Labels
<1>8. Phases'
  BY <1>1, <1>2, <1>6 DEF IInv, Types, Phases, MultiplyPhase
<1>9. Progress'
  <2>1. ASSUME NEW u \in T
        PROVE  /\ tile[u] = 0 \/ HasTile(tile[u] - 1)
               /\ pc'[u] \in {"multiply", "commit", "consumed"}
               /\ HasTile(tile[u])
               /\ acc'[u] = tile[u] * shape.BK + k'[u]
               /\ pc'[u] = "multiply" => k'[u] < shape.BK
               /\ pc'[u] \in {"commit", "consumed"} => k'[u] = shape.BK
               /\ pc'[u] = "commit" => DoubleBuffered
    <3>1. CASE u = t
      <4>1. acc'[t] = acc[t] + 1 /\ k'[t] = k[t] + 1 /\ pc'[t] = next
        BY <1>1, <1>5, <1>6 DEF IInv, Types
      <4>2. tile[t] = 0 \/ HasTile(tile[t] - 1)
        BY DEF IInv, Progress
      <4>3. acc[t] + 1 = tile[t] * shape.BK + (k[t] + 1)
        BY <1>1, <1>3
      <4>4. QED
        BY <3>1, <4>1, <4>2, <4>3, <1>1, <1>6
    <3>2. CASE u # t
      BY <3>2, <1>1, <1>2, <1>5, <1>6 DEF IInv, Types, Progress, MultiplyPhase
    <3>3. QED
      BY <3>1, <3>2
  <2>2. QED
    BY <2>1, <1>1 DEF Progress, HasTile, DoubleBuffered
<1>10. LoadedSlots'
  BY <1>1, <1>2, <1>6 DEF IInv, Types, LoadedSlots, MultiplyPhase
<1>11. CurrentSlots'
  <2>1. ASSUME NEW u \in T PROVE pc[u] \in {"multiply", "commit", "consumed"}
    BY <1>2 DEF MultiplyPhase
  <2>2. QED
    BY <2>1, <1>1 DEF IInv, CurrentSlots, Buffer, DoubleBuffered
<1>12. NextSlots'
  <2>1. ASSUME NEW u \in T, pc'[u] = "consumed", DoubleBuffered PROVE pc[u] = "consumed"
    BY <2>1, <1>1, <1>6 DEF IInv, Types
  <2>2. QED
    BY <2>1, <1>1 DEF IInv, NextSlots, Buffer, DoubleBuffered, HasTile, Copied
<1>13. Results'
  BY <1>1, <1>2, <1>6 DEF IInv, Types, Results, MultiplyPhase
<1>14. QED
  BY <1>7, <1>8, <1>9, <1>10, <1>11, <1>12, <1>13 DEF IInv

(* The next tile goes to the buffer that nobody reads.                      *)
LEMMA CommitInv ==
  ASSUME ShapesWellFormed, IInv, NEW t \in T, Commit(t)
  PROVE  IInv'
<1> USE DEF T
<1> DEFINE i == tile[t]
<1>1. /\ pc[t] = "commit" /\ pc' = [pc EXCEPT ![t] = "consumed"]
      /\ UNCHANGED <<shape, tile, k, acc, c>> /\ i \in Nat
      /\ DoubleBuffered
      /\ \A u \in T : tile[u] = i
  BY DEF Commit, At, Goto, IInv, Types, Progress, Phases
<1>2. shape.level # 2 /\ MultiplyPhase
  BY <1>1 DEF IInv, Phases, DirectPhase, LoadPhase, WritePhase
<1>3. /\ HasTile(i + 1) => Fill(Copied(t, i + 1), i + 1)
      /\ ~HasTile(i + 1) => UNCHANGED smem
  BY <1>1 DEF Commit, Copied
<1>4. Buffer(i) \in {0, 1} /\ Buffer(i) # Buffer(i + 1)
  BY <1>1 DEF Buffer
<1>5. /\ smem' \in [{0, 1} -> [Slots(shape) -> Nat \cup {None}]]
      /\ smem'[Buffer(i)] = smem[Buffer(i)]
  <2>1. CASE HasTile(i + 1)
    <3>1. Fill(Copied(t, i + 1), i + 1) /\ i + 1 \in Nat
      BY <1>1, <1>3, <2>1
    <3>2. QED
      BY <3>1, <1>4, FillEffect DEF IInv
  <2>2. CASE ~HasTile(i + 1)
    BY <1>3, <2>2 DEF IInv, Types
  <2>3. QED
    BY <2>1, <2>2
<1>6. Types'
  BY <1>1, <1>5 DEF IInv, Types, Labels
<1>7. Phases'
  BY <1>1, <1>2 DEF IInv, Types, Phases, MultiplyPhase
<1>8. Progress'
  BY <1>1, <1>2 DEF IInv, Types, Progress, MultiplyPhase, HasTile, DoubleBuffered
<1>9. LoadedSlots'
  BY <1>1, <1>2 DEF IInv, Types, LoadedSlots, MultiplyPhase
<1>10. CurrentSlots'
  <2>1. ASSUME NEW u \in T, NEW j \in 0 .. shape.BK - 1, NEW slot \in Needed(shape, u, j)
        PROVE  smem'[Buffer(i)][slot] = i
    BY <1>1, <1>2, <1>5 DEF IInv, CurrentSlots, MultiplyPhase
  <2>2. QED
    BY <2>1, <1>1 DEF CurrentSlots, Buffer, DoubleBuffered
<1>11. NextSlots'
  <2>1. ASSUME NEW u \in T, pc'[u] = "consumed", HasTile(i + 1),
               NEW slot \in Copied(u, i + 1)
        PROVE  smem'[Buffer(i + 1)][slot] = i + 1
    <3>1. slot \in Slots(shape) /\ Fill(Copied(t, i + 1), i + 1) /\ i + 1 \in Nat
      BY <1>1, <1>2, <1>3, <2>1, TileCopied DEF IInv, Types
    <3>2. CASE u = t
      BY <3>1, <3>2, FillEffect DEF IInv
    <3>3. CASE u # t
      <4>1. smem[Buffer(i + 1)][slot] = i + 1
        BY <1>1, <2>1, <3>3 DEF IInv, Types, NextSlots
      <4>2. QED
        BY <3>1, <4>1, FillEffect DEF IInv
    <3>4. QED
      BY <3>2, <3>3
  <2>2. QED
    BY <2>1, <1>1 DEF NextSlots, HasTile, Buffer, Copied, DoubleBuffered
<1>12. Results'
  BY <1>1, <1>2 DEF IInv, Types, Results, MultiplyPhase, Epilogues
<1>13. QED
  BY <1>6, <1>7, <1>8, <1>9, <1>10, <1>11, <1>12 DEF IInv

(* A thread that writes has summed all of K, and writes only its own cells. *)
LEMMA WriteInv ==
  ASSUME ShapesWellFormed, IInv, NEW t \in T, Write(t)
  PROVE  IInv'
<1> USE DEF T
<1>1. /\ shape.K \in Nat /\ shape.BK \in Nat \ {0} /\ shape.K % shape.BK = 0
      /\ Epilogues \in Nat
      /\ \A u \in T : Owned(shape, u) \subseteq Cells(shape)
      /\ \A u, v \in T : u # v => Owned(shape, u) \cap Owned(shape, v) = {}
  BY Geometry DEF IInv, Types
<1>2. /\ pc[t] = "write" /\ pc' = [pc EXCEPT ![t] = "done"]
      /\ UNCHANGED <<shape, tile, k, acc, smem>> /\ Epilogues' = Epilogues
  BY DEF Write, At, Goto, Epilogues
<1>3. shape.level # 2 /\ WritePhase
  BY <1>2 DEF IInv, Phases, DirectPhase, LoadPhase, MultiplyPhase
<1>4. acc[t] = shape.K
  <2>1. /\ acc[t] = tile[t] * shape.BK /\ tile[t] \in Nat
        /\ ~(tile[t] * shape.BK < shape.K)
        /\ tile[t] = 0 \/ (tile[t] - 1) * shape.BK < shape.K
    BY <1>2 DEF IInv, Types, Progress, HasTile
  <2>2. QED
    BY <1>1, <2>1, WholeTiles
<1>5. c' = [cell \in Cells(shape) |->
              IF cell \in Owned(shape, t)
              THEN [products |-> shape.K, epilogues |-> Epilogues] ELSE c[cell]]
  BY <1>4 DEF Write
<1>6. Types'
  BY <1>1, <1>2, <1>5 DEF IInv, Types, Labels
<1>7. Phases'
  BY <1>2, <1>3 DEF IInv, Types, Phases, WritePhase
<1>8. Progress'
  BY <1>2, <1>3 DEF IInv, Types, Progress, WritePhase, HasTile, DoubleBuffered
<1>9. LoadedSlots' /\ CurrentSlots' /\ NextSlots'
  BY <1>2, <1>3 DEF IInv, Types, LoadedSlots, CurrentSlots, NextSlots, WritePhase
<1>10. Results'
  <2>1. ASSUME NEW u \in T, NEW cell \in Owned(shape, u)
        PROVE  /\ pc'[u] # "direct"
               /\ pc'[u] = "done" => c'[cell] = [products |-> shape.K, epilogues |-> Epilogues]
    <3>1. CASE u = t
      BY <3>1, <1>1, <1>2, <1>5 DEF IInv, Types
    <3>2. CASE u # t
      <4>1. c'[cell] = c[cell] /\ pc'[u] = pc[u]
        BY <3>2, <1>1, <1>2, <1>5 DEF IInv, Types
      <4>2. QED
        BY <4>1, <1>3 DEF IInv, Results, WritePhase
    <3>3. QED
      BY <3>1, <3>2
  <2>2. QED
    BY <2>1, <1>2 DEF Results
<1>11. QED
  BY <1>6, <1>7, <1>8, <1>9, <1>10 DEF IInv

(* A barrier takes all threads from one phase to the next.  After loading,  *)
(* everything that is needed has been copied by someone; after multiplying *)
(* with two buffers, so has everything of the next tile.                   *)
LEMMA BarrierInv ==
  ASSUME ShapesWellFormed, IInv, Barrier
  PROVE  IInv'
<1> USE DEF T
<1>1. /\ shape.K \in Nat /\ shape.BK \in Nat \ {0} /\ shape.level \in 2 .. 8
  BY Geometry DEF IInv, Types
<1>2. /\ \A t \in T : pc[t] \in {"loaded", "consumed"}
      /\ pc' = [t \in T |-> AfterBarrier(t)]
      /\ tile' = [t \in T |-> Finished(t)]
      /\ k' = [t \in T |-> 0]
      /\ UNCHANGED <<shape, acc, smem, c>>
  BY DEF Barrier
<1>3. CASE T = {}
  BY <1>2, <1>3 DEF IInv, Types, Phases, Progress, LoadedSlots, CurrentSlots, NextSlots,
    Results, DirectPhase, LoadPhase
<1>4. CASE T # {}
  <2>1. PICK t0 \in T : TRUE
    BY <1>4
  <2> DEFINE i == tile[t0]
             Current(n) == \A t \in T, j \in 0 .. shape.BK - 1 :
                             \A slot \in Needed(shape, t, j) : smem[Buffer(n)][slot] = n
             After(n, p) ==
               /\ pc' = [t \in T |-> p] /\ tile' = [t \in T |-> n]
               /\ \A t \in T : acc[t] = n * shape.BK
               /\ n = 0 \/ HasTile(n - 1)
               /\ \/ p = "write" /\ ~HasTile(n)
                  \/ p = "load" /\ HasTile(n) /\ ~DoubleBuffered
                  \/ p = "multiply" /\ HasTile(n) /\ Current(n)
  <2>2. /\ shape.level # 2 /\ i \in Nat
        /\ \A t \in T : tile[t] = i
        /\ i = 0 \/ HasTile(i - 1)
    BY <1>2, <2>1 DEF IInv, Types, Phases, Progress, DirectPhase
  <2>3. ASSUME \A t \in T : pc[t] = "loaded" PROVE \E n \in Nat : \E p : After(n, p)
    <3>1. \A t \in T : Finished(t) = i /\ acc[t] = i * shape.BK
      BY <2>2, <2>3 DEF IInv, Progress, Finished
    <3>2. \A t \in T : AfterBarrier(t) = IF ~HasTile(i) THEN "write" ELSE "multiply"
      BY <2>2, <2>3, <3>1 DEF AfterBarrier
    <3>3. ASSUME HasTile(i) PROVE Current(i)
      <4>1. ASSUME NEW t \in T, NEW j \in 0 .. shape.BK - 1, NEW slot \in Needed(shape, t, j)
            PROVE  smem[Buffer(i)][slot] = i
        <5>1. PICK u \in T : slot \in Copied(u, i)
          BY <2>2, <3>3, TileCopied DEF IInv, Types
        <5>2. QED
          BY <2>2, <2>3, <3>3, <5>1 DEF IInv, LoadedSlots
      <4>2. QED
        BY <4>1
    <3>4. CASE HasTile(i)
      <4>1. After(i, "multiply")
        BY <3>1, <3>2, <3>3, <3>4, <1>2, <2>2
      <4>2. QED
        BY <4>1, <2>2
    <3>5. CASE ~HasTile(i)
      <4>1. After(i, "write")
        BY <3>1, <3>2, <3>5, <1>2, <2>2
      <4>2. QED
        BY <4>1, <2>2
    <3>6. QED
      BY <3>4, <3>5
  <2>4. ASSUME \A t \in T : pc[t] = "consumed" PROVE \E n \in Nat : \E p : After(n, p)
    <3>1. HasTile(i) /\ \A t \in T : acc[t] = i * shape.BK + shape.BK
      BY <2>1, <2>2, <2>4 DEF IInv, Progress
    <3>2. i * shape.BK + shape.BK = (i + 1) * shape.BK /\ i + 1 \in Nat /\ (i + 1) - 1 = i
      BY <1>1, <2>2
    <3>3. \A t \in T : Finished(t) = i + 1 /\ acc[t] = (i + 1) * shape.BK
      BY <2>2, <2>4, <3>1, <3>2 DEF Finished
    <3>4. \A t \in T : AfterBarrier(t) =
            IF ~HasTile(i + 1) THEN "write"
            ELSE IF ~DoubleBuffered THEN "load" ELSE "multiply"
      BY <2>4, <3>3 DEF AfterBarrier
    <3>5. ASSUME HasTile(i + 1), DoubleBuffered PROVE Current(i + 1)
      <4>1. ASSUME NEW t \in T, NEW j \in 0 .. shape.BK - 1, NEW slot \in Needed(shape, t, j)
            PROVE  smem[Buffer(i + 1)][slot] = i + 1
        <5>1. PICK u \in T : slot \in Copied(u, i + 1)
          BY <2>2, <3>2, <3>5, TileCopied DEF IInv, Types
        <5>2. QED
          BY <2>2, <2>4, <3>5, <5>1 DEF IInv, NextSlots
      <4>2. QED
        BY <4>1
    <3>6. CASE ~HasTile(i + 1)
      <4>1. After(i + 1, "write")
        BY <3>1, <3>2, <3>3, <3>4, <3>6, <1>2
      <4>2. QED
        BY <4>1, <3>2
    <3>7. CASE HasTile(i + 1) /\ ~DoubleBuffered
      <4>1. After(i + 1, "load")
        BY <3>1, <3>2, <3>3, <3>4, <3>7, <1>2
      <4>2. QED
        BY <4>1, <3>2
    <3>8. CASE HasTile(i + 1) /\ DoubleBuffered
      <4>1. After(i + 1, "multiply")
        BY <3>1, <3>2, <3>3, <3>4, <3>5, <3>8, <1>2
      <4>2. QED
        BY <4>1, <3>2
    <3>9. QED
      BY <3>6, <3>7, <3>8
  <2>5. (\A t \in T : pc[t] = "loaded") \/ (\A t \in T : pc[t] = "consumed")
    BY <1>2, <2>1, <2>2 DEF IInv, Phases, LoadPhase, MultiplyPhase, WritePhase
  <2>6. PICK n \in Nat : \E p : After(n, p)
    BY <2>3, <2>4, <2>5
  <2>7. PICK p : After(n, p)
    BY <2>6
  <2>8. Types'
    BY <1>2, <2>7 DEF IInv, Types, Labels
  <2>9. Phases'
    BY <1>2, <2>2, <2>7 DEF Phases, LoadPhase, MultiplyPhase, WritePhase
  <2>10. Progress'
    <3>1. n * shape.BK + 0 = n * shape.BK
      BY <1>1
    <3>2. ASSUME NEW t \in T
          PROVE  /\ tile'[t] = n /\ pc'[t] = p /\ k'[t] = 0 /\ acc'[t] = n * shape.BK
      BY <1>2, <2>7
    <3>3. 0 < shape.BK
      BY <1>1
    <3>4. (p = "load" => ~DoubleBuffered) /\ (p \in {"load", "multiply"} <=> HasTile(n))
          /\ p \in {"load", "multiply", "write"} /\ (n = 0 \/ HasTile(n - 1))
      BY <2>7
    <3>5. QED
      BY <1>2, <3>1, <3>2, <3>3, <3>4 DEF Progress, HasTile, DoubleBuffered
  <2>11. LoadedSlots' /\ NextSlots'
    <3>1. \A t \in T : pc'[t] \in {"load", "multiply", "write"}
      BY <2>7
    <3>2. T' = T
      BY <1>2
    <3>3. QED
      BY <3>1, <3>2 DEF LoadedSlots, NextSlots
  <2>12. CurrentSlots'
    BY <1>2, <2>7 DEF CurrentSlots, Buffer, DoubleBuffered
  <2>13. Results'
    BY <1>2, <2>7 DEF Results
  <2>14. QED
    BY <2>8, <2>9, <2>10, <2>11, <2>12, <2>13 DEF IInv
<1>5. QED
  BY <1>3, <1>4

(* A step that changes nothing. *)
LEMMA StutterInv ==
  ASSUME IInv, UNCHANGED vars PROVE IInv'
BY DEF vars, IInv, Types, Phases, Progress, LoadedSlots, CurrentSlots, NextSlots, Results,
  T, DirectPhase, LoadPhase, MultiplyPhase, WritePhase, HasTile, DoubleBuffered, Buffer,
  Copied, Epilogues

(* IInv is inductive. *)
LEMMA StepInv ==
  ASSUME ShapesWellFormed, IInv, [Next]_vars PROVE IInv'
<1>1. ASSUME ThreadStep PROVE IInv'
  <2>1. PICK t \in T : Direct(t) \/ Load(t) \/ Multiply(t) \/ Commit(t) \/ Write(t)
    BY <1>1 DEF ThreadStep, T
  <2>2. QED
    BY <2>1, DirectInv, LoadInv, MultiplyInv, CommitInv, WriteInv
<1>2. CASE Barrier
  BY <1>2, BarrierInv
<1>3. CASE UNCHANGED vars
  BY <1>3, StutterInv
<1>4. QED
  BY <1>1, <1>2, <1>3 DEF Next, Terminated

LEMMA Invariance == ASSUME ShapesWellFormed PROVE Spec => []IInv
<1>1. Init => IInv
  BY InitInv
<1>2. IInv /\ [Next]_vars => IInv'
  BY StepInv
<1>3. QED
  BY <1>1, <1>2, PTL DEF Spec

-------------------------------------------------------------------------------
(* Every variable keeps its type, and no thread runs past the last tile of  *)
(* K (loopK of each emitter in GemmLowering.cpp), for any well-formed shape. *)
THEOREM TypeCorrect == ASSUME ShapesWellFormed PROVE Spec => []TypeOK
<1>1. IInv => TypeOK
  <2> SUFFICES ASSUME IInv PROVE TypeOK
    OBVIOUS
  <2>1. shape.K \in Nat /\ shape.BK \in Nat \ {0}
    BY Geometry DEF IInv, Types
  <2>2. ASSUME NEW t \in T PROVE tile[t] \in 0 .. Tiles(shape)
    <3>1. tile[t] \in Nat /\ (tile[t] = 0 \/ HasTile(tile[t] - 1))
      BY DEF IInv, Types, Progress
    <3>2. Tiles(shape) \in Nat
      BY <2>1 DEF Tiles
    <3>3. CASE tile[t] = 0
      BY <3>2, <3>3
    <3>4. CASE tile[t] # 0
      <4>1. tile[t] - 1 \in Nat /\ HasTile(tile[t] - 1)
        BY <3>1, <3>4
      <4>2. tile[t] - 1 < Tiles(shape)
        BY <2>1, <4>1, TileCount DEF Tiles, HasTile
      <4>3. QED
        BY <3>1, <3>2, <4>2
    <3>5. QED
      BY <3>3, <3>4
  <2>3. QED
    BY <2>2 DEF IInv, Types, TypeOK, T
<1>2. QED
  BY <1>1, Invariance, PTL

(* The barriers of the tiled and of the double-buffered kernels are enough: *)
(* no thread ever multiplies an element of another tile, however the       *)
(* threads of the block interleave.                                        *)
THEOREM ReadsCurrentTileHolds == ASSUME ShapesWellFormed PROVE Spec => []ReadsCurrentTile
<1>1. IInv => ReadsCurrentTile
  <2> SUFFICES ASSUME IInv, NEW t \in T, pc[t] = "multiply", NEW slot \in Needed(shape, t, k[t])
               PROVE  smem[Buffer(tile[t])][slot] = tile[t]
    BY DEF ReadsCurrentTile, T
  <2>1. k[t] \in 0 .. shape.BK - 1
    BY Geometry DEF IInv, Types, Progress
  <2>2. QED
    BY <2>1 DEF IInv, CurrentSlots
<1>2. QED
  BY <1>1, Invariance, PTL

(* When the block is over, every one of its cells of C holds exactly K      *)
(* products and the epilogue, for any K that is a multiple of the tile.    *)
THEOREM ResultCorrectHolds == ASSUME ShapesWellFormed PROVE Spec => []ResultCorrect
<1>1. IInv => ResultCorrect
  <2> SUFFICES ASSUME IInv, Done, NEW cell \in Cells(shape)
               PROVE  c[cell] = [products |-> shape.K, epilogues |-> Epilogues]
    BY DEF ResultCorrect
  <2>1. PICK t \in T : cell \in Owned(shape, t)
    BY Geometry DEF IInv, Types
  <2>2. pc[t] = "done"
    BY DEF Done, T
  <2>3. QED
    BY <2>1, <2>2 DEF IInv, Results
<1>2. QED
  BY <1>1, Invariance, PTL
===============================================================================
