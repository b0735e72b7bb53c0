------------------------------- MODULE GemmTiles -------------------------------
(***************************************************************************)
(* The geometry of the kernels that GemmLowering.cpp emits for levels 2 to *)
(* 8: which cells of C a thread of a block computes, which elements of A   *)
(* and B it copies to shared memory for a tile of K, and which of them it  *)
(* reads back.                                                             *)
(*                                                                         *)
(* A shape is a record of the level, the problem (M, N, K), the block      *)
(* (bx, by) of the grid, the block tile (BM, BN, BK), the thread tile (TM, *)
(* TN), at level 8 the warp tile (WM, WN, WNITER), and whether the gemm    *)
(* carries an epilogue (fused).  Levels 2 and 3 compute one cell per       *)
(* thread, level 4 one column: their TM and TN are 1.  Rows, columns and   *)
(* shared slots are relative to the block; threads are flat indices.       *)
(***************************************************************************)
EXTENDS Integers

CONSTANTS
  VectorWidth,  \* elements of a vector load; 4 in the code
  WarpSize      \* lanes of a warp; 32 in the code

ASSUME WidthAssumption ==
  VectorWidth \in Nat \ {0} /\ WarpSize \in Nat \ {0}

ThreadsPerBlock(s) ==
  IF s.level = 8
  THEN (s.BM \div s.WM) * (s.BN \div s.WN) * WarpSize
  ELSE (s.BM \div s.TM) * (s.BN \div s.TN)

Thread(s) == 0 .. ThreadsPerBlock(s) - 1

-------------------------------------------------------------------------------
(* Cells of C                                                              *)

GridX(s) == (s.N - 1 + s.BN) \div s.BN
GridY(s) == (s.M - 1 + s.BM) \div s.BM

RowInBounds(s, r) == s.by * s.BM + r < s.M
ColInBounds(s, c) == s.bx * s.BN + c < s.N

(* Cells of C in the block. *)
Cells(s) ==
  {r \in 0 .. s.BM - 1 : RowInBounds(s, r)} \X
  {c \in 0 .. s.BN - 1 : ColInBounds(s, c)}

(* Level 8: lanes of a warp form a patch of laneRows by laneCols.          *)
WSUBN(s)    == s.WN \div s.WNITER
LaneCols(s) == WSUBN(s) \div s.TN
WSUBM(s)    == (WarpSize \div LaneCols(s)) * s.TM
WMITER(s)   == s.WM \div WSUBM(s)

OwnedRows(s, t) ==
  IF s.level = 8
  THEN LET warpRow == (t \div WarpSize) \div (s.BN \div s.WN)
           laneRow == (t % WarpSize) \div LaneCols(s)
       IN {warpRow * s.WM + laneRow * s.TM + wm * WSUBM(s) + i :
             wm \in 0 .. WMITER(s) - 1, i \in 0 .. s.TM - 1}
  ELSE {(t \div (s.BN \div s.TN)) * s.TM + i : i \in 0 .. s.TM - 1}

OwnedCols(s, t) ==
  IF s.level = 8
  THEN LET warpCol == (t \div WarpSize) % (s.BN \div s.WN)
           laneCol == (t % WarpSize) % LaneCols(s)
       IN {warpCol * s.WN + laneCol * s.TN + wn * WSUBN(s) + j :
             wn \in 0 .. s.WNITER - 1, j \in 0 .. s.TN - 1}
  ELSE {(t % (s.BN \div s.TN)) * s.TN + j : j \in 0 .. s.TN - 1}

RowsInBounds(s, t) == {r \in OwnedRows(s, t) : RowInBounds(s, r)}
ColsInBounds(s, t) == {c \in OwnedCols(s, t) : ColInBounds(s, c)}

(* Cells whose results thread t stores. *)
Owned(s, t) == RowsInBounds(s, t) \X ColsInBounds(s, t)

-------------------------------------------------------------------------------
(* Shared memory: <<"A", row, k>> and <<"B", k, column>>                   *)

Slots(s) ==
  {<<"A", r, k>> : r \in 0 .. s.BM - 1, k \in 0 .. s.BK - 1} \cup
  {<<"B", k, c>> : k \in 0 .. s.BK - 1, c \in 0 .. s.BN - 1}

Width(s) == IF s.level >= 6 THEN VectorWidth ELSE 1

(* Linear indices of the loads of thread t among `size` of them, and the    *)
(* same for the unrolled prefetch, which checks its bound only in a slot    *)
(* that may pass it.                                                       *)
Strided(s, t, size) ==
  LET threads == ThreadsPerBlock(s)
  IN {t + i * threads : i \in 0 .. (size - 1 - t) \div threads}

(* Seeded fault: the last slot, which some threads do not fill, is missing. *)
UnrolledWhole(s, t, size) ==
  {t + i * ThreadsPerBlock(s) : i \in 0 .. (size \div ThreadsPerBlock(s)) - 1}

Unrolled(s, t, size) ==
  LET threads == ThreadsPerBlock(s)
      slots == (size + threads - 1) \div threads
  IN {t + i * threads : i \in {i \in 0 .. slots - 1 :
        (i + 1) * threads > size => t + i * threads < size}}

(* Where the loads of linear indices L of A and of B start. *)
StartsA(s, L) ==
  {<<l \div (s.BK \div Width(s)), (l % (s.BK \div Width(s))) * Width(s)>> : l \in L}
StartsB(s, L) ==
  {<<l \div (s.BN \div Width(s)), (l % (s.BN \div Width(s))) * Width(s)>> : l \in L}

KInBounds(s, k) == k < s.K

(* Slots filled by loads that start at `a` and `b`, for the tile at k0: the *)
(* guards look at the first element of a load.                             *)
Filled(s, a, b, k0) ==
  {<<"A", e[1], e[2] + q>> :
     e \in {e \in a : RowInBounds(s, e[1]) /\ KInBounds(s, k0 + e[2])},
     q \in 0 .. Width(s) - 1} \cup
  {<<"B", e[1], e[2] + q>> :
     e \in {e \in b : KInBounds(s, k0 + e[1]) /\ ColInBounds(s, e[2])},
     q \in 0 .. Width(s) - 1}

SizeA(s) == (s.BM * s.BK) \div Width(s)
SizeB(s) == (s.BK * s.BN) \div Width(s)

(* What thread t copies for the tile at k0 before a barrier.  At level 3    *)
(* each thread copies the one element of A and of B at its own position.   *)
Stored(s, t, k0) ==
  IF s.level = 3
  THEN LET own == {<<t \div s.BN, t % s.BN>>} IN Filled(s, own, own, k0)
  ELSE Filled(s, StartsA(s, Strided(s, t, SizeA(s))),
                 StartsB(s, Strided(s, t, SizeB(s))), k0)

(* What it prefetches to registers and commits, at levels 7 and 8. *)
Prefetched(s, t, k0) ==
  Filled(s, StartsA(s, Unrolled(s, t, SizeA(s))),
            StartsB(s, Unrolled(s, t, SizeB(s))), k0)

(* What thread t multiplies at index k of a tile for its cells of C.       *)
Needed(s, t, k) ==
  {<<"A", cell[1], k>> : cell \in Owned(s, t)} \cup
  {<<"B", k, cell[2]>> : cell \in Owned(s, t)}

-------------------------------------------------------------------------------
(* What makes a shape right                                                *)

(* Each cell of the block belongs to one thread, and no thread has others. *)
OwnedOnce(s) ==
  /\ UNION {Owned(s, t) : t \in Thread(s)} = Cells(s)
  /\ LET rows == [t \in Thread(s) |-> RowsInBounds(s, t)]
         cols == [t \in Thread(s) |-> ColsInBounds(s, t)]
     IN \A t, u \in Thread(s) :
          t < u => rows[t] \cap rows[u] = {} \/ cols[t] \cap cols[u] = {}

Tiles(s) == (s.K + s.BK - 1) \div s.BK

(* Copies of the tile at k0 stay within the buffers and hold everything     *)
(* that is multiplied for an index below K.                                *)
Covers(s, k0, copied) ==
  /\ copied \subseteq Slots(s)
  /\ \A t \in Thread(s), k \in {k \in 0 .. s.BK - 1 : KInBounds(s, k0 + k)} :
       Needed(s, t, k) \subseteq copied

CoversAll(s) ==
  \A k0 \in {i * s.BK : i \in 0 .. Tiles(s) - 1} :
    /\ s.level >= 3 => Covers(s, k0, UNION {Stored(s, t, k0) : t \in Thread(s)})
    /\ s.level >= 7 => Covers(s, k0, UNION {Prefetched(s, t, k0) : t \in Thread(s)})
===============================================================================
