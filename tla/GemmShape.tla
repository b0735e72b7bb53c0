------------------------------- MODULE GemmShape -------------------------------
(***************************************************************************)
(* How GemmLowering.cpp arrives at the shape of a kernel: the defaults of  *)
(* the level, the override of TRSC_GEMM_TILES at levels 5 to 8, the check  *)
(* with its fallback at level 8, and a block of the launched grid.         *)
(* AutoTuning.cpp attaches tiling_params only at levels above 8, which     *)
(* have no kernel, so that they never reach one.                           *)
(***************************************************************************)
EXTENDS GemmTiles, Sequences

CONSTANTS
  Levels,     \* values of --matmul-opt-level
  Overrides,  \* sizes that TRSC_GEMM_TILES may list; <<>> when it is unset
  Problems    \* records of M, N and K

ASSUME ShapeAssumption ==
  /\ Levels \subseteq 2 .. 8
  /\ \A vals \in Overrides : vals \in Seq(Nat \ {0})
  /\ Problems \subseteq [M : Nat \ {0}, N : Nat \ {0}, K : Nat \ {0}]

(* The default shapes are those for the vectors and warps of the code. *)
ASSUME DefaultsAssumption == VectorWidth = 4 /\ WarpSize = 32

VARIABLES
  stage,  \* "requested", "overridden", "checked", "launched"
  shape

vars == <<stage, shape>>

Tile(BM, BN, BK, TM, TN) == [BM |-> BM, BN |-> BN, BK |-> BK, TM |-> TM, TN |-> TN]
Warp(WM, WN, WNITER)     == [WM |-> WM, WN |-> WN, WNITER |-> WNITER]

DefaultTile(level) ==
  CASE level = 2      -> Tile(32, 32, 1, 1, 1)
    [] level = 3      -> Tile(32, 32, 32, 1, 1)
    [] level = 4      -> Tile(64, 64, 8, 8, 1)
    [] level \in 5..7 -> Tile(64, 64, 8, 8, 8)
    [] level = 8      -> Tile(64, 64, 16, 4, 4)

DefaultWarp == Warp(32, 32, 2)

(* Replace the fields of s that `fields` has. *)
With(s, fields) ==
  [f \in DOMAIN s |-> IF f \in DOMAIN fields THEN fields[f] ELSE s[f]]

Init ==
  \E level \in Levels, p \in Problems :
    /\ stage = "requested"
    /\ shape = With(With(With(
         [level |-> level, M |-> p.M, N |-> p.N, K |-> p.K, bx |-> 0, by |-> 0,
          fused |-> FALSE, BM |-> 0, BN |-> 0, BK |-> 0, TM |-> 0, TN |-> 0,
          WM |-> 0, WN |-> 0, WNITER |-> 0],
         DefaultTile(level)), DefaultWarp), p)

(* readTileOverride: only lists of 5 or 8 integers count. *)
Valid(vals) == Len(vals) \in {5, 8}

Overridden(s, vals) ==
  LET tiled == With(s, Tile(vals[1], vals[2], vals[3], vals[4], vals[5])) IN
  IF s.level = 8 /\ Len(vals) = 8
  THEN With(tiled, Warp(vals[6], vals[7], vals[8]))
  ELSE tiled

ReadOverride ==
  /\ stage = "requested"
  /\ stage' = "overridden"
  /\ IF shape.level >= 5
     THEN \E vals \in Overrides :
            shape' = IF Valid(vals) THEN Overridden(shape, vals) ELSE shape
     ELSE UNCHANGED shape

(* Seeded fault: the rows of a warp tile are not looked at. *)
DeriveOkColumns(s) ==
  /\ s.BK % VectorWidth = 0 /\ s.BN % VectorWidth = 0
  /\ s.BM % s.WM = 0 /\ s.BN % s.WN = 0 /\ s.WN % s.WNITER = 0
  /\ WSUBN(s) % s.TN = 0
  /\ LaneCols(s) > 0 /\ WarpSize % LaneCols(s) = 0

(* deriveOk of level 8. *)
DeriveOk(s) ==
  /\ s.BK % VectorWidth = 0 /\ s.BN % VectorWidth = 0
  /\ s.BM % s.WM = 0 /\ s.BN % s.WN = 0 /\ s.WN % s.WNITER = 0
  /\ WSUBN(s) % s.TN = 0
  /\ LaneCols(s) > 0 /\ WarpSize % LaneCols(s) = 0
  /\ WSUBM(s) > 0 /\ s.WM % WSUBM(s) = 0

Check ==
  /\ stage = "overridden"
  /\ stage' = "checked"
  /\ shape' = IF shape.level = 8 /\ ~DeriveOk(shape)
              THEN With(With(shape, DefaultTile(8)), DefaultWarp)
              ELSE shape

(* Each block of the grid runs on its own. *)
Launch ==
  /\ stage = "checked"
  /\ stage' = "launched"
  /\ \E bx \in 0 .. GridX(shape) - 1, by \in 0 .. GridY(shape) - 1 :
       shape' = [shape EXCEPT !.bx = bx, !.by = by]

Next == ReadOverride \/ Check \/ Launch

Spec == Init /\ [][Next]_vars

-------------------------------------------------------------------------------
(* Properties                                                              *)

(* The tile sizes divide into threads and vector loads, which is all that   *)
(* levels up to 7 ask of a shape; none of them checks it.                  *)
Divisible(s) ==
  /\ s.BM % s.TM = 0 /\ s.BN % s.TN = 0
  /\ s.level >= 6 => s.BK % VectorWidth = 0 /\ s.BN % VectorWidth = 0

Launched == stage = "launched"

(* Vector loads stay within rows of A and B only if these are whole vectors *)
(* long.                                                                   *)
WholeVectors(s) == s.level >= 6 => s.K % VectorWidth = 0 /\ s.N % VectorWidth = 0

Checked == Launched /\ (shape.level = 8 \/ Divisible(shape))

(* Every cell of a block is computed by exactly one thread, for any shape   *)
(* that deriveOk lets pass at level 8 and any divisible one below, and     *)
(* wherever the matrix ends in the block.                                  *)
CellsOwnedOnce == Checked => OwnedOnce(shape)

(* What any thread multiplies has been copied to shared memory by some      *)
(* thread of the block, by the strided loops before a tile as well as by   *)
(* the unrolled prefetch, within the buffers.                              *)
TilesCovered == Checked => CoversAll(shape)

(* "illegal shapes fall back to known-good defaults rather than             *)
(* miscompiling" (docs/architecture.md:161).                                *)
EveryShapeLegal == Launched => OwnedOnce(shape)
===============================================================================
