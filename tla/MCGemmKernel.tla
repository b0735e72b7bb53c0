------------------------------ MODULE MCGemmKernel ------------------------------
(* Blocks of four threads for each scheme of the kernels, with three tiles  *)
(* of K so that both buffers are used again; warps have two lanes.         *)
EXTENDS GemmKernel

Shape(level, BM, BN, BK, TM, TN, M, N, K) ==
  [level |-> level, BM |-> BM, BN |-> BN, BK |-> BK, TM |-> TM, TN |-> TN,
   WM |-> 4, WN |-> 4, WNITER |-> 2, M |-> M, N |-> N, K |-> K,
   bx |-> 0, by |-> 0, fused |-> level # 2]

(* Whole and ragged blocks, three tiles of K; the last block of level 4 is  *)
(* at the far corner of the grid and has threads without cells; K may be 0.   *)
MCShapes ==
  {Shape(2, 2, 2, 1, 1, 1, 2, 1, 3),
   Shape(3, 2, 2, 2, 1, 1, 1, 2, 6),
   [Shape(4, 4, 2, 2, 2, 1, 5, 3, 4) EXCEPT !.bx = 1, !.by = 1],
   Shape(5, 4, 4, 2, 2, 2, 4, 3, 6),
   Shape(6, 4, 4, 4, 2, 2, 3, 4, 8),
   Shape(7, 4, 4, 2, 2, 2, 3, 4, 6),
   [Shape(8, 4, 4, 2, 1, 1, 4, 2, 6) EXCEPT !.WM = 2],
   Shape(8, 4, 8, 2, 2, 1, 3, 6, 6),
   Shape(3, 2, 2, 2, 1, 1, 2, 2, 0), Shape(7, 4, 4, 2, 2, 2, 4, 4, 0)}

(* The theorems hold for these shapes. *)
ASSUME MCShapesAssumption == \A s \in MCShapes : WellFormed(s)
===============================================================================
