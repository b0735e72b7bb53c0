------------------------------ MODULE MCGemmShape ------------------------------
(* Shapes around the defaults, with the vector width and the warp size of   *)
(* the code: some divide, some do not, and problems that end inside a block.*)
EXTENDS GemmShape

MCProblems ==
  {[M |-> 32, N |-> 32, K |-> 32], [M |-> 33, N |-> 20, K |-> 20]}

Tiles5 ==
  {<<BM, BN, BK, TM, TN>> : BM \in {16, 24, 32}, BN \in {16, 32}, BK \in {8, 12},
                            TM \in {3, 4, 8}, TN \in {2, 4}}

Tiles8 ==
  {<<32, BN, 8, TM, TN, WM, WN, WNITER>> :
     BN \in {16, 32}, TM \in {2, 3, 4}, TN \in {2, 4}, WM \in {8, 16, 32},
     WN \in {16, 32}, WNITER \in {1, 2, 3}}

(* Lists of the wrong length leave the defaults. *)
MCOverrides == {<<>>, <<16, 16, 8>>, <<16, 16, 8, 4, 4, 32>>} \cup Tiles5 \cup Tiles8
===============================================================================
