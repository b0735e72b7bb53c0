------------------------------- MODULE GemmKernel -------------------------------
(***************************************************************************)
(* One thread block of the kernels that GemmLowering.cpp emits for levels  *)
(* 2 to 8, with its threads interleaved freely between barriers.           *)
(*                                                                         *)
(* Level 2 multiplies from global memory.  Levels 3 to 6 copy a tile of A  *)
(* and B to shared memory, meet at a barrier, multiply, and meet again     *)
(* before the tile is overwritten.  Levels 7 and 8 hold two buffers: while *)
(* one is multiplied the next tile is prefetched to registers and then     *)
(* committed to the other buffer, with one barrier per tile.               *)
(*                                                                         *)
(* A slot of shared memory holds the index of the tile its element comes   *)
(* from, an accumulator the number of products summed, and a cell of C the *)
(* number of products and of epilogues applied to it.  A and B are never   *)
(* written, so that the prefetch to registers is part of its commit.       *)
(***************************************************************************)
EXTENDS GemmTiles

CONSTANT Shapes   \* the shapes that a kernel may be launched with

None    == -1     \* slot that nothing was copied to
Garbage == -1     \* sum that took in a slot of another tile

VARIABLES
  shape,  \* the launched shape and block
  pc,     \* next step of each thread
  tile,   \* iterations of loopK that each thread has finished
  k,      \* iterations of the inner loop in this tile, or of loopK at level 2
  acc,    \* products in the accumulators of each thread
  smem,   \* the two buffers of shared memory; levels 3 to 6 use the first
  c       \* the cells of C

vars == <<shape, pc, tile, k, acc, smem, c>>

HasTile(i) == i * shape.BK < shape.K

(* Only levels 7 and 8 load something before they enter loopK.             *)
Start ==
  CASE shape.level = 2 -> "direct"
    [] shape.level \in 3 .. 6 -> IF HasTile(0) THEN "load" ELSE "write"
    [] shape.level \in 7 .. 8 -> "load"

Init ==
  /\ shape \in Shapes
  /\ pc = [t \in Thread(shape) |-> Start]
  /\ tile = [t \in Thread(shape) |-> 0]
  /\ k = [t \in Thread(shape) |-> 0]
  /\ acc = [t \in Thread(shape) |-> 0]
  /\ smem = [buffer \in {0, 1} |-> [slot \in Slots(shape) |-> None]]
  /\ c = [cell \in Cells(shape) |-> [products |-> 0, epilogues |-> 0]]

-------------------------------------------------------------------------------

At(t, label)   == t \in Thread(shape) /\ pc[t] = label
Goto(t, label) == pc' = [pc EXCEPT ![t] = label]

DoubleBuffered == shape.level >= 7

Buffer(i) == IF DoubleBuffered THEN i % 2 ELSE 0

(* Put the number of a tile in some slots of its buffer. *)
Fill(slots, i) ==
  smem' = [smem EXCEPT ![Buffer(i)] =
             [slot \in Slots(shape) |-> IF slot \in slots THEN i ELSE @[slot]]]

Epilogues == IF shape.fused THEN 1 ELSE 0

(* Level 2: each iteration of loopK loads C, adds a product and stores the  *)
(* sum with the epilogue applied.                                          *)
Direct(t) ==
  /\ At(t, "direct")
  /\ IF k[t] < shape.K
     THEN /\ c' = [cell \in Cells(shape) |->
                     IF cell \in Owned(shape, t)
                     THEN [products |-> c[cell].products + 1,
                           epilogues |-> c[cell].epilogues + Epilogues]
                     ELSE c[cell]]
          /\ k' = [k EXCEPT ![t] = @ + 1]
          /\ UNCHANGED pc
     ELSE Goto(t, "done") /\ UNCHANGED <<k, c>>
  /\ UNCHANGED <<shape, tile, acc, smem>>

(* Seeded fault: a thread without cells returns before the barriers. *)
LoadUnlessIdle(t) ==
  /\ At(t, "load")
  /\ IF Owned(shape, t) = {}
     THEN Goto(t, "done") /\ UNCHANGED smem
     ELSE Fill(Stored(shape, t, tile[t] * shape.BK), tile[t]) /\ Goto(t, "loaded")
  /\ UNCHANGED <<shape, tile, k, acc, c>>

(* Copy of a tile, or of the first one at levels 7 and 8. *)
Load(t) ==
  /\ At(t, "load")
  /\ Fill(Stored(shape, t, tile[t] * shape.BK), tile[t])
  /\ Goto(t, "loaded")
  /\ UNCHANGED <<shape, tile, k, acc, c>>

(* An accumulator stays right only if every operand is from its tile.       *)
Multiplied(t) ==
  IF \A slot \in Needed(shape, t, k[t]) : smem[Buffer(tile[t])][slot] = tile[t]
  THEN IF acc[t] = Garbage THEN Garbage ELSE acc[t] + 1
  ELSE Garbage

(* One iteration of the inner loop, which always runs BK times.             *)
Multiply(t) ==
  /\ At(t, "multiply")
  /\ acc' = [acc EXCEPT ![t] = Multiplied(t)]
  /\ k' = [k EXCEPT ![t] = @ + 1]
  /\ IF k[t] + 1 < shape.BK THEN UNCHANGED pc
     ELSE Goto(t, IF DoubleBuffered THEN "commit" ELSE "consumed")
  /\ UNCHANGED <<shape, tile, smem, c>>

(* Seeded fault: the commit goes to the buffer that is being read. *)
CommitInPlace(t) ==
  /\ At(t, "commit")
  /\ smem' = [smem EXCEPT ![Buffer(tile[t])] =
       [slot \in Slots(shape) |->
          IF HasTile(tile[t] + 1) /\
             slot \in Prefetched(shape, t, (tile[t] + 1) * shape.BK)
          THEN tile[t] + 1 ELSE @[slot]]]
  /\ Goto(t, "consumed")
  /\ UNCHANGED <<shape, tile, k, acc, c>>

(* Levels 7 and 8: the prefetched next tile goes to the other buffer. *)
Commit(t) ==
  /\ At(t, "commit")
  /\ IF HasTile(tile[t] + 1)
     THEN Fill(Prefetched(shape, t, (tile[t] + 1) * shape.BK), tile[t] + 1)
     ELSE UNCHANGED smem
  /\ Goto(t, "consumed")
  /\ UNCHANGED <<shape, tile, k, acc, c>>

(* Iterations of loopK that a thread has finished once a barrier lets it go. *)
Finished(t) == IF pc[t] = "consumed" THEN tile[t] + 1 ELSE tile[t]

(* Seeded fault: loopK runs once more. *)
AfterBarrierOneMore(t) ==
  IF ~HasTile(tile[t]) THEN "write"
  ELSE IF pc[t] = "consumed" /\ ~DoubleBuffered THEN "load"
  ELSE "multiply"

(* Where it goes on. *)
AfterBarrier(t) ==
  IF ~HasTile(Finished(t)) THEN "write"
  ELSE IF pc[t] = "consumed" /\ ~DoubleBuffered THEN "load"
  ELSE "multiply"

(* gpu.barrier releases the block when every thread has reached one.        *)
Barrier ==
  /\ \A t \in Thread(shape) : pc[t] \in {"loaded", "consumed"}
  /\ pc' = [t \in Thread(shape) |-> AfterBarrier(t)]
  /\ tile' = [t \in Thread(shape) |-> Finished(t)]
  /\ k' = [t \in Thread(shape) |-> 0]
  /\ UNCHANGED <<shape, acc, smem, c>>

(* Seeded fault: the store leaves the epilogue out. *)
WriteUnfused(t) ==
  /\ At(t, "write")
  /\ c' = [cell \in Cells(shape) |->
             IF cell \in Owned(shape, t)
             THEN [products |-> acc[t], epilogues |-> 0] ELSE c[cell]]
  /\ Goto(t, "done")
  /\ UNCHANGED <<shape, tile, k, acc, smem>>

(* The accumulators, which started from C, with the epilogue applied.       *)
Write(t) ==
  /\ At(t, "write")
  /\ c' = [cell \in Cells(shape) |->
             IF cell \in Owned(shape, t)
             THEN [products |-> acc[t], epilogues |-> Epilogues]
             ELSE c[cell]]
  /\ Goto(t, "done")
  /\ UNCHANGED <<shape, tile, k, acc, smem>>

ThreadStep ==
  \E t \in Thread(shape) :
    Direct(t) \/ Load(t) \/ Multiply(t) \/ Commit(t) \/ Write(t)

Done == \A t \in Thread(shape) : pc[t] = "done"

Terminated == Done /\ UNCHANGED vars

Next == ThreadStep \/ Barrier \/ Terminated

Spec == Init /\ [][Next]_vars

(* The threads of a resident block are all scheduled, and a barrier that    *)
(* all of them have reached lets them go.                                  *)
FairSpec == Spec /\ WF_vars(ThreadStep) /\ WF_vars(Barrier)

(* A shape that the kernels are made for: K is a multiple of the tile, the  *)
(* geometry is sound, and level 2 carries no epilogue.                     *)
WellFormed(s) ==
  /\ s.level \in 2 .. 8
  /\ s.K \in Nat /\ s.BK \in Nat \ {0} /\ s.K % s.BK = 0
  /\ ThreadsPerBlock(s) \in Nat
  /\ s.fused \in BOOLEAN /\ (s.level = 2 => ~s.fused)
  /\ OwnedOnce(s)
  /\ CoversAll(s)

-------------------------------------------------------------------------------
(* Properties                                                              *)

Labels == {"direct", "load", "loaded", "multiply", "commit", "consumed", "write", "done"}

(* Every variable keeps its type, and no thread runs past the last tile of K. *)
TypeOK ==
  /\ shape \in Shapes
  /\ pc \in [Thread(shape) -> Labels]
  /\ tile \in [Thread(shape) -> 0 .. Tiles(shape)]
  /\ k \in [Thread(shape) -> Nat]
  /\ acc \in [Thread(shape) -> Nat \cup {Garbage}]
  /\ smem \in [{0, 1} -> [Slots(shape) -> Nat \cup {None}]]
  /\ c \in [Cells(shape) -> [products : Nat \cup {Garbage}, epilogues : Nat]]

(* The barriers are enough: whenever a thread is about to multiply, every   *)
(* element it reads was copied for the tile it is working on, whichever    *)
(* thread copied it, and no faster thread has overwritten it yet.          *)
ReadsCurrentTile ==
  \A t \in Thread(shape) : pc[t] = "multiply" =>
    \A slot \in Needed(shape, t, k[t]) : smem[Buffer(tile[t])][slot] = tile[t]

(* When the block is over, each of its cells of C holds all K products and  *)
(* the epilogue once: no cell is left out, written by a thread that summed *)
(* something else, or summed twice.                                        *)
ResultCorrect ==
  Done => \A cell \in Cells(shape) :
            c[cell] = [products |-> shape.K, epilogues |-> Epilogues]

(* The block ends: no thread waits at a barrier that another one skips.     *)
Termination == <>Done
===============================================================================
