------------------------------- MODULE LoopPasses -------------------------------
(***************************************************************************)
(* The loop and matmul passes that the driver runs on a function between   *)
(* MLIR's canonicalization rounds, one action each.                        *)
(*                                                                         *)
(* `code` is a function as canonicalize, CSE and mem2reg leave it: scalars *)
(* are values, carried through loops, and a loop's index is used as it is  *)
(* or through casts.  The rounds between the passes remove dead and repeated *)
(* operations and are not shown.                                           *)
(***************************************************************************)
EXTENDS LoopIR

VARIABLES
  source,  \* the function before the passes
  code,    \* the function now
  todo     \* passes that have still to run

passVars == <<source, code, todo>>

Map(block, F(_)) == [i \in DOMAIN block |-> F(block[i])]

-------------------------------------------------------------------------------
(* LICM                                                                    *)

(* isPure, of MLIR: no effect, and safe to execute when it would not be.   *)
RECURSIVE IsPure(_)
IsPure(o) ==
  CASE o.op = "pure" -> o.fn # "divi"
    [] o.op = "if"  -> \A r \in ToSet(Regions(o)) : \A p \in ToSet(r) : IsPure(p)
    [] o.op = "for" -> o.step = "c1" /\ \A p \in ToSet(o.body) : IsPure(p)
    [] OTHER -> FALSE

IsLoopInvariant(o, loop) ==
  /\ IsPure(o)
  /\ Operands(o) \cap (BlockArgs(loop) \cup Defined(loop.body)) = {}

(* Seeded fault: one round over the body. *)
HoistOnce(loop) ==
  LET Stays(o) == ~IsLoopInvariant(o, loop)
      Moves(o) == IsLoopInvariant(o, loop)
  IN Append(SelectSeq(loop.body, Moves), [loop EXCEPT !.body = SelectSeq(@, Stays)])

(* A loop with what is moved in front of it, round after round. *)
RECURSIVE Hoist(_)
Hoist(loop) ==
  LET Stays(o) == ~IsLoopInvariant(o, loop)
      Moves(o) == IsLoopInvariant(o, loop)
      moved == SelectSeq(loop.body, Moves)
  IN IF moved = <<>> THEN <<loop>>
     ELSE moved \o Hoist([loop EXCEPT !.body = SelectSeq(@, Stays)])

(* Inner loops come first. *)
RECURSIVE HoistIn(_)
HoistIn(block) ==
  LET Visit(o) == LET inner == WithRegions(o, Map(Regions(o), HoistIn))
                  IN IF IsFor(o) THEN Hoist(inner) ELSE <<inner>>
  IN FlattenSeq(Map(block, Visit))

-------------------------------------------------------------------------------
(* Loop fusion                                                             *)

(* What the memory effect interface tells of the operations in a loop; a   *)
(* call of the print runtime has no such interface.                        *)
Accesses(loop) == {o \in AllOps(loop.body) : o.op \in {"load", "store"}}

(* Seeded fault: any two indices are taken as aligned. *)
NeverMisaligned(idx1, idx2, loop1, loop2) == Len(idx1) = Len(idx2)

AreIndicesPerfectlyAligned(idx1, idx2, loop1, loop2) ==
  /\ Len(idx1) = Len(idx2)
  /\ \A i \in DOMAIN idx1 : \/ idx1[i] = loop1.iv /\ idx2[i] = loop2.iv
                            \/ idx1[i] = idx2[i]

HasMemoryHazards(loop1, loop2) ==
  \E p \in Accesses(loop1), q \in Accesses(loop2) :
    /\ p.mem = q.mem
    /\ "store" \in {p.op, q.op}
    /\ ~AreIndicesPerfectlyAligned(p.idx, q.idx, loop1, loop2)

CanFuse(loop1, loop2) ==
  /\ IsFor(loop1)
  /\ IsFor(loop2)
  /\ <<loop1.lb, loop1.ub, loop1.step>> = <<loop2.lb, loop2.ub, loop2.step>>
  /\ loop1.carried = <<>> \/ loop2.carried = <<>>
  /\ ~HasMemoryHazards(loop1, loop2)

(* replaceAllUsesWith *)
RECURSIVE Renamed(_, _, _)
Renamed(block, old, new) ==
  LET Of(v) == IF v = old THEN new ELSE v
      Own(o) ==
        CASE o.op \in {"pure", "call"} -> [o EXCEPT !.args = Map(@, Of)]
          [] o.op = "load" -> [o EXCEPT !.idx = Map(@, Of)]
          [] o.op = "store" -> [o EXCEPT !.idx = Map(@, Of), !.val = Of(@)]
          [] o.op = "if" -> [o EXCEPT !.cond = Of(@), !.gives =
               [i \in DOMAIN @ |-> [@[i] EXCEPT !.yes = Of(@), !.no = Of(@)]]]
          [] o.op = "for" -> [o EXCEPT !.lb = Of(@), !.ub = Of(@), !.carried =
               [i \in DOMAIN @ |-> [@[i] EXCEPT !.init = Of(@), !.yield = Of(@)]]]
          [] OTHER -> o
      Visit(o) == WithRegions(Own(o), [i \in DOMAIN Regions(o) |->
                                         Renamed(Regions(o)[i], old, new)])
  IN Map(block, Visit)

(* The second loop is erased, with what it carries. *)
Fused(loop1, loop2) ==
  [loop1 EXCEPT !.body = @ \o Renamed(loop2.body, loop2.iv, loop1.iv)]

(* Along a block; a loop that has been fused is not looked at again. *)
RECURSIVE FuseAlong(_)
FuseAlong(block) ==
  IF Len(block) < 2 THEN block
  ELSE IF CanFuse(block[1], block[2])
       THEN <<Fused(block[1], block[2])>> \o FuseAlong(SubSeq(block, 3, Len(block)))
       ELSE <<block[1]>> \o FuseAlong(Tail(block))

RECURSIVE FuseIn(_)
FuseIn(block) ==
  LET Visit(o) == WithRegions(o, Map(Regions(o), FuseIn))
  IN FuseAlong(Map(block, Visit))

-------------------------------------------------------------------------------
(* Recognition of matrix products                                          *)

IsFn(o, fn) == o.op = "pure" /\ o.fn = fn
IsNoise(o)  == IsFn(o, "cast") \/ IsFn(o, "value")

Kind(block, op)   == {o \in ToSet(block) : o.op = op}
FnKind(block, fn) == {o \in ToSet(block) : IsFn(o, fn)}
Computes(block)   == {i \in DOMAIN block : ~IsNoise(block[i])}

(* The one loop of a block with nothing else in it. *)
OnlyLoop(block) == IF Cardinality(Computes(block)) = 1 THEN Kind(block, "for") ELSE {}

(* Seeded fault: casts are not looked through. *)
RootAsIs(v, ops) == v

(* A value traced back through casts. *)
RECURSIVE RootIndex(_, _)
RootIndex(v, ops) ==
  LET casts == {o \in ops : IsFn(o, "cast") /\ o.res = v}
  IN IF casts = {} THEN v ELSE RootIndex((CHOOSE o \in casts : TRUE).args[1], ops)

HasIndices(access, indices, ops) ==
  [i \in DOMAIN access.idx |-> RootIndex(access.idx[i], ops)] = indices

(* The innermost body has three loads, a product, a sum and a store, and   *)
(* they are C[i, j] := C[i, j] + A[i, k] * B[k, j] whichever way round the *)
(* sum and the product are written.                                        *)
ProductsIn(body, i, j, k, ops) ==
  {Gemm(t[1].mem, t[2].mem, t[3].mem) : t \in
     {t \in Kind(body, "load") \X Kind(body, "load") \X Kind(body, "load") \X
            FnKind(body, "mulf") \X FnKind(body, "addf") \X Kind(body, "store") :
        /\ Cardinality(Computes(body)) = 6
        /\ Cardinality({t[1], t[2], t[3]}) = 3
        /\ t[6].val = t[5].res
        /\ ToSet(t[5].args) = {t[3].res, t[4].res}
        /\ ToSet(t[4].args) = {t[1].res, t[2].res}
        /\ HasIndices(t[3], <<i, j>>, ops)
        /\ HasIndices(t[1], <<i, k>>, ops)
        /\ HasIndices(t[2], <<k, j>>, ops)
        /\ HasIndices(t[6], <<i, j>>, ops)
        /\ t[6].mem = t[3].mem}}

Products(loopI) ==
  UNION {UNION {UNION {
    ProductsIn(loopK.body, loopI.iv, loopJ.iv, loopK.iv, ops) :
      ops \in {AllOps(<<loopI>>)}} :
      loopK \in OnlyLoop(loopJ.body)} :
      loopJ \in OnlyLoop(loopI.body)}

(* The bounds and steps of the three loops and what they carry play no part. *)
RECURSIVE RaiseIn(_)
RaiseIn(block) ==
  LET Visit(o) == IF IsFor(o) /\ Products(o) # {}
                  THEN CHOOSE g \in Products(o) : TRUE
                  ELSE WithRegions(o, Map(Regions(o), RaiseIn))
  IN Map(block, Visit)

-------------------------------------------------------------------------------
(* Epilogue fusion: C[i, j] := max(C[i, j] + bias[j], 0) after a gemm      *)

BiasesIn(body, i, j, gemm, ops) ==
  {t[2].mem : t \in
     {t \in Kind(body, "load") \X Kind(body, "load") \X FnKind(body, "addf") \X
            FnKind(body, "maxf") \X Kind(body, "store") :
        /\ Cardinality(Computes(body)) = 5
        /\ t[1] # t[2]
        /\ t[5].val = t[4].res
        /\ ToSet(t[4].args) = {t[3].res, "zero"}
        /\ ToSet(t[3].args) = {t[1].res, t[2].res}
        /\ t[5].mem = gemm.c
        /\ HasIndices(t[5], <<i, j>>, ops)
        /\ t[1].mem = gemm.c
        /\ HasIndices(t[1], <<i, j>>, ops)
        /\ HasIndices(t[2], <<j>>, ops)}}

Biases(o, gemm) ==
  IF IsFor(o)
  THEN UNION {UNION {BiasesIn(loopJ.body, o.iv, loopJ.iv, gemm, ops) :
                       ops \in {AllOps(<<o>>)}} : loopJ \in OnlyLoop(o.body)}
  ELSE {}

(* Index of the next operation that is not noise. *)
NextCompute(block) == {p \in Computes(block) : \A q \in Computes(block) : p <= q}

(* Every gemm takes in the loops that follow it, if they are its epilogue. *)
RECURSIVE EpilogueAlong(_)
EpilogueAlong(block) ==
  IF block = <<>> THEN <<>>
  ELSE LET gemm == Head(block)
           after == Tail(block)
           fused == IF gemm.op # "gemm" THEN {}
                    ELSE UNION {{<<p, bias>> : bias \in Biases(after[p], gemm)} :
                                  p \in NextCompute(after)}
       IN IF fused = {} THEN <<gemm>> \o EpilogueAlong(after)
          ELSE LET f == CHOOSE f \in fused : TRUE
               IN <<[gemm EXCEPT !.bias = f[2], !.relu = TRUE]>>
                    \o EpilogueAlong(RemoveAt(after, f[1]))

RECURSIVE EpilogueIn(_)
EpilogueIn(block) ==
  LET Visit(o) == WithRegions(o, Map(Regions(o), EpilogueIn))
  IN EpilogueAlong(Map(block, Visit))

-------------------------------------------------------------------------------
(* Tuning, target and lowering of gemms                                    *)

(* Every gemm of a block and of the regions in it. *)
RECURSIVE ForGemms(_, _)
ForGemms(block, changes) ==
  LET Visit(o) == IF o.op = "gemm" THEN changes @@ o
                  ELSE WithRegions(o, [r \in DOMAIN Regions(o) |->
                                         ForGemms(Regions(o)[r], changes)])
  IN Map(block, Visit)

(* The loops of level 1: the sum of a cell is carried through the inner    *)
(* one and stored once.  The outer one carries trscd.gemm_generated.       *)
LoweredNest(g) ==
  LET term == <<Load("ga", g.a, <<"gi", "gk">>), Load("gb", g.b, <<"gk", "gj">>),
                Pure("gm", "mulf", <<"ga", "gb">>), Pure("gt", "addf", <<"gs", "gm">>)>>
      loopK == For("gk", "c0", "n", "c1", <<Carry("gr", "gs", "gc", "gt")>>, term)
      biased == IF g.bias = "none" THEN <<>>
                ELSE <<Load("gv", g.bias, <<"gj">>), Pure("gw", "addf", <<"gr", "gv">>)>>
      sum == IF g.bias = "none" THEN "gr" ELSE "gw"
      relu == IF g.relu THEN <<Pure("gx", "maxf", <<sum, "zero">>)>> ELSE <<>>
      stored == IF g.relu THEN "gx" ELSE sum
      loopJ == For("gj", "c0", "n", "c1", <<>>,
                   <<Load("gc", g.c, <<"gi", "gj">>), loopK>> \o biased \o relu
                     \o <<Store(stored, g.c, <<"gi", "gj">>)>>)
  IN [For("gi", "c0", "n", "c1", <<>>, <<loopJ>>) EXCEPT !.marked = TRUE]

(* The kernels of the other levels are a launch with the marker; what they *)
(* do is GemmKernel's subject, and how the host calls them DeviceDispatch's. *)
RECURSIVE LowerIn(_, _)
LowerIn(block, level) ==
  LET Visit(o) ==
        IF o.op = "gemm"
        THEN IF level = 1 \/ o.target = "cpu" THEN LoweredNest(o)
             ELSE [o EXCEPT !.marked = TRUE]
        ELSE WithRegions(o, [r \in DOMAIN Regions(o) |-> LowerIn(Regions(o)[r], level)])
  IN Map(block, Visit)

-------------------------------------------------------------------------------
(* Tiling and unrolling                                                    *)

(* getPerfectlyNestedLoops, of MLIR: it looks at nothing but the nesting.  *)
RECURSIVE Band(_)
Band(loop) ==
  IF Len(loop.body) = 1 /\ IsFor(loop.body[1]) THEN <<loop>> \o Band(loop.body[1])
  ELSE <<loop>>

(* tilePerfectlyNested, of MLIR: the loops of a band step over tiles, and  *)
(* in the innermost one a loop for each goes through the tile.             *)
RECURSIVE PointLoops(_, _)
PointLoops(band, body) ==
  IF band = <<>> THEN body
  ELSE LET l == Head(band)
       IN <<Pure(l.iv \o "_e", "addi", <<l.iv, l.iv \o "_s">>),
            Pure(l.iv \o "_u", "mini", <<l.ub, l.iv \o "_e">>),
            For(l.iv \o "_p", l.iv, l.iv \o "_u", l.step, <<>>,
                PointLoops(Tail(band), body))>>

RECURSIVE TileLoops(_, _)
TileLoops(band, inside) ==
  IF band = <<>> THEN inside
  ELSE LET l == Head(band)
       IN <<Pure(l.iv \o "_s", "muli", <<l.step, "tile">>),
            [l EXCEPT !.step = l.iv \o "_s", !.body = TileLoops(Tail(band), inside)]>>

Tiled(band) ==
  LET body == FoldLeft(LAMBDA b, l : Renamed(b, l.iv, l.iv \o "_p"), Last(band).body, band)
  IN <<Pure("tile", "tilesize", <<>>)>> \o TileLoops(band, PointLoops(band, body))

(* Seeded fault: loops of the gemm lowering are tiled like the others. *)
RECURSIVE TileAllIn(_)
TileAllIn(block) ==
  LET Visit(o) == IF ~IsFor(o) THEN <<WithRegions(o, Map(Regions(o), TileAllIn))>>
                  ELSE IF TileSize > 1 /\ Len(Band(o)) > 1 THEN Tiled(Band(o))
                  ELSE <<o>>
  IN FlattenSeq(Map(block, Visit))

(* Only outermost loops start a band. *)
RECURSIVE TileIn(_)
TileIn(block) ==
  LET Visit(o) == IF ~IsFor(o) THEN <<WithRegions(o, Map(Regions(o), TileIn))>>
                  ELSE IF TileSize > 1 /\ ~o.marked /\ Len(Band(o)) > 1 THEN Tiled(Band(o))
                  ELSE <<o>>
  IN FlattenSeq(Map(block, Visit))

IsInnermost(loop) == \A o \in AllOps(loop.body) : ~IsFor(o)

(* The loops that loopUnrollByFactor, of MLIR, is called for. *)
RECURSIVE UnrollIn(_)
UnrollIn(block) ==
  LET Visit(o) == IF IsFor(o) /\ o.marked THEN o
                  ELSE IF IsFor(o) /\ IsInnermost(o) THEN [o EXCEPT !.unrolled = TRUE]
                  ELSE WithRegions(o, Map(Regions(o), UnrollIn))
  IN Map(block, Visit)

-------------------------------------------------------------------------------
(* Pipelines and the pass manager                                          *)

Stages == {"raw", "rawcln", "loop", "finopt", "stdlowering"}  \* OptimizationStage

LoopOptPipeline == <<"licm", "fusion">>
MatMulOptPipeline(level) ==
  <<"recognize", "epilogue">> \o (IF level >= 9 THEN <<"autotune">> ELSE <<>>)
    \o <<"dispatch", "lower">>
LateLoopOptPipeline == <<"tile", "unroll">>

Pipeline(stage, level) ==
  (IF stage \in {"raw", "rawcln"} THEN <<>> ELSE LoopOptPipeline) \o
  (IF stage \in {"finopt", "stdlowering"}
   THEN (IF level > 0 THEN MatMulOptPipeline(level) ELSE <<>>) \o LateLoopOptPipeline
   ELSE <<>>)

(* A pass runs on what the verifier has accepted. *)
Pass(name, result) ==
  /\ todo # <<>>
  /\ Head(todo) = name
  /\ IsScoped(code)
  /\ code' = result
  /\ todo' = Tail(todo)
  /\ UNCHANGED source

LICM               == Pass("licm", HoistIn(code))
LoopFusion         == Pass("fusion", FuseIn(code))
Recognize          == Pass("recognize", RaiseIn(code))
EpilogueFusion     == Pass("epilogue", EpilogueIn(code))
AutoTune           == Pass("autotune", ForGemms(code, [tiling |-> "heuristic"]))
Dispatch(level, device) ==
  Pass("dispatch", IF level < 2 THEN code ELSE ForGemms(code, [target |-> device]))
Lower(level, device) == Pass("lower", LowerIn(code, IF device = "cpu" THEN 1 ELSE level))
LoopTile           == Pass("tile", TileIn(code))
LoopUnroll         == Pass("unroll", UnrollIn(code))

PassStep(level, device) ==
  \/ LICM \/ LoopFusion \/ Recognize \/ EpilogueFusion \/ AutoTune
  \/ Dispatch(level, device) \/ Lower(level, device) \/ LoopTile \/ LoopUnroll

-------------------------------------------------------------------------------
(* Properties                                                              *)

(* No pass leaves a value without its definition: LICM.cpp:45 asks for the  *)
(* operands of an operation and not for what its regions use, LoopFusion   *)
(* erases the second loop with what it carries, and raising and tiling do  *)
(* not look at carried values.                                             *)
Scoped == IsScoped(code)

(* After every pass the function computes, stores and prints what it did.  *)
(* The passes move and merge loops after checks of their own on effects,   *)
(* indices and shapes (Utils.cpp:5, MatMulRecognition.cpp:71,              *)
(* GemmEpilogueFusion.cpp:118, LoopTiling.cpp:39).                         *)
MeaningKept == Scoped /\ (code # source => Outcome(code) = Outcome(source))

Ran(name) == todo # <<>> /\ todo' # todo /\ Head(todo) = name

NothingInvariant(block) ==
  \A loop \in {o \in AllOps(block) : IsFor(o)} :
    \A o \in ToSet(loop.body) : ~IsLoopInvariant(o, loop)

(* LICM leaves nothing behind that it could move: chains of operations and *)
(* nests of loops are followed to the end (licm.mlir TEST 7 and 11).       *)
HoistedFully == [][Ran("licm") => NothingInvariant(code')]_passVars

Arrays(loop) == {o.mem : o \in Accesses(loop)}
ComputesProduct(o) ==
  LET outcome == Outcome(<<o>>)
  IN \E a, b, c \in Arrays(o) : c \notin {a, b} /\ outcome = Outcome(<<Gemm(a, b, c)>>)

Inside(block) == {o \in ToSet(block) : ~IsNoise(o)}

(* The cells that are stored to when the loops ivs run once only. *)
RECURSIVE OnceIn(_, _)
OnceIn(block, ivs) ==
  Map(block, LAMBDA o : IF IsFor(o) /\ o.iv \in ivs
                        THEN [o EXCEPT !.ub = "c1", !.body = OnceIn(@, ivs)] ELSE o)
CellsOnce(loop, ivs) == DOMAIN Outcome(OnceIn(<<loop>>, ivs))[0].mem

(* The canonical form of architecture.md:106, without the dataflow and the   *)
(* indices: three loops in each other, and in the innermost "exactly three   *)
(* loads / one mul / one add / one store".  The outermost goes from row to   *)
(* row and the next one along it, as execution shows.                      *)
IsCanonical(loopI) ==
  \E loopJ, loopK \in AllOps(loopI.body) :
    /\ IsFor(loopJ) /\ Inside(loopI.body) = {loopJ}
    /\ IsFor(loopK) /\ Inside(loopJ.body) = {loopK}
    /\ Cardinality(Kind(loopK.body, "load")) = 3
    /\ \A others \in {Kind(loopK.body, "store"), FnKind(loopK.body, "mulf"), FnKind(loopK.body, "addf")} :
         Cardinality(others) = 1
    /\ Cardinality(Inside(loopK.body)) = 6
    /\ \A cell \in CellsOnce(loopI, {loopI.iv}) : cell[2][1] = 0
    /\ \A cell \in CellsOnce(loopI, {loopI.iv, loopJ.iv}) : cell[2] = <<0, 0>>

(* "A/B operand order is recovered from the index pattern [...], so commuted *)
(* multiplies still match" (architecture.md:115): after recognition no nest  *)
(* of the canonical form is left that computes a whole matrix product, with  *)
(* the operands of its sum and product in either order and indices through   *)
(* casts.  Products of another form, such as loops in another order or a     *)
(* sum that is carried, are left as they are (MatMulRecognition.cpp:72-168). *)
ProductsRaised ==
  [][Ran("recognize") =>
       ~\E o \in AllOps(code') : /\ IsFor(o)
                                /\ IsScoped(<<o>>)
                                /\ IsCanonical(o)
                                /\ ComputesProduct(o)]_passVars

Generated(block) == {o \in AllOps(block) : o.op \in {"for", "gemm"} /\ o.marked}

(* "Generic loop passes (tiling, unrolling) must not rewrite code carrying *)
(* this marker" (TrscPasses.h:11).                                         *)
GeneratedKept == [][Generated(code) \subseteq Generated(code')]_passVars
===============================================================================
