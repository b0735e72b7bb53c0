--------------------------------- MODULE LoopIR ---------------------------------
(***************************************************************************)
(* The part of MLIR that the loop passes of lib/MLIR work on: scf.for and  *)
(* scf.if, loads and stores of arrays, arithmetic, calls of the print      *)
(* runtime and trscd.gemm, with what executing them does.                  *)
(*                                                                         *)
(* A block is a sequence of operations and a value is a name.  Contents of *)
(* arrays are terms over the initial contents, so that two codes have the  *)
(* same outcome when they compute the same floating-point expressions in   *)
(* the same cells, print the same in the same order and trap alike.        *)
(* Addition and multiplication commute and nothing else is assumed.        *)
(*                                                                         *)
(* Operations other than trscd.gemm are defined by MLIR.                   *)
(***************************************************************************)
EXTENDS Integers, Sequences, FiniteSets, SequencesExt

CONSTANTS
  Extent,   \* of every dimension of every array, the value n
  Part,     \* a smaller number, the value m
  TileSize  \* of --trsc-loop-tile

ASSUME ExtentAssumption == /\ Extent \in Nat \ {0}
                           /\ Part \in 0 .. Extent - 1
                           /\ TileSize \in Nat \ {0}

-------------------------------------------------------------------------------
(* Operations                                                              *)

Pure(res, fn, args)   == [op |-> "pure", res |-> res, fn |-> fn, args |-> args]
Load(res, mem, idx)   == [op |-> "load", res |-> res, mem |-> mem, idx |-> idx]
Store(val, mem, idx)  == [op |-> "store", val |-> val, mem |-> mem, idx |-> idx]
Call(args)            == [op |-> "call", args |-> args]
If(cond, yes, no, gives) ==  \* gives: results with what each region yields
  [op |-> "if", cond |-> cond, yes |-> yes, no |-> no, gives |-> gives]
Give(res, yes, no)    == [res |-> res, yes |-> yes, no |-> no]
For(iv, lb, ub, step, carried, body) ==
  [op |-> "for", iv |-> iv, lb |-> lb, ub |-> ub, step |-> step,
   carried |-> carried, body |-> body, marked |-> FALSE, unrolled |-> FALSE]
Carry(res, arg, init, yield) ==  \* an iter_arg and its result
  [res |-> res, arg |-> arg, init |-> init, yield |-> yield]
Gemm(a, b, c) ==
  [op |-> "gemm", a |-> a, b |-> b, c |-> c, bias |-> "none", relu |-> FALSE,
   tiling |-> "none", target |-> "none", marked |-> FALSE]

IsFor(o) == o.op = "for"

Regions(o) ==
  CASE o.op = "for" -> <<o.body>>
    [] o.op = "if" -> <<o.yes, o.no>>
    [] OTHER -> <<>>

WithRegions(o, regions) ==
  CASE o.op = "for" -> [o EXCEPT !.body = regions[1]]
    [] o.op = "if" -> [o EXCEPT !.yes = regions[1], !.no = regions[2]]
    [] OTHER -> o

(* The operands of an operation itself, not what its regions use.          *)
Operands(o) ==
  CASE o.op \in {"pure", "call"} -> ToSet(o.args)
    [] o.op = "load" -> ToSet(o.idx)
    [] o.op = "store" -> ToSet(o.idx) \cup {o.val}
    [] o.op = "if" -> {o.cond}
    [] o.op = "for" -> {o.lb, o.ub, o.step} \cup {c.init : c \in ToSet(o.carried)}
    [] OTHER -> {}

Results(o) ==
  CASE o.op \in {"pure", "load"} -> {o.res}
    [] o.op = "if" -> {g.res : g \in ToSet(o.gives)}
    [] o.op = "for" -> {c.res : c \in ToSet(o.carried)}
    [] OTHER -> {}

Defined(block) == UNION {Results(o) : o \in ToSet(block)}
IterArgs(loop) == {c.arg : c \in ToSet(loop.carried)}
BlockArgs(o) == IF IsFor(o) THEN {o.iv} \cup IterArgs(o) ELSE {}
CarryOf(loop, arg) == CHOOSE c \in ToSet(loop.carried) : c.arg = arg

(* Every operation of a block and of the regions in it. *)
RECURSIVE AllOps(_)
AllOps(block) ==
  ToSet(block) \cup
  UNION {UNION {AllOps(r) : r \in ToSet(Regions(o))} : o \in ToSet(block)}

(* The values of a function: constants and arguments. *)
Globals == {"c0", "c1", "n", "m", "flag", "zero", "x", "y"}

(* The verifier's rule for values: each is defined above its use, in the   *)
(* same block or in one around it.                                         *)
RECURSIVE ScopedIn(_, _)
ScopedIn(block, known) ==
  IF block = <<>> THEN TRUE
  ELSE LET o == Head(block)
           inside == known \cup BlockArgs(o)
       IN /\ Operands(o) \subseteq known
          /\ \A r \in ToSet(Regions(o)) : ScopedIn(r, inside)
          /\ o.op = "for" => \A c \in ToSet(o.carried) :
                              c.yield \in inside \cup Defined(o.body)
          /\ o.op = "if" => \A g \in ToSet(o.gives) :
                             /\ g.yes \in known \cup Defined(o.yes)
                             /\ g.no \in known \cup Defined(o.no)
          /\ ScopedIn(Tail(block), known \cup Results(o))

IsScoped(code) == ScopedIn(code, Globals)

-------------------------------------------------------------------------------
(* Execution                                                               *)

Index(k) == <<"index", k>>
Num(v) == v[2]
Term(kind, parts) == <<kind, parts>>

InitialEnv(flag) ==
  [c0 |-> Index(0), c1 |-> Index(1), n |-> Index(Extent), m |-> Index(Part),
   flag |-> Index(flag), zero |-> Term("zero", 0),
   x |-> Term("argument", "x"), y |-> Term("argument", "y")]

Add(u, v)     == Term("add", {u, v})
Mul(u, v)     == Term("mul", {u, v})
Maximum(u, v) == Term("max", {u, v})

Apply(fn, v) ==
  CASE fn = "addf" -> Add(v[1], v[2])
    [] fn = "mulf" -> Mul(v[1], v[2])
    [] fn = "maxf" -> Maximum(v[1], v[2])
    [] fn = "addi" -> Index(Num(v[1]) + Num(v[2]))
    [] fn = "muli" -> Index(Num(v[1]) * Num(v[2]))
    [] fn = "divi" -> Index(IF Num(v[2]) = 0 THEN 0 ELSE Num(v[1]) \div Num(v[2]))
    [] fn = "mini" -> IF Num(v[1]) < Num(v[2]) THEN v[1] ELSE v[2]
    [] fn = "lt"   -> Index(IF Num(v[1]) < Num(v[2]) THEN 1 ELSE 0)
    [] fn = "tilesize" -> Index(TileSize)
    [] fn \in {"cast", "value"} -> v[1]

Bind(st, values) == [st EXCEPT !.env = values @@ @]
Values(st, names) == [i \in DOMAIN names |-> st.env[names[i]]]
Cell(st, mem, idx) == <<mem, [i \in DOMAIN idx |-> Num(st.env[idx[i]])]>>
Contents(st, cell) ==
  IF cell \in DOMAIN st.mem THEN st.mem[cell] ELSE Term("cell", cell)

(* trscd.gemm: C[i, j] becomes C[i, j] + A[i, 0] * B[0, j] + ..., through  *)
(* the epilogue.  Nothing is stored before every sum is known.             *)
Product(g, st, i, j) ==
  LET sum[k \in 0 .. Extent] ==
        IF k = 0 THEN Contents(st, <<g.c, <<i, j>>>>)
        ELSE Add(sum[k - 1], Mul(Contents(st, <<g.a, <<i, k - 1>>>>),
                                 Contents(st, <<g.b, <<k - 1, j>>>>)))
      biased == IF g.bias = "none" THEN sum[Extent]
                ELSE Add(sum[Extent], Contents(st, <<g.bias, <<j>>>>))
  IN IF g.relu THEN Maximum(biased, Term("zero", 0)) ELSE biased

RunGemm(g, st) ==
  LET cells == {<<g.c, <<i, j>>>> : i, j \in 0 .. Extent - 1}
  IN [st EXCEPT !.mem = [cell \in cells |-> Product(g, st, cell[2][1], cell[2][2])] @@ @]

RECURSIVE Exec(_, _), Iterate(_, _, _, _, _)

(* The rest of a loop, from iv = at on. *)
Iterate(loop, st, at, ub, step) ==
  IF at >= ub THEN st
  ELSE LET end == Exec(loop.body, Bind(st, loop.iv :> Index(at)))
           next == [a \in IterArgs(loop) |-> end.env[CarryOf(loop, a).yield]]
       IN Iterate(loop, Bind(end, next), at + step, ub, step)

RunFor(loop, st) ==
  LET enter == Bind(st, [a \in IterArgs(loop) |-> st.env[CarryOf(loop, a).init]])
      end == Iterate(loop, enter, Num(st.env[loop.lb]), Num(st.env[loop.ub]),
                     Num(st.env[loop.step]))
  IN Bind(end, [r \in Results(loop) |->
                  end.env[(CHOOSE c \in ToSet(loop.carried) : c.res = r).arg]])

RunIf(o, st) ==
  LET taken == Num(st.env[o.cond]) = 1
      end == Exec(IF taken THEN o.yes ELSE o.no, st)
      Given(r) == CHOOSE g \in ToSet(o.gives) : g.res = r
  IN Bind(end, [r \in Results(o) |->
                  end.env[IF taken THEN Given(r).yes ELSE Given(r).no]])

(* A division by zero is seen. *)
RunPure(o, st) ==
  LET args == Values(st, o.args)
      traps == o.fn = "divi" /\ Num(args[2]) = 0
  IN Bind(IF traps THEN [st EXCEPT !.out = Append(@, Term("trap", 0))] ELSE st,
          o.res :> Apply(o.fn, args))

Exec(code, st) ==
  IF code = <<>> THEN st
  ELSE LET o == Head(code)
       IN Exec(Tail(code),
            CASE o.op = "pure" -> RunPure(o, st)
              [] o.op = "load" -> Bind(st, o.res :> Contents(st, Cell(st, o.mem, o.idx)))
              [] o.op = "store" ->
                   [st EXCEPT !.mem = Cell(st, o.mem, o.idx) :> st.env[o.val] @@ @]
              [] o.op = "call" -> [st EXCEPT !.out = Append(@, Values(st, o.args))]
              [] o.op = "if" -> RunIf(o, st)
              [] o.op = "for" -> RunFor(o, st)
              [] o.op = "gemm" -> RunGemm(o, st))

(* What a run leaves in the arrays and prints, for both values of flag.    *)
Outcome(code) ==
  [flag \in 0 .. 1 |->
     LET end == Exec(code, [env |-> InitialEnv(flag), mem |-> <<>>, out |-> <<>>])
     IN [mem |-> end.mem, out |-> end.out]]
===============================================================================
