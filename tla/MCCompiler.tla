------------------------------- MODULE MCCompiler -------------------------------
(* Compiler on short command lines, on pairs of loops and on loop nests.   *)
EXTENDS Compiler

Loop(iv, carried, body) == For(iv, "c0", "n", "c1", carried, body)

-------------------------------------------------------------------------------
(* Bodies of single loops over v; s tells the values of two loops apart.   *)

Kinds ==
  {"fill", "copy", "ahead", "behind", "fixed", "print", "sum", "count",
   "chain", "guarded", "divide", "inner"}

Body(kind, v, s) ==
  CASE kind = "fill"   -> <<Store("x", "V", <<v>>)>>
    [] kind = "copy"   -> <<Load("l" \o s, "V", <<v>>), Store("l" \o s, "W", <<v>>)>>
    [] kind = "ahead"  -> <<Pure("i" \o s, "addi", <<v, "c1">>), Load("l" \o s, "V", <<"i" \o s>>),
                            Store("l" \o s, "W", <<v>>)>>
    [] kind = "behind" -> <<Pure("i" \o s, "addi", <<v, "c1">>), Store("y", "W", <<"i" \o s>>)>>
    [] kind = "fixed"  -> <<Load("l" \o s, "V", <<v>>), Load("a" \o s, "W", <<"c0">>),
                            Pure("t" \o s, "addf", <<"a" \o s, "l" \o s>>),
                            Store("t" \o s, "W", <<"c0">>)>>
    [] kind = "print"  -> <<Load("l" \o s, "W", <<v>>), Call(<<"l" \o s>>)>>
    [] kind = "sum"    -> <<Load("l" \o s, "V", <<v>>),
                            Pure("t" \o s, "addf", <<"p" \o s, "l" \o s>>)>>
    [] kind = "count"  -> <<Pure("t" \o s, "addf", <<"p" \o s, "x">>)>>
    [] kind = "chain"  -> <<Pure("a" \o s, "addf", <<"x", "y">>), Load("l" \o s, "V", <<v>>),
                            Pure("b" \o s, "mulf", <<"a" \o s, "x">>),
                            Pure("t" \o s, "mulf", <<"b" \o s, "l" \o s>>),
                            Store("t" \o s, "W", <<v>>)>>
    [] kind = "guarded" -> <<If("flag", <<Pure("a" \o s, "addf", <<"x", "y">>),
                                          Store("a" \o s, "V", <<v>>)>>, <<>>, <<>>)>>
    [] kind = "divide" -> <<Pure("i" \o s, "divi", <<"n", "flag">>), Call(<<"i" \o s>>)>>
    [] kind = "inner"  -> <<Loop("w" \o s, <<>>, <<Pure("a" \o s, "mulf", <<"x", "y">>),
                                                 Store("a" \o s, "V", <<"w" \o s>>)>>)>>

Carried(kind, s) ==
  IF kind \in {"sum", "count"} THEN <<Carry("r" \o s, "p" \o s, "zero", "t" \o s)>> ELSE <<>>

Single(kind, ub, s) == For("v" \o s, "c0", ub, "c1", Carried(kind, s), Body(kind, "v" \o s, s))
Uses(kind, s) == IF Carried(kind, s) = <<>> THEN <<>> ELSE <<Call(<<"r" \o s>>)>>

Pair(kind1, ub1, kind2, ub2) ==
  <<Single(kind1, ub1, "1"), Single(kind2, ub2, "2")>> \o Uses(kind1, "1") \o Uses(kind2, "2")

(* The second loop alone carries values, or uses those of the first. *)
FusedResults ==
  {Pair(p[1], "n", p[2], "n") : p \in
     {q \in Kinds \X Kinds : Carried(q[1], "1") = <<>> /\ Carried(q[2], "2") # <<>>}} \cup
  {<<Single(kind, "n", "1"), Loop("v2", <<>>, <<Store("r1", "W", <<"v2">>)>>)>> :
     kind \in {"sum", "count"}}

Printing == {"print", "divide"}
Pairs ==
  {Pair(p[1], "n", p[2], p[3]) : p \in
     {q \in Kinds \X Kinds \X {"n", "m"} :
        q[3] = "n" => /\ ~(Carried(q[1], "1") = <<>> /\ Carried(q[2], "2") # <<>>)
                      /\ ~(q[1] = "fixed" /\ q[2] = "fixed")
                      /\ ~(q[1] \in Printing /\ q[2] \in Printing)}}

\* The same within a loop, with a value that only the inner loops leave alone.
Nested ==
  {<<Loop("u", <<>>, <<Loop("v1", <<>>, <<Pure("a1", "muli", <<"u", "n">>), Pure("b1", "addi", <<"a1", "v1">>),
                                          Load("l1", "V", <<"b1">>), Store("l1", "A", <<"u", "v1">>)>>),
                       second>>)>> : second \in
     {Loop("v2", <<>>, <<Load("l2", "A", <<"u", "v2">>), Store("l2", "W", <<"v2">>)>>),
      Loop("v2", <<>>, <<Load("l2", "A", <<"v2", "u">>), Store("l2", "W", <<"v2">>)>>),
      Loop("v2", <<>>, <<Pure("a2", "addf", <<"x", "y">>), Store("a2", "B", <<"v2", "u">>)>>)}}

-------------------------------------------------------------------------------
(* Nests                                                                   *)

\* Two loops in a perfect nest; no iteration depends on another one.
Bands ==
  {<<Loop("u", <<>>, <<Loop("v", <<>>, body)>>)>> : body \in
     {<<Store("x", "A", <<"u", "v">>)>>,
      <<Load("l", "B", <<"v", "u">>), Store("l", "A", <<"u", "v">>)>>,
      <<Load("l", "A", <<"u", "v">>), Pure("t", "addf", <<"l", "x">>), Store("t", "A", <<"u", "v">>)>>,
      <<Load("l", "V", <<"u">>), Load("a", "A", <<"u", "v">>), Pure("t", "addf", <<"l", "a">>),
        Store("t", "A", <<"u", "v">>)>>}}

(* C[i, j] := C[i, j] + A[i, k] * B[k, j], and what is nearly that: each    *)
(* field is a way to write a part.                                         *)
Plain ==
  [order |-> <<"i", "j", "k">>, a |-> <<"A", "i", "k">>, b |-> <<"B", "k", "j">>, into |-> "C",
   at |-> <<"i", "j">>, swapped |-> FALSE, casts |-> FALSE, carried |-> <<>>, last |-> <<>>, ub |-> "n"]

MatMulLoops(f) ==
  LET \* an index, through a round trip of casts if so
      Through(v) == IF f.casts THEN "c" \o v ELSE v
      casts == IF f.casts
               THEN FlattenSeq([p \in 1 .. 3 |-> LET v == <<"i", "j", "k">>[p]
                      IN <<Pure("d" \o v, "cast", <<v>>), Pure("c" \o v, "cast", <<"d" \o v>>)>>])
               ELSE <<>>
      idx == [p \in 1 .. 2 |-> Through(f.at[p])]
      body == casts \o
        <<Load("lc", "C", idx),
          Load("la", f.a[1], <<Through(f.a[2]), Through(f.a[3])>>),
          Load("lb", f.b[1], <<Through(f.b[2]), Through(f.b[3])>>),
          Pure("lm", "mulf", IF f.swapped THEN <<"lb", "la">> ELSE <<"la", "lb">>),
          Pure("ls", "addf", IF f.swapped THEN <<"lm", "lc">> ELSE <<"lc", "lm">>),
          Store("ls", f.into, idx)>> \o f.last
  IN For(f.order[1], "c0", f.ub, "c1", f.carried,
         <<Loop(f.order[2], <<>>, <<Loop(f.order[3], <<>>, body)>>)>>)

\* The sum of a cell is carried, and C loaded and stored around the inner loop.
InRegister ==
  Loop("i", <<>>, <<Loop("j", <<>>,
    <<Load("lc", "C", <<"i", "j">>),
      Loop("k", <<Carry("lr", "lp", "lc", "ls")>>,
           <<Load("la", "A", <<"i", "k">>), Load("lb", "B", <<"k", "j">>),
             Pure("lm", "mulf", <<"la", "lb">>), Pure("ls", "addf", <<"lp", "lm">>)>>),
      Store("lr", "C", <<"i", "j">>)>>)>>)

Forms ==
  {Plain,
   [Plain EXCEPT !.swapped = TRUE],
   [Plain EXCEPT !.casts = TRUE],
   [Plain EXCEPT !.b = <<"A", "k", "j">>],      \* the square of A
   [Plain EXCEPT !.order = <<"i", "k", "j">>],
   [Plain EXCEPT !.order = <<"j", "i", "k">>],
   [Plain EXCEPT !.b = <<"B", "j", "k">>],      \* by the transpose of B
   [Plain EXCEPT !.a = <<"A", "k", "i">>],
   [Plain EXCEPT !.at = <<"j", "i">>],
   [Plain EXCEPT !.into = "E"],                 \* stored elsewhere
   [Plain EXCEPT !.last = <<Store("lm", "E", <<"i", "j">>)>>],
   [Plain EXCEPT !.last = <<Call(<<"ls">>)>>]}

BiasLoops(i, j, into, bias, relu) ==
  Loop(i, <<>>, <<Loop(j, <<>>,
    <<Load("ec", "C", <<i, j>>), Load("eb", bias[1], <<bias[2]>>), Pure("es", "addf", <<"eb", "ec">>)>>
      \o (IF relu THEN <<Pure("er", "maxf", <<"es", "zero">>)>> ELSE <<>>)
      \o <<Store(IF relu THEN "er" ELSE "es", into, <<i, j>>)>>)>>)

\* A perfect nest that prints is tiled, and then prints in another order.
Tileable(f) == \A o \in ToSet(f.last) : o.op # "call"

Whole    == MatMulLoops(Plain)
MatMuls ==
  {<<MatMulLoops(f)>> : f \in {g \in Forms : Tileable(g)}} \cup
  {<<InRegister>>, <<Whole, BiasLoops("u", "v", "C", <<"V", "v">>, FALSE)>>,
   <<Whole, Single("fill", "n", "1")>>,
   <<Whole, Load("l", "C", <<"c0", "c1">>), Call(<<"l">>)>>,
   <<Loop("w", <<>>, <<Whole, Store("x", "V", <<"w">>)>>)>>}

-------------------------------------------------------------------------------
(* Command lines                                                           *)

MCStem(name) == IF name = "dir/in.rs" THEN "in" ELSE name

Words ==
  {"dir/in.rs", "", "-o", "--help", "-dump-token", "-dump-ast", "-dump-typedast",
   "-emit-mlir", "-emit-llvm", "-emit-obj", "-optim=raw", "--matmul-opt-level=high"}

Short == UNION {[1 .. k -> Words] : k \in 0 .. 3}
Long ==
  {<<"-emit-mlir", "dir/in.rs", "-o", "out", "-optim=loop">>, <<"-o", "-o", "dir/in.rs", "-o", "out">>,
   <<"dir/in.rs", "-o", "-emit-obj", "-o", "">>, <<"-dump-symboltable", "-v", "-dump-symbol", "dir/in.rs">>,
   <<"-dump-typedast", "dir/in.rs", "-dump-symboltable", "-o", "out">>}

\* What each level, device and stage makes of a function.
Levelled == {<<"-emit-mlir", "dir/in.rs", l>> : l \in DOMAIN Levels}
Staged   == {<<"-emit-mlir", o, "dir/in.rs">> : o \in DOMAIN Optim}
Cpu      == {<<"-emit-mlir", "--device=cpu", "dir/in.rs">>}

MCCommandLines == Short \cup Long \cup Levelled \cup Staged \cup Cpu

MCCompilations ==
  ((Short \cup Long) \X {Pair("fill", "n", "copy", "m")}) \cup
  (Levelled \X (MatMuls \cup Bands)) \cup
  (Cpu \X MatMuls) \cup
  (Staged \X {<<Whole>>}) \cup
  ({<<"-emit-mlir", "dir/in.rs">>} \X (Pairs \cup Nested))

Biased ==
  {<<Gemm("A", "B", "C"), b>> : b \in
     {BiasLoops("u", "v", "C", <<"V", "v">>, TRUE), BiasLoops("u", "v", "C", <<"V", "u">>, TRUE),
      BiasLoops("u", "v", "E", <<"V", "v">>, TRUE), BiasLoops("u", "v", "C", <<"V", "v">>, FALSE),
      Single("fill", "n", "1")}} \cup
  {<<Gemm("A", "B", "C"), Store("x", "C", <<"c0", "c0">>), BiasLoops("u", "v", "C", <<"V", "v">>, TRUE)>>}

MCOptimizations ==
  ({<<"epilogue", "tile">>} \X Biased) \cup ({<<"licm">>} \X Pairs)

\* A loop and a second one that alone carries values.
MCFusedResults == {<<"-emit-mlir", "dir/in.rs">>} \X FusedResults

\* The product of a part of the rows.
MCRaisedPart == {<<"-emit-mlir", "dir/in.rs">>} \X {<<MatMulLoops([Plain EXCEPT !.ub = "m"])>>}
===============================================================================
