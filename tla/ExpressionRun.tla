------------------------------ MODULE ExpressionRun ------------------------------
(***************************************************************************)
(* What mlir::verify asks of the operations that MLIRGen emits, and what      *)
(* they compute: the arith, memref and scf dialects, all external.  A memory   *)
(* is a function from the names of variables to their patterns, and from the *)
(* names of functions to the pattern that a call returns.                    *)
(***************************************************************************)
EXTENDS ExpressionGen

IntOps == {"addi", "subi", "muli", "divsi", "divui", "xori"}
IntCompare == {"eq", "ne", "slt", "sle", "sgt", "sge", "ult", "ule", "ugt", "uge"}
FloatOps == {"addf", "subf", "mulf", "divf", "negf"}
FloatCompare == {"oeq", "one", "olt", "ole", "ogt", "oge"}

OneType(v, sort) ==
  \A i \in DOMAIN v.args : v.args[i].type = v.args[1].type /\ v.args[i].type.sort = sort

ElementOf(name, s) == Storage(TypeIn(s, name)).element
RankOf(name, s) == Len(Storage(TypeIn(s, name)).shape)

RECURSIVE WellFormed(_, _)
WellFormed(v, s) ==
  /\ \A i \in DOMAIN v.args : WellFormed(v.args[i], s)
  /\ CASE v.op = "unreachable"              -> FALSE
       [] v.op = "constant"                 -> v.type.sort \in {"int", "index"}
       [] v.op = "constantf"                -> v.type.sort = "float"
       [] v.op \in IntOps \cup IntCompare   -> OneType(v, "int")
       [] v.op \in FloatOps \cup FloatCompare -> OneType(v, "float")
       [] v.op = "index_cast"               -> v.args[1].type.sort = "int"
       [] v.op = "load"                     -> Len(v.args) = RankOf(v.name, s)
       [] v.op = "temporary"                ->
            ~IsDropped(v.args[1]) /\ v.args[1].type = v.type.element
       [] v.op = "call"                     ->
            \A i \in DOMAIN v.args : v.args[i].type = MlirType(Functions[v.name].params[i])
       [] v.op = "store"                    ->
            Len(v.args) = 1 + RankOf(v.name, s) /\ v.args[1].type = ElementOf(v.name, s)
       [] v.op = "fill"                     -> v.args[1].type = ElementOf(v.name, s)
       [] OTHER                             -> TRUE

-------------------------------------------------------------------------------
(* Patterns. *)

Truth(b) == IF b THEN 1 ELSE 0

(* A division by zero, or one whose quotient is out of range, is undefined;   *)
(* the models ask for no such value.                                       *)
IntResult(op, w, a, b) ==
  CASE op = "addi"  -> Pattern(w, a + b)
    [] op = "subi"  -> Pattern(w, a - b)
    [] op = "muli"  -> Pattern(w, a * b)
    [] op = "divsi" -> IF b = 0 THEN 0 ELSE Pattern(w, Quotient(AsSigned(w, a), AsSigned(w, b)))
    [] op = "divui" -> IF b = 0 THEN 0 ELSE a \div b
    [] op = "xori"  -> (a + b) % 2   \* of booleans

IntRelation(op, w, a, b) ==
  LET x == AsSigned(w, a)
      y == AsSigned(w, b)
  IN CASE op = "eq" -> a = b [] op = "ne" -> a # b
       [] op = "slt" -> x < y [] op = "sle" -> x <= y [] op = "sgt" -> x > y [] op = "sge" -> x >= y
       [] op = "ult" -> a < b [] op = "ule" -> a <= b [] op = "ugt" -> a > b [] op = "uge" -> a >= b

FloatResult(op, a, b) ==
  CASE op = "addf" -> a + b [] op = "subf" -> a - b [] op = "mulf" -> a * b
    [] op = "divf" -> IF b = 0 THEN 0 ELSE Quotient(a, b)

FloatRelation(op, a, b) ==
  CASE op = "oeq" -> a = b [] op = "one" -> a # b [] op = "olt" -> a < b [] op = "ole" -> a <= b
    [] op = "ogt" -> a > b [] op = "oge" -> a >= b

(* A conversion of pattern a, of type from, to type to. *)
Converted(op, from, to, a) ==
  CASE op \in {"extsi", "index_cast"} -> Pattern(to.width, AsSigned(from.width, a))
    [] op = "trunci" -> Pattern(to.width, a)
    [] op = "sitofp" -> AsSigned(from.width, a)
    [] op \in {"fptosi", "fptoui"} -> Pattern(to.width, a)
    [] OTHER -> a   \* extui, uitofp, extf, truncf

-------------------------------------------------------------------------------
(* Evaluation: the pattern of an operation, and the calls made on the way as   *)
(* <<function, argument patterns>>.                                        *)

Garbage == 1000   \* what nothing was stored to

Element(content, i) == IF i + 1 \in DOMAIN content THEN content[i + 1] ELSE Garbage

RECURSIVE Eval(_, _)
Eval(v, memory) ==
  LET operand == [i \in DOMAIN v.args |-> Eval(v.args[i], memory)]
      bits(i) == operand[i].bits
      width == v.args[1].type.width
      calls == FlattenSeq([i \in DOMAIN v.args |-> operand[i].calls])
      Result(pattern) == [bits |-> pattern, calls |-> calls]
  IN CASE v.op \in {"constant", "constantf"} ->
            Result(IF v.type.sort = "float" THEN v.value ELSE Pattern(v.type.width, v.value))
       [] v.op \in IntOps       -> Result(IntResult(v.op, width, bits(1), bits(2)))
       [] v.op \in IntCompare   -> Result(Truth(IntRelation(v.op, width, bits(1), bits(2))))
       [] v.op = "negf"         -> Result(-bits(1))
       [] v.op \in FloatOps \ {"negf"} -> Result(FloatResult(v.op, bits(1), bits(2)))
       [] v.op \in FloatCompare -> Result(Truth(FloatRelation(v.op, bits(1), bits(2))))
       [] v.op = "load"         -> Result(IF v.args = <<>> THEN memory[v.name]
                                          ELSE Element(memory[v.name],
                                                       AsSigned(Index.width, bits(1))))
       [] v.op = "address"      -> Result(memory[v.name])
       [] v.op \in {"temporary", "deref"} -> Result(bits(1))
       [] v.op = "call"         -> [bits |-> memory[v.name],
                                    calls |-> Append(calls, <<v.name, [i \in DOMAIN v.args |-> bits(i)]>>)]
       [] v.op = "scf.if"       -> LET taken == operand[IF bits(1) = 1 THEN 2 ELSE 3]
                                   IN [bits |-> taken.bits, calls |-> operand[1].calls \o taken.calls]
       [] v.op = "dropped"      -> Result(Garbage)
       [] OTHER                 -> Result(Converted(v.op, v.args[1].type, v.type, bits(1)))

(* A statement's effects: the memory, what is printed or iterated, the calls. *)
Stored(content, v, memory) ==
  IF Len(v.args) = 1 THEN Eval(v.args[1], memory).bits
  ELSE LET i == AsSigned(Index.width, Eval(v.args[2], memory).bits)
       IN IF i + 1 \in DOMAIN content THEN [content EXCEPT ![i + 1] = Eval(v.args[1], memory).bits]
          ELSE content

Iterations(v, memory) ==
  LET from == AsSigned(Index.width, Eval(v.args[1], memory).bits)
      to == AsSigned(Index.width, Eval(v.args[2], memory).bits) + v.value
  IN [i \in 1 .. (IF to > from THEN to - from ELSE 0) |->
        AsSigned(v.type.width, Pattern(v.type.width, from + i - 1))]

Shown(v, memory) ==
  LET bits == Eval(v.args[1], memory).bits
  IN IF v.name = "trsc_print_i64" THEN AsSigned(Bits["i64"], bits) ELSE bits

Effect(state, v) ==
  LET calls == state.calls \o FlattenSeq([i \in DOMAIN v.args |-> Eval(v.args[i], state.memory).calls])
  IN CASE v.op = "store" ->
            [state EXCEPT !.calls = calls,
                          !.memory[v.name] = Stored(@, v, state.memory)]
       [] v.op = "fill" ->
            [state EXCEPT !.calls = calls,
                          !.memory[v.name] = [i \in DOMAIN @ |-> Eval(v.args[1], state.memory).bits]]
       [] v.op = "print" -> [state EXCEPT !.calls = calls, !.shown = <<Shown(v, state.memory)>>]
       [] v.op = "scf.for" -> [state EXCEPT !.calls = calls, !.shown = Iterations(v, state.memory)]
       [] OTHER -> [state EXCEPT !.calls = @ \o Eval(v, state.memory).calls]

Run(code, memory) ==
  FoldLeft(Effect, [memory |-> memory, shown |-> <<>>, calls |-> <<>>], code)
===============================================================================
