------------------------------ MODULE ExpressionGen ------------------------------
(***************************************************************************)
(* MLIRGen on a checked statement: the operations it emits, as a tree of      *)
(* which each one holds its operands, what mlir::verify asks of them, and     *)
(* what they compute.  The arith, memref and scf dialects are external.      *)
(***************************************************************************)
EXTENDS ExpressionTypes, SequencesExt

CONSTANT StackThreshold   \* bits of the largest array that is not filled as one

Fresh == "fresh"   \* the variable that a let declares

Op(op, type, args) == [op |-> op, type |-> type, args |-> args, value |-> 0, name |-> ""]
Named(op, type, args, name) == [Op(op, type, args) EXCEPT !.name = name]
Constant(type, value) == [Op("constant", type, <<>>) EXCEPT !.value = value]

(* A visitor returned no value after emitting these operations. *)
Dropped(emitted) == Op("dropped", NoType, emitted)
IsDropped(v) == v.op = "dropped"

(* llvm_unreachable *)
Unreachable == Op("unreachable", NoType, <<>>)

-------------------------------------------------------------------------------
(* Conversions. *)

(* getNumKind: toMLIRType makes every integer signless. *)
NumKind(t) ==
  IF t.sort = "float" THEN "float"
  ELSE IF t.sign \in {"signed", "signless"} THEN "signed" ELSE "unsigned"

(* Seeded fault: the conversion of floats to integers leaves the value alone. *)
ConversionFromFloat(from, to, width, target) ==
  IF from = "float" THEN "extf"
  ELSE IF to = "float" THEN "sitofp" ELSE IF width > target THEN "trunci" ELSE "extsi"

(* ConversionTable, one row for each kind that is converted from. *)
Conversion(from, to, width, target) ==
  CASE from = "float" /\ to = "float"  -> IF width < target THEN "extf" ELSE "truncf"
    [] from = "signed" /\ to = "float" -> "sitofp"
    [] from = "unsigned" /\ to = "float" -> "uitofp"
    [] from = "float" -> IF to = "signed" THEN "fptosi" ELSE "fptoui"
    [] width > target -> "trunci"
    [] OTHER -> IF from = "signed" THEN "extsi" ELSE "extui"

ConvertValue(v, to) ==
  IF IsDropped(v) THEN Unreachable
  ELSE IF v.type = to \/ (v.type.sort = to.sort /\ v.type.width = to.width) THEN v
  ELSE Op(Conversion(NumKind(v.type), NumKind(to), v.type.width, to.width), to, <<v>>)

-------------------------------------------------------------------------------
(* Operators. *)

SignedName == "<" :> "slt" @@ "<=" :> "sle" @@ ">" :> "sgt" @@ ">=" :> "sge"
UnsignedName == "<" :> "ult" @@ "<=" :> "ule" @@ ">" :> "ugt" @@ ">=" :> "uge"
EqualName == "==" :> "eq" @@ "!=" :> "ne"
FloatName == "==" :> "oeq" @@ "!=" :> "one" @@ "<" :> "olt" @@ "<=" :> "ole"
             @@ ">" :> "ogt" @@ ">=" :> "oge"
IntName == "+" :> "addi" @@ "-" :> "subi" @@ "*" :> "muli"
FloatArith == "+" :> "addf" @@ "-" :> "subf" @@ "*" :> "mulf" @@ "/" :> "divf"

(* By the type that the checker gave the node. *)
ArithmeticName(op, t) ==
  CASE IsFloat(t) -> FloatArith[op]
    [] op # "/"   -> IntName[op]
    [] OTHER      -> IF IsSigned(t) THEN "divsi" ELSE "divui"

(* Seeded fault: the sign is asked of the comparison, a bool. *)
ComparisonNameOfResult(op, left, l) ==
  IF left.type.sort = "float" THEN FloatName[op]
  ELSE IF op \in DOMAIN EqualName THEN EqualName[op] ELSE UnsignedName[op]

(* By the left operand: its value decides on floats, its node on signs. *)
ComparisonName(op, left, l) ==
  CASE left.type.sort = "float" -> FloatName[op]
    [] op \in DOMAIN EqualName  -> EqualName[op]
    [] OTHER                    -> IF IsSigned(l.type) THEN SignedName[op] ELSE UnsignedName[op]

(* Seeded fault: both operators evaluate the right operand in the then region. *)
LogicalOpInThen(op, left, right) ==
  Op("scf.if", IntType(1), <<left, right, Constant(IntType(1), IF op = "&&" THEN 0 ELSE 1)>>)

(* The right operand of a logical operator is in a region of its own. *)
LogicalOp(op, left, right) ==
  LET other == IF IsDropped(right) \/ right.type # IntType(1)
               THEN [Constant(IntType(1), 0) EXCEPT !.args = <<right>>] ELSE right
  IN Op("scf.if", IntType(1), IF op = "&&" THEN <<left, other, Constant(IntType(1), 0)>>
                                           ELSE <<left, Constant(IntType(1), 1), other>>)

BinaryOp(t, left, right) ==
  CASE IsDropped(left) -> Dropped(<<left>>)
    [] t.op \in Logical -> IF left.type = IntType(1) THEN LogicalOp(t.op, left, right)
                           ELSE Dropped(<<left>>)
    [] t.op \notin Logical /\ (IsDropped(right) \/ t.op \in Assignments) -> Dropped(<<left, right>>)
    [] t.op \in Arithmetic /\ ~IsDropped(right) ->
         Op(ArithmeticName(t.op, t.type), left.type, <<left, right>>)
    [] t.op \in Comparisons /\ ~IsDropped(right) ->
         Op(ComparisonName(t.op, left, t.args[1]), IntType(1), <<left, right>>)

UnaryOp(t, a) ==
  CASE IsDropped(a) -> Dropped(<<a>>)
    [] t.op = "!" -> Op("xori", a.type, <<a, Constant(a.type, 1)>>)
    [] t.op = "-" /\ IsFloat(t.type) -> Op("negf", a.type, <<a>>)
    [] t.op = "-" /\ IsInteger(t.type) -> Op("subi", a.type, <<Constant(a.type, 0), a>>)

(* A call without a result has no value, and one with an argument that has    *)
(* none is not made.                                                       *)
CallOp(t, args) ==
  LET made == Named("call", MlirType(Functions[t.name].result), args, t.name)
  IN IF \E i \in DOMAIN args : IsDropped(args[i]) THEN Dropped(args)
     ELSE IF made.type = NoType THEN Dropped(<<made>>) ELSE made

(* A reference to an element is one to its array. *)
RefOp(t, a) ==
  IF IsLValue(t.args[1])
  THEN Named("address", Storage(Symbols[t.args[1].name].type), <<>>, t.args[1].name)
  ELSE Op("temporary", Storage(t.args[1].type), <<a>>)

LoadOp(name, index) == Named("load", Storage(Symbols[name].type).element, index, name)

RECURSIVE Gen(_)

IndexOf(t) ==
  IF t.kind \in {"int", "float", "var"} THEN Op("index_cast", Index, <<Gen(t)>>) ELSE Unreachable

Gen(t) ==
  CASE t.kind \in {"int", "bool"} -> Constant(MlirType(t.type), t.value)
    [] t.kind = "float"  -> [Constant(MlirType(t.type), t.value) EXCEPT !.op = "constantf"]
    [] t.kind = "var"    -> LoadOp(t.name, <<>>)
    [] t.kind = "index"  -> LoadOp(t.name, <<IndexOf(t.args[1])>>)
    [] t.kind = "as"     -> ConvertValue(Gen(t.args[1]), MlirType(t.type))
    [] t.kind = "ref"    -> RefOp(t, Gen(t.args[1]))
    [] t.kind = "unary"  -> UnaryOp(t, Gen(t.args[1]))
    [] t.kind = "binary" -> BinaryOp(t, Gen(t.args[1]), Gen(t.args[2]))
    [] t.kind = "call"   -> CallOp(t, [i \in DOMAIN t.args |-> Gen(t.args[i])])
    [] t.kind = "array"  -> Dropped([i \in DOMAIN t.args |-> Gen(t.args[i])])

-------------------------------------------------------------------------------
(* Statements: the sequence of operations that is emitted. *)

TypeIn(s, name) == IF name = Fresh THEN s.type ELSE Symbols[name].type

Store(value, index, name) == Named("store", NoType, <<value>> \o index, name)
Position(i) == Constant(Index, i - 1)

(* [e; n] stores n values of e, one of which is emitted for each. *)
ElementStores(t, name) ==
  [i \in 1 .. t.count |->
     LET value == Gen(t.args[((i - 1) % Len(t.args)) + 1])
     IN IF IsDropped(value) THEN value ELSE Store(value, <<Position(i)>>, name)]

ArrayInit(t, name) ==
  LET value == Gen(t.args[1])
  IN IF SizeOf(t.type) > StackThreshold /\ Len(t.args) = 1 /\ ~IsArray(t.args[1].type)
        /\ ~IsDropped(value)
     THEN <<Named("fill", NoType, <<value>>, name)>>
     ELSE ElementStores(t, name)

GenLet(s) ==
  LET init == s.args[1]
      value == Gen(init)
  IN IF init.kind = "array" THEN ArrayInit(init, Fresh)
     ELSE IF IsDropped(value) THEN <<value>>
     ELSE <<Store(value, <<>>, Fresh)>>

(* What += and -= store, by the type of the node. *)
Compound(t, current, value) ==
  Op(ArithmeticName(IF t.op = "+=" THEN "+" ELSE "-", t.type), current.type, <<current, value>>)

GenAssignment(t) ==
  LET target == t.args[1]
      index == IF target.kind = "index" THEN <<IndexOf(target.args[1])>> ELSE <<>>
      value == Gen(t.args[2])
      stored == IF t.op = "=" THEN value ELSE Compound(t, LoadOp(target.name, index), value)
  IN IF t.args[2].kind = "array" THEN ArrayInit(t.args[2], target.name)
     ELSE IF IsDropped(stored) /\ target.kind = "index" THEN <<stored>>
     ELSE <<Store(stored, index, target.name)>>

(* emitPrintValue *)
Printed(type, value) ==
  CASE type = Bool -> Named("print", NoType, <<Op("extui", IntType(Bits["i32"]), <<value>>)>>,
                            "trsc_print_bool")
    [] IsInteger(type) ->
         LET wide == IntType(Bits["i64"])
             operand == IF Bits[type.kind] < Bits["i64"]
                        THEN Op(IF IsSigned(type) THEN "extsi" ELSE "extui", wide, <<value>>)
                        ELSE value
         IN Named("print", NoType, <<operand>>,
                  IF IsSigned(type) THEN "trsc_print_i64" ELSE "trsc_print_u64")
    [] IsFloat(type) -> Named("print", NoType, <<value>>,
                              IF type = F64 THEN "trsc_print_f64" ELSE "trsc_print_f32")

(* A reference is loaded from, unless it has more than one element. *)
GenPrint(s) ==
  LET value == Gen(s.args[1])
      type == s.args[1].type
  IN IF IsDropped(value) THEN <<value>>
     ELSE IF ~IsRef(type) THEN <<Printed(type, value)>>
     ELSE IF value.type.shape # <<>> THEN <<value>>
     ELSE <<Printed(Base(type), Op("deref", value.type.element, <<value>>))>>

(* One operation stands for scf.for and the store of its iterator, of that     *)
(* type; value is what is added to the last bound.                          *)
GenFor(s) ==
  <<[Op("scf.for", MlirType(s.type), [i \in {1, 2} |-> Op("index_cast", Index, <<Gen(s.args[i])>>)])
     EXCEPT !.value = IF s.inclusive THEN 1 ELSE 0]>>

GenStatement(s) ==
  CASE s.kind = "let"   -> GenLet(s)
    [] s.kind = "print" -> GenPrint(s)
    [] s.kind = "for"   -> GenFor(s)
    [] s.kind = "eval"  -> LET e == s.args[1]
                           IN IF e.kind = "binary" /\ e.op \in Assignments
                              THEN GenAssignment(e) ELSE <<Gen(e)>>
===============================================================================
