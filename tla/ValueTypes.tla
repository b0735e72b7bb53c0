------------------------------- MODULE ValueTypes -------------------------------
(***************************************************************************)
(* The types of trsc and what their numbers are.  ASTContext makes one       *)
(* object per type, so equality of types is equality of their descriptions.  *)
(* A type of MLIR has a sort and a width: its integers carry no sign.        *)
(***************************************************************************)
EXTENDS Integers, Sequences, FiniteSets

CONSTANT Bits   \* width of each number type, the code's or smaller ones in that order

Unsigned == {"u8", "u16", "u32", "u64", "u128", "usize"}
Signed == {"i8", "i16", "i32", "i64", "i128", "isize"}
Floats == {"f32", "f64"}

ASSUME BitsAssumption == Bits \in [Unsigned \cup Signed \cup Floats -> Nat \ {0}]

Builtin(kind) == [kind |-> kind]
Null == Builtin("null")
Unit == Builtin("unit")
Bool == Builtin("bool")
I32 == Builtin("i32")
F64 == Builtin("f64")
ArrayOf(element, size) == [kind |-> "array", element |-> element, size |-> size]
RefTo(referent, mutable) == [kind |-> "ref", element |-> referent, mutable |-> mutable]

IsUnsigned(t) == t.kind \in Unsigned
IsSigned(t) == t.kind \in Signed
IsInteger(t) == IsUnsigned(t) \/ IsSigned(t)
IsFloat(t) == t.kind \in Floats
IsNumeric(t) == IsInteger(t) \/ IsFloat(t)
IsArray(t) == t.kind = "array"
IsRef(t) == t.kind = "ref"

(* getBaseType *)
Base(t) == IF IsArray(t) \/ IsRef(t) THEN t.element ELSE Null

RECURSIVE SizeOf(_)
SizeOf(t) ==
  CASE IsNumeric(t) -> Bits[t.kind]
    [] IsArray(t)   -> t.size * SizeOf(t.element)
    [] OTHER        -> 1

-------------------------------------------------------------------------------
(* ASTContext: which types are the same, and which convert.                *)

Compatible(s, t) == s = t /\ s # Null

RECURSIVE CanConvert(_, _, _)
CanConvert(from, to, explicit) ==
  \/ Compatible(from, to)
  \/ IsInteger(from) /\ IsNumeric(to)
  \/ IsFloat(from) /\ IsFloat(to)
  \/ explicit /\ IsFloat(from) /\ IsInteger(to)
  \/ /\ ~explicit /\ IsArray(from) /\ IsArray(to)
     /\ CanConvert(Base(from), Base(to), explicit)

CanImplicitlyConvert(from, to) == CanConvert(from, to, FALSE)
CanExplicitlyConvert(from, to) == CanConvert(from, to, TRUE)

-------------------------------------------------------------------------------
(* MLIRGen::toMLIRType and toMemRefType.  A memref is its element and shape. *)

IntType(width) == [sort |-> "int", sign |-> "signless", width |-> width]
FloatType(width) == [sort |-> "float", width |-> width]
NoType == [sort |-> "none"]
Index == [sort |-> "index", width |-> Bits["isize"]]
MemRef(element, shape) == [sort |-> "memref", element |-> element, shape |-> shape]

RECURSIVE MlirType(_)
MlirType(t) ==
  CASE t = Bool     -> IntType(1)
    [] IsInteger(t) -> IntType(Bits[t.kind])
    [] IsFloat(t)   -> FloatType(Bits[t.kind])
    [] IsRef(t)     -> MemRef(MlirType(t.element), <<>>)
    [] IsArray(t)   -> [sort |-> "vector", element |-> MlirType(t.element),
                        shape |-> <<t.size>>]
    [] OTHER        -> NoType

(* Arrays of arrays are left out. *)
Storage(t) ==
  IF IsArray(t) THEN MemRef(MlirType(t.element), <<t.size>>) ELSE MemRef(MlirType(t), <<>>)

-------------------------------------------------------------------------------
(* Numbers and their patterns.  A pattern of w bits is 0 .. 2^w - 1; a float  *)
(* is a whole number, and its own pattern.                                  *)

AsSigned(width, bits) == IF bits >= 2^(width - 1) THEN bits - 2^width ELSE bits
Pattern(width, number) == number % 2^width

(* The number of type t that a pattern stands for. *)
NumberOf(t, bits) == IF IsSigned(t) THEN AsSigned(Bits[t.kind], bits) ELSE bits

Lowest(t) == IF IsSigned(t) THEN -(2^(Bits[t.kind] - 1)) ELSE 0
Highest(t) == IF IsSigned(t) THEN 2^(Bits[t.kind] - 1) - 1 ELSE 2^Bits[t.kind] - 1
Holds(t, number) == Lowest(t) <= number /\ number <= Highest(t)

(* The number of type t that is congruent to number. *)
Wrap(t, number) ==
  IF IsInteger(t) THEN NumberOf(t, Pattern(Bits[t.kind], number)) ELSE number

(* Division that rounds towards zero. *)
Quotient(a, b) ==
  LET magnitude == (IF a < 0 THEN -a ELSE a) \div (IF b < 0 THEN -b ELSE b)
  IN IF (a < 0) = (b < 0) THEN magnitude ELSE -magnitude
===============================================================================
