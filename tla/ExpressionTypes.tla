---------------------------- MODULE ExpressionTypes ----------------------------
(***************************************************************************)
(* TypeChecker on the expressions of a statement, over names whose types     *)
(* are known.  A node of the tree has a kind, its operands args, and the     *)
(* attributes of its kind; it is created without a type (Null), and the      *)
(* checker sets the type, or reports an error at it (bad) and leaves it.     *)
(*                                                                         *)
(* ExpectedType, a member of the checker, is the parameter expected: the     *)
(* visitors that set it restore it before they return.                      *)
(***************************************************************************)
EXTENDS ValueTypes

CONSTANTS
  Symbols,     \* name -> [type, mutable]: the variables in scope
  Functions    \* name -> [params, result]: the functions, their signatures resolved

Assignments == {"=", "+=", "-="}
Arithmetic == {"+", "-", "*", "/"}
Comparisons == {"==", "!=", "<", "<=", ">", ">="}
Logical == {"&&", "||"}

Typed(e, t, args) == [e EXCEPT !.type = t, !.args = args]
Bad(e, args) == [e EXCEPT !.bad = TRUE, !.args = args]

IsLValue(e) == e.kind \in {"var", "index"}
Assignable(e) == IsLValue(e) /\ Symbols[e.name].mutable

-------------------------------------------------------------------------------
(* Which operands an operator takes, and its result. *)

Accepts(op, l, r) ==
  CASE op = "="                              -> CanImplicitlyConvert(r, l)
    [] op \in Arithmetic \cup {"+=", "-="}   -> IsNumeric(l) /\ IsNumeric(r)
    [] op \in Comparisons                    -> Compatible(l, r) \/ (IsNumeric(l) /\ IsNumeric(r))
    [] op \in Logical                        -> l = Bool /\ r = Bool

ResultType(op, l) == IF op \in Comparisons \cup Logical THEN Bool ELSE l

(* Seeded fault: a literal has its default type everywhere. *)
LiteralTypeByDefault(e, expected) ==
  CASE e.kind = "int" -> I32 [] e.kind = "float" -> F64 [] e.kind = "bool" -> Bool

(* A literal takes the expected type when that is of its sort. *)
LiteralType(e, expected) ==
  CASE e.kind = "int"   -> IF IsInteger(expected) THEN expected ELSE I32
    [] e.kind = "float" -> IF IsFloat(expected) THEN expected ELSE F64
    [] e.kind = "bool"  -> Bool

(* The right side of `=` is given the type of the left side. *)
BinaryNode(e, l, r) ==
  IF l.type = Null \/ r.type = Null THEN Typed(e, Null, <<l, r>>)
  ELSE IF Accepts(e.op, l.type, r.type) /\ (e.op \in Assignments => Assignable(l))
  THEN Typed(e, ResultType(e.op, l.type),
             <<l, IF e.op = "=" THEN [r EXCEPT !.type = l.type] ELSE r>>)
  ELSE Bad(e, <<l, r>>)

UnaryNode(e, a) ==
  IF a.type = Null THEN Typed(e, Null, <<a>>)
  ELSE IF IF e.op = "-" THEN IsNumeric(a.type) ELSE a.type = Bool
  THEN Typed(e, a.type, <<a>>)
  ELSE Bad(e, <<a>>)

CastNode(e, a) ==
  IF CanExplicitlyConvert(a.type, e.to) THEN Typed(e, e.to, <<a>>) ELSE Bad(e, <<a>>)

(* Only a literal's bounds are checked; the element has its type either way. *)
IndexNode(e, index) ==
  LET array == Symbols[e.name].type
      wrong == ~IsInteger(index.type) \/ (index.kind = "int" /\ index.value >= array.size)
  IN [Typed(e, Base(array), <<index>>) EXCEPT !.bad = wrong]

(* The declared size, when there is one, is not compared with the literal's. *)
ArrayNode(e, expected, elements) ==
  Typed(e, IF IsArray(expected) THEN expected ELSE ArrayOf(elements[1].type, e.count), elements)

(* Arguments have exactly the type of their parameter; the first that does    *)
(* not ends the visit.                                                     *)
CallNode(e, checked) ==
  LET f == Functions[e.name]
      wrong == {i \in DOMAIN checked : checked[i].type # f.params[i]}
  IN [Typed(e, f.result,
            [i \in DOMAIN e.args |-> IF \E j \in wrong : j < i THEN e.args[i] ELSE checked[i]])
      EXCEPT !.bad = wrong # {}]

RECURSIVE Check(_, _)
Check(e, expected) ==
  CASE e.kind \in {"int", "float", "bool"} -> Typed(e, LiteralType(e, expected), <<>>)
    [] e.kind = "var"    -> Typed(e, Symbols[e.name].type, <<>>)
    [] e.kind = "ref"    -> LET a == Check(e.args[1], expected)
                            IN Typed(e, RefTo(a.type, e.mutable), <<a>>)
    [] e.kind = "as"     -> CastNode(e, Check(e.args[1], expected))
    [] e.kind = "unary"  -> UnaryNode(e, Check(e.args[1], expected))
    [] e.kind = "index"  -> IF IsArray(Symbols[e.name].type)
                            THEN IndexNode(e, Check(e.args[1], expected))
                            ELSE Bad(e, e.args)
    [] e.kind = "array"  -> ArrayNode(e, expected,
                                      [i \in DOMAIN e.args |->
                                         Check(e.args[i], IF IsArray(expected) THEN Base(expected)
                                                                               ELSE Null)])
    [] e.kind = "call"   -> IF Len(e.args) # Len(Functions[e.name].params)
                            THEN [e EXCEPT !.type = Functions[e.name].result, !.bad = TRUE]
                            ELSE CallNode(e, [i \in DOMAIN e.args |->
                                                Check(e.args[i], Functions[e.name].params[i])])
    [] e.kind = "binary" -> LET l == Check(e.args[1], expected)
                            IN BinaryNode(e, l, Check(e.args[2], IF e.op \in Assignments
                                                                 THEN l.type ELSE expected))

-------------------------------------------------------------------------------
(* Statements. *)

(* A let converts its declared type to that of the initializer: the other     *)
(* way round than an assignment.                                           *)
CheckLet(s) ==
  LET init == Check(s.args[1], s.declared)
      final == IF s.declared # Null THEN s.declared ELSE init.type
      mismatch == s.declared # Null /\ init.type # Null
                  /\ ~CanImplicitlyConvert(s.declared, init.type)
  IN [Typed(s, final, <<init>>) EXCEPT !.bad = mismatch \/ final \in {Null, Unit}]

CheckPrint(s) ==
  LET a == Check(s.args[1], Null)
      format == IF IsRef(a.type) THEN Base(a.type) ELSE a.type
  IN [Typed(s, Unit, <<a>>) EXCEPT
        !.bad = a.type # Null /\ ~(IsNumeric(format) \/ format = Bool)]

(* The iterator is an i32 whatever the range is. *)
CheckFor(s) ==
  LET range == <<Check(s.args[1], Null), Check(s.args[2], Null)>>
  IN [Typed(s, I32, range) EXCEPT
        !.bad = ~(IsInteger(range[1].type) /\ IsInteger(range[2].type))]

CheckStatement(s) ==
  CASE s.kind = "let"   -> CheckLet(s)
    [] s.kind = "print" -> CheckPrint(s)
    [] s.kind = "for"   -> CheckFor(s)
    [] s.kind = "eval"  -> Typed(s, Unit, <<Check(s.args[1], Null)>>)

RECURSIVE HasError(_)
HasError(e) == e.bad \/ \E i \in DOMAIN e.args : HasError(e.args[i])
===============================================================================
