---------------------------- MODULE ExpressionMeaning ----------------------------
(***************************************************************************)
(* What a checked expression means: each operation on numbers of its type,    *)
(* an operand of another type converted first, a right operand of && and ||  *)
(* only when the left one does not decide, and nothing else evaluated twice   *)
(* or left out; what is cast has a type of its own.  A memory holds patterns, *)
(* as in ExpressionRun.                                                    *)
(*                                                                         *)
(* A meaning has a number, the calls made, and whether it is defined: an      *)
(* index beyond its array, a division by zero or beyond its type, a float     *)
(* out of an integer's range and a fraction (floats are whole) are not.       *)
(***************************************************************************)
EXTENDS ExpressionTypes, SequencesExt

Meaning(number, calls, defined) == [number |-> number, calls |-> calls, defined |-> defined]

(* A number of type t as one of type u. *)
Cast(m, t, u) ==
  [m EXCEPT !.number = Wrap(u, @),
            !.defined = @ /\ (IsFloat(t) /\ IsInteger(u) => Holds(u, m.number))]

Arithmetical(op, t, a, b) ==
  LET exact == CASE op = "+" -> a + b
                 [] op = "-" -> a - b
                 [] op = "*" -> a * b
                 [] op = "/" -> IF b = 0 THEN 0 ELSE Quotient(a, b)
  IN Meaning(Wrap(t, exact), <<>>,
             op = "/" => /\ b # 0
                         /\ IF IsFloat(t) THEN exact * b = a ELSE Holds(t, exact))

Relation(op, a, b) ==
  CASE op = "==" -> a = b [] op = "!=" -> a # b [] op = "<" -> a < b
    [] op = "<=" -> a <= b [] op = ">" -> a > b [] op = ">=" -> a >= b

Undefined == Meaning(0, <<>>, FALSE)

RECURSIVE Means(_, _)
Means(t, memory) ==
  LET operand == [i \in DOMAIN t.args |-> Means(t.args[i], memory)]
      calls == FlattenSeq([i \in DOMAIN t.args |-> operand[i].calls])
      defined == \A i \in DOMAIN t.args : operand[i].defined
      Value(number) == Meaning(number, calls, defined)
      left == operand[1].number
      right == Cast(operand[2], t.args[2].type, t.args[1].type).number
      sure == defined /\ Cast(operand[2], t.args[2].type, t.args[1].type).defined
  IN CASE t.kind \in {"int", "float", "bool"} -> Value(Wrap(t.type, t.value))
       [] t.kind = "var"   -> Value(IF IsArray(t.type) THEN 0 ELSE NumberOf(t.type, memory[t.name]))
       [] t.kind = "ref"   -> operand[1]
       [] t.kind = "as"    -> LET e == Check(t.args[1], Null) IN Cast(Means(e, memory), e.type, t.to)
       [] t.kind = "index" -> IF left + 1 \in DOMAIN memory[t.name]
                              THEN Value(NumberOf(t.type, memory[t.name][left + 1]))
                              ELSE Undefined
       [] t.kind = "call"  -> [Value(NumberOf(t.type, memory[t.name])) EXCEPT
                                 !.calls = Append(@, <<t.name, [i \in DOMAIN t.args |->
                                             LET u == t.args[i].type
                                             IN IF IsInteger(u)
                                                THEN Pattern(Bits[u.kind], operand[i].number)
                                                ELSE operand[i].number]>>)]
       [] t.kind = "unary" -> Value(IF t.op = "!" THEN 1 - left ELSE Wrap(t.type, -left))
       [] t.kind = "binary" ->
            IF t.op \in Logical
            THEN IF (left = 1) = (t.op = "&&") THEN [operand[2] EXCEPT !.calls = calls,
                                                                        !.defined = defined]
                 ELSE operand[1]
            ELSE IF t.op \in Comparisons
            THEN Meaning(IF Relation(t.op, left, right) THEN 1 ELSE 0, calls, sure)
            ELSE LET m == Arithmetical(t.op, t.type, left, right)
                 IN Meaning(m.number, calls, sure /\ m.defined)

-------------------------------------------------------------------------------
(* What a statement leaves in its target, as patterns, or shows.             *)

(* A reference stands for what it refers to. *)
PatternOf(t, number) ==
  LET of == IF IsRef(t) THEN Base(t) ELSE t
  IN IF IsInteger(of) THEN Pattern(Bits[of.kind], number) ELSE number

(* An expression as a value of type t. *)
As(e, t, memory) == Cast(Means(e, memory), e.type, t)

ScalarOf(t, m) == [content |-> PatternOf(t, m.number), calls |-> m.calls, defined |-> m.defined]

(* An array of type t from the meanings of its literal's elements. *)
ArrayFrom(t, m) ==
  [content |-> [i \in 1 .. t.size |-> PatternOf(Base(t), m[((i - 1) % Len(m)) + 1].number)],
   calls |-> FlattenSeq([i \in DOMAIN m |-> m[i].calls]),
   defined |-> \A i \in DOMAIN m : m[i].defined]

(* Elements are evaluated once each, and then converted. *)
Initialised(e, t, memory) ==
  IF e.kind = "array"
  THEN ArrayFrom(t, [i \in DOMAIN e.args |-> As(e.args[i], Base(t), memory)])
  ELSE ScalarOf(t, As(e, t, memory))

(* The assigned value; += and -= take the one before. *)
Assigned(e, memory) ==
  LET target == e.args[1]
      value == Check(e.args[2], target.type)
      whole == [e EXCEPT !.kind = "binary", !.op = IF e.op = "+=" THEN "+" ELSE "-",
                         !.args = <<target, value>>, !.type = target.type]
  IN IF e.op = "=" THEN Initialised(value, target.type, memory)
     ELSE ScalarOf(target.type, As(whole, target.type, memory))

Outcome(content, shown, m) ==
  [content |-> content, shown |-> shown, calls |-> m.calls, defined |-> m.defined]

Holding(m) == Outcome(m.content, <<>>, m)

(* m at index i of an array that holds old. *)
HoldingAt(old, i, m) ==
  IF i.defined /\ i.number + 1 \in DOMAIN old
  THEN Outcome([old EXCEPT ![i.number + 1] = m.content], <<>>, m)
  ELSE Outcome(old, <<>>, [m EXCEPT !.defined = FALSE])

AssignmentMeans(e, memory) ==
  LET target == e.args[1]
  IN IF target.kind = "var" THEN Holding(Assigned(e, memory))
     ELSE HoldingAt(memory[target.name], Means(target.args[1], memory), Assigned(e, memory))

Iterates(from, to, inclusive) ==
  LET last == IF inclusive THEN to.number ELSE to.number - 1
  IN Outcome(0, [i \in 1 .. (IF last >= from.number THEN last - from.number + 1 ELSE 0) |->
                   from.number + i - 1],
             [calls |-> from.calls \o to.calls, defined |-> from.defined /\ to.defined])

Shows(m) == Outcome(0, <<m.number>>, m)

StatementMeans(s, memory) ==
  CASE s.kind = "let"   -> Holding(Initialised(s.args[1], s.type, memory))
    [] s.kind = "print" -> Shows(Means(s.args[1], memory))
    [] s.kind = "for"   -> Iterates(Means(s.args[1], memory), Means(s.args[2], memory), s.inclusive)
    [] s.kind = "eval"  -> LET e == s.args[1]
                           IN IF e.kind = "binary" /\ e.op \in Assignments
                              THEN AssignmentMeans(e, memory)
                              ELSE Outcome(0, <<>>, Means(e, memory))
===============================================================================
