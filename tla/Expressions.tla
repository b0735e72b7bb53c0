------------------------------- MODULE Expressions -------------------------------
(***************************************************************************)
(* One statement from its tree to its effect: TypeChecker, MLIRGen, the       *)
(* verifier that MLIRGen::genModule ends with, and the code's execution from  *)
(* any memory, compared with what the statement means.                      *)
(***************************************************************************)
EXTENDS ExpressionRun, ExpressionMeaning

CONSTANTS
  Statements,    \* the statements as parsed
  Memories(_)    \* names -> the memories in which these may be found

VARIABLES
  phase,      \* parsed, checked, generated, verified, done; rejected, failed
  statement,  \* as parsed, then with its types
  code,       \* the operations emitted for it
  before,     \* memory before the execution
  after       \* what the execution left: memory, shown and calls

vars == <<phase, statement, code, before, after>>

Nothing == <<>>

Init ==
  /\ phase = "parsed"
  /\ statement \in Statements
  /\ code = Nothing /\ before = Nothing /\ after = Nothing

(* The driver stops when the analysis reported an error. *)
Analyse ==
  /\ phase = "parsed"
  /\ statement' = CheckStatement(statement)
  /\ phase' = IF HasError(statement') THEN "rejected" ELSE "checked"
  /\ UNCHANGED <<code, before, after>>

Generate ==
  /\ phase = "checked"
  /\ code' = GenStatement(statement)
  /\ phase' = "generated"
  /\ UNCHANGED <<statement, before, after>>

(* An assertion of the builder ends the compiler like a failed verification. *)
Verify ==
  /\ phase = "generated"
  /\ phase' = IF \A i \in DOMAIN code : WellFormed(code[i], statement) THEN "verified" ELSE "failed"
  /\ UNCHANGED <<statement, code, before, after>>

RECURSIVE Nodes(_)
Nodes(t) == {t} \cup UNION {Nodes(t.args[i]) : i \in DOMAIN t.args}

Names(s) ==
  {n.name : n \in {m \in UNION {Nodes(s.args[i]) : i \in DOMAIN s.args} :
                     m.kind \in {"var", "index", "call"}}}

(* The storage of a let holds nothing yet. *)
EmptyStorage(t) == IF IsArray(t) THEN [i \in 1 .. t.size |-> Garbage] ELSE Garbage

Execute ==
  /\ phase = "verified"
  /\ \E m \in Memories(Names(statement)) :
       before' = IF statement.kind = "let" THEN m @@ (Fresh :> EmptyStorage(statement.type)) ELSE m
  /\ after' = Run(code, before')
  /\ phase' = "done"
  /\ UNCHANGED <<statement, code>>

Next == Analyse \/ Generate \/ Verify \/ Execute

Spec == Init /\ [][Next]_vars

-------------------------------------------------------------------------------
Content(t) ==
  IF t = Bool THEN {0, 1} ELSE IF IsFloat(t) THEN Int ELSE 0 .. 2^Bits[t.kind] - 1

HasContent(content, t) ==
  IF IsArray(t) THEN \A i \in DOMAIN content : content[i] \in Content(t.element)
  ELSE content \in Content(t)

(* Phases follow each other, and every variable that existed before holds a    *)
(* pattern of its type afterwards: no store is of another width or sort.       *)
TypeOK ==
  /\ phase \in {"parsed", "checked", "generated", "verified", "done", "rejected", "failed"}
  /\ phase \in {"parsed", "rejected", "checked"} => code = Nothing
  /\ phase # "done" => before = Nothing /\ after = Nothing
  /\ phase = "done" =>
       /\ DOMAIN after.memory = DOMAIN before
       /\ \A n \in DOMAIN before \cap DOMAIN Symbols : HasContent(after.memory[n], Symbols[n].type)

-------------------------------------------------------------------------------
(* Where the code does not do what the statement means.                    *)

Expressions(s) == UNION {Nodes(s.args[i]) : i \in DOMAIN s.args}
Inner(s) == IF s.kind = "eval" THEN Expressions(s) \ {s.args[1]} ELSE Expressions(s)

IsAssignment(e) == e.kind = "binary" /\ e.op \in Assignments

(* MLIRGen generates assignments as statements only, and drops the value of    *)
(* any other one, and with it what its value is an operand of.              *)
DropsValue(s) ==
  \/ \E e \in Inner(s) : IsAssignment(e)
  \/ \E e \in Expressions(s) : e.kind \in {"binary", "ref"} /\ e.args[1].type = Unit

(* Signless integers widen by their sign, also an index or a bound. *)
WidensUnsigned(s) ==
  \/ \E e \in Expressions(s) :
       \/ e.kind = "as" /\ IsUnsigned(e.args[1].type)
          /\ (IsFloat(e.to) \/ (IsInteger(e.to) /\ Bits[e.to.kind] > Bits[e.args[1].type.kind]))
       \/ e.kind = "index" /\ IsUnsigned(e.args[1].type)
  \/ s.kind = "for" /\ \E i \in {1, 2} : IsUnsigned(s.args[i].type)

(* The type that `=` gives its right side changes a cast or a division there. *)
RetypesOperation(s) ==
  \E e \in Expressions(s) :
    /\ e.kind = "binary" /\ e.op = "="
    /\ LET value == e.args[2]
       IN \/ value.kind = "as" /\ value.to # value.type
          \/ value.kind = "binary" /\ value.op = "/" /\ value.args[1].type # value.type

(* The expected type of a declaration reaches into the operand of a cast. *)
LeaksExpected(s) ==
  \E e \in Expressions(s) :
    e.kind = "as" /\ e.args[1] # Check(e.args[1], Null)

ArrayLiteral(e) == e.kind = "array"
CountDiffers(s) == \E e \in Expressions(s) : ArrayLiteral(e) /\ e.count # e.type.size
RepeatsCall(s) ==
  \E e \in Expressions(s) :
    ArrayLiteral(e) /\ e.count # Len(e.args) /\ \E c \in Nodes(e) : c.kind = "call"

(* &a[i] is the whole array, which nothing is printed for and no variable holds. *)
ElementReference(s) == \E e \in Expressions(s) : e.kind = "ref" /\ e.args[1].kind = "index"

LongRange(s) == s.kind = "for" /\ \E i \in {1, 2} : Bits[s.args[i].type.kind] > Bits["i32"]

(* MLIRGen has no index but a literal and a variable. *)
ComputedIndex(s) == \E e \in Expressions(s) : e.kind = "index" /\ e.args[1].kind \notin {"int", "var"}

(* The name of an array where a value is asked for: it is loaded as a scalar. *)
WholeArray(s) ==
  \E e \in {s} \cup Expressions(s) : \E i \in DOMAIN e.args :
    e.args[i].kind = "var" /\ IsArray(e.args[i].type) /\ ~(IsAssignment(e) /\ i = 1)

(* No comparison of MLIR takes memrefs. *)
ComparesReferences(s) ==
  \E e \in Expressions(s) : e.kind = "binary" /\ e.op \in Comparisons /\ IsRef(e.args[1].type)

-------------------------------------------------------------------------------
(* The variable that a statement stores to, or "". *)
Target(s) ==
  CASE s.kind = "let" -> Fresh
    [] s.kind = "eval" /\ IsAssignment(s.args[1]) -> s.args[1].args[1].name
    [] OTHER -> ""

(* What was stored and shown is what m says, and nothing else was stored to. *)
LeavesMeant(m, target) ==
  m.defined =>
    /\ after.shown = m.shown
    /\ target # "" => after.memory[target] = m.content
    /\ \A n \in DOMAIN before \ {target} : after.memory[n] = before[n]

(* Hazard: width, sign and rounding are decided at four places (checker,      *)
(* conversion table, operator names, printing), from the node in one and from *)
(* the value in another.  What a verified statement stores, prints or iterates *)
(* over is what it means (TypeChecker.cpp:66-464, MLIRGen.cpp:79-176,         *)
(* 620-863, 987-1043, 1390-1500).                                          *)
ValuesKept ==
  LET exempt == \/ DropsValue(statement) \/ WidensUnsigned(statement)
                \/ RetypesOperation(statement) \/ CountDiffers(statement)
                \/ LeaksExpected(statement) \/ ElementReference(statement)
                \/ LongRange(statement)
  IN phase = "done" /\ ~exempt => LeavesMeant(StatementMeans(statement, before), Target(statement))

CallsMeant(m) == m.defined => after.calls = m.calls

(* Hazard: a right operand in a region of its own, an element emitted once or  *)
(* for each place, a current value that is loaded first.  A verified statement *)
(* makes the calls it says, in order, with their arguments: "Runtime execution *)
(* therefore skips both calls" (test/Regression/CodeGen/                      *)
(* logical_short_circuit.rs:14).                                           *)
CallsKept ==
  LET exempt == \/ DropsValue(statement) \/ RepeatsCall(statement) \/ WidensUnsigned(statement)
                \/ CountDiffers(statement)
  IN phase = "done" /\ ~exempt => CallsMeant(StatementMeans(statement, before))

-------------------------------------------------------------------------------
(* e is written as a value of type t: what it consists of has that type, or    *)
(* is a literal, which is of any type of its sort behind a declared one.  An   *)
(* index and the operands of a comparison have one type of their own.         *)
RECURSIVE WrittenAs(_, _, _)
WrittenAs(e, t, declared) ==
  CASE e.kind = "int"   -> IF declared THEN IsInteger(t) ELSE t = I32
    [] e.kind = "float" -> IF declared THEN IsFloat(t) ELSE t = F64
    [] e.kind = "unary" -> WrittenAs(e.args[1], t, declared)
    [] e.kind = "binary" /\ e.op \in Arithmetic \cup Logical ->
         WrittenAs(e.args[1], t, declared) /\ WrittenAs(e.args[2], t, declared)
    [] e.kind = "binary" /\ e.op \in Comparisons ->
         LET u == e.args[1].type
         IN /\ t = Bool /\ u = e.args[2].type
            /\ WrittenAs(e.args[1], u, FALSE) /\ WrittenAs(e.args[2], u, FALSE)
    [] e.kind = "call"  -> e.type = t /\ \A i \in DOMAIN e.args :
                                           WrittenAs(e.args[i], Functions[e.name].params[i], TRUE)
    [] e.kind = "as"    -> e.to = t /\ WrittenAs(e.args[1], e.args[1].type, FALSE)
    [] e.kind = "index" -> e.type = t /\ WrittenAs(e.args[1], e.args[1].type, TRUE)
    [] e.kind = "ref"   -> e.type = t /\ WrittenAs(e.args[1], Base(t), FALSE)
    [] OTHER            -> e.kind \in {"bool", "var"} /\ e.type = t

Written(e, t, declared) ==
  IF ArrayLiteral(e)
  THEN IsArray(t) /\ \A i \in DOMAIN e.args : WrittenAs(e.args[i], Base(t), declared)
  ELSE WrittenAs(e, t, declared)

WrittenInOneType(s) ==
  CASE s.kind = "let"   -> Written(s.args[1], s.type, s.declared # Null)
    [] s.kind = "print" -> WrittenAs(s.args[1], s.args[1].type, FALSE)
    [] s.kind = "for"   -> \A i \in {1, 2} : WrittenAs(s.args[i], s.args[i].type, FALSE)
    [] s.kind = "eval"  -> LET e == s.args[1]
                           IN IF IsAssignment(e)
                              THEN /\ WrittenAs(e.args[1], e.args[1].type, FALSE)
                                   /\ Written(Check(e.args[2], e.args[1].type), e.args[1].type, TRUE)
                              ELSE WrittenAs(e, e.type, FALSE)

(* Hazard: the checker accepts operands of two types and lets that convert,    *)
(* and MLIRGen emits no conversion but that of `as`; only the verifier, which *)
(* has no source location, stands between.  An accepted statement fails there  *)
(* only if it mixes types (a literal behind a declared type has that type:    *)
(* TypeChecker.cpp:76-95, MLIRGen.cpp:1613), or for what the code generator    *)
(* has no code for: the value of an assignment or a unit call, a literal that  *)
(* took its type through a cast, an index that is an operation, an array or a *)
(* reference to an element as a value, and compared references.             *)
MixedOnlyFails ==
  LET exempt == \/ DropsValue(statement) \/ LeaksExpected(statement)
                \/ ComputedIndex(statement) \/ WholeArray(statement)
                \/ ComparesReferences(statement)
                \/ statement.kind = "let" /\ ElementReference(statement)
  IN phase = "failed" /\ ~exempt => ~WrittenInOneType(statement)
===============================================================================
