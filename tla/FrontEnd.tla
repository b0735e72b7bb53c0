-------------------------------- MODULE FrontEnd --------------------------------
(***************************************************************************)
(* The driver's gate after semantic analysis and the walk of MLIRGen over    *)
(* the analysed program, for what it asks of the analysis: that every        *)
(* symbol it meets has its operation, the storage of a variable or the       *)
(* function.  The walk shares the stack, the symbols and their op fields     *)
(* with the analysis.  A fault is a null operation that is used, or a call,  *)
(* an assignment or a variable that is dropped with a message; the model      *)
(* ends there.                                                             *)
(***************************************************************************)
EXTENDS SemanticAnalysis

VARIABLE fault   \* node that MLIRGen fails on

vars == <<analysisVars, fault>>

Init == AnalysisInit /\ fault = None

Analyse == AnalysisNext /\ UNCHANGED fault

GeneratorFrame == UNCHANGED <<scopes, current, ast, pass, symbol, type, returns, errors>>

(* The driver stops after semantic analysis if there was any error. *)
Accepted ==
  /\ pass = "check" /\ todo = <<>> /\ errors = {}
  /\ pass' = "declare"
  /\ todo' = Visits(Functions)
  /\ UNCHANGED <<tableVars, ast, symbol, type, returns, errors, fault>>

SetOp(n) == arena' = [arena EXCEPT ![symbol[n]].op = n]

Fail == fault' = This /\ todo' = <<>>

(* genProgram declares the functions before it generates any of them. *)
DeclareFunction ==
  /\ At("declare", "visit", {"fn"})
  /\ SetOp(This)
  /\ Continue(<<>>)
  /\ UNCHANGED fault
  /\ GeneratorFrame

Generate ==
  /\ pass = "declare" /\ todo = <<>> /\ fault = None
  /\ pass' = "generate"
  /\ todo' = Visits(Kids(1))
  /\ UNCHANGED <<tableVars, ast, symbol, type, returns, errors, fault>>

Emitting(kinds) == At("generate", "visit", kinds)

(* A function without a symbol is not generated. *)
EmitFunction ==
  /\ Emitting({"fn"})
  /\ Continue(IF Sym = None THEN <<>> ELSE Visits(Kids(This)))
  /\ UNCHANGED <<arena, fault>>
  /\ GeneratorFrame

(* Storage for a variable, a parameter or an iterator of that type. *)
EmitStorage ==
  /\ Emitting({"let", "param", "for"})
  /\ IF SymbolType(Sym) \in {"number", "bool"}
     THEN SetOp(This) /\ Continue(Visits(Kids(This))) /\ UNCHANGED fault
     ELSE UNCHANGED arena /\ Fail
  /\ GeneratorFrame

OpKind(n) ==
  IF symbol[n] = None \/ arena[symbol[n]].op = None THEN "none" ELSE ast[arena[symbol[n]].op].kind

HasStorage(n) == OpKind(n) \in {"let", "param", "for"}

Emittable ==
  CASE Node.kind = "var"  -> HasStorage(This)
    [] Node.kind = "call" -> OpKind(This) = "fn"
    [] Node.kind = "assign" ->
         HasStorage(Kids(This)[1]) /\ arena[symbol[Kids(This)[1]]].mutable
    [] OTHER -> TRUE

(* The target of an assignment is not evaluated. *)
EmitOperands ==
  /\ Emitting({"block", "if", "while", "return", "print", "literal", "add", "var", "call", "assign"})
  /\ IF Emittable
     THEN /\ Continue(Visits(IF Node.kind = "assign" THEN Tail(Kids(This)) ELSE Kids(This)))
          /\ UNCHANGED fault
     ELSE Fail
  /\ UNCHANGED arena
  /\ GeneratorFrame

Next ==
  \/ Analyse \/ Accepted \/ DeclareFunction \/ Generate
  \/ EmitFunction \/ EmitStorage \/ EmitOperands

Spec == Init /\ [][Next]_vars

-------------------------------------------------------------------------------
(* Properties                                                              *)

(* Types of the variables, scopes left in the order they were entered, and   *)
(* symbols that know the node that declared them.                          *)
TypeOK == AnalysisTypeOK /\ fault \in Nodes \cup {None}

(* What the analysis accepts, MLIRGen generates: it meets no symbol without   *)
(* storage or function, in any function and whatever the order of functions. *)
AcceptedIsGenerated == fault = None

(* An accepted program assigns only to variables that the text declares mut,  *)
(* in the scope that the text shows.                                        *)
AssignsDeclaredMut ==
  pass = "declare" =>
    \A n \in Nodes : ast[n].kind = "assign" =>
      LET target == Kids(n)[1]
      IN Visible(target) # {} /\ ast[Innermost(target)].mut
===============================================================================
