--------------------------- MODULE SemanticAnalysis ---------------------------
(***************************************************************************)
(* The passes of the semantic analyser (lib/Sema) over one program.        *)
(*                                                                         *)
(* The program is its nodes in preorder, node 1 being the Program; a node  *)
(* has a kind, a name, a type written in the source (Absent when there is  *)
(* none), a mut marker and its children.  What the passes store in the     *)
(* AST is in the variables symbol and type.  A visitor is run with an       *)
(* explicit stack of what it still has to do; a step is the part of a       *)
(* visit method before, between or after the visits of the children.       *)
(*                                                                         *)
(* Types are told apart as numbers, booleans, unit and functions.          *)
(***************************************************************************)
EXTENDS SymbolTable

CONSTANT Programs   \* the programs that are analysed

Absent == "absent"
Null   == "null"
Types  == {"number", "bool", "unit", "function"}

Expressions == {"literal", "var", "call", "add", "assign", "print"}
Statements  == Expressions \cup {"let", "fn", "for", "if", "while", "block", "return"}
Kinds       == Statements \cup {"program", "param"}

ProgramNode ==
  [kind : Kinds, name : Spellings, type : {"number", "bool", Absent}, mut : BOOLEAN, kids : Seq(Nat)]

Children(p, n) == {p[n].kids[i] : i \in DOMAIN p[n].kids}

(* The nodes are in preorder: the children of a node follow it in order, and *)
(* those of a node between a parent and its child precede the child.        *)
IsTree(p) ==
  /\ \A n \in DOMAIN p : \A i, j \in DOMAIN p[n].kids :
       /\ p[n].kids[i] \in n + 1 .. Len(p)
       /\ i < j => p[n].kids[i] < p[n].kids[j]
  /\ \A m \in 2 .. Len(p) : \E n \in 1 .. m - 1 : m \in Children(p, n)
  /\ \A n \in DOMAIN p : \A m \in Children(p, n) : \A o \in n + 1 .. m - 1 :
       \A k \in Children(p, o) : k < m

(* What the parse functions put below a node. *)
Arranged(p, n) ==
  LET arity == Len(p[n].kids)
      Kid(i) == p[p[n].kids[i]].kind
  IN /\ p[n].kind = "program" <=> n = 1
     /\ p[n].kind = "program" => \A i \in 1 .. arity : Kid(i) = "fn"
     /\ p[n].kind = "fn" => /\ arity > 0
                            /\ Kid(arity) = "block" /\ \A i \in 1 .. arity - 1 : Kid(i) = "param"
     /\ p[n].kind = "block" => \A i \in 1 .. arity : Kid(i) \in Statements
     /\ p[n].kind = "for" => /\ arity = 3
                             /\ Kid(1) \in Expressions /\ Kid(2) \in Expressions
                             /\ Kid(3) \in Statements
     /\ p[n].kind = "while" => arity = 2 /\ Kid(1) \in Expressions /\ Kid(2) \in Statements
     /\ p[n].kind = "if" => /\ arity \in {2, 3} /\ Kid(1) \in Expressions
                            /\ \A i \in 2 .. arity : Kid(i) \in Statements
     /\ p[n].kind \in {"let", "return"} => arity <= 1
     /\ p[n].kind \in {"add", "assign"} => arity = 2
     /\ p[n].kind \in {"literal", "var", "param"} => arity = 0
     /\ p[n].kind \in {"let", "return", "add", "assign", "call", "print"} =>
          \A i \in 1 .. arity : Kid(i) \in Expressions
     /\ p[n].kind \in {"literal", "param"} => p[n].type # Absent

(* The programs consist of functions. *)
ASSUME ProgramsAssumption ==
  \A p \in Programs :
    /\ p \in Seq(ProgramNode) /\ Len(p) > 0
    /\ IsTree(p)
    /\ \A n \in DOMAIN p : Arranged(p, n)

VARIABLES
  ast,       \* the nodes of the program
  pass,      \* the pass that runs
  todo,      \* what it still has to do, innermost first
  symbol,    \* VarExpr::getSymbol and the like, of every node
  type,      \* Expr::getType of every node
  returns,   \* TypeChecker::CurrentFunctionReturnType
  errors     \* nodes that the diagnostics are about

analysisVars == <<tableVars, ast, pass, todo, symbol, type, returns, errors>>

Nodes == DOMAIN ast

Kids(n)  == ast[n].kids
Visit(n) == [at |-> "visit", node |-> n, note |-> 0]
Then(at, note) == <<[at |-> at, node |-> Head(todo).node, note |-> note]>>

Visits(nodes) == [i \in DOMAIN nodes |-> Visit(nodes[i])]

(* The functions among the statements of the program, in order. *)
Functions ==
  LET upto[i \in 0 .. Len(Kids(1))] ==
        IF i = 0 THEN <<>>
        ELSE upto[i - 1] \o (IF ast[Kids(1)[i]].kind = "fn" THEN <<Kids(1)[i]>> ELSE <<>>)
  IN upto[Len(Kids(1))]

(* The body of a function or a loop, whose block opens no scope of its own. *)
Body(n) ==
  LET body == Last(Kids(n))
  IN IF ast[body].kind = "block" THEN Visits(Kids(body)) ELSE <<Visit(body)>>

NewSymbol(n) == [node |-> n, type |-> Null, mutable |-> FALSE, op |-> None]

AnalysisInit ==
  /\ TableInit
  /\ ast \in Programs
  /\ pass = "collect"
  /\ todo = Visits(Functions)
  /\ symbol = [n \in Nodes |-> None]
  /\ type = [n \in Nodes |-> Null]
  /\ returns = Null
  /\ errors = {}

-------------------------------------------------------------------------------
Top  == Head(todo)
This == Top.node
Node == ast[This]
Sym  == symbol[This]

At(p, at, kinds) == pass = p /\ todo # <<>> /\ Top.at = at /\ Node.kind \in kinds

Continue(items) == todo' = items \o Tail(todo)

Report == errors' = errors \cup {This}
Silent == UNCHANGED errors

ResolverFrame == UNCHANGED <<ast, pass, type, returns>>

Declare ==
  \/ /\ addSymbol(Node.name, NewSymbol(This))
     /\ symbol' = [symbol EXCEPT ![This] = Len(arena) + 1]
     /\ Silent
  \/ /\ Redefines(Node.name)
     /\ Report
     /\ UNCHANGED <<tableVars, symbol>>

(* DeclarationCollector: the functions of the program. *)
CollectFunction ==
  /\ At("collect", "visit", {"fn"})
  /\ Declare
  /\ Continue(<<>>)
  /\ ResolverFrame

(* NameResolver *)
ResolveScope ==
  /\ At("resolve", "visit", {"fn", "for", "while", "block"})
  /\ enterScope
  /\ Continue(
       CASE Node.kind = "fn" -> Visits(Front(Kids(This))) \o Body(This) \o Then("exit", 0)
         [] Node.kind = "for" -> Then("iterator", 0) \o Visits(Front(Kids(This)))
                                 \o Body(This) \o Then("exit", 0)
         [] Node.kind = "while" -> Visits(Front(Kids(This))) \o Body(This) \o Then("exit", 0)
         [] OTHER -> Visits(Kids(This)) \o Then("exit", 0))
  /\ Silent
  /\ UNCHANGED symbol
  /\ ResolverFrame

ExitScope ==
  /\ At("resolve", "exit", {"fn", "for", "while", "block"})
  /\ exitScope
  /\ Continue(<<>>)
  /\ Silent
  /\ UNCHANGED symbol
  /\ ResolverFrame

(* A let declares its variable before it looks at the initializer. *)
ResolveDeclaration ==
  /\ At("resolve", "visit", {"let", "param"}) \/ At("resolve", "iterator", {"for"})
  /\ Declare
  /\ Continue(IF Node.kind = "let" THEN Visits(Kids(This)) ELSE <<>>)
  /\ ResolverFrame

ResolveName ==
  /\ At("resolve", "visit", {"var", "call"})
  /\ symbol' = [symbol EXCEPT ![This] = Lookup(Node.name)]
  /\ IF Lookup(Node.name) = None THEN Report ELSE Silent
  /\ Continue(Visits(Kids(This)))
  /\ UNCHANGED tableVars
  /\ ResolverFrame

ResolveChildren ==
  /\ At("resolve", "visit", {"if", "return", "assign", "add", "print", "literal"})
  /\ Continue(Visits(Kids(This)))
  /\ Silent
  /\ UNCHANGED <<tableVars, symbol>>
  /\ ResolverFrame

-------------------------------------------------------------------------------
(* TypeChecker *)

CheckerFrame == UNCHANGED <<ast, pass, scopes, current, symbol>>

TypeOf(n) == type[n]
SetType(t) == type' = [type EXCEPT ![This] = t]

SymbolType(s) == IF s = None THEN Null ELSE arena[s].type

Convertible(from, to) == from = to /\ from # Null

ReturnType(fn) == IF ast[fn].type = Absent THEN "unit" ELSE ast[fn].type

Params(fn) == Front(Kids(fn))

(* Types of the parameters that have a symbol, in order. *)
ParamTypes(fn) ==
  LET declared == SelectSeq(Params(fn), LAMBDA p : symbol[p] # None)
  IN [i \in DOMAIN declared |-> ast[declared[i]].type]

(* resolveFuncSignature: types of the parameters and of the function.  A     *)
(* function that is not at the top has no symbol to keep its type.         *)
Signed(fn) ==
  LET typed == {symbol[Params(fn)[i]] : i \in DOMAIN Params(fn)}
  IN [s \in DOMAIN arena |->
        IF s = symbol[fn] THEN [arena[s] EXCEPT !.type = "function"]
        ELSE IF s \in typed THEN [arena[s] EXCEPT !.type = ast[arena[s].node].type]
        ELSE arena[s]]

ReportParams(fn) ==
  errors' = errors \cup {p \in {Params(fn)[i] : i \in DOMAIN Params(fn)} : symbol[p] = None}

ResolveSignature ==
  /\ At("sign", "visit", {"fn"})
  /\ arena' = IF SymbolType(Sym) = Null THEN Signed(This) ELSE arena
  /\ IF SymbolType(Sym) = Null THEN ReportParams(This) ELSE Silent
  /\ Continue(<<>>)
  /\ UNCHANGED <<type, returns>>
  /\ CheckerFrame

(* Only a written return type constrains the returns of the body. *)
CheckFunction ==
  /\ At("check", "visit", {"fn"})
  /\ arena' = IF SymbolType(Sym) = Null THEN Signed(This) ELSE arena
  /\ IF SymbolType(Sym) = Null THEN ReportParams(This) ELSE Silent
  /\ returns' = IF Node.type = Absent THEN Null ELSE Node.type
  /\ Continue(<<Visit(Last(Kids(This)))>> \o Then("leave", returns))
  /\ UNCHANGED type
  /\ CheckerFrame

LeaveFunction ==
  /\ At("check", "leave", {"fn"})
  /\ returns' = Top.note
  /\ Continue(<<>>)
  /\ Silent
  /\ UNCHANGED <<arena, type>>
  /\ CheckerFrame

(* Without a symbol the initializer is not looked at. *)
CheckLet ==
  /\ At("check", "visit", {"let"})
  /\ \/ /\ Sym = None
        /\ Report
        /\ Continue(<<>>)
        /\ UNCHANGED arena
     \/ /\ Sym # None
        /\ arena' = [arena EXCEPT ![Sym].mutable = Node.mut]
        /\ Continue(Visits(Kids(This)) \o Then("leave", Null))
        /\ Silent
  /\ UNCHANGED <<type, returns>>
  /\ CheckerFrame

(* Type of what is assigned or returned; there may be none. *)
Value == IF Kids(This) = <<>> THEN Null ELSE TypeOf(Kids(This)[1])

(* Type of the variable, Null or unit when the declaration is rejected. *)
LetType ==
  IF Node.type = Absent THEN Value
  ELSE IF Value = Null \/ Convertible(Node.type, Value) THEN Node.type
  ELSE Null

(* Seeded fault: a declaration that has no type passes. *)
UnbindableUnit == {"unit"}

Unbindable == {Null, "unit"}

LeaveLet ==
  /\ At("check", "leave", {"let"})
  /\ \/ /\ LetType \in Unbindable
        /\ Report
        /\ UNCHANGED arena
     \/ /\ LetType \notin Unbindable
        /\ arena' = [arena EXCEPT ![Sym].type = LetType]
        /\ Silent
  /\ Continue(<<>>)
  /\ UNCHANGED <<type, returns>>
  /\ CheckerFrame

CheckLeaf ==
  /\ At("check", "visit", {"literal", "var"})
  /\ SetType(IF Node.kind = "literal" THEN Node.type ELSE SymbolType(Sym))
  /\ Continue(<<>>)
  /\ Silent
  /\ UNCHANGED <<arena, returns>>
  /\ CheckerFrame

(* Statements and expressions that are looked at after their children, and   *)
(* those of which the first child, or the bounds, come first.              *)
CheckChildren ==
  /\ At("check", "visit", {"block", "if", "while", "for", "return", "assign", "add", "print"})
  /\ Continue(CASE Node.kind = "block" -> Visits(Kids(This))
                [] Node.kind \in {"if", "while"} ->
                     <<Visit(Head(Kids(This)))>> \o Then("condition", Null)
                [] Node.kind = "for" -> Visits(Front(Kids(This))) \o Then("range", Null)
                [] OTHER -> Visits(Kids(This)) \o Then("leave", Null))
  /\ IF Node.kind = "print" THEN SetType("unit") ELSE UNCHANGED type
  /\ Silent
  /\ UNCHANGED <<arena, returns>>
  /\ CheckerFrame

(* Behind a condition without a type nothing is looked at. *)
CheckCondition ==
  /\ At("check", "condition", {"if", "while"})
  /\ LET condition == TypeOf(Head(Kids(This)))
     IN /\ Continue(IF condition = Null THEN <<>> ELSE Visits(Tail(Kids(This))))
        /\ IF condition \in {Null, "bool"} THEN Silent ELSE Report
  /\ UNCHANGED <<arena, type, returns>>
  /\ CheckerFrame

(* The iterator is a number whatever the bounds are. *)
CheckRange ==
  /\ At("check", "range", {"for"})
  /\ IF Sym # None /\ \A i \in 1 .. 2 : TypeOf(Kids(This)[i]) = "number"
     THEN Silent ELSE Report
  /\ arena' = IF Sym = None THEN arena ELSE [arena EXCEPT ![Sym].type = "number"]
  /\ Continue(<<Visit(Last(Kids(This)))>>)
  /\ UNCHANGED <<type, returns>>
  /\ CheckerFrame

(* Seeded fault: operands of different types make no type and no error. *)
LeaveAddUntyped ==
  /\ At("check", "leave", {"add"})
  /\ SetType(IF \A i \in 1 .. 2 : TypeOf(Kids(This)[i]) = "number" THEN "number" ELSE Null)
  /\ Silent
  /\ Continue(<<>>)
  /\ UNCHANGED <<arena, returns>>
  /\ CheckerFrame

LeaveAdd ==
  /\ At("check", "leave", {"add"})
  /\ LET operands == {TypeOf(Kids(This)[i]) : i \in 1 .. 2}
     IN /\ SetType(IF operands = {"number"} THEN "number" ELSE Null)
        /\ IF operands = {"number"} \/ Null \in operands THEN Silent ELSE Report
  /\ Continue(<<>>)
  /\ UNCHANGED <<arena, returns>>
  /\ CheckerFrame

(* Seeded fault: the symbol is not asked. *)
AssignableType(target, value) == Convertible(TypeOf(value), TypeOf(target))

Assignable(target, value) ==
  /\ symbol[target] # None
  /\ arena[symbol[target]].mutable
  /\ Convertible(TypeOf(value), TypeOf(target))

(* An operand without a type ends the check silently. *)
LeaveAssign ==
  /\ At("check", "leave", {"assign"})
  /\ LET target == Kids(This)[1]
         value  == Kids(This)[2]
         untyped == Null \in {TypeOf(target), TypeOf(value)}
     IN /\ SetType(IF ~untyped /\ Assignable(target, value) THEN TypeOf(target) ELSE Null)
        /\ IF untyped \/ Assignable(target, value) THEN Silent ELSE Report
  /\ Continue(<<>>)
  /\ UNCHANGED <<arena, returns>>
  /\ CheckerFrame

(* What is not a function has no return type and no parameters. *)
Callee == arena[Sym].node
Expects == IF SymbolType(Sym) = "function" THEN ParamTypes(Callee) ELSE <<>>

(* A call of an untyped symbol is left alone. *)
CheckCall ==
  /\ At("check", "visit", {"call"})
  /\ IF SymbolType(Sym) = Null THEN UNCHANGED type
     ELSE SetType(IF SymbolType(Sym) = "function" THEN ReturnType(Callee) ELSE Null)
  /\ IF Sym = None \/ (SymbolType(Sym) # Null /\ Len(Expects) # Len(Kids(This)))
     THEN Report ELSE Silent
  /\ Continue(IF SymbolType(Sym) # Null /\ Len(Expects) = Len(Kids(This))
              THEN Then("argument", 1) ELSE <<>>)
  /\ UNCHANGED <<arena, returns>>
  /\ CheckerFrame

(* Arguments before the one that comes next have the declared types; the     *)
(* first that has not ends the loop.                                       *)
CheckArgument ==
  /\ At("check", "argument", {"call"})
  /\ LET i == Top.note
         mismatch == i > 1 /\ TypeOf(Kids(This)[i - 1]) # Expects[i - 1]
     IN /\ IF mismatch THEN Report ELSE Silent
        /\ Continue(IF mismatch \/ i > Len(Kids(This)) THEN <<>>
                    ELSE <<Visit(Kids(This)[i])>> \o Then("argument", i + 1))
  /\ UNCHANGED <<arena, type, returns>>
  /\ CheckerFrame

(* An argument of println! without a type counts as diagnosed. *)
LeavePrint ==
  /\ At("check", "leave", {"print"})
  /\ IF \A i \in DOMAIN Kids(This) : TypeOf(Kids(This)[i]) \in {Null, "number", "bool"}
     THEN Silent ELSE Report
  /\ Continue(<<>>)
  /\ UNCHANGED <<arena, type, returns>>
  /\ CheckerFrame

LeaveReturn ==
  /\ At("check", "leave", {"return"})
  /\ IF Value = returns THEN Silent ELSE Report
  /\ Continue(<<>>)
  /\ UNCHANGED <<arena, type, returns>>
  /\ CheckerFrame

-------------------------------------------------------------------------------
(* SemanticAnalyzer::analyze: every pass runs, whatever the ones before said. *)
NextPass ==
  /\ todo = <<>>
  /\ \E step \in {<<"collect", "resolve">>, <<"resolve", "sign">>, <<"sign", "check">>} :
       /\ pass = step[1]
       /\ pass' = step[2]
       /\ todo' = IF step[2] = "sign" THEN Visits(Functions) ELSE Visits(Kids(1))
  /\ UNCHANGED <<tableVars, ast, symbol, type, returns, errors>>

AnalysisNext ==
  \/ CollectFunction
  \/ ResolveScope \/ ExitScope \/ ResolveDeclaration \/ ResolveName \/ ResolveChildren
  \/ ResolveSignature
  \/ CheckFunction \/ LeaveFunction \/ CheckLet \/ LeaveLet \/ CheckLeaf \/ CheckChildren
  \/ CheckCondition \/ CheckRange \/ LeaveAdd \/ LeaveAssign \/ CheckCall \/ CheckArgument
  \/ LeavePrint \/ LeaveReturn
  \/ NextPass

-------------------------------------------------------------------------------
(* Properties                                                              *)

AnalysisTypeOK ==
  /\ pass \in {"collect", "resolve", "sign", "check", "declare", "generate"}
  /\ current \in DOMAIN scopes
  /\ \A s \in DOMAIN scopes : scopes[s].parent \in 0 .. s - 1
  /\ \A s \in DOMAIN arena :
       /\ arena[s].type \in Types \cup {Null}
       /\ arena[s].node \in Nodes
       /\ symbol[arena[s].node] = s
  /\ \A n \in Nodes : symbol[n] \in 0 .. Len(arena) /\ type[n] \in Types \cup {Null}
  /\ errors \subseteq Nodes
  /\ pass # "resolve" => current = 1   \* every scope that was entered has been left

(* Node that the children of n belong to, and scope that a node is in: the   *)
(* nearest node around it that has one.                                    *)
ParentOf == [n \in Nodes |-> IF n = 1 THEN 1
                             ELSE CHOOSE p \in Nodes : n \in {Kids(p)[i] : i \in DOMAIN Kids(p)}]
HasScope(n) ==
  \/ ast[n].kind \in {"program", "fn", "for", "while"}
  \/ ast[n].kind = "block" /\ ast[ParentOf[n]].kind \notin {"fn", "for", "while"}
ScopeAround(n) ==
  LET around[m \in Nodes] == IF HasScope(m) THEN m ELSE around[ParentOf[m]]
  IN around[n]
ScopesAround(n) ==
  {s \in Nodes : /\ HasScope(s)
                 /\ LET inside[m \in Nodes] == m = s \/ (m # 1 /\ inside[ParentOf[m]])
                    IN inside[n]}

(* Declarations of the name of n that can be seen from n: functions of the   *)
(* program, and what precedes n in a scope around it.                      *)
Visible(n) ==
  {d \in Nodes :
     /\ ast[d].name = ast[n].name
     /\ \/ ast[d].kind = "fn" /\ ParentOf[d] = 1
        \/ ast[d].kind \in {"let", "param", "for"} /\ d < n /\ ScopeAround(d) \in ScopesAround(n)}

(* The innermost of them, and the first of a scope that has several. *)
Innermost(n) ==
  CHOOSE d \in Visible(n) :
    \A other \in Visible(n) :
      LET scope == IF ast[d].kind = "fn" THEN 1 ELSE ScopeAround(d)
          rival == IF ast[other].kind = "fn" THEN 1 ELSE ScopeAround(other)
      IN scope > rival \/ (scope = rival /\ d <= other)

(* Shadowing in nested scopes: when names have been resolved, every use of   *)
(* one has the symbol of the innermost declaration that the program text    *)
(* shows, and none when it shows none, whether scopes are scanned or         *)
(* indexed.  (An initializer is behind its own let here, as it is in the    *)
(* code.)                                                                  *)
BindsInnermost ==
  pass = "sign" =>
    \A n \in Nodes : ast[n].kind \in {"var", "call"} =>
      IF Visible(n) = {} THEN symbol[n] = None ELSE symbol[n] = symbol[Innermost(n)]

(* "Already diagnosed while checking the argument itself" (TypeChecker.cpp   *)
(* line 743): an argument of println! without a type has been reported.  It *)
(* holds for programs that call functions only; the call of a variable has  *)
(* no type and no report (TypeChecker.cpp:675).  Nor has a variable in its   *)
(* own initializer (Typeable of ProgramText).                              *)
UntypedIsDiagnosed ==
  (pass = "check" /\ todo # <<>> /\ Top.at = "leave" /\ Node.kind = "print") =>
    \A i \in DOMAIN Kids(This) : TypeOf(Kids(This)[i]) = Null => errors # {}
===============================================================================
