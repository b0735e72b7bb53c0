-------------------------------- MODULE Parser --------------------------------
(***************************************************************************)
(* The recursive-descent parser (lib/Parse/Parser.cpp) after the lexer, and *)
(* the driver's gates between them (tools/trsc/main.cpp).                   *)
(*                                                                         *)
(* Each parse function is the sequence of what it does (a routine below),   *)
(* and the call stack holds, for each call, the routine's rest and the AST  *)
(* nodes it has made.  A call that returns gives its caller a node; nullptr *)
(* is the node Null.  Types, statements and expressions are all nodes.      *)
(***************************************************************************)
EXTENDS Lexer

CONSTANT MaxNodes   \* bound on the nodes that a call keeps

ASSUME MaxNodesAssumption == MaxNodes \in Nat /\ MaxNodes > 1

(* The name of nullptr, below, names no keyword. *)
ASSUME NullAssumption == "null" \notin Range(Keywords)

VARIABLES
  phase,     \* "lexing", "parsing", "failed", "crashed" or "accepted"
  idx,       \* CurrentTokenIdx, from 1
  calls,     \* the call stack
  errors,    \* whether the parser has reported an error
  program    \* the AST

parserVars == <<phase, idx, calls, errors, program>>
syntaxVars == <<lexVars, parserVars>>

currentToken == tokens[idx].kind

(* getOperatorPrecedence.  A name or a number is an operator to it. *)
Precedence(kind) ==
  CASE kind \in {"+=", "-="} -> 17
    [] kind \in {"!", "."} -> 15
    [] kind \in {"*", "/", "%"} -> 12
    [] kind \in {"+", "-"} -> 11
    [] kind \in {"<<", ">>"} -> 10
    [] kind \in {"<", "<=", ">", ">="} -> 8
    [] kind \in {"==", "!="} -> 7
    [] kind = "&" -> 6
    [] kind = "|" -> 5
    [] kind = "&&" -> 4
    [] kind = "||" -> 3
    [] kind = "=" -> 2
    [] kind \in {"ident", "float", "int"} -> 1
    [] OTHER -> -1

Node(kind, children) == [kind |-> kind, children |-> children]
Null == Node("null", <<>>)

-----------------------------------------------------------------------------
(* Instructions of the routines.                                           *)

Instr(op, at, kind, then, else) ==
  <<[op |-> op, at |-> at, kind |-> kind, then |-> then, else |-> else]>>
Do(op) == Instr(op, {}, "", <<>>, <<>>)

Leaf == Do("leaf")                                  \* a node for the token
Want(kinds) == Instr("want", kinds, "", <<>>, <<>>)  \* consume
Report == Do("report")
NullReturn == Do("null")
If(kinds, then, else) == Instr("if", kinds, "", then, else)
When(kinds, then) == If(kinds, then, <<>>)
Until(kinds, body) == Instr("until", kinds, "", body, <<>>)
While(kinds, body) == Instr("while", kinds, "", body, <<>>)
Need == Do("need")                                  \* if (!E) return nullptr
Build(kind) == Instr("build", {}, kind, <<>>, <<>>)  \* the node of all nodes
Same == Do("same")                                  \* the last node as it is
Call(routine) == Instr("call", {}, routine, <<>>, <<>>)
Expr(precedence) == Instr("call", {precedence}, "expr", <<>>, <<>>)

(* Seeded faults: an unexpected token goes unreported. *)
ExpectSilently(kind) == If({kind}, Want({kind}), NullReturn)
RequireSilently(kind) == If({kind}, <<>>, NullReturn)

(* if (!expectToken(kind)) return nullptr *)
Expect(kind) == If({kind}, Want({kind}), Report \o NullReturn)
Require(kind) == If({kind}, <<>>, Report \o NullReturn)

-----------------------------------------------------------------------------
(* The routines.                                                           *)

(* parameters or arguments after the first, up to ")" *)
Separated(body) == body \o Until({")"}, Expect(",") \o body)

parseMacroCall ==
  Want({"!"}) \o Expect("(")
  \o When({"string"}, Leaf \o If({")"}, <<>>, Expect(",")))
  \o Until({")"}, When({"eof"}, Report \o NullReturn)
                  \o Expr(0) \o Need \o If({")"}, <<>>, Expect(",")))
  \o Want({")"}) \o Build("macro")

parseFunCall ==
  Want({"("}) \o If({")"}, <<>>, Separated(Expr(0))) \o Want({")"}) \o Build("funcall")

parseArrayAccessExpr ==
  While({"["}, Want({"["}) \o Call("primary") \o Want({"]"})) \o Build("access")

(* A loop that only "]" ends, and that a token which starts no expression    *)
(* does not advance.  The count is used without a look at it.               *)
parseArray ==
  Want({"["}) \o Call("primary")
  \o When({";"}, Want({";"}) \o Call("primary") \o Want({"]"}) \o Do("value") \o Build("array"))
  \o Until({"]"}, Want({","}) \o Call("primary"))
  \o Want({"]"}) \o Build("array")

parsePrimary ==
  LET token == currentToken IN
  CASE token \in {"float", "string", "int", "true", "false"} -> Leaf \o Same
    [] token = "ident" -> Leaf \o When({"!"}, parseMacroCall) \o When({"("}, parseFunCall)
                          \o When({"["}, parseArrayAccessExpr) \o Same
    [] token = "(" -> Want({"("}) \o Expr(0) \o Need \o Expect(")") \o Same
    [] token = "[" -> parseArray
    [] token \in {"-", "!"} -> Want({token}) \o Call("primary") \o Need \o Build(token)
    [] token = "&" -> Want({"&"}) \o When({"mut"}, Want({"mut"})) \o Call("primary") \o Build("&")
    [] OTHER -> Report \o NullReturn

(* Seeded fault: an operator takes its equals on its right. *)
ClimbRight(min) ==
  LET operator == currentToken IN
  IF Precedence(operator) < min THEN Same
  ELSE Want({operator}) \o Expr(Precedence(operator)) \o Need
       \o Instr("combine", {}, operator, <<>>, <<>>) \o Instr("climb", {min}, "", <<>>, <<>>)

(* The loop of parseExpr, at an operator that binds no less than min. *)
Climb(min) ==
  LET operator == currentToken IN
  IF Precedence(operator) < min THEN Same
  ELSE Want({operator}) \o Expr(Precedence(operator) + 1) \o Need
       \o Instr("combine", {}, operator, <<>>, <<>>) \o Instr("climb", {min}, "", <<>>, <<>>)

parseExpr(min) ==
  Call("primary") \o Need
  \o When({"as"}, Want({"as"}) \o Call("type") \o Instr("combine", {}, "as", <<>>, <<>>))
  \o Instr("climb", {min}, "", <<>>, <<>>)

parseType ==
  CASE currentToken = "*" ->
         Want({"*"}) \o If({"mut", "const"}, Want({"mut", "const"}), Report)
         \o Call("type") \o Need \o Build("*")
    [] currentToken = "&" ->
         Want({"&"}) \o When({"mut"}, Want({"mut"})) \o Call("type") \o Need \o Build("&")
    [] currentToken = "[" ->
         Want({"["}) \o Call("type") \o Need \o Expect(";") \o Require("int") \o Leaf
         \o Expect("]") \o Build("arraytype")
    [] OTHER -> Require("ident") \o Leaf \o Same

parseRangeExpr ==
  Call("primary")
  \o If({"..", "..="}, Want({"..", "..="}), NullReturn)
  \o Call("primary") \o Build("range")

parseLetStmt ==
  Want({"let"}) \o When({"mut"}, Want({"mut"})) \o Require("ident") \o Call("primary")
  \o When({":"}, Want({":"}) \o Call("type"))
  \o If({";"}, Want({";"}), Expect("=") \o Expr(0) \o Need \o Expect(";"))
  \o Build("let")

parseForStmt ==
  Want({"for"}) \o Call("primary") \o Expect("in") \o Call("range") \o Call("stmt") \o Build("for")

parseIfStmt ==
  Want({"if"}) \o Expr(0) \o Need \o Call("stmt") \o Need
  \o When({"else"}, Want({"else"}) \o Call("stmt") \o Need) \o Build("if")

parseWhileStmt == Want({"while"}) \o Expr(0) \o Call("stmt") \o Build("while")

parseBlockStmt ==
  Want({"{"}) \o Until({"}", "eof"}, Call("stmt") \o Do("recover")) \o Expect("}") \o Build("block")

parseFunction ==
  Want({"fn"}) \o Require("ident") \o Leaf \o Expect("(")
  \o If({")"}, <<>>, Separated(Require("ident") \o Call("primary")
                               \o When({":"}, Want({":"}) \o Call("type"))))
  \o Want({")"}) \o When({"->"}, Want({"->"}) \o Call("type")) \o Call("block") \o Build("fn")

parseReturnStmt == Want({"return"}) \o If({";"}, <<>>, Expr(0)) \o Expect(";") \o Build("return")

parseExprStmt == Expr(0) \o Need \o Expect(";") \o Build("exprstmt")

parseStmt ==
  CASE currentToken = "let" -> parseLetStmt
    [] currentToken = "for" -> parseForStmt
    [] currentToken = "if" -> parseIfStmt
    [] currentToken = "while" -> parseWhileStmt
    [] currentToken = "{" -> parseBlockStmt
    [] currentToken = "fn" -> parseFunction
    [] currentToken = "return" -> parseReturnStmt
    [] OTHER -> parseExprStmt

parse == Until({"eof"}, Call("stmt") \o Do("skip")) \o Build("program")

Routine(i) ==
  CASE i.kind = "primary" -> parsePrimary
    [] i.kind = "expr" -> parseExpr(CHOOSE precedence \in i.at : TRUE)
    [] i.kind = "type" -> parseType
    [] i.kind = "range" -> parseRangeExpr
    [] i.kind = "stmt" -> parseStmt
    [] i.kind = "block" -> parseBlockStmt

-----------------------------------------------------------------------------
(* What the instructions do.                                               *)

Top == Last(calls)
Nodes == Top.nodes
Next1 == Head(Top.code)
Rest == Tail(Top.code)

Running(op) == phase = "parsing" /\ Next1.op = op

Activation(code) == [code |-> code, nodes |-> <<>>]
GoOn(code, nodes) == calls' = Append(Front(calls), [code |-> code, nodes |-> nodes])

(* Seeded fault: the end of the file is passed. *)
AdvancedAnywhere(i) == i + 1

(* advance, which stays at the end of the file *)
Advanced(i) == IF tokens[i].kind = "eof" THEN i ELSE i + 1

With(nodes, n) == IF Len(nodes) < MaxNodes THEN Append(nodes, n) ELSE nodes

(* The call returns n; parse itself ends, and the driver counts errors. *)
Return(n) ==
  IF Len(calls) = 1
  THEN /\ calls' = <<>>
       /\ program' = n
       /\ phase' = IF errors THEN "failed" ELSE "accepted"
  ELSE LET caller == calls[Len(calls) - 1] IN
       /\ calls' = Append(Front(Front(calls)), [caller EXCEPT !.nodes = With(@, n)])
       /\ UNCHANGED <<phase, program>>

Consume ==
  /\ Running("want") \/ Running("leaf")
  /\ IF Next1.op = "leaf" \/ currentToken \in Next1.at
     THEN idx' = Advanced(idx) /\ UNCHANGED errors
     ELSE errors' = TRUE /\ UNCHANGED idx
  /\ GoOn(Rest, IF Next1.op = "leaf" THEN With(Nodes, Node(currentToken, <<>>)) ELSE Nodes)
  /\ UNCHANGED <<phase, program>>

ReportError ==
  /\ Running("report")
  /\ errors' = TRUE
  /\ GoOn(Rest, Nodes)
  /\ UNCHANGED <<phase, idx, program>>

Branch ==
  /\ \/ /\ Running("if")
        /\ GoOn((IF currentToken \in Next1.at THEN Next1.then ELSE Next1.else) \o Rest, Nodes)
     \/ /\ Running("until")
        /\ GoOn(IF currentToken \in Next1.at THEN Rest ELSE Next1.then \o Top.code, Nodes)
     \/ /\ Running("while")
        /\ GoOn(IF currentToken \in Next1.at THEN Next1.then \o Top.code ELSE Rest, Nodes)
     \/ /\ Running("climb")
        /\ GoOn(Climb(CHOOSE precedence \in Next1.at : TRUE) \o Rest, Nodes)
  /\ UNCHANGED <<phase, idx, errors, program>>

Enter ==
  /\ Running("call")
  /\ calls' = Append(Front(calls), [Top EXCEPT !.code = Rest]) \o <<Activation(Routine(Next1))>>
  /\ UNCHANGED <<phase, idx, errors, program>>

Leave ==
  /\ \/ Running("build") /\ Return(Node(Next1.kind, Nodes))
     \/ Running("same") /\ Return(Last(Nodes))
     \/ Running("null") /\ Return(Null)
  /\ UNCHANGED <<idx, errors>>

CheckNeed ==
  /\ Running("need")
  /\ IF Last(Nodes) = Null THEN Return(Null)
     ELSE GoOn(Rest, Nodes) /\ UNCHANGED <<phase, program>>
  /\ UNCHANGED <<idx, errors>>

(* The left operand and what follows it become one node. *)
Combine ==
  /\ Running("combine")
  /\ GoOn(Rest, <<Node(Next1.kind, Nodes)>>)
  /\ UNCHANGED <<phase, idx, errors, program>>

(* CountExpr->getValue() *)
TakeValue ==
  /\ Running("value")
  /\ IF Last(Nodes) = Null THEN phase' = "crashed" /\ UNCHANGED calls
     ELSE GoOn(Rest, Nodes) /\ UNCHANGED phase
  /\ UNCHANGED <<idx, errors, program>>

(* Seeded fault: recovery stops before the semicolon. *)
RecoveredBefore(i) == Min({j \in i .. Len(tokens) : tokens[j].kind \in {"}", ";", "eof"}})

(* Where a block goes on after a statement without a node. *)
Recovered(i) ==
  LET j == Min({k \in i .. Len(tokens) : tokens[k].kind \in {"}", ";", "eof"}})
  IN IF tokens[j].kind = ";" THEN Advanced(j) ELSE j

(* Blocks recover at the next statement, the program at the next token. *)
Recover ==
  /\ Running("recover") \/ Running("skip")
  /\ IF Last(Nodes) = Null
     THEN /\ idx' = IF Next1.op = "skip" THEN Advanced(idx) ELSE Recovered(idx)
          /\ GoOn(Rest, Front(Nodes))
     ELSE GoOn(Rest, Nodes) /\ UNCHANGED idx
  /\ UNCHANGED <<phase, errors, program>>

-----------------------------------------------------------------------------
(* main: errors of the lexer end the compilation before the parser. *)

LexStep == phase = "lexing" /\ ~Lexed /\ Lex /\ UNCHANGED parserVars

StartParsing ==
  /\ phase = "lexing" /\ Lexed
  /\ IF reports # <<>> THEN phase' = "failed" /\ UNCHANGED calls
     ELSE phase' = "parsing" /\ calls' = <<Activation(parse)>>
  /\ UNCHANGED <<lexVars, idx, errors, program>>

ParseStep ==
  /\ Consume \/ ReportError \/ Branch \/ Enter \/ Leave \/ CheckNeed \/ Combine \/ TakeValue
     \/ Recover
  /\ UNCHANGED lexVars

Finished == phase \in {"failed", "crashed", "accepted"}

SyntaxInit ==
  /\ LexInit
  /\ phase = "lexing" /\ idx = 1 /\ calls = <<>> /\ errors = FALSE /\ program = Null

SyntaxNext == LexStep \/ StartParsing \/ ParseStep \/ (Finished /\ UNCHANGED syntaxVars)

SyntaxSpec == AnyText /\ SyntaxInit /\ [][SyntaxNext]_syntaxVars

-----------------------------------------------------------------------------
(* Properties.                                                             *)

SyntaxTypeOK ==
  /\ cur \in 1 .. Len(text) + 3 /\ lastLine \in 1 .. Len(text) + 1
  /\ \A n \in DOMAIN tokens : tokens[n].end \in 1 .. Len(text) + 3
  /\ phase \in {"lexing", "parsing", "failed", "crashed", "accepted"}
  /\ phase # "lexing" => idx \in DOMAIN tokens
  /\ phase = "parsing" => calls # <<>>
  /\ \A c \in Range(calls) : c.code # <<>> /\ Len(c.nodes) <= MaxNodes
  /\ errors \in BOOLEAN

(* The nodes of the tree of n.  Only a program and an expression's statement *)
(* are around another node without a token of their own.                    *)
Subtrees(n) ==
  LET below[k \in 0 .. 2 * Len(tokens) + 2] ==
        IF k = 0 THEN {n} ELSE UNION {Range(m.children) : m \in below[k - 1]}
  IN UNION {below[k] : k \in 0 .. 2 * Len(tokens) + 2}

(* The routine of an array literal is in the call stack. *)
InArray == \E c \in Range(calls) : \E i \in Range(c.code) : i = Head(Until({"]"}, Want({","}) \o Call("primary")))

(* Every compilation gets past the parser, whatever tokens it meets and      *)
(* wherever recovery stops; the one loop that may never end is that of an    *)
(* array literal (parseArray, which only "]" ends).                          *)
ParserEnds == <>Finished \/ <>[]InArray

LacksRange(n) == n.kind = "for" /\ n.children[2] = Null
Whole == Null \notin Subtrees(program)

(* A parse function returns nullptr only after an error, so that an accepted *)
(* program is whole and a crash is at least announced.  parseRangeExpr is    *)
(* the exception: `for i in 5 { }` is accepted, with no range.               *)
NullIsReported ==
  /\ phase = "crashed" => errors
  /\ phase = "accepted" /\ ~Whole => \E n \in Subtrees(program) : LacksRange(n)

Operator(kind) == kind \notin {"ident", "float", "int", "string"} /\ Precedence(kind) > 2

Operands(n) ==
  LET of[m \in Subtrees(n)] ==
        LET own == <<m.kind>>
            parts == [k \in DOMAIN m.children |-> of[m.children[k]]]
        IN IF Len(parts) = 2 /\ (Precedence(m.kind) > 0 \/ m.kind = "null")
           THEN parts[1] \o own \o parts[2]
           ELSE own \o FlattenSeq(parts)
  IN of[n]

Counts(kind) ==
  \/ kind \in {"ident", "float", "int", "string", "true", "false"}
  \/ Operator(kind) /\ kind # "!"

(* The tree of an accepted program has each operand and operator of the      *)
(* text, in the text's order: nothing is skipped without an error, and       *)
(* nothing is read twice.                                                   *)
TreeKeepsOperands ==
  phase = "accepted" /\ Whole =>
    SelectSeq(Operands(program), Counts)
      = SelectSeq([k \in DOMAIN tokens |-> tokens[k].kind], Counts)

Binary(n) == Len(n.children) = 2 /\ Precedence(n.kind) > 0

Climbs(n) ==
  Binary(n) =>
    /\ Binary(n.children[1]) => Precedence(n.children[1].kind) >= Precedence(n.kind)
    /\ Binary(n.children[2]) => Precedence(n.children[2].kind) > Precedence(n.kind)

(* Without parentheses, the tree of an expression is the one its operators'  *)
(* precedence demands, equals to the left.                                   *)
PrecedenceShapesTree ==
  phase = "accepted" /\ (\A k \in DOMAIN tokens : tokens[k].kind # "(") =>
    \A n \in Subtrees(program) : Climbs(n)
=============================================================================
