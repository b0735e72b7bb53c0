------------------------------- MODULE MCFrontEnd -------------------------------
(* FrontEnd on programs of two functions: `fn f(x: number) -> number         *)
(* { return x; }`, after the other one, whose statements are enumerated.    *)
EXTENDS FrontEnd, ProgramText

CONSTANTS
  x, y, f, main,  \* names
  Callees         \* names that calls use

MCSpellings == {x, y, f, main, ""}

Form(kind, name, t, mut, arity) ==
  <<[kind |-> kind, name |-> name, type |-> t, mut |-> mut, arity |-> arity]>>
Plain(kind, arity) == Form(kind, "", Absent, FALSE, arity)

Number == Form("literal", "", "number", FALSE, 0)
Bool   == Form("literal", "", "bool", FALSE, 0)
Var(n) == Form("var", n, Absent, FALSE, 0)
Call(n, args) == Form("call", n, Absent, FALSE, Len(args)) \o FlattenSeq(args)

Vars == {Var(x), Var(y)}
Calls == {Call(c, args) : c \in Callees, args \in {<<>>, <<Var(x)>>}}

(* Words, in preorder, of statements. *)
Lets ==
  {Form("let", n, Absent, m, 1) \o e :
     n \in {x, y}, m \in BOOLEAN, e \in {Var(x), Number}}
  \cup {Form("let", n, "number", FALSE, 1) \o e : n \in {x, y}, e \in {Var(x)} \cup Calls}
  \cup {Form("let", x, "number", TRUE, 0), Form("let", y, Absent, TRUE, 1) \o Bool}
Outer == {Form("let", n, Absent, m, 1) \o Number : n \in {x, y}, m \in BOOLEAN}
         \cup {Form("let", x, Absent, TRUE, 1) \o Bool}
UseWords ==
  {Plain("assign", 2) \o Var(x) \o e : e \in {Number, Var(y)}}
  \cup {Plain("print", 1) \o e : e \in {Var(x)} \cup Calls}
  \cup {Plain("print", 1) \o Plain("add", 2) \o Var(x) \o Var(y), Plain("return", 0)}

Block(words) == Plain("block", Len(words)) \o FlattenSeq(words)

(* A scope around statements. *)
ScopeWords(words) ==
  {Block(words),
   Plain("if", 2) \o Bool \o Block(words),
   Plain("while", 2) \o Var(x) \o Block(words),
   Form("for", x, Absent, FALSE, 3) \o Number \o Var(y) \o Block(words)}

Nested(words) == Form("fn", y, Absent, FALSE, 1) \o Block(words)

Bodies(outer, uses) ==
  UNION {{<<l, s, u>>, <<l, Nested(<<s>>), u>>}
         \cup {<<l, w, u>> : w \in ScopeWords(<<s>>)}
         \cup {<<l, w>> : w \in ScopeWords(<<s, u>>)}
         \cup {<<l, w>> : w \in ScopeWords(<<Block(<<s>>), u>>)}
         : l \in outer, s \in Lets, u \in uses}

F == Form("fn", f, "number", FALSE, 2) \o Form("param", x, "number", FALSE, 0)
     \o Block(<<Plain("return", 1) \o Var(x)>>)
Program(body) == Plain("program", 2) \o Form("fn", main, Absent, FALSE, 1) \o Block(body) \o F

(* The nodes of a word, as a tuple, so that TLC computes it once.  From the  *)
(* right, a node takes its children from the roots found so far.           *)
Tree(w) ==
  LET step(i, found) ==
        [roots |-> <<i>> \o SubSeq(found.roots, w[i].arity + 1, Len(found.roots)),
         nodes |-> <<[kind |-> w[i].kind, name |-> w[i].name, type |-> w[i].type,
                      mut |-> w[i].mut, kids |-> SubSeq(found.roots, 1, w[i].arity)]>>
                   \o found.nodes]
  IN FoldRightDomain(step, w, [roots |-> <<>>, nodes |-> <<>>]).nodes

AllPrograms == {Tree(Program(body)) : body \in Bodies(Outer, UseWords)}
MCPrograms == AllPrograms   \* TLC computes AllPrograms once

(* Programs of each form are ones that the theorems about the type checker    *)
(* and the generator speak of.                                             *)
SomePrograms ==
  {Tree(Program(body)) : body \in Bodies({Form("let", x, Absent, TRUE, 1) \o Number},
                                         {Plain("print", 1) \o Call(f, <<Var(x)>>)})}
ASSUME TypeableAssumption == \A p \in SomePrograms : Typeable(p)
===============================================================================
