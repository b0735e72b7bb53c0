------------------------------ MODULE FunctionBody ------------------------------
(***************************************************************************)
(* What a function body means, statement by statement: the abstract        *)
(* specification of the code that MLIRGen emits for it.                    *)
(*                                                                         *)
(* A body is a sequence of nodes, the root first; a node has a kind and    *)
(* the indices of its substatements.  A "plain" node is a let or an        *)
(* expression statement.  Conditions are left open: every choice is a      *)
(* behaviour, and the trace records it with what has been evaluated.       *)
(***************************************************************************)
EXTENDS Integers, Sequences

CONSTANTS
  Bodies,         \* the function bodies
  MaxIterations   \* bound: iterations of all loops in one call

VARIABLES
  body,     \* the body that is executed
  control,  \* statements that are still to be executed, in order
  trace,    \* what has been evaluated
  fuel,     \* iterations that may still begin
  result    \* node of the return that ended the body, or one of the below

vars == <<body, control, trace, fuel, result>>

Running == -1   \* no result yet
Default == 0    \* no return was executed

(* A statement that is to be executed; a for loop whose bounds have been    *)
(* evaluated is entered.                                                   *)
Item(n)    == [node |-> n, entered |-> FALSE]
Entered(n) == [node |-> n, entered |-> TRUE]

Items(nodes) == [i \in DOMAIN nodes |-> Item(nodes[i])]

Kids(n) == body[n].kids

Event(n, choice) == [node |-> n, choice |-> choice]

(* Branch of an if that is taken; nothing when there is no else. *)
Branch(n, taken) ==
  IF taken THEN <<Item(Kids(n)[1])>> ELSE Items(Tail(Kids(n)))

Init ==
  /\ body \in Bodies
  /\ control = <<Item(1)>>
  /\ trace = <<>>
  /\ fuel = MaxIterations
  /\ result = Running

-------------------------------------------------------------------------------

At(kind) == control # <<>> /\ result = Running /\ body[Head(control).node].kind = kind
Node     == Head(control).node

Evaluate(n, choice) == trace' = Append(trace, Event(n, choice))

Plain ==
  /\ At("plain")
  /\ Evaluate(Node, "done")
  /\ control' = Tail(control)
  /\ UNCHANGED <<body, fuel, result>>

Block ==
  /\ At("block")
  /\ control' = Items(Kids(Node)) \o Tail(control)
  /\ UNCHANGED <<body, trace, fuel, result>>

If ==
  /\ At("if")
  /\ \E taken \in BOOLEAN :
       /\ Evaluate(Node, IF taken THEN "true" ELSE "false")
       /\ control' = Branch(Node, taken) \o Tail(control)
  /\ UNCHANGED <<body, fuel, result>>

While ==
  /\ At("while")
  /\ \/ /\ fuel > 0
        /\ Evaluate(Node, "true")
        /\ control' = <<Item(Kids(Node)[1])>> \o control
        /\ fuel' = fuel - 1
     \/ /\ Evaluate(Node, "false")
        /\ control' = Tail(control)
        /\ UNCHANGED fuel
  /\ UNCHANGED <<body, result>>

(* The bounds of a for loop are evaluated once. *)
ForBounds ==
  /\ At("for")
  /\ ~Head(control).entered
  /\ Evaluate(Node, "bounds")
  /\ control' = <<Entered(Node)>> \o Tail(control)
  /\ UNCHANGED <<body, fuel, result>>

For ==
  /\ At("for")
  /\ Head(control).entered
  /\ \/ /\ fuel > 0
        /\ control' = <<Item(Kids(Node)[1])>> \o control
        /\ fuel' = fuel - 1
     \/ /\ control' = Tail(control)
        /\ UNCHANGED fuel
  /\ UNCHANGED <<body, trace, result>>

(* Nothing of the body is executed after a return. *)
Return ==
  /\ At("return")
  /\ Evaluate(Node, "done")
  /\ control' = <<>>
  /\ result' = Node
  /\ UNCHANGED <<body, fuel>>

End ==
  /\ control = <<>>
  /\ result = Running
  /\ result' = Default
  /\ UNCHANGED <<body, control, trace, fuel>>

Next == Plain \/ Block \/ If \/ While \/ ForBounds \/ For \/ Return \/ End

Spec == Init /\ [][Next]_vars
===============================================================================
