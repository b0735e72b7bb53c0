----------------------------- MODULE ReturnLowering -----------------------------
(***************************************************************************)
(* The code that MLIRGen emits for the statements of a function body, as   *)
(* it executes.                                                            *)
(*                                                                         *)
(* No func.return is emitted inside a region: genStmt carries a state of   *)
(* two SSA values, whether a return has happened and with which value, and *)
(* puts what follows a statement that may return under an scf.if.  Which   *)
(* statements get that treatment is decided when the code is generated, by *)
(* stmtMayReturn and by whether the state has a flag at all; that, and     *)
(* the conditions at run time, are what the steps below branch on.         *)
(*                                                                         *)
(* A frame is a region that is being executed: the statements it still has *)
(* and its state.  A region of a result-bearing scf.if yields its state to *)
(* the region around it, and the others drop it.                           *)
(***************************************************************************)
EXTENDS Integers, Sequences, SequencesExt

CONSTANTS
  Bodies,         \* the function bodies; see FunctionBody
  MaxIterations   \* bound: iterations of all loops in one call

Kinds == {"plain", "return", "block", "if", "while", "for"}

(* The tree of a body: substatements come after the statement they are of, *)
(* and a conditional or a loop has at least one.                           *)
IsBody(b) ==
  /\ b \in Seq([kind : Kinds, kids : Seq(Nat)])
  /\ b # <<>>
  /\ \A n \in DOMAIN b :
       /\ \A i \in DOMAIN b[n].kids : b[n].kids[i] \in n + 1 .. Len(b)
       /\ b[n].kind \in {"plain", "return"} => b[n].kids = <<>>
       /\ b[n].kind \in {"if", "while", "for"} => b[n].kids # <<>>

ASSUME BodiesAssumption == \A b \in Bodies : IsBody(b)
ASSUME MaxIterationsAssumption == MaxIterations \in Nat

VARIABLES
  body,    \* the body that is executed
  frames,  \* regions that are being executed, innermost first
  trace,   \* what has been evaluated
  fuel,    \* iterations that may still begin
  result   \* what func.return gives back

vars == <<body, frames, trace, fuel, result>>

Running == -1   \* no result yet
Default == 0    \* no return was executed

Item(n)      == [node |-> n, entered |-> FALSE]
Entered(n)   == [node |-> n, entered |-> TRUE]
Items(nodes) == [i \in DOMAIN nodes |-> Item(nodes[i])]
Kids(n)      == body[n].kids
Event(n, choice) == [node |-> n, choice |-> choice]
Branch(n, taken) ==
  IF taken THEN <<Item(Kids(n)[1])>> ELSE Items(Tail(Kids(n)))

(* Seeded fault: an else branch is not looked at. *)
MayReturnThenOnly(n) ==
  LET may[m \in DOMAIN body] ==
        CASE body[m].kind = "return" -> TRUE
          [] body[m].kind = "block" -> \E i \in DOMAIN Kids(m) : may[Kids(m)[i]]
          [] body[m].kind = "if" -> may[Kids(m)[1]]
          [] OTHER -> FALSE
  IN may[n]

(* stmtMayReturn, from what it says of substatements: loops are not looked   *)
(* into.                                                                   *)
MayGiven(may, n) ==
  CASE body[n].kind = "return" -> TRUE
    [] body[n].kind \in {"block", "if"} -> \E i \in DOMAIN Kids(n) : may[Kids(n)[i]]
    [] OTHER -> FALSE

MayReturn(n) ==
  LET may[m \in DOMAIN body] == MayGiven(may, m)
  IN may[n]

(* A region that starts with no state: ReturnState{}.                      *)
Region(todo, yields) ==
  [todo |-> todo, flag |-> "absent", value |-> Default, yields |-> yields]

Init ==
  /\ body \in Bodies
  /\ frames = <<Region(<<Item(1)>>, FALSE)>>
  /\ trace = <<>>
  /\ fuel = MaxIterations
  /\ result = Running

-------------------------------------------------------------------------------

Top   == Head(frames)
Below == Tail(frames)
Stmt  == Head(Top.todo)
Rest  == [Top EXCEPT !.todo = Tail(@)]   \* the region after its next statement

Executing == frames # <<>> /\ result = Running /\ Top.todo # <<>>

(* The next statement is generated without a guard.                        *)
At(kind) == Executing /\ Top.flag = "absent" /\ body[Stmt.node].kind = kind

Evaluate(choice) == trace' = Append(trace, Event(Stmt.node, choice))

Plain ==
  /\ At("plain")
  /\ Evaluate("done")
  /\ frames' = <<Rest>> \o Below
  /\ UNCHANGED <<body, fuel, result>>

(* A block hands its state on from statement to statement. *)
Block ==
  /\ At("block")
  /\ frames' = <<[Top EXCEPT !.todo = Items(Kids(Stmt.node)) \o Tail(@)]>> \o Below
  /\ UNCHANGED <<body, trace, fuel, result>>

If ==
  /\ At("if")
  /\ \E taken \in BOOLEAN :
       /\ Evaluate(IF taken THEN "true" ELSE "false")
       /\ frames' = <<Region(Branch(Stmt.node, taken), MayReturn(Stmt.node)), Rest>> \o Below
  /\ UNCHANGED <<body, fuel, result>>

While ==
  /\ At("while")
  /\ \/ /\ fuel > 0
        /\ Evaluate("true")
        /\ frames' = <<Region(<<Item(Kids(Stmt.node)[1])>>, FALSE)>> \o frames
        /\ fuel' = fuel - 1
     \/ /\ Evaluate("false")
        /\ frames' = <<Rest>> \o Below
        /\ UNCHANGED fuel
  /\ UNCHANGED <<body, result>>

ForBounds ==
  /\ At("for")
  /\ ~Stmt.entered
  /\ Evaluate("bounds")
  /\ frames' = <<[Top EXCEPT !.todo = <<Entered(Stmt.node)>> \o Tail(@)]>> \o Below
  /\ UNCHANGED <<body, fuel, result>>

For ==
  /\ At("for")
  /\ Stmt.entered
  /\ \/ /\ fuel > 0
        /\ frames' = <<Region(<<Item(Kids(Stmt.node)[1])>>, FALSE)>> \o frames
        /\ fuel' = fuel - 1
     \/ /\ frames' = <<Rest>> \o Below
        /\ UNCHANGED fuel
  /\ UNCHANGED <<body, trace, result>>

Return ==
  /\ At("return")
  /\ Evaluate("done")
  /\ frames' = <<[Rest EXCEPT !.flag = "yes", !.value = Stmt.node]>> \o Below
  /\ UNCHANGED <<body, fuel, result>>

(* The scf.if around a statement that follows one that may have returned: a *)
(* region when it has not, and the same state when it has.                 *)
Guard ==
  /\ Executing
  /\ Top.flag # "absent"
  /\ frames' = IF Top.flag = "no"
               THEN <<Region(<<Stmt>>, MayReturn(Stmt.node)), Rest>> \o Below
               ELSE <<Rest>> \o Below
  /\ UNCHANGED <<body, trace, fuel, result>>

(* Seeded fault: the value is not yielded with the flag. *)
MergedFlagOnly(inner, outer) ==
  [outer EXCEPT !.flag = IF inner.flag = "absent" THEN "no" ELSE inner.flag]

(* State of a region after the scf.if that `inner` belongs to.             *)
Merged(inner, outer) ==
  [outer EXCEPT !.flag = IF inner.flag = "absent" THEN "no" ELSE inner.flag,
                !.value = inner.value]

(* The end of a region. *)
Yield ==
  /\ Len(frames) > 1
  /\ Top.todo = <<>>
  /\ LET outer == Head(Below)
     IN frames' = <<IF Top.yields THEN Merged(Top, outer) ELSE outer>> \o Tail(Below)
  /\ UNCHANGED <<body, trace, fuel, result>>

(* The one func.return, at the end of the body.  A function with a result in *)
(* which no flag reaches this point does not pass the module's verification, *)
(* so a body that gets here without a flag is that of a unit function.      *)
FuncReturn ==
  /\ Len(frames) = 1
  /\ Top.todo = <<>>
  /\ frames' = <<>>
  /\ result' = Top.value
  /\ UNCHANGED <<body, trace, fuel>>

Next ==
  \/ Plain \/ Block \/ If \/ While \/ ForBounds \/ For \/ Return
  \/ Guard \/ Yield \/ FuncReturn

Spec == Init /\ [][Next]_vars

-------------------------------------------------------------------------------
(* Properties                                                              *)

TypeOK ==
  /\ body \in Bodies
  /\ \A i \in DOMAIN frames :
       /\ \A j \in DOMAIN frames[i].todo : frames[i].todo[j].node \in DOMAIN body
       /\ frames[i].flag \in {"absent", "no", "yes"}
       /\ frames[i].value \in DOMAIN body \cup {Default}
       /\ (frames[i].flag = "yes") = (frames[i].value # Default)
  /\ fuel \in 0 .. MaxIterations
  /\ result \in DOMAIN body \cup {Running, Default}

(* The regions that know of a return. *)
Returned == {i \in DOMAIN frames : frames[i].flag = "yes"}

Todos == [i \in DOMAIN frames |-> frames[i].todo]

(* What the body still has to execute, and what it gives back. *)
Control == IF Returned # {} THEN <<>> ELSE FlattenSeq(Todos)

Given ==
  IF Returned # {} /\ result = Running
  THEN frames[CHOOSE i \in Returned : \A j \in Returned : i <= j].value
  ELSE result

(* The lowered code does what the body says: the same conditions and        *)
(* statements are evaluated in the same order, nothing is after a return,  *)
(* and the function gives back what that return gave.                      *)
Source == INSTANCE FunctionBody WITH control <- Control, result <- Given

ImplementsSource == Source!Spec

(* The statements that no return is in: those of a set that has no return   *)
(* and the substatements of all its statements.                            *)
WithoutReturn(b, S) ==
  \A n \in S : b[n].kind # "return" /\ \A i \in DOMAIN b[n].kids : b[n].kids[i] \in S

Quiet(b) == {n \in DOMAIN b : \E S \in SUBSET DOMAIN b : n \in S /\ WithoutReturn(b, S)}

(* What the lowering relies on: stmtMayReturn does not look into loops. *)
ReturnsOutsideLoops(b) ==
  \A n \in DOMAIN b : b[n].kind \in {"while", "for"} =>
                       \A i \in DOMAIN b[n].kids : b[n].kids[i] \in Quiet(b)

(* "Once a nested region may have returned, execute the following statement *)
(* only on the path where that return did not happen" (MLIRGen.cpp:306):   *)
(* nothing is evaluated after a return.                                    *)
ReturnEndsBody ==
  \A i \in DOMAIN trace : body[trace[i].node].kind = "return" => i = Len(trace)
===============================================================================
