----------------------------- MODULE GemmSemantics -----------------------------
(***************************************************************************)
(* What a program may observe of its matrix multiplications, whatever the  *)
(* device they run on: C accumulates each product exactly once, in program *)
(* order, and the process either finishes all of them or, where CUDA is    *)
(* required, stops with a failure at one of them.                          *)
(***************************************************************************)
EXTENDS Naturals

CONSTANT NumGemms

VARIABLES
  required, \* is CUDA required, so that the process may stop early?
  c,        \* number of products that the program sees accumulated in C
  status    \* "running", "exited" or "aborted"

Init == required \in BOOLEAN /\ c = 0 /\ status = "running"

Gemm ==
  /\ status = "running"
  /\ c < NumGemms
  /\ c' = c + 1
  /\ UNCHANGED <<required, status>>

Exit ==
  /\ status = "running"
  /\ c = NumGemms
  /\ status' = "exited"
  /\ UNCHANGED <<required, c>>

Abort ==
  /\ required
  /\ status = "running"
  /\ c < NumGemms
  /\ status' = "aborted"
  /\ UNCHANGED <<required, c>>

Next == Gemm \/ Exit \/ Abort

vars == <<required, c, status>>

Spec == Init /\ [][Next]_vars

FairSpec == Spec /\ WF_vars(Next)
===============================================================================
