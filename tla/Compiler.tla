-------------------------------- MODULE Compiler --------------------------------
(***************************************************************************)
(* The driver with its pass pipeline: the stage and the options that the   *)
(* command line gives decide which passes run on the function that the     *)
(* input stands for, a pass leaves code that the verifier accepts or the   *)
(* pipeline fails, and the driver goes on with what the last pass left.    *)
(*                                                                         *)
(* trsc-opt runs passes that its command line names, and no driver.        *)
(***************************************************************************)
EXTENDS Driver, LoopPasses

CONSTANTS
  Compilations,  \* <<arguments, function>>: runs of trsc
  Optimizations  \* <<passes, function>>: runs of trsc-opt

ASSUME CompilationsAssumption == \A c \in Compilations : c[1] \in CommandLines

vars == <<args, at, options, phase, exit, written, temp, errors, source, code, todo>>

InitTrsc ==
  /\ \E c \in Compilations : args = c[1] /\ source = c[2]
  /\ Init
  /\ code = source
  /\ todo = <<>>

InitOpt ==
  /\ args = <<>>
  /\ at = 1
  /\ options = Defaults
  /\ phase = "opt"
  /\ exit = Running
  /\ written = {}
  /\ temp = FALSE
  /\ errors = {}
  /\ \E o \in Optimizations : todo = o[1] /\ source = o[2]
  /\ code = source

(* The passes are put together when there is a module to run them on.      *)
Generate ==
  /\ GenModule
  /\ todo' = IF phase' = "passes" THEN Pipeline(Stage, options.level) ELSE <<>>
  /\ UNCHANGED <<source, code>>

RunPass ==
  /\ phase \in {"passes", "opt"}
  /\ PassStep(options.level, options.device)
  /\ UNCHANGED driverVars

(* The verifier refuses what a pass left, or a conversion of MLIR's own     *)
(* lowering pipeline fails.                                                *)
AbortPasses ==
  /\ FailPasses
  /\ ~IsScoped(code) \/ Stage = "stdlowering"
  /\ UNCHANGED passVars

EndPasses ==
  /\ FinishPasses
  /\ todo = <<>>
  /\ IsScoped(code)
  /\ UNCHANGED passVars

Drive ==
  /\ ReadArgs \/ LoadFile \/ Lex \/ Parse \/ Analyze \/ BackGates
  /\ UNCHANGED passVars

Next == Drive \/ Generate \/ RunPass \/ AbortPasses \/ EndPasses

\* trsc-opt has nothing left to do.
OptEnded == phase = "opt" /\ (todo = <<>> \/ ~IsScoped(code))

(* A phase is a call that returns: of the compiler itself, of MLIR or LLVM, *)
(* or of the linker, which ExecuteAndWait waits for without a limit.       *)
Spec == (InitTrsc \/ InitOpt) /\ [][Next]_vars /\ WF_vars(Next)

-------------------------------------------------------------------------------
(* Properties                                                              *)

(* Every compilation ends, with an exit code: no gate of main is left      *)
(* without a way on, and the passes of every stage and level are run and   *)
(* used up.  That a phase returns is assumed; of the parser, Parser has the *)
(* one loop that does not end.                                             *)
CompilationEnds == <>(exit # Running \/ OptEnded)
===============================================================================
