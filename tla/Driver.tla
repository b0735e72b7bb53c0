--------------------------------- MODULE Driver ---------------------------------
(***************************************************************************)
(* trsc from its command line to its exit code: parseCommandLine, and main *)
(* with its gates, the product that each run writes and the temporary      *)
(* object file on the way to an executable.                                *)
(*                                                                         *)
(* What a phase finds is a choice here; Compiler says what the pass        *)
(* pipeline does.                                                          *)
(***************************************************************************)
EXTENDS Integers, Sequences

CONSTANTS
  CommandLines,  \* sequences of arguments, argv[0] left out
  Stem(_)        \* a file name without its directories and its extension

ASSUME CommandLinesAssumption == CommandLines \subseteq Seq(STRING)

VARIABLES
  args,     \* the arguments
  at,       \* index of the next one
  options,  \* CompilerOptions
  phase,    \* what main does next
  exit,     \* exit code
  written,  \* <<place, product>>: what has been written where
  temp,     \* the temporary object file exists
  errors    \* what was reported at the end

driverVars == <<args, at, options, phase, exit, written, temp, errors>>

Running == -1

AskFor ==
  [a \in {"-dump-token", "-dump-ast", "-dump-symbol", "-dump-symboltable",
          "-dump-typedast", "-emit-mlir", "-emit-llvm", "-emit-obj"} |->
     CASE a = "-dump-token" -> "tokens"
       [] a = "-dump-ast" -> "ast"
       [] a = "-dump-symbol" -> "symbols"
       [] a = "-dump-symboltable" -> "symboltable"
       [] a = "-dump-typedast" -> "typedast"
       [] a = "-emit-mlir" -> "mlir"
       [] a = "-emit-llvm" -> "llvm"
       [] a = "-emit-obj" -> "object"]

Optim ==
  [a \in {"-optim=raw", "-optim=rawcln", "-optim=loop", "-optim=finopt", "-optim=stdlowering"} |->
     CASE a = "-optim=raw" -> "raw"
       [] a = "-optim=rawcln" -> "rawcln"
       [] a = "-optim=loop" -> "loop"
       [] a = "-optim=finopt" -> "finopt"
       [] a = "-optim=stdlowering" -> "stdlowering"]

\* Integers that arguments of --matmul-opt-level= are read as.
Levels ==
  [a \in {"--matmul-opt-level=0", "--matmul-opt-level=1", "--matmul-opt-level=6",
          "--matmul-opt-level=9"} |->
     CASE a = "--matmul-opt-level=0" -> 0
       [] a = "--matmul-opt-level=1" -> 1
       [] a = "--matmul-opt-level=6" -> 6
       [] a = "--matmul-opt-level=9" -> 9]

Devices ==
  [a \in {"--device=auto", "--device=cpu", "--device=cuda"} |->
     CASE a = "--device=auto" -> "auto"
       [] a = "--device=cpu" -> "cpu"
       [] a = "--device=cuda" -> "cuda"]

Informs == {"-h", "--help", "--version"}
Silent  == {"-v", "--verbose", "--cuda-arch=sm_80"}

\* Arguments with a dash that are not accepted: unknown ones, and known
\* ones with a value that is not.
Rejected ==
  {"-x", "-optim=", "-optim=all", "--matmul-opt-level=", "--matmul-opt-level=high",
   "--device=rocm", "--cuda-arch=sm_70", "--cuda-arch=native"}

Options == DOMAIN AskFor \cup DOMAIN Optim \cup DOMAIN Levels \cup DOMAIN Devices
             \cup Informs \cup Silent \cup Rejected \cup {"-o"}

CompilerOptions ==
  [input : STRING \cup {""}, output : STRING \cup {""},  \* "" for none
   asked : SUBSET {AskFor[a] : a \in DOMAIN AskFor}, informs : SUBSET Informs,
   level : {0, 1, 6, 9}, device : {"auto", "cpu", "cuda"},
   stage : {"raw", "rawcln", "loop", "finopt", "stdlowering"}]

Defaults ==
  [input |-> "", output |-> "", asked |-> {}, informs |-> {}, level |-> 6,
   device |-> "auto", stage |-> "finopt"]

Init ==
  /\ args \in CommandLines
  /\ at = 1
  /\ options = Defaults
  /\ phase = "args"
  /\ exit = Running
  /\ written = {}
  /\ temp = FALSE
  /\ errors = {}

-------------------------------------------------------------------------------
(* parseCommandLine                                                        *)

(* Seeded fault: a return is missing. *)
ExitLater(code, why) ==
  /\ exit' = code
  /\ errors' = errors \cup why
  /\ UNCHANGED phase

Exit(code, why) ==
  /\ exit' = code
  /\ phase' = "done"
  /\ errors' = errors \cup why

Fail(why) == Exit(1, {why}) /\ UNCHANGED <<written, temp>>

Advance == at' = at + 1 /\ UNCHANGED <<phase, exit, errors>>
ParsingArg == phase = "args" /\ at <= Len(args)
Arg == args[at]

ParseOption ==
  /\ ParsingArg
  /\ \/ /\ Arg \in DOMAIN AskFor
        /\ options' = [options EXCEPT !.asked = @ \cup {AskFor[Arg]}]
     \/ /\ Arg \in DOMAIN Optim
        /\ options' = [options EXCEPT !.stage = Optim[Arg]]
     \/ /\ Arg \in DOMAIN Levels
        /\ options' = [options EXCEPT !.level = Levels[Arg]]
     \/ /\ Arg \in DOMAIN Devices
        /\ options' = [options EXCEPT !.device = Devices[Arg]]
     \/ /\ Arg \in Informs
        /\ options' = [options EXCEPT !.informs = @ \cup {Arg}]
     \/ Arg \in Silent /\ UNCHANGED options
  /\ Advance
  /\ UNCHANGED <<args, written, temp>>

(* Seeded fault: the file name is read again as an argument. *)
ParseOutputInPlace ==
  /\ ParsingArg
  /\ Arg = "-o"
  /\ IF at < Len(args)
     THEN /\ options' = [options EXCEPT !.output = args[at + 1]]
          /\ at' = at + 1
          /\ UNCHANGED <<phase, exit, errors, written, temp>>
     ELSE Fail("no file name") /\ UNCHANGED <<at, options>>
  /\ UNCHANGED args

(* Seeded fault: an -o at the end is passed over, and stays the next. *)
ParseOutputAgain ==
  /\ ParsingArg
  /\ Arg = "-o"
  /\ at < Len(args)
  /\ options' = [options EXCEPT !.output = args[at + 1]]
  /\ at' = at + 2
  /\ UNCHANGED <<args, phase, exit, errors, written, temp>>

(* -o takes the next argument, whatever it is. *)
ParseOutput ==
  /\ ParsingArg
  /\ Arg = "-o"
  /\ IF at < Len(args)
     THEN /\ options' = [options EXCEPT !.output = args[at + 1]]
          /\ at' = at + 2
          /\ UNCHANGED <<phase, exit, errors, written, temp>>
     ELSE Fail("no file name") /\ UNCHANGED <<at, options>>
  /\ UNCHANGED args

ParseInput ==
  /\ ParsingArg
  /\ Arg \notin Options
  /\ IF options.input = ""
     THEN options' = [options EXCEPT !.input = Arg] /\ Advance /\ UNCHANGED <<written, temp>>
     ELSE Fail("two inputs") /\ UNCHANGED <<at, options>>
  /\ UNCHANGED args

RejectOption ==
  /\ ParsingArg
  /\ Arg \in Rejected
  /\ Fail("bad option")
  /\ UNCHANGED <<args, at, options>>

EndOfArgs ==
  /\ phase = "args"
  /\ at > Len(args)
  /\ \/ options.informs # {} /\ Exit(0, {}) /\ UNCHANGED <<written, temp>>
     \/ options.informs = {} /\ options.input = "" /\ Fail("no input")
     \/ /\ options.informs = {} /\ options.input # ""
        /\ phase' = "load"
        /\ UNCHANGED <<exit, errors, written, temp>>
  /\ UNCHANGED <<args, at, options>>

-------------------------------------------------------------------------------
(* The gates of main                                                       *)

Asked(kind) == kind \in options.asked
Go(next) == phase' = next /\ UNCHANGED <<exit, errors, written, temp>>

\* To the file of -o when there is one that can be opened.
Emit(kind) ==
  /\ UNCHANGED temp
  /\ \/ options.output = "" /\ written' = written \cup {<<"stdout", kind>>} /\ Exit(0, {})
     \/ options.output # "" /\ written' = written \cup {<<options.output, kind>>} /\ Exit(0, {})
     \/ options.output # "" /\ UNCHANGED written /\ Exit(1, {"cannot open"})

InPhase(now) == phase = now /\ UNCHANGED <<args, at, options>>

LoadFile ==
  /\ InPhase("load")
  /\ Go("lex") \/ Fail("cannot load")

\* Tokens are printed as they come, and on the standard output.
Lex ==
  /\ InPhase("lex")
  /\ written' = IF Asked("tokens") THEN {<<"stdout", "tokens">>} ELSE written
  /\ UNCHANGED temp
  /\ \/ Exit(1, {"lexing"})
     \/ Asked("tokens") /\ Exit(0, {})
     \/ ~Asked("tokens") /\ phase' = "parse" /\ UNCHANGED <<exit, errors>>

Parse ==
  /\ InPhase("parse")
  /\ \/ Fail("parsing")
     \/ Asked("ast") /\ Emit("ast")
     \/ ~Asked("ast") /\ Go("sema")

Analyze ==
  /\ InPhase("sema")
  /\ \/ Fail("analysis")
     \/ Asked("symbols") /\ Emit("symbols")
     \/ ~Asked("symbols") /\ Asked("symboltable") /\ Emit("symboltable")
     \/ ~Asked("symbols") /\ ~Asked("symboltable") /\ Asked("typedast") /\ Emit("typedast")
     \/ options.asked \cap {"symbols", "symboltable", "typedast"} = {} /\ Go("mlirgen")

GenModule ==
  /\ InPhase("mlirgen")
  /\ Go("passes") \/ Fail("generation")

FailPasses == InPhase("passes") /\ Fail("passes")

FinishPasses ==
  /\ InPhase("passes")
  /\ IF Asked("mlir") THEN Emit("mlir") ELSE Go("translate")

Translate ==
  /\ InPhase("translate")
  /\ \/ Fail("translation")
     \/ Asked("llvm") /\ Emit("llvm")
     \/ ~Asked("llvm") /\ Go("target")

LookupTarget ==
  /\ InPhase("target")
  /\ Fail("no target") \/ Go(IF Asked("object") THEN "object" ELSE "temp")

CreateTemporary ==
  /\ InPhase("temp")
  /\ \/ Fail("no temporary")
     \/ temp' = TRUE /\ phase' = "object" /\ UNCHANGED <<exit, errors, written>>

ObjectFile == IF options.output = "" THEN Stem(options.input) \o ".o" ELSE options.output

\* The file is opened before the target is asked whether it can emit objects.
WriteObject ==
  /\ InPhase("object")
  /\ \/ Fail("cannot open object")
     \/ /\ Exit(1, {"cannot emit object"})
        /\ written' = IF Asked("object") THEN {<<ObjectFile, "nothing">>} ELSE written
        /\ UNCHANGED temp
     \/ /\ Asked("object")
        /\ written' = {<<ObjectFile, "object">>}
        /\ Exit(0, {})
        /\ UNCHANGED temp
     \/ ~Asked("object") /\ Go("link")

\* Its failure is a warning.
RemoveTemporary(why) ==
  \/ temp' = FALSE /\ errors' = errors \cup why
  \/ UNCHANGED temp /\ errors' = errors \cup why \cup {"cannot remove"}

(* Seeded fault: only a link that was tried removes its input. *)
FailLinkEarly ==
  /\ InPhase("link")
  /\ Fail("no linker") \/ Fail("no CUDA runtime") \/ Fail("no print runtime")

(* No C compiler driver, a runtime archive that is not found, or a link     *)
(* that fails.                                                             *)
FailLink ==
  /\ InPhase("link")
  /\ \E why \in {"no linker", "no CUDA runtime", "no print runtime", "linking"} :
       RemoveTemporary({why})
  /\ exit' = 1
  /\ phase' = "done"
  /\ UNCHANGED written

Executable == IF options.output = "" THEN "a.out" ELSE options.output

Link ==
  /\ InPhase("link")
  /\ written' = {<<Executable, "executable">>}
  /\ RemoveTemporary({})
  /\ exit' = 0
  /\ phase' = "done"

ReadArgs == ParseOption \/ ParseOutput \/ ParseInput \/ RejectOption \/ EndOfArgs
FrontGates == LoadFile \/ Lex \/ Parse \/ Analyze \/ GenModule
BackGates == Translate \/ LookupTarget \/ CreateTemporary \/ WriteObject \/ FailLink \/ Link

DriverNext == ReadArgs \/ FrontGates \/ FailPasses \/ FinishPasses \/ BackGates

DriverSpec == Init /\ [][DriverNext]_driverVars

(* How far the passes go, from which only -emit-mlir can keep them.        *)
Stage == IF Asked("mlir") THEN options.stage ELSE "stdlowering"

-------------------------------------------------------------------------------
(* Properties                                                              *)

(* Every variable keeps its type, and an exit code ends the run. *)
TypeOK ==
  /\ args \in CommandLines
  /\ at \in Nat \ {0}
  /\ options \in CompilerOptions
  /\ phase \in {"opt", "args", "load", "lex", "parse", "sema", "mlirgen", "passes",
                "translate", "target", "temp", "object", "link", "done"}
  /\ exit \in {Running, 0, 1}
  /\ phase = "done" <=> exit # Running
  /\ temp \in BOOLEAN

(* What the command line asks for, as README.md:118 describes it.  An       *)
(* argument after an -o that is read is a file name; the last of several   *)
(* values counts, and of several products the one of the earliest phase.   *)
Readings ==  \* positions that are read; there is one such set
  {read \in SUBSET (1 .. Len(args)) : \A i \in 1 .. Len(args) :
     i \in read <=> ~(i - 1 \in read /\ args[i - 1] = "-o")}

LastOf(S) == CHOOSE i \in S : \A j \in S : j <= i
OutputFile(read) ==
  LET given == {i \in read : args[i] = "-o"}
  IN IF given = {} THEN "" ELSE args[LastOf(given) + 1]
InputFile(read) ==
  LET given == {i \in read : args[i] \notin Options \cup {""}}
  IN IF given = {} THEN "" ELSE args[LastOf(given)]

ByPhase == <<"tokens", "ast", "symbols", "symboltable", "typedast", "mlir", "llvm", "object">>
Named(read) == {AskFor[args[i]] : i \in {j \in read : args[j] \in DOMAIN AskFor}}
Earliest(asked) ==
  IF asked = {} THEN "executable"
  ELSE LET positions == {i \in DOMAIN ByPhase : ByPhase[i] \in asked}
       IN ByPhase[CHOOSE i \in positions : \A j \in positions : i <= j]
Wanted(read) == Earliest(Named(read))

Place(kind, output, input) ==
  CASE kind = "tokens" -> "stdout"   \* and not the file: main.cpp:113
    [] kind # "tokens" /\ output # "" -> output
    [] kind = "executable" /\ output = "" -> "a.out"
    [] kind = "object" /\ output = "" -> Stem(input) \o ".o"
    [] OTHER -> "stdout"

Informed(read) == \E i \in read : args[i] \in Informs

(* The exit code tells what there is: after 0 the product that the command *)
(* line asks for, whole, where it asks for it, and nothing else.  After a   *)
(* 1 there is nothing but tokens that were printed on the way and an object *)
(* file that was opened in vain.                                           *)
ProductOf(read) ==
  IF Informed(read) THEN {}
  ELSE {<<Place(Wanted(read), OutputFile(read), InputFile(read)), Wanted(read)>>}

ExitTellsProduct ==
  /\ exit = 0 => \A read \in Readings : written = ProductOf(read)
  /\ exit = 1 => \/ written \subseteq {<<"stdout", "tokens">>}
                 \/ /\ "cannot emit object" \in errors
                    /\ written = {<<ObjectFile, "nothing">>}

(* The temporary object file is gone when the compiler ends, unless it      *)
(* could not be removed, or opened, or the target emits no objects         *)
(* (main.cpp:401 and 407 return with the file in place).                   *)
NoTempLeft ==
  exit # Running /\ temp =>
    errors \cap {"cannot remove", "cannot open object", "cannot emit object"} # {}
===============================================================================
