------------------------------ MODULE DriverProofs ------------------------------
(***************************************************************************)
(* Proofs about Driver, for all command lines.                             *)
(***************************************************************************)
EXTENDS Driver, TLAPS

(***************************************************************************)
(* The inductive invariant.  Gates says what the phase that main has come  *)
(* to implies of the options, Writes what has been written with each exit  *)
(* code, Temporary where the temporary object file can exist; Follows says *)
(* that the options are those of the arguments read so far.                *)
(***************************************************************************)
Passed(p) ==  \* products for which main ends before phase p
  CASE p = "parse" -> {"tokens"}
    [] p = "sema" -> {"tokens", "ast"}
    [] p \in {"mlirgen", "passes"} -> {"tokens", "ast", "symbols", "symboltable", "typedast"}
    [] p = "translate" -> {"tokens", "ast", "symbols", "symboltable", "typedast", "mlir"}
    [] p \in {"target", "object"} ->
         {"tokens", "ast", "symbols", "symboltable", "typedast", "mlir", "llvm"}
    [] p \in {"temp", "link"} ->
         {"tokens", "ast", "symbols", "symboltable", "typedast", "mlir", "llvm", "object"}
    [] OTHER -> {}

Gates ==
  /\ options.asked \cap Passed(phase) = {}
  /\ phase \notin {"args", "done"} => at > Len(args) /\ options.informs = {}
  /\ exit = 0 => at > Len(args)

Asking == Earliest(options.asked)

Writes ==
  /\ exit = Running => written = {}
  /\ exit = 0 => written = IF options.informs # {} THEN {}
                           ELSE {<<Place(Asking, options.output, options.input), Asking>>}
  /\ exit = 1 => \/ written \subseteq {<<"stdout", "tokens">>}
                 \/ /\ "cannot emit object" \in errors
                    /\ written = {<<ObjectFile, "nothing">>}

Temporary ==
  /\ exit = Running /\ temp => phase \in {"object", "link"} /\ "object" \notin options.asked
  /\ NoTempLeft

AsksAt(read)    == {i \in read : i < at /\ args[i] \in DOMAIN AskFor}
InformsAt(read) == {i \in read : i < at /\ args[i] \in Informs}
OutputAt(read)  == {i \in read : i < at /\ args[i] = "-o"}
InputAt(read)   == {i \in read : i < at /\ args[i] \notin Options \cup {""}}

Follows(read) ==
  /\ phase = "args" /\ at <= Len(args) => at \in read
  /\ options.asked = {AskFor[args[i]] : i \in AsksAt(read)}
  /\ options.informs = {} <=> InformsAt(read) = {}
  /\ options.output = IF OutputAt(read) = {} THEN "" ELSE args[LastOf(OutputAt(read)) + 1]
  /\ options.input = IF InputAt(read) = {} THEN "" ELSE args[LastOf(InputAt(read))]

IInv == TypeOK /\ Gates /\ Writes /\ Temporary /\ \A read \in Readings : Follows(read)

-------------------------------------------------------------------------------
(* Types                                                                   *)

LEMMA OptionSets ==
  /\ "-o" \in Options
  /\ "-o" \notin DOMAIN AskFor \cup DOMAIN Optim \cup DOMAIN Levels \cup DOMAIN Devices
                   \cup Informs \cup Silent
  /\ DOMAIN AskFor \cap (DOMAIN Optim \cup DOMAIN Levels \cup DOMAIN Devices
                         \cup Informs \cup Silent) = {}
  /\ Informs \cap (DOMAIN Optim \cup DOMAIN Levels \cup DOMAIN Devices \cup Silent) = {}
  /\ DOMAIN AskFor \cup DOMAIN Optim \cup DOMAIN Levels \cup DOMAIN Devices
       \cup Informs \cup Silent \subseteq Options
BY DEF Options, AskFor, Optim, Levels, Devices, Informs, Silent, Rejected

LEMMA OptionValues ==
  /\ \A l \in DOMAIN Levels : Levels[l] \in {0, 1, 6, 9}
  /\ \A d \in DOMAIN Devices : Devices[d] \in {"auto", "cpu", "cuda"}
  /\ \A o \in DOMAIN Optim : Optim[o] \in {"raw", "rawcln", "loop", "finopt", "stdlowering"}
BY DEF Levels, Devices, Optim

LEMMA DefaultsTyped == Defaults \in CompilerOptions
BY DEF Defaults, CompilerOptions

LEMMA ArgIsString ==
  ASSUME args \in CommandLines
  PROVE  Len(args) \in Nat /\ \A i \in 1 .. Len(args) : args[i] \in STRING
BY CommandLinesAssumption

LEMMA TypeInit == Init => TypeOK
<1> SUFFICES ASSUME Init PROVE TypeOK
  OBVIOUS
<1>1. temp \in BOOLEAN
  BY DEF Init
<1>2. phase = "done" <=> exit # Running
  BY DEF Init, Running
<1>3. QED  BY <1>1, <1>2, DefaultsTyped DEF Init, TypeOK, Running

(* The steps of main keep what parseCommandLine has found. *)
Gate == FrontGates \/ FailPasses \/ FinishPasses \/ BackGates

LEMMA GateKeeps ==
  ASSUME Gate
  PROVE  phase \notin {"args", "done", "opt"} /\ UNCHANGED <<args, at, options>>
BY DEF Gate, FrontGates, BackGates, LoadFile, Lex, Parse, Analyze, GenModule, FailPasses,
       FinishPasses, Translate, LookupTarget, CreateTemporary, WriteObject, FailLink, Link, InPhase

USE DEF Running

LEMMA GateType ==
  ASSUME TypeOK, Gate
  PROVE  TypeOK'
<1>1. UNCHANGED <<args, at, options>>
  BY GateKeeps
<1>. DEFINE Ends == phase' = "done" /\ exit' \in {0, 1}
            Goes == /\ phase' \in {"lex", "parse", "sema", "mlirgen", "passes", "translate",
                                   "target", "temp", "object", "link"}
                    /\ UNCHANGED exit
<1>2. phase \notin {"args", "done", "opt"} /\ exit = Running
  BY GateKeeps DEF TypeOK
<1>3. CASE FrontGates
  <2>1. Ends \/ Goes
    BY <1>3 DEF FrontGates, LoadFile, Lex, Parse, Analyze, GenModule, InPhase, Go, Fail, Exit, Emit
  <2>2. UNCHANGED temp
    BY <1>3 DEF FrontGates, LoadFile, Lex, Parse, Analyze, GenModule, InPhase, Go, Fail, Exit, Emit
  <2>3. QED  BY <1>1, <1>2, <2>1, <2>2 DEF TypeOK
<1>4. CASE FailPasses \/ FinishPasses
  <2>1. Ends \/ Goes
    BY <1>4 DEF FailPasses, FinishPasses, InPhase, Go, Fail, Exit, Emit
  <2>2. UNCHANGED temp
    BY <1>4 DEF FailPasses, FinishPasses, InPhase, Go, Fail, Exit, Emit
  <2>3. QED  BY <1>1, <1>2, <2>1, <2>2 DEF TypeOK
<1>5. CASE BackGates
  <2>1. Ends \/ Goes
    BY <1>5 DEF BackGates, Translate, LookupTarget, CreateTemporary, WriteObject, FailLink,
                Link, InPhase, Go, Fail, Exit, Emit
  <2>2. temp' \in BOOLEAN
    <3>1. temp' = temp \/ temp' = TRUE \/ temp' = FALSE
      BY <1>5 DEF BackGates, Translate, LookupTarget, CreateTemporary, WriteObject, FailLink,
                  Link, RemoveTemporary, InPhase, Go, Fail, Exit, Emit
    <3>2. temp \in BOOLEAN
      BY DEF TypeOK
    <3>3. QED  BY <3>1, <3>2, Zenon
  <2>3. QED  BY <1>1, <1>2, <2>1, <2>2 DEF TypeOK
<1>6. QED  BY <1>3, <1>4, <1>5 DEF Gate

LEMMA ArgsType ==
  ASSUME TypeOK, ReadArgs
  PROVE  TypeOK'
<1>0. /\ options \in CompilerOptions /\ at \in Nat \ {0} /\ exit = Running /\ phase = "args"
      /\ Len(args) \in Nat /\ UNCHANGED <<args, temp>>
  <2>1. phase = "args" /\ UNCHANGED <<args, temp>>
    BY DEF ReadArgs, ParseOption, ParseOutput, ParseInput, RejectOption, EndOfArgs, ParsingArg,
           Fail
  <2>2. Len(args) \in Nat
    BY ArgIsString DEF TypeOK
  <2>3. QED  BY <2>1, <2>2 DEF TypeOK
<1>. SUFFICES /\ options' \in CompilerOptions
              /\ at' \in Nat \ {0}
              /\ \/ phase' \in {"args", "load"} /\ exit' = Running
                 \/ phase' = "done" /\ exit' \in {0, 1}
  BY <1>0 DEF TypeOK
<1>1. CASE ParseOption
  <2>1. options' \in CompilerOptions
    <3>1. CASE /\ Arg \in DOMAIN AskFor
               /\ options' = [options EXCEPT !.asked = @ \cup {AskFor[Arg]}]
      BY <1>0, <3>1 DEF CompilerOptions
    <3>2. CASE /\ Arg \in DOMAIN Optim
               /\ options' = [options EXCEPT !.stage = Optim[Arg]]
      BY <1>0, <3>2, OptionValues DEF CompilerOptions
    <3>3. CASE /\ Arg \in DOMAIN Levels
               /\ options' = [options EXCEPT !.level = Levels[Arg]]
      BY <1>0, <3>3, OptionValues DEF CompilerOptions
    <3>4. CASE /\ Arg \in DOMAIN Devices
               /\ options' = [options EXCEPT !.device = Devices[Arg]]
      BY <1>0, <3>4, OptionValues DEF CompilerOptions
    <3>5. CASE /\ Arg \in Informs
               /\ options' = [options EXCEPT !.informs = @ \cup {Arg}]
      BY <1>0, <3>5 DEF CompilerOptions
    <3>6. CASE UNCHANGED options
      BY <1>0, <3>6
    <3>7. QED  BY <1>1, <3>1, <3>2, <3>3, <3>4, <3>5, <3>6 DEF ParseOption
  <2>2. QED  BY <1>0, <1>1, <2>1 DEF ParseOption, Advance
<1>2. CASE ParseOutput
  <2>1. args \in CommandLines
    BY DEF TypeOK
  <2>2. CASE at < Len(args)
    <3>1. args[at + 1] \in STRING
      BY <1>0, <2>1, <2>2, ArgIsString
    <3>2. /\ options' = [options EXCEPT !.output = args[at + 1]]
          /\ at' = at + 2
          /\ UNCHANGED <<phase, exit>>
      BY <1>2, <2>2 DEF ParseOutput
    <3>3. options' \in CompilerOptions
      BY <1>0, <3>1, <3>2 DEF CompilerOptions
    <3>4. QED  BY <1>0, <3>2, <3>3
  <2>3. CASE ~(at < Len(args))
    BY <1>0, <1>2, <2>3 DEF ParseOutput, Fail, Exit
  <2>4. QED  BY <2>2, <2>3
<1>3. CASE ParseInput
  <2>1. Arg \in STRING
    <3>1. ParsingArg /\ args \in CommandLines
      BY <1>3 DEF ParseInput, TypeOK
    <3>2. QED  BY <1>0, <3>1, ArgIsString DEF ParsingArg, Arg
  <2>2. CASE options.input = ""
    <3>1. options' = [options EXCEPT !.input = Arg] /\ Advance
      BY <1>3, <2>2 DEF ParseInput
    <3>2. options' \in CompilerOptions
      BY <1>0, <2>1, <3>1 DEF CompilerOptions
    <3>3. QED  BY <1>0, <3>1, <3>2 DEF Advance
  <2>3. CASE options.input # ""
    BY <1>0, <1>3, <2>3 DEF ParseInput, Fail, Exit
  <2>4. QED  BY <2>2, <2>3
<1>4. CASE RejectOption
  BY <1>0, <1>4 DEF RejectOption, Fail, Exit
<1>5. CASE EndOfArgs
  BY <1>0, <1>5 DEF EndOfArgs, Fail, Exit
<1>6. QED  BY <1>1, <1>2, <1>3, <1>4, <1>5 DEF ReadArgs

LEMMA TypeStep == TypeOK /\ [DriverNext]_driverVars => TypeOK'
<1>1. CASE UNCHANGED driverVars
  BY <1>1 DEF driverVars, TypeOK
<1>2. QED  BY <1>1, GateType, ArgsType DEF DriverNext, Gate

(* Every reachable state of the driver is well typed. *)
THEOREM TypeCorrect == DriverSpec => []TypeOK
BY TypeInit, TypeStep, PTL DEF DriverSpec

-------------------------------------------------------------------------------
(* Gates, what is written and the temporary file                           *)

LEMMA EarliestIs ==
  ASSUME NEW asked, NEW n \in 1 .. 8, ByPhase[n] \in asked,
         \A i \in 1 .. 8 : i < n => ByPhase[i] \notin asked
  PROVE  Earliest(asked) = ByPhase[n]
<1>. DEFINE positions == {i \in DOMAIN ByPhase : ByPhase[i] \in asked}
            First(k) == \A j \in positions : k <= j
<1>1. DOMAIN ByPhase = 1 .. 8
  BY DEF ByPhase
<1>2. n \in positions /\ First(n)
  BY <1>1
<1>3. \A k \in positions : First(k) => k = n
  BY <1>1, <1>2
<1>4. (CHOOSE k \in positions : First(k)) = n
  BY <1>2, <1>3
<1>5. QED  BY <1>4 DEF Earliest

LEMMA Asks ==
  /\ Asked("tokens") => Asking = "tokens"
  /\ \A p \in {"parse", "sema", "mlirgen", "passes", "translate", "target", "object"} :
       options.asked \cap Passed(p) = {} =>
         /\ p = "parse" /\ Asked("ast") => Asking = "ast"
         /\ p = "sema" /\ Asked("symbols") => Asking = "symbols"
         /\ p = "sema" /\ ~Asked("symbols") /\ Asked("symboltable") => Asking = "symboltable"
         /\ p = "sema" /\ ~Asked("symbols") /\ ~Asked("symboltable") /\ Asked("typedast")
              => Asking = "typedast"
         /\ p = "passes" /\ Asked("mlir") => Asking = "mlir"
         /\ p = "translate" /\ Asked("llvm") => Asking = "llvm"
         /\ p = "object" /\ Asked("object") => Asking = "object"
<1>1. /\ ByPhase[1] = "tokens" /\ ByPhase[2] = "ast" /\ ByPhase[3] = "symbols"
      /\ ByPhase[4] = "symboltable" /\ ByPhase[5] = "typedast" /\ ByPhase[6] = "mlir"
      /\ ByPhase[7] = "llvm" /\ ByPhase[8] = "object"
  BY DEF ByPhase
<1>. DEFINE Unasked(n) == \A i \in 1 .. 8 : i < n => ByPhase[i] \notin options.asked
<1>2. \A n \in 1 .. 8 : Asked(ByPhase[n]) /\ Unasked(n) => Asking = ByPhase[n]
  BY EarliestIs DEF Asking, Asked
<1>3. Unasked(1)
  OBVIOUS
<1>4. options.asked \cap Passed("parse") = {} => Unasked(2)
  BY <1>1 DEF Passed
<1>5. options.asked \cap Passed("sema") = {} =>
        /\ Unasked(3)
        /\ ~Asked("symbols") => Unasked(4)
        /\ ~Asked("symbols") /\ ~Asked("symboltable") => Unasked(5)
  BY <1>1 DEF Passed, Asked
<1>6. options.asked \cap Passed("passes") = {} => Unasked(6)
  BY <1>1 DEF Passed
<1>7. options.asked \cap Passed("translate") = {} => Unasked(7)
  BY <1>1 DEF Passed
<1>8. options.asked \cap Passed("object") = {} => Unasked(8)
  BY <1>1 DEF Passed
<1>. HIDE DEF Unasked
<1>9. QED  BY <1>1, <1>2, <1>3, <1>4, <1>5, <1>6, <1>7, <1>8

LEMMA AsksNothing ==
  ASSUME TypeOK, options.asked \cap Passed("link") = {}
  PROVE  Asking = "executable"
<1>1. \A a \in DOMAIN AskFor : AskFor[a] \in Passed("link")
  BY DEF AskFor, Passed
<1>2. options.asked \subseteq {AskFor[a] : a \in DOMAIN AskFor}
  BY DEF TypeOK, CompilerOptions
<1>3. options.asked = {}
  BY <1>1, <1>2
<1>4. QED  BY <1>3 DEF Asking, Earliest

(* What a step of main does to phase, exit code and what is written.       *)
Moves   == exit' = Running /\ UNCHANGED written
Stops   == exit' = 1 /\ phase' = "done" /\ written' \subseteq {<<"stdout", "tokens">>}
Spoils  == /\ exit' = 1 /\ phase' = "done"
           /\ "cannot emit object" \in errors'
           /\ written' = {<<ObjectFile, "nothing">>}
Product == <<Place(Asking, options.output, options.input), Asking>>
Gives   == exit' = 0 /\ phase' = "done" /\ written' = {Product}

Outcomes ==
  \/ Moves /\ options.asked \cap Passed(phase') = {} /\ phase' \notin {"args", "done"}
  \/ Stops \/ Spoils \/ Gives

LEMMA EmitGives ==
  ASSUME NEW kind \in {"ast", "symbols", "symboltable", "typedast", "mlir", "llvm"},
         Asking = kind, written = {}, Emit(kind)
  PROVE  (Stops \/ Gives) /\ UNCHANGED temp
<1>1. CASE options.output = "" /\ written' = {<<"stdout", kind>>} /\ Exit(0, {})
  <2>1. Place(kind, options.output, options.input) = "stdout"
    BY <1>1 DEF Place
  <2>2. QED  BY <1>1, <2>1 DEF Emit, Gives, Product, Exit
<1>2. CASE options.output # "" /\ written' = {<<options.output, kind>>} /\ Exit(0, {})
  <2>1. Place(kind, options.output, options.input) = options.output
    BY <1>2 DEF Place
  <2>2. QED  BY <1>2, <2>1 DEF Emit, Gives, Product, Exit
<1>3. CASE UNCHANGED written /\ Exit(1, {"cannot open"})
  BY <1>3 DEF Emit, Stops, Exit
<1>4. QED  BY <1>1, <1>2, <1>3 DEF Emit

LEMMA FrontOutcomes ==
  ASSUME written = {}, exit = Running, options.asked \cap Passed(phase) = {},
         FrontGates \/ FailPasses \/ FinishPasses
  PROVE  Outcomes /\ UNCHANGED temp
<1>. USE DEF InPhase
<1>1. \A why : Fail(why) => Stops /\ UNCHANGED temp
  BY DEF Fail, Exit, Stops
<1>2. \A p : Go(p) => Moves /\ phase' = p /\ UNCHANGED temp
  BY DEF Go, Moves
<1>3. CASE LoadFile
  <2>1. Passed("lex") = {}
    BY DEF Passed
  <2>2. CASE Go("lex")
    BY <1>2, <2>1, <2>2 DEF Outcomes
  <2>3. QED  BY <1>1, <1>3, <2>2 DEF LoadFile, Outcomes
<1>4. CASE Lex
  <2>1. CASE Exit(1, {"lexing"})
    BY <1>4, <2>1 DEF Lex, Exit, Outcomes, Stops
  <2>2. CASE Asked("tokens") /\ Exit(0, {})
    <3>1. Asking = "tokens"
      BY <2>2, Asks
    <3>2. Product = <<"stdout", "tokens">>
      BY <3>1 DEF Product, Place
    <3>3. QED  BY <1>4, <2>2, <3>2 DEF Lex, Exit, Outcomes, Gives
  <2>3. CASE ~Asked("tokens") /\ phase' = "parse" /\ UNCHANGED exit
    BY <1>4, <2>3 DEF Lex, Outcomes, Moves, Passed, Asked
  <2>4. UNCHANGED temp
    BY <1>4 DEF Lex
  <2>5. QED  BY <1>4, <2>1, <2>2, <2>3, <2>4 DEF Lex
<1>5. CASE Parse
  <2>1. CASE Asked("ast") /\ Emit("ast")
    <3>1. Asking = "ast"
      BY <1>5, <2>1, Asks DEF Parse
    <3>2. QED  BY <2>1, <3>1, EmitGives DEF Outcomes
  <2>2. CASE ~Asked("ast") /\ Go("sema")
    <3>1. options.asked \cap Passed("sema") = {}
      BY <1>5, <2>2 DEF Parse, Passed, Asked
    <3>2. QED  BY <1>2, <2>2, <3>1 DEF Outcomes
  <2>3. QED  BY <1>1, <1>5, <2>1, <2>2 DEF Parse, Outcomes
<1>6. CASE Analyze
  <2>1. ASSUME NEW kind \in {"symbols", "symboltable", "typedast"}, Emit(kind), Asking = kind
        PROVE  Outcomes /\ UNCHANGED temp
    BY <2>1, EmitGives DEF Outcomes
  <2>2. CASE Asked("symbols") /\ Emit("symbols")
    <3>1. Asking = "symbols"
      BY <1>6, <2>2, Asks DEF Analyze
    <3>2. QED  BY <2>1, <2>2, <3>1
  <2>3. CASE ~Asked("symbols") /\ Asked("symboltable") /\ Emit("symboltable")
    <3>1. Asking = "symboltable"
      BY <1>6, <2>3, Asks DEF Analyze
    <3>2. QED  BY <2>1, <2>3, <3>1
  <2>4. CASE ~Asked("symbols") /\ ~Asked("symboltable") /\ Asked("typedast") /\ Emit("typedast")
    <3>1. Asking = "typedast"
      BY <1>6, <2>4, Asks DEF Analyze
    <3>2. QED  BY <2>1, <2>4, <3>1
  <2>5. CASE options.asked \cap {"symbols", "symboltable", "typedast"} = {} /\ Go("mlirgen")
    <3>1. options.asked \cap Passed("mlirgen") = {}
      BY <1>6, <2>5 DEF Analyze, Passed
    <3>2. QED  BY <1>2, <2>5, <3>1 DEF Outcomes
  <2>6. QED  BY <1>1, <1>6, <2>2, <2>3, <2>4, <2>5 DEF Analyze, Outcomes
<1>7. CASE GenModule
  <2>1. options.asked \cap Passed("passes") = {}
    BY <1>7 DEF GenModule, Passed
  <2>2. CASE Go("passes")
    BY <1>2, <2>1, <2>2 DEF Outcomes
  <2>3. QED  BY <1>1, <1>7, <2>2 DEF GenModule, Outcomes
<1>8. CASE FailPasses
  BY <1>1, <1>8 DEF FailPasses, Outcomes
<1>9. CASE FinishPasses
  <2>1. CASE Asked("mlir") /\ Emit("mlir")
    <3>1. Asking = "mlir"
      BY <1>9, <2>1, Asks DEF FinishPasses
    <3>2. QED  BY <2>1, <3>1, EmitGives DEF Outcomes
  <2>2. CASE ~Asked("mlir") /\ Go("translate")
    <3>1. options.asked \cap Passed("translate") = {}
      BY <1>9, <2>2 DEF FinishPasses, Passed, Asked
    <3>2. QED  BY <1>2, <2>2, <3>1 DEF Outcomes
  <2>3. QED  BY <1>9, <2>1, <2>2 DEF FinishPasses
<1>10. QED  BY <1>3, <1>4, <1>5, <1>6, <1>7, <1>8, <1>9 DEF FrontGates

(* The two ways to leave the temporary file in order. *)
LEMMA NotRunning == Running # 0 /\ Running # 1
OBVIOUS

LEMMA Removed == ~temp' => Temporary'
BY Zenon DEF Temporary, NoTempLeft

LEMMA Excused ==
  ASSUME exit' = 0 \/ exit' = 1,
         errors' \cap {"cannot remove", "cannot open object", "cannot emit object"} # {}
  PROVE  Temporary'
<1>1. exit' # Running
  BY NotRunning, Zenon
<1>2. QED  BY <1>1, Zenon DEF Temporary, NoTempLeft

LEMMA Removal ==
  ASSUME NEW why, RemoveTemporary(why), temp'
  PROVE  "cannot remove" \in errors'
BY Zenon DEF RemoveTemporary

LEMMA NoneYet ==
  ASSUME Temporary, exit = Running, phase \notin {"object", "link"}
  PROVE  ~temp
BY Zenon DEF Temporary

LEMMA BackOutcomes ==
  ASSUME TypeOK, written = {}, exit = Running, options.asked \cap Passed(phase) = {},
         Temporary, BackGates
  PROVE  Outcomes /\ Temporary'
<1>. USE DEF InPhase
<1>1. \A why : Fail(why) => Stops /\ UNCHANGED temp
  BY DEF Fail, Exit, Stops
<1>2. \A p : Go(p) => Moves /\ phase' = p /\ UNCHANGED <<exit, temp>>
  BY DEF Go, Moves
<1>3. UNCHANGED options
  BY GateKeeps DEF Gate
<1>4. ~temp /\ UNCHANGED temp => Temporary'
  <2>1. ~temp /\ UNCHANGED temp => ~temp'
    OBVIOUS
  <2>2. QED  BY <2>1, Removed
<1>5. CASE Translate
  <2>1. ~temp
    BY <1>5, NoneYet DEF Translate
  <2>2. CASE Asked("llvm") /\ Emit("llvm")
    <3>1. Asking = "llvm"
      BY <1>5, <2>2, Asks DEF Translate
    <3>2. Outcomes /\ UNCHANGED temp
      BY <2>2, <3>1, EmitGives DEF Outcomes
    <3>3. QED  BY <1>4, <2>1, <3>2
  <2>3. CASE ~Asked("llvm") /\ Go("target")
    <3>1. options.asked \cap Passed("target") = {}
      BY <1>5, <2>3 DEF Translate, Passed, Asked
    <3>2. QED  BY <1>2, <1>4, <2>1, <2>3, <3>1 DEF Outcomes
  <2>4. QED  BY <1>1, <1>4, <1>5, <2>1, <2>2, <2>3 DEF Translate, Outcomes
<1>6. CASE LookupTarget
  <2>1. ~temp
    BY <1>6, NoneYet DEF LookupTarget
  <2>2. CASE Asked("object") /\ Go("object")
    <3>1. options.asked \cap Passed("object") = {}
      BY <1>6 DEF LookupTarget, Passed
    <3>2. QED  BY <1>2, <1>4, <2>1, <2>2, <3>1 DEF Outcomes
  <2>3. CASE ~Asked("object") /\ Go("temp")
    <3>1. options.asked \cap Passed("temp") = {}
      BY <1>6, <2>3 DEF LookupTarget, Passed, Asked
    <3>2. QED  BY <1>2, <1>4, <2>1, <2>3, <3>1 DEF Outcomes
  <2>4. CASE Fail("no target")
    BY <1>1, <1>4, <2>1, <2>4 DEF Outcomes
  <2>5. QED  BY <1>6, <2>2, <2>3, <2>4 DEF LookupTarget
<1>7. CASE CreateTemporary
  <2>1. ~temp
    BY <1>7, NoneYet DEF CreateTemporary
  <2>2. CASE Fail("no temporary")
    BY <1>1, <1>4, <2>1, <2>2 DEF Outcomes
  <2>3. CASE phase' = "object" /\ UNCHANGED <<exit, written>>
    <3>1. options.asked \cap Passed("object") = {} /\ "object" \notin options.asked
      BY <1>7 DEF CreateTemporary, Passed
    <3>2. exit' = Running /\ phase' = "object" /\ "object" \notin options'.asked
      BY <1>3, <2>3, <3>1
    <3>3. Temporary'
      BY <3>2, Zenon DEF Temporary, NoTempLeft
    <3>4. QED  BY <2>3, <3>1, <3>3 DEF Outcomes, Moves
  <2>4. QED  BY <1>7, <2>2, <2>3 DEF CreateTemporary
<1>8. CASE WriteObject
  <2>1. CASE Fail("cannot open object")
    <3>1. Temporary'
      <4>1. exit' = 1 /\ "cannot open object" \in errors'
        BY <2>1, Zenon DEF Fail, Exit
      <4>2. QED  BY <4>1, Excused
    <3>2. QED  BY <1>1, <2>1, <3>1 DEF Outcomes
  <2>2. CASE /\ Exit(1, {"cannot emit object"})
             /\ written' = IF Asked("object") THEN {<<ObjectFile, "nothing">>} ELSE written
    <3>1. Temporary'
      <4>1. exit' = 1 /\ "cannot emit object" \in errors'
        BY <2>2, Zenon DEF Exit
      <4>2. QED  BY <4>1, Excused
    <3>2. Stops \/ Spoils
      BY <2>2 DEF Exit, Stops, Spoils
    <3>3. QED  BY <3>1, <3>2 DEF Outcomes
  <2>3. CASE /\ Asked("object") /\ written' = {<<ObjectFile, "object">>} /\ Exit(0, {})
             /\ UNCHANGED temp
    <3>1. Asking = "object"
      BY <1>8, <2>3, Asks DEF WriteObject
    <3>2. Product = <<ObjectFile, "object">>
      BY <3>1 DEF Product, Place, ObjectFile
    <3>3. Gives
      BY <2>3, <3>2 DEF Gives, Exit
    <3>4. ~temp
      BY <1>8, <2>3, Zenon DEF Temporary, Asked, WriteObject
    <3>5. QED  BY <1>4, <2>3, <3>3, <3>4 DEF Outcomes
  <2>4. CASE ~Asked("object") /\ Go("link")
    <3>1. options.asked \cap Passed("link") = {}
      BY <1>8, <2>4 DEF WriteObject, Passed, Asked
    <3>2. Temporary'
      <4>1. exit' = Running /\ phase' = "link" /\ "object" \notin options'.asked
        BY <1>2, <1>3, <2>4 DEF Asked
      <4>2. QED  BY <4>1, Zenon DEF Temporary, NoTempLeft
    <3>3. QED  BY <1>2, <2>4, <3>1, <3>2 DEF Outcomes
  <2>5. QED  BY <1>8, <2>1, <2>2, <2>3, <2>4 DEF WriteObject
<1>9. CASE FailLink
  <2>1. Temporary'
    <3>1. CASE ~temp'
      BY <3>1, Removed
    <3>2. CASE temp'
      <4>1. exit' = 1 /\ \E why : RemoveTemporary(why)
        BY <1>9, Zenon DEF FailLink
      <4>2. "cannot remove" \in errors'
        BY <3>2, <4>1, Removal, Zenon
      <4>3. QED  BY <4>1, <4>2, Excused
    <3>3. QED  BY <3>1, <3>2
  <2>2. QED  BY <1>9, <2>1 DEF FailLink, Outcomes, Stops
<1>10. CASE Link
  <2>1. Asking = "executable"
    BY <1>10, AsksNothing DEF Link
  <2>2. Product = <<Executable, "executable">>
    BY <2>1 DEF Product, Place, Executable
  <2>3. Temporary'
    <3>1. CASE ~temp'
      BY <3>1, Removed
    <3>2. CASE temp'
      <4>1. exit' = 0 /\ \E why : RemoveTemporary(why)
        BY <1>10, Zenon DEF Link
      <4>2. "cannot remove" \in errors'
        BY <3>2, <4>1, Removal, Zenon
      <4>3. QED  BY <4>1, <4>2, Excused
    <3>3. QED  BY <3>1, <3>2
  <2>4. QED  BY <1>10, <2>2, <2>3 DEF Link, Outcomes, Gives
<1>11. QED  BY <1>5, <1>6, <1>7, <1>8, <1>9, <1>10 DEF BackGates

LEMMA GateInvariants ==
  ASSUME TypeOK, Gates, Writes, Temporary, Gate
  PROVE  Gates' /\ Writes' /\ Temporary' /\ phase' # "args"
<1>1. /\ phase \notin {"args", "done"} /\ exit = Running /\ written = {}
      /\ UNCHANGED <<args, at, options>>
  BY GateKeeps DEF TypeOK, Writes
<1>2. at > Len(args) /\ options.informs = {} /\ options.asked \cap Passed(phase) = {}
  BY <1>1 DEF Gates
<1>3. Outcomes /\ Temporary'
  <2>1. CASE BackGates
    BY <1>1, <1>2, <2>1, BackOutcomes
  <2>2. CASE FrontGates \/ FailPasses \/ FinishPasses
    <3>1. Outcomes /\ UNCHANGED temp
      BY <1>1, <1>2, <2>2, FrontOutcomes
    <3>2. ~temp
      BY <1>1, <2>2, NoneYet DEF FrontGates, LoadFile, Lex, Parse, Analyze, GenModule, FailPasses,
                                 FinishPasses, InPhase
    <3>3. Temporary'
      BY <3>1, <3>2, Removed
    <3>4. QED  BY <3>1, <3>3
  <2>3. QED  BY <2>1, <2>2 DEF Gate
<1>4. /\ Asking' = Asking /\ ObjectFile' = ObjectFile
      /\ Place(Asking, options.output, options.input)' = Place(Asking, options.output, options.input)
  BY <1>1 DEF Asking, ObjectFile
<1>5. Writes'
  <2>1. CASE Moves
    BY <2>1, <1>1 DEF Moves, Writes
  <2>2. CASE Stops
    <3>1. exit' = 1 /\ exit' # 0 /\ exit' # Running
      BY <2>2 DEF Stops
    <3>2. QED  BY <2>2, <3>1, Zenon DEF Stops, Writes
  <2>3. CASE Spoils
    <3>1. exit' = 1
      BY <2>3, Zenon DEF Spoils
    <3>2. exit' # 0 /\ exit' # Running
      BY <3>1
    <3>3. QED  BY <1>4, <2>3, <3>1, <3>2, Zenon DEF Spoils, Writes
  <2>4. CASE Gives
    BY <1>1, <1>2, <1>4, <2>4 DEF Gives, Writes, Product
  <2>5. QED  BY <1>3, <2>1, <2>2, <2>3, <2>4 DEF Outcomes
<1>6. Gates'
  <2>1. options'.asked \cap Passed(phase') = {}
    <3>1. Passed("done") = {}
      BY DEF Passed
    <3>2. QED  BY <1>1, <1>3, <3>1 DEF Outcomes, Stops, Spoils, Gives
  <2>2. QED  BY <1>1, <1>2, <2>1 DEF Gates
<1>7. phase' # "args"
  BY <1>3 DEF Outcomes, Stops, Spoils, Gives
<1>8. QED  BY <1>3, <1>5, <1>6, <1>7

LEMMA ArgsInvariants ==
  ASSUME TypeOK, Gates, Writes, Temporary, ReadArgs
  PROVE  Gates' /\ Writes' /\ Temporary'
<1>1. phase = "args" /\ UNCHANGED <<args, temp, written>>
  BY DEF ReadArgs, ParseOption, ParseOutput, ParseInput, RejectOption, EndOfArgs, ParsingArg, Fail
<1>2. exit = Running /\ written = {}
  BY <1>1 DEF TypeOK, Writes
<1>3. Temporary'
  <2>1. ~temp
    BY <1>1, <1>2, NoneYet
  <2>2. ~temp'
    BY <1>1, <2>1
  <2>3. QED  BY <2>2, Removed
<1>4. \/ phase' = "args" /\ exit' = Running
      \/ phase' = "done" /\ exit' = 1
      \/ phase' = "done" /\ exit' = 0 /\ at' > Len(args) /\ options'.informs # {}
      \/ phase' = "load" /\ exit' = Running /\ at' > Len(args) /\ options'.informs = {}
  <2>1. CASE ParseOption
    BY <1>1, <1>2, <2>1 DEF ParseOption, Advance
  <2>2. CASE ParseOutput
    BY <1>1, <1>2, <2>2 DEF ParseOutput, Fail, Exit
  <2>3. CASE ParseInput
    BY <1>1, <1>2, <2>3 DEF ParseInput, Fail, Exit, Advance
  <2>4. CASE RejectOption
    BY <2>4 DEF RejectOption, Fail, Exit
  <2>5. CASE EndOfArgs
    BY <1>1, <1>2, <2>5 DEF EndOfArgs, Fail, Exit
  <2>6. QED  BY <2>1, <2>2, <2>3, <2>4, <2>5 DEF ReadArgs
<1>5. Passed("args") = {} /\ Passed("done") = {} /\ Passed("load") = {}
  BY DEF Passed
<1>6. Gates'
  BY <1>1, <1>4, <1>5, NotRunning DEF Gates
<1>7. Writes'
  <2>1. written' = {} /\ written' \subseteq {<<"stdout", "tokens">>}
    BY <1>1, <1>2
  <2>2. CASE exit' = Running
    <3>1. exit' # 0 /\ exit' # 1
      BY <2>2, NotRunning, Zenon
    <3>2. QED  BY <2>1, <3>1, Zenon DEF Writes
  <2>3. CASE exit' = 1
    <3>1. exit' # 0 /\ exit' # Running
      BY <2>3, NotRunning
    <3>2. QED  BY <2>1, <3>1, Zenon DEF Writes
  <2>4. CASE exit' = 0 /\ options'.informs # {}
    <3>1. exit' # 1 /\ exit' # Running
      BY <2>4, NotRunning
    <3>2. QED  BY <2>1, <2>4, <3>1, Zenon DEF Writes
  <2>5. QED  BY <1>4, <2>2, <2>3, <2>4
<1>8. QED  BY <1>3, <1>6, <1>7

-------------------------------------------------------------------------------
(* Options and arguments                                                   *)

LEMMA LastOfNew ==
  ASSUME NEW S \in SUBSET Nat, NEW m \in Nat, \A i \in S : i < m
  PROVE  LastOf(S \cup {m}) = m
<1>. DEFINE T == S \cup {m}
            Top(i) == \A j \in T : j <= i
<1>1. m \in T /\ Top(m)
  OBVIOUS
<1>2. \A i \in T : Top(i) => i = m
  BY <1>1
<1>3. (CHOOSE i \in T : Top(i)) = m
  BY <1>1, <1>2
<1>4. QED  BY <1>3 DEF LastOf

LEMMA ReadingFacts ==
  ASSUME TypeOK, NEW read \in Readings
  PROVE  /\ Len(args) \in Nat
         /\ read \subseteq 1 .. Len(args)
         /\ \A i \in 1 .. Len(args) : i \in read <=> ~(i - 1 \in read /\ args[i - 1] = "-o")
BY ArgIsString DEF TypeOK, Readings

LEMMA FollowsInit ==
  ASSUME Init, NEW read \in Readings
  PROVE  Follows(read)
<1>1. /\ read \subseteq 1 .. Len(args) /\ Len(args) \in Nat
      /\ 1 <= Len(args) => 1 \in read
  BY TypeInit, ReadingFacts
<1>2. AsksAt(read) = {} /\ InformsAt(read) = {} /\ OutputAt(read) = {} /\ InputAt(read) = {}
  <2>1. \A i \in read : ~(i < at)
    BY <1>1 DEF Init
  <2>2. QED  BY <2>1 DEF AsksAt, InformsAt, OutputAt, InputAt
<1>3. QED  BY <1>1, <1>2 DEF Init, Follows, Defaults

LEMMA FollowsKept ==
  ASSUME NEW read, Follows(read), UNCHANGED <<args, at, options>>, phase' # "args"
  PROVE  Follows(read)'
BY DEF Follows, AsksAt, InformsAt, OutputAt, InputAt

(* An argument that is read on its own. *)
LEMMA OneMore ==
  ASSUME TypeOK, NEW read \in Readings, at \in read, args[at] # "-o",
         args' = args, at' = at + 1
  PROVE  /\ at' <= Len(args') => at' \in read
         /\ AsksAt(read)' = AsksAt(read) \cup IF Arg \in DOMAIN AskFor THEN {at} ELSE {}
         /\ InformsAt(read)' = InformsAt(read) \cup IF Arg \in Informs THEN {at} ELSE {}
         /\ OutputAt(read)' = OutputAt(read)
         /\ InputAt(read)' = InputAt(read) \cup IF Arg \notin Options \cup {""} THEN {at} ELSE {}
<1>1. /\ Len(args) \in Nat /\ read \subseteq 1 .. Len(args) /\ at \in Nat \ {0}
      /\ \A i \in 1 .. Len(args) : i \in read <=> ~(i - 1 \in read /\ args[i - 1] = "-o")
  BY ReadingFacts DEF TypeOK
<1>2. at' <= Len(args') => at' \in read
  <2>1. SUFFICES ASSUME at + 1 <= Len(args) PROVE at + 1 \in read
    OBVIOUS
  <2>2. at + 1 \in 1 .. Len(args) /\ (at + 1) - 1 = at
    BY <1>1, <2>1
  <2>3. QED  BY <1>1, <2>2
<1>3. \A i \in read : i < at' <=> i < at \/ i = at
  BY <1>1
<1>4. QED  BY <1>2, <1>3 DEF AsksAt, InformsAt, OutputAt, InputAt, Arg

(* An -o with its file name. *)
LEMMA TwoMore ==
  ASSUME TypeOK, NEW read \in Readings, at \in read, args[at] = "-o", at < Len(args),
         args' = args, at' = at + 2
  PROVE  /\ at' <= Len(args') => at' \in read
         /\ AsksAt(read)' = AsksAt(read) /\ InformsAt(read)' = InformsAt(read)
         /\ OutputAt(read)' = OutputAt(read) \cup {at}
         /\ InputAt(read)' = InputAt(read)
<1>1. /\ Len(args) \in Nat /\ read \subseteq 1 .. Len(args) /\ at \in Nat \ {0}
      /\ \A i \in 1 .. Len(args) : i \in read <=> ~(i - 1 \in read /\ args[i - 1] = "-o")
  BY ReadingFacts DEF TypeOK
<1>2. at + 1 \notin read
  <2>1. at + 1 \in 1 .. Len(args) /\ (at + 1) - 1 = at
    BY <1>1
  <2>2. QED  BY <1>1, <2>1
<1>3. at' <= Len(args') => at' \in read
  <2>1. SUFFICES ASSUME at + 2 <= Len(args) PROVE at + 2 \in read
    OBVIOUS
  <2>2. at + 2 \in 1 .. Len(args) /\ (at + 2) - 1 = at + 1
    BY <1>1, <2>1
  <2>3. QED  BY <1>1, <1>2, <2>2
<1>4. \A i \in read : i < at' <=> i < at \/ i = at
  BY <1>1, <1>2
<1>5. args[at] \notin DOMAIN AskFor /\ args[at] \notin Informs /\ args[at] \in Options
  BY OptionSets
<1>6. QED  BY <1>3, <1>4, <1>5 DEF AsksAt, InformsAt, OutputAt, InputAt

LEMMA FollowsArgs ==
  ASSUME TypeOK, ReadArgs, NEW read \in Readings, Follows(read)
  PROVE  Follows(read)'
<1>1. phase = "args" /\ args' = args /\ at \in Nat \ {0} /\ options \in CompilerOptions
  BY DEF ReadArgs, ParseOption, ParseOutput, ParseInput, RejectOption, EndOfArgs, ParsingArg,
         Fail, TypeOK
<1>2. ParsingArg => at \in read
  BY <1>1 DEF ParsingArg, Follows
<1>3. \A S : S \cup {} = S
  OBVIOUS
<1>4. CASE ParseOption
  <2>1. at \in read /\ at' = at + 1
    BY <1>2, <1>4 DEF ParseOption, Advance
  <2>2. Arg \in Options /\ Arg # "-o"
    BY <1>4, OptionSets DEF ParseOption
  <2>3. /\ at' <= Len(args') => at' \in read
        /\ AsksAt(read)' = AsksAt(read) \cup IF Arg \in DOMAIN AskFor THEN {at} ELSE {}
        /\ InformsAt(read)' = InformsAt(read) \cup IF Arg \in Informs THEN {at} ELSE {}
        /\ OutputAt(read)' = OutputAt(read)
        /\ InputAt(read)' = InputAt(read)
    BY <1>1, <2>1, <2>2, <1>3, OneMore DEF Arg
  <2>4. /\ options'.output = options.output /\ options'.input = options.input
        /\ options'.asked = options.asked \cup IF Arg \in DOMAIN AskFor THEN {AskFor[Arg]} ELSE {}
        /\ options'.informs = options.informs \cup IF Arg \in Informs THEN {Arg} ELSE {}
    <3> DEFINE Unasked == options'.asked = options.asked
               Uninformed == options'.informs = options.informs
               Kept == options'.output = options.output /\ options'.input = options.input
    <3>1. \/ /\ Arg \in DOMAIN AskFor
             /\ options' = [options EXCEPT !.asked = @ \cup {AskFor[Arg]}]
          \/ /\ Arg \in Informs
             /\ options' = [options EXCEPT !.informs = @ \cup {Arg}]
          \/ /\ Arg \notin DOMAIN AskFor /\ Arg \notin Informs
             /\ Unasked /\ Uninformed /\ Kept
      <4>1. ASSUME Arg \in DOMAIN Optim \cup DOMAIN Levels \cup DOMAIN Devices \cup Silent
            PROVE  Arg \notin DOMAIN AskFor /\ Arg \notin Informs
        BY <4>1, OptionSets
      <4>2. CASE Arg \in DOMAIN Optim /\ options' = [options EXCEPT !.stage = Optim[Arg]]
        BY <1>1, <4>1, <4>2 DEF CompilerOptions
      <4>3. CASE Arg \in DOMAIN Levels /\ options' = [options EXCEPT !.level = Levels[Arg]]
        BY <1>1, <4>1, <4>3 DEF CompilerOptions
      <4>4. CASE Arg \in DOMAIN Devices /\ options' = [options EXCEPT !.device = Devices[Arg]]
        BY <1>1, <4>1, <4>4 DEF CompilerOptions
      <4>5. CASE Arg \in Silent /\ UNCHANGED options
        BY <4>1, <4>5
      <4> HIDE DEF Unasked, Uninformed, Kept
      <4> QED BY <1>4, <4>2, <4>3, <4>4, <4>5 DEF ParseOption
    <3>2. CASE Arg \in DOMAIN AskFor /\ options' = [options EXCEPT !.asked = @ \cup {AskFor[Arg]}]
      <4>1. Arg \notin Informs
        BY <3>2, OptionSets
      <4> QED BY <1>1, <1>3, <3>2, <4>1 DEF CompilerOptions
    <3>3. CASE Arg \in Informs /\ options' = [options EXCEPT !.informs = @ \cup {Arg}]
      <4>1. Arg \notin DOMAIN AskFor
        BY <3>3, OptionSets
      <4> QED BY <1>1, <1>3, <3>3, <4>1 DEF CompilerOptions
    <3>4. QED  BY <1>3, <3>1, <3>2, <3>3
  <2>5. options'.asked = {AskFor[args[i]] : i \in AsksAt(read)'}
    BY <2>3, <2>4 DEF Follows, Arg
  <2>6. options'.informs = {} <=> InformsAt(read)' = {}
    BY <2>3, <2>4 DEF Follows
  <2>7. QED  BY <1>1, <2>3, <2>4, <2>5, <2>6 DEF Follows
<1>5. CASE ParseOutput
  <2>1. CASE at < Len(args)
    <3>1. /\ at \in read /\ args[at] = "-o" /\ at' = at + 2
          /\ options' = [options EXCEPT !.output = args[at + 1]]
      BY <1>2, <1>5, <2>1 DEF ParseOutput, Arg
    <3>2. /\ at' <= Len(args') => at' \in read
          /\ AsksAt(read)' = AsksAt(read) /\ InformsAt(read)' = InformsAt(read)
          /\ OutputAt(read)' = OutputAt(read) \cup {at}
          /\ InputAt(read)' = InputAt(read)
      BY <1>1, <2>1, <3>1, TwoMore
    <3>3. LastOf(OutputAt(read) \cup {at}) = at
      <4>1. OutputAt(read) \in SUBSET Nat /\ \A i \in OutputAt(read) : i < at
        BY ReadingFacts DEF OutputAt
      <4>2. at \in Nat
        BY <1>1
      <4>3. QED  BY <4>1, <4>2, LastOfNew, Zenon
    <3>4. options'.output = args[LastOf(OutputAt(read)') + 1] /\ OutputAt(read)' # {}
      BY <1>1, <3>1, <3>2, <3>3 DEF CompilerOptions
    <3>5. /\ options'.asked = options.asked /\ options'.informs = options.informs
          /\ options'.input = options.input
      BY <1>1, <3>1 DEF CompilerOptions
    <3>6. /\ options'.asked = {AskFor[args'[i]] : i \in AsksAt(read)'}
          /\ options'.informs = {} <=> InformsAt(read)' = {}
      BY <1>1, <3>2, <3>5 DEF Follows
    <3>7. options'.output = IF OutputAt(read)' = {} THEN "" ELSE args'[LastOf(OutputAt(read)') + 1]
      BY <1>1, <3>4
    <3>8. options'.input = IF InputAt(read)' = {} THEN "" ELSE args'[LastOf(InputAt(read)')]
      BY <1>1, <3>2, <3>5 DEF Follows
    <3>9. QED  BY <3>2, <3>6, <3>7, <3>8 DEF Follows
  <2>2. CASE ~(at < Len(args))
    <3>1. phase' = "done" /\ UNCHANGED <<at, options>>
      BY <1>5, <2>2 DEF ParseOutput, Fail, Exit
    <3>2. QED  BY <1>1, <3>1, FollowsKept
  <2>3. QED  BY <2>1, <2>2
<1>6. CASE ParseInput
  <2>1. CASE options.input = ""
    <3>1. /\ at \in read /\ Arg \notin Options /\ at' = at + 1
          /\ options' = [options EXCEPT !.input = Arg]
      BY <1>2, <1>6, <2>1 DEF ParseInput, Advance
    <3>2. Arg # "-o" /\ Arg \notin DOMAIN AskFor /\ Arg \notin Informs
      BY <3>1, OptionSets
    <3>3. /\ at' <= Len(args') => at' \in read
          /\ AsksAt(read)' = AsksAt(read) /\ InformsAt(read)' = InformsAt(read)
          /\ OutputAt(read)' = OutputAt(read)
          /\ InputAt(read)' = InputAt(read) \cup IF Arg # "" THEN {at} ELSE {}
      BY <1>1, <1>3, <3>1, <3>2, OneMore DEF Arg
    <3>4. /\ options'.asked = options.asked /\ options'.informs = options.informs
          /\ options'.output = options.output /\ options'.input = Arg
      BY <1>1, <3>1 DEF CompilerOptions
    <3>5. options'.input = IF InputAt(read)' = {} THEN "" ELSE args[LastOf(InputAt(read)')]
      <4>1. CASE Arg # ""
        <5>1. InputAt(read) \in SUBSET Nat /\ \A i \in InputAt(read) : i < at
          <6>1. read \subseteq Nat
            BY ReadingFacts
          <6>2. QED  BY <6>1 DEF InputAt
        <5>2. LastOf(InputAt(read) \cup {at}) = at
          <6>1. at \in Nat
            BY <1>1
          <6>2. QED  BY <5>1, <6>1, LastOfNew, Zenon
        <5>3. QED  BY <3>3, <3>4, <4>1, <5>2 DEF Arg
      <4>2. CASE Arg = ""
        <5>1. InputAt(read)' = InputAt(read)
          BY <1>3, <3>3, <4>2
        <5>2. QED  BY <2>1, <3>4, <4>2, <5>1 DEF Follows
      <4>3. QED  BY <4>1, <4>2
    <3>6. /\ options'.asked = {AskFor[args'[i]] : i \in AsksAt(read)'}
          /\ options'.informs = {} <=> InformsAt(read)' = {}
      <4>1. AsksAt(read)' = AsksAt(read) /\ InformsAt(read)' = InformsAt(read)
        BY <3>3
      <4>2. options'.asked = options.asked /\ options'.informs = options.informs
        BY <3>4
      <4>3. QED  BY <1>1, <4>1, <4>2 DEF Follows
    <3>7. options'.output = IF OutputAt(read)' = {} THEN "" ELSE args'[LastOf(OutputAt(read)') + 1]
      BY <1>1, <3>3, <3>4 DEF Follows
    <3>8. options'.input = IF InputAt(read)' = {} THEN "" ELSE args'[LastOf(InputAt(read)')]
      BY <1>1, <3>5
    <3>9. QED  BY <3>3, <3>6, <3>7, <3>8 DEF Follows
  <2>2. CASE options.input # ""
    <3>1. phase' = "done" /\ UNCHANGED <<at, options>>
      BY <1>6, <2>2 DEF ParseInput, Fail, Exit
    <3>2. QED  BY <1>1, <3>1, FollowsKept
  <2>3. QED  BY <2>1, <2>2
<1>7. CASE RejectOption \/ EndOfArgs
  <2>1. phase' \in {"done", "load"} /\ UNCHANGED <<at, options>>
    BY <1>7 DEF RejectOption, EndOfArgs, Fail, Exit
  <2>2. QED  BY <1>1, <2>1, FollowsKept
<1>8. QED  BY <1>4, <1>5, <1>6, <1>7 DEF ReadArgs

-------------------------------------------------------------------------------
(* Theorems                                                                *)

LEMMA InvInit == Init => IInv
<1> SUFFICES ASSUME Init PROVE IInv
  OBVIOUS
<1>1. TypeOK /\ \A read \in Readings : Follows(read)
  BY TypeInit, FollowsInit
<1>2. Gates
  BY NotRunning DEF Init, Gates, Passed
<1>3. Writes
  BY NotRunning DEF Init, Writes
<1>4. Temporary
  BY Zenon DEF Init, Temporary, NoTempLeft
<1>5. QED  BY <1>1, <1>2, <1>3, <1>4 DEF IInv

LEMMA InvStep == IInv /\ [DriverNext]_driverVars => IInv'
<1> SUFFICES ASSUME IInv, [DriverNext]_driverVars PROVE IInv'
  OBVIOUS
<1>. USE DEF IInv
<1>1. TypeOK'
  BY TypeStep
<1>2. CASE UNCHANGED driverVars
  <2>1. Gates' /\ Writes' /\ Temporary'
    BY <1>2, Zenon DEF driverVars, Gates, Writes, Temporary, NoTempLeft, Asking, ObjectFile
  <2>2. Readings' = Readings
    BY <1>2 DEF driverVars, Readings
  <2>3. ASSUME NEW read, Follows(read)
        PROVE  Follows(read)'
    <3>1. UNCHANGED <<args, at, options, phase>>
      BY <1>2 DEF driverVars
    <3>2. /\ AsksAt(read)' = AsksAt(read) /\ InformsAt(read)' = InformsAt(read)
          /\ OutputAt(read)' = OutputAt(read) /\ InputAt(read)' = InputAt(read)
      BY <3>1 DEF AsksAt, InformsAt, OutputAt, InputAt
    <3>3. {AskFor[args'[i]] : i \in AsksAt(read)'} = {AskFor[args[i]] : i \in AsksAt(read)}
      BY <3>1, <3>2
    <3>4. LastOf(OutputAt(read)') = LastOf(OutputAt(read)) /\ LastOf(InputAt(read)') = LastOf(InputAt(read))
      BY <3>2
    <3>5. QED  BY <2>3, <3>1, <3>2, <3>3, <3>4 DEF Follows
  <2>4. QED  BY <1>1, <2>1, <2>2, <2>3
<1>3. CASE Gate
  <2>1. Gates' /\ Writes' /\ Temporary'
    BY <1>3, GateInvariants
  <2>2. UNCHANGED <<args, at, options>> /\ phase' # "args"
    BY <1>3, GateKeeps, GateInvariants
  <2>3. Readings' = Readings
    BY <2>2 DEF Readings
  <2>4. QED  BY <1>1, <2>1, <2>2, <2>3, FollowsKept
<1>4. CASE ReadArgs
  <2>1. Gates' /\ Writes' /\ Temporary'
    BY <1>4, ArgsInvariants
  <2>2. args' = args
    BY <1>4 DEF ReadArgs, ParseOption, ParseOutput, ParseInput, RejectOption, EndOfArgs
  <2>3. Readings' = Readings
    BY <2>2 DEF Readings
  <2>4. QED  BY <1>1, <1>4, <2>1, <2>3, FollowsArgs
<1>5. QED  BY <1>2, <1>3, <1>4 DEF DriverNext, Gate

LEMMA InvTells == IInv => ExitTellsProduct
<1> SUFFICES ASSUME IInv, exit = 0, NEW read \in Readings
             PROVE  written = ProductOf(read)
  BY DEF IInv, Writes, ExitTellsProduct
<1>1. /\ TypeOK /\ Follows(read) /\ at > Len(args)
      /\ written = IF options.informs # {} THEN {}
                   ELSE {<<Place(Asking, options.output, options.input), Asking>>}
  BY DEF IInv, Gates, Writes
<1>2. \A i \in read : i < at
  BY <1>1, ReadingFacts DEF TypeOK
<1>3. /\ AsksAt(read) = {i \in read : args[i] \in DOMAIN AskFor}
      /\ InformsAt(read) = {i \in read : args[i] \in Informs}
      /\ OutputAt(read) = {i \in read : args[i] = "-o"}
      /\ InputAt(read) = {i \in read : args[i] \notin Options \cup {""}}
  BY <1>2 DEF AsksAt, InformsAt, OutputAt, InputAt
<1>4. options.asked = Named(read)
  BY <1>1, <1>3 DEF Follows, Named
<1>5. options.output = OutputFile(read) /\ options.input = InputFile(read)
  BY <1>1, <1>3 DEF Follows, OutputFile, InputFile
<1>6. options.informs # {} <=> Informed(read)
  BY <1>1, <1>3 DEF Follows, Informed
<1>7. QED  BY <1>1, <1>4, <1>5, <1>6 DEF ProductOf, Wanted, Asking

LEMMA InvHolds == DriverSpec => []IInv
BY InvInit, InvStep, PTL DEF DriverSpec

(* Whatever the command line and whatever fails, the exit code tells what   *)
(* has been written and where (main.cpp:69-489, CommandLine.cpp:61-152).    *)
THEOREM ExitTellsProductHolds == DriverSpec => []ExitTellsProduct
BY InvHolds, InvTells, PTL

(* The temporary object file does not outlive the compiler, except on the  *)
(* paths that NoTempLeft names (main.cpp:386-487).                          *)
THEOREM NoTempLeftHolds == DriverSpec => []NoTempLeft
<1>1. IInv => NoTempLeft
  BY DEF IInv, Temporary
<1>2. QED  BY <1>1, InvHolds, PTL
===============================================================================
