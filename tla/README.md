# Verification of trsc in TLA+

trsc compiles a small Rust-like language through MLIR to native code and CUDA kernels. The
compiler itself is one thread that runs a sequence of phases; the concurrency of the system is in
what it emits: host code that stages, launches and waits through a table of CUDA wrappers while
a GPU works and fails on its own, and kernels whose threads share memory between barriers. The
development models both: the emitted protocols with all interleavings and failures, and the phases
of the compiler, from the command line to the removal of the temporary object file, as state
machines over their inputs.

Line numbers below refer to the files under `src/`.

## 1. Inventory

| Part | State | Operations | Hard | Must be true |
|---|---|---|---|---|
| CUDA runtime wrappers (`lib/Runtime/CudaRuntimeWrappers.cpp`) | driver table, default device, context, lazy module, recorded error | probe, reset/had error, streams, buffers, copies, launch, unload | every driver call may fail; missing driver or symbol; static initialisers that run once | the first error is kept; nothing runs after it hides it; the context is that of the default device |
| Device dispatch (`MatMulOpts/DeviceDispatch.cpp`, staging in `GemmLowering.cpp:100-230`) | scratch copy, operands on the device, streams | probe, enter, stage, launch, finish, check, fall back, abort | GPU concurrent with the host, faults at any time, retry on the CPU | each product is in C once, whatever fails; Auto leaves C alone; no leak; every run ends |
| GEMM kernels (`MatMulOpts/GemmLowering.cpp`) | tiles in shared memory, accumulators, C | copy, barrier, multiply, prefetch, commit, store with epilogue | fast and slow threads between barriers; ragged sizes; double buffers | nobody reads another tile; each cell gets K products and one epilogue; no barrier hangs |
| Kernel shapes (same file) | tile parameters | defaults, `TRSC_GEMM_TILES`, `deriveOk` | strides, lanes, sizes that do not divide | cells are shared out exactly; everything multiplied is copied |
| Lexer (`lib/Lex`) | position, tokens | one token, comments, literals | look-ahead, buffer without terminator | tokens cover the text, longest first |
| SourceManager (`lib/Basic`) | line table, last line | load, location | cached line, queries that go back | exact line and column |
| Parser (`lib/Parse`) | token index, call stack, arena | the parse functions, recovery | progress on any input; nullptr on many paths; precedence | ends; null only after a diagnostic; tree = text |
| Symbol table (`lib/Sema/Scope.cpp`, `SymbolTable.cpp`) | scopes, arena, index above a threshold | enter, exit, add, look up | scan turns into index | innermost declaration wins |
| Name resolution, type checker (`lib/Sema`) | symbol and type of each node, expected type, errors | collect, resolve, sign, check | order of passes; missing types that silence checks; types that travel down and are overwritten | accepted programs can be generated, assign only to `mut` |
| AST, types (`lib/AST`) | arena, hash-consed types | allocate, get type, convert | identity of types | one object per type |
| MLIRGen (`lib/MLIR/MLIRGen`) | operation of each symbol, return state (flag, value) | declarations, statements, guards, expressions, conversions | returns without leaving regions; signless integers; visitors without a value | generated code does what the source says |
| GEMM raising (`MatMulRecognition.cpp`, `GemmEpilogueFusion.cpp`) | loop nests | match, replace | bounds, steps, aliases that are not looked at | a raised nest means the same |
| Loop transformations (`lib/MLIR/Transforms`, `Utils`) | loop nests | LICM, fusion, tiling, unrolling | dependences between loops; nests that the compiler made itself | a transformed nest means the same |
| Pass pipelines, autotuning (`PassPipeline.cpp`, `MatMulPassPipeline.cpp`, `AutoTuning.cpp`) | passes still to run | stages, levels | the order of passes | every stage ends |
| Driver, command line (`tools/trsc`, `CommandLine.cpp`) | options, products, temporary object | read arguments, gates, emit, link, remove | early returns between the creation of a file and its removal | the exit code tells what there is |
| Print runtime (`PrintRuntime.cpp`) | none | show a number | which entry point for which pattern | what is shown is the number |
| Diagnostics, identifiers, printers, dialect, `trsc-opt` | counters, intern table, none | | | |

How they interact: the driver calls lexer, parser, analysis and generator in turn and asks Diagnostics
for errors after each of the first three; the phases share the AST, on whose nodes each caches what the next one
dereferences. The driver then puts a pipeline together from its options and runs it on the module; each pass trusts
the shape that the ones before it left, and a marker tells it which loops are the compiler's own. The dispatch and the lowering turn each `trscd.gemm`
into calls of the runtime wrappers and a kernel, and the emitted program meets the GPU only through those
wrappers: streams, waits and the recorded error are the whole interface.

`PROJECT.json` lists the hazards at their lines, with the properties that would catch them; those that the properties
state around say so.

## 2. Modules

| Module | Models | Extends |
|---|---|---|
| `GemmSemantics` | what a program may observe of its gemms (abstract) | |
| `CudaRuntime` | the wrappers that emitted code calls, over an external driver and GPU queue | |
| `DeviceDispatch` | dispatch, staging, launch, copy-back, error check, fallback; GPU progress and faults | `CudaRuntime`, instance of `GemmSemantics` |
| `DeviceDispatchProofs` | proofs | `DeviceDispatch` |
| `GemmTiles` | geometry of blocks: cells of a thread, slots it copies and reads, per level | |
| `GemmKernel` | the threads of a block with shared memory and barriers | `GemmTiles` |
| `GemmKernelProofs` | proofs | `GemmKernel` |
| `GemmShape` | how a kernel gets its shape | `GemmTiles` |
| `GemmShapeProofs` | proofs | `GemmShape` |
| `Lexer` | `Lex()`, literals, comments, `getLocation` | |
| `Parser` | the parse functions as routines on a call stack, recovery, the driver's first gates | `Lexer` |
| `SyntaxProofs` | proofs: lexer, parser | `Parser` |
| `SymbolTable` | scopes, index, arena | |
| `SemanticAnalysis` | collector, resolver, signatures, checker over the AST of a program | `SymbolTable` |
| `FrontEnd` | the gate after analysis, MLIRGen's use of symbols | `SemanticAnalysis` |
| `ProgramText` | what the text of a program shows: what is below a node, scopes, what a name means (vocabulary of theorems) | `SemanticAnalysis` |
| `FrontEndProofs` | proofs: lookup, stack, scopes and names | `FrontEnd`, `ProgramText` |
| `AcceptedProgramProofs` | proofs: checker and generator | `FrontEndProofs` |
| `FunctionBody` | meaning of a function body with returns (abstract) | |
| `ReturnLowering` | what the emitted regions and guards execute | instance of `FunctionBody` |
| `ReturnLoweringProofs` | proofs | `ReturnLowering` |
| `ValueTypes` | types, their conversions, their MLIR types, numbers and patterns | |
| `ExpressionTypes` | the checker on the expressions of a statement | `ValueTypes` |
| `ExpressionGen` | the operations that MLIRGen emits for a statement | `ExpressionTypes` |
| `ExpressionRun` | the verifier and the execution of these operations (external) | `ExpressionGen` |
| `ExpressionMeaning` | what a checked statement means (abstract) | `ExpressionTypes` |
| `Expressions` | a statement from checker to execution | `ExpressionRun`, `ExpressionMeaning` |
| `LoopIR` | functions of loops, loads, stores, prints and gemms, and their execution (mostly external) | |
| `LoopPasses` | the passes, their order in each stage and level | `LoopIR` |
| `Driver` | `parseCommandLine` and `main` | |
| `DriverProofs` | proofs | `Driver` |
| `Compiler` | driver and passes together; `trsc-opt` | `Driver`, `LoopPasses` |
| `MC*` | values of the constants for TLC | the module they name |

### Correspondence with the code

`PROJECT.json` maps each definition to the lines it stands for. What a reader should know beforehand:

* **DeviceDispatch.** A buffer's content is the number of products summed in it, or `Garbage`. `pc` is the
  place in the emitted sequence; each label is one call of a wrapper, so GPU steps fall between any two
  calls. `inflight` is the work the driver has accepted: transfers, the kernel, the copy back. A failing
  call records its error and the sequence goes on, as in the code, until `CheckError`. Level 1 runs as one step.
* **GemmKernel.** A slot of shared memory holds the number of the tile its element came from; an accumulator
  counts products; a cell of C counts products and epilogues. A tile's copy, one inner iteration, a
  commit and the final store are steps of a thread. A and B are never written, so the prefetch to registers
  is a part of its commit.
* **Parser.** A routine is the list of what a parse function does, e.g. `parseLetStmt`; the actions are the
  few things a routine can do (consume, branch, call, return, build). A frame holds the rest of its routine
  and the nodes made so far. `nullptr` is `Null`, and stays in a tree where the code keeps it.
* **SemanticAnalysis.** The AST is a function from nodes, numbered in preorder, to records. The recursion of a
  visitor is the stack `todo`. `errors` holds the nodes with a diagnostic. Types are number, bool, unit and function:
  this module is about names and the order of passes, `ExpressionTypes` about the types of one statement.
* **ReturnLowering.** A frame is a region under execution with the pair of SSA values of the return state.
  Conditions at run time are free choices, recorded in `trace` and repeated by `FunctionBody`.
* **Expressions.** The checker is a function from a tree to the tree with its types; the member `ExpectedType` is its second argument.
  The generator is a function from the typed tree to a sequence of operations, each of which holds its operands, so that a
  dropped value, an operand in a region or one emitted for each element of an array shows in the tree.
  Numbers are narrow (2, 3 and 4 bits in the code's order of widths; the code compares widths and never adds them), floats are whole numbers,
  and a memory maps each variable to a pattern. A `WellFormed` that fails is mlir::verify or an assertion of a builder: phase `failed`.
  Equality of type objects is equality of descriptions, since ASTContext makes one object per type (`ASTContext.cpp:33-56`).
* **LoopPasses.** `code` is a function in the form in which canonicalization, CSE and mem2reg leave it before each of these passes: scalars
  are SSA values, carried through loops. Those rounds are MLIR's and are not shown. A value is a term over the initial contents, so
  that two executions agree only if they compute the same from the same. `MeaningKept` executes source and result; nothing
  of the passes is used in that. The dispatch around a gemm is the attribute of its target here, since `DeviceDispatch` models what it does, and of
  unrolling only which loops it is asked for is shown, because MLIR's unrolling keeps what a loop computes.
* **Driver.** An action per gate of `main`; what a phase finds is a free choice, so that every early return occurs with every command line. In `Compiler`
  the pipeline takes the place of the free choice after generation. `written` is what lies where at the end.

Definitions under "Seeded fault" are never used by the models. Each is a plausible bug of the code in the
place of the definition that follows it; put there, it violates a property, so that no property holds by
the shape of its model.

## 3. Runs

| Run | Question | Bounds |
|---|---|---|
| `device_dispatch` | Are products applied once, is C safe, does all end, is `GemmSemantics` implemented, under every failure? | 2 devices (one too old), 2 gemms, all modes, levels 1 and 2, drivers: none, whole, without one symbol; two driver errors |
| `gemm_kernel` | Are the barriers of each scheme enough and is each cell right? | blocks of up to 4 threads, up to 3 tiles of K, whole, ragged, corner and empty problems, one shape per scheme |
| `gemm_shapes` | Is the arithmetic of the geometry right at the code's vector width 4 and warp size 32? | several hundred shapes, 2 problems, the first block |
| `syntax` | Are tokens and locations exact, trees true to the text, errors reported, and does the parser end? | about 9,000 texts: all up to 4 characters of two alphabets, all token tails up to 3 behind each construct, all triples of operators |
| `front_end` | Do names bind as the text shows, can accepted programs be generated, and is what has no type diagnosed? | 7,840 programs of two functions; scope index from the second symbol on |
| `expressions` | Does a verified statement store, print, iterate over and call what it means, and does verification fail only for mixed types and six named reasons? | 7,702 statements, a variable of each of 8 kinds of type and two arrays, up to three operations deep |
| `return_lowering` | Do flags and guards execute what the body says? | all bodies of up to 7 nodes, 2 iterations of loops per call |
| `compiler` | Does the exit code tell what there is, does no temporary file stay, and do the passes keep what a function means? | all command lines of up to 3 of 12 arguments, longer ones, about 340 functions; arrays of 3 by 3, tiles of 2 |
| `illegal_shape` | finding: levels 5 to 7 check no shape | levels 5 to 8 |
| `return_in_loop` | finding: a return in a loop ends nothing | bodies of up to 5 nodes |
| `fused_results` | finding: fusion drops the results of a second loop that carries values, and moves uses of the first one's into it | pairs of the loops of `compiler` |
| `raised_part` | finding: a nest over a part of the rows becomes a gemm over all | one nest |

A finding checks one property, a sentence of the code's comments, tests or docs, and TLC refutes it; `PROJECT.json`
quotes the sentence.

**Why the bounds are enough.** Two gemms show what one leaves for the next (module, context, error, handles);
a third meets the same states. Two devices are what makes the default device change. Three tiles use both buffers
again after a wrap; the proofs remove this bound and that of threads. Seven nodes hold an if with else, a
nested block and a statement behind it, two guards deep. In `front_end` the threshold 1 makes scopes with one entry scan and
larger ones use the index, so that both lookups and the change between them occur. A tail of three tokens behind a
construct's first ones reaches each of its error paths, and each recovery is followed by one more token or the end; the
texts of four characters include each look-ahead at the end of the buffer.
`MaxNodes` of `Parser` (nodes kept per call) only matters inside an array literal that never ends; no complete list of the run
is that long. `MaxIterations` bounds the iterations of all loops of one call.
In `expressions` two widths on each side of every other one, both signs of each, and memories at zero, at the sign bit and at the end of the
range give every row of the conversion table and every predicate an input on which its neighbours answer otherwise; an operator, a cast and a
call below one another are the most that a decision of the checker looks at. `StackThreshold` is below the larger arrays and above the
smaller ones. In `compiler`, an `Extent` of 3 is more than one tile of `TileSize` 2, so that a tile is cut off at the end; `Part` 2 makes
a nest over less than all; every pass meets a nest that it changes and, for each of its conditions, one that only this condition keeps from it.

**Restrictions that state what the code does not do.** Each is a defect, an assumption that the code makes without a check, or a form that the code leaves
alone on purpose. A property covers what the inputs of its run show, and of that everything but these.

* `gemm_kernel` has K a multiple of BK, and level 2 without epilogue. The guarded loads have no else that clears a slot while
  the inner loop always runs BK times, so that with another K the last tile multiplies leftovers (`GemmLowering.cpp:1203`; the comment
  at line 1197 asks for a multiple of 4 only); level 2 applies the epilogue in each iteration of loopK (`:304`).
* `return_lowering` has no return in a loop (see `return_in_loop`; `LoweringIsSound` has the same hypothesis).
* `device_dispatch` has one usable device: `ScopedContext` computes its context once, while each probe may choose another
  default device (`CudaRuntimeWrappers.cpp:305`).
* `TokensCoverText` excepts texts with an empty comment: `SkipLineComment` (`lib/Lex/Lexer.cpp:238`) moves two characters on after
  one slash was consumed already, so `//` directly before a newline swallows the next line too. It also excepts texts that do not end in a newline, since look-ahead
  reads beyond the buffer (the character found there is the variable `past`).
* `NullIsReported` excepts the range of a `for` (`lib/Parse/Parser.cpp:322`), and `ParserEnds` the element loop of an array literal
  (`:289`), which spins on any token that starts no expression.
* `UntypedIsDiagnosed` is about programs that call functions: the call of a variable has neither a type nor a diagnostic (`TypeChecker.cpp:675`).
  The theorems about the checker have the hypothesis `Typeable`, which says this of a program, and that no assignment and no println! uses a variable in its own initializer or bounds,
  where it has no type yet: in `let y: i32 = (y = 1);` the check of mutability is skipped (`TypeChecker.cpp:344`), and the declared type is taken although the initializer has none (`:239`).
* `ValuesKept` excepts, by the predicates of the names given: an assignment or a unit call as an operand, which is dropped (`DropsValue`);
  unsigned values that are widened by `as`, an index or a bound, since MLIR's integers are signless (`WidensUnsigned`, `MLIRGen.cpp:88`);
  a cast or division to the right of an `=` that gives it another type (`RetypesOperation`, `TypeChecker.cpp:397`); a cast whose operand holds a literal
  behind a declared type (`LeaksExpected`, `:66`); array literals of another length than their type (`CountDiffers`); `&a[i]`, for which nothing is printed
  (`ElementReference`, `MLIRGen.cpp:1009`); and bounds wider than the i32 of the iterator (`LongRange`). `CallsKept` excepts
  calls in repeated elements, made once for each element or once in all (`RepeatsCall`, `MLIRGen.cpp:527-564`). Without any one of them the property fails.
* `MixedOnlyFails` says of a statement that is written in one type that it passes the verifier, but for statements for which there is no code: `DropsValue` and `LeaksExpected` as above;
  an index that is neither a literal nor a variable, accepted by the checker (`TypeChecker.cpp:163-203`) and an `llvm_unreachable` in the generator (`ComputedIndex`, `MLIRGen.cpp:609`, `:1428`, in the words of its assertion "Index can only be integer or variable.");
  the name of an array where a value is asked for, as in `let x = pair` (`WholeArray`, `MLIRGen.cpp:874`); compared references (`ComparesReferences`); and `let r = &a[i]`, whose value is the whole
  array (`ElementReference`, `:586`). Without any one of them the property fails.
* `MeaningKept` is checked on functions without: a pair of loops with equal bounds of which the second alone carries values, or of which
  the second uses values that the first carries (both in `fused_results`; `LoopFusion.cpp:38` keeps apart only two loops that both carry some);
  two loops that both access a fixed cell, or both print (`Utils.cpp:36-82`); nests over a part of the arrays (`raised_part`); pure `if`s and inner loops
  that use a value of the loop around them (`LICM.cpp:45` compares an operation's own operands only); bands with a dependence or a print, and a user's loop that holds
  nothing but a gemm (`LoopTiling.cpp:38` asks only the root of a band for the marker). Arrays of the functions are distinct.
* `ProductsRaised` is about the canonical form of `architecture.md:103-118`: loops over i, j and k with nothing between them, and all three loads, the product, the sum and the store
  in the innermost body. The run also has i-k-j and j-i-k nests and a sum that is carried through the inner loop: these compute a whole product as well, are not raised, as the document says, and go through the other passes (`MeaningKept`).
* `CompilationEnds` is about the phases as calls that return, so it does not contain the parser's loop that `ParserEnds` excepts.
* `NoTempLeft` and `ExitTellsProduct` name the returns that leave a file: the object file is opened before the target is asked
  whether it emits objects (`tools/trsc/main.cpp:401-407`).

**Fairness.** `DeviceDispatch`: weak fairness of the host thread, and of the GPU as a whole (the driver finishes or faults what it
accepted; that a fault is a possible outcome keeps the assumption weak). `GemmKernel`: weak fairness of the
threads of a resident block, which the hardware schedules until they end, and of the barrier once all have
reached it. `Parser` and `Compiler`: weak fairness of a sequential program's next step; a phase or a pass is a call that returns, and the linker is waited for without a
limit (`ExecuteAndWait`). The other modules claim no liveness.

**Deadlock** is checked where a state may not stop: `DeviceDispatch`, `GemmKernel` and `Parser` stutter explicitly at their ends.
`GemmShape`, `ReturnLowering`, `FrontEnd`, `Expressions` and `Compiler` stop when the input is done (`CHECK_DEADLOCK FALSE`);
`CompilationEnds` says that `Compiler` stops nowhere else.

## 4. Proofs

Checked by tlapm for every value of the constants, from the `ASSUME`s of the modules only.

**DeviceDispatchProofs**: any number of devices and gemms, any drivers, errors, levels and modes.
`IInv == TypeOK /\ Control /\ Queue /\ Data /\ Leak`. `ExactlyOnce` is not inductive: it speaks of the moments between gemms
only. `Control` says at each label what is known of C and the scratch *whatever failed*; `Queue` which work can
be in flight at all; `Data` what device memory holds *as long as no error was recorded and nothing faulted*, which
is what makes a clean `had_error` mean a result; `Leak` which handles are still to be released. One lemma per
action, then `TypeCorrect`, `ExactlyOnceHolds`, `NoErrorMeansResultHolds`, `OutputUntouchedHolds`, `NoDeviceLeakHolds`,
`QueuedWorkIsSafeHolds`, and `Refinement`: each step maps to a step of `GemmSemantics` or a stutter.

**GemmKernelProofs**: any shapes with `WellFormed` (the theorems' hypothesis `ShapesWellFormed`; `MCGemmKernel` assumes and TLC
evaluates that the shapes of the run have it; its geometric part is what `GemmShapeProofs` proves of every shape that is launched). The argument is by phases:
`Phases` says that between two barriers all threads are in the same phase of the same tile; `LoadedSlots`, `CurrentSlots` and
`NextSlots` which slots hold that tile or, with two buffers, the next one; `Results` what finished
threads wrote into cells that nobody else owns. Lemmas about multiples (`MultipleOrder`, `WholeTiles`, `TileCount`) carry the
arithmetic of K. Theorems: `TypeCorrect`, `ReadsCurrentTileHolds`, `ResultCorrectHolds`.

**GemmShapeProofs**: any levels 2 to 8, any problems, any override of positive sizes (`ShapeAssumption`), at the code's vector width and warp size, for
which alone its default shapes are right (`DefaultsAssumption`). `ShapeInv` says that the sizes are positive, that a tile is square at level 3 and that
the shape of level 8 passes `deriveOk` from `Check` on, be it by the fallback (`DefaultsOk`); so a `Checked` shape is one of which the geometry can be proved. `ProperOwner`: the rows and columns of a
cell, written in the mixed radix of warp, iteration, lane and place in the patch (`WarpPlaces`; at lower levels `PatchPlaces`), name its thread and its accumulator, and nothing else does; what
`deriveOk` asks for is exactly that those digits multiply to the tile. `ProperCovers`: a slot of shared memory is copied by the thread
whose number is its place modulo the threads (`StridedLoads`), in the unrolled slots of level 8 as well, whose count is rounded up (`UnrolledLoads`), and a thread multiplies slots within the tile only. The arithmetic is
nonlinear and beyond the solver by itself: products, quotients and remainders have their lemmas. Theorems: `CellsOwnedOnceHolds`, `TilesCoveredHolds`.

**DriverProofs**: any set of command lines over any strings, whatever the phases find.
`IInv == TypeOK /\ Gates /\ Writes /\ Temporary /\ \A read \in Readings : Follows(read)`. `ExitTellsProduct` compares the end with the
arguments, so the invariant must relate the options read so far to a prefix of them: `Readings` is the set of positions that are
read as arguments and not as the file name of an `-o` before them, `Follows` says that `options` is what the positions before `at` ask for. `Gates` says which
products can no longer be asked for at each gate of `main`, `Writes` what each exit code leaves, `Temporary` between which gates the temporary file can exist.
Theorems: `TypeCorrect`, `ExitTellsProductHolds`, `NoTempLeftHolds`.

**ReturnLoweringProofs**: any set of bodies with `IsBody` (substatements come after their statement; `BodiesAssumption`, which TLC evaluates
on the bodies of the run) and any number of iterations. `TypeCorrect` rests on `TInv`, which also types the statements that a region has left.
`LoweringIsSound` (`Spec => ImplementsSource`) has the hypothesis `ReturnsOutsideLoops`, the one that `return_in_loop` shows to be needed; `MCReturnLowering`
assumes that the bodies of the run have it. The inductive invariant is `TInv /\ RInv`. Its core is `Dropping`: whatever is inside a region
that drops its state is `Silent`, that is, it knows of no return and what it still has to execute holds none. `MayReturnFinds` justifies it where a region is
entered, since a statement of which `stmtMayReturn` says no is `Quiet`; the hypothesis justifies it for loops. `Innermost` says that only the innermost region can know of a
return, since whatever follows is under a guard. With both, the end of a region loses no return. The mapped state is then the todo lists
of all regions behind one another (`FlatPushed`), a step maps to the step of the same name, and guards and ends of regions map to none.
`NothingAfterReturn` follows along the mapped steps. The recursion of `stmtMayReturn` and of `FlattenSeq` is
over functions on finite intervals: `SetInduction` shows that these exist and what they are, as an induction over a set instead of a predicate.

**FrontEndProofs, the symbol table**: any threshold, names and symbols, and any client that enters, leaves and adds (`TableSpec`), of which the passes are one.
`TableInv` says that a scope was made after the one around it, holds a name once (`Once`) and, from the threshold on, has an index of
all its entries (`Indexed`); `AddedIsSound` shows that neither the entry that turns the scan into an index nor a later one breaks this.
`LookupFindsInnermost`: the scopes that a walk passes do not declare the name, and the one it ends at does (`FoundFrom`). The walk of `lookupSymbol` is a recursive
function; that it exists is `LookupExists`, by induction on the places of the scopes. The invariant of the scopes alone, `ScopesInv`, is used by the rest of the module.

**FrontEndProofs, names**: any set of programs whose nodes are in preorder and arranged as the parse functions arrange them (`ProgramsAssumption`, which TLC
evaluates on the programs of the run), any names, any threshold. A visitor's recursion is the stack `todo`, so what it still has to do must be known of
every stack that can occur. A node's descendants are an interval, `n .. End(p, n)` (`EndFacts`, `NestedSubtrees`), and so is what an item of the stack may yet
visit, `Lo .. Hi`; `Linked` (in `StackInv`) says that these intervals follow each other, so that the `Frontier`, where the first begins, divides the nodes of a program into those that
a pass is done with and those to come. `Homed` says that the items behind an `exit` are in the scope that it returns to. With these, `NamesInv` relates scopes to text: each scope was entered for a
node (`Opened`), the current one for the node around the item on top, the scopes around it are those of the text, and they hold exactly the declarations before the `Frontier`,
the first of each name (`Kept`, `Claims`). A use then gets what `LookupFindsInnermost` says, which is what the text shows (`Bounds`).
`Inv == StackInv /\ ValuesInv /\ NamesInv` is inductive: `InvHolds`, and from it `TypeOKHolds` and `BindsInnermostHolds`. `BindsInnermost` itself is
not: it speaks of the moment when all names have been resolved, and of nothing that an unfinished walk has left.

**AcceptedProgramProofs**: the same constants, and the hypothesis `Typeable(ast)` of a program (see Restrictions; `TypeableAssumption` of `MCFrontEnd` lets TLC evaluate that programs of every form of
the run have it). `Consistent` is inductive together with `Inv`. What a pass leaves for a later one is hidden in `type`, `mutable` and `op` of symbols, and it is complete only as long as nothing was
reported: `Accepting` says, for `errors = {}`, that names have symbols, that expressions, variables and targets of assignments which the checker is done with (`Passed`) have types, symbols and the right to be
assigned. A use may come by a variable whose type is not known yet in one case only, its own initializer: hence `Circular`. `Signatures` covers calls ahead of the declaration, `WalkInv` the
order in which the checker returns to a node between its children, `Generating` that MLIRGen has stored the operation of each variable before its `Frontier`, but for those of nested functions, which it leaves out
(`Hidden`) and to which no text outside can refer. One lemma per kind of step: steps that report (`errors` is not empty any more), steps that settle a node, declarations, steps of the generator. Theorems:
`ConsistentHolds`, `UntypedIsDiagnosedHolds`, `AssignsDeclaredMutHolds`, `AcceptedIsGeneratedHolds`.

**SyntaxProofs, the lexer**: any text over any characters (`AnyText`), any classes of characters and keywords that do not overlap (`LexerAssumption`: no letter is a punctuation, no keyword is named like
a class of tokens). `LexInv` types the lexer and says that every location asked for is `Exact`. That does not follow from the search alone: the cached line is trusted first, so the lemma is
`LineAtIsOn`, that each of the three answers of `getLocation` is the line `OnLine` of the pointer, and `OnLineIsExact`, that there is one such line, whose number and column count the newlines before it
(`LinesOfText` is an induction over the table that `buildLineStartCache` builds). `TokensCoverText` speaks of the token formed last, so `Covered` keeps what a comment leaves behind: from the last token to `cur`
there is `Trivia`, which a run of spaces and one more comment extend. One lemma per kind of token. Theorems: `LocationsExactHolds`, `TokensCoverTextHolds`.

**SyntaxProofs, the parser**: any text, any bound `MaxNodes` on the nodes of a call that is larger than one, and kinds none of which is called like `Null` (`NullAssumption`). A state of the parser is a stack of half-finished routines, and what makes it safe is
what each of them still has to do. `SyntaxTypeOK` asks only that no frame is without code; the inductive `ParserInv` says that every frame's code is made of instructions whose branches are code again (`IsCode`) and `Ends` in
one that leaves the routine, so that no step runs out of code. `NullIsReported` needs to know which nodes a frame holds. `Feeds` and its parts (`Fits`, `Supplied`, `Fed`) are a discipline of routines,
proved of each parse function (`Routines`): an instruction that looks at the last node has one to look at, only a routine that has reported returns `Null` of its own, and no node that it builds is called like `Null`. While there was no error, every node of a
frame that keeps this discipline is `Proper`: no `Null` below it but the range of a loop. `parseForStmt` does not keep it (its range is used unseen), so its frame is followed through its few stages (`ForCodeFrom`, `Looping`), and what `parseRangeExpr` may do where
such a frame waits for it (`WhereIn`) is told apart from what the same primaries may do elsewhere. `NullInv` is `Unbroken` stacks of such frames as long as nothing was reported; `ProperTree` takes it to the recursion of `Subtrees`.
`PrecedenceShapesTree` needs to know what a routine's code will make of its nodes. Code that neither climbs nor gives another routine's node back (`Mute`) returns no node of an operator, so most parse functions are done with at once (`MuteRoutines`);
`parsePrimary` returns none either (`Direct`, `Unary`, `Stopping`: `PrimaryIsSimple`), unless a parenthesis begins it. A call of `parseExpr(min)` is at its operand, at an operator or at a right operand (`InExpr`), and in each of these places
it is known how the operator of the left node, the one in hand, `min` and the token ahead compare. The recursion hands this over (`Yields`): what a call for `min` returns binds no less than `min`, and the token ahead binds less. `ShapeInv` says that every call
on the stack waits for what the call above it yields (`Expects`, `Kept`) as long as nothing was reported; `ShapedTree` takes it to `Subtrees`, as `ProperTree` does. The case without an error rests on `NullInv`: no instruction meets a node that is `Null`.
Theorems: `SyntaxTypeOKHolds`, `NullIsReportedHolds`, `PrecedenceShapesTreeHolds`.

**Only model-checked**: all liveness, and the fairness half of `ImplementsSemantics` (the prover does not do fairness). The expressions (`ValuesKept`, `CallsKept`, `MixedOnlyFails`) and the passes
(`MeaningKept`): their modules reach recursive operators over trees, for which the prover has no backend, and what these compute for every
tree would need an induction over data. So would `TreeKeepsOperands`, which compares the yield of a tree with the tokens.
Of programs that are not `Typeable`, what `front_end` enumerates.

## 5. Not modelled

* Runtime: events, memset, host registration, clusters, tensor maps, cuSPARSE; generated code never calls them. The text of printed numbers, string literals.
* Kernels: the transposed layout of A, vectorised fragments (the same elements in another order); divisions by zero
  in `deriveOk` for zero entries of `TRSC_GEMM_TILES` (`GemmLowering.cpp:1876`; the compiler itself stops on the signal); levels 9 and above, which are never lowered for a device.
  An array that is both an operand and C: each operand is staged by itself.
* Analysis and generation: strings, `char` and pointers; arrays of arrays, whole arrays as elements. `let x: i32 = x;` reads
  itself, as in the code, since the initializer is resolved behind the declaration.
  A `let` at the top level passes the analysis, and MLIRGen has no function to put it into
  (`MLIRGen.cpp:430`); the programs of the runs consist of functions.
* Parser: values of literals, source ranges; a node that `static_cast` takes for another class
  (`for 5 in ..`, `let x(1) =`, `[1; x]`, `Parser.cpp:536`) keeps its own class in the model. The precedences are taken as given: `+=` binds tighter
  than `*` (`Parser.cpp:28`), so that `x += y * 2` is `(x += y) * 2`.
* Passes: what MLIR's own passes do (canonicalization, CSE, mem2reg, unrolling, lowering to NVVM), and LLVM and the linker.
* The hash table of identifiers, the bump allocator, messages and counts of Diagnostics: maps and lists without a state that others see. Printers: read-only dumps.
  The dialect: declarations from which code is generated.

## 6. Plan

1. *Done*: dispatch and runtime with proofs; kernels with proofs; shapes with proofs; return lowering with proofs; analysis and generation with proofs; syntax with proofs;
   types and expressions; passes; driver with proofs; symbol table with proofs.
2. Proofs next: the steps of `Compiler` that are the driver's (`ExitTellsProduct` without the free choice).
3. Arrays of arrays in `ExpressionTypes` and `ExpressionGen`, with the copies of whole arrays as elements.
4. The statements of `SemanticAnalysis` over the types of `ValueTypes`, when recursion over trees can be kept out of the state.
