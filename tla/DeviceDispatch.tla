----------------------------- MODULE DeviceDispatch -----------------------------
(***************************************************************************)
(* The code that trsc emits for a matrix multiplication C += A * B that a  *)
(* program executes NumGemms times: the dispatch that                      *)
(* MaterializeDeviceDispatchPass wraps around each trscd.gemm              *)
(* (lib/MLIR/MatMulOpts/DeviceDispatch.cpp) and the staging, launch and    *)
(* copy-back that GemmLowering.cpp emits for a gemm tagged "cuda", down to *)
(* the calls of the runtime wrappers that MLIR's gpu-to-llvm makes of      *)
(* them.  The GPU runs concurrently: queued transfers and the kernel       *)
(* finish at any later time, and may fault.                                *)
(*                                                                         *)
(* Contents are abstract: a buffer holds the number of products summed in  *)
(* it, or Garbage.                                                         *)
(***************************************************************************)
EXTENDS CudaRuntime, Sequences

CONSTANTS
  Modes,        \* values of --device: among "CPU", "Auto" and "CUDA"
  Levels,       \* values of --matmul-opt-level
  NumGemms,     \* executions of the gemm; bounds the run
  HasBias       \* the epilogue fusion gave the gemm a bias operand

ASSUME DispatchAssumption ==
  /\ Modes \subseteq {"CPU", "Auto", "CUDA"}
  /\ Levels \subseteq 1 .. 8
  /\ NumGemms \in Nat
  /\ HasBias \in BOOLEAN

(* Operands in the order stageOnDevice and finishDevice handle them. *)
OperandOrder == IF HasBias THEN <<"A", "B", "C", "bias">> ELSE <<"A", "B", "C">>
Operand   == IF HasBias THEN {"A", "B", "C", "bias"} ELSE {"A", "B", "C"}
LastOperand == IF HasBias THEN 4 ELSE 3
Stream    == {"stageStream", "launchStream", "finishStream"}
Handle    == Operand \cup Stream
Work      == Operand \cup {"kernel", "copyBack"}

Garbage == -1
Freed   == -2
Content == Int

VARIABLES
  mode,       \* DeviceMode the program was compiled with
  level,      \* optLevel it was compiled with
  pc,         \* next step of the host program
  operand,    \* index of the operand being staged or freed
  completed,  \* gemms that are over
  hostC,      \* the program's C
  scratch,    \* the copy of C that Auto mode gives to CUDA, or Freed
  staged,     \* device operands whose contents have arrived
  deviceC     \* contents of the device copy of C

options   == <<mode, level>>
gpuState  == <<staged, deviceC>>
vars == <<runtimeVars, options, pc, operand, completed, hostC, scratch, gpuState>>

Init ==
  /\ RuntimeInit
  /\ mode \in Modes
  /\ level \in Levels
  /\ pc = "next"
  /\ operand = 1
  /\ completed = 0
  /\ hostC = 0
  /\ scratch = Freed
  /\ staged = {}
  /\ deviceC = Garbage

-------------------------------------------------------------------------------
(* Host program: dispatch                                                  *)

At(label)   == pc = label
Goto(label) == pc' = label

(* One product more, if the buffer held whole products. *)
Accumulate(content) == IF content < 0 THEN Garbage ELSE content + 1

(* The gemm is tagged for CUDA, so that it is staged and launched. *)
OnDevice == mode # "CPU" /\ level >= 2

(* Mode CPU, or a level below 2: the level 1 loops run on the host. *)
RunOnHost ==
  /\ At("next") /\ completed < NumGemms /\ ~OnDevice
  /\ hostC' = Accumulate(hostC)
  /\ completed' = completed + 1
  /\ UNCHANGED <<runtimeVars, options, gpuState, pc, operand, scratch>>

(* Seeded fault: a missing device is fatal in every mode. *)
ProbeOrAbort ==
  /\ At("next") /\ completed < NumGemms /\ OnDevice
  /\ \E available \in BOOLEAN :
       /\ trsc_cuda_is_available(available)
       /\ Goto(IF available THEN "enter" ELSE "abort")
  /\ UNCHANGED <<options, gpuState, operand, completed, hostC, scratch>>

Probe ==
  /\ At("next") /\ completed < NumGemms /\ OnDevice
  /\ \E available \in BOOLEAN :
       /\ trsc_cuda_is_available(available)
       /\ Goto(IF available THEN "enter"
               ELSE IF mode = "Auto" THEN "fallback" ELSE "abort")
  /\ UNCHANGED <<options, gpuState, operand, completed, hostC, scratch>>

(* Handles of the previous gemm are out of the program's reach from here.  *)
EnterCuda ==
  /\ At("enter")
  /\ trsc_cuda_reset_error
  /\ scratch' = IF mode = "Auto" THEN hostC ELSE scratch
  /\ live' = {} /\ freeFailed' = {}
  /\ staged' = {} /\ deviceC' = Garbage
  /\ Goto("createStage")
  /\ UNCHANGED <<api, defaultDevice, context, loaded, function, inflight,
                 faulted, options, operand, completed, hostC>>

(* Seeded faults: the scratch is copied whatever had_error says; a       *)
(* failed gemm is tried again on the device.                                *)
CopyThenCheck ==
  /\ At("check")
  /\ hostC' = IF mode = "Auto" THEN scratch ELSE hostC
  /\ IF trsc_cuda_had_error
     THEN /\ Goto(IF mode = "Auto" THEN "fallback" ELSE "abort")
          /\ UNCHANGED completed
     ELSE IF mode = "Auto"
     THEN Goto("dealloc") /\ UNCHANGED completed
     ELSE Goto("next") /\ completed' = completed + 1
  /\ UNCHANGED <<runtimeVars, options, gpuState, operand, scratch>>

RetryOnError ==
  /\ At("check")
  /\ IF trsc_cuda_had_error
     THEN Goto("enter") /\ UNCHANGED <<completed, hostC>>
     ELSE /\ Goto("next")
          /\ hostC' = IF mode = "Auto" THEN scratch ELSE hostC
          /\ completed' = completed + 1
  /\ UNCHANGED <<runtimeVars, options, gpuState, operand, scratch>>

(* had_error decides between recovery, abort and the copy of the scratch. *)
CheckError ==
  /\ At("check")
  /\ IF trsc_cuda_had_error
     THEN /\ Goto(IF mode = "Auto" THEN "fallback" ELSE "abort")
          /\ UNCHANGED <<completed, hostC>>
     ELSE IF mode = "Auto"
     THEN /\ Goto("dealloc")
          /\ hostC' = scratch
          /\ UNCHANGED completed
     ELSE /\ Goto("next")
          /\ completed' = completed + 1
          /\ UNCHANGED hostC
  /\ UNCHANGED <<runtimeVars, options, gpuState, operand, scratch>>

(* The clone tagged "cpu", in the recovery and in the unavailable branch;   *)
(* only the first has a scratch to release afterwards.                      *)
Fallback ==
  /\ At("fallback")
  /\ hostC' = Accumulate(hostC)
  /\ IF scratch = Freed
     THEN Goto("next") /\ completed' = completed + 1
     ELSE Goto("dealloc") /\ UNCHANGED completed
  /\ UNCHANGED <<runtimeVars, options, gpuState, operand, scratch>>

DeallocScratch ==
  /\ At("dealloc")
  /\ scratch' = Freed
  /\ completed' = completed + 1
  /\ Goto("next")
  /\ UNCHANGED <<runtimeVars, options, gpuState, operand, hostC>>

(* Normal exit and trsc_cuda_abort both run the global destructors. *)
Exit ==
  /\ \/ At("next") /\ completed = NumGemms /\ Goto("exited")
     \/ At("abort") /\ Goto("aborted")
  /\ mgpuModuleUnload
  /\ UNCHANGED <<options, gpuState, operand, completed, hostC, scratch>>

-------------------------------------------------------------------------------
(* Host program: staging, launch, copy-back.  No step looks at an error.    *)

Step(from, to) == At(from) /\ Goto(to)

KeepBuffers == UNCHANGED <<options, gpuState, completed, hostC, scratch>>

CreateStage ==
  /\ Step("createStage", "alloc")
  /\ mgpuStreamCreate("stageStream")
  /\ operand' = 1
  /\ KeepBuffers

StageAlloc ==
  /\ Step("alloc", "copy")
  /\ mgpuMemAlloc(OperandOrder[operand])
  /\ UNCHANGED operand /\ KeepBuffers

StageCopy ==
  LET o == OperandOrder[operand] IN
  /\ At("copy")
  /\ mgpuMemcpy(o, o \in live)
  /\ IF operand < LastOperand
     THEN operand' = operand + 1 /\ Goto("alloc")
     ELSE operand' = 1 /\ Goto("syncStage")
  /\ KeepBuffers

(* Seeded fault: the wait is for another stream. *)
SyncOtherStream ==
  /\ Step("syncStage", "destroyStage")
  /\ mgpuStreamSynchronize({"kernel"})
  /\ UNCHANGED operand /\ KeepBuffers

SyncStage ==
  /\ Step("syncStage", "destroyStage")
  /\ mgpuStreamSynchronize(Operand)
  /\ UNCHANGED operand /\ KeepBuffers

DestroyStage ==
  /\ Step("destroyStage", "getFunction")
  /\ mgpuStreamDestroy("stageStream")
  /\ UNCHANGED operand /\ KeepBuffers

GetFunction ==
  /\ Step("getFunction", "createLaunch")
  /\ mgpuModuleGetFunction
  /\ UNCHANGED operand /\ KeepBuffers

CreateLaunch ==
  /\ Step("createLaunch", "launch")
  /\ mgpuStreamCreate("launchStream")
  /\ UNCHANGED operand /\ KeepBuffers

Launch ==
  /\ Step("launch", "syncLaunch")
  /\ mgpuLaunchKernel("kernel")
  /\ UNCHANGED operand /\ KeepBuffers

SyncLaunch ==
  /\ Step("syncLaunch", "destroyLaunch")
  /\ mgpuStreamSynchronize({"kernel"})
  /\ UNCHANGED operand /\ KeepBuffers

DestroyLaunch ==
  /\ Step("destroyLaunch", "createFinish")
  /\ mgpuStreamDestroy("launchStream")
  /\ UNCHANGED operand /\ KeepBuffers

CreateFinish ==
  /\ Step("createFinish", "copyBack")
  /\ mgpuStreamCreate("finishStream")
  /\ UNCHANGED operand /\ KeepBuffers

CopyBack ==
  /\ Step("copyBack", "free")
  /\ mgpuMemcpy("copyBack", "C" \in live)
  /\ operand' = 1
  /\ KeepBuffers

(* Seeded faults: one operand too many; buffers kept after an error. *)
FreePastLast ==
  /\ At("free")
  /\ mgpuMemFree(OperandOrder[operand])
  /\ IF operand <= LastOperand
     THEN operand' = operand + 1 /\ UNCHANGED pc
     ELSE operand' = 1 /\ Goto("syncFinish")
  /\ KeepBuffers

FreeUnlessError ==
  /\ At("free")
  /\ IF trsc_cuda_had_error THEN UNCHANGED runtimeVars
     ELSE mgpuMemFree(OperandOrder[operand])
  /\ IF operand < LastOperand
     THEN operand' = operand + 1 /\ UNCHANGED pc
     ELSE operand' = 1 /\ Goto("syncFinish")
  /\ KeepBuffers

Free ==
  /\ At("free")
  /\ mgpuMemFree(OperandOrder[operand])
  /\ IF operand < LastOperand
     THEN operand' = operand + 1 /\ UNCHANGED pc
     ELSE operand' = 1 /\ Goto("syncFinish")
  /\ KeepBuffers

SyncFinish ==
  /\ Step("syncFinish", "destroyFinish")
  /\ mgpuStreamSynchronize({"copyBack"})
  /\ UNCHANGED operand /\ KeepBuffers

DestroyFinish ==
  /\ Step("destroyFinish", "check")
  /\ mgpuStreamDestroy("finishStream")
  /\ UNCHANGED operand /\ KeepBuffers

-------------------------------------------------------------------------------
(* The GPU (external)                                                      *)

(* The buffer given to the gemm tagged "cuda". *)
Target == IF mode = "Auto" THEN scratch ELSE hostC

Finish(work) ==
  /\ work \in inflight /\ ~faulted
  /\ inflight' = inflight \ {work}
  /\ UNCHANGED <<options, hostVars, live, freeFailed, faulted, pc, operand, completed>>

(* A host-to-device transfer arrives. *)
FinishTransfer(o) ==
  /\ Finish(o)
  /\ staged' = IF o \in live THEN staged \cup {o} ELSE staged
  /\ deviceC' = IF o = "C" THEN IF o \in live THEN Target ELSE Garbage
                ELSE deviceC
  /\ UNCHANGED <<hostC, scratch>>

(* The kernel reads operands that have all arrived and are still allocated, *)
(* or produces garbage.                                                     *)
FinishKernel ==
  /\ Finish("kernel")
  /\ deviceC' = IF Operand \subseteq staged \cap live
                THEN Accumulate(deviceC) ELSE Garbage
  /\ UNCHANGED <<staged, hostC, scratch>>

(* Seeded fault: the gemm for CUDA is given C itself. *)
FinishCopyBackIntoC ==
  /\ Finish("copyBack")
  /\ hostC' = IF "C" \in live THEN deviceC ELSE Garbage
  /\ UNCHANGED <<scratch, gpuState>>

FinishCopyBack ==
  /\ Finish("copyBack")
  /\ LET content == IF "C" \in live THEN deviceC ELSE Garbage IN
     IF mode = "Auto"
     THEN scratch' = content /\ UNCHANGED hostC
     ELSE hostC' = content /\ UNCHANGED scratch
  /\ UNCHANGED gpuState

(* Queued work faults: nothing in the context runs any more, and the buffer *)
(* that was being written is garbage.                                       *)
Fault(work) ==
  /\ work \in inflight /\ ~faulted
  /\ faulted' = TRUE
  /\ inflight' = {}
  /\ deviceC' = IF work \in {"C", "kernel"} THEN Garbage ELSE deviceC
  /\ hostC' = IF work = "copyBack" /\ mode # "Auto" THEN Garbage ELSE hostC
  /\ scratch' = IF work = "copyBack" /\ mode = "Auto" THEN Garbage ELSE scratch
  /\ UNCHANGED <<options, hostVars, live, freeFailed, staged, pc, operand, completed>>

-------------------------------------------------------------------------------

Stage  == CreateStage \/ StageAlloc \/ StageCopy \/ SyncStage \/ DestroyStage
Run    == GetFunction \/ CreateLaunch \/ Launch \/ SyncLaunch \/ DestroyLaunch
Retire == CreateFinish \/ CopyBack \/ Free \/ SyncFinish \/ DestroyFinish

Host == RunOnHost \/ Probe \/ EnterCuda \/ Stage \/ Run \/ Retire
          \/ CheckError \/ Fallback \/ DeallocScratch \/ Exit

Gpu == (\E o \in Operand : FinishTransfer(o)) \/ FinishKernel \/ FinishCopyBack
          \/ (\E work \in Work : Fault(work))

(* The process is gone. *)
Terminated == pc \in {"exited", "aborted"} /\ UNCHANGED vars

Next == Host \/ Gpu \/ Terminated

Spec == Init /\ [][Next]_vars

(* The host thread is scheduled, and the driver finishes or faults the work *)
(* it accepted.                                                             *)
FairSpec == Spec /\ WF_vars(Host) /\ WF_vars(Gpu)

-------------------------------------------------------------------------------
(* Properties                                                              *)

(* Labels of the steps at which no gemm is under way, and of those between  *)
(* the copy into the scratch and the question to had_error.                 *)
Boundary == {"next", "exited"}
CudaSteps == {"createStage", "alloc", "copy", "syncStage", "destroyStage",
              "getFunction", "createLaunch", "launch", "syncLaunch",
              "destroyLaunch", "createFinish", "copyBack", "free",
              "syncFinish", "destroyFinish", "check"}
Labels == Boundary \cup CudaSteps \cup {"enter", "fallback", "dealloc", "abort", "aborted"}

(* Every variable keeps its type: errors are ones the runtime can record,   *)
(* handles and queued work are those of one gemm.                           *)
TypeOK ==
  /\ RuntimeTypeOK(Handle, Work)
  /\ mode \in Modes
  /\ level \in Levels
  /\ pc \in Labels
  /\ operand \in 1 .. LastOperand
  /\ completed \in 0 .. NumGemms
  /\ hostC \in Content
  /\ scratch \in Content
  /\ staged \subseteq Operand
  /\ deviceC \in Content

(* Between gemms, C holds every completed product once: no fault, failed    *)
(* call or fallback of MaterializeDeviceDispatchPass loses one, applies one *)
(* twice or leaves a partial result.                                        *)
ExactlyOnce == pc \in Boundary => hostC = completed

(* had_error can be trusted: no recorded error when it is asked means that  *)
(* the staged copy holds the product, although no step between reset_error  *)
(* and had_error looked at a result and the GPU worked on its own.          *)
NoErrorMeansResult ==
  pc = "check" /\ cudaRuntimeError = Success => Target = completed + 1

(* "without corrupting the output buffer" (README.md:206): in Auto mode,    *)
(* whatever the GPU writes and whenever it faults, C itself stays as it was *)
(* until had_error has been asked.                                          *)
OutputUntouched ==
  mode = "Auto" /\ pc \in CudaSteps => hostC = completed

(* When had_error is asked, the device holds no handle of this gemm except  *)
(* those whose release the driver refused: the calls after a failed one     *)
(* still free what the earlier ones allocated.                              *)
NoDeviceLeak == pc = "check" => live \subseteq freeFailed

(* Queued work never outlives what it uses: transfers and the kernel find   *)
(* their operands allocated, and nothing is queued once the scratch is      *)
(* released or C is handed back to the program.                             *)
QueuedWorkIsSafe ==
  /\ pc \notin CudaSteps => inflight = {}
  /\ \A o \in Operand : o \in inflight => o \in live
  /\ "kernel" \in inflight => inflight \cap Operand = {}
  /\ "copyBack" \in inflight => "C" \in live /\ "kernel" \notin inflight

(* Every program finishes: the host never waits for work that cannot end.  *)
Termination == <>(pc \in {"exited", "aborted"})

(* The dispatch implements GemmSemantics: what the program sees of C        *)
(* between gemms is a sum that grows by one product per gemm, and only a    *)
(* program compiled with --device=cuda may stop early.                      *)
Semantics == INSTANCE GemmSemantics WITH
  required <- mode = "CUDA",
  c <- IF pc \in Boundary THEN hostC ELSE completed,
  status <- IF pc \in {"exited", "aborted"} THEN pc ELSE "running"

ImplementsSemantics == Semantics!FairSpec
===============================================================================
