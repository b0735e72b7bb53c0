-------------------------- MODULE DeviceDispatchProofs --------------------------
(***************************************************************************)
(* Proofs about DeviceDispatch, for every set of devices, drivers, modes,  *)
(* levels and number of gemms.                                             *)
(***************************************************************************)
EXTENDS DeviceDispatch, TLAPS

(***************************************************************************)
(* The inductive invariant.  Control says what is known of C, of the       *)
(* scratch and of the counters at each label whatever failed; Queue which  *)
(* work can be in flight; Data what is known of device memory as long as   *)
(* nothing failed; Leak which handles are still to be released.            *)
(***************************************************************************)
Staging  == {"alloc", "copy", "syncStage"}
Staged   == {"destroyStage", "getFunction", "createLaunch", "launch"}
Launched == {"destroyLaunch", "createFinish", "copyBack"}
Retiring == {"free", "syncFinish"}
Retired  == {"destroyFinish", "check"}

Control ==
  /\ pc \in {"next", "exited"} => hostC = completed
  /\ pc = "exited" => completed = NumGemms
  /\ pc \in CudaSteps \cup {"enter", "fallback", "dealloc", "abort", "aborted"} =>
       completed < NumGemms /\ mode # "CPU"
  /\ pc \in {"enter", "fallback"} => hostC = completed
  /\ pc \in {"fallback", "dealloc"} => mode = "Auto"
  /\ pc \in {"abort", "aborted"} => mode = "CUDA"
  /\ pc = "dealloc" => hostC = completed + 1
  /\ pc \in CudaSteps /\ mode = "Auto" => hostC = completed
  /\ pc \in CudaSteps \ (Retiring \cup Retired) => Target = completed

Queue ==
  /\ faulted => inflight = {}
  /\ pc \in Staging => inflight \subseteq Operand \cap live
  /\ pc = "syncLaunch" => inflight \subseteq {"kernel"}
  /\ pc \in Retiring => inflight \subseteq {"copyBack"}
  /\ "copyBack" \in inflight => "C" \in live
  /\ pc \notin Staging \cup Retiring \cup {"syncLaunch"} => inflight = {}

Clean == cudaRuntimeError = Success /\ ~faulted

InPlace(o) == o \in live /\ o \in staged \cup inflight

Data ==
  /\ pc = "createStage" => staged = {}
  /\ pc \in Retired /\ cudaRuntimeError = Success => ~faulted
  /\ Clean =>
     /\ pc \in Staging \cup Staged /\ "C" \in staged => deviceC = completed
     /\ pc \in {"alloc", "copy"} =>
          \A i \in 1 .. operand - 1 : InPlace(OperandOrder[i])
     /\ pc = "copy" => OperandOrder[operand] \in live
     /\ pc = "syncStage" => \A o \in Operand : InPlace(o)
     /\ pc \in Staged \cup {"syncLaunch"} => Operand \subseteq live \cap staged
     /\ pc = "syncLaunch" =>
          deviceC = IF "kernel" \in inflight THEN completed ELSE completed + 1
     /\ pc \in Launched => "C" \in live /\ deviceC = completed + 1
     /\ pc \in Retiring =>
          IF "copyBack" \in inflight
          THEN "C" \in live /\ deviceC = completed + 1
          ELSE Target = completed + 1
     /\ pc \in Retired => Target = completed + 1

Unreleased ==
  CASE pc \in Staging \cup {"createStage", "destroyStage"} -> Operand \cup {"stageStream"}
    [] pc \in {"getFunction", "createLaunch", "createFinish"} -> Operand
    [] pc \in {"launch", "syncLaunch", "destroyLaunch"} -> Operand \cup {"launchStream"}
    [] pc = "copyBack" -> Operand \cup {"finishStream"}
    [] pc = "free" -> {OperandOrder[i] : i \in operand .. LastOperand} \cup {"finishStream"}
    [] pc \in {"syncFinish", "destroyFinish"} -> {"finishStream"}
    [] OTHER -> {}

Leak == pc \in CudaSteps => live \subseteq freeFailed \cup Unreleased

IInv == TypeOK /\ Control /\ Queue /\ Data /\ Leak

-------------------------------------------------------------------------------
(* Lemmas about the operand order and the wrappers.                        *)

(* OperandOrder enumerates the operands, without a gap.                     *)
LEMMA Operands ==
  /\ LastOperand \in Nat /\ LastOperand >= 1
  /\ \A i \in 1 .. LastOperand : OperandOrder[i] \in Operand
  /\ \A o \in Operand : \E i \in 1 .. LastOperand : OperandOrder[i] = o
<1>1. CASE HasBias
  <2>1. /\ OperandOrder[1] = "A" /\ OperandOrder[2] = "B"
        /\ OperandOrder[3] = "C" /\ OperandOrder[4] = "bias"
    BY <1>1 DEF OperandOrder
  <2>2. QED
    BY <1>1, <2>1 DEF Operand, LastOperand
<1>2. CASE ~HasBias
  <2>1. /\ OperandOrder[1] = "A" /\ OperandOrder[2] = "B" /\ OperandOrder[3] = "C"
    BY <1>2 DEF OperandOrder
  <2>2. QED
    BY <1>2, <2>1 DEF Operand, LastOperand
<1>3. QED
  BY <1>1, <1>2

(* reportCudaError keeps the first error: Success is recorded only if both  *)
(* results were Success.                                                    *)
LEMMA FirstErrorSuccess ==
  ASSUME NEW a \in Result, NEW b \in Result
  PROVE  /\ FirstError(a, b) \in Result
         /\ FirstError(a, b) = Success <=> a = Success /\ b = Success
  BY DEF FirstError

(* callCuda returns Success only if the driver is alive and its arguments   *)
(* are good; otherwise it returns an error, never anything else.            *)
LEMMA CallResult ==
  ASSUME NEW symbol, NEW valid
  PROVE  /\ CallResults(symbol, valid) \subseteq Result
         /\ Success \in CallResults(symbol, valid) => ~faulted /\ valid
  BY DriverAssumption DEF CallResults, Result, Success, NotSupported, NotInitialized

(* What a call inside a ScopedContext leaves behind.                        *)
LEMMA InContextEffect ==
  ASSUME TypeOK, NEW symbol, NEW valid,
         NEW result \in Result, NEW first \in Result,
         InContext(symbol, valid, result, first)
  PROVE  /\ context' \in Device \cup {0, NullContext, Uninitialized}
         /\ first = Success => result = Success
         /\ result = Success => ~faulted /\ valid
<1>1. PICK ctx \in {NullContext} \cup Device \cup {0}, created \in Result :
        /\ context' = ctx
        /\ \E push \in CallResults("CtxPushCurrent", ctx # NullContext) :
             /\ result \in CallResults(symbol, valid /\ push = Success)
             /\ \E pop \in CallResults("CtxPopCurrent", push = Success) :
                  first = FirstError(FirstError(created, push), FirstError(result, pop))
  BY DEF InContext
<1>2. PICK push \in CallResults("CtxPushCurrent", ctx # NullContext) :
        /\ result \in CallResults(symbol, valid /\ push = Success)
        /\ \E pop \in CallResults("CtxPopCurrent", push = Success) :
             first = FirstError(FirstError(created, push), FirstError(result, pop))
  BY <1>1
<1>3. PICK pop \in CallResults("CtxPopCurrent", push = Success) :
        first = FirstError(FirstError(created, push), FirstError(result, pop))
  BY <1>2
<1>4. push \in Result /\ pop \in Result
  BY <1>2, <1>3, CallResult
<1>5. first = Success => result = Success
  <2>1. FirstError(created, push) \in Result /\ FirstError(result, pop) \in Result
    BY <1>4, FirstErrorSuccess
  <2>2. first = Success => FirstError(result, pop) = Success
    BY <2>1, <1>3, FirstErrorSuccess
  <2>3. QED
    BY <2>2, <1>4, FirstErrorSuccess
<1>6. ASSUME result = Success
      PROVE  ~faulted /\ valid
  <2>1. Success \in CallResults(symbol, valid /\ push = Success)
    BY <1>2, <1>6
  <2>2. QED
    BY <2>1, DriverAssumption DEF CallResults, Success, NotSupported
<1>7. QED
  BY <1>1, <1>5, <1>6

(* trsc_cuda_is_available records an error and an ordinal, nothing else.    *)
LEMMA ProbeEffect ==
  ASSUME TypeOK, NEW available, trsc_cuda_is_available(available)
  PROVE  /\ cudaRuntimeError' \in Result
         /\ defaultDevice' \in Device \cup {NoDevice}
         /\ UNCHANGED <<api, context, loaded, function, driverVars>>
  BY DEF trsc_cuda_is_available, Result

(* reportCudaError leaves no error only if there was none and none came.    *)
LEMMA ReportEffect ==
  ASSUME TypeOK, NEW result \in Result, Report(result)
  PROVE  /\ cudaRuntimeError' \in Result
         /\ cudaRuntimeError' = Success => cudaRuntimeError = Success /\ result = Success
  BY FirstErrorSuccess DEF TypeOK, RuntimeTypeOK, Report

(* A creating wrapper that leaves no error has created its handle.          *)
LEMMA CreateEffect ==
  ASSUME TypeOK, NEW symbol, NEW handle \in Handle, Create(symbol, handle)
  PROVE  /\ cudaRuntimeError' \in Result
         /\ context' \in Device \cup {0, NullContext, Uninitialized}
         /\ live \subseteq live' /\ live' \subseteq live \cup {handle}
         /\ cudaRuntimeError' = Success =>
              cudaRuntimeError = Success /\ handle \in live'
         /\ UNCHANGED <<api, defaultDevice, loaded, function, freeFailed,
                        inflight, faulted>>
<1>1. PICK result \in Result, first \in Result :
        /\ InContext(symbol, TRUE, result, first)
        /\ Report(first)
        /\ live' = IF result = Success THEN live \cup {handle} ELSE live
        /\ UNCHANGED <<api, defaultDevice, loaded, function, freeFailed,
                       inflight, faulted>>
  BY DEF Create
<1>2. /\ context' \in Device \cup {0, NullContext, Uninitialized}
      /\ first = Success => result = Success
  BY <1>1, InContextEffect
<1>3. /\ cudaRuntimeError' \in Result
      /\ cudaRuntimeError' = Success => cudaRuntimeError = Success /\ first = Success
  BY <1>1, ReportEffect
<1>4. QED
  BY <1>1, <1>2, <1>3

(* A releasing wrapper releases its handle, or the driver has refused to.   *)
LEMMA ReleaseEffect ==
  ASSUME TypeOK, NEW symbol, NEW valid, NEW handle \in Handle,
         Release(symbol, handle, valid)
  PROVE  /\ cudaRuntimeError' \in Result
         /\ live' \subseteq live /\ live \subseteq live' \cup {handle}
         /\ freeFailed \subseteq freeFailed' /\ freeFailed' \subseteq Handle
         /\ handle \in live' => handle \in freeFailed'
         /\ cudaRuntimeError' = Success => cudaRuntimeError = Success
         /\ UNCHANGED <<api, defaultDevice, context, loaded, function,
                        inflight, faulted>>
<1>1. PICK result \in CallResults(symbol, valid) :
        /\ Report(result)
        /\ live' = IF result = Success THEN live \ {handle} ELSE live
        /\ freeFailed' = IF result # Success /\ handle \in live
                         THEN freeFailed \cup {handle} ELSE freeFailed
        /\ UNCHANGED <<api, defaultDevice, context, loaded, function,
                       inflight, faulted>>
  BY DEF Release
<1>2. result \in Result
  BY CallResult
<1>3. /\ cudaRuntimeError' \in Result
      /\ cudaRuntimeError' = Success => cudaRuntimeError = Success
  BY <1>1, <1>2, ReportEffect
<1>4. QED
  BY <1>1, <1>3 DEF TypeOK, RuntimeTypeOK

(* mgpuMemcpy that leaves no error has queued the transfer.                 *)
LEMMA MemcpyEffect ==
  ASSUME TypeOK, NEW work \in Work, NEW valid, mgpuMemcpy(work, valid)
  PROVE  /\ cudaRuntimeError' \in Result
         /\ \/ inflight' = inflight
            \/ inflight' = inflight \cup {work} /\ valid /\ ~faulted
         /\ cudaRuntimeError' = Success =>
              cudaRuntimeError = Success /\ work \in inflight'
         /\ UNCHANGED <<api, defaultDevice, context, loaded, function, live,
                        freeFailed, faulted>>
<1>1. PICK result \in CallResults("MemcpyAsync", valid) :
        /\ Report(result)
        /\ inflight' = IF result = Success THEN inflight \cup {work} ELSE inflight
        /\ UNCHANGED <<api, defaultDevice, context, loaded, function, live,
                       freeFailed, faulted>>
  BY DEF mgpuMemcpy
<1>2. result \in Result /\ (result = Success => ~faulted /\ valid)
  BY CallResult
<1>3. /\ cudaRuntimeError' \in Result
      /\ cudaRuntimeError' = Success => cudaRuntimeError = Success /\ result = Success
  BY <1>1, <1>2, ReportEffect
<1>4. QED
  BY <1>1, <1>2, <1>3

(* mgpuStreamSynchronize that leaves no error has waited for a live device. *)
LEMMA SynchronizeEffect ==
  ASSUME TypeOK, NEW work, mgpuStreamSynchronize(work)
  PROVE  /\ cudaRuntimeError' \in Result
         /\ faulted' \in BOOLEAN
         /\ faulted' => inflight' = {}
         /\ \/ inflight' = {}
            \/ inflight' = inflight /\ work \cap inflight = {}
         /\ cudaRuntimeError' = Success =>
              /\ cudaRuntimeError = Success
              /\ ~faulted /\ ~faulted'
              /\ inflight' = inflight /\ work \cap inflight = {}
         /\ UNCHANGED <<api, defaultDevice, context, loaded, function, live,
                        freeFailed>>
<1>1. PICK result \in CallResults("StreamSynchronize", TRUE) :
        /\ Report(result)
        /\ faulted' = (result # Success)
        /\ inflight' = IF result = Success THEN inflight ELSE {}
  BY DEF mgpuStreamSynchronize
<1>2. result \in Result /\ (result = Success => ~faulted)
  BY CallResult
<1>3. /\ cudaRuntimeError' \in Result
      /\ cudaRuntimeError' = Success => cudaRuntimeError = Success /\ result = Success
  BY <1>1, <1>2, ReportEffect
<1>4. QED
  BY <1>1, <1>2, <1>3 DEF mgpuStreamSynchronize

(* mgpuModuleGetFunction, with or without a load, touches no device memory. *)
LEMMA GetFunctionEffect ==
  ASSUME TypeOK, mgpuModuleGetFunction
  PROVE  /\ cudaRuntimeError' \in Result
         /\ context' \in Device \cup {0, NullContext, Uninitialized}
         /\ loaded' \in BOOLEAN /\ function' \in BOOLEAN
         /\ cudaRuntimeError' = Success => cudaRuntimeError = Success
         /\ UNCHANGED <<api, defaultDevice, driverVars>>
<1> DEFINE Get(before) == \E result \in CallResults("ModuleGetFunction", TRUE) :
                           /\ function' = (result = Success)
                           /\ Report(FirstError(before, result))
<1>1. ASSUME NEW before \in Result, Get(before)
      PROVE  /\ function' \in BOOLEAN /\ cudaRuntimeError' \in Result
             /\ cudaRuntimeError' = Success => cudaRuntimeError = Success
  <2>1. PICK result \in CallResults("ModuleGetFunction", TRUE) :
          /\ function' = (result = Success)
          /\ Report(FirstError(before, result))
    BY <1>1
  <2>2. FirstError(before, result) \in Result
    BY <2>1, CallResult, FirstErrorSuccess
  <2>3. QED
    BY <2>1, <2>2, ReportEffect
<1>2. CASE loaded /\ UNCHANGED <<loaded, context>> /\ Get(Success)
  BY <1>1, <1>2 DEF TypeOK, RuntimeTypeOK, mgpuModuleGetFunction, Result
<1>3. CASE \E s : \E result, first \in Result :
             /\ InContext(s, TRUE, result, first)
             /\ loaded' = (result = Success)
             /\ IF result = Success
                THEN Get(first) ELSE function' = FALSE /\ Report(first)
  <2>1. PICK s : \E result, first \in Result :
             /\ InContext(s, TRUE, result, first)
             /\ loaded' = (result = Success)
             /\ IF result = Success
                THEN Get(first) ELSE function' = FALSE /\ Report(first)
    BY <1>3
  <2>2. PICK result \in Result, first \in Result :
             /\ InContext(s, TRUE, result, first)
             /\ loaded' = (result = Success)
             /\ IF result = Success
                THEN Get(first) ELSE function' = FALSE /\ Report(first)
    BY <2>1
  <2>3. context' \in Device \cup {0, NullContext, Uninitialized}
    BY <2>2, InContextEffect
  <2>4. /\ function' \in BOOLEAN /\ cudaRuntimeError' \in Result
        /\ cudaRuntimeError' = Success => cudaRuntimeError = Success
    <3>1. CASE result = Success
      BY <1>1, <2>2, <3>1
    <3>2. CASE result # Success
      BY <2>2, <3>2, ReportEffect
    <3>3. QED
      BY <3>1, <3>2
  <2>5. QED
    BY <2>2, <2>3, <2>4 DEF mgpuModuleGetFunction
<1>4. QED
  BY <1>2, <1>3 DEF mgpuModuleGetFunction

(* mgpuLaunchKernel that leaves no error has queued the kernel.             *)
LEMMA LaunchEffect ==
  ASSUME TypeOK, NEW kernel \in Work, mgpuLaunchKernel(kernel)
  PROVE  /\ cudaRuntimeError' \in Result
         /\ context' \in Device \cup {0, NullContext, Uninitialized}
         /\ \/ inflight' = inflight
            \/ inflight' = inflight \cup {kernel} /\ ~faulted
         /\ cudaRuntimeError' = Success =>
              cudaRuntimeError = Success /\ kernel \in inflight'
         /\ UNCHANGED <<api, defaultDevice, loaded, function, live, freeFailed,
                        faulted>>
<1> DEFINE Queries == IF DynamicSharedMemory
                      THEN UNION {CallResults(s, TRUE) : s \in
                             {"DeviceGet", "DeviceGetAttribute", "FuncSetAttribute"}}
                      ELSE {Success}
<1>1. PICK result \in Result, first \in Result :
        /\ InContext("LaunchKernel", function, result, first)
        /\ inflight' = IF result = Success THEN inflight \cup {kernel} ELSE inflight
        /\ \E queries \in Queries : Report(FirstError(queries, first))
  BY DEF mgpuLaunchKernel
<1>2. PICK queries \in Queries : Report(FirstError(queries, first))
  BY <1>1
<1>3. queries \in Result
  BY <1>2, CallResult DEF Result
<1>4. FirstError(queries, first) \in Result
      /\ (FirstError(queries, first) = Success => first = Success)
  BY <1>3, FirstErrorSuccess
<1>5. /\ cudaRuntimeError' \in Result
      /\ cudaRuntimeError' = Success => cudaRuntimeError = Success /\ first = Success
  BY <1>2, <1>4, ReportEffect
<1>6. /\ context' \in Device \cup {0, NullContext, Uninitialized}
      /\ first = Success => result = Success
      /\ result = Success => ~faulted
  BY <1>1, InContextEffect
<1>7. QED
  BY <1>1, <1>5, <1>6 DEF mgpuLaunchKernel

(* mgpuModuleUnload changes the record of errors and of the module only.    *)
LEMMA UnloadEffect ==
  ASSUME TypeOK, mgpuModuleUnload
  PROVE  /\ cudaRuntimeError' \in Result
         /\ loaded' \in BOOLEAN
         /\ UNCHANGED <<api, defaultDevice, context, function, driverVars>>
<1>1. CASE loaded
  <2>1. PICK result \in CallResults("ModuleUnload", TRUE) :
          Report(IF result = Deinitialized THEN Success ELSE result)
    BY <1>1 DEF mgpuModuleUnload
  <2>2. (IF result = Deinitialized THEN Success ELSE result) \in Result
    BY <2>1, CallResult DEF Result
  <2>3. QED
    BY <2>1, <2>2, ReportEffect DEF mgpuModuleUnload
<1>2. CASE ~loaded
  BY <1>2 DEF mgpuModuleUnload, TypeOK, RuntimeTypeOK
<1>3. QED
  BY <1>1, <1>2

-------------------------------------------------------------------------------
(* Initial states, and one lemma per group of steps.  The sets of labels    *)
(* and the way a step names its labels are expanded throughout.             *)

USE DEF Boundary, CudaSteps, Labels, Staging, Staged, Launched, Retiring,
        Retired, At, Goto, Step

(* Init establishes the invariant. *)
LEMMA InitInv == Init => IInv
<1> SUFFICES ASSUME Init PROVE IInv
  OBVIOUS
<1>1. TypeOK
  <2>1. RuntimeTypeOK(Handle, Work)
    BY DEF Init, RuntimeInit, RuntimeTypeOK, Result
  <2>2. QED
    BY <2>1, Operands, DispatchAssumption DEF Init, TypeOK, Content, Freed, Garbage
<1>2. Control /\ Queue /\ Data /\ Leak
  BY DEF Init, RuntimeInit, Control, Queue, Data, Leak, Clean
<1>3. QED
  BY <1>1, <1>2 DEF IInv

(* A product on the host: no CUDA handle or queue is involved. *)
LEMMA RunOnHostInv == ASSUME IInv, RunOnHost PROVE IInv'
<1> USE DEF RunOnHost, runtimeVars, options, gpuState
<1>1. TypeOK'
  BY DispatchAssumption DEF IInv, TypeOK, RuntimeTypeOK, Accumulate, Content, Garbage
<1>2. Control'
  BY DispatchAssumption DEF IInv, TypeOK, Control, Accumulate, Content, Target
<1>3. Queue' /\ Data' /\ Leak'
  BY DEF IInv, Queue, Data, Leak, Clean
<1>4. QED
  BY <1>1, <1>2, <1>3 DEF IInv

(* The probe changes only the error and the selected ordinal. *)
LEMMA ProbeInv == ASSUME IInv, Probe PROVE IInv'
<1>1. /\ pc = "next" /\ completed < NumGemms /\ OnDevice
      /\ pc' \in {"enter", IF mode = "Auto" THEN "fallback" ELSE "abort"}
      /\ cudaRuntimeError' \in Result
      /\ defaultDevice' \in Device \cup {NoDevice}
      /\ UNCHANGED <<api, context, loaded, function, driverVars,
                     options, gpuState, operand, completed, hostC, scratch>>
  BY ProbeEffect DEF IInv, Probe
<1> USE <1>1 DEF driverVars, options, gpuState
<1>2. TypeOK'
  BY DEF IInv, TypeOK, RuntimeTypeOK
<1>3. Control'
  BY DispatchAssumption DEF IInv, TypeOK, Control, OnDevice
<1>4. Queue' /\ Data' /\ Leak'
  BY DEF IInv, Queue, Data, Leak, Clean
<1>5. QED
  BY <1>2, <1>3, <1>4 DEF IInv

(* EnterCuda starts from a clean record and, in Auto mode, a fresh scratch. *)
LEMMA EnterCudaInv == ASSUME IInv, EnterCuda PROVE IInv'
<1> USE DEF EnterCuda, trsc_cuda_reset_error, options
<1>1. TypeOK'
  BY DEF IInv, TypeOK, RuntimeTypeOK, Content, Garbage, Result
<1>2. Control'
  BY DEF IInv, TypeOK, Control, Target
<1>3. Queue' /\ Data' /\ Leak'
  BY DEF IInv, Queue, Data, Leak, Clean
<1>4. QED
  BY <1>1, <1>2, <1>3 DEF IInv

(* CheckError relies on Data: no recorded error means a whole product. *)
LEMMA CheckErrorInv == ASSUME IInv, CheckError PROVE IInv'
<1> USE DEF CheckError, trsc_cuda_had_error, options, gpuState, runtimeVars
<1>1. cudaRuntimeError = Success => Target = completed + 1
  BY DEF IInv, Data, Clean
<1>2. TypeOK'
  BY DispatchAssumption DEF IInv, TypeOK, RuntimeTypeOK, Content, Control
<1>3. Control'
  BY <1>1, DispatchAssumption DEF IInv, TypeOK, Control, Target
<1>4. Queue' /\ Data' /\ Leak'
  BY DEF IInv, Queue, Data, Leak, Clean
<1>5. QED
  BY <1>2, <1>3, <1>4 DEF IInv

(* The recovery multiplies on the host, into a C nobody has written. *)
LEMMA FallbackInv == ASSUME IInv, Fallback PROVE IInv'
<1> USE DEF Fallback, options, gpuState, runtimeVars
<1>1. hostC' = completed + 1
  BY DEF IInv, TypeOK, Control, Accumulate
<1>2. TypeOK'
  BY <1>1, DispatchAssumption DEF IInv, TypeOK, RuntimeTypeOK, Content, Control
<1>3. Control'
  BY <1>1, DispatchAssumption DEF IInv, TypeOK, Control
<1>4. Queue' /\ Data' /\ Leak'
  BY DEF IInv, Queue, Data, Leak, Clean
<1>5. QED
  BY <1>2, <1>3, <1>4 DEF IInv

(* Releasing the scratch and leaving the program touch nothing else. *)
LEMMA LeaveInv == ASSUME IInv, DeallocScratch \/ Exit PROVE IInv'
<1>1. CASE DeallocScratch
  <2> USE <1>1 DEF DeallocScratch, options, gpuState, runtimeVars
  <2>1. TypeOK'
    BY DispatchAssumption DEF IInv, TypeOK, RuntimeTypeOK, Content, Freed, Control
  <2>2. Control'
    BY DispatchAssumption DEF IInv, TypeOK, Control
  <2>3. Queue' /\ Data' /\ Leak'
    BY DEF IInv, Queue, Data, Leak, Clean
  <2>4. QED
    BY <2>1, <2>2, <2>3 DEF IInv
<1>2. CASE Exit
  <2>1. /\ cudaRuntimeError' \in Result /\ loaded' \in BOOLEAN
        /\ \/ pc = "next" /\ completed = NumGemms /\ pc' = "exited"
           \/ pc = "abort" /\ pc' = "aborted"
        /\ UNCHANGED <<api, defaultDevice, context, function, driverVars,
                       options, gpuState, operand, completed, hostC, scratch>>
    BY <1>2, UnloadEffect DEF IInv, Exit
  <2> USE <2>1 DEF driverVars, options, gpuState
  <2>2. TypeOK'
    BY DEF IInv, TypeOK, RuntimeTypeOK
  <2>3. Control'
    BY DEF IInv, TypeOK, Control
  <2>4. Queue' /\ Data' /\ Leak'
    BY DEF IInv, Queue, Data, Leak, Clean
  <2>5. QED
    BY <2>2, <2>3, <2>4 DEF IInv
<1>3. QED
  BY <1>1, <1>2

(* A new stream, for staging, the launch or the copy-back. *)
LEMMA CreateInv ==
  ASSUME IInv, CreateStage \/ CreateLaunch \/ CreateFinish PROVE IInv'
<1>1. PICK stream \in Stream :
        /\ \/ /\ pc = "createStage" /\ pc' = "alloc"
              /\ stream = "stageStream" /\ operand' = 1
           \/ /\ pc = "createLaunch" /\ pc' = "launch"
              /\ stream = "launchStream" /\ operand' = operand
           \/ /\ pc = "createFinish" /\ pc' = "copyBack"
              /\ stream = "finishStream" /\ operand' = operand
        /\ Create("StreamCreate", stream)
        /\ KeepBuffers
  BY DEF CreateStage, CreateLaunch, CreateFinish, mgpuStreamCreate, Stream
<1>2. /\ cudaRuntimeError' \in Result
      /\ context' \in Device \cup {0, NullContext, Uninitialized}
      /\ live \subseteq live' /\ live' \subseteq live \cup {stream}
      /\ cudaRuntimeError' = Success => cudaRuntimeError = Success
      /\ UNCHANGED <<api, defaultDevice, loaded, function, freeFailed,
                     inflight, faulted>>
  BY <1>1, CreateEffect DEF IInv, Handle
<1> USE <1>1, <1>2 DEF KeepBuffers, options, gpuState
<1>3. TypeOK'
  BY Operands DEF IInv, TypeOK, RuntimeTypeOK, Handle
<1>4. Control'
  BY DEF IInv, Control, Target
<1>5. Queue'
  BY DEF IInv, Queue
<1>6. Data'
  BY DEF IInv, TypeOK, Data, Queue, Clean, InPlace, Target
<1>7. Leak'
  BY DEF IInv, Leak, Unreleased
<1>8. QED
  BY <1>3, <1>4, <1>5, <1>6, <1>7 DEF IInv

(* The buffer of the next operand. *)
LEMMA StageAllocInv == ASSUME IInv, StageAlloc PROVE IInv'
<1> DEFINE o == OperandOrder[operand]
<1>1. o \in Operand
  BY Operands DEF IInv, TypeOK
<1>2. /\ pc = "alloc" /\ pc' = "copy" /\ operand' = operand
      /\ KeepBuffers /\ Create("MemAlloc", o)
  BY DEF StageAlloc, mgpuMemAlloc
<1>3. /\ cudaRuntimeError' \in Result
      /\ context' \in Device \cup {0, NullContext, Uninitialized}
      /\ live \subseteq live' /\ live' \subseteq live \cup {o}
      /\ cudaRuntimeError' = Success => cudaRuntimeError = Success /\ o \in live'
      /\ UNCHANGED <<api, defaultDevice, loaded, function, freeFailed,
                     inflight, faulted>>
  BY <1>1, <1>2, CreateEffect DEF IInv, Handle
<1> HIDE DEF o
<1> USE <1>2, <1>3 DEF KeepBuffers, options, gpuState
<1>4. TypeOK'
  BY <1>1 DEF IInv, TypeOK, RuntimeTypeOK, Handle
<1>5. Control' /\ Queue'
  BY DEF IInv, Control, Queue, Target
<1>6. Data'
  BY DEF IInv, Data, Clean, InPlace, o
<1>7. Leak'
  BY <1>1 DEF IInv, Leak, Unreleased
<1>8. QED
  BY <1>4, <1>5, <1>6, <1>7 DEF IInv

(* The transfer of the operand just allocated. *)
LEMMA StageCopyInv == ASSUME IInv, StageCopy PROVE IInv'
<1> DEFINE o == OperandOrder[operand]
<1>1. o \in Operand
  BY Operands DEF IInv, TypeOK
<1>2. /\ pc = "copy" /\ KeepBuffers /\ mgpuMemcpy(o, o \in live)
      /\ IF operand < LastOperand
         THEN operand' = operand + 1 /\ pc' = "alloc"
         ELSE operand' = 1 /\ pc' = "syncStage"
  BY DEF StageCopy
<1>3. /\ cudaRuntimeError' \in Result
      /\ \/ inflight' = inflight
         \/ inflight' = inflight \cup {o} /\ o \in live /\ ~faulted
      /\ cudaRuntimeError' = Success => cudaRuntimeError = Success /\ o \in inflight'
      /\ UNCHANGED <<api, defaultDevice, context, loaded, function, live,
                     freeFailed, faulted>>
  BY <1>1, <1>2, MemcpyEffect DEF IInv, Work
<1> HIDE DEF o
<1> USE <1>2, <1>3 DEF KeepBuffers, options, gpuState
<1>4. TypeOK'
  BY <1>1, Operands DEF IInv, TypeOK, RuntimeTypeOK, Work
<1>5. Control'
  BY DEF IInv, Control, Target
<1>6. Queue'
  BY <1>1 DEF IInv, Queue, Operand
<1>7. Data'
  <2>1. Clean' => Clean /\ o \in inflight'
    BY DEF Clean
  <2>2. Clean' => \A i \in 1 .. operand : InPlace(OperandOrder[i])'
    BY <2>1 DEF IInv, TypeOK, Data, InPlace, o
  <2>3. Clean' /\ operand = LastOperand => \A e \in Operand : InPlace(e)'
    BY <2>2, Operands
  <2>4. QED
    BY <2>1, <2>2, <2>3, Operands DEF IInv, TypeOK, Data, Clean
<1>8. Leak'
  BY DEF IInv, Leak, Unreleased
<1>9. QED
  BY <1>4, <1>5, <1>6, <1>7, <1>8 DEF IInv

(* A synchronize that leaves no error proves that what the stream had       *)
(* queued is done and nothing has faulted.                                  *)
LEMMA SyncInv ==
  ASSUME IInv, SyncStage \/ SyncLaunch \/ SyncFinish PROVE IInv'
<1>1. PICK work :
        /\ \/ pc = "syncStage" /\ pc' = "destroyStage" /\ work = Operand
           \/ pc = "syncLaunch" /\ pc' = "destroyLaunch" /\ work = {"kernel"}
           \/ pc = "syncFinish" /\ pc' = "destroyFinish" /\ work = {"copyBack"}
        /\ mgpuStreamSynchronize(work)
        /\ operand' = operand /\ KeepBuffers
  BY DEF SyncStage, SyncLaunch, SyncFinish
<1>2. /\ cudaRuntimeError' \in Result
      /\ faulted' \in BOOLEAN
      /\ faulted' => inflight' = {}
      /\ \/ inflight' = {}
         \/ inflight' = inflight /\ work \cap inflight = {}
      /\ cudaRuntimeError' = Success =>
           /\ cudaRuntimeError = Success
           /\ ~faulted /\ ~faulted'
           /\ inflight' = inflight /\ work \cap inflight = {}
      /\ UNCHANGED <<api, defaultDevice, context, loaded, function, live,
                     freeFailed>>
  BY <1>1, SynchronizeEffect DEF IInv
<1> USE <1>1, <1>2 DEF KeepBuffers, options, gpuState
<1>3. TypeOK'
  BY DEF IInv, TypeOK, RuntimeTypeOK
<1>4. Control'
  BY DEF IInv, Control, Target
<1>5. inflight' = {}
  BY DEF IInv, Queue
<1>6. Queue'
  BY <1>5 DEF Queue
<1>7. Data'
  <2>1. Clean' => Clean /\ inflight = {}
    BY <1>5 DEF Clean
  <2>2. Clean' /\ pc = "syncStage" => Operand \subseteq live \cap staged
    BY <2>1 DEF IInv, Data, InPlace
  <2>3. "C" \in Operand
    BY DEF Operand
  <2>4. QED
    BY <2>1, <2>2, <2>3, <1>5 DEF IInv, Data, Clean, Target
<1>8. Leak'
  BY DEF IInv, Leak, Unreleased
<1>9. QED
  BY <1>3, <1>4, <1>6, <1>7, <1>8 DEF IInv

(* The stream of a finished step is released, or its release refused. *)
LEMMA DestroyInv ==
  ASSUME IInv, DestroyStage \/ DestroyLaunch \/ DestroyFinish PROVE IInv'
<1>1. PICK stream \in Stream :
        /\ \/ pc = "destroyStage" /\ pc' = "getFunction" /\ stream = "stageStream"
           \/ pc = "destroyLaunch" /\ pc' = "createFinish" /\ stream = "launchStream"
           \/ pc = "destroyFinish" /\ pc' = "check" /\ stream = "finishStream"
        /\ mgpuStreamDestroy(stream)
        /\ operand' = operand /\ KeepBuffers
  BY DEF DestroyStage, DestroyLaunch, DestroyFinish, Stream
<1>2. /\ cudaRuntimeError' \in Result
      /\ live' \subseteq live /\ live \subseteq live' \cup {stream}
      /\ freeFailed \subseteq freeFailed' /\ freeFailed' \subseteq Handle
      /\ stream \in live' => stream \in freeFailed'
      /\ cudaRuntimeError' = Success => cudaRuntimeError = Success
      /\ UNCHANGED <<api, defaultDevice, context, loaded, function,
                     inflight, faulted>>
  BY <1>1, ReleaseEffect DEF IInv, Handle, mgpuStreamDestroy
<1> USE <1>1, <1>2 DEF KeepBuffers, options, gpuState
<1>3. TypeOK'
  BY DEF IInv, TypeOK, RuntimeTypeOK
<1>4. Control' /\ Queue'
  BY DEF IInv, Control, Queue, Target
<1>5. \A o \in Operand : o \in live => o \in live'
  BY DEF Operand, Stream
<1>6. Data'
  BY <1>5 DEF IInv, Data, Clean, InPlace, Target, Operand
<1>7. Leak'
  BY DEF IInv, Leak, Unreleased
<1>8. QED
  BY <1>3, <1>4, <1>6, <1>7 DEF IInv

(* Loading the module touches no buffer. *)
LEMMA GetFunctionInv == ASSUME IInv, GetFunction PROVE IInv'
<1>1. /\ pc = "getFunction" /\ pc' = "createLaunch"
      /\ operand' = operand /\ KeepBuffers
      /\ cudaRuntimeError' \in Result
      /\ context' \in Device \cup {0, NullContext, Uninitialized}
      /\ loaded' \in BOOLEAN /\ function' \in BOOLEAN
      /\ cudaRuntimeError' = Success => cudaRuntimeError = Success
      /\ UNCHANGED <<api, defaultDevice, driverVars>>
  BY GetFunctionEffect DEF IInv, GetFunction
<1> USE <1>1 DEF KeepBuffers, options, gpuState, driverVars
<1>2. TypeOK'
  BY DEF IInv, TypeOK, RuntimeTypeOK
<1>3. Control' /\ Queue'
  BY DEF IInv, Control, Queue, Target
<1>4. Data' /\ Leak'
  BY DEF IInv, Data, Clean, Leak, Unreleased
<1>5. QED
  BY <1>2, <1>3, <1>4 DEF IInv

(* The kernel is queued over a C that has arrived, if nothing has failed. *)
LEMMA LaunchInv == ASSUME IInv, Launch PROVE IInv'
<1>1. /\ pc = "launch" /\ pc' = "syncLaunch"
      /\ operand' = operand /\ KeepBuffers
      /\ cudaRuntimeError' \in Result
      /\ context' \in Device \cup {0, NullContext, Uninitialized}
      /\ \/ inflight' = inflight
         \/ inflight' = inflight \cup {"kernel"} /\ ~faulted
      /\ cudaRuntimeError' = Success =>
           cudaRuntimeError = Success /\ "kernel" \in inflight'
      /\ UNCHANGED <<api, defaultDevice, loaded, function, live, freeFailed,
                     faulted>>
  BY LaunchEffect DEF IInv, Launch, Work
<1> USE <1>1 DEF KeepBuffers, options, gpuState
<1>2. TypeOK'
  BY DEF IInv, TypeOK, RuntimeTypeOK, Work
<1>3. Control'
  BY DEF IInv, Control, Target
<1>4. Queue'
  BY DEF IInv, Queue
<1>5. Data'
  BY DEF IInv, Data, Clean, Operand
<1>6. Leak'
  BY DEF IInv, Leak, Unreleased
<1>7. QED
  BY <1>2, <1>3, <1>4, <1>5, <1>6 DEF IInv

(* The result is queued for C, or for the scratch in Auto mode. *)
LEMMA CopyBackInv == ASSUME IInv, CopyBack PROVE IInv'
<1>1. /\ pc = "copyBack" /\ pc' = "free" /\ operand' = 1 /\ KeepBuffers
      /\ cudaRuntimeError' \in Result
      /\ \/ inflight' = inflight
         \/ inflight' = inflight \cup {"copyBack"} /\ "C" \in live /\ ~faulted
      /\ cudaRuntimeError' = Success =>
           cudaRuntimeError = Success /\ "copyBack" \in inflight'
      /\ UNCHANGED <<api, defaultDevice, context, loaded, function, live,
                     freeFailed, faulted>>
  BY MemcpyEffect DEF IInv, CopyBack, Work
<1> USE <1>1 DEF KeepBuffers, options, gpuState
<1>2. TypeOK'
  BY Operands DEF IInv, TypeOK, RuntimeTypeOK, Work
<1>3. Control'
  BY DEF IInv, Control, Target
<1>4. Queue'
  BY DEF IInv, Queue
<1>5. Data'
  BY DEF IInv, Data, Clean
<1>6. Leak'
  <2>1. Operand \subseteq {OperandOrder[i] : i \in 1 .. LastOperand}
    BY Operands
  <2>2. QED
    BY <2>1 DEF IInv, Leak, Unreleased
<1>7. QED
  BY <1>2, <1>3, <1>4, <1>5, <1>6 DEF IInv

(* One buffer is released, or its release refused.                         *)
LEMMA FreeInv == ASSUME IInv, Free PROVE IInv'
<1> DEFINE o == OperandOrder[operand]
<1>1. o \in Operand
  BY Operands DEF IInv, TypeOK
<1>2. /\ pc = "free" /\ KeepBuffers
      /\ inflight = {} \/ faulted
      /\ Release("MemFree", o, TRUE)
      /\ IF operand < LastOperand
         THEN operand' = operand + 1 /\ pc' = "free"
         ELSE operand' = 1 /\ pc' = "syncFinish"
  BY DEF Free, mgpuMemFree
<1>3. /\ cudaRuntimeError' \in Result
      /\ live' \subseteq live
      /\ freeFailed \subseteq freeFailed' /\ freeFailed' \subseteq Handle
      /\ o \in live' => o \in freeFailed'
      /\ cudaRuntimeError' = Success => cudaRuntimeError = Success
      /\ UNCHANGED <<api, defaultDevice, context, loaded, function,
                     inflight, faulted>>
  BY <1>1, <1>2, ReleaseEffect DEF IInv, Handle
<1>4. inflight = {}
  BY <1>2 DEF IInv, Queue
<1> HIDE DEF o
<1> USE <1>2, <1>3, <1>4 DEF KeepBuffers, options, gpuState
<1>5. TypeOK'
  BY Operands DEF IInv, TypeOK, RuntimeTypeOK
<1>6. Control' /\ Queue'
  BY DEF IInv, Control, Queue
<1>7. Data'
  BY DEF IInv, Data, Clean, Target
<1>8. Leak'
  <2> DEFINE Rest(i) == {OperandOrder[j] : j \in i .. LastOperand}
  <2>1. Rest(operand) \subseteq Rest(operand + 1) \cup {o}
    BY Operands DEF IInv, TypeOK, o
  <2>2. operand >= LastOperand => Rest(operand + 1) = {}
    BY Operands DEF IInv, TypeOK
  <2>3. live' \subseteq freeFailed' \cup Rest(operand + 1) \cup {"finishStream"}
    BY <2>1 DEF IInv, Leak, Unreleased
  <2>4. CASE operand < LastOperand
    BY <2>3, <2>4 DEF Leak, Unreleased
  <2>5. CASE ~(operand < LastOperand)
    <3>1. live' \subseteq freeFailed' \cup {"finishStream"}
      BY <2>2, <2>3, <2>5, Operands DEF IInv, TypeOK
    <3>2. QED
      BY <3>1, <2>5 DEF Leak, Unreleased
  <2>6. QED
    BY <2>4, <2>5
<1>9. QED
  BY <1>5, <1>6, <1>7, <1>8 DEF IInv

(* A transfer of an operand arrives, while the operands are being staged.  *)
LEMMA FinishTransferInv ==
  ASSUME IInv, NEW o \in Operand, FinishTransfer(o) PROVE IInv'
<1>1. /\ o \in inflight /\ ~faulted
      /\ inflight' = inflight \ {o}
      /\ o \in live
      /\ staged' = staged \cup {o}
      /\ deviceC' = IF o = "C" THEN Target ELSE deviceC
      /\ UNCHANGED <<options, hostVars, live, freeFailed, faulted, pc, operand,
                     completed, hostC, scratch>>
      /\ pc \in Staging
  BY DEF FinishTransfer, Finish, IInv, Queue, Operand
<1> USE <1>1 DEF options, hostVars
<1>2. TypeOK'
  BY DEF IInv, TypeOK, RuntimeTypeOK, Target
<1>3. Control' /\ Queue'
  BY DEF IInv, Control, Queue, Target
<1>4. Data'
  <2>1. \A e : InPlace(e) => InPlace(e)'
    BY DEF InPlace
  <2>2. Target = completed
    BY DEF IInv, Control
  <2>3. QED
    BY <2>1, <2>2 DEF IInv, Data, Clean
<1>5. Leak'
  BY DEF IInv, Leak, Unreleased
<1>6. QED
  BY <1>2, <1>3, <1>4, <1>5 DEF IInv

(* The kernel adds one product to a C that was completed, if nothing has    *)
(* failed.                                                                  *)
LEMMA FinishKernelInv == ASSUME IInv, FinishKernel PROVE IInv'
<1>1. /\ "kernel" \in inflight /\ ~faulted
      /\ inflight' = inflight \ {"kernel"}
      /\ deviceC' = IF Operand \subseteq staged \cap live
                    THEN Accumulate(deviceC) ELSE Garbage
      /\ UNCHANGED <<options, hostVars, live, freeFailed, faulted, pc, operand,
                     completed, staged, hostC, scratch>>
      /\ pc = "syncLaunch"
  BY DEF FinishKernel, Finish, IInv, Queue, Operand
<1> USE <1>1 DEF options, hostVars
<1>2. TypeOK'
  BY DEF IInv, TypeOK, RuntimeTypeOK, Accumulate, Garbage, Content
<1>3. Control' /\ Queue'
  BY DEF IInv, Control, Queue, Target
<1>4. Data'
  BY DispatchAssumption DEF IInv, TypeOK, Data, Clean, Accumulate
<1>5. Leak'
  BY DEF IInv, Leak, Unreleased
<1>6. QED
  BY <1>2, <1>3, <1>4, <1>5 DEF IInv

(* The result arrives in C or in the scratch. *)
LEMMA FinishCopyBackInv == ASSUME IInv, FinishCopyBack PROVE IInv'
<1>1. /\ "copyBack" \in inflight /\ ~faulted
      /\ inflight' = inflight \ {"copyBack"}
      /\ pc \in Retiring
      /\ UNCHANGED <<options, hostVars, live, freeFailed, faulted, pc, operand,
                     completed, gpuState>>
  BY DEF FinishCopyBack, Finish, IInv, Queue, Operand
<1>2. /\ Target' = IF "C" \in live THEN deviceC ELSE Garbage
      /\ mode = "Auto" => hostC' = hostC
      /\ mode # "Auto" => scratch' = scratch
  BY <1>1 DEF FinishCopyBack, Target, options
<1> USE <1>1 DEF options, hostVars, gpuState
<1>3. TypeOK'
  BY <1>2 DEF IInv, TypeOK, RuntimeTypeOK, Garbage, Content, Target
<1>4. Control' /\ Queue'
  BY <1>2 DEF IInv, Control, Queue
<1>5. Data'
  BY <1>2 DEF IInv, Data, Clean, Queue
<1>6. Leak'
  BY DEF IInv, Leak, Unreleased
<1>7. QED
  BY <1>3, <1>4, <1>5, <1>6 DEF IInv

(* A fault empties the queue, and from then on nothing is clean.           *)
LEMMA FaultInv == ASSUME IInv, NEW work \in Work, Fault(work) PROVE IInv'
<1>1. /\ work \in inflight
      /\ inflight' = {} /\ faulted' = TRUE
      /\ UNCHANGED <<options, hostVars, live, freeFailed, staged, pc, operand,
                     completed>>
      /\ deviceC' \in {deviceC, Garbage}
      /\ hostC' \in {hostC, Garbage} /\ scratch' \in {scratch, Garbage}
      /\ work # "copyBack" \/ mode = "Auto" => hostC' = hostC
      /\ work # "copyBack" => scratch' = scratch
  BY DEF Fault
<1>2. /\ pc \in Staging \cup Retiring \cup {"syncLaunch"}
      /\ work = "copyBack" => pc \in Retiring
  BY <1>1 DEF IInv, Queue, Operand
<1> USE <1>1, <1>2 DEF options, hostVars
<1>3. TypeOK'
  BY DEF IInv, TypeOK, RuntimeTypeOK, Garbage, Content
<1>4. Control' /\ Queue'
  BY DEF IInv, Control, Queue, Target
<1>5. Data' /\ Leak'
  BY DEF IInv, Data, Clean, Leak, Unreleased
<1>6. QED
  BY <1>3, <1>4, <1>5 DEF IInv

-------------------------------------------------------------------------------
(* The invariant is inductive: every action of the host and of the GPU, and *)
(* every stuttering step, preserves it.                                     *)
LEMMA StepInv == IInv /\ [Next]_vars => IInv'
<1> SUFFICES ASSUME IInv, [Next]_vars PROVE IInv'
  OBVIOUS
<1>1. CASE Stage
  BY <1>1, CreateInv, StageAllocInv, StageCopyInv, SyncInv, DestroyInv DEF Stage
<1>2. CASE Run
  BY <1>2, GetFunctionInv, CreateInv, LaunchInv, SyncInv, DestroyInv DEF Run
<1>3. CASE Retire
  BY <1>3, CreateInv, CopyBackInv, FreeInv, SyncInv, DestroyInv DEF Retire
<1>4. CASE RunOnHost \/ Probe \/ EnterCuda \/ CheckError \/ Fallback
            \/ DeallocScratch \/ Exit
  BY <1>4, RunOnHostInv, ProbeInv, EnterCudaInv, CheckErrorInv, FallbackInv, LeaveInv
<1>5. CASE Gpu
  BY <1>5, FinishTransferInv, FinishKernelInv, FinishCopyBackInv, FaultInv DEF Gpu
<1>6. CASE UNCHANGED vars
  <2> USE <1>6 DEF vars, runtimeVars, options, gpuState
  <2>1. TypeOK'
    BY DEF IInv, TypeOK, RuntimeTypeOK
  <2>2. Control' /\ Queue'
    BY DEF IInv, Control, Queue, Target
  <2>3. Data' /\ Leak'
    BY DEF IInv, Data, Clean, InPlace, Target, Leak, Unreleased
  <2>4. QED
    BY <2>1, <2>2, <2>3 DEF IInv
<1>7. QED
  BY <1>1, <1>2, <1>3, <1>4, <1>5, <1>6 DEF Next, Host, Terminated

(* IInv holds in every state of every run of the emitted program. *)
THEOREM Inductive == Spec => []IInv
  BY InitInv, StepInv, PTL DEF Spec

(* Every variable of the dispatch and of the runtime keeps its type,        *)
(* whatever the driver returns and whatever faults.                         *)
THEOREM TypeCorrect == Spec => []TypeOK
<1>1. IInv => TypeOK
  BY DEF IInv
<1>2. QED
  BY Inductive, <1>1, PTL

(* Between gemms C holds each completed product once, for every mode, level,*)
(* driver and number of devices, and however many calls fail.               *)
THEOREM ExactlyOnceHolds == Spec => []ExactlyOnce
<1>1. IInv => ExactlyOnce
  BY DEF IInv, Control, ExactlyOnce
<1>2. QED
  BY Inductive, <1>1, PTL

(* had_error is sound although no wrapper stops at a failed call: when it   *)
(* answers no, the copy back has brought a whole product.                   *)
THEOREM NoErrorMeansResultHolds == Spec => []NoErrorMeansResult
<1>1. IInv => NoErrorMeansResult
  BY DEF IInv, Data, Clean, NoErrorMeansResult
<1>2. QED
  BY Inductive, <1>1, PTL

(* In Auto mode the CUDA path never writes C. *)
THEOREM OutputUntouchedHolds == Spec => []OutputUntouched
<1>1. IInv => OutputUntouched
  BY DEF IInv, Control, OutputUntouched
<1>2. QED
  BY Inductive, <1>1, PTL

(* The CUDA path releases every handle it was given, except those whose     *)
(* release failed.                                                          *)
THEOREM NoDeviceLeakHolds == Spec => []NoDeviceLeak
<1>1. IInv => NoDeviceLeak
  BY DEF IInv, Leak, Unreleased, NoDeviceLeak
<1>2. QED
  BY Inductive, <1>1, PTL

(* Work in flight finds the memory it uses; the argument rests on cuMemFree *)
(* waiting for the device, which mgpuMemFree assumes.                       *)
THEOREM QueuedWorkIsSafeHolds == Spec => []QueuedWorkIsSafe
<1>1. IInv => QueuedWorkIsSafe
  BY DEF IInv, Queue, QueuedWorkIsSafe, Operand
<1>2. QED
  BY Inductive, <1>1, PTL

-------------------------------------------------------------------------------
(* Refinement: one step of the dispatch is one step of GemmSemantics or none *)

(* A program whose gemms are over sees the product that was completed. *)
LEMMA RefineStep ==
  IInv /\ [Next]_vars => [Semantics!Next]_(Semantics!vars)
<1> SUFFICES ASSUME IInv, [Next]_vars
             PROVE  [Semantics!Next]_(Semantics!vars)
  OBVIOUS
<1> DEFINE Seen == IF pc \in Boundary THEN hostC ELSE completed
           Status == IF pc \in {"exited", "aborted"} THEN pc ELSE "running"
<1>1. Seen = completed /\ mode' = mode
  <2>1. Seen = completed
    BY DEF IInv, Control
  <2>2. mode' = mode
    BY DEF Next, Host, Gpu, Terminated, Stage, Run, Retire, RunOnHost, Probe,
       EnterCuda, CheckError, Fallback, DeallocScratch, Exit, CreateStage,
       StageAlloc, StageCopy, SyncStage, DestroyStage, GetFunction, CreateLaunch,
       Launch, SyncLaunch, DestroyLaunch, CreateFinish, CopyBack, Free,
       SyncFinish, DestroyFinish, FinishTransfer, FinishKernel, FinishCopyBack,
       Finish, Fault, KeepBuffers, options, vars
  <2>3. QED
    BY <2>1, <2>2
<1>2. Seen' = completed'
  BY StepInv DEF IInv, Control
<1>3. \/ completed' = completed /\ Status' = Status
      \/ /\ Status = "running" /\ completed < NumGemms
         /\ completed' = completed + 1 /\ Status' = "running"
      \/ /\ Status = "running" /\ completed = NumGemms
         /\ completed' = completed /\ Status' = "exited"
      \/ /\ mode = "CUDA" /\ Status = "running" /\ completed < NumGemms
         /\ completed' = completed /\ Status' = "aborted"
  <2>1. CASE RunOnHost \/ CheckError \/ Fallback \/ DeallocScratch
    BY <2>1 DEF RunOnHost, CheckError, Fallback, DeallocScratch, IInv, Control
  <2>2. CASE Probe \/ EnterCuda
    BY <2>2 DEF Probe, EnterCuda
  <2>3. CASE Exit
    BY <2>3 DEF Exit, IInv, Control
  <2>4. CASE Stage
    BY <2>4 DEF Stage, CreateStage, StageAlloc, StageCopy, SyncStage,
       DestroyStage, KeepBuffers
  <2>5. CASE Run
    BY <2>5 DEF Run, GetFunction, CreateLaunch, Launch, SyncLaunch,
       DestroyLaunch, KeepBuffers
  <2>6. CASE Retire
    BY <2>6 DEF Retire, CreateFinish, CopyBack, Free, SyncFinish,
       DestroyFinish, KeepBuffers
  <2>7. CASE Gpu
    BY <2>7 DEF Gpu, FinishTransfer, FinishKernel, FinishCopyBack, Finish, Fault
  <2>8. CASE UNCHANGED vars
    BY <2>8 DEF vars
  <2>9. QED
    BY <2>1, <2>2, <2>3, <2>4, <2>5, <2>6, <2>7, <2>8 DEF Next, Host, Terminated
<1>4. QED
  BY <1>1, <1>2, <1>3 DEF Semantics!Next, Semantics!Gemm, Semantics!Exit,
     Semantics!Abort, Semantics!vars

(* The dispatch implements the safety part of GemmSemantics: whatever fails, *)
(* the program's C grows by one product per gemm, and only a program that   *)
(* requires CUDA stops early.                                               *)
THEOREM Refinement == Spec => Semantics!Spec
<1>1. Init => Semantics!Init
  BY DEF Init, Semantics!Init
<1>2. QED
  BY Inductive, <1>1, RefineStep, PTL DEF Spec, Semantics!Spec
===============================================================================
