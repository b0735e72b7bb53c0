------------------------------ MODULE CudaRuntime ------------------------------
(***************************************************************************)
(* The CUDA runtime wrappers (lib/Runtime/CudaRuntimeWrappers.cpp) that    *)
(* every program compiled by trsc with GPU levels calls, and the part of   *)
(* the CUDA driver they talk to.                                           *)
(*                                                                         *)
(* Host state kept by the wrappers: the thread's recorded error and the    *)
(* ordinal selected by the last probe, the process-wide context that the   *)
(* first ScopedContext computes, and the lazily loaded module.  Driver     *)
(* state (external): the entry points libcuda offers, the live handles,     *)
(* the work accepted by a stream and not finished yet, and whether a fault *)
(* has made the context unusable.                                          *)
(*                                                                         *)
(* Every driver call may fail with any driver error at any time, so each   *)
(* wrapper is an action with a parameter for what it returns.  No wrapper  *)
(* stops after a failed call: it records the error and goes on.            *)
(***************************************************************************)
EXTENDS Integers

CONSTANTS
  NumDevices,             \* devices that cuDeviceGetCount reports
  Capability,             \* compute capability of each ordinal
  MinimumCudaCapability,  \* argument of every trsc_cuda_is_available call
  DriverErrors,           \* error codes the driver can return
  Drivers,                \* sets of entry points that dlsym may find; {} if
                          \* no library can be opened or CUDA is disabled
  UseJIT,                 \* module carries PTX (mgpuModuleLoadJIT)
  DynamicSharedMemory     \* kernels ask for smem > 0

Device == 0 .. NumDevices - 1

ASSUME DeviceAssumption ==
  /\ NumDevices \in Nat
  /\ Capability \in [Device -> Nat]
  /\ MinimumCudaCapability \in Nat

Success        == "SUCCESS"
NotInitialized == "NOT_INITIALIZED"
NotSupported   == "NOT_SUPPORTED"
Deinitialized  == "DEINITIALIZED"
Result == {Success, NotInitialized, NotSupported} \cup DriverErrors

(***************************************************************************)
(* A driver without cuStreamSynchronize is no CUDA driver; every other     *)
(* entry point may be missing from an old one.                             *)
(***************************************************************************)
ASSUME DriverAssumption ==
  /\ DriverErrors # {}
  /\ Success \notin DriverErrors
  /\ \A d \in Drivers : d = {} \/ "StreamSynchronize" \in d
  /\ UseJIT \in BOOLEAN
  /\ DynamicSharedMemory \in BOOLEAN

NoDevice      == -1
NullContext   == -1
Uninitialized == -2      \* the static in ScopedContext has not run yet

VARIABLES
  api,               \* entry points of cudaDriver() that are not null
  cudaRuntimeError,  \* first error since the last reset
  defaultDevice,     \* ordinal chosen by the last probe, or NoDevice
  context,           \* the static of ScopedContext
  loaded,            \* LazyCudaModule.Loaded # nullptr
  function,          \* result of the last mgpuModuleGetFunction # nullptr
  live,              \* streams and device buffers the driver has handed out
  freeFailed,        \* handles whose release the driver refused
  inflight,          \* work queued on streams and not finished
  faulted            \* a fault has made the context unusable

hostVars   == <<api, cudaRuntimeError, defaultDevice, context, loaded, function>>
driverVars == <<live, freeFailed, inflight, faulted>>
runtimeVars == <<api, cudaRuntimeError, defaultDevice, context, loaded,
                 function, live, freeFailed, inflight, faulted>>

RuntimeInit ==
  /\ api \in Drivers
  /\ cudaRuntimeError = Success
  /\ defaultDevice = NoDevice
  /\ context = Uninitialized
  /\ loaded = FALSE
  /\ function = FALSE
  /\ live = {}
  /\ freeFailed = {}
  /\ inflight = {}
  /\ faulted = FALSE

-------------------------------------------------------------------------------
(* callCuda and reportCudaError                                            *)

(* What a driver entry point can return.  `valid` says whether its         *)
(* arguments (handles, ordinals) are ones the driver can accept.           *)
CallResults(symbol, valid) ==
  IF symbol \notin api THEN {NotSupported}
  ELSE IF faulted \/ ~valid THEN DriverErrors
  ELSE {Success} \cup DriverErrors

(* Seeded fault: the last result wins. *)
LastError(earlier, later) == later

(* reportCudaError keeps the first error of a sequence of results. *)
FirstError(earlier, later) == IF earlier = Success THEN later ELSE earlier

Report(result) == cudaRuntimeError' = FirstError(cudaRuntimeError, result)

-------------------------------------------------------------------------------
(* Probe and error state, called by the emitted dispatch code              *)

Capable(d) == Capability[d] >= MinimumCudaCapability

(* Is d what the loop selects if the queries of `answering` succeed: the    *)
(* first capable ordinal among them, or none?                               *)
Selected(d, answering) ==
  LET capable == {e \in answering : Capable(e)} IN
  \/ capable = {} /\ d = NoDevice
  \/ d \in capable /\ \A e \in capable : d <= e

ProbeSymbols == {"Init", "DeviceGetCount", "DeviceGet", "DeviceGetAttribute"}

trsc_cuda_is_available(available) ==
  /\ \/ /\ ~(ProbeSymbols \subseteq api)
        /\ cudaRuntimeError' = NotInitialized
        /\ defaultDevice' = NoDevice
     \/ /\ ProbeSymbols \subseteq api
        /\ \/ /\ cudaRuntimeError' \in DriverErrors   \* cuInit, cuDeviceGetCount
              /\ defaultDevice' = NoDevice
           \/ \E answering \in SUBSET Device :
                /\ cudaRuntimeError' = Success
                /\ \E d \in Device \cup {NoDevice} :
                     Selected(d, answering) /\ defaultDevice' = d
  /\ available = (defaultDevice' # NoDevice)
  /\ UNCHANGED <<api, context, loaded, function, driverVars>>

trsc_cuda_reset_error == cudaRuntimeError' = Success

trsc_cuda_had_error == cudaRuntimeError # Success

-------------------------------------------------------------------------------
(* ScopedContext                                                           *)

(* The initializer of the static: run once, its result is kept even when it *)
(* is null.  getDefaultCuDevice leaves device 0 when cuDeviceGet fails.     *)
InitialContext(ctx, result) ==
  \E init \in CallResults("Init", TRUE),
     get \in CallResults("DeviceGet", defaultDevice # NoDevice),
     retain \in CallResults("DevicePrimaryCtxRetain", TRUE) :
       /\ ctx = IF retain # Success THEN NullContext
                ELSE IF get = Success THEN defaultDevice ELSE 0
       /\ result = FirstError(init, FirstError(get, retain))

(* A driver call made between the constructor and the destructor of a      *)
(* ScopedContext: `result` is what the call itself returns, `first` the    *)
(* first error among context creation, push, call and pop.                 *)
InContext(symbol, valid, result, first) ==
  \E ctx \in {NullContext} \cup Device \cup {0}, created \in Result :
    /\ IF context = Uninitialized
       THEN InitialContext(ctx, created)
       ELSE ctx = context /\ created = Success
    /\ context' = ctx
    /\ \E push \in CallResults("CtxPushCurrent", ctx # NullContext) :
         /\ result \in CallResults(symbol, valid /\ push = Success)
         /\ \E pop \in CallResults("CtxPopCurrent", push = Success) :
              first = FirstError(FirstError(created, push),
                                 FirstError(result, pop))

-------------------------------------------------------------------------------
(* Handles                                                                 *)

(* mgpuStreamCreate, and mgpuMemAlloc of a buffer that is not empty. *)
Create(symbol, handle) ==
  \E result, first \in Result :
    /\ InContext(symbol, TRUE, result, first)
    /\ Report(first)
    /\ live' = IF result = Success THEN live \cup {handle} ELSE live
    /\ UNCHANGED <<api, defaultDevice, loaded, function, freeFailed,
                   inflight, faulted>>

mgpuStreamCreate(stream) == Create("StreamCreate", stream)
mgpuMemAlloc(buffer)     == Create("MemAlloc", buffer)

Release(symbol, handle, valid) ==
  /\ \E result \in CallResults(symbol, valid) :
       /\ Report(result)
       /\ live' = IF result = Success THEN live \ {handle} ELSE live
       /\ freeFailed' = IF result # Success /\ handle \in live
                        THEN freeFailed \cup {handle} ELSE freeFailed
  /\ UNCHANGED <<api, defaultDevice, context, loaded, function, inflight,
                 faulted>>

mgpuStreamDestroy(stream) == Release("StreamDestroy", stream, stream \in live)

(* cuMemFree is not ordered by the stream the wrapper is given: only the    *)
(* driver's own wait for the device (external) keeps queued work from       *)
(* losing its buffers.                                                      *)
mgpuMemFree(buffer) ==
  /\ inflight = {} \/ faulted
  /\ Release("MemFree", buffer, TRUE)

-------------------------------------------------------------------------------
(* Streams and kernels                                                     *)

(* mgpuMemcpy queues `work` when the driver accepts it. *)
mgpuMemcpy(work, valid) ==
  /\ \E result \in CallResults("MemcpyAsync", valid) :
       /\ Report(result)
       /\ inflight' = IF result = Success THEN inflight \cup {work} ELSE inflight
  /\ UNCHANGED <<api, defaultDevice, context, loaded, function, live,
                 freeFailed, faulted>>

(* Returns once the stream's work is done; a failure reports a fault, after *)
(* which the context and everything queued in it is dead.                   *)
mgpuStreamSynchronize(work) ==
  /\ faulted \/ work \cap inflight = {}
  /\ \E result \in CallResults("StreamSynchronize", TRUE) :
       /\ Report(result)
       /\ faulted' = (result # Success)
       /\ inflight' = IF result = Success THEN inflight ELSE {}
  /\ UNCHANGED <<api, defaultDevice, context, loaded, function, live,
                 freeFailed>>

(* loadLazyModule followed by cuModuleGetFunction; a failed load is retried *)
(* by the next call.                                                        *)
mgpuModuleGetFunction ==
  LET load == IF UseJIT THEN "ModuleLoadDataEx" ELSE "ModuleLoadData"
      GetFunction(before) ==
        \E result \in CallResults("ModuleGetFunction", TRUE) :
          /\ function' = (result = Success)
          /\ Report(FirstError(before, result))
  IN /\ \/ /\ loaded
           /\ UNCHANGED <<loaded, context>>
           /\ GetFunction(Success)
        \/ /\ ~loaded
           /\ \E result, first \in Result :
                /\ InContext(load, TRUE, result, first)
                /\ loaded' = (result = Success)
                /\ IF result = Success
                   THEN GetFunction(first)
                   ELSE function' = FALSE /\ Report(first)
     /\ UNCHANGED <<api, defaultDevice, driverVars>>

(* The device queries and the attribute set before a launch with dynamic    *)
(* shared memory only add reports.  TRSC_PROFILE is not set.                *)
mgpuLaunchKernel(kernel) ==
  /\ \E result, first \in Result :
       /\ InContext("LaunchKernel", function, result, first)
       /\ inflight' = IF result = Success THEN inflight \cup {kernel} ELSE inflight
       /\ \E queries \in IF DynamicSharedMemory
                         THEN UNION {CallResults(s, TRUE) : s \in
                                {"DeviceGet", "DeviceGetAttribute", "FuncSetAttribute"}}
                         ELSE {Success} :
            Report(FirstError(queries, first))
  /\ UNCHANGED <<api, defaultDevice, loaded, function, live, freeFailed,
                 faulted>>

(* Runs from the program's global destructors. *)
mgpuModuleUnload ==
  /\ IF loaded
     THEN \E result \in CallResults("ModuleUnload", TRUE) :
            Report(IF result = Deinitialized THEN Success ELSE result)
     ELSE UNCHANGED cudaRuntimeError
  /\ loaded' = FALSE
  /\ UNCHANGED <<api, defaultDevice, context, function, driverVars>>

-------------------------------------------------------------------------------
(* Type invariant of the runtime's part of the state; H is the set of       *)
(* handles and W the set of work items of the program that uses it.         *)
RuntimeTypeOK(H, W) ==
  /\ api \in Drivers
  /\ cudaRuntimeError \in Result
  /\ defaultDevice \in Device \cup {NoDevice}
  /\ context \in Device \cup {0, NullContext, Uninitialized}
  /\ loaded \in BOOLEAN
  /\ function \in BOOLEAN
  /\ live \subseteq H
  /\ freeFailed \subseteq H
  /\ inflight \subseteq W
  /\ faulted \in BOOLEAN
===============================================================================
