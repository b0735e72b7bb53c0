---------------------------- MODULE MCDeviceDispatch ----------------------------
(* Two devices, the first one too old, no driver, a whole one or an old one *)
(* without one entry point, and a program that runs its gemm twice.         *)
EXTENDS DeviceDispatch, TLC

MCCapability == (0 :> 60) @@ (1 :> 75)

MCDrivers ==
  LET all == ProbeSymbols \cup
        {"DevicePrimaryCtxRetain", "CtxPushCurrent", "CtxPopCurrent",
         "ModuleLoadData", "ModuleLoadDataEx", "ModuleUnload",
         "ModuleGetFunction", "FuncSetAttribute", "LaunchKernel",
         "StreamCreate", "StreamDestroy", "StreamSynchronize", "MemAlloc",
         "MemFree", "MemcpyAsync"}
  IN {{}, all, all \ {"MemcpyAsync"}}
===============================================================================
