SPECIFICATION FairSpec
CONSTANTS
  NumDevices = 2
  Capability <- MCCapability
  MinimumCudaCapability = 75
  DriverErrors = {"OUT_OF_MEMORY", "DEINITIALIZED"}
  Drivers <- MCDrivers
  UseJIT = FALSE
  DynamicSharedMemory = FALSE
  Modes = {"CPU", "Auto", "CUDA"}
  Levels = {1, 2}
  NumGemms = 2
  HasBias = FALSE
INVARIANTS
  TypeOK
  ExactlyOnce
  NoErrorMeansResult
  OutputUntouched
  NoDeviceLeak
  QueuedWorkIsSafe
PROPERTIES
  Termination
  ImplementsSemantics
