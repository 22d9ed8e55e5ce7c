SPECIFICATION FairSpec
CONSTANTS
  Kernels <- TwoKernels
  Services <- TwoServices
  Nobody = "nobody"
  Root = "kernel"
  MaxTroubles = 2
  MaxLapses = 1
  MaxCrashes = 1
INVARIANTS
  OneGeneration
  OneKernel
  NothingAfterStop
PROPERTIES
  ServicesComeBack
CHECK_DEADLOCK FALSE
