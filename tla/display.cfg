SPECIFICATION Spec
CONSTANTS
  Gpus <- MCGpus
  GpuKinds <- MCGpuKinds
  Params <- MCParams
  None = None
INVARIANTS DisplayTypeOK HalsMatch OnlySelectedLeft BestCard PreferredUsed SoftwareFallback
CHECK_DEADLOCK FALSE
