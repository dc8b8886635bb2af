CONSTANTS
  MemDepth <- MCDepth
  Programs <- ControlPrograms
  MaxCycles = 30
  Floating <- AnyBus
SPECIFICATION BoundedSpec
INVARIANT Bit15SelectsPath
