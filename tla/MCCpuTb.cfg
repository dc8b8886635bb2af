CONSTANTS
  MemDepth <- MCPageDepth
  Programs <- CpuTbPrograms
  MaxCycles = 60
SPECIFICATION BoundedSpec
INVARIANT CpuTbExpectation
