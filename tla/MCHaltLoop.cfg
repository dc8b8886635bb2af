CONSTANTS
  MemDepth <- MCPageDepth
  Programs <- SetupPrograms
  MaxCycles = 60
SPECIFICATION BoundedSpec
INVARIANT HaltLoopAtTarget
