CONSTANTS
  MemDepth <- UvmDepth
  Programs <- UvmPrograms
  max_steps = 8
  halt_repeat_threshold = 3
  max_cycles = 24
SPECIFICATION UvmSpec
INVARIANT FilesOfHaltedProgram
INVARIANT EventsTellTheRun
INVARIANT NoMismatch
INVARIANT PassedIsTheReferenceRun
INVARIANT BinsMissNothing
INVARIANT TimeoutOnlyBeyondBudget
PROPERTY TestEnds
PROPERTY EarlyWriteImplementsIsa
CHECK_DEADLOCK FALSE
