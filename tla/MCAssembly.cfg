CONSTANTS
  MemDepth <- AssemblyDepth
  Programs <- NoPrograms
  Sources <- WrittenTexts
  body_ops = 2
  TargetSets <- RandomTargets
  LoopCounts = {2}
  Immediates <- RandomImmediates
  Registers = {1, 9}
  ArithOps <- RandomArith
  BranchOps <- RandomBranches
SPECIFICATION RandomSpec
INVARIANT WordsWherePlaced
INVARIANT RelativeTargetsReached
INVARIANT OnlyUnreachableRejected
INVARIANT ProgramStaysIntact
PROPERTY ImplementsText
PROPERTY GeneratedHalts
CHECK_DEADLOCK FALSE
