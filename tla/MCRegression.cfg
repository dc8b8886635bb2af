CONSTANTS
  SIGNOFF_ISA <- MCIsa
  INSTR_BINS <- MCInstrBins
  Bins <- MCBins
  Listed <- MCListed
  Kind <- MCKind
  Opcodes <- MCOpcodes
  TestOrder <- MCTestOrder
  RandomRuns <- MCRandomRuns
  TargetedRuns <- MCTargetedRuns
  Hits <- MCHits
  rg_installed = TRUE
  MaxRegressions = 2
SPECIFICATION RegressionSpec
INVARIANT OnlyCleanTestsCount
INVARIANT CompletedReportsOfThisRun
INVARIANT SignedOffWasTested
PROPERTY RegressionEnds
CHECK_DEADLOCK FALSE
