CONSTANTS
  Benches = {"tb_top", "basic_cpu_tb", "cpu_core_tb", "diff_main", "compare_results"}
  MemDepth <- Depth
  Programs <- Memories
  HexFiles <- DebuggerMemories
  max_cycles = 14
  CountCap = 16
  MaxStep = 2
  Addresses = {1, 2}
  BasicDepth = 3
  BasicPrograms <- BasicMemories
  StepTargets = {1, 2, 4}
  CoreTbPrograms <- CoreMemories
  MAX_CYCLES = 21
  max_steps = 9
  halt_repeat_threshold = 3
  NoFile = NoFile
  kMaxCycles = 28
  kMaxRetires = 8
  kMaxMismatches = 5
  Values = {0, 1}
  MaxRows = 2
SPECIFICATION BenchesSpec
INVARIANT StopsBetweenInstructions
INVARIANT RowsOfReference
INVARIANT LockStep
INVARIANT SettledAtHalt
INVARIANT ZeroMeansAgreement
PROPERTY StepsWholeInstructions
PROPERTY HaltedIsFinal
PROPERTY BreakpointNeverPassed
PROPERTY CommandsReturn
PROPERTY SimulationEnds
CHECK_DEADLOCK FALSE
