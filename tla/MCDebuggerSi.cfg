CONSTANTS
  Benches = {"tb_top"}
  MemDepth <- Depth
  Programs <- DebuggerMemories
  HexFiles <- OneWordMemories
  max_cycles = 14
  CountCap = 16
  MaxStep = 2
  Addresses = {1, 2}
  BasicDepth = 3
  BasicPrograms <- BasicMemories
  StepTargets = {1, 2, 4}
  CoreTbPrograms <- DebuggerMemories
  MAX_CYCLES = 21
  max_steps = 9
  halt_repeat_threshold = 3
  NoFile = NoFile
  kMaxCycles = 28
  kMaxRetires = 8
  kMaxMismatches = 5
  Values = {0, 1}
  MaxRows = 2
SPECIFICATION BenchesSpec
CHECK_DEADLOCK FALSE
PROPERTY SiStopsOnBoundary
