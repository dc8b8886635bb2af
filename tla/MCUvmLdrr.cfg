CONSTANTS
  MemDepth <- UvmDepth
  Programs <- UvmPrograms
  max_steps = 8
  halt_repeat_threshold = 3
  max_cycles = 24
SPECIFICATION UvmSpec
CHECK_DEADLOCK FALSE
INVARIANT LdrrReadMeansLoad
