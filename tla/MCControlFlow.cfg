CONSTANTS
  MemDepth <- MCDepth
  Programs <- ControlPrograms
  MaxCycles = 30
  Floating <- AnyBus
SPECIFICATION EitherBoundedSpec
INVARIANT InstructionInFlight
INVARIANT PathFollowsInstruction
INVARIANT OperandPrepared
PROPERTY OnlyStoresWrite
PROPERTY PnrImplementsCore
