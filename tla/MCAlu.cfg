CONSTANT Operands <- MCOperands
SPECIFICATION AluSpec
INVARIANTS
  AdditionMeaning
  SubtractionMeaning
  ComparisonMeaning
  ShiftMeaning
