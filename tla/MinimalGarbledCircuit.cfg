CONSTANTS
  Kinds = {"And", "Xor", "Not", "Mux", "Output"}
  MaxInputs = 1
  MaxConstants = 1
  MaxGates = 2
  MaxOutputs = 1
SPECIFICATION Spec
INVARIANT WalkNeverThrows
PROPERTY ImplementsPlainEvaluation
CHECK_DEADLOCK FALSE
