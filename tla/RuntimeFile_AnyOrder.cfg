\* Either order: what the C++ standard leaves to the compiler.
CONSTANTS
  Formats = {"EMP", "MIN", "SHAPE"}
  ArgumentOrders = {"first to last", "last to first"}
  FirstPayload = 60
  MaxRecords = 2
SPECIFICATION Spec
INVARIANT SetupFileIsReadBack
CHECK_DEADLOCK FALSE
