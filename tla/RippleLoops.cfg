\* All operands of four bits under all four adders and both comparators; the
\* loops stop after Conclude.
CONSTANT Width = 4
SPECIFICATION LoopsSpec
INVARIANTS
  NothingLost
  ResultIsModular
  PrefixOrdered
  PredicateOfOperands
CHECK_DEADLOCK FALSE
