\* Four bits, as in the source, and any two integers; small moduli.
CONSTANTS
  LweDimension = 2
  CiphertextModulus = 16
  RingDimension = 16
  RingModulus = 509
  GadgetBase = 8
  GadgetDigits = 3
  KeySwitchBase = 3
  KeySwitchDigits = 3
  FixedHsk <- AlternatingHsk
  IntegerBits = 4
  Operands = {0, 1, 2, 3, 4, 5, 6, 7, 8, 9, 10, 11, 12, 13, 14, 15}
SPECIFICATION PredicateSpec
INVARIANT RevealsThePredicate
CHECK_DEADLOCK FALSE
