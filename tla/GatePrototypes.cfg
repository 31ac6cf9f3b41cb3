\* The loop: every start and every bound of three bits.  The circuit: two
\* registers, every noise that decrypts.  The reference: a ring of dimension
\* 16 over 509, a little below 8^3.  A loop or a gate ends when it is done.
CONSTANTS
  Width = 3
  Starts = {0, 1, 2, 3, 4, 5, 6, 7}
  Bounds = {0, 1, 2, 3, 4, 5, 6, 7}
  InputMasks <- MCMasks
  InputNoise <- MCNoise
  LweDimension = 2
  CiphertextModulus = 16
  RingDimension = 16
  RingModulus = 509
  GadgetBase = 8
  GadgetDigits = 3
  KeySwitchBase = 3
  KeySwitchDigits = 3
  FixedHsk <- MCHsk
  RingSecret <- MCRingSecret
  RowMask <- MCRowMask
  SwitchMask <- MCSwitchMask
  GateMasks <- MCGateMasks
  GateNoise <- MCGateNoise
SPECIFICATION Spec
INVARIANTS TopBoundNeverEnds GatesComposeWithoutNoise AccumulatorTurnsToTheGate
           SwitchingKeepsPhase UnmaskedGateDecrypts
PROPERTIES EndsBelowTop StepsOfPlainLoop StepTurnsByKeyBit
CHECK_DEADLOCK FALSE
