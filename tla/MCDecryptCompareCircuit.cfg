\* The decrypt-compare circuit against the reference decryption.  The
\* circuit is evaluated once: it stops after Compare.
CONSTANTS
  PlaintextModulus = 4
  CiphertextModulus = 16
  ModulusBits = 4
  PlaintextBits = 2
  SecretKeys <- MCSecretKeys
  LeftOperands <- MCLeftOperands
  RightOperands <- MCRightOperands
SPECIFICATION Spec
INVARIANTS
  PadAccumulates
  DecryptsOperands
  PredicateOverPlaintexts
CHECK_DEADLOCK FALSE
