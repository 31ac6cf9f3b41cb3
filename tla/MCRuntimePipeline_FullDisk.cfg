\* One export and one setup run on a disk that may be full.
CONSTANTS
  PlaintextModulus = 4
  CiphertextModulus = 16
  Keys <- MCKeys
  Ciphertexts <- MCRebuildCiphertexts
  UserMaterials = {}
  Builds = {"EMP"}
  kMaxDemoIterations = 3
  WordModulus = 8
  MaxExports = 1
  MaxSequence = 5
  FreshDirectory = TRUE
  Nothing = Nothing
  Torn = Torn
SPECIFICATION Spec
INVARIANT SuccessMeansWritten
