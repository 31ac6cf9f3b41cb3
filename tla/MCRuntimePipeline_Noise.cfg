\* Every material with one mask, whatever its noise, once.
CONSTANTS
  PlaintextModulus = 4
  CiphertextModulus = 16
  Keys <- MCKeys
  Ciphertexts <- MCCiphertexts
  UserMaterials = {}
  Builds = {"EMP"}
  kMaxDemoIterations = 3
  WordModulus = 8
  MaxExports = 1
  MaxSequence = 5
  FreshDirectory = TRUE
  Nothing = Nothing
  Torn = Torn
SPECIFICATION Spec
INVARIANTS
  TypeOK
  InstalledMaterialCounts
PROPERTY RefinesPlainLoop
