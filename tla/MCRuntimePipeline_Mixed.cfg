\* Three setups over one directory, killed anywhere: files of all three mix.
CONSTANTS
  PlaintextModulus = 4
  CiphertextModulus = 16
  Keys <- MCRebuildKeys
  Ciphertexts <- MCMixedCiphertexts
  UserMaterials <- MCUserMaterials
  Builds = {"EMP", "MIN"}
  kMaxDemoIterations = 3
  WordModulus = 8
  MaxExports = 3
  MaxSequence = 5
  FreshDirectory = FALSE
  Nothing = Nothing
  Torn = Torn
SPECIFICATION FairSpec
INVARIANTS
  ExactReveal
  CoherentRunEndsByPredicate
  SuccessBelongsTogether
PROPERTIES
  RuntimeEnds
  SetupEnds
