\* Two attempts of the showcase; after its end the script may be run again.
CONSTANTS
  PlaintextModulus = 4
  CiphertextModulus = 16
  Keys <- MCKeys
  Ciphertexts <- MCCiphertexts
  UserMaterials = {}
  Builds = {"EMP"}
  kMaxDemoIterations = 3
  WordModulus = 8
  MaxExports = 2
  MaxSequence = 5
  FreshDirectory = TRUE
  ShowcaseA = 1
  ShowcaseB = 2
  max_attempts = 2
  Nothing = Nothing
  Torn = Torn
SPECIFICATION DriverFairSpec
INVARIANTS
  ShowcaseIsExact
  AuditedRuntimeFinishes
  RejectedAttemptLeavesNothing
  FailsForNoiseOnly
  KeyBelongsToFiles
PROPERTY ShowcaseEnds
