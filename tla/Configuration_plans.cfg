SPECIFICATION Spec
CONSTANTS
  MaxGeneration = 2
  MaxRetry = 0
  MaxDrift = 1
  MaxJobs = 4
  MaxFaults = 1
  Flaky = {}
  ZeroGens = {}
  AutoSettings = {TRUE}
  DriftSettings = {TRUE}
  Deletes = {}
  Reports = {"passed", "failed", "malformed"}
  PolicyChanges = {}
  Managed = FALSE
  ReadYourWrites = TRUE
  SecretsLag = TRUE
  Expiry = FALSE
CHECK_DEADLOCK FALSE
INVARIANTS PolicyGate ApplyMatchesPlan NoOverlap ReadyMeansApplied DriftChecked
