SPECIFICATION Spec
CONSTANTS
  MaxGeneration = 1
  MaxRetry = 0
  MaxDrift = 0
  MaxJobs = 3
  MaxFaults = 1
  Flaky = {"reconcileAnnotation", "valueFromSecret", "backendTemplate"}
  ZeroGens = {}
  AutoSettings = {FALSE}
  DriftSettings = {FALSE}
  Deletes = {TRUE, FALSE}
  Reports = {"passed"}
  PolicyChanges = {TRUE, FALSE}
  Managed = TRUE
  ReadYourWrites = TRUE
  SecretsLag = TRUE
  Expiry = FALSE
CHECK_DEADLOCK FALSE
INVARIANT NeverSilent
PROPERTY ReleaseAccounted
