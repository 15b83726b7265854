SPECIFICATION Spec
CONSTANTS
  MaxGeneration = 2
  MaxRetry = 0
  MaxDrift = 0
  MaxJobs = 4
  MaxFaults = 0
  Flaky = {}
  ZeroGens = {1}
  AutoSettings = {TRUE}
  DriftSettings = {FALSE}
  Deletes = {FALSE}
  Reports = {}
  PolicyChanges = {}
  Managed = FALSE
  ReadYourWrites = TRUE
  SecretsLag = FALSE
  Expiry = FALSE
CHECK_DEADLOCK FALSE
PROPERTY CleanRelease
