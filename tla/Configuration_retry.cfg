SPECIFICATION FairSpec
CONSTANTS
  MaxGeneration = 1
  MaxRetry = 1
  MaxDrift = 0
  MaxJobs = 5
  MaxFaults = 0
  Flaky = {}
  ZeroGens = {}
  AutoSettings = {TRUE}
  DriftSettings = {FALSE}
  Deletes = {FALSE}
  Reports = {}
  PolicyChanges = {}
  Managed = FALSE
  ReadYourWrites = TRUE
  SecretsLag = FALSE
  Expiry = TRUE
CHECK_DEADLOCK FALSE
INVARIANT AppliedOnce
PROPERTY RetryRuns
