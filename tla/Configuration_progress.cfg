SPECIFICATION FairSpec
CONSTANTS
  MaxGeneration = 2
  MaxRetry = 0
  MaxDrift = 0
  MaxJobs = 6
  MaxFaults = 0
  Flaky = {}
  ZeroGens = {}
  AutoSettings = {TRUE, FALSE}
  DriftSettings = {FALSE}
  Deletes = {FALSE}
  Reports = {"passed", "failed"}
  PolicyChanges = {}
  Managed = FALSE
  ReadYourWrites = TRUE
  SecretsLag = FALSE
  Expiry = FALSE
CHECK_DEADLOCK FALSE
PROPERTIES GenerationDecided DeletionEnds
