SPECIFICATION Spec
CONSTANTS
  MaxGeneration = 2
  MaxRetry = 0
  MaxDrift = 0
  MaxJobs = 3
  MaxFaults = 0
  Flaky = {}
  ZeroGens = {}
  AutoSettings = {TRUE, FALSE}
  DriftSettings = {FALSE}
  Deletes = {}
  Reports = {}
  PolicyChanges = {}
  Managed = FALSE
  ReadYourWrites = FALSE
  SecretsLag = FALSE
  Expiry = FALSE
CHECK_DEADLOCK FALSE
INVARIANTS TypeOK ApplyApproved
PROPERTY ImplementsWorkflow
