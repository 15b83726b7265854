SPECIFICATION FairSpec
CONSTANTS
  Versions = {1, 2}
  db = db
  CRs = {db}
  MaxLag = 2
  Withdrawals = {}
  Wanted = {0}
  CacheLags = FALSE
PROPERTIES ResourceDeletionEnds
CHECK_DEADLOCK FALSE
