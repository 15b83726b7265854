SPECIFICATION FairSpec
CONSTANTS
  Versions = {1, 2}
  db = db
  CRs = {db}
  MaxLag = 2
  Withdrawals = {1}
  Wanted = {0, 1}
  CacheLags = TRUE
INVARIANT HighestKept
PROPERTIES RevisionsListed RevisionDeletionEnds
