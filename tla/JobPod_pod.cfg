SPECIFICATION FairSpec
CONSTANTS
  Jobs <- MCJobs
  BackoffLimit = 1
CHECK_DEADLOCK FALSE
INVARIANTS ReportsOfOnePlan SourceWhole
PROPERTIES JobEnds LogsEnd ImplementsJob
