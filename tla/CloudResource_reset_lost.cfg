SPECIFICATION FairSpec
CONSTANTS
  Versions <- MCVersions
  Keys <- MCKeys
  Fixed <- MCFixed
  Defaults <- MCDefaults
  Unsettable <- MCUnsettable
  Specs <- MCSpecs
  MaxConfigs = 2
  Worlds <- MCResetFails
CHECK_DEADLOCK FALSE
INVARIANTS OrderApproved
