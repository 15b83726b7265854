SPECIFICATION FairSpec
CONSTANTS
  Versions <- MCVersions
  Keys <- MCKeys
  Fixed <- MCFixed
  Defaults <- MCDefaults
  Unsettable <- MCUnsettable
  Specs <- MCSpecs
  MaxConfigs = 2
  Worlds <- MCWorlds
CHECK_DEADLOCK FALSE
INVARIANT OrderApproved
PROPERTIES OrderFollowed ApprovalAsked ApprovalCarried OrderRemoved
