SPECIFICATION FairSpec
CONSTANTS
  Users <- MCUsers
  Id <- MCId
  Addresses = {1, 2}
  Origins <- MCOrigins
  ResultOrigins <- MCResultOrigins
  Targets <- MCTargets
  Infs <- MCInfs
  AliveTypes = {2}
  ID_BITS = 4
  DHT_K = 2
  OneBranchLevel = 1
  LastLevels = 1
  MaxListed = 1
  MaxLeft = 1
PROPERTY SilentNodeLeaves
INVARIANTS TypeOK EveryNodeInItsPlace CountIsExact ClosestIsExact KnownAddressIsUsed OnlineIsListed
CHECK_DEADLOCK TRUE
