SPECIFICATION SyncSpec
CONSTANTS
  Trunk = trunk
  NoBranch = NoBranch
  NoCommit = NoCommit
  NoRebase = NoRebase
  NoCont = NoCont
  NoSync = NoSync
  b1 = b1
  b2 = b2
  b3 = b3
  Branches <- FourBranches
  Patches <- SixPatches
  Elsewhere <- FromElsewhere
  SiblingOrders <- OneOrder
  Scenarios <- AllScenarios
  Remotes <- SomeRemotes
INVARIANTS
  WritesThrough
  NoCycleOnDisk
  PatchesStayInPlace
  ContinuationMatchesRebase
  NoDanglingParent
  ReloadAgrees
  SyncedAsAsked
PROPERTIES
  AlwaysRestackedAgain
CHECK_DEADLOCK FALSE
