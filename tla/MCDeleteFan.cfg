SPECIFICATION Spec
CONSTANTS
  Trunk = trunk
  NoBranch = NoBranch
  NoCommit = NoCommit
  NoRebase = NoRebase
  NoCont = NoCont
  Elsewhere = {}
  b1 = b1
  b2 = b2
  b3 = b3
  Branches <- FourBranches
  Patches <- FourPatches
  SiblingOrders <- OneOrder
  Scenarios <- DeleteFanScenarios
INVARIANTS
  NoDanglingParent
CHECK_DEADLOCK FALSE
