SPECIFICATION SpecOfParts
CONSTANTS
  c1 = c1
  c2 = c2
  outer = outer
  nested = nested
  top = top
  deep = deep
  NoRoot = NoRoot
  Clients <- Windows
  Cwds <- Directories
  Roots <- TwoRoots
  RootOf <- RootsFound
  Inside <- Below
  MaxReferences = 3
  MaxQueued = 2
  x = x
  y = y
  Trunk = Trunk
  b1 = b1
  b2 = b2
  b3 = b3
  n1 = n1
  n2 = n2
  NoBranch = NoBranch
  f1 = f1
  f2 = f2
  Absent = Absent
SYMMETRY SameWindows
INVARIANTS
  RepositoriesAreShared
  HandledWithTheNewRepository
  CheckedOutAsRecorded
  FlattenedAsCheckedOut
  PreviewsComeTrue
CHECK_DEADLOCK FALSE
