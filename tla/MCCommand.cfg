SPECIFICATION SpecOfParts
CONSTANTS
  Trunk = Trunk
  NoBranch = NoBranch
  NoCommit = NoCommit
  b1 = b1
  b2 = b2
  b3 = b3
  b4 = b4
  p1 = p1
  p2 = p2
  k1 = k1
  k2 = k2
  Commands = {k1, k2}
  Scenarios <- MCScenarios
  Values = {3}
  MaxMinutes = 2
  MaxReleases = 3
  Paths = {"f", "g"}
  Contents = {0, 1}
  MaxCommits = 4
  MaxTrunk = 3
  Branches <- MCBranches
  Patches <- MCPatches
  Disks <- MCDisks
  Parts = {"load", "files", "log", "submit", "merged"}
CHECK_DEADLOCK FALSE
INVARIANTS
  VerdictsAreRight
  MatchesDefinition
  FilesAreKept
  PictureShowsTheTree
  SubmittedAsStacked
  PushedFromTheBottom
  WorkGoesWhenLanded
PROPERTIES
  LoadsEnd
