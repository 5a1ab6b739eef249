SPECIFICATION SpecOfParts
CONSTANTS
  f = f
  g = g
  Files = {f, g}
  MaxOps = 2
  MaxElsewhere = 1
  Trunk = "main"
  New = "n"
  NoBranch = ""
  Typed = {"x"}
  MaxTurns = 2
  Branches <- FormBranches
  ParentOf <- FormParents
  Prs <- NoPrs
  Clients = {"workspace"}
  Folders <- DiffFolders
  DiffFiles = {"/r/f"}
  Cwds <- DiffPaths
  Roots = {"/r"}
  RootOf <- DiffRoots
  Inside <- DiffInside
  NoRoot = ""
  Documents <- DiffDocuments
  DiffBranches = {"main", "a"}
  DiffTrunk = "main"
  NoRef = ""
  MaxItems = 1
  MaxCats = 1
  MaxCommits = 1
  MaxAdded = 2
  MaxAsked = 1
  Parts = {"comparison", "form", "tree", "conflicts", "diff"}
SYMMETRY Symmetry
INVARIANTS
  ViewShowsBothFiles
  ShownIsSent
  ShownTreeIsTheRealOne
  ShownAsItIs
  ShownOnceFound
CHECK_DEADLOCK FALSE
