CONSTANTS
  Ops = {o1, o2}
  Detecting = {o1}
  Edits = {e1}
  MaxTime = 2
  MaxTroubles = 1
  MaxInFlight = 2
SPECIFICATION Spec
PROPERTIES DataNeverGoesBack ShowsTheRepository
