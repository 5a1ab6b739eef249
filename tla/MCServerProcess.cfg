CONSTANTS
  Proxies = {p1, p2, p3}
  Openers = {p1, p3}
  Movers = {p1}
  Foreign = FALSE
  Updated = {p2}
  Tries = 2
SPECIFICATION Spec
INVARIANT FileNamesTheServer
PROPERTIES EveryRunEnds UnusedServerGoes
CHECK_DEADLOCK FALSE
