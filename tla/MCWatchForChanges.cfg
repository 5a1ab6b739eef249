CONSTANTS
  Failures = 1
  Pages = {w1, w2}
  OnFocusThrottle = 1
  FocusedInterval = 2
  OnVisibleThrottle = 3
  VisibleInterval = 4
  DefaultInterval = 5
SPECIFICATION Spec
INVARIANT FilesAreAskedForInTime
PROPERTIES EverythingIsPolledAgain WatchRecovers
