CONSTANTS
  Effects = {commits}
  MaxSockets = 3
  MaxPosts = 2
  MaxVersions = 2
SPECIFICATION Spec
INVARIANT DeliveredOrLostTogether
PROPERTY WindowCatchesUp
CHECK_DEADLOCK FALSE
