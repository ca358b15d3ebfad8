SPECIFICATION Spec
CONSTANTS
  s1 = s1
  s2 = s2
  s3 = s3
  k1 = k1
  k2 = k2
  k3 = k3
  k4 = k4
  k5 = k5
  Sids <- ThreeSids
  Calls <- FiveCalls
  RequestIds = {}
  NoRequest = "none"
  MaxLive = 2
  RestartLimit = 1
  MaxCrashes = 0
  MaxRestarts = 0
  MaxMishaps = 0
  Happens = {}
SYMMETRY LimitSymmetry
INVARIANT ChildrenLimit
CHECK_DEADLOCK FALSE
