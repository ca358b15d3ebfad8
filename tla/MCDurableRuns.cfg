SPECIFICATION AllSpec
CONSTANTS
  Sids = {s1, s2}
  Calls = {k1, k2, k3}
  FewCalls = {k1, k2}
  RequestIds = {"r1"}
  NoRequest = "none"
  MaxLive = 1
  RestartLimit = 1
  MaxCrashes = 1
  MaxRestarts = 1
  MaxMishaps = 0
  Happens = {"idle", "interrupt", "refusal", "cap"}
INVARIANT TypeOK
INVARIANT OneAtWork
INVARIANT PromptsKept
INVARIANT RingFollows
CHECK_DEADLOCK FALSE
