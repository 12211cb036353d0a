SPECIFICATION FairSpec
CONSTANTS
  Session = {s1, s2}
  None = None
  MaxRestarts = 3
INVARIANT ForceStopReleases
CHECK_DEADLOCK FALSE
