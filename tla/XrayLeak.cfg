SPECIFICATION FairSpec
CONSTANTS
  Session = {s1, s2}
  None = None
  MaxRestarts = 3
INVARIANT ConnectLeaksNothing
CHECK_DEADLOCK FALSE
