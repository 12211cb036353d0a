SPECIFICATION FairSpec
CONSTANTS
  Session = {s1, s2}
  None = None
  MaxRestarts = 3
PROPERTY DeadServerEnds
CONSTRAINT Calm
CHECK_DEADLOCK FALSE
