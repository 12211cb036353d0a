SPECIFICATION FairSpec
CONSTANTS
  Session = {s1, s2, s3}
  None = None
  MaxRestarts = 3
INVARIANTS
  TypeOK
  CoreHasTun
  NothingLost
  UiAgrees
PROPERTIES
  SilentPathGivenUp
  StartAnswered
CONSTRAINT Calm
CHECK_DEADLOCK FALSE
