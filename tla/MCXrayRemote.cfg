SPECIFICATION FairSpec
CONSTANTS
  Request = {r1, r2, r3}
  None = None
  Dead = Dead
  MaxDeaths = 2
INVARIANTS
  TypeOK
  OneCore
  ForeignReplyIsLate
  SomethingComes
PROPERTIES
  RequestReturns
CHECK_DEADLOCK FALSE
