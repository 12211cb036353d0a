SPECIFICATION Spec
CONSTANTS
  SeqBacktrack = 2
  TimeBacktrack = 1
  ReapInterval = 2
  IdMax = 4
  MaxNow = 7
  MaxSent = 6
INVARIANTS
  TypeOK
  NoReplay
  NoFalseAlarm
PROPERTIES
  TimelyOnly
  NoIdReused
CHECK_DEADLOCK FALSE
