SPECIFICATION MCFairSpec
CONSTANTS
  Router = {r1}
  Tunnel = {t1, t2}
  NoTunnel = NoTunnel
  Free = Free
  Main = Main
  Launched = Launched
  MaxRestarts = 3
  MaxEvents = 1
CHECK_DEADLOCK FALSE
INVARIANTS
  TypeOK
  DroppedStaysDown
PROPERTIES
  PacedUp
  ImplementsSlot
  RouterCallReturns
  LaunchedDownHappens
  ConnectingResolves
  CancelledLoopEnds
  LeftoverLoopEnds
