SPECIFICATION MCFairSpec
CONSTANTS
  Router = {r1}
  Tunnel = {t1, t2}
  NoTunnel = NoTunnel
  Free = Free
  Main = Main
  Launched = Launched
  MaxRestarts = 3
  MaxEvents = 0
CHECK_DEADLOCK FALSE
PROPERTIES
  RestartReachesUp
