SPECIFICATION FairSpec
CONSTANTS
  r1 = r1
  r2 = r2
  NoRoute = NoRoute
  Daemon = daemon
  Once = {}
  Call = {1, 2, 3}
  RouteOf <- LastIsElsewhere
  SshCall = {}
  MaxNotices = 1
  MaxLosses = 1
  MaxErrors = 1
  MaxCrashes = 1
CHECK_DEADLOCK FALSE
PROPERTY GoodIsExported
