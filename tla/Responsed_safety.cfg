SPECIFICATION Spec
CONSTANTS
  r1 = r1
  r2 = r2
  NoRoute = NoRoute
  Daemon = daemon
  Once = {once}
  Call = {1, 2, 3}
  RouteOf <- SecondHasNone
  SshCall = {1}
  MaxNotices = 1
  MaxLosses = 1
  MaxErrors = 1
  MaxCrashes = 1
CHECK_DEADLOCK FALSE
INVARIANT TypeOK
INVARIANT ExportIsBacked
INVARIANT OnlySuccessWritten
PROPERTY InOrderPerPass
CONSTRAINT OneFault RoutelessStays
