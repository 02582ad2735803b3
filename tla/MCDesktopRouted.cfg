SPECIFICATION Spec
CONSTANTS
  none = none
  r1 = r1
  r2 = r2
  p1 = p1
  p2 = p2
  t1 = t1
  t2 = t2
  Configs <- MCConfigs
  Default <- MCDefault
  Routed = {r1, r2}
  NoProxy = none
  Savers = {s1}
  Garbage = Garbage
  NoSum = NoSum
  NoRoutes = NoRoutes
  Failing = {"write", "startup", "start", "teardown", "Reload"}
INVARIANTS RoutedProxy
CHECK_DEADLOCK FALSE
