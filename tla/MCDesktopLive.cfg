SPECIFICATION FairSpec
CONSTANTS
  none = none
  r1 = r1
  r2 = r2
  p1 = p1
  p2 = p2
  t1 = t1
  t2 = t2
  Configs <- MCThreeConfigs
  Default <- MCDefault
  Routed = {r1, r2}
  NoProxy = none
  Savers = {s1}
  Garbage = Garbage
  NoSum = NoSum
  NoRoutes = NoRoutes
  Failing = {"write", "startup", "start", "teardown", "StopE", "Reload"}
INVARIANTS NoResurrection
PROPERTIES EditConsumed  ShutdownReturns
CHECK_DEADLOCK FALSE
