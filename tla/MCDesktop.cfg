SPECIFICATION Spec
CONSTANTS
  none = none
  r1 = r1
  r2 = r2
  p1 = p1
  p2 = p2
  t1 = t1
  t2 = t2
  Configs <- MCConfigs
  Default <- MCDefault
  Routed = {r1, r2}
  NoProxy = none
  Savers = {s1, s2}
  Garbage = Garbage
  NoSum = NoSum
  NoRoutes = NoRoutes
  Failing = {"Reload"}
INVARIANTS TypeOK SettledConsistent
PROPERTIES SaveNeverReverted
SYMMETRY Sym
CHECK_DEADLOCK FALSE
