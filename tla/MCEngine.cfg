SPECIFICATION FairSpec
CONSTANTS
  pA = pA
  pB = pB
  eth0 = eth0
  eth1 = eth1
  NoServer = NoServer
  NoPolicy = NoPolicy
  Reject = Reject
  NoIface = NoIface
  DefaultUDP = 3
  Servers = {s1, s2}
  Sessions = {x1}
  Keys <- MCKeys
  ReloadKeys <- MCReloadKeys
INVARIANTS
  TypeOK
  PolicyMatchesKey
  NeverHalfBuilt
  ServingIsTracked
  SessionHasPolicy
PROPERTIES
  ClosedServerFreesPort
