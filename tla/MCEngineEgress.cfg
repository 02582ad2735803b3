SPECIFICATION Spec
CONSTANTS
  pA = pA
  pB = pB
  eth0 = eth0
  eth1 = eth1
  NoServer = NoServer
  NoPolicy = NoPolicy
  Reject = Reject
  NoIface = NoIface
  DefaultUDP = 3
  Servers = {}
  Sessions = {x1}
  Keys <- MCBoundKeys
  ReloadKeys <- MCBoundKeys
INVARIANTS
  EgressBound
