SPECIFICATION Spec
CONSTANTS
  a = a
  b = b
  lo = lo
  IPs = {a, b, lo}
  Loopback = {lo}
  Networks = {wifi, lan}
  MaxFaults = 3
  MaxSwitches = 1
SYMMETRY Sym
INVARIANTS
  TypeOK
  AntiLoop
  NothingForgotten
