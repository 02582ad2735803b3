SPECIFICATION Spec
CONSTANTS
  Kinds = {"config", "rules"}
  Inputs <- MCInputs
  Downloads = {geoip1, geoip2}
  Absent = Absent
  Torn = Torn
INVARIANTS TypeOK MemoryAgrees
PROPERTIES ImplementsAtomicFile
