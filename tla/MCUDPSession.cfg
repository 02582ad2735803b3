SPECIFICATION FairSpec
CONSTANTS
  Timeout = 3
  MaxQueue = 1
INVARIANTS TypeOK ClosedIsUnlisted
PROPERTIES NotReclaimedEarly SilentSessionEnds CutSessionLeaves
CHECK_DEADLOCK FALSE
