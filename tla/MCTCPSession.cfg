SPECIFICATION FairSpec
CONSTANT MaxChunks = 2
INVARIANTS TypeOK FinMeansComplete
PROPERTIES HalfOpenEnds
CHECK_DEADLOCK FALSE
