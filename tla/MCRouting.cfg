SPECIFICATION RoutingSpec
CONSTANTS
  Sessions = {s1, s2}
  Configs <- MCConfigs
  Entries <- MCEntries
  Cuts = {0, 21, 38, 53, 75, 76}
  Destinations <- MCDestinations
  MaxMoves = 2
SYMMETRY Symmetry
CHECK_DEADLOCK FALSE
INVARIANTS RoutingTypeOK RulesAsRead CountersAgree
