SPECIFICATION RoutingSpec
CONSTANTS
  s1 = s1
  s2 = s2
  s3 = s3
  o1 = o1
  NoServer = NoServer
  Servers = {s1, s2, s3}
  Others = {o1}
  MaxWeight = 2
  MaxCalls = 7
  MaxNested = 1
  Replicas = 2
  Hashes <- MCHashes
  Fields = {1, 2, 3, 4, 5, 6, 7, 8, 9, 10, 11, 12, 13, 14, 15, 16, 17}
SYMMETRY Symmetry
INVARIANTS
  EveryTurn
  WeightedShare
  LoopEnds
  LookupCorrect
PROPERTIES
  BalancedFromStart
  MovesAreNeeded
