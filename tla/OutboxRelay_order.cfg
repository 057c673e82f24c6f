SPECIFICATION FairSpec
CHECK_DEADLOCK FALSE
CONSTANTS
  r1 = r1
  r2 = r2
  Relays <- OneRelay
  MaxRow = 3
  Aggregate <- ThreeRowAggregates
  BatchSize = 2
  TransientErrors <- NoTimeouts
  MaxFaults = 4
INVARIANTS
  PerAggregateOrder
PROPERTIES
  AtLeastOnce
