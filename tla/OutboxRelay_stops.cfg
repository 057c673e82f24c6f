SPECIFICATION FairSpec
CONSTANTS
  r1 = r1
  r2 = r2
  Relays <- OneRelay
  MaxRow = 2
  Aggregate <- TwoRowAggregates
  BatchSize = 2
  TransientErrors <- AnyError
  MaxFaults = 1
INVARIANTS
  RunReturnsOnlyOnCancel
