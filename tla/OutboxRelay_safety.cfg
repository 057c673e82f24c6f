SPECIFICATION Spec
CHECK_DEADLOCK FALSE
CONSTANTS
  r1 = r1
  r2 = r2
  Relays <- TwoRelays
  MaxRow = 3
  Aggregate <- ThreeRowAggregates
  BatchSize = 2
  TransientErrors <- AnyError
  MaxFaults = 4
SYMMETRY Symmetry
INVARIANTS
  MarkedOnlyIfStored
  DrainsOwnTheirRows
PROPERTIES
  QuarantinedRowsAreKept
  ImplementsDelivery
