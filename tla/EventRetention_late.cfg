SPECIFICATION RetentionSpec
CHECK_DEADLOCK FALSE
CONSTANTS
  DuplicateWindow = 3
  StreamMaxAge = 3
  ProcessedEvents = 4
  Horizon = 12
INVARIANTS
  OutlivingTheStreamIsEnough
