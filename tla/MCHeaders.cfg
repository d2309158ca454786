CONSTANTS
  NULL = NULL
  MaxSteps = 2
  Byte = 4
  MaxMoves = 3
  Char = 4
  Word = 16
  Basis = 5
  Prime = 3
  Size = 4
  Tags = {t}
  MaxCalls = 2
SPECIFICATION Spec
INVARIANTS HandlesAgree LogsDelivered
PROPERTIES LanesRight RoundTrips
\* Every client stops after a bounded number of operations.
CHECK_DEADLOCK FALSE
