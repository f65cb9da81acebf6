CONSTANTS
  Base = 4
  MaxBytes = 8
SPECIFICATION Spec
INVARIANTS TwosComplement TextIsCut
\* The response is complete.
CHECK_DEADLOCK FALSE
