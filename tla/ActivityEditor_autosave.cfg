SPECIFICATION Spec
CONSTANTS
  None = None
  MaxCalls = 2
  MaxLost = 0
  MaxActs = 2
INVARIANTS EditsAreSaved
CHECK_DEADLOCK FALSE
