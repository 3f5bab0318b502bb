SPECIFICATION Spec
CONSTANTS
  Entries = 2
  Names = {n1}
  MaxConcurrency = 2
  MaxFaults = 1
  Nothing = Nothing
INVARIANT TruncatedNeverPublished
CHECK_DEADLOCK FALSE
