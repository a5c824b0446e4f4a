SPECIFICATION InputSpec
CONSTANTS
  MaxTyped = 6
  ReadSize = 4
CHECK_DEADLOCK FALSE
INVARIANTS
  ValuesAreQuoted
