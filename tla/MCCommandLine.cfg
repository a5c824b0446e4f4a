SPECIFICATION InputSpec
CONSTANTS
  MaxTyped = 7
  ReadSize = 4
CHECK_DEADLOCK FALSE
INVARIANTS
  LinesAsTyped QuotingKeepsCommands
