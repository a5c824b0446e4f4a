SPECIFICATION FlowSpec
CONSTANTS
  Clients = {a, b}
  SocketSize = 1
  AnswerSize = 2
  MaxLines = 3
  Patient = FALSE
CHECK_DEADLOCK FALSE
INVARIANTS
  WritesNeverWait
