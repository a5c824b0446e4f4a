SPECIFICATION FlowSpec
CONSTANTS
  Clients = {a, b}
  SocketSize = 2
  AnswerSize = 3
  MaxLines = 4
  Patient = TRUE
CHECK_DEADLOCK FALSE
PROPERTIES
  EveryLineAnswered
