SPECIFICATION PollSpec
CONSTANTS
  Conns = {k1, k2}
  Fds = {4, 5}
  NoConn = NoConn
CHECK_DEADLOCK FALSE
INVARIANTS
  SurvivesDisconnection
