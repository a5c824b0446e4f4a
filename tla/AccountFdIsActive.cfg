SPECIFICATION AccountsSpec
CONSTANTS
  Fds = {f1, f2}
  Names = {ann, bob}
  FullNames = {}
  Tails = {}
  TeamNames = {}
  Bodies = {hi}
  UserIds = {u1, u2}
  TeamIds = {}
  ChannelIds = {}
  ThreadIds = {}
  None = None
  MaxMessages = 0
  MaxReplies = 0
SYMMETRY Symmetry
VIEW dataVars
INVARIANT AccountFdIsActive
