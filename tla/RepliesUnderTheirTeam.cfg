SPECIFICATION PopulatedSpec
CONSTANTS
  u1 = u1
  u2 = u2
  t1 = t1
  t2 = t2
  c1 = c1
  h1 = h1
  Fds = {f1, f2}
  Names = {ann, bob}
  FullNames = {}
  Tails = {}
  TeamNames = {red}
  Bodies = {hi}
  UserIds = {u1, u2}
  TeamIds = {t1, t2}
  ChannelIds = {c1}
  ThreadIds = {h1}
  None = None
  MaxMessages = 1
  MaxReplies = 1
  MaxQueue = 1
  MaxSent = 2
VIEW SystemView
INVARIANTS
  RepliesUnderTheirTeam
