SPECIFICATION MCSpec
CONSTANTS
  Fds = {f1, f2}
  Names = {ann, bob}
  FullNames = {}
  Tails = {}
  TeamNames = {red}
  Bodies = {hi}
  UserIds = {u1, u2}
  TeamIds = {t1}
  ChannelIds = {}
  ThreadIds = {}
  None = None
  MaxMessages = 0
  MaxReplies = 0
  MaxQueue = 1
SYMMETRY Symmetry
VIEW ServerView
PROPERTY CreatorHearsOfTeam
