SPECIFICATION MCSpec
CONSTANTS
  Fds = {f1, f2, f3}
  Names = {ann, bob}
  FullNames = {}
  Tails = {}
  TeamNames = {red}
  Bodies = {}
  UserIds = {u1, u2}
  TeamIds = {t1}
  ChannelIds = {c1}
  ThreadIds = {h1}
  None = None
  MaxMessages = 0
  MaxReplies = 1
  MaxQueue = 1
SYMMETRY Symmetry
VIEW ServerView
PROPERTIES
  SubscribersTold
