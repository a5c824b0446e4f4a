SPECIFICATION Spec
CONSTANTS
  Fds = {f1, f2}
  Names = {ann, bob}
  FullNames = {}
  Tails = {}
  TeamNames = {red}
  Bodies = {hi}
  UserIds = {u1, u2}
  TeamIds = {t1}
  ChannelIds = {c1}
  ThreadIds = {h1}
  None = None
  MaxMessages = 0
  MaxReplies = 0
SYMMETRY Symmetry
VIEW dataVars
PROPERTY ReadsBySubscribers
