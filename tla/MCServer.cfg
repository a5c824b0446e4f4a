SPECIFICATION MCSpec
CONSTANTS
  Fds = {f1, f2, f3}
  Names = {ann, bob, cat}
  FullNames = {cat}
  Tails = {more}
  TeamNames = {red}
  Bodies = {hi}
  UserIds = {u1, u2}
  TeamIds = {t1}
  ChannelIds = {c1}
  ThreadIds = {h1}
  None = None
  MaxMessages = 1
  MaxReplies = 1
  MaxQueue = 1
SYMMETRY Symmetry
VIEW ServerView
INVARIANTS
  ClosedLeavesNothing UniqueNames OnlineIsFlagged
PROPERTIES
  LostConnectionAnnounced PresenceEvents PrivateToReceiver CreationsTold ImplementsForum
