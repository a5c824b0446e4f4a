SPECIFICATION Spec
CONSTANTS
  Fds = {f1, f2}
  Names = {ann, bob}
  FullNames = {bob}
  Tails = {more}
  TeamNames = {red}
  Bodies = {hi}
  UserIds = {u1, u2}
  TeamIds = {t1, t2}
  ChannelIds = {c1}
  ThreadIds = {h1}
  None = None
  MaxMessages = 0
  MaxReplies = 2
SYMMETRY Symmetry
VIEW dataVars
INVARIANTS
  TypeOK SessionsAgree TreeIsRooted ContextResolves MembersOnce
PROPERTIES
  UnsubscribeEnds ContentBySubscribers NothingLost ImplementsForum
