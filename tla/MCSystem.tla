------------------------------ MODULE MCSystem --------------------------------
(* System on small sets of model values, from scratch or from a server that is *)
(* in use already.                                                             *)
EXTENDS System

CONSTANTS u1, u2, t1, t2, c1, h1  \* of UserIds, TeamIds, ChannelIds, ThreadIds

\* Users by the connections they are logged in on.
LoggedIn == [fd \in Fds |-> IF fd = CHOOSE first \in Fds : TRUE THEN u1 ELSE u2]
NameOf == [u \in UserIds |-> IF u = u1 THEN CHOOSE n \in Names : TRUE
                             ELSE CHOOSE n \in Names : n # CHOOSE m \in Names : TRUE]

\* u1 has come back to no team, the other is in the thread.
Selected == [fd \in Fds |-> IF LoggedIn[fd] = u1 THEN RootContext
                            ELSE UseContext("USE_THREAD", t1, c1, h1)]

\* Everybody is logged in, has used /use, and is in both teams that exist; the
\* first team has a channel with a thread.
PopulatedInit ==
  /\ users = [u \in UserIds |->
       [name |-> NameOf[u], is_logged |-> \E fd \in Fds : LoggedIn[fd] = u,
        fd |-> CHOOSE fd \in Fds : (\E g \in Fds : LoggedIn[g] = u) => LoggedIn[fd] = u,
        first |-> TRUE]]
  /\ sessions = LoggedIn
  /\ client_contexts = Selected
  /\ messages = <<>>
  /\ teams = [t \in TeamIds |-> IF t \in {t1, t2} THEN CHOOSE n \in TeamNames : TRUE ELSE None]
  /\ member_uuids = [t \in TeamIds |-> [u \in UserIds |-> IF t \in {t1, t2} THEN 1 ELSE 0]]
  /\ channels = [c \in ChannelIds |-> IF c = c1 THEN t1 ELSE None]
  /\ threads = [th \in ThreadIds |-> IF th = h1 THEN [channel |-> c1, creator |-> u1] ELSE NoThread]
  /\ replies = [th \in ThreadIds |-> <<>>]
  /\ result = [to |-> CHOOSE fd \in Fds : LoggedIn[fd] = u1, push |-> NoPacket, fds |-> {},
               response |-> Packet("RES_USER_DETAILS", <<u1, NameOf[u1]>>)]
  /\ clients = Fds
  /\ send_buffer = [fd \in Fds |-> <<>>]
  /\ _running = [fd \in Fds |-> TRUE]
  /\ my_context = Selected
  /\ my_user = LoggedIn
  /\ to_server = [fd \in Fds |-> <<>>]
  /\ shown = [fd \in Fds |-> NothingShown]
  /\ awaiting = [fd \in Fds |-> <<>>]
  /\ last_use = [fd \in Fds |-> "accepted"]

-----------------------------------------------------------------------------
(* Every client with every command is too much for one run: plan says, for the *)
(* whole of a behaviour, which commands each user types, and how many ahead.   *)

VARIABLE plan  \* fd -> [types: commands, ahead: how many on their way]

first == CHOOSE fd \in Fds : LoggedIn[fd] = u1

Plan(one, other) == [fd \in Fds |-> IF fd = first THEN one ELSE other]
OneOf(commands) == [types |-> commands, ahead |-> 1]
TwoOf(commands) == [types |-> commands, ahead |-> 2]
Nothing == OneOf({})

ReadCommands == {"CMD_USERS", "CMD_USER", "CMD_MESSAGES", "CMD_LIST", "CMD_INFO"}
TeamCommands == {"CMD_SUBSCRIBE", "CMD_UNSUBSCRIBE", "CMD_SUBSCRIBED"}

\* From a server nobody has used, and from one in use.
FreshPlans == {Plan(OneOf({"CMD_LOGIN", "CMD_LOGOUT"}), OneOf({"CMD_LOGIN", "CMD_LOGOUT"}))}
PopulatedPlans ==
  {Plan(OneOf(ReadCommands), OneOf({"CMD_SEND"})),
   Plan(OneOf(TeamCommands), OneOf({"CMD_LOGOUT"})),
   Plan(OneOf({"CMD_USE", "CMD_LIST", "CMD_INFO"}), OneOf({"CMD_CREATE"})),
   Plan(TwoOf({"CMD_LOGIN", "CMD_USE"}), Nothing)}

MCInit ==
  \/ SystemInit /\ plan \in FreshPlans
  \/ PopulatedInit /\ plan \in PopulatedPlans

\* What was sent is in the sender's plan.
AsPlanned(fd) ==
  Len(to_server'[fd]) > Len(to_server[fd])
    => /\ Len(to_server'[fd]) <= plan[fd].ahead
       /\ to_server'[fd][Len(to_server'[fd])].code \in plan[fd].types

MCNext == SystemNext /\ UNCHANGED plan /\ \A fd \in Fds : AsPlanned(fd)

MCSpec == MCInit /\ [][MCNext]_<<systemVars, plan>>

\* All commands, for short behaviours of a server in use.
PopulatedSpec ==
  PopulatedInit /\ plan = <<>> /\ [][SystemNext /\ UNCHANGED plan]_<<systemVars, plan>>

\* result is what the last handler returned; no action reads it unprimed.
SystemView == <<dataVars, clients, send_buffer, clientVars, last_use, plan>>
===============================================================================
