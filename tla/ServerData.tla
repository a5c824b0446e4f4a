----------------------------- MODULE ServerData -----------------------------
(***************************************************************************)
(* The state shared by every command handler of the MyTeams server         *)
(* (server_data_t in include/data.hpp), the lookups over it                *)
(* (src/server/handlers/mtp_detail.hpp) and the Result a handler returns   *)
(* (include/mtp.hpp).                                                      *)
(*                                                                         *)
(* A UUID is a member of a set of identifiers; an identifier that has not  *)
(* been handed out yet stands for the ones uuid_generate can still return. *)
(* The maps of the code are total functions whose value is None (or a      *)
(* record of Nones) where the map has no entry.  A team's tree is stored   *)
(* as parent links: a channel names its team, a thread its channel.        *)
(***************************************************************************)
EXTENDS Integers, Sequences, FiniteSets

CONSTANTS
  Fds,         \* socket descriptors a client connection may get
  Names,       \* user names of up to 32 bytes: what CMD_LOGIN has before its first NUL
  FullNames,   \* those of exactly 32 bytes, which leave no NUL in user_t::name
  Tails,       \* what a payload that is too long has after them
  TeamNames,   \* team names
  Bodies,      \* bodies of private messages
  UserIds,     \* UUIDs of users
  TeamIds,     \* UUIDs of teams
  ChannelIds,  \* UUIDs of channels
  ThreadIds,   \* UUIDs of threads
  None,        \* "not there": no map entry, or a field too short to hold a UUID
  MaxMessages, \* bound: private messages kept by the server
  MaxReplies   \* bound: replies kept in one thread

\* The names of more than 32 bytes: a name of 32 and the rest.
LongNames == FullNames \X Tails

ASSUME NamesAreApart == FullNames \subseteq Names /\ Names \cap LongNames = {}

ASSUME NoneIsFresh ==
  None \notin Fds \cup Names \cup LongNames \cup TeamNames \cup Bodies \cup UserIds \cup TeamIds
                \cup ChannelIds \cup ThreadIds

ASSUME BoundsAreNat == MaxMessages \in Nat /\ MaxReplies \in Nat

VARIABLES
  users,           \* user_t of each user created so far
  sessions,        \* fd -> UUID of the user logged in on it
  client_contexts, \* fd -> what /use selected
  messages,        \* private messages, oldest first
  teams,           \* team -> its name
  member_uuids,    \* team -> user -> times the user is in the member vector
  channels,        \* channel -> the team it is in
  threads,         \* thread -> its channel and its creator
  replies,         \* thread -> creators of its replies, oldest first
  result           \* the Result of the last handler called

accountVars == <<users, sessions, messages>>
treeVars == <<teams, member_uuids, channels, threads, replies>>
dataVars == <<accountVars, client_contexts, treeVars>>
vars == <<dataVars, result>>

-----------------------------------------------------------------------------
(* Records *)

UseLevels == {"USE_NONE", "USE_TEAM", "USE_CHANNEL", "USE_THREAD"}
NoLevel == "NO_LEVEL"  \* no context, or a level byte that is none of these

\* first: no account before it in the vector has its name.
User == [name : Names \cup {None}, is_logged : BOOLEAN, fd : Fds \cup {None}, first : BOOLEAN]
Context == [level : UseLevels \cup {NoLevel}, team : TeamIds \cup {None},
            channel : ChannelIds \cup {None}, thread : ThreadIds \cup {None}]
Thread == [channel : ChannelIds \cup {None}, creator : UserIds \cup {None}]
Message == [sender : UserIds, receiver : UserIds, body : Bodies]

NoUser == [name |-> None, is_logged |-> FALSE, fd |-> None, first |-> FALSE]
NoThread == [channel |-> None, creator |-> None]

\* client_context_t{}: every field zeroed, then the ones /use fills in.
UseContext(level, t, c, th) ==
  [level |-> level, team |-> t, channel |-> c, thread |-> th]
\* Mutant: no context is stored for a descriptor that logs in.
RootContext_NotStored == UseContext(NoLevel, None, None, None)
RootContext == UseContext("USE_NONE", None, None, None)
NoContext == UseContext(NoLevel, None, None, None)

Packet(code, payload) == [code |-> code, payload |-> payload]
NoPacket == Packet("NO_PACKET", <<>>)

\* mtp::Result: the response to the caller and at most one event, pushed to fds.
Respond(fd, code, payload) ==
  result' = [to |-> fd, response |-> Packet(code, payload),
             push |-> NoPacket, fds |-> {}]
RespondAndPush(fd, code, payload, event, fds) ==
  result' = [to |-> fd, response |-> Packet(code, payload), push |-> event, fds |-> fds]

-----------------------------------------------------------------------------
(* Lookups.  Each is FALSE for None, as the code's are for a UUID that is  *)
(* not 36 bytes long.                                                      *)

is_logged_in(fd) == sessions[fd] # None

\* What is left of a name in user_t::name.
set_fixed_name(name) == IF name \in LongNames THEN name[1] ELSE name

\* The first account whose stored name is the name as it was sent.  Mutant: only the
\* users who are logged in are searched.
find_user_by_name_Logged(name) ==
  {u \in UserIds : users[u].name = name /\ users[u].first /\ users[u].is_logged}
find_user_by_name(name) == {u \in UserIds : users[u].name = name /\ users[u].first}
find_user_by_uuid(u) == u \in UserIds /\ users[u].name # None
find_team_by_uuid(t) == t \in TeamIds /\ teams[t] # None
\* Mutant: any well-formed UUID is taken for a channel of the team.
find_channel_by_uuid_Any(t, c) == c \in ChannelIds
find_channel_by_uuid(t, c) == c \in ChannelIds /\ channels[c] = t
find_thread_by_uuid(c, th) == th \in ThreadIds /\ threads[th].channel = c

is_user_online(u) == \E fd \in Fds : sessions[fd] = u
is_subscribed_to(t, u) == member_uuids[t][u] > 0

logged_fds == {fd \in Fds : is_logged_in(fd)}
\* Mutant: the descriptor kept in a member's account stands in for the sessions.
team_member_fds_Account(t) ==
  {users[sessions[fd]].fd : fd \in {g \in logged_fds : is_subscribed_to(t, sessions[g])}}
team_member_fds(t) == {fd \in logged_fds : is_subscribed_to(t, sessions[fd])}

-----------------------------------------------------------------------------
Init ==
  /\ users = [u \in UserIds |-> NoUser]
  /\ sessions = [fd \in Fds |-> None]
  /\ client_contexts = [fd \in Fds |-> NoContext]
  /\ messages = <<>>
  /\ teams = [t \in TeamIds |-> None]
  /\ member_uuids = [t \in TeamIds |-> [u \in UserIds |-> 0]]
  /\ channels = [c \in ChannelIds |-> None]
  /\ threads = [th \in ThreadIds |-> NoThread]
  /\ replies = [th \in ThreadIds |-> <<>>]
  /\ result = [to |-> None, response |-> NoPacket, push |-> NoPacket, fds |-> {}]

\* The handler changes nothing but what it answers.
Answer(fd, packet) ==
  /\ Respond(fd, packet.code, packet.payload)
  /\ UNCHANGED dataVars

\* The early returns of a handler, NoPacket being no error.
Refused(fd, error) == error # NoPacket /\ Answer(fd, error)
Unless(error, packet) == IF error # NoPacket THEN error ELSE packet

\* A command, other than a login, on a descriptor without a session.
Unauthorized(fd) == ~is_logged_in(fd) /\ Refused(fd, Packet("ERR_UNAUTHORIZED", <<>>))

\* A command code the protocol does not have, on a descriptor with one.
InvalidCommand(fd) == is_logged_in(fd) /\ Answer(fd, Packet("ERR_INVALID_COMMAND", <<>>))

=============================================================================
