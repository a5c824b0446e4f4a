----------------------------- MODULE Workspace ------------------------------
(***************************************************************************)
(* Handlers of the commands about teams and what they contain:             *)
(* src/server/handlers/mtp_subscriptions.cpp, mtp_context.cpp,             *)
(* mtp_create.cpp, mtp_list.cpp and mtp_info.cpp.                          *)
(*                                                                         *)
(* /use stores in client_contexts[fd] the team, channel or thread that     *)
(* /create, /list and /info of the same descriptor act on later.           *)
(***************************************************************************)
EXTENDS ServerData

subscribed_teams(u) == {t \in TeamIds : find_team_by_uuid(t) /\ is_subscribed_to(t, u)}

-----------------------------------------------------------------------------
(* Subscriptions *)

\* How the handlers that take a team's UUID refuse it; NoPacket if they do not.
TeamError(t) ==
  IF t = None THEN Packet("ERR_INVALID_COMMAND", <<>>)
  ELSE IF ~find_team_by_uuid(t) THEN Packet("ERR_UNKNOWN_TEAM", <<t>>)
  ELSE NoPacket

\* As TeamError, for the handlers that also want u subscribed to the team.
\* Mutant: unsubscribing from a team one is not subscribed to is accepted.
MemberError_Team(t, u) == TeamError(t)
MemberError(t, u) ==
  IF TeamError(t) # NoPacket THEN TeamError(t)
  ELSE IF ~is_subscribed_to(t, u) THEN Packet("ERR_NOT_SUBSCRIBED", <<>>)
  ELSE NoPacket

\* push_back, unless the user is in the vector already.  Mutant: always.
AddMember_Always(t, u) == member_uuids' = [member_uuids EXCEPT ![t][u] = @ + 1]
AddMember(t, u) ==
  IF is_subscribed_to(t, u) THEN UNCHANGED member_uuids
  ELSE member_uuids' = [member_uuids EXCEPT ![t][u] = @ + 1]

Subscribe(fd, t) ==
  /\ TeamError(t) = NoPacket
  /\ AddMember(t, sessions[fd])
  /\ Respond(fd, "RES_SUBSCRIBE_OK", <<t>>)
  /\ UNCHANGED <<accountVars, client_contexts, teams, channels, threads, replies>>

handle_subscribe(fd, t) ==
  is_logged_in(fd) /\ (Refused(fd, TeamError(t)) \/ Subscribe(fd, t))

\* erase(find(...)): one occurrence goes.  The contexts stay as they are.
Unsubscribe(fd, t) ==
  /\ MemberError(t, sessions[fd]) = NoPacket
  /\ member_uuids' = [member_uuids EXCEPT ![t][sessions[fd]] = @ - 1]
  /\ Respond(fd, "RES_UNSUBSCRIBE_OK", <<t>>)
  /\ UNCHANGED <<accountVars, client_contexts, teams, channels, threads, replies>>

handle_unsubscribe(fd, t) ==
  is_logged_in(fd) /\ (Refused(fd, MemberError(t, sessions[fd])) \/ Unsubscribe(fd, t))

handle_subscribed_teams(fd) ==
  /\ is_logged_in(fd)
  /\ Answer(fd, Packet("RES_SUBSCRIBED_TEAMS", <<subscribed_teams(sessions[fd])>>))

handle_subscribed_users(fd, t) ==
  LET members == {u \in UserIds : find_user_by_uuid(u) /\ is_subscribed_to(t, u)} IN
  /\ is_logged_in(fd)
  /\ Answer(fd, Unless(MemberError(t, sessions[fd]),
       Packet("RES_SUBSCRIBED_USERS", <<{<<u, users[u].name, is_user_online(u)>> : u \in members}>>)))

-----------------------------------------------------------------------------
(* Contexts *)

\* The first lookup that fails on the way to what ctx selects, given the teams
\* the handler lets the caller into; NoPacket if none does.
TargetError(ctx, allowed) ==
  IF ctx.level = "USE_NONE" THEN NoPacket
  ELSE IF ~find_team_by_uuid(ctx.team) THEN Packet("ERR_UNKNOWN_TEAM", <<ctx.team>>)
  ELSE IF ctx.team \notin allowed THEN Packet("ERR_NOT_SUBSCRIBED", <<>>)
  ELSE IF ctx.level = "USE_TEAM" THEN NoPacket
  ELSE IF ~find_channel_by_uuid(ctx.team, ctx.channel)
       THEN Packet("ERR_UNKNOWN_CHANNEL", <<ctx.channel>>)
  ELSE IF ctx.level = "USE_CHANNEL" THEN NoPacket
  ELSE IF ~find_thread_by_uuid(ctx.channel, ctx.thread)
       THEN Packet("ERR_UNKNOWN_THREAD", <<ctx.thread>>)
  ELSE NoPacket

\* /create, /list and /info do not say which UUID was unknown.
Bare(error) == Packet(error.code, <<>>)

\* The details of what ctx selects, as /use and /info report them.
TargetInfo(ctx, u) ==
  CASE ctx.level = "USE_NONE"    -> Packet("RES_USER_DETAILS", <<u, users[u].name>>)
    [] ctx.level = "USE_TEAM"    -> Packet("RES_TEAM_INFO", <<ctx.team, teams[ctx.team]>>)
    [] ctx.level = "USE_CHANNEL" -> Packet("RES_CHANNEL_INFO", <<ctx.channel>>)
    [] ctx.level = "USE_THREAD"  -> Packet("RES_THREAD_INFO",
                                           <<ctx.thread, threads[ctx.thread].creator>>)

\* The payloads of CMD_USE.  NoLevel: no level byte, or one that is not a
\* UseLevel.  The last UUID a level needs is None: the payload is too short.
UseRequests ==
  {RootContext, NoContext}
  \cup {UseContext("USE_TEAM", t, None, None) : t \in TeamIds \cup {None}}
  \cup {UseContext("USE_CHANNEL", t, c, None) : t \in TeamIds, c \in ChannelIds \cup {None}}
  \cup {UseContext("USE_THREAD", t, c, th) :
          t \in TeamIds, c \in ChannelIds, th \in ThreadIds \cup {None}}

TooShort(ctx) ==
  \/ ctx.level = "USE_TEAM" /\ ctx.team = None
  \/ ctx.level = "USE_CHANNEL" /\ ctx.channel = None
  \/ ctx.level = "USE_THREAD" /\ ctx.thread = None

\* Mutant: only the team is looked up before the context is stored.
UseError_TeamOnly(fd, ctx) ==
  IF ctx.level = NoLevel \/ TooShort(ctx) THEN Packet("ERR_INVALID_COMMAND", <<>>)
  ELSE IF ctx.level = "USE_NONE" THEN NoPacket
  ELSE MemberError(ctx.team, sessions[fd])
UseError(fd, ctx) ==
  IF ctx.level = NoLevel \/ TooShort(ctx) THEN Packet("ERR_INVALID_COMMAND", <<>>)
  ELSE TargetError(ctx, subscribed_teams(sessions[fd]))

SelectContext(fd, ctx) ==
  LET info == TargetInfo(ctx, sessions[fd]) IN
  /\ UseError(fd, ctx) = NoPacket
  /\ client_contexts' = [client_contexts EXCEPT ![fd] = ctx]
  /\ Respond(fd, info.code, info.payload)
  /\ UNCHANGED <<accountVars, treeVars>>

handle_use(fd, ctx) ==
  is_logged_in(fd) /\ (Refused(fd, UseError(fd, ctx)) \/ SelectContext(fd, ctx))

-----------------------------------------------------------------------------
(* /create: what is created depends on the context stored for fd *)

CreateTeam(fd, name) ==
  \E t \in TeamIds :
    /\ client_contexts[fd].level = "USE_NONE"
    /\ ~find_team_by_uuid(t)
    /\ teams' = [teams EXCEPT ![t] = name]
    /\ member_uuids' = [member_uuids EXCEPT ![t][sessions[fd]] = @ + 1]
    /\ RespondAndPush(fd, "RES_TEAM_CREATED", <<t, name>>,
                      Packet("EVT_TEAM_CREATED", <<t, name>>), logged_fds)
    /\ UNCHANGED <<accountVars, client_contexts, channels, threads, replies>>

CreateChannel(fd) ==
  LET ctx == client_contexts[fd] IN
  \E c \in ChannelIds :
    /\ ctx.level = "USE_TEAM"
    /\ channels[c] = None
    /\ channels' = [channels EXCEPT ![c] = ctx.team]
    /\ RespondAndPush(fd, "RES_CHANNEL_CREATED", <<c>>,
                      Packet("EVT_CHANNEL_CREATED", <<c>>), team_member_fds(ctx.team))
    /\ UNCHANGED <<accountVars, client_contexts, teams, member_uuids, threads, replies>>

CreateThread(fd) ==
  LET ctx == client_contexts[fd] IN
  \E th \in ThreadIds :
    /\ ctx.level = "USE_CHANNEL"
    /\ threads[th] = NoThread
    /\ threads' = [threads EXCEPT ![th] = [channel |-> ctx.channel, creator |-> sessions[fd]]]
    /\ RespondAndPush(fd, "RES_THREAD_CREATED", <<th, sessions[fd]>>,
                      Packet("EVT_THREAD_CREATED", <<th, sessions[fd]>>),
                      team_member_fds(ctx.team))
    /\ UNCHANGED <<accountVars, client_contexts, teams, member_uuids, channels, replies>>

\* Mutant: the new reply takes the place of the earlier ones.
WithReply_Only(th, u) == [replies EXCEPT ![th] = <<u>>]
WithReply(th, u) == [replies EXCEPT ![th] = Append(@, u)]

CreateReply(fd) ==
  LET ctx == client_contexts[fd] IN
  /\ ctx.level = "USE_THREAD"
  /\ Len(replies[ctx.thread]) < MaxReplies
  /\ replies' = WithReply(ctx.thread, sessions[fd])
  /\ RespondAndPush(fd, "RES_REPLY_CREATED", <<ctx.thread, sessions[fd]>>,
                    Packet("EVT_REPLY_CREATED", <<ctx.thread, sessions[fd]>>),
                    team_member_fds(ctx.team))
  /\ UNCHANGED <<accountVars, client_contexts, teams, member_uuids, channels, threads>>

\* A name of None: the payload is shorter than what the level creates.
\* Mutant: the subscription is checked by /use alone.
CreateError_AnyTeam(fd, name) ==
  IF client_contexts[fd].level = NoLevel \/ name = None THEN Packet("ERR_INVALID_COMMAND", <<>>)
  ELSE Bare(TargetError(client_contexts[fd], TeamIds))
CreateError(fd, name) ==
  IF client_contexts[fd].level = NoLevel \/ name = None THEN Packet("ERR_INVALID_COMMAND", <<>>)
  ELSE Bare(TargetError(client_contexts[fd], subscribed_teams(sessions[fd])))

handle_create(fd, name) ==
  /\ is_logged_in(fd)
  /\ \/ Refused(fd, CreateError(fd, name))
     \/ /\ CreateError(fd, name) = NoPacket
        /\ CreateTeam(fd, name) \/ CreateChannel(fd) \/ CreateThread(fd) \/ CreateReply(fd)

-----------------------------------------------------------------------------
(* /list and /info look the context up again, without asking whether the   *)
(* caller is still subscribed.                                             *)

ReadError(fd) ==
  IF client_contexts[fd].level = NoLevel THEN Packet("ERR_INVALID_COMMAND", <<>>)
  ELSE Bare(TargetError(client_contexts[fd], TeamIds))

Listing(ctx) ==
  CASE ctx.level = "USE_NONE"    -> Packet("RES_LIST_TEAMS", <<{t \in TeamIds : find_team_by_uuid(t)}>>)
    [] ctx.level = "USE_TEAM"    -> Packet("RES_LIST_CHANNELS",
                                           <<{c \in ChannelIds : channels[c] = ctx.team}>>)
    [] ctx.level = "USE_CHANNEL" -> Packet("RES_LIST_THREADS",
                                           <<{th \in ThreadIds : threads[th].channel = ctx.channel}>>)
    [] ctx.level = "USE_THREAD"  -> Packet("RES_LIST_REPLIES", <<ctx.thread>> \o replies[ctx.thread])

handle_list(fd) ==
  /\ is_logged_in(fd)
  /\ Answer(fd, Unless(ReadError(fd), Listing(client_contexts[fd])))

handle_info(fd) ==
  /\ is_logged_in(fd)
  /\ Answer(fd, Unless(ReadError(fd), TargetInfo(client_contexts[fd], sessions[fd])))

-----------------------------------------------------------------------------
\* What a client connected as fd may make these handlers do.
WorkspaceCommand(fd) ==
  \/ \E t \in TeamIds \cup {None} :
       \/ handle_subscribe(fd, t)
       \/ handle_unsubscribe(fd, t)
       \/ handle_subscribed_users(fd, t)
  \/ handle_subscribed_teams(fd)
  \/ \E ctx \in UseRequests : handle_use(fd, ctx)
  \/ \E name \in TeamNames \cup {None} : handle_create(fd, name)
  \/ handle_list(fd)
  \/ handle_info(fd)

=============================================================================
