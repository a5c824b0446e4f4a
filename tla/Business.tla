------------------------------ MODULE Business ------------------------------
(***************************************************************************)
(* mtp::Business: the command handlers of the server, called one at a time *)
(* in any order on any descriptor, as the event loop may call them, and    *)
(* what they promise together.                                             *)
(***************************************************************************)
EXTENDS Accounts, Workspace

\* What _dispatch does with a command that came on fd.
Command(fd) ==
  Unauthorized(fd) \/ InvalidCommand(fd) \/ AccountCommand(fd) \/ WorkspaceCommand(fd)

Next == \E fd \in Fds : Command(fd)
Spec == Init /\ [][Next]_vars

\* The commands about accounts alone, which larger instances can afford.
AccountsNext == \E fd \in Fds : Unauthorized(fd) \/ AccountCommand(fd)
AccountsSpec == Init /\ [][AccountsNext]_vars

-----------------------------------------------------------------------------
(* Invariants *)

TypeOK ==
  /\ users \in [UserIds -> User]
  /\ sessions \in [Fds -> UserIds \cup {None}]
  /\ client_contexts \in [Fds -> Context]
  /\ messages \in Seq(Message)
  /\ teams \in [TeamIds -> TeamNames \cup {None}]
  /\ member_uuids \in [TeamIds -> [UserIds -> Nat]]
  /\ channels \in [ChannelIds -> TeamIds \cup {None}]
  /\ threads \in [ThreadIds -> Thread]
  /\ replies \in [ThreadIds -> Seq(UserIds)]
  /\ result.to \in Fds \cup {None}
  /\ result.fds \subseteq Fds

\* sessions and client_contexts have an entry for the same descriptors, and a
\* session is one of a user who exists (handle_login and handle_logout update
\* the two maps and the user one after the other).
SessionsAgree ==
  \A fd \in Fds :
    /\ is_logged_in(fd) <=> client_contexts[fd].level # NoLevel
    /\ is_logged_in(fd) => find_user_by_uuid(sessions[fd])

\* handle_login finds an account by its name before it creates one: logging in
\* again, from wherever and whether or not the user is online, is the same user.
\* Only a name that fills its field can be that of several accounts: a longer one,
\* cut to it when it is stored, is looked for uncut the next time.
UniqueNames ==
  \A u, v \in UserIds :
    find_user_by_uuid(u) /\ users[u].name = users[v].name => u = v \/ users[u].name \in FullNames

\* A user logged in on some descriptor is flagged is_logged, however many
\* descriptors the user was logged in on and logged out of.
OnlineIsFlagged == \A u \in UserIds : is_user_online(u) => users[u].is_logged

\* What the lookups find hangs together: a channel is in a team that exists, a
\* thread in a channel that exists, replies in a thread that exists, and only
\* teams that exist have members.
TreeIsRooted ==
  /\ \A t \in TeamIds, u \in UserIds : is_subscribed_to(t, u) => find_team_by_uuid(t)
  /\ \A c \in ChannelIds : channels[c] # None => find_team_by_uuid(channels[c])
  /\ \A th \in ThreadIds :
       /\ threads[th].channel # None => channels[threads[th].channel] # None
       /\ replies[th] # <<>> => threads[th].channel # None

\* Whatever /use stored stays resolvable, whoever else changes what: the
\* ERR_UNKNOWN_* answers of handle_create, handle_list and handle_info on a
\* stored context never occur.
ContextResolves ==
  \A fd \in logged_fds : TargetError(client_contexts[fd], TeamIds) = NoPacket

\* The member vector of a team holds a user once at most, so that the one
\* erase of handle_unsubscribe takes the user out.
MembersOnce == \A t \in TeamIds, u \in UserIds : member_uuids[t][u] \in {0, 1}

-----------------------------------------------------------------------------
(* What a step may never do.  caller: the user whose command the step ran. *)

caller == sessions[result'.to]
Answered(code) == result'.response.code = code
Pushed(code) == result'.push.code = code

\* RES_UNSUBSCRIBE_OK is final: the caller is out of that team when it is
\* sent, after however many subscriptions (mtp_subscriptions.cpp).
UnsubscribeEnds ==
  [][Answered("RES_UNSUBSCRIBE_OK") =>
       \A t \in TeamIds :
         result'.response.payload = <<t>> => member_uuids'[t][caller] = 0]_vars

\* The team a channel is in, and a thread.
ThreadTeam(th) == channels[threads[th].channel]

\* Channels, threads and replies appear in a team only by a command of a user
\* subscribed to it at that moment, whenever the user's context was selected
\* (RFC section 13, rule 2).
ContentBySubscribers ==
  [][/\ \A c \in ChannelIds :
          channels'[c] # channels[c] => is_subscribed_to(channels'[c], caller)
     /\ \A th \in ThreadIds :
          threads'[th] # threads[th] \/ replies'[th] # replies[th]
            => is_subscribed_to(ThreadTeam(th)', caller)]_vars

\* Nothing that was created is lost, moved or renamed by a later command, of
\* the same user or of another: accounts, messages, teams, channels, threads
\* and replies only ever grow.
NothingLost ==
  [][/\ \A u \in UserIds : find_user_by_uuid(u) => users'[u].name = users[u].name
     /\ \A t \in TeamIds : find_team_by_uuid(t) => teams'[t] = teams[t]
     /\ \A c \in ChannelIds : channels[c] # None => channels'[c] = channels[c]
     /\ \A th \in ThreadIds :
          /\ threads[th] # NoThread => threads'[th] = threads[th]
          /\ replies[th] = SubSeq(replies'[th], 1, Len(replies[th]))
     /\ messages = SubSeq(messages', 1, Len(messages))]_vars

\* Presence events are true and complete where they are sent: LOGGED_IN is
\* pushed exactly by the step that brings its user online, to every session
\* there then is; LOGGED_OUT only by one that takes its user offline.
PresenceEvents ==
  [][\A u \in UserIds :
       LET about == result'.push.payload # <<>> /\ result'.push.payload[1] = u IN
       /\ ~is_user_online(u) /\ is_user_online(u)'
            <=> Pushed("EVT_USER_LOGGED_IN") /\ about
       /\ Pushed("EVT_USER_LOGGED_IN") => result'.fds = logged_fds'
       /\ Pushed("EVT_USER_LOGGED_OUT") /\ about
            => /\ is_user_online(u) /\ ~is_user_online(u)'
               /\ result'.fds = logged_fds' \cup {result'.to}]_vars

\* A private message is pushed to the sessions of its receiver and to no other
\* descriptor (RFC section 13, rule 4).
PrivateToReceiver ==
  [][Pushed("EVT_MESSAGE_RECEIVED") =>
       \A fd \in result'.fds : sessions[fd] = messages'[Len(messages')].receiver]_vars

-----------------------------------------------------------------------------
(* What the documents say of the program and the handlers do not do *)

\* data.hpp:104: user_t::is_logged is "Whether the user is currently
\* authenticated."  A login over another user's session leaves that user's flag
\* set (mtp_auth.cpp:46-48).
FlaggedIsOnline == \A u \in UserIds : users[u].is_logged => is_user_online(u)

\* data.hpp:106: user_t::fd is the "Active socket file descriptor, or stale
\* value if offline."  When one of a user's sessions ends, by a logout or by
\* another login over it, the field may stay on that descriptor while the user is
\* online on another one (mtp_auth.cpp:47 and 109-120).
AccountFdIsActive ==
  \A u \in UserIds : is_user_online(u) => users[u].fd # None /\ sessions[users[u].fd] = u

\* logging_client.h:56: EVT_USER_LOGGED_OUT "Must be called when a user logged
\* out (/logout or lost connexion)"; RFC section 11: to all logged-in clients.
\* A login over a session takes its user offline without a word.
DeparturesAnnounced ==
  [][\A u \in UserIds :
       is_user_online(u) /\ ~is_user_online(u)' => Pushed("EVT_USER_LOGGED_OUT")]_vars

\* logging_client.h:318-320: client_error_already_exist is for an attempt to
\* "create a team with a name that already exist"; RFC section 4.2 gives
\* ERR_ALREADY_EXISTS for it.  handle_create never looks.
TeamNamesUnique ==
  \A s, t \in TeamIds : find_team_by_uuid(s) /\ teams[s] = teams[t] => s = t

\* logging_client.h:40-41: "To get team information or team modifications (list
\* threads, create reply...) you MUST be subscribed to the team."  handle_list
\* and handle_info do not ask again what /use asked before an /unsubscribe.
ReadsBySubscribers ==
  [][LET ctx == client_contexts[result'.to] IN
     (\/ Answered("RES_LIST_CHANNELS")
      \/ Answered("RES_LIST_THREADS")
      \/ Answered("RES_LIST_REPLIES")) => is_subscribed_to(ctx.team, caller)]_vars

=============================================================================
