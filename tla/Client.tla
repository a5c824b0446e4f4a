------------------------------- MODULE Client ---------------------------------
(***************************************************************************)
(* myteams_cli (src/client): one client process per connection, named by   *)
(* the descriptor the server has for it.  A command its user types is sent *)
(* at once (Individual.cpp, Packet.cpp); answers and events are shown in   *)
(* the order they arrive (Network.cpp, Server_response.cpp).               *)
(*                                                                         *)
(* A client keeps two things between commands: the user it logged in as,   *)
(* from RES_LOGIN_OK, and its own copy of the context, which it changes    *)
(* when it sends CMD_USE, not when the server answers.                     *)
(***************************************************************************)
EXTENDS ServerData

CONSTANT
  MaxSent  \* bound: commands on their way from one client

ASSUME MaxSentIsNat == MaxSent \in Nat

VARIABLES
  _running,    \* fd -> the client's loop goes on
  my_context,  \* fd -> _use_level and _use_*_uuid
  my_user,     \* fd -> _user_uuid
  to_server,   \* fd -> requests sent and not dispatched yet
  shown,       \* fd -> the last reply event shown: its team and its thread
  awaiting     \* fd -> commands sent and not answered yet (for the properties)

clientVars == <<_running, my_context, my_user, to_server, shown, awaiting>>

NothingShown == [team |-> None, thread |-> None]

ClientInit ==
  /\ _running = [fd \in Fds |-> FALSE]
  /\ my_context = [fd \in Fds |-> RootContext]
  /\ my_user = [fd \in Fds |-> None]
  /\ to_server = [fd \in Fds |-> <<>>]
  /\ shown = [fd \in Fds |-> NothingShown]
  /\ awaiting = [fd \in Fds |-> <<>>]

\* A process starts and connects: Client::Client, run().
Connected(fd) ==
  /\ _running' = [_running EXCEPT ![fd] = TRUE]
  /\ my_context' = [my_context EXCEPT ![fd] = RootContext]
  /\ my_user' = [my_user EXCEPT ![fd] = None]
  /\ to_server' = [to_server EXCEPT ![fd] = <<>>]
  /\ shown' = [shown EXCEPT ![fd] = NothingShown]
  /\ awaiting' = [awaiting EXCEPT ![fd] = <<>>]

-----------------------------------------------------------------------------
(* Commands.  arg is what the server can tell apart of the payload.        *)

Request(code, arg) == [code |-> code, arg |-> arg]

_send_packet(fd, code, arg) ==
  /\ _running[fd]
  /\ Len(to_server[fd]) < MaxSent
  /\ to_server' = [to_server EXCEPT ![fd] = Append(@, Request(code, arg))]
  /\ awaiting' = [awaiting EXCEPT ![fd] = Append(@, code)]
  /\ UNCHANGED <<_running, my_user, shown>>

\* A command that leaves the client as it is.
Send(fd, code, arg) == _send_packet(fd, code, arg) /\ UNCHANGED my_context

_cmd_login(fd, name) == Send(fd, "CMD_LOGIN", name)
_cmd_logout(fd) == Send(fd, "CMD_LOGOUT", None)
_cmd_users(fd) == Send(fd, "CMD_USERS", None)
_cmd_user(fd, u) == Send(fd, "CMD_USER", u)
_cmd_send(fd, u, body) == Send(fd, "CMD_SEND", <<u, body>>)
_cmd_messages(fd, u) == Send(fd, "CMD_MESSAGES", u)
_cmd_subscribe(fd, t) == Send(fd, "CMD_SUBSCRIBE", t)
_cmd_subscribed(fd, t) == Send(fd, "CMD_SUBSCRIBED", t)  \* None: no argument
_cmd_unsubscribe(fd, t) == Send(fd, "CMD_UNSUBSCRIBE", t)
_cmd_list(fd) == Send(fd, "CMD_LIST", None)
_cmd_info(fd) == Send(fd, "CMD_INFO", None)

\* What /use with up to three arguments selects.
Selections ==
  {RootContext}
  \cup {UseContext("USE_TEAM", t, None, None) : t \in TeamIds}
  \cup {UseContext("USE_CHANNEL", t, c, None) : t \in TeamIds, c \in ChannelIds}
  \cup {UseContext("USE_THREAD", t, c, th) : t \in TeamIds, c \in ChannelIds, th \in ThreadIds}

\* The copy after /use.  Mutant: without arguments it stays.
CopyAfterUse_KeptOnReset(fd, ctx) == IF ctx.level = "USE_NONE" THEN my_context[fd] ELSE ctx
CopyAfterUse(fd, ctx) == ctx

_cmd_use(fd, ctx) ==
  /\ _send_packet(fd, "CMD_USE", ctx)
  /\ my_context' = [my_context EXCEPT ![fd] = CopyAfterUse(fd, ctx)]

\* The payload of /create is laid out for the level of the client's copy.
Layout(level) ==
  CASE level \in {"USE_NONE", "USE_TEAM"} -> "name+description"
    [] level = "USE_CHANNEL"              -> "title+body"
    [] level = "USE_THREAD"               -> "body"

_cmd_create(fd, name) == Send(fd, "CMD_CREATE", <<Layout(my_context[fd].level), name>>)

\* Client::_dispatch, on a line the user types.
TypeCommand(fd) ==
  \/ \E name \in Names : _cmd_login(fd, name)
  \/ _cmd_logout(fd)
  \/ _cmd_users(fd)
  \/ \E u \in UserIds :
       \/ _cmd_user(fd, u)
       \/ _cmd_messages(fd, u)
       \/ \E body \in Bodies : _cmd_send(fd, u, body)
  \/ \E t \in TeamIds : _cmd_subscribe(fd, t) \/ _cmd_unsubscribe(fd, t)
  \/ \E t \in TeamIds \cup {None} : _cmd_subscribed(fd, t)
  \/ \E ctx \in Selections : _cmd_use(fd, ctx)
  \/ \E name \in TeamNames : _cmd_create(fd, name)
  \/ _cmd_list(fd)
  \/ _cmd_info(fd)

-----------------------------------------------------------------------------
(* Answers and events *)

EventCodes == {"EVT_MESSAGE_RECEIVED", "EVT_TEAM_CREATED", "EVT_CHANNEL_CREATED",
               "EVT_THREAD_CREATED", "EVT_REPLY_CREATED",
               "EVT_USER_LOGGED_IN", "EVT_USER_LOGGED_OUT"}

IsAnswer(packet) == packet.code \notin EventCodes

\* Mutant: the first login stands.
UserAfterLogin_First(fd, u) == IF my_user[fd] = None THEN u ELSE my_user[fd]
UserAfterLogin(fd, u) == u

_handle_response(fd, packet) ==
  /\ my_user' = IF packet.code = "RES_LOGIN_OK"
                THEN [my_user EXCEPT ![fd] = UserAfterLogin(fd, packet.payload[1])]
                ELSE my_user
  /\ _running' = IF packet.code = "RES_LOGOUT_OK" THEN [_running EXCEPT ![fd] = FALSE]
                 ELSE _running
  /\ shown' = IF packet.code = "EVT_REPLY_CREATED"
              THEN [shown EXCEPT ![fd] =
                      [team |-> my_context[fd].team, thread |-> packet.payload[1]]]
              ELSE shown
  /\ awaiting' = IF IsAnswer(packet) THEN [awaiting EXCEPT ![fd] = Tail(@)] ELSE awaiting
  /\ UNCHANGED <<my_context, to_server>>

\* The user ends the input, or the loop has ended after a logout.
Exit(fd) ==
  /\ _running' = [_running EXCEPT ![fd] = FALSE]
  /\ UNCHANGED <<my_context, my_user, to_server, shown, awaiting>>

===============================================================================
