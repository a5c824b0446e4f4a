------------------------------- MODULE System ---------------------------------
(***************************************************************************)
(* The server and its clients.  A client's requests wait in to_server      *)
(* until the server dispatches them, oldest first; the server's packets    *)
(* wait in send_buffer, which stands for the socket as well, until the     *)
(* client takes them.                                                      *)
(***************************************************************************)
EXTENDS Server, Client

VARIABLE
  last_use  \* fd -> what became of the last /use: "none", "accepted" or "refused"

systemVars == <<serverVars, clientVars, last_use>>

SystemInit ==
  /\ ServerInit
  /\ ClientInit
  /\ last_use = [fd \in Fds |-> "none"]

-----------------------------------------------------------------------------
(* Requests, as the server reads them *)

\* Bytes of a payload, and what handle_create wants at each level.
PayloadSize(layout) ==
  CASE layout = "name+description" -> 32 + 255
    [] layout = "title+body"       -> 32 + 512
    [] layout = "body"             -> 512

SizeWanted(level) ==
  CASE level \in {"USE_NONE", "USE_TEAM"} -> 32 + 255
    [] level = "USE_CHANNEL"              -> 32 + 512
    [] level = "USE_THREAD"               -> 512
    [] level = NoLevel                    -> 0

\* The name handle_create finds in front of a payload, None if it is too short.
NameFound(fd, layout, name) ==
  IF PayloadSize(layout) < SizeWanted(client_contexts[fd].level) THEN None ELSE name

\* The switch of _dispatch, on a request of fd.
Execute(fd, request) ==
  LET code == request.code
      arg == request.arg
  IN
  \/ code # "CMD_LOGIN" /\ Unauthorized(fd)
  \/ code = "CMD_LOGIN" /\ handle_login(fd, arg)
  \/ code = "CMD_LOGOUT" /\ handle_logout(fd)
  \/ code = "CMD_USERS" /\ handle_users(fd)
  \/ code = "CMD_USER" /\ handle_user(fd, arg)
  \/ code = "CMD_SEND" /\ handle_send(fd, arg[1], arg[2])
  \/ code = "CMD_MESSAGES" /\ handle_messages(fd, arg)
  \/ code = "CMD_SUBSCRIBE" /\ handle_subscribe(fd, arg)
  \/ code = "CMD_UNSUBSCRIBE" /\ handle_unsubscribe(fd, arg)
  \/ code = "CMD_SUBSCRIBED" /\ arg # None /\ handle_subscribed_users(fd, arg)
  \/ code = "CMD_SUBSCRIBED" /\ arg = None /\ handle_subscribed_teams(fd)
  \/ code = "CMD_USE" /\ handle_use(fd, arg)
  \/ code = "CMD_CREATE" /\ handle_create(fd, NameFound(fd, arg[1], arg[2]))
  \/ code = "CMD_LIST" /\ handle_list(fd)
  \/ code = "CMD_INFO" /\ handle_info(fd)

\* For the properties: login puts the server's context back, /use moves it.
NoteUse(fd, request) ==
  last_use' =
    CASE request.code = "CMD_LOGIN" -> [last_use EXCEPT ![fd] = "none"]
      [] request.code = "CMD_USE" ->
           [last_use EXCEPT ![fd] = IF client_contexts'[fd] = request.arg
                                    THEN "accepted" ELSE "refused"]
      [] OTHER -> last_use

-----------------------------------------------------------------------------
Arrive(fd) ==
  /\ _handle_new_connection(fd)
  /\ Connected(fd)
  /\ last_use' = [last_use EXCEPT ![fd] = "none"]

Type(fd) ==
  /\ TypeCommand(fd)
  /\ UNCHANGED <<serverVars, last_use>>

\* The oldest request of fd, as Server::_dispatch runs it.
Dispatch(fd) ==
  /\ fd \in clients
  /\ to_server[fd] # <<>>
  /\ \A other \in Fds : Len(send_buffer[other]) < MaxQueue
  /\ Execute(fd, Head(to_server[fd]))
  /\ _send_result(fd)
  /\ NoteUse(fd, Head(to_server[fd]))
  /\ to_server' = [to_server EXCEPT ![fd] = Tail(@)]
  /\ UNCHANGED <<clients, _running, my_context, my_user, shown, awaiting>>

\* The server writes the oldest packet and the client shows it.
Show(fd) ==
  /\ fd \in clients
  /\ send_buffer[fd] # <<>>
  /\ _handle_response(fd, Head(send_buffer[fd]))
  /\ send_buffer' = [send_buffer EXCEPT ![fd] = Tail(@)]
  /\ UNCHANGED <<vars, clients, last_use>>

Leave(fd) ==
  /\ fd \in clients
  /\ Exit(fd)
  /\ UNCHANGED <<serverVars, last_use>>

\* The server notices, before or after it has read the last requests.
Lose(fd) ==
  /\ ~_running[fd]
  /\ _handle_client_disconnect(fd)
  /\ UNCHANGED <<clientVars, last_use>>

SystemNext ==
  \E fd \in Fds :
    Arrive(fd) \/ Type(fd) \/ Dispatch(fd) \/ Show(fd) \/ Leave(fd) \/ Lose(fd)

SystemSpec == SystemInit /\ [][SystemNext]_systemVars

-----------------------------------------------------------------------------
(* Properties *)

\* The user a client believes it is once it has shown what is under way to it is
\* the user of the server's session, after logins under several names and between
\* events: that is the user it prints with RES_SUBSCRIBE_OK (Server_response.cpp:29).
ClientKnowsItself ==
  \A fd \in clients :
    LET coming == send_buffer[fd]
        NoLoginFrom(first) == \A i \in first .. Len(coming) : coming[i].code # "RES_LOGIN_OK"
    IN is_logged_in(fd) =>
         \/ my_user[fd] = sessions[fd] /\ NoLoginFrom(1)
         \/ \E last \in 1 .. Len(coming) :
              /\ coming[last].code = "RES_LOGIN_OK" /\ coming[last].payload[1] = sessions[fd]
              /\ NoLoginFrom(last + 1)

\* A client whose last /use was accepted, with no other under way, has the context
\* the server has stored for it, although it changed its copy when it sent the
\* command (_cmd_use) and others may have come and gone meanwhile.
ContextsAgree ==
  \A fd \in clients :
    /\ is_logged_in(fd)
    /\ last_use[fd] = "accepted"
    /\ \A i \in 1 .. Len(to_server[fd]) : to_server[fd][i].code # "CMD_USE"
    => my_context[fd] = client_contexts[fd]

\* What may answer a command (RFC section 4).
AnswersTo(code) ==
  {"ERR_UNAUTHORIZED"} \cup
  CASE code = "CMD_LOGIN"       -> {"RES_LOGIN_OK"}
    [] code = "CMD_LOGOUT"      -> {"RES_LOGOUT_OK"}
    [] code = "CMD_USERS"       -> {"RES_USERS_LIST"}
    [] code = "CMD_USER"        -> {"RES_USER_INFO", "ERR_UNKNOWN_USER"}
    [] code = "CMD_SEND"        -> {"RES_SEND_OK", "ERR_UNKNOWN_USER"}
    [] code = "CMD_MESSAGES"    -> {"RES_MESSAGES_LIST", "ERR_UNKNOWN_USER"}
    [] code = "CMD_SUBSCRIBE"   -> {"RES_SUBSCRIBE_OK", "ERR_UNKNOWN_TEAM"}
    [] code = "CMD_UNSUBSCRIBE" -> {"RES_UNSUBSCRIBE_OK", "ERR_UNKNOWN_TEAM", "ERR_NOT_SUBSCRIBED"}
    [] code = "CMD_SUBSCRIBED"  -> {"RES_SUBSCRIBED_TEAMS", "RES_SUBSCRIBED_USERS",
                                    "ERR_UNKNOWN_TEAM", "ERR_NOT_SUBSCRIBED"}
    [] code = "CMD_USE"         -> {"RES_USER_DETAILS", "RES_TEAM_INFO", "RES_CHANNEL_INFO",
                                    "RES_THREAD_INFO", "ERR_UNKNOWN_TEAM", "ERR_UNKNOWN_CHANNEL",
                                    "ERR_UNKNOWN_THREAD", "ERR_NOT_SUBSCRIBED"}
    [] code = "CMD_CREATE"      -> {"RES_TEAM_CREATED", "RES_CHANNEL_CREATED",
                                    "RES_THREAD_CREATED", "RES_REPLY_CREATED",
                                    "ERR_NOT_SUBSCRIBED", "ERR_INVALID_COMMAND"}
    [] code = "CMD_LIST"        -> {"RES_LIST_TEAMS", "RES_LIST_CHANNELS", "RES_LIST_THREADS",
                                    "RES_LIST_REPLIES"}
    [] code = "CMD_INFO"        -> {"RES_USER_DETAILS", "RES_TEAM_INFO", "RES_CHANNEL_INFO",
                                    "RES_THREAD_INFO"}

\* The number among the answers that come to a client of the one at position i.
AnswerNumber(coming, i) == Cardinality({j \in 1 .. i : IsAnswer(coming[j])})

\* Answers carry no number, and the client shows whatever comes next: they are the
\* answers of the commands it sent, one each and in order, with events in between.
AnswersInOrder ==
  \A fd \in clients :
    LET coming == send_buffer[fd] IN
    /\ Len(awaiting[fd]) = AnswerNumber(coming, Len(coming)) + Len(to_server[fd])
    /\ \A i \in 1 .. Len(coming) :
         IsAnswer(coming[i]) => coming[i].code \in AnswersTo(awaiting[fd][AnswerNumber(coming, i)])

-----------------------------------------------------------------------------
(* What the documents say of the program and it does not do *)

\* RFC section 8 gives the payload of CMD_CREATE for each context: a reply is made
\* of a body, a team of a name and a description.  After a /use that was refused, or
\* a second login, the payload is laid out for the client's context and read by
\* the server's: the body of a comment becomes a team.
CreatePayloadFits ==
  [][\A fd \in clients :
       /\ to_server[fd] # <<>> /\ to_server'[fd] = Tail(to_server[fd])
       /\ Head(to_server[fd]).code = "CMD_CREATE"
       /\ <<teams, channels, threads, replies>>' # <<teams, channels, threads, replies>>
       => Head(to_server[fd]).arg[1] = Layout(client_contexts[fd].level)]_systemVars

\* logging_client.h:81: client_event_thread_reply_received gets, as team_uuid, "The
\* id of the team this reply is in".  It gets the team the client has selected
\* (Server_response.cpp:131).
RepliesUnderTheirTeam ==
  \A fd \in clients :
    shown[fd].thread # None => shown[fd].team = channels[threads[shown[fd].thread].channel]
===============================================================================
