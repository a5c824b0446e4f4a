---------------------------- MODULE System_proofs -----------------------------
(***************************************************************************)
(* The server together with its clients: it still does only what Server    *)
(* allows, and so all that is proved of Business, Forum and Server holds   *)
(* with requests that were typed earlier, by people who have seen less.    *)
(* What a client keeps of the context and of its user is the server's, and *)
(* what it shows next answers the oldest command it has no answer to.      *)
(***************************************************************************)
EXTENDS System, Server_proofs, FiniteSetTheorems

\* What a client sends.
Requests ==
  {Request("CMD_LOGIN", name) : name \in Names}
  \cup {Request("CMD_USER", u) : u \in UserIds}
  \cup {Request("CMD_MESSAGES", u) : u \in UserIds}
  \cup {Request("CMD_SEND", <<u, body>>) : u \in UserIds, body \in Bodies}
  \cup {Request("CMD_SUBSCRIBE", t) : t \in TeamIds}
  \cup {Request("CMD_UNSUBSCRIBE", t) : t \in TeamIds}
  \cup {Request("CMD_SUBSCRIBED", t) : t \in TeamIds \cup {None}}
  \cup {Request("CMD_USE", ctx) : ctx \in Selections}
  \cup {Request("CMD_CREATE", <<layout, name>>) :
          layout \in {"name+description", "title+body", "body"}, name \in TeamNames}
  \cup {Request(code, None) : code \in {"CMD_LOGOUT", "CMD_USERS", "CMD_LIST", "CMD_INFO"}}

ClientTypes ==
  /\ my_context \in [Fds -> Selections]
  /\ to_server \in [Fds -> Seq(Requests)]

LEMMA LayoutsKnown ==
  ASSUME NEW ctx \in Selections
  PROVE  Layout(ctx.level) \in {"name+description", "title+body", "body"}
BY DEF Selections, UseContext, RootContext, Layout

LEMMA SelectionsAreRequests == Selections \subseteq UseRequests
BY DEF Selections, UseRequests

\* What a line typed changes: one request follows the others, an answer to it is
\* awaited, and only /use moves the client's copy of the context.
LEMMA TypedRequest ==
  ASSUME ClientTypes, NEW fd \in Fds, TypeCommand(fd)
  PROVE  \E r \in Requests :
           /\ to_server' = [to_server EXCEPT ![fd] = Append(@, r)]
           /\ awaiting' = [awaiting EXCEPT ![fd] = Append(@, r.code)]
           /\ IF r.code = "CMD_USE" THEN my_context' = [my_context EXCEPT ![fd] = r.arg]
              ELSE my_context' = my_context
<1> DEFINE Goal == \E r \in Requests :
             /\ to_server' = [to_server EXCEPT ![fd] = Append(@, r)]
             /\ awaiting' = [awaiting EXCEPT ![fd] = Append(@, r.code)]
             /\ IF r.code = "CMD_USE" THEN my_context' = [my_context EXCEPT ![fd] = r.arg]
                ELSE my_context' = my_context
<1> SUFFICES Goal
  OBVIOUS
<1>1. ASSUME NEW code, NEW arg, Send(fd, code, arg), Request(code, arg) \in Requests,
             code # "CMD_USE"
      PROVE  Goal
  <2>1. /\ to_server' = [to_server EXCEPT ![fd] = Append(@, Request(code, arg))]
        /\ awaiting' = [awaiting EXCEPT ![fd] = Append(@, code)]
        /\ my_context' = my_context /\ Request(code, arg).code = code
    BY <1>1 DEF Send, _send_packet, Request
  <2> QED BY <1>1, <2>1
<1> HIDE DEF Goal
<1>2. ASSUME NEW ctx \in Selections, _cmd_use(fd, ctx)
      PROVE  Goal
  <2>1. Request("CMD_USE", ctx) \in Requests
    BY DEF Requests
  <2> QED BY <1>2, <2>1 DEF Goal, _cmd_use, _send_packet, CopyAfterUse, Request
<1>3. ASSUME NEW name \in TeamNames, _cmd_create(fd, name)
      PROVE  Goal
  <2>1. Layout(my_context[fd].level) \in {"name+description", "title+body", "body"}
    BY LayoutsKnown DEF ClientTypes
  <2>2. Request("CMD_CREATE", <<Layout(my_context[fd].level), name>>) \in Requests
    BY <2>1 DEF Requests
  <2> QED BY <1>1, <1>3, <2>2 DEF _cmd_create
<1>4. ASSUME NEW name \in Names, _cmd_login(fd, name)
      PROVE  Goal
  BY <1>1, <1>4 DEF _cmd_login, Requests
<1>5. ASSUME NEW u \in UserIds, _cmd_user(fd, u) \/ _cmd_messages(fd, u)
      PROVE  Goal
  <2>1. Request("CMD_USER", u) \in Requests /\ Request("CMD_MESSAGES", u) \in Requests
    BY DEF Requests
  <2> QED BY <1>1, <1>5, <2>1 DEF _cmd_user, _cmd_messages
<1>6. ASSUME NEW u \in UserIds, NEW body \in Bodies, _cmd_send(fd, u, body)
      PROVE  Goal
  <2>1. Request("CMD_SEND", <<u, body>>) \in Requests
    BY DEF Requests
  <2> QED BY <1>1, <1>6, <2>1 DEF _cmd_send
<1>7. ASSUME NEW t \in TeamIds, _cmd_subscribe(fd, t) \/ _cmd_unsubscribe(fd, t)
      PROVE  Goal
  <2>1. Request("CMD_SUBSCRIBE", t) \in Requests /\ Request("CMD_UNSUBSCRIBE", t) \in Requests
    BY DEF Requests
  <2> QED BY <1>1, <1>7, <2>1 DEF _cmd_subscribe, _cmd_unsubscribe
<1>8. ASSUME NEW t \in TeamIds \cup {None}, _cmd_subscribed(fd, t)
      PROVE  Goal
  BY <1>1, <1>8 DEF _cmd_subscribed, Requests
<1>9. CASE _cmd_logout(fd) \/ _cmd_users(fd) \/ _cmd_list(fd) \/ _cmd_info(fd)
  BY <1>1, <1>9 DEF _cmd_logout, _cmd_users, _cmd_list, _cmd_info, Requests
<1> QED BY <1>2, <1>3, <1>4, <1>5, <1>6, <1>7, <1>8, <1>9 DEF TypeCommand

\* No command changes the user the client takes itself for.
LEMMA TypedUserKept ==
  ASSUME NEW fd \in Fds, TypeCommand(fd)
  PROVE  my_user' = my_user
<1>1. ASSUME NEW code, NEW arg, Send(fd, code, arg) PROVE my_user' = my_user
  BY <1>1 DEF Send, _send_packet
<1>2. ASSUME NEW ctx, _cmd_use(fd, ctx) PROVE my_user' = my_user
  BY <1>2 DEF _cmd_use, _send_packet
<1> QED BY <1>1, <1>2 DEF TypeCommand, _cmd_login, _cmd_logout, _cmd_users, _cmd_user, _cmd_send,
           _cmd_messages, _cmd_subscribe, _cmd_subscribed, _cmd_unsubscribe, _cmd_create,
           _cmd_list, _cmd_info

-----------------------------------------------------------------------------
(* The system is a server *)

\* What a request asks for is a command Business allows, whatever was true when it
\* was typed (Server::_dispatch).
LEMMA ExecuteIsCommand ==
  ASSUME NEW fd \in Fds, NEW r \in Requests, Execute(fd, r)
  PROVE  Command(fd)
<1> DEFINE code == r.code
           arg == r.arg
<1>1. CASE code # "CMD_LOGIN" /\ Unauthorized(fd)
  BY <1>1 DEF Command
<1>2. CASE code = "CMD_LOGIN" /\ handle_login(fd, arg)
  <2>1. arg \in Names
    BY <1>2 DEF Requests, Request
  <2> QED BY <1>2, <2>1 DEF Command, AccountCommand
<1>3. CASE handle_logout(fd) \/ handle_users(fd)
  BY <1>3 DEF Command, AccountCommand
<1>4. CASE \/ code = "CMD_USER" /\ handle_user(fd, arg)
           \/ code = "CMD_MESSAGES" /\ handle_messages(fd, arg)
  <2>1. arg \in UserIds
    BY <1>4 DEF Requests, Request
  <2> QED BY <1>4, <2>1 DEF Command, AccountCommand
<1>5. CASE code = "CMD_SEND" /\ handle_send(fd, arg[1], arg[2])
  <2>1. arg[1] \in UserIds /\ arg[2] \in Bodies
    BY <1>5 DEF Requests, Request
  <2> QED BY <1>5, <2>1 DEF Command, AccountCommand
<1>6. CASE \/ code = "CMD_SUBSCRIBE" /\ handle_subscribe(fd, arg)
           \/ code = "CMD_UNSUBSCRIBE" /\ handle_unsubscribe(fd, arg)
           \/ code = "CMD_SUBSCRIBED" /\ handle_subscribed_users(fd, arg)
  <2>1. arg \in TeamIds \cup {None}
    BY <1>6 DEF Requests, Request
  <2> QED BY <1>6, <2>1 DEF Command, WorkspaceCommand
<1>7. CASE code = "CMD_USE" /\ handle_use(fd, arg)
  <2>1. arg \in UseRequests
    BY <1>7, SelectionsAreRequests DEF Requests, Request
  <2> QED BY <1>7, <2>1 DEF Command, WorkspaceCommand
<1>8. CASE code = "CMD_CREATE" /\ handle_create(fd, NameFound(fd, arg[1], arg[2]))
  <2>1. arg[2] \in TeamNames
    BY <1>8 DEF Requests, Request
  <2>2. NameFound(fd, arg[1], arg[2]) \in TeamNames \cup {None}
    BY <2>1 DEF NameFound
  <2> QED BY <1>8, <2>2 DEF Command, WorkspaceCommand
<1>9. CASE handle_subscribed_teams(fd) \/ handle_list(fd) \/ handle_info(fd)
  BY <1>9 DEF Command, WorkspaceCommand
<1> HIDE DEF code, arg
<1> QED BY <1>1, <1>2, <1>3, <1>4, <1>5, <1>6, <1>7, <1>8, <1>9 DEF Execute, code, arg

LEMMA ClientTypesInit == SystemInit => ClientTypes
BY DEF SystemInit, ClientInit, ClientTypes, Selections

LEMMA ClientTypesStep == ClientTypes /\ [SystemNext]_systemVars => ClientTypes'
<1> SUFFICES ASSUME ClientTypes, [SystemNext]_systemVars PROVE ClientTypes'
  OBVIOUS
<1> USE DEF ClientTypes
<1>1. ASSUME NEW fd \in Fds, Arrive(fd)
      PROVE  ClientTypes'
  <2>1. RootContext \in Selections /\ <<>> \in Seq(Requests)
    BY DEF Selections
  <2> QED BY <1>1, <2>1 DEF Arrive, Connected
<1>2. ASSUME NEW fd \in Fds, Type(fd)
      PROVE  ClientTypes'
  <2>1. PICK r \in Requests :
          /\ to_server' = [to_server EXCEPT ![fd] = Append(@, r)]
          /\ IF r.code = "CMD_USE" THEN my_context' = [my_context EXCEPT ![fd] = r.arg]
             ELSE my_context' = my_context
    BY <1>2, TypedRequest DEF Type
  <2>2. r.code = "CMD_USE" => r.arg \in Selections
    BY DEF Requests, Request
  <2> QED BY <2>1, <2>2
<1>3. ASSUME NEW fd \in Fds, Dispatch(fd)
      PROVE  ClientTypes'
  BY <1>3 DEF Dispatch
<1>4. ASSUME NEW fd \in Fds, Show(fd) \/ Leave(fd) \/ Lose(fd)
      PROVE  ClientTypes'
  BY <1>4 DEF Show, _handle_response, Leave, Exit, Lose, clientVars
<1>5. CASE UNCHANGED systemVars
  BY <1>5 DEF systemVars, clientVars
<1> QED BY <1>1, <1>2, <1>3, <1>4, <1>5 DEF SystemNext

\* A step of the system is one of the server, or none of its business.
LEMMA SystemStep ==
  ClientTypes /\ Buffers(send_buffer) /\ [SystemNext]_systemVars => [ServerNext]_serverVars
<1> SUFFICES ASSUME ClientTypes, Buffers(send_buffer), [SystemNext]_systemVars
             PROVE  [ServerNext]_serverVars
  OBVIOUS
<1>1. ASSUME NEW fd \in Fds, Arrive(fd) \/ Lose(fd)
      PROVE  ServerNext
  BY <1>1 DEF Arrive, Lose, ServerNext
<1>2. ASSUME NEW fd \in Fds, Dispatch(fd)
      PROVE  ServerNext
  <2>1. Head(to_server[fd]) \in Requests
    BY <1>2 DEF Dispatch, ClientTypes
  <2>2. _dispatch(fd)
    BY <1>2, <2>1, ExecuteIsCommand DEF Dispatch, _dispatch
  <2> QED BY <2>2 DEF ServerNext
<1>3. ASSUME NEW fd \in Fds, Show(fd)
      PROVE  ServerNext
  <2> DEFINE s == send_buffer[fd]
  <2>1. PICK S : s \in Seq(S)
    BY DEF Buffers, IsSequence
  <2>2. s # <<>>
    BY <1>3 DEF Show
  <2>3. Tail(s) = SubSeq(s, 1 + 1, Len(s)) /\ 1 \in 1 .. Len(s)
    BY <2>1, <2>2
  <2>4. send_buffer' = [send_buffer EXCEPT ![fd] = SubSeq(@, 1 + 1, Len(@))]
    BY <1>3, <2>3 DEF Show
  <2>5. _handle_client_write(fd)
    BY <1>3, <2>3, <2>4 DEF Show, _handle_client_write
  <2> QED BY <2>5 DEF ServerNext
<1>4. ASSUME NEW fd \in Fds, Type(fd) \/ Leave(fd)
      PROVE  UNCHANGED serverVars
  BY <1>4 DEF Type, Leave
<1>5. CASE UNCHANGED systemVars
  BY <1>5 DEF systemVars
<1> QED BY <1>1, <1>2, <1>3, <1>4, <1>5 DEF SystemNext

\* Requests that wait, answers that wait and clients that leave only choose what the
\* server does next (Server::_dispatch, Client::run): every behaviour of the system
\* is one of the server, with all that is proved of those.
THEOREM SystemImplementsServer == SystemSpec => ServerSpec
<1> DEFINE Buffered == Buffers(send_buffer)
<1>1. SystemInit => ServerInit /\ ClientTypes /\ Buffered
  BY ClientTypesInit, BuffersInit DEF SystemInit
<1>2. ClientTypes /\ [SystemNext]_systemVars => ClientTypes'
  BY ClientTypesStep
<1>3. ClientTypes /\ Buffered /\ [SystemNext]_systemVars => [ServerNext]_serverVars
  BY SystemStep
<1>4. Buffered /\ [ServerNext]_serverVars => Buffered'
  BY BuffersStep
<1> HIDE DEF Buffered
<1> QED BY <1>1, <1>2, <1>3, <1>4, PTL DEF SystemSpec, ServerSpec

-----------------------------------------------------------------------------
(* ContextsAgree *)

NoUse(s) == \A i \in 1 .. Len(s) : s[i].code # "CMD_USE"

\* The last /use among the requests s selects ctx, if there is one.
LastSelects(s, ctx) ==
  \A i \in 1 .. Len(s) :
    s[i].code = "CMD_USE" /\ (\A j \in i + 1 .. Len(s) : s[j].code # "CMD_USE") => s[i].arg = ctx

LEMMA UseTyped ==
  ASSUME NEW s \in Seq(Requests), NEW r \in Requests, NEW ctx, LastSelects(s, ctx)
  PROVE  /\ LastSelects(Append(s, r), IF r.code = "CMD_USE" THEN r.arg ELSE ctx)
         /\ NoUse(Append(s, r)) <=> NoUse(s) /\ r.code # "CMD_USE"
<1> DEFINE t == Append(s, r)
<1>1. /\ Len(s) \in Nat /\ Len(t) = Len(s) + 1 /\ t[Len(s) + 1] = r
      /\ \A i \in 1 .. Len(s) : t[i] = s[i]
  BY AppendProperties
<1> HIDE DEF t
<1>2. NoUse(t) <=> NoUse(s) /\ r.code # "CMD_USE"
  BY <1>1 DEF NoUse
<1>3. LastSelects(t, IF r.code = "CMD_USE" THEN r.arg ELSE ctx)
  BY <1>1 DEF LastSelects
<1> QED BY <1>2, <1>3 DEF t

LEMMA UseDispatched ==
  ASSUME NEW s \in Seq(Requests), s # <<>>, NEW ctx, LastSelects(s, ctx)
  PROVE  /\ LastSelects(Tail(s), ctx)
         /\ NoUse(Tail(s)) =>
              IF Head(s).code = "CMD_USE" THEN Head(s).arg = ctx ELSE NoUse(s)
<1> DEFINE t == Tail(s)
<1>1. /\ Len(t) \in Nat /\ Len(s) = Len(t) + 1 /\ s[1] = Head(s)
      /\ \A i \in 1 .. Len(t) : t[i] = s[i + 1]
  BY HeadTailProperties
<1>2. \A i \in 2 .. Len(s) : i - 1 \in 1 .. Len(t) /\ s[i] = t[i - 1]
  BY <1>1
<1> HIDE DEF t
<1>3. LastSelects(t, ctx)
  <2> SUFFICES ASSUME NEW i \in 1 .. Len(t), t[i].code = "CMD_USE",
                      \A j \in i + 1 .. Len(t) : t[j].code # "CMD_USE"
               PROVE  t[i].arg = ctx
    BY DEF LastSelects
  <2>1. \A j \in (i + 1) + 1 .. Len(s) : s[j].code # "CMD_USE"
    BY <1>1, <1>2
  <2> QED BY <1>1, <2>1 DEF LastSelects
<1>4. ASSUME NoUse(t), Head(s).code = "CMD_USE"
      PROVE  Head(s).arg = ctx
  <2>1. \A j \in 1 + 1 .. Len(s) : s[j].code # "CMD_USE"
    BY <1>1, <1>2, <1>4 DEF NoUse
  <2> QED BY <1>1, <1>4, <2>1 DEF LastSelects
<1>5. ASSUME NoUse(t), Head(s).code # "CMD_USE"
      PROVE  NoUse(s)
  <2>1. \A i \in 2 .. Len(s) : s[i].code # "CMD_USE"
    BY <1>2, <1>5 DEF NoUse
  <2>2. \A i \in 1 .. Len(s) : i = 1 \/ i \in 2 .. Len(s)
    BY <1>1
  <2> QED BY <1>1, <1>5, <2>1, <2>2 DEF NoUse
<1> QED BY <1>3, <1>4, <1>5 DEF t

\* No request but a login or a /use moves the context of a session.
LEMMA ContextKept ==
  ASSUME NEW fd \in Fds, NEW r \in Requests, Execute(fd, r), r.code \notin {"CMD_LOGIN", "CMD_USE"}
  PROVE  \/ sessions' = sessions /\ client_contexts' = client_contexts
         \/ r.code = "CMD_LOGOUT" /\ handle_logout(fd)
<1> DEFINE Kept == sessions' = sessions /\ client_contexts' = client_contexts
           code == r.code
           arg == r.arg
<1> USE DEF accountVars, dataVars
<1>1. \A packet : Answer(fd, packet) => Kept
  BY DEF Answer
<1>2. \A error : Refused(fd, error) => Kept
  BY <1>1 DEF Refused
<1>3. Unauthorized(fd) => Kept
  BY <1>2 DEF Unauthorized
<1>4. \/ handle_users(fd) \/ handle_user(fd, arg) \/ handle_messages(fd, arg)
      \/ handle_subscribed_users(fd, arg) \/ handle_subscribed_teams(fd)
      \/ handle_list(fd) \/ handle_info(fd)
      => Kept
  BY <1>1 DEF handle_users, handle_user, handle_messages, handle_subscribed_users,
     handle_subscribed_teams, handle_list, handle_info
<1>5. handle_send(fd, arg[1], arg[2]) => Kept
  BY <1>2 DEF handle_send, StoreMessage
<1>6. handle_subscribe(fd, arg) \/ handle_unsubscribe(fd, arg) => Kept
  BY <1>2 DEF handle_subscribe, Subscribe, handle_unsubscribe, Unsubscribe
<1>7. \A name : handle_create(fd, name) => Kept
  BY <1>2 DEF handle_create, CreateTeam, CreateChannel, CreateThread, CreateReply
<1>8. code \notin {"CMD_LOGIN", "CMD_USE"}
  OBVIOUS
<1> HIDE DEF Kept, code, arg
<1>9. Kept \/ (code = "CMD_LOGOUT" /\ handle_logout(fd))
  BY <1>3, <1>4, <1>5, <1>6, <1>7, <1>8 DEF Execute, code, arg
<1> QED BY <1>9 DEF Kept, code

\* ContextsAgree, with what the requests under way will select: the last /use that
\* waits asks for the context the client has already moved to.
AgreesOn(fd) ==
  /\ LastSelects(to_server[fd], my_context[fd])
  /\ is_logged_in(fd) /\ last_use[fd] = "accepted" /\ NoUse(to_server[fd])
     => my_context[fd] = client_contexts[fd]

ContextInv ==
  /\ last_use \in [Fds -> {"none", "accepted", "refused"}]
  /\ \A fd \in Fds : AgreesOn(fd)

LEMMA ContextInit == SystemInit => ContextInv
BY DEF SystemInit, ClientInit, ContextInv, AgreesOn, LastSelects

LEMMA ContextDispatched ==
  ASSUME TypeOK, ClientTypes, ContextInv, NEW fd \in Fds, Dispatch(fd), NEW g \in Fds
  PROVE  AgreesOn(g)'
<1> DEFINE s == to_server[fd]
           r == Head(s)
<1>1. /\ s \in Seq(Requests) /\ s # <<>> /\ r \in Requests
      /\ to_server' = [to_server EXCEPT ![fd] = Tail(s)]
      /\ to_server \in [Fds -> Seq(Requests)]
      /\ my_context' = my_context
      /\ Execute(fd, r)
      /\ NoteUse(fd, r)
  BY DEF Dispatch, ClientTypes
<1>2. AgreesOn(fd) /\ AgreesOn(g)
  BY DEF ContextInv
<1>3. CASE g # fd
  <2>1. sessions'[g] = sessions[g] /\ client_contexts'[g] = client_contexts[g]
    BY <1>1, <1>3, ExecuteIsCommand, CommandIsLocal
  <2>2. to_server'[g] = to_server[g] /\ last_use'[g] = last_use[g]
    BY <1>1, <1>3 DEF NoteUse, ContextInv
  <2> QED BY <1>1, <1>2, <2>1, <2>2 DEF AgreesOn, is_logged_in
<1>4. CASE g = fd
  <2>1. to_server'[fd] = Tail(s)
    BY <1>1
  <2>2. /\ LastSelects(Tail(s), my_context[fd])
        /\ NoUse(Tail(s)) => IF r.code = "CMD_USE" THEN r.arg = my_context[fd] ELSE NoUse(s)
    BY <1>1, <1>2, UseDispatched DEF AgreesOn
  <2> DEFINE Agreed == is_logged_in(fd)' /\ last_use'[fd] = "accepted" /\ NoUse(Tail(s))
                       => my_context[fd] = client_contexts'[fd]
  <2>3. ASSUME r.code = "CMD_LOGIN"
      PROVE  Agreed
    <3>1. last_use'[fd] = "none"
      BY <1>1, <2>3 DEF NoteUse, ContextInv
    <3> QED BY <3>1
  <2>4. ASSUME r.code = "CMD_USE"
      PROVE  Agreed
    <3>1. last_use'[fd] = IF client_contexts'[fd] = r.arg THEN "accepted" ELSE "refused"
      BY <1>1, <2>4 DEF NoteUse, ContextInv
    <3> QED BY <2>2, <2>4, <3>1
  <2>5. ASSUME r.code \notin {"CMD_LOGIN", "CMD_USE"}
      PROVE  Agreed
    <3>1. last_use' = last_use
      BY <1>1, <2>5 DEF NoteUse
    <3>2. CASE sessions' = sessions /\ client_contexts' = client_contexts
      BY <1>2, <2>2, <2>5, <3>1, <3>2 DEF AgreesOn, is_logged_in
    <3>3. CASE handle_logout(fd)
      BY <3>3 DEF handle_logout, is_logged_in, TypeOK
    <3> QED BY <1>1, <2>5, <3>2, <3>3, ContextKept
  <2>6. Agreed
    BY <2>3, <2>4, <2>5
  <2> QED BY <1>1, <1>4, <2>1, <2>2, <2>6 DEF AgreesOn
<1> QED BY <1>3, <1>4

LEMMA ContextStep == TypeOK /\ ClientTypes /\ ContextInv /\ [SystemNext]_systemVars => ContextInv'
<1> SUFFICES ASSUME TypeOK, ClientTypes, ContextInv, [SystemNext]_systemVars
             PROVE  ContextInv'
  OBVIOUS
<1>1. ASSUME NEW fd \in Fds, Arrive(fd)
      PROVE  ContextInv'
  <2>1. /\ to_server' = [to_server EXCEPT ![fd] = <<>>]
        /\ my_context' = [my_context EXCEPT ![fd] = RootContext]
        /\ last_use' = [last_use EXCEPT ![fd] = "none"]
        /\ UNCHANGED <<sessions, client_contexts>>
    BY <1>1 DEF Arrive, Connected, _handle_new_connection, vars, accountVars, dataVars
  <2>2. last_use' \in [Fds -> {"none", "accepted", "refused"}]
    BY <2>1 DEF ContextInv
  <2>3. ASSUME NEW g \in Fds PROVE AgreesOn(g)'
    <3>1. CASE g = fd
      BY <2>1, <3>1 DEF ContextInv, AgreesOn, LastSelects, ClientTypes
    <3>2. CASE g # fd
      BY <2>1, <3>2 DEF ContextInv, AgreesOn, is_logged_in, ClientTypes
    <3> QED BY <3>1, <3>2
  <2> QED BY <2>2, <2>3 DEF ContextInv
<1>2. ASSUME NEW fd \in Fds, Type(fd)
      PROVE  ContextInv'
  <2>1. PICK r \in Requests :
          /\ to_server' = [to_server EXCEPT ![fd] = Append(@, r)]
          /\ IF r.code = "CMD_USE" THEN my_context' = [my_context EXCEPT ![fd] = r.arg]
             ELSE my_context' = my_context
    BY <1>2, TypedRequest DEF Type
  <2>2. UNCHANGED <<sessions, client_contexts, last_use>>
    BY <1>2 DEF Type, serverVars, vars, accountVars, dataVars
  <2>3. ASSUME NEW g \in Fds PROVE AgreesOn(g)'
    <3>1. CASE g = fd
      <4>1. to_server[fd] \in Seq(Requests) /\ to_server'[fd] = Append(to_server[fd], r)
        BY <2>1 DEF ClientTypes
      <4>2. my_context'[fd] = IF r.code = "CMD_USE" THEN r.arg ELSE my_context[fd]
        BY <2>1 DEF ClientTypes
      <4>3. AgreesOn(fd)
        BY DEF ContextInv
      <4>4. /\ LastSelects(to_server'[fd], my_context'[fd])
            /\ NoUse(to_server'[fd]) <=> NoUse(to_server[fd]) /\ r.code # "CMD_USE"
        BY <4>1, <4>2, <4>3, UseTyped DEF AgreesOn
      <4> QED BY <2>2, <3>1, <4>2, <4>3, <4>4 DEF AgreesOn, is_logged_in
    <3>2. CASE g # fd
      BY <2>1, <2>2, <3>2 DEF ContextInv, AgreesOn, is_logged_in, ClientTypes
    <3> QED BY <3>1, <3>2
  <2> QED BY <2>2, <2>3 DEF ContextInv
<1>3. ASSUME NEW fd \in Fds, Dispatch(fd)
      PROVE  ContextInv'
  <2>1. NoteUse(fd, Head(to_server[fd]))
    BY <1>3 DEF Dispatch
  <2>2. last_use' \in [Fds -> {"none", "accepted", "refused"}]
    BY <2>1 DEF NoteUse, ContextInv
  <2> QED BY <1>3, <2>2, ContextDispatched DEF ContextInv
<1>4. ASSUME NEW fd \in Fds, Show(fd) \/ Leave(fd)
      PROVE  ContextInv'
  <2>1. UNCHANGED <<to_server, my_context, sessions, client_contexts, last_use>>
    BY <1>4 DEF Show, _handle_response, Leave, Exit, serverVars, vars, accountVars, dataVars
  <2> QED BY <2>1 DEF ContextInv, AgreesOn, is_logged_in
<1>5. ASSUME NEW fd \in Fds, Lose(fd)
      PROVE  ContextInv'
  <2>1. UNCHANGED <<to_server, my_context, last_use>>
    BY <1>5 DEF Lose, clientVars
  <2>2. \A g \in Fds : \/ ~is_logged_in(g)'
                       \/ sessions'[g] = sessions[g] /\ client_contexts'[g] = client_contexts[g]
    <3>1. CASE handle_logout(fd)
      BY <3>1 DEF handle_logout, is_logged_in, TypeOK
    <3>2. CASE UNCHANGED vars
      BY <3>2 DEF vars, accountVars, dataVars
    <3> QED BY <1>5, <3>1, <3>2 DEF Lose, _handle_client_disconnect, LogoutLost
  <2> QED BY <2>1, <2>2 DEF ContextInv, AgreesOn, is_logged_in
<1>6. CASE UNCHANGED systemVars
  <2>1. UNCHANGED <<to_server, my_context, sessions, client_contexts, last_use>>
    BY <1>6 DEF systemVars, clientVars, serverVars, vars, accountVars, dataVars
  <2> QED BY <2>1 DEF ContextInv, AgreesOn, is_logged_in
<1> QED BY <1>1, <1>2, <1>3, <1>4, <1>5, <1>6 DEF SystemNext

LEMMA SystemIsTyped == SystemSpec => [](TypeOK /\ ClosedInv)
<1>1. SystemSpec => []TypeOK
  BY SystemImplementsServer, ServerImplementsBusiness, TypeCorrect
<1>2. TypeOK /\ ClosedInv /\ [ServerNext]_serverVars => ClosedInv'
  BY ClosedStep
<1> QED BY <1>1, <1>2, ClosedInit, SystemImplementsServer, PTL DEF ServerSpec

\* The copy of the context that a client moves when it sends /use (_cmd_use) is the
\* one the server keeps for it, once that /use was accepted and no other waits.
THEOREM ContextsStayAgreed == SystemSpec => []ContextsAgree
<1>1. SystemInit => ClientTypes /\ ContextInv
  BY ClientTypesInit, ContextInit
<1>2. TypeOK /\ ClientTypes /\ ContextInv /\ [SystemNext]_systemVars => ClientTypes' /\ ContextInv'
  BY ClientTypesStep, ContextStep
<1>3. ClosedInv /\ ContextInv => ContextsAgree
  BY DEF ClosedInv, ContextInv, AgreesOn, ContextsAgree, NoUse
<1> QED BY <1>1, <1>2, <1>3, SystemIsTyped, PTL DEF SystemSpec

-----------------------------------------------------------------------------
(* ClientKnowsItself *)

NoLoginFrom(s, first) == \A i \in first .. Len(s) : s[i].code # "RES_LOGIN_OK"

\* A client that believes to be mine and has s to show will end as u.
WillBe(s, mine, u) ==
  \/ mine = u /\ NoLoginFrom(s, 1)
  \/ \E last \in 1 .. Len(s) :
       s[last].code = "RES_LOGIN_OK" /\ s[last].payload[1] = u /\ NoLoginFrom(s, last + 1)

LEMMA WillBeAppended ==
  ASSUME NEW s, IsSequence(s), NEW packet, NEW mine, NEW u,
         \/ packet.code # "RES_LOGIN_OK" /\ WillBe(s, mine, u)
         \/ packet.code = "RES_LOGIN_OK" /\ packet.payload[1] = u
  PROVE  WillBe(Append(s, packet), mine, u)
<1> DEFINE t == Append(s, packet)
<1>1. PICK S : s \in Seq(S)
  BY DEF IsSequence
<1>2. s \in Seq(S \cup {packet})
  BY <1>1
<1>3. /\ Len(s) \in Nat /\ Len(t) = Len(s) + 1 /\ t[Len(s) + 1] = packet
      /\ \A i \in 1 .. Len(s) : t[i] = s[i]
  BY <1>2, AppendProperties
<1> HIDE DEF t
<1>4. CASE packet.code = "RES_LOGIN_OK" /\ packet.payload[1] = u
  <2>1. Len(t) \in 1 .. Len(t) /\ NoLoginFrom(t, Len(t) + 1)
    BY <1>3 DEF NoLoginFrom
  <2>2. WillBe(t, mine, u)
    BY <1>3, <1>4, <2>1 DEF WillBe
  <2> QED BY <2>2 DEF t
<1>5. CASE packet.code # "RES_LOGIN_OK" /\ WillBe(s, mine, u)
  <2>1. ASSUME NEW first \in Nat \ {0}, NoLoginFrom(s, first) PROVE NoLoginFrom(t, first)
    BY <1>3, <1>5, <2>1 DEF NoLoginFrom
  <2>2. ASSUME mine = u, NoLoginFrom(s, 1)
        PROVE  WillBe(t, mine, u)
    BY <2>1, <2>2 DEF WillBe
  <2>3. ASSUME NEW last \in 1 .. Len(s), s[last].code = "RES_LOGIN_OK",
               s[last].payload[1] = u, NoLoginFrom(s, last + 1)
        PROVE  WillBe(t, mine, u)
    <3>1. last \in 1 .. Len(t) /\ t[last] = s[last] /\ last + 1 \in Nat \ {0}
      BY <1>3
    <3>2. NoLoginFrom(t, last + 1)
      BY <2>1, <2>3, <3>1
    <3> QED BY <2>3, <3>1, <3>2 DEF WillBe
  <2>4. WillBe(t, mine, u)
    BY <1>5, <2>2, <2>3 DEF WillBe
  <2> QED BY <2>4 DEF t
<1> QED BY <1>4, <1>5

LEMMA WillBeShown ==
  ASSUME NEW s, IsSequence(s), s # <<>>, NEW mine, NEW u, WillBe(s, mine, u)
  PROVE  WillBe(Tail(s), IF Head(s).code = "RES_LOGIN_OK" THEN Head(s).payload[1] ELSE mine, u)
<1> DEFINE t == Tail(s)
           now == IF Head(s).code = "RES_LOGIN_OK" THEN Head(s).payload[1] ELSE mine
<1>1. PICK S : s \in Seq(S)
  BY DEF IsSequence
<1>2. /\ Len(t) \in Nat /\ Len(s) = Len(t) + 1 /\ s[1] = Head(s)
      /\ \A i \in 1 .. Len(t) : t[i] = s[i + 1]
  BY <1>1, HeadTailProperties
<1> HIDE DEF t
<1>3. ASSUME NEW first \in Nat \ {0}, NoLoginFrom(s, first + 1) PROVE NoLoginFrom(t, first)
  BY <1>2, <1>3 DEF NoLoginFrom
<1>4. CASE mine = u /\ NoLoginFrom(s, 1)
  <2>1. s[1].code # "RES_LOGIN_OK" /\ NoLoginFrom(s, 1 + 1)
    BY <1>2, <1>4 DEF NoLoginFrom
  <2>2. NoLoginFrom(t, 1)
    BY <1>3, <2>1
  <2>3. WillBe(t, now, u)
    BY <1>2, <1>4, <2>1, <2>2 DEF WillBe
  <2> QED BY <2>3 DEF t
<1>5. ASSUME NEW last \in 1 .. Len(s), s[last].code = "RES_LOGIN_OK",
             s[last].payload[1] = u, NoLoginFrom(s, last + 1)
      PROVE  WillBe(t, now, u)
  <2>1. CASE last = 1
    <3>1. now = u
      BY <1>2, <1>5, <2>1
    <3>2. NoLoginFrom(t, 1)
      BY <1>3, <1>5, <2>1
    <3> QED BY <3>1, <3>2 DEF WillBe
  <2>2. CASE last # 1
    <3> DEFINE k == last - 1
    <3>1. k \in 1 .. Len(t) /\ k + 1 = last /\ t[k] = s[last] /\ last \in Nat \ {0}
      BY <1>2, <2>2
    <3>2. NoLoginFrom(t, k + 1)
      BY <1>3, <1>5, <3>1
    <3> QED BY <1>5, <3>1, <3>2 DEF WillBe
  <2> QED BY <2>1, <2>2
<1>6. WillBe(t, now, u)
  BY <1>4, <1>5 DEF WillBe, t
<1> QED BY <1>6 DEF t

\* Of the answers only that to /login changes whose session a descriptor has, or
\* ends it (handle_login, handle_logout).
LEMMA LoginTells ==
  ASSUME TypeOK, NEW fd \in Fds, Command(fd)
  PROVE  /\ result'.push.code # "RES_LOGIN_OK"
         /\ IF result'.response.code = "RES_LOGIN_OK"
            THEN result'.response.payload[1] = sessions'[fd]
            ELSE sessions'[fd] \in {sessions[fd], None}
<1>1. Next /\ sessions \in [Fds -> UserIds \cup {None}]
  BY DEF Next, TypeOK
<1>2. result'.push.code # "RES_LOGIN_OK"
  BY <1>1, Causes DEF Pushed
<1>3. CASE LoginStep
  <2>1. PICK g \in Fds, u \in UserIds, name \in Names : LoginAs(g, u, name)
    BY <1>3, LoginStepWays
  <2>2. /\ sessions' = [sessions EXCEPT ![g] = u]
        /\ IF was_online(u)
           THEN Respond(g, "RES_LOGIN_OK", <<u, name>>)
           ELSE RespondAndPush(g, "RES_LOGIN_OK", <<u, name>>,
                  Packet("EVT_USER_LOGGED_IN", <<u, name>>), logged_fds \cup {g})
    BY <2>1, Zenon DEF LoginAs
  <2>3. result'.to = g /\ result'.response.payload[1] = u /\ result'.response.code = "RES_LOGIN_OK"
    BY <2>2 DEF Respond, RespondAndPush, Packet
  <2>4. g = fd
    <3> SUFFICES ASSUME g # fd PROVE FALSE
      OBVIOUS
    <3>1. result'.to = fd
      BY CommandIsLocal
    <3> QED BY <2>3, <3>1
  <2>5. sessions'[fd] = u
    BY <1>1, <2>2, <2>4
  <2> QED BY <1>2, <2>3, <2>5
<1>4. CASE ~LoginStep
  <2>1. result'.response.code # "RES_LOGIN_OK"
    BY <1>1, <1>4, Causes DEF Answered
  <2>2. sessions'[fd] \in {sessions[fd], None}
    <3>1. CASE LogoutStep
      BY <1>1, <3>1 DEF LogoutStep, handle_logout
    <3>2. CASE ~LogoutStep
      BY <1>1, <1>4, <3>2, AccountFrame
    <3> QED BY <3>1, <3>2
  <2> QED BY <1>2, <2>1, <2>2
<1> QED BY <1>3, <1>4

Knows(fd) == is_logged_in(fd) => WillBe(send_buffer[fd], my_user[fd], sessions[fd])

KnowsInv ==
  /\ my_user = [fd \in Fds |-> my_user[fd]]
  /\ \A fd \in Fds : Knows(fd)

LEMMA KnowsInit == SystemInit => KnowsInv
BY DEF SystemInit, ServerInit, Init, ClientInit, KnowsInv, Knows, is_logged_in

LEMMA KnowsDispatched ==
  ASSUME TypeOK, ClientTypes, ClosedInv, Buffers(send_buffer), KnowsInv,
         NEW fd \in Fds, Dispatch(fd), NEW g \in Fds, is_logged_in(g)'
  PROVE  WillBe(send_buffer'[g], my_user[g], sessions'[g])
<1> DEFINE answered == Queued(send_buffer, {fd}, result'.response)
<1>1. Command(fd)
  <2>1. Head(to_server[fd]) \in Requests
    BY DEF Dispatch, ClientTypes
  <2> QED BY <2>1, ExecuteIsCommand DEF Dispatch
<1>2. /\ result'.push.code # "RES_LOGIN_OK"
      /\ IF result'.response.code = "RES_LOGIN_OK"
         THEN result'.response.payload[1] = sessions'[fd]
         ELSE sessions'[fd] \in {sessions[fd], None}
  BY <1>1, LoginTells
<1>3. sessions'[g] # None
  BY DEF is_logged_in
<1>4. IsSequence(send_buffer[g]) /\ IsSequence(answered[g])
  BY QueuedBuffers DEF Buffers
<1>5. is_logged_in(g) => WillBe(send_buffer[g], my_user[g], sessions[g])
  BY DEF KnowsInv, Knows
<1>6. WillBe(answered[g], my_user[g], sessions'[g])
  <2>1. CASE g = fd
    <3>1. answered[fd] = Append(send_buffer[fd], result'.response)
      BY DEF Dispatch, Queued
    <3>2. CASE result'.response.code = "RES_LOGIN_OK"
      BY <1>2, <1>4, <2>1, <3>1, <3>2, WillBeAppended
    <3>3. CASE result'.response.code # "RES_LOGIN_OK"
      <4>1. sessions'[fd] = sessions[fd] /\ is_logged_in(fd)
        BY <1>2, <1>3, <2>1, <3>3 DEF is_logged_in
      <4> QED BY <1>4, <1>5, <2>1, <3>1, <3>3, <4>1, WillBeAppended
    <3> QED BY <3>2, <3>3
  <2>2. CASE g # fd
    <3>1. sessions'[g] = sessions[g] /\ answered[g] = send_buffer[g]
      BY <1>1, <2>2, CommandIsLocal DEF Queued
    <3>2. is_logged_in(g)
      BY <1>3, <3>1 DEF is_logged_in
    <3> QED BY <1>5, <3>1, <3>2
  <2> QED BY <2>1, <2>2
<1>7. \/ send_buffer'[g] = answered[g]
      \/ send_buffer'[g] = Append(answered[g], result'.push)
  BY DEF Dispatch, _send_result, Pushes, Queued
<1> HIDE DEF answered
<1> QED BY <1>2, <1>4, <1>6, <1>7, WillBeAppended

LEMMA KnowsStep ==
  ASSUME TypeOK, ClientTypes, ClosedInv, Buffers(send_buffer), KnowsInv, [SystemNext]_systemVars
  PROVE  KnowsInv'
<1>1. ASSUME NEW fd \in Fds, Arrive(fd)
      PROVE  KnowsInv'
  <2>1. /\ my_user' = [my_user EXCEPT ![fd] = None]
        /\ send_buffer' = [send_buffer EXCEPT ![fd] = <<>>]
        /\ sessions' = sessions /\ ~is_logged_in(fd)
    BY <1>1 DEF Arrive, Connected, _handle_new_connection, vars, accountVars, dataVars,
       ClosedInv, ClosedLeavesNothing
  <2>2. my_user' = [g \in Fds |-> my_user'[g]]
    BY <2>1 DEF KnowsInv
  <2>3. ASSUME NEW g \in Fds PROVE Knows(g)'
    <3>1. CASE g = fd
      BY <2>1, <3>1 DEF Knows, is_logged_in
    <3>2. CASE g # fd
      <4>1. send_buffer'[g] = send_buffer[g] /\ my_user'[g] = my_user[g]
        BY <2>1, <3>2 DEF KnowsInv, Buffers
      <4> QED BY <2>1, <4>1 DEF KnowsInv, Knows, is_logged_in
    <3> QED BY <3>1, <3>2
  <2> QED BY <2>2, <2>3 DEF KnowsInv
<1>2. ASSUME NEW fd \in Fds, Dispatch(fd)
      PROVE  KnowsInv'
  <2>1. my_user' = my_user
    BY <1>2 DEF Dispatch
  <2>2. ASSUME NEW g \in Fds PROVE Knows(g)'
    BY <1>2, <2>1, KnowsDispatched DEF Knows
  <2> QED BY <2>1, <2>2 DEF KnowsInv
<1>3. ASSUME NEW fd \in Fds, Show(fd)
      PROVE  KnowsInv'
  <2> DEFINE s == send_buffer[fd]
             now == IF Head(s).code = "RES_LOGIN_OK" THEN Head(s).payload[1] ELSE my_user[fd]
  <2>1. /\ s # <<>> /\ IsSequence(s)
        /\ send_buffer' = [send_buffer EXCEPT ![fd] = Tail(s)]
        /\ sessions' = sessions
    BY <1>3 DEF Show, vars, accountVars, dataVars, Buffers
  <2>2. my_user' = [my_user EXCEPT ![fd] = now]
    BY <1>3 DEF Show, _handle_response, UserAfterLogin, KnowsInv
  <2>3. ASSUME NEW g \in Fds, is_logged_in(g) PROVE WillBe(send_buffer'[g], my_user'[g], sessions[g])
    <3>1. WillBe(send_buffer[g], my_user[g], sessions[g])
      BY <2>3 DEF KnowsInv, Knows
    <3>2. CASE g = fd
      <4>1. send_buffer'[g] = Tail(s) /\ my_user'[g] = now
        BY <2>1, <2>2, <3>2 DEF KnowsInv, Buffers
      <4> QED BY <2>1, <3>1, <3>2, <4>1, WillBeShown
    <3>3. CASE g # fd
      <4>1. send_buffer'[g] = send_buffer[g] /\ my_user'[g] = my_user[g]
        BY <2>1, <2>2, <3>3 DEF KnowsInv, Buffers
      <4> QED BY <3>1, <4>1
    <3> QED BY <3>2, <3>3
  <2>4. my_user' = [g \in Fds |-> my_user'[g]]
    BY <2>2 DEF KnowsInv
  <2> QED BY <2>1, <2>3, <2>4 DEF KnowsInv, Knows, is_logged_in
<1>4. ASSUME NEW fd \in Fds, Lose(fd)
      PROVE  KnowsInv'
  <2>1. my_user' = my_user /\ _handle_client_disconnect(fd)
    BY <1>4 DEF Lose, clientVars
  <2>2. ASSUME NEW g \in Fds, is_logged_in(g)'
        PROVE  WillBe(send_buffer'[g], my_user[g], sessions'[g])
    <3>1. g # fd
      <4>1. clients' = clients \ {fd}
        BY <2>1 DEF _handle_client_disconnect
      <4>2. ClosedInv'
        BY <2>1, ClosedStep DEF ServerNext
      <4> QED BY <2>2, <4>1, <4>2 DEF ClosedInv, ClosedLeavesNothing
    <3>2. sessions'[g] = sessions[g] /\ is_logged_in(g)
      <4>1. CASE handle_logout(fd)
        BY <2>2, <3>1, <4>1 DEF handle_logout, is_logged_in, TypeOK
      <4>2. CASE UNCHANGED vars
        BY <2>2, <4>2 DEF vars, accountVars, dataVars, is_logged_in
      <4> QED BY <2>1, <4>1, <4>2 DEF _handle_client_disconnect, LogoutLost
    <3>3. WillBe(send_buffer[g], my_user[g], sessions[g]) /\ IsSequence(send_buffer[g])
      BY <3>2 DEF KnowsInv, Knows, Buffers
    <3>4. CASE send_buffer'[g] = send_buffer[g]
      BY <3>2, <3>3, <3>4
    <3>5. CASE handle_logout(fd) /\ send_buffer'[g] = Append(send_buffer[g], result'.push)
      <4>1. Command(fd)
        BY <3>5 DEF Command, AccountCommand
      <4>2. result'.push.code # "RES_LOGIN_OK"
        BY <4>1, LoginTells
      <4> QED BY <3>2, <3>3, <3>5, <4>2, WillBeAppended
    <3>6. \/ send_buffer'[g] = send_buffer[g]
          \/ handle_logout(fd) /\ send_buffer'[g] = Append(send_buffer[g], result'.push)
      BY <2>1, <3>1 DEF _handle_client_disconnect, LogoutLost, Pushes, Queued, Buffers
    <3> QED BY <3>4, <3>5, <3>6
  <2> QED BY <2>1, <2>2 DEF KnowsInv, Knows
<1>5. ASSUME NEW fd \in Fds, Type(fd) \/ Leave(fd)
      PROVE  KnowsInv'
  <2>1. UNCHANGED <<my_user, sessions, send_buffer>>
    <3>1. UNCHANGED <<sessions, send_buffer>>
      BY <1>5 DEF Type, Leave, serverVars, vars, accountVars, dataVars
    <3>2. CASE Leave(fd)
      BY <3>1, <3>2 DEF Leave, Exit
    <3>3. CASE Type(fd)
      BY <3>1, <3>3, TypedUserKept DEF Type
    <3> QED BY <1>5, <3>1, <3>2, <3>3
  <2> QED BY <2>1 DEF KnowsInv, Knows, is_logged_in
<1>6. CASE UNCHANGED systemVars
  <2>1. UNCHANGED <<my_user, sessions, send_buffer>>
    BY <1>6 DEF systemVars, clientVars, serverVars, vars, accountVars, dataVars
  <2> QED BY <2>1 DEF KnowsInv, Knows, is_logged_in
<1> QED BY <1>1, <1>2, <1>3, <1>4, <1>5, <1>6 DEF SystemNext

\* Once it has shown what is on its way to it, a client takes itself for the user
\* its session is of, however often it logged in and under whatever names
\* (Server_response.cpp sets the user from RES_LOGIN_OK alone).
THEOREM ClientsKnowThemselves == SystemSpec => []ClientKnowsItself
<1> DEFINE Buffered == Buffers(send_buffer)
<1>1. SystemInit => ClientTypes /\ Buffered /\ KnowsInv
  BY ClientTypesInit, BuffersInit, KnowsInit DEF SystemInit
<1>2. ClientTypes /\ [SystemNext]_systemVars => ClientTypes'
  BY ClientTypesStep
<1>3. ClientTypes /\ Buffered /\ [SystemNext]_systemVars => Buffered'
  BY SystemStep, BuffersStep
<1>4. TypeOK /\ ClosedInv /\ ClientTypes /\ Buffered /\ KnowsInv /\ [SystemNext]_systemVars
      => KnowsInv'
  BY KnowsStep
<1>5. ClosedInv /\ KnowsInv => ClientKnowsItself
  BY DEF ClosedInv, KnowsInv, Knows, WillBe, NoLoginFrom, ClientKnowsItself
<1> HIDE DEF Buffered
<1> QED BY <1>1, <1>2, <1>3, <1>4, <1>5, SystemIsTyped, PTL DEF SystemSpec

-----------------------------------------------------------------------------
(* Answers in order *)

\* The numbers of answers, counted from the front.
LEMMA CountOfNone == ASSUME NEW s PROVE AnswerNumber(s, 0) = 0
<1>1. {j \in 1 .. 0 : IsAnswer(s[j])} = {}
  OBVIOUS
<1> QED BY <1>1, FS_EmptySet DEF AnswerNumber

LEMMA CountIsNat ==
  ASSUME NEW s, NEW i \in Nat
  PROVE  AnswerNumber(s, i) \in Nat /\ IsFiniteSet({j \in 1 .. i : IsAnswer(s[j])})
<1> DEFINE J == {j \in 1 .. i : IsAnswer(s[j])}
<1>1. IsFiniteSet(1 .. i) /\ J \in SUBSET (1 .. i)
  BY FS_Interval
<1>2. IsFiniteSet(J)
  BY <1>1, FS_Subset
<1> QED BY <1>2, FS_CardinalityType DEF AnswerNumber

\* One more position counts if there is an answer there.
LEMMA CountNext ==
  ASSUME NEW s, NEW i \in Nat
  PROVE  AnswerNumber(s, i + 1) =
           IF IsAnswer(s[i + 1]) THEN AnswerNumber(s, i) + 1 ELSE AnswerNumber(s, i)
<1> DEFINE J == {j \in 1 .. i : IsAnswer(s[j])}
           K == {j \in 1 .. i + 1 : IsAnswer(s[j])}
<1>1. IsFiniteSet(J)
  BY CountIsNat
<1>2. CASE IsAnswer(s[i + 1])
  <2>1. K = J \cup {i + 1}
    <3>1. \A j : j \in 1 .. i + 1 <=> j \in 1 .. i \/ j = i + 1
      OBVIOUS
    <3> QED BY <1>2, <3>1
  <2>2. (i + 1) \notin J
    OBVIOUS
  <2> HIDE DEF J, K
  <2>3. Cardinality(K) = Cardinality(J) + 1
    BY <1>1, <2>1, <2>2, FS_AddElement
  <2> QED BY <1>2, <2>3 DEF AnswerNumber, J, K
<1>3. CASE ~IsAnswer(s[i + 1])
  <2>1. K = J
    <3>1. \A j : j \in 1 .. i + 1 <=> j \in 1 .. i \/ j = i + 1
      OBVIOUS
    <3> QED BY <1>3, <3>1
  <2> QED BY <1>3, <2>1 DEF AnswerNumber
<1> QED BY <1>2, <1>3

\* What comes behind does not change the count.
LEMMA CountOfPrefix ==
  ASSUME NEW s, NEW t, NEW i \in Nat, \A j \in 1 .. i : t[j] = s[j]
  PROVE  AnswerNumber(t, i) = AnswerNumber(s, i)
<1>1. {j \in 1 .. i : IsAnswer(t[j])} = {j \in 1 .. i : IsAnswer(s[j])}
  OBVIOUS
<1> QED BY <1>1 DEF AnswerNumber

\* What was in front counts no more, once it is gone.
LEMMA CountOfTail ==
  ASSUME NEW s, NEW t, NEW i \in Nat, \A j \in 1 .. i : t[j] = s[j + 1]
  PROVE  AnswerNumber(s, i + 1) =
           IF IsAnswer(s[1]) THEN AnswerNumber(t, i) + 1 ELSE AnswerNumber(t, i)
<1> DEFINE J == {j \in 1 .. i : IsAnswer(t[j])}
           K == {j \in 1 .. i + 1 : IsAnswer(s[j])}
           L == K \ {1}
           shift == [j \in J |-> j + 1]
<1>1. IsFiniteSet(J) /\ IsFiniteSet(K)
  <2>1. i + 1 \in Nat
    OBVIOUS
  <2> QED BY <2>1, CountIsNat
<1>2. \A j : j \in L <=> j - 1 \in J /\ j \in 2 .. i + 1
  <2>1. \A j \in 2 .. i + 1 : j - 1 \in 1 .. i /\ (j - 1) + 1 = j /\ t[j - 1] = s[j]
    OBVIOUS
  <2>2. \A j : j \in L <=> j \in 2 .. i + 1 /\ IsAnswer(s[j])
    OBVIOUS
  <2>3. \A j : j \in J <=> j \in 1 .. i /\ IsAnswer(t[j])
    OBVIOUS
  <2> HIDE DEF J, K, L
  <2> QED BY <2>1, <2>2, <2>3
<1>3. shift \in Bijection(J, L)
  <2>1. shift \in [J -> L]
    <3>1. \A j \in J : j + 1 \in 2 .. i + 1 /\ (j + 1) - 1 = j
      OBVIOUS
    <3>2. \A j \in J : j + 1 \in L
      BY <1>2, <3>1
    <3> HIDE DEF J, L
    <3> QED BY <3>2
  <2>2. \A a, b \in J : shift[a] = shift[b] => a = b
    <3>1. \A a, b \in J : a \in Int /\ b \in Int
      OBVIOUS
    <3> HIDE DEF J
    <3> QED BY <3>1
  <2>3. \A c \in L : \E a \in J : shift[a] = c
    <3> SUFFICES ASSUME NEW c \in L PROVE \E a \in J : shift[a] = c
      OBVIOUS
    <3>1. c - 1 \in J /\ (c - 1) + 1 = c
      BY <1>2
    <3> HIDE DEF J
    <3> QED BY <3>1
  <2> HIDE DEF J, L, shift
  <2> QED BY <2>1, <2>2, <2>3 DEF Bijection, Injection, Surjection, IsInjective
<1>4. Cardinality(L) = Cardinality(J)
  <2> HIDE DEF J, L, shift
  <2> QED BY <1>1, <1>3, FS_Bijection DEF ExistsBijection
<1>5. Cardinality(L) = IF 1 \in K THEN Cardinality(K) - 1 ELSE Cardinality(K)
  <2> HIDE DEF K
  <2> QED BY <1>1, FS_RemoveElement
<1>6. Cardinality(J) \in Nat /\ Cardinality(K) \in Nat
  <2> HIDE DEF J, K
  <2> QED BY <1>1, FS_CardinalityType
<1>7. 1 \in K <=> IsAnswer(s[1])
  OBVIOUS
<1>8. AnswerNumber(s, i + 1) = Cardinality(K) /\ AnswerNumber(t, i) = Cardinality(J)
  BY DEF AnswerNumber
<1> HIDE DEF J, K, L, shift
<1>9. CASE IsAnswer(s[1])
  <2>1. Cardinality(K) = Cardinality(J) + 1
    BY <1>4, <1>5, <1>6, <1>7, <1>9
  <2> QED BY <1>8, <1>9, <2>1
<1>10. CASE ~IsAnswer(s[1])
  BY <1>4, <1>5, <1>6, <1>7, <1>8, <1>10
<1> QED BY <1>9, <1>10 DEF IsAnswer

\* The error packets of the handlers, for what a client can send.
LEMMA ErrorsKnown ==
  /\ \A u \in UserIds : UserError(u) = NoPacket \/ UserError(u).code = "ERR_UNKNOWN_USER"
  /\ \A t \in TeamIds : TeamError(t) = NoPacket \/ TeamError(t).code = "ERR_UNKNOWN_TEAM"
  /\ \A t \in TeamIds, u \in UserIds \cup {None} :
       \/ MemberError(t, u) = NoPacket
       \/ MemberError(t, u).code \in {"ERR_UNKNOWN_TEAM", "ERR_NOT_SUBSCRIBED"}
  /\ \A ctx \in Selections, fd \in Fds :
       \/ UseError(fd, ctx) = NoPacket
       \/ UseError(fd, ctx).code \in {"ERR_UNKNOWN_TEAM", "ERR_UNKNOWN_CHANNEL",
                                      "ERR_UNKNOWN_THREAD", "ERR_NOT_SUBSCRIBED"}
<1>1. ASSUME NEW u \in UserIds
      PROVE  UserError(u) = NoPacket \/ UserError(u).code = "ERR_UNKNOWN_USER"
  BY NoneIsFresh DEF UserError, Packet
<1>2. ASSUME NEW t \in TeamIds
      PROVE  TeamError(t) = NoPacket \/ TeamError(t).code = "ERR_UNKNOWN_TEAM"
  BY NoneIsFresh DEF TeamError, Packet
<1>3. ASSUME NEW t \in TeamIds, NEW u \in UserIds \cup {None}
      PROVE  \/ MemberError(t, u) = NoPacket
             \/ MemberError(t, u).code \in {"ERR_UNKNOWN_TEAM", "ERR_NOT_SUBSCRIBED"}
  BY <1>2 DEF MemberError, Packet
<1>4. ASSUME NEW ctx \in Selections, NEW fd \in Fds
      PROVE  \/ UseError(fd, ctx) = NoPacket
             \/ UseError(fd, ctx).code \in {"ERR_UNKNOWN_TEAM", "ERR_UNKNOWN_CHANNEL",
                                            "ERR_UNKNOWN_THREAD", "ERR_NOT_SUBSCRIBED"}
  <2>1. ctx.level # NoLevel /\ ~TooShort(ctx)
    BY NoneIsFresh DEF Selections, RootContext, UseContext, TooShort, NoLevel
  <2>2. \A allowed : \/ TargetError(ctx, allowed) = NoPacket
                     \/ TargetError(ctx, allowed).code \in
                          {"ERR_UNKNOWN_TEAM", "ERR_UNKNOWN_CHANNEL",
                           "ERR_UNKNOWN_THREAD", "ERR_NOT_SUBSCRIBED"}
    BY DEF TargetError, Packet
  <2> QED BY <2>1, <2>2 DEF UseError
<1> QED BY <1>1, <1>2, <1>3, <1>4

\* The stored context of a session always resolves, so that /create can only be
\* refused for its payload or its user, and /list and /info never.
LEMMA StoredContextServes ==
  ASSUME TypeOK, SessionsAgree, ContextResolves, NEW fd \in Fds, is_logged_in(fd), NEW name
  PROVE  /\ client_contexts[fd] \in Context /\ client_contexts[fd].level # NoLevel
         /\ \/ CreateError(fd, name) = NoPacket
            \/ CreateError(fd, name).code \in {"ERR_INVALID_COMMAND", "ERR_NOT_SUBSCRIBED"}
         /\ ReadError(fd) = NoPacket
<1> DEFINE ctx == client_contexts[fd]
           allowed == subscribed_teams(sessions[fd])
<1>1. ctx \in Context /\ ctx.level # NoLevel
  BY DEF TypeOK, SessionsAgree
<1>2. ctx.level \in UseLevels
  BY <1>1 DEF Context
<1>3. TargetError(ctx, TeamIds) = NoPacket
  BY DEF ContextResolves, logged_fds
<1>4. Resolves(ctx)
  BY <1>2, <1>3, TargetErrorMeaning
<1>5. TargetError(ctx, allowed) = NoPacket \/ TargetError(ctx, allowed) = Packet("ERR_NOT_SUBSCRIBED", <<>>)
  BY <1>2, <1>4 DEF TargetError, Resolves, UseLevels
<1>6. \/ CreateError(fd, name) = NoPacket
      \/ CreateError(fd, name).code \in {"ERR_INVALID_COMMAND", "ERR_NOT_SUBSCRIBED"}
  BY <1>1, <1>5 DEF CreateError, Bare, Packet, NoPacket
<1>7. ReadError(fd) = NoPacket
  BY <1>1, <1>3 DEF ReadError, Bare, Packet, NoPacket
<1> QED BY <1>1, <1>6, <1>7

\* What /use, /info and /list answer, for every level of the context.
LEMMA TargetAnswers ==
  ASSUME NEW ctx \in Context, ctx.level # NoLevel, NEW u
  PROVE  /\ TargetInfo(ctx, u).code \in {"RES_USER_DETAILS", "RES_TEAM_INFO", "RES_CHANNEL_INFO",
                                        "RES_THREAD_INFO"}
         /\ Listing(ctx).code \in {"RES_LIST_TEAMS", "RES_LIST_CHANNELS", "RES_LIST_THREADS",
                                   "RES_LIST_REPLIES"}
<1>1. CASE ctx.level = "USE_NONE"
  BY <1>1 DEF TargetInfo, Listing, Packet
<1>2. CASE ctx.level = "USE_TEAM"
  BY <1>2 DEF TargetInfo, Listing, Packet
<1>3. CASE ctx.level = "USE_CHANNEL"
  BY <1>3 DEF TargetInfo, Listing, Packet
<1>4. CASE ctx.level = "USE_THREAD"
  BY <1>4 DEF TargetInfo, Listing, Packet
<1> QED BY <1>1, <1>2, <1>3, <1>4 DEF Context, UseLevels

\* Every command is answered, and with an answer to that command.
LEMMA AnsweredAsAsked ==
  ASSUME TypeOK, SessionsAgree, ContextResolves, NEW fd \in Fds, NEW r \in Requests, Execute(fd, r)
  PROVE  result'.response.code \in AnswersTo(r.code)
<1> DEFINE code == r.code
           arg == r.arg
           given == result'.response.code
           Fits == given \in AnswersTo(code)
<1> SUFFICES Fits
  OBVIOUS
<1>1. \A packet : Answer(fd, packet) => given = packet.code
  BY DEF Answer, Respond, Packet
<1>2. \A error : Refused(fd, error) => error # NoPacket /\ given = error.code
  BY <1>1 DEF Refused
<1>0. sessions[fd] \in UserIds \cup {None}
  BY DEF TypeOK
<1>3. CASE Unauthorized(fd)
  <2>1. given = "ERR_UNAUTHORIZED"
    BY <1>2, <1>3 DEF Unauthorized, Packet
  <2> HIDE DEF given
  <2> QED BY <2>1 DEF AnswersTo, given
<1>4. CASE code = "CMD_LOGIN" /\ handle_login(fd, arg)
  <2>0. arg \in Names
    BY <1>4 DEF Requests, Request
  <2>1. PICK u \in UserIds, name \in Names : LoginAs(fd, u, name)
    BY <1>4, <2>0, LoginWays
  <2>2. given = "RES_LOGIN_OK"
    BY <2>1 DEF LoginAs, Respond, RespondAndPush, Packet
  <2> QED BY <1>4, <2>2 DEF AnswersTo
<1>5. CASE code = "CMD_LOGOUT" /\ handle_logout(fd)
  <2>1. given = "RES_LOGOUT_OK"
    BY <1>5 DEF handle_logout, Respond, RespondAndPush, Packet
  <2> QED BY <1>5, <2>1 DEF AnswersTo
<1>6. CASE code = "CMD_USERS" /\ handle_users(fd)
  <2>1. given = "RES_USERS_LIST"
    BY <1>1, <1>6 DEF handle_users, Packet
  <2> QED BY <1>6, <2>1 DEF AnswersTo
<1>7. CASE code = "CMD_USER" /\ handle_user(fd, arg)
  <2>1. arg \in UserIds
    BY <1>7 DEF Requests, Request
  <2>2. given \in {"RES_USER_INFO", "ERR_UNKNOWN_USER"}
    BY <1>1, <1>7, <2>1, ErrorsKnown DEF handle_user, Unless, Packet
  <2> QED BY <1>7, <2>2 DEF AnswersTo
<1>8. CASE code = "CMD_SEND" /\ handle_send(fd, arg[1], arg[2])
  <2>1. arg[1] \in UserIds
    BY <1>8 DEF Requests, Request
  <2>2. given \in {"RES_SEND_OK", "ERR_UNKNOWN_USER"}
    BY <1>2, <1>8, <2>1, ErrorsKnown DEF handle_send, StoreMessage, Respond, RespondAndPush, Packet
  <2> QED BY <1>8, <2>2 DEF AnswersTo
<1>9. CASE code = "CMD_MESSAGES" /\ handle_messages(fd, arg)
  <2>1. arg \in UserIds
    BY <1>9 DEF Requests, Request
  <2>2. given \in {"RES_MESSAGES_LIST", "ERR_UNKNOWN_USER"}
    BY <1>1, <1>9, <2>1, ErrorsKnown DEF handle_messages, Unless, Packet
  <2> QED BY <1>9, <2>2 DEF AnswersTo
<1>10. CASE code = "CMD_SUBSCRIBE" /\ handle_subscribe(fd, arg)
  <2>1. arg \in TeamIds
    BY <1>10 DEF Requests, Request
  <2>2. given \in {"RES_SUBSCRIBE_OK", "ERR_UNKNOWN_TEAM"}
    BY <1>2, <1>10, <2>1, ErrorsKnown DEF handle_subscribe, Subscribe, Respond, Packet
  <2> QED BY <1>10, <2>2 DEF AnswersTo
<1>11. CASE code = "CMD_UNSUBSCRIBE" /\ handle_unsubscribe(fd, arg)
  <2>1. arg \in TeamIds
    BY <1>11 DEF Requests, Request
  <2>2. given \in {"RES_UNSUBSCRIBE_OK", "ERR_UNKNOWN_TEAM", "ERR_NOT_SUBSCRIBED"}
    BY <1>0, <1>2, <1>11, <2>1, ErrorsKnown DEF handle_unsubscribe, Unsubscribe, Respond, Packet
  <2> QED BY <1>11, <2>2 DEF AnswersTo
<1>12. CASE code = "CMD_SUBSCRIBED" /\ arg # None /\ handle_subscribed_users(fd, arg)
  <2>1. arg \in TeamIds
    BY <1>12 DEF Requests, Request
  <2>2. given \in {"RES_SUBSCRIBED_USERS", "ERR_UNKNOWN_TEAM", "ERR_NOT_SUBSCRIBED"}
    BY <1>0, <1>1, <1>12, <2>1, ErrorsKnown DEF handle_subscribed_users, Unless, Packet
  <2> QED BY <1>12, <2>2 DEF AnswersTo
<1>13. CASE code = "CMD_SUBSCRIBED" /\ handle_subscribed_teams(fd)
  <2>1. given = "RES_SUBSCRIBED_TEAMS"
    BY <1>1, <1>13 DEF handle_subscribed_teams, Packet
  <2> QED BY <1>13, <2>1 DEF AnswersTo
<1>14. CASE code = "CMD_USE" /\ handle_use(fd, arg)
  <2>1. arg \in Selections
    BY <1>14 DEF Requests, Request
  <2>2. CASE Refused(fd, UseError(fd, arg))
    <3>1. given \in {"ERR_UNKNOWN_TEAM", "ERR_UNKNOWN_CHANNEL", "ERR_UNKNOWN_THREAD",
                     "ERR_NOT_SUBSCRIBED"}
      BY <1>2, <2>1, <2>2, ErrorsKnown
    <3> QED BY <1>14, <3>1 DEF AnswersTo
  <2>3. CASE SelectContext(fd, arg)
    <3>1. arg \in Context /\ arg.level # NoLevel
      BY <2>1, <2>3, SelectionsAreRequests, RequestsAreContexts
         DEF SelectContext, UseError, NoPacket, Packet
    <3>2. given = TargetInfo(arg, sessions[fd]).code
      BY <2>3 DEF SelectContext, Respond, Packet
    <3>3. given \in {"RES_USER_DETAILS", "RES_TEAM_INFO", "RES_CHANNEL_INFO", "RES_THREAD_INFO"}
      BY <3>1, <3>2, TargetAnswers
    <3> QED BY <1>14, <3>3 DEF AnswersTo
  <2> QED BY <1>14, <2>2, <2>3 DEF handle_use
<1>15. CASE code = "CMD_CREATE" /\ handle_create(fd, NameFound(fd, arg[1], arg[2]))
  <2> DEFINE name == NameFound(fd, arg[1], arg[2])
  <2>1. is_logged_in(fd)
    BY <1>15 DEF handle_create
  <2>2. \/ CreateError(fd, name) = NoPacket
        \/ CreateError(fd, name).code \in {"ERR_INVALID_COMMAND", "ERR_NOT_SUBSCRIBED"}
    BY <2>1, StoredContextServes
  <2>3. given \in {"RES_TEAM_CREATED", "RES_CHANNEL_CREATED", "RES_THREAD_CREATED",
                   "RES_REPLY_CREATED", "ERR_NOT_SUBSCRIBED", "ERR_INVALID_COMMAND"}
    <3> HIDE DEF name
    <3>1. CASE Refused(fd, CreateError(fd, name))
      BY <1>2, <2>2, <3>1
    <3>2. CASE CreateTeam(fd, name) \/ CreateChannel(fd) \/ CreateThread(fd) \/ CreateReply(fd)
      BY <3>2 DEF CreateTeam, CreateChannel, CreateThread, CreateReply, RespondAndPush, Packet
    <3> QED BY <1>15, <3>1, <3>2 DEF handle_create, name
  <2> QED BY <1>15, <2>3 DEF AnswersTo
<1>16. CASE code = "CMD_LIST" /\ handle_list(fd)
  <2>1. is_logged_in(fd)
    BY <1>16 DEF handle_list
  <2>2. given = Listing(client_contexts[fd]).code
    BY <1>1, <1>16, <2>1, StoredContextServes DEF handle_list, Unless
  <2>3. given \in {"RES_LIST_TEAMS", "RES_LIST_CHANNELS", "RES_LIST_THREADS", "RES_LIST_REPLIES"}
    BY <2>1, <2>2, StoredContextServes, TargetAnswers
  <2> QED BY <1>16, <2>3 DEF AnswersTo
<1>17. CASE code = "CMD_INFO" /\ handle_info(fd)
  <2>1. is_logged_in(fd)
    BY <1>17 DEF handle_info
  <2>2. given = TargetInfo(client_contexts[fd], sessions[fd]).code
    BY <1>1, <1>17, <2>1, StoredContextServes DEF handle_info, Unless
  <2>3. given \in {"RES_USER_DETAILS", "RES_TEAM_INFO", "RES_CHANNEL_INFO", "RES_THREAD_INFO"}
    BY <2>1, <2>2, StoredContextServes, TargetAnswers
  <2> QED BY <1>17, <2>3 DEF AnswersTo
<1> HIDE DEF Fits
<1> QED BY <1>3, <1>4, <1>5, <1>6, <1>7, <1>8, <1>9, <1>10, <1>11, <1>12, <1>13, <1>14, <1>15,
           <1>16, <1>17 DEF Execute

\* No answer is taken for an event, and what others are told of a command is one.
LEMMA AnswersAreAnswers ==
  ASSUME NEW r \in Requests
  PROVE  \A given \in AnswersTo(r.code) : given \notin EventCodes
BY DEF Requests, Request, AnswersTo, EventCodes

LEMMA PushesAreEvents ==
  ASSUME TypeOK, Next
  PROVE  result'.fds = {} \/ result'.push.code \in EventCodes
<1> USE DEF Respond, RespondAndPush, Packet, EventCodes
<1>1. CASE AnswerStep
  BY <1>1 DEF AnswerStep
<1>2. CASE LoginStep
  <2>1. PICK fd \in Fds, u \in UserIds, name \in Names :
          \/ Respond(fd, "RES_LOGIN_OK", <<u, name>>)
          \/ RespondAndPush(fd, "RES_LOGIN_OK", <<u, name>>,
               Packet("EVT_USER_LOGGED_IN", <<u, name>>), logged_fds \cup {fd})
    BY <1>2, LoginStepWays, Zenon DEF LoginAs
  <2> QED BY <2>1
<1>3. CASE LogoutStep
  BY <1>3 DEF LogoutStep, handle_logout
<1>4. CASE SendStep
  BY <1>4 DEF SendStep, StoreMessage
<1>5. CASE SubscribeStep \/ UnsubscribeStep
  BY <1>5 DEF SubscribeStep, Subscribe, UnsubscribeStep, Unsubscribe
<1>6. CASE UseStep
  BY <1>6 DEF UseStep, SelectContext
<1>7. CASE TeamStep \/ ChannelStep
  BY <1>7 DEF TeamStep, CreateTeam, ChannelStep, CreateChannel
<1>8. CASE ThreadStep \/ ReplyStep
  BY <1>8 DEF ThreadStep, CreateThread, ReplyStep, CreateReply
<1> QED BY <1>1, <1>2, <1>3, <1>4, <1>5, <1>6, <1>7, <1>8, NextCases

RequestCodes == {r.code : r \in Requests}

\* AnswersInOrder for a client that asked these commands, of which the answers among
\* coming are on their way and the last ones wait at the server.
AnswersFit(coming, asked, waiting) ==
  /\ Len(asked) = AnswerNumber(coming, Len(coming)) + Len(waiting)
  /\ \A i \in 1 .. Len(coming) :
       IsAnswer(coming[i]) => coming[i].code \in AnswersTo(asked[AnswerNumber(coming, i)])
  /\ \A j \in 1 .. Len(waiting) : waiting[j].code = asked[AnswerNumber(coming, Len(coming)) + j]

\* An answer has a number of its own, no greater than that of the last.
LEMMA CountBounds ==
  ASSUME NEW s, NEW n \in Nat, NEW i \in 1 .. n, IsAnswer(s[i])
  PROVE  AnswerNumber(s, i) \in 1 .. AnswerNumber(s, n)
<1> DEFINE J == {j \in 1 .. i : IsAnswer(s[j])}
           K == {j \in 1 .. n : IsAnswer(s[j])}
<1>1. AnswerNumber(s, i) \in Nat /\ AnswerNumber(s, n) \in Nat /\ IsFiniteSet(J) /\ IsFiniteSet(K)
  BY CountIsNat
<1>2. J \in SUBSET K /\ J # {}
  OBVIOUS
<1>3. Cardinality(J) <= Cardinality(K) /\ Cardinality(J) # 0
  <2> HIDE DEF J, K
  <2> QED BY <1>1, <1>2, FS_Subset, FS_EmptySet
<1> QED BY <1>1, <1>3 DEF AnswerNumber

\* A line typed: the last command asked waits behind the others.
LEMMA FitTyped ==
  ASSUME NEW coming, IsSequence(coming), NEW asked \in Seq(RequestCodes),
         NEW waiting \in Seq(Requests), NEW r \in Requests, AnswersFit(coming, asked, waiting)
  PROVE  AnswersFit(coming, Append(asked, r.code), Append(waiting, r))
<1> DEFINE more == Append(asked, r.code)
           last == Append(waiting, r)
           n == AnswerNumber(coming, Len(coming))
<1>1. Len(coming) \in Nat
  BY DEF IsSequence
<1>2. n \in Nat
  BY <1>1, CountIsNat
<1>3. r.code \in RequestCodes
  BY DEF RequestCodes
<1>4. /\ Len(more) = Len(asked) + 1 /\ more[Len(asked) + 1] = r.code
      /\ \A i \in 1 .. Len(asked) : more[i] = asked[i]
  BY <1>3, AppendProperties
<1>5. /\ Len(last) = Len(waiting) + 1 /\ last[Len(waiting) + 1] = r
      /\ \A i \in 1 .. Len(waiting) : last[i] = waiting[i]
  BY AppendProperties
<1>6. Len(asked) = n + Len(waiting) /\ Len(waiting) \in Nat
  BY DEF AnswersFit
<1> HIDE DEF more, last, n
<1>7. ASSUME NEW i \in 1 .. Len(coming), IsAnswer(coming[i])
      PROVE  coming[i].code \in AnswersTo(more[AnswerNumber(coming, i)])
  <2>1. AnswerNumber(coming, i) \in 1 .. n
    BY <1>1, <1>7, CountBounds DEF n
  <2>2. AnswerNumber(coming, i) \in 1 .. Len(asked)
    BY <1>2, <1>6, <2>1
  <2> QED BY <1>4, <1>7, <2>2 DEF AnswersFit
<1>8. ASSUME NEW j \in 1 .. Len(last)
      PROVE  last[j].code = more[n + j]
  <2>1. CASE j \in 1 .. Len(waiting)
    <3>1. n + j \in 1 .. Len(asked)
      BY <1>2, <1>6, <2>1
    <3>2. waiting[j].code = asked[n + j]
      BY <2>1 DEF AnswersFit, n
    <3> QED BY <1>4, <1>5, <2>1, <3>1, <3>2
  <2>2. CASE j = Len(waiting) + 1
    <3>1. n + j = Len(asked) + 1
      BY <1>2, <1>6, <2>2
    <3> QED BY <1>4, <1>5, <2>2, <3>1
  <2> QED BY <1>5, <1>6, <2>1, <2>2
<1>9. Len(more) = n + Len(last)
  BY <1>2, <1>4, <1>5, <1>6
<1> QED BY <1>7, <1>8, <1>9 DEF AnswersFit, more, last, n

\* A command executed: its answer, behind all others, is to the oldest that waited.
LEMMA FitAnswered ==
  ASSUME NEW coming, IsSequence(coming), NEW asked \in Seq(RequestCodes),
         NEW waiting \in Seq(Requests), waiting # <<>>, AnswersFit(coming, asked, waiting),
         NEW packet, IsAnswer(packet), packet.code \in AnswersTo(Head(waiting).code)
  PROVE  AnswersFit(Append(coming, packet), asked, Tail(waiting))
<1> DEFINE more == Append(coming, packet)
           rest == Tail(waiting)
           len == Len(coming)
           n == AnswerNumber(coming, len)
<1>1. PICK S : coming \in Seq(S)
  BY DEF IsSequence
<1>2. coming \in Seq(S \cup {packet})
  BY <1>1
<1>3. /\ len \in Nat /\ Len(more) = len + 1 /\ more[len + 1] = packet
      /\ \A i \in 1 .. len : more[i] = coming[i]
  BY <1>2, AppendProperties
<1>4. /\ Len(rest) \in Nat /\ Len(waiting) = Len(rest) + 1 /\ waiting[1] = Head(waiting)
      /\ \A i \in 1 .. Len(rest) : rest[i] = waiting[i + 1]
  BY HeadTailProperties
<1>5. n \in Nat
  BY <1>3, CountIsNat
<1> HIDE DEF more, rest, len
<1>6. \A i \in 1 .. len : AnswerNumber(more, i) = AnswerNumber(coming, i)
  BY <1>3, CountOfPrefix
<1>7. AnswerNumber(more, len + 1) = n + 1
  <2>1. AnswerNumber(more, len) = n
    BY <1>3, CountOfPrefix
  <2>2. IsAnswer(more[len + 1])
    BY <1>3
  <2> QED BY <1>3, <2>1, <2>2, CountNext
<1> HIDE DEF n
<1>8. Len(asked) = (n + 1) + Len(rest)
  BY <1>4, <1>5 DEF AnswersFit, n, len
<1>9. ASSUME NEW i \in 1 .. len + 1, IsAnswer(more[i])
      PROVE  more[i].code \in AnswersTo(asked[AnswerNumber(more, i)])
  <2>1. CASE i \in 1 .. len
    BY <1>3, <1>6, <1>9, <2>1 DEF AnswersFit, len
  <2>2. CASE i = len + 1
    <3>1. waiting[1].code = asked[n + 1]
      BY <1>4 DEF AnswersFit, n, len
    <3> QED BY <1>3, <1>4, <1>7, <2>2, <3>1
  <2> QED BY <1>3, <2>1, <2>2
<1>10. ASSUME NEW j \in 1 .. Len(rest)
       PROVE  rest[j].code = asked[(n + 1) + j]
  <2>1. j + 1 \in 1 .. Len(waiting) /\ n + (j + 1) = (n + 1) + j
    BY <1>4, <1>5
  <2>2. waiting[j + 1].code = asked[n + (j + 1)]
    BY <2>1 DEF AnswersFit, n, len
  <2> QED BY <1>4, <2>1, <2>2
<1>11. AnswersFit(more, asked, rest)
  BY <1>3, <1>7, <1>8, <1>9, <1>10 DEF AnswersFit
<1> QED BY <1>11 DEF more, rest

\* An event among the answers changes none of their numbers.
LEMMA FitTold ==
  ASSUME NEW coming, IsSequence(coming), NEW asked, NEW waiting,
         AnswersFit(coming, asked, waiting), NEW packet, ~IsAnswer(packet)
  PROVE  AnswersFit(Append(coming, packet), asked, waiting)
<1> DEFINE more == Append(coming, packet)
           len == Len(coming)
<1>1. PICK S : coming \in Seq(S)
  BY DEF IsSequence
<1>2. coming \in Seq(S \cup {packet})
  BY <1>1
<1>3. /\ len \in Nat /\ Len(more) = len + 1 /\ more[len + 1] = packet
      /\ \A i \in 1 .. len : more[i] = coming[i]
  BY <1>2, AppendProperties
<1> HIDE DEF more, len
<1>4. \A i \in 1 .. len : AnswerNumber(more, i) = AnswerNumber(coming, i)
  BY <1>3, CountOfPrefix
<1>5. AnswerNumber(more, len + 1) = AnswerNumber(coming, len)
  <2>1. AnswerNumber(more, len) = AnswerNumber(coming, len)
    BY <1>3, CountOfPrefix
  <2>2. ~IsAnswer(more[len + 1])
    BY <1>3
  <2> QED BY <1>3, <2>1, <2>2, CountNext
<1>6. ASSUME NEW i \in 1 .. len + 1, IsAnswer(more[i])
      PROVE  more[i].code \in AnswersTo(asked[AnswerNumber(more, i)])
  <2>1. i \in 1 .. len
    BY <1>3, <1>6
  <2> QED BY <1>3, <1>4, <1>6, <2>1 DEF AnswersFit, len
<1>7. AnswersFit(more, asked, waiting)
  BY <1>3, <1>5, <1>6 DEF AnswersFit, len
<1> QED BY <1>7 DEF more

\* The packet in front, once shown, is the answer to the oldest command, or an event.
LEMMA FitShown ==
  ASSUME NEW coming, IsSequence(coming), coming # <<>>, NEW asked \in Seq(RequestCodes),
         NEW waiting \in Seq(Requests), AnswersFit(coming, asked, waiting)
  PROVE  /\ AnswersFit(Tail(coming), IF IsAnswer(Head(coming)) THEN Tail(asked) ELSE asked, waiting)
         /\ IsAnswer(Head(coming)) => asked # <<>>
<1> DEFINE rest == Tail(coming)
           len == Len(rest)
           n == AnswerNumber(rest, len)
<1>1. PICK S : coming \in Seq(S)
  BY DEF IsSequence
<1>2. /\ len \in Nat /\ Len(coming) = len + 1 /\ coming[1] = Head(coming)
      /\ \A i \in 1 .. len : rest[i] = coming[i + 1]
  BY <1>1, HeadTailProperties
<1>3. n \in Nat
  BY <1>2, CountIsNat
<1>4. \A i \in 0 .. len :
        AnswerNumber(coming, i + 1) = IF IsAnswer(coming[1]) THEN AnswerNumber(rest, i) + 1
                                      ELSE AnswerNumber(rest, i)
  <2> SUFFICES ASSUME NEW i \in 0 .. len
               PROVE  AnswerNumber(coming, i + 1) =
                        IF IsAnswer(coming[1]) THEN AnswerNumber(rest, i) + 1
                        ELSE AnswerNumber(rest, i)
    OBVIOUS
  <2> HIDE DEF rest, len
  <2>1. i \in Nat /\ \A j \in 1 .. i : rest[j] = coming[j + 1]
    BY <1>2
  <2> QED BY <2>1, CountOfTail, Zenon
<1> HIDE DEF rest, len
<1>5. ASSUME NEW i \in 1 .. len, IsAnswer(rest[i])
      PROVE  /\ AnswerNumber(rest, i) \in 1 .. n
             /\ coming[i + 1].code = rest[i].code
             /\ rest[i].code \in AnswersTo(asked[AnswerNumber(coming, i + 1)])
  <2>1. AnswerNumber(rest, i) \in 1 .. n
    BY <1>2, <1>5, CountBounds
  <2>2. i + 1 \in 1 .. Len(coming) /\ rest[i] = coming[i + 1]
    BY <1>2
  <2> QED BY <1>5, <2>1, <2>2 DEF AnswersFit
<1>6. CASE ~IsAnswer(Head(coming))
  <2>1. \A i \in 1 .. len : AnswerNumber(coming, i + 1) = AnswerNumber(rest, i)
    BY <1>2, <1>4, <1>6
  <2>2. AnswerNumber(coming, Len(coming)) = n
    BY <1>2, <1>4, <1>6
  <2>3. ASSUME NEW i \in 1 .. len, IsAnswer(rest[i])
        PROVE  rest[i].code \in AnswersTo(asked[AnswerNumber(rest, i)])
    BY <1>5, <2>1, <2>3
  <2>4. AnswersFit(rest, asked, waiting)
    BY <2>2, <2>3 DEF AnswersFit, len
  <2> QED BY <1>6, <2>4 DEF rest
<1>7. CASE IsAnswer(Head(coming))
  <2> DEFINE left == Tail(asked)
  <2>1. \A i \in 1 .. len : AnswerNumber(coming, i + 1) = AnswerNumber(rest, i) + 1
    BY <1>2, <1>4, <1>7
  <2>2. AnswerNumber(coming, Len(coming)) = n + 1
    BY <1>2, <1>4, <1>7
  <2>3. Len(asked) = (n + 1) + Len(waiting) /\ Len(waiting) \in Nat
    BY <2>2 DEF AnswersFit
  <2>4. asked # <<>>
    BY <1>3, <2>3
  <2>5. /\ Len(left) \in Nat /\ Len(asked) = Len(left) + 1
        /\ \A i \in 1 .. Len(left) : left[i] = asked[i + 1]
    BY <2>4, HeadTailProperties
  <2>6. Len(left) = n + Len(waiting)
    BY <1>3, <2>3, <2>5
  <2> HIDE DEF left
  <2>7. ASSUME NEW i \in 1 .. len, IsAnswer(rest[i])
        PROVE  rest[i].code \in AnswersTo(left[AnswerNumber(rest, i)])
    <3>1. AnswerNumber(rest, i) \in 1 .. Len(left)
      BY <1>3, <1>5, <2>3, <2>6, <2>7
    <3> QED BY <1>5, <2>1, <2>5, <2>7, <3>1
  <2>8. ASSUME NEW j \in 1 .. Len(waiting)
        PROVE  waiting[j].code = left[n + j]
    <3>1. n + j \in 1 .. Len(left) /\ (n + j) + 1 = (n + 1) + j
      BY <1>3, <2>3, <2>6
    <3>2. waiting[j].code = asked[(n + 1) + j]
      BY <2>2 DEF AnswersFit
    <3> QED BY <2>5, <3>1, <3>2
  <2>9. AnswersFit(rest, left, waiting)
    BY <2>6, <2>7, <2>8 DEF AnswersFit, len
  <2> QED BY <1>7, <2>4, <2>9 DEF rest, left
<1> QED BY <1>6, <1>7

\* AnswersInOrder, with the commands the server has not executed yet.
AnswerInv ==
  /\ awaiting \in [Fds -> Seq(RequestCodes)]
  /\ \A fd \in clients : AnswersFit(send_buffer[fd], awaiting[fd], to_server[fd])

LEMMA AnswerInit == SystemInit => AnswerInv
BY DEF SystemInit, ServerInit, ClientInit, AnswerInv

\* Who is told of a command hears an event behind what was coming, or nothing.
LEMMA ToldFits ==
  ASSUME NEW buffers, Buffers(buffers), NEW fd, NEW g \in Fds, NEW asked, NEW waiting,
         AnswersFit(buffers[g], asked, waiting),
         result'.fds = {} \/ result'.push.code \in EventCodes
  PROVE  AnswersFit(Pushes(buffers, fd)[g], asked, waiting)
<1>1. CASE Pushes(buffers, fd)[g] = buffers[g]
  BY <1>1
<1>2. CASE /\ Pushes(buffers, fd)[g] = Append(buffers[g], result'.push)
           /\ g \in result'.fds
  BY <1>2, FitTold DEF IsAnswer, Buffers
<1> QED BY <1>1, <1>2 DEF Pushes, Queued

\* One command executed: its answer for the caller, its event for the others.
LEMMA AnswersDispatched ==
  ASSUME TypeOK, SessionsAgree, ContextResolves, ClientTypes, ClosedInv, Buffers(send_buffer),
         AnswerInv, NEW fd \in Fds, Dispatch(fd), NEW g \in clients
  PROVE  AnswersFit(send_buffer'[g], awaiting[g], to_server'[g])
<1> DEFINE answered == Queued(send_buffer, {fd}, result'.response)
           r == Head(to_server[fd])
<1>1. /\ fd \in clients /\ r \in Requests /\ Execute(fd, r)
      /\ to_server[fd] \in Seq(Requests) /\ to_server[fd] # <<>>
      /\ to_server' = [to_server EXCEPT ![fd] = Tail(@)]
      /\ send_buffer' = Pushes(answered, fd)
  BY DEF Dispatch, ClientTypes, _send_result
<1>2. g \in Fds /\ Next
  BY <1>1, ExecuteIsCommand DEF ClosedInv, Next
<1>3. result'.fds = {} \/ result'.push.code \in EventCodes
  BY <1>2, PushesAreEvents
<1>4. AnswersFit(answered[g], awaiting[g], to_server'[g])
  <2>1. AnswersFit(send_buffer[g], awaiting[g], to_server[g])
    BY DEF AnswerInv
  <2>2. CASE g = fd
    <3>1. answered[g] = Append(send_buffer[g], result'.response)
      BY <1>1, <2>2 DEF Queued
    <3>2. to_server'[g] = Tail(to_server[g])
      BY <1>1, <2>2 DEF ClientTypes
    <3>3. result'.response.code \in AnswersTo(r.code)
      BY <1>1, AnsweredAsAsked
    <3>4. IsAnswer(result'.response)
      BY <1>1, <3>3, AnswersAreAnswers DEF IsAnswer
    <3>5. IsSequence(send_buffer[g]) /\ awaiting[g] \in Seq(RequestCodes)
      BY <1>2 DEF Buffers, AnswerInv
    <3> HIDE DEF answered
    <3> QED BY <1>1, <2>1, <2>2, <3>1, <3>2, <3>3, <3>4, <3>5, FitAnswered
  <2>3. CASE g # fd
    <3>1. answered[g] = send_buffer[g] /\ to_server'[g] = to_server[g]
      BY <1>1, <1>2, <2>3 DEF Queued, ClientTypes
    <3> QED BY <2>1, <3>1
  <2> QED BY <2>2, <2>3
<1>5. Buffers(answered)
  BY QueuedBuffers
<1> HIDE DEF answered
<1> QED BY <1>1, <1>2, <1>3, <1>4, <1>5, ToldFits

\* Every step: connections come and go, lines are typed, executed and shown.
LEMMA AnswerStepKept ==
  ASSUME TypeOK, SessionsAgree, ContextResolves, ClientTypes, ClosedInv, Buffers(send_buffer),
         AnswerInv, [SystemNext]_systemVars
  PROVE  AnswerInv'
<1>0. clients \subseteq Fds /\ awaiting \in [Fds -> Seq(RequestCodes)]
      /\ to_server \in [Fds -> Seq(Requests)]
  BY DEF ClosedInv, AnswerInv, ClientTypes
<1>1. ASSUME NEW fd \in Fds, Arrive(fd)
      PROVE  AnswerInv'
  <2>1. /\ clients' = clients \cup {fd} /\ fd \notin clients
        /\ send_buffer' = [send_buffer EXCEPT ![fd] = <<>>]
        /\ awaiting' = [awaiting EXCEPT ![fd] = <<>>]
        /\ to_server' = [to_server EXCEPT ![fd] = <<>>]
    BY <1>1 DEF Arrive, Connected, _handle_new_connection
  <2>2. awaiting' \in [Fds -> Seq(RequestCodes)]
    BY <1>0, <2>1
  <2>3. ASSUME NEW g \in clients'
        PROVE  AnswersFit(send_buffer'[g], awaiting'[g], to_server'[g])
    <3>1. CASE g = fd
      <4>1. send_buffer'[g] = <<>> /\ awaiting'[g] = <<>> /\ to_server'[g] = <<>>
        BY <1>0, <2>1, <3>1 DEF Buffers
      <4>2. AnswersFit(<<>>, <<>>, <<>>)
        BY CountOfNone DEF AnswersFit
      <4> QED BY <4>1, <4>2
    <3>2. CASE g # fd
      <4>1. /\ g \in clients /\ g \in Fds /\ send_buffer'[g] = send_buffer[g]
            /\ awaiting'[g] = awaiting[g] /\ to_server'[g] = to_server[g]
        BY <1>0, <2>1, <2>3, <3>2 DEF Buffers
      <4> QED BY <4>1 DEF AnswerInv
    <3> QED BY <3>1, <3>2
  <2> QED BY <2>2, <2>3 DEF AnswerInv
<1>2. ASSUME NEW fd \in Fds, Type(fd)
      PROVE  AnswerInv'
  <2>1. PICK r \in Requests :
          /\ to_server' = [to_server EXCEPT ![fd] = Append(@, r)]
          /\ awaiting' = [awaiting EXCEPT ![fd] = Append(@, r.code)]
    BY <1>2, TypedRequest DEF Type
  <2>2. clients' = clients /\ send_buffer' = send_buffer
    BY <1>2 DEF Type, serverVars
  <2>3. r.code \in RequestCodes
    BY DEF RequestCodes
  <2>4. awaiting' \in [Fds -> Seq(RequestCodes)]
    BY <1>0, <2>1, <2>3
  <2>5. ASSUME NEW g \in clients
        PROVE  AnswersFit(send_buffer[g], awaiting'[g], to_server'[g])
    <3>1. AnswersFit(send_buffer[g], awaiting[g], to_server[g])
      BY DEF AnswerInv
    <3>2. IsSequence(send_buffer[g])
      BY <1>0 DEF Buffers
    <3>3. CASE g = fd
      <4>1. awaiting'[g] = Append(awaiting[g], r.code) /\ to_server'[g] = Append(to_server[g], r)
        BY <1>0, <2>1, <3>3
      <4> QED BY <1>0, <3>1, <3>2, <4>1, FitTyped
    <3>4. CASE g # fd
      BY <1>0, <2>1, <3>1, <3>4
    <3> QED BY <3>3, <3>4
  <2> QED BY <2>2, <2>4, <2>5 DEF AnswerInv
<1>3. ASSUME NEW fd \in Fds, Dispatch(fd)
      PROVE  AnswerInv'
  <2>1. awaiting' = awaiting /\ clients' = clients
    BY <1>3 DEF Dispatch
  <2>2. ASSUME NEW g \in clients
        PROVE  AnswersFit(send_buffer'[g], awaiting[g], to_server'[g])
    BY <1>3, AnswersDispatched
  <2> QED BY <1>0, <2>1, <2>2 DEF AnswerInv
<1>4. ASSUME NEW fd \in Fds, Show(fd)
      PROVE  AnswerInv'
  <2> DEFINE coming == send_buffer[fd]
             left == IF IsAnswer(Head(coming)) THEN Tail(awaiting[fd]) ELSE awaiting[fd]
  <2>1. /\ fd \in clients /\ clients' = clients /\ to_server' = to_server
        /\ coming # <<>> /\ IsSequence(coming)
        /\ send_buffer' = [send_buffer EXCEPT ![fd] = Tail(coming)]
        /\ awaiting' = IF IsAnswer(Head(coming)) THEN [awaiting EXCEPT ![fd] = Tail(@)] ELSE awaiting
    BY <1>4 DEF Show, _handle_response, Buffers
  <2>2. /\ AnswersFit(Tail(coming), left, to_server[fd])
        /\ IsAnswer(Head(coming)) => awaiting[fd] # <<>>
    <3>1. AnswersFit(coming, awaiting[fd], to_server[fd])
      BY <2>1 DEF AnswerInv
    <3> QED BY <1>0, <2>1, <3>1, FitShown
  <2>3. awaiting' = [awaiting EXCEPT ![fd] = left]
    BY <1>0, <2>1
  <2>4. left \in Seq(RequestCodes)
    BY <1>0, <2>2
  <2>5. awaiting' \in [Fds -> Seq(RequestCodes)]
    BY <1>0, <2>3, <2>4
  <2>6. ASSUME NEW g \in clients
        PROVE  AnswersFit(send_buffer'[g], awaiting'[g], to_server[g])
    <3>1. CASE g = fd
      <4>1. send_buffer'[g] = Tail(coming) /\ awaiting'[g] = left
        BY <1>0, <2>1, <2>3, <3>1 DEF Buffers
      <4> HIDE DEF left, coming
      <4> QED BY <2>2, <3>1, <4>1
    <3>2. CASE g # fd
      <4>1. send_buffer'[g] = send_buffer[g] /\ awaiting'[g] = awaiting[g]
        BY <1>0, <2>1, <2>3, <3>2 DEF Buffers
      <4> QED BY <4>1 DEF AnswerInv
    <3> QED BY <3>1, <3>2
  <2> QED BY <2>1, <2>5, <2>6 DEF AnswerInv
<1>5. ASSUME NEW fd \in Fds, Lose(fd)
      PROVE  AnswerInv'
  <2>1. /\ awaiting' = awaiting /\ to_server' = to_server
        /\ clients' = clients \ {fd} /\ LogoutLost(fd)
    BY <1>5 DEF Lose, clientVars, _handle_client_disconnect
  <2>2. ASSUME NEW g \in clients', g \in Fds
        PROVE  AnswersFit(send_buffer'[g], awaiting[g], to_server[g])
    <3>1. g # fd /\ AnswersFit(send_buffer[g], awaiting[g], to_server[g])
      BY <2>1, <2>2 DEF AnswerInv
    <3>2. CASE is_logged_in(fd)
      <4>1. handle_logout(fd) /\ send_buffer' = [Pushes(send_buffer, fd) EXCEPT ![fd] = <<>>]
        BY <2>1, <3>2 DEF LogoutLost
      <4>2. result'.fds = {} \/ result'.push.code \in EventCodes
        BY <4>1 DEF handle_logout, Respond, RespondAndPush, Packet, EventCodes
      <4>3. AnswersFit(Pushes(send_buffer, fd)[g], awaiting[g], to_server[g])
        BY <2>2, <3>1, <4>2, ToldFits
      <4>4. send_buffer'[g] = Pushes(send_buffer, fd)[g]
        BY <2>2, <3>1, <4>1 DEF Pushes, Queued
      <4> QED BY <4>3, <4>4
    <3>3. CASE ~is_logged_in(fd)
      BY <2>1, <2>2, <3>1, <3>3 DEF LogoutLost, Buffers
    <3> QED BY <3>2, <3>3
  <2> QED BY <1>0, <2>1, <2>2 DEF AnswerInv
<1>6. ASSUME NEW fd \in Fds, Leave(fd)
      PROVE  AnswerInv'
  BY <1>6 DEF Leave, Exit, serverVars, AnswerInv
<1>7. CASE UNCHANGED systemVars
  BY <1>7 DEF systemVars, clientVars, serverVars, AnswerInv
<1> QED BY <1>1, <1>2, <1>3, <1>4, <1>5, <1>6, <1>7 DEF SystemNext

\* Whatever a client asks and however the answers are mixed with events: what it shows
\* next is the answer to the oldest command it has no answer to, or an event
\* (_send_result answers every command, _handle_response counts on it).
THEOREM AnswersStayInOrder == SystemSpec => []AnswersInOrder
<1> DEFINE Buffered == Buffers(send_buffer)
<1>1. SystemInit => ClientTypes /\ Buffered /\ AnswerInv
  BY ClientTypesInit, BuffersInit, AnswerInit DEF SystemInit
<1>2. ClientTypes /\ [SystemNext]_systemVars => ClientTypes'
  BY ClientTypesStep
<1>3. ClientTypes /\ Buffered /\ [SystemNext]_systemVars => Buffered'
  BY SystemStep, BuffersStep
<1>4. TypeOK /\ SessionsAgree /\ ContextResolves /\ ClosedInv /\ ClientTypes /\ Buffered
      /\ AnswerInv /\ [SystemNext]_systemVars
      => AnswerInv'
  BY AnswerStepKept
<1>5. AnswerInv => AnswersInOrder
  BY DEF AnswerInv, AnswersFit, AnswersInOrder
<1>6. SystemSpec => [](SessionsAgree /\ ContextResolves)
  BY SystemImplementsServer, ServerImplementsBusiness, SessionsAlwaysAgree, ContextsAlwaysResolve, PTL
<1> HIDE DEF Buffered
<1> QED BY <1>1, <1>2, <1>3, <1>4, <1>5, <1>6, SystemIsTyped, PTL DEF SystemSpec

===============================================================================
