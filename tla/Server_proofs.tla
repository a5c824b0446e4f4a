--------------------------- MODULE Server_proofs ----------------------------
(***************************************************************************)
(* The server loop adds nothing to what the handlers do, so that all that  *)
(* is proved of Business holds of it; and a connection that ends leaves    *)
(* nothing to the next one on its descriptor.                              *)
(***************************************************************************)
EXTENDS Server, Business_proofs

\* What the server does to the data is what a command handler does, or nothing.
LEMMA ServerStepIsNext ==
  ASSUME ServerNext
  PROVE  \E fd \in Fds : Command(fd) \/ (is_logged_in(fd) /\ handle_logout(fd)) \/ UNCHANGED vars
BY DEF ServerNext, _handle_new_connection, _dispatch, _handle_client_write,
       _handle_client_disconnect, LogoutLost

\* So a step of the server is one of Business, or changes none of its variables.
LEMMA ServerStep == [ServerNext]_serverVars => [Next]_vars
<1> SUFFICES ASSUME [ServerNext]_serverVars PROVE [Next]_vars
  OBVIOUS
<1>1. CASE ServerNext
  <2>1. PICK fd \in Fds :
          Command(fd) \/ (is_logged_in(fd) /\ handle_logout(fd)) \/ UNCHANGED vars
    BY <1>1, ServerStepIsNext
  <2>2. is_logged_in(fd) /\ handle_logout(fd) => Command(fd)
    BY DEF Command, AccountCommand
  <2> QED BY <2>1, <2>2 DEF Next
<1>2. CASE UNCHANGED serverVars
  BY <1>2 DEF serverVars
<1> QED BY <1>1, <1>2

\* Connections, buffers and disconnects only choose which handlers run
\* (Server::_dispatch, _handle_client_disconnect): every behaviour of the
\* server is one of Business, with all that is proved of those.
THEOREM ServerImplementsBusiness == ServerSpec => Spec
<1>1. ServerInit => Init
  BY DEF ServerInit
<1> QED BY <1>1, ServerStep, PTL DEF ServerSpec, Spec

-----------------------------------------------------------------------------
(* ClosedLeavesNothing *)

\* Only a descriptor with a session has a context.
ContextNeedsSession == \A fd \in Fds : ~is_logged_in(fd) => client_contexts[fd] = NoContext

\* No command gives a context to a descriptor without a session, or leaves one.
LEMMA ContextNeedsSessionStep ==
  ASSUME TypeOK, ContextNeedsSession, [Next]_vars
  PROVE  ContextNeedsSession'
<1> USE DEF TypeOK, ContextNeedsSession, is_logged_in
<1>1. CASE UNCHANGED <<sessions, client_contexts>>
  BY <1>1
<1>2. CASE LoginStep
  <2>1. PICK fd \in Fds, u \in UserIds :
          /\ sessions' = [sessions EXCEPT ![fd] = u]
          /\ client_contexts' = [client_contexts EXCEPT ![fd] = RootContext]
    BY <1>2, LoginStepWays DEF LoginAs
  <2> QED BY <2>1, NoneIsFresh
<1>3. CASE LogoutStep
  BY <1>3 DEF LogoutStep, handle_logout
<1>4. CASE UseStep
  BY <1>4 DEF UseStep, SelectContext, accountVars
<1>5. CASE UNCHANGED vars \/ AnswerStep
  BY <1>1, <1>5 DEF vars, dataVars, accountVars, AnswerStep
<1>6. CASE SendStep \/ SubscribeStep \/ UnsubscribeStep
  BY <1>1, <1>6 DEF SendStep, StoreMessage, SubscribeStep, Subscribe, UnsubscribeStep, Unsubscribe,
     accountVars
<1>7. CASE TeamStep \/ ChannelStep \/ ThreadStep \/ ReplyStep
  BY <1>1, <1>7 DEF TeamStep, ChannelStep, ThreadStep, ReplyStep, CreateTeam, CreateChannel,
     CreateThread, CreateReply, accountVars
<1> QED BY <1>2, <1>3, <1>4, <1>5, <1>6, <1>7, NextCases

\* The session and the context of a descriptor, as clean as a new one's.
Clean(fd) == ~is_logged_in(fd) /\ client_contexts[fd] = NoContext

\* A command is answered on the descriptor it came from, and touches no other
\* descriptor's session or context.
LEMMA CommandIsLocal ==
  ASSUME TypeOK, NEW fd \in Fds, Command(fd)
  PROVE  /\ result'.to = fd
         /\ \A other \in Fds \ {fd} :
              /\ sessions'[other] = sessions[other]
              /\ client_contexts'[other] = client_contexts[other]
<1> USE DEF TypeOK, Respond, RespondAndPush, accountVars, dataVars
<1> DEFINE Local == /\ result'.to = fd
                    /\ \A other \in Fds \ {fd} :
                         /\ sessions'[other] = sessions[other]
                         /\ client_contexts'[other] = client_contexts[other]
<1>1. \A packet : Answer(fd, packet) => Local
  BY DEF Answer
<1>2. \A error : Refused(fd, error) => Local
  BY <1>1 DEF Refused
<1>3. CASE Unauthorized(fd) \/ InvalidCommand(fd)
  BY <1>3, <1>1, <1>2 DEF Unauthorized, InvalidCommand
<1>4. CASE AccountCommand(fd)
  <2>1. ASSUME NEW name \in Names \cup LongNames, handle_login(fd, name)
        PROVE  Local
    <3>1. PICK u \in UserIds, stored \in Names : LoginAs(fd, u, stored)
      BY <2>1, LoginWays
    <3>2. result'.to = fd
      BY <3>1 DEF LoginAs
    <3>3. /\ sessions' = [sessions EXCEPT ![fd] = u]
          /\ client_contexts' = [client_contexts EXCEPT ![fd] = RootContext]
      BY <3>1 DEF LoginAs
    <3> QED BY <3>2, <3>3
  <2>2. CASE handle_logout(fd)
    BY <2>2 DEF handle_logout
  <2>3. CASE handle_users(fd)
    BY <2>3, <1>1 DEF handle_users
  <2>4. ASSUME NEW u \in UserIds \cup {None}, handle_user(fd, u) \/ handle_messages(fd, u)
        PROVE  Local
    BY <2>4, <1>1 DEF handle_user, handle_messages
  <2>5. ASSUME NEW u \in UserIds \cup {None}, NEW body \in Bodies, handle_send(fd, u, body)
        PROVE  Local
    BY <2>5, <1>2 DEF handle_send, StoreMessage
  <2> QED BY <1>4, <2>1, <2>2, <2>3, <2>4, <2>5 DEF AccountCommand
<1>5. CASE WorkspaceCommand(fd)
  <2>1. ASSUME NEW t \in TeamIds \cup {None},
               handle_subscribe(fd, t) \/ handle_unsubscribe(fd, t) \/ handle_subscribed_users(fd, t)
        PROVE  Local
    BY <2>1, <1>1, <1>2
       DEF handle_subscribe, Subscribe, handle_unsubscribe, Unsubscribe, handle_subscribed_users
  <2>2. CASE handle_subscribed_teams(fd) \/ handle_list(fd) \/ handle_info(fd)
    BY <2>2, <1>1 DEF handle_subscribed_teams, handle_list, handle_info
  <2>3. ASSUME NEW ctx \in UseRequests, handle_use(fd, ctx)
        PROVE  Local
    BY <2>3, <1>2 DEF handle_use, SelectContext
  <2>4. ASSUME NEW name \in TeamNames \cup {None}, handle_create(fd, name)
        PROVE  Local
    <3>1. ASSUME CreateTeam(fd, name) PROVE Local
      BY <3>1 DEF CreateTeam
    <3>2. ASSUME CreateChannel(fd) PROVE Local
      BY <3>2 DEF CreateChannel
    <3>3. ASSUME CreateThread(fd) PROVE Local
      BY <3>3 DEF CreateThread
    <3>4. ASSUME CreateReply(fd) PROVE Local
      BY <3>4 DEF CreateReply
    <3> QED BY <2>4, <1>2, <3>1, <3>2, <3>3, <3>4 DEF handle_create
  <2> QED BY <1>5, <2>1, <2>2, <2>3, <2>4 DEF WorkspaceCommand
<1> QED BY <1>3, <1>4, <1>5 DEF Command

\* ClosedLeavesNothing, with the types and the contexts it needs to be inductive:
\* a connection that ends without a session has no logout to clear its context.
ClosedInv ==
  /\ ContextNeedsSession
  /\ clients \subseteq Fds
  /\ send_buffer = [fd \in Fds |-> send_buffer[fd]]
  /\ ClosedLeavesNothing

LEMMA ClosedInit == ServerInit => ClosedInv
BY DEF ServerInit, Init, ClosedInv, ClosedLeavesNothing, ContextNeedsSession, is_logged_in

LEMMA ClosedStep == TypeOK /\ ClosedInv /\ [ServerNext]_serverVars => ClosedInv'
<1> SUFFICES ASSUME TypeOK, ClosedInv, [ServerNext]_serverVars PROVE ClosedInv'
  OBVIOUS
<1> USE DEF ClosedInv, ClosedLeavesNothing
<1> [Next]_vars
  BY ServerStep
<1> ContextNeedsSession'
  BY ContextNeedsSessionStep
<1>1. ASSUME NEW fd \in Fds, _handle_new_connection(fd)
      PROVE  ClosedInv'
  BY <1>1 DEF _handle_new_connection, vars, dataVars, accountVars, is_logged_in
<1>2. ASSUME NEW fd \in Fds, _dispatch(fd)
      PROVE  ClosedInv'
  <2>1. clients' = clients /\ fd \in clients
    BY <1>2 DEF _dispatch
  <2>2. send_buffer' = [g \in Fds |-> send_buffer'[g]]
    BY <1>2 DEF _dispatch, _send_result, Pushes, Queued
  <2>3. ASSUME NEW g \in Fds \ clients
        PROVE  Clean(g)' /\ send_buffer'[g] = <<>>
    <3>1. sessions'[g] = sessions[g] /\ client_contexts'[g] = client_contexts[g]
      BY <1>2, <2>1, <2>3, CommandIsLocal DEF _dispatch
    <3>2. send_buffer'[g] = send_buffer[g]
      BY <1>2, <2>3 DEF _dispatch, _send_result, Pushes, Queued
    <3> QED BY <3>1, <3>2, <2>3 DEF Clean, is_logged_in
  <2> QED BY <2>1, <2>2, <2>3 DEF Clean
<1>3. ASSUME NEW fd \in Fds, _handle_client_write(fd)
      PROVE  ClosedInv'
  <2>1. PICK n \in 1 .. Len(send_buffer[fd]) :
          send_buffer' = [send_buffer EXCEPT ![fd] = SubSeq(@, n + 1, Len(@))]
    BY <1>3 DEF _handle_client_write
  <2>2. clients' = clients /\ UNCHANGED vars
    BY <1>3 DEF _handle_client_write
  <2>3. fd \in clients
    BY <2>1
  <2> QED BY <2>1, <2>2, <2>3 DEF vars, dataVars, accountVars, is_logged_in
<1>4. ASSUME NEW fd \in Fds, _handle_client_disconnect(fd)
      PROVE  ClosedInv'
  <2>1. clients' = clients \ {fd} /\ fd \in clients
    BY <1>4 DEF _handle_client_disconnect
  <2>2. LogoutLost(fd)
    BY <1>4 DEF _handle_client_disconnect
  <2>3. /\ send_buffer' = [g \in Fds |-> send_buffer'[g]]
        /\ send_buffer'[fd] = <<>>
        /\ \A g \in Fds \ clients : send_buffer'[g] = send_buffer[g]
    <3>1. CASE is_logged_in(fd)
      <4>1. send_buffer' = [Pushes(send_buffer, fd) EXCEPT ![fd] = <<>>]
        BY <2>2, <3>1 DEF LogoutLost
      <4> QED BY <2>1, <4>1 DEF Pushes, Queued
    <3>2. CASE ~is_logged_in(fd)
      <4>1. send_buffer' = [send_buffer EXCEPT ![fd] = <<>>]
        BY <2>2, <3>2 DEF LogoutLost
      <4> QED BY <2>1, <4>1
    <3> QED BY <3>1, <3>2
  <2>4. \A g \in Fds \ clients' : Clean(g)'
    <3>1. CASE is_logged_in(fd)
      <4>1. /\ sessions' = [sessions EXCEPT ![fd] = None]
            /\ client_contexts' = [client_contexts EXCEPT ![fd] = NoContext]
        BY <2>2, <3>1 DEF LogoutLost, handle_logout
      <4> QED BY <2>1, <4>1 DEF TypeOK, Clean, is_logged_in
    <3>2. CASE ~is_logged_in(fd)
      <4>1. sessions' = sessions /\ client_contexts' = client_contexts
        BY <2>2, <3>2 DEF LogoutLost, vars, dataVars, accountVars
      <4>2. \A g \in Fds \ clients' : Clean(g)
        BY <2>1, <3>2 DEF Clean, ContextNeedsSession
      <4> QED BY <4>1, <4>2 DEF Clean, is_logged_in
    <3> QED BY <3>1, <3>2
  <2> QED BY <2>1, <2>3, <2>4 DEF Clean
<1>5. CASE UNCHANGED serverVars
  BY <1>5 DEF serverVars, vars, dataVars, accountVars, is_logged_in
<1> QED BY <1>1, <1>2, <1>3, <1>4, <1>5 DEF ServerNext

\* A connection that ends, at whatever point of serving it or the others, leaves
\* no session, context or bytes on its descriptor for the client accept() gives
\* it to next (_handle_client_disconnect).
THEOREM ClosedStaysClean == ServerSpec => []ClosedLeavesNothing
<1>1. TypeOK /\ ClosedInv /\ [ServerNext]_serverVars => ClosedInv'
  BY ClosedStep
<1>2. ServerSpec => []TypeOK
  BY ServerImplementsBusiness, TypeCorrect
<1>3. ClosedInv => ClosedLeavesNothing
  BY DEF ClosedInv
<1> QED BY <1>1, <1>2, <1>3, ClosedInit, PTL DEF ServerSpec

-----------------------------------------------------------------------------
(* LostConnectionAnnounced *)

IsSequence(s) == \E S : s \in Seq(S)

LEMMA AppendedLast ==
  ASSUME NEW s, IsSequence(s), NEW x
  PROVE  /\ IsSequence(Append(s, x)) /\ Len(s) \in Nat
         /\ Len(Append(s, x)) = Len(s) + 1
         /\ Append(s, x)[Len(s) + 1] = x
<1>1. PICK S : s \in Seq(S)
  BY DEF IsSequence
<1>2. s \in Seq(S \cup {x})
  BY <1>1
<1>3. Append(s, x) \in Seq(S \cup {x})
  BY <1>2
<1>4. IsSequence(Append(s, x))
  BY <1>3 DEF IsSequence
<1> QED BY <1>2, <1>4, AppendProperties

\* What is queued for each descriptor is a sequence.
Buffers(buffers) ==
  buffers = [fd \in Fds |-> buffers[fd]] /\ \A fd \in Fds : IsSequence(buffers[fd])

LEMMA QueuedBuffers ==
  ASSUME NEW buffers, Buffers(buffers), NEW fds, NEW packet
  PROVE  Buffers(Queued(buffers, fds, packet))
BY AppendedLast DEF Queued, Buffers

LEMMA PushedBuffers ==
  ASSUME NEW buffers, Buffers(buffers), NEW fd
  PROVE  Buffers(Pushes(buffers, fd))
BY QueuedBuffers DEF Pushes

LEMMA EmptiedBuffers ==
  ASSUME NEW buffers, Buffers(buffers), NEW fd
  PROVE  Buffers([buffers EXCEPT ![fd] = <<>>])
<1>1. <<>> \in Seq({})
  OBVIOUS
<1> QED BY <1>1 DEF Buffers, IsSequence

LEMMA BuffersInit == ServerInit => Buffers(send_buffer)
<1>1. <<>> \in Seq({})
  OBVIOUS
<1> QED BY <1>1 DEF ServerInit, Buffers, IsSequence

LEMMA BuffersStep == Buffers(send_buffer) /\ [ServerNext]_serverVars => Buffers(send_buffer')
<1> SUFFICES ASSUME Buffers(send_buffer), [ServerNext]_serverVars PROVE Buffers(send_buffer')
  OBVIOUS
<1>1. ASSUME NEW fd \in Fds, _handle_new_connection(fd)
      PROVE  Buffers(send_buffer')
  BY <1>1, EmptiedBuffers DEF _handle_new_connection
<1>2. ASSUME NEW fd \in Fds, _dispatch(fd)
      PROVE  Buffers(send_buffer')
  BY <1>2, QueuedBuffers, PushedBuffers DEF _dispatch, _send_result
<1>3. ASSUME NEW fd \in Fds, _handle_client_write(fd)
      PROVE  Buffers(send_buffer')
  <2>1. PICK n \in 1 .. Len(send_buffer[fd]) :
          send_buffer' = [send_buffer EXCEPT ![fd] = SubSeq(@, n + 1, Len(@))]
    BY <1>3 DEF _handle_client_write
  <2>2. PICK S : send_buffer[fd] \in Seq(S)
    BY DEF Buffers, IsSequence
  <2>3. SubSeq(send_buffer[fd], n + 1, Len(send_buffer[fd])) \in Seq(S)
    BY <2>2, SubSeqProperties
  <2> QED BY <2>1, <2>3 DEF Buffers, IsSequence
<1>4. ASSUME NEW fd \in Fds, _handle_client_disconnect(fd)
      PROVE  Buffers(send_buffer')
  BY <1>4, PushedBuffers, EmptiedBuffers DEF _handle_client_disconnect, LogoutLost
<1>5. CASE UNCHANGED serverVars
  BY <1>5 DEF serverVars
<1> QED BY <1>1, <1>2, <1>3, <1>4, <1>5 DEF ServerNext

\* The session of a connection that is lost ends as if its user had asked: the
\* others hear of it when, and only when, it was the user's last
\* (_handle_client_disconnect; RFC section 12, rule 4).
THEOREM LostConnectionsAnnounced == ServerSpec => LostConnectionAnnounced
<1> DEFINE Hears(g, u) ==
             /\ Len(send_buffer'[g]) = Len(send_buffer[g]) + 1
             /\ send_buffer'[g][Len(send_buffer'[g])].code = "EVT_USER_LOGGED_OUT"
             /\ send_buffer'[g][Len(send_buffer'[g])].payload[1] = u
<1>1. ASSUME TypeOK, ClosedInv, Buffers(send_buffer), ServerNext,
             NEW fd \in clients \ clients', NEW u \in UserIds, sessions[fd] = u,
             NEW g \in logged_fds'
      PROVE  Hears(g, u) <=> ~is_user_online(u)'
  <2> USE DEF TypeOK
  <2>1. fd \in Fds /\ g \in Fds /\ is_logged_in(fd)
    BY <1>1, NoneIsFresh DEF ClosedInv, logged_fds, is_logged_in
  <2>2. _handle_client_disconnect(fd)
    BY <1>1 DEF ServerNext, _handle_new_connection, _dispatch, _handle_client_write,
       _handle_client_disconnect
  <2>3. handle_logout(fd) /\ send_buffer' = [Pushes(send_buffer, fd) EXCEPT ![fd] = <<>>]
    BY <2>1, <2>2 DEF _handle_client_disconnect, LogoutLost
  <2>4. sessions' = [sessions EXCEPT ![fd] = None]
    BY <2>3 DEF handle_logout
  <2>5. g # fd /\ g \in logged_fds /\ g \in clients
    BY <1>1, <2>1, <2>4 DEF logged_fds, is_logged_in, ClosedInv, ClosedLeavesNothing
  <2>6. send_buffer'[g] = IF g \in result'.fds THEN Append(send_buffer[g], result'.push)
                          ELSE send_buffer[g]
    BY <2>1, <2>3, <2>5 DEF Pushes, Queued
  <2>7. is_user_online(u)' <=> still_online(fd)
    BY <1>1, <2>1, <2>4, NoneIsFresh DEF is_user_online, still_online
  <2>8. IsSequence(send_buffer[g])
    BY <1>1, <2>1 DEF Buffers
  <2>9. Len(send_buffer[g]) \in Nat
    BY <2>8, AppendedLast
  <2>10. CASE still_online(fd)
    <3>1. result'.fds = {}
      BY <2>3, <2>10 DEF handle_logout, Respond
    <3> QED BY <2>6, <2>7, <2>9, <2>10, <3>1
  <2>11. CASE ~still_online(fd)
    <3>1. /\ result'.fds = logged_fds
          /\ result'.push.code = "EVT_USER_LOGGED_OUT" /\ result'.push.payload[1] = u
      BY <1>1, <2>3, <2>11 DEF handle_logout, RespondAndPush, Packet
    <3>2. send_buffer'[g] = Append(send_buffer[g], result'.push)
      BY <2>5, <2>6, <3>1
    <3>3. Hears(g, u)
      BY <2>8, <2>9, <3>1, <3>2, AppendedLast
    <3> QED BY <2>7, <2>11, <3>3
  <2> QED BY <2>10, <2>11
<1>2. TypeOK /\ ClosedInv /\ Buffers(send_buffer) /\ [ServerNext]_serverVars =>
        [LossIsNews]_serverVars
  BY <1>1 DEF LossIsNews
<1>3. ServerSpec => []TypeOK
  BY ServerImplementsBusiness, TypeCorrect
<1>4. TypeOK /\ ClosedInv /\ [ServerNext]_serverVars => ClosedInv'
  BY ClosedStep
<1> DEFINE Buffered == Buffers(send_buffer)
<1>5. ServerInit => Buffered
  BY BuffersInit
<1>6. Buffered /\ [ServerNext]_serverVars => Buffered'
  BY BuffersStep
<1>7. TypeOK /\ ClosedInv /\ Buffered /\ [ServerNext]_serverVars => [LossIsNews]_serverVars
  BY <1>2
<1> HIDE DEF Buffered, Hears
<1> QED BY <1>3, <1>4, <1>5, <1>6, <1>7, ClosedInit, PTL
        DEF ServerSpec, LostConnectionAnnounced

-----------------------------------------------------------------------------
(* CreationsTold *)

\* The event about what was created is in the push of the step, for g.
PushedOn(g, code, about) ==
  g \in result'.fds \ {result'.to} /\ Pushed(code) /\ result'.push.payload[1] = about

\* What a handler pushes about the thing it creates, and for which descriptors.
LEMMA CreationsPushed ==
  ASSUME TypeOK, Next, NEW g \in Fds
  PROVE  /\ \A t \in TeamIds :
              PushedOn(g, "EVT_TEAM_CREATED", t) <=> teams'[t] # teams[t] /\ g \in Others
         /\ \A c \in ChannelIds :
              PushedOn(g, "EVT_CHANNEL_CREATED", c)
                <=> channels'[c] # channels[c] /\ g \in Subscribed(channels'[c])
         /\ \A th \in ThreadIds :
              /\ PushedOn(g, "EVT_THREAD_CREATED", th)
                   <=> threads'[th] # threads[th] /\ g \in Subscribed(ThreadTeam(th)')
              /\ PushedOn(g, "EVT_REPLY_CREATED", th)
                   <=> replies'[th] # replies[th] /\ g \in Subscribed(ThreadTeam(th)')
<1> USE DEF TypeOK
<1> USE DEF Subscribed, Others, team_member_fds
<1>2. CASE TeamStep
  <2>1. PICK fd \in Fds, name \in TeamNames : CanCreate(fd, name) /\ CreateTeam(fd, name)
    BY <1>2 DEF TeamStep
  <2>2. PICK t \in TeamIds :
          /\ ~find_team_by_uuid(t)
          /\ teams' = [teams EXCEPT ![t] = name]
          /\ RespondAndPush(fd, "RES_TEAM_CREATED", <<t, name>>,
                            Packet("EVT_TEAM_CREATED", <<t, name>>), logged_fds)
          /\ UNCHANGED <<channels, threads, replies>>
    BY <2>1, Zenon DEF CreateTeam
  <2>3. teams[t] = None /\ name # None
    BY <2>2, NoneIsFresh DEF find_team_by_uuid
  <2>4. \A code, about :
          PushedOn(g, code, about)
            <=> g \in logged_fds /\ g # result'.to /\ code = "EVT_TEAM_CREATED" /\ about = t
    BY <2>2 DEF RespondAndPush, Packet, PushedOn, Pushed
  <2>5. \A s \in TeamIds : teams'[s] # teams[s] <=> s = t
    BY <2>2, <2>3
  <2> QED BY <2>2, <2>4, <2>5 DEF Others
<1>3. CASE ChannelStep
  <2>1. PICK fd \in Fds, name \in TeamNames : CanCreate(fd, name) /\ CreateChannel(fd)
    BY <1>3 DEF ChannelStep
  <2> DEFINE s == client_contexts[fd].team
  <2>2. PICK c \in ChannelIds :
          /\ client_contexts[fd].level = "USE_TEAM"
          /\ channels[c] = None
          /\ channels' = [channels EXCEPT ![c] = s]
          /\ RespondAndPush(fd, "RES_CHANNEL_CREATED", <<c>>,
                            Packet("EVT_CHANNEL_CREATED", <<c>>), team_member_fds(s))
          /\ UNCHANGED <<teams, threads, replies>>
    BY <2>1, Zenon DEF CreateChannel
  <2>3. s # None
    BY <2>1, <2>2, CreateAllowed, NoneIsFresh
  <2>4. \A code, about :
          PushedOn(g, code, about)
            <=> /\ g \in team_member_fds(s) /\ g # result'.to
                /\ code = "EVT_CHANNEL_CREATED" /\ about = c
    BY <2>2 DEF RespondAndPush, Packet, PushedOn, Pushed
  <2>5. /\ \A d \in ChannelIds : channels'[d] # channels[d] <=> d = c
        /\ channels'[c] = s
    BY <2>2, <2>3
  <2>6. \A d \in ChannelIds : d = c =>
          (g \in Subscribed(channels'[d]) <=> g \in team_member_fds(s) /\ g # result'.to)
    BY <2>5 DEF is_subscribed_to
  <2> HIDE DEF s
  <2> QED BY <2>2, <2>4, <2>5, <2>6
<1>4. CASE ThreadStep
  <2>1. PICK fd \in Fds, name \in TeamNames : CanCreate(fd, name) /\ CreateThread(fd)
    BY <1>4 DEF ThreadStep
  <2> DEFINE ctx == client_contexts[fd]
  <2>2. PICK th \in ThreadIds :
          /\ ctx.level = "USE_CHANNEL"
          /\ threads[th] = NoThread
          /\ threads' = [threads EXCEPT ![th] = [channel |-> ctx.channel, creator |-> sessions[fd]]]
          /\ RespondAndPush(fd, "RES_THREAD_CREATED", <<th, sessions[fd]>>,
                            Packet("EVT_THREAD_CREATED", <<th, sessions[fd]>>),
                            team_member_fds(ctx.team))
          /\ UNCHANGED <<teams, channels, replies>>
    BY <2>1, Zenon DEF CreateThread
  <2>3. ctx.channel \in ChannelIds /\ channels[ctx.channel] = ctx.team /\ ctx.channel # None
    BY <2>1, <2>2, CreateAllowed, NoneIsFresh DEF Resolves, find_channel_by_uuid
  <2>4. \A code, about :
          PushedOn(g, code, about)
            <=> /\ g \in team_member_fds(ctx.team) /\ g # result'.to
                /\ code = "EVT_THREAD_CREATED" /\ about = th
    BY <2>2 DEF RespondAndPush, Packet, PushedOn, Pushed
  <2>5. \A d \in ThreadIds : threads'[d] # threads[d] <=> d = th
    BY <2>2, <2>3 DEF NoThread
  <2>6. ThreadTeam(th)' = ctx.team
    BY <2>2, <2>3 DEF ThreadTeam
  <2> QED BY <2>2, <2>4, <2>5, <2>6
<1>5. CASE ReplyStep
  <2>1. PICK fd \in Fds, name \in TeamNames : CanCreate(fd, name) /\ CreateReply(fd)
    BY <1>5 DEF ReplyStep
  <2> DEFINE ctx == client_contexts[fd]
             th == client_contexts[fd].thread
  <2>2. /\ ctx.level = "USE_THREAD"
        /\ replies' = [replies EXCEPT ![th] = Append(@, sessions[fd])]
        /\ RespondAndPush(fd, "RES_REPLY_CREATED", <<th, sessions[fd]>>,
                          Packet("EVT_REPLY_CREATED", <<th, sessions[fd]>>),
                          team_member_fds(ctx.team))
        /\ UNCHANGED <<teams, channels, threads>>
    BY <2>1 DEF CreateReply, WithReply
  <2>3. th \in ThreadIds /\ channels[threads[th].channel] = ctx.team /\ sessions[fd] \in UserIds
    BY <2>1, <2>2, CreateAllowed DEF Resolves, find_channel_by_uuid, find_thread_by_uuid
  <2>4. \A code, about :
          PushedOn(g, code, about)
            <=> /\ g \in team_member_fds(ctx.team) /\ g # result'.to
                /\ code = "EVT_REPLY_CREATED" /\ about = th
    BY <2>2 DEF RespondAndPush, Packet, PushedOn, Pushed
  <2>5. \A d \in ThreadIds : replies'[d] # replies[d] <=> d = th
    <3>1. replies[th] \in Seq(UserIds)
      BY <2>3
    <3> HIDE DEF th
    <3>2. Append(replies[th], sessions[fd]) # replies[th]
      BY <2>3, <3>1, AppendProperties
    <3> QED BY <2>2, <2>3, <3>2
  <2>6. \A d \in ThreadIds : d = th => channels'[threads'[d].channel] = ctx.team
    BY <2>2, <2>3
  <2>7. \A d \in ThreadIds : d = th =>
          (g \in Subscribed(ThreadTeam(d)') <=> g \in team_member_fds(ctx.team) /\ g # result'.to)
    BY <2>6 DEF is_subscribed_to, ThreadTeam
  <2> HIDE DEF ctx, th
  <2> QED BY <2>2, <2>4, <2>5, <2>7
<1>6. CASE ~TeamStep /\ ~ChannelStep /\ ~ThreadStep /\ ~ReplyStep
  <2>1. UNCHANGED <<teams, channels, threads, replies>>
    BY <1>6, TreeChange
  <2>2. /\ ~Pushed("EVT_TEAM_CREATED") /\ ~Pushed("EVT_CHANNEL_CREATED")
        /\ ~Pushed("EVT_THREAD_CREATED") /\ ~Pushed("EVT_REPLY_CREATED")
    BY <1>6, Causes
  <2> QED BY <2>1, <2>2 DEF PushedOn
<1> QED BY <1>2, <1>3, <1>4, <1>5, <1>6

\* What a connection got is what was appended to its buffer.
LEMMA GotAppended ==
  ASSUME NEW g, IsSequence(send_buffer[g])
  PROVE  /\ send_buffer'[g] \in {send_buffer[g], <<>>} => Got(g) = {}
         /\ \A packet : send_buffer'[g] = Append(send_buffer[g], packet) => Got(g) = {packet}
<1>1. Len(send_buffer[g]) \in Nat /\ Len(<<>>) = 0
  BY AppendedLast
<1>2. send_buffer'[g] \in {send_buffer[g], <<>>} => Got(g) = {}
  BY <1>1 DEF Got
<1>3. ASSUME NEW packet, send_buffer'[g] = Append(send_buffer[g], packet)
      PROVE  Got(g) = {packet}
  <2>1. /\ Len(send_buffer'[g]) = Len(send_buffer[g]) + 1
        /\ send_buffer'[g][Len(send_buffer[g]) + 1] = packet
    BY <1>3, AppendedLast
  <2>2. Len(send_buffer[g]) + 1 .. Len(send_buffer'[g]) = {Len(send_buffer[g]) + 1}
    BY <1>1, <2>1
  <2> QED BY <2>1, <2>2 DEF Got
<1> QED BY <1>2, <1>3

CreationEvents == {"EVT_TEAM_CREATED", "EVT_CHANNEL_CREATED", "EVT_THREAD_CREATED", "EVT_REPLY_CREATED"}

\* Where nothing is created, nobody must hear of a creation.
LEMMA NothingCreated ==
  ASSUME UNCHANGED <<teams, channels, threads, replies>>, NEW g,
         \A packet \in Got(g) : packet.code \notin CreationEvents
  PROVE  IsToldOfCreations(g)
BY DEF IsToldOfCreations, IsTold, CreationEvents

\* Of what is created every connection that it is for is told, and no other one,
\* except that the connection whose command it was is only answered (handle_create,
\* _send_result; RFC section 13, rule 3).
THEOREM CreationsAreTold == ServerSpec => CreationsTold
<1>1. ASSUME TypeOK, ClosedInv, Buffers(send_buffer), ServerNext, NEW g \in Fds
      PROVE  IsToldOfCreations(g)
  <2> IsSequence(send_buffer[g]) /\ send_buffer = [h \in Fds |-> send_buffer[h]]
    BY <1>1 DEF Buffers
  <2>1. ASSUME NEW fd \in Fds, _handle_new_connection(fd) \/ _handle_client_write(fd)
        PROVE  IsToldOfCreations(g)
    <3>1. Got(g) = {}
      <4>1. CASE g # fd
        <5>1. send_buffer'[g] = send_buffer[g]
          BY <2>1, <4>1 DEF _handle_new_connection, _handle_client_write
        <5> QED BY <5>1, GotAppended
      <4>2. CASE g = fd /\ _handle_new_connection(fd)
        <5>1. send_buffer'[g] = <<>>
          BY <4>2 DEF _handle_new_connection
        <5> QED BY <5>1, GotAppended
      <4>3. CASE g = fd /\ _handle_client_write(fd)
        <5>1. PICK n \in 1 .. Len(send_buffer[g]) :
                send_buffer'[g] = SubSeq(send_buffer[g], n + 1, Len(send_buffer[g]))
          BY <4>3 DEF _handle_client_write
        <5>2. PICK S : send_buffer[g] \in Seq(S)
          BY DEF IsSequence
        <5>3. Len(send_buffer[g]) \in Nat /\ Len(send_buffer'[g]) <= Len(send_buffer[g])
          BY <5>1, <5>2, SubSeqProperties
        <5> QED BY <5>3 DEF Got
      <4> QED BY <2>1, <4>1, <4>2, <4>3
    <3>2. UNCHANGED vars
      BY <2>1 DEF _handle_new_connection, _handle_client_write
    <3> QED BY <3>1, <3>2, NothingCreated DEF vars, dataVars, treeVars
  <2>2. ASSUME NEW fd \in Fds, _dispatch(fd)
        PROVE  IsToldOfCreations(g)
    <3>1. fd \in clients /\ Command(fd) /\ Next /\ result'.to = fd
      BY <1>1, <2>2, CommandIsLocal DEF _dispatch, Next
    <3>2. result'.response.code \notin CreationEvents
      BY <1>1, <3>1, Causes DEF Answered, Reserved, CreationEvents
    <3>3. \A code \in CreationEvents : \A about :
            IsTold(g, code, about) <=> PushedOn(g, code, about) /\ g \in clients
      <4>1. CASE g = fd
        <5>1. send_buffer'[g] = Append(send_buffer[g], result'.response)
          BY <2>2, <3>1, <4>1 DEF _dispatch, _send_result, Pushes, Queued
        <5>2. Got(g) = {result'.response}
          BY <5>1, GotAppended
        <5> QED BY <3>1, <3>2, <4>1, <5>2 DEF IsTold, PushedOn
      <4>2. CASE g # fd /\ g \in result'.fds \cap clients
        <5>1. send_buffer'[g] = Append(send_buffer[g], result'.push)
          BY <2>2, <4>2 DEF _dispatch, _send_result, Pushes, Queued
        <5>2. Got(g) = {result'.push}
          BY <5>1, GotAppended
        <5> QED BY <3>1, <4>2, <5>2 DEF IsTold, PushedOn, Pushed
      <4>3. CASE g # fd /\ g \notin result'.fds \cap clients
        <5>1. send_buffer'[g] = send_buffer[g]
          BY <2>2, <4>3 DEF _dispatch, _send_result, Pushes, Queued
        <5>2. Got(g) = {}
          BY <5>1, GotAppended
        <5> QED BY <4>3, <5>2 DEF IsTold, PushedOn
      <4> QED BY <4>1, <4>2, <4>3
    <3>4. /\ g \in Others => g \in clients
          /\ \A t : g \in Subscribed(t) => g \in clients
      BY <1>1 DEF ClosedInv, ClosedLeavesNothing, Others, Subscribed, logged_fds
    <3> QED BY <1>1, <3>1, <3>3, <3>4, CreationsPushed DEF IsToldOfCreations, CreationEvents
  <2>3. ASSUME NEW fd \in Fds, _handle_client_disconnect(fd)
        PROVE  IsToldOfCreations(g)
    <3>1. CASE is_logged_in(fd)
      <4>1. handle_logout(fd) /\ send_buffer' = [Pushes(send_buffer, fd) EXCEPT ![fd] = <<>>]
        BY <2>3, <3>1 DEF _handle_client_disconnect, LogoutLost
      <4>2. result'.push.code \notin CreationEvents
        BY <4>1 DEF handle_logout, Respond, RespondAndPush, Packet, NoPacket, CreationEvents
      <4>3. \/ send_buffer'[g] \in {send_buffer[g], <<>>}
            \/ send_buffer'[g] = Append(send_buffer[g], result'.push)
        <5>1. CASE g = fd
          BY <4>1, <5>1 DEF Pushes, Queued
        <5>2. CASE g # fd
          BY <4>1, <5>2 DEF Pushes, Queued
        <5> QED BY <5>1, <5>2
      <4>4. \A packet \in Got(g) : packet.code \notin CreationEvents
        <5>1. Got(g) = {} \/ Got(g) = {result'.push}
          BY <4>3, GotAppended
        <5> QED BY <4>2, <5>1
      <4>5. UNCHANGED <<teams, channels, threads, replies>>
        BY <4>1 DEF handle_logout, treeVars
      <4> QED BY <4>4, <4>5, NothingCreated
    <3>2. CASE ~is_logged_in(fd)
      <4>1. send_buffer'[g] \in {send_buffer[g], <<>>} /\ UNCHANGED vars
        BY <2>3, <3>2 DEF _handle_client_disconnect, LogoutLost
      <4> QED BY <4>1, GotAppended, NothingCreated DEF vars, dataVars, treeVars
    <3> QED BY <3>1, <3>2
  <2> QED BY <1>1, <2>1, <2>2, <2>3 DEF ServerNext
<1>2. ServerSpec => []TypeOK
  BY ServerImplementsBusiness, TypeCorrect
<1>3. TypeOK /\ ClosedInv /\ [ServerNext]_serverVars => ClosedInv'
  BY ClosedStep
<1> DEFINE Buffered == Buffers(send_buffer)
           AllTold == \A g \in Fds : IsToldOfCreations(g)
<1>4. ServerInit => Buffered
  BY BuffersInit
<1>5. Buffered /\ [ServerNext]_serverVars => Buffered'
  BY BuffersStep
<1>6. TypeOK /\ ClosedInv /\ Buffered /\ [ServerNext]_serverVars => [AllTold]_serverVars
  BY <1>1
<1>7. CreationsTold <=> [][AllTold]_serverVars
  BY DEF CreationsTold
<1> HIDE DEF Buffered, AllTold
<1> QED BY <1>2, <1>3, <1>4, <1>5, <1>6, <1>7, ClosedInit, PTL DEF ServerSpec
=============================================================================
