------------------------------- MODULE Server -------------------------------
(***************************************************************************)
(* The server between its sockets and the command handlers                 *)
(* (src/server/Server.cpp): accepted connections, the dispatch of the      *)
(* commands they send, the bytes queued for each and how a connection      *)
(* ends.  Packets stand for their bytes: one leaves a buffer when its last *)
(* byte is written.  The order in which the poll loop serves the           *)
(* descriptors is left open here: any descriptor, any event, at any time.  *)
(***************************************************************************)
EXTENDS Business

CONSTANT MaxQueue  \* bound: no command is read while a connection has that many packets queued

ASSUME MaxQueueIsNat == MaxQueue \in Nat

VARIABLES
  clients,     \* descriptors that have a ClientState
  send_buffer  \* fd -> packets waiting to be written

serverVars == <<vars, clients, send_buffer>>

ServerInit ==
  /\ Init
  /\ clients = {}
  /\ send_buffer = [fd \in Fds |-> <<>>]

-----------------------------------------------------------------------------
\* _queue_bytes for each of fds: bytes for a descriptor that is not a client's
\* are dropped.
Queued(buffers, fds, packet) ==
  [fd \in Fds |-> IF fd \in fds \cap clients THEN Append(buffers[fd], packet)
                  ELSE buffers[fd]]

\* The events of a result go to their targets, except fd itself.
Pushes(buffers, fd) == Queued(buffers, result'.fds \ {fd}, result'.push)

\* Mutant: only a connection that is still logged in is answered.
_send_result_LoggedIn(fd) ==
  send_buffer' = Pushes(IF is_logged_in(fd)' THEN Queued(send_buffer, {fd}, result'.response)
                        ELSE send_buffer, fd)
_send_result(fd) ==
  send_buffer' = Pushes(Queued(send_buffer, {fd}, result'.response), fd)

\* accept() gives a descriptor that is not open; its ClientState is a new one.
_handle_new_connection(fd) ==
  /\ fd \notin clients
  /\ clients' = clients \cup {fd}
  /\ send_buffer' = [send_buffer EXCEPT ![fd] = <<>>]
  /\ UNCHANGED vars

_dispatch(fd) ==
  /\ fd \in clients
  /\ \A other \in Fds : Len(send_buffer[other]) < MaxQueue
  /\ Command(fd)
  /\ _send_result(fd)
  /\ UNCHANGED clients

\* write() takes some of what is queued.
_handle_client_write(fd) ==
  /\ \E n \in 1 .. Len(send_buffer[fd]) :
       send_buffer' = [send_buffer EXCEPT ![fd] = SubSeq(@, n + 1, Len(@))]
  /\ UNCHANGED <<vars, clients>>

\* The peer closed or reset the connection, sent a frame that is too long, or
\* could not be written to.  A session on it is logged out as if the user had
\* asked, but nobody reads the answer.  Mutants: the session is left behind; its
\* end is told to nobody.
LogoutLost_Forgotten(fd) ==
  send_buffer' = [send_buffer EXCEPT ![fd] = <<>>] /\ UNCHANGED vars
LogoutLost_Unheard(fd) ==
  IF is_logged_in(fd)
  THEN handle_logout(fd) /\ send_buffer' = [send_buffer EXCEPT ![fd] = <<>>]
  ELSE send_buffer' = [send_buffer EXCEPT ![fd] = <<>>] /\ UNCHANGED vars
LogoutLost(fd) ==
  IF is_logged_in(fd)
  THEN handle_logout(fd) /\ send_buffer' = [Pushes(send_buffer, fd) EXCEPT ![fd] = <<>>]
  ELSE send_buffer' = [send_buffer EXCEPT ![fd] = <<>>] /\ UNCHANGED vars

_handle_client_disconnect(fd) ==
  /\ fd \in clients
  /\ LogoutLost(fd)
  /\ clients' = clients \ {fd}

ServerNext ==
  \E fd \in Fds :
    \/ _handle_new_connection(fd)
    \/ _dispatch(fd)
    \/ _handle_client_write(fd)
    \/ _handle_client_disconnect(fd)

ServerSpec == ServerInit /\ [][ServerNext]_serverVars

-----------------------------------------------------------------------------
(* Properties *)

\* A descriptor that is not a client's has no session, no context and no bytes
\* waiting, so that the connection accept() gives it to next, which may be
\* anybody's, starts as nobody (_handle_client_disconnect is called from four
\* places, Server.cpp:93, 125, 155 and 184, in the middle of serving other descriptors).
ClosedLeavesNothing ==
  \A fd \in Fds \ clients :
    ~is_logged_in(fd) /\ client_contexts[fd] = NoContext /\ send_buffer[fd] = <<>>

\* RFC section 12, rule 4: a connection lost without /logout takes its user
\* offline only when it was the user's last, and every connection logged in
\* then has the news as the last thing queued.
LossIsNews ==
  \A fd \in clients \ clients', u \in UserIds :
    sessions[fd] = u =>
      LET news(g) == /\ Len(send_buffer'[g]) = Len(send_buffer[g]) + 1
                     /\ send_buffer'[g][Len(send_buffer'[g])].code = "EVT_USER_LOGGED_OUT"
                     /\ send_buffer'[g][Len(send_buffer'[g])].payload[1] = u
      IN \A g \in logged_fds' : news(g) <=> ~is_user_online(u)'
LostConnectionAnnounced == [][LossIsNews]_serverVars

\* What the step queued for g.
Got(g) == {send_buffer'[g][i] : i \in Len(send_buffer[g]) + 1 .. Len(send_buffer'[g])}
IsTold(g, code, about) == \E packet \in Got(g) : packet.code = code /\ packet.payload[1] = about

\* Logged in, and not the connection the command came from, which is answered.
Others == {fd \in logged_fds : fd # result'.to}
Subscribed(t) == {fd \in Others : is_subscribed_to(t, sessions[fd])}

\* What g is told of what the step created: a team, if g is logged in; what is in a
\* team, if its user is subscribed to that team.
IsToldOfCreations(g) ==
  /\ \A t \in TeamIds :
       IsTold(g, "EVT_TEAM_CREATED", t) <=> teams'[t] # teams[t] /\ g \in Others
  /\ \A c \in ChannelIds :
       IsTold(g, "EVT_CHANNEL_CREATED", c)
         <=> channels'[c] # channels[c] /\ g \in Subscribed(channels'[c])
  /\ \A th \in ThreadIds :
       /\ IsTold(g, "EVT_THREAD_CREATED", th)
            <=> threads'[th] # threads[th] /\ g \in Subscribed(ThreadTeam(th)')
       /\ IsTold(g, "EVT_REPLY_CREATED", th)
            <=> replies'[th] # replies[th] /\ g \in Subscribed(ThreadTeam(th)')

\* What is created is told to every connection it is for and to no other, and told
\* only when it is created, whatever contexts are stale and whichever sessions were
\* replaced.  The creator's other connections hear of it; the one that the command
\* came from gets the answer alone (handle_create, _send_result).
CreationsTold == [][\A g \in Fds : IsToldOfCreations(g)]_serverVars

\* RFC section 11: EVT_CHANNEL_CREATED, EVT_THREAD_CREATED and EVT_REPLY_CREATED go to
\* "All subscribers of the parent team", and section 14 shows them sent to the client
\* that created.  _send_result skips it (Server.cpp:225).
SubscribersTold ==
  [][LET AllOf(t, code, about) ==
           \A g \in logged_fds : is_subscribed_to(t, sessions[g]) => IsTold(g, code, about)
     IN
     /\ \A c \in ChannelIds :
          channels'[c] # channels[c] => AllOf(channels'[c], "EVT_CHANNEL_CREATED", c)
     /\ \A th \in ThreadIds :
          /\ threads'[th] # threads[th] => AllOf(ThreadTeam(th)', "EVT_THREAD_CREATED", th)
          /\ replies'[th] # replies[th] => AllOf(ThreadTeam(th)', "EVT_REPLY_CREATED", th)
    ]_serverVars

\* logging_client.h:96: of a new team, "Every logged user should receive this
\* event (the creator of the team too)".  _send_result skips the descriptor the
\* command came from (Server.cpp:225), although handle_create names it.
CreatorHearsOfTeam ==
  [][teams' # teams =>
       \A fd \in logged_fds :
         \E i \in 1 .. Len(send_buffer'[fd]) :
           send_buffer'[fd][i].code = "EVT_TEAM_CREATED"]_serverVars
=============================================================================
