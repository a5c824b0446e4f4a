------------------------------ MODULE Accounts ------------------------------
(***************************************************************************)
(* Handlers of the commands about accounts and private messages:           *)
(* src/server/handlers/mtp_auth.cpp, mtp_users.cpp and mtp_messages.cpp.   *)
(*                                                                         *)
(* Every action is a whole handler called for descriptor fd.  Passwordless *)
(* login creates the account of an unknown name; one user may be logged in *)
(* on several descriptors, and a descriptor may log in again without       *)
(* logging out first.                                                      *)
(***************************************************************************)
EXTENDS ServerData

\* The users a login under that name may end up with: the existing account or
\* a new one under a UUID nobody has.
AccountsFor(name) ==
  IF find_user_by_name(name) # {} THEN find_user_by_name(name)
  ELSE {u \in UserIds : ~find_user_by_uuid(u)}

\* The account of u after a login on fd: a new one stores what fits of the name.
SignedIn(u, name, fd) ==
  IF find_user_by_uuid(u) THEN [users[u] EXCEPT !.is_logged = TRUE, !.fd = fd]
  ELSE [name |-> set_fixed_name(name), is_logged |-> TRUE, fd |-> fd,
        first |-> \A v \in UserIds : users[v].name # set_fixed_name(name)]

\* Read before the session is stored.  Mutant: the flag of the account stands in
\* for the scan of the sessions.
was_online_Flag(u) == users[u].is_logged
was_online(u) == is_user_online(u)

handle_login(fd, name) ==
  \E u \in AccountsFor(name) :
    LET who == <<u, SignedIn(u, name, fd).name>> IN
    /\ users' = [users EXCEPT ![u] = SignedIn(u, name, fd)]
    /\ sessions' = [sessions EXCEPT ![fd] = u]
    /\ client_contexts' = [client_contexts EXCEPT ![fd] = RootContext]
    /\ IF was_online(u)
       THEN Respond(fd, "RES_LOGIN_OK", who)
       ELSE RespondAndPush(fd, "RES_LOGIN_OK", who,
              Packet("EVT_USER_LOGGED_IN", who), logged_fds \cup {fd})
    /\ UNCHANGED <<messages, treeVars>>

\* The user is still online on another descriptor once fd's session is erased.
\* Mutant: logging out of one session takes the user offline.
still_online_Never(fd) == FALSE
still_online(fd) == \E other \in Fds \ {fd} : sessions[other] = sessions[fd]

handle_logout(fd) ==
  LET u == sessions[fd]
      who == <<u, users[u].name>>
  IN
  /\ is_logged_in(fd)
  /\ sessions' = [sessions EXCEPT ![fd] = None]
  /\ users' = [users EXCEPT ![u].is_logged = still_online(fd)]
  /\ client_contexts' = [client_contexts EXCEPT ![fd] = NoContext]
  /\ IF still_online(fd)
     THEN Respond(fd, "RES_LOGOUT_OK", who)
     ELSE RespondAndPush(fd, "RES_LOGOUT_OK", who,
            Packet("EVT_USER_LOGGED_OUT", who), logged_fds)
  /\ UNCHANGED <<messages, treeVars>>

-----------------------------------------------------------------------------
(* Users *)

Status(u) == <<u, users[u].name, is_user_online(u)>>

\* How the handlers that take a user's UUID refuse it; NoPacket if they do not.
UserError(u) ==
  IF u = None THEN Packet("ERR_INVALID_COMMAND", <<>>)
  ELSE IF ~find_user_by_uuid(u) THEN Packet("ERR_UNKNOWN_USER", <<u>>)
  ELSE NoPacket

handle_users(fd) ==
  /\ is_logged_in(fd)
  /\ Answer(fd, Packet("RES_USERS_LIST",
                       <<{Status(u) : u \in {v \in UserIds : find_user_by_uuid(v)}}>>))

handle_user(fd, u) ==
  /\ is_logged_in(fd)
  /\ Answer(fd, Unless(UserError(u), Packet("RES_USER_INFO", Status(u))))

-----------------------------------------------------------------------------
(* Private messages *)

\* Mutant: the descriptor kept in the account stands in for the user's sessions.
SessionsOf_Account(u) == {users[u].fd}
SessionsOf(u) == {fd \in Fds : sessions[fd] = u}

\* A message to somebody who is offline is stored and pushed to nobody.
StoreMessage(fd, receiver, body) ==
  LET sender == sessions[fd] IN
  /\ UserError(receiver) = NoPacket
  /\ Len(messages) < MaxMessages
  /\ messages' = Append(messages, [sender |-> sender, receiver |-> receiver, body |-> body])
  /\ IF SessionsOf(receiver) = {} THEN Respond(fd, "RES_SEND_OK", <<>>)
     ELSE RespondAndPush(fd, "RES_SEND_OK", <<>>,
            Packet("EVT_MESSAGE_RECEIVED", <<sender, body>>), SessionsOf(receiver))
  /\ UNCHANGED <<users, sessions, client_contexts, treeVars>>

handle_send(fd, receiver, body) ==
  /\ is_logged_in(fd)
  /\ Refused(fd, UserError(receiver)) \/ StoreMessage(fd, receiver, body)

Conversation(self, u) ==
  LET match(m) == \/ m.sender = self /\ m.receiver = u
                  \/ m.sender = u /\ m.receiver = self
  IN SelectSeq(messages, match)

handle_messages(fd, u) ==
  /\ is_logged_in(fd)
  /\ Answer(fd, Unless(UserError(u),
                       Packet("RES_MESSAGES_LIST", Conversation(sessions[fd], u))))

-----------------------------------------------------------------------------
\* What a client connected as fd may make these handlers do.
AccountCommand(fd) ==
  \/ \E name \in Names \cup LongNames : handle_login(fd, name)
  \/ handle_logout(fd)
  \/ handle_users(fd)
  \/ \E u \in UserIds \cup {None} :
       \/ handle_user(fd, u)
       \/ handle_messages(fd, u)
       \/ \E body \in Bodies : handle_send(fd, u, body)

=============================================================================
