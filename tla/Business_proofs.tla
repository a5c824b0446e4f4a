-------------------------- MODULE Business_proofs ---------------------------
(***************************************************************************)
(* What is proved of the command handlers for any number of descriptors,   *)
(* users, teams, channels, threads and messages.                           *)
(*                                                                         *)
(* NextCases reduces a step to the ten ways a handler can change the       *)
(* state; each invariant then has one step per way, and each way is one    *)
(* act of the forum, so that what users see is what Forum allows.          *)
(***************************************************************************)
EXTENDS BusinessForum, SequenceTheorems, TLAPS

-----------------------------------------------------------------------------
(* The ways a step can change the state *)

LoginStep == \E fd \in Fds, name \in Names \cup LongNames : handle_login(fd, name)
LogoutStep == \E fd \in Fds : handle_logout(fd)
SendStep ==
  \E fd \in Fds, u \in UserIds, body \in Bodies : is_logged_in(fd) /\ StoreMessage(fd, u, body)
SubscribeStep == \E fd \in Fds, t \in TeamIds : is_logged_in(fd) /\ Subscribe(fd, t)
UnsubscribeStep == \E fd \in Fds, t \in TeamIds : is_logged_in(fd) /\ Unsubscribe(fd, t)
UseStep == \E fd \in Fds, ctx \in UseRequests : is_logged_in(fd) /\ SelectContext(fd, ctx)
CanCreate(fd, name) == is_logged_in(fd) /\ CreateError(fd, name) = NoPacket
TeamStep == \E fd \in Fds, name \in TeamNames : CanCreate(fd, name) /\ CreateTeam(fd, name)
ChannelStep == \E fd \in Fds, name \in TeamNames : CanCreate(fd, name) /\ CreateChannel(fd)
ThreadStep == \E fd \in Fds, name \in TeamNames : CanCreate(fd, name) /\ CreateThread(fd)
ReplyStep == \E fd \in Fds, name \in TeamNames : CanCreate(fd, name) /\ CreateReply(fd)

\* The answers that only one handler gives, when it has done what they say, and the
\* events of /create, which answer nobody.
Reserved == {"RES_UNSUBSCRIBE_OK", "RES_LOGIN_OK",
             "EVT_TEAM_CREATED", "EVT_CHANNEL_CREATED", "EVT_THREAD_CREATED", "EVT_REPLY_CREATED"}

\* A step that changes no more than what was answered, and to whom.
AnswerStep ==
  /\ UNCHANGED dataVars
  /\ result'.to \in Fds /\ result'.push = NoPacket /\ result'.fds = {}
  /\ result'.response.code \notin Reserved

\* How a handler refuses: never with one of those.
LEMMA ErrorCodes ==
  ASSUME NEW fd \in Fds, NEW u, NEW t, NEW ctx, NEW allowed, NEW name
  PROVE  /\ UserError(u).code \notin Reserved
         /\ TeamError(t).code \notin Reserved
         /\ MemberError(t, u).code \notin Reserved
         /\ TargetError(ctx, allowed).code \notin Reserved
         /\ UseError(fd, ctx).code \notin Reserved
         /\ CreateError(fd, name).code \notin Reserved
         /\ ReadError(fd).code \notin Reserved
<1>1. UserError(u).code \notin Reserved
  BY DEF UserError, NoPacket, Packet, Reserved
<1>2. TeamError(t).code \notin Reserved
  BY DEF TeamError, NoPacket, Packet, Reserved
<1>3. MemberError(t, u).code \notin Reserved
  BY <1>2 DEF MemberError, NoPacket, Packet, Reserved
<1>4. \A c, a : TargetError(c, a).code \notin Reserved
  BY DEF TargetError, NoPacket, Packet, Reserved
<1>5. UseError(fd, ctx).code \notin Reserved
  BY <1>4 DEF UseError, Packet, Reserved
<1>6. CreateError(fd, name).code \notin Reserved
  BY <1>4 DEF CreateError, Bare, Packet, Reserved
<1>7. ReadError(fd).code \notin Reserved
  BY <1>4 DEF ReadError, Bare, Packet, Reserved
<1> QED BY <1>1, <1>2, <1>3, <1>4, <1>5, <1>6, <1>7

\* What /use and /info report, and what /list does.
LEMMA InfoCodes ==
  ASSUME NEW ctx \in Context, NEW u, ctx.level # NoLevel
  PROVE  /\ TargetInfo(ctx, u).code \notin Reserved
         /\ Listing(ctx).code \notin Reserved
<1>1. CASE ctx.level = "USE_NONE"
  BY <1>1 DEF TargetInfo, Listing, Packet, Reserved
<1>2. CASE ctx.level = "USE_TEAM"
  BY <1>2 DEF TargetInfo, Listing, Packet, Reserved
<1>3. CASE ctx.level = "USE_CHANNEL"
  BY <1>3 DEF TargetInfo, Listing, Packet, Reserved
<1>4. CASE ctx.level = "USE_THREAD"
  BY <1>4 DEF TargetInfo, Listing, Packet, Reserved
<1> QED BY <1>1, <1>2, <1>3, <1>4 DEF Context, UseLevels

\* Every handler either only answers or takes one of those ways.
LEMMA NextCases ==
  ASSUME TypeOK, Next
  PROVE  \/ AnswerStep
         \/ LoginStep \/ LogoutStep \/ SendStep
         \/ SubscribeStep \/ UnsubscribeStep \/ UseStep
         \/ TeamStep \/ ChannelStep \/ ThreadStep \/ ReplyStep
<1> DEFINE Goal == \/ AnswerStep
                   \/ LoginStep \/ LogoutStep \/ SendStep
                   \/ SubscribeStep \/ UnsubscribeStep \/ UseStep
                   \/ TeamStep \/ ChannelStep \/ ThreadStep \/ ReplyStep
<1>1. PICK fd \in Fds : Command(fd)
  BY DEF Next
<1>2. ASSUME NEW STATE packet, packet.code \notin Reserved, Answer(fd, packet)
      PROVE  AnswerStep
  BY <1>2 DEF Answer, AnswerStep, Respond, Packet
<1>3. ASSUME NEW STATE error, error.code \notin Reserved, Refused(fd, error)
      PROVE  AnswerStep
  BY <1>2, <1>3 DEF Refused
<1>4. CASE Unauthorized(fd) \/ InvalidCommand(fd)
  <2>1. Packet("ERR_UNAUTHORIZED", <<>>).code \notin Reserved
    BY DEF Packet, Reserved
  <2>2. Packet("ERR_INVALID_COMMAND", <<>>).code \notin Reserved
    BY DEF Packet, Reserved
  <2> QED BY <1>2, <1>3, <1>4, <2>1, <2>2 DEF Unauthorized, InvalidCommand
<1>5. CASE AccountCommand(fd)
  <2>1. ASSUME NEW name \in Names \cup LongNames, handle_login(fd, name)
        PROVE  Goal
    BY <2>1 DEF LoginStep
  <2>2. CASE handle_logout(fd)
    BY <2>2 DEF LogoutStep
  <2>3. CASE handle_users(fd)
    BY <2>3, <1>2 DEF handle_users, Packet, Reserved
  <2>4. ASSUME NEW u \in UserIds \cup {None}, handle_user(fd, u) \/ handle_messages(fd, u)
        PROVE  Goal
    BY <2>4, <1>2, ErrorCodes DEF handle_user, handle_messages, Unless, Packet, Reserved
  <2>5. ASSUME NEW u \in UserIds \cup {None}, NEW body \in Bodies, handle_send(fd, u, body)
        PROVE  Goal
    <3>1. CASE Refused(fd, UserError(u))
      BY <3>1, <1>3, ErrorCodes
    <3>2. CASE StoreMessage(fd, u, body)
      <4>1. UserError(u) = NoPacket
        BY <3>2 DEF StoreMessage
      <4>2. u \in UserIds
        BY <4>1 DEF UserError, NoPacket, Packet
      <4> QED BY <2>5, <3>2, <4>2 DEF handle_send, SendStep
    <3> QED BY <2>5, <3>1, <3>2 DEF handle_send
  <2> QED BY <1>5, <2>1, <2>2, <2>3, <2>4, <2>5 DEF AccountCommand
<1>6. CASE WorkspaceCommand(fd)
  <2>1. ASSUME NEW t \in TeamIds \cup {None}, handle_subscribe(fd, t)
        PROVE  Goal
    <3>1. CASE Refused(fd, TeamError(t))
      BY <3>1, <1>3, ErrorCodes
    <3>2. CASE is_logged_in(fd) /\ Subscribe(fd, t)
      <4>1. t \in TeamIds
        BY <3>2 DEF Subscribe, TeamError, NoPacket, Packet
      <4> QED BY <3>2, <4>1 DEF SubscribeStep
    <3> QED BY <2>1, <3>1, <3>2 DEF handle_subscribe
  <2>2. ASSUME NEW t \in TeamIds \cup {None}, handle_unsubscribe(fd, t)
        PROVE  Goal
    <3>1. CASE Refused(fd, MemberError(t, sessions[fd]))
      BY <3>1, <1>3, ErrorCodes
    <3>2. CASE is_logged_in(fd) /\ Unsubscribe(fd, t)
      <4>1. t \in TeamIds
        BY <3>2 DEF Unsubscribe, MemberError, TeamError, NoPacket, Packet
      <4> QED BY <3>2, <4>1 DEF UnsubscribeStep
    <3> QED BY <2>2, <3>1, <3>2 DEF handle_unsubscribe
  <2>3. ASSUME NEW t \in TeamIds \cup {None}, handle_subscribed_users(fd, t)
        PROVE  Goal
    BY <2>3, <1>2, ErrorCodes DEF handle_subscribed_users, Unless, Packet, Reserved
  <2>4. CASE handle_subscribed_teams(fd)
    BY <2>4, <1>2 DEF handle_subscribed_teams, Packet, Reserved
  <2>5. ASSUME NEW ctx \in UseRequests, handle_use(fd, ctx)
        PROVE  Goal
    BY <2>5, <1>3, ErrorCodes DEF handle_use, UseStep
  <2>6. ASSUME NEW name \in TeamNames \cup {None}, handle_create(fd, name)
        PROVE  Goal
    <3>1. CASE Refused(fd, CreateError(fd, name))
      BY <3>1, <1>3, ErrorCodes
    <3>2. CASE CreateError(fd, name) = NoPacket
      <4>1. name \in TeamNames
        BY <3>2 DEF CreateError, NoPacket, Packet
      <4>2. CanCreate(fd, name)
        BY <2>6, <3>2 DEF handle_create, CanCreate
      <4>3. CreateTeam(fd, name) \/ CreateChannel(fd) \/ CreateThread(fd) \/ CreateReply(fd)
        BY <2>6, <3>2 DEF handle_create, Refused
      <4> QED BY <4>1, <4>2, <4>3 DEF TeamStep, ChannelStep, ThreadStep, ReplyStep
    <3> QED BY <2>6, <3>1, <3>2 DEF handle_create
  <2>7. CASE handle_list(fd) \/ handle_info(fd)
    <3> DEFINE ctx == client_contexts[fd]
    <3>1. ReadError(fd).code \notin Reserved
      BY ErrorCodes
    <3>2. CASE ReadError(fd) # NoPacket
      BY <2>7, <1>2, <3>1, <3>2 DEF handle_list, handle_info, Unless
    <3>3. CASE ReadError(fd) = NoPacket
      <4>1. ctx \in Context /\ ctx.level # NoLevel
        BY <3>3 DEF TypeOK, ReadError, NoPacket, Packet
      <4>2. /\ TargetInfo(ctx, sessions[fd]).code \notin Reserved
            /\ Listing(ctx).code \notin Reserved
        BY <4>1, InfoCodes
      <4> QED BY <2>7, <1>2, <3>3, <4>2 DEF handle_list, handle_info, Unless
    <3> QED BY <3>2, <3>3
  <2> QED BY <1>6, <2>1, <2>2, <2>3, <2>4, <2>5, <2>6, <2>7 DEF WorkspaceCommand
<1> QED BY <1>1, <1>4, <1>5, <1>6 DEF Command

\* A login on fd as u, whose account has the name or is made under it.
LoginAs(fd, u, name) ==
  /\ users' \in [UserIds -> User]
  /\ users'[u].name = name /\ users'[u].is_logged
  /\ \A v \in UserIds \ {u} : users'[v] = users[v]
  /\ \/ users[u].name = name /\ users'[u].first = users[u].first
     \/ /\ users[u].name = None
        /\ name \in FullNames \/ find_user_by_name(name) = {}
        /\ users'[u].first <=> \A v \in UserIds : users[v].name # name
  /\ sessions' = [sessions EXCEPT ![fd] = u]
  /\ client_contexts' = [client_contexts EXCEPT ![fd] = RootContext]
  /\ IF was_online(u)
     THEN Respond(fd, "RES_LOGIN_OK", <<u, name>>)
     ELSE RespondAndPush(fd, "RES_LOGIN_OK", <<u, name>>,
            Packet("EVT_USER_LOGGED_IN", <<u, name>>), logged_fds \cup {fd})
  /\ UNCHANGED <<messages, treeVars>>

\* Whatever name is sent, a login ends up so: only one that is longer than its field
\* can make an account under a name that another account has.
LEMMA LoginWays ==
  ASSUME TypeOK, NEW fd \in Fds, NEW sent \in Names \cup LongNames, handle_login(fd, sent)
  PROVE  \E u \in UserIds, name \in Names : LoginAs(fd, u, name)
<1> USE DEF TypeOK
<1>1. PICK u \in AccountsFor(sent) :
        /\ users' = [users EXCEPT ![u] = SignedIn(u, sent, fd)]
        /\ sessions' = [sessions EXCEPT ![fd] = u]
        /\ client_contexts' = [client_contexts EXCEPT ![fd] = RootContext]
        /\ IF was_online(u)
           THEN Respond(fd, "RES_LOGIN_OK", <<u, SignedIn(u, sent, fd).name>>)
           ELSE RespondAndPush(fd, "RES_LOGIN_OK", <<u, SignedIn(u, sent, fd).name>>,
                  Packet("EVT_USER_LOGGED_IN", <<u, SignedIn(u, sent, fd).name>>),
                  logged_fds \cup {fd})
        /\ UNCHANGED <<messages, treeVars>>
  BY Zenon DEF handle_login
<1>2. u \in UserIds
  BY DEF AccountsFor, find_user_by_name
<1> DEFINE account == SignedIn(u, sent, fd)
<1>3. ASSUME account \in User PROVE users' \in [UserIds -> User] /\ users'[u] = account
  BY <1>1, <1>2, <1>3
<1>4. CASE find_user_by_name(sent) # {}
  <2>1. users[u].name = sent
    BY <1>4 DEF AccountsFor, find_user_by_name
  <2>2. users[u] \in User /\ sent # None
    BY <1>2, NoneIsFresh
  <2>3. sent \in Names
    BY <2>1, <2>2 DEF User
  <2>4. account = [users[u] EXCEPT !.is_logged = TRUE, !.fd = fd]
    BY <1>2, <2>1, <2>2 DEF SignedIn, find_user_by_uuid
  <2>5. account \in User /\ account.name = sent /\ account.is_logged /\ account.first = users[u].first
    BY <2>1, <2>2, <2>4 DEF User
  <2> HIDE DEF account
  <2> QED BY <1>1, <1>2, <1>3, <2>1, <2>3, <2>5 DEF LoginAs, account
<1>5. CASE find_user_by_name(sent) = {}
  <2> DEFINE name == set_fixed_name(sent)
  <2>1. name \in Names /\ (name \in FullNames \/ name = sent)
    BY NamesAreApart DEF set_fixed_name, LongNames
  <2>2. ~find_user_by_uuid(u)
    BY <1>5 DEF AccountsFor
  <2>3. users[u].name = None
    BY <1>2, <2>2 DEF find_user_by_uuid
  <2>4. account = [name |-> name, is_logged |-> TRUE, fd |-> fd,
                   first |-> \A v \in UserIds : users[v].name # name]
    BY <2>2 DEF SignedIn
  <2> HIDE DEF name, account
  <2>5. /\ account \in User /\ account.name = name /\ account.is_logged
        /\ account.first <=> \A v \in UserIds : users[v].name # name
    BY <2>1, <2>4 DEF User
  <2> QED BY <1>1, <1>2, <1>3, <1>5, <2>1, <2>3, <2>5 DEF LoginAs, account
<1> QED BY <1>4, <1>5

LEMMA LoginStepWays ==
  ASSUME TypeOK, LoginStep
  PROVE  \E fd \in Fds, u \in UserIds, name \in Names : LoginAs(fd, u, name)
BY LoginWays DEF LoginStep

-----------------------------------------------------------------------------
(* Type correctness *)

\* Every /use that is accepted stores a well-formed context.
LEMMA RequestsAreContexts == UseRequests \subseteq Context
BY DEF UseRequests, Context, UseLevels, RootContext, NoContext, UseContext

\* Writing one counter of the member vectors keeps their type.
LEMMA CountersTyped ==
  ASSUME NEW counts \in [TeamIds -> [UserIds -> Nat]],
         NEW t \in TeamIds, NEW u \in UserIds, NEW n \in Nat
  PROVE  [counts EXCEPT ![t][u] = n] \in [TeamIds -> [UserIds -> Nat]]
<1> DEFINE row == [counts[t] EXCEPT ![u] = n]
<1>1. row \in [UserIds -> Nat]
  OBVIOUS
<1>2. [counts EXCEPT ![t][u] = n] = [counts EXCEPT ![t] = row]
  OBVIOUS
<1> HIDE DEF row
<1> QED BY <1>1, <1>2

\* What the counters are after one was written.
LEMMA CounterWritten ==
  ASSUME NEW counts \in [TeamIds -> [UserIds -> Nat]],
         NEW t \in TeamIds, NEW u \in UserIds, NEW n,
         NEW s \in TeamIds, NEW v \in UserIds
  PROVE  [counts EXCEPT ![t][u] = n][s][v] = IF s = t /\ v = u THEN n ELSE counts[s][v]
<1>1. CASE s = t
  BY <1>1
<1>2. CASE s # t
  BY <1>2
<1> QED BY <1>1, <1>2

LEMMA TypeInit == Init => TypeOK
BY DEF Init, TypeOK, User, NoUser, Context, NoContext, UseContext, Thread, NoThread

LEMMA TypeStep == TypeOK /\ [Next]_vars => TypeOK'
<1> SUFFICES ASSUME TypeOK, [Next]_vars PROVE TypeOK'
  OBVIOUS
<1> USE DEF TypeOK
<1>1. CASE UNCHANGED vars
  BY <1>1 DEF vars, dataVars, accountVars, treeVars
<1>2. CASE AnswerStep
  BY <1>2 DEF AnswerStep, dataVars, accountVars, treeVars
<1>3. CASE LoginStep
  <2>1. PICK fd \in Fds, u \in UserIds, name \in Names : LoginAs(fd, u, name)
    BY <1>3, LoginStepWays
  <2>2. client_contexts' \in [Fds -> Context]
    BY <2>1 DEF LoginAs, RootContext, UseContext, Context, UseLevels
  <2>3. result'.to \in Fds \cup {None} /\ result'.fds \subseteq Fds
    BY <2>1 DEF LoginAs, logged_fds, Respond, RespondAndPush
  <2> QED BY <2>1, <2>2, <2>3 DEF LoginAs, treeVars
<1>4. CASE LogoutStep
  <2>1. PICK fd \in Fds : handle_logout(fd)
    BY <1>4 DEF LogoutStep
  <2>2. sessions[fd] \in UserIds
    BY <2>1 DEF handle_logout, is_logged_in
  <2>3. users' \in [UserIds -> User]
    <3>1. users' = [users EXCEPT ![sessions[fd]].is_logged = still_online(fd)]
      BY <2>1 DEF handle_logout
    <3>2. still_online(fd) \in BOOLEAN
      BY DEF still_online
    <3> QED BY <2>2, <3>1, <3>2 DEF User
  <2>4. client_contexts' \in [Fds -> Context]
    BY <2>1 DEF handle_logout, NoContext, UseContext, Context
  <2>5. result'.to \in Fds \cup {None} /\ result'.fds \subseteq Fds
    BY <2>1 DEF handle_logout, Respond, RespondAndPush, logged_fds
  <2> QED BY <2>1, <2>3, <2>4, <2>5 DEF handle_logout, treeVars
<1>5. CASE SendStep
  <2>1. PICK fd \in Fds, u \in UserIds, body \in Bodies :
          is_logged_in(fd) /\ StoreMessage(fd, u, body)
    BY <1>5 DEF SendStep
  <2>2. [sender |-> sessions[fd], receiver |-> u, body |-> body] \in Message
    BY <2>1 DEF is_logged_in, Message
  <2>3. messages' \in Seq(Message)
    BY <2>1, <2>2 DEF StoreMessage
  <2>4. result'.to \in Fds \cup {None} /\ result'.fds \subseteq Fds
    BY <2>1 DEF StoreMessage, Respond, RespondAndPush, SessionsOf
  <2> QED BY <2>1, <2>3, <2>4 DEF StoreMessage, treeVars
<1>6. CASE SubscribeStep
  <2>1. PICK fd \in Fds, t \in TeamIds : is_logged_in(fd) /\ Subscribe(fd, t)
    BY <1>6 DEF SubscribeStep
  <2>2. member_uuids' \in [TeamIds -> [UserIds -> Nat]]
    <3>1. sessions[fd] \in UserIds /\ member_uuids[t][sessions[fd]] + 1 \in Nat
      BY <2>1 DEF is_logged_in
    <3>2. [member_uuids EXCEPT ![t][sessions[fd]] = member_uuids[t][sessions[fd]] + 1]
            \in [TeamIds -> [UserIds -> Nat]]
      BY <3>1, CountersTyped
    <3> QED BY <2>1, <3>2 DEF Subscribe, AddMember
  <2> QED BY <2>1, <2>2 DEF Subscribe, Respond, accountVars
<1>7. CASE UnsubscribeStep
  <2>1. PICK fd \in Fds, t \in TeamIds : is_logged_in(fd) /\ Unsubscribe(fd, t)
    BY <1>7 DEF UnsubscribeStep
  <2>2. sessions[fd] \in UserIds /\ is_subscribed_to(t, sessions[fd])
    BY <2>1 DEF is_logged_in, Unsubscribe, MemberError, NoPacket, Packet
  <2>3. member_uuids' \in [TeamIds -> [UserIds -> Nat]]
    <3>1. member_uuids[t][sessions[fd]] - 1 \in Nat
      BY <2>2 DEF is_subscribed_to
    <3> QED BY <2>1, <2>2, <3>1, CountersTyped DEF Unsubscribe
  <2> QED BY <2>1, <2>3 DEF Unsubscribe, Respond, accountVars
<1>8. CASE UseStep
  BY <1>8, RequestsAreContexts DEF UseStep, SelectContext, Respond, accountVars, treeVars
<1>9. CASE TeamStep
  <2>1. PICK fd \in Fds, name \in TeamNames : is_logged_in(fd) /\ CreateTeam(fd, name)
    BY <1>9 DEF TeamStep, CanCreate
  <2>2. sessions[fd] \in UserIds
    BY <2>1 DEF is_logged_in
  <2> QED BY <2>1, <2>2 DEF CreateTeam, RespondAndPush, logged_fds, accountVars
<1>10. CASE ChannelStep
  <2>1. PICK fd \in Fds : CreateChannel(fd)
    BY <1>10 DEF ChannelStep
  <2>2. client_contexts[fd].team \in TeamIds \cup {None}
    BY DEF Context
  <2> QED BY <2>1, <2>2 DEF CreateChannel, RespondAndPush, team_member_fds, logged_fds, accountVars
<1>11. CASE ThreadStep
  <2>1. PICK fd \in Fds : is_logged_in(fd) /\ CreateThread(fd)
    BY <1>11 DEF ThreadStep, CanCreate
  <2>2. [channel |-> client_contexts[fd].channel, creator |-> sessions[fd]] \in Thread
    BY DEF Context, Thread
  <2>3. threads' \in [ThreadIds -> Thread]
    BY <2>1, <2>2 DEF CreateThread
  <2> QED BY <2>1, <2>3 DEF CreateThread, RespondAndPush, team_member_fds, logged_fds, accountVars
<1>12. CASE ReplyStep
  <2>1. PICK fd \in Fds : is_logged_in(fd) /\ CreateReply(fd)
    BY <1>12 DEF ReplyStep, CanCreate
  <2>2. sessions[fd] \in UserIds
    BY <2>1 DEF is_logged_in
  <2>3. replies' \in [ThreadIds -> Seq(UserIds)]
    <3>1. \A th \in ThreadIds : Append(replies[th], sessions[fd]) \in Seq(UserIds)
      BY <2>2
    <3> QED BY <2>1, <3>1 DEF CreateReply, WithReply
  <2> QED BY <2>1, <2>3 DEF CreateReply, RespondAndPush, team_member_fds, logged_fds, accountVars
<1> QED BY <1>1, <1>2, <1>3, <1>4, <1>5, <1>6, <1>7, <1>8, <1>9, <1>10, <1>11, <1>12, NextCases

\* The maps of server_data_t hold what their declarations say; in particular no
\* member vector is asked to erase what it does not hold.
THEOREM TypeCorrect == Spec => []TypeOK
BY TypeInit, TypeStep, PTL DEF Spec

-----------------------------------------------------------------------------
(* Sessions, contexts and accounts *)

\* Every name that an account has is found: the first account that has it comes
\* before the others in the vector.
FirstOfName ==
  \A u \in UserIds :
    find_user_by_uuid(u) => \E v \in UserIds : users[v].name = users[u].name /\ users[v].first

AccountInv == SessionsAgree /\ FirstOfName /\ UniqueNames /\ OnlineIsFlagged

\* A step that is neither a login nor a logout leaves the accounts alone, and
\* replaces a context only by one with a level, for a session.
LEMMA AccountFrame ==
  ASSUME TypeOK, [Next]_vars, ~LoginStep, ~LogoutStep
  PROVE  /\ UNCHANGED <<users, sessions>>
         /\ \A fd \in Fds :
              \/ client_contexts'[fd].level = client_contexts[fd].level
              \/ is_logged_in(fd) /\ client_contexts'[fd].level # NoLevel
<1>1. CASE UNCHANGED vars \/ AnswerStep
  BY <1>1 DEF vars, dataVars, accountVars, treeVars, AnswerStep
<1>2. CASE UseStep
  <2>1. PICK fd \in Fds, ctx \in UseRequests : is_logged_in(fd) /\ SelectContext(fd, ctx)
    BY <1>2 DEF UseStep
  <2>2. ctx.level # NoLevel
    BY <2>1 DEF SelectContext, UseError, NoPacket, Packet
  <2> QED BY <2>1, <2>2 DEF SelectContext, accountVars, TypeOK
<1>3. CASE SendStep
  BY <1>3 DEF SendStep, StoreMessage
<1>4. CASE SubscribeStep
  BY <1>4 DEF SubscribeStep, Subscribe, accountVars
<1>5. CASE UnsubscribeStep
  BY <1>5 DEF UnsubscribeStep, Unsubscribe, accountVars
<1>6. CASE TeamStep
  BY <1>6 DEF TeamStep, CreateTeam, accountVars
<1>7. CASE ChannelStep
  BY <1>7 DEF ChannelStep, CreateChannel, accountVars
<1>8. CASE ThreadStep
  BY <1>8 DEF ThreadStep, CreateThread, accountVars
<1>9. CASE ReplyStep
  BY <1>9 DEF ReplyStep, CreateReply, accountVars
<1> QED BY <1>1, <1>2, <1>3, <1>4, <1>5, <1>6, <1>7, <1>8, <1>9, NextCases

LEMMA AccountInit == Init => AccountInv
BY NoneIsFresh DEF Init, AccountInv, SessionsAgree, FirstOfName, UniqueNames, OnlineIsFlagged, is_logged_in,
   NoContext, UseContext, find_user_by_uuid, NoUser, is_user_online

LEMMA AccountStep == TypeOK /\ AccountInv /\ [Next]_vars => AccountInv'
<1> SUFFICES ASSUME TypeOK, AccountInv, [Next]_vars PROVE AccountInv'
  OBVIOUS
<1> USE DEF TypeOK, User
<1>1. CASE LoginStep
  <2>1. PICK fd \in Fds, u \in UserIds, name \in Names : LoginAs(fd, u, name)
    BY <1>1, LoginStepWays
  <2>2. /\ users' \in [UserIds -> User] /\ users'[u].name = name /\ users'[u].is_logged
        /\ \A v \in UserIds \ {u} : users'[v] = users[v]
        /\ \/ users[u].name = name /\ users'[u].first = users[u].first
           \/ /\ users[u].name = None
              /\ name \in FullNames \/ find_user_by_name(name) = {}
              /\ users'[u].first <=> \A v \in UserIds : users[v].name # name
        /\ sessions' = [sessions EXCEPT ![fd] = u]
        /\ client_contexts' = [client_contexts EXCEPT ![fd] = RootContext]
    BY <2>1 DEF LoginAs
  <2>3. name # None /\ u # None
    BY NoneIsFresh
  <2>3a. \A v \in UserIds : users[v].name # None => users'[v].name # None
    BY <2>2, <2>3
  <2>4. SessionsAgree'
    <3> SUFFICES ASSUME NEW g \in Fds
                 PROVE  /\ is_logged_in(g)' <=> client_contexts'[g].level # NoLevel
                        /\ is_logged_in(g)' => find_user_by_uuid(sessions[g])'
      BY DEF SessionsAgree
    <3>1. CASE g = fd
      BY <2>2, <2>3, <3>1 DEF is_logged_in, find_user_by_uuid, RootContext, UseContext, NoLevel
    <3>2. CASE g # fd
      BY <2>2, <2>3a, <3>2 DEF AccountInv, SessionsAgree, is_logged_in, find_user_by_uuid
    <3> QED BY <3>1, <3>2
  <2>5. \A v \in UserIds : users[v].name # None =>
          \E w \in UserIds : users[w].name = users[v].name /\ users[w].first
    BY DEF AccountInv, FirstOfName, find_user_by_uuid
  <2>6. FirstOfName'
    <3>1. CASE users[u].name = name /\ users'[u].first = users[u].first
      <4>1. \A v \in UserIds : users'[v].name = users[v].name /\ users'[v].first = users[v].first
        BY <2>2, <3>1
      <4> QED BY <2>5, <4>1 DEF FirstOfName, find_user_by_uuid
    <3>2. CASE /\ users[u].name = None
               /\ users'[u].first <=> \A v \in UserIds : users[v].name # name
      <4>1. ASSUME NEW v \in UserIds \ {u}, users[v].name # None
            PROVE  \E w \in UserIds : users'[w].name = users[v].name /\ users'[w].first
        <5>1. PICK w \in UserIds : users[w].name = users[v].name /\ users[w].first
          BY <2>5, <4>1
        <5>2. w # u
          BY <3>2, <4>1, <5>1
        <5> QED BY <2>2, <5>1, <5>2
      <4>2. \E w \in UserIds : users'[w].name = name /\ users'[w].first
        <5>1. CASE \A v \in UserIds : users[v].name # name
          BY <2>2, <3>2, <5>1
        <5>2. ASSUME NEW v \in UserIds, users[v].name = name
              PROVE  \E w \in UserIds : users'[w].name = name /\ users'[w].first
          <6>1. v # u
            BY <2>3, <3>2, <5>2
          <6> QED BY <2>3, <4>1, <5>2, <6>1
        <5> QED BY <5>1, <5>2
      <4> QED BY <2>2, <4>1, <4>2 DEF FirstOfName, find_user_by_uuid
    <3> QED BY <2>2, <3>1, <3>2
  <2>7. UniqueNames'
    <3>1. \A v \in UserIds : users[v].name = name => v = u \/ name \in FullNames
      <4>1. CASE users[u].name = name
        BY <2>3, <4>1 DEF AccountInv, UniqueNames, find_user_by_uuid
      <4>2. CASE find_user_by_name(name) = {}
        BY <2>3, <2>5, <4>2 DEF find_user_by_name
      <4> QED BY <2>2, <4>1, <4>2
    <3>2. ASSUME NEW v \in UserIds, NEW w \in UserIds, v # w, users'[v].name # None,
                 users'[v].name = users'[w].name
          PROVE  users'[v].name \in FullNames
      <4>1. CASE v # u /\ w # u
        BY <2>2, <3>2, <4>1 DEF AccountInv, UniqueNames, find_user_by_uuid
      <4>2. CASE v = u \/ w = u
        BY <2>2, <3>1, <3>2, <4>2
      <4> QED BY <4>1, <4>2
    <3> QED BY <3>2 DEF UniqueNames, find_user_by_uuid
  <2>8. OnlineIsFlagged'
    BY <2>2, <2>3 DEF AccountInv, OnlineIsFlagged, is_user_online
  <2> QED BY <2>4, <2>6, <2>7, <2>8 DEF AccountInv
<1>2. CASE LogoutStep
  <2>1. PICK fd \in Fds : handle_logout(fd)
    BY <1>2 DEF LogoutStep
  <2>2. /\ sessions[fd] \in UserIds
        /\ sessions' = [sessions EXCEPT ![fd] = None]
        /\ users' = [users EXCEPT ![sessions[fd]].is_logged = still_online(fd)]
        /\ client_contexts' = [client_contexts EXCEPT ![fd] = NoContext]
    BY <2>1 DEF handle_logout, is_logged_in
  <2>3. \A v \in UserIds : users'[v].name = users[v].name /\ users'[v].first = users[v].first
    BY <2>2
  <2>4. SessionsAgree'
    BY <2>2, <2>3 DEF AccountInv, SessionsAgree, is_logged_in, find_user_by_uuid,
       NoContext, UseContext
  <2>5. FirstOfName' /\ UniqueNames'
    BY <2>3 DEF AccountInv, FirstOfName, UniqueNames, find_user_by_uuid
  <2>6. OnlineIsFlagged'
    <3> SUFFICES ASSUME NEW v \in UserIds, is_user_online(v)' PROVE users'[v].is_logged
      BY DEF OnlineIsFlagged
    <3>1. PICK other \in Fds : sessions'[other] = v
      BY DEF is_user_online
    <3>2. other # fd /\ sessions[other] = v
      BY <2>2, <3>1, NoneIsFresh
    <3>3. CASE v = sessions[fd]
      BY <2>2, <3>2, <3>3 DEF still_online
    <3>4. CASE v # sessions[fd]
      BY <2>2, <3>2, <3>4 DEF AccountInv, OnlineIsFlagged, is_user_online
    <3> QED BY <3>3, <3>4
  <2> QED BY <2>4, <2>5, <2>6 DEF AccountInv
<1>3. CASE ~LoginStep /\ ~LogoutStep
  <2>1. /\ UNCHANGED <<users, sessions>>
        /\ \A fd \in Fds :
             \/ client_contexts'[fd].level = client_contexts[fd].level
             \/ is_logged_in(fd) /\ client_contexts'[fd].level # NoLevel
    BY <1>3, AccountFrame
  <2> QED BY <2>1 DEF AccountInv, SessionsAgree, FirstOfName, UniqueNames, OnlineIsFlagged,
             is_logged_in, find_user_by_uuid, is_user_online
<1> QED BY <1>1, <1>2, <1>3

THEOREM AccountsInvariant == Spec => []AccountInv
<1>1. TypeOK /\ AccountInv /\ [Next]_vars => AccountInv'
  BY AccountStep
<1> QED BY <1>1, AccountInit, TypeCorrect, PTL DEF Spec

\* A descriptor has a context exactly while it has a session, and the session is
\* that of a user who exists, whatever logins and logouts overlap
\* (handle_login, handle_logout).
THEOREM SessionsAlwaysAgree == Spec => []SessionsAgree
BY AccountsInvariant, PTL DEF AccountInv

\* No two accounts ever have the same name, unless it fills its field: logging in
\* under a name that does not is always logging in as the same user
\* (find_user_by_name and set_fixed_name in handle_login).
THEOREM NamesStayUnique == Spec => []UniqueNames
BY AccountsInvariant, PTL DEF AccountInv

\* A user with a session is flagged as logged in, however many of the user's
\* other sessions have ended (still_online in handle_logout).
THEOREM OnlineStaysFlagged == Spec => []OnlineIsFlagged
BY AccountsInvariant, PTL DEF AccountInv

-----------------------------------------------------------------------------
(* Teams, what they contain, and the contexts that point into them *)

TreeInv == TreeIsRooted /\ ContextResolves /\ MembersOnce

\* What TargetError checks, one lookup per conjunct.
Resolves(ctx) ==
  /\ ctx.level # "USE_NONE" => find_team_by_uuid(ctx.team)
  /\ ctx.level \in {"USE_CHANNEL", "USE_THREAD"} => find_channel_by_uuid(ctx.team, ctx.channel)
  /\ ctx.level = "USE_THREAD" => find_thread_by_uuid(ctx.channel, ctx.thread)

\* A context passes the checks of a handler exactly if it resolves and leads
\* into a team the handler lets the caller into.
LEMMA TargetErrorMeaning ==
  ASSUME NEW STATE ctx, ctx.level \in UseLevels, NEW STATE allowed
  PROVE  TargetError(ctx, allowed) = NoPacket
           <=> Resolves(ctx) /\ (ctx.level # "USE_NONE" => ctx.team \in allowed)
BY DEF TargetError, Resolves, NoPacket, Packet, UseLevels

\* handle_create goes on only where the context resolves, in a team that the
\* caller is subscribed to.
LEMMA CreateAllowed ==
  ASSUME TypeOK, NEW fd \in Fds, NEW name, CanCreate(fd, name)
  PROVE  /\ sessions[fd] \in UserIds
         /\ client_contexts[fd] \in Context
         /\ Resolves(client_contexts[fd])
         /\ client_contexts[fd].level # "USE_NONE" =>
              /\ client_contexts[fd].team \in TeamIds
              /\ is_subscribed_to(client_contexts[fd].team, sessions[fd])
<1> DEFINE ctx == client_contexts[fd]
           allowed == subscribed_teams(sessions[fd])
<1>1. sessions[fd] \in UserIds /\ ctx \in Context
  BY DEF TypeOK, CanCreate, is_logged_in
<1>2. ctx.level # NoLevel /\ TargetError(ctx, allowed).code = "NO_PACKET"
  BY DEF CanCreate, CreateError, Bare, NoPacket, Packet
<1>3. ctx.level \in UseLevels
  BY <1>1, <1>2 DEF Context
<1>4. TargetError(ctx, allowed) = NoPacket
  BY <1>2 DEF TargetError, NoPacket, Packet
<1>5. Resolves(ctx) /\ (ctx.level # "USE_NONE" => ctx.team \in allowed)
  BY <1>3, <1>4, TargetErrorMeaning
<1> QED BY <1>1, <1>5 DEF subscribed_teams

LEMMA TreeInit == Init => TreeInv
BY NoneIsFresh DEF Init, TreeInv, TreeIsRooted, ContextResolves, MembersOnce, logged_fds,
   is_logged_in, is_subscribed_to, NoThread

\* What a step may do to the member vectors: one caller joins a team once, or
\* leaves it, or joins the team it has just created.
LEMMA MemberChange ==
  ASSUME TypeOK, TreeInv, [Next]_vars, member_uuids' # member_uuids
  PROVE  \E t \in TeamIds, u \in UserIds :
           /\ \A s \in TeamIds, v \in UserIds :
                s # t \/ v # u => member_uuids'[s][v] = member_uuids[s][v]
           /\ member_uuids'[t][u] \in {0, 1}
           /\ find_team_by_uuid(t)'
<1> USE DEF TypeOK
<1>1. CASE SubscribeStep
  <2>1. PICK fd \in Fds, t \in TeamIds : is_logged_in(fd) /\ Subscribe(fd, t)
    BY <1>1 DEF SubscribeStep
  <2> DEFINE u == sessions[fd]
  <2>2. u \in UserIds
    BY <2>1 DEF is_logged_in
  <2>3. /\ member_uuids' = [member_uuids EXCEPT ![t][u] = member_uuids[t][u] + 1]
        /\ member_uuids[t][u] = 0
    BY <2>1, <2>2 DEF Subscribe, AddMember, is_subscribed_to
  <2>4. find_team_by_uuid(t)'
    BY <2>1 DEF Subscribe, TeamError, NoPacket, Packet, find_team_by_uuid
  <2> QED BY <2>2, <2>3, <2>4, CounterWritten
<1>2. CASE UnsubscribeStep
  <2>1. PICK fd \in Fds, t \in TeamIds : is_logged_in(fd) /\ Unsubscribe(fd, t)
    BY <1>2 DEF UnsubscribeStep
  <2> DEFINE u == sessions[fd]
  <2>2. u \in UserIds /\ is_subscribed_to(t, u) /\ find_team_by_uuid(t)'
    BY <2>1 DEF is_logged_in, Unsubscribe, MemberError, TeamError, NoPacket, Packet, find_team_by_uuid
  <2>3. /\ member_uuids' = [member_uuids EXCEPT ![t][u] = member_uuids[t][u] - 1]
        /\ member_uuids[t][u] = 1
    BY <2>1, <2>2 DEF Unsubscribe, is_subscribed_to, TreeInv, MembersOnce
  <2> QED BY <2>2, <2>3, CounterWritten
<1>3. CASE TeamStep
  <2>1. PICK fd \in Fds, name \in TeamNames : is_logged_in(fd) /\ CreateTeam(fd, name)
    BY <1>3 DEF TeamStep, CanCreate
  <2> DEFINE u == sessions[fd]
  <2>2. PICK t \in TeamIds :
          /\ ~find_team_by_uuid(t)
          /\ teams' = [teams EXCEPT ![t] = name]
          /\ member_uuids' = [member_uuids EXCEPT ![t][u] = member_uuids[t][u] + 1]
    BY <2>1 DEF CreateTeam
  <2>3. u \in UserIds
    BY <2>1 DEF is_logged_in
  <2>4. member_uuids[t][u] = 0
    BY <2>2, <2>3 DEF TreeInv, TreeIsRooted, is_subscribed_to
  <2>5. find_team_by_uuid(t)'
    BY <2>2, NoneIsFresh DEF find_team_by_uuid
  <2> QED BY <2>2, <2>3, <2>4, <2>5, CounterWritten
<1>4. CASE ~SubscribeStep /\ ~UnsubscribeStep /\ ~TeamStep
  <2>1. CASE UNCHANGED vars \/ AnswerStep
    BY <2>1 DEF vars, dataVars, treeVars, AnswerStep
  <2>2. CASE LoginStep \/ LogoutStep
    BY <2>2, LoginStepWays DEF LoginAs, LogoutStep, handle_logout, treeVars
  <2>3. CASE SendStep \/ UseStep
    BY <2>3 DEF SendStep, UseStep, StoreMessage, SelectContext, treeVars
  <2>4. CASE ChannelStep \/ ThreadStep \/ ReplyStep
    BY <2>4 DEF ChannelStep, ThreadStep, ReplyStep, CreateChannel, CreateThread, CreateReply
  <2> QED BY <1>4, <2>1, <2>2, <2>3, <2>4, NextCases
<1> QED BY <1>1, <1>2, <1>3, <1>4

\* No handler takes away or changes a team, a channel or a thread.
LEMMA TreeGrows ==
  ASSUME TypeOK, [Next]_vars
  PROVE  /\ \A t \in TeamIds : find_team_by_uuid(t) => teams'[t] = teams[t]
         /\ \A c \in ChannelIds : channels[c] # None => channels'[c] = channels[c]
         /\ \A th \in ThreadIds : threads[th] # NoThread => threads'[th] = threads[th]
<1>1. CASE UNCHANGED <<teams, channels, threads>>
  BY <1>1
<1>2. CASE TeamStep
  BY <1>2 DEF TeamStep, CreateTeam, TypeOK
<1>3. CASE ChannelStep
  BY <1>3 DEF ChannelStep, CreateChannel, TypeOK
<1>4. CASE ThreadStep
  BY <1>4 DEF ThreadStep, CreateThread, TypeOK
<1>5. CASE UNCHANGED vars \/ AnswerStep
  BY <1>1, <1>5 DEF vars, dataVars, treeVars, AnswerStep
<1>6. CASE LoginStep \/ LogoutStep
  BY <1>1, <1>6, LoginStepWays DEF LoginAs, LogoutStep, handle_logout, treeVars
<1>7. CASE SendStep \/ UseStep
  BY <1>1, <1>7 DEF SendStep, UseStep, StoreMessage, SelectContext, treeVars
<1>8. CASE SubscribeStep \/ UnsubscribeStep \/ ReplyStep
  BY <1>1, <1>8 DEF SubscribeStep, UnsubscribeStep, ReplyStep, Subscribe, Unsubscribe, CreateReply
<1> QED BY <1>2, <1>3, <1>4, <1>5, <1>6, <1>7, <1>8, NextCases

\* A context that resolves goes on resolving.
LEMMA ResolvesForever ==
  ASSUME TypeOK, [Next]_vars, NEW ctx \in Context, Resolves(ctx)
  PROVE  Resolves(ctx)'
<1>1. find_team_by_uuid(ctx.team) => find_team_by_uuid(ctx.team)'
  BY TreeGrows DEF find_team_by_uuid
<1>2. find_team_by_uuid(ctx.team) /\ find_channel_by_uuid(ctx.team, ctx.channel)
        => find_channel_by_uuid(ctx.team, ctx.channel)'
  BY TreeGrows, NoneIsFresh DEF find_team_by_uuid, find_channel_by_uuid
<1>3. find_channel_by_uuid(ctx.team, ctx.channel) /\ find_thread_by_uuid(ctx.channel, ctx.thread)
        => find_thread_by_uuid(ctx.channel, ctx.thread)'
  BY TreeGrows, NoneIsFresh DEF find_channel_by_uuid, find_thread_by_uuid, NoThread
<1> QED BY <1>1, <1>2, <1>3 DEF Resolves

\* Where the context of a session comes from.
LEMMA ContextChange ==
  ASSUME TypeOK, [Next]_vars, NEW fd \in Fds, is_logged_in(fd)'
  PROVE  \/ is_logged_in(fd) /\ client_contexts'[fd] = client_contexts[fd]
         \/ client_contexts'[fd] = RootContext
         \/ /\ Resolves(client_contexts'[fd])
            /\ client_contexts'[fd].level \in UseLevels
<1> USE DEF TypeOK
<1>1. CASE UNCHANGED <<sessions, client_contexts>>
  BY <1>1 DEF is_logged_in
<1>2. CASE LoginStep
  BY <1>2, LoginStepWays DEF LoginAs, is_logged_in
<1>3. CASE LogoutStep
  BY <1>3 DEF LogoutStep, handle_logout, is_logged_in
<1>4. CASE UseStep
  <2>1. PICK g \in Fds, ctx \in UseRequests : is_logged_in(g) /\ SelectContext(g, ctx)
    BY <1>4 DEF UseStep
  <2>2. CASE fd # g
    BY <2>1, <2>2 DEF SelectContext, accountVars, is_logged_in
  <2>3. CASE fd = g
    <3>1. client_contexts'[fd] = ctx
      BY <2>1, <2>3 DEF SelectContext
    <3>2. ctx.level # NoLevel /\ TargetError(ctx, subscribed_teams(sessions[g])) = NoPacket
      BY <2>1 DEF SelectContext, UseError, NoPacket, Packet
    <3>3. ctx.level \in UseLevels
      BY <3>2, RequestsAreContexts DEF Context
    <3>4. Resolves(ctx)
      BY <3>2, <3>3, TargetErrorMeaning
    <3> QED BY <3>1, <3>3, <3>4
  <2> QED BY <2>2, <2>3
<1>5. CASE UNCHANGED vars \/ AnswerStep
  BY <1>1, <1>5 DEF vars, dataVars, accountVars, AnswerStep
<1>6. CASE SendStep \/ SubscribeStep \/ UnsubscribeStep
  BY <1>1, <1>6 DEF SendStep, StoreMessage, SubscribeStep, Subscribe, UnsubscribeStep, Unsubscribe,
     accountVars
<1>7. CASE TeamStep \/ ChannelStep \/ ThreadStep \/ ReplyStep
  BY <1>1, <1>7 DEF TeamStep, ChannelStep, ThreadStep, ReplyStep, CreateTeam, CreateChannel,
     CreateThread, CreateReply, accountVars
<1> QED BY <1>2, <1>3, <1>4, <1>5, <1>6, <1>7, NextCases

\* Only /create changes the teams, the channels, the threads and the replies.
LEMMA TreeChange ==
  ASSUME TypeOK, [Next]_vars
  PROVE  /\ teams' = teams \/ TeamStep
         /\ channels' = channels \/ ChannelStep
         /\ threads' = threads \/ ThreadStep
         /\ replies' = replies \/ ReplyStep
<1>1. CASE UNCHANGED vars \/ AnswerStep
  BY <1>1 DEF vars, dataVars, treeVars, AnswerStep
<1>2. CASE LoginStep \/ LogoutStep
  BY <1>2, LoginStepWays DEF LoginAs, LogoutStep, handle_logout, treeVars
<1>3. CASE SendStep \/ UseStep
  BY <1>3 DEF SendStep, UseStep, StoreMessage, SelectContext, treeVars
<1>4. CASE SubscribeStep \/ UnsubscribeStep
  BY <1>4 DEF SubscribeStep, UnsubscribeStep, Subscribe, Unsubscribe
<1>5. CASE TeamStep \/ ChannelStep
  BY <1>5 DEF TeamStep, ChannelStep, CreateTeam, CreateChannel
<1>6. CASE ThreadStep \/ ReplyStep
  BY <1>6 DEF ThreadStep, ReplyStep, CreateThread, CreateReply
<1> QED BY <1>1, <1>2, <1>3, <1>4, <1>5, <1>6, NextCases

LEMMA RootedStep == TypeOK /\ TreeInv /\ [Next]_vars => TreeIsRooted'
<1> SUFFICES ASSUME TypeOK, TreeInv, [Next]_vars PROVE TreeIsRooted'
  OBVIOUS
<1> USE DEF TypeOK
<1>1. \A t \in TeamIds, u \in UserIds : is_subscribed_to(t, u)' => find_team_by_uuid(t)'
  <2> SUFFICES ASSUME NEW t \in TeamIds, NEW u \in UserIds, is_subscribed_to(t, u)'
               PROVE  find_team_by_uuid(t)'
    OBVIOUS
  <2>1. CASE is_subscribed_to(t, u)
    BY <2>1, TreeGrows DEF TreeInv, TreeIsRooted, find_team_by_uuid
  <2>2. CASE ~is_subscribed_to(t, u)
    <3>1. member_uuids'[t][u] # member_uuids[t][u]
      BY <2>2 DEF is_subscribed_to
    <3> QED BY <3>1, MemberChange
  <2> QED BY <2>1, <2>2
<1>2. \A c \in ChannelIds : channels'[c] # None => find_team_by_uuid(channels[c])'
  <2>1. CASE channels' = channels
    BY <2>1, TreeGrows DEF TreeInv, TreeIsRooted, find_team_by_uuid
  <2>2. CASE ChannelStep
    <3>1. PICK fd \in Fds, name \in TeamNames : CanCreate(fd, name) /\ CreateChannel(fd)
      BY <2>2 DEF ChannelStep
    <3>2. find_team_by_uuid(client_contexts[fd].team)
      BY <3>1, CreateAllowed DEF CreateChannel, Resolves
    <3> QED BY <3>1, <3>2, TreeGrows DEF CreateChannel, TreeInv, TreeIsRooted, find_team_by_uuid
  <2> QED BY <2>1, <2>2, TreeChange
<1>3. \A th \in ThreadIds :
        /\ threads'[th].channel # None => channels'[threads'[th].channel] # None
        /\ replies'[th] # <<>> => threads'[th].channel # None
  <2>1. CASE threads' = threads /\ replies' = replies
    BY <2>1, TreeGrows DEF TreeInv, TreeIsRooted, Thread
  <2>2. CASE ThreadStep
    <3>1. PICK fd \in Fds, name \in TeamNames : CanCreate(fd, name) /\ CreateThread(fd)
      BY <2>2 DEF ThreadStep
    <3> DEFINE ctx == client_contexts[fd]
    <3>2. find_channel_by_uuid(ctx.team, ctx.channel) /\ find_team_by_uuid(ctx.team)
      BY <3>1, CreateAllowed DEF CreateThread, Resolves
    <3>3. ctx.channel \in ChannelIds /\ channels[ctx.channel] # None /\ ctx.channel # None
      BY <3>2, NoneIsFresh DEF find_channel_by_uuid, find_team_by_uuid
    <3>4. channels' = channels /\ replies' = replies
      BY <3>1 DEF CreateThread
    <3> QED BY <3>1, <3>3, <3>4, TreeGrows DEF CreateThread, TreeInv, TreeIsRooted, Thread, NoThread
  <2>3. CASE ReplyStep
    <3>1. PICK fd \in Fds, name \in TeamNames : CanCreate(fd, name) /\ CreateReply(fd)
      BY <2>3 DEF ReplyStep
    <3> DEFINE ctx == client_contexts[fd]
    <3>2. Resolves(ctx) /\ ctx.level = "USE_THREAD"
      BY <3>1, CreateAllowed DEF CreateReply
    <3>3. ctx.thread \in ThreadIds /\ threads[ctx.thread].channel # None
      BY <3>2, NoneIsFresh DEF Resolves, find_channel_by_uuid, find_thread_by_uuid
    <3> QED BY <3>1, <3>3 DEF CreateReply, WithReply, TreeInv, TreeIsRooted
  <2> QED BY <2>1, <2>2, <2>3, TreeChange
<1> QED BY <1>1, <1>2, <1>3 DEF TreeIsRooted

LEMMA ContextsStep ==
  TypeOK /\ SessionsAgree /\ TreeInv /\ [Next]_vars /\ TypeOK' => ContextResolves'
<1> SUFFICES ASSUME TypeOK, SessionsAgree, TreeInv, [Next]_vars, TypeOK',
                    NEW fd \in Fds, is_logged_in(fd)'
             PROVE  (TargetError(client_contexts[fd], TeamIds) = NoPacket)'
  BY DEF ContextResolves, logged_fds
<1>1. PICK ctx \in Context : ctx = client_contexts'[fd]
  BY DEF TypeOK
<1>2. CASE ctx = RootContext
  BY <1>1, <1>2 DEF TargetError, RootContext, UseContext
<1>3. CASE ctx.level \in UseLevels /\ Resolves(ctx)
  <2>1. Resolves(ctx)'
    BY <1>3, ResolvesForever
  <2> QED BY <1>1, <1>3, <2>1 DEF TargetError, Resolves, UseLevels, find_team_by_uuid
<1>4. CASE is_logged_in(fd) /\ ctx = client_contexts[fd]
  <2>1. ctx.level \in UseLevels
    BY <1>4 DEF SessionsAgree, Context
  <2>2. TargetError(ctx, TeamIds) = NoPacket
    BY <1>4 DEF TreeInv, ContextResolves, logged_fds
  <2>3. Resolves(ctx)
    BY <2>1, <2>2, TargetErrorMeaning
  <2> QED BY <1>3, <2>1, <2>3
<1> QED BY <1>1, <1>2, <1>3, <1>4, ContextChange

LEMMA TreeStep ==
  TypeOK /\ SessionsAgree /\ TreeInv /\ [Next]_vars /\ TypeOK' => TreeInv'
<1> SUFFICES ASSUME TypeOK, SessionsAgree, TreeInv, [Next]_vars, TypeOK' PROVE TreeInv'
  OBVIOUS
<1>1. MembersOnce'
  <2>1. CASE member_uuids' = member_uuids
    BY <2>1 DEF TreeInv, MembersOnce
  <2>2. CASE member_uuids' # member_uuids
    BY <2>2, MemberChange DEF TreeInv, MembersOnce
  <2> QED BY <2>1, <2>2
<1> QED BY <1>1, RootedStep, ContextsStep DEF TreeInv

THEOREM TreeInvariant == Spec => []TreeInv
<1>1. TypeOK /\ SessionsAgree /\ TreeInv /\ [Next]_vars /\ TypeOK' => TreeInv'
  BY TreeStep
<1> QED BY <1>1, TreeInit, TypeCorrect, SessionsAlwaysAgree, PTL DEF Spec

\* What /use stored for a connection can be looked up for ever after: no other
\* client's command can make it dangle, so that handle_create, handle_list and
\* handle_info never answer ERR_UNKNOWN_TEAM, _CHANNEL or _THREAD.
THEOREM ContextsAlwaysResolve == Spec => []ContextResolves
BY TreeInvariant, PTL DEF TreeInv

\* Channels, threads, replies and members never lose what they belong to.
THEOREM TreeStaysRooted == Spec => []TreeIsRooted
BY TreeInvariant, PTL DEF TreeInv

\* However often a user subscribes, from however many connections, one
\* /unsubscribe is enough (handle_subscribe, handle_unsubscribe).
THEOREM MembersStayOnce == Spec => []MembersOnce
BY TreeInvariant, PTL DEF TreeInv

-----------------------------------------------------------------------------
(* What a step may never do *)

\* Channels, threads and replies appear only in a team that the user whose
\* command it is is subscribed to at that moment, however old the context the
\* command relies on (handle_create; RFC section 13, rule 2).
THEOREM ContentAlwaysBySubscribers == Spec => ContentBySubscribers
<1> DEFINE Content ==
      /\ \A c \in ChannelIds :
           channels'[c] # channels[c] => is_subscribed_to(channels'[c], caller)
      /\ \A th \in ThreadIds :
           threads'[th] # threads[th] \/ replies'[th] # replies[th]
             => is_subscribed_to(ThreadTeam(th)', caller)
<1>1. ASSUME TypeOK, [Next]_vars PROVE Content
  <2> USE <1>1 DEF TypeOK
  <2>1. CASE ChannelStep
    <3>1. PICK fd \in Fds, name \in TeamNames : CanCreate(fd, name) /\ CreateChannel(fd)
      BY <2>1 DEF ChannelStep
    <3> DEFINE ctx == client_contexts[fd]
    <3>2. is_subscribed_to(ctx.team, sessions[fd])
      BY <3>1, CreateAllowed DEF CreateChannel
    <3>3. caller = sessions[fd] /\ threads' = threads /\ replies' = replies
      BY <3>1 DEF CreateChannel, RespondAndPush, caller
    <3>4. \A c \in ChannelIds : channels'[c] # channels[c] => channels'[c] = ctx.team
      BY <3>1 DEF CreateChannel
    <3> QED BY <3>2, <3>3, <3>4
  <2>2. CASE ThreadStep
    <3>1. PICK fd \in Fds, name \in TeamNames : CanCreate(fd, name) /\ CreateThread(fd)
      BY <2>2 DEF ThreadStep
    <3> DEFINE ctx == client_contexts[fd]
    <3>2. is_subscribed_to(ctx.team, sessions[fd]) /\ find_channel_by_uuid(ctx.team, ctx.channel)
      BY <3>1, CreateAllowed DEF CreateThread, Resolves
    <3>3. caller = sessions[fd] /\ channels' = channels /\ replies' = replies
      BY <3>1 DEF CreateThread, RespondAndPush, caller
    <3>4. \A th \in ThreadIds : threads'[th] # threads[th] => ThreadTeam(th)' = ctx.team
      BY <3>1, <3>2, <3>3 DEF CreateThread, ThreadTeam, find_channel_by_uuid
    <3> QED BY <3>2, <3>3, <3>4
  <2>3. CASE ReplyStep
    <3>1. PICK fd \in Fds, name \in TeamNames : CanCreate(fd, name) /\ CreateReply(fd)
      BY <2>3 DEF ReplyStep
    <3> DEFINE ctx == client_contexts[fd]
    <3>2. is_subscribed_to(ctx.team, sessions[fd]) /\ Resolves(ctx) /\ ctx.level = "USE_THREAD"
      BY <3>1, CreateAllowed DEF CreateReply
    <3>3. caller = sessions[fd] /\ channels' = channels /\ threads' = threads
      BY <3>1 DEF CreateReply, RespondAndPush, caller
    <3>4. \A th \in ThreadIds : replies'[th] # replies[th] => th = ctx.thread
      BY <3>1 DEF CreateReply, WithReply
    <3>5. \A th \in ThreadIds : th = ctx.thread => channels[threads[th].channel] = ctx.team
      BY <3>2 DEF Resolves, find_channel_by_uuid, find_thread_by_uuid
    <3>6. \A th \in ThreadIds : replies'[th] # replies[th] => ThreadTeam(th)' = ctx.team
      BY <3>3, <3>4, <3>5 DEF ThreadTeam
    <3> QED BY <3>2, <3>3, <3>6
  <2>4. CASE channels' = channels /\ threads' = threads /\ replies' = replies
    BY <2>4
  <2> QED BY <2>1, <2>2, <2>3, <2>4, TreeChange
<1>2. TypeOK /\ [Next]_vars => [Content]_vars
  BY <1>1
<1> QED BY <1>2, TypeCorrect, PTL DEF Spec, ContentBySubscribers

\* Which answer or event tells which way a step took.
LEMMA Causes ==
  ASSUME TypeOK, Next
  PROVE  /\ Answered("RES_UNSUBSCRIBE_OK") => UnsubscribeStep
         /\ Answered("RES_LOGIN_OK") => LoginStep
         /\ ~Pushed("RES_LOGIN_OK")
         /\ Pushed("EVT_MESSAGE_RECEIVED") => SendStep
         /\ result'.response.code \in Reserved =>
              Answered("RES_UNSUBSCRIBE_OK") \/ Answered("RES_LOGIN_OK")
         /\ Pushed("EVT_TEAM_CREATED") => TeamStep
         /\ Pushed("EVT_CHANNEL_CREATED") => ChannelStep
         /\ Pushed("EVT_THREAD_CREATED") => ThreadStep
         /\ Pushed("EVT_REPLY_CREATED") => ReplyStep
         /\ Pushed("EVT_USER_LOGGED_IN") => LoginStep
         /\ Pushed("EVT_USER_LOGGED_OUT") => LogoutStep
<1>1. CASE AnswerStep
  BY <1>1 DEF AnswerStep, Answered, Pushed, NoPacket, Packet, Reserved
<1>2. CASE LoginStep
  <2>1. PICK fd \in Fds, u \in UserIds, name \in Names :
          \/ Respond(fd, "RES_LOGIN_OK", <<u, name>>)
          \/ RespondAndPush(fd, "RES_LOGIN_OK", <<u, name>>,
               Packet("EVT_USER_LOGGED_IN", <<u, name>>), logged_fds \cup {fd})
    BY <1>2, LoginStepWays, Zenon DEF LoginAs
  <2>2. result'.response.code = "RES_LOGIN_OK"
        /\ result'.push.code \in {"NO_PACKET", "EVT_USER_LOGGED_IN"}
    BY <2>1 DEF Respond, RespondAndPush, Packet, NoPacket
  <2> QED BY <1>2, <2>2 DEF Answered, Pushed
<1>3. CASE LogoutStep
  <2>1. result'.response.code \notin Reserved /\ result'.push.code \in {"NO_PACKET", "EVT_USER_LOGGED_OUT"}
    BY <1>3 DEF LogoutStep, handle_logout, Respond, RespondAndPush, Packet, NoPacket, Reserved
  <2> QED BY <1>3, <2>1 DEF Answered, Pushed, Reserved
<1>4. CASE SendStep
  <2>1. result'.response.code \notin Reserved /\ result'.push.code \in {"NO_PACKET", "EVT_MESSAGE_RECEIVED"}
    BY <1>4 DEF SendStep, StoreMessage, Respond, RespondAndPush, Packet, NoPacket, Reserved
  <2> QED BY <1>4, <2>1 DEF Answered, Pushed, Reserved
<1>5. CASE SubscribeStep
  <2>1. result'.response.code \notin Reserved /\ result'.push.code \in {"NO_PACKET"}
    BY <1>5 DEF SubscribeStep, Subscribe, Respond, RespondAndPush, Packet, NoPacket, Reserved
  <2> QED BY <1>5, <2>1 DEF Answered, Pushed, Reserved
<1>6. CASE UnsubscribeStep
  <2>1. result'.response.code = "RES_UNSUBSCRIBE_OK" /\ result'.push.code = "NO_PACKET"
    BY <1>6 DEF UnsubscribeStep, Unsubscribe, Respond, Packet, NoPacket
  <2> QED BY <1>6, <2>1 DEF Answered, Pushed
<1>7. CASE UseStep
  <2>1. PICK fd \in Fds, ctx \in UseRequests : is_logged_in(fd) /\ SelectContext(fd, ctx)
    BY <1>7 DEF UseStep
  <2>2. ctx \in Context /\ ctx.level # NoLevel
    BY <2>1, RequestsAreContexts DEF SelectContext, UseError, NoPacket, Packet
  <2>3. TargetInfo(ctx, sessions[fd]).code \notin Reserved
    BY <2>2, InfoCodes
  <2>4. /\ result'.response.code = TargetInfo(ctx, sessions[fd]).code
        /\ result'.push.code = "NO_PACKET"
    BY <2>1 DEF SelectContext, Respond, Packet, NoPacket
  <2> QED BY <2>3, <2>4 DEF Answered, Pushed, Reserved
<1>8. CASE TeamStep
  <2>1. result'.response.code \notin Reserved /\ result'.push.code \in {"EVT_TEAM_CREATED"}
    BY <1>8 DEF TeamStep, CreateTeam, Respond, RespondAndPush, Packet, NoPacket, Reserved
  <2> QED BY <1>8, <2>1 DEF Answered, Pushed, Reserved
<1>9. CASE ChannelStep
  <2>1. result'.response.code \notin Reserved /\ result'.push.code \in {"EVT_CHANNEL_CREATED"}
    BY <1>9 DEF ChannelStep, CreateChannel, Respond, RespondAndPush, Packet, NoPacket, Reserved
  <2> QED BY <1>9, <2>1 DEF Answered, Pushed, Reserved
<1>10. CASE ThreadStep
  <2>1. result'.response.code \notin Reserved /\ result'.push.code \in {"EVT_THREAD_CREATED"}
    BY <1>10 DEF ThreadStep, CreateThread, Respond, RespondAndPush, Packet, NoPacket, Reserved
  <2> QED BY <1>10, <2>1 DEF Answered, Pushed, Reserved
<1>11. CASE ReplyStep
  <2>1. result'.response.code \notin Reserved /\ result'.push.code \in {"EVT_REPLY_CREATED"}
    BY <1>11 DEF ReplyStep, CreateReply, Respond, RespondAndPush, Packet, NoPacket, Reserved
  <2> QED BY <1>11, <2>1 DEF Answered, Pushed, Reserved
<1> QED BY <1>1, <1>2, <1>3, <1>4, <1>5, <1>6, <1>7, <1>8, <1>9, <1>10, <1>11, NextCases

\* After RES_UNSUBSCRIBE_OK the caller is out of the team, however often the
\* user subscribed before (handle_subscribe, handle_unsubscribe).
THEOREM UnsubscribingIsFinal == Spec => UnsubscribeEnds
<1> DEFINE Ends ==
      Answered("RES_UNSUBSCRIBE_OK") =>
        \A t \in TeamIds :
          result'.response.payload = <<t>> => member_uuids'[t][caller] = 0
<1>1. ASSUME TypeOK, TreeInv, Next PROVE Ends
  <2> SUFFICES ASSUME Answered("RES_UNSUBSCRIBE_OK"),
                      NEW t \in TeamIds, result'.response.payload = <<t>>
               PROVE  member_uuids'[t][caller] = 0
    OBVIOUS
  <2>1. PICK fd \in Fds, s \in TeamIds : is_logged_in(fd) /\ Unsubscribe(fd, s)
    BY <1>1, Causes DEF UnsubscribeStep
  <2>2. s = t /\ caller = sessions[fd]
    BY <2>1 DEF Unsubscribe, Respond, Packet, caller
  <2>3. sessions[fd] \in UserIds /\ is_subscribed_to(t, sessions[fd])
    BY <1>1, <2>1, <2>2 DEF TypeOK, is_logged_in, Unsubscribe, MemberError, NoPacket, Packet
  <2>4. member_uuids[t][sessions[fd]] = 1
    BY <1>1, <2>3 DEF TreeInv, MembersOnce, is_subscribed_to
  <2>5. member_uuids'[t][sessions[fd]] = member_uuids[t][sessions[fd]] - 1
    BY <1>1, <2>1, <2>2, <2>3 DEF Unsubscribe, TypeOK
  <2> QED BY <2>2, <2>4, <2>5
<1>2. TypeOK /\ TreeInv /\ [Next]_vars => [Ends]_vars
  BY <1>1
<1> QED BY <1>2, TypeCorrect, TreeInvariant, PTL DEF Spec, UnsubscribeEnds

\* A private message is pushed only to descriptors its receiver is logged in on
\* (handle_send; RFC section 13, rule 4).
THEOREM PrivateStaysPrivate == Spec => PrivateToReceiver
<1> DEFINE Private ==
      Pushed("EVT_MESSAGE_RECEIVED") =>
        \A fd \in result'.fds : sessions[fd] = messages'[Len(messages')].receiver
<1>1. ASSUME TypeOK, Next PROVE Private
  <2> SUFFICES ASSUME Pushed("EVT_MESSAGE_RECEIVED")
               PROVE  \A fd \in result'.fds : sessions[fd] = messages'[Len(messages')].receiver
    OBVIOUS
  <2>1. PICK fd \in Fds, u \in UserIds, body \in Bodies :
          is_logged_in(fd) /\ StoreMessage(fd, u, body)
    BY <1>1, Causes DEF SendStep
  <2>2. messages'[Len(messages')].receiver = u
    <3> DEFINE m == [sender |-> sessions[fd], receiver |-> u, body |-> body]
    <3>1. m \in Message /\ messages \in Seq(Message)
      BY <1>1, <2>1 DEF TypeOK, is_logged_in, Message
    <3>2. messages' = Append(messages, m) /\ m.receiver = u
      BY <2>1 DEF StoreMessage
    <3> HIDE DEF m
    <3>3. Len(messages') = Len(messages) + 1 /\ messages'[Len(messages) + 1] = m
      BY <3>1, <3>2
    <3> QED BY <3>2, <3>3
  <2>3. result'.fds \subseteq SessionsOf(u)
    BY <2>1 DEF StoreMessage, Respond, RespondAndPush
  <2> QED BY <2>2, <2>3 DEF SessionsOf
<1>2. TypeOK /\ [Next]_vars => [Private]_vars
  BY <1>1
<1> QED BY <1>2, TypeCorrect, PTL DEF Spec, PrivateToReceiver

\* EVT_USER_LOGGED_IN is pushed by the one step that brings its user online, to
\* every session there then is; EVT_USER_LOGGED_OUT only by one that takes its
\* user offline (was_online in handle_login, still_online in handle_logout).
THEOREM PresenceIsTrue == Spec => PresenceEvents
<1> DEFINE About(u) == result'.push.payload # <<>> /\ result'.push.payload[1] = u
           Presence ==
             \A u \in UserIds :
               /\ ~is_user_online(u) /\ is_user_online(u)'
                    <=> Pushed("EVT_USER_LOGGED_IN") /\ About(u)
               /\ Pushed("EVT_USER_LOGGED_IN") => result'.fds = logged_fds'
               /\ Pushed("EVT_USER_LOGGED_OUT") /\ About(u)
                    => /\ is_user_online(u) /\ ~is_user_online(u)'
                       /\ result'.fds = logged_fds' \cup {result'.to}
<1>1. ASSUME TypeOK, Next PROVE Presence
  <2> USE <1>1 DEF TypeOK
  <2>1. CASE LoginStep
    <3>1. PICK fd \in Fds, v \in UserIds, name \in Names :
            /\ sessions' = [sessions EXCEPT ![fd] = v]
            /\ IF was_online(v)
               THEN Respond(fd, "RES_LOGIN_OK", <<v, name>>)
               ELSE RespondAndPush(fd, "RES_LOGIN_OK", <<v, name>>,
                      Packet("EVT_USER_LOGGED_IN", <<v, name>>), logged_fds \cup {fd})
      BY <2>1, LoginStepWays, Zenon DEF LoginAs
    <3>2. ~Pushed("EVT_USER_LOGGED_OUT")
      BY <3>1 DEF Respond, RespondAndPush, Packet, NoPacket, Pushed
    <3>3. \A u \in UserIds : is_user_online(u)' => u = v \/ is_user_online(u)
      BY <3>1 DEF is_user_online
    <3>4. is_user_online(v)'
      BY <3>1 DEF is_user_online
    <3>5. logged_fds' = logged_fds \cup {fd}
      BY <3>1, NoneIsFresh DEF logged_fds, is_logged_in
    <3>6. CASE is_user_online(v)
      <4>1. ~Pushed("EVT_USER_LOGGED_IN")
        BY <3>1, <3>6 DEF was_online, Respond, Packet, NoPacket, Pushed
      <4> QED BY <3>2, <3>3, <3>6, <4>1
    <3>7. CASE ~is_user_online(v)
      <4>1. /\ Pushed("EVT_USER_LOGGED_IN") /\ result'.fds = logged_fds \cup {fd}
            /\ result'.push.payload = <<v, name>>
        BY <3>1, <3>7 DEF was_online, RespondAndPush, Packet, Pushed
      <4>2. \A u \in UserIds : About(u) <=> u = v
        BY <4>1
      <4> QED BY <3>2, <3>3, <3>4, <3>5, <3>7, <4>1, <4>2
    <3> QED BY <3>6, <3>7
  <2>2. CASE LogoutStep
    <3>1. PICK fd \in Fds : handle_logout(fd)
      BY <2>2 DEF LogoutStep
    <3>2. sessions[fd] \in UserIds /\ sessions' = [sessions EXCEPT ![fd] = None]
      BY <3>1 DEF handle_logout, is_logged_in
    <3>3. \A u \in UserIds : is_user_online(u)' => is_user_online(u)
      BY <3>2, NoneIsFresh DEF is_user_online
    <3>4. ~Pushed("EVT_USER_LOGGED_IN")
      BY <3>1 DEF handle_logout, Respond, RespondAndPush, Packet, NoPacket, Pushed
    <3>5. ASSUME NEW u \in UserIds, Pushed("EVT_USER_LOGGED_OUT"), About(u)
          PROVE  /\ is_user_online(u) /\ ~is_user_online(u)'
                 /\ result'.fds = logged_fds' \cup {result'.to}
      <4>1. /\ ~still_online(fd) /\ result'.push.payload[1] = sessions[fd]
            /\ result'.fds = logged_fds /\ result'.to = fd
        BY <3>1, <3>5 DEF handle_logout, Respond, RespondAndPush, Packet, NoPacket, Pushed
      <4>2. u = sessions[fd]
        BY <3>5, <4>1
      <4>3. is_user_online(u) /\ ~is_user_online(u)'
        BY <3>2, <4>1, <4>2, NoneIsFresh DEF is_user_online, still_online
      <4>4. logged_fds = logged_fds' \cup {fd}
        BY <3>2, NoneIsFresh DEF logged_fds, is_logged_in
      <4> QED BY <4>1, <4>3, <4>4
    <3> QED BY <3>3, <3>4, <3>5
  <2>3. CASE ~LoginStep /\ ~LogoutStep
    <3>1. ~Pushed("EVT_USER_LOGGED_IN") /\ ~Pushed("EVT_USER_LOGGED_OUT")
      BY <2>3, Causes
    <3>2. sessions' = sessions
      BY <2>3, AccountFrame
    <3> QED BY <3>1, <3>2 DEF is_user_online
  <2> QED BY <2>1, <2>2, <2>3
<1>2. TypeOK /\ [Next]_vars => [Presence]_vars
  BY <1>1
<1> QED BY <1>2, TypeCorrect, PTL DEF Spec, PresenceEvents

\* A sequence keeps what it holds when an element is appended.
LEMMA AppendKeepsPrefix ==
  ASSUME NEW S, NEW s \in Seq(S), NEW x \in S
  PROVE  s = SubSeq(Append(s, x), 1, Len(s))
<1> DEFINE t == SubSeq(Append(s, x), 1, Len(s))
<1>1. Len(s) \in Nat /\ \A i \in 1 .. Len(s) : Append(s, x)[i] = s[i] /\ s[i] \in S
  BY AppendProperties
<1>2. t \in Seq(S) /\ Len(t) = Len(s) /\ \A i \in 1 .. Len(s) : t[i] = Append(s, x)[i]
  <2>1. /\ t \in Seq(S)
        /\ Len(t) = IF 1 <= Len(s) THEN Len(s) - 1 + 1 ELSE 0
        /\ \A i \in 1 .. Len(s) - 1 + 1 : t[i] = Append(s, x)[1 + i - 1]
    BY <1>1, SubSeqProperties
  <2> HIDE DEF t
  <2> QED BY <1>1, <2>1
<1> HIDE DEF t
<1>3. s = t
  BY <1>1, <1>2, SeqEqual
<1> QED BY <1>3 DEF t

\* No command takes away, moves or renames what an earlier one created, whoever
\* sent either (handle_login, handle_send, handle_create).
THEOREM NothingIsLost == Spec => NothingLost
<1> DEFINE Kept ==
      /\ \A u \in UserIds : find_user_by_uuid(u) => users'[u].name = users[u].name
      /\ \A t \in TeamIds : find_team_by_uuid(t) => teams'[t] = teams[t]
      /\ \A c \in ChannelIds : channels[c] # None => channels'[c] = channels[c]
      /\ \A th \in ThreadIds :
           /\ threads[th] # NoThread => threads'[th] = threads[th]
           /\ replies[th] = SubSeq(replies'[th], 1, Len(replies[th]))
      /\ messages = SubSeq(messages', 1, Len(messages))
<1>1. ASSUME TypeOK, Next PROVE Kept
  <2> USE <1>1 DEF TypeOK
  <2>1. \A u \in UserIds : find_user_by_uuid(u) => users'[u].name = users[u].name
    <3>1. CASE LoginStep
      <4>1. PICK fd \in Fds, v \in UserIds, name \in Names : LoginAs(fd, v, name)
        BY <3>1, LoginStepWays
      <4> QED BY <4>1 DEF LoginAs, find_user_by_uuid
    <3>2. CASE LogoutStep
      BY <3>2 DEF LogoutStep, handle_logout, is_logged_in
    <3>3. CASE ~LoginStep /\ ~LogoutStep
      BY <3>3, AccountFrame
    <3> QED BY <3>1, <3>2, <3>3
  <2>2. \A th \in ThreadIds : replies[th] = SubSeq(replies'[th], 1, Len(replies[th]))
    <3> SUFFICES ASSUME NEW th \in ThreadIds
                 PROVE  replies[th] = SubSeq(replies'[th], 1, Len(replies[th]))
      OBVIOUS
    <3>1. CASE replies'[th] = replies[th]
      BY <3>1, SubSeqFull
    <3>2. CASE replies'[th] # replies[th]
      <4>1. ReplyStep
        BY <3>2, TreeChange DEF ThreadStep, CreateThread
      <4>2. PICK fd \in Fds, name \in TeamNames : CanCreate(fd, name) /\ CreateReply(fd)
        BY <4>1 DEF ReplyStep
      <4>3. sessions[fd] \in UserIds /\ replies'[th] = Append(replies[th], sessions[fd])
        BY <3>2, <4>2 DEF CreateReply, WithReply, CanCreate, is_logged_in
      <4> QED BY <4>3, AppendKeepsPrefix
    <3> QED BY <3>1, <3>2
  <2>3. messages = SubSeq(messages', 1, Len(messages))
    <3>1. CASE messages' = messages
      BY <3>1, SubSeqFull
    <3>2. CASE SendStep
      <4>1. PICK fd \in Fds, u \in UserIds, body \in Bodies :
              is_logged_in(fd) /\ StoreMessage(fd, u, body)
        BY <3>2 DEF SendStep
      <4> DEFINE m == [sender |-> sessions[fd], receiver |-> u, body |-> body]
      <4>2. m \in Message /\ messages' = Append(messages, m)
        BY <4>1 DEF StoreMessage, is_logged_in, Message
      <4> HIDE DEF m
      <4> QED BY <4>2, AppendKeepsPrefix
    <3>3. CASE AnswerStep \/ LoginStep \/ LogoutStep \/ UseStep
      BY <3>1, <3>3, LoginStepWays
         DEF AnswerStep, LoginAs, LogoutStep, UseStep, handle_logout, SelectContext, dataVars,
             accountVars
    <3>4. CASE SubscribeStep \/ UnsubscribeStep
      BY <3>1, <3>4 DEF SubscribeStep, UnsubscribeStep, Subscribe, Unsubscribe, accountVars
    <3>5. CASE TeamStep \/ ChannelStep \/ ThreadStep \/ ReplyStep
      BY <3>1, <3>5 DEF TeamStep, ChannelStep, ThreadStep, ReplyStep, CreateTeam, CreateChannel,
         CreateThread, CreateReply, accountVars
    <3> QED BY <3>2, <3>3, <3>4, <3>5, NextCases
  <2> QED BY <2>1, <2>2, <2>3, TreeGrows
<1>2. TypeOK /\ [Next]_vars => [Kept]_vars
  BY <1>1
<1> QED BY <1>2, TypeCorrect, PTL DEF Spec, NothingLost

-----------------------------------------------------------------------------
(* The handlers implement the forum                                         *)
(*                                                                         *)
(* Each way a step can change the state (NextCases) is one act of the      *)
(* forum.  That a handler let its caller through comes from CreateAllowed, *)
(* that a team which is new has no members from TreeIsRooted, that one     *)
(* erase ends a membership from MembersOnce, that a new account takes no   *)
(* name that somebody has from FirstOfName.                                *)

\* What is UNCHANGED here is UNCHANGED in the forum.
LEMMA SamePlaces ==
  /\ UNCHANGED member_uuids => UNCHANGED MembersOf
  /\ UNCHANGED sessions => UNCHANGED OnlineUsers
  /\ UNCHANGED users => UNCHANGED NameOfUser
BY DEF MembersOf, is_subscribed_to, OnlineUsers, is_user_online, NameOfUser

\* A handler that pushes no event tells nobody anything.
LEMMA Quiet ==
  ASSUME result'.push = NoPacket, result'.fds = {}
  PROVE  Promised!Silence
<1>1. result'.push.code = "NO_PACKET"
  BY DEF NoPacket, Packet
<1>2. Reached' = {}
  BY DEF Reached
<1>3. Heard' = [event |-> "NO_PACKET", to |-> {}]
  BY <1>1, <1>2 DEF Heard
<1> QED BY <1>3 DEF Promised!Silence

\* The connections of every user who is online, but for the one that is answered, are
\* either all in the push or, if the user is not in the audience, all outside it.
PushedTo(audience) ==
  \A g \in Fds, u \in UserIds :
    g # result'.to /\ sessions'[g] = u => (g \in result'.fds <=> u \in audience)

\* An event so pushed tells the audience.
LEMMA Told ==
  ASSUME NEW audience, NEW actor, PushedTo(audience),
         \A u \in UserIds : sessions'[result'.to] = u => u = actor
  PROVE  Promised!Tell(result'.push.code, audience, actor)
<1> USE DEF PushedTo
<1>1. \A u \in UserIds : Reachable(u)' = {g \in Fds : sessions'[g] = u /\ g # result'.to}
  BY DEF Reachable, SessionsOf
<1>2. \A u \in UserIds : u \in Reached' =>
        u \in audience /\ u \in OnlineUsers' /\ Reachable(u)' \subseteq result'.fds
  BY <1>1 DEF Reached, OnlineUsers, is_user_online
<1>3. \A u \in UserIds : u \in audience /\ u \in OnlineUsers' /\ u # actor => u \in Reached'
  BY <1>1 DEF Reached, OnlineUsers, is_user_online
<1>4. Heard' = [event |-> result'.push.code, to |-> Reached']
  BY <1>2 DEF Heard, Reached
<1>5. Reached' \subseteq UserIds /\ OnlineUsers' \subseteq UserIds
  BY DEF Reached, OnlineUsers
<1>6. CASE actor \in Reached'
  <2>1. Reached' = (audience \ {}) \cap OnlineUsers'
    BY <1>2, <1>3, <1>5, <1>6
  <2> QED BY <1>4, <2>1 DEF Promised!Tell
<1>7. CASE actor \notin Reached'
  <2>1. Reached' = (audience \ {actor}) \cap OnlineUsers'
    BY <1>2, <1>3, <1>5, <1>7
  <2> QED BY <1>4, <2>1 DEF Promised!Tell
<1> QED BY <1>6, <1>7

\* A push to every session reaches every user who is online.
LEMMA ToEverybody ==
  ASSUME logged_fds' \subseteq result'.fds
  PROVE  PushedTo(UserIds)
BY NoneIsFresh DEF PushedTo, logged_fds, is_logged_in

\* A push to the sessions of a team's members reaches those members who are online.
LEMMA ToMembers ==
  ASSUME NEW t \in TeamIds, result'.fds = team_member_fds(t), UNCHANGED sessions
  PROVE  PushedTo(MembersOf[t])
BY NoneIsFresh DEF PushedTo, team_member_fds, logged_fds, is_logged_in, MembersOf

-----------------------------------------------------------------------------
(* One lemma per way to change the state *)

LEMMA AnswerIsNothing ==
  ASSUME AnswerStep
  PROVE  Promised!ForumNext
<1>1. UNCHANGED dataVars /\ Promised!Silence
  BY Quiet DEF AnswerStep
<1>2. Promised!Nothing
  BY <1>1, SamePlaces DEF Promised!Nothing, Promised!peopleVars, Promised!placeVars, dataVars,
     accountVars, treeVars
<1> QED BY <1>2 DEF Promised!ForumNext

LEMMA UseIsNothing ==
  ASSUME UseStep
  PROVE  Promised!ForumNext
<1>1. /\ UNCHANGED <<accountVars, treeVars>>
      /\ result'.push = NoPacket /\ result'.fds = {}
  BY DEF UseStep, SelectContext, Respond
<1>2. Promised!Nothing
  BY <1>1, Quiet, SamePlaces DEF Promised!Nothing, Promised!peopleVars, Promised!placeVars,
     accountVars, treeVars
<1> QED BY <1>2 DEF Promised!ForumNext

LEMMA LoginIsSignIn ==
  ASSUME TypeOK, AccountInv, LoginStep
  PROVE  Promised!ForumNext
<1> USE DEF TypeOK, User
<1>0. PICK fd \in Fds, u \in UserIds, name \in Names : LoginAs(fd, u, name)
  BY LoginStepWays
<1>1. /\ users' \in [UserIds -> User] /\ users'[u].name = name
      /\ \A v \in UserIds \ {u} : users'[v] = users[v]
      /\ \/ users[u].name = name
         \/ users[u].name = None /\ (name \in FullNames \/ find_user_by_name(name) = {})
      /\ sessions' = [sessions EXCEPT ![fd] = u]
      /\ IF was_online(u)
         THEN Respond(fd, "RES_LOGIN_OK", <<u, name>>)
         ELSE RespondAndPush(fd, "RES_LOGIN_OK", <<u, name>>,
                Packet("EVT_USER_LOGGED_IN", <<u, name>>), logged_fds \cup {fd})
      /\ UNCHANGED <<messages, treeVars>>
  BY <1>0, Zenon DEF LoginAs
<1> DEFINE gone == OnlineUsers \ OnlineUsers'
<1>3. u \notin gone /\ gone \subseteq OnlineUsers /\ OnlineUsers' = (OnlineUsers \ gone) \cup {u}
  BY <1>1 DEF OnlineUsers, is_user_online
<1>4. \A v \in gone : v = sessions[fd]
  BY <1>1 DEF OnlineUsers, is_user_online
<1>5. gone \in {{}} \cup {{v} : v \in OnlineUsers \ {u}}
  <2>1. CASE gone = {}
    BY <2>1
  <2>2. CASE gone # {}
    <3>1. sessions[fd] \in gone /\ gone = {sessions[fd]}
      BY <1>4, <2>2
    <3> QED BY <1>3, <3>1
  <2> QED BY <2>1, <2>2
<1>6. \/ NameOfUser[u] = name
      \/ NameOfUser[u] = None /\ (name \in FullNames \/ \A v \in UserIds : NameOfUser[v] # name)
  <2>1. ASSUME find_user_by_name(name) = {}, NEW v \in UserIds PROVE users[v].name # name
    <3>1. name # None
      BY NoneIsFresh
    <3> QED BY <2>1, <3>1 DEF AccountInv, FirstOfName, find_user_by_name, find_user_by_uuid
  <2> QED BY <1>1, <2>1 DEF NameOfUser
<1>7. NameOfUser' = [NameOfUser EXCEPT ![u] = name]
  BY <1>1 DEF NameOfUser
<1>8. IF u \in OnlineUsers THEN Promised!Silence
      ELSE Promised!Tell("EVT_USER_LOGGED_IN", UserIds, u)
  <2>1. CASE u \in OnlineUsers
    <3>1. result'.push = NoPacket /\ result'.fds = {}
      BY <1>1, <2>1 DEF was_online, OnlineUsers, Respond
    <3> QED BY <2>1, <3>1, Quiet
  <2>2. CASE u \notin OnlineUsers
    <3>1. /\ result'.push.code = "EVT_USER_LOGGED_IN" /\ result'.fds = logged_fds \cup {fd}
          /\ result'.to = fd
      BY <1>1, <2>2 DEF was_online, OnlineUsers, RespondAndPush, Packet
    <3>2. logged_fds' \subseteq result'.fds
      BY <1>1, <3>1 DEF logged_fds, is_logged_in
    <3>3. sessions'[result'.to] = u
      BY <1>1, <3>1
    <3> QED BY <2>2, <3>1, <3>2, <3>3, ToEverybody, Told
  <2> QED BY <2>1, <2>2
<1>9. UNCHANGED <<messages, teams, MembersOf, channels, threads, replies>>
  BY <1>1, SamePlaces DEF treeVars
<1>10. Promised!SignIn(u, name)
  BY <1>3, <1>5, <1>6, <1>7, <1>8, <1>9 DEF Promised!SignIn, Promised!placeVars
<1> QED BY <1>10 DEF Promised!ForumNext

LEMMA LogoutIsSignOut ==
  ASSUME TypeOK, LogoutStep
  PROVE  Promised!ForumNext
<1> USE DEF TypeOK, User
<1>1. PICK fd \in Fds : handle_logout(fd)
  BY DEF LogoutStep
<1> DEFINE u == sessions[fd]
<1>2. /\ u \in UserIds
      /\ sessions' = [sessions EXCEPT ![fd] = None]
      /\ users' = [users EXCEPT ![u].is_logged = still_online(fd)]
      /\ UNCHANGED <<messages, treeVars>>
  BY <1>1 DEF handle_logout, is_logged_in
<1>3. UNCHANGED <<NameOfUser, messages, teams, MembersOf, channels, threads, replies>>
  BY <1>2, SamePlaces DEF treeVars, NameOfUser
<1>4. CASE still_online(fd)
  <2>1. OnlineUsers' = OnlineUsers
    BY <1>2, <1>4, NoneIsFresh DEF OnlineUsers, is_user_online, still_online
  <2>2. Promised!Silence
    BY <1>1, <1>4, Quiet DEF handle_logout, Respond
  <2>3. Promised!Nothing
    BY <1>3, <2>1, <2>2 DEF Promised!Nothing, Promised!peopleVars, Promised!placeVars
  <2> QED BY <2>3 DEF Promised!ForumNext
<1>5. CASE ~still_online(fd)
  <2>1. u \in OnlineUsers /\ OnlineUsers' = OnlineUsers \ {u}
    BY <1>2, <1>5, NoneIsFresh DEF OnlineUsers, is_user_online, still_online
  <2>2. /\ result'.push.code = "EVT_USER_LOGGED_OUT" /\ result'.fds = logged_fds
        /\ result'.to = fd
    BY <1>1, <1>5 DEF handle_logout, RespondAndPush, Packet
  <2>3. logged_fds' \subseteq result'.fds
    BY <1>2, <2>2 DEF logged_fds, is_logged_in
  <2>3a. \A v \in UserIds : sessions'[result'.to] # v
    BY <1>2, <2>2, NoneIsFresh
  <2>4. Promised!Tell("EVT_USER_LOGGED_OUT", UserIds, u)
    BY <2>2, <2>3, <2>3a, ToEverybody, Told
  <2>5. Promised!SignOut(u)
    BY <1>3, <2>1, <2>4 DEF Promised!SignOut, Promised!placeVars
  <2> QED BY <1>2, <2>5 DEF Promised!ForumNext
<1> QED BY <1>4, <1>5

LEMMA SendIsWrite ==
  ASSUME TypeOK, SendStep
  PROVE  Promised!ForumNext
<1> USE DEF TypeOK
<1>1. PICK fd \in Fds, v \in UserIds, body \in Bodies :
        is_logged_in(fd) /\ StoreMessage(fd, v, body)
  BY DEF SendStep
<1> DEFINE u == sessions[fd]
<1>2. u \in UserIds /\ u \in OnlineUsers
  BY <1>1 DEF is_logged_in, OnlineUsers, is_user_online
<1>3. /\ messages' = Append(messages, [sender |-> u, receiver |-> v, body |-> body])
      /\ UNCHANGED <<users, sessions, treeVars>>
  BY <1>1 DEF StoreMessage
<1>4. UNCHANGED <<NameOfUser, OnlineUsers, teams, MembersOf, channels, threads, replies>>
  BY <1>3, SamePlaces DEF treeVars
<1>5. NameOfUser[v] # None
  BY <1>1 DEF StoreMessage, UserError, find_user_by_uuid, NameOfUser, NoPacket, Packet
<1>6. IF v \in OnlineUsers THEN Promised!Tell("EVT_MESSAGE_RECEIVED", {v}, u) ELSE Promised!Silence
  <2>1. CASE v \in OnlineUsers
    <3>1. SessionsOf(v) # {}
      BY <2>1 DEF OnlineUsers, is_user_online, SessionsOf
    <3>2. /\ result'.push.code = "EVT_MESSAGE_RECEIVED" /\ result'.fds = SessionsOf(v)
          /\ result'.to = fd
      BY <1>1, <3>1 DEF StoreMessage, RespondAndPush, Packet
    <3>3. PushedTo({v})
      BY <1>3, <3>2 DEF PushedTo, SessionsOf
    <3>4. sessions'[result'.to] = u
      BY <1>3, <3>2
    <3> QED BY <2>1, <3>2, <3>3, <3>4, Told
  <2>2. CASE v \notin OnlineUsers
    <3>1. SessionsOf(v) = {}
      BY <2>2 DEF OnlineUsers, is_user_online, SessionsOf
    <3> QED BY <1>1, <2>2, <3>1, Quiet DEF StoreMessage, Respond
  <2> QED BY <2>1, <2>2
<1>7. Promised!Write(u, v, body)
  BY <1>2, <1>3, <1>4, <1>5, <1>6 DEF Promised!Write, Promised!placeVars
<1> QED BY <1>2, <1>7 DEF Promised!ForumNext

LEMMA SubscribeIsJoin ==
  ASSUME TypeOK, SubscribeStep
  PROVE  Promised!ForumNext
<1> USE DEF TypeOK
<1>1. PICK fd \in Fds, t \in TeamIds : is_logged_in(fd) /\ Subscribe(fd, t)
  BY DEF SubscribeStep
<1> DEFINE u == sessions[fd]
<1>2. u \in UserIds /\ u \in OnlineUsers
  BY <1>1 DEF is_logged_in, OnlineUsers, is_user_online
<1>3. AddMember(t, u) /\ UNCHANGED <<accountVars, teams, channels, threads, replies>>
  BY <1>1 DEF Subscribe
<1>4. teams[t] # None
  BY <1>1 DEF Subscribe, TeamError, find_team_by_uuid, NoPacket, Packet
<1>5. \A s \in TeamIds, v \in UserIds :
        is_subscribed_to(s, v)' <=> is_subscribed_to(s, v) \/ (s = t /\ v = u)
  <2>1. CASE is_subscribed_to(t, u)
    BY <1>3, <2>1 DEF AddMember, is_subscribed_to
  <2>2. CASE ~is_subscribed_to(t, u)
    <3>1. member_uuids' = [member_uuids EXCEPT ![t][u] = member_uuids[t][u] + 1]
      BY <1>3, <2>2 DEF AddMember
    <3>2. \A s \in TeamIds, v \in UserIds :
            member_uuids'[s][v] = IF s = t /\ v = u THEN member_uuids[t][u] + 1
                                  ELSE member_uuids[s][v]
      BY <1>2, <3>1, CounterWritten
    <3> QED BY <1>2, <3>2 DEF is_subscribed_to
  <2> QED BY <2>1, <2>2
<1>6. MembersOf' = [MembersOf EXCEPT ![t] = @ \cup {u}]
  <2>1. \A s \in TeamIds : MembersOf'[s] = IF s = t THEN MembersOf[t] \cup {u} ELSE MembersOf[s]
    BY <1>2, <1>5 DEF MembersOf
  <2> QED BY <2>1 DEF MembersOf
<1>7. Promised!Silence
  BY <1>1, Quiet DEF Subscribe, Respond
<1>8. UNCHANGED <<NameOfUser, OnlineUsers, messages>>
  BY <1>3, SamePlaces DEF accountVars
<1>9. Promised!Join(u, t)
  BY <1>2, <1>3, <1>4, <1>6, <1>7, <1>8 DEF Promised!Join, Promised!peopleVars
<1> QED BY <1>2, <1>9 DEF Promised!ForumNext

LEMMA UnsubscribeIsQuit ==
  ASSUME TypeOK, MembersOnce, UnsubscribeStep
  PROVE  Promised!ForumNext
<1> USE DEF TypeOK
<1>1. PICK fd \in Fds, t \in TeamIds : is_logged_in(fd) /\ Unsubscribe(fd, t)
  BY DEF UnsubscribeStep
<1> DEFINE u == sessions[fd]
<1>2. u \in UserIds /\ u \in OnlineUsers
  BY <1>1 DEF is_logged_in, OnlineUsers, is_user_online
<1>3. /\ member_uuids' = [member_uuids EXCEPT ![t][u] = member_uuids[t][u] - 1]
      /\ UNCHANGED <<accountVars, teams, channels, threads, replies>>
  BY <1>1 DEF Unsubscribe
<1>4. is_subscribed_to(t, u) /\ member_uuids[t][u] = 1
  <2>1. is_subscribed_to(t, u)
    BY <1>1 DEF Unsubscribe, MemberError, NoPacket, Packet
  <2> QED BY <1>2, <2>1 DEF MembersOnce, is_subscribed_to
<1>5. \A s \in TeamIds, v \in UserIds :
        is_subscribed_to(s, v)' <=> is_subscribed_to(s, v) /\ ~(s = t /\ v = u)
  <2>1. \A s \in TeamIds, v \in UserIds :
          member_uuids'[s][v] = IF s = t /\ v = u THEN member_uuids[t][u] - 1
                                ELSE member_uuids[s][v]
    BY <1>2, <1>3, CounterWritten
  <2> QED BY <1>2, <1>4, <2>1 DEF is_subscribed_to
<1>6. MembersOf' = [MembersOf EXCEPT ![t] = @ \ {u}]
  BY <1>2, <1>5 DEF MembersOf
<1>7. Promised!Silence
  BY <1>1, Quiet DEF Unsubscribe, Respond
<1>8. UNCHANGED <<NameOfUser, OnlineUsers, messages>>
  BY <1>3, SamePlaces DEF accountVars
<1>9. u \in MembersOf[t]
  BY <1>2, <1>4 DEF MembersOf
<1>10. Promised!Quit(u, t)
  BY <1>2, <1>3, <1>6, <1>7, <1>8, <1>9 DEF Promised!Quit, Promised!peopleVars
<1> QED BY <1>2, <1>10 DEF Promised!ForumNext

LEMMA CreateTeamIsFound ==
  ASSUME TypeOK, TreeIsRooted, TeamStep
  PROVE  Promised!ForumNext
<1> USE DEF TypeOK
<1>1. PICK fd \in Fds, name \in TeamNames : CanCreate(fd, name) /\ CreateTeam(fd, name)
  BY DEF TeamStep
<1> DEFINE u == sessions[fd]
<1>2. PICK t \in TeamIds :
        /\ ~find_team_by_uuid(t)
        /\ teams' = [teams EXCEPT ![t] = name]
        /\ member_uuids' = [member_uuids EXCEPT ![t][u] = member_uuids[t][u] + 1]
        /\ RespondAndPush(fd, "RES_TEAM_CREATED", <<t, name>>,
                          Packet("EVT_TEAM_CREATED", <<t, name>>), logged_fds)
        /\ UNCHANGED <<accountVars, client_contexts, channels, threads, replies>>
  BY <1>1, Zenon DEF CreateTeam
<1>2a. /\ result'.push.code = "EVT_TEAM_CREATED" /\ result'.fds = logged_fds
       /\ result'.to = fd
  BY <1>2 DEF RespondAndPush, Packet
<1>3. u \in UserIds /\ u \in OnlineUsers
  BY <1>1 DEF CanCreate, is_logged_in, OnlineUsers, is_user_online
<1>4. \A v \in UserIds : ~is_subscribed_to(t, v) /\ member_uuids[t][v] = 0
  <2>1. \A v \in UserIds : ~is_subscribed_to(t, v)
    BY <1>2 DEF TreeIsRooted
  <2> QED BY <2>1 DEF is_subscribed_to
<1>5. \A s \in TeamIds, v \in UserIds :
        is_subscribed_to(s, v)' <=> (s # t /\ is_subscribed_to(s, v)) \/ (s = t /\ v = u)
  <2>1. \A s \in TeamIds, v \in UserIds :
          member_uuids'[s][v] = IF s = t /\ v = u THEN member_uuids[t][u] + 1
                                ELSE member_uuids[s][v]
    BY <1>2, <1>3, CounterWritten
  <2> QED BY <1>3, <1>4, <2>1 DEF is_subscribed_to
<1>6. MembersOf' = [MembersOf EXCEPT ![t] = {u}]
  BY <1>3, <1>5 DEF MembersOf
<1>7. UNCHANGED <<NameOfUser, OnlineUsers, messages, sessions>>
  BY <1>2, SamePlaces DEF accountVars
<1>8. result'.fds = logged_fds'
  BY <1>2a, <1>7 DEF logged_fds, is_logged_in
<1>9. Promised!Tell("EVT_TEAM_CREATED", UserIds, u)
  BY <1>2a, <1>7, <1>8, ToEverybody, Told
<1>10. Promised!Found(u, t, name)
  BY <1>2, <1>3, <1>6, <1>7, <1>9 DEF Promised!Found, Promised!peopleVars, find_team_by_uuid
<1> QED BY <1>3, <1>10 DEF Promised!ForumNext

LEMMA CreateChannelIsOpen ==
  ASSUME TypeOK, ChannelStep
  PROVE  Promised!ForumNext
<1> USE DEF TypeOK
<1>1. PICK fd \in Fds, name \in TeamNames : CanCreate(fd, name) /\ CreateChannel(fd)
  BY DEF ChannelStep
<1> DEFINE u == sessions[fd]
           t == client_contexts[fd].team
<1>2. PICK c \in ChannelIds :
        /\ client_contexts[fd].level = "USE_TEAM"
        /\ channels[c] = None
        /\ channels' = [channels EXCEPT ![c] = t]
        /\ RespondAndPush(fd, "RES_CHANNEL_CREATED", <<c>>,
                          Packet("EVT_CHANNEL_CREATED", <<c>>), team_member_fds(t))
        /\ UNCHANGED <<accountVars, client_contexts, teams, member_uuids, threads, replies>>
  BY <1>1, Zenon DEF CreateChannel
<1>2a. /\ result'.push.code = "EVT_CHANNEL_CREATED" /\ result'.fds = team_member_fds(t)
       /\ result'.to = fd
  BY <1>2 DEF RespondAndPush, Packet
<1>3. u \in UserIds /\ t \in TeamIds /\ is_subscribed_to(t, u)
  BY <1>1, <1>2, CreateAllowed
<1>4. u \in OnlineUsers \cap MembersOf[t]
  BY <1>3 DEF OnlineUsers, is_user_online, MembersOf
<1>5. UNCHANGED <<NameOfUser, OnlineUsers, messages, sessions, MembersOf>>
  BY <1>2, SamePlaces DEF accountVars
<1>6. Promised!Tell("EVT_CHANNEL_CREATED", MembersOf[t], u)
  BY <1>2a, <1>3, <1>5, ToMembers, Told
<1>7. Promised!OpenChannel(u, t, c)
  BY <1>2, <1>4, <1>5, <1>6 DEF Promised!OpenChannel, Promised!peopleVars
<1> QED BY <1>3, <1>7 DEF Promised!ForumNext

LEMMA CreateThreadIsOpen ==
  ASSUME TypeOK, ThreadStep
  PROVE  Promised!ForumNext
<1> USE DEF TypeOK
<1>1. PICK fd \in Fds, name \in TeamNames : CanCreate(fd, name) /\ CreateThread(fd)
  BY DEF ThreadStep
<1> DEFINE u == sessions[fd]
           t == client_contexts[fd].team
           c == client_contexts[fd].channel
<1>2. PICK th \in ThreadIds :
        /\ client_contexts[fd].level = "USE_CHANNEL"
        /\ threads[th] = NoThread
        /\ threads' = [threads EXCEPT ![th] = [channel |-> c, creator |-> u]]
        /\ RespondAndPush(fd, "RES_THREAD_CREATED", <<th, u>>,
                          Packet("EVT_THREAD_CREATED", <<th, u>>), team_member_fds(t))
        /\ UNCHANGED <<accountVars, client_contexts, teams, member_uuids, channels, replies>>
  BY <1>1, Zenon DEF CreateThread
<1>2a. /\ result'.push.code = "EVT_THREAD_CREATED" /\ result'.fds = team_member_fds(t)
       /\ result'.to = fd
  BY <1>2 DEF RespondAndPush, Packet
<1>3. u \in UserIds /\ t \in TeamIds /\ is_subscribed_to(t, u) /\ Resolves(client_contexts[fd])
  BY <1>1, <1>2, CreateAllowed
<1>4. c \in ChannelIds /\ channels[c] = t
  BY <1>2, <1>3 DEF Resolves, find_channel_by_uuid
<1>5. Promised!Participants(c) = MembersOf[t]
  BY <1>3, <1>4, NoneIsFresh DEF Promised!Participants
<1>6. u \in OnlineUsers \cap Promised!Participants(c)
  BY <1>3, <1>5 DEF OnlineUsers, is_user_online, MembersOf
<1>7. UNCHANGED <<NameOfUser, OnlineUsers, messages, sessions, MembersOf>>
  BY <1>2, SamePlaces DEF accountVars
<1>8. Promised!Tell("EVT_THREAD_CREATED", Promised!Participants(c), u)
  BY <1>2a, <1>3, <1>5, <1>7, ToMembers, Told
<1>9. Promised!OpenThread(u, c, th)
  BY <1>2, <1>6, <1>7, <1>8
  DEF Promised!OpenThread, Promised!peopleVars, Promised!NoTopic, NoThread
<1> QED BY <1>3, <1>4, <1>9 DEF Promised!ForumNext

LEMMA CreateReplyIsReply ==
  ASSUME TypeOK, ReplyStep
  PROVE  Promised!ForumNext
<1> USE DEF TypeOK
<1>1. PICK fd \in Fds, name \in TeamNames : CanCreate(fd, name) /\ CreateReply(fd)
  BY DEF ReplyStep
<1> DEFINE u == sessions[fd]
           t == client_contexts[fd].team
           th == client_contexts[fd].thread
           c == threads[th].channel
<1>2. /\ client_contexts[fd].level = "USE_THREAD"
      /\ replies' = [replies EXCEPT ![th] = Append(@, u)]
      /\ result'.push.code = "EVT_REPLY_CREATED" /\ result'.fds = team_member_fds(t)
      /\ result'.to = fd
      /\ UNCHANGED <<accountVars, client_contexts, teams, member_uuids, channels, threads>>
  BY <1>1 DEF CreateReply, WithReply, RespondAndPush, Packet
<1>3. u \in UserIds /\ t \in TeamIds /\ is_subscribed_to(t, u) /\ Resolves(client_contexts[fd])
  BY <1>1, <1>2, CreateAllowed
<1>4. th \in ThreadIds /\ c \in ChannelIds /\ channels[c] = t
  BY <1>2, <1>3 DEF Resolves, find_channel_by_uuid, find_thread_by_uuid
<1>5. Promised!Participants(c) = MembersOf[t] /\ c # None
  BY <1>3, <1>4, NoneIsFresh DEF Promised!Participants
<1>6. u \in OnlineUsers \cap Promised!Participants(c)
  BY <1>3, <1>5 DEF OnlineUsers, is_user_online, MembersOf
<1>7. UNCHANGED <<NameOfUser, OnlineUsers, messages, sessions, MembersOf>>
  BY <1>2, SamePlaces DEF accountVars
<1>8. Promised!Tell("EVT_REPLY_CREATED", Promised!Participants(c), u)
  BY <1>2, <1>3, <1>5, <1>7, ToMembers, Told
<1>9. Promised!Reply(u, th)
  BY <1>2, <1>5, <1>6, <1>7, <1>8 DEF Promised!Reply, Promised!peopleVars
<1> QED BY <1>3, <1>4, <1>9 DEF Promised!ForumNext

-----------------------------------------------------------------------------
LEMMA ForumInitial == Init => Promised!ForumInit
<1> SUFFICES ASSUME Init PROVE Promised!ForumInit
  OBVIOUS
<1>1. /\ NameOfUser = [u \in UserIds |-> None]
      /\ OnlineUsers = {}
      /\ MembersOf = [t \in TeamIds |-> {}]
      /\ Heard = [event |-> "NO_PACKET", to |-> {}]
  <2>1. NameOfUser = [u \in UserIds |-> None]
    BY DEF Init, NameOfUser, NoUser
  <2>2. OnlineUsers = {}
    BY NoneIsFresh DEF Init, OnlineUsers, is_user_online
  <2>3. MembersOf = [t \in TeamIds |-> {}]
    BY DEF Init, MembersOf, is_subscribed_to
  <2>4. Heard = [event |-> "NO_PACKET", to |-> {}]
    BY DEF Init, Heard, Reached, NoPacket, Packet
  <2> QED BY <2>1, <2>2, <2>3, <2>4
<1> QED BY <1>1 DEF Init, Promised!ForumInit, Promised!NoTopic, NoThread

LEMMA ForumStep ==
  TypeOK /\ AccountInv /\ TreeInv /\ [Next]_vars => [Promised!ForumNext]_(Promised!forumVars)
<1> SUFFICES ASSUME TypeOK, AccountInv, TreeInv, [Next]_vars
             PROVE  [Promised!ForumNext]_(Promised!forumVars)
  OBVIOUS
<1>1. CASE UNCHANGED vars
  <2>1. UNCHANGED <<NameOfUser, OnlineUsers, MembersOf, Heard>>
    BY <1>1, SamePlaces DEF vars, dataVars, accountVars, treeVars, Heard, Reached, Reachable,
       SessionsOf
  <2> QED BY <1>1, <2>1 DEF vars, dataVars, accountVars, treeVars,
             Promised!forumVars, Promised!peopleVars, Promised!placeVars
<1>2. CASE Next
  BY <1>2, NextCases, AnswerIsNothing, UseIsNothing, LoginIsSignIn, LogoutIsSignOut,
     SendIsWrite, SubscribeIsJoin, UnsubscribeIsQuit, CreateTeamIsFound, CreateChannelIsOpen,
     CreateThreadIsOpen, CreateReplyIsReply DEF AccountInv, TreeInv
<1> QED BY <1>1, <1>2

\* Everything the handlers can do to what users see is an act that the forum
\* allows, told to the people it is for: the checks by descriptor, session and
\* stored context (mtp_auth.cpp to mtp_info.cpp) amount to checks on people.
THEOREM BusinessImplementsForum == Spec => ImplementsForum
<1> QED BY ForumInitial, ForumStep, TypeCorrect, AccountsInvariant, TreeInvariant, PTL
        DEF Spec, ImplementsForum, Promised!ForumSpec
=============================================================================
