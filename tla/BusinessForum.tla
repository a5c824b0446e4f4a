---------------------------- MODULE BusinessForum ------------------------------
(***************************************************************************)
(* The command handlers as the forum they implement: a user is online with *)
(* any session, a member with any place in the member vector, and hears of *)
(* an event on the descriptors it is pushed to, but for the one the command*)
(* came from, which _send_result passes over (Server.cpp:225).             *)
(***************************************************************************)
EXTENDS Business

NameOfUser == [u \in UserIds |-> users[u].name]
OnlineUsers == {u \in UserIds : is_user_online(u)}
MembersOf == [t \in TeamIds |-> {u \in UserIds : is_subscribed_to(t, u)}]

\* The connections of u that an event can be queued for.
Reachable(u) == SessionsOf(u) \ {result.to}
Reached == {u \in UserIds : Reachable(u) \cap result.fds # {}}

\* An event that reaches some of the connections of a user must reach them all.
Heard == [event |-> IF \A u \in Reached : Reachable(u) \subseteq result.fds
                    THEN result.push.code ELSE "IN_PART",
          to |-> Reached]

Promised == INSTANCE Forum WITH
  people  <- NameOfUser,
  online  <- OnlineUsers,
  mail    <- messages,
  title   <- teams,
  members <- MembersOf,
  home    <- channels,
  topics  <- threads,
  posts   <- replies,
  news    <- Heard

\* However sessions overlap, contexts go stale and members come and go, all that the
\* handlers do is what the forum allows: nobody writes in a team without being in it
\* then, nobody gets a second account but by a name that is too long, and every event
\* is pushed to the people it is for and no others, on all of their connections
\* except the one that the command came from (all handlers).
ImplementsForum == Promised!ForumSpec
================================================================================
