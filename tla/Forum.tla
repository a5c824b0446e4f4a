-------------------------------- MODULE Forum ----------------------------------
(***************************************************************************)
(* What MyTeams promises the people who use it: who they are, who is       *)
(* online, who is in which team, what has been written, and who hears of   *)
(* it.  There are no connections here and no contexts: a person acts, and  *)
(* the act is allowed or it is not.                                        *)
(***************************************************************************)
EXTENDS Sequences

CONSTANTS Names, FullNames, TeamNames, Bodies, UserIds, TeamIds, ChannelIds, ThreadIds, None

VARIABLES
  people,   \* user -> name, None for nobody
  online,   \* the users who are there
  mail,     \* private messages, oldest first
  title,    \* team -> name, None for no team
  members,  \* team -> its users
  home,     \* channel -> its team
  topics,   \* thread -> its channel and the user who opened it
  posts,    \* thread -> the users who have replied, oldest first
  news      \* what the last act told people: which event, and whom

peopleVars == <<people, online, mail>>
placeVars == <<title, members, home, topics, posts>>
forumVars == <<peopleVars, placeVars, news>>

NoTopic == [channel |-> None, creator |-> None]

\* Only those who are online can be told.  Whoever acts is answered, and need not be
\* told as well.
Tell(event, audience, actor) ==
  \E left \in {{}, {actor}} :
    news' = [event |-> event, to |-> (audience \ left) \cap online']
Silence == news' = [event |-> "NO_PACKET", to |-> {}]

ForumInit ==
  /\ people = [u \in UserIds |-> None]
  /\ online = {}
  /\ mail = <<>>
  /\ title = [t \in TeamIds |-> None]
  /\ members = [t \in TeamIds |-> {}]
  /\ home = [c \in ChannelIds |-> None]
  /\ topics = [th \in ThreadIds |-> NoTopic]
  /\ posts = [th \in ThreadIds |-> <<>>]
  /\ news = [event |-> "NO_PACKET", to |-> {}]

\* An account has the name, or is made for it: not a second one, unless the name is
\* one that longer names are cut to.  Whoever was using the connection until now may
\* be gone, without a word.
SignIn(u, name) ==
  \E gone \in {{}} \cup {{v} : v \in online \ {u}} :
    /\ \/ people[u] = name
       \/ people[u] = None /\ (name \in FullNames \/ \A v \in UserIds : people[v] # name)
    /\ people' = [people EXCEPT ![u] = name]
    /\ online' = (online \ gone) \cup {u}
    /\ IF u \in online THEN Silence ELSE Tell("EVT_USER_LOGGED_IN", UserIds, u)
    /\ UNCHANGED <<mail, placeVars>>

SignOut(u) ==
  /\ u \in online
  /\ online' = online \ {u}
  /\ Tell("EVT_USER_LOGGED_OUT", UserIds, u)
  /\ UNCHANGED <<people, mail, placeVars>>

Write(u, v, body) ==
  /\ u \in online
  /\ people[v] # None
  /\ mail' = Append(mail, [sender |-> u, receiver |-> v, body |-> body])
  /\ UNCHANGED <<people, online, placeVars>>
  /\ IF v \in online THEN Tell("EVT_MESSAGE_RECEIVED", {v}, u) ELSE Silence

Join(u, t) ==
  /\ u \in online
  /\ title[t] # None
  /\ members' = [members EXCEPT ![t] = @ \cup {u}]
  /\ UNCHANGED <<peopleVars, title, home, topics, posts>>
  /\ Silence

Quit(u, t) ==
  /\ u \in online
  /\ u \in members[t]
  /\ members' = [members EXCEPT ![t] = @ \ {u}]
  /\ UNCHANGED <<peopleVars, title, home, topics, posts>>
  /\ Silence

Found(u, t, name) ==
  /\ u \in online
  /\ title[t] = None
  /\ title' = [title EXCEPT ![t] = name]
  /\ members' = [members EXCEPT ![t] = {u}]
  /\ UNCHANGED <<peopleVars, home, topics, posts>>
  /\ Tell("EVT_TEAM_CREATED", UserIds, u)

OpenChannel(u, t, c) ==
  /\ u \in online \cap members[t]
  /\ home[c] = None
  /\ home' = [home EXCEPT ![c] = t]
  /\ UNCHANGED <<peopleVars, title, members, topics, posts>>
  /\ Tell("EVT_CHANNEL_CREATED", members[t], u)

\* Threads and replies are for those who are in the team of the channel.
Participants(c) == IF home[c] = None THEN {} ELSE members[home[c]]

OpenThread(u, c, th) ==
  /\ u \in online \cap Participants(c)
  /\ topics[th] = NoTopic
  /\ topics' = [topics EXCEPT ![th] = [channel |-> c, creator |-> u]]
  /\ UNCHANGED <<peopleVars, title, members, home, posts>>
  /\ Tell("EVT_THREAD_CREATED", Participants(c), u)

Reply(u, th) ==
  LET c == topics[th].channel IN
  /\ c # None
  /\ u \in online \cap Participants(c)
  /\ posts' = [posts EXCEPT ![th] = Append(@, u)]
  /\ UNCHANGED <<peopleVars, title, members, home, topics>>
  /\ Tell("EVT_REPLY_CREATED", Participants(c), u)

\* A question, an act that is refused, one connection more or less.
Nothing ==
  /\ UNCHANGED <<peopleVars, placeVars>>
  /\ Silence

ForumNext ==
  \/ Nothing
  \/ \E u \in UserIds :
       \/ \E name \in Names : SignIn(u, name)
       \/ SignOut(u)
       \/ \E v \in UserIds, body \in Bodies : Write(u, v, body)
       \/ \E t \in TeamIds :
            \/ Join(u, t) \/ Quit(u, t)
            \/ \E name \in TeamNames : Found(u, t, name)
            \/ \E c \in ChannelIds : OpenChannel(u, t, c)
       \/ \E th \in ThreadIds :
            \/ \E c \in ChannelIds : OpenThread(u, c, th)
            \/ Reply(u, th)

ForumSpec == ForumInit /\ [][ForumNext]_forumVars
================================================================================
