# MyTeams: TLA+ models of the server and proofs about them

MyTeams is a text-messaging service: `myteams_server` keeps users, private
messages and teams (team > channel > thread > replies) in memory and serves
`myteams_cli` clients over TCP with the binary protocol MTP/1.0 (`doc/RFC.md`).
This directory models in TLA+ the server (handlers, connections, poll loop,
framing, life of the process), the client (commands, answers, input line) and the
two together, checks the models with TLC on small instances, and proves the most
important properties with TLAPS for every instance.

Source paths below are relative to the repository.

## 1. Inventory

| Part | Code | State | Operations |
|---|---|---|---|
| Shared data | `include/data.hpp`, `src/server/handlers/mtp_detail.hpp` | `server_data_t`: users, sessions, client_contexts, teams, messages | lookups by UUID and name, target descriptors of events |
| Accounts | `mtp_auth.cpp`, `mtp_users.cpp`, `mtp_messages.cpp` | users, sessions, messages | login, logout, users, user, send, messages |
| Workspace | `mtp_subscriptions.cpp`, `mtp_context.cpp`, `mtp_create.cpp`, `mtp_list.cpp`, `mtp_info.cpp` | member_uuids, contexts, the team tree | subscribe, unsubscribe, subscribed (2), use, create (4 levels), list, info |
| Event loop | `src/server/Server.cpp` | clients: receive and send buffer per descriptor; `_running` | accept, read, frame, dispatch, queue, write, disconnect |
| Process | `src/server/main.cpp` | – | start, SIGINT |
| Client | `src/client/*.cpp` | its copy of the context, its user, two buffers | parse a line, send a command, show answers and events |
| Logging | `libs/myteams` | – | prebuilt library that prints; external |

**How they interact.** The server is one thread around `poll()`. A complete
frame goes through `_dispatch` to one handler, which runs to completion on the
shared data and returns one response and at most one event with the descriptors
it is for; `_send_result` appends them to send buffers. A lost connection runs
the logout handler. Clients see responses and events in one stream, without
request numbers, and keep their own copy of the context that `/use` selects.

**What is hard.** Handlers are atomic, but commands of several clients, several
sessions of one user, repeated logins on one connection, lost connections and
reused descriptor numbers interleave freely, and what a command does depends on
what an earlier one stored (sessions, contexts, subscriptions). `hazards` in
`PROJECT.json` lists each place with the properties about it.

**What makes each part correct.**

- *Accounts*: one account per name, as long as the name is shorter than its field;
  session, context and flag agree; presence events are true and complete; a private
  message reaches its receiver only.
- *Workspace*: one membership per user and team; a stored context never dangles;
  content comes from subscribers; nothing created is lost; what is created is told to
  the connections it is for, and to no other.
- *Event loop*: nothing of a closed connection is left for the next one on its
  number; losing a connection is a logout the others hear of; no connection is
  served with what `poll()` said of another; every frame is dispatched once and in
  order; everybody is served, as long as no `write()` waits for ever.
- *Process*: `run()` ends with SIGINT, from where it can, and not without.
- *Client*: its context, its user and the order of its answers are the server's; a
  line typed is the command it says.

## 2. Modules

| Module | Models | Builds on |
|---|---|---|
| `ServerData` | `server_data_t`, the lookups, `mtp::Result`, the refusals | – |
| `Accounts` | handlers of accounts, presence, private messages | `ServerData` |
| `Workspace` | handlers of subscriptions, contexts and content | `ServerData` |
| `Business` | all handlers on all descriptors | `Accounts`, `Workspace` |
| `Forum` | what the service promises people: no connections, no contexts | – |
| `BusinessForum` | `Business` as an implementation of `Forum` | `Business`, instance of `Forum` |
| `Server` | connections, dispatch, send queues, disconnection | `Business` |
| `Client` | commands, the client's copy of the context, answers and events | `ServerData` |
| `System` | server and clients, joined by queues of requests and packets | `Server`, `Client` |
| `PollLoop` | `Server::run`: `poll()`, accept, the order of service, descriptor numbers | – |
| `Framing` | `_handle_client_read`, `_process_recv_buffer`: bytes to frames | – |
| `FlowControl` | blocking reads and writes of both sides over bounded sockets | – |
| `Lifecycle` | start, SIGINT at any instruction, exit, start again | – |
| `CommandLine` | `_handle_stdin`, `_parse_line`: text to commands | – |
| `MCBusiness`, `MCForum`, `MCServer`, `MCSystem` | symmetry, views and first states for TLC | |
| `*_proofs` | theorems about `Business` (with `BusinessForum`), `Server`, `System`, `PollLoop`, `Framing`, `CommandLine`, `Lifecycle` | |

The event loop appears at four grains. `Server` leaves the order of events open and
keeps whole packets, which is what the handlers can tell apart. `PollLoop` has the
order and the descriptors and none of the data; `Framing` one connection's bytes;
`FlowControl` the writes that wait and what both sides do meanwhile. What `Server`
takes for granted, the others show: that a command is dispatched for a connection
that has one (`PollLoop`), that it is the one that was sent (`Framing`).

**State of the handlers.** A UUID is a member of a set (`UserIds`, `TeamIds`, ...);
the members not handed out yet stand for those `uuid_generate` may still return, so
a lookup of one is a lookup of an unknown UUID. A map of the code is a total
function with `None` where there is no entry. The team tree is stored as parent
links (`channels`: channel to team, `threads`: thread to channel and creator), which
is what the lookups need: identifiers are unique, so that searching the channels of
a team is asking whether the channel's parent is that team. The member *vector* is a
count per user, since `erase` removes one occurrence: that there is at most one is
an invariant (`MembersOnce`), not an assumption. `result` is the `mtp::Result` of
the last handler; no action reads it, so TLC's VIEW leaves it out (the step
properties see it primed).

**Handlers.** `handle_x(fd, ...)` is the whole of `Business::handle_x`: the refusals
in the order of its early returns (`TeamError`, `MemberError`, `UserError`,
`UseError`, `CreateError`, `ReadError` give the packet of the first that applies),
then its effect, the response and the pushes. The branches of `handle_logout`,
`handle_use` and `handle_info` for a session whose user is not found are left out:
`SessionsAgree` shows that they are never taken. Fields too short to hold a UUID or
a text, unknown UUIDs, levels and command codes are inputs. Texts are not kept,
except names (looked up) and bodies of private messages.

**Names.** RFC section 3 gives the login name 32 bytes, null-padded, and that is what
this project's client sends (`Individual.cpp:17`); another client of the protocol may
send more, and `Server.cpp:256` hands the whole payload on. `Names` are the names of
up to 32 bytes, `FullNames` those of exactly 32, and a longer one is a pair of a full
name and a tail (`LongNames`). The account is stored under what fits of the name
(`set_fixed_name`) but searched under the name as sent (`find_user_by_name`), so that
every login under a longer name makes another account with the same stored name.
`find_user_by_name` then gives the first of them, which is what `first` keeps of the
order of the vector.

**Forum.** A person signs in and out, writes, joins, quits, founds a team, opens a
channel or a thread, replies; `news` is which event was told to whom, and only people
who are online can be told. The mapping: a user is online with any session, a
member with any place in the member vector, and an event is told to the users behind
the descriptors it is pushed to, less the one the command came from, which
`_send_result` passes over: who acts may or may not be told (`Tell`). An event that is
pushed to some of the connections of a user that it can be queued for, and not to all,
is none the forum has (`Heard`). `SignIn` lets another user disappear at the same
moment, without a word: that is the login over a session which the code allows
(`DeparturesAnnounced` below states what the header says instead). It lets a second
account have a full name.

**Events as queued.** `ImplementsForum`, `PresenceEvents` and `PrivateToReceiver`
are about the pushes that a handler names. `CreationsTold`, like
`LostConnectionAnnounced`, is about what `send_buffer` holds after the step: every
connection an event is for has it, except the one that created, and no other has.

**System.** `to_server[fd]` holds requests typed and not dispatched, `send_buffer[fd]`
packets queued and not shown. A client changes `my_context` when it *sends* `/use`
and lays `/create` out by that copy; `NameFound` says what the server reads in a
payload laid out for another level. `Leave` ends a client at any time; the server
may read the requests still under way before it notices (`Lose`), and `Show` may
still show what the client's last `read()` took. `awaiting` and `last_use` are
history for the properties. A wrong number of arguments prints the usage and sends
nothing, and is no action.

**PollLoop.** The kernel's table (`open`) and the server's map (`clients`) are
separate, and `poll()` reports into a snapshot (`polled`) that goes stale while
connections are closed, accepted and written to. One `read()` takes all complete
frames that have arrived, or leaves the end of the file or a frame that is too long
for the next; POLLERR comes with POLLHUP; `accept()` gives the lowest free number
and fails when there is none. A FIN does not raise POLLHUP while the server's side
is open, a reset does. Sockets block: `write()` may wait (`pc = "waiting"`) until the
peer has read, which it need never do, or is reset, and meanwhile nobody is
served. A write to a connection reset after its FIN is SIGPIPE, which nobody handles
(`dead`). SIGINT is not in this module.

**Framing.** Bytes are counted, not kept: `sent` says where each frame of the stream
starts and what its header declares, and a parser that is out of step reads any size.
The sum of header and payload size wraps at `Word`.

**FlowControl.** A command is one unit, an answer several, an event one; a socket
holds `SocketSize` units each way, and a side in `write()` does nothing else until
its last unit is in. `Answers` counts the answers that end among some units: users
who wait look at those, not at the events of others.

**Lifecycle.** `pc` is where `main` and `run()` are, down to the `write()` of a round
that waits. SIGINT clears the flag anywhere; it ends `poll()` if that sleeps with
nothing to report, cuts short a `write()` that waits (a short count, or `EINTR`, for
which the client is dropped), and ends the process before the handler is installed.
`Fail` is what else ends the process: an error of `poll()`, for which `run()` throws,
or SIGPIPE in a round.

## 3. Runs

| Run | Instance | Shows |
|---|---|---|
| `business` | 2 descriptors, 2 users, one of the 2 names full, 2 teams of one name, 1 channel, 1 thread, 2 replies | `TypeOK`, `SessionsAgree`, `TreeIsRooted`, `ContextResolves`, `MembersOnce`, `UnsubscribeEnds`, `ContentBySubscribers`, `NothingLost`, `ImplementsForum` |
| `server` | 3 descriptors, 2 users, queues of 1 packet before a command is read; 3 names of which one is full and 1 message, or a team, a channel, a thread and a reply | `ClosedLeavesNothing`, `UniqueNames`, `OnlineIsFlagged`, `LostConnectionAnnounced`, `PresenceEvents`, `PrivateToReceiver`, `CreationsTold`, `ImplementsForum` |
| `poll_loop` | 2 connections, 2 descriptor numbers | `PollTypeOK`, `ServedAsPolled`, `ReadNeverWaits`, `ClientsAreOpen`, `OnlyEndedDropped`, `LastCommandsRead`, `EverybodyServed` |
| `framing` | 3 frames, header 2, limit 2, word 16, reads of 3 | `FramesInOrder`, `NothingLeftBehind`, `BufferBounded`, `ClosedByLongFrame`, `EveryFrameHandled` |
| `lifecycle` | up to 3 things created, 2 clients in a round, any number of restarts | `LifeTypeOK`, `LeavesOnlyWhenAsked`, `SignalEndsServer` |
| `flow_control` | 2 clients, sockets of 2, answers of 3, 4 lines each | `EveryLineAnswered` |
| `system` | 2 clients, 2 users, 2 teams, a channel, a thread | `AnswersInOrder`, `ContextsAgree`, `ClientKnowsItself` |
| `command_line` | every text of up to 7 of the 5 kinds of character, reads of 4 | `LinesAsTyped`, `QuotingKeepsCommands` |

**Why the bounds are enough.** Two descriptors are the least with which a user has
two sessions or two users meet; two teams, the least with which a right lookup can
find the wrong team; two replies, the least with which one can replace another.
Presence needs a third descriptor: a user with two sessions, and somebody who is
told; and so do events, for one that could reach one of two connections besides that
of the command. One full name and one tail are enough for accounts that share a
stored name. `server` has either accounts and messages or content in one behaviour
(`plan`), since both together are too many states. Two connections over two numbers
give a number out again, while the other is being served. In `framing` the sizes are
an empty frame, the limit, one above it, and two whose sum with the header comes to
the top of the word and past it. `AnswerSize` exceeds `SocketSize`, so that every
answer waits in `write()`; four lines are enough to fill both directions when they
are given at once, which is what `live_updates` does. A round of two clients has one
after the write that waits. Seven characters are a quoted command with an empty
value or a value with a space, or three lines; reads of four cut inside them.
`MaxMessages`, `MaxReplies`, `MaxQueue`, `MaxSent`, `MaxFrames`, `MaxItems`,
`MaxClients`, `MaxLines` and `MaxTyped` bound what the code lets grow; no guard of
the code depends on them. In `business`, `MaxMessages` is 0: private messages are in
`server`, and for the refinement in the proofs.

**system.** Two clients that may type all thirteen commands, several ahead, have too
many states. `MCSystem` lets a plan, fixed for a behaviour, say which commands each
user types and how many may be on their way: logins and logouts from a server nobody
has used; and from a server in use (`PopulatedInit`: two users logged in, two teams
with both in them, a channel, a thread, different contexts, a state the program
reaches), reading commands against messages, subscriptions against a logout, `/use`
and reads against `/create`, and logins and `/use` two ahead. Each command is in some
plan, against one that changes what it reads; leaving and losing connections is in
all. The two violations of `System` use `PopulatedSpec`, with all commands.

**Symmetry** is used in `business` and `server`, where no liveness is checked.
**Deadlock** is checked except in `poll_loop`, `framing`, `flow_control` and
`command_line`: there the peers are bounded, or the input ends, and the system stops
when they have nothing more to do (or the process has been killed).

**Fairness.** The server is one thread that is scheduled; it is held up by `poll()`
and by a `write()` that waits, and nothing makes a peer read. So `EverybodyServed`
and the part of `SignalEndsServer` about a signal in a round state their condition:
`NoWriteWaitsForEver`, that whoever a `write()` waits for reads in the end, or
leaves. Without it the code does not have these properties; a signal that finds the
server asleep, or before the test of `_running`, ends it in any case. Nobody has to
start, signal or use the server. `EveryFrameHandled` speaks of one connection: TCP
delivers what was sent, and the server's loop comes back to this descriptor, which a
write that waits for ever elsewhere would prevent. `EveryLineAnswered` is about
users who wait for each answer (`Patient`) and clients whose loops go on; `write()`,
once it has room, is weakly fair; the server's read and write of one client are
strongly fair, because between the server's writes a round comes to every descriptor
that is ready, which is what `EverybodyServed` shows. Users may stop typing. For
users who do not wait, `live_updates` shows that the two sides may wait for each
other.

### Where documents and code differ

Each of these runs checks one sentence of a document, and TLC shows steps of the
code that break it (`findings` quotes them).

| Run | Statement | What happens |
|---|---|---|
| `silent_departure` | logged-out event on every departure | a login over a session takes the previous user offline silently |
| `reads_after_unsubscribe` | team information needs a subscription | `/list` and `/info` on an earlier context do not ask |
| `live_updates` | everyone sees activity at once | a client that was given several lines and the server wait for each other in `write()` |
| `create_layout` | a payload for each context | after a refused `/use` a payload is laid out for one context and read for another |

More of the kind are stated beside these and have a configuration of their own;
`tlc -config X.cfg M` shows each one violated:

| Configuration, module | Statement | What happens |
|---|---|---|
| `FlaggedIsOnline`, `MCBusiness` | `is_logged`: "currently authenticated" | a login over a session leaves the previous user flagged |
| `AccountFdIsActive`, `MCBusiness` | `fd`: "Active socket file descriptor" | it stays on a session that ended while another goes on |
| `TeamNamesUnique`, `MCBusiness` | a team name that exists is refused | it is accepted |
| `SubscribersTold`, `MCServer` | all subscribers get the channel, thread and reply events | the one who creates gets the answer alone |
| `CreatorHearsOfTeam`, `MCServer` | the creator gets `EVT_TEAM_CREATED` too | the issuer is skipped |
| `RepliesUnderTheirTeam`, `MCSystem` | a reply is shown with the team it is in | it is shown with the team selected |
| `SigintStopsServer`, `Lifecycle` | SIGINT stops the server | not between the test and `poll()`, nor before `run()` |
| `NothingForgotten`, `Lifecycle` | the state is saved and loaded | it is not |
| `SurvivesDisconnection`, `PollLoop` | an unexpected disconnection is a logout | SIGPIPE ends the server |
| `WritesNeverWait`, `FlowControl` | non-blocking writes | they block |
| `ValuesAreQuoted`, `CommandLine` | values must be quoted | words without quotes are values too |

## 4. Proofs

For any sets of descriptors, names and identifiers and any bounds, from these
assumptions: `NoneIsFresh` and `NoConnIsNone` (the value for "no entry" is not an
element of the sets), `NamesAreApart` (full names are names, longer ones are not),
`FdsAreNumbers`, the bounds being naturals, for `Framing` `SizesFitTheHeader` and
`FramesFitTheWord` (6 + 65535 < 2^32), and for `CommandLine` `SizesArePositive` (a read
can take something):

| Theorems | Statement |
|---|---|
| `TypeCorrect` | `Spec => []TypeOK` |
| `SessionsAlwaysAgree`, `NamesStayUnique`, `OnlineStaysFlagged` | `Spec => []SessionsAgree`, `[]UniqueNames`, `[]OnlineIsFlagged` |
| `ContextsAlwaysResolve`, `TreeStaysRooted`, `MembersStayOnce` | `Spec => []ContextResolves`, `[]TreeIsRooted`, `[]MembersOnce` |
| `ContentAlwaysBySubscribers`, `UnsubscribingIsFinal`, `NothingIsLost` | `Spec => ContentBySubscribers`, `UnsubscribeEnds`, `NothingLost` |
| `PresenceIsTrue`, `PrivateStaysPrivate` | `Spec => PresenceEvents`, `PrivateToReceiver` |
| `BusinessImplementsForum` | `Spec => ImplementsForum` |
| `ServerImplementsBusiness`, `SystemImplementsServer` | `ServerSpec => Spec`, `SystemSpec => ServerSpec` |
| `ClosedStaysClean` | `ServerSpec => []ClosedLeavesNothing` |
| `LostConnectionsAnnounced`, `CreationsAreTold` | `ServerSpec => LostConnectionAnnounced`, `CreationsTold` |
| `ContextsStayAgreed`, `ClientsKnowThemselves`, `AnswersStayInOrder` | `SystemSpec => []ContextsAgree`, `[]ClientKnowsItself`, `[]AnswersInOrder` |
| `PollTypeCorrect`, `SnapshotNeverMisleads`, `ReadsNeverWait`, `ClientsStayOpen` | `PollSpec => []PollTypeOK`, `[]ServedAsPolled`, `[]ReadNeverWaits`, `[]ClientsAreOpen` |
| `OnlyEndedAreDropped`, `LastCommandsAreRead` | `PollSpec => OnlyEndedDropped`, `LastCommandsRead` |
| `BufferStaysBounded`, `FramesStayInOrder`, `NothingStaysBehind`, `OnlyLongFramesClose` | `FramingSpec => []BufferBounded`, `[]FramesInOrder`, `[]NothingLeftBehind`, `[]ClosedByLongFrame` |
| `LinesStayAsTyped`, `QuotedCommandsAreKept` | `InputSpec => []LinesAsTyped`, `[]QuotingKeepsCommands` |
| `LifeTypeCorrect`, `NeverLeavesUnasked` | `LifeSpec => []LifeTypeOK`, `[]LeavesOnlyWhenAsked` |

*Handlers.* `NextCases` reduces a step to what it changes: a login, a logout, a
message, a membership, a context, one of four creations, or nothing but the answer.
The type invariant comes first: that member counts stay natural numbers is where
`MemberError` is needed. The account invariants are inductive together, over that
type invariant: `UniqueNames` needs `AccountsFor`, and that every name in use has a
first account (`FirstOfName`), the one a login under it finds, so that a new account
has a new name or a full one; `SessionsAgree` needs that login and logout change
both maps. What a login does to the account, found or new, is `LoginWays`. None of
`TreeIsRooted`, `ContextResolves` and `MembersOnce` is inductive alone, and
`TreeInv` is their conjunction: a channel is created in the team of a stored
context, so the tree stays rooted only because contexts resolve (`RootedStep`), and
contexts go on resolving because the tree only grows (`TreeGrows`,
`ResolvesForever`, `ContextsStep`). A step property then follows from `TreeChange`,
which names the one action that can change a given part of the tree, from `Causes`,
which names the action an answer or an event comes from, and from `CreateAllowed`,
what `CreateError` found.

*Forum.* Each of the ten kinds of step is mapped to an act of the forum or to
`Nothing`. The invariants are what makes the acts allowed: `UniqueNames` for
`SignIn`, `MembersOnce` for `Quit` (one `erase` takes the user out of the set),
`ContextResolves` for the team in which content is created. That no event is
`"IN_PART"` is that a handler's targets are whole sets of sessions (`PushedTo`,
`Told`).

*Server.* A step of the server is a step of `Business` or leaves its variables alone
(`ServerStep`), so that every theorem about `Spec` holds of `ServerSpec`.
`ClosedLeavesNothing` is not inductive: when a connection without a session ends, no
logout clears its context, so `ClosedInv` adds that only a descriptor with a session
has one (`ContextNeedsSession`), and that descriptors which are not clients are
untouched by the commands of others (`CommandIsLocal`). `LostConnectionAnnounced`
also needs that what is queued are sequences (`Buffers`). `CreationsTold` relates four
places: the tree, the handler's event (`CreationEvents`: each creation names its own
event, with the sessions it is for, and nothing else names one), what `_send_result`
appends (`CreationsPushed`, `GotAppended`), and steps that are no commands, which
create nothing and queue no such event (`NothingCreated`).

*System.* Whatever was true when a request was typed, what it asks for is a command
`Business` allows (`ExecuteIsCommand`), so a step of the system is one of the server
(`SystemStep`) and all the above holds of it. `ContextsAgree` is not inductive: when
the `/use` under way is accepted it is the request that must match the client's
copy, so `ContextInv` adds that the last `/use` among those that wait selects the
context the client has already moved to (`LastSelects`). `ClientKnowsItself` follows
the last `RES_LOGIN_OK` through the queue (`WillBeAppended`, `WillBeShown`), and
needs that no handler but login gives that answer, with the user it stored
(`LoginTells`). `AnswersInOrder` numbers the answers in a queue from the front
(`AnswerNumber`) and compares answer *n* with command *n*; `AnswerInv` adds the
commands the server has not executed (`AnswersFit`), which take up the numbers after
the last answer. Typing, executing, telling an event and showing each keep the two
counts together (`FitTyped`, `FitAnswered`, `FitTold`, `FitShown`). It needs that
every command is answered, and by an answer to that command (`AnsweredAsAsked`):
there `ContextResolves` is what rules out an answer to `/list` or `/info` that the
client does not expect; and that whatever others are told is an event
(`PushesAreEvents`).

*Poll loop.* `PollInv` is `PollTypeOK`, `ClientsAreOpen` and `SnapshotHolds`: for the
clients not served yet, the snapshot is of the connection that is there now, and what
it reported is still so. It holds because a number closed in a
round is taken off the snapshot or out of the clients, and because accepting comes
before serving. A server that waits in `write()` waits for a client whose turn it is
(`WaitsForClient`).

*Framing.* `BufferInv` adds to `BufferBounded` that less than the largest frame is
left when the loop goes back to `poll()`; a size that is not refused cannot wrap
(`FramesFitTheWord`). The order of the frames is a matter of where the parser is:
`OrderInv` says that what was erased ends where the last frame dispatched ends
(`NextStart`), so that the parser is never out of step and the only size it can read
is the one the next frame declares. Frames follow one another without a gap
(`Chained`), so that when a frame is complete those before it are, and none of them
is left behind.

*Command line.* Both loops scan a text from a position on, and what a scan computes
from a position follows from what it computes from later ones (`FromTheEnd`,
induction over the positions of one text, from `LeastNatural`). That such a scan
computes anything is proved before its recursion may be used (`ScanExists`).
`LinesDescribed` says what `_handle_stdin` makes of a piece of text that starts a
line: its whole lines, in order (`InOrder`, by the rank of each line feed), and what
follows the last. `LinesInv` adds to `LinesAsTyped` that there is a position up to
which the text has been read, and that each command is its line parsed; a read
appends lines that end later than those already handled (`JoinInOrder`).
`QuotingKeepsCommands` is a fact about `_parse_line`: the values written with
`Quoted` stand at known places (`QuotedWritten`), at each of which the scan finds the
value and goes on at the next one (`PieceReadBack`, `ArgumentsReadBack`); a name has
no space in it (`ParsedLine`), so it is found again too.

*Lifecycle.* `LifeInv`: in the loop the flag is down only because a signal found this
process.

*Model-checked only*: all liveness (`EverybodyServed`, `EveryFrameHandled`,
`EveryLineAnswered`, `SignalEndsServer`), since fairness is out of the provers' reach.
Every invariant and every action property that a passing run checks is proved.

## 5. Not modelled

- Wire encoding (`make_message`, `append_*`, fixed-width fields), texts,
  descriptions, timestamps: the handlers do not depend on them. A name that fills
  its field has no terminating NUL for the logging calls; that is outside.
- Logging library, help texts, argument checks, and the failures of `socket`, `bind`
  and `listen` before the server starts: input and output only.
- What the client prints, except the team of a reply event; its receive buffer,
  which is the server's without the limit.
- Memory: `send_buffer` grows without limit while a client does not read; the bound
  of the models is theirs.
- The backlog of `listen()` and a process out of descriptors: `accept()` fails, and
  that a waiting connection is ever accepted is not claimed.
- What `poll()` reports of a pipe at its end (the client's piped input); in
  `CommandLine` the input ends with a `read()` of 0. A last line without a line feed
  is never run, there as in the code.
