----------------------------- MODULE FlowControl -----------------------------
(***************************************************************************)
(* Bytes between the clients' loops (src/client/Client.cpp, Network.cpp,   *)
(* Packet.cpp, stdin_handling.cpp) and the server's (src/server/Server.cpp)*)
(* over sockets of bounded capacity.  No socket is made non-blocking: each *)
(* side's write() returns when all it was given is in the socket, and      *)
(* until then that side does nothing else.                                 *)
(*                                                                         *)
(* A command is one unit, an answer several, an event for the others one.  *)
(***************************************************************************)
EXTENDS Integers, Sequences, FiniteSets

CONSTANTS
  Clients,     \* connected clients
  SocketSize,  \* units a socket holds in one direction
  AnswerSize,  \* units of an answer
  MaxLines,    \* bound: lines a user types
  Patient      \* users wait for the answer before they type the next line

ASSUME SizesAreUsable ==
  SocketSize \in Nat \ {0} /\ AnswerSize \in Nat \ {0} /\ MaxLines \in Nat /\ Patient \in BOOLEAN

VARIABLES
  typed,    \* client -> lines its user has typed
  stdin,    \* client -> those it has not read yet
  tosend,   \* client -> commands of the last read of stdin still to be written
  up,       \* client -> commands in the socket to the server
  queued,   \* client -> its send_buffer in the server
  writing,  \* client -> units left of the write() the server is in
  down,     \* client -> what is in the socket from the server
  shown     \* client -> complete answers it has shown

flowVars == <<typed, stdin, tosend, up, queued, writing, down, shown>>

FlowInit ==
  /\ typed = [c \in Clients |-> 0]
  /\ stdin = [c \in Clients |-> 0]
  /\ tosend = [c \in Clients |-> 0]
  /\ up = [c \in Clients |-> 0]
  /\ queued = [c \in Clients |-> <<>>]
  /\ writing = [c \in Clients |-> 0]
  /\ down = [c \in Clients |-> <<>>]
  /\ shown = [c \in Clients |-> 0]

AnswerUnits == [i \in 1 .. AnswerSize |-> IF i = AnswerSize THEN "answer" ELSE "part"]
\* How many answers end among units.
Answers(units) == Cardinality({i \in DOMAIN units : units[i] = "answer"})

-----------------------------------------------------------------------------
(* Users and clients *)

Type(c) ==
  /\ typed[c] < MaxLines
  /\ Patient => typed[c] <= shown[c]
  /\ typed' = [typed EXCEPT ![c] = @ + 1]
  /\ stdin' = [stdin EXCEPT ![c] = @ + 1]
  /\ UNCHANGED <<tosend, up, queued, writing, down, shown>>

\* One read() of stdin takes all the lines there are, and every one is sent before
\* the loop goes on.
_handle_stdin(c) ==
  /\ tosend[c] = 0 /\ stdin[c] > 0
  /\ tosend' = [tosend EXCEPT ![c] = stdin[c]]
  /\ stdin' = [stdin EXCEPT ![c] = 0]
  /\ UNCHANGED <<typed, up, queued, writing, down, shown>>

_send_packet(c) ==
  /\ tosend[c] > 0 /\ up[c] < SocketSize
  /\ tosend' = [tosend EXCEPT ![c] = @ - 1]
  /\ up' = [up EXCEPT ![c] = @ + 1]
  /\ UNCHANGED <<typed, stdin, queued, writing, down, shown>>

\* The client is back in poll(), with bytes from the server.  Mutant: it looks at
\* the socket only after a line was typed.
Attentive_AfterInput(c) == tosend[c] = 0 /\ stdin[c] > 0
Attentive(c) == tosend[c] = 0

_handle_server_read(c) ==
  /\ Attentive(c) /\ down[c] # <<>>
  /\ shown' = [shown EXCEPT ![c] = @ + Answers(down[c])]
  /\ down' = [down EXCEPT ![c] = <<>>]
  /\ UNCHANGED <<typed, stdin, tosend, up, queued, writing>>

-----------------------------------------------------------------------------
(* The server *)

Writing == \E c \in Clients : writing[c] > 0

\* Commands are read, answered to the caller and told to the others.
_handle_client_read(c) ==
  /\ ~Writing /\ up[c] > 0
  /\ up' = [up EXCEPT ![c] = @ - 1]
  /\ queued' = [other \in Clients |-> IF other = c THEN queued[c] \o AnswerUnits
                                      ELSE Append(queued[other], "event")]
  /\ UNCHANGED <<typed, stdin, tosend, writing, down, shown>>

\* poll() said POLLOUT: there is some room.  How much write() is given: all of it.
_handle_client_write(c) ==
  /\ ~Writing /\ queued[c] # <<>> /\ Len(down[c]) < SocketSize
  /\ writing' = [writing EXCEPT ![c] = Len(queued[c])]
  /\ UNCHANGED <<typed, stdin, tosend, up, queued, down, shown>>

\* write() copies another unit, and returns after the last.
CopyUnit(c) ==
  /\ writing[c] > 0 /\ Len(down[c]) < SocketSize
  /\ down' = [down EXCEPT ![c] = Append(@, Head(queued[c]))]
  /\ queued' = [queued EXCEPT ![c] = Tail(@)]
  /\ writing' = [writing EXCEPT ![c] = @ - 1]
  /\ UNCHANGED <<typed, stdin, tosend, up, shown>>

FlowNext ==
  \E c \in Clients :
    \/ Type(c)
    \/ _handle_stdin(c) \/ _send_packet(c) \/ _handle_server_read(c)
    \/ _handle_client_read(c) \/ _handle_client_write(c) \/ CopyUnit(c)

\* Both kinds of loop are scheduled.  A round of the server comes to every
\* descriptor that is ready (PollLoop), so that what is possible between its writes
\* again and again is done.  Users may stop typing.
FlowSpec ==
  /\ FlowInit /\ [][FlowNext]_flowVars
  /\ \A c \in Clients :
       /\ SF_flowVars(_handle_client_read(c))
       /\ SF_flowVars(_handle_client_write(c))
       /\ WF_flowVars(CopyUnit(c))
       /\ WF_flowVars(_handle_stdin(c))
       /\ WF_flowVars(_send_packet(c))
       /\ WF_flowVars(_handle_server_read(c))

-----------------------------------------------------------------------------
(* Properties *)

\* A command typed by a user who waits for each answer is answered, however long the
\* answers are for the sockets and whatever the others do (Client::run, Server::run).
EveryLineAnswered ==
  \A c \in Clients, n \in 1 .. MaxLines : typed[c] >= n ~> shown[c] >= n

\* Server.hpp:26: send_buffer holds "Pending bytes queued for non-blocking
\* writes."  The sockets block, and the server waits in write() while the client
\* has not read (Server.cpp:176-188).
WritesNeverWait == \A c \in Clients : writing[c] > 0 => Len(down[c]) < SocketSize

\* README.md:50: "Everyone sees new activity the moment it happens."  A client
\* that was given several lines at once is in write() as well when its socket is
\* full: it and the server then wait for each other, and nobody sees anything.
LiveUpdates == \A c \in Clients : queued[c] # <<>> ~> queued[c] = <<>>
==============================================================================
