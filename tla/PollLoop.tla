------------------------------- MODULE PollLoop -------------------------------
(***************************************************************************)
(* Server::run (src/server/Server.cpp): one round asks poll() about the    *)
(* descriptors there are, accepts a connection, then serves the            *)
(* descriptors of that snapshot in ascending order.  Meanwhile peers       *)
(* connect, send and leave, the server closes connections, and the number  *)
(* of a closed one is given to the next that is accepted.                  *)
(*                                                                         *)
(* The kernel's side (open, inbox) and the server's (clients, polled) are  *)
(* kept apart: nothing forces them to agree.                               *)
(*                                                                         *)
(* The sockets block: a write() waits as long as the peer does not read,   *)
(* and the server with it.  Signals other than SIGPIPE are in Lifecycle.   *)
(***************************************************************************)
EXTENDS Integers

CONSTANTS
  Conns,   \* connections, each made once
  Fds,     \* the descriptor numbers a process may have open for clients
  NoConn   \* no connection

ASSUME FdsAreNumbers == Fds \subseteq Nat
ASSUME NoConnIsNone == NoConn \notin Conns

VARIABLES
  phase,    \* conn -> how far it is
  inbox,    \* conn -> what has arrived from its peer and is not read yet
  open,     \* fd -> connection the kernel has under that number
  clients,  \* descriptors that have a ClientState
  unsent,   \* descriptors of clients whose send_buffer is not empty
  polled,   \* fd -> what poll() reported, and (for the properties) of what connection
  left,     \* descriptors of the snapshot the loop has not come to
  pc        \* where run() is; "waiting": in write(); "dead": a signal has ended the process

kernelVars == <<phase, inbox, open>>
pollVars == <<kernelVars, clients, unsent, polled, left, pc>>

Phases == {"away", "waiting", "connected", "closed"}
\* data: complete frames; bad: a frame that is too long; end: FIN; reset: RST.
Arrivals == {"data", "bad", "end", "reset"}
Events == {"POLLIN", "POLLOUT", "POLLHUP", "POLLNVAL"}  \* POLLERR comes with POLLHUP

Waiting == {k \in Conns : phase[k] = "waiting"}
Idle == [revents |-> {}, of |-> NoConn]

PollInit ==
  /\ phase = [k \in Conns |-> "away"]
  /\ inbox = [k \in Conns |-> {}]
  /\ open = [fd \in Fds |-> NoConn]
  /\ clients = {}
  /\ unsent = {}
  /\ polled = [fd \in Fds |-> Idle]
  /\ left = {}
  /\ pc = "poll"

-----------------------------------------------------------------------------
(* Peers *)

Connect(k) ==
  /\ phase[k] = "away"
  /\ phase' = [phase EXCEPT ![k] = "waiting"]
  /\ UNCHANGED <<inbox, open, clients, unsent, polled, left, pc>>

\* Nothing follows a FIN but a reset, and nothing a reset.
Arrive(k, what) ==
  /\ phase[k] \in {"waiting", "connected"}
  /\ "reset" \notin inbox[k]
  /\ "end" \in inbox[k] => what = "reset"
  /\ inbox' = [inbox EXCEPT ![k] = @ \cup {what}]
  /\ UNCHANGED <<phase, open, clients, unsent, polled, left, pc>>

-----------------------------------------------------------------------------
(* The server *)

\* What poll() says of a descriptor, given those that can be written to.
Revents(fd, writable) ==
  IF open[fd] = NoConn THEN {"POLLNVAL"}
  ELSE {e \in Events :
          \/ e = "POLLIN" /\ inbox[open[fd]] # {}
          \/ e = "POLLHUP" /\ "reset" \in inbox[open[fd]]
          \/ e = "POLLOUT" /\ fd \in unsent /\ fd \in writable}

\* _build_pollfds and poll(-1), which waits until a descriptor is ready.
Poll ==
  \E writable \in SUBSET unsent :
    /\ pc = "poll"
    /\ left' = {fd \in clients : Revents(fd, writable) # {}}
    /\ polled' = [fd \in Fds |->
                    IF fd \in clients
                    THEN [revents |-> Revents(fd, writable), of |-> open[fd]]
                    ELSE Idle]
    /\ \/ Waiting # {} /\ pc' = "accept"
       \/ Waiting = {} /\ left' # {} /\ pc' = "serve"
    /\ UNCHANGED <<kernelVars, clients, unsent>>

Free == {fd \in Fds : open[fd] = NoConn}

\* accept() gives the lowest number that is free, or fails if there is none.
Accepted ==
  IF Free = {} THEN UNCHANGED <<kernelVars, clients, unsent>>
  ELSE \E k \in Waiting, fd \in Free :
         /\ \A other \in Free : fd <= other
         /\ phase' = [phase EXCEPT ![k] = "connected"]
         /\ open' = [open EXCEPT ![fd] = k]
         /\ clients' = clients \cup {fd}
         /\ unsent' = unsent \ {fd}
         /\ UNCHANGED inbox

_handle_new_connection ==
  /\ pc = "accept"
  /\ Accepted
  /\ pc' = "serve"
  /\ UNCHANGED <<polled, left>>

\* _queue_bytes has nothing to do with a descriptor that is not a client's.
\* Mutant: it queues for any.
CanQueue_Any == Fds
CanQueue == clients

\* close(fd), whether the descriptor is open or not, and its client forgotten;
\* others may be sent the news.
_handle_client_disconnect(fd) ==
  \E others \in SUBSET (CanQueue \ {fd}) :
    /\ IF open[fd] = NoConn THEN UNCHANGED <<phase, inbox>>
       ELSE /\ phase' = [phase EXCEPT ![open[fd]] = "closed"]
            /\ inbox' = [inbox EXCEPT ![open[fd]] = {}]
    /\ open' = [open EXCEPT ![fd] = NoConn]
    /\ clients' = clients \ {fd}
    /\ unsent' = (unsent \cup others) \ {fd}

\* read() and _process_recv_buffer: the frames before one that is too long, or
\* before the end of the file, may be read alone.
ReadFrames(fd) ==
  /\ "data" \in inbox[open[fd]]
  /\ inbox' = [inbox EXCEPT ![open[fd]] = @ \ {"data"}]
  /\ \E answered \in SUBSET CanQueue : unsent' = unsent \cup answered
  /\ UNCHANGED <<phase, open, clients>>

\* Mutant: the end of the file ends the connection before what was read with it is
\* processed.
_handle_client_read_ToTheEnd(fd) ==
  IF "end" \in inbox[open[fd]] THEN _handle_client_disconnect(fd) ELSE ReadFrames(fd)
_handle_client_read(fd) ==
  \/ ReadFrames(fd)
  \/ "bad" \in inbox[open[fd]] /\ _handle_client_disconnect(fd)
  \/ inbox[open[fd]] \cap {"data", "bad"} = {} /\ _handle_client_disconnect(fd)

\* The loop has come to fd, and is at that place of its body.
Turn(fd, place) == pc = place /\ fd \in left /\ \A other \in left : fd <= other

\* What the loop still has to serve after fd.  Mutant: a break for a continue.
Rest_None(fd) == {}
Rest(fd) == left \ {fd}

\* Where the loop goes after the first look at fd: to the write, unless nothing
\* was to be written.  Mutant: there may be more to read, so it looks again.
AfterRead_Again(fd) == pc' = "serve" /\ left' \in {left, Rest(fd)}
AfterRead(fd) ==
  IF "POLLOUT" \in polled[fd].revents THEN pc' = "write" /\ UNCHANGED left
  ELSE pc' = "serve" /\ left' = Rest(fd)

Gone(fd) ==
  /\ fd \notin clients
  /\ left' = Rest(fd)
  /\ UNCHANGED <<kernelVars, clients, unsent, pc>>

Hangup(fd) ==
  /\ fd \in clients
  /\ polled[fd].revents \cap {"POLLHUP", "POLLNVAL"} # {}
  /\ _handle_client_disconnect(fd)
  /\ left' = Rest(fd)
  /\ UNCHANGED pc

Read(fd) ==
  /\ fd \in clients
  /\ polled[fd].revents \cap {"POLLHUP", "POLLNVAL"} = {}
  /\ IF "POLLIN" \in polled[fd].revents THEN _handle_client_read(fd)
     ELSE UNCHANGED <<kernelVars, clients, unsent>>
  /\ AfterRead(fd)

Serve(fd) ==
  /\ Turn(fd, "serve")
  /\ Gone(fd) \/ Hangup(fd) \/ Read(fd)
  /\ UNCHANGED polled

\* The second look at clients, after the read may have ended the connection.
\* Mutant: there is none, and clients[fd] makes a new ClientState.
StillClient_Assumed(fd) == TRUE
StillClient(fd) == fd \in clients

Arrived(fd) == IF open[fd] = NoConn THEN {} ELSE inbox[open[fd]]

\* Nothing was to be written, or write() has returned with all of it.
Written(fd) ==
  /\ clients' = clients \cup {fd}
  /\ unsent' = unsent \ {fd}
  /\ pc' = "serve"
  /\ UNCHANGED kernelVars

\* write() to a connection that was reset: an error, unless its FIN had come
\* first: then it is EPIPE, with a SIGPIPE nobody handles.
WriteFails(fd) ==
  /\ fd \in unsent /\ "reset" \in Arrived(fd)
  /\ \/ "end" \notin Arrived(fd) /\ _handle_client_disconnect(fd) /\ pc' = "serve"
     \/ "end" \in Arrived(fd) /\ pc' = "dead" /\ UNCHANGED <<kernelVars, clients, unsent>>

\* There is more to write than the socket has room for.
WriteWaits(fd) ==
  /\ fd \in unsent /\ "reset" \notin Arrived(fd)
  /\ pc' = "waiting"
  /\ UNCHANGED <<kernelVars, clients, unsent, left>>

_handle_client_write(fd) ==
  \/ /\ fd \notin unsent \/ "reset" \notin Arrived(fd)
     /\ Written(fd) /\ left' = Rest(fd)
  \/ WriteFails(fd) /\ left' = Rest(fd)
  \/ WriteWaits(fd)

Write(fd) ==
  /\ Turn(fd, "write")
  /\ \/ StillClient(fd) /\ _handle_client_write(fd)
     \/ /\ ~StillClient(fd) /\ pc' = "serve" /\ left' = Rest(fd)
        /\ UNCHANGED <<kernelVars, clients, unsent>>
  /\ UNCHANGED polled

\* The connection is reset while write() waits: a short count, or as above.
WriteBroken(fd) ==
  /\ Turn(fd, "waiting")
  /\ "reset" \in Arrived(fd)
  /\ \/ WriteFails(fd)
     \/ pc' = "serve" /\ UNCHANGED <<kernelVars, clients, unsent>>
  /\ left' = Rest(fd)
  /\ UNCHANGED polled

\* The peer of fd reads what was in the way, and write() returns.
PeerReads(fd) ==
  /\ Turn(fd, "waiting")
  /\ "reset" \notin Arrived(fd)
  /\ Written(fd)
  /\ left' = Rest(fd)
  /\ UNCHANGED polled

\* Every descriptor of the snapshot has been served.
Round ==
  /\ pc = "serve"
  /\ left = {}
  /\ pc' = "poll"
  /\ polled' = [fd \in Fds |-> Idle]
  /\ UNCHANGED <<kernelVars, clients, unsent, left>>

ServerStep ==
  \/ Poll
  \/ _handle_new_connection
  \/ \E fd \in Fds : Serve(fd) \/ Write(fd) \/ WriteBroken(fd)
  \/ Round

PeerStep ==
  \/ \E k \in Conns : Connect(k) \/ \E what \in Arrivals : Arrive(k, what)
  \/ \E fd \in Fds : PeerReads(fd)

PollNext == ServerStep \/ PeerStep

\* The server is one thread, held up by poll() and by a write() that waits.  Peers
\* owe it nothing: one may never read.
PollSpec == PollInit /\ [][PollNext]_pollVars /\ WF_pollVars(ServerStep)

-----------------------------------------------------------------------------
(* Properties *)

PollTypeOK ==
  /\ phase \in [Conns -> Phases]
  /\ inbox \in [Conns -> SUBSET Arrivals]
  /\ open \in [Fds -> Conns \cup {NoConn}]
  /\ clients \subseteq Fds
  /\ unsent \subseteq clients
  /\ polled \in [Fds -> [revents : SUBSET Events, of : Conns \cup {NoConn}]]
  /\ left \subseteq Fds
  /\ pc \in {"poll", "accept", "serve", "write", "waiting", "dead"}

\* What the loop is about to act on is what poll() looked at: a descriptor that
\* is still to be served and is a client's is the connection its revents came from,
\* although numbers are closed and given out again within a round (run()).
ServedAsPolled ==
  \A fd \in left : fd \in clients => open[fd] = polled[fd].of /\ open[fd] # NoConn

\* read() is called only where there is something to read: the sockets block, and
\* the server would wait there for one client (_handle_client_read).
ReadNeverWaits ==
  \A fd \in left :
    /\ fd \in clients
    /\ "POLLIN" \in polled[fd].revents
    /\ pc = "serve"
    => open[fd] # NoConn /\ inbox[open[fd]] # {}

\* The map of clients and the descriptors that are open are the same, and no
\* connection is under two of them: none leaks, none is a ghost.
ClientsAreOpen ==
  /\ clients = {fd \in Fds : open[fd] # NoConn}
  /\ \A fd, other \in clients : open[fd] = open[other] => fd = other
  /\ \A fd \in clients : phase[open[fd]] = "connected"

\* A connection is closed only for what its own peer did, also while the server
\* waits for another one (_handle_client_disconnect and its callers).
OnlyEndedDropped ==
  [][\A k \in Conns :
       phase[k] = "connected" /\ phase'[k] = "closed"
         => inbox[k] \cap {"bad", "end", "reset"} # {}]_pollVars

\* A client that sends its last commands and leaves has them all read: a connection
\* that is neither reset nor misused is closed after its last frame, although the
\* loop looks at hang-ups before it reads (run()).
LastCommandsRead ==
  [][\A k \in Conns :
       phase[k] = "connected" /\ phase'[k] = "closed" /\ "data" \in inbox[k]
         => inbox[k] \cap {"bad", "reset"} # {}]_pollVars

\* Whoever a write() waits for reads in the end, or is reset.
NoWriteWaitsForEver == []<>(pc # "waiting")

\* However busy the others are, and however long writes to them wait: what a client
\* has sent is read, and its leaving is noticed (RFC section 12, rule 3), unless the
\* process has been killed or a peer that never reads keeps it in write().
EverybodyServed ==
  NoWriteWaitsForEver =>
    \A k \in Conns :
      /\ phase[k] = "connected" /\ "data" \in inbox[k]
           ~> "data" \notin inbox[k] \/ pc = "dead"
      /\ phase[k] = "connected" /\ "end" \in inbox[k]
           ~> phase[k] = "closed" \/ pc = "dead"

\* RFC section 12, rule 4: "On unexpected disconnection the server logs the user
\* out and broadcasts EVT_USER_LOGGED_OUT."  A reset that comes between poll() and
\* write(), after the peer's FIN, ends the process instead.
SurvivesDisconnection == pc # "dead"
===============================================================================
