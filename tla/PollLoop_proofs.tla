--------------------------- MODULE PollLoop_proofs -----------------------------
(***************************************************************************)
(* The poll loop for any number of connections and descriptors: what poll()*)
(* reported is still true of a descriptor when the loop comes to it.       *)
(*                                                                         *)
(* The invariant adds to ServedAsPolled what the reported events mean      *)
(* (SnapshotHolds): numbers are given out again only between poll() and    *)
(* the first descriptor served, an inbox only loses what is read from it,  *)
(* and it is read at the descriptor's own turn.                            *)
(***************************************************************************)
EXTENDS PollLoop, TLAPS

\* fd's turn is on, and its read is over.
AfterItsRead(fd) == pc \in {"write", "waiting"} /\ \A other \in left : fd <= other

\* What poll() reported of a descriptor still to be served is still so.
StillSo(fd) ==
  /\ open[fd] = polled[fd].of
  /\ "POLLNVAL" \notin polled[fd].revents
  /\ "POLLHUP" \in polled[fd].revents => "reset" \in inbox[open[fd]]
  /\ "POLLIN" \in polled[fd].revents /\ ~AfterItsRead(fd) => inbox[open[fd]] # {}

\* A write() waits for a client.
WaitsForClient ==
  pc = "waiting" => \A fd \in left : (\A other \in left : fd <= other) => fd \in clients

SnapshotHolds ==
  /\ pc = "accept" => left \subseteq clients
  /\ WaitsForClient
  /\ \A fd \in left \cap clients : StillSo(fd)

PollInv == PollTypeOK /\ ClientsAreOpen /\ SnapshotHolds

\* A client's descriptor has a connection, which is not closed.
LEMMA ClientsConnected ==
  ASSUME PollTypeOK, ClientsAreOpen, NEW fd \in clients
  PROVE  /\ fd \in Fds /\ fd \in Nat
         /\ open[fd] \in Conns /\ open[fd] # NoConn
         /\ phase[open[fd]] = "connected"
BY FdsAreNumbers DEF PollTypeOK, ClientsAreOpen

\* The turn of a descriptor is its own.
LEMMA OneTurn ==
  ASSUME PollTypeOK, NEW fd \in left, NEW g \in left,
         \A other \in left : fd <= other, \A other \in left : g <= other
  PROVE  fd = g
BY FdsAreNumbers DEF PollTypeOK

\* The kernel's side and the server's, apart from the snapshot.
Sides ==
  /\ phase \in [Conns -> Phases]
  /\ inbox \in [Conns -> SUBSET Arrivals]
  /\ open \in [Fds -> Conns \cup {NoConn}]
  /\ clients \subseteq Fds
  /\ unsent \subseteq clients
  /\ ClientsAreOpen

\* Closing the connection of a client leaves the others as they are.
LEMMA Closing ==
  ASSUME Sides, NEW fd \in clients, _handle_client_disconnect(fd)
  PROVE  /\ Sides'
         /\ clients' = clients \ {fd}
         /\ \A g \in clients' : open'[g] = open[g] /\ inbox'[open[g]] = inbox[open[g]]
         /\ \A k \in Conns : phase'[k] # phase[k] => k = open[fd]
<1> USE DEF Sides
<1>1. fd \in Fds /\ open[fd] \in Conns /\ open[fd] # NoConn
  BY DEF ClientsAreOpen
<1>2. /\ phase' = [phase EXCEPT ![open[fd]] = "closed"]
      /\ inbox' = [inbox EXCEPT ![open[fd]] = {}]
      /\ open' = [open EXCEPT ![fd] = NoConn]
      /\ clients' = clients \ {fd}
      /\ unsent' \subseteq clients'
  BY <1>1 DEF _handle_client_disconnect, CanQueue
<1>3. \A g \in clients' : g \in clients /\ open'[g] = open[g] /\ open[g] # open[fd]
  BY <1>1, <1>2 DEF ClientsAreOpen
<1>4. ClientsAreOpen'
  <2>1. clients' = {g \in Fds : open'[g] # NoConn}
    BY <1>1, <1>2 DEF ClientsAreOpen
  <2>2. \A g, other \in clients' : open'[g] = open'[other] => g = other
    BY <1>3 DEF ClientsAreOpen
  <2>3. \A g \in clients' : phase'[open'[g]] = "connected"
    BY <1>1, <1>2, <1>3 DEF ClientsAreOpen
  <2> QED BY <2>1, <2>2, <2>3 DEF ClientsAreOpen
<1>5. \A g \in clients' : inbox'[open[g]] = inbox[open[g]]
  <2> SUFFICES ASSUME NEW g \in clients' PROVE inbox'[open[g]] = inbox[open[g]]
    OBVIOUS
  <2>1. open[g] \in Conns
    BY <1>3 DEF ClientsAreOpen
  <2> QED BY <1>2, <1>3, <2>1
<1>6. phase' \in [Conns -> Phases] /\ inbox' \in [Conns -> SUBSET Arrivals]
      /\ open' \in [Fds -> Conns \cup {NoConn}]
  BY <1>1, <1>2 DEF Phases
<1> QED BY <1>1, <1>2, <1>3, <1>4, <1>5, <1>6

\* Reading takes the data of one connection.
LEMMA Reading ==
  ASSUME Sides, NEW fd \in clients, ReadFrames(fd)
  PROVE  /\ Sides'
         /\ UNCHANGED <<clients, open, phase>>
         /\ \A g \in clients : g # fd => inbox'[open[g]] = inbox[open[g]]
         /\ inbox'[open[fd]] = inbox[open[fd]] \ {"data"}
<1> USE DEF Sides
<1>1. fd \in Fds /\ open[fd] \in Conns
  BY DEF ClientsAreOpen
<1>2. /\ inbox' = [inbox EXCEPT ![open[fd]] = @ \ {"data"}]
      /\ UNCHANGED <<clients, open, phase>>
      /\ unsent' \subseteq clients'
  BY DEF ReadFrames, CanQueue
<1>3. \A g \in clients : g # fd => open[g] # open[fd] /\ open[g] \in Conns
  BY DEF ClientsAreOpen
<1>4. ClientsAreOpen'
  BY <1>2 DEF ClientsAreOpen
<1>5. \A g \in clients : g # fd => inbox'[open[g]] = inbox[open[g]]
  BY <1>1, <1>2, <1>3
<1>6. inbox' \in [Conns -> SUBSET Arrivals]
  BY <1>1, <1>2
<1> QED BY <1>1, <1>2, <1>4, <1>5, <1>6

\* What a step owes the descriptors that are still to be served.
LEMMA SnapshotKept ==
  ASSUME SnapshotHolds, polled' = polled, left' \subseteq left,
         pc' = "accept" => left' \subseteq clients', WaitsForClient',
         \A g \in left' \cap clients' :
           /\ g \in clients /\ open'[g] = open[g]
           /\ "reset" \in inbox[open[g]] => "reset" \in inbox'[open[g]]
           /\ "POLLIN" \in polled[g].revents /\ ~AfterItsRead(g)' => inbox'[open[g]] # {}
  PROVE  SnapshotHolds'
<1> SUFFICES ASSUME NEW g \in left' \cap clients' PROVE StillSo(g)'
  BY DEF SnapshotHolds
<1>1. StillSo(g)
  BY DEF SnapshotHolds
<1> QED BY <1>1 DEF StillSo

-----------------------------------------------------------------------------
(* One lemma per action *)

LEMMA PollKeeps ==
  ASSUME PollInv, Poll
  PROVE  PollInv'
<1> USE DEF PollInv, PollTypeOK
<1>1. PICK writable \in SUBSET unsent :
        /\ left' = {fd \in clients : Revents(fd, writable) # {}}
        /\ polled' = [fd \in Fds |-> IF fd \in clients
                                     THEN [revents |-> Revents(fd, writable), of |-> open[fd]]
                                     ELSE Idle]
        /\ pc' \in {"accept", "serve"}
        /\ UNCHANGED <<kernelVars, clients, unsent>>
  BY DEF Poll
<1>2. \A fd \in Fds : Revents(fd, writable) \subseteq Events
  BY DEF Revents, Events
<1>3. PollTypeOK'
  <2>1. polled' \in [Fds -> [revents : SUBSET Events, of : Conns \cup {NoConn}]]
    BY <1>1, <1>2 DEF Idle
  <2> QED BY <1>1, <2>1 DEF kernelVars
<1>4. ClientsAreOpen'
  BY <1>1 DEF ClientsAreOpen, kernelVars
<1>5. ASSUME NEW fd \in left'
      PROVE  StillSo(fd)'
  <2>1. fd \in Fds /\ fd \in clients /\ open[fd] # NoConn
    BY <1>1, <1>5 DEF ClientsAreOpen
  <2>2. polled'[fd].of = open[fd] /\ polled'[fd].revents = Revents(fd, writable)
    BY <1>1, <2>1
  <2>3. UNCHANGED <<open, inbox>>
    BY <1>1 DEF kernelVars
  <2>4. /\ "POLLNVAL" \notin Revents(fd, writable)
        /\ "POLLHUP" \in Revents(fd, writable) => "reset" \in inbox[open[fd]]
        /\ "POLLIN" \in Revents(fd, writable) => inbox[open[fd]] # {}
    BY <2>1 DEF Revents
  <2> QED BY <2>2, <2>3, <2>4 DEF StillSo
<1>6. SnapshotHolds'
  BY <1>1, <1>5 DEF SnapshotHolds, WaitsForClient
<1> QED BY <1>3, <1>4, <1>6

LEMMA AcceptKeeps ==
  ASSUME PollInv, _handle_new_connection
  PROVE  PollInv'
<1> USE DEF PollInv, PollTypeOK
<1>1. pc = "accept" /\ pc' = "serve" /\ UNCHANGED <<polled, left>> /\ Accepted
  BY DEF _handle_new_connection
<1>2. left \subseteq clients /\ \A g \in left : ~AfterItsRead(g)
  BY <1>1 DEF SnapshotHolds, AfterItsRead
<1>3. CASE Free = {}
  <2>1. UNCHANGED <<phase, inbox, open, clients, unsent>>
    BY <1>1, <1>3 DEF Accepted, kernelVars
  <2>2. PollTypeOK' /\ ClientsAreOpen'
    BY <1>1, <2>1 DEF ClientsAreOpen
  <2>3. SnapshotHolds'
    BY <1>1, <1>2, <2>1, SnapshotKept DEF SnapshotHolds, StillSo, WaitsForClient
  <2> QED BY <2>2, <2>3
<1>4. CASE Free # {}
  <2>1. PICK k \in Waiting, fd \in Free :
          /\ phase' = [phase EXCEPT ![k] = "connected"]
          /\ open' = [open EXCEPT ![fd] = k]
          /\ clients' = clients \cup {fd}
          /\ unsent' = unsent \ {fd}
          /\ UNCHANGED inbox
    BY <1>1, <1>4 DEF Accepted
  <2>2. /\ k \in Conns /\ phase[k] = "waiting" /\ k # NoConn
        /\ fd \in Fds /\ open[fd] = NoConn /\ fd \notin clients
    BY NoConnIsNone DEF Waiting, Free, ClientsAreOpen
  <2>3. \A g \in clients : g # fd /\ open'[g] = open[g] /\ open[g] # k /\ phase'[open[g]] = "connected"
    BY <2>1, <2>2 DEF ClientsAreOpen
  <2>4. PollTypeOK'
    BY <1>1, <2>1, <2>2 DEF Phases
  <2>5. ClientsAreOpen'
    <3>1. clients' = {g \in Fds : open'[g] # NoConn}
      BY <2>1, <2>2 DEF ClientsAreOpen
    <3>2. open'[fd] = k /\ phase'[k] = "connected"
      BY <2>1, <2>2
    <3>3. \A g, other \in clients' : open'[g] = open'[other] => g = other
      BY <2>1, <2>3, <3>2 DEF ClientsAreOpen
    <3>4. \A g \in clients' : phase'[open'[g]] = "connected"
      BY <2>1, <2>3, <3>2
    <3> QED BY <3>1, <3>3, <3>4 DEF ClientsAreOpen
  <2>6. \A g \in left \cap clients : StillSo(g)
    BY DEF SnapshotHolds
  <2>7. SnapshotHolds'
    BY <1>1, <1>2, <2>1, <2>3, <2>6, SnapshotKept DEF StillSo, WaitsForClient
  <2> QED BY <2>4, <2>5, <2>7
<1> QED BY <1>3, <1>4

LEMMA ServeKeeps ==
  ASSUME PollInv, NEW fd \in Fds, Serve(fd)
  PROVE  PollInv'
<1> USE DEF PollInv
<1>1. /\ pc = "serve" /\ fd \in left /\ \A other \in left : fd <= other
      /\ UNCHANGED polled
  BY DEF Serve, Turn
<1>2. Sides
  BY DEF PollTypeOK, Sides
<1>3. \A g \in left \cap clients : StillSo(g) /\ ~AfterItsRead(g)
  BY <1>1 DEF SnapshotHolds, AfterItsRead
<1>4. CASE Gone(fd)
  <2>1. UNCHANGED <<phase, inbox, open, clients, unsent, pc>> /\ left' = left \ {fd}
    BY <1>4 DEF Gone, Rest, kernelVars
  <2>2. PollTypeOK' /\ ClientsAreOpen'
    BY <1>1, <2>1 DEF PollTypeOK, ClientsAreOpen
  <2>3. SnapshotHolds'
    BY <1>1, <1>3, <2>1, SnapshotKept DEF StillSo, WaitsForClient
  <2> QED BY <2>2, <2>3
<1>5. ASSUME fd \in clients, _handle_client_disconnect(fd),
             \/ pc' = "serve" /\ left' = left \ {fd}
             \/ pc' = "write" /\ left' = left
      PROVE  PollInv'
  <2>1. /\ Sides' /\ clients' = clients \ {fd}
        /\ \A g \in clients' : open'[g] = open[g] /\ inbox'[open[g]] = inbox[open[g]]
    BY <1>2, <1>5, Closing
  <2>2. PollTypeOK' /\ ClientsAreOpen'
    BY <1>1, <1>5, <2>1 DEF PollTypeOK, Sides
  <2>3. SnapshotHolds'
    BY <1>1, <1>3, <1>5, <2>1, SnapshotKept DEF StillSo, WaitsForClient
  <2> QED BY <2>2, <2>3
<1>6. CASE Hangup(fd)
  BY <1>1, <1>5, <1>6 DEF Hangup, Rest
<1>7. CASE Read(fd)
  <2>1. /\ fd \in clients
        /\ \/ pc' = "serve" /\ left' = left \ {fd}
           \/ pc' = "write" /\ left' = left
    BY <1>7 DEF Read, AfterRead, Rest
  <2>2. CASE UNCHANGED <<kernelVars, clients, unsent>>
    <3>1. UNCHANGED <<phase, inbox, open, clients, unsent>>
      BY <2>2 DEF kernelVars
    <3>2. PollTypeOK' /\ ClientsAreOpen'
      BY <1>1, <2>1, <3>1 DEF PollTypeOK, ClientsAreOpen
    <3>3. SnapshotHolds'
      BY <1>1, <1>3, <2>1, <3>1, SnapshotKept DEF StillSo, WaitsForClient
    <3> QED BY <3>2, <3>3
  <2>3. CASE ReadFrames(fd)
    <3>1. /\ Sides' /\ UNCHANGED <<clients, open>>
          /\ \A g \in clients : g # fd => inbox'[open[g]] = inbox[open[g]]
          /\ inbox'[open[fd]] = inbox[open[fd]] \ {"data"}
      BY <1>2, <2>1, <2>3, Reading
    <3>2. PollTypeOK' /\ ClientsAreOpen'
      BY <1>1, <2>1, <3>1 DEF PollTypeOK, Sides
    <3>3. fd \in left' => AfterItsRead(fd)'
      BY <1>1, <2>1 DEF AfterItsRead
    <3>4. SnapshotHolds'
      BY <1>1, <1>3, <2>1, <3>1, <3>3, SnapshotKept DEF StillSo, WaitsForClient
    <3> QED BY <3>2, <3>4
  <2>4. CASE _handle_client_disconnect(fd)
    BY <1>5, <2>1, <2>4
  <2> QED BY <1>7, <2>2, <2>3, <2>4 DEF Read, _handle_client_read
<1> QED BY <1>4, <1>6, <1>7 DEF Serve

\* fd's turn ends with its write, which may have ended the connection.
LEMMA TurnEnds ==
  ASSUME PollInv, NEW fd \in left, \A other \in left : fd <= other,
         pc \in {"write", "waiting"}, pc' \in {"serve", "dead"},
         left' = left \ {fd}, UNCHANGED polled,
         \/ UNCHANGED <<phase, inbox, open, clients>> /\ unsent' \subseteq unsent
         \/ fd \in clients /\ _handle_client_disconnect(fd)
  PROVE  PollInv'
<1> USE DEF PollInv
<1>1. Sides
  BY DEF PollTypeOK, Sides
<1>2. \A g \in left' \cap clients : StillSo(g) /\ ~AfterItsRead(g)
  BY OneTurn DEF SnapshotHolds, AfterItsRead
<1>3. CASE UNCHANGED <<phase, inbox, open, clients>> /\ unsent' \subseteq unsent
  <2>1. PollTypeOK' /\ ClientsAreOpen'
    BY <1>3 DEF PollTypeOK, ClientsAreOpen
  <2>2. SnapshotHolds'
    BY <1>2, <1>3, SnapshotKept DEF StillSo, WaitsForClient
  <2> QED BY <2>1, <2>2
<1>4. CASE fd \in clients /\ _handle_client_disconnect(fd)
  <2>1. /\ Sides' /\ clients' = clients \ {fd}
        /\ \A g \in clients' : open'[g] = open[g] /\ inbox'[open[g]] = inbox[open[g]]
    BY <1>1, <1>4, Closing
  <2>2. PollTypeOK' /\ ClientsAreOpen'
    BY <2>1 DEF PollTypeOK, Sides
  <2>3. SnapshotHolds'
    BY <1>2, <2>1, SnapshotKept DEF StillSo, WaitsForClient
  <2> QED BY <2>2, <2>3
<1> QED BY <1>3, <1>4

\* How a write to a client ends or fails to.
LEMMA WriteEnds ==
  ASSUME NEW fd \in clients
  PROVE  /\ Written(fd) => /\ UNCHANGED <<phase, inbox, open, clients>>
                          /\ unsent' \subseteq unsent /\ pc' = "serve"
         /\ WriteFails(fd) => /\ \/ UNCHANGED <<phase, inbox, open, clients, unsent>>
                                \/ _handle_client_disconnect(fd)
                             /\ pc' \in {"serve", "dead"}
BY DEF Written, WriteFails, kernelVars

LEMMA WriteKeeps ==
  ASSUME PollInv, NEW fd \in Fds, Write(fd)
  PROVE  PollInv'
<1>1. pc = "write" /\ fd \in left /\ \A other \in left : fd <= other /\ UNCHANGED polled
  BY DEF Write, Turn
<1>2. CASE ~StillClient(fd)
  <2>1. pc' = "serve" /\ left' = left \ {fd} /\ UNCHANGED <<phase, inbox, open, clients, unsent>>
    BY <1>2 DEF Write, Rest, kernelVars
  <2> QED BY <1>1, <2>1, TurnEnds
<1>3. CASE StillClient(fd)
  <2>1. fd \in clients /\ _handle_client_write(fd)
    BY <1>3 DEF Write, StillClient
  <2>2. CASE Written(fd) /\ left' = Rest(fd)
    BY <1>1, <2>1, <2>2, WriteEnds, TurnEnds DEF Rest
  <2>3. CASE WriteFails(fd) /\ left' = Rest(fd)
    BY <1>1, <2>1, <2>3, WriteEnds, TurnEnds DEF Rest
  <2>4. CASE WriteWaits(fd)
    <3>1. pc' = "waiting" /\ UNCHANGED <<phase, inbox, open, clients, unsent, left>>
      BY <2>4 DEF WriteWaits, kernelVars
    <3>2. WaitsForClient'
      BY <1>1, <2>1, <3>1, OneTurn DEF PollInv, WaitsForClient
    <3>3. PollTypeOK' /\ ClientsAreOpen'
      BY <1>1, <3>1 DEF PollInv, PollTypeOK, ClientsAreOpen
    <3>4. \A g \in left \cap clients : StillSo(g) /\ (~AfterItsRead(g)' => ~AfterItsRead(g))
      BY <1>1, <3>1 DEF PollInv, SnapshotHolds, AfterItsRead
    <3>5. SnapshotHolds'
      BY <1>1, <3>1, <3>2, <3>4, SnapshotKept DEF PollInv, StillSo
    <3> QED BY <3>3, <3>5 DEF PollInv
  <2> QED BY <2>1, <2>2, <2>3, <2>4 DEF _handle_client_write
<1> QED BY <1>2, <1>3

\* The client a write() waits for.
LEMMA WaitedForIsClient ==
  ASSUME PollInv, NEW fd \in Fds, Turn(fd, "waiting")
  PROVE  fd \in left /\ fd \in clients /\ \A other \in left : fd <= other
BY DEF PollInv, SnapshotHolds, WaitsForClient, Turn

LEMMA WriteBrokenKeeps ==
  ASSUME PollInv, NEW fd \in Fds, WriteBroken(fd)
  PROVE  PollInv'
<1>1. /\ Turn(fd, "waiting") /\ pc = "waiting" /\ left' = left \ {fd} /\ UNCHANGED polled
      /\ \/ WriteFails(fd)
         \/ pc' = "serve" /\ UNCHANGED <<phase, inbox, open, clients, unsent>>
  BY DEF WriteBroken, Turn, Rest, kernelVars
<1>2. fd \in left /\ fd \in clients /\ \A other \in left : fd <= other
  BY <1>1, WaitedForIsClient
<1>3. CASE WriteFails(fd)
  BY <1>1, <1>2, <1>3, WriteEnds, TurnEnds
<1>4. CASE pc' = "serve" /\ UNCHANGED <<phase, inbox, open, clients, unsent>>
  BY <1>1, <1>2, <1>4, TurnEnds
<1> QED BY <1>1, <1>3, <1>4

LEMMA PeerReadsKeeps ==
  ASSUME PollInv, NEW fd \in Fds, PeerReads(fd)
  PROVE  PollInv'
<1>1. /\ Turn(fd, "waiting") /\ pc = "waiting" /\ left' = left \ {fd} /\ UNCHANGED polled
      /\ Written(fd)
  BY DEF PeerReads, Turn, Rest
<1>2. fd \in left /\ fd \in clients /\ \A other \in left : fd <= other
  BY <1>1, WaitedForIsClient
<1> QED BY <1>1, <1>2, WriteEnds, TurnEnds

LEMMA RoundKeeps ==
  ASSUME PollInv, Round
  PROVE  PollInv'
BY DEF Round, kernelVars, PollInv, PollTypeOK, ClientsAreOpen, SnapshotHolds, WaitsForClient,
   Idle, Events

LEMMA ConnectKeeps ==
  ASSUME PollInv, NEW k \in Conns, Connect(k)
  PROVE  PollInv'
<1> USE DEF PollInv
<1>1. /\ phase[k] = "away" /\ phase' = [phase EXCEPT ![k] = "waiting"]
      /\ UNCHANGED <<inbox, open, clients, unsent, polled, left, pc>>
  BY DEF Connect
<1>2. PollTypeOK' /\ ClientsAreOpen'
  BY <1>1 DEF PollTypeOK, ClientsAreOpen, Phases
<1>3. SnapshotHolds'
  BY <1>1, SnapshotKept DEF SnapshotHolds, StillSo, WaitsForClient, AfterItsRead
<1> QED BY <1>2, <1>3

LEMMA ArriveKeeps ==
  ASSUME PollInv, NEW k \in Conns, NEW what \in Arrivals, Arrive(k, what)
  PROVE  PollInv'
<1> USE DEF PollInv
<1>1. /\ inbox' = [inbox EXCEPT ![k] = @ \cup {what}]
      /\ UNCHANGED <<phase, open, clients, unsent, polled, left, pc>>
  BY DEF Arrive
<1>2. PollTypeOK' /\ ClientsAreOpen'
  BY <1>1 DEF PollTypeOK, ClientsAreOpen
<1>3. \A c \in Conns : inbox[c] \subseteq inbox'[c]
  BY <1>1 DEF PollTypeOK
<1>4. \A g \in left \cap clients : open[g] \in Conns
  BY ClientsConnected
<1>5. SnapshotHolds'
  BY <1>1, <1>3, <1>4, SnapshotKept DEF SnapshotHolds, StillSo, WaitsForClient, AfterItsRead
<1> QED BY <1>2, <1>5

LEMMA PollInvInit == PollInit => PollInv
BY DEF PollInit, PollInv, PollTypeOK, ClientsAreOpen, SnapshotHolds, WaitsForClient, Phases,
   Idle

LEMMA PollInvStep == PollInv /\ [PollNext]_pollVars => PollInv'
<1> SUFFICES ASSUME PollInv, [PollNext]_pollVars PROVE PollInv'
  OBVIOUS
<1>1. CASE ServerStep
  BY <1>1, PollKeeps, AcceptKeeps, ServeKeeps, WriteKeeps, WriteBrokenKeeps, RoundKeeps
  DEF ServerStep
<1>2. CASE PeerStep
  BY <1>2, ConnectKeeps, ArriveKeeps, PeerReadsKeeps DEF PeerStep
<1>3. CASE UNCHANGED pollVars
  BY <1>3 DEF pollVars, kernelVars, PollInv, PollTypeOK, ClientsAreOpen, SnapshotHolds, StillSo,
     WaitsForClient, AfterItsRead
<1> QED BY <1>1, <1>2, <1>3 DEF PollNext

-----------------------------------------------------------------------------
\* The state of the loop stays what the code takes it for.
THEOREM PollInvariant == PollSpec => []PollInv
BY PollInvInit, PollInvStep, PTL DEF PollSpec

\* In particular the types, and that only clients have bytes to be sent.
THEOREM PollTypeCorrect == PollSpec => []PollTypeOK
BY PollInvariant, PTL DEF PollInv

\* A number closed and given out again within a round of run() is never served on
\* what poll() said of the connection it had before.
THEOREM SnapshotNeverMisleads == PollSpec => []ServedAsPolled
<1>1. PollInv => ServedAsPolled
  BY ClientsConnected DEF PollInv, SnapshotHolds, StillSo, ServedAsPolled
<1> QED BY <1>1, PollInvariant, PTL

\* _handle_client_read never waits for a client, however the round went so far.
THEOREM ReadsNeverWait == PollSpec => []ReadNeverWaits
<1>1. PollInv => ReadNeverWaits
  BY ClientsConnected DEF PollInv, SnapshotHolds, StillSo, AfterItsRead, ReadNeverWaits
<1> QED BY <1>1, PollInvariant, PTL

\* The map of clients and the open descriptors never part.
THEOREM ClientsStayOpen == PollSpec => []ClientsAreOpen
BY PollInvariant, PTL DEF PollInv

\* How a connection comes to be closed: it is the one whose turn it is, and its
\* peer has reset or ended it, or sent a frame that is too long.
LEMMA HowClosed ==
  ASSUME PollInv, PollNext, NEW k \in Conns, phase[k] = "connected", phase'[k] = "closed"
  PROVE  \/ inbox[k] \cap {"bad", "reset"} # {}
         \/ "end" \in inbox[k] /\ "data" \notin inbox[k]
<1> USE DEF PollInv
<1>1. Sides
  BY DEF PollTypeOK, Sides
<1>2. PICK fd \in Fds : Serve(fd) \/ Write(fd) \/ WriteBroken(fd)
  <2>1. ~Poll /\ ~Round /\ ~PeerStep
    BY DEF Poll, Round, PeerStep, Connect, Arrive, PeerReads, Written, kernelVars, PollTypeOK
  <2>2. ~_handle_new_connection
    BY DEF _handle_new_connection, Accepted, kernelVars, PollTypeOK
  <2> QED BY <2>1, <2>2 DEF PollNext, ServerStep
<1>3. fd \in clients /\ _handle_client_disconnect(fd)
  <2>1. CASE Serve(fd)
    BY <2>1 DEF Serve, Gone, Hangup, Read, _handle_client_read, ReadFrames, kernelVars
  <2>2. CASE Write(fd) \/ WriteBroken(fd)
    BY <2>2 DEF Write, WriteBroken, StillClient, _handle_client_write, Written, WriteFails,
       WriteWaits, kernelVars, PollTypeOK
  <2> QED BY <1>2, <2>1, <2>2
<1>4. k = open[fd]
  BY <1>1, <1>3, Closing
<1>5. CASE Write(fd) \/ WriteBroken(fd)
  <2>1. "reset" \in Arrived(fd)
    BY <1>5 DEF Write, WriteBroken, _handle_client_write, Written, WriteFails, WriteWaits,
       kernelVars
  <2> QED BY <1>3, <1>4, <2>1, ClientsConnected DEF Arrived
<1>6. CASE Serve(fd)
  <2>1. StillSo(fd) /\ ~AfterItsRead(fd)
    BY <1>3, <1>6 DEF SnapshotHolds, Serve, Turn, AfterItsRead
  <2>2. CASE Hangup(fd)
    BY <1>4, <2>1, <2>2 DEF Hangup, StillSo
  <2>3. CASE Read(fd)
    <3>1. "POLLIN" \in polled[fd].revents /\ _handle_client_read(fd)
      BY <2>3 DEF Read, kernelVars
    <3>2. \/ "bad" \in inbox[k]
          \/ inbox[k] \cap {"data", "bad"} = {}
      BY <1>4, <3>1 DEF _handle_client_read, ReadFrames
    <3>3. inbox[k] # {} /\ inbox[k] \subseteq {"data", "bad", "end", "reset"}
      BY <1>4, <2>1, <3>1 DEF StillSo, PollTypeOK, Arrivals
    <3> QED BY <3>2, <3>3
  <2> QED BY <1>3, <1>6, <2>2, <2>3 DEF Serve, Gone
<1> QED BY <1>2, <1>5, <1>6

\* No peer loses its connection for what another one did.
THEOREM OnlyEndedAreDropped == PollSpec => OnlyEndedDropped
<1>1. PollInv /\ [PollNext]_pollVars =>
        [\A k \in Conns :
           phase[k] = "connected" /\ phase'[k] = "closed"
             => inbox[k] \cap {"bad", "end", "reset"} # {}]_pollVars
  BY HowClosed
<1> QED BY <1>1, PollInvariant, PTL DEF PollSpec, OnlyEndedDropped

\* The commands a client sent before it left are all read, although run() looks at
\* POLLHUP before POLLIN: a peer's FIN alone is no POLLHUP.
THEOREM LastCommandsAreRead == PollSpec => LastCommandsRead
<1>1. PollInv /\ [PollNext]_pollVars =>
        [\A k \in Conns :
           phase[k] = "connected" /\ phase'[k] = "closed" /\ "data" \in inbox[k]
             => inbox[k] \cap {"bad", "reset"} # {}]_pollVars
  BY HowClosed
<1> QED BY <1>1, PollInvariant, PTL DEF PollSpec, LastCommandsRead
================================================================================
