------------------------------ MODULE Lifecycle -------------------------------
(***************************************************************************)
(* The server process (src/server/main.cpp and Server::run): start, the    *)
(* loop around poll(), SIGINT at any instruction, exit and start again.    *)
(*                                                                         *)
(* The handler only clears _running.  What run() does about it depends on  *)
(* where the signal finds it: poll() is interrupted if it sleeps already,  *)
(* and sleeps as if nothing had happened if it has not been entered yet.   *)
(* In a round it waits for the rest of the round, and a write() in it waits*)
(* as long as its client does not read.                                    *)
(***************************************************************************)
EXTENDS Integers

CONSTANTS
  MaxItems,   \* bound: teams, messages, ... created over all runs of the server
  MaxClients  \* bound: clients poll() reports at once

ASSUME MaxItemsIsNat == MaxItems \in Nat
ASSUME MaxClientsIsNat == MaxClients \in Nat

VARIABLES
  pc,       \* where the process is
  _running, \* Server::_running
  ready,    \* poll() has something to report
  toserve,  \* clients the round has still to serve
  asked,    \* where the last SIGINT found this process, or "nowhere"
  stored,   \* how much server_data_t holds
  promised  \* how much clients have been told was created, by any run of the server

lifeVars == <<pc, _running, ready, toserve, asked, stored, promised>>

\* armed: the handler is installed, run() not entered.  tested: _running was true,
\* poll() not entered.  writing: a write() of the round waits.  leaving: out of the
\* loop.
Places == {"down", "starting", "armed", "top", "tested", "asleep", "round", "writing",
           "leaving"}

LifeInit ==
  /\ pc = "down"
  /\ _running = FALSE
  /\ ready = FALSE
  /\ toserve = 0
  /\ asked = "nowhere"
  /\ stored = 0
  /\ promised = 0

-----------------------------------------------------------------------------
\* What a new server finds of the earlier ones: no file is read.  Mutant: data
\* nobody was told of.
Loaded_Stray == promised + 1
Loaded == 0

\* Server::Server: the socket listens from here on.
Start ==
  /\ pc = "down"
  /\ pc' = "starting"
  /\ _running' = FALSE
  /\ ready' = FALSE
  /\ toserve' = 0
  /\ asked' = "nowhere"
  /\ stored' = Loaded
  /\ UNCHANGED promised

\* sigaction(SIGINT, ...)
InstallHandler ==
  /\ pc = "starting"
  /\ pc' = "armed"
  /\ UNCHANGED <<_running, ready, toserve, asked, stored, promised>>

\* What run() makes of the flag when it is entered.  Mutant: nothing.
FlagOnEntry_Kept == _running
FlagOnEntry == TRUE

EnterRun ==
  /\ pc = "armed"
  /\ pc' = "top"
  /\ _running' = FlagOnEntry
  /\ UNCHANGED <<ready, toserve, asked, stored, promised>>

TestRunning ==
  /\ pc = "top"
  /\ pc' = IF _running THEN "tested" ELSE "leaving"
  /\ UNCHANGED <<_running, ready, toserve, asked, stored, promised>>

\* poll(..., -1), called and, if there was nothing yet, woken.
EnterPoll ==
  /\ pc = "tested"
  /\ IF ready THEN pc' = "round" /\ toserve' \in 0 .. MaxClients
     ELSE pc' = "asleep" /\ UNCHANGED toserve
  /\ UNCHANGED <<_running, ready, asked, stored, promised>>

WakeUp ==
  /\ pc = "asleep" /\ ready
  /\ pc' = "round"
  /\ toserve' \in 0 .. MaxClients
  /\ UNCHANGED <<_running, ready, asked, stored, promised>>

\* A client of the round is read from and written to.  Something may be created,
\* and the write may wait.
ServeClient ==
  /\ pc = "round" /\ toserve > 0
  /\ toserve' = toserve - 1
  /\ pc' \in {"round", "writing"}
  /\ \E n \in 0 .. 1 :
       /\ promised + n <= MaxItems
       /\ promised' = promised + n
       /\ stored' = stored + n
  /\ UNCHANGED <<_running, ready, asked>>

\* There may be something to report again, or still.
EndRound ==
  /\ pc = "round" /\ toserve = 0
  /\ pc' = "top"
  /\ ready' \in BOOLEAN
  /\ UNCHANGED <<_running, toserve, asked, stored, promised>>

\* main returns; nothing is written to disk.
Leave ==
  /\ pc = "leaving"
  /\ pc' = "down"
  /\ UNCHANGED <<_running, ready, toserve, asked, stored, promised>>

\* poll() fails and run() throws, or a write meets a reset and SIGPIPE kills.
Fail ==
  /\ pc \in {"tested", "round", "writing"}
  /\ pc' = "down"
  /\ UNCHANGED <<_running, ready, toserve, asked, stored, promised>>

\* A client connects, sends, reads or leaves.
ClientActs ==
  /\ pc # "down"
  /\ ready' = TRUE
  /\ UNCHANGED <<pc, _running, toserve, asked, stored, promised>>

\* The client a write() waits for reads or leaves.
ClientReads ==
  /\ pc = "writing"
  /\ pc' = "round"
  /\ UNCHANGED <<_running, ready, toserve, asked, stored, promised>>

\* poll() returned -1 with EINTR.  Mutant: it is called again.
AfterInterrupt_Again == "asleep"
AfterInterrupt == "leaving"

\* SIGINT, whose default action, before sigaction, is to end the process.  poll()
\* reports what it has before it fails for a signal: that is a round already.
\* sa_flags is 0: a write() that waits returns what it has written, or EINTR, for
\* which the client is dropped.
SigInt ==
  /\ pc # "down"
  /\ asked' = IF pc = "asleep" /\ ready THEN "round" ELSE pc
  /\ _running' = IF pc = "starting" THEN _running ELSE FALSE
  /\ pc' = CASE pc = "starting"         -> "down"
             [] pc = "asleep" /\ ~ready -> AfterInterrupt
             [] pc = "writing"          -> "round"
             [] OTHER                   -> pc
  /\ UNCHANGED <<ready, toserve, stored, promised>>

ServerStep ==
  \/ InstallHandler \/ EnterRun
  \/ TestRunning \/ EnterPoll \/ WakeUp \/ ServeClient \/ EndRound
  \/ Leave

LifeNext == Start \/ ServerStep \/ Fail \/ ClientActs \/ ClientReads \/ SigInt

\* The process is scheduled, and held up by poll() and by a write() that waits.
\* Nobody has to start it, signal it or use it, and no client has to read.
LifeSpec == LifeInit /\ [][LifeNext]_lifeVars /\ WF_lifeVars(ServerStep)

-----------------------------------------------------------------------------
(* Properties *)

LifeTypeOK ==
  /\ pc \in Places
  /\ _running \in BOOLEAN /\ ready \in BOOLEAN /\ toserve \in 0 .. MaxClients
  /\ asked \in (Places \ {"down"}) \cup {"nowhere"}
  /\ stored \in 0 .. promised /\ promised \in 0 .. MaxItems

\* run() returns only because of a SIGINT, whatever comes and goes.
LeavesOnlyWhenAsked == pc = "leaving" => asked # "nowhere"

\* Whoever a write() waits for reads in the end, or leaves.
NoWriteWaitsForEver == []<>(pc # "writing")

\* A SIGINT ends the server for sure if it finds it asleep in poll() or before the
\* test of _running (run()).  In a round it does so if no client that does not read
\* holds up what is left of the round; between the test and poll(), if besides a
\* client does something that wakes it.
SignalEndsServer ==
  /\ asked \in {"top", "asleep", "leaving"} ~> pc = "down"
  /\ NoWriteWaitsForEver =>
       (\/ asked \in {"round", "writing"}
        \/ asked = "tested" /\ ready) ~> pc = "down"

\* integration_test.sh:433: "10.1 Server did not stop after SIGINT" is the
\* failure of the test that sends one.  A SIGINT before run() sets _running, or
\* between the test of _running and poll(), does not stop it (main.cpp:16-21).
SigintStopsServer == asked # "nowhere" ~> pc = "down"

\* README.md:36-37: the server "can save its state when you shut it down and load
\* it back when you start it again -- so no conversation is lost."  Nothing is saved.
NothingForgotten == pc \notin {"down", "starting"} => stored = promised
===============================================================================
