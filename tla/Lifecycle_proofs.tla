--------------------------- MODULE Lifecycle_proofs ---------------------------
(***************************************************************************)
(* What is proved of the life of the server process, for any number of     *)
(* things created.                                                         *)
(***************************************************************************)
EXTENDS Lifecycle, TLAPS

InLoop == {"top", "tested", "asleep", "round", "writing"}

\* In the loop the flag is down only because a signal found this process.
LifeInv ==
  /\ LifeTypeOK
  /\ pc \in InLoop /\ ~_running => asked # "nowhere"
  /\ LeavesOnlyWhenAsked

LEMMA LifeInitInv == LifeInit => LifeInv
<1> SUFFICES ASSUME LifeInit PROVE LifeInv
  OBVIOUS
<1>1. stored \in 0 .. promised /\ promised \in 0 .. MaxItems
  BY MaxItemsIsNat DEF LifeInit
<1>2. pc = "down" /\ asked = "nowhere" /\ _running \in BOOLEAN /\ ready \in BOOLEAN
  BY DEF LifeInit
<1>3. toserve \in 0 .. MaxClients
  BY MaxClientsIsNat DEF LifeInit
<1> QED BY <1>1, <1>2, <1>3 DEF LifeInv, LifeTypeOK, Places, InLoop, LeavesOnlyWhenAsked

LEMMA LifeStep == LifeInv /\ [LifeNext]_lifeVars => LifeInv'
<1> SUFFICES ASSUME LifeInv, [LifeNext]_lifeVars PROVE LifeInv'
  OBVIOUS
<1> USE MaxItemsIsNat, MaxClientsIsNat DEF LifeInv, LifeTypeOK, Places, InLoop, LeavesOnlyWhenAsked
<1>1. CASE Start
  <2>1. stored' \in 0 .. promised' /\ promised' \in 0 .. MaxItems
    BY <1>1 DEF Start, Loaded
  <2>2. pc' = "starting" /\ asked' = "nowhere" /\ _running' \in BOOLEAN /\ ready' \in BOOLEAN
    BY <1>1 DEF Start
  <2>3. toserve' \in 0 .. MaxClients
    BY <1>1 DEF Start
  <2> QED BY <2>1, <2>2, <2>3
<1>2. CASE InstallHandler
  BY <1>2 DEF InstallHandler
<1>3. CASE EnterRun
  BY <1>3 DEF EnterRun, FlagOnEntry
<1>4. CASE TestRunning
  BY <1>4 DEF TestRunning
<1>5. CASE EnterPoll \/ WakeUp
  BY <1>5 DEF EnterPoll, WakeUp
<1>6. CASE ServeClient
  <2>1. PICK n \in 0 .. 1 : /\ promised + n <= MaxItems
                            /\ promised' = promised + n
                            /\ stored' = stored + n
    BY <1>6 DEF ServeClient
  <2>2. stored' \in 0 .. promised' /\ promised' \in 0 .. MaxItems
    BY <2>1
  <2>3. toserve' \in 0 .. MaxClients
    BY <1>6 DEF ServeClient
  <2> QED BY <1>6, <2>2, <2>3 DEF ServeClient
<1>7. CASE EndRound \/ Leave \/ Fail \/ ClientActs \/ ClientReads
  BY <1>7 DEF EndRound, Leave, Fail, ClientActs, ClientReads
<1>8. CASE SigInt
  BY <1>8 DEF SigInt, AfterInterrupt
<1>9. CASE UNCHANGED lifeVars
  BY <1>9 DEF lifeVars
<1> QED BY <1>1, <1>2, <1>3, <1>4, <1>5, <1>6, <1>7, <1>8, <1>9 DEF LifeNext, ServerStep

\* The state keeps its type, and the server never holds more than was told to
\* clients (Server::run).
THEOREM LifeTypeCorrect == LifeSpec => []LifeTypeOK
<1>1. LifeInv => LifeTypeOK
  BY DEF LifeInv
<1> QED BY <1>1, LifeInitInv, LifeStep, PTL DEF LifeSpec

\* run() ends only after a SIGINT to this process, not one to an earlier one, and
\* not because the flag was never set: run() sets it (Server.cpp:105).
THEOREM NeverLeavesUnasked == LifeSpec => []LeavesOnlyWhenAsked
<1>1. LifeInv => LeavesOnlyWhenAsked
  BY DEF LifeInv
<1> QED BY <1>1, LifeInitInv, LifeStep, PTL DEF LifeSpec
===============================================================================
