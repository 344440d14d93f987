------------------------------ MODULE SubLink -------------------------------
(***************************************************************************)
(* The link to the branch modules, APP/app_SUBProto.c: the Data task polls *)
(* the next of four modules every 200 ms, the module answers with the      *)
(* positions of its switches, the SUB task checks and copies the answer    *)
(* and judges all branches from what it has copied so far.                 *)
(*                                                                         *)
(* The SUB task has the higher priority: the Data task runs, and polls,    *)
(* only while the SUB task waits for a message.  Tasks above both may stop *)
(* the SUB task at any point for any time; they change only the setup.     *)
(*                                                                         *)
(* A position is the number of the module's switch state, odd numbers for  *)
(* closed switches.  The 36 branches of a module are one here, a quarter   *)
(* of the 144.                                                             *)
(***************************************************************************)
EXTENDS Naturals

CONSTANTS
  Changing,    \* modules whose switches move
  MaxVer,      \* states a module goes through
  MaxNoise,    \* disturbances of the line: noise, errors, late answers
  Setups,      \* setups the HMI can choose from
  QueueSize, NoFrame, Garbage

Modules == 0 .. 3
Quarters == 0 .. 3
Answers == [mod : Modules, ver : 1 .. MaxVer]
BranchStates == {"normal", "fault", "closed", "open", "absent"}

(* Optimset_st: bQF, bBusMode (S or another), the branches fitted on the   *)
(* two buses (counted in quarters) and whether the branches are in use     *)
(* (ucBranchSet_a).                                                        *)
SetupRecords == [bQF : {0, 1}, mode : {"S", "Y"}, n0 : 0 .. 4, n1 : 0 .. 2,
                 used : {0, 1}]

ASSUME SubAssumption ==
  /\ MaxVer \in Nat \ {0} /\ MaxNoise \in Nat /\ QueueSize \in Nat \ {0}
  /\ Changing \subseteq Modules /\ Setups \subseteq SetupRecords
  /\ NoFrame \notin Answers /\ Garbage \notin Answers /\ NoFrame # Garbage
  /\ NoFrame \notin Modules

VARIABLES
  line, Rx_Buffer, rxOn, queue, tx, lock,
  ver,          \* the modules: number of their present switch state
  due,          \* the answer the polled module has not begun yet
  late,         \* an answer that missed its time
  noise,        \* disturbances left
  ucNum,        \* Data task: the module to poll next
  dpc,          \* Data task: "idle" or inside HAL_UART_Transmit_DMA
  spc,          \* SUB task: "wait", "check", "copy", "judge", "fill"
  m,            \* SUB task: the module of the answer being copied
  mode,         \* SUB task: bBusMode as SUB_BranchState read it
  ucSUB_SWRec,  \* what was copied of each module
  ucBranchState,
  Setup,        \* the setup of the HMI
  struck,       \* history: bytes came in between check and copy
  stale         \* history: the setup changed since the last judging began

Port == INSTANCE UartPort WITH Frames <- Answers, Sends <- Modules

portVars == <<line, Rx_Buffer, rxOn, queue, tx, lock>>
wire == <<ver, due, late, noise>>
data == <<ucNum, dpc>>
sub == <<spc, m, mode, ucSUB_SWRec, ucBranchState>>
vars == <<line, Rx_Buffer, rxOn, queue, tx, lock, ver, due, late, noise, ucNum,
          dpc, spc, m, mode, ucSUB_SWRec, ucBranchState, Setup, struck, stale>>

Init ==
  /\ Port!PortInit
  /\ ver = [u \in Modules |-> 1]
  /\ due = NoFrame /\ late = NoFrame
  /\ noise = MaxNoise
  /\ ucNum = 0 /\ dpc = "idle"
  /\ spc = "wait" /\ m = 0 /\ mode = "Y"
  /\ ucSUB_SWRec = [u \in Modules |-> 0]
  /\ ucBranchState = [q \in Quarters |-> "normal"]
  /\ Setup \in Setups
  /\ struck = 0 /\ stale = 1

-----------------------------------------------------------------------------
(* The Data task, SUB_Transmit.  An answer that was not begun by the next   *)
(* poll never comes, or comes late, before the poll after that.            *)
(* Variant: the priorities of the two tasks are swapped.                   *)
SubWaitsNot == TRUE

SubWaits == spc = "wait" /\ queue = 0

Missed ==
  \/ late' = NoFrame /\ noise' = noise
  \/ noise > 0 /\ due # NoFrame /\ late' = due /\ noise' = noise - 1

(* Variant: the number of the module wraps too early, one is left out.     *)
PollThree ==
  /\ dpc = "idle" /\ SubWaits /\ line = NoFrame
  /\ Port!TxLock
  /\ dpc' = "send"
  /\ ucNum' = (ucNum + 1) % 3
  /\ due' = NoFrame
  /\ Missed
  /\ UNCHANGED <<ver, sub, Setup, struck, stale>>

Poll ==
  /\ dpc = "idle" /\ SubWaits /\ line = NoFrame
  /\ Port!TxLock
  /\ dpc' = "send"
  /\ ucNum' = (ucNum + 1) % 4
  /\ due' = NoFrame
  /\ Missed
  /\ UNCHANGED <<ver, sub, Setup, struck, stale>>

PollSend ==
  /\ dpc = "send" /\ SubWaits
  /\ Port!TxStart((ucNum + 3) % 4)
  /\ dpc' = "idle"
  /\ UNCHANGED <<wire, ucNum, sub, Setup, struck, stale>>

(* The module hears its poll, or nobody does.                              *)
PollHeard(u) ==
  /\ tx = u
  /\ Port!TxDone
  /\ due' = [mod |-> u, ver |-> ver[u]]
  /\ UNCHANGED <<ver, late, noise, data, sub, Setup, struck, stale>>

PollLost ==
  /\ Port!TxDone
  /\ UNCHANGED <<wire, data, sub, Setup, struck, stale>>

-----------------------------------------------------------------------------
(* The line.                                                               *)
SwitchMoves(u) ==
  /\ u \in Changing /\ ver[u] < MaxVer
  /\ ver' = [ver EXCEPT ![u] = ver[u] + 1]
  /\ UNCHANGED <<portVars, due, late, noise, data, sub, Setup, struck, stale>>

(* Bytes that reach the buffer between check and copy strike the copy.     *)
Reach(f) ==
  /\ Port!Bytes(f)
  /\ struck' = IF spc = "copy" /\ rxOn = 1 THEN 1 ELSE struck

Answer(u) ==
  /\ due # NoFrame /\ due.mod = u
  /\ Reach(due)
  /\ due' = NoFrame
  /\ UNCHANGED <<ver, late, noise, data, sub, Setup, stale>>

LateAnswer ==
  /\ late # NoFrame
  /\ Reach(late)
  /\ late' = NoFrame
  /\ UNCHANGED <<ver, due, noise, data, sub, Setup, stale>>

Noise ==
  /\ noise > 0 /\ noise' = noise - 1
  /\ Reach(Garbage)
  /\ UNCHANGED <<ver, due, late, data, sub, Setup, stale>>

ReceptionError ==
  /\ noise > 0 /\ noise' = noise - 1
  /\ Port!LineError
  /\ UNCHANGED <<ver, due, late, data, sub, Setup, struck, stale>>

LineIdle ==
  /\ Port!Idle
  /\ UNCHANGED <<wire, data, sub, Setup, struck, stale>>

-----------------------------------------------------------------------------
(* The SUB task: SUB_TaskFun takes a message, SUB_Receive and then, for a  *)
(* valid answer or not, SUB_BranchState.                                   *)
SubGet ==
  /\ spc = "wait"
  /\ Port!Get
  /\ spc' = "check"
  /\ UNCHANGED <<wire, data, m, mode, ucSUB_SWRec, ucBranchState, Setup, struck,
                 stale>>

(* Variant: the module is taken from the poll, not from the answer.        *)
CheckPolled ==
  /\ spc = "check"
  /\ IF Rx_Buffer = Garbage THEN spc' = "judge" /\ m' = m
     ELSE spc' = "copy" /\ m' = (ucNum + 3) % 4
  /\ UNCHANGED <<portVars, wire, data, mode, ucSUB_SWRec, ucBranchState, Setup,
                 struck, stale>>

(* Variant: the first address is off by one.                               *)
CheckBase ==
  /\ spc = "check"
  /\ IF Rx_Buffer = Garbage THEN spc' = "judge" /\ m' = m
     ELSE spc' = "copy" /\ m' = Rx_Buffer.mod + 1
  /\ UNCHANGED <<portVars, wire, data, mode, ucSUB_SWRec, ucBranchState, Setup,
                 struck, stale>>

Check ==
  /\ spc = "check"
  /\ IF Rx_Buffer = Garbage THEN spc' = "judge" /\ m' = m
     ELSE spc' = "copy" /\ m' = Rx_Buffer.mod
  /\ UNCHANGED <<portVars, wire, data, mode, ucSUB_SWRec, ucBranchState, Setup,
                 struck, stale>>

(* The bytes are read again for the copy.                                  *)
Copy ==
  /\ spc = "copy"
  /\ \E v \in 0 .. MaxVer :
       /\ Rx_Buffer # Garbage => v = Rx_Buffer.ver
       /\ ucSUB_SWRec' = [ucSUB_SWRec EXCEPT ![m] = v]
  /\ spc' = "judge"
  /\ UNCHANGED <<portVars, wire, data, m, mode, ucBranchState, Setup, struck,
                 stale>>

(* In mode S the second module is the first half of bus B.                 *)
RowModule(s, q) == IF s = "S" THEN 2 * (q % 2) + (q \div 2) ELSE q

SUB_StateAna(v, used) ==
  IF used = 0 THEN (IF v % 2 = 1 THEN "closed" ELSE "open")
  ELSE (IF v % 2 = 1 THEN "normal" ELSE "fault")

Fitted(s, setup, q) ==
  IF s = "S" THEN (IF q < 2 THEN q < setup.n0 ELSE q - 2 < setup.n1)
  ELSE q < setup.n0

Judge ==
  /\ spc = "judge"
  /\ IF Setup.bQF = 1
     THEN /\ ucBranchState' = [q \in Quarters |->
                SUB_StateAna(ucSUB_SWRec[RowModule(Setup.mode, q)], Setup.used)]
          /\ mode' = Setup.mode
          /\ spc' = "fill"
     ELSE /\ ucBranchState' = [q \in Quarters |-> "absent"]
          /\ mode' = mode
          /\ spc' = "wait"
  /\ stale' = 0
  /\ UNCHANGED <<portVars, wire, data, m, ucSUB_SWRec, Setup, struck>>

(* Variant: the second bus is not filled.                                  *)
FillFirstBus ==
  /\ spc = "fill"
  /\ ucBranchState' = [q \in Quarters |->
        IF q >= 2 \/ Fitted(mode, Setup, q) THEN ucBranchState[q] ELSE "absent"]
  /\ spc' = "wait"
  /\ UNCHANGED <<portVars, wire, data, m, mode, ucSUB_SWRec, Setup, struck, stale>>

Fill ==
  /\ spc = "fill"
  /\ ucBranchState' = [q \in Quarters |->
        IF Fitted(mode, Setup, q) THEN ucBranchState[q] ELSE "absent"]
  /\ spc' = "wait"
  /\ UNCHANGED <<portVars, wire, data, m, mode, ucSUB_SWRec, Setup, struck, stale>>

(* The HMI task changes the setup.                                         *)
ChangeSetup(s) ==
  /\ s # Setup
  /\ Setup' = s
  /\ stale' = 1
  /\ UNCHANGED <<portVars, wire, data, sub, struck>>

SubTask == SubGet \/ Check \/ Copy \/ Judge \/ Fill

Next ==
  \/ Poll \/ PollSend \/ PollLost
  \/ \E u \in Modules : PollHeard(u) \/ SwitchMoves(u) \/ Answer(u)
  \/ LateAnswer \/ Noise \/ ReceptionError \/ LineIdle
  \/ SubTask
  \/ \E s \in Setups : ChangeSetup(s)

Spec == Init /\ [][Next]_vars

(* Both tasks run, an idle follows every frame, and a module whose         *)
(* switches move, polled again and again, hears and answers again and      *)
(* again in time.                                                          *)
FairSpec ==
  /\ Spec
  /\ WF_vars(Poll) /\ WF_vars(PollSend) /\ WF_vars(PollLost)
  /\ WF_vars(LineIdle) /\ WF_vars(SubTask)
  /\ \A u \in Changing : SF_vars(PollHeard(u)) /\ SF_vars(Answer(u))
-----------------------------------------------------------------------------
TypeOK ==
  /\ Port!PortTypeOK
  /\ ver \in [Modules -> 1 .. MaxVer]
  /\ due \in Answers \cup {NoFrame}
  /\ late \in Answers \cup {NoFrame}
  /\ noise \in 0 .. MaxNoise
  /\ ucNum \in 0 .. 3
  /\ dpc \in {"idle", "send"}
  /\ spc \in {"wait", "check", "copy", "judge", "fill"}
  /\ m \in Modules /\ mode \in {"S", "Y"}
  /\ ucSUB_SWRec \in [Modules -> 0 .. MaxVer]
  /\ ucBranchState \in [Quarters -> BranchStates]
  /\ Setup \in SetupRecords
  /\ struck \in {0, 1} /\ stale \in {0, 1}

(* On an undisturbed line the priorities protect the one buffer: the next  *)
(* poll waits until the SUB task is done, so no answer overwrites the one  *)
(* being copied, no message waits behind another, and the reception runs,  *)
(* however long the SUB task was kept from running.                        *)
PriorityProtects ==
  noise = MaxNoise => struck = 0 /\ queue <= 1 /\ rxOn = 1

(* What a branch shows, between two messages and with an unchanged setup,  *)
(* is what its own module's last copied answer says, and "absent" where    *)
(* no branch is fitted, in either order of the modules.                    *)
BranchShown ==
  spc = "wait" /\ stale = 0 =>
    \A q \in Quarters :
      ucBranchState[q] =
        IF Setup.bQF = 1 /\ Fitted(Setup.mode, Setup, q)
        THEN SUB_StateAna(ucSUB_SWRec[RowModule(Setup.mode, q)], Setup.used)
        ELSE "absent"

(* As long as no bytes strike the copy, the link is a telemetry: what is   *)
(* known of a module is a state the module had, never an older one than    *)
(* before and never another module's, whatever polls and answers are lost, *)
(* late, repeated or garbled.                                              *)
Tele == INSTANCE Telemetry WITH Units <- Modules, view <- ucSUB_SWRec,
                                trust <- 1 - struck
IsTelemetry == Tele!Spec

(* A module whose switches have come to rest is eventually known as it is, *)
(* whatever disturbed the line before.                                     *)
RestIsLearnt ==
  \A u \in Changing : ver[u] = MaxVer ~> ucSUB_SWRec[u] = MaxVer
=============================================================================
