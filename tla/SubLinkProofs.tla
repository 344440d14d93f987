--------------------------- MODULE SubLinkProofs ----------------------------
(* Proofs about SubLink: for any number of switch states, disturbances and *)
(* setups, the link is a telemetry, a branch shows its own module's last   *)
(* answer, and on a quiet line the priorities protect the buffer.          *)
EXTENDS SubLink, TLAPS

(* Whose answers are where.  Between two polls an answer is due from the   *)
(* module polled last, late from the one before; no module has two of its  *)
(* answers on the way.                                                     *)
Polled == (ucNum + 3) % 4
PolledBefore == (ucNum + 2) % 4

Turns ==
  /\ tx # NoFrame => tx = Polled
  /\ due # NoFrame => due.mod = Polled
  /\ late # NoFrame => late.mod = PolledBefore
  /\ line \in Answers => \/ line.mod = Polled /\ due = NoFrame
                         \/ line.mod = PolledBefore /\ late = NoFrame
  /\ dpc = "send" \/ tx # NoFrame =>
       due = NoFrame /\ (line \in Answers => line.mod = PolledBefore)
  /\ dpc = "send" => tx = NoFrame
  /\ lock = 1 <=> dpc = "send"

(* Answers on the way are no older than the one in the buffer, that one is *)
(* no older than what is known, and none is ahead of its module.           *)
Between(x) ==
  x \in Answers =>
    /\ ucSUB_SWRec[x.mod] <= x.ver /\ x.ver <= ver[x.mod]
    /\ Rx_Buffer \in Answers /\ Rx_Buffer.mod = x.mod => Rx_Buffer.ver <= x.ver

Ordered ==
  struck = 0 =>
    /\ \A u \in Modules : ucSUB_SWRec[u] <= ver[u]
    /\ Between(Rx_Buffer) /\ Between(line) /\ Between(due) /\ Between(late)
    /\ spc = "copy" => Rx_Buffer \in Answers /\ m = Rx_Buffer.mod

(* What is being received is behind a buffer of no use, or the same again. *)
Receiving == line # NoFrame /\ rxOn = 1 => Rx_Buffer = Garbage \/ Rx_Buffer = line

(* While absent branches are still to be filled in, all are judged.        *)
Judged ==
  spc = "fill" /\ stale = 0 =>
    /\ Setup.bQF = 1 /\ mode = Setup.mode
    /\ \A q \in Quarters :
         ucBranchState[q] =
           SUB_StateAna(ucSUB_SWRec[RowModule(Setup.mode, q)], Setup.used)

(* On an undisturbed line there is one thing at a time between a poll and  *)
(* the end of the judging.                                                 *)
OneAtATime ==
  noise = MaxNoise =>
    /\ struck = 0 /\ queue <= 1 /\ rxOn = 1 /\ late = NoFrame
    /\ dpc = "send" \/ tx # NoFrame \/ due # NoFrame \/ line # NoFrame =>
         queue = 0 /\ spc = "wait"
    /\ dpc = "send" \/ tx # NoFrame => due = NoFrame /\ line = NoFrame
    /\ due # NoFrame => line = NoFrame

(* Of two polls in a row.                                                  *)
LEMMA NextModule ==
  \A n \in 0 .. 3 : /\ (n + 1) % 4 \in 0 .. 3 /\ (n + 3) % 4 \in 0 .. 3
                    /\ (((n + 1) % 4) + 2) % 4 = (n + 3) % 4
                    /\ (n + 3) % 4 # (n + 2) % 4
  OBVIOUS

LEMMA AnswerFields ==
  \A x \in Answers : x.mod \in Modules /\ x.ver \in 1 .. MaxVer
                     /\ x # NoFrame /\ x # Garbage
  BY SubAssumption DEF Answers

LEMMA TypeInit == Init => TypeOK
  <1> SUFFICES ASSUME Init PROVE TypeOK
    OBVIOUS
  <1>1. Port!PortTypeOK
    BY SubAssumption DEF Init, Port!PortInit, Port!PortTypeOK
  <1>2. Setup \in SetupRecords
    BY SubAssumption DEF Init
  <1> QED BY <1>1, <1>2, SubAssumption
          DEF Init, TypeOK, Modules, Quarters, BranchStates

LEMMA TypeStep == TypeOK /\ [Next]_vars => TypeOK'
  <1> SUFFICES ASSUME TypeOK, [Next]_vars PROVE TypeOK'
    OBVIOUS
  <1> USE SubAssumption
  <1>1. CASE Poll
    BY <1>1, NextModule DEF Poll, Missed, Port!TxLock, TypeOK, Port!PortTypeOK, sub
  <1>2. CASE PollSend
    BY <1>2, NextModule
       DEF PollSend, Port!TxStart, TypeOK, Port!PortTypeOK, sub, wire, Modules
  <1>3. CASE PollLost
    BY <1>3 DEF PollLost, Port!TxDone, TypeOK, Port!PortTypeOK, sub, wire, data
  <1>4. ASSUME NEW u \in Modules, PollHeard(u) PROVE TypeOK'
    <2>1. due' \in Answers
      BY <1>4 DEF PollHeard, TypeOK, Answers
    <2> QED BY <1>4, <2>1
            DEF PollHeard, Port!TxDone, TypeOK, Port!PortTypeOK, sub, data
  <1>5. ASSUME NEW u \in Modules, SwitchMoves(u) PROVE TypeOK'
    <2>1. ver' \in [Modules -> 1 .. MaxVer]
      BY <1>5 DEF SwitchMoves, TypeOK
    <2> QED BY <1>5, <2>1
            DEF SwitchMoves, TypeOK, Port!PortTypeOK, sub, data, portVars
  <1>6. ASSUME NEW u \in Modules, Answer(u) PROVE TypeOK'
    BY <1>6 DEF Answer, Reach, Port!Bytes, TypeOK, Port!PortTypeOK, sub, data
  <1>7. CASE LateAnswer
    BY <1>7 DEF LateAnswer, Reach, Port!Bytes, TypeOK, Port!PortTypeOK, sub, data
  <1>8. CASE Noise
    BY <1>8 DEF Noise, Reach, Port!Bytes, TypeOK, Port!PortTypeOK, sub, data
  <1>9. CASE ReceptionError
    BY <1>9 DEF ReceptionError, Port!LineError, TypeOK, Port!PortTypeOK, sub, data
  <1>10. CASE LineIdle
    BY <1>10 DEF LineIdle, Port!Idle, TypeOK, Port!PortTypeOK, sub, data, wire
  <1>11. CASE SubGet
    BY <1>11 DEF SubGet, Port!Get, TypeOK, Port!PortTypeOK, data, wire
  <1>12. CASE Check
    BY <1>12, AnswerFields
       DEF Check, TypeOK, Port!PortTypeOK, portVars, data, wire
  <1>13. CASE Copy
    <2>1. ucSUB_SWRec' \in [Modules -> 0 .. MaxVer]
      BY <1>13 DEF Copy, TypeOK
    <2> QED BY <1>13, <2>1 DEF Copy, TypeOK, Port!PortTypeOK, portVars, data, wire
  <1>14. CASE Judge
    <2>1. ucBranchState' \in [Quarters -> BranchStates]
      BY <1>14 DEF Judge, SUB_StateAna, BranchStates
    <2>2. mode' \in {"S", "Y"}
      BY <1>14 DEF Judge, TypeOK, SetupRecords
    <2> QED BY <1>14, <2>1, <2>2
            DEF Judge, TypeOK, Port!PortTypeOK, portVars, data, wire
  <1>15. CASE Fill
    <2>1. ucBranchState' \in [Quarters -> BranchStates]
      BY <1>15 DEF Fill, TypeOK, BranchStates
    <2> QED BY <1>15, <2>1 DEF Fill, TypeOK, Port!PortTypeOK, portVars, data, wire
  <1>16. ASSUME NEW s \in Setups, ChangeSetup(s) PROVE TypeOK'
    BY <1>16 DEF ChangeSetup, TypeOK, Port!PortTypeOK, portVars, data, wire, sub
  <1>17. CASE UNCHANGED vars
    BY <1>17 DEF vars, TypeOK, Port!PortTypeOK
  <1> QED BY <1>1, <1>2, <1>3, <1>4, <1>5, <1>6, <1>7, <1>8, <1>9, <1>10, <1>11,
             <1>12, <1>13, <1>14, <1>15, <1>16, <1>17 DEF Next, SubTask

(* Types, for any constants.                                               *)
THEOREM SubTypeCorrect == Spec => []TypeOK
  BY TypeInit, TypeStep, PTL DEF Spec

-----------------------------------------------------------------------------
(* Each poll finds the answer of the last one taken, late or lost.         *)
LEMMA TurnsStep == TypeOK /\ Turns /\ [Next]_vars => Turns'
  <1> SUFFICES ASSUME TypeOK, Turns, [Next]_vars PROVE Turns'
    OBVIOUS
  <1> USE SubAssumption, AnswerFields DEF Polled, PolledBefore
  <1>1. CASE Poll
    BY <1>1, NextModule DEF Poll, Missed, Port!TxLock, TypeOK, Port!PortTypeOK, Turns
  <1>2. CASE PollSend
    BY <1>2, NextModule
       DEF PollSend, Port!TxStart, TypeOK, Port!PortTypeOK, Turns, wire
  <1>3. CASE PollLost
    BY <1>3 DEF PollLost, Port!TxDone, TypeOK, Turns, wire, data
  <1>4. ASSUME NEW u \in Modules, PollHeard(u) PROVE Turns'
    <2>1. due' # NoFrame /\ due'.mod = u
      BY <1>4 DEF PollHeard, TypeOK, Answers
    <2> QED BY <1>4, <2>1, NextModule
            DEF PollHeard, Port!TxDone, TypeOK, Port!PortTypeOK, Turns, data, Modules
  <1>5. ASSUME NEW u \in Modules, SwitchMoves(u) PROVE Turns'
    BY <1>5 DEF SwitchMoves, Turns, data, portVars
  <1>6. ASSUME NEW u \in Modules, Answer(u) PROVE Turns'
    BY <1>6, NextModule
       DEF Answer, Reach, Port!Bytes, TypeOK, Port!PortTypeOK, Turns, data
  <1>7. CASE LateAnswer
    BY <1>7, NextModule
       DEF LateAnswer, Reach, Port!Bytes, TypeOK, Port!PortTypeOK, Turns, data
  <1>8. CASE Noise
    BY <1>8 DEF Noise, Reach, Port!Bytes, Turns, data
  <1>9. CASE ReceptionError
    BY <1>9 DEF ReceptionError, Port!LineError, Turns, data
  <1>10. CASE LineIdle
    BY <1>10 DEF LineIdle, Port!Idle, Turns, data, wire
  <1>11. CASE SubGet
    BY <1>11 DEF SubGet, Port!Get, Turns, data, wire
  <1>12. CASE Check
    BY <1>12 DEF Check, Turns, portVars, data, wire
  <1>13. CASE Copy
    BY <1>13 DEF Copy, Turns, portVars, data, wire
  <1>14. CASE Judge
    BY <1>14 DEF Judge, Turns, portVars, data, wire
  <1>15. CASE Fill
    BY <1>15 DEF Fill, Turns, portVars, data, wire
  <1>16. ASSUME NEW s \in Setups, ChangeSetup(s) PROVE Turns'
    BY <1>16 DEF ChangeSetup, Turns, portVars, data, wire
  <1>17. CASE UNCHANGED vars
    BY <1>17 DEF vars, Turns
  <1> QED BY <1>1, <1>2, <1>3, <1>4, <1>5, <1>6, <1>7, <1>8, <1>9, <1>10, <1>11,
             <1>12, <1>13, <1>14, <1>15, <1>16, <1>17 DEF Next, SubTask

(* The order of the answers, and with it of what is known.                 *)
LEMMA OrderStep ==
  TypeOK /\ Turns /\ Receiving /\ Ordered /\ [Next]_vars => (Receiving /\ Ordered)'
  <1> SUFFICES ASSUME TypeOK, Turns, Receiving, Ordered, [Next]_vars
               PROVE  (Receiving /\ Ordered)'
    OBVIOUS
  <1> USE SubAssumption, AnswerFields
  <1>a. /\ ucSUB_SWRec \in [Modules -> 0 .. MaxVer]
        /\ ver \in [Modules -> 1 .. MaxVer]
        /\ line \in Answers \cup {Garbage, NoFrame}
        /\ Rx_Buffer \in Answers \cup {Garbage}
        /\ {due, late} \subseteq Answers \cup {NoFrame}
    BY DEF TypeOK, Port!PortTypeOK
  <1>1. CASE Poll
    BY <1>1, <1>a DEF Poll, Missed, Port!TxLock, Ordered, Receiving, Between, sub
  <1>2. CASE PollSend
    BY <1>2 DEF PollSend, Port!TxStart, Ordered, Receiving, Between, wire, sub
  <1>3. CASE PollLost
    BY <1>3 DEF PollLost, Port!TxDone, Ordered, Receiving, Between, wire, sub
  <1>4. ASSUME NEW u \in Modules, PollHeard(u) PROVE (Receiving /\ Ordered)'
    <2>1. due'.mod = u /\ due'.ver = ver[u]
      BY <1>4, <1>a DEF PollHeard, Answers
    <2>2. struck = 0 => Between(due)'
      BY <1>4, <2>1, <1>a DEF PollHeard, Port!TxDone, Ordered, Between, sub
    <2> QED BY <1>4, <2>2 DEF PollHeard, Port!TxDone, Ordered, Receiving, Between, sub
  <1>5. ASSUME NEW u \in Modules, SwitchMoves(u) PROVE (Receiving /\ Ordered)'
    <2>1. \A w \in Modules : ver'[w] >= ver[w] /\ ver'[w] \in Nat
      BY <1>5, <1>a DEF SwitchMoves
    <2> QED BY <1>5, <2>1, <1>a
            DEF SwitchMoves, Ordered, Receiving, Between, portVars, sub
  <1>6. ASSUME NEW u \in Modules, Answer(u) PROVE (Receiving /\ Ordered)'
    BY <1>6, <1>a DEF Answer, Reach, Port!Bytes, Ordered, Receiving, Between, sub
  <1>7. CASE LateAnswer
    BY <1>7, <1>a DEF LateAnswer, Reach, Port!Bytes, Ordered, Receiving, Between, sub
  <1>8. CASE Noise
    BY <1>8, <1>a DEF Noise, Reach, Port!Bytes, Ordered, Receiving, Between, sub
  <1>9. CASE ReceptionError
    BY <1>9 DEF ReceptionError, Port!LineError, Ordered, Receiving, Between, sub
  <1>10. CASE LineIdle
    <2>1. ~(line \in Answers /\ due \in Answers /\ line.mod = due.mod)
      BY <1>a, NextModule DEF Turns, Polled, PolledBefore, TypeOK
    <2>2. ~(line \in Answers /\ late \in Answers /\ line.mod = late.mod)
      BY <1>a, NextModule DEF Turns, Polled, PolledBefore, TypeOK
    <2>3. struck = 0 => Between(due)' /\ Between(late)'
      BY <1>10, <2>1, <2>2, <1>a DEF LineIdle, Port!Idle, Ordered, Between, wire, sub
    <2>4. struck = 0 => Between(Rx_Buffer)' /\ Between(line)'
      BY <1>10, <1>a DEF LineIdle, Port!Idle, Ordered, Between, wire, sub
    <2>5. struck = 0 /\ spc = "copy" => Rx_Buffer' = Rx_Buffer
      BY <1>10, <1>a DEF LineIdle, Port!Idle, Ordered, Receiving
    <2> QED BY <1>10, <2>3, <2>4, <2>5
            DEF LineIdle, Port!Idle, Ordered, Receiving, wire, sub
  <1>11. CASE SubGet
    BY <1>11 DEF SubGet, Port!Get, Ordered, Receiving, Between, wire
  <1>12. CASE Check
    BY <1>12, <1>a DEF Check, Ordered, Receiving, Between, portVars, wire
  <1>13. CASE Copy
    <2>1. CASE struck = 0
      <3>1. /\ Rx_Buffer \in Answers /\ m = Rx_Buffer.mod /\ m \in Modules
            /\ ucSUB_SWRec' = [ucSUB_SWRec EXCEPT ![m] = Rx_Buffer.ver]
        BY <1>13, <2>1, <1>a DEF Copy, Ordered
      <3>2. /\ ucSUB_SWRec'[m] = Rx_Buffer.ver
            /\ \A u \in Modules : u # m => ucSUB_SWRec'[u] = ucSUB_SWRec[u]
        BY <3>1, <1>a
      <3> QED BY <1>13, <2>1, <3>1, <3>2, <1>a
              DEF Copy, Ordered, Receiving, Between, portVars, wire
    <2>2. CASE struck # 0
      BY <1>13, <2>2 DEF Copy, Ordered, Receiving, portVars
    <2> QED BY <2>1, <2>2
  <1>14. CASE Judge
    BY <1>14 DEF Judge, Ordered, Receiving, Between, portVars, wire
  <1>15. CASE Fill
    BY <1>15 DEF Fill, Ordered, Receiving, Between, portVars, wire
  <1>16. ASSUME NEW s \in Setups, ChangeSetup(s) PROVE (Receiving /\ Ordered)'
    BY <1>16 DEF ChangeSetup, Ordered, Receiving, Between, portVars, wire, sub
  <1>17. CASE UNCHANGED vars
    BY <1>17 DEF vars, Ordered, Receiving, Between
  <1> QED BY <1>1, <1>2, <1>3, <1>4, <1>5, <1>6, <1>7, <1>8, <1>9, <1>10, <1>11,
             <1>12, <1>13, <1>14, <1>15, <1>16, <1>17 DEF Next, SubTask

LinkInv == TypeOK /\ Turns /\ Receiving /\ Ordered

LEMMA LinkInvHolds == Spec => []LinkInv
  <1>1. Init => LinkInv
    <2> SUFFICES ASSUME Init PROVE LinkInv
      OBVIOUS
    <2> USE SubAssumption, AnswerFields
    <2>1. Turns
      BY DEF Init, Port!PortInit, Turns
    <2>2. Receiving /\ Ordered
      BY DEF Init, Port!PortInit, Receiving, Ordered, Between
    <2> QED BY <2>1, <2>2, TypeInit DEF LinkInv
  <1>2. LinkInv /\ [Next]_vars => LinkInv'
    BY TypeStep, TurnsStep, OrderStep DEF LinkInv
  <1> QED BY <1>1, <1>2, PTL DEF Spec

(* The link implements Telemetry: a switch that moves is a change, a copy  *)
(* is learnt, bytes that strike a copy end the trust, and all else is no   *)
(* step of the telemetry.                                                  *)
THEOREM LinkIsTelemetry == Spec => IsTelemetry
  <1> USE SubAssumption
  <1>1. Init => Tele!Init
    BY DEF Init, Tele!Init
  <1>2. LinkInv /\ [Next]_vars => [Tele!Next]_<<ver, ucSUB_SWRec, 1 - struck>>
    <2> SUFFICES ASSUME LinkInv, [Next]_vars
                 PROVE  [Tele!Next]_<<ver, ucSUB_SWRec, 1 - struck>>
      OBVIOUS
    <2> DEFINE Stutter == UNCHANGED <<ver, ucSUB_SWRec, struck>>
               Struck == struck' = 1 /\ UNCHANGED <<ver, ucSUB_SWRec>>
    <2>1. Stutter => [Tele!Next]_<<ver, ucSUB_SWRec, 1 - struck>>
      OBVIOUS
    <2>2. Struck => [Tele!Next]_<<ver, ucSUB_SWRec, 1 - struck>>
      BY DEF Tele!Next, Tele!Distrust
    <2>3. ASSUME NEW u \in Modules, SwitchMoves(u) PROVE Tele!Next
      <3>1. Tele!Change(u)
        BY <2>3 DEF SwitchMoves, Tele!Change, sub
      <3> QED BY <3>1 DEF Tele!Next
    <2>4. CASE Copy
      <3>1. CASE struck = 0
        <4>1. /\ Rx_Buffer \in Answers /\ m = Rx_Buffer.mod /\ m \in Modules
              /\ ucSUB_SWRec[m] <= Rx_Buffer.ver /\ Rx_Buffer.ver <= ver[m]
          BY <2>4, <3>1, AnswerFields DEF Copy, LinkInv, Ordered, Between
        <4>2. /\ Rx_Buffer.ver \in Nat /\ ucSUB_SWRec[m] \in Nat /\ ver[m] \in Nat
          BY <4>1, AnswerFields DEF LinkInv, TypeOK
        <4>3. Rx_Buffer.ver \in ucSUB_SWRec[m] .. ver[m]
          BY <4>1, <4>2
        <4>4. ucSUB_SWRec' = [ucSUB_SWRec EXCEPT ![m] = Rx_Buffer.ver]
          BY <2>4, <4>1 DEF Copy
        <4>5. struck' = struck /\ ver' = ver
          BY <2>4 DEF Copy, wire
        <4>6. \E v \in ucSUB_SWRec[m] .. ver[m] :
                 ucSUB_SWRec' = [ucSUB_SWRec EXCEPT ![m] = v]
          BY <4>3, <4>4, Zenon
        <4>7. 1 - struck = 1 /\ 1 - struck' = 1 - struck
          BY <3>1, <4>5
        <4>8. Tele!Learn(m)
          BY <4>5, <4>6, <4>7, Zenon DEF Tele!Learn
        <4> QED BY <4>1, <4>8 DEF Tele!Next
      <3>2. CASE struck # 0
        <4>1. struck = 1 /\ struck' = struck /\ ver' = ver
          BY <2>4, <3>2 DEF Copy, LinkInv, TypeOK, wire
        <4> QED BY <4>1 DEF Tele!Next, Tele!Distrust
      <3> QED BY <3>1, <3>2
    <2>5. ASSUME NEW u \in Modules, Answer(u) PROVE Stutter \/ Struck
      BY <2>5 DEF Answer, Reach, sub
    <2>6. LateAnswer \/ Noise => Stutter \/ Struck
      BY DEF LateAnswer, Noise, Reach, sub
    <2>7. ASSUME NEW u \in Modules, PollHeard(u) PROVE Stutter
      BY <2>7 DEF PollHeard, sub
    <2>8. Poll \/ PollSend \/ PollLost => Stutter
      BY DEF Poll, PollSend, PollLost, wire, sub
    <2>9. ReceptionError \/ LineIdle => Stutter
      BY DEF ReceptionError, LineIdle, wire, sub
    <2>10. SubGet \/ Check \/ Judge \/ Fill => Stutter
      BY DEF SubGet, Check, Judge, Fill, wire
    <2>11. ASSUME NEW s \in Setups, ChangeSetup(s) PROVE Stutter
      BY <2>11 DEF ChangeSetup, wire, sub
    <2>12. UNCHANGED vars => Stutter
      BY DEF vars
    <2> HIDE DEF Stutter, Struck
    <2> QED BY <2>1, <2>2, <2>3, <2>4, <2>5, <2>6, <2>7, <2>8, <2>9, <2>10,
               <2>11, <2>12 DEF Next, SubTask
  <1> QED BY <1>1, <1>2, LinkInvHolds, PTL DEF Spec, IsTelemetry, Tele!Spec
-----------------------------------------------------------------------------
LEMMA OneAtATimeStep ==
  TypeOK /\ Turns /\ OneAtATime /\ [Next]_vars => OneAtATime'
  <1> SUFFICES ASSUME TypeOK, Turns, OneAtATime, [Next]_vars, (noise = MaxNoise)'
               PROVE  OneAtATime'
    BY DEF OneAtATime
  <1> USE SubAssumption, AnswerFields
  <1>a. queue \in Nat /\ noise \in Nat /\ noise <= MaxNoise
    BY DEF TypeOK, Port!PortTypeOK
  <1>1. CASE Poll
    BY <1>1, <1>a DEF Poll, SubWaits, Missed, Port!TxLock, OneAtATime, Turns, sub
  <1>2. CASE PollSend
    BY <1>2 DEF PollSend, Port!TxStart, OneAtATime, wire, sub
  <1>3. CASE PollLost
    BY <1>3 DEF PollLost, Port!TxDone, OneAtATime, wire, data, sub
  <1>4. ASSUME NEW u \in Modules, PollHeard(u) PROVE OneAtATime'
    BY <1>4 DEF PollHeard, Port!TxDone, OneAtATime, Turns, data, sub
  <1>5. ASSUME NEW u \in Modules, SwitchMoves(u) PROVE OneAtATime'
    BY <1>5 DEF SwitchMoves, OneAtATime, portVars, data, sub
  <1>6. ASSUME NEW u \in Modules, Answer(u) PROVE OneAtATime'
    BY <1>6 DEF Answer, Reach, Port!Bytes, OneAtATime, Turns, data, sub
  <1>7. CASE LateAnswer
    BY <1>7 DEF LateAnswer, OneAtATime
  <1>8. CASE Noise \/ ReceptionError
    BY <1>8, <1>a DEF Noise, ReceptionError
  <1>9. CASE LineIdle
    BY <1>9, <1>a DEF LineIdle, Port!Idle, OneAtATime, Turns, TypeOK,
       Port!PortTypeOK, wire, data, sub
  <1>10. CASE SubGet
    BY <1>10, <1>a DEF SubGet, Port!Get, OneAtATime, wire, data
  <1>11. CASE Check
    BY <1>11 DEF Check, OneAtATime, portVars, wire, data
  <1>12. CASE Copy
    BY <1>12 DEF Copy, OneAtATime, portVars, wire, data
  <1>13. CASE Judge
    BY <1>13 DEF Judge, OneAtATime, portVars, wire, data
  <1>14. CASE Fill
    BY <1>14 DEF Fill, OneAtATime, portVars, wire, data
  <1>15. ASSUME NEW s \in Setups, ChangeSetup(s) PROVE OneAtATime'
    BY <1>15 DEF ChangeSetup, OneAtATime, portVars, wire, data, sub
  <1>16. CASE UNCHANGED vars
    BY <1>16 DEF vars, OneAtATime
  <1> QED BY <1>1, <1>2, <1>3, <1>4, <1>5, <1>6, <1>7, <1>8, <1>9, <1>10, <1>11,
             <1>12, <1>13, <1>14, <1>15, <1>16 DEF Next, SubTask

(* Without a disturbance the Data task's polls and the SUB task's copies   *)
(* never meet in the one buffer (UART_Rx_IDLE, SUB_Receive).               *)
THEOREM BufferProtected == Spec => []PriorityProtects
  <1>1. Init => OneAtATime
    BY SubAssumption DEF Init, Port!PortInit, OneAtATime
  <1>2. LinkInv /\ OneAtATime /\ [Next]_vars => OneAtATime'
    BY OneAtATimeStep DEF LinkInv
  <1>3. OneAtATime => PriorityProtects
    BY DEF OneAtATime, PriorityProtects
  <1> QED BY <1>1, <1>2, <1>3, LinkInvHolds, PTL DEF Spec

(* Only the SUB task's steps and a new setup touch what a branch shows.    *)
LEMMA ShownStep ==
  BranchShown /\ Judged /\ [Next]_vars => (BranchShown /\ Judged)'
  <1> SUFFICES ASSUME BranchShown, Judged, [Next]_vars
               PROVE  (BranchShown /\ Judged)'
    OBVIOUS
  <1> DEFINE Same == UNCHANGED <<sub, Setup, stale>>
  <1>1. Same => (BranchShown /\ Judged)'
    BY DEF sub, BranchShown, Judged
  <1>2. Poll \/ PollSend \/ PollLost => Same
    BY DEF Poll, PollSend, PollLost
  <1>3. ASSUME NEW u \in Modules, PollHeard(u) \/ SwitchMoves(u) \/ Answer(u)
        PROVE  Same
    BY <1>3 DEF PollHeard, SwitchMoves, Answer
  <1>4. LateAnswer \/ Noise \/ ReceptionError \/ LineIdle => Same
    BY DEF LateAnswer, Noise, ReceptionError, LineIdle
  <1>5. CASE SubGet \/ Check \/ Copy
    <2>1. spc' \notin {"wait", "fill"}
      BY <1>5 DEF SubGet, Check, Copy
    <2> QED BY <2>1 DEF BranchShown, Judged
  <1>6. CASE Judge
    BY <1>6 DEF Judge, BranchShown, Judged
  <1>7. CASE Fill
    BY <1>7 DEF Fill, BranchShown, Judged
  <1>8. ASSUME NEW s \in Setups, ChangeSetup(s) PROVE (BranchShown /\ Judged)'
    BY <1>8 DEF ChangeSetup, BranchShown, Judged
  <1>9. CASE UNCHANGED vars
    BY <1>9 DEF vars, BranchShown, Judged
  <1> HIDE DEF Same
  <1> QED BY <1>1, <1>2, <1>3, <1>4, <1>5, <1>6, <1>7, <1>8, <1>9
          DEF Next, SubTask

(* What a branch shows is its own module's word, or "absent"               *)
(* (SUB_BranchState), however the setup changes.                           *)
THEOREM BranchesShown == Spec => []BranchShown
  <1>1. Init => BranchShown /\ Judged
    BY DEF Init, BranchShown, Judged
  <1> QED BY <1>1, ShownStep, PTL DEF Spec
=============================================================================
