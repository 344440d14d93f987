-------------------------- MODULE AlarmScanProofs ---------------------------
(* Proofs about AlarmScan: whatever the setups, the inputs and the changes *)
(* of both, an alarm held present is reported and keeps the lamp on.       *)
EXTENDS AlarmScan, TLAPS

(* An event has a cell of its own in the message.                          *)
LEMMA CellOfEvent ==
  \A e \in Events : /\ e \in Int
                    /\ EventOf(Cell(e)) = e
                    /\ Cell(e) \in MessageCells
                    /\ Cell(e) \in Cells
  <1> SUFFICES ASSUME NEW e \in Events
               PROVE  /\ e \in Int
                      /\ EventOf(Cell(e)) = e
                      /\ Cell(e) \in MessageCells
    BY DEF Cells
  <1>1. CASE e \in Analog \cup Switches
    <2>1. e \in 0 .. 19
      BY <1>1, EventAssumption
    <2> QED BY <2>1 DEF EventOf, Cell, MessageCells, eAlmEvent_SW
  <1>2. CASE e \in BranchEvents
    <2>1. PICK i \in Branches : e = 32 + i
      BY <1>2 DEF BranchEvents, eAlmEvent_SW
    <2>2. i \in 0 .. 143
      BY EventAssumption
    <2>3. Cell(e) = 20 + i /\ EventOf(20 + i) = e /\ e \in Int
      BY <2>1, <2>2 DEF EventOf, Cell, eAlmEvent_SW
    <2> QED BY <2>3 DEF MessageCells
  <1> QED BY <1>1, <1>2 DEF Events

(* The state kept of a judged event is its level, or another alarm's when  *)
(* it alarms, and then the event counts as crossed.                        *)
LEMMA KeptStates ==
  ASSUME NEW calls, KeepStates(calls), NEW e \in Events
  PROVE  /\ e \notin Changed(calls) =>
              /\ LAlmState'[e] = LAlmState[e]
              /\ e \in crossed' <=> e \in crossed
         /\ e \in Changed(calls) =>
              /\ LAlmState'[e] = "Normal" <=> calls[e] = "Normal"
              /\ e \notin crossed' => LAlmState'[e] = calls[e]
  <1>1. PICK seen \in [Changed(calls) -> Levels] :
          /\ \A x \in Changed(calls) : seen[x] \in ReadBack(calls[x])
          /\ LAlmState' = [x \in Events |-> IF x \in Changed(calls) THEN seen[x]
                                            ELSE LAlmState[x]]
          /\ crossed' = (crossed \ Changed(calls))
                          \cup {x \in Changed(calls) : seen[x] # calls[x]}
    BY DEF KeepStates
  <1>2. \A v : \A w \in ReadBack(v) : w = "Normal" <=> v = "Normal"
    BY DEF ReadBack, WindowTypes
  <1> QED BY <1>1, <1>2

(* Judging any set of events leaves the state well typed, every alarm      *)
(* covered by its indication, and the lamp on while there is one.          *)
LEMMA JudgeStep ==
  ASSUME TypeOK, MsgCoversAlarm, LampOnWhileAlarm,
         NEW D \in SUBSET Events, NEW calls \in [D -> Readings], Judge(calls)
  PROVE  /\ LAlmState' \in [Events -> Levels]
         /\ crossed' \subseteq Events
         /\ msg' \in [Cells -> Levels \cup {"Absent"}]
         /\ lamp' \in {"on", "off"}
         /\ MsgCoversAlarm'
         /\ LampOnWhileAlarm'
  <1>1. \A e \in Changed(calls) : e \in D /\ calls[e] \in Levels
    BY DEF Changed
  <1>k. KeepStates(calls)
    BY DEF Judge, JudgeOnly
  <1>2. LAlmState' \in [Events -> Levels] /\ crossed' \subseteq Events
    BY <1>1, <1>k DEF KeepStates, TypeOK
  <1>3. \A e \in Events :
          /\ e \notin Changed(calls) => LAlmState'[e] = LAlmState[e]
          /\ e \in Changed(calls) =>
               (LAlmState'[e] = "Normal" <=> calls[e] = "Normal")
    BY <1>k, KeptStates
  <1>4. msg' \in [Cells -> Levels \cup {"Absent"}]
    BY <1>1 DEF Judge, JudgeOnly, TypeOK
  <1>5. \A c \in Cells : /\ EventOf(c) \in Changed(calls) =>
                              msg'[c] = calls[EventOf(c)]
                         /\ EventOf(c) \notin Changed(calls) =>
                              msg'[c] \in {msg[c], "Absent"}
    BY DEF Judge, JudgeOnly
  <1>6. MsgCoversAlarm'
    <2> SUFFICES ASSUME NEW e \in Events, LAlmState'[e] # "Normal"
                 PROVE  msg'[Cell(e)] # "Normal"
      BY DEF MsgCoversAlarm
    <2>1. CASE e \in Changed(calls)
      BY <2>1, <1>3, <1>5, CellOfEvent
    <2>2. CASE e \notin Changed(calls)
      BY <2>2, <1>3, <1>5, CellOfEvent DEF MsgCoversAlarm
    <2> QED BY <2>1, <2>2
  <1>7. lamp' \in {"on", "off"}
    BY DEF Judge, TypeOK
  <1>8. LampOnWhileAlarm'
    <2> SUFFICES ASSUME NEW e \in Events, LAlmState'[e] # "Normal"
                 PROVE  lamp' = "on"
      BY DEF LampOnWhileAlarm
    <2>1. CASE e \in Changed(calls)
      BY <2>1, <1>3 DEF Judge
    <2>2. CASE e \notin Changed(calls)
      BY <2>2, <1>3 DEF Judge, LampOnWhileAlarm
    <2> QED BY <2>1, <2>2
  <1> QED BY <1>2, <1>4, <1>6, <1>7, <1>8

(* Each phase judges a set of events, each by something it can read as.    *)
LEMMA CallsTyped ==
  ASSUME TypeOK
  PROVE  /\ \E D \in SUBSET Events : BusStateCalls \in [D -> Readings]
         /\ \A n \in {0, 1} :
              \E D \in SUBSET Events : BusbarCalls(n) \in [D -> Readings]
         /\ \E D \in SUBSET Events : BranchCalls \in [D -> Readings]
  <1>1. \A e \in Events : reading[e] \in Readings
    BY DEF TypeOK
  <1>2. {"Absent", "Normal", IOTrip} \subseteq Readings
    BY DEF Readings, Levels, IOTrip
  <1>3. BothOpen \in Readings
    BY <1>2 DEF BothOpen
  <1>4. \E D \in SUBSET Events : BusStateCalls \in [D -> Readings]
    <2> DEFINE qf(e) == IF setup.mode = "S" THEN reading[e]
                        ELSE IF e = eAlmEvent_BQF THEN "Absent"
                        ELSE IF setup.mode = "D" THEN reading[e] ELSE BothOpen
               spd(e) == IF setup.bSPD = 1 THEN reading[e] ELSE "Absent"
               value(e) == IF e \in {eAlmEvent_AQF, eAlmEvent_BQF}
                           THEN qf(e) ELSE spd(e)
               D == DOMAIN BusStateCalls
    <2>1. \A e \in Events : value(e) \in Readings
      BY <1>1, <1>2, <1>3
    <2> HIDE DEF BothOpen
    <2>2. BusStateCalls = [e \in D |-> value(e)]
      BY Zenon DEF BusStateCalls
    <2>3. D \subseteq Switches
      BY Zenon DEF BusStateCalls
    <2>4. Switches \subseteq Events
      BY DEF Events
    <2> HIDE DEF value, D
    <2>5. BusStateCalls \in [D -> Readings]
      BY <2>1, <2>2, <2>3, <2>4
    <2> QED BY <2>3, <2>4, <2>5
  <1>5. ASSUME NEW n \in {0, 1}
        PROVE  \E D \in SUBSET Events : BusbarCalls(n) \in [D -> Readings]
    <2>1. {a \in Analog : a \div 10 = n} \in SUBSET Events
      BY DEF Events
    <2>2. BusbarCalls(n) \in [{a \in Analog : a \div 10 = n} -> Readings]
      BY <1>1, <2>1 DEF BusbarCalls
    <2> QED BY <2>1, <2>2
  <1>6. \E D \in SUBSET Events : BranchCalls \in [D -> Readings]
    <2>1. BranchEvents \in SUBSET Events
      BY DEF Events
    <2>2. BranchCalls \in [BranchEvents -> Readings]
      BY <1>1, <1>2, <2>1 DEF BranchCalls
    <2> QED BY <2>1, <2>2
  <1> QED BY <1>4, <1>5, <1>6

IInv == TypeOK /\ MsgCoversAlarm /\ LampOnWhileAlarm

LEMMA InitOK == Init => IInv
  <1> SUFFICES ASSUME Init PROVE IInv
    OBVIOUS
  <1>1. TypeOK
    BY DEF Init, TypeOK, Readings, Levels, Complete, FullUnit
  <1>2. MsgCoversAlarm
    BY DEF Init, MsgCoversAlarm
  <1>3. LampOnWhileAlarm
    BY DEF Init, LampOnWhileAlarm
  <1> QED BY <1>1, <1>2, <1>3 DEF IInv

LEMMA StepOK == IInv /\ [Next]_vars => IInv'
  <1> SUFFICES ASSUME IInv, [Next]_vars PROVE IInv'
    OBVIOUS
  <1> USE DEF IInv
  <1>1. CASE Alm_BusState
    <2>1. PICK D \in SUBSET Events : BusStateCalls \in [D -> Readings]
      BY CallsTyped
    <2>2. Judge(BusStateCalls)
      BY <1>1 DEF Alm_BusState
    <2>3. /\ LAlmState' \in [Events -> Levels] /\ crossed' \subseteq Events
          /\ msg' \in [Cells -> Levels \cup {"Absent"}]
          /\ lamp' \in {"on", "off"}
          /\ MsgCoversAlarm'
          /\ LampOnWhileAlarm'
      BY <2>1, <2>2, JudgeStep
    <2> QED BY <1>1, <2>3 DEF Alm_BusState, TypeOK
  <1>2. CASE Alm_BusA
    <2>1. PICK D \in SUBSET Events : BusbarCalls(0) \in [D -> Readings]
      BY CallsTyped
    <2>2. Judge(BusbarCalls(0))
      BY <1>2 DEF Alm_BusA
    <2>3. /\ LAlmState' \in [Events -> Levels] /\ crossed' \subseteq Events
          /\ msg' \in [Cells -> Levels \cup {"Absent"}]
          /\ lamp' \in {"on", "off"}
          /\ MsgCoversAlarm'
          /\ LampOnWhileAlarm'
      BY <2>1, <2>2, JudgeStep
    <2> QED BY <1>2, <2>3 DEF Alm_BusA, TypeOK
  <1>3. CASE Alm_BusB
    <2>1. PICK D \in SUBSET Events : BusbarCalls(1) \in [D -> Readings]
      BY CallsTyped
    <2>2. Judge(BusbarCalls(1))
      BY <1>3 DEF Alm_BusB
    <2>3. /\ LAlmState' \in [Events -> Levels] /\ crossed' \subseteq Events
          /\ msg' \in [Cells -> Levels \cup {"Absent"}]
          /\ lamp' \in {"on", "off"}
          /\ MsgCoversAlarm'
          /\ LampOnWhileAlarm'
      BY <2>1, <2>2, JudgeStep
    <2> QED BY <1>3, <2>3 DEF Alm_BusB, TypeOK
  <1>4. CASE Alm_BranchState
    <2>1. PICK D \in SUBSET Events : BranchCalls \in [D -> Readings]
      BY CallsTyped
    <2>2. Judge(BranchCalls)
      BY <1>4 DEF Alm_BranchState
    <2>3. /\ LAlmState' \in [Events -> Levels] /\ crossed' \subseteq Events
          /\ msg' \in [Cells -> Levels \cup {"Absent"}]
          /\ lamp' \in {"on", "off"}
          /\ MsgCoversAlarm'
          /\ LampOnWhileAlarm'
      BY <2>1, <2>2, JudgeStep
    <2> QED BY <1>4, <2>3 DEF Alm_BranchState, TypeOK
  <1>5. CASE LampCheck
    <2>1. TypeOK'
      BY <1>5 DEF LampCheck, TypeOK
    <2>2. MsgCoversAlarm'
      BY <1>5 DEF LampCheck, MsgCoversAlarm
    <2>3. LampOnWhileAlarm'
      <3> SUFFICES ASSUME NEW e \in Events, LAlmState[e] # "Normal"
                   PROVE  lamp' = "on"
        BY <1>5 DEF LampCheck, LampOnWhileAlarm
      <3>1. Cell(e) \in MessageCells /\ msg[Cell(e)] # "Normal"
        BY CellOfEvent DEF MsgCoversAlarm
      <3> QED BY <1>5, <3>1 DEF LampCheck, LampOnWhileAlarm
    <2> QED BY <2>1, <2>2, <2>3
  <1>6. CASE Acquire
    <2>1. reading' \in [Events -> Readings]
      <3>1. PICK e \in Events : \E v \in ReadingsOf(e) :
              reading' = [reading EXCEPT ![e] = v]
        BY <1>6 DEF Acquire
      <3> PICK v \in ReadingsOf(e) : reading' = [reading EXCEPT ![e] = v]
        BY <3>1
      <3>2. v \in Readings
        BY EventAssumption DEF ReadingsOf, Readings, Levels, IOTrip
      <3> QED BY <3>2 DEF TypeOK
    <2>2. steady' \in BOOLEAN
      BY <1>6 DEF Acquire, TypeOK, Complete, FullUnit
    <2> QED BY <1>6, <2>1, <2>2 DEF Acquire, TypeOK, MsgCoversAlarm, LampOnWhileAlarm
  <1>7. CASE SetSetup
    <2>1. steady' \in BOOLEAN
      BY <1>7 DEF SetSetup, TypeOK, Complete, FullUnit
    <2> QED BY <1>7, <2>1 DEF SetSetup, TypeOK, MsgCoversAlarm, LampOnWhileAlarm
  <1>8. CASE UNCHANGED vars
    BY <1>8 DEF vars, TypeOK, MsgCoversAlarm, LampOnWhileAlarm
  <1> QED BY <1>1, <1>2, <1>3, <1>4, <1>5, <1>6, <1>7, <1>8 DEF Next, Scan

(* Every variable of the scan stays in its range.                          *)
THEOREM ScanTypeCorrect == Spec => []TypeOK
  <1>1. IInv => TypeOK
    BY DEF IInv
  <1> QED BY <1>1, InitOK, StepOK, PTL DEF Spec

(* For every set of events, setups and readings, with the setup changed at *)
(* any time, no alarm the scan holds present is reported as normal.        *)
THEOREM AlarmIsReported == Spec => []MsgCoversAlarm
  <1>1. IInv => MsgCoversAlarm
    BY DEF IInv
  <1> QED BY <1>1, InitOK, StepOK, PTL DEF Spec

(* Nor does the lamp go off while the scan holds some alarm present.       *)
THEOREM LampStaysOn == Spec => []LampOnWhileAlarm
  <1>1. IInv => LampOnWhileAlarm
    BY DEF IInv
  <1> QED BY <1>1, InitOK, StepOK, PTL DEF Spec

-----------------------------------------------------------------------------
(* On a complete unit an event's indication and its last state tell the    *)
(* same, and in each phase both agree with the readings judged so far: the *)
(* bus readings rest during a scan.                                        *)
Told(e) ==
  /\ msg[Cell(e)] = "Normal" <=> LAlmState[e] = "Normal"
  /\ e \notin crossed => msg[Cell(e)] = LAlmState[e]

Agrees(e) ==
  /\ LAlmState[e] = "Normal" <=> reading[e] = "Normal"
  /\ e \notin crossed => LAlmState[e] = reading[e]

SteadyInv ==
  steady =>
    /\ Complete
    /\ \A e \in Events : Told(e)
    /\ pos \in {"BusA", "BusB", "Branch", "Lamp"} => \A e \in Switches : Agrees(e)
    /\ pos \in {"BusB", "Branch", "Lamp"} => \A e \in Analog : e \div 10 = 0 => Agrees(e)
    /\ pos \in {"Branch", "Lamp"} => \A e \in Analog : e \div 10 = 1 => Agrees(e)

(* On a complete unit every phase judges each of its events by its reading.*)
LEMMA CompleteCalls ==
  ASSUME Complete
  PROVE  /\ BusStateCalls = [e \in Switches |-> reading[e]]
         /\ BranchCalls = [e \in BranchEvents |-> reading[e]]
  <1>1. setup.mode = "S" /\ setup.bQF = 1 /\ setup.bSPD = 1
    BY DEF Complete, FullUnit
  <1>2. Switches \cap ({eAlmEvent_AQF, eAlmEvent_BQF}
                         \cup ({eAlmEvent_ASPD} \cup {eAlmEvent_BSPD})) = Switches
    BY EventAssumption
    DEF eAlmEvent_AQF, eAlmEvent_BQF, eAlmEvent_ASPD, eAlmEvent_BSPD
  <1>3. (setup.bSPD = 1) <=> (setup.mode \in {"S", "Y"})
    BY <1>1
  <1>4. BusStateCalls = [e \in Switches |-> reading[e]]
    BY <1>1, <1>2, <1>3, Zenon DEF BusStateCalls
  <1> QED BY <1>1, <1>4 DEF BranchCalls

(* What judging some events by their readings does to each event.          *)
LEMMA JudgeTells ==
  ASSUME TypeOK, Complete, NEW D \in SUBSET Events,
         Judge([e \in D |-> reading[e]]), reading' = reading, NEW e \in Events
  PROVE  /\ Told(e) => Told(e)'
         /\ e \in D \/ Agrees(e) => Agrees(e)'
  <1> DEFINE calls == [x \in D |-> reading[x]]
  <1>1. KeepStates(calls)
    BY DEF Judge, JudgeOnly
  <1>2. \A x \in D : calls[x] \in Levels
    BY DEF Complete, FullUnit, TypeOK, Readings
  <1>3. Missing(calls) = {}
    BY <1>2 DEF Missing, Levels
  <1>4. \A c \in Cells : msg'[c] = IF EventOf(c) \in Changed(calls)
                                 THEN calls[EventOf(c)] ELSE msg[c]
    BY <1>3 DEF Judge, JudgeOnly
  <1>5. msg'[Cell(e)] = IF e \in Changed(calls) THEN calls[e] ELSE msg[Cell(e)]
    BY <1>4, CellOfEvent
  <1>6. /\ e \notin Changed(calls) =>
             /\ LAlmState'[e] = LAlmState[e]
             /\ e \in crossed' <=> e \in crossed
        /\ e \in Changed(calls) =>
             /\ LAlmState'[e] = "Normal" <=> calls[e] = "Normal"
             /\ e \notin crossed' => LAlmState'[e] = calls[e]
    BY <1>1, KeptStates
  <1>7. e \in D => (e \in Changed(calls) <=> reading[e] # LAlmState[e])
    BY <1>2 DEF Changed
  <1>8. e \in Changed(calls) => e \in D /\ calls[e] = reading[e]
    BY DEF Changed
  <1>9. Told(e) => Told(e)'
    BY <1>5, <1>6 DEF Told
  <1>10. e \in D \/ Agrees(e) => Agrees(e)'
    BY <1>6, <1>7, <1>8 DEF Agrees
  <1> QED BY <1>9, <1>10

LEMMA SteadyStep == TypeOK /\ SteadyInv /\ [Next]_vars => SteadyInv'
  <1> SUFFICES ASSUME TypeOK, SteadyInv, [Next]_vars, steady' PROVE SteadyInv'
    BY DEF SteadyInv
  <1>a. /\ Analog \subseteq Events /\ Switches \subseteq Events
        /\ BranchEvents \subseteq Events
    BY DEF Events
  <1>1. CASE Alm_BusState
    <2>1. /\ steady /\ Judge(BusStateCalls) /\ pos' = "BusA"
          /\ UNCHANGED <<setup, reading>>
      BY <1>1 DEF Alm_BusState
    <2>2. Judge([e \in Switches |-> reading[e]])
      BY <2>1, CompleteCalls DEF SteadyInv
    <2>3. \A e \in Events : Told(e)' /\ (e \in Switches => Agrees(e)')
      BY <1>a, <2>1, <2>2, JudgeTells DEF SteadyInv
    <2>4. Complete'
      BY <2>1 DEF SteadyInv, Complete, FullUnit
    <2> QED BY <1>a, <2>1, <2>3, <2>4 DEF SteadyInv
  <1>2. CASE Alm_BusA
    <2>1. /\ steady /\ Judge(BusbarCalls(0)) /\ pos = "BusA"
          /\ pos' = IF setup.mode \in {"D", "H"} THEN "Branch" ELSE "BusB"
          /\ UNCHANGED <<setup, reading>>
      BY <1>2 DEF Alm_BusA
    <2>2. pos' = "BusB"
      BY <2>1 DEF SteadyInv, Complete, FullUnit
    <2>3. Judge([e \in {a \in Analog : a \div 10 = 0} |-> reading[e]])
      BY <2>1 DEF BusbarCalls
    <2>4. \A e \in Events :
            /\ Told(e)'
            /\ (e \in Analog /\ e \div 10 = 0) \/ Agrees(e) => Agrees(e)'
      BY <1>a, <2>1, <2>3, JudgeTells DEF SteadyInv
    <2>5. Complete'
      BY <2>1 DEF SteadyInv, Complete, FullUnit
    <2> QED BY <1>a, <2>1, <2>2, <2>4, <2>5 DEF SteadyInv
  <1>3. CASE Alm_BusB
    <2>1. /\ steady /\ Judge(BusbarCalls(1)) /\ pos = "BusB" /\ pos' = "Branch"
          /\ UNCHANGED <<setup, reading>>
      BY <1>3 DEF Alm_BusB
    <2>3. Judge([e \in {a \in Analog : a \div 10 = 1} |-> reading[e]])
      BY <2>1 DEF BusbarCalls
    <2>4. \A e \in Events :
            /\ Told(e)'
            /\ (e \in Analog /\ e \div 10 = 1) \/ Agrees(e) => Agrees(e)'
      BY <1>a, <2>1, <2>3, JudgeTells DEF SteadyInv
    <2>5. Complete'
      BY <2>1 DEF SteadyInv, Complete, FullUnit
    <2> QED BY <1>a, <2>1, <2>4, <2>5 DEF SteadyInv
  <1>4. CASE Alm_BranchState
    <2>1. /\ steady /\ Judge(BranchCalls) /\ pos = "Branch" /\ pos' = "Lamp"
          /\ UNCHANGED <<setup, reading>>
      BY <1>4 DEF Alm_BranchState
    <2>2. Judge([e \in BranchEvents |-> reading[e]])
      BY <2>1, CompleteCalls DEF SteadyInv
    <2>3. \A e \in Events : Told(e)' /\ (Agrees(e) => Agrees(e)')
      BY <1>a, <2>1, <2>2, JudgeTells DEF SteadyInv
    <2>4. Complete'
      BY <2>1 DEF SteadyInv, Complete, FullUnit
    <2> QED BY <1>a, <2>1, <2>3, <2>4 DEF SteadyInv
  <1>5. CASE LampCheck
    BY <1>5 DEF LampCheck, SteadyInv, Complete, FullUnit, Told
  <1>6. CASE Acquire
    <2>1. /\ steady /\ Complete'
          /\ UNCHANGED <<LAlmState, msg, pos, crossed>>
      BY <1>6 DEF Acquire
    <2>2. PICK e \in Events, v \in Readings :
            /\ e \in BranchEvents \/ pos = "BusState"
            /\ reading' = [reading EXCEPT ![e] = v]
      BY <1>6, EventAssumption DEF Acquire, ReadingsOf, Readings, Levels, IOTrip
    <2>3. \A x \in Analog \cup Switches : pos # "BusState" => reading'[x] = reading[x]
      <3>1. \A x \in Analog \cup Switches : x \notin BranchEvents
        BY EventAssumption DEF BranchEvents, eAlmEvent_SW
      <3> QED BY <1>a, <2>2, <3>1 DEF TypeOK
    <2>4. \A x \in Analog \cup Switches : pos # "BusState" /\ Agrees(x) => Agrees(x)'
      BY <2>1, <2>3 DEF Agrees
    <2>5. \A x \in Events : Told(x) => Told(x)'
      BY <2>1 DEF Told
    <2> QED BY <2>1, <2>4, <2>5 DEF SteadyInv
  <1>7. CASE SetSetup
    BY <1>7 DEF SetSetup, SteadyInv, Told, Agrees
  <1>8. CASE UNCHANGED vars
    BY <1>8 DEF vars, SteadyInv, Complete, FullUnit, Told, Agrees
  <1> QED BY <1>1, <1>2, <1>3, <1>4, <1>5, <1>6, <1>7, <1>8 DEF Next, Scan

(* For every set of events and every reading: on a unit that was never     *)
(* less than complete the host reads after every scan which bus events     *)
(* alarm, and at which level, but for the states a clear of the window     *)
(* made another alarm's.                                                   *)
THEOREM IndicationsFollow == Spec => []IndicationCurrent
  <1>1. Init => SteadyInv
    <2> SUFFICES ASSUME Init PROVE SteadyInv
      OBVIOUS
    <2>1. \A e \in Events : msg[Cell(e)] = "Normal" /\ LAlmState[e] = "Normal"
      BY CellOfEvent DEF Init
    <2> QED BY <2>1 DEF Init, SteadyInv, Told
  <1>2. SteadyInv => IndicationCurrent
    <2> SUFFICES ASSUME SteadyInv, steady, pos = "Lamp", NEW e \in Analog \cup Switches
                 PROVE  /\ msg[Cell(e)] = "Normal" <=> reading[e] = "Normal"
                        /\ e \notin crossed => msg[Cell(e)] = reading[e]
      BY DEF IndicationCurrent
    <2>1. e \in Analog => e \div 10 \in {0, 1}
      BY EventAssumption
    <2>2. Told(e) /\ Agrees(e)
      BY <2>1 DEF SteadyInv, Events
    <2> QED BY <2>2 DEF Told, Agrees
  <1> QED BY <1>1, <1>2, SteadyStep, ScanTypeCorrect, PTL DEF Spec
=============================================================================
