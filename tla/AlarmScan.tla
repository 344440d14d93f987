----------------------------- MODULE AlarmScan ------------------------------
(***************************************************************************)
(* The alarm scan of APP/app_Alarm.c: Alm_AllHandler judges the bus        *)
(* switches, the bus variables and the branch switches against LAlmState,  *)
(* keeps the indications gAlmMessage reported to the host, and switches    *)
(* the lamp and the buzzer.  The history log it feeds is module AlarmLog.  *)
(*                                                                         *)
(* Events carry the numbers of enum AlmEventTypeDef: 0..7 and 10..17 are   *)
(* analog values of bus A and B, 8, 9, 18, 19 their switches and surge     *)
(* protectors, 32 + i is branch i.  gAlmMessage is one array of cells:     *)
(* BusAlm is cells 0..19, BranchAlm[i] is cell 20 + i.                     *)
(***************************************************************************)
EXTENDS Integers

CONSTANTS
  Analog,          \* analog events judged, a subset of 0..7 and 10..17
  Switches,        \* bus switch events judged, a subset of {8, 9, 18, 19}
  Branches,        \* branch numbers, a subset of 0..143
  AnalogReadings,  \* what an analog value may read as
  BranchReadings,  \* what ucBranchState_a[i] may hold
  Setups,          \* the setups the unit may be configured with
  Reconfigurable   \* whether the HMI changes the setup while running

eAlmEvent_AQF == 8
eAlmEvent_ASPD == 9
eAlmEvent_BQF == 18
eAlmEvent_BSPD == 19
eAlmEvent_SW == 32

Modes == {"S", "D", "H", "Y"}
AllSetups == [mode : Modes, bQF : {0, 1}, bSPD : {0, 1}]

(* A reading is the level it is judged as, or says there is nothing to     *)
(* judge: "Absent" is 0x20 (an analog value reads so when it is exactly    *)
(* 32.0), "Unused" the branch states 2 and 3 of a branch not in use.       *)
(* eAlmType_IOTrip has the value of eAlmType_Under.                        *)
IOTrip == "Under"
Levels == {"Normal", "Under", "Over", "OverSec"}
Readings == Levels \cup {"Absent", "Unused"}
BranchEvents == {eAlmEvent_SW + i : i \in Branches}
Events == Analog \cup Switches \cup BranchEvents

ASSUME EventAssumption ==
  /\ Analog \subseteq (0 .. 7) \cup (10 .. 17)
  /\ Switches \subseteq {8, 9, 18, 19}
  /\ Branches \subseteq 0 .. 143
  /\ AnalogReadings \subseteq {"Normal", "Under", "Over", "OverSec", "Absent"}
  /\ BranchReadings \subseteq {"Normal", IOTrip, "Unused", "Absent"}
  /\ Setups \subseteq AllSetups
  /\ Reconfigurable \in BOOLEAN

(* The cell of an event's indication, and the one AlmType_IO writes for    *)
(* 0x20: it indexes BranchAlm by AlmEvent - eAlmEvent_SW also for the bus  *)
(* events, which lands in BusAlm or before the structure.                  *)
Cell(e) == IF e < eAlmEvent_SW THEN e ELSE 20 + (e - eAlmEvent_SW)
EventOf(c) == IF c < 20 THEN c ELSE eAlmEvent_SW + (c - 20)
AbsentCell(e) == IF e \in Analog THEN e ELSE 20 + (e - eAlmEvent_SW)
MessageCells == (0 .. 19) \cup {20 + i : i \in Branches}
Cells == MessageCells \cup {AbsentCell(e) : e \in Switches}

VARIABLES
  setup,      \* Optimset_st.Setup
  reading,    \* what the acquisition and the SUB task provide per event
  LAlmState,  \* last judged level per event
  msg,        \* gAlmMessage, and the cells its wrong indices reach
  lamp,       \* the alarm lamp and buzzer
  pos,        \* the next phase of Alm_AllHandler
  crossed,    \* history: events whose last state was another alarm's
  steady      \* history: the unit has always been a complete one

vars == <<setup, reading, LAlmState, msg, lamp, pos, crossed, steady>>

ReadingsOf(e) ==
  IF e \in Analog THEN AnalogReadings
  ELSE IF e \in Switches THEN {"Normal", IOTrip}
  ELSE BranchReadings

(* A unit with both buses, all branches fitted and watched, and one that   *)
(* has its surge protectors, too.                                          *)
FullUnit ==
  /\ setup.mode = "S" /\ setup.bQF = 1
  /\ \A e \in Events : reading[e] \notin {"Absent", "Unused"}
Complete == FullUnit /\ setup.bSPD = 1

Init ==
  /\ setup \in Setups
  /\ reading \in [Events -> {"Normal"}]
  /\ LAlmState = [e \in Events |-> "Normal"]
  /\ msg = [c \in Cells |-> "Normal"]
  /\ lamp = "off"
  /\ pos = "BusState"
  /\ crossed = {} /\ steady = Complete

-----------------------------------------------------------------------------
(* Mutant of Changed: no early return for 0x20 and unused branches.        *)
ChangedAnyValue(calls) == {e \in DOMAIN calls : calls[e] # LAlmState[e]}

(* Mutant of Changed: a level is new only when the last one was normal, or *)
(* when it is normal.                                                      *)
ChangedFromNormal(calls) ==
  {e \in DOMAIN calls : /\ calls[e] \in Levels
                        /\ (calls[e] = "Normal") # (LAlmState[e] = "Normal")}

(* AlmType_VoltFreq, AlmType_Current, AlmType_Power and AlmType_IO, for a  *)
(* set of calls: a function from events to the value each is judged by.    *)
(* Only a level different from the last one has an effect, and 0x20.       *)
Changed(calls) ==
  {e \in DOMAIN calls : calls[e] \in Levels /\ calls[e] # LAlmState[e]}
Missing(calls) == {e \in DOMAIN calls : calls[e] = "Absent"}

(* AlmComp's state is not the judged level but gRTAlmRecord[RTAlmIndex]'s  *)
(* type, read after that record was filled: the judged level, unless the   *)
(* HMI's Alm_RecordClear came in between and moved RTAlmIndex to a record  *)
(* of any earlier alarm.  An alarm that ends passes the constant normal.   *)
WindowTypes == {v \in Levels \ {"Normal"} : \E e \in Events : v \in ReadingsOf(e)}
ReadBack(v) == IF v = "Normal" THEN {v} ELSE {v} \cup WindowTypes

KeepStates(calls) ==
  \E seen \in [Changed(calls) -> Levels] :
    /\ \A e \in Changed(calls) : seen[e] \in ReadBack(calls[e])
    /\ LAlmState' = [e \in Events |-> IF e \in Changed(calls) THEN seen[e]
                                      ELSE LAlmState[e]]
    /\ crossed' = (crossed \ Changed(calls))
                    \cup {e \in Changed(calls) : seen[e] # calls[e]}

(* Mutant of JudgeOnly: a missing input reports "normal" instead of 0x20.  *)
JudgeAbsentAsNormal(calls) ==
  /\ KeepStates(calls)
  /\ msg' = [c \in Cells |->
       IF EventOf(c) \in Changed(calls) THEN calls[EventOf(c)]
       ELSE IF \E e \in Missing(calls) : AbsentCell(e) = c THEN "Normal"
       ELSE msg[c]]

(* gAlmMessage gets the judged level itself.                               *)
JudgeOnly(calls) ==
  /\ KeepStates(calls)
  /\ msg' = [c \in Cells |->
       IF EventOf(c) \in Changed(calls)
       THEN calls[EventOf(c)]
       ELSE IF \E e \in Missing(calls) : AbsentCell(e) = c
       THEN "Absent"
       ELSE msg[c]]

Judge(calls) ==
  /\ JudgeOnly(calls)
  /\ lamp' = IF \E e \in Changed(calls) : calls[e] # "Normal" THEN "on" ELSE lamp

(* Alm_BusState's calls: per mode, which of the two bus switches alarm on  *)
(* their own, which are reported absent, and when both must be open.       *)
BothOpen ==
  IF {eAlmEvent_AQF, eAlmEvent_BQF} \subseteq Switches
     /\ reading[eAlmEvent_AQF] = IOTrip /\ reading[eAlmEvent_BQF] = IOTrip
  THEN IOTrip ELSE "Normal"

BusStateCalls ==
  LET qf(e) == IF setup.mode = "S" THEN reading[e]
               ELSE IF e = eAlmEvent_BQF THEN "Absent"
               ELSE IF setup.mode = "D" THEN reading[e] ELSE BothOpen
      spd(e) == IF setup.bSPD = 1 THEN reading[e] ELSE "Absent"
      spdEvents == {eAlmEvent_ASPD} \cup
                   (IF (setup.bSPD = 1) <=> (setup.mode \in {"S", "Y"})
                    THEN {eAlmEvent_BSPD} ELSE {})
  IN [e \in Switches \cap ({eAlmEvent_AQF, eAlmEvent_BQF} \cup spdEvents) |->
        IF e \in {eAlmEvent_AQF, eAlmEvent_BQF} THEN qf(e) ELSE spd(e)]

(* Alm_BusbarVariable(Num) and Alm_BranchState.                            *)
BusbarCalls(num) == [e \in {a \in Analog : a \div 10 = num} |-> reading[e]]
BranchCalls ==
  [e \in BranchEvents |-> IF setup.bQF = 1 THEN reading[e] ELSE "Absent"]

Alm_BusState ==
  /\ pos = "BusState"
  /\ Judge(BusStateCalls)
  /\ pos' = "BusA"
  /\ UNCHANGED <<setup, reading, steady>>

(* Modes D and H have no second bus to judge.                              *)
Alm_BusA ==
  /\ pos = "BusA"
  /\ Judge(BusbarCalls(0))
  /\ pos' = IF setup.mode \in {"D", "H"} THEN "Branch" ELSE "BusB"
  /\ UNCHANGED <<setup, reading, steady>>

Alm_BusB ==
  /\ pos = "BusB"
  /\ Judge(BusbarCalls(1))
  /\ pos' = "Branch"
  /\ UNCHANGED <<setup, reading, steady>>

Alm_BranchState ==
  /\ pos = "Branch"
  /\ Judge(BranchCalls)
  /\ pos' = "Lamp"
  /\ UNCHANGED <<setup, reading, steady>>

(* Mutant of LampCheck: only the bus cells are looked at.                  *)
LampCheckBusOnly ==
  /\ pos = "Lamp"
  /\ lamp' = IF \A c \in 0 .. 19 : msg[c] = "Normal" THEN "off" ELSE lamp
  /\ pos' = "BusState"
  /\ UNCHANGED <<setup, reading, LAlmState, msg, crossed, steady>>

(* Mutant of LampCheck: lamp and buzzer are never switched off.            *)
LampCheckKeepsOn ==
  /\ pos = "Lamp"
  /\ lamp' = lamp
  /\ pos' = "BusState"
  /\ UNCHANGED <<setup, reading, LAlmState, msg, crossed, steady>>

(* The end of Alm_AllHandler: any nonzero cell keeps lamp and buzzer as    *)
(* they are.                                                               *)
LampCheck ==
  /\ pos = "Lamp"
  /\ lamp' = IF \A c \in MessageCells : msg[c] = "Normal" THEN "off" ELSE lamp
  /\ pos' = "BusState"
  /\ UNCHANGED <<setup, reading, LAlmState, msg, crossed, steady>>

Scan == Alm_BusState \/ Alm_BusA \/ Alm_BusB \/ Alm_BranchState \/ LampCheck

-----------------------------------------------------------------------------
(* The Data task itself refreshes the bus readings before a scan; the SUB  *)
(* task, of higher priority, changes branch readings at any time, and the  *)
(* HMI task (System_ConS page), of the highest, the setup.                 *)
Acquire ==
  /\ \E e \in Events : \E v \in ReadingsOf(e) :
       /\ e \in BranchEvents \/ pos = "BusState"
       /\ reading' = [reading EXCEPT ![e] = v]
  /\ UNCHANGED <<setup, LAlmState, msg, lamp, pos, crossed>>
  /\ steady' = (steady /\ Complete')

SetSetup ==
  /\ Reconfigurable
  /\ setup' \in Setups
  /\ UNCHANGED <<reading, LAlmState, msg, lamp, pos, crossed>>
  /\ steady' = (steady /\ Complete')

Next == Scan \/ Acquire \/ SetSetup

Spec == Init /\ [][Next]_vars
FairSpec == Spec /\ WF_vars(Scan)

-----------------------------------------------------------------------------
TypeOK ==
  /\ setup \in Setups
  /\ reading \in [Events -> Readings]
  /\ LAlmState \in [Events -> Levels]
  /\ msg \in [Cells -> Levels \cup {"Absent"}]
  /\ lamp \in {"on", "off"}
  /\ pos \in {"BusState", "BusA", "BusB", "Branch", "Lamp"}
  /\ crossed \subseteq Events /\ steady \in BOOLEAN

(* An alarm the scan holds as present is never reported to the host as     *)
(* normal, whatever setup changes make the scan skip or report as absent   *)
(* (LAlmState and gAlmMessage are written at different places).            *)
MsgCoversAlarm ==
  \A e \in Events : LAlmState[e] # "Normal" => msg[Cell(e)] # "Normal"

(* Lamp and buzzer stay on as long as some alarm is present, though the    *)
(* end of another one, or a change of setup, runs the same switching off.  *)
LampOnWhileAlarm ==
  (\E e \in Events : LAlmState[e] # "Normal") => lamp = "on"

(* On a unit that was never less than complete, after every scan the host  *)
(* reads for each bus event whether it alarms, and the level the scan      *)
(* found ("upload all alarm states, normal ones included", the head note   *)
(* of app_Alarm.c).  Not the level of an event whose LAlmState a clear     *)
(* made another alarm's: when its value moves to just that level, the scan *)
(* finds nothing new.                                                      *)
IndicationCurrent ==
  steady /\ pos = "Lamp" =>
    \A e \in Analog \cup Switches :
      /\ msg[Cell(e)] = "Normal" <=> reading[e] = "Normal"
      /\ e \notin crossed => msg[Cell(e)] = reading[e]

(* On a unit that stays a full one, when no input is in alarm any more,    *)
(* lamp and buzzer go off for good.                                        *)
NothingAlarms == \A e \in Events : reading[e] \in {"Normal", "Unused", "Absent"}
LampGoesOff == []FullUnit => (<>[]NothingAlarms => <>[](lamp = "off"))

-----------------------------------------------------------------------------
(* app_Alarm.c:126 says of every unit what LampGoesOff says of a full one: *)
(* "switch the alarm lamp and the buzzer off when there is no alarm".      *)
LampGoesOffAnywhere == <>[]NothingAlarms => <>[](lamp = "off")
=============================================================================
