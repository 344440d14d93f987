------------------------------ MODULE RtWindow ------------------------------
(***************************************************************************)
(* The window of the last alarms of APP/app_Alarm.c, gRTAlmRecord and      *)
(* RTAlmIndex, which the HMI lists (NowAlarm).  The Data task shifts it    *)
(* when it is full, fills the next record field by field, reads its type   *)
(* again for AlmComp and counts it last; every access reads the volatile   *)
(* RTAlmIndex again.  Alm_RecordClear of the HMI task sets RTAlmIndex to 0 *)
(* between any two of these steps.  The history log is AlarmLog.           *)
(***************************************************************************)
EXTENDS Naturals, Sequences

CONSTANTS
  Events,      \* what raises alarms
  AlmTypes,    \* kinds of alarm
  Normal,      \* no alarm
  RTAlm_Item   \* records of the window (10)

ASSUME WindowAssumption == RTAlm_Item \in Nat \ {0} /\ Normal \notin AlmTypes

Places == 0 .. RTAlm_Item - 1
Records == [ev : Events, type : AlmTypes \cup {Normal},
            flag : {"Generate", "Terminate"}]

VARIABLES
  gRTAlmRecord, RTAlmIndex, LAlmState,
  pc,           \* the Data task inside a judge
  ev, new,      \* the event judged and its state
  CState,       \* AlmComp's argument
  tmp,          \* the register RTAlmIndex++ uses
  recent,       \* history: the last changes since the window was cleared
  cut           \* history: 1 if that clear cut into a change

args == <<ev, new, CState, tmp>>
vars == <<gRTAlmRecord, RTAlmIndex, LAlmState, pc, ev, new, CState, tmp, recent,
          cut>>

Init ==
  /\ \E e \in Events :
       /\ ev = e
       /\ gRTAlmRecord = [i \in Places |->
            [ev |-> e, type |-> Normal, flag |-> "Generate"]]
  /\ RTAlmIndex = 0
  /\ LAlmState = [e \in Events |-> Normal]
  /\ pc = "idle" /\ new = Normal /\ CState = Normal /\ tmp = 0
  /\ recent = <<>> /\ cut = 0

-----------------------------------------------------------------------------
(* Variant: the window is shifted one record late.                         *)
JudgeLate(e, s) ==
  /\ pc = "idle" /\ s # LAlmState[e]
  /\ ev' = e /\ new' = s
  /\ pc' = IF RTAlmIndex > RTAlm_Item THEN "shift" ELSE "type"
  /\ UNCHANGED <<gRTAlmRecord, RTAlmIndex, LAlmState, CState, tmp, recent, cut>>

(* A judge finds event e in state s, which is not its last one.            *)
Judge(e, s) ==
  /\ pc = "idle" /\ s # LAlmState[e]
  /\ ev' = e /\ new' = s
  /\ pc' = IF RTAlmIndex >= RTAlm_Item THEN "shift" ELSE "type"
  /\ UNCHANGED <<gRTAlmRecord, RTAlmIndex, LAlmState, CState, tmp, recent, cut>>

(* Variant: the oldest record stays and the second is dropped.             *)
ShiftFromSecond ==
  /\ pc = "shift" /\ pc' = "last"
  /\ gRTAlmRecord' = [i \in Places |->
        IF i = 0 \/ i = RTAlm_Item - 1 THEN gRTAlmRecord[i]
        ELSE gRTAlmRecord[i + 1]]
  /\ UNCHANGED <<RTAlmIndex, LAlmState, args, recent, cut>>

Shift ==
  /\ pc = "shift" /\ pc' = "last"
  /\ gRTAlmRecord' = [i \in Places |->
        IF i = RTAlm_Item - 1 THEN gRTAlmRecord[i] ELSE gRTAlmRecord[i + 1]]
  /\ UNCHANGED <<RTAlmIndex, LAlmState, args, recent, cut>>

LastPlace ==
  /\ pc = "last" /\ pc' = "type"
  /\ RTAlmIndex' = RTAlm_Item - 1
  /\ UNCHANGED <<gRTAlmRecord, LAlmState, args, recent, cut>>

(* Variant: the record of an alarm that ends says "normal".                *)
NewState == new

(* The record of an alarm that ends keeps the type it had.                 *)
TypeOfChange == IF new = Normal THEN LAlmState[ev] ELSE new

FillType ==
  /\ pc = "type" /\ pc' = "event"
  /\ gRTAlmRecord' = [gRTAlmRecord EXCEPT ![RTAlmIndex].type = TypeOfChange]
  /\ UNCHANGED <<RTAlmIndex, LAlmState, args, recent, cut>>

FillEvent ==
  /\ pc = "event" /\ pc' = "comp"
  /\ gRTAlmRecord' = [gRTAlmRecord EXCEPT ![RTAlmIndex].ev = ev]
  /\ UNCHANGED <<RTAlmIndex, LAlmState, args, recent, cut>>

(* The call of AlmComp: an alarm's state is read back from the record.     *)
Compare ==
  /\ pc = "comp" /\ pc' = "mark"
  /\ CState' = IF new = Normal THEN Normal ELSE gRTAlmRecord[RTAlmIndex].type
  /\ UNCHANGED <<gRTAlmRecord, RTAlmIndex, LAlmState, ev, new, tmp, recent, cut>>

FlagOf(s) == IF s = Normal THEN "Terminate" ELSE "Generate"

(* The end of Alm_Generate or Alm_Terminate: flag and time.                *)
Mark ==
  /\ pc = "mark" /\ pc' = "load"
  /\ gRTAlmRecord' = [gRTAlmRecord EXCEPT ![RTAlmIndex].flag = FlagOf(CState)]
  /\ UNCHANGED <<RTAlmIndex, LAlmState, args, recent, cut>>

(* RTAlmIndex++ is a load and a store, the new state is kept after it.     *)
Load ==
  /\ pc = "load" /\ pc' = "store"
  /\ tmp' = RTAlmIndex + 1
  /\ UNCHANGED <<gRTAlmRecord, RTAlmIndex, LAlmState, ev, new, CState, recent,
                 cut>>

Latest(s) == IF Len(s) > RTAlm_Item THEN Tail(s) ELSE s

Store ==
  /\ pc = "store" /\ pc' = "idle"
  /\ RTAlmIndex' = tmp
  /\ LAlmState' = [LAlmState EXCEPT ![ev] = CState]
  /\ recent' = Latest(Append(recent,
        [ev |-> ev, type |-> TypeOfChange, flag |-> FlagOf(new)]))
  /\ UNCHANGED <<gRTAlmRecord, args, cut>>

-----------------------------------------------------------------------------
(* Alm_RecordClear, of the HMI task.  It does no harm between two changes, *)
(* nor where the next step is the first to read RTAlmIndex.                *)
RecordClear ==
  /\ RTAlmIndex' = 0
  /\ recent' = <<>>
  /\ cut' = IF pc \in {"idle", "type"} THEN 0 ELSE 1
  /\ UNCHANGED <<gRTAlmRecord, LAlmState, pc, args>>

Next ==
  \/ \E e \in Events, s \in AlmTypes \cup {Normal} : Judge(e, s)
  \/ Shift \/ LastPlace \/ FillType \/ FillEvent \/ Compare \/ Mark
  \/ Load \/ Store
  \/ RecordClear

Spec == Init /\ [][Next]_vars
-----------------------------------------------------------------------------
(* Types; and no field is written behind the window, wherever a clear      *)
(* lands.                                                                  *)
TypeOK ==
  /\ gRTAlmRecord \in [Places -> Records]
  /\ RTAlmIndex \in 0 .. RTAlm_Item
  /\ LAlmState \in [Events -> AlmTypes \cup {Normal}]
  /\ pc \in {"idle", "shift", "last", "type", "event", "comp", "mark", "load",
             "store"}
  /\ ev \in Events /\ {new, CState} \subseteq AlmTypes \cup {Normal}
  /\ tmp \in 0 .. RTAlm_Item
  /\ recent \in Seq(Records) /\ Len(recent) <= RTAlm_Item
  /\ cut \in {0, 1}
  /\ pc \in {"type", "event", "comp", "mark", "load"} => RTAlmIndex < RTAlm_Item

(* Between two changes the HMI lists exactly the last changes since the    *)
(* window was cleared, in their order, as many as fit, unless that clear   *)
(* cut into a change.                                                      *)
WindowIsRecent ==
  pc = "idle" /\ cut = 0 =>
    /\ Len(recent) = RTAlmIndex
    /\ \A i \in 1 .. RTAlmIndex : gRTAlmRecord[i - 1] = recent[i]

(* The state AlmComp gets may be another alarm's when a clear moved        *)
(* RTAlmIndex since the record was filled, but an alarm that came up is    *)
(* never taken for one that ended (which would close its open record in    *)
(* the log) nor the reverse: the window holds no record of type "normal".  *)
AlarmStaysAlarm ==
  pc \in {"mark", "load", "store"} => (CState = Normal <=> new = Normal)
=============================================================================
