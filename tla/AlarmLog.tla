------------------------------ MODULE AlarmLog ------------------------------
(***************************************************************************)
(* The history alarm log of APP/app_Alarm.c: a ring of PTAlm_Item records  *)
(* in FRAM, the pair gPTAlmRelate (FullFlag, AlmIndex) that says which     *)
(* slots are in use, kept in RAM and copied to FRAM, and the two tasks     *)
(* that touch it.                                                          *)
(*                                                                         *)
(* The Data task generates and terminates records (AlmComp).  Its FRAM     *)
(* transfers are critical sections; everything between them can be         *)
(* preempted by the HMI task, which runs at a higher priority and calls    *)
(* Alm_RecordClear: the clear is therefore one step of the model and the   *)
(* generate and terminate paths are cut where a clear makes a difference.  *)
(* Power may fail between any two steps and, byte by byte, inside a FRAM   *)
(* transfer.                                                               *)
(***************************************************************************)
EXTENDS Integers, FiniteSets

CONSTANTS
  PTAlm_Item,      \* records the ring holds (500 in app_Alarm.h)
  ByteBase,        \* values of one byte of the 16-bit AlmIndex (256)
  VoltEvents,      \* events judged by AlmType_VoltFreq
  CurrEvents,      \* events judged by AlmType_Current
  TripEvents,      \* events with one alarm state (AlmType_Power, AlmType_IO)
  FactoryRelates,  \* what the relate bytes of an unused FRAM may hold
  FactoryTails,    \* what the FRAM may hold just behind the last slot
  PowerMayFail     \* whether this instance lets the power fail

Events == VoltEvents \cup CurrEvents \cup TripEvents
AlmTypes == {"Normal", "Under", "Over", "OverSec"}
NoEvent == "none"

(* AlmRecordTypeDef, reduced to the fields the log's logic reads.  IOTrip  *)
(* is the value of Under.  Unwritten bytes are zeros: they read as event   *)
(* 0, which is the bus voltage alarm eAlmEvent_AUa, with a flag that is    *)
(* neither GenerateFlag (0x55) nor TerminateFlag (0xFF): "Blank".          *)
eAlmEvent_AUa == "AUa"
Flags == {"Blank", "Generate", "Terminate"}
Records == [ev : Events, type : AlmTypes, flag : Flags]
Blank == [ev |-> eAlmEvent_AUa, type |-> "Normal", flag |-> "Blank"]

Slots == 0 .. PTAlm_Item - 1
Relates == [full : {0, 1}, idx : 0 .. PTAlm_Item]
Empty == [full |-> 0, idx |-> 0]

ASSUME RingAssumption == PTAlm_Item \in Nat \ {0} /\ ByteBase \in Nat \ {0}
ASSUME EventAssumption == NoEvent \notin Events /\ eAlmEvent_AUa \in VoltEvents
ASSUME FactoryAssumption ==
  /\ FactoryRelates \subseteq Relates
  /\ FactoryTails \subseteq Records
  /\ PowerMayFail \in BOOLEAN

VARIABLES
  slot,       \* FRAM: the records; slot PTAlm_Item is the unused bytes behind it
  fmInit,     \* FRAM: the 0x55AA initialised flag
  fmRelate,   \* FRAM: the saved copy of gPTAlmRelate
  full, idx,  \* RAM: gPTAlmRelate.FullFlag and .AlmIndex
  rec,        \* RAM: the scratch record gPTAlmRecord
  LAlmState,  \* RAM: the last alarm state of each event
  pc,         \* where the Data task is inside AlmComp, or the boot stage
  ev, new,    \* AlmComp's arguments AlmEvent and CState
  addr,       \* the slot behind usFM_OperateAddr
  tmp,        \* the register AlmIndex + 1 is computed in
  fresh,      \* history: slots written since the log was last emptied
  cut,        \* history: that emptying came in the middle of Alm_Generate
  known       \* history: the events whose alarm came up since the last reset

fram == <<slot, fmInit, fmRelate>>
args == <<ev, new>>
ghosts == <<fresh, cut, known>>
vars == <<slot, fmInit, fmRelate, full, idx, rec, LAlmState, pc, ev, new,
          addr, tmp, fresh, cut, known>>

Running == pc \notin {"off", "defaults"}

(* The states the judging function of an event can report.                 *)
AlarmStates(e) ==
  {"Normal"} \cup (IF e \in VoltEvents THEN {"Under", "Over"}
                   ELSE IF e \in CurrEvents THEN {"Over", "OverSec"}
                   ELSE {"Under"})

(* A 16-bit or structure write that stops part-way: FullFlag is written    *)
(* first, then the low and the high byte of AlmIndex.                      *)
TornIdx(old, val) == (old - (old % ByteBase)) + (val % ByteBase)
TornRelates(old, val) ==
  {old, [full |-> val.full, idx |-> old.idx],
   [full |-> val.full, idx |-> TornIdx(old.idx, val.idx)]}

(* A record write that stops part-way: the flag precedes the event, the    *)
(* type comes last.                                                        *)
TornRecords(old, val) ==
  {old, [ev |-> old.ev, type |-> old.type, flag |-> val.flag],
   [ev |-> val.ev, type |-> old.type, flag |-> val.flag]}

(* The slots a reader of the log takes to be records.                      *)
Visible(f, n) == IF f = 1 THEN Slots ELSE {i \in Slots : i < n}

-----------------------------------------------------------------------------
Init ==
  /\ \E tail \in FactoryTails :
       slot = [i \in 0 .. PTAlm_Item |-> IF i = PTAlm_Item THEN tail ELSE Blank]
  /\ fmInit = FALSE
  /\ fmRelate \in FactoryRelates
  /\ full = 0 /\ idx = 0
  /\ rec = Blank
  /\ LAlmState = [e \in Events |-> "Normal"]
  /\ pc = "off"
  /\ ev = NoEvent /\ new = "Normal"
  /\ addr = 0 /\ tmp = 0
  /\ fresh = {} /\ cut = FALSE /\ known = {}

(* AlmRelate_Init finds the flag and loads the saved pair ...              *)
BootLoad ==
  /\ pc = "off" /\ fmInit
  /\ full' = fmRelate.full /\ idx' = fmRelate.idx
  /\ pc' = "idle"
  /\ UNCHANGED <<fram, rec, LAlmState, args, addr, tmp, ghosts>>

(* ... or writes the flag first and the default pair after it.             *)
BootSetFlag ==
  /\ pc = "off" /\ ~fmInit
  /\ fmInit' = TRUE
  /\ pc' = "defaults"
  /\ UNCHANGED <<slot, fmRelate, full, idx, rec, LAlmState, args, addr, tmp,
                 ghosts>>

BootDefaults ==
  /\ pc = "defaults"
  /\ full' = 0 /\ idx' = 0
  /\ fmRelate' = Empty
  /\ pc' = "idle"
  /\ UNCHANGED <<slot, fmInit, rec, LAlmState, args, addr, tmp, ghosts>>

(* A judging function sees event e in state s, different from its last     *)
(* state.  AlmType_VoltFreq leaves gPTAlmRecord.AlmType alone when the     *)
(* value is over the upper limit.  AlmComp's argument CState is read back  *)
(* from the real-time window: s, unless Alm_RecordClear came since the     *)
(* window's record was filled.  Then the log is empty, too, and CState may *)
(* be the type of any alarm the window held; it is never "Normal", which   *)
(* AlarmStaysAlarm of module RtWindow says.                                *)
WindowTypes == (UNION {AlarmStates(x) : x \in Events}) \ {"Normal"}
ReadBack(s) == {s} \cup (IF full = 0 /\ idx = 0 THEN WindowTypes ELSE {})

DetectAlarm(e, s) ==
  /\ pc = "idle"
  /\ s # LAlmState[e] /\ s # "Normal"
  /\ ev' = e /\ new' \in ReadBack(s)
  /\ rec' = [ev |-> e, flag |-> "Generate",
             type |-> IF e \in VoltEvents /\ s = "Over" THEN rec.type ELSE s]
  /\ addr' = idx
  /\ known' = known \cup {e}
  /\ pc' = "write"
  /\ UNCHANGED <<fram, full, idx, LAlmState, tmp, fresh, cut>>

DetectNormal(e) ==
  /\ pc = "idle"
  /\ LAlmState[e] # "Normal"
  /\ ev' = e /\ new' = "Normal"
  /\ pc' = IF full = 1 THEN "lowFull" ELSE "low"
  /\ UNCHANGED <<fram, full, idx, rec, LAlmState, addr, tmp, ghosts>>

-----------------------------------------------------------------------------
(* Alm_Generate, from its first critical section on.                       *)
GenWrite ==
  /\ pc = "write"
  /\ slot' = [slot EXCEPT ![addr] = rec]
  /\ fresh' = fresh \cup {addr}
  /\ pc' = "load"
  /\ UNCHANGED <<fmInit, fmRelate, full, idx, rec, LAlmState, args, addr, tmp,
                 cut, known>>

(* AlmIndex++ is a load, an add and a store.                               *)
GenLoad ==
  /\ pc = "load"
  /\ tmp' = idx + 1
  /\ pc' = "store"
  /\ UNCHANGED <<fram, full, idx, rec, LAlmState, args, addr, ghosts>>

GenStore ==
  /\ pc = "store"
  /\ idx' = tmp
  /\ pc' = "wrap"
  /\ UNCHANGED <<fram, full, rec, LAlmState, args, addr, tmp, ghosts>>

(* Variants with a slip in them: no wrap, a wrap one record late, a wrap   *)
(* one record early.                                                       *)
WrapAt(limit) ==
  /\ pc = "wrap"
  /\ IF tmp >= limit
     THEN full' = 1 /\ pc' = "zero"
     ELSE full' = full /\ pc' = "persist"
  /\ UNCHANGED <<fram, idx, rec, LAlmState, args, addr, tmp, ghosts>>
GenWrapNever == WrapAt(PTAlm_Item + 2)
GenWrapLate == WrapAt(PTAlm_Item + 1)
GenWrapEarly == WrapAt(PTAlm_Item - 1)

(* The comparison may use the register or read AlmIndex again: both builds *)
(* are legal.                                                              *)
GenWrap ==
  /\ pc = "wrap"
  /\ \E seen \in {tmp, idx} :
       IF seen >= PTAlm_Item
       THEN full' = 1 /\ pc' = "zero"
       ELSE full' = full /\ pc' = "persist"
  /\ UNCHANGED <<fram, idx, rec, LAlmState, args, addr, tmp, ghosts>>

GenZero ==
  /\ pc = "zero"
  /\ idx' = 0
  /\ pc' = "persist"
  /\ UNCHANGED <<fram, full, rec, LAlmState, args, addr, tmp, ghosts>>

(* The second critical section, and the end of AlmComp.                    *)
GenPersist ==
  /\ pc = "persist"
  /\ fmRelate' = [full |-> full, idx |-> idx]
  /\ LAlmState' = [LAlmState EXCEPT ![ev] = new]
  /\ pc' = "idle"
  /\ UNCHANGED <<slot, fmInit, full, idx, rec, args, addr, tmp, ghosts>>

-----------------------------------------------------------------------------
(* Alm_Terminate looks for the newest record of the event: first below     *)
(* AlmIndex, then, when FullFlag was set on entry, from index PTAlm_Item   *)
(* down to AlmIndex.  A search stops at its highest match.  No step of the *)
(* HMI task changes a record, so a whole search is one step.               *)
MatchesAnyEvent(S) == {i \in S : slot[i].flag = "Generate"}
Matches(S) == {i \in S : slot[i].ev = ev}

Below == {i \in Slots : i < idx}
NotBelowShort == idx + 1 .. PTAlm_Item
NotBelow == idx .. PTAlm_Item

HitOldest(S) ==
  \E i \in Matches(S) :
    /\ \A j \in Matches(S) : i <= j
    /\ addr' = i
    /\ rec' = slot[i]

Hit(S) ==
  \E i \in Matches(S) :
    /\ \A j \in Matches(S) : j <= i
    /\ addr' = i
    /\ rec' = slot[i]

Miss(S) ==
  /\ Matches(S) = {}
  /\ addr' = addr
  /\ \/ S = {} /\ rec' = rec
     \/ \E i \in S : (\A j \in S : i <= j) /\ rec' = slot[i]

AlarmEnded ==
  /\ LAlmState' = [LAlmState EXCEPT ![ev] = new]
  /\ pc' = "idle"

ScanLow ==
  /\ pc \in {"low", "lowFull"}
  /\ \/ Hit(Below) /\ pc' = "mark" /\ UNCHANGED LAlmState
     \/ Miss(Below) /\ pc = "lowFull" /\ pc' = "high" /\ UNCHANGED LAlmState
     \/ Miss(Below) /\ pc = "low" /\ AlarmEnded
  /\ UNCHANGED <<fram, full, idx, args, tmp, ghosts>>

ScanHigh ==
  /\ pc = "high"
  /\ \/ Hit(NotBelow) /\ pc' = "mark" /\ UNCHANGED LAlmState
     \/ Miss(NotBelow) /\ AlarmEnded
  /\ UNCHANGED <<fram, full, idx, args, tmp, ghosts>>

(* Seven bytes are written: the terminate time and, last, the flag.        *)
Closed(r) == [ev |-> r.ev, type |-> r.type, flag |-> "Terminate"]

TermMark ==
  /\ pc = "mark"
  /\ slot' = [slot EXCEPT ![addr] = Closed(slot[addr])]
  /\ AlarmEnded
  /\ UNCHANGED <<fmInit, fmRelate, full, idx, rec, args, addr, tmp, ghosts>>

-----------------------------------------------------------------------------
(* Variants: a clear that is not saved, and one that forgets FullFlag.      *)
ClearUnsaved ==
  /\ Running
  /\ full' = 0 /\ idx' = 0
  /\ fresh' = {}
  /\ cut' = (pc \in {"write", "load", "store", "wrap"})
  /\ UNCHANGED <<fram, rec, LAlmState, pc, args, addr, tmp, known>>
ClearKeepsFull ==
  /\ Running
  /\ idx' = 0
  /\ fmRelate' = [full |-> full, idx |-> 0]
  /\ fresh' = {}
  /\ cut' = (pc \in {"write", "load", "store", "wrap"})
  /\ UNCHANGED <<slot, fmInit, full, rec, LAlmState, pc, args, addr, tmp, known>>

(* Alm_RecordClear, called by the HMI task between any two steps.          *)
RecordClear ==
  /\ Running
  /\ full' = 0 /\ idx' = 0
  /\ fmRelate' = Empty
  /\ fresh' = {}
  /\ cut' = (pc \in {"write", "load", "store", "wrap"})
  /\ UNCHANGED <<slot, fmInit, rec, LAlmState, pc, args, addr, tmp, known>>

(* RAM is zero after a reset.                                              *)
RamLost ==
  /\ pc' = "off"
  /\ full' = 0 /\ idx' = 0
  /\ rec' = Blank
  /\ LAlmState' = [e \in Events |-> "Normal"]
  /\ ev' = NoEvent /\ new' = "Normal"
  /\ addr' = 0 /\ tmp' = 0
  /\ known' = {}

(* The power fails between two steps, or inside the FRAM transfer the next *)
(* step would make.  A terminate mark is all or nothing: its flag is last. *)
PowerFail ==
  /\ PowerMayFail
  /\ pc # "off"
  /\ slot' \in IF pc = "write"
               THEN {[slot EXCEPT ![addr] = r] : r \in TornRecords(slot[addr], rec)}
               ELSE {slot}
  /\ fmRelate' \in IF pc = "persist"
                   THEN TornRelates(fmRelate, [full |-> full, idx |-> idx])
                   ELSE IF pc = "defaults" THEN TornRelates(fmRelate, Empty)
                   ELSE {fmRelate}
  /\ RamLost
  /\ UNCHANGED <<fmInit, fresh, cut>>

(* The power fails inside the FRAM transfer of Alm_RecordClear.            *)
PowerFailInClear ==
  /\ PowerMayFail
  /\ Running
  /\ fmRelate' \in TornRelates(fmRelate, Empty)
  /\ fresh' = {}
  /\ cut' = TRUE
  /\ RamLost
  /\ UNCHANGED <<slot, fmInit>>

Generate == GenWrite \/ GenLoad \/ GenStore \/ GenWrap \/ GenZero \/ GenPersist
Terminate == ScanLow \/ ScanHigh \/ TermMark
Boot == BootLoad \/ BootSetFlag \/ BootDefaults

Next ==
  \/ Boot
  \/ \E e \in Events : \E s \in AlarmStates(e) : DetectAlarm(e, s)
  \/ \E e \in Events : DetectNormal(e)
  \/ Generate
  \/ Terminate
  \/ RecordClear
  \/ PowerFail
  \/ PowerFailInClear

Spec == Init /\ [][Next]_vars
-----------------------------------------------------------------------------
TypeOK ==
  /\ slot \in [0 .. PTAlm_Item -> Records]
  /\ fmInit \in BOOLEAN
  /\ fmRelate \in Relates
  /\ full \in {0, 1}
  /\ idx \in 0 .. PTAlm_Item + 1
  /\ rec \in Records
  /\ LAlmState \in [Events -> AlmTypes]
  /\ pc \in {"off", "defaults", "idle", "write", "load", "store", "wrap",
             "zero", "persist", "low", "lowFull", "high", "mark"}
  /\ ev \in Events \cup {NoEvent}
  /\ new \in AlmTypes
  /\ addr \in 0 .. PTAlm_Item
  /\ tmp \in 0 .. PTAlm_Item + 1
  /\ fresh \subseteq 0 .. PTAlm_Item
  /\ cut \in BOOLEAN
  /\ known \subseteq Events

Written(i) == slot[i].flag # "Blank"

(* A reader that trusts FullFlag and AlmIndex, before or after a power     *)
(* failure, never gets a slot nobody wrote, whatever clear and power       *)
(* failure interrupt in Alm_Generate.                                      *)
RingWritten ==
  /\ \A i \in Visible(full, idx) : Written(i)
  /\ \A i \in Visible(fmRelate.full, fmRelate.idx) : Written(i)

(* Alm_Generate never addresses a byte behind the ring.                    *)
WriteInRing == pc = "write" => addr \in Slots

(* Outside the few instructions between AlmIndex++ and the second critical *)
(* section the FRAM holds the pair the RAM holds: a power failure costs at *)
(* most the record being generated.                                        *)
Durable ==
  pc \in {"idle", "write", "load", "store", "low", "lowFull", "high", "mark"}
    => fmRelate = [full |-> full, idx |-> idx]

(* After Alm_RecordClear no record from before it can be read, now or      *)
(* after a power failure, provided the clear did not land between the      *)
(* first write of Alm_Generate and the wrap of AlmIndex, or lose its own   *)
(* write to a power failure.                                               *)
ClearedStaysCleared ==
  ~cut => /\ Visible(full, idx) \subseteq fresh
          /\ Visible(fmRelate.full, fmRelate.idx) \subseteq fresh

(* The visible records of event e, and the newest of them: the first one a *)
(* walk back from AlmIndex meets.                                          *)
RecordsOf(e) == {i \in Visible(full, idx) : slot[i].ev = e}
Age(i) == (idx - 1 - i) % PTAlm_Item
Newest(e) == CHOOSE i \in RecordsOf(e) : \A j \in RecordsOf(e) : Age(i) <= Age(j)

(* While an alarm is active the newest record of its event is open: no     *)
(* other event's end, no re-use of a slot and no reset closes it.          *)
ActiveIsOpen ==
  pc = "idle" /\ ~cut =>
    \A e \in Events :
      LAlmState[e] # "Normal" /\ RecordsOf(e) # {}
        => slot[Newest(e)].flag = "Generate"

(* When an alarm has ended the newest record of its event is closed.  Of   *)
(* an alarm that was up at a reset the unit knows no more: its record      *)
(* stays open until the event's next alarm.  And on a full ring the search *)
(* above AlmIndex starts behind the ring: the event those bytes read as    *)
(* (AUa when they are zeros) may have them marked in place of its record.  *)
EndedIsClosed ==
  pc = "idle" /\ ~cut =>
    \A e \in known :
      /\ LAlmState[e] = "Normal" /\ RecordsOf(e) # {}
      /\ full = 1 => e # slot[PTAlm_Item].ev
      => slot[Newest(e)].flag = "Terminate"

(* The only visible record a step ever closes is the newest one of the     *)
(* event that ended, wherever AlmIndex stood when the search began and     *)
(* whatever the HMI task did during it.                                    *)
ClosesNewest ==
  [][\A i \in Visible(full, idx) :
       slot[i].flag # "Terminate" /\ slot'[i].flag = "Terminate"
         => slot[i].ev = ev /\ i = Newest(ev)]_vars

-----------------------------------------------------------------------------
(* What the comments of the code say and the code does not do.             *)

(* app_Alarm.c:946 "clear past time alarm record": a clear empties the     *)
(* log, so nothing older than the last clear is ever shown.                *)
ClearEmptiesLog == Visible(full, idx) \subseteq fresh
=============================================================================
