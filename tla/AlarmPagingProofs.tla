------------------------- MODULE AlarmPagingProofs -------------------------
(***************************************************************************)
(* Proofs about AlarmPaging for every ring size, byte width and set of     *)
(* events, with clears, resets and torn writes at any point.               *)
(***************************************************************************)
EXTENDS AlarmPaging, AlarmLogProofs

(* The host walks down from a slot below which everything was written, or  *)
(* around a full ring; an empty log stops it by the last flag.             *)
WalkInv ==
  /\ idx <= PTAlm_Item
  /\ noneFlag = 1 => lastFlag = 1
  /\ session # "none" /\ noneFlag = 0 =>
       \A i \in Slots : i <= sendIndex => Written(i)

HostInv == PagingTypeOK /\ WalkInv /\ HostReadsRecords

LogInv == TypeOK /\ IndexInv /\ RingInv

-----------------------------------------------------------------------------
(* A command leaves the log as it is.                                      *)
LEMMA PagingStepIsLogStep == [PagingNext]_pagingVars => [Next]_vars
  BY Zenon DEF PagingNext, LogStep, AskNewest, AskNext, AskAgain, pagingVars

(* No step of the log, clear or power failure makes a slot blank.          *)
LEMMA WrittenStays ==
  ASSUME LogInv, Next
  PROVE  \A i \in 0 .. PTAlm_Item : Written(i) => Written(i)'
<1> USE DEF LogInv
<1>1. CASE GenWrite
  BY <1>1 DEF GenWrite, TypeOK, Written, RingInv
<1>2. CASE TermMark
  BY <1>2 DEF TermMark, Closed, TypeOK, Written
<1>3. CASE PowerFail
  <2>1. CASE pc = "write"
    <3>1. \A r \in TornRecords(slot[addr], rec) :
            slot[addr].flag # "Blank" => r.flag # "Blank"
      BY <2>1 DEF TornRecords, RingInv
    <3> QED
      BY <1>3, <2>1, <3>1 DEF PowerFail, TypeOK, Written
  <2> QED
    BY <1>3, <2>1 DEF PowerFail, Written
<1>4. CASE slot' = slot
  BY <1>4 DEF Written
<1>5. GenWrite \/ TermMark \/ PowerFail \/ slot' = slot
  BY Zenon DEF Next, Boot, Generate, Terminate, BootLoad, BootSetFlag,
     BootDefaults, DetectAlarm, DetectNormal, GenLoad, GenStore, GenWrap, GenZero,
     GenPersist, ScanLow, ScanHigh, RecordClear, PowerFailInClear, fram
<1> QED
  BY <1>1, <1>2, <1>3, <1>4, <1>5

(* Before the wrap AlmIndex stands at most one past the addressed slot.    *)
LEMMA WrapIndex == LogInv /\ pc = "wrap" => idx <= PTAlm_Item
  BY RingAssumption DEF LogInv, TypeOK, IndexInv, RingInv, Slots

(* AlmIndex never passes the end of the ring.                              *)
LEMMA IndexStays ==
  ASSUME LogInv, LogInv', idx <= PTAlm_Item, Next
  PROVE  idx' <= PTAlm_Item
<1> USE RingAssumption DEF LogInv, Slots
<1>1. CASE pc' \notin {"wrap", "zero"}
  BY <1>1 DEF RingInv
<1>2. CASE pc' = "wrap"
  <2>1. (LogInv /\ pc = "wrap" => idx <= PTAlm_Item)'
    BY WrapIndex, PTL
  <2> QED
    BY <1>2, <2>1
<1>3. CASE pc' = "zero"
  <2>1. idx' = idx \/ idx' = 0
    BY <1>3, Zenon DEF Next, Boot, Generate, Terminate, BootLoad, BootSetFlag,
       BootDefaults, DetectAlarm, DetectNormal, GenWrite, GenLoad, GenStore, GenWrap,
       GenZero, GenPersist, ScanLow, ScanHigh, TermMark, RecordClear, PowerFail,
       PowerFailInClear, RamLost
  <2> QED
    BY <2>1
<1> QED
  BY <1>1, <1>2, <1>3

-----------------------------------------------------------------------------
LEMMA LogStepKeeps ==
  ASSUME LogInv, LogInv', HostInv, LogStep
  PROVE  HostInv'
<1> USE RingAssumption DEF HostInv
<1>1. \A i \in Slots : Written(i) => Written(i)'
  BY WrittenStays DEF LogStep, Slots
<1>2. idx' <= PTAlm_Item
  BY IndexStays DEF LogStep, WalkInv
<1>3. CASE pc' = "off"
  <2>1. Blank \in Records /\ NoReply \in [part : Parts, ev : Events \cup {NoEvent},
                                          type : AlmTypes]
    BY EventAssumption DEF Blank, Records, Events, Flags, AlmTypes, NoReply, Parts
  <2>2. PagingTypeOK'
    BY <1>3, <2>1 DEF LogStep, PagingTypeOK, Slots
  <2>3. WalkInv' /\ HostReadsRecords'
    BY <1>2, <1>3 DEF LogStep, WalkInv, HostReadsRecords
  <2> QED
    BY <2>2, <2>3
<1>4. CASE pc' # "off"
  <2>1. UNCHANGED <<statics, reply, session>> /\ due' \subseteq due
    BY <1>4 DEF LogStep
  <2>2. PagingTypeOK'
    BY <2>1 DEF statics, PagingTypeOK
  <2>3. WalkInv' /\ HostReadsRecords'
    BY <1>1, <1>2, <2>1 DEF statics, WalkInv, HostReadsRecords
  <2> QED
    BY <2>2, <2>3
<1> QED
  BY <1>3, <1>4

(* Reading a written slot.                                                 *)
LEMMA SendRecordKeeps ==
  ASSUME LogInv, sendIndex' \in Slots, Written(sendIndex'), SendRecord
  PROVE  /\ fPTAlmRecord' \in Records /\ fPTAlmRecord'.flag # "Blank"
         /\ reply' \in [part : Parts, ev : Events \cup {NoEvent}, type : AlmTypes]
<1>1. slot[sendIndex'] \in Records
  BY RingAssumption DEF LogInv, TypeOK, Slots
<1> QED
  BY <1>1 DEF SendRecord, PartOf, Written, Records, Parts

(* The newest record and all below it were written.                        *)
LEMMA NewestWritten ==
  ASSUME LogInv, idx <= PTAlm_Item, ~LogEmpty
  PROVE  /\ NewestIndex \in Slots
         /\ \A i \in Slots : i <= NewestIndex => Written(i)
<1> USE RingAssumption
<1>1. idx \in Nat /\ full \in {0, 1}
  BY DEF LogInv, TypeOK
<1>2. \A i \in Slots : full = 1 \/ i < idx => Written(i)
  BY DEF LogInv, RingInv, RingWritten, Visible
<1> QED
  BY <1>1, <1>2 DEF NewestIndex, LogEmpty, Slots

LEMMA AskNewestKeeps ==
  ASSUME LogInv, HostInv, AskNewest
  PROVE  HostInv'
<1> USE RingAssumption DEF HostInv, AskNewest
<1>1. sendIndex' \in Slots /\ lastFlag' \in {0, 1} /\ noneFlag' \in {0, 1}
  BY NewestWritten DEF PagingTypeOK, WalkInv
<1>2. due' \subseteq Slots /\ session' \in {"none", "clean", "stale"}
  BY DEF Visible
<1>3. WalkInv'
  <2>1. noneFlag' = 0 => sendIndex' = NewestIndex /\ ~LogEmpty
    OBVIOUS
  <2>2. noneFlag' = 1 => lastFlag' = 1
    BY DEF WalkInv
  <2>3. slot' = slot /\ idx' = idx
    BY DEF vars
  <2> QED
    BY <2>1, <2>2, <2>3, NewestWritten DEF WalkInv, Written
<1>4. CASE noneFlag' = 1
  <2>1. Zeros \in [part : Parts, ev : Events \cup {NoEvent}, type : AlmTypes]
    BY DEF Zeros, Parts, AlmTypes
  <2> QED
    BY <1>1, <1>2, <1>3, <1>4, <2>1
    DEF SendZeros, Zeros, PagingTypeOK, HostReadsRecords
<1>5. CASE noneFlag' # 1
  <2>1. ~LogEmpty /\ sendIndex' = NewestIndex /\ SendRecord
    BY <1>5
  <2>2. Written(sendIndex')
    BY <2>1, NewestWritten DEF WalkInv, Slots
  <2> QED
    BY <1>1, <1>2, <1>3, <2>1, <2>2, SendRecordKeeps DEF PagingTypeOK, HostReadsRecords
<1> QED
  BY <1>4, <1>5

LEMMA AskNextKeeps ==
  ASSUME LogInv, HostInv, AskNext
  PROVE  HostInv'
<1> USE RingAssumption DEF HostInv, AskNext
<1>1. noneFlag' = 0 /\ noneFlag = 0 /\ session' = session /\ session # "none"
  BY DEF PagingTypeOK, WalkInv
<1>2. due' \subseteq Slots /\ slot' = slot /\ idx' = idx
  BY DEF PagingTypeOK, vars
<1>3. CASE fPTAlmRecord.flag = "Terminate"
  <2>1. SendTerminate
    BY <1>3
  <2>2. fPTAlmRecord' \in Records
    BY <2>1 DEF SendTerminate, PagingTypeOK, Records, Flags
  <2>3. reply' \in [part : Parts, ev : Events \cup {NoEvent}, type : AlmTypes]
        /\ reply'.part = "Terminate"
    BY <2>1 DEF SendTerminate, PartOf, PagingTypeOK, Records, Parts
  <2>4. PagingTypeOK'
    BY <1>1, <1>2, <2>1, <2>2, <2>3 DEF SendTerminate, PagingTypeOK
  <2>5. WalkInv' /\ HostReadsRecords'
    BY <1>1, <1>2, <2>1, <2>3 DEF SendTerminate, WalkInv, HostReadsRecords, Written
  <2> QED
    BY <2>4, <2>5
<1>4. CASE fPTAlmRecord.flag # "Terminate"
  <2>1. StepBack /\ SendRecord
    BY <1>4
  <2>2. full = 1 => \A i \in Slots : Written(i)
    BY DEF LogInv, RingInv, RingWritten, Visible
  <2>3. sendIndex' \in Slots /\ lastFlag' \in {0, 1}
    BY <2>1 DEF StepBack, PagingTypeOK, Slots
  <2>4. \A i \in Slots : i <= sendIndex' => Written(i)
    BY <1>1, <2>1, <2>2 DEF StepBack, PagingTypeOK, WalkInv, Slots
  <2>5. /\ fPTAlmRecord' \in Records /\ fPTAlmRecord'.flag # "Blank"
        /\ reply' \in [part : Parts, ev : Events \cup {NoEvent}, type : AlmTypes]
    BY <2>1, <2>3, <2>4, SendRecordKeeps DEF Slots
  <2>6. PagingTypeOK' /\ HostReadsRecords'
    BY <1>1, <1>2, <2>3, <2>5 DEF PagingTypeOK, HostReadsRecords
  <2>7. WalkInv'
    BY <1>1, <1>2, <2>4 DEF WalkInv, Written
  <2> QED
    BY <2>6, <2>7
<1> QED
  BY <1>3, <1>4

LEMMA AskAgainKeeps ==
  ASSUME LogInv, HostInv, AskAgain
  PROVE  HostInv'
<1> USE RingAssumption DEF HostInv, AskAgain
<1>1. /\ due' \subseteq Slots /\ slot' = slot /\ idx' = idx
      /\ session' = session /\ session # "none"
      /\ lastFlag' = lastFlag /\ noneFlag' = noneFlag /\ sendIndex' = sendIndex
  BY DEF PagingTypeOK, vars
<1>2. WalkInv'
  BY <1>1 DEF WalkInv, Written
<1>3. CASE noneFlag = 1
  <2>1. Zeros \in [part : Parts, ev : Events \cup {NoEvent}, type : AlmTypes]
    BY DEF Zeros, Parts, AlmTypes
  <2> QED
    BY <1>1, <1>2, <1>3, <2>1 DEF SendZeros, Zeros, PagingTypeOK, HostReadsRecords
<1>4. CASE noneFlag # 1
  <2>1. SendRecord /\ Written(sendIndex')
    BY <1>1, <1>4 DEF PagingTypeOK, WalkInv, Slots
  <2>2. /\ fPTAlmRecord' \in Records /\ fPTAlmRecord'.flag # "Blank"
        /\ reply' \in [part : Parts, ev : Events \cup {NoEvent}, type : AlmTypes]
    BY <1>1, <2>1, SendRecordKeeps DEF PagingTypeOK
  <2> QED
    BY <1>1, <1>2, <2>2 DEF PagingTypeOK, HostReadsRecords
<1> QED
  BY <1>3, <1>4

-----------------------------------------------------------------------------
LEMMA HostHolds == FactoryRelates = {Empty} => (PagingSpec => []HostInv)
<1> SUFFICES ASSUME FactoryRelates = {Empty}
             PROVE  PagingSpec => []HostInv
  OBVIOUS
<1>1. PagingInit => LogInv /\ HostInv
  <2> SUFFICES ASSUME PagingInit PROVE LogInv /\ HostInv
    OBVIOUS
  <2>1. TypeOK /\ IndexInv
    BY InitTyped DEF PagingInit
  <2>2. RingInv /\ idx = 0
    BY RingAssumption
    DEF PagingInit, Init, RingInv, RingWritten, Visible, Slots, Empty
  <2>3. PagingTypeOK
    BY RingAssumption, EventAssumption
    DEF PagingInit, HostInit, PagingTypeOK, Slots, Blank, NoReply, Records, Events,
        Flags, AlmTypes, Parts
  <2>4. WalkInv /\ HostReadsRecords
    BY <2>2, RingAssumption DEF PagingInit, HostInit, WalkInv, HostReadsRecords
  <2> QED
    BY <2>1, <2>2, <2>3, <2>4 DEF LogInv, HostInv
<1>2. LogInv /\ HostInv /\ [PagingNext]_pagingVars => (LogInv /\ HostInv)'
  <2> SUFFICES ASSUME LogInv, HostInv, [PagingNext]_pagingVars
               PROVE  LogInv' /\ HostInv'
    OBVIOUS
  <2>1. LogInv'
    BY PagingStepIsLogStep, IndexStep, RingStep DEF LogInv
  <2>2. CASE UNCHANGED pagingVars
    <3>1. UNCHANGED <<slot, idx, sendIndex, lastFlag, noneFlag, fPTAlmRecord, reply,
                      session, due>>
      BY <2>2, Zenon DEF pagingVars, vars, host
    <3>2. PagingTypeOK' /\ HostReadsRecords'
      BY <3>1 DEF HostInv, PagingTypeOK, HostReadsRecords
    <3>3. WalkInv'
      BY <3>1 DEF HostInv, WalkInv, Written
    <3> QED
      BY <2>1, <3>2, <3>3 DEF HostInv
  <2>3. CASE LogStep
    BY <2>1, <2>3, LogStepKeeps
  <2>4. CASE AskNewest
    BY <2>1, <2>4, AskNewestKeeps
  <2>5. CASE AskNext
    BY <2>1, <2>5, AskNextKeeps
  <2>6. CASE AskAgain
    BY <2>1, <2>6, AskAgainKeeps
  <2> QED
    BY Zenon, <2>1, <2>2, <2>3, <2>4, <2>5, <2>6 DEF PagingNext
<1> QED
  BY <1>1, <1>2, PTL DEF PagingSpec

(* What the handler keeps between two commands has its types: above all it *)
(* never reads behind the ring.                                            *)
THEOREM PagingTypeCorrect ==
  FactoryRelates = {Empty} => (PagingSpec => []PagingTypeOK)
<1>1. HostInv => PagingTypeOK
  BY DEF HostInv
<1> QED
  BY HostHolds, <1>1, PTL

(* The host's commands 0, 1 and 2 are never answered with a slot nobody    *)
(* wrote (nPTAlarm_DataInfo), when a new board's relate bytes are zeroed.  *)
THEOREM HostGetsRecords ==
  FactoryRelates = {Empty} => (PagingSpec => []HostReadsRecords)
<1>1. HostInv => HostReadsRecords
  BY DEF HostInv
<1> QED
  BY HostHolds, <1>1, PTL

-----------------------------------------------------------------------------
(* The record read last is closed only until its terminate part is sent,   *)
(* and while a next command may come its generate part was the last        *)
(* answer.                                                                 *)
PartInv ==
  /\ noneFlag = 1 => lastFlag = 1
  /\ lastFlag = 0 /\ fPTAlmRecord.flag = "Terminate"
       => reply = PartOf("Generate", fPTAlmRecord)

(* The terminate part of a record directly follows its generate part, even *)
(* when the slot was overwritten in between: the handler sends it from the *)
(* copy it read (nPTAlarm_DataInfo, command 1).                            *)
THEOREM TerminateIsNext == PagingSpec => TerminateFollows
<1>1. PagingInit => PartInv
  BY DEF PagingInit, HostInit, PartInv, Blank
<1> DEFINE Follows == reply'.part = "Terminate" /\ reply' # reply
                        => reply = [reply' EXCEPT !.part = "Generate"]
<1>2. PartInv /\ [PagingNext]_pagingVars => PartInv' /\ Follows
  <2> SUFFICES ASSUME PartInv, [PagingNext]_pagingVars
               PROVE  PartInv' /\ Follows
    OBVIOUS
  <2> USE DEF PartInv
  <2>1. ASSUME SendRecord PROVE /\ reply' = PartOf("Generate", fPTAlmRecord')
                                /\ reply'.part # "Terminate"
    BY <2>1 DEF SendRecord, PartOf
  <2>2. CASE LogStep
    <3>1. CASE pc' = "off"
      BY <2>2, <3>1 DEF LogStep, Blank, NoReply
    <3>2. CASE pc' # "off"
      BY <2>2, <3>2 DEF LogStep, statics
    <3> QED
      BY <3>1, <3>2
  <2>3. CASE AskNewest
    <3>1. /\ noneFlag' = 1 => lastFlag' = 1
          /\ lastFlag' = 0 => lastFlag = 0
      BY <2>3 DEF AskNewest
    <3>2. CASE noneFlag' = 1
      BY <2>3, <3>1, <3>2 DEF AskNewest, SendZeros, Zeros
    <3>3. CASE noneFlag' # 1
      BY <2>1, <2>3, <3>1, <3>3 DEF AskNewest
    <3> QED
      BY <3>2, <3>3
  <2>4. CASE AskNext
    <3>1. CASE fPTAlmRecord.flag = "Terminate"
      <4>1. /\ reply = PartOf("Generate", fPTAlmRecord)
            /\ reply' = PartOf("Terminate", fPTAlmRecord)
            /\ fPTAlmRecord'.flag = "Blank"
            /\ UNCHANGED <<noneFlag, lastFlag>>
        BY <2>4, <3>1 DEF AskNext, SendTerminate
      <4>2. reply = [reply' EXCEPT !.part = "Generate"]
        BY <4>1 DEF PartOf
      <4> QED
        BY <4>1, <4>2
    <3>2. CASE fPTAlmRecord.flag # "Terminate"
      <4>1. /\ SendRecord /\ noneFlag' = noneFlag
            /\ lastFlag' \in {lastFlag, 1}
        BY <2>4, <3>2 DEF AskNext, StepBack
      <4> QED
        BY <2>1, <4>1
    <3> QED
      BY <3>1, <3>2
  <2>5. CASE AskAgain
    <3>1. UNCHANGED <<lastFlag, noneFlag>>
      BY <2>5 DEF AskAgain
    <3>2. CASE noneFlag = 1
      BY <2>5, <3>1, <3>2 DEF AskAgain, SendZeros, Zeros
    <3>3. CASE noneFlag # 1
      BY <2>1, <2>5, <3>1, <3>3 DEF AskAgain
    <3> QED
      BY <3>2, <3>3
  <2>6. CASE UNCHANGED pagingVars
    BY <2>6 DEF pagingVars, host, statics
  <2> QED
    BY <2>2, <2>3, <2>4, <2>5, <2>6 DEF PagingNext
<1>3. PartInv /\ [PagingNext]_pagingVars => [Follows]_pagingVars
  BY <1>2
<1> QED
  BY <1>1, <1>2, <1>3, PTL DEF PagingSpec, TerminateFollows

-----------------------------------------------------------------------------
(* The slots the walk has still to come to: below it in a log that is not  *)
(* full; in a full ring, whose oldest record is at AlmIndex, the ones      *)
(* around the end as well.                                                 *)
Ahead(i) ==
  IF full = 0
  THEN i < sendIndex /\ sendIndex < idx
  ELSE \/ idx <= i /\ i < sendIndex
       \/ sendIndex < idx /\ (i < sendIndex \/ idx <= i)

(* Every record still due is ahead, and the walk stops behind the last     *)
(* one.  Alm_Generate addresses the slot at AlmIndex unless a clear        *)
(* emptied the log behind its back, what it has overwritten is not due,    *)
(* and it wraps only at the ring's end.                                    *)
DueInv ==
  /\ sendIndex \in Nat /\ due \subseteq Slots
  /\ session = "clean" =>
       /\ lastFlag = 1 => due = {}
       /\ \A i \in due : Ahead(i)
  /\ session # "none" => pc \notin {"off", "defaults"}
  /\ pc \in {"write", "load", "store"} => addr = idx \/ (full = 0 /\ idx = 0)
  /\ pc \in {"load", "store"} => addr \notin due
  /\ pc = "zero" => idx = 0 \/ idx >= PTAlm_Item

(* A step of the log keeps every record it leaves due ahead of the walk.   *)
LEMMA LogKeepsDue ==
  ASSUME TypeOK, IndexInv, DueInv, LogStep, pc' # "off"
  PROVE  DueInv'
<1> USE RingAssumption
<1>a. /\ Next
      /\ due' = (due \cap Visible(full', idx'))
                  \ (IF pc = "write" /\ pc' = "load" THEN {addr} ELSE {})
      /\ UNCHANGED <<sendIndex, lastFlag, session>>
  BY DEF LogStep, statics
<1>b. /\ full \in {0, 1} /\ idx \in Nat /\ tmp \in Nat /\ PTAlm_Item \in Nat
      /\ full' \in {0, 1}
      /\ sendIndex \in Nat
      /\ addr \in Nat
  <2>1. TypeOK'
    BY <1>a, IndexStep
  <2> QED
    BY <2>1 DEF TypeOK, DueInv
<1>c. due' \subseteq due \cap Visible(full', idx')
  BY <1>a
<1> DEFINE PcInv == /\ session # "none" => pc \notin {"off", "defaults"}
                    /\ pc \in {"write", "load", "store"}
                         => addr = idx \/ (full = 0 /\ idx = 0)
                    /\ pc \in {"load", "store"} => addr \notin due
                    /\ pc = "zero" => idx = 0 \/ idx >= PTAlm_Item
(* It is enough to look at the records that stay due.                      *)
<1>d. ASSUME PcInv',
             session = "clean" => \A i \in due' : i \in Slots /\ Ahead(i) => Ahead(i)'
      PROVE  DueInv'
  <2>1. \A i \in due' : i \in due /\ i \in Slots
    BY <1>c, <1>b DEF Visible
  <2>2. ASSUME session = "clean" PROVE \A i \in due' : Ahead(i)'
    BY <1>d, <2>1, <2>2 DEF DueInv
  <2>3. session = "clean" /\ lastFlag = 1 => due' = {}
    BY <2>1 DEF DueInv
  <2> QED
    BY <1>a, <1>b, <1>d, <2>2, <2>3 DEF DueInv
<1>1. ASSUME UNCHANGED <<full, idx>>, PcInv' PROVE DueInv'
  BY <1>a, <1>d, <1>1 DEF Ahead
<1>p. PcInv
  BY DEF DueInv
<1>2. CASE Boot
  <2>1. session = "none" /\ PcInv'
    BY <1>2, <1>a DEF Boot, BootLoad, BootSetFlag, BootDefaults, DueInv
  <2> QED
    BY <1>d, <2>1
<1>3. ASSUME NEW e \in Events, NEW s \in AlarmStates(e), DetectAlarm(e, s)
      PROVE  DueInv'
  BY <1>1, <1>3, <1>a DEF DetectAlarm
<1>4. ASSUME NEW e \in Events, DetectNormal(e) PROVE DueInv'
  BY <1>1, <1>4, <1>a DEF DetectNormal
<1>5. CASE GenWrite \/ GenLoad
  BY <1>1, <1>5, <1>a, <1>p DEF GenWrite, GenLoad, fram
<1>6. CASE GenStore
  <2>1. pc = "store" /\ pc' = "wrap" /\ idx' = tmp /\ UNCHANGED <<full, addr>>
    BY <1>6 DEF GenStore
  <2>2. PcInv'
    BY <2>1
  <2>3. tmp = idx + 1 \/ (idx = 0 /\ full = 0)
    BY <2>1 DEF IndexInv
  <2>4. ASSUME session = "clean", NEW i \in due', i \in Slots, Ahead(i)
        PROVE  Ahead(i)'
    <3>1. i \in due /\ i \in Nat
      BY <1>b, <1>c, <2>4 DEF Slots
    <3>2. i # idx
      BY <1>b, <1>p, <2>1, <2>4, <3>1 DEF Ahead
    <3> QED
      BY <1>a, <1>b, <2>1, <2>3, <2>4, <3>1, <3>2 DEF Ahead
  <2> QED
    BY <1>d, <2>2, <2>4
<1>7. CASE GenWrap
  <2>1. /\ pc = "wrap" /\ idx' = idx /\ idx \in {tmp, 0}
        /\ \/ full' = full /\ pc' = "persist"
           \/ /\ full' = 1 /\ pc' = "zero"
              /\ tmp >= PTAlm_Item \/ idx >= PTAlm_Item
    BY <1>7, <1>b DEF GenWrap, IndexInv
  <2>2. PcInv'
    BY <1>b, <2>1
  <2>3. ASSUME session = "clean", NEW i \in due', i \in Slots, Ahead(i)
        PROVE  Ahead(i)'
    BY <1>a, <1>b, <2>1, <2>3 DEF Ahead, Slots
  <2> QED
    BY <1>d, <2>2, <2>3
<1>8. CASE GenZero
  <2>1. pc = "zero" /\ pc' = "persist" /\ idx' = 0 /\ full' = full
    BY <1>8 DEF GenZero
  <2>2. PcInv'
    BY <2>1
  <2>3. ASSUME session = "clean", NEW i \in due', i \in Slots, Ahead(i)
        PROVE  Ahead(i)'
    BY <1>a, <1>b, <1>c, <1>p, <2>1, <2>3 DEF Ahead, Slots, Visible
  <2> QED
    BY <1>d, <2>2, <2>3
<1>9. CASE GenPersist \/ Terminate
  BY <1>1, <1>9, <1>a
  DEF GenPersist, Terminate, ScanLow, ScanHigh, TermMark, AlarmEnded
<1>10. CASE RecordClear
  <2>1. full' = 0 /\ idx' = 0 /\ pc' = pc /\ UNCHANGED addr
    BY <1>10 DEF RecordClear
  <2>2. due' = {}
    BY <1>c, <1>b, <2>1 DEF Visible, Slots
  <2>3. PcInv'
    BY <1>a, <1>p, <2>1
  <2> QED
    BY <1>d, <2>2, <2>3
<1>11. CASE PowerFail \/ PowerFailInClear
  BY <1>11 DEF PowerFail, PowerFailInClear, RamLost
<1> QED
  BY <1>a, <1>2, <1>3, <1>4, <1>5, <1>6, <1>7, <1>8, <1>9, <1>10, <1>11
  DEF Next, Generate

(* A command starts with every record ahead of the newest, or steps over   *)
(* none.                                                                   *)
LEMMA CommandKeepsDue ==
  ASSUME TypeOK, DueInv, AskNewest \/ AskNext \/ AskAgain
  PROVE  DueInv'
<1> USE RingAssumption
<1>a. /\ UNCHANGED <<pc, full, idx, addr>> /\ pc \notin {"off", "defaults"}
      /\ full \in {0, 1} /\ idx \in Nat /\ PTAlm_Item \in Nat
      /\ sendIndex \in Nat
  BY DEF AskNewest, AskNext, AskAgain, vars, Running, TypeOK, DueInv
<1>1. CASE AskNewest
  <2>1. /\ due' \subseteq Visible(full, idx) \ {sendIndex'}
        /\ pc \in {"load", "store"} => addr \notin due'
    BY <1>1 DEF AskNewest
  <2>a. due' \subseteq Slots'
    BY <2>1 DEF Visible, Slots
  <2>2. CASE LogEmpty
    <3>1. due' = {} /\ sendIndex' = sendIndex
      BY <1>1, <2>1, <2>2 DEF AskNewest, LogEmpty, Visible, Slots
    <3> QED
      BY <1>a, <2>1, <2>a, <3>1 DEF DueInv
  <2>3. CASE ~LogEmpty
    <3>1. sendIndex' = NewestIndex /\ lastFlag' = lastFlag
      BY <1>1, <2>3 DEF AskNewest
    <3>2. /\ sendIndex' \in Nat
          /\ sendIndex' = IF idx > 0 THEN idx - 1 ELSE PTAlm_Item - 1
      BY <1>a, <3>1 DEF NewestIndex
    <3>3. \A i \in due' : Ahead(i)'
      <4> SUFFICES ASSUME NEW i \in due' PROVE Ahead(i)'
        OBVIOUS
      <4>1. /\ i \in Nat /\ i < PTAlm_Item /\ i # sendIndex'
            /\ full # 1 => i < idx
        BY <2>1 DEF Visible, Slots
      <4> QED
        BY <1>a, <2>3, <3>2, <4>1 DEF Ahead, LogEmpty
    <3>4. session' = "clean" => lastFlag' # 1
      BY <1>1, <3>1 DEF AskNewest
    <3> QED
      BY <1>a, <2>1, <2>a, <3>2, <3>3, <3>4 DEF DueInv
  <2> QED
    BY <2>2, <2>3
<1>2. CASE AskNext
  <2>1. /\ lastFlag = 0 /\ session' = session /\ due' = due \ {sendIndex'}
    BY <1>2 DEF AskNext
  <2>2. CASE sendIndex' = sendIndex /\ lastFlag' = lastFlag
    BY <1>a, <2>1, <2>2 DEF DueInv, Ahead
  <2>3. CASE StepBack
    <3>1. sendIndex' \in Nat
      BY <1>a, <2>3 DEF StepBack
    <3>2. ASSUME session = "clean", NEW i \in due', i \in Nat, i < PTAlm_Item
          PROVE  Ahead(i)' /\ lastFlag' # 1
      <4>1. Ahead(i) /\ i # sendIndex'
        BY <2>1, <3>2 DEF DueInv
      <4>2. CASE sendIndex > 0
        BY <1>a, <2>1, <2>3, <3>1, <3>2, <4>1, <4>2
        DEF StepBack, Ahead, ReachedOldest
      <4>3. CASE sendIndex = 0
        BY <1>a, <2>1, <2>3, <3>1, <3>2, <4>1, <4>3 DEF StepBack, Ahead
      <4> QED
        BY <1>a, <4>2, <4>3
    <3>3. \A i \in due : i \in Nat /\ i < PTAlm_Item
      BY <1>a DEF DueInv, Slots
    <3>4. /\ due' \subseteq due /\ due' \subseteq Slots'
          /\ pc \in {"load", "store"} => addr \notin due'
      BY <2>1 DEF DueInv, Slots
    <3>5. session = "clean" => (lastFlag' = 1 => due' = {})
      BY <3>2, <3>3, <3>4
    <3>6. session = "clean" => \A i \in due' : Ahead(i)'
      BY <3>2, <3>3, <3>4
    <3> QED
      BY <1>a, <2>1, <3>1, <3>4, <3>5, <3>6 DEF DueInv
  <2> QED
    BY <1>2, <2>2, <2>3 DEF AskNext, SendTerminate
<1>3. CASE AskAgain
  BY <1>a, <1>3 DEF AskAgain, DueInv, Ahead
<1> QED
  BY <1>1, <1>2, <1>3

(* An answer flagged as the last one ends a walk that missed no record,    *)
(* however often the ring wraps, is torn or is cleared during it: of       *)
(* sessions begun with the flag clear.                                     *)
THEOREM LastMeansAll == PagingSpec => []EveryRecordSent
<1>1. PagingInit => DueInv
  BY DEF PagingInit, Init, HostInit, DueInv
<1>2. TypeOK /\ IndexInv /\ DueInv /\ [PagingNext]_pagingVars => DueInv'
  <2> SUFFICES ASSUME TypeOK, IndexInv, DueInv, [PagingNext]_pagingVars
               PROVE  DueInv'
    OBVIOUS
  <2>1. CASE LogStep /\ pc' = "off"
    BY <2>1 DEF LogStep, DueInv
  <2>2. CASE LogStep /\ pc' # "off"
    BY <2>2, LogKeepsDue
  <2>3. CASE AskNewest \/ AskNext \/ AskAgain
    BY <2>3, CommandKeepsDue
  <2>4. CASE UNCHANGED pagingVars
    BY <2>4 DEF pagingVars, vars, host, statics, DueInv, Ahead
  <2> QED
    BY <2>1, <2>2, <2>3, <2>4 DEF PagingNext
<1>3. PagingSpec => [](TypeOK /\ IndexInv)
  <2>1. PagingInit => TypeOK /\ IndexInv
    BY InitTyped DEF PagingInit
  <2>2. TypeOK /\ IndexInv /\ [PagingNext]_pagingVars => (TypeOK /\ IndexInv)'
    BY PagingStepIsLogStep, IndexStep
  <2> QED
    BY <2>1, <2>2, PTL DEF PagingSpec
<1>4. DueInv => EveryRecordSent
  BY DEF DueInv, EveryRecordSent
<1> QED
  BY <1>1, <1>2, <1>3, <1>4, PTL DEF PagingSpec
=============================================================================
