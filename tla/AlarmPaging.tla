---------------------------- MODULE AlarmPaging ----------------------------
(***************************************************************************)
(* The host reads the history alarm log of module AlarmLog one answer at a *)
(* time: nPTAlarm_DataInfo of APP/app_PCProto.c, with the position and the *)
(* flags it keeps in static variables from one command to the next.        *)
(*                                                                         *)
(* The PC task runs at a higher priority than the Data task, so a command  *)
(* may come between any two steps of Alm_Generate or Alm_Terminate.  The   *)
(* HMI task may clear the log inside the handler, too, but a clear changes *)
(* no record and the build (-O2) loads AlmIndex once per decision, so that *)
(* this is the same as a clear before or after: a command is one step.     *)
(***************************************************************************)
EXTENDS AlarmLog

VARIABLES
  sendIndex,     \* static: the slot of the record sent last
  lastFlag,      \* static: DataInfo[0] of every answer
  noneFlag,      \* static: the log was found empty
  fPTAlmRecord,  \* static: the record read last
  reply,         \* the answer: which part of which record
  session,       \* history: whether lastFlag was clear at the last command 0
  due            \* history: records the log held then and not sent since

statics == <<sendIndex, lastFlag, noneFlag, fPTAlmRecord>>
host == <<sendIndex, lastFlag, noneFlag, fPTAlmRecord, reply, session, due>>
pagingVars == <<vars, host>>

(* An answer carries the time a record was generated or terminated, never  *)
(* both; all zeros stand for an empty log.                                 *)
Parts == {"None", "Zeros", "Generate", "Terminate"}
NoReply == [part |-> "None", ev |-> NoEvent, type |-> "Normal"]
Zeros == [part |-> "Zeros", ev |-> NoEvent, type |-> "Normal"]
PartOf(part, r) == [part |-> part, ev |-> r.ev, type |-> r.type]

HostInit ==
  /\ sendIndex = 0 /\ lastFlag = 0 /\ noneFlag = 0
  /\ fPTAlmRecord = Blank
  /\ reply = NoReply
  /\ session = "none" /\ due = {}

PagingInit == Init /\ HostInit

-----------------------------------------------------------------------------
(* A step of the log.  A record is due no more when it is overwritten or   *)
(* the log is cleared; a reset clears the statics.                         *)
LogStep ==
  /\ Next
  /\ IF pc' = "off"
     THEN /\ sendIndex' = 0 /\ lastFlag' = 0 /\ noneFlag' = 0
          /\ fPTAlmRecord' = Blank
          /\ reply' = NoReply
          /\ session' = "none" /\ due' = {}
     ELSE /\ due' = (due \cap Visible(full', idx'))
                      \ (IF pc = "write" /\ pc' = "load" THEN {addr} ELSE {})
          /\ UNCHANGED <<statics, reply, session>>

(* Read the record at sendIndex and send its generate part.                *)
SendRecord ==
  /\ fPTAlmRecord' = slot[sendIndex']
  /\ reply' = PartOf("Generate", fPTAlmRecord')

SendZeros ==
  /\ reply' = Zeros
  /\ UNCHANGED fPTAlmRecord

(* Mutant of NewestIndex: AlmIndex is taken for the newest record.         *)
NewestIndexNext == IF idx > 0 THEN idx ELSE PTAlm_Item - 1

(* Command 0 goes to the newest record, and finds the log empty when       *)
(* AlmIndex and FullFlag are zero.  Nothing resets the two flags.  A slot  *)
(* that Alm_Generate has overwritten and not yet counted is not due.       *)
LogEmpty == idx = 0 /\ full = 0
NewestIndex == IF idx > 0 THEN idx - 1 ELSE PTAlm_Item - 1

AskNewest ==
  /\ Running
  /\ IF LogEmpty
     THEN lastFlag' = 1 /\ noneFlag' = 1 /\ sendIndex' = sendIndex
     ELSE sendIndex' = NewestIndex /\ UNCHANGED <<lastFlag, noneFlag>>
  /\ IF noneFlag' = 1 THEN SendZeros ELSE SendRecord
  /\ session' = IF lastFlag = 0 THEN "clean" ELSE "stale"
  /\ due' = Visible(full, idx)
             \ ({sendIndex'} \cup (IF pc \in {"load", "store"} THEN {addr} ELSE {}))
  /\ UNCHANGED vars

(* Mutant of ReachedOldest: the index is compared before it is counted     *)
(* down.                                                                   *)
ReachedOldestEarly(i) == (full = 0 /\ i <= 1) \/ i = idx + 1

ReachedOldest(i) == (full = 0 /\ i = 0) \/ i = idx

(* Mutant of StepBack: the end of a full ring is one too far.              *)
StepBackWide ==
  IF sendIndex > 0
  THEN /\ sendIndex' = sendIndex - 1
       /\ lastFlag' = IF ReachedOldest(sendIndex') THEN 1 ELSE lastFlag
  ELSE /\ sendIndex' = IF full = 1 THEN PTAlm_Item ELSE 0
       /\ UNCHANGED lastFlag

(* Command 1 sends the terminate part of the record sent last, or steps    *)
(* back.  Index 0 steps to the end of a full ring, and otherwise stays.    *)
StepBack ==
  IF sendIndex > 0
  THEN /\ sendIndex' = sendIndex - 1
       /\ lastFlag' = IF ReachedOldest(sendIndex') THEN 1 ELSE lastFlag
  ELSE /\ sendIndex' = IF full = 1 THEN PTAlm_Item - 1 ELSE 0
       /\ UNCHANGED lastFlag

(* Mutant of SendTerminate: the terminate part is taken from the slot.     *)
SendTerminateFromSlot ==
  /\ reply' = PartOf("Terminate", slot[sendIndex])
  /\ fPTAlmRecord' = [ev |-> fPTAlmRecord.ev, type |-> fPTAlmRecord.type,
                      flag |-> "Blank"]
  /\ UNCHANGED <<sendIndex, lastFlag>>

SendTerminate ==
  /\ reply' = PartOf("Terminate", fPTAlmRecord)
  /\ fPTAlmRecord' = [ev |-> fPTAlmRecord.ev, type |-> fPTAlmRecord.type,
                      flag |-> "Blank"]
  /\ UNCHANGED <<sendIndex, lastFlag>>

(* The host pages on only as long as no answer was flagged as the last.    *)
AskNext ==
  /\ Running /\ session # "none" /\ lastFlag = 0
  /\ IF fPTAlmRecord.flag = "Terminate"
     THEN SendTerminate
     ELSE StepBack /\ SendRecord
  /\ due' = due \ {sendIndex'}
  /\ UNCHANGED <<vars, noneFlag, session>>

(* Command 2, the host's retry, reads the record at sendIndex again.       *)
AskAgain ==
  /\ Running /\ session # "none"
  /\ sendIndex' = sendIndex
  /\ IF noneFlag = 1 THEN SendZeros ELSE SendRecord
  /\ due' = due \ {sendIndex}
  /\ UNCHANGED <<vars, lastFlag, noneFlag, session>>

PagingNext == LogStep \/ AskNewest \/ AskNext \/ AskAgain

PagingSpec == PagingInit /\ [][PagingNext]_pagingVars
-----------------------------------------------------------------------------
PagingTypeOK ==
  /\ sendIndex \in Slots
  /\ lastFlag \in {0, 1} /\ noneFlag \in {0, 1}
  /\ fPTAlmRecord \in Records
  /\ reply \in [part : Parts, ev : Events \cup {NoEvent}, type : AlmTypes]
  /\ session \in {"none", "clean", "stale"}
  /\ due \subseteq Slots

(* The host never gets a slot nobody wrote, though it pages over a ring    *)
(* whose AlmIndex and FullFlag are read in the middle of a generate, and   *)
(* which is cleared and refilled between two commands.                     *)
HostReadsRecords ==
  reply.part = "Generate" /\ session # "none" => fPTAlmRecord.flag # "Blank"

(* When an answer is flagged as the last one, every record the log held    *)
(* when the host began was sent, but for those overwritten or cleared      *)
(* since.  Only of sessions begun with the flag clear: see NewestOnZero    *)
(* for what becomes of the later ones.                                     *)
EveryRecordSent == session = "clean" /\ lastFlag = 1 => due = {}

(* A terminate part is sent directly after the generate part of the same   *)
(* record, even when that record's slot was overwritten in between.        *)
TerminateFollows ==
  [][reply'.part = "Terminate" /\ reply' # reply
       => reply = [reply' EXCEPT !.part = "Generate"]]_pagingVars

-----------------------------------------------------------------------------
(* app_PCProto.c:1115 "0x00 - get the newest history alarm": when there is *)
(* a record, command 0 gets one.                                           *)
NewestOnZero == [][AskNewest /\ ~LogEmpty => reply'.part = "Generate"]_pagingVars
=============================================================================
