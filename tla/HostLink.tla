------------------------------ MODULE HostLink ------------------------------
(***************************************************************************)
(* The link to the host, APP/app_PCProto.c: the host sends a request and   *)
(* waits for the reply, the PC task handles what the port received and     *)
(* sends the reply by DMA from a buffer it frees at once.  A reply carries *)
(* no mark of its request: the host takes what comes while it waits.       *)
(*                                                                         *)
(* The Data task and the SUB task announce changes of alarms and branches  *)
(* in ucPCProto_DataFlag, which each task reads, changes and writes in     *)
(* three instructions.  Priorities: PC above SUB above Data.               *)
(*                                                                         *)
(* Alarms and branch states are numbered as they change; the host reads    *)
(* all alarms (group 0xFF) and the branches, and sets one parameter, some  *)
(* of whose values the device refuses.                                     *)
(***************************************************************************)
EXTENDS Naturals

CONSTANTS
  Settings,    \* values of the parameter
  Default,     \* the value the device starts with
  Refused,     \* values that are out of the parameter's range
  MaxAlm,      \* changes of the alarms
  MaxIo,       \* changes of the branches
  MaxNoise,    \* frames damaged or lost on the line
  MaxRush,     \* requests the host sends too early
  QueueSize, NoFrame, Garbage,
  Err          \* a reply with a return code other than normal

Cmds == {"alarm", "io"} \cup Settings \cup Refused
Requests == [cmd : Cmds, ok : {0, 1}]
Normals == [cmd : Cmds \ Refused, val : 0 .. MaxAlm + MaxIo]
Replies == Normals \cup {Err, Garbage}

ASSUME HostAssumption ==
  /\ MaxAlm \in Nat /\ MaxIo \in Nat /\ MaxNoise \in Nat /\ MaxRush \in Nat
  /\ QueueSize \in Nat \ {0}
  /\ NoFrame \notin Requests \cup Replies /\ Garbage \notin Requests
  /\ Err # Garbage /\ {Err, Garbage} \cap Normals = {}
  /\ (Settings \cup Refused) \cap {"alarm", "io"} = {}
  /\ Settings \cap Refused = {} /\ Default \in Settings

VARIABLES
  line, Rx_Buffer, rxOn, queue, tx, lock,
  hst,         \* the host: "idle" or "wait"
  want,        \* the host: its request
  known,       \* the host: what it last read or set, per command
  noise, rush, \* disturbances and early repetitions left
  pc,          \* PC task: "wait", "copy", "sum", "answer", "send", "start"
  hex,         \* PC task: the copied request, Garbage when there is none
  reply,       \* PC task: TxAsciiBuf, Err when there is none
  setting,     \* the parameter
  alm, io,     \* gAlmMessage, ucBranchState_a
  judged,      \* history: the last change of alm that is an alarm's or its end
  fAlm, fIo,   \* ucPCProto_DataFlag, bits 0x01 and 0x10
  dpc, dIo,    \* Data task and its copy of the other bit
  spc, sAlm,   \* SUB task and its copy of the other bit
  misled,      \* history: the host took a reply to another request
  lost         \* history: the branches' last bit was not set, or not for long

Port == INSTANCE UartPort WITH Frames <- Requests, Sends <- Replies

host == <<hst, want, known, rush, misled>>
pcv == <<pc, hex, reply, setting>>
flag == <<fAlm, fIo>>
tasks == <<alm, judged, io, dpc, dIo, spc, sAlm, lost>>
vars == <<line, Rx_Buffer, rxOn, queue, tx, lock, hst, want, known, noise, rush,
          pc, hex, reply, setting, alm, judged, io, fAlm, fIo, dpc, dIo, spc,
          sAlm, misled, lost>>
portVars == <<line, Rx_Buffer, rxOn, queue, tx, lock>>

Init ==
  /\ Port!PortInit
  /\ hst = "idle" /\ want = "alarm"
  /\ setting = Default
  /\ known = [alarm |-> 0, io |-> 0, set |-> setting]
  /\ noise = MaxNoise /\ rush = MaxRush
  /\ pc = "wait" /\ hex = Garbage /\ reply = Err
  /\ alm = 0 /\ judged = 0 /\ io = 0 /\ fAlm = 0 /\ fIo = 0
  /\ dpc = "idle" /\ dIo = 0 /\ spc = "idle" /\ sAlm = 0
  /\ misled = 0 /\ lost = 0

-----------------------------------------------------------------------------
(* The host.                                                               *)
Ask(c) ==
  /\ hst = "idle"
  /\ hst' = "wait" /\ want' = c
  /\ UNCHANGED <<portVars, known, rush, misled, noise, pcv, flag, tasks>>

(* Nothing of a request is left in the device.                             *)
AtRest == line = NoFrame /\ queue = 0 /\ pc = "wait" /\ tx = NoFrame

(* The host sends its request, and sends it again after another return     *)
(* code or when no reply came in time: too early if the PC task was kept   *)
(* from running for longer than that.  It goes out whole, or damaged       *)
(* behind its first bytes, or as noise.                                    *)
Request ==
  /\ hst = "wait"
  /\ \/ AtRest /\ rush' = rush
     \/ ~AtRest /\ rush > 0 /\ rush' = rush - 1
  /\ \/ Port!Bytes([cmd |-> want, ok |-> 1]) /\ noise' = noise
     \/ /\ noise > 0 /\ noise' = noise - 1
        /\ Port!Bytes([cmd |-> want, ok |-> 0]) \/ Port!Bytes(Garbage)
  /\ UNCHANGED <<hst, want, known, misled, pcv, flag, tasks>>

(* A normal reply ends the request, and another return code one that the   *)
(* device refuses.  A spoilt frame and one nobody waits for are dropped.   *)
Taken(r) ==
  /\ hst' = "idle" /\ want' = "alarm"
  /\ misled' = IF r.cmd = want THEN misled ELSE 1
  /\ known' = IF r.cmd # want THEN known
              ELSE IF want \in Settings THEN [known EXCEPT !.set = want]
              ELSE [known EXCEPT ![want] = r.val]

ReplyArrives ==
  /\ Port!TxDone
  /\ IF hst = "wait" /\ tx \in Normals THEN Taken(tx)
     ELSE IF hst = "wait" /\ tx = Err /\ want \in Refused
          THEN hst' = "idle" /\ want' = "alarm" /\ UNCHANGED <<misled, known>>
     ELSE UNCHANGED <<hst, want, misled, known>>
  /\ UNCHANGED <<rush, noise, pcv, flag, tasks>>

ReplyLost ==
  /\ noise > 0 /\ noise' = noise - 1
  /\ Port!TxDone
  /\ UNCHANGED <<host, pcv, flag, tasks>>

LineIdle ==
  /\ Port!Idle
  /\ UNCHANGED <<host, noise, pcv, flag, tasks>>

ReceptionError ==
  /\ noise > 0 /\ noise' = noise - 1
  /\ Port!LineError
  /\ UNCHANGED <<host, pcv, flag, tasks>>

-----------------------------------------------------------------------------
(* The PC task, gPCProtoHandle.                                            *)
PcGet ==
  /\ pc = "wait" /\ pc' = "copy"
  /\ Port!Get
  /\ UNCHANGED <<host, noise, hex, reply, setting, flag, tasks>>

(* Frame bytes, CID1 and address are looked at and the request is copied;  *)
(* what fails is dropped without a reply.  A buffer that is being written  *)
(* may pass: the old frame's end behind the new one's beginning.           *)
Copy ==
  /\ pc = "copy"
  /\ \/ pc' = "sum" /\ hex' = Rx_Buffer
     \/ pc' = "wait" /\ hex' = Garbage /\ Rx_Buffer = Garbage
  /\ UNCHANGED <<portVars, host, noise, reply, setting, flag, tasks>>

(* Variant: the checksum is not looked at.                                 *)
SumSkipped ==
  /\ pc = "sum"
  /\ IF hex # Garbage THEN pc' = "answer" /\ UNCHANGED <<hex, reply>>
     ELSE pc' = "send" /\ reply' = Err /\ hex' = Garbage
  /\ UNCHANGED <<portVars, host, noise, setting, flag, tasks>>

(* The sum of what the buffer holds now is compared with the one copied.   *)
Sum ==
  /\ pc = "sum"
  /\ IF hex # Garbage /\ hex = Rx_Buffer /\ hex.ok = 1
     THEN pc' = "answer" /\ UNCHANGED <<hex, reply>>
     ELSE pc' = "send" /\ reply' = Err /\ hex' = Garbage
  /\ UNCHANGED <<portVars, host, noise, setting, flag, tasks>>

ReplyTo(c) ==
  IF c \in Refused THEN Err
  ELSE [cmd |-> c, val |-> IF c = "alarm" THEN alm
                           ELSE IF c = "io" THEN io ELSE 0]

(* Variant: a read of either kind clears both bits.                        *)
HandleBoth(c, ok) ==
  /\ reply' = ReplyTo(c)
  /\ fAlm' = IF c \in Settings THEN fAlm ELSE 0
  /\ fIo' = IF c \in Settings THEN fIo ELSE 0
  /\ IF c \in Settings
     THEN \E v \in Settings : setting' = v /\ (ok = 1 => v = c)
     ELSE setting' = setting

(* What the new reply is built in may be what the DMA still sends from.    *)
MayOverwrite == tx' = tx \/ (tx # NoFrame /\ tx' = Garbage)

(* nRTAlm_DataInfo, nIO_DataInfo, nSet_DataInfo.  The value of a damaged   *)
(* set request is any.                                                     *)
Handle(c, ok) ==
  /\ reply' = ReplyTo(c)
  /\ fAlm' = IF c = "alarm" THEN 0 ELSE fAlm
  /\ fIo' = IF c = "io" THEN 0 ELSE fIo
  /\ IF c \in Settings
     THEN \E v \in Settings : setting' = v /\ (ok = 1 => v = c)
     ELSE setting' = setting

Answer ==
  /\ pc = "answer" /\ pc' = "send"
  /\ Handle(hex.cmd, hex.ok) /\ hex' = Garbage
  /\ MayOverwrite
  /\ UNCHANGED <<line, Rx_Buffer, rxOn, queue, lock, host, noise, tasks>>

SendLock ==
  /\ pc = "send" /\ pc' = "start"
  /\ Port!TxLock
  /\ UNCHANGED <<host, noise, hex, reply, setting, flag, tasks>>

(* HAL_BUSY is not looked at.                                              *)
SendBusy ==
  /\ pc = "send" /\ pc' = "wait"
  /\ tx # NoFrame
  /\ reply' = Err
  /\ UNCHANGED <<portVars, host, noise, hex, setting, flag, tasks>>

SendStart ==
  /\ pc = "start" /\ pc' = "wait"
  /\ Port!TxStart(reply) /\ reply' = Err
  /\ UNCHANGED <<host, noise, hex, setting, flag, tasks>>

-----------------------------------------------------------------------------
(* The other tasks run only while the PC task waits.                       *)
PcWaits == pc = "wait" /\ queue = 0

(* The Data task changes gAlmMessage for an alarm or its end and then sets *)
(* the bit.                                                                *)
AlmChange ==
  /\ dpc = "idle" /\ spc = "idle" /\ PcWaits
  /\ alm < MaxAlm /\ alm' = alm + 1 /\ judged' = alm'
  /\ dpc' = "load"
  /\ UNCHANGED <<portVars, host, noise, pcv, flag, io, dIo, spc, sAlm, lost>>

(* What the setup leaves out is written 0x20, and no bit is set.           *)
AlmAbsent ==
  /\ dpc = "idle" /\ spc = "idle" /\ PcWaits
  /\ alm < MaxAlm /\ alm' = alm + 1
  /\ UNCHANGED <<portVars, host, noise, pcv, flag, judged, io, dpc, dIo, spc,
                 sAlm, lost>>

DataLoad ==
  /\ dpc = "load" /\ spc = "idle" /\ PcWaits
  /\ dpc' = "store" /\ dIo' = fIo
  /\ UNCHANGED <<portVars, host, noise, pcv, flag, alm, judged, io, spc, sAlm,
                 lost>>

DataStore ==
  /\ dpc = "store" /\ spc = "idle" /\ PcWaits
  /\ dpc' = "idle" /\ fAlm' = 1 /\ fIo' = dIo /\ dIo' = 0
  /\ UNCHANGED <<portVars, host, noise, pcv, alm, judged, io, spc, sAlm, lost>>

(* The SUB task judges the branches, ...                                   *)
BranchChange ==
  /\ spc = "idle" /\ PcWaits
  /\ \/ io < MaxIo /\ io' = io + 1 /\ spc' = "moved"
     \/ io' = io /\ spc' = "same"
  /\ UNCHANGED <<portVars, host, noise, pcv, flag, alm, judged, dpc, dIo, sAlm,
                 lost>>

(* ... and compares them with a local copy that it never initialises: it   *)
(* may take unchanged branches for changed ones and changed ones for       *)
(* unchanged.  For what it takes for a change it sets the other bit.       *)
SubLoad ==
  /\ spc \in {"moved", "same"} /\ PcWaits
  /\ \/ spc' = "store" /\ sAlm' = fAlm /\ lost' = lost
     \/ spc' = "idle" /\ sAlm' = 0 /\ lost' = IF spc = "moved" THEN 1 ELSE lost
  /\ UNCHANGED <<portVars, host, noise, pcv, flag, alm, judged, io, dpc, dIo>>

(* Variant: the branches' bit is set by an assignment.                     *)
SubStoreOnly ==
  /\ spc = "store" /\ PcWaits
  /\ spc' = "idle" /\ fIo' = 1 /\ fAlm' = 0 /\ sAlm' = 0
  /\ lost' = IF dpc = "store" THEN 1 ELSE 0
  /\ UNCHANGED <<portVars, host, noise, pcv, alm, judged, io, dpc, dIo>>

SubStore ==
  /\ spc = "store" /\ PcWaits
  /\ spc' = "idle" /\ fIo' = 1 /\ fAlm' = sAlm /\ sAlm' = 0
  /\ lost' = IF dpc = "store" THEN 1 ELSE 0
  /\ UNCHANGED <<portVars, host, noise, pcv, alm, judged, io, dpc, dIo>>

PcTask == PcGet \/ Copy \/ Sum \/ Answer \/ SendLock \/ SendBusy \/ SendStart
DataTask == DataLoad \/ DataStore
SubTask == SubLoad \/ SubStore

Next ==
  \/ \E c \in Cmds : Ask(c)
  \/ Request \/ ReplyArrives \/ ReplyLost
  \/ LineIdle \/ ReceptionError
  \/ PcTask
  \/ AlmChange \/ AlmAbsent \/ DataTask
  \/ BranchChange \/ SubTask

Spec == Init /\ [][Next]_vars

(* The PC task runs, an idle follows every frame, the DMA sends, and the   *)
(* host repeats what is not answered.                                      *)
FairSpec ==
  /\ Spec
  /\ WF_vars(PcTask) /\ WF_vars(LineIdle) /\ WF_vars(ReplyArrives)
  /\ WF_vars(Request)
-----------------------------------------------------------------------------
TypeOK ==
  /\ Port!PortTypeOK
  /\ hst \in {"idle", "wait"} /\ want \in Cmds
  /\ known \in [alarm : 0 .. MaxAlm, io : 0 .. MaxIo, set : Settings]
  /\ noise \in 0 .. MaxNoise /\ rush \in 0 .. MaxRush
  /\ pc \in {"wait", "copy", "sum", "answer", "send", "start"}
  /\ hex \in Requests \cup {Garbage} /\ reply \in Replies
  /\ setting \in Settings
  /\ alm \in 0 .. MaxAlm /\ judged \in 0 .. alm /\ io \in 0 .. MaxIo
  /\ {fAlm, fIo, dIo, sAlm, misled, lost} \subseteq {0, 1}
  /\ dpc \in {"idle", "load", "store"}
  /\ spc \in {"idle", "moved", "same", "store"}

Patient == rush = MaxRush
Asking(c) == hst # "idle" /\ want = c

(* A host that never repeats a request the device still works on takes no  *)
(* reply but its own, and no reply is sent from a buffer in use again,     *)
(* whatever is damaged or lost on the line.                                *)
ReplyFits == Patient => misled = 0 /\ tx # Garbage

(* And the device holds the parameter the host was last told was set, but  *)
(* for a set request under way.                                            *)
SetConfirmed ==
  Patient => \/ setting = known.set
             \/ \E c \in Settings : Asking(c)

(* And an alarm, or the end of one, that the host has not read is          *)
(* announced by the flag, or about to be, or being read: no order of the   *)
(* three tasks' updates loses the bit.  What leaves the message by a       *)
(* change of the setup is not announced.                                   *)
AlarmAnnounced ==
  Patient => \/ known.alarm >= judged
             \/ fAlm = 1 \/ dpc # "idle"
             \/ Asking("alarm")

(* The same for the branches, unless the uninitialised copy hid the last   *)
(* change or the SUB task wrote the flag between the Data task's load and  *)
(* store.                                                                  *)
BranchAnnounced ==
  Patient /\ lost = 0 =>
    known.io = io \/ fIo = 1 \/ spc \in {"moved", "store"} \/ Asking("io")

(* Every request is answered in the end, even after early repetitions have *)
(* cut replies and left the reception off.                                 *)
Answered == hst # "idle" ~> hst = "idle"
=============================================================================
