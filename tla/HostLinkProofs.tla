--------------------------- MODULE HostLinkProofs ---------------------------
(***************************************************************************)
(* Proofs about HostLink, for any number of alarms, branches and           *)
(* disturbances and any length of the port's queue: what a host that never *)
(* repeats a request too early may rely on; and about the conversions of   *)
(* Function that its frames go through.                                    *)
(***************************************************************************)
EXTENDS HostLink, Function, TLAPS

(* A normal reply of either kind carries a number of its kind.             *)
Sized(r) ==
  r \in Normals => /\ r.cmd = "alarm" => r.val <= MaxAlm
                   /\ r.cmd = "io" => r.val <= MaxIo

(* What the PC task holds at each of its steps, whatever the host does: a  *)
(* reply only between building and sending it, and a request it handles    *)
(* only when its sum was right.                                            *)
TaskInv ==
  /\ Sized(reply) /\ Sized(tx)
  /\ reply \in Normals \cup {Err}
  /\ reply \in Normals => pc \in {"send", "start"}
  /\ pc = "answer" => hex # Garbage /\ hex.ok = 1

(* One request at a time: it is on the line, in the queue, with the PC     *)
(* task or, as its reply, on the way back, and the host waits for it.  So  *)
(* the reception is on whenever a request begins.                          *)
OneRequest ==
  /\ line # NoFrame => queue = 0 /\ pc = "wait" /\ tx = NoFrame
  /\ queue > 0 => queue = 1 /\ pc = "wait" /\ tx = NoFrame
  /\ pc # "wait" => tx = NoFrame
  /\ ~AtRest => hst = "wait"
  /\ lock = 1 => pc = "start"
  /\ line = NoFrame => rxOn = 1

(* And wherever it is, it is the one the host waits for.                   *)
Asked(f) == f \in Requests => f.cmd = want
Own(r) == r \in Normals => r.cmd = want

OwnRequest ==
  /\ Asked(line) /\ Own(reply) /\ Own(tx)
  /\ line # NoFrame => Rx_Buffer \in {line, Garbage}
  /\ queue > 0 \/ pc = "copy" => Asked(Rx_Buffer)
  /\ pc \in {"sum", "answer"} => Asked(hex)

(* A reply under way says what is true, or what has changed since is       *)
(* announced.                                                              *)
Fresh(r) ==
  r \in Normals =>
    /\ r.cmd \in Settings => setting = r.cmd
    /\ r.cmd = "alarm" => r.val >= judged \/ fAlm = 1 \/ dpc # "idle"
    /\ r.cmd = "io" /\ lost = 0 => r.val = io \/ fIo = 1
                                    \/ spc \in {"moved", "store"}

(* A task about to write the flag writes the other task's bit back if it   *)
(* is set, but for the branches' bit when the SUB task came between.       *)
BitsKept ==
  /\ spc = "store" /\ fAlm = 1 => sAlm = 1
  /\ dpc = "store" /\ lost = 0 /\ fIo = 1 => dIo = 1

TypeInv == TypeOK /\ TaskInv
LinkInv == Patient => OneRequest /\ OwnRequest
NewsInv == BitsKept /\ (Patient => Fresh(reply) /\ Fresh(tx))
Inv == TypeInv /\ LinkInv /\ NewsInv

-----------------------------------------------------------------------------
LEMMA NormalFields ==
  /\ \A r \in Normals : /\ r \in Replies /\ r # NoFrame /\ r # Garbage /\ r # Err
                        /\ r.cmd \in Cmds /\ r.cmd \notin Refused
                        /\ r.val \in 0 .. MaxAlm + MaxIo
  /\ \A f \in Requests : /\ f # NoFrame /\ f # Garbage /\ f.cmd \in Cmds
                         /\ f.ok \in {0, 1}
  /\ Garbage # NoFrame /\ Err # NoFrame /\ Err # Garbage
  BY HostAssumption DEF Normals, Requests, Replies

LEMMA TypeStep == TypeInv /\ [Next]_vars => TypeInv'
<1> SUFFICES ASSUME TypeInv, [Next]_vars PROVE TypeInv'
  OBVIOUS
<1> USE HostAssumption DEF TypeInv, TypeOK, Port!PortTypeOK, TaskInv
<1>1. ASSUME NEW c \in Cmds, Ask(c) PROVE TypeInv'
  BY <1>1 DEF Ask, portVars, pcv, flag, tasks, Sized
<1>2. CASE Request
  <2>1. /\ line' \in Requests \cup {Garbage} /\ Rx_Buffer' \in {Rx_Buffer, Garbage}
        /\ noise' \in 0 .. MaxNoise /\ rush' \in 0 .. MaxRush
        /\ UNCHANGED <<rxOn, queue, tx, lock>>
    BY <1>2 DEF Request, Port!Bytes, Requests
  <2> QED
    BY <1>2, <2>1 DEF Request, pcv, flag, tasks, Sized
<1>3. CASE ReplyArrives
  <2>1. hst' \in {"idle", "wait"} /\ want' \in Cmds /\ misled' \in {0, 1}
    BY <1>3 DEF ReplyArrives, Taken, Cmds
  <2>2. known' \in [alarm : 0 .. MaxAlm, io : 0 .. MaxIo, set : Settings]
    <3>1. CASE hst = "wait" /\ tx \in Normals
      <4>1. CASE tx.cmd # want
        BY <1>3, <3>1, <4>1 DEF ReplyArrives, Taken
      <4>2. CASE tx.cmd = want /\ want \in Settings
        BY <1>3, <3>1, <4>2 DEF ReplyArrives, Taken
      <4>3. CASE tx.cmd = want /\ want = "alarm"
        BY <1>3, <3>1, <4>3, NormalFields DEF ReplyArrives, Taken, Sized
      <4>4. CASE tx.cmd = want /\ want = "io"
        BY <1>3, <3>1, <4>4, NormalFields DEF ReplyArrives, Taken, Sized
      <4> QED
        BY <3>1, <4>1, <4>2, <4>3, <4>4, NormalFields DEF Cmds
    <3>2. CASE ~(hst = "wait" /\ tx \in Normals)
      BY <1>3, <3>2 DEF ReplyArrives
    <3> QED
      BY <3>1, <3>2
  <2>3. /\ tx' = NoFrame
        /\ UNCHANGED <<line, Rx_Buffer, rxOn, queue, lock, rush, noise, pcv, flag,
                       tasks>>
    BY <1>3 DEF ReplyArrives, Port!TxDone
  <2> QED
    BY <2>1, <2>2, <2>3, NormalFields DEF pcv, flag, tasks, Sized
<1>4. CASE ReplyLost
  BY <1>4, NormalFields
  DEF ReplyLost, Port!TxDone, host, pcv, flag, tasks, Sized
<1>5. CASE LineIdle
  BY <1>5, NormalFields DEF LineIdle, Port!Idle, host, pcv, flag, tasks, Sized
<1>6. CASE ReceptionError
  BY <1>6 DEF ReceptionError, Port!LineError, host, pcv, flag, tasks, Sized
<1>7. CASE PcGet
  BY <1>7 DEF PcGet, Port!Get, host, flag, tasks, Sized
<1>8. CASE Copy
  BY <1>8 DEF Copy, portVars, host, flag, tasks, Sized
<1>9. CASE Sum
  BY <1>9, NormalFields DEF Sum, portVars, host, flag, tasks, Sized, Replies
<1>10. CASE Answer
  <2>1. hex \in Requests /\ hex.cmd \in Cmds /\ hex.ok \in {0, 1}
    BY <1>10, NormalFields DEF Answer
  <2>2. /\ reply' \in Normals \cup {Err} /\ reply' \in Replies
        /\ Sized(reply')
    BY <1>10, <2>1, NormalFields
    DEF Answer, Handle, ReplyTo, Normals, Replies, Sized, Cmds
  <2>4. setting' \in Settings /\ {fAlm', fIo'} \subseteq {0, 1}
    BY <1>10, <2>1 DEF Answer, Handle
  <2>3. tx' \in Replies \cup {NoFrame} /\ Sized(tx')
    BY <1>10, NormalFields DEF Answer, MayOverwrite, Sized, Replies
  <2> QED
    BY <1>10, <2>2, <2>3, <2>4 DEF Answer, host, tasks, Sized
<1>11. CASE SendLock
  BY <1>11 DEF SendLock, Port!TxLock, host, flag, tasks, Sized
<1>12. CASE SendBusy
  BY <1>12, NormalFields DEF SendBusy, portVars, host, flag, tasks, Sized, Replies
<1>13. CASE SendStart
  BY <1>13, NormalFields
  DEF SendStart, Port!TxStart, host, flag, tasks, Sized, Replies
<1>14. CASE AlmChange \/ AlmAbsent
  BY <1>14 DEF AlmChange, AlmAbsent, portVars, host, pcv, flag, Sized
<1>15. CASE DataTask
  BY <1>15 DEF DataTask, DataLoad, DataStore, portVars, host, pcv, flag, Sized
<1>16. CASE BranchChange
  BY <1>16 DEF BranchChange, portVars, host, pcv, flag, Sized
<1>17. CASE SubTask
  BY <1>17 DEF SubTask, SubLoad, SubStore, portVars, host, pcv, flag, Sized
<1>18. CASE UNCHANGED vars
  BY <1>18 DEF vars, Sized
<1> QED
  BY <1>1, <1>2, <1>3, <1>4, <1>5, <1>6, <1>7, <1>8, <1>9, <1>10, <1>11, <1>12,
     <1>13, <1>14, <1>15, <1>16, <1>17, <1>18 DEF Next, PcTask

(* A host that is patient after a step was patient before it, and a        *)
(* request of it begins when nothing of the last one is left.              *)
LEMMA PatientBefore ==
  TypeOK /\ [Next]_vars /\ Patient' => Patient /\ (Request => AtRest)
<1> SUFFICES ASSUME TypeOK, [Next]_vars, Patient'
             PROVE  Patient /\ (Request => AtRest)
  OBVIOUS
<1>1. rush \in 0 .. MaxRush /\ rush' = MaxRush
  BY DEF TypeOK, Patient
<1>2. CASE Request
  BY <1>1, <1>2, HostAssumption DEF Request, Patient
<1>3. CASE ~Request
  <2>1. rush' = rush
    BY <1>3, Zenon
    DEF Next, vars, Ask, ReplyArrives, ReplyLost, LineIdle, ReceptionError, PcTask,
        PcGet, Copy, Sum, Answer, SendLock, SendBusy, SendStart, AlmChange, AlmAbsent,
        DataTask, DataLoad, DataStore, BranchChange, SubTask, SubLoad, SubStore,
        host
  <2> QED
    BY <1>1, <1>3, <2>1 DEF Patient
<1> QED
  BY <1>2, <1>3

LEMMA LinkStep == TypeInv /\ LinkInv /\ [Next]_vars => LinkInv'
<1> SUFFICES ASSUME TypeInv, LinkInv, [Next]_vars, Patient'
             PROVE  OneRequest' /\ OwnRequest'
  BY DEF LinkInv
<1>a. OneRequest /\ OwnRequest /\ (Request => AtRest) /\ TypeInv'
  BY TypeStep, PatientBefore DEF LinkInv, TypeInv
<1>b. /\ queue \in Nat /\ rxOn \in {0, 1} /\ lock \in {0, 1}
      /\ want \in Cmds /\ tx \in Replies \cup {NoFrame}
      /\ reply \in Normals \cup {Err} /\ hex \in Requests \cup {Garbage}
      /\ reply \in Normals => pc \in {"send", "start"}
      /\ pc = "answer" => hex \in Requests
      /\ line \in Requests \cup {Garbage, NoFrame}
      /\ Rx_Buffer \in Requests \cup {Garbage}
  BY DEF TypeInv, TaskInv, TypeOK, Port!PortTypeOK
<1> USE NormalFields DEF OneRequest, OwnRequest, AtRest, Asked, Own
<1>1. ASSUME NEW c \in Cmds, Ask(c) PROVE OneRequest' /\ OwnRequest'
  BY <1>1, <1>a, <1>b DEF Ask, portVars, pcv
<1>2. CASE Request
  <2>1. /\ line' \in {[cmd |-> want, ok |-> 1], [cmd |-> want, ok |-> 0], Garbage}
        /\ Rx_Buffer' \in {line', Garbage}
        /\ UNCHANGED <<rxOn, queue, tx, lock>>
    BY <1>2, <1>a DEF Request, Port!Bytes
  <2>2. line' # NoFrame /\ (line' \in Requests => line'.cmd = want')
    BY <1>2, <2>1, <1>b DEF Request, Requests
  <2> QED
    BY <1>2, <1>a, <1>b, <2>1, <2>2 DEF Request, pcv
<1>3. CASE ReplyArrives
  <2>1. /\ hst' \in {hst, "idle"} /\ tx # NoFrame /\ tx' = NoFrame
        /\ UNCHANGED <<line, Rx_Buffer, rxOn, queue, lock, pcv>>
    BY <1>3 DEF ReplyArrives, Taken, Port!TxDone
  <2> QED
    BY <1>a, <1>b, <2>1 DEF pcv
<1>4. CASE ReplyLost
  BY <1>4, <1>a, <1>b DEF ReplyLost, Port!TxDone, host, pcv
<1>5. CASE LineIdle
  BY <1>5, <1>a, <1>b DEF LineIdle, Port!Idle, host, pcv
<1>6. CASE ReceptionError
  BY <1>6, <1>a, <1>b DEF ReceptionError, Port!LineError, host, pcv
<1>7. CASE PcGet
  BY <1>7, <1>a, <1>b DEF PcGet, Port!Get, host
<1>8. CASE Copy
  BY <1>8, <1>a, <1>b DEF Copy, portVars, host
<1>9. CASE Sum
  BY <1>9, <1>a, <1>b DEF Sum, portVars, host
<1>10. CASE Answer
  <2>1. /\ tx = NoFrame /\ tx' = NoFrame /\ pc' = "send"
        /\ reply' \in Normals => reply'.cmd = hex.cmd
    BY <1>10, <1>a, <1>b DEF Answer, MayOverwrite, Handle, ReplyTo
  <2> QED
    BY <1>10, <1>a, <1>b, <2>1 DEF Answer, host
<1>11. CASE SendLock
  BY <1>11, <1>a, <1>b DEF SendLock, Port!TxLock, host
<1>12. CASE SendBusy
  BY <1>12, <1>a, <1>b DEF SendBusy, portVars, host
<1>13. CASE SendStart
  BY <1>13, <1>a, <1>b DEF SendStart, Port!TxStart, host
<1>14. CASE AlmChange \/ AlmAbsent
  BY <1>14, <1>a DEF AlmChange, AlmAbsent, portVars, host, pcv
<1>15. CASE DataTask
  BY <1>15, <1>a DEF DataTask, DataLoad, DataStore, portVars, host, pcv
<1>16. CASE BranchChange
  BY <1>16, <1>a DEF BranchChange, portVars, host, pcv
<1>17. CASE SubTask
  BY <1>17, <1>a DEF SubTask, SubLoad, SubStore, portVars, host, pcv
<1>18. CASE UNCHANGED vars
  BY <1>18, <1>a DEF vars
<1> QED
  BY <1>1, <1>2, <1>3, <1>4, <1>5, <1>6, <1>7, <1>8, <1>9, <1>10, <1>11, <1>12,
     <1>13, <1>14, <1>15, <1>16, <1>17, <1>18 DEF Next, PcTask

(* What a reply under way says stays true, or its change is announced, or  *)
(* about to be.                                                            *)
LEMMA NewsStep == TypeInv /\ LinkInv /\ NewsInv /\ [Next]_vars => NewsInv'
<1> SUFFICES ASSUME TypeInv, LinkInv, NewsInv, [Next]_vars PROVE NewsInv'
  OBVIOUS
<1>a. BitsKept /\ {fAlm, fIo, dIo, sAlm, lost} \subseteq {0, 1}
  BY DEF NewsInv, TypeInv, TypeOK
<1>b. Patient' => /\ Patient /\ Fresh(reply) /\ Fresh(tx) /\ OneRequest
                  /\ OwnRequest
  BY PatientBefore DEF NewsInv, LinkInv, TypeInv
<1>c. /\ tx \in Replies \cup {NoFrame} /\ NoFrame \notin Normals
      /\ reply \in Normals \cup {Err} /\ Err \notin Normals
      /\ reply \in Normals => pc \in {"send", "start"}
      /\ alm \in Nat /\ io \in Nat /\ judged \in 0 .. alm
      /\ \A r \in Normals : r.val \in Nat
  BY NormalFields DEF TypeInv, TaskInv, TypeOK, Port!PortTypeOK
(* The steps that leave alone what the news are about.                     *)
<1> DEFINE Quiet == UNCHANGED <<rush, setting, alm, judged, io, fAlm, fIo,
                                dpc, dIo, spc, sAlm, lost>>
<1>1. ASSUME Quiet, tx' \in {tx, NoFrame, reply}, reply' \in {reply, Err}
      PROVE  NewsInv'
  <2>1. BitsKept'
    BY <1>1, <1>a DEF BitsKept
  <2>2. ASSUME Patient' PROVE Fresh(reply)' /\ Fresh(tx)'
    BY <1>1, <1>b, <1>c, <2>2 DEF Fresh
  <2> QED
    BY <2>1, <2>2 DEF NewsInv
<1> HIDE DEF Quiet
<1>2. ASSUME NEW c \in Cmds, Ask(c) PROVE NewsInv'
  BY <1>1, <1>2 DEF Ask, Quiet, portVars, pcv, flag, tasks
<1>3. CASE Request \/ ReplyArrives \/ ReplyLost \/ LineIdle \/ ReceptionError
  <2>1. /\ UNCHANGED <<reply, setting, alm, judged, io, fAlm, fIo, dpc, dIo, spc,
                       sAlm, lost>>
        /\ tx' \in {tx, NoFrame}
    BY <1>3 DEF Request, ReplyArrives, ReplyLost, LineIdle, ReceptionError, pcv, flag,
       tasks, Port!Bytes, Port!TxDone, Port!Idle, Port!LineError
  <2>2. BitsKept'
    BY <2>1, <1>a DEF BitsKept
  <2>3. ASSUME Patient' PROVE Fresh(reply)' /\ Fresh(tx)'
    BY <1>b, <1>c, <2>1, <2>3 DEF Fresh
  <2> QED
    BY <2>2, <2>3 DEF NewsInv
<1>4. CASE PcGet \/ Copy \/ Sum \/ SendLock \/ SendBusy \/ SendStart
  BY <1>1, <1>4
  DEF PcGet, Copy, Sum, SendLock, SendBusy, SendStart, host, portVars, flag, tasks,
      Port!Get, Port!TxLock, Port!TxStart, Quiet
<1>5. CASE Answer
  <2>1. /\ UNCHANGED <<alm, judged, io, dpc, dIo, spc, sAlm, lost>>
        /\ fAlm' \in {fAlm, 0} /\ fIo' \in {fIo, 0}
    BY <1>5 DEF Answer, Handle, tasks
  <2>2. BitsKept'
    BY <1>a, <2>1 DEF BitsKept
  <2>3. ASSUME Patient' PROVE Fresh(reply)' /\ Fresh(tx)'
    <3>1. tx' = NoFrame
      BY <1>5, <1>b, <2>3 DEF Answer, OneRequest, MayOverwrite
    <3>2. hex.ok = 1 /\ (reply' \in Normals => reply'.cmd = hex.cmd)
      BY <1>5, NormalFields DEF TypeInv, TaskInv, Answer, Handle, ReplyTo
    <3>3. hex.cmd \in Settings => setting' = hex.cmd
      BY <1>5, <3>2 DEF Answer, Handle
    <3>4. /\ hex.cmd = "alarm" => reply'.val = alm
          /\ hex.cmd = "io" => reply'.val = io
      BY <1>5, HostAssumption DEF Answer, Handle, ReplyTo
    <3> QED
      BY <1>c, <2>1, <3>1, <3>2, <3>3, <3>4 DEF Fresh
  <2> QED
    BY <2>2, <2>3 DEF NewsInv
<1>6. CASE AlmChange \/ AlmAbsent \/ DataTask \/ BranchChange \/ SubTask
  <2>1. /\ UNCHANGED <<rush, setting, reply, tx>> /\ Patient' = Patient
    BY <1>6 DEF AlmChange, AlmAbsent, DataTask, DataLoad, DataStore, BranchChange, SubTask,
       SubLoad, SubStore, portVars, host, pcv, Patient
  <2>2. BitsKept'
    BY <1>6, <1>a DEF AlmChange, AlmAbsent, DataTask, DataLoad, DataStore, BranchChange, SubTask,
       SubLoad, SubStore, flag, BitsKept
  <2>3. /\ judged = judged' \/ dpc' # "idle"
        /\ fAlm = 1 \/ dpc # "idle" => fAlm' = 1 \/ dpc' # "idle"
    BY <1>6, <1>a DEF AlmChange, AlmAbsent, DataTask, DataLoad, DataStore, BranchChange, SubTask,
       SubLoad, SubStore, flag, BitsKept
  <2>4. lost' = 0 =>
          /\ io = io' \/ spc' = "moved"
          /\ fIo' = 1 \/ lost = 0
          /\ fIo = 1 \/ spc \in {"moved", "store"}
               => fIo' = 1 \/ spc' \in {"moved", "store"}
    BY <1>6, <1>a DEF AlmChange, AlmAbsent, DataTask, DataLoad, DataStore, BranchChange, SubTask,
       SubLoad, SubStore, flag, BitsKept
  <2>5. ASSUME Patient' PROVE Fresh(reply)' /\ Fresh(tx)'
    BY <1>b, <2>1, <2>3, <2>4, <2>5 DEF Fresh
  <2> QED
    BY <2>2, <2>5 DEF NewsInv
<1>7. CASE UNCHANGED vars
  BY <1>1, <1>7 DEF vars, Quiet
<1> QED
  BY <1>2, <1>3, <1>4, <1>5, <1>6, <1>7 DEF Next, PcTask

-----------------------------------------------------------------------------
LEMMA HostInv == Spec => []Inv
<1>1. Init => Inv
  <2> SUFFICES ASSUME Init PROVE Inv
    OBVIOUS
  <2>1. TypeInv
    BY HostAssumption, NormalFields
    DEF Init, TypeInv, TypeOK, TaskInv, Port!PortInit, Port!PortTypeOK, Sized, Cmds,
        Replies
  <2>2. LinkInv
    BY NormalFields
    DEF Init, LinkInv, OneRequest, OwnRequest, Asked, Own, AtRest, Port!PortInit
  <2>3. NewsInv
    BY NormalFields DEF Init, NewsInv, BitsKept, Fresh, Port!PortInit
  <2> QED
    BY <2>1, <2>2, <2>3 DEF Inv
<1>2. Inv /\ [Next]_vars => Inv'
  BY TypeStep, LinkStep, NewsStep DEF Inv
<1> QED
  BY <1>1, <1>2, PTL DEF Spec

(* The fields of what the host knows are its alarms, branches and setting, *)
(* the parameter, the counters and the flag keep their types.              *)
THEOREM HostTypeCorrect == Spec => []TypeOK
<1>1. Inv => TypeOK
  BY DEF Inv, TypeInv
<1> QED
  BY HostInv, <1>1, PTL

(* A patient host takes no reply but its own, though replies carry no mark *)
(* of their request, and none is sent from a buffer in use again.          *)
THEOREM HostTakesOwnReply == Spec => []ReplyFits
<1>1. Init => ReplyFits
  BY NormalFields DEF Init, ReplyFits, Port!PortInit
<1>2. Inv /\ ReplyFits /\ [Next]_vars => ReplyFits'
  <2> SUFFICES ASSUME Inv, ReplyFits, [Next]_vars, Patient'
               PROVE  misled' = 0 /\ tx' # Garbage
    BY DEF ReplyFits
  <2>1. misled = 0 /\ tx # Garbage /\ OneRequest /\ Own(tx) /\ reply # Garbage
    BY PatientBefore, NormalFields
    DEF Inv, TypeInv, TaskInv, LinkInv, OwnRequest, ReplyFits
  <2>2. CASE ReplyArrives
    BY <2>1, <2>2, NormalFields DEF ReplyArrives, Taken, Port!TxDone, Own
  <2>3. CASE Answer
    BY <2>1, <2>3 DEF Answer, MayOverwrite, OneRequest, host
  <2>4. CASE ~ReplyArrives /\ ~Answer
    <3>1. misled' = misled
      BY <2>4, Zenon
      DEF Next, vars, Ask, Request, ReplyLost, LineIdle, ReceptionError, PcTask, PcGet,
          Copy, Sum, SendLock, SendBusy, SendStart, AlmChange, AlmAbsent, DataTask, DataLoad,
          DataStore, BranchChange, SubTask, SubLoad, SubStore, host
    <3>2. tx' \in {tx, NoFrame, reply}
      BY <2>4
      DEF Next, vars, Ask, Request, ReplyLost, LineIdle, ReceptionError, PcTask, PcGet,
          Copy, Sum, SendLock, SendBusy, SendStart, AlmChange, AlmAbsent, DataTask, DataLoad,
          DataStore, BranchChange, SubTask, SubLoad, SubStore, portVars, Port!Bytes,
          Port!TxDone, Port!Idle, Port!LineError, Port!Get, Port!TxLock, Port!TxStart
    <3> QED
      BY <2>1, <3>1, <3>2, NormalFields
  <2> QED
    BY <2>2, <2>3, <2>4
<1> QED
  BY HostInv, <1>1, <1>2, PTL DEF Spec

(* Between its requests a patient host and the device agree on the         *)
(* parameter: a set request is not handled again once it was answered.     *)
THEOREM SetIsConfirmed == Spec => []SetConfirmed
<1> DEFINE Setting == hst # "idle" /\ want \in Settings
           Agreed == Patient => setting = known.set \/ Setting
<1>a. SetConfirmed <=> Agreed
  BY DEF SetConfirmed, Asking
<1>b. SetConfirmed' <=> Agreed'
  BY DEF SetConfirmed, Asking
<1>1. Init => SetConfirmed
  BY <1>a DEF Init
<1>2. Inv /\ SetConfirmed /\ [Next]_vars => SetConfirmed'
  <2> SUFFICES ASSUME Inv, SetConfirmed, [Next]_vars, Patient'
               PROVE  (setting = known.set \/ Setting)'
    BY <1>b
  <2>1. /\ setting = known.set \/ Setting
        /\ OneRequest /\ OwnRequest /\ Fresh(tx)
        /\ pc = "answer" => hex \in Requests
        /\ known \in [alarm : 0 .. MaxAlm, io : 0 .. MaxIo, set : Settings]
    BY PatientBefore, <1>a
    DEF Inv, TypeInv, TypeOK, TaskInv, LinkInv, NewsInv
  <2>2. ASSUME NEW c \in Cmds, Ask(c) PROVE (setting = known.set \/ Setting)'
    BY <2>1, <2>2 DEF Ask, pcv
  <2>3. CASE ReplyArrives
    <3>1. CASE hst = "wait" /\ tx \in Normals
      <4>1. tx.cmd = want /\ setting' = setting
        BY <2>1, <2>3, <3>1 DEF ReplyArrives, OwnRequest, Own, pcv
      <4>2. CASE want \in Settings
        <5>1. known' = [known EXCEPT !.set = want] /\ setting = want
          BY <2>1, <2>3, <3>1, <4>1, <4>2 DEF ReplyArrives, Taken, Fresh
        <5>2. known'.set = want
          BY <2>1, <5>1
        <5> QED
          BY <4>1, <5>1, <5>2
      <4>3. CASE want \notin Settings
        <5>1. want \in {"alarm", "io"} /\ known' = [known EXCEPT ![want] = tx.val]
          BY <2>3, <3>1, <4>1, <4>3, NormalFields
          DEF ReplyArrives, Taken, Inv, TypeInv, TypeOK, Cmds
        <5>2. known'.set = known.set
          BY <2>1, <5>1
        <5> QED
          BY <2>1, <4>1, <4>3, <5>2
      <4> QED
        BY <4>2, <4>3
    <3>2. CASE ~(hst = "wait" /\ tx \in Normals)
      BY <2>1, <2>3, <3>2, HostAssumption DEF ReplyArrives, pcv
    <3> QED
      BY <3>1, <3>2
  <2>4. CASE Answer
    <3>1. hst = "wait" /\ hex.cmd = want /\ UNCHANGED <<hst, want, known>>
      BY <2>1, <2>4 DEF Answer, OneRequest, AtRest, OwnRequest, Asked, host
    <3> QED
      BY <2>1, <2>4, <3>1 DEF Answer, Handle
  <2>5. CASE ~ReplyArrives /\ ~Answer /\ ~\E c \in Cmds : Ask(c)
    <3>1. UNCHANGED <<hst, want, known, setting>>
      BY <2>5, Zenon
      DEF Next, vars, Request, ReplyLost, LineIdle, ReceptionError, PcTask, PcGet,
          Copy, Sum, SendLock, SendBusy, SendStart, AlmChange, AlmAbsent, DataTask, DataLoad,
          DataStore, BranchChange, SubTask, SubLoad, SubStore, host, pcv
    <3> QED
      BY <2>1, <3>1
  <2> QED
    BY <2>2, <2>3, <2>4, <2>5
<1> QED
  BY HostInv, <1>1, <1>2, PTL DEF Spec

(* What an answer tells a patient host of the alarms or of the branches,   *)
(* and that it tells nothing of what it does not name; a refusal tells     *)
(* nothing.                                                                *)
LEMMA Told ==
  ASSUME Inv, [Next]_vars, Patient', hst # "idle", hst' = "idle"
  PROVE  /\ UNCHANGED <<alm, judged, io, fAlm, fIo, dpc, spc, lost>>
         /\ known'.alarm = IF want = "alarm" THEN tx.val ELSE known.alarm
         /\ known'.io = IF want = "io" THEN tx.val ELSE known.io
         /\ want \in {"alarm", "io"} =>
              tx \in Normals /\ Fresh(tx) /\ tx.cmd = want
<1>1. /\ ReplyArrives /\ hst = "wait"
      /\ tx \in Normals \/ (tx = Err /\ want \in Refused)
  <2>1. ReplyArrives
    BY Zenon
    DEF Next, vars, Ask, Request, ReplyLost, LineIdle, ReceptionError, PcTask, PcGet,
        Copy, Sum, Answer, SendLock, SendBusy, SendStart, AlmChange, AlmAbsent,
        DataTask, DataLoad, DataStore, BranchChange, SubTask, SubLoad, SubStore, host
  <2> QED
    BY <2>1 DEF ReplyArrives
<1>2. /\ Fresh(tx) /\ Own(tx) /\ want \in Cmds
      /\ known \in [alarm : 0 .. MaxAlm, io : 0 .. MaxIo, set : Settings]
  BY PatientBefore DEF Inv, TypeInv, TypeOK, LinkInv, OwnRequest, NewsInv
<1>3. /\ tx \in Normals => tx.cmd = want /\ want \notin Refused
      /\ UNCHANGED <<alm, judged, io, fAlm, fIo, dpc, spc, lost>>
  BY <1>1, <1>2, NormalFields DEF Own, ReplyArrives, flag, tasks
<1>4. CASE want \in Settings
  <2>1. known' = [known EXCEPT !.set = want] /\ want # "alarm" /\ want # "io"
    BY <1>1, <1>3, <1>4, HostAssumption DEF ReplyArrives, Taken
  <2> QED
    BY <1>1, <1>2, <1>3, <2>1
<1>5. CASE want = "alarm" /\ want \notin Settings
  BY <1>1, <1>2, <1>3, <1>5, HostAssumption DEF ReplyArrives, Taken
<1>6. CASE want = "io" /\ want \notin Settings
  BY <1>1, <1>2, <1>3, <1>6, HostAssumption DEF ReplyArrives, Taken
<1>7. CASE want \in Refused
  <2>1. tx = Err /\ tx \notin Normals /\ want \notin {"alarm", "io"}
    BY <1>1, <1>3, <1>7, HostAssumption
  <2>2. known' = known
    BY <1>1, <1>7, <2>1 DEF ReplyArrives
  <2> QED
    BY <1>3, <2>1, <2>2
<1> QED
  BY <1>2, <1>4, <1>5, <1>6, <1>7 DEF Cmds

(* And what a host that goes on waiting, or has nothing asked, knows stays *)
(* as it was.                                                              *)
LEMMA NotTold ==
  ASSUME [Next]_vars, ~(hst # "idle" /\ hst' = "idle")
  PROVE  known' = known /\ (hst # "idle" => hst' = hst /\ want' = want)
<1>1. CASE ReplyArrives
  BY <1>1 DEF ReplyArrives, Taken
<1>2. CASE ~ReplyArrives
  BY <1>2, Zenon
  DEF Next, vars, Ask, Request, ReplyLost, LineIdle, ReceptionError, PcTask, PcGet,
      Copy, Sum, Answer, SendLock, SendBusy, SendStart, AlmChange, AlmAbsent, DataTask,
      DataLoad, DataStore, BranchChange, SubTask, SubLoad, SubStore, host
<1> QED
  BY <1>1, <1>2

(* An alarm or its end is announced to a patient host until it is read:    *)
(* the three tasks share the flag without a lock, and no order of their    *)
(* loads and stores loses the alarms' bit.                                 *)
THEOREM AlarmsAreAnnounced == Spec => []AlarmAnnounced
<1> DEFINE Coming == fAlm = 1 \/ dpc # "idle"
<1>1. Init => AlarmAnnounced
  BY DEF Init, AlarmAnnounced
<1>2. Inv /\ AlarmAnnounced /\ [Next]_vars => AlarmAnnounced'
  <2> SUFFICES ASSUME Inv, AlarmAnnounced, [Next]_vars, Patient'
               PROVE  known'.alarm >= judged' \/ Coming' \/ Asking("alarm")'
    BY DEF AlarmAnnounced
  <2>1. /\ known.alarm >= judged \/ Coming \/ Asking("alarm")
        /\ OneRequest /\ OwnRequest /\ BitsKept
        /\ pc = "answer" => hex \in Requests
        /\ {fAlm, sAlm} \subseteq {0, 1} /\ hst \in {"idle", "wait"}
    BY PatientBefore
    DEF AlarmAnnounced, Inv, TypeInv, TypeOK, TaskInv, LinkInv, NewsInv
  <2>2. CASE hst # "idle" /\ hst' = "idle"
    BY <2>1, <2>2, Told DEF Fresh, Asking
  <2> DEFINE Ends == hst # "idle" /\ hst' = "idle"
  <2>3. CASE ~Ends /\ (AlmChange \/ AlmAbsent \/ DataTask \/ BranchChange \/ SubTask)
    <3>1. /\ judged = judged' \/ dpc' # "idle"
          /\ Coming => Coming'
      BY <2>1, <2>3 DEF AlmChange, AlmAbsent, DataTask, DataLoad, DataStore, BranchChange,
         SubTask, SubLoad, SubStore, flag, BitsKept
    <3> QED
      BY <2>1, <2>3, <3>1, NotTold DEF Asking
  <2>4. CASE ~Ends /\ Answer
    <3>1. /\ hst = "wait" /\ hex.cmd = want
          /\ UNCHANGED <<hst, want, known, judged, dpc>>
      BY <2>1, <2>4 DEF Answer, OneRequest, AtRest, OwnRequest, Asked, host, tasks
    <3> QED
      BY <2>1, <2>4, <3>1 DEF Answer, Handle, Asking
  <2>5. CASE /\ ~Ends /\ ~Answer
             /\ ~(AlmChange \/ AlmAbsent \/ DataTask \/ BranchChange \/ SubTask)
    <3>1. UNCHANGED <<judged, fAlm, dpc>>
      BY <2>5, Zenon
      DEF Next, vars, Ask, Request, ReplyArrives, ReplyLost, LineIdle,
          ReceptionError, PcTask, PcGet, Copy, Sum, SendLock, SendBusy, SendStart,
          flag, tasks
    <3> QED
      BY <2>1, <2>5, <3>1, NotTold DEF Asking
  <2> QED
    BY <2>2, <2>3, <2>4, <2>5
<1> QED
  BY HostInv, <1>1, <1>2, PTL DEF Spec

(* The same for the branches' bit, unless the SUB task never set it or     *)
(* wrote the flag between the Data task's load and its store.              *)
THEOREM BranchesAreAnnounced == Spec => []BranchAnnounced
<1> DEFINE Coming == fIo = 1 \/ spc \in {"moved", "store"}
<1>1. Init => BranchAnnounced
  BY DEF Init, BranchAnnounced
<1>2. Inv /\ BranchAnnounced /\ [Next]_vars => BranchAnnounced'
  <2> SUFFICES ASSUME Inv, BranchAnnounced, [Next]_vars, Patient', lost' = 0
               PROVE  known'.io = io' \/ Coming' \/ Asking("io")'
    BY DEF BranchAnnounced
  <2>1. /\ lost = 0 => known.io = io \/ Coming \/ Asking("io")
        /\ OneRequest /\ OwnRequest /\ BitsKept
        /\ pc = "answer" => hex \in Requests
        /\ {fIo, dIo, lost} \subseteq {0, 1} /\ hst \in {"idle", "wait"}
    BY PatientBefore
    DEF BranchAnnounced, Inv, TypeInv, TypeOK, TaskInv, LinkInv, NewsInv
  <2>2. CASE hst # "idle" /\ hst' = "idle"
    BY <2>1, <2>2, Told DEF Fresh, Asking
  <2> DEFINE Ends == hst # "idle" /\ hst' = "idle"
  <2>3. CASE ~Ends /\ (AlmChange \/ AlmAbsent \/ DataTask \/ BranchChange \/ SubTask)
    <3>1. /\ io = io' \/ spc' = "moved"
          /\ lost = 0 \/ fIo' = 1
          /\ Coming => Coming'
      BY <2>1, <2>3 DEF AlmChange, AlmAbsent, DataTask, DataLoad, DataStore, BranchChange,
         SubTask, SubLoad, SubStore, flag, BitsKept
    <3> QED
      BY <2>1, <2>3, <3>1, NotTold DEF Asking
  <2>4. CASE ~Ends /\ Answer
    <3>1. /\ hst = "wait" /\ hex.cmd = want
          /\ UNCHANGED <<hst, want, known, io, spc, lost>>
      BY <2>1, <2>4 DEF Answer, OneRequest, AtRest, OwnRequest, Asked, host, tasks
    <3> QED
      BY <2>1, <2>4, <3>1 DEF Answer, Handle, Asking
  <2>5. CASE /\ ~Ends /\ ~Answer
             /\ ~(AlmChange \/ AlmAbsent \/ DataTask \/ BranchChange \/ SubTask)
    <3>1. UNCHANGED <<io, fIo, spc, lost>>
      BY <2>5, Zenon
      DEF Next, vars, Ask, Request, ReplyArrives, ReplyLost, LineIdle,
          ReceptionError, PcTask, PcGet, Copy, Sum, SendLock, SendBusy, SendStart,
          flag, tasks
    <3> QED
      BY <2>1, <2>5, <3>1, NotTold DEF Asking
  <2> QED
    BY <2>2, <2>3, <2>4, <2>5
<1> QED
  BY HostInv, <1>1, <1>2, PTL DEF Spec

-----------------------------------------------------------------------------
(* What the host link sends as characters arrives as the same bytes.       *)
THEOREM BytesArrive ==
  \A b \in Byte : /\ HEX2ASCII(b)[1] \in Byte /\ HEX2ASCII(b)[2] \in Byte
                  /\ ASCII2HEX(HEX2ASCII(b)[1], HEX2ASCII(b)[2]) = b
<1> SUFFICES ASSUME NEW b \in Byte
             PROVE  /\ HEX2ASCII(b)[1] \in Byte /\ HEX2ASCII(b)[2] \in Byte
                    /\ ASCII2HEX(HEX2ASCII(b)[1], HEX2ASCII(b)[2]) = b
  OBVIOUS
<1> DEFINE hi == (b \div 16) % 16
           lo == b % 16
<1>1. hi \in Digit /\ lo \in Digit /\ (hi * 16) + lo = b
  BY DEF Byte, Digit
<1>2. \A d \in Digit : HEX_Table[d] \in Byte /\ ASCII_Table[HEX_Table[d]] = d
  BY DEF HEX_Table, ASCII_Table, Digit, Byte
<1>3. HEX2ASCII(b)[1] = HEX_Table[hi] /\ HEX2ASCII(b)[2] = HEX_Table[lo]
  BY DEF HEX2ASCII
<1> HIDE DEF hi, lo
<1>4. ASCII2HEX(HEX_Table[hi], HEX_Table[lo]) = ((hi * 16) + lo) % 256
  BY <1>1, <1>2 DEF ASCII2HEX
<1>5. b % 256 = b
  BY DEF Byte
<1> QED
  BY <1>1, <1>2, <1>3, <1>4, <1>5

(* A digit before the three digits of a length.                            *)
LEMMA DigitBefore ==
  ASSUME NEW c \in Digit, NEW x \in Length
  PROVE  /\ (c * 4096) + x \in Word
         /\ ((c * 4096) + x) % 4096 = x
         /\ ((c * 4096) + x) \div 4096 = c
<1>1. /\ c \in Nat /\ 0 <= c /\ c <= 15
      /\ x \in Nat /\ 0 <= x /\ x <= 4095
  BY DEF Digit, Length
<1>2. (c * 4096) + x \in Word
  <2> DEFINE top == 65535
             n == (c * 4096) + x
  <2>1. n \in Nat /\ top \in Nat /\ n <= top
    BY <1>1
  <2>2. Word = 0 .. top
    BY DEF Word
  <2> HIDE DEF top, n
  <2>3. n \in 0 .. top
    BY <2>1
  <2> QED
    BY <2>2, <2>3 DEF n
<1>3. ((c * 4096) + x) % 4096 = x
  BY <1>1
<1>4. ((c * 4096) + x) \div 4096 = c
  BY <1>1
<1> QED
  BY <1>2, <1>3, <1>4

(* A length of up to 4095 characters is sent as itself with a digit before *)
(* it that makes the digits' sum a multiple of 16 (nTxFramHandle sends the *)
(* word so, and gPCProtoHandle compares all of it).                        *)
THEOREM LengthIsChecked ==
  \A x \in Length :
    /\ LCHKsum(x) \in Word
    /\ LCHKsum(x) % 4096 = x
    /\ (LengthSum(LCHKsum(x)) + DigitAt(LCHKsum(x), 4096)) % 16 = 0
<1> TAKE x \in Length
<1> DEFINE s == LengthSum(x)
           c == Complement(s % 16, 16)
<1>1. s \in Nat /\ DigitAt(x, 4096) = 0 /\ x % 4096 = x
  BY DEF LengthSum, DigitAt, Length
<1> HIDE DEF s
<1>2. c \in Digit /\ (s + c) % 16 = 0
  BY <1>1 DEF Complement, Digit
<1> HIDE DEF c
<1>3. OrDigits(c, 0) = c
  BY <1>2 DEF OrDigits, Either, Bit, Digit
<1>4. LCHKsum(x) = (c * 4096) + x
  BY <1>1, <1>3 DEF LCHKsum, c, s
<1>5. /\ (c * 4096) + x \in Word
      /\ ((c * 4096) + x) % 4096 = x
      /\ ((c * 4096) + x) \div 4096 = c
  BY <1>2, DigitBefore
<1>6. /\ DigitAt((c * 4096) + x, 1) = DigitAt(x, 1)
      /\ DigitAt((c * 4096) + x, 16) = DigitAt(x, 16)
      /\ DigitAt((c * 4096) + x, 256) = DigitAt(x, 256)
      /\ DigitAt((c * 4096) + x, 4096) = c
  BY <1>2, <1>5 DEF DigitAt, Digit, Length
<1>7. LengthSum((c * 4096) + x) = s
  BY <1>6 DEF LengthSum, s
<1> QED
  BY <1>2, <1>4, <1>5, <1>6, <1>7
=============================================================================
