-------------------------- MODULE TcpClientProofs ---------------------------
(* Proofs about TcpClient, for pools of any size: callbacks, structures    *)
(* and message buffers stay together whatever lwIP drops and when.         *)
EXTENDS TcpClient, TLAPS

(* What the shape of a connection says besides: only an established        *)
(* connection has callbacks, only a written message is in flight, a free   *)
(* structure holds nothing.                                                *)
Phases ==
  /\ \A p \in Pcbs : cb[p] = 1 => pcb[p] \in {"open", "remote"}
  /\ \A p \in Pcbs : pcb[p] = "syn" => flight[p] = "none"
  /\ \A e \in Structs : es[e].state = "free" => es[e].ptx = NoPbuf

IInv == TypeOK /\ Phases /\ CallbackOwnsStruct /\ BufferOwned /\ MessageOnce

LEMMA InitIInv == Init => IInv
  <1> SUFFICES ASSUME Init PROVE IInv
    OBVIOUS
  <1>1. NoEs \in EsRecords /\ NoEs.state = "free" /\ NoEs.ptx = NoPbuf
    BY DEF NoEs, EsRecords
  <1>2. \A e \in Structs : es[e] = NoEs
    BY DEF Init
  <1>3. TypeOK
    BY <1>1 DEF Init, TypeOK, PcbStates
  <1>4. \A p \in Pcbs : cb[p] = 0 /\ pcb[p] = "free" /\ flight[p] = "none"
    BY DEF Init
  <1> QED BY <1>1, <1>2, <1>3, <1>4
        DEF IInv, Phases, CallbackOwnsStruct, BufferOwned, MessageOnce

(* A cleared control block is out of every claim.                          *)
LEMMA ResetKeeps ==
  ASSUME IInv, NEW p \in Pcbs, NEW s \in {"free", "unused", "syn"},
         ResetPcb(p, s), UNCHANGED heap, link' \in {0, 1},
         Cable_state' \in {"boot", "in", "out"}
  PROVE  IInv'
  <1> USE DEF IInv
  <1>1. /\ es' = es /\ pbufs' = pbufs
        /\ pcb' \in [Pcbs -> PcbStates]
        /\ arg' \in [Pcbs -> Structs \cup {NoStruct}]
        /\ cb' \in [Pcbs -> {0, 1}]
        /\ flight' \in [Pcbs -> {"none", "unacked", "acked"}]
    BY DEF ResetPcb, heap, TypeOK, PcbStates
  <1>2. /\ cb'[p] = 0 /\ flight'[p] = "none"
        /\ \A q \in Pcbs : q # p => /\ cb'[q] = cb[q] /\ arg'[q] = arg[q]
                                    /\ pcb'[q] = pcb[q] /\ flight'[q] = flight[q]
    BY DEF ResetPcb, TypeOK
  <1>3. TypeOK'
    BY <1>1 DEF TypeOK
  <1>4. Phases'
    BY <1>1, <1>2 DEF Phases
  <1>5. CallbackOwnsStruct'
    BY <1>1, <1>2 DEF CallbackOwnsStruct
  <1>6. BufferOwned'
    BY <1>1 DEF BufferOwned
  <1>7. MessageOnce'
    BY <1>1, <1>2 DEF MessageOnce
  <1> QED BY <1>3, <1>4, <1>5, <1>6, <1>7

(* A close takes the callbacks away in the step that frees the structure.  *)
LEMMA CloseKeeps ==
  ASSUME IInv, NEW p \in Pcbs, cb[p] = 1, Close(p, arg[p]),
         UNCHANGED <<link, Cable_state>>
  PROVE  IInv'
  <1> USE DEF IInv
  <1> DEFINE e == arg[p]
  <1>1. e \in Structs /\ NoEs \in EsRecords /\ NoEs.state = "free" /\ NoEs.ptx = NoPbuf
    BY DEF CallbackOwnsStruct, NoEs, EsRecords
  <1>2. /\ arg' = arg /\ flight' = flight /\ pbufs' = pbufs
        /\ pcb' \in [Pcbs -> PcbStates] /\ cb' \in [Pcbs -> {0, 1}]
        /\ es' \in [Structs -> EsRecords]
    BY <1>1 DEF Close, Closing, TypeOK, PcbStates
  <1>3. /\ cb'[p] = 0 /\ pcb'[p] = "closing" /\ es'[e] = NoEs
        /\ \A q \in Pcbs : q # p => cb'[q] = cb[q] /\ pcb'[q] = pcb[q]
        /\ \A d \in Structs : d # e => es'[d] = es[d]
    BY <1>1 DEF Close, Closing, TypeOK
  <1>4. \A q \in Pcbs : q # p /\ cb[q] = 1 => arg[q] # e
    BY DEF CallbackOwnsStruct
  <1>5. TypeOK'
    BY <1>2 DEF TypeOK
  <1>6. Phases'
    BY <1>1, <1>2, <1>3 DEF Phases
  <1>7. CallbackOwnsStruct'
    BY <1>1, <1>2, <1>3, <1>4 DEF CallbackOwnsStruct
  <1>8. BufferOwned'
    BY <1>1, <1>2, <1>3 DEF BufferOwned
  <1>9. MessageOnce'
    <2> SUFFICES ASSUME NEW q \in Pcbs, cb'[q] = 1
                 PROVE  es'[arg'[q]].ptx = NoPbuf <=> flight'[q] # "none"
      BY DEF MessageOnce
    <2>1. q # p /\ cb[q] = 1
      BY <1>3
    <2>2. arg[q] \in Structs /\ arg[q] # e
      BY <2>1, <1>4 DEF CallbackOwnsStruct
    <2>3. es'[arg'[q]] = es[arg[q]] /\ flight'[q] = flight[q]
      BY <2>2, <1>2, <1>3
    <2> QED BY <2>1, <2>3 DEF MessageOnce
  <1> QED BY <1>5, <1>6, <1>7, <1>8, <1>9

(* A send hands the message over or keeps it.                              *)
LEMMA SendKeeps ==
  ASSUME IInv, NEW p \in Pcbs, cb[p] = 1,
         NEW s \in {"connected", "closing"}, Send(p, arg[p], s),
         NEW t \in {"open", "remote"}, pcb' = [pcb EXCEPT ![p] = t],
         UNCHANGED <<link, Cable_state, arg, cb>>
  PROVE  IInv'
  <1> USE DEF IInv
  <1> DEFINE e == arg[p]
  <1>1. e \in Structs /\ es[e].ptx # NoPbuf /\ es[e] \in EsRecords
    BY DEF CallbackOwnsStruct, Send, TypeOK
  <1>2. PICK b \in {NoPbuf, es[e].ptx} :
          /\ es' = [es EXCEPT ![e] = [state |-> s, ptx |-> b]]
          /\ b = NoPbuf => /\ flight' = [flight EXCEPT ![p] = "unacked"]
                           /\ pbufs' = pbufs \ {es[e].ptx}
          /\ b # NoPbuf => flight' = flight /\ pbufs' = pbufs
    BY <1>1 DEF Send, Written
  <1>3. [state |-> s, ptx |-> b] \in EsRecords
    BY <1>1, <1>2 DEF EsRecords
  <1>4. /\ es' \in [Structs -> EsRecords]
        /\ es'[e].ptx = b /\ es'[e].state = s
        /\ \A d \in Structs : d # e => es'[d] = es[d]
    BY <1>1, <1>2, <1>3 DEF TypeOK
  <1>5. /\ flight' \in [Pcbs -> {"none", "unacked", "acked"}]
        /\ flight'[p] = IF b = NoPbuf THEN "unacked" ELSE flight[p]
        /\ \A q \in Pcbs : q # p => flight'[q] = flight[q]
    BY <1>2 DEF TypeOK
  <1>6. /\ pcb' \in [Pcbs -> PcbStates] /\ pcb'[p] = t
        /\ \A q \in Pcbs : q # p => pcb'[q] = pcb[q]
    BY DEF TypeOK, PcbStates
  <1>7. TypeOK'
    BY <1>2, <1>4, <1>5, <1>6 DEF TypeOK
  <1>8. Phases'
    BY <1>4, <1>5, <1>6 DEF Phases
  <1>9. CallbackOwnsStruct'
    BY <1>1, <1>4 DEF CallbackOwnsStruct
  <1>10. BufferOwned'
    BY <1>1, <1>2, <1>4 DEF BufferOwned
  <1>11. MessageOnce'
    <2> SUFFICES ASSUME NEW q \in Pcbs, cb[q] = 1
                 PROVE  es'[arg[q]].ptx = NoPbuf <=> flight'[q] # "none"
      BY DEF MessageOnce
    <2>1. CASE q = p
      BY <2>1, <1>1, <1>4, <1>5 DEF MessageOnce
    <2>2. CASE q # p
      <3>1. arg[q] \in Structs /\ arg[q] # e
        BY <2>2 DEF CallbackOwnsStruct
      <3> QED BY <3>1, <2>2, <1>4, <1>5 DEF MessageOnce
    <2> QED BY <2>1, <2>2
  <1> QED BY <1>7, <1>8, <1>9, <1>10, <1>11

(* A new connection takes a structure and a buffer nobody has.             *)
LEMMA ConnectedKeeps ==
  ASSUME IInv, NEW p \in Pcbs, NEW e \in Structs, NEW b \in Pbufs,
         Connected(p, e, b)
  PROVE  IInv'
  <1> USE DEF IInv
  <1>1. /\ pcb[p] = "syn" /\ cb[p] = 0 /\ flight[p] = "none"
        /\ es[e].state = "free" /\ b \notin pbufs /\ b # NoPbuf
    BY TcpAssumption DEF Connected, FreeStructs, FreePbufs, Phases, TypeOK
  <1>2. PICK x \in {NoPbuf, b} :
          /\ es' = [es EXCEPT ![e] = [state |-> "connected", ptx |-> x]]
          /\ x = NoPbuf => /\ flight' = [flight EXCEPT ![p] = "unacked"]
                           /\ pbufs' = pbufs
          /\ x = b => flight' = flight /\ pbufs' = pbufs \cup {b}
    BY <1>1 DEF Connected
  <1>3. [state |-> "connected", ptx |-> x] \in EsRecords
    BY <1>2 DEF EsRecords
  <1>4. /\ es' \in [Structs -> EsRecords]
        /\ es'[e].ptx = x /\ es'[e].state = "connected"
        /\ \A d \in Structs : d # e => es'[d] = es[d]
    BY <1>2, <1>3 DEF TypeOK
  <1>5. /\ flight' \in [Pcbs -> {"none", "unacked", "acked"}]
        /\ flight'[p] = IF x = NoPbuf THEN "unacked" ELSE "none"
        /\ \A q \in Pcbs : q # p => flight'[q] = flight[q]
    BY <1>1, <1>2 DEF TypeOK
  <1>6. /\ pcb' \in [Pcbs -> PcbStates] /\ arg' \in [Pcbs -> Structs \cup {NoStruct}]
        /\ cb' \in [Pcbs -> {0, 1}]
        /\ pcb'[p] = "open" /\ arg'[p] = e /\ cb'[p] = 1
        /\ \A q \in Pcbs : q # p => /\ pcb'[q] = pcb[q] /\ arg'[q] = arg[q]
                                    /\ cb'[q] = cb[q]
    BY DEF Connected, TypeOK, PcbStates
  <1>7. \A q \in Pcbs : cb[q] = 1 => arg[q] \in Structs /\ arg[q] # e
    BY <1>1 DEF CallbackOwnsStruct
  <1>8. TypeOK'
    BY <1>1, <1>2, <1>4, <1>5, <1>6 DEF TypeOK, Connected
  <1>9. Phases'
    BY <1>4, <1>5, <1>6 DEF Phases
  <1>10. CallbackOwnsStruct'
    BY <1>4, <1>6, <1>7 DEF CallbackOwnsStruct
  <1>11. BufferOwned'
    BY <1>1, <1>2, <1>4 DEF BufferOwned
  <1>12. MessageOnce'
    <2> SUFFICES ASSUME NEW q \in Pcbs, cb'[q] = 1
                 PROVE  es'[arg'[q]].ptx = NoPbuf <=> flight'[q] # "none"
      BY DEF MessageOnce
    <2>1. CASE q = p
      BY <2>1, <1>1, <1>2, <1>4, <1>5, <1>6
    <2>2. CASE q # p
      BY <2>2, <1>4, <1>5, <1>6, <1>7 DEF MessageOnce
    <2> QED BY <2>1, <2>2
  <1> QED BY <1>8, <1>9, <1>10, <1>11, <1>12

(* No buffer: a structure is lost, and only that.                          *)
LEMMA NoPbufKeeps ==
  ASSUME IInv, NEW p \in Pcbs, NEW e \in Structs, ConnectedNoPbuf(p, e)
  PROVE  IInv'
  <1> USE DEF IInv
  <1>1. [state |-> "connected", ptx |-> NoPbuf] \in EsRecords
    BY DEF EsRecords
  <1>2. /\ es' \in [Structs -> EsRecords]
        /\ es'[e].ptx = NoPbuf /\ es'[e].state = "connected"
        /\ \A d \in Structs : d # e => es'[d] = es[d]
    BY <1>1 DEF ConnectedNoPbuf, TypeOK
  <1>3. /\ pcb' \in [Pcbs -> PcbStates] /\ pcb'[p] = "open"
        /\ \A q \in Pcbs : q # p => pcb'[q] = pcb[q]
    BY DEF ConnectedNoPbuf, TypeOK, PcbStates
  <1>4. \A q \in Pcbs : cb[q] = 1 => arg[q] \in Structs /\ arg[q] # e
    BY DEF CallbackOwnsStruct, ConnectedNoPbuf, FreeStructs
  <1>5. UNCHANGED <<link, Cable_state, arg, cb, flight, pbufs>>
    BY DEF ConnectedNoPbuf
  <1>6. TypeOK'
    BY <1>2, <1>3, <1>5 DEF TypeOK
  <1>7. Phases'
    BY <1>2, <1>3, <1>5 DEF Phases
  <1>8. CallbackOwnsStruct'
    BY <1>2, <1>4, <1>5 DEF CallbackOwnsStruct
  <1>9. BufferOwned'
    BY <1>2, <1>5 DEF BufferOwned
  <1>10. MessageOnce'
    BY <1>2, <1>4, <1>5 DEF MessageOnce
  <1> QED BY <1>6, <1>7, <1>8, <1>9, <1>10

(* A close of a connection without callbacks touches no structure.         *)
LEMMA BareCloseKeeps ==
  ASSUME IInv, NEW p \in Pcbs, cb[p] = 0, Closing(p), UNCHANGED heap,
         UNCHANGED <<link, Cable_state>>
  PROVE  IInv'
  <1> USE DEF IInv
  <1>1. /\ pcb' \in [Pcbs -> PcbStates] /\ pcb'[p] = "closing" /\ cb' = cb
        /\ \A q \in Pcbs : q # p => pcb'[q] = pcb[q]
        /\ UNCHANGED <<link, Cable_state, arg, flight, es, pbufs>>
    BY DEF Closing, heap, TypeOK, PcbStates
  <1>2. TypeOK'
    BY <1>1 DEF TypeOK
  <1>3. Phases'
    BY <1>1 DEF Phases
  <1>4. CallbackOwnsStruct' /\ BufferOwned' /\ MessageOnce'
    BY <1>1 DEF CallbackOwnsStruct, BufferOwned, MessageOnce
  <1> QED BY <1>2, <1>3, <1>4

LEMMA NextIInv == IInv /\ [Next]_vars => IInv'
  <1> SUFFICES ASSUME IInv, [Next]_vars PROVE IInv'
    OBVIOUS
  <1>1. ASSUME UNCHANGED <<lwip, heap>>, link' \in {0, 1},
               Cable_state' \in {"boot", "in", "out"}
        PROVE  IInv'
    BY <1>1 DEF IInv, TypeOK, Phases, CallbackOwnsStruct, BufferOwned,
                MessageOnce, lwip, heap
  <1>2. ASSUME Connect, UNCHANGED heap, link' \in {0, 1},
               Cable_state' \in {"boot", "in", "out"}
        PROVE  IInv'
    BY <1>1, <1>2, ResetKeeps DEF Connect
  <1>3. link \in {0, 1} /\ Cable_state \in {"boot", "in", "out"}
    BY DEF IInv, TypeOK
  <1>4. CASE Plug
    BY <1>1, <1>3, <1>4 DEF Plug
  <1>5. CASE EthStart
    BY <1>1, <1>2, <1>3, <1>5 DEF EthStart
  <1>6. CASE CableFound
    BY <1>2, <1>3, <1>6 DEF CableFound
  <1>7. CASE CableLost
    BY <1>1, <1>3, <1>7 DEF CableLost
  <1>8. ASSUME NEW p \in Pcbs, ConnectedNoStruct(p) PROVE IInv'
    <2>1. cb[p] = 0
      BY <1>8 DEF ConnectedNoStruct, IInv, Phases, TypeOK
    <2> QED BY <1>8, <2>1, BareCloseKeeps DEF ConnectedNoStruct
  <1>9. ASSUME NEW p \in Pcbs, NEW e \in Structs, ConnectedNoPbuf(p, e) PROVE IInv'
    BY <1>9, NoPbufKeeps
  <1>10. ASSUME NEW p \in Pcbs, NEW e \in Structs, NEW b \in Pbufs, Connected(p, e, b)
         PROVE  IInv'
    BY <1>10, ConnectedKeeps
  <1>11. ASSUME NEW p \in Pcbs, RecvData(p) PROVE IInv'
    BY <1>11, CloseKeeps DEF RecvData
  <1>12. ASSUME NEW p \in Pcbs, RecvFin(p) PROVE IInv'
    BY <1>12, CloseKeeps, SendKeeps, BareCloseKeeps DEF RecvFin
  <1>13. ASSUME NEW p \in Pcbs, PollSend(p) PROVE IInv'
    <2>1. /\ cb[p] = 1 /\ es[arg[p]].state \in {"connected", "closing"}
          /\ pcb[p] \in {"open", "remote"}
      BY <1>13 DEF PollSend, IInv, CallbackOwnsStruct, Phases, TypeOK, EsRecords
    <2>2. pcb' = [pcb EXCEPT ![p] = pcb[p]]
      BY <1>13 DEF PollSend, IInv, TypeOK
    <2> QED BY <1>13, <2>1, <2>2, SendKeeps DEF PollSend
  <1>14. ASSUME NEW p \in Pcbs, PollClose(p) PROVE IInv'
    BY <1>14, CloseKeeps DEF PollClose
  <1>15. ASSUME NEW p \in Pcbs, Sent(p) PROVE IInv'
    <2>1. /\ flight' \in [Pcbs -> {"none", "unacked", "acked"}]
          /\ \A q \in Pcbs : flight'[q] # "none" <=> flight[q] # "none"
          /\ UNCHANGED <<link, Cable_state, pcb, arg, cb, es, pbufs>>
      BY <1>15 DEF Sent, IInv, TypeOK, heap
    <2> QED BY <2>1 DEF IInv, TypeOK, Phases, CallbackOwnsStruct, BufferOwned, MessageOnce
  <1>16. ASSUME NEW p \in Pcbs, Dropped(p) PROVE IInv'
    BY <1>3, <1>16, ResetKeeps DEF Dropped
  <1>17. CASE UNCHANGED vars
    BY <1>1, <1>3, <1>17 DEF vars, lwip, heap
  <1> QED BY <1>4, <1>5, <1>6, <1>7, <1>8, <1>9, <1>10, <1>11, <1>12, <1>13,
             <1>14, <1>15, <1>16, <1>17 DEF Next

LEMMA ClientInv == Spec => []IInv
  BY InitIInv, NextIInv, PTL DEF Spec

(* The pools and the task keep their types.                                *)
THEOREM ClientTypeCorrect == Spec => []TypeOK
  <1>1. IInv => TypeOK
    BY DEF IInv
  <1> QED BY ClientInv, <1>1, PTL

(* Whatever lwIP drops and whoever closes first, a callback is called on   *)
(* its own connection's structure, never on one that was given back.       *)
THEOREM CallbacksAreSafe == Spec => []CallbackOwnsStruct
  <1>1. IInv => CallbackOwnsStruct
    BY DEF IInv
  <1> QED BY ClientInv, <1>1, PTL

(* A message buffer has one owner, and is freed once.                      *)
THEOREM ClientMemorySafe == Spec => []BufferOwned
  <1>1. IInv => BufferOwned
    BY DEF IInv
  <1> QED BY ClientInv, <1>1, PTL

(* A message is neither lost nor written twice while its connection lives. *)
THEOREM MessageIsWrittenOnce == Spec => []MessageOnce
  <1>1. IInv => MessageOnce
    BY DEF IInv
  <1> QED BY ClientInv, <1>1, PTL
=============================================================================
