----------------------------- MODULE TcpClient ------------------------------
(***************************************************************************)
(* The TCP client of APP/app_TCPClient.c and the cable supervision of      *)
(* ETH_TaskFun.  lwIP runs without an OS (NO_SYS 1): every callback is     *)
(* called from the ETH task, one at a time, and is one action here.  What  *)
(* makes it hard is memory: a connection's control block belongs to lwIP,  *)
(* its echoclient structure and the pbuf of its message to the client, and *)
(* lwIP drops a control block (reset, retransmission limit, pool empty)    *)
(* without a word, because no error callback is registered.                *)
(*                                                                         *)
(* lwIP itself is the environment.  Frames wait in the receive ring, so    *)
(* they may be handled after the cable was pulled.                         *)
(***************************************************************************)
EXTENDS Naturals

CONSTANTS
  Pcbs,        \* lwIP's pool of control blocks (MEMP_NUM_TCP_PCB)
  Structs,     \* blocks of lwIP's heap an echoclient can be in
  Pbufs        \* buffers of PBUF_POOL a message can be in

NoStruct == "none"
NoPbuf == "none"
ASSUME TcpAssumption == NoStruct \notin Structs /\ NoPbuf \notin Pbufs

(* "unused" is allocated and not connected, "remote" closed by the server  *)
(* only, "closing" by the client.                                          *)
PcbStates == {"free", "unused", "syn", "open", "remote", "closing"}
EsRecords == [state : {"free", "connected", "closing"}, ptx : Pbufs \cup {NoPbuf}]
NoEs == [state |-> "free", ptx |-> NoPbuf]

VARIABLES
  link,        \* whether the PHY sees a cable
  Cable_state, \* the ETH task's memory of it; "boot" before the first connect
  pcb,         \* lwIP: state of each control block
  arg,         \* lwIP: callback argument of each control block
  cb,          \* lwIP: whether recv, sent and poll are the client's
  flight,      \* lwIP: message of each connection: "none", "unacked", "acked"
  es,          \* the echoclient structures
  pbufs        \* the message buffers in use

lwip == <<pcb, arg, cb, flight>>
heap == <<es, pbufs>>
vars == <<link, Cable_state, pcb, arg, cb, flight, es, pbufs>>

Init ==
  /\ link \in {0, 1}
  /\ Cable_state = "boot"
  /\ pcb = [p \in Pcbs |-> "free"]
  /\ arg = [p \in Pcbs |-> NoStruct]
  /\ cb = [p \in Pcbs |-> 0]
  /\ flight = [p \in Pcbs |-> "none"]
  /\ es = [e \in Structs |-> NoEs]
  /\ pbufs = {}

FreeStructs == {e \in Structs : es[e].state = "free"}
FreePbufs == Pbufs \ pbufs

-----------------------------------------------------------------------------
(* The cable.                                                              *)
Plug ==
  /\ link' = 1 - link
  /\ UNCHANGED <<Cable_state, lwip, heap>>

(* Control block p is cleared and put to state s.                          *)
ResetPcb(p, s) ==
  /\ pcb' = [pcb EXCEPT ![p] = s]
  /\ arg' = [arg EXCEPT ![p] = NoStruct]
  /\ cb' = [cb EXCEPT ![p] = 0]
  /\ flight' = [flight EXCEPT ![p] = "none"]

(* tcp_new takes a free control block, or else drops a connection.  When   *)
(* tcp_connect fails (no route, no memory for the SYN) its result is       *)
(* ignored and the block stays allocated.                                  *)
Connect ==
  \/ \E p \in Pcbs : \E s \in {"syn", "unused"} :
       /\ pcb[p] = "free" \/ (pcb[p] # "unused" /\ \A q \in Pcbs : pcb[q] # "free")
       /\ ResetPcb(p, s)
  \/ /\ \A p \in Pcbs : pcb[p] = "unused"
     /\ UNCHANGED lwip

(* ETH_TaskFun connects at the start when the cable is in, and from then   *)
(* on each time its loop finds the cable in that it found out before.      *)
EthStart ==
  /\ Cable_state = "boot"
  /\ Cable_state' = "in"
  /\ IF link = 1 THEN Connect ELSE UNCHANGED lwip
  /\ UNCHANGED <<link, heap>>

CableFound ==
  /\ Cable_state = "out" /\ link = 1
  /\ Cable_state' = "in"
  /\ Connect
  /\ UNCHANGED <<link, heap>>

CableLost ==
  /\ Cable_state = "in" /\ link = 0
  /\ Cable_state' = "out"
  /\ UNCHANGED <<link, lwip, heap>>

-----------------------------------------------------------------------------
(* tcp_echoclient_connection_close.  es is freed, es->p_tx is not.         *)
Closing(p) ==
  /\ pcb' = [pcb EXCEPT ![p] = "closing"]
  /\ cb' = [cb EXCEPT ![p] = 0]
  /\ UNCHANGED <<arg, flight>>

(* Variant: the callbacks stay.                                            *)
CloseKeepsCallbacks(p, e) ==
  /\ pcb' = [pcb EXCEPT ![p] = "closing"]
  /\ es' = [es EXCEPT ![e] = NoEs]
  /\ UNCHANGED <<arg, cb, flight, pbufs>>

Close(p, e) ==
  /\ Closing(p)
  /\ es' = [es EXCEPT ![e] = NoEs]
  /\ UNCHANGED pbufs

(* tcp_echoclient_send: tcp_write copies the message and the buffer is     *)
(* freed, or there is no memory and the buffer is kept for the poll.  s is *)
(* the structure's state from now on.                                      *)
Written(p, e, s) ==
  /\ flight' = [flight EXCEPT ![p] = "unacked"]
  /\ pbufs' = pbufs \ {es[e].ptx}
  /\ es' = [es EXCEPT ![e] = [state |-> s, ptx |-> NoPbuf]]

(* Variants: the pointer is kept after the buffer was freed; a message is  *)
(* given up when there is no memory.                                       *)
SendForgets(p, e, s) ==
  /\ es[e].ptx # NoPbuf
  /\ flight' = [flight EXCEPT ![p] = "unacked"]
  /\ pbufs' = pbufs \ {es[e].ptx}
  /\ es' = [es EXCEPT ![e] = [state |-> s, ptx |-> es[e].ptx]]
SendGivesUp(p, e, s) ==
  /\ es[e].ptx # NoPbuf
  /\ pbufs' = pbufs \ {es[e].ptx}
  /\ es' = [es EXCEPT ![e] = [state |-> s, ptx |-> NoPbuf]]
  /\ UNCHANGED flight

Send(p, e, s) ==
  /\ es[e].ptx # NoPbuf
  /\ \/ Written(p, e, s)
     \/ /\ es' = [es EXCEPT ![e] = [state |-> s, ptx |-> es[e].ptx]]
        /\ UNCHANGED <<flight, pbufs>>

(* tcp_echoclient_connected, called with ERR_OK only: lwIP reports a       *)
(* refused connection to the error callback.                               *)
ConnectedNoStruct(p) ==
  /\ pcb[p] = "syn"
  /\ Closing(p)
  /\ UNCHANGED <<link, Cable_state, heap>>

(* No buffer: the structure is lost and the connection stays as it is.     *)
(* PBUF_POOL also holds every frame of the receive ring (ethernetif.c), so *)
(* it may be empty at any connection.                                      *)
ConnectedNoPbuf(p, e) ==
  /\ pcb[p] = "syn"
  /\ e \in FreeStructs
  /\ es' = [es EXCEPT ![e] = [state |-> "connected", ptx |-> NoPbuf]]
  /\ pcb' = [pcb EXCEPT ![p] = "open"]
  /\ UNCHANGED <<link, Cable_state, arg, cb, flight, pbufs>>

Connected(p, e, b) ==
  /\ pcb[p] = "syn"
  /\ e \in FreeStructs /\ b \in FreePbufs
  /\ pcb' = [pcb EXCEPT ![p] = "open"]
  /\ arg' = [arg EXCEPT ![p] = e]
  /\ cb' = [cb EXCEPT ![p] = 1]
  /\ \/ /\ es' = [es EXCEPT ![e] = [state |-> "connected", ptx |-> NoPbuf]]
        /\ flight' = [flight EXCEPT ![p] = "unacked"]
        /\ UNCHANGED pbufs
     \/ /\ es' = [es EXCEPT ![e] = [state |-> "connected", ptx |-> b]]
        /\ pbufs' = pbufs \cup {b}
        /\ UNCHANGED flight
  /\ UNCHANGED <<link, Cable_state>>

(* tcp_echoclient_recv with data: the first answer closes the connection.  *)
(* Data that follow it make lwIP abort.                                    *)
RecvData(p) ==
  /\ pcb[p] = "open" /\ cb[p] = 1
  /\ Close(p, arg[p])
  /\ UNCHANGED <<link, Cable_state>>

(* tcp_echoclient_recv without data: the server has closed.  A connection  *)
(* without callbacks is closed by lwIP itself.                             *)
RecvFin(p) ==
  /\ pcb[p] = "open"
  /\ \/ /\ cb[p] = 1 /\ es[arg[p]].ptx = NoPbuf
        /\ Close(p, arg[p])
     \/ /\ cb[p] = 1
        /\ pcb' = [pcb EXCEPT ![p] = "remote"]
        /\ Send(p, arg[p], "closing")
        /\ UNCHANGED <<arg, cb>>
     \/ /\ cb[p] = 0
        /\ Closing(p)
        /\ UNCHANGED heap
  /\ UNCHANGED <<link, Cable_state>>

(* tcp_echoclient_poll: retry, or finish a close.                          *)
PollSend(p) ==
  /\ cb[p] = 1
  /\ Send(p, arg[p], es[arg[p]].state)
  /\ UNCHANGED <<link, Cable_state, pcb, arg, cb>>

(* Variant: a close waits while nothing is left to send.                   *)
PollCloseNever(p) ==
  /\ cb[p] = 1 /\ es[arg[p]].ptx # NoPbuf
  /\ es[arg[p]].state = "closing"
  /\ Close(p, arg[p])
  /\ UNCHANGED <<link, Cable_state>>

PollClose(p) ==
  /\ cb[p] = 1 /\ es[arg[p]].ptx = NoPbuf
  /\ es[arg[p]].state = "closing"
  /\ Close(p, arg[p])
  /\ UNCHANGED <<link, Cable_state>>

(* tcp_echoclient_sent: the message is out before it can be acknowledged,  *)
(* so nothing is left to send here.                                        *)
Sent(p) ==
  /\ flight[p] = "unacked"
  /\ flight' = [flight EXCEPT ![p] = "acked"]
  /\ UNCHANGED <<link, Cable_state, pcb, arg, cb, heap>>

(* lwIP drops control block p: a reset, the end of a close, or too many    *)
(* retransmissions.  Nobody tells the client.                              *)
Dropped(p) ==
  /\ pcb[p] \notin {"free", "unused"}
  /\ ResetPcb(p, "free")
  /\ UNCHANGED <<link, Cable_state, heap>>

Next ==
  \/ Plug \/ EthStart \/ CableFound \/ CableLost
  \/ \E p \in Pcbs :
       \/ ConnectedNoStruct(p)
       \/ \E e \in Structs : ConnectedNoPbuf(p, e)
       \/ \E e \in Structs : \E b \in Pbufs : Connected(p, e, b)
       \/ RecvData(p) \/ RecvFin(p)
       \/ PollSend(p) \/ PollClose(p)
       \/ Sent(p) \/ Dropped(p)

Spec == Init /\ [][Next]_vars

(* The poll comes every half second as long as there are callbacks, and    *)
(* lwIP's heap, which holds segments in flight, has room at one of them.   *)
FairSpec ==
  /\ Spec
  /\ \A p \in Pcbs : WF_vars(PollSend(p)) /\ WF_vars(PollClose(p))
-----------------------------------------------------------------------------
TypeOK ==
  /\ link \in {0, 1}
  /\ Cable_state \in {"boot", "in", "out"}
  /\ pcb \in [Pcbs -> PcbStates]
  /\ arg \in [Pcbs -> Structs \cup {NoStruct}]
  /\ cb \in [Pcbs -> {0, 1}]
  /\ flight \in [Pcbs -> {"none", "unacked", "acked"}]
  /\ es \in [Structs -> EsRecords]
  /\ pbufs \subseteq Pbufs

(* No callback is ever called on a freed structure or on another           *)
(* connection's: whatever lwIP drops, whoever closes first.                *)
CallbackOwnsStruct ==
  \A p \in Pcbs : cb[p] = 1 =>
    /\ arg[p] \in Structs
    /\ es[arg[p]].state # "free"
    /\ \A q \in Pcbs : q # p /\ cb[q] = 1 => arg[q] # arg[p]

(* A message buffer is in use as long as a structure points to it, and     *)
(* only one does: none is freed twice, none is read after it was freed.    *)
BufferOwned ==
  \A e \in Structs : es[e].ptx # NoPbuf =>
    /\ es[e].ptx \in pbufs
    /\ \A d \in Structs : d # e => es[d].ptx # es[e].ptx

(* A connection that still has its callbacks either holds its message or   *)
(* has written it, never both and never neither: retries neither lose the  *)
(* message nor send it twice.                                              *)
MessageOnce ==
  \A p \in Pcbs : cb[p] = 1 =>
    (es[arg[p]].ptx = NoPbuf <=> flight[p] # "none")

(* After the server has closed, the client sends what it still holds and   *)
(* closes too, unless lwIP drops the connection first.                     *)
ServerCloseFollowed ==
  \A p \in Pcbs : pcb[p] = "remote" ~> pcb[p] # "remote"
=============================================================================
