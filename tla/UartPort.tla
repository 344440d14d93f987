------------------------------ MODULE UartPort ------------------------------
(***************************************************************************)
(* One serial port of BSP/bsp_UART.c: a DMA reception into one buffer, the *)
(* idle interrupt that ends it, a queue of pointers to that one buffer,    *)
(* and a DMA transmission.  The host port and the port of the branch       *)
(* modules are instances of it.                                            *)
(*                                                                         *)
(* A frame is on the line for milliseconds, a task handles it in           *)
(* microseconds: reception is two steps, its first byte and the idle after *)
(* its last one, and between them the buffer holds neither frame.          *)
(***************************************************************************)
EXTENDS Naturals

CONSTANTS
  Frames,      \* what the other end sends
  Sends,       \* what this end sends
  QueueSize,   \* messages a queue holds (10)
  NoFrame,     \* nothing
  Garbage      \* bytes that are no frame

VARIABLES
  line,        \* what the other end is sending
  Rx_Buffer,   \* the reception buffer
  rxOn,        \* 1 while the reception DMA runs
  queue,       \* pointers to the buffer in the message queue
  tx,          \* what the transmission DMA is sending
  lock         \* 1 while a task is inside HAL_UART_Transmit_DMA

port == <<line, Rx_Buffer, rxOn, queue, tx, lock>>

PortTypeOK ==
  /\ line \in Frames \cup {Garbage, NoFrame}
  /\ Rx_Buffer \in Frames \cup {Garbage}
  /\ rxOn \in {0, 1}
  /\ queue \in 0 .. QueueSize
  /\ tx \in Sends \cup {NoFrame}
  /\ lock \in {0, 1}

PortInit ==
  /\ line = NoFrame
  /\ Rx_Buffer = Garbage
  /\ rxOn = 1
  /\ queue = 0
  /\ tx = NoFrame
  /\ lock = 0

(* The other end begins to send f.  Equal bytes leave the buffer as it was.*)
Bytes(f) ==
  /\ line = NoFrame
  /\ line' = f
  /\ Rx_Buffer' = IF rxOn = 1 /\ f # Rx_Buffer THEN Garbage ELSE Rx_Buffer
  /\ UNCHANGED <<rxOn, queue, tx, lock>>

(* Variant: the reception is not started again.                            *)
IdleOnce ==
  /\ line # NoFrame
  /\ line' = NoFrame
  /\ Rx_Buffer' = IF rxOn = 1 THEN line ELSE Rx_Buffer
  /\ rxOn' = 0
  /\ queue' = IF queue < QueueSize THEN queue + 1 ELSE queue
  /\ tx' = NoFrame
  /\ UNCHANGED lock
(* Variant: a full queue grows.                                            *)
IdleGrows ==
  /\ line # NoFrame
  /\ line' = NoFrame
  /\ Rx_Buffer' = IF rxOn = 1 THEN line ELSE Rx_Buffer
  /\ rxOn' = 1 - lock
  /\ queue' = queue + 1
  /\ tx' = NoFrame
  /\ UNCHANGED lock

(* UART_Rx_IDLE.  HAL_UART_DMAStop stops both directions.  The reception   *)
(* is not restarted while a task is inside HAL_UART_Transmit_DMA: then     *)
(* HAL_UART_Receive_DMA returns HAL_BUSY, and what is sent until the next  *)
(* idle is lost; that idle finds the old buffer and the old count.         *)
Idle ==
  /\ line # NoFrame
  /\ line' = NoFrame
  /\ Rx_Buffer' = IF rxOn = 1 THEN line ELSE Rx_Buffer
  /\ rxOn' = 1 - lock
  /\ queue' = IF queue < QueueSize THEN queue + 1 ELSE queue
  /\ tx' = NoFrame
  /\ UNCHANGED lock

(* A framing or noise error: HAL_UART_IRQHandler aborts the reception.     *)
LineError ==
  /\ rxOn = 1 /\ line # NoFrame
  /\ rxOn' = 0
  /\ UNCHANGED <<line, Rx_Buffer, queue, tx, lock>>

(* Variant: the message is looked at and left in the queue.                *)
GetPeek ==
  /\ queue > 0
  /\ UNCHANGED port

(* osMessageGet.                                                           *)
Get ==
  /\ queue > 0
  /\ queue' = queue - 1
  /\ UNCHANGED <<line, Rx_Buffer, rxOn, tx, lock>>

(* HAL_UART_Transmit_DMA takes the lock, ...                               *)
TxLock ==
  /\ lock = 0 /\ tx = NoFrame
  /\ lock' = 1
  /\ UNCHANGED <<line, Rx_Buffer, rxOn, queue, tx>>

(* ... starts the DMA and gives the lock back.                             *)
TxStart(x) ==
  /\ lock = 1
  /\ lock' = 0
  /\ tx' = x
  /\ UNCHANGED <<line, Rx_Buffer, rxOn, queue>>

(* The last byte is out.                                                   *)
TxDone ==
  /\ tx # NoFrame
  /\ tx' = NoFrame
  /\ UNCHANGED <<line, Rx_Buffer, rxOn, queue, lock>>
=============================================================================
