-------------------------------- MODULE Uart --------------------------------
(***************************************************************************)
(* The serial port of the console, stm32f7xx_uart.c as it is built with    *)
(* ENABLE_UART_CMSIS_OS: UART_Write and UART_Read in the tasks, a transmit *)
(* and a receive queue, and the interrupt handler usartHandler between the *)
(* queues and the registers.                                               *)
(*                                                                         *)
(* The command line writes strings, through serial_write (app.c); every    *)
(* other task prints through _write and __io_putchar, which call           *)
(* UART_Write for one byte.  Bytes are not told apart: a queue is its      *)
(* length.  The registers of the USART are external.                       *)
(***************************************************************************)
EXTENDS Integers

CONSTANTS
  QueueSize,        \* UART_QUEUE_SIZE
  MaxLen,           \* length of the longest string the command line writes
  Printers          \* the tasks that print byte by byte

ASSUME UartAssumption ==
  /\ QueueSize \in Nat \ {0}
  /\ MaxLen \in Nat \ {0}
  /\ "cli" \notin Printers

VARIABLES
  txn,              \* bytes in uartTxQueueId
  rxn,              \* bytes in uartRxQueueId
  txeie,            \* CR1.TXEIE: the transmit interrupt is enabled
  tdr,              \* the transmit data register: "empty" or what it holds
  rxne,             \* ISR.RXNE: a received byte is in RDR
  ore,              \* ISR.ORE: another byte was received before RDR was read
  pc,               \* each task: "idle", "put" or "set" in UART_Write
  put, len          \* bytes queued so far, and to be queued, by the call

vars == <<txn, rxn, txeie, tdr, rxne, ore, pc, put, len>>

Tasks == {"cli"} \cup Printers

\* UART_Init: both queues empty, the receive interrupt enabled.
Init ==
  /\ txn = 0
  /\ rxn = 0
  /\ txeie = FALSE
  /\ tdr = "empty"
  /\ rxne = FALSE
  /\ ore = FALSE
  /\ pc = [t \in Tasks |-> "idle"]
  /\ put = [t \in Tasks |-> 0]
  /\ len = [t \in Tasks |-> 0]

-----------------------------------------------------------------------------
(* UART_Write.                                                             *)

\* Fault: a string of the command line, with its terminator, exceeds the queue.
Lengths_Long(t) == IF t = "cli" THEN 1 .. (MaxLen + 1) ELSE {1}

\* The lengths a task passes to UART_Write.  That no string is longer than the queue is
\* assumed of the callers (__io_putchar passes one byte); UART_Write does not check it.
Lengths(t) == IF t = "cli" THEN 1 .. MaxLen ELSE {1}

Call(t) ==
  /\ pc[t] = "idle"
  /\ \E n \in Lengths(t) : len' = [len EXCEPT ![t] = n]
  /\ put' = [put EXCEPT ![t] = 0]
  /\ pc' = [pc EXCEPT ![t] = "put"]
  /\ UNCHANGED <<txn, rxn, txeie, tdr, rxne, ore>>

HasRoom == txn < QueueSize

\* osMessagePut of the next byte, which waits for room.
Put(t) ==
  /\ pc[t] = "put"
  /\ HasRoom
  /\ txn' = txn + 1
  /\ put' = [put EXCEPT ![t] = @ + 1]
  /\ pc' = [pc EXCEPT ![t] = IF put[t] + 1 = len[t] THEN "set" ELSE "put"]
  /\ UNCHANGED <<rxn, txeie, tdr, rxne, ore, len>>

\* UART_UART1_TIMEOUT passes without room in the queue: UART_Write returns 0.
PutTimeout(t) ==
  /\ pc[t] = "put"
  /\ txn = QueueSize
  /\ pc' = [pc EXCEPT ![t] = "idle"]
  /\ UNCHANGED <<txn, rxn, txeie, tdr, rxne, ore, put, len>>

\* Fault: the interrupt is only enabled while the transmitter has nothing to send.
Enable_IfEmpty == txeie' = (txeie \/ tdr = "empty")

Enable == txeie' = TRUE

\* All bytes are queued: the transmit interrupt is enabled.
SetTxeie(t) ==
  /\ pc[t] = "set"
  /\ Enable
  /\ pc' = [pc EXCEPT ![t] = "idle"]
  /\ UNCHANGED <<txn, rxn, tdr, rxne, ore, put, len>>

\* osMessageGet in UART_Read.  Only the command line reads.
Read ==
  /\ rxn > 0
  /\ rxn' = rxn - 1
  /\ UNCHANGED <<txn, txeie, tdr, rxne, ore, pc, put, len>>

-----------------------------------------------------------------------------
(* The interrupt handler, and the registers (external).                    *)

\* osMessageGet of the transmit queue: the byte goes to TDR.
TransmitByte ==
  /\ txn > 0
  /\ txn' = txn - 1
  /\ tdr' = "byte"
  /\ UNCHANGED txeie

\* Without one the interrupt is disabled, and the value of the empty event, 0, still
\* goes to TDR.
TransmitNothing ==
  /\ txn = 0
  /\ txeie' = FALSE
  /\ tdr' = "nul"
  /\ UNCHANGED txn

\* usartHandler with an error flag: the flags are cleared, nothing else.
IsrError ==
  /\ ore
  /\ ore' = FALSE
  /\ UNCHANGED <<txn, rxn, txeie, tdr, rxne, pc, put, len>>

\* usartHandler with a received byte the queue has no room for: it is dropped, and
\* the handler returns before it looks at the transmitter.
IsrRxFull ==
  /\ ~ore
  /\ rxne /\ rxn = QueueSize
  /\ rxne' = FALSE
  /\ UNCHANGED <<txn, rxn, txeie, tdr, ore, pc, put, len>>

\* usartHandler: the received byte is queued and the transmitter is served.
Isr ==
  /\ ~ore
  /\ rxne \/ (txeie /\ tdr = "empty")
  /\ rxne => rxn < QueueSize
  /\ rxn' = IF rxne THEN rxn + 1 ELSE rxn
  /\ rxne' = FALSE
  /\ IF txeie /\ tdr = "empty" THEN TransmitByte \/ TransmitNothing
                             ELSE UNCHANGED <<txn, txeie, tdr>>
  /\ UNCHANGED <<ore, pc, put, len>>

\* A byte has been received; without room for it in RDR that is an overrun.
ByteArrives ==
  /\ rxne' = TRUE
  /\ ore' = (ore \/ rxne)
  /\ UNCHANGED <<txn, rxn, txeie, tdr, pc, put, len>>

\* TDR moves on to the shift register.
ByteShifted ==
  /\ tdr # "empty"
  /\ tdr' = "empty"
  /\ UNCHANGED <<txn, rxn, txeie, rxne, ore, pc, put, len>>

-----------------------------------------------------------------------------
Write(t) == Call(t) \/ Put(t) \/ PutTimeout(t) \/ SetTxeie(t)

Next ==
  \/ \E t \in Tasks : Write(t)
  \/ Read \/ IsrError \/ IsrRxFull \/ Isr \/ ByteArrives \/ ByteShifted

Spec == Init /\ [][Next]_vars

-----------------------------------------------------------------------------
(* Properties.                                                             *)

TypeOK ==
  /\ txn \in 0 .. QueueSize
  /\ rxn \in 0 .. QueueSize
  /\ txeie \in BOOLEAN
  /\ tdr \in {"empty", "byte", "nul"}
  /\ rxne \in BOOLEAN
  /\ ore \in BOOLEAN
  /\ pc \in [Tasks -> {"idle", "put", "set"}]
  /\ put \in [Tasks -> Nat]
  /\ len \in [Tasks -> Nat]

\* A full transmit queue is always about to drain: the transmit interrupt is enabled
\* or some task is about to enable it.  UART_Write enables it only after its last
\* byte, so without this every task would wait for room that nobody makes and give
\* up, and the console would stay silent.
FullQueueDrains == txn = QueueSize => txeie \/ \E t \in Tasks : pc[t] = "set"

\* Bytes left in the queue when no task is in UART_Write are going to be sent: the
\* interrupt is enabled, also after calls that timed out.
NothingStranded == (\A t \in Tasks : pc[t] = "idle") /\ txn > 0 => txeie

\* stm32f7xx_uart.c:47: "No data, disable TXE interrupt": nothing is sent that no task
\* has written.
OnlyWrittenSent == tdr # "nul"
=============================================================================
