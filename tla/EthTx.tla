------------------------------- MODULE EthTx --------------------------------
(***************************************************************************)
(* Transmission in ethernetif.c: low_level_output as the tcpip thread and  *)
(* the PTP thread (netSend, dep/net.c) both call it, and the transmit time *)
(* stamp the PTP thread then asks for.                                     *)
(*                                                                         *)
(* The tcpip thread has the higher priority: the PTP thread runs only      *)
(* while it is idle or blocked.  TxConfig and the HAL handle are shared by *)
(* both.  The HAL driver is external code, modelled from its use:          *)
(* HAL_ETH_Transmit_IT queues what TxConfig names, HAL_ETH_ReleaseTxPacket *)
(* frees the packets that have left, in order, and keeps the stamp of the  *)
(* last one.                                                               *)
(*                                                                         *)
(* A packet is its sender and whether it is the one that sender is sending *)
(* now; an earlier one is "old".                                           *)
(***************************************************************************)
EXTENDS Naturals, Sequences

CONSTANTS
  Threads,            \* the threads that send: a subset of {"tcpip", "ptp"}
  Descriptors         \* ETH_TX_DESC_CNT

ThreadsAssumption == Threads \subseteq {"tcpip", "ptp"} /\ Descriptors \in Nat \ {0}

VARIABLES
  pc,                 \* per thread: "idle", "transmit", "busy" or "stamp"
  event,              \* the PTP thread sends an event message, and wants its stamp
  config,             \* TxConfig: the packet it names
  ring,               \* the packets in the descriptors, oldest first
  gone,               \* how many of them have left
  sem,                \* TxPktSemaphore, binary
  stamp,              \* EthHandle.TxTimestamp: the packet it is of
  hist                \* what the properties remember

vars == <<pc, event, config, ring, gone, sem, stamp, hist>>

Packet == [from : Threads, now : BOOLEAN]
NoPacket == [from |-> "none", now |-> FALSE]

\* wrong: some call sent another packet than its own.
\* returned: the packet whose stamp the last event message was sent with.
History == [wrong : BOOLEAN, returned : Packet \cup {NoPacket}]

\* The packet of a thread's call becomes an old one when the thread starts another.
Aged(p, t) == IF p.from = t THEN [p EXCEPT !.now = FALSE] ELSE p

\* A thread waiting for a semaphore that is not there does not run.
Blocked(t) == pc[t] = "idle" \/ (pc[t] \in {"busy", "stamp"} /\ ~sem)

\* The PTP thread runs in the pauses of the tcpip thread.
MayRun(t) == t = "ptp" /\ "tcpip" \in Threads => Blocked("tcpip")

Init ==
  /\ pc = [t \in Threads |-> "idle"]
  /\ event = FALSE
  /\ config = NoPacket
  /\ ring = <<>>
  /\ gone = 0
  /\ sem = FALSE
  /\ stamp = NoPacket
  /\ hist = [wrong |-> FALSE, returned |-> NoPacket]

-----------------------------------------------------------------------------

\* A thread has another packet to send.
Called(t) ==
  /\ MayRun(t)
  /\ pc[t] = "idle"
  /\ ring' = [i \in DOMAIN ring |-> Aged(ring[i], t)]
  /\ stamp' = Aged(stamp, t)
  /\ hist' = [hist EXCEPT !.returned = NoPacket]
  /\ UNCHANGED <<gone, sem>>

\* A call of low_level_output up to the assignments to TxConfig.  The three of them are one
\* step: a call of the other thread between two of them leaves fields of both packets, one
\* after them all fields of the other packet, and either is a packet not this thread's own.
Call(t) ==
  /\ Called(t)
  /\ pc' = [pc EXCEPT ![t] = "transmit"]
  /\ event' \in IF t = "ptp" THEN BOOLEAN ELSE {event}
  /\ config' = [from |-> t, now |-> TRUE]

\* The packet has more parts than there are descriptors: ERR_IF, before TxConfig is touched.
CallRejected(t) == Called(t) /\ UNCHANGED <<pc, event, config>>

\* Where a call goes once its packet is queued.
Sent(t) == IF t = "ptp" /\ event THEN "stamp" ELSE "idle"

\* HAL_ETH_Transmit_IT with a descriptor left.
Transmit(t) ==
  /\ MayRun(t)
  /\ pc[t] = "transmit"
  /\ Len(ring) < Descriptors
  /\ ring' = Append(ring, config)
  /\ pc' = [pc EXCEPT ![t] = Sent(t)]
  /\ hist' = [hist EXCEPT !.wrong = @ \/ config # [from |-> t, now |-> TRUE]]
  /\ UNCHANGED <<event, config, gone, sem, stamp>>

\* HAL_ETH_ERROR_BUSY.
TransmitBusy(t) ==
  /\ MayRun(t)
  /\ pc[t] = "transmit"
  /\ Len(ring) = Descriptors
  /\ pc' = [pc EXCEPT ![t] = "busy"]
  /\ UNCHANGED <<event, config, ring, gone, sem, stamp, hist>>

\* Another error of HAL_ETH_Transmit_IT: nothing is queued, and netSend asks for no stamp.
TransmitFails(t) ==
  /\ MayRun(t)
  /\ pc[t] = "transmit"
  /\ pc' = [pc EXCEPT ![t] = "idle"]
  /\ UNCHANGED <<event, config, ring, gone, sem, stamp, hist>>

\* HAL_ETH_ReleaseTxPacket.
ReleaseTxPacket ==
  /\ ring' = SubSeq(ring, gone + 1, Len(ring))
  /\ gone' = 0
  /\ stamp' = IF gone = 0 THEN stamp ELSE ring[gone]

\* osSemaphoreWait(TxPktSemaphore, ETHIF_TX_TIMEOUT) returns: a token is there, or the
\* two seconds have passed, in which every packet queued has left.
WaitEnds == sem \/ gone = Len(ring)

\* Fault: the descriptors of packets that have left are not reclaimed.
BusyEnds_NoRelease(t) ==
  /\ MayRun(t)
  /\ pc[t] = "busy"
  /\ WaitEnds
  /\ sem' = FALSE
  /\ pc' = [pc EXCEPT ![t] = "transmit"]
  /\ UNCHANGED <<event, config, ring, gone, stamp, hist>>

\* The wait for a descriptor is over: clean up and try again.
BusyEnds(t) ==
  /\ MayRun(t)
  /\ pc[t] = "busy"
  /\ WaitEnds
  /\ sem' = FALSE
  /\ ReleaseTxPacket
  /\ pc' = [pc EXCEPT ![t] = "transmit"]
  /\ UNCHANGED <<event, config, hist>>

\* ethernetif_ptp_get_tx_timestamp.
GetTxTimestamp ==
  /\ MayRun("ptp")
  /\ pc["ptp"] = "stamp"
  /\ WaitEnds
  /\ sem' = FALSE
  /\ ReleaseTxPacket
  /\ hist' = [hist EXCEPT !.returned = stamp']
  /\ pc' = [pc EXCEPT !["ptp"] = "idle"]
  /\ UNCHANGED <<event, config>>

\* The DMA has sent a packet: HAL_ETH_TxCpltCallback.
Complete ==
  /\ gone < Len(ring)
  /\ gone' = gone + 1
  /\ sem' = TRUE
  /\ UNCHANGED <<pc, event, config, ring, stamp, hist>>

Step(t) ==
  Transmit(t) \/ TransmitBusy(t) \/ TransmitFails(t) \/ BusyEnds(t) \/ (t = "ptp" /\ GetTxTimestamp)

Next ==
  \/ \E t \in Threads : Call(t)
  \/ \E t \in Threads : CallRejected(t)
  \/ \E t \in Threads : Step(t)
  \/ Complete

Spec == Init /\ [][Next]_vars

\* The DMA goes on sending and a thread that can run does, the PTP thread in the
\* pauses of the tcpip thread.
Fairness == WF_vars(Complete) /\ \A t \in Threads : SF_vars(Step(t))

FairSpec == Spec /\ Fairness

-----------------------------------------------------------------------------
(* Properties.                                                             *)

TypeOK ==
  /\ pc \in [Threads -> {"idle", "transmit", "busy", "stamp"}]
  /\ \A t \in Threads : pc[t] = "stamp" => t = "ptp"
  /\ event \in BOOLEAN
  /\ config \in Packet \cup {NoPacket}
  /\ ring \in UNION {[1 .. n -> Packet] : n \in 0 .. Descriptors}
  /\ gone \in 0 .. Len(ring)
  /\ sem \in BOOLEAN
  /\ stamp \in Packet \cup {NoPacket}
  /\ hist \in History

\* "The packet is contained in the pbuf that is passed to the function"
\* (ethernetif.c:278): low_level_output sends the packet it was called with.
SendsItsPacket == ~hist.wrong

\* "timestamp of delay request message" (datatypes.h:456): the stamp netSend returns
\* is that of the message it just sent.
OwnTxStamp == hist.returned # NoPacket => hist.returned = [from |-> "ptp", now |-> TRUE]

\* Every call of low_level_output by the tcpip thread comes to its end, and one by the
\* PTP thread if the tcpip thread falls silent, although both wait for the one semaphore
\* and one may take the token that the other's packet released.
CallsReturn ==
  /\ []<>(pc["tcpip"] = "idle")
  /\ <>[](pc["tcpip"] = "idle") => []<>(pc["ptp"] = "idle")
=============================================================================
