----------------------------- MODULE MCEthernet -----------------------------
(* The way of a packet through the target: reception (module EthRx), the     *)
(* queues between the tcpip thread and the PTP thread (NetQueue), and        *)
(* transmission (EthTx), with what must eventually happen in each.           *)
(* They share no state: one of them is chosen at the start and runs, and the *)
(* variables of the others keep their initial values.                        *)
EXTENDS EthRx

CONSTANT TxDescriptors                                         \* EthTx

VARIABLES
  part,                                                        \* which of them runs
  head, tail, ring, owner, alerts, tpc, ppc, cur,              \* NetQueue
  pc, event, config, txRing, gone, txSem, stamp, hist          \* EthTx

queueVars == <<head, tail, ring, owner, alerts, tpc, ppc, cur>>
txVars == <<pc, event, config, txRing, gone, txSem, stamp, hist>>

Queues == INSTANCE NetQueue WITH Pbufs <- {"p1", "p2"}, Size <- 3, MboxSize <- 1, NoBuf <- "none"

Tx == INSTANCE EthTx WITH
  Threads <- {"tcpip", "ptp"}, Descriptors <- TxDescriptors, ring <- txRing, sem <- txSem

ASSUME TxAssumption == Tx!ThreadsAssumption

EthernetInit ==
  /\ part \in {"rx", "queues", "tx"}
  /\ Init
  /\ Queues!Init
  /\ Tx!Init

EthernetNext ==
  /\ \/ part = "rx" /\ Next /\ UNCHANGED <<queueVars, txVars>>
     \/ part = "queues" /\ Queues!Next /\ UNCHANGED <<vars, txVars>>
     \/ part = "tx" /\ Tx!Next /\ UNCHANGED <<vars, queueVars>>
  /\ UNCHANGED part

OfRx(A) == part = "rx" /\ A /\ UNCHANGED <<queueVars, txVars>>
OfQueues(A) == part = "queues" /\ A /\ UNCHANGED <<vars, txVars>>
OfTx(A) == part = "tx" /\ A /\ UNCHANGED <<vars, queueVars>>

runVars == <<vars, queueVars, txVars>>

\* The fairness each module states for itself, asked of the part that runs: an action of
\* another part can never be taken, and must not count as enabled.  Conditions of two
\* parts are stated as one where that says the same, since only one of the parts runs.
EthernetFairness ==
  /\ WF_runVars(\/ OfRx(Wake \/ ReadNothing \/ ReadFrame \/ Deliver)
                \/ OfQueues(Queues!NetRecvGeneral \/ Queues!NoGeneral)
                \/ OfTx(Tx!Complete))
  /\ \A f \in Freers : WF_runVars(OfRx(Freeing(f)))
  /\ WF_runVars(OfQueues(Queues!NetRecvCopy \/ Queues!NetRecvReject))
  /\ WF_runVars(OfQueues(Queues!HandlerDone))
  /\ WF_runVars(OfQueues(Queues!SelectEvent))
  /\ WF_runVars(OfQueues(Queues!SelectGeneral))
  /\ WF_runVars(OfQueues(Queues!FetchAlert))
  /\ WF_runVars(OfQueues(Queues!CallbackAlert))
  /\ SF_runVars(OfQueues(Queues!NetRecvEvent) \/ OfTx(Tx!Step("tcpip")))
  /\ SF_runVars(OfQueues(Queues!NoEvent) \/ OfTx(Tx!Step("ptp")))

EthernetSpec == EthernetInit /\ [][EthernetNext]_<<part, vars, queueVars, txVars>> /\ EthernetFairness

\* Every packet put on the event queue is eventually read or flushed, by the alerts
\* alone, without the 100 ms timeout of the mailbox fetch in ptpd_thread.
EventServed == Queues!EventServed

\* A packet of the general queue, which handle() reads only when the event queue returned
\* nothing, waits for ever only if event messages never stop coming.
GeneralStarvedOnlyByEvents == Queues!GeneralStarvedOnlyByEvents

\* A frame in a descriptor is read, also after a shortage of buffers; every call of
\* low_level_output by the tcpip thread ends, and one by the PTP thread if the tcpip
\* thread falls silent, although both wait for one semaphore; never are more descriptors
\* in use than there are.
DriverProgresses == FramesRead /\ Tx!CallsReturn /\ []Tx!TypeOK
=============================================================================
