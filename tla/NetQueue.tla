------------------------------ MODULE NetQueue ------------------------------
(***************************************************************************)
(* The path of a received PTP packet from lwIP to the protocol engine:     *)
(* the two pbuf rings of dep/net.c (eventQ, generalQ), the UDP receive     *)
(* callbacks that fill them in the tcpip thread, the PTP thread's loop     *)
(* (ptpd.c) that drains them, and the alert mailbox that wakes it.         *)
(*                                                                         *)
(* Every netQ* function runs under the queue's mutex, so each one is one   *)
(* atomic step; everything between two of them may be interleaved.  What   *)
(* the protocol does with a packet is not modelled here (see PtpPort):     *)
(* only that doState may or may not reach handle(), and that toState() and *)
(* updateClock() may empty the event queue through initClock().            *)
(*                                                                         *)
(* A packet is its pbuf.  owner records who must free it: "pool" means it  *)
(* has been freed (or not been received yet).                              *)
(***************************************************************************)
EXTENDS Integers, FiniteSets

CONSTANTS
  Pbufs,      \* the packet buffers of the receive pool
  Size,       \* PBUF_QUEUE_SIZE
  MboxSize,   \* capacity of ptp_alert_queue
  NoBuf       \* "no packet": a NULL pbuf, a slot never written

ASSUME SizeAssumption == Size \in Nat /\ Size >= 2
ASSUME MboxAssumption == MboxSize \in Nat \ {0}
ASSUME NoBufAssumption == NoBuf \notin Pbufs

VARIABLES
  head, tail, ring,   \* the BufQueue of each queue
  owner,              \* who holds each pbuf
  alerts,             \* messages waiting in ptp_alert_queue
  tpc,                \* tcpip thread: "idle", "free" (put failed), "alert" (put done)
  ppc,                \* PTP thread: where it is in its loop
  cur                 \* the pbuf netRecv is working on

vars == <<head, tail, ring, owner, alerts, tpc, ppc, cur>>

Queues == {"event", "general"}
Slots == 0 .. Size - 1

TcpipPcs == {"idle", "free", "alert"}

PtpPcs == {"doState", "recvEvent", "general", "recvGeneral", "dispatch", "select", "selectGeneral", "wait"}

Holders == {"pool", "tcpip", "ptp"} \cup Queues

TypeOK ==
  /\ head \in [Queues -> Slots]
  /\ tail \in [Queues -> Slots]
  /\ ring \in [Queues -> [Slots -> Pbufs \cup {NoBuf}]]
  /\ owner \in [Pbufs -> Holders]
  /\ alerts \in 0 .. MboxSize
  /\ tpc \in TcpipPcs
  /\ ppc \in PtpPcs
  /\ cur \in Pbufs \cup {NoBuf}

\* (i + 1) & PBUF_QUEUE_MASK: the mask of a power of two wraps the index.
Advance(i) == IF i = Size - 1 THEN 0 ELSE i + 1

\* netQCheck
IsEmpty(q) == tail[q] = head[q]

IsFull(q) == Advance(head[q]) = tail[q]

\* The slots that hold a packet, for tail t and head h: those after t up to and
\* including h.
Between(t, h) == IF t <= h THEN (t + 1) .. h ELSE ((t + 1) .. (Size - 1)) \cup (0 .. h)

Live(q) == Between(tail[q], head[q])

\* netInit: both queues start empty, the callbacks are registered.
Init ==
  /\ head = [q \in Queues |-> 0]
  /\ tail = [q \in Queues |-> 0]
  /\ ring = [q \in Queues |-> [s \in Slots |-> NoBuf]]
  /\ owner = [p \in Pbufs |-> "pool"]
  /\ alerts = 0
  /\ tpc = "idle"
  /\ ppc = "doState"
  /\ cur = NoBuf

-----------------------------------------------------------------------------
(* The tcpip thread: netRecvEventCallback and netRecvGeneralCallback.      *)

\* Fault: the callback takes the buffer without the "is there room" test.
NetQPut_NoRoomTest(q, p) ==
  /\ head' = [head EXCEPT ![q] = Advance(@)]
  /\ ring' = [ring EXCEPT ![q][Advance(head[q])] = p]
  /\ UNCHANGED tail

\* netQPut with room in the ring.
NetQPut(q, p) ==
  /\ ~IsFull(q)
  /\ head' = [head EXCEPT ![q] = Advance(@)]
  /\ ring' = [ring EXCEPT ![q][Advance(head[q])] = p]
  /\ UNCHANGED tail

\* lwIP hands over packet p received on port q, and the callback queues it.
RecvCallback(q, p) ==
  /\ tpc = "idle"
  /\ owner[p] = "pool"
  /\ NetQPut(q, p)
  /\ owner' = [owner EXCEPT ![p] = q]
  /\ tpc' = "alert"
  /\ UNCHANGED <<alerts, ppc, cur>>

\* netQPut finds no room: the callback still owns p and must free it.
RecvCallbackFull(q, p) ==
  /\ tpc = "idle"
  /\ owner[p] = "pool"
  /\ IsFull(q)
  /\ owner' = [owner EXCEPT ![p] = "tcpip"]
  /\ tpc' = "free"
  /\ UNCHANGED <<head, tail, ring, alerts, ppc, cur>>

\* Fault: the error path returns without pbuf_free.
CallbackFree_Leak(p) ==
  /\ tpc = "free"
  /\ owner[p] = "tcpip"
  /\ tpc' = "idle"
  /\ UNCHANGED <<head, tail, ring, owner, alerts, ppc, cur>>

CallbackFree(p) ==
  /\ tpc = "free"
  /\ owner[p] = "tcpip"
  /\ owner' = [owner EXCEPT ![p] = "pool"]
  /\ tpc' = "idle"
  /\ UNCHANGED <<head, tail, ring, alerts, ppc, cur>>

\* Fault: an alert that is lost although the mailbox has room.
PtpdAlert_Lost == alerts' \in {alerts, IF alerts < MboxSize THEN alerts + 1 ELSE alerts}

\* ptpd_alert: sys_mbox_trypost drops the message when the mailbox is full.
PtpdAlert == alerts' = IF alerts < MboxSize THEN alerts + 1 ELSE alerts

CallbackAlert ==
  /\ tpc = "alert"
  /\ PtpdAlert
  /\ tpc' = "idle"
  /\ UNCHANGED <<head, tail, ring, owner, ppc, cur>>

\* A timer callback alerts the PTP thread as well (dep/timer.c).
TimerAlert ==
  /\ PtpdAlert
  /\ UNCHANGED <<head, tail, ring, owner, tpc, ppc, cur>>

-----------------------------------------------------------------------------
(* The PTP thread: ptpd_thread, handle() and netRecv.                      *)

\* Fault: the packet put last is taken first.
NetQGet_Newest(q) ==
  /\ ~IsEmpty(q)
  /\ head' = [head EXCEPT ![q] = (@ + Size - 1) % Size]
  /\ cur' = ring[q][head[q]]
  /\ owner' = [owner EXCEPT ![ring[q][head[q]]] = "ptp"]
  /\ UNCHANGED <<tail, ring>>

\* netQGet on a queue with a packet.
NetQGet(q) ==
  LET slot == Advance(tail[q]) IN
  /\ ~IsEmpty(q)
  /\ tail' = [tail EXCEPT ![q] = slot]
  /\ cur' = ring[q][slot]
  /\ owner' = [owner EXCEPT ![ring[q][slot]] = "ptp"]
  /\ UNCHANGED <<head, ring>>

\* A doState that never gets to handle(), or whose netSelect found nothing.
DoStateWithoutRecv ==
  /\ ppc = "doState"
  /\ ppc' = "select"
  /\ UNCHANGED <<head, tail, ring, owner, alerts, tpc, cur>>

\* handle() asks the event queue first ...
NetRecvEvent ==
  /\ ppc = "doState"
  /\ NetQGet("event")
  /\ ppc' = "recvEvent"
  /\ UNCHANGED <<alerts, tpc>>

NoEvent ==
  /\ ppc = "doState"
  /\ IsEmpty("event")
  /\ ppc' = "general"
  /\ UNCHANGED <<head, tail, ring, owner, alerts, tpc, cur>>

\* ... and the general queue only when that returned nothing.
NetRecvGeneral ==
  /\ ppc = "general"
  /\ NetQGet("general")
  /\ ppc' = "recvGeneral"
  /\ UNCHANGED <<alerts, tpc>>

NoGeneral ==
  /\ ppc = "general"
  /\ IsEmpty("general")
  /\ ppc' = "select"
  /\ UNCHANGED <<head, tail, ring, owner, alerts, tpc, cur>>

PbufFree(p) == owner' = [owner EXCEPT ![p] = "pool"]

\* netRecv copies the payload and frees the pbuf.
NetRecvCopy ==
  /\ ppc \in {"recvEvent", "recvGeneral"}
  /\ PbufFree(cur)
  /\ ppc' = "dispatch"
  /\ UNCHANGED <<head, tail, ring, alerts, tpc, cur>>

\* An oversized or empty packet: freed, netRecv returns 0.  From the event
\* queue handle() then goes on to the general queue.
NetRecvReject ==
  /\ ppc \in {"recvEvent", "recvGeneral"}
  /\ PbufFree(cur)
  /\ cur' = NoBuf
  /\ ppc' = IF ppc = "recvEvent" THEN "general" ELSE "select"
  /\ UNCHANGED <<head, tail, ring, alerts, tpc>>

\* The handler of the message is done with it.
HandlerDone ==
  /\ ppc = "dispatch"
  /\ cur' = NoBuf
  /\ ppc' = "select"
  /\ UNCHANGED <<head, tail, ring, owner, alerts, tpc>>

\* netEmptyEventQ, called by initClock from toState or from updateClock: frees
\* every packet of the event queue.
NetEmptyEventQ ==
  /\ ppc \in {"doState", "dispatch"}
  /\ owner' = [p \in Pbufs |-> IF \E s \in Live("event") : ring["event"][s] = p
                               THEN "pool" ELSE owner[p]]
  /\ tail' = [tail EXCEPT !["event"] = head["event"]]
  /\ UNCHANGED <<head, ring, alerts, tpc, ppc, cur>>

\* Fault: the loop condition looks at the general queue only.
SelectEvent_Skipped ==
  /\ ppc = "select"
  /\ ppc' = "selectGeneral"
  /\ UNCHANGED <<head, tail, ring, owner, alerts, tpc, cur>>

\* netSelect, the condition of the do-while loop: two separate queue checks.
SelectEvent ==
  /\ ppc = "select"
  /\ ppc' = IF IsEmpty("event") THEN "selectGeneral" ELSE "doState"
  /\ UNCHANGED <<head, tail, ring, owner, alerts, tpc, cur>>

\* Fault: the loop condition does not look at the general queue.
SelectGeneral_Skipped ==
  /\ ppc = "selectGeneral"
  /\ ppc' = "wait"
  /\ UNCHANGED <<head, tail, ring, owner, alerts, tpc, cur>>

SelectGeneral ==
  /\ ppc = "selectGeneral"
  /\ ppc' = IF IsEmpty("general") THEN "wait" ELSE "doState"
  /\ UNCHANGED <<head, tail, ring, owner, alerts, tpc, cur>>

\* sys_arch_mbox_fetch with an alert to fetch ...
FetchAlert ==
  /\ ppc = "wait"
  /\ alerts > 0
  /\ alerts' = alerts - 1
  /\ ppc' = "doState"
  /\ UNCHANGED <<head, tail, ring, owner, tpc, cur>>

\* ... and its 100 ms timeout.
FetchTimeout ==
  /\ ppc = "wait"
  /\ alerts = 0
  /\ ppc' = "doState"
  /\ UNCHANGED <<head, tail, ring, owner, alerts, tpc, cur>>

-----------------------------------------------------------------------------
Tcpip ==
  \/ \E q \in Queues, p \in Pbufs : RecvCallback(q, p) \/ RecvCallbackFull(q, p)
  \/ \E p \in Pbufs : CallbackFree(p)
  \/ CallbackAlert

Ptp ==
  \/ DoStateWithoutRecv \/ NetRecvEvent \/ NoEvent \/ NetRecvGeneral \/ NoGeneral
  \/ NetRecvCopy \/ NetRecvReject \/ HandlerDone \/ NetEmptyEventQ
  \/ SelectEvent \/ SelectGeneral \/ FetchAlert \/ FetchTimeout

Next == Tcpip \/ Ptp \/ TimerAlert

Spec == Init /\ [][Next]_vars

(***************************************************************************)
(* Fairness.  The PTP thread is the only thread of its priority and lower  *)
(* ones cannot hold it up: each of its steps is eventually taken.  A       *)
(* doState that leaves the event queue alone (announce timeout, FAULTY,    *)
(* INITIALIZING) cannot repeat for ever, hence strong fairness of          *)
(* NetRecvEvent and NoEvent.  FetchTimeout is NOT assumed fair: the alerts *)
(* alone must wake the thread.  Nothing is assumed of the network.         *)
(***************************************************************************)
Fairness ==
  /\ WF_vars(NetRecvGeneral \/ NoGeneral)
  /\ WF_vars(NetRecvCopy \/ NetRecvReject)
  /\ WF_vars(HandlerDone)
  /\ WF_vars(SelectEvent)
  /\ WF_vars(SelectGeneral)
  /\ WF_vars(FetchAlert)
  /\ WF_vars(CallbackAlert)
  /\ SF_vars(NetRecvEvent)
  /\ SF_vars(NoEvent)

FairSpec == Spec /\ Fairness

-----------------------------------------------------------------------------
(* Properties.                                                             *)

LiveOwned == \A q \in Queues : \A s \in Live(q) : ring[q][s] \in Pbufs /\ owner[ring[q][s]] = q

LiveDistinct == \A q \in Queues : \A s, t \in Live(q) : ring[q][s] = ring[q][t] => s = t

OwnedLive == \A p \in Pbufs : \A q \in Queues : owner[p] = q => \E s \in Live(q) : ring[q][s] = p

\* The rings and the ownership agree: a pbuf is owned by a queue exactly when
\* one live slot of that queue, and only one, holds it.  netQPut, netQGet and
\* netQEmpty (dep/net.c) never lose, duplicate or overwrite a queued packet.
QueueOwnership == LiveOwned /\ LiveDistinct /\ OwnedLive

\* A pbuf that is neither free nor queued is the one packet in the hands of
\* netRecv or the one the callback is about to free: every path of netRecv and
\* of the callbacks frees what it took, once.
NoLeak ==
  /\ \A p \in Pbufs : owner[p] = "ptp" <=> (ppc \in {"recvEvent", "recvGeneral"} /\ cur = p)
  /\ \A p \in Pbufs : owner[p] = "tcpip" => tpc = "free"
  /\ \A p1, p2 \in Pbufs : owner[p1] = "tcpip" /\ owner[p2] = "tcpip" => p1 = p2

\* An alert is in the mailbox or about to be posted.
Alerted == alerts > 0 \/ tpc = "alert"

\* The PTP thread never sleeps on a queued packet without an alert that is
\* posted or about to be: the netSelect of ptpd_thread and the ptpd_alert of the
\* callbacks leave no lost wakeup, whatever the mailbox drops when it is full.
NoLostWakeup == ppc = "wait" /\ (\E q \in Queues : ~IsEmpty(q)) => Alerted

\* Every packet put on the event queue is eventually read or flushed, by the
\* alerts alone, without the 100 ms timeout of the mailbox fetch.
EventServed == \A p \in Pbufs : (owner[p] = "event") ~> (owner[p] # "event")

\* handle() reads the general queue only when the event queue returned nothing
\* (protocol.c): a packet of the general queue waits for ever only if event
\* messages never stop coming.  The alerts and the loop condition of ptpd_thread
\* leave it no other way to starve, again without the 100 ms timeout.
GeneralStarvedOnlyByEvents ==
  \A p \in Pbufs : <>[](owner[p] = "general") => []<>(~IsEmpty("event"))

-----------------------------------------------------------------------------
(* The two rings implement two bounded FIFO queues.                        *)

\* The slot that is j places after tail.
SlotAt(q, j) == IF tail[q] + j < Size THEN tail[q] + j ELSE tail[q] + j - Size

Count(q) == IF tail[q] <= head[q] THEN head[q] - tail[q] ELSE head[q] - tail[q] + Size

Contents(q) == [j \in 1 .. Count(q) |-> ring[q][SlotAt(q, j)]]

InHand == IF ppc \in {"recvEvent", "recvGeneral"} THEN cur ELSE NoBuf

Fifo == INSTANCE PbufFifo WITH
          Capacity <- Size - 1,
          queue <- [q \in Queues |-> Contents(q)],
          inHand <- InHand

\* Each ring is a FIFO queue of Size - 1 packets: first in, first out, rejecting
\* only when full, and the packet in hand is the one that was at the front.
FifoRefinement == Fifo!Spec
=============================================================================
