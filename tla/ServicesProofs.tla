--------------------------- MODULE ServicesProofs ---------------------------
(***************************************************************************)
(* Proofs about two of the parts that run beside the PTP daemon.           *)
(*                                                                         *)
(* The serial port: for every queue size, every number of printing tasks   *)
(* and every length of string that fits into the queue, a full queue       *)
(* drains and no byte is left behind.                                      *)
(*                                                                         *)
(* The DHCP server with one server thread, for any number of buffers and   *)
(* of clients: the thread never uses a freed buffer, misses no wakeup, and *)
(* answers the sender of the message unless that message has been          *)
(* replaced.  With two threads the first of these fails.                   *)
(***************************************************************************)
EXTENDS MCServices, FiniteSetTheorems, SequenceTheorems, TLAPS

-----------------------------------------------------------------------------
(* The serial port.                                                        *)

\* The strings of the command line fit into the transmit queue.  Without this a
\* string of more than QueueSize bytes fills the queue before the interrupt is
\* enabled, times out, and leaves the queue full and the interrupt off.
ShortStrings == MaxLen <= QueueSize

\* What a call has queued: less than its length until the interrupt is to be enabled,
\* and nothing before the first byte of a task that prints.
CallProgress ==
  \A t \in Tasks :
    /\ len[t] <= MaxLen
    /\ t \in Printers => len[t] <= 1
    /\ pc[t] = "put" => put[t] < len[t]

\* While the interrupt is off and no task is about to enable it, the queue holds
\* nothing but what the command line has queued in its unfinished call.
OffMeansUnfinished ==
  ~txeie /\ (\A t \in Tasks : pc[t] # "set")
    => txn <= IF pc["cli"] = "put" THEN put["cli"] ELSE 0

(* TypeOK in three parts.                                                  *)
QueueTypes == txn \in 0 .. QueueSize /\ rxn \in 0 .. QueueSize

RegisterTypes ==
  /\ txeie \in BOOLEAN
  /\ tdr \in {"empty", "byte", "nul"}
  /\ rxne \in BOOLEAN
  /\ ore \in BOOLEAN

CallTypes ==
  /\ pc \in [Tasks -> {"idle", "put", "set"}]
  /\ put \in [Tasks -> Nat]
  /\ len \in [Tasks -> Nat]

UartInv == QueueTypes /\ RegisterTypes /\ CallTypes /\ CallProgress /\ OffMeansUnfinished

\* Both queues start empty and no task is writing.
LEMMA UartInit == Init => UartInv
  <1> SUFFICES ASSUME Init PROVE UartInv
    OBVIOUS
  <1>1. QueueTypes
    BY UartAssumption DEF Init, QueueTypes
  <1>4. RegisterTypes
    BY DEF Init, RegisterTypes
  <1>5. CallTypes
    BY DEF Init, CallTypes
  <1>2. CallProgress
    BY UartAssumption DEF Init, CallProgress
  <1>3. OffMeansUnfinished
    BY DEF Init, OffMeansUnfinished, Tasks
  <1> QED
    BY <1>1, <1>2, <1>3, <1>4, <1>5 DEF UartInv

\* A task that starts a call or queues a byte keeps the invariant: the byte of a
\* printing task is its last one.
LEMMA WriteInv ==
  ASSUME UartInv, NEW t \in Tasks, Call(t) \/ Put(t)
  PROVE  UartInv'
  <1> USE DEF UartInv
  <1>1. RegisterTypes'
    BY DEF Call, Put, RegisterTypes
  <1>2. CASE Call(t)
    <2>1. QueueTypes' /\ CallTypes'
      BY <1>2, UartAssumption DEF Call, Lengths, QueueTypes, CallTypes
    <2>2. CallProgress'
      BY <1>2, UartAssumption DEF Call, Lengths, CallTypes, CallProgress, Tasks
    <2>3. OffMeansUnfinished'
      BY <1>2 DEF Call, QueueTypes, CallTypes, OffMeansUnfinished, Tasks
    <2> QED
      BY <1>1, <2>1, <2>2, <2>3
  <1>3. CASE Put(t)
    <2>1. QueueTypes' /\ CallTypes'
      BY <1>3, UartAssumption DEF Put, HasRoom, QueueTypes, CallTypes
    <2>2. CallProgress'
      BY <1>3, UartAssumption DEF Put, CallTypes, CallProgress, Tasks
    <2>3. OffMeansUnfinished'
      BY <1>3, UartAssumption DEF Put, QueueTypes, CallTypes, CallProgress, OffMeansUnfinished, Tasks
    <2> QED
      BY <1>1, <2>1, <2>2, <2>3
  <1> QED
    BY <1>2, <1>3

\* A time-out needs a full queue, so that the interrupt is on or about to be.
LEMMA ReturnInv ==
  ASSUME ShortStrings, UartInv, NEW t \in Tasks, PutTimeout(t) \/ SetTxeie(t)
  PROVE  UartInv'
  <1> USE DEF UartInv
  <1>1. QueueTypes' /\ CallTypes'
    BY DEF PutTimeout, SetTxeie, QueueTypes, CallTypes
  <1>2. RegisterTypes'
    BY DEF PutTimeout, SetTxeie, Enable, RegisterTypes
  <1>3. CallProgress'
    BY DEF PutTimeout, SetTxeie, CallTypes, CallProgress
  <1>4. OffMeansUnfinished'
    <2>1. CASE PutTimeout(t)
      BY <2>1, UartAssumption DEF PutTimeout, QueueTypes, CallTypes, CallProgress,
         OffMeansUnfinished, Tasks, ShortStrings
    <2>2. CASE SetTxeie(t)
      BY <2>2 DEF SetTxeie, Enable, OffMeansUnfinished
    <2> QED
      BY <2>1, <2>2
  <1> QED
    BY <1>1, <1>2, <1>3, <1>4

\* The handler switches the interrupt off only when the queue is empty.
LEMMA HandlerInv ==
  ASSUME UartInv, Read \/ IsrError \/ IsrRxFull \/ Isr \/ ByteArrives \/ ByteShifted
  PROVE  UartInv'
  <1> USE DEF UartInv
  <1>1. UNCHANGED <<pc, put, len>>
    BY DEF Read, IsrError, IsrRxFull, ByteArrives, ByteShifted, Isr
  <1>2. CallTypes' /\ CallProgress'
    BY <1>1 DEF CallTypes, CallProgress
  <1>3. QueueTypes'
    BY UartAssumption DEF Read, IsrError, IsrRxFull, ByteArrives, ByteShifted, Isr, TransmitByte,
       TransmitNothing,
       QueueTypes
  <1>4. RegisterTypes'
    <2>1. CASE Read \/ IsrError \/ IsrRxFull \/ ByteArrives \/ ByteShifted
      BY <2>1 DEF Read, IsrError, IsrRxFull, ByteArrives, ByteShifted, RegisterTypes
    <2>2. CASE Isr /\ txeie /\ tdr = "empty"
      BY <2>2 DEF Isr, TransmitByte, TransmitNothing, RegisterTypes
    <2>3. CASE Isr /\ ~(txeie /\ tdr = "empty")
      BY <2>3 DEF Isr, RegisterTypes
    <2> QED
      BY <2>1, <2>2, <2>3
  <1>5. UNCHANGED <<txn, txeie>> \/ (~txeie' => txn' = 0)
    BY DEF Read, IsrError, IsrRxFull, ByteArrives, ByteShifted, Isr, TransmitByte, TransmitNothing,
       QueueTypes
  <1>6. OffMeansUnfinished'
    BY <1>1, <1>5 DEF CallTypes, OffMeansUnfinished, Tasks
  <1> QED
    BY <1>2, <1>3, <1>4, <1>6

\* The invariant is inductive, and holds whatever part of the services runs.
LEMMA UartHolds == ASSUME ShortStrings PROVE ServicesSpec => []UartInv
  <1>1. ServicesInit => UartInv
    BY UartInit DEF ServicesInit
  <1>2. UartInv /\ [ServicesNext]_<<part, runVars>> => UartInv'
    <2> SUFFICES ASSUME UartInv, [ServicesNext]_<<part, runVars>> PROVE UartInv'
      OBVIOUS
    <2>1. CASE UNCHANGED vars
      BY <2>1 DEF vars, UartInv, QueueTypes, RegisterTypes, CallTypes, CallProgress, OffMeansUnfinished
    <2>2. CASE Next
      BY <2>2, WriteInv, ReturnInv, HandlerInv DEF Next, Write
    <2>3. [Next]_vars
      BY DEF ServicesNext, runVars, OfUart, OfServer, OfOptions, OfClient, OfPing, OfHttp
    <2> QED
      BY <2>1, <2>2, <2>3
  <1> QED
    BY <1>1, <1>2, PTL DEF ServicesSpec

-----------------------------------------------------------------------------
(* The DHCP server.                                                        *)

\* pending_buf is held except between pbuf_free and the assignment that clears it,
\* it is not NULL while the thread serves a packet, and the buffer msg points into
\* is held as long as msg is read.
HeldWhileServed ==
  \A t \in ServerThreads :
    /\ serverPc[t] # "clear" /\ slot # NoBuf => slot \in held
    /\ serverPc[t] \in {"load", "scan", "reply", "free"} => slot # NoBuf
    /\ serverPc[t] \in {"scan", "reply"} => msg[t] \in held

\* A pending packet is announced, also before the thread is started.
Announced == \A t \in ServerThreads : serverPc[t] \in {"none", "take"} /\ slot # NoBuf => sem

\* pending_buf and pending_addr belong to the same packet.
PairStored == slot \in held => pendingAddr = content[slot].from

\* A packet that has replaced the one being served has given the semaphore.
ReplacementAnnounced ==
  \A t \in ServerThreads : serverPc[t] \in {"scan", "reply"} /\ slot # msg[t] => sem

DhcpInv == Server!TypeOK /\ HeldWhileServed /\ Announced /\ PairStored /\ ReplacementAnnounced

OneThread == \A t, u \in ServerThreads : t = u

\* The initial state satisfies the invariant: nothing is pending.
LEMMA DhcpInit == Server!Init => DhcpInv
  <1> SUFFICES ASSUME Server!Init PROVE DhcpInv
    OBVIOUS
  <1>1. Server!TypeOK
    BY DEF Server!Init, Server!TypeOK, Server!Messages, Server!Pcs
  <1>2. HeldWhileServed /\ Announced /\ PairStored /\ ReplacementAnnounced
    BY ServerAssumption DEF Server!NoBufAssumption, Server!Init, HeldWhileServed, Announced, PairStored,
       ReplacementAnnounced
  <1> QED
    BY <1>1, <1>2 DEF DhcpInv

\* Every step preserves the types of the variables.
LEMMA DhcpTypes == Server!TypeOK /\ [Server!Next]_serverVars => Server!TypeOK'
  <1> SUFFICES ASSUME Server!TypeOK, [Server!Next]_serverVars PROVE Server!TypeOK'
    OBVIOUS
  <1> USE DEF Server!TypeOK, Server!Goto, Server!Pcs
  <1>1. ASSUME NEW p \in DhcpPbufs, NEW m \in Server!Messages, Server!Receive(p, m) PROVE Server!TypeOK'
    BY <1>1 DEF Server!Receive, Server!Pend, Server!StoreAddr, Server!Messages
  <1>2. ASSUME NEW t \in ServerThreads, Server!Start(t) \/ Server!Take(t) PROVE Server!TypeOK'
    BY <1>2 DEF Server!Start, Server!Take
  <1>3. ASSUME NEW t \in ServerThreads, Server!Load(t) \/ Server!Scan(t) \/ Server!Reply(t) PROVE Server!TypeOK'
    BY <1>3 DEF Server!Load, Server!Scan, Server!Reply
  <1>4. ASSUME NEW t \in ServerThreads, Server!Free(t) \/ Server!Clear(t) PROVE Server!TypeOK'
    BY <1>4 DEF Server!Free, Server!Clear
  <1>5. CASE UNCHANGED serverVars
    BY <1>5 DEF serverVars
  <1> QED
    BY <1>1, <1>2, <1>3, <1>4, <1>5 DEF Server!Next, Server!Server

\* The callback may preempt the server anywhere: a new packet keeps the invariant.
LEMMA ReceiveStep ==
  ASSUME DhcpInv, NEW p \in DhcpPbufs, NEW m \in Server!Messages, Server!Receive(p, m)
  PROVE  HeldWhileServed' /\ Announced' /\ PairStored' /\ ReplacementAnnounced'
  <1> USE DEF Server!Receive, Server!Pend, Server!StoreAddr, DhcpInv, Server!TypeOK
  <1>1. HeldWhileServed'
    BY ServerAssumption DEF Server!NoBufAssumption, HeldWhileServed
  <1>2. Announced' /\ ReplacementAnnounced'
    BY DEF Announced, ReplacementAnnounced
  <1>3. PairStored'
    BY DEF PairStored
  <1> QED
    BY <1>1, <1>2, <1>3

\* The steps of the only server thread keep the invariant.
LEMMA ServerStep ==
  ASSUME DhcpInv, OneThread, NEW t \in ServerThreads, Server!Start(t) \/ Server!Server(t)
  PROVE  HeldWhileServed' /\ Announced' /\ PairStored' /\ ReplacementAnnounced'
  <1> USE ServerAssumption DEF Server!NoBufAssumption, DhcpInv, Server!TypeOK, OneThread, Server!Goto,
        Server!Pcs
  <1> USE DEF HeldWhileServed, Announced, PairStored, ReplacementAnnounced
  <1>1. CASE Server!Start(t)
    BY <1>1 DEF Server!Start
  <1>2. CASE Server!Take(t)
    BY <1>2 DEF Server!Take
  <1>3. CASE Server!Load(t)
    BY <1>3 DEF Server!Load
  <1>4. CASE Server!Scan(t)
    BY <1>4 DEF Server!Scan
  <1>5. CASE Server!Reply(t)
    BY <1>5 DEF Server!Reply
  <1>6. CASE Server!Free(t)
    BY <1>6 DEF Server!Free
  <1>7. CASE Server!Clear(t)
    BY <1>7 DEF Server!Clear
  <1> QED
    BY <1>1, <1>2, <1>3, <1>4, <1>5, <1>6, <1>7 DEF Server!Server

\* The invariant is inductive.
LEMMA DhcpStep == ASSUME OneThread, DhcpInv, [Server!Next]_serverVars PROVE DhcpInv'
  <1>1. Server!TypeOK'
    BY DhcpTypes DEF DhcpInv
  <1>2. HeldWhileServed' /\ Announced' /\ PairStored' /\ ReplacementAnnounced'
    <2>1. CASE UNCHANGED serverVars
      BY <2>1 DEF serverVars, DhcpInv, HeldWhileServed, Announced, PairStored, ReplacementAnnounced
    <2>2. CASE Server!Next
      BY <2>2, ReceiveStep, ServerStep DEF Server!Next
    <2> QED
      BY <2>1, <2>2
  <1> QED
    BY <1>1, <1>2 DEF DhcpInv

\* What the invariant says of the buffers, the wakeups and the addresses.
LEMMA DhcpInvSafe == DhcpInv => DhcpRepliesSafe
  <1> SUFFICES ASSUME DhcpInv PROVE DhcpRepliesSafe
    OBVIOUS
  <1>1. Server!NeverUsesFreed
    BY DEF DhcpInv, Server!TypeOK, HeldWhileServed, Server!NeverUsesFreed
  <1>2. Server!NoLostWakeup
    BY DEF DhcpInv, Announced, Server!NoLostWakeup
  <1>3. Server!MisaddressedOnlyIfReplaced
    <2> SUFFICES ASSUME NEW t \in ServerThreads, serverPc[t] = "reply",
                        pendingAddr # content[msg[t]].from
                 PROVE  slot # msg[t] /\ sem
      BY DEF Server!MisaddressedOnlyIfReplaced
    <2>1. slot \in held
      BY DEF DhcpInv, HeldWhileServed
    <2> QED
      BY <2>1 DEF DhcpInv, PairStored, ReplacementAnnounced
  <1> QED
    BY <1>1, <1>2, <1>3 DEF DhcpInv, DhcpRepliesSafe

-----------------------------------------------------------------------------
(* The ping command.                                                       *)

\* Between two requests left counts the ones still to be made, this one included.
RequestsLeft == pingPc # "idle" => left \in 1 .. Count

\* Between the reset of ping_result and the increment of ping_seq_num only a packet with the
\* number of the last request is accepted; the increment makes it the one before the last.
AcceptedReply ==
  /\ pingPc = "number" /\ result = 0 => acceptedSeq = Pinger!Before(1)
  /\ pingPc \in {"send", "wait", "report"} /\ result = 0
       => acceptedSeq \in {Pinger!Before(1), Pinger!Before(2)}

PingInv == Pinger!TypeOK /\ RequestsLeft /\ AcceptedReply

\* The number of the last request is two behind ping_seq_num after the increment, also
\* when the increment wraps.
LEMMA NumberBehind ==
  ASSUME NEW q \in Pinger!Seqs
  PROVE  /\ (q + 1) % SeqMod \in Pinger!Seqs
         /\ (q - 1) % SeqMod \in Pinger!Seqs
         /\ (((q + 1) % SeqMod) - 2) % SeqMod = (q - 1) % SeqMod
  BY PingGiven DEF Pinger!PingAssumption, Pinger!Seqs

\* Nothing has been accepted before the first request.
LEMMA PingInit == Pinger!Init => PingInv
  <1> SUFFICES ASSUME Pinger!Init PROVE PingInv
    OBVIOUS
  <1>1. 0 \in Pinger!Seqs /\ 1 \in Pinger!Seqs /\ 0 \in 0 .. Count
    BY PingGiven DEF Pinger!PingAssumption, Pinger!Seqs
  <1>2. Pinger!TypeOK
    BY <1>1 DEF Pinger!Init, Pinger!TypeOK
  <1>3. RequestsLeft /\ AcceptedReply
    BY DEF Pinger!Init, RequestsLeft, AcceptedReply
  <1> QED
    BY <1>2, <1>3 DEF PingInv

\* The steps of do_ping keep the invariant.
LEMMA DoPingStep ==
  ASSUME PingInv, Pinger!Start \/ Pinger!DoPing
  PROVE  PingInv'
  <1> USE DEF PingInv, RequestsLeft, AcceptedReply, Pinger!TypeOK
  <1>1. CASE Pinger!Start
    BY <1>1, PingGiven DEF Pinger!PingAssumption, Pinger!Start
  <1>2. CASE Pinger!ResetResult
    BY <1>2 DEF Pinger!ResetResult
  <1>3. CASE Pinger!TakeNumber
    <2>1. seqNum' = (seqNum + 1) % SeqMod /\ seqNum' \in Pinger!Seqs
      BY <1>3, NumberBehind DEF Pinger!TakeNumber, Pinger!Increment
    <2>2. Pinger!Before(2)' = Pinger!Before(1)
      BY <2>1, NumberBehind DEF Pinger!Before
    <2> QED
      BY <1>3, <2>1, <2>2 DEF Pinger!TakeNumber
  <1>4. CASE Pinger!Send
    <2>1. Pinger!Before(1) \in Pinger!Seqs
      BY NumberBehind DEF Pinger!Before
    <2>2. Pinger!Before(1)' = Pinger!Before(1) /\ Pinger!Before(2)' = Pinger!Before(2)
      BY <1>4 DEF Pinger!Send, Pinger!Before
    <2> QED
      BY <1>4, <2>1, <2>2 DEF Pinger!Send
  <1>5. CASE Pinger!Answered \/ Pinger!WaitTimeout
    BY <1>5 DEF Pinger!Answered, Pinger!WaitTimeout, Pinger!Before
  <1>6. CASE Pinger!Report
    BY <1>6, PingGiven DEF Pinger!PingAssumption, Pinger!Report, Pinger!Decrement
  <1> QED
    BY <1>1, <1>2, <1>3, <1>4, <1>5, <1>6 DEF Pinger!DoPing

\* ping_recv accepts a packet with the number of the request just made, wherever do_ping is.
LEMMA PingRecvStep ==
  ASSUME PingInv, \/ Pinger!RecvOther
                  \/ \E s \in inFlight : Pinger!RecvReply(s) \/ Pinger!Lose(s)
                  \/ \E s \in Pinger!Seqs : Pinger!RecvForeign(s)
  PROVE  PingInv'
  <1> USE DEF PingInv, RequestsLeft, AcceptedReply, Pinger!TypeOK
  <1>1. UNCHANGED <<seqNum, pingPc, left>>
    BY DEF Pinger!RecvOther, Pinger!RecvForeign, Pinger!RecvReply, Pinger!Lose
  <1>2. Pinger!Before(1)' = Pinger!Before(1) /\ Pinger!Before(2)' = Pinger!Before(2)
    BY <1>1 DEF Pinger!Before
  <1>3. CASE Pinger!RecvOther
    BY <1>2, <1>3 DEF Pinger!RecvOther
  <1>4. ASSUME NEW s \in Pinger!Seqs, Pinger!RecvForeign(s) PROVE PingInv'
    BY <1>1, <1>2, <1>4 DEF Pinger!RecvForeign, Pinger!Accept, Pinger!IsAnswer
  <1>5. ASSUME NEW s \in inFlight, Pinger!RecvReply(s) PROVE PingInv'
    BY <1>1, <1>2, <1>5 DEF Pinger!RecvReply, Pinger!Accept, Pinger!IsAnswer
  <1>6. ASSUME NEW s \in inFlight, Pinger!Lose(s) PROVE PingInv'
    BY <1>2, <1>6 DEF Pinger!Lose
  <1> QED
    BY <1>3, <1>4, <1>5, <1>6

\* The invariant is inductive.
LEMMA PingStep == ASSUME PingInv, [Pinger!Next]_pingVars PROVE PingInv'
  <1>1. CASE UNCHANGED pingVars
    BY <1>1 DEF pingVars, PingInv, RequestsLeft, AcceptedReply, Pinger!TypeOK, Pinger!Before
  <1>2. CASE Pinger!Next
    BY <1>2, DoPingStep, PingRecvStep DEF Pinger!Next
  <1> QED
    BY <1>1, <1>2

-----------------------------------------------------------------------------
(* The thread that gets the interface its address.                         *)

\* DHCP_TIMEOUT is left for good: from dhcp_stop on the client is off, and nothing starts
\* it again once the static address is set.
ThreadStates ==
  /\ clientPc \in {"poll", "tries", "stop", "static"}
  /\ clientPc = "tries" => DHCP_state = "WAIT_ADDRESS"
  /\ clientPc \in {"stop", "static"} => DHCP_state = "TIMEOUT"
  /\ clientPc = "static" => dhcp = "OFF"

ClientInv ==
  /\ ThreadStates
  /\ ip = "static" => dhcp = "OFF" /\ DHCP_state = "TIMEOUT" /\ clientPc = "poll"

\* No address is set at boot.
LEMMA ClientInit == Client!Init => ClientInv
  BY DEF Client!Init, ClientInv, ThreadStates

\* The invariant is inductive: lwIP's client moves only when it is on, and DHCP_thread
\* starts it in DHCP_START alone.
LEMMA ClientStep == ASSUME ClientInv, [Client!Next]_clientVars PROVE ClientInv'
  <1> USE DEF ClientInv, ThreadStates
  <1>1. CASE UNCHANGED clientVars
    BY <1>1 DEF clientVars
  <1>2. CASE Client!StartDhcp \/ Client!LinkDown
    BY <1>2 DEF Client!StartDhcp, Client!LinkDown, Client!StopClient
  <1>3. CASE Client!AddressAssigned \/ Client!NoAddressYet \/ Client!CheckTries
    BY <1>3 DEF Client!AddressAssigned, Client!NoAddressYet, Client!CheckTries, Client!Supplied
  <1>4. CASE Client!DhcpStop
    BY <1>4 DEF Client!DhcpStop, Client!StopClient
  <1>5. CASE Client!SetStatic
    BY <1>5 DEF Client!SetStatic
  <1>6. CASE Client!Offer \/ Client!Ack \/ Client!Nak \/ Client!Decline \/ Client!Expire
    BY <1>6 DEF Client!Offer, Client!Ack, Client!Nak, Client!Decline, Client!Expire, Client!Enter
  <1>7. CASE Client!Timeout
    BY <1>7
    DEF Client!Timeout, Client!Retry, Client!Rediscover, Client!CheckAgain, Client!Bind, Client!Enter
  <1> QED
    BY <1>1, <1>2, <1>3, <1>4, <1>5, <1>6, <1>7 DEF Client!Next, Client!Thread

-----------------------------------------------------------------------------
(* The HTTP server.                                                        *)

Distinct(q) == \A m, n \in DOMAIN q : q[m] = q[n] => m = n

\* The connections that wait are distinct, and none of them is being served.
WaitingDistinct ==
  /\ backlog \in Seq(HttpClients)
  /\ Distinct(backlog)
  /\ serving \in HttpClients \cup {Http!Nobody}
  /\ serving \notin Http!ToSet(backlog)

\* Every connection holds one netconn, and those of the server's socket, of the connections
\* and of the lost sockets are not more than there are.
FreeConns == NetConns - 1 - Cardinality(open) - lost

Connections ==
  /\ open \subseteq HttpClients
  /\ Http!ToSet(backlog) \cup ({serving} \ {Http!Nobody}) = open
  /\ Len(backlog) + (IF serving = Http!Nobody THEN 0 ELSE 1) = Cardinality(open)
  /\ data \subseteq open /\ reset \subseteq open
  /\ written => serving \in data
  /\ FreeConns >= 0

\* Every netconn that is lost was lost to a reset, and one more may be lost to each reset
\* connection that is still open.
LostToResets ==
  /\ lost \in Nat /\ resets \in 0 .. MaxResets
  /\ lost + Cardinality(reset) <= resets

HttpInv == Connections /\ WaitingDistinct /\ LostToResets

\* The operators on finite sets that HttpServer uses are the library's.
LEMMA HttpFiniteSets ==
  ASSUME NEW S
  PROVE  (Http!IsFiniteSet(S) <=> IsFiniteSet(S)) /\ Http!Cardinality(S) = Cardinality(S)
  <1>1. Http!IsFiniteSet(S) <=> IsFiniteSet(S)
    BY Zenon DEF Http!IsFiniteSet, IsFiniteSet
  <1>2. Http!Cardinality(S) = Cardinality(S)
    BY Zenon DEF Http!Cardinality, Cardinality
  <1> QED
    BY <1>1, <1>2

\* What is assumed of the constants.
LEMMA HttpConstants ==
  /\ Http!Nobody \notin HttpClients /\ IsFiniteSet(HttpClients)
  /\ NetConns \in Nat \ {0} /\ MaxResets \in Nat
  BY HttpGiven, HttpFiniteSets DEF Http!HttpAssumption

\* The netconns that are left, and the type invariant, in these terms.
LEMMA HttpTypes == Http!Free = FreeConns /\ (Connections => Http!TypeOK)
  <1>1. Http!Free = FreeConns
    BY HttpFiniteSets, Zenon DEF Http!Free, FreeConns
  <1> SUFFICES ASSUME Connections PROVE Http!TypeOK
    BY <1>1
  <1>2. Http!Cardinality(open) = Cardinality(open)
    BY HttpFiniteSets
  <1>3. Len(backlog) + (IF serving = Http!Nobody THEN 0 ELSE 1) = Http!Cardinality(open)
    BY <1>2, Zenon DEF Connections
  <1>4. Http!Free >= 0
    BY <1>1, Zenon DEF Connections
  <1> QED
    BY <1>3, <1>4, Zenon DEF Connections, Http!TypeOK

\* What is left of a queue of distinct connections when the oldest is taken from it.
LEMMA TakeOldest ==
  ASSUME NEW q \in Seq(HttpClients), q # <<>>, Distinct(q)
  PROVE  /\ Head(q) \in HttpClients /\ Tail(q) \in Seq(HttpClients) /\ Len(Tail(q)) = Len(q) - 1
         /\ Distinct(Tail(q))
         /\ Head(q) \in Http!ToSet(q)
         /\ Http!ToSet(Tail(q)) = Http!ToSet(q) \ {Head(q)}
  <1>1. /\ Head(q) \in HttpClients /\ Tail(q) \in Seq(HttpClients) /\ Len(Tail(q)) = Len(q) - 1
        /\ \A n \in 1 .. Len(Tail(q)) : Tail(q)[n] = q[n + 1]
    BY HeadTailProperties
  <1>2. Len(q) \in Nat \ {0} /\ DOMAIN q = 1 .. Len(q) /\ DOMAIN Tail(q) = 1 .. (Len(q) - 1) /\ Head(q) = q[1]
    BY <1>1, EmptySeq, LenProperties
  <1>3. Distinct(Tail(q))
    <2> SUFFICES ASSUME NEW m \in 1 .. (Len(q) - 1), NEW n \in 1 .. (Len(q) - 1), Tail(q)[m] = Tail(q)[n]
                 PROVE  m = n
      BY <1>2 DEF Distinct
    <2>1. q[m + 1] = q[n + 1] /\ m + 1 \in DOMAIN q /\ n + 1 \in DOMAIN q
      BY <1>1, <1>2
    <2> QED
      BY <2>1, <1>2 DEF Distinct
  <1>4. Head(q) \in Http!ToSet(q)
    BY <1>2 DEF Http!ToSet
  <1>5. ASSUME NEW c \in Http!ToSet(Tail(q)) PROVE c \in Http!ToSet(q) \ {Head(q)}
    <2>1. PICK n \in 1 .. (Len(q) - 1) : c = Tail(q)[n]
      BY <1>2 DEF Http!ToSet
    <2>2. c = q[n + 1] /\ n + 1 \in DOMAIN q /\ n + 1 # 1 /\ 1 \in DOMAIN q
      BY <2>1, <1>1, <1>2
    <2>3. c # q[1]
      BY <2>2 DEF Distinct
    <2> QED
      BY <2>2, <2>3, <1>2 DEF Http!ToSet
  <1>6. ASSUME NEW c \in Http!ToSet(q) \ {Head(q)} PROVE c \in Http!ToSet(Tail(q))
    <2>1. PICK n \in 1 .. Len(q) : c = q[n]
      BY <1>2 DEF Http!ToSet
    <2>2. n - 1 \in 1 .. Len(Tail(q)) /\ (n - 1) + 1 = n
      BY <2>1, <1>1, <1>2
    <2>3. c = Tail(q)[n - 1]
      BY <2>1, <2>2, <1>1
    <2> QED
      BY <2>2, <2>3, <1>1, <1>2 DEF Http!ToSet
  <1> QED
    BY <1>1, <1>3, <1>4, <1>5, <1>6

\* A connection that was not in the queue is its newest one.
LEMMA AddNewest ==
  ASSUME NEW q \in Seq(HttpClients), Distinct(q), NEW c \in HttpClients, c \notin Http!ToSet(q)
  PROVE  /\ Append(q, c) \in Seq(HttpClients) /\ Len(Append(q, c)) = Len(q) + 1
         /\ Distinct(Append(q, c))
         /\ Http!ToSet(Append(q, c)) = Http!ToSet(q) \cup {c}
  <1>1. /\ Append(q, c) \in Seq(HttpClients) /\ Len(Append(q, c)) = Len(q) + 1
        /\ \A n \in 1 .. Len(q) : Append(q, c)[n] = q[n]
        /\ Append(q, c)[Len(q) + 1] = c
    BY AppendProperties
  <1>2. Len(q) \in Nat /\ DOMAIN q = 1 .. Len(q) /\ DOMAIN Append(q, c) = 1 .. (Len(q) + 1)
    BY <1>1, LenProperties
  <1>3. \A n \in 1 .. Len(q) : q[n] # c
    BY <1>2 DEF Http!ToSet
  <1>4. Distinct(Append(q, c))
    <2> SUFFICES ASSUME NEW m \in 1 .. (Len(q) + 1), NEW n \in 1 .. (Len(q) + 1),
                        Append(q, c)[m] = Append(q, c)[n]
                 PROVE  m = n
      BY <1>2 DEF Distinct
    <2>1. CASE m \in 1 .. Len(q) /\ n \in 1 .. Len(q)
      BY <2>1, <1>1, <1>2 DEF Distinct
    <2>2. CASE m = Len(q) + 1 \/ n = Len(q) + 1
      BY <2>2, <1>1, <1>2, <1>3
    <2> QED
      BY <2>1, <2>2, <1>2
  <1>5. Http!ToSet(Append(q, c)) = Http!ToSet(q) \cup {c}
    <2>1. ASSUME NEW d \in Http!ToSet(q) \cup {c} PROVE d \in Http!ToSet(Append(q, c))
      BY <2>1, <1>1, <1>2 DEF Http!ToSet
    <2>2. ASSUME NEW d \in Http!ToSet(Append(q, c)) PROVE d \in Http!ToSet(q) \cup {c}
      <3>1. PICK n \in 1 .. (Len(q) + 1) : d = Append(q, c)[n]
        BY <1>2 DEF Http!ToSet
      <3>2. CASE n \in 1 .. Len(q)
        BY <3>1, <3>2, <1>1, <1>2 DEF Http!ToSet
      <3>3. CASE n = Len(q) + 1
        BY <3>1, <3>3, <1>1
      <3> QED
        BY <3>2, <3>3, <1>2
    <2> QED
      BY <2>1, <2>2
  <1> QED
    BY <1>1, <1>4, <1>5

\* The sets of connections are finite and their sizes are numbers.
LEMMA HttpSizes ==
  ASSUME HttpInv
  PROVE  /\ IsFiniteSet(open) /\ Cardinality(open) \in Nat
         /\ IsFiniteSet(reset) /\ Cardinality(reset) \in Nat
  BY HttpConstants, FS_Subset, FS_CardinalityType DEF Http!HttpAssumption, HttpInv, Connections

\* No connection is open at the start.
LEMMA HttpInit == Http!Init => HttpInv
  <1> SUFFICES ASSUME Http!Init PROVE HttpInv
    OBVIOUS
  <1>1. Http!ToSet(backlog) = {} /\ Len(backlog) = 0 /\ backlog \in Seq(HttpClients)
    BY EmptySeq DEF Http!Init, Http!ToSet
  <1>2. Cardinality(open) = 0 /\ Cardinality(reset) = 0
    BY FS_EmptySet DEF Http!Init
  <1>3. Connections
    BY <1>1, <1>2, HttpConstants DEF Http!Init, Connections, FreeConns
  <1>4. WaitingDistinct
    BY <1>1 DEF Http!Init, WaitingDistinct, Distinct
  <1>5. LostToResets
    BY <1>2, HttpConstants DEF Http!Init, LostToResets
  <1> QED
    BY <1>3, <1>4, <1>5 DEF HttpInv

\* The connection of a client is over: the sets shrink by it.
LEMMA OverSizes ==
  ASSUME HttpInv, NEW c \in open, Http!Over(c)
  PROVE  /\ Cardinality(open') = Cardinality(open) - 1
         /\ Cardinality(reset') \in Nat
         /\ Cardinality(reset') <= Cardinality(reset)
         /\ c \in reset => Cardinality(reset') = Cardinality(reset) - 1
  <1>1. Cardinality(open \ {c}) = Cardinality(open) - 1
    BY HttpSizes, FS_RemoveElement
  <1>2. /\ c \in reset => Cardinality(reset \ {c}) = Cardinality(reset) - 1
        /\ c \notin reset => Cardinality(reset \ {c}) = Cardinality(reset)
    BY HttpSizes, FS_RemoveElement
  <1>3. Cardinality(reset \ {c}) \in Nat
    BY HttpSizes, FS_RemoveElement, FS_CardinalityType
  <1> QED
    BY <1>1, <1>2, <1>3, HttpSizes DEF Http!Over

\* accept takes the oldest connection, or deletes it.
LEMMA AcceptStep == ASSUME HttpInv, Http!Accept \/ Http!AcceptFails PROVE HttpInv'
  <1> DEFINE c == Head(backlog)
  <1>1. serving = Http!Nobody /\ backlog # <<>> /\ backlog' = Tail(backlog)
    BY DEF Http!Accept, Http!AcceptFails
  <1>2. /\ c \in HttpClients /\ Tail(backlog) \in Seq(HttpClients)
        /\ Len(Tail(backlog)) = Len(backlog) - 1 /\ Len(backlog) \in Nat
        /\ Distinct(Tail(backlog)) /\ c \in Http!ToSet(backlog)
        /\ Http!ToSet(Tail(backlog)) = Http!ToSet(backlog) \ {c}
    BY <1>1, TakeOldest, LenProperties DEF HttpInv, WaitingDistinct
  <1> HIDE DEF c
  <1>3. Http!ToSet(backlog) = open /\ Len(backlog) = Cardinality(open) /\ ~written
    <2>1. Http!ToSet(backlog) = open
      BY <1>1 DEF HttpInv, Connections
    <2>2. Len(backlog) = Cardinality(open)
      BY <1>1, <1>2 DEF HttpInv, Connections
    <2>3. ~written
      BY <1>1, HttpConstants DEF HttpInv, Connections
    <2> QED
      BY <2>1, <2>2, <2>3
  <1>4. c # Http!Nobody
    BY <1>2, HttpConstants DEF Http!HttpAssumption
  <1>5. CASE Http!Accept
    <2>1. /\ serving' = c /\ backlog' = Tail(backlog)
          /\ UNCHANGED <<open, data, reset, resets, written, lost>>
      BY <1>5 DEF Http!Accept, c
    <2>2. Connections'
      BY <2>1, <1>2, <1>3, <1>4 DEF HttpInv, Connections, FreeConns
    <2>3. WaitingDistinct'
      BY <2>1, <1>2 DEF WaitingDistinct
    <2>4. LostToResets'
      BY <2>1 DEF HttpInv, LostToResets
    <2> QED
      BY <2>2, <2>3, <2>4 DEF HttpInv
  <1>6. CASE Http!AcceptFails
    <2>1. /\ Http!Over(c) /\ c \in reset /\ backlog' = Tail(backlog)
          /\ UNCHANGED <<resets, serving, written, lost>>
      BY <1>6 DEF Http!AcceptFails, c
    <2>2. /\ Cardinality(open') = Cardinality(open) - 1
          /\ Cardinality(reset') \in Nat /\ Cardinality(reset') <= Cardinality(reset)
      BY <2>1, <1>2, <1>3, OverSizes
    <2>3. open' = open \ {c} /\ data' = data \ {c} /\ reset' = reset \ {c}
      BY <2>1 DEF Http!Over
    <2>4. Connections'
      <3>1. open' \subseteq HttpClients /\ data' \subseteq open' /\ reset' \subseteq open'
        BY <2>3 DEF HttpInv, Connections
      <3>2. Http!ToSet(backlog') \cup ({serving'} \ {Http!Nobody}) = open'
        BY <2>1, <2>3, <1>1, <1>2, <1>3
      <3>3. Len(backlog') + 0 = Cardinality(open')
        BY <2>1, <2>2, <1>2, <1>3
      <3>4. FreeConns' >= 0
        BY <2>1, <2>2, HttpSizes, HttpConstants DEF HttpInv, Connections, FreeConns, LostToResets
      <3> QED
        BY <3>1, <3>2, <3>3, <3>4, <2>1, <1>1, <1>3 DEF Connections
    <2>5. WaitingDistinct'
      BY <2>1, <1>1, <1>2, <1>3 DEF HttpInv, WaitingDistinct
    <2>6. LostToResets'
      BY <2>1, <2>2, HttpSizes DEF HttpInv, LostToResets
    <2> QED
      BY <2>4, <2>5, <2>6 DEF HttpInv
  <1> QED
    BY <1>5, <1>6

\* read and the page: a connection that ends gives its netconn back, or loses it to the
\* reset that ended it.
LEMMA ServeStep == ASSUME HttpInv, Http!Read \/ Http!ReadFails \/ Http!Reply PROVE HttpInv'
  <1>1. serving \in open /\ serving # Http!Nobody
    BY HttpConstants DEF HttpInv, Connections, Http!Read, Http!ReadFails, Http!Reply
  <1>2. CASE Http!Read
    <2>1. serving \in data /\ written' /\ UNCHANGED <<open, backlog, data, reset, resets, serving, lost>>
      BY <1>2 DEF Http!Read
    <2> QED
      BY <2>1 DEF HttpInv, Connections, FreeConns, WaitingDistinct, LostToResets
  <1>3. CASE Http!ReadFails \/ Http!Reply
    <2>1. Http!Over(serving) /\ serving' = Http!Nobody /\ ~written' /\ UNCHANGED <<backlog, resets>>
      BY <1>3 DEF Http!ReadFails, Http!Reply, Http!Close
    <2>2. lost' = lost \/ (lost' = lost + 1 /\ serving \in reset)
      BY <1>3 DEF Http!ReadFails, Http!Reply, Http!Close
    <2>3. /\ Cardinality(open') = Cardinality(open) - 1
          /\ Cardinality(reset') \in Nat /\ Cardinality(reset') <= Cardinality(reset)
          /\ serving \in reset => Cardinality(reset') = Cardinality(reset) - 1
      BY <1>1, <2>1, OverSizes
    <2>4. open' = open \ {serving} /\ data' = data \ {serving} /\ reset' = reset \ {serving}
      BY <2>1 DEF Http!Over
    <2>5. /\ Http!ToSet(backlog) \cup {serving} = open /\ serving \notin Http!ToSet(backlog)
          /\ Len(backlog) \in Nat /\ Len(backlog) + 1 = Cardinality(open)
      BY <1>1, LenProperties DEF HttpInv, Connections, WaitingDistinct
    <2>6. Connections'
      <3>1. open' \subseteq HttpClients /\ data' \subseteq open' /\ reset' \subseteq open'
        BY <2>4 DEF HttpInv, Connections
      <3>2. Http!ToSet(backlog') \cup ({serving'} \ {Http!Nobody}) = open'
        BY <2>1, <2>4, <2>5
      <3>3. Len(backlog') + 0 = Cardinality(open')
        BY <2>1, <2>3, <2>5, HttpSizes
      <3>4. FreeConns' >= 0
        BY <2>2, <2>3, HttpSizes, HttpConstants DEF HttpInv, Connections, FreeConns, LostToResets
      <3> QED
        BY <3>1, <3>2, <3>3, <3>4, <2>1 DEF Connections
    <2>7. WaitingDistinct'
      <3>1. Http!Nobody \notin Http!ToSet(backlog)
        BY <2>5, HttpConstants DEF HttpInv, Connections
      <3> QED
        BY <2>1, <3>1 DEF HttpInv, WaitingDistinct
    <2>8. LostToResets'
      BY <2>1, <2>2, <2>3, HttpSizes DEF HttpInv, LostToResets
    <2> QED
      BY <2>6, <2>7, <2>8 DEF HttpInv
  <1> QED
    BY <1>2, <1>3

\* A connection is made only while a netconn is free.
LEMMA ConnectStep == ASSUME HttpInv, NEW c \in HttpClients, Http!Connect(c) PROVE HttpInv'
  <1>1. /\ c \notin open /\ FreeConns > 0 /\ open' = open \cup {c} /\ backlog' = Append(backlog, c)
        /\ UNCHANGED <<data, reset, resets, serving, written, lost>>
    BY HttpTypes DEF Http!Connect
  <1>2. c \notin Http!ToSet(backlog) /\ c # serving
    BY <1>1, HttpConstants DEF HttpInv, Connections
  <1>3. /\ Append(backlog, c) \in Seq(HttpClients) /\ Len(Append(backlog, c)) = Len(backlog) + 1
        /\ Distinct(Append(backlog, c)) /\ Len(backlog) \in Nat
        /\ Http!ToSet(Append(backlog, c)) = Http!ToSet(backlog) \cup {c}
    BY <1>2, AddNewest, LenProperties DEF HttpInv, WaitingDistinct
  <1>4. Cardinality(open') = Cardinality(open) + 1
    BY <1>1, HttpSizes, FS_AddElement
  <1>5. Connections'
    <2>1. open' \subseteq HttpClients /\ data' \subseteq open' /\ reset' \subseteq open'
      BY <1>1 DEF HttpInv, Connections
    <2>2. Http!ToSet(backlog') \cup ({serving'} \ {Http!Nobody}) = open'
      BY <1>1, <1>3 DEF HttpInv, Connections
    <2>3. Len(backlog') + (IF serving' = Http!Nobody THEN 0 ELSE 1) = Cardinality(open')
      BY <1>1, <1>3, <1>4, HttpSizes DEF HttpInv, Connections
    <2>4. FreeConns' >= 0
      BY <1>1, <1>4, HttpSizes, HttpConstants DEF HttpInv, FreeConns, LostToResets
    <2> QED
      BY <2>1, <2>2, <2>3, <2>4, <1>1 DEF HttpInv, Connections
  <1>6. WaitingDistinct'
    BY <1>1, <1>2, <1>3 DEF HttpInv, WaitingDistinct
  <1>7. LostToResets'
    BY <1>1 DEF HttpInv, LostToResets
  <1> QED
    BY <1>5, <1>6, <1>7 DEF HttpInv

\* A request that arrives and a reset leave the netconns as they are.
LEMMA ClientsStep ==
  ASSUME HttpInv, NEW c \in HttpClients, Http!Refused(c) \/ Http!Send(c) \/ Http!Reset(c)
  PROVE  HttpInv'
  <1>1. UNCHANGED <<open, backlog, serving, written, lost>> /\ data \subseteq data'
    BY DEF Http!Refused, Http!vars, Http!Send, Http!Reset
  <1>2. data' \subseteq open' /\ reset' \subseteq open'
    BY DEF HttpInv, Connections, Http!Refused, Http!vars, Http!Send, Http!Reset
  <1>3. Connections'
    BY <1>1, <1>2 DEF HttpInv, Connections, FreeConns
  <1>4. WaitingDistinct'
    BY <1>1 DEF HttpInv, WaitingDistinct
  <1>5. LostToResets'
    <2>1. CASE Http!Refused(c) \/ Http!Send(c)
      BY <2>1 DEF HttpInv, LostToResets, Http!Refused, Http!vars, Http!Send
    <2>2. CASE Http!Reset(c)
      <3>1. Cardinality(reset') = Cardinality(reset) + 1
        BY <2>2, HttpSizes, FS_AddElement DEF Http!Reset
      <3> QED
        BY <2>2, <3>1, HttpSizes, HttpConstants DEF HttpInv, LostToResets, Http!Reset
    <2> QED
      BY <2>1, <2>2
  <1> QED
    BY <1>3, <1>4, <1>5 DEF HttpInv

\* The invariant is inductive.
LEMMA HttpStep == ASSUME HttpInv, [Http!Next]_httpVars PROVE HttpInv'
  <1>1. CASE UNCHANGED httpVars
    BY <1>1 DEF httpVars, HttpInv, Connections, FreeConns, WaitingDistinct, LostToResets
  <1>2. CASE Http!Next
    BY <1>2, AcceptStep, ServeStep, ConnectStep, ClientsStep DEF Http!Next, Http!Server
  <1> QED
    BY <1>1, <1>2

-----------------------------------------------------------------------------
(* The parts together: each keeps its invariant while the others run.      *)

\* A full transmit queue drains: UART_Write never waits for room that nobody makes.
THEOREM FullDrains == ASSUME ShortStrings PROVE ServicesSpec => [](TypeOK /\ FullQueueDrains)
  <1>1. UartInv => TypeOK
    BY DEF UartInv, TypeOK, QueueTypes, RegisterTypes, CallTypes
  <1>2. UartInv => FullQueueDrains
    BY UartAssumption DEF UartInv, QueueTypes, CallTypes, CallProgress, OffMeansUnfinished,
       FullQueueDrains, Tasks,
       ShortStrings
  <1> QED
    BY UartHolds, <1>1, <1>2, PTL

\* No byte stays in the transmit queue with the interrupt off once UART_Write has
\* returned everywhere, also when a call has timed out.
THEOREM NoneStranded == ASSUME ShortStrings PROVE ServicesSpec => []NothingStranded
  <1>1. UartInv => NothingStranded
    BY DEF UartInv, QueueTypes, OffMeansUnfinished, NothingStranded, Tasks
  <1> QED
    BY UartHolds, <1>1, PTL

\* With one server thread, dhcp_server_thread never reads or frees a buffer that has been
\* freed, however dhcp_recv_cb replaces pending_buf under it; a packet left by the callback
\* always wakes the thread; and a reply goes to another client than the one it answers only
\* when a newer packet took the message's place.
THEOREM RepliesSafe == ASSUME OneThread PROVE ServicesSpec => []DhcpRepliesSafe
  <1>1. ServicesInit => DhcpInv
    BY DhcpInit DEF ServicesInit
  <1>2. DhcpInv /\ [ServicesNext]_<<part, runVars>> => DhcpInv'
    <2> SUFFICES ASSUME DhcpInv, [ServicesNext]_<<part, runVars>> PROVE DhcpInv'
      OBVIOUS
    <2>1. [Server!Next]_serverVars
      BY DEF ServicesNext, runVars, OfUart, OfServer, OfOptions, OfClient, OfPing, OfHttp
    <2> QED
      BY <2>1, DhcpStep
  <1> QED
    BY <1>1, <1>2, DhcpInvSafe, PTL DEF ServicesSpec

\* do_ping takes a request as answered only if ping_recv was given a packet with the number
\* of the request or of the one just before it, a reply or any other ICMP packet, from
\* whomever: never because of an older reply, however replies are lost, delayed and repeated
\* and wherever ping_recv preempts it, also when the sequence numbers wrap.
THEOREM PingAnswersRecent == ServicesSpec => [](Pinger!TypeOK /\ Pinger!AnswerAtMostOneBehind)
  <1>1. ServicesInit => PingInv
    BY PingInit DEF ServicesInit
  <1>2. PingInv /\ [ServicesNext]_<<part, runVars>> => PingInv'
    <2> SUFFICES ASSUME PingInv, [ServicesNext]_<<part, runVars>> PROVE PingInv'
      OBVIOUS
    <2>1. [Pinger!Next]_pingVars
      BY DEF ServicesNext, runVars, OfUart, OfServer, OfOptions, OfClient, OfPing, OfHttp
    <2> QED
      BY <2>1, PingStep
  <1>3. PingInv => Pinger!TypeOK /\ Pinger!AnswerAtMostOneBehind
    BY DEF PingInv, AcceptedReply, Pinger!AnswerAtMostOneBehind
  <1> QED
    BY <1>1, <1>2, <1>3, PTL DEF ServicesSpec

\* The static address of DHCP_thread is final: lwIP's client is off when the interface has
\* it, whatever answers came between the test of tries and dhcp_stop.
THEOREM StaticIsFinal == ServicesSpec => []Client!StaticMeansStopped
  <1>1. ServicesInit => ClientInv
    BY ClientInit DEF ServicesInit
  <1>2. ClientInv /\ [ServicesNext]_<<part, runVars>> => ClientInv'
    <2> SUFFICES ASSUME ClientInv, [ServicesNext]_<<part, runVars>> PROVE ClientInv'
      OBVIOUS
    <2>1. [Client!Next]_clientVars
      BY DEF ServicesNext, runVars, OfUart, OfServer, OfOptions, OfClient, OfPing, OfHttp
    <2> QED
      BY <2>1, ClientStep
  <1>3. ClientInv => Client!StaticMeansStopped
    BY DEF ClientInv, Client!StaticMeansStopped
  <1> QED
    BY <1>1, <1>2, <1>3, PTL DEF ServicesSpec

\* The invariant of the HTTP server holds whatever part of the services runs.
LEMMA HttpHolds == ServicesSpec => []HttpInv
  <1>1. ServicesInit => HttpInv
    BY HttpInit DEF ServicesInit
  <1>2. HttpInv /\ [ServicesNext]_<<part, runVars>> => HttpInv'
    <2> SUFFICES ASSUME HttpInv, [ServicesNext]_<<part, runVars>> PROVE HttpInv'
      OBVIOUS
    <2>1. [Http!Next]_httpVars
      BY DEF ServicesNext, runVars, OfUart, OfServer, OfOptions, OfClient, OfPing, OfHttp
    <2> QED
      BY <2>1, HttpStep
  <1> QED
    BY <1>1, <1>2, PTL DEF ServicesSpec

\* Every connection holds exactly one netconn, in the backlog or with the server, no netconn
\* is given out twice, and http_server_serve loses one for good only to a connection that
\* was reset.
THEOREM HttpNetconns == ServicesSpec => [](Http!TypeOK /\ lost <= resets)
  <1>1. HttpInv => Http!TypeOK
    BY HttpTypes DEF HttpInv
  <1>2. HttpInv => lost <= resets
    BY HttpSizes DEF HttpInv, LostToResets
  <1> QED
    BY HttpHolds, <1>1, <1>2, PTL

\* With no connection open the next one gets a netconn.
AcceptsWhenIdle == open = {} => Http!Free > 0

\* The sockets that http_server_serve leaves open never take the last netconn, as long as
\* fewer connections are reset than there are netconns for them: a server without a
\* connection can always accept one.
THEOREM IdleServerAccepts == ASSUME MaxResets < NetConns - 1 PROVE ServicesSpec => []AcceptsWhenIdle
  <1>1. HttpInv => AcceptsWhenIdle
    <2> SUFFICES ASSUME HttpInv, open = {} PROVE FreeConns > 0
      BY HttpTypes DEF AcceptsWhenIdle
    <2>1. Cardinality(open) = 0 /\ Cardinality(reset) \in Nat
      BY HttpSizes, FS_EmptySet
    <2> QED
      BY <2>1, HttpConstants DEF HttpInv, LostToResets, FreeConns
  <1> QED
    BY HttpHolds, <1>1, PTL
=============================================================================
