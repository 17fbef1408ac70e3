------------------------------- MODULE EthRx --------------------------------
(***************************************************************************)
(* Reception in ethernetif.c: the DMA descriptors and the zero-copy buffer *)
(* pool, the input thread, the threads that free packets, and the receive  *)
(* time stamp that netRecv (dep/net.c) reads.                              *)
(*                                                                         *)
(* A buffer is in the pool, armed (in a descriptor of the DMA), filled (in *)
(* a descriptor, a frame in it) or held by the stack.  The input thread    *)
(* has the highest priority: the others run only while it is blocked, the  *)
(* DMA and its interrupt at any time.  The HAL driver is external code,    *)
(* modelled from its use: HAL_ETH_ReadData takes the oldest frame, keeps   *)
(* its stamp, and asks for a new buffer for every empty descriptor.        *)
(***************************************************************************)
EXTENDS Integers, Sequences

CONSTANTS
  Descriptors,      \* ETH_RX_DESC_CNT
  PoolSize,         \* ETH_RX_BUFFER_CNT
  Freers,           \* the threads that free packets
  QueueSize         \* the packets of the PTP event queue

ASSUME PoolAssumption ==
  Descriptors \in Nat \ {0} /\ PoolSize \in Nat /\ PoolSize > Descriptors /\ QueueSize \in Nat

VARIABLES
  pool,             \* free buffers of RX_POOL
  armed, filled,    \* descriptors with a buffer: empty, and with a frame
  status,           \* RxAllocStatus
  sem,              \* RxPktSemaphore, binary
  input,            \* the input thread: "wait", "read" or "deliver"
  held,             \* packets in the stack, outside the PTP event queue
  queue,            \* the PTP event queue; a packet is TRUE while its stamp is the HAL's
  freer,            \* per thread: "idle", "freed", "clear" or "release" in pbuf_free_custom
  stamped           \* netRecv has so far returned every packet with its own stamp

vars == <<pool, armed, filled, status, sem, input, held, queue, freer, stamped>>

Bare == Descriptors - armed - filled     \* descriptors without a buffer

Busy == input # "wait" \/ sem            \* the input thread runs or is about to

Init ==
  /\ pool = PoolSize - Descriptors       \* HAL_ETH_Start_IT arms every descriptor
  /\ armed = Descriptors
  /\ filled = 0
  /\ status = 0
  /\ sem = FALSE
  /\ input = "wait"
  /\ held = 0
  /\ queue = <<>>
  /\ freer = [f \in Freers |-> "idle"]
  /\ stamped = TRUE

-----------------------------------------------------------------------------
(* The DMA and its interrupt.                                              *)

\* A frame arrives, HAL_ETH_RxCpltCallback.  With no armed descriptor it is lost.
Receive ==
  /\ armed > 0
  /\ armed' = armed - 1
  /\ filled' = filled + 1
  /\ sem' = TRUE
  /\ UNCHANGED <<pool, status, input, held, queue, freer, stamped>>

-----------------------------------------------------------------------------
(* The input thread.                                                       *)

Wake ==
  /\ input = "wait"
  /\ sem
  /\ sem' = FALSE
  /\ input' = "read"
  /\ UNCHANGED <<pool, armed, filled, status, held, queue, freer, stamped>>

\* Fault: the failure to allocate is not remembered.
RxAllocate_Silent(bare) == [taken |-> IF bare <= pool THEN bare ELSE pool, status |-> status]

\* HAL_ETH_RxAllocateCallback for each bare descriptor, up to the first failure.
RxAllocate(bare) ==
  [taken |-> IF bare <= pool THEN bare ELSE pool, status |-> IF bare <= pool THEN status ELSE 1]

\* low_level_input returns NULL: buffers are lacking, or there is no frame (the HAL
\* then still fills bare descriptors).
ReadNothing ==
  /\ input = "read"
  /\ status = 1 \/ filled = 0
  /\ LET r == RxAllocate(Bare)
     IN  IF status = 1 THEN UNCHANGED <<pool, armed, status>>
         ELSE pool' = pool - r.taken /\ armed' = armed + r.taken /\ status' = r.status
  /\ input' = "wait"
  /\ UNCHANGED <<filled, sem, held, queue, freer, stamped>>

\* low_level_input returns a packet, whose stamp replaces that of the one before.
ReadFrame ==
  /\ input = "read"
  /\ status = 0
  /\ filled > 0
  /\ LET r == RxAllocate(Bare + 1)
     IN  pool' = pool - r.taken /\ armed' = armed + r.taken /\ status' = r.status
  /\ filled' = filled - 1
  /\ queue' = [i \in DOMAIN queue |-> FALSE]
  /\ input' = "deliver"
  /\ UNCHANGED <<sem, held, freer, stamped>>

\* Fault: a packet the stack does not take is dropped.
Refuse_Leaks == UNCHANGED <<pool, status, sem, held, queue>>

\* netif->input fails (the tcpip mailbox is full) and the input thread frees the packet.
Refuse ==
  /\ pool' = pool + 1
  /\ status' = 0
  /\ sem' = (sem \/ status = 1)
  /\ UNCHANGED <<held, queue>>

\* netif->input takes the packet; a PTP event message soon is in the event queue.
Accept ==
  /\ \/ held' = held + 1 /\ UNCHANGED queue
     \/ Len(queue) < QueueSize /\ queue' = Append(queue, TRUE) /\ UNCHANGED held
  /\ UNCHANGED <<pool, status, sem>>

Deliver ==
  /\ input = "deliver"
  /\ Accept \/ Refuse
  /\ input' = "read"
  /\ UNCHANGED <<armed, filled, freer, stamped>>

-----------------------------------------------------------------------------
(* The threads below: pbuf_free_custom and netRecv.                        *)

Free(f) ==
  /\ ~Busy
  /\ freer[f] = "idle"
  /\ held > 0
  /\ held' = held - 1
  /\ pool' = pool + 1
  /\ freer' = [freer EXCEPT ![f] = "freed"]
  /\ UNCHANGED <<armed, filled, status, sem, input, queue, stamped>>

\* netRecv: takes the oldest packet with the HAL's stamp, copies and frees it.
NetRecv(f) ==
  /\ ~Busy
  /\ freer[f] = "idle"
  /\ queue # <<>>
  /\ queue' = Tail(queue)
  /\ stamped' = (stamped /\ Head(queue))
  /\ pool' = pool + 1
  /\ freer' = [freer EXCEPT ![f] = "freed"]
  /\ UNCHANGED <<armed, filled, status, sem, input, held>>

CheckStatus(f) ==
  /\ ~Busy
  /\ freer[f] = "freed"
  /\ freer' = [freer EXCEPT ![f] = IF status = 1 THEN "clear" ELSE "idle"]
  /\ UNCHANGED <<pool, armed, filled, status, sem, input, held, queue, stamped>>

ClearStatus(f) ==
  /\ ~Busy
  /\ freer[f] = "clear"
  /\ status' = 0
  /\ freer' = [freer EXCEPT ![f] = "release"]
  /\ UNCHANGED <<pool, armed, filled, sem, input, held, queue, stamped>>

Release(f) ==
  /\ ~Busy
  /\ freer[f] = "release"
  /\ sem' = TRUE
  /\ freer' = [freer EXCEPT ![f] = "idle"]
  /\ UNCHANGED <<pool, armed, filled, status, input, held, queue, stamped>>

Freeing(f) == Free(f) \/ NetRecv(f) \/ CheckStatus(f) \/ ClearStatus(f) \/ Release(f)

Next ==
  \/ Receive
  \/ Wake
  \/ ReadNothing
  \/ ReadFrame
  \/ Deliver
  \/ \E f \in Freers : Freeing(f)

Spec == Init /\ [][Next]_vars

\* The scheduler runs every thread whose turn it is; frames need not arrive.
Fairness == WF_vars(Wake \/ ReadNothing \/ ReadFrame \/ Deliver) /\ \A f \in Freers : WF_vars(Freeing(f))

FairSpec == Spec /\ Fairness

-----------------------------------------------------------------------------
(* Properties.                                                             *)

TypeOK ==
  /\ pool \in 0 .. PoolSize
  /\ armed \in 0 .. Descriptors
  /\ filled \in 0 .. Descriptors
  /\ armed + filled <= Descriptors
  /\ status \in 0 .. 1
  /\ sem \in BOOLEAN
  /\ input \in {"wait", "read", "deliver"}
  /\ held \in 0 .. PoolSize
  /\ queue \in Seq(BOOLEAN) /\ Len(queue) <= QueueSize
  /\ freer \in [Freers -> {"idle", "freed", "clear", "release"}]
  /\ stamped \in BOOLEAN

\* No buffer is lost or freed twice: each is in exactly one place.
BuffersConserved ==
  pool + armed + filled + held + Len(queue) + (IF input = "deliver" THEN 1 ELSE 0) = PoolSize

\* No wake-up is lost between a failed allocation and the buffer that would have
\* satisfied it: whenever the input thread sleeps, nobody is about to wake it and a
\* frame waits or a descriptor is bare, a packet is held whose release will wake it.
InputNotStranded ==
  ~Busy /\ (\A f \in Freers : freer[f] = "idle") /\ (filled > 0 \/ Bare > 0)
    => status = 1 /\ held + Len(queue) > 0

\* A frame in a descriptor is read, unless the stack holds on to its buffers.
FramesRead == (filled > 0) ~> (filled = 0 \/ input = "deliver")

\* "timestamp of Sync message" (datatypes.h:454): the stamp netRecv returns with a
\* packet is that packet's.
OwnStamp == stamped
=============================================================================
