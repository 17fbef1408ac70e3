--------------------------- MODULE EthernetProofs ---------------------------
(***************************************************************************)
(* For every number of descriptors, buffers and threads that free packets, *)
(* the zero-copy reception of ethernetif.c loses no buffer and no wake-up. *)
(* For every number of descriptors, transmission never uses more of them   *)
(* than there are, and low_level_output sends the packet it was called     *)
(* with if only one thread calls it.                                       *)
(***************************************************************************)
EXTENDS MCEthernet, SequenceTheorems, TLAPS

-----------------------------------------------------------------------------
(* Reception.                                                              *)

\* Whoever cleared RxAllocStatus is about to release the semaphore.
WakeupComing ==
  input = "wait" /\ ~sem /\ (filled > 0 \/ Bare > 0)
    => status = 1 \/ \E f \in Freers : freer[f] = "release"

\* While RxAllocStatus is set the pool is empty, or the thread that freed a buffer has
\* still to look at it.
StatusSeen == status = 1 => pool = 0 \/ \E f \in Freers : freer[f] \in {"freed", "clear"}

Inv == TypeOK /\ BuffersConserved /\ WakeupComing /\ StatusSeen

\* TypeOK and BuffersConserved, the numbers apart from the rest.
Numbers ==
  /\ pool \in 0 .. PoolSize
  /\ armed \in 0 .. Descriptors
  /\ filled \in 0 .. Descriptors
  /\ armed + filled <= Descriptors
  /\ status \in 0 .. 1
  /\ held \in 0 .. PoolSize
  /\ Len(queue) \in 0 .. QueueSize
  /\ pool + armed + filled + held + Len(queue) + (IF input = "deliver" THEN 1 ELSE 0) = PoolSize

Others ==
  /\ sem \in BOOLEAN
  /\ input \in {"wait", "read", "deliver"}
  /\ queue \in Seq(BOOLEAN)
  /\ freer \in [Freers -> {"idle", "freed", "clear", "release"}]
  /\ stamped \in BOOLEAN

LEMMA Split == (TypeOK /\ BuffersConserved) <=> (Numbers /\ Others)
<1>1. queue \in Seq(BOOLEAN) => Len(queue) \in Nat
  BY LenProperties
<1> QED
  BY <1>1, PoolAssumption DEF TypeOK, BuffersConserved, Numbers, Others

\* What RxAllocate takes is in the pool; if it is not enough, the pool is empty then.
LEMMA Allocates ==
  ASSUME NEW bare \in Nat, pool \in Nat, status \in 0 .. 1
  PROVE  /\ RxAllocate(bare).taken \in 0 .. bare
         /\ RxAllocate(bare).taken <= pool
         /\ RxAllocate(bare).status \in 0 .. 1
         /\ \/ RxAllocate(bare).taken = bare /\ RxAllocate(bare).status = status
            \/ RxAllocate(bare).taken = pool /\ RxAllocate(bare).status = 1
BY DEF RxAllocate

LEMMA InitInv == Init => Inv
<1> SUFFICES ASSUME Init PROVE Inv
  OBVIOUS
<1>1. queue \in Seq(BOOLEAN) /\ Len(queue) = 0
  BY DEF Init
<1>2. Numbers
  BY <1>1, PoolAssumption DEF Init, Numbers
<1>3. Others
  BY <1>1 DEF Init, Others
<1>4. WakeupComing /\ StatusSeen
  BY PoolAssumption DEF Init, WakeupComing, StatusSeen, Bare
<1> QED
  BY <1>2, <1>3, <1>4, Split DEF Inv

-----------------------------------------------------------------------------
(* TypeOK and BuffersConserved.                                            *)

LEMMA Blanked ==
  ASSUME NEW q \in Seq(BOOLEAN)
  PROVE  /\ [i \in DOMAIN q |-> FALSE] \in Seq(BOOLEAN)
         /\ Len([i \in DOMAIN q |-> FALSE]) = Len(q)
<1>1. Len(q) \in Nat /\ DOMAIN q = 1 .. Len(q)
  BY LenProperties
<1>2. [i \in 1 .. Len(q) |-> FALSE] \in [1 .. Len(q) -> BOOLEAN]
  OBVIOUS
<1>3. [i \in 1 .. Len(q) |-> FALSE] \in Seq(BOOLEAN)
  BY <1>1, <1>2, SeqDef
<1> QED
  BY <1>1, <1>3, LenProperties

LEMMA TypeNext ==
  ASSUME Numbers, Others, [Next]_vars
  PROVE  Numbers' /\ Others'
<1> USE PoolAssumption
<1>0. /\ pool \in Nat /\ armed \in Nat /\ filled \in Nat /\ held \in Nat /\ Len(queue) \in Nat
      /\ Bare \in Nat /\ Bare + armed + filled = Descriptors
  BY DEF Numbers, Bare
<1>1. CASE Receive
  BY <1>1 DEF Numbers, Others, Receive
<1>2. CASE Wake
  BY <1>2 DEF Numbers, Others, Wake
<1>3. CASE ReadNothing
  <2>1. Others'
    BY <1>3 DEF Others, ReadNothing
  <2>2. CASE status = 1
    BY <1>3, <2>1, <2>2 DEF Numbers, ReadNothing
  <2>3. CASE status # 1
    <3>1. PICK k \in Nat : /\ k <= Bare /\ k <= pool
                          /\ pool' = pool - k /\ armed' = armed + k
      <4>1. RxAllocate(Bare).taken \in 0 .. Bare /\ RxAllocate(Bare).taken <= pool
        BY <1>0, Allocates DEF Numbers
      <4> QED
        BY <1>0, <1>3, <2>3, <4>1 DEF ReadNothing
    <3>2. status' \in 0 .. 1
      BY <1>0, <1>3, <2>3, Allocates DEF ReadNothing, Numbers
    <3>3. /\ filled' = filled /\ held' = held /\ queue' = queue
          /\ input = "read" /\ input' = "wait"
      BY <1>3 DEF ReadNothing
    <3>4. /\ pool' \in 0 .. PoolSize /\ armed' \in 0 .. Descriptors /\ armed' + filled' <= Descriptors
          /\ pool' + armed' = pool + armed
      BY <1>0, <3>1, <3>3 DEF Numbers
    <3>5. Numbers'
      BY <1>0, <3>2, <3>3, <3>4 DEF Numbers
    <3> QED
      BY <2>1, <3>5
  <2> QED
    BY <2>2, <2>3
<1>4. CASE ReadFrame
  <2>1. PICK k \in Nat : /\ k <= Bare + 1 /\ k <= pool
                        /\ pool' = pool - k /\ armed' = armed + k
    <3>1. RxAllocate(Bare + 1).taken \in 0 .. (Bare + 1) /\ RxAllocate(Bare + 1).taken <= pool
      BY <1>0, Allocates DEF Numbers
    <3> QED
      BY <1>0, <1>4, <3>1 DEF ReadFrame
  <2>2. status' \in 0 .. 1
    BY <1>0, <1>4, Allocates DEF ReadFrame, Numbers
  <2>3. queue' \in Seq(BOOLEAN) /\ Len(queue') = Len(queue)
    BY <1>4, Blanked DEF ReadFrame, Others
  <2>4. /\ filled > 0 /\ filled' = filled - 1 /\ held' = held
        /\ input = "read" /\ input' = "deliver"
    BY <1>4 DEF ReadFrame
  <2>5. Numbers'
    <3>1. /\ pool' \in 0 .. PoolSize /\ armed' \in 0 .. Descriptors /\ armed' + filled' <= Descriptors
          /\ pool' + armed' = pool + armed /\ filled' \in 0 .. Descriptors
      BY <1>0, <2>1, <2>4 DEF Numbers
    <3>2. pool' + armed' + filled' + held' + Len(queue') + 1 = PoolSize
      <4>1. pool + armed + filled + held + Len(queue) = PoolSize
        BY <1>0, <2>4 DEF Numbers
      <4>2. /\ pool \in Int /\ armed \in Int /\ filled \in Int /\ held \in Int /\ Len(queue) \in Int
            /\ pool' \in Int /\ armed' \in Int /\ PoolSize \in Int
        BY <1>0, <3>1
      <4>3. PICK x \in Int : x = pool + armed /\ x = pool' + armed'
        <5>1. pool + armed \in Int
          BY <4>2
        <5> QED
          BY <3>1, <5>1, Zenon
      <4>4. PICK f \in Int, h \in Int, l \in Int : f = filled /\ h = held /\ l = Len(queue)
        BY <4>2
      <4>5. x + f + h + l = PoolSize
        BY <4>1, <4>3, <4>4
      <4>6. x + (f - 1) + h + l + 1 = PoolSize
        BY <4>2, <4>5
      <4> QED
        BY <2>3, <2>4, <4>3, <4>4, <4>6
    <3>3. held' \in 0 .. PoolSize /\ Len(queue') \in 0 .. QueueSize
      BY <2>3, <2>4 DEF Numbers
    <3>4. (IF input' = "deliver" THEN 1 ELSE 0) = 1
      BY <2>4
    <3> QED
      BY <2>2, <3>1, <3>2, <3>3, <3>4 DEF Numbers
  <2>6. Others'
    BY <1>4, <2>3 DEF Others, ReadFrame
  <2> QED
    BY <2>5, <2>6
<1>5. CASE Deliver
  <2>1. CASE Accept
    <3>1. /\ queue' \in Seq(BOOLEAN) /\ Len(queue') <= QueueSize
          /\ \/ held' = held + 1 /\ Len(queue') = Len(queue)
             \/ held' = held /\ Len(queue') = Len(queue) + 1
      <4>1. Append(queue, TRUE) \in Seq(BOOLEAN) /\ Len(Append(queue, TRUE)) = Len(queue) + 1
        BY AppendProperties DEF Others
      <4>2. CASE held' = held + 1 /\ UNCHANGED queue
        BY <1>0, <4>2 DEF Numbers, Others
      <4>3. CASE Len(queue) < QueueSize /\ queue' = Append(queue, TRUE) /\ UNCHANGED held
        BY <1>0, <4>1, <4>3
      <4> QED
        BY <2>1, <4>2, <4>3 DEF Accept
    <3>2. Others'
      BY <1>5, <2>1, <3>1 DEF Others, Deliver, Accept
    <3>3. /\ pool' = pool /\ armed' = armed /\ filled' = filled /\ status' = status
          /\ input = "deliver" /\ input' = "read"
      BY <1>5, <2>1 DEF Deliver, Accept
    <3>4. Len(queue') \in Nat
      BY <3>1, LenProperties
    <3>5. Numbers'
      BY <1>0, <3>1, <3>3, <3>4 DEF Numbers
    <3> QED
      BY <3>2, <3>5
  <2>2. CASE Refuse
    <3>1. Numbers'
      BY <1>0, <1>5, <2>2 DEF Numbers, Deliver, Refuse
    <3>2. Others'
      BY <1>5, <2>2 DEF Others, Deliver, Refuse
    <3> QED
      BY <3>1, <3>2
  <2> QED
    BY <1>5, <2>1, <2>2 DEF Deliver
<1>6. ASSUME NEW f \in Freers, Freeing(f)
      PROVE  Numbers' /\ Others'
  <2>1. CASE Free(f)
    BY <1>0, <2>1 DEF Numbers, Others, Free, Busy
  <2>2. CASE NetRecv(f)
    <3>1. Tail(queue) \in Seq(BOOLEAN) /\ Len(Tail(queue)) = Len(queue) - 1 /\ Head(queue) \in BOOLEAN
      BY <2>2, HeadTailProperties DEF Others, NetRecv
    <3>2. Numbers'
      <4>1. /\ pool' = pool + 1 /\ Len(queue') = Len(queue) - 1 /\ Len(queue') \in Nat
            /\ armed' = armed /\ filled' = filled /\ status' = status /\ held' = held /\ input' = input
        BY <2>2, <3>1, LenProperties DEF NetRecv
      <4> QED
        BY <1>0, <4>1 DEF Numbers
    <3>3. Others'
      BY <2>2, <3>1 DEF Others, NetRecv
    <3> QED
      BY <3>2, <3>3
  <2>3. CASE CheckStatus(f)
    BY <2>3 DEF Numbers, Others, CheckStatus
  <2>4. CASE ClearStatus(f)
    BY <2>4 DEF Numbers, Others, ClearStatus
  <2>5. CASE Release(f)
    BY <2>5 DEF Numbers, Others, Release
  <2> QED
    BY <1>6, <2>1, <2>2, <2>3, <2>4, <2>5 DEF Freeing
<1>7. CASE UNCHANGED vars
  BY <1>7 DEF vars, Numbers, Others
<1> QED
  BY <1>1, <1>2, <1>3, <1>4, <1>5, <1>6, <1>7 DEF Next

-----------------------------------------------------------------------------
(* The wake-up.                                                            *)

LEMMA WakeupNext ==
  ASSUME Numbers, Others, WakeupComing, StatusSeen, [Next]_vars
  PROVE  WakeupComing' /\ StatusSeen'
<1> USE PoolAssumption
<1>0. /\ pool \in Nat /\ armed \in Nat /\ filled \in Nat /\ status \in 0 .. 1
      /\ Bare \in Nat /\ Bare + armed + filled = Descriptors
  BY DEF Numbers, Bare
<1>1. CASE Receive
  BY <1>1 DEF WakeupComing, StatusSeen, Receive
<1>2. CASE Wake
  BY <1>2 DEF WakeupComing, StatusSeen, Wake
<1>3. CASE ReadNothing
  <2>1. CASE status = 1
    BY <1>3, <2>1 DEF WakeupComing, StatusSeen, ReadNothing
  <2>2. CASE status # 1
    <3>1. \/ /\ pool' = pool - Bare /\ armed' = armed + Bare /\ status' = status
          \/ /\ pool' = pool - pool /\ status' = 1
      BY <1>0, <1>3, <2>2, Allocates DEF ReadNothing
    <3>2. status = 0 /\ filled = 0 /\ filled' = 0
      BY <1>0, <1>3, <2>2 DEF ReadNothing
    <3>3. CASE armed' = armed + Bare /\ status' = status
      <4>1. Bare' = 0
        BY <1>0, <3>2, <3>3 DEF Bare
      <4> QED
        BY <3>2, <3>3, <4>1 DEF WakeupComing, StatusSeen
    <3>4. CASE pool' = pool - pool /\ status' = 1
      <4>1. pool' = 0
        BY <1>0, <3>4
      <4> QED
        BY <3>4, <4>1 DEF WakeupComing, StatusSeen
    <3> QED
      BY <3>1, <3>3, <3>4
  <2> QED
    BY <2>1, <2>2
<1>4. CASE ReadFrame
  <2>1. status = 0 /\ input' = "deliver"
    BY <1>4 DEF ReadFrame
  <2>2. status' = status \/ (pool' = pool - pool /\ status' = 1)
    BY <1>0, <1>4, Allocates DEF ReadFrame
  <2>3. status' = 0 \/ pool' = 0
    BY <1>0, <2>1, <2>2
  <2> QED
    BY <2>1, <2>3 DEF WakeupComing, StatusSeen
<1>5. CASE Deliver
  <2>1. input' = "read" /\ freer' = freer
    BY <1>5 DEF Deliver
  <2>2. status' = 0 \/ (status' = status /\ pool' = pool)
    BY <1>5 DEF Deliver, Accept, Refuse
  <2> QED
    BY <2>1, <2>2 DEF WakeupComing, StatusSeen
<1>6. ASSUME NEW f \in Freers, Freeing(f)
      PROVE  WakeupComing' /\ StatusSeen'
  <2>0. freer \in [Freers -> {"idle", "freed", "clear", "release"}]
    BY DEF Others
  <2>1. ASSUME freer' = [freer EXCEPT ![f] = "freed"], freer[f] = "idle",
               UNCHANGED <<armed, filled, status, sem, input>>
        PROVE  WakeupComing' /\ StatusSeen'
    <3>1. freer'[f] = "freed" /\ \A g \in Freers : g # f => freer'[g] = freer[g]
      BY <2>0, <2>1
    <3>2. Bare' = Bare
      BY <2>1 DEF Bare
    <3> QED
      BY <2>1, <3>1, <3>2 DEF WakeupComing, StatusSeen
  <2>2. CASE Free(f)
    BY <2>1, <2>2 DEF Free
  <2>3. CASE NetRecv(f)
    BY <2>1, <2>3 DEF NetRecv
  <2>4. CASE CheckStatus(f)
    <3>1. /\ freer'[f] = (IF status = 1 THEN "clear" ELSE "idle") /\ freer[f] = "freed"
          /\ \A g \in Freers : g # f => freer'[g] = freer[g]
      BY <2>0, <2>4 DEF CheckStatus
    <3>2. /\ Bare' = Bare /\ pool' = pool /\ filled' = filled /\ status' = status
          /\ sem' = sem /\ input' = input
      BY <2>4 DEF CheckStatus, Bare
    <3> QED
      BY <3>1, <3>2 DEF WakeupComing, StatusSeen
  <2>5. CASE ClearStatus(f)
    <3>1. freer'[f] = "release" /\ status' = 0
      BY <2>0, <2>5 DEF ClearStatus
    <3> QED
      BY <3>1 DEF WakeupComing, StatusSeen
  <2>6. CASE Release(f)
    <3>1. /\ freer[f] = "release" /\ sem' = TRUE /\ pool' = pool /\ status' = status
          /\ \A g \in Freers : g # f => freer'[g] = freer[g]
      BY <2>0, <2>6 DEF Release
    <3> QED
      BY <3>1 DEF WakeupComing, StatusSeen
  <2> QED
    BY <1>6, <2>2, <2>3, <2>4, <2>5, <2>6 DEF Freeing
<1>7. CASE UNCHANGED vars
  BY <1>7 DEF vars, WakeupComing, StatusSeen, Bare
<1> QED
  BY <1>1, <1>2, <1>3, <1>4, <1>5, <1>6, <1>7 DEF Next

LEMMA InvAlways == Spec => []Inv
<1>1. Inv /\ [Next]_vars => Inv'
  BY TypeNext, WakeupNext, Split, PTL DEF Inv
<1> QED
  BY InitInv, <1>1, PTL DEF Spec

\* Whatever the stack refuses, holds and frees, and in whatever order its threads do,
\* each receive buffer is in exactly one place.
THEOREM BuffersKept == Spec => [](TypeOK /\ BuffersConserved)
<1>1. Inv => TypeOK /\ BuffersConserved
  BY DEF Inv
<1> QED
  BY <1>1, InvAlways, PTL

\* No interleaving of the DMA, the input thread and the threads that free packets loses
\* the wake-up that ends a shortage of buffers.
THEOREM NoLostWakeup == Spec => []InputNotStranded
<1>1. Inv => InputNotStranded
  <2> SUFFICES ASSUME Inv, ~Busy, \A f \in Freers : freer[f] = "idle", filled > 0 \/ Bare > 0
               PROVE  status = 1 /\ held + Len(queue) > 0
    BY DEF InputNotStranded
  <2>1. Numbers /\ Others
    BY Split DEF Inv
  <2>2. input = "wait" /\ ~sem
    BY <2>1 DEF Busy, Others
  <2>3. status = 1
    BY <2>2 DEF Inv, WakeupComing
  <2>4. pool = 0
    BY <2>3 DEF Inv, StatusSeen
  <2>5. armed + filled + held + Len(queue) = PoolSize
    BY <2>1, <2>2, <2>4 DEF Numbers
  <2> QED
    BY <2>1, <2>3, <2>5, PoolAssumption DEF Numbers
<1> QED
  BY <1>1, InvAlways, PTL

-----------------------------------------------------------------------------
(* Transmission.                                                           *)

\* Tx!TypeOK in three parts, with the ring as a sequence.
TxPcs ==
  /\ pc \in [{"tcpip", "ptp"} -> {"idle", "transmit", "busy", "stamp"}]
  /\ \A t \in {"tcpip", "ptp"} : pc[t] = "stamp" => t = "ptp"
  /\ event \in BOOLEAN

TxRing ==
  /\ txRing \in Seq(Tx!Packet)
  /\ Len(txRing) \in 0 .. TxDescriptors
  /\ gone \in 0 .. Len(txRing)
  /\ txSem \in BOOLEAN

TxPackets ==
  /\ config \in Tx!Packet \cup {Tx!NoPacket}
  /\ stamp \in Tx!Packet \cup {Tx!NoPacket}
  /\ hist \in Tx!History

\* A thread that is about to transmit, or waits for a descriptor, has filled TxConfig.
ConfigFilled == config = Tx!NoPacket => \A t \in {"tcpip", "ptp"} : pc[t] \in {"idle", "stamp"}

TxInv == TxPcs /\ TxRing /\ TxPackets /\ ConfigFilled

\* NoPacket is no packet of a thread.
LEMMA NoPacketIsNone == Tx!NoPacket \notin Tx!Packet
  BY DEF Tx!NoPacket, Tx!Packet

\* The invariant gives the types as the module states them.
LEMMA TxInvTypes == TxInv => Tx!TypeOK
  <1> SUFFICES ASSUME TxInv PROVE Tx!TypeOK
    OBVIOUS
  <1>1. txRing \in [1 .. Len(txRing) -> Tx!Packet] /\ Len(txRing) \in 0 .. TxDescriptors
    BY LenProperties DEF TxInv, TxRing
  <1>2. txRing \in UNION {[1 .. n -> Tx!Packet] : n \in 0 .. TxDescriptors}
    BY <1>1
  <1> QED
    BY <1>2 DEF TxInv, TxPcs, TxRing, TxPackets, Tx!TypeOK

\* A packet that becomes an old one is still a packet, and the ring keeps its length.
LEMMA AgedPackets ==
  ASSUME NEW t \in {"tcpip", "ptp"}, NEW q \in Seq(Tx!Packet)
  PROVE  /\ \A p \in Tx!Packet \cup {Tx!NoPacket} : Tx!Aged(p, t) \in Tx!Packet \cup {Tx!NoPacket}
         /\ [n \in DOMAIN q |-> Tx!Aged(q[n], t)] \in Seq(Tx!Packet)
         /\ Len([n \in DOMAIN q |-> Tx!Aged(q[n], t)]) = Len(q)
  <1>1. \A p \in Tx!Packet : Tx!Aged(p, t) \in Tx!Packet
    BY DEF Tx!Packet, Tx!Aged
  <1>2. Tx!Aged(Tx!NoPacket, t) = Tx!NoPacket
    BY DEF Tx!NoPacket, Tx!Aged
  <1>3. Len(q) \in Nat /\ DOMAIN q = 1 .. Len(q) /\ \A n \in 1 .. Len(q) : q[n] \in Tx!Packet
    BY LenProperties, ElementOfSeq
  <1>4. [n \in DOMAIN q |-> Tx!Aged(q[n], t)] \in [1 .. Len(q) -> Tx!Packet]
    BY <1>1, <1>3
  <1> DEFINE r == [n \in DOMAIN q |-> Tx!Aged(q[n], t)]
  <1>5. r \in Seq(Tx!Packet) /\ Len(r) = Len(q)
    <2> HIDE DEF r
    <2>1. r \in [1 .. Len(q) -> Tx!Packet]
      BY <1>4 DEF r
    <2> QED
      BY <2>1, <1>3
  <1> QED
    BY <1>1, <1>2, <1>5

\* A call makes the thread's packets old ones, and fills TxConfig unless it is rejected.
LEMMA TxCallStep ==
  ASSUME TxInv, NEW t \in {"tcpip", "ptp"}, Tx!Call(t) \/ Tx!CallRejected(t)
  PROVE  TxInv'
  <1>0. Tx!Called(t)
    BY DEF Tx!Call, Tx!CallRejected
  <1>1. TxPcs'
    BY DEF TxInv, TxPcs, Tx!Call, Tx!CallRejected
  <1>2. TxRing'
    <2>1. txRing' = [n \in DOMAIN txRing |-> Tx!Aged(txRing[n], t)] /\ UNCHANGED <<gone, txSem>>
      BY <1>0 DEF Tx!Called
    <2>2. txRing' \in Seq(Tx!Packet) /\ Len(txRing') = Len(txRing)
      BY <2>1, AgedPackets, Zenon DEF TxInv, TxRing
    <2> QED
      BY <2>1, <2>2 DEF TxInv, TxRing
  <1>3. TxPackets'
    <2>1. config' \in Tx!Packet \cup {Tx!NoPacket}
      <3>1. CASE Tx!Call(t)
        BY <3>1 DEF Tx!Call, Tx!Packet
      <3>2. CASE Tx!CallRejected(t)
        BY <3>2 DEF Tx!CallRejected, TxInv, TxPackets
      <3> QED
        BY <3>1, <3>2
    <2>2. stamp' = Tx!Aged(stamp, t)
      BY <1>0 DEF Tx!Called
    <2>3. stamp' \in Tx!Packet \cup {Tx!NoPacket}
      BY <2>2, AgedPackets DEF TxInv, TxRing, TxPackets
    <2>4. hist' \in Tx!History
      BY <1>0 DEF TxInv, TxPackets, Tx!Called, Tx!History
    <2> QED
      BY <2>1, <2>3, <2>4 DEF TxPackets
  <1>4. ConfigFilled'
    <2>1. CASE Tx!Call(t)
      <3>1. config' # Tx!NoPacket
        BY <2>1 DEF Tx!Call, Tx!NoPacket
      <3> QED
        BY <3>1 DEF ConfigFilled
    <2>2. CASE Tx!CallRejected(t)
      BY <2>2 DEF TxInv, ConfigFilled, Tx!CallRejected
    <2> QED
      BY <2>1, <2>2
  <1> QED
    BY <1>1, <1>2, <1>3, <1>4 DEF TxInv

\* A packet is queued while a descriptor is left, or the thread waits or gives up.
LEMMA TxTransmitStep ==
  ASSUME TxInv, NEW t \in {"tcpip", "ptp"}, Tx!Transmit(t) \/ Tx!TransmitBusy(t) \/ Tx!TransmitFails(t)
  PROVE  TxInv'
  <1>1. CASE Tx!Transmit(t)
    <2>1. TxPcs'
      BY <1>1 DEF TxInv, TxPcs, Tx!Transmit, Tx!Sent
    <2>2. config \in Tx!Packet
      BY <1>1 DEF TxInv, TxPackets, ConfigFilled, Tx!Transmit
    <2>3. /\ txRing' = Append(txRing, config) /\ Len(txRing) < TxDescriptors
          /\ UNCHANGED <<event, config, gone, txSem, stamp>>
      BY <1>1 DEF Tx!Transmit
    <2>4. txRing' \in Seq(Tx!Packet) /\ Len(txRing') = Len(txRing) + 1
      BY <2>2, <2>3, AppendProperties DEF TxInv, TxRing
    <2>5. TxRing'
      BY <2>3, <2>4, TxAssumption DEF TxInv, TxRing, Tx!ThreadsAssumption
    <2>6. hist' \in Tx!History
      BY <1>1 DEF TxInv, TxPackets, Tx!Transmit, Tx!History
    <2>7. TxPackets' /\ ConfigFilled'
      BY <2>2, <2>3, <2>6, NoPacketIsNone DEF TxInv, TxPackets, ConfigFilled
    <2> QED
      BY <2>1, <2>5, <2>7 DEF TxInv
  <1>2. CASE Tx!TransmitBusy(t)
    BY <1>2 DEF TxInv, TxPcs, TxRing, TxPackets, ConfigFilled, Tx!TransmitBusy
  <1>3. CASE Tx!TransmitFails(t)
    BY <1>3 DEF TxInv, TxPcs, TxRing, TxPackets, ConfigFilled, Tx!TransmitFails
  <1> QED
    BY <1>1, <1>2, <1>3

\* HAL_ETH_ReleaseTxPacket leaves the packets that have not gone.
LEMMA ReleaseRing ==
  ASSUME TxInv, Tx!ReleaseTxPacket
  PROVE  /\ txRing' \in Seq(Tx!Packet) /\ Len(txRing') = Len(txRing) - gone /\ gone' = 0
         /\ stamp' \in Tx!Packet \cup {Tx!NoPacket}
  <1>1. /\ Len(txRing) \in Nat /\ gone \in 0 .. Len(txRing)
        /\ \A n \in 1 .. Len(txRing) : txRing[n] \in Tx!Packet
    BY LenProperties, ElementOfSeq DEF TxInv, TxRing
  <1>2. \A n \in (gone + 1) .. Len(txRing) : txRing[n] \in Tx!Packet
    BY <1>1
  <1>3. /\ SubSeq(txRing, gone + 1, Len(txRing)) \in Seq(Tx!Packet)
        /\ Len(SubSeq(txRing, gone + 1, Len(txRing))) = Len(txRing) - gone
    BY <1>1, <1>2, SubSeqProperties
  <1>4. stamp' \in Tx!Packet \cup {Tx!NoPacket}
    BY <1>1 DEF TxInv, TxPackets, Tx!ReleaseTxPacket
  <1> QED
    BY <1>3, <1>4 DEF Tx!ReleaseTxPacket

\* The wait for a descriptor or for the time stamp ends.
LEMMA TxWaitStep ==
  ASSUME TxInv, NEW t \in {"tcpip", "ptp"}, Tx!BusyEnds(t) \/ (t = "ptp" /\ Tx!GetTxTimestamp)
  PROVE  TxInv'
  <1>1. Tx!ReleaseTxPacket /\ UNCHANGED <<event, config>> /\ txSem' = FALSE
    BY DEF Tx!BusyEnds, Tx!GetTxTimestamp
  <1>2. TxRing' /\ stamp' \in Tx!Packet \cup {Tx!NoPacket}
    <2>1. /\ txRing' \in Seq(Tx!Packet) /\ Len(txRing') = Len(txRing) - gone /\ gone' = 0
          /\ stamp' \in Tx!Packet \cup {Tx!NoPacket}
      BY <1>1, ReleaseRing
    <2>2. Len(txRing') \in 0 .. TxDescriptors
      BY <2>1, TxAssumption DEF TxInv, TxRing, Tx!ThreadsAssumption
    <2>3. gone' \in 0 .. Len(txRing')
      BY <2>1, <2>2, TxAssumption DEF Tx!ThreadsAssumption
    <2> QED
      BY <1>1, <2>1, <2>2, <2>3 DEF TxRing
  <1>3. CASE Tx!BusyEnds(t)
    <2>1. TxPcs' /\ ConfigFilled' /\ UNCHANGED hist
      BY <1>3 DEF TxInv, TxPcs, ConfigFilled, Tx!BusyEnds
    <2> QED
      BY <1>1, <1>2, <2>1 DEF TxInv, TxPackets
  <1>4. CASE t = "ptp" /\ Tx!GetTxTimestamp
    <2>1. TxPcs' /\ ConfigFilled'
      BY <1>4 DEF TxInv, TxPcs, ConfigFilled, Tx!GetTxTimestamp
    <2>2. hist' \in Tx!History
      BY <1>2, <1>4 DEF TxInv, TxPackets, Tx!GetTxTimestamp, Tx!History
    <2> QED
      BY <1>1, <1>2, <2>1, <2>2 DEF TxInv, TxPackets
  <1> QED
    BY <1>3, <1>4

\* The invariant is inductive.
LEMMA TxStep == ASSUME TxInv, [Tx!Next]_txVars PROVE TxInv'
  <1>1. CASE UNCHANGED txVars
    BY <1>1 DEF txVars, TxInv, TxPcs, TxRing, TxPackets, ConfigFilled
  <1>2. CASE Tx!Complete
    BY <1>2, LenProperties DEF TxInv, TxPcs, TxRing, TxPackets, ConfigFilled, Tx!Complete
  <1>3. CASE Tx!Next /\ ~Tx!Complete
    BY <1>3, TxCallStep, TxTransmitStep, TxWaitStep DEF Tx!Next, Tx!Step
  <1> QED
    BY <1>1, <1>2, <1>3

\* Nothing is queued at the start.
LEMMA TxInit == Tx!Init => TxInv
  <1> SUFFICES ASSUME Tx!Init PROVE TxInv
    OBVIOUS
  <1>1. txRing \in Seq(Tx!Packet) /\ Len(txRing) = 0
    BY EmptySeq DEF Tx!Init
  <1>2. TxRing
    <2>1. Len(txRing) \in 0 .. TxDescriptors
      BY <1>1, TxAssumption DEF Tx!ThreadsAssumption
    <2>2. gone \in 0 .. Len(txRing)
      BY <1>1 DEF Tx!Init
    <2> QED
      BY <1>1, <2>1, <2>2 DEF Tx!Init, TxRing
  <1>3. TxPackets
    BY DEF Tx!Init, TxPackets, Tx!History
  <1>4. TxPcs /\ ConfigFilled
    BY DEF Tx!Init, TxPcs, ConfigFilled
  <1> QED
    BY <1>2, <1>3, <1>4 DEF TxInv

\* low_level_output never queues more packets than there are descriptors nor one that no
\* thread has filled in, whichever thread's wait takes the token of TxPktSemaphore, and
\* HAL_ETH_ReleaseTxPacket frees no more of them than have left.
THEOREM DescriptorsBounded == EthernetSpec => []Tx!TypeOK
  <1>1. EthernetInit => TxInv
    BY TxInit DEF EthernetInit
  <1>2. TxInv /\ [EthernetNext]_<<part, vars, queueVars, txVars>> => TxInv'
    <2> SUFFICES ASSUME TxInv, [EthernetNext]_<<part, vars, queueVars, txVars>> PROVE TxInv'
      OBVIOUS
    <2>1. [Tx!Next]_txVars
      BY DEF EthernetNext
    <2> QED
      BY <2>1, TxStep
  <1> QED
    BY <1>1, <1>2, TxInvTypes, PTL DEF EthernetSpec

-----------------------------------------------------------------------------
(* Transmission by one thread.                                             *)

\* The transmission of the PTP thread when the tcpip thread sends nothing.
Alone == INSTANCE EthTx WITH Threads <- {"ptp"}, Descriptors <- TxDescriptors, ring <- txRing, sem <- txSem

\* TxConfig names the packet of the call until it is queued.
AloneInv ==
  /\ pc \in [{"ptp"} -> {"idle", "transmit", "busy", "stamp"}]
  /\ pc["ptp"] \in {"transmit", "busy"} => config = [from |-> "ptp", now |-> TRUE]
  /\ \E r : hist = [wrong |-> FALSE, returned |-> r]

\* With one thread TxConfig and the HAL handle are not shared, and every call of
\* low_level_output sends the packet it was called with, also when it had to wait for a
\* descriptor: it is only the other thread that can make it send another one.
THEOREM AloneSendsItsPacket == Alone!Spec => []Alone!SendsItsPacket
  <1>1. Alone!Init => AloneInv
    BY DEF Alone!Init, AloneInv
  <1>2. AloneInv /\ [Alone!Next]_(Alone!vars) => AloneInv'
    <2> SUFFICES ASSUME AloneInv, [Alone!Next]_(Alone!vars) PROVE AloneInv'
      OBVIOUS
    <2>0. PICK r : hist = [wrong |-> FALSE, returned |-> r]
      BY DEF AloneInv
    <2>1. ASSUME NEW x, hist' = [hist EXCEPT !.returned = x]
          PROVE  \E y : hist' = [wrong |-> FALSE, returned |-> y]
      <3>1. hist' = [wrong |-> FALSE, returned |-> x]
        BY <2>0, <2>1
      <3> QED
        BY <3>1
    <2>2. CASE Alone!Call("ptp") \/ Alone!CallRejected("ptp")
      <3>1. \E y : hist' = [wrong |-> FALSE, returned |-> y]
        BY <2>1, <2>2, Zenon DEF Alone!Call, Alone!CallRejected, Alone!Called
      <3> QED
        BY <2>2, <3>1 DEF Alone!Call, Alone!CallRejected, AloneInv
    <2>3. CASE Alone!Transmit("ptp")
      <3>1. config = [from |-> "ptp", now |-> TRUE] /\ hist.wrong = FALSE
        BY <2>0, <2>3 DEF Alone!Transmit, AloneInv
      <3>2. hist' = [wrong |-> FALSE, returned |-> r]
        BY <2>0, <2>3, <3>1 DEF Alone!Transmit
      <3> QED
        BY <2>3, <3>1, <3>2 DEF Alone!Transmit, Alone!Sent, AloneInv
    <2>4. CASE Alone!TransmitBusy("ptp") \/ Alone!TransmitFails("ptp") \/ Alone!BusyEnds("ptp")
      BY <2>4 DEF Alone!TransmitBusy, Alone!TransmitFails, Alone!BusyEnds, AloneInv
    <2>5. CASE Alone!GetTxTimestamp
      <3>1. \E y : hist' = [wrong |-> FALSE, returned |-> y]
        BY <2>1, <2>5, Zenon DEF Alone!GetTxTimestamp
      <3> QED
        BY <2>5, <3>1 DEF Alone!GetTxTimestamp, AloneInv
    <2>6. CASE Alone!Complete \/ UNCHANGED Alone!vars
      BY <2>6 DEF Alone!Complete, Alone!vars, AloneInv
    <2> QED
      BY <2>2, <2>3, <2>4, <2>5, <2>6 DEF Alone!Next, Alone!Step
  <1>3. AloneInv => Alone!SendsItsPacket
    BY DEF AloneInv, Alone!SendsItsPacket
  <1> QED
    BY <1>1, <1>2, <1>3, PTL DEF Alone!Spec
=============================================================================
