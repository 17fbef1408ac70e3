--------------------------- MODULE NetQueueProofs ---------------------------
(***************************************************************************)
(* TLAPS proofs of the safety properties of NetQueue, for every ring size, *)
(* mailbox size and set of packet buffers.                                 *)
(***************************************************************************)
EXTENDS NetQueue, SequenceTheorems, TLAPS

-----------------------------------------------------------------------------
(* The index arithmetic of the ring.                                       *)

\* Advance stays within the ring.
LEMMA AdvanceInRing ==
  ASSUME NEW i \in Slots
  PROVE  Advance(i) \in Slots
BY SizeAssumption DEF Slots, Advance

\* netQPut adds exactly one live slot, which was not live before.
LEMMA PutExtends ==
  ASSUME NEW t \in Slots, NEW h \in Slots, Advance(h) # t
  PROVE  /\ Between(t, Advance(h)) = Between(t, h) \cup {Advance(h)}
         /\ Advance(h) \notin Between(t, h)
BY SizeAssumption DEF Slots, Advance, Between

\* netQGet removes exactly one live slot.
LEMMA GetShrinks ==
  ASSUME NEW t \in Slots, NEW h \in Slots, t # h
  PROVE  /\ Advance(t) \in Between(t, h)
         /\ Between(Advance(t), h) = Between(t, h) \ {Advance(t)}
BY SizeAssumption DEF Slots, Advance, Between

\* netQEmpty leaves no live slot, and live slots are slots of the ring.
LEMMA BetweenBounds ==
  ASSUME NEW t \in Slots, NEW h \in Slots
  PROVE  Between(t, h) \subseteq Slots /\ Between(h, h) = {}
BY SizeAssumption DEF Slots, Between

-----------------------------------------------------------------------------
(* Type correctness.                                                       *)

LEMMA TypeInit == Init => TypeOK
BY SizeAssumption, MboxAssumption DEF Init, TypeOK, Slots, Holders, TcpipPcs, PtpPcs, Queues

LEMMA TypeStep == TypeOK /\ LiveOwned /\ [Next]_vars => TypeOK'
<1> SUFFICES ASSUME TypeOK, LiveOwned, [Next]_vars PROVE TypeOK'
    OBVIOUS
<1> USE DEF TypeOK
<1>1. ASSUME NEW q \in Queues, NEW p \in Pbufs, RecvCallback(q, p) PROVE TypeOK'
  BY <1>1, AdvanceInRing DEF RecvCallback, NetQPut, Holders, TcpipPcs
<1>2. ASSUME NEW q \in Queues, NEW p \in Pbufs, RecvCallbackFull(q, p) PROVE TypeOK'
  BY <1>2 DEF RecvCallbackFull, Holders, TcpipPcs
<1>3. ASSUME NEW p \in Pbufs, CallbackFree(p) PROVE TypeOK'
  BY <1>3 DEF CallbackFree, Holders, TcpipPcs
<1>4. CASE CallbackAlert
  BY <1>4, MboxAssumption DEF CallbackAlert, PtpdAlert, TcpipPcs
<1>5. CASE TimerAlert
  BY <1>5, MboxAssumption DEF TimerAlert, PtpdAlert
<1>6. ASSUME NEW q \in Queues, NetQGet(q)
      PROVE  /\ tail' \in [Queues -> Slots] /\ cur' \in Pbufs
             /\ owner' \in [Pbufs -> Holders] /\ UNCHANGED <<head, ring>>
  <2>1. Advance(tail[q]) \in Slots /\ Advance(tail[q]) \in Live(q)
    BY <1>6, AdvanceInRing, GetShrinks DEF NetQGet, IsEmpty, Live
  <2> QED BY <1>6, <2>1 DEF NetQGet, LiveOwned, Holders
<1>7. CASE NetRecvEvent
  BY <1>7, <1>6 DEF NetRecvEvent, PtpPcs, Queues
<1>8. CASE NetRecvGeneral
  BY <1>8, <1>6 DEF NetRecvGeneral, PtpPcs, Queues
<1>9. CASE DoStateWithoutRecv \/ NoEvent \/ NoGeneral \/ SelectEvent \/ SelectGeneral
  BY <1>9 DEF DoStateWithoutRecv, NoEvent, NoGeneral, SelectEvent, SelectGeneral, PtpPcs
<1>10. CASE NetRecvCopy \/ NetRecvReject \/ HandlerDone
  BY <1>10 DEF NetRecvCopy, NetRecvReject, HandlerDone, PbufFree, PtpPcs, Holders
<1>11. CASE NetEmptyEventQ
  BY <1>11 DEF NetEmptyEventQ, Holders, Queues
<1>12. CASE FetchAlert \/ FetchTimeout
  BY <1>12, MboxAssumption DEF FetchAlert, FetchTimeout, PtpPcs
<1>13. CASE UNCHANGED vars
  BY <1>13 DEF vars
<1> QED
  BY <1>1, <1>2, <1>3, <1>4, <1>5, <1>7, <1>8, <1>9, <1>10, <1>11, <1>12, <1>13 DEF Next, Tcpip, Ptp

-----------------------------------------------------------------------------
(* Ownership of the packet buffers.  QueueOwnership and NoLeak are         *)
(* inductive together, relative to TypeOK.                                 *)

Ownership == TypeOK /\ QueueOwnership /\ NoLeak

LEMMA OwnershipInit == Init => Ownership
<1> SUFFICES ASSUME Init PROVE Ownership
    OBVIOUS
<1>1. TypeOK
  BY TypeInit
<1>2. \A q \in Queues : Live(q) = {}
  BY SizeAssumption DEF Init, Live, Between
<1>3. QueueOwnership
  BY <1>2 DEF Init, QueueOwnership, LiveOwned, LiveDistinct, OwnedLive, Queues
<1>4. NoLeak
  BY DEF Init, NoLeak
<1> QED BY <1>1, <1>3, <1>4 DEF Ownership

\* A step that touches neither the rings nor what the queues own.
LEMMA QueuesUntouched ==
  ASSUME Ownership, UNCHANGED <<head, tail, ring>>, owner' \in [Pbufs -> Holders],
         \A p \in Pbufs : \A q \in Queues : owner'[p] = q <=> owner[p] = q
  PROVE  QueueOwnership'
<1>1. \A q \in Queues : Live(q)' = Live(q)
  BY DEF Live
<1>2. LiveOwned'
  BY <1>1 DEF Ownership, QueueOwnership, LiveOwned
<1>3. LiveDistinct'
  BY <1>1 DEF Ownership, QueueOwnership, LiveDistinct
<1>4. OwnedLive'
  BY <1>1 DEF Ownership, QueueOwnership, OwnedLive
<1> QED BY <1>2, <1>3, <1>4 DEF QueueOwnership

LEMMA PutKeepsOwnership ==
  ASSUME Ownership, NEW q \in Queues, NEW p \in Pbufs, RecvCallback(q, p)
  PROVE  QueueOwnership' /\ NoLeak'
<1> DEFINE slot == Advance(head[q])
<1> USE DEF Ownership, QueueOwnership
<1>0. slot \in Slots /\ head[q] \in Slots /\ tail[q] \in Slots
  BY AdvanceInRing DEF TypeOK
<1>1. Live(q)' = Live(q) \cup {slot} /\ slot \notin Live(q)
  BY <1>0, PutExtends DEF RecvCallback, NetQPut, IsFull, Live, TypeOK
<1>2. \A r \in Queues : r # q => Live(r)' = Live(r) /\ ring'[r] = ring[r]
  BY DEF RecvCallback, NetQPut, Live, TypeOK
<1>3. ring'[q][slot] = p /\ \A s \in Live(q) : ring'[q][s] = ring[q][s]
  <2>1. \A s \in Live(q) : s \in Slots /\ s # slot
    BY <1>0, <1>1, BetweenBounds DEF Live
  <2> QED BY <1>0, <2>1 DEF RecvCallback, NetQPut, TypeOK
<1>4. owner'[p] = q /\ \A b \in Pbufs : b # p => owner'[b] = owner[b]
  BY DEF RecvCallback, TypeOK
<1>5. \A r \in Queues : \A s \in Live(r) : ring[r][s] # p
  BY DEF LiveOwned, RecvCallback, Queues
<1>6. LiveOwned'
  BY <1>1, <1>2, <1>3, <1>4, <1>5 DEF LiveOwned
<1>7. LiveDistinct'
  BY <1>1, <1>2, <1>3, <1>5 DEF LiveDistinct
<1>8. OwnedLive'
  BY <1>1, <1>2, <1>3, <1>4 DEF OwnedLive
<1>9. NoLeak'
  BY <1>4 DEF NoLeak, RecvCallback, Queues
<1> QED BY <1>6, <1>7, <1>8, <1>9

LEMMA GetKeepsOwnership ==
  ASSUME Ownership, NEW q \in Queues, NetQGet(q), UNCHANGED tpc,
         ppc \notin {"recvEvent", "recvGeneral"}, ppc' \in {"recvEvent", "recvGeneral"}
  PROVE  QueueOwnership' /\ NoLeak'
<1> DEFINE slot == Advance(tail[q])
<1> USE DEF Ownership, QueueOwnership
<1>0. slot \in Slots /\ head[q] \in Slots /\ tail[q] \in Slots
  BY AdvanceInRing DEF TypeOK
<1>1. slot \in Live(q) /\ Live(q)' = Live(q) \ {slot}
  BY <1>0, GetShrinks DEF NetQGet, IsEmpty, Live, TypeOK
<1>2. \A r \in Queues : r # q => Live(r)' = Live(r)
  BY DEF NetQGet, Live, TypeOK
<1>3. ring' = ring /\ cur' = ring[q][slot] /\ cur' \in Pbufs /\ owner[cur'] = q
  BY <1>1 DEF NetQGet, LiveOwned
<1>4. owner'[cur'] = "ptp" /\ \A b \in Pbufs : b # cur' => owner'[b] = owner[b]
  BY <1>3 DEF NetQGet, TypeOK
<1>5. \A r \in Queues : \A s \in Live(r)' : s \in Live(r) /\ ring[r][s] # cur'
  BY <1>1, <1>2, <1>3 DEF LiveOwned, LiveDistinct
<1>6. LiveOwned'
  BY <1>3, <1>4, <1>5 DEF LiveOwned
<1>7. LiveDistinct'
  BY <1>3, <1>5 DEF LiveDistinct
<1>8. OwnedLive'
  BY <1>1, <1>2, <1>3, <1>4 DEF OwnedLive, Queues
<1>9. NoLeak'
  BY <1>3, <1>4 DEF NoLeak, Queues
<1> QED BY <1>6, <1>7, <1>8, <1>9

LEMMA FlushKeepsOwnership ==
  ASSUME Ownership, NetEmptyEventQ
  PROVE  QueueOwnership' /\ NoLeak'
<1> USE DEF Ownership, QueueOwnership
<1>1. Live("event")' = {} /\ Live("general")' = Live("general")
  BY BetweenBounds DEF NetEmptyEventQ, Live, TypeOK, Queues
<1>2. ring' = ring
  BY DEF NetEmptyEventQ
<1>3. \A p \in Pbufs : owner'[p] = IF owner[p] = "event" THEN "pool" ELSE owner[p]
  BY DEF NetEmptyEventQ, TypeOK, LiveOwned, OwnedLive, Queues
<1>4. LiveOwned'
  BY <1>1, <1>2, <1>3 DEF LiveOwned, Queues
<1>5. LiveDistinct'
  BY <1>1, <1>2 DEF LiveDistinct, Queues
<1>6. OwnedLive'
  BY <1>1, <1>2, <1>3 DEF OwnedLive, Queues
<1>7. NoLeak'
  BY <1>3 DEF NoLeak, NetEmptyEventQ
<1> QED BY <1>4, <1>5, <1>6, <1>7

LEMMA OwnershipStep == Ownership /\ [Next]_vars => Ownership'
<1> SUFFICES ASSUME Ownership, [Next]_vars PROVE Ownership'
    OBVIOUS
<1>0. TypeOK'
  BY TypeStep DEF Ownership, QueueOwnership
<1> SUFFICES QueueOwnership' /\ NoLeak'
    BY <1>0 DEF Ownership
<1>1. ASSUME NEW q \in Queues, NEW p \in Pbufs, RecvCallback(q, p)
      PROVE  QueueOwnership' /\ NoLeak'
  BY <1>1, PutKeepsOwnership
<1>2. ASSUME NEW q \in Queues, NEW p \in Pbufs, RecvCallbackFull(q, p)
      PROVE  QueueOwnership' /\ NoLeak'
  <2>1. \A b \in Pbufs : owner'[b] = IF b = p THEN "tcpip" ELSE owner[b]
    BY <1>2 DEF RecvCallbackFull, Ownership, TypeOK
  <2>2. QueueOwnership'
    BY <1>2, <2>1, <1>0, QueuesUntouched DEF RecvCallbackFull, TypeOK, Queues
  <2>3. NoLeak'
    BY <1>2, <2>1 DEF RecvCallbackFull, Ownership, NoLeak
  <2> QED BY <2>2, <2>3
<1>3. ASSUME NEW p \in Pbufs, CallbackFree(p)
      PROVE  QueueOwnership' /\ NoLeak'
  <2>1. \A b \in Pbufs : owner'[b] = IF b = p THEN "pool" ELSE owner[b]
    BY <1>3 DEF CallbackFree, Ownership, TypeOK
  <2>2. QueueOwnership'
    BY <1>3, <2>1, <1>0, QueuesUntouched DEF CallbackFree, TypeOK, Queues
  <2>3. NoLeak'
    BY <1>3, <2>1 DEF CallbackFree, Ownership, NoLeak
  <2> QED BY <2>2, <2>3
<1>4. CASE NetRecvEvent
  BY <1>4, GetKeepsOwnership DEF NetRecvEvent, Queues
<1>5. CASE NetRecvGeneral
  BY <1>5, GetKeepsOwnership DEF NetRecvGeneral, Queues
<1>6. CASE NetRecvCopy \/ NetRecvReject
  <2>1. owner[cur] = "ptp" \/ cur \notin Pbufs
    BY <1>6 DEF NetRecvCopy, NetRecvReject, Ownership, NoLeak
  <2>2. \A b \in Pbufs : owner'[b] = IF b = cur THEN "pool" ELSE owner[b]
    BY <1>6 DEF NetRecvCopy, NetRecvReject, PbufFree, Ownership, TypeOK
  <2>3. QueueOwnership'
    BY <1>6, <2>1, <2>2, <1>0, QueuesUntouched DEF NetRecvCopy, NetRecvReject, TypeOK, Queues
  <2>4. NoLeak'
    BY <1>6, <2>2 DEF NetRecvCopy, NetRecvReject, Ownership, NoLeak
  <2> QED BY <2>3, <2>4
<1>7. CASE NetEmptyEventQ
  BY <1>7, FlushKeepsOwnership
<1>8. CASE CallbackAlert \/ TimerAlert \/ DoStateWithoutRecv \/ NoEvent \/ NoGeneral \/ HandlerDone
           \/ SelectEvent \/ SelectGeneral \/ FetchAlert \/ FetchTimeout \/ UNCHANGED vars
  <2> USE <1>8 DEF CallbackAlert, TimerAlert, DoStateWithoutRecv, NoEvent, NoGeneral, HandlerDone,
                   SelectEvent, SelectGeneral, FetchAlert, FetchTimeout, vars
  <2>1. QueueOwnership'
    BY <1>0, QueuesUntouched DEF TypeOK
  <2>2. NoLeak'
    BY DEF Ownership, NoLeak
  <2> QED BY <2>1, <2>2
<1> QED
  BY <1>1, <1>2, <1>3, <1>4, <1>5, <1>6, <1>7, <1>8 DEF Next, Tcpip, Ptp

\* TypeOK for every ring size, mailbox size and set of packet buffers: netQPut,
\* netQGet and netQEmpty never index outside the ring of dep/net.c.
THEOREM TypeCorrect == Spec => []TypeOK
<1>1. Ownership => TypeOK
  BY DEF Ownership
<1> QED BY <1>1, OwnershipInit, OwnershipStep, PTL DEF Spec

\* QueueOwnership: no packet that netQPut accepted is lost, duplicated or
\* overwritten, however the callbacks and the PTP thread interleave.
THEOREM QueuesOwnTheirPackets == Spec => []QueueOwnership
<1>1. Ownership => QueueOwnership
  BY DEF Ownership
<1> QED BY <1>1, OwnershipInit, OwnershipStep, PTL DEF Spec

\* NoLeak: every path of netRecv and of the receive callbacks frees the pbuf it
\* took, exactly once.
THEOREM NoPbufLeaks == Spec => []NoLeak
<1>1. Ownership => NoLeak
  BY DEF Ownership
<1> QED BY <1>1, OwnershipInit, OwnershipStep, PTL DEF Spec

-----------------------------------------------------------------------------
(* The alerts.  A packet may arrive on the event queue after netSelect has *)
(* found it empty and before it looks at the general queue: NoLostWakeup   *)
(* is inductive once it speaks of that moment too.                         *)

Wakeup ==
  /\ TypeOK
  /\ NoLostWakeup
  /\ ppc = "selectGeneral" /\ ~IsEmpty("event") => Alerted

LEMMA WakeupStep == Wakeup /\ TypeOK' /\ [Next]_vars => Wakeup'
<1> SUFFICES ASSUME Wakeup, TypeOK', [Next]_vars PROVE Wakeup'
    OBVIOUS
<1> USE DEF Wakeup, NoLostWakeup, Alerted
<1>1. ASSUME NEW q \in Queues, NEW p \in Pbufs, RecvCallback(q, p) PROVE Wakeup'
  BY <1>1 DEF RecvCallback
<1>2. ASSUME NEW q \in Queues, NEW p \in Pbufs, RecvCallbackFull(q, p) PROVE Wakeup'
  BY <1>2 DEF RecvCallbackFull, IsEmpty
<1>3. ASSUME NEW p \in Pbufs, CallbackFree(p) PROVE Wakeup'
  BY <1>3 DEF CallbackFree, IsEmpty
<1>4. CASE CallbackAlert \/ TimerAlert
  <2>1. alerts' > 0
    BY <1>4, MboxAssumption DEF CallbackAlert, TimerAlert, PtpdAlert, TypeOK
  <2> QED BY <2>1
<1>5. CASE NetRecvEvent \/ NetRecvGeneral \/ DoStateWithoutRecv \/ NoEvent \/ NoGeneral \/ NetRecvCopy
           \/ NetRecvReject \/ HandlerDone \/ NetEmptyEventQ \/ FetchAlert \/ FetchTimeout
  BY <1>5 DEF NetRecvEvent, NetRecvGeneral, DoStateWithoutRecv, NoEvent, NoGeneral, NetRecvCopy,
              NetRecvReject, HandlerDone, NetEmptyEventQ, FetchAlert, FetchTimeout
<1>6. CASE SelectEvent
  BY <1>6 DEF SelectEvent, IsEmpty
<1>7. CASE SelectGeneral
  BY <1>7 DEF SelectGeneral, IsEmpty, Queues
<1>8. CASE UNCHANGED vars
  BY <1>8 DEF vars, IsEmpty
<1> QED
  BY <1>1, <1>2, <1>3, <1>4, <1>5, <1>6, <1>7, <1>8 DEF Next, Tcpip, Ptp

\* NoLostWakeup: with a mailbox of any size, full or not, the PTP thread never
\* waits on a queued packet that no alert announces.
THEOREM NoWakeupIsLost == Spec => []NoLostWakeup
<1>1. Init => Wakeup
  BY TypeInit DEF Init, Wakeup, NoLostWakeup
<1>2. Wakeup => NoLostWakeup
  BY DEF Wakeup
<1> QED BY <1>1, <1>2, WakeupStep, TypeCorrect, PTL DEF Spec

-----------------------------------------------------------------------------
(* The rings implement the queues of PbufFifo.  A ring is described by its *)
(* tail t, head h and slots r; netQPut and netQGet move one end.           *)

Packets == Pbufs \cup {NoBuf}

PlaceOf(t, j) == IF t + j < Size THEN t + j ELSE t + j - Size

Length(t, h) == IF t <= h THEN h - t ELSE h - t + Size

ContentsOf(t, h, r) == [j \in 1 .. Length(t, h) |-> r[PlaceOf(t, j)]]

\* The places after tail are the live slots.
LEMMA PlacesLive ==
  ASSUME NEW t \in Slots, NEW h \in Slots
  PROVE  /\ Length(t, h) \in 0 .. Size - 1
         /\ \A j \in 1 .. Length(t, h) : PlaceOf(t, j) \in Between(t, h) /\ PlaceOf(t, j) \in Slots
         /\ Length(t, h) = 0 <=> t = h
         /\ Length(t, h) = Size - 1 <=> Advance(h) = t
BY SizeAssumption DEF Slots, Length, PlaceOf, Between, Advance

LEMMA ContentsSeq ==
  ASSUME NEW t \in Slots, NEW h \in Slots, NEW r \in [Slots -> Packets]
  PROVE  /\ ContentsOf(t, h, r) \in Seq(Packets)
         /\ Len(ContentsOf(t, h, r)) = Length(t, h)
         /\ \A j \in 1 .. Length(t, h) : ContentsOf(t, h, r)[j] = r[PlaceOf(t, j)]
<1>1. Length(t, h) \in Nat /\ \A j \in 1 .. Length(t, h) : r[PlaceOf(t, j)] \in Packets
  BY PlacesLive, SizeAssumption
<1>2. ContentsOf(t, h, r) \in [1 .. Length(t, h) -> Packets]
  BY <1>1 DEF ContentsOf
<1>3. ContentsOf(t, h, r) \in Seq(Packets)
  BY <1>1, <1>2, SeqDef
<1>4. DOMAIN ContentsOf(t, h, r) = 1 .. Len(ContentsOf(t, h, r)) /\ Len(ContentsOf(t, h, r)) \in Nat
  BY <1>3, LenProperties
<1>5. Len(ContentsOf(t, h, r)) = Length(t, h)
  BY <1>1, <1>2, <1>4
<1> QED BY <1>2, <1>3, <1>5 DEF ContentsOf

\* netQPut appends.
LEMMA PutAppends ==
  ASSUME NEW t \in Slots, NEW h \in Slots, NEW r \in [Slots -> Packets], NEW p \in Packets, Advance(h) # t
  PROVE  ContentsOf(t, Advance(h), [r EXCEPT ![Advance(h)] = p]) = Append(ContentsOf(t, h, r), p)
<1> DEFINE g == Advance(h)
           s == [r EXCEPT ![g] = p]
           n == Length(t, h)
           old == ContentsOf(t, h, r)
           new == ContentsOf(t, g, s)
<1>1. g \in Slots /\ s \in [Slots -> Packets]
  BY AdvanceInRing
<1>2. n \in Nat /\ Length(t, g) = n + 1 /\ PlaceOf(t, n + 1) = g
  BY SizeAssumption DEF Slots, Length, PlaceOf, Advance
<1>3. \A j \in 1 .. n : PlaceOf(t, j) \in Slots /\ PlaceOf(t, j) # g
  BY PlacesLive, PutExtends
<1>4. old \in Seq(Packets) /\ Len(old) = n /\ \A j \in 1 .. n : old[j] = r[PlaceOf(t, j)]
  BY ContentsSeq
<1>5. new \in Seq(Packets) /\ Len(new) = n + 1 /\ \A j \in 1 .. n + 1 : new[j] = s[PlaceOf(t, j)]
  <2> HIDE DEF g, s, n
  <2>1. /\ ContentsOf(t, g, s) \in Seq(Packets)
        /\ Len(ContentsOf(t, g, s)) = Length(t, g)
        /\ \A j \in 1 .. Length(t, g) : ContentsOf(t, g, s)[j] = s[PlaceOf(t, j)]
    BY <1>1, ContentsSeq
  <2> QED BY <1>2, <2>1
<1> HIDE DEF old, new, n, g
<1>6. new[n + 1] = p /\ \A j \in 1 .. n : new[j] = old[j]
  BY <1>1, <1>2, <1>3, <1>4, <1>5
<1> HIDE DEF s
<1>7. /\ Append(old, p) \in Seq(Packets) /\ Len(Append(old, p)) = n + 1
      /\ \A j \in 1 .. n : Append(old, p)[j] = old[j]
      /\ Append(old, p)[n + 1] = p
  BY <1>4, AppendProperties
<1>8. \A j \in 1 .. Len(new) : new[j] = Append(old, p)[j]
  BY <1>2, <1>5, <1>6, <1>7
<1>9. new = Append(old, p)
  BY <1>5, <1>7, <1>8, SeqEqual
<1> QED BY <1>9 DEF new, old, g, s

\* netQGet takes the first packet.
LEMMA GetTakesHead ==
  ASSUME NEW t \in Slots, NEW h \in Slots, NEW r \in [Slots -> Packets], t # h
  PROVE  /\ ContentsOf(t, h, r) # <<>>
         /\ Head(ContentsOf(t, h, r)) = r[Advance(t)]
         /\ Tail(ContentsOf(t, h, r)) = ContentsOf(Advance(t), h, r)
<1> DEFINE g == Advance(t)
           n == Length(t, h)
           old == ContentsOf(t, h, r)
           new == ContentsOf(g, h, r)
<1>1. g \in Slots /\ PlaceOf(t, 1) = g
  BY AdvanceInRing, SizeAssumption DEF Slots, PlaceOf, Advance
<1>2. n \in Nat /\ n >= 1 /\ Length(g, h) = n - 1
  BY SizeAssumption DEF Slots, Length, Advance
<1>3. \A j \in 1 .. n - 1 : PlaceOf(g, j) = PlaceOf(t, j + 1)
  BY SizeAssumption DEF Slots, Length, PlaceOf, Advance
<1>4. old \in Seq(Packets) /\ Len(old) = n /\ \A j \in 1 .. n : old[j] = r[PlaceOf(t, j)]
  BY ContentsSeq
<1>5. new \in Seq(Packets) /\ Len(new) = n - 1 /\ \A j \in 1 .. n - 1 : new[j] = r[PlaceOf(g, j)]
  BY <1>1, <1>2, ContentsSeq
<1> HIDE DEF old, new, n, g
<1>6. old # <<>>
  BY <1>2, <1>4, EmptySeq
<1>7. Head(old) = r[g]
  BY <1>1, <1>2, <1>4
<1>8. Tail(old) \in Seq(Packets) /\ Len(Tail(old)) = n - 1 /\ \A j \in 1 .. n - 1 : Tail(old)[j] = old[j + 1]
  BY <1>4, <1>6, HeadTailProperties
<1>9. \A j \in 1 .. Len(new) : new[j] = Tail(old)[j]
  <2> TAKE j \in 1 .. Len(new)
  <2>1. j \in 1 .. n - 1 /\ j + 1 \in 1 .. n
    BY <1>2, <1>5
  <2> QED BY <2>1, <1>3, <1>4, <1>5, <1>8
<1>10. new = Tail(old)
  BY <1>5, <1>8, <1>9, SeqEqual
<1> QED BY <1>6, <1>7, <1>10 DEF new, old, g

LEMMA EmptyContents ==
  ASSUME NEW t \in Slots, NEW r \in [Slots -> Packets]
  PROVE  ContentsOf(t, t, r) = <<>>
<1>1. ContentsOf(t, t, r) \in Seq(Packets) /\ Len(ContentsOf(t, t, r)) = 0
  BY ContentsSeq, PlacesLive
<1> QED BY <1>1, EmptySeq

\* What the actions need of a state: Ownership, and that netRecv has a packet in
\* hand whenever it works on one.
Held == Ownership /\ (ppc \in {"recvEvent", "recvGeneral"} => cur \in Pbufs)

LEMMA HeldStep == Held /\ [Next]_vars => Held'
<1> SUFFICES ASSUME Held, [Next]_vars PROVE Held'
    OBVIOUS
<1>0. Ownership'
  BY OwnershipStep DEF Held
<1> SUFFICES ppc' \in {"recvEvent", "recvGeneral"} => cur' \in Pbufs
    BY <1>0 DEF Held
<1>1. ASSUME NEW q \in Queues, NetQGet(q) PROVE cur' \in Pbufs
  <2>1. Advance(tail[q]) \in Live(q)
    BY <1>1, GetShrinks DEF Held, Ownership, TypeOK, NetQGet, IsEmpty, Live
  <2> QED BY <1>1, <2>1 DEF Held, Ownership, QueueOwnership, LiveOwned, NetQGet
<1>2. CASE NetRecvEvent \/ NetRecvGeneral
  BY <1>1, <1>2 DEF NetRecvEvent, NetRecvGeneral, Queues
<1>3. CASE Tcpip \/ TimerAlert \/ UNCHANGED vars
  BY <1>3 DEF Held, Tcpip, RecvCallback, RecvCallbackFull, CallbackFree, CallbackAlert, TimerAlert, vars
<1>4. CASE Ptp /\ ~NetRecvEvent /\ ~NetRecvGeneral
  BY <1>4 DEF Held, Ptp, DoStateWithoutRecv, NoEvent, NoGeneral, NetRecvCopy, NetRecvReject, HandlerDone,
              NetEmptyEventQ, SelectEvent, SelectGeneral, FetchAlert, FetchTimeout
<1> QED BY <1>2, <1>3, <1>4 DEF Next

\* The queues of PbufFifo, as the rings represent them.
LEMMA ContentsAre ==
  ASSUME TypeOK
  PROVE  /\ \A q \in Queues : Contents(q) = ContentsOf(tail[q], head[q], ring[q])
         /\ \A q \in Queues : Contents(q)' = ContentsOf(tail'[q], head'[q], ring'[q])
         /\ \A q \in Queues : tail[q] \in Slots /\ head[q] \in Slots /\ ring[q] \in [Slots -> Packets]
<1>1. \A q \in Queues : tail[q] \in Slots /\ head[q] \in Slots /\ ring[q] \in [Slots -> Packets]
  BY DEF TypeOK, Packets
<1>2. \A q \in Queues : Contents(q) = ContentsOf(tail[q], head[q], ring[q])
  BY DEF Contents, Count, SlotAt, ContentsOf, Length, PlaceOf
<1>3. \A q \in Queues : Contents(q)' = ContentsOf(tail'[q], head'[q], ring'[q])
  BY DEF Contents, Count, SlotAt, ContentsOf, Length, PlaceOf
<1> QED BY <1>1, <1>2, <1>3

LEMMA FifoInit == Init => Fifo!Init
<1> SUFFICES ASSUME Init PROVE Fifo!Init
    OBVIOUS
<1>1. TypeOK
  BY TypeInit
<1>2. \A q \in Queues : Contents(q) = <<>>
  <2> TAKE q \in Queues
  <2>1. tail[q] = head[q]
    BY DEF Init
  <2> QED BY <1>1, <2>1, ContentsAre, EmptyContents
<1>3. InHand = NoBuf
  BY DEF Init, InHand
<1>4. [q \in Queues |-> Contents(q)] = [q \in Fifo!QueueNames |-> <<>>]
  BY <1>2 DEF Fifo!QueueNames, Queues
<1> QED BY <1>3, <1>4 DEF Fifo!Init

\* A step that leaves the rings and the packet in hand alone is a stutter.
LEMMA FifoStutters ==
  ASSUME UNCHANGED <<head, tail, ring>>, InHand' = InHand
  PROVE  UNCHANGED Fifo!fifoVars
<1>1. \A q : Contents(q)' = Contents(q)
  BY DEF Contents, Count, SlotAt
<1>2. [q \in Queues |-> Contents(q)]' = [q \in Queues |-> Contents(q)]
  BY <1>1
<1> QED BY <1>2 DEF Fifo!fifoVars

LEMMA FifoPut ==
  ASSUME Held, TypeOK', NEW q \in Queues, NEW p \in Pbufs, RecvCallback(q, p)
  PROVE  Fifo!Put(q, p)
<1> USE DEF Held, Ownership
<1>0. /\ \A r \in Queues : tail[r] \in Slots /\ head[r] \in Slots /\ ring[r] \in [Slots -> Packets]
      /\ \A r \in Queues : Contents(r) = ContentsOf(tail[r], head[r], ring[r])
      /\ \A r \in Queues : Contents(r)' = ContentsOf(tail'[r], head'[r], ring'[r])
  BY ContentsAre
<1>1. ~Fifo!Waiting(p)
  <2> SUFFICES ASSUME NEW r \in Queues, NEW j \in 1 .. Len(Contents(r)) PROVE Contents(r)[j] # p
      BY DEF Fifo!Waiting, Fifo!QueueNames, Queues
  <2>1. Len(Contents(r)) = Length(tail[r], head[r]) /\ Contents(r)[j] = ring[r][PlaceOf(tail[r], j)]
    BY <1>0, ContentsSeq
  <2>2. PlaceOf(tail[r], j) \in Live(r)
    BY <1>0, <2>1, PlacesLive DEF Live
  <2> QED BY <2>1, <2>2 DEF RecvCallback, QueueOwnership, LiveOwned, Queues
<1>2. InHand # p
  BY NoBufAssumption DEF InHand, RecvCallback, NoLeak
<1>3. Len(Contents(q)) < Size - 1
  <2>1. Len(Contents(q)) = Length(tail[q], head[q])
    BY <1>0, ContentsSeq
  <2>2. Advance(head[q]) # tail[q]
    BY DEF RecvCallback, NetQPut, IsFull
  <2> QED BY <1>0, <2>1, <2>2, PlacesLive, SizeAssumption
<1>4. Contents(q)' = Append(Contents(q), p)
  <2>1. /\ tail'[q] = tail[q] /\ head'[q] = Advance(head[q])
        /\ ring'[q] = [ring[q] EXCEPT ![Advance(head[q])] = p]
    BY DEF RecvCallback, NetQPut, TypeOK
  <2>2. Advance(head[q]) # tail[q] /\ p \in Packets
    BY DEF RecvCallback, NetQPut, IsFull, Packets
  <2>3. ContentsOf(tail[q], Advance(head[q]), [ring[q] EXCEPT ![Advance(head[q])] = p])
          = Append(ContentsOf(tail[q], head[q], ring[q]), p)
    <3> DEFINE t == tail[q]
               h == head[q]
               r == ring[q]
    <3>1. t \in Slots /\ h \in Slots /\ r \in [Slots -> Packets] /\ Advance(h) # t
      BY <1>0, <2>2
    <3> HIDE DEF t, h, r
    <3>2. ContentsOf(t, Advance(h), [r EXCEPT ![Advance(h)] = p]) = Append(ContentsOf(t, h, r), p)
      BY <3>1, <2>2, PutAppends
    <3> QED BY <3>2 DEF t, h, r
  <2>4. Contents(q)' = ContentsOf(tail'[q], head'[q], ring'[q])
    BY <1>0
  <2> QED BY <1>0, <2>1, <2>3, <2>4, Zenon
<1>5. \A r \in Queues : r # q => Contents(r)' = Contents(r)
  <2>1. \A r \in Queues : r # q => tail'[r] = tail[r] /\ head'[r] = head[r] /\ ring'[r] = ring[r]
    BY DEF RecvCallback, NetQPut, TypeOK
  <2> QED BY <1>0, <2>1
<1>6. [r \in Queues |-> Contents(r)]' = [[r \in Queues |-> Contents(r)] EXCEPT ![q] = Append(@, p)]
  BY <1>4, <1>5
<1>7. InHand' = InHand
  BY DEF InHand, RecvCallback
<1> QED BY <1>1, <1>2, <1>3, <1>6, <1>7 DEF Fifo!Put

LEMMA FifoGet ==
  ASSUME Held, TypeOK', NEW q \in Queues, NetQGet(q),
         ppc \notin {"recvEvent", "recvGeneral"}, ppc' \in {"recvEvent", "recvGeneral"}
  PROVE  Fifo!Get(q)
<1> USE DEF Held, Ownership
<1>0. /\ \A r \in Queues : tail[r] \in Slots /\ head[r] \in Slots /\ ring[r] \in [Slots -> Packets]
      /\ \A r \in Queues : Contents(r) = ContentsOf(tail[r], head[r], ring[r])
      /\ \A r \in Queues : Contents(r)' = ContentsOf(tail'[r], head'[r], ring'[r])
  BY ContentsAre
<1>1. /\ tail[q] # head[q] /\ tail'[q] = Advance(tail[q])
      /\ head' = head /\ ring' = ring /\ cur' = ring[q][Advance(tail[q])]
  BY DEF NetQGet, IsEmpty, TypeOK
<1>2. /\ Contents(q) # <<>>
      /\ Head(Contents(q)) = cur'
      /\ Contents(q)' = Tail(Contents(q))
  BY <1>0, <1>1, GetTakesHead
<1>3. \A r \in Queues : r # q => Contents(r)' = Contents(r)
  <2>1. \A r \in Queues : r # q => tail'[r] = tail[r]
    BY DEF NetQGet, TypeOK
  <2> QED BY <1>0, <1>1, <2>1
<1>4. [r \in Queues |-> Contents(r)]' = [[r \in Queues |-> Contents(r)] EXCEPT ![q] = Tail(@)]
  BY <1>2, <1>3
<1>5. InHand = NoBuf /\ InHand' = cur'
  BY DEF InHand
<1> QED BY <1>2, <1>4, <1>5 DEF Fifo!Get

LEMMA FifoFlush ==
  ASSUME Held, TypeOK', NetEmptyEventQ
  PROVE  Fifo!Flush
<1> USE DEF Held, Ownership
<1>0. /\ \A r \in Queues : tail[r] \in Slots /\ head[r] \in Slots /\ ring[r] \in [Slots -> Packets]
      /\ \A r \in Queues : Contents(r) = ContentsOf(tail[r], head[r], ring[r])
      /\ \A r \in Queues : Contents(r)' = ContentsOf(tail'[r], head'[r], ring'[r])
  BY ContentsAre
<1>1. "event" \in Queues /\ "general" \in Queues /\ tail'["event"] = head["event"]
  BY DEF NetEmptyEventQ, TypeOK, Queues
<1>2. head' = head /\ ring' = ring /\ tail'["general"] = tail["general"]
  BY DEF NetEmptyEventQ, TypeOK, Queues
<1>3. Contents("event")' = <<>>
  BY <1>0, <1>1, <1>2, EmptyContents
<1>4. Contents("general")' = Contents("general")
  BY <1>0, <1>1, <1>2
<1>5. [r \in Queues |-> Contents(r)]' = [[r \in Queues |-> Contents(r)] EXCEPT !["event"] = <<>>]
  BY <1>3, <1>4 DEF Queues
<1>6. InHand' = InHand
  BY DEF NetEmptyEventQ, InHand
<1> QED BY <1>5, <1>6 DEF Fifo!Flush

LEMMA FifoStep == Held /\ TypeOK' /\ [Next]_vars => [Fifo!Next]_Fifo!fifoVars
<1> SUFFICES ASSUME Held, TypeOK', [Next]_vars PROVE Fifo!Next \/ UNCHANGED Fifo!fifoVars
    OBVIOUS
<1>1. ASSUME NEW q \in Queues, NEW p \in Pbufs, RecvCallback(q, p) PROVE Fifo!Next
  BY <1>1, FifoPut DEF Fifo!Next, Fifo!QueueNames, Queues
<1>2. CASE NetRecvEvent
  <2>1. Fifo!Get("event")
    BY <1>2, FifoGet DEF NetRecvEvent, Queues
  <2> QED BY <2>1 DEF Fifo!Next, Fifo!QueueNames
<1>3. CASE NetRecvGeneral
  <2>1. Fifo!Get("general")
    BY <1>3, FifoGet DEF NetRecvGeneral, Queues
  <2> QED BY <2>1 DEF Fifo!Next, Fifo!QueueNames
<1>4. CASE NetRecvCopy \/ NetRecvReject
  <2>1. InHand # NoBuf /\ InHand' = NoBuf
    BY <1>4, NoBufAssumption DEF NetRecvCopy, NetRecvReject, InHand, Held
  <2>2. \A q : Contents(q)' = Contents(q)
    BY <1>4 DEF NetRecvCopy, NetRecvReject, Contents, Count, SlotAt
  <2>3. [q \in Queues |-> Contents(q)]' = [q \in Queues |-> Contents(q)]
    BY <2>2
  <2>4. Fifo!Release
    BY <2>1, <2>3 DEF Fifo!Release
  <2> QED BY <2>4 DEF Fifo!Next
<1>5. CASE NetEmptyEventQ
  BY <1>5, FifoFlush DEF Fifo!Next
<1>6. ASSUME NEW q \in Queues, NEW p \in Pbufs, RecvCallbackFull(q, p) \/ CallbackFree(p)
      PROVE  UNCHANGED Fifo!fifoVars
  BY <1>6, FifoStutters DEF RecvCallbackFull, CallbackFree, InHand
<1>7. CASE CallbackAlert \/ TimerAlert \/ DoStateWithoutRecv \/ NoEvent \/ NoGeneral \/ HandlerDone
           \/ SelectEvent \/ SelectGeneral \/ FetchAlert \/ FetchTimeout \/ UNCHANGED vars
  BY <1>7, FifoStutters
  DEF CallbackAlert, TimerAlert, DoStateWithoutRecv, NoEvent, NoGeneral, HandlerDone,
      SelectEvent, SelectGeneral, FetchAlert, FetchTimeout, vars, InHand
<1> QED
  BY <1>1, <1>2, <1>3, <1>4, <1>5, <1>6, <1>7 DEF Next, Tcpip, Ptp, Queues

\* FifoRefinement: with rings of any size the queues of dep/net.c are bounded FIFO
\* queues.  Packets leave in the order in which netQPut accepted them, one is
\* rejected only when a queue holds Size - 1, and the callbacks, the flush and the
\* reader never make them anything else, however they interleave.
THEOREM QueuesAreFifo == Spec => FifoRefinement
<1>1. Init => Held
  BY OwnershipInit DEF Init, Held
<1>2. Held => TypeOK
  BY DEF Held, Ownership
<1>3. Spec => []Held
  BY <1>1, HeldStep, PTL DEF Spec
<1> QED BY <1>2, <1>3, FifoInit, FifoStep, PTL DEF Spec, FifoRefinement, Fifo!Spec
=============================================================================
