--------------------------- MODULE PeerDelayProofs --------------------------
(***************************************************************************)
(* What module PeerDelay promises of every peer delay, for every set of    *)
(* peers, every width of the sequence number, both flags, and messages     *)
(* that outlive any number of requests short of a whole turn of the        *)
(* counter.                                                                *)
(*                                                                         *)
(* The strengthening: every message carries the number its age determines  *)
(* (Numbered), and while a follow up is awaited t2 and t4 are those of one *)
(* answer, to the latest request unless that request was sent during the   *)
(* wait (AwaitedPair).                                                     *)
(***************************************************************************)
EXTENDS PeerDelay, TLAPS

\* The sequence number that was sent k requests ago, the counter being s now.
Back(s, k) == IF s - k < -SeqMax - 1 THEN s - k + 2 * SeqMax + 2 ELSE s - k

Numbered == \A x \in reqs \cup net : x.seq = Back(clk.sent, x.age + 1)

\* The stored transmit stamp is that of the latest request, where stamps are valid.
Stamped == TxStamps = {TRUE} => clk.t1 \in {0, None}

AwaitedPair ==
  clk.waiting => clk.t2 = clk.t4 /\ clk.t2.age # None /\ (~clk.overtaken => clk.t2.age = 0)

PeerInv == TypeOK /\ Numbered /\ Stamped /\ AwaitedPair /\ HalvesPaired

PeerAssumptions == SeqAssumption /\ TxStampsAssumption

\* Counting on moves every message one request back, round the wrap too.
LEMMA BackIncrement ==
  ASSUME SeqAssumption, NEW s \in SeqIds, NEW k \in 1 .. MaxAge + 1
  PROVE  /\ Increment(s) \in SeqIds
         /\ k <= MaxAge => Back(Increment(s), k + 1) = Back(s, k)
         /\ Back(Increment(s), 1) = s
  BY DEF SeqAssumption, SeqIds, Increment, Back

\* The number expected in an answer is that of no request but the latest.
LEMMA OnlyLatest ==
  ASSUME SeqAssumption, NEW s \in SeqIds, NEW a \in Ages, Back(s, a + 1) = s - 1
  PROVE  a = 0
  BY DEF SeqAssumption, SeqIds, Back, Ages

\* What has grown older was there before.
LEMMA AgedMember ==
  ASSUME NEW S, NEW x \in Aged(S)
  PROVE  \E y \in S : y.age < MaxAge /\ x = [y EXCEPT !.age = @ + 1]
  BY DEF Aged

\* Growing older keeps the messages in their ranges.
LEMMA AgedType ==
  ASSUME SeqAssumption
  PROVE  /\ \A S \in SUBSET Request : Aged(S) \in SUBSET Request
         /\ \A S \in SUBSET Message : Aged(S) \in SUBSET Message
  BY DEF SeqAssumption, Aged, Request, Message, Ages

\* The stamps: which of them there are, and how they grow older.
LEMMA StampTypes ==
  ASSUME SeqAssumption
  PROVE  /\ None \in StampAges /\ 0 \in StampAges /\ Cleared \in Stamp
         /\ \A a \in StampAges : Older(a) \in StampAges /\ (a # None => Older(a) # None)
         /\ \A t \in Stamp : OlderStamp(t) \in Stamp /\ OlderStamp(t).age = Older(t.age)
         /\ \A m \in Message : StampOf(m) \in Stamp /\ StampOf(m).age = m.age /\ m.age # None
  <1>1. None \in StampAges /\ 0 \in StampAges /\ Cleared \in Stamp
    BY DEF SeqAssumption, None, StampAges, Cleared, Stamp
  <1>2. ASSUME NEW a \in StampAges PROVE Older(a) \in StampAges /\ (a # None => Older(a) # None)
    BY DEF SeqAssumption, None, StampAges, Older, Ages
  <1>3. ASSUME NEW t \in Stamp PROVE OlderStamp(t) \in Stamp /\ OlderStamp(t).age = Older(t.age)
    <2>1. t.age \in StampAges /\ OlderStamp(t) = [t EXCEPT !.age = Older(t.age)]
      BY DEF Stamp, OlderStamp
    <2>2. Older(t.age) \in StampAges
      BY <1>2, <2>1
    <2> QED
      BY <2>1, <2>2 DEF Stamp
  <1>4. ASSUME NEW m \in Message PROVE StampOf(m) \in Stamp /\ StampOf(m).age = m.age /\ m.age # None
    BY DEF SeqAssumption, Message, Ages, StampOf, Stamp, StampAges, None
  <1> QED
    BY <1>1, <1>2, <1>3, <1>4

\* What the functions of protocol.c make of the clock.
LEMMA ClockTypes ==
  ASSUME SeqAssumption, NEW c \in Clock
  PROVE  /\ InitClock(c) \in Clock
         /\ \A valid \in BOOLEAN : IssuePDelayReq(c, valid) \in Clock
         /\ \A m \in Message : AwaitFollowUp(c, m) \in Clock /\ OneStep(c, m) \in Clock /\
              TwoStep(c, m) \in Clock
  <1> USE StampTypes DEF Clock
  <1>1. InitClock(c) \in Clock
    BY DEF InitClock
  <1>2. ASSUME NEW valid \in BOOLEAN PROVE IssuePDelayReq(c, valid) \in Clock
    <2>1. Increment(c.sent) \in SeqIds
      BY DEF SeqAssumption, SeqIds, Increment
    <2>2. (IF valid THEN 0 ELSE Older(c.t1)) \in StampAges
      OBVIOUS
    <2> QED
      BY <2>1, <2>2 DEF IssuePDelayReq
  <1>3. ASSUME NEW m \in Message
        PROVE AwaitFollowUp(c, m) \in Clock /\ OneStep(c, m) \in Clock /\ TwoStep(c, m) \in Clock
    BY DEF AwaitFollowUp, OneStep, TwoStep
  <1> QED
    BY <1>1, <1>2, <1>3

\* A delay is made of stamps.
LEMMA DelayType ==
  ASSUME SeqAssumption, NEW c \in Clock, NEW twoStep \in BOOLEAN
  PROVE  UpdatePeerDelay(c, twoStep) \in Delays
  BY StampTypes DEF Clock, UpdatePeerDelay, Delays

\* The invariant holds at the start.
LEMMA PeerInit == ASSUME PeerAssumptions, Init PROVE PeerInv
  <1>1. clk \in Clock
    <2>1. 0 \in SeqIds
      BY DEF PeerAssumptions, SeqAssumption, SeqIds
    <2> QED
      BY <2>1, StampTypes DEF PeerAssumptions, Init, Clock, States
  <1>2. NoDelay \in Delays
    BY StampTypes DEF PeerAssumptions, NoDelay, Delays
  <1>3. TypeOK
    BY <1>1, <1>2 DEF Init, TypeOK
  <1> QED
    BY <1>3 DEF Init, PeerInv, Numbered, Stamped, AwaitedPair, HalvesPaired

LEMMA RequestInv ==
  ASSUME PeerAssumptions, PeerInv, NEW valid \in TxStamps, RequestDelay(valid)
  PROVE  PeerInv'
  <1> USE DEF PeerAssumptions, PeerInv
  <1> DEFINE c == IssuePDelayReq(clk, valid)
  <1>1. /\ clk \in Clock /\ clk.sent \in SeqIds /\ valid \in BOOLEAN /\ c \in Clock
        /\ clk.t2 \in Stamp /\ clk.t4 \in Stamp /\ clk.t1 \in StampAges
    <2>1. clk \in Clock /\ valid \in BOOLEAN
      BY DEF TypeOK, TxStampsAssumption
    <2> QED
      BY <2>1, ClockTypes DEF Clock
  <1>2. /\ clk' = c /\ reqs' = Aged(reqs) \cup {[seq |-> clk.sent, age |-> 0]} /\ net' = Aged(net)
        /\ UNCHANGED <<delay, unfinished>>
    BY DEF RequestDelay
  <1>3. /\ c.sent = Increment(clk.sent) /\ c.t1 = IF valid THEN 0 ELSE Older(clk.t1)
        /\ c.t2 = OlderStamp(clk.t2) /\ c.t4 = OlderStamp(clk.t4) /\ c.waiting = clk.waiting
        /\ c.overtaken = clk.waiting
    BY <1>1 DEF Clock, IssuePDelayReq
  <1> HIDE DEF c
  <1>4. TypeOK'
    <2>1. [seq |-> clk.sent, age |-> 0] \in Request
      BY <1>1 DEF SeqAssumption, Request, Ages
    <2>2. Aged(reqs) \in SUBSET Request /\ Aged(net) \in SUBSET Message
      BY AgedType DEF TypeOK
    <2> QED
      BY <1>1, <1>2, <2>1, <2>2 DEF TypeOK
  <1>5. Numbered'
    <2> SUFFICES ASSUME NEW x \in reqs' \cup net' PROVE x.seq = Back(c.sent, x.age + 1)
      BY <1>2 DEF Numbered
    <2>1. CASE x = [seq |-> clk.sent, age |-> 0]
      <3>1. Back(Increment(clk.sent), 1) = clk.sent
        BY <1>1, BackIncrement DEF SeqAssumption
      <3> QED
        BY <1>3, <2>1, <3>1
    <2>2. CASE x \in Aged(reqs) \cup Aged(net)
      <3>1. PICK y \in reqs \cup net : y.age < MaxAge /\ x = [y EXCEPT !.age = @ + 1]
        BY <2>2, AgedMember
      <3>2. y.age \in Ages /\ x.seq = y.seq /\ x.age = y.age + 1
        BY <3>1 DEF TypeOK, Request, Message
      <3>3. y.seq = Back(clk.sent, y.age + 1)
        BY DEF Numbered
      <3>4. y.age + 1 \in 1 .. MaxAge + 1 /\ y.age + 1 <= MaxAge
        BY <3>1, <3>2 DEF SeqAssumption, Ages
      <3>5. Back(Increment(clk.sent), (y.age + 1) + 1) = Back(clk.sent, y.age + 1)
        BY <1>1, <3>4, BackIncrement
      <3> QED
        BY <1>3, <3>2, <3>3, <3>5
    <2> QED
      BY <1>2, <2>1, <2>2
  <1>6. Stamped'
    BY <1>2, <1>3 DEF Stamped
  <1>7. AwaitedPair'
    <2>1. clk.t2 \in Stamp /\ clk.t2.age \in StampAges
      BY <1>1 DEF Stamp
    <2> QED
      BY <1>2, <1>3, <2>1, StampTypes DEF AwaitedPair
  <1>8. HalvesPaired'
    BY <1>2 DEF HalvesPaired
  <1> QED
    BY <1>4, <1>5, <1>6, <1>7, <1>8

\* An answer that is used is one to the latest request.
LEMMA CurrentIsLatest ==
  ASSUME PeerAssumptions, PeerInv, NEW m \in net, IsCurrent(clk, m)
  PROVE  m.age = 0
  <1>1. m.age \in Ages /\ clk.sent \in SeqIds
    BY DEF PeerInv, TypeOK, Message, Clock
  <1>2. Back(clk.sent, m.age + 1) = clk.sent - 1
    BY DEF PeerInv, Numbered, IsCurrent
  <1> QED
    BY <1>1, <1>2, OnlyLatest DEF PeerAssumptions

LEMMA RespInv ==
  ASSUME PeerAssumptions, PeerInv, NEW m \in net, NEW duplicate \in BOOLEAN, HandlePDelayResp(m, duplicate)
  PROVE  PeerInv'
  <1> USE DEF PeerAssumptions, PeerInv
  <1> DEFINE use == clk.portState \in Measuring /\ IsCurrent(clk, m)
             one == OneStep(clk, m)
  <1>1. m \in Message /\ clk \in Clock
    BY DEF TypeOK
  <1>2. /\ one \in Clock /\ AwaitFollowUp(clk, m) \in Clock /\ StampOf(m) \in Stamp
        /\ StampOf(m).age = m.age /\ m.age # None
    BY <1>1, ClockTypes, StampTypes
  <1>3. UNCHANGED <<reqs, unfinished>> /\ net' \subseteq net
    BY DEF HandlePDelayResp, Consume
  <1>4. CASE ~use
    <2>1. clk' = clk /\ delay' = delay
      BY <1>4 DEF HandlePDelayResp
    <2> QED
      BY <1>3, <2>1 DEF TypeOK, Numbered, Stamped, AwaitedPair, HalvesPaired
  <1>5. CASE use /\ PeerTwoStep
    <2>1. clk' = AwaitFollowUp(clk, m) /\ delay' = delay
      BY <1>5 DEF HandlePDelayResp
    <2>2. clk'.sent = clk.sent /\ clk'.t1 = clk.t1 /\ clk'.t2 = StampOf(m) /\ clk'.t4 = StampOf(m)
      BY <1>1, <2>1 DEF Clock, AwaitFollowUp
    <2>6. m.age = 0
      BY <1>5, CurrentIsLatest
    <2>3. TypeOK'
      BY <1>2, <1>3, <2>1 DEF TypeOK
    <2>4. Numbered' /\ Stamped' /\ HalvesPaired'
      BY <1>3, <2>1, <2>2 DEF Numbered, Stamped, HalvesPaired
    <2>5. AwaitedPair'
      BY <1>2, <2>2, <2>6 DEF AwaitedPair
    <2> QED
      BY <2>3, <2>4, <2>5
  <1>6. CASE use /\ ~PeerTwoStep
    <2>1. clk' = one /\ delay' = UpdatePeerDelay(one, FALSE)
      BY <1>6 DEF HandlePDelayResp
    <2>2. one.sent = clk.sent /\ one.t1 = clk.t1 /\ one.t4 = StampOf(m) /\ ~one.waiting
      BY <1>1 DEF Clock, OneStep
    <2>3. TypeOK'
      <3>1. delay' \in Delays
        BY <1>2, <2>1, DelayType
      <3> QED
        BY <1>2, <1>3, <2>1, <3>1 DEF TypeOK
    <2>4. Numbered' /\ Stamped' /\ AwaitedPair'
      BY <1>3, <2>1, <2>2 DEF Numbered, Stamped, AwaitedPair
    <2>5. m.age = 0
      BY <1>6, CurrentIsLatest
    <2>6. delay'.t1 = clk.t1 /\ delay'.t3 = Cleared /\ delay'.t4 = StampOf(m)
      BY <2>1, <2>2 DEF UpdatePeerDelay
    <2>7. HalvesPaired'
      BY <1>2, <2>5, <2>6 DEF HalvesPaired, Stamped
    <2> QED
      BY <2>3, <2>4, <2>7
  <1> QED
    BY <1>4, <1>5, <1>6

LEMMA FollowUpInv ==
  ASSUME PeerAssumptions, PeerInv, NEW m \in net, NEW duplicate \in BOOLEAN,
         HandlePDelayRespFollowUp(m, duplicate)
  PROVE  PeerInv'
  <1> USE DEF PeerAssumptions, PeerInv
  <1> DEFINE use == clk.portState \in Measuring /\ clk.waiting /\ IsCurrent(clk, m)
             two == TwoStep(clk, m)
  <1>1. m \in Message /\ clk \in Clock
    BY DEF TypeOK
  <1>2. two \in Clock /\ StampOf(m).age = m.age /\ m.age # None
    BY <1>1, ClockTypes, StampTypes
  <1>3. UNCHANGED <<reqs, unfinished>> /\ net' \subseteq net
    BY DEF HandlePDelayRespFollowUp, Consume
  <1>4. CASE ~use
    <2>1. clk' = clk /\ delay' = delay
      BY <1>4 DEF HandlePDelayRespFollowUp
    <2> QED
      BY <1>3, <2>1 DEF TypeOK, Numbered, Stamped, AwaitedPair, HalvesPaired
  <1>5. CASE use
    <2>1. clk' = two /\ delay' = UpdatePeerDelay(two, TRUE)
      BY <1>5 DEF HandlePDelayRespFollowUp
    <2>2. /\ two.sent = clk.sent /\ two.t1 = clk.t1 /\ two.t2 = clk.t2 /\ two.t3 = StampOf(m)
          /\ two.t4 = clk.t4 /\ ~two.waiting /\ two.overtaken = clk.overtaken
      BY <1>1 DEF Clock, TwoStep
    <2>3. TypeOK'
      <3>1. delay' \in Delays
        BY <1>2, <2>1, DelayType
      <3> QED
        BY <1>2, <1>3, <2>1, <3>1 DEF TypeOK
    <2>4. Numbered' /\ Stamped' /\ AwaitedPair'
      BY <1>3, <2>1, <2>2 DEF Numbered, Stamped, AwaitedPair
    <2>5. m.age = 0
      BY <1>5, CurrentIsLatest
    <2>6. /\ delay'.t1 = clk.t1 /\ delay'.t2 = clk.t2 /\ delay'.t3 = StampOf(m) /\ delay'.t4 = clk.t4
          /\ delay'.overtaken = clk.overtaken
      BY <1>1, <2>1, <2>2 DEF UpdatePeerDelay, Clock
    <2>7. delay'.t3 # Cleared
      BY <1>2, <2>6 DEF Cleared
    <2>8. HalvesPaired'
      BY <1>2, <1>5, <2>5, <2>6, <2>7 DEF HalvesPaired, Stamped, AwaitedPair
    <2> QED
      BY <2>3, <2>4, <2>8
  <1> QED
    BY <1>4, <1>5

\* The timer, the transitions of the port and a reset of the clock keep stamps and numbers,
\* or clear all of the stamps with the wait.
LEMMA PortInv ==
  ASSUME PeerAssumptions, PeerInv, Expire \/ ResetClock \/ \E to \in States : EnterState(to)
  PROVE  PeerInv'
  <1> USE DEF PeerAssumptions, PeerInv
  <1> DEFINE d == InitClock(clk)
  <1>1. UNCHANGED <<reqs, net, delay, unfinished>> /\ clk \in Clock
    BY DEF Expire, ResetClock, EnterState, TypeOK
  <1>2. d \in Clock /\ d.sent = clk.sent /\ d.t1 = None /\ ~d.waiting
    BY <1>1, ClockTypes DEF InitClock, Clock
  <1>3. /\ clk' \in Clock /\ clk'.sent = clk.sent
        /\ \/ /\ clk'.t1 = clk.t1 /\ clk'.t2 = clk.t2 /\ clk'.t4 = clk.t4
              /\ clk'.waiting = clk.waiting /\ clk'.overtaken = clk.overtaken
           \/ clk'.t1 = None /\ ~clk'.waiting
    <2>1. CASE Expire
      BY <1>1, <2>1 DEF Expire, Clock
    <2>2. CASE ResetClock
      BY <1>2, <2>2 DEF ResetClock
    <2>3. ASSUME NEW to \in States, EnterState(to)
          PROVE  /\ clk' \in Clock /\ clk'.sent = clk.sent
                 /\ \/ /\ clk'.t1 = clk.t1 /\ clk'.t2 = clk.t2 /\ clk'.t4 = clk.t4
                       /\ clk'.waiting = clk.waiting /\ clk'.overtaken = clk.overtaken
                    \/ clk'.t1 = None /\ ~clk'.waiting
      <3> HIDE DEF d
      <3>1. PICK e \in {clk, d} : clk' = [e EXCEPT !.portState = to, !.expired = @ /\ to = "SLAVE"]
        BY <2>3 DEF EnterState, d
      <3>2. e \in Clock
        BY <1>1, <1>2
      <3>3. /\ clk' \in Clock /\ clk'.sent = e.sent /\ clk'.t1 = e.t1 /\ clk'.t2 = e.t2
            /\ clk'.t4 = e.t4 /\ clk'.waiting = e.waiting /\ clk'.overtaken = e.overtaken
        BY <3>1, <3>2 DEF Clock
      <3> QED
        BY <1>2, <3>3
    <2> QED
      BY <2>1, <2>2, <2>3
  <1>4. TypeOK' /\ Numbered' /\ HalvesPaired'
    BY <1>1, <1>3 DEF TypeOK, Numbered, HalvesPaired
  <1>5. Stamped' /\ AwaitedPair'
    BY <1>3 DEF Stamped, AwaitedPair
  <1> QED
    BY <1>4, <1>5

\* A peer's answer carries the number of the request it answers.
LEMMA NetworkInv ==
  ASSUME PeerAssumptions, PeerInv,
         Lose \/ \E p \in Peers, q \in reqs, valid \in TxStamps : HandlePDelayReq(p, q, valid)
  PROVE  PeerInv'
  <1> USE DEF PeerAssumptions, PeerInv
  <1>1. CASE Lose
    BY <1>1 DEF Lose, TypeOK, Numbered, Stamped, AwaitedPair, HalvesPaired
  <1>2. ASSUME NEW p \in Peers, NEW q \in reqs, NEW valid \in TxStamps, HandlePDelayReq(p, q, valid)
        PROVE  PeerInv'
    <2>1. UNCHANGED <<clk, reqs, delay>> /\ net' = net \cup Answers(p, q, valid) /\ unfinished' \in BOOLEAN
      BY <1>2 DEF HandlePDelayReq, TypeOK
    <2>2. \A x \in Answers(p, q, valid) : x \in Message /\ x.seq = q.seq /\ x.age = q.age
      <3>1. q.seq \in SeqIds /\ q.age \in Ages
        BY DEF TypeOK, Request
      <3> QED
        BY <3>1 DEF Answers, Message
    <2>3. TypeOK'
      BY <2>1, <2>2 DEF TypeOK
    <2>4. Numbered'
      BY <2>1, <2>2 DEF Numbered
    <2> QED
      BY <2>1, <2>3, <2>4 DEF Stamped, AwaitedPair, HalvesPaired
  <1> QED
    BY <1>1, <1>2

\* The invariant is inductive.
LEMMA PeerStep == ASSUME PeerAssumptions, PeerInv, [Next]_vars PROVE PeerInv'
  <1>1. CASE UNCHANGED vars
    BY <1>1 DEF vars, PeerInv, TypeOK, Numbered, Stamped, AwaitedPair, HalvesPaired
  <1>2. CASE Next
    BY <1>2, RequestInv, RespInv, FollowUpInv, PortInv, NetworkInv DEF Next
  <1> QED
    BY <1>1, <1>2

\* What the invariant says of delays and of the stamps awaited.
LEMMA PeerInvPairs == PeerInv => TypeOK /\ HalvesPaired /\ AwaitedHasStamps
  BY DEF PeerInv, AwaitedPair, AwaitedHasStamps, Cleared

\* For every set of peers, both two-step flags and every width of the counter: what a peer
\* delay (handlePDelayResp, handlePDelayRespFollowUp) is completed by is of an answer to the
\* latest request, its t2 and t4 are of one answer, and of one to that same request unless
\* the request was sent while the follow up of an earlier answer was awaited, whatever comes
\* late or twice; and while a follow up is awaited its stamps are stored.
THEOREM PeerDelayPaired ==
  ASSUME PeerAssumptions PROVE Spec => [](TypeOK /\ HalvesPaired /\ AwaitedHasStamps)
  BY PeerInit, PeerStep, PeerInvPairs, PTL DEF Spec
=============================================================================
