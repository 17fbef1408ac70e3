--------------------------- MODULE ProtocolProofs ---------------------------
(***************************************************************************)
(* What the exchanges of MCProtocol promise: the end-to-end delay, the     *)
(* register accesses that read and set the clock, and, from the general    *)
(* theorems of PeerDelayProofs and TimerServiceProofs, the peer delays and *)
(* the timers.                                                             *)
(***************************************************************************)
EXTENDS MCProtocol, TLAPS

TwoStepProofs == INSTANCE PeerDelayProofs WITH
  Peers <- {"P"}, RequestTwoStep <- TRUE, PeerTwoStep <- TRUE, TxStamps <- {TRUE},
  clk <- peer, reqs <- preqs, net <- pnet, delay <- pdelay
OneStepProofs == INSTANCE PeerDelayProofs WITH
  Peers <- {"P", "Q"}, RequestTwoStep <- FALSE, PeerTwoStep <- FALSE, TxStamps <- BOOLEAN,
  clk <- peer, reqs <- preqs, net <- pnet, delay <- pdelay

TimerProofs == INSTANCE TimerServiceProofs WITH
  QueueLength <- 3, P2P <- FALSE, SlaveOnly <- FALSE, MaxStarts <- 1
TimerAgainProofs == INSTANCE TimerServiceProofs WITH
  QueueLength <- 3, P2P <- TRUE, SlaveOnly <- TRUE, MaxStarts <- 2

-----------------------------------------------------------------------------
(* The end-to-end delay (DelayE2E), for every set of masters, every width  *)
(* of the sequence number, and messages that outlive any number of         *)
(* requests short of a whole turn of the counter.                          *)
(*                                                                         *)
(* The strengthening: every message carries the number its age determines  *)
(* (Numbered), the stored transmit stamp is that of the latest request     *)
(* (Stamped), and Tms belongs to the filter's count and, once the parent   *)
(* was heard, to the parent (TmsKnown).                                    *)

\* The sequence number that was sent k requests ago, the counter being s now.
Back(s, k) == IF s - k < -SeqMax - 1 THEN s - k + 2 * SeqMax + 2 ELSE s - k

Numbered == \A x \in reqs \cup resps : x.seq = Back(clk.sent, x.age + 1)

Stamped == clk.send = 0 \/ (reqs = {} /\ resps = {})

TmsKnown ==
  /\ clk.filtered => clk.tms # NoMaster
  /\ hist.synced => clk.filtered /\ clk.tms = clk.parent

\* Counting on moves every message one request back, round the wrap too.
LEMMA BackIncrement ==
  ASSUME NEW s \in SeqIds, NEW k \in 1 .. MaxAge + 1
  PROVE  /\ Increment(s) \in SeqIds
         /\ k <= MaxAge => Back(Increment(s), k + 1) = Back(s, k)
         /\ Back(Increment(s), 1) = s
  BY SeqAssumption DEF SeqIds, Increment, Back

\* The number expected in an answer is that of no request but the latest.
LEMMA OnlyLatest ==
  ASSUME NEW s \in SeqIds, NEW a \in Ages, Back(s, a + 1) = s - 1
  PROVE  a = 0
  BY SeqAssumption DEF SeqIds, Back, Ages

LEMMA AgedMember ==
  ASSUME NEW S, NEW x \in Aged(S)
  PROVE  \E y \in S : y.age < MaxAge /\ x = [y EXCEPT !.age = @ + 1]
  BY DEF Aged

LEMMA AgedType ==
  /\ \A S \in SUBSET Request : Aged(S) \in SUBSET Request
  /\ \A S \in SUBSET Response : Aged(S) \in SUBSET Response
  BY SeqAssumption DEF Aged, Request, Response, Ages

LEMMA SynchronizeType ==
  ASSUME NEW c \in Clock, NEW offset
  PROVE  /\ Synchronize(c, offset) \in Clock
         /\ InitClock(c) \in Clock
         /\ Synchronize(c, offset).sent = c.sent
         /\ Synchronize(c, offset).send = c.send
         /\ Synchronize(c, offset).portState = c.portState
         /\ Synchronize(c, offset).parent = c.parent
         /\ (c.filtered => c.tms # NoMaster) =>
              (Synchronize(c, offset).filtered => Synchronize(c, offset).tms = c.parent)
  BY MastersAssumption DEF Synchronize, InitClock, Clock

LEMMA IssueType ==
  ASSUME NEW c \in Clock, NEW valid \in BOOLEAN
  PROVE  IssueDelayReq(c, valid) \in Clock
  <1>1. Increment(c.sent) \in SeqIds
    BY BackIncrement, SeqAssumption DEF Clock
  <1>2. (IF valid THEN 0 ELSE Older(c.send)) \in StampAges
    BY SeqAssumption DEF Clock, Older, StampAges, Ages, Old, NoStamp
  <1> QED
    BY <1>1, <1>2 DEF IssueDelayReq, Clock

\* Every variable keeps its type: in particular the sequence numbers stay in the range
\* of int16_t while the code increments them for ever.
THEOREM TypeCorrect == Spec => []TypeOK
<1>1. Init => TypeOK
  <2> SUFFICES ASSUME Init PROVE TypeOK
    OBVIOUS
  <2>1. 0 \in SeqIds /\ NoStamp \in StampAges
    BY SeqAssumption DEF SeqIds, StampAges, NoStamp, Old
  <2>2. clk \in Clock
    BY <2>1 DEF Init, Clock
  <2> QED
    BY <2>1, <2>2 DEF Init, TypeOK, History, NoDelay
<1>2. TypeOK /\ [Next]_vars => TypeOK'
  <2> SUFFICES ASSUME TypeOK, [Next]_vars PROVE TypeOK'
    OBVIOUS
  <2>1. ASSUME NEW offset, NEW valid \in TxStamps, HandleSync(offset, valid) PROVE TypeOK'
    <3> DEFINE c == Synchronize(clk, offset)
    <3>1. c \in Clock /\ IssueDelayReq(c, valid) \in Clock
      BY SynchronizeType, IssueType, TxStampsAssumption, <2>1 DEF TypeOK
    <3>2. {[seq |-> c.sent, age |-> 0]} \subseteq Request
      BY <3>1, SeqAssumption DEF Clock, Request, Ages
    <3> QED
      BY <2>1, <3>1, <3>2, AgedType DEF HandleSync, TypeOK, History, Clock
  <2>2. ASSUME NEW r \in resps, NEW duplicate \in BOOLEAN, HandleDelayResp(r, duplicate) PROVE TypeOK'
    <3>1. r \in Response /\ r.age \in StampAges /\ Old \in StampAges /\ clk.filtered \in BOOLEAN
      BY SeqAssumption DEF TypeOK, Response, Ages, StampAges, Old, NoStamp, Clock
    <3>2. UpdateDelay(clk, r) \in [tms : Masters \cup {NoMaster}, from : Masters \cup {NoMaster},
                                    send : StampAges, receive : StampAges]
      BY <3>1 DEF TypeOK, UpdateDelay, Clock, Response
    <3>3. Matches(clk, r) \in BOOLEAN
      BY DEF Matches
    <3>4. hist' \in History
      BY <2>2, <3>1, <3>3 DEF HandleDelayResp, TypeOK, History
    <3> QED
      BY <2>2, <3>2, <3>4 DEF HandleDelayResp, TypeOK
  <2>3. CASE Expire
    BY <2>3 DEF Expire, TypeOK, Clock, History
  <2>4. ASSUME NEW to \in {"UNCALIBRATED", "SLAVE", "OTHER"}, EnterState(to) PROVE TypeOK'
    <3>1. InitClock(clk) \in Clock
      BY SynchronizeType DEF TypeOK
    <3> QED
      BY <2>4, <3>1 DEF EnterState, TypeOK, Clock, History
  <2>5. ASSUME NEW m \in Masters, ChangeMaster(m) PROVE TypeOK'
    BY <2>5 DEF ChangeMaster, TypeOK, Clock, History
  <2>6. ASSUME NEW m \in Masters, NEW q \in reqs, Answer(m, q) PROVE TypeOK'
    <3>1. [from |-> m, requesting |-> "self", seq |-> q.seq, age |-> q.age] \in Response
      BY DEF TypeOK, Request, Response
    <3>2. hist' \in History
      BY <2>6 DEF Answer, TypeOK, History
    <3> QED
      BY <2>6, <3>1, <3>2 DEF Answer, TypeOK
  <2>9. ASSUME NEW m \in Masters, NEW q \in reqs, AnswerOther(m, q) PROVE TypeOK'
    <3>1. [from |-> m, requesting |-> "other", seq |-> q.seq, age |-> q.age] \in Response
      BY DEF TypeOK, Request, Response
    <3>2. hist' \in History
      BY <2>9 DEF AnswerOther, TypeOK, History
    <3> QED
      BY <2>9, <3>1, <3>2 DEF AnswerOther, TypeOK
  <2>7. CASE Lose
    BY <2>7 DEF Lose, TypeOK, History
  <2>8. CASE UNCHANGED vars
    BY <2>8 DEF vars, TypeOK
  <2> QED
    BY <2>1, <2>2, <2>3, <2>4, <2>5, <2>6, <2>7, <2>8, <2>9 DEF Next
<1> QED
  BY <1>1, <1>2, PTL DEF Spec

\* The messages in the network carry the number that their age determines.
LEMMA NumberedStep == TypeOK /\ Numbered /\ [Next]_vars => Numbered'
<1> SUFFICES ASSUME TypeOK, Numbered, [Next]_vars PROVE Numbered'
  OBVIOUS
<1>1. ASSUME NEW offset, NEW valid \in TxStamps, HandleSync(offset, valid) PROVE Numbered'
  <2> DEFINE c == Synchronize(clk, offset)
             due == c.portState = "SLAVE" /\ c.expired
  <2>1. c \in Clock /\ c.sent = clk.sent /\ clk.sent \in SeqIds
    BY SynchronizeType DEF TypeOK, Clock
  <2>2. CASE ~due
    <3>1. reqs' = reqs /\ resps' = resps /\ clk'.sent = clk.sent
      BY <1>1, <2>1, <2>2 DEF HandleSync
    <3> QED
      BY <3>1 DEF Numbered
  <2>3. CASE due
    <3>1. /\ reqs' = Aged(reqs) \cup {[seq |-> c.sent, age |-> 0]}
          /\ resps' = Aged(resps)
          /\ clk' = IssueDelayReq(c, valid)
      BY <1>1, <2>3 DEF HandleSync
    <3>2. clk'.sent = Increment(clk.sent)
      BY <2>1, <3>1 DEF IssueDelayReq, Clock
    <3> SUFFICES ASSUME NEW x \in reqs' \cup resps' PROVE x.seq = Back(clk'.sent, x.age + 1)
      BY DEF Numbered
    <3>3. CASE x = [seq |-> c.sent, age |-> 0]
      <4>1. Back(Increment(clk.sent), 1) = clk.sent
        BY <2>1, BackIncrement, SeqAssumption
      <4> QED
        BY <3>3, <2>1, <3>2, <4>1
    <3>4. CASE x \in Aged(reqs) \cup Aged(resps)
      <4>1. PICK y \in reqs \cup resps : y.age < MaxAge /\ x = [y EXCEPT !.age = @ + 1]
        BY <3>4, AgedMember
      <4>2. y.age \in Ages /\ x.seq = y.seq /\ x.age = y.age + 1
        BY <4>1 DEF TypeOK, Request, Response
      <4>3. y.seq = Back(clk.sent, y.age + 1)
        BY DEF Numbered
      <4>4. y.age + 1 \in 1 .. MaxAge + 1 /\ y.age + 1 <= MaxAge
        BY <4>1, <4>2, SeqAssumption DEF Ages
      <4>5. Back(Increment(clk.sent), (y.age + 1) + 1) = Back(clk.sent, y.age + 1)
        BY <2>1, <4>4, BackIncrement
      <4> QED
        BY <3>2, <4>2, <4>3, <4>5
    <3> QED
      BY <3>1, <3>3, <3>4
  <2> QED
    BY <2>2, <2>3
<1>2. ASSUME NEW r \in resps, NEW duplicate \in BOOLEAN, HandleDelayResp(r, duplicate) PROVE Numbered'
  BY <1>2 DEF HandleDelayResp, Numbered
<1>3. CASE Expire
  BY <1>3 DEF Expire, Numbered, TypeOK, Clock
<1>4. ASSUME NEW to, EnterState(to) PROVE Numbered'
  <2>1. clk'.sent = clk.sent
    BY <1>4 DEF EnterState, InitClock, TypeOK, Clock
  <2> QED
    BY <1>4, <2>1 DEF EnterState, Numbered
<1>5. ASSUME NEW m \in Masters, ChangeMaster(m) PROVE Numbered'
  <2>1. clk'.sent = clk.sent
    BY <1>5 DEF ChangeMaster, TypeOK, Clock
  <2> QED
    BY <1>5, <2>1 DEF ChangeMaster, Numbered
<1>6. ASSUME NEW m \in Masters, NEW q \in reqs, Answer(m, q) PROVE Numbered'
  BY <1>6 DEF Answer, Numbered
<1>9. ASSUME NEW m \in Masters, NEW q \in reqs, AnswerOther(m, q) PROVE Numbered'
  BY <1>9 DEF AnswerOther, Numbered
<1>7. CASE Lose
  BY <1>7 DEF Lose, Numbered
<1>8. CASE UNCHANGED vars
  BY <1>8 DEF vars, Numbered
<1> QED
  BY <1>1, <1>2, <1>3, <1>4, <1>5, <1>6, <1>7, <1>8, <1>9 DEF Next

\* Where the clock's transmit stamps are all valid, a path delay is computed from the
\* two stamps of one exchange, and of the latest one.
THEOREM ExchangesPaired == ASSUME TxStamps = {TRUE} PROVE Spec => []ExchangePaired
<1> DEFINE Inv == Numbered /\ Stamped /\ ExchangePaired
<1>1. Init => Inv
  BY DEF Init, Numbered, Stamped, ExchangePaired, NoDelay
<1>2. TypeOK /\ Inv /\ [Next]_vars => Inv'
  <2> SUFFICES ASSUME TypeOK, Numbered, Stamped, ExchangePaired, [Next]_vars
               PROVE  Stamped' /\ ExchangePaired'
    BY NumberedStep
  <2>1. ASSUME NEW offset, NEW valid \in TxStamps, HandleSync(offset, valid)
        PROVE  Stamped' /\ ExchangePaired'
    <3> DEFINE c == Synchronize(clk, offset)
               due == c.portState = "SLAVE" /\ c.expired
    <3>1. c \in Clock /\ c.send = clk.send /\ delay' = delay
      BY <2>1, SynchronizeType DEF TypeOK, HandleSync
    <3>2. due => clk'.send = 0
      BY <2>1, <3>1 DEF HandleSync, IssueDelayReq, Clock
    <3>3. ~due => clk' = c /\ reqs' = reqs /\ resps' = resps
      BY <2>1 DEF HandleSync
    <3> QED
      BY <3>1, <3>2, <3>3 DEF Stamped, ExchangePaired
  <2>2. ASSUME NEW r \in resps, NEW duplicate \in BOOLEAN, HandleDelayResp(r, duplicate)
        PROVE  Stamped' /\ ExchangePaired'
    <3>1. Stamped'
      BY <2>2 DEF HandleDelayResp, Stamped
    <3>2. CASE Matches(clk, r) /\ clk.filtered
      <4>1. r.requesting = "self" /\ r.seq = clk.sent - 1 /\ r.seq = Back(clk.sent, r.age + 1)
        BY <3>2 DEF Matches, Numbered
      <4>2. r.age = 0
        BY <4>1, OnlyLatest DEF TypeOK, Response, Clock
      <4>3. clk.send = 0
        BY DEF Stamped
      <4> QED
        BY <2>2, <3>1, <3>2, <4>1, <4>2, <4>3 DEF HandleDelayResp, UpdateDelay, ExchangePaired
    <3>3. CASE ~(Matches(clk, r) /\ clk.filtered)
      <4>1. delay' = delay
        BY <2>2, <3>3 DEF HandleDelayResp, UpdateDelay
      <4> QED
        BY <3>1, <4>1 DEF ExchangePaired
    <3> QED
      BY <3>2, <3>3
  <2>3. CASE Expire
    BY <2>3 DEF Expire, Stamped, ExchangePaired, TypeOK, Clock
  <2>4. ASSUME NEW to, EnterState(to) PROVE Stamped' /\ ExchangePaired'
    <3>1. clk'.send = clk.send
      BY <2>4 DEF EnterState, InitClock, TypeOK, Clock
    <3> QED
      BY <2>4, <3>1 DEF EnterState, Stamped, ExchangePaired
  <2>5. ASSUME NEW m \in Masters, ChangeMaster(m) PROVE Stamped' /\ ExchangePaired'
    <3>1. clk'.send = clk.send
      BY <2>5 DEF ChangeMaster, TypeOK, Clock
    <3> QED
      BY <2>5, <3>1 DEF ChangeMaster, Stamped, ExchangePaired
  <2>6. ASSUME NEW m \in Masters, NEW q \in reqs, Answer(m, q) PROVE Stamped' /\ ExchangePaired'
    BY <2>6 DEF Answer, Stamped, ExchangePaired
  <2>9. ASSUME NEW m \in Masters, NEW q \in reqs, AnswerOther(m, q) PROVE Stamped' /\ ExchangePaired'
    BY <2>9 DEF AnswerOther, Stamped, ExchangePaired
  <2>7. CASE Lose
    BY <2>7 DEF Lose, Stamped, ExchangePaired
  <2>8. CASE UNCHANGED vars
    BY <2>8 DEF vars, Stamped, ExchangePaired
  <2> QED
    BY <2>1, <2>2, <2>3, <2>4, <2>5, <2>6, <2>7, <2>8, <2>9 DEF Next
<1> QED
  BY <1>1, <1>2, TypeCorrect, PTL DEF Spec

\* Of the parent's timely answers, handleDelayResp throws away at most those to the one
\* request in a turn of the counter that was numbered INT16_MAX.
THEOREM MissedAtWrap == Spec => []MissedOnlyAtWrap
<1>1. Init => MissedOnlyAtWrap
  BY DEF Init, MissedOnlyAtWrap
<1>2. TypeOK /\ Numbered /\ MissedOnlyAtWrap /\ [Next]_vars => MissedOnlyAtWrap'
  <2> SUFFICES ASSUME TypeOK, Numbered, MissedOnlyAtWrap, [Next]_vars PROVE MissedOnlyAtWrap'
    OBVIOUS
  <2> USE DEF MissedOnlyAtWrap
  <2>1. ASSUME NEW r \in resps, NEW duplicate \in BOOLEAN, HandleDelayResp(r, duplicate)
        PROVE  MissedOnlyAtWrap'
    <3> SUFFICES ASSUME hist'.missed PROVE clk'.sent = -SeqMax - 1
      OBVIOUS
    <3>1. /\ clk' = clk /\ ~Matches(clk, r) /\ clk.portState \in Synchronizing
          /\ r.from = clk.parent /\ r.requesting = "self" /\ r.age = 0
      BY <2>1 DEF HandleDelayResp, TypeOK, History
    <3>2. r.seq # clk.sent - 1
      BY <3>1 DEF Matches
    <3>3. r.seq = Back(clk.sent, 1)
      BY <3>1 DEF Numbered
    <3>4. clk.sent \in SeqIds
      BY DEF TypeOK, Clock
    <3> QED
      BY <3>1, <3>2, <3>3, <3>4, SeqAssumption DEF Back, SeqIds
  <2>2. ASSUME NEW offset, NEW valid, HandleSync(offset, valid) PROVE MissedOnlyAtWrap'
    BY <2>2 DEF HandleSync, TypeOK, History
  <2>3. CASE Expire
    BY <2>3 DEF Expire, TypeOK, History
  <2>4. ASSUME NEW to, EnterState(to) PROVE MissedOnlyAtWrap'
    BY <2>4 DEF EnterState, TypeOK, History
  <2>5. ASSUME NEW m, ChangeMaster(m) PROVE MissedOnlyAtWrap'
    BY <2>5 DEF ChangeMaster, TypeOK, History
  <2>6. ASSUME NEW m, NEW q, Answer(m, q) \/ AnswerOther(m, q) PROVE MissedOnlyAtWrap'
    BY <2>6 DEF Answer, AnswerOther, TypeOK, History
  <2>7. CASE Lose
    BY <2>7 DEF Lose, TypeOK, History
  <2>8. CASE UNCHANGED vars
    BY <2>8 DEF vars
  <2> QED
    BY <2>1, <2>2, <2>3, <2>4, <2>5, <2>6, <2>7, <2>8 DEF Next
<1>3. Init => Numbered
  BY DEF Init, Numbered
<1> QED
  BY <1>1, <1>2, <1>3, NumberedStep, TypeCorrect, PTL DEF Spec

\* A path delay never uses the zero Tms of initClock, and once the present parent was
\* heard both of its directions are measured to one master.
THEOREM MastersPaired == Spec => [](DelayHasTms /\ SettledDelay)
<1> DEFINE Inv == TmsKnown /\ DelayHasTms /\ SettledDelay
<1>1. Init => Inv
  <2> SUFFICES ASSUME Init PROVE Inv
    OBVIOUS
  <2>1. clk.filtered = FALSE /\ hist.synced = FALSE /\ hist.settled = FALSE
    BY DEF Init
  <2>2. delay.receive = NoStamp
    BY DEF Init, NoDelay
  <2> QED
    BY <2>1, <2>2 DEF TmsKnown, DelayHasTms, SettledDelay
<1>2. TypeOK /\ Inv /\ [Next]_vars => Inv'
  <2> SUFFICES ASSUME TypeOK, Inv, [Next]_vars PROVE Inv'
    OBVIOUS
  <2>1. ASSUME NEW offset, NEW valid \in TxStamps, HandleSync(offset, valid) PROVE Inv'
    <3> DEFINE c == Synchronize(clk, offset)
    <3>1. /\ c \in Clock /\ c.parent = clk.parent
          /\ c.filtered => c.tms = clk.parent
      BY SynchronizeType DEF TypeOK, TmsKnown
    <3>2. clk'.filtered = c.filtered /\ clk'.tms = c.tms /\ clk'.parent = c.parent
      BY <2>1, <3>1 DEF HandleSync, IssueDelayReq, Clock
    <3>3. hist'.synced = c.filtered /\ hist'.settled = hist.settled /\ delay' = delay
      BY <2>1 DEF HandleSync, TypeOK, History
    <3>4. clk.parent # NoMaster
      BY MastersAssumption DEF TypeOK, Clock
    <3> QED
      BY <3>1, <3>2, <3>3, <3>4 DEF TmsKnown, DelayHasTms, SettledDelay
  <2>2. ASSUME NEW r \in resps, NEW duplicate \in BOOLEAN, HandleDelayResp(r, duplicate) PROVE Inv'
    <3>1. clk' = clk /\ hist'.synced = hist.synced
      BY <2>2 DEF HandleDelayResp, TypeOK, History
    <3>2. CASE Matches(clk, r) /\ clk.filtered
      <4>1. delay' = UpdateDelay(clk, r) /\ hist'.settled = hist.synced /\ r.from = clk.parent
        BY <2>2, <3>2 DEF HandleDelayResp, TypeOK, History, Matches
      <4> QED
        BY <3>1, <3>2, <4>1 DEF UpdateDelay, TmsKnown, DelayHasTms, SettledDelay
    <3>3. CASE ~(Matches(clk, r) /\ clk.filtered)
      <4>1. delay' = delay /\ hist'.settled = hist.settled
        BY <2>2, <3>3 DEF HandleDelayResp, UpdateDelay, TypeOK, History
      <4> QED
        BY <3>1, <4>1 DEF TmsKnown, DelayHasTms, SettledDelay
    <3> QED
      BY <3>2, <3>3
  <2>3. CASE Expire
    BY <2>3 DEF Expire, TmsKnown, DelayHasTms, SettledDelay, TypeOK, Clock, History
  <2>4. ASSUME NEW to, EnterState(to) PROVE Inv'
    <3>1. CASE {clk.portState, to} \subseteq Synchronizing
      <4>1. /\ clk'.filtered = clk.filtered /\ clk'.tms = clk.tms /\ clk'.parent = clk.parent
            /\ hist'.synced => hist.synced
            /\ hist'.settled = hist.settled /\ delay' = delay
        BY <2>4, <3>1 DEF EnterState, TypeOK, Clock, History
      <4> QED
        BY <4>1 DEF TmsKnown, DelayHasTms, SettledDelay
    <3>2. CASE ~({clk.portState, to} \subseteq Synchronizing)
      <4>1. ~clk'.filtered /\ ~hist'.synced /\ hist'.settled = hist.settled /\ delay' = delay
        BY <2>4, <3>2 DEF EnterState, InitClock, TypeOK, Clock, History
      <4> QED
        BY <4>1 DEF TmsKnown, DelayHasTms, SettledDelay
    <3> QED
      BY <3>1, <3>2
  <2>5. ASSUME NEW m \in Masters, ChangeMaster(m) PROVE Inv'
    BY <2>5 DEF ChangeMaster, TmsKnown, DelayHasTms, SettledDelay, TypeOK, Clock, History
  <2>6. ASSUME NEW m \in Masters, NEW q \in reqs, Answer(m, q) PROVE Inv'
    BY <2>6 DEF Answer, TmsKnown, DelayHasTms, SettledDelay, TypeOK, History
  <2>9. ASSUME NEW m \in Masters, NEW q \in reqs, AnswerOther(m, q) PROVE Inv'
    BY <2>9 DEF AnswerOther, TmsKnown, DelayHasTms, SettledDelay, TypeOK, History
  <2>7. CASE Lose
    BY <2>7 DEF Lose, TmsKnown, DelayHasTms, SettledDelay, TypeOK, History
  <2>8. CASE UNCHANGED vars
    BY <2>8 DEF vars, TmsKnown, DelayHasTms, SettledDelay
  <2> QED
    BY <2>1, <2>2, <2>3, <2>4, <2>5, <2>6, <2>7, <2>8, <2>9 DEF Next
<1> QED
  BY <1>1, <1>2, TypeCorrect, PTL DEF Spec

-----------------------------------------------------------------------------
(* Reading and setting the clock (PtpTime).                                *)

Moment == [sec : 0 .. MaxSec, sub : 0 .. G - 1]

Labels == {"idle", "first", "second", "got", "high", "low", "init", "wait"}

RegisterTypes ==
  /\ now \in Moment /\ update \in Moment /\ tssti \in BOOLEAN
  /\ pc \in [Registers!Tasks -> Labels]
  /\ val \in [Registers!Tasks -> Moment]
  /\ began \in [Registers!Tasks -> Moment]
  /\ disturbed \in [Registers!Tasks -> BOOLEAN]

\* An undisturbed getTime: the low half that it has read, with the high half that the
\* counter has now, is not before the moment of the call.
Reading(t) ==
  ~disturbed[t] =>
    /\ pc[t] = "first" => Registers!Instant(began[t]) <= Registers!Instant(now)
    /\ pc[t] = "second" => Registers!Instant(began[t]) <= now.sec * G + val[t].sub
    /\ pc[t] = "got" => /\ Registers!Instant(began[t]) <= Registers!Instant(val[t])
                        /\ Registers!Instant(val[t]) < Registers!Instant(now) + G

\* An undisturbed setTime: what it has written is in the update registers, until they are
\* loaded.
Setting(t) ==
  ~disturbed[t] =>
    /\ pc[t] = "low" => update.sec = val[t].sec
    /\ pc[t] = "init" => update = val[t]
    /\ pc[t] = "wait" => /\ tssti => update = val[t]
                         /\ ~tssti => Registers!Instant(now) >= Registers!Instant(val[t])

RegistersInv ==
  /\ RegisterTypes
  /\ \A t \in Registers!Tasks : Reading(t) /\ Setting(t)
  /\ Registers!NoLateLoad

\* A moment as a number of subseconds.
LEMMA InstantNat ==
  ASSUME NEW m \in Moment
  PROVE  /\ m.sec \in Nat /\ m.sub \in Nat /\ m.sub < G
         /\ m.sec * G \in Nat
         /\ Registers!Instant(m) \in Nat
         /\ Registers!Instant(m) = m.sec * G + m.sub
  <1>1. m.sec \in Nat /\ m.sub \in Nat /\ m.sub < G /\ G \in Nat
    BY TimeAssumption DEF Registers!TimeAssumption, Moment
  <1>2. m.sec * G \in Nat
    BY <1>1
  <1> QED
    BY <1>1, <1>2 DEF Registers!Instant

\* A tick moves the counter on by one, through the end of a second too.
LEMMA TickMoves ==
  ASSUME now \in Moment, Registers!Tick
  PROVE  /\ now' \in Moment
         /\ Registers!Instant(now') = Registers!Instant(now) + 1
         /\ now.sec * G <= now'.sec * G
  <1>1. now.sec \in Nat /\ now.sub \in Nat /\ G \in Nat /\ MaxSec \in Nat /\ G > 1
    BY TimeAssumption DEF Registers!TimeAssumption, Moment
  <1>2. CASE now.sub = G - 1
    <2>1. now' = [sec |-> now.sec + 1, sub |-> 0] /\ now.sec < MaxSec
      BY <1>2 DEF Registers!Tick
    <2>2. now' \in Moment
      BY <1>1, <2>1 DEF Moment
    <2>3. (now.sec + 1) * G = now.sec * G + G
      BY <1>1
    <2>4. now.sec * G \in Nat
      BY <1>1
    <2> QED
      BY <1>1, <1>2, <2>1, <2>2, <2>3, <2>4 DEF Registers!Instant
  <1>3. CASE now.sub # G - 1
    <2>1. now' = [now EXCEPT !.sub = now.sub + 1]
      BY <1>3 DEF Registers!Tick
    <2>2. now' \in Moment /\ now'.sec = now.sec /\ now'.sub = now.sub + 1
      BY <1>1, <1>3, <2>1 DEF Moment
    <2>3. now.sec * G \in Nat
      BY <1>1
    <2> QED
      BY <1>1, <2>2, <2>3 DEF Registers!Instant
  <1> QED
    BY <1>2, <1>3

\* The registers at the start.
LEMMA RegistersInit == Registers!Init => RegistersInv
  <1> SUFFICES ASSUME Registers!Init PROVE RegistersInv
    OBVIOUS
  <1>1. [sec |-> 0, sub |-> 0] \in Moment
    BY TimeAssumption DEF Registers!TimeAssumption, Moment
  <1>2. RegisterTypes
    BY <1>1 DEF Registers!Init, Registers!Zero, RegisterTypes, Labels
  <1> QED
    BY <1>2 DEF Registers!Init, RegistersInv, Reading, Setting, Registers!NoLateLoad

\* Every access keeps the registers and the variables of the tasks in their ranges.
LEMMA RegisterTypesStep ==
  ASSUME RegisterTypes, Registers!Next
  PROVE  RegisterTypes'
  <1>0. Registers!Zero \in Moment /\ Settings \subseteq Moment
    BY TimeAssumption DEF Registers!TimeAssumption, Moment, Registers!Zero
  <1> USE DEF RegisterTypes, Registers!Goto, Labels
  <1>1. CASE Registers!Load
    BY <1>1 DEF Registers!Load
  <1>2. CASE Registers!Tick
    <2>1. now' \in Moment
      BY <1>2, TickMoves
    <2> QED
      BY <1>2, <2>1 DEF Registers!Tick
  <1>3. ASSUME NEW t \in Registers!Tasks, NEW v \in Moment, NEW l \in Labels, Registers!Begin(t, v, l)
        PROVE  RegisterTypes'
    BY <1>3 DEF Registers!Begin
  <1>4. ASSUME NEW t \in Registers!Tasks, Registers!Return(t) PROVE RegisterTypes'
    BY <1>0, <1>4 DEF Registers!Return
  <1>5. ASSUME NEW t \in Registers!Tasks, Registers!ReadLow(t) \/ Registers!ReadHigh(t) PROVE RegisterTypes'
    <2>1. [val[t] EXCEPT !.sub = now.sub] \in Moment /\ [val[t] EXCEPT !.sec = now.sec] \in Moment
      BY DEF Moment
    <2>2. val' = [val EXCEPT ![t] = [val[t] EXCEPT !.sub = now.sub]] \/
            val' = [val EXCEPT ![t] = [val[t] EXCEPT !.sec = now.sec]]
      BY <1>5 DEF Registers!ReadLow, Registers!ReadHigh, Registers!Half
    <2> QED
      BY <1>5, <2>1, <2>2 DEF Registers!ReadLow, Registers!ReadHigh
  <1>6. ASSUME NEW t \in Registers!Tasks,
               Registers!WriteHigh(t) \/ Registers!WriteLow(t) \/ Registers!SetTssti(t)
        PROVE  RegisterTypes'
    <2>1. [update EXCEPT !.sub = val[t].sub] \in Moment /\ [update EXCEPT !.sec = val[t].sec] \in Moment
      BY DEF Moment
    <2>2. disturbed' \in [Registers!Tasks -> BOOLEAN]
      BY <1>6 DEF Registers!WriteHigh, Registers!WriteLow, Registers!SetTssti, Registers!Disturb
    <2>3. update' \in Moment
      BY <1>6, <2>1 DEF Registers!WriteHigh, Registers!WriteLow, Registers!SetTssti, Registers!LowWritten
    <2> QED
      BY <1>6, <2>2, <2>3 DEF Registers!WriteHigh, Registers!WriteLow, Registers!SetTssti
  <1> QED
    BY <1>0, <1>1, <1>2, <1>3, <1>4, <1>5, <1>6
    DEF Registers!Next, Registers!Get, Registers!Set, Registers!GetTime, Registers!Got, Registers!SetTime,
        Registers!AwaitTssti

\* The invariant is inductive.
LEMMA RegistersStep ==
  ASSUME RegistersInv, [Registers!Next]_timeVars
  PROVE  RegistersInv'
  <1> USE DEF RegistersInv
  <1>0. CASE UNCHANGED timeVars
    BY <1>0 DEF timeVars, RegisterTypes, Reading, Setting, Registers!NoLateLoad
  <1> SUFFICES ASSUME Registers!Next PROVE RegistersInv'
    BY <1>0
  <1>1. RegisterTypes'
    BY RegisterTypesStep
  <1>2. Registers!NoLateLoad'
    BY DEF Registers!Next, Registers!Get, Registers!Set, Registers!GetTime, Registers!Got, Registers!SetTime,
      Registers!AwaitTssti, Registers!Load, Registers!Tick, Registers!ReadLow, Registers!ReadHigh,
      Registers!WriteHigh, Registers!WriteLow, Registers!SetTssti, Registers!Begin, Registers!Return,
        Registers!Loaded,
      Registers!NoLateLoad, Registers!Goto, RegisterTypes
  <1> SUFFICES ASSUME NEW u \in Registers!Tasks, ~disturbed'[u] PROVE Reading(u)' /\ Setting(u)'
    BY <1>1, <1>2 DEF Reading, Setting
  <1> DEFINE I(m) == Registers!Instant(m)
  <1>t. /\ now \in Moment /\ update \in Moment /\ val[u] \in Moment /\ began[u] \in Moment
        /\ now' \in Moment /\ val'[u] \in Moment /\ began'[u] \in Moment /\ G \in Nat
    BY <1>1, TimeAssumption DEF RegisterTypes, Registers!TimeAssumption
  <1>i. /\ I(now) \in Nat /\ I(now') \in Nat /\ I(val[u]) \in Nat /\ I(began[u]) \in Nat
        /\ now.sec * G \in Nat /\ now'.sec * G \in Nat /\ val[u].sub \in Nat /\ val[u].sub < G
        /\ I(now) = now.sec * G + now.sub /\ now.sub \in Nat
    BY <1>t, InstantNat
  <1>3. CASE Registers!Load
    <2>1. UNCHANGED <<update, pc, val, began>> /\ now' = update /\ tssti /\ ~tssti'
      BY <1>3 DEF Registers!Load
    <2>2. ~disturbed[u] /\ pc[u] \notin {"first", "second", "got"}
      BY <1>3 DEF Registers!Load
    <2>3. Reading(u)'
      BY <2>1, <2>2 DEF Reading
    <2>4. Setting(u)'
      BY <2>1, <2>2, <1>i DEF Setting
    <2> QED
      BY <2>3, <2>4
  <1>4. CASE Registers!Tick
    <2>1. UNCHANGED <<update, tssti, pc, val, began, disturbed>>
      BY <1>4 DEF Registers!Tick
    <2>2. I(now') = I(now) + 1 /\ now.sec * G <= now'.sec * G
      BY <1>4, <1>t, TickMoves
    <2>3. Reading(u)
      OBVIOUS
    <2>4. Setting(u)
      OBVIOUS
    <2>5. Reading(u)'
      <3>1. /\ I(began[u]) <= I(now) => I(began[u]) <= I(now')
            /\ I(began[u]) <= now.sec * G + val[u].sub => I(began[u]) <= now'.sec * G + val[u].sub
            /\ I(val[u]) < I(now) + G => I(val[u]) < I(now') + G
        <4> HIDE DEF I
        <4> DEFINE a == now.sec * G
                   b == now'.sec * G
        <4>1. a \in Nat /\ b \in Nat /\ a <= b
          BY <2>2, <1>i
        <4> HIDE DEF a, b
        <4> QED
          BY <2>2, <4>1, <1>i, <1>t
      <3> QED
        BY <2>1, <2>3, <3>1, Zenon DEF Reading
    <2>6. Setting(u)'
      BY <2>1, <2>2, <2>4, <1>i DEF Setting
    <2> QED
      BY <2>5, <2>6
  <1>5. ASSUME NEW t \in Registers!Tasks, NEW v \in Moment, NEW l \in {"first", "high"},
               Registers!Begin(t, v, l)
        PROVE  Reading(u)' /\ Setting(u)'
    <2>1. UNCHANGED <<now, update, tssti>>
      BY <1>5 DEF Registers!Begin
    <2>2. CASE u = t
      <3>1. pc'[u] = l /\ began'[u] = now
        BY <1>5, <2>2 DEF Registers!Begin, Registers!Goto, RegisterTypes
      <3> QED
        BY <2>1, <3>1, <1>i DEF Reading, Setting
    <2>3. CASE u # t
      <3>1. pc'[u] = pc[u] /\ began'[u] = began[u] /\ val'[u] = val[u] /\ disturbed'[u] = disturbed[u]
        BY <1>5, <2>3 DEF Registers!Begin, Registers!Goto, RegisterTypes
      <3> QED
        BY <2>1, <3>1 DEF Reading, Setting
    <2> QED
      BY <2>2, <2>3
  <1>6. ASSUME NEW t \in Registers!Tasks, Registers!Return(t)
        PROVE  Reading(u)' /\ Setting(u)'
    <2>1. UNCHANGED <<now, update, tssti>>
      BY <1>6 DEF Registers!Return
    <2>2. CASE u = t
      <3>1. pc'[u] = "idle"
        BY <1>6, <2>2 DEF Registers!Return, Registers!Goto, RegisterTypes
      <3> QED
        BY <3>1 DEF Reading, Setting
    <2>3. CASE u # t
      <3>1. pc'[u] = pc[u] /\ began'[u] = began[u] /\ val'[u] = val[u] /\ disturbed'[u] = disturbed[u]
        BY <1>6, <2>3 DEF Registers!Return, Registers!Goto, RegisterTypes
      <3> QED
        BY <2>1, <3>1 DEF Reading, Setting
    <2> QED
      BY <2>2, <2>3
  <1>7. ASSUME NEW t \in Registers!Tasks, Registers!ReadLow(t) \/ Registers!ReadHigh(t)
        PROVE  Reading(u)' /\ Setting(u)'
    <2>1. UNCHANGED <<now, update, tssti, began, disturbed>>
      BY <1>7 DEF Registers!ReadLow, Registers!ReadHigh
    <2>2. CASE u # t
      <3>1. pc'[u] = pc[u] /\ val'[u] = val[u]
        BY <1>7, <2>2 DEF Registers!ReadLow, Registers!ReadHigh, Registers!Goto, RegisterTypes
      <3> QED
        BY <2>1, <3>1 DEF Reading, Setting
    <2>3. CASE u = t /\ Registers!ReadLow(t)
      <3>1. pc[u] = "first" /\ pc'[u] = "second"
        BY <2>3 DEF Registers!ReadLow, Registers!Goto, RegisterTypes
      <3>2. val' = [val EXCEPT ![t] = [val[t] EXCEPT !.sub = now.sub]]
        BY <2>3 DEF Registers!ReadLow, Registers!Half
      <3>3. val'[u].sub = now.sub
        BY <2>3, <3>2, <1>t DEF RegisterTypes, Moment
      <3> QED
        BY <2>1, <3>1, <3>3, <1>i DEF Reading, Setting
    <2>4. CASE u = t /\ Registers!ReadHigh(t)
      <3>1. pc[u] = "second" /\ pc'[u] = "got"
        BY <2>4 DEF Registers!ReadHigh, Registers!Goto, RegisterTypes
      <3>2. val' = [val EXCEPT ![t] = [val[t] EXCEPT !.sec = now.sec]]
        BY <2>4 DEF Registers!ReadHigh, Registers!Half
      <3>3. val'[u].sub = val[u].sub /\ val'[u].sec = now.sec
        BY <2>4, <3>2, <1>t DEF RegisterTypes, Moment
      <3>4. I(val'[u]) = now.sec * G + val[u].sub
        BY <3>3 DEF Registers!Instant
      <3>5. I(began[u]) <= now.sec * G + val[u].sub
        BY <2>1, <3>1 DEF Reading
      <3>6. I(val'[u]) < I(now) + G
        BY <3>4, <1>i, <1>t
      <3>7. I(began[u]) <= I(val'[u])
        BY <3>4, <3>5
      <3> QED
        BY <2>1, <3>1, <3>6, <3>7 DEF Reading, Setting
    <2> QED
      BY <1>7, <2>2, <2>3, <2>4
  <1>8. ASSUME NEW t \in Registers!Tasks,
               Registers!WriteHigh(t) \/ Registers!WriteLow(t) \/ Registers!SetTssti(t)
        PROVE  Reading(u)' /\ Setting(u)'
    <2>1. UNCHANGED <<now, val, began>> /\ Registers!Disturb(t)
      BY <1>8 DEF Registers!WriteHigh, Registers!WriteLow, Registers!SetTssti
    <2>2. ~disturbed[u] /\ (u = t \/ pc[u] = "idle")
      BY <2>1 DEF Registers!Disturb
    <2>3. CASE u # t
      <3>1. pc'[u] = "idle"
        BY <1>8, <2>2, <2>3 DEF Registers!WriteHigh, Registers!WriteLow, Registers!SetTssti,
           Registers!Goto, RegisterTypes
      <3> QED
        BY <3>1 DEF Reading, Setting
    <2>4. CASE u = t /\ Registers!WriteHigh(t)
      <3>1. pc'[u] = "low" /\ update' = [update EXCEPT !.sec = val[u].sec]
        BY <2>4 DEF Registers!WriteHigh, Registers!Goto, RegisterTypes
      <3>2. update'.sec = val'[u].sec
        BY <2>1, <3>1, <1>t DEF Moment
      <3> QED
        BY <3>1, <3>2 DEF Reading, Setting
    <2>5. CASE u = t /\ Registers!WriteLow(t)
      <3>1. pc[u] = "low" /\ pc'[u] = "init" /\ update' = [update EXCEPT !.sub = val[u].sub]
        BY <2>5 DEF Registers!WriteLow, Registers!LowWritten, Registers!Goto, RegisterTypes
      <3>2. update.sec = val[u].sec
        BY <2>2, <3>1 DEF Setting
      <3>3. update' = val[u]
        BY <3>1, <3>2, <1>t DEF Moment
      <3> QED
        BY <2>1, <3>1, <3>3 DEF Reading, Setting
    <2>6. CASE u = t /\ Registers!SetTssti(t)
      <3>1. pc[u] = "init" /\ pc'[u] = "wait" /\ tssti' /\ update' = update
        BY <2>6 DEF Registers!SetTssti, Registers!Goto, RegisterTypes
      <3> QED
        BY <2>1, <2>2, <3>1 DEF Reading, Setting
    <2> QED
      BY <1>8, <2>3, <2>4, <2>5, <2>6
  <1>9. Registers!Zero \in Moment /\ Settings \subseteq Moment
    BY TimeAssumption DEF Registers!TimeAssumption, Moment, Registers!Zero
  <1> QED
    BY <1>3, <1>4, <1>5, <1>6, <1>7, <1>8, <1>9
    DEF Registers!Next, Registers!Get, Registers!Set, Registers!GetTime, Registers!Got, Registers!SetTime,
        Registers!AwaitTssti

\* In the composition too, where the registers rest while another part runs.
LEMMA RegistersHold == ProtocolSpec => []RegistersInv
  <1>1. ProtocolInit => RegistersInv
    BY RegistersInit DEF ProtocolInit
  <1>2. RegistersInv /\ [ProtocolNext]_<<part, vars, peerVars, timerVars, timeVars>> => RegistersInv'
    <2> SUFFICES ASSUME RegistersInv, [ProtocolNext]_<<part, vars, peerVars, timerVars, timeVars>>
                 PROVE  RegistersInv'
      OBVIOUS
    <2>1. [Registers!Next]_timeVars
      BY DEF ProtocolNext
    <2> QED
      BY <2>1, RegistersStep
  <1> QED
    BY <1>1, <1>2, PTL DEF ProtocolSpec

\* For every number of subseconds in a second: an undisturbed getTime returns a time not
\* before its call and less than a second ahead of the counter, however long the task was
\* preempted between the two register reads.
THEOREM NeverBehind == ProtocolSpec => []ReadNotBehind
  <1>1. RegistersInv => ReadNotBehind
    BY DEF RegistersInv, Reading, ReadNotBehind, Registers!ReadNotBehind
  <1> QED
    BY RegistersHold, <1>1, PTL

\* For every set of times to set: an undisturbed setTime has set the clock to its argument,
\* and to no mixture of two arguments, when it returns, and no load is left to come.
THEOREM SetsExactly == ProtocolSpec => []SetExact
  <1>1. RegistersInv => SetExact
    BY DEF RegistersInv, Setting, SetExact, Registers!SetExact
  <1> QED
    BY RegistersHold, <1>1, PTL

-----------------------------------------------------------------------------
(* The peer delay, with a two-step peer and with one-step peers.           *)

PeersInv ==
  /\ part = "twoStep" => TwoStepProofs!PeerInv
  /\ part = "oneStep" => OneStepProofs!PeerInv

\* The two-step peer of MCProtocol and of the proofs instantiated above is one.
LEMMA TwoStepSame ==
  /\ TwoStepPeer!SeqAssumption /\ TwoStepPeer!TxStampsAssumption =>
       TwoStepProofs!SeqAssumption /\ TwoStepProofs!TxStampsAssumption
  /\ TwoStepPeer!Init => TwoStepProofs!Init
  /\ TwoStepPeer!Next => TwoStepProofs!Next
  /\ TwoStepProofs!TypeOK /\ TwoStepProofs!HalvesPaired /\ TwoStepProofs!AwaitedHasStamps =>
       TwoStepPeer!TypeOK /\ TwoStepPeer!HalvesPaired /\ TwoStepPeer!AwaitedHasStamps
  BY Zenon DEF
    TwoStepPeer!SeqIds, TwoStepPeer!Ages, TwoStepPeer!None, TwoStepPeer!StampAges, TwoStepPeer!NoPeer,
    TwoStepPeer!Stamp, TwoStepPeer!Cleared, TwoStepPeer!Measuring, TwoStepPeer!Requesting,
    TwoStepPeer!States, TwoStepPeer!Clock, TwoStepPeer!Request, TwoStepPeer!Message,
    TwoStepPeer!NoDelay, TwoStepPeer!Increment, TwoStepPeer!Older, TwoStepPeer!OlderStamp,
    TwoStepPeer!Aged, TwoStepPeer!InitClock, TwoStepPeer!IssuePDelayReq, TwoStepPeer!IsCurrent,
    TwoStepPeer!StampOf, TwoStepPeer!AwaitFollowUp, TwoStepPeer!OneStep, TwoStepPeer!TwoStep,
    TwoStepPeer!UpdatePeerDelay, TwoStepPeer!Init, TwoStepPeer!RequestDelay, TwoStepPeer!Consume,
    TwoStepPeer!HandlePDelayResp, TwoStepPeer!HandlePDelayRespFollowUp, TwoStepPeer!Expire,
    TwoStepPeer!EnterState, TwoStepPeer!ResetClock, TwoStepPeer!Answers, TwoStepPeer!HandlePDelayReq,
    TwoStepPeer!Delays, TwoStepPeer!Lose, TwoStepPeer!Next, TwoStepPeer!TypeOK, TwoStepPeer!HalvesPaired,
    TwoStepPeer!AwaitedHasStamps, TwoStepPeer!SeqAssumption, TwoStepPeer!TxStampsAssumption,
    TwoStepProofs!SeqIds, TwoStepProofs!Ages, TwoStepProofs!None, TwoStepProofs!StampAges,
    TwoStepProofs!NoPeer, TwoStepProofs!Stamp, TwoStepProofs!Cleared, TwoStepProofs!Measuring,
    TwoStepProofs!Requesting, TwoStepProofs!States, TwoStepProofs!Clock, TwoStepProofs!Request,
    TwoStepProofs!Message, TwoStepProofs!NoDelay, TwoStepProofs!Increment, TwoStepProofs!Older,
    TwoStepProofs!OlderStamp, TwoStepProofs!Aged, TwoStepProofs!InitClock, TwoStepProofs!IssuePDelayReq,
    TwoStepProofs!IsCurrent, TwoStepProofs!StampOf, TwoStepProofs!AwaitFollowUp, TwoStepProofs!OneStep,
    TwoStepProofs!TwoStep, TwoStepProofs!UpdatePeerDelay, TwoStepProofs!Init,
    TwoStepProofs!RequestDelay, TwoStepProofs!Consume, TwoStepProofs!HandlePDelayResp,
    TwoStepProofs!HandlePDelayRespFollowUp, TwoStepProofs!Expire, TwoStepProofs!EnterState,
    TwoStepProofs!ResetClock, TwoStepProofs!Answers, TwoStepProofs!HandlePDelayReq, TwoStepProofs!Delays,
    TwoStepProofs!Lose,
    TwoStepProofs!Next, TwoStepProofs!TypeOK, TwoStepProofs!HalvesPaired,
    TwoStepProofs!AwaitedHasStamps, TwoStepProofs!SeqAssumption, TwoStepProofs!TxStampsAssumption

\* So are the one-step peers; they start as the two-step peer does.
LEMMA OneStepSame ==
  /\ OneStepPeers!SeqAssumption /\ OneStepPeers!TxStampsAssumption =>
       OneStepProofs!SeqAssumption /\ OneStepProofs!TxStampsAssumption
  /\ TwoStepPeer!Init => OneStepProofs!Init
  /\ OneStepPeers!Next => OneStepProofs!Next
  /\ OneStepProofs!TypeOK /\ OneStepProofs!HalvesPaired /\ OneStepProofs!AwaitedHasStamps =>
       OneStepPeers!TypeOK /\ OneStepPeers!HalvesPaired /\ OneStepPeers!AwaitedHasStamps
  BY Zenon DEF
    TwoStepPeer!Init, TwoStepPeer!None, TwoStepPeer!NoPeer, TwoStepPeer!Cleared, TwoStepPeer!NoDelay,
    OneStepPeers!SeqIds, OneStepPeers!Ages, OneStepPeers!None, OneStepPeers!StampAges,
    OneStepPeers!NoPeer, OneStepPeers!Stamp, OneStepPeers!Cleared, OneStepPeers!Measuring,
    OneStepPeers!Requesting, OneStepPeers!States, OneStepPeers!Clock, OneStepPeers!Request,
    OneStepPeers!Message, OneStepPeers!NoDelay, OneStepPeers!Increment, OneStepPeers!Older,
    OneStepPeers!OlderStamp, OneStepPeers!Aged, OneStepPeers!InitClock, OneStepPeers!IssuePDelayReq,
    OneStepPeers!IsCurrent, OneStepPeers!StampOf, OneStepPeers!AwaitFollowUp, OneStepPeers!OneStep,
    OneStepPeers!TwoStep, OneStepPeers!UpdatePeerDelay, OneStepPeers!Init, OneStepPeers!RequestDelay,
    OneStepPeers!Consume, OneStepPeers!HandlePDelayResp, OneStepPeers!HandlePDelayRespFollowUp,
    OneStepPeers!Expire, OneStepPeers!EnterState, OneStepPeers!ResetClock, OneStepPeers!Answers,
    OneStepPeers!HandlePDelayReq, OneStepPeers!Delays,
    OneStepPeers!Lose, OneStepPeers!Next, OneStepPeers!TypeOK,
    OneStepPeers!HalvesPaired, OneStepPeers!AwaitedHasStamps, OneStepPeers!SeqAssumption,
    OneStepPeers!TxStampsAssumption,
    OneStepProofs!SeqIds, OneStepProofs!Ages, OneStepProofs!None, OneStepProofs!StampAges,
    OneStepProofs!NoPeer, OneStepProofs!Stamp, OneStepProofs!Cleared, OneStepProofs!Measuring,
    OneStepProofs!Requesting, OneStepProofs!States, OneStepProofs!Clock, OneStepProofs!Request,
    OneStepProofs!Message, OneStepProofs!NoDelay, OneStepProofs!Increment, OneStepProofs!Older,
    OneStepProofs!OlderStamp, OneStepProofs!Aged, OneStepProofs!InitClock, OneStepProofs!IssuePDelayReq,
    OneStepProofs!IsCurrent, OneStepProofs!StampOf, OneStepProofs!AwaitFollowUp, OneStepProofs!OneStep,
    OneStepProofs!TwoStep, OneStepProofs!UpdatePeerDelay, OneStepProofs!Init,
    OneStepProofs!RequestDelay, OneStepProofs!Consume, OneStepProofs!HandlePDelayResp,
    OneStepProofs!HandlePDelayRespFollowUp, OneStepProofs!Expire, OneStepProofs!EnterState,
    OneStepProofs!ResetClock, OneStepProofs!Answers, OneStepProofs!HandlePDelayReq, OneStepProofs!Delays,
    OneStepProofs!Lose,
    OneStepProofs!Next, OneStepProofs!TypeOK, OneStepProofs!HalvesPaired,
    OneStepProofs!AwaitedHasStamps, OneStepProofs!SeqAssumption, OneStepProofs!TxStampsAssumption

\* The invariants of the peer delay, in the composition.
LEMMA PeersHold == ProtocolSpec => []PeersInv
  <1>1. TwoStepProofs!PeerAssumptions /\ OneStepProofs!PeerAssumptions
    BY TwoStepSame, OneStepSame, TwoStepAssumption, OneStepAssumption
    DEF TwoStepProofs!PeerAssumptions, OneStepProofs!PeerAssumptions
  <1>2. ProtocolInit => PeersInv
    <2> SUFFICES ASSUME ProtocolInit PROVE PeersInv
      OBVIOUS
    <2>1. TwoStepProofs!Init /\ OneStepProofs!Init
      BY TwoStepSame, OneStepSame DEF ProtocolInit
    <2>2. TwoStepProofs!PeerInv
      BY <1>1, <2>1, TwoStepProofs!PeerInit
    <2>3. OneStepProofs!PeerInv
      BY <1>1, <2>1, OneStepProofs!PeerInit
    <2> QED
      BY <2>2, <2>3 DEF PeersInv
  <1>3. PeersInv /\ [ProtocolNext]_<<part, vars, peerVars, timerVars, timeVars>> => PeersInv'
    <2> SUFFICES ASSUME PeersInv, [ProtocolNext]_<<part, vars, peerVars, timerVars, timeVars>>
                 PROVE  PeersInv'
      OBVIOUS
    <2>1. part' = part
      BY DEF ProtocolNext
    <2>2. ASSUME part = "twoStep" PROVE TwoStepProofs!PeerInv'
      <3>1. TwoStepProofs!Next \/ UNCHANGED <<peer, preqs, pnet, pdelay, unfinished>>
        BY <2>2, TwoStepSame DEF ProtocolNext, peerVars
      <3>2. [TwoStepProofs!Next]_TwoStepProofs!vars
        BY <3>1 DEF TwoStepProofs!vars
      <3> QED
        BY <1>1, <2>2, <3>2, TwoStepProofs!PeerStep DEF PeersInv
    <2>3. ASSUME part = "oneStep" PROVE OneStepProofs!PeerInv'
      <3>1. OneStepProofs!Next \/ UNCHANGED <<peer, preqs, pnet, pdelay, unfinished>>
        BY <2>3, OneStepSame DEF ProtocolNext, peerVars
      <3>2. [OneStepProofs!Next]_OneStepProofs!vars
        BY <3>1 DEF OneStepProofs!vars
      <3> QED
        BY <1>1, <2>3, <3>2, OneStepProofs!PeerStep DEF PeersInv
    <2> QED
      BY <2>1, <2>2, <2>3 DEF PeersInv
  <1> QED
    BY <1>2, <1>3, PTL DEF ProtocolSpec

\* Every peer delay of the two-step and of the one-step peers is completed by an answer to
\* the latest request (handlePDelayResp, handlePDelayRespFollowUp), its t2 and t4 are of one
\* answer, and of one to that request unless the request was sent while a follow up was still
\* awaited: for every width of the counter.
THEOREM PeersPaired == ProtocolSpec => []PeerHalvesPaired
  <1>1. PeersInv => PeerHalvesPaired
    BY TwoStepSame, OneStepSame, TwoStepProofs!PeerInvPairs, OneStepProofs!PeerInvPairs
    DEF PeersInv, PeerHalvesPaired
  <1> QED
    BY PeersHold, <1>1, PTL

-----------------------------------------------------------------------------
(* The timers, in every role and, slave-only, across a restart.            *)

TimersInv ==
  /\ part = "timers" => TimerProofs!TimerInv
  /\ part = "timersAgain" => TimerAgainProofs!TimerInv

\* The timers of MCProtocol and of the proofs instantiated above are the same.
LEMMA TimerSame ==
  /\ Timer!ServiceAssumption => TimerProofs!ServiceAssumption
  /\ Timer!Init => TimerProofs!Init
  /\ Timer!Next => TimerProofs!Next
  /\ TimerProofs!TypeOK /\ TimerProofs!CommandsAgree =>
       Timer!TypeOK /\ Timer!CommandsAgree
  BY Zenon DEF
    Timer!Timers, Timer!Roles, Timer!Commands, Timer!DelayTimer, Timer!PeerDelayTimer, Timer!Init,
    Timer!Issue, Timer!TimerStart, Timer!TimerStop, Timer!Leave, Timer!Enter, Timer!ToState,
    Timer!HandleAnnounce, Timer!DelayTimerExpired, Timer!TimerExpired, Timer!Wait, Timer!Wake,
    Timer!Restart, Timer!Apply, Timer!Process, Timer!Expire, Timer!TimerCallback, Timer!Handles,
    Timer!Next, Timer!TypeOK, Timer!Processed, Timer!Settled, Timer!CommandsAgree, Timer!ToSet,
    Timer!ServiceAssumption,
    TimerProofs!Timers, TimerProofs!Roles, TimerProofs!Commands, TimerProofs!DelayTimer,
    TimerProofs!PeerDelayTimer, TimerProofs!Init, TimerProofs!Issue, TimerProofs!TimerStart,
    TimerProofs!TimerStop, TimerProofs!Leave, TimerProofs!Enter, TimerProofs!ToState,
    TimerProofs!HandleAnnounce, TimerProofs!DelayTimerExpired, TimerProofs!TimerExpired,
    TimerProofs!Wait, TimerProofs!Wake, TimerProofs!Restart, TimerProofs!Apply, TimerProofs!Process,
    TimerProofs!Expire, TimerProofs!TimerCallback, TimerProofs!Handles, TimerProofs!Next,
    TimerProofs!TypeOK, TimerProofs!Processed, TimerProofs!Settled, TimerProofs!CommandsAgree,
    TimerProofs!ToSet, TimerProofs!ServiceAssumption

\* So are those across a restart.
LEMMA TimerAgainSame ==
  /\ TimerAgain!ServiceAssumption => TimerAgainProofs!ServiceAssumption
  /\ Timer!Init => TimerAgainProofs!Init
  /\ TimerAgain!Next => TimerAgainProofs!Next
  /\ TimerAgainProofs!TypeOK /\ TimerAgainProofs!CommandsAgree =>
       TimerAgain!TypeOK /\ TimerAgain!CommandsAgree
  BY Zenon DEF
    Timer!Init,
    TimerAgain!Timers, TimerAgain!Roles, TimerAgain!Commands, TimerAgain!DelayTimer,
    TimerAgain!PeerDelayTimer, TimerAgain!Init, TimerAgain!Issue, TimerAgain!TimerStart,
    TimerAgain!TimerStop, TimerAgain!Leave, TimerAgain!Enter, TimerAgain!ToState,
    TimerAgain!HandleAnnounce, TimerAgain!DelayTimerExpired, TimerAgain!TimerExpired, TimerAgain!Wait,
    TimerAgain!Wake, TimerAgain!Restart, TimerAgain!Apply, TimerAgain!Process, TimerAgain!Expire,
    TimerAgain!TimerCallback, TimerAgain!Handles, TimerAgain!Next, TimerAgain!TypeOK,
    TimerAgain!Processed, TimerAgain!Settled, TimerAgain!CommandsAgree, TimerAgain!ToSet,
    TimerAgain!ServiceAssumption,
    TimerAgainProofs!Timers, TimerAgainProofs!Roles, TimerAgainProofs!Commands,
    TimerAgainProofs!DelayTimer, TimerAgainProofs!PeerDelayTimer, TimerAgainProofs!Init,
    TimerAgainProofs!Issue, TimerAgainProofs!TimerStart, TimerAgainProofs!TimerStop,
    TimerAgainProofs!Leave, TimerAgainProofs!Enter, TimerAgainProofs!ToState,
    TimerAgainProofs!HandleAnnounce, TimerAgainProofs!DelayTimerExpired, TimerAgainProofs!TimerExpired,
    TimerAgainProofs!Wait, TimerAgainProofs!Wake, TimerAgainProofs!Restart, TimerAgainProofs!Apply,
    TimerAgainProofs!Process, TimerAgainProofs!Expire, TimerAgainProofs!TimerCallback,
    TimerAgainProofs!Handles, TimerAgainProofs!Next, TimerAgainProofs!TypeOK,
    TimerAgainProofs!Processed, TimerAgainProofs!Settled, TimerAgainProofs!CommandsAgree,
    TimerAgainProofs!ToSet, TimerAgainProofs!ServiceAssumption

\* The invariants of the timers, in the composition.
LEMMA TimersHold == ProtocolSpec => []TimersInv
  <1>1. TimerProofs!ServiceAssumption /\ TimerAgainProofs!ServiceAssumption
    BY TimerSame, TimerAgainSame, TimersAssumption
  <1>2. ProtocolInit => TimersInv
    <2> SUFFICES ASSUME ProtocolInit PROVE TimersInv
      OBVIOUS
    <2>1. TimerProofs!Init /\ TimerAgainProofs!Init
      BY TimerSame, TimerAgainSame DEF ProtocolInit
    <2>2. TimerProofs!TimerInv
      BY <1>1, <2>1, TimerProofs!TimerInit
    <2>3. TimerAgainProofs!TimerInv
      BY <1>1, <2>1, TimerAgainProofs!TimerInit
    <2> QED
      BY <2>2, <2>3 DEF TimersInv
  <1>3. TimersInv /\ [ProtocolNext]_<<part, vars, peerVars, timerVars, timeVars>> => TimersInv'
    <2> SUFFICES ASSUME TimersInv, [ProtocolNext]_<<part, vars, peerVars, timerVars, timeVars>>
                 PROVE  TimersInv'
      OBVIOUS
    <2>1. part' = part
      BY DEF ProtocolNext
    <2>2. ASSUME part = "timers" PROVE TimerProofs!TimerInv'
      <3>1. TimerProofs!Next \/ UNCHANGED <<role, waiting, starts, expired, queue, active, firing, lost>>
        BY <2>2, TimerSame DEF ProtocolNext, timerVars
      <3>2. [TimerProofs!Next]_TimerProofs!vars
        BY <3>1 DEF TimerProofs!vars
      <3> QED
        BY <1>1, <2>2, <3>2, TimerProofs!TimerStep DEF TimersInv
    <2>3. ASSUME part = "timersAgain" PROVE TimerAgainProofs!TimerInv'
      <3>1. TimerAgainProofs!Next \/ UNCHANGED <<role, waiting, starts, expired, queue, active, firing, lost>>
        BY <2>3, TimerAgainSame DEF ProtocolNext, timerVars
      <3>2. [TimerAgainProofs!Next]_TimerAgainProofs!vars
        BY <3>1 DEF TimerAgainProofs!vars
      <3> QED
        BY <1>1, <2>3, <3>2, TimerAgainProofs!TimerStep DEF TimersInv
    <2> QED
      BY <2>1, <2>2, <2>3 DEF TimersInv
  <1> QED
    BY <1>2, <1>3, PTL DEF ProtocolSpec

\* But for the timers whose last command found the service's queue full, the timers of the
\* port's state are those that run once the service has caught up (timerStart, timerStop),
\* in every role and across a restart.
THEOREM CommandsSettle == ProtocolSpec => []TimerCommandsAgree
  <1>1. TimersInv => TimerCommandsAgree
    BY TimerSame, TimerAgainSame
    DEF TimersInv, TimerCommandsAgree, TimerProofs!TimerInv, TimerAgainProofs!TimerInv
  <1> QED
    BY TimersHold, <1>1, PTL

-----------------------------------------------------------------------------
(* The end-to-end delay in the composition.                                *)

\* What the theorems above say of DelayE2E by itself holds of it as a part: where the
\* transmit stamps are valid, a path delay has the stamps of the latest exchange, its
\* directions are measured to one master once the parent was heard, and of the parent's
\* timely answers only those at the wrap of the counter are thrown away.
THEOREM DelaysHold ==
  ASSUME TxStamps = {TRUE}
  PROVE  ProtocolSpec => [](ExchangePaired /\ SettledDelay /\ MissedOnlyAtWrap)
  <1>1. ProtocolInit => Init
    BY DEF ProtocolInit
  <1>2. [ProtocolNext]_<<part, vars, peerVars, timerVars, timeVars>> => [Next]_vars
    BY DEF ProtocolNext
  <1>3. ProtocolSpec => Spec
    BY <1>1, <1>2, PTL DEF ProtocolSpec, Spec
  <1> QED
    BY <1>3, ExchangesPaired, MastersPaired, MissedAtWrap, PTL
=============================================================================
