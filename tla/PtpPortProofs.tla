--------------------------- MODULE PtpPortProofs ----------------------------
(***************************************************************************)
(* TLAPS proofs about PtpPort, for every set of messages, every table size *)
(* and every configuration of the clock.                                   *)
(*                                                                         *)
(* Each operator from struct to struct gets a lemma; an action is then one *)
(* application of the lemma of the operator it is built from.              *)
(***************************************************************************)
EXTENDS PtpPort, FiniteSetTheorems, WellFoundedInduction, TLAPS

-----------------------------------------------------------------------------
(* Type correctness.                                                       *)

LEMMA ConstantTypes ==
  /\ OwnPort \in PortIdentity /\ OwnParent \in PortIdentity /\ <<0, 0>> \in PortIdentity
  /\ D0 \in Announce /\ ZeroRecord \in Announce
  /\ DelayTimer \in Timers /\ PeerDelayTimer \subseteq Timers
BY OwnAssumption
DEF OwnPort, OwnParent, PortIdentity, D0, ZeroRecord, Announce, Quality, DelayTimer, PeerDelayTimer, Timers

LEMMA TimerTypes ==
  ASSUME NEW c \in PtpClock, NEW T \in SUBSET Timers
  PROVE  TimerStart(c, T) \in PtpClock /\ TimerStop(c, T) \in PtpClock /\ InitClock(c) \in PtpClock
BY DEF TimerStart, TimerStop, InitClock, PtpClock

LEMMA ToStateType ==
  ASSUME NEW c \in PtpClock, NEW to \in States
  PROVE  ToState(c, to) \in PtpClock
<1>1. Leave(c, to) \in PtpClock
  BY TimerTypes, ConstantTypes DEF Leave, Timers
<1>2. StartedBy(to) \in SUBSET Timers
  BY ConstantTypes DEF StartedBy, Timers
<1>3. TimerStart(Leave(c, to), StartedBy(to)) \in PtpClock
  BY <1>1, <1>2, TimerTypes
<1> QED BY <1>3 DEF ToState, PtpClock

LEMMA DataSetTypes ==
  ASSUME NEW c \in PtpClock, NEW a \in Announce
  PROVE  M1(c) \in PtpClock /\ S1(c, a) \in PtpClock
BY ConstantTypes DEF M1, S1, PtpClock, Announce, Events

LEMMA AddForeignType ==
  ASSUME NEW c \in PtpClock, NEW a \in Announce
  PROVE  AddForeign(c, a) \in PtpClock
<1>1. (c.i + 1) % Capacity \in Slot
  BY CapacityAssumption DEF PtpClock, Slot
<1>2. (IF c.count < Capacity THEN c.count + 1 ELSE c.count) \in 0 .. Capacity
  BY CapacityAssumption DEF PtpClock
<1> QED BY <1>1, <1>2 DEF AddForeign, PtpClock

LEMMA FollowType ==
  ASSUME NEW c \in PtpClock
  PROVE  Follow(c) \in PtpClock
<1>1. \A d \in PtpClock, e \in Events : Clear(d, e) \in PtpClock
  BY DEF Clear, PtpClock
<1>2. \A d \in PtpClock, to \in States : ToState(d, to) \in PtpClock
  BY ToStateType
<1>3. FollowSlave(c) \in PtpClock
  <2>1. CASE c.portState = "UNCALIBRATED"
    BY <2>1, <1>1, <1>2 DEF FollowSlave, Events, States
  <2>2. CASE c.portState = "SLAVE"
    <3> DEFINE d == IF "SYNCHRONIZATION_FAULT" \in c.events
                    THEN ToState(Clear(c, "SYNCHRONIZATION_FAULT"), "UNCALIBRATED") ELSE c
    <3>1. d \in PtpClock
      BY <1>1, <1>2 DEF Events, States
    <3> HIDE DEF d
    <3>2. (IF "MASTER_CLOCK_CHANGED" \in d.events
           THEN ToState(Clear(d, "MASTER_CLOCK_CHANGED"), "UNCALIBRATED") ELSE d) \in PtpClock
      BY <3>1, <1>1, <1>2 DEF Events, States
    <3> QED BY <2>2, <3>2 DEF FollowSlave, d
  <2>3. CASE c.portState \notin Synchronizing
    BY <2>3, <1>2 DEF FollowSlave, States, Synchronizing
  <2> QED BY <2>1, <2>2, <2>3 DEF Synchronizing
<1>4. c.recommendedState \in States
  BY DEF PtpClock
<1> QED BY <1>2, <1>3, <1>4 DEF Follow

LEMMA StateDecisionType ==
  ASSUME NEW c \in PtpClock, NEW chosen \in Slot
  PROVE  StateDecision(c, chosen) \in PtpClock
<1> DEFINE r == Recommend(c, chosen, c.portState = "LISTENING")
           d == CASE r.apply = "m1" -> M1(c)
                  [] r.apply = "s1" -> S1(c, c.records[chosen])
                  [] OTHER -> c
<1>1. r.state \in {"LISTENING", "MASTER", "PASSIVE", "SLAVE"}
  BY DEF Recommend
<1>2. d \in PtpClock
  <2>1. c.records[chosen] \in Announce
    BY DEF PtpClock
  <2>2. M1(c) \in PtpClock /\ S1(c, c.records[chosen]) \in PtpClock
    BY <2>1, DataSetTypes
  <2> HIDE DEF r
  <2> QED BY <2>2
<1> HIDE DEF r, d
<1>3. [d EXCEPT !.best = chosen,
                !.events = @ \ {"STATE_DECISION"},
                !.recommendedState = IF r.state \in {"MASTER", "PASSIVE"} /\ ~MayBeMaster
                                     THEN "LISTENING" ELSE r.state] \in PtpClock
  BY <1>1, <1>2 DEF PtpClock, States
<1> QED BY <1>3 DEF StateDecision, r, d

LEMMA ServoTypes ==
  ASSUME NEW c \in PtpClock, NEW offset \in Offsets
  PROVE  /\ IssueDelayReqTimerExpired(c) \in PtpClock
         /\ Synchronize(c, offset) \in PtpClock
<1>1. \A d \in PtpClock : IssueDelayReqTimerExpired(d) \in PtpClock
  BY TimerTypes, ConstantTypes DEF IssueDelayReqTimerExpired
<1>2. UpdateOffset(c, offset) \in PtpClock
  BY DEF UpdateOffset, PtpClock, Events
<1>3. \A d \in PtpClock : UpdateClock(d, offset) \in PtpClock
  BY TimerTypes DEF UpdateClock
<1> QED BY <1>1, <1>2, <1>3 DEF Synchronize

LEMMA HandleType ==
  ASSUME NEW c \in PtpClock, NEW m \in Messages, NEW offset \in Offsets
  PROVE  Handle(c, m, offset) \in PtpClock
<1>1. m \in Message /\ m.body \in Announce /\ m.seq \in SeqIds
  BY MessagesAssumption DEF Message
<1>2. ToState(c, "FAULTY") \in PtpClock
  BY ToStateType DEF States
<1>3. HandleAnnounce(c, m) \in PtpClock
  <2> DEFINE d == [c EXCEPT !.events = @ \cup {"STATE_DECISION"}]
  <2>1. d \in PtpClock
    BY DEF PtpClock, Events
  <2> HIDE DEF d
  <2>2. TimerStart(d, {"ANNOUNCE_RECEIPT"}) \in PtpClock
    BY <2>1, TimerTypes DEF Timers
  <2>3. TimerStart(S1(d, m.body), {"ANNOUNCE_RECEIPT"}) \in PtpClock
    BY <2>1, <1>1, TimerTypes, DataSetTypes DEF Timers
  <2>4. /\ AddForeign(d, m.body) \in PtpClock
        /\ AddForeign(IF c.portState = "PASSIVE" THEN TimerStart(d, {"ANNOUNCE_RECEIPT"}) ELSE d,
             m.body) \in PtpClock
    BY <2>1, <2>2, <1>1, AddForeignType
  <2> QED BY <2>3, <2>4 DEF HandleAnnounce, d
<1>4. \A d \in PtpClock : [d EXCEPT !.waitingForFollowUp = FALSE] \in PtpClock
  BY DEF PtpClock
<1>5. [c EXCEPT !.waitingForFollowUp = TRUE, !.recvSyncSequenceId = m.seq] \in PtpClock
  BY <1>1 DEF PtpClock
<1>6. HandleSync(c, m, offset) \in PtpClock
  BY <1>4, <1>5, ServoTypes DEF HandleSync
<1>7. HandleFollowUp(c, m, offset) \in PtpClock
  BY <1>4, ServoTypes DEF HandleFollowUp
<1> QED BY <1>2, <1>3, <1>6, <1>7 DEF Handle

LEMMA ResetTypes ==
  ASSUME NEW c \in PtpClock
  PROVE  /\ ForgetMasters(c) \in PtpClock
         /\ IssuePeriodic(c) \in PtpClock
         /\ M1(InitClock([c EXCEPT !.count = 0, !.running = {}, !.expired = {}])) \in PtpClock
<1>0. 0 \in 0 .. Capacity /\ 0 \in Slot
  BY CapacityAssumption DEF Slot
<1>1. ForgetMasters(c) \in PtpClock /\ IssuePeriodic(c) \in PtpClock
  BY <1>0 DEF ForgetMasters, IssuePeriodic, PtpClock
<1>2. [c EXCEPT !.count = 0, !.running = {}, !.expired = {}] \in PtpClock
  BY <1>0 DEF PtpClock
<1>3. InitClock([c EXCEPT !.count = 0, !.running = {}, !.expired = {}]) \in PtpClock
  BY <1>2, TimerTypes
<1>4. D0 \in Announce
  BY ConstantTypes
<1> QED BY <1>1, <1>3, <1>4, DataSetTypes

LEMMA RememberType ==
  ASSUME TypeOK, NEW c \in PtpClock, NEW d, NEW m \in Messages
  PROVE  Remember(c, m, d) \in History
<1>1. m.src \in PortIdentity /\ m.body \in Announce
  BY MessagesAssumption DEF Message
<1> QED BY <1>1 DEF Remember, TypeOK, History

LEMMA TypeInit == Init => TypeOK
<1> SUFFICES ASSUME Init PROVE TypeOK
    OBVIOUS
<1>1. (CHOOSE q \in SeqIds : TRUE) \in SeqIds
  BY SeqIdsAssumption
<1>2. clk \in PtpClock
  BY <1>1, ConstantTypes, CapacityAssumption DEF Init, PtpClock, States, Slot
<1>3. hist \in History
  BY ConstantTypes DEF Init, History
<1> QED BY <1>2, <1>3 DEF Init, TypeOK

LEMMA TypeStep == TypeOK /\ [Next]_vars => TypeOK'
<1> SUFFICES ASSUME TypeOK, [Next]_vars PROVE TypeOK'
    OBVIOUS
<1> USE DEF TypeOK
<1>1. CASE DecideBmc
  <2> PICK chosen \in Slot :
        LET d == StateDecision(clk, chosen)
        IN  /\ clk' = Follow(d)
            /\ hist' = [hist EXCEPT !.mixed = FALSE, !.heard = IF d.parent # clk.parent THEN d.parentData
                 ELSE @]
    BY <1>1 DEF DecideBmc
  <2>1. StateDecision(clk, chosen) \in PtpClock
    BY StateDecisionType
  <2>2. clk' \in PtpClock
    BY <2>1, FollowType
  <2>3. StateDecision(clk, chosen).parentData \in Announce
    BY <2>1 DEF PtpClock
  <2>4. hist' \in History
    BY <2>3 DEF History
  <2> QED BY <1>1, <2>2, <2>4 DEF DecideBmc
<1>2. CASE DecideNone
  BY <1>2, FollowType DEF DecideNone, History
<1>3. CASE InitializeOk
  BY <1>3, ResetTypes, ToStateType DEF InitializeOk, States
<1>4. CASE InitializeFails \/ FaultCleared
  BY <1>4, ToStateType DEF InitializeFails, FaultCleared, States
<1>5. CASE AnnounceReceiptTimeout
  <2>1. ForgetMasters(clk) \in PtpClock /\ M1(ForgetMasters(clk)) \in PtpClock
    BY ResetTypes, DataSetTypes, ConstantTypes
  <2>2. [M1(ForgetMasters(clk)) EXCEPT !.recommendedState = "MASTER"] \in PtpClock
    BY <2>1 DEF PtpClock, States
  <2> QED BY <1>5, <2>1, <2>2, ToStateType DEF AnnounceReceiptTimeout, States
<1>6. ASSUME NEW m \in Messages, NEW offset \in Offsets, Receive(m, offset) PROVE TypeOK'
  BY <1>6, HandleType, RememberType DEF Receive
<1>7. ASSUME NEW m \in Messages, NEW offset \in Offsets, MasterReceive(m, offset) PROVE TypeOK'
  <2>1. Handle(IssuePeriodic(clk), m, offset) \in PtpClock
    BY ResetTypes, HandleType
  <2> QED BY <1>7, <2>1, ServoTypes, RememberType DEF MasterReceive
<1>8. CASE ReceiveNothing
  BY <1>8 DEF ReceiveNothing
<1>9. CASE MasterIdle
  <2>1. "jump" \in Offsets
    BY DEF Offsets
  <2> QED BY <1>9, <2>1, ResetTypes, ServoTypes DEF MasterIdle
<1>10. ASSUME NEW t \in Timers, TimerElapses(t) \/ TimerCallback(t) PROVE TypeOK'
  <2>1. [clk EXCEPT !.expired = @ \cup {t}] \in PtpClock
    BY DEF PtpClock
  <2> QED BY <1>10, <2>1 DEF TimerElapses, TimerCallback
<1>11. CASE UNCHANGED vars
  BY <1>11 DEF vars
<1> QED
  BY <1>1, <1>2, <1>3, <1>4, <1>5, <1>6, <1>7, <1>8, <1>9, <1>10, <1>11 DEF Next, Decide, Act

\* TypeOK for every clock, table size and set of messages: in particular the
\* foreign master table of addForeign never outgrows its capacity.
THEOREM TypeCorrect == Spec => []TypeOK
BY TypeInit, TypeStep, PTL DEF Spec

-----------------------------------------------------------------------------
(* The timers of a state.                                                  *)

\* A struct in which exactly the timers of its state run.
Timed(c) == c \in PtpClock /\ c.running = NeededBy(c.portState)

\* c and d agree on the state and its timers.
SameTimers(c, d) == d.running = c.running /\ d.portState = c.portState

LEMMA TimedBySame ==
  ASSUME NEW c, NEW d \in PtpClock, Timed(c), SameTimers(c, d)
  PROVE  Timed(d)
BY DEF Timed, SameTimers

\* toState stops the timers of the old state and starts those of the new one,
\* provided PTP_SLAVE is only entered from the states that synchronize.
LEMMA ToStateTimed ==
  ASSUME NEW c, Timed(c), NEW to \in States, to = "SLAVE" => c.portState \in Synchronizing
  PROVE  Timed(ToState(c, to)) /\ ToState(c, to).portState = to /\ ToState(c, to).events = c.events
<1>1. c \in PtpClock
  BY DEF Timed
<1>2. ToState(c, to) \in PtpClock /\ Leave(c, to) \in PtpClock
  BY <1>1, ToStateType, TimerTypes, ConstantTypes DEF Leave, Timers
<1>3. /\ ToState(c, to).running = Leave(c, to).running \cup StartedBy(to)
      /\ ToState(c, to).portState = to
      /\ ToState(c, to).events = Leave(c, to).events
  BY <1>2 DEF ToState, TimerStart, PtpClock
<1>4. Leave(c, to).events = c.events
  BY <1>1 DEF Leave, TimerStop, InitClock, PtpClock
<1>5. Leave(c, to).running = IF c.portState \in Synchronizing /\ to \in Synchronizing THEN c.running ELSE {}
  <2>1. c.running = NeededBy(c.portState)
    BY DEF Timed
  <2>2. CASE c.portState = "MASTER"
    BY <1>1, <2>1, <2>2
    DEF Leave, NeededBy, StartedBy, PeerDelayTimer, TimerStop, InitClock, PtpClock, Synchronizing
  <2>3. CASE c.portState \in Synchronizing
    BY <1>1, <2>1, <2>3
    DEF Leave, NeededBy, StartedBy, DelayTimer, TimerStop, InitClock, PtpClock, Synchronizing
  <2>4. CASE c.portState = "PASSIVE"
    BY <1>1, <2>1, <2>4
    DEF Leave, NeededBy, StartedBy, PeerDelayTimer, TimerStop, InitClock, PtpClock, Synchronizing
  <2>5. CASE c.portState = "LISTENING"
    BY <1>1, <2>1, <2>5 DEF Leave, NeededBy, StartedBy, TimerStop, InitClock, PtpClock, Synchronizing
  <2>6. CASE c.portState \in {"INITIALIZING", "FAULTY"}
    BY <1>1, <2>1, <2>6 DEF Leave, NeededBy, StartedBy, Synchronizing
  <2> QED BY <1>1, <2>2, <2>3, <2>4, <2>5, <2>6 DEF PtpClock, States, Synchronizing
<1>6. c.portState \in Synchronizing => c.running = StartedBy("UNCALIBRATED")
  BY DEF Timed, NeededBy, Synchronizing
<1>7. ToState(c, to).running = NeededBy(to)
  BY <1>3, <1>5, <1>6 DEF NeededBy, StartedBy, Synchronizing
<1> QED BY <1>2, <1>3, <1>4, <1>7 DEF Timed

LEMMA DataSetsKeepTimers ==
  ASSUME NEW c \in PtpClock, NEW a \in Announce
  PROVE  SameTimers(c, M1(c)) /\ SameTimers(c, S1(c, a)) /\ SameTimers(c, AddForeign(c, a))
BY DEF SameTimers, M1, S1, AddForeign, PtpClock

LEMMA FollowTimed ==
  ASSUME NEW c, Timed(c)
  PROVE  Timed(Follow(c))
<1>1. ASSUME NEW d, Timed(d), NEW e \in Events
      PROVE  Timed(Clear(d, e)) /\ Clear(d, e).portState = d.portState
  BY <1>1 DEF Clear, Timed, PtpClock
<1>2. FollowSlave(c) \in PtpClock /\ Timed(FollowSlave(c))
  <2>1. CASE c.portState = "UNCALIBRATED"
    <3>1. Timed(Clear(c, "MASTER_CLOCK_SELECTED")) /\
            Clear(c, "MASTER_CLOCK_SELECTED").portState = "UNCALIBRATED"
      BY <2>1, <1>1 DEF Events
    <3>2. Timed(ToState(Clear(c, "MASTER_CLOCK_SELECTED"), "SLAVE"))
      BY <3>1, ToStateTimed DEF States, Synchronizing
    <3>3. Timed(FollowSlave(c))
      BY <2>1, <3>2, <1>1 DEF FollowSlave, Events
    <3> QED BY <3>3 DEF Timed
  <2>2. CASE c.portState = "SLAVE"
    <3> DEFINE d == IF "SYNCHRONIZATION_FAULT" \in c.events
                    THEN ToState(Clear(c, "SYNCHRONIZATION_FAULT"), "UNCALIBRATED") ELSE c
               f == IF "MASTER_CLOCK_CHANGED" \in d.events
                    THEN ToState(Clear(d, "MASTER_CLOCK_CHANGED"), "UNCALIBRATED") ELSE d
    <3>1. Timed(d)
      BY <1>1, ToStateTimed DEF Events, States
    <3> HIDE DEF d
    <3>2. Timed(f)
      BY <3>1, <1>1, ToStateTimed DEF Events, States
    <3>3. FollowSlave(c) = f
      BY <2>2 DEF FollowSlave, d
    <3> QED BY <3>2, <3>3 DEF Timed
  <2>3. CASE c.portState \notin Synchronizing
    BY <2>3, ToStateTimed DEF FollowSlave, States, Synchronizing, Timed
  <2> QED BY <2>1, <2>2, <2>3 DEF Synchronizing
<1>3. ASSUME c.recommendedState \in {"MASTER", "PASSIVE", "LISTENING"}
      PROVE  Timed(ToState(c, c.recommendedState))
  BY <1>3, ToStateTimed DEF States
<1> QED BY <1>2, <1>3 DEF Follow

LEMMA StateDecisionTimed ==
  ASSUME NEW c, Timed(c), NEW chosen \in Slot
  PROVE  Timed(StateDecision(c, chosen))
<1> DEFINE r == Recommend(c, chosen, c.portState = "LISTENING")
           d == CASE r.apply = "m1" -> M1(c)
                  [] r.apply = "s1" -> S1(c, c.records[chosen])
                  [] OTHER -> c
<1>1. c \in PtpClock /\ c.records[chosen] \in Announce
  BY DEF Timed, PtpClock
<1>2. SameTimers(c, d) /\ d \in PtpClock
  <2> HIDE DEF r
  <2> QED BY <1>1, DataSetsKeepTimers, DataSetTypes DEF SameTimers
<1>3. SameTimers(d, StateDecision(c, chosen))
  <2> HIDE DEF r, d
  <2>1. \A x, y, z : SameTimers(d, [d EXCEPT !.best = x, !.events = y, !.recommendedState = z])
    BY <1>2 DEF SameTimers, PtpClock
  <2> QED BY <2>1 DEF StateDecision, r, d
<1>4. StateDecision(c, chosen) \in PtpClock
  BY <1>1, StateDecisionType
<1> HIDE DEF d
<1> QED BY <1>2, <1>3, <1>4 DEF SameTimers, Timed

\* Starting again a timer that the state needs changes nothing.
LEMMA RestartTimed ==
  ASSUME NEW c, Timed(c), NEW t \in NeededBy(c.portState)
  PROVE  Timed(TimerStart(c, {t})) /\ TimerStart(c, {t}).portState = c.portState
<1>1. c \in PtpClock /\ t \in c.running /\ t \in Timers
  BY DEF Timed, PtpClock
<1>2. TimerStart(c, {t}) \in PtpClock
  BY <1>1, TimerTypes
<1>3. SameTimers(c, TimerStart(c, {t}))
  BY <1>1 DEF TimerStart, SameTimers, PtpClock
<1> QED BY <1>2, <1>3, TimedBySame DEF SameTimers

\* issueDelayReqTimerExpired is only called where its timer runs, or cannot have
\* expired.
LEMMA IssueDelayReqTimed ==
  ASSUME NEW c, Timed(c),
         c.portState \in {"MASTER", "PASSIVE", "UNCALIBRATED", "SLAVE"} \/ "PDELAYREQ_INTERVAL" \notin c.expired
  PROVE  /\ Timed(IssueDelayReqTimerExpired(c))
         /\ IssueDelayReqTimerExpired(c).portState = c.portState
<1>1. CASE DelayTimer \in c.expired /\ (P2P \/ c.portState = "SLAVE")
  <2>1. DelayTimer \in NeededBy(c.portState)
    BY <1>1 DEF NeededBy, StartedBy, DelayTimer, PeerDelayTimer, States
  <2> QED BY <1>1, <2>1, RestartTimed DEF IssueDelayReqTimerExpired
<1> QED BY <1>1 DEF IssueDelayReqTimerExpired

LEMMA SynchronizeTimed ==
  ASSUME NEW c, Timed(c), c.portState \in Synchronizing, NEW offset \in Offsets
  PROVE  Timed(Synchronize(c, offset)) /\ Synchronize(c, offset).portState = c.portState
<1> DEFINE d == UpdateOffset(c, offset)
           f == UpdateClock(d, offset)
<1>1. c \in PtpClock
  BY DEF Timed
<1>2. d \in PtpClock /\ SameTimers(c, d)
  BY <1>1 DEF UpdateOffset, PtpClock, Events, SameTimers
<1>3. f \in PtpClock /\ SameTimers(d, f)
  <2> HIDE DEF d
  <2> QED BY <1>2, TimerTypes DEF UpdateClock, InitClock, SameTimers, PtpClock
<1> HIDE DEF d, f
<1>4. Timed(f) /\ f.portState = c.portState
  BY <1>2, <1>3, TimedBySame DEF SameTimers
<1>5. Timed(IssueDelayReqTimerExpired(f)) /\ IssueDelayReqTimerExpired(f).portState = c.portState
  BY <1>4, IssueDelayReqTimed DEF Synchronizing
<1> QED BY <1>5 DEF Synchronize, d, f

LEMMA HandleTimed ==
  ASSUME NEW c, Timed(c), NEW m \in Messages, NEW offset \in Offsets
  PROVE  LET d == Handle(c, m, offset)
         IN  /\ Timed(d)
             /\ \/ d.portState = c.portState
                \/ c.portState = "MASTER" => "PDELAYREQ_INTERVAL" \notin d.expired
<1>1. c \in PtpClock /\ m.body \in Announce /\ m.seq \in SeqIds
  BY MessagesAssumption DEF Timed, Message
<1>2. /\ Timed(ToState(c, "FAULTY"))
      /\ c.portState = "MASTER" => "PDELAYREQ_INTERVAL" \notin ToState(c, "FAULTY").expired
  <2>1. Timed(ToState(c, "FAULTY"))
    BY ToStateTimed DEF States
  <2>2. c.portState = "MASTER" => "PDELAYREQ_INTERVAL" \notin ToState(c, "FAULTY").expired
    <3> SUFFICES ASSUME c.portState = "MASTER"
                 PROVE  "PDELAYREQ_INTERVAL" \notin ToState(c, "FAULTY").expired
        OBVIOUS
    <3> DEFINE T == {"SYNC_INTERVAL", "ANNOUNCE_INTERVAL", "PDELAYREQ_INTERVAL"}
               d == TimerStop(InitClock(c), T)
    <3>1. Leave(c, "FAULTY") = d
      BY DEF Leave, Synchronizing
    <3>2. InitClock(c) \in PtpClock /\ d \in PtpClock
      BY <1>1, TimerTypes DEF Timers
    <3>3. d.expired = InitClock(c).expired \ T
      BY <3>2 DEF TimerStop, PtpClock
    <3>4. ToState(c, "FAULTY").expired = d.expired \ StartedBy("FAULTY")
      <4> HIDE DEF d
      <4> QED BY <3>1, <3>2 DEF ToState, TimerStart, PtpClock
    <3> QED BY <3>3, <3>4
  <2> QED BY <2>1, <2>2
<1>3. Timed(HandleAnnounce(c, m)) /\ HandleAnnounce(c, m).portState = c.portState
  <2> DEFINE d == [c EXCEPT !.events = @ \cup {"STATE_DECISION"}]
  <2>1. d \in PtpClock /\ SameTimers(c, d)
    BY <1>1 DEF PtpClock, Events, SameTimers
  <2> HIDE DEF d
  <2>2. Timed(d) /\ d.portState = c.portState
    BY <2>1, TimedBySame DEF SameTimers
  <2>3. \A f \in PtpClock : Timed(f) =>
          /\ Timed(S1(f, m.body)) /\ S1(f, m.body).portState = f.portState
          /\ Timed(AddForeign(f, m.body)) /\ AddForeign(f, m.body).portState = f.portState
    BY <1>1, DataSetTypes, AddForeignType, DataSetsKeepTimers, TimedBySame DEF SameTimers
  <2>4. ASSUME c.portState \in Synchronizing
        PROVE  LET f == TimerStart(S1(d, m.body), {"ANNOUNCE_RECEIPT"})
               IN  Timed(f) /\ f.portState = c.portState
    <3>1. "ANNOUNCE_RECEIPT" \in NeededBy(c.portState)
      BY <2>4 DEF NeededBy, StartedBy, Synchronizing
    <3>2. Timed(S1(d, m.body)) /\ S1(d, m.body).portState = c.portState
      BY <2>1, <2>2, <2>3
    <3>3. "ANNOUNCE_RECEIPT" \in NeededBy(S1(d, m.body).portState)
      BY <3>1, <3>2
    <3> QED BY <3>2, <3>3, RestartTimed
  <2>5. ASSUME c.portState = "PASSIVE"
        PROVE  LET f == TimerStart(d, {"ANNOUNCE_RECEIPT"})
               IN  f \in PtpClock /\ Timed(f) /\ f.portState = c.portState
    <3>1. "ANNOUNCE_RECEIPT" \in NeededBy(c.portState)
      BY <2>5 DEF NeededBy, StartedBy
    <3> QED BY <2>2, <3>1, RestartTimed DEF Timed
  <2> QED BY <2>1, <2>2, <2>3, <2>4, <2>5 DEF HandleAnnounce, d
<1>4. LET d == [c EXCEPT !.waitingForFollowUp = TRUE, !.recvSyncSequenceId = m.seq]
      IN  Timed(d) /\ d.portState = c.portState
  BY <1>1 DEF Timed, PtpClock
<1>5. LET d == [c EXCEPT !.waitingForFollowUp = FALSE] IN Timed(d) /\ d.portState = c.portState
  BY <1>1 DEF Timed, PtpClock
<1>6. c.portState = "PASSIVE" => /\ Timed(IssueDelayReqTimerExpired(c))
                                 /\ IssueDelayReqTimerExpired(c).portState = c.portState
  BY IssueDelayReqTimed
<1>7. Timed(HandleSync(c, m, offset)) /\ HandleSync(c, m, offset).portState = c.portState
  <2>1. CASE FromParent(c, m) /\ m.twoStep
    <3>1. HandleSync(c, m, offset) = [c EXCEPT !.waitingForFollowUp = TRUE, !.recvSyncSequenceId = m.seq]
      BY <2>1 DEF HandleSync, FromParent, Synchronizing
    <3> QED BY <3>1, <1>4
  <2>2. CASE FromParent(c, m) /\ ~m.twoStep
    <3>1. HandleSync(c, m, offset) = Synchronize([c EXCEPT !.waitingForFollowUp = FALSE], offset)
      BY <2>2 DEF HandleSync, FromParent, Synchronizing
    <3>2. c.portState \in Synchronizing
      BY <2>2 DEF FromParent
    <3> QED BY <3>1, <3>2, <1>5, SynchronizeTimed
  <2>3. CASE ~FromParent(c, m) /\ c.portState = "PASSIVE"
    <3>1. HandleSync(c, m, offset) = IssueDelayReqTimerExpired(c)
      BY <2>3 DEF HandleSync
    <3> QED BY <3>1, <2>3, <1>6
  <2>4. CASE ~FromParent(c, m) /\ c.portState # "PASSIVE"
    <3>1. HandleSync(c, m, offset) = c
      BY <2>4 DEF HandleSync
    <3> QED BY <3>1
  <2> QED BY <2>1, <2>2, <2>3, <2>4
<1>8. Timed(HandleFollowUp(c, m, offset)) /\ HandleFollowUp(c, m, offset).portState = c.portState
  <2>1. CASE Pairs(c, m)
    <3>1. c.portState \in Synchronizing
      BY <2>1 DEF Pairs, FromParent
    <3>2. HandleFollowUp(c, m, offset) = Synchronize([c EXCEPT !.waitingForFollowUp = FALSE], offset)
      BY <2>1, <3>1 DEF HandleFollowUp, Synchronizing
    <3> QED BY <3>1, <3>2, <1>5, SynchronizeTimed
  <2>2. CASE ~Pairs(c, m) /\ c.portState = "PASSIVE" /\ m.src # OwnPort
    <3>1. HandleFollowUp(c, m, offset) = IssueDelayReqTimerExpired(c)
      BY <2>2 DEF HandleFollowUp
    <3> QED BY <3>1, <2>2, <1>6
  <2>3. CASE ~Pairs(c, m) /\ ~(c.portState = "PASSIVE" /\ m.src # OwnPort)
    <3>1. HandleFollowUp(c, m, offset) = c
      BY <2>3 DEF HandleFollowUp
    <3> QED BY <3>1
  <2> QED BY <2>1, <2>2, <2>3
<1> QED BY <1>2, <1>3, <1>7, <1>8 DEF Handle

LEMMA TimedStep == TypeOK /\ TimersMatchState /\ [Next]_vars => TimersMatchState'
<1> SUFFICES ASSUME TypeOK, TimersMatchState, [Next]_vars PROVE TimersMatchState'
    OBVIOUS
<1>0. Timed(clk) /\ clk \in PtpClock
  BY DEF Timed, TypeOK, TimersMatchState
<1> SUFFICES Timed(clk')
    BY DEF Timed, TimersMatchState
<1>1. CASE DecideBmc
  <2> PICK chosen \in Slot : clk' = Follow(StateDecision(clk, chosen))
    BY <1>1 DEF DecideBmc
  <2> QED BY <1>0, StateDecisionTimed, FollowTimed
<1>2. CASE DecideNone
  BY <1>0, <1>2, FollowTimed DEF DecideNone
<1>3. CASE InitializeOk
  <2> DEFINE c == [clk EXCEPT !.count = 0, !.running = {}, !.expired = {}]
             d == M1(InitClock(c))
  <2>1. c \in PtpClock /\ c.running = {} /\ c.portState = "INITIALIZING"
    <3>1. 0 \in 0 .. Capacity
      BY CapacityAssumption
    <3> QED BY <1>0, <1>3, <3>1 DEF InitializeOk, PtpClock
  <2>2. d \in PtpClock /\ d.running = {} /\ d.portState = "INITIALIZING"
    <3> HIDE DEF c
    <3>1. InitClock(c) \in PtpClock /\ SameTimers(c, InitClock(c))
      BY <2>1, TimerTypes DEF InitClock, SameTimers, PtpClock
    <3> QED BY <2>1, <3>1, DataSetsKeepTimers, DataSetTypes, ConstantTypes DEF SameTimers
  <2> HIDE DEF d
  <2>3. Timed(d)
    BY <2>2 DEF Timed, NeededBy, StartedBy
  <2>4. clk' = ToState(d, "LISTENING")
    BY <1>3 DEF InitializeOk, d
  <2> QED BY <2>3, <2>4, ToStateTimed DEF States
<1>4. CASE InitializeFails \/ FaultCleared
  BY <1>0, <1>4, ToStateTimed DEF InitializeFails, FaultCleared, States
<1>5. CASE AnnounceReceiptTimeout
  <2> DEFINE c == ForgetMasters(clk)
             d == [M1(c) EXCEPT !.recommendedState = "MASTER"]
  <2>1. c \in PtpClock /\ Timed(c)
    <3>1. c \in PtpClock /\ SameTimers(clk, c)
      BY <1>0, ResetTypes DEF ForgetMasters, SameTimers, PtpClock
    <3> QED BY <1>0, <3>1, TimedBySame
  <2> HIDE DEF c
  <2>2. M1(c) \in PtpClock /\ SameTimers(c, M1(c))
    BY <2>1, DataSetsKeepTimers, DataSetTypes, ConstantTypes
  <2>3. d \in PtpClock /\ SameTimers(c, d)
    BY <2>2 DEF SameTimers, PtpClock, States
  <2> HIDE DEF d
  <2>4. Timed(ToState(d, "MASTER"))
    BY <2>1, <2>3, TimedBySame, ToStateTimed DEF States
  <2>5. Timed(ToState(c, "LISTENING"))
    BY <2>1, ToStateTimed DEF States
  <2>6. clk' \in {ToState(d, "MASTER"), ToState(c, "LISTENING"), c}
    BY <1>5 DEF AnnounceReceiptTimeout, c, d
  <2> QED BY <2>1, <2>4, <2>5, <2>6
<1>6. ASSUME NEW m \in Messages, NEW offset \in Offsets, Receive(m, offset) PROVE Timed(clk')
  BY <1>0, <1>6, HandleTimed DEF Receive
<1>7. IssuePeriodic(clk) \in PtpClock /\ SameTimers(clk, IssuePeriodic(clk)) /\ Timed(IssuePeriodic(clk))
  <2>1. IssuePeriodic(clk) \in PtpClock /\ SameTimers(clk, IssuePeriodic(clk))
    BY <1>0, ResetTypes DEF IssuePeriodic, SameTimers, PtpClock
  <2> QED BY <1>0, <2>1, TimedBySame
<1>8. ASSUME NEW m \in Messages, NEW offset \in Offsets, MasterReceive(m, offset) PROVE Timed(clk')
  <2> DEFINE d == Handle(IssuePeriodic(clk), m, offset)
  <2>1. IssuePeriodic(clk).portState = "MASTER"
    BY <1>7, <1>8 DEF MasterReceive, SameTimers
  <2>2. Timed(d) /\ (d.portState = "MASTER" \/ "PDELAYREQ_INTERVAL" \notin d.expired)
    BY <1>7, <2>1, HandleTimed
  <2> HIDE DEF d
  <2>3. clk' = IssueDelayReqTimerExpired(d)
    BY <1>8 DEF MasterReceive, d
  <2> QED BY <2>2, <2>3, IssueDelayReqTimed
<1>9. CASE ReceiveNothing
  BY <1>0, <1>9 DEF ReceiveNothing
<1>10. CASE MasterIdle
  BY <1>7, <1>10, IssueDelayReqTimed DEF MasterIdle, SameTimers
<1>11. ASSUME NEW t \in Timers, TimerElapses(t) \/ TimerCallback(t) PROVE Timed(clk')
  <2>1. SameTimers(clk, clk')
    BY <1>0, <1>11 DEF TimerElapses, TimerCallback, SameTimers, PtpClock
  <2>2. clk' \in PtpClock
    BY <1>0, <1>11 DEF TimerElapses, TimerCallback, PtpClock
  <2> QED BY <1>0, <2>1, <2>2, TimedBySame
<1>12. CASE UNCHANGED vars
  BY <1>0, <1>12 DEF vars
<1> QED
  BY <1>1, <1>2, <1>3, <1>4, <1>5, <1>6, <1>8, <1>9, <1>10, <1>11, <1>12 DEF Next, Decide, Act

\* TimersMatchState: with either delay mechanism and whatever is received, every
\* path through toState leaves exactly the timers running that the new state
\* needs, however late the timer service calls timerCallback.
THEOREM TimersAlwaysMatch == Spec => []TimersMatchState
<1>1. Init => TimersMatchState
  BY DEF Init, TimersMatchState, NeededBy, StartedBy
<1> QED BY <1>1, TimedStep, TypeCorrect, PTL DEF Spec

-----------------------------------------------------------------------------
(* The states that the port goes through.                                  *)
(* The three properties proved here hold for one reason: an event raised   *)
(* while doState acts is consumed by the decision of the next doState, and *)
(* the recommended state always fits the state of the port.  Roles says    *)
(* what fits, Calm what a decision leaves behind.                          *)

ServoEvents == {"MASTER_CLOCK_SELECTED", "SYNCHRONIZATION_FAULT"}

MasterRoles == {"MASTER", "PASSIVE"}

Recommendable == {"INITIALIZING", "LISTENING", "MASTER", "PASSIVE", "SLAVE"}

\* What the recommended state says of the port, whatever bmc decided last.
Advised(c) ==
  /\ c \in PtpClock
  /\ c.recommendedState \in Recommendable
  /\ ~MayBeMaster => c.portState \notin MasterRoles /\ c.recommendedState \notin MasterRoles
  /\ c.portState = "INITIALIZING" => c.recommendedState = "INITIALIZING"
  /\ c.recommendedState = "INITIALIZING" => c.portState \in {"INITIALIZING", "FAULTY"} /\ c.parent = <<0, 0>>

\* A port that synchronizes does so on advice.
Roles(c) == Advised(c) /\ (c.portState \in Synchronizing => c.recommendedState = "SLAVE")

\* The servo's events belong to the state of the port.
Fresh(c) ==
  /\ "MASTER_CLOCK_SELECTED" \in c.events => c.portState = "UNCALIBRATED"
  /\ "SYNCHRONIZATION_FAULT" \in c.events => c.portState = "SLAVE"

\* Before a decision: at most the events of one message are pending.
Pending(c) ==
  /\ Fresh(c)
  /\ "STATE_DECISION" \in c.events => c.portState \in Deciding /\ c.events \cap ServoEvents = {}

\* After a decision: its events are consumed, and a fault was left unless the port
\* never was initialized.
Calm(c) ==
  /\ "STATE_DECISION" \notin c.events
  /\ c.events \cap ServoEvents = {}
  /\ c.portState = "FAULTY" => c.recommendedState = "INITIALIZING"

\* The invariant of doState and its interruptions.
Consumed ==
  /\ Roles(clk)
  /\ Pending(clk)
  /\ pc = "act" => Calm(clk)

\* c and d differ at most in what neither decides nor describes the port's state.
Agree(c, d) ==
  /\ d \in PtpClock
  /\ d.portState = c.portState
  /\ d.recommendedState = c.recommendedState
  /\ d.events = c.events
  /\ d.parent = c.parent

-----------------------------------------------------------------------------
(* The operators from struct to struct.                                    *)

LEMMA AgreeKeeps ==
  ASSUME NEW c, NEW d, Agree(c, d)
  PROVE  /\ Roles(c) => Roles(d)
         /\ Pending(c) => Pending(d)
         /\ Calm(c) => Calm(d)
BY DEF Agree, Roles, Advised, Pending, Fresh, Calm

LEMMA AgreeTransitive ==
  ASSUME NEW c, NEW d, NEW f, Agree(c, d), Agree(d, f)
  PROVE  Agree(c, f)
BY DEF Agree

\* What a decision leaves behind is what the next one expects.
LEMMA CalmPending ==
  ASSUME NEW c, Calm(c)
  PROVE  Pending(c) /\ Fresh(c)
BY DEF Calm, Pending, Fresh, ServoEvents

LEMMA TimersAgree ==
  ASSUME NEW c \in PtpClock, NEW T \in SUBSET Timers
  PROVE  /\ Agree(c, c) /\ Agree(c, TimerStart(c, T))
         /\ Agree(c, TimerStop(c, T)) /\ Agree(c, InitClock(c))
<1>1. TimerStart(c, T) \in PtpClock /\ TimerStop(c, T) \in PtpClock /\ InitClock(c) \in PtpClock
  BY TimerTypes
<1>2. Agree(c, TimerStart(c, T))
  BY <1>1 DEF Agree, TimerStart, PtpClock
<1>3. Agree(c, TimerStop(c, T)) /\ Agree(c, InitClock(c))
  BY <1>1 DEF Agree, TimerStop, InitClock, PtpClock
<1> QED BY <1>2, <1>3 DEF Agree

\* toState changes the state, the recommended state with two of them, and nothing
\* else that matters here.
LEMMA ToStateFields ==
  ASSUME NEW c \in PtpClock, NEW to \in States
  PROVE  LET d == ToState(c, to)
         IN  /\ d \in PtpClock
             /\ d.portState = to
             /\ d.recommendedState = IF to \in {"INITIALIZING", "LISTENING"} THEN to ELSE c.recommendedState
             /\ d.events = c.events
             /\ d.parent = c.parent
<1>1. Agree(c, Leave(c, to))
  <2>1. Agree(c, InitClock(c)) /\ InitClock(c) \in PtpClock
    BY TimersAgree, TimerTypes
  <2>2. \A T \in SUBSET Timers : Agree(c, TimerStop(InitClock(c), T))
    BY <2>1, TimersAgree, AgreeTransitive
  <2>3. \A T \in SUBSET Timers : Agree(c, InitClock(TimerStop(c, T)))
    BY TimersAgree, TimerTypes, AgreeTransitive
  <2>4. /\ {"SYNC_INTERVAL", "ANNOUNCE_INTERVAL", "PDELAYREQ_INTERVAL"} \in SUBSET Timers
        /\ {"ANNOUNCE_RECEIPT", DelayTimer} \in SUBSET Timers
        /\ {"PDELAYREQ_INTERVAL", "ANNOUNCE_RECEIPT"} \in SUBSET Timers
        /\ {"ANNOUNCE_RECEIPT"} \in SUBSET Timers
    BY ConstantTypes DEF Timers
  <2>5. Agree(c, c)
    BY DEF Agree
  <2> QED BY <2>2, <2>3, <2>4, <2>5 DEF Leave
<1> DEFINE e == TimerStart(Leave(c, to), StartedBy(to))
<1>2. Agree(c, e)
  <2>1. StartedBy(to) \in SUBSET Timers
    BY ConstantTypes DEF StartedBy, Timers
  <2>2. Leave(c, to) \in PtpClock
    BY <1>1 DEF Agree
  <2> QED BY <1>1, <2>1, <2>2, TimersAgree, AgreeTransitive
<1> HIDE DEF e
<1>3. ToState(c, to) = [e EXCEPT !.portState = to,
                                 !.recommendedState = IF to \in {"INITIALIZING", "LISTENING"} THEN to ELSE @]
  BY DEF ToState, e
<1>4. ToState(c, to) \in PtpClock
  BY ToStateType
<1> QED BY <1>2, <1>3, <1>4 DEF Agree, PtpClock

LEMMA ClearFields ==
  ASSUME NEW c \in PtpClock, NEW e
  PROVE  LET d == Clear(c, e)
         IN  /\ d \in PtpClock
             /\ d.portState = c.portState
             /\ d.recommendedState = c.recommendedState
             /\ d.events = c.events \ {e}
             /\ d.parent = c.parent
BY DEF Clear, PtpClock

\* Following the recommended state consumes the servo's events and leaves the
\* port in a state that the recommendation allows.
LEMMA FollowRoles ==
  ASSUME NEW c, Advised(c), Fresh(c), "STATE_DECISION" \notin c.events,
         Roles(c) \/ c.events \cap ServoEvents = {}
  PROVE  Roles(Follow(c)) /\ Calm(Follow(c))
<1>0. c \in PtpClock
  BY DEF Advised
<1>1. CASE c.recommendedState = "SLAVE"
  <2>0. c.portState # "INITIALIZING"
    BY <1>1 DEF Advised
  <2>1. Follow(c) = FollowSlave(c)
    BY <1>1 DEF Follow
  <2> SUFFICES /\ FollowSlave(c) \in PtpClock
               /\ FollowSlave(c).portState \in Synchronizing
               /\ FollowSlave(c).recommendedState = "SLAVE"
               /\ "STATE_DECISION" \notin FollowSlave(c).events
               /\ FollowSlave(c).events \cap ServoEvents = {}
      BY <2>1 DEF Roles, Advised, Calm, Synchronizing, Recommendable, MasterRoles
  <2>2. CASE c.portState = "UNCALIBRATED"
    <3>1. "SYNCHRONIZATION_FAULT" \notin c.events
      BY <2>2 DEF Fresh
    <3> DEFINE d == Clear(c, "MASTER_CLOCK_SELECTED")
               f == IF "MASTER_CLOCK_SELECTED" \in c.events THEN ToState(d, "SLAVE") ELSE c
    <3>2. d \in PtpClock /\ d.recommendedState = "SLAVE" /\ d.events = c.events \ {"MASTER_CLOCK_SELECTED"}
      BY <1>0, <1>1, ClearFields
    <3> HIDE DEF d
    <3>3. /\ f \in PtpClock
          /\ f.portState \in Synchronizing
          /\ f.recommendedState = "SLAVE"
          /\ f.events = c.events \ {"MASTER_CLOCK_SELECTED"}
      <4>1. CASE "MASTER_CLOCK_SELECTED" \in c.events
        <5>1. "SLAVE" \in States
          BY DEF States
        <5>2. /\ ToState(d, "SLAVE") \in PtpClock
              /\ ToState(d, "SLAVE").portState = "SLAVE"
              /\ ToState(d, "SLAVE").recommendedState = d.recommendedState
              /\ ToState(d, "SLAVE").events = d.events
          BY <3>2, <5>1, ToStateFields
        <5> QED BY <4>1, <3>2, <5>2 DEF Synchronizing
      <4>2. CASE "MASTER_CLOCK_SELECTED" \notin c.events
        BY <4>2, <1>0, <1>1, <2>2 DEF Synchronizing
      <4> QED BY <4>1, <4>2
    <3> HIDE DEF f
    <3>4. FollowSlave(c) = Clear(f, "MASTER_CLOCK_CHANGED")
      BY <2>2 DEF FollowSlave, f, d
    <3> QED BY <3>1, <3>3, <3>4, ClearFields DEF ServoEvents
  <2>3. CASE c.portState = "SLAVE"
    <3>1. "MASTER_CLOCK_SELECTED" \notin c.events
      BY <2>3 DEF Fresh
    <3>2. "UNCALIBRATED" \in States
      BY DEF States
    <3> DEFINE Down(x, e) == IF e \in x.events THEN ToState(Clear(x, e), "UNCALIBRATED") ELSE x
               Ok(x) == x \in PtpClock /\ x.portState \in Synchronizing /\ x.recommendedState = "SLAVE"
    <3>3. ASSUME NEW x, NEW e, Ok(x)
          PROVE  Ok(Down(x, e)) /\ Down(x, e).events = x.events \ {e}
      <4>1. CASE e \in x.events
        <5>1. /\ Clear(x, e) \in PtpClock
              /\ Clear(x, e).recommendedState = "SLAVE"
              /\ Clear(x, e).events = x.events \ {e}
          BY <3>3, ClearFields
        <5>2. /\ ToState(Clear(x, e), "UNCALIBRATED") \in PtpClock
              /\ ToState(Clear(x, e), "UNCALIBRATED").portState = "UNCALIBRATED"
              /\ ToState(Clear(x, e), "UNCALIBRATED").recommendedState = "SLAVE"
              /\ ToState(Clear(x, e), "UNCALIBRATED").events = x.events \ {e}
          BY <5>1, <3>2, ToStateFields
        <5> QED BY <4>1, <5>2 DEF Synchronizing
      <4>2. CASE e \notin x.events
        BY <4>2, <3>3
      <4> QED BY <4>1, <4>2
    <3>4. Ok(c)
      BY <1>0, <1>1, <2>3 DEF Synchronizing
    <3> HIDE DEF Ok
    <3> DEFINE d == Down(c, "SYNCHRONIZATION_FAULT")
               f == Down(d, "MASTER_CLOCK_CHANGED")
    <3>5. FollowSlave(c) = f
      BY <2>3 DEF FollowSlave
    <3> HIDE DEF Down
    <3>6. Ok(d) /\ d.events = c.events \ {"SYNCHRONIZATION_FAULT"}
      BY <3>3, <3>4
    <3> HIDE DEF d
    <3>7. Ok(f) /\ f.events = d.events \ {"MASTER_CLOCK_CHANGED"}
      BY <3>3, <3>6
    <3> HIDE DEF f
    <3> QED BY <3>1, <3>5, <3>6, <3>7 DEF Ok, ServoEvents
  <2>4. CASE c.portState \notin Synchronizing
    <3>1. FollowSlave(c) = ToState(c, "UNCALIBRATED")
      BY <2>4 DEF FollowSlave, Synchronizing
    <3>2. c.events \cap ServoEvents = {}
      BY <2>4 DEF Fresh, Synchronizing, ServoEvents
    <3>3. "UNCALIBRATED" \in States
      BY DEF States
    <3>4. /\ ToState(c, "UNCALIBRATED") \in PtpClock
          /\ ToState(c, "UNCALIBRATED").portState = "UNCALIBRATED"
          /\ ToState(c, "UNCALIBRATED").recommendedState = c.recommendedState
          /\ ToState(c, "UNCALIBRATED").events = c.events
      BY <1>0, <3>3, ToStateFields
    <3> QED BY <1>1, <3>1, <3>2, <3>4 DEF Synchronizing
  <2> QED BY <2>2, <2>3, <2>4 DEF Synchronizing
<1>2. CASE c.recommendedState \in {"MASTER", "PASSIVE", "LISTENING"}
  <2>1. /\ Follow(c) \in PtpClock
        /\ Follow(c).portState = c.recommendedState
        /\ Follow(c).recommendedState = c.recommendedState
        /\ Follow(c).events = c.events
    <3>1. CASE c.portState = c.recommendedState
      BY <1>0, <1>2, <3>1 DEF Follow
    <3>2. CASE c.portState # c.recommendedState
      <4>1. Follow(c) = ToState(c, c.recommendedState)
        BY <1>2, <3>2 DEF Follow
      <4>2. c.recommendedState \in States
        BY <1>2 DEF States
      <4> QED BY <1>0, <1>2, <4>1, <4>2, ToStateFields
    <3> QED BY <3>1, <3>2
  <2>2. c.events \cap ServoEvents = {}
    <3>1. CASE Roles(c)
      BY <1>2, <3>1 DEF Roles, Fresh, Synchronizing, ServoEvents
    <3> QED BY <3>1
  <2> QED BY <1>2, <2>1, <2>2 DEF Roles, Advised, Calm, Synchronizing, Recommendable, MasterRoles
<1>3. CASE c.recommendedState = "INITIALIZING"
  <2>1. Follow(c) = c
    BY <1>3 DEF Follow
  <2>2. c.portState \in {"INITIALIZING", "FAULTY"}
    BY <1>3 DEF Advised
  <2> QED BY <1>3, <2>1, <2>2 DEF Roles, Calm, Fresh, Synchronizing, ServoEvents
<1> QED BY <1>1, <1>2, <1>3 DEF Advised, Recommendable

\* bmc consumes STATE_DECISION_EVENT, raises no servo event and never recommends a
\* master's state to a clock that may not be master.
LEMMA StateDecisionRoles ==
  ASSUME NEW c, Roles(c), Pending(c), c.portState \in Deciding, "STATE_DECISION" \in c.events,
         NEW chosen \in Slot
  PROVE  LET d == StateDecision(c, chosen)
         IN  Advised(d) /\ Fresh(d) /\ "STATE_DECISION" \notin d.events /\ d.events \cap ServoEvents = {}
<1> DEFINE r == Recommend(c, chosen, c.portState = "LISTENING")
           d == CASE r.apply = "m1" -> M1(c)
                  [] r.apply = "s1" -> S1(c, c.records[chosen])
                  [] OTHER -> c
           s == IF r.state \in {"MASTER", "PASSIVE"} /\ ~MayBeMaster THEN "LISTENING" ELSE r.state
           f == [d EXCEPT !.best = chosen, !.events = @ \ {"STATE_DECISION"}, !.recommendedState = s]
<1>1. c \in PtpClock /\ c.records[chosen] \in Announce
  BY DEF Roles, Advised, PtpClock
<1>2. r.state \in {"LISTENING", "MASTER", "PASSIVE", "SLAVE"}
  BY DEF Recommend
<1> HIDE DEF r
<1>3. /\ d \in PtpClock
      /\ d.portState = c.portState
      /\ d.events \subseteq c.events \cup {"MASTER_CLOCK_CHANGED"}
  <2>1. M1(c) \in PtpClock /\ M1(c).portState = c.portState /\ M1(c).events = c.events
    BY <1>1, DataSetTypes DEF M1, PtpClock
  <2>2. /\ S1(c, c.records[chosen]) \in PtpClock
        /\ S1(c, c.records[chosen]).portState = c.portState
        /\ S1(c, c.records[chosen]).events \subseteq c.events \cup {"MASTER_CLOCK_CHANGED"}
    BY <1>1, DataSetTypes DEF S1, PtpClock
  <2> QED BY <1>1, <2>1, <2>2
<1>4. s \in {"LISTENING", "MASTER", "PASSIVE", "SLAVE"} /\ (~MayBeMaster => s \notin MasterRoles)
  BY <1>2 DEF MasterRoles
<1>5. f = StateDecision(c, chosen)
  BY DEF StateDecision, r
<1>6. f \in PtpClock
  BY <1>1, <1>5, StateDecisionType
<1> HIDE DEF d, s
<1>7. f.portState = c.portState /\ f.recommendedState = s /\ f.events = d.events \ {"STATE_DECISION"}
  BY <1>3 DEF PtpClock
<1> HIDE DEF f
<1>8. c.events \cap ServoEvents = {} /\ c.portState \in Deciding
  BY DEF Pending
<1>9. "STATE_DECISION" \notin f.events /\ f.events \cap ServoEvents = {}
  BY <1>3, <1>7, <1>8 DEF ServoEvents
<1>10. Fresh(f)
  BY <1>9 DEF Fresh, ServoEvents
<1>11. Advised(f)
  BY <1>4, <1>6, <1>7, <1>8 DEF Roles, Advised, Recommendable, Deciding, Receivers
<1> QED BY <1>5, <1>9, <1>10, <1>11

LEMMA IssueDelayReqAgrees ==
  ASSUME NEW c \in PtpClock
  PROVE  Agree(c, IssueDelayReqTimerExpired(c))
<1>1. {DelayTimer} \in SUBSET Timers
  BY ConstantTypes
<1> QED BY <1>1, TimersAgree DEF IssueDelayReqTimerExpired

\* updateOffset raises the event of the state the port is in.
LEMMA SynchronizeRoles ==
  ASSUME NEW c, Roles(c), Calm(c), NEW offset \in Offsets
  PROVE  Roles(Synchronize(c, offset)) /\ Pending(Synchronize(c, offset))
<1> DEFINE d == UpdateOffset(c, offset)
           f == UpdateClock(d, offset)
<1>1. c \in PtpClock
  BY DEF Roles, Advised
<1>2. /\ d \in PtpClock
      /\ d.portState = c.portState
      /\ d.recommendedState = c.recommendedState
      /\ d.parent = c.parent
      /\ d.events \subseteq c.events \cup (CASE c.portState = "UNCALIBRATED" -> {"MASTER_CLOCK_SELECTED"}
                                         [] c.portState = "SLAVE" -> {"SYNCHRONIZATION_FAULT"}
                                         [] OTHER -> {})
  BY <1>1 DEF UpdateOffset, PtpClock, Events
<1> HIDE DEF d
<1>3. Roles(d)
  BY <1>2 DEF Roles, Advised
<1>4. Pending(d)
  BY <1>2 DEF Calm, Pending, Fresh, ServoEvents
<1>5. Agree(d, f)
  BY <1>2, TimersAgree DEF UpdateClock
<1> HIDE DEF f
<1>6. Agree(f, IssueDelayReqTimerExpired(f))
  BY <1>5, IssueDelayReqAgrees DEF Agree
<1>7. Synchronize(c, offset) = IssueDelayReqTimerExpired(f)
  BY DEF Synchronize, d, f
<1> QED BY <1>3, <1>4, <1>5, <1>6, <1>7, AgreeKeeps

\* A message handled after a decision raises events of the port's own state, and
\* at most one kind of them.
LEMMA HandleRoles ==
  ASSUME NEW c, Roles(c), Calm(c), c.portState \in Deciding, NEW m \in Messages, NEW offset \in Offsets
  PROVE  Roles(Handle(c, m, offset)) /\ Pending(Handle(c, m, offset))
<1>1. c \in PtpClock /\ m.body \in Announce /\ m.seq \in SeqIds
  BY MessagesAssumption DEF Roles, Advised, Message
<1>2. Roles(c) /\ Pending(c) /\ c.recommendedState # "INITIALIZING"
  BY CalmPending DEF Roles, Advised, Deciding, Receivers
<1>3. Roles(ToState(c, "FAULTY")) /\ Pending(ToState(c, "FAULTY"))
  <2>1. "FAULTY" \in States
    BY DEF States
  <2>2. /\ ToState(c, "FAULTY") \in PtpClock
        /\ ToState(c, "FAULTY").portState = "FAULTY"
        /\ ToState(c, "FAULTY").recommendedState = c.recommendedState
        /\ ToState(c, "FAULTY").events = c.events
    BY <1>1, <2>1, ToStateFields
  <2>3. Roles(ToState(c, "FAULTY"))
    BY <1>2, <2>2 DEF Roles, Advised, MasterRoles, Synchronizing
  <2>4. Pending(ToState(c, "FAULTY"))
    BY <2>2 DEF Calm, Pending, Fresh, ServoEvents
  <2> QED BY <2>3, <2>4
<1>4. Roles(HandleAnnounce(c, m)) /\ Pending(HandleAnnounce(c, m))
  <2> DEFINE d == [c EXCEPT !.events = @ \cup {"STATE_DECISION"}]
             Told(x) == /\ x \in PtpClock
                        /\ x.portState = c.portState
                        /\ x.recommendedState = c.recommendedState
                        /\ x.events \subseteq c.events \cup {"STATE_DECISION", "MASTER_CLOCK_CHANGED"}
  <2>1. Told(d)
    BY <1>1 DEF PtpClock, Events
  <2> HIDE DEF d
  <2>2. ASSUME NEW x, Told(x) PROVE Told(TimerStart(x, {"ANNOUNCE_RECEIPT"}))
    <3>1. {"ANNOUNCE_RECEIPT"} \in SUBSET Timers
      BY DEF Timers
    <3> QED BY <2>2, <3>1, TimersAgree DEF Agree
  <2>3. ASSUME NEW x, Told(x) PROVE Told(AddForeign(x, m.body))
    <3>1. AddForeign(x, m.body) \in PtpClock
      BY <1>1, <2>3, AddForeignType
    <3>2. /\ AddForeign(x, m.body).portState = x.portState
          /\ AddForeign(x, m.body).recommendedState = x.recommendedState
          /\ AddForeign(x, m.body).events = x.events
      BY <2>3 DEF AddForeign, PtpClock
    <3> QED BY <2>3, <3>1, <3>2
  <2>4. Told(S1(d, m.body))
    <3>1. S1(d, m.body) \in PtpClock
      BY <1>1, <2>1, DataSetTypes
    <3>2. /\ S1(d, m.body).portState = d.portState
          /\ S1(d, m.body).recommendedState = d.recommendedState
          /\ S1(d, m.body).events \subseteq d.events \cup {"MASTER_CLOCK_CHANGED"}
      BY <2>1 DEF S1, PtpClock
    <3> QED BY <2>1, <3>1, <3>2
  <2>5. ASSUME NEW x, Told(x) PROVE Roles(x) /\ Pending(x)
    <3>1. Roles(x)
      BY <1>2, <2>5 DEF Roles, Advised
    <3>2. Pending(x)
      BY <2>5 DEF Calm, Pending, Fresh, ServoEvents
    <3> QED BY <3>1, <3>2
  <2>6. HandleAnnounce(c, m) = c \/ Told(HandleAnnounce(c, m))
    <3> HIDE DEF Told
    <3>1. Told(TimerStart(S1(d, m.body), {"ANNOUNCE_RECEIPT"}))
      BY <2>2, <2>4
    <3>2. Told(AddForeign(d, m.body))
      BY <2>1, <2>3
    <3>3. Told(AddForeign(TimerStart(d, {"ANNOUNCE_RECEIPT"}), m.body))
      BY <2>1, <2>2, <2>3
    <3> QED BY <3>1, <3>2, <3>3 DEF HandleAnnounce, d
  <2> HIDE DEF Told
  <2> QED BY <1>2, <2>5, <2>6
<1>5. /\ Agree(c, [c EXCEPT !.waitingForFollowUp = FALSE])
      /\ Agree(c, [c EXCEPT !.waitingForFollowUp = TRUE, !.recvSyncSequenceId = m.seq])
      /\ Agree(c, IssueDelayReqTimerExpired(c))
  <2>1. /\ [c EXCEPT !.waitingForFollowUp = FALSE] \in PtpClock
        /\ [c EXCEPT !.waitingForFollowUp = TRUE, !.recvSyncSequenceId = m.seq] \in PtpClock
    BY <1>1 DEF PtpClock
  <2>2. /\ Agree(c, [c EXCEPT !.waitingForFollowUp = FALSE])
        /\ Agree(c, [c EXCEPT !.waitingForFollowUp = TRUE, !.recvSyncSequenceId = m.seq])
    BY <1>1, <2>1 DEF Agree, PtpClock
  <2> QED BY <1>1, <2>2, IssueDelayReqAgrees
<1> DEFINE g == [c EXCEPT !.waitingForFollowUp = FALSE]
<1>6. Roles(Synchronize(g, offset)) /\ Pending(Synchronize(g, offset))
  <2>1. Roles(g) /\ Calm(g)
    BY <1>5, AgreeKeeps
  <2> HIDE DEF g
  <2> QED BY <2>1, SynchronizeRoles
<1>7. /\ Roles([c EXCEPT !.waitingForFollowUp = TRUE, !.recvSyncSequenceId = m.seq])
      /\ Pending([c EXCEPT !.waitingForFollowUp = TRUE, !.recvSyncSequenceId = m.seq])
      /\ Roles(IssueDelayReqTimerExpired(c)) /\ Pending(IssueDelayReqTimerExpired(c))
  BY <1>2, <1>5, AgreeKeeps
<1>8. Roles(HandleSync(c, m, offset)) /\ Pending(HandleSync(c, m, offset))
  <2>1. HandleSync(c, m, offset) \in {[c EXCEPT !.waitingForFollowUp = TRUE, !.recvSyncSequenceId = m.seq],
                                      Synchronize(g, offset), IssueDelayReqTimerExpired(c), c}
    BY DEF HandleSync
  <2> HIDE DEF g
  <2> QED BY <1>2, <1>6, <1>7, <2>1
<1>9. Roles(HandleFollowUp(c, m, offset)) /\ Pending(HandleFollowUp(c, m, offset))
  <2>1. HandleFollowUp(c, m, offset) \in {Synchronize(g, offset), IssueDelayReqTimerExpired(c), c}
    BY DEF HandleFollowUp
  <2> HIDE DEF g
  <2> QED BY <1>2, <1>6, <1>7, <2>1
<1> QED BY <1>2, <1>3, <1>4, <1>8, <1>9 DEF Handle

-----------------------------------------------------------------------------
(* The actions.                                                            *)

LEMMA ConsumedInit == Init => Consumed
<1> SUFFICES ASSUME Init PROVE Consumed
    OBVIOUS
<1>1. clk \in PtpClock
  BY TypeInit DEF TypeOK
<1>2. /\ clk.portState = "INITIALIZING" /\ clk.recommendedState = "INITIALIZING"
      /\ clk.events = {} /\ clk.parent = <<0, 0>> /\ pc = "decide"
  BY DEF Init
<1> QED BY <1>1, <1>2
    DEF Consumed, Roles, Advised, Pending, Fresh, Recommendable, MasterRoles, Synchronizing, ServoEvents

LEMMA ConsumedStep == TypeOK /\ Consumed /\ [Next]_vars => Consumed'
<1> SUFFICES ASSUME TypeOK, Consumed, [Next]_vars PROVE Consumed'
    OBVIOUS
<1>0. clk \in PtpClock /\ Roles(clk) /\ Pending(clk) /\ (pc = "act" => Calm(clk))
  BY DEF TypeOK, Consumed
<1>a. Roles(clk') /\ Pending(clk') /\ pc' = "decide" => Consumed'
  BY DEF Consumed
<1>b. Roles(clk') /\ Calm(clk') => Consumed'
  BY CalmPending DEF Consumed
<1>1. CASE DecideBmc
  <2> PICK chosen \in Slot : clk' = Follow(StateDecision(clk, chosen))
    BY <1>1 DEF DecideBmc
  <2> DEFINE d == StateDecision(clk, chosen)
  <2>1. Advised(d) /\ Fresh(d) /\ "STATE_DECISION" \notin d.events /\ d.events \cap ServoEvents = {}
    BY <1>0, <1>1, StateDecisionRoles DEF DecideBmc
  <2> HIDE DEF d
  <2>2. Roles(Follow(d)) /\ Calm(Follow(d))
    BY <2>1, FollowRoles
  <2> QED BY <1>b, <2>2 DEF d
<1>2. CASE DecideNone
  <2>1. Advised(clk) /\ Fresh(clk) /\ "STATE_DECISION" \notin clk.events
    BY <1>0, <1>2 DEF DecideNone, Roles, Pending
  <2>2. Roles(Follow(clk)) /\ Calm(Follow(clk))
    BY <1>0, <2>1, FollowRoles
  <2> QED BY <1>b, <1>2, <2>2 DEF DecideNone
<1>3. CASE InitializeOk
  <2> DEFINE c == M1(InitClock([clk EXCEPT !.count = 0, !.running = {}, !.expired = {}]))
  <2>1. c \in PtpClock
    BY <1>0, ResetTypes
  <2>2. c.events = clk.events
    BY <1>0 DEF M1, InitClock, PtpClock
  <2> HIDE DEF c
  <2>3. clk' = ToState(c, "LISTENING") /\ pc' = "decide" /\ Calm(clk)
    BY <1>0, <1>3 DEF InitializeOk, c
  <2>4. clk' \in PtpClock /\ clk'.portState = "LISTENING" /\ clk'.recommendedState = "LISTENING" /\
          clk'.events = clk.events
    <3>1. "LISTENING" \in States
      BY DEF States
    <3> QED BY <2>1, <2>2, <2>3, <3>1, ToStateFields
  <2>5. Roles(clk')
    BY <2>4 DEF Roles, Advised, Recommendable, MasterRoles, Synchronizing
  <2>6. Pending(clk')
    BY <2>3, <2>4 DEF Calm, Pending, Fresh, ServoEvents
  <2> QED BY <1>a, <2>3, <2>5, <2>6
<1>4. CASE InitializeFails \/ FaultCleared
  <2> DEFINE to == IF clk.portState = "INITIALIZING" THEN "FAULTY" ELSE "INITIALIZING"
  <2>1. clk' = ToState(clk, to) /\ pc' = "decide" /\ Calm(clk) /\ clk.portState \in {"INITIALIZING", "FAULTY"}
    BY <1>0, <1>4 DEF InitializeFails, FaultCleared
  <2>2. to \in {"FAULTY", "INITIALIZING"} /\ to \in States
    BY DEF States
  <2> HIDE DEF to
  <2>3. clk.recommendedState = "INITIALIZING" /\ clk.parent = <<0, 0>>
    BY <1>0, <2>1 DEF Roles, Advised, Calm
  <2>4. /\ clk' \in PtpClock /\ clk'.portState = to
        /\ clk'.recommendedState = "INITIALIZING"
        /\ clk'.events = clk.events /\ clk'.parent = <<0, 0>>
    BY <1>0, <2>1, <2>2, <2>3, ToStateFields
  <2>5. Roles(clk')
    BY <2>2, <2>4 DEF Roles, Advised, Recommendable, MasterRoles, Synchronizing
  <2>6. Pending(clk')
    BY <2>1, <2>4 DEF Calm, Pending, Fresh, ServoEvents
  <2> QED BY <1>a, <2>1, <2>5, <2>6
<1>5. CASE AnnounceReceiptTimeout
  <2> DEFINE c == ForgetMasters(clk)
             d == [M1(c) EXCEPT !.recommendedState = "MASTER"]
  <2>1. Agree(clk, c)
    BY <1>0, ResetTypes DEF ForgetMasters, Agree, PtpClock
  <2>2. /\ pc' = "decide" /\ Calm(clk) /\ clk.portState \in Receivers
        /\ clk' = IF MayBeMaster THEN ToState(d, "MASTER")
                  ELSE IF c.portState # "LISTENING" THEN ToState(c, "LISTENING") ELSE c
    BY <1>0, <1>5 DEF AnnounceReceiptTimeout
  <2> HIDE DEF c
  <2>3. c \in PtpClock /\ c.events = clk.events /\ Roles(c) /\ Calm(c)
    BY <1>0, <2>1, <2>2, AgreeKeeps DEF Agree
  <2>4. d \in PtpClock /\ d.events = c.events /\ d.recommendedState = "MASTER"
    <3>1. M1(c) \in PtpClock
      BY <2>3, DataSetTypes, ConstantTypes
    <3>2. M1(c).events = c.events
      BY <2>3 DEF M1, PtpClock
    <3> QED BY <3>1, <3>2 DEF PtpClock, States
  <2> HIDE DEF d
  <2>5. CASE MayBeMaster
    <3>1. "MASTER" \in States
      BY DEF States
    <3>2. clk' \in PtpClock /\ clk'.portState = "MASTER" /\ clk'.recommendedState = "MASTER" /\
            clk'.events = clk.events
      BY <2>2, <2>3, <2>4, <2>5, <3>1, ToStateFields
    <3>3. Roles(clk') /\ Calm(clk')
      BY <2>2, <2>5, <3>2 DEF Roles, Advised, Calm, Recommendable, Synchronizing
    <3> QED BY <1>b, <3>3
  <2>6. CASE ~MayBeMaster /\ c.portState # "LISTENING"
    <3>1. "LISTENING" \in States
      BY DEF States
    <3>2. clk' \in PtpClock /\ clk'.portState = "LISTENING" /\ clk'.recommendedState = "LISTENING" /\
            clk'.events = clk.events
      BY <2>2, <2>3, <2>6, <3>1, ToStateFields
    <3>3. Roles(clk') /\ Calm(clk')
      BY <2>2, <3>2 DEF Roles, Advised, Calm, Recommendable, MasterRoles, Synchronizing
    <3> QED BY <1>b, <3>3
  <2>7. CASE ~MayBeMaster /\ c.portState = "LISTENING"
    BY <1>b, <2>2, <2>3, <2>7
  <2> QED BY <2>5, <2>6, <2>7
<1>6. ASSUME NEW m \in Messages, NEW offset \in Offsets, Receive(m, offset) PROVE Consumed'
  <2>1. clk.portState \in Deciding /\ Calm(clk) /\ clk' = Handle(clk, m, offset) /\ pc' = "decide"
    BY <1>0, <1>6 DEF Receive, Deciding
  <2> QED BY <1>0, <1>a, <2>1, HandleRoles
<1>7. Agree(clk, IssuePeriodic(clk))
  BY <1>0, ResetTypes DEF IssuePeriodic, Agree, PtpClock
<1>8. ASSUME NEW m \in Messages, NEW offset \in Offsets, MasterReceive(m, offset) PROVE Consumed'
  <2> DEFINE c == IssuePeriodic(clk)
             d == Handle(c, m, offset)
  <2>1. clk.portState \in Deciding /\ Calm(clk) /\ clk' = IssueDelayReqTimerExpired(d) /\ pc' = "decide"
    BY <1>0, <1>8 DEF MasterReceive, Deciding
  <2> HIDE DEF c
  <2>2. Roles(c) /\ Calm(c) /\ c.portState \in Deciding
    BY <1>0, <1>7, <2>1, AgreeKeeps DEF Agree, c
  <2>3. Roles(d) /\ Pending(d)
    BY <2>2, HandleRoles
  <2> HIDE DEF d
  <2>4. Agree(d, clk')
    BY <2>1, <2>3, IssueDelayReqAgrees DEF Roles, Advised
  <2> QED BY <1>a, <2>1, <2>3, <2>4, AgreeKeeps
<1>9. CASE ReceiveNothing
  BY <1>0, <1>a, <1>9 DEF ReceiveNothing
<1>10. CASE MasterIdle
  <2> DEFINE c == IssuePeriodic(clk)
  <2>1. clk' = IssueDelayReqTimerExpired(c) /\ pc' = "decide"
    BY <1>10 DEF MasterIdle
  <2> HIDE DEF c
  <2>2. Agree(clk, c) /\ Agree(c, clk')
    BY <1>7, <2>1, IssueDelayReqAgrees DEF Agree, c
  <2>3. Roles(clk') /\ Pending(clk')
    BY <1>0, <2>2, AgreeKeeps
  <2> QED BY <1>a, <2>1, <2>3
<1>11. ASSUME NEW t \in Timers, TimerElapses(t) \/ TimerCallback(t) PROVE Consumed'
  <2>1. Agree(clk, clk') /\ pc' = pc
    BY <1>0, <1>11 DEF TimerElapses, TimerCallback, Agree, PtpClock
  <2> QED BY <1>0, <2>1, AgreeKeeps DEF Consumed
<1>12. CASE UNCHANGED vars
  BY <1>12 DEF vars, Consumed
<1> QED
  BY <1>1, <1>2, <1>3, <1>4, <1>5, <1>6, <1>8, <1>9, <1>10, <1>11, <1>12 DEF Next, Decide, Act

LEMMA AlwaysConsumed == Spec => []Consumed
BY ConsumedInit, ConsumedStep, TypeCorrect, PTL DEF Spec

-----------------------------------------------------------------------------
\* ServoEventsFresh: MASTER_CLOCK_SELECTED and SYNCHRONIZATION_FAULT are consumed
\* by doState before any toState leaves the state updateOffset raised them in,
\* whatever messages and timeouts fall in between.
THEOREM EventsStayFresh == Spec => []ServoEventsFresh
<1>1. Consumed => ServoEventsFresh
  BY DEF Consumed, Pending, Fresh, ServoEventsFresh
<1> QED BY <1>1, AlwaysConsumed, PTL

\* InitializesOnce: after doInit has succeeded no path of doState returns to
\* PTP_INITIALIZING, since the recommended state that leaves PTP_FAULTY is then
\* never PTP_INITIALIZING.
THEOREM InitializesAtMostOnce == Spec => []InitializesOnce
<1>1. Consumed => InitializesOnce
  BY DEF Consumed, Roles, Advised, InitializesOnce
<1> QED BY <1>1, AlwaysConsumed, PTL

\* SlaveOnlyNeverMaster: neither bmc's recommendation nor the announce receipt
\* timeout makes a slave-only clock master or passive.
THEOREM SlaveOnlyStays == Spec => []SlaveOnlyNeverMaster
<1>1. Consumed => SlaveOnlyNeverMaster
  <2>1. SlaveOnly \/ ClockClass = 255 => ~MayBeMaster
    BY DEF MayBeMaster
  <2> QED BY <2>1 DEF Consumed, Roles, Advised, SlaveOnlyNeverMaster, MasterRoles
<1> QED BY <1>1, AlwaysConsumed, PTL

-----------------------------------------------------------------------------
(* The master that the port follows: the foreign master table, the record  *)
(* bmc chooses in it and the parent data set.                              *)
(* Between two decisions best points into the table; addForeign, which may *)
(* overwrite the record best points to, always leaves STATE_DECISION_EVENT *)
(* pending, so that bmc chooses again before anything is read through it.  *)

Entries(c) == 0 .. c.count - 1

\* The data sets that the network announces.
Announced == {m.body : m \in {n \in Messages : n.type = "ANNOUNCE"}}

\* The table: distinct masters in its first count records, as they announced
\* themselves, none of them the port.
Distinct(c) ==
  /\ c.count < Capacity => c.i = c.count
  /\ \A s \in Entries(c) : c.records[s].src # OwnPort /\ c.records[s] \in Announced
  /\ \A s, t \in Entries(c) : c.records[s].src = c.records[t].src => s = t

\* The record that bmc chose, unless it is about to choose again, and the parent
\* that goes with the recommended state.
Elected(c) ==
  /\ c.recommendedState = "INITIALIZING" => c.count = 0
  /\ "STATE_DECISION" \in c.events => c.count > 0
  /\ c.count > 0 /\ "STATE_DECISION" \notin c.events => c.best \in Entries(c)
  /\ c.recommendedState = "SLAVE" => c.count > 0
  /\ c.recommendedState = "SLAVE" /\ "STATE_DECISION" \notin c.events => c.parent = c.records[c.best].src
  /\ c.recommendedState = "MASTER" => c.parent = OwnParent

Chosen(c) == Elected(c) /\ (c.portState = "MASTER" => c.recommendedState = "MASTER")

\* by sent the Sync that calibrated the port, or that is about to.
Earned(c, by) == c.portState = "SLAVE" \/ "MASTER_CLOCK_SELECTED" \in c.events => by = c.parent

\* After a decision: a port that should synchronize does.
Heeded(c) == c.recommendedState = "SLAVE" => c.portState \in Synchronizing

\* The invariant of the foreign master table and the parent data set.
Mastered ==
  /\ Distinct(clk)
  /\ Chosen(clk)
  /\ Earned(clk, hist.calibratedBy)
  /\ pc = "act" => Heeded(clk)

-----------------------------------------------------------------------------
(* Induction, over a set of naturals, and what the loop of bmc returns.    *)

LEMMA LeastElement ==
  ASSUME NEW T, T \subseteq Nat, T # {}
  PROVE  \E x \in T : \A y \in T : x <= y
<1> DEFINE R == OpToRel(<, Nat)
<1>1. IsWellFoundedOn(R, Nat)
  BY NatLessThanWellFounded
<1>2. \A x, y \in Nat : y < x => <<y, x>> \in R
  BY DEF OpToRel
<1> HIDE DEF R
<1>3. PICK x \in T : \A y \in T : ~(<<y, x>> \in R)
  BY <1>1, WFMin
<1>4. ASSUME NEW y \in T PROVE x <= y
  <2>1. x \in Nat /\ y \in Nat
    OBVIOUS
  <2>2. ~(y < x)
    BY <1>2, <1>3, <2>1, Zenon
  <2> QED BY <2>1, <2>2
<1> QED BY <1>4

LEMMA SetInduction ==
  ASSUME NEW S, 0 \in S, \A n \in Nat : n \in S => n + 1 \in S
  PROVE  Nat \subseteq S
<1> DEFINE T == Nat \ S
<1> SUFFICES ASSUME T # {} PROVE FALSE
    OBVIOUS
<1>1. T \subseteq Nat
  OBVIOUS
<1> HIDE DEF T
<1>2. PICK x \in T : \A y \in T : x <= y
  BY <1>1, LeastElement
<1>3. x \in Nat /\ x \notin S
  BY DEF T
<1>4. x - 1 \in Nat
  BY <1>3
<1>5. x - 1 \in S
  BY <1>2, <1>4 DEF T
<1>6. (x - 1) + 1 \in S
  BY <1>4, <1>5
<1> QED BY <1>3, <1>6

\* What the loop of bmc holds after each turn, and returns.
LEMMA ScanLoop ==
  ASSUME NEW c \in PtpClock, c.count > 0
  PROVE  \E h : /\ Scan(c) = h[c.count - 1]
                /\ h[0] = 0
                /\ \A n \in Slot : h[n] \in 0 .. n
                /\ \A n \in Slot : n # 0 =>
                     h[n] = IF Displaces(c.records[n], c.records[h[n - 1]]) THEN n ELSE h[n - 1]
<1> DEFINE Turn(n, p) == IF Displaces(c.records[n], c.records[p]) THEN n ELSE p
           Loop(g, n) == IF n = 0 THEN 0 ELSE Turn(n, g[n - 1])
           Runs(g, n) == g \in [0 .. n -> Nat] /\ \A k \in 0 .. n : g[k] = Loop(g, k)
           h == CHOOSE g : g = [n \in Slot |-> Loop(g, n)]
<1>0. Capacity \in Nat \ {0} /\ c.count \in 0 .. Capacity /\ Slot = 0 .. Capacity - 1
  BY CapacityAssumption DEF PtpClock, Slot
<1>1. Scan(c) = h[c.count - 1]
  BY <1>0 DEF Scan
<1>2. \A n, p \in Nat : Turn(n, p) \in {n, p}
  OBVIOUS
<1> HIDE DEF Turn
<1>3. \A n \in Nat : \E g : Runs(g, n)
  <2> DEFINE S == {n \in Nat : \E g : Runs(g, n)}
  <2>1. 0 \in S
    <3> DEFINE f == [k \in 0 .. 0 |-> 0]
    <3>1. f \in [0 .. 0 -> Nat] /\ \A k \in 0 .. 0 : k = 0 /\ f[k] = 0
      OBVIOUS
    <3> HIDE DEF f
    <3>2. Runs(f, 0)
      BY <3>1
    <3> QED BY <3>2
  <2>2. ASSUME NEW n \in Nat, n \in S PROVE n + 1 \in S
    <3>1. PICK g : Runs(g, n)
      BY <2>2
    <3> DEFINE f == [k \in 0 .. n + 1 |-> IF k = n + 1 THEN Turn(n + 1, g[n]) ELSE g[k]]
    <3>2. Turn(n + 1, g[n]) \in Nat
      <4>1. g[n] \in Nat
        BY <3>1
      <4> QED BY <1>2, <4>1
    <3>3. f \in [0 .. n + 1 -> Nat]
      BY <3>1, <3>2
    <3>4. ASSUME NEW k \in 0 .. n + 1 PROVE f[k] = Loop(f, k)
      <4>1. CASE k = n + 1
        BY <4>1
      <4>2. CASE k # n + 1
        <5>1. k \in 0 .. n /\ (k # 0 => k - 1 \in 0 .. n /\ k - 1 # n + 1 /\ k - 1 \in 0 .. n + 1)
          BY <4>2
        <5>2. g[k] = Loop(g, k)
          BY <3>1, <5>1
        <5>3. f[k] = g[k] /\ (k # 0 => f[k - 1] = g[k - 1])
          BY <4>2, <5>1
        <5> HIDE DEF f
        <5> QED BY <5>2, <5>3
      <4> QED BY <4>1, <4>2
    <3>5. Runs(f, n + 1)
      BY <3>3, <3>4
    <3> HIDE DEF f, Runs
    <3> QED BY <3>5
  <2> HIDE DEF S
  <2>3. Nat \subseteq S
    BY <2>1, <2>2, SetInduction
  <2> HIDE DEF Runs
  <2> QED BY <2>3 DEF S
<1>4. h = [n \in Slot |-> Loop(h, n)]
  <2>1. PICK g : Runs(g, Capacity - 1)
    <3>1. Capacity - 1 \in Nat
      BY <1>0
    <3> HIDE DEF Runs
    <3> QED BY <1>3, <3>1
  <2>2. g = [n \in Slot |-> Loop(g, n)]
    BY <1>0, <2>1
  <2> HIDE DEF Loop
  <2> QED BY <2>2
<1> HIDE DEF h
<1>5. \A n \in Nat : n \in Slot => h[n] \in 0 .. n
  <2> DEFINE S == {n \in Nat : n \in Slot => h[n] \in 0 .. n}
  <2>1. 0 \in S
    BY <1>4
  <2>2. ASSUME NEW n \in Nat, n \in S PROVE n + 1 \in S
    <3> SUFFICES ASSUME n + 1 \in Slot PROVE h[n + 1] \in 0 .. n + 1
        OBVIOUS
    <3>1. n \in Slot /\ (n + 1) - 1 = n /\ n + 1 # 0
      BY <1>0
    <3>2. h[n] \in 0 .. n
      BY <2>2, <3>1
    <3>3. h[n + 1] = Turn(n + 1, h[n])
      BY <1>4, <3>1
    <3>4. h[n + 1] \in {n + 1, h[n]}
      BY <1>2, <3>2, <3>3
    <3> QED BY <3>2, <3>4
  <2> HIDE DEF S
  <2>3. Nat \subseteq S
    BY <2>1, <2>2, SetInduction
  <2> QED BY <2>3 DEF S
<1>6. h[0] = 0
  BY <1>0, <1>4
<1>7. ASSUME NEW n \in Slot
      PROVE  /\ h[n] \in 0 .. n
             /\ n # 0 => h[n] = IF Displaces(c.records[n], c.records[h[n - 1]]) THEN n ELSE h[n - 1]
  BY <1>0, <1>4, <1>5 DEF Turn
<1> QED BY <1>1, <1>6, <1>7

\* The loop returns a record of the table, whatever bmcDataSetComparison says of
\* any two of them.
LEMMA ScanInTable ==
  ASSUME NEW c \in PtpClock, c.count > 0
  PROVE  Scan(c) \in Entries(c)
<1>1. PICK h : Scan(c) = h[c.count - 1] /\ \A n \in Slot : h[n] \in 0 .. n
  BY ScanLoop
<1>2. c.count - 1 \in Slot
  BY CapacityAssumption DEF PtpClock, Slot
<1> QED BY <1>1, <1>2 DEF Entries, Slot

-----------------------------------------------------------------------------
(* addForeign.                                                             *)

\* What is announced can be stored, and is told from what was never written.
LEMMA AnnouncedTypes == Announced \subseteq Announce \ {ZeroRecord}
BY MessagesAssumption, AnnounceAssumption DEF Announced, Message

LEMMA Around ==
  ASSUME NEW n \in Nat \ {0}, NEW x \in 0 .. n - 1
  PROVE  x % n = x /\ (x + n) % n = x
<1>1. x % n = x
  OBVIOUS
<1>2. (x + n) % n = x
  OBVIOUS
<1> QED BY <1>1, <1>2

\* The search from best on looks at every record of the table.
LEMMA SearchComplete ==
  ASSUME NEW c \in PtpClock, c.count > 0, c.best \in Entries(c)
  PROVE  /\ \A j \in Entries(c) : Visit(c, j) \in Entries(c)
         /\ \A s \in Entries(c) : \E j \in Entries(c) : Visit(c, j) = s
<1>0. c.count \in Nat \ {0}
  BY CapacityAssumption DEF PtpClock
<1>1. ASSUME NEW j \in Entries(c) PROVE Visit(c, j) \in Entries(c)
  BY <1>0, <1>1 DEF Visit, Entries
<1>2. ASSUME NEW s \in Entries(c) PROVE \E j \in Entries(c) : Visit(c, j) = s
  <2> DEFINE j == IF s >= c.best THEN s - c.best ELSE s - c.best + c.count
  <2>1. j \in Entries(c) /\ c.best + j \in {s, s + c.count} /\ (j = 0 => s = c.best)
    BY <1>0 DEF Entries
  <2>2. s % c.count = s /\ (s + c.count) % c.count = s
    BY <1>0, Around DEF Entries
  <2> HIDE DEF j
  <2>3. Visit(c, j) = s
    BY <2>1, <2>2 DEF Visit
  <2> QED BY <2>1, <2>3
<1> QED BY <1>1, <1>2

\* The fields addForeign leaves alone.
LEMMA AddForeignFields ==
  ASSUME NEW c \in PtpClock, NEW a \in Announce
  PROVE  LET d == AddForeign(c, a)
         IN  /\ d \in PtpClock
             /\ d.portState = c.portState
             /\ d.recommendedState = c.recommendedState
             /\ d.events = c.events
             /\ d.parent = c.parent
<1>1. AddForeign(c, a) \in PtpClock
  BY AddForeignType
<1> QED BY <1>1 DEF AddForeign, PtpClock

\* A known master's record is replaced, a new master gets the next slot, the
\* oldest one's when the table is full: the masters in it stay distinct.
LEMMA AddForeignDistinct ==
  ASSUME NEW c \in PtpClock, NEW a \in Announced, Distinct(c),
         c.count > 0 => c.best \in Entries(c),
         a.src # OwnPort
  PROVE  Distinct(AddForeign(c, a)) /\ AddForeign(c, a).count > 0
<1>0. Capacity \in Nat \ {0} /\ c.count \in 0 .. Capacity /\ c.i \in Slot /\ Slot = 0 .. Capacity - 1
  BY CapacityAssumption DEF PtpClock, Slot
<1>a. a \in Announce
  BY AnnouncedTypes
<1>1. CASE Known(c, a) # {}
  <2> DEFINE first == CHOOSE j \in Known(c, a) : \A l \in Known(c, a) : j <= l
             p == Visit(c, first)
             d == AddForeign(c, a)
  <2>1. c.count > 0
    BY <1>0, <1>1 DEF Known
  <2>2. \A j \in Known(c, a) : Visit(c, j) \in Entries(c) /\ c.records[Visit(c, j)].src = a.src
    BY <2>1, SearchComplete DEF Known, Entries
  <2>3. first \in Known(c, a)
    <3>1. Known(c, a) \subseteq Nat
      BY DEF Known
    <3>2. PICK j \in Known(c, a) : \A l \in Known(c, a) : j <= l
      BY <1>1, <3>1, LeastElement
    <3> QED BY <3>2
  <2> HIDE DEF first
  <2>4. p \in Entries(c) /\ c.records[p].src = a.src
    BY <2>2, <2>3
  <2> HIDE DEF p
  <2>5. d = [c EXCEPT !.records[p] = a]
    BY <1>1 DEF AddForeign, first, p
  <2> HIDE DEF d
  <2>6. d.count = c.count /\ d.i = c.i /\ d.records = [c.records EXCEPT ![p] = a]
    BY <2>5 DEF PtpClock
  <2>7. c.records \in [Slot -> Announce] /\ Entries(c) \subseteq Slot
    BY <1>0 DEF PtpClock, Entries
  <2>8. \A s \in Entries(c) : d.records[s] = IF s = p THEN a ELSE c.records[s]
    BY <2>6, <2>7
  <2>9. \A s \in Entries(c) : d.records[s].src = c.records[s].src
    BY <2>4, <2>8
  <2>10. Distinct(d)
    BY <2>6, <2>8, <2>9 DEF Distinct, Entries
  <2> QED BY <2>1, <2>6, <2>10 DEF d
<1>2. CASE Known(c, a) = {}
  <2> DEFINE d == AddForeign(c, a)
  <2>1. \A s \in Entries(c) : c.records[s].src # a.src
    <3> SUFFICES ASSUME NEW s \in Entries(c) PROVE c.records[s].src # a.src
        OBVIOUS
    <3>1. c.count > 0
      BY <1>0 DEF Entries
    <3>2. PICK j \in Entries(c) : Visit(c, j) = s
      BY <3>1, SearchComplete
    <3> QED BY <1>2, <3>2 DEF Known, Entries
  <2>2. d = [c EXCEPT !.records[c.i] = a,
                      !.count = IF @ < Capacity THEN @ + 1 ELSE @,
                      !.i = (@ + 1) % Capacity]
    BY <1>2 DEF AddForeign
  <2> HIDE DEF d
  <2>3. /\ d.count = IF c.count < Capacity THEN c.count + 1 ELSE c.count
        /\ d.i = (c.i + 1) % Capacity
        /\ d.records = [c.records EXCEPT ![c.i] = a]
    BY <2>2 DEF PtpClock
  <2>4. c.records \in [Slot -> Announce] /\ Entries(d) \subseteq Slot
    BY <1>0, <2>3 DEF PtpClock, Entries
  <2>5. \A s \in Entries(d) : d.records[s] = IF s = c.i THEN a ELSE c.records[s]
    BY <1>0, <2>3, <2>4
  <2>6. \A s \in Entries(d) : s # c.i => s \in Entries(c)
    BY <1>0, <2>3 DEF Entries, Distinct
  <2>7. d.count < Capacity => d.i = d.count
    <3> SUFFICES ASSUME d.count < Capacity PROVE d.i = d.count
        OBVIOUS
    <3>1. c.count < Capacity /\ d.count = c.count + 1 /\ c.i = c.count
      BY <1>0, <2>3 DEF Distinct
    <3>2. (c.count + 1) % Capacity = c.count + 1
      BY <1>0, <3>1, Around
    <3> QED BY <2>3, <3>1, <3>2
  <2>8. Distinct(d)
    BY <2>1, <2>5, <2>6, <2>7 DEF Distinct
  <2>9. d.count > 0
    BY <1>0, <2>3
  <2> QED BY <2>8, <2>9 DEF d
<1> QED BY <1>1, <1>2

-----------------------------------------------------------------------------
(* The other operators from struct to struct.                              *)

\* d has the foreign master table and the parent of c.
Still(c, d) ==
  /\ d \in PtpClock
  /\ d.records = c.records
  /\ d.count = c.count
  /\ d.i = c.i
  /\ d.best = c.best
  /\ d.parent = c.parent

LEMMA StillTransitive ==
  ASSUME NEW c, NEW d, NEW f, Still(c, d), Still(d, f)
  PROVE  Still(c, f)
BY DEF Still

\* The invariant only depends on the table, the parent, the states and the events.
LEMMA StillKeeps ==
  ASSUME NEW c, NEW d, Still(c, d), Agree(c, d)
  PROVE  /\ Distinct(c) => Distinct(d)
         /\ Chosen(c) => Chosen(d)
         /\ \A by : Earned(c, by) => Earned(d, by)
         /\ Heeded(c) => Heeded(d)
BY DEF Still, Agree, Distinct, Chosen, Elected, Earned, Heeded, Entries

LEMMA TimersStill ==
  ASSUME NEW c \in PtpClock, NEW T \in SUBSET Timers
  PROVE  Still(c, c) /\ Still(c, TimerStart(c, T)) /\ Still(c, TimerStop(c, T)) /\ Still(c, InitClock(c))
<1>1. TimerStart(c, T) \in PtpClock /\ TimerStop(c, T) \in PtpClock /\ InitClock(c) \in PtpClock
  BY TimerTypes
<1>2. Still(c, TimerStart(c, T))
  BY <1>1 DEF Still, TimerStart, PtpClock
<1>3. Still(c, TimerStop(c, T)) /\ Still(c, InitClock(c))
  BY <1>1 DEF Still, TimerStop, InitClock, PtpClock
<1> QED BY <1>2, <1>3 DEF Still

LEMMA ToStateStill ==
  ASSUME NEW c \in PtpClock, NEW to \in States
  PROVE  Still(c, ToState(c, to))
<1>1. Still(c, Leave(c, to))
  <2>1. Still(c, InitClock(c)) /\ InitClock(c) \in PtpClock
    BY TimersStill, TimerTypes
  <2>2. \A T \in SUBSET Timers : Still(c, TimerStop(InitClock(c), T))
    BY <2>1, TimersStill, StillTransitive
  <2>3. \A T \in SUBSET Timers : Still(c, InitClock(TimerStop(c, T)))
    BY TimersStill, TimerTypes, StillTransitive
  <2>4. /\ {"SYNC_INTERVAL", "ANNOUNCE_INTERVAL", "PDELAYREQ_INTERVAL"} \in SUBSET Timers
        /\ {"ANNOUNCE_RECEIPT", DelayTimer} \in SUBSET Timers
        /\ {"PDELAYREQ_INTERVAL", "ANNOUNCE_RECEIPT"} \in SUBSET Timers
        /\ {"ANNOUNCE_RECEIPT"} \in SUBSET Timers
    BY ConstantTypes DEF Timers
  <2>5. Still(c, c)
    BY DEF Still
  <2> QED BY <2>2, <2>3, <2>4, <2>5 DEF Leave
<1> DEFINE e == TimerStart(Leave(c, to), StartedBy(to))
<1>2. Still(c, e)
  <2>1. StartedBy(to) \in SUBSET Timers
    BY ConstantTypes DEF StartedBy, Timers
  <2>2. Leave(c, to) \in PtpClock
    BY <1>1 DEF Still
  <2> QED BY <1>1, <2>1, <2>2, TimersStill, StillTransitive
<1> HIDE DEF e
<1>3. ToState(c, to) = [e EXCEPT !.portState = to,
                                 !.recommendedState = IF to \in {"INITIALIZING", "LISTENING"} THEN to ELSE @]
  BY DEF ToState, e
<1>4. ToState(c, to) \in PtpClock
  BY ToStateType
<1> QED BY <1>2, <1>3, <1>4 DEF Still, PtpClock

LEMMA ClearStill ==
  ASSUME NEW c \in PtpClock, NEW e
  PROVE  Still(c, Clear(c, e))
<1>1. Clear(c, e) \in PtpClock
  BY ClearFields
<1> QED BY <1>1 DEF Clear, Still, PtpClock

LEMMA IssueDelayReqStill ==
  ASSUME NEW c \in PtpClock
  PROVE  Still(c, IssueDelayReqTimerExpired(c))
<1>1. {DelayTimer} \in SUBSET Timers
  BY ConstantTypes
<1> QED BY <1>1, TimersStill DEF IssueDelayReqTimerExpired

\* updateOffset and updateClock raise at most the event of the port's state.
LEMMA SynchronizeStill ==
  ASSUME NEW c \in PtpClock, NEW offset \in Offsets
  PROVE  LET d == Synchronize(c, offset)
         IN  /\ Still(c, d)
             /\ d.portState = c.portState
             /\ d.recommendedState = c.recommendedState
             /\ d.events \subseteq c.events \cup ServoEvents
<1> DEFINE d == UpdateOffset(c, offset)
           f == UpdateClock(d, offset)
<1>1. /\ Still(c, d)
      /\ d.portState = c.portState
      /\ d.recommendedState = c.recommendedState
      /\ d.events \subseteq c.events \cup ServoEvents
  BY DEF UpdateOffset, PtpClock, Events, Still, ServoEvents
<1> HIDE DEF d
<1>2. Agree(d, f) /\ Still(d, f)
  BY <1>1, TimersAgree, TimersStill DEF UpdateClock, Still
<1> HIDE DEF f
<1>3. Agree(f, IssueDelayReqTimerExpired(f)) /\ Still(f, IssueDelayReqTimerExpired(f))
  BY <1>2, IssueDelayReqAgrees, IssueDelayReqStill DEF Still
<1>4. Synchronize(c, offset) = IssueDelayReqTimerExpired(f)
  BY DEF Synchronize, d, f
<1> HIDE DEF d
<1>5. Still(c, IssueDelayReqTimerExpired(f))
  BY <1>1, <1>2, <1>3, StillTransitive
<1> QED BY <1>1, <1>2, <1>3, <1>4, <1>5 DEF Agree

-----------------------------------------------------------------------------
(* The state decision and the transition it recommends.                    *)

\* What doState makes of the recommended state.  A port ends up in PTP_SLAVE only
\* if it was there and its master did not change, or if it has been calibrated.
LEMMA FollowOutcome ==
  ASSUME NEW c \in PtpClock
  PROVE  LET d == Follow(c)
         IN  /\ Still(c, d)
             /\ d.recommendedState = c.recommendedState
             /\ d.events \subseteq c.events
             /\ c.recommendedState = "SLAVE" =>
                  /\ d.portState \in Synchronizing
                  /\ d.portState = "SLAVE" => \/ c.portState = "SLAVE" /\ "MASTER_CLOCK_CHANGED" \notin c.events
                                              \/ "MASTER_CLOCK_SELECTED" \in c.events
             /\ c.recommendedState \in {"MASTER", "PASSIVE", "LISTENING"} => d.portState = c.recommendedState
             /\ c.recommendedState \notin {"SLAVE", "MASTER", "PASSIVE", "LISTENING"} => d = c
<1> DEFINE Ok(x) == Still(c, x) /\ x.recommendedState = c.recommendedState /\ x.events \subseteq c.events
<1>0. /\ "SLAVE" \in States /\ "UNCALIBRATED" \in States /\ c.recommendedState \in States
      /\ Ok(c)
  BY DEF States, PtpClock, Still
<1>1. ASSUME NEW x, Ok(x), NEW e
      PROVE  Ok(Clear(x, e)) /\ Clear(x, e).portState = x.portState /\ Clear(x, e).events = x.events \ {e}
  <2>1. x \in PtpClock
    BY <1>1 DEF Still
  <2>2. Still(c, Clear(x, e))
    BY <1>1, <2>1, ClearStill, StillTransitive
  <2> QED BY <1>1, <2>1, <2>2, ClearFields
<1>2. ASSUME NEW x, Ok(x), NEW to \in States, to \notin {"INITIALIZING", "LISTENING"}
      PROVE  Ok(ToState(x, to)) /\ ToState(x, to).portState = to /\ ToState(x, to).events = x.events
  <2>1. x \in PtpClock
    BY <1>2 DEF Still
  <2>2. Still(c, ToState(x, to))
    BY <1>2, <2>1, ToStateStill, StillTransitive
  <2> QED BY <1>2, <2>1, <2>2, ToStateFields
<1>3. CASE c.recommendedState = "SLAVE"
  <2>1. Follow(c) = FollowSlave(c)
    BY <1>3 DEF Follow
  <2> SUFFICES /\ Ok(FollowSlave(c))
               /\ FollowSlave(c).portState \in Synchronizing
               /\ FollowSlave(c).portState = "SLAVE" =>
                    \/ c.portState = "SLAVE" /\ "MASTER_CLOCK_CHANGED" \notin c.events
                    \/ "MASTER_CLOCK_SELECTED" \in c.events
      BY <1>3, <2>1
  <2>2. CASE c.portState = "UNCALIBRATED"
    <3> DEFINE d == Clear(c, "MASTER_CLOCK_SELECTED")
               f == IF "MASTER_CLOCK_SELECTED" \in c.events THEN ToState(d, "SLAVE") ELSE c
    <3>1. Ok(d)
      BY <1>0, <1>1
    <3> HIDE DEF d, Ok
    <3>2. /\ Ok(f) /\ f.portState \in Synchronizing
          /\ f.portState = "SLAVE" => "MASTER_CLOCK_SELECTED" \in c.events
      <4>1. Ok(ToState(d, "SLAVE")) /\ ToState(d, "SLAVE").portState = "SLAVE"
        BY <1>0, <1>2, <3>1
      <4> QED BY <1>0, <2>2, <4>1 DEF Synchronizing
    <3> HIDE DEF f
    <3>3. FollowSlave(c) = Clear(f, "MASTER_CLOCK_CHANGED")
      BY <2>2 DEF FollowSlave, f, d
    <3>4. Ok(Clear(f, "MASTER_CLOCK_CHANGED")) /\ Clear(f, "MASTER_CLOCK_CHANGED").portState = f.portState
      BY <1>1, <3>2
    <3> QED BY <3>2, <3>3, <3>4
  <2>3. CASE c.portState = "SLAVE"
    <3> DEFINE Down(x, e) == IF e \in x.events THEN ToState(Clear(x, e), "UNCALIBRATED") ELSE x
               d == Down(c, "SYNCHRONIZATION_FAULT")
               f == Down(d, "MASTER_CLOCK_CHANGED")
    <3> HIDE DEF Ok
    <3>1. ASSUME NEW x, Ok(x), NEW e
          PROVE  /\ Ok(Down(x, e)) /\ Down(x, e).events = x.events \ {e}
                 /\ Down(x, e).portState = IF e \in x.events THEN "UNCALIBRATED" ELSE x.portState
      <4>1. Ok(Clear(x, e)) /\ Clear(x, e).events = x.events \ {e}
        BY <1>1, <3>1
      <4>2. /\ Ok(ToState(Clear(x, e), "UNCALIBRATED"))
            /\ ToState(Clear(x, e), "UNCALIBRATED").portState = "UNCALIBRATED"
            /\ ToState(Clear(x, e), "UNCALIBRATED").events = x.events \ {e}
        BY <1>0, <1>2, <4>1
      <4> QED BY <3>1, <4>2
    <3>2. FollowSlave(c) = f
      BY <2>3 DEF FollowSlave
    <3> HIDE DEF Down
    <3>3. /\ Ok(d) /\ d.events = c.events \ {"SYNCHRONIZATION_FAULT"}
          /\ d.portState \in {"UNCALIBRATED", "SLAVE"}
      BY <1>0, <2>3, <3>1
    <3> HIDE DEF d
    <3>4. Ok(f) /\ f.portState = IF "MASTER_CLOCK_CHANGED" \in d.events THEN "UNCALIBRATED" ELSE d.portState
      BY <3>1, <3>3
    <3> HIDE DEF f
    <3> QED BY <2>3, <3>2, <3>3, <3>4 DEF Synchronizing
  <2>4. CASE c.portState \notin Synchronizing
    <3>1. FollowSlave(c) = ToState(c, "UNCALIBRATED")
      BY <2>4 DEF FollowSlave, Synchronizing
    <3>2. Ok(ToState(c, "UNCALIBRATED")) /\ ToState(c, "UNCALIBRATED").portState = "UNCALIBRATED"
      BY <1>0, <1>2
    <3> HIDE DEF Ok
    <3> QED BY <3>1, <3>2 DEF Synchronizing
  <2> QED BY <2>2, <2>3, <2>4 DEF Synchronizing
<1>4. CASE c.recommendedState \in {"MASTER", "PASSIVE", "LISTENING"}
  <2>1. CASE c.portState = c.recommendedState
    BY <1>0, <1>4, <2>1 DEF Follow
  <2>2. CASE c.portState # c.recommendedState
    <3>1. Follow(c) = ToState(c, c.recommendedState)
      BY <1>4, <2>2 DEF Follow
    <3>2. Still(c, ToState(c, c.recommendedState))
      BY <1>0, ToStateStill
    <3> QED BY <1>0, <1>4, <3>1, <3>2, ToStateFields
  <2> QED BY <2>1, <2>2
<1>5. CASE c.recommendedState \notin {"SLAVE", "MASTER", "PASSIVE", "LISTENING"}
  BY <1>0, <1>5 DEF Follow
<1> QED BY <1>3, <1>4, <1>5

LEMMA FollowMastered ==
  ASSUME NEW c, NEW by, Advised(c), Fresh(c), "STATE_DECISION" \notin c.events,
         Roles(c) \/ c.events \cap ServoEvents = {},
         Distinct(c), Elected(c),
         \/ c.portState = "SLAVE" /\ c.recommendedState = "SLAVE" /\ "MASTER_CLOCK_CHANGED" \notin c.events
         \/ "MASTER_CLOCK_SELECTED" \in c.events
         => by = c.parent
  PROVE  LET d == Follow(c) IN Distinct(d) /\ Chosen(d) /\ Earned(d, by) /\ Heeded(d)
<1> DEFINE d == Follow(c)
<1>1. c \in PtpClock
  BY DEF Advised
<1>2. Roles(d) /\ Calm(d)
  BY FollowRoles
<1>3. /\ Still(c, d)
      /\ d.recommendedState = c.recommendedState
      /\ d.events \subseteq c.events
      /\ c.recommendedState = "SLAVE" =>
           /\ d.portState \in Synchronizing
           /\ d.portState = "SLAVE" => \/ c.portState = "SLAVE" /\ "MASTER_CLOCK_CHANGED" \notin c.events
                                       \/ "MASTER_CLOCK_SELECTED" \in c.events
      /\ c.recommendedState \in {"MASTER", "PASSIVE", "LISTENING"} => d.portState = c.recommendedState
      /\ c.recommendedState \notin {"SLAVE", "MASTER", "PASSIVE", "LISTENING"} => d = c
  BY <1>1, FollowOutcome
<1> HIDE DEF d
<1>4. Distinct(d)
  BY <1>3 DEF Still, Distinct, Entries
<1>5. Elected(d)
  BY <1>2, <1>3 DEF Still, Elected, Entries, Calm
<1>6. d.portState = "MASTER" => d.recommendedState = "MASTER"
  BY <1>3 DEF Advised, Recommendable, Synchronizing
<1>7. Heeded(d)
  BY <1>3 DEF Heeded
<1>8. Earned(d, by)
  <2>1. "MASTER_CLOCK_SELECTED" \notin d.events
    BY <1>2 DEF Calm, ServoEvents
  <2>2. d.portState = "SLAVE" => c.recommendedState = "SLAVE"
    BY <1>2, <1>3 DEF Roles, Synchronizing
  <2> QED BY <1>3, <2>1, <2>2 DEF Earned, Still
<1> QED BY <1>4, <1>5, <1>6, <1>7, <1>8 DEF Chosen, d

\* bmc on the record its loop returns.
LEMMA StateDecisionMastered ==
  ASSUME NEW c, NEW by, Roles(c), Pending(c), "STATE_DECISION" \in c.events,
         Distinct(c), Chosen(c), Earned(c, by)
  PROVE  LET d == StateDecision(c, Scan(c))
         IN  /\ Distinct(d)
             /\ Elected(d)
             /\ d.portState = "SLAVE" /\ d.recommendedState = "SLAVE" /\ "MASTER_CLOCK_CHANGED" \notin d.events
                  => by = d.parent
<1> DEFINE chosen == Scan(c)
           r == Recommend(c, chosen, c.portState = "LISTENING")
           e == CASE r.apply = "m1" -> M1(c)
                  [] r.apply = "s1" -> S1(c, c.records[chosen])
                  [] OTHER -> c
           s == IF r.state \in {"MASTER", "PASSIVE"} /\ ~MayBeMaster THEN "LISTENING" ELSE r.state
           d == [e EXCEPT !.best = chosen, !.events = @ \ {"STATE_DECISION"}, !.recommendedState = s]
<1>0. c \in PtpClock /\ c.count > 0
  BY DEF Roles, Advised, Chosen, Elected
<1>1. chosen \in Entries(c) /\ chosen \in Slot /\ c.records[chosen] \in Announce
  <2>1. chosen \in Entries(c)
    BY <1>0, ScanInTable
  <2>2. c.count \in 0 .. Capacity /\ Capacity \in Nat
    BY <1>0, CapacityAssumption DEF PtpClock
  <2>3. chosen \in Slot
    BY <2>1, <2>2 DEF Entries, Slot
  <2> QED BY <1>0, <2>1, <2>3 DEF PtpClock
<1>2. StateDecision(c, chosen) = d
  BY DEF StateDecision
<1> HIDE DEF chosen
<1>3. \/ r.state = "MASTER" /\ r.apply = "m1"
      \/ r.state = "PASSIVE" /\ r.apply = "p1"
      \/ r.state = "SLAVE" /\ r.apply = "s1"
  BY <1>0 DEF Recommend
<1> HIDE DEF r
<1>4. /\ e \in PtpClock
      /\ e.records = c.records /\ e.count = c.count /\ e.i = c.i /\ e.portState = c.portState
      /\ r.apply = "m1" => e.parent = OwnParent
      /\ r.apply = "s1" => /\ e.parent = c.records[chosen].src
                           /\ "MASTER_CLOCK_CHANGED" \notin e.events => e.parent = c.parent
  <2>1. CASE r.apply = "m1"
    <3>1. e = M1(c)
      BY <2>1
    <3>2. M1(c) \in PtpClock
      BY <1>0, <1>1, DataSetTypes
    <3> HIDE DEF e
    <3> QED BY <1>0, <2>1, <3>1, <3>2 DEF M1, PtpClock
  <2>2. CASE r.apply = "s1"
    <3>1. e = S1(c, c.records[chosen])
      BY <2>2
    <3>2. S1(c, c.records[chosen]) \in PtpClock
      BY <1>0, <1>1, DataSetTypes
    <3> HIDE DEF e
    <3> QED BY <1>0, <2>2, <3>1, <3>2 DEF S1, PtpClock
  <2>3. CASE r.apply = "p1"
    BY <1>0, <2>3
  <2> QED BY <1>3, <2>1, <2>2, <2>3
<1>5. /\ s = "SLAVE" => r.apply = "s1"
      /\ s = "MASTER" => r.apply = "m1"
      /\ s # "INITIALIZING"
  BY <1>3
<1> HIDE DEF e, s
<1>6. /\ d.records = c.records /\ d.count = c.count /\ d.i = c.i /\ d.portState = c.portState
      /\ d.best = chosen /\ d.parent = e.parent /\ d.recommendedState = s
      /\ d.events = e.events \ {"STATE_DECISION"}
  BY <1>4 DEF PtpClock
<1> HIDE DEF d
<1>7. Distinct(d)
  BY <1>6 DEF Distinct, Entries
<1>8. Elected(d)
  BY <1>0, <1>1, <1>4, <1>5, <1>6 DEF Elected, Entries
<1>9. d.portState = "SLAVE" /\ d.recommendedState = "SLAVE" /\ "MASTER_CLOCK_CHANGED" \notin d.events
        => by = d.parent
  BY <1>4, <1>5, <1>6 DEF Earned
<1> QED BY <1>2, <1>7, <1>8, <1>9 DEF chosen

-----------------------------------------------------------------------------
(* The message handlers.                                                   *)

\* by, after message m has been handled with result d.
Earner(by, m, d) == IF "MASTER_CLOCK_SELECTED" \in d.events THEN m.src ELSE by

\* A message handled after a decision: an Announce of the parent keeps the parent,
\* one of another master makes bmc choose again, a Sync calibrates the port only
\* if it comes from the parent.
LEMMA HandleMastered ==
  ASSUME NEW c, NEW by, Roles(c), Calm(c), c.portState \in Deciding,
         Distinct(c), Chosen(c), Earned(c, by), Heeded(c),
         NEW m \in Messages, NEW offset \in Offsets
  PROVE  LET d == Handle(c, m, offset)
         IN  Distinct(d) /\ Chosen(d) /\ Earned(d, Earner(by, m, d))
<1> DEFINE Good(x) == Distinct(x) /\ Chosen(x) /\ Earned(x, Earner(by, m, x))
<1>0. c \in PtpClock /\ m.body \in Announce /\ m.seq \in SeqIds
  BY MessagesAssumption DEF Roles, Advised, Message
<1>1. /\ "STATE_DECISION" \notin c.events /\ "MASTER_CLOCK_SELECTED" \notin c.events
      /\ c.portState \in Synchronizing <=> c.recommendedState = "SLAVE"
      /\ c.recommendedState # "INITIALIZING"
  BY DEF Calm, ServoEvents, Roles, Advised, Heeded, Deciding, Receivers
<1>2. ASSUME NEW x, Still(c, x), x.portState = c.portState, x.recommendedState = c.recommendedState,
             x.events = c.events
      PROVE  Good(x)
  <2>1. Agree(c, x)
    BY <1>2 DEF Agree, Still
  <2>2. Distinct(x) /\ Chosen(x) /\ Earned(x, by)
    BY <1>2, <2>1, StillKeeps
  <2>3. Earner(by, m, x) = by
    BY <1>1, <1>2 DEF Earner
  <2> QED BY <2>2, <2>3
<1>3. Good(c)
  BY <1>0, <1>2 DEF Still
<1>4. Good(ToState(c, "FAULTY"))
  <2> DEFINE d == ToState(c, "FAULTY")
  <2>1. "FAULTY" \in States
    BY DEF States
  <2>2. Still(c, d)
    BY <1>0, <2>1, ToStateStill
  <2>3. d.portState = "FAULTY" /\ d.recommendedState = c.recommendedState /\ d.events = c.events
    BY <1>0, <2>1, ToStateFields
  <2> HIDE DEF d
  <2>4. Distinct(d)
    BY <2>2 DEF Still, Distinct, Entries
  <2>5. Chosen(d)
    BY <2>2, <2>3 DEF Still, Chosen, Elected, Entries
  <2>6. Earned(d, Earner(by, m, d))
    BY <1>1, <2>3 DEF Earned
  <2> QED BY <2>4, <2>5, <2>6 DEF d
<1>5. ASSUME m.type = "ANNOUNCE" PROVE Good(HandleAnnounce(c, m))
  <2> DEFINE d == [c EXCEPT !.events = @ \cup {"STATE_DECISION"}]
             Told(x) == /\ x \in PtpClock
                        /\ x.portState = c.portState
                        /\ x.recommendedState = c.recommendedState
                        /\ "STATE_DECISION" \in x.events
                        /\ "MASTER_CLOCK_SELECTED" \notin x.events
                        /\ x.parent = c.parent
  <2>0. m.body.src = m.src /\ m.body \in Announced
    BY <1>5, AnnounceAssumption DEF Announced
  <2>1. Told(d) /\ Still(c, d)
    BY <1>0, <1>1 DEF PtpClock, Events, Still
  <2> HIDE DEF d
  <2>2. ASSUME NEW x, Told(x), Still(c, x)
        PROVE  Told(TimerStart(x, {"ANNOUNCE_RECEIPT"})) /\ Still(c, TimerStart(x, {"ANNOUNCE_RECEIPT"}))
    <3>1. {"ANNOUNCE_RECEIPT"} \in SUBSET Timers
      BY DEF Timers
    <3>2. Agree(x, TimerStart(x, {"ANNOUNCE_RECEIPT"})) /\ Still(x, TimerStart(x, {"ANNOUNCE_RECEIPT"}))
      BY <2>2, <3>1, TimersAgree, TimersStill
    <3>3. Still(c, TimerStart(x, {"ANNOUNCE_RECEIPT"}))
      BY <2>2, <3>2, StillTransitive
    <3> QED BY <2>2, <3>2, <3>3 DEF Agree
  <2>3. ASSUME NEW x, Told(x), Distinct(x), x.count > 0
        PROVE  Good(x)
    <3>1. Chosen(x)
      BY <1>1, <2>3 DEF Chosen, Elected
    <3>2. Earned(x, Earner(by, m, x))
      BY <2>3 DEF Earned, Earner
    <3> QED BY <2>3, <3>1, <3>2
  <2>4. ASSUME NEW x, Told(x), Still(c, x), m.src # OwnPort PROVE Good(AddForeign(x, m.body))
    <3> DEFINE f == AddForeign(x, m.body)
    <3>1. Distinct(x) /\ (x.count > 0 => x.best \in Entries(x))
      BY <1>1, <2>4 DEF Still, Distinct, Entries, Chosen, Elected
    <3>2. Distinct(f) /\ f.count > 0
      BY <1>0, <2>0, <2>4, <3>1, AddForeignDistinct
    <3>3. Told(f)
      BY <1>0, <2>4, AddForeignFields
    <3> HIDE DEF f, Told, Good
    <3>4. Good(f)
      BY <2>3, <3>2, <3>3
    <3> QED BY <3>4 DEF f
  <2>5. ASSUME c.portState \in Synchronizing, c.parent = m.src
        PROVE  Good(TimerStart(S1(d, m.body), {"ANNOUNCE_RECEIPT"}))
    <3> DEFINE f == S1(d, m.body)
               g == TimerStart(f, {"ANNOUNCE_RECEIPT"})
    <3>1. f \in PtpClock
      BY <1>0, <2>1, DataSetTypes
    <3>2. Told(f) /\ Still(c, f)
      BY <2>0, <2>1, <2>5, <3>1 DEF S1, PtpClock, Still
    <3> HIDE DEF f
    <3>3. Told(g) /\ Still(c, g)
      BY <2>2, <3>2
    <3>4. Distinct(g) /\ g.count > 0
      <4> HIDE DEF g
      <4>1. Distinct(g)
        BY <3>3 DEF Still, Distinct, Entries
      <4>2. g.count > 0
        BY <1>1, <2>5, <3>3 DEF Still, Chosen, Elected
      <4> QED BY <4>1, <4>2
    <3> HIDE DEF g, Told, Good
    <3>5. Good(g)
      BY <2>3, <3>3, <3>4
    <3> QED BY <3>5 DEF g, f
  <2>6. Told(TimerStart(d, {"ANNOUNCE_RECEIPT"})) /\ Still(c, TimerStart(d, {"ANNOUNCE_RECEIPT"}))
    BY <2>1, <2>2
  <2> HIDE DEF Told, Good
  <2>7. m.src # OwnPort =>
          Good(AddForeign(d, m.body)) /\ Good(AddForeign(TimerStart(d, {"ANNOUNCE_RECEIPT"}), m.body))
    BY <2>1, <2>4, <2>6
  <2> QED BY <1>3, <2>5, <2>7 DEF HandleAnnounce, d
<1> DEFINE g == [c EXCEPT !.waitingForFollowUp = FALSE]
<1>6. ASSUME FromParent(c, m) PROVE Good(Synchronize(g, offset))
  <2> DEFINE d == Synchronize(g, offset)
  <2>1. Still(c, g) /\ g.portState = c.portState /\ g.recommendedState = c.recommendedState /\
          g.events = c.events
    BY <1>0 DEF PtpClock, Still
  <2>2. g \in PtpClock
    BY <2>1 DEF Still
  <2> HIDE DEF g
  <2>3. /\ Still(g, d) /\ d.portState = g.portState /\ d.recommendedState = g.recommendedState
        /\ d.events \subseteq g.events \cup ServoEvents
    BY <2>2, SynchronizeStill
  <2> HIDE DEF d
  <2>4. Still(c, d)
    BY <2>1, <2>3, StillTransitive
  <2>5. Distinct(d)
    BY <2>4 DEF Still, Distinct, Entries
  <2>6. "STATE_DECISION" \notin d.events
    BY <1>1, <2>1, <2>3 DEF ServoEvents
  <2>7. Chosen(d)
    BY <1>1, <2>1, <2>3, <2>4, <2>6 DEF Still, Chosen, Elected, Entries
  <2>8. Earned(d, Earner(by, m, d))
    BY <1>6, <2>1, <2>3, <2>4 DEF Earned, Earner, Still, FromParent
  <2> QED BY <2>5, <2>7, <2>8 DEF d
<1>7. Good([c EXCEPT !.waitingForFollowUp = TRUE, !.recvSyncSequenceId = m.seq])
  <2> DEFINE d == [c EXCEPT !.waitingForFollowUp = TRUE, !.recvSyncSequenceId = m.seq]
  <2>1. /\ Still(c, d) /\ d.portState = c.portState /\ d.recommendedState = c.recommendedState
        /\ d.events = c.events
    BY <1>0 DEF PtpClock, Still
  <2> HIDE DEF d, Good
  <2>2. Good(d)
    BY <1>2, <2>1
  <2> QED BY <2>2 DEF d
<1>8. Good(IssueDelayReqTimerExpired(c))
  <2>1. Agree(c, IssueDelayReqTimerExpired(c)) /\ Still(c, IssueDelayReqTimerExpired(c))
    BY <1>0, IssueDelayReqAgrees, IssueDelayReqStill
  <2> HIDE DEF Good
  <2> QED BY <1>2, <2>1 DEF Agree
<1> HIDE DEF Good
<1>9. Good(HandleSync(c, m, offset))
  BY <1>3, <1>6, <1>7, <1>8 DEF HandleSync
<1>10. Good(HandleFollowUp(c, m, offset))
  BY <1>3, <1>6, <1>8 DEF HandleFollowUp, Pairs
<1>11. Good(Handle(c, m, offset))
  BY <1>3, <1>4, <1>5, <1>9, <1>10 DEF Handle
<1> QED BY <1>11 DEF Good

-----------------------------------------------------------------------------
(* The actions.                                                            *)

LEMMA MasteredInit == Init => Mastered
<1> SUFFICES ASSUME Init PROVE Mastered
    OBVIOUS
<1>1. /\ clk.portState = "INITIALIZING" /\ clk.recommendedState = "INITIALIZING"
      /\ clk.events = {} /\ clk.count = 0 /\ clk.i = 0 /\ pc = "decide"
  BY DEF Init
<1>2. Entries(clk) = {}
  BY <1>1 DEF Entries
<1>3. Distinct(clk)
  BY <1>1, <1>2 DEF Distinct
<1>4. Chosen(clk) /\ Earned(clk, hist.calibratedBy)
  BY <1>1 DEF Chosen, Elected, Earned
<1> QED BY <1>1, <1>3, <1>4 DEF Mastered

LEMMA MasteredStep == TypeOK /\ Consumed /\ Mastered /\ [Next]_vars => Mastered'
<1> SUFFICES ASSUME TypeOK, Consumed, Mastered, [Next]_vars PROVE Mastered'
    OBVIOUS
<1> DEFINE by == hist.calibratedBy
<1>0. /\ clk \in PtpClock /\ Roles(clk) /\ Pending(clk)
      /\ Distinct(clk) /\ Chosen(clk) /\ Earned(clk, by)
      /\ pc = "act" => Calm(clk) /\ Heeded(clk)
      /\ hist \in History
  BY DEF TypeOK, Consumed, Mastered
<1>a. ASSUME Distinct(clk'), Chosen(clk'), Earned(clk', by), Heeded(clk') \/ pc' = "decide",
             hist'.calibratedBy = by
      PROVE  Mastered'
  BY <1>a DEF Mastered
<1>b. ASSUME Still(clk, clk'), Agree(clk, clk'), pc' = pc \/ pc' = "decide", hist' = hist
      PROVE  Mastered'
  <2>1. Distinct(clk') /\ Chosen(clk') /\ Earned(clk', by) /\ (Heeded(clk) => Heeded(clk'))
    BY <1>0, <1>b, StillKeeps
  <2> QED BY <1>0, <1>b, <2>1 DEF Mastered
<1> HIDE DEF by
<1>1. CASE DecideBmc
  <2> PICK chosen \in Slot : /\ chosen = Scan(clk)
                             /\ clk' = Follow(StateDecision(clk, chosen))
                             /\ hist' = [hist EXCEPT !.mixed = FALSE,
                                                     !.heard = IF StateDecision(clk, chosen).parent # clk.parent
                                                               THEN StateDecision(clk, chosen).parentData
                                                                 ELSE @]
    BY <1>1 DEF DecideBmc
  <2> DEFINE d == StateDecision(clk, Scan(clk))
  <2>1. hist'.calibratedBy = by
    BY <1>0 DEF History, by
  <2>2. Advised(d) /\ Fresh(d) /\ "STATE_DECISION" \notin d.events /\ d.events \cap ServoEvents = {}
    BY <1>0, <1>1, StateDecisionRoles DEF DecideBmc
  <2>3. /\ Distinct(d) /\ Elected(d)
        /\ d.portState = "SLAVE" /\ d.recommendedState = "SLAVE" /\ "MASTER_CLOCK_CHANGED" \notin d.events
             => by = d.parent
    BY <1>0, <1>1, StateDecisionMastered DEF DecideBmc
  <2>4. clk' = Follow(d)
    OBVIOUS
  <2> HIDE DEF d
  <2>5. "MASTER_CLOCK_SELECTED" \notin d.events
    BY <2>2 DEF ServoEvents
  <2>6. Distinct(Follow(d)) /\ Chosen(Follow(d)) /\ Earned(Follow(d), by) /\ Heeded(Follow(d))
    BY <2>2, <2>3, <2>5, FollowMastered
  <2> QED BY <1>a, <2>1, <2>4, <2>6
<1>2. CASE DecideNone
  <2>1. Advised(clk) /\ Fresh(clk) /\ "STATE_DECISION" \notin clk.events
    BY <1>0, <1>2 DEF DecideNone, Roles, Pending
  <2>2. \/ clk.portState = "SLAVE" /\ clk.recommendedState = "SLAVE" /\ "MASTER_CLOCK_CHANGED" \notin clk.events
        \/ "MASTER_CLOCK_SELECTED" \in clk.events
        => by = clk.parent
    BY <1>0 DEF Earned
  <2>3. Elected(clk)
    BY <1>0 DEF Chosen
  <2>4. LET d == Follow(clk) IN Distinct(d) /\ Chosen(d) /\ Earned(d, by) /\ Heeded(d)
    BY <1>0, <2>1, <2>2, <2>3, FollowMastered
  <2>5. clk' = Follow(clk) /\ hist'.calibratedBy = by
    BY <1>0, <1>2 DEF DecideNone, History, by
  <2> QED BY <1>a, <2>4, <2>5
<1>3. CASE InitializeOk
  <2> DEFINE c == M1(InitClock([clk EXCEPT !.count = 0, !.running = {}, !.expired = {}]))
  <2>1. c \in PtpClock
    BY <1>0, ResetTypes
  <2>2. c.events = clk.events /\ c.count = 0 /\ c.i = clk.i
    BY <1>0 DEF M1, InitClock, PtpClock
  <2> HIDE DEF c
  <2>3. clk' = ToState(c, "LISTENING") /\ pc' = "decide" /\ Calm(clk) /\ hist' = hist
    BY <1>0, <1>3 DEF InitializeOk, c
  <2>4. clk.count = 0
    BY <1>0, <1>3 DEF InitializeOk, Roles, Advised, Chosen, Elected
  <2>5. /\ clk'.portState = "LISTENING" /\ clk'.recommendedState = "LISTENING" /\ clk'.events = clk.events
        /\ clk'.count = 0 /\ clk'.i = clk.i
    <3>1. "LISTENING" \in States
      BY DEF States
    <3>2. Still(c, ToState(c, "LISTENING"))
      BY <2>1, <3>1, ToStateStill
    <3> QED BY <2>1, <2>2, <2>3, <3>1, <3>2, ToStateFields DEF Still
  <2>6. Distinct(clk')
    <3>1. Entries(clk') = {}
      BY <2>5 DEF Entries
    <3> QED BY <1>0, <2>4, <2>5, <3>1 DEF Distinct
  <2>7. Chosen(clk') /\ Earned(clk', by)
    BY <2>3, <2>5 DEF Chosen, Elected, Earned, Calm, ServoEvents
  <2> QED BY <1>a, <2>3, <2>6, <2>7 DEF by
<1>4. CASE InitializeFails \/ FaultCleared
  <2> DEFINE to == IF clk.portState = "INITIALIZING" THEN "FAULTY" ELSE "INITIALIZING"
  <2>1. /\ clk' = ToState(clk, to) /\ pc' = "decide" /\ hist' = hist
        /\ Calm(clk) /\ clk.portState \in {"INITIALIZING", "FAULTY"}
    BY <1>0, <1>4 DEF InitializeFails, FaultCleared
  <2>2. to \in {"FAULTY", "INITIALIZING"} /\ to \in States
    BY DEF States
  <2> HIDE DEF to
  <2>3. clk.recommendedState = "INITIALIZING"
    BY <1>0, <2>1 DEF Roles, Advised, Calm
  <2>4. Still(clk, clk')
    BY <1>0, <2>1, <2>2, ToStateStill
  <2>5. clk'.portState = to /\ clk'.recommendedState = "INITIALIZING" /\ clk'.events = clk.events
    BY <1>0, <2>1, <2>2, <2>3, ToStateFields
  <2>6. Distinct(clk')
    BY <1>0, <2>4 DEF Still, Distinct, Entries
  <2>7. Chosen(clk') /\ Earned(clk', by)
    BY <1>0, <2>1, <2>2, <2>3, <2>4, <2>5 DEF Still, Chosen, Elected, Earned, Entries, Calm, ServoEvents
  <2> QED BY <1>a, <2>1, <2>6, <2>7 DEF by
<1>5. CASE AnnounceReceiptTimeout
  <2> DEFINE c == ForgetMasters(clk)
             d == [M1(c) EXCEPT !.recommendedState = "MASTER"]
  <2>1. /\ pc' = "decide" /\ Calm(clk) /\ Heeded(clk) /\ clk.portState \in Receivers /\ hist' = hist
        /\ clk' = IF MayBeMaster THEN ToState(d, "MASTER")
                  ELSE IF c.portState # "LISTENING" THEN ToState(c, "LISTENING") ELSE c
    BY <1>0, <1>5 DEF AnnounceReceiptTimeout
  <2>2. /\ c \in PtpClock /\ c.count = 0 /\ c.i = 0 /\ c.events = clk.events
        /\ c.portState = clk.portState /\ c.recommendedState = clk.recommendedState
    <3>1. c \in PtpClock
      BY <1>0, ResetTypes
    <3> QED BY <1>0, <3>1 DEF ForgetMasters, PtpClock
  <2> HIDE DEF c
  <2>3. /\ d \in PtpClock /\ d.count = 0 /\ d.i = 0 /\ d.events = clk.events
        /\ d.recommendedState = "MASTER" /\ d.parent = OwnParent
    <3>1. M1(c) \in PtpClock
      BY <2>2, DataSetTypes, ConstantTypes
    <3>2. M1(c).events = c.events /\ M1(c).count = c.count /\ M1(c).i = c.i /\ M1(c).parent = OwnParent
      BY <2>2 DEF M1, PtpClock
    <3> HIDE DEF c
    <3> QED BY <2>2, <3>1, <3>2 DEF PtpClock, States
  <2> HIDE DEF d
  <2>4. /\ clk'.count = 0 /\ clk'.i = 0 /\ clk'.events = clk.events
        /\ \/ clk'.portState = "MASTER" /\ clk'.recommendedState = "MASTER" /\ clk'.parent = OwnParent
           \/ clk'.portState = "LISTENING" /\ clk'.recommendedState \notin {"SLAVE", "MASTER"}
    <3>1. "MASTER" \in States /\ "LISTENING" \in States
      BY DEF States
    <3>2. CASE MayBeMaster
      <4>1. Still(d, ToState(d, "MASTER"))
        BY <2>3, <3>1, ToStateStill
      <4> QED BY <2>1, <2>3, <3>1, <3>2, <4>1, ToStateFields DEF Still
    <3>3. CASE ~MayBeMaster /\ c.portState # "LISTENING"
      <4>1. Still(c, ToState(c, "LISTENING"))
        BY <2>2, <3>1, ToStateStill
      <4> QED BY <2>1, <2>2, <3>1, <3>3, <4>1, ToStateFields DEF Still
    <3>4. CASE ~MayBeMaster /\ c.portState = "LISTENING"
      <4>1. c.recommendedState # "SLAVE"
        BY <2>1, <2>2, <3>4 DEF Heeded, Synchronizing
      <4>2. c.recommendedState # "MASTER"
        BY <1>0, <2>2, <3>4 DEF Roles, Advised, MasterRoles
      <4> QED BY <2>1, <2>2, <3>4, <4>1, <4>2
    <3> QED BY <3>2, <3>3, <3>4
  <2>5. Distinct(clk')
    <3>1. Entries(clk') = {}
      BY <2>4 DEF Entries
    <3> QED BY <2>4, <3>1 DEF Distinct
  <2>6. Chosen(clk') /\ Earned(clk', by)
    BY <2>1, <2>4 DEF Chosen, Elected, Earned, Calm, ServoEvents
  <2> QED BY <1>a, <2>1, <2>5, <2>6 DEF by
<1>6. ASSUME NEW m \in Messages, NEW offset \in Offsets, Receive(m, offset) PROVE Mastered'
  <2>1. /\ clk.portState \in Deciding /\ Calm(clk) /\ Heeded(clk) /\ clk' = Handle(clk, m, offset) /\
             pc' = "decide"
        /\ hist' = Remember(clk, m, clk')
    BY <1>0, <1>6 DEF Receive, Deciding
  <2>2. Distinct(clk') /\ Chosen(clk') /\ Earned(clk', Earner(by, m, clk'))
    BY <1>0, <2>1, HandleMastered
  <2>3. hist'.calibratedBy = Earner(by, m, clk')
    BY <2>1 DEF Remember, Earner, by
  <2> QED BY <2>1, <2>2, <2>3 DEF Mastered
<1>7. Agree(clk, IssuePeriodic(clk)) /\ Still(clk, IssuePeriodic(clk))
  BY <1>0, ResetTypes DEF IssuePeriodic, Agree, Still, PtpClock
<1>8. ASSUME NEW m \in Messages, NEW offset \in Offsets, MasterReceive(m, offset) PROVE Mastered'
  <2> DEFINE c == IssuePeriodic(clk)
             d == Handle(c, m, offset)
  <2>1. /\ clk.portState \in Deciding /\ Calm(clk) /\ Heeded(clk) /\ clk' = IssueDelayReqTimerExpired(d)
        /\ pc' = "decide" /\ hist' = Remember(clk, m, d)
    BY <1>0, <1>8 DEF MasterReceive, Deciding
  <2> HIDE DEF c
  <2>2. /\ Roles(c) /\ Calm(c) /\ c.portState \in Deciding
        /\ Distinct(c) /\ Chosen(c) /\ Earned(c, by) /\ Heeded(c)
    BY <1>0, <1>7, <2>1, AgreeKeeps, StillKeeps DEF Agree, c
  <2>3. d \in PtpClock
    BY <2>2, HandleType DEF Roles, Advised
  <2>4. Distinct(d) /\ Chosen(d) /\ Earned(d, Earner(by, m, d))
    BY <2>2, HandleMastered
  <2> HIDE DEF d
  <2>5. Agree(d, clk') /\ Still(d, clk')
    BY <2>1, <2>3, IssueDelayReqAgrees, IssueDelayReqStill
  <2>6. Distinct(clk') /\ Chosen(clk') /\ Earned(clk', Earner(by, m, d))
    BY <2>4, <2>5, StillKeeps
  <2>7. hist'.calibratedBy = Earner(by, m, d)
    BY <2>1 DEF Remember, Earner, by
  <2> QED BY <2>1, <2>6, <2>7 DEF Mastered
<1>9. CASE ReceiveNothing
  <2>1. Still(clk, clk') /\ Agree(clk, clk') /\ pc' = "decide" /\ hist' = hist
    BY <1>0, <1>9 DEF ReceiveNothing, Still, Agree
  <2> QED BY <1>b, <2>1
<1>10. CASE MasterIdle
  <2> DEFINE c == IssuePeriodic(clk)
  <2>1. clk' = IssueDelayReqTimerExpired(c) /\ pc' = "decide" /\ hist' = hist
    BY <1>10 DEF MasterIdle
  <2>2. c \in PtpClock
    BY <1>0, ResetTypes
  <2> HIDE DEF c
  <2>3. Agree(c, clk') /\ Still(c, clk')
    BY <2>1, <2>2, IssueDelayReqAgrees, IssueDelayReqStill
  <2>4. Agree(clk, clk') /\ Still(clk, clk')
    BY <1>7, <2>3, AgreeTransitive, StillTransitive DEF c
  <2> QED BY <1>b, <2>1, <2>4
<1>11. ASSUME NEW t \in Timers, TimerElapses(t) \/ TimerCallback(t) PROVE Mastered'
  <2>1. Still(clk, clk') /\ Agree(clk, clk') /\ pc' = pc /\ hist' = hist
    BY <1>0, <1>11 DEF TimerElapses, TimerCallback, Still, Agree, PtpClock
  <2> QED BY <1>b, <2>1
<1>12. CASE UNCHANGED vars
  BY <1>12 DEF vars, Mastered
<1> QED
  BY <1>1, <1>2, <1>3, <1>4, <1>5, <1>6, <1>8, <1>9, <1>10, <1>11, <1>12 DEF Next, Decide, Act

LEMMA AlwaysMastered == Spec => []Mastered
BY MasteredInit, MasteredStep, AlwaysConsumed, TypeCorrect, PTL DEF Spec

-----------------------------------------------------------------------------
\* TableWellFormed: however many masters announce themselves, addForeign never
\* enters one of them twice nor the port itself, and fills the table from 0; a
\* wrapped search from a best that bmc has set finds every record.
THEOREM TableStaysWellFormed == Spec => []TableWellFormed
<1>1. Mastered => TableWellFormed
  BY AnnouncedTypes DEF Mastered, Distinct, TableWellFormed, Entries, Live
<1> QED BY <1>1, AlwaysMastered, PTL

\* BestInTable: best is stale after an announce receipt timeout, but bmc has set
\* it to a record of the table before addForeign starts to search from it.
THEOREM BestStaysInTable == Spec => []BestInTable
<1>1. Mastered => BestInTable
  BY DEF Mastered, Chosen, Elected, BestInTable, Entries, Live
<1> QED BY <1>1, AlwaysMastered, PTL

\* ParentMatchesRole: on every path of doState a master is its own parent and a
\* port that synchronizes has the parent that bmc chose and the table still holds.
THEOREM ParentAlwaysMatchesRole == Spec => []ParentMatchesRole
<1>1. Consumed /\ Mastered => ParentMatchesRole
  BY DEF Consumed, Roles, Mastered, Chosen, Elected, ParentMatchesRole
<1> QED BY <1>1, AlwaysConsumed, AlwaysMastered, PTL

\* SlaveIsCalibrated: a port in PTP_SLAVE has been calibrated by a Sync of its
\* present parent: s1 signals every change of parent, and doState then goes back
\* to PTP_UNCALIBRATED before it looks at the servo's events again.
THEOREM SlaveAlwaysCalibrated == Spec => []SlaveIsCalibrated
<1>1. Mastered => SlaveIsCalibrated
  BY DEF Mastered, Earned, SlaveIsCalibrated
<1> QED BY <1>1, AlwaysMastered, PTL

-----------------------------------------------------------------------------
(* The order of the records.  Where the announcements are consistent, the  *)
(* pairwise comparison is a strict weak order of the records, so that the  *)
(* loop of bmc returns the same master whatever the order of the table.    *)

\* What a grandmaster is like does not depend on who tells of it, and this clock
\* has one port.
Consistent ==
  /\ \A a, b \in Announced : a.gm = b.gm => a.quality = b.quality
  /\ \A a \in Announced : a.src[1] = OwnClock => a.src = OwnPort

Lower(p, q) == \E k \in 1 .. 5 : p[k] < q[k] /\ \A j \in 1 .. k - 1 : p[j] = q[j]

\* b comes before a by quality, grandmaster, path length and sender, in that order.
After(a, b) ==
  \/ Lower(b.quality, a.quality)
  \/ /\ b.quality = a.quality
     /\ \/ b.gm < a.gm
        \/ b.gm = a.gm /\ b.steps < a.steps
        \/ b.gm = a.gm /\ b.steps = a.steps /\ b.src[1] < a.src[1]

LEMMA LowerUnrolled ==
  ASSUME NEW p \in Quality, NEW q \in Quality
  PROVE  Lower(p, q) <=>
           \/ p[1] < q[1]
           \/ p[1] = q[1] /\ p[2] < q[2]
           \/ p[1] = q[1] /\ p[2] = q[2] /\ p[3] < q[3]
           \/ p[1] = q[1] /\ p[2] = q[2] /\ p[3] = q[3] /\ p[4] < q[4]
           \/ p[1] = q[1] /\ p[2] = q[2] /\ p[3] = q[3] /\ p[4] = q[4] /\ p[5] < q[5]
BY DEF Lower, Quality

LEMMA LowerOrders ==
  ASSUME NEW p \in Quality, NEW q \in Quality, NEW r \in Quality
  PROVE  /\ Lower(p, q) \/ Lower(q, p) \/ p = q
         /\ ~(Lower(p, q) /\ Lower(q, p)) /\ ~Lower(p, p)
         /\ Lower(p, q) /\ Lower(q, r) => Lower(p, r)
<1>1. \A k \in 1 .. 5 : p[k] \in Nat /\ q[k] \in Nat /\ r[k] \in Nat
  BY DEF Quality
<1>2. Lower(p, q) \/ Lower(q, p) \/ p = q
  <2>1. \A k \in 1 .. 5 : k = 1 \/ k = 2 \/ k = 3 \/ k = 4 \/ k = 5
    OBVIOUS
  <2>2. ASSUME ~Lower(p, q), ~Lower(q, p) PROVE \A k \in 1 .. 5 : p[k] = q[k]
    BY <1>1, <2>1, <2>2, LowerUnrolled
  <2> QED BY <2>2 DEF Quality
<1>3. ~(Lower(p, q) /\ Lower(q, p)) /\ ~Lower(p, p)
  BY <1>1, LowerUnrolled
<1>4. Lower(p, q) /\ Lower(q, r) => Lower(p, r)
  BY <1>1, LowerUnrolled
<1> QED BY <1>2, <1>3, <1>4

LEMMA AfterOrders ==
  ASSUME NEW a \in Announce, NEW b \in Announce, NEW c \in Announce
  PROVE  /\ After(a, b) /\ After(b, c) => After(a, c)
         /\ ~After(a, a)
         /\ ~After(a, b) /\ ~After(b, a) => a.gm = b.gm /\ a.steps = b.steps /\ a.src[1] = b.src[1]
<1>1. /\ a.quality \in Quality /\ b.quality \in Quality /\ c.quality \in Quality
      /\ a.gm \in Nat /\ b.gm \in Nat /\ c.gm \in Nat
      /\ a.steps \in Nat /\ b.steps \in Nat /\ c.steps \in Nat
      /\ a.src[1] \in Nat /\ b.src[1] \in Nat /\ c.src[1] \in Nat
  BY DEF Announce, PortIdentity
<1>2. /\ Lower(a.quality, b.quality) \/ Lower(b.quality, a.quality) \/ a.quality = b.quality
      /\ ~Lower(a.quality, a.quality)
      /\ Lower(c.quality, b.quality) /\ Lower(b.quality, a.quality) => Lower(c.quality, a.quality)
  BY <1>1, LowerOrders
<1>3. After(a, b) /\ After(b, c) => After(a, c)
  BY <1>1, <1>2 DEF After
<1>4. ~After(a, a)
  BY <1>1, <1>2 DEF After
<1>5. ~After(a, b) /\ ~After(b, a) => a.gm = b.gm /\ a.steps = b.steps /\ a.src[1] = b.src[1]
  BY <1>1, <1>2 DEF After
<1> QED BY <1>3, <1>4, <1>5

\* The comparison of bmcDataSetComparison is that order.
LEMMA DisplacesIsAfter ==
  ASSUME Consistent, NEW a \in Announced, NEW b \in Announced, a.src # OwnPort, b.src # OwnPort
  PROVE  Displaces(a, b) <=> After(a, b)
<1>1. /\ a \in Announce /\ b \in Announce
      /\ a.src[1] # OwnClock /\ b.src[1] # OwnClock
      /\ a.gm = b.gm => a.quality = b.quality
  BY AnnouncedTypes DEF Consistent
<1>2. /\ a.quality \in Quality /\ b.quality \in Quality
      /\ a.gm \in Nat /\ b.gm \in Nat /\ a.steps \in Nat /\ b.steps \in Nat
      /\ a.src[1] \in Nat /\ b.src[1] \in Nat
  BY <1>1 DEF Announce, PortIdentity
<1>3. /\ Lower(a.quality, b.quality) \/ Lower(b.quality, a.quality) \/ a.quality = b.quality
      /\ ~(Lower(a.quality, b.quality) /\ Lower(b.quality, a.quality))
      /\ ~Lower(a.quality, a.quality)
  BY <1>2, LowerOrders
<1>4. CASE a.gm = b.gm
  <2>1. DataSetComparison(a, b) = ComparePath(a, b)
    BY <1>4 DEF DataSetComparison
  <2>2. ComparePath(a, b) < 0 <=> b.steps < a.steps \/ (b.steps = a.steps /\ b.src[1] < a.src[1])
    <3>1. CASE b.steps < a.steps
      <4>1. ComparePath(a, b) = -1
        BY <1>1, <1>2, <3>1 DEF ComparePath, B_better
      <4> QED BY <3>1, <4>1
    <3>2. CASE a.steps < b.steps
      <4>1. ComparePath(a, b) = 1
        BY <1>1, <1>2, <3>2 DEF ComparePath, A_better
      <4> QED BY <1>2, <3>2, <4>1
    <3>3. CASE a.steps = b.steps
      <4>1. ComparePath(a, b) = IF a.src[1] > b.src[1] THEN B_better
                                ELSE IF a.src[1] < b.src[1] THEN A_better ELSE NoVerdict
        BY <1>2, <3>3 DEF ComparePath
      <4> QED BY <1>2, <3>3, <4>1 DEF A_better, B_better, NoVerdict
    <3> QED BY <1>2, <3>1, <3>2, <3>3
  <2>3. After(a, b) <=> b.steps < a.steps \/ (b.steps = a.steps /\ b.src[1] < a.src[1])
    BY <1>1, <1>2, <1>3, <1>4 DEF After
  <2> QED BY <2>1, <2>2, <2>3 DEF Displaces
<1>5. CASE a.gm # b.gm
  <2>1. BetterGrandmaster(a, b) <=> Lower(a.quality, b.quality) \/ (a.quality = b.quality /\ a.gm < b.gm)
    BY Zenon DEF BetterGrandmaster, Lower
  <2>2. Displaces(a, b) <=> ~BetterGrandmaster(a, b)
    <3>1. DataSetComparison(a, b) = IF BetterGrandmaster(a, b) THEN 1 ELSE -1
      BY <1>5 DEF DataSetComparison, A_better, B_better
    <3> QED BY <3>1 DEF Displaces
  <2>3. After(a, b) <=> Lower(b.quality, a.quality) \/ (a.quality = b.quality /\ b.gm < a.gm)
    BY <1>2, <1>5 DEF After
  <2> QED BY <1>2, <1>3, <1>5, <2>1, <2>2, <2>3
<1> QED BY <1>4, <1>5

\* No record of the table comes after the one that the loop returns.
LEMMA ScanIsLast ==
  ASSUME Consistent, NEW c \in PtpClock, c.count > 0,
         \A s \in Entries(c) : c.records[s].src # OwnPort /\ c.records[s] \in Announced
  PROVE  \A s \in Entries(c) : ~After(c.records[s], c.records[Scan(c)])
<1>0. Capacity \in Nat \ {0} /\ c.count \in 0 .. Capacity /\ Slot = 0 .. Capacity - 1
  BY CapacityAssumption DEF PtpClock, Slot
<1>1. PICK h : /\ Scan(c) = h[c.count - 1]
               /\ h[0] = 0
               /\ \A n \in Slot : h[n] \in 0 .. n
               /\ \A n \in Slot : n # 0 =>
                    h[n] = IF Displaces(c.records[n], c.records[h[n - 1]]) THEN n ELSE h[n - 1]
  BY ScanLoop
<1>2. \A s \in Entries(c) : c.records[s] \in Announce
  BY AnnouncedTypes
<1> DEFINE Last(n) == \A s \in 0 .. n : ~After(c.records[s], c.records[h[n]])
           S == {n \in Nat : n \in Entries(c) => Last(n)}
<1>3. 0 \in S
  <2>1. 0 \in Entries(c)
    BY <1>0 DEF Entries
  <2>2. ~After(c.records[0], c.records[0])
    BY <1>2, <2>1, AfterOrders
  <2> QED BY <1>1, <2>2
<1>4. ASSUME NEW n \in Nat, n \in S PROVE n + 1 \in S
  <2> SUFFICES ASSUME n + 1 \in Entries(c), NEW s \in 0 .. n + 1
               PROVE  ~After(c.records[s], c.records[h[n + 1]])
      OBVIOUS
  <2>1. /\ n \in Entries(c) /\ n + 1 \in Slot /\ n \in Slot /\ n + 1 # 0 /\ (n + 1) - 1 = n
        /\ s \in Entries(c) /\ (s # n + 1 => s \in 0 .. n)
    BY <1>0 DEF Entries
  <2>2. h[n] \in 0 .. n /\ h[n] \in Entries(c)
    BY <1>0, <1>1, <2>1 DEF Entries
  <2>3. Last(n)
    BY <1>4, <2>1
  <2>4. h[n + 1] = IF Displaces(c.records[n + 1], c.records[h[n]]) THEN n + 1 ELSE h[n]
    BY <1>1, <2>1
  <2>5. Displaces(c.records[n + 1], c.records[h[n]]) <=> After(c.records[n + 1], c.records[h[n]])
    BY <2>2, DisplacesIsAfter
  <2>6. ~After(c.records[n + 1], c.records[n + 1])
    BY <1>2, AfterOrders
  <2>7. After(c.records[s], c.records[n + 1]) /\ After(c.records[n + 1], c.records[h[n]])
          => After(c.records[s], c.records[h[n]])
    BY <1>2, <2>1, <2>2, AfterOrders
  <2>8. s = n + 1 \/ ~After(c.records[s], c.records[h[n]])
    BY <2>1, <2>3
  <2> QED BY <2>4, <2>5, <2>6, <2>7, <2>8
<1> HIDE DEF S
<1>5. Nat \subseteq S
  BY <1>3, <1>4, SetInduction
<1>6. c.count - 1 \in Nat /\ c.count - 1 \in Entries(c) /\ Entries(c) = 0 .. c.count - 1
  BY <1>0 DEF Entries
<1>7. Last(c.count - 1)
  BY <1>5, <1>6 DEF S
<1> QED BY <1>1, <1>6, <1>7

LEMMA MasteredOrderIndependent ==
  ASSUME Consistent, TypeOK, Mastered
  PROVE  OrderIndependent
<1> SUFFICES ASSUME NEW p \in Rearrangements PROVE Choice(Rearranged(p)) = Choice(clk)
    BY DEF OrderIndependent
<1> DEFINE d == Rearranged(p)
<1>0. Capacity \in Nat \ {0} /\ clk.count \in 0 .. Capacity /\ Slot = 0 .. Capacity - 1 /\ clk \in PtpClock
  BY CapacityAssumption DEF TypeOK, PtpClock, Slot
<1>1. p \in [Live -> Live] /\ (\A s, t \in Live : p[s] = p[t] => s = t) /\ Live = Entries(clk)
  BY DEF Rearrangements, Live, Entries
<1>2. Entries(clk) \subseteq Slot /\ clk.records \in [Slot -> Announce]
  BY <1>0 DEF Entries, PtpClock
<1>3. /\ d \in PtpClock /\ d.count = clk.count /\ Entries(d) = Entries(clk)
      /\ \A s \in Slot : d.records[s] = IF s \in Live THEN clk.records[p[s]] ELSE clk.records[s]
  BY <1>0, <1>1, <1>2 DEF Rearranged, PtpClock, Entries
<1> HIDE DEF d
<1>4. CASE clk.count = 0
  <2>1. Scan(d) = 0 /\ Scan(clk) = 0
    BY <1>3, <1>4 DEF Scan
  <2>2. 0 \in Slot /\ 0 \notin Live
    BY <1>0, <1>1, <1>4 DEF Entries
  <2>3. d.records[0] = clk.records[0]
    BY <1>3, <2>2
  <2> QED BY <2>1, <2>3 DEF Choice, d
<1>5. CASE clk.count > 0
  <2> DEFINE x == Scan(clk)
             y == Scan(d)
  <2>1. x \in Live /\ y \in Live
    BY <1>0, <1>1, <1>3, <1>5, ScanInTable
  <2>2. \A s \in Live : clk.records[s].src # OwnPort /\ clk.records[s] \in Announced
    BY <1>1 DEF Mastered, Distinct
  <2>3. \A s \in Live : d.records[s] = clk.records[p[s]]
    BY <1>1, <1>2, <1>3
  <2>4. \A s \in Entries(d) : d.records[s].src # OwnPort /\ d.records[s] \in Announced
    BY <1>1, <1>3, <2>2, <2>3
  <2>5. \A s \in Live : ~After(clk.records[s], clk.records[x])
    BY <1>0, <1>1, <1>5, <2>2, ScanIsLast
  <2>6. \A s \in Live : ~After(d.records[s], d.records[y])
    BY <1>1, <1>3, <1>5, <2>4, ScanIsLast
  <2> HIDE DEF x, y
  <2>7. PICK z \in Live : p[z] = x
    <3>1. IsFiniteSet(Live)
      BY <1>0, FS_Interval DEF Live
    <3>2. p \in Injection(Live, Live)
      BY <1>1 DEF Injection, IsInjective
    <3>3. p \in Surjection(Live, Live)
      BY <3>1, <3>2, FS_Injection
    <3> QED BY <2>1, <3>3 DEF Surjection
  <2>8. ~After(clk.records[x], d.records[y]) /\ ~After(d.records[y], clk.records[x])
    BY <1>1, <2>1, <2>3, <2>5, <2>6, <2>7
  <2>9. clk.records[x] \in Announce /\ d.records[y] \in Announce
    BY <1>1, <1>2, <1>3, <2>1 DEF PtpClock
  <2>10. /\ clk.records[x].gm = d.records[y].gm
         /\ clk.records[x].steps = d.records[y].steps
         /\ clk.records[x].src[1] = d.records[y].src[1]
    BY <2>8, <2>9, AfterOrders
  <2> QED BY <2>10 DEF Choice, d, x, y
<1> QED BY <1>0, <1>4, <1>5

\* OrderIndependent: when the announcements are consistent, bmc chooses the same
\* master in whatever order they arrived and whatever slots addForeign gave them;
\* its pairwise comparisons have no cycle, for a table of any size.
THEOREM ChoiceIsOrderIndependent ==
  ASSUME Consistent
  PROVE  Spec => []OrderIndependent
<1>1. TypeOK /\ Mastered => OrderIndependent
  BY MasteredOrderIndependent
<1> QED BY <1>1, AlwaysMastered, TypeCorrect, PTL
=============================================================================
