------------------------------ MODULE PtpPort -------------------------------
(***************************************************************************)
(* The protocol engine of protocol.c: the PTP port state machine, driven   *)
(* by the PTP thread calling doState, by the timer service calling         *)
(* timerCallback, and by whatever messages the network delivers.           *)
(*                                                                         *)
(* clk is the part of the PtpClock struct the control flow depends on,     *)
(* with the timers of dep/timer.c; each C function that changes the struct *)
(* is an operator from struct to struct of the same name.  doState is two  *)
(* steps, Decide (the state decision and the transition it recommends) and *)
(* the actions of the port state, so that timer callbacks fall in between. *)
(*                                                                         *)
(* Left out: time stamps, the delay measurement and sequence numbers other *)
(* than the Sync/Follow_Up pairing.  The result of updateOffset is a       *)
(* nondeterministic choice among the classes of offset it tells apart.     *)
(* netSend always reports success, so sending never changes the state.     *)
(***************************************************************************)
EXTENDS Bmc

CONSTANTS
  Messages,     \* the messages the network may deliver
  SeqIds,       \* their sequence numbers
  P2P           \* portDS.delayMechanism = P2P (else E2E)

VARIABLES
  clk,          \* the PtpClock struct
  pc,           \* PTP thread: "decide" or "act", the two halves of doState
  firing,       \* timers whose expiry the timer service has picked up, callback pending
  hist          \* what the properties remember, read by no action

vars == <<clk, pc, firing, hist>>

States == {"INITIALIZING", "FAULTY", "LISTENING", "MASTER", "PASSIVE", "UNCALIBRATED", "SLAVE"}

Timers == {"ANNOUNCE_RECEIPT", "SYNC_INTERVAL", "ANNOUNCE_INTERVAL", "DELAYREQ_INTERVAL", "PDELAYREQ_INTERVAL"}

Events == {"STATE_DECISION", "MASTER_CLOCK_SELECTED", "MASTER_CLOCK_CHANGED", "SYNCHRONIZATION_FAULT"}

MessageTypes == {"ANNOUNCE", "SYNC", "FOLLOW_UP", "DELAY_REQ", "DELAY_RESP", "PDELAY_REQ", "PDELAY_RESP",
                 "PDELAY_RESP_FOLLOW_UP", "MANAGEMENT", "SIGNALING", "OTHER"}

\* "OTHER" is a message of another version, domain or type.  short says that the
\* message is shorter than its handler requires; for "OTHER", than the header.
Message == [type : MessageTypes, src : PortIdentity, short : BOOLEAN, seq : SeqIds, twoStep : BOOLEAN, body : Announce]

ASSUME MessagesAssumption == Messages \subseteq Message
\* The sender of a data set is the sourcePortIdentity of the header it comes with,
\* and no clock announces the content of a record that was never written.
ASSUME AnnounceAssumption ==
  \A m \in Messages : m.type = "ANNOUNCE" => m.body.src = m.src /\ m.body # ZeroRecord
ASSUME SeqIdsAssumption == SeqIds # {}
ASSUME P2PAssumption == P2P \in BOOLEAN

PtpClock ==
  [portState : States,
   recommendedState : States,
   events : SUBSET Events,
   records : [Slot -> Announce], count : 0 .. Capacity, i : Slot, best : Slot,
   parent : PortIdentity,            \* parentDS.parentPortIdentity
   parentData : Announce,            \* the rest of parentDS: the data set adopted
   running : SUBSET Timers,          \* timers started and not stopped
   expired : SUBSET Timers,          \* ptpdTimersExpired
   waitingForFollowUp : BOOLEAN,
   recvSyncSequenceId : SeqIds]

History ==
  [calibratedBy : PortIdentity,      \* sender of the Sync that earned MASTER_CLOCK_SELECTED
   syncFrom : PortIdentity,          \* sender of the Sync whose ingress time is stored
   mixed : BOOLEAN,                  \* the last Follow_Up was paired with another master's Sync
   heard : Announce]                 \* last data set heard from the current parent

\* The states in which doState waits for a master's Announce messages.
Receivers == {"LISTENING", "UNCALIBRATED", "SLAVE", "PASSIVE"}

\* The states in which doState looks at STATE_DECISION_EVENT.
Deciding == Receivers \cup {"MASTER"}

Synchronizing == {"UNCALIBRATED", "SLAVE"}

\* What updateOffset and updateClock can find the offset from the master to be:
\* whole seconds, more than MAX_ADJ_OFFSET_NS, more than DEFAULT_UNCALIBRATED_OFFSET_NS,
\* in between, or less than DEFAULT_CALIBRATED_OFFSET_NS.
Offsets == {"seconds", "jump", "large", "between", "calibrated"}

DelayTimer == IF P2P THEN "PDELAYREQ_INTERVAL" ELSE "DELAYREQ_INTERVAL"

PeerDelayTimer == IF P2P THEN {"PDELAYREQ_INTERVAL"} ELSE {}

-----------------------------------------------------------------------------
(* dep/timer.c and the state changes of protocol.c.                        *)

\* timerStart of each timer in T.
TimerStart(c, T) == [c EXCEPT !.running = @ \cup T, !.expired = @ \ T]

\* timerStop of each timer in T.
TimerStop(c, T) == [c EXCEPT !.running = @ \ T, !.expired = @ \ T]

\* initClock, of which only the Sync/Follow_Up pairing matters here.
InitClock(c) == [c EXCEPT !.waitingForFollowUp = FALSE]

\* Fault: the break for UNCALIBRATED <-> SLAVE is missing.
Leave_NoBreak(c, to) ==
  CASE c.portState = "MASTER" ->
         TimerStop(InitClock(c), {"SYNC_INTERVAL", "ANNOUNCE_INTERVAL", "PDELAYREQ_INTERVAL"})
    [] c.portState \in Synchronizing -> InitClock(TimerStop(c, {"ANNOUNCE_RECEIPT", DelayTimer}))
    [] c.portState = "PASSIVE" ->
         TimerStop(InitClock(c), {"PDELAYREQ_INTERVAL", "ANNOUNCE_RECEIPT"})
    [] c.portState = "LISTENING" -> TimerStop(InitClock(c), {"ANNOUNCE_RECEIPT"})
    [] OTHER -> c

\* Fault: PTP_PASSIVE does not stop the peer delay timer.
Leave_PassiveKeepsPeerDelay(c, to) ==
  CASE c.portState = "MASTER" ->
         TimerStop(InitClock(c), {"SYNC_INTERVAL", "ANNOUNCE_INTERVAL", "PDELAYREQ_INTERVAL"})
    [] c.portState \in Synchronizing ->
         IF to \in Synchronizing THEN c
         ELSE InitClock(TimerStop(c, {"ANNOUNCE_RECEIPT", DelayTimer}))
    [] c.portState \in {"PASSIVE", "LISTENING"} -> TimerStop(InitClock(c), {"ANNOUNCE_RECEIPT"})
    [] OTHER -> c

\* The leaving tasks of toState.
Leave(c, to) ==
  CASE c.portState = "MASTER" ->
         TimerStop(InitClock(c), {"SYNC_INTERVAL", "ANNOUNCE_INTERVAL", "PDELAYREQ_INTERVAL"})
    [] c.portState \in Synchronizing ->
         IF to \in Synchronizing THEN c
         ELSE InitClock(TimerStop(c, {"ANNOUNCE_RECEIPT", DelayTimer}))
    [] c.portState = "PASSIVE" ->
         TimerStop(InitClock(c), {"PDELAYREQ_INTERVAL", "ANNOUNCE_RECEIPT"})
    [] c.portState = "LISTENING" ->
         TimerStop(InitClock(c), {"ANNOUNCE_RECEIPT"})
    [] OTHER -> c

\* Fault: PTP_UNCALIBRATED does not start the announce receipt timer.
StartedBy_NoReceipt(to) ==
  CASE to = "LISTENING" -> {"ANNOUNCE_RECEIPT"}
    [] to = "MASTER" -> {"SYNC_INTERVAL", "ANNOUNCE_INTERVAL"} \cup PeerDelayTimer
    [] to = "PASSIVE" -> {"ANNOUNCE_RECEIPT"} \cup PeerDelayTimer
    [] to = "UNCALIBRATED" -> {DelayTimer}
    [] OTHER -> {}

\* The timers that the entering tasks of toState start.
StartedBy(to) ==
  CASE to = "LISTENING" -> {"ANNOUNCE_RECEIPT"}
    [] to = "MASTER" -> {"SYNC_INTERVAL", "ANNOUNCE_INTERVAL"} \cup PeerDelayTimer
    [] to = "PASSIVE" -> {"ANNOUNCE_RECEIPT"} \cup PeerDelayTimer
    [] to = "UNCALIBRATED" -> {"ANNOUNCE_RECEIPT", DelayTimer}
    [] OTHER -> {}

\* Fault: PTP_FAULTY recommends a new initialization.
ToState_FaultReinitializes(c, to) ==
  [TimerStart(Leave(c, to), StartedBy(to)) EXCEPT
     !.portState = to,
     !.recommendedState = CASE to = "FAULTY" -> "INITIALIZING"
                            [] to \in {"INITIALIZING", "LISTENING"} -> to
                            [] OTHER -> @]

\* toState.  PTP_PRE_MASTER falls through to PTP_MASTER in the code, so the port
\* never rests in it and the model has no such state.
ToState(c, to) ==
  [TimerStart(Leave(c, to), StartedBy(to)) EXCEPT
     !.portState = to,
     !.recommendedState = IF to \in {"INITIALIZING", "LISTENING"} THEN to ELSE @]

-----------------------------------------------------------------------------
(* Data set updates of bmc.c.                                              *)

\* Fault: the parent port identity is left as it was.
M1_KeepParent(c) == [c EXCEPT !.parentData = D0]

M1(c) == [c EXCEPT !.parent = OwnParent, !.parentData = D0]

\* Fault: the change of master is not signalled.
S1_Silent(c, a) == [c EXCEPT !.parent = a.src, !.parentData = a]

S1(c, a) ==
  [c EXCEPT !.events = IF c.parent # a.src THEN @ \cup {"MASTER_CLOCK_CHANGED"} ELSE @,
            !.parent = a.src,
            !.parentData = a]

\* The first half of doState: bmc on the chosen record, and its recommendation.
StateDecision(c, chosen) ==
  LET r == Recommend(c, chosen, c.portState = "LISTENING")
      d == CASE r.apply = "m1" -> M1(c)
             [] r.apply = "s1" -> S1(c, c.records[chosen])
             [] OTHER -> c
  IN  [d EXCEPT !.best = chosen,
                !.events = @ \ {"STATE_DECISION"},
                !.recommendedState = IF r.state \in {"MASTER", "PASSIVE"} /\ ~MayBeMaster
                                     THEN "LISTENING" ELSE r.state]

Clear(c, e) == [c EXCEPT !.events = @ \ {e}]

\* doState with PTP_SLAVE recommended.
FollowSlave(c) ==
  CASE c.portState = "UNCALIBRATED" ->
         Clear(IF "MASTER_CLOCK_SELECTED" \in c.events
               THEN ToState(Clear(c, "MASTER_CLOCK_SELECTED"), "SLAVE") ELSE c,
               "MASTER_CLOCK_CHANGED")
    [] c.portState = "SLAVE" ->
         LET d == IF "SYNCHRONIZATION_FAULT" \in c.events
                  THEN ToState(Clear(c, "SYNCHRONIZATION_FAULT"), "UNCALIBRATED") ELSE c
         IN  IF "MASTER_CLOCK_CHANGED" \in d.events
             THEN ToState(Clear(d, "MASTER_CLOCK_CHANGED"), "UNCALIBRATED") ELSE d
    [] OTHER -> ToState(c, "UNCALIBRATED")

\* The transition doState makes for the recommended state.
Follow(c) ==
  CASE c.recommendedState = "SLAVE" -> FollowSlave(c)
    [] c.recommendedState \in {"MASTER", "PASSIVE", "LISTENING"} ->
         IF c.portState = c.recommendedState THEN c ELSE ToState(c, c.recommendedState)
    [] OTHER -> c

-----------------------------------------------------------------------------
(* The message handlers.                                                   *)

HandleAnnounce(c, m) ==
  LET d == [c EXCEPT !.events = @ \cup {"STATE_DECISION"}]
  IN  CASE m.src = OwnPort -> c
        [] m.src # OwnPort /\ c.portState \in Synchronizing /\ c.parent = m.src ->
             TimerStart(S1(d, m.body), {"ANNOUNCE_RECEIPT"})
        [] m.src # OwnPort /\ c.portState \in Synchronizing /\ c.parent # m.src ->
             AddForeign(d, m.body)
        [] m.src # OwnPort /\ c.portState \notin Synchronizing ->
             AddForeign(IF c.portState = "PASSIVE" THEN TimerStart(d, {"ANNOUNCE_RECEIPT"}) ELSE d,
                        m.body)

\* Fault: MASTER_CLOCK_SELECTED whatever the state.
UpdateOffset_AnyState(c, offset) ==
  [c EXCEPT !.events =
     CASE offset = "calibrated" -> @ \cup {"MASTER_CLOCK_SELECTED"}
       [] offset \in {"seconds", "jump", "large"} /\ c.portState = "SLAVE" -> @ \cup {"SYNCHRONIZATION_FAULT"}
       [] OTHER -> @]

\* updateOffset: which servo event the new offset raises.
UpdateOffset(c, offset) ==
  [c EXCEPT !.events =
     CASE offset = "calibrated" /\ c.portState = "UNCALIBRATED" -> @ \cup {"MASTER_CLOCK_SELECTED"}
       [] offset \in {"seconds", "jump", "large"} /\ c.portState = "SLAVE" -> @ \cup {"SYNCHRONIZATION_FAULT"}
       [] OTHER -> @]

\* updateClock: too large an offset sets the clock and restarts the servo.
UpdateClock(c, offset) == IF offset \in {"seconds", "jump"} THEN InitClock(c) ELSE c

\* issueDelayReqTimerExpired: the request that is sent is not modelled.
IssueDelayReqTimerExpired(c) ==
  IF DelayTimer \in c.expired /\ (P2P \/ c.portState = "SLAVE")
  THEN TimerStart(c, {DelayTimer}) ELSE c

Synchronize(c, offset) == IssueDelayReqTimerExpired(UpdateClock(UpdateOffset(c, offset), offset))

FromParent(c, m) == c.portState \in Synchronizing /\ m.src # OwnPort /\ m.src = c.parent

HandleSync(c, m, offset) ==
  CASE FromParent(c, m) /\ m.twoStep ->
         [c EXCEPT !.waitingForFollowUp = TRUE, !.recvSyncSequenceId = m.seq]
    [] FromParent(c, m) /\ ~m.twoStep ->
         Synchronize([c EXCEPT !.waitingForFollowUp = FALSE], offset)
    [] c.portState = "PASSIVE" -> IssueDelayReqTimerExpired(c)
    [] OTHER -> c

Pairs(c, m) == FromParent(c, m) /\ c.waitingForFollowUp /\ c.recvSyncSequenceId = m.seq

HandleFollowUp(c, m, offset) ==
  CASE Pairs(c, m) -> Synchronize([c EXCEPT !.waitingForFollowUp = FALSE], offset)
    [] c.portState = "PASSIVE" /\ m.src # OwnPort -> IssueDelayReqTimerExpired(c)
    [] OTHER -> c

\* A message too short for its handler; the delay handlers of the other delay
\* mechanism return before they look at the length.
Faults(m) ==
  /\ m.short
  /\ \/ m.type \in {"ANNOUNCE", "SYNC", "FOLLOW_UP", "OTHER"}
     \/ ~P2P /\ m.type \in {"DELAY_REQ", "DELAY_RESP"}
     \/ P2P /\ m.type \in {"PDELAY_REQ", "PDELAY_RESP", "PDELAY_RESP_FOLLOW_UP"}

\* handle, given a message.  The delay handlers change nothing modelled here.
Handle(c, m, offset) ==
  CASE Faults(m) -> ToState(c, "FAULTY")
    [] ~Faults(m) /\ m.type = "ANNOUNCE" -> HandleAnnounce(c, m)
    [] ~Faults(m) /\ m.type = "SYNC" -> HandleSync(c, m, offset)
    [] ~Faults(m) /\ m.type = "FOLLOW_UP" -> HandleFollowUp(c, m, offset)
    [] OTHER -> c

\* What the properties remember of a message, c before and d after handling it.
Remember(c, m, d) ==
  [calibratedBy |-> IF "MASTER_CLOCK_SELECTED" \in d.events THEN m.src ELSE hist.calibratedBy,
   syncFrom |-> IF m.type = "SYNC" /\ ~Faults(m) /\ FromParent(c, m) THEN m.src ELSE hist.syncFrom,
   mixed |-> m.type = "FOLLOW_UP" /\ ~Faults(m) /\ Pairs(c, m) /\ hist.syncFrom # m.src,
   heard |-> IF m.type = "ANNOUNCE" /\ ~Faults(m) /\ FromParent(c, m) THEN m.body ELSE hist.heard]

-----------------------------------------------------------------------------
(* doState.                                                                *)

\* ptpdStartup: the struct is in zeroed memory, then toState(PTP_INITIALIZING).
Init ==
  /\ clk = [portState |-> "INITIALIZING", recommendedState |-> "INITIALIZING", events |-> {},
            records |-> [s \in Slot |-> ZeroRecord], count |-> 0, i |-> 0, best |-> 0,
            parent |-> <<0, 0>>, parentData |-> ZeroRecord,
            running |-> {}, expired |-> {},
            waitingForFollowUp |-> FALSE, recvSyncSequenceId |-> CHOOSE q \in SeqIds : TRUE]
  /\ pc = "decide"
  /\ firing = {}
  /\ hist = [calibratedBy |-> <<0, 0>>, syncFrom |-> <<0, 0>>, mixed |-> FALSE, heard |-> ZeroRecord]

\* A pending state decision is taken before the recommended state is followed.
DecideBmc ==
  /\ pc = "decide"
  /\ clk.portState \in Deciding
  /\ "STATE_DECISION" \in clk.events
  /\ \E chosen \in Slot :
       /\ chosen = Scan(clk)
       /\ LET d == StateDecision(clk, chosen)
          IN  /\ clk' = Follow(d)
              /\ hist' = [hist EXCEPT !.mixed = FALSE,
                                      !.heard = IF d.parent # clk.parent THEN d.parentData ELSE @]
  /\ pc' = "act"
  /\ UNCHANGED firing

\* No state decision is pending, or the port is not in a state that looks.
DecideNone ==
  /\ pc = "decide"
  /\ ~(clk.portState \in Deciding /\ "STATE_DECISION" \in clk.events)
  /\ clk' = Follow(clk)
  /\ hist' = [hist EXCEPT !.mixed = FALSE]
  /\ pc' = "act"
  /\ UNCHANGED firing

\* doInit succeeds: initData, initTimer, initClock, m1.
InitializeOk ==
  /\ pc = "act"
  /\ clk.portState = "INITIALIZING"
  /\ clk' = ToState(M1(InitClock([clk EXCEPT !.count = 0, !.running = {}, !.expired = {}])), "LISTENING")
  /\ pc' = "decide"
  /\ UNCHANGED <<firing, hist>>

\* netInit fails: no interface address yet.
InitializeFails ==
  /\ pc = "act"
  /\ clk.portState = "INITIALIZING"
  /\ clk' = ToState(clk, "FAULTY")
  /\ pc' = "decide"
  /\ UNCHANGED <<firing, hist>>

FaultCleared ==
  /\ pc = "act"
  /\ clk.portState = "FAULTY"
  /\ clk' = ToState(clk, "INITIALIZING")
  /\ pc' = "decide"
  /\ UNCHANGED <<firing, hist>>

\* Fault: the next free slot is not reset.
ForgetMasters_KeepIndex(c) == [c EXCEPT !.expired = @ \ {"ANNOUNCE_RECEIPT"}, !.count = 0]

\* The announce receipt timeout: the foreign masters are forgotten.
ForgetMasters(c) == [c EXCEPT !.expired = @ \ {"ANNOUNCE_RECEIPT"}, !.count = 0, !.i = 0]

\* Fault: the test for a slave-only clock is missing.
AnnounceReceiptTimeout_AlwaysMaster ==
  /\ pc = "act"
  /\ clk.portState \in Receivers
  /\ "ANNOUNCE_RECEIPT" \in clk.expired
  /\ clk' = ToState([M1(ForgetMasters(clk)) EXCEPT !.recommendedState = "MASTER"], "MASTER")
  /\ pc' = "decide"
  /\ UNCHANGED <<firing, hist>>

AnnounceReceiptTimeout ==
  /\ pc = "act"
  /\ clk.portState \in Receivers
  /\ "ANNOUNCE_RECEIPT" \in clk.expired
  /\ LET c == ForgetMasters(clk)
     IN  clk' = IF MayBeMaster
                THEN ToState([M1(c) EXCEPT !.recommendedState = "MASTER"], "MASTER")
                ELSE IF c.portState # "LISTENING" THEN ToState(c, "LISTENING") ELSE c
  /\ pc' = "decide"
  /\ UNCHANGED <<firing, hist>>

\* doState of a port that listens to a master, with a message to handle ...
Receive(m, offset) ==
  /\ pc = "act"
  /\ clk.portState \in Receivers
  /\ "ANNOUNCE_RECEIPT" \notin clk.expired
  /\ clk' = Handle(clk, m, offset)
  /\ hist' = Remember(clk, m, clk')
  /\ pc' = "decide"
  /\ UNCHANGED firing

\* ... and with none.
ReceiveNothing ==
  /\ pc = "act"
  /\ clk.portState \in Receivers
  /\ "ANNOUNCE_RECEIPT" \notin clk.expired
  /\ pc' = "decide"
  /\ UNCHANGED <<clk, firing, hist>>

\* timerExpired of the master's two interval timers: issueSync, issueFollowup and
\* issueAnnounce send their messages.
IssuePeriodic(c) == [c EXCEPT !.expired = @ \ {"SYNC_INTERVAL", "ANNOUNCE_INTERVAL"}]

MasterReceive(m, offset) ==
  /\ pc = "act"
  /\ clk.portState = "MASTER"
  /\ LET d == Handle(IssuePeriodic(clk), m, offset)
     IN  /\ clk' = IssueDelayReqTimerExpired(d)
         /\ hist' = Remember(clk, m, d)
  /\ pc' = "decide"
  /\ UNCHANGED firing

MasterIdle ==
  /\ pc = "act"
  /\ clk.portState = "MASTER"
  /\ clk' = IssueDelayReqTimerExpired(IssuePeriodic(clk))
  /\ pc' = "decide"
  /\ UNCHANGED <<firing, hist>>

-----------------------------------------------------------------------------
(* The FreeRTOS timer service: a task of its own, and of lower priority,   *)
(* that may be preempted anywhere between finding a timer expired and      *)
(* calling timerCallback.  The timers are periodic.                        *)

TimerElapses(t) ==
  /\ t \in clk.running
  /\ t \notin firing
  /\ firing' = firing \cup {t}
  /\ UNCHANGED <<clk, pc, hist>>

TimerCallback(t) ==
  /\ t \in firing
  /\ firing' = firing \ {t}
  /\ clk' = [clk EXCEPT !.expired = @ \cup {t}]
  /\ UNCHANGED <<pc, hist>>

-----------------------------------------------------------------------------
Decide == DecideBmc \/ DecideNone

Act ==
  \/ InitializeOk \/ InitializeFails \/ FaultCleared \/ AnnounceReceiptTimeout
  \/ \E m \in Messages, offset \in Offsets : Receive(m, offset) \/ MasterReceive(m, offset)
  \/ ReceiveNothing \/ MasterIdle

Next ==
  \/ Decide
  \/ Act
  \/ \E t \in Timers : TimerElapses(t) \/ TimerCallback(t)

Spec == Init /\ [][Next]_vars

(***************************************************************************)
(* Fairness.  ptpd_thread calls doState for ever (at least every 100 ms),  *)
(* and the timer service, although of lower priority, runs whenever the    *)
(* PTP thread waits for its mailbox: a running timer is eventually found   *)
(* expired and its callback eventually called.  Nothing is assumed of the  *)
(* network.                                                                *)
(***************************************************************************)
Fairness ==
  /\ WF_vars(Decide)
  /\ WF_vars(Act)
  /\ \A t \in Timers : WF_vars(TimerElapses(t)) /\ WF_vars(TimerCallback(t))

FairSpec == Spec /\ Fairness

-----------------------------------------------------------------------------
(* Properties.                                                             *)

TypeOK ==
  /\ clk \in PtpClock
  /\ pc \in {"decide", "act"}
  /\ firing \in SUBSET Timers
  /\ hist \in History

\* The timers that a port in state s needs.  A slave was uncalibrated before.
NeededBy(s) == StartedBy(IF s = "SLAVE" THEN "UNCALIBRATED" ELSE s)

\* Whatever path of toState calls led to a state, exactly the timers of that
\* state run: no transition of protocol.c leaves a timer running or stops one
\* that the new state relies on.
TimersMatchState == clk.running = NeededBy(clk.portState)

Live == 0 .. clk.count - 1

\* The foreign master table is a set of distinct masters in its first count
\* records, filled from 0; the port itself is never one of them.  addForeign
\* relies on this when it searches the table and when it picks slot i.
TableWellFormed ==
  /\ clk.count < Capacity => clk.i = clk.count
  /\ \A s \in Live : clk.records[s].src # OwnPort /\ clk.records[s] # ZeroRecord
  /\ \A s, t \in Live : clk.records[s].src = clk.records[t].src => s = t

\* best, which the announce timeout leaves stale, is used by addForeign only
\* after bmc has set it again: it never points past the end of a table in use.
BestInTable == clk.count > 0 /\ "STATE_DECISION" \notin clk.events => clk.best \in Live

\* The parent data set belongs to the role: a master is its own parent, a port
\* that synchronizes has the chosen foreign master, which is still in the table.
ParentMatchesRole ==
  /\ clk.portState = "MASTER" => clk.parent = OwnParent
  /\ clk.portState \in Synchronizing /\ "STATE_DECISION" \notin clk.events
       => clk.count > 0 /\ clk.parent = clk.records[clk.best].src

Rearrangements == {p \in [Live -> Live] : \A s, t \in Live : p[s] = p[t] => s = t}

\* The table with its records in the order p.
Rearranged(p) == [clk EXCEPT !.records = [s \in Slot |-> IF s \in Live THEN @[p[s]] ELSE @[s]]]

Choice(fm) == LET a == fm.records[Scan(fm)] IN <<a.gm, a.steps, a.src[1]>>

\* Which master bmc chooses does not depend on the order in which the Announce
\* messages arrived, that is on the slots addForeign gave them: the pairwise
\* bmcDataSetComparison has no cycle when a grandmaster's quality is the same in
\* all the messages that name it.
OrderIndependent == \A p \in Rearrangements : Choice(Rearranged(p)) = Choice(clk)

\* A slave was calibrated by a Sync of the very master it follows: neither a
\* change of master nor a servo event left over from an earlier master lets the
\* port skip PTP_UNCALIBRATED.
SlaveIsCalibrated == clk.portState = "SLAVE" => hist.calibratedBy = clk.parent

\* The servo's events never outlive the state they were raised in.
ServoEventsFresh ==
  /\ "MASTER_CLOCK_SELECTED" \in clk.events => clk.portState = "UNCALIBRATED"
  /\ "SYNCHRONIZATION_FAULT" \in clk.events => clk.portState = "SLAVE"

\* A clock that is slave-only (or of class 255) is never master, not even after
\* an announce receipt timeout.
SlaveOnlyNeverMaster == SlaveOnly \/ ClockClass = 255 => clk.portState \notin {"MASTER", "PASSIVE"}

\* doInit succeeds once: its queues, UDP control blocks and timers are never
\* created a second time, because a later fault is left along recommendedState
\* and not through PTP_INITIALIZING.  m1 at the end of doInit sets the parent.
InitializesOnce == clk.portState = "INITIALIZING" => clk.parent = <<0, 0>>

\* A step in which no foreign Announce arrives, no fault occurs and the servo
\* does not lose its master.
Quiet ==
  /\ "STATE_DECISION" \in clk'.events => "STATE_DECISION" \in clk.events
  /\ "SYNCHRONIZATION_FAULT" \in clk'.events => "SYNCHRONIZATION_FAULT" \in clk.events
  /\ clk'.portState # "FAULTY"

\* The announce receipt timeout works from every state: when from some time on
\* no Announce arrives and no message is too short, the port ends up master (a
\* slave-only clock listening), whatever Sync and delay messages still arrive.
\* The servo must not keep falling out of calibration meanwhile: toState restarts
\* the announce receipt timer each time it enters PTP_UNCALIBRATED, so Sync
\* messages that make a slave come and go keep it from taking over.
TakesOver == <>[][Quiet]_vars => <>[](clk.portState = IF MayBeMaster THEN "MASTER" ELSE "LISTENING")

-----------------------------------------------------------------------------
(* What comments of the code say and the code does not do.                 *)

\* bmc.c, s1: "Local clock is synchronized to Ebest": no other record of the table
\* is a better master than the chosen one.
SynchronizedToEbest ==
  clk.portState \in Synchronizing /\ pc = "act" =>
    \A s \in Live : DataSetComparison(clk.records[clk.best], clk.records[s]) # B_better

\* dep/timer.c, timerStop: "Cancel the timer and reset the expired flag."
ExpiredOnlyWhileRunning == clk.expired \subseteq clk.running

\* dep/servo.c, updateOffset: the offset is the ingress time of a Sync minus the
\* origin time that the Follow_Up of that same Sync carries.
FollowUpOfSameMaster == ~hist.mixed

\* protocol.c, handleAnnounce: on an Announce of the parent "BMC algorithm will be
\* executed"; its result is the data set the parent announced last.
ParentDataCurrent == clk.portState \in Synchronizing /\ pc = "act" => clk.parentData = hist.heard
=============================================================================
