---------------------------- MODULE TimerService ----------------------------
(***************************************************************************)
(* dep/timer.c above the FreeRTOS timer service.  timerStart and timerStop *)
(* do not touch a timer: they post a command to the service's bounded      *)
(* queue, without waiting and without looking at the result.  The service  *)
(* has a lower priority than the PTP thread, so that it processes commands *)
(* and expiries only while the PTP thread waits for its mailbox.  The      *)
(* timers are started and stopped by toState, handleAnnounce and           *)
(* issueDelayReqTimerExpired (protocol.c).  The shell can end the PTP      *)
(* thread and start another, which creates the timers anew.                *)
(* The service is timers.c of Middlewares/FreeRTOS, with the two commands  *)
(* used here.  A period is taken to be longer than a command waits in the  *)
(* queue: the branch for a timer that has expired before its start is      *)
(* processed is left out.                                                  *)
(***************************************************************************)
EXTENDS Integers, Sequences, SequencesExt

CONSTANTS
  QueueLength,      \* configTIMER_QUEUE_LENGTH
  P2P,              \* delayMechanism is P2P
  SlaveOnly,        \* defaultDS.slaveOnly
  MaxStarts         \* how often the shell starts the PTP thread

ServiceAssumption ==
  /\ QueueLength \in Nat \ {0}
  /\ P2P \in BOOLEAN
  /\ SlaveOnly \in BOOLEAN
  /\ MaxStarts \in Nat \ {0}

VARIABLES
  role,             \* the port state
  waiting,          \* the PTP thread waits for its mailbox
  starts,           \* starts of the PTP thread, of which the last owns ptpdTimers
  expired,          \* ptpdTimersExpired
  queue,            \* commands posted to the service
  active,           \* timers that run, as <<start that created it, index>>
  firing,           \* the expired timers whose callback the service is about to call
  lost              \* timers whose last command found the queue full

vars == <<role, waiting, starts, expired, queue, active, firing, lost>>

Timers ==
  {"PDELAYREQ_INTERVAL", "DELAYREQ_INTERVAL", "SYNC_INTERVAL", "ANNOUNCE_RECEIPT", "ANNOUNCE_INTERVAL"}

\* The port states, PTP_UNCALIBRATED and PTP_SLAVE being one.
Roles == IF SlaveOnly THEN {"LISTENING", "SLAVE"} ELSE {"LISTENING", "SLAVE", "PASSIVE", "MASTER"}

Commands == [op : {"start", "stop"}, start : 1 .. MaxStarts, timer : Timers]

DelayTimer == IF P2P THEN "PDELAYREQ_INTERVAL" ELSE "DELAYREQ_INTERVAL"

PeerDelayTimer == IF P2P THEN <<"PDELAYREQ_INTERVAL">> ELSE <<>>

Init ==
  /\ role = "LISTENING"
  /\ waiting = FALSE
  /\ starts = 1
  /\ expired = {}
  /\ queue = <<[op |-> "start", start |-> 1, timer |-> "ANNOUNCE_RECEIPT"]>>
  /\ active = {}
  /\ firing = {}
  /\ lost = {}

-----------------------------------------------------------------------------
(* timer.c.                                                                *)

\* The calls of timerStart or timerStop in a row: each resets the flag and posts.
Issue(calls) ==
  LET cmds == [i \in DOMAIN calls |-> [op |-> calls[i][1], start |-> starts, timer |-> calls[i][2]]]
      room == QueueLength - Len(queue)
      all  == queue \o cmds
      last(t) == CHOOSE i \in DOMAIN calls :
                   calls[i][2] = t /\ \A j \in DOMAIN calls : calls[j][2] = t => j <= i
      T    == {calls[i][2] : i \in DOMAIN calls}
  IN  /\ queue' = SubSeq(all, 1, IF Len(calls) <= room THEN Len(all) ELSE QueueLength)
      /\ expired' = expired \ T
      /\ lost' = (lost \ T) \cup {t \in T : last(t) > room}

TimerStart(ts) == [i \in DOMAIN ts |-> <<"start", ts[i]>>]

TimerStop(ts) == [i \in DOMAIN ts |-> <<"stop", ts[i]>>]

-----------------------------------------------------------------------------
(* The PTP thread.                                                         *)

\* Fault: PTP_MASTER leaves the Announce timer running.
Leave_MasterAnnounces(from) ==
  CASE from = "MASTER" -> <<"SYNC_INTERVAL", "PDELAYREQ_INTERVAL">>
    [] from = "SLAVE" -> <<"ANNOUNCE_RECEIPT", DelayTimer>>
    [] from = "PASSIVE" -> <<"PDELAYREQ_INTERVAL", "ANNOUNCE_RECEIPT">>
    [] from = "LISTENING" -> <<"ANNOUNCE_RECEIPT">>

\* The timers toState stops when it leaves a state, in its order.
Leave(from) ==
  CASE from = "MASTER" -> <<"SYNC_INTERVAL", "ANNOUNCE_INTERVAL", "PDELAYREQ_INTERVAL">>
    [] from = "SLAVE" -> <<"ANNOUNCE_RECEIPT", DelayTimer>>
    [] from = "PASSIVE" -> <<"PDELAYREQ_INTERVAL", "ANNOUNCE_RECEIPT">>
    [] from = "LISTENING" -> <<"ANNOUNCE_RECEIPT">>

\* The timers toState starts when it enters a state.
Enter(to) ==
  CASE to = "MASTER" -> <<"SYNC_INTERVAL", "ANNOUNCE_INTERVAL">> \o PeerDelayTimer
    [] to = "SLAVE" -> <<"ANNOUNCE_RECEIPT", DelayTimer>>
    [] to = "PASSIVE" -> <<"ANNOUNCE_RECEIPT">> \o PeerDelayTimer
    [] to = "LISTENING" -> <<"ANNOUNCE_RECEIPT">>

\* toState, between two states: only a slave-only clock goes back to PTP_LISTENING.
ToState(to) ==
  /\ ~waiting
  /\ to # role
  /\ to = "LISTENING" => SlaveOnly
  /\ Issue(TimerStop(Leave(role)) \o TimerStart(Enter(to)))
  /\ role' = to
  /\ UNCHANGED <<waiting, starts, active, firing>>

\* handleAnnounce of the parent's, or in PTP_PASSIVE of any, Announce.
HandleAnnounce ==
  /\ ~waiting
  /\ role \in {"SLAVE", "PASSIVE"}
  /\ Issue(TimerStart(<<"ANNOUNCE_RECEIPT">>))
  /\ UNCHANGED <<role, waiting, starts, active, firing>>

\* Fault: the timer is stopped where it should be started again.
DelayTimerExpired_Stops ==
  /\ ~waiting
  /\ role = "SLAVE" \/ (P2P /\ role # "LISTENING")
  /\ DelayTimer \in expired
  /\ Issue(TimerStop(<<DelayTimer>>))
  /\ UNCHANGED <<role, waiting, starts, active, firing>>

\* issueDelayReqTimerExpired: timerExpired, then timerStart of the same timer.
DelayTimerExpired ==
  /\ ~waiting
  /\ role = "SLAVE" \/ (P2P /\ role # "LISTENING")
  /\ DelayTimer \in expired
  /\ Issue(TimerStart(<<DelayTimer>>))
  /\ UNCHANGED <<role, waiting, starts, active, firing>>

\* timerExpired of a timer that is not started again.
TimerExpired(t) ==
  /\ ~waiting
  /\ \/ role = "MASTER" /\ t \in {"SYNC_INTERVAL", "ANNOUNCE_INTERVAL"}
     \/ role # "MASTER" /\ t = "ANNOUNCE_RECEIPT"
  /\ t \in expired
  /\ expired' = expired \ {t}
  /\ UNCHANGED <<role, waiting, starts, queue, active, firing, lost>>

\* The end of the loop of ptpd_thread: sys_arch_mbox_fetch, with a timeout.
Wait ==
  /\ ~waiting
  /\ waiting' = TRUE
  /\ UNCHANGED <<role, starts, expired, queue, active, firing, lost>>

Wake ==
  /\ waiting
  /\ waiting' = FALSE
  /\ UNCHANGED <<role, starts, expired, queue, active, firing, lost>>

\* "ptpd stop" and "ptpd start", while the PTP thread waits: doInit, initTimer, and
\* toState of PTP_LISTENING.  The timers of the thread that ended are not stopped.
Restart ==
  /\ waiting
  /\ starts < MaxStarts
  /\ starts' = starts + 1
  /\ role' = "LISTENING"
  /\ waiting' = FALSE
  /\ LET cmd == [op |-> "start", start |-> starts + 1, timer |-> "ANNOUNCE_RECEIPT"]
     IN  IF Len(queue) < QueueLength THEN queue' = Append(queue, cmd) /\ lost' = {}
         ELSE lost' = {"ANNOUNCE_RECEIPT"} /\ UNCHANGED queue
  /\ expired' = {}
  /\ UNCHANGED <<active, firing>>

-----------------------------------------------------------------------------
(* The timer service.                                                      *)

Apply(set, cmd) ==
  IF cmd.op = "start" THEN set \cup {<<cmd.start, cmd.timer>>} ELSE set \ {<<cmd.start, cmd.timer>>}

Process ==
  /\ waiting
  /\ firing = {}
  /\ queue # <<>>
  /\ active' = Apply(active, Head(queue))
  /\ queue' = Tail(queue)
  /\ UNCHANGED <<role, waiting, starts, expired, firing, lost>>

\* A timer's period ends: the service finds it, then calls timerCallback.
Expire(x) ==
  /\ waiting
  /\ firing = {}
  /\ x \in active
  /\ firing' = {x}
  /\ UNCHANGED <<role, waiting, starts, expired, queue, active, lost>>

TimerCallback ==
  /\ waiting
  /\ firing # {}
  /\ expired' = expired \cup {x[2] : x \in firing}
  /\ firing' = {}
  /\ UNCHANGED <<role, waiting, starts, queue, active, lost>>

Handles == (1 .. MaxStarts) \X Timers

Next ==
  \/ \E to \in Roles : ToState(to)
  \/ HandleAnnounce
  \/ DelayTimerExpired
  \/ \E t \in Timers : TimerExpired(t)
  \/ Wait
  \/ Wake
  \/ Restart
  \/ Process
  \/ \E x \in Handles : Expire(x)
  \/ TimerCallback

Spec == Init /\ [][Next]_vars

Intervals == (1 .. MaxStarts) \X {DelayTimer, "SYNC_INTERVAL", "ANNOUNCE_INTERVAL"}

\* The PTP thread comes to wait and to wake again and again, the service finishes what
\* it does in between, and the period of an interval timer that runs ends again and
\* again; nothing is asked of the announce receipt timer, which may be restarted for ever.
Fairness ==
  /\ WF_vars(Wait)
  /\ WF_vars(Wake)
  /\ SF_vars(Process)
  /\ SF_vars(TimerCallback)
  /\ WF_vars(\E t \in Timers : TimerExpired(t))
  /\ \A x \in Intervals : SF_vars(Expire(x))

FairSpec == Spec /\ Fairness

-----------------------------------------------------------------------------
(* Properties.                                                             *)

TypeOK ==
  /\ role \in Roles
  /\ waiting \in BOOLEAN
  /\ starts \in 1 .. MaxStarts
  /\ expired \subseteq Timers
  /\ Len(queue) <= QueueLength /\ \A i \in DOMAIN queue : queue[i] \in Commands
  /\ active \subseteq Handles
  /\ firing \subseteq active
  /\ lost \subseteq Timers

\* The timers that run, of those in set at first, once the commands of q are processed.
Processed(set, q) ==
  LET after[n \in 0 .. Len(q)] == IF n = 0 THEN set ELSE Apply(after[n - 1], q[n])
  IN  after[Len(q)]

\* The timers that ptpdTimers holds and that run once the queue is processed.
Settled == {t \in Timers : <<starts, t>> \in Processed(active, queue)}

\* A command that found room is never undone by one posted before it: but for the
\* timers whose last command was lost, exactly the timers of the port's state run
\* once the service has caught up, through restarts of the PTP thread too.
CommandsAgree == \A t \in Timers \ lost : t \in Settled <=> t \in ToSet(Enter(role))

\* The intervals of a master, and a slave's delay requests, never cease: no timeout is
\* lost for good between timerExpired, timerStart and the service.
KeepsFiring ==
  /\ \A t \in {"SYNC_INTERVAL", "ANNOUNCE_INTERVAL"} :
       <>[](role = "MASTER" /\ t \notin lost) => []<>(t \in expired)
  /\ <>[](role = "SLAVE" /\ DelayTimer \notin lost) => []<>(DelayTimer \in expired)

\* timer.c:60, timerStart: "Set the timer duration and start the timer.": once the
\* service has caught up, the timers of the port's state run.
StartTakesEffect == ToSet(Enter(role)) \subseteq Settled

\* timer.c:5: "An array to hold the various system timer handles.": a timer that runs,
\* and will mark its index as expired, is one of those in the array.
HandlesHeld == \A x \in active : x[1] = starts
=============================================================================
