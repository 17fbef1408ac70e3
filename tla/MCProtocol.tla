----------------------------- MODULE MCProtocol -----------------------------
(* The exchanges of messages and commands below the port state machine: the  *)
(* end-to-end delay measurement (module DelayE2E), the peer delay            *)
(* measurement with two-step and with one-step peers (PeerDelay), and the    *)
(* timers above the timer service (TimerService), for every role of the port *)
(* and, slave-only, across a restart of the PTP thread; and the register     *)
(* accesses that read and set the clock (PtpTime).                           *)
(* They share no state: one of them is chosen at the start and runs, and the *)
(* variables of the others keep their initial values.                        *)
EXTENDS DelayE2E, TLC

CONSTANTS
  G, MaxSec, Settings                                                  \* PtpTime

VARIABLES
  part,                                                                \* which of them runs
  peer, preqs, pnet, pdelay, unfinished,                                    \* PeerDelay
  role, waiting, starts, expired, queue, active, firing, lost,         \* TimerService
  now, update, tssti, pc, val, began, disturbed                        \* PtpTime

peerVars == <<peer, preqs, pnet, pdelay, unfinished>>
timerVars == <<role, waiting, starts, expired, queue, active, firing, lost>>
timeVars == <<now, update, tssti, pc, val, began, disturbed>>

TwoStepPeer == INSTANCE PeerDelay WITH
  Peers <- {"P"}, RequestTwoStep <- TRUE, PeerTwoStep <- TRUE, TxStamps <- {TRUE},
  clk <- peer, reqs <- preqs, net <- pnet, delay <- pdelay
OneStepPeers == INSTANCE PeerDelay WITH
  Peers <- {"P", "Q"}, RequestTwoStep <- FALSE, PeerTwoStep <- FALSE, TxStamps <- BOOLEAN,
  clk <- peer, reqs <- preqs, net <- pnet, delay <- pdelay

Timer == INSTANCE TimerService WITH QueueLength <- 3, P2P <- FALSE, SlaveOnly <- FALSE, MaxStarts <- 1
TimerAgain == INSTANCE TimerService WITH QueueLength <- 3, P2P <- TRUE, SlaveOnly <- TRUE, MaxStarts <- 2

Registers == INSTANCE PtpTime

\* Two times to set with different halves, so that a mixture of them is neither.
MixableSettings == {[sec |-> 0, sub |-> 1], [sec |-> 1, sub |-> 0]}

ASSUME TwoStepAssumption ==
  /\ TwoStepPeer!PeersAssumption /\ TwoStepPeer!SeqAssumption
  /\ TwoStepPeer!FlagsAssumption /\ TwoStepPeer!TxStampsAssumption
ASSUME OneStepAssumption == OneStepPeers!SeqAssumption /\ OneStepPeers!TxStampsAssumption
ASSUME TimersAssumption == Timer!ServiceAssumption /\ TimerAgain!ServiceAssumption
ASSUME TimeAssumption == Registers!TimeAssumption

ProtocolInit ==
  /\ part \in {"delay", "twoStep", "oneStep", "timers", "timersAgain", "time"}
  /\ Init
  /\ part # "delay" => clk.parent = CHOOSE m \in Masters : TRUE
  /\ TwoStepPeer!Init
  /\ Timer!Init
  /\ Registers!Init

ProtocolNext ==
  /\ \/ part = "delay" /\ Next /\ UNCHANGED <<peerVars, timerVars, timeVars>>
     \/ part = "twoStep" /\ TwoStepPeer!Next /\ UNCHANGED <<vars, timerVars, timeVars>>
     \/ part = "oneStep" /\ OneStepPeers!Next /\ UNCHANGED <<vars, timerVars, timeVars>>
     \/ part = "timers" /\ Timer!Next /\ UNCHANGED <<vars, peerVars, timeVars>>
     \/ part = "timersAgain" /\ TimerAgain!Next /\ UNCHANGED <<vars, peerVars, timeVars>>
     \/ part = "time" /\ Registers!Next /\ UNCHANGED <<vars, peerVars, timerVars>>
  /\ UNCHANGED part

ProtocolSpec == ProtocolInit /\ [][ProtocolNext]_<<part, vars, peerVars, timerVars, timeVars>>

\* The masters are interchangeable.
MasterSymmetry == Permutations(Masters)

\* A peer delay (handlePDelayResp, handlePDelayRespFollowUp) is completed by an answer to
\* the latest request, whatever comes late or twice; its t2 and t4 are of one answer, and
\* of one to that same request unless the request was sent while the follow up of an
\* earlier answer was awaited, the one way in which two exchanges are mixed.  While a
\* follow up is awaited these stamps are stored: initClock, called in between, ends the
\* wait with them.  The counter keeps the range of int16_t.
PeerHalvesPaired ==
  /\ part = "twoStep" => TwoStepPeer!TypeOK /\ TwoStepPeer!HalvesPaired /\ TwoStepPeer!AwaitedHasStamps
  /\ part = "oneStep" => OneStepPeers!TypeOK /\ OneStepPeers!HalvesPaired

\* But for the timers whose last command found the queue full, exactly the timers of the
\* port's state run once the service has caught up, across restarts too; the queue keeps
\* its bound.
TimerCommandsAgree ==
  /\ part = "timers" => Timer!TypeOK /\ Timer!CommandsAgree
  /\ part = "timersAgain" => TimerAgain!TypeOK /\ TimerAgain!CommandsAgree

\* A time that getTime returns is not before the moment of the call, and ahead of the
\* counter by less than a second, when nobody sets the clock meanwhile: what reading the
\* low register first guarantees, however long the task was preempted between the reads.
ReadNotBehind == Registers!ReadNotBehind

\* A setTime that no other task disturbs has set the clock to its argument, and not to a
\* mixture with an earlier one, when it returns; and as long as the clock is still to be
\* loaded, a call is waiting for it.
SetExact == Registers!SetExact /\ Registers!NoLateLoad
=============================================================================
