------------------------------ MODULE MCEngine ------------------------------
(* The computations of the protocol engine, and what must go on happening in *)
(* it: the time arithmetic (module Arith), the filter of the path delay and  *)
(* of the offset (ServoFilter), the servo in closed loop                     *)
(* (Servo), the delay measurement of a slave (DelayE2E), the timers of a     *)
(* slave and of a master (TimerService), and the takeover of a port that     *)
(* hears no better clock any more (PtpPort).                                 *)
(* They share no state: one of them is chosen at the start and runs, and the *)
(* variables of the others keep their initial values.                        *)
EXTENDS Arith, Sequences, MCMessages

CONSTANTS
  FilterWidth,      \* the filter's integers; 32
  FilterOrder,      \* the order of the filter
  SampleSizes,      \* the magnitudes of its samples
  MaxError, MaxRate, Noise,                  \* the clock that the servo steers
  AdjFreqMax, MaxAdjOffset, Calibrated, Uncalibrated

VARIABLES
  part,                                                            \* which of them runs
  filt, lo, hi, overflow,                                          \* ServoFilter
  err, rate, drift, port, events, steps,                           \* Servo
  meas, reqs, resps, delay, measHist,                              \* DelayE2E
  role, waiting, starts, expired, queue, active, timerFiring, lost,  \* TimerService
  portClk, portPc, portFiring, portHist                            \* PtpPort

filterVars == <<filt, lo, hi, overflow>>
servoVars == <<err, rate, drift, port, events, steps>>
delayVars == <<meas, reqs, resps, delay, measHist>>
timerVars == <<role, waiting, starts, expired, queue, active, timerFiring, lost>>
portVars == <<portClk, portPc, portFiring, portHist>>

Filter == INSTANCE ServoFilter WITH
  Width <- FilterWidth, S <- FilterOrder, Magnitudes <- SampleSizes

ClockServo == INSTANCE Servo WITH MasterInterval <- 1

Delay == INSTANCE DelayE2E WITH
  Masters <- {"A"}, SeqMax <- 1, MaxAge <- 1, TxStamps <- {TRUE}, clk <- meas, hist <- measHist

SlaveTimers == INSTANCE TimerService WITH
  QueueLength <- 3, P2P <- FALSE, SlaveOnly <- TRUE, MaxStarts <- 1, firing <- timerFiring
MasterTimers == INSTANCE TimerService WITH
  QueueLength <- 2, P2P <- FALSE, SlaveOnly <- FALSE, MaxStarts <- 1, firing <- timerFiring

Port == INSTANCE PtpPort WITH
  OwnClock <- 3, OwnQuality <- Ordinary, SlaveOnly <- FALSE, Capacity <- 1, Messages <- QuietMessages,
  SeqIds <- {0, 1}, P2P <- FALSE, clk <- portClk, pc <- portPc, firing <- portFiring, hist <- portHist

\* A sample is below a second, 10^9 < 2^30, whatever its sign: updateDelay and updateOffset
\* do not filter when its seconds are not 0.
ASSUME FiltersAssumption == Filter!FilterAssumption

ASSUME SteeringAssumption == ClockServo!ServoAssumption
ASSUME SlaveTimers!ServiceAssumption /\ MasterTimers!ServiceAssumption

EngineInit ==
  /\ part \in {"arith", "filter", "servo", "delay", "slaveTimers", "masterTimers", "port"}
  /\ Init
  /\ Filter!Init
  /\ ClockServo!Init
  /\ part # "servo" => err = 0 /\ rate = 0
  /\ Delay!Init
  /\ SlaveTimers!Init
  /\ Port!Init

EngineNext ==
  /\ \/ /\ part = "arith" /\ Next
        /\ UNCHANGED <<filterVars, servoVars, delayVars, timerVars, portVars>>
     \/ /\ part = "filter" /\ Filter!Next
        /\ UNCHANGED <<vars, servoVars, delayVars, timerVars, portVars>>
     \/ /\ part = "servo" /\ ClockServo!Next
        /\ UNCHANGED <<vars, filterVars, delayVars, timerVars, portVars>>
     \/ /\ part = "delay" /\ Delay!Next
        /\ UNCHANGED <<vars, filterVars, servoVars, timerVars, portVars>>
     \/ /\ \/ part = "slaveTimers" /\ SlaveTimers!Next
           \/ part = "masterTimers" /\ MasterTimers!Next
        /\ UNCHANGED <<vars, filterVars, servoVars, delayVars, portVars>>
     \/ /\ part = "port" /\ Port!Next
        /\ UNCHANGED <<vars, filterVars, servoVars, delayVars, timerVars>>
  /\ UNCHANGED part

\* The fairness each module states for itself, asked of the part that runs: an action of
\* another part can never be taken, and must not count as enabled.  Conditions of two
\* parts are stated as one where that says the same, since only one of the parts runs.
OfServo(A) == part = "servo" /\ A /\ UNCHANGED <<delayVars, timerVars, portVars>>
OfDelay(A) == part = "delay" /\ A /\ UNCHANGED <<servoVars, timerVars, portVars>>
OfTimers(A) == part \in {"slaveTimers", "masterTimers"} /\ A /\ UNCHANGED <<servoVars, delayVars, portVars>>
OfPort(A) == part = "port" /\ A /\ UNCHANGED <<servoVars, delayVars, timerVars>>

runVars == <<servoVars, delayVars, timerVars, portVars>>

EngineFairness ==
  /\ WF_runVars(\/ OfServo(ClockServo!Next)
                \/ OfDelay(Delay!Expire)
                \/ OfTimers(MasterTimers!Wait)
                \/ OfPort(Port!Decide))
  /\ WF_runVars(OfTimers(MasterTimers!Wake) \/ OfPort(Port!Act))
  /\ WF_runVars(OfTimers(\E tm \in MasterTimers!Timers : MasterTimers!TimerExpired(tm)))
  /\ SF_runVars(\/ OfDelay(Delay!HandleSync("small", TRUE))
                \/ OfTimers(MasterTimers!Process))
  /\ SF_runVars(\/ OfDelay(Delay!Answer(meas.parent, [seq |-> 0, age |-> 0]))
                \/ OfTimers(MasterTimers!TimerCallback))
  /\ SF_runVars(\/ OfDelay(Delay!HandleDelayResp(
                     [from |-> meas.parent, requesting |-> "self", seq |-> 0, age |-> 0], FALSE))
                \/ OfTimers(MasterTimers!Expire(<<1, "DELAYREQ_INTERVAL">>)))
  /\ SF_runVars(OfTimers(MasterTimers!Expire(<<1, "SYNC_INTERVAL">>)))
  /\ SF_runVars(OfTimers(MasterTimers!Expire(<<1, "ANNOUNCE_INTERVAL">>)))
  /\ \A tm \in Port!Timers : /\ WF_portVars(OfPort(Port!TimerElapses(tm)))
                             /\ WF_portVars(OfPort(Port!TimerCallback(tm)))

EngineSpec ==
  /\ EngineInit
  /\ [][EngineNext]_<<part, vars, filterVars, servoVars, delayVars, timerVars, portVars>>
  /\ EngineFairness

\* The filter averages samples of both signs: as long as none lies below the value that
\* its full order scales within the width (Floor), its result never leaves the range of the
\* samples since the last reset and its sum does not overflow 32 bits (servo.c:103); and
\* with every sample its count and order stay within their limits, also after an overflow.
FilterFits == part = "filter" => Filter!TypeOK /\ Filter!FitsAboveFloor

\* The servo's loop is stable: updateClock sets the clock at most once, then steers it,
\* and the clock settles within the noise, the port in PTP_SLAVE.
ServoSettles == part = "servo" => []ClockServo!StepsOnce /\ ClockServo!Settles

\* A slave that keeps its master keeps measuring the delay, past lost messages and the
\* wrap of the sequence number.
DelayKeepsMeasuring == Delay!KeepsMeasuring

\* The intervals of a master and a slave's delay requests never cease.
TimersKeepFiring == MasterTimers!KeepsFiring

\* When no better clock announces itself any more, the port ends up master.
PortTakesOver == part = "port" => Port!TakesOver
=============================================================================
