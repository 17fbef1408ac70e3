------------------------------- MODULE Servo --------------------------------
(***************************************************************************)
(* The clock servo of dep/servo.c in closed loop with the clock it steers: *)
(* updateOffset and updateClock on each Sync, adjTime and setTime          *)
(* (sys_time.c), and the events that move the port between UNCALIBRATED    *)
(* and SLAVE.                                                              *)
(*                                                                         *)
(* Offsets are whole nanoseconds, a time of a second or more being one     *)
(* larger than MaxOffset.  The offset filter has order DEFAULT_OFFSET_S,   *)
(* which is 0: it hands its input on.  ptpdStartup raises the gains ap and *)
(* ai to 1.  The mean path delay is taken to be right.  The clock itself   *)
(* (the oscillator and the addend register of the MAC) is external: it     *)
(* runs fast by rate - adj nanoseconds a second.                           *)
(***************************************************************************)
EXTENDS Integers

CONSTANTS
  MaxError,         \* bound of the clock's initial error
  AdjFreqMax,       \* ADJ_FREQ_MAX
  MaxAdjOffset,     \* MAX_ADJ_OFFSET_NS
  Calibrated,       \* DEFAULT_CALIBRATED_OFFSET_NS
  Uncalibrated,     \* DEFAULT_UNCALIBRATED_OFFSET_NS
  MaxRate,          \* bound of the oscillator's frequency error
  Noise,            \* bound of the error of a measured offset
  MasterInterval    \* seconds between two Syncs; the port's own interval is 1

ServoAssumption ==
  /\ MaxError \in Nat /\ Noise \in Nat /\ MasterInterval \in Nat \ {0}
  /\ MaxRate \in Nat /\ AdjFreqMax \in Nat /\ MaxRate < AdjFreqMax
  /\ Calibrated \in Nat /\ Uncalibrated \in Nat /\ Calibrated < Uncalibrated
  /\ MaxAdjOffset \in Nat /\ Uncalibrated < MaxAdjOffset

VARIABLES
  err,              \* the clock's true offset from the master when the next Sync arrives
  rate,             \* the oscillator's frequency error, constant
  drift,            \* observedDrift
  port,             \* UNCALIBRATED or SLAVE
  events,           \* MASTER_CLOCK_SELECTED and SYNCHRONIZATION_FAULT, when set
  steps             \* how often setTime was called, up to 2

vars == <<err, rate, drift, port, events, steps>>

Abs(n) == IF n < 0 THEN -n ELSE n

\* The clamp to ADJ_FREQ_MAX of updateClock, and that of adjTime.
Clamp(n) == IF n > AdjFreqMax THEN AdjFreqMax ELSE IF n < -AdjFreqMax THEN -AdjFreqMax ELSE n

Init ==
  /\ err \in -MaxError .. MaxError
  /\ rate \in -MaxRate .. MaxRate
  /\ drift = 0
  /\ port = "UNCALIBRATED"
  /\ events = {}
  /\ steps = 0

\* updateOffset: the events raised for the measured offset.
UpdateOffset(offset) ==
  CASE port = "UNCALIBRATED" /\ Abs(offset) < Calibrated -> events \cup {"MASTER_CLOCK_SELECTED"}
    [] port = "SLAVE" /\ Abs(offset) > Uncalibrated -> events \cup {"SYNCHRONIZATION_FAULT"}
    [] OTHER -> events

\* Fault: the I component is left out.
Accumulate_Never(offset) == drift

\* The accumulator for the I component.
Accumulate(offset) == Clamp(drift + offset)

\* updateClock sets the clock back by the offset measured (getTime, subTime, setTime).
SetTime(offset) == err - offset

\* The rate at which the clock runs fast, adjTime(-adj).
AdjTime(adj) == rate - Clamp(adj)

\* handleSync or handleFollowUp: updateOffset, updateClock; then the clock runs until
\* the next Sync.
Sync(noise) ==
  LET offset == err + noise
  IN  /\ events' = UpdateOffset(offset)
      /\ IF Abs(offset) > MaxAdjOffset
         THEN /\ err' = SetTime(offset) + MasterInterval * AdjTime(0)
              /\ drift' = 0                       \* initClock
              /\ steps' = IF steps < 2 THEN steps + 1 ELSE 2
         ELSE /\ drift' = Accumulate(offset)
              /\ err' = err + MasterInterval * AdjTime(offset + drift')
              /\ UNCHANGED steps
      /\ UNCHANGED <<rate, port>>

\* doState: the state changes for the two events.
DoState ==
  /\ events # {}
  /\ events' = {}
  /\ port' = IF "SYNCHRONIZATION_FAULT" \in events THEN "UNCALIBRATED" ELSE "SLAVE"
  /\ UNCHANGED <<err, rate, drift, steps>>

\* doState runs before the next message is handled.
Next == DoState \/ (events = {} /\ \E noise \in -Noise .. Noise : Sync(noise))

Spec == Init /\ [][Next]_vars

\* The PTP thread runs, and the master sends Sync messages.
FairSpec == Spec /\ WF_vars(Next)

-----------------------------------------------------------------------------
(* Properties.                                                             *)

TypeOK ==
  /\ err \in Int
  /\ Abs(err) <= MaxError + MaxAdjOffset + 2 * MasterInterval * AdjFreqMax
  /\ rate \in -MaxRate .. MaxRate
  /\ drift \in -AdjFreqMax .. AdjFreqMax
  /\ port \in {"UNCALIBRATED", "SLAVE"}
  /\ events \subseteq {"MASTER_CLOCK_SELECTED", "SYNCHRONIZATION_FAULT"}
  /\ steps \in 0 .. 2

\* The clock is set at most once: neither the overshoot of the saturated controller
\* nor the noise makes updateClock step a clock that it has begun to steer.
StepsOnce == steps <= 1 /\ (Abs(err) > MaxAdjOffset + Noise => steps = 0)

\* The loop is stable: from any initial error, and for any frequency error that
\* ADJ_FREQ_MAX can compensate, the clock settles within three times the noise, and
\* the port ends in PTP_SLAVE.
Settles == <>[](Abs(err) <= 3 * Noise /\ port = "SLAVE")

\* servo.c:280: "normalize offset to 1s sync interval -> response of the servo will be
\* same for all sync interval values": the loop is stable for the master's interval too.
SettlesForInterval == <>[](Abs(err) <= 3 * Noise * MasterInterval)
=============================================================================
