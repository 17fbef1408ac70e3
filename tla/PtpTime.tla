------------------------------- MODULE PtpTime ------------------------------
(***************************************************************************)
(* Reading and setting the clock of the MAC: getTime and setTime           *)
(* (sys_time.c) with ethernetif_ptp_get_time and ethernetif_ptp_set_time   *)
(* (ethernetif.c), one register access a step.                             *)
(*                                                                         *)
(* Three tasks use the clock, without a lock: the PTP thread (the servo    *)
(* and the issue functions), the tcpip thread (SNTP, through               *)
(* app_ethernet_set_system_time) and the command line (date).  None of     *)
(* them waits for another one, so a task runs only while the tasks of      *)
(* higher priority are not in a call.  The registers are external: the     *)
(* counter runs by itself and loads the update registers when TSSTI is     *)
(* set.                                                                    *)
(***************************************************************************)
EXTENDS Integers

CONSTANTS
  G,                \* the counter's low part wraps there; 10^9
  MaxSec,           \* bound of the counter's high part
  Settings          \* the times the tasks set, as records of sec and sub

TimeAssumption ==
  /\ G \in Nat /\ G > 1
  /\ MaxSec \in Nat
  /\ Settings \subseteq [sec : 0 .. MaxSec, sub : 0 .. G - 1]

VARIABLES
  now,              \* PTPTSHR and PTPTSLR: the counter
  update,           \* PTPTSHUR and PTPTSLUR: the update registers
  tssti,            \* the flag TSSTI of PTPTSCR
  pc,               \* where each task is in a call
  val,              \* its time: the argument of setTime, the result of getTime
  began,            \* the counter when its call began
  disturbed         \* the clock was set, or the registers written, during its call

vars == <<now, update, tssti, pc, val, began, disturbed>>

\* The tasks in the order of their priorities.
Tasks == {"cli", "ptp", "tcpip"}

Above(t) == CASE t = "cli" -> {"ptp", "tcpip"} [] t = "ptp" -> {"tcpip"} [] OTHER -> {}

Zero == [sec |-> 0, sub |-> 0]

Init ==
  /\ now = Zero
  /\ update = Zero
  /\ tssti = FALSE
  /\ pc = [t \in Tasks |-> "idle"]
  /\ val = [t \in Tasks |-> Zero]
  /\ began = [t \in Tasks |-> Zero]
  /\ disturbed = [t \in Tasks |-> FALSE]

\* t is the running task.
Runs(t) == \A u \in Above(t) : pc[u] = "idle"

Goto(t, l) == pc' = [pc EXCEPT ![t] = l]

\* What t does to the registers disturbs the calls it has preempted.
Disturb(t) == disturbed' = [u \in Tasks |-> disturbed[u] \/ (u # t /\ pc[u] # "idle")]

Begin(t, v, l) ==
  /\ pc[t] = "idle"
  /\ Runs(t)
  /\ val' = [val EXCEPT ![t] = v]
  /\ began' = [began EXCEPT ![t] = now]
  /\ disturbed' = [disturbed EXCEPT ![t] = FALSE]
  /\ Goto(t, l)
  /\ UNCHANGED <<now, update, tssti>>

\* The call returns; what it left in its locals does not matter any more.
Return(t) ==
  /\ Goto(t, "idle")
  /\ val' = [val EXCEPT ![t] = Zero]
  /\ began' = [began EXCEPT ![t] = Zero]
  /\ disturbed' = [disturbed EXCEPT ![t] = FALSE]
  /\ UNCHANGED <<now, update, tssti>>

-----------------------------------------------------------------------------
(* ethernetif_ptp_get_time: the low register, then the high one.           *)

\* From issueSync, issueDelayReq, issuePdelayReq and updateClock, and from cmdDate.
GetTime(t) == t \in {"cli", "ptp"} /\ Begin(t, Zero, "first")

\* Fault: the high register is read first.
Half_HighFirst(k) == IF k = "first" THEN "sec" ELSE "sub"

\* The half of the counter that the first and the second access read.
Half(k) == IF k = "first" THEN "sub" ELSE "sec"

ReadLow(t) ==
  /\ pc[t] = "first"
  /\ Runs(t)
  /\ val' = [val EXCEPT ![t][Half("first")] = now[Half("first")]]
  /\ Goto(t, "second")
  /\ UNCHANGED <<now, update, tssti, began, disturbed>>

ReadHigh(t) ==
  /\ pc[t] = "second"
  /\ Runs(t)
  /\ val' = [val EXCEPT ![t][Half("second")] = now[Half("second")]]
  /\ Goto(t, "got")
  /\ UNCHANGED <<now, update, tssti, began, disturbed>>

\* The caller has the time.
Got(t) ==
  /\ pc[t] = "got"
  /\ Runs(t)
  /\ Return(t)

-----------------------------------------------------------------------------
(* ethernetif_ptp_set_time.                                                *)

\* setTime: from updateClock, app_ethernet_set_system_time and cmdDate.
SetTime(t, v) == Begin(t, v, "high")

\* ll_ptp_set_time_stamp_update writes the high register ...
WriteHigh(t) ==
  /\ pc[t] = "high"
  /\ Runs(t)
  /\ update' = [update EXCEPT !.sec = val[t].sec]
  /\ Disturb(t)
  /\ Goto(t, "low")
  /\ UNCHANGED <<now, tssti, val, began>>

\* Fault: the low register is not written when it would be zero.
LowWritten_NonZero(v) == update' = IF v.sub = 0 THEN update ELSE [update EXCEPT !.sub = v.sub]

LowWritten(v) == update' = [update EXCEPT !.sub = v.sub]

\* ... and the low one.
WriteLow(t) ==
  /\ pc[t] = "low"
  /\ Runs(t)
  /\ LowWritten(val[t])
  /\ Disturb(t)
  /\ Goto(t, "init")
  /\ UNCHANGED <<now, tssti, val, began>>

\* PTPTSCR |= TSSTI
SetTssti(t) ==
  /\ pc[t] = "init"
  /\ Runs(t)
  /\ tssti' = TRUE
  /\ Disturb(t)
  /\ Goto(t, "wait")
  /\ UNCHANGED <<now, update, val, began>>

Loaded == ~tssti

\* The loop that waits for TSSTI to be cleared.
AwaitTssti(t) ==
  /\ pc[t] = "wait"
  /\ Runs(t)
  /\ Loaded
  /\ Return(t)

-----------------------------------------------------------------------------
(* The MAC (external).                                                     *)

\* The counter is loaded; a call that reads it meanwhile is disturbed.
Load ==
  /\ tssti
  /\ now' = update
  /\ tssti' = FALSE
  /\ disturbed' = [u \in Tasks |-> disturbed[u] \/ pc[u] \in {"first", "second", "got"}]
  /\ UNCHANGED <<update, pc, val, began>>

Tick ==
  /\ now.sub = G - 1 => now.sec < MaxSec
  /\ now' = IF now.sub = G - 1 THEN [sec |-> now.sec + 1, sub |-> 0] ELSE [now EXCEPT !.sub = @ + 1]
  /\ UNCHANGED <<update, tssti, pc, val, began, disturbed>>

-----------------------------------------------------------------------------
Get(t) == GetTime(t) \/ ReadLow(t) \/ ReadHigh(t) \/ Got(t)

Set(t) ==
  \/ \E v \in Settings : SetTime(t, v)
  \/ WriteHigh(t) \/ WriteLow(t) \/ SetTssti(t) \/ AwaitTssti(t)

Next == Load \/ Tick \/ \E t \in Tasks : Get(t) \/ Set(t)

Spec == Init /\ [][Next]_vars

-----------------------------------------------------------------------------
(* Properties.                                                             *)

Instant(t) == t.sec * G + t.sub

\* A time that getTime returns is not before the moment of the call, and ahead of the
\* counter by less than a second, when nobody sets the clock meanwhile: this is what
\* reading the low register first guarantees, however long the task was preempted
\* between the two reads and whatever rolled over.
ReadNotBehind ==
  \A t \in Tasks :
    pc[t] = "got" /\ ~disturbed[t] =>
      /\ Instant(began[t]) <= Instant(val[t])
      /\ Instant(val[t]) < Instant(now) + G

\* A call of setTime that no other task disturbs has set the clock to its argument,
\* and not to a mixture with an earlier one, when it is about to return: the counter
\* has not been loaded with anything else and has only run on from there.
SetExact ==
  \A t \in Tasks :
    pc[t] = "wait" /\ ~disturbed[t] =>
      /\ tssti => update = val[t]
      /\ ~tssti => Instant(now) >= Instant(val[t])

\* A setting is never applied late: as long as the clock is still to be loaded, a call
\* of setTime is waiting for it, so that the next setting cannot be lost in it and
\* updateClock reads no time from before its own setting.
NoLateLoad == tssti => \E t \in Tasks : pc[t] = "wait"

\* sys_time.c:6: "Returns PTP time in seconds and nanoseconds": the time returned is one
\* the clock had during the call.
ReadIsATime ==
  \A t \in Tasks :
    pc[t] = "got" /\ ~disturbed[t] =>
      Instant(val[t]) \in Instant(began[t]) .. Instant(now)
=============================================================================
