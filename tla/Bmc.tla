-------------------------------- MODULE Bmc ---------------------------------
(***************************************************************************)
(* The best master clock algorithm of bmc.c as operators: the data set     *)
(* comparison, the foreign master table, the choice of a master and the    *)
(* state it recommends.                                                    *)
(*                                                                         *)
(* A port identity is a pair <<clockIdentity, portNumber>>.  The clock     *)
(* identities are numbers in memcmp order.  An Announce message is reduced *)
(* to what the algorithm compares: its sender, its grandmaster's identity, *)
(* its grandmaster's quality <<priority1, clockClass, clockAccuracy,       *)
(* offsetScaledLogVariance, priority2>> and stepsRemoved.                  *)
(***************************************************************************)
EXTENDS Integers, Sequences

CONSTANTS
  OwnClock,     \* clockIdentity of this clock
  OwnQuality,   \* priority1 ... priority2 of defaultDS, in the order above
  SlaveOnly,    \* defaultDS.slaveOnly
  Capacity      \* DEFAULT_MAX_FOREIGN_RECORDS

Quality == [1 .. 5 -> Nat]
PortIdentity == Nat \X Nat

ASSUME OwnAssumption == OwnClock \in Nat \ {0} /\ OwnQuality \in Quality
\* ptpdStartup gives a slave-only clock the class 255.
ASSUME SlaveOnlyAssumption == SlaveOnly \in BOOLEAN /\ (SlaveOnly => OwnQuality[2] = 255)
ASSUME CapacityAssumption == Capacity \in Nat \ {0}

Announce == [src : PortIdentity, gm : Nat, quality : Quality, steps : Nat]

\* portDS.portIdentity (NUMBER_PORTS is 1), and the parent that m1 installs.
OwnPort == <<OwnClock, 1>>
OwnParent == <<OwnClock, 0>>

\* copyD0: the local data set in the form of an Announce message.
D0 == [src |-> OwnPort, gm |-> OwnClock, quality |-> OwnQuality, steps |-> 0]

\* The static records array before anything is written to it.
ZeroRecord == [src |-> <<0, 0>>, gm |-> 0, quality |-> [k \in 1 .. 5 |-> 0], steps |-> 0]

Slot == 0 .. Capacity - 1

-----------------------------------------------------------------------------
(* bmcDataSetComparison.                                                   *)

A_better == 1
B_better == -1
NoVerdict == 0      \* ERROR_1, ERROR_2

\* Fault: no grandmaster identity as the tie-breaker.
BetterGrandmaster_NoTieBreak(a, b) ==
  \E k \in 1 .. 5 :
    /\ a.quality[k] < b.quality[k]
    /\ \A j \in 1 .. k - 1 : a.quality[j] = b.quality[j]

\* The first quality field that differs decides, the smaller value winning
\* (the COMPARE_AB_RETURN_BETTER chain), then the grandmaster identity.
BetterGrandmaster(a, b) ==
  \/ \E k \in 1 .. 5 :
       /\ a.quality[k] < b.quality[k]
       /\ \A j \in 1 .. k - 1 : a.quality[j] = b.quality[j]
  \/ a.quality = b.quality /\ a.gm < b.gm

\* Same grandmaster: the shorter path, then the sender's identity.  A message
\* that came through this very clock gives no verdict.
ComparePath(a, b) ==
  CASE a.steps > b.steps + 1 -> B_better
    [] b.steps > a.steps + 1 -> A_better
    [] a.steps = b.steps + 1 -> IF a.src[1] = OwnClock THEN NoVerdict ELSE B_better
    [] b.steps = a.steps + 1 -> IF b.src[1] = OwnClock THEN NoVerdict ELSE A_better
    [] OTHER -> IF a.src[1] > b.src[1] THEN B_better
                ELSE IF a.src[1] < b.src[1] THEN A_better ELSE NoVerdict

DataSetComparison(a, b) ==
  IF a.gm = b.gm THEN ComparePath(a, b)
  ELSE IF BetterGrandmaster(a, b) THEN A_better ELSE B_better

-----------------------------------------------------------------------------
(* The foreign master table: records, count, the next slot i, best.        *)

\* The j-th record that addForeign looks at, j from 0: from best on, around
\* the first count records.
Visit(fm, j) == IF j = 0 THEN fm.best ELSE (fm.best + j) % fm.count

\* The turns of the search whose record has the sender of announce a.
Known(fm, a) == {j \in 0 .. fm.count - 1 : fm.records[Visit(fm, j)].src = a.src}

\* Fault: count grows without regard for capacity.
AddForeign_NoCapacity(fm, a) ==
  IF Known(fm, a) # {}
  THEN LET first == CHOOSE j \in Known(fm, a) : \A l \in Known(fm, a) : j <= l
       IN  [fm EXCEPT !.records[Visit(fm, first)] = a]
  ELSE [fm EXCEPT !.records[fm.i] = a,
                  !.count = @ + 1,
                  !.i = (@ + 1) % Capacity]

AddForeign(fm, a) ==
  IF Known(fm, a) # {}
  THEN LET first == CHOOSE j \in Known(fm, a) : \A l \in Known(fm, a) : j <= l
       IN  [fm EXCEPT !.records[Visit(fm, first)] = a]
  ELSE [fm EXCEPT !.records[fm.i] = a,
                  !.count = IF @ < Capacity THEN @ + 1 ELSE @,
                  !.i = (@ + 1) % Capacity]

\* The condition under which bmc moves on to record a from record b.
Displaces(a, b) == DataSetComparison(a, b) < 0

\* Fault: the loop also looks at the record after the last one.
Scan_PastEnd(fm) ==
  LET held[n \in Slot] ==
        IF n = 0 THEN 0
        ELSE IF Displaces(fm.records[n], fm.records[held[n - 1]]) THEN n ELSE held[n - 1]
  IN  IF fm.count = 0 THEN 0
      ELSE IF fm.count < Capacity THEN held[fm.count] ELSE held[fm.count - 1]

\* The loop of bmc: the record held after looking at records 0 .. n.
Scan(fm) ==
  LET held[n \in Slot] ==
        IF n = 0 THEN 0
        ELSE IF Displaces(fm.records[n], fm.records[held[n - 1]]) THEN n ELSE held[n - 1]
  IN  IF fm.count = 0 THEN 0 ELSE held[fm.count - 1]

-----------------------------------------------------------------------------
(* bmcStateDecision: the state recommended against the chosen record, and  *)
(* which of m1, p1, s1 is applied to the data sets.                        *)

ClockClass == OwnQuality[2]

\* doState never lets a slave-only clock become master or passive.
MayBeMaster == ~SlaveOnly /\ ClockClass # 255

Recommend(fm, best, listening) ==
  LET better == DataSetComparison(D0, fm.records[best]) = A_better
  IN  IF fm.count = 0 /\ listening THEN [state |-> "LISTENING", apply |-> "none"]
      ELSE IF better THEN [state |-> "MASTER", apply |-> "m1"]
      ELSE IF ClockClass < 128 THEN [state |-> "PASSIVE", apply |-> "p1"]
      ELSE [state |-> "SLAVE", apply |-> "s1"]
=============================================================================
