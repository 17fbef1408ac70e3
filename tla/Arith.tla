------------------------------- MODULE Arith --------------------------------
(***************************************************************************)
(* The time arithmetic of arith.c: TimeInternal values, pairs of seconds   *)
(* and nanoseconds of the same sign, as the protocol engine and the servo  *)
(* compute with them, next to the exact number of nanoseconds they stand   *)
(* for.                                                                    *)
(***************************************************************************)
EXTENDS Integers

CONSTANTS
  G,                \* nanoseconds of a second; 10^9, an even number
  INT_MAX,          \* the largest int32_t
  MaxSeconds,       \* bound of the seconds of an operand and of a result
  MaxStamp          \* bound of the seconds of a message's Timestamp

ASSUME ArithAssumption ==
  /\ G \in Nat /\ G > 1 /\ G % 2 = 0
  /\ INT_MAX \in Nat \ {0} /\ MaxSeconds \in Nat /\ MaxStamp \in Nat

VARIABLES
  t,                \* a TimeInternal
  exact             \* the value it stands for, in nanoseconds

vars == <<t, exact>>

Time(s, ns) == [seconds |-> s, nanoseconds |-> ns]

Value(x) == x.seconds * G + x.nanoseconds

\* A time as normalizeTime leaves it.
IsNormal(x) ==
  /\ -G < x.nanoseconds /\ x.nanoseconds < G
  /\ ~(x.seconds > 0 /\ x.nanoseconds < 0)
  /\ ~(x.seconds < 0 /\ x.nanoseconds > 0)

\* The operator / of C, for a positive divisor.
Quotient(a, b) == IF a >= 0 THEN a \div b ELSE -((-a) \div b)

NormalizeTime(r) ==
  LET q == Quotient(r.nanoseconds, G)
      s == r.seconds + q
      n == r.nanoseconds - q * G
  IN  CASE s > 0 /\ n < 0 -> Time(s - 1, n + G)
        [] s < 0 /\ n > 0 -> Time(s + 1, n - G)
        [] OTHER -> Time(s, n)

AddTime(x, y) == NormalizeTime(Time(x.seconds + y.seconds, x.nanoseconds + y.nanoseconds))

SubTime(x, y) == NormalizeTime(Time(x.seconds - y.seconds, x.nanoseconds - y.nanoseconds))

\* Fault: the odd second is not carried to the nanoseconds.
Div2Time_NoCarry(r) == NormalizeTime(Time(Quotient(r.seconds, 2), Quotient(r.nanoseconds, 2)))

Div2Time(r) ==
  LET h     == Quotient(r.seconds, 2)
      carry == (r.seconds - 2 * h) * G              \* seconds % 2 * 1000000000
  IN  NormalizeTime(Time(h, Quotient(r.nanoseconds + carry, 2)))

\* scaledNanosecondsToInternalTime, of a value with its fraction already shifted out.
NanosecondsToInternalTime(v) ==
  LET q == Quotient(v, G) IN Time(q, v - q * G)

\* toInternalTime of a Timestamp, into a variable that holds old.
ToInternalTime(old, stamp) == IF stamp.seconds < INT_MAX THEN stamp ELSE old

-----------------------------------------------------------------------------
Operands ==
  {x \in [seconds : -MaxSeconds .. MaxSeconds, nanoseconds : (1 - G) .. (G - 1)] : IsNormal(x)}

\* What the masters send is a time: that the nanoseconds are less than a second is assumed
\* of them, toInternalTime does not look at nanosecondsField.
Stamps == [seconds : 0 .. MaxStamp, nanoseconds : 0 .. (G - 1)]

Init == t = Time(0, 0) /\ exact = 0

InRange(x) == x.seconds \in -MaxSeconds .. MaxSeconds

Add(y) == t' = AddTime(t, y) /\ exact' = exact + Value(y) /\ InRange(t')

Subtract(y) == t' = SubTime(t, y) /\ exact' = exact - Value(y) /\ InRange(t')

Halve == t' = Div2Time(t) /\ exact' = Quotient(exact, 2)

\* A correction field.
Correction(v) == t' = NanosecondsToInternalTime(v) /\ exact' = v /\ InRange(t')

\* The time stamp of a message.
Stamp(stamp) == t' = ToInternalTime(t, stamp) /\ exact' = Value(stamp)

Next ==
  \/ \E y \in Operands : Add(y) \/ Subtract(y)
  \/ Halve
  \/ \E v \in (-MaxSeconds * G) .. (MaxSeconds * G) : Correction(v)
  \/ \E stamp \in Stamps : Stamp(stamp)

Spec == Init /\ [][Next]_vars

-----------------------------------------------------------------------------
(* Properties.                                                             *)

TypeOK == t \in [seconds : Int, nanoseconds : Int] /\ IsNormal(t) /\ exact \in Int

\* Along any sequence of operations no nanosecond is gained or lost, signs and halves
\* of odd seconds included: the pair stands for the exact result.
Exact == Value(t) = exact

\* arith.c:56: "Clock servo canno't be executed : seconds field is higher than signed
\* integer (32bits)": the servo never computes with a time stamp that could not be
\* converted.
StampConverted == exact >= INT_MAX * G => Value(t) = exact
=============================================================================
