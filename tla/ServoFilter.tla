---------------------------- MODULE ServoFilter -----------------------------
(***************************************************************************)
(* filter of dep/servo.c: the exponential smoothing of the path delay and  *)
(* of the offset, in integers of Width bits (32 in the code), whose sum is *)
(* kept scaled by a power of two that grows with the number of samples.  A *)
(* sum that leaves the width wraps around, as it does on the target.       *)
(* Samples have both signs: updateDelay and updateOffset filter what they  *)
(* have computed as long as its seconds are 0, a negative delay too.       *)
(***************************************************************************)
EXTENDS Integers

CONSTANTS
  Width,            \* of an integer; 32
  S,                \* the filter's order, DEFAULT_DELAY_S or DEFAULT_OFFSET_S
  Magnitudes        \* of samples; in the code less than 10^9 < 2^30

FilterAssumption ==
  /\ Width \in Nat /\ Width > 4
  /\ S \in 0 .. (Width - 2)
  /\ Magnitudes \subseteq 0 .. (2^(Width - 2) - 1)

VARIABLES
  filt,             \* the struct Filter: n, s_prev, y_prev and y_sum
  lo, hi,           \* the least and the greatest sample since the last reset
  overflow          \* some sum has wrapped around since the last reset

vars == <<filt, lo, hi, overflow>>

Inputs == Magnitudes \cup {-m : m \in Magnitudes}

Int32 == -(2^(Width - 1)) .. (2^(Width - 1) - 1)

Wrap(v) == ((v + 2^(Width - 1)) % 2^Width) - 2^(Width - 1)

Lesser(a, b) == IF a < b THEN a ELSE b

Greater(a, b) == IF a > b THEN a ELSE b

\* floorLog2 (arith.c), for n > 0.
FloorLog2(n) == CHOOSE p \in 0 .. Width : 2^p <= n /\ n < 2^(p + 1)

\* order
Order(n) == IF n = 0 THEN 0 ELSE FloorLog2(IF n < 0 THEN -n ELSE n)

-----------------------------------------------------------------------------
(* The steps of filter.                                                    *)

\* Count the sample; the first one initializes the filter.
Counted(f, x) ==
  IF f.n = 0 THEN [n |-> 1, s_prev |-> 0, y_prev |-> x, y_sum |-> x] ELSE [f EXCEPT !.n = @ + 1]

\* The count stops at the number of samples from which the order is S.
CappedCount(n) == IF 2^S > n THEN n ELSE 2^S

\* Fault: the order is not held back by the magnitude of the values.
NewOrder_Unguarded(f, x) == IF 2^S > f.n THEN Order(f.n) ELSE S

\* The order of the filter for sample x: lower at the start, and for large values.
NewOrder(f, x) ==
  Lesser(IF 2^S > f.n THEN Order(f.n) ELSE S, (Width - 2) - Order(Greater(f.y_prev, x)))

\* y_sum, shifted to the new order; exact, before it is cut to the width.
Rescaled(f, s) ==
  IF f.s_prev > s THEN f.y_sum \div 2^(f.s_prev - s) ELSE f.y_sum * 2^(s - f.s_prev)

-----------------------------------------------------------------------------
Init ==
  /\ filt = [n |-> 0, s_prev |-> 0, y_prev |-> 0, y_sum |-> 0]
  /\ lo = 0
  /\ hi = 0
  /\ overflow = FALSE

\* filter(&x, &filt)
Filter(x) ==
  LET f   == Counted(filt, x)
      s   == NewOrder(f, x)
      sum == Rescaled(f, s)
      y   == Wrap(Wrap(sum) + x - f.y_prev)
  IN  /\ filt' = [n |-> CappedCount(f.n), s_prev |-> s, y_prev |-> y \div 2^s, y_sum |-> y]
      /\ lo' = IF f.n = 1 THEN x ELSE Lesser(lo, x)
      /\ hi' = IF f.n = 1 THEN x ELSE Greater(hi, x)
      /\ overflow' = (overflow \/ sum \notin Int32 \/ Wrap(sum) + x - f.y_prev \notin Int32)

\* initClock resets the count only.
Reset ==
  /\ filt' = [filt EXCEPT !.n = 0]
  /\ lo' = 0
  /\ hi' = 0
  /\ overflow' = FALSE

Next == (\E x \in Inputs : Filter(x)) \/ Reset

Spec == Init /\ [][Next]_vars

-----------------------------------------------------------------------------
(* Properties.                                                             *)

TypeOK ==
  /\ filt.n \in 0 .. 2^S
  /\ filt.s_prev \in 0 .. S
  /\ filt.y_prev \in Int32
  /\ filt.y_sum \in Int32
  /\ lo \in Inputs \cup {0}
  /\ hi \in Inputs \cup {0}
  /\ overflow \in BOOLEAN

\* The result of the filter is an average: it never leaves the range of the samples
\* since the last reset, whatever orders the filter went through and however the
\* divisions round.
SmoothingBounded == filt.n > 0 => lo <= filt.y_prev /\ filt.y_prev <= hi

\* The least value that the filter's full order scales within the width: -2^25 ns for the
\* path delay (order 6), -2^31 ns, which no sample reaches, for the offset (order 0).
Floor == -(2^(Width - 1 - S))

\* What the guard on the order (servo.c:103) achieves with samples of both signs: positive
\* ones of any size and negative ones down to Floor neither overflow the sum nor take the
\* result out of their range.  The guard compares signed values, and below Floor it does
\* not hold the order back.
FitsAboveFloor == lo >= Floor => ~overflow /\ SmoothingBounded

\* servo.c:103: "Avoid overflowing of filter. 30 is because using signed 32bit
\* integers".  Refuted by a negative sample below Floor followed by a small one.
NoOverflow == ~overflow
=============================================================================
