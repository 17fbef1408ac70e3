---------------------------- MODULE EngineProofs ----------------------------
(***************************************************************************)
(* The computations of the protocol engine (MCEngine) for every value of   *)
(* their constants: the time arithmetic of arith.c is normal and exact,    *)
(* the filter of dep/servo.c averages without overflow above a floor, its  *)
(* servo sets the clock at most once.  And the port in the configurations  *)
(* of MCPtpPortConfigs, by the general theorems of PtpPortProofs.          *)
(***************************************************************************)
EXTENDS MCEngine, MCPtpPortConfigs, FiniteSetTheorems, FunctionTheorems, WellFoundedInduction, TLAPS

-----------------------------------------------------------------------------
(* The time arithmetic, for every length of the second and every bound.    *)

Pairs == [seconds : Int, nanoseconds : Int]

\* The assumption that theorem ArithExact adds: the stamps of messages can be converted.
StampsConvertible == MaxStamp < INT_MAX

\* What the C quotient of a number below two seconds is.
LEMMA SmallQuotient ==
  ASSUME NEW n \in Int, -2 * G < n, n < 2 * G
  PROVE  /\ Quotient(n, G) \in {-1, 0, 1}
         /\ Quotient(n, G) = 1 => n >= G
         /\ Quotient(n, G) = -1 => n <= -G
         /\ Quotient(n, G) = 0 => -G < n /\ n < G
<1>1. G \in Nat /\ G > 1
  BY ArithAssumption
<1>2. ASSUME NEW m \in Nat, m < 2 * G
      PROVE  /\ m < G => m \div G = 0
             /\ m >= G => m \div G = 1
  BY <1>1, <1>2, SMT
<1>3. CASE n >= 0
  BY <1>1, <1>2, <1>3 DEF Quotient
<1>4. CASE n < 0
  <2>1. -n \in Nat /\ -n < 2 * G
    BY <1>1, <1>4
  <2> QED
    BY <1>1, <1>2, <1>4, <2>1 DEF Quotient
<1> QED
  BY <1>3, <1>4

\* The parts and the value of a time.
LEMMA TimeOf ==
  ASSUME NEW x \in Int, NEW y \in Int
  PROVE  /\ Time(x, y) \in Pairs
         /\ Time(x, y).seconds = x
         /\ Time(x, y).nanoseconds = y
         /\ Value(Time(x, y)) = x * G + y
BY DEF Time, Pairs, Value

\* A time whose parts have one sign, with less than a second of nanoseconds, is normal.
LEMMA NormalTime ==
  ASSUME NEW x \in Int, NEW y \in Int, -G < y, y < G, ~(x > 0 /\ y < 0), ~(x < 0 /\ y > 0)
  PROVE  IsNormal(Time(x, y))
BY TimeOf DEF IsNormal

\* Products by the length of a second.
LEMMA Distributes ==
  ASSUME NEW x \in Int, NEW y \in Int
  PROVE  (x + y) * G = x * G + y * G /\ (x - y) * G = x * G - y * G /\ 1 * G = G /\ x * G \in Int
BY ArithAssumption, SMT

\* normalizeTime keeps the value and makes the time normal, for nanoseconds between
\* minus two and two seconds.
LEMMA NormalizeExact ==
  ASSUME NEW s \in Int, NEW n \in Int, -2 * G < n, n < 2 * G
  PROVE  LET r == NormalizeTime(Time(s, n))
         IN  r \in Pairs /\ IsNormal(r) /\ Value(r) = s * G + n
<1> DEFINE q == Quotient(n, G)
           a == s + q
           b == n - q * G
<1>1. G \in Nat /\ G > 1
  BY ArithAssumption
<1>2. q \in {-1, 0, 1} /\ b \in Int /\ a \in Int /\ -G < b /\ b < G
  <2>1. CASE q = 1
    BY <1>1, <2>1, SmallQuotient
  <2>2. CASE q = -1
    BY <1>1, <2>2, SmallQuotient
  <2>3. CASE q = 0
    BY <1>1, <2>3, SmallQuotient
  <2> QED
    BY <2>1, <2>2, <2>3, SmallQuotient
<1>3. a * G + b = s * G + n
  <2>1. q \in Int /\ q * G \in Int
    BY <1>1, <1>2
  <2>2. a * G = s * G + q * G /\ s * G \in Int
    BY <2>1, Distributes
  <2> HIDE DEF q
  <2> QED
    BY <2>1, <2>2
<1>4. NormalizeTime(Time(s, n)) = IF a > 0 /\ b < 0 THEN Time(a - 1, b + G)
                                  ELSE IF a < 0 /\ b > 0 THEN Time(a + 1, b - G)
                                  ELSE Time(a, b)
  <2>1. Time(s, n).seconds = s /\ Time(s, n).nanoseconds = n
    BY DEF Time
  <2>2. NormalizeTime(Time(s, n)) = CASE a > 0 /\ b < 0 -> Time(a - 1, b + G)
                                      [] a < 0 /\ b > 0 -> Time(a + 1, b - G)
                                      [] OTHER -> Time(a, b)
    BY <2>1 DEF NormalizeTime
  <2>3. ~(a > 0 /\ a < 0)
    BY <1>2
  <2> HIDE DEF a, b
  <2> QED
    BY <2>2, <2>3
<1>5. /\ (a - 1) * G + (b + G) = a * G + b
      /\ (a + 1) * G + (b - G) = a * G + b
  BY <1>1, <1>2, Distributes
<1> HIDE DEF a, b, q
<1>6. CASE a > 0 /\ b < 0
  <2>1. NormalizeTime(Time(s, n)) = Time(a - 1, b + G)
    BY <1>2, <1>4, <1>6
  <2>2. a - 1 \in Int /\ b + G \in Int
    BY <1>1, <1>2
  <2>3. IsNormal(Time(a - 1, b + G))
    <3>1. -G < b + G /\ b + G < G /\ ~(b + G < 0) /\ ~(a - 1 < 0)
      BY <1>1, <1>2, <1>6
    <3> QED
      BY <2>2, <3>1, NormalTime
  <2>4. Value(Time(a - 1, b + G)) = s * G + n
    BY <1>3, <1>5, <2>2, TimeOf
  <2> QED
    BY <2>1, <2>2, <2>3, <2>4, TimeOf
<1>7. CASE a < 0 /\ b > 0
  <2>1. NormalizeTime(Time(s, n)) = Time(a + 1, b - G)
    BY <1>2, <1>4, <1>7
  <2>2. a + 1 \in Int /\ b - G \in Int
    BY <1>1, <1>2
  <2>3. IsNormal(Time(a + 1, b - G))
    <3>1. -G < b - G /\ b - G < G /\ ~(b - G > 0) /\ ~(a + 1 > 0)
      BY <1>1, <1>2, <1>7
    <3> QED
      BY <2>2, <3>1, NormalTime
  <2>4. Value(Time(a + 1, b - G)) = s * G + n
    BY <1>3, <1>5, <2>2, TimeOf
  <2> QED
    BY <2>1, <2>2, <2>3, <2>4, TimeOf
<1>8. CASE ~(a > 0 /\ b < 0) /\ ~(a < 0 /\ b > 0)
  <2>1. NormalizeTime(Time(s, n)) = Time(a, b)
    BY <1>2, <1>4, <1>8
  <2>2. a \in Int /\ b \in Int
    BY <1>1, <1>2
  <2>3. IsNormal(Time(a, b))
    BY <1>1, <1>2, <1>8, <2>2, TimeOf DEF IsNormal
  <2>4. Value(Time(a, b)) = s * G + n
    BY <1>3, <2>2, TimeOf
  <2> QED
    BY <2>1, <2>2, <2>3, <2>4, TimeOf
<1> QED
  BY <1>6, <1>7, <1>8

\* addTime and subTime of normal times.
LEMMA AddSubExact ==
  ASSUME NEW x \in Pairs, NEW y \in Pairs, IsNormal(x), IsNormal(y)
  PROVE  /\ AddTime(x, y) \in Pairs /\ IsNormal(AddTime(x, y))
         /\ Value(AddTime(x, y)) = Value(x) + Value(y)
         /\ SubTime(x, y) \in Pairs /\ IsNormal(SubTime(x, y))
         /\ Value(SubTime(x, y)) = Value(x) - Value(y)
<1> DEFINE xs == x.seconds  xn == x.nanoseconds  ys == y.seconds  yn == y.nanoseconds
<1>1. xs \in Int /\ xn \in Int /\ ys \in Int /\ yn \in Int
  BY DEF Pairs
<1>2. G \in Nat /\ -G < xn /\ xn < G /\ -G < yn /\ yn < G
  BY ArithAssumption DEF IsNormal
<1>3. /\ AddTime(x, y) = NormalizeTime(Time(xs + ys, xn + yn))
      /\ SubTime(x, y) = NormalizeTime(Time(xs - ys, xn - yn))
      /\ Value(x) = xs * G + xn /\ Value(y) = ys * G + yn
  BY DEF AddTime, SubTime, Value
<1> HIDE DEF xs, xn, ys, yn
<1>4. /\ xs + ys \in Int /\ xn + yn \in Int /\ -2 * G < xn + yn /\ xn + yn < 2 * G
      /\ xs - ys \in Int /\ xn - yn \in Int /\ -2 * G < xn - yn /\ xn - yn < 2 * G
  BY <1>1, <1>2
<1>5. /\ (xs + ys) * G + (xn + yn) = (xs * G + xn) + (ys * G + yn)
      /\ (xs - ys) * G + (xn - yn) = (xs * G + xn) - (ys * G + yn)
  <2>1. /\ (xs + ys) * G = xs * G + ys * G
        /\ (xs - ys) * G = xs * G - ys * G
        /\ xs * G \in Int /\ ys * G \in Int
    BY <1>1, Distributes
  <2> QED
    BY <1>1, <2>1
<1>6. /\ AddTime(x, y) \in Pairs /\ IsNormal(AddTime(x, y))
      /\ Value(AddTime(x, y)) = (xs + ys) * G + (xn + yn)
  BY <1>3, <1>4, NormalizeExact
<1>7. /\ SubTime(x, y) \in Pairs /\ IsNormal(SubTime(x, y))
      /\ Value(SubTime(x, y)) = (xs - ys) * G + (xn - yn)
  BY <1>3, <1>4, NormalizeExact
<1> QED
  BY <1>3, <1>5, <1>6, <1>7

\* C halves an even number exactly.
LEMMA HalfQuotient ==
  ASSUME NEW K \in Int, NEW m \in Int, (K >= 0 /\ m >= 0) \/ (K <= 0 /\ m <= 0)
  PROVE  Quotient(2 * K + m, 2) = K + Quotient(m, 2)
BY DEF Quotient

\* A number of seconds and its nanoseconds have the same sign.
LEMMA SignOfProduct ==
  ASSUME NEW h \in Int
  PROVE  h * G \in Int /\ (h >= 0 => h * G >= 0) /\ (h <= 0 => h * G <= 0) /\ 0 * G = 0
BY ArithAssumption, SMT

\* div2Time of a normal time is half its value, rounded towards zero.
LEMMA HalfExact ==
  ASSUME NEW x \in Pairs, IsNormal(x)
  PROVE  /\ Div2Time(x) \in Pairs /\ IsNormal(Div2Time(x))
         /\ Value(Div2Time(x)) = Quotient(Value(x), 2)
<1> DEFINE s == x.seconds  n == x.nanoseconds
           h == Quotient(s, 2)
           d == s - 2 * h
           m == n + d * G
<1>1. s \in Int /\ n \in Int /\ Value(x) = s * G + n
  BY DEF Pairs, Value
<1>2. /\ G \in Nat /\ -G < n /\ n < G
      /\ ~(s > 0 /\ n < 0) /\ ~(s < 0 /\ n > 0)
  BY ArithAssumption DEF IsNormal
<1>3. Div2Time(x) = NormalizeTime(Time(h, Quotient(m, 2)))
  BY DEF Div2Time
<1> HIDE DEF s, n
<1>4. /\ h \in Int /\ d \in {-1, 0, 1}
      /\ s >= 0 => h >= 0 /\ d >= 0
      /\ s <= 0 => h <= 0 /\ d <= 0
      /\ s = 0 => h = 0 /\ d = 0
  BY <1>1 DEF Quotient
<1>5. s = 2 * h + d
  BY <1>1, <1>4
<1> HIDE DEF h, d
<1>6. /\ d * G \in Int /\ (d = 0 => d * G = 0) /\ (d = 1 => d * G = G) /\ (d = -1 => d * G = -G)
  <2>1. 1 * G = G /\ 0 * G = 0 /\ (-1) * G = -G
    BY <1>2, SMT
  <2> QED
    BY <1>2, <1>4, <2>1
<1>7. /\ m \in Int /\ -2 * G < m /\ m < 2 * G
      /\ (s > 0 => m >= 0) /\ (s < 0 => m <= 0)
  BY <1>1, <1>2, <1>4, <1>6
<1>8. h * G \in Int /\ (h >= 0 => h * G >= 0) /\ (h <= 0 => h * G <= 0) /\ (h = 0 => h * G = 0)
  BY <1>4, SignOfProduct
<1>9. s * G + n = 2 * (h * G) + m
  <2>1. s * G = (2 * h) * G + d * G
    BY <1>4, <1>5, Distributes
  <2>2. (2 * h) * G = 2 * (h * G)
    BY <1>2, <1>4, SMT
  <2> QED
    BY <1>1, <1>6, <1>8, <2>1, <2>2
<1> HIDE DEF m
<1>10. Quotient(s * G + n, 2) = h * G + Quotient(m, 2)
  <2>1. (h * G >= 0 /\ m >= 0) \/ (h * G <= 0 /\ m <= 0)
    BY <1>1, <1>4, <1>7, <1>8
  <2> QED
    BY <1>7, <1>8, <1>9, <2>1, HalfQuotient
<1>11. Quotient(m, 2) \in Int /\ -2 * G < Quotient(m, 2) /\ Quotient(m, 2) < 2 * G
  BY <1>2, <1>7 DEF Quotient
<1> QED
  BY <1>1, <1>3, <1>4, <1>10, <1>11, NormalizeExact

\* scaledNanosecondsToInternalTime.
LEMMA NanosecondsExact ==
  ASSUME NEW v \in Int
  PROVE  LET r == NanosecondsToInternalTime(v)
         IN  r \in Pairs /\ IsNormal(r) /\ Value(r) = v
<1> DEFINE q == Quotient(v, G)  b == v - q * G
<1>1. G \in Nat /\ G > 1
  BY ArithAssumption
<1>2. ASSUME NEW k \in Nat
      PROVE  /\ k \div G \in Nat /\ (k \div G) * G \in Int
             /\ k - (k \div G) * G >= 0 /\ k - (k \div G) * G < G
             /\ (-(k \div G)) * G = -((k \div G) * G)
  BY <1>1, <1>2, SMT
<1>3. /\ q \in Int /\ q * G \in Int /\ -G < b /\ b < G
      /\ ~(q > 0 /\ b < 0) /\ ~(q < 0 /\ b > 0)
  <2>1. CASE v >= 0
    BY <1>1, <1>2, <2>1 DEF Quotient
  <2>2. CASE v < 0
    <3>1. -v \in Nat
      BY <2>2
    <3> DEFINE e == (-v) \div G
    <3>2. /\ e \in Nat /\ e * G \in Int /\ -v - e * G >= 0 /\ -v - e * G < G
          /\ (-e) * G = -(e * G)
      BY <1>2, <3>1
    <3>3. q = -e
      BY <2>2 DEF Quotient
    <3> HIDE DEF e, q
    <3> QED
      BY <1>1, <3>2, <3>3
  <2> QED
    BY <2>1, <2>2
<1>4. NanosecondsToInternalTime(v) = Time(q, b)
  BY DEF NanosecondsToInternalTime
<1> HIDE DEF q
<1>5. b \in Int /\ q * G + b = v
  BY <1>1, <1>3
<1> HIDE DEF b
<1>6. Time(q, b) \in Pairs /\ IsNormal(Time(q, b)) /\ Value(Time(q, b)) = v
  BY <1>3, <1>5, NormalTime, TimeOf
<1> QED
  BY <1>4, <1>6

-----------------------------------------------------------------------------
\* Type correctness and exactness are preserved together: an operation is exact because
\* its operands are normal.
Inv == TypeOK /\ Exact

\* Every operation keeps the time normal and exact.
LEMMA InvNext ==
  ASSUME StampsConvertible, Inv, [Next]_vars
  PROVE  Inv'
<1>1. t \in Pairs /\ IsNormal(t) /\ exact = Value(t) /\ Value(t) \in Int
  BY DEF Inv, TypeOK, Exact, Pairs
<1>2. ASSUME t' \in Pairs, IsNormal(t'), Value(t') = exact'
      PROVE  Inv'
  <2>1. Value(t') \in Int
    BY <1>2, ArithAssumption DEF Pairs, Value
  <2> QED
    BY <1>2, <2>1 DEF Inv, TypeOK, Exact, Pairs, IsNormal, Value
<1>3. ASSUME NEW y \in Operands, Add(y) \/ Subtract(y)
      PROVE  Inv'
  <2>1. y \in Pairs /\ IsNormal(y)
    BY ArithAssumption DEF Operands, Pairs
  <2> QED
    BY <1>1, <1>2, <1>3, <2>1, AddSubExact DEF Add, Subtract
<1>4. CASE Halve
  BY <1>1, <1>2, <1>4, HalfExact DEF Halve
<1>5. ASSUME NEW v \in (-MaxSeconds * G) .. (MaxSeconds * G), Correction(v)
      PROVE  Inv'
  <2>1. v \in Int
    BY ArithAssumption
  <2> QED
    BY <1>2, <1>5, <2>1, NanosecondsExact DEF Correction
<1>6. ASSUME NEW stamp \in Stamps, Stamp(stamp)
      PROVE  Inv'
  <2>1. /\ stamp \in Pairs /\ IsNormal(stamp) /\ stamp.seconds < INT_MAX
    BY ArithAssumption DEF Stamps, Pairs, IsNormal, StampsConvertible
  <2> QED
    BY <1>2, <1>6, <2>1 DEF Stamp, ToInternalTime
<1>7. CASE UNCHANGED vars
  BY <1>7 DEF vars, Inv, TypeOK, Exact, IsNormal, Value
<1> QED
  BY <1>3, <1>4, <1>5, <1>6, <1>7 DEF Next

\* The invariant holds along any sequence of operations.
LEMMA InvAlways == ASSUME StampsConvertible PROVE Spec => []Inv
<1>1. Init => Inv
  BY ArithAssumption, SignOfProduct DEF Init, Inv, TypeOK, Exact, Time, IsNormal, Value
<1>2. Inv /\ [Next]_vars => Inv'
  BY InvNext
<1> QED
  BY <1>1, <1>2, PTL DEF Spec

\* Whatever times the engine adds, subtracts, halves and converts, of messages whose
\* stamps fit, the TimeInternal it holds is normal: its sign can be read off either part.
THEOREM Normalized == ASSUME StampsConvertible PROVE Spec => []TypeOK
<1>1. Inv => TypeOK
  BY DEF Inv
<1> QED
  BY <1>1, InvAlways, PTL

\* It also stands for the exact result, for a second of any even length.
THEOREM ArithExact == ASSUME StampsConvertible PROVE Spec => []Exact
<1>1. Inv => Exact
  BY DEF Inv
<1> QED
  BY <1>1, InvAlways, PTL

-----------------------------------------------------------------------------
(* Powers of two and division.  2^n is the number of subsets of a set of n *)
(* elements, which is what the library knows of it.                        *)

\* The smallest powers.
LEMMA PowSmall == 2^0 = 1 /\ 2^1 = 2
OBVIOUS

\* The same for an expression that is zero.
LEMMA PowZero == ASSUME NEW z, z = 0 PROVE 2^z = 1
<1>1. 2^z = 2^0
  BY Zenon
<1> QED BY <1>1, PowSmall

\* A power of two is positive.
LEMMA PowNat == ASSUME NEW n \in Nat PROVE 2^n \in Nat /\ 2^n > 0
<1>1. IsFiniteSet(1 .. n) /\ Cardinality(1 .. n) = n
  BY FS_Interval
<1>2. IsFiniteSet(SUBSET (1 .. n)) /\ Cardinality(SUBSET (1 .. n)) = 2^n
  BY <1>1, FS_SUBSET
<1>3. SUBSET (1 .. n) # {}
  OBVIOUS
<1> QED BY <1>2, <1>3, FS_CardinalityType, FS_EmptySet

\* A subset of 1 .. a + b is a subset of 1 .. a and one of the rest.
LEMMA PowSum == ASSUME NEW a \in Nat, NEW b \in Nat PROVE 2^(a + b) = 2^a * 2^b
<1> DEFINE A == 1 .. a
           B == (a + 1) .. (a + b)
           C == 1 .. (a + b)
           X == SUBSET C
           Y == (SUBSET A) \X (SUBSET B)
           f == [T \in X |-> <<T \cap A, T \cap B>>]
<1>1. /\ IsFiniteSet(A) /\ Cardinality(A) = a
      /\ IsFiniteSet(B) /\ Cardinality(B) = b
      /\ IsFiniteSet(C) /\ Cardinality(C) = a + b
  <2>1. a + 1 \in Int /\ a + b \in Int /\ 1 \in Int /\ a \in Int
    OBVIOUS
  <2>2. Cardinality(A) = IF 1 > a THEN 0 ELSE a - 1 + 1
    BY <2>1, FS_Interval
  <2>3. Cardinality(B) = IF a + 1 > a + b THEN 0 ELSE (a + b) - (a + 1) + 1
    BY <2>1, FS_Interval
  <2>4. Cardinality(C) = IF 1 > a + b THEN 0 ELSE (a + b) - 1 + 1
    BY <2>1, FS_Interval
  <2>5. IsFiniteSet(A) /\ IsFiniteSet(B) /\ IsFiniteSet(C)
    BY <2>1, FS_Interval
  <2> HIDE DEF A, B, C
  <2> QED BY <2>2, <2>3, <2>4, <2>5
<1>2. C = A \cup B
  OBVIOUS
<1>3. A \cap B = {}
  OBVIOUS
<1> HIDE DEF A, B, C
<1>4. f \in Bijection(X, Y)
  <2>1. f \in [X -> Y]
    OBVIOUS
  <2>2. ASSUME NEW T \in X, NEW U \in X, f[T] = f[U] PROVE T = U
    <3>1. T \cap A = U \cap A /\ T \cap B = U \cap B
      BY <2>2
    <3>2. T \subseteq A \cup B /\ U \subseteq A \cup B
      BY <1>2
    <3> HIDE DEF f
    <3> QED BY <3>1, <3>2
  <2>3. ASSUME NEW y \in Y PROVE \E T \in X : f[T] = y
    <3>1. y = <<y[1], y[2]>> /\ y[1] \subseteq A /\ y[2] \subseteq B
      OBVIOUS
    <3>2. y[1] \cup y[2] \in X
      BY <3>1, <1>2
    <3>3. (y[1] \cup y[2]) \cap A = y[1] /\ (y[1] \cup y[2]) \cap B = y[2]
      BY <3>1, <1>3
    <3>4. f[y[1] \cup y[2]] = <<y[1], y[2]>>
      BY <3>2, <3>3
    <3> HIDE DEF f, X, Y
    <3> QED BY <3>1, <3>2, <3>4
  <2> HIDE DEF f, X, Y
  <2>4. f \in Surjection(X, Y)
    BY <2>1, <2>3, Zenon DEF Surjection
  <2>5. f \in Injection(X, Y)
    BY <2>1, <2>2 DEF Injection, IsInjective
  <2> QED BY <2>4, <2>5 DEF Bijection
<1>5. IsFiniteSet(X) /\ Cardinality(X) = 2^(a + b)
  BY <1>1, FS_SUBSET
<1>6. /\ IsFiniteSet(SUBSET A) /\ Cardinality(SUBSET A) = 2^a
      /\ IsFiniteSet(SUBSET B) /\ Cardinality(SUBSET B) = 2^b
  BY <1>1, FS_SUBSET
<1>7. Cardinality(Y) = 2^a * 2^b
  BY <1>6, FS_Product
<1> HIDE DEF X, Y, f
<1>8. ExistsBijection(X, Y)
  BY <1>4 DEF ExistsBijection
<1>9. Cardinality(Y) = Cardinality(X)
  BY <1>5, <1>8, FS_Bijection
<1> QED BY <1>5, <1>7, <1>9

\* A higher power is not smaller.
LEMMA PowMonotone == ASSUME NEW a \in Nat, NEW b \in Nat, a <= b PROVE 2^a <= 2^b
<1>1. b - a \in Nat /\ a + (b - a) = b
  OBVIOUS
<1>2. 2^b = 2^a * 2^(b - a)
  BY <1>1, PowSum
<1>3. 2^a \in Nat /\ 2^(b - a) \in Nat /\ 2^(b - a) > 0
  BY <1>1, PowNat
<1>4. \A k, m \in Nat : m > 0 => k <= k * m
  OBVIOUS
<1> QED BY <1>2, <1>3, <1>4

\* The next power is the double.
LEMMA PowNext == ASSUME NEW n \in Nat PROVE 2^(n + 1) = 2 * 2^n
<1>1. 2^(n + 1) = 2^n * 2^1 /\ 2^n \in Nat
  BY PowSum, PowNat
<1> QED BY <1>1, PowSmall

\* Division by a positive number rounds down, also for negative numbers: the >> of the target.
LEMMA DivisionFact ==
  ASSUME NEW a \in Int, NEW b \in Nat, b > 0
  PROVE  /\ a \div b \in Int
         /\ (a \div b) * b <= a /\ a < (a \div b) * b + b
BY SMT

\* The quotient is the only number with its two bounds.
LEMMA DivisionUnique ==
  ASSUME NEW a \in Int, NEW b \in Nat, b > 0, NEW q \in Int, q * b <= a, a < q * b + b
  PROVE  a \div b = q
<1> DEFINE r == a \div b
<1>1. r \in Int /\ r * b <= a /\ a < r * b + b
  BY DivisionFact
<1> HIDE DEF r
<1>2. r = q
  <2>1. CASE r > q
    <3>1. r * b >= (q + 1) * b
      BY <1>1, <2>1, SMT
    <3> QED BY <1>1, <3>1, SMT
  <2>2. CASE r < q
    <3>1. q * b >= (r + 1) * b
      BY <1>1, <2>2, SMT
    <3> QED BY <1>1, <3>1, SMT
  <2> QED BY <1>1, <2>1, <2>2
<1> QED BY <1>2 DEF r

\* Two right shifts are one.
LEMMA DivisionTwice ==
  ASSUME NEW a \in Int, NEW b \in Nat, NEW c \in Nat, b > 0, c > 0
  PROVE  (a \div b) \div c = a \div (b * c)
<1> DEFINE q == a \div b  r == q \div c
<1>1. q \in Int /\ q * b <= a /\ a < q * b + b
  BY DivisionFact
<1>2. r \in Int /\ r * c <= q /\ q < r * c + c
  BY <1>1, DivisionFact
<1> HIDE DEF q, r
<1>3. b * c \in Nat /\ b * c > 0
  BY SMT
<1>4. r * (b * c) <= a
  <2>1. (r * c) * b <= q * b
    BY <1>1, <1>2, SMT
  <2>2. (r * c) * b = r * (b * c)
    BY <1>2, SMT
  <2> QED BY <1>1, <1>2, <2>1, <2>2
<1>5. a < r * (b * c) + b * c
  <2>1. (q + 1) * b <= (r * c + c) * b
    BY <1>1, <1>2, SMT
  <2>2. (r * c + c) * b = r * (b * c) + b * c /\ (q + 1) * b = q * b + b
    BY <1>1, <1>2, SMT
  <2> QED BY <1>1, <1>2, <1>3, <2>1, <2>2
<1>6. a \div (b * c) = r
  BY <1>2, <1>3, <1>4, <1>5, DivisionUnique
<1> QED BY <1>6 DEF r, q

\* A set of numbers that is not empty has a least one.
LEMMA LeastElement ==
  ASSUME NEW T, T \subseteq Nat, T # {}
  PROVE  \E x \in T : \A y \in T : x <= y
<1> DEFINE R == OpToRel(<, Nat)
<1>1. IsWellFoundedOn(R, Nat)
  BY NatLessThanWellFounded
<1>2. \A x, y \in Nat : y < x => <<y, x>> \in R
  BY DEF OpToRel
<1> HIDE DEF R
<1>3. PICK x \in T : \A y \in T : ~(<<y, x>> \in R)
  BY <1>1, WFMin
<1>4. ASSUME NEW y \in T PROVE x <= y
  <2>1. x \in Nat /\ y \in Nat
    OBVIOUS
  <2>2. ~(y < x)
    BY <1>2, <1>3, <2>1, Zenon
  <2> QED BY <2>1, <2>2
<1> QED BY <1>4

-----------------------------------------------------------------------------
(* The filter.  Its result is the quotient of its sum by the power of two  *)
(* of its order; a new sample moves the sum between the multiples of any   *)
(* two numbers that bound the sample and the last result.                  *)

\* A sum shifted to another order has the same quotient: the filter's result does not move when its
\* order changes.
LEMMA RescaledQuotient ==
  ASSUME NEW u \in Int, NEW a \in Nat, NEW s \in Nat, NEW r,
         a > s => r = u \div 2^(a - s),
         ~(a > s) => r = u * 2^(s - a)
  PROVE  r \in Int /\ r \div 2^s = u \div 2^a
<1>0. 2^s \in Nat /\ 2^s > 0 /\ 2^a \in Nat /\ 2^a > 0
  BY PowNat
<1>1. CASE a > s
  <2>1. a - s \in Nat /\ (a - s) + s = a
    BY <1>1
  <2>2. 2^(a - s) \in Nat /\ 2^(a - s) > 0 /\ 2^a = 2^(a - s) * 2^s
    BY <2>1, PowNat, PowSum
  <2>3. r = u \div 2^(a - s)
    BY <1>1
  <2>4. r \in Int
    BY <2>2, <2>3, DivisionFact
  <2> QED BY <1>0, <2>2, <2>3, <2>4, DivisionTwice
<1>2. CASE ~(a > s)
  <2> DEFINE K == 2^(s - a)
  <2>1. s - a \in Nat /\ (s - a) + a = s
    BY <1>2
  <2>2. K \in Nat /\ K > 0 /\ 2^s = K * 2^a
    BY <2>1, PowNat, PowSum
  <2>3. r = u * K
    BY <1>2
  <2> HIDE DEF K
  <2>4. r \in Int
    BY <2>2, <2>3
  <2>5. r \div K = u
    BY <2>2, <2>3, <2>4, DivisionUnique
  <2>6. (r \div K) \div 2^a = r \div (K * 2^a)
    BY <1>0, <2>2, <2>4, DivisionTwice
  <2> QED BY <2>2, <2>4, <2>5, <2>6
<1> QED BY <1>1, <1>2

\* The new sum lies between the multiples of any bounds of the sample and the last result.
LEMMA SumBetween ==
  ASSUME NEW l \in Int, NEW h \in Int, NEW p \in Int, NEW x \in Int, NEW r \in Int, NEW k \in Nat, k > 0,
         r \div k = p, l <= p, p <= h, l <= x, x <= h
  PROVE  /\ l * k <= r /\ r < h * k + k
         /\ l * k <= r + x - p /\ r + x - p < h * k + k
<1>1. p * k <= r /\ r < p * k + k
  BY DivisionFact
<1>2. l * k <= p * k /\ p * k <= h * k
  BY SMT
<1>3. l * (k - 1) <= p * (k - 1) /\ p * (k - 1) <= h * (k - 1)
  BY SMT
<1>4. /\ l * (k - 1) = l * k - l /\ h * (k - 1) = h * k - h /\ p * (k - 1) = p * k - p
      /\ l * k \in Int /\ h * k \in Int /\ p * k \in Int
  BY SMT
<1> QED BY <1>1, <1>2, <1>3, <1>4

\* A sum between k times two bounds has its average between them.
LEMMA QuotientBetween ==
  ASSUME NEW l \in Int, NEW h \in Int, NEW y \in Int, NEW k \in Nat, k > 0,
         l * k <= y, y < h * k + k
  PROVE  y \div k \in Int /\ l <= y \div k /\ y \div k <= h
<1> DEFINE q == y \div k
<1>1. q \in Int /\ q * k <= y /\ y < q * k + k
  BY DivisionFact
<1> HIDE DEF q
<1>2. l <= q
  <2> SUFFICES ASSUME q + 1 <= l PROVE FALSE
    BY <1>1
  <2>1. (q + 1) * k <= l * k /\ (q + 1) * k = q * k + k
    BY <1>1, SMT
  <2> QED BY <1>1, <2>1
<1>3. q <= h
  <2> SUFFICES ASSUME h + 1 <= q PROVE FALSE
    BY <1>1
  <2>1. (h + 1) * k <= q * k /\ (h + 1) * k = h * k + k
    BY <1>1, SMT
  <2> QED BY <1>1, <2>1
<1> QED BY <1>1, <1>2, <1>3 DEF q

-----------------------------------------------------------------------------
\* What is assumed of the filter, spelled out.
LEMMA FilterConstants ==
  /\ FilterWidth \in Nat /\ FilterWidth > 4
  /\ FilterOrder \in Nat /\ FilterOrder <= FilterWidth - 2
  /\ FilterWidth - 1 \in Nat /\ FilterWidth - 2 \in Nat /\ FilterWidth - 1 - FilterOrder \in Nat
  /\ SampleSizes \subseteq 0 .. (2^(FilterWidth - 2) - 1)
<1>1. /\ FilterWidth \in Nat /\ FilterWidth > 4 /\ FilterOrder \in 0 .. (FilterWidth - 2)
      /\ SampleSizes \subseteq 0 .. (2^(FilterWidth - 2) - 1)
  BY FiltersAssumption, Zenon DEF Filter!FilterAssumption
<1> QED BY <1>1

\* floorLog2, for numbers of less than Width bits.
LEMMA FloorLog2Is ==
  ASSUME NEW n \in Nat, n > 0, NEW e \in 0 .. FilterWidth, n < 2^e
  PROVE  LET p == Filter!FloorLog2(n) IN p \in Nat /\ p < e /\ 2^p <= n /\ n < 2^(p + 1)
<1> DEFINE Over == {q \in Nat : n < 2^q}
<1>0. e \in Nat /\ e <= FilterWidth /\ FilterWidth \in Nat
  BY FilterConstants
<1>1. PICK q \in Over : \A y \in Over : q <= y
  BY <1>0, LeastElement
<1>2. q \in Nat /\ n < 2^q /\ q <= e
  BY <1>0, <1>1
<1>3. q # 0
  BY <1>2, PowZero
<1>4. q - 1 \in Nat /\ (q - 1) + 1 = q
  BY <1>2, <1>3
<1>5. 2^(q - 1) <= n
  <2>1. ~(n < 2^(q - 1))
    BY <1>1, <1>4
  <2>2. 2^(q - 1) \in Nat
    BY <1>4, PowNat
  <2> QED BY <2>1, <2>2
<1>6. \E p \in 0 .. FilterWidth : 2^p <= n /\ n < 2^(p + 1)
  <2>1. q - 1 \in 0 .. FilterWidth
    BY <1>0, <1>2, <1>4
  <2> QED BY <1>2, <1>4, <1>5, <2>1
<1> DEFINE p == Filter!FloorLog2(n)
<1>7. p \in 0 .. FilterWidth /\ 2^p <= n /\ n < 2^(p + 1)
  BY <1>6 DEF Filter!FloorLog2
<1> HIDE DEF p
<1>8. p < e
  <2> SUFFICES ASSUME e <= p PROVE FALSE
    BY <1>0, <1>7
  <2>1. 2^e <= 2^p /\ 2^e \in Nat /\ 2^p \in Nat
    BY <1>0, <1>7, PowMonotone, PowNat
  <2> QED BY <1>7, <2>1
<1> QED BY <1>0, <1>7, <1>8 DEF p

\* order
LEMMA OrderIs ==
  ASSUME NEW n \in Int, NEW e \in 1 .. FilterWidth, -(2^e) < n, n < 2^e
  PROVE  LET p == Filter!Order(n) IN p \in Nat /\ p < e /\ n < 2^(p + 1)
<1>0. e \in Nat /\ e \in 0 .. FilterWidth /\ e > 0 /\ 2^e \in Nat
  BY FilterConstants, PowNat
<1>1. CASE n = 0
  BY <1>0, <1>1, PowSmall DEF Filter!Order
<1>2. CASE n > 0
  <2>1. n \in Nat /\ Filter!Order(n) = Filter!FloorLog2(n)
    BY <1>2 DEF Filter!Order
  <2> QED BY <1>0, <1>2, <2>1, FloorLog2Is
<1>3. CASE n < 0
  <2>1. -n \in Nat /\ -n > 0 /\ -n < 2^e /\ Filter!Order(n) = Filter!FloorLog2(-n)
    BY <1>0, <1>3 DEF Filter!Order
  <2> DEFINE p == Filter!FloorLog2(-n)
  <2>2. p \in Nat /\ p < e
    BY <1>0, <2>1, FloorLog2Is
  <2> HIDE DEF p
  <2>3. 2^(p + 1) \in Nat
    BY <2>2, PowNat
  <2>4. n < 2^(p + 1)
    BY <1>3, <2>3
  <2> QED BY <2>1, <2>2, <2>4 DEF p
<1> QED BY <1>1, <1>2, <1>3

-----------------------------------------------------------------------------
\* The samples of a filter.
Samples(In) == In \subseteq (1 - 2^(FilterWidth - 2)) .. (2^(FilterWidth - 2) - 1)

\* The inductive invariant of a filter of samples In: as long as no sample lay below Floor,
\* the sum has not wrapped around, and the last result is its quotient, between the samples.
FilterInv(In) ==
  /\ filt \in [n : 0 .. 2^FilterOrder, s_prev : 0 .. FilterOrder, y_prev : Filter!Int32, y_sum : Filter!Int32]
  /\ lo \in In \cup {0} /\ hi \in In \cup {0}
  /\ overflow \in BOOLEAN
  /\ filt.n = 0 => overflow = FALSE
  /\ filt.n > 0 => lo \in In /\ hi \in In
  /\ filt.n > 0 /\ lo >= Filter!Floor => /\ overflow = FALSE
                                        /\ lo <= filt.y_prev /\ filt.y_prev <= hi
                                        /\ filt.y_prev = filt.y_sum \div 2^filt.s_prev

\* What is stored fits the width.
LEMMA WrapType ==
  ASSUME NEW v \in Int
  PROVE  Filter!Wrap(v) \in Filter!Int32
<1> DEFINE k == 2^(FilterWidth - 1)
<1>1. FilterWidth - 1 \in Nat /\ (FilterWidth - 1) + 1 = FilterWidth
  BY FilterConstants
<1>2. k \in Nat /\ k > 0 /\ 2^FilterWidth = 2 * k
  BY <1>1, PowNat, PowNext
<1> HIDE DEF k
<1>3. Filter!Wrap(v) = ((v + k) % (2 * k)) - k /\ Filter!Int32 = (-k) .. (k - 1)
  BY <1>2, Zenon DEF Filter!Wrap, Filter!Int32, k
<1>4. v + k \in Int /\ 2 * k \in Nat /\ 2 * k > 0
  BY <1>2
<1>5. (v + k) % (2 * k) \in 0 .. (2 * k - 1)
  BY <1>4
<1> QED BY <1>2, <1>3, <1>5

\* A number that fits the width is stored as it is.
LEMMA WrapFits ==
  ASSUME NEW v \in Int, -(2^(FilterWidth - 1)) <= v, v < 2^(FilterWidth - 1)
  PROVE  v \in Filter!Int32 /\ Filter!Wrap(v) = v
<1> DEFINE k == 2^(FilterWidth - 1)
<1>1. FilterWidth - 1 \in Nat /\ (FilterWidth - 1) + 1 = FilterWidth
  BY FilterConstants
<1>2. k \in Nat /\ k > 0 /\ 2^FilterWidth = 2 * k
  BY <1>1, PowNat, PowNext
<1> HIDE DEF k
<1>3. -k <= v /\ v < k
  BY DEF k
<1>4. (v + k) % (2 * k) = v + k
  BY <1>2, <1>3
<1>5. Filter!Wrap(v) = ((v + k) % (2 * k)) - k /\ Filter!Int32 = (-k) .. (k - 1)
  BY <1>2, Zenon DEF Filter!Wrap, Filter!Int32, k
<1> QED BY <1>2, <1>3, <1>4, <1>5

\* The order is within 0 .. S, and low enough for the sample and the last result.
LEMMA NewOrderFits ==
  ASSUME NEW f, f.n \in Nat, f.n > 0, f.y_prev \in Int, NEW x \in Int,
         f.y_prev < 2^(FilterWidth - 1), -(2^(FilterWidth - 1)) < x, x < 2^(FilterWidth - 1)
  PROVE  LET s == Filter!NewOrder(f, x)
         IN  /\ s \in 0 .. FilterOrder
             /\ \E h \in Int : f.y_prev <= h /\ x <= h /\ h * 2^s + 2^s <= 2^(FilterWidth - 1)
<1> DEFINE s == Filter!NewOrder(f, x)
           h == Filter!Greater(f.y_prev, x)
           o == Filter!Order(h)
           c == IF 2^FilterOrder > f.n THEN Filter!Order(f.n) ELSE FilterOrder
           e == FilterWidth - 1
<1>0. /\ FilterWidth \in Nat /\ FilterWidth > 4 /\ FilterOrder \in Nat /\ FilterOrder <= e
      /\ e \in Nat /\ e \in 1 .. FilterWidth /\ FilterWidth - 1 \in Nat
  BY FilterConstants
<1>1. h \in Int /\ -(2^e) < h /\ h < 2^e /\ f.y_prev <= h /\ x <= h
  <2>1. ASSUME NEW limit \in Nat, f.y_prev < limit, -limit < x, x < limit
        PROVE  h \in Int /\ -limit < h /\ h < limit /\ f.y_prev <= h /\ x <= h
    BY <2>1 DEF Filter!Greater
  <2>2. 2^e \in Nat
    BY <1>0, PowNat
  <2> QED BY <2>1, <2>2
<1> HIDE DEF h
<1>2. o \in Nat /\ o < e /\ h < 2^(o + 1)
  <2> HIDE DEF e
  <2> QED BY <1>0, <1>1, OrderIs
<1>3. c \in 0 .. FilterOrder
  <2>1. CASE 2^FilterOrder > f.n
    <3>1. 2^FilterOrder \in Nat
      BY <1>0, PowNat
    <3>2. FilterOrder # 0
      BY <2>1, <3>1, PowZero
    <3>3. FilterOrder \in 1 .. FilterWidth
      BY <1>0, <3>2
    <3>4. -(2^FilterOrder) < f.n /\ f.n \in Int
      BY <3>1
    <3>5. Filter!Order(f.n) \in Nat /\ Filter!Order(f.n) < FilterOrder
      BY <2>1, <3>3, <3>4, OrderIs
    <3> QED BY <2>1, <3>5, <1>0
  <2>2. CASE ~(2^FilterOrder > f.n)
    BY <1>0, <2>2
  <2> QED BY <2>1, <2>2
<1>4. s = Filter!Lesser(c, (FilterWidth - 2) - o)
  BY DEF Filter!NewOrder, h
<1> HIDE DEF c, s, o
<1>5. s \in 0 .. FilterOrder /\ s <= (FilterWidth - 2) - o
  BY <1>0, <1>2, <1>3, <1>4 DEF Filter!Lesser
<1>6. h * 2^s + 2^s <= 2^(FilterWidth - 1)
  <2>1. s \in Nat /\ o + 1 \in Nat /\ (o + 1) + s \in Nat /\ (o + 1) + s <= FilterWidth - 1
    BY <1>0, <1>2, <1>5
  <2>2. 2^s \in Nat /\ 2^s > 0 /\ 2^(o + 1) \in Nat /\ 2^((o + 1) + s) = 2^(o + 1) * 2^s
    BY <2>1, PowNat, PowSum
  <2>3. 2^((o + 1) + s) <= 2^(FilterWidth - 1)
    BY <1>0, <2>1, PowMonotone
  <2>4. (h + 1) * 2^s <= 2^(o + 1) * 2^s /\ (h + 1) * 2^s = h * 2^s + 2^s
    <3>1. ASSUME NEW k \in Nat, NEW m \in Int, h + 1 <= m
          PROVE  (h + 1) * k <= m * k /\ (h + 1) * k = h * k + k
      BY <1>1, <3>1, SMT
    <3>2. h + 1 <= 2^(o + 1)
      BY <1>1, <1>2, <2>2
    <3> QED BY <2>2, <3>1, <3>2
  <2>5. h * 2^s \in Int /\ 2^(FilterWidth - 1) \in Nat /\ 2^((o + 1) + s) \in Nat
    BY <1>0, <1>1, <2>1, <2>2, PowNat
  <2> QED BY <2>2, <2>3, <2>4, <2>5
<1>7. \E k \in Int : f.y_prev <= k /\ x <= k /\ k * 2^s + 2^s <= 2^(FilterWidth - 1)
  BY <1>1, <1>6
<1> QED BY <1>5, <1>7 DEF s

\* The order is one the filter may have, whatever has overflowed; and the last result and a
\* sample not below Floor have bounds whose multiples fit the width.
LEMMA BoundsFit ==
  ASSUME NEW f, f.n \in Nat, f.n > 0, f.y_prev \in Filter!Int32, NEW x \in Int,
         -(2^(FilterWidth - 2)) < x, x < 2^(FilterWidth - 2)
  PROVE  LET s == Filter!NewOrder(f, x)
             k == 2^(FilterWidth - 1)
         IN  /\ s \in 0 .. FilterOrder
             /\ Filter!Floor <= f.y_prev /\ Filter!Floor <= x =>
                  \E a, b \in Int : /\ a <= f.y_prev /\ f.y_prev <= b /\ a <= x /\ x <= b
                                    /\ -k <= a * 2^s /\ b * 2^s + 2^s <= k
<1> DEFINE s == Filter!NewOrder(f, x)
           k == 2^(FilterWidth - 1)
           d == 2^(FilterWidth - 1 - FilterOrder)
<1>1. /\ FilterWidth \in Nat /\ FilterOrder \in Nat
      /\ FilterWidth - 1 \in Nat /\ FilterWidth - 2 \in Nat /\ FilterWidth - 1 - FilterOrder \in Nat
  BY FilterConstants
<1>2. k \in Nat /\ d \in Nat /\ 2^(FilterWidth - 2) \in Nat /\ 2^(FilterWidth - 2) <= k
  <2>1. FilterWidth - 2 <= FilterWidth - 1
    BY <1>1
  <2> QED BY <1>1, <2>1, PowNat, PowMonotone
<1>3. Filter!Int32 = (-k) .. (k - 1) /\ Filter!Floor = -d
  BY Zenon DEF Filter!Int32, Filter!Floor
<1> HIDE DEF d, k
<1>4. f.y_prev \in Int /\ f.y_prev < k /\ -k < x /\ x < k
  BY <1>2, <1>3
<1>5. /\ s \in 0 .. FilterOrder
      /\ \E g \in Int : f.y_prev <= g /\ x <= g /\ g * 2^s + 2^s <= k
  BY <1>4, NewOrderFits DEF k
<1> HIDE DEF s
<1>6. s \in Nat /\ 2^s \in Nat
  BY <1>1, <1>5, PowNat
<1>7. d * 2^s <= k
  <2>1. /\ (FilterWidth - 1 - FilterOrder) + s \in Nat
        /\ (FilterWidth - 1 - FilterOrder) + s <= FilterWidth - 1
    BY <1>1, <1>5, <1>6
  <2>2. 2^((FilterWidth - 1 - FilterOrder) + s) = d * 2^s
    BY <1>1, <1>6, PowSum DEF d
  <2>3. 2^((FilterWidth - 1 - FilterOrder) + s) <= k
    BY <1>1, <2>1, PowMonotone DEF k
  <2> QED BY <2>2, <2>3
<1>8. -k <= (-d) * 2^s
  <2>1. ASSUME NEW m \in Nat, d * m <= k PROVE -k <= (-d) * m
    <3>1. (-d) * m = -(d * m) /\ d * m \in Int
      BY <1>2, SMT
    <3> QED BY <1>2, <2>1, <3>1
  <2> QED BY <1>6, <1>7, <2>1
<1>9. ASSUME Filter!Floor <= f.y_prev, Filter!Floor <= x
      PROVE  \E a, b \in Int : /\ a <= f.y_prev /\ f.y_prev <= b /\ a <= x /\ x <= b
                               /\ -k <= a * 2^s /\ b * 2^s + 2^s <= k
  <2>1. PICK g \in Int : f.y_prev <= g /\ x <= g /\ g * 2^s + 2^s <= k
    BY <1>5
  <2>2. -d \in Int /\ -d <= f.y_prev /\ -d <= x
    BY <1>2, <1>3, <1>9
  <2> QED BY <1>8, <2>1, <2>2
<1> QED BY <1>5, <1>9 DEF s, k

\* A sample keeps the invariant, whatever the order was and becomes.
LEMMA FilterStep ==
  ASSUME NEW In, Samples(In), FilterInv(In), NEW x \in In, Filter!Filter(x)
  PROVE  FilterInv(In)'
<1> DEFINE f == Filter!Counted(filt, x)
           s == Filter!NewOrder(f, x)
           r == Filter!Rescaled(f, s)
           p == f.y_prev
           L == IF f.n = 1 THEN x ELSE Filter!Lesser(lo, x)
           H == IF f.n = 1 THEN x ELSE Filter!Greater(hi, x)
           k == 2^(FilterWidth - 1)
           e == 2^(FilterWidth - 2)
           I == Filter!Int32
           D == Filter!Floor
<1>0. /\ FilterWidth - 1 \in Nat /\ FilterOrder \in Nat /\ k \in Nat /\ k > 0
      /\ 2^FilterOrder \in Nat /\ 2^FilterOrder > 0
      /\ e \in Nat /\ e <= k
  <2>1. FilterWidth - 2 \in Nat /\ FilterWidth - 2 <= FilterWidth - 1
    BY FilterConstants
  <2> QED BY <2>1, FilterConstants, PowNat, PowMonotone
<1>1. In \subseteq Int /\ D \in Int
  <2>1. 2^(FilterWidth - 1 - FilterOrder) \in Nat
    BY FilterConstants, PowNat
  <2> QED BY <2>1 DEF Samples, Filter!Floor
<1>2. I = (-k) .. (k - 1)
  BY DEF Filter!Int32
<1>3. /\ filt.n \in Nat /\ filt.n <= 2^FilterOrder /\ filt.s_prev \in 0 .. FilterOrder
      /\ filt.y_prev \in I /\ filt.y_sum \in I
      /\ filt = [n |-> filt.n, s_prev |-> filt.s_prev, y_prev |-> filt.y_prev, y_sum |-> filt.y_sum]
  BY <1>0 DEF FilterInv
<1>4. x \in (1 - e) .. (e - 1)
  BY DEF Samples
<1> HIDE DEF k, I, e, D
<1>5. x \in Int /\ -e < x /\ x < e /\ x \in I
  BY <1>0, <1>2, <1>4
<1>6. /\ f.n \in Nat /\ f.n > 0 /\ f.s_prev \in 0 .. FilterOrder /\ p \in I /\ f.y_sum \in I
      /\ L \in In /\ H \in In /\ L <= x /\ x <= H
      /\ L >= D => overflow = FALSE /\ L <= p /\ p <= H /\ p = f.y_sum \div 2^f.s_prev
  <2>1. CASE filt.n = 0
    <3>1. f = [n |-> 1, s_prev |-> 0, y_prev |-> x, y_sum |-> x]
      BY <2>1 DEF Filter!Counted
    <3>2. x \div 2^0 = x
      BY <1>5, PowSmall
    <3>3. f.n = 1 /\ f.s_prev = 0 /\ f.y_prev = x /\ f.y_sum = x
      BY <3>1
    <3> HIDE DEF f
    <3>4. f.y_sum \div 2^f.s_prev = x
      BY <3>2, <3>3, Zenon
    <3>5. overflow = FALSE
      BY <2>1 DEF FilterInv
    <3> QED BY <1>0, <1>5, <3>3, <3>4, <3>5
  <2>2. CASE filt.n # 0
    <3>1. f = [filt EXCEPT !.n = @ + 1]
      BY <2>2 DEF Filter!Counted
    <3>2. f.n = filt.n + 1 /\ f.s_prev = filt.s_prev /\ f.y_prev = filt.y_prev /\ f.y_sum = filt.y_sum
      BY <1>3, <3>1
    <3>3. filt.n > 0 /\ f.n # 1
      BY <1>3, <2>2, <3>2
    <3>4. /\ lo \in In /\ hi \in In
          /\ lo >= D => /\ overflow = FALSE
                        /\ lo <= filt.y_prev /\ filt.y_prev <= hi
                        /\ filt.y_prev = filt.y_sum \div 2^filt.s_prev
      BY <3>3 DEF FilterInv, D
    <3> HIDE DEF f
    <3>5. L = Filter!Lesser(lo, x) /\ H = Filter!Greater(hi, x)
      BY <3>3
    <3>6. lo \in Int /\ hi \in Int /\ filt.y_prev \in Int
      BY <1>0, <1>1, <1>2, <1>3, <3>4
    <3>7. /\ L \in In /\ H \in In /\ L <= x /\ x <= H
          /\ L >= D => lo >= D
          /\ lo <= filt.y_prev /\ filt.y_prev <= hi => L <= filt.y_prev /\ filt.y_prev <= H
      BY <1>1, <1>5, <3>4, <3>5, <3>6 DEF Filter!Lesser, Filter!Greater
    <3> HIDE DEF L, H
    <3>8. f.n \in Nat /\ f.n > 0
      BY <1>3, <3>2
    <3> QED BY <1>3, <3>2, <3>4, <3>7, <3>8
  <2> QED BY <2>1, <2>2
<1>7. r = IF f.s_prev > s THEN f.y_sum \div 2^(f.s_prev - s) ELSE f.y_sum * 2^(s - f.s_prev)
  BY DEF Filter!Rescaled
<1> DEFINE y == Filter!Wrap(Filter!Wrap(r) + x - p)
           c == Filter!CappedCount(f.n)
           q == y \div 2^s
<1>8. /\ filt' = [n |-> c, s_prev |-> s, y_prev |-> q, y_sum |-> y]
      /\ lo' = L /\ hi' = H
      /\ overflow' = (overflow \/ r \notin I \/ Filter!Wrap(r) + x - p \notin I)
  BY DEF Filter!Filter, I
<1>9. c \in 0 .. 2^FilterOrder
  BY <1>0, <1>6 DEF Filter!CappedCount
<1>10. c > 0
  BY <1>0, <1>6 DEF Filter!CappedCount
<1> HIDE DEF f, L, H, c
<1>11. /\ s \in 0 .. FilterOrder
       /\ D <= p /\ D <= x =>
            \E a, b \in Int : /\ a <= p /\ p <= b /\ a <= x /\ x <= b
                              /\ -k <= a * 2^s /\ b * 2^s + 2^s <= k
  BY <1>5, <1>6, BoundsFit DEF k, e, I, D
<1> HIDE DEF s, r
<1>12. s \in Nat /\ 2^s \in Nat /\ 2^s > 0 /\ f.s_prev \in Nat /\ p \in Int /\ f.y_sum \in Int
  BY <1>0, <1>2, <1>6, <1>11, PowNat
<1>13. r \in Int
  <2>1. CASE f.s_prev > s
    <3>1. f.s_prev - s \in Nat
      BY <1>12, <2>1
    <3>2. 2^(f.s_prev - s) \in Nat /\ 2^(f.s_prev - s) > 0
      BY <3>1, PowNat
    <3> QED BY <1>7, <1>12, <2>1, <3>2
  <2>2. CASE ~(f.s_prev > s)
    <3>1. s - f.s_prev \in Nat
      BY <1>12, <2>2
    <3>2. 2^(s - f.s_prev) \in Nat
      BY <3>1, PowNat
    <3> QED BY <1>7, <1>12, <2>2, <3>2
  <2> QED BY <2>1, <2>2
<1>14. y \in I /\ q \in I
  <2>1. Filter!Wrap(r) \in Int
    BY <1>0, <1>2, <1>13, WrapType DEF I
  <2>2. Filter!Wrap(r) + x - p \in Int
    BY <1>5, <1>12, <2>1
  <2>3. y \in I
    BY <2>2, WrapType DEF I
  <2> HIDE DEF y
  <2>4. y \in Int /\ -k <= y /\ y < k
    BY <1>0, <1>2, <2>3
  <2>5. ASSUME NEW m \in Nat, m > 0 PROVE y \div m \in (-k) .. (k - 1)
    <3>1. (-k) * m <= y /\ y < (k - 1) * m + m
      <4>1. (k - 1) * m + m = k * m /\ (-k) * m = -(k * m) /\ k <= k * m /\ k * m \in Int
        BY <1>0, <2>5, SMT
      <4> QED BY <1>0, <2>4, <4>1
    <3>2. -k \in Int /\ k - 1 \in Int
      BY <1>0
    <3>3. y \div m \in Int /\ -k <= y \div m /\ y \div m <= k - 1
      BY <2>4, <2>5, <3>1, <3>2, QuotientBetween
    <3> QED BY <1>0, <3>3
  <2> QED BY <1>2, <1>12, <2>3, <2>5
<1>15. ASSUME L >= D
       PROVE  overflow' = FALSE /\ L <= q /\ q <= H
  <2>1. /\ overflow = FALSE /\ L <= p /\ p <= H /\ p = f.y_sum \div 2^f.s_prev
        /\ L \in Int /\ H \in Int /\ D <= p /\ D <= x
    <3>1. overflow = FALSE /\ L <= p /\ p <= H /\ p = f.y_sum \div 2^f.s_prev /\ L \in Int /\ H \in Int
      BY <1>1, <1>6, <1>15
    <3> QED BY <1>1, <1>5, <1>6, <1>12, <1>15, <3>1
  <2>2. r \div 2^s = p
    <3> DEFINE u == f.y_sum  a == f.s_prev
    <3>1. /\ u \in Int /\ a \in Nat
          /\ a > s => r = u \div 2^(a - s)
          /\ ~(a > s) => r = u * 2^(s - a)
      BY <1>7, <1>12
    <3>2. p = u \div 2^a
      BY <2>1
    <3> HIDE DEF u, a, p
    <3> QED BY <1>12, <3>1, <3>2, RescaledQuotient
  <2> DEFINE z == r + x - p
  <2>3. z \in Int
    BY <1>5, <1>12, <1>13
  <2>4. -k <= r /\ r < k /\ -k <= z /\ z < k
    <3>1. PICK a \in Int, b \in Int : /\ a <= p /\ p <= b /\ a <= x /\ x <= b
                                      /\ -k <= a * 2^s /\ b * 2^s + 2^s <= k
      BY <1>11, <2>1
    <3>2. /\ a * 2^s <= r /\ r < b * 2^s + 2^s
          /\ a * 2^s <= z /\ z < b * 2^s + 2^s
      BY <1>5, <1>12, <1>13, <2>2, <3>1, SumBetween
    <3>3. a * 2^s \in Int /\ b * 2^s \in Int
      BY <1>12
    <3> HIDE DEF z
    <3> QED BY <1>0, <1>12, <1>13, <2>3, <3>1, <3>2, <3>3
  <2>5. L * 2^s <= z /\ z < H * 2^s + 2^s
    BY <1>5, <1>6, <1>12, <1>13, <2>1, <2>2, SumBetween
  <2>6. r \in I /\ Filter!Wrap(r) = r /\ z \in I /\ Filter!Wrap(z) = z
    <3> HIDE DEF z
    <3> QED BY <1>13, <2>3, <2>4, WrapFits DEF k, I
  <2>7. y = z
    BY <2>6, Zenon
  <2>8. overflow' = FALSE
    BY <1>8, <2>1, <2>6, Zenon
  <2> HIDE DEF y, z
  <2>9. L <= z \div 2^s /\ z \div 2^s <= H
    BY <1>12, <2>1, <2>3, <2>5, QuotientBetween
  <2> QED BY <2>7, <2>8, <2>9, Zenon
<1>16. overflow' \in BOOLEAN
  BY <1>8, Zenon
<1>17. q = y \div 2^s
  OBVIOUS
<1> HIDE DEF q, y
<1>18. /\ filt' \in [n : 0 .. 2^FilterOrder, s_prev : 0 .. FilterOrder, y_prev : I, y_sum : I]
       /\ filt'.y_prev = q /\ filt'.y_sum = y /\ filt'.s_prev = s /\ filt'.n = c
  BY <1>8, <1>9, <1>11, <1>14
<1>19. /\ lo' \in In /\ hi' \in In
       /\ lo' >= D => /\ overflow' = FALSE
                      /\ lo' <= filt'.y_prev /\ filt'.y_prev <= hi'
                      /\ filt'.y_prev = filt'.y_sum \div 2^filt'.s_prev
  BY <1>6, <1>8, <1>15, <1>17, <1>18, Zenon
<1>20. Filter!Int32' = I /\ Filter!Floor' = D
  BY Zenon DEF Filter!Int32, Filter!Floor, I, D
<1>21. filt'.n # 0
  BY <1>9, <1>10, <1>18
<1> QED BY <1>16, <1>18, <1>19, <1>20, <1>21, Zenon DEF FilterInv

\* So does a reset.
LEMMA FilterReset ==
  ASSUME NEW In, FilterInv(In), Filter!Reset
  PROVE  FilterInv(In)'
<1>1. 2^FilterOrder \in Nat
  BY FilterConstants, PowNat
<1>2. /\ filt' = [filt EXCEPT !.n = 0] /\ lo' = 0 /\ hi' = 0 /\ overflow' = FALSE
  BY DEF Filter!Reset
<1>3. Filter!Int32' = Filter!Int32
  BY Zenon DEF Filter!Int32
<1>4. 0 \in 0 .. 2^FilterOrder
  BY <1>1
<1> DEFINE I == Filter!Int32  O == 0 .. FilterOrder  N == 0 .. 2^FilterOrder
<1>5. filt \in [n : N, s_prev : O, y_prev : I, y_sum : I]
  BY DEF FilterInv
<1> HIDE DEF I, O, N
<1>6. /\ filt' \in [n : N, s_prev : O, y_prev : I, y_sum : I]
      /\ filt'.n = 0
  BY <1>2, <1>4, <1>5 DEF N
<1>7. ~(filt'.n > 0)
  BY <1>6
<1>8. /\ lo' \in In \cup {0} /\ hi' \in In \cup {0}
      /\ overflow' \in BOOLEAN /\ overflow' = FALSE
  BY <1>2
<1> QED BY <1>3, <1>6, <1>7, <1>8, Zenon DEF FilterInv, I, O, N

-----------------------------------------------------------------------------
\* The samples are small enough for the width.
LEMMA SamplesOfFilter == Samples(Filter!Inputs)
<1>1. Filter!Inputs = SampleSizes \cup {-m : m \in SampleSizes}
  BY Zenon DEF Filter!Inputs
<1> DEFINE e == 2^(FilterWidth - 2)
<1>2. e \in Nat /\ SampleSizes \subseteq 0 .. (e - 1)
  BY FilterConstants, PowNat
<1> HIDE DEF e
<1>3. ASSUME NEW m \in SampleSizes PROVE m \in (1 - e) .. (e - 1) /\ -m \in (1 - e) .. (e - 1)
  BY <1>2
<1>4. SampleSizes \cup {-m : m \in SampleSizes} \subseteq (1 - e) .. (e - 1)
  BY <1>3
<1> QED BY <1>1, <1>4 DEF Samples, e

\* What the invariant says of the filter.
LEMMA FilterInvFits ==
  ASSUME NEW In, FilterInv(In)
  PROVE  /\ filt.n \in 0 .. 2^FilterOrder
         /\ filt.s_prev \in 0 .. FilterOrder
         /\ filt.y_prev \in Filter!Int32
         /\ filt.y_sum \in Filter!Int32
         /\ lo \in In \cup {0} /\ hi \in In \cup {0}
         /\ overflow \in BOOLEAN
         /\ lo >= Filter!Floor => ~overflow /\ (filt.n > 0 => lo <= filt.y_prev /\ filt.y_prev <= hi)
<1>1. filt.n \in 0 .. 2^FilterOrder /\ 2^FilterOrder \in Nat
  BY FilterConstants, PowNat DEF FilterInv
<1>2. filt.n = 0 \/ filt.n > 0
  BY <1>1
<1> QED BY <1>1, <1>2 DEF FilterInv

EngineFilterInv == part = "filter" => FilterInv(Filter!Inputs)

engineVars == <<part, vars, filterVars, servoVars, delayVars, timerVars, portVars>>

\* The filter keeps its invariant while it runs.
LEMMA FilterInvNext == EngineFilterInv /\ [EngineNext]_engineVars => EngineFilterInv'
<1> SUFFICES ASSUME EngineFilterInv, [EngineNext]_engineVars PROVE EngineFilterInv'
  OBVIOUS
<1>1. part' = part
  BY Zenon DEF EngineNext, engineVars
<1>2. ASSUME NEW In, FilterInv(In), UNCHANGED filterVars PROVE FilterInv(In)'
  <2>1. Filter!Int32' = Filter!Int32 /\ Filter!Floor' = Filter!Floor
    BY Zenon DEF Filter!Int32, Filter!Floor
  <2> QED BY <1>2, <2>1 DEF FilterInv, filterVars
<1>3. ASSUME NEW In, FilterInv(In), Samples(In), (\E x \in In : Filter!Filter(x)) \/ Filter!Reset
      PROVE  FilterInv(In)'
  BY <1>3, FilterStep, FilterReset
<1>4. CASE part = "filter"
  <2>1. Filter!Next \/ UNCHANGED filterVars
    BY <1>4, Zenon DEF EngineNext, engineVars
  <2>2. FilterInv(Filter!Inputs)
    BY <1>4 DEF EngineFilterInv
  <2>3. Filter!Inputs' = Filter!Inputs
    BY Zenon DEF Filter!Inputs
  <2> DEFINE In == Filter!Inputs
  <2>4. ((\E x \in In : Filter!Filter(x)) \/ Filter!Reset) \/ UNCHANGED filterVars
    BY <2>1, Zenon DEF Filter!Next
  <2>5. FilterInv(In) /\ Samples(In)
    BY <2>2, SamplesOfFilter
  <2> SUFFICES FilterInv(In)'
    BY <1>1, <1>4 DEF EngineFilterInv
  <2> QED BY <1>2, <1>3, <2>4, <2>5
<1> QED BY <1>1, <1>4 DEF EngineFilterInv

\* The filter starts empty.
LEMMA FilterInvInit == EngineInit => EngineFilterInv
<1> SUFFICES ASSUME Filter!Init, NEW In PROVE FilterInv(In)
  BY Zenon DEF EngineInit, EngineFilterInv
<1>1. FilterWidth - 1 \in Nat /\ 2^(FilterWidth - 1) \in Nat /\ 2^(FilterWidth - 1) > 0
  BY FilterConstants, PowNat
<1>2. 2^FilterOrder \in Nat /\ FilterOrder \in Nat
  BY FilterConstants, PowNat
<1>3. 0 \in Filter!Int32 /\ 0 \in 0 .. 2^FilterOrder /\ 0 \in 0 .. FilterOrder
  BY <1>1, <1>2 DEF Filter!Int32
<1>4. /\ filt = [n |-> 0, s_prev |-> 0, y_prev |-> 0, y_sum |-> 0]
      /\ lo \in In \cup {0} /\ hi \in In \cup {0}
      /\ overflow \in BOOLEAN /\ overflow = FALSE
  BY DEF Filter!Init
<1>5. /\ filt \in [n : 0 .. 2^FilterOrder, s_prev : 0 .. FilterOrder, y_prev : Filter!Int32, y_sum : Filter!Int32]
      /\ ~(filt.n > 0)
  BY <1>3, <1>4
<1> QED BY <1>4, <1>5, Zenon DEF FilterInv

\* What the invariant says of the engine's filter.
LEMMA EngineFilterInvFits == EngineFilterInv => FilterFits
<1> SUFFICES ASSUME EngineFilterInv, part = "filter" PROVE Filter!TypeOK /\ Filter!FitsAboveFloor
  BY Zenon DEF FilterFits
<1>1. FilterInv(Filter!Inputs)
  BY DEF EngineFilterInv
<1> QED BY <1>1, FilterInvFits, Zenon DEF Filter!TypeOK, Filter!FitsAboveFloor, Filter!SmoothingBounded

\* For every width, every order and every set of samples of either sign that are below a
\* quarter of the width's range (below a second, in the code): as long as no sample since the
\* last reset lay below the value that the full order scales within the width, the filter
\* averages and does not overflow (servo.c:103), its result never leaving the range of the
\* samples through every change of its order; and whatever the samples, its count and its
\* order stay within their limits and what it stores within the width.
THEOREM FilterAlwaysFits == EngineSpec => []FilterFits
<1>1. EngineInit => EngineFilterInv
  BY FilterInvInit
<1>2. EngineFilterInv /\ [EngineNext]_engineVars => EngineFilterInv'
  BY FilterInvNext
<1>3. EngineFilterInv => FilterFits
  BY EngineFilterInvFits
<1>4. EngineSpec => EngineInit /\ [][EngineNext]_engineVars
  BY DEF EngineSpec, engineVars
<1> QED BY <1>1, <1>2, <1>3, <1>4, PTL

-----------------------------------------------------------------------------
(* The servo in closed loop with the clock, Sync once a second.            *)

\* What an adjustment at its limit can move the clock in a second, with the noise of the two
\* measurements, is less than the offset from which updateClock sets the clock.
ServoMargin == AdjFreqMax + MaxRate + 2 * Noise <= MaxAdjOffset

\* The reach of a steered clock.
Reach == AdjFreqMax + MaxRate + Noise

\* The strengthening: a clock that has been set is within reach.
SteeringInv ==
  /\ err \in Int /\ rate \in -MaxRate .. MaxRate /\ drift \in -AdjFreqMax .. AdjFreqMax /\ steps \in 0 .. 1
  /\ steps = 1 => -Reach <= err /\ err <= Reach

\* What is assumed of the limits, spelled out.
LEMMA SteeringConstants ==
  /\ MaxError \in Nat /\ Noise \in Nat /\ MaxRate \in Nat /\ AdjFreqMax \in Nat /\ MaxAdjOffset \in Nat
  /\ MaxRate < AdjFreqMax
BY SteeringAssumption DEF ClockServo!ServoAssumption

\* The limit on an adjustment.
LEMMA ClampIs ==
  ASSUME NEW n \in Int
  PROVE  LET c == ClockServo!Clamp(n)
         IN  /\ c \in -AdjFreqMax .. AdjFreqMax
             /\ n >= AdjFreqMax => c = AdjFreqMax
             /\ n <= -AdjFreqMax => c = -AdjFreqMax
             /\ -AdjFreqMax <= n /\ n <= AdjFreqMax => c = n
BY SteeringConstants DEF ClockServo!Clamp

\* From a clock within reach, one second of steering leaves it within reach.
LEMMA SteeredWithinReach ==
  ASSUME NEW e \in Int, -Reach <= e, e <= Reach, NEW n \in -Noise .. Noise,
         NEW r \in -MaxRate .. MaxRate, NEW d \in -AdjFreqMax .. AdjFreqMax
  PROVE  LET o == e + n
             i == ClockServo!Clamp(d + o)
             f == e + (r - ClockServo!Clamp(o + i))
         IN  f \in Int /\ -Reach <= f /\ f <= Reach
<1> DEFINE o == e + n
           i == ClockServo!Clamp(d + o)
           a == ClockServo!Clamp(o + i)
           A == AdjFreqMax
<1>0. /\ Noise \in Nat /\ MaxRate \in Nat /\ A \in Nat /\ MaxRate < A
      /\ n \in Int /\ -Noise <= n /\ n <= Noise /\ r \in Int /\ -MaxRate <= r /\ r <= MaxRate
      /\ d \in Int /\ -A <= d /\ d <= A
  BY SteeringConstants
<1>1. /\ d + o \in Int
      /\ i \in -A .. A /\ (d + o >= A => i = A) /\ (d + o <= -A => i = -A)
      /\ (-A <= d + o /\ d + o <= A => i = d + o)
  BY <1>0, ClampIs
<1> HIDE DEF i
<1>2. /\ a \in -A .. A /\ (o + i >= A => a = A) /\ (o + i <= -A => a = -A)
      /\ (-A <= o + i /\ o + i <= A => a = o + i)
  BY <1>0, <1>1, ClampIs
<1> HIDE DEF a
<1>3. e + (r - a) \in Int /\ -Reach <= e + (r - a) /\ e + (r - a) <= Reach
  BY <1>0, <1>1, <1>2 DEF Reach
<1> QED BY <1>3 DEF a, i

\* A Sync keeps a clock that has been set within reach.
LEMMA SteeringStep ==
  ASSUME ServoMargin, SteeringInv, [ClockServo!Next]_servoVars
  PROVE  SteeringInv'
<1>0. SteeringInv /\ UNCHANGED <<err, rate, drift, steps>> => SteeringInv'
  BY DEF SteeringInv, Reach
<1>1. CASE ClockServo!DoState
  BY <1>0, <1>1 DEF ClockServo!DoState
<1>2. ASSUME NEW noise \in -Noise .. Noise, ClockServo!Sync(noise) PROVE SteeringInv'
  <2> DEFINE o == err + noise
             i == ClockServo!Clamp(drift + o)
             a == ClockServo!Clamp(o + i)
  <2>0. /\ err \in Int /\ noise \in Int /\ -Noise <= noise /\ noise <= Noise /\ o \in Int
        /\ rate \in Int /\ -MaxRate <= rate /\ rate <= MaxRate /\ drift \in Int
        /\ Noise \in Nat /\ MaxRate \in Nat /\ AdjFreqMax \in Nat /\ MaxAdjOffset \in Nat
        /\ rate' = rate
    BY <1>2, SteeringConstants DEF SteeringInv, ClockServo!Sync
  <2>1. CASE ClockServo!Abs(o) > MaxAdjOffset
    <3>1. /\ err' = err - o + 1 * (rate - ClockServo!Clamp(0)) /\ drift' = 0
          /\ steps' = IF steps < 2 THEN steps + 1 ELSE 2
      BY <1>2, <2>1 DEF ClockServo!Sync, ClockServo!SetTime, ClockServo!AdjTime
    <3>2. steps = 0
      BY <2>0, <2>1 DEF SteeringInv, Reach, ServoMargin, ClockServo!Abs
    <3>3. ClockServo!Clamp(0) = 0
      BY <2>0, ClampIs
    <3> QED BY <2>0, <3>1, <3>2, <3>3 DEF SteeringInv, Reach
  <2>2. CASE ~(ClockServo!Abs(o) > MaxAdjOffset)
    <3>1. /\ drift' = i /\ err' = err + 1 * (rate - a) /\ steps' = steps
      BY <1>2, <2>2 DEF ClockServo!Sync, ClockServo!Accumulate, ClockServo!AdjTime
    <3>2. i \in -AdjFreqMax .. AdjFreqMax /\ i \in Int
      BY <2>0, ClampIs
    <3>3. a \in -AdjFreqMax .. AdjFreqMax
      <4> HIDE DEF i
      <4> QED BY <2>0, <3>2, ClampIs
    <3>4. steps = 1 => -Reach <= err + (rate - a) /\ err + (rate - a) <= Reach
      BY <2>0, SteeredWithinReach DEF SteeringInv
    <3> HIDE DEF a, i, o
    <3>5. err' = err + (rate - a) /\ err' \in Int
      BY <2>0, <3>1, <3>3
    <3> QED BY <2>0, <3>1, <3>2, <3>4, <3>5 DEF SteeringInv, Reach
  <2> QED BY <2>1, <2>2
<1>3. CASE UNCHANGED servoVars
  BY <1>0, <1>3 DEF servoVars
<1> QED BY <1>1, <1>2, <1>3 DEF ClockServo!Next

\* Whatever the clock's error and frequency, the limits of the servo and the noise within the
\* margin, updateClock sets the clock at most once (MAX_ADJ_OFFSET_NS) and steers it ever after:
\* neither the saturated controller's overshoot nor the noise takes it out of reach.
THEOREM ServoStepsOnce == ASSUME ServoMargin PROVE ClockServo!Spec => []ClockServo!StepsOnce
<1>1. ClockServo!Init => SteeringInv
  BY SteeringConstants DEF ClockServo!Init, SteeringInv
<1>2. SteeringInv /\ [ClockServo!Next]_ClockServo!vars => SteeringInv'
  BY SteeringStep DEF ClockServo!vars, servoVars
<1>3. SteeringInv => ClockServo!StepsOnce
  BY SteeringConstants DEF SteeringInv, ClockServo!StepsOnce, ClockServo!Abs, Reach, ServoMargin
<1> QED BY <1>1, <1>2, <1>3, PTL DEF ClockServo!Spec

-----------------------------------------------------------------------------
(* The messages of the configurations.                                     *)

Qualities == [1 .. 5 -> Nat]
DataSets == [src : Nat \X Nat, gm : Nat, quality : Qualities, steps : Nat]
Kinds == {"ANNOUNCE", "SYNC", "FOLLOW_UP", "DELAY_REQ", "DELAY_RESP", "PDELAY_REQ", "PDELAY_RESP",
          "PDELAY_RESP_FOLLOW_UP", "MANAGEMENT", "SIGNALING", "OTHER"}
Packets ==
  [type : Kinds, src : Nat \X Nat, short : BOOLEAN, seq : SeqIds, twoStep : BOOLEAN, body : DataSets]

\* A data set of a clock other than the record never written, under its sender's name.
Truthful(m) == m.body.src = m.src /\ m.body.gm # 0

\* The qualities of the instances are qualities.
LEMMA QualitiesGiven ==
  Ordinary \in Qualities /\ GradeA \in Qualities /\ OnlySlave \in Qualities /\ Degraded \in Qualities
BY DEF Ordinary, GradeA, OnlySlave, Degraded, Qualities

\* The messages of the instances are messages, and an Announce names its sender.
LEMMA MsgIs ==
  ASSUME NEW type \in Kinds, NEW c \in Nat \ {0}, NEW short \in BOOLEAN, NEW seq \in {0, 1},
         NEW twoStep \in BOOLEAN,
         NEW q \in Qualities
  PROVE  Msg(type, c, short, seq, twoStep, q) \in Packets /\ Truthful(Msg(type, c, short, seq, twoStep, q))
BY SeqIdsGiven DEF Msg, AnnounceOf, Packets, DataSets, Truthful

\* So are all of a set.
LEMMA SetsGiven ==
  ASSUME NEW cs \in SUBSET (Nat \ {0}), NEW seqs \in SUBSET {0, 1}, NEW types \in SUBSET Kinds,
         NEW q \in Qualities
  PROVE  \A m \in Announces(cs, q) \cup Syncs(cs, seqs) \cup FollowUps(cs, seqs) \cup Short(types) :
           m \in Packets /\ Truthful(m)
<1>0. /\ "ANNOUNCE" \in Kinds /\ "SYNC" \in Kinds /\ "FOLLOW_UP" \in Kinds
      /\ 1 \in Nat \ {0} /\ 0 \in {0, 1} /\ TRUE \in BOOLEAN /\ FALSE \in BOOLEAN
  BY DEF Kinds
<1>1. ASSUME NEW m \in Announces(cs, q) PROVE m \in Packets /\ Truthful(m)
  <2>1. PICK c \in cs : m = Msg("ANNOUNCE", c, FALSE, 0, FALSE, q)
    BY DEF Announces
  <2>2. c \in Nat \ {0}
    OBVIOUS
  <2> QED BY <1>0, <2>1, <2>2, MsgIs, Zenon
<1>2. ASSUME NEW m \in Syncs(cs, seqs) PROVE m \in Packets /\ Truthful(m)
  <2>1. PICK x \in cs \X seqs \X BOOLEAN : m = Msg("SYNC", x[1], FALSE, x[2], x[3], Ordinary)
    BY DEF Syncs
  <2>2. x[1] \in Nat \ {0} /\ x[2] \in {0, 1} /\ x[3] \in BOOLEAN
    OBVIOUS
  <2> QED BY <1>0, <2>1, <2>2, MsgIs, QualitiesGiven, Zenon
<1>3. ASSUME NEW m \in FollowUps(cs, seqs) PROVE m \in Packets /\ Truthful(m)
  <2>1. PICK x \in cs \X seqs : m = Msg("FOLLOW_UP", x[1], FALSE, x[2], FALSE, Ordinary)
    BY DEF FollowUps
  <2>2. x[1] \in Nat \ {0} /\ x[2] \in {0, 1}
    OBVIOUS
  <2> QED BY <1>0, <2>1, <2>2, MsgIs, QualitiesGiven, Zenon
<1>4. ASSUME NEW m \in Short(types) PROVE m \in Packets /\ Truthful(m)
  <2>1. PICK type \in types : m = Msg(type, 1, TRUE, 0, FALSE, Ordinary)
    BY DEF Short
  <2>2. type \in Kinds
    OBVIOUS
  <2> QED BY <1>0, <2>1, <2>2, MsgIs, QualitiesGiven, Zenon
<1> QED BY <1>1, <1>2, <1>3, <1>4

\* The messages of the slave-only port.
LEMMA PortMessagesGiven == \A m \in PortMessages : m \in Packets /\ Truthful(m)
<1>1. /\ {1, 2, 3, 4} \in SUBSET (Nat \ {0}) /\ {1, 2, 3} \in SUBSET (Nat \ {0})
      /\ {1, 3} \in SUBSET (Nat \ {0})
      /\ {0} \in SUBSET {0, 1} /\ {0, 1} \in SUBSET {0, 1} /\ {"ANNOUNCE", "OTHER"} \in SUBSET Kinds
  BY DEF Kinds
<1> QED BY <1>1, SetsGiven, QualitiesGiven, Zenon DEF PortMessages

\* The messages of the peer-to-peer port.
LEMMA PassiveMessagesGiven == \A m \in PassiveMessages : m \in Packets /\ Truthful(m)
<1> DEFINE T == {"ANNOUNCE", "SYNC", "FOLLOW_UP", "PDELAY_REQ", "PDELAY_RESP", "PDELAY_RESP_FOLLOW_UP",
                 "DELAY_REQ"}
           A == Announces({1, 4}, GradeA)  B == Syncs({1, 3}, {0})  C == FollowUps({1, 3}, {0})  D == Short(T)
           M == Msg("MANAGEMENT", 1, FALSE, 0, FALSE, GradeA)
<1>1. /\ {1, 4} \in SUBSET (Nat \ {0}) /\ {1, 3} \in SUBSET (Nat \ {0})
      /\ {0} \in SUBSET {0, 1} /\ T \in SUBSET Kinds
  BY DEF Kinds
<1>2. \A m \in A \cup B \cup C \cup D : m \in Packets /\ Truthful(m)
  <2> HIDE DEF T
  <2> QED BY <1>1, SetsGiven, QualitiesGiven, Zenon
<1>3. M \in Packets /\ Truthful(M)
  <2>1. "MANAGEMENT" \in Kinds /\ 1 \in Nat \ {0} /\ 0 \in {0, 1} /\ FALSE \in BOOLEAN
    BY DEF Kinds
  <2> QED BY <2>1, MsgIs, QualitiesGiven
<1>4. PassiveMessages = A \cup B \cup C \cup D \cup {M}
  BY Zenon DEF PassiveMessages
<1> HIDE DEF A, B, C, D, M
<1> QED BY <1>2, <1>3, <1>4

\* An Announce of one of the paths.
LEMMA PathIs ==
  ASSUME NEW src \in Nat \X Nat, NEW gm \in Nat \ {0}, NEW q \in Qualities, NEW k \in Nat
  PROVE  LET m == Path(src, gm, q, k)
         IN  /\ m \in Packets /\ Truthful(m)
             /\ m.body = [src |-> src, gm |-> gm, quality |-> q, steps |-> k]
BY SeqIdsGiven DEF Path, Msg, AnnounceOf, Packets, DataSets, Truthful, Kinds

\* The announcements over the paths are consistent.
LEMMA PathMessagesGiven ==
  \A m \in PathMessages :
    /\ m \in Packets /\ Truthful(m)
    /\ m.body.quality = IF m.body.gm = 4 THEN Degraded ELSE Ordinary
    /\ m.body.src[1] # 3
<1> DEFINE Fine(m) == /\ m \in Packets /\ Truthful(m)
                      /\ m.body.quality = IF m.body.gm = 4 THEN Degraded ELSE Ordinary
                      /\ m.body.src[1] # 3
<1>1. ASSUME NEW a \in Nat, NEW b \in Nat, a # 3, NEW gm \in Nat \ {0}, NEW q \in Qualities, NEW k \in Nat,
             q = IF gm = 4 THEN Degraded ELSE Ordinary
      PROVE  Fine(Path(<<a, b>>, gm, q, k))
  <2>1. <<a, b>> \in Nat \X Nat
    OBVIOUS
  <2> DEFINE m == Path(<<a, b>>, gm, q, k)
  <2>2. m \in Packets /\ Truthful(m) /\ m.body = [src |-> <<a, b>>, gm |-> gm, quality |-> q, steps |-> k]
    BY <2>1, PathIs
  <2> HIDE DEF m
  <2>3. m.body.quality = q /\ m.body.gm = gm /\ m.body.src[1] = a
    BY <2>2
  <2>4. Fine(m)
    BY <1>1, <2>2, <2>3
  <2> QED BY <2>4 DEF m
<1>2. /\ Fine(Path(<<1, 1>>, 1, Ordinary, 0)) /\ Fine(Path(<<5, 1>>, 1, Ordinary, 1))
      /\ Fine(Path(<<6, 1>>, 1, Ordinary, 1)) /\ Fine(Path(<<6, 2>>, 1, Ordinary, 1))
      /\ Fine(Path(<<2, 1>>, 2, Ordinary, 0)) /\ Fine(Path(<<4, 1>>, 4, Degraded, 0))
  <2> HIDE DEF Fine
  <2> QED BY <1>1, QualitiesGiven
<1> HIDE DEF Fine
<1>3. \A m \in PathMessages : Fine(m)
  BY <1>2, Zenon DEF PathMessages
<1> QED BY <1>3 DEF Fine

-----------------------------------------------------------------------------
(* The assumptions of PtpPort hold in each configuration.                  *)

\* The slave-only port meets what PtpPort assumes.
LEMMA OnlySlaveAssumptions ==
  /\ OnlySlaveClock!OwnAssumption /\ OnlySlaveClock!SlaveOnlyAssumption /\ OnlySlaveClock!CapacityAssumption
  /\ OnlySlaveClock!MessagesAssumption /\ OnlySlaveClock!AnnounceAssumption
  /\ OnlySlaveClock!SeqIdsAssumption /\ OnlySlaveClock!P2PAssumption
<1>1. /\ OnlySlaveClock!Announce = DataSets /\ OnlySlaveClock!Message = Packets
      /\ OnlySlaveClock!Quality = Qualities
  BY Zenon
  DEF OnlySlaveClock!Announce, OnlySlaveClock!PortIdentity, OnlySlaveClock!Quality, OnlySlaveClock!Message,
     OnlySlaveClock!MessageTypes, Packets, DataSets, Qualities, Kinds
<1>2. OnlySlaveClock!MessagesAssumption
  BY <1>1, PortMessagesGiven, Zenon DEF OnlySlaveClock!MessagesAssumption
<1>3. OnlySlaveClock!ZeroRecord.gm = 0
  BY DEF OnlySlaveClock!ZeroRecord
<1>4. OnlySlaveClock!AnnounceAssumption
  BY <1>3, PortMessagesGiven, Zenon DEF OnlySlaveClock!AnnounceAssumption, Truthful
<1>5. OnlySlaveClock!OwnAssumption /\ OnlySlaveClock!CapacityAssumption
  BY <1>1, QualitiesGiven DEF OnlySlaveClock!OwnAssumption, OnlySlaveClock!CapacityAssumption
<1>6. OnlySlaveClock!SlaveOnlyAssumption
  BY DEF OnlySlaveClock!SlaveOnlyAssumption, OnlySlave
<1>7. OnlySlaveClock!SeqIdsAssumption /\ OnlySlaveClock!P2PAssumption
  BY SeqIdsGiven DEF OnlySlaveClock!SeqIdsAssumption, OnlySlaveClock!P2PAssumption
<1> QED BY <1>2, <1>4, <1>5, <1>6, <1>7

\* The peer-to-peer port does.
LEMMA PassiveAssumptions ==
  /\ PassiveClock!OwnAssumption /\ PassiveClock!SlaveOnlyAssumption /\ PassiveClock!CapacityAssumption
  /\ PassiveClock!MessagesAssumption /\ PassiveClock!AnnounceAssumption
  /\ PassiveClock!SeqIdsAssumption /\ PassiveClock!P2PAssumption
<1>1. PassiveClock!Announce = DataSets /\ PassiveClock!Message = Packets /\ PassiveClock!Quality = Qualities
  BY Zenon DEF PassiveClock!Announce, PassiveClock!PortIdentity, PassiveClock!Quality, PassiveClock!Message,
     PassiveClock!MessageTypes, Packets, DataSets, Qualities, Kinds
<1>2. PassiveClock!MessagesAssumption
  BY <1>1, PassiveMessagesGiven, Zenon DEF PassiveClock!MessagesAssumption
<1>3. PassiveClock!ZeroRecord.gm = 0
  BY DEF PassiveClock!ZeroRecord
<1>4. PassiveClock!AnnounceAssumption
  BY <1>3, PassiveMessagesGiven, Zenon DEF PassiveClock!AnnounceAssumption, Truthful
<1>5. PassiveClock!OwnAssumption /\ PassiveClock!CapacityAssumption
  BY <1>1, QualitiesGiven DEF PassiveClock!OwnAssumption, PassiveClock!CapacityAssumption
<1>6. PassiveClock!SlaveOnlyAssumption
  BY DEF PassiveClock!SlaveOnlyAssumption
<1>7. PassiveClock!SeqIdsAssumption /\ PassiveClock!P2PAssumption
  BY SeqIdsGiven DEF PassiveClock!SeqIdsAssumption, PassiveClock!P2PAssumption
<1> QED BY <1>2, <1>4, <1>5, <1>6, <1>7

\* The port with the paths does, and its announcements are consistent.
LEMMA PathsAssumptions ==
  /\ PathsClock!OwnAssumption /\ PathsClock!SlaveOnlyAssumption /\ PathsClock!CapacityAssumption
  /\ PathsClock!MessagesAssumption /\ PathsClock!AnnounceAssumption
  /\ PathsClock!SeqIdsAssumption /\ PathsClock!P2PAssumption
  /\ PathsClock!Consistent
<1>1. PathsClock!Announce = DataSets /\ PathsClock!Message = Packets /\ PathsClock!Quality = Qualities
  BY Zenon DEF PathsClock!Announce, PathsClock!PortIdentity, PathsClock!Quality, PathsClock!Message,
     PathsClock!MessageTypes, Packets, DataSets, Qualities, Kinds
<1>2. PathsClock!MessagesAssumption
  BY <1>1, PathMessagesGiven, Zenon DEF PathsClock!MessagesAssumption
<1>3. PathsClock!ZeroRecord.gm = 0
  BY DEF PathsClock!ZeroRecord
<1>4. PathsClock!AnnounceAssumption
  BY <1>3, PathMessagesGiven, Zenon DEF PathsClock!AnnounceAssumption, Truthful
<1>5. PathsClock!OwnAssumption /\ PathsClock!CapacityAssumption
  BY <1>1, QualitiesGiven DEF PathsClock!OwnAssumption, PathsClock!CapacityAssumption
<1>6. PathsClock!SlaveOnlyAssumption
  BY DEF PathsClock!SlaveOnlyAssumption
<1>7. PathsClock!SeqIdsAssumption /\ PathsClock!P2PAssumption
  BY SeqIdsGiven DEF PathsClock!SeqIdsAssumption, PathsClock!P2PAssumption
<1>8. PathsClock!Consistent
  <2>1. \A a \in PathsClock!Announced : /\ a.quality = IF a.gm = 4 THEN Degraded ELSE Ordinary
                                       /\ a.src[1] # 3
    BY PathMessagesGiven, Zenon DEF PathsClock!Announced
  <2> QED BY <2>1, Zenon DEF PathsClock!Consistent
<1> QED BY <1>2, <1>4, <1>5, <1>6, <1>7, <1>8

configVars == <<config, clk, pc, firing, hist>>

IsSlaveOnly == config = "slaveOnly"

\* The slave-only configuration is never master or passive, by the general theorem about the
\* port's roles.
THEOREM SlaveOnlyInConfig == ConfigSpec => []SlaveOnlyStaysSlave
<1>1. ConfigInit /\ IsSlaveOnly => OnlySlaveClock!Init
  BY Zenon DEF ConfigInit, IsSlaveOnly
<1>2. IsSlaveOnly /\ [ConfigNext]_configVars => [OnlySlaveClock!Next]_OnlySlaveClock!vars
  BY Zenon DEF ConfigNext, IsSlaveOnly, configVars, OnlySlaveClock!vars
<1>3. [ConfigNext]_configVars => (IsSlaveOnly <=> IsSlaveOnly')
  BY Zenon DEF ConfigNext, configVars, IsSlaveOnly
<1>4. OnlySlaveClock!SlaveOnlyNeverMaster => SlaveOnlyStaysSlave
  BY DEF SlaveOnlyStaysSlave
<1>5. ~IsSlaveOnly => SlaveOnlyStaysSlave
  BY DEF SlaveOnlyStaysSlave, IsSlaveOnly
<1>6. OnlySlaveClock!Spec => []OnlySlaveClock!SlaveOnlyNeverMaster
  BY OnlySlaveAssumptions, OnlySlaveClock!SlaveOnlyStays
<1>7. ConfigSpec => ConfigInit /\ [][ConfigNext]_configVars
  BY DEF ConfigSpec, configVars
<1>8. ConfigSpec /\ IsSlaveOnly => OnlySlaveClock!Spec
  BY <1>1, <1>2, <1>3, <1>7, PTL DEF OnlySlaveClock!Spec
<1>9. ConfigSpec /\ ~IsSlaveOnly => []SlaveOnlyStaysSlave
  BY <1>3, <1>5, <1>7, PTL
<1> QED BY <1>4, <1>6, <1>8, <1>9, PTL

IsPassive == config = "passive"

\* The peer-to-peer clock of class below 128 runs exactly the timers of its state, by the
\* general theorem about toState.
THEOREM PassiveTimersAlwaysMatch == ConfigSpec => []PassiveTimersMatch
<1>1. ConfigInit /\ IsPassive => PassiveClock!Init
  BY Zenon DEF ConfigInit, IsPassive
<1>2. IsPassive /\ [ConfigNext]_configVars => [PassiveClock!Next]_PassiveClock!vars
  BY Zenon DEF ConfigNext, IsPassive, configVars, PassiveClock!vars
<1>3. [ConfigNext]_configVars => (IsPassive <=> IsPassive')
  BY Zenon DEF ConfigNext, configVars, IsPassive
<1>4. PassiveClock!TimersMatchState => PassiveTimersMatch
  BY DEF PassiveTimersMatch
<1>5. ~IsPassive => PassiveTimersMatch
  BY DEF PassiveTimersMatch, IsPassive
<1>6. PassiveClock!Spec => []PassiveClock!TimersMatchState
  BY PassiveAssumptions, PassiveClock!TimersAlwaysMatch
<1>7. ConfigSpec => ConfigInit /\ [][ConfigNext]_configVars
  BY DEF ConfigSpec, configVars
<1>8. ConfigSpec /\ IsPassive => PassiveClock!Spec
  BY <1>1, <1>2, <1>3, <1>7, PTL DEF PassiveClock!Spec
<1>9. ConfigSpec /\ ~IsPassive => []PassiveTimersMatch
  BY <1>3, <1>5, <1>7, PTL
<1> QED BY <1>4, <1>6, <1>8, <1>9, PTL

IsPaths == config = "paths"

\* Among three grandmasters over six paths bmc's choice does not depend on the slots of the
\* table, by the general theorem: their announcements are consistent.
THEOREM PathsChoiceIsOrderIndependent == ConfigSpec => []PathsOrderIndependent
<1>1. ConfigInit /\ IsPaths => PathsClock!Init
  BY Zenon DEF ConfigInit, IsPaths
<1>2. IsPaths /\ [ConfigNext]_configVars => [PathsClock!Next]_PathsClock!vars
  BY Zenon DEF ConfigNext, IsPaths, configVars, PathsClock!vars
<1>3. [ConfigNext]_configVars => (IsPaths <=> IsPaths')
  BY Zenon DEF ConfigNext, configVars, IsPaths
<1>4. PathsClock!OrderIndependent => PathsOrderIndependent
  BY DEF PathsOrderIndependent
<1>5. ~IsPaths => PathsOrderIndependent
  BY DEF PathsOrderIndependent, IsPaths
<1>6. PathsClock!Spec => []PathsClock!OrderIndependent
  BY PathsAssumptions, PathsClock!ChoiceIsOrderIndependent
<1>7. ConfigSpec => ConfigInit /\ [][ConfigNext]_configVars
  BY DEF ConfigSpec, configVars
<1>8. ConfigSpec /\ IsPaths => PathsClock!Spec
  BY <1>1, <1>2, <1>3, <1>7, PTL DEF PathsClock!Spec
<1>9. ConfigSpec /\ ~IsPaths => []PathsOrderIndependent
  BY <1>3, <1>5, <1>7, PTL
<1> QED BY <1>4, <1>6, <1>8, <1>9, PTL
=============================================================================
