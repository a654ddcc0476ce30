-------------------------- MODULE ClockSyncerProofs --------------------------
(***************************************************************************)
(* For every window size, integer range and sequence of samples: the two   *)
(* sample windows stay in step, average() is the mean of samples that are  *)
(* not negative and loses the sign of the others; and the carry arithmetic *)
(* of adjust_system_time_by_us yields a normal time.                       *)
(***************************************************************************)
EXTENDS ClockSyncer, SequenceTheorems, WellFoundedInduction, TLAPS

\* What Keep and Append leave of a window: a new length that depends on the old
\* one alone.
LEMMA KeepLength ==
    ASSUME NEW v \in Seq(Int), NEW x \in Int, Len(v) <= MaxSamples
    PROVE  /\ Keep(Append(v, x)) \in Seq(Int)
           /\ Len(Keep(Append(v, x))) = IF Len(v) < MaxSamples THEN Len(v) + 1 ELSE MaxSamples
<1> DEFINE w == Append(v, x)
<1>1. w \in Seq(Int) /\ Len(w) = Len(v) + 1
  BY AppendProperties
<1>2. Len(v) \in Nat
  BY LenProperties
<1>3. CASE Len(v) < MaxSamples
  BY <1>1, <1>2, <1>3, WindowAssumption DEF Keep
<1>4. CASE Len(v) >= MaxSamples
  <2>1. Len(v) = MaxSamples
    BY <1>2, <1>4, WindowAssumption
  <2>2. Keep(w) = SubSeq(w, 2, MaxSamples + 1)
    BY <1>1, <2>1, WindowAssumption DEF Keep
  <2>3. /\ SubSeq(w, 2, MaxSamples + 1) \in Seq(Int)
        /\ Len(SubSeq(w, 2, MaxSamples + 1)) = MaxSamples
    <3> HIDE DEF w
    <3> QED  BY <1>1, <2>1, WindowAssumption
  <2> QED  BY <2>1, <2>2, <2>3, WindowAssumption
<1> QED  BY <1>2, <1>3, <1>4, WindowAssumption

LEMMA MillionPositive == Million \in Nat /\ Million > 1
BY SMT DEF Million

\* The whole part of a division.
LEMMA WholePart ==
    ASSUME NEW y \in Int, y >= 0
    PROVE  /\ y \div Million \in Int
           /\ Million * (y \div Million) <= y
           /\ y < Million * (y \div Million) + Million
BY SMT DEF Million

\* Between one and two seconds there is one whole second.
LEMMA OneWhole ==
    ASSUME NEW y \in Int, y >= Million, y < Million + Million
    PROVE  Quotient(y, Million) = 1
<1>1. y \div Million = 1
  BY SMT DEF Million
<1>2. y >= 0
  BY MillionPositive
<1> QED  BY <1>1, <1>2 DEF Quotient

\* The remainder of a C++ division is smaller than the divisor.
LEMMA Division ==
    ASSUME NEW x \in Int
    PROVE  /\ Quotient(x, Million) \in Int
           /\ Remainder(x, Million) \in Int
           /\ -Million < Remainder(x, Million) /\ Remainder(x, Million) < Million
           /\ x = Million * Quotient(x, Million) + Remainder(x, Million)
<1> DEFINE q == Quotient(x, Million)
           p == Million * q
<1>1. /\ q \in Int /\ p \in Int
      /\ -Million < x - p /\ x - p < Million
  <2>1. CASE x >= 0
    <3>1. q = x \div Million
      BY <2>1 DEF Quotient
    <3> QED  BY <2>1, <3>1, WholePart, MillionPositive
  <2>2. CASE x < 0
    <3> DEFINE d == (-x) \div Million
    <3>1. q = -d
      BY <2>2 DEF Quotient
    <3>2. d \in Int /\ Million * d <= -x /\ -x < Million * d + Million
      BY <2>2, WholePart
    <3>3. p = -(Million * d) /\ Million * d \in Int
      BY <3>1, <3>2, MillionPositive
    <3> HIDE DEF d, q, p
    <3> QED  BY <2>2, <3>1, <3>2, <3>3, MillionPositive
  <2> QED  BY <2>1, <2>2
<1>2. Remainder(x, Million) = x - p
  BY DEF Remainder
<1> HIDE DEF p
<1>3. x = p + (x - p)
  BY <1>1
<1> QED  BY <1>1, <1>2, <1>3 DEF p

\* adjust_system_time_by_us gives settimeofday a time whose microseconds are in
\* range, and which is the current time plus the offset, for every offset of
\* either sign: one carry or one borrow is enough.
THEOREM TimeNormalised ==
    ASSUME NEW sec \in Int, NEW usec \in 0..(Million - 1), NEW offset \in Int
    PROVE  LET new == AdjustedTime([sec |-> sec, usec |-> usec], offset)
           IN  /\ new.usec \in 0..(Million - 1)
               /\ Million * new.sec + new.usec = Million * sec + usec + offset
<1> DEFINE q == Quotient(offset, Million)
           r == Remainder(offset, Million)
           s == sec + q
           u == usec + r
           new == AdjustedTime([sec |-> sec, usec |-> usec], offset)
<1> SUFFICES /\ new.usec \in 0..(Million - 1)
             /\ Million * new.sec + new.usec = Million * sec + usec + offset
  OBVIOUS
<1>1. /\ s \in Int /\ u \in Int
      /\ -Million < u /\ u < Million + Million
      /\ Million * s + u = Million * sec + usec + offset
  <2>1. q \in Int /\ r \in Int /\ -Million < r /\ r < Million /\ offset = Million * q + r
    BY Division
  <2> HIDE DEF q, r
  <2>2. Million * (sec + q) = Million * sec + Million * q
    BY <2>1, MillionPositive
  <2> QED  BY <2>1, <2>2, MillionPositive
<1>2. CASE u >= Million
  <2>1. Quotient(u, Million) = 1
    BY <1>1, <1>2, OneWhole
  <2>2. new = [sec |-> s + 1, usec |-> u - Million * 1]
    BY <1>2, <2>1 DEF AdjustedTime, Remainder
  <2> QED
    <3> HIDE DEF s, u, new
    <3> QED  BY <1>1, <1>2, <2>2, MillionPositive
<1>3. CASE u < 0
  <2>1. Quotient(-u + (Million - 1), Million) = 1
    BY <1>1, <1>3, OneWhole, MillionPositive
  <2>2. ~(u >= Million)
    BY <1>1, <1>3, MillionPositive
  <2>3. new = [sec |-> s - 1, usec |-> u + 1 * Million]
    BY <1>3, <2>1, <2>2 DEF AdjustedTime
  <2> QED
    <3> HIDE DEF s, u, new
    <3> QED  BY <1>1, <1>3, <2>3, MillionPositive
<1>4. CASE ~(u >= Million) /\ ~(u < 0)
  <2>1. new = [sec |-> s, usec |-> u]
    BY <1>4 DEF AdjustedTime
  <2> QED
    <3> HIDE DEF s, u, new
    <3> QED  BY <1>1, <1>4, <2>1, MillionPositive
<1> QED  BY <1>2, <1>3, <1>4

-----------------------------------------------------------------------------
(* The averages *)

\* Induction up to n, over sets: the least number that is missing has a
\* predecessor that is not.
LEMMA Induction ==
    ASSUME NEW n \in Nat, NEW S, 0 \in S,
           \A i \in 0..n : i # n /\ i \in S => i + 1 \in S
    PROVE  \A i \in 0..n : i \in S
<1> DEFINE R == {ss \in Nat \X Nat : ss[1] < ss[2]}
           T == {i \in 0..n : i \notin S}
<1> SUFFICES ASSUME T # {} PROVE FALSE
  OBVIOUS
<1>1. IsWellFoundedOn(R, Nat)
  BY NatLessThanWellFounded DEF OpToRel
<1>2. T \subseteq Nat
  OBVIOUS
<1>3. PICK x \in T : \A y \in T : ~(<<y, x>> \in R)
  <2> HIDE DEF R, T
  <2> QED  BY <1>1, <1>2, WFMin
<1>4. x \in 1..n /\ x \notin S
  OBVIOUS
<1>5. x - 1 \in 0..n /\ x - 1 # n /\ x - 1 + 1 = x /\ x - 1 < x
  BY <1>4
<1>6. x - 1 \in T
  BY <1>4, <1>5
<1>7. <<x - 1, x>> \in R
  BY <1>4, <1>5
<1> QED  BY <1>3, <1>6, <1>7

\* A recursion of n steps over the integers has a solution.
LEMMA RecursionExists ==
    ASSUME NEW n \in Nat, NEW F \in [1..n -> [Int -> Int]]
    PROVE  \E s \in [0..n -> Int] :
               /\ s[0] = 0
               /\ \A i \in 1..n : s[i] = F[i][s[i - 1]]
<1> DEFINE P(k) == \E s \in [0..k -> Int] :
                       s[0] = 0 /\ \A i \in 1..k : s[i] = F[i][s[i - 1]]
           S == {k \in 0..n : P(k)}
<1>1. 0 \in S
  <2>1. P(0)
    <3> WITNESS [i \in 0..0 |-> 0] \in [0..0 -> Int]
    <3> QED  OBVIOUS
  <2> HIDE DEF P
  <2> QED  BY <2>1
<1>2. ASSUME NEW j \in 0..n, j # n, j \in S PROVE j + 1 \in S
  <2> DEFINE k == j + 1
  <2>1. k \in 1..n /\ k - 1 = j /\ k # 0
    BY <1>2
  <2>2. PICK s \in [0..j -> Int] : s[0] = 0 /\ \A i \in 1..j : s[i] = F[i][s[i - 1]]
    BY <1>2
  <2> HIDE DEF k
  <2> DEFINE t == [i \in 0..k |-> IF i = k THEN F[k][s[j]] ELSE s[i]]
  <2>3. F[k][s[j]] \in Int
    BY <2>1, <2>2
  <2>4. t \in [0..k -> Int]
    BY <2>1, <2>3
  <2>5. t[0] = 0
    BY <2>1, <2>2
  <2>6. ASSUME NEW i \in 1..k PROVE t[i] = F[i][t[i - 1]]
    <3>1. t[i - 1] = s[i - 1]
      BY <2>1
    <3>2. CASE i = k
      <4>1. t[i] = F[k][s[j]]  BY <3>2
      <4> HIDE DEF t
      <4> QED  BY <2>1, <3>1, <3>2, <4>1
    <3>3. CASE i # k
      <4>1. t[i] = s[i] /\ i \in 1..j  BY <3>3, <2>1
      <4> HIDE DEF t
      <4> QED  BY <3>1, <4>1, <2>2
    <3> QED  BY <3>2, <3>3
  <2>7. P(k)
    <3> HIDE DEF t
    <3> QED  BY <2>4, <2>5, <2>6
  <2> HIDE DEF P
  <2> QED  BY <2>1, <2>7 DEF k
<1>3. \A i \in 0..n : i \in S
  <2> HIDE DEF S
  <2> QED  BY <1>1, <1>2, Induction
<1>4. P(n)
  <2> HIDE DEF P
  <2> QED  BY <1>3
<1> QED  BY <1>4

LEMMA SignedInt ==
    ASSUME NEW x \in Int PROVE  ToSigned(x, IntLimit) \in Int
BY WidthAssumption DEF ToSigned

\* The accumulator follows the additions of std::accumulate.
LEMMA AccumulatorEquation ==
    ASSUME NEW v \in Seq(Int)
    PROVE  /\ Accumulator(v)[0] = 0
           /\ \A i \in 1..Len(v) : Accumulator(v)[i] = ToSigned(Accumulator(v)[i - 1] + v[i], IntLimit)
<1> DEFINE n == Len(v)
           F == [i \in 1..n |-> [x \in Int |-> ToSigned(x + v[i], IntLimit)]]
           Q(s) == s = [i \in 0..n |-> IF i = 0 THEN 0 ELSE ToSigned(s[i - 1] + v[i], IntLimit)]
<1>1. n \in Nat /\ \A i \in 1..n : v[i] \in Int
  OBVIOUS
<1>2. Accumulator(v) = CHOOSE f : Q(f)
  BY DEF Accumulator
<1> HIDE DEF n
<1>3. F \in [1..n -> [Int -> Int]]
  <2>1. \A i \in 1..n : \A x \in Int : x + v[i] \in Int
    BY <1>1
  <2>2. \A i \in 1..n : \A x \in Int : ToSigned(x + v[i], IntLimit) \in Int
    BY <2>1, SignedInt
  <2> QED  BY <2>2
<1>4. PICK s \in [0..n -> Int] : s[0] = 0 /\ \A i \in 1..n : s[i] = F[i][s[i - 1]]
  <2> HIDE DEF F
  <2> QED  BY <1>1, <1>3, RecursionExists
<1>5. ASSUME NEW i \in 1..n PROVE s[i] = ToSigned(s[i - 1] + v[i], IntLimit)
  <2>1. i - 1 \in 0..n
    BY <1>1
  <2>2. s[i - 1] \in Int
    BY <2>1
  <2> QED  BY <1>4, <2>2
<1>6. Q(s)
  <2>1. s = [i \in 0..n |-> s[i]]
    OBVIOUS
  <2>2. ASSUME NEW i \in 0..n
        PROVE  s[i] = IF i = 0 THEN 0 ELSE ToSigned(s[i - 1] + v[i], IntLimit)
    <3>1. i = 0 \/ i \in 1..n
      BY <1>1
    <3> QED  BY <1>1, <1>4, <1>5, <3>1
  <2> QED  BY <2>1, <2>2
<1>7. Q(Accumulator(v))
  <2> HIDE DEF Q
  <2> QED  BY <1>6, <1>2
<1> DEFINE p == Accumulator(v)
<1> HIDE DEF p
<1>8. p = [i \in 0..n |-> IF i = 0 THEN 0 ELSE ToSigned(p[i - 1] + v[i], IntLimit)]
  BY <1>7 DEF p
<1>9. ASSUME NEW i \in 0..n
      PROVE  p[i] = IF i = 0 THEN 0 ELSE ToSigned(p[i - 1] + v[i], IntLimit)
  BY <1>8
<1>10. p[0] = 0 /\ \A i \in 1..n : p[i] = ToSigned(p[i - 1] + v[i], IntLimit)
  BY <1>1, <1>9
<1> QED  BY <1>10 DEF p, n
\* The same for the sums it is compared with.
LEMMA SumsEquation ==
    ASSUME NEW v \in Seq(Int)
    PROVE  /\ Sums(v)[0] = 0
           /\ \A i \in 1..Len(v) : Sums(v)[i] = Sums(v)[i - 1] + v[i]
<1> DEFINE n == Len(v)
           F == [i \in 1..n |-> [x \in Int |-> x + v[i]]]
           Q(s) == s = [i \in 0..n |-> IF i = 0 THEN 0 ELSE s[i - 1] + v[i]]
<1>1. n \in Nat /\ \A i \in 1..n : v[i] \in Int
  OBVIOUS
<1>2. Sums(v) = CHOOSE f : Q(f)
  BY DEF Sums
<1> HIDE DEF n
<1>3. F \in [1..n -> [Int -> Int]]
  <2>1. \A i \in 1..n : \A x \in Int : x + v[i] \in Int
    BY <1>1
  <2> QED  BY <2>1
<1>4. PICK s \in [0..n -> Int] : s[0] = 0 /\ \A i \in 1..n : s[i] = F[i][s[i - 1]]
  <2> HIDE DEF F
  <2> QED  BY <1>1, <1>3, RecursionExists
<1>5. ASSUME NEW i \in 1..n PROVE s[i] = s[i - 1] + v[i]
  <2>1. i - 1 \in 0..n
    BY <1>1
  <2>2. s[i - 1] \in Int
    BY <2>1
  <2> QED  BY <1>4, <2>2
<1>6. Q(s)
  <2>1. s = [i \in 0..n |-> s[i]]
    OBVIOUS
  <2>2. ASSUME NEW i \in 0..n
        PROVE  s[i] = IF i = 0 THEN 0 ELSE s[i - 1] + v[i]
    <3>1. i = 0 \/ i \in 1..n
      BY <1>1
    <3> QED  BY <1>1, <1>4, <1>5, <3>1
  <2> QED  BY <2>1, <2>2
<1>7. Q(Sums(v))
  <2> HIDE DEF Q
  <2> QED  BY <1>6, <1>2
<1> DEFINE p == Sums(v)
<1> HIDE DEF p
<1>8. p = [i \in 0..n |-> IF i = 0 THEN 0 ELSE p[i - 1] + v[i]]
  BY <1>7 DEF p
<1>9. ASSUME NEW i \in 0..n
      PROVE  p[i] = IF i = 0 THEN 0 ELSE p[i - 1] + v[i]
  BY <1>8
<1>10. p[0] = 0 /\ \A i \in 1..n : p[i] = p[i - 1] + v[i]
  BY <1>1, <1>9
<1> QED  BY <1>10 DEF p, n

\* A number in range is converted to itself.
LEMMA SignedSame ==
    ASSUME NEW limit \in Nat, NEW x \in Int, -limit <= x, x < limit
    PROVE  ToSigned(x, limit) = x
<1> DEFINE a == x + limit
           b == 2 * limit
<1>1. a \in Nat /\ b \in Nat /\ a < b
  OBVIOUS
<1>2. a % b = a
  <2> HIDE DEF a, b
  <2> QED  BY <1>1
<1> QED  BY <1>2 DEF ToSigned

LEMMA SumsType ==
    ASSUME NEW v \in Seq(Int)
    PROVE  \A i \in 0..Len(v) : Sums(v)[i] \in Int
<1> DEFINE n == Len(v)
           S == {i \in 0..n : Sums(v)[i] \in Int}
<1>1. n \in Nat /\ \A i \in 1..n : v[i] \in Int
  OBVIOUS
<1>2. Sums(v)[0] = 0 /\ \A i \in 1..n : Sums(v)[i] = Sums(v)[i - 1] + v[i]
  BY SumsEquation
<1> HIDE DEF n
<1>3. 0 \in S
  BY <1>1, <1>2
<1>4. ASSUME NEW i \in 0..n, i # n, i \in S PROVE i + 1 \in S
  <2>1. i + 1 \in 1..n /\ (i + 1) - 1 = i
    BY <1>1, <1>4
  <2> QED  BY <1>1, <1>2, <1>4, <2>1
<1>5. \A i \in 0..n : i \in S
  <2> HIDE DEF S
  <2> QED  BY <1>1, <1>3, <1>4, Induction
<1> QED  BY <1>5 DEF n

\* As long as every sum on the way is an int, the accumulator holds the sum.
LEMMA AccumulateExact ==
    ASSUME NEW v \in Seq(Int),
           \A i \in 0..Len(v) : -IntLimit <= Sums(v)[i] /\ Sums(v)[i] < IntLimit
    PROVE  Accumulate(v) = SumOf(v)
<1> DEFINE n == Len(v)
           S == {i \in 0..n : Accumulator(v)[i] = Sums(v)[i]}
<1>1. n \in Nat /\ n = Len(v)
  OBVIOUS
<1>2. Sums(v)[0] = 0 /\ \A i \in 1..n : Sums(v)[i] = Sums(v)[i - 1] + v[i]
  BY SumsEquation
<1>3. /\ Accumulator(v)[0] = 0
      /\ \A i \in 1..n : Accumulator(v)[i] = ToSigned(Accumulator(v)[i - 1] + v[i], IntLimit)
  BY AccumulatorEquation
<1>4. \A i \in 0..n : Sums(v)[i] \in Int /\ -IntLimit <= Sums(v)[i] /\ Sums(v)[i] < IntLimit
  BY SumsType
<1> HIDE DEF n
<1>5. 0 \in S
  BY <1>1, <1>2, <1>3
<1>6. ASSUME NEW i \in 0..n, i # n, i \in S PROVE i + 1 \in S
  <2>1. i + 1 \in 1..n /\ i + 1 \in 0..n /\ (i + 1) - 1 = i
    BY <1>1, <1>6
  <2>2. Accumulator(v)[i + 1] = ToSigned(Sums(v)[i + 1], IntLimit)
    BY <1>2, <1>3, <1>6, <2>1
  <2>3. ToSigned(Sums(v)[i + 1], IntLimit) = Sums(v)[i + 1]
    BY <1>4, <2>1, SignedSame, WidthAssumption
  <2> QED  BY <2>1, <2>2, <2>3
<1>7. \A i \in 0..n : i \in S
  <2> HIDE DEF S
  <2> QED  BY <1>1, <1>5, <1>6, Induction
<1> QED  BY <1>1, <1>7 DEF Accumulate, SumOf

\* Sums of samples that are not negative only grow.
LEMMA SumsGrow ==
    ASSUME NEW v \in Seq(Int), NonNegative(v)
    PROVE  \A i \in 0..Len(v) : 0 <= Sums(v)[i] /\ Sums(v)[i] <= SumOf(v)
<1> DEFINE n == Len(v)
           p == Sums(v)
           S == {i \in 0..n : 0 <= p[i]}
           T == {i \in 0..n : p[n - i] <= p[n]}
<1>1. n \in Nat /\ \A i \in 1..n : v[i] \in Int /\ v[i] >= 0
  BY DEF NonNegative
<1>2. p[0] = 0 /\ \A i \in 1..n : p[i] = p[i - 1] + v[i]
  BY SumsEquation
<1>3. \A i \in 0..n : p[i] \in Int
  BY SumsType
<1>4. SumOf(v) = p[n]
  BY DEF SumOf
<1> HIDE DEF n, p
<1>5. \A i \in 0..n : i \in S
  <2>1. 0 \in S
    BY <1>1, <1>2
  <2>2. ASSUME NEW i \in 0..n, i # n, i \in S PROVE i + 1 \in S
    <3>1. i + 1 \in 1..n /\ i + 1 \in 0..n /\ (i + 1) - 1 = i
      BY <1>1, <2>2
    <3> QED  BY <1>1, <1>2, <1>3, <2>2, <3>1
  <2> HIDE DEF S
  <2> QED  BY <1>1, <2>1, <2>2, Induction
<1>6. \A i \in 0..n : i \in T
  <2>1. 0 \in T
    BY <1>1, <1>3
  <2>2. ASSUME NEW i \in 0..n, i # n, i \in T PROVE i + 1 \in T
    <3>1. /\ i + 1 \in 0..n /\ n - i \in 1..n /\ n - i \in 0..n /\ n \in 0..n
          /\ (n - i) - 1 = n - (i + 1) /\ n - (i + 1) \in 0..n
      BY <1>1, <2>2
    <3>2. p[n - i] = p[n - (i + 1)] + v[n - i]
      BY <1>2, <3>1
    <3>3. p[n - (i + 1)] <= p[n]
      BY <1>1, <1>3, <2>2, <3>1, <3>2
    <3> QED  BY <3>1, <3>3
  <2> HIDE DEF T
  <2> QED  BY <1>1, <2>1, <2>2, Induction
<1>7. ASSUME NEW i \in 0..n PROVE 0 <= p[i] /\ p[i] <= p[n]
  <2>1. n - i \in 0..n /\ n - (n - i) = i
    BY <1>1
  <2>2. n - i \in T
    BY <1>6, <2>1
  <2> QED  BY <1>5, <2>1, <2>2
<1> QED  BY <1>4, <1>7 DEF n, p

LEMMA QuotientBound ==
    ASSUME NEW a \in Nat, NEW n \in Nat \ {0}
    PROVE  a \div n \in Nat /\ n * (a \div n) <= a /\ a \div n <= a
<1> DEFINE q == a \div n
<1>1. q \in Int /\ n * q <= a /\ a < n * q + n
  OBVIOUS
<1> HIDE DEF q
<1>2. q \in Nat
  <2>1. ASSUME q < 0 PROVE FALSE
    <3>1. q + 1 <= 0 /\ n * (q + 1) = n * q + n /\ n * (q + 1) <= 0
      BY <1>1, <2>1
    <3> QED  BY <1>1, <3>1
  <2> QED  BY <1>1, <2>1
<1>3. q <= n * q
  BY <1>2
<1> QED  BY <1>1, <1>2, <1>3 DEF q

\* The mean of one window, where average() is right.
LEMMA AverageExact ==
    ASSUME NEW v \in Seq(Int), v # <<>>, NonNegative(v), FitsInt(v)
    PROVE  Average(v) = SumOf(v) \div Len(v)
<1> DEFINE n == Len(v)
           a == SumOf(v)
<1>1. n \in Nat \ {0}
  OBVIOUS
<1>2. a \in Nat /\ a < IntLimit
  BY <1>1, SumsGrow, SumsType DEF SumOf, FitsInt
<1>3. Accumulate(v) = a
  <2>1. \A i \in 0..n : -IntLimit <= Sums(v)[i] /\ Sums(v)[i] < IntLimit
    <3>1. \A i \in 0..n : Sums(v)[i] \in Int /\ 0 <= Sums(v)[i] /\ Sums(v)[i] <= a
      BY SumsGrow, SumsType
    <3> HIDE DEF n, a
    <3> QED  BY <1>2, <3>1, WidthAssumption
  <2> QED  BY <2>1, AccumulateExact
<1>4. Average(v) = ToSigned((a % (2 * LongLimit)) \div n, LongLimit)
  BY <1>3 DEF Average
<1> HIDE DEF n, a
<1>5. a % (2 * LongLimit) = a
  <2> DEFINE b == 2 * LongLimit
  <2>1. b \in Nat /\ a < b
    BY <1>2, WidthAssumption
  <2> HIDE DEF b
  <2>2. a % b = a
    BY <1>2, <2>1
  <2> QED  BY <2>2 DEF b
<1>6. a \div n \in Nat /\ a \div n < LongLimit
  BY <1>1, <1>2, QuotientBound, WidthAssumption
<1>7. ToSigned(a \div n, LongLimit) = a \div n
  <2> DEFINE q == a \div n
  <2>1. q \in Int /\ -LongLimit <= q /\ q < LongLimit
    BY <1>6, WidthAssumption
  <2> HIDE DEF q
  <2>2. ToSigned(q, LongLimit) = q
    BY <2>1, SignedSame, WidthAssumption
  <2> QED  BY <2>2 DEF q
<1> QED  BY <1>4, <1>5, <1>7 DEF n, a

\* A negative number becomes unsigned by adding the number of values.
LEMMA NegativeModulus ==
    ASSUME NEW b \in Nat, NEW a \in Int, -b <= a, a < 0
    PROVE  a % b = a + b
<1> DEFINE q == a \div b
           r == a % b
           m == b * q
<1>1. q \in Int /\ m \in Int /\ r \in Int /\ 0 <= r /\ r < b /\ a = m + r
  OBVIOUS
<1> HIDE DEF q, r
<1>2. ~(q >= 0)
  <2>1. ASSUME q >= 0 PROVE m >= 0
    BY <1>1, <2>1
  <2> HIDE DEF m
  <2> QED  BY <1>1, <2>1
<1>3. ~(q <= -2)
  <2>1. ASSUME q <= -2 PROVE m <= -2 * b
    BY <1>1, <2>1
  <2> HIDE DEF m
  <2> QED  BY <1>1, <2>1
<1>4. q = -1
  BY <1>1, <1>2, <1>3
<1>5. m = -b
  BY <1>4
<1> HIDE DEF m
<1> QED  BY <1>1, <1>5 DEF r

\* Why the mean of negative samples is lost: when two or more samples have a
\* negative sum, average() returns a number that is not negative, because the
\* sum becomes unsigned before it is divided.
THEOREM SignLost ==
    ASSUME NEW v \in Seq(Int), Len(v) >= 2, SumOf(v) < 0,
           \A i \in 0..Len(v) : -IntLimit <= Sums(v)[i] /\ Sums(v)[i] < IntLimit
    PROVE  /\ Average(v) = (SumOf(v) + 2 * LongLimit) \div Len(v)
           /\ Average(v) >= 0
<1> DEFINE n == Len(v)
           a == SumOf(v)
           b == 2 * LongLimit
           c == a + b
<1>1. n \in Nat /\ n >= 2
  OBVIOUS
<1>2. a \in Int /\ a < 0 /\ -IntLimit <= a
  BY <1>1, SumsType DEF SumOf
<1>3. Average(v) = ToSigned((a % b) \div n, LongLimit)
  BY <1>1, AccumulateExact DEF Average
<1> HIDE DEF n, a
<1>4. b \in Nat /\ c \in Nat /\ c < b
  BY <1>2, WidthAssumption
<1>5. a % b = c
  <2> HIDE DEF b
  <2>1. -b <= a
    BY <1>2, <1>4
  <2> QED  BY <1>2, <1>4, <2>1, NegativeModulus
<1> DEFINE q == c \div n
<1>6. q \in Nat /\ n * q <= c
  <2> HIDE DEF c
  <2> QED  BY <1>1, <1>4, QuotientBound, SMTT(30)
<1> HIDE DEF q, c
<1>7. q < LongLimit
  <2>1. 2 * q <= n * q
    BY <1>1, <1>6
  <2>2. n * q \in Int
    BY <1>1, <1>6
  <2> QED  BY <1>4, <1>6, <2>1, <2>2, WidthAssumption
<1>8. ToSigned(q, LongLimit) = q
  BY <1>6, <1>7, SignedSame, WidthAssumption
<1>9. Average(v) = q
  BY <1>3, <1>5, <1>8 DEF q
<1> QED  BY <1>6, <1>9 DEF q, c, n, a

-----------------------------------------------------------------------------
(* Adding a sample *)

LEMMA AccumulateType ==
    ASSUME NEW v \in Seq(Int)
    PROVE  Accumulate(v) \in Int
<1> DEFINE n == Len(v)
           S == {i \in 0..n : Accumulator(v)[i] \in Int}
<1>1. n \in Nat /\ \A i \in 1..n : v[i] \in Int
  OBVIOUS
<1>2. /\ Accumulator(v)[0] = 0
      /\ \A i \in 1..n : Accumulator(v)[i] = ToSigned(Accumulator(v)[i - 1] + v[i], IntLimit)
  BY AccumulatorEquation
<1>3. Accumulate(v) = Accumulator(v)[n]
  BY DEF Accumulate
<1> HIDE DEF n
<1>4. 0 \in S
  BY <1>1, <1>2
<1>5. ASSUME NEW i \in 0..n, i # n, i \in S PROVE i + 1 \in S
  <2>1. i + 1 \in 1..n /\ (i + 1) - 1 = i
    BY <1>1, <1>5
  <2>2. Accumulator(v)[i] + v[i + 1] \in Int
    BY <1>1, <1>5, <2>1
  <2>3. Accumulator(v)[i + 1] = ToSigned(Accumulator(v)[i] + v[i + 1], IntLimit)
    BY <1>2, <2>1
  <2>4. Accumulator(v)[i + 1] \in Int
    BY <2>2, <2>3, SignedInt
  <2>5. i + 1 \in 0..n
    BY <1>1, <2>1
  <2> QED  BY <2>4, <2>5
<1>6. \A i \in 0..n : i \in S
  <2> HIDE DEF S
  <2> QED  BY <1>1, <1>4, <1>5, Induction
<1> QED  BY <1>1, <1>3, <1>6

LEMMA AverageType ==
    ASSUME NEW v \in Seq(Int)
    PROVE  Average(v) \in Int
<1>1. CASE v = <<>>
  BY <1>1 DEF Average
<1>2. CASE v # <<>>
  <2> DEFINE n == Len(v)
             a == Accumulate(v)
             b == 2 * LongLimit
  <2>1. n \in Nat \ {0} /\ a \in Int /\ b \in Nat \ {0}
    BY <1>2, AccumulateType, WidthAssumption
  <2>2. Average(v) = ToSigned((a % b) \div n, LongLimit)
    BY <1>2 DEF Average
  <2> HIDE DEF n, a
  <2> DEFINE r == a % b
             q == r \div n
  <2>3. r \in Int
    <3> HIDE DEF b
    <3> QED  BY <2>1
  <2>4. q \in Int
    <3> HIDE DEF r
    <3> QED  BY <2>1, <2>3
  <2>5. ToSigned(q, LongLimit) \in Int
    <3> DEFINE x == q + LongLimit
    <3>1. x \in Int
      <4> HIDE DEF q
      <4> QED  BY <2>4, WidthAssumption
    <3>2. x % b \in Int
      <4> HIDE DEF x, b
      <4> QED  BY <2>1, <3>1
    <3>3. ToSigned(q, LongLimit) = (x % b) - LongLimit
      BY DEF ToSigned
    <3> HIDE DEF x, b
    <3> QED  BY <3>2, <3>3, WidthAssumption
  <2> QED  BY <2>2, <2>5
<1> QED  BY <1>1, <1>2

\* addPtpSample keeps the windows in step, and the averages are those of the windows.
LEMMA SampleAdded ==
    ASSUME NEW s \in Syncer, NEW offset \in Int, NEW delay \in Int,
           Len(s.rtts) = Len(s.offsets), Len(s.rtts) <= MaxSamples
    PROVE  LET t == AddPtpSample(s, offset, delay) IN
           /\ t \in Syncer /\ t.alg = Ptp
           /\ Len(t.rtts) = Len(t.offsets) /\ Len(t.rtts) <= MaxSamples /\ t.rtts # <<>>
           /\ t.avgRtt = Average(t.rtts) /\ t.avgOffset = Average(t.offsets)
<1> DEFINE rtts    == Keep(Append(s.rtts, delay))
           offsets == Keep(Append(s.offsets, offset))
           t       == AddPtpSample(s, offset, delay)
<1>1. s.rtts \in Seq(Int) /\ s.offsets \in Seq(Int)
  BY DEF Syncer
<1>2. /\ rtts \in Seq(Int)
      /\ Len(rtts) = IF Len(s.rtts) < MaxSamples THEN Len(s.rtts) + 1 ELSE MaxSamples
  BY <1>1, KeepLength
<1>3. /\ offsets \in Seq(Int)
      /\ Len(offsets) = IF Len(s.offsets) < MaxSamples THEN Len(s.offsets) + 1 ELSE MaxSamples
  BY <1>1, KeepLength
<1>4. Len(s.rtts) \in Nat
  BY <1>1, LenProperties
<1>5. t = [alg |-> Ptp, rtts |-> rtts, offsets |-> offsets,
           avgRtt |-> Average(rtts), avgOffset |-> Average(offsets)]
  BY DEF AddPtpSample
<1> HIDE DEF rtts, offsets, t
<1>6. Len(rtts) > 0 /\ Len(rtts) <= MaxSamples /\ Len(rtts) = Len(offsets)
  BY <1>2, <1>3, <1>4, WindowAssumption
<1>7. rtts # <<>>
  BY <1>6
<1>8. Average(rtts) \in Int /\ Average(offsets) \in Int
  BY <1>2, <1>3, AverageType
<1>9. t \in Syncer
  BY <1>2, <1>3, <1>5, <1>8 DEF Syncer
<1> QED  BY <1>5, <1>6, <1>7, <1>9 DEF t
=============================================================================
