----------------------------- MODULE NumbersProofs -----------------------------
(***************************************************************************)
(* What the suites "arithmetic" and "datetime" expect of integers, of      *)
(* DECIMALs, dates and timestamps is right, for every width, base, unit    *)
(* and year.                                                               *)
(*                                                                         *)
(* The modules have no bound that these proofs rely on: powers are         *)
(* computed by a loop whose value is found by induction, a number is told   *)
(* by its digits, the hands of the clock, whatever it shows, count the     *)
(* ticks since the epoch, and the dates of the calendar the days.          *)
(***************************************************************************)
EXTENDS Numbers, Induction, SequenceTheorems

\* The powers up to the nth in a table.
Powers(b, n, h) ==
    h \in [0..n -> Nat] /\ h[0] = 1 /\ \A i \in 1..n : h[i] = b * h[i - 1]

\* There is such a table, ...
LEMMA PowersExist ==
    ASSUME NEW b \in Nat, NEW n \in Nat
    PROVE  \E h : Powers(b, n, h)
<1> DEFINE step == [i \in 1..n |-> [x \in Nat |-> b * x]]
           N == Nat
<1>1. step \in [1..n -> [N -> N]] /\ 1 \in N
  OBVIOUS
<1>2. \A i \in 1..n, x \in Nat : step[i][x] = b * x
  OBVIOUS
<1> HIDE DEF step, N
<1>3. PICK h \in [0..n -> N] : h[0] = 1 /\ \A i \in 1..n : h[i] = step[i][h[i - 1]]
  BY <1>1, RecursiveFunction
<1>4. \A i \in 0..n : h[i] \in Nat
  BY DEF N
<1> QED
  <2>1. ASSUME NEW i \in 1..n PROVE h[i] = b * h[i - 1]
    <3>1. i - 1 \in 0..n
      OBVIOUS
    <3>2. h[i] = step[i][h[i - 1]] /\ h[i - 1] \in Nat
      BY <1>3, <1>4, <3>1
    <3> QED
      BY <1>2, <3>2
  <2> QED
    BY <1>3, <2>1 DEF Powers, N

\* ... and two of them agree.
LEMMA PowersAreUnique ==
    ASSUME NEW b \in Nat, NEW m \in Nat, NEW n \in Nat, NEW g, NEW h, Powers(b, m, g), Powers(b, n, h),
           NEW i \in Nat, i <= m, i <= n
    PROVE  g[i] = h[i]
<1> DEFINE S == {k \in Nat : k <= m /\ k <= n => g[k] = h[k]}
<1>1. 0 \in S
  BY DEF Powers
<1>2. ASSUME NEW k \in Nat, k \in S PROVE k + 1 \in S
  <2> SUFFICES ASSUME k + 1 <= m, k + 1 <= n PROVE g[k + 1] = h[k + 1]
    OBVIOUS
  <2>1. g[k] = h[k] /\ k + 1 \in 1..m /\ k + 1 \in 1..n /\ (k + 1) - 1 = k
    BY <1>2
  <2> QED
    BY <2>1 DEF Powers
<1> HIDE DEF S
<1>3. i \in S
  BY <1>1, <1>2, InductionOverSet
<1> QED
  BY <1>3 DEF S

\* So the recursion has a solution.
LEMMA PowerSteps ==
    ASSUME NEW b \in Nat
    PROVE  /\ Power(b, 0) = 1
           /\ \A n \in Nat : Power(b, n + 1) = b * Power(b, n)
           /\ \A n \in Nat : Power(b, n) \in Nat
<1> DEFINE Solves(f) == f = [i \in Nat |-> IF i = 0 THEN 1 ELSE b * f[i - 1]]
           table == [n \in Nat |-> CHOOSE h : Powers(b, n, h)]
           f == [n \in Nat |-> table[n][n]]
<1>1. \A n \in Nat : Powers(b, n, table[n])
  BY PowersExist
<1> HIDE DEF table
<1>2. f[0] = 1
  BY <1>1 DEF Powers
<1>3. ASSUME NEW n \in Nat, n # 0 PROVE f[n] = b * f[n - 1]
  <2>1. n - 1 \in Nat /\ n \in 1..n
    BY <1>3
  <2>2. table[n][n] = b * table[n][n - 1]
    BY <1>1, <2>1 DEF Powers
  <2>3. Powers(b, n, table[n]) /\ Powers(b, n - 1, table[n - 1])
    BY <1>1, <2>1
  <2>4. table[n][n - 1] = table[n - 1][n - 1]
    BY <2>1, <2>3, PowersAreUnique
  <2> QED
    BY <2>1, <2>2, <2>4
<1>4. f \in [Nat -> Nat]
  <2>1. \A n \in Nat : table[n][n] \in Nat
    BY <1>1 DEF Powers
  <2> QED
    BY <2>1
<1> HIDE DEF f
<1>5. Solves(f)
  <2>1. \A n \in Nat : f[n] = IF n = 0 THEN 1 ELSE b * f[n - 1]
    BY <1>2, <1>3
  <2> QED
    BY <1>4, <2>1
<1> DEFINE power == CHOOSE g : Solves(g)
<1>6. Solves(power)
  BY <1>5
<1>7. \A n : Power(b, n) = power[n]
  BY DEF Power
<1> HIDE DEF power
<1>8. power[0] = 1 /\ \A n \in Nat : power[n + 1] = b * power[n]
  <2>1. \A n \in Nat : power[n] = IF n = 0 THEN 1 ELSE b * power[n - 1]
    BY <1>6
  <2> HIDE DEF Solves
  <2>2. power[0] = 1
    BY <2>1
  <2>3. ASSUME NEW n \in Nat PROVE power[n + 1] = b * power[n]
    <3>1. n + 1 \in Nat /\ n + 1 # 0 /\ (n + 1) - 1 = n
      OBVIOUS
    <3> QED
      BY <2>1, <3>1
  <2> QED
    BY <2>2, <2>3
<1> DEFINE S == {n \in Nat : power[n] \in Nat}
<1>9. Nat \subseteq S
  <2>1. 0 \in S
    BY <1>8
  <2>2. \A n \in Nat : n \in S => n + 1 \in S
    BY <1>8
  <2> HIDE DEF S
  <2> QED
    BY <2>1, <2>2, InductionOverSet
<1> QED
  BY <1>7, <1>8, <1>9

-----------------------------------------------------------------------------
\* A longer loop does not make less.
LEMMA PowersGrow ==
    ASSUME NEW b \in Nat \ {0}, NEW m \in Nat, NEW n \in Nat, m <= n
    PROVE  Power(b, m) \in Nat \ {0} /\ Power(b, m) <= Power(b, n)
<1>1. \A k \in Nat : Power(b, k) \in Nat /\ Power(b, k + 1) = b * Power(b, k)
  BY PowerSteps
<1> DEFINE Positive == {k \in Nat : Power(b, k) > 0}
           Above == {k \in Nat : Power(b, m + k) >= Power(b, m)}
<1>2. Nat \subseteq Positive
  <2>1. 0 \in Positive
    BY PowerSteps
  <2>2. ASSUME NEW k \in Nat, k \in Positive PROVE k + 1 \in Positive
    <3>1. b * Power(b, k) > 0
      BY <1>1, <2>2
    <3> QED
      BY <1>1, <3>1
  <2> HIDE DEF Positive
  <2> QED
    BY <2>1, <2>2, InductionOverSet
<1>3. Nat \subseteq Above
  <2>1. 0 \in Above
    BY <1>1
  <2>2. ASSUME NEW k \in Nat, k \in Above PROVE k + 1 \in Above
    <3>1. m + k \in Nat /\ m + (k + 1) = (m + k) + 1
      OBVIOUS
    <3>2. Power(b, m + (k + 1)) = b * Power(b, m + k) /\ Power(b, m + k) \in Nat
      BY <1>1, <3>1
    <3>3. b * Power(b, m + k) >= Power(b, m + k)
      BY <3>2
    <3> QED
      BY <1>1, <2>2, <3>2, <3>3
  <2> HIDE DEF Above
  <2> QED
    BY <2>1, <2>2, InductionOverSet
<1>4. n - m \in Nat /\ m + (n - m) = n
  OBVIOUS
<1>5. Power(b, m + (n - m)) >= Power(b, m)
  BY <1>3, <1>4
<1> QED
  BY <1>1, <1>2, <1>4, <1>5

\* A number that fits is not changed by a conversion.
LEMMA WrappedInRange ==
    ASSUME NEW bits \in Nat \ {0}, NEW x \in Int, -Power(2, bits - 1) <= x, x <= Power(2, bits - 1) - 1
    PROVE  Wrapped(x, bits) = x
<1> DEFINE half == Power(2, bits - 1)
<1>1. half \in Nat /\ Power(2, bits) = 2 * half
  <2>1. bits - 1 \in Nat /\ (bits - 1) + 1 = bits
    OBVIOUS
  <2> QED
    BY <2>1, PowerSteps
<1>2. Wrapped(x, bits) = ((x + half) % (2 * half)) - half
  BY <1>1 DEF Wrapped
<1> HIDE DEF half
<1>3. x + half \in Nat /\ x + half < 2 * half
  BY <1>1 DEF half
<1>4. (x + half) % (2 * half) = x + half
  BY <1>1, <1>3
<1> QED
  BY <1>1, <1>2, <1>4

\* A conversion yields a number of the width.
LEMMA WrappedType ==
    ASSUME NEW bits \in Nat \ {0}, NEW x \in Int
    PROVE  Wrapped(x, bits) \in -Power(2, bits - 1)..Power(2, bits - 1) - 1
<1> DEFINE half == Power(2, bits - 1)
<1>1. half \in Nat \ {0} /\ Power(2, bits) = 2 * half
  <2>1. bits - 1 \in Nat /\ (bits - 1) + 1 = bits
    OBVIOUS
  <2> QED
    BY <2>1, PowerSteps, PowersGrow
<1>2. Wrapped(x, bits) = ((x + half) % (2 * half)) - half
  BY <1>1 DEF Wrapped
<1> HIDE DEF half
<1>3. (x + half) % (2 * half) \in 0..(2 * half) - 1
  BY <1>1
<1> SUFFICES Wrapped(x, bits) \in -half..half - 1
  BY DEF half
<1> QED
  BY <1>1, <1>2, <1>3

\* How the width of a type relates to that of an __int128.
LEMMA Widths ==
    ASSUME NEW t \in Types
    PROVE  /\ t.bits \in Nat \ {0} /\ WideBits \in Nat \ {0} /\ t.signed \in BOOLEAN
           /\ Power(2, t.bits - 1) \in Nat \ {0}
           /\ Power(2, t.bits) = 2 * Power(2, t.bits - 1)
           /\ Power(2, WideBits - 1) \in Nat \ {0}
           /\ IsHugeint(t) => t.signed /\ Power(2, t.bits - 1) = Power(2, WideBits - 1)
           /\ ~IsHugeint(t) => 2 * Power(2, t.bits - 1) <= Power(2, WideBits - 1)
<1>1. t.bits \in Nat \ {0} /\ t.signed \in BOOLEAN
  BY TypesAssumption
<1>2. 2 * t.bits <= WideBits \/ (t.bits = WideBits /\ t.signed)
  BY TypesAssumption
<1>3. WideBits \in Nat \ {0}
  BY <1>1, <1>2, TypesAssumption
<1>4. /\ t.bits - 1 \in Nat /\ (t.bits - 1) + 1 = t.bits
      /\ WideBits - 1 \in Nat /\ (WideBits - 1) + 1 = WideBits
  BY <1>1, <1>3
<1>5. Power(2, t.bits) = 2 * Power(2, t.bits - 1)
  BY <1>4, PowerSteps
<1>6. Power(2, t.bits - 1) \in Nat \ {0} /\ Power(2, WideBits - 1) \in Nat \ {0}
  BY <1>4, PowersGrow
<1>7. ASSUME IsHugeint(t) PROVE t.signed /\ Power(2, t.bits - 1) = Power(2, WideBits - 1)
  BY <1>1, <1>2, <1>7 DEF IsHugeint
<1>8. ASSUME ~IsHugeint(t) PROVE 2 * Power(2, t.bits - 1) <= Power(2, WideBits - 1)
  <2>1. t.bits <= WideBits - 1
    BY <1>1, <1>2, <1>3, <1>8 DEF IsHugeint
  <2>2. Power(2, t.bits) <= Power(2, WideBits - 1)
    BY <1>1, <1>4, <2>1, PowersGrow
  <2> QED
    BY <1>5, <2>2
<1> QED
  BY <1>1, <1>3, <1>5, <1>6, <1>7, <1>8

\* Of a type that is not HUGEINT: an error is expected exactly if the result is out of range,
\* though it is computed in a bounded width, ...
LEMMA ErrorsExpected ==
    ASSUME NEW t \in Types, ~IsHugeint(t), NEW x \in Int
    PROVE  /\ Builtin(x).overflow \/ ~InRange(Builtin(x).exact, t) <=> x \notin TypeRange(t)
           /\ x \in TypeRange(t) => Builtin(x).exact = x
<1> DEFINE half == Power(2, t.bits - 1)
           wide == Power(2, WideBits - 1)
<1>1. /\ half \in Nat \ {0} /\ wide \in Nat \ {0} /\ 2 * half <= wide
      /\ Power(2, t.bits) = 2 * half /\ t.signed \in BOOLEAN /\ WideBits \in Nat \ {0}
  BY Widths
<1>2. \A y \in Int : InRange(y, t) <=> y \in TypeRange(t)
  BY <1>1 DEF InRange, TypeRange, Smallest
<1>3. ASSUME x \in TypeRange(t) PROVE Wrapped(x, WideBits) = x
  <2>1. -wide <= x /\ x <= wide - 1
    <3>1. -half <= x /\ x <= 2 * half - 1
      BY <1>1, <1>3 DEF TypeRange, Smallest
    <3> HIDE DEF half, wide
    <3> QED
      BY <1>1, <3>1
  <2> QED
    BY <1>1, <2>1, WrappedInRange
<1>4. Wrapped(x, WideBits) \in Int
  <2>1. Wrapped(x, WideBits) \in -wide..wide - 1
    BY <1>1, WrappedType
  <2> QED
    BY <1>1, <2>1
<1> QED
  BY <1>2, <1>3, <1>4 DEF Builtin

\* ... and what is in range is expected as it is.
LEMMA TypedInRange ==
    ASSUME NEW t \in Types, ~IsHugeint(t), NEW x \in TypeRange(t)
    PROVE  MakeTyped(x, t) = ValueOf(x)
<1> DEFINE half == Power(2, t.bits - 1)
<1>1. /\ half \in Nat \ {0} /\ Power(2, t.bits) = 2 * half
      /\ t.signed \in BOOLEAN /\ t.bits \in Nat \ {0}
  BY Widths
<1>2. CASE t.signed
  <2>1. x \in Int /\ -half <= x /\ x <= half - 1
    BY <1>1, <1>2 DEF TypeRange, Smallest
  <2>2. Wrapped(x, t.bits) = x
    BY <1>1, <2>1, WrappedInRange
  <2> QED
    BY <1>2, <2>2 DEF MakeTyped
<1>3. CASE ~t.signed
  <2>1. x \in Nat /\ x < 2 * half
    BY <1>1, <1>3 DEF TypeRange, Smallest
  <2> HIDE DEF half
  <2>2. x % (2 * half) = x
    BY <1>1, <2>1
  <2> QED
    BY <1>1, <1>3, <2>2 DEF MakeTyped, half
<1> QED
  BY <1>1, <1>2, <1>3

\* Of HUGEINT the value of an __int128 that is not one counts as out of range.
LEMMA HugeintErrorsExpected ==
    ASSUME NEW t \in Types, IsHugeint(t), NEW x \in Int
    PROVE  /\ Builtin(x).overflow \/ Builtin(x).exact < Smallest(t) <=> x \notin TypeRange(t)
           /\ x \in TypeRange(t) => Builtin(x).exact = x
<1> DEFINE wide == Power(2, WideBits - 1)
<1>1. wide \in Nat \ {0} /\ Power(2, t.bits - 1) = wide /\ t.signed /\ WideBits \in Nat \ {0}
  BY Widths
<1>2. TypeRange(t) = 1 - wide..wide - 1 /\ Smallest(t) = 1 - wide
  BY <1>1 DEF TypeRange, Smallest
<1>3. Wrapped(x, WideBits) \in -wide..wide - 1
  BY <1>1, WrappedType
<1>4. -wide <= x /\ x <= wide - 1 => Wrapped(x, WideBits) = x
  BY <1>1, WrappedInRange
<1> DEFINE y == Wrapped(x, WideBits)
<1>5. Builtin(x).exact = y /\ (Builtin(x).overflow <=> y # x)
  BY DEF Builtin
<1> HIDE DEF wide, y
<1>6. y \in Int /\ -wide <= y /\ y <= wide - 1 /\ (-wide <= x /\ x <= wide - 1 => y = x)
  BY <1>1, <1>3, <1>4 DEF y
<1>7. x \in TypeRange(t) <=> 1 - wide <= x /\ x <= wide - 1
  BY <1>1, <1>2
<1> QED
  BY <1>1, <1>2, <1>5, <1>6, <1>7

-----------------------------------------------------------------------------
\* A quotient and a remainder are unique.
LEMMA DivisionIsUnique ==
    ASSUME NEW a \in Nat, NEW m \in Nat \ {0}, NEW k \in Nat, k * m <= a, a < k * m + m
    PROVE  a \div m = k
<1> DEFINE r == a - k * m
<1>1. r \in 0..m - 1 /\ a = k * m + r
  BY DEF r
<1> HIDE DEF r
<1> QED
  BY <1>1

\* What a division of natural numbers leaves.
LEMMA DivisionBounds ==
    ASSUME NEW a \in Nat, NEW m \in Nat \ {0}
    PROVE  /\ a \div m \in Nat
           /\ (a \div m) * m <= a
           /\ a < (a \div m) * m + m
<1>1. a = m * (a \div m) + (a % m) /\ a % m \in 0..m - 1 /\ a \div m \in Nat
  OBVIOUS
<1> QED
  BY <1>1

\* Absolute values, also of a product.
LEMMA AbsFacts ==
    ASSUME NEW x \in Int, NEW y \in Int
    PROVE  /\ AbsOf(x) \in Nat /\ (AbsOf(x) = 0 <=> x = 0)
           /\ AbsOf(x * y) = AbsOf(x) * AbsOf(y)
           /\ (x < 0 => AbsOf(x) = -x) /\ (x >= 0 => AbsOf(x) = x)
<1>1. /\ (x < 0 => AbsOf(x) = -x) /\ (x >= 0 => AbsOf(x) = x)
      /\ (y < 0 => AbsOf(y) = -y) /\ (y >= 0 => AbsOf(y) = y)
      /\ (x * y < 0 => AbsOf(x * y) = -(x * y)) /\ (x * y >= 0 => AbsOf(x * y) = x * y)
  BY DEF AbsOf
<1>2. AbsOf(x * y) = AbsOf(x) * AbsOf(y)
  <2>1. CASE x >= 0 /\ y >= 0
    BY <1>1, <2>1
  <2>2. CASE x >= 0 /\ y < 0
    BY <1>1, <2>2
  <2>3. CASE x < 0 /\ y >= 0
    BY <1>1, <2>3
  <2>4. CASE x < 0 /\ y < 0
    BY <1>1, <2>4
  <2> QED
    BY <2>1, <2>2, <2>3, <2>4
<1> QED
  BY <1>1, <1>2

\* What division is to answer is the number that C++ computes.
LEMMA QuotientIsCDiv ==
    ASSUME NEW x \in Int, NEW y \in Int, y # 0
    PROVE  /\ Quotient(x, y) = CDiv(x, y)
           /\ CDiv(x, y) \in Int
           /\ AbsOf(CDiv(x, y)) = AbsOf(x) \div AbsOf(y)
<1> DEFINE a == AbsOf(x)
           m == AbsOf(y)
           IsQuotient(q) ==
               /\ AbsOf(q * y) <= AbsOf(x)
               /\ AbsOf(x) < AbsOf(q * y) + AbsOf(y)
               /\ q # 0 => (q > 0 <=> (x > 0 <=> y > 0))
           k == a \div m
<1>1. a \in Nat /\ m \in Nat \ {0}
  BY AbsFacts
<1>2. k \in Nat /\ k * m <= a /\ a < k * m + m
  BY <1>1, DivisionBounds
<1>3. k <= a
  <2>1. k <= k * m
    BY <1>1, <1>2
  <2> QED
    BY <1>1, <1>2, <2>1
<1>4. CDiv(x, y) = IF (x < 0) = (y < 0) THEN k ELSE -k
  BY DEF CDiv
<1>5. k # 0 => x # 0
  BY <1>1, <1>2, <1>3, AbsFacts
<1>6. CDiv(x, y) \in -a..a /\ CDiv(x, y) \in Int /\ AbsOf(CDiv(x, y)) = k
  <2>1. CDiv(x, y) = k \/ CDiv(x, y) = -k
    BY <1>4
  <2> HIDE DEF a, k
  <2> QED
    BY <1>1, <1>2, <1>3, <2>1 DEF AbsOf
<1>7. IsQuotient(CDiv(x, y))
  <2>1. AbsOf(CDiv(x, y) * y) = k * m
    BY <1>6, AbsFacts
  <2>2. CDiv(x, y) # 0 => (CDiv(x, y) > 0 <=> (x > 0 <=> y > 0))
    BY <1>2, <1>4, <1>5
  <2> QED
    BY <1>2, <2>1, <2>2
<1>8. ASSUME NEW q \in -a..a, IsQuotient(q) PROVE q = CDiv(x, y)
  <2>1. q \in Int /\ AbsOf(q) \in Nat /\ AbsOf(q * y) = AbsOf(q) * m
    BY <1>1, AbsFacts
  <2>2. AbsOf(q) * m <= a /\ a < AbsOf(q) * m + m
    BY <1>8, <2>1
  <2>3. AbsOf(q) = k
    BY <1>1, <2>1, <2>2, DivisionIsUnique
  <2>4. q = k \/ q = -k
    BY <2>1, <2>3 DEF AbsOf
  <2>5. CASE k = 0
    BY <1>4, <2>4, <2>5
  <2>6. CASE k # 0
    <3>1. q # 0 /\ x # 0
      BY <1>2, <1>5, <2>4, <2>6
    <3>2. q > 0 <=> (x > 0 <=> y > 0)
      BY <1>8, <3>1
    <3> QED
      BY <1>2, <1>4, <2>4, <2>6, <3>1, <3>2
  <2> QED
    BY <2>5, <2>6
<1> HIDE DEF IsQuotient
<1>9. Quotient(x, y) = CHOOSE q \in -a..a : IsQuotient(q)
  BY DEF Quotient, IsQuotient
<1>10. Quotient(x, y) = CDiv(x, y)
  BY <1>6, <1>7, <1>8, <1>9
<1> QED
  BY <1>6, <1>10

-----------------------------------------------------------------------------
\* A remainder has the sign of the dividend and is smaller than the divisor.
LEMMA RemaindersAreSmall ==
    ASSUME NEW x \in Int, NEW y \in Int, y # 0
    PROVE  /\ CMod(x, y) \in Int
           /\ CMod(x, y) < AbsOf(y) /\ -AbsOf(y) < CMod(x, y)
<1> DEFINE a == AbsOf(x)
           m == AbsOf(y)
           k == a \div m
<1>1. a \in Nat /\ m \in Nat \ {0}
  BY AbsFacts
<1>2. k \in Nat /\ k * m <= a /\ a < k * m + m
  BY <1>1, DivisionBounds
<1>3. CDiv(x, y) = IF (x < 0) = (y < 0) THEN k ELSE -k
  BY DEF CDiv
<1>4. (x < 0 => a = -x) /\ (x >= 0 => a = x) /\ (y < 0 => m = -y) /\ (y >= 0 => m = y)
  BY AbsFacts
<1> HIDE DEF a, m, k
<1>5. y * CDiv(x, y) = IF x < 0 THEN -(k * m) ELSE k * m
  <2>1. CASE x < 0 /\ y < 0
    BY <1>1, <1>2, <1>3, <1>4, <2>1
  <2>2. CASE x < 0 /\ y >= 0
    BY <1>1, <1>2, <1>3, <1>4, <2>2
  <2>3. CASE x >= 0 /\ y < 0
    BY <1>1, <1>2, <1>3, <1>4, <2>3
  <2>4. CASE x >= 0 /\ y >= 0
    BY <1>1, <1>2, <1>3, <1>4, <2>4
  <2> QED
    BY <2>1, <2>2, <2>3, <2>4
<1>6. k * m \in Nat
  BY <1>1, <1>2
<1> DEFINE p == k * m
<1> HIDE DEF p
<1>7. CMod(x, y) = x - IF x < 0 THEN -p ELSE p
  BY <1>5 DEF CMod, p
<1>8. p \in Nat /\ p <= a /\ a < p + m
  BY <1>2, <1>6 DEF p
<1>9. CMod(x, y) \in Int /\ CMod(x, y) < m /\ -m < CMod(x, y)
  BY <1>1, <1>4, <1>7, <1>8
<1> QED
  BY <1>9 DEF m

\* In a signed type only the smallest value divided by -1 has a quotient out of range.
LEMMA QuotientsInRange ==
    ASSUME NEW t \in Types, t.signed, NEW x \in TypeRange(t), NEW y \in TypeRange(t), y # 0
    PROVE  /\ CDiv(x, y) \in Int
           /\ ~(x = Smallest(t) /\ y = -1) => CDiv(x, y) \in TypeRange(t)
           /\ ~IsHugeint(t) => (InRange(CDiv(x, y), t) <=> ~(x = Smallest(t) /\ y = -1))
           /\ CMod(x, y) \in TypeRange(t)
<1> DEFINE half == Power(2, t.bits - 1)
           a == AbsOf(x)
           m == AbsOf(y)
           q == CDiv(x, y)
           k == a \div m
<1>1. half \in Nat \ {0} /\ TypeRange(t) = Smallest(t)..half - 1 /\ Smallest(t) \in {-half, 1 - half}
      /\ (~IsHugeint(t) => Smallest(t) = -half)
  BY Widths DEF TypeRange, Smallest
<1>2. x \in Int /\ y \in Int
  BY <1>1
<1>3. a \in Nat /\ m \in Nat \ {0} /\ k \in Nat /\ k * m <= a /\ AbsOf(q) = k /\ q \in Int
  BY <1>2, AbsFacts, DivisionBounds, QuotientIsCDiv
<1>4. /\ (x < 0 => a = -x) /\ (x >= 0 => a = x) /\ (y < 0 => m = -y) /\ (y >= 0 => m = y)
      /\ (q < 0 => k = -q) /\ (q >= 0 => k = q)
  BY <1>2, <1>3, AbsFacts
<1>5. CMod(x, y) \in Int /\ CMod(x, y) < m /\ -m < CMod(x, y)
  BY <1>2, RemaindersAreSmall
<1>6. q = IF (x < 0) = (y < 0) THEN k ELSE -k
  BY DEF CDiv
<1>7. m = 1 => k = a
  <2>1. \A n \in Nat : n \div 1 = n
    OBVIOUS
  <2> QED
    BY <1>3, <2>1
<1>8. InRange(q, t) <=> -half <= q /\ q <= half - 1
  BY DEF InRange
<1> HIDE DEF half, a, m, q, k
<1>9. CMod(x, y) \in TypeRange(t)
  <2>1. m <= half
    BY <1>1, <1>2, <1>4
  <2> QED
    BY <1>1, <1>3, <1>5, <2>1
<1>10. /\ ~(x = Smallest(t) /\ y = -1) => q \in TypeRange(t)
       /\ ~IsHugeint(t) => (InRange(q, t) <=> ~(x = Smallest(t) /\ y = -1))
  <2>1. CASE m = 1
    <3>1. k = a /\ (y = 1 \/ y = -1)
      BY <1>2, <1>4, <1>7, <2>1
    <3>2. CASE y = 1
      <4>1. q = x
        BY <1>2, <1>4, <1>6, <3>1, <3>2
      <4> QED
        BY <1>1, <1>2, <1>8, <3>2, <4>1
    <3>3. CASE y = -1
      <4>1. q = -x
        BY <1>2, <1>3, <1>4, <1>6, <3>1, <3>3
      <4> QED
        BY <1>1, <1>2, <1>8, <3>3, <4>1
    <3> QED
      BY <3>1, <3>2, <3>3
  <2>2. CASE m # 1
    <3>1. 2 * k <= a
      <4>1. m >= 2
        BY <1>3, <2>2
      <4>2. k * 2 <= k * m
        BY <1>3, <4>1
      <4> QED
        BY <1>3, <4>2
    <3>2. a <= half
      BY <1>1, <1>2, <1>4
    <3>3. k <= half - 1
      BY <1>1, <1>3, <3>1, <3>2
    <3>4. -half < q /\ q <= half - 1
      BY <1>1, <1>3, <1>4, <3>3
    <3>5. y # -1
      BY <1>4, <2>2
    <3> QED
      BY <1>1, <1>3, <1>8, <3>4, <3>5
  <2> QED
    BY <2>1, <2>2
<1> QED
  BY <1>3, <1>9, <1>10 DEF q

-----------------------------------------------------------------------------
\* A number of two digits, i and r, is below the product of their units.
LEMMA Below ==
    ASSUME NEW u \in Nat \ {0}, NEW v \in Nat \ {0}, NEW i \in 0..v - 1, NEW r \in 0..u - 1
    PROVE  i * u + r \in 0..u * v - 1
<1>1. i * u \in Nat /\ u * v \in Nat
  OBVIOUS
<1>2. i * u <= (v - 1) * u
  OBVIOUS
<1>3. (v - 1) * u = u * v - u
  OBVIOUS
<1> QED
  BY <1>1, <1>2, <1>3

\* A loop can be cut in two.
LEMMA PowersAdd ==
    ASSUME NEW b \in Nat, NEW m \in Nat, NEW n \in Nat
    PROVE  Power(b, m + n) = Power(b, m) * Power(b, n)
<1>1. \A k \in Nat : Power(b, k) \in Nat /\ Power(b, k + 1) = b * Power(b, k)
  BY PowerSteps
<1> DEFINE S == {k \in Nat : Power(b, m + k) = Power(b, m) * Power(b, k)}
<1>2. 0 \in S
  <2>1. Power(b, 0) = 1 /\ m + 0 = m
    BY PowerSteps
  <2> QED
    BY <1>1, <2>1
<1>3. ASSUME NEW k \in Nat, k \in S PROVE k + 1 \in S
  <2>1. m + (k + 1) = (m + k) + 1 /\ m + k \in Nat
    OBVIOUS
  <2>2. Power(b, m + (k + 1)) = b * Power(b, m + k)
    BY <1>1, <2>1
  <2>3. Power(b, m + k) = Power(b, m) * Power(b, k) /\ Power(b, k + 1) = b * Power(b, k)
    BY <1>1, <1>3
  <2>4. b * (Power(b, m) * Power(b, k)) = Power(b, m) * (b * Power(b, k))
    BY <1>1
  <2> QED
    BY <2>2, <2>3, <2>4
<1> HIDE DEF S
<1>4. n \in S
  BY <1>2, <1>3, InductionOverSet
<1> QED
  BY <1>4 DEF S

\* Dividing twice.
LEMMA NestedDivision ==
    ASSUME NEW u \in Nat, NEW p \in Nat \ {0}, NEW q \in Nat \ {0}
    PROVE  (u \div p) \div q = u \div (q * p)
<1> DEFINE v == u \div p
           k == v \div q
<1>1. v \in Nat /\ v * p <= u /\ u < v * p + p
  BY DivisionBounds
<1> HIDE DEF v
<1>2. k \in Nat /\ k * q <= v /\ v < k * q + q
  BY <1>1, DivisionBounds
<1> HIDE DEF k
<1>3. k * q \in Nat /\ q * p \in Nat \ {0} /\ k * (q * p) = (k * q) * p
  BY <1>2
<1>4. (k * q) * p <= v * p
  BY <1>1, <1>2, <1>3
<1>5. (v + 1) * p <= (k * q + q) * p
  BY <1>1, <1>2, <1>3
<1>6. (v + 1) * p = v * p + p /\ (k * q + q) * p = (k * q) * p + q * p
  BY <1>1, <1>3
<1>7. k * (q * p) <= u /\ u < k * (q * p) + q * p
  <2> DEFINE a == v * p
             b == (k * q) * p
             c == q * p
  <2>1. a \in Nat /\ b \in Nat /\ c \in Nat /\ b <= a /\ a + p <= b + c /\ a <= u /\ u < a + p /\ k * c = b
    BY <1>1, <1>2, <1>3, <1>4, <1>5, <1>6
  <2> HIDE DEF a, b, c
  <2>2. b <= u /\ u < b + c
    BY <2>1
  <2> QED
    BY <2>1, <2>2 DEF c
<1>8. u \div (q * p) = k
  BY <1>2, <1>3, <1>7, DivisionIsUnique
<1> QED
  BY <1>8 DEF k, v

\* Quotient and remainder make up the number.
LEMMA RestBounds ==
    ASSUME NEW u \in Nat, NEW p \in Nat \ {0}
    PROVE  u = p * (u \div p) + (u % p) /\ u % p \in 0..p - 1 /\ u \div p \in Nat
OBVIOUS

\* The digit of u before which there are j others.
Digit(b, u, j) == (u \div Power(b, j)) % b

\* What is left by a division by a power, one digit longer.
LEMMA RestGrows ==
    ASSUME NEW b \in Nat \ {0}, NEW u \in Nat, NEW j \in Nat
    PROVE  u % Power(b, j + 1) = Digit(b, u, j) * Power(b, j) + (u % Power(b, j))
<1> DEFINE p == Power(b, j)
           v == u \div p
           r == u % p
           d == v % b
           k == v \div b
<1>1. p \in Nat \ {0} /\ Power(b, j + 1) = b * p
  BY PowersGrow, PowerSteps
<1> HIDE DEF p
<1>2. u = p * v + r /\ r \in 0..p - 1 /\ v \in Nat
  BY <1>1, RestBounds
<1> HIDE DEF v, r
<1>3. v = b * k + d /\ d \in 0..b - 1 /\ k \in Nat
  BY <1>2, RestBounds
<1>4. d = Digit(b, u, j)
  BY DEF Digit, d, v, p
<1> HIDE DEF d, k
<1> DEFINE m == b * p
           s == d * p + r
<1>5. m \in Nat \ {0}
  BY <1>1
<1>6. s \in 0..m - 1
  <2>1. d * p + r \in 0..p * b - 1
    BY <1>1, <1>2, <1>3, Below
  <2>2. p * b = b * p
    BY <1>1
  <2> QED
    BY <2>1, <2>2
<1>7. u = k * m + s
  <2>1. p * v = p * (b * k) + p * d
    BY <1>1, <1>3
  <2>2. p * (b * k) = k * (b * p) /\ p * d = d * p
    BY <1>1, <1>3
  <2>3. k * (b * p) \in Nat /\ d * p \in Nat
    BY <1>1, <1>3
  <2> QED
    BY <1>2, <2>1, <2>2, <2>3
<1> HIDE DEF m, s
<1>8. u % m = s
  BY <1>3, <1>5, <1>6, <1>7
<1> QED
  BY <1>1, <1>4, <1>8 DEF m, s, p, r

\* The digits determine the number.
LEMMA SameDigits ==
    ASSUME NEW b \in Nat \ {0}, NEW u \in Nat, NEW v \in Nat, NEW n \in Nat,
           \A j \in 0..n - 1 : Digit(b, u, j) = Digit(b, v, j)
    PROVE  u % Power(b, n) = v % Power(b, n)
<1> DEFINE S == {j \in Nat : j <= n => u % Power(b, j) = v % Power(b, j)}
<1>1. 0 \in S
  <2>1. Power(b, 0) = 1
    BY PowerSteps
  <2>2. u % 1 = 0 /\ v % 1 = 0
    OBVIOUS
  <2> QED
    BY <2>1, <2>2
<1>2. ASSUME NEW j \in Nat, j \in S PROVE j + 1 \in S
  <2> SUFFICES ASSUME j + 1 <= n PROVE u % Power(b, j + 1) = v % Power(b, j + 1)
    OBVIOUS
  <2>1. j \in 0..n - 1 /\ u % Power(b, j) = v % Power(b, j)
    BY <1>2
  <2>2. Digit(b, u, j) = Digit(b, v, j)
    BY <2>1
  <2>3. /\ u % Power(b, j + 1) = Digit(b, u, j) * Power(b, j) + (u % Power(b, j))
        /\ v % Power(b, j + 1) = Digit(b, v, j) * Power(b, j) + (v % Power(b, j))
    BY RestGrows
  <2> QED
    BY <2>1, <2>2, <2>3
<1> HIDE DEF S
<1>3. n \in S
  BY <1>1, <1>2, InductionOverSet
<1> QED
  BY <1>3 DEF S

\* What is smaller than the divisor is the remainder.
LEMMA SmallRest ==
    ASSUME NEW u \in Nat, NEW p \in Nat \ {0}, u < p
    PROVE  u % p = u /\ u \div p = 0
OBVIOUS

\* A digit of a quotient is one of the number.
LEMMA DigitOfQuotient ==
    ASSUME NEW b \in Nat \ {0}, NEW u \in Nat, NEW s \in Nat, NEW j \in Nat
    PROVE  Digit(b, u \div Power(b, s), j) = Digit(b, u, s + j)
<1>1. Power(b, s) \in Nat \ {0} /\ Power(b, j) \in Nat \ {0}
  BY PowersGrow
<1>2. Power(b, s + j) = Power(b, s) * Power(b, j)
  BY PowersAdd
<1>3. Power(b, s) * Power(b, j) = Power(b, j) * Power(b, s)
  BY <1>1
<1>4. (u \div Power(b, s)) \div Power(b, j) = u \div (Power(b, j) * Power(b, s))
  BY <1>1, NestedDivision
<1> QED
  BY <1>2, <1>3, <1>4 DEF Digit

\* How many digits a number has.
HasLength(b, u, n) == u < Power(b, n) /\ (n > 1 => u >= Power(b, n - 1))

\* Every number has a length, ...
LEMMA LengthExists ==
    ASSUME NEW b \in Nat \ {0}, NEW u \in Nat, NEW N \in Nat \ {0}, u < Power(b, N)
    PROVE  \E n \in 1..N : HasLength(b, u, n)
<1> DEFINE T == {n \in Nat : n >= 1 /\ u < Power(b, n)}
<1>1. N \in T /\ T \in SUBSET Nat /\ T # {}
  OBVIOUS
<1>2. PICK n \in T : \A m \in T : n <= m
  BY <1>1, LeastElement
<1>3. n \in 1..N /\ u < Power(b, n)
  BY <1>1, <1>2
<1>4. ASSUME n > 1 PROVE u >= Power(b, n - 1)
  <2>1. n - 1 \in Nat /\ n - 1 >= 1 /\ ~(n <= n - 1)
    BY <1>3, <1>4
  <2>2. ~(u < Power(b, n - 1))
    BY <1>2, <2>1
  <2>3. Power(b, n - 1) \in Nat
    BY <2>1, PowersGrow
  <2> QED
    BY <2>2, <2>3
<1> QED
  BY <1>3, <1>4 DEF HasLength

\* ... and only one.
LEMMA LengthIsUnique ==
    ASSUME NEW b \in Nat \ {0}, NEW u \in Nat, NEW m \in Nat \ {0}, NEW n \in Nat \ {0},
           HasLength(b, u, m), HasLength(b, u, n)
    PROVE  m = n
<1>1. ASSUME NEW i \in Nat \ {0}, NEW j \in Nat \ {0}, HasLength(b, u, i), HasLength(b, u, j), i < j
      PROVE  FALSE
  <2>1. i <= j - 1 /\ j - 1 \in Nat /\ j > 1
    BY <1>1
  <2>2. Power(b, i) <= Power(b, j - 1) /\ Power(b, i) \in Nat
    BY <2>1, PowersGrow
  <2>3. Power(b, j - 1) \in Nat
    BY <2>1, PowersGrow
  <2> QED
    BY <1>1, <2>1, <2>2, <2>3 DEF HasLength
<1>2. ~(m < n) /\ ~(n < m)
  BY <1>1
<1> QED
  BY <1>2

-----------------------------------------------------------------------------
\* DuckDB has answered what arithmetic says.
AnsweredRight == answer = RightAnswer(case) /\ (case.op = "//" => modAnswer \in RightModulos(case))

\* A case goes through with nothing wrong until it is answered; then whether it was is known
\* from the answers that are checked, and the setting is on only while it is asked for.
IntegersInv ==
    /\ pc \in {"idle", "run", "check", "null", "reset", "check null"}
    /\ wrong \in BOOLEAN /\ nullOnZero \in BOOLEAN
    /\ nullOnZero <=> pc \in {"null", "reset"}
    /\ pc # "idle" => case \in Cases /\ outcome = "none"
    /\ pc \in {"run", "null"} => ~wrong
    /\ pc \in {"null", "reset", "check null"} => case.op = "//" /\ case.b = 0
    /\ pc = "check" =>
        /\ answer \in Answers(case.type)
        /\ case.op = "//" => modAnswer \in Answers(case.type)
        /\ wrong <=> ~AnsweredRight
    /\ pc \in {"reset", "check null"} => (wrong <=> ~(answer = Null /\ modAnswer = Null))
    /\ AlarmsAreTrue
    /\ WrongAnswersAreFound

-----------------------------------------------------------------------------
\* The parts of a case are of its type.
LEMMA CaseType ==
    ASSUME NEW c \in Cases
    PROVE  /\ c.type \in Types /\ c.op \in OperatorsOf(c.type) /\ c.op \in Operators
           /\ c.a \in TypeRange(c.type) /\ c.b \in TypeRange(c.type)
           /\ c.a \in Int /\ c.b \in Int
           /\ c.op \in {"neg", "abs", "//"} => c.type.signed
<1>1. PICK t \in Types : c \in [type : {t}, op : OperatorsOf(t), a : TypeRange(t), b : TypeRange(t)]
  BY DEF Cases
<1>2. c.type = t /\ c.op \in OperatorsOf(t) /\ c.a \in TypeRange(t) /\ c.b \in TypeRange(t)
  BY <1>1
<1>3. c.op \in Operators
  BY <1>2 DEF OperatorsOf, Operators
<1>4. TypeRange(t) \subseteq Int
  <2>1. /\ Power(2, t.bits - 1) \in Int /\ Power(2, t.bits) \in Int
    BY Widths
  <2> QED
    BY <2>1 DEF TypeRange, Smallest
<1>5. c.op \in {"neg", "abs", "//"} => t.signed
  BY <1>2, Widths DEF OperatorsOf, BinaryOperators
<1> QED
  BY <1>2, <1>3, <1>4, <1>5

\* An answer is an error, NULL or a value of the type.
LEMMA AnswerKinds ==
    ASSUME NEW t, NEW got \in Answers(t)
    PROVE  got.kind = "error" <=> got = Error
BY DEF Answers, Error, Null, ValueOf

\* What is accepted is the answer that is exact.
LEMMA AcceptsExact ==
    ASSUME NEW got \in Answers(case.type), case.type \in Types, ~IsHugeint(case.type),
           NEW x \in Int, NEW expectError \in BOOLEAN, expectError <=> x \notin TypeRange(case.type)
    PROVE  Accepts(got, expectError, x) <=> got = Exactly(case.type, x)
<1>1. CASE expectError
  BY <1>1, AnswerKinds DEF Accepts, Exactly
<1>2. CASE ~expectError
  <2>1. MakeTyped(x, case.type) = ValueOf(x) /\ Exactly(case.type, x) = ValueOf(x)
    BY <1>2, TypedInRange DEF Exactly
  <2>2. ValueOf(x).kind # "error"
    BY DEF ValueOf
  <2> QED
    BY <1>2, <2>1, <2>2 DEF Accepts
<1> QED
  BY <1>1, <1>2

\* The oracle computes the result that the answer is about.
LEMMA OracleComputes ==
    ASSUME NEW c \in Cases, c.op # "//"
    PROVE  \E x \in Int : Oracle(c) = Builtin(x) /\ RightAnswer(c) = Exactly(c.type, x)
<1>1. c.op \in {"+", "-", "*", "neg", "abs"} /\ c.a \in Int /\ c.b \in Int
  BY CaseType DEF Operators, BinaryOperators
<1>2. CASE c.op = "+"
  <2>1. c.a + c.b \in Int /\ Oracle(c) = Builtin(c.a + c.b) /\ RightAnswer(c) = Exactly(c.type, c.a + c.b)
    BY <1>1, <1>2 DEF Oracle, RightAnswer
  <2> QED
    BY <2>1
<1>3. CASE c.op = "-"
  <2>1. c.a - c.b \in Int /\ Oracle(c) = Builtin(c.a - c.b) /\ RightAnswer(c) = Exactly(c.type, c.a - c.b)
    BY <1>1, <1>3 DEF Oracle, RightAnswer
  <2> QED
    BY <2>1
<1>4. CASE c.op = "*"
  <2>1. c.a * c.b \in Int /\ Oracle(c) = Builtin(c.a * c.b) /\ RightAnswer(c) = Exactly(c.type, c.a * c.b)
    BY <1>1, <1>4 DEF Oracle, RightAnswer
  <2> QED
    BY <2>1
<1>5. CASE c.op = "neg"
  <2>1. -c.a \in Int /\ Oracle(c) = Builtin(-c.a) /\ RightAnswer(c) = Exactly(c.type, -c.a)
    BY <1>1, <1>5 DEF Oracle, RightAnswer
  <2> QED
    BY <2>1
<1>6. CASE c.op = "abs"
  <2> DEFINE x == IF c.a < 0 THEN -c.a ELSE c.a
  <2>1. x \in Int /\ Oracle(c) = Builtin(x) /\ RightAnswer(c) = Exactly(c.type, x)
    BY <1>1, <1>6 DEF Oracle, RightAnswer
  <2> QED
    BY <2>1
<1> QED
  BY <1>1, <1>2, <1>3, <1>4, <1>5, <1>6

\* The verdicts of the checks.
LEMMA OpVerdict ==
    ASSUME case \in Cases, answer \in Answers(case.type), case.op # "//", ~IsHugeint(case.type),
           NEW expectError, expectError = (Oracle(case).overflow \/ ~InRange(Oracle(case).exact, case.type))
    PROVE  Accepts(answer, expectError, Oracle(case).exact) <=> AnsweredRight
<1>1. PICK x \in Int : Oracle(case) = Builtin(x) /\ RightAnswer(case) = Exactly(case.type, x)
  BY OracleComputes
<1>2. case.type \in Types
  BY CaseType
<1>3. /\ expectError <=> x \notin TypeRange(case.type)
      /\ x \in TypeRange(case.type) => Builtin(x).exact = x
      /\ expectError \in BOOLEAN
  BY <1>1, <1>2, ErrorsExpected
<1>4. Accepts(answer, expectError, x) <=> answer = Exactly(case.type, x)
  BY <1>2, <1>3, AcceptsExact
<1>5. Accepts(answer, expectError, Oracle(case).exact) <=> Accepts(answer, expectError, x)
  BY <1>1, <1>3 DEF Accepts
<1> QED
  BY <1>1, <1>4, <1>5 DEF AnsweredRight

\* Also of a HUGEINT the check accepts exactly the right answer.
LEMMA HugeintOpVerdict ==
    ASSUME case \in Cases, answer \in Answers(case.type), case.op # "//", IsHugeint(case.type),
           NEW overflow, overflow = (Oracle(case).overflow \/ Oracle(case).exact < Smallest(case.type))
    PROVE  /\ (overflow <=> answer.kind = "error")
           /\ (answer.kind # "error" => answer = ValueOf(Oracle(case).exact))
           <=> AnsweredRight
<1>1. PICK x \in Int : Oracle(case) = Builtin(x) /\ RightAnswer(case) = Exactly(case.type, x)
  BY OracleComputes
<1>2. case.type \in Types
  BY CaseType
<1>3. /\ overflow <=> x \notin TypeRange(case.type)
      /\ x \in TypeRange(case.type) => Oracle(case).exact = x
  BY <1>1, <1>2, HugeintErrorsExpected
<1>4. answer.kind = "error" <=> answer = Error
  BY AnswerKinds
<1>5. AnsweredRight <=> answer = Exactly(case.type, x)
  BY <1>1 DEF AnsweredRight
<1>6. ValueOf(x).kind # "error" /\ Error.kind = "error"
  BY DEF ValueOf, Error
<1>7. CASE overflow
  BY <1>3, <1>4, <1>5, <1>6, <1>7 DEF Exactly
<1>8. CASE ~overflow
  <2>1. Exactly(case.type, x) = ValueOf(x) /\ Oracle(case).exact = x
    BY <1>3, <1>8 DEF Exactly
  <2> QED
    BY <1>4, <1>5, <1>6, <1>8, <2>1
<1> QED
  BY <1>3, <1>7, <1>8

-----------------------------------------------------------------------------
\* Division by anything but zero, while the issue is open that the property asserts.
LEMMA QuotientVerdict ==
    ASSUME ModuloIssueOpen, case \in Cases, case.op = "//", case.b # 0, ~IsHugeint(case.type),
           answer \in Answers(case.type), modAnswer \in Answers(case.type),
           NEW expectError, expectError = ~InRange(CDiv(case.a, case.b), case.type)
    PROVE  /\ Accepts(answer, expectError, CDiv(case.a, case.b))
           /\ Accepts(modAnswer, expectError, CMod(case.a, case.b))
           <=> AnsweredRight
<1> DEFINE t == case.type
           q == CDiv(case.a, case.b)
           r == CMod(case.a, case.b)
<1>1. t \in Types /\ t.signed /\ case.a \in TypeRange(t) /\ case.b \in TypeRange(t) /\ case.a \in Int /\ case.b \in Int
  BY CaseType
<1>2. /\ q \in Int
      /\ expectError <=> SmallestByMinusOne(case)
      /\ ~expectError => q \in TypeRange(t)
      /\ r \in TypeRange(t)
  BY <1>1, QuotientsInRange DEF SmallestByMinusOne
<1>3. Quotient(case.a, case.b) = q /\ case.a - case.b * Quotient(case.a, case.b) = r
  BY <1>1, QuotientIsCDiv DEF CMod
<1>4. answer.kind = "error" <=> answer = Error
  BY AnswerKinds
<1>5. modAnswer.kind = "error" <=> modAnswer = Error
  BY AnswerKinds
<1>6. AnsweredRight <=> answer = RightAnswer(case) /\ modAnswer \in RightModulos(case)
  BY DEF AnsweredRight
<1>7. CASE expectError
  <2>1. RightAnswer(case) = Error /\ RightModulos(case) = {Error}
    BY <1>2, <1>7 DEF RightAnswer, RightModulos
  <2> QED
    BY <1>4, <1>5, <1>6, <1>7, <2>1 DEF Accepts
<1>8. CASE ~expectError
  <2>1. RightAnswer(case) = Exactly(t, q) /\ RightModulos(case) = {ValueOf(r)}
    BY <1>2, <1>3, <1>8 DEF RightAnswer, RightModulos
  <2>2. Exactly(t, q) = ValueOf(q)
    BY <1>2, <1>8 DEF Exactly
  <2>3. MakeTyped(q, t) = ValueOf(q) /\ MakeTyped(r, t) = ValueOf(r)
    BY <1>1, <1>2, <1>8, TypedInRange
  <2>4. ValueOf(q).kind # "error" /\ ValueOf(r).kind # "error"
    BY DEF ValueOf
  <2> QED
    BY <1>6, <1>8, <2>1, <2>2, <2>3, <2>4 DEF Accepts
<1> QED
  BY <1>7, <1>8

\* The same of HUGEINT, whose smallest value is not that of an __int128.
LEMMA HugeintQuotientVerdict ==
    ASSUME ModuloIssueOpen, case \in Cases, case.op = "//", case.b # 0, IsHugeint(case.type),
           answer \in Answers(case.type), modAnswer \in Answers(case.type),
           NEW overflow, overflow = (case.b = -1 /\ case.a = Smallest(case.type))
    PROVE  /\ (overflow <=> answer.kind = "error")
           /\ (~overflow => answer = ValueOf(CDiv(case.a, case.b)))
           /\ (IF modAnswer.kind = "error" THEN overflow ELSE modAnswer = ValueOf(CMod(case.a, case.b)))
           <=> AnsweredRight
<1> DEFINE t == case.type
           q == CDiv(case.a, case.b)
           r == CMod(case.a, case.b)
<1>1. t \in Types /\ t.signed /\ case.a \in TypeRange(t) /\ case.b \in TypeRange(t) /\ case.a \in Int /\ case.b \in Int
  BY CaseType
<1>2. /\ q \in Int
      /\ overflow <=> SmallestByMinusOne(case)
      /\ ~overflow => q \in TypeRange(t)
  BY <1>1, QuotientsInRange DEF SmallestByMinusOne
<1>3. Quotient(case.a, case.b) = q /\ case.a - case.b * Quotient(case.a, case.b) = r
  BY <1>1, QuotientIsCDiv DEF CMod
<1>4. answer.kind = "error" <=> answer = Error
  BY AnswerKinds
<1>5. modAnswer.kind = "error" <=> modAnswer = Error
  BY AnswerKinds
<1>6. AnsweredRight <=> answer = RightAnswer(case) /\ modAnswer \in RightModulos(case)
  BY DEF AnsweredRight
<1>7. ValueOf(q).kind # "error" /\ ValueOf(r).kind # "error"
  BY DEF ValueOf
<1>8. CASE overflow
  <2>1. RightAnswer(case) = Error /\ RightModulos(case) = {Error, ValueOf(0)}
    BY <1>2, <1>8 DEF RightAnswer, RightModulos
  <2>2. r = 0
    <3>1. case.b < 0 /\ case.b + 1 = 0 /\ case.b \in Int
      <4>1. case.b = -1
        BY <1>8
      <4>2. case.b \in Int
        BY <1>1
      <4> QED
        BY <4>1, <4>2
    <3>2. AbsOf(case.b) = 1
      <4>1. AbsOf(case.b) = -case.b
        BY <3>1, AbsFacts
      <4> QED
        BY <3>1, <4>1
    <3>3. r \in Int /\ r < 1 /\ -1 < r
      BY <1>1, <3>1, <3>2, RemaindersAreSmall
    <3> HIDE DEF r
    <3> QED
      BY <3>3
  <2> QED
    BY <1>4, <1>5, <1>6, <1>7, <1>8, <2>1, <2>2
<1>9. CASE ~overflow
  <2>1. RightAnswer(case) = Exactly(t, q) /\ RightModulos(case) = {ValueOf(r)}
    BY <1>2, <1>3, <1>9 DEF RightAnswer, RightModulos
  <2>2. Exactly(t, q) = ValueOf(q)
    BY <1>2, <1>9 DEF Exactly
  <2> QED
    BY <1>6, <1>7, <1>9, <2>1, <2>2
<1> QED
  BY <1>8, <1>9

-----------------------------------------------------------------------------
\* The invariant of the integers holds at first, ...
LEMMA IntegersInit == ArithmeticInit => IntegersInv
BY DEF ArithmeticInit, IntegersInv, AlarmsAreTrue, WrongAnswersAreFound

\* A case that ends with the verdict that it should.
LEMMA EndsRight ==
    ASSUME IntegersInv, pc \in {"check", "check null"}, NEW pass, Ends(pass), pass <=> ~wrong
    PROVE  IntegersInv'
<1>1. pc' = "idle" /\ wrong' = wrong /\ ~nullOnZero' /\ nullOnZero' \in BOOLEAN /\ wrong \in BOOLEAN
  BY DEF Ends, IntegersInv
<1>2. outcome' = IF pass THEN "pass" ELSE "fail"
  BY DEF Ends
<1>3. AlarmsAreTrue' /\ WrongAnswersAreFound'
  BY <1>1, <1>2 DEF AlarmsAreTrue, WrongAnswersAreFound
<1> QED
  BY <1>1, <1>3 DEF IntegersInv

\* A new case has nothing wrong in it yet.
LEMMA StartKeeps ==
    ASSUME IntegersInv, StartCase PROVE IntegersInv'
BY DEF StartCase, IntegersInv, AlarmsAreTrue, WrongAnswersAreFound

\* What was answered is compared with what is right, in the history variable.
LEMMA RunKeeps ==
    ASSUME IntegersInv, RunOp PROVE IntegersInv'
<1>1. pc = "run" /\ pc' = "check" /\ UNCHANGED <<case, nullOnZero, outcome>> /\ ~wrong /\ ~nullOnZero
      /\ case \in Cases /\ outcome = "none"
  BY DEF RunOp, Answer, IntegersInv
<1>2. RightAnswer(case)' = RightAnswer(case) /\ RightModulos(case)' = RightModulos(case)
  <2>1. SmallestByMinusOne(case)' = SmallestByMinusOne(case)
    BY <1>1 DEF SmallestByMinusOne
  <2>2. RightAnswer(case)' = RightAnswer(case)
    BY <1>1, <2>1 DEF RightAnswer
  <2> QED
    BY <1>1, <2>1, <2>2 DEF RightModulos
<1>3. /\ answer' \in Answers(case.type)
      /\ case.op = "//" => modAnswer' \in Answers(case.type)
      /\ wrong' \in BOOLEAN
      /\ wrong' <=> answer' # RightAnswer(case) \/ (case.op = "//" /\ modAnswer' \notin RightModulos(case))
  BY <1>1 DEF RunOp, Answer
<1>4. wrong' <=> ~AnsweredRight'
  BY <1>1, <1>2, <1>3 DEF AnsweredRight
<1> QED
  BY <1>1, <1>3, <1>4 DEF IntegersInv, AlarmsAreTrue, WrongAnswersAreFound

\* Two errors are the right answers to a division by zero; anything else fails.
LEMMA CheckZeroKeeps ==
    ASSUME IntegersInv, CheckZero PROVE IntegersInv'
<1>1. pc = "check" /\ case.op = "//" /\ case.b = 0 /\ nullOnZero = FALSE /\ case \in Cases /\ outcome = "none"
      /\ answer \in Answers(case.type) /\ modAnswer \in Answers(case.type) /\ (wrong <=> ~AnsweredRight)
      /\ wrong \in BOOLEAN
  BY DEF CheckZero, IntegersInv
<1>2. RightAnswer(case) = Error /\ RightModulos(case) = {Error}
  BY <1>1 DEF RightAnswer, RightModulos
<1>3. AnsweredRight <=> answer.kind = "error" /\ modAnswer.kind = "error"
  <2>1. (answer.kind = "error" <=> answer = Error) /\ (modAnswer.kind = "error" <=> modAnswer = Error)
    BY <1>1, AnswerKinds
  <2> QED
    BY <1>1, <1>2, <2>1 DEF AnsweredRight
<1>4. CASE answer.kind = "error" /\ modAnswer.kind = "error"
  <2>1. nullOnZero' = TRUE /\ pc' = "null" /\ UNCHANGED <<case, answer, modAnswer, outcome, wrong>>
    BY <1>4 DEF CheckZero
  <2>2. ~wrong
    BY <1>1, <1>3, <1>4
  <2> QED
    BY <1>1, <2>1, <2>2 DEF IntegersInv, AlarmsAreTrue, WrongAnswersAreFound
<1>5. CASE ~(answer.kind = "error" /\ modAnswer.kind = "error")
  <2>1. Ends(FALSE)
    BY <1>5 DEF CheckZero
  <2> QED
    BY <1>1, <1>3, <1>5, <2>1, EndsRight
<1> QED
  BY <1>4, <1>5

\* With the setting on, NULL is right for both.
LEMMA RunNullKeeps ==
    ASSUME IntegersInv, RunNull PROVE IntegersInv'
<1>1. pc = "null" /\ pc' = "reset" /\ UNCHANGED <<case, nullOnZero, outcome>> /\ ~wrong /\ nullOnZero = TRUE
      /\ case \in Cases /\ outcome = "none" /\ case.op = "//" /\ case.b = 0
  BY DEF RunNull, Answer, IntegersInv
<1>2. RightAnswer(case) = Null /\ RightModulos(case) = {Null}
  BY <1>1 DEF RightAnswer, RightModulos
<1>3. wrong' \in BOOLEAN /\ (wrong' <=> ~(answer' = Null /\ modAnswer' = Null))
  BY <1>1, <1>2 DEF RunNull, Answer
<1>4. Null' = Null
  BY DEF Null
<1> QED
  BY <1>1, <1>3, <1>4 DEF IntegersInv, AlarmsAreTrue, WrongAnswersAreFound

\* The setting is off again before the answers are looked at.
LEMMA ResetKeeps ==
    ASSUME IntegersInv, ResetSetting PROVE IntegersInv'
BY DEF IntegersInv, ResetSetting, AlarmsAreTrue, WrongAnswersAreFound, Null

\* What is not NULL fails.
LEMMA CheckNullKeeps ==
    ASSUME IntegersInv, CheckNull PROVE IntegersInv'
<1>1. pc = "check null" /\ Ends(answer = Null /\ modAnswer = Null) /\ (wrong <=> ~(answer = Null /\ modAnswer = Null))
      /\ wrong \in BOOLEAN
  BY DEF CheckNull, IntegersInv
<1> QED
  BY <1>1, EndsRight

\* A check ends the case with the verdict that its answers deserve.
LEMMA ChecksKeep ==
    ASSUME ModuloIssueOpen, IntegersInv,
           CheckOp \/ CheckQuotient \/ CheckHugeintOp \/ CheckHugeintQuotient
    PROVE  IntegersInv'
<1>1. pc = "check" /\ case \in Cases /\ (wrong <=> ~AnsweredRight) /\ answer \in Answers(case.type)
      /\ (case.op = "//" => modAnswer \in Answers(case.type)) /\ wrong \in BOOLEAN
  BY DEF IntegersInv, CheckOp, CheckQuotient, CheckHugeintOp, CheckHugeintQuotient
<1>2. CASE CheckOp
  <2> DEFINE expectError == Oracle(case).overflow \/ ~InRange(Oracle(case).exact, case.type)
  <2>1. Ends(Accepts(answer, expectError, Oracle(case).exact)) /\ case.op # "//" /\ ~IsHugeint(case.type)
    BY <1>2 DEF CheckOp
  <2>2. Accepts(answer, expectError, Oracle(case).exact) <=> AnsweredRight
    BY <1>1, <2>1, OpVerdict
  <2> HIDE DEF expectError
  <2> QED
    BY <1>1, <2>1, <2>2, EndsRight
<1>3. CASE CheckQuotient
  <2> DEFINE expectError == ~InRange(CDiv(case.a, case.b), case.type)
             pass == /\ Accepts(answer, expectError, CDiv(case.a, case.b))
                     /\ Accepts(modAnswer, expectError, CMod(case.a, case.b))
  <2>1. Ends(pass) /\ case.op = "//" /\ case.b # 0 /\ ~IsHugeint(case.type)
    BY <1>3 DEF CheckQuotient
  <2>2. pass <=> AnsweredRight
    BY <1>1, <2>1, QuotientVerdict
  <2> HIDE DEF pass
  <2> QED
    BY <1>1, <2>1, <2>2, EndsRight
<1>4. CASE CheckHugeintOp
  <2> DEFINE overflow == Oracle(case).overflow \/ Oracle(case).exact < Smallest(case.type)
             pass == /\ overflow <=> answer.kind = "error"
                     /\ answer.kind # "error" => answer = ValueOf(Oracle(case).exact)
  <2>1. Ends(pass) /\ case.op # "//" /\ IsHugeint(case.type)
    BY <1>4 DEF CheckHugeintOp
  <2>2. pass <=> AnsweredRight
    BY <1>1, <2>1, HugeintOpVerdict
  <2> HIDE DEF pass
  <2> QED
    BY <1>1, <2>1, <2>2, EndsRight
<1>5. CASE CheckHugeintQuotient
  <2> DEFINE overflow == case.b = -1 /\ case.a = Smallest(case.type)
             pass == /\ overflow <=> answer.kind = "error"
                     /\ ~overflow => answer = ValueOf(CDiv(case.a, case.b))
                     /\ IF modAnswer.kind = "error" THEN overflow
                        ELSE modAnswer = ValueOf(CMod(case.a, case.b))
  <2>1. Ends(pass) /\ case.op = "//" /\ case.b # 0 /\ IsHugeint(case.type)
    BY <1>5 DEF CheckHugeintQuotient
  <2>2. pass <=> AnsweredRight
    BY <1>1, <2>1, HugeintQuotientVerdict
  <2> HIDE DEF pass
  <2> QED
    BY <1>1, <2>1, <2>2, EndsRight
<1> QED
  BY <1>2, <1>3, <1>4, <1>5

\* ... and every step keeps it.
LEMMA IntegersNext ==
    ASSUME ModuloIssueOpen, IntegersInv, [ArithmeticNext]_arithmeticVars
    PROVE  IntegersInv'
<1>1. CASE UNCHANGED arithmeticVars
  <2>1. UNCHANGED <<pc, case, answer, modAnswer, nullOnZero, outcome, wrong>>
    BY <1>1 DEF arithmeticVars
  <2>2. AnsweredRight' <=> AnsweredRight
    <3>1. RightAnswer(case)' = RightAnswer(case)
      BY <2>1 DEF RightAnswer, SmallestByMinusOne
    <3>2. RightModulos(case)' = RightModulos(case)
      BY <2>1, <3>1 DEF RightModulos, SmallestByMinusOne
    <3> QED
      BY <2>1, <3>1, <3>2 DEF AnsweredRight
  <2> QED
    BY <2>1, <2>2 DEF IntegersInv, AlarmsAreTrue, WrongAnswersAreFound, Null
<1>2. CASE ArithmeticNext
  BY <1>2, StartKeeps, RunKeeps, ChecksKeep, CheckZeroKeeps, RunNullKeeps, ResetKeeps, CheckNullKeeps
     DEF ArithmeticNext
<1> QED
  BY <1>1, <1>2

-----------------------------------------------------------------------------
Wide == Power(2, DecimalBits - 1)

\* The constants of the DECIMALs, and the largest power of the base.
LEMMA DecimalConstants ==
    /\ DecimalBase \in Nat /\ DecimalBase >= 2 /\ DecimalWidth \in Nat \ {0}
    /\ DecimalBits \in Nat \ {0} /\ DecimalBits - 1 \in Nat
    /\ Wide \in Nat \ {0}
    /\ Power(DecimalBase, DecimalWidth) <= Wide
    /\ \A n \in Nat : Power(DecimalBase, n) \in Nat \ {0}
<1>1. /\ DecimalBase \in Nat /\ DecimalBase >= 2 /\ DecimalWidth \in Nat \ {0}
      /\ DecimalBits \in Nat \ {0} /\ DecimalBits - 1 \in Nat
      /\ Power(DecimalBase, DecimalWidth) <= Power(2, DecimalBits - 1)
  BY DecimalsAssumption
<1>2. \A b \in Nat \ {0}, n \in Nat : Power(b, n) \in Nat \ {0}
  BY PowersGrow
<1>3. Wide = Power(2, DecimalBits - 1)
  BY DEF Wide
<1>4. Wide \in Nat \ {0}
  BY <1>1, <1>2, <1>3
<1>5. \A n \in Nat : Power(DecimalBase, n) \in Nat \ {0}
  <2>1. DecimalBase \in Nat \ {0}
    BY <1>1
  <2> QED
    BY <1>2, <2>1
<1> QED
  BY <1>1, <1>3, <1>4, <1>5

\* The decimals compute with the same operators.
LEMMA SameArithmetic ==
    /\ \A b, n : D!Power(b, n) = Power(b, n)
    /\ \A x : D!AbsOf(x) = AbsOf(x)
    /\ \A x, bits : D!Wrapped(x, bits) = Wrapped(x, bits)
<1>1. \A b, n : D!Power(b, n) = Power(b, n)
  BY DEF D!Power, Power
<1> QED
  BY <1>1 DEF D!AbsOf, AbsOf, D!Wrapped, Wrapped

\* A larger base makes larger powers.
LEMMA LargerBase ==
    ASSUME NEW b \in Nat, b >= 2, NEW n \in Nat
    PROVE  Power(2, n) <= Power(b, n)
<1> DEFINE S == {k \in Nat : Power(2, k) <= Power(b, k)}
<1>1. \A k \in Nat : /\ Power(2, k) \in Nat /\ Power(b, k) \in Nat
                     /\ Power(2, k + 1) = 2 * Power(2, k) /\ Power(b, k + 1) = b * Power(b, k)
  BY PowerSteps
<1>2. 0 \in S
  BY PowerSteps
<1>3. ASSUME NEW k \in Nat, k \in S PROVE k + 1 \in S
  <2>1. 2 * Power(b, k) <= b * Power(b, k)
    <3>1. \A p \in Nat : 2 * p <= b * p
      OBVIOUS
    <3> QED
      BY <1>1, <3>1
  <2>2. 2 * Power(2, k) <= 2 * Power(b, k)
    BY <1>1, <1>3
  <2>3. b * Power(b, k) \in Nat
    BY <1>1
  <2> QED
    BY <1>1, <2>1, <2>2, <2>3
<1> HIDE DEF S
<1>4. n \in S
  BY <1>2, <1>3, InductionOverSet
<1> QED
  BY <1>4 DEF S

\* The digits of what fits into the integer.
LEMMA DigitsOf ==
    ASSUME NEW u \in 0..Wide
    PROVE  \E n \in Nat \ {0} :
             /\ HasLength(DecimalBase, u, n)
             /\ D!Digits(u) = [i \in 1..n |-> Digit(DecimalBase, u, n - i)]
<1>1. u < Power(DecimalBase, DecimalBits)
  <2>1. (DecimalBits - 1) + 1 = DecimalBits
    BY DecimalConstants
  <2>2. Power(2, DecimalBits) = 2 * Wide
    BY <2>1, DecimalConstants, PowerSteps DEF Wide
  <2>3. Power(2, DecimalBits) <= Power(DecimalBase, DecimalBits)
    BY DecimalConstants, LargerBase
  <2>4. Power(DecimalBase, DecimalBits) \in Nat
    BY DecimalConstants
  <2> QED
    BY <2>2, <2>3, <2>4, DecimalConstants
<1> DEFINE IsLength(k) ==
             u < D!Power(DecimalBase, k) /\ (k > 1 => u >= D!Power(DecimalBase, k - 1))
           n == CHOOSE k \in 1..DecimalBits : IsLength(k)
<1>2. \A k : IsLength(k) <=> HasLength(DecimalBase, u, k)
  BY SameArithmetic DEF HasLength
<1>3. D!Digits(u) = [i \in 1..n |-> (u \div D!Power(DecimalBase, n - i)) % DecimalBase]
  BY DEF D!Digits
<1> HIDE DEF IsLength
<1>4. n \in 1..DecimalBits /\ HasLength(DecimalBase, u, n)
  <2>1. u \in Nat /\ DecimalBase \in Nat \ {0}
    BY DecimalConstants
  <2>2. \E k \in 1..DecimalBits : HasLength(DecimalBase, u, k)
    BY <1>1, <2>1, DecimalConstants, LengthExists
  <2>3. \E k \in 1..DecimalBits : IsLength(k)
    BY <1>2, <2>2
  <2>4. n \in 1..DecimalBits /\ IsLength(n)
    BY <2>3
  <2> QED
    BY <1>2, <2>4
<1> HIDE DEF n
<1>6. D!Digits(u) = [i \in 1..n |-> Digit(DecimalBase, u, n - i)]
  BY <1>3, SameArithmetic DEF Digit
<1>5. n \in Nat \ {0}
  BY <1>4, DecimalConstants
<1> QED
  BY <1>4, <1>5, <1>6

\* Two numbers with the same digits are the same.
LEMMA DigitsTell ==
    ASSUME NEW u \in 0..Wide, NEW v \in 0..Wide, D!Digits(u) = D!Digits(v)
    PROVE  u = v
<1>1. PICK m \in Nat \ {0} :
        HasLength(DecimalBase, u, m) /\ D!Digits(u) = [i \in 1..m |-> Digit(DecimalBase, u, m - i)]
  BY DigitsOf
<1>2. PICK n \in Nat \ {0} :
        HasLength(DecimalBase, v, n) /\ D!Digits(v) = [i \in 1..n |-> Digit(DecimalBase, v, n - i)]
  BY DigitsOf
<1>3. 1..m = 1..n
  BY <1>1, <1>2
<1>4. m = n
  BY <1>3
<1>5. ASSUME NEW j \in 0..n - 1 PROVE Digit(DecimalBase, u, j) = Digit(DecimalBase, v, j)
  <2>1. n - j \in 1..n /\ n - (n - j) = j
    OBVIOUS
  <2>2. D!Digits(u)[n - j] = Digit(DecimalBase, u, n - (n - j))
    BY <1>1, <1>4, <2>1
  <2>3. D!Digits(v)[n - j] = Digit(DecimalBase, v, n - (n - j))
    BY <1>2, <2>1
  <2> QED
    BY <2>1, <2>2, <2>3
<1>6. u \in Nat /\ v \in Nat /\ DecimalBase \in Nat \ {0} /\ Power(DecimalBase, n) \in Nat \ {0}
  BY DecimalConstants
<1>7. u % Power(DecimalBase, n) = v % Power(DecimalBase, n)
  BY <1>5, <1>6, SameDigits
<1>8. u < Power(DecimalBase, n) /\ v < Power(DecimalBase, n)
  BY <1>1, <1>2, <1>4 DEF HasLength
<1> QED
  BY <1>6, <1>7, <1>8, SmallRest

-----------------------------------------------------------------------------
\* A function over 1..n with natural values is a sequence of that length.
LEMMA SequenceOf ==
    ASSUME NEW n \in Nat, NEW f, f \in [1..n -> Nat]
    PROVE  f \in Seq(Nat) /\ Len(f) = n
<1>1. f \in Seq(Nat)
  BY SeqDef
<1>2. Len(f) \in Nat /\ DOMAIN f = 1..Len(f)
  BY <1>1, LenProperties
<1>3. 1..Len(f) = 1..n
  BY <1>2
<1> QED
  BY <1>1, <1>2, <1>3

\* A digit is a natural number.
LEMMA DigitIsNat ==
    ASSUME NEW u \in Nat, NEW j \in Nat
    PROVE  Digit(DecimalBase, u, j) \in Nat
<1>1. Power(DecimalBase, j) \in Nat \ {0} /\ DecimalBase \in Nat \ {0}
  BY DecimalConstants
<1>2. \A n \in Nat, m \in Nat \ {0} : n \div m \in Nat /\ n % m \in Nat
  OBVIOUS
<1> QED
  BY <1>1, <1>2 DEF Digit

\* The part of a sequence that has these elements.
LEMMA SubSeqIs ==
    ASSUME NEW s, NEW m \in Int, NEW n \in Int, NEW k \in Nat, n - m + 1 = k,
           NEW f, f \in [1..k -> Nat], \A i \in 1..k : s[m + i - 1] = f[i]
    PROVE  SubSeq(s, m, n) = f
<1>1. \A i \in m..n : s[i] \in Nat
  <2>1. ASSUME NEW i \in m..n PROVE s[i] \in Nat
    <3>1. i - m + 1 \in 1..k /\ m + (i - m + 1) - 1 = i
      OBVIOUS
    <3>2. s[i] = f[i - m + 1]
      BY <3>1
    <3> QED
      BY <3>1, <3>2
  <2> QED
    BY <2>1
<1> DEFINE t == SubSeq(s, m, n)
<1>2. t \in Seq(Nat) /\ Len(t) = k /\ \A i \in 1..k : t[i] = s[m + i - 1]
  <2>1. t \in Seq(Nat) /\ Len(t) = (IF m <= n THEN n - m + 1 ELSE 0) /\ \A i \in 1..n - m + 1 : t[i] = s[m + i - 1]
    BY <1>1, SubSeqProperties
  <2> HIDE DEF t
  <2>2. (IF m <= n THEN n - m + 1 ELSE 0) = k
    OBVIOUS
  <2> QED
    BY <2>1, <2>2
<1> HIDE DEF t
<1>3. f \in Seq(Nat) /\ Len(f) = k
  BY SequenceOf
<1>4. t = f
  BY <1>2, <1>3, SeqEqual
<1> QED
  BY <1>4 DEF t

\* The text that the oracle makes is the one that DuckDB shows.
LEMMA TextIsRendered ==
    ASSUME NEW got, got.raw \in -Wide..Wide, got.type.scale \in Nat
    PROVE  D!DecimalToStringValue(got.raw, got.type.scale) = D!Rendered(got)
<1> DEFINE B == DecimalBase
           u == AbsOf(got.raw)
           s == got.type.scale
           z == D!Larger(0, s + 1 - Len(D!Digits(u)))
           zeros == [i \in 1..z |-> 0]
           digits == zeros \o D!Digits(u)
           point == Len(digits) - s
           whole == [i \in 1..point |-> Digit(B, u, s + point - i)]
           fraction == [i \in 1..s |-> Digit(B, u, s - i)]
<1>1. u \in 0..Wide /\ u \in Nat /\ s \in Nat /\ B \in Nat \ {0}
  <2>1. Wide \in Nat
    BY DecimalConstants
  <2>2. got.raw \in Int /\ (got.raw < 0 => u = -got.raw) /\ (got.raw >= 0 => u = got.raw)
    BY <2>1 DEF AbsOf
  <2> HIDE DEF u
  <2> QED
    BY <2>1, <2>2, DecimalConstants
<1>2. D!DecimalToStringValue(got.raw, s) =
        [minus |-> got.raw < 0, whole |-> SubSeq(digits, 1, point),
         fraction |-> SubSeq(digits, point + 1, Len(digits))]
  BY SameArithmetic DEF D!DecimalToStringValue
<1>3. D!Rendered(got) =
        [minus |-> got.raw < 0, whole |-> D!Digits(u \div Power(B, s)), fraction |-> fraction]
  BY SameArithmetic DEF D!Rendered, Digit
<1> HIDE DEF B, u, s
<1>4. PICK n \in Nat \ {0} : HasLength(B, u, n) /\ D!Digits(u) = [i \in 1..n |-> Digit(B, u, n - i)]
  BY <1>1, DigitsOf DEF B
<1>5. D!Digits(u) \in [1..n -> Nat]
  <2>1. \A i \in 1..n : n - i \in Nat
    OBVIOUS
  <2>2. \A i \in 1..n : Digit(B, u, n - i) \in Nat
    BY <1>1, <2>1, DigitIsNat DEF B
  <2> QED
    BY <1>4, <2>2
<1>6. D!Digits(u) \in Seq(Nat) /\ Len(D!Digits(u)) = n
  BY <1>5, SequenceOf
<1>7. z \in Nat /\ z + n >= s + 1 /\ (z > 0 => z + n = s + 1)
  BY <1>1, <1>6 DEF D!Larger
<1> HIDE DEF z
<1>8. zeros \in [1..z -> Nat] /\ zeros \in Seq(Nat) /\ Len(zeros) = z
  BY <1>7, SequenceOf
<1>0. \A i \in 1..z : zeros[i] = 0
  OBVIOUS
<1> HIDE DEF zeros
<1>9. digits \in Seq(Nat) /\ Len(digits) = z + n
      /\ \A i \in 1..z + n : digits[i] = IF i <= z THEN zeros[i] ELSE D!Digits(u)[i - z]
  BY <1>6, <1>8, ConcatProperties
<1> HIDE DEF digits
<1>10. Power(B, n) \in Nat \ {0} /\ u < Power(B, n) /\ (n > 1 => u >= Power(B, n - 1))
  BY <1>1, <1>4, PowersGrow DEF HasLength
<1>11. ASSUME NEW j \in Nat, j >= n PROVE Digit(B, u, j) = 0
  <2>1. Power(B, j) \in Nat \ {0} /\ Power(B, n) <= Power(B, j)
    BY <1>1, <1>11, PowersGrow
  <2>2. u \div Power(B, j) = 0
    BY <1>1, <1>10, <2>1, SmallRest
  <2>3. 0 % B = 0
    BY <1>1
  <2> QED
    BY <2>2, <2>3 DEF Digit
<1>12. ASSUME NEW i \in 1..z + n PROVE digits[i] = Digit(B, u, z + n - i)
  <2>1. CASE i <= z
    <3>1. z + n - i \in Nat /\ z + n - i >= n /\ i \in 1..z
      BY <1>7, <2>1
    <3> QED
      BY <1>0, <1>9, <1>11, <2>1, <3>1
  <2>2. CASE ~(i <= z)
    <3>1. i - z \in 1..n /\ n - (i - z) = z + n - i
      BY <1>7, <2>2
    <3> QED
      BY <1>4, <1>9, <2>2, <3>1
  <2> QED
    BY <2>1, <2>2
<1>13. point \in Nat \ {0} /\ s + point = z + n
  BY <1>1, <1>7, <1>9
<1> HIDE DEF point
<1>14. SubSeq(digits, 1, point) = whole
  <2>1. \A i \in 1..point : s + point - i \in Nat
    BY <1>1, <1>13
  <2>2. whole \in [1..point -> Nat]
    BY <1>1, <2>1, DigitIsNat DEF B
  <2>3. ASSUME NEW i \in 1..point PROVE digits[1 + i - 1] = whole[i]
    <3>1. 1 + i - 1 = i /\ i \in 1..z + n /\ z + n - i = s + point - i
      BY <1>1, <1>7, <1>13
    <3>2. digits[i] = Digit(B, u, z + n - i) /\ whole[i] = Digit(B, u, s + point - i)
      BY <1>12, <3>1
    <3> HIDE DEF whole
    <3> QED
      BY <3>1, <3>2
  <2>4. point - 1 + 1 = point /\ point \in Nat /\ point \in Int
    BY <1>13
  <2> HIDE DEF whole
  <2> QED
    BY <2>2, <2>3, <2>4, SubSeqIs
<1>15. SubSeq(digits, point + 1, Len(digits)) = fraction
  <2>1. \A i \in 1..s : s - i \in Nat
    BY <1>1
  <2>2. fraction \in [1..s -> Nat]
    BY <1>1, <2>1, DigitIsNat DEF B
  <2>3. ASSUME NEW i \in 1..s PROVE digits[point + 1 + i - 1] = fraction[i]
    <3>1. point + 1 + i - 1 \in 1..z + n /\ z + n - (point + 1 + i - 1) = s - i
      BY <1>1, <1>7, <1>13
    <3>2. digits[point + 1 + i - 1] = Digit(B, u, z + n - (point + 1 + i - 1))
      BY <1>12, <3>1
    <3> QED
      BY <3>1, <3>2
  <2>4. (z + n) - (point + 1) + 1 = s /\ point + 1 \in Int /\ z + n \in Int
    BY <1>1, <1>7, <1>13
  <2> HIDE DEF fraction
  <2>5. SubSeq(digits, point + 1, z + n) = fraction
    BY <1>1, <2>2, <2>3, <2>4, SubSeqIs
  <2> QED
    BY <1>9, <2>5
<1>16. D!Digits(u \div Power(B, s)) = whole
  <2> DEFINE p == Power(B, s)
             v == u \div p
  <2>1. p \in Nat \ {0} /\ Power(B, point) \in Nat \ {0} /\ Power(B, point - 1) \in Nat \ {0}
    BY <1>1, <1>13, PowersGrow
  <2>2. v \in Nat /\ v * p <= u /\ u < v * p + p
    BY <1>1, <2>1, DivisionBounds
  <2>3. v <= u
    <3> HIDE DEF v, p
    <3>1. v <= v * p
      BY <2>1, <2>2
    <3> QED
      BY <1>1, <2>1, <2>2, <3>1
  <2>4. v \in 0..Wide
    <3> HIDE DEF v
    <3> QED
      BY <1>1, <2>2, <2>3, DecimalConstants
  <2>5. HasLength(B, v, point)
    <3>1. v < Power(B, point)
      <4> DEFINE q == Power(B, point)
      <4>1. Power(B, n) <= Power(B, z + n)
        BY <1>1, <1>7, PowersGrow
      <4>2. Power(B, z + n) = p * q
        BY <1>1, <1>13, PowersAdd
      <4>3. ASSUME v >= q PROVE FALSE
        <5> HIDE DEF v, p, q
        <5>1. v * p >= q * p /\ q * p = p * q
          BY <2>1, <2>2, <4>3 DEF q
        <5> QED
          BY <1>1, <1>10, <2>1, <2>2, <4>1, <4>2, <5>1 DEF q
      <4> HIDE DEF v
      <4> QED
        BY <2>1, <2>2, <4>3
    <3>2. ASSUME point > 1 PROVE v >= Power(B, point - 1)
      <4> DEFINE q == Power(B, point - 1)
      <4>1. z = 0 /\ n > 1 /\ n - 1 = s + (point - 1) /\ point - 1 \in Nat
        BY <1>1, <1>7, <1>13, <3>2
      <4>2. Power(B, n - 1) = p * q
        BY <1>1, <4>1, PowersAdd
      <4>3. u >= p * q
        BY <1>10, <4>1, <4>2
      <4>4. ASSUME v < q PROVE FALSE
        <5> HIDE DEF v, p, q
        <5>1. (v + 1) * p <= q * p /\ q * p = p * q /\ (v + 1) * p = v * p + p
          BY <2>1, <2>2, <4>4 DEF q
        <5> QED
          BY <1>1, <2>1, <2>2, <4>3, <5>1 DEF q
      <4> HIDE DEF v
      <4> QED
        BY <2>1, <2>2, <4>4
    <3> QED
      BY <3>1, <3>2 DEF HasLength
  <2> HIDE DEF v
  <2>6. PICK m \in Nat \ {0} : HasLength(B, v, m) /\ D!Digits(v) = [i \in 1..m |-> Digit(B, v, m - i)]
    BY <2>4, DigitsOf DEF B
  <2>7. m = point
    BY <1>1, <1>13, <2>2, <2>5, <2>6, LengthIsUnique
  <2>8. ASSUME NEW i \in 1..point PROVE Digit(B, v, point - i) = Digit(B, u, s + point - i)
    <3>1. point - i \in Nat /\ s + (point - i) = s + point - i
      BY <1>1, <1>13
    <3>2. Digit(B, v, point - i) = Digit(B, u, s + (point - i))
      BY <1>1, <3>1, DigitOfQuotient DEF v
    <3> QED
      BY <3>1, <3>2
  <2>9. D!Digits(v) = whole
    BY <2>6, <2>7, <2>8
  <2> QED
    BY <2>9 DEF v
<1>17. D!DecimalToStringValue(got.raw, s) = D!Rendered(got)
  <2> HIDE DEF whole, fraction
  <2> QED
    BY <1>2, <1>3, <1>14, <1>15, <1>16
<1> QED
  BY <1>17 DEF s

-----------------------------------------------------------------------------
\* A text tells the value and its scale.
LEMMA RenderedTells ==
    ASSUME NEW x, x.raw \in -Wide..Wide, x.type.scale \in Nat,
           NEW y, y.raw \in -Wide..Wide, y.type.scale \in Nat,
           D!Rendered(x) = D!Rendered(y)
    PROVE  x.raw = y.raw /\ x.type.scale = y.type.scale
<1> DEFINE B == DecimalBase
           u == AbsOf(x.raw)
           v == AbsOf(y.raw)
           s == x.type.scale
           r == y.type.scale
           p == Power(B, s)
           f == [i \in 1..s |-> Digit(B, u, s - i)]
           g == [i \in 1..r |-> Digit(B, v, r - i)]
<1>1. u \in 0..Wide /\ v \in 0..Wide /\ x.raw \in Int /\ y.raw \in Int
  <2>1. \A a \in -Wide..Wide : a \in Int /\ AbsOf(a) \in 0..Wide
    BY DecimalConstants DEF AbsOf
  <2> QED
    BY <2>1
<1>2. u \in Nat /\ v \in Nat /\ B \in Nat \ {0} /\ s \in Nat /\ r \in Nat
  BY <1>1, DecimalConstants
<1>3. /\ D!Rendered(x) = [minus |-> x.raw < 0, whole |-> D!Digits(u \div p), fraction |-> f]
      /\ D!Rendered(y) = [minus |-> y.raw < 0, whole |-> D!Digits(v \div Power(B, r)), fraction |-> g]
  BY SameArithmetic DEF D!Rendered, Digit
<1>4. f = g /\ (x.raw < 0) = (y.raw < 0) /\ D!Digits(u \div p) = D!Digits(v \div Power(B, r))
  <2> HIDE DEF f, g
  <2>1. [minus |-> x.raw < 0, whole |-> D!Digits(u \div p), fraction |-> f]
        = [minus |-> y.raw < 0, whole |-> D!Digits(v \div Power(B, r)), fraction |-> g]
    BY <1>3
  <2> QED
    BY <2>1
<1>5. s = r
  <2>1. DOMAIN f = 1..s /\ DOMAIN g = 1..r
    OBVIOUS
  <2>2. 1..s = 1..r
    BY <1>4, <2>1
  <2> HIDE DEF f, g, s, r
  <2> QED
    BY <1>2, <2>2
<1>6. ASSUME NEW j \in 0..s - 1 PROVE Digit(B, u, j) = Digit(B, v, j)
  <2>1. s - j \in 1..s /\ s - (s - j) = j
    BY <1>2
  <2>2. f[s - j] = Digit(B, u, s - (s - j)) /\ g[s - j] = Digit(B, v, s - (s - j))
    BY <1>5, <2>1
  <2> HIDE DEF f, g
  <2> QED
    BY <1>4, <2>1, <2>2
<1> HIDE DEF f, g, s, r
<1>7. u % p = v % p
  BY <1>2, <1>6, SameDigits
<1>8. p \in Nat \ {0}
  BY <1>2, PowersGrow
<1> HIDE DEF p, u, v, B
<1>9. u \div p = v \div p
  <2>1. \A n \in 0..Wide : n \div p \in 0..Wide
    <3>1. ASSUME NEW n \in 0..Wide PROVE n \div p \in 0..Wide
      <4> DEFINE k == n \div p
      <4>0. n \in Nat /\ n <= Wide /\ Wide \in Nat
        BY DecimalConstants
      <4>1. k \in Nat /\ k * p <= n
        BY <1>8, <4>0, DivisionBounds
      <4> HIDE DEF k
      <4>2. k <= k * p
        BY <1>8, <4>1
      <4>3. k * p \in Nat
        BY <1>8, <4>1
      <4>4. k \in 0..Wide
        BY <4>0, <4>1, <4>2, <4>3
      <4> QED
        BY <4>4 DEF k
    <3> QED
      BY <3>1
  <2>2. u \div p \in 0..Wide /\ v \div p \in 0..Wide
    BY <1>1, <2>1
  <2>3. D!Digits(u \div p) = D!Digits(v \div p)
    BY <1>4, <1>5 DEF p
  <2> QED
    BY <2>2, <2>3, DigitsTell
<1>10. u = v
  <2>1. u = p * (u \div p) + (u % p) /\ v = p * (v \div p) + (v % p)
    BY <1>2, <1>8, RestBounds
  <2> QED
    BY <1>7, <1>9, <2>1
<1>11. x.raw = y.raw
  BY <1>1, <1>4, <1>10 DEF u, v, AbsOf
<1> QED
  BY <1>5, <1>11 DEF s, r

-----------------------------------------------------------------------------
\* The parts of a case, and the width its result needs.
LEMMA DecimalCase ==
    ASSUME NEW c \in D!Cases
    PROVE  /\ c.t1.width \in 1..DecimalWidth /\ c.t1.scale \in 0..DecimalWidth /\ c.t1.scale <= c.t1.width
           /\ c.t2.width \in 1..DecimalWidth /\ c.t2.scale \in 0..DecimalWidth /\ c.t2.scale <= c.t2.width
           /\ c.a \in 1 - Power(DecimalBase, c.t1.width)..Power(DecimalBase, c.t1.width) - 1
           /\ c.b \in 1 - Power(DecimalBase, c.t2.width)..Power(DecimalBase, c.t2.width) - 1
           /\ D!ResultScale(c) \in Nat /\ D!ResultWidth(c) \in Nat \ {0}
           /\ c.t1.scale <= D!ResultScale(c) /\ c.t2.scale <= D!ResultScale(c)
           /\ (c.t1.width - c.t1.scale) + D!ResultScale(c) + 1 <= D!ResultWidth(c)
           /\ (c.t2.width - c.t2.scale) + D!ResultScale(c) + 1 <= D!ResultWidth(c)
<1>1. PICK t1 \in D!DecimalTypes, t2 \in D!DecimalTypes :
        c \in [t1 : {t1}, t2 : {t2}, a : D!Raws(t1), b : D!Raws(t2)]
  <2> DEFINE Of(t1, t2) == [t1 : {t1}, t2 : {t2}, a : D!Raws(t1), b : D!Raws(t2)]
  <2>1. D!Cases = UNION {Of(t1, t2) : t1, t2 \in D!DecimalTypes}
    BY DEF D!Cases
  <2> HIDE DEF Of
  <2>2. \E t1, t2 \in D!DecimalTypes : c \in Of(t1, t2)
    BY <2>1
  <2> QED
    BY <2>2 DEF Of
<1>2. c.t1 \in D!DecimalTypes /\ c.t2 \in D!DecimalTypes /\ c.a \in D!Raws(c.t1) /\ c.b \in D!Raws(c.t2)
  BY <1>1
<1>3. /\ c.t1.width \in 1..DecimalWidth /\ c.t1.scale \in 0..DecimalWidth /\ c.t1.scale <= c.t1.width
      /\ c.t2.width \in 1..DecimalWidth /\ c.t2.scale \in 0..DecimalWidth /\ c.t2.scale <= c.t2.width
  BY <1>2 DEF D!DecimalTypes
<1>4. /\ c.a \in 1 - Power(DecimalBase, c.t1.width)..Power(DecimalBase, c.t1.width) - 1
      /\ c.b \in 1 - Power(DecimalBase, c.t2.width)..Power(DecimalBase, c.t2.width) - 1
  BY <1>2, SameArithmetic DEF D!Raws
<1>5. /\ D!ResultScale(c) \in {c.t1.scale, c.t2.scale}
      /\ D!ResultScale(c) >= c.t1.scale /\ D!ResultScale(c) >= c.t2.scale
  BY <1>3 DEF D!ResultScale, D!Larger
<1>6. \E m \in Int : /\ D!ResultWidth(c) = m + D!ResultScale(c) + 1
                     /\ m >= c.t1.width - c.t1.scale /\ m >= c.t2.width - c.t2.scale
  BY <1>3 DEF D!ResultWidth, D!Larger
<1> QED
  BY <1>3, <1>4, <1>5, <1>6, DecimalConstants

\* An operand at the scale of the result.
LEMMA ScaledBound ==
    ASSUME NEW w \in Nat, NEW s \in Nat, NEW rs \in Nat, NEW rw \in Nat \ {0},
           s <= w, s <= rs, (w - s) + rs + 1 <= rw,
           NEW a \in 1 - Power(DecimalBase, w)..Power(DecimalBase, w) - 1
    PROVE  /\ a * Power(DecimalBase, rs - s) \in Int
           /\ -Power(DecimalBase, rw - 1) < a * Power(DecimalBase, rs - s)
           /\ a * Power(DecimalBase, rs - s) < Power(DecimalBase, rw - 1)
<1> DEFINE p == Power(DecimalBase, w)
           q == Power(DecimalBase, rs - s)
           h == Power(DecimalBase, rw - 1)
<1>1. rs - s \in Nat /\ rw - 1 \in Nat /\ w + (rs - s) <= rw - 1 /\ DecimalBase \in Nat \ {0}
  BY DecimalConstants
<1>2. p \in Nat \ {0} /\ q \in Nat \ {0} /\ h \in Nat \ {0}
  BY <1>1, PowersGrow
<1>3. Power(DecimalBase, w + (rs - s)) = p * q /\ Power(DecimalBase, w + (rs - s)) <= h
  <2> DEFINE d == rs - s
             n == rw - 1
  <2>1. d \in Nat /\ w + d \in Nat /\ n \in Nat /\ w + d <= n
    BY <1>1
  <2> HIDE DEF d, n
  <2>2. Power(DecimalBase, w + d) = Power(DecimalBase, w) * Power(DecimalBase, d)
    BY <1>1, <2>1, PowersAdd
  <2>3. Power(DecimalBase, w + d) <= Power(DecimalBase, n)
    BY <1>1, <2>1, PowersGrow
  <2> QED
    BY <2>2, <2>3 DEF d, n
<1>4. a \in Int /\ a < p /\ -p < a
  BY <1>2
<1> HIDE DEF p, q, h
<1>5. a * q < p * q /\ (-p) * q < a * q /\ (-p) * q = -(p * q) /\ a * q \in Int /\ p * q \in Int
  BY <1>2, <1>4
<1>6. p * q <= h
  BY <1>3
<1>7. a * q \in Int /\ -h < a * q /\ a * q < h
  BY <1>2, <1>5, <1>6
<1> QED
  BY <1>7 DEF q, h

\* The sum of two, and their difference.
LEMMA DoubledBound ==
    ASSUME NEW rw \in Nat \ {0}, rw <= DecimalWidth, NEW x \in Int, NEW y \in Int,
           -Power(DecimalBase, rw - 1) < x, x < Power(DecimalBase, rw - 1),
           -Power(DecimalBase, rw - 1) < y, y < Power(DecimalBase, rw - 1)
    PROVE  /\ x + y \in 1 - Wide..Wide - 1 /\ x - y \in 1 - Wide..Wide - 1
           /\ x \in 1 - Wide..Wide - 1 /\ y \in 1 - Wide..Wide - 1
<1> DEFINE h == Power(DecimalBase, rw - 1)
<1>1. rw - 1 \in Nat /\ (rw - 1) + 1 = rw /\ DecimalBase \in Nat \ {0} /\ DecimalBase >= 2 /\ DecimalWidth \in Nat /\ Wide \in Nat
  BY DecimalConstants
<1>2. h \in Nat \ {0} /\ Power(DecimalBase, rw) = DecimalBase * h
  BY <1>1, PowersGrow, PowerSteps
<1>3. Power(DecimalBase, rw) <= Power(DecimalBase, DecimalWidth)
  BY <1>1, PowersGrow
<1>4. Power(DecimalBase, DecimalWidth) <= Wide /\ Power(DecimalBase, DecimalWidth) \in Nat
  BY DecimalConstants
<1> HIDE DEF h
<1>5. 2 * h <= DecimalBase * h /\ DecimalBase * h \in Nat
  BY <1>1, <1>2
<1>6. 2 * h <= Wide
  BY <1>1, <1>2, <1>3, <1>4, <1>5
<1>7. -h < x /\ x < h /\ -h < y /\ y < h
  BY DEF h
<1> QED
  BY <1>1, <1>2, <1>6, <1>7

-----------------------------------------------------------------------------
\* DuckDB has answered what arithmetic says, of - only the value.
AddedRight == answer = D!RightSum(case)
SubtractedRight ==
    LET right == D!RightDiff(case)
    IN modAnswer.kind = right.kind /\ modAnswer.raw = right.raw /\ modAnswer.type.scale = right.type.scale

\* Likewise, and nothing is added that does not fit.
DecimalsInv ==
    /\ pc \in {"idle", "check width", "run", "check"}
    /\ wrong \in BOOLEAN
    /\ pc # "idle" => case \in D!Cases /\ outcome = "none"
    /\ pc \in {"check width", "run"} => ~wrong
    /\ pc \in {"run", "check"} => D!ResultWidth(case) <= DecimalWidth
    /\ pc = "check" =>
        /\ answer \in {D!RightSum(case)} \cup D!WrongAnswers(D!RightSum(case))
        /\ modAnswer \in {D!RightDiff(case)} \cup D!WrongAnswers(D!RightDiff(case))
        /\ wrong <=> ~(AddedRight /\ SubtractedRight)
    /\ AlarmsAreTrue
    /\ WrongAnswersAreFound

\* The exact results.
ExactSum == D!AtScale(case.a, case.t1, case) + D!AtScale(case.b, case.t2, case)
ExactDiff == D!AtScale(case.a, case.t1, case) - D!AtScale(case.b, case.t2, case)

Exact(x) == [kind |-> "value", raw |-> x, type |-> D!ResultType(case)]

\* The oracle computes them: nothing wraps.
LEMMA OracleIsExact ==
    ASSUME case \in D!Cases, D!ResultWidth(case) <= DecimalWidth
    PROVE  /\ ExactSum \in 1 - Wide..Wide - 1 /\ ExactDiff \in 1 - Wide..Wide - 1
           /\ D!OracleSum = ExactSum /\ D!OracleDiff = ExactDiff
           /\ D!RightSum(case) = Exact(ExactSum) /\ D!RightDiff(case) = Exact(ExactDiff)
<1> DEFINE x == D!AtScale(case.a, case.t1, case)
           y == D!AtScale(case.b, case.t2, case)
           rw == D!ResultWidth(case)
           rs == D!ResultScale(case)
           h == Power(DecimalBase, rw - 1)
<1>1. /\ case.t1.width \in Nat /\ case.t1.scale \in Nat /\ case.t1.scale <= case.t1.width /\ case.t1.scale <= rs
      /\ case.t2.width \in Nat /\ case.t2.scale \in Nat /\ case.t2.scale <= case.t2.width /\ case.t2.scale <= rs
      /\ rs \in Nat /\ rw \in Nat \ {0}
      /\ (case.t1.width - case.t1.scale) + rs + 1 <= rw
      /\ (case.t2.width - case.t2.scale) + rs + 1 <= rw
      /\ case.a \in 1 - Power(DecimalBase, case.t1.width)..Power(DecimalBase, case.t1.width) - 1
      /\ case.b \in 1 - Power(DecimalBase, case.t2.width)..Power(DecimalBase, case.t2.width) - 1
  BY DecimalCase, DecimalConstants
<1>2. /\ x = case.a * Power(DecimalBase, rs - case.t1.scale)
      /\ y = case.b * Power(DecimalBase, rs - case.t2.scale)
  BY SameArithmetic DEF D!AtScale
<1>3. D!Scaled(case.a, case.t1) = Wrapped(x, DecimalBits) /\ D!Scaled(case.b, case.t2) = Wrapped(y, DecimalBits)
  BY <1>2, SameArithmetic DEF D!Scaled
<1>4. ExactSum = x + y /\ ExactDiff = x - y
  BY DEF ExactSum, ExactDiff
<1>5. D!RightSum(case) = Exact(x + y) /\ D!RightDiff(case) = Exact(x - y)
  BY DEF D!RightSum, D!RightDiff, D!RightAnswer, Exact
<1> HIDE DEF x, y, rs
<1>6. x \in Int /\ -h < x /\ x < h
  <2> HIDE DEF rw
  <2> QED
    BY <1>1, <1>2, ScaledBound
<1>7. y \in Int /\ -h < y /\ y < h
  <2> HIDE DEF rw
  <2> QED
    BY <1>1, <1>2, ScaledBound
<1>8. /\ x + y \in 1 - Wide..Wide - 1 /\ x - y \in 1 - Wide..Wide - 1
      /\ x \in 1 - Wide..Wide - 1 /\ y \in 1 - Wide..Wide - 1
  <2>1. rw \in Nat \ {0} /\ rw <= DecimalWidth
    BY <1>1
  <2> HIDE DEF rw
  <2> QED
    BY <1>6, <1>7, <2>1, DoubledBound
<1>9. ASSUME NEW n \in 1 - Wide..Wide - 1 PROVE Wrapped(n, DecimalBits) = n
  <2>1. n \in Int /\ -Wide <= n /\ n <= Wide - 1 /\ DecimalBits \in Nat \ {0}
    BY DecimalConstants
  <2> QED
    BY <2>1, WrappedInRange DEF Wide
<1>10. D!OracleSum = x + y /\ D!OracleDiff = x - y
  <2>1. D!Scaled(case.a, case.t1) = x /\ D!Scaled(case.b, case.t2) = y
    BY <1>3, <1>8, <1>9
  <2>2. D!OracleSum = Wrapped(x + y, DecimalBits) /\ D!OracleDiff = Wrapped(x - y, DecimalBits)
    BY <2>1, SameArithmetic DEF D!OracleSum, D!OracleDiff
  <2> QED
    BY <1>8, <1>9, <2>2
<1> QED
  BY <1>4, <1>5, <1>8, <1>10

\* What may be answered, right or wrong, has a text.
LEMMA DecimalAnswers ==
    ASSUME NEW n \in 1 - Wide..Wide - 1, case \in D!Cases,
           NEW got \in {Exact(n)} \cup D!WrongAnswers(Exact(n))
    PROVE  /\ got = [kind |-> got.kind, raw |-> got.raw, type |-> got.type]
           /\ got.raw \in -Wide..Wide
           /\ got.type.scale \in Nat
<1> DEFINE rt == D!ResultType(case)
<1>1. rt = [width |-> D!ResultWidth(case), scale |-> D!ResultScale(case)]
      /\ D!ResultWidth(case) \in Nat /\ D!ResultScale(case) \in Nat
  BY DecimalCase DEF D!ResultType
<1> HIDE DEF rt
<1>2. Exact(n) = [kind |-> "value", raw |-> n, type |-> rt]
  BY DEF Exact, rt
<1>3. n \in Int /\ Wide \in Nat /\ n \in -Wide..Wide /\ -n \in -Wide..Wide /\ n + 1 \in -Wide..Wide
  BY DecimalConstants
<1>4. \/ got = Exact(n)
      \/ got = [Exact(n) EXCEPT !.kind = "error"]
      \/ got = [Exact(n) EXCEPT !.raw = n + 1]
      \/ got = [Exact(n) EXCEPT !.raw = -n]
      \/ got = [Exact(n) EXCEPT !.type = [rt EXCEPT !.width = @ + 1]]
      \/ got = [Exact(n) EXCEPT !.type = [rt EXCEPT !.scale = @ + 1]]
  BY <1>2 DEF D!WrongAnswers
<1>5. \/ got = [kind |-> "value", raw |-> n, type |-> rt]
      \/ got = [kind |-> "error", raw |-> n, type |-> rt]
      \/ got = [kind |-> "value", raw |-> n + 1, type |-> rt]
      \/ got = [kind |-> "value", raw |-> -n, type |-> rt]
      \/ got = [kind |-> "value", raw |-> n, type |-> [rt EXCEPT !.width = @ + 1]]
      \/ got = [kind |-> "value", raw |-> n, type |-> [rt EXCEPT !.scale = @ + 1]]
  BY <1>2, <1>4
<1>6. rt.scale \in Nat /\ [rt EXCEPT !.width = @ + 1].scale \in Nat /\ [rt EXCEPT !.scale = @ + 1].scale \in Nat
  BY <1>1
<1>7. \E k, x, t : got = [kind |-> k, raw |-> x, type |-> t] /\ x \in {n, n + 1, -n} /\ t.scale \in Nat
  <2>1. PICK wider : wider = [rt EXCEPT !.width = @ + 1]
    OBVIOUS
  <2>2. PICK finer : finer = [rt EXCEPT !.scale = @ + 1]
    OBVIOUS
  <2>3. wider.scale \in Nat /\ finer.scale \in Nat
    BY <1>6, <2>1, <2>2
  <2> QED
    BY <1>5, <1>6, <2>1, <2>2, <2>3
<1>8. PICK k, x, t : got = [kind |-> k, raw |-> x, type |-> t] /\ x \in {n, n + 1, -n} /\ t.scale \in Nat
  BY <1>7
<1>9. got.kind = k /\ got.raw = x /\ got.type = t
  BY <1>8
<1>10. x \in -Wide..Wide
  BY <1>3, <1>8
<1> QED
  BY <1>8, <1>9, <1>10

\* The text of an answer is the oracle's exactly if its value and scale are right.
LEMMA TextTells ==
    ASSUME NEW n \in 1 - Wide..Wide - 1, case \in D!Cases,
           NEW got \in {Exact(n)} \cup D!WrongAnswers(Exact(n))
    PROVE  D!Rendered(got) = D!DecimalToStringValue(n, D!ResultScale(case))
           <=> got.raw = n /\ got.type.scale = D!ResultScale(case)
<1>1. got.raw \in -Wide..Wide /\ got.type.scale \in Nat
  BY DecimalAnswers
<1>2. Exact(n).raw = n /\ Exact(n).type.scale = D!ResultScale(case)
  BY DEF Exact, D!ResultType
<1>3. Exact(n).raw \in -Wide..Wide /\ Exact(n).type.scale \in Nat
  BY <1>2, DecimalCase, DecimalConstants
<1>4. D!DecimalToStringValue(n, D!ResultScale(case)) = D!Rendered(Exact(n))
  BY <1>2, <1>3, TextIsRendered
<1>5. D!Rendered(got) = D!Rendered(Exact(n)) => got.raw = n /\ got.type.scale = D!ResultScale(case)
  BY <1>1, <1>2, <1>3, RenderedTells
<1>6. ASSUME got.raw = n, got.type.scale = D!ResultScale(case)
      PROVE  D!Rendered(got) = D!DecimalToStringValue(n, D!ResultScale(case))
  BY <1>1, <1>6, TextIsRendered
<1> QED
  BY <1>4, <1>5, <1>6

\* The check passes exactly the right sum together with the right difference.
LEMMA DecimalsVerdict ==
    ASSUME case \in D!Cases, D!ResultWidth(case) <= DecimalWidth,
           answer \in {D!RightSum(case)} \cup D!WrongAnswers(D!RightSum(case)),
           modAnswer \in {D!RightDiff(case)} \cup D!WrongAnswers(D!RightDiff(case))
    PROVE  /\ answer.kind = "value" /\ modAnswer.kind = "value"
           /\ D!Rendered(answer) = D!DecimalToStringValue(D!OracleSum, D!ResultScale(case))
           /\ D!Rendered(modAnswer) = D!DecimalToStringValue(D!OracleDiff, D!ResultScale(case))
           /\ answer.type = D!ResultType(case)
           <=> AddedRight /\ SubtractedRight
<1>1. /\ ExactSum \in 1 - Wide..Wide - 1 /\ ExactDiff \in 1 - Wide..Wide - 1
      /\ D!OracleSum = ExactSum /\ D!OracleDiff = ExactDiff
      /\ D!RightSum(case) = Exact(ExactSum) /\ D!RightDiff(case) = Exact(ExactDiff)
  BY OracleIsExact
<1> DEFINE m == ExactSum
           n == ExactDiff
           rt == D!ResultType(case)
<1>2. answer \in {Exact(m)} \cup D!WrongAnswers(Exact(m)) /\ modAnswer \in {Exact(n)} \cup D!WrongAnswers(Exact(n))
  BY <1>1
<1>3. /\ \A x : Exact(x) = [kind |-> "value", raw |-> x, type |-> rt]
      /\ rt.scale = D!ResultScale(case)
  BY DEF Exact, D!ResultType
<1> HIDE DEF m, n, rt
<1>4. m \in 1 - Wide..Wide - 1 /\ n \in 1 - Wide..Wide - 1
  BY <1>1 DEF m, n
<1>5. D!Rendered(answer) = D!DecimalToStringValue(m, D!ResultScale(case))
      <=> answer.raw = m /\ answer.type.scale = D!ResultScale(case)
  BY <1>2, <1>4, TextTells
<1>6. D!Rendered(modAnswer) = D!DecimalToStringValue(n, D!ResultScale(case))
      <=> modAnswer.raw = n /\ modAnswer.type.scale = D!ResultScale(case)
  BY <1>2, <1>4, TextTells
<1>7. answer = [kind |-> answer.kind, raw |-> answer.raw, type |-> answer.type]
  BY <1>2, <1>4, DecimalAnswers
<1>8. AddedRight <=> answer.kind = "value" /\ answer.raw = m /\ answer.type = rt
  <2>1. AddedRight <=> answer = [kind |-> "value", raw |-> m, type |-> rt]
    BY <1>1, <1>3 DEF AddedRight, m
  <2> QED
    BY <1>7, <2>1
<1>9. SubtractedRight <=> modAnswer.kind = "value" /\ modAnswer.raw = n /\ modAnswer.type.scale = rt.scale
  <2>1. D!RightDiff(case) = [kind |-> "value", raw |-> n, type |-> rt]
    BY <1>1, <1>3 DEF n
  <2> QED
    BY <2>1 DEF SubtractedRight
<1> QED
  BY <1>1, <1>3, <1>5, <1>6, <1>8, <1>9 DEF m, n, rt

-----------------------------------------------------------------------------
\* How many hours, minutes, ... have passed since the epoch, if the hands are right.
HourCount == hands.day * HoursPerDay + hands.hour
MinuteCount == HourCount * MinutesPerHour + hands.minute
SecondCount == MinuteCount * SecsPerMinute + hands.second
MsecCount == SecondCount * MsecsPerSec + hands.msec

Hands ==
    [day : Int, hour : 0..HoursPerDay - 1, minute : 0..MinutesPerHour - 1,
     second : 0..SecsPerMinute - 1, msec : 0..MsecsPerSec - 1, micro : 0..MicrosPerMsec - 1]

\* The hands are in their ranges and count the micros since the epoch.
ClockInv ==
    /\ hands \in Hands
    /\ ts = MsecCount * MicrosPerMsec + hands.micro

-----------------------------------------------------------------------------
\* Every unit of time is positive.
LEMMA Units ==
    /\ MicrosPerMsec \in Nat \ {0} /\ MsecsPerSec \in Nat \ {0} /\ SecsPerMinute \in Nat \ {0}
    /\ MinutesPerHour \in Nat \ {0} /\ HoursPerDay \in Nat \ {0}
    /\ MicrosPerSec \in Nat \ {0} /\ MicrosPerMinute \in Nat \ {0} /\ MicrosPerHour \in Nat \ {0}
    /\ MicrosPerDay \in Nat \ {0}
    /\ FirstDay \in Int
<1>1. /\ MicrosPerMsec \in Nat \ {0} /\ MsecsPerSec \in Nat \ {0} /\ SecsPerMinute \in Nat \ {0}
      /\ MinutesPerHour \in Nat \ {0} /\ HoursPerDay \in Nat \ {0} /\ FirstDay \in Int
  BY ClockAssumption
<1>2. \A m, n \in Nat \ {0} : m * n \in Nat \ {0}
  OBVIOUS
<1>3. MicrosPerSec \in Nat \ {0}
  BY <1>1, <1>2 DEF MicrosPerSec
<1>4. MicrosPerMinute \in Nat \ {0}
  BY <1>1, <1>2, <1>3 DEF MicrosPerMinute
<1>5. MicrosPerHour \in Nat \ {0}
  BY <1>1, <1>2, <1>4 DEF MicrosPerHour
<1>6. MicrosPerDay \in Nat \ {0}
  BY <1>1, <1>2, <1>5 DEF MicrosPerDay
<1> QED
  BY <1>1, <1>3, <1>4, <1>5, <1>6

\* At midnight of the first day the hands are right, ...
LEMMA ClockStarts == ClockInit => ClockInv
<1> SUFFICES ASSUME ClockInit PROVE ClockInv
  OBVIOUS
<1> DEFINE first == FirstDay
           h == first * HoursPerDay
           m == h * MinutesPerHour
           s == m * SecsPerMinute
           l == s * MsecsPerSec
<1>1. hands = [day |-> FirstDay, hour |-> 0, minute |-> 0, second |-> 0, msec |-> 0, micro |-> 0]
      /\ ts = FirstDay * MicrosPerDay
  BY DEF ClockInit
<1>2. hands \in Hands
  BY <1>1, Units DEF Hands
<1>3. h \in Int /\ m \in Int /\ s \in Int /\ l \in Int
  BY Units
<1>4. HourCount = h
  BY <1>1, <1>3 DEF HourCount
<1>5. MinuteCount = m
  BY <1>1, <1>3, <1>4 DEF MinuteCount
<1>6. SecondCount = s
  BY <1>1, <1>3, <1>5 DEF SecondCount
<1>7. MsecCount = l
  BY <1>1, <1>3, <1>6 DEF MsecCount
<1>8. l * MicrosPerMsec = FirstDay * MicrosPerDay
  BY Units DEF MicrosPerSec, MicrosPerMinute, MicrosPerHour, MicrosPerDay
<1> HIDE DEF l
<1>9. l * MicrosPerMsec + hands.micro = l * MicrosPerMsec
  <2>1. l * MicrosPerMsec \in Int
    BY <1>3, Units
  <2> QED
    BY <1>1, <2>1
<1> QED
  BY <1>1, <1>2, <1>7, <1>8, <1>9 DEF ClockInv

\* A hand that is at its end moves the next one on.
LEMMA Carry ==
    ASSUME NEW n \in Int, NEW u \in Nat \ {0}, NEW i \in 0..u - 1, ~(i + 1 < u)
    PROVE  n * u + i + 1 = (n + 1) * u + 0
<1>1. i + 1 = u
  OBVIOUS
<1>2. (n + 1) * u = n * u + u
  OBVIOUS
<1>3. n * u \in Int
  OBVIOUS
<1> QED
  BY <1>1, <1>2, <1>3

\* ... and a tick keeps them right, whichever of them turn.
LEMMA TickKeeps ==
    ASSUME ClockInv, Tick PROVE ClockInv'
<1> DEFINE d == hands.day
           h == HourCount
           m == MinuteCount
           s == SecondCount
           l == MsecCount
<1>0. hands \in Hands
  BY DEF ClockInv
<1>1. /\ hands \in Hands
      /\ ts = l * MicrosPerMsec + hands.micro
      /\ ts' = ts + 1
  BY DEF ClockInv, Tick
<1>2. d \in Int /\ h \in Int /\ m \in Int /\ s \in Int /\ l \in Int
  <2>1. h \in Int
    BY <1>1, Units DEF HourCount, Hands
  <2>2. m \in Int
    BY <1>1, <2>1, Units DEF MinuteCount, Hands
  <2>3. s \in Int
    BY <1>1, <2>2, Units DEF SecondCount, Hands
  <2>4. l \in Int
    BY <1>1, <2>3, Units DEF MsecCount, Hands
  <2> QED
    BY <1>1, <2>1, <2>2, <2>3, <2>4 DEF Hands
<1>3. CASE hands.micro + 1 < MicrosPerMsec
  <2>1. hands' = [hands EXCEPT !.micro = @ + 1]
    BY <1>3 DEF Tick
  <2>2. MsecCount' = l /\ hands'.micro = hands.micro + 1
    BY <1>1, <2>1 DEF HourCount, MinuteCount, SecondCount, MsecCount, Hands
  <2> HIDE DEF l
  <2>3. ts' = l * MicrosPerMsec + hands'.micro
    BY <1>1, <1>2, <2>2, Units DEF Hands
  <2>4. hands' \in Hands
    BY <1>1, <1>3, <2>1, Units DEF Hands
  <2> QED
    BY <2>2, <2>3, <2>4 DEF ClockInv
<1>4. CASE ~(hands.micro + 1 < MicrosPerMsec)
  <2>1. ts' = (l + 1) * MicrosPerMsec + 0
    <3> HIDE DEF l
    <3>1. hands.micro \in 0..MicrosPerMsec - 1
      BY <1>1 DEF Hands
    <3> QED
      BY <1>1, <1>2, <1>4, <3>1, Carry, Units DEF Hands
  <2> SUFFICES /\ hands'.micro = 0 /\ MsecCount' = l + 1
               /\ hands' \in Hands
    <3> HIDE DEF l
    <3> QED
      BY <2>1 DEF ClockInv
  <2>2. CASE hands.msec + 1 < MsecsPerSec
    <3>1. hands' = [hands EXCEPT !.micro = 0, !.msec = @ + 1]
      BY <1>4, <2>2 DEF Tick
    <3>2. SecondCount' = s /\ hands'.msec = hands.msec + 1
      BY <1>1, <3>1 DEF HourCount, MinuteCount, SecondCount, Hands
    <3>3. l = s * MsecsPerSec + hands.msec /\ MsecCount' = SecondCount' * MsecsPerSec + hands'.msec
      BY DEF MsecCount
    <3> HIDE DEF l, s
    <3>4. MsecCount' = l + 1
      BY <1>1, <1>2, <3>2, <3>3, Units DEF Hands
    <3> QED
      <4>0. hands' = [day |-> hands.day, hour |-> hands.hour, minute |-> hands.minute, second |-> hands.second, msec |-> hands.msec + 1, micro |-> 0]
        BY <1>0, <3>1 DEF Hands
      <4>1. hands' \in Hands /\ hands'.micro = 0
        BY <1>0, <2>2, <4>0, Units DEF Hands
      <4> QED
        BY <3>4, <4>1
  <2>3. CASE ~(hands.msec + 1 < MsecsPerSec)
    <3>1. l + 1 = (s + 1) * MsecsPerSec + 0
      <4>1. l = s * MsecsPerSec + hands.msec /\ hands.msec \in 0..MsecsPerSec - 1
        BY <1>1 DEF MsecCount, Hands
      <4> HIDE DEF l, s
      <4> QED
        BY <1>2, <2>3, <4>1, Carry, Units
    <3> SUFFICES /\ hands'.micro = 0 /\ hands'.msec = 0 /\ SecondCount' = s + 1
                 /\ hands' \in Hands
      <4>1. MsecCount' = SecondCount' * MsecsPerSec + hands'.msec
        BY DEF MsecCount
      <4> HIDE DEF l, s
      <4> QED
        BY <3>1, <4>1
    <3>2. CASE hands.second + 1 < SecsPerMinute
      <4>1. hands' = [hands EXCEPT !.micro = 0, !.msec = 0, !.second = @ + 1]
        BY <1>4, <2>3, <3>2 DEF Tick
      <4>2. MinuteCount' = m /\ hands'.second = hands.second + 1
        BY <1>1, <4>1 DEF HourCount, MinuteCount, Hands
      <4>3. s = m * SecsPerMinute + hands.second /\ SecondCount' = MinuteCount' * SecsPerMinute + hands'.second
        BY DEF SecondCount
      <4> HIDE DEF s, m
      <4>4. SecondCount' = s + 1
        BY <1>1, <1>2, <4>2, <4>3, Units DEF Hands
      <4> QED
        <5>0. hands' = [day |-> hands.day, hour |-> hands.hour, minute |-> hands.minute, second |-> hands.second + 1, msec |-> 0, micro |-> 0]
          BY <1>0, <4>1 DEF Hands
        <5>1. hands' \in Hands /\ hands'.micro = 0 /\ hands'.msec = 0
          BY <1>0, <3>2, <5>0, Units DEF Hands
        <5> QED
          BY <4>4, <5>1
    <3>3. CASE ~(hands.second + 1 < SecsPerMinute)
      <4>1. s + 1 = (m + 1) * SecsPerMinute + 0
        <5>1. s = m * SecsPerMinute + hands.second /\ hands.second \in 0..SecsPerMinute - 1
          BY <1>1 DEF SecondCount, Hands
        <5> HIDE DEF s, m
        <5> QED
          BY <1>2, <3>3, <5>1, Carry, Units
      <4> SUFFICES /\ hands'.micro = 0 /\ hands'.msec = 0 /\ hands'.second = 0 /\ MinuteCount' = m + 1
                   /\ hands' \in Hands
        <5>1. SecondCount' = MinuteCount' * SecsPerMinute + hands'.second
          BY DEF SecondCount
        <5> HIDE DEF s, m
        <5> QED
          BY <4>1, <5>1
      <4>2. CASE hands.minute + 1 < MinutesPerHour
        <5>1. hands' = [hands EXCEPT !.micro = 0, !.msec = 0, !.second = 0, !.minute = @ + 1]
          BY <1>4, <2>3, <3>3, <4>2 DEF Tick
        <5>2. HourCount' = h /\ hands'.minute = hands.minute + 1
          BY <1>1, <5>1 DEF HourCount, Hands
        <5>3. m = h * MinutesPerHour + hands.minute /\ MinuteCount' = HourCount' * MinutesPerHour + hands'.minute
          BY DEF MinuteCount
        <5> HIDE DEF m, h
        <5>4. MinuteCount' = m + 1
          BY <1>1, <1>2, <5>2, <5>3, Units DEF Hands
        <5> QED
          <6>0. hands' = [day |-> hands.day, hour |-> hands.hour, minute |-> hands.minute + 1, second |-> 0, msec |-> 0, micro |-> 0]
            BY <1>0, <5>1 DEF Hands
          <6>1. hands' \in Hands /\ hands'.micro = 0 /\ hands'.msec = 0 /\ hands'.second = 0
            BY <1>0, <4>2, <6>0, Units DEF Hands
          <6> QED
            BY <5>4, <6>1
      <4>3. CASE ~(hands.minute + 1 < MinutesPerHour)
        <5>1. m + 1 = (h + 1) * MinutesPerHour + 0
          <6>1. m = h * MinutesPerHour + hands.minute /\ hands.minute \in 0..MinutesPerHour - 1
            BY <1>1 DEF MinuteCount, Hands
          <6> HIDE DEF m, h
          <6> QED
            BY <1>2, <4>3, <6>1, Carry, Units
        <5> SUFFICES /\ hands'.micro = 0 /\ hands'.msec = 0 /\ hands'.second = 0 /\ hands'.minute = 0
                     /\ HourCount' = h + 1
                     /\ hands' \in Hands
          <6>1. MinuteCount' = HourCount' * MinutesPerHour + hands'.minute
            BY DEF MinuteCount
          <6> HIDE DEF m, h
          <6> QED
            BY <5>1, <6>1
        <5>2. CASE hands.hour + 1 < HoursPerDay
          <6>1. hands' = [hands EXCEPT !.micro = 0, !.msec = 0, !.second = 0, !.minute = 0, !.hour = @ + 1]
            BY <1>4, <2>3, <3>3, <4>3, <5>2 DEF Tick
          <6>2. h = hands.day * HoursPerDay + hands.hour /\ HourCount' = hands.day * HoursPerDay + (hands.hour + 1)
            BY <1>1, <6>1 DEF HourCount, Hands
          <6> HIDE DEF h
          <6>3. HourCount' = h + 1
            BY <1>1, <1>2, <6>2, Units DEF Hands
          <6> QED
            <7>0. hands' = [day |-> hands.day, hour |-> hands.hour + 1, minute |-> 0, second |-> 0, msec |-> 0, micro |-> 0]
              BY <1>0, <6>1 DEF Hands
            <7>1. hands' \in Hands /\ hands'.micro = 0 /\ hands'.msec = 0 /\ hands'.second = 0 /\ hands'.minute = 0
              BY <1>0, <5>2, <7>0, Units DEF Hands
            <7> QED
              BY <6>3, <7>1
        <5>3. CASE ~(hands.hour + 1 < HoursPerDay)
          <6>1. hands' = [day |-> hands.day + 1, hour |-> 0, minute |-> 0, second |-> 0, msec |-> 0, micro |-> 0]
            BY <1>4, <2>3, <3>3, <4>3, <5>3 DEF Tick
          <6>2. h + 1 = (d + 1) * HoursPerDay + 0
            <7>1. h = d * HoursPerDay + hands.hour /\ hands.hour \in 0..HoursPerDay - 1
              BY <1>1 DEF HourCount, Hands
            <7> HIDE DEF h, d
            <7> QED
              BY <1>2, <5>3, <7>1, Carry, Units
          <6>3. HourCount' = (d + 1) * HoursPerDay + 0
            BY <6>1 DEF HourCount
          <6>4. HourCount' = h + 1
            BY <6>2, <6>3
          <6>5. hands' \in Hands /\ hands'.micro = 0 /\ hands'.msec = 0 /\ hands'.second = 0 /\ hands'.minute = 0
            BY <1>0, <6>1, Units DEF Hands
          <6> QED
            BY <6>4, <6>5
        <5> QED
          BY <5>2, <5>3
      <4> QED
        BY <4>2, <4>3
    <3> QED
      BY <3>2, <3>3
  <2> QED
    BY <2>2, <2>3
<1> QED
  BY <1>3, <1>4

-----------------------------------------------------------------------------
\* Division by a positive number.
LEMMA CDivByPositive ==
    ASSUME NEW x \in Int, NEW u \in Nat \ {0}
    PROVE  /\ x < 0 => CDiv(x, u) = -((-x) \div u)
           /\ x >= 0 => CDiv(x, u) = x \div u
<1>1. AbsOf(u) = u /\ (x < 0 => AbsOf(x) = -x) /\ (x >= 0 => AbsOf(x) = x)
  BY AbsFacts
<1> QED
  BY <1>1 DEF CDiv

\* Quotient and remainder of a number that is put together from them, ...
LEMMA PartsOf ==
    ASSUME NEW n \in Nat, NEW u \in Nat \ {0}, NEW r \in 0..u - 1, NEW x, x = n * u + r
    PROVE  CDiv(x, u) = n /\ CMod(x, u) = r
<1>1. n * u \in Nat /\ x \in Nat /\ x = n * u + r
  OBVIOUS
<1>2. x \div u = n
  BY DivisionIsUnique
<1>3. CDiv(x, u) = n
  BY <1>1, <1>2, CDivByPositive
<1>4. CMod(x, u) = x - u * n
  BY <1>3 DEF CMod
<1>5. u * n = n * u
  OBVIOUS
<1> QED
  BY <1>1, <1>3, <1>4, <1>5

\* ... or the remainder alone.
LEMMA RestOf ==
    ASSUME NEW u \in Nat \ {0}, NEW r \in 0..u - 1, NEW x, \E n \in Nat : x = n * u + r
    PROVE  CMod(x, u) = r
<1>1. PICK n \in Nat : x = n * u + r
  OBVIOUS
<1>2. CDiv(n * u + r, u) = n
  BY PartsOf
<1>3. CMod(x, u) = x - u * n
  BY <1>1, <1>2 DEF CMod
<1>4. u * n = n * u /\ n * u \in Int /\ r \in Int
  OBVIOUS
<1> QED
  BY <1>1, <1>3, <1>4

\* A division that rounds down, made from one that truncates.
LEMMA RoundsDown ==
    ASSUME NEW d \in Int, NEW u \in Nat \ {0}, NEW r \in 0..u - 1, NEW t, t = d * u + r
    PROVE  CDiv(t - (IF t < 0 THEN u - 1 ELSE 0), u) = d
<1>1. t \in Int /\ d * u \in Int
  OBVIOUS
<1>2. CASE t >= 0
  <2>1. d >= 0
    <3>1. ASSUME d < 0 PROVE FALSE
      <4>1. d * u <= -1 * u
        BY <3>1
      <4>2. -1 * u = -u
        OBVIOUS
      <4> QED
        BY <1>1, <1>2, <4>1, <4>2
    <3> QED
      BY <3>1
  <2>2. CDiv(t, u) = d
    <3>1. d \in Nat /\ t = d * u + r
      BY <2>1
    <3> QED
      BY <3>1, PartsOf
  <2> QED
    BY <1>1, <1>2, <2>2
<1>3. CASE t < 0
  <2> DEFINE x == t - (u - 1)
             e == -d
             q == u - 1 - r
  <2>1. d < 0
    <3>1. ASSUME d >= 0 PROVE FALSE
      <4>1. d * u >= 0
        BY <3>1
      <4> QED
        BY <1>1, <1>3, <4>1
    <3> QED
      BY <3>1
  <2>2. x \in Int /\ x < 0 /\ e \in Nat /\ q \in 0..u - 1
    BY <1>1, <1>3, <2>1
  <2>3. -x = e * u + q
    <3>1. e * u = -(d * u)
      OBVIOUS
    <3> HIDE DEF e
    <3> QED
      BY <1>1, <3>1
  <2>4. (-x) \div u = e
    <3> HIDE DEF x, e, q
    <3>1. -x \in Nat /\ e * u \in Nat
      BY <2>2
    <3>2. e * u <= -x /\ -x < e * u + u
      BY <2>2, <2>3, <3>1
    <3> QED
      BY <2>2, <3>1, <3>2, DivisionIsUnique
  <2>5. CDiv(x, u) = -e
    <3> HIDE DEF x, e
    <3> QED
      BY <2>2, <2>4, CDivByPositive
  <2> QED
    BY <1>3, <2>5
<1> QED
  BY <1>1, <1>2, <1>3

\* The micros of a day, of an hour, ... that the hands show.
InSecond == hands.msec * MicrosPerMsec + hands.micro
InMinute == hands.second * MicrosPerSec + InSecond
InHour == hands.minute * MicrosPerMinute + InMinute
InDay == hands.hour * MicrosPerHour + InHour

\* Each of them is less than its unit.
LEMMA InUnits ==
    ASSUME ClockInv
    PROVE  /\ InSecond \in 0..MicrosPerSec - 1
           /\ InMinute \in 0..MicrosPerMinute - 1
           /\ InHour \in 0..MicrosPerHour - 1
           /\ InDay \in 0..MicrosPerDay - 1
<1>1. /\ hands.hour \in 0..HoursPerDay - 1 /\ hands.minute \in 0..MinutesPerHour - 1
      /\ hands.second \in 0..SecsPerMinute - 1 /\ hands.msec \in 0..MsecsPerSec - 1
      /\ hands.micro \in 0..MicrosPerMsec - 1
  BY DEF ClockInv, Hands
<1>2. InSecond \in 0..MicrosPerSec - 1
  BY <1>1, Units, Below DEF InSecond, MicrosPerSec
<1>3. InMinute \in 0..MicrosPerMinute - 1
  BY <1>1, <1>2, Units, Below DEF InMinute, MicrosPerMinute
<1>4. InHour \in 0..MicrosPerHour - 1
  BY <1>1, <1>3, Units, Below DEF InHour, MicrosPerHour
<1>5. InDay \in 0..MicrosPerDay - 1
  BY <1>1, <1>4, Units, Below DEF InDay, MicrosPerDay
<1> QED
  BY <1>2, <1>3, <1>4, <1>5

\* The units of a unit.
LEMMA Regroup ==
    ASSUME NEW n \in Int, NEW v \in Int, NEW i \in Int, NEW u \in Int, NEW r \in Int
    PROVE  (n * v + i) * u + r = n * (u * v) + (i * u + r)
OBVIOUS

\* The timestamp is the midnights before it and the rest of its day.
LEMMA InDayRest ==
    ASSUME ClockInv
    PROVE  ts = hands.day * MicrosPerDay + InDay
<1>1. /\ hands.day \in Int /\ hands.hour \in Int /\ hands.minute \in Int
      /\ hands.second \in Int /\ hands.msec \in Int /\ hands.micro \in Int
  BY Units DEF ClockInv, Hands
<1>2. HourCount \in Int /\ MinuteCount \in Int /\ SecondCount \in Int
  <2>1. HourCount \in Int
    BY <1>1, Units DEF HourCount
  <2>2. MinuteCount \in Int
    BY <1>1, <2>1, Units DEF MinuteCount
  <2> QED
    BY <1>1, <2>1, <2>2, Units DEF SecondCount
<1>3. InSecond \in Int /\ InMinute \in Int /\ InHour \in Int
  BY InUnits, Units
<1>4. ts = SecondCount * MicrosPerSec + InSecond
  <2>1. ts = (SecondCount * MsecsPerSec + hands.msec) * MicrosPerMsec + hands.micro
    BY DEF ClockInv, MsecCount
  <2> QED
    BY <1>1, <1>2, <2>1, Units, Regroup DEF InSecond, MicrosPerSec
<1>5. ts = MinuteCount * MicrosPerMinute + InMinute
  <2>1. ts = (MinuteCount * SecsPerMinute + hands.second) * MicrosPerSec + InSecond
    BY <1>4 DEF SecondCount
  <2> QED
    BY <1>1, <1>2, <1>3, <2>1, Units, Regroup DEF InMinute, MicrosPerMinute
<1>6. ts = HourCount * MicrosPerHour + InHour
  <2>1. ts = (HourCount * MinutesPerHour + hands.minute) * MicrosPerMinute + InMinute
    BY <1>5 DEF MinuteCount
  <2> QED
    BY <1>1, <1>2, <1>3, <2>1, Units, Regroup DEF InHour, MicrosPerHour
<1>7. ts = (hands.day * HoursPerDay + hands.hour) * MicrosPerHour + InHour
  BY <1>6 DEF HourCount
<1> QED
  BY <1>1, <1>3, <1>7, Units, Regroup DEF InDay, MicrosPerDay

\* The date and the time of a timestamp are those the hands show, ...
LEMMA DayIsShown ==
    ASSUME ClockInv
    PROVE  DayOf(ts) = hands.day /\ TimeOf(ts) = InDay
<1>1. ts = hands.day * MicrosPerDay + InDay /\ hands.day \in Int /\ InDay \in 0..MicrosPerDay - 1
  BY InDayRest, InUnits DEF ClockInv, Hands
<1>2. DayOf(ts) = hands.day
  BY <1>1, Units, RoundsDown DEF DayOf
<1>3. hands.day * MicrosPerDay \in Int
  BY <1>1, Units
<1> QED
  BY <1>1, <1>2, <1>3, Units DEF TimeOf

\* ... and so are the parts of the time.
LEMMA PartsAreShown ==
    ASSUME ClockInv
    PROVE  LET msecs == hands.second * MsecsPerSec + hands.msec
           IN TimeParts(InDay) =
                [hour |-> hands.hour, minute |-> hands.minute, second |-> hands.second,
                 millisecond |-> msecs, microsecond |-> msecs * MicrosPerMsec + hands.micro]
<1> DEFINE msecs == hands.second * MsecsPerSec + hands.msec
           minutes == hands.hour * MinutesPerHour + hands.minute
<1>1. /\ hands.hour \in Nat /\ hands.minute \in Nat /\ hands.second \in Nat
      /\ hands.msec \in Nat /\ hands.micro \in 0..MicrosPerMsec - 1
  BY Units DEF ClockInv, Hands
<1>2. InSecond \in 0..MicrosPerSec - 1 /\ InMinute \in 0..MicrosPerMinute - 1 /\ InHour \in 0..MicrosPerHour - 1
  BY InUnits
<1>3. InSecond \in Int /\ InMinute \in Int /\ InHour \in Int
  BY <1>2
<1>4. msecs \in Nat /\ minutes \in Nat
  BY <1>1, Units
<1>5. CDiv(InDay, MicrosPerHour) = hands.hour /\ CMod(InDay, MicrosPerHour) = InHour
  BY <1>1, <1>2, Units, PartsOf DEF InDay
<1>6. CDiv(InHour, MicrosPerMinute) = hands.minute
  BY <1>1, <1>2, Units, PartsOf DEF InHour
<1>7. CMod(InDay, MicrosPerMinute) = InMinute
  <2>1. InDay = minutes * MicrosPerMinute + InMinute
    BY <1>1, <1>3, Units, Regroup DEF InDay, InHour, MicrosPerHour
  <2>2. \E n \in Nat : InDay = n * MicrosPerMinute + InMinute
    BY <1>4, <2>1
  <2>3. InMinute \in 0..MicrosPerMinute - 1 /\ MicrosPerMinute \in Nat \ {0}
    BY <1>2, Units
  <2> QED
    BY <2>2, <2>3, RestOf
<1>8. CDiv(InMinute, MicrosPerSec) = hands.second
  BY <1>1, <1>2, Units, PartsOf DEF InMinute
<1>9. InMinute = msecs * MicrosPerMsec + hands.micro
  BY <1>1, Units, Regroup DEF InMinute, InSecond, MicrosPerSec
<1>10. CDiv(InMinute, MicrosPerMsec) = msecs
  <2> HIDE DEF msecs
  <2> QED
    BY <1>1, <1>4, <1>9, Units, PartsOf
<1> QED
  BY <1>5, <1>6, <1>7, <1>8, <1>9, <1>10 DEF TimeParts

\* Division and remainder are odd functions of the dividend.
LEMMA OddDivision ==
    ASSUME NEW x \in Int, NEW u \in Nat \ {0}
    PROVE  CDiv(-x, u) = -CDiv(x, u) /\ CMod(-x, u) = -CMod(x, u) /\ CDiv(x, u) \in Int /\ CMod(x, u) \in Int
<1>1. \A n \in Nat : n \div u \in Nat
  BY DivisionBounds
<1>2. CDiv(-x, u) = -CDiv(x, u) /\ CDiv(x, u) \in Int
  <2>1. CASE x < 0
    <3>1. -x \in Nat /\ -x >= 0 /\ -x \in Int
      BY <2>1
    <3>2. CDiv(-x, u) = (-x) \div u /\ CDiv(x, u) = -((-x) \div u) /\ (-x) \div u \in Nat
      BY <1>1, <2>1, <3>1, CDivByPositive
    <3> QED
      BY <3>2
  <2>2. CASE x > 0
    <3>1. -x < 0 /\ -x \in Int /\ -(-x) = x /\ x \in Nat
      BY <2>2
    <3>2. CDiv(-x, u) = -((-(-x)) \div u)
      BY <3>1, CDivByPositive
    <3>3. CDiv(x, u) = x \div u /\ x \div u \in Nat
      BY <1>1, <2>2, <3>1, CDivByPositive
    <3> QED
      BY <3>1, <3>2, <3>3
  <2>3. CASE ~(x < 0) /\ ~(x > 0)
    <3>1. 0 \div u = 0
      BY DivisionIsUnique
    <3>2. CDiv(0, u) = 0
      BY <3>1, CDivByPositive
    <3>3. -x = x /\ x = 0
      BY <2>3
    <3>4. CDiv(x, u) = 0 /\ CDiv(-x, u) = 0
      BY <3>2, <3>3
    <3>5. -CDiv(x, u) = CDiv(x, u)
      <4> DEFINE z == CDiv(x, u)
      <4>1. z \in Int /\ z <= 0 /\ z >= 0
        BY <3>4
      <4> HIDE DEF z
      <4>2. -z = z
        BY <4>1
      <4> QED
        BY <4>2 DEF z
    <3> QED
      BY <3>4, <3>5
  <2> QED
    BY <2>1, <2>2, <2>3
<1>3. u * (-CDiv(x, u)) = -(u * CDiv(x, u)) /\ u * CDiv(x, u) \in Int
  BY <1>2
<1> QED
  BY <1>2, <1>3 DEF CMod

\* "rounds half away from zero"
LEMMA MillisAreNearest ==
    ASSUME NEW t \in Int
    PROVE  LET off == AbsOf(EpochMs(t) * MicrosPerMsec - t)
               half == MicrosPerMsec \div 2
           IN /\ off <= half
              /\ off = half => AbsOf(EpochMs(t)) * MicrosPerMsec > AbsOf(t)
              /\ EpochMs(-t) = -EpochMs(t)
<1> DEFINE u == MicrosPerMsec
           half == u \div 2
           k == CDiv(t, u)
           rem == CMod(t, u)
           up == IF rem >= half THEN 1 ELSE IF rem <= -half THEN -1 ELSE 0
           ms == k + up
<1>1. half \in Nat \ {0} /\ u = 2 * half /\ u \in Nat \ {0}
  BY Units, ClockAssumption
<1>3. EpochMs(t) = ms
  BY DEF EpochMs
<1> HIDE DEF half
<1>2. /\ k \in Int /\ rem \in Int /\ rem < u /\ -u < rem
      /\ CDiv(-t, u) = -k /\ CMod(-t, u) = -rem
  <2> HIDE DEF u
  <2>1. AbsOf(u) = u /\ u \in Int /\ u # 0
    BY <1>1, AbsFacts
  <2>2. rem < u /\ -u < rem
    BY <2>1, RemaindersAreSmall
  <2>3. k \in Int /\ rem \in Int /\ CDiv(-t, u) = -k /\ CMod(-t, u) = -rem
    BY <1>1, OddDivision
  <2> QED
    BY <2>2, <2>3
<1>4. EpochMs(-t) = -k + (IF -rem >= half THEN 1 ELSE IF -rem <= -half THEN -1 ELSE 0)
  BY <1>2 DEF EpochMs, half
<1>5. t = u * k + rem /\ u * k \in Int
  <2>1. rem = t - u * k
    BY DEF CMod
  <2> QED
    BY <1>1, <1>2, <2>1
<1>0. k = CDiv(t, u)
  OBVIOUS
<1> HIDE DEF u, k, rem
<1>6. /\ t < 0 => k <= 0 /\ rem <= 0
      /\ t >= 0 => k >= 0 /\ rem >= 0
  <2>1. ASSUME t >= 0 PROVE k >= 0 /\ rem >= 0
    <3>1. k = t \div u /\ t \in Nat
      BY <1>0, <1>1, <2>1, CDivByPositive
    <3>2. t \div u \in Nat /\ (t \div u) * u <= t
      BY <1>1, <3>1, DivisionBounds
    <3>3. k \in Nat /\ k * u <= t
      BY <3>1, <3>2
    <3>4. k * u = u * k
      BY <1>1, <3>3
    <3> QED
      BY <1>1, <1>2, <1>5, <2>1, <3>3, <3>4
  <2>2. ASSUME t < 0 PROVE k <= 0 /\ rem <= 0
    <3>1. k = -((-t) \div u) /\ -t \in Nat
      BY <1>0, <1>1, <2>2, CDivByPositive
    <3>2. (-t) \div u \in Nat /\ ((-t) \div u) * u <= -t
      BY <1>1, <3>1, DivisionBounds
    <3> DEFINE q == (-t) \div u
    <3>3. k = -q /\ q \in Nat /\ q * u <= -t
      BY <3>1, <3>2
    <3> HIDE DEF q
    <3>4. u * k = -(q * u) /\ k <= 0
      BY <1>1, <3>3
    <3>5. rem = t + q * u
      BY <1>1, <1>2, <1>5, <3>3, <3>4
    <3>6. rem <= 0
      BY <1>1, <1>2, <2>2, <3>3, <3>5
    <3> QED
      BY <3>4, <3>6
  <2> QED
    BY <2>1, <2>2
<1>7. EpochMs(-t) = -EpochMs(t)
  <2>1. up = 1 \/ up = -1 \/ up = 0
    OBVIOUS
  <2>2. (IF -rem >= half THEN 1 ELSE IF -rem <= -half THEN -1 ELSE 0) = -up
    BY <1>1, <1>2
  <2> QED
    BY <1>1, <1>2, <1>3, <1>4, <2>1, <2>2
<1> DEFINE p == u * k
<1>8. ms * u - t = up * u - rem /\ ms * u = p + up * u
  <2>1. (k + up) * u = u * k + up * u
    BY <1>1, <1>2
  <2> QED
    BY <1>1, <1>2, <1>5, <2>1
<1>9. AbsOf(ms * u - t) <= half
  BY <1>1, <1>2, <1>8 DEF AbsOf
<1>10. ASSUME AbsOf(ms * u - t) = half PROVE AbsOf(ms) * u > AbsOf(t)
  <2>1. CASE t >= 0
    <3>1. up >= 0 /\ up * u - rem > 0
      BY <1>1, <1>2, <1>6, <1>8, <1>10, <2>1 DEF AbsOf
    <3>2. ms \in Nat /\ ms * u > t
      BY <1>1, <1>2, <1>6, <1>8, <2>1, <3>1
    <3> QED
      BY <2>1, <3>2 DEF AbsOf
  <2>2. CASE t < 0
    <3>1. up <= 0 /\ up * u - rem < 0
      BY <1>1, <1>2, <1>6, <1>8, <1>10, <2>2 DEF AbsOf
    <3>2. ms \in Int /\ ms <= 0 /\ ms * u < t
      BY <1>1, <1>2, <1>6, <1>8, <2>2, <3>1
    <3>3. AbsOf(ms) = -ms /\ AbsOf(t) = -t
      BY <2>2, <3>2 DEF AbsOf
    <3>4. (-ms) * u = -(ms * u)
      BY <1>1, <3>2
    <3> QED
      BY <1>1, <3>2, <3>3, <3>4
  <2> QED
    BY <2>1, <2>2
<1> QED
  BY <1>3, <1>7, <1>9, <1>10 DEF u, half

\* So what the oracles compute is what the clock shows.
LEMMA ClockInvImplies == ClockInv => OraclesFollowTheClock
<1> SUFFICES ASSUME ClockInv PROVE OraclesFollowTheClock
  OBVIOUS
<1>1. ts \in Int
  BY InDayRest, InUnits, Units DEF ClockInv, Hands
<1> QED
  BY <1>1, DayIsShown, PartsAreShown, MillisAreNearest DEF OraclesFollowTheClock

-----------------------------------------------------------------------------
\* The invariant of the DECIMALs holds at first, ...
LEMMA DecimalsStart == D!Init => DecimalsInv
BY DEF D!Init, DecimalsInv, AlarmsAreTrue, WrongAnswersAreFound

\* ... every step of theirs keeps it, ...
LEMMA DecimalsKeep ==
    ASSUME DecimalsInv, D!Next
    PROVE  DecimalsInv'
<1>1. CASE D!StartCase
  BY <1>1 DEF D!StartCase, DecimalsInv, AlarmsAreTrue, WrongAnswersAreFound
<1>2. CASE D!CheckWidth
  <2>1. pc = "check width" /\ ~wrong /\ wrong \in BOOLEAN /\ case \in D!Cases /\ outcome = "none"
    BY <1>2 DEF D!CheckWidth, DecimalsInv
  <2>2. D!ResultWidth(case) \in Nat /\ DecimalWidth \in Nat
    BY <2>1, DecimalCase, DecimalConstants
  <2>3. CASE D!ResultWidth(case) > DecimalWidth
    <3>1. pc' = "idle" /\ outcome' = "discard" /\ wrong' = wrong
      BY <1>2, <2>3 DEF D!CheckWidth, D!Ends
    <3> QED
      BY <2>1, <3>1 DEF DecimalsInv, AlarmsAreTrue, WrongAnswersAreFound
  <2>4. CASE ~(D!ResultWidth(case) > DecimalWidth)
    <3>1. pc' = "run" /\ UNCHANGED <<case, answer, modAnswer, outcome, wrong>>
      BY <1>2, <2>4 DEF D!CheckWidth
    <3>2. (D!ResultWidth(case) <= DecimalWidth)'
      <4>1. D!ResultWidth(case') <= DecimalWidth
        BY <2>2, <2>4, <3>1
      <4> QED
        BY <4>1
    <3> QED
      BY <2>1, <3>1, <3>2 DEF DecimalsInv, AlarmsAreTrue, WrongAnswersAreFound
  <2> QED
    BY <2>3, <2>4
<1>3. CASE D!RunOps
  <2>1. /\ pc = "run" /\ pc' = "check" /\ case' = case /\ outcome' = outcome /\ outcome = "none"
        /\ case \in D!Cases /\ D!ResultWidth(case) <= DecimalWidth
        /\ answer' \in {D!RightSum(case)} \cup D!WrongAnswers(D!RightSum(case))
        /\ modAnswer' \in {D!RightDiff(case)} \cup D!WrongAnswers(D!RightDiff(case))
        /\ wrong' = (\/ answer' # D!RightSum(case)
                     \/ modAnswer'.kind # D!RightDiff(case).kind
                     \/ modAnswer'.raw # D!RightDiff(case).raw
                     \/ modAnswer'.type.scale # D!RightDiff(case).type.scale)
    BY <1>3 DEF D!RunOps, DecimalsInv
  <2>2. wrong' \in BOOLEAN
    BY <2>1
  <2>3. wrong' <=> ~(AddedRight' /\ SubtractedRight')
    BY <2>1 DEF AddedRight, SubtractedRight
  <2> QED
    BY <2>1, <2>2, <2>3 DEF DecimalsInv, AlarmsAreTrue, WrongAnswersAreFound
<1>4. CASE D!CheckOps
  <2> DEFINE pass == /\ answer.kind = "value" /\ modAnswer.kind = "value"
                     /\ D!Rendered(answer) = D!DecimalToStringValue(D!OracleSum, D!ResultScale(case))
                     /\ D!Rendered(modAnswer) = D!DecimalToStringValue(D!OracleDiff, D!ResultScale(case))
                     /\ answer.type = D!ResultType(case)
  <2>1. D!Ends(IF pass THEN "pass" ELSE "fail") /\ pc = "check"
    BY <1>4 DEF D!CheckOps
  <2>2. pass <=> AddedRight /\ SubtractedRight
    BY <2>1, DecimalsVerdict DEF DecimalsInv
  <2> HIDE DEF pass
  <2>3. wrong \in BOOLEAN /\ (pass <=> ~wrong)
    BY <2>1, <2>2 DEF DecimalsInv
  <2>4. pc' = "idle" /\ wrong' = wrong /\ outcome' = IF pass THEN "pass" ELSE "fail"
    BY <2>1 DEF D!Ends
  <2> QED
    BY <2>3, <2>4 DEF DecimalsInv, AlarmsAreTrue, WrongAnswersAreFound
<1> QED
  BY <1>1, <1>2, <1>3, <1>4 DEF D!Next

\* ... and so does a step of another part.
LEMMA DecimalsStutter ==
    ASSUME DecimalsInv, UNCHANGED <<pc, case, answer, modAnswer, outcome, wrong>>
    PROVE  DecimalsInv'
BY DEF DecimalsInv, AddedRight, SubtractedRight, AlarmsAreTrue, WrongAnswersAreFound

-----------------------------------------------------------------------------
\* The part that is tested keeps its invariant; the others are at rest.
NumbersInv ==
    /\ part \in {"integers", "decimals", "dates", "times"}
    /\ part = "integers" => IntegersInv
    /\ part = "decimals" => DecimalsInv
    /\ part \in {"dates", "times"} => outcome = "none"

\* The parts together: at first, ...
LEMMA NumbersStart == Init => NumbersInv
<1> SUFFICES ASSUME Init PROVE NumbersInv
  OBVIOUS
<1>1. CASE part = "decimals"
  BY <1>1, DecimalsStart DEF Init, NumbersInv
<1>2. CASE part \in {"integers", "dates", "times"} /\ ArithmeticInit
  <2>1. outcome = "none"
    BY <1>2 DEF ArithmeticInit
  <2> QED
    BY <1>2, <2>1, IntegersInit DEF NumbersInv
<1> QED
  BY <1>1, <1>2 DEF Init

\* ... and in every step.
LEMMA NumbersKeep ==
    ASSUME ModuloIssueOpen, NumbersInv, [Next]_vars
    PROVE  NumbersInv'
<1>1. CASE part = "integers" /\ ArithmeticNext /\ part' = part
  <2>1. IntegersInv'
    BY <1>1, IntegersNext DEF NumbersInv
  <2> QED
    BY <1>1, <2>1 DEF NumbersInv
<1>2. CASE part = "decimals" /\ D!Next /\ part' = part
  <2>1. DecimalsInv'
    BY <1>2, DecimalsKeep DEF NumbersInv
  <2> QED
    BY <1>2, <2>1 DEF NumbersInv
<1>3. CASE UNCHANGED <<part, arithmeticVars>>
  <2>1. UNCHANGED <<pc, case, answer, modAnswer, outcome, wrong>> /\ part' = part
    BY <1>3 DEF arithmeticVars
  <2>2. part = "integers" => IntegersInv'
    BY <1>3, IntegersNext DEF NumbersInv
  <2>3. part = "decimals" => DecimalsInv'
    BY <2>1, DecimalsStutter DEF NumbersInv
  <2> QED
    BY <2>1, <2>2, <2>3 DEF NumbersInv
<1> QED
  BY <1>1, <1>2, <1>3 DEF Next, vars

\* No case of the suite "arithmetic" fails unless DuckDB answered something wrong in it:
\* of integers of any width, whose oracle computes in an __int128 that can overflow, and
\* of DECIMALs of any base and width, whose sums are scaled in one.
THEOREM NumbersAlarmsAreTrue == ModuloIssueOpen => (Spec => []AlarmsAreTrue)
<1> SUFFICES ASSUME ModuloIssueOpen PROVE Spec => []AlarmsAreTrue
  OBVIOUS
<1>1. NumbersInv => AlarmsAreTrue
  BY DEF NumbersInv, IntegersInv, DecimalsInv, AlarmsAreTrue
<1>2. NumbersInv /\ [Next]_vars => NumbersInv'
  BY NumbersKeep
<1> QED
  BY NumbersStart, <1>1, <1>2, PTL DEF Spec

\* And no case passes in which it did.
THEOREM NoWrongNumberPasses == ModuloIssueOpen => (Spec => []WrongAnswersAreFound)
<1> SUFFICES ASSUME ModuloIssueOpen PROVE Spec => []WrongAnswersAreFound
  OBVIOUS
<1>1. NumbersInv => WrongAnswersAreFound
  BY DEF NumbersInv, IntegersInv, DecimalsInv, WrongAnswersAreFound
<1>2. NumbersInv /\ [Next]_vars => NumbersInv'
  BY NumbersKeep
<1> QED
  BY NumbersStart, <1>1, <1>2, PTL DEF Spec

\* The oracles of the suite "datetime" for timestamps and times agree with the clock, in
\* whatever units it counts and however long before the epoch it starts.
THEOREM ClockIsFollowed == Spec => []OraclesFollowTheClock
<1>1. Init => ClockInv
  BY ClockStarts DEF Init
<1>2. ClockInv /\ [Next]_vars => ClockInv'
  <2> SUFFICES ASSUME ClockInv, [Next]_vars PROVE ClockInv'
    OBVIOUS
  <2>1. CASE ClockNext
    BY <2>1, TickKeeps DEF ClockNext
  <2>2. CASE UNCHANGED clockVars
    BY <2>2 DEF clockVars, ClockInv, Hands, HourCount, MinuteCount, SecondCount, MsecCount
  <2> QED
    BY <2>1, <2>2 DEF Next, vars
<1> QED
  BY <1>1, <1>2, ClockInvImplies, PTL DEF Spec

-----------------------------------------------------------------------------
\* The years of the oracles begin on March 1st: the year and the month of a date in them.
MarchYear(y, m) == IF m <= 2 THEN y - 1 ELSE y
MarchMonth(m) == IF m > 2 THEN m - 3 ELSE m + 9

\* The first day of such a year, and how many days are before a month of it.
YearStart(y) == 365 * y + (y \div 4) - (y \div 100) + (y \div 400) - 719468
MonthStart(i) == (153 * i + 2) \div 5

\* An era is told by a division that rounds down.
LEMMA EraOf ==
    ASSUME NEW y \in Int
    PROVE  CDiv(IF y >= 0 THEN y ELSE y - 399, 400) = y \div 400
<1>1. CASE y >= 0
  BY <1>1, CDivByPositive
<1>2. CASE y < 0
  <2>1. y - 399 \in Int /\ 400 \in Nat \ {0} /\ y - 399 < 0
    BY <1>2
  <2>2. CDiv(y - 399, 400) = -((-(y - 399)) \div 400)
    BY <2>1, CDivByPositive
  <2> QED
    BY <1>2, <2>2
<1> QED
  BY <1>1, <1>2

\* Cycles of four and of a hundred years, counted within an era or throughout.
LEMMA CyclesOfEra ==
    ASSUME NEW e \in Int, NEW r \in Nat, r <= 399
    PROVE  /\ (e * 400 + r) \div 400 = e
           /\ (e * 400 + r) \div 100 = e * 4 + (r \div 100)
           /\ (e * 400 + r) \div 4 = e * 100 + (r \div 4)
OBVIOUS

\* So the days before a year can be counted within its era.
LEMMA YearOfEra ==
    ASSUME NEW e \in Int, NEW r \in Nat, r <= 399
    PROVE  YearStart(e * 400 + r) = e * 146097 + r * 365 + (r \div 4) - (r \div 100) - 719468
<1> DEFINE y == e * 400 + r
           a == r \div 4
           b == r \div 100
<1>1. y \in Int /\ a \in Int /\ b \in Int
  OBVIOUS
<1>2. y \div 400 = e /\ y \div 100 = e * 4 + b /\ y \div 4 = e * 100 + a
  BY CyclesOfEra
<1>3. YearStart(y) = 365 * y + (e * 100 + a) - (e * 4 + b) + e - 719468
  BY <1>2, SMT DEF YearStart
<1>4. y = e * 400 + r /\ r \in Int
  OBVIOUS
<1> HIDE DEF y, a, b
<1>5. YearStart(y) = e * 146097 + r * 365 + a - b - 719468
  BY <1>1, <1>3, <1>4, SMT
<1> QED
  BY <1>5, SMT DEF y, a, b

\* DaysFromCivil counts the days before the year, before the month and before the day.
LEMMA DaysForm ==
    ASSUME NEW year \in Int, NEW m \in 1..12, NEW d \in Int
    PROVE  DaysFromCivil(year, m, d) = YearStart(MarchYear(year, m)) + MonthStart(MarchMonth(m)) + d - 1
<1> DEFINE y == MarchYear(year, m)
           i == MarchMonth(m)
           e == y \div 400
           r == y - e * 400
<1>1. y \in Int /\ i \in 0..11
  BY DEF MarchYear, MarchMonth
<1>2. e \in Int /\ r \in Nat /\ r <= 399 /\ y = e * 400 + r
  BY <1>1
<1>3. i = m + (IF m > 2 THEN -3 ELSE 9)
  BY DEF MarchMonth
<1>4. y = (IF m <= 2 THEN year - 1 ELSE year)
  BY DEF MarchYear
<1>5. CDiv(153 * i + 2, 5) = MonthStart(i)
  <2> HIDE DEF i
  <2>1. 153 * i + 2 \in Int /\ 5 \in Nat \ {0} /\ 153 * i + 2 >= 0
    BY <1>1
  <2> QED
    BY <2>1, CDivByPositive, SMT DEF MonthStart
<1>6. CDiv(r, 4) = r \div 4 /\ CDiv(r, 100) = r \div 100
  <2> HIDE DEF r
  <2>1. r \in Int /\ r >= 0 /\ 4 \in Nat \ {0} /\ 100 \in Nat \ {0}
    BY <1>2
  <2> QED
    BY <2>1, CDivByPositive, SMT
<1>7. CDiv(IF y >= 0 THEN y ELSE y - 399, 400) = e
  BY <1>1, EraOf
<1>8. DaysFromCivil(year, m, d) =
        e * 146097 + (r * 365 + CDiv(r, 4) - CDiv(r, 100) + (CDiv(153 * i + 2, 5) + d - 1)) - 719468
  BY <1>3, <1>4, <1>7, SMT DEF DaysFromCivil
<1>9. YearStart(y) = e * 146097 + r * 365 + (r \div 4) - (r \div 100) - 719468
  BY <1>2, YearOfEra, SMT
<1>10. MonthStart(i) \in Int
  BY <1>1 DEF MonthStart
<1> HIDE DEF y, i, e, r
<1>11. DaysFromCivil(year, m, d) = YearStart(y) + MonthStart(i) + d - 1
  BY <1>2, <1>5, <1>6, <1>8, <1>9, <1>10, SMT
<1> QED
  BY <1>11 DEF y, i

\* A month is told by the day of the year.
LEMMA MonthOfDay ==
    ASSUME NEW i \in 0..11, NEW doy \in Nat, doy <= 365, MonthStart(i) <= doy, i < 11 => doy < MonthStart(i + 1)
    PROVE  (5 * doy + 2) \div 153 = i
<1>1. CASE i = 11
  BY <1>1 DEF MonthStart
<1>2. CASE i < 11
  BY <1>2 DEF MonthStart
<1> QED
  BY <1>1, <1>2

\* Whether the year of an era that begins in March ends with a February of 29 days.
EndsLong(r) == (r + 1) % 4 = 0 /\ ((r + 1) % 100 # 0 \/ r = 399)

\* How many days of an era are over.
DayOfEra(r, doy) == 365 * r + (r \div 4) - (r \div 100) + doy

\* The year of an era is told by the day of it.
LEMMA YearOfDay ==
    ASSUME NEW r \in Nat, r <= 399, NEW doy \in Nat, doy <= 365, doy = 365 => EndsLong(r),
           NEW doe, doe = DayOfEra(r, doy)
    PROVE  /\ doe \in Nat /\ doe <= 146096
           /\ (doe - (doe \div 1460) + (doe \div 36524) - (doe \div 146096)) \div 365 = r
<1> DEFINE k == r \div 4
           c == r \div 100
           s == r - 4 * k
           v == 365 * s + doy - c
           b == IF k + v >= 1460 THEN 1 ELSE 0
           w == 1461 * (k - 25 * c) + 365 * s + doy
           last == doe = 146096
<1>1. k \in Nat /\ k <= 99 /\ c \in 0..3 /\ s \in 0..3 /\ r = 4 * k + s /\ k - 25 * c \in Nat /\ k - 25 * c <= 24
  OBVIOUS
<1>2. v \in Int /\ w \in Int /\ doe \in Int /\ doe = 1461 * k + v /\ doe = 36524 * c + w
  BY DEF DayOfEra
<1>3. doy = 365 => s = 3 /\ (k - 25 * c # 24 \/ r = 399)
  BY DEF EndsLong
<1>4. r = 399 => k = 99 /\ c = 3 /\ s = 3
  OBVIOUS
<1>5. r # 399 /\ k - 25 * c = 24 /\ s = 3 => doy # 365
  BY <1>3
<1>6. v = 365 * s + doy - c /\ w = 1461 * (k - 25 * c) + 365 * s + doy
  OBVIOUS
<1>7. b = (IF k + v >= 1460 THEN 1 ELSE 0)
  OBVIOUS
<1> HIDE DEF k, c, s, v, w, b
<1>8. k + v >= 0 /\ k + v < 2920
  BY <1>1, <1>2, <1>6, SMT
<1>9. doe \div 1460 = k + b
  <2>1. doe = 1460 * k + (k + v)
    BY <1>1, <1>2, SMT
  <2> QED
    BY <1>1, <1>2, <1>7, <1>8, <2>1, SMT
<1>10. w >= 0 /\ w <= 36524
  BY <1>1, <1>6, SMT
<1>11. w = 36524 => r = 399 /\ doy = 365
  BY <1>1, <1>3, <1>6, SMT
<1>12. doe \in Nat /\ doe <= 146096 /\ (w = 36524 <=> doe = 146096)
  <2>1. c = 0 \/ c = 1 \/ c = 2 \/ c = 3
    BY <1>1
  <2>2. doe >= 0 /\ doe <= 146096
    BY <1>2, <1>10, <2>1, SMT
  <2>3. w = 36524 => c = 3
    BY <1>4, <1>11, SMT
  <2>4. w = 36524 => doe = 146096
    BY <1>2, <2>3, SMT
  <2>5. doe = 146096 => w = 36524
    BY <1>2, <1>10, <2>1, SMT
  <2> QED
    BY <1>2, <2>2, <2>4, <2>5, SMT
<1>13. doe \div 36524 = (IF last THEN c + 1 ELSE c)
  <2>1. c \in Int
    BY <1>1
  <2>2. CASE w = 36524
    <3>1. doe = 36524 * (c + 1)
      BY <1>2, <2>1, <2>2, SMT
    <3> QED
      BY <1>12, <2>1, <2>2, <3>1, SMT
  <2>3. CASE w < 36524
    BY <1>2, <1>10, <1>12, <2>1, <2>3, SMT
  <2> QED
    BY <1>2, <1>10, <2>2, <2>3, SMT
<1>14. doe \div 146096 = (IF last THEN 1 ELSE 0)
  <2>1. doe \in Nat /\ doe <= 146096
    BY <1>12
  <2>2. CASE doe = 146096
    BY <2>2, SMT
  <2>3. CASE doe < 146096
    BY <2>1, <2>3, SMT
  <2> QED
    BY <2>1, <2>2, <2>3, SMT
<1>15. doy - b \in Nat /\ doy - b <= 364
  <2>1. doy = 365 => k + v >= 1460
    BY <1>1, <1>3, <1>6, SMT
  <2>2. doy = 0 => k + v < 1460
    BY <1>1, <1>6, SMT
  <2> QED
    <3>1. b \in {0, 1} /\ (k + v >= 1460 => b = 1) /\ (k + v < 1460 => b = 0)
      BY <1>1, <1>2, <1>7, SMT
    <3> QED
      BY <1>1, <1>2, <2>1, <2>2, <3>1, SMT
<1>16. doe - (doe \div 1460) + (doe \div 36524) - (doe \div 146096) = 365 * r + (doy - b)
  <2>1. doe - (doe \div 1460) + (doe \div 36524) - (doe \div 146096) = doe - (k + b) + c
    BY <1>1, <1>2, <1>7, <1>9, <1>13, <1>14, SMT
  <2>2. b \in Int /\ k \in Int /\ c \in Int /\ s \in Int
    BY <1>1, <1>7
  <2>3. doe = 1461 * k + (365 * s + doy - c)
    BY <1>2, <1>6
  <2>4. r = 4 * k + s
    BY <1>1
  <2>5. doe - (k + b) + c = 365 * r + (doy - b)
    BY <2>2, <2>3, <2>4, SMT
  <2> QED
    BY <2>1, <2>5
<1>17. (365 * r + (doy - b)) \div 365 = r
  <2> DEFINE z == doy - b
  <2>1. z \in Nat /\ z <= 364
    BY <1>15
  <2> HIDE DEF z
  <2>2. (365 * r + z) \div 365 = r
    BY <2>1, SMT
  <2> QED
    BY <2>2 DEF z
<1> QED
  BY <1>2, <1>12, <1>16, <1>17, SMT

\* Leap years, by remainders that are never negative.
Leap(y) == y % 4 = 0 /\ (y % 100 # 0 \/ y % 400 = 0)

\* The only multiple of a number that is smaller is zero.
LEMMA SmallMultiple ==
    ASSUME NEW u \in Nat \ {0}, NEW w \in Int, u * w >= 0, u * w < u
    PROVE  w = 0
<1>1. w >= 1 => u * w >= u
  <2>1. w >= 1 => u * (w - 1) >= 0
    OBVIOUS
  <2>2. u * (w - 1) = u * w - u
    OBVIOUS
  <2> QED
    BY <2>1, <2>2
<1>2. w <= -1 => u * w <= -u
  <2>1. w <= -1 => u * (-1 - w) >= 0
    OBVIOUS
  <2>2. u * (-1 - w) = -u - u * w
    OBVIOUS
  <2> QED
    BY <2>1, <2>2
<1> QED
  BY <1>1, <1>2

\* A truncating division leaves nothing where one that rounds down leaves nothing.
LEMMA RestIsZero ==
    ASSUME NEW y \in Int, NEW u \in Nat \ {0}
    PROVE  CMod(y, u) = 0 <=> y % u = 0
<1> DEFINE n == y \div u
           z == (-y) \div u
<1>1. y = u * n + (y % u) /\ -y = u * z + ((-y) % u) /\ n \in Int /\ z \in Int
  BY SMT
<1>2. y % u \in 0..u - 1 /\ (-y) % u \in 0..u - 1
  BY SMT
<1>3. CMod(y, u) = y - u * CDiv(y, u)
  BY DEF CMod
<1>4. CASE y >= 0
  <2>1. CDiv(y, u) = n
    BY <1>4, CDivByPositive
  <2> HIDE DEF n
  <2>2. CMod(y, u) = y - u * n
    BY <1>3, <2>1
  <2>3. u * n \in Int
    BY <1>1
  <2> QED
    BY <1>1, <1>2, <2>2, <2>3
<1>5. CASE y < 0
  <2>1. CDiv(y, u) = -z
    BY <1>5, CDivByPositive
  <2> HIDE DEF n, z
  <2>2. u * (-z) = -(u * z) /\ u * z \in Int /\ u * n \in Int
    BY <1>1
  <2>3. CMod(y, u) = y + u * z
    BY <1>3, <2>1, <2>2
  <2>4. CMod(y, u) = 0 <=> y = -(u * z)
    BY <2>2, <2>3
  <2>5. ASSUME y % u = 0 PROVE CMod(y, u) = 0
    <3>1. -y = u * (-n) /\ -n \in Int
      BY <1>1, <2>2, <2>5
    <3>2. (-y) % u = 0
      <4>1. u * (-n - z) = u * (-n) - u * z
        BY <1>1
      <4>2. u * (-n - z) = (-y) % u
        BY <1>1, <1>2, <2>2, <3>1, <4>1
      <4>3. -n - z \in Int
        BY <1>1
      <4>4. u * (-n - z) >= 0 /\ u * (-n - z) < u
        BY <1>2, <4>2
      <4>5. -n - z = 0
        BY <4>3, <4>4, SmallMultiple
      <4> QED
        BY <4>2, <4>5
    <3> QED
      BY <1>1, <2>2, <2>4, <3>2
  <2>6. ASSUME CMod(y, u) = 0 PROVE y % u = 0
    <3>1. y = u * (-z) /\ -z \in Int
      BY <1>1, <2>2, <2>4, <2>6
    <3>2. u * (-z - n) = u * (-z) - u * n
      BY <1>1
    <3>3. u * (-z - n) = y % u
      <4>1. u * (-z - n) = y - u * n
        BY <3>1, <3>2
      <4>2. y % u = y - u * n
        <5> DEFINE q == y % u
                   v == u * n
        <5>1. y = v + q /\ v \in Int /\ q \in Int
          BY <1>1, <1>2, <2>2
        <5> HIDE DEF q, v
        <5>2. q = y - v
          BY <5>1
        <5> QED
          BY <5>2 DEF q, v
      <4> QED
        BY <4>1, <4>2
    <3>4. -z - n \in Int
      BY <1>1
    <3>5. u * (-z - n) >= 0 /\ u * (-z - n) < u
      BY <1>2, <3>3
    <3>6. -z - n = 0
      BY <3>4, <3>5, SmallMultiple
    <3> QED
      BY <3>3, <3>6
  <2> QED
    BY <2>5, <2>6
<1> QED
  BY <1>4, <1>5

\* So the oracle finds the leap years.
LEMMA LeapYears ==
    ASSUME NEW y \in Int
    PROVE  IsLeap(y) <=> Leap(y)
<1>1. CMod(y, 4) = 0 <=> y % 4 = 0
  BY RestIsZero
<1>2. CMod(y, 100) = 0 <=> y % 100 = 0
  BY RestIsZero
<1>3. CMod(y, 400) = 0 <=> y % 400 = 0
  BY RestIsZero
<1> QED
  BY <1>1, <1>2, <1>3, Zenon DEF IsLeap, Leap

\* A year that begins in March ends with the February of the next.
LEMMA YearGrows ==
    ASSUME NEW y \in Int
    PROVE  YearStart(y + 1) = YearStart(y) + 365 + (IF Leap(y + 1) THEN 1 ELSE 0)
<1> DEFINE a == IF (y + 1) % 4 = 0 THEN 1 ELSE 0
           b == IF (y + 1) % 100 = 0 THEN 1 ELSE 0
           c == IF (y + 1) % 400 = 0 THEN 1 ELSE 0
<1>1. (y + 1) \div 4 = (y \div 4) + a
  BY SMT
<1>2. (y + 1) \div 100 = (y \div 100) + b
  BY SMT
<1>3. (y + 1) \div 400 = (y \div 400) + c
  BY SMT
<1>4. (c = 1 => b = 1) /\ (b = 1 => a = 1)
  BY SMT
<1>5. (IF Leap(y + 1) THEN 1 ELSE 0) = a - b + c
  BY <1>4, SMT DEF Leap
<1>6. a \in Int /\ b \in Int /\ c \in Int
  OBVIOUS
<1> HIDE DEF a, b, c
<1>7. YearStart(y + 1) = 365 * (y + 1) + ((y \div 4) + a) - ((y \div 100) + b) + ((y \div 400) + c) - 719468
  BY <1>1, <1>2, <1>3, SMT DEF YearStart
<1>8. YearStart(y) = 365 * y + (y \div 4) - (y \div 100) + (y \div 400) - 719468
  BY SMT DEF YearStart
<1>9. YearStart(y + 1) = YearStart(y) + 365 + (a - b + c)
  <2> DEFINE p == y \div 4
             q == y \div 100
             r == y \div 400
  <2>1. p \in Int /\ q \in Int /\ r \in Int
    BY SMT
  <2>2. YearStart(y + 1) = 365 * (y + 1) + (p + a) - (q + b) + (r + c) - 719468
    BY <1>7, SMT
  <2>3. YearStart(y) = 365 * y + p - q + r - 719468
    BY <1>8, SMT
  <2> HIDE DEF p, q, r
  <2> QED
    BY <1>6, <2>1, <2>2, <2>3, SMT
<1> QED
  BY <1>5, <1>9, SMT

\* Which years of an era end long.
LEMMA EndsOfEra ==
    ASSUME NEW e \in Int, NEW r \in Nat, r <= 399
    PROVE  Leap(e * 400 + r + 1) <=> EndsLong(r)
<1>1. (e * 400 + r + 1) % 4 = (r + 1) % 4
  BY SMT
<1>2. (e * 400 + r + 1) % 100 = (r + 1) % 100
  BY SMT
<1>3. (e * 400 + r + 1) % 400 = 0 <=> r = 399
  BY SMT
<1> QED
  BY <1>1, <1>2, <1>3, SMT DEF Leap, EndsLong

\* The places of the months in a year of the oracles.
LEMMA MonthPlaces ==
    /\ MonthStart(0) = 0 /\ MonthStart(1) = 31 /\ MonthStart(2) = 61 /\ MonthStart(3) = 92
    /\ MonthStart(4) = 122 /\ MonthStart(5) = 153 /\ MonthStart(6) = 184 /\ MonthStart(7) = 214
    /\ MonthStart(8) = 245 /\ MonthStart(9) = 275 /\ MonthStart(10) = 306 /\ MonthStart(11) = 337
BY SMT DEF MonthStart

\* The lengths of the months that end within a year of the oracles.
LEMMA MonthLengths ==
    ASSUME NEW y \in Int, NEW m \in 1..12
    PROVE  /\ m = 2 => LastDayOfMonth(y, m) = (IF Leap(y) THEN 29 ELSE 28)
           /\ m # 2 => LastDayOfMonth(y, m) = MonthStart(MarchMonth(m) + 1) - MonthStart(MarchMonth(m))
<1>1. CASE m = 2
  BY <1>1, LeapYears, SMT DEF LastDayOfMonth
<1>2. CASE m # 2
  <2>1. LastDayOfMonth(y, m) = <<31, 28, 31, 30, 31, 30, 31, 31, 30, 31, 30, 31>>[m]
    BY <1>2 DEF LastDayOfMonth
  <2>2. CASE m = 1
    <3>1. MarchMonth(m) = 10 /\ LastDayOfMonth(y, m) = 31
      BY <2>1, <2>2, SMT DEF MarchMonth
    <3> QED
      BY <2>2, <3>1, MonthPlaces, SMT
  <2>3. CASE m \in {3, 4, 5, 6}
    BY <2>1, <2>3, MonthPlaces, SMT DEF MarchMonth
  <2>4. CASE m \in {7, 8, 9}
    BY <2>1, <2>4, MonthPlaces, SMT DEF MarchMonth
  <2>5. CASE m \in {10, 11, 12}
    BY <2>1, <2>5, MonthPlaces, SMT DEF MarchMonth
  <2> QED
    BY <1>2, <2>2, <2>3, <2>4, <2>5, SMT
<1> QED
  BY <1>1, <1>2

\* The date of a day of a year of the oracles.
LEMMA CivilForm ==
    ASSUME NEW y \in Int, NEW i \in 0..11, NEW doy \in Nat, doy <= 365,
           MonthStart(i) <= doy, i < 11 => doy < MonthStart(i + 1),
           doy = 365 => Leap(y + 1), NEW days, days = YearStart(y) + doy
    PROVE  CivilFromDays(days) =
             [y |-> IF i < 10 THEN y ELSE y + 1, m |-> IF i < 10 THEN i + 3 ELSE i - 9,
              d |-> doy - MonthStart(i) + 1]
<1> DEFINE e == y \div 400
           r == y - e * 400
           z == days + 719468
           doe == DayOfEra(r, doy)
<1>1. e \in Int /\ r \in Nat /\ r <= 399 /\ y = e * 400 + r
  BY SMT
<1> HIDE DEF e, r
<1>2. doy = 365 => EndsLong(r)
  <2>1. y + 1 = e * 400 + r + 1
    BY <1>1
  <2> QED
    BY <1>1, <2>1, EndsOfEra
<1>3. doe \in Nat /\ doe <= 146096
      /\ (doe - (doe \div 1460) + (doe \div 36524) - (doe \div 146096)) \div 365 = r
  BY <1>1, <1>2, YearOfDay
<1>4. doe = 365 * r + (r \div 4) - (r \div 100) + doy
  BY DEF DayOfEra
<1>5. z = e * 146097 + doe
  <2> DEFINE a == r \div 4
             b == r \div 100
  <2>1. a \in Int /\ b \in Int
    BY <1>1, SMT
  <2>2. YearStart(y) = e * 146097 + r * 365 + a - b - 719468
    BY <1>1, YearOfEra, SMT
  <2>3. doe = 365 * r + a - b + doy
    BY <1>4
  <2> HIDE DEF a, b, doe
  <2>4. days = e * 146097 + r * 365 + a - b - 719468 + doy
    BY <2>2, SMT
  <2> QED
    BY <1>1, <2>1, <2>3, <2>4, SMT
<1> HIDE DEF z, doe
<1>6. CDiv(IF z >= 0 THEN z ELSE z - 146096, 146097) = e
  <2>1. CASE z >= 0
    <3>0. z \in Int /\ z >= 0
      BY <1>1, <1>3, <1>5, <2>1, SMT
    <3>1. CDiv(z, 146097) = z \div 146097
      BY <3>0, CDivByPositive, SMT
    <3>2. z \div 146097 = e
      BY <1>1, <1>3, <1>5, SMT
    <3> QED
      BY <2>1, <3>1, <3>2, SMT
  <2>2. CASE z < 0
    <3>1. z - 146096 \in Int /\ z - 146096 < 0 /\ z \in Int
      BY <1>1, <1>3, <1>5, <2>2, SMT
    <3>2. CDiv(z - 146096, 146097) = -((-(z - 146096)) \div 146097)
      BY <3>1, CDivByPositive, SMT
    <3>3. -(z - 146096) = (-e) * 146097 + (146096 - doe)
      BY <1>1, <1>3, <1>5, SMT
    <3>4. (-(z - 146096)) \div 146097 = -e
      BY <1>1, <1>3, <3>3, SMT
    <3>5. ~(z >= 0)
      BY <2>2, <3>1
    <3> QED
      BY <1>1, <3>2, <3>4, <3>5, SMT
  <2>3. z \in Int
    BY <1>1, <1>3, <1>5, SMT
  <2> QED
    BY <2>1, <2>2, <2>3, SMT
<1>7. z - e * 146097 = doe
  BY <1>1, <1>3, <1>5, SMT
<1>8. /\ CDiv(doe, 1460) = doe \div 1460 /\ CDiv(doe, 36524) = doe \div 36524
      /\ CDiv(doe, 146096) = doe \div 146096
  BY <1>3, CDivByPositive, SMT
<1>9. CDiv(doe - CDiv(doe, 1460) + CDiv(doe, 36524) - CDiv(doe, 146096), 365) = r
  <2> DEFINE n == doe - (doe \div 1460) + (doe \div 36524) - (doe \div 146096)
  <2>1. n \in Int
    BY <1>3, SMT
  <2>2. n >= 0
    BY <1>3, SMT
  <2>3. n \div 365 = r
    BY <1>3, SMT
  <2>4. CDiv(doe - CDiv(doe, 1460) + CDiv(doe, 36524) - CDiv(doe, 146096), 365) = CDiv(n, 365)
    BY <1>8, SMT
  <2> HIDE DEF n
  <2>5. CDiv(n, 365) = n \div 365
    BY <2>1, <2>2, CDivByPositive, SMT
  <2> QED
    BY <2>3, <2>4, <2>5, SMT
<1>10. CDiv(r, 4) = r \div 4 /\ CDiv(r, 100) = r \div 100
  BY <1>1, CDivByPositive, SMT
<1>11. doe - (365 * r + CDiv(r, 4) - CDiv(r, 100)) = doy
  <2> DEFINE a == r \div 4
             b == r \div 100
  <2>1. a \in Int /\ b \in Int
    BY <1>1, SMT
  <2>2. doe = 365 * r + a - b + doy
    BY <1>4
  <2>3. 365 * r + CDiv(r, 4) - CDiv(r, 100) = 365 * r + a - b
    BY <1>10
  <2> HIDE DEF a, b
  <2> QED
    BY <1>1, <2>1, <2>2, <2>3, SMT
<1>12. CDiv(5 * doy + 2, 153) = i
  <2>1. CDiv(5 * doy + 2, 153) = (5 * doy + 2) \div 153
    BY CDivByPositive, SMT
  <2> QED
    BY <2>1, MonthOfDay, SMT
<1>13. CDiv(153 * i + 2, 5) = MonthStart(i)
  <2> DEFINE x == 153 * i + 2
  <2>1. x \in Int /\ x >= 0
    OBVIOUS
  <2> HIDE DEF x
  <2>2. CDiv(x, 5) = x \div 5
    BY <2>1, CDivByPositive
  <2> QED
    BY <2>2 DEF MonthStart, x
<1> DEFINE m == IF i < 10 THEN i + 3 ELSE i - 9
<1>14. CivilFromDays(days) = [y |-> IF m <= 2 THEN r + e * 400 + 1 ELSE r + e * 400, m |-> m,
                              d |-> doy - MonthStart(i) + 1]
  BY <1>6, <1>7, <1>9, <1>11, <1>12, <1>13, SMT DEF CivilFromDays, z
<1>15. r + e * 400 = y
  BY <1>1
<1>16. m <= 2 <=> ~(i < 10)
  OBVIOUS
<1> QED
  BY <1>14, <1>15, <1>16

\* What a date consists of.
LEMMA DateType ==
    ASSUME NEW c \in Dates
    PROVE  /\ c.y \in Int /\ c.m \in 1..12 /\ c.d \in Nat /\ c.d >= 1 /\ c.d <= LastDayOfMonth(c.y, c.m)
           /\ c = [y |-> c.y, m |-> c.m, d |-> c.d]
BY DEF Dates

\* These functions yield numbers.
LEMMA MonthStartType ==
    ASSUME NEW i \in Nat
    PROVE  MonthStart(i) \in Nat
BY SMT DEF MonthStart

\* The same of the years.
LEMMA YearStartType ==
    ASSUME NEW y \in Int
    PROVE  YearStart(y) \in Int
BY SMT DEF YearStart

\* The day of a date, counted from the beginning of its year of the oracles.
LEMMA DayInYear ==
    ASSUME NEW c \in Dates
    PROVE  LET i == MarchMonth(c.m)
               y == MarchYear(c.y, c.m)
               doy == MonthStart(i) + c.d - 1
           IN /\ y \in Int /\ i \in 0..11 /\ doy \in Nat /\ doy <= 365
              /\ MonthStart(i) <= doy /\ (i < 11 => doy < MonthStart(i + 1))
              /\ doy = 365 => Leap(y + 1)
              /\ Days(c) = YearStart(y) + doy
<1> DEFINE i == MarchMonth(c.m)
           y == MarchYear(c.y, c.m)
           doy == MonthStart(i) + c.d - 1
<1>1. c.y \in Int /\ c.m \in 1..12 /\ c.d \in Nat /\ c.d >= 1 /\ c.d <= LastDayOfMonth(c.y, c.m)
  BY DateType
<1>2. y \in Int /\ i \in 0..11
  BY <1>1 DEF MarchYear, MarchMonth
<1>3. Days(c) = YearStart(y) + doy
  <2>1. Days(c) = YearStart(y) + MonthStart(i) + c.d - 1
    BY <1>1, DaysForm DEF Days
  <2>2. YearStart(y) \in Int /\ MonthStart(i) \in Nat
    BY <1>2, YearStartType, MonthStartType
  <2> QED
    BY <1>1, <2>1, <2>2
<1>4. CASE c.m = 2
  <2>1. i = 11 /\ y + 1 = c.y
    BY <1>1, <1>4 DEF MarchYear, MarchMonth
  <2>2. c.d <= (IF Leap(y + 1) THEN 29 ELSE 28)
    BY <1>1, <1>4, <2>1, MonthLengths
  <2>3. doy = 337 + c.d - 1
    BY <2>1, MonthPlaces
  <2>4. doy \in Nat /\ doy <= 365 /\ (doy = 365 => Leap(y + 1)) /\ 337 <= doy
    BY <1>1, <2>2, <2>3
  <2>5. MonthStart(i) = 337
    BY <2>1, MonthPlaces
  <2> QED
    BY <1>2, <1>3, <2>1, <2>4, <2>5
<1>5. CASE c.m # 2
  <2>1. i < 11
    BY <1>1, <1>5 DEF MarchMonth
  <2>2. LastDayOfMonth(c.y, c.m) = MonthStart(i + 1) - MonthStart(i)
    BY <1>1, <1>5, MonthLengths
  <2>3. MonthStart(i + 1) \in Nat /\ MonthStart(i) \in Nat /\ MonthStart(i + 1) <= 337
    BY <1>2, <2>1, SMT DEF MonthStart
  <2> HIDE DEF i, y
  <2>4. doy \in Nat /\ doy <= 336 /\ MonthStart(i) <= doy /\ doy < MonthStart(i + 1)
    BY <1>1, <2>2, <2>3
  <2> QED
    BY <1>2, <1>3, <2>1, <2>4 DEF i, y
<1> QED
  BY <1>1, <1>4, <1>5

\* The two directions of the conversion are inverse to each other on all dates.
LEMMA RoundTrip ==
    ASSUME NEW c \in Dates
    PROVE  CivilFromDays(Days(c)) = c /\ Days(c) \in Int
<1> DEFINE i == MarchMonth(c.m)
           y == MarchYear(c.y, c.m)
           doy == MonthStart(i) + c.d - 1
           days == Days(c)
<1>1. c.y \in Int /\ c.m \in 1..12 /\ c.d \in Nat /\ c = [y |-> c.y, m |-> c.m, d |-> c.d]
  BY DateType
<1>2. /\ y \in Int /\ i \in 0..11 /\ doy \in Nat /\ doy <= 365
      /\ MonthStart(i) <= doy /\ (i < 11 => doy < MonthStart(i + 1))
      /\ doy = 365 => Leap(y + 1)
      /\ days = YearStart(y) + doy
  BY DayInYear
<1>3. (IF i < 10 THEN y ELSE y + 1) = c.y /\ (IF i < 10 THEN i + 3 ELSE i - 9) = c.m
  BY <1>1 DEF MarchYear, MarchMonth
<1>4. doy - MonthStart(i) + 1 = c.d
  <2>1. MonthStart(i) \in Nat
    BY <1>2, MonthStartType
  <2> HIDE DEF i
  <2> QED
    BY <1>1, <2>1
<1>5. days \in Int
  BY <1>2, YearStartType
<1> HIDE DEF i, y, doy, days
<1>6. CivilFromDays(days) =
        [y |-> IF i < 10 THEN y ELSE y + 1, m |-> IF i < 10 THEN i + 3 ELSE i - 9,
         d |-> doy - MonthStart(i) + 1]
  BY <1>2, CivilForm
<1>7. CivilFromDays(days) = c
  BY <1>1, <1>3, <1>4, <1>6
<1> QED
  BY <1>5, <1>7 DEF days

\* The first day of a year.
FirstOf(y) == [y |-> y, m |-> 1, d |-> 1]

\* Where it is, and how far the next one is.
LEMMA JanuaryFirst ==
    ASSUME NEW y \in Int
    PROVE  /\ FirstOf(y) \in Dates
           /\ DaysFromCivil(y, 1, 1) = YearStart(y - 1) + 306
           /\ DaysFromCivil(y, 1, 1) \in Int
           /\ DaysFromCivil(y + 1, 1, 1) = DaysFromCivil(y, 1, 1) + 365 + (IF Leap(y) THEN 1 ELSE 0)
<1>0. ASSUME NEW z \in Int PROVE DaysFromCivil(z, 1, 1) = YearStart(z - 1) + 306
  <2>1. MarchYear(z, 1) = z - 1 /\ MarchMonth(1) = 10
    BY DEF MarchYear, MarchMonth
  <2>2. DaysFromCivil(z, 1, 1) = YearStart(MarchYear(z, 1)) + MonthStart(MarchMonth(1)) + 1 - 1
    BY DaysForm
  <2>3. YearStart(z - 1) \in Int
    BY YearStartType
  <2> QED
    BY <2>1, <2>2, <2>3, MonthPlaces
<1>1. DaysFromCivil(y, 1, 1) = YearStart(y - 1) + 306
  BY <1>0
<1>2. DaysFromCivil(y + 1, 1, 1) = YearStart(y) + 306
  <2>1. (y + 1) - 1 = y /\ y + 1 \in Int
    OBVIOUS
  <2> QED
    BY <1>0, <2>1
<1>3. YearStart(y) = YearStart(y - 1) + 365 + (IF Leap(y) THEN 1 ELSE 0)
  <2>1. y - 1 \in Int /\ (y - 1) + 1 = y
    OBVIOUS
  <2> QED
    BY <2>1, YearGrows
<1>4. YearStart(y) \in Int /\ YearStart(y - 1) \in Int
  BY YearStartType
<1>5. FirstOf(y) \in Dates
  <2>1. LastDayOfMonth(y, 1) = 31
    BY SMT DEF LastDayOfMonth
  <2> QED
    BY <2>1 DEF FirstOf, Dates
<1> QED
  BY <1>1, <1>2, <1>3, <1>4, <1>5

\* Where in its year a date is.
LEMMA DayOfDate ==
    ASSUME NEW c \in Dates
    PROVE  /\ DaysFromCivil(c.y, 1, 1) <= Days(c) /\ Days(c) < DaysFromCivil(c.y + 1, 1, 1)
           /\ c.m = 1 => Days(c) = DaysFromCivil(c.y, 1, 1) + c.d - 1
           /\ c.m = 12 => Days(c) = DaysFromCivil(c.y + 1, 1, 1) - 32 + c.d
           /\ c.m # 1 => Days(c) >= DaysFromCivil(c.y, 1, 1) + 31
           /\ c.m # 12 => Days(c) < DaysFromCivil(c.y + 1, 1, 1) - 31
           /\ c.m = 1 \/ c.m = 12 => c.d <= 31
<1> DEFINE i == MarchMonth(c.m)
           y == MarchYear(c.y, c.m)
           doy == MonthStart(i) + c.d - 1
           J == DaysFromCivil(c.y, 1, 1)
           K == DaysFromCivil(c.y + 1, 1, 1)
           leap == IF Leap(c.y) THEN 1 ELSE 0
<1>1. c.y \in Int /\ c.m \in 1..12 /\ c.d \in Nat /\ c.d >= 1 /\ c.d <= LastDayOfMonth(c.y, c.m)
  BY DateType
<1>2. /\ y \in Int /\ i \in 0..11 /\ doy \in Nat /\ doy <= 365
      /\ MonthStart(i) <= doy /\ (i < 11 => doy < MonthStart(i + 1))
      /\ doy = 365 => Leap(y + 1)
      /\ Days(c) = YearStart(y) + doy
  BY DayInYear
<1>3. J = YearStart(c.y - 1) + 306 /\ K = J + 365 + leap /\ J \in Int
  BY <1>1, JanuaryFirst
<1>4. YearStart(c.y) = YearStart(c.y - 1) + 365 + leap
  <2>1. c.y - 1 \in Int /\ (c.y - 1) + 1 = c.y
    BY <1>1
  <2> QED
    BY <2>1, YearGrows
<1>5. YearStart(c.y) \in Int /\ YearStart(c.y - 1) \in Int
  BY <1>1, YearStartType
<1>6. leap \in {0, 1} /\ Days(c) \in Int
  BY RoundTrip
<1>7. c.m = 1 \/ c.m = 12 => c.d <= 31
  <2>1. c.m = 1 \/ c.m = 12 => LastDayOfMonth(c.y, c.m) = 31
    BY <1>1, SMT DEF LastDayOfMonth
  <2> QED
    BY <1>1, <2>1
<1> HIDE DEF J, K, leap
<1>8. CASE c.m <= 2
  <2>1. y = c.y - 1 /\ i = c.m + 9
    BY <1>1, <1>8 DEF MarchYear, MarchMonth
  <2>2. Days(c) = YearStart(c.y - 1) + doy
    BY <1>2, <2>1
  <2>3. doy <= 365
    BY <1>2
  <2>4. CASE c.m = 1
    <3>1. MonthStart(i) = 306
      BY <2>1, <2>4, MonthPlaces
    <3>2. doy = 306 + c.d - 1
      BY <3>1
    <3> QED
      BY <1>1, <1>3, <1>5, <1>6, <1>7, <2>2, <2>4, <3>2 DEF J, K
  <2>5. CASE c.m = 2
    <3>1. MonthStart(i) = 337
      BY <2>1, <2>5, MonthPlaces
    <3>2. doy >= 337
      BY <1>2, <3>1
    <3> HIDE DEF doy
    <3>3. doy \in Int
      BY <1>2
    <3>4. Days(c) >= J + 31 /\ Days(c) < K - 31
      BY <1>3, <1>5, <1>6, <2>2, <2>3, <3>2, <3>3
    <3> QED
      <4>1. K \in Int /\ J <= Days(c) /\ Days(c) < K
        BY <1>3, <1>6, <3>4
      <4> QED
        BY <1>3, <1>6, <2>5, <3>4, <4>1 DEF J, K
  <2> QED
    BY <1>1, <1>8, <2>4, <2>5
<1>9. CASE c.m > 2
  <2>1. y = c.y /\ i = c.m - 3
    BY <1>1, <1>9 DEF MarchYear, MarchMonth
  <2>2. Days(c) = YearStart(c.y) + doy
    BY <1>2, <2>1
  <2>3. K = YearStart(c.y) + 306
    BY <1>3, <1>4, <1>5, <1>6
  <2>4. YearStart(c.y) >= J + 59
    BY <1>3, <1>4, <1>5, <1>6
  <2>5. CASE c.m = 12
    <3>1. MonthStart(i) = 275
      BY <2>1, <2>5, MonthPlaces
    <3>2. doy = 275 + c.d - 1
      BY <3>1
    <3> QED
      BY <1>1, <1>3, <1>5, <1>6, <1>7, <2>2, <2>3, <2>4, <2>5, <3>2 DEF J, K
  <2>6. CASE c.m # 12
    <3>1. i <= 8
      BY <1>1, <1>9, <2>1, <2>6
    <3>2. MonthStart(i + 1) <= 275
      BY <1>2, <3>1, SMT DEF MonthStart
    <3>3. doy < 275
      <4> HIDE DEF doy, i
      <4>1. MonthStart(i + 1) \in Nat /\ doy < MonthStart(i + 1)
        BY <1>2, <3>1, MonthStartType
      <4> QED
        BY <1>2, <3>2, <4>1
    <3> HIDE DEF doy
    <3>4. Days(c) >= J + 31 /\ Days(c) < K - 31
      BY <1>2, <1>3, <1>5, <1>6, <2>2, <2>3, <2>4, <3>3
    <3> QED
      <4>1. K \in Int /\ J <= Days(c) /\ Days(c) < K /\ c.m # 1
        BY <1>3, <1>6, <1>9, <3>4
      <4> QED
        BY <1>3, <1>6, <2>6, <3>4, <4>1 DEF J, K
  <2> QED
    BY <2>5, <2>6
<1> QED
  BY <1>1, <1>8, <1>9

\* A day within a year has a date in that year.
LEMMA YearOfWeek ==
    ASSUME NEW Y \in Int, NEW n \in Int,
           DaysFromCivil(Y, 1, 1) <= n, n < DaysFromCivil(Y + 1, 1, 1)
    PROVE  CivilFromDays(n).y = Y
<1> DEFINE s == YearStart(Y)
           p == YearStart(Y - 1)
           leap == IF Leap(Y) THEN 1 ELSE 0
<1>1. DaysFromCivil(Y, 1, 1) = p + 306 /\ DaysFromCivil(Y + 1, 1, 1) = p + 306 + 365 + leap
  BY JanuaryFirst
<1>2. s = p + 365 + leap
  <2>1. Y - 1 \in Int /\ (Y - 1) + 1 = Y
    OBVIOUS
  <2> QED
    BY <2>1, YearGrows
<1>3. s \in Int /\ p \in Int /\ leap \in {0, 1} /\ (leap = 1 => Leap(Y))
  BY YearStartType
<1> HIDE DEF s, p, leap
<1>4. ASSUME NEW doy \in Nat, doy <= 365
      PROVE  LET i == (5 * doy + 2) \div 153
             IN i \in 0..11 /\ MonthStart(i) <= doy /\ (i < 11 => doy < MonthStart(i + 1))
  BY <1>4, SMT DEF MonthStart
<1>5. CASE n >= s
  <2> DEFINE doy == n - s
             i == (5 * doy + 2) \div 153
  <2>1. doy \in Nat /\ doy < 306 /\ n = s + doy
    BY <1>1, <1>2, <1>3, <1>5
  <2> HIDE DEF doy
  <2>2. i \in 0..11 /\ MonthStart(i) <= doy /\ (i < 11 => doy < MonthStart(i + 1))
    BY <1>4, <2>1
  <2>3. i < 10
    BY <2>1, SMT
  <2> HIDE DEF i
  <2>4. doy <= 365 /\ (doy = 365 => Leap(Y + 1))
    BY <2>1
  <2>5. CivilFromDays(n) = [y |-> IF i < 10 THEN Y ELSE Y + 1, m |-> IF i < 10 THEN i + 3 ELSE i - 9,
                            d |-> doy - MonthStart(i) + 1]
    BY <2>1, <2>2, <2>4, CivilForm DEF s
  <2> QED
    BY <2>3, <2>5
<1>6. CASE n < s
  <2> DEFINE doy == n - p
             i == (5 * doy + 2) \div 153
             y == Y - 1
  <2>1. doy \in Nat /\ doy >= 306 /\ doy <= 364 + leap /\ n = p + doy
    BY <1>1, <1>2, <1>3, <1>6
  <2> HIDE DEF doy
  <2>2. doy <= 365 /\ (doy = 365 => leap = 1)
    BY <1>3, <2>1
  <2>3. i \in 0..11 /\ MonthStart(i) <= doy /\ (i < 11 => doy < MonthStart(i + 1))
    BY <1>4, <2>1, <2>2
  <2>4. i >= 10
    BY <2>1, SMT
  <2>5. y \in Int /\ y + 1 = Y
    OBVIOUS
  <2>6. n = YearStart(y) + doy
    BY <2>1 DEF p
  <2> HIDE DEF i, y
  <2>7. doy = 365 => Leap(y + 1)
    BY <1>3, <2>2, <2>5
  <2>8. CivilFromDays(n) = [y |-> IF i < 10 THEN y ELSE y + 1, m |-> IF i < 10 THEN i + 3 ELSE i - 9,
                            d |-> doy - MonthStart(i) + 1]
    BY <2>1, <2>2, <2>3, <2>5, <2>6, <2>7, CivilForm
  <2> QED
    BY <2>3, <2>4, <2>5, <2>8
<1> QED
  BY <1>3, <1>5, <1>6

\* The weekday by a remainder that is never negative.
LEMMA WeekdayForm ==
    ASSUME NEW n \in Int
    PROVE  Weekday(n) = ((n + 3) % 7) + 1
<1> DEFINE r == CMod(n, 7)
<1>1. r \in Int /\ r > -7 /\ r < 7 /\ \E k \in Int : n = 7 * k + r
  <2>1. CASE n >= 0
    <3>1. CDiv(n, 7) = n \div 7
      BY <2>1, CDivByPositive
    <3>2. r = n - 7 * (n \div 7)
      BY <3>1 DEF CMod
    <3>3. n \div 7 \in Int
      BY SMT
    <3> QED
      BY <3>2, <3>3, SMT
  <2>2. CASE n < 0
    <3>1. CDiv(n, 7) = -((-n) \div 7)
      BY <2>2, CDivByPositive
    <3>2. r = n - 7 * (-((-n) \div 7))
      BY <3>1 DEF CMod
    <3> DEFINE z == (-n) \div 7
    <3>3. z \in Int /\ 7 * z <= -n /\ -n < 7 * z + 7
      BY SMT
    <3>4. r = n - 7 * (-z)
      BY <3>2
    <3> HIDE DEF r, z
    <3>5. r = n + 7 * z /\ -z \in Int
      BY <3>3, <3>4
    <3>6. n = 7 * (-z) + r
      BY <3>3, <3>5
    <3> QED
      BY <3>3, <3>5, <3>6
  <2> QED
    BY <2>1, <2>2
<1>2. PICK k \in Int : n = 7 * k + r
  BY <1>1
<1> HIDE DEF r
<1> DEFINE q == r + 10
<1>3. q \in Int /\ q >= 0
  BY <1>1
<1>4. CDiv(q, 7) = q \div 7
  BY <1>3, CDivByPositive
<1>5. CMod(q, 7) = q - 7 * (q \div 7)
  BY <1>4 DEF CMod
<1>6. CMod(q, 7) = (n + 3) % 7
  BY <1>1, <1>2, <1>3, <1>5, SMT
<1> QED
  BY <1>6 DEF Weekday, r

\* The rule of the calendar and the oracle count the same days.
LEMMA SameNewYear ==
    ASSUME NEW y \in Int
    PROVE  NewYear(y) = DaysFromCivil(y, 1, 1) /\ NewYear(y + 1) = DaysFromCivil(y + 1, 1, 1)
<1>1. ASSUME NEW z \in Int PROVE NewYear(z) = DaysFromCivil(z, 1, 1)
  <2> DEFINE a == (z - 1) \div 4
             b == (z - 1) \div 100
             e == (z - 1) \div 400
  <2>1. a \in Int /\ b \in Int /\ e \in Int
    BY SMT
  <2>2. NewYear(z) = 365 * (z - 1970) + a - b + e - 477
    BY SMT DEF NewYear
  <2>3. YearStart(z - 1) = 365 * (z - 1) + a - b + e - 719468
    BY SMT DEF YearStart
  <2>4. DaysFromCivil(z, 1, 1) = YearStart(z - 1) + 306
    BY JanuaryFirst
  <2> HIDE DEF a, b, e
  <2> QED
    BY <2>1, <2>2, <2>3, <2>4, SMT
<1> QED
  BY <1>1

\* Whether a year has a 29th of February.
LeapDay(y) == IF Leap(y) THEN 1 ELSE 0

\* A leap year has one more.
LEMMA LeapDays ==
    ASSUME NEW y \in Int
    PROVE  NewYear(y + 1) - NewYear(y) - 365 = LeapDay(y) /\ LeapDay(y) \in {0, 1}
BY JanuaryFirst, SameNewYear DEF LeapDay

\* The table of the months, in terms of the places they have in a year of the oracles.
LEMMA MonthsForm ==
    ASSUME NEW y \in Int, NEW m \in 1..12
    PROVE  /\ m <= 2 => MonthsBefore(y, m) = MonthStart(m + 9) - 306
           /\ m > 2 => MonthsBefore(y, m) = 59 + MonthStart(m - 3) + LeapDay(y)
           /\ MonthsBefore(y, m) \in Int
<1> DEFINE leap == LeapDay(y)
<1>1. NewYear(y + 1) - NewYear(y) - 365 = leap /\ leap \in {0, 1}
  BY LeapDays
<1> HIDE DEF leap
<1>2. MonthsBefore(y, m) = <<0, 31, 59, 90, 120, 151, 181, 212, 243, 273, 304, 334>>[m] + (IF m > 2 THEN leap ELSE 0)
  BY <1>1 DEF MonthsBefore
<1>3. m <= 2 => MonthsBefore(y, m) = MonthStart(m + 9) - 306
  <2>1. CASE m = 1
    BY <1>2, <2>1, MonthPlaces
  <2>2. CASE m = 2
    BY <1>2, <2>2, MonthPlaces
  <2> QED
    BY <2>1, <2>2
<1>4. m > 2 => MonthsBefore(y, m) = 59 + MonthStart(m - 3) + leap
  <2>1. CASE m \in {3, 4, 5, 6}
    BY <1>1, <1>2, <2>1, MonthPlaces
  <2>2. CASE m \in {7, 8, 9}
    BY <1>1, <1>2, <2>2, MonthPlaces
  <2>3. CASE m \in {10, 11, 12}
    BY <1>1, <1>2, <2>3, MonthPlaces
  <2> QED
    BY <2>1, <2>2, <2>3
<1>5. MonthsBefore(y, m) \in Int
  <2>1. <<0, 31, 59, 90, 120, 151, 181, 212, 243, 273, 304, 334>>[m] \in Int
    OBVIOUS
  <2> QED
    BY <1>1, <1>2, <2>1
<1> QED
  BY <1>1, <1>3, <1>4, <1>5 DEF leap

\* So both count the same for every date.
LEMMA SameDays ==
    ASSUME NEW c \in Dates
    PROVE  Days(c) = NewYear(c.y) + MonthsBefore(c.y, c.m) + c.d - 1
<1> DEFINE y == c.y
           m == c.m
           p == YearStart(y - 1)
           leap == LeapDay(y)
<1>1. y \in Int /\ m \in 1..12 /\ c.d \in Nat
  BY DateType
<1>2. Days(c) = YearStart(MarchYear(y, m)) + MonthStart(MarchMonth(m)) + c.d - 1
  BY <1>1, DaysForm DEF Days
<1>3. YearStart(y) = p + 365 + leap
  <2>1. y - 1 \in Int /\ (y - 1) + 1 = y
    BY <1>1
  <2> QED
    BY <2>1, YearGrows DEF LeapDay
<1>4. p \in Int /\ leap \in {0, 1}
  BY <1>1, YearStartType DEF LeapDay
<1>5. NewYear(y) = p + 306
  BY <1>1, <1>4, JanuaryFirst, SameNewYear
<1>6. /\ m <= 2 => MonthsBefore(y, m) = MonthStart(m + 9) - 306
      /\ m > 2 => MonthsBefore(y, m) = 59 + MonthStart(m - 3) + leap
  BY <1>1, MonthsForm
<1> HIDE DEF p, leap, y, m
<1>7. CASE m <= 2
  <2>1. MarchYear(y, m) = y - 1 /\ MarchMonth(m) = m + 9
    BY <1>1, <1>7 DEF MarchYear, MarchMonth
  <2>2. MonthStart(m + 9) \in Nat
    BY <1>1, MonthStartType
  <2> QED
    BY <1>1, <1>2, <1>4, <1>5, <1>6, <1>7, <2>1, <2>2 DEF p, y, m
<1>8. CASE m > 2
  <2>1. MarchYear(y, m) = y /\ MarchMonth(m) = m - 3
    BY <1>1, <1>8 DEF MarchYear, MarchMonth
  <2>2. MonthStart(m - 3) \in Nat
    <3>1. m - 3 \in Nat
      BY <1>1, <1>8
    <3> QED
      BY <3>1, MonthStartType
  <2>3. Days(c) = (p + 365 + leap) + MonthStart(m - 3) + c.d - 1
    BY <1>2, <1>3, <2>1 DEF y, m
  <2>4. MonthsBefore(y, m) = 59 + MonthStart(m - 3) + leap
    BY <1>6, <1>8
  <2> QED
    BY <1>1, <1>4, <1>5, <2>2, <2>3, <2>4 DEF y, m
<1> QED
  BY <1>1, <1>7, <1>8

\* A month begins when the one before it is over.
LEMMA MonthsAdd ==
    ASSUME NEW y \in Int, NEW m \in 1..11
    PROVE  MonthsBefore(y, m + 1) = MonthsBefore(y, m) + LastDayOfMonth(y, m)
<1> DEFINE leap == LeapDay(y)
<1>0. \A k \in 1..12 : /\ k <= 2 => MonthsBefore(y, k) = MonthStart(k + 9) - 306
                       /\ k > 2 => MonthsBefore(y, k) = 59 + MonthStart(k - 3) + leap
  BY MonthsForm
<1>1. m \in 1..12 /\ m + 1 \in 1..12 /\ m + 1 + 9 = m + 10 /\ m + 1 - 3 = m - 2
  OBVIOUS
<1>2. /\ m <= 2 => MonthsBefore(y, m) = MonthStart(m + 9) - 306
      /\ m > 2 => MonthsBefore(y, m) = 59 + MonthStart(m - 3) + leap
  BY <1>0, <1>1
<1>3. /\ m + 1 <= 2 => MonthsBefore(y, m + 1) = MonthStart(m + 10) - 306
      /\ m + 1 > 2 => MonthsBefore(y, m + 1) = 59 + MonthStart(m - 2) + leap
  <2> DEFINE k == m + 1
  <2>1. k \in 1..12 /\ k + 9 = m + 10 /\ k - 3 = m - 2
    BY <1>1
  <2> HIDE DEF k
  <2>2. /\ k <= 2 => MonthsBefore(y, k) = MonthStart(m + 10) - 306
        /\ k > 2 => MonthsBefore(y, k) = 59 + MonthStart(m - 2) + leap
    BY <1>0, <2>1
  <2> QED
    BY <2>2 DEF k
<1>4. /\ m = 2 => LastDayOfMonth(y, m) = 28 + leap
      /\ m # 2 => LastDayOfMonth(y, m) = MonthStart(MarchMonth(m) + 1) - MonthStart(MarchMonth(m))
  BY MonthLengths DEF LeapDay
<1>5. leap \in Int
  BY DEF LeapDay
<1> HIDE DEF leap
<1>6. CASE m = 1
  BY <1>2, <1>3, <1>4, <1>6, MonthPlaces DEF MarchMonth
<1>7. CASE m = 2
  BY <1>2, <1>3, <1>4, <1>5, <1>7, MonthPlaces
<1>8. CASE m > 2
  <2>1. MarchMonth(m) = m - 3 /\ m - 3 \in Nat /\ m - 2 \in Nat /\ m + 1 - 3 = m - 2 /\ (m - 3) + 1 = m - 2
    BY <1>8 DEF MarchMonth
  <2>2. MonthStart(m - 3) \in Nat /\ MonthStart(m - 2) \in Nat
    BY <2>1, MonthStartType
  <2>3. MonthsBefore(y, m) = 59 + MonthStart(m - 3) + leap /\ MonthsBefore(y, m + 1) = 59 + MonthStart(m - 2) + leap
    BY <1>2, <1>3, <1>8, <2>1
  <2>4. LastDayOfMonth(y, m) = MonthStart(m - 2) - MonthStart(m - 3)
    BY <1>4, <1>8, <2>1
  <2> QED
    BY <1>5, <2>2, <2>3, <2>4
<1> QED
  BY <1>6, <1>7, <1>8

\* A date with two of its fields replaced.
LEMMA NextMonth ==
    ASSUME NEW c \in Dates, NEW e, e = [c EXCEPT !.m = @ + 1, !.d = 1]
    PROVE  e = [y |-> c.y, m |-> c.m + 1, d |-> 1]
<1>1. c \in [y : Int, m : Int, d : Int]
  BY DEF Dates
<1> QED
  BY <1>1

\* The day after a date is that of the next date.
LEMMA NextDateFollows ==
    ASSUME date \in Dates
    PROVE  /\ NextDate \in Dates
           /\ Days(NextDate) = Days(date) + 1
           /\ NextDate.y = date.y \/ (NextDate.m = 1 /\ NextDate.d = 1)
<1> DEFINE y == date.y
           m == date.m
           d == date.d
           n == NextDate
           last == LastDayOfMonth(y, m)
<1>1. y \in Int /\ m \in 1..12 /\ d \in Nat /\ d >= 1 /\ d <= last /\ date = [y |-> y, m |-> m, d |-> d]
  BY DateType
<1>2. ASSUME NEW k \in 1..12 PROVE LastDayOfMonth(y, k) \in 28..31
  BY <1>1, <1>2, SMT DEF LastDayOfMonth
<1>3. last \in 28..31
  BY <1>1, <1>2
<1>4. \A c \in Dates : Days(c) = NewYear(c.y) + MonthsBefore(c.y, c.m) + c.d - 1
  BY SameDays
<1>5. NewYear(y) \in Int /\ NewYear(y + 1) = NewYear(y) + 365 + (IF Leap(y) THEN 1 ELSE 0)
  BY <1>1, JanuaryFirst, SameNewYear
<1>6. MonthsBefore(y, m) \in Int
  BY <1>1, MonthsForm
<1>7. CASE d < last
  <2>1. n = [y |-> y, m |-> m, d |-> d + 1]
    BY <1>1, <1>7 DEF NextDate
  <2>2. n \in Dates
    BY <1>1, <1>3, <1>7, <2>1 DEF Dates
  <2>3. Days(n) = NewYear(y) + MonthsBefore(y, m) + (d + 1) - 1
    BY <1>4, <2>1, <2>2
  <2>4. Days(date) = NewYear(y) + MonthsBefore(y, m) + d - 1
    BY <1>4
  <2> QED
    BY <1>1, <1>5, <1>6, <2>1, <2>2, <2>3, <2>4
<1>8. CASE d = last /\ m < 12
  <2>1. n = [y |-> y, m |-> m + 1, d |-> 1]
    <3>1. ~(d < last)
      BY <1>1, <1>8
    <3>2. n = [date EXCEPT !.m = @ + 1, !.d = 1]
      BY <1>8, <3>1 DEF NextDate
    <3> HIDE DEF n
    <3> QED
      BY <3>2, NextMonth
  <2>2. m + 1 \in 1..12
    BY <1>1, <1>8
  <2>3. n \in Dates
    <3>1. LastDayOfMonth(y, m + 1) \in 28..31
      BY <1>2, <2>2
    <3> QED
      BY <1>1, <2>1, <2>2, <3>1 DEF Dates
  <2>4. MonthsBefore(y, m + 1) = MonthsBefore(y, m) + last
    <3>1. m \in 1..11
      BY <1>1, <1>8
    <3> QED
      BY <1>1, <3>1, MonthsAdd
  <2>5. Days(n) = NewYear(y) + MonthsBefore(y, m + 1) + 1 - 1
    BY <1>4, <2>1, <2>3
  <2>6. Days(date) = NewYear(y) + MonthsBefore(y, m) + d - 1
    BY <1>4
  <2> HIDE DEF last
  <2> QED
    BY <1>1, <1>3, <1>5, <1>6, <1>8, <2>1, <2>3, <2>4, <2>5, <2>6
<1>9. CASE d = last /\ m = 12
  <2>1. n = [y |-> y + 1, m |-> 1, d |-> 1]
    BY <1>1, <1>3, <1>9 DEF NextDate
  <2>2. n \in Dates
    BY <1>1, <2>1, JanuaryFirst DEF FirstOf
  <2>3. Days(n) = DaysFromCivil(y + 1, 1, 1)
    BY <2>1 DEF Days
  <2>4. last = 31
    BY <1>1, <1>9, SMT DEF LastDayOfMonth
  <2>5. Days(date) = DaysFromCivil(y + 1, 1, 1) - 32 + 31
    BY <1>9, <2>4, DayOfDate
  <2>6. DaysFromCivil(y + 1, 1, 1) \in Int
    BY <1>1, <1>5, SameNewYear
  <2> QED
    BY <2>1, <2>2, <2>3, <2>5, <2>6
<1> QED
  BY <1>1, <1>3, <1>7, <1>8, <1>9

\* The ISO week is that of the year the Thursday of the week is in.
LEMMA IsoForm ==
    ASSUME NEW n \in Int, NEW Y \in Int, NEW thursday \in Int, thursday = n + 4 - Weekday(n),
           NewYear(Y) <= thursday, thursday < NewYear(Y + 1)
    PROVE  IsoWeek(n) = [year |-> Y, week |-> ((thursday - NewYear(Y)) \div 7) + 1]
<1>1. Weekday(n) \in Int
  BY WeekdayForm, SMT
<1>2. n - (Weekday(n) - 4) = thursday
  BY <1>1
<1>3. NewYear(Y) = DaysFromCivil(Y, 1, 1) /\ NewYear(Y + 1) = DaysFromCivil(Y + 1, 1, 1) /\ NewYear(Y) \in Int
  BY SameNewYear, JanuaryFirst
<1>4. CivilFromDays(thursday).y = Y
  BY <1>3, YearOfWeek
<1>5. CDiv(thursday - NewYear(Y), 7) = (thursday - NewYear(Y)) \div 7
  <2> DEFINE x == thursday - NewYear(Y)
  <2>1. x \in Int /\ x >= 0
    BY <1>3
  <2> HIDE DEF x
  <2>2. CDiv(x, 7) = x \div 7
    BY <2>1, CDivByPositive
  <2> QED
    BY <2>2 DEF x
<1>6. IsoWeek(n) = [year |-> CivilFromDays(thursday).y,
                    week |-> CDiv(thursday - DaysFromCivil(CivilFromDays(thursday).y, 1, 1), 7) + 1]
  BY <1>2 DEF IsoWeek
<1>7. IsoWeek(n) = [year |-> Y, week |-> CDiv(thursday - DaysFromCivil(Y, 1, 1), 7) + 1]
  BY <1>4, <1>6
<1> QED
  BY <1>3, <1>5, <1>7

-----------------------------------------------------------------------------
\* The calendar shows the date of the day, and everything else follows from the day.
CalendarInv ==
    /\ date \in Dates
    /\ day = Days(date)
    /\ weekday = Weekday(day)
    /\ iso = IsoWeek(day)
    /\ yearDay # 0 => yearDay = DayOfYear(day, date.y)
    /\ walked \in Nat /\ (walked = 0 => yearDay = 0)

\* A start is as the oracles have it.
LEMMA StartIsRight ==
    ASSUME NEW s \in Starts
    PROVE  /\ s.date \in Dates /\ s.day = Days(s.date)
           /\ s.weekday = Weekday(s.day) /\ s.iso = IsoWeek(s.day)
<1> DEFINE thursday == s.day + 4 - s.weekday
           Y == s.iso.year
<1>1. /\ s.date \in Dates
      /\ s.day = NewYear(s.date.y) + MonthsBefore(s.date.y, s.date.m) + s.date.d - 1
      /\ s.weekday = ((s.day + 3) % 7) + 1
      /\ s.iso = [year |-> Y, week |-> ((thursday - NewYear(Y)) \div 7) + 1]
      /\ Y \in Int /\ thursday >= NewYear(Y) /\ thursday < NewYear(Y + 1)
  BY StartsAssumption
<1>2. s.day = Days(s.date) /\ s.day \in Int
  BY <1>1, SameDays, RoundTrip
<1>3. s.weekday = Weekday(s.day)
  BY <1>1, <1>2, WeekdayForm
<1>4. s.weekday \in Int /\ NewYear(Y) \in Int
  <2>1. ((s.day + 3) % 7) + 1 \in Int
    BY <1>2, SMT
  <2> QED
    BY <1>1, <2>1, SameNewYear, JanuaryFirst
<1>5. thursday \in Int
  BY <1>2, <1>4
<1> HIDE DEF thursday, Y
<1>6. thursday = s.day + 4 - Weekday(s.day)
  BY <1>3 DEF thursday
<1>7. NewYear(Y) <= thursday
  BY <1>1, <1>4, <1>5
<1>8. IsoWeek(s.day) = [year |-> Y, week |-> ((thursday - NewYear(Y)) \div 7) + 1]
  BY <1>1, <1>2, <1>5, <1>6, <1>7, IsoForm
<1> QED
  BY <1>1, <1>2, <1>3, <1>8

\* The invariant of the calendar holds at first, ...
LEMMA CalendarStarts == CalendarInit => CalendarInv
<1> SUFFICES ASSUME CalendarInit PROVE CalendarInv
  OBVIOUS
<1>1. PICK s \in Starts : day = s.day /\ date = s.date /\ weekday = s.weekday /\ iso = s.iso /\ yearDay = 0 /\ walked = 0
  BY StartsAssumption DEF CalendarInit
<1> QED
  BY <1>1, StartIsRight DEF CalendarInv

\* ... when the walk starts elsewhere, ...
LEMMA JumpKeeps ==
    ASSUME CalendarInv, NEW s \in Starts, JumpTo(s)
    PROVE  CalendarInv'
<1>1. day' = s.day /\ date' = s.date /\ weekday' = s.weekday /\ iso' = s.iso /\ yearDay' = 0 /\ walked' = 0
  BY DEF JumpTo, CalendarInv
<1> QED
  BY <1>1, StartIsRight DEF CalendarInv

\* The ISO week changes on Mondays, to the first of the year if the year is in it
\* with four days.
LEMMA NextIsoFollows ==
    ASSUME CalendarInv
    PROVE  /\ Weekday(day + 1) = (IF weekday = 7 THEN 1 ELSE weekday + 1)
           /\ NextIso = IsoWeek(day + 1)
<1> DEFINE c == NextDate
           n == day + 1
<1>1. day \in Int /\ c \in Dates /\ Days(c) = n /\ date \in Dates
  BY RoundTrip, NextDateFollows DEF CalendarInv
<1>2. weekday \in Int /\ weekday >= 1 /\ weekday <= 7 /\ weekday = Weekday(day) /\ iso = IsoWeek(day)
  <2>1. ((day + 3) % 7) + 1 \in Int /\ ((day + 3) % 7) + 1 >= 1 /\ ((day + 3) % 7) + 1 <= 7
    BY <1>1, SMT
  <2>2. Weekday(day) = ((day + 3) % 7) + 1
    BY <1>1, WeekdayForm
  <2> QED
    BY <2>1, <2>2 DEF CalendarInv
<1>3. Weekday(n) = (IF weekday = 7 THEN 1 ELSE weekday + 1)
  <2>1. Weekday(day) = ((day + 3) % 7) + 1 /\ Weekday(n) = ((n + 3) % 7) + 1
    BY <1>1, WeekdayForm
  <2> QED
    BY <1>1, <1>2, <2>1, SMT
<1>4. CASE weekday # 7
  <2>1. NextIso = iso
    BY <1>4 DEF NextIso
  <2>2. Weekday(n) = Weekday(day) + 1
    BY <1>2, <1>3, <1>4
  <2>3. n - (Weekday(n) - 4) = day - (Weekday(day) - 4)
    BY <1>1, <1>2, <2>2
  <2>4. IsoWeek(n) = IsoWeek(day)
    BY <2>3, Zenon DEF IsoWeek
  <2> QED
    BY <1>2, <1>3, <2>1, <2>4
<1>5. CASE weekday = 7
  <2> DEFINE Y == c.y
             J == NewYear(Y)
             K == NewYear(Y + 1)
             G == NewYear(Y - 1)
             L == NewYear(Y + 2)
             t == n - 4
             u == n + 3
             first == (c.m = 12 /\ c.d >= 29) \/ (c.m = 1 /\ c.d <= 4)
  <2>1. Y \in Int /\ c.m \in 1..12 /\ c.d \in Nat /\ c.d >= 1
    BY <1>1, DateType
  <2>2. /\ G \in Int /\ J \in Int /\ K \in Int /\ L \in Int
        /\ J >= G + 365 /\ K >= J + 365 /\ L >= K + 365
    <3>1. ASSUME NEW z \in Int PROVE NewYear(z) \in Int /\ NewYear(z + 1) >= NewYear(z) + 365
      BY JanuaryFirst, SameNewYear
    <3>2. Y - 1 \in Int /\ Y + 1 \in Int /\ (Y - 1) + 1 = Y /\ (Y + 1) + 1 = Y + 2
      BY <2>1
    <3> QED
      BY <2>1, <3>1, <3>2
  <2>3. J = DaysFromCivil(Y, 1, 1) /\ K = DaysFromCivil(Y + 1, 1, 1)
    BY <2>1, SameNewYear
  <2>4. /\ J <= n /\ n < K
        /\ c.m = 1 => n = J + c.d - 1
        /\ c.m = 12 => n = K - 32 + c.d
        /\ c.m # 1 => n >= J + 31
        /\ c.m # 12 => n < K - 31
    BY <1>1, <2>3, DayOfDate
  <2>5. t = day + 4 - Weekday(day) /\ u = n + 4 - Weekday(n) /\ t \in Int /\ u \in Int /\ n \in Int
    BY <1>1, <1>2, <1>3, <1>5
  <2>6. NextIso = (IF first THEN [year |-> iso.year + 1, week |-> 1] ELSE [iso EXCEPT !.week = @ + 1])
    BY <1>5 DEF NextIso
  <2>7. u = t + 7
    BY <2>5
  <2> HIDE DEF c, n, J, K, G, L, t, u, first
  <2>8. CASE c.m = 12 /\ c.d >= 29
    <3>1. K <= u /\ u < L /\ u - K < 7 /\ J <= t /\ t < K
      BY <2>1, <2>2, <2>4, <2>8 DEF t, u
    <3>2. IsoWeek(day) = [year |-> Y, week |-> ((t - J) \div 7) + 1]
      BY <1>1, <2>1, <2>5, <3>1, IsoForm DEF J, K
    <3>3. IsoWeek(n) = [year |-> Y + 1, week |-> ((u - K) \div 7) + 1]
      <4>1. Y + 1 \in Int /\ NewYear(Y + 1) <= u /\ u < NewYear((Y + 1) + 1) /\ (Y + 1) + 1 = Y + 2
        BY <2>1, <3>1 DEF K, L
      <4> QED
        BY <2>5, <4>1, IsoForm DEF K
    <3>4. (u - K) \div 7 = 0
      BY <2>2, <2>5, <3>1, SMT
    <3>5. iso.year + 1 = Y + 1
      BY <1>2, <3>2
    <3> QED
      BY <1>3, <2>6, <2>8, <3>3, <3>4, <3>5 DEF first, n
  <2>9. CASE c.m = 1 /\ c.d <= 4
    <3>1. J <= u /\ u < K /\ u - J < 7 /\ G <= t /\ t < J
      BY <2>1, <2>2, <2>4, <2>9 DEF t, u
    <3>2. IsoWeek(day) = [year |-> Y - 1, week |-> ((t - G) \div 7) + 1]
      <4>1. Y - 1 \in Int /\ NewYear(Y - 1) <= t /\ t < NewYear((Y - 1) + 1) /\ (Y - 1) + 1 = Y
        BY <2>1, <3>1 DEF G, J
      <4> QED
        BY <1>1, <2>5, <4>1, IsoForm DEF G
    <3>3. IsoWeek(n) = [year |-> Y, week |-> ((u - J) \div 7) + 1]
      BY <2>1, <2>5, <3>1, IsoForm DEF J, K
    <3>4. (u - J) \div 7 = 0
      BY <2>2, <2>5, <3>1, SMT
    <3>5. iso.year + 1 = Y
      BY <1>2, <2>1, <3>2
    <3> QED
      BY <1>3, <2>6, <2>9, <3>3, <3>4, <3>5 DEF first, n
  <2>10. CASE ~first
    <3>1. J <= t /\ t < K /\ J <= u /\ u < K
      <4>1. n >= J + 4
        BY <2>1, <2>2, <2>4, <2>5, <2>10 DEF first
      <4>2. n < K - 3
        BY <2>1, <2>2, <2>4, <2>5, <2>10 DEF first
      <4> QED
        BY <2>2, <2>5, <4>1, <4>2 DEF t, u
    <3>2. IsoWeek(day) = [year |-> Y, week |-> ((t - J) \div 7) + 1]
      BY <1>1, <2>1, <2>5, <3>1, IsoForm DEF J, K
    <3>3. IsoWeek(n) = [year |-> Y, week |-> ((u - J) \div 7) + 1]
      BY <2>1, <2>5, <3>1, IsoForm DEF J, K
    <3>4. (u - J) \div 7 = ((t - J) \div 7) + 1
      <4>1. u - J = (t - J) + 7 /\ t - J \in Int
        BY <2>2, <2>5, <2>7
      <4> QED
        BY <4>1, SMT
    <3> DEFINE w == (t - J) \div 7
    <3>5. w \in Int /\ (t - J) \div 7 = w
      BY <2>2, <2>5, SMT
    <3> HIDE DEF w
    <3>6. iso = [year |-> Y, week |-> w + 1] /\ IsoWeek(n) = [year |-> Y, week |-> (w + 1) + 1]
      BY <1>2, <3>2, <3>3, <3>4, <3>5
    <3>7. NextIso = [iso EXCEPT !.week = @ + 1]
      BY <2>6, <2>10
    <3>8. NextIso = [year |-> Y, week |-> (w + 1) + 1]
      <4>1. iso \in [year : Int, week : Int] /\ iso.year = Y /\ iso.week = w + 1
        BY <2>1, <3>5, <3>6
      <4> QED
        BY <3>7, <4>1
    <3> QED
      BY <1>3, <3>6, <3>8 DEF n
  <2> QED
    BY <2>8, <2>9, <2>10 DEF first
<1> QED
  BY <1>4, <1>5

\* ... after each day that is walked, ...
LEMMA NextDayKeeps ==
    ASSUME CalendarInv, NextDay
    PROVE  CalendarInv'
<1>1. /\ day' = day + 1 /\ date' = NextDate /\ iso' = NextIso
      /\ weekday' = (IF weekday = 7 THEN 1 ELSE weekday + 1)
      /\ yearDay' = (IF NextDate.m = 1 /\ NextDate.d = 1 THEN 1 ELSE IF yearDay = 0 THEN 0 ELSE yearDay + 1)
  BY DEF NextDay
<1>2. NextDate \in Dates /\ Days(NextDate) = day + 1
      /\ (NextDate.y = date.y \/ (NextDate.m = 1 /\ NextDate.d = 1))
  BY NextDateFollows DEF CalendarInv
<1>3. weekday' = Weekday(day + 1) /\ iso' = IsoWeek(day + 1)
  BY <1>1, NextIsoFollows
<1>4. day \in Int
  BY RoundTrip DEF CalendarInv
<1>5. yearDay' # 0 => yearDay' = DayOfYear(day + 1, NextDate.y)
  <2> DEFINE J == DaysFromCivil(NextDate.y, 1, 1)
  <2>1. J \in Int
    BY <1>2, DateType, JanuaryFirst
  <2>2. CASE NextDate.m = 1 /\ NextDate.d = 1
    <3>1. day + 1 = J + 1 - 1
      BY <1>2, <2>2, DayOfDate
    <3>2. yearDay' = 1
      BY <1>1, <2>2
    <3>3. DayOfYear(day + 1, NextDate.y) = day + 1 - J + 1
      BY <1>4, <2>1 DEF DayOfYear
    <3> QED
      BY <1>4, <2>1, <3>1, <3>2, <3>3
  <2>3. CASE ~(NextDate.m = 1 /\ NextDate.d = 1)
    <3>1. NextDate.y = date.y
      BY <1>2, <2>3
    <3>2. DayOfYear(day + 1, NextDate.y) = day + 1 - J + 1
      BY <1>4, <2>1 DEF DayOfYear
    <3>3. yearDay # 0 => yearDay = day - J + 1
      BY <3>1 DEF CalendarInv, DayOfYear
    <3>4. yearDay' = (IF yearDay = 0 THEN 0 ELSE yearDay + 1)
      BY <1>1, <2>3
    <3> HIDE DEF J
    <3> QED
      BY <1>4, <2>1, <3>2, <3>3, <3>4
  <2> QED
    BY <2>2, <2>3
<1> QED
  <2>1. walked' \in Nat /\ walked' # 0
    BY DEF NextDay, CalendarInv
  <2> QED
    BY <1>1, <1>2, <1>3, <1>5, <2>1 DEF CalendarInv

\* It is what the property says, given that the conversions are inverse to each other.
LEMMA CalendarInvImplies == CalendarInv => OraclesFollowTheCalendar
BY RoundTrip DEF CalendarInv, OraclesFollowTheCalendar, Days

\* ... and while something else is tested.
LEMMA CalendarStutters ==
    ASSUME CalendarInv, UNCHANGED calendarVars
    PROVE  CalendarInv'
BY DEF CalendarInv, calendarVars

\* So the calendar's invariant holds for every step of Numbers.
LEMMA CalendarInvHolds == Spec => []CalendarInv
<1>1. Init => CalendarInv
  BY CalendarStarts DEF Init
<1>2. CalendarInv /\ [Next]_vars => CalendarInv'
  <2> SUFFICES ASSUME CalendarInv, [Next]_vars PROVE CalendarInv'
    OBVIOUS
  <2>1. CASE CalendarNext
    BY <2>1, NextDayKeeps, JumpKeeps DEF CalendarNext
  <2>2. CASE UNCHANGED calendarVars
    BY <2>2, CalendarStutters
  <2> QED
    BY <2>1, <2>2 DEF Next, vars
<1> QED
  BY <1>1, <1>2, PTL DEF Spec

-----------------------------------------------------------------------------
\* Dates of different years are in their order.
LEMMA YearsInOrder ==
    ASSUME NEW a \in Dates, NEW b \in Dates, a.y < b.y
    PROVE  Days(a) < Days(b) /\ Days(a) < DaysFromCivil(b.y, 1, 1)
<1>1. a.y \in Int /\ b.y \in Int /\ Days(a) \in Int /\ Days(b) \in Int
  BY DateType, RoundTrip
<1>2. Days(a) < DaysFromCivil(a.y + 1, 1, 1) /\ DaysFromCivil(b.y, 1, 1) <= Days(b)
  BY DayOfDate
<1>3. DaysFromCivil(a.y + 1, 1, 1) <= DaysFromCivil(b.y, 1, 1)
  <2> DEFINE S == {k \in Nat : DaysFromCivil(a.y + 1, 1, 1) <= DaysFromCivil(a.y + 1 + k, 1, 1)}
             k == b.y - a.y - 1
  <2>1. 0 \in S
    <3>1. a.y + 1 \in Int /\ a.y + 1 + 0 = a.y + 1
      BY <1>1
    <3> QED
      BY <3>1, JanuaryFirst
  <2>2. ASSUME NEW n \in Nat, n \in S PROVE n + 1 \in S
    <3>1. a.y + 1 \in Int /\ a.y + 1 + n \in Int /\ a.y + 1 + (n + 1) = (a.y + 1 + n) + 1
      BY <1>1
    <3>2. DaysFromCivil(a.y + 1 + n, 1, 1) \in Int /\ DaysFromCivil(a.y + 1, 1, 1) \in Int
      BY <3>1, JanuaryFirst
    <3>3. DaysFromCivil((a.y + 1 + n) + 1, 1, 1) >= DaysFromCivil(a.y + 1 + n, 1, 1)
      BY <3>1, <3>2, JanuaryFirst
    <3>4. DaysFromCivil((a.y + 1 + n) + 1, 1, 1) \in Int
      BY <3>1, JanuaryFirst
    <3>5. DaysFromCivil(a.y + 1, 1, 1) <= DaysFromCivil((a.y + 1 + n) + 1, 1, 1)
      BY <2>2, <3>2, <3>3, <3>4
    <3> QED
      BY <3>1, <3>5
  <2>3. k \in Nat /\ a.y + 1 + k = b.y
    BY <1>1
  <2> HIDE DEF S, k
  <2>4. k \in S
    BY <2>1, <2>2, <2>3, InductionOverSet
  <2> QED
    BY <2>3, <2>4 DEF S
<1>4. DaysFromCivil(a.y + 1, 1, 1) \in Int /\ DaysFromCivil(b.y, 1, 1) \in Int
  <2>1. a.y + 1 \in Int
    BY <1>1
  <2> QED
    BY <1>1, <2>1, JanuaryFirst
<1> QED
  BY <1>1, <1>2, <1>3, <1>4

\* And so are those of different months of a year.
LEMMA MonthsInOrder ==
    ASSUME NEW a \in Dates, NEW b \in Dates, a.y = b.y, a.m < b.m
    PROVE  Days(a) < Days(b)
<1> DEFINE y == a.y
           leap == LeapDay(y)
<1>1. y \in Int /\ a.m \in 1..12 /\ a.d \in Nat /\ a.d <= LastDayOfMonth(y, a.m)
  BY DateType
<1>2. b.y = y /\ b.m \in 1..12 /\ b.d \in Nat /\ b.d >= 1
  BY DateType
<1>3. a.m \in 1..11 /\ a.m + 1 \in 1..12 /\ a.m + 1 <= b.m
  BY <1>1, <1>2
<1>4. \A k \in 1..12 : /\ k <= 2 => MonthsBefore(y, k) = MonthStart(k + 9) - 306
                       /\ k > 2 => MonthsBefore(y, k) = 59 + MonthStart(k - 3) + leap
                       /\ MonthsBefore(y, k) \in Int
  BY <1>1, MonthsForm
<1>5. leap \in {0, 1} /\ NewYear(y) \in Int
  BY <1>1, LeapDays, JanuaryFirst, SameNewYear
<1>6. \A i, j \in 0..11 : i <= j => MonthStart(i) <= MonthStart(j)
  BY SMT DEF MonthStart
<1> DEFINE p == a.m + 1
           q == b.m
<1>7. p \in 1..12 /\ q \in 1..12 /\ p <= q
  BY <1>2, <1>3
<1> HIDE DEF p, q, leap
<1>8. MonthsBefore(y, p) <= MonthsBefore(y, q)
  <2>1. CASE q <= 2
    <3>1. CASE p = q
      BY <1>4, <1>7, <3>1
    <3>2. CASE p # q
      <4>1. p = 1 /\ q = 2
        BY <1>7, <2>1, <3>2
      <4> QED
        BY <1>4, <4>1, MonthPlaces
    <3> QED
      BY <3>1, <3>2
  <2>2. CASE p <= 2 /\ q > 2
    <3>1. MonthsBefore(y, p) <= 31
      <4>1. CASE p = 1
        BY <1>4, <4>1, MonthPlaces
      <4>2. CASE p = 2
        BY <1>4, <4>2, MonthPlaces
      <4> QED
        BY <1>7, <2>2, <4>1, <4>2
    <3>2. q - 3 \in Nat
      BY <1>7, <2>2
    <3>3. MonthStart(q - 3) \in Nat
      BY <3>2, MonthStartType
    <3>4. MonthsBefore(y, q) = 59 + MonthStart(q - 3) + leap
      BY <1>4, <1>7, <2>2
    <3>5. MonthsBefore(y, p) \in Int
      BY <1>4, <1>7
    <3> QED
      BY <1>5, <3>1, <3>3, <3>4, <3>5
  <2>3. CASE p > 2
    <3>1. p - 3 \in 0..11 /\ q - 3 \in 0..11 /\ p - 3 <= q - 3 /\ q > 2
      BY <1>7, <2>3
    <3>2. MonthStart(p - 3) <= MonthStart(q - 3) /\ MonthStart(p - 3) \in Nat /\ MonthStart(q - 3) \in Nat
      BY <1>6, <3>1, MonthStartType
    <3>3. MonthsBefore(y, p) = 59 + MonthStart(p - 3) + leap
      BY <1>4, <1>7, <2>3
    <3>4. MonthsBefore(y, q) = 59 + MonthStart(q - 3) + leap
      BY <1>4, <1>7, <3>1
    <3> QED
      BY <1>5, <3>2, <3>3, <3>4
  <2> QED
    BY <1>7, <2>1, <2>2, <2>3
<1>9. MonthsBefore(y, p) = MonthsBefore(y, a.m) + LastDayOfMonth(y, a.m)
  BY <1>1, <1>3, MonthsAdd DEF p
<1>10. Days(a) = NewYear(y) + MonthsBefore(y, a.m) + a.d - 1
  BY SameDays
<1>11. Days(b) = NewYear(y) + MonthsBefore(y, q) + b.d - 1
  BY <1>2, SameDays DEF q
<1>12. MonthsBefore(y, a.m) \in Int /\ MonthsBefore(y, q) \in Int /\ LastDayOfMonth(y, a.m) \in Int
  <2>1. LastDayOfMonth(y, a.m) \in Int
    BY <1>1, SMT DEF LastDayOfMonth
  <2> QED
    BY <1>1, <1>4, <1>7, <2>1
<1> HIDE DEF y
<1> QED
  BY <1>1, <1>2, <1>5, <1>8, <1>9, <1>10, <1>11, <1>12

\* The date that begins the month after that of c.
NextMonthOf(c) ==
    IF c.m = 12 THEN [y |-> c.y + 1, m |-> 1, d |-> 1] ELSE [y |-> c.y, m |-> c.m + 1, d |-> 1]

\* It is a date, and a later one.
LEMMA NextMonthIsDate ==
    ASSUME NEW c \in Dates
    PROVE  NextMonthOf(c) \in Dates /\ Days(c) < Days(NextMonthOf(c))
<1>1. c.y \in Int /\ c.m \in 1..12
  BY DateType
<1>2. CASE c.m = 12
  <2>1. NextMonthOf(c) = FirstOf(c.y + 1)
    BY <1>2 DEF NextMonthOf, FirstOf
  <2>2. Days(NextMonthOf(c)) = DaysFromCivil(c.y + 1, 1, 1)
    BY <2>1 DEF Days, FirstOf
  <2> QED
    <3>1. c.y + 1 \in Int
      BY <1>1
    <3>2. FirstOf(c.y + 1) \in Dates
      BY <3>1, JanuaryFirst
    <3>3. Days(c) < DaysFromCivil(c.y + 1, 1, 1)
      BY DayOfDate
    <3> QED
      BY <2>1, <2>2, <3>2, <3>3
<1>3. CASE c.m # 12
  <2> DEFINE g == NextMonthOf(c)
  <2>1. g = [y |-> c.y, m |-> c.m + 1, d |-> 1] /\ c.m + 1 \in 1..12
    BY <1>1, <1>3 DEF NextMonthOf
  <2>2. LastDayOfMonth(c.y, c.m + 1) >= 1
    BY <2>1, SMT DEF LastDayOfMonth
  <2>3. g \in Dates
    BY <1>1, <2>1, <2>2 DEF Dates
  <2>4. g.y = c.y /\ c.m < g.m
    BY <1>1, <2>1
  <2> HIDE DEF g
  <2>5. g \in Dates /\ Days(c) < Days(g)
    BY <2>3, <2>4, MonthsInOrder
  <2> QED
    BY <2>5 DEF g
<1> QED
  BY <1>2, <1>3

\* January 1st is missing only in the year in which DATE begins.
LEMMA YearIsCut ==
    ASSUME NEW c \in Dates, IsDate(c)
    PROVE  IsDate(FirstOf(c.y)) <=> c.y > MinDate.y
<1> DEFINE J == DaysFromCivil(c.y, 1, 1)
<1>1. MinDate \in Dates /\ MaxDate \in Dates /\ ~(MinDate.m = 1 /\ MinDate.d = 1)
  BY RangeAssumption
<1>2. c.y \in Int /\ MinDate.y \in Int /\ MinDate.d \in Nat /\ MinDate.d >= 1 /\ MinDate.m \in 1..12
  BY <1>1, DateType
<1>3. /\ Days(c) \in Int /\ Days(MinDate) \in Int /\ Days(MaxDate) \in Int
      /\ Days(MinDate) <= Days(c) /\ Days(c) <= Days(MaxDate)
  BY <1>1, RoundTrip DEF IsDate
<1>4. Days(FirstOf(c.y)) = J /\ J \in Int /\ J <= Days(c)
  BY <1>2, JanuaryFirst, DayOfDate DEF Days, FirstOf
<1> HIDE DEF J
<1>5. IsDate(FirstOf(c.y)) <=> Days(MinDate) <= J
  BY <1>3, <1>4 DEF IsDate
<1>6. c.y > MinDate.y => Days(MinDate) < J
  BY <1>1, <1>2, YearsInOrder DEF J
<1>7. c.y = MinDate.y => J < Days(MinDate)
  <2> SUFFICES ASSUME c.y = MinDate.y PROVE J < Days(MinDate)
    OBVIOUS
  <2>1. J = DaysFromCivil(MinDate.y, 1, 1)
    BY DEF J
  <2>2. CASE MinDate.m = 1
    <3>1. Days(MinDate) = J + MinDate.d - 1 /\ MinDate.d # 1
      BY <1>1, <2>1, <2>2, DayOfDate
    <3> QED
      BY <1>2, <1>4, <3>1
  <2>3. CASE MinDate.m # 1
    <3>1. Days(MinDate) >= J + 31
      BY <1>1, <2>1, <2>3, DayOfDate
    <3> QED
      BY <1>3, <1>4, <3>1
  <2> QED
    BY <2>2, <2>3
<1>8. ~(c.y < MinDate.y)
  BY <1>1, <1>2, <1>3, YearsInOrder
<1> QED
  BY <1>2, <1>3, <1>4, <1>5, <1>6, <1>7, <1>8

\* The first of the next month is missing only in the month in which DATE ends.
LEMMA MonthIsCut ==
    ASSUME NEW c \in Dates, IsDate(c)
    PROVE  IsDate(NextMonthOf(c)) <=> ~(c.y = MaxDate.y /\ c.m >= MaxDate.m)
<1> DEFINE g == NextMonthOf(c)
<1>1. MinDate \in Dates /\ MaxDate \in Dates
  BY RangeAssumption
<1>2. c.y \in Int /\ c.m \in 1..12 /\ MaxDate.y \in Int /\ MaxDate.m \in 1..12 /\ MaxDate.d \in Nat /\ MaxDate.d >= 1
  BY <1>1, DateType
<1>3. g \in Dates /\ Days(c) < Days(g)
  BY NextMonthIsDate
<1>4. /\ Days(c) \in Int /\ Days(MinDate) \in Int /\ Days(MaxDate) \in Int
      /\ Days(MinDate) <= Days(c) /\ Days(c) <= Days(MaxDate)
  BY <1>1, RoundTrip DEF IsDate
<1>5. Days(g) \in Int
  BY <1>3, RoundTrip
<1>6. IsDate(g) <=> Days(g) <= Days(MaxDate)
  <2> HIDE DEF g
  <2> QED
    BY <1>3, <1>4, <1>5 DEF IsDate
<1>7. ~(MaxDate.y < c.y)
  BY <1>1, <1>2, <1>4, YearsInOrder
<1>8. CASE c.m = 12
  <2>1. g = FirstOf(c.y + 1)
    BY <1>8 DEF NextMonthOf, FirstOf
  <2>2. Days(g) = DaysFromCivil(c.y + 1, 1, 1) /\ g.y = c.y + 1
    BY <2>1 DEF Days, FirstOf
  <2> HIDE DEF g
  <2>3. CASE c.y = MaxDate.y
    <3>1. Days(MaxDate) < DaysFromCivil(MaxDate.y + 1, 1, 1)
      BY <1>1, DayOfDate
    <3>2. Days(MaxDate) < Days(g)
      BY <2>2, <2>3, <3>1
    <3>3. c.y = MaxDate.y /\ c.m >= MaxDate.m
      BY <1>2, <1>8, <2>3
    <3> QED
      BY <1>4, <1>5, <1>6, <3>2, <3>3 DEF g
  <2>4. CASE c.y + 1 = MaxDate.y
    <3>1. DaysFromCivil(MaxDate.y, 1, 1) <= Days(MaxDate)
      BY <1>1, DayOfDate
    <3>2. Days(g) <= Days(MaxDate)
      BY <2>2, <2>4, <3>1
    <3> QED
      BY <1>2, <1>6, <2>4, <3>2 DEF g
  <2>5. CASE c.y + 1 < MaxDate.y
    <3>1. Days(g) < Days(MaxDate)
      BY <1>1, <1>3, <2>2, <2>5, YearsInOrder
    <3> QED
      BY <1>2, <1>4, <1>5, <1>6, <2>5, <3>1 DEF g
  <2> QED
    BY <1>2, <1>7, <2>3, <2>4, <2>5
<1>9. CASE c.m # 12
  <2>1. g = [y |-> c.y, m |-> c.m + 1, d |-> 1]
    BY <1>9 DEF NextMonthOf
  <2>2. g.y = c.y /\ g.m = c.m + 1 /\ g.d = 1
    BY <2>1
  <2> HIDE DEF g
  <2>3. CASE c.y < MaxDate.y
    <3>1. Days(g) < Days(MaxDate)
      BY <1>1, <1>3, <2>2, <2>3, YearsInOrder
    <3> QED
      BY <1>2, <1>4, <1>5, <1>6, <2>3, <3>1 DEF g
  <2>4. CASE c.y = MaxDate.y /\ c.m >= MaxDate.m
    <3>1. MaxDate.y = g.y /\ MaxDate.m < g.m
      BY <1>2, <2>2, <2>4
    <3>2. Days(MaxDate) < Days(g)
      BY <1>1, <1>3, <3>1, MonthsInOrder
    <3> QED
      BY <1>4, <1>5, <1>6, <2>4, <3>2 DEF g
  <2>5. CASE c.y = MaxDate.y /\ c.m + 1 < MaxDate.m
    <3>1. g.y = MaxDate.y /\ g.m < MaxDate.m
      BY <2>2, <2>5
    <3>2. Days(g) < Days(MaxDate)
      BY <1>1, <1>3, <3>1, MonthsInOrder
    <3> QED
      BY <1>2, <1>4, <1>5, <1>6, <2>5, <3>2 DEF g
  <2>6. CASE c.y = MaxDate.y /\ c.m + 1 = MaxDate.m
    <3>1. g.y = MaxDate.y /\ g.m = MaxDate.m /\ g.d = 1
      BY <2>2, <2>6
    <3>2. Days(g) <= Days(MaxDate)
      <4> DEFINE n == NewYear(MaxDate.y)
                 b == MonthsBefore(MaxDate.y, MaxDate.m)
      <4>1. Days(g) = n + b + 1 - 1 /\ Days(MaxDate) = n + b + MaxDate.d - 1
        BY <1>1, <1>3, <3>1, SameDays
      <4>2. n \in Int /\ b \in Int
        <5>1. n \in Int
          BY <1>2, JanuaryFirst, SameNewYear
        <5>2. b \in Int
          BY <1>2, MonthsForm
        <5> QED
          BY <5>1, <5>2
      <4> HIDE DEF n, b
      <4> QED
        BY <1>2, <4>1, <4>2
    <3> QED
      BY <1>2, <1>6, <2>6, <3>2 DEF g
  <2> QED
    BY <1>2, <1>7, <2>3, <2>4, <2>5, <2>6
<1> QED
  BY <1>8, <1>9

\* The preconditions are these two conditions.
LEMMA CutsAreFound ==
    ASSUME date \in Dates
    PROVE  OnlyUnsafePartsAreDiscarded
<1> SUFFICES ASSUME IsDate(date) PROVE HasSafeParts(date) <=> \A c \in NeededDates(date) : IsDate(c)
  BY DEF OnlyUnsafePartsAreDiscarded
<1>1. NeededDates(date) = {FirstOf(date.y), NextMonthOf(date)}
  BY DEF NeededDates, FirstOf, NextMonthOf
<1>2. (\A c \in NeededDates(date) : IsDate(c)) <=> IsDate(FirstOf(date.y)) /\ IsDate(NextMonthOf(date))
  BY <1>1
<1>3. IsDate(FirstOf(date.y)) <=> date.y > MinDate.y
  BY YearIsCut
<1>4. IsDate(NextMonthOf(date)) <=> ~(date.y = MaxDate.y /\ date.m >= MaxDate.m)
  BY MonthIsCut
<1> QED
  BY <1>2, <1>3, <1>4 DEF HasSafeParts

\* The oracles of the suite "datetime" for dates agree with the calendar on every walk.
THEOREM CalendarIsFollowed == Spec => []OraclesFollowTheCalendar
<1>1. CalendarInv => OraclesFollowTheCalendar
  BY CalendarInvImplies
<1> QED
  BY <1>1, CalendarInvHolds, PTL

\* The preconditions of "date part extraction" discard the dates whose parts need a date
\* beyond the range of DATE, and no other, wherever that range begins and ends.
THEOREM DiscardsAreNeeded == Spec => []OnlyUnsafePartsAreDiscarded
<1>1. CalendarInv => OnlyUnsafePartsAreDiscarded
  BY CutsAreFound DEF CalendarInv
<1> QED
  BY <1>1, CalendarInvHolds, PTL
=============================================================================
