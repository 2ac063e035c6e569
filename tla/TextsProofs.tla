----------------------------- MODULE TextsProofs -----------------------------
(***************************************************************************)
(* What the oracles of the suites "strings" and "lists" say is right, for  *)
(* texts, patterns and lists of any length and content: ranges and series, *)
(* parts of strings and lists, pads and trims, LIKE, strings, which are    *)
(* searched, split, joined and replaced as bytes, distances, sorted lists. *)
(*                                                                         *)
(* A state is an input and nothing but its type has to be invariant: what  *)
(* is proved is about the oracles.  Each is related to the other           *)
(* definition by what both say of places: of the steps of a range, of the  *)
(* ends of a part, of what is kept by a trim, of the places of a subject   *)
(* from where on the rest of a pattern matches, of the bytes behind which  *)
(* the characters of a text end, and of how many values are less.          *)
(* Of the edit distances it is their tables: a cell is the distance of two *)
(* beginnings, each has another it comes from, the tables of words that    *)
(* are an edit apart stay within 1, and letters that agree cost nothing.   *)
(***************************************************************************)
EXTENDS Texts, Induction, FiniteSetTheorems, SequenceTheorems

\* The inputs are of the topic's characters, and numbers of the type.
Types ==
    /\ topic \in DOMAIN Topics
    /\ text \in Seq(Topics[topic].chars)
    /\ other \in Seq(Topics[topic].otherChars)
    /\ range \in [start : BigInts, stop : BigInts, step : BigInts \ {0}]

\* Every input is one of its topic, as the generators of the suites make it.
THEOREM TypesHold == Spec => []Types
<1>1. Init => Types
  <2> SUFFICES ASSUME Init PROVE Types
    OBVIOUS
  <2>1. 0 \in BigInts /\ 1 \in BigInts
    BY ValuesAssumption DEF BigInts
  <2>2. <<>> \in Seq(Topics[topic].chars) /\ <<>> \in Seq(Topics[topic].otherChars)
    OBVIOUS
  <2> QED
    BY <2>1, <2>2 DEF Init, Types, NotDrawn
<1>2. Types /\ [Next]_vars => Types'
  <2> SUFFICES ASSUME Types, [Next]_vars PROVE Types'
    OBVIOUS
  <2> USE DEF Types
  <2>1. CASE GrowText
    BY <2>1 DEF GrowText
  <2>2. CASE GrowOther
    BY <2>2 DEF GrowOther
  <2>3. CASE DrawRange
    BY <2>3 DEF DrawRange
  <2>4. CASE UNCHANGED vars
    BY <2>4 DEF vars
  <2> QED
    BY <2>1, <2>2, <2>3, <2>4 DEF Next
<1> QED
  BY <1>1, <1>2, PTL DEF Spec

\* The product of a positive number and one that is not negative grows with both.
LEMMA Products ==
    ASSUME NEW u \in Nat, u > 0, NEW k \in Int, NEW l \in Int
    PROVE  /\ k * u \in Int /\ k * (-u) = -(k * u)
           /\ k < l => k * u < l * u
           /\ k <= l => k * u <= l * u
           /\ (l - k) * u = l * u - k * u
<1>1. k * u \in Int /\ l * u \in Int /\ k * (-u) = -(k * u) /\ (l - k) * u = l * u - k * u
  BY SMT
<1>2. \A n \in Nat : n * u >= 0
  BY SMT
<1>3. \A n \in Nat : n > 0 => n * u > 0
  BY SMT
<1>4. k < l => (l - k) * u > 0
  BY <1>3
<1>5. k <= l => (l - k) * u >= 0
  BY <1>2
<1> HIDE DEF Types
<1> QED
  BY <1>1, <1>4, <1>5

\* What is a whole number of steps away, and how many: the quotient.
LEMMA StepsAway ==
    ASSUME NEW u \in Nat, u > 0, NEW d \in Nat
    PROVE  /\ d \div u \in Nat /\ (d \div u) * u <= d /\ d < (d \div u + 1) * u
           /\ d % u = 0 => d = (d \div u) * u
           /\ \A k \in Nat : k * u <= d <=> k <= d \div u
<1>1. /\ d \div u \in Nat /\ (d \div u) * u <= d /\ d < (d \div u + 1) * u
      /\ d % u = 0 => d = (d \div u) * u
  BY SMT
<1>2. ASSUME NEW k \in Nat PROVE k * u <= d <=> k <= d \div u
  <2>1. d \div u \in Int
    BY <1>1
  <2>2. k <= d \div u => k * u <= (d \div u) * u
    BY <2>1, Products
  <2>3. d \div u + 1 <= k => (d \div u + 1) * u <= k * u
    BY <2>1, Products
  <2> DEFINE q == d \div u
             a == q * u
             b == (q + 1) * u
             c == k * u
  <2>4. c \in Int /\ a \in Int /\ b \in Int
    BY <2>1, Products
  <2>5. q \in Nat /\ a <= d /\ d < b /\ (k <= q => c <= a) /\ (q + 1 <= k => b <= c)
    BY <1>1, <2>2, <2>3
  <2> HIDE DEF q, a, b, c
  <2>6. c <= d <=> k <= q
    BY <2>4, <2>5
  <2> QED
    BY <2>6 DEF c, q
<1> QED
  BY <1>1, <1>2

\* What is a multiple of u is some steps of u.
LEMMA WholeSteps ==
    ASSUME NEW u \in Nat, u > 0, NEW k \in Int
    PROVE  (k * u) % u = 0
  BY SMT

\* The values that n - 1 steps from a start lead to, and the start.
Progression(s, st, n) == {s + k * st : k \in 0..n - 1}

\* A progression has as many values as it has steps.
LEMMA ProgressionCount ==
    ASSUME NEW s \in Int, NEW st \in Int, st # 0, NEW n \in Nat
    PROVE  Cardinality(Progression(s, st, n)) = n
<1> DEFINE K == 0..n - 1
           T == {s + k * st : k \in K}
           f == [k \in K |-> s + k * st]
<1>1. IsFiniteSet(K) /\ Cardinality(K) = n
  BY FS_Interval
<1>2. ASSUME NEW k \in K, NEW l \in K, k < l PROVE k * st # l * st
  <2>1. CASE st > 0
    BY <1>2, <2>1, Products
  <2>2. CASE st < 0
    <3>1. -st \in Nat /\ -st > 0 /\ k \in Int /\ l \in Int /\ -(-st) = st
      BY <2>2
    <3>2. k * (-st) < l * (-st) /\ k * (-st) \in Int /\ l * (-st) \in Int
      BY <1>2, <3>1, Products
    <3>3. k * st = -(k * (-st)) /\ l * st = -(l * (-st))
      BY <3>1, SMT
    <3> QED
      BY <3>2, <3>3
  <2> QED
    BY <2>1, <2>2
<1>3. \A k, l \in K : s + k * st = s + l * st => k = l
  <2> SUFFICES ASSUME NEW k \in K, NEW l \in K, s + k * st = s + l * st PROVE k = l
    OBVIOUS
  <2>1. k * st \in Int /\ l * st \in Int /\ k \in Int /\ l \in Int
    OBVIOUS
  <2>2. k * st = l * st
    BY <2>1
  <2>3. ~(k < l) /\ ~(l < k)
    BY <1>2, <2>2
  <2> QED
    BY <2>1, <2>3
<1>4. f \in [K -> T] /\ (\A t \in T : \E k \in K : f[k] = t)
  OBVIOUS
<1>5. \A k, l \in K : f[k] = f[l] => k = l
  BY <1>3
<1>6. f \in Bijection(K, T)
  BY <1>4, <1>5 DEF Bijection, Injection, Surjection, IsInjective
<1> QED
  BY <1>1, <1>6, FS_Bijection DEF ExistsBijection, Progression

\* The values of a series or range: those a number of steps from the start that does not
\* lead beyond the distance d.
LEMMA OnSteps ==
    ASSUME NEW s \in Int, NEW st \in Int, st # 0, NEW d \in Nat
    PROVE  {x \in Int : /\ (x - s) % AbsOf(st) = 0
                        /\ IF st > 0 THEN s <= x /\ x <= s + d ELSE s - d <= x /\ x <= s}
             = {s + k * st : k \in 0..d \div AbsOf(st)}
<1> DEFINE u == AbsOf(st)
           q == d \div u
           S == {x \in Int : /\ (x - s) % u = 0
                             /\ IF st > 0 THEN s <= x /\ x <= s + d ELSE s - d <= x /\ x <= s}
           T == {s + k * st : k \in 0..q}
<1>1. u \in Nat /\ u > 0 /\ st = (IF st > 0 THEN u ELSE -u)
  BY DEF AbsOf
<1> HIDE DEF u
<1>2. q \in Nat
  BY <1>1, StepsAway
<1> HIDE DEF q
<1>3. ASSUME NEW x \in S PROVE x \in T
  <2> DEFINE y == IF st > 0 THEN x - s ELSE s - x
  <2>1. y \in Nat /\ y <= d /\ (x - s) % u = 0
    OBVIOUS
  <2>2. y % u = 0
    <3>1. (x - s) = u * ((x - s) \div u)
      BY <1>1, <2>1, SMT
    <3>2. (x - s) \div u \in Int
      BY <1>1, SMT
    <3> DEFINE z == (x - s) \div u
    <3>3. z \in Int /\ x - s = z * u
      BY <3>1, <3>2, <1>1, SMT
    <3> HIDE DEF z
    <3>4. y = z * u \/ y = (-z) * u
      BY <3>3, <1>1, SMT
    <3>5. -z \in Int /\ (z * u) % u = 0 /\ ((-z) * u) % u = 0
      BY <1>1, <3>3, WholeSteps
    <3> QED
      BY <3>4, <3>5
  <2> HIDE DEF y
  <2> DEFINE k == y \div u
  <2>3. k \in Nat /\ y = k * u
    BY <1>1, <2>1, <2>2, StepsAway
  <2> HIDE DEF k
  <2>4. k \in 0..q
    BY <1>1, <1>2, <2>1, <2>3, StepsAway DEF q
  <2>5. k * st = (IF st > 0 THEN y ELSE -y)
    BY <1>1, <2>3, Products
  <2>6. x = s + k * st
    BY <2>5, <2>1 DEF y
  <2> QED
    BY <2>4, <2>6
<1>4. ASSUME NEW x \in T PROVE x \in S
  <2>1. PICK k \in 0..q : x = s + k * st
    OBVIOUS
  <2> DEFINE y == k * u
  <2>2. k \in Nat /\ y \in Int /\ y <= d /\ y >= 0
    <3>1. k \in Nat /\ k <= q /\ 0 \in Int /\ 0 <= k
      BY <1>2
    <3>2. k * u <= d
      BY <1>1, <3>1, StepsAway DEF q
    <3>3. 0 * u <= k * u /\ 0 * u = 0 /\ k * u \in Int
      BY <1>1, <3>1, Products
    <3> QED
      BY <3>1, <3>2, <3>3
  <2>3. k * st = (IF st > 0 THEN y ELSE -y)
    BY <1>1, <2>2, Products
  <2>4. y % u = 0 /\ (-y) % u = 0
    <3>1. -y = (-k) * u /\ -k \in Int
      BY <2>2, <1>1, SMT
    <3> QED
      BY <3>1, <2>2, <1>1, WholeSteps
  <2> HIDE DEF y
  <2>5. x \in Int /\ x - s = (IF st > 0 THEN y ELSE -y)
    BY <2>1, <2>2, <2>3
  <2>6. (x - s) % u = 0
    BY <2>4, <2>5
  <2> QED
    BY <2>2, <2>5, <2>6
<1>5. S = T
  BY <1>3, <1>4
<1> QED
  BY <1>5 DEF u, q

\* The least and the greatest value of a set, once one is known.
LEMMA LeastOf ==
    ASSUME NEW S \in SUBSET Int, NEW m \in S
    PROVE  /\ (\A x \in S : m <= x) => Min(S) = m
           /\ (\A x \in S : x <= m) => Max(S) = m
<1>1. ASSUME \A x \in S : m <= x PROVE Min(S) = m
  <2>1. Min(S) \in S /\ \A y \in S : Min(S) <= y
    BY <1>1 DEF Min
  <2>2. Min(S) <= m /\ m <= Min(S) /\ Min(S) \in Int /\ m \in Int
    BY <1>1, <2>1
  <2> QED
    BY <2>2
<1>2. ASSUME \A x \in S : x <= m PROVE Max(S) = m
  <2>1. Max(S) \in S /\ \A y \in S : Max(S) >= y
    BY <1>2 DEF Max
  <2>2. Max(S) <= m /\ m <= Max(S) /\ Max(S) \in Int /\ m \in Int
    BY <1>2, <2>1
  <2> QED
    BY <2>2
<1> QED
  BY <1>1, <1>2

\* The counts of the oracles, divided in C++ and rounded up, are floor quotients.
LEMMA CountsAreQuotients ==
    ASSUME NEW s \in Int, NEW e \in Int, NEW st \in Int, st # 0
    PROVE  LET u == AbsOf(st)
               d == AbsOf(e - s)
               on == IF st > 0 THEN e >= s ELSE e <= s
           IN  /\ SeriesCount(s, e, st) = IF on THEN (d \div u) + 1 ELSE 0
               /\ RangeCount(s, e, st) = IF on /\ e # s THEN ((d - 1) \div u) + 1 ELSE 0
<1> DEFINE u == AbsOf(st)
           d == AbsOf(e - s)
<1>1. u \in Nat /\ u > 0 /\ d \in Nat /\ st = (IF st > 0 THEN u ELSE -u) /\ (e # s => d >= 1)
  BY DEF AbsOf
<1>2. ASSUME NEW a \in Nat PROVE CDiv(a, u) = a \div u
  BY <1>1, <1>2 DEF CDiv, AbsOf
<1>3. e # s => (d + u - 1) \in Nat /\ (d + u - 1) \div u = ((d - 1) \div u) + 1
  <2> SUFFICES ASSUME e # s PROVE (d + u - 1) \div u = ((d - 1) \div u) + 1
    BY <1>1
  <2> HIDE DEF u, d
  <2> DEFINE a == d - 1
  <2>1. a \in Nat /\ d + u - 1 = a + u
    BY <1>1
  <2> HIDE DEF a
  <2>2. (a + u) \div u = (a \div u) + 1
    BY <1>1, <2>1, SMT
  <2> QED
    BY <2>1, <2>2 DEF a
<1>4. CASE st > 0
  <2>1. st = u /\ (e >= s => e - s = d)
    BY <1>1, <1>4 DEF AbsOf
  <2>2. SeriesCount(s, e, st) = IF e >= s THEN CDiv(d, u) + 1 ELSE 0
    BY <1>4, <2>1 DEF SeriesCount
  <2>3. e > s => e - s + st - 1 = d + u - 1
    BY <2>1
  <2>4. RangeCount(s, e, st) = IF e > s THEN CDiv(d + u - 1, u) ELSE 0
    BY <1>4, <2>1, <2>3 DEF RangeCount
  <2> HIDE DEF u, d
  <2>5. e > s <=> e >= s /\ e # s
    OBVIOUS
  <2> QED
    BY <1>1, <1>2, <1>3, <1>4, <2>2, <2>4, <2>5 DEF u, d
<1>5. CASE st < 0
  <2>1. -st = u /\ (e <= s => s - e = d)
    BY <1>1, <1>5 DEF AbsOf
  <2>2. SeriesCount(s, e, st) = IF e <= s THEN CDiv(d, u) + 1 ELSE 0
    BY <1>5, <2>1 DEF SeriesCount
  <2>3. e < s => s - e + (-st) - 1 = d + u - 1
    BY <2>1
  <2>4. RangeCount(s, e, st) = IF e < s THEN CDiv(d + u - 1, u) ELSE 0
    BY <1>5, <2>1, <2>3 DEF RangeCount
  <2> HIDE DEF u, d
  <2>5. (e < s <=> e <= s /\ e # s) /\ ~(st > 0)
    BY <1>5
  <2> QED
    BY <1>1, <1>2, <1>3, <2>2, <2>4, <2>5 DEF u, d
<1> QED
  BY <1>4, <1>5

\* What a range has is known from its start, stop and step alone.
LEMMA RangesCount ==
    ASSUME NEW s \in BigInts, NEW e \in BigInts, NEW st \in BigInts, st # 0
    PROVE  /\ SeriesCount(s, e, st) = Cardinality(SeriesOf(s, e, st))
           /\ RangeCount(s, e, st) = Cardinality(SeriesOf(s, e, st) \ {e})
           /\ SeriesOf(s, e, st) \ {e} # {} =>
                /\ ExpectedMin(s, e, st) = Min(SeriesOf(s, e, st) \ {e})
                /\ ExpectedMax(s, e, st) = Max(SeriesOf(s, e, st) \ {e})
<1> DEFINE u == AbsOf(st)
           d == AbsOf(e - s)
           on == IF st > 0 THEN e >= s ELSE e <= s
           series == SeriesOf(s, e, st)
           values == series \ {e}
<1> USE DEF SeriesOf
<1>1. s \in Int /\ e \in Int /\ st \in Int /\ IntLimit \in Nat
  BY ValuesAssumption DEF BigInts
<1>2. u \in Nat /\ u > 0 /\ d \in Nat /\ (e # s => d >= 1)
  BY <1>1 DEF AbsOf
<1>3. CASE ~on
  <2>1. ASSUME NEW x, x \in series PROVE FALSE
    <3>1. x \in BigInts /\ IF st > 0 THEN x \in s..e ELSE x \in e..s
      BY <2>1
    <3> QED
      BY <1>1, <1>3, <3>1
  <2>2. SeriesCount(s, e, st) = 0 /\ RangeCount(s, e, st) = 0
    BY <1>1, <1>3, CountsAreQuotients
  <2> QED
    <3>1. series = {} /\ values = {}
      BY <2>1
    <3> QED
      BY <2>2, <3>1, FS_EmptySet
<1>4. CASE on
  <2>1. st > 0 => e = s + d
    BY <1>1, <1>4 DEF AbsOf
  <2>2. ~(st > 0) => e = s - d
    BY <1>1, <1>4 DEF AbsOf
  <2> DEFINE Within(n) == {x \in Int : /\ (x - s) % u = 0
                                       /\ IF st > 0 THEN s <= x /\ x <= s + n ELSE s - n <= x /\ x <= s}
  <2>3. series = Within(d)
    <3>1. \A x \in Int : x \in s..e \/ x \in e..s => x \in BigInts
      BY <1>1 DEF BigInts
    <3>2. \A x : x \in series <=> x \in Int /\ (x - s) % u = 0 /\ IF st > 0 THEN x \in s..e ELSE x \in e..s
      BY <1>1, <3>1 DEF BigInts
    <3>3. \A x \in Int : (IF st > 0 THEN x \in s..e ELSE x \in e..s)
                            <=> (IF st > 0 THEN s <= x /\ x <= s + d ELSE s - d <= x /\ x <= s)
      BY <1>1, <2>1, <2>2
    <3> HIDE DEF u, d
    <3>4. \A x : x \in series <=> x \in Within(d)
      BY <3>2, <3>3
    <3> QED
      BY <3>4
  <2>4. ASSUME NEW n \in Nat PROVE Within(n) = Progression(s, st, n \div u + 1) /\ n \div u + 1 \in Nat
    <3>1. n \div u \in Nat /\ (n \div u + 1) - 1 = n \div u
      BY <1>2, StepsAway
    <3>2. Within(n) = {s + k * st : k \in 0..n \div u}
      BY <1>1, OnSteps
    <3> QED
      BY <3>1, <3>2 DEF Progression
  <2>5. SeriesCount(s, e, st) = Cardinality(series)
    <3>1. SeriesCount(s, e, st) = d \div u + 1
      BY <1>1, <1>4, CountsAreQuotients
    <3> DEFINE n == d \div u + 1
    <3>2. n \in Nat /\ series = Progression(s, st, n)
      BY <1>2, <2>3, <2>4
    <3> HIDE DEF n
    <3>3. Cardinality(Progression(s, st, n)) = n
      BY <1>1, <3>2, ProgressionCount
    <3> QED
      BY <3>1, <3>2, <3>3 DEF n
  <2>6. CASE e = s
    <3>1. values = {}
      BY <1>1, <2>1, <2>2, <2>3, <2>6
    <3>2. RangeCount(s, e, st) = 0
      BY <1>1, <2>6, CountsAreQuotients
    <3> QED
      BY <2>5, <3>1, <3>2, FS_EmptySet
  <2>7. CASE e # s
    <3> DEFINE n == (d - 1) \div u + 1
    <3>1. values = Within(d - 1)
      <4>1. \A x \in Int : (IF st > 0 THEN s <= x /\ x <= s + d ELSE s - d <= x /\ x <= s) /\ x # e
                <=> (IF st > 0 THEN s <= x /\ x <= s + (d - 1) ELSE s - (d - 1) <= x /\ x <= s)
        BY <1>1, <1>2, <2>1, <2>2, <2>7
      <4> HIDE DEF u, d
      <4>2. \A x : x \in values <=> x \in Within(d - 1)
        BY <2>3, <4>1
      <4> QED
        BY <4>2
    <3>2. values = Progression(s, st, n) /\ n \in Nat
      <4>1. d - 1 \in Nat
        BY <1>2, <2>7
      <4> HIDE DEF Within, u, d
      <4> QED
        BY <2>4, <3>1, <4>1
    <3>3. RangeCount(s, e, st) = n
      BY <1>1, <1>4, <2>7, CountsAreQuotients
    <3>5. n >= 1
      BY <1>2, <2>7, StepsAway
    <3> HIDE DEF n, u, d
    <3> DEFINE last == s + (n - 1) * st
               T == Progression(s, st, n)
    <3>4. Cardinality(T) = n
      BY <1>1, <3>2, ProgressionCount
    <3>6. s \in T /\ last \in T /\ last \in Int
      <4>1. s = s + 0 * st /\ (n - 1) * st \in Int
        BY <1>1, <3>2
      <4> QED
        BY <1>1, <3>2, <3>5, <4>1 DEF Progression
    <3>7. ASSUME NEW x \in T PROVE IF st > 0 THEN s <= x /\ x <= last ELSE last <= x /\ x <= s
      <4>1. PICK k \in 0..n - 1 : x = s + k * st
        BY DEF Progression
      <4>2. k \in Int /\ n - 1 \in Int /\ 0 <= k /\ k <= n - 1
        BY <3>2
      <4>3. CASE st > 0
        <5>1. 0 * st <= k * st /\ k * st <= (n - 1) * st /\ 0 * st = 0 /\ k * st \in Int /\ (n - 1) * st \in Int
          BY <1>1, <4>2, <4>3, Products
        <5> QED
          BY <1>1, <4>1, <4>3, <5>1
      <4>4. CASE st < 0
        <5> DEFINE w == -st
        <5>1. w \in Nat /\ w > 0 /\ st = -w
          BY <1>1, <4>4
        <5> HIDE DEF w
        <5>2. 0 * w <= k * w /\ k * w <= (n - 1) * w /\ 0 * w = 0 /\ k * w \in Int /\ (n - 1) * w \in Int
          BY <4>2, <5>1, Products
        <5>3. k * st = -(k * w) /\ (n - 1) * st = -((n - 1) * w)
          BY <4>2, <5>1, Products
        <5> QED
          BY <1>1, <4>1, <4>4, <5>2, <5>3
      <4> QED
        BY <1>1, <4>3, <4>4
    <3>8. T \in SUBSET Int
      BY <1>1, <3>2 DEF Progression
    <3>9. ExpectedMin(s, e, st) = Min(T) /\ ExpectedMax(s, e, st) = Max(T)
      <4> HIDE DEF T
      <4>1. CASE st > 0
        BY <3>3, <3>6, <3>7, <3>8, <4>1, LeastOf DEF ExpectedMin, ExpectedMax
      <4>2. CASE ~(st > 0)
        BY <3>3, <3>6, <3>7, <3>8, <4>2, LeastOf DEF ExpectedMin, ExpectedMax
      <4> QED
        BY <4>1, <4>2
    <3> QED
      BY <2>5, <3>2, <3>3, <3>4, <3>9
  <2> QED
    BY <2>6, <2>7
<1> QED
  BY <1>3, <1>4

\* The closed-form counts and ends of range and generate_series are right for every
\* start, stop and step, of a BIGINT of any width.
THEOREM RangesAreCounted == Spec => []RangesCountElements
<1>1. Types => RangesCountElements
  <2> SUFFICES ASSUME Types PROVE RangesCountElements
    OBVIOUS
  <2>1. range.start \in BigInts /\ range.stop \in BigInts /\ range.step \in BigInts /\ range.step # 0
    BY DEF Types
  <2>2. SUFFICES ASSUME topic = "ranges" PROVE RangesCountElements
    BY DEF RangesCountElements
  <2> DEFINE s == range.start
             e == range.stop
             st == range.step
  <2> HIDE DEF s, e, st
  <2>3. s \in BigInts /\ e \in BigInts /\ st \in BigInts /\ st # 0
    BY <2>1 DEF s, e, st
  <2> QED
    BY <2>3, RangesCount DEF RangesCountElements, s, e, st
<1> QED
  BY <1>1, TypesHold, PTL

-----------------------------------------------------------------------------
\* Parts of sequences, and first the larger and the smaller of two numbers.
LEMMA LargerOf ==
    ASSUME NEW a \in Int, NEW b \in Int
    PROVE  /\ Max({a, b}) = IF a >= b THEN a ELSE b
           /\ Min({a, b}) = IF a <= b THEN a ELSE b
<1>1. {a, b} \in SUBSET Int /\ a \in {a, b} /\ b \in {a, b}
  OBVIOUS
<1>2. a >= b => Max({a, b}) = a
  BY <1>1, LeastOf
<1>3. ~(a >= b) => Max({a, b}) = b
  BY <1>1, LeastOf
<1>4. a <= b => Min({a, b}) = a
  BY <1>1, LeastOf
<1>5. ~(a <= b) => Min({a, b}) = b
  BY <1>1, LeastOf
<1> QED
  BY <1>2, <1>3, <1>4, <1>5

\* A part that is cut at the ends of a sequence.
LEMMA Part ==
    ASSUME NEW C, NEW s \in Seq(C), NEW m \in Int, NEW n \in Int, m >= 1, n <= Len(s)
    PROVE  /\ SubSeq(s, m, n) \in Seq(C)
           /\ Len(SubSeq(s, m, n)) = IF m <= n THEN n - m + 1 ELSE 0
           /\ \A i \in 1..n - m + 1 : SubSeq(s, m, n)[i] = s[m + i - 1]
<1>1. \A i \in m..n : s[i] \in C
  <2>1. Len(s) \in Nat /\ \A i \in 1..Len(s) : s[i] \in C
    BY ElementOfSeq, LenProperties
  <2>2. \A i \in m..n : i \in 1..Len(s)
    BY <2>1
  <2> QED
    BY <2>1, <2>2
<1> QED
  BY <1>1, SubSeqProperties

\* Two parts, of which one begins where the other ends, are a part.
LEMMA Adjacent ==
    ASSUME NEW C, NEW s \in Seq(C), NEW m \in Int, NEW k \in Int, NEW next \in Int, NEW n \in Int,
           1 <= m, m <= next, next = k + 1, k <= n, n <= Len(s)
    PROVE  SubSeq(s, m, k) \o SubSeq(s, next, n) = SubSeq(s, m, n)
<1>1. Len(s) \in Nat
  BY LenProperties
<1>2. m \in 1..Len(s) + 1 /\ k \in m - 1..Len(s) /\ n \in k..Len(s)
  BY <1>1
<1> QED
  BY <1>2, ConcatAdjacentSubSeq

\* A part that ends before it begins is empty.
LEMMA NoPart ==
    ASSUME NEW C, NEW s \in Seq(C), NEW m \in Int, NEW n \in Int, n < m
    PROVE  SubSeq(s, m, n) = <<>> /\ <<>> \o s = s /\ s \o <<>> = s
  BY SubSeqEmpty, ConcatEmptySeq

\* substring takes the characters from its start to the last of as many as it is told.
LEMMA SubstringTo ==
    \A s : \A start, len, last \in Int :
        (len >= 0 /\ FromFront(start, Len(s)) \in Int /\ FromFront(start, Len(s)) + len - 1 = last) =>
            Substring(s, start, len) =
                SubSeq(s, Max({FromFront(start, Len(s)), 1}), Min({last, Len(s)}))
<1> SUFFICES ASSUME NEW s, NEW start \in Int, NEW len \in Int, NEW last \in Int, len >= 0,
                    FromFront(start, Len(s)) \in Int, FromFront(start, Len(s)) + len - 1 = last
             PROVE  Substring(s, start, len) =
                        SubSeq(s, Max({FromFront(start, Len(s)), 1}), Min({last, Len(s)}))
  OBVIOUS
<1> DEFINE eff == FromFront(start, Len(s))
           lo == IF len >= 0 THEN eff ELSE eff + len
           hi == IF len >= 0 THEN eff + len ELSE eff
           top == hi - 1
<1>1. Substring(s, start, len) = SubSeq(s, Max({lo, 1}), Min({top, Len(s)}))
  BY DEF Substring
<1>2. lo = eff /\ top = last
  OBVIOUS
<1> HIDE DEF lo, top
<1> QED
  BY <1>1, <1>2

\* With a length to the left it takes the ones before its start.
LEMMA SubstringBack ==
    \A s : \A start, len, first, last \in Int :
        (/\ len <= 0 /\ FromFront(start, Len(s)) \in Int
         /\ FromFront(start, Len(s)) + len = first /\ FromFront(start, Len(s)) - 1 = last) =>
            Substring(s, start, len) = SubSeq(s, Max({first, 1}), Min({last, Len(s)}))
<1> TAKE s
<1> TAKE start, len, first, last \in Int
<1> HAVE /\ len <= 0 /\ FromFront(start, Len(s)) \in Int
         /\ FromFront(start, Len(s)) + len = first /\ FromFront(start, Len(s)) - 1 = last
<1> DEFINE eff == FromFront(start, Len(s))
           lo == IF len >= 0 THEN eff ELSE eff + len
           hi == IF len >= 0 THEN eff + len ELSE eff
           top == hi - 1
<1>1. Substring(s, start, len) = SubSeq(s, Max({lo, 1}), Min({top, Len(s)}))
  BY DEF Substring
<1>2. lo = first /\ top = last
  OBVIOUS
<1> HIDE DEF lo, top
<1> QED
  BY <1>1, <1>2

\* The oracle of list slices, for positions wherever they are.
LEMMA SliceIs ==
    ASSUME NEW C, NEW s \in Seq(C), NEW begin \in Int, NEW end \in Int
    PROVE  LET n == Len(s)
               from == FromFront(begin, n)
               to == FromFront(end, n)
               window == {p \in DOMAIN s : from <= p /\ p <= to}
           IN  /\ Slice(s, begin, end) =
                    [i \in 1..Cardinality(window) |-> s[Max({from, 1}) + i - 1]]
               /\ begin <= end /\ (begin < 0 <=> end < 0) =>
                    Slice(s, begin, end) = Substring(s, begin, end - begin + 1)
<1> DEFINE n == Len(s)
           from == FromFront(begin, n)
           to == FromFront(end, n)
           window == {p \in DOMAIN s : from <= p /\ p <= to}
           lo == IF from >= 1 THEN from ELSE 1
           hi == IF to <= n THEN to ELSE n
<1>1. n \in Nat /\ n \in Int /\ DOMAIN s = 1..n /\ from \in Int /\ to \in Int
  BY LenProperties DEF FromFront
<1>2. FirstOf(begin, n) = lo /\ Max({from, 1}) = lo
  BY <1>1, LargerOf DEF FirstOf, FromFront
<1>3. IF hi = LastOf(end, n) THEN TRUE ELSE end < 0 /\ LastOf(end, n) = to /\ to > n
  <2>1. Min({end, n}) = IF end <= n THEN end ELSE n
    BY <1>1, LargerOf
  <2>3. end >= 0 => LastOf(end, n) = hi
    BY <1>1, <2>1 DEF LastOf, FromFront
  <2>2. end < 0 => LastOf(end, n) = to /\ to <= n
    BY <1>1 DEF LastOf, FromFront
  <2> QED
    BY <1>1, <2>3, <2>2
<1>4. LastOf(end, n) = hi
  BY <1>1, <1>3 DEF FromFront
<1>5. window = lo..hi
  <2> HIDE DEF n, from, to
  <2>1. \A p : p \in 1..n /\ from <= p /\ p <= to <=> p \in lo..hi
    BY <1>1
  <2> QED
    BY <1>1, <2>1
<1>6. lo \in Int /\ hi \in Int /\ lo >= 1 /\ hi <= n
  BY <1>1
<1>7. Cardinality(window) = IF lo > hi THEN 0 ELSE hi - lo + 1
  BY <1>5, <1>6, FS_Interval
<1> HIDE DEF n, from, to, lo, hi, window
<1> DEFINE c == Cardinality(window)
           f == [i \in 1..c |-> s[lo + i - 1]]
<1>8. c \in Nat /\ c = (IF lo <= hi THEN hi - lo + 1 ELSE 0)
  BY <1>6, <1>7
<1> HIDE DEF c
<1>9. SubSeq(s, lo, hi) = f
  <2> DEFINE t == SubSeq(s, lo, hi)
  <2>1. t \in Seq(C) /\ Len(t) = c /\ \A i \in 1..c : t[i] = s[lo + i - 1]
    <3>1. /\ t \in Seq(C) /\ Len(t) = (IF lo <= hi THEN hi - lo + 1 ELSE 0)
          /\ \A i \in 1..hi - lo + 1 : t[i] = s[lo + i - 1]
      BY <1>6, Part DEF n
    <3> HIDE DEF t
    <3> QED
      BY <1>6, <1>8, <3>1
  <2> HIDE DEF t
  <2>2. t = [i \in 1..c |-> t[i]]
    BY <2>1, LenProperties
  <2> QED
    BY <2>1, <2>2 DEF t
<1>10. Slice(s, begin, end) = IF lo \in 1..n THEN SubSeq(s, lo, hi) ELSE <<>>
  BY <1>2, <1>4 DEF Slice, n
<1>11. lo \notin 1..n => SubSeq(s, lo, hi) = <<>>
  BY <1>1, <1>6, NoPart
<1>12. Slice(s, begin, end) = f
  BY <1>9, <1>10, <1>11
<1>13. ASSUME begin <= end, begin < 0 <=> end < 0
       PROVE  Substring(s, begin, end - begin + 1) = SubSeq(s, lo, hi)
  <2>1. from + (end - begin + 1) - 1 = to /\ end - begin + 1 >= 0
    BY <1>1, <1>13 DEF from, to, FromFront
  <2>2. Substring(s, begin, end - begin + 1) = SubSeq(s, Max({from, 1}), Min({to, n}))
    <3>1. end - begin + 1 \in Int /\ begin \in Int /\ from \in Int /\ to \in Int
      BY <1>1
    <3> QED
      BY <2>1, <3>1, SubstringTo DEF from, n
  <2>3. Min({to, n}) = IF to <= n THEN to ELSE n
    BY <1>1, LargerOf
  <2> QED
    BY <1>2, <2>1, <2>2, <2>3 DEF hi
<1> QED
  BY <1>2, <1>9, <1>10, <1>11, <1>12, <1>13 DEF n, from, to, window, c

\* A slice of a list is what the list has of the window between the two places, wherever
\* they are, and the substring of as many elements.
THEOREM SlicesAreTaken == Spec => []SlicesAreWindows
<1>1. Types => SlicesAreWindows
  <2> SUFFICES ASSUME Types PROVE SlicesAreWindows
    OBVIOUS
  <2>1. text \in Seq(Topics[topic].chars) /\ Len(text) \in Nat
    BY LenProperties DEF Types
  <2>2. \A begin, end \in -(Len(text) + 3)..Len(text) + 3 : begin \in Int /\ end \in Int
    BY <2>1
  <2> QED
    BY <2>1, <2>2, SliceIs DEF SlicesAreWindows
<1> QED
  BY <1>1, TypesHold, PTL

-----------------------------------------------------------------------------
\* How many characters left and right keep.
LEMMA KeptIs ==
    ASSUME NEW C, NEW s \in Seq(C), NEW k \in Int
    PROVE  /\ Kept(s, k) \in 0..Len(s)
           /\ k >= 0 => Kept(s, k) = IF k <= Len(s) THEN k ELSE Len(s)
           /\ k < 0 => Kept(s, k) = IF Len(s) + k >= 0 THEN Len(s) + k ELSE 0
<1>1. Len(s) \in Nat /\ Len(s) \in Int /\ 0 \in Int /\ Len(s) + k \in Int
  BY LenProperties
<1>2. Min({k, Len(s)}) = IF k <= Len(s) THEN k ELSE Len(s)
  BY <1>1, LargerOf
<1>3. Max({0, Len(s) + k}) = IF 0 >= Len(s) + k THEN 0 ELSE Len(s) + k
  BY <1>1, LargerOf
<1> QED
  BY <1>1, <1>2, <1>3 DEF Kept

\* They are the beginning and the end of the text.
LEMMA LeftRight ==
    ASSUME NEW C, NEW s \in Seq(C), NEW k \in Int, k # 0
    PROVE  Left(s, k) \o Right(s, -k) = s
<1>1. Len(s) \in Nat /\ -k \in Int
  BY LenProperties
<1>2. Kept(s, k) \in 0..Len(s) /\ Len(s) - Kept(s, -k) = Kept(s, k)
  BY <1>1, KeptIs
<1> DEFINE next == Len(s) - Kept(s, -k) + 1
<1>3. /\ Kept(s, k) \in Int /\ next \in Int /\ Len(s) \in Int /\ 1 \in Int
      /\ 1 <= next /\ next = Kept(s, k) + 1 /\ Kept(s, k) <= Len(s) /\ Len(s) <= Len(s) /\ 1 <= 1
  BY <1>1, <1>2
<1>4. Left(s, k) = SubSeq(s, 1, Kept(s, k)) /\ Right(s, -k) = SubSeq(s, next, Len(s))
  BY DEF Left, Right
<1> HIDE DEF next
<1>5. SubSeq(s, 1, Kept(s, k)) \o SubSeq(s, next, Len(s)) = SubSeq(s, 1, Len(s))
  BY <1>3, Adjacent
<1>6. SubSeq(s, 1, Len(s)) = s
  BY SubSeqFull
<1> QED
  BY <1>4, <1>5, <1>6

\* substring takes the beginning and the end, too.
LEMMA SubstringsOfEnds ==
    ASSUME NEW C, NEW s \in Seq(C), NEW k \in Int, k >= 0
    PROVE  Substring(s, 1, k) = Left(s, k) /\ Substring(s, -k, k) = Right(s, k)
<1> DEFINE n == Len(s)
<1>1. n \in Nat /\ n \in Int /\ -k \in Int /\ 1 \in Int
  BY LenProperties
<1>2. Kept(s, k) = IF k <= n THEN k ELSE n
  BY <1>1, KeptIs
<1>3. Substring(s, 1, k) = Left(s, k)
  <2>1. FromFront(1, n) = 1 /\ 1 + k - 1 = k
    BY <1>1 DEF FromFront
  <2>2. Substring(s, 1, k) = SubSeq(s, Max({1, 1}), Min({k, n}))
    BY <1>1, <2>1, SubstringTo
  <2>3. Max({1, 1}) = 1 /\ Min({k, n}) = Kept(s, k)
    BY <1>1, <1>2, LargerOf
  <2> QED
    BY <2>2, <2>3 DEF Left
<1>4. CASE k = 0
  <2> DEFINE below == k - 1
  <2>1. FromFront(k, Len(s)) = k
    BY <1>4 DEF FromFront
  <2>a. k + k - 1 = below /\ below \in Int /\ below < 1 /\ below <= n /\ k < 1
    BY <1>1, <1>4
  <2>b. -k = k
    <3>1. -k = 0 - k
      OBVIOUS
    <3>2. 0 - k = k
      BY <1>4
    <3> QED
      BY <3>1, <3>2
  <2> HIDE DEF below
  <2>2. Substring(s, k, k) = SubSeq(s, Max({k, 1}), Min({below, Len(s)}))
    <3>1. FromFront(k, Len(s)) \in Int /\ FromFront(k, Len(s)) + k - 1 = below
      BY <2>1, <2>a
    <3>2. Substring(s, k, k) = SubSeq(s, Max({FromFront(k, Len(s)), 1}), Min({below, Len(s)}))
      BY <2>a, <3>1, SubstringTo
    <3> QED
      BY <2>1, <3>2
  <2>3. Max({k, 1}) = 1 /\ Min({below, n}) = below
    <3>1. Max({k, 1}) = IF k >= 1 THEN k ELSE 1
      BY <1>1, LargerOf
    <3>2. Min({below, n}) = IF below <= n THEN below ELSE n
      BY <1>1, <2>a, LargerOf
    <3> QED
      BY <2>a, <3>1, <3>2
  <2>4. SubSeq(s, 1, below) = <<>> /\ SubSeq(s, n + 1, n) = <<>>
    BY <1>1, <2>a, NoPart
  <2>5. Right(s, k) = SubSeq(s, n + 1, n)
    BY <1>1, <1>2, <1>4 DEF Right
  <2> QED
    BY <1>3, <2>b, <2>2, <2>3, <2>4, <2>5
<1>5. CASE k > 0
  <2> DEFINE q == n - k + 1
             back == -k
  <2>1. /\ FromFront(back, Len(s)) = q /\ q + k - 1 = n /\ q \in Int /\ back \in Int
        /\ n - Kept(s, k) + 1 = IF q >= 1 THEN q ELSE 1
    BY <1>1, <1>2, <1>5 DEF FromFront
  <2>2. Right(s, k) = SubSeq(s, IF q >= 1 THEN q ELSE 1, n)
    BY <2>1 DEF Right
  <2> HIDE DEF q, back
  <2>3. Substring(s, back, k) = SubSeq(s, Max({q, 1}), Min({n, Len(s)}))
    BY <1>1, <2>1, SubstringTo
  <2>4. Max({q, 1}) = (IF q >= 1 THEN q ELSE 1) /\ Min({n, Len(s)}) = n
    BY <1>1, <2>1, LargerOf
  <2> QED
    BY <1>3, <2>2, <2>3, <2>4 DEF back
<1> QED
  BY <1>4, <1>5

\* A substring to the left and one to the right of a place meet there.
LEMMA SubstringsMeet ==
    ASSUME NEW C, NEW s \in Seq(C), NEW k \in Int, NEW len \in Int, len >= 0
    PROVE  LET place == FromFront(k, Len(s))
           IN  Substring(s, k, -len) \o Substring(s, k, len) =
                   SubSeq(s, Max({place - len, 1}), Min({place + len - 1, Len(s)}))
<1> DEFINE n == Len(s)
           place == FromFront(k, Len(s))
           from == place - len
           to == place + len - 1
           before == place - 1
           back == -len
<1>1. /\ n \in Nat /\ n \in Int /\ place \in Int /\ back \in Int /\ 1 \in Int
      /\ from \in Int /\ to \in Int /\ before \in Int
  BY LenProperties DEF FromFront
<1>0. /\ place + len - 1 = to /\ place + back = from /\ place - 1 = before /\ back <= 0
  BY <1>1
<1> HIDE DEF n, from, to, before, back
<1>2. Substring(s, k, len) = SubSeq(s, Max({place, 1}), Min({to, Len(s)}))
  BY <1>0, <1>1, SubstringTo
<1>3. Substring(s, k, back) = SubSeq(s, Max({from, 1}), Min({before, Len(s)}))
  <2>1. /\ back <= 0 /\ FromFront(k, Len(s)) \in Int
        /\ FromFront(k, Len(s)) + back = from /\ FromFront(k, Len(s)) - 1 = before
    BY <1>0, <1>1
  <2>2. \A f, l \in Int :
            (/\ back <= 0 /\ FromFront(k, Len(s)) \in Int
             /\ FromFront(k, Len(s)) + back = f /\ FromFront(k, Len(s)) - 1 = l) =>
                Substring(s, k, back) = SubSeq(s, Max({f, 1}), Min({l, Len(s)}))
    BY <1>1, SubstringBack, Zenon
  <2> QED
    BY <1>1, <2>1, <2>2, Zenon
<1>a. Len(s) = n
  BY DEF n
<1> HIDE DEF place
<1> DEFINE lo == IF from >= 1 THEN from ELSE 1
           hi == IF to <= n THEN to ELSE n
           mid == IF before <= n THEN before ELSE n
           next == IF place >= 1 THEN place ELSE 1
<1>4. /\ Max({from, 1}) = lo /\ Min({to, n}) = hi
      /\ Min({before, n}) = mid /\ Max({place, 1}) = next
  BY <1>1, LargerOf
<1>5. lo \in Int /\ hi \in Int /\ mid \in Int /\ next \in Int
  BY <1>1
<1>6. ASSUME place <= 1
       PROVE  Substring(s, k, back) \o Substring(s, k, len) = SubSeq(s, Max({from, 1}), Min({to, n}))
  <2>1. mid < lo /\ next = lo
    BY <1>0, <1>1, <1>6
  <2> HIDE DEF lo, hi, mid, next
  <2>2. SubSeq(s, lo, mid) = <<>>
    BY <1>5, <2>1, NoPart
  <2>3. <<>> \o SubSeq(s, lo, hi) = SubSeq(s, lo, hi)
    <3>1. lo >= 1 /\ hi <= Len(s)
      BY <1>1, <1>a DEF lo, hi
    <3>2. SubSeq(s, lo, hi) \in Seq(C)
      BY <1>5, <3>1, Part
    <3> QED
      BY <3>2, ConcatEmptySeq
  <2> QED
    BY <1>2, <1>3, <1>4, <1>a, <2>1, <2>2, <2>3
<1>7. ASSUME place > n
       PROVE  Substring(s, k, back) \o Substring(s, k, len) = SubSeq(s, Max({from, 1}), Min({to, n}))
  <2>1. hi < next /\ mid = hi
    BY <1>0, <1>1, <1>7
  <2> HIDE DEF lo, hi, mid, next
  <2>2. SubSeq(s, next, hi) = <<>>
    BY <1>5, <2>1, NoPart
  <2>3. SubSeq(s, lo, hi) \o <<>> = SubSeq(s, lo, hi)
    <3>1. lo >= 1 /\ hi <= Len(s)
      BY <1>1, <1>a DEF lo, hi
    <3>2. SubSeq(s, lo, hi) \in Seq(C)
      BY <1>5, <3>1, Part
    <3> QED
      BY <3>2, ConcatEmptySeq
  <2> QED
    BY <1>2, <1>3, <1>4, <1>a, <2>1, <2>2, <2>3
<1>8. ASSUME place > 1 /\ place <= n
       PROVE  Substring(s, k, back) \o Substring(s, k, len) = SubSeq(s, Max({from, 1}), Min({to, n}))
  <2>1. 1 <= lo /\ lo <= next /\ next = mid + 1 /\ mid <= hi /\ hi <= Len(s)
    BY <1>0, <1>1, <1>8, <1>a
  <2> HIDE DEF lo, hi, mid, next
  <2>2. SubSeq(s, lo, mid) \o SubSeq(s, next, hi) = SubSeq(s, lo, hi)
    BY <1>5, <2>1, Adjacent
  <2> QED
    BY <1>2, <1>3, <1>4, <1>a, <2>1, <2>2
<1>9. Substring(s, k, back) \o Substring(s, k, len) = SubSeq(s, Max({from, 1}), Min({to, n}))
  <2>1. place <= 1 \/ place > n \/ (place > 1 /\ place <= n)
    BY <1>1
  <2> QED
    BY <1>6, <1>7, <1>8, <2>1, Zenon
<1> QED
  BY <1>9 DEF n, place, from, to, back

\* left and right cut a string in two, and substring agrees with both and with itself,
\* for every place and length and not only those a run tries.
THEOREM SlicesFitTogether == Spec => []SlicesTile
<1>1. Types => SlicesTile
  <2> SUFFICES ASSUME Types, topic = "places", NEW k \in -(Len(text) + 2)..Len(text) + 2
               PROVE
                /\ k # 0 => Left(text, k) \o Right(text, -k) = text
                /\ k >= 0 => /\ Substring(text, 1, k) = Left(text, k)
                             /\ Substring(text, -k, k) = Right(text, k)
                /\ k # 0 => \A len \in 0..Len(text) + 2 :
                    LET place == FromFront(k, Len(text))
                    IN Substring(text, k, -len) \o Substring(text, k, len) =
                        SubSeq(text, Max({place - len, 1}), Min({place + len - 1, Len(text)}))
    BY DEF SlicesTile
  <2>1. text \in Seq(Topics[topic].chars) /\ Len(text) \in Nat /\ k \in Int
    BY LenProperties DEF Types
  <2>2. k # 0 => Left(text, k) \o Right(text, -k) = text
    BY <2>1, LeftRight
  <2>3. k >= 0 => Substring(text, 1, k) = Left(text, k) /\ Substring(text, -k, k) = Right(text, k)
    BY <2>1, SubstringsOfEnds
  <2>4. ASSUME NEW len \in 0..Len(text) + 2
        PROVE  LET place == FromFront(k, Len(text))
               IN Substring(text, k, -len) \o Substring(text, k, len) =
                    SubSeq(text, Max({place - len, 1}), Min({place + len - 1, Len(text)}))
    <3>1. len \in Int /\ len >= 0
      BY <2>1
    <3> QED
      BY <2>1, <3>1, SubstringsMeet
  <2> QED
    BY <2>2, <2>3, <2>4
<1> QED
  BY <1>1, TypesHold, PTL

-----------------------------------------------------------------------------
\* What trimming keeps.
Keep(s, set) == {i \in DOMAIN s : s[i] \notin set}

\* Trimming one side keeps from the first, or up to the last, of the places to keep.
LEMMA EndsOf ==
    ASSUME NEW n \in Nat, NEW S \in SUBSET (1..n), S # {}
    PROVE  \E a, b \in S : /\ Min(S) = a /\ Max(S) = b
                           /\ \A x \in S : a <= x /\ x <= b
<1>1. S \in SUBSET Nat /\ S \in SUBSET Int
  OBVIOUS
<1>2. PICK a \in S : \A x \in S : a <= x
  BY <1>1, LeastElement
<1> DEFINE M == {n - x : x \in S}
<1>3. M \in SUBSET Nat /\ M # {}
  OBVIOUS
<1>4. PICK m \in M : \A y \in M : m <= y
  BY <1>3, LeastElement
<1>5. PICK b \in S : m = n - b
  BY <1>4
<1>6. \A x \in S : x <= b
  <2> SUFFICES ASSUME NEW x \in S PROVE x <= b
    OBVIOUS
  <2>1. n - x \in M
    OBVIOUS
  <2>2. n - b <= n - x
    BY <1>4, <1>5, <2>1
  <2> QED
    BY <2>2
<1>7. Min(S) = a /\ Max(S) = b
  BY <1>1, <1>2, <1>6, LeastOf
<1> QED
  BY <1>2, <1>6, <1>7

\* A part of a part is a part.
LEMMA PartOfPart ==
    ASSUME NEW C, NEW s \in Seq(C), NEW i \in Int, NEW j \in Int, NEW m \in Int, NEW n \in Int,
           1 <= i, i <= j, j <= Len(s), 1 <= m, m <= n, n <= j - i + 1
    PROVE  SubSeq(SubSeq(s, i, j), m, n) = SubSeq(s, i + m - 1, i + n - 1)
<1>1. Len(s) \in Nat
  BY LenProperties
<1>2. i \in 1..Len(s) /\ j \in 1..Len(s) /\ m \in 1..j - i + 1 /\ n \in 1..j - i + 1
  BY <1>1
<1> QED
  BY <1>2, SubSeqOfSubSeq

\* The two ways to trim both sides are one.
LEMMA TrimIs ==
    ASSUME NEW C, NEW s \in Seq(C), NEW set
    PROVE  /\ Trim(s, set) = LTrim(RTrim(s, set), set)
           /\ Trim(s, set) = RTrim(LTrim(s, set), set)
<1> DEFINE n == Len(s)
<1>1. n \in Nat /\ n \in Int /\ DOMAIN s = 1..n
  BY LenProperties
<1>2. CASE Keep(s, set) = {}
  <2>1. Trim(s, set) = <<>> /\ LTrim(s, set) = <<>> /\ RTrim(s, set) = <<>>
    BY <1>2 DEF Keep, Trim, LTrim, RTrim
  <2>2. LTrim(<<>>, set) = <<>> /\ RTrim(<<>>, set) = <<>>
    BY DEF LTrim, RTrim
  <2> QED
    BY <2>1, <2>2
<1>3. CASE Keep(s, set) # {}
  <2>1. Keep(s, set) \in SUBSET (1..n)
    BY <1>1 DEF Keep
  <2>2. PICK a \in Keep(s, set), b \in Keep(s, set) :
            /\ Min(Keep(s, set)) = a /\ Max(Keep(s, set)) = b
            /\ \A x \in Keep(s, set) : a <= x /\ x <= b
    BY <1>1, <1>3, <2>1, EndsOf
  <2>3. a \in Int /\ b \in Int /\ 1 <= a /\ a <= b /\ b <= n
    BY <1>1, <2>1, <2>2
  <2>4. /\ Trim(s, set) = SubSeq(s, a, b) /\ LTrim(s, set) = SubSeq(s, a, n)
        /\ RTrim(s, set) = SubSeq(s, 1, b)
    BY <1>3, <2>2 DEF Keep, Trim, LTrim, RTrim
  <2>5. LTrim(SubSeq(s, 1, b), set) = SubSeq(s, a, b)
    <3> DEFINE t == SubSeq(s, 1, b)
    <3>1. t \in Seq(C) /\ Len(t) = b /\ \A i \in 1..b : t[i] = s[i]
      BY <1>1, <2>3, Part
    <3>2. DOMAIN t = 1..b
      BY <3>1, LenProperties
    <3>3. Keep(t, set) = Keep(s, set)
      <4> HIDE DEF t
      <4>1. \A i : i \in Keep(t, set) => i \in Keep(s, set)
        BY <1>1, <2>3, <3>1, <3>2 DEF Keep
      <4>2. \A i : i \in Keep(s, set) => i \in Keep(t, set)
        BY <1>1, <2>2, <2>3, <3>1, <3>2 DEF Keep
      <4> QED
        BY <4>1, <4>2
    <3>4. SubSeq(t, a, b) = SubSeq(s, a, b)
      BY <1>1, <2>3, PartOfPart
    <3> HIDE DEF t
    <3>5. LTrim(t, set) = SubSeq(t, a, b)
      BY <1>3, <2>2, <3>1, <3>3 DEF LTrim, Keep
    <3> QED
      BY <3>4, <3>5 DEF t
  <2>6. RTrim(SubSeq(s, a, n), set) = SubSeq(s, a, b)
    <3> DEFINE t == SubSeq(s, a, n)
               size == n - a + 1
               c == b - a + 1
    <3>1. t \in Seq(C) /\ Len(t) = size /\ \A i \in 1..size : t[i] = s[a + i - 1]
      BY <1>1, <2>3, Part
    <3>2. DOMAIN t = 1..size
      BY <3>1, LenProperties
    <3>3. \A i : i \in Keep(t, set) <=> i \in 1..size /\ a + i - 1 \in Keep(s, set)
      <4>1. \A i \in 1..size : t[i] = s[a + i - 1] /\ a + i - 1 \in 1..n
        BY <1>1, <2>3, <3>1
      <4> HIDE DEF t
      <4>2. \A i : i \in Keep(t, set) <=> i \in 1..size /\ s[a + i - 1] \notin set
        BY <3>2, <4>1 DEF Keep
      <4>3. \A i \in 1..size : a + i - 1 \in Keep(s, set) <=> s[a + i - 1] \notin set
        BY <1>1, <4>1 DEF Keep
      <4> HIDE DEF size
      <4> QED
        BY <4>2, <4>3
    <3>4. SubSeq(t, 1, c) = SubSeq(s, a, b)
      <4>1. SubSeq(t, 1, c) = SubSeq(s, a + 1 - 1, a + c - 1)
        <5>1. c \in Int /\ 1 <= c /\ c <= n - a + 1
          BY <1>1, <2>3
        <5> HIDE DEF c
        <5> QED
          BY <1>1, <2>3, <5>1, PartOfPart
      <4>2. a + 1 - 1 = a /\ a + c - 1 = b
        BY <2>3
      <4> QED
        BY <4>1, <4>2
    <3>5. c \in Keep(t, set) /\ \A i \in Keep(t, set) : i <= c
      <4>1. c \in 1..size /\ a + c - 1 = b
        BY <1>1, <2>3
      <4>2. ASSUME NEW i \in Keep(t, set) PROVE i <= c
        <5>1. i \in Int /\ a + i - 1 <= b
          BY <2>2, <3>3
        <5> QED
          BY <2>3, <5>1
      <4> QED
        BY <2>2, <3>3, <4>1, <4>2
    <3>6. Keep(t, set) \in SUBSET Int
      BY <3>3
    <3>7. Max(Keep(t, set)) = c
      <4> HIDE DEF c, t, size
      <4> QED
        BY <3>5, <3>6, LeastOf
    <3>8. RTrim(t, set) = SubSeq(t, 1, c)
      <4> HIDE DEF c, t, size
      <4> QED
        BY <3>5, <3>7 DEF RTrim, Keep
    <3> QED
      BY <3>4, <3>8
  <2> QED
    BY <2>4, <2>5, <2>6
<1> QED
  BY <1>2, <1>3

\* What is added in front of a sequence and is to be trimmed is trimmed in front of it.
LEMMA PaddedFront ==
    ASSUME NEW C, NEW s \in Seq(C), NEW p \in Seq(C), NEW set,
           \A i \in DOMAIN p : p[i] \in set
    PROVE  LTrim(p \o s, set) = LTrim(s, set)
<1> DEFINE t == p \o s
           m == Len(p)
           n == Len(s)
<1>1. /\ m \in Nat /\ n \in Nat /\ DOMAIN s = 1..n /\ DOMAIN p = 1..m
  BY LenProperties
<1>2. /\ t \in Seq(C) /\ Len(t) = m + n
      /\ \A i \in 1..m + n : t[i] = IF i <= m THEN p[i] ELSE s[i - m]
  BY ConcatProperties
<1>3. DOMAIN t = 1..m + n
  BY <1>2, LenProperties
<1>4. \A i : i \in Keep(t, set) <=> i \in 1..m + n /\ i > m /\ s[i - m] \notin set
  <2> HIDE DEF t
  <2>1. \A i \in 1..m + n : i <= m => i \in 1..m
    BY <1>1
  <2>2. \A i \in 1..m + n : i <= m => t[i] \in set
    BY <1>1, <1>2, <2>1
  <2>3. \A i \in 1..m + n : i > m => t[i] = s[i - m]
    BY <1>1, <1>2
  <2>4. \A i : i \in Keep(t, set) <=> i \in 1..m + n /\ t[i] \notin set
    BY <1>3 DEF Keep
  <2>5. \A i \in 1..m + n : i <= m \/ i > m
    BY <1>1
  <2> HIDE DEF m, n
  <2> QED
    BY <2>2, <2>3, <2>4, <2>5
<1>5. \A j : j \in Keep(s, set) <=> j \in 1..n /\ m + j \in Keep(t, set)
  <2>1. \A j \in 1..n : m + j \in 1..m + n /\ m + j > m /\ m + j - m = j
    BY <1>1
  <2> HIDE DEF t
  <2>2. \A j \in 1..n : m + j \in Keep(t, set) <=> s[j] \notin set
    BY <1>4, <2>1
  <2> QED
    BY <1>1, <2>2 DEF Keep
<1>6. \A i \in Keep(t, set) : i - m \in 1..n /\ i - m \in Keep(s, set) /\ i \in Int
  <2> HIDE DEF t
  <2>1. \A i \in Keep(t, set) : i - m \in 1..n
    BY <1>1, <1>4
  <2> QED
    BY <1>1, <1>4, <2>1 DEF Keep
<1>7. CASE Keep(s, set) = {}
  <2>1. Keep(t, set) = {}
    BY <1>6, <1>7
  <2> QED
    BY <1>7, <2>1 DEF LTrim, Keep
<1>8. CASE Keep(s, set) # {}
  <2>1. Keep(s, set) \in SUBSET (1..n)
    BY <1>1 DEF Keep
  <2>2. PICK a \in Keep(s, set), b \in Keep(s, set) :
            /\ Min(Keep(s, set)) = a /\ Max(Keep(s, set)) = b
            /\ \A x \in Keep(s, set) : a <= x /\ x <= b
    BY <1>1, <1>8, <2>1, EndsOf
  <2>3. a \in Int /\ 1 <= a /\ a <= n
    BY <1>1, <2>1
  <2> DEFINE f == m + a
             to == m + n
  <2>4. f \in Int /\ to \in Int /\ f - m = a /\ to - m = n /\ f \in m + 1..m + n /\ to \in m + 1..m + n
    BY <1>1, <2>3
  <2>5. f \in Keep(t, set) /\ \A x \in Keep(t, set) : f <= x
    <3> HIDE DEF t
    <3>1. \A x \in Keep(t, set) : a <= x - m /\ x \in Int
      BY <1>6, <2>2
    <3> QED
      BY <1>1, <1>5, <2>3, <3>1
  <2>6. Keep(t, set) \in SUBSET Int
    BY <1>6
  <2> HIDE DEF t, f, to
  <2>7. Min(Keep(t, set)) = f
    BY <2>5, <2>6, LeastOf
  <2>8. LTrim(t, set) = SubSeq(t, f, to)
    BY <1>2, <2>5, <2>7 DEF LTrim, Keep, to
  <2>9. SubSeq(t, f, to) = SubSeq(s, a, n)
    <3>1. SubSeq(t, f, to) = SubSeq(s, f - m, to - m)
      BY <2>4, SubSeqOfConcat2 DEF t
    <3> QED
      BY <2>4, <3>1
  <2>10. LTrim(s, set) = SubSeq(s, a, n)
    BY <1>8, <2>2 DEF LTrim, Keep
  <2> QED
    BY <2>8, <2>9, <2>10 DEF t
<1> QED
  BY <1>7, <1>8

\* And behind it.
LEMMA PaddedBack ==
    ASSUME NEW C, NEW s \in Seq(C), NEW p \in Seq(C), NEW set,
           \A i \in DOMAIN p : p[i] \in set
    PROVE  RTrim(s \o p, set) = RTrim(s, set)
<1> DEFINE t == s \o p
           m == Len(p)
           n == Len(s)
<1>1. /\ m \in Nat /\ n \in Nat /\ DOMAIN s = 1..n /\ DOMAIN p = 1..m
  BY LenProperties
<1>2. /\ t \in Seq(C) /\ Len(t) = n + m
      /\ \A i \in 1..n + m : t[i] = IF i <= n THEN s[i] ELSE p[i - n]
  BY ConcatProperties
<1>3. DOMAIN t = 1..n + m
  BY <1>2, LenProperties
<1>4. Keep(t, set) = Keep(s, set)
  <2> HIDE DEF t
  <2>1. \A i \in 1..n + m : (i <= n /\ i \in 1..n) \/ (i > n /\ i - n \in 1..m)
    BY <1>1
  <2>5. \A i \in 1..n + m : i > n => t[i] \in set
    <3>1. \A i \in 1..n + m : i > n => t[i] = p[i - n]
      BY <1>1, <1>2
    <3> QED
      BY <1>1, <2>1, <3>1
  <2>2. \A i : i \in Keep(t, set) => i \in Keep(s, set)
    BY <1>1, <1>2, <1>3, <2>1, <2>5 DEF Keep
  <2>3. \A i \in 1..n : i \in 1..n + m /\ i <= n
    BY <1>1
  <2>4. \A i : i \in Keep(s, set) => i \in Keep(t, set)
    BY <1>1, <1>2, <1>3, <2>3 DEF Keep
  <2> QED
    BY <2>2, <2>4
<1>7. CASE Keep(s, set) = {}
  BY <1>4, <1>7 DEF RTrim, Keep
<1>8. CASE Keep(s, set) # {}
  <2>1. Keep(s, set) \in SUBSET (1..n)
    BY <1>1 DEF Keep
  <2>2. PICK a \in Keep(s, set), b \in Keep(s, set) :
            /\ Min(Keep(s, set)) = a /\ Max(Keep(s, set)) = b
            /\ \A x \in Keep(s, set) : a <= x /\ x <= b
    BY <1>1, <1>8, <2>1, EndsOf
  <2>3. b \in 1..n /\ 1 \in 1..n
    BY <1>1, <2>1
  <2>4. SubSeq(t, 1, b) = SubSeq(s, 1, b)
    BY <2>3, SubSeqOfConcat1
  <2> HIDE DEF t
  <2>5. RTrim(t, set) = SubSeq(t, 1, b)
    BY <1>4, <1>8, <2>2 DEF RTrim, Keep
  <2>6. RTrim(s, set) = SubSeq(s, 1, b)
    BY <1>8, <2>2 DEF RTrim, Keep
  <2> QED
    BY <2>4, <2>5, <2>6 DEF t
<1> QED
  BY <1>7, <1>8

\* A padding is as long as it is to be, and of the characters of the pad.
LEMMA PaddingIs ==
    ASSUME NEW C, NEW fill \in Seq(C), fill # <<>>, NEW missing \in Nat
    PROVE  /\ Padding(missing, fill) \in Seq(C) /\ Len(Padding(missing, fill)) = missing
           /\ \A i \in DOMAIN Padding(missing, fill) : Padding(missing, fill)[i] \in ToSet(fill)
<1>1. Len(fill) \in Nat /\ Len(fill) >= 1 /\ \A i \in 1..Len(fill) : fill[i] \in C
  BY LenProperties, EmptySeq, ElementOfSeq
<1>2. \A i \in 1..missing : ((i - 1) % Len(fill)) + 1 \in 1..Len(fill)
  BY <1>1
<1>3. \A i \in 1..missing : fill[((i - 1) % Len(fill)) + 1] \in C
  BY <1>1, <1>2
<1>4. Padding(missing, fill) \in Seq(C) /\ Len(Padding(missing, fill)) = missing
  BY <1>3, IsASeq DEF Padding
<1>5. DOMAIN fill = 1..Len(fill)
  BY LenProperties
<1>6. \A i \in 1..missing : fill[((i - 1) % Len(fill)) + 1] \in ToSet(fill)
  BY <1>2, <1>5 DEF ToSet
<1> QED
  BY <1>4, <1>6 DEF Padding

\* A pad is a padding and the text, or what of the text has room.
LEMMA PadsAre ==
    ASSUME NEW C, NEW s \in Seq(C), NEW fill \in Seq(C), fill # <<>>, NEW width \in Int
    PROVE  LET left == LPad(s, width, fill)
               right == RPad(s, width, fill)
               set == ToSet(fill)
           IN  /\ Len(left) = Max({width, 0}) /\ Len(right) = Len(left)
               /\ width >= Len(s) => /\ LTrim(left, set) = LTrim(s, set)
                                     /\ RTrim(right, set) = RTrim(s, set)
<1> DEFINE n == Len(s)
           missing == width - n
           p == Padding(missing, fill)
<1>1. n \in Nat /\ n \in Int /\ 0 \in Int /\ 1 \in Int
  BY LenProperties
<1>2. Max({width, 0}) = IF width >= 0 THEN width ELSE 0
  BY <1>1, LargerOf
<1>3. CASE width <= n
  <2>1. LPad(s, width, fill) = SubSeq(s, 1, width) /\ RPad(s, width, fill) = SubSeq(s, 1, width)
    BY <1>3 DEF LPad, RPad
  <2>2. Len(SubSeq(s, 1, width)) = IF 1 <= width THEN width ELSE 0
    <3>1. Len(SubSeq(s, 1, width)) = IF 1 <= width THEN width - 1 + 1 ELSE 0
      BY <1>1, <1>3, Part
    <3> QED
      BY <3>1
  <2>3. width >= n => SubSeq(s, 1, width) = s
    BY <1>1, <1>3, SubSeqFull
  <2> HIDE DEF n
  <2>4. Len(SubSeq(s, 1, width)) = Max({width, 0})
    BY <1>2, <2>2
  <2> QED
    BY <2>1, <2>3, <2>4 DEF n
<1>4. CASE width > n
  <2>1. missing \in Nat /\ n + missing = width /\ missing + n = width
    BY <1>1, <1>4
  <2>2. LPad(s, width, fill) = p \o s /\ RPad(s, width, fill) = s \o p
    BY <1>1, <1>4 DEF LPad, RPad
  <2> HIDE DEF missing
  <2>3. p \in Seq(C) /\ Len(p) = missing /\ \A i \in DOMAIN p : p[i] \in ToSet(fill)
    BY <2>1, PaddingIs
  <2> HIDE DEF p
  <2>4. Len(p \o s) = width /\ Len(s \o p) = width
    <3>1. Len(p \o s) = Len(p) + Len(s) /\ Len(s \o p) = Len(s) + Len(p)
      BY <2>3, ConcatProperties
    <3> QED
      BY <2>1, <2>3, <3>1
  <2>5. LTrim(p \o s, ToSet(fill)) = LTrim(s, ToSet(fill))
    BY <2>3, PaddedFront
  <2>6. RTrim(s \o p, ToSet(fill)) = RTrim(s, ToSet(fill))
    BY <2>3, PaddedBack
  <2>7. Max({width, 0}) = width
    BY <1>1, <1>2, <1>4
  <2> QED
    BY <2>2, <2>4, <2>5, <2>6, <2>7
<1> QED
  BY <1>1, <1>3, <1>4

\* A pad has the width asked for, a trim of its characters takes it away again and
\* nothing else, and both sides are trimmed in either order.
THEOREM PadsComeOff == Spec => []PadsAreTrimmed
<1>1. Types => PadsAreTrimmed
  <2> SUFFICES ASSUME Types, topic = "places"
               PROVE
                /\ Trim(text, ToSet(other)) = LTrim(RTrim(text, ToSet(other)), ToSet(other))
                /\ Trim(text, ToSet(other)) = RTrim(LTrim(text, ToSet(other)), ToSet(other))
                /\ other # <<>> => \A width \in -1..Len(text) + 2 * Len(other) + 1 :
                    LET left == LPad(text, width, other)
                        right == RPad(text, width, other)
                    IN /\ Len(left) = Max({width, 0}) /\ Len(right) = Len(left)
                       /\ width >= Len(text) => /\ LTrim(left, ToSet(other)) = LTrim(text, ToSet(other))
                                                /\ RTrim(right, ToSet(other)) = RTrim(text, ToSet(other))
    BY DEF PadsAreTrimmed
  <2> DEFINE C == Topics[topic].chars \cup Topics[topic].otherChars
  <2>1. text \in Seq(C) /\ other \in Seq(C) /\ Len(text) \in Nat /\ Len(other) \in Nat
    <3>1. text \in Seq(Topics[topic].chars) /\ other \in Seq(Topics[topic].otherChars)
      BY DEF Types
    <3> QED
      BY <3>1, LenProperties, SeqMonotonic
  <2> HIDE DEF C
  <2>2. /\ Trim(text, ToSet(other)) = LTrim(RTrim(text, ToSet(other)), ToSet(other))
        /\ Trim(text, ToSet(other)) = RTrim(LTrim(text, ToSet(other)), ToSet(other))
    BY <2>1, TrimIs
  <2>3. ASSUME other # <<>>, NEW width \in -1..Len(text) + 2 * Len(other) + 1
        PROVE  LET left == LPad(text, width, other)
                   right == RPad(text, width, other)
               IN  /\ Len(left) = Max({width, 0}) /\ Len(right) = Len(left)
                   /\ width >= Len(text) => /\ LTrim(left, ToSet(other)) = LTrim(text, ToSet(other))
                                            /\ RTrim(right, ToSet(other)) = RTrim(text, ToSet(other))
    <3>1. width \in Int
      BY <2>1
    <3> QED
      BY <2>1, <2>3, <3>1, PadsAre
  <2> QED
    BY <2>2, <2>3
<1> QED
  BY <1>1, TypesHold, PTL

-----------------------------------------------------------------------------
\* LIKE.

\* like and matched are solutions of the two recursions.
Answered(like, s, p, escape) ==
    \A si \in 1..Len(s) + 1 : \A pi \in 1..Len(p) + 1 :
        like[<<si, pi>>] = LikeAt(like, s, p, escape, si, pi)

\* (matched holds the places of the subject for each place of the pattern.)
Reached(matched, s, p, escape, nocase) ==
    \A i \in 1..Len(p) + 1 : matched[i] = MatchedAt(matched, s, p, escape, nocase, i)

\* A round depends on what the pattern's rest does only.
LEMMA LikeLooksAhead ==
    ASSUME NEW s, NEW p, NEW escape, NEW f, NEW g, Len(s) \in Nat, Len(p) \in Nat,
           NEW si \in 1..Len(s) + 1, NEW pi \in 1..Len(p) + 1,
           \A k \in 1..Len(s) + 1 : \A j \in 1..Len(p) + 1 : j > pi => f[<<k, j>>] = g[<<k, j>>]
    PROVE  LikeAt(f, s, p, escape, si, pi) = LikeAt(g, s, p, escape, si, pi)
<1>1. CASE pi > Len(p)
  BY <1>1 DEF LikeAt
<1>2. CASE pi <= Len(p) /\ p[pi] = escape
  <2>1. si <= Len(s) /\ pi # Len(p) => f[<<si + 1, pi + 2>>] = g[<<si + 1, pi + 2>>]
    BY <1>2
  <2> QED
    BY <1>2, <2>1 DEF LikeAt
<1>3. si <= Len(s) /\ pi <= Len(p) => f[<<si + 1, pi + 1>>] = g[<<si + 1, pi + 1>>]
  OBVIOUS
<1>4. CASE pi <= Len(p) /\ p[pi] # escape /\ p[pi] = Percent
  <2> DEFINE rest == {i \in pi..Len(p) : p[i] # Percent}
             Ends(h) == {k \in si..Len(s) + 1 : h[<<k, Min(rest)>>] # "no"}
  <2>1. ASSUME rest # {}
        PROVE  Ends(f) = Ends(g) /\ (Ends(f) # {} => f[<<Min(Ends(f)), Min(rest)>>] = g[<<Min(Ends(f)), Min(rest)>>])
    <3>1. rest \in SUBSET (1..Len(p)) /\ pi \notin rest
      BY <1>4
    <3>2. PICK r \in rest : Min(rest) = r
      BY <2>1, <3>1, EndsOf
    <3>3. r \in 1..Len(p) + 1 /\ r > pi
      BY <3>1
    <3>4. \A k \in 1..Len(s) + 1 : f[<<k, r>>] = g[<<k, r>>]
      BY <3>3
    <3>5. si..Len(s) + 1 \subseteq 1..Len(s) + 1
      OBVIOUS
    <3> HIDE DEF rest
    <3>6. Ends(f) = Ends(g)
      BY <3>2, <3>4, <3>5
    <3>7. Ends(f) \in SUBSET (1..Len(s) + 1) /\ Len(s) + 1 \in Nat
      BY <3>5
    <3> HIDE DEF Ends
    <3>8. Ends(f) # {} => Min(Ends(f)) \in 1..Len(s) + 1
      BY <3>7, EndsOf
    <3> QED
      BY <3>2, <3>4, <3>6, <3>8
  <2>2. /\ LikeAt(f, s, p, escape, si, pi) = AnyNumber(f, s, p, si, pi)
        /\ LikeAt(g, s, p, escape, si, pi) = AnyNumber(g, s, p, si, pi)
    BY <1>4 DEF LikeAt, Percent, Underscore
  <2>3. /\ AnyNumber(f, s, p, si, pi) =
                IF rest = {} THEN "yes" ELSE IF Ends(f) = {} THEN "no" ELSE f[<<Min(Ends(f)), Min(rest)>>]
        /\ AnyNumber(g, s, p, si, pi) =
                IF rest = {} THEN "yes" ELSE IF Ends(g) = {} THEN "no" ELSE g[<<Min(Ends(g)), Min(rest)>>]
    BY DEF AnyNumber
  <2> HIDE DEF rest, Ends
  <2> QED
    BY <2>1, <2>2, <2>3
<1>5. CASE pi <= Len(p) /\ p[pi] # escape /\ p[pi] = Underscore
  BY <1>3, <1>5 DEF LikeAt, Percent, Underscore
<1>6. CASE pi <= Len(p) /\ p[pi] # escape /\ p[pi] # Percent /\ p[pi] # Underscore
  BY <1>3, <1>6 DEF LikeAt
<1> QED
  BY <1>1, <1>2, <1>4, <1>5, <1>6

\* So the recursion has a solution.
LEMMA LikeExists ==
    ASSUME NEW s, NEW p, NEW escape, Len(s) \in Nat, Len(p) \in Nat
    PROVE  \E like : like = [at \in Places(s, p) |-> LikeAt(like, s, p, escape, at[1], at[2])]
<1> DEFINE M == Len(s) + 1
           N == Len(p) + 1
           Step(f, si, pi) == LikeAt(f, s, p, escape, si, pi)
           SolvesFrom(f, j) ==
                /\ f = [at \in Places(s, p) |-> f[at]]
                /\ \A si \in 1..M : \A pi \in 1..N : pi > j => f[<<si, pi>>] = Step(f, si, pi)
           K == {k \in Nat : k <= N => \E f : SolvesFrom(f, N - k)}
<1>1. M \in Nat /\ N \in Nat /\ Places(s, p) = (1..M) \X (1..N)
  BY DEF Places
<1>2. \A f, g, si, pi : (/\ si \in 1..M /\ pi \in 1..N
                         /\ \A k \in 1..M : \A j \in 1..N : j > pi => f[<<k, j>>] = g[<<k, j>>]) =>
                            Step(f, si, pi) = Step(g, si, pi)
  BY LikeLooksAhead
<1> HIDE DEF M, N, Step
<1>3. 0 \in K
  <2> DEFINE f == [at \in Places(s, p) |-> "no"]
  <2>1. f = [at \in Places(s, p) |-> f[at]]
    OBVIOUS
  <2>2. \A pi \in 1..N : ~(pi > N - 0)
    BY <1>1
  <2>3. SolvesFrom(f, N - 0)
    BY <2>1, <2>2
  <2> QED
    BY <2>3
<1>4. ASSUME NEW k \in Nat, k \in K PROVE k + 1 \in K
  <2> SUFFICES ASSUME k + 1 <= N PROVE \E g : SolvesFrom(g, N - (k + 1))
    OBVIOUS
  <2> DEFINE j == N - k
  <2>1. PICK f : SolvesFrom(f, j)
    <3>1. k <= N
      BY <1>1
    <3> HIDE DEF SolvesFrom
    <3> QED
      BY <1>4, <3>1
  <2>2. j \in 1..N /\ N - (k + 1) = j - 1 /\ j \in Int
    BY <1>1
  <2> DEFINE g == [at \in Places(s, p) |-> IF at[2] = j THEN Step(f, at[1], at[2]) ELSE f[at]]
  <2> HIDE DEF j
  <2>3. \A si \in 1..M : \A pi \in 1..N :
            g[<<si, pi>>] = IF pi = j THEN Step(f, si, pi) ELSE f[<<si, pi>>]
    BY <1>1
  <2>4. g = [at \in Places(s, p) |-> g[at]]
    OBVIOUS
  <2> HIDE DEF g
  <2>5. ASSUME NEW si \in 1..M, NEW pi \in 1..N, pi > j - 1
        PROVE  g[<<si, pi>>] = Step(g, si, pi)
    <3>1. \A a \in 1..M : \A b \in 1..N : b > pi => f[<<a, b>>] = g[<<a, b>>]
      BY <1>1, <2>2, <2>3, <2>5
    <3>2. Step(f, si, pi) = Step(g, si, pi)
      BY <1>2, <3>1
    <3>3. pi = j \/ pi > j
      BY <1>1, <2>2, <2>5
    <3>4. pi # j => f[<<si, pi>>] = Step(f, si, pi)
      BY <2>1, <3>3
    <3> QED
      BY <2>3, <3>2, <3>4
  <2> QED
    BY <2>2, <2>4, <2>5
<1>5. N \in K
  <2> HIDE DEF K
  <2> QED
    BY <1>1, <1>3, <1>4, InductionOverSet
<1>6. PICK f : SolvesFrom(f, N - N)
  <2> HIDE DEF SolvesFrom
  <2>1. N <= N
    BY <1>1
  <2> QED
    BY <1>5, <2>1
<1>7. \A si \in 1..M : \A pi \in 1..N : f[<<si, pi>>] = Step(f, si, pi)
  <2>1. \A pi \in 1..N : pi > N - N
    BY <1>1
  <2> QED
    BY <1>6, <2>1
<1>8. \A at \in Places(s, p) : f[at] = Step(f, at[1], at[2])
  BY <1>1, <1>7
<1>9. f = [at \in Places(s, p) |-> Step(f, at[1], at[2])]
  BY <1>6, <1>8
<1> QED
  BY <1>9 DEF Step

\* And what the oracle says is the solution's answer at the beginning.
LEMMA LikeIs ==
    ASSUME NEW s, NEW p, NEW escape, Len(s) \in Nat, Len(p) \in Nat
    PROVE  \E like : LikeFrom(s, p, escape) = like[<<1, 1>>] /\ Answered(like, s, p, escape)
<1> DEFINE Solves(f) == f = [at \in Places(s, p) |-> LikeAt(f, s, p, escape, at[1], at[2])]
           like == CHOOSE f : Solves(f)
<1>1. LikeFrom(s, p, escape) = like[<<1, 1>>]
  BY DEF LikeFrom
<1>2. Solves(like)
  BY LikeExists
<1> HIDE DEF like
<1>3. \A si \in 1..Len(s) + 1 : \A pi \in 1..Len(p) + 1 : <<si, pi>> \in Places(s, p)
  BY DEF Places
<1>4. Answered(like, s, p, escape)
  BY <1>2, <1>3 DEF Answered
<1> QED
  BY <1>1, <1>4

\* The same for what matches element by element.
LEMMA MatchingLooksAhead ==
    ASSUME NEW s, NEW p, NEW escape, NEW nocase, NEW f, NEW g, Len(s) \in Nat, Len(p) \in Nat,
           NEW i \in 1..Len(p) + 1, \A j \in 1..Len(p) + 1 : j > i => f[j] = g[j]
    PROVE  MatchedAt(f, s, p, escape, nocase, i) = MatchedAt(g, s, p, escape, nocase, i)
<1>1. CASE i > Len(p)
  BY <1>1 DEF MatchedAt
<1>2. CASE i <= Len(p) /\ p[i] = escape
  <2>1. i # Len(p) => f[i + 2] = g[i + 2]
    BY <1>2
  <2> QED
    BY <1>2, <2>1 DEF MatchedAt
<1>3. i <= Len(p) => f[i + 1] = g[i + 1]
  OBVIOUS
<1>4. CASE i <= Len(p) /\ p[i] # escape
  BY <1>3, <1>4 DEF MatchedAt, Percent, Underscore
<1> QED
  BY <1>1, <1>2, <1>4

\* Matching has a solution as well, and says what that holds of the beginning.
LEMMA MatchesIs ==
    ASSUME NEW s, NEW p, NEW escape, NEW nocase, Len(s) \in Nat, Len(p) \in Nat
    PROVE  \E matched : /\ Matches(s, p, escape, nocase) <=> 1 \in matched[1]
                        /\ Reached(matched, s, p, escape, nocase)
<1> DEFINE N == Len(p) + 1
           Step(f, i) == MatchedAt(f, s, p, escape, nocase, i)
           Solves(f) == f = [i \in 1..N |-> Step(f, i)]
           SolvesFrom(f, j) ==
                f = [i \in 1..N |-> f[i]] /\ \A i \in 1..N : i > j => f[i] = Step(f, i)
           K == {k \in Nat : k <= N => \E f : SolvesFrom(f, N - k)}
           matched == CHOOSE f : Solves(f)
<1>1. N \in Nat
  OBVIOUS
<1>2. \A f, g, i : (i \in 1..N /\ \A j \in 1..N : j > i => f[j] = g[j]) => Step(f, i) = Step(g, i)
  BY MatchingLooksAhead
<1>3. Matches(s, p, escape, nocase) <=> 1 \in matched[1]
  BY DEF Matches
<1> HIDE DEF N, Step
<1>4. 0 \in K
  <2> DEFINE f == [i \in 1..N |-> {}]
  <2>1. f = [i \in 1..N |-> f[i]]
    OBVIOUS
  <2>2. \A i \in 1..N : ~(i > N - 0)
    BY <1>1
  <2>3. SolvesFrom(f, N - 0)
    BY <2>1, <2>2
  <2> QED
    BY <2>3
<1>5. ASSUME NEW k \in Nat, k \in K PROVE k + 1 \in K
  <2> SUFFICES ASSUME k + 1 <= N PROVE \E g : SolvesFrom(g, N - (k + 1))
    OBVIOUS
  <2> DEFINE j == N - k
  <2>1. PICK f : SolvesFrom(f, j)
    <3>1. k <= N
      BY <1>1
    <3> HIDE DEF SolvesFrom
    <3> QED
      BY <1>5, <3>1
  <2>2. j \in 1..N /\ N - (k + 1) = j - 1 /\ j \in Int
    BY <1>1
  <2> DEFINE g == [i \in 1..N |-> IF i = j THEN Step(f, i) ELSE f[i]]
  <2> HIDE DEF j
  <2>3. g = [i \in 1..N |-> g[i]]
    OBVIOUS
  <2>4. \A i \in 1..N : g[i] = IF i = j THEN Step(f, i) ELSE f[i]
    OBVIOUS
  <2> HIDE DEF g
  <2>5. ASSUME NEW i \in 1..N, i > j - 1 PROVE g[i] = Step(g, i)
    <3>1. \A b \in 1..N : b > i => f[b] = g[b]
      BY <1>1, <2>2, <2>4, <2>5
    <3>2. Step(f, i) = Step(g, i)
      BY <1>2, <3>1
    <3>3. i = j \/ i > j
      BY <1>1, <2>2, <2>5
    <3>4. i # j => f[i] = Step(f, i)
      BY <2>1, <3>3
    <3> QED
      BY <2>4, <3>2, <3>4
  <2> QED
    BY <2>2, <2>3, <2>5
<1>6. N \in K
  <2> HIDE DEF K
  <2> QED
    BY <1>1, <1>4, <1>5, InductionOverSet
<1>7. PICK f : SolvesFrom(f, N - N)
  <2> HIDE DEF SolvesFrom
  <2>1. N <= N
    BY <1>1
  <2> QED
    BY <1>6, <2>1
<1>8. \A i \in 1..N : f[i] = Step(f, i)
  <2>1. \A i \in 1..N : i > N - N
    BY <1>1
  <2> QED
    BY <1>7, <2>1
<1>9. Solves(f)
  BY <1>7, <1>8
<1> HIDE DEF Solves
<1>10. Solves(matched)
  BY <1>9
<1> HIDE DEF matched
<1>11. \A i \in 1..N : matched[i] = Step(matched, i)
  BY <1>10 DEF Solves
<1> QED
  BY <1>3, <1>11 DEF N, Step, Reached

-----------------------------------------------------------------------------
\* What matches are places of the subject.
LEMMA MatchedPlaces ==
    ASSUME NEW s, NEW p, NEW escape, NEW nocase, NEW matched, Len(s) \in Nat, Len(p) \in Nat,
           NEW i \in 1..Len(p) + 1
    PROVE  MatchedAt(matched, s, p, escape, nocase, i) \subseteq 1..Len(s) + 1
<1>1. \A c, next : Literally(s, c, nocase, next) \subseteq 1..Len(s) + 1
  BY DEF Literally
<1>2. \A next : AnyOne(s, next) \subseteq 1..Len(s) + 1 /\ AnyRun(s, next) \subseteq 1..Len(s) + 1
  BY DEF AnyOne, AnyRun
<1>3. {Len(s) + 1} \subseteq 1..Len(s) + 1
  OBVIOUS
<1> QED
  BY <1>1, <1>2, <1>3 DEF MatchedAt, Percent, Underscore

\* Characters are equal in S and P that match in s and p, and P says the same as p.
Alike(s, p, S, P, escape, nocase) ==
    /\ \A i \in 1..Len(s) : \A j \in 1..Len(p) : S[i] = P[j] <=> SameCharacter(s[i], p[j], nocase)
    /\ \A j \in 1..Len(p) : /\ P[j] = escape <=> p[j] = escape
                            /\ P[j] = Percent <=> p[j] = Percent
                            /\ P[j] = Underscore <=> p[j] = Underscore

\* What a run of '%' makes of the places where the pattern behind it matches.
LEMMA PercentsReach ==
    ASSUME NEW s, NEW p, NEW escape, NEW nocase, NEW matched, Reached(matched, s, p, escape, nocase),
           Len(s) \in Nat, Len(p) \in Nat, Percent # escape,
           NEW b \in Int, NEW r \in Int, 1 <= b, b < r, r <= Len(p) + 1,
           \A i \in b..r - 1 : p[i] = Percent
    PROVE  matched[b] = AnyRun(s, matched[r])
<1> DEFINE Behind(j) == AnyRun(s, matched[j])
           K == {k \in Nat : b + 1 + k <= r => matched[b] = Behind(b + 1 + k)}
<1>1. /\ r \in 1..Len(p) + 1 /\ r \in Nat /\ b \in Nat
      /\ matched[r] \subseteq 1..Len(s) + 1
  <2>1. r \in 1..Len(p) + 1 /\ r \in Nat /\ b \in Nat
    OBVIOUS
  <2> QED
    BY <2>1, MatchedPlaces DEF Reached
<1>2. \A i \in b..r - 1 : matched[i] = Behind(i + 1)
  <2> SUFFICES ASSUME NEW i \in b..r - 1 PROVE matched[i] = AnyRun(s, matched[i + 1])
    OBVIOUS
  <2>1. i \in 1..Len(p) + 1 /\ i <= Len(p) /\ ~(i > Len(p)) /\ p[i] = Percent /\ p[i] # escape
    OBVIOUS
  <2> QED
    BY <2>1 DEF Reached, MatchedAt, Percent, Underscore
<1>3. 0 \in K
  <2>1. b \in b..r - 1 /\ b + 1 + 0 = b + 1
    OBVIOUS
  <2> HIDE DEF Behind
  <2> QED
    BY <1>2, <2>1
<1>4. ASSUME NEW k \in Nat, k \in K PROVE k + 1 \in K
  <2> SUFFICES ASSUME b + 1 + (k + 1) <= r PROVE matched[b] = Behind(b + 1 + (k + 1))
    OBVIOUS
  <2> DEFINE i == b + 1 + k
  <2>1. i \in b..r - 1 /\ i \in Int /\ i + 1 = b + 1 + (k + 1) /\ i <= r
    OBVIOUS
  <2>2. matched[i] = Behind(i + 1) /\ matched[b] = Behind(i)
    <3> HIDE DEF Behind
    <3>1. matched[b] = Behind(b + 1 + k)
      BY <1>4, <2>1
    <3> QED
      BY <1>2, <2>1, <3>1
  <2> HIDE DEF i
  <2>3. Behind(i) = Behind(i + 1)
    <3> DEFINE later == matched[i + 1]
    <3>1. matched[i] = {n \in 1..Len(s) + 1 : \E m \in later : n <= m}
      BY <2>2 DEF AnyRun
    <3>5. later \subseteq 1..Len(s) + 1
      <4>1. i + 1 = r \/ i + 1 \in b..r - 1
        BY <2>1
      <4> QED
        BY <1>1, <1>2, <4>1 DEF AnyRun
    <3>2. \A n \in 1..Len(s) + 1 : (\E m \in matched[i] : n <= m) => \E m \in later : n <= m
      <4> SUFFICES ASSUME NEW n \in 1..Len(s) + 1, NEW m \in matched[i], n <= m
                   PROVE  \E l \in later : n <= l
        OBVIOUS
      <4>1. m \in 1..Len(s) + 1
        BY <3>1
      <4>2. PICK l \in later : m <= l
        BY <3>1
      <4> QED
        BY <3>5, <4>1, <4>2
    <3>3. \A n \in 1..Len(s) + 1 : (\E m \in later : n <= m) => \E m \in matched[i] : n <= m
      <4> SUFFICES ASSUME NEW n \in 1..Len(s) + 1, NEW m \in later, n <= m
                   PROVE  \E l \in matched[i] : n <= l
        OBVIOUS
      <4>1. n \in matched[i] /\ n <= n
        BY <3>1
      <4> QED
        BY <4>1
    <3> HIDE DEF later
    <3>4. Behind(i) = {n \in 1..Len(s) + 1 : \E m \in later : n <= m}
      BY <3>2, <3>3 DEF AnyRun
    <3> QED
      BY <3>4 DEF later, AnyRun
  <2> HIDE DEF Behind
  <2> QED
    BY <2>1, <2>2, <2>3
<1>5. r - b - 1 \in Nat
  OBVIOUS
<1>6. r - b - 1 \in K
  <2> HIDE DEF K
  <2> QED
    BY <1>3, <1>4, <1>5, InductionOverSet
<1>7. b + 1 + (r - b - 1) = r
  OBVIOUS
<1> DEFINE q == b + 1 + (r - b - 1)
<1>8. q <= r => matched[b] = Behind(q)
  BY <1>6
<1> QED
  BY <1>7, <1>8

\* Backtracking decides what matches, for a subject S and a pattern P in which characters
\* are equal that match in s and p.
LEMMA LikeDecides ==
    ASSUME NEW s, NEW p, NEW S, NEW P, NEW escape, NEW nocase, NEW like, NEW matched,
           NEW m \in Nat, NEW n \in Nat, Len(s) = m, Len(S) = m, Len(p) = n, Len(P) = n,
           Alike(s, p, S, P, escape, nocase), n # 0 => p[n] # escape,
           Answered(like, S, P, escape), Reached(matched, s, p, escape, nocase)
    PROVE  like[<<1, 1>>] = IF 1 \in matched[1] THEN "yes" ELSE "no"
<1> DEFINE Agree(si, pi) == like[<<si, pi>>] = IF si \in matched[pi] THEN "yes" ELSE "no"
           Bad == {pi \in 1..n + 1 : \E si \in 1..m + 1 : ~Agree(si, pi)}
<1>1. SUFFICES ASSUME Bad # {} PROVE FALSE
  <2>1. 1 \in 1..n + 1 /\ 1 \in 1..m + 1
    OBVIOUS
  <2> QED
    BY <2>1
<1>2. PICK pi \in Bad : \A x \in Bad : x <= pi
  <2>1. n + 1 \in Nat /\ Bad \in SUBSET (1..n + 1)
    OBVIOUS
  <2> HIDE DEF Bad
  <2> QED
    BY <1>1, <2>1, EndsOf
<1>3. PICK si \in 1..m + 1 : ~Agree(si, pi)
  OBVIOUS
<1>4. pi \in 1..n + 1
  OBVIOUS
<1>5. \A j \in 1..n + 1 : j > pi => \A k \in 1..m + 1 : Agree(k, j)
  <2> SUFFICES ASSUME NEW j \in 1..n + 1, j > pi PROVE j \notin Bad
    OBVIOUS
  <2>1. j \in Int /\ pi \in Int /\ ~(j <= pi)
    BY <1>4
  <2> QED
    BY <1>2, <2>1
<1>6. \A j \in 1..n + 1 : matched[j] \subseteq 1..m + 1
  BY MatchedPlaces DEF Reached
<1> DEFINE at == LikeAt(like, S, P, escape, si, pi)
           there == MatchedAt(matched, s, p, escape, nocase, pi)
<1>7. like[<<si, pi>>] = at /\ matched[pi] = there
  BY <1>4 DEF Answered, Reached
<1> HIDE DEF Bad
<1> SUFFICES at = IF si \in there THEN "yes" ELSE "no"
  BY <1>3, <1>7
<1> HIDE DEF Agree
<1>8. CASE pi > n
  <2>0. ~(pi <= n)
    BY <1>4, <1>8
  <2>1. at = IF si > m THEN "yes" ELSE "no"
    BY <1>8, <2>0 DEF LikeAt
  <2>2. there = {m + 1}
    BY <1>8, <2>0 DEF MatchedAt
  <2>3. si > m <=> si = m + 1
    OBVIOUS
  <2> HIDE DEF at, there
  <2> QED
    BY <2>1, <2>2, <2>3
<1>9. ASSUME pi <= n PROVE pi \in 1..n /\ ~(pi > n) /\ pi + 1 \in 1..n + 1 /\ pi + 1 > pi
  BY <1>4, <1>9
<1> DEFINE Literal(j, next) == IF si <= m /\ S[si] = P[j] THEN like[<<si + 1, next>>] ELSE "no"
<1>10. ASSUME NEW j \in 1..n, NEW next \in 1..n + 1, next > pi
       PROVE  Literal(j, next) = IF si \in Literally(s, p[j], nocase, matched[next]) THEN "yes" ELSE "no"
  <2>1. CASE si <= m
    <3>1. si \in 1..m /\ si + 1 \in 1..m + 1
      BY <2>1
    <3>2. Agree(si + 1, next)
      BY <1>5, <1>10, <3>1
    <3>3. si \in Literally(s, p[j], nocase, matched[next]) <=> S[si] = P[j] /\ si + 1 \in matched[next]
      BY <3>1 DEF Literally, Alike
    <3> QED
      BY <2>1, <3>2, <3>3 DEF Agree
  <2>2. CASE ~(si <= m)
    <3>1. si \notin Literally(s, p[j], nocase, matched[next])
      BY <2>2 DEF Literally
    <3> QED
      BY <2>2, <3>1
  <2> QED
    BY <2>1, <2>2
<1>11. CASE pi <= n /\ p[pi] = escape
  <2>1. pi # n /\ pi + 1 \in 1..n /\ pi + 2 \in 1..n + 1 /\ pi + 2 > pi
    BY <1>9, <1>11
  <2>2. P[pi] = escape
    BY <1>9, <1>11 DEF Alike
  <2>3. at = Literal(pi + 1, pi + 2)
    BY <1>9, <1>11, <2>1, <2>2 DEF LikeAt, Percent, Underscore
  <2>4. there = Literally(s, p[pi + 1], nocase, matched[pi + 2])
    BY <1>9, <1>11, <2>1 DEF MatchedAt, Percent, Underscore
  <2> HIDE DEF at, there, Literal
  <2>5. Literal(pi + 1, pi + 2) = IF si \in Literally(s, p[pi + 1], nocase, matched[pi + 2]) THEN "yes" ELSE "no"
    BY <1>10, <2>1
  <2> QED
    BY <2>3, <2>4, <2>5
<1>12. CASE pi <= n /\ p[pi] # escape /\ p[pi] = Percent
  <2>1. P[pi] # escape /\ P[pi] = Percent /\ Percent # escape
    BY <1>9, <1>12 DEF Alike
  <2>a. ASSUME NEW r \in pi + 1..n + 1, \A i \in pi..r - 1 : p[i] = Percent
        PROVE  matched[pi] = AnyRun(s, matched[r])
    <3>1. r \in Int /\ pi \in Int /\ 1 <= pi /\ pi < r /\ r <= Len(p) + 1
      BY <1>4
    <3> QED
      BY <2>1, <2>a, <3>1, PercentsReach
  <2> DEFINE rest == {i \in pi..n : P[i] # Percent}
             ends == {k \in si..m + 1 : like[<<k, Min(rest)>>] # "no"}
  <2>2. at = AnyNumber(like, S, P, si, pi)
    BY <1>9, <1>12, <2>1 DEF LikeAt, Percent, Underscore
  <2>3. at = IF rest = {} THEN "yes"
             ELSE IF ends = {} THEN "no" ELSE like[<<Min(ends), Min(rest)>>]
    <3> HIDE DEF at
    <3> QED
      BY <2>2 DEF AnyNumber
  <2> HIDE DEF at
  <2>4. CASE rest = {}
    <3>1. \A i \in pi..n : P[i] = Percent /\ i \in 1..n
      BY <1>4, <2>4
    <3>2. \A i \in pi..n + 1 - 1 : p[i] = Percent
      BY <1>4, <3>1 DEF Alike
    <3>3. n + 1 \in pi + 1..n + 1
      BY <1>9, <1>12
    <3>4. matched[pi] = AnyRun(s, matched[n + 1])
      BY <2>a, <3>2, <3>3
    <3>5. matched[n + 1] = {m + 1}
      <4>1. n + 1 \in 1..n + 1 /\ n + 1 > n
        OBVIOUS
      <4> QED
        BY <4>1 DEF Reached, MatchedAt
    <3>6. si \in matched[pi]
      <4>1. m + 1 \in matched[n + 1] /\ si <= m + 1
        BY <3>5
      <4> QED
        BY <3>4, <4>1 DEF AnyRun
    <3> QED
      BY <1>7, <2>3, <2>4, <3>6
  <2>5. CASE rest # {}
    <3>1. rest \in SUBSET (1..n)
      BY <1>4
    <3>2. PICK r \in rest : Min(rest) = r /\ \A x \in rest : r <= x
      BY <2>5, <3>1, EndsOf
    <3>3. r \in 1..n /\ r \in pi..n /\ r # pi
      BY <1>4, <2>1
    <3>4. r \in pi + 1..n + 1 /\ r > pi /\ r \in 1..n + 1
      BY <1>4, <3>3
    <3>5. \A i \in pi..r - 1 : i \in 1..n /\ i \in pi..n /\ ~(r <= i)
      BY <1>4, <3>3
    <3>6. \A i \in pi..r - 1 : p[i] = Percent
      BY <3>2, <3>5 DEF Alike
    <3>7. matched[pi] = AnyRun(s, matched[r])
      BY <2>a, <3>4, <3>6
    <3> DEFINE later == {k \in si..m + 1 : k \in matched[r]}
    <3>8. \A k \in si..m + 1 : like[<<k, r>>] = IF k \in matched[r] THEN "yes" ELSE "no"
      <4>1. \A k \in si..m + 1 : k \in 1..m + 1
        OBVIOUS
      <4>2. \A k \in 1..m + 1 : Agree(k, r)
        BY <1>5, <3>4
      <4> QED
        BY <4>1, <4>2 DEF Agree
    <3>9. ends = later
      <4> HIDE DEF rest
      <4> QED
        BY <3>2, <3>8
    <3>10. si \in matched[pi] <=> later # {}
      <4>1. si \in matched[pi] <=> \E k \in matched[r] : si <= k
        BY <3>7 DEF AnyRun
      <4>2. matched[r] \subseteq 1..m + 1
        BY <1>6, <3>4
      <4>3. \A k \in matched[r] : si <= k <=> k \in si..m + 1
        BY <4>2
      <4> QED
        BY <4>1, <4>3
    <3>11. later # {} => like[<<Min(later), r>>] = "yes"
      <4>1. later \in SUBSET (1..m + 1) /\ m + 1 \in Nat
        OBVIOUS
      <4>2. later # {} => Min(later) \in later
        <5> HIDE DEF later
        <5> QED
          BY <4>1, EndsOf
      <4> QED
        BY <3>8, <4>2
    <3> HIDE DEF rest, ends, later
    <3> QED
      BY <1>7, <2>3, <2>5, <3>2, <3>9, <3>10, <3>11
  <2> QED
    BY <2>4, <2>5
<1>13. CASE pi <= n /\ p[pi] # escape /\ p[pi] = Underscore
  <2>1. P[pi] # escape /\ P[pi] = Underscore
    BY <1>9, <1>13 DEF Alike
  <2>2. at = IF si <= m THEN like[<<si + 1, pi + 1>>] ELSE "no"
    BY <1>9, <1>13, <2>1 DEF LikeAt, Percent, Underscore
  <2>3. there = AnyOne(s, matched[pi + 1])
    BY <1>9, <1>13 DEF MatchedAt, Percent, Underscore
  <2> HIDE DEF at, there
  <2>4. CASE si <= m
    <3>1. si \in 1..m /\ si + 1 \in 1..m + 1
      BY <2>4
    <3>2. Agree(si + 1, pi + 1)
      BY <1>5, <1>9, <1>13, <3>1
    <3> QED
      BY <2>2, <2>3, <2>4, <3>1, <3>2 DEF Agree, AnyOne
  <2>5. CASE ~(si <= m)
    BY <2>2, <2>3, <2>5 DEF AnyOne
  <2> QED
    BY <2>4, <2>5
<1>14. CASE pi <= n /\ p[pi] # escape /\ p[pi] # Percent /\ p[pi] # Underscore
  <2>1. P[pi] # escape /\ P[pi] # Percent /\ P[pi] # Underscore
    BY <1>9, <1>14 DEF Alike
  <2>2. at = Literal(pi, pi + 1)
    BY <1>9, <1>14, <2>1 DEF LikeAt
  <2>3. there = Literally(s, p[pi], nocase, matched[pi + 1])
    BY <1>9, <1>14 DEF MatchedAt
  <2> HIDE DEF at, there, Literal
  <2> QED
    BY <1>9, <1>10, <1>14, <2>2, <2>3
<1>15. pi <= n \/ pi > n
  BY <1>4
<1> QED
  BY <1>8, <1>11, <1>12, <1>13, <1>14, <1>15

\* So the oracle of one pair of texts says what the other pair matches.
LEMMA LikeIsDecided ==
    ASSUME NEW C, NEW s \in Seq(C), NEW p \in Seq(C), NEW S \in Seq(Int), NEW P \in Seq(Int),
           NEW escape, NEW nocase, Len(S) = Len(s), Len(P) = Len(p),
           Alike(s, p, S, P, escape, nocase), Len(p) # 0 => p[Len(p)] # escape
    PROVE  LikeFrom(S, P, escape) = IF Matches(s, p, escape, nocase) THEN "yes" ELSE "no"
<1>1. Len(s) \in Nat /\ Len(p) \in Nat /\ Len(S) \in Nat /\ Len(P) \in Nat
  BY LenProperties
<1>2. PICK like : LikeFrom(S, P, escape) = like[<<1, 1>>] /\ Answered(like, S, P, escape)
  BY <1>1, LikeIs
<1>3. PICK matched : /\ Matches(s, p, escape, nocase) <=> 1 \in matched[1]
                     /\ Reached(matched, s, p, escape, nocase)
  BY <1>1, MatchesIs
<1>4. like[<<1, 1>>] = IF 1 \in matched[1] THEN "yes" ELSE "no"
  BY <1>1, <1>2, <1>3, LikeDecides
<1> QED
  BY <1>2, <1>3, <1>4

\* What lowering makes of a character.
LEMMA Lowered ==
    ASSUME NEW s \in Seq(Nat)
    PROVE  /\ LowerAscii(s) \in Seq(Int) /\ Len(LowerAscii(s)) = Len(s)
           /\ \A i \in 1..Len(s) : LowerAscii(s)[i] = Lower(s[i]) /\ s[i] \in Nat
<1>1. Len(s) \in Nat /\ DOMAIN s = 1..Len(s) /\ \A i \in 1..Len(s) : s[i] \in Nat
  BY LenProperties, ElementOfSeq
<1>2. \A i \in 1..Len(s) : Lower(s[i]) \in Int
  BY <1>1 DEF Lower
<1>3. LowerAscii(s) = [i \in 1..Len(s) |-> Lower(s[i])]
  BY <1>1 DEF LowerAscii
<1> QED
  BY <1>1, <1>2, <1>3, IsASeq

\* No character is lowered to one that it is not but the pattern's letters.
LEMMA LowerKeeps ==
    \A c \in Nat : \A e \in {NoEscape} \cup Nat : ~(65 <= e /\ e <= 90) /\ ~(97 <= e /\ e <= 122) =>
        /\ Lower(c) = e <=> c = e
        /\ Lower(c) = Percent <=> c = Percent
        /\ Lower(c) = Underscore <=> c = Underscore
<1> SUFFICES ASSUME NEW c \in Nat, NEW e \in {NoEscape} \cup Nat,
                    ~(65 <= e /\ e <= 90), ~(97 <= e /\ e <= 122)
             PROVE  /\ Lower(c) = e <=> c = e
                    /\ Lower(c) = Percent <=> c = Percent
                    /\ Lower(c) = Underscore <=> c = Underscore
  OBVIOUS
<1>1. e \in Int
  BY DEF NoEscape
<1>2. Lower(c) = IF 65 <= c /\ c <= 90 THEN c + 32 ELSE c
  BY SMT DEF Lower
<1> QED
  BY <1>1, <1>2, SMT DEF Percent, Underscore

\* For any subjects and patterns of any characters, and any escapes that are no letters,
\* the reference LIKE says what the pattern matches, with and without regard to case.
THEOREM LikeIsMatching == Spec => []LikeMatchesReference
<1>1. Types => LikeMatchesReference
  <2> SUFFICES ASSUME Types, topic = "like", NEW escape \in Escapes, ValidPattern(other, escape)
               PROVE  /\ LikeFrom(text, other, escape) =
                            IF Matches(text, other, escape, FALSE) THEN "yes" ELSE "no"
                      /\ LikeFrom(LowerAscii(text), LowerAscii(other), escape) =
                            IF Matches(text, other, escape, TRUE) THEN "yes" ELSE "no"
    BY DEF LikeMatchesReference
  <2>1. text \in Seq(Nat) /\ other \in Seq(Nat)
    <3>1. text \in Seq(Topics[topic].chars) /\ other \in Seq(Topics[topic].otherChars)
      BY DEF Types
    <3>2. Topics[topic].chars \subseteq Nat /\ Topics[topic].otherChars \subseteq Nat
      BY TopicsAssumption
    <3> QED
      BY <3>1, <3>2, SeqMonotonic
  <2>2. text \in Seq(Int) /\ other \in Seq(Int)
    <3>1. Nat \subseteq Int
      OBVIOUS
    <3> QED
      BY <2>1, <3>1, SeqMonotonic
  <2>3. Len(other) # 0 => other[Len(other)] # escape
    <3>1. Len(other) \in Nat /\ (Len(other) # 0 => other[Len(other)] \in Nat /\ other # <<>>)
      BY <2>1, LenProperties, ElementOfSeq, EmptySeq
    <3> QED
      BY <3>1 DEF ValidPattern, NoEscape
  <2>4. escape \in {NoEscape} \cup Nat /\ ~(65 <= escape /\ escape <= 90) /\ ~(97 <= escape /\ escape <= 122)
    <3>1. escape \in {NoEscape} \cup Nat /\ escape \notin 65..90 /\ escape \notin 97..122
      BY EscapesAssumption, Zenon
    <3>2. escape \in Int
      BY <3>1 DEF NoEscape
    <3> QED
      BY <3>1, <3>2, SMT
  <2>5. LikeFrom(text, other, escape) = IF Matches(text, other, escape, FALSE) THEN "yes" ELSE "no"
    <3>1. Alike(text, other, text, other, escape, FALSE)
      BY DEF Alike, SameCharacter
    <3> QED
      BY <2>2, <2>3, <3>1, LikeIsDecided
  <2>6. LikeFrom(LowerAscii(text), LowerAscii(other), escape) =
            IF Matches(text, other, escape, TRUE) THEN "yes" ELSE "no"
    <3>1. /\ \A i \in 1..Len(text) : LowerAscii(text)[i] = Lower(text[i])
          /\ \A j \in 1..Len(other) : LowerAscii(other)[j] = Lower(other[j]) /\ other[j] \in Nat
      BY <2>1, Lowered
    <3>2. Alike(text, other, LowerAscii(text), LowerAscii(other), escape, TRUE)
      <4>1. \A j \in 1..Len(other) :
                /\ LowerAscii(other)[j] = escape <=> other[j] = escape
                /\ LowerAscii(other)[j] = Percent <=> other[j] = Percent
                /\ LowerAscii(other)[j] = Underscore <=> other[j] = Underscore
        <5> SUFFICES ASSUME NEW j \in 1..Len(other)
                     PROVE  /\ LowerAscii(other)[j] = escape <=> other[j] = escape
                            /\ LowerAscii(other)[j] = Percent <=> other[j] = Percent
                            /\ LowerAscii(other)[j] = Underscore <=> other[j] = Underscore
          OBVIOUS
        <5>1. other[j] \in Nat /\ LowerAscii(other)[j] = Lower(other[j])
          BY <3>1
        <5>2. /\ Lower(other[j]) = escape <=> other[j] = escape
              /\ Lower(other[j]) = Percent <=> other[j] = Percent
              /\ Lower(other[j]) = Underscore <=> other[j] = Underscore
          BY <2>4, <5>1, LowerKeeps
        <5> QED
          BY <5>1, <5>2
      <4> QED
        BY <3>1, <4>1 DEF Alike, SameCharacter
    <3>3. /\ LowerAscii(text) \in Seq(Int) /\ Len(LowerAscii(text)) = Len(text)
          /\ LowerAscii(other) \in Seq(Int) /\ Len(LowerAscii(other)) = Len(other)
      BY <2>1, Lowered
    <3> QED
      BY <2>1, <2>3, <3>2, <3>3, LikeIsDecided
  <2> QED
    BY <2>5, <2>6
<1> QED
  BY <1>1, TypesHold, PTL

-----------------------------------------------------------------------------
\* Characters and their bytes.

\* A byte that continues a character.
Follows(b) == b \in Nat /\ 128 <= b /\ b <= 191

\* The first byte tells how many there are, and no other can be taken for a first one.
LEMMA EncodedIs ==
    ASSUME NEW c \in CodePoints
    PROVE  /\ Encoded(c) \in Seq(Nat) /\ Len(Encoded(c)) \in 1..4
           /\ Leads(Encoded(c)[1]).len = Len(Encoded(c))
           /\ ~Follows(Encoded(c)[1])
           /\ \A j \in 2..Len(Encoded(c)) : Follows(Encoded(c)[j])
<1>1. c \in Nat /\ c <= 1114111
  <2>1. c \in Nat /\ c <= LastCodePoint
    BY DEF CodePoints
  <2> QED
    BY <2>1 DEF LastCodePoint
<1>2. Follows(Continuation(c, 1)) /\ Follows(Continuation(c, 64)) /\ Follows(Continuation(c, 4096))
  BY <1>1 DEF Continuation, Follows
<1>3. CASE c < 128
  <2>1. Encoded(c) = <<c>>
    BY <1>1, <1>3 DEF Encoded
  <2>2. Leads(c).len = 1
    BY <1>1, <1>3 DEF Leads
  <2> QED
    BY <1>1, <1>3, <2>1, <2>2 DEF Follows
<1>4. CASE 128 <= c /\ c < 2048
  <2> DEFINE a == 192 + (c \div 64)
             z == Continuation(c, 1)
  <2>1. Encoded(c) = <<a, z>>
    BY <1>1, <1>4 DEF Encoded
  <2>2. a \in Nat /\ 192 <= a /\ a \div 32 = 6
    BY <1>1, <1>4
  <2>3. Follows(z)
    BY <1>2
  <2> HIDE DEF a, z
  <2>4. Leads(a).len = 2
    BY <2>2 DEF Leads
  <2> QED
    BY <2>1, <2>2, <2>3, <2>4 DEF Follows
<1>5. CASE 2048 <= c /\ c < 65536
  <2> DEFINE a == 224 + (c \div 4096)
             y == Continuation(c, 64)
             z == Continuation(c, 1)
  <2>1. Encoded(c) = <<a, y, z>>
    BY <1>1, <1>5 DEF Encoded
  <2>2. a \in Nat /\ 192 <= a /\ a \div 32 = 7 /\ a \div 16 = 14
    BY <1>1, <1>5
  <2>3. Follows(y) /\ Follows(z)
    BY <1>2
  <2> HIDE DEF a, y, z
  <2>4. Leads(a).len = 3
    BY <2>2 DEF Leads
  <2> QED
    BY <2>1, <2>2, <2>3, <2>4 DEF Follows
<1>6. CASE 65536 <= c
  <2> DEFINE a == 240 + (c \div 262144)
             x == Continuation(c, 4096)
             y == Continuation(c, 64)
             z == Continuation(c, 1)
  <2>1. Encoded(c) = <<a, x, y, z>>
    BY <1>1, <1>6 DEF Encoded
  <2>2. a \in Nat /\ 192 <= a /\ a \div 32 = 7 /\ a \div 16 = 15
    BY <1>1, <1>6
  <2>3. Follows(x) /\ Follows(y) /\ Follows(z)
    BY <1>2
  <2> HIDE DEF a, x, y, z
  <2>4. Leads(a).len = 4
    BY <2>2 DEF Leads
  <2> QED
    BY <2>1, <2>2, <2>3, <2>4 DEF Follows
<1> QED
  BY <1>1, <1>3, <1>4, <1>5, <1>6

\* The loop over the bytes of a character.
Collects(cp, s, i, bits, len) ==
    /\ cp[1] = bits
    /\ len >= 2 => cp[2] = cp[1] * 64 + (s[i + 1] % 64)
    /\ len >= 3 => cp[3] = cp[2] * 64 + (s[i + 2] % 64)
    /\ len >= 4 => cp[4] = cp[3] * 64 + (s[i + 3] % 64)

LEMMA DecodedLoop ==
    ASSUME NEW s, NEW i \in Int, Leads(s[i]).len \in 1..4, Leads(s[i]).bits \in Int
    PROVE  \E cp : /\ Decoded(s, i) = cp[Leads(s[i]).len]
                   /\ Collects(cp, s, i, Leads(s[i]).bits, Leads(s[i]).len)
<1> DEFINE len == Leads(s[i]).len
           bits == Leads(s[i]).bits
           Solves(f) == f = [j \in 1..len |-> IF j = 1 THEN bits ELSE f[j - 1] * 64 + (s[i + j - 1] % 64)]
           cp == CHOOSE f : Solves(f)
           b == bits * 64 + (s[i + 1] % 64)
           d == b * 64 + (s[i + 2] % 64)
           e == d * 64 + (s[i + 3] % 64)
           g == [j \in 1..len |-> IF j = 1 THEN bits ELSE IF j = 2 THEN b ELSE IF j = 3 THEN d ELSE e]
<1>1. Decoded(s, i) = cp[len]
  BY DEF Decoded
<1>10. len \in 1..4 /\ bits \in Int
  OBVIOUS
<1> HIDE DEF len, bits
<1>2. Solves(g)
  <2>1. \A j \in 1..len : g[j] = IF j = 1 THEN bits ELSE g[j - 1] * 64 + (s[i + j - 1] % 64)
    <3> SUFFICES ASSUME NEW j \in 1..len
                 PROVE  g[j] = IF j = 1 THEN bits ELSE g[j - 1] * 64 + (s[i + j - 1] % 64)
      OBVIOUS
    <3>1. j = 1 \/ j = 2 \/ j = 3 \/ j = 4
      BY <1>10
    <3>2. CASE j = 1
      BY <3>2
    <3>3. CASE j = 2
      <4>1. 1 \in 1..len /\ j - 1 = 1 /\ i + j - 1 = i + 1
        BY <1>10, <3>3
      <4>2. g[1] = bits /\ g[j] = b
        BY <3>3, <4>1
      <4> QED
        BY <3>3, <4>1, <4>2
    <3>4. CASE j = 3
      <4>1. 2 \in 1..len /\ j - 1 = 2 /\ i + j - 1 = i + 2
        BY <1>10, <3>4
      <4> HIDE DEF b
      <4>2. g[2] = b /\ g[j] = d
        BY <3>4, <4>1
      <4> QED
        BY <3>4, <4>1, <4>2
    <3>5. CASE j = 4
      <4>1. 3 \in 1..len /\ j - 1 = 3 /\ i + j - 1 = i + 3
        BY <1>10, <3>5
      <4> HIDE DEF b, d
      <4>2. g[3] = d /\ g[j] = e
        BY <3>5, <4>1
      <4> QED
        BY <3>5, <4>1, <4>2
    <3> QED
      BY <3>1, <3>2, <3>3, <3>4, <3>5
  <2> HIDE DEF b, d, e
  <2> QED
    BY <2>1
<1>3. Solves(cp)
  <2> HIDE DEF g, Solves
  <2> QED
    BY <1>2
<1> HIDE DEF cp
<1>4. cp[1] = bits
  BY <1>3, <1>10
<1>5. \A j \in 1..len : j # 1 => cp[j] = cp[j - 1] * 64 + (s[i + j - 1] % 64)
  BY <1>3
<1>6. /\ len >= 2 => 2 \in 1..len /\ 2 - 1 = 1 /\ i + 2 - 1 = i + 1
      /\ len >= 3 => 3 \in 1..len /\ 3 - 1 = 2 /\ i + 3 - 1 = i + 2
      /\ len >= 4 => 4 \in 1..len /\ 4 - 1 = 3 /\ i + 4 - 1 = i + 3
  BY <1>10
<1>7. len >= 2 => cp[2] = cp[1] * 64 + (s[i + 1] % 64)
  BY <1>5, <1>6
<1>8. len >= 3 => cp[3] = cp[2] * 64 + (s[i + 2] % 64)
  BY <1>5, <1>6
<1>9. len >= 4 => cp[4] = cp[3] * 64 + (s[i + 3] % 64)
  BY <1>5, <1>6
<1> QED
  BY <1>1, <1>4, <1>7, <1>8, <1>9 DEF Collects, len, bits

\* The loop finds the character whose bytes are there.
LEMMA DecodedIs ==
    ASSUME NEW c \in CodePoints, NEW s, NEW i \in Int,
           \A j \in 1..Len(Encoded(c)) : s[i + j - 1] = Encoded(c)[j]
    PROVE  Decoded(s, i) = c
<1>1. c \in Nat /\ c <= 1114111
  <2>1. c \in Nat /\ c <= LastCodePoint
    BY DEF CodePoints
  <2> QED
    BY <2>1 DEF LastCodePoint
<1>2. i + 1 - 1 = i /\ i + 2 - 1 = i + 1 /\ i + 3 - 1 = i + 2 /\ i + 4 - 1 = i + 3
  OBVIOUS
<1>3. CASE c < 128
  <2>1. Encoded(c) = <<c>>
    BY <1>1, <1>3, SMT DEF Encoded
  <2>2. s[i] = c
    BY <1>2, <2>1
  <2>3. Leads(s[i]).len = 1 /\ Leads(s[i]).bits = c
    BY <1>1, <1>3, <2>2 DEF Leads
  <2>4. Leads(s[i]).len \in 1..4 /\ Leads(s[i]).bits \in Int
    BY <1>1, <2>3, SMT
  <2> QED
    BY <2>3, <2>4, DecodedLoop DEF Collects
<1>4. CASE 128 <= c /\ c < 2048
  <2> DEFINE a == 192 + (c \div 64)
             z == Continuation(c, 1)
             bits == c \div 64
  <2>1. Encoded(c) = <<a, z>>
    BY <1>1, <1>4, SMT DEF Encoded
  <2>2. a \in Nat /\ 192 <= a /\ a \div 32 = 6 /\ a % 32 = bits /\ bits \in Int
    BY <1>1, <1>4, SMT
  <2>3. z \in Nat /\ bits * 64 + (z % 64) = c
    BY <1>1, <1>4, SMT DEF Continuation
  <2> HIDE DEF a, z, bits
  <2>4. s[i] = a /\ s[i + 1] = z
    BY <1>2, <2>1
  <2>5. Leads(s[i]).len = 2 /\ Leads(s[i]).bits = bits
    BY <2>2, <2>4 DEF Leads
  <2>6. Leads(s[i]).len \in 1..4 /\ Leads(s[i]).bits \in Int
    BY <2>2, <2>5
  <2>7. PICK cp : Decoded(s, i) = cp[2] /\ Collects(cp, s, i, bits, 2)
    BY <2>5, <2>6, DecodedLoop
  <2> QED
    BY <2>2, <2>3, <2>4, <2>7 DEF Collects
<1>5. CASE 2048 <= c /\ c < 65536
  <2> DEFINE a == 224 + (c \div 4096)
             y == Continuation(c, 64)
             z == Continuation(c, 1)
             bits == c \div 4096
  <2>1. Encoded(c) = <<a, y, z>>
    BY <1>1, <1>5, SMT DEF Encoded
  <2>2. a \in Nat /\ 192 <= a /\ a \div 32 = 7 /\ a \div 16 = 14 /\ a % 16 = bits /\ bits \in Int
    BY <1>1, <1>5, SMT
  <2>3. y \in Nat /\ z \in Nat /\ (bits * 64 + (y % 64)) * 64 + (z % 64) = c
    BY <1>1, <1>5, SMT DEF Continuation
  <2> HIDE DEF a, y, z, bits
  <2>4. s[i] = a /\ s[i + 1] = y /\ s[i + 2] = z
    BY <1>2, <2>1
  <2>5. Leads(s[i]).len = 3 /\ Leads(s[i]).bits = bits
    BY <2>2, <2>4 DEF Leads
  <2>6. Leads(s[i]).len \in 1..4 /\ Leads(s[i]).bits \in Int
    BY <2>2, <2>5
  <2>7. PICK cp : Decoded(s, i) = cp[3] /\ Collects(cp, s, i, bits, 3)
    BY <2>5, <2>6, DecodedLoop
  <2> QED
    BY <2>2, <2>3, <2>4, <2>7 DEF Collects
<1>6. CASE 65536 <= c
  <2> DEFINE a == 240 + (c \div 262144)
             x == Continuation(c, 4096)
             y == Continuation(c, 64)
             z == Continuation(c, 1)
             bits == c \div 262144
  <2>1. Encoded(c) = <<a, x, y, z>>
    BY <1>1, <1>6, SMT DEF Encoded
  <2>2. a \in Nat /\ 192 <= a /\ a \div 32 = 7 /\ a \div 16 = 15 /\ a % 8 = bits /\ bits \in Int
    BY <1>1, <1>6, SMT
  <2>3. /\ x \in Nat /\ y \in Nat /\ z \in Nat
        /\ ((bits * 64 + (x % 64)) * 64 + (y % 64)) * 64 + (z % 64) = c
    BY <1>1, <1>6, SMT DEF Continuation
  <2> HIDE DEF a, x, y, z, bits
  <2>4. s[i] = a /\ s[i + 1] = x /\ s[i + 2] = y /\ s[i + 3] = z
    BY <1>2, <2>1
  <2>5. Leads(s[i]).len = 4 /\ Leads(s[i]).bits = bits
    BY <2>2, <2>4 DEF Leads
  <2>6. Leads(s[i]).len \in 1..4 /\ Leads(s[i]).bits \in Int
    BY <2>2, <2>5
  <2>7. PICK cp : Decoded(s, i) = cp[4] /\ Collects(cp, s, i, bits, 4)
    BY <2>5, <2>6, DecodedLoop
  <2> QED
    BY <2>2, <2>3, <2>4, <2>7 DEF Collects
<1> QED
  BY <1>1, <1>3, <1>4, <1>5, <1>6

\* A text and a string, and behind how many bytes each character ends.
Encodes(cps, s, ends) ==
    /\ s \in Seq(Nat)
    /\ ends \in [0..Len(cps) -> Nat]
    /\ ends[0] = 0 /\ ends[Len(cps)] = Len(s)
    /\ \A n \in 1..Len(cps) :
        /\ ends[n] = ends[n - 1] + Len(Encoded(cps[n]))
        /\ \A j \in 1..Len(Encoded(cps[n])) : s[ends[n - 1] + j] = Encoded(cps[n])[j]

\* FromCodepoints puts the characters' bytes one after the other.
LEMMA FromCodepointsIs ==
    /\ FromCodepoints(<<>>) = <<>>
    /\ \A cps \in Seq(CodePoints) : FromCodepoints(cps) \in Seq(Nat)
    /\ \A cps \in Seq(CodePoints) : \A c \in CodePoints :
            FromCodepoints(Append(cps, c)) = FromCodepoints(cps) \o Encoded(c)
    /\ \A r, t \in Seq(CodePoints) : FromCodepoints(r \o t) = FromCodepoints(r) \o FromCodepoints(t)
<1> DEFINE f == [c \in CodePoints |-> Encoded(c)]
<1>1. f \in [CodePoints -> Seq(Nat)]
  BY EncodedIs
<1>2. \A cps \in Seq(CodePoints) : FromCodepoints(cps) = Spread(f, cps)
  <2> SUFFICES ASSUME NEW cps \in Seq(CodePoints) PROVE FromCodepoints(cps) = Spread(f, cps)
    OBVIOUS
  <2>1. \A i \in DOMAIN cps : Encoded(cps[i]) = f[cps[i]]
    <3>1. \A i \in DOMAIN cps : cps[i] \in CodePoints
      BY LenProperties, ElementOfSeq
    <3> QED
      BY <3>1
  <2>2. [i \in DOMAIN cps |-> Encoded(cps[i])] = [i \in DOMAIN cps |-> f[cps[i]]]
    BY <2>1
  <2> QED
    BY <2>2 DEF FromCodepoints, Spread
<1>3. \A c \in CodePoints : f[c] = Encoded(c)
  OBVIOUS
<1> HIDE DEF f
<1>4. <<>> \in Seq(CodePoints)
  OBVIOUS
<1>5. /\ Spread(f, <<>>) = <<>>
      /\ \A t \in Seq(CodePoints) : Spread(f, t) \in Seq(Nat)
      /\ \A t \in Seq(CodePoints) : \A c \in CodePoints : Spread(f, Append(t, c)) = Spread(f, t) \o f[c]
  BY <1>1, SpreadAppend DEF Maps
<1>6. \A r, t \in Seq(CodePoints) : r \o t \in Seq(CodePoints) /\ Spread(f, r \o t) = Spread(f, r) \o Spread(f, t)
  BY <1>1, SpreadConcat DEF Maps
<1>7. \A t \in Seq(CodePoints) : \A c \in CodePoints : Append(t, c) \in Seq(CodePoints)
  BY AppendProperties
<1>8. FromCodepoints(<<>>) = <<>>
  BY <1>2, <1>4, <1>5
<1>9. \A cps \in Seq(CodePoints) : FromCodepoints(cps) \in Seq(Nat)
  BY <1>2, <1>5
<1>10. ASSUME NEW cps \in Seq(CodePoints), NEW c \in CodePoints
       PROVE  FromCodepoints(Append(cps, c)) = FromCodepoints(cps) \o Encoded(c)
  BY <1>2, <1>3, <1>5, <1>7
<1>11. ASSUME NEW r \in Seq(CodePoints), NEW t \in Seq(CodePoints)
       PROVE  FromCodepoints(r \o t) = FromCodepoints(r) \o FromCodepoints(t)
  <2>1. FromCodepoints(r) = Spread(f, r) /\ FromCodepoints(t) = Spread(f, t)
    BY <1>2
  <2>2. r \o t \in Seq(CodePoints) /\ Spread(f, r \o t) = Spread(f, r) \o Spread(f, t)
    BY <1>6
  <2>3. FromCodepoints(r \o t) = Spread(f, r \o t)
    BY <1>2, <2>2
  <2> QED
    BY <2>1, <2>2, <2>3
<1> QED
  BY <1>8, <1>9, <1>10, <1>11

\* The ends are in the order of the characters, all of them in the string.
LEMMA EndsGrow ==
    ASSUME NEW cps \in Seq(CodePoints), NEW s, NEW ends, Encodes(cps, s, ends)
    PROVE  /\ \A n \in 1..Len(cps) : /\ cps[n] \in CodePoints /\ Len(Encoded(cps[n])) \in 1..4
                                      /\ n - 1 \in 0..Len(cps)
           /\ \A m, n \in 0..Len(cps) : m < n => ends[m] < ends[n]
           /\ \A n \in 0..Len(cps) : ends[n] \in 0..Len(s)
<1> DEFINE L == Len(cps)
<1>1. L \in Nat /\ Len(s) \in Nat
  BY LenProperties DEF Encodes
<1>2. \A n \in 1..L : cps[n] \in CodePoints /\ Len(Encoded(cps[n])) \in 1..4
  BY ElementOfSeq, EncodedIs
<1>3. /\ ends \in [0..L -> Nat] /\ ends[L] = Len(s)
      /\ \A n \in 1..L : ends[n] = ends[n - 1] + Len(Encoded(cps[n]))
  BY DEF Encodes
<1> HIDE DEF L
<1>7. ASSUME NEW n \in 1..L PROVE ends[n - 1] < ends[n] /\ ends[n - 1] \in Nat /\ ends[n] \in Nat
  <2>1. n - 1 \in 0..L /\ n \in 0..L
    BY <1>1
  <2>2. ends[n - 1] \in Nat /\ ends[n] \in Nat
    BY <1>3, <2>1
  <2>3. ends[n] = ends[n - 1] + Len(Encoded(cps[n]))
    BY <1>3
  <2> DEFINE w == Len(Encoded(cps[n]))
  <2>4. w \in 1..4
    BY <1>2
  <2> HIDE DEF w
  <2>5. ends[n] = ends[n - 1] + w
    BY <2>3 DEF w
  <2> QED
    BY <2>2, <2>4, <2>5
<1>4. ASSUME NEW m \in 0..L, NEW n \in 0..L, m < n PROVE ends[m] < ends[n]
  <2> DEFINE K == {k \in Nat : m + k + 1 <= L => ends[m] < ends[m + k + 1]}
  <2>1. 0 \in K
    <3> SUFFICES ASSUME m + 1 <= L PROVE ends[m] < ends[m + 1]
      OBVIOUS
    <3>1. m + 1 \in 1..L /\ m + 1 - 1 = m
      BY <1>1
    <3>2. ends[m + 1 - 1] < ends[m + 1]
      BY <1>7, <3>1
    <3> QED
      BY <3>1, <3>2
  <2>2. ASSUME NEW k \in Nat, k \in K PROVE k + 1 \in K
    <3> SUFFICES ASSUME m + k + 2 <= L PROVE ends[m] < ends[m + k + 2]
      OBVIOUS
    <3>1. m + k + 2 \in 1..L /\ m + k + 2 - 1 = m + k + 1 /\ m + k + 1 \in 0..L /\ m + k + 1 <= L
      BY <1>1
    <3>2. /\ ends[m + k + 2 - 1] < ends[m + k + 2]
          /\ ends[m + k + 2 - 1] \in Nat /\ ends[m + k + 2] \in Nat
      BY <1>7, <3>1
    <3>3. ends[m] < ends[m + k + 1] /\ ends[m] \in Nat
      BY <1>3, <2>2, <3>1
    <3> QED
      BY <3>1, <3>2, <3>3
  <2> HIDE DEF K
  <2>3. Nat \subseteq K
    BY <2>1, <2>2, InductionOverSet
  <2>4. n - m - 1 \in Nat /\ m + (n - m - 1) + 1 = n /\ n <= L
    BY <1>1, <1>4
  <2> QED
    BY <2>3, <2>4 DEF K
<1>5. ASSUME NEW n \in 0..L PROVE ends[n] \in 0..Len(s)
  <2>1. n = L \/ (n < L /\ L \in 0..L)
    BY <1>1
  <2>2. ends[n] \in Nat /\ ends[n] <= ends[L]
    BY <1>1, <1>3, <1>4, <2>1
  <2> QED
    BY <1>1, <1>3, <2>2
<1>6. \A n \in 1..L : n - 1 \in 0..L
  BY <1>1
<1> QED
  BY <1>2, <1>4, <1>5, <1>6 DEF L

\* Every text has such ends in its string.
LEMMA FromCodepointsEncodes ==
    \A cps \in Seq(CodePoints) : \E ends : Encodes(cps, FromCodepoints(cps), ends)
<1> DEFINE X == {cps \in Seq(CodePoints) : \E ends : Encodes(cps, FromCodepoints(cps), ends)}
<1>1. <<>> \in X
  <2>1. Len(<<>>) = 0 /\ <<>> \in Seq(CodePoints) /\ <<>> \in Seq(Nat) /\ FromCodepoints(<<>>) = <<>>
    BY FromCodepointsIs
  <2> DEFINE ends == [n \in 0..0 |-> 0]
  <2>2. ends \in [0..0 -> Nat] /\ ends[0] = 0
    OBVIOUS
  <2>3. \A n \in 1..0 : FALSE
    OBVIOUS
  <2> HIDE DEF ends
  <2>4. Encodes(<<>>, <<>>, ends)
    BY <2>1, <2>2, <2>3 DEF Encodes
  <2> QED
    BY <2>1, <2>4
<1>2. ASSUME NEW cps \in Seq(CodePoints), NEW c \in CodePoints, cps \in X
      PROVE  Append(cps, c) \in X
  <2> DEFINE L == Len(cps)
             s == FromCodepoints(cps)
             u == Append(cps, c)
             e == Encoded(c)
  <2>1. PICK ends : Encodes(cps, s, ends)
    BY <1>2
  <2>2. /\ L \in Nat /\ u \in Seq(CodePoints) /\ Len(u) = L + 1
        /\ \A n \in 1..L : u[n] = cps[n]
        /\ u[L + 1] = c
    BY AppendProperties, LenProperties
  <2>3. FromCodepoints(u) = s \o e /\ s \in Seq(Nat)
    BY FromCodepointsIs
  <2>4. e \in Seq(Nat) /\ Len(e) \in Nat
    BY EncodedIs
  <2>5. \A n \in 1..L : cps[n] \in CodePoints /\ Encoded(cps[n]) \in Seq(Nat) /\ Len(Encoded(cps[n])) \in 1..4
    BY EncodedIs, ElementOfSeq
  <2>6. Encoded(u[L + 1]) = e /\ \A n \in 1..L : Encoded(u[n]) = Encoded(cps[n])
    BY <2>2
  <2> HIDE DEF L, s, u, e
  <2>7. /\ s \o e \in Seq(Nat) /\ Len(s \o e) = Len(s) + Len(e)
        /\ \A i \in 1..Len(s) + Len(e) : (s \o e)[i] = IF i <= Len(s) THEN s[i] ELSE e[i - Len(s)]
    BY <2>3, <2>4, ConcatProperties
  <2>8. Len(s) \in Nat
    BY <2>3, LenProperties
  <2> DEFINE v == s \o e
             more == [n \in 0..L + 1 |-> IF n <= L THEN ends[n] ELSE Len(v)]
  <2>9. /\ ends \in [0..L -> Nat] /\ ends[0] = 0 /\ ends[L] = Len(s)
        /\ \A n \in 1..L : /\ ends[n] = ends[n - 1] + Len(Encoded(cps[n]))
                            /\ \A j \in 1..Len(Encoded(cps[n])) : s[ends[n - 1] + j] = Encoded(cps[n])[j]
    BY <2>1 DEF Encodes, L
  <2>10. \A n \in 0..L : more[n] = ends[n]
    BY <2>2
  <2>11. more[L + 1] = Len(s) + Len(e)
    BY <2>2, <2>7
  <2>12. more \in [0..L + 1 -> Nat]
    BY <2>2, <2>4, <2>7, <2>8, <2>9
  <2> HIDE DEF more, v
  <2>13. \A n \in 1..L + 1 : n = L + 1 \/ n \in 1..L
    BY <2>2
  <2> DEFINE P(n, m) == /\ more[n] = more[m] + Len(Encoded(u[n]))
                        /\ \A j \in 1..Len(Encoded(u[n])) : v[more[m] + j] = Encoded(u[n])[j]
  <2>14. ASSUME NEW n \in 1..L PROVE P(n, n - 1)
    <3> DEFINE w == Encoded(cps[n])
    <3>1. n \in 0..L /\ n - 1 \in 0..L
      BY <2>2
    <3>2. more[n] = ends[n] /\ more[n - 1] = ends[n - 1] /\ Encoded(u[n]) = w /\ Len(w) \in Nat
      BY <2>5, <2>6, <2>10, <3>1
    <3>3. ends[n] = ends[n - 1] + Len(w) /\ \A j \in 1..Len(w) : s[ends[n - 1] + j] = w[j]
      BY <2>9
    <3>4. ends[n] \in Nat /\ ends[n - 1] \in Nat /\ ends[n] <= Len(s)
      <4>3. ends[n] <= Len(s)
        BY <2>1, <2>2, <2>9, <3>1, EndsGrow DEF L
      <4>4. ends[n] \in Nat /\ ends[n - 1] \in Nat
        BY <2>9, <3>1
      <4> QED
        BY <4>3, <4>4
    <3>5. \A j \in 1..Len(w) : v[ends[n - 1] + j] = s[ends[n - 1] + j]
      <4> SUFFICES ASSUME NEW j \in 1..Len(w) PROVE v[ends[n - 1] + j] = s[ends[n - 1] + j]
        OBVIOUS
      <4>1. ends[n - 1] + j \in 1..Len(s) + Len(e) /\ ends[n - 1] + j <= Len(s)
        BY <2>4, <2>8, <3>2, <3>3, <3>4
      <4> QED
        BY <2>7, <4>1 DEF v
    <3> QED
      BY <3>2, <3>3, <3>5
  <2>15. P(L + 1, L)
    <3>1. L + 1 - 1 = L /\ L \in 0..L
      BY <2>2
    <3>2. more[L] = Len(s)
      BY <2>9, <2>10, <3>1
    <3>3. \A j \in 1..Len(e) : v[Len(s) + j] = e[j]
      <4> SUFFICES ASSUME NEW j \in 1..Len(e) PROVE v[Len(s) + j] = e[j]
        OBVIOUS
      <4>1. Len(s) + j \in 1..Len(s) + Len(e) /\ ~(Len(s) + j <= Len(s)) /\ Len(s) + j - Len(s) = j
        BY <2>4, <2>8
      <4> QED
        BY <2>7, <4>1 DEF v
    <3> QED
      BY <2>6, <2>11, <3>2, <3>3
  <2>16. more[0] = 0 /\ more[L + 1] = Len(v)
    <3>1. 0 \in 0..L
      BY <2>2
    <3> QED
      BY <2>7, <2>9, <2>10, <2>11, <3>1 DEF v
  <2>17. Encodes(u, v, more)
    <3>1. \A n \in 1..L + 1 : P(n, n - 1)
      <4> HIDE DEF P
      <4>1. P(L + 1, L + 1 - 1)
        <5>1. L + 1 - 1 = L
          BY <2>2
        <5> QED
          BY <2>15, <5>1
      <4> DEFINE Q == {n \in 1..L + 1 : P(n, n - 1)}
      <4>2. L + 1 \in Q
        BY <2>2, <4>1
      <4>3. \A n \in 1..L : n \in Q
        BY <2>2, <2>14
      <4> HIDE DEF Q
      <4>4. \A n \in 1..L + 1 : n \in Q
        BY <2>13, <4>2, <4>3
      <4> QED
        BY <4>4 DEF Q
    <3>2. v \in Seq(Nat)
      BY <2>7 DEF v
    <3> QED
      BY <2>2, <2>12, <2>16, <3>1, <3>2 DEF Encodes
  <2> QED
    BY <2>2, <2>3, <2>17 DEF u, v
<1> HIDE DEF X
<1>3. Seq(CodePoints) \subseteq X
  BY <1>1, <1>2, InductionOverSequences
<1> QED
  BY <1>3 DEF X

\* Every byte is one of a character's, and where a character begins can be seen from it.
LEMMA BytesBelong ==
    ASSUME NEW cps \in Seq(CodePoints), NEW s, NEW ends, Encodes(cps, s, ends), NEW b \in 1..Len(s)
    PROVE  /\ \E n \in 1..Len(cps) : \E j \in 1..Len(Encoded(cps[n])) : b = ends[n - 1] + j
           /\ ~Follows(s[b]) => \E n \in 1..Len(cps) : b = ends[n - 1] + 1
<1> DEFINE L == Len(cps)
           N == {n \in 0..L : b <= ends[n]}
<1>1. L \in Nat /\ Len(s) \in Nat
  BY LenProperties DEF Encodes
<1>2. ends \in [0..L -> Nat] /\ ends[0] = 0 /\ ends[L] = Len(s)
  BY DEF Encodes
<1>3. N \in SUBSET Nat /\ L \in N
  BY <1>1, <1>2
<1>4. PICK n \in N : \A m \in N : n <= m
  <2> HIDE DEF N
  <2> QED
    BY <1>3, LeastElement
<1>5. n # 0
  BY <1>2
<1>6. n \in 1..L /\ n - 1 \in 0..L /\ n - 1 \notin N
  BY <1>1, <1>4, <1>5
<1>7. ends[n - 1] < b /\ b <= ends[n] /\ ends[n - 1] \in Nat /\ ends[n] = ends[n - 1] + Len(Encoded(cps[n]))
  <2>1. ends[n] = ends[n - 1] + Len(Encoded(cps[n]))
    BY <1>6 DEF Encodes
  <2>2. ends[n - 1] \in Nat
    BY <1>2, <1>6
  <2>3. ends[n - 1] < b
    BY <1>6, <2>2
  <2> QED
    BY <1>4, <2>1, <2>2, <2>3
<1> DEFINE e == Encoded(cps[n])
           j == b - ends[n - 1]
<1>8. cps[n] \in CodePoints /\ Len(e) \in 1..4
  BY <1>6, EndsGrow
<1>9. j \in 1..Len(e) /\ b = ends[n - 1] + j
  BY <1>7, <1>8
<1>10. s[b] = e[j]
  BY <1>6, <1>9 DEF Encodes
<1>11. j # 1 => Follows(e[j])
  <2>1. j # 1 => j \in 2..Len(e)
    BY <1>8, <1>9
  <2> QED
    BY <1>8, <2>1, EncodedIs
<1> HIDE DEF e, j, L
<1>12. ~Follows(s[b]) => b = ends[n - 1] + 1
  BY <1>9, <1>10, <1>11
<1> QED
  BY <1>6, <1>9, <1>12 DEF L, e

\* The character somewhere is the one whose bytes are there.
LEMMA SameCharacters ==
    ASSUME NEW cps \in Seq(CodePoints), NEW s, NEW ends, Encodes(cps, s, ends), NEW n \in 1..Len(cps),
           NEW d \in CodePoints, \A j \in 1..Len(Encoded(d)) : s[ends[n - 1] + j] = Encoded(d)[j]
    PROVE  cps[n] = d
<1> DEFINE i == ends[n - 1] + 1
<1>1. n - 1 \in 0..Len(cps) /\ cps[n] \in CodePoints /\ Len(Encoded(cps[n])) \in 1..4
  BY EndsGrow
<1>2. ends[n - 1] \in Nat
  BY <1>1 DEF Encodes
<1>3. i \in Int /\ \A j \in Nat : i + j - 1 = ends[n - 1] + j
  BY <1>2
<1>4. \A j \in 1..Len(Encoded(cps[n])) : s[ends[n - 1] + j] = Encoded(cps[n])[j]
  BY DEF Encodes
<1>5. Len(Encoded(d)) \in 1..4
  BY EncodedIs
<1> HIDE DEF i
<1>6. \A j \in 1..Len(Encoded(cps[n])) : s[i + j - 1] = Encoded(cps[n])[j]
  BY <1>1, <1>3, <1>4
<1>7. \A j \in 1..Len(Encoded(d)) : s[i + j - 1] = Encoded(d)[j]
  BY <1>3, <1>5
<1>8. Decoded(s, i) = cps[n]
  BY <1>1, <1>3, <1>6, DecodedIs
<1>9. Decoded(s, i) = d
  BY <1>3, <1>7, DecodedIs
<1> QED
  BY <1>8, <1>9

-----------------------------------------------------------------------------
\* Loops over a string that go on further to the right.

LEMMA LeadsOn == \A b : Leads(b).len \in 1..4
<1> SUFFICES ASSUME NEW b PROVE Leads(b).len \in 1..4
  OBVIOUS
<1>1. CASE b < 128
  BY <1>1 DEF Leads
<1>2. CASE ~(b < 128) /\ b \div 32 = 6
  BY <1>2 DEF Leads
<1>3. CASE ~(b < 128) /\ b \div 32 # 6 /\ b \div 16 = 14
  BY <1>3 DEF Leads
<1>4. CASE ~(b < 128) /\ b \div 32 # 6 /\ b \div 16 # 14
  BY <1>4 DEF Leads
<1> QED
  BY <1>1, <1>2, <1>3, <1>4

\* What the loop over the characters of a string does at each place.
LEMMA ToCodepointsIs ==
    ASSUME NEW s, Len(s) \in Nat
    PROVE  \E from : /\ ToCodepoints(s) = from[1]
                     /\ \A i \in 1..Len(s) + 4 :
                            from[i] = IF i > Len(s) THEN <<>> ELSE <<Decoded(s, i)>> \o from[i + Leads(s[i]).len]
<1> DEFINE N == Len(s) + 4
           Solves(f) == f = [i \in 1..N |->
                IF i > Len(s) THEN <<>> ELSE <<Decoded(s, i)>> \o f[i + Leads(s[i]).len]]
           from == CHOOSE f : Solves(f)
           stop == {i \in 1..N : i > Len(s)}
           last == [i \in 1..N |-> <<>>]
           head == [i \in 1..N |-> <<Decoded(s, i)>>]
           next == [i \in 1..N |-> i + Leads(s[i]).len]
<1>1. ToCodepoints(s) = from[1]
  BY DEF ToCodepoints
<1>2. \A i \in 1..N : i \notin stop => next[i] \in i + 1..N
  <2> SUFFICES ASSUME NEW i \in 1..N, i \notin stop PROVE next[i] \in i + 1..N
    OBVIOUS
  <2> DEFINE len == Leads(s[i]).len
  <2>1. len \in 1..4 /\ next[i] = i + len
    BY LeadsOn
  <2> HIDE DEF len, next
  <2> QED
    BY <2>1
<1>3. N \in Nat
  OBVIOUS
<1>4. PICK f : GoesOn(f, N, stop, last, head, next)
  <2> HIDE DEF stop, last, head, next
  <2> QED
    BY <1>2, <1>3, LoopGoesOn
<1>5. Solves(f)
  <2>1. \A i \in 1..N : (IF i \in stop THEN last[i] ELSE Cat(head[i], f[next[i]])) =
            (IF i > Len(s) THEN <<>> ELSE <<Decoded(s, i)>> \o f[i + Leads(s[i]).len])
    BY DEF Cat
  <2> HIDE DEF stop, last, head, next
  <2> QED
    BY <1>4, <2>1 DEF GoesOn
<1>6. Solves(from)
  <2> HIDE DEF Solves
  <2> QED
    BY <1>5
<1> HIDE DEF from
<1>7. \A i \in 1..N : from[i] = IF i > Len(s) THEN <<>> ELSE <<Decoded(s, i)>> \o from[i + Leads(s[i]).len]
  BY <1>6
<1> QED
  BY <1>1, <1>7

\* The conversions invert each other.
LEMMA DecodesBack ==
    ASSUME NEW cps \in Seq(CodePoints), NEW s, NEW ends, Encodes(cps, s, ends)
    PROVE  ToCodepoints(s) = cps
<1> DEFINE L == Len(cps)
<1>1. L \in Nat /\ Len(s) \in Nat
  BY LenProperties DEF Encodes
<1>2. PICK from : /\ ToCodepoints(s) = from[1]
                  /\ \A i \in 1..Len(s) + 4 :
                        from[i] = IF i > Len(s) THEN <<>> ELSE <<Decoded(s, i)>> \o from[i + Leads(s[i]).len]
  BY <1>1, ToCodepointsIs
<1>3. /\ ends \in [0..L -> Nat] /\ ends[0] = 0 /\ ends[L] = Len(s)
      /\ \A n \in 1..L : ends[n] = ends[n - 1] + Len(Encoded(cps[n]))
  BY DEF Encodes
<1> DEFINE X == {i \in 1..L + 1 : from[ends[i - 1] + 1] = SubSeq(cps, i, L)}
<1>4. ASSUME NEW i \in 1..L + 1, \A j \in i + 1..L + 1 : j \in X
      PROVE  i \in X
  <2>1. CASE i = L + 1
    <3>1. ends[i - 1] + 1 = Len(s) + 1 /\ Len(s) + 1 \in 1..Len(s) + 4 /\ Len(s) + 1 > Len(s)
      BY <1>1, <1>3, <2>1
    <3>2. from[Len(s) + 1] = <<>>
      BY <1>2, <3>1
    <3>3. SubSeq(cps, i, L) = <<>>
      BY <1>1, <2>1, SubSeqEmpty
    <3> QED
      BY <3>1, <3>2, <3>3
  <2>2. CASE i # L + 1
    <3> DEFINE b == ends[i - 1] + 1
               e == Encoded(cps[i])
    <3>1. i \in 1..L /\ i - 1 \in 0..L /\ i \in 0..L /\ i + 1 \in i + 1..L + 1 /\ i + 1 - 1 = i
      BY <1>1, <2>2
    <3>2. cps[i] \in CodePoints /\ Len(e) \in 1..4
      BY <3>1, EndsGrow
    <3>3. ends[i - 1] \in Nat /\ ends[i] \in 0..Len(s)
      BY <1>3, <3>1, EndsGrow
    <3>4. ends[i] = ends[i - 1] + Len(e)
      BY <1>3, <3>1
    <3>5. \A j \in 1..Len(e) : s[ends[i - 1] + j] = e[j]
      BY <3>1 DEF Encodes
    <3>6. \A j \in 1..Len(e) : b + j - 1 = ends[i - 1] + j
      <4> DEFINE before == ends[i - 1]
                 w == Len(e)
      <4>1. before \in Nat /\ w \in 1..4 /\ b = before + 1
        BY <3>2, <3>3
      <4> HIDE DEF before, w, b
      <4>2. \A j \in 1..w : b + j - 1 = before + j
        BY <4>1
      <4> QED
        BY <4>2 DEF before, w
    <3>7. \A j \in 1..Len(e) : s[b + j - 1] = e[j]
      BY <3>5, <3>6
    <3>8. b \in Int
      BY <3>3
    <3>9. s[b] = e[1]
      BY <3>2, <3>5
    <3>10. Leads(e[1]).len = Len(e)
      BY <3>2, EncodedIs
    <3>11. b \in 1..Len(s) + 4 /\ ~(b > Len(s)) /\ b + Len(e) = ends[i] + 1
      <4> DEFINE w == Len(e)
             before == ends[i - 1]
             after == ends[i]
             total == Len(s)
      <4>1. w \in 1..4 /\ after = before + w
        BY <3>2, <3>4
      <4>2. before \in Nat /\ total \in Nat /\ after \in 0..total
        BY <1>1, <3>3
      <4>3. b = before + 1
        OBVIOUS
      <4> HIDE DEF w, e, b, before, after, total
      <4>4. b \in 1..total + 4 /\ ~(b > total) /\ b + w = after + 1
        BY <4>1, <4>2, <4>3
      <4> QED
        BY <4>4 DEF w, after, total
    <3> HIDE DEF b
    <3>12. Decoded(s, b) = cps[i]
      BY <3>2, <3>7, <3>8, DecodedIs
    <3>13. from[b] = <<Decoded(s, b)>> \o from[b + Leads(s[b]).len]
      BY <1>2, <3>11
    <3>18. b + Leads(s[b]).len = ends[i] + 1
      BY <3>9, <3>10, <3>11
    <3>14. from[b] = <<cps[i]>> \o from[ends[i] + 1]
      BY <3>12, <3>13, <3>18
    <3>15. i + 1 \in X
      BY <1>4, <3>1
    <3>16. from[ends[i] + 1] = SubSeq(cps, i + 1, L)
      BY <3>1, <3>15
    <3>17. SubSeq(cps, i, L) = <<cps[i]>> \o SubSeq(cps, i + 1, L)
      BY <1>1, <3>1, SubSeqRecursiveFirst
    <3> QED
      BY <3>14, <3>16, <3>17 DEF b
  <2> QED
    BY <2>1, <2>2
<1>5. L + 1 \in Nat /\ 1 \in 1..L + 1 /\ 1 - 1 = 0
  BY <1>1
<1>6. 1 \in X
  <2> HIDE DEF X
  <2>1. 1..L + 1 \subseteq X
    BY <1>4, <1>5, InductionFromTheRight
  <2> QED
    BY <1>5, <2>1
<1>7. from[1] = SubSeq(cps, 1, L)
  BY <1>3, <1>5, <1>6
<1> QED
  BY <1>2, <1>7, SubSeqFull

-----------------------------------------------------------------------------
\* Where one sequence is in another.
Occurs(s, t, p) ==
    /\ p \in Int /\ 1 <= p /\ p + Len(t) <= Len(s) + 1
    /\ \A j \in 1..Len(t) : s[p + j - 1] = t[j]

LEMMA PartOccurs ==
    ASSUME NEW C, NEW s \in Seq(C), NEW t \in Seq(C), NEW p \in Int, 1 <= p, p + Len(t) <= Len(s) + 1
    PROVE  SubSeq(s, p, p + Len(t) - 1) = t <=> Occurs(s, t, p)
<1> DEFINE M == Len(t)
           n == p + M - 1
<1>1. M \in Nat /\ Len(s) \in Nat
  BY LenProperties
<1>2. n \in Int /\ n <= Len(s) /\ n - p + 1 = M /\ (p <= n <=> M # 0)
  BY <1>1
<1> HIDE DEF n
<1>3. /\ SubSeq(s, p, n) \in Seq(C)
      /\ Len(SubSeq(s, p, n)) = IF p <= n THEN n - p + 1 ELSE 0
      /\ \A i \in 1..n - p + 1 : SubSeq(s, p, n)[i] = s[p + i - 1]
  BY <1>2, Part
<1>4. Len(SubSeq(s, p, n)) = M
  BY <1>1, <1>2, <1>3
<1>5. \A i \in 1..M : SubSeq(s, p, n)[i] = s[p + i - 1]
  BY <1>2, <1>3
<1>6. SubSeq(s, p, n) = t => \A i \in 1..M : s[p + i - 1] = t[i]
  BY <1>5
<1>7. (\A i \in 1..M : s[p + i - 1] = t[i]) => SubSeq(s, p, n) = t
  <2> SUFFICES ASSUME \A i \in 1..M : s[p + i - 1] = t[i] PROVE SubSeq(s, p, n) = t
    OBVIOUS
  <2>1. \A i \in 1..Len(SubSeq(s, p, n)) : SubSeq(s, p, n)[i] = t[i]
    BY <1>4, <1>5
  <2> QED
    BY <1>3, <1>4, <2>1, SeqEqual
<1> QED
  BY <1>6, <1>7 DEF Occurs, n

\* find returns the first of them.
LEMMA FindIs ==
    ASSUME NEW C, NEW s \in Seq(C), NEW t \in Seq(C), NEW from \in Nat, from >= 1
    PROVE  /\ Find(s, t, from) \in Nat
           /\ Find(s, t, from) = 0 => \A p : p >= from => ~Occurs(s, t, p)
           /\ Find(s, t, from) # 0 => /\ Find(s, t, from) >= from
                                      /\ Occurs(s, t, Find(s, t, from))
                                      /\ \A p : p >= from /\ p < Find(s, t, from) => ~Occurs(s, t, p)
<1> DEFINE M == Len(t)
           top == Len(s) - M + 1
           hits == {p \in from..top : SubSeq(s, p, p + M - 1) = t}
<1>1. M \in Nat /\ Len(s) \in Nat /\ top \in Int
  BY LenProperties
<1>2. Find(s, t, from) = IF hits = {} THEN 0 ELSE Min(hits)
  BY DEF Find
<1>3. \A p \in from..top : p \in Int /\ 1 <= p /\ p + M <= Len(s) + 1
  BY <1>1
<1>4. \A p \in from..top : SubSeq(s, p, p + M - 1) = t <=> Occurs(s, t, p)
  BY <1>3, PartOccurs
<1>5. \A p : p >= from /\ Occurs(s, t, p) => p \in from..top
  BY <1>1 DEF Occurs
<1>6. \A p : p >= from => (p \in hits <=> Occurs(s, t, p))
  BY <1>4, <1>5
<1>7. \A p \in hits : p >= from /\ p \in Nat
  BY <1>1
<1> HIDE DEF hits
<1>8. CASE hits = {}
  BY <1>2, <1>6, <1>8
<1>9. CASE hits # {}
  <2>1. hits \in SUBSET Nat /\ hits \in SUBSET Int
    BY <1>7
  <2>2. PICK a \in hits : \A x \in hits : a <= x
    BY <1>9, <2>1, LeastElement
  <2>3. Min(hits) = a
    BY <2>1, <2>2, LeastOf
  <2>4. Find(s, t, from) = a
    BY <1>2, <1>9, <2>3
  <2>5. a \in Nat /\ a >= from /\ a # 0
    BY <1>7, <2>2
  <2>6. Occurs(s, t, a)
    BY <1>6, <2>2, <2>5
  <2>7. \A p : p >= from /\ p < a => ~Occurs(s, t, p)
    <3> SUFFICES ASSUME NEW p, p >= from, p < a, Occurs(s, t, p) PROVE FALSE
      OBVIOUS
    <3>1. p \in hits
      BY <1>6
    <3>2. a <= p /\ p \in Nat
      BY <1>7, <2>2, <3>1
    <3> QED
      BY <2>5, <3>2
  <2> QED
    BY <2>4, <2>5, <2>6, <2>7
<1> QED
  BY <1>8, <1>9

-----------------------------------------------------------------------------
\* Where the characters are, the bytes are.
LEMMA CharactersAligned ==
    ASSUME NEW cps \in Seq(CodePoints), NEW s, NEW ends, Encodes(cps, s, ends),
           NEW ds \in Seq(CodePoints), NEW t, NEW tends, Encodes(ds, t, tends),
           NEW i, Occurs(cps, ds, i)
    PROVE  /\ \A m \in 0..Len(ds) : ends[i - 1] + tends[m] = ends[i - 1 + m]
           /\ Occurs(s, t, ends[i - 1] + 1)
<1> DEFINE L == Len(cps)
           M == Len(ds)
           a == ends[i - 1]
<1>1. L \in Nat /\ M \in Nat /\ Len(s) \in Nat /\ Len(t) \in Nat
  BY LenProperties DEF Encodes
<1>2. i \in Int /\ 1 <= i /\ i + M <= L + 1 /\ \A m \in 1..M : cps[i + m - 1] = ds[m]
  BY DEF Occurs
<1>3. i - 1 \in 0..L /\ \A m \in 0..M : i - 1 + m \in 0..L
  BY <1>1, <1>2
<1>4. /\ ends \in [0..L -> Nat] /\ tends \in [0..M -> Nat] /\ tends[0] = 0 /\ tends[M] = Len(t)
  BY DEF Encodes
<1>5. a \in Nat
  BY <1>3, <1>4
<1> DEFINE X == {m \in Nat : m <= M => a + tends[m] = ends[i - 1 + m]}
<1>6. 0 \in X
  BY <1>3, <1>4, <1>5
<1>7. ASSUME NEW m \in Nat, m \in X PROVE m + 1 \in X
  <2> SUFFICES ASSUME m + 1 <= M PROVE a + tends[m + 1] = ends[i - 1 + (m + 1)]
    OBVIOUS
  <2> DEFINE n == i - 1 + m + 1
             w == Len(Encoded(ds[m + 1]))
  <2>1. /\ m + 1 \in 1..M /\ n \in 1..L /\ n - 1 = i - 1 + m /\ i + (m + 1) - 1 = n
        /\ i - 1 + (m + 1) = n /\ m + 1 - 1 = m /\ m <= M /\ m \in 0..M
    BY <1>1, <1>2
  <2>2. cps[n] = ds[m + 1]
    BY <1>2, <2>1
  <2> HIDE DEF n
  <2>3. ends[n] = ends[n - 1] + Len(Encoded(cps[n]))
    BY <2>1 DEF Encodes
  <2>4. tends[m + 1] = tends[m + 1 - 1] + w
    BY <2>1 DEF Encodes
  <2>5. w \in 1..4
    BY <2>1, EndsGrow
  <2>6. ends[n] = ends[n - 1] + w
    BY <2>2, <2>3
  <2> HIDE DEF w
  <2>7. a + tends[m] = ends[n - 1]
    BY <1>7, <2>1
  <2>8. tends[m] \in Nat
    BY <1>4, <2>1
  <2> HIDE DEF a
  <2>9. tends[m + 1] = tends[m] + w
    BY <2>1, <2>4
  <2>10. a + tends[m + 1] = ends[n]
    BY <1>5, <2>5, <2>6, <2>7, <2>8, <2>9
  <2> QED
    BY <2>1, <2>10
<1> HIDE DEF X
<1>8. Nat \subseteq X
  BY <1>6, <1>7, InductionOverSet
<1>9. \A m \in 0..M : a + tends[m] = ends[i - 1 + m]
  BY <1>1, <1>8 DEF X
<1>10. a + Len(t) \in 0..Len(s)
  <2>1. M \in 0..M /\ i - 1 + M \in 0..L
    BY <1>1, <1>3
  <2>2. a + tends[M] = ends[i - 1 + M]
    BY <1>9, <2>1
  <2> QED
    BY <1>4, <2>1, <2>2, EndsGrow
<1>11. ASSUME NEW b \in 1..Len(t) PROVE s[a + 1 + b - 1] = t[b]
  <2>1. PICK m \in 1..M : \E j \in 1..Len(Encoded(ds[m])) : b = tends[m - 1] + j
    BY BytesBelong
  <2>2. PICK j \in 1..Len(Encoded(ds[m])) : b = tends[m - 1] + j
    BY <2>1
  <2>3. t[b] = Encoded(ds[m])[j]
    BY <2>2 DEF Encodes
  <2> DEFINE n == i - 1 + m
  <2>4. /\ n \in 1..L /\ n - 1 = i - 1 + (m - 1) /\ i + m - 1 = n /\ m - 1 \in 0..M
    BY <1>1, <1>2
  <2>5. cps[n] = ds[m]
    BY <1>2, <2>4
  <2> HIDE DEF n
  <2>6. Len(Encoded(cps[n])) = Len(Encoded(ds[m])) /\ Encoded(cps[n]) = Encoded(ds[m])
    BY <2>5
  <2>7. s[ends[n - 1] + j] = Encoded(cps[n])[j]
    BY <2>4, <2>6 DEF Encodes
  <2>8. a + tends[m - 1] = ends[n - 1]
    BY <1>9, <2>4
  <2>9. tends[m - 1] \in Nat
    BY <1>4, <2>4
  <2> HIDE DEF a
  <2>10. j \in Int
    BY EndsGrow
  <2>11. a + 1 + b - 1 = ends[n - 1] + j
    <3> DEFINE x == tends[m - 1]
               y == ends[n - 1]
    <3>1. a \in Nat /\ x \in Nat /\ j \in Int /\ b = x + j /\ a + x = y
      BY <1>5, <2>2, <2>8, <2>9, <2>10
    <3> HIDE DEF x, y
    <3>2. a + 1 + b - 1 = y + j
      BY <3>1
    <3> QED
      BY <3>2 DEF y
  <2> QED
    BY <2>3, <2>6, <2>7, <2>11
<1> HIDE DEF a
<1>12. Occurs(s, t, a + 1)
  BY <1>1, <1>5, <1>10, <1>11 DEF Occurs
<1> QED
  BY <1>9, <1>12 DEF a

\* And where the bytes are, the characters are: no character begins inside another.
LEMMA BytesAligned ==
    ASSUME NEW cps \in Seq(CodePoints), NEW s, NEW ends, Encodes(cps, s, ends),
           NEW ds \in Seq(CodePoints), NEW t, NEW tends, Encodes(ds, t, tends), ds # <<>>,
           NEW p, Occurs(s, t, p)
    PROVE  \E i \in 1..Len(cps) : p = ends[i - 1] + 1 /\ Occurs(cps, ds, i)
<1> DEFINE L == Len(cps)
           M == Len(ds)
<1>1. L \in Nat /\ M \in Nat /\ Len(s) \in Nat /\ Len(t) \in Nat /\ M # 0
  BY LenProperties, EmptySeq DEF Encodes
<1>2. p \in Int /\ 1 <= p /\ p + Len(t) <= Len(s) + 1 /\ \A b \in 1..Len(t) : s[p + b - 1] = t[b]
  BY DEF Occurs
<1>3. /\ ends \in [0..L -> Nat] /\ tends \in [0..M -> Nat] /\ tends[0] = 0 /\ tends[M] = Len(t)
      /\ ends[L] = Len(s)
  BY DEF Encodes
<1>4. ASSUME NEW m \in 0..M - 1
      PROVE  /\ tends[m] \in Nat /\ tends[m + 1] \in 0..Len(t) /\ ds[m + 1] \in CodePoints
             /\ Len(Encoded(ds[m + 1])) \in 1..4
             /\ tends[m + 1] = tends[m] + Len(Encoded(ds[m + 1]))
             /\ \A j \in 1..Len(Encoded(ds[m + 1])) : t[tends[m] + j] = Encoded(ds[m + 1])[j]
  <2>1. m + 1 \in 1..M /\ m + 1 - 1 = m /\ m \in 0..M /\ m + 1 \in 0..M
    BY <1>1
  <2>2. tends[m] \in Nat
    BY <1>3, <2>1
  <2>3. tends[m + 1] \in 0..Len(t) /\ ds[m + 1] \in CodePoints /\ Len(Encoded(ds[m + 1])) \in 1..4
    BY <2>1, EndsGrow
  <2>4. /\ tends[m + 1] = tends[m + 1 - 1] + Len(Encoded(ds[m + 1]))
        /\ \A j \in 1..Len(Encoded(ds[m + 1])) : t[tends[m + 1 - 1] + j] = Encoded(ds[m + 1])[j]
    BY <2>1 DEF Encodes
  <2> QED
    BY <2>1, <2>2, <2>3, <2>4
<1>5. PICK i \in 1..L : p = ends[i - 1] + 1
  <2> DEFINE e == Encoded(ds[1])
  <2>1. 0 \in 0..M - 1 /\ 0 + 1 = 1
    BY <1>1
  <2>2. Len(e) \in 1..4 /\ ds[1] \in CodePoints /\ t[0 + 1] = e[1] /\ tends[1] \in 0..Len(t) /\ tends[1] = Len(e)
    <3>1. /\ tends[0] = 0 /\ tends[0 + 1] \in 0..Len(t) /\ ds[0 + 1] \in CodePoints
          /\ Len(Encoded(ds[0 + 1])) \in 1..4 /\ tends[0 + 1] = tends[0] + Len(Encoded(ds[0 + 1]))
          /\ \A j \in 1..Len(Encoded(ds[0 + 1])) : t[tends[0] + j] = Encoded(ds[0 + 1])[j]
      BY <1>3, <1>4, <2>1
    <3>2. /\ tends[1] \in 0..Len(t) /\ ds[1] \in CodePoints /\ Len(e) \in 1..4
          /\ tends[1] = 0 + Len(e) /\ \A j \in 1..Len(e) : t[0 + j] = e[j]
      BY <2>1, <3>1
    <3> DEFINE w == Len(e)
    <3>3. 1 \in 1..w /\ 0 + w = w
      <4>1. w \in 1..4
        BY <3>2
      <4> HIDE DEF w
      <4> QED
        BY <4>1
    <3> QED
      BY <3>2, <3>3
  <2>3. ~Follows(e[1])
    BY <2>2, EncodedIs
  <2>4. 1 \in 1..Len(t) /\ p + 1 - 1 = p /\ p \in 1..Len(s)
    BY <1>1, <1>2, <2>2
  <2>5. s[p] = t[1]
    BY <1>2, <2>4
  <2>6. ~Follows(s[p])
    BY <2>2, <2>3, <2>5
  <2> QED
    BY <2>4, <2>6, BytesBelong
<1> DEFINE X == {m \in Nat : m <= M =>
                    /\ i - 1 + m <= L
                    /\ p - 1 + tends[m] = ends[i - 1 + m]
                    /\ \A k \in 1..m : cps[i + k - 1] = ds[k]}
<1>6. 0 \in X
  <2>1. i - 1 + 0 = i - 1 /\ i - 1 \in 0..L
    BY <1>1
  <2>2. p - 1 + tends[0] = ends[i - 1]
    <3> DEFINE x == ends[i - 1]
    <3>1. x \in Nat /\ tends[0] = 0 /\ p = x + 1
      BY <1>3, <1>5, <2>1
    <3> HIDE DEF x
    <3>2. p - 1 + tends[0] = x
      BY <3>1
    <3> QED
      BY <3>2 DEF x
  <2>3. i - 1 + 0 <= L /\ p - 1 + tends[0] = ends[i - 1 + 0]
    BY <1>1, <2>1, <2>2
  <2>4. \A k \in 1..0 : cps[i + k - 1] = ds[k]
    OBVIOUS
  <2> QED
    BY <2>3, <2>4
<1>7. ASSUME NEW m \in Nat, m \in X PROVE m + 1 \in X
  <2> SUFFICES ASSUME m + 1 <= M
               PROVE  /\ i - 1 + (m + 1) <= L
                      /\ p - 1 + tends[m + 1] = ends[i - 1 + (m + 1)]
                      /\ \A k \in 1..m + 1 : cps[i + k - 1] = ds[k]
    OBVIOUS
  <2> DEFINE n == i - 1 + m
             e == Encoded(ds[m + 1])
             w == Len(e)
  <2>1. m \in 0..M - 1 /\ m <= M /\ n \in Nat /\ i - 1 + (m + 1) = n + 1 /\ i + (m + 1) - 1 = n + 1 /\ n + 1 - 1 = n
    BY <1>1
  <2>2. n <= L /\ p - 1 + tends[m] = ends[n] /\ \A k \in 1..m : cps[i + k - 1] = ds[k]
    BY <1>7, <2>1
  <2>3. /\ tends[m] \in Nat /\ tends[m + 1] \in 0..Len(t) /\ ds[m + 1] \in CodePoints
        /\ w \in 1..4 /\ tends[m + 1] = tends[m] + w
        /\ \A j \in 1..w : t[tends[m] + j] = e[j]
    BY <1>4, <2>1
  <2> HIDE DEF n, w
  <2>4. ends[n] \in Nat /\ ends[n] + w <= Len(s)
    <3> DEFINE x == ends[n]
               y == tends[m]
               z == tends[m + 1]
    <3>1. /\ p \in Int /\ 1 <= p /\ p + Len(t) <= Len(s) + 1 /\ Len(t) \in Nat /\ Len(s) \in Nat
          /\ y \in Nat /\ z \in 0..Len(t) /\ w \in 1..4 /\ z = y + w /\ p - 1 + y = x
      BY <1>1, <1>2, <2>2, <2>3
    <3> HIDE DEF x, y, z
    <3>2. x \in Nat /\ x + w <= Len(s)
      BY <3>1
    <3> QED
      BY <3>2 DEF x
  <2>5. n # L
    BY <1>1, <1>3, <2>3, <2>4
  <2>6. n + 1 \in 1..L
    BY <1>1, <2>1, <2>2, <2>5
  <2>7. \A j \in 1..w : s[ends[n] + j] = e[j]
    <3> SUFFICES ASSUME NEW j \in 1..w PROVE s[ends[n] + j] = e[j]
      OBVIOUS
    <3>1. tends[m] + j \in 1..Len(t) /\ p + (tends[m] + j) - 1 = ends[n] + j
      <4> DEFINE x == ends[n]
                 y == tends[m]
                 z == tends[m + 1]
      <4>1. /\ p \in Int /\ 1 <= p /\ Len(t) \in Nat
            /\ y \in Nat /\ z \in 0..Len(t) /\ w \in 1..4 /\ z = y + w /\ p - 1 + y = x /\ x \in Nat
        BY <1>1, <1>2, <2>2, <2>3, <2>4
      <4> HIDE DEF x, y, z
      <4>2. y + j \in 1..Len(t) /\ p + (y + j) - 1 = x + j
        BY <4>1
      <4> QED
        BY <4>2 DEF x, y
    <3>2. s[p + (tends[m] + j) - 1] = t[tends[m] + j]
      BY <1>2, <3>1
    <3> QED
      BY <2>3, <3>1, <3>2
  <2>8. cps[n + 1] = ds[m + 1]
    <3> DEFINE d == ds[m + 1]
               h == n + 1
    <3>1. \A j \in 1..Len(Encoded(d)) : s[ends[h - 1] + j] = Encoded(d)[j]
      BY <2>1, <2>7 DEF w
    <3>2. d \in CodePoints /\ h \in 1..Len(cps)
      BY <2>3, <2>6
    <3> HIDE DEF d, h
    <3>3. cps[h] = d
      BY <3>1, <3>2, SameCharacters
    <3> QED
      BY <3>3 DEF d, h
  <2>9. ends[n + 1] = ends[n] + w
    <3> DEFINE h == n + 1
    <3>1. h \in 1..Len(cps) /\ h - 1 = n /\ cps[h] = ds[m + 1]
      BY <2>1, <2>6, <2>8
    <3> HIDE DEF h
    <3>2. ends[h] = ends[h - 1] + Len(Encoded(cps[h]))
      BY <3>1 DEF Encodes
    <3>3. ends[h] = ends[n] + w
      BY <3>1, <3>2 DEF w
    <3> QED
      BY <3>3 DEF h
  <2>10. p - 1 + tends[m + 1] = ends[n + 1]
    <3> DEFINE x == ends[n]
               y == tends[m]
               z == tends[m + 1]
               u == ends[n + 1]
    <3>1. p \in Int /\ y \in Nat /\ w \in 1..4 /\ z = y + w /\ p - 1 + y = x /\ x \in Nat /\ u = x + w
      BY <1>2, <2>2, <2>3, <2>4, <2>9
    <3> HIDE DEF x, y, z, u
    <3>2. p - 1 + z = u
      BY <3>1
    <3> QED
      BY <3>2 DEF z, u
  <2>11. \A k \in 1..m + 1 : k \in 1..m \/ k = m + 1
    OBVIOUS
  <2>12. \A k \in 1..m + 1 : cps[i + k - 1] = ds[k]
    BY <2>1, <2>2, <2>8, <2>11
  <2> QED
    BY <2>1, <2>6, <2>10, <2>12
<1> HIDE DEF X
<1>8. M \in X
  BY <1>1, <1>6, <1>7, InductionOverSet
<1>9. i - 1 + M <= L /\ \A k \in 1..M : cps[i + k - 1] = ds[k]
  BY <1>1, <1>8 DEF X
<1>10. Occurs(cps, ds, i)
  BY <1>1, <1>9 DEF Occurs
<1> QED
  BY <1>5, <1>10

\* A part of a text is encoded by the part of the string between its ends.
LEMMA PartEncodes ==
    ASSUME NEW cps \in Seq(CodePoints), NEW s, NEW ends, Encodes(cps, s, ends),
           NEW a \in 1..Len(cps) + 1, NEW b \in a - 1..Len(cps)
    PROVE  \E more : Encodes(SubSeq(cps, a, b), SubSeq(s, ends[a - 1] + 1, ends[b]), more)
<1> DEFINE L == Len(cps)
           x == ends[a - 1]
           y == ends[b]
           part == SubSeq(cps, a, b)
           bytes == SubSeq(s, x + 1, y)
           N == b - a + 1
           more == [n \in 0..N |-> ends[a - 1 + n] - x]
<1>1. L \in Nat /\ Len(s) \in Nat /\ s \in Seq(Nat) /\ a \in Int /\ b \in Int
  BY LenProperties DEF Encodes
<1>2. a - 1 \in 0..L /\ b \in 0..L /\ N \in Nat /\ a - 1 + N = b /\ a >= 1 /\ b <= L
  BY <1>1
<1>3. x \in 0..Len(s) /\ y \in 0..Len(s) /\ x <= y
  <2>1. x \in 0..Len(s) /\ y \in 0..Len(s)
    BY <1>2, EndsGrow
  <2>2. a - 1 < b => x < y
    BY <1>2, EndsGrow
  <2>3. a - 1 = b => x = y
    OBVIOUS
  <2>4. a - 1 < b \/ a - 1 = b
    BY <1>1, <1>2
  <2> HIDE DEF x, y
  <2> QED
    BY <1>1, <2>1, <2>2, <2>3, <2>4
<1>4. /\ part \in Seq(CodePoints) /\ Len(part) = N
      /\ \A n \in 1..N : part[n] = cps[a + n - 1]
  <2>1. /\ part \in Seq(CodePoints) /\ Len(part) = (IF a <= b THEN b - a + 1 ELSE 0)
        /\ \A n \in 1..b - a + 1 : part[n] = cps[a + n - 1]
    BY <1>1, <1>2, Part
  <2>2. (IF a <= b THEN b - a + 1 ELSE 0) = N
    BY <1>1, <1>2
  <2> QED
    BY <2>1, <2>2
<1>5. /\ bytes \in Seq(Nat) /\ Len(bytes) = y - x
      /\ \A i \in 1..y - x : bytes[i] = s[x + i]
  <2>1. x + 1 \in Int /\ x + 1 >= 1 /\ y \in Int /\ y <= Len(s) /\ y - (x + 1) + 1 = y - x
    BY <1>1, <1>3
  <2>2. /\ bytes \in Seq(Nat) /\ Len(bytes) = (IF x + 1 <= y THEN y - (x + 1) + 1 ELSE 0)
        /\ \A i \in 1..y - (x + 1) + 1 : bytes[i] = s[x + 1 + i - 1]
    <3> DEFINE lo == x + 1
    <3> HIDE DEF lo, x, y
    <3>1. lo \in Int /\ lo >= 1 /\ y \in Int /\ y <= Len(s)
      BY <2>1 DEF lo
    <3>2. /\ SubSeq(s, lo, y) \in Seq(Nat)
          /\ Len(SubSeq(s, lo, y)) = (IF lo <= y THEN y - lo + 1 ELSE 0)
          /\ \A i \in 1..y - lo + 1 : SubSeq(s, lo, y)[i] = s[lo + i - 1]
      BY <1>1, <3>1, Part
    <3> QED
      BY <3>2 DEF lo
  <2> HIDE DEF x, y, bytes
  <2>3. (IF x + 1 <= y THEN y - (x + 1) + 1 ELSE 0) = y - x
    BY <1>1, <1>3
  <2>4. \A i \in 1..y - x : x + 1 + i - 1 = x + i
    BY <1>1, <1>3
  <2> QED
    BY <2>1, <2>2, <2>3, <2>4
<1>6. \A n \in 0..N : a - 1 + n \in 0..L /\ a - 1 <= a - 1 + n
  BY <1>1, <1>2
<1>7. \A n \in 0..N : /\ more[n] = ends[a - 1 + n] - x /\ ends[a - 1 + n] \in Nat
                      /\ ends[a - 1 + n] >= x
  <2> SUFFICES ASSUME NEW n \in 0..N
               PROVE  ends[a - 1 + n] \in Nat /\ ends[a - 1 + n] >= x
    OBVIOUS
  <2> DEFINE m == a - 1 + n
  <2>1. m \in 0..L /\ (m = a - 1 \/ a - 1 < m)
    BY <1>1, <1>6
  <2> HIDE DEF m
  <2>2. ends[m] \in 0..Len(s)
    BY <2>1, EndsGrow
  <2>3. a - 1 < m => x < ends[m]
    BY <1>2, <2>1, EndsGrow
  <2>4. ends[m] >= x
    <3> DEFINE z == ends[m]
    <3>1. (m = a - 1 => z = x) /\ (a - 1 < m => x < z)
      BY <2>3
    <3>2. z \in Int /\ x \in Int
      BY <1>3, <2>2
    <3> HIDE DEF x, z
    <3>3. z >= x
      BY <2>1, <3>1, <3>2
    <3> QED
      BY <3>3 DEF z
  <2> QED
    BY <2>2, <2>4 DEF m
<1>8. more \in [0..N -> Nat]
  <2>1. \A n \in 0..N : more[n] \in Nat
    <3> SUFFICES ASSUME NEW n \in 0..N PROVE more[n] \in Nat
      OBVIOUS
    <3> DEFINE z == ends[a - 1 + n]
    <3>1. z \in Nat /\ z >= x
      BY <1>7
    <3>2. more[n] = z - x
      BY <1>7
    <3>3. x \in Nat
      BY <1>3
    <3> HIDE DEF more, x, z
    <3> QED
      BY <3>1, <3>2, <3>3
  <2> QED
    BY <2>1
<1>9. more[0] = 0 /\ more[N] = y - x
  <2>1. 0 \in 0..N /\ N \in 0..N /\ a - 1 + 0 = a - 1 /\ a - 1 + N = b
    BY <1>1, <1>2
  <2>2. more[0] = ends[a - 1] - x /\ more[N] = ends[b] - x
    BY <1>7, <2>1
  <2> HIDE DEF more
  <2> QED
    BY <1>3, <2>2
<1>10. ASSUME NEW n \in 1..N
       PROVE  /\ more[n] = more[n - 1] + Len(Encoded(part[n]))
              /\ \A j \in 1..Len(Encoded(part[n])) : bytes[more[n - 1] + j] = Encoded(part[n])[j]
  <2> DEFINE m == a + n - 1
             e == Encoded(cps[m])
             w == Len(e)
             u == ends[m - 1]
             v == ends[m]
  <2>1. /\ m \in 1..L /\ a - 1 + n = m /\ a - 1 + (n - 1) = m - 1 /\ n - 1 \in 0..N /\ n \in 0..N
        /\ m \in 0..b /\ m \in 0..L
    BY <1>1, <1>2
  <2>2. part[n] = cps[m] /\ Encoded(part[n]) = e /\ Len(Encoded(part[n])) = w
    BY <1>4
  <2>3. more[n] = v - x /\ more[n - 1] = u - x /\ u \in Nat /\ v \in Nat /\ u >= x
    BY <1>7, <2>1
  <2> HIDE DEF m, more
  <2>4. v = u + w /\ \A j \in 1..w : s[u + j] = e[j]
    BY <2>1 DEF Encodes
  <2>5. w \in 1..4
    BY <2>1, EndsGrow
  <2>6. v <= y
    <3>1. m < b \/ m = b
      BY <1>1, <2>1
    <3>2. m < b => v < y
      BY <1>2, <2>1, EndsGrow
    <3>3. m = b => v = y
      OBVIOUS
    <3>4. v \in Int /\ y \in Int
      BY <1>3, <2>3
    <3> HIDE DEF v, y
    <3> QED
      BY <3>1, <3>2, <3>3, <3>4
  <2> HIDE DEF e, w, u, v, x, y, bytes, part
  <2>7. more[n] = more[n - 1] + w
    BY <1>3, <2>3, <2>4, <2>5
  <2>8. ASSUME NEW j \in 1..w PROVE bytes[more[n - 1] + j] = e[j]
    <3>1. u - x + j \in 1..y - x /\ x + (u - x + j) = u + j
      BY <1>3, <2>3, <2>4, <2>5, <2>6
    <3>2. bytes[u - x + j] = s[x + (u - x + j)]
      BY <1>5, <3>1
    <3> QED
      BY <2>3, <2>4, <3>1, <3>2
  <2> QED
    BY <2>2, <2>7, <2>8
<1> HIDE DEF more, part, bytes, x, y
<1>11. Encodes(part, bytes, more)
  BY <1>4, <1>5, <1>8, <1>9, <1>10 DEF Encodes
<1> QED
  BY <1>11 DEF part, bytes, x, y

\* The next place where a part begins is the same of characters and of bytes.
LEMMA FindAligned ==
    ASSUME NEW cps \in Seq(CodePoints), NEW s, NEW ends, Encodes(cps, s, ends),
           NEW ds \in Seq(CodePoints), NEW t, NEW tends, Encodes(ds, t, tends),
           NEW k \in 0..Len(cps), NEW q, q = Find(cps, ds, k + 1)
    PROVE  Find(s, t, ends[k] + 1) = IF q = 0 THEN 0 ELSE ends[q - 1] + 1
<1> DEFINE L == Len(cps)
           x == ends[k]
           p == Find(s, t, x + 1)
<1>1. L \in Nat /\ Len(s) \in Nat /\ Len(ds) \in Nat /\ s \in Seq(Nat) /\ t \in Seq(Nat) /\ Len(t) = tends[Len(ds)]
  BY LenProperties DEF Encodes
<1>2. x \in Nat /\ x <= Len(s) /\ \A n \in 0..L : ends[n] \in Nat
  <2>1. x \in 0..Len(s) /\ \A n \in 0..L : ends[n] \in 0..Len(s)
    BY EndsGrow
  <2> QED
    BY <1>1, <2>1
<1>3. /\ q \in Nat
      /\ q = 0 => \A i : i >= k + 1 => ~Occurs(cps, ds, i)
      /\ q # 0 => q >= k + 1 /\ Occurs(cps, ds, q) /\ \A i : i >= k + 1 /\ i < q => ~Occurs(cps, ds, i)
  <2>1. k + 1 \in Nat /\ k + 1 >= 1
    OBVIOUS
  <2> QED
    BY <2>1, FindIs
<1>4. /\ p \in Nat
      /\ p = 0 => \A b : b >= x + 1 => ~Occurs(s, t, b)
      /\ p # 0 => p >= x + 1 /\ Occurs(s, t, p) /\ \A b : b >= x + 1 /\ b < p => ~Occurs(s, t, b)
  <2> DEFINE lo == x + 1
  <2>1. lo \in Nat /\ lo >= 1
    BY <1>2
  <2> HIDE DEF lo
  <2>2. /\ Find(s, t, lo) \in Nat
        /\ Find(s, t, lo) = 0 => \A b : b >= lo => ~Occurs(s, t, b)
        /\ Find(s, t, lo) # 0 => /\ Find(s, t, lo) >= lo
                                 /\ Occurs(s, t, Find(s, t, lo))
                                 /\ \A b : b >= lo /\ b < Find(s, t, lo) => ~Occurs(s, t, b)
    BY <1>1, <2>1, FindIs
  <2> QED
    BY <2>2 DEF lo
<1> HIDE DEF p
<1>5. ds = <<>> => Occurs(cps, ds, k + 1) /\ Occurs(s, t, x + 1)
  <2> SUFFICES ASSUME ds = <<>> PROVE Occurs(cps, ds, k + 1) /\ Occurs(s, t, x + 1)
    OBVIOUS
  <2>1. Len(ds) = 0
    BY EmptySeq
  <2>2. Len(t) = 0
    BY <1>1, <2>1 DEF Encodes
  <2> HIDE DEF x
  <2> QED
    BY <1>1, <1>2, <2>1, <2>2 DEF Occurs
<1>6. ASSUME NEW m \in 0..L, NEW n \in 0..L, ends[m] < ends[n] PROVE m < n
  <2>1. ends[m] \in Nat /\ ends[n] \in Nat
    BY <1>2
  <2>2. n < m => ends[n] < ends[m]
    BY EndsGrow
  <2>3. n = m => ends[n] = ends[m]
    OBVIOUS
  <2>4. m < n \/ n < m \/ n = m
    BY <1>1
  <2> QED
    BY <1>6, <2>1, <2>2, <2>3, <2>4
<1>7. ASSUME NEW m \in 0..L, NEW n \in 0..L, m <= n PROVE ends[m] <= ends[n]
  <2>1. ends[m] \in Nat /\ ends[n] \in Nat
    BY <1>2
  <2>2. m < n => ends[m] < ends[n]
    BY EndsGrow
  <2>3. n = m => ends[n] = ends[m]
    OBVIOUS
  <2>4. m < n \/ n = m
    BY <1>1, <1>7
  <2> QED
    BY <2>1, <2>2, <2>3, <2>4
\* Where the bytes are found, the characters are too, if not before.
<1>8. ASSUME p # 0
      PROVE  \E i \in 1..L + 1 : /\ i - 1 \in 0..L /\ i >= k + 1
                                 /\ Occurs(cps, ds, i) /\ ends[i - 1] + 1 <= p
  <2>1. CASE ds = <<>>
    <3>1. k + 1 \in 1..L + 1 /\ k + 1 - 1 = k /\ k + 1 >= k + 1
      BY <1>1
    <3>2. Occurs(cps, ds, k + 1) /\ ends[k] + 1 <= p
      BY <1>2, <1>4, <1>5, <1>8, <2>1
    <3> QED
      BY <3>1, <3>2
  <2>2. CASE ds # <<>>
    <3>1. Occurs(s, t, p) /\ p >= x + 1
      BY <1>4, <1>8
    <3>2. PICK i \in 1..L : p = ends[i - 1] + 1 /\ Occurs(cps, ds, i)
      BY <2>2, <3>1, BytesAligned
    <3>3. i - 1 \in 0..L /\ i \in 1..L + 1
      BY <1>1
    <3>4. ends[i - 1] >= x /\ ends[i - 1] + 1 <= p
      <4> DEFINE z == ends[i - 1]
      <4>1. z \in Nat /\ p = z + 1
        BY <1>2, <3>2, <3>3
      <4> HIDE DEF z, x
      <4>2. z >= x /\ z + 1 <= p
        BY <1>2, <3>1, <4>1
      <4> QED
        BY <4>2 DEF z
    <3>5. ~(i - 1 < k)
      <4> SUFFICES ASSUME i - 1 < k PROVE FALSE
        OBVIOUS
      <4>1. ends[i - 1] < ends[k]
        BY <3>3, EndsGrow
      <4>2. ends[i - 1] \in Nat
        BY <1>2, <3>3
      <4> QED
        BY <1>2, <3>4, <4>1, <4>2
    <3>6. i >= k + 1
      BY <3>5
    <3> QED
      BY <3>2, <3>3, <3>4, <3>6
  <2> QED
    BY <2>1, <2>2
<1>9. CASE q = 0
  BY <1>3, <1>8, <1>9 DEF p
<1>10. CASE q # 0
  <2> DEFINE z == ends[q - 1]
  <2>1. q >= k + 1 /\ Occurs(cps, ds, q)
    BY <1>3, <1>10
  <2>2. q - 1 \in 0..L /\ k <= q - 1
    BY <1>1, <1>3, <2>1 DEF Occurs
  <2>3. Occurs(s, t, z + 1)
    BY <2>1, CharactersAligned
  <2>4. z \in Nat /\ x <= z
    BY <1>2, <1>7, <2>2
  <2>5. z + 1 >= x + 1
    <3> HIDE DEF z, x
    <3> QED
      BY <1>2, <2>4
  <2>6. p # 0 /\ ~(z + 1 < p)
    BY <1>4, <2>3, <2>5
  <2>7. PICK i \in 1..L + 1 : /\ i - 1 \in 0..L /\ i >= k + 1
                              /\ Occurs(cps, ds, i) /\ ends[i - 1] + 1 <= p
    BY <1>8, <2>6
  <2>8. ~(i < q)
    BY <1>3, <1>10, <2>7
  <2>9. q - 1 <= i - 1
    BY <1>3, <2>7, <2>8
  <2>10. z <= ends[i - 1] /\ ends[i - 1] \in Nat
    BY <1>2, <1>7, <2>2, <2>7, <2>9
  <2>11. p = z + 1
    <3> DEFINE y == ends[i - 1]
    <3>1. y \in Nat /\ z <= y /\ y + 1 <= p
      BY <2>7, <2>10
    <3> HIDE DEF y, z, x
    <3> QED
      BY <1>4, <2>4, <2>6, <3>1
  <2> QED
    BY <1>10, <2>11 DEF p
<1> QED
  BY <1>9, <1>10

\* strpos finds where the characters are.
LEMMA StrPosIs ==
    ASSUME NEW cps \in Seq(CodePoints), NEW ds \in Seq(CodePoints)
    PROVE  /\ ToCodepoints(FromCodepoints(cps)) = cps
           /\ StrPos(FromCodepoints(cps), FromCodepoints(ds)) = Find(cps, ds, 1)
<1> DEFINE L == Len(cps)
           s == FromCodepoints(cps)
           t == FromCodepoints(ds)
           q == Find(cps, ds, 1)
           p == Find(s, t, 1)
<1>1. PICK ends : Encodes(cps, s, ends)
  BY FromCodepointsEncodes
<1>2. PICK tends : Encodes(ds, t, tends)
  BY FromCodepointsEncodes
<1> HIDE DEF s, t
<1>3. L \in Nat /\ Len(ds) \in Nat /\ 0 \in 0..L /\ 0 + 1 = 1 /\ 1 >= 1 /\ 1 \in Nat /\ 1 \in 1..L + 1
  BY LenProperties
<1>4. ends[0] = 0
  BY <1>1 DEF Encodes
<1>5. p = IF q = 0 THEN 0 ELSE ends[q - 1] + 1
  <2>1. Find(s, t, ends[0] + 1) = IF q = 0 THEN 0 ELSE ends[q - 1] + 1
    BY <1>1, <1>2, <1>3, FindAligned
  <2> QED
    BY <1>3, <1>4, <2>1
<1>6. q \in Nat /\ (q # 0 => q >= 1 /\ Occurs(cps, ds, q))
  BY <1>3, FindIs
<1>7. ToCodepoints(s) = cps
  BY <1>1, DecodesBack
<1>8. StrPos(s, t) = IF p = 0 THEN 0 ELSE Len(ToCodepoints(SubSeq(s, 1, p - 1))) + 1
  BY DEF StrPos
<1> HIDE DEF p, q
<1>9. ASSUME q = 0 PROVE StrPos(s, t) = q
  BY <1>5, <1>8, <1>9
<1>10. ASSUME q # 0 PROVE StrPos(s, t) = q
  <2> DEFINE z == ends[q - 1]
             part == SubSeq(cps, 1, q - 1)
  <2>1. q - 1 \in 0..L /\ q - 1 \in 1 - 1..L /\ 1 - 1 = 0
    BY <1>3, <1>6, <1>10 DEF Occurs
  <2>2. z \in Nat
    BY <1>1, <2>1 DEF Encodes
  <2>3. p = z + 1 /\ p # 0 /\ p - 1 = z
    <3>1. p = z + 1
      BY <1>5, <1>10
    <3> HIDE DEF z
    <3> QED
      BY <2>2, <3>1
  <2>4. PICK more : Encodes(part, SubSeq(s, ends[1 - 1] + 1, z), more)
    BY <1>1, <1>3, <2>1, PartEncodes
  <2>5. Encodes(part, SubSeq(s, 1, p - 1), more)
    BY <1>3, <1>4, <2>1, <2>3, <2>4
  <2>6. part \in Seq(CodePoints) /\ Len(part) = q - 1
    <3>1. 1 \in Int /\ q - 1 \in Int /\ q - 1 <= L /\ (IF 1 <= q - 1 THEN q - 1 - 1 + 1 ELSE 0) = q - 1
      BY <1>6, <1>10, <2>1
    <3> QED
      BY <1>3, <3>1, Part
  <2> HIDE DEF part, z
  <2>7. ToCodepoints(SubSeq(s, 1, p - 1)) = part
    BY <2>5, <2>6, DecodesBack
  <2>8. StrPos(s, t) = q - 1 + 1
    BY <1>8, <2>3, <2>6, <2>7
  <2> QED
    BY <1>6, <2>8
<1> QED
  BY <1>7, <1>9, <1>10 DEF q, s, t

\* strpos counts characters though it searches the bytes, in texts and for parts of any
\* characters and lengths, and the conversions invert each other.
THEOREM StrPosIsTrue == Spec => []StrPosCountsCharacters
<1>1. Types => StrPosCountsCharacters
  <2> SUFFICES ASSUME Types, topic = "places"
               PROVE  /\ ToCodepoints(FromCodepoints(text)) = text
                      /\ StrPos(FromCodepoints(text), FromCodepoints(other)) = Find(text, other, 1)
    BY DEF StrPosCountsCharacters
  <2>1. text \in Seq(Topics["places"].chars) /\ other \in Seq(Topics["places"].otherChars)
    BY DEF Types
  <2> DEFINE C == Topics["places"].chars
             D == Topics["places"].otherChars
  <2>2. C \subseteq CodePoints /\ D \subseteq CodePoints
    BY TopicsAssumption
  <2> HIDE DEF C, D
  <2>3. text \in Seq(CodePoints) /\ other \in Seq(CodePoints)
    BY <2>1, <2>2 DEF C, D
  <2> QED
    BY <2>3, StrPosIs
<1> QED
  BY <1>1, TypesHold, PTL

-----------------------------------------------------------------------------
\* Strings that are split and joined.

\* Where no separator is left, what is in front of the next one, and where it ends.
Stops(s, sep) == {b \in 1..Len(s) + 1 : Find(s, sep, b) = 0}
PieceOf(s, sep) ==
    [b \in 1..Len(s) + 1 |-> SubSeq(s, b, IF Find(s, sep, b) = 0 THEN Len(s) ELSE Find(s, sep, b) - 1)]
NextOf(s, sep) == [b \in 1..Len(s) + 1 |-> Find(s, sep, b) + Len(sep)]

LEMMA FindGoesOn ==
    ASSUME NEW s \in Seq(Nat), NEW sep \in Seq(Nat), sep # <<>>, NEW b \in 1..Len(s) + 1
    PROVE  /\ PieceOf(s, sep)[b] \in Seq(Nat)
           /\ b \notin Stops(s, sep) => /\ Find(s, sep, b) \in b..Len(s)
                                        /\ NextOf(s, sep)[b] = Find(s, sep, b) + Len(sep)
                                        /\ NextOf(s, sep)[b] \in b + 1..Len(s) + 1
                                        /\ Find(s, sep, b) <= NextOf(s, sep)[b] - 1
                                        /\ SubSeq(s, Find(s, sep, b), NextOf(s, sep)[b] - 1) = sep
<1> DEFINE q == Find(s, sep, b)
           e == IF q = 0 THEN Len(s) ELSE q - 1
           n == NextOf(s, sep)[b]
<1>1. Len(s) \in Nat /\ Len(sep) \in Nat /\ Len(sep) # 0 /\ b \in Nat /\ b >= 1
  BY LenProperties, EmptySeq
<1>2. q \in Nat /\ (q # 0 => q >= b /\ Occurs(s, sep, q))
  BY <1>1, FindIs
<1>3. n = q + Len(sep) /\ PieceOf(s, sep)[b] = SubSeq(s, b, e) /\ (b \notin Stops(s, sep) => q # 0)
  BY DEF NextOf, PieceOf, Stops
<1> HIDE DEF q, n
<1>4. q # 0 => q + Len(sep) <= Len(s) + 1
  BY <1>2 DEF Occurs
<1>5. e \in Int /\ e <= Len(s)
  BY <1>1, <1>2, <1>4
<1> HIDE DEF e
<1>6. SubSeq(s, b, e) \in Seq(Nat)
  BY <1>1, <1>5, Part
<1>7. ASSUME q # 0
      PROVE  /\ q \in b..Len(s) /\ n \in b + 1..Len(s) + 1 /\ q <= n - 1
             /\ SubSeq(s, q, n - 1) = sep
  <2>1. q \in b..Len(s) /\ n \in b + 1..Len(s) + 1 /\ q <= n - 1 /\ n - 1 = q + Len(sep) - 1
    BY <1>1, <1>2, <1>3, <1>4, <1>7
  <2>2. SubSeq(s, q, q + Len(sep) - 1) = sep
    BY <1>1, <1>2, <1>4, <1>7, PartOccurs
  <2> QED
    BY <2>1, <2>2
<1> QED
  BY <1>3, <1>6, <1>7 DEF q, n

\* What the two oracles that search one separator after the other do at each place.
LEMMA SplitIs ==
    ASSUME NEW s \in Seq(Nat), NEW sep \in Seq(Nat), sep # <<>>
    PROVE  \E f : /\ SplitOracle(s, sep) = f[1]
                  /\ InPieces(f, Len(s) + 1, 1..Len(s) + 1, Stops(s, sep), PieceOf(s, sep), NextOf(s, sep))
<1> DEFINE N == Len(s) + 1
           Solves(f) == f = [start \in 1..N |->
                IF Find(s, sep, start) = 0 THEN <<SubSeq(s, start, Len(s))>>
                ELSE <<SubSeq(s, start, Find(s, sep, start) - 1)>> \o f[After(Find(s, sep, start), sep)]]
           parts == CHOOSE f : Solves(f)
           stop == Stops(s, sep)
           piece == PieceOf(s, sep)
           next == NextOf(s, sep)
           row == [b \in 1..N |-> <<piece[b]>>]
<1>1. SplitOracle(s, sep) = parts[1]
  BY DEF SplitOracle
<1>2. N \in Nat
  BY LenProperties
<1>3. \A b \in 1..N : b \notin stop => next[b] \in b + 1..N
  BY FindGoesOn
<1>4. PICK f : GoesOn(f, N, stop, row, row, next)
  <2> HIDE DEF N, stop, next, row
  <2> QED
    BY <1>2, <1>3, LoopGoesOn
<1>5. ASSUME NEW b \in 1..N
      PROVE  /\ b \in stop <=> Find(s, sep, b) = 0
             /\ row[b] = <<piece[b]>>
             /\ Find(s, sep, b) = 0 => piece[b] = SubSeq(s, b, Len(s))
             /\ Find(s, sep, b) # 0 => piece[b] = SubSeq(s, b, Find(s, sep, b) - 1)
             /\ next[b] = After(Find(s, sep, b), sep)
  BY DEF Stops, PieceOf, NextOf, After
<1>6. Solves(f)
  <2> HIDE DEF stop, piece, next, row
  <2>1. ASSUME NEW b \in 1..N
        PROVE  (IF b \in stop THEN row[b] ELSE Cat(row[b], f[next[b]])) =
                    (IF Find(s, sep, b) = 0 THEN <<SubSeq(s, b, Len(s))>>
                     ELSE <<SubSeq(s, b, Find(s, sep, b) - 1)>> \o f[After(Find(s, sep, b), sep)])
    <3>1. CASE b \in stop
      BY <1>5, <3>1
    <3>2. CASE b \notin stop
      BY <1>5, <3>2 DEF Cat
    <3> QED
      BY <3>1, <3>2
  <2> QED
    BY <1>4, <2>1 DEF GoesOn
<1>7. Solves(parts)
  <2> HIDE DEF Solves
  <2> QED
    BY <1>6
<1> HIDE DEF parts, stop, piece, next, row
<1>8. \A b \in 1..N : parts[b] = IF b \in stop THEN <<piece[b]>> ELSE <<piece[b]>> \o parts[next[b]]
  <2> SUFFICES ASSUME NEW b \in 1..N
               PROVE  parts[b] = IF b \in stop THEN <<piece[b]>> ELSE <<piece[b]>> \o parts[next[b]]
    OBVIOUS
  <2>1. parts[b] = IF Find(s, sep, b) = 0 THEN <<SubSeq(s, b, Len(s))>>
                   ELSE <<SubSeq(s, b, Find(s, sep, b) - 1)>> \o parts[After(Find(s, sep, b), sep)]
    BY <1>7
  <2>2. CASE b \in stop
    BY <1>5, <2>1, <2>2
  <2>3. CASE b \notin stop
    BY <1>5, <2>1, <2>3
  <2> QED
    BY <2>2, <2>3
<1>9. \A b \in 1..N : b \notin stop => next[b] \in 1..N /\ next[b] \in b + 1..N
  BY <1>2, <1>3
<1>10. InPieces(parts, N, 1..N, stop, piece, next)
  <2> HIDE DEF N
  <2> QED
    BY <1>8, <1>9 DEF InPieces
<1> QED
  BY <1>1, <1>10 DEF stop, piece, next

LEMMA ReplaceIs ==
    ASSUME NEW s \in Seq(Nat), NEW old \in Seq(Nat), old # <<>>, NEW new
    PROVE  \E h : /\ ReplaceOracle(s, old, new) = h[1]
                  /\ InARow(h, Len(s) + 1, Stops(s, old), PieceOf(s, old), NextOf(s, old), new)
<1> DEFINE N == Len(s) + 1
           Solves(f) == f = [start \in 1..N |->
                IF Find(s, old, start) = 0 THEN SubSeq(s, start, Len(s))
                ELSE SubSeq(s, start, Find(s, old, start) - 1) \o new \o f[After(Find(s, old, start), old)]]
           rest == CHOOSE f : Solves(f)
           stop == Stops(s, old)
           piece == PieceOf(s, old)
           next == NextOf(s, old)
           head == [b \in 1..N |-> Cat(piece[b], new)]
<1>1. ReplaceOracle(s, old, new) = rest[1]
  BY DEF ReplaceOracle
<1>2. N \in Nat
  BY LenProperties
<1>3. \A b \in 1..N : b \notin stop => next[b] \in b + 1..N
  BY FindGoesOn
<1>4. PICK f : GoesOn(f, N, stop, piece, head, next)
  <2> HIDE DEF N, stop, piece, next, head
  <2> QED
    BY <1>2, <1>3, LoopGoesOn
<1>5. ASSUME NEW b \in 1..N
      PROVE  /\ b \in stop <=> Find(s, old, b) = 0
             /\ head[b] = Cat(piece[b], new)
             /\ Find(s, old, b) = 0 => piece[b] = SubSeq(s, b, Len(s))
             /\ Find(s, old, b) # 0 => piece[b] = SubSeq(s, b, Find(s, old, b) - 1)
             /\ next[b] = After(Find(s, old, b), old)
  BY DEF Stops, PieceOf, NextOf, After
<1>6. Solves(f)
  <2> HIDE DEF stop, piece, next, head
  <2>1. ASSUME NEW b \in 1..N
        PROVE  (IF b \in stop THEN piece[b] ELSE Cat(head[b], f[next[b]])) =
                    (IF Find(s, old, b) = 0 THEN SubSeq(s, b, Len(s))
                     ELSE SubSeq(s, b, Find(s, old, b) - 1) \o new \o f[After(Find(s, old, b), old)])
    <3>1. CASE b \in stop
      BY <1>5, <3>1
    <3>2. CASE b \notin stop
      BY <1>5, <3>2 DEF Cat
    <3> QED
      BY <3>1, <3>2
  <2> QED
    BY <1>4, <2>1 DEF GoesOn
<1>7. Solves(rest)
  <2> HIDE DEF Solves
  <2> QED
    BY <1>6
<1> HIDE DEF rest, stop, piece, next, head
<1>8. ASSUME NEW b \in 1..N
      PROVE  rest[b] = IF b \in stop THEN piece[b] ELSE Cat(Cat(piece[b], new), rest[next[b]])
  <2>1. rest[b] = IF Find(s, old, b) = 0 THEN SubSeq(s, b, Len(s))
                  ELSE SubSeq(s, b, Find(s, old, b) - 1) \o new \o rest[After(Find(s, old, b), old)]
    BY <1>7
  <2>2. CASE b \in stop
    BY <1>5, <2>1, <2>2
  <2>3. CASE b \notin stop
    BY <1>5, <2>1, <2>3 DEF Cat
  <2> QED
    BY <2>2, <2>3
<1> QED
  BY <1>1, <1>8 DEF InARow, stop, piece, next

\* What is split and joined again is the string, or with another glue what replace returns.
LEMMA SplitJoins ==
    ASSUME NEW s \in Seq(Nat), NEW sep \in Seq(Nat), sep # <<>>
    PROVE  /\ Joined(sep, SplitOracle(s, sep)) = s
           /\ \A glue \in Seq(Nat) : Joined(glue, SplitOracle(s, sep)) = ReplaceOracle(s, sep, glue)
<1> DEFINE N == Len(s) + 1
           L == Len(s)
           stop == Stops(s, sep)
           piece == PieceOf(s, sep)
           next == NextOf(s, sep)
           h == [b \in 1..N |-> SubSeq(s, b, L)]
<1>1. L \in Nat /\ N \in Nat /\ N = L + 1 /\ 1 \in 1..N
  BY LenProperties
<1>2. PICK f : SplitOracle(s, sep) = f[1] /\ InPieces(f, N, 1..N, stop, piece, next)
  BY SplitIs
<1>3. \A b \in 1..N : piece[b] \in Seq(Nat)
  BY FindGoesOn
<1>4. ASSUME NEW b \in 1..N
      PROVE  h[b] = IF b \in stop THEN piece[b] ELSE Cat(Cat(piece[b], sep), h[next[b]])
  <2>1. CASE b \in stop
    BY <2>1 DEF Stops, PieceOf
  <2>2. CASE b \notin stop
    <3> DEFINE q == Find(s, sep, b)
               n == next[b]
    <3>1. /\ q \in b..L /\ n \in b + 1..N /\ q <= n - 1 /\ SubSeq(s, q, n - 1) = sep
      BY <2>2, FindGoesOn
    <3>2. piece[b] = SubSeq(s, b, q - 1)
      BY <2>2 DEF PieceOf, Stops
    <3>3. h[n] = SubSeq(s, n, L) /\ h[b] = SubSeq(s, b, L)
      <4>1. n \in 1..N
        BY <1>1, <3>1
      <4> HIDE DEF n, N
      <4> QED
        BY <4>1
    <3> HIDE DEF q, n, h, L, N, piece
    <3>4. SubSeq(s, b, q - 1) \o SubSeq(s, q, n - 1) = SubSeq(s, b, n - 1)
      <4> DEFINE k == q - 1
                 m == n - 1
      <4>1. b \in Int /\ k \in Int /\ q \in Int /\ m \in Int /\ 1 <= b /\ b <= q /\ q = k + 1 /\ k <= m /\ m <= Len(s)
        BY <1>1, <3>1 DEF L
      <4> HIDE DEF k, m
      <4>2. SubSeq(s, b, k) \o SubSeq(s, q, m) = SubSeq(s, b, m)
        BY <4>1, Adjacent
      <4> QED
        BY <4>2 DEF k, m
    <3>5. SubSeq(s, b, n - 1) \o SubSeq(s, n, L) = SubSeq(s, b, L)
      <4> DEFINE m == n - 1
      <4>1. b \in Int /\ m \in Int /\ n \in Int /\ L \in Int /\ 1 <= b /\ b <= n /\ n = m + 1 /\ m <= L /\ L <= Len(s)
        BY <1>1, <3>1 DEF L
      <4> HIDE DEF m
      <4>2. SubSeq(s, b, m) \o SubSeq(s, n, L) = SubSeq(s, b, L)
        BY <4>1, Adjacent
      <4> QED
        BY <4>2 DEF m
    <3>6. Cat(Cat(piece[b], sep), h[n]) = h[b]
      BY <3>1, <3>2, <3>3, <3>4, <3>5 DEF Cat
    <3> QED
      BY <2>2, <3>6 DEF n
  <2> QED
    BY <2>1, <2>2
<1>5. h[1] = s
  BY <1>1, SubSeqFull
<1> HIDE DEF h, stop, piece, next, N
<1>6. Joined(sep, f[1]) = h[1]
  <2>1. InARow(h, N, stop, piece, next, sep)
    BY <1>4 DEF InARow
  <2>2. \A b \in 1..N : Joined(sep, f[b]) = h[b] /\ h[b] \in Seq(Nat)
    BY <1>1, <1>2, <1>3, <2>1, PiecesJoined
  <2> QED
    BY <1>1, <2>2
<1>7. ASSUME NEW glue \in Seq(Nat) PROVE Joined(glue, f[1]) = ReplaceOracle(s, sep, glue)
  <2>1. PICK g : /\ ReplaceOracle(s, sep, glue) = g[1]
                 /\ InARow(g, N, stop, piece, next, glue)
    BY ReplaceIs DEF N, stop, piece, next
  <2>2. \A b \in 1..N : Joined(glue, f[b]) = g[b] /\ g[b] \in Seq(Nat)
    BY <1>1, <1>2, <1>3, <2>1, PiecesJoined
  <2> QED
    BY <1>1, <2>1, <2>2
<1> QED
  BY <1>2, <1>5, <1>6, <1>7

\* No part holds the separator.
LEMMA PiecesHoldNone ==
    ASSUME NEW s \in Seq(Nat), NEW sep \in Seq(Nat), sep # <<>>, NEW b \in 1..Len(s) + 1
    PROVE  /\ Find(PieceOf(s, sep)[b], sep, 1) = 0
           /\ PieceOf(s, sep)[b] # <<>> => b \in 1..Len(s) /\ PieceOf(s, sep)[b][1] = s[b]
<1> DEFINE q == Find(s, sep, b)
           e == IF q = 0 THEN Len(s) ELSE q - 1
           x == PieceOf(s, sep)[b]
           p == Find(x, sep, 1)
<1>1. Len(s) \in Nat /\ Len(sep) \in Nat /\ Len(sep) # 0 /\ b \in Nat /\ b >= 1 /\ 1 \in Nat /\ 1 >= 1
  BY LenProperties, EmptySeq
<1>2. /\ q \in Nat
      /\ q = 0 => \A i : i >= b => ~Occurs(s, sep, i)
      /\ q # 0 => q >= b /\ Occurs(s, sep, q) /\ \A i : i >= b /\ i < q => ~Occurs(s, sep, i)
  BY <1>1, FindIs
<1>3. x = SubSeq(s, b, e)
  BY DEF PieceOf
<1> HIDE DEF q, x
<1>4. q # 0 => q + Len(sep) <= Len(s) + 1
  BY <1>2 DEF Occurs
<1>5. e \in Int /\ e <= Len(s) /\ (q # 0 => e = q - 1)
  BY <1>1, <1>2, <1>4
<1> HIDE DEF e
<1>6. /\ x \in Seq(Nat) /\ Len(x) = (IF b <= e THEN e - b + 1 ELSE 0)
      /\ \A i \in 1..e - b + 1 : x[i] = s[b + i - 1]
  BY <1>1, <1>3, <1>5, Part
<1>7. p \in Nat /\ (p # 0 => p >= 1 /\ Occurs(x, sep, p))
  BY <1>1, <1>6, FindIs
<1> HIDE DEF p
<1>8. p = 0
  <2> SUFFICES ASSUME p # 0 PROVE FALSE
    OBVIOUS
  <2> DEFINE i == b + p - 1
  <2>1. p >= 1 /\ p + Len(sep) <= Len(x) + 1 /\ \A j \in 1..Len(sep) : x[p + j - 1] = sep[j]
    BY <1>7 DEF Occurs
  <2>2. b <= e /\ Len(x) = e - b + 1
    BY <1>1, <1>5, <1>6, <1>7, <2>1
  <2>3. i \in Int /\ i >= b /\ i + Len(sep) <= e + 1
    BY <1>1, <1>5, <1>7, <2>1, <2>2
  <2>4. ASSUME NEW j \in 1..Len(sep) PROVE s[i + j - 1] = sep[j]
    <3>1. p + j - 1 \in 1..e - b + 1 /\ b + (p + j - 1) - 1 = i + j - 1
      BY <1>1, <1>5, <1>7, <2>1, <2>2
    <3>2. x[p + j - 1] = s[b + (p + j - 1) - 1]
      BY <1>6, <3>1
    <3> QED
      BY <2>1, <3>1, <3>2
  <2> HIDE DEF i
  <2>5. Occurs(s, sep, i)
    <3>1. 1 <= i /\ i + Len(sep) <= Len(s) + 1
      BY <1>1, <1>5, <2>3
    <3> QED
      BY <2>3, <2>4, <3>1 DEF Occurs
  <2>6. q # 0 => i < q
    BY <1>1, <1>2, <1>5, <2>3
  <2> QED
    BY <1>2, <2>3, <2>5, <2>6
<1>9. ASSUME x # <<>> PROVE b \in 1..Len(s) /\ x[1] = s[b]
  <2>1. Len(x) # 0
    BY <1>6, <1>9, EmptySeq
  <2>2. b <= e
    BY <1>6, <2>1
  <2>3. b \in 1..Len(s) /\ 1 \in 1..e - b + 1 /\ b + 1 - 1 = b
    BY <1>1, <1>5, <2>2
  <2>4. x[1] = s[b + 1 - 1]
    BY <1>6, <2>3
  <2> QED
    BY <2>3, <2>4
<1> QED
  BY <1>8, <1>9 DEF p, x

LEMMA SomeBytes ==
    ASSUME NEW ds \in Seq(CodePoints), NEW t, NEW tends, Encodes(ds, t, tends), ds # <<>>
    PROVE  t # <<>>
<1> DEFINE M == Len(ds)
<1>1. M \in Nat /\ M # 0 /\ tends[0] = 0 /\ tends[M] = Len(t)
  BY LenProperties, EmptySeq DEF Encodes
<1>2. 0 \in 0..M /\ M \in 0..M /\ 0 < M
  BY <1>1
<1>3. tends[0] < tends[M]
  BY <1>2, EndsGrow
<1>4. Len(t) # 0
  BY <1>1, <1>3
<1> QED
  BY <1>4, EmptySeq

\* Nor does one begin inside a character.
LEMMA PartsBegin ==
    ASSUME NEW cps \in Seq(CodePoints), NEW s, NEW ends, Encodes(cps, s, ends),
           NEW ds \in Seq(CodePoints), NEW t, NEW tends, Encodes(ds, t, tends), ds # <<>>
    PROVE  SplitOracle(s, t) \in Seq({x \in Seq(Nat) : /\ Find(x, t, 1) = 0
                                                       /\ x # <<>> => x[1] \notin 128..191})
<1> DEFINE L == Len(cps)
           M == Len(ds)
           N == Len(s) + 1
           Kind == {x \in Seq(Nat) : Find(x, t, 1) = 0 /\ (x # <<>> => x[1] \notin 128..191)}
           K == {ends[k] + 1 : k \in 0..L}
           stop == Stops(s, t)
           piece == PieceOf(s, t)
           next == NextOf(s, t)
<1>1. L \in Nat /\ M \in Nat /\ M # 0 /\ s \in Seq(Nat) /\ t \in Seq(Nat) /\ Len(s) \in Nat /\ N \in Nat
  BY LenProperties, EmptySeq DEF Encodes
<1>2. /\ ends \in [0..L -> Nat] /\ ends[0] = 0 /\ ends[L] = Len(s)
      /\ tends[0] = 0 /\ tends[M] = Len(t) /\ \A k \in 0..L : ends[k] \in 0..Len(s)
  BY EndsGrow DEF Encodes
<1>3. t # <<>>
  BY SomeBytes
<1>4. PICK f : SplitOracle(s, t) = f[1] /\ InPieces(f, N, 1..N, stop, piece, next)
  BY <1>1, <1>3, SplitIs
<1>5. ASSUME NEW b \in K
      PROVE  /\ b \in 1..N /\ piece[b] \in Kind
             /\ b \notin stop => next[b] \in K /\ next[b] \in b + 1..N
  <2>1. PICK k \in 0..L : b = ends[k] + 1
    OBVIOUS
  <2>2. ends[k] \in 0..Len(s)
    BY <1>2
  <2>3. b \in 1..N
    <3> DEFINE z == ends[k]
    <3>1. z \in 0..Len(s) /\ b = z + 1
      BY <2>1, <2>2
    <3> HIDE DEF z
    <3> QED
      BY <1>1, <3>1
  <2>4. /\ piece[b] \in Seq(Nat)
        /\ b \notin stop => /\ Find(s, t, b) \in b..Len(s)
                            /\ next[b] = Find(s, t, b) + Len(t)
                            /\ next[b] \in b + 1..N
    BY <1>1, <1>3, <2>3, FindGoesOn
  <2>5. Find(piece[b], t, 1) = 0 /\ (piece[b] # <<>> => b \in 1..Len(s) /\ piece[b][1] = s[b])
    BY <1>1, <1>3, <2>3, PiecesHoldNone
  <2>6. ASSUME piece[b] # <<>> PROVE piece[b][1] \notin 128..191
    <3> DEFINE e == Encoded(cps[k + 1])
    <3>1. b \in 1..Len(s) /\ piece[b][1] = s[b]
      BY <2>5, <2>6
    <3>2. k # L
      <4> SUFFICES ASSUME k = L PROVE FALSE
        OBVIOUS
      <4>1. b = Len(s) + 1
        BY <1>2, <2>1
      <4> QED
        BY <1>1, <3>1, <4>1
    <3>3. k + 1 \in 1..L /\ k + 1 - 1 = k
      BY <1>1, <3>2
    <3>4. cps[k + 1] \in CodePoints /\ Len(e) \in 1..4
      BY <3>3, EndsGrow
    <3>5. 1 \in 1..Len(e)
      <4> DEFINE w == Len(e)
      <4>1. w \in 1..4
        BY <3>4
      <4> HIDE DEF w
      <4>2. 1 \in 1..w
        BY <4>1
      <4> QED
        BY <4>2 DEF w
    <3>6. s[ends[k + 1 - 1] + 1] = e[1]
      BY <3>3, <3>5 DEF Encodes
    <3>7. s[b] = e[1] /\ ~Follows(e[1])
      BY <2>1, <3>3, <3>4, <3>6, EncodedIs
    <3> HIDE DEF e
    <3>8. \A a \in 128..191 : Follows(a)
      BY DEF Follows
    <3> QED
      BY <3>1, <3>7, <3>8
  <2>7. ASSUME b \notin stop PROVE next[b] \in K
    <3> DEFINE q == Find(cps, ds, k + 1)
    <3>1. Find(s, t, ends[k] + 1) = IF q = 0 THEN 0 ELSE ends[q - 1] + 1
      BY FindAligned
    <3>2. Find(s, t, b) # 0
      BY <2>3, <2>7 DEF Stops
    <3>3. q # 0 /\ Find(s, t, b) = ends[q - 1] + 1
      BY <2>1, <3>1, <3>2
    <3>4. Occurs(cps, ds, q) /\ q \in Nat
      <4>1. k + 1 \in Nat /\ k + 1 >= 1
        BY <1>1
      <4> QED
        BY <3>3, <4>1, FindIs
    <3> HIDE DEF q
    <3>5. q - 1 + M \in 0..L /\ q - 1 \in 0..L /\ M \in 0..M
      BY <1>1, <3>3, <3>4 DEF Occurs
    <3>6. ends[q - 1] + tends[M] = ends[q - 1 + M]
      BY <3>4, <3>5, CharactersAligned
    <3>7. next[b] = ends[q - 1 + M] + 1
      <4> DEFINE y == ends[q - 1]
                 z == ends[q - 1 + M]
      <4>1. y \in Nat /\ Len(t) \in Nat /\ next[b] = (y + 1) + Len(t) /\ y + Len(t) = z
        BY <1>1, <1>2, <2>4, <2>7, <3>3, <3>5, <3>6, LenProperties
      <4> HIDE DEF y, z, next
      <4>2. next[b] = z + 1
        BY <4>1
      <4> QED
        BY <4>2 DEF z
    <3> QED
      BY <3>5, <3>7
  <2> QED
    BY <2>3, <2>4, <2>5, <2>6, <2>7
<1> HIDE DEF Kind, K, stop, piece, next, N
<1>6. InPieces(f, N, K, stop, piece, next)
  BY <1>4, <1>5 DEF InPieces
<1>7. f[1] \in Seq(Kind)
  <2>1. 1 \in K
    <3>1. 0 \in 0..L /\ ends[0] + 1 = 1
      BY <1>1, <1>2
    <3> QED
      BY <3>1 DEF K
  <2>2. \A b \in K : piece[b] \in Kind
    BY <1>5
  <2>3. \A b \in K : f[b] \in Seq(Kind) /\ Len(f[b]) >= 1
    BY <1>1, <1>6, <2>2, PiecesOfAKind
  <2> QED
    BY <2>1, <2>3
<1> QED
  BY <1>4, <1>7 DEF Kind

LEMMA SplitPartIs ==
    ASSUME NEW C, NEW parts \in Seq(C), NEW i \in DOMAIN parts
    PROVE  SplitPart(parts, i) = parts[i] /\ SplitPart(parts, i - Len(parts) - 1) = parts[i]
<1> DEFINE L == Len(parts)
           j == i - L - 1
<1>1. L \in Nat /\ i \in 1..L
  BY LenProperties
<1>2. j \notin 1..L /\ -j \in 1..L /\ L + j + 1 = i
  BY <1>1
<1>3. SplitPart(parts, i) = parts[i]
  BY <1>1 DEF SplitPart
<1> HIDE DEF j
<1>4. SplitPart(parts, j) = parts[i]
  BY <1>2 DEF SplitPart
<1> QED
  BY <1>3, <1>4 DEF j

\* Splits of any text by any separator: joined again they are the text, with another
\* separator they are what replace makes of it, and no part holds the separator or
\* begins inside a character.
THEOREM SplitsAreParts == Spec => []SplitsRejoin
<1>1. Types => SplitsRejoin
  <2> DEFINE s == FromCodepoints(text)
             sep == FromCodepoints(other)
             parts == SplitOracle(s, sep)
  <2> SUFFICES ASSUME Types, topic = "places", other # <<>>
               PROVE  /\ Joined(sep, parts) = s
                      /\ \A c \in Topics[topic].chars :
                            Joined(Encoded(c), parts) = ReplaceOracle(s, sep, Encoded(c))
                      /\ \A i \in DOMAIN parts :
                            /\ Find(parts[i], sep, 1) = 0
                            /\ parts[i] # <<>> => parts[i][1] \notin 128..191
                            /\ SplitPart(parts, i) = parts[i]
                            /\ SplitPart(parts, i - Len(parts) - 1) = parts[i]
    BY DEF SplitsRejoin, Joined
  <2> DEFINE C == Topics["places"].chars
             D == Topics["places"].otherChars
  <2>1. C \subseteq CodePoints /\ D \subseteq CodePoints
    BY TopicsAssumption
  <2>2. text \in Seq(C) /\ other \in Seq(D) /\ Topics[topic].chars = C
    BY DEF Types
  <2> HIDE DEF C, D
  <2>3. text \in Seq(CodePoints) /\ other \in Seq(CodePoints)
    BY <2>1, <2>2
  <2>4. PICK ends : Encodes(text, s, ends)
    BY <2>3, FromCodepointsEncodes
  <2>5. PICK tends : Encodes(other, sep, tends)
    BY <2>3, FromCodepointsEncodes
  <2> HIDE DEF s, sep
  <2>6. s \in Seq(Nat) /\ sep \in Seq(Nat) /\ sep # <<>>
    BY <2>3, <2>4, <2>5, SomeBytes DEF Encodes
  <2> DEFINE Kind == {x \in Seq(Nat) : Find(x, sep, 1) = 0 /\ (x # <<>> => x[1] \notin 128..191)}
  <2>7. Joined(sep, parts) = s /\ \A glue \in Seq(Nat) : Joined(glue, parts) = ReplaceOracle(s, sep, glue)
    BY <2>6, SplitJoins
  <2>8. parts \in Seq(Kind)
    BY <2>3, <2>4, <2>5, PartsBegin
  <2> HIDE DEF parts
  <2>9. \A c \in C : Encoded(c) \in Seq(Nat)
    BY <2>1, EncodedIs
  <2>10. ASSUME NEW i \in DOMAIN parts
         PROVE  /\ parts[i] \in Kind
                /\ SplitPart(parts, i) = parts[i] /\ SplitPart(parts, i - Len(parts) - 1) = parts[i]
    <3> HIDE DEF Kind
    <3>1. parts[i] \in Kind
      BY <2>8, LenProperties, ElementOfSeq
    <3> QED
      BY <2>8, <3>1, SplitPartIs
  <2> QED
    BY <2>2, <2>7, <2>9, <2>10
<1> QED
  BY <1>1, TypesHold, PTL

-----------------------------------------------------------------------------
\* Texts in which characters are replaced.

\* Only the string that FromCodepoints makes of a text has the text's bytes at its ends.
LEMMA OnlyItsBytes ==
    ASSUME NEW cps \in Seq(CodePoints), NEW s, NEW ends, Encodes(cps, s, ends)
    PROVE  s = FromCodepoints(cps)
<1> DEFINE L == Len(cps)
           t == FromCodepoints(cps)
<1>1. PICK more : Encodes(cps, t, more)
  BY FromCodepointsEncodes
<1> HIDE DEF t
<1>2. L \in Nat
  BY LenProperties
<1> DEFINE X == {n \in Nat : n <= L => ends[n] = more[n]}
<1>3. 0 \in X
  BY <1>1 DEF Encodes
<1>4. ASSUME NEW n \in Nat, n \in X PROVE n + 1 \in X
  <2> SUFFICES ASSUME n + 1 <= L PROVE ends[n + 1] = more[n + 1]
    OBVIOUS
  <2> DEFINE m == n + 1
  <2>1. m \in 1..L /\ m - 1 = n /\ n <= L
    BY <1>2
  <2> HIDE DEF m
  <2>2. ends[m] = ends[m - 1] + Len(Encoded(cps[m])) /\ more[m] = more[m - 1] + Len(Encoded(cps[m]))
    BY <1>1, <2>1 DEF Encodes
  <2>3. ends[n] = more[n]
    BY <1>4, <2>1
  <2> QED
    BY <2>1, <2>2, <2>3 DEF m
<1> HIDE DEF X
<1>5. Nat \subseteq X
  BY <1>3, <1>4, InductionOverSet
<1>6. \A n \in 0..L : ends[n] = more[n]
  BY <1>2, <1>5 DEF X
<1>7. /\ s \in Seq(Nat) /\ t \in Seq(Nat) /\ Len(s) = ends[L] /\ Len(t) = more[L]
      /\ L \in 0..L
  BY <1>1, <1>2 DEF Encodes
<1>8. Len(s) = Len(t)
  BY <1>6, <1>7
<1>9. ASSUME NEW b \in 1..Len(s) PROVE s[b] = t[b]
  <2>0. PICK n \in 1..L : \E j \in 1..Len(Encoded(cps[n])) : b = ends[n - 1] + j
    BY BytesBelong
  <2>1. PICK j \in 1..Len(Encoded(cps[n])) : b = ends[n - 1] + j
    BY <2>0
  <2>2. s[b] = Encoded(cps[n])[j]
    BY <2>1 DEF Encodes
  <2>3. n - 1 \in 0..L
    BY <1>2
  <2>4. t[more[n - 1] + j] = Encoded(cps[n])[j]
    BY <1>1 DEF Encodes
  <2> QED
    BY <1>6, <2>1, <2>2, <2>3, <2>4
<1> QED
  BY <1>7, <1>8, <1>9, SeqEqual DEF t

\* A part of a text is, in bytes, the part of the string between its ends.
LEMMA PartInBytes ==
    ASSUME NEW cps \in Seq(CodePoints), NEW s, NEW ends, Encodes(cps, s, ends),
           NEW k \in 0..Len(cps), NEW b \in k..Len(cps)
    PROVE  /\ SubSeq(cps, k + 1, b) \in Seq(CodePoints)
           /\ SubSeq(s, ends[k] + 1, ends[b]) = FromCodepoints(SubSeq(cps, k + 1, b))
<1> DEFINE a == k + 1
           part == SubSeq(cps, a, b)
           bytes == SubSeq(s, ends[a - 1] + 1, ends[b])
<1>1. a \in 1..Len(cps) + 1 /\ b \in a - 1..Len(cps) /\ a - 1 = k
  BY LenProperties
<1> HIDE DEF a
<1>2. PICK more : Encodes(part, bytes, more)
  BY <1>1, PartEncodes
<1>3. part \in Seq(CodePoints)
  <2>1. a \in Int /\ b \in Int /\ a >= 1 /\ b <= Len(cps)
    BY <1>1, LenProperties
  <2> QED
    BY <2>1, Part
<1> HIDE DEF part, bytes
<1>4. bytes = FromCodepoints(part)
  BY <1>2, <1>3, OnlyItsBytes
<1> QED
  BY <1>1, <1>3, <1>4 DEF a, part, bytes

\* One character becomes r, the others stay.
Only(d, r) == [c \in CodePoints |-> IF c = d THEN r ELSE <<c>>]

LEMMA OnlyIs ==
    ASSUME NEW d \in CodePoints, NEW r \in Seq(CodePoints)
    PROVE  /\ Maps(Only(d, r), CodePoints, CodePoints)
           /\ Only(d, r)[d] = r
           /\ \A c \in CodePoints : c # d => Only(d, r)[c] = <<c>>
<1>1. \A c \in CodePoints : <<c>> \in Seq(CodePoints)
  OBVIOUS
<1> QED
  BY <1>1 DEF Only, Maps

LEMMA PartWithout ==
    ASSUME NEW u \in Seq(CodePoints), NEW d \in CodePoints, NEW r \in Seq(CodePoints),
           NEW a \in Int, NEW b \in Int, 1 <= a, b <= Len(u), \A i \in a..b : u[i] # d
    PROVE  Spread(Only(d, r), SubSeq(u, a, b)) = SubSeq(u, a, b)
<1> DEFINE v == SubSeq(u, a, b)
           f == Only(d, r)
<1>1. /\ v \in Seq(CodePoints) /\ Len(v) = (IF a <= b THEN b - a + 1 ELSE 0)
      /\ \A i \in 1..b - a + 1 : v[i] = u[a + i - 1]
  BY Part
<1>2. Maps(f, CodePoints, CodePoints) /\ \A c \in CodePoints : c # d => f[c] = <<c>>
  BY OnlyIs
<1> HIDE DEF v, f
<1>3. ASSUME NEW i \in 1..Len(v) PROVE f[v[i]] = <<v[i]>>
  <2>1. i \in 1..b - a + 1 /\ a + i - 1 \in a..b
    BY <1>1
  <2>2. v[i] # d
    BY <1>1, <2>1
  <2>3. v[i] \in CodePoints
    BY <1>1, ElementOfSeq
  <2> QED
    BY <1>2, <2>2, <2>3
<1>4. Spread(f, v) = v
  BY <1>1, <1>2, <1>3, SpreadSame
<1> QED
  BY <1>4 DEF v, f

LEMMA Associates == \A x, y, z \in Seq(Nat) : (x \o y) \o z = x \o (y \o z)
<1> SUFFICES ASSUME NEW x \in Seq(Nat), NEW y \in Seq(Nat), NEW z \in Seq(Nat)
             PROVE  (x \o y) \o z = x \o (y \o z)
  OBVIOUS
<1> QED
  BY ConcatAssociative, SMTT(30)

\* replace of one character, on bytes, is what it is on characters.
LEMMA ReplaceCharacter ==
    ASSUME NEW u \in Seq(CodePoints), NEW d \in CodePoints, NEW r \in Seq(CodePoints)
    PROVE  ReplaceOracle(FromCodepoints(u), Encoded(d), FromCodepoints(r)) =
                FromCodepoints(Spread(Only(d, r), u))
<1> DEFINE L == Len(u)
           s == FromCodepoints(u)
           t == Encoded(d)
           ds == <<d>>
           g == Only(d, r)
           new == FromCodepoints(r)
           N == Len(s) + 1
           stop == Stops(s, t)
           piece == PieceOf(s, t)
           next == NextOf(s, t)
<1>1. ds \in Seq(CodePoints) /\ Len(ds) = 1 /\ ds[1] = d /\ ds # <<>>
  OBVIOUS
<1>2. t = FromCodepoints(ds) /\ t \in Seq(Nat) /\ t # <<>>
  <2>1. <<>> \in Seq(CodePoints) /\ Append(<<>>, d) = ds
    OBVIOUS
  <2>2. FromCodepoints(Append(<<>>, d)) = FromCodepoints(<<>>) \o Encoded(d) /\ FromCodepoints(<<>>) = <<>>
    BY <2>1, FromCodepointsIs
  <2>3. t \in Seq(Nat) /\ Len(t) \in 1..4
    BY EncodedIs
  <2>4. <<>> \o t = t
    BY <2>3, ConcatEmptySeq
  <2>5. t # <<>>
    <3> DEFINE n == Len(t)
    <3>1. n \in 1..4
      BY <2>3
    <3> HIDE DEF n
    <3>2. n # 0
      BY <3>1
    <3> QED
      BY <2>3, <3>2, EmptySeq DEF n
  <2> QED
    BY <2>1, <2>2, <2>3, <2>4, <2>5
<1>3. PICK ends : Encodes(u, s, ends)
  BY FromCodepointsEncodes
<1>4. PICK tends : Encodes(ds, t, tends)
  BY <1>1, <1>2, FromCodepointsEncodes
<1> HIDE DEF ds, s, t
<1>5. /\ L \in Nat /\ s \in Seq(Nat) /\ Len(s) \in Nat /\ N \in Nat /\ new \in Seq(Nat)
      /\ ends[0] = 0 /\ ends[L] = Len(s) /\ \A k \in 0..L : ends[k] \in 0..Len(s)
  <2>1. s \in Seq(Nat) /\ ends[0] = 0 /\ ends[L] = Len(s)
    BY <1>3 DEF Encodes
  <2>2. \A k \in 0..L : ends[k] \in 0..Len(s)
    BY <1>3, EndsGrow
  <2>3. L \in Nat /\ Len(s) \in Nat
    BY <2>1, LenProperties
  <2>4. new \in Seq(Nat)
    BY FromCodepointsIs
  <2> HIDE DEF new
  <2> QED
    BY <2>1, <2>2, <2>3, <2>4
<1>6. PICK h : ReplaceOracle(s, t, new) = h[1] /\ InARow(h, N, stop, piece, next, new)
  BY <1>2, <1>5, ReplaceIs
<1>7. /\ Maps(g, CodePoints, CodePoints) /\ g[d] = r
      /\ Spread(g, ds) = r
      /\ \A v \in Seq(CodePoints) : Spread(g, v) \in Seq(CodePoints)
  <2>1. Maps(g, CodePoints, CodePoints) /\ g[d] = r
    BY OnlyIs
  <2> HIDE DEF g
  <2>2. Spread(g, <<d>>) = g[d] /\ \A v \in Seq(CodePoints) : Spread(g, v) \in Seq(CodePoints)
    BY <2>1, SpreadOne
  <2> QED
    BY <2>1, <2>2 DEF ds
<1>14. \A x \in Seq(CodePoints) : \A y \in Seq(CodePoints) :
            x \o y \in Seq(CodePoints) /\ Spread(g, x \o y) = Spread(g, x) \o Spread(g, y)
  <2> HIDE DEF g
  <2>1. Maps(g, CodePoints, CodePoints)
    BY <1>7
  <2> QED
    BY ONLY <2>1, SpreadsParts
<1>8. \A i : Occurs(u, ds, i) <=> i \in 1..L /\ u[i] = d
  <2> SUFFICES ASSUME NEW i PROVE Occurs(u, ds, i) <=> i \in 1..L /\ u[i] = d
    OBVIOUS
  <2>1. Occurs(u, ds, i) <=> i \in Int /\ 1 <= i /\ i + 1 <= L + 1 /\ \A j \in 1..1 : u[i + j - 1] = ds[j]
    BY <1>1 DEF Occurs
  <2>2. i \in Int => ((\A j \in 1..1 : u[i + j - 1] = ds[j]) <=> u[i] = d)
    <3> SUFFICES ASSUME i \in Int PROVE (\A j \in 1..1 : u[i + j - 1] = ds[j]) <=> u[i] = d
      OBVIOUS
    <3>1. 1 \in 1..1 /\ i + 1 - 1 = i /\ \A j \in 1..1 : j = 1
      OBVIOUS
    <3> QED
      BY <1>1, <3>1
  <2>3. i \in 1..L <=> i \in Int /\ 1 <= i /\ i + 1 <= L + 1
    BY <1>5
  <2> QED
    BY <2>1, <2>2, <2>3
<1> HIDE DEF g, new, stop, piece, next
<1> DEFINE X == {b \in 1..N : \A k \in 0..L : b = ends[k] + 1 =>
                    h[b] = FromCodepoints(Spread(g, SubSeq(u, k + 1, L)))}
<1>9. ASSUME NEW b \in 1..N, \A j \in b + 1..N : j \in X PROVE b \in X
  <2> SUFFICES ASSUME NEW k \in 0..L, b = ends[k] + 1
               PROVE  h[b] = FromCodepoints(Spread(g, SubSeq(u, k + 1, L)))
    OBVIOUS
  <2> DEFINE q == Find(u, ds, k + 1)
  <2>1. k + 1 \in Nat /\ k + 1 >= 1 /\ k + 1 \in 1..L + 1 /\ k + 1 - 1 = k /\ k + 1 \in Int
    BY <1>5
  <2>2. /\ q \in Nat
        /\ q = 0 => \A i : i >= k + 1 => ~Occurs(u, ds, i)
        /\ q # 0 => q >= k + 1 /\ Occurs(u, ds, q) /\ \A i : i >= k + 1 /\ i < q => ~Occurs(u, ds, i)
    BY <1>1, <2>1, FindIs
  <2>3. Find(s, t, b) = IF q = 0 THEN 0 ELSE ends[q - 1] + 1
    BY <1>1, <1>3, <1>4, FindAligned
  <2> HIDE DEF q
  <2>4. CASE q = 0
    <3>1. Find(s, t, b) = 0
      BY <2>3, <2>4
    <3>2. h[b] = SubSeq(s, b, Len(s))
      <4>1. b \in stop /\ piece[b] = SubSeq(s, b, Len(s))
        BY <3>1 DEF stop, piece, Stops, PieceOf
      <4> QED
        BY <1>6, <4>1 DEF InARow
    <3>3. L \in k..L
      BY <1>5
    <3>4. SubSeq(s, ends[k] + 1, ends[L]) = FromCodepoints(SubSeq(u, k + 1, L))
      BY <1>3, <3>3, PartInBytes
    <3>5. h[b] = FromCodepoints(SubSeq(u, k + 1, L))
      BY <1>5, <3>2, <3>4
    <3>6. \A i \in k + 1..L : u[i] # d
      <4>1. \A i \in k + 1..L : i >= k + 1 /\ i \in 1..L
        BY <1>5, <2>1
      <4> QED
        BY <1>8, <2>2, <2>4, <4>1
    <3>7. Spread(g, SubSeq(u, k + 1, L)) = SubSeq(u, k + 1, L)
      BY <1>5, <2>1, <3>6, PartWithout DEF g
    <3> QED
      BY <3>5, <3>7
  <2>5. CASE q # 0
    <3> DEFINE z == ends[q - 1]
               v == SubSeq(u, k + 1, q - 1)
               w == SubSeq(u, q + 1, L)
    <3>1. /\ q >= k + 1 /\ q \in 1..L /\ u[q] = d
          /\ q - 1 \in 0..L /\ q - 1 \in k..L /\ q \in 0..L /\ q + 1 \in Int /\ q - 1 \in Int
      BY <1>5, <1>8, <2>1, <2>2, <2>5
    <3>2. \A i \in k + 1..q - 1 : u[i] # d
      <4>1. \A i \in k + 1..q - 1 : i >= k + 1 /\ i < q /\ i \in 1..L
        BY <1>5, <2>1, <3>1
      <4> QED
        BY <1>8, <2>2, <2>5, <4>1
    <3>3. z \in Nat /\ Find(s, t, b) = z + 1 /\ z + 1 # 0 /\ z + 1 - 1 = z
      <4>1. z \in 0..Len(s) /\ Find(s, t, b) = z + 1
        BY <1>5, <2>3, <2>5, <3>1
      <4> HIDE DEF z
      <4> QED
        BY <1>5, <4>1
    <3>4. ends[q] = z + Len(t) /\ Len(t) \in Nat
      <4>1. ends[q] = ends[q - 1] + Len(Encoded(u[q]))
        BY <1>3, <3>1 DEF Encodes
      <4> QED
        BY <1>2, <3>1, <4>1, LenProperties DEF t
    <3> HIDE DEF z, v, w
    <3>5. b \notin stop
      BY <3>3 DEF stop, Stops
    <3>6. next[b] = ends[q] + 1 /\ next[b] \in b + 1..N /\ next[b] \in 1..N
      <4>1. next[b] = (z + 1) + Len(t) /\ next[b] \in b + 1..N
        <5>0. b \in 1..Len(s) + 1 /\ b \notin Stops(s, t)
          BY <3>5 DEF stop
        <5>1. NextOf(s, t)[b] = Find(s, t, b) + Len(t) /\ NextOf(s, t)[b] \in b + 1..Len(s) + 1
          <6>1. s \in Seq(Nat) /\ t \in Seq(Nat) /\ t # <<>>
            BY <1>2, <1>5
          <6> QED
            BY <5>0, <6>1, FindGoesOn
        <5> QED
          BY <3>3, <5>1 DEF next
      <4>2. ends[q] + 1 = (z + 1) + Len(t)
        BY <3>3, <3>4
      <4>3. \A j \in b + 1..N : j \in 1..N
        BY <1>5
      <4> QED
        BY <4>1, <4>2, <4>3
    <3>7. piece[b] = FromCodepoints(v) /\ v \in Seq(CodePoints)
      <4>1. piece[b] = SubSeq(s, b, z)
        <5>1. piece[b] = SubSeq(s, b, IF Find(s, t, b) = 0 THEN Len(s) ELSE Find(s, t, b) - 1)
          BY DEF piece, PieceOf
        <5>2. (IF Find(s, t, b) = 0 THEN Len(s) ELSE Find(s, t, b) - 1) = z
          BY <3>3
        <5> QED
          BY <5>1, <5>2
      <4>2. /\ SubSeq(u, k + 1, q - 1) \in Seq(CodePoints)
            /\ SubSeq(s, ends[k] + 1, ends[q - 1]) = FromCodepoints(SubSeq(u, k + 1, q - 1))
        BY <1>3, <3>1, PartInBytes
      <4> QED
        BY <4>1, <4>2 DEF z, v
    <3>8. h[next[b]] = FromCodepoints(Spread(g, w)) /\ w \in Seq(CodePoints)
      <4>1. next[b] \in X
        BY <1>9, <3>6
      <4>2. h[next[b]] = FromCodepoints(Spread(g, SubSeq(u, q + 1, L)))
        BY <3>1, <3>6, <4>1
      <4>3. w \in Seq(CodePoints)
        BY <1>5, <3>1, Part DEF w
      <4> QED
        BY <4>2, <4>3 DEF w
    <3>9. SubSeq(u, k + 1, L) = v \o (ds \o w)
      <4>1. SubSeq(u, q, L) = <<u[q]>> \o SubSeq(u, q + 1, L)
        <5>1. L \in q..Len(u) /\ q \in 1..Len(u)
          BY <1>5, <3>1
        <5> QED
          BY <5>1, SubSeqRecursiveFirst
      <4>2. SubSeq(u, k + 1, q - 1) \o SubSeq(u, q, L) = SubSeq(u, k + 1, L)
        <5> DEFINE m == q - 1
                   n == k + 1
        <5>1. /\ n \in Int /\ m \in Int /\ q \in Int /\ L \in Int /\ 1 <= n /\ n <= q /\ q = m + 1
              /\ m <= L /\ L <= Len(u)
          BY <1>5, <2>1, <3>1
        <5> HIDE DEF m, n, L
        <5>2. SubSeq(u, n, m) \o SubSeq(u, q, L) = SubSeq(u, n, L)
          BY <5>1, Adjacent
        <5> QED
          BY <5>2 DEF m, n
      <4> QED
        BY <3>1, <4>1, <4>2 DEF ds, v, w
    <3>10. Spread(g, v) = v
      <4> DEFINE m == q - 1
                 n == k + 1
      <4>1. n \in Int /\ m \in Int /\ 1 <= n /\ m <= Len(u) /\ \A i \in n..m : u[i] # d
        BY <1>5, <2>1, <3>1, <3>2
      <4> HIDE DEF m, n
      <4>2. Spread(Only(d, r), SubSeq(u, n, m)) = SubSeq(u, n, m)
        BY <4>1, PartWithout
      <4> QED
        BY <4>2 DEF g, v, m, n
    <3>11. Spread(g, v \o (ds \o w)) = v \o (r \o Spread(g, w))
      <4>1. \A x \in Seq(CodePoints) : \A y \in Seq(CodePoints) :
                x \o y \in Seq(CodePoints) /\ Spread(g, x \o y) = Spread(g, x) \o Spread(g, y)
        BY <1>14
      <4>2. ds \o w \in Seq(CodePoints) /\ Spread(g, ds \o w) = r \o Spread(g, w)
        BY <1>1, <1>7, <3>8, <4>1
      <4>3. Spread(g, v \o (ds \o w)) = Spread(g, v) \o Spread(g, ds \o w)
        BY <3>7, <4>1, <4>2
      <4> QED
        BY <3>10, <4>2, <4>3
    <3> DEFINE x == Spread(g, w)
    <3>12. x \in Seq(CodePoints)
      BY <1>7, <3>8
    <3>13. h[b] = (FromCodepoints(v) \o new) \o FromCodepoints(x)
      <4>1. h[b] = Cat(Cat(piece[b], new), h[next[b]])
        BY <1>6, <3>5 DEF InARow
      <4> QED
        BY <3>7, <3>8, <4>1 DEF Cat
    <3> HIDE DEF x
    <3>14. FromCodepoints(v \o (r \o x)) = FromCodepoints(v) \o (new \o FromCodepoints(x))
      <4>1. r \o x \in Seq(CodePoints)
        BY <3>12, ConcatProperties
      <4>2. /\ FromCodepoints(v \o (r \o x)) = FromCodepoints(v) \o FromCodepoints(r \o x)
            /\ FromCodepoints(r \o x) = FromCodepoints(r) \o FromCodepoints(x)
        BY <3>7, <3>12, <4>1, FromCodepointsIs
      <4> QED
        BY <4>2 DEF new
    <3>15. (FromCodepoints(v) \o new) \o FromCodepoints(x) = FromCodepoints(v) \o (new \o FromCodepoints(x))
      <4> DEFINE y == FromCodepoints(v)
                 p == FromCodepoints(x)
      <4>1. y \in Seq(Nat) /\ p \in Seq(Nat)
        BY <3>7, <3>12, FromCodepointsIs
      <4>2. new \in Seq(Nat)
        BY <1>5
      <4> HIDE DEF y, p
      <4>3. (y \o new) \o p = y \o (new \o p)
        BY <4>1, <4>2, Associates
      <4> QED
        BY <4>3 DEF y, p
    <3> QED
      BY <3>9, <3>11, <3>13, <3>14, <3>15 DEF x
  <2> QED
    BY <2>4, <2>5
<1> HIDE DEF X, N
<1>10. 1..N \subseteq X
  BY <1>5, <1>9, InductionFromTheRight
<1>11. 1 \in X /\ 1 \in 1..N /\ 0 \in 0..L /\ 1 = ends[0] + 1 /\ 0 + 1 = 1
  <2>1. 1 \in 1..N
    BY <1>5 DEF N
  <2>2. 0 \in 0..L /\ 1 = ends[0] + 1
    BY <1>5
  <2> QED
    BY <1>10, <2>1, <2>2
<1>12. h[1] = FromCodepoints(Spread(g, SubSeq(u, 0 + 1, L)))
  BY <1>11 DEF X
<1>13. SubSeq(u, 0 + 1, L) = u
  BY <1>11, SubSeqFull
<1> QED
  BY <1>6, <1>12, <1>13 DEF s, t, g, new

\* One character is, in bytes, what Encoded makes of it.
LEMMA OneCharacter ==
    /\ FromCodepoints(<<>>) = <<>> /\ <<>> \in Seq(CodePoints)
    /\ \A c \in CodePoints : <<c>> \in Seq(CodePoints) /\ FromCodepoints(<<c>>) = Encoded(c)
<1>1. FromCodepoints(<<>>) = <<>> /\ <<>> \in Seq(CodePoints)
  BY FromCodepointsIs
<1>2. ASSUME NEW c \in CodePoints
      PROVE  <<c>> \in Seq(CodePoints) /\ FromCodepoints(<<c>>) = Encoded(c)
  <2>1. <<c>> \in Seq(CodePoints) /\ Append(<<>>, c) = <<c>>
    OBVIOUS
  <2>2. FromCodepoints(Append(<<>>, c)) = FromCodepoints(<<>>) \o Encoded(c)
    BY <1>1, FromCodepointsIs
  <2>3. Encoded(c) \in Seq(Nat)
    BY EncodedIs
  <2>4. <<>> \o Encoded(c) = Encoded(c)
    BY <2>3, ConcatEmptySeq
  <2> QED
    BY <1>1, <2>1, <2>2, <2>4
<1> QED
  BY <1>1, <1>2

-----------------------------------------------------------------------------
\* Characters translated one after the other.

\* PlaceIn is the first place, and 0 for none.
LEMMA PlaceInIs ==
    ASSUME NEW C, NEW from \in Seq(C), NEW c
    PROVE  /\ PlaceIn(from, c) \in 0..Len(from)
           /\ PlaceIn(from, c) = 0 => \A i \in 1..Len(from) : from[i] # c
           /\ PlaceIn(from, c) # 0 => /\ from[PlaceIn(from, c)] = c
                                      /\ \A i \in 1..Len(from) : i < PlaceIn(from, c) => from[i] # c
<1> DEFINE places == {i \in DOMAIN from : from[i] = c}
<1>1. PlaceIn(from, c) = IF places = {} THEN 0 ELSE Min(places)
  BY DEF PlaceIn
<1>2. Len(from) \in Nat /\ DOMAIN from = 1..Len(from)
  BY LenProperties
<1>3. \A i \in 1..Len(from) : i \in places <=> from[i] = c
  BY <1>2
<1>4. \A i \in places : i \in 1..Len(from)
  BY <1>2
<1> HIDE DEF places
<1>5. CASE places = {}
  BY <1>1, <1>2, <1>3, <1>5
<1>6. CASE places # {}
  <2>1. places \in SUBSET Nat /\ places \in SUBSET Int
    BY <1>4
  <2>2. PICK a \in places : \A x \in places : a <= x
    BY <1>6, <2>1, LeastElement
  <2>3. Min(places) = a
    BY <2>1, <2>2, LeastOf
  <2>4. PlaceIn(from, c) = a
    BY <1>1, <1>6, <2>3
  <2>5. a \in 1..Len(from) /\ from[a] = c /\ a # 0 /\ a \in 0..Len(from)
    BY <1>2, <1>3, <1>4, <2>2
  <2>6. \A i \in 1..Len(from) : i < a => from[i] # c
    <3> SUFFICES ASSUME NEW i \in 1..Len(from), i < a, from[i] = c PROVE FALSE
      OBVIOUS
    <3>1. a <= i
      BY <1>3, <2>2
    <3> QED
      BY <2>5, <3>1
  <2> QED
    BY <2>4, <2>5, <2>6
<1> QED
  BY <1>5, <1>6

\* What comes for the i-th character of from, and what the first i of them become.
Comes(to, i) == IF i \in DOMAIN to THEN <<to[i]>> ELSE <<>>
Turned(from, to, i) ==
    [c \in CodePoints |-> IF PlaceIn(from, c) \in 1..i THEN Comes(to, PlaceIn(from, c)) ELSE <<c>>]

LEMMA TurnedIs ==
    ASSUME NEW from, NEW to, NEW i, \A p : Comes(to, p) \in Seq(CodePoints)
    PROVE  /\ Maps(Turned(from, to, i), CodePoints, CodePoints)
           /\ \A c \in CodePoints :
                /\ PlaceIn(from, c) \in 1..i => Turned(from, to, i)[c] = Comes(to, PlaceIn(from, c))
                /\ PlaceIn(from, c) \notin 1..i => Turned(from, to, i)[c] = <<c>>
<1>1. \A c \in CodePoints : <<c>> \in Seq(CodePoints)
  BY OneCharacter
<1>2. \A c \in CodePoints :
        (IF PlaceIn(from, c) \in 1..i THEN Comes(to, PlaceIn(from, c)) ELSE <<c>>) \in Seq(CodePoints)
  BY <1>1
<1>3. Maps(Turned(from, to, i), CodePoints, CodePoints)
  BY <1>2 DEF Turned, Maps
<1> QED
  BY <1>3 DEF Turned

LEMMA TranslateIs ==
    ASSUME NEW u \in Seq(CodePoints), NEW from \in Seq(CodePoints), NEW to
    PROVE  Translate(u, from, to) = Spread(Turned(from, to, Len(from)), u)
<1> DEFINE f == Turned(from, to, Len(from))
           Say(n) == LET i == PlaceIn(from, u[n])
                     IN CASE i = 0 -> <<u[n]>>
                          [] i \in DOMAIN to -> <<to[i]>>
                          [] OTHER -> <<>>
<1>1. ASSUME NEW n \in DOMAIN u PROVE f[u[n]] = Say(n)
  <2> DEFINE c == u[n]
             p == PlaceIn(from, c)
  <2>1. c \in CodePoints
    BY LenProperties, ElementOfSeq
  <2>2. p \in 0..Len(from) /\ Len(from) \in Nat
    BY PlaceInIs, LenProperties
  <2>3. f[c] = IF p \in 1..Len(from) THEN Comes(to, p) ELSE <<c>>
    BY <2>1 DEF Turned
  <2>4. Say(n) = IF p = 0 THEN <<c>> ELSE Comes(to, p)
    BY DEF Comes
  <2> HIDE DEF c, p, f, Say
  <2>5. p \in 1..Len(from) <=> p # 0
    BY <2>2
  <2> QED
    BY <2>3, <2>4, <2>5 DEF c
<1> HIDE DEF f
<1>2. [n \in DOMAIN u |-> f[u[n]]] = [n \in DOMAIN u |-> Say(n)]
  BY <1>1
<1>3. Translate(u, from, to) = FlattenSeq([n \in DOMAIN u |-> Say(n)])
  BY DEF Translate
<1> QED
  BY <1>2, <1>3 DEF Spread, f

\* The next character's turn: none that came for another is replaced again.
LEMMA TurnsOn ==
    ASSUME NEW from \in Seq(CodePoints), NEW to, NEW i \in 1..Len(from),
           \A p : Comes(to, p) \in Seq(CodePoints),
           \A p \in DOMAIN to : to[p] \in CodePoints /\ to[p] # from[i]
    PROVE  FirstThen(Turned(from, to, i), Turned(from, to, i - 1), Only(from[i], Comes(to, i)), CodePoints)
<1> DEFINE f == Only(from[i], Comes(to, i))
           g == Turned(from, to, i - 1)
           h == Turned(from, to, i)
<1>1. i \in Nat /\ Len(from) \in Nat /\ from[i] \in CodePoints
  BY LenProperties, ElementOfSeq
<1>2. Maps(f, CodePoints, CodePoints) /\ f[from[i]] = Comes(to, i) /\ \A c \in CodePoints : c # from[i] => f[c] = <<c>>
  BY <1>1, OnlyIs
<1>3. /\ \A c \in CodePoints : PlaceIn(from, c) \in 1..i - 1 => g[c] = Comes(to, PlaceIn(from, c))
      /\ \A c \in CodePoints : PlaceIn(from, c) \notin 1..i - 1 => g[c] = <<c>>
  BY TurnedIs
<1>4. /\ \A c \in CodePoints : PlaceIn(from, c) \in 1..i => h[c] = Comes(to, PlaceIn(from, c))
      /\ \A c \in CodePoints : PlaceIn(from, c) \notin 1..i => h[c] = <<c>>
  BY TurnedIs
<1> HIDE DEF f, g, h
<1>5. /\ Spread(f, <<>>) = <<>>
      /\ \A c \in CodePoints : Spread(f, <<c>>) = f[c]
  <2>1. Maps(f, CodePoints, CodePoints)
    BY <1>2
  <2>2. Spread(f, <<>>) = <<>>
    BY <2>1, Spreads
  <2>3. ASSUME NEW c \in CodePoints PROVE Spread(f, <<c>>) = f[c]
    BY <2>1, SpreadOne
  <2> QED
    BY <2>2, <2>3
<1>6. ASSUME NEW c \in CodePoints PROVE h[c] = Spread(f, g[c])
  <2> DEFINE p == PlaceIn(from, c)
  <2>1. /\ p \in 0..Len(from)
        /\ p = 0 => \A j \in 1..Len(from) : from[j] # c
        /\ p # 0 => from[p] = c /\ \A j \in 1..Len(from) : j < p => from[j] # c
    BY PlaceInIs
  <2>2. /\ p \in 1..i - 1 => g[c] = Comes(to, p)
        /\ p \notin 1..i - 1 => g[c] = <<c>>
        /\ p \in 1..i => h[c] = Comes(to, p)
        /\ p \notin 1..i => h[c] = <<c>>
    BY <1>3, <1>4
  <2> HIDE DEF p
  <2>3. CASE p = i
    <3>1. p \notin 1..i - 1 /\ p \in 1..i /\ from[i] = c
      BY <1>1, <2>1, <2>3
    <3> QED
      BY <1>2, <1>5, <2>2, <2>3, <3>1
  <2>4. CASE p \in 1..i - 1
    <3>1. p \in 1..i
      BY <1>1, <2>4
    <3>2. Spread(f, Comes(to, p)) = Comes(to, p)
      <4>1. CASE p \in DOMAIN to
        BY <1>2, <1>5, <4>1 DEF Comes
      <4>2. CASE p \notin DOMAIN to
        BY <1>5, <4>2 DEF Comes
      <4> QED
        BY <4>1, <4>2
    <3> QED
      BY <2>2, <2>4, <3>1, <3>2
  <2>5. CASE p \notin 1..i
    <3>1. p \notin 1..i - 1
      BY <1>1, <2>5
    <3>2. from[i] # c
      BY <1>1, <2>1, <2>5
    <3> QED
      BY <1>2, <1>5, <2>2, <2>5, <3>1, <3>2
  <2>6. p = i \/ p \in 1..i - 1 \/ p \notin 1..i
    BY <1>1, <2>1
  <2> QED
    BY <2>3, <2>4, <2>5, <2>6
<1> QED
  BY <1>6 DEF FirstThen, f, g, h

\* translate's rounds, in bytes: after i of them, the first i characters are turned.
LEMMA RoundsAreReplacements ==
    ASSUME NEW u \in Seq(CodePoints), NEW from \in Seq(CodePoints), NEW to,
           \A p \in DOMAIN to : to[p] \in CodePoints /\ \A j \in 1..Len(from) : to[p] # from[j]
    PROVE  /\ \A p : Comes(to, p) \in Seq(CodePoints)
           /\ Spread(Turned(from, to, 0), u) = u
           /\ \A i \in 1..Len(from) :
                ReplaceOracle(FromCodepoints(Spread(Turned(from, to, i - 1), u)), Encoded(from[i]),
                              IF i \in DOMAIN to THEN Encoded(to[i]) ELSE <<>>) =
                    FromCodepoints(Spread(Turned(from, to, i), u))
<1>1. \A p : Comes(to, p) \in Seq(CodePoints) /\
             FromCodepoints(Comes(to, p)) = IF p \in DOMAIN to THEN Encoded(to[p]) ELSE <<>>
  BY OneCharacter DEF Comes
<1>2. \A p : Comes(to, p) \in Seq(CodePoints)
  BY <1>1
<1>3. Spread(Turned(from, to, 0), u) = u
  <2> DEFINE g == Turned(from, to, 0)
  <2>1. Maps(g, CodePoints, CodePoints) /\ \A c \in CodePoints : PlaceIn(from, c) \notin 1..0 => g[c] = <<c>>
    BY <1>2, TurnedIs
  <2> HIDE DEF g
  <2>2. \A c \in CodePoints : PlaceIn(from, c) \notin 1..0
    OBVIOUS
  <2>3. \A n \in 1..Len(u) : g[u[n]] = <<u[n]>>
    BY <2>1, <2>2, ElementOfSeq
  <2>4. Spread(g, u) = u
    BY <2>1, <2>3, SpreadSame
  <2> QED
    BY <2>4 DEF g
<1>4. ASSUME NEW i \in 1..Len(from)
      PROVE  ReplaceOracle(FromCodepoints(Spread(Turned(from, to, i - 1), u)), Encoded(from[i]),
                           IF i \in DOMAIN to THEN Encoded(to[i]) ELSE <<>>) =
                    FromCodepoints(Spread(Turned(from, to, i), u))
  <2> DEFINE r == Comes(to, i)
             d == from[i]
             f == Only(d, r)
             g == Turned(from, to, i - 1)
             h == Turned(from, to, i)
             v == Spread(g, u)
  <2>1. d \in CodePoints /\ r \in Seq(CodePoints) /\ FromCodepoints(r) = IF i \in DOMAIN to THEN Encoded(to[i]) ELSE <<>>
    BY <1>1, ElementOfSeq
  <2>2. Maps(f, CodePoints, CodePoints)
    BY <2>1, OnlyIs
  <2>3. Maps(g, CodePoints, CodePoints)
    BY <1>2, TurnedIs
  <2>4. Maps(h, CodePoints, CodePoints)
    BY <1>2, TurnedIs
  <2>5. FirstThen(h, g, f, CodePoints)
    BY <1>2, TurnsOn
  <2> HIDE DEF f, g, h, r, d
  <2>6. v \in Seq(CodePoints)
    BY <2>3, Spreads
  <2>7. Spread(f, v) = Spread(h, u)
    BY <2>2, <2>3, <2>4, <2>5, SpreadTwice
  <2> HIDE DEF v
  <2>8. ReplaceOracle(FromCodepoints(v), Encoded(d), FromCodepoints(r)) = FromCodepoints(Spread(f, v))
    BY <2>1, <2>6, ReplaceCharacter DEF f
  <2> QED
    BY <2>1, <2>7, <2>8 DEF d, g, h, v
<1> QED
  BY <1>2, <1>3, <1>4

\* The string after a round for each character of from.
Replaced(u, from, to) ==
    LET replaced[i \in 0..Len(from)] ==
            IF i = 0 THEN FromCodepoints(u)
            ELSE ReplaceOracle(replaced[i - 1], Encoded(from[i]), IF i \in DOMAIN to THEN Encoded(to[i]) ELSE <<>>)
    IN replaced[Len(from)]

LEMMA TranslateReplaces ==
    ASSUME NEW u \in Seq(CodePoints), NEW from \in Seq(CodePoints), NEW to,
           \A p \in DOMAIN to : to[p] \in CodePoints /\ \A j \in 1..Len(from) : to[p] # from[j]
    PROVE  FromCodepoints(Translate(u, from, to)) = Replaced(u, from, to)
<1> DEFINE L == Len(from)
           new(i) == IF i \in DOMAIN to THEN Encoded(to[i]) ELSE <<>>
           Solves(f) == f = [i \in 0..L |-> IF i = 0 THEN FromCodepoints(u)
                                            ELSE ReplaceOracle(f[i - 1], Encoded(from[i]), new(i))]
           replaced == CHOOSE f : Solves(f)
           rounds == [i \in 0..L |-> FromCodepoints(Spread(Turned(from, to, i), u))]
<1> SUFFICES FromCodepoints(Translate(u, from, to)) = replaced[L]
  BY DEF Replaced
<1>1. /\ Spread(Turned(from, to, 0), u) = u
      /\ \A i \in 1..L : ReplaceOracle(FromCodepoints(Spread(Turned(from, to, i - 1), u)), Encoded(from[i]), new(i)) =
                            FromCodepoints(Spread(Turned(from, to, i), u))
  BY RoundsAreReplacements
<1>2. L \in Nat
  BY LenProperties
<1> HIDE DEF new, L
<1>3. rounds[0] = FromCodepoints(u)
      /\ \A i \in 1..L : rounds[i] = ReplaceOracle(rounds[i - 1], Encoded(from[i]), new(i))
  <2>1. 0 \in 0..L /\ \A i \in 1..L : i \in 0..L /\ i - 1 \in 0..L
    BY <1>2
  <2> QED
    BY <1>1, <2>1
<1>4. Solves(rounds)
  <2>1. \A i \in 0..L : i # 0 => i \in 1..L
    BY <1>2
  <2>2. \A i \in 0..L : rounds[i] = IF i = 0 THEN FromCodepoints(u)
                                    ELSE ReplaceOracle(rounds[i - 1], Encoded(from[i]), new(i))
    BY <1>3, <2>1
  <2>3. rounds = [i \in 0..L |-> rounds[i]]
    OBVIOUS
  <2> HIDE DEF rounds
  <2> QED
    BY <2>2, <2>3
<1>5. Solves(replaced)
  <2> HIDE DEF Solves, rounds
  <2> QED
    BY <1>4
<1> HIDE DEF replaced
<1>6. \A i \in 0..L : replaced[i] = IF i = 0 THEN FromCodepoints(u)
                                    ELSE ReplaceOracle(replaced[i - 1], Encoded(from[i]), new(i))
  BY <1>5
<1> HIDE DEF rounds, Solves
<1> DEFINE X == {n \in Nat : n <= L => replaced[n] = rounds[n]}
<1>7. 0 \in X
  BY <1>2, <1>3, <1>6
<1>8. ASSUME NEW n \in Nat, n \in X PROVE n + 1 \in X
  <2> SUFFICES ASSUME n + 1 <= L PROVE replaced[n + 1] = rounds[n + 1]
    OBVIOUS
  <2> DEFINE m == n + 1
  <2>1. m \in 1..L /\ m \in 0..L /\ m # 0 /\ m - 1 = n /\ n <= L
    BY <1>2
  <2> HIDE DEF m
  <2>2. replaced[m] = ReplaceOracle(replaced[n], Encoded(from[m]), new(m))
    BY <1>6, <2>1
  <2>3. rounds[m] = ReplaceOracle(rounds[n], Encoded(from[m]), new(m))
    BY <1>3, <2>1
  <2>4. replaced[n] = rounds[n]
    BY <1>8, <2>1
  <2> QED
    BY <2>2, <2>3, <2>4 DEF m
<1> HIDE DEF X
<1>9. Nat \subseteq X
  BY <1>7, <1>8, InductionOverSet
<1>10. replaced[L] = FromCodepoints(Spread(Turned(from, to, L), u))
  <2>1. L \in 0..L /\ L <= L
    BY <1>2
  <2>2. replaced[L] = rounds[L]
    BY <1>2, <1>9, <2>1 DEF X
  <2> QED
    BY <2>1, <2>2 DEF rounds
<1> QED
  BY <1>10, TranslateIs DEF L

\* The characters of a text of pairwise different ones, in reverse: turned twice, each
\* is itself again.
LEMMA ReverseTwice ==
    ASSUME NEW u \in Seq(CodePoints), NEW from \in Seq(CodePoints),
           \A i, j \in 1..Len(from) : from[i] = from[j] => i = j
    PROVE  Translate(Translate(u, from, Reverse(from)), from, Reverse(from)) = u
<1> DEFINE L == Len(from)
           to == Reverse(from)
           g == Turned(from, to, L)
           h == [c \in CodePoints |-> <<c>>]
<1>1. L \in Nat
  BY LenProperties
<1>2. \A p \in 1..L : from[p] \in CodePoints /\ L - p + 1 \in 1..L /\ L - (L - p + 1) + 1 = p
  BY <1>1, ElementOfSeq
<1>3. /\ DOMAIN to = 1..L
      /\ \A p \in 1..L : to[p] = from[L - p + 1]
  BY <1>1 DEF Reverse
<1> HIDE DEF to
<1>4. \A p \in DOMAIN to : to[p] \in CodePoints
  BY <1>2, <1>3
<1>5. \A p : Comes(to, p) \in Seq(CodePoints)
  BY <1>4, OneCharacter DEF Comes
<1>6. Maps(g, CodePoints, CodePoints)
  BY <1>5, TurnedIs
<1>7. /\ \A c \in CodePoints : PlaceIn(from, c) \in 1..L => g[c] = Comes(to, PlaceIn(from, c))
      /\ \A c \in CodePoints : PlaceIn(from, c) \notin 1..L => g[c] = <<c>>
  BY <1>5, TurnedIs
<1> HIDE DEF g
<1>8. \A c \in CodePoints : /\ PlaceIn(from, c) \in 0..L
                            /\ PlaceIn(from, c) # 0 => from[PlaceIn(from, c)] = c
                            /\ PlaceIn(from, c) = 0 => \A i \in 1..L : from[i] # c
  BY PlaceInIs
<1> HIDE DEF L
<1>9. \A p \in 1..L : PlaceIn(from, from[p]) = p
  <2> SUFFICES ASSUME NEW p \in 1..L PROVE PlaceIn(from, from[p]) = p
    OBVIOUS
  <2> DEFINE q == PlaceIn(from, from[p])
  <2>1. q \in 0..L /\ (q # 0 => from[q] = from[p]) /\ (q = 0 => from[p] # from[p])
    BY <1>2, <1>8
  <2> HIDE DEF q
  <2>2. q \in 1..L /\ from[q] = from[p]
    BY <1>1, <2>1
  <2>3. q = p
    BY <2>2 DEF L
  <2> QED
    BY <2>3 DEF q
<1>10. \A p \in 1..L : g[from[p]] = <<from[L - p + 1]>>
  BY <1>2, <1>3, <1>7, <1>9 DEF Comes
<1>11. /\ Spread(g, <<>>) = <<>>
       /\ \A c \in CodePoints : Spread(g, <<c>>) = g[c]
       /\ Spread(g, u) \in Seq(CodePoints)
  <2>1. Spread(g, <<>>) = <<>> /\ Spread(g, u) \in Seq(CodePoints)
    BY <1>6, Spreads
  <2>2. ASSUME NEW c \in CodePoints PROVE Spread(g, <<c>>) = g[c]
    BY <1>6, SpreadOne
  <2> QED
    BY <2>1, <2>2
<1>12. ASSUME NEW c \in CodePoints PROVE <<c>> = Spread(g, g[c])
  <2> DEFINE p == PlaceIn(from, c)
  <2>1. p \in 0..L /\ (p # 0 => from[p] = c)
    BY <1>8
  <2>2. p \notin 1..L => g[c] = <<c>>
    BY <1>7
  <2> HIDE DEF p
  <2>3. CASE p \notin 1..L
    BY <1>11, <2>2, <2>3
  <2>4. CASE p \in 1..L
    <3> DEFINE n == L - p + 1
    <3>1. from[p] = c
      BY <2>1, <2>4
    <3>2. g[c] = <<from[n]>>
      BY <1>10, <2>4, <3>1
    <3>3. n \in 1..L /\ L - n + 1 = p /\ from[n] \in CodePoints
      BY <1>2, <2>4
    <3> HIDE DEF n
    <3>4. g[from[n]] = <<from[p]>>
      BY <1>10, <3>3
    <3> QED
      BY <1>11, <3>1, <3>2, <3>3, <3>4
  <2> QED
    BY <2>3, <2>4
<1>13. Maps(h, CodePoints, CodePoints) /\ (\A c \in CodePoints : h[c] = <<c>>)
  BY OneCharacter DEF Maps
<1> HIDE DEF h
<1>14. FirstThen(h, g, g, CodePoints)
  BY <1>12, <1>13 DEF FirstThen
<1>15. Spread(g, Spread(g, u)) = Spread(h, u)
  BY <1>6, <1>13, <1>14, SpreadTwice
<1>16. Spread(h, u) = u
  <2>1. \A n \in 1..Len(u) : h[u[n]] = <<u[n]>>
    BY <1>13, ElementOfSeq
  <2>2. Maps(h, CodePoints, CodePoints)
    BY <1>13
  <2> QED
    BY <2>1, <2>2, SpreadSame
<1>17. Translate(u, from, to) = Spread(g, u) /\ Translate(Spread(g, u), from, to) = Spread(g, Spread(g, u))
  BY <1>11, TranslateIs DEF g, L
<1> QED
  BY <1>15, <1>16, <1>17 DEF to

\* The tutorial's translate is replace, one character after the other, though the one
\* works on code points and the other on bytes (prop_strings.cpp, TranslateOracle and
\* ReplaceOracle): the first of equal characters counts, those without a counterpart go,
\* none that was put in is replaced again, and an exchange of characters undoes itself.
THEOREM TranslationsAreReplacements == Spec => []TranslateReplacesInTurn
<1>1. Types => TranslateReplacesInTurn
  <2> DEFINE C == Topics["places"].chars
             D == Topics["places"].otherChars
             fresh == C \ ToSet(other)
  <2> SUFFICES ASSUME Types, topic = "places"
               PROVE  /\ \A to \in BoundedSeq(fresh, Topics[topic].maxOther) :
                            LET replaced[i \in 0..Len(other)] ==
                                    IF i = 0 THEN FromCodepoints(text)
                                    ELSE ReplaceOracle(replaced[i - 1], Encoded(other[i]),
                                                       IF i \in DOMAIN to THEN Encoded(to[i]) ELSE <<>>)
                            IN FromCodepoints(Translate(text, other, to)) = replaced[Len(other)]
                      /\ Cardinality(ToSet(other)) = Len(other) =>
                            Translate(Translate(text, other, Reverse(other)), other, Reverse(other)) = text
    BY DEF TranslateReplacesInTurn
  <2>1. C \subseteq CodePoints /\ D \subseteq CodePoints
    BY TopicsAssumption
  <2>2. text \in Seq(C) /\ other \in Seq(D)
    BY DEF Types
  <2> HIDE DEF C, D
  <2>3. text \in Seq(CodePoints) /\ other \in Seq(CodePoints)
    BY <2>1, <2>2
  <2>4. \A j \in 1..Len(other) : other[j] \in ToSet(other)
    BY <2>3, LenProperties DEF ToSet
  <2>5. ASSUME NEW to \in BoundedSeq(fresh, Topics[topic].maxOther)
        PROVE  \A p \in DOMAIN to : to[p] \in CodePoints /\ \A j \in 1..Len(other) : to[p] # other[j]
    <3>1. \A p \in DOMAIN to : to[p] \in fresh
      BY DEF BoundedSeq, SeqOf
    <3> QED
      BY <2>1, <2>4, <3>1
  <2>6. ASSUME Cardinality(ToSet(other)) = Len(other)
        PROVE  \A i, j \in 1..Len(other) : other[i] = other[j] => i = j
    <3> DEFINE I == 1..Len(other)
    <3>1. Len(other) \in Nat /\ DOMAIN other = I /\ other \in [I -> CodePoints]
      BY <2>3, LenProperties, ElementOfSeq
    <3>2. IsFiniteSet(I) /\ Cardinality(I) = Len(other)
      BY <3>1, FS_Interval
    <3>3. ToSet(other) = {other[i] : i \in I}
      BY <3>1 DEF ToSet
    <3> HIDE DEF I
    <3>4. other \in Surjection(I, ToSet(other))
      BY <3>1, <3>3 DEF Surjection
    <3>5. other \in Injection(I, ToSet(other))
      BY <2>6, <3>2, <3>4, FS_SurjSameCardinalityImpliesInj
    <3> QED
      BY <3>5 DEF Injection, IsInjective, I
  <2>7. ASSUME NEW to \in BoundedSeq(fresh, Topics[topic].maxOther)
        PROVE  LET replaced[i \in 0..Len(other)] ==
                        IF i = 0 THEN FromCodepoints(text)
                        ELSE ReplaceOracle(replaced[i - 1], Encoded(other[i]),
                                           IF i \in DOMAIN to THEN Encoded(to[i]) ELSE <<>>)
               IN FromCodepoints(Translate(text, other, to)) = replaced[Len(other)]
    <3>1. \A p \in DOMAIN to : to[p] \in CodePoints /\ \A j \in 1..Len(other) : to[p] # other[j]
      BY <2>5
    <3>2. FromCodepoints(Translate(text, other, to)) = Replaced(text, other, to)
      BY <2>3, <3>1, TranslateReplaces
    <3> QED
      BY <3>2 DEF Replaced
  <2>8. ASSUME Cardinality(ToSet(other)) = Len(other)
        PROVE  Translate(Translate(text, other, Reverse(other)), other, Reverse(other)) = text
    BY <2>3, <2>6, <2>8, ReverseTwice
  <2> QED
    BY <2>7, <2>8
<1> QED
  BY <1>1, TypesHold, PTL

-----------------------------------------------------------------------------
\* Lists that are sorted.

\* Places of a list, and how many of them there are.
LEMMA PlacesAreFinite ==
    ASSUME NEW n \in Nat, NEW S \in SUBSET (1..n)
    PROVE  /\ IsFiniteSet(S) /\ Cardinality(S) \in Nat /\ Cardinality(S) <= n
           /\ \A T \in SUBSET S : IsFiniteSet(T) /\ Cardinality(T) \in Nat /\ Cardinality(T) <= Cardinality(S)
<1>1. IsFiniteSet(1..n) /\ Cardinality(1..n) = n
  BY FS_Interval
<1>2. IsFiniteSet(S) /\ Cardinality(S) <= n
  BY <1>1, FS_Subset
<1>3. \A T \in SUBSET S : IsFiniteSet(T) /\ Cardinality(T) <= Cardinality(S)
  BY <1>2, FS_Subset
<1> QED
  BY <1>2, <1>3, FS_CardinalityType

\* One that is in the larger set and not in the smaller makes a difference.
LEMMA OneMore ==
    ASSUME NEW n \in Nat, NEW S \in SUBSET (1..n), NEW T \in SUBSET S, NEW x \in S, x \notin T
    PROVE  Cardinality(T) < Cardinality(S)
<1>1. IsFiniteSet(S) /\ IsFiniteSet(T) /\ Cardinality(S) \in Nat /\ Cardinality(T) \in Nat
  BY PlacesAreFinite
<1>2. Cardinality(T \cup {x}) = Cardinality(T) + 1
  BY <1>1, FS_AddElement
<1>3. T \cup {x} \in SUBSET S
  OBVIOUS
<1>4. Cardinality(T \cup {x}) <= Cardinality(S)
  BY <1>3, PlacesAreFinite
<1> QED
  BY <1>1, <1>2, <1>4

\* before[i]: what comes before the i-th. If that is an order of all of 1..n, then for
\* each place there is one that as many come before as there are places before it.
Orders(before, n) ==
    /\ before \in [1..n -> SUBSET (1..n)]
    /\ \A i \in 1..n : i \notin before[i]
    /\ \A i, j \in 1..n : j \in before[i] => before[j] \subseteq before[i]
    /\ \A i, j \in 1..n : i = j \/ i \in before[j] \/ j \in before[i]

LEMMA EveryPlaceIsTaken ==
    ASSUME NEW n \in Nat, NEW before, Orders(before, n)
    PROVE  /\ \A i \in 1..n : Cardinality(before[i]) \in Nat /\ Cardinality(before[i]) + 1 \in 1..n
           /\ \A i, j \in 1..n : j \in before[i] => Cardinality(before[j]) < Cardinality(before[i])
           /\ \A k \in 1..n : \E i \in 1..n : Cardinality(before[i]) + 1 = k
<1> DEFINE I == 1..n
           place == [i \in I |-> Cardinality(before[i]) + 1]
<1>1. /\ \A i \in I : before[i] \in SUBSET (1..n) /\ i \notin before[i]
      /\ \A i, j \in I : j \in before[i] => before[j] \subseteq before[i]
      /\ \A i, j \in I : i = j \/ i \in before[j] \/ j \in before[i]
  BY DEF Orders
<1>2. ASSUME NEW i \in I
      PROVE  Cardinality(before[i]) \in Nat /\ Cardinality(before[i]) < n
  <2>1. 1..n \in SUBSET (1..n) /\ before[i] \in SUBSET (1..n) /\ i \in 1..n /\ i \notin before[i]
    BY <1>1
  <2>2. Cardinality(before[i]) < Cardinality(1..n)
    BY <2>1, OneMore
  <2>3. Cardinality(1..n) = n
    BY FS_Interval
  <2> QED
    BY <2>1, <2>2, <2>3, PlacesAreFinite
<1>3. ASSUME NEW i \in I, NEW j \in I, j \in before[i]
      PROVE  Cardinality(before[j]) < Cardinality(before[i])
  <2>1. before[i] \in SUBSET (1..n) /\ before[j] \in SUBSET before[i] /\ j \notin before[j]
    BY <1>1, <1>3
  <2> QED
    BY <1>3, <2>1, OneMore
<1>4. place \in [I -> I]
  BY <1>2
<1>5. \A i, j \in I : place[i] = place[j] => i = j
  <2> SUFFICES ASSUME NEW i \in I, NEW j \in I, place[i] = place[j], i # j PROVE FALSE
    OBVIOUS
  <2>1. Cardinality(before[i]) = Cardinality(before[j]) /\ Cardinality(before[i]) \in Nat
    BY <1>2
  <2>2. i \in before[j] \/ j \in before[i]
    BY <1>1
  <2> QED
    BY <1>3, <2>1, <2>2
<1>6. place \in Injection(I, I)
  <2> HIDE DEF place
  <2> QED
    BY <1>4, <1>5 DEF Injection, IsInjective
<1>7. IsFiniteSet(I)
  BY FS_Interval
<1> HIDE DEF place
<1>8. place \in Surjection(I, I)
  BY <1>6, <1>7, FS_Injection
<1>9. \A k \in I : \E i \in I : place[i] = k
  BY <1>8 DEF Surjection
<1>10. \A k \in I : \E i \in I : Cardinality(before[i]) + 1 = k
  BY <1>9 DEF place
<1>11. \A i \in I : Cardinality(before[i]) \in Nat /\ Cardinality(before[i]) + 1 \in I
  BY <1>2
<1> QED
  BY <1>3, <1>10, <1>11

\* R: a strict weak order of the values V, as std::stable_sort needs.
Weak(R, V) ==
    /\ \A x, y \in V : <<x, y>> \in R => <<y, x>> \notin R
    /\ \A x, y, z \in V : <<x, y>> \notin R /\ <<y, z>> \notin R => <<x, z>> \notin R

\* The places that come before the i-th in a stable sort.
Earlier(values, R) ==
    [i \in DOMAIN values |-> {j \in DOMAIN values :
        <<values[j], values[i]>> \in R \/ (<<values[i], values[j]>> \notin R /\ j < i)}]

LEMMA EarlierOrders ==
    ASSUME NEW V, NEW values \in Seq(V), NEW R, Weak(R, V)
    PROVE  Orders(Earlier(values, R), Len(values))
<1> DEFINE n == Len(values)
           I == 1..n
           B == Earlier(values, R)
           less(i, j) == <<values[i], values[j]>> \in R
<1>1. n \in Nat /\ DOMAIN values = I /\ \A i \in I : values[i] \in V
  BY LenProperties, ElementOfSeq
<1>2. B \in [I -> SUBSET I] /\ \A i, j \in I : j \in B[i] <=> less(j, i) \/ (~less(i, j) /\ j < i)
  BY <1>1 DEF Earlier
<1>3. /\ \A i, j \in I : less(i, j) => ~less(j, i)
      /\ \A i, j, k \in I : ~less(i, j) /\ ~less(j, k) => ~less(i, k)
  BY <1>1 DEF Weak
<1>4. \A i \in I : i \in Int
  BY <1>1
<1> HIDE DEF B, less, I, n
<1>5. \A i \in I : i \notin B[i]
  BY <1>2, <1>3, <1>4
<1>6. ASSUME NEW i \in I, NEW j \in I, j \in B[i] PROVE B[j] \subseteq B[i]
  <2> SUFFICES ASSUME NEW k \in I, k \in B[j] PROVE k \in B[i]
    BY <1>2
  <2>1. less(j, i) \/ (~less(i, j) /\ j < i)
    BY <1>2, <1>6
  <2>2. less(k, j) \/ (~less(j, k) /\ k < j)
    BY <1>2
  <2>3. ~less(i, j) /\ ~less(j, k)
    BY <1>3, <2>1, <2>2
  <2>4. ~less(i, k)
    BY <1>3, <2>3
  <2>5. CASE less(k, i)
    BY <1>2, <2>5
  <2>6. CASE ~less(k, i)
    <3>1. ~less(j, i)
      BY <1>3, <2>3, <2>6
    <3>2. ~less(k, j)
      BY <1>3, <2>3, <2>6
    <3>3. k < i
      BY <1>4, <2>1, <2>2, <3>1, <3>2
    <3> QED
      BY <1>2, <2>4, <3>3
  <2> QED
    BY <2>5, <2>6
<1>7. ASSUME NEW i \in I, NEW j \in I PROVE i = j \/ i \in B[j] \/ j \in B[i]
  <2>1. i = j \/ i < j \/ j < i
    BY <1>4
  <2> QED
    BY <1>2, <1>3, <2>1
<1> QED
  BY <1>2, <1>5, <1>6, <1>7 DEF Orders, B, I, n

\* The places of values less than v, and of those no greater.
Under(values, R, v) == {j \in DOMAIN values : <<values[j], v>> \in R}
Upto(values, R, v) == {j \in DOMAIN values : <<v, values[j]>> \notin R}

\* What is known of s, the values sorted.
SortOf(s, values, R) ==
    /\ DOMAIN s = 1..Len(values) /\ Len(s) = Len(values)
    /\ \A k \in 1..Len(values) :
        /\ \E i \in 1..Len(values) : s[k] = values[i]
        /\ Cardinality(Under(values, R, s[k])) < k
        /\ k <= Cardinality(Upto(values, R, s[k]))
    /\ \A i \in 1..Len(values) : \E k \in 1..Len(values) : s[k] = values[i]
    /\ \A j, k \in 1..Len(values) : j < k => <<s[k], s[j]>> \notin R

\* The value at the i-th place is the one that as many come before as places.
Placed(s, values, before) ==
    /\ DOMAIN s = 1..Len(values) /\ Len(s) = Len(values)
    /\ \A k \in 1..Len(values) : \E i \in 1..Len(values) : Cardinality(before[i]) + 1 = k /\ s[k] = values[i]

LEMMA SortIs ==
    ASSUME NEW V, NEW values \in Seq(V), NEW R, Weak(R, V), NEW s, Placed(s, values, Earlier(values, R))
    PROVE  SortOf(s, values, R)
<1> DEFINE n == Len(values)
           I == 1..n
           B == Earlier(values, R)
           less(i, j) == <<values[i], values[j]>> \in R
<1>1. n \in Nat /\ DOMAIN values = I /\ \A i \in I : values[i] \in V
  BY LenProperties, ElementOfSeq
<1>2. \A i, j \in I : j \in B[i] <=> less(j, i) \/ (~less(i, j) /\ j < i)
  BY <1>1 DEF Earlier
<1>3. \A i, j \in I : less(i, j) => ~less(j, i)
  BY <1>1 DEF Weak
<1>4. Orders(B, n)
  BY EarlierOrders
<1>5. DOMAIN s = I /\ Len(s) = n /\ \A k \in I : \E i \in I : Cardinality(B[i]) + 1 = k /\ s[k] = values[i]
  BY DEF Placed
<1> HIDE DEF B
<1>6. \A i, j \in I : j \in B[i] => Cardinality(B[j]) < Cardinality(B[i])
  BY <1>1, <1>4, EveryPlaceIsTaken
<1>7. \A i \in I : B[i] \in SUBSET I /\ i \notin B[i] /\ Cardinality(B[i]) \in Nat /\ Cardinality(B[i]) + 1 \in I
  BY <1>1, <1>4, EveryPlaceIsTaken DEF Orders
<1>8. ASSUME NEW i \in I
      PROVE  /\ Cardinality(Under(values, R, values[i])) <= Cardinality(B[i])
             /\ Cardinality(B[i]) < Cardinality(Upto(values, R, values[i]))
  <2> DEFINE U == Under(values, R, values[i])
             W == Upto(values, R, values[i])
  <2>1. U \in SUBSET I /\ W \in SUBSET I /\ B[i] \in SUBSET I /\ i \notin B[i]
    BY <1>1, <1>7 DEF Under, Upto
  <2>2. U \in SUBSET B[i]
    BY <1>1, <1>2 DEF Under
  <2>3. B[i] \in SUBSET W /\ i \in W
    <3>1. \A j \in I : j \in W <=> ~less(i, j)
      BY <1>1 DEF Upto
    <3> HIDE DEF W, less
    <3> QED
      BY <1>2, <1>3, <2>1, <3>1
  <2> HIDE DEF U, W
  <2>4. Cardinality(U) <= Cardinality(B[i])
    BY <1>1, <2>1, <2>2, PlacesAreFinite
  <2>5. Cardinality(B[i]) < Cardinality(W)
    BY <1>1, <2>1, <2>3, OneMore
  <2> QED
    BY <2>4, <2>5 DEF U, W
<1>9. ASSUME NEW k \in I
      PROVE  /\ \E i \in I : s[k] = values[i]
             /\ Cardinality(Under(values, R, s[k])) < k
             /\ k <= Cardinality(Upto(values, R, s[k]))
  <2>1. PICK i \in I : Cardinality(B[i]) + 1 = k /\ s[k] = values[i]
    BY <1>5
  <2> DEFINE a == Cardinality(Under(values, R, values[i]))
             b == Cardinality(B[i])
             c == Cardinality(Upto(values, R, values[i]))
  <2>2. Under(values, R, values[i]) \in SUBSET I /\ Upto(values, R, values[i]) \in SUBSET I
    BY <1>1 DEF Under, Upto
  <2>3. a <= b /\ b < c /\ a \in Nat /\ b \in Nat /\ c \in Nat /\ b + 1 = k
    BY <1>1, <1>7, <1>8, <2>1, <2>2, PlacesAreFinite
  <2> HIDE DEF a, b, c
  <2>4. a < k /\ k <= c
    BY <2>3
  <2> QED
    BY <2>1, <2>4 DEF a, c
<1>10. ASSUME NEW i \in I PROVE \E k \in I : s[k] = values[i]
  <2> DEFINE k == Cardinality(B[i]) + 1
  <2>1. k \in I
    BY <1>7
  <2>2. PICK j \in I : Cardinality(B[j]) + 1 = k /\ s[k] = values[j]
    BY <1>5, <2>1
  <2>3. Cardinality(B[j]) = Cardinality(B[i])
    BY <1>7, <2>2
  <2>4. i = j \/ i \in B[j] \/ j \in B[i]
    BY <1>4 DEF Orders
  <2>5. i \notin B[j] /\ j \notin B[i]
    <3>1. \A x \in Nat : ~(x < x)
      OBVIOUS
    <3>2. ~(Cardinality(B[i]) < Cardinality(B[j])) /\ ~(Cardinality(B[j]) < Cardinality(B[i]))
      BY <1>7, <2>3, <3>1
    <3> QED
      BY <1>6, <3>2
  <2>6. i = j
    BY <2>4, <2>5
  <2> QED
    BY <2>1, <2>2, <2>6
<1>11. ASSUME NEW j \in I, NEW k \in I, j < k PROVE <<s[k], s[j]>> \notin R
  <2>1. PICK x \in I : Cardinality(B[x]) + 1 = j /\ s[j] = values[x]
    BY <1>5
  <2>2. PICK y \in I : Cardinality(B[y]) + 1 = k /\ s[k] = values[y]
    BY <1>5
  <2>3. y \notin B[x]
    <3>1. ~(Cardinality(B[y]) < Cardinality(B[x]))
      BY <1>7, <1>11, <2>1, <2>2
    <3> QED
      BY <1>6, <3>1
  <2>4. ~less(y, x)
    BY <1>2, <2>3
  <2> QED
    BY <2>1, <2>2, <2>4
<1> QED
  BY <1>5, <1>9, <1>10, <1>11 DEF SortOf

\* The two orders of the code.
ListValues == Int \cup {NullValue}
Up == {xy \in ListValues \X ListValues : OrderByLess(xy[1], xy[2])}
Down == {xy \in ListValues \X ListValues : OrderByGreater(xy[1], xy[2])}

LEMMA OrdersAreWeak ==
    /\ Weak(Up, ListValues) /\ Weak(Down, ListValues)
    /\ \A x, y \in ListValues : <<x, y>> \in Up <=> x # NullValue /\ (y = NullValue \/ x < y)
    /\ \A x, y \in ListValues : <<x, y>> \in Down <=> x # NullValue /\ (y = NullValue \/ y < x)
<1>1. \A x, y \in ListValues : <<x, y>> \in Up <=> x # NullValue /\ (y = NullValue \/ x < y)
  BY DEF Up, OrderByLess
<1>2. \A x, y \in ListValues : <<x, y>> \in Down <=> x # NullValue /\ (y = NullValue \/ y < x)
  BY DEF Down, OrderByGreater
<1>3. \A x \in ListValues : x # NullValue => x \in Int
  BY DEF ListValues
<1>4. Weak(Up, ListValues)
  BY <1>1, <1>3 DEF Weak
<1>5. Weak(Down, ListValues)
  BY <1>2, <1>3 DEF Weak
<1> QED
  BY <1>1, <1>2, <1>4, <1>5

LEMMA SortedUp ==
    ASSUME NEW values \in Seq(ListValues)
    PROVE  SortOf(StableSort(values, OrderByLess), values, Up)
<1> DEFINE n == Len(values)
           I == 1..n
           Place(i) == Cardinality({j \in DOMAIN values :
                            OrderByLess(values[j], values[i]) \/ (~OrderByLess(values[i], values[j]) /\ j < i)}) + 1
           s == [k \in DOMAIN values |-> values[CHOOSE i \in DOMAIN values : Place(i) = k]]
           B == Earlier(values, Up)
<1>1. StableSort(values, OrderByLess) = s
  BY DEF StableSort
<1>2. n \in Nat /\ DOMAIN values = I /\ \A i \in I : values[i] \in ListValues
  BY LenProperties, ElementOfSeq
<1>3. ASSUME NEW i \in I PROVE Place(i) = Cardinality(B[i]) + 1
  <2>1. \A j \in I : OrderByLess(values[j], values[i]) <=> <<values[j], values[i]>> \in Up
    BY <1>2 DEF Up
  <2>2. \A j \in I : OrderByLess(values[i], values[j]) <=> <<values[i], values[j]>> \in Up
    BY <1>2 DEF Up
  <2>3. {j \in DOMAIN values : OrderByLess(values[j], values[i]) \/ (~OrderByLess(values[i], values[j]) /\ j < i)} = B[i]
    BY <1>2, <2>1, <2>2 DEF Earlier
  <2> QED
    BY <2>3
<1>4. \A k \in I : \E i \in I : Cardinality(B[i]) + 1 = k
  <2>1. Orders(B, n)
    BY OrdersAreWeak, EarlierOrders
  <2> HIDE DEF B
  <2> QED
    BY <1>2, <2>1, EveryPlaceIsTaken
<1> HIDE DEF Place, B
<1>5. ASSUME NEW k \in I PROVE \E i \in I : Cardinality(B[i]) + 1 = k /\ s[k] = values[i]
  <2> DEFINE i == CHOOSE i \in DOMAIN values : Place(i) = k
  <2>1. \E x \in DOMAIN values : Place(x) = k
    BY <1>2, <1>3, <1>4
  <2>2. i \in DOMAIN values /\ Place(i) = k
    BY <2>1
  <2>3. s[k] = values[i]
    BY <1>2
  <2> HIDE DEF i, s
  <2> QED
    BY <1>2, <1>3, <2>2, <2>3
<1>6. DOMAIN s = I /\ Len(s) = n
  BY <1>2
<1> HIDE DEF s
<1>7. Placed(s, values, B)
  BY <1>5, <1>6 DEF Placed
<1>8. Weak(Up, ListValues)
  BY OrdersAreWeak
<1> QED
  BY <1>1, <1>7, <1>8, SortIs DEF B

LEMMA SortedDown ==
    ASSUME NEW values \in Seq(ListValues)
    PROVE  SortOf(StableSort(values, OrderByGreater), values, Down)
<1> DEFINE n == Len(values)
           I == 1..n
           Place(i) == Cardinality({j \in DOMAIN values :
                            OrderByGreater(values[j], values[i]) \/ (~OrderByGreater(values[i], values[j]) /\ j < i)}) + 1
           s == [k \in DOMAIN values |-> values[CHOOSE i \in DOMAIN values : Place(i) = k]]
           B == Earlier(values, Down)
<1>1. StableSort(values, OrderByGreater) = s
  BY DEF StableSort
<1>2. n \in Nat /\ DOMAIN values = I /\ \A i \in I : values[i] \in ListValues
  BY LenProperties, ElementOfSeq
<1>3. ASSUME NEW i \in I PROVE Place(i) = Cardinality(B[i]) + 1
  <2>1. \A j \in I : OrderByGreater(values[j], values[i]) <=> <<values[j], values[i]>> \in Down
    BY <1>2 DEF Down
  <2>2. \A j \in I : OrderByGreater(values[i], values[j]) <=> <<values[i], values[j]>> \in Down
    BY <1>2 DEF Down
  <2>3. {j \in DOMAIN values : OrderByGreater(values[j], values[i]) \/ (~OrderByGreater(values[i], values[j]) /\ j < i)} = B[i]
    BY <1>2, <2>1, <2>2 DEF Earlier
  <2> QED
    BY <2>3
<1>4. \A k \in I : \E i \in I : Cardinality(B[i]) + 1 = k
  <2>1. Orders(B, n)
    BY OrdersAreWeak, EarlierOrders
  <2> HIDE DEF B
  <2> QED
    BY <1>2, <2>1, EveryPlaceIsTaken
<1> HIDE DEF Place, B
<1>5. ASSUME NEW k \in I PROVE \E i \in I : Cardinality(B[i]) + 1 = k /\ s[k] = values[i]
  <2> DEFINE i == CHOOSE i \in DOMAIN values : Place(i) = k
  <2>1. \E x \in DOMAIN values : Place(x) = k
    BY <1>2, <1>3, <1>4
  <2>2. i \in DOMAIN values /\ Place(i) = k
    BY <2>1
  <2>3. s[k] = values[i]
    BY <1>2
  <2> HIDE DEF i, s
  <2> QED
    BY <1>2, <1>3, <2>2, <2>3
<1>6. DOMAIN s = I /\ Len(s) = n
  BY <1>2
<1> HIDE DEF s
<1>7. Placed(s, values, B)
  BY <1>5, <1>6 DEF Placed
<1>8. Weak(Down, ListValues)
  BY OrdersAreWeak
<1> QED
  BY <1>1, <1>7, <1>8, SortIs DEF B

\* The places that hold a value, in either sort the first so many.
Valued(values) == {i \in DOMAIN values : values[i] # NullValue}

LEMMA NullsAreLast ==
    ASSUME NEW values \in Seq(ListValues), NEW R, R \in {Up, Down}, NEW s, SortOf(s, values, R), NEW k \in 1..Len(values)
    PROVE  s[k] # NullValue <=> k <= Cardinality(Valued(values))
<1> DEFINE n == Len(values)
           I == 1..n
           N == Valued(values)
           v == s[k]
           U == Under(values, R, v)
           W == Upto(values, R, v)
<1>1. n \in Nat /\ DOMAIN values = I /\ \A i \in I : values[i] \in ListValues
  BY LenProperties, ElementOfSeq
<1>2. (\E i \in I : v = values[i]) /\ Cardinality(U) < k /\ k <= Cardinality(W)
  BY DEF SortOf
<1>3. v \in ListValues
  BY <1>1, <1>2
<1>4. NullValue \in ListValues /\ \A x \in ListValues : <<x, NullValue>> \in R <=> x # NullValue
  <2>1. NullValue \in ListValues
    BY DEF ListValues
  <2>2. NullValue = NullValue
    OBVIOUS
  <2> QED
    BY <2>1, OrdersAreWeak
<1>5. N \in SUBSET I /\ U \in SUBSET I /\ W \in SUBSET I
  BY <1>1 DEF Valued, Under, Upto
<1>6. Cardinality(N) \in Nat /\ Cardinality(U) \in Nat /\ Cardinality(W) \in Nat /\ k \in Int
  BY <1>1, <1>5, PlacesAreFinite
<1>7. CASE v = NullValue
  <2>1. N \in SUBSET U
    BY <1>1, <1>4, <1>7 DEF Under, Valued
  <2> HIDE DEF N, U, v
  <2>2. Cardinality(N) <= Cardinality(U)
    BY <1>1, <1>5, <2>1, PlacesAreFinite
  <2>3. ~(k <= Cardinality(N))
    BY <1>2, <1>6, <2>2
  <2> QED
    BY <1>7, <2>3 DEF v, N
<1>8. CASE v # NullValue
  <2>1. W \in SUBSET N
    <3>1. <<v, NullValue>> \in R
      BY <1>3, <1>4, <1>8
    <3> QED
      BY <1>5, <3>1 DEF Upto, Valued
  <2> HIDE DEF N, W, v
  <2>2. Cardinality(W) <= Cardinality(N)
    BY <1>1, <1>5, <2>1, PlacesAreFinite
  <2>3. k <= Cardinality(N)
    BY <1>2, <1>6, <2>2
  <2> QED
    BY <1>8, <2>3 DEF v, N
<1> QED
  BY <1>7, <1>8

\* How many places hold values less than v, and no greater, of those that hold any.
LEMMA CountsFromBelow ==
    ASSUME NEW values \in Seq(ListValues), NEW v \in Int
    PROVE  LET N == Cardinality(Valued(values))
               below == Cardinality(Under(values, Up, v))
               upto == Cardinality(Upto(values, Up, v))
           IN /\ N \in Nat /\ below \in Nat /\ upto \in Nat /\ below <= upto /\ upto <= N
              /\ Cardinality(Under(values, Down, v)) = N - upto
              /\ Cardinality(Upto(values, Down, v)) = N - below
              /\ \A w \in Int : v < w => upto <= Cardinality(Under(values, Up, w))
<1> DEFINE n == Len(values)
           I == 1..n
           M == Valued(values)
           U == Under(values, Up, v)
           W == Upto(values, Up, v)
           UD == Under(values, Down, v)
           WD == Upto(values, Down, v)
<1>1. n \in Nat /\ DOMAIN values = I /\ \A i \in I : values[i] \in ListValues
  BY LenProperties, ElementOfSeq
<1>2. v \in ListValues /\ v # NullValue /\ \A i \in I : values[i] # NullValue => values[i] \in Int
  BY <1>1, ValuesAssumption DEF ListValues
<1>3. /\ \A i \in I : i \in M <=> values[i] # NullValue
      /\ \A i \in I : i \in U <=> values[i] # NullValue /\ values[i] < v
      /\ \A i \in I : i \in W <=> values[i] # NullValue /\ ~(v < values[i])
      /\ \A i \in I : i \in UD <=> values[i] # NullValue /\ v < values[i]
      /\ \A i \in I : i \in WD <=> values[i] # NullValue /\ ~(values[i] < v)
  BY <1>1, <1>2, OrdersAreWeak DEF Valued, Under, Upto
<1>4. M \in SUBSET I /\ U \in SUBSET I /\ W \in SUBSET I /\ UD \in SUBSET I /\ WD \in SUBSET I
  BY <1>1 DEF Valued, Under, Upto
<1> HIDE DEF M, U, W, UD, WD, n
<1>5. U \in SUBSET W
  BY <1>2, <1>3, <1>4
<1>6. W \in SUBSET M
  BY <1>3, <1>4
<1>7. UD = M \ W
  BY <1>3, <1>4
<1>8. WD = M \ U
  BY <1>3, <1>4
<1>9. IsFiniteSet(M) /\ Cardinality(M) \in Nat /\ Cardinality(W) \in Nat /\ Cardinality(U) \in Nat
  BY <1>1, <1>4, PlacesAreFinite
<1>10. Cardinality(U) <= Cardinality(W) /\ Cardinality(W) <= Cardinality(M)
  BY <1>1, <1>4, <1>5, <1>6, PlacesAreFinite
<1>11. Cardinality(UD) = Cardinality(M) - Cardinality(W)
  <2>1. M \cap W = W
    BY <1>6
  <2>2. Cardinality(M \ W) = Cardinality(M) - Cardinality(M \cap W)
    BY <1>9, FS_Difference
  <2> QED
    BY <1>7, <2>1, <2>2
<1>12. Cardinality(WD) = Cardinality(M) - Cardinality(U)
  <2>1. M \cap U = U
    BY <1>5, <1>6
  <2>2. Cardinality(M \ U) = Cardinality(M) - Cardinality(M \cap U)
    BY <1>9, FS_Difference
  <2> QED
    BY <1>8, <2>1, <2>2
<1>13. ASSUME NEW w \in Int, v < w PROVE Cardinality(W) <= Cardinality(Under(values, Up, w))
  <2> DEFINE X == Under(values, Up, w)
  <2>1. w \in ListValues
    BY DEF ListValues
  <2>2. X \in SUBSET I /\ \A i \in I : i \in X <=> values[i] # NullValue /\ values[i] < w
    BY <1>1, <1>2, <2>1, OrdersAreWeak, ValuesAssumption DEF Under
  <2> HIDE DEF X
  <2>3. W \in SUBSET X
    <3> SUFFICES ASSUME NEW i \in I, i \in W PROVE i \in X
      BY <1>4
    <3>1. values[i] # NullValue /\ ~(v < values[i]) /\ values[i] \in Int
      BY <1>2, <1>3
    <3>2. values[i] < w
      BY <1>13, <3>1
    <3> QED
      BY <2>2, <3>1, <3>2
  <2> QED
    BY <1>1, <2>2, <2>3, PlacesAreFinite DEF X
<1> QED
  BY <1>9, <1>10, <1>11, <1>12, <1>13 DEF M, U, W, UD, WD

\* One sort is the other turned round, up to the NULLs.
LEMMA SortsMirror ==
    ASSUME NEW values \in Seq(ListValues), NEW up, SortOf(up, values, Up), NEW down, SortOf(down, values, Down),
           NEW k \in 1..Cardinality(Valued(values))
    PROVE  down[k] = up[Cardinality(Valued(values)) + 1 - k]
<1> DEFINE n == Len(values)
           N == Cardinality(Valued(values))
           j == N + 1 - k
           v == up[j]
           w == down[k]
<1>1. n \in Nat /\ N \in Nat /\ N <= n /\ \A i \in 1..n : values[i] \in ListValues
  <2>1. n \in Nat /\ DOMAIN values = 1..n /\ \A i \in 1..n : values[i] \in ListValues
    BY LenProperties, ElementOfSeq
  <2>2. Valued(values) \in SUBSET (1..n)
    BY <2>1 DEF Valued
  <2> QED
    BY <2>1, <2>2, PlacesAreFinite
<1> HIDE DEF n, N
<1>2. k \in 1..N /\ k \in Int /\ j \in Int /\ j \in 1..n /\ k \in 1..n /\ j <= N /\ k <= N
  BY <1>1 DEF N
<1> HIDE DEF j
<1>3. v # NullValue
  BY <1>2, NullsAreLast DEF n, N
<1>4. w # NullValue
  BY <1>2, NullsAreLast DEF n, N
<1>5. /\ \E i \in 1..n : v = values[i]
      /\ Cardinality(Under(values, Up, v)) < j /\ j <= Cardinality(Upto(values, Up, v))
  BY <1>2 DEF SortOf, n
<1>6. /\ \E i \in 1..n : w = values[i]
      /\ Cardinality(Under(values, Down, w)) < k /\ k <= Cardinality(Upto(values, Down, w))
  BY <1>2 DEF SortOf, n
<1> HIDE DEF v, w
<1>7. v \in Int /\ w \in Int
  BY <1>1, <1>3, <1>4, <1>5, <1>6 DEF ListValues
<1> DEFINE bv == Cardinality(Under(values, Up, v))
           bw == Cardinality(Under(values, Up, w))
           uv == Cardinality(Upto(values, Up, v))
           uw == Cardinality(Upto(values, Up, w))
<1>8. bv \in Nat /\ uv \in Nat /\ (v < w => uv <= bw)
  BY <1>7, CountsFromBelow
<1>9. /\ bw \in Nat /\ uw \in Nat /\ (w < v => uw <= bv)
      /\ Cardinality(Under(values, Down, w)) = N - uw
      /\ Cardinality(Upto(values, Down, w)) = N - bw
  BY <1>7, CountsFromBelow DEF N
<1>10. bv < j /\ j <= uv /\ N - uw < k /\ k <= N - bw
  BY <1>5, <1>6, <1>9
<1> HIDE DEF bv, bw, uv, uw
<1>11. j = N + 1 - k
  BY DEF j
<1>12. ~(v < w) /\ ~(w < v)
  BY <1>1, <1>2, <1>8, <1>9, <1>10, <1>11
<1>13. v = w
  BY <1>7, <1>12
<1> QED
  BY <1>13 DEF v, w, j, N

\* A list of the values found among the first n, each once.
FoundAmong(f, n, values) ==
    /\ f \in Seq(Int)
    /\ \A i, j \in 1..Len(f) : f[i] = f[j] => i = j
    /\ \A v : v \in ToSet(f) <=> v # NullValue /\ \E i \in 1..n : values[i] = v

\* What the next value adds.
WithNext(x, v) == IF v = NullValue \/ v \in ToSet(x) THEN x ELSE Append(x, v)

LEMMA ElementsOf ==
    ASSUME NEW C, NEW f \in Seq(C)
    PROVE  \A v : v \in ToSet(f) <=> \E i \in 1..Len(f) : f[i] = v
<1>1. DOMAIN f = 1..Len(f)
  BY LenProperties
<1> QED
  BY <1>1 DEF ToSet

LEMMA FoundGrows ==
    ASSUME NEW values \in Seq(ListValues), NEW n \in Nat, n + 1 <= Len(values), NEW f, FoundAmong(f, n, values)
    PROVE  FoundAmong(WithNext(f, values[n + 1]), n + 1, values)
<1> DEFINE v == values[n + 1]
           g == Append(f, v)
           L == Len(f)
<1>1. n + 1 \in 1..Len(values) /\ v \in ListValues /\ Len(values) \in Nat
  BY LenProperties, ElementOfSeq
<1>2. /\ f \in Seq(Int) /\ \A i, j \in 1..L : f[i] = f[j] => i = j
      /\ \A x : x \in ToSet(f) <=> x # NullValue /\ \E i \in 1..n : values[i] = x
  BY DEF FoundAmong
<1>3. \A x : (\E i \in 1..n + 1 : values[i] = x) <=> x = v \/ \E i \in 1..n : values[i] = x
  <2>1. \A i : i \in 1..n + 1 <=> i = n + 1 \/ i \in 1..n
    OBVIOUS
  <2> QED
    BY <2>1
<1> HIDE DEF v
<1>4. CASE v = NullValue \/ v \in ToSet(f)
  <2>1. WithNext(f, v) = f
    BY <1>4 DEF WithNext
  <2>2. \A x : x \in ToSet(f) <=> x # NullValue /\ \E i \in 1..n + 1 : values[i] = x
    BY <1>2, <1>3, <1>4
  <2> QED
    BY <1>2, <2>1, <2>2 DEF FoundAmong, v
<1>5. CASE v # NullValue /\ v \notin ToSet(f)
  <2>1. WithNext(f, v) = g /\ v \in Int
    BY <1>1, <1>5 DEF WithNext, ListValues
  <2>2. /\ L \in Nat /\ g \in Seq(Int) /\ Len(g) = L + 1
        /\ \A i \in 1..L : g[i] = f[i]
        /\ g[L + 1] = v
    BY <1>2, <2>1, AppendProperties, LenProperties
  <2>3. \A x : x \in ToSet(f) <=> \E i \in 1..L : f[i] = x
    BY <1>2, ElementsOf
  <2> HIDE DEF g, L
  <2>4. \A i : i \in 1..L + 1 <=> i = L + 1 \/ i \in 1..L
    BY <2>2
  <2>5. \A x : x \in ToSet(g) <=> \E i \in 1..L + 1 : g[i] = x
    BY <2>2, ElementsOf
  <2>6. \A x : x \in ToSet(g) <=> x = v \/ x \in ToSet(f)
    BY <2>2, <2>3, <2>4, <2>5
  <2>7. \A x : x \in ToSet(g) <=> x # NullValue /\ \E i \in 1..n + 1 : values[i] = x
    BY <1>2, <1>3, <1>5, <2>6
  <2>8. \A i \in 1..L : f[i] # v
    BY <1>5, <2>3
  <2>9. \A i, j \in 1..L : f[i] = f[j] => i = j
    BY <1>2 DEF L
  <2>10. ASSUME NEW i \in 1..L + 1, NEW j \in 1..L + 1, g[i] = g[j] PROVE i = j
    BY <2>2, <2>4, <2>8, <2>9, <2>10
  <2> QED
    BY <2>1, <2>2, <2>7, <2>10 DEF FoundAmong, v
<1> QED
  BY <1>4, <1>5

LEMMA DistinctIs ==
    ASSUME NEW values \in Seq(ListValues)
    PROVE  \E f : FoundAmong(f, Len(values), values) /\ Distinct(values) = StableSort(f, OrderByLess)
<1> DEFINE L == Len(values)
           Solves(f) == f = [n \in 0..L |->
                IF n = 0 THEN <<>>
                ELSE IF values[n] = NullValue \/ values[n] \in ToSet(f[n - 1]) THEN f[n - 1]
                     ELSE Append(f[n - 1], values[n])]
           found == CHOOSE f : Solves(f)
           S == Seq(ListValues)
           step == [n \in 1..L |-> [x \in S |-> WithNext(x, values[n])]]
<1>1. Distinct(values) = StableSort(found[L], OrderByLess)
  BY DEF Distinct
<1>2. L \in Nat /\ \A n \in 1..L : values[n] \in ListValues
  BY LenProperties, ElementOfSeq
<1>3. <<>> \in S
  OBVIOUS
<1>4. \A n \in 1..L : \A x \in S : WithNext(x, values[n]) \in S
  BY <1>2, AppendProperties DEF WithNext
<1> HIDE DEF S, L
<1>5. step \in [1..L -> [S -> S]] /\ \A n \in 1..L : \A x \in S : step[n][x] = WithNext(x, values[n])
  <2>1. \A n \in 1..L : [x \in S |-> WithNext(x, values[n])] \in [S -> S]
    BY <1>4
  <2>2. \A n \in 1..L : step[n] = [x \in S |-> WithNext(x, values[n])]
    OBVIOUS
  <2>3. step \in [1..L -> [S -> S]]
    BY <2>1
  <2> HIDE DEF step
  <2>4. ASSUME NEW n \in 1..L, NEW x \in S PROVE step[n][x] = WithNext(x, values[n])
    BY <2>2
  <2> QED
    BY <2>3, <2>4
<1> HIDE DEF step
<1>6. PICK h \in [0..L -> S] : h[0] = <<>> /\ \A n \in 1..L : h[n] = step[n][h[n - 1]]
  <2> DEFINE base == <<>>
  <2> HIDE DEF base
  <2>1. base \in S /\ L \in Nat /\ step \in [1..L -> [S -> S]]
    BY <1>2, <1>3, <1>5 DEF base
  <2>2. \E h \in [0..L -> S] : h[0] = base /\ \A n \in 1..L : h[n] = step[n][h[n - 1]]
    BY <2>1, RecursiveFunction
  <2> QED
    BY <2>2 DEF base
<1>7. \A n \in 0..L : h[n] = IF n = 0 THEN <<>> ELSE WithNext(h[n - 1], values[n])
  <2> SUFFICES ASSUME NEW n \in 0..L PROVE h[n] = IF n = 0 THEN <<>> ELSE WithNext(h[n - 1], values[n])
    OBVIOUS
  <2>1. CASE n = 0
    BY <1>6, <2>1
  <2>2. CASE n # 0
    <3>1. n \in 1..L /\ n - 1 \in 0..L
      BY <1>2, <2>2
    <3>2. h[n - 1] \in S
      BY <3>1
    <3> QED
      BY <1>5, <1>6, <2>2, <3>1, <3>2
  <2> QED
    BY <2>1, <2>2
<1>8. Solves(h)
  <2>1. h = [n \in 0..L |-> h[n]]
    OBVIOUS
  <2> QED
    BY <1>7, <2>1 DEF WithNext
<1>9. Solves(found)
  <2> HIDE DEF Solves
  <2> QED
    BY <1>8
<1> HIDE DEF found
<1>10. \A n \in 0..L : found[n] = IF n = 0 THEN <<>> ELSE WithNext(found[n - 1], values[n])
  BY <1>9 DEF WithNext
<1> HIDE DEF Solves
<1> DEFINE X == {n \in Nat : n <= L => FoundAmong(found[n], n, values)}
<1>11. 0 \in X
  <2>1. found[0] = <<>>
    BY <1>2, <1>10
  <2>2. FoundAmong(<<>>, 0, values)
    <3>1. <<>> \in Seq(Int) /\ Len(<<>>) = 0 /\ 1..0 = {} /\ ToSet(<<>>) = {}
      BY DEF ToSet
    <3> QED
      BY <3>1 DEF FoundAmong
  <2> QED
    BY <2>1, <2>2
<1>12. ASSUME NEW n \in Nat, n \in X PROVE n + 1 \in X
  <2> SUFFICES ASSUME n + 1 <= L PROVE FoundAmong(found[n + 1], n + 1, values)
    OBVIOUS
  <2> DEFINE m == n + 1
  <2>1. m \in 0..L /\ m # 0 /\ m - 1 = n /\ n <= L
    BY <1>2
  <2> HIDE DEF m
  <2>2. found[m] = WithNext(found[n], values[m])
    BY <1>10, <2>1
  <2>3. FoundAmong(found[n], n, values)
    BY <1>12, <2>1
  <2>4. FoundAmong(WithNext(found[n], values[n + 1]), n + 1, values)
    BY <2>3, FoundGrows DEF L
  <2> QED
    BY <2>2, <2>4 DEF m
<1> HIDE DEF X
<1>13. Nat \subseteq X
  BY <1>11, <1>12, InductionOverSet
<1>14. FoundAmong(found[L], L, values)
  <2>1. L <= L
    BY <1>2
  <2> QED
    BY <1>2, <1>13, <2>1 DEF X
<1> QED
  BY <1>1, <1>14 DEF L

\* Values that are all different are in strictly ascending order when sorted.
LEMMA SortedStrictly ==
    ASSUME NEW f \in Seq(Int), \A i, j \in 1..Len(f) : f[i] = f[j] => i = j, NEW d, SortOf(d, f, Up)
    PROVE  \A j, k \in 1..Len(f) : j < k => d[j] < d[k]
<1> SUFFICES ASSUME NEW j \in 1..Len(f), NEW k \in 1..Len(f), j < k PROVE d[j] < d[k]
  OBVIOUS
<1> DEFINE n == Len(f)
           I == 1..n
           a == d[j]
           b == d[k]
           U == Under(f, Up, a)
           W == Upto(f, Up, a)
<1>1. n \in Nat /\ DOMAIN f = I /\ \A i \in I : f[i] \in Int
  BY LenProperties, ElementOfSeq
<1>2. /\ \E i \in I : a = f[i]
      /\ \E i \in I : b = f[i]
      /\ Cardinality(U) < j /\ k <= Cardinality(Upto(f, Up, b)) /\ <<b, a>> \notin Up
  BY DEF SortOf
<1>3. a \in Int /\ b \in Int
  BY <1>1, <1>2
<1>4. \A x, y \in Int : <<x, y>> \in Up <=> x < y
  <2>1. \A x \in Int : x \in ListValues /\ x # NullValue
    BY ValuesAssumption DEF ListValues
  <2> QED
    BY <2>1, OrdersAreWeak
<1>5. U \in SUBSET I /\ W \in SUBSET I
  BY <1>1 DEF Under, Upto
<1>6. \A i \in I : (i \in U <=> f[i] < a) /\ (i \in W <=> ~(a < f[i]))
  BY <1>1, <1>3, <1>4 DEF Under, Upto
<1>7. PICK i \in I : a = f[i]
  BY <1>2
<1> HIDE DEF U, W, a, b
<1>8. W \subseteq U \cup {i}
  <2> SUFFICES ASSUME NEW m \in I, m \in W, m \notin U PROVE m = i
    BY <1>5
  <2>1. f[m] = a
    BY <1>1, <1>3, <1>6
  <2> QED
    BY <1>7, <2>1
<1>9. Cardinality(W) <= Cardinality(U) + 1 /\ Cardinality(U) \in Nat /\ Cardinality(W) \in Nat
  <2>1. IsFiniteSet(U) /\ Cardinality(U) \in Nat /\ Cardinality(W) \in Nat
    BY <1>1, <1>5, PlacesAreFinite
  <2>2. Cardinality(U \cup {i}) = IF i \in U THEN Cardinality(U) ELSE Cardinality(U) + 1
    BY <2>1, FS_AddElement
  <2>3. U \cup {i} \in SUBSET I
    BY <1>5
  <2>4. Cardinality(W) <= Cardinality(U \cup {i})
    BY <1>1, <1>8, <2>3, PlacesAreFinite
  <2> QED
    BY <2>1, <2>2, <2>4
<1>10. a # b
  <2> SUFFICES ASSUME a = b PROVE FALSE
    OBVIOUS
  <2>1. k <= Cardinality(W) /\ Cardinality(U) < j
    BY <1>2 DEF W
  <2>2. j \in Int /\ k \in Int
    OBVIOUS
  <2> QED
    BY <1>9, <2>1, <2>2
<1>11. ~(b < a)
  BY <1>2, <1>3, <1>4
<1>12. a < b
  BY <1>3, <1>10, <1>11
<1> QED
  BY <1>12 DEF a, b

\* What list_position finds.
LEMMA PositionIs ==
    ASSUME NEW values \in Seq(ListValues), NEW v
    PROVE  /\ Position(values, v) = 0 => \A i \in 1..Len(values) : values[i] # v
           /\ Position(values, v) # 0 => Position(values, v) \in 1..Len(values) /\ values[Position(values, v)] = v
<1> DEFINE places == {i \in 1..Len(values) : values[i] = v}
<1>1. Position(values, v) = IF places = {} THEN 0 ELSE Min(places)
  BY DEF Position, SelectInSeq
<1>2. CASE places = {}
  BY <1>1, <1>2
<1>3. CASE places # {}
  <2>1. places \in SUBSET Nat /\ places \in SUBSET Int
    OBVIOUS
  <2> HIDE DEF places
  <2>2. PICK a \in places : \A x \in places : a <= x
    BY <1>3, <2>1, LeastElement
  <2>3. Min(places) = a
    BY <2>1, <2>2, LeastOf
  <2>4. Position(values, v) = a
    BY <1>1, <1>3, <2>3
  <2>5. a \in 1..Len(values) /\ values[a] = v /\ a # 0
    BY DEF places
  <2> QED
    BY <2>4, <2>5
<1> QED
  BY <1>2, <1>3

\* list_sort and list_reverse_sort are each other's reverse but for NULLs, which are last
\* in both; list_distinct has every value once and in order, and list_contains and
\* list_position find what is there (prop_lists.cpp, the comparisons given to
\* std::stable_sort and the loops over the values).
THEOREM SortsAreMirrored == Spec => []SortsAgree
<1>1. Types => SortsAgree
  <2> DEFINE up == StableSort(text, OrderByLess)
             down == StableSort(text, OrderByGreater)
             N == Cardinality({i \in DOMAIN text : text[i] # NullValue})
             distinct == Distinct(text)
             n == Len(text)
  <2> SUFFICES ASSUME Types, topic = "lists"
               PROVE  /\ \A i \in DOMAIN text : (up[i] # NullValue <=> i <= N) /\ (down[i] # NullValue <=> i <= N)
                      /\ \A i \in 1..N : down[i] = up[N + 1 - i]
                      /\ \A i \in DOMAIN distinct : i > 1 => distinct[i - 1] < distinct[i]
                      /\ \A v \in Topics[topic].chars \ {NullValue} :
                            /\ ListContains(text, v) = IF v \in ToSet(distinct) THEN "true" ELSE "false"
                            /\ v \in ToSet(distinct) => text[Position(text, v)] = v
    BY DEF SortsAgree
  <2>1. text \in Seq(ListValues) /\ n \in Nat /\ DOMAIN text = 1..n
    <3> DEFINE C == Topics["lists"].chars
    <3>1. C \subseteq ListValues /\ text \in Seq(C)
      BY TopicsAssumption DEF Types, ListValues
    <3> HIDE DEF C
    <3> QED
      BY <3>1, LenProperties
  <2>2. SortOf(up, text, Up) /\ SortOf(down, text, Down)
    BY <2>1, SortedUp, SortedDown
  <2>3. N = Cardinality(Valued(text))
    BY DEF Valued
  <2>4. PICK f : FoundAmong(f, n, text) /\ distinct = StableSort(f, OrderByLess)
    BY <2>1, DistinctIs
  <2> HIDE DEF up, down, N, distinct
  <2>5. \A i \in 1..n : (up[i] # NullValue <=> i <= N) /\ (down[i] # NullValue <=> i <= N)
    BY <2>1, <2>2, <2>3, NullsAreLast
  <2>6. \A i \in 1..N : down[i] = up[N + 1 - i]
    BY <2>1, <2>2, <2>3, SortsMirror
  <2>7. /\ f \in Seq(Int) /\ f \in Seq(ListValues) /\ \A i, j \in 1..Len(f) : f[i] = f[j] => i = j
        /\ \A v : v \in ToSet(f) <=> v # NullValue /\ \E i \in 1..n : text[i] = v
    <3>1. Int \subseteq ListValues
      BY DEF ListValues
    <3>2. f \in Seq(Int)
      BY <2>4 DEF FoundAmong
    <3>3. f \in Seq(ListValues)
      BY <3>1, <3>2
    <3> QED
      BY <2>4, <3>3 DEF FoundAmong
  <2>8. SortOf(distinct, f, Up)
    BY <2>4, <2>7, SortedUp
  <2>9. \A i \in DOMAIN distinct : i > 1 => distinct[i - 1] < distinct[i]
    <3>1. DOMAIN distinct = 1..Len(f) /\ Len(f) \in Nat
      BY <2>7, <2>8, LenProperties DEF SortOf
    <3>2. \A j, k \in 1..Len(f) : j < k => distinct[j] < distinct[k]
      BY <2>7, <2>8, SortedStrictly
    <3>3. \A i \in 1..Len(f) : i > 1 => i - 1 \in 1..Len(f) /\ i - 1 < i
      BY <3>1
    <3> QED
      BY <3>1, <3>2, <3>3
  <2>10. \A v : v \in ToSet(distinct) <=> v # NullValue /\ \E i \in 1..n : text[i] = v
    <3>1. \A v : v \in ToSet(distinct) <=> \E k \in 1..Len(f) : distinct[k] = v
      <4>1. DOMAIN distinct = 1..Len(f)
        BY <2>8 DEF SortOf
      <4> QED
        BY <4>1 DEF ToSet
    <3>2. \A v : v \in ToSet(f) <=> \E k \in 1..Len(f) : f[k] = v
      BY <2>7, ElementsOf
    <3>3. /\ \A k \in 1..Len(f) : \E i \in 1..Len(f) : distinct[k] = f[i]
          /\ \A i \in 1..Len(f) : \E k \in 1..Len(f) : distinct[k] = f[i]
      BY <2>8 DEF SortOf
    <3>4. \A v : v \in ToSet(distinct) <=> v \in ToSet(f)
      BY <3>1, <3>2, <3>3
    <3> QED
      BY <2>7, <3>4
  <2>11. ASSUME NEW v \in Topics[topic].chars \ {NullValue}
         PROVE  /\ ListContains(text, v) = IF v \in ToSet(distinct) THEN "true" ELSE "false"
                /\ v \in ToSet(distinct) => text[Position(text, v)] = v
    <3>1. v \in ToSet(distinct) <=> \E i \in 1..n : text[i] = v
      BY <2>10
    <3>2. /\ Position(text, v) = 0 => \A i \in 1..n : text[i] # v
          /\ Position(text, v) # 0 => Position(text, v) \in 1..n /\ text[Position(text, v)] = v
      BY <2>1, PositionIs
    <3>3. v \in ToSet(distinct) <=> Position(text, v) # 0
      BY <3>1, <3>2
    <3>4. ListContains(text, v) = IF Position(text, v) # 0 THEN "true" ELSE "false"
      BY DEF ListContains
    <3> QED
      BY <3>2, <3>3, <3>4
  <2> QED
    BY <2>1, <2>5, <2>6, <2>9, <2>11
<1> QED
  BY <1>1, TypesHold, PTL

-----------------------------------------------------------------------------
\* A cell of a table.
At(d, i, j) == d[<<i, j>>]

\* Whether letters may be crossed.
Crossing(kind) == kind = "damerau"

\* What a cell of a table of distances may come from: the removal of a letter of b, the
\* insertion of one of a, two letters that agree or are replaced, and two letters of b
\* that stand in a the other way round, with all that is between them removed or inserted.
FromLeft(d, i, j) == j > 0 /\ At(d, i, j) = At(d, i, j - 1) + 1

FromAbove(d, i, j) == i > 0 /\ At(d, i, j) = At(d, i - 1, j) + 1

SameLetter(d, a, b, i, j) == i > 0 /\ j > 0 /\ a[i] = b[j] /\ At(d, i, j) = At(d, i - 1, j - 1)

Substituted(d, i, j) == i > 0 /\ j > 0 /\ At(d, i, j) = At(d, i - 1, j - 1) + 1

Across(a, b, i, j, p, q) == p \in 1..i - 1 /\ q \in 1..j - 1 /\ a[p] = b[j] /\ b[q] = a[i]

Crossed(d, a, b, i, j, p, q) ==
    Across(a, b, i, j, p, q) /\ At(d, i, j) = At(d, p - 1, q - 1) + (i - p) + (j - q) - 1

\* A table of the distances of the beginnings of a from those of b: each cell comes from
\* another, and from none that would have made it less.
Table(d, a, b, kind) ==
    /\ Len(a) \in Nat /\ Len(b) \in Nat
    /\ \A i \in 0..Len(a), j \in 0..Len(b) : At(d, i, j) \in Nat
    /\ At(d, 0, 0) = 0
    /\ \A i \in 0..Len(a), j \in 1..Len(b) : At(d, i, j) <= At(d, i, j - 1) + 1
    /\ \A i \in 1..Len(a), j \in 0..Len(b) : At(d, i, j) <= At(d, i - 1, j) + 1
    /\ \A i \in 1..Len(a), j \in 1..Len(b) : At(d, i, j) <= At(d, i - 1, j - 1) + Cost(a[i], b[j])
    /\ Crossing(kind) => \A i \in 1..Len(a), j \in 1..Len(b) : \A p \in 1..i - 1, q \in 1..j - 1 :
            Across(a, b, i, j, p, q) => At(d, i, j) <= At(d, p - 1, q - 1) + (i - p) + (j - q) - 1
    /\ \A i \in 0..Len(a), j \in 0..Len(b) :
            \/ i = 0 /\ j = 0
            \/ FromLeft(d, i, j)
            \/ FromAbove(d, i, j)
            \/ SameLetter(d, a, b, i, j)
            \/ Substituted(d, i, j)
            \/ Crossing(kind) /\ \E p \in 1..i - 1, q \in 1..j - 1 : Crossed(d, a, b, i, j, p, q)

AtMost(d, i, j, v) == At(d, i, j) <= v

\* No more than one step further for each step to the right or down.
Steady(d, a, b) ==
    /\ Len(a) \in Nat /\ Len(b) \in Nat
    /\ \A i \in 0..Len(a), j \in 0..Len(b) : At(d, i, j) \in Nat
    /\ \A i \in 0..Len(a), j \in 1..Len(b) : At(d, i, j) <= At(d, i, j - 1) + 1
    /\ \A i \in 1..Len(a), j \in 0..Len(b) : At(d, i, j) <= At(d, i - 1, j) + 1

LEMMA GoesRight ==
    ASSUME NEW d, NEW a, NEW b, Steady(d, a, b),
           NEW i \in 0..Len(a), NEW j \in 0..Len(b), NEW v \in Int, AtMost(d, i, j, v)
    PROVE  \A n \in Nat : j + n <= Len(b) => AtMost(d, i, j + n, v + n)
<1> DEFINE m == Len(b)
           X == {n \in Nat : j + n <= m => AtMost(d, i, j + n, v + n)}
<1>1. m \in Nat /\ j \in Nat
  BY DEF Steady
<1>2. 0 \in X
  BY <1>1
<1>3. ASSUME NEW n \in Nat, n \in X PROVE n + 1 \in X
  <2> SUFFICES ASSUME j + (n + 1) <= m PROVE AtMost(d, i, j + (n + 1), v + (n + 1))
    OBVIOUS
  <2> DEFINE x == At(d, i, j + n)
             y == At(d, i, j + (n + 1))
  <2>1. j + n \in 0..m /\ j + (n + 1) \in 1..m /\ j + (n + 1) - 1 = j + n
    BY <1>1
  <2>2. x \in Nat /\ y \in Nat /\ y <= x + 1
    <3>1. j + (n + 1) \in 0..m
      BY <1>1
    <3>2. x \in Nat /\ y \in Nat
      BY <2>1, <3>1 DEF Steady
    <3>3. y <= At(d, i, j + (n + 1) - 1) + 1
      BY <2>1 DEF Steady
    <3> QED
      BY <2>1, <3>2, <3>3
  <2>3. x <= v + n
    BY <1>1, <1>3 DEF AtMost
  <2> HIDE DEF x, y
  <2>4. y <= v + (n + 1)
    BY <2>2, <2>3
  <2> QED
    BY <2>4 DEF y, AtMost
<1> HIDE DEF X
<1>4. Nat \subseteq X
  BY <1>2, <1>3, InductionOverSet
<1> QED
  BY <1>1, <1>4 DEF X

LEMMA GoesDown ==
    ASSUME NEW d, NEW a, NEW b, Steady(d, a, b),
           NEW i \in 0..Len(a), NEW j \in 0..Len(b), NEW v \in Int, AtMost(d, i, j, v)
    PROVE  \A n \in Nat : i + n <= Len(a) => AtMost(d, i + n, j, v + n)
<1> DEFINE m == Len(a)
           X == {n \in Nat : i + n <= m => AtMost(d, i + n, j, v + n)}
<1>1. m \in Nat /\ i \in Nat
  BY DEF Steady
<1>2. 0 \in X
  BY <1>1
<1>3. ASSUME NEW n \in Nat, n \in X PROVE n + 1 \in X
  <2> SUFFICES ASSUME i + (n + 1) <= m PROVE AtMost(d, i + (n + 1), j, v + (n + 1))
    OBVIOUS
  <2> DEFINE x == At(d, i + n, j)
             y == At(d, i + (n + 1), j)
  <2>1. i + n \in 0..m /\ i + (n + 1) \in 1..m /\ i + (n + 1) - 1 = i + n
    BY <1>1
  <2>2. x \in Nat /\ y \in Nat /\ y <= x + 1
    <3>1. i + (n + 1) \in 0..m
      BY <1>1
    <3>2. x \in Nat /\ y \in Nat
      BY <2>1, <3>1 DEF Steady
    <3>3. y <= At(d, i + (n + 1) - 1, j) + 1
      BY <2>1 DEF Steady
    <3> QED
      BY <2>1, <3>2, <3>3
  <2>3. x <= v + n
    BY <1>1, <1>3 DEF AtMost
  <2> HIDE DEF x, y
  <2>4. y <= v + (n + 1)
    BY <2>2, <2>3
  <2> QED
    BY <2>4 DEF y, AtMost
<1> HIDE DEF X
<1>4. Nat \subseteq X
  BY <1>2, <1>3, InductionOverSet
<1> QED
  BY <1>1, <1>4 DEF X

LEMMA SteadyWalk ==
    ASSUME NEW d, NEW a, NEW b, Steady(d, a, b),
           NEW i \in 0..Len(a), NEW j \in 0..Len(b), NEW k \in i..Len(a), NEW l \in j..Len(b),
           NEW v \in Int, NEW w \in Int, AtMost(d, i, j, v), v + (k - i) + (l - j) <= w
    PROVE  AtMost(d, k, l, w)
<1>1. Len(a) \in Nat /\ Len(b) \in Nat
  BY DEF Steady
<1> DEFINE y == l - j
           x == k - i
           z == At(d, k, l)
<1>2. y \in Nat /\ x \in Nat /\ j + y = l /\ i + x = k /\ v + y + x <= w
      /\ j + y <= Len(b) /\ i + x <= Len(a)
  BY <1>1
<1>3. l \in 0..Len(b) /\ k \in 0..Len(a) /\ l <= Len(b) /\ k <= Len(a)
  BY <1>1
<1>4. z \in Nat
  BY <1>3 DEF Steady
<1> HIDE DEF x, y, z
<1>5. AtMost(d, i, j + y, v + y)
  BY <1>2, <1>3, GoesRight
<1>6. AtMost(d, i, l, v + y) /\ v + y \in Int
  BY <1>2, <1>5
<1>7. AtMost(d, i + x, l, v + y + x)
  BY <1>2, <1>3, <1>6, GoesDown
<1>8. z <= v + y + x
  BY <1>2, <1>7 DEF AtMost, z
<1>9. z <= w
  BY <1>2, <1>4, <1>8
<1> QED
  BY <1>9 DEF z, AtMost

LEMMA Walk ==
    ASSUME NEW d, NEW a, NEW b, NEW kind, Table(d, a, b, kind),
           NEW i \in 0..Len(a), NEW j \in 0..Len(b), NEW k \in i..Len(a), NEW l \in j..Len(b),
           NEW v \in Int, NEW w \in Int, AtMost(d, i, j, v), v + (k - i) + (l - j) <= w
    PROVE  AtMost(d, k, l, w)
<1>1. Steady(d, a, b)
  BY DEF Table, Steady
<1> QED
  BY <1>1, SteadyWalk

LEMMA Diagonal ==
    ASSUME NEW d, NEW a, NEW b, NEW kind, Table(d, a, b, kind),
           NEW i \in 1..Len(a), NEW j \in 1..Len(b), NEW k, NEW l, k = i - 1, l = j - 1,
           NEW v \in Int, NEW w \in Int, AtMost(d, k, l, v),
           (a[i] = b[j] /\ v <= w) \/ v + 1 <= w
    PROVE  AtMost(d, i, j, w)
<1> DEFINE x == At(d, i, j)
           y == At(d, k, l)
           z == Cost(a[i], b[j])
<1>1. Len(a) \in Nat /\ Len(b) \in Nat
  BY DEF Table
<1>2. k \in 0..Len(a) /\ l \in 0..Len(b) /\ i \in 0..Len(a) /\ j \in 0..Len(b)
  BY <1>1
<1>3. x \in Nat /\ y \in Nat
  BY <1>2 DEF Table
<1>4. x <= y + z
  BY DEF Table
<1>5. y <= v
  BY DEF AtMost
<1>6. z \in {0, 1} /\ (a[i] = b[j] => z = 0)
  BY DEF Cost
<1> HIDE DEF x, y, z
<1>7. x <= w
  BY <1>3, <1>4, <1>5, <1>6
<1> QED
  BY <1>7 DEF x, AtMost

LEMMA GoesAcross ==
    ASSUME NEW d, NEW a, NEW b, NEW kind, Table(d, a, b, kind), Crossing(kind),
           NEW i \in 1..Len(a), NEW j \in 1..Len(b), NEW p \in Int, NEW q \in Int,
           Across(a, b, i, j, p, q), NEW k, NEW l, k = p - 1, l = q - 1,
           NEW v \in Int, NEW w \in Int, AtMost(d, k, l, v), v + (i - p) + (j - q) - 1 <= w
    PROVE  AtMost(d, i, j, w)
<1> DEFINE x == At(d, i, j)
           y == At(d, k, l)
<1>1. Len(a) \in Nat /\ Len(b) \in Nat
  BY DEF Table
<1>2. k \in 0..Len(a) /\ l \in 0..Len(b) /\ i \in 0..Len(a) /\ j \in 0..Len(b)
  <2>1. i \in Nat /\ i <= Len(a) /\ j \in Nat /\ j <= Len(b)
    BY <1>1
  <2>2. p \in Nat /\ p >= 1 /\ p <= i - 1 /\ q \in Nat /\ q >= 1 /\ q <= j - 1
    <3>1. p \in 1..i - 1 /\ q \in 1..j - 1
      BY DEF Across
    <3> QED
      BY <2>1, <3>1
  <2> QED
    BY <1>1, <2>1, <2>2
<1>3. x \in Nat /\ y \in Nat
  BY <1>2 DEF Table
<1>4. x <= y + (i - p) + (j - q) - 1 /\ p \in 1..i - 1 /\ q \in 1..j - 1
  <2>1. p \in 1..i - 1 /\ q \in 1..j - 1
    BY DEF Across
  <2>2. \A g \in 1..Len(a), h \in 1..Len(b) : \A r \in 1..g - 1, s \in 1..h - 1 :
            Across(a, b, g, h, r, s) => At(d, g, h) <= At(d, r - 1, s - 1) + (g - r) + (h - s) - 1
    BY DEF Table
  <2>3. At(d, i, j) <= At(d, p - 1, q - 1) + (i - p) + (j - q) - 1
    BY <2>1, <2>2
  <2> QED
    BY <2>1, <2>3
<1>5. y <= v
  BY DEF AtMost
<1> HIDE DEF x, y
<1>7. x <= w
  BY <1>3, <1>4, <1>5
<1> QED
  BY <1>7 DEF x, AtMost

\* Where one table has v, another has at most x more, s columns on.
KeepsUp(d, e, s, x, i, j) == AtMost(e, i, j + s, At(d, i, j) + x)

KeptUp(d, e, s, x, i, j, q) ==
    \A k \in 0..i, l \in q..j : k + l < i + j => KeepsUp(d, e, s, x, k, l)

\* Behind column q and up to m, c has the letters of b, s columns on.
Shifted(b, c, q, m, s) ==
    /\ q \in Nat /\ m \in Nat /\ s \in Int
    /\ m <= Len(b) /\ m + s <= Len(c) /\ q + s >= 0
    /\ \A l \in q + 1..m : c[l + s] = b[l]

\* Cells may be taken after all those that they can come from.
LEMMA CellByCell ==
    ASSUME NEW d, NEW e, NEW s, NEW x, NEW n \in Nat, NEW m \in Nat, NEW q \in Nat,
           \A i \in 0..n, j \in q..m : KeptUp(d, e, s, x, i, j, q) => KeepsUp(d, e, s, x, i, j)
    PROVE  \A i \in 0..n, j \in q..m : KeepsUp(d, e, s, x, i, j)
<1> DEFINE X == {t \in Nat : \A i \in 0..n, j \in q..m : i + j < t => KeepsUp(d, e, s, x, i, j)}
<1>1. 0 \in X
  OBVIOUS
<1>2. ASSUME NEW t \in Nat, t \in X PROVE t + 1 \in X
  <2> SUFFICES ASSUME NEW i \in 0..n, NEW j \in q..m, i + j < t + 1 PROVE KeepsUp(d, e, s, x, i, j)
    OBVIOUS
  <2>1. ASSUME NEW k \in 0..i, NEW l \in q..j, k + l < i + j PROVE KeepsUp(d, e, s, x, k, l)
    <3>1. k \in 0..n /\ l \in q..m /\ k + l < t
      BY <2>1
    <3> QED
      BY <1>2, <3>1
  <2>2. KeptUp(d, e, s, x, i, j, q)
    BY <2>1 DEF KeptUp
  <2> QED
    BY <2>2
<1> HIDE DEF X
<1>3. Nat \subseteq X
  BY <1>1, <1>2, InductionOverSet
<1>4. ASSUME NEW i \in 0..n, NEW j \in q..m PROVE KeepsUp(d, e, s, x, i, j)
  <2>1. i + j + 1 \in Nat /\ i + j < i + j + 1
    OBVIOUS
  <2> QED
    BY <1>3, <2>1 DEF X
<1> QED
  BY <1>4

\* What is before the cell is a number.
LEMMA CellIs ==
    ASSUME NEW d, NEW a, NEW b, NEW kind, Table(d, a, b, kind),
           NEW i \in 0..Len(a), NEW j \in 0..Len(b)
    PROVE  At(d, i, j) \in Nat /\ AtMost(d, i, j, At(d, i, j))
<1>1. At(d, i, j) \in Nat
  BY DEF Table
<1> DEFINE x == At(d, i, j)
<1>2. x <= x
  BY <1>1
<1> QED
  BY <1>1, <1>2 DEF AtMost

LEMMA OriginIs ==
    ASSUME NEW d, NEW a, NEW b, NEW kind, Table(d, a, b, kind),
           NEW i \in 0..Len(a), NEW j \in 0..Len(b), i > 0 \/ j > 0
    PROVE  \/ FromLeft(d, i, j)
           \/ FromAbove(d, i, j)
           \/ SameLetter(d, a, b, i, j)
           \/ Substituted(d, i, j)
           \/ Crossing(kind) /\ \E p \in 1..i - 1, q \in 1..j - 1 : Crossed(d, a, b, i, j, p, q)
<1>1. ~(i = 0 /\ j = 0)
  OBVIOUS
<1> QED
  BY <1>1 DEF Table

\* Behind column q, where the letters of c are those of b, one table goes on following
\* the other, unless letters were crossed over the column.
LEMMA FollowsOn ==
    ASSUME NEW a, NEW b, NEW c, NEW kind, NEW d, NEW e,
           Table(d, a, b, kind), Table(e, a, c, kind),
           NEW q, NEW m, NEW s, NEW x \in Int, Shifted(b, c, q, m, s),
           NEW i \in 0..Len(a), NEW j \in q + 1..m, KeptUp(d, e, s, x, i, j, q)
    PROVE  \/ KeepsUp(d, e, s, x, i, j)
           \/ Crossing(kind) /\ \E p \in 1..i - 1, r \in 1..q : r < j /\ Crossed(d, a, b, i, j, p, r)
<1> DEFINE v == At(d, i, j)
           h == j + s
<1>1. Len(a) \in Nat /\ Len(b) \in Nat /\ Len(c) \in Nat
  BY DEF Table
<1>0. /\ q \in Nat /\ m \in Nat /\ s \in Int
      /\ m <= Len(b) /\ m + s <= Len(c) /\ q + s >= 0
      /\ c[j + s] = b[j]
  BY DEF Shifted
<1>2. /\ i \in Nat /\ j \in Nat /\ j \in 0..Len(b) /\ j > 0 /\ h \in 1..Len(c) /\ h \in 0..Len(c)
      /\ j - 1 \in q..j /\ j \in q..j /\ i \in 0..i /\ h - 1 = (j - 1) + s /\ j - 1 \in 0..Len(b)
      /\ (j - 1) + s \in 0..Len(c) /\ h \in (j - 1) + s..Len(c) /\ h - ((j - 1) + s) = 1
  BY <1>0, <1>1
<1>3. v \in Nat
  BY <1>2, CellIs
<1>4. c[h] = b[j]
  BY <1>0
<1>5. CASE FromLeft(d, i, j)
  <2> DEFINE u == At(d, i, j - 1)
  <2>1. u \in Nat /\ v = u + 1
    BY <1>2, <1>5, CellIs DEF FromLeft
  <2>2. AtMost(e, i, (j - 1) + s, u + x)
    BY <1>2 DEF KeepsUp, KeptUp
  <2> HIDE DEF u, v, h
  <2>3. u + x \in Int /\ v + x \in Int /\ u + x + (i - i) + (h - ((j - 1) + s)) <= v + x /\ i \in i..Len(a)
    BY <1>0, <1>1, <1>2, <2>1
  <2>4. AtMost(e, i, h, v + x)
    BY <1>2, <2>2, <2>3, Walk
  <2> QED
    BY <2>4 DEF KeepsUp, h, v
<1>6. CASE FromAbove(d, i, j)
  <2> DEFINE u == At(d, i - 1, j)
             k == i - 1
  <2>1. i > 0
    BY <1>6 DEF FromAbove
  <2>2. k \in 0..Len(a) /\ k \in 0..i /\ k + j < i + j /\ i \in k..Len(a) /\ h \in h..Len(c)
    BY <1>0, <1>1, <1>2, <2>1
  <2>3. u \in Nat /\ v = u + 1
    BY <1>2, <1>6, <2>2, CellIs DEF FromAbove
  <2>4. AtMost(e, k, h, u + x)
    BY <1>2, <2>2 DEF KeepsUp, KeptUp
  <2>5. i - k = 1
    BY <1>2
  <2> HIDE DEF u, v, h, k
  <2>6. u + x \in Int /\ v + x \in Int /\ u + x + (i - k) + (h - h) <= v + x
    BY <1>2, <2>3, <2>5
  <2>7. AtMost(e, i, h, v + x)
    BY <1>2, <2>2, <2>4, <2>6, Walk
  <2> QED
    BY <2>7 DEF KeepsUp, h, v
<1>7. CASE SameLetter(d, a, b, i, j) \/ Substituted(d, i, j)
  <2> DEFINE u == At(d, i - 1, j - 1)
             k == i - 1
             l == h - 1
  <2>0. i > 0
    BY <1>7 DEF SameLetter, Substituted
  <2>1. k \in 0..Len(a) /\ k \in 0..i /\ k + (j - 1) < i + j /\ i \in 1..Len(a)
    BY <1>0, <1>1, <1>2, <2>0
  <2>2. u \in Nat
    BY <1>2, <2>1, CellIs
  <2>3. (a[i] = c[h] /\ v = u) \/ v = u + 1
    BY <1>4, <1>7 DEF SameLetter, Substituted
  <2>4. AtMost(e, k, (j - 1) + s, u + x)
    BY <1>2, <2>1 DEF KeepsUp, KeptUp
  <2>5. AtMost(e, k, l, u + x)
    BY <1>2, <2>4
  <2>6. k = i - 1 /\ l = h - 1
    OBVIOUS
  <2> HIDE DEF u, v, h, k, l
  <2>7. u + x \in Int /\ v + x \in Int /\ ((a[i] = c[h] /\ u + x <= v + x) \/ u + x + 1 <= v + x)
    BY <1>3, <2>2, <2>3
  <2>8. AtMost(e, i, h, v + x)
    BY <1>2, <2>1, <2>5, <2>6, <2>7, Diagonal
  <2> QED
    BY <2>8 DEF KeepsUp, h, v
<1>8. ASSUME Crossing(kind), NEW p \in 1..i - 1, NEW r \in 1..j - 1, Crossed(d, a, b, i, j, p, r), ~(r \in 1..q /\ r < j)
      PROVE  KeepsUp(d, e, s, x, i, j)
  <2> DEFINE u == At(d, p - 1, r - 1)
             k == p - 1
             g == r + s
             l == g - 1
             y == u + x
             w == v + x
  <2>1. /\ k \in 0..Len(a) /\ k \in 0..i /\ k + (r - 1) < i + j /\ i \in 1..Len(a)
        /\ r \in q + 1..m /\ r - 1 \in q..j /\ r - 1 \in 0..Len(b) /\ g \in 1..h - 1 /\ (r - 1) + s = l
        /\ h - g = j - r
    BY <1>0, <1>1, <1>2, <1>8
  <2>2. u \in Nat
    BY <2>1, CellIs
  <2>0. c[g] = b[r]
    BY <2>1 DEF Shifted
  <2>3. v = u + (i - p) + (j - r) - 1 /\ Across(a, c, i, h, p, g)
    BY <1>4, <1>8, <2>0, <2>1 DEF Crossed, Across
  <2>4. AtMost(e, k, l, y)
    BY <2>1 DEF KeepsUp, KeptUp
  <2>5. k = p - 1 /\ l = g - 1
    OBVIOUS
  <2> HIDE DEF u, v, h, k, l, g
  <2>6. y \in Int /\ w \in Int /\ y + (i - p) + (h - g) - 1 <= w
    BY <1>2, <1>3, <2>1, <2>2, <2>3
  <2> HIDE DEF y, w
  <2>7. Crossing(kind)
    BY <1>8
  <2>8. i \in 1..Len(a) /\ h \in 1..Len(c) /\ p \in Int /\ g \in Int /\ Across(a, c, i, h, p, g)
    BY <1>2, <2>1, <2>3
  <2>9. AtMost(e, i, h, w)
    BY <2>4, <2>5, <2>6, <2>7, <2>8, GoesAcross
  <2> QED
    BY <2>9 DEF KeepsUp, h, v, w
<1> HIDE DEF v, h
<1>9. \/ FromLeft(d, i, j)
      \/ FromAbove(d, i, j)
      \/ SameLetter(d, a, b, i, j)
      \/ Substituted(d, i, j)
      \/ Crossing(kind) /\ \E p \in 1..i - 1, r \in 1..j - 1 : Crossed(d, a, b, i, j, p, r)
  BY <1>2, OriginIs
<1> QED
  BY <1>5, <1>6, <1>7, <1>8, <1>9

\* One table follows the other all along when it does in the first column, and where
\* letters were crossed over that.
LEMMA FollowsFrom ==
    ASSUME NEW a, NEW b, NEW c, NEW kind, NEW d, NEW e,
           Table(d, a, b, kind), Table(e, a, c, kind),
           NEW q, NEW m, NEW s, NEW x \in Int, Shifted(b, c, q, m, s),
           \A i \in 0..Len(a) : q <= m => KeepsUp(d, e, s, x, i, q),
           \A i \in 0..Len(a), j \in q + 1..m : \A p \in 1..i - 1, r \in 1..q :
                Crossing(kind) /\ Crossed(d, a, b, i, j, p, r) => KeepsUp(d, e, s, x, i, j)
    PROVE  \A i \in 0..Len(a), j \in q..m : KeepsUp(d, e, s, x, i, j)
<1>1. Len(a) \in Nat /\ q \in Nat /\ m \in Nat
  BY DEF Table, Shifted
<1>2. ASSUME NEW i \in 0..Len(a), NEW j \in q..m, KeptUp(d, e, s, x, i, j, q)
      PROVE  KeepsUp(d, e, s, x, i, j)
  <2>1. CASE j = q
    <3>1. q <= m
      BY <1>1, <2>1
    <3> QED
      BY <2>1, <3>1
  <2>2. CASE j # q
    <3>1. j \in q + 1..m
      BY <1>1, <2>2
    <3>2. \/ KeepsUp(d, e, s, x, i, j)
          \/ Crossing(kind) /\ \E p \in 1..i - 1, r \in 1..q : r < j /\ Crossed(d, a, b, i, j, p, r)
      BY <1>2, <3>1, FollowsOn
    <3> QED
      BY <3>1, <3>2
  <2> QED
    BY <2>1, <2>2
<1> QED
  BY <1>1, <1>2, CellByCell

\* Where two words begin alike, so do their tables.
LEMMA Beginnings ==
    ASSUME NEW a, NEW b, NEW c, NEW kind, NEW d, NEW e,
           Table(d, a, b, kind), Table(e, a, c, kind), NEW m, Shifted(b, c, 0, m, 0)
    PROVE  \A i \in 0..Len(a), j \in 0..m : At(d, i, j) \in Nat /\ AtMost(e, i, j, At(d, i, j))
<1>1. Len(a) \in Nat /\ Len(b) \in Nat /\ Len(c) \in Nat
  BY DEF Table
<1>2. m \in Nat /\ m <= Len(b) /\ m <= Len(c)
  BY DEF Shifted
<1>3. \A i \in 0..Len(a), j \in 0..0 : KeptUp(d, e, 0, 0, i, j, 0) => KeepsUp(d, e, 0, 0, i, j)
  <2> SUFFICES ASSUME NEW i \in 0..Len(a), KeptUp(d, e, 0, 0, i, 0, 0) PROVE KeepsUp(d, e, 0, 0, i, 0)
    OBVIOUS
  <2> DEFINE v == At(d, i, 0)
  <2>1. 0 \in 0..Len(b) /\ 0 \in 0..Len(c)
    BY <1>1
  <2>2. v \in Nat
    BY <2>1, CellIs
  <2>3. AtMost(e, i, 0, v)
    <3>1. CASE i = 0
      <4>1. At(d, 0, 0) = 0 /\ At(e, 0, 0) = 0
        BY DEF Table
      <4> QED
        BY <3>1, <4>1 DEF AtMost
    <3>2. CASE i # 0
      <4> DEFINE k == i - 1
                 u == At(d, k, 0)
      <4>1. k \in 0..Len(a) /\ k \in 0..i /\ k + 0 < i + 0 /\ i \in k..Len(a) /\ i > 0 /\ i - k = 1
        BY <1>1, <3>2
      <4>2. \/ FromLeft(d, i, 0)
            \/ FromAbove(d, i, 0)
            \/ SameLetter(d, a, b, i, 0)
            \/ Substituted(d, i, 0)
            \/ Crossing(kind) /\ \E p \in 1..i - 1, q \in 1..0 - 1 : Crossed(d, a, b, i, 0, p, q)
        BY <2>1, <4>1, OriginIs
      <4>3. FromAbove(d, i, 0)
        BY <4>2 DEF FromLeft, SameLetter, Substituted
      <4>4. v = u + 1
        BY <4>3 DEF FromAbove
      <4>5. u \in Nat
        BY <2>1, <4>1, CellIs
      <4>6. AtMost(e, k, 0 + 0, u + 0)
        BY <4>1 DEF KeptUp, KeepsUp
      <4>7. AtMost(e, k, 0, u)
        BY <4>5, <4>6
      <4> HIDE DEF u, v, k
      <4>8. u + (i - k) + (0 - 0) <= v /\ 0 \in 0..Len(c)
        BY <2>1, <4>1, <4>4, <4>5
      <4> QED
        BY <2>1, <2>2, <4>1, <4>5, <4>7, <4>8, Walk
    <3> QED
      BY <3>1, <3>2
  <2> QED
    BY <2>2, <2>3 DEF KeepsUp
<1>4. \A i \in 0..Len(a), j \in 0..0 : KeepsUp(d, e, 0, 0, i, j)
  BY <1>1, <1>3, CellByCell
<1>5. \A i \in 0..Len(a) : 0 <= m => KeepsUp(d, e, 0, 0, i, 0)
  BY <1>4
<1>6. \A i \in 0..Len(a), j \in 0..m : KeepsUp(d, e, 0, 0, i, j)
  <2>1. \A i \in 0..Len(a), j \in 0 + 1..m : \A p \in 1..i - 1, r \in 1..0 :
                Crossing(kind) /\ Crossed(d, a, b, i, j, p, r) => KeepsUp(d, e, 0, 0, i, j)
    OBVIOUS
  <2> QED
    BY <1>5, <2>1, FollowsFrom
<1> SUFFICES ASSUME NEW i \in 0..Len(a), NEW j \in 0..m
             PROVE  At(d, i, j) \in Nat /\ AtMost(e, i, j, At(d, i, j))
  OBVIOUS
<1>7. j \in 0..Len(b)
  BY <1>1, <1>2
<1>8. At(d, i, j) \in Nat
  BY <1>7, CellIs
<1>9. AtMost(e, i, j + 0, At(d, i, j) + 0)
  BY <1>6 DEF KeepsUp
<1> QED
  BY <1>8, <1>9

\* A way over two letters that agree saves a step in both words.
Agree(a, b, i, j) == a[i] = b[j]

LEMMA Via ==
    ASSUME NEW d, NEW a, NEW b, NEW kind, Table(d, a, b, kind),
           NEW k \in Nat, NEW l \in Nat, NEW g \in k + 1..Len(a), NEW h \in l + 1..Len(b),
           NEW i \in g..Len(a), NEW j \in h..Len(b), Agree(a, b, g, h),
           NEW v \in Int, NEW w \in Int, AtMost(d, k, l, v), v + (i - k - 1) + (j - l - 1) <= w
    PROVE  AtMost(d, i, j, w)
<1> DEFINE k2 == g - 1
           l2 == h - 1
           v2 == v + (k2 - k) + (l2 - l)
<1>1. Len(a) \in Nat /\ Len(b) \in Nat
  BY DEF Table
<1>2. /\ k \in 0..Len(a) /\ l \in 0..Len(b) /\ k2 \in k..Len(a) /\ l2 \in l..Len(b) /\ v2 \in Int
      /\ g \in 1..Len(a) /\ h \in 1..Len(b) /\ g \in 0..Len(a) /\ h \in 0..Len(b) /\ k2 = g - 1 /\ l2 = h - 1
      /\ v2 + (i - g) + (j - h) <= w
  BY <1>1
<1>3. v + (k2 - k) + (l2 - l) <= v2
  BY <1>2
<1> HIDE DEF k2, l2, v2
<1>4. AtMost(d, k2, l2, v2)
  BY <1>2, <1>3, Walk
<1>5. (a[g] = b[h] /\ v2 <= v2) \/ v2 + 1 <= v2
  BY <1>2 DEF Agree
<1>6. AtMost(d, g, h, v2)
  BY <1>2, <1>4, <1>5, Diagonal
<1> QED
  BY <1>2, <1>6, Walk

\* From a word to the right of it, and back.
LEMMA BackRight ==
    ASSUME NEW d, NEW a, NEW b, NEW kind, Table(d, a, b, kind)
    PROVE  \A i \in 0..Len(a), j \in 1..Len(b) : KeepsUp(d, d, -1, 1, i, j)
<1>1. Len(a) \in Nat /\ Len(b) \in Nat
  BY DEF Table
<1> SUFFICES ASSUME NEW i \in 0..Len(a), NEW j \in 1..Len(b), KeptUp(d, d, -1, 1, i, j, 1)
             PROVE  KeepsUp(d, d, -1, 1, i, j)
  BY <1>1, CellByCell
<1> DEFINE v == At(d, i, j)
           h == j - 1
<1>2. /\ i \in Nat /\ j \in 0..Len(b) /\ h \in 0..Len(b) /\ h = j - 1 /\ j > 0 /\ j \in Nat /\ h \in Nat
      /\ h \in h..Len(b) /\ j \in 1..j
  BY <1>1
<1>3. v \in Nat
  BY <1>2, CellIs
<1> SUFFICES AtMost(d, i, h, v + 1)
  <2>1. j + -1 = h
    BY <1>2
  <2> QED
    BY <2>1 DEF KeepsUp
<1>4. v + 1 \in Int
  BY <1>3
<1>5. CASE FromLeft(d, i, j)
  <2> DEFINE u == At(d, i, h)
  <2>1. u \in Nat /\ AtMost(d, i, h, u) /\ v = u + 1
    BY <1>2, <1>5, CellIs DEF FromLeft
  <2> HIDE DEF u, v, h
  <2>2. i \in i..Len(a) /\ u + (i - i) + (h - h) <= v + 1 /\ u \in Int
    BY <1>1, <1>2, <2>1
  <2> QED
    BY <1>2, <1>4, <2>1, <2>2, Walk
<1>6. CASE FromAbove(d, i, j)
  <2> DEFINE k == i - 1
             u == At(d, k, j)
  <2>1. i > 0
    BY <1>6 DEF FromAbove
  <2>2. k \in 0..Len(a) /\ k \in 0..i /\ k + j < i + j /\ i \in k..Len(a) /\ i - k = 1
    BY <1>1, <1>2, <2>1
  <2>3. u \in Nat /\ v = u + 1
    BY <1>2, <1>6, <2>2, CellIs DEF FromAbove
  <2>4. KeepsUp(d, d, -1, 1, k, j)
    BY <1>2, <2>2 DEF KeptUp
  <2>5. AtMost(d, k, h, u + 1)
    <3>1. j + -1 = h
      BY <1>2
    <3> QED
      BY <2>4, <3>1 DEF KeepsUp
  <2> HIDE DEF u, v, h, k
  <2>6. u + 1 + (i - k) + (h - h) <= v + 1 /\ u + 1 \in Int
    BY <1>2, <2>2, <2>3
  <2> QED
    BY <1>2, <1>4, <2>2, <2>5, <2>6, Walk
<1>7. CASE SameLetter(d, a, b, i, j) \/ Substituted(d, i, j)
  <2> DEFINE k == i - 1
             u == At(d, k, h)
  <2>1. i > 0
    BY <1>7 DEF SameLetter, Substituted
  <2>2. k \in 0..Len(a) /\ i \in k..Len(a) /\ i - k = 1
    BY <1>1, <1>2, <2>1
  <2>3. u \in Nat /\ AtMost(d, k, h, u)
    BY <1>2, <2>2, CellIs
  <2>4. v = u \/ v = u + 1
    BY <1>7 DEF SameLetter, Substituted
  <2> HIDE DEF u, v, h, k
  <2>5. u + (i - k) + (h - h) <= v + 1 /\ u \in Int
    BY <1>2, <2>2, <2>3, <2>4
  <2> QED
    BY <1>2, <1>4, <2>2, <2>3, <2>5, Walk
<1>8. ASSUME NEW p \in 1..i - 1, NEW q \in 1..j - 1, Crossed(d, a, b, i, j, p, q)
      PROVE  AtMost(d, i, h, v + 1)
  <2> DEFINE k == p - 1
             l == q - 1
             u == At(d, k, l)
  <2>1. /\ k \in 0..Len(a) /\ l \in 0..Len(b) /\ i \in k + 1..Len(a) /\ q \in l + 1..Len(b)
        /\ k \in Nat /\ l \in Nat /\ h \in q..Len(b) /\ i \in i..Len(a) /\ l = q - 1 /\ k = p - 1 /\ q \in Int /\ p \in Int
    BY <1>1, <1>2
  <2>2. u \in Nat /\ AtMost(d, k, l, u)
    BY <2>1, CellIs
  <2>3. v = u + (i - p) + (j - q) - 1 /\ Agree(a, b, i, q)
    BY <1>8 DEF Crossed, Across, Agree
  <2> HIDE DEF u, v, h, k, l
  <2>4. u + (i - k - 1) + (h - l - 1) <= v + 1 /\ u \in Int
    BY <1>2, <2>1, <2>2, <2>3
  <2>5. Agree(a, b, i, q)
    BY <2>3
  <2> QED
    BY <1>4, <2>1, <2>2, <2>4, <2>5, Via
<1> HIDE DEF v, h
<1>9. \/ FromLeft(d, i, j)
      \/ FromAbove(d, i, j)
      \/ SameLetter(d, a, b, i, j)
      \/ Substituted(d, i, j)
      \/ Crossing(kind) /\ \E p \in 1..i - 1, q \in 1..j - 1 : Crossed(d, a, b, i, j, p, q)
  BY <1>2, OriginIs
<1> QED
  BY <1>5, <1>6, <1>7, <1>8, <1>9

\* c is b with one more letter; with another letter; with two neighbours swapped.
Grown(b, c, n) ==
    /\ n \in 1..Len(c) /\ Len(c) = Len(b) + 1
    /\ \A j \in 1..n - 1 : c[j] = b[j]
    /\ \A j \in n..Len(b) : c[j + 1] = b[j]

Changed(b, c, n) ==
    /\ n \in 1..Len(b) /\ Len(c) = Len(b)
    /\ \A j \in 1..Len(b) : j # n => c[j] = b[j]

Swapped(b, c, n) ==
    /\ n \in 1..Len(b) - 1 /\ Len(c) = Len(b)
    /\ c[n] = b[n + 1] /\ c[n + 1] = b[n]
    /\ \A j \in 1..Len(b) : j # n /\ j # n + 1 => c[j] = b[j]

\* Letters may still be crossed when both are where they were, s columns apart at most.
LEMMA CrossesOver ==
    ASSUME NEW a, NEW b, NEW c, NEW kind, NEW d, NEW e,
           Table(d, a, b, kind), Table(e, a, c, kind), Crossing(kind),
           NEW s \in Int, NEW x \in Int, s <= x,
           NEW i \in 0..Len(a), NEW j \in 1..Len(b), NEW p \in 1..i - 1, NEW r \in 1..j - 1, r < j + s,
           Crossed(d, a, b, i, j, p, r), j + s <= Len(c), c[r] = b[r], c[j + s] = b[j],
           AtMost(e, p - 1, r - 1, At(d, p - 1, r - 1))
    PROVE  KeepsUp(d, e, s, x, i, j)
<1> DEFINE k == p - 1
           l == r - 1
           u == At(d, k, l)
           v == At(d, i, j)
           h == j + s
           w == v + x
<1>1. Len(a) \in Nat /\ Len(b) \in Nat /\ Len(c) \in Nat
  BY DEF Table
<1>2. /\ i \in 1..Len(a) /\ h \in 1..Len(c) /\ p \in Int /\ r \in Int /\ k \in 0..Len(a) /\ l \in 0..Len(b)
      /\ j \in 0..Len(b) /\ k = p - 1 /\ l = r - 1 /\ r \in 1..h - 1 /\ h - r = (j - r) + s
  BY <1>1
<1>3. u \in Nat /\ v \in Nat
  BY <1>2, CellIs
<1>4. v = u + (i - p) + (j - r) - 1 /\ Across(a, c, i, h, p, r)
  BY <1>2 DEF Crossed, Across
<1>5. AtMost(e, k, l, u)
  OBVIOUS
<1>6. w = v + x
  OBVIOUS
<1> HIDE DEF k, l, u, v, h, w
<1>7. w \in Int /\ u \in Int /\ u + (i - p) + (h - r) - 1 <= w
  BY <1>2, <1>3, <1>4, <1>6
<1>8. Across(a, c, i, h, p, r)
  BY <1>4
<1>9. AtMost(e, i, h, w)
  BY <1>2, <1>5, <1>7, <1>8, GoesAcross
<1> QED
  BY <1>9 DEF KeepsUp, h, v, w

LEMMA InsertFollows ==
    ASSUME NEW a, NEW b, NEW c, NEW kind, NEW d, NEW e,
           Table(d, a, b, kind), Table(e, a, c, kind), NEW n, Grown(b, c, n)
    PROVE  \A i \in 0..Len(a), j \in n - 1..Len(b) : KeepsUp(d, e, 1, 1, i, j)
<1> DEFINE q == n - 1
<1>1. Len(a) \in Nat /\ Len(b) \in Nat /\ Len(c) \in Nat
  BY DEF Table
<1>2. /\ n \in 1..Len(c) /\ Len(c) = Len(b) + 1
      /\ \A j \in 1..q : c[j] = b[j]
      /\ \A j \in n..Len(b) : c[j + 1] = b[j]
  BY DEF Grown
<1>3. q \in 0..Len(b) /\ n = q + 1 /\ q \in 0..Len(c) /\ n \in q..Len(c) /\ n \in 0..Len(c) /\ q \in 0..q /\ n - q = 1
  BY <1>1, <1>2
<1> HIDE DEF q
<1>4. Shifted(b, c, 0, q, 0)
  <2>1. \A j \in 0 + 1..q : c[j + 0] = b[j]
    BY <1>2, <1>3
  <2> QED
    BY <1>1, <1>3, <2>1 DEF Shifted
<1>5. Shifted(b, c, q, Len(b), 1)
  <2>1. \A j \in q + 1..Len(b) : c[j + 1] = b[j]
    BY <1>2, <1>3
  <2> QED
    BY <1>1, <1>2, <1>3, <2>1 DEF Shifted
<1>6. \A i \in 0..Len(a), j \in 0..q : At(d, i, j) \in Nat /\ AtMost(e, i, j, At(d, i, j))
  BY <1>4, Beginnings
<1>7. ASSUME NEW i \in 0..Len(a) PROVE KeepsUp(d, e, 1, 1, i, q)
  <2> DEFINE v == At(d, i, q)
  <2>1. v \in Nat /\ AtMost(e, i, q, v)
    BY <1>3, <1>6
  <2> HIDE DEF v
  <2>2. v + (i - i) + (n - q) <= v + 1 /\ v + 1 \in Int /\ v \in Int /\ i \in i..Len(a)
    BY <1>1, <1>3, <2>1
  <2>3. AtMost(e, i, n, v + 1)
    BY <1>3, <2>1, <2>2, Walk
  <2>4. AtMost(e, i, q + 1, v + 1)
    BY <1>3, <2>3
  <2> QED
    BY <2>4 DEF KeepsUp, v
<1>8. ASSUME NEW i \in 0..Len(a), NEW j \in q + 1..Len(b), NEW p \in 1..i - 1, NEW r \in 1..q,
             Crossing(kind), Crossed(d, a, b, i, j, p, r)
      PROVE  KeepsUp(d, e, 1, 1, i, j)
  <2>1. /\ j \in 1..Len(b) /\ r \in 1..j - 1 /\ r < j + 1 /\ j + 1 <= Len(c) /\ p - 1 \in 0..Len(a) /\ r - 1 \in 0..q
        /\ j \in n..Len(b) /\ r \in 1..q
    BY <1>1, <1>2, <1>3
  <2>2. c[r] = b[r] /\ c[j + 1] = b[j]
    BY <1>2, <2>1
  <2>3. AtMost(e, p - 1, r - 1, At(d, p - 1, r - 1))
    BY <1>6, <2>1
  <2>4. 1 \in Int /\ 1 <= 1
    OBVIOUS
  <2> QED
    BY <1>8, <2>1, <2>2, <2>3, <2>4, CrossesOver
<1>9. \A i \in 0..Len(a), j \in q..Len(b) : KeepsUp(d, e, 1, 1, i, j)
  BY <1>5, <1>7, <1>8, FollowsFrom
<1> QED
  BY <1>9 DEF q

LEMMA RemoveFollows ==
    ASSUME NEW a, NEW b, NEW c, NEW kind, NEW d, NEW e,
           Table(d, a, b, kind), Table(e, a, c, kind), NEW n, Grown(c, b, n)
    PROVE  \A i \in 0..Len(a), j \in n..Len(b) : KeepsUp(d, e, -1, 1, i, j)
<1> DEFINE q == n - 1
<1>1. Len(a) \in Nat /\ Len(b) \in Nat /\ Len(c) \in Nat
  BY DEF Table
<1>2. /\ n \in 1..Len(b) /\ Len(b) = Len(c) + 1
      /\ \A j \in 1..q : b[j] = c[j]
      /\ \A j \in n..Len(c) : b[j + 1] = c[j]
  BY DEF Grown
<1>3. q \in 0..Len(b) /\ n = q + 1 /\ q \in 0..Len(c) /\ q \in 0..q /\ n + -1 = q
  BY <1>1, <1>2
<1> HIDE DEF q
<1>4. Shifted(b, c, 0, q, 0)
  <2>1. \A j \in 0 + 1..q : c[j + 0] = b[j]
    BY <1>2, <1>3
  <2> QED
    BY <1>1, <1>3, <2>1 DEF Shifted
<1>5. \A j \in n + 1..Len(b) : c[j + -1] = b[j]
  <2> SUFFICES ASSUME NEW j \in n + 1..Len(b) PROVE c[j + -1] = b[j]
    OBVIOUS
  <2>1. j - 1 \in n..Len(c) /\ (j - 1) + 1 = j /\ j + -1 = j - 1
    BY <1>1, <1>2
  <2>2. b[(j - 1) + 1] = c[j - 1]
    BY <1>2, <2>1
  <2> QED
    BY <2>1, <2>2
<1>6. Shifted(b, c, n, Len(b), -1)
  BY <1>1, <1>2, <1>3, <1>5 DEF Shifted
<1>7. \A i \in 0..Len(a), j \in 0..q : At(d, i, j) \in Nat /\ AtMost(e, i, j, At(d, i, j))
  BY <1>4, Beginnings
<1>8. ASSUME NEW i \in 0..Len(a) PROVE KeepsUp(d, e, -1, 1, i, n)
  <2> DEFINE v == At(d, i, n)
             u == At(d, i, q)
             t == At(e, i, q)
  <2>1. u \in Nat /\ AtMost(e, i, q, u)
    BY <1>3, <1>7
  <2>2. v \in Nat /\ t \in Nat
    <3>1. n \in 0..Len(b)
      BY <1>1, <1>2
    <3> QED
      BY <1>3, <3>1, CellIs
  <2>3. AtMost(d, i, q, v + 1)
    <3>1. KeepsUp(d, d, -1, 1, i, n)
      BY <1>2, BackRight
    <3> QED
      BY <1>3, <3>1 DEF KeepsUp
  <2>4. t <= u /\ u <= v + 1
    BY <2>1, <2>3 DEF AtMost
  <2> HIDE DEF t, u, v
  <2>5. t <= v + 1
    BY <2>1, <2>2, <2>4
  <2>6. AtMost(e, i, q, v + 1)
    BY <2>5 DEF t, AtMost
  <2> QED
    BY <1>3, <2>6 DEF KeepsUp, v
<1>9. ASSUME NEW i \in 0..Len(a), NEW j \in n + 1..Len(b), NEW p \in 1..i - 1, NEW r \in 1..n,
             Crossing(kind), Crossed(d, a, b, i, j, p, r)
      PROVE  KeepsUp(d, e, -1, 1, i, j)
  <2>1. /\ j \in 1..Len(b) /\ j \in 0..Len(b) /\ r \in 1..j - 1 /\ j + -1 <= Len(c) /\ p - 1 \in 0..Len(a) /\ r - 1 \in 0..q
        /\ j \in n + 1..Len(b) /\ r \in 1..n
    BY <1>1, <1>2, <1>3
  <2>2. AtMost(e, p - 1, r - 1, At(d, p - 1, r - 1)) /\ At(d, p - 1, r - 1) \in Nat
    BY <1>7, <2>1
  <2>3. CASE r # n
    <3>1. r < j + -1 /\ r \in 1..q /\ -1 \in Int /\ 1 \in Int /\ -1 <= 1
      BY <1>1, <1>2, <1>3, <2>3
    <3>2. c[r] = b[r] /\ c[j + -1] = b[j]
      BY <1>2, <1>5, <3>1
    <3> QED
      BY <1>9, <2>1, <2>2, <3>1, <3>2, CrossesOver
  <2>4. CASE r = n
    <3> DEFINE k == p - 1
               u == At(d, k, q)
               v == At(d, i, j)
               h == j - 1
    <3>1. /\ k \in Nat /\ q \in Nat /\ p \in k + 1..Len(a) /\ h \in q + 1..Len(c) /\ i \in p..Len(a) /\ h \in h..Len(c)
          /\ r - 1 = q /\ k = p - 1 /\ h = j - 1 /\ h = j + -1 /\ i \in Nat /\ p \in Nat /\ j \in Nat /\ n \in Nat
      BY <1>1, <1>2, <1>3, <2>1, <2>4
    <3>2. u \in Nat /\ AtMost(e, k, q, u)
      BY <2>2, <3>1
    <3>3. v = u + (i - p) + (j - n) - 1
      BY <1>9, <2>4, <3>1 DEF Crossed
    <3>4. Agree(a, c, p, h)
      <4>1. a[p] = b[j]
        BY <1>9 DEF Crossed, Across
      <4> QED
        BY <1>5, <3>1, <4>1 DEF Agree
    <3>5. v \in Nat
      BY <2>1, CellIs
    <3> HIDE DEF k, u, v, h
    <3> DEFINE w == v + 1
    <3>6. k = p - 1 /\ h = j - 1 /\ q = n - 1 /\ i \in Nat /\ p \in Nat /\ j \in Nat /\ n \in Nat /\ w = v + 1
      BY <1>3, <3>1
    <3>7. u \in Nat /\ v \in Nat
      BY <3>2, <3>5
    <3>8. u + (i - k - 1) + (h - q - 1) <= w /\ w \in Int /\ u \in Int
      BY <3>3, <3>6, <3>7
    <3> HIDE DEF w
    <3>9. /\ k \in Nat /\ q \in Nat /\ p \in k + 1..Len(a) /\ h \in q + 1..Len(c) /\ i \in p..Len(a) /\ h \in h..Len(c)
          /\ AtMost(e, k, q, u)
      BY <3>1, <3>2
    <3>10. AtMost(e, i, h, w)
      BY <3>4, <3>8, <3>9, Via
    <3> QED
      BY <3>1, <3>10 DEF KeepsUp, v, w
  <2> QED
    BY <2>3, <2>4
<1> QED
  BY <1>6, <1>8, <1>9, FollowsFrom

LEMMA ReplaceFollows ==
    ASSUME NEW a, NEW b, NEW c, NEW kind, NEW d, NEW e,
           Table(d, a, b, kind), Table(e, a, c, kind), NEW n, Changed(b, c, n)
    PROVE  \A i \in 0..Len(a), j \in n..Len(b) : KeepsUp(d, e, 0, 1, i, j)
<1> DEFINE q == n - 1
<1>1. Len(a) \in Nat /\ Len(b) \in Nat /\ Len(c) \in Nat
  BY DEF Table
<1>2. n \in 1..Len(b) /\ Len(c) = Len(b) /\ \A j \in 1..Len(b) : j # n => c[j] = b[j]
  BY DEF Changed
<1>3. /\ q \in 0..Len(b) /\ n = q + 1 /\ q \in 0..Len(c) /\ q \in 0..q /\ q \in Nat /\ n \in Nat
      /\ n \in 1..Len(c) /\ n \in 0..Len(c) /\ n \in 0..Len(b) /\ n \in q..Len(c) /\ n - q = 1 /\ n \in n..n
  BY <1>1, <1>2
<1> HIDE DEF q
<1>4. Shifted(b, c, 0, q, 0)
  <2>1. \A j \in 0 + 1..q : c[j + 0] = b[j]
    BY <1>1, <1>2, <1>3
  <2> QED
    BY <1>1, <1>3, <2>1 DEF Shifted
<1>5. \A j \in n + 1..Len(b) : c[j + 0] = b[j]
  BY <1>1, <1>2, <1>3
<1>6. Shifted(b, c, n, Len(b), 0)
  BY <1>1, <1>2, <1>3, <1>5 DEF Shifted
<1>7. \A i \in 0..Len(a), j \in 0..q : At(d, i, j) \in Nat /\ AtMost(e, i, j, At(d, i, j))
  BY <1>4, Beginnings
<1>8. ASSUME NEW i \in 0..Len(a), KeptUp(d, e, 0, 1, i, n, n) PROVE KeepsUp(d, e, 0, 1, i, n)
  <2> DEFINE v == At(d, i, n)
             w == v + 1
  <2>1. v \in Nat
    BY <1>3, CellIs
  <2>2. w \in Int /\ w = v + 1 /\ i \in Nat /\ i \in i..Len(a) /\ n \in n..Len(c)
    BY <1>1, <1>3, <2>1
  <2> SUFFICES AtMost(e, i, n, w)
    <3>1. n + 0 = n
      BY <1>3
    <3> QED
      BY <3>1 DEF KeepsUp
  <2>3. CASE FromLeft(d, i, n)
    <3> DEFINE u == At(d, i, q)
    <3>1. n - 1 = q
      BY <1>3
    <3>2. u \in Nat /\ AtMost(e, i, q, u) /\ v = u + 1
      BY <1>3, <1>7, <2>3, <3>1 DEF FromLeft
    <3> HIDE DEF u, v, w
    <3>3. u + (i - i) + (n - q) <= w /\ u \in Int
      BY <1>3, <2>2, <3>2
    <3> QED
      BY <1>3, <2>2, <3>2, <3>3, Walk
  <2>4. CASE FromAbove(d, i, n)
    <3> DEFINE k == i - 1
               u == At(d, k, n)
               t == u + 1
    <3>1. i > 0
      BY <2>4 DEF FromAbove
    <3>2. k \in 0..Len(a) /\ k \in 0..i /\ k + n < i + n /\ i \in k..Len(a) /\ i - k = 1
      BY <1>1, <1>3, <2>2, <3>1
    <3>3. u \in Nat /\ v = u + 1
      BY <1>3, <2>4, <3>2, CellIs DEF FromAbove
    <3>4. AtMost(e, k, n, t)
      <4>0. \A g \in 0..i, h \in n..n : g + h < i + n => KeepsUp(d, e, 0, 1, g, h)
        BY <1>8 DEF KeptUp
      <4>1. KeepsUp(d, e, 0, 1, k, n)
        BY <1>3, <3>2, <4>0
      <4>2. n + 0 = n
        BY <1>3
      <4> QED
        BY <4>1, <4>2 DEF KeepsUp
    <3>5. t = u + 1
      OBVIOUS
    <3> HIDE DEF u, v, w, k, t
    <3>6. t + (i - k) + (n - n) <= w /\ t \in Int
      BY <1>3, <2>2, <3>2, <3>3, <3>5
    <3> QED
      BY <1>3, <2>2, <3>2, <3>4, <3>6, Walk
  <2>5. CASE SameLetter(d, a, b, i, n) \/ Substituted(d, i, n)
    <3> DEFINE k == i - 1
               u == At(d, k, q)
    <3>1. i > 0
      BY <2>5 DEF SameLetter, Substituted
    <3>2. k \in 0..Len(a) /\ i \in 1..Len(a) /\ k = i - 1 /\ q = n - 1
      BY <1>1, <1>3, <2>2, <3>1
    <3>3. u \in Nat /\ AtMost(e, k, q, u)
      BY <1>3, <1>7, <3>2
    <3>4. v = u \/ v = u + 1
      BY <2>5, <3>2 DEF SameLetter, Substituted
    <3> HIDE DEF u, v, w, k
    <3>5. u + 1 <= w /\ u \in Int
      BY <2>2, <3>3, <3>4
    <3> QED
      BY <1>3, <2>2, <3>2, <3>3, <3>5, Diagonal
  <2>6. ASSUME NEW p \in 1..i - 1, NEW r \in 1..n - 1, Crossed(d, a, b, i, n, p, r) PROVE AtMost(e, i, n, w)
    <3> DEFINE k == p - 1
               l == r - 1
               u == At(d, k, l)
    <3>1. /\ k \in Nat /\ l \in Nat /\ i \in k + 1..Len(a) /\ r \in l + 1..Len(c) /\ i \in i..Len(a) /\ n \in r..Len(c)
          /\ k \in 0..Len(a) /\ l \in 0..q /\ r \in 1..Len(b) /\ r # n
      BY <1>1, <1>2, <1>3, <2>2
    <3>2. u \in Nat /\ AtMost(e, k, l, u)
      BY <1>7, <3>1
    <3>3. v = u + (i - p) + (n - r) - 1
      BY <2>6 DEF Crossed
    <3>4. Agree(a, c, i, r)
      <4>1. b[r] = a[i]
        BY <2>6 DEF Crossed, Across
      <4> QED
        BY <1>2, <3>1, <4>1 DEF Agree
    <3>5. k = p - 1 /\ l = r - 1 /\ p \in Int /\ r \in Int
      BY <1>3, <2>2
    <3> HIDE DEF k, l, u, v, w
    <3>6. u + (i - k - 1) + (n - l - 1) <= w /\ u \in Int
      BY <1>3, <2>2, <3>2, <3>3, <3>5
    <3> QED
      BY <2>2, <3>1, <3>2, <3>4, <3>6, Via
  <2> HIDE DEF v, w
  <2>7. n > 0
    BY <1>3
  <2>8. \/ FromLeft(d, i, n)
        \/ FromAbove(d, i, n)
        \/ SameLetter(d, a, b, i, n)
        \/ Substituted(d, i, n)
        \/ Crossing(kind) /\ \E p \in 1..i - 1, r \in 1..n - 1 : Crossed(d, a, b, i, n, p, r)
    BY <1>3, <2>7, OriginIs
  <2> QED
    BY <2>3, <2>4, <2>5, <2>6, <2>8
<1>9. \A i \in 0..Len(a) : KeepsUp(d, e, 0, 1, i, n)
  <2>1. \A i \in 0..Len(a), j \in n..n : KeptUp(d, e, 0, 1, i, j, n) => KeepsUp(d, e, 0, 1, i, j)
    BY <1>3, <1>8
  <2>2. \A i \in 0..Len(a), j \in n..n : KeepsUp(d, e, 0, 1, i, j)
    BY <1>1, <1>3, <2>1, CellByCell
  <2> QED
    BY <1>3, <2>2
<1>10. ASSUME NEW i \in 0..Len(a), NEW j \in n + 1..Len(b), NEW p \in 1..i - 1, NEW r \in 1..n,
             Crossing(kind), Crossed(d, a, b, i, j, p, r)
      PROVE  KeepsUp(d, e, 0, 1, i, j)
  <2>1. /\ j \in 1..Len(b) /\ j \in 0..Len(b) /\ r \in 1..j - 1 /\ j + 0 <= Len(c) /\ p - 1 \in 0..Len(a) /\ r - 1 \in 0..q
        /\ j \in n + 1..Len(b) /\ r \in 1..n /\ r < j + 0 /\ r \in 1..Len(b) /\ j # n /\ j + 0 = j
    BY <1>1, <1>2, <1>3
  <2>2. AtMost(e, p - 1, r - 1, At(d, p - 1, r - 1)) /\ At(d, p - 1, r - 1) \in Nat
    BY <1>7, <2>1
  <2>3. CASE r # n
    <3>1. 0 \in Int /\ 1 \in Int /\ 0 <= 1
      OBVIOUS
    <3>2. c[r] = b[r] /\ c[j + 0] = b[j]
      BY <1>2, <2>1, <2>3
    <3> QED
      BY <1>10, <2>1, <2>2, <3>1, <3>2, CrossesOver
  <2>4. CASE r = n
    <3> DEFINE k == p - 1
               u == At(d, k, q)
               v == At(d, i, j)
               w == v + 1
    <3>1. /\ k \in Nat /\ q \in Nat /\ p \in k + 1..Len(a) /\ j \in q + 1..Len(c) /\ i \in p..Len(a) /\ j \in j..Len(c)
      BY <1>1, <1>2, <1>3, <2>1, <2>4
    <3>2. k = p - 1 /\ q = n - 1 /\ i \in Nat /\ p \in Nat /\ j \in Nat /\ n \in Nat /\ w = v + 1 /\ r - 1 = q
      BY <1>1, <1>3, <2>1, <2>4
    <3>3. u \in Nat /\ AtMost(e, k, q, u)
      BY <2>2, <3>2
    <3>4. v = u + (i - p) + (j - n) - 1
      BY <1>10, <2>4, <3>2 DEF Crossed
    <3>5. Agree(a, c, p, j)
      <4>1. a[p] = b[j]
        BY <1>10 DEF Crossed, Across
      <4>2. c[j] = b[j]
        BY <1>2, <2>1
      <4> QED
        BY <4>1, <4>2 DEF Agree
    <3>6. v \in Nat
      BY <2>1, CellIs
    <3> HIDE DEF k, u, v, w
    <3>7. u + (i - k - 1) + (j - q - 1) <= w /\ w \in Int /\ u \in Int
      <4>1. u \in Nat
        BY <3>3
      <4> QED
        BY <3>2, <3>4, <3>6, <4>1
    <3>8. AtMost(e, i, j, w)
      BY <3>1, <3>3, <3>5, <3>7, Via
    <3> QED
      BY <2>1, <3>8 DEF KeepsUp, v, w
  <2> QED
    BY <2>3, <2>4
<1> QED
  BY <1>6, <1>9, <1>10, FollowsFrom

\* Of a row and a column together one is saved, by replacing a letter.
LEMMA Slant ==
    ASSUME NEW d, NEW a, NEW b, NEW kind, Table(d, a, b, kind),
           NEW k \in Nat, NEW l \in Nat, NEW i \in k + 1..Len(a), NEW j \in l + 1..Len(b),
           NEW v \in Int, NEW w \in Int, AtMost(d, k, l, v), v + (i - k) + (j - l) - 1 <= w
    PROVE  AtMost(d, i, j, w)
<1> DEFINE g == k + 1
           h == l + 1
           v2 == v + 1
<1>1. Len(a) \in Nat /\ Len(b) \in Nat
  BY DEF Table
<1>2. /\ g \in 1..Len(a) /\ h \in 1..Len(b) /\ k = g - 1 /\ l = h - 1 /\ v2 \in Int /\ v + 1 <= v2
      /\ g \in 0..Len(a) /\ h \in 0..Len(b) /\ i \in g..Len(a) /\ j \in h..Len(b) /\ v2 + (i - g) + (j - h) <= w
  BY <1>1
<1> HIDE DEF g, h, v2
<1>3. AtMost(d, g, h, v2)
  BY <1>2, Diagonal
<1> QED
  BY <1>2, <1>3, Walk

\* What the first of two swapped letters' cells come from, as ways in the other table.
SwapOrigin(d, e, a, c, n, kind, k) ==
    \/ \E u \in Nat : AtMost(e, k, n - 1, u) /\ At(d, k, n) = u + 1
    \/ k > 0 /\ At(d, k, n) = At(d, k - 1, n) + 1
    \/ k > 0 /\ \E u \in Nat :
            /\ AtMost(e, k - 1, n - 1, u)
            /\ (At(d, k, n) = u /\ Agree(a, c, k, n + 1)) \/ At(d, k, n) = u + 1
    \/ Crossing(kind) /\ \E u \in Nat, g \in 1..k - 1, r \in 1..n - 1 :
            /\ AtMost(e, g - 1, r - 1, u) /\ At(d, k, n) = u + (k - g) + (n - r) - 1
            /\ Agree(a, c, g, n + 1) /\ Agree(a, c, k, r)

LEMMA SwapComesFrom ==
    ASSUME NEW a, NEW b, NEW c, NEW kind, NEW d, NEW e,
           Table(d, a, b, kind), Table(e, a, c, kind), NEW n, Swapped(b, c, n)
    PROVE  /\ n \in Nat /\ n >= 1 /\ n + 1 <= Len(c) /\ Len(b) = Len(c) /\ Len(a) \in Nat /\ Len(c) \in Nat
           /\ \A i \in 0..Len(a), j \in 0..n - 1 : At(d, i, j) \in Nat /\ AtMost(e, i, j, At(d, i, j))
           /\ \A k \in 0..Len(a) : At(d, k, n) \in Nat /\ SwapOrigin(d, e, a, c, n, kind, k)
<1> DEFINE q == n - 1
<1>1. Len(a) \in Nat /\ Len(b) \in Nat /\ Len(c) \in Nat
  BY DEF Table
<1>2. /\ n \in 1..Len(b) - 1 /\ Len(c) = Len(b)
      /\ c[n + 1] = b[n]
      /\ \A j \in 1..Len(b) : j # n /\ j # n + 1 => c[j] = b[j]
  BY DEF Swapped
<1>3. /\ n \in Nat /\ n >= 1 /\ n + 1 <= Len(c) /\ q \in 0..Len(b) /\ q \in 0..q /\ q = n - 1 /\ q \in Nat
      /\ n \in 0..Len(b) /\ n > 0 /\ q <= Len(b) /\ q <= Len(c)
  BY <1>1, <1>2
<1> HIDE DEF q
<1>4. \A j \in 1..q : j \in 1..Len(b) /\ j # n /\ j # n + 1
  BY <1>1, <1>3
<1>5. \A j \in 1..q : c[j] = b[j]
  BY <1>2, <1>4
<1>6. Shifted(b, c, 0, q, 0)
  <2>1. \A j \in 0 + 1..q : c[j + 0] = b[j]
    BY <1>3, <1>5
  <2> QED
    BY <1>1, <1>3, <2>1 DEF Shifted
<1>7. \A i \in 0..Len(a), j \in 0..q : At(d, i, j) \in Nat /\ AtMost(e, i, j, At(d, i, j))
  BY <1>6, Beginnings
<1> SUFFICES ASSUME NEW k \in 0..Len(a)
             PROVE  At(d, k, n) \in Nat /\ SwapOrigin(d, e, a, c, n, kind, k)
  BY <1>1, <1>2, <1>3, <1>7
<1>8. At(d, k, n) \in Nat
  BY <1>3, CellIs
<1>9. ASSUME FromLeft(d, k, n) PROVE SwapOrigin(d, e, a, c, n, kind, k)
  <2>1. At(d, k, n) = At(d, k, q) + 1
    BY <1>3, <1>9 DEF FromLeft
  <2>2. At(d, k, q) \in Nat /\ AtMost(e, k, q, At(d, k, q))
    BY <1>3, <1>7
  <2> QED
    BY <1>3, <2>1, <2>2 DEF SwapOrigin
<1>10. ASSUME FromAbove(d, k, n) PROVE SwapOrigin(d, e, a, c, n, kind, k)
  BY <1>10 DEF FromAbove, SwapOrigin
<1>11. ASSUME SameLetter(d, a, b, k, n) \/ Substituted(d, k, n) PROVE SwapOrigin(d, e, a, c, n, kind, k)
  <2>1. k > 0
    BY <1>11 DEF SameLetter, Substituted
  <2>2. k - 1 \in 0..Len(a)
    BY <1>1, <2>1
  <2>3. At(d, k - 1, q) \in Nat /\ AtMost(e, k - 1, q, At(d, k - 1, q))
    BY <1>3, <1>7, <2>2
  <2>4. (At(d, k, n) = At(d, k - 1, q) /\ a[k] = b[n]) \/ At(d, k, n) = At(d, k - 1, q) + 1
    BY <1>3, <1>11 DEF SameLetter, Substituted
  <2>5. (At(d, k, n) = At(d, k - 1, q) /\ Agree(a, c, k, n + 1)) \/ At(d, k, n) = At(d, k - 1, q) + 1
    BY <1>2, <2>4 DEF Agree
  <2> QED
    BY <1>3, <2>1, <2>3, <2>5 DEF SwapOrigin
<1>12. ASSUME Crossing(kind), NEW g \in 1..k - 1, NEW r \in 1..n - 1, Crossed(d, a, b, k, n, g, r)
       PROVE  SwapOrigin(d, e, a, c, n, kind, k)
  <2>1. g - 1 \in 0..Len(a) /\ r - 1 \in 0..q /\ r \in 1..q
    BY <1>1, <1>3
  <2>2. At(d, g - 1, r - 1) \in Nat /\ AtMost(e, g - 1, r - 1, At(d, g - 1, r - 1))
    BY <1>7, <2>1
  <2>3. At(d, k, n) = At(d, g - 1, r - 1) + (k - g) + (n - r) - 1
    BY <1>12 DEF Crossed
  <2>4. Agree(a, c, g, n + 1) /\ Agree(a, c, k, r)
    <3>1. a[g] = b[n] /\ b[r] = a[k]
      BY <1>12 DEF Crossed, Across
    <3> QED
      BY <1>2, <1>5, <2>1, <3>1 DEF Agree
  <2>5. r \in 1..n - 1
    OBVIOUS
  <2> QED
    BY <1>12, <2>2, <2>3, <2>4, <2>5 DEF SwapOrigin
<1>13. \/ FromLeft(d, k, n)
       \/ FromAbove(d, k, n)
       \/ SameLetter(d, a, b, k, n)
       \/ Substituted(d, k, n)
       \/ Crossing(kind) /\ \E g \in 1..k - 1, r \in 1..n - 1 : Crossed(d, a, b, k, n, g, r)
  BY <1>3, OriginIs
<1> QED
  BY <1>8, <1>9, <1>10, <1>11, <1>12, <1>13

\* The second of two swapped letters' cells are at most 2 more than those before were.
LEMMA SwapDelays ==
    ASSUME NEW a, NEW b, NEW c, NEW kind, NEW d, NEW e,
           Table(d, a, b, kind), Table(e, a, c, kind), NEW n, Swapped(b, c, n)
    PROVE  \A k \in 0..Len(a) : AtMost(e, k, n + 1, At(d, k, n) + 2)
<1> DEFINE X == {k \in Nat : k <= Len(a) => AtMost(e, k, n + 1, At(d, k, n) + 2)}
           q == n - 1
           m == n + 1
<1>1. n \in Nat /\ n >= 1 /\ n + 1 <= Len(c) /\ Len(a) \in Nat /\ Len(c) \in Nat
  BY SwapComesFrom
<1>2. /\ q \in Nat /\ n = q + 1 /\ m = q + 2 /\ q \in 0..Len(c) /\ m \in 0..Len(c) /\ m \in q + 1..Len(c) /\ m \in m..Len(c)
      /\ m \in q..Len(c)
  BY <1>1
<1> HIDE DEF q, m
<1>3. ASSUME NEW k \in Nat, k > 0 => k - 1 \in X PROVE k \in X
  <2> SUFFICES ASSUME k <= Len(a) PROVE AtMost(e, k, m, At(d, k, n) + 2)
    BY DEF m
  <2> DEFINE v == At(d, k, n)
             w == v + 2
  <2>1. k \in 0..Len(a) /\ k \in k..Len(a)
    BY <1>1
  <2>2. /\ v \in Nat
        /\ \/ \E u \in Nat : AtMost(e, k, q, u) /\ v = u + 1
           \/ k > 0 /\ v = At(d, k - 1, n) + 1
           \/ k > 0 /\ \E u \in Nat :
                /\ AtMost(e, k - 1, q, u)
                /\ (v = u /\ Agree(a, c, k, m)) \/ v = u + 1
           \/ Crossing(kind) /\ \E u \in Nat, g \in 1..k - 1, r \in 1..q :
                /\ AtMost(e, g - 1, r - 1, u) /\ v = u + (k - g) + (n - r) - 1
                /\ Agree(a, c, g, m) /\ Agree(a, c, k, r)
    <3>1. v \in Nat /\ SwapOrigin(d, e, a, c, n, kind, k)
      BY <2>1, SwapComesFrom
    <3> QED
      BY <3>1 DEF SwapOrigin, q, m
  <2>3. w = v + 2 /\ w \in Int
    BY <2>2
  <2> SUFFICES AtMost(e, k, m, w)
    OBVIOUS
  <2>4. ASSUME k > 0, v = At(d, k - 1, n) + 1 PROVE AtMost(e, k, m, w)
    <3> DEFINE g == k - 1
               t == At(d, g, n)
               u == t + 2
    <3>1. g \in X /\ g <= Len(a) /\ g \in 0..Len(a) /\ k \in g..Len(a) /\ k - g = 1
      BY <1>1, <1>3, <2>1, <2>4
    <3>2. AtMost(e, g, m, u)
      BY <3>1 DEF m
    <3>3. t \in Nat
      BY <3>1, SwapComesFrom
    <3>4. u = t + 2 /\ v = t + 1
      BY <2>4
    <3> HIDE DEF g, t, u, v, w
    <3>5. u + (k - g) + (m - m) <= w /\ u \in Int
      BY <1>2, <2>3, <3>1, <3>3, <3>4
    <3> QED
      BY <1>2, <2>3, <3>1, <3>2, <3>5, Walk
  <2> HIDE DEF v, w, X
  <2>5. ASSUME NEW u \in Nat, AtMost(e, k, q, u), v = u + 1 PROVE AtMost(e, k, m, w)
    <3>1. u + (k - k) + (m - q) <= w /\ u \in Int
      BY <1>2, <2>3, <2>5
    <3> QED
      BY <1>2, <2>1, <2>3, <2>5, <3>1, Walk
  <2>6. ASSUME k > 0, NEW u \in Nat, AtMost(e, k - 1, q, u), v = u, Agree(a, c, k, m) PROVE AtMost(e, k, m, w)
    <3> DEFINE g == k - 1
    <3>1. g \in Nat /\ k \in g + 1..Len(a) /\ k - g = 1
      BY <2>1, <2>6
    <3>2. AtMost(e, g, q, u)
      BY <2>6
    <3> HIDE DEF g
    <3>3. u + (k - g - 1) + (m - q - 1) <= w /\ u \in Int
      BY <1>2, <2>3, <2>6, <3>1
    <3> QED
      BY <1>2, <2>1, <2>3, <2>6, <3>1, <3>2, <3>3, Via
  <2>7. ASSUME k > 0, NEW u \in Nat, AtMost(e, k - 1, q, u), v = u + 1 PROVE AtMost(e, k, m, w)
    <3> DEFINE g == k - 1
    <3>1. g \in 0..Len(a) /\ k \in g..Len(a) /\ k - g = 1
      BY <1>1, <2>1, <2>7
    <3>2. AtMost(e, g, q, u)
      BY <2>7
    <3> HIDE DEF g
    <3>3. u + (k - g) + (m - q) <= w /\ u \in Int
      BY <1>2, <2>3, <2>7, <3>1
    <3> QED
      BY <1>2, <2>1, <2>3, <3>1, <3>2, <3>3, Walk
  <2>8. ASSUME NEW u \in Nat, NEW g \in 1..k - 1, NEW r \in 1..q,
               AtMost(e, g - 1, r - 1, u), v = u + (k - g) + (n - r) - 1, Agree(a, c, g, m)
        PROVE  AtMost(e, k, m, w)
    <3> DEFINE i == g - 1
               j == r - 1
    <3>1. i \in Nat /\ j \in Nat /\ g \in i + 1..Len(a) /\ m \in j + 1..Len(c) /\ k \in g..Len(a) /\ i = g - 1 /\ j = r - 1 /\ g \in Int /\ r \in Int
      BY <1>1, <1>2, <2>1
    <3>2. AtMost(e, i, j, u)
      BY <2>8
    <3> HIDE DEF i, j
    <3>3. u + (k - i - 1) + (m - j - 1) <= w /\ u \in Int
      BY <1>2, <2>3, <2>8, <3>1
    <3> QED
      BY <1>2, <2>3, <2>8, <3>1, <3>2, <3>3, Via
  <2> QED
    BY <2>2, <2>4, <2>5, <2>6, <2>7, <2>8
<1> HIDE DEF X
<1>4. 0 \in X
  BY <1>3
<1>5. ASSUME NEW k \in Nat, k \in X PROVE k + 1 \in X
  <2>1. k + 1 \in Nat /\ (k + 1) - 1 = k
    OBVIOUS
  <2> QED
    BY <1>3, <1>5, <2>1
<1>6. Nat \subseteq X
  BY <1>4, <1>5, InductionOverSet
<1> QED
  BY <1>1, <1>6 DEF X

\* What the cell behind the second of them comes from is 1 more at most as well: no swap
\* has to be undone that the letters a and c agree on.
LEMMA SwapBelow ==
    ASSUME NEW a, NEW b, NEW c, NEW kind, NEW d, NEW e, Crossing(kind),
           Table(d, a, b, kind), Table(e, a, c, kind), NEW n, Swapped(b, c, n), NEW i \in 1..Len(a),
           NEW z \in {0, 1}, z = 0 => Agree(a, c, i, n)
    PROVE  \A k \in 0..i - 1 : AtMost(e, i, n + 1, At(d, k, n) + (i - k) + z)
<1> DEFINE X == {k \in Nat : k <= i - 1 => AtMost(e, i, n + 1, At(d, k, n) + (i - k) + z)}
           q == n - 1
           m == n + 1
<1>1. n \in Nat /\ n >= 1 /\ n + 1 <= Len(c) /\ Len(a) \in Nat /\ Len(c) \in Nat
  BY SwapComesFrom
<1>2. /\ q \in Nat /\ n = q + 1 /\ m = q + 2 /\ q \in 0..Len(c) /\ m \in 0..Len(c) /\ m \in q + 1..Len(c) /\ m \in m..Len(c)
      /\ m \in q..Len(c) /\ m \in n..Len(c) /\ n \in q + 1..Len(c) /\ m \in 1..Len(c) /\ n \in 1..m - 1 /\ m - n = 1
      /\ i \in Nat /\ i \in 0..Len(a) /\ i \in i..Len(a) /\ i <= Len(a) /\ z \in Int
  BY <1>1
<1> HIDE DEF q, m
<1>3. ASSUME NEW k \in Nat, k > 0 => k - 1 \in X PROVE k \in X
  <2> SUFFICES ASSUME k <= i - 1 PROVE AtMost(e, i, m, At(d, k, n) + (i - k) + z)
    BY DEF m
  <2> DEFINE v == At(d, k, n)
             w == v + (i - k) + z
  <2>1. k \in 0..Len(a) /\ k <= i - 1
    BY <1>1, <1>2
  <2>2. /\ v \in Nat
        /\ \/ \E u \in Nat : AtMost(e, k, q, u) /\ v = u + 1
           \/ k > 0 /\ v = At(d, k - 1, n) + 1
           \/ k > 0 /\ \E u \in Nat :
                /\ AtMost(e, k - 1, q, u)
                /\ (v = u /\ Agree(a, c, k, m)) \/ v = u + 1
           \/ Crossing(kind) /\ \E u \in Nat, g \in 1..k - 1, r \in 1..q :
                /\ AtMost(e, g - 1, r - 1, u) /\ v = u + (k - g) + (n - r) - 1
                /\ Agree(a, c, g, m) /\ Agree(a, c, k, r)
    <3>1. v \in Nat /\ SwapOrigin(d, e, a, c, n, kind, k)
      BY <2>1, SwapComesFrom
    <3> QED
      BY <3>1 DEF SwapOrigin, q, m
  <2>3. w = v + (i - k) + z /\ w \in Int
    BY <1>2, <2>2
  <2> SUFFICES AtMost(e, i, m, w)
    OBVIOUS
  <2>4. ASSUME k > 0, v = At(d, k - 1, n) + 1 PROVE AtMost(e, i, m, w)
    <3> DEFINE g == k - 1
               t == At(d, g, n)
               u == t + (i - g) + z
    <3>1. g \in X /\ g <= i - 1 /\ g \in 0..Len(a) /\ k - g = 1 /\ g \in Int
      BY <1>1, <1>2, <1>3, <2>1, <2>4
    <3>2. AtMost(e, i, m, u)
      BY <3>1 DEF m
    <3>3. t \in Nat
      BY <3>1, SwapComesFrom
    <3>4. u = t + (i - g) + z /\ v = t + 1
      BY <2>4
    <3> HIDE DEF g, t, u, v, w
    <3>5. u + (i - i) + (m - m) <= w /\ u \in Int
      BY <1>2, <2>3, <3>1, <3>3, <3>4
    <3> QED
      BY <1>2, <2>3, <3>2, <3>5, Walk
  <2> HIDE DEF v, w, X
  <2>5. ASSUME NEW u \in Nat, AtMost(e, k, q, u), v = u + 1 PROVE AtMost(e, i, m, w)
    <3>1. i \in k + 1..Len(a) /\ i \in k..Len(a) /\ k \in 0..Len(a)
      BY <1>1, <1>2
    <3>2. CASE z = 0
      <4>1. u + (i - k - 1) + (m - q - 1) <= w /\ u \in Int /\ Agree(a, c, i, n)
        BY <1>2, <2>3, <2>5, <3>2
      <4> QED
        BY <1>2, <2>3, <2>5, <3>1, <4>1, Via
    <3>3. CASE z = 1
      <4>1. u + (i - k) + (m - q) <= w /\ u \in Int
        BY <1>2, <2>3, <2>5, <3>3
      <4> QED
        BY <1>2, <2>3, <2>5, <3>1, <4>1, Walk
    <3> QED
      BY <3>2, <3>3
  <2>6. ASSUME k > 0, NEW u \in Nat, AtMost(e, k - 1, q, u), (v = u /\ Agree(a, c, k, m)) \/ v = u + 1
        PROVE  AtMost(e, i, m, w)
    <3> DEFINE g == k - 1
    <3>1. /\ g \in Nat /\ k \in g + 1..Len(a) /\ i \in g + 1..Len(a) /\ i \in k..Len(a) /\ k \in 1..i - 1 /\ g \in 0..Len(a)
          /\ g = k - 1 /\ i \in 1..Len(a) /\ k \in Int /\ n \in Int
      BY <1>1, <1>2, <2>6
    <3>2. AtMost(e, g, q, u)
      BY <2>6
    <3>3. q = n - 1
      BY <1>2
    <3> HIDE DEF g
    <3>4. CASE v = u /\ Agree(a, c, k, m) /\ z = 0
      <4>1. u + (i - k) + (m - n) - 1 <= w /\ u \in Int
        <5>1. v = u /\ z = 0
          BY <3>4
        <5> QED
          BY <1>2, <2>3, <5>1
      <4>2. Across(a, c, i, m, k, n)
        BY <1>2, <3>1, <3>4 DEF Across, Agree
      <4> QED
        BY <1>2, <2>3, <3>1, <3>2, <3>3, <4>1, <4>2, GoesAcross
    <3>5. CASE v = u /\ Agree(a, c, k, m) /\ z = 1
      <4>1. u + (i - g - 1) + (m - q - 1) <= w /\ u \in Int
        <5>1. v = u /\ z = 1
          BY <3>5
        <5> QED
          BY <1>2, <2>3, <3>1, <5>1
      <4> QED
        BY <1>2, <2>3, <3>1, <3>2, <3>5, <4>1, Via
    <3>6. CASE v = u + 1 /\ z = 0
      <4>1. u + (i - g - 1) + (m - q - 1) <= w /\ u \in Int /\ Agree(a, c, i, n)
        BY <1>2, <2>3, <3>1, <3>6
      <4> QED
        BY <1>2, <2>3, <3>1, <3>2, <4>1, Via
    <3>7. CASE v = u + 1 /\ z = 1
      <4>1. u + (i - g) + (m - q) - 1 <= w /\ u \in Int
        BY <1>2, <2>3, <3>1, <3>7
      <4> QED
        BY <1>2, <2>3, <3>1, <3>2, <4>1, Slant
    <3> QED
      BY <2>6, <3>4, <3>5, <3>6, <3>7
  <2>8. ASSUME NEW u \in Nat, NEW g \in 1..k - 1, NEW r \in 1..q,
               AtMost(e, g - 1, r - 1, u), v = u + (k - g) + (n - r) - 1, Agree(a, c, g, m), Agree(a, c, k, r)
        PROVE  AtMost(e, i, m, w)
    <3> DEFINE x == g - 1
               y == r - 1
               h == i - 1
    <3>1. /\ x \in Nat /\ y \in Nat /\ k \in x + 1..Len(a) /\ r \in y + 1..Len(c) /\ h \in k..Len(a) /\ q \in r..Len(c)
          /\ x = g - 1 /\ y = r - 1 /\ h = i - 1 /\ g \in Int /\ r \in Int /\ h \in Nat /\ i \in h + 1..Len(a)
          /\ g \in 1..k - 1 /\ r \in 1..m - 1 /\ k \in 1..Len(a) /\ k \in 0..Len(a) /\ i \in k..Len(a) /\ x \in 0..Len(a)
      BY <1>1, <1>2, <2>1
    <3>2. AtMost(e, x, y, u)
      BY <2>8
    <3> HIDE DEF x, y, h
    <3>3. CASE z = 0
      <4> DEFINE t == u + (h - x - 1) + (q - y - 1)
      <4>1. t \in Int /\ t = u + (h - x - 1) + (q - y - 1) /\ u \in Int /\ u + (h - x - 1) + (q - y - 1) <= t
        BY <1>2, <3>1
      <4> HIDE DEF t
      <4>2. AtMost(e, h, q, t)
        <5>1. /\ x \in Nat /\ y \in Nat /\ k \in x + 1..Len(a) /\ r \in y + 1..Len(c)
              /\ h \in k..Len(a) /\ q \in r..Len(c) /\ Agree(a, c, k, r)
          BY <2>8, <3>1
        <5> QED
          BY <3>2, <4>1, <5>1, Via
      <4>3. t + (i - h - 1) + (m - q - 1) <= w
        BY <1>2, <2>3, <2>8, <3>1, <3>3, <4>1
      <4>4. Agree(a, c, i, n)
        BY <3>3
      <4> QED
        BY <1>2, <2>3, <3>1, <4>1, <4>2, <4>3, <4>4, Via
    <3>4. CASE z = 1
      <4> DEFINE t == u + (k - g) + (m - r) - 1
      <4>1. t \in Int /\ t = u + (k - g) + (m - r) - 1 /\ u \in Int /\ u + (k - g) + (m - r) - 1 <= t
        BY <1>2, <3>1
      <4> HIDE DEF t
      <4>2. Across(a, c, k, m, g, r)
        BY <2>8, <3>1 DEF Across, Agree
      <4>3. AtMost(e, k, m, t)
        BY <1>2, <3>1, <3>2, <4>1, <4>2, GoesAcross
      <4>4. t + (i - k) + (m - m) <= w
        BY <1>2, <2>3, <2>8, <3>1, <3>4, <4>1
      <4> QED
        BY <1>2, <2>3, <3>1, <4>1, <4>3, <4>4, Walk
    <3> QED
      BY <3>3, <3>4
  <2> QED
    BY <2>2, <2>4, <2>5, <2>6, <2>8
<1> HIDE DEF X
<1>4. 0 \in X
  BY <1>3
<1>5. ASSUME NEW k \in Nat, k \in X PROVE k + 1 \in X
  <2>1. k + 1 \in Nat /\ (k + 1) - 1 = k
    OBVIOUS
  <2> QED
    BY <1>3, <1>5, <2>1
<1>6. Nat \subseteq X
  BY <1>4, <1>5, InductionOverSet
<1> QED
  BY <1>2, <1>6 DEF X

\* Letters that were crossed over the second of the swapped ones, though what is between
\* them is one letter more now.
LEMMA SwapRunsOn ==
    ASSUME NEW a, NEW b, NEW c, NEW kind, NEW d, NEW e, Crossing(kind),
           Table(d, a, b, kind), Table(e, a, c, kind), NEW n, Swapped(b, c, n),
           NEW i \in 1..Len(a), NEW j \in n + 2..Len(c), NEW p \in 1..i - 1,
           Agree(a, c, p, j), Agree(a, c, i, n)
    PROVE  \A k \in 0..p - 1 : AtMost(e, i, j, At(d, k, n) + (i - 1 - k) + (j - n - 1))
<1> DEFINE X == {k \in Nat : k <= p - 1 => AtMost(e, i, j, At(d, k, n) + (i - 1 - k) + (j - n - 1))}
           q == n - 1
           m == n + 1
           f == p - 1
           h == j - 1
<1>1. n \in Nat /\ n >= 1 /\ n + 1 <= Len(c) /\ Len(a) \in Nat /\ Len(c) \in Nat
  BY SwapComesFrom
<1>2. /\ q \in Nat /\ n = q + 1 /\ m = q + 2 /\ q \in 0..Len(c) /\ m \in 0..Len(c) /\ m \in q + 1..Len(c)
      /\ m \in 1..Len(c) /\ n \in 1..j - 1 /\ q = n - 1
      /\ i \in Nat /\ i \in 0..Len(a) /\ i \in i..Len(a) /\ i <= Len(a)
      /\ j \in Nat /\ j \in 0..Len(c) /\ j \in 1..Len(c) /\ j \in j..Len(c) /\ h \in m..Len(c) /\ h \in Nat /\ h \in 0..Len(c)
      /\ j \in h + 1..Len(c) /\ h = j - 1 /\ f = p - 1 /\ f \in Nat /\ f \in 0..Len(a) /\ p \in f + 1..Len(a)
      /\ p \in 1..Len(a) /\ p \in Int /\ n \in Int /\ i \in p..Len(a) /\ p <= i - 1
  BY <1>1
<1> HIDE DEF q, m, f, h
<1>3. ASSUME NEW k \in Nat, k > 0 => k - 1 \in X PROVE k \in X
  <2> SUFFICES ASSUME k <= p - 1 PROVE AtMost(e, i, j, At(d, k, n) + (i - 1 - k) + (j - n - 1))
    OBVIOUS
  <2> DEFINE v == At(d, k, n)
             w == v + (i - 1 - k) + (j - n - 1)
  <2>1. k \in 0..Len(a) /\ k <= p - 1 /\ k <= f /\ f \in k..Len(a)
    BY <1>1, <1>2
  <2>2. /\ v \in Nat
        /\ \/ \E u \in Nat : AtMost(e, k, q, u) /\ v = u + 1
           \/ k > 0 /\ v = At(d, k - 1, n) + 1
           \/ k > 0 /\ \E u \in Nat :
                /\ AtMost(e, k - 1, q, u)
                /\ (v = u /\ Agree(a, c, k, m)) \/ v = u + 1
           \/ Crossing(kind) /\ \E u \in Nat, g \in 1..k - 1, r \in 1..q :
                /\ AtMost(e, g - 1, r - 1, u) /\ v = u + (k - g) + (n - r) - 1
                /\ Agree(a, c, g, m) /\ Agree(a, c, k, r)
    <3>1. v \in Nat /\ SwapOrigin(d, e, a, c, n, kind, k)
      BY <2>1, SwapComesFrom
    <3> QED
      BY <3>1 DEF SwapOrigin, q, m
  <2>3. w = v + (i - 1 - k) + (j - n - 1) /\ w \in Int
    BY <1>2, <2>2
  <2> SUFFICES AtMost(e, i, j, w)
    OBVIOUS
  <2>4. ASSUME k > 0, v = At(d, k - 1, n) + 1 PROVE AtMost(e, i, j, w)
    <3> DEFINE g == k - 1
               t == At(d, g, n)
               u == t + (i - 1 - g) + (j - n - 1)
    <3>1. g \in X /\ g <= p - 1 /\ g \in 0..Len(a) /\ k - g = 1 /\ g \in Int
      BY <1>1, <1>2, <1>3, <2>1, <2>4
    <3>2. AtMost(e, i, j, u)
      BY <3>1
    <3>3. t \in Nat
      BY <3>1, SwapComesFrom
    <3>4. u = t + (i - 1 - g) + (j - n - 1) /\ v = t + 1
      BY <2>4
    <3> HIDE DEF g, t, u, v, w
    <3>5. u + (i - i) + (j - j) <= w /\ u \in Int
      BY <1>2, <2>3, <3>1, <3>3, <3>4
    <3> QED
      BY <1>2, <2>3, <3>2, <3>5, Walk
  <2> HIDE DEF v, w, X
  <2>5. ASSUME NEW x \in k - 1..k, x \in Nat, NEW u \in Nat, AtMost(e, x, q, u), v = u + 1
        PROVE  AtMost(e, i, j, w)
    <3> DEFINE t == u + (f - x)
    <3>1. /\ t \in Int /\ t = u + (f - x) /\ u + (f - x) + (q - q) <= t /\ u \in Int
          /\ x \in 0..Len(a) /\ f \in x..Len(a) /\ q \in q..Len(c)
      BY <1>1, <1>2, <2>1, <2>5
    <3> HIDE DEF t
    <3>2. AtMost(e, f, q, t)
      <4>1. /\ x \in 0..Len(a) /\ q \in 0..Len(c) /\ f \in x..Len(a) /\ q \in q..Len(c) /\ u \in Int /\ t \in Int
            /\ AtMost(e, x, q, u) /\ u + (f - x) + (q - q) <= t
        BY <1>2, <2>5, <3>1
      <4> QED
        BY <4>1, Walk
    <3>3. t + (i - p) + (j - n) - 1 <= w
      BY <1>2, <2>1, <2>3, <2>5, <3>1
    <3>4. Across(a, c, i, j, p, n)
      BY <1>2 DEF Across, Agree
    <3>5. i \in 1..Len(a) /\ j \in 1..Len(c) /\ p \in Int /\ n \in Int /\ f = p - 1 /\ q = n - 1 /\ t \in Int /\ w \in Int
      BY <1>2, <2>3, <3>1
    <3> QED
      BY <3>2, <3>3, <3>4, <3>5, GoesAcross
  <2>6. ASSUME k > 0, NEW u \in Nat, AtMost(e, k - 1, q, u), v = u, Agree(a, c, k, m)
        PROVE  AtMost(e, i, j, w)
    <3> DEFINE g == k - 1
               t == u + (f - g - 1) + (h - q - 1)
    <3>1. /\ g \in Nat /\ k \in g + 1..Len(a) /\ f \in k..Len(a) /\ g \in 0..Len(a) /\ g = k - 1
          /\ t \in Int /\ u \in Int /\ t = u + (f - g - 1) + (h - q - 1) /\ u + (f - g - 1) + (h - q - 1) <= t
      BY <1>1, <1>2, <2>1, <2>6
    <3>2. AtMost(e, g, q, u)
      BY <2>6
    <3> HIDE DEF g, t
    <3>3. AtMost(e, f, h, t)
      <4>1. /\ g \in Nat /\ q \in Nat /\ k \in g + 1..Len(a) /\ m \in q + 1..Len(c)
            /\ f \in k..Len(a) /\ h \in m..Len(c) /\ Agree(a, c, k, m)
        BY <1>2, <2>6, <3>1
      <4> QED
        BY <3>1, <3>2, <4>1, Via
    <3>4. t + (i - f - 1) + (j - h - 1) <= w
      BY <1>2, <2>3, <2>6, <3>1
    <3>5. w \in Int /\ Agree(a, c, p, j)
      BY <2>3
    <3> QED
      BY <1>2, <3>1, <3>3, <3>4, <3>5, Via
  <2>7. ASSUME NEW u \in Nat, NEW g \in 1..k - 1, NEW r \in 1..q,
               AtMost(e, g - 1, r - 1, u), v = u + (k - g) + (n - r) - 1, Agree(a, c, g, m), Agree(a, c, k, r)
        PROVE  AtMost(e, i, j, w)
    <3> DEFINE x == g - 1
               y == r - 1
               t == u + (k - g) + (m - r) - 1
               s == t + (f - k) + (h - m)
    <3>1. /\ x = g - 1 /\ y = r - 1 /\ g \in Int /\ r \in Int /\ g \in 1..k - 1 /\ r \in 1..m - 1 /\ k \in 1..Len(a)
          /\ t \in Int /\ t = u + (k - g) + (m - r) - 1 /\ u \in Int /\ u + (k - g) + (m - r) - 1 <= t
          /\ s \in Int /\ s = t + (f - k) + (h - m) /\ t + (f - k) + (h - m) <= s
          /\ k \in 0..Len(a) /\ f \in k..Len(a)
      BY <1>1, <1>2, <2>1
    <3>2. AtMost(e, x, y, u)
      BY <2>7
    <3> HIDE DEF x, y, t, s
    <3>3. Across(a, c, k, m, g, r)
      BY <2>7, <3>1 DEF Across, Agree
    <3>4. AtMost(e, k, m, t)
      BY <1>2, <3>1, <3>2, <3>3, GoesAcross
    <3>5. AtMost(e, f, h, s)
      BY <1>2, <3>1, <3>4, Walk
    <3>6. s + (i - f - 1) + (j - h - 1) <= w
      BY <1>2, <2>3, <2>7, <3>1
    <3>7. w \in Int /\ Agree(a, c, p, j)
      BY <2>3
    <3> QED
      BY <1>2, <3>1, <3>5, <3>6, <3>7, Via
  <2>8. k \in k - 1..k /\ (k > 0 => k - 1 \in k - 1..k /\ k - 1 \in Nat)
    OBVIOUS
  <2>9. ASSUME NEW u \in Nat, AtMost(e, k, q, u), v = u + 1 PROVE AtMost(e, i, j, w)
    BY <2>5, <2>8, <2>9
  <2>10. ASSUME k > 0, NEW u \in Nat, AtMost(e, k - 1, q, u), v = u + 1 PROVE AtMost(e, i, j, w)
    BY <2>5, <2>8, <2>10
  <2> QED
    BY <2>2, <2>4, <2>6, <2>7, <2>9, <2>10
<1> HIDE DEF X
<1>4. 0 \in X
  BY <1>3
<1>5. ASSUME NEW k \in Nat, k \in X PROVE k + 1 \in X
  <2>1. k + 1 \in Nat /\ (k + 1) - 1 = k
    OBVIOUS
  <2> QED
    BY <1>3, <1>5, <2>1
<1>6. Nat \subseteq X
  BY <1>4, <1>5, InductionOverSet
<1> QED
  BY <1>2, <1>6 DEF X

LEMMA SwapFollows ==
    ASSUME NEW a, NEW b, NEW c, NEW kind, NEW d, NEW e, Crossing(kind),
           Table(d, a, b, kind), Table(e, a, c, kind), NEW n, Swapped(b, c, n)
    PROVE  \A i \in 0..Len(a), j \in n + 1..Len(b) : KeepsUp(d, e, 0, 1, i, j)
<1> DEFINE q == n - 1
           m == n + 1
<1>1. n \in Nat /\ n >= 1 /\ n + 1 <= Len(c) /\ Len(b) = Len(c) /\ Len(a) \in Nat /\ Len(c) \in Nat
  BY SwapComesFrom
<1>2. /\ q \in Nat /\ n = q + 1 /\ m = q + 2 /\ q \in 0..Len(c) /\ m \in 0..Len(c) /\ m \in q + 1..Len(c)
      /\ m \in 1..Len(c) /\ q = n - 1 /\ m = n + 1 /\ m + 0 = m /\ m \in Nat /\ m \in m..m /\ n \in n..Len(c)
      /\ m \in n..Len(c) /\ n \in q + 1..Len(c) /\ m \in m..Len(c) /\ m - n = 1 /\ n \in 1..Len(c) /\ m \in 0..Len(b)
      /\ m > 0 /\ m - 1 = n /\ n \in 0..Len(c) /\ m <= Len(b)
  BY <1>1
<1>3. \A i \in 0..Len(a), j \in 0..q : At(d, i, j) \in Nat /\ AtMost(e, i, j, At(d, i, j))
  BY SwapComesFrom
<1>4. /\ c[n] = b[m] /\ c[m] = b[n]
      /\ \A j \in 1..Len(b) : j # n /\ j # m => c[j] = b[j]
  BY DEF Swapped
<1>5. \A i \in 0..Len(a) : AtMost(e, i, m, At(d, i, n) + 2) /\ At(d, i, n) \in Nat
  BY SwapDelays, SwapComesFrom
<1> HIDE DEF q, m
<1>6. \A j \in 1..q : c[j] = b[j]
  <2>1. \A j \in 1..q : j \in 1..Len(b) /\ j # n /\ j # m
    BY <1>1, <1>2
  <2> QED
    BY <1>4, <2>1
<1>7. \A j \in m + 1..Len(b) : c[j] = b[j] /\ c[j + 0] = b[j]
  <2>1. \A j \in m + 1..Len(b) : j \in 1..Len(b) /\ j # n /\ j # m /\ j + 0 = j
    BY <1>1, <1>2
  <2> QED
    BY <1>4, <2>1
<1>8. Shifted(b, c, m, Len(b), 0)
  <2>1. m + 0 >= 0 /\ Len(b) + 0 <= Len(c) /\ Len(b) <= Len(b) /\ Len(b) \in Nat /\ 0 \in Int
    BY <1>1, <1>2
  <2> QED
    BY <1>2, <1>7, <2>1 DEF Shifted
<1>9. ASSUME NEW i \in 0..Len(a), KeptUp(d, e, 0, 1, i, m, m) PROVE KeepsUp(d, e, 0, 1, i, m)
  <2> DEFINE v == At(d, i, m)
             w == v + 1
  <2>1. v \in Nat
    BY <1>2, CellIs
  <2>2. w \in Int /\ w = v + 1 /\ i \in Nat /\ i \in i..Len(a) /\ i \in 0..Len(a)
    BY <1>1, <2>1
  <2> SUFFICES AtMost(e, i, m, w)
    BY <1>2 DEF KeepsUp
  <2>3. ASSUME FromLeft(d, i, m) PROVE AtMost(e, i, m, w)
    <3> DEFINE u == At(d, i, n)
               t == u + 2
    <3>1. v = u + 1
      BY <1>2, <2>3 DEF FromLeft
    <3>2. AtMost(e, i, m, t) /\ u \in Nat /\ t = u + 2
      BY <1>5
    <3> HIDE DEF u, v, w, t
    <3>3. t + (i - i) + (m - m) <= w /\ t \in Int
      BY <1>2, <2>2, <3>1, <3>2
    <3> QED
      BY <1>2, <2>2, <3>2, <3>3, Walk
  <2>4. ASSUME FromAbove(d, i, m) PROVE AtMost(e, i, m, w)
    <3> DEFINE k == i - 1
               u == At(d, k, m)
               t == u + 1
    <3>1. i > 0
      BY <2>4 DEF FromAbove
    <3>2. k \in 0..Len(a) /\ k \in 0..i /\ k + m < i + m /\ i \in k..Len(a) /\ i - k = 1
      BY <1>1, <1>2, <2>2, <3>1
    <3>3. u \in Nat /\ v = u + 1
      BY <1>2, <2>4, <3>2, CellIs DEF FromAbove
    <3>4. AtMost(e, k, m, t)
      <4>1. \A g \in 0..i, h \in m..m : g + h < i + m => KeepsUp(d, e, 0, 1, g, h)
        BY <1>9 DEF KeptUp
      <4>2. KeepsUp(d, e, 0, 1, k, m)
        BY <1>2, <3>2, <4>1
      <4> QED
        BY <1>2, <4>2 DEF KeepsUp
    <3>5. t = u + 1
      OBVIOUS
    <3> HIDE DEF u, v, w, k, t
    <3>6. t + (i - k) + (m - m) <= w /\ t \in Int
      BY <1>2, <2>2, <3>2, <3>3, <3>5
    <3> QED
      BY <1>2, <2>2, <3>2, <3>4, <3>6, Walk
  <2>5. ASSUME SameLetter(d, a, b, i, m) \/ Substituted(d, i, m) PROVE AtMost(e, i, m, w)
    <3> DEFINE k == i - 1
               u == At(d, k, n)
               z == Cost(a[i], b[m])
               t == u + (i - k) + z
    <3>1. i > 0
      BY <2>5 DEF SameLetter, Substituted
    <3>2. k \in 0..Len(a) /\ i \in 1..Len(a) /\ k \in 0..i - 1 /\ k = i - 1
      BY <1>1, <2>2, <3>1
    <3>3. u \in Nat
      BY <1>5, <3>2
    <3>4. z \in {0, 1} /\ (z = 0 => Agree(a, c, i, n))
      BY <1>4 DEF Cost, Agree
    <3>5. (v = u /\ z = 0) \/ v = u + 1
      BY <1>2, <2>5 DEF SameLetter, Substituted, Cost
    <3>6. AtMost(e, i, m, t) /\ t = u + (i - k) + z
      <4> HIDE DEF z
      <4>1. AtMost(e, i, n + 1, At(d, k, n) + (i - k) + z)
        BY <3>2, <3>4, SwapBelow
      <4> QED
        BY <4>1 DEF m
    <3> HIDE DEF u, v, w, k, z, t
    <3>7. t + (i - i) + (m - m) <= w /\ t \in Int
      BY <1>2, <2>2, <3>2, <3>3, <3>4, <3>5, <3>6
    <3> QED
      BY <1>2, <2>2, <3>6, <3>7, Walk
  <2>6. ASSUME Crossing(kind), NEW p \in 1..i - 1, NEW r \in 1..m - 1, Crossed(d, a, b, i, m, p, r)
        PROVE  AtMost(e, i, m, w)
    <3> DEFINE k == p - 1
               l == r - 1
               u == At(d, k, l)
    <3>1. /\ k \in Nat /\ l \in Nat /\ l \in 0..q /\ k \in 0..Len(a) /\ k = p - 1 /\ l = r - 1 /\ p \in Int /\ r \in Int
          /\ i \in 1..Len(a) /\ p <= i - 1
      BY <1>1, <1>2, <2>2
    <3>2. u \in Nat /\ AtMost(e, k, l, u)
      BY <1>3, <3>1
    <3>3. v = u + (i - p) + (m - r) - 1 /\ a[p] = b[m] /\ b[r] = a[i]
      BY <2>6 DEF Crossed, Across
    <3>4. v = u + (i - p) + (m - r) - 1
      BY <3>3
    <3>5. Agree(a, c, p, n)
      BY <1>4, <3>3 DEF Agree
    <3>6. CASE r = n
      <4> DEFINE f == i - 1
                 t == u + (f - k - 1)
      <4> HIDE DEF k, l, u, v, w
      <4>1. /\ l = q /\ p \in k + 1..Len(a) /\ f \in p..Len(a) /\ f \in Nat /\ i \in f + 1..Len(a) /\ i \in i..Len(a)
            /\ f = i - 1 /\ t = u + (f - k - 1) /\ t \in Int /\ u \in Int
        BY <1>1, <1>2, <2>2, <3>1, <3>2, <3>6
      <4> HIDE DEF f, t
      <4>2. AtMost(e, k, q, u)
        BY <3>2, <4>1
      <4>3. u + (f - k - 1) + (n - q - 1) <= t
        BY <1>2, <3>1, <4>1
      <4>4. AtMost(e, f, n, t)
        BY <1>2, <3>1, <3>5, <4>1, <4>2, <4>3, Via
      <4>5. Agree(a, c, i, m)
        BY <1>4, <3>3, <3>6 DEF Agree
      <4>6. t + (i - f - 1) + (m - n - 1) <= w
        BY <1>2, <2>2, <3>1, <3>4, <3>6, <4>1
      <4>7. n \in Nat /\ m \in n + 1..Len(c)
        BY <1>1, <1>2
      <4> QED
        BY <1>2, <2>2, <4>1, <4>4, <4>5, <4>6, <4>7, Via
    <3>7. CASE r # n
      <4> DEFINE t == u + (i - p) + (n - r) - 1
      <4> HIDE DEF k, l, u, v, w
      <4>1. /\ r \in 1..q /\ r \in 1..n - 1 /\ t = u + (i - p) + (n - r) - 1 /\ t \in Int /\ u \in Int
            /\ u + (i - p) + (n - r) - 1 <= t
        BY <1>1, <1>2, <2>2, <3>1, <3>2, <3>7
      <4> HIDE DEF t
      <4>2. Across(a, c, i, n, p, r)
        BY <1>6, <3>3, <3>5, <4>1 DEF Across, Agree
      <4>3. AtMost(e, i, n, t)
        BY <1>2, <2>6, <3>1, <3>2, <4>1, <4>2, GoesAcross
      <4>4. t + (i - i) + (m - n) <= w
        BY <1>2, <2>2, <3>1, <3>4, <4>1
      <4> QED
        BY <1>2, <2>2, <4>1, <4>3, <4>4, Walk
    <3> QED
      BY <3>6, <3>7
  <2> HIDE DEF v, w
  <2>7. \/ FromLeft(d, i, m)
        \/ FromAbove(d, i, m)
        \/ SameLetter(d, a, b, i, m)
        \/ Substituted(d, i, m)
        \/ Crossing(kind) /\ \E p \in 1..i - 1, r \in 1..m - 1 : Crossed(d, a, b, i, m, p, r)
    BY <1>2, OriginIs
  <2> QED
    BY <2>3, <2>4, <2>5, <2>6, <2>7
<1>10. \A i \in 0..Len(a) : m <= Len(b) => KeepsUp(d, e, 0, 1, i, m)
  <2>1. \A i \in 0..Len(a), j \in m..m : KeptUp(d, e, 0, 1, i, j, m) => KeepsUp(d, e, 0, 1, i, j)
    BY <1>2, <1>9
  <2>2. \A i \in 0..Len(a), j \in m..m : KeepsUp(d, e, 0, 1, i, j)
    BY <1>1, <1>2, <2>1, CellByCell
  <2> QED
    BY <1>2, <2>2
<1>11. ASSUME NEW i \in 0..Len(a), NEW j \in m + 1..Len(b), NEW p \in 1..i - 1, NEW r \in 1..m,
              Crossing(kind), Crossed(d, a, b, i, j, p, r)
       PROVE  KeepsUp(d, e, 0, 1, i, j)
  <2> DEFINE k == p - 1
             v == At(d, i, j)
             w == v + 1
  <2>1. /\ j \in 1..Len(b) /\ j \in 0..Len(b) /\ r \in 1..j - 1 /\ j + 0 <= Len(c) /\ k \in 0..Len(a) /\ k = p - 1
        /\ j \in m + 1..Len(b) /\ r < j + 0 /\ r \in 1..Len(b) /\ j + 0 = j /\ p \in Int /\ i \in 1..Len(a)
        /\ j \in n + 2..Len(c) /\ j \in 1..Len(c) /\ j \in j..Len(c) /\ i \in i..Len(a) /\ p \in 1..i - 1 /\ p <= i - 1
        /\ n \in 1..j - 1 /\ m \in 1..j - 1 /\ k \in 0..p - 1 /\ i \in Nat /\ j \in Nat
    BY <1>1, <1>2
  <2>2. v \in Nat
    BY <2>1, CellIs
  <2>3. w = v + 1 /\ w \in Int
    BY <2>2
  <2>4. a[p] = b[j] /\ b[r] = a[i] /\ v = At(d, k, r - 1) + (i - p) + (j - r) - 1
    BY <1>11 DEF Crossed, Across
  <2>5. Agree(a, c, p, j)
    BY <1>7, <2>4 DEF Agree
  <2>6. CASE r \in 1..q
    <3>1. 0 \in Int /\ 1 \in Int /\ 0 <= 1 /\ r - 1 \in 0..q
      BY <1>2, <2>6
    <3>2. c[r] = b[r] /\ c[j + 0] = b[j]
      BY <1>6, <1>7, <2>6
    <3>3. AtMost(e, p - 1, r - 1, At(d, p - 1, r - 1))
      BY <1>3, <2>1, <3>1
    <3> QED
      BY <1>11, <2>1, <3>1, <3>2, <3>3, CrossesOver
  <2>7. CASE r = n
    <3> DEFINE u == At(d, k, q)
               t == u + 1
    <3>1. u \in Nat /\ AtMost(e, k, q, u) /\ v = u + (i - p) + (j - n) - 1
      <4>1. q \in 0..q /\ r - 1 = q
        BY <1>2, <2>7
      <4>2. v = At(d, k, r - 1) + (i - p) + (j - r) - 1
        BY <2>4
      <4>3. u \in Nat /\ AtMost(e, k, q, u)
        BY <1>3, <2>1, <4>1
      <4>4. v = u + (i - p) + (j - r) - 1
        BY <4>1, <4>2
      <4> QED
        BY <2>7, <4>3, <4>4
    <3>2. t \in Int /\ t = u + 1 /\ u \in Int
      BY <3>1
    <3> HIDE DEF k, u, v, w, t
    <3>3. AtMost(e, k, n, t)
      <4>1. u + (k - k) + (n - q) <= t
        BY <1>2, <2>1, <3>2
      <4>2. k \in 0..Len(a) /\ q \in 0..Len(c) /\ k \in k..Len(a) /\ n \in q..Len(c) /\ AtMost(e, k, q, u)
        BY <1>1, <1>2, <2>1, <3>1
      <4> QED
        BY <3>2, <4>1, <4>2, Walk
    <3>4. Across(a, c, i, j, p, m)
      BY <1>4, <2>1, <2>4, <2>5, <2>7 DEF Across, Agree
    <3>5. t + (i - p) + (j - m) - 1 <= w
      BY <1>2, <2>1, <2>3, <3>1, <3>2
    <3>6. /\ i \in 1..Len(a) /\ j \in 1..Len(c) /\ p \in Int /\ m \in Int /\ k = p - 1 /\ n = m - 1
          /\ t \in Int /\ w \in Int
      BY <1>2, <2>1, <2>3, <3>2
    <3>7. AtMost(e, i, j, w)
      BY <3>3, <3>4, <3>5, <3>6, GoesAcross
    <3> QED
      BY <2>1, <3>7 DEF KeepsUp, v, w
  <2>8. CASE r = m
    <3> DEFINE u == At(d, k, n)
               t == u + (i - 1 - k) + (j - n - 1)
    <3>1. u \in Nat /\ v = u + (i - p) + (j - m) - 1
      BY <1>2, <1>5, <2>1, <2>4, <2>8
    <3>2. Agree(a, c, i, n)
      BY <1>4, <2>4, <2>8 DEF Agree
    <3>3. AtMost(e, i, j, t)
      BY <2>1, <2>5, <3>2, SwapRunsOn
    <3>4. t = u + (i - 1 - k) + (j - n - 1)
      OBVIOUS
    <3> HIDE DEF k, u, v, w, t
    <3>5. t + (i - i) + (j - j) <= w /\ t \in Int
      BY <1>2, <2>1, <2>3, <3>1, <3>4
    <3>6. AtMost(e, i, j, w)
      <4>1. i \in 0..Len(a) /\ j \in 0..Len(c) /\ i \in i..Len(a) /\ j \in j..Len(c)
        BY <1>1, <2>1
      <4> QED
        BY <2>3, <3>3, <3>5, <4>1, Walk
    <3> QED
      BY <2>1, <3>6 DEF KeepsUp, v, w
  <2>9. r \in 1..q \/ r = n \/ r = m
    BY <1>2
  <2> QED
    BY <2>6, <2>7, <2>8, <2>9
<1>12. \A i \in 0..Len(a), j \in m..Len(b) : KeepsUp(d, e, 0, 1, i, j)
  BY <1>8, <1>10, <1>11, FollowsFrom
<1> QED
  BY <1>12 DEF m

\* The edits, by what they do to each place.
LEMMA InsertIs ==
    ASSUME NEW S, NEW b \in Seq(S), NEW x, NEW n \in 1..Len(b) + 1
    PROVE  Grown(b, InsertAt(b, n, x), n) /\ InsertAt(b, n, x)[n] = x /\ Len(InsertAt(b, n, x)) \in Nat
<1> DEFINE R == S \cup {x}
           s == SubSeq(b, 1, n - 1)
           t == SubSeq(b, n, Len(b))
           f == s \o <<x>>
           c == f \o t
<1>1. Len(b) \in Nat /\ b \in Seq(R) /\ n \in Int /\ n - 1 \in Int /\ n - 1 <= Len(b) /\ 1 <= n /\ n >= 1
  <2>1. Len(b) \in Nat
    BY LenProperties
  <2> QED
    BY <2>1
<1>2. s \in Seq(R) /\ Len(s) = n - 1 /\ \A j \in 1..n - 1 : s[j] = b[j]
  <2>1. /\ s \in Seq(R) /\ Len(s) = (IF 1 <= n - 1 THEN (n - 1) - 1 + 1 ELSE 0)
        /\ \A j \in 1..(n - 1) - 1 + 1 : s[j] = b[1 + j - 1]
    BY <1>1, Part
  <2>2. \A j \in 1..n - 1 : 1 + j - 1 = j /\ j \in 1..(n - 1) - 1 + 1
    BY <1>1
  <2>3. Len(s) = n - 1
    BY <1>1, <2>1
  <2> QED
    BY <2>1, <2>2, <2>3
<1>3. t \in Seq(R) /\ Len(t) = Len(b) - n + 1 /\ \A j \in 1..Len(b) - n + 1 : t[j] = b[n + j - 1]
  <2>1. /\ t \in Seq(R) /\ Len(t) = (IF n <= Len(b) THEN Len(b) - n + 1 ELSE 0)
        /\ \A j \in 1..Len(b) - n + 1 : t[j] = b[n + j - 1]
    BY <1>1, Part
  <2> QED
    BY <1>1, <2>1
<1>4. x \in R /\ <<x>> \in Seq(R) /\ Len(<<x>>) = 1 /\ <<x>>[1] = x
  OBVIOUS
<1> HIDE DEF s, t, R
<1>5. f \in Seq(R) /\ Len(f) = n /\ f[n] = x /\ \A j \in 1..n - 1 : f[j] = b[j]
  <2>1. f \in Seq(R) /\ Len(f) = Len(s) + 1
    BY <1>2, <1>4, ConcatProperties
  <2>2. \A j \in 1..Len(s) + 1 : f[j] = IF j <= Len(s) THEN s[j] ELSE <<x>>[j - Len(s)]
    BY <1>2, <1>4, ConcatProperties
  <2>3. Len(f) = n
    BY <1>1, <1>2, <2>1
  <2>4. n \in 1..Len(s) + 1 /\ ~(n <= Len(s)) /\ n - Len(s) = 1
    BY <1>1, <1>2
  <2>5. f[n] = x
    BY <1>4, <2>2, <2>4
  <2>6. \A j \in 1..n - 1 : j \in 1..Len(s) + 1 /\ j <= Len(s)
    BY <1>1, <1>2
  <2>7. \A j \in 1..n - 1 : f[j] = b[j]
    BY <1>2, <2>2, <2>6
  <2> QED
    BY <2>1, <2>3, <2>5, <2>7
<1> HIDE DEF f
<1>6. c \in Seq(R) /\ Len(c) = n + (Len(b) - n + 1) /\ \A j \in 1..n + (Len(b) - n + 1) : c[j] = IF j <= n THEN f[j] ELSE t[j - n]
  BY <1>3, <1>5, ConcatProperties
<1>7. Len(c) = Len(b) + 1 /\ n \in 1..Len(c)
  BY <1>1, <1>6
<1>8. c[n] = x
  <2>1. n \in 1..n + (Len(b) - n + 1) /\ n <= n
    BY <1>1
  <2> QED
    BY <1>5, <1>6, <2>1
<1>9. \A j \in 1..n - 1 : c[j] = b[j]
  <2>1. \A j \in 1..n - 1 : j \in 1..n + (Len(b) - n + 1) /\ j <= n
    BY <1>1
  <2> QED
    BY <1>5, <1>6, <2>1
<1>10. ASSUME NEW j \in n..Len(b) PROVE c[j + 1] = b[j]
  <2> DEFINE h == j + 1
             g == j + 1 - n
  <2>1. h \in 1..n + (Len(b) - n + 1) /\ ~(h <= n) /\ h - n = g /\ g \in 1..Len(b) - n + 1 /\ n + g - 1 = j
    BY <1>1
  <2> HIDE DEF g, h
  <2>2. c[h] = t[g]
    BY <1>6, <2>1
  <2>3. t[g] = b[j]
    BY <1>3, <2>1
  <2> QED
    BY <2>2, <2>3 DEF h
<1>11. c = InsertAt(b, n, x)
  BY DEF InsertAt, s, t, f
<1> HIDE DEF c
<1>12. Grown(b, c, n)
  BY <1>7, <1>9, <1>10 DEF Grown
<1>13. Len(c) \in Nat
  BY <1>1, <1>7
<1> QED
  BY <1>8, <1>11, <1>12, <1>13

LEMMA RemoveIs ==
    ASSUME NEW S, NEW b \in Seq(S), NEW n \in 1..Len(b)
    PROVE  Grown(RemoveAt(b, n), b, n) /\ Len(RemoveAt(b, n)) \in Nat
<1> DEFINE s == SubSeq(b, 1, n - 1)
           t == SubSeq(b, n + 1, Len(b))
           c == s \o t
<1>1. Len(b) \in Nat /\ n \in Int /\ n - 1 \in Int /\ n - 1 <= Len(b) /\ 1 <= n /\ n >= 1 /\ n + 1 \in Int /\ 1 <= n + 1
  <2>1. Len(b) \in Nat
    BY LenProperties
  <2> QED
    BY <2>1
<1>2. s \in Seq(S) /\ Len(s) = n - 1 /\ \A j \in 1..n - 1 : s[j] = b[j]
  <2>1. /\ s \in Seq(S) /\ Len(s) = (IF 1 <= n - 1 THEN (n - 1) - 1 + 1 ELSE 0)
        /\ \A j \in 1..(n - 1) - 1 + 1 : s[j] = b[1 + j - 1]
    BY <1>1, Part
  <2>2. \A j \in 1..n - 1 : 1 + j - 1 = j /\ j \in 1..(n - 1) - 1 + 1
    BY <1>1
  <2>3. Len(s) = n - 1
    BY <1>1, <2>1
  <2> QED
    BY <2>1, <2>2, <2>3
<1>3. t \in Seq(S) /\ Len(t) = Len(b) - n /\ \A j \in 1..Len(b) - n : t[j] = b[n + j]
  <2>1. /\ t \in Seq(S) /\ Len(t) = (IF n + 1 <= Len(b) THEN Len(b) - (n + 1) + 1 ELSE 0)
        /\ \A j \in 1..Len(b) - (n + 1) + 1 : t[j] = b[(n + 1) + j - 1]
    BY <1>1, Part
  <2>2. \A j \in 1..Len(b) - n : (n + 1) + j - 1 = n + j /\ j \in 1..Len(b) - (n + 1) + 1
    BY <1>1
  <2>3. Len(t) = Len(b) - n
    BY <1>1, <2>1
  <2> QED
    BY <2>1, <2>2, <2>3
<1> HIDE DEF s, t
<1>4. /\ c \in Seq(S) /\ Len(c) = (n - 1) + (Len(b) - n)
      /\ \A j \in 1..(n - 1) + (Len(b) - n) : c[j] = IF j <= n - 1 THEN s[j] ELSE t[j - (n - 1)]
  <2> DEFINE k == Len(s)
             l == Len(t)
  <2>1. /\ c \in Seq(S) /\ Len(c) = k + l
        /\ \A j \in 1..k + l : c[j] = IF j <= k THEN s[j] ELSE t[j - k]
    BY <1>2, <1>3, ConcatProperties
  <2>2. k = n - 1 /\ l = Len(b) - n
    BY <1>2, <1>3
  <2> HIDE DEF k, l
  <2> QED
    BY <2>1, <2>2
<1>5. Len(b) = Len(c) + 1 /\ Len(c) \in Nat
  BY <1>1, <1>4
<1>6. ASSUME NEW j \in 1..n - 1 PROVE b[j] = c[j]
  <2>1. j \in 1..(n - 1) + (Len(b) - n) /\ j <= n - 1
    BY <1>1
  <2> QED
    BY <1>2, <1>4, <2>1
<1>7. ASSUME NEW j \in n..Len(c) PROVE b[j + 1] = c[j]
  <2> DEFINE g == j - (n - 1)
  <2>1. j \in 1..(n - 1) + (Len(b) - n) /\ ~(j <= n - 1) /\ g \in 1..Len(b) - n /\ n + g = j + 1
    BY <1>1, <1>4
  <2> HIDE DEF g
  <2>2. c[j] = t[g]
    BY <1>4, <2>1 DEF g
  <2>3. t[g] = b[j + 1]
    BY <1>3, <2>1
  <2> QED
    BY <2>2, <2>3
<1>8. c = RemoveAt(b, n)
  BY DEF RemoveAt, s, t
<1> HIDE DEF c
<1>9. Grown(c, b, n)
  BY <1>5, <1>6, <1>7 DEF Grown
<1> QED
  BY <1>5, <1>8, <1>9

LEMMA ChangeIs ==
    ASSUME NEW S, NEW b \in Seq(S), NEW x, NEW n \in 1..Len(b)
    PROVE  /\ Changed(b, [b EXCEPT ![n] = x], n) /\ [b EXCEPT ![n] = x][n] = x
           /\ Len([b EXCEPT ![n] = x]) \in Nat
<1> DEFINE R == S \cup {x}
           c == [b EXCEPT ![n] = x]
<1>1. Len(b) \in Nat /\ b \in [1..Len(b) -> R]
  BY LenProperties
<1>2. c \in [1..Len(b) -> R]
  BY <1>1
<1>3. c \in Seq(R) /\ Len(c) = Len(b)
  <2> HIDE DEF c
  <2> QED
    BY <1>1, <1>2, LenProperties
<1>4. c[n] = x /\ \A j \in 1..Len(b) : j # n => c[j] = b[j]
  BY <1>1
<1> HIDE DEF c
<1>5. Changed(b, c, n)
  BY <1>3, <1>4 DEF Changed
<1>6. Len(c) \in Nat
  BY <1>1, <1>3
<1> QED
  BY <1>4, <1>5, <1>6 DEF c

LEMMA SwapIs ==
    ASSUME NEW S, NEW b \in Seq(S), NEW n \in 1..Len(b) - 1
    PROVE  /\ Swapped(b, [b EXCEPT ![n] = b[n + 1], ![n + 1] = b[n]], n)
           /\ Swapped([b EXCEPT ![n] = b[n + 1], ![n + 1] = b[n]], b, n)
           /\ Len([b EXCEPT ![n] = b[n + 1], ![n + 1] = b[n]]) \in Nat
<1> DEFINE c == [b EXCEPT ![n] = b[n + 1], ![n + 1] = b[n]]
<1>1. Len(b) \in Nat /\ b \in [1..Len(b) -> S]
  BY LenProperties
<1>2. n \in 1..Len(b) /\ n + 1 \in 1..Len(b) /\ n # n + 1
  BY <1>1
<1>3. b[n] \in S /\ b[n + 1] \in S
  BY <1>1, <1>2
<1>4. c \in [1..Len(b) -> S]
  BY <1>1, <1>3
<1>5. c \in Seq(S) /\ Len(c) = Len(b)
  <2> HIDE DEF c
  <2> QED
    BY <1>1, <1>4, LenProperties
<1>6. c[n] = b[n + 1] /\ c[n + 1] = b[n] /\ \A j \in 1..Len(b) : j # n /\ j # n + 1 => c[j] = b[j]
  BY <1>1, <1>2
<1> HIDE DEF c
<1>7. Swapped(b, c, n) /\ Swapped(c, b, n)
  BY <1>5, <1>6 DEF Swapped
<1>8. Len(c) \in Nat
  BY <1>1, <1>5
<1> QED
  BY <1>7, <1>8 DEF c

\* Two words end in the same t letters, behind i and j.
Ends(a, b, i, j, t) ==
    t \in Nat /\ i + t = Len(a) /\ j + t = Len(b) /\ \A s \in 1..t : a[i + s] = b[j + s]

LEMMA Straight ==
    ASSUME NEW d, NEW a, NEW b, NEW kind, Table(d, a, b, kind),
           NEW i \in 1..Len(a), NEW j \in 1..Len(b), NEW k, NEW l, k = i - 1, l = j - 1,
           NEW v \in Int, AtMost(d, k, l, v), Agree(a, b, i, j)
    PROVE  AtMost(d, i, j, v)
<1>1. v <= v /\ a[i] = b[j]
  BY DEF Agree
<1> QED
  BY <1>1, Diagonal

LEMMA OneOff ==
    ASSUME NEW d, NEW a, NEW b, NEW kind, Table(d, a, b, kind),
           NEW i \in 1..Len(a), NEW j \in 1..Len(b), NEW k, NEW l, k = i - 1, l = j - 1,
           NEW v \in Int, NEW w \in Int, v + 1 <= w, AtMost(d, k, l, v)
    PROVE  AtMost(d, i, j, w)
<1> DEFINE x == At(d, i, j)
           y == At(d, k, l)
           z == Cost(a[i], b[j])
<1>1. Len(a) \in Nat /\ Len(b) \in Nat
  BY DEF Table
<1>2. k \in 0..Len(a) /\ l \in 0..Len(b) /\ i \in 0..Len(a) /\ j \in 0..Len(b)
  BY <1>1
<1>3. x \in Nat /\ y \in Nat
  BY <1>2 DEF Table
<1>4. x <= y + z
  BY DEF Table
<1>5. y <= v
  BY DEF AtMost
<1>6. z \in {0, 1}
  BY DEF Cost
<1> HIDE DEF x, y, z
<1>7. x <= w
  BY <1>3, <1>4, <1>5, <1>6
<1> QED
  BY <1>7 DEF x, AtMost

\* Over letters that agree a table stays what it is.
LEMMA Along ==
    ASSUME NEW d, NEW a, NEW b, NEW kind, Table(d, a, b, kind),
           NEW i \in 0..Len(a), NEW j \in 0..Len(b), NEW t, Ends(a, b, i, j, t),
           NEW v \in Int, AtMost(d, i, j, v)
    PROVE  AtMost(d, Len(a), Len(b), v)
<1> DEFINE X == {n \in Nat : n <= t => AtMost(d, i + n, j + n, v)}
<1>1. Len(a) \in Nat /\ Len(b) \in Nat
  BY DEF Table
<1>2. t \in Nat /\ i + t = Len(a) /\ j + t = Len(b) /\ \A s \in 1..t : a[i + s] = b[j + s]
  BY DEF Ends
<1>3. 0 \in X
  <2>1. i + 0 = i /\ j + 0 = j
    BY <1>1
  <2> QED
    BY <2>1
<1>4. ASSUME NEW n \in Nat, n \in X PROVE n + 1 \in X
  <2> SUFFICES ASSUME n + 1 <= t PROVE AtMost(d, i + (n + 1), j + (n + 1), v)
    OBVIOUS
  <2> DEFINE g == i + (n + 1)
             h == j + (n + 1)
             k == i + n
             l == j + n
  <2>1. g \in 1..Len(a) /\ h \in 1..Len(b) /\ k = g - 1 /\ l = h - 1 /\ n + 1 \in 1..t /\ n <= t
    BY <1>1, <1>2
  <2>2. Agree(a, b, g, h)
    BY <1>2, <2>1 DEF Agree
  <2>3. AtMost(d, k, l, v)
    BY <1>4, <2>1
  <2> HIDE DEF g, h, k, l
  <2>5. AtMost(d, g, h, v)
    BY <2>1, <2>2, <2>3, Straight
  <2> QED
    BY <2>5 DEF g, h
<1> HIDE DEF X
<1>5. Nat \subseteq X
  BY <1>3, <1>4, InductionOverSet
<1>6. AtMost(d, i + t, j + t, v)
  <2>1. t \in X /\ t <= t
    BY <1>2, <1>5
  <2> QED
    BY <2>1 DEF X
<1> QED
  BY <1>2, <1>6

Neighbours(b, L, kind) == Edits(b, L) \cup (IF Crossing(kind) THEN Swaps(b) ELSE {})

\* Some neighbour of b is no further from a than v.
Nearer(a, b, L, kind, v) ==
    \E c \in Neighbours(b, L, kind) :
        Len(c) \in Nat /\ \A e : Table(e, a, c, kind) => AtMost(e, Len(a), Len(c), v)

LEMMA NearerLeft ==
    ASSUME NEW L, NEW S, NEW a, NEW b \in Seq(S), NEW kind, NEW d, Table(d, a, b, kind),
           NEW i \in 0..Len(a), NEW j \in 0..Len(b), NEW t, Ends(a, b, i, j, t), FromLeft(d, i, j)
    PROVE  Nearer(a, b, L, kind, At(d, i, j) - 1)
<1> DEFINE c == RemoveAt(b, j)
           h == j - 1
           v == At(d, i, j)
           u == At(d, i, h)
<1>1. Len(a) \in Nat /\ Len(b) \in Nat
  BY DEF Table
<1>2. t \in Nat /\ i + t = Len(a) /\ j + t = Len(b) /\ \A s \in 1..t : a[i + s] = b[j + s]
  BY DEF Ends
<1>3. j > 0 /\ v = u + 1
  BY DEF FromLeft
<1>4. j \in 1..Len(b) /\ h \in Nat /\ h \in 0..Len(b) /\ h \in 0..h /\ j = h + 1
  BY <1>1, <1>3
<1>5. u \in Nat
  BY <1>4, CellIs
<1>6. Grown(c, b, j) /\ Len(c) \in Nat
  BY <1>4, RemoveIs
<1>7. c \in Neighbours(b, L, kind)
  <2>1. j \in DOMAIN b
    BY <1>4, LenProperties
  <2> QED
    BY <2>1 DEF Neighbours, Edits
<1> HIDE DEF c, h, u, v
<1>8. /\ Len(b) = Len(c) + 1
      /\ \A l \in 1..j - 1 : b[l] = c[l]
      /\ \A l \in j..Len(c) : b[l + 1] = c[l]
  BY <1>6 DEF Grown
<1>9. Shifted(b, c, 0, h, 0)
  <2>1. \A l \in 0 + 1..h : c[l + 0] = b[l]
    BY <1>4, <1>8
  <2> QED
    BY <1>1, <1>4, <1>6, <1>8, <2>1 DEF Shifted
<1>10. Ends(a, c, i, h, t)
  <2>1. \A s \in 1..t : a[i + s] = c[h + s]
    <3> SUFFICES ASSUME NEW s \in 1..t PROVE a[i + s] = c[h + s]
      OBVIOUS
    <3> DEFINE l == h + s
    <3>1. l \in j..Len(c) /\ l + 1 = j + s
      BY <1>1, <1>2, <1>4, <1>8
    <3> QED
      BY <1>2, <1>8, <3>1
  <2> QED
    BY <1>1, <1>2, <1>4, <1>8, <2>1 DEF Ends
<1>11. ASSUME NEW e, Table(e, a, c, kind) PROVE AtMost(e, Len(a), Len(c), v - 1)
  <2>1. AtMost(e, i, h, u)
    BY <1>4, <1>9, <1>11, Beginnings DEF u
  <2>2. AtMost(e, i, h, v - 1) /\ v - 1 \in Int /\ h \in 0..Len(c)
    <3>1. v - 1 = u /\ v - 1 \in Int
      BY <1>3, <1>5
    <3>2. h \in 0..Len(c)
      BY <1>1, <1>4, <1>6, <1>8
    <3> QED
      BY <2>1, <3>1, <3>2
  <2> QED
    BY <1>10, <1>11, <2>2, Along
<1> QED
  BY <1>6, <1>7, <1>11 DEF Nearer, v

LEMMA NearerAbove ==
    ASSUME NEW S, NEW L, NEW a \in Seq(L), NEW b \in Seq(S), NEW kind, NEW d, Table(d, a, b, kind),
           NEW i \in 0..Len(a), NEW j \in 0..Len(b), NEW t, Ends(a, b, i, j, t), FromAbove(d, i, j)
    PROVE  Nearer(a, b, L, kind, At(d, i, j) - 1)
<1> DEFINE n == j + 1
           c == InsertAt(b, n, a[i])
           k == i - 1
           v == At(d, i, j)
           u == At(d, k, j)
<1>1. Len(a) \in Nat /\ Len(b) \in Nat
  BY DEF Table
<1>2. t \in Nat /\ i + t = Len(a) /\ j + t = Len(b) /\ \A s \in 1..t : a[i + s] = b[j + s]
  BY DEF Ends
<1>3. i > 0 /\ v = u + 1
  BY DEF FromAbove
<1>4. /\ i \in 1..Len(a) /\ k \in 0..Len(a) /\ n \in 1..Len(b) + 1 /\ j \in 0..j /\ n = j + 1 /\ j = n - 1 /\ k = i - 1
      /\ j \in Nat
  BY <1>1, <1>3
<1>5. u \in Nat
  BY <1>4, CellIs
<1>6. Grown(b, c, n) /\ c[n] = a[i] /\ Len(c) \in Nat
  BY <1>4, InsertIs
<1>7. c \in Neighbours(b, L, kind)
  <2>1. a[i] \in L
    BY <1>4, ElementOfSeq
  <2> QED
    BY <1>4, <2>1 DEF Neighbours, Edits
<1> HIDE DEF c, k, u, v, n
<1>8. /\ Len(c) = Len(b) + 1
      /\ \A l \in 1..n - 1 : c[l] = b[l]
      /\ \A l \in n..Len(b) : c[l + 1] = b[l]
  BY <1>6 DEF Grown
<1>9. Shifted(b, c, 0, j, 0)
  <2>1. \A l \in 0 + 1..j : c[l + 0] = b[l]
    BY <1>4, <1>8
  <2> QED
    BY <1>1, <1>4, <1>6, <1>8, <2>1 DEF Shifted
<1>10. Ends(a, c, i, n, t)
  <2>1. \A s \in 1..t : a[i + s] = c[n + s]
    <3> SUFFICES ASSUME NEW s \in 1..t PROVE a[i + s] = c[n + s]
      OBVIOUS
    <3> DEFINE l == j + s
    <3>1. l \in n..Len(b) /\ l + 1 = n + s
      BY <1>1, <1>2, <1>4
    <3> QED
      BY <1>2, <1>8, <3>1
  <2> QED
    BY <1>1, <1>2, <1>4, <1>8, <2>1 DEF Ends
<1>11. ASSUME NEW e, Table(e, a, c, kind) PROVE AtMost(e, Len(a), Len(c), v - 1)
  <2>1. AtMost(e, k, j, u)
    BY <1>4, <1>9, <1>11, Beginnings DEF u
  <2>2. n \in 1..Len(c) /\ n \in 0..Len(c) /\ v - 1 = u /\ v - 1 \in Int /\ u \in Int /\ u <= u
    BY <1>1, <1>3, <1>4, <1>5, <1>8
  <2>3. AtMost(e, i, n, u)
    <3>1. Agree(a, c, i, n)
      BY <1>6 DEF Agree
    <3> QED
      BY <1>4, <1>11, <2>1, <2>2, <3>1, Straight
  <2>4. AtMost(e, i, n, v - 1)
    BY <2>2, <2>3
  <2> QED
    BY <1>10, <1>11, <2>2, <2>4, Along
<1> QED
  BY <1>6, <1>7, <1>11 DEF Nearer, v

LEMMA NearerSubstituted ==
    ASSUME NEW S, NEW L, NEW a \in Seq(L), NEW b \in Seq(S), NEW kind, NEW d, Table(d, a, b, kind),
           NEW i \in 0..Len(a), NEW j \in 0..Len(b), NEW t, Ends(a, b, i, j, t), Substituted(d, i, j)
    PROVE  Nearer(a, b, L, kind, At(d, i, j) - 1)
<1> DEFINE c == [b EXCEPT ![j] = a[i]]
           k == i - 1
           h == j - 1
           v == At(d, i, j)
           u == At(d, k, h)
<1>1. Len(a) \in Nat /\ Len(b) \in Nat
  BY DEF Table
<1>2. t \in Nat /\ i + t = Len(a) /\ j + t = Len(b) /\ \A s \in 1..t : a[i + s] = b[j + s]
  BY DEF Ends
<1>3. i > 0 /\ j > 0 /\ v = u + 1
  BY DEF Substituted
<1>4. /\ i \in 1..Len(a) /\ k \in 0..Len(a) /\ j \in 1..Len(b) /\ h \in 0..h /\ h \in 0..Len(b) /\ h = j - 1 /\ k = i - 1
      /\ h \in Nat
  BY <1>1, <1>3
<1>5. u \in Nat
  BY <1>4, CellIs
<1>6. Changed(b, c, j) /\ c[j] = a[i] /\ Len(c) \in Nat
  BY <1>4, ChangeIs
<1>7. c \in Neighbours(b, L, kind)
  <2>1. a[i] \in L /\ j \in DOMAIN b
    BY <1>4, ElementOfSeq, LenProperties
  <2>2. c = ReplaceAt(b, j, a[i])
    BY DEF ReplaceAt
  <2> HIDE DEF c
  <2> QED
    BY <2>1, <2>2 DEF Neighbours, Edits
<1> HIDE DEF c, k, u, v, h
<1>8. Len(c) = Len(b) /\ \A l \in 1..Len(b) : l # j => c[l] = b[l]
  BY <1>6 DEF Changed
<1>9. Shifted(b, c, 0, h, 0)
  <2>1. \A l \in 0 + 1..h : c[l + 0] = b[l]
    BY <1>1, <1>4, <1>8
  <2> QED
    BY <1>1, <1>4, <1>6, <1>8, <2>1 DEF Shifted
<1>10. Ends(a, c, i, j, t)
  <2>1. \A s \in 1..t : a[i + s] = c[j + s]
    <3> SUFFICES ASSUME NEW s \in 1..t PROVE a[i + s] = c[j + s]
      OBVIOUS
    <3>1. j + s \in 1..Len(b) /\ j + s # j
      BY <1>1, <1>2, <1>4
    <3> QED
      BY <1>2, <1>8, <3>1
  <2> QED
    BY <1>1, <1>2, <1>4, <1>8, <2>1 DEF Ends
<1>11. ASSUME NEW e, Table(e, a, c, kind) PROVE AtMost(e, Len(a), Len(c), v - 1)
  <2>1. AtMost(e, k, h, u)
    BY <1>4, <1>9, <1>11, Beginnings DEF u
  <2>2. j \in 1..Len(c) /\ j \in 0..Len(c) /\ v - 1 = u /\ v - 1 \in Int /\ u \in Int /\ u <= u
    BY <1>1, <1>3, <1>4, <1>5, <1>8
  <2>3. AtMost(e, i, j, u)
    <3>1. Agree(a, c, i, j)
      BY <1>6 DEF Agree
    <3> QED
      BY <1>4, <1>11, <2>1, <2>2, <3>1, Straight
  <2>4. AtMost(e, i, j, v - 1)
    BY <2>2, <2>3
  <2> QED
    BY <1>10, <1>11, <2>2, <2>4, Along
<1> QED
  BY <1>6, <1>7, <1>11 DEF Nearer, v

LEMMA NearerCrossed ==
    ASSUME NEW S, NEW L, NEW a, NEW b \in Seq(S), NEW kind, NEW d, Table(d, a, b, kind), Crossing(kind),
           NEW i \in 0..Len(a), NEW j \in 0..Len(b), NEW t, Ends(a, b, i, j, t),
           NEW p \in 1..i - 1, NEW r \in 1..j - 1, Crossed(d, a, b, i, j, p, r)
    PROVE  Nearer(a, b, L, kind, At(d, i, j) - 1)
<1> DEFINE n == j - 1
           k == p - 1
           l == r - 1
           v == At(d, i, j)
           u == At(d, k, l)
<1>1. Len(a) \in Nat /\ Len(b) \in Nat
  BY DEF Table
<1>2. t \in Nat /\ i + t = Len(a) /\ j + t = Len(b) /\ \A s \in 1..t : a[i + s] = b[j + s]
  BY DEF Ends
<1>3. a[p] = b[j] /\ b[r] = a[i] /\ v = u + (i - p) + (j - r) - 1
  BY DEF Crossed, Across
<1>4. /\ i \in 1..Len(a) /\ j \in 1..Len(b) /\ p \in Int /\ r \in Int /\ n \in 1..Len(b) /\ k \in 0..Len(a) /\ l \in 0..Len(b)
      /\ l \in 0..l /\ k = p - 1 /\ l = r - 1 /\ n = j - 1 /\ k \in Nat /\ l \in Nat /\ r \in 1..Len(b) /\ r <= n /\ p <= i - 1
  BY <1>1
<1>5. u \in Nat
  BY <1>4, CellIs
<1>6. v \in Int /\ v - 1 \in Int /\ u \in Int
  BY <1>3, <1>4, <1>5
<1> HIDE DEF n, k, l, u, v
<1>7. CASE r < n
  <2> DEFINE c == RemoveAt(b, n)
  <2>1. Grown(c, b, n) /\ Len(c) \in Nat
    BY <1>4, RemoveIs
  <2>2. c \in Neighbours(b, L, kind)
    <3>1. n \in DOMAIN b
      BY <1>4, LenProperties
    <3> QED
      BY <3>1 DEF Neighbours, Edits
  <2> HIDE DEF c
  <2>3. /\ Len(b) = Len(c) + 1
        /\ \A g \in 1..n - 1 : b[g] = c[g]
        /\ \A g \in n..Len(c) : b[g + 1] = c[g]
    BY <2>1 DEF Grown
  <2>4. n \in 1..Len(c) /\ n \in 0..Len(c) /\ n \in n..Len(c) /\ n + 1 = j /\ r \in 1..n - 1
    BY <1>1, <1>4, <1>7, <2>1, <2>3
  <2>5. Shifted(b, c, 0, l, 0)
    <3>1. \A g \in 0 + 1..l : c[g + 0] = b[g]
      BY <1>4, <1>7, <2>3
    <3>2. l <= Len(b) /\ l + 0 <= Len(c) /\ 0 + 0 >= 0
      BY <1>1, <1>4, <2>4
    <3> QED
      BY <1>4, <3>1, <3>2 DEF Shifted
  <2>6. Ends(a, c, i, n, t)
    <3>1. \A s \in 1..t : a[i + s] = c[n + s]
      <4> SUFFICES ASSUME NEW s \in 1..t PROVE a[i + s] = c[n + s]
        OBVIOUS
      <4> DEFINE g == n + s
      <4>1. g \in n..Len(c) /\ g + 1 = j + s
        BY <1>1, <1>2, <1>4, <2>3
      <4> QED
        BY <1>2, <2>3, <4>1
    <3> QED
      BY <1>1, <1>2, <1>4, <2>3, <3>1 DEF Ends
  <2>7. Across(a, c, i, n, p, r)
    <3>1. c[n] = b[j] /\ c[r] = b[r]
      BY <2>3, <2>4
    <3> QED
      BY <1>3, <2>4, <3>1 DEF Across
  <2>8. u + (i - p) + (n - r) - 1 <= v - 1
    BY <1>3, <1>4, <1>5
  <2>9. ASSUME NEW e, Table(e, a, c, kind) PROVE AtMost(e, Len(a), Len(c), v - 1)
    <3>1. AtMost(e, k, l, u)
      BY <1>4, <2>5, <2>9, Beginnings DEF u
    <3>2. AtMost(e, i, n, v - 1)
      BY <1>4, <1>6, <2>4, <2>7, <2>8, <2>9, <3>1, GoesAcross
    <3> QED
      BY <1>6, <2>4, <2>6, <2>9, <3>2, Along
  <2> QED
    BY <2>1, <2>2, <2>9 DEF Nearer, v
<1>8. CASE r = n
  <2> DEFINE c == [b EXCEPT ![r] = b[r + 1], ![r + 1] = b[r]]
  <2>1. r \in 1..Len(b) - 1 /\ r + 1 = j
    BY <1>1, <1>4, <1>8
  <2>2. Swapped(b, c, r) /\ Len(c) \in Nat
    BY <2>1, SwapIs
  <2>3. c \in Neighbours(b, L, kind)
    BY <2>1 DEF Neighbours, Swaps
  <2> HIDE DEF c
  <2>4. /\ Len(c) = Len(b) /\ c[r] = b[j] /\ c[j] = b[r]
        /\ \A g \in 1..Len(b) : g # r /\ g # j => c[g] = b[g]
    BY <2>1, <2>2 DEF Swapped
  <2>5. Shifted(b, c, 0, l, 0)
    <3>1. \A g \in 0 + 1..l : c[g + 0] = b[g]
      BY <1>1, <1>4, <2>1, <2>4
    <3>2. l <= Len(b) /\ l + 0 <= Len(c) /\ 0 + 0 >= 0
      BY <1>1, <1>4, <2>4
    <3> QED
      BY <1>4, <3>1, <3>2 DEF Shifted
  <2>6. Ends(a, c, i, j, t)
    <3>1. \A s \in 1..t : a[i + s] = c[j + s]
      <4> SUFFICES ASSUME NEW s \in 1..t PROVE a[i + s] = c[j + s]
        OBVIOUS
      <4>1. j + s \in 1..Len(b) /\ j + s # j /\ j + s # r
        BY <1>1, <1>2, <1>4
      <4> QED
        BY <1>2, <2>4, <4>1
    <3> QED
      BY <1>1, <1>2, <1>4, <2>4, <3>1 DEF Ends
  <2> DEFINE i2 == i - 1
             w == v - 1
  <2>7. Agree(a, c, p, r) /\ Agree(a, c, i, j)
    BY <1>3, <2>4 DEF Agree
  <2>8. /\ p \in k + 1..Len(a) /\ r \in l + 1..Len(c) /\ i2 \in p..Len(a) /\ r \in r..Len(c) /\ i2 = i - 1 /\ r = j - 1
        /\ u + (i2 - k - 1) + (r - l - 1) <= w /\ w \in Int /\ j \in 1..Len(c) /\ j \in 0..Len(c)
    BY <1>1, <1>3, <1>4, <1>5, <2>1, <2>4
  <2>9. ASSUME NEW e, Table(e, a, c, kind) PROVE AtMost(e, Len(a), Len(c), v - 1)
    <3>1. AtMost(e, k, l, u)
      BY <1>4, <2>5, <2>9, Beginnings DEF u
    <3> HIDE DEF w, i2
    <3>2. AtMost(e, i2, r, w)
      <4>1. /\ k \in Nat /\ l \in Nat /\ p \in k + 1..Len(a) /\ r \in l + 1..Len(c) /\ i2 \in p..Len(a) /\ r \in r..Len(c)
            /\ u + (i2 - k - 1) + (r - l - 1) <= w /\ w \in Int /\ u \in Int /\ Table(e, a, c, kind)
            /\ Agree(a, c, p, r) /\ AtMost(e, k, l, u)
        BY <1>4, <1>6, <2>7, <2>8, <2>9, <3>1
      <4> QED
        BY <4>1, Via
    <3>3. AtMost(e, i, j, w)
      BY <1>4, <2>7, <2>8, <2>9, <3>2, Straight
    <3>4. AtMost(e, Len(a), Len(c), w)
      BY <2>6, <2>8, <2>9, <3>3, Along
    <3> QED
      BY <3>4 DEF w
  <2> QED
    BY <2>2, <2>3, <2>9 DEF Nearer, v
<1> QED
  BY <1>4, <1>7, <1>8

\* From the last cell back over letters that agree, to one that comes from elsewhere.
LEMMA OneIsNearer ==
    ASSUME NEW S, NEW L, NEW a \in Seq(L), NEW b \in Seq(S), NEW kind, NEW d, Table(d, a, b, kind), a # b
    PROVE  Nearer(a, b, L, kind, At(d, Len(a), Len(b)) - 1)
<1> DEFINE v == At(d, Len(a), Len(b))
           Here(t, i, j) == t <= Len(a) /\ t <= Len(b) /\ i = Len(a) - t /\ j = Len(b) - t
                                /\ Ends(a, b, i, j, t) /\ At(d, i, j) = v
           T == {t \in Nat : \E i, j : Here(t, i, j)}
<1>1. Len(a) \in Nat /\ Len(b) \in Nat
  BY DEF Table
<1> SUFFICES ASSUME ~Nearer(a, b, L, kind, v - 1) PROVE FALSE
  OBVIOUS
<1> HIDE DEF v
<1>2. 0 \in T
  <2>1. Ends(a, b, Len(a), Len(b), 0)
    BY <1>1 DEF Ends
  <2>2. Here(0, Len(a), Len(b))
    BY <1>1, <2>1 DEF v
  <2> QED
    BY <2>2
<1>3. ASSUME NEW t \in Nat, t \in T PROVE t + 1 \in T
  <2>1. PICK i, j : Here(t, i, j)
    BY <1>3
  <2>2. /\ t <= Len(a) /\ t <= Len(b) /\ i = Len(a) - t /\ j = Len(b) - t
        /\ Ends(a, b, i, j, t) /\ At(d, i, j) = v
    BY <2>1
  <2>3. i \in 0..Len(a) /\ j \in 0..Len(b) /\ i \in Nat /\ j \in Nat /\ i + t = Len(a) /\ j + t = Len(b)
    BY <1>1, <2>2
  <2>4. \A s \in 1..t : a[i + s] = b[j + s]
    BY <2>2 DEF Ends
  <2>5. i > 0 \/ j > 0
    <3> SUFFICES ASSUME i = 0, j = 0 PROVE FALSE
      BY <2>3
    <3>1. Len(a) = t /\ Len(b) = t
      BY <2>3
    <3>2. \A s \in 1..t : a[s] = b[s]
      BY <2>4
    <3>3. a \in Seq(L \cup S) /\ b \in Seq(L \cup S)
      OBVIOUS
    <3>4. Len(a) = Len(b) /\ \A s \in 1..Len(a) : a[s] = b[s]
      BY <3>1, <3>2
    <3>5. a = b
      BY <3>3, <3>4, SeqEqual
    <3> QED
      BY <3>5
  <2>6. \/ FromLeft(d, i, j)
        \/ FromAbove(d, i, j)
        \/ SameLetter(d, a, b, i, j)
        \/ Substituted(d, i, j)
        \/ Crossing(kind) /\ \E p \in 1..i - 1, q \in 1..j - 1 : Crossed(d, a, b, i, j, p, q)
    BY <2>3, <2>5, OriginIs
  <2>7. ~FromLeft(d, i, j)
    BY <2>2, <2>3, NearerLeft
  <2>8. ~FromAbove(d, i, j)
    BY <2>2, <2>3, NearerAbove
  <2>9. ~Substituted(d, i, j)
    BY <2>2, <2>3, NearerSubstituted
  <2>10. ASSUME Crossing(kind), NEW p \in 1..i - 1, NEW q \in 1..j - 1, Crossed(d, a, b, i, j, p, q) PROVE FALSE
    BY <2>2, <2>3, <2>10, NearerCrossed
  <2>11. SameLetter(d, a, b, i, j)
    BY <2>6, <2>7, <2>8, <2>9, <2>10
  <2>12. i > 0 /\ j > 0 /\ a[i] = b[j] /\ At(d, i, j) = At(d, i - 1, j - 1)
    BY <2>11 DEF SameLetter
  <2>13. \A s \in 1..t + 1 : a[(i - 1) + s] = b[(j - 1) + s]
    <3> SUFFICES ASSUME NEW s \in 1..t + 1 PROVE a[(i - 1) + s] = b[(j - 1) + s]
      OBVIOUS
    <3>1. CASE s = 1
      <4>1. (i - 1) + s = i /\ (j - 1) + s = j
        BY <2>3, <3>1
      <4> QED
        BY <2>12, <4>1
    <3>2. CASE s # 1
      <4>1. (i - 1) + s = i + (s - 1) /\ (j - 1) + s = j + (s - 1) /\ s - 1 \in 1..t
        BY <2>3, <3>2
      <4> QED
        BY <2>4, <4>1
    <3> QED
      BY <3>1, <3>2
  <2>14. Ends(a, b, i - 1, j - 1, t + 1)
    BY <2>3, <2>13 DEF Ends
  <2>15. t + 1 <= Len(a) /\ t + 1 <= Len(b) /\ i - 1 = Len(a) - (t + 1) /\ j - 1 = Len(b) - (t + 1)
    BY <1>1, <2>3, <2>12
  <2>16. Here(t + 1, i - 1, j - 1)
    BY <2>2, <2>12, <2>14, <2>15
  <2> QED
    BY <2>16
<1> HIDE DEF T
<1>4. Nat \subseteq T
  BY <1>2, <1>3, InductionOverSet
<1>5. Len(a) + 1 \in T
  BY <1>1, <1>4
<1>6. Len(a) + 1 <= Len(a)
  BY <1>5 DEF T
<1> QED
  BY <1>1, <1>6

\* No neighbour is nearer by more than one step.
Within(d, e, n, m, l) == At(d, n, m) <= At(e, n, l) + 1

LEMMA NoneIsMuchNearer ==
    ASSUME NEW S, NEW L, NEW a, NEW b \in Seq(S), NEW kind, NEW d, Table(d, a, b, kind),
           NEW c \in Neighbours(b, L, kind), NEW e, Table(e, a, c, kind)
    PROVE  Within(d, e, Len(a), Len(b), Len(c))
<1>1. Len(a) \in Nat /\ Len(b) \in Nat /\ Len(c) \in Nat /\ Len(a) \in 0..Len(a)
  BY DEF Table
<1>2. ASSUME NEW n \in 1..Len(b) + 1, NEW x, c = InsertAt(b, n, x) PROVE Within(d, e, Len(a), Len(b), Len(c))
  <2>1. Grown(b, c, n)
    BY <1>2, InsertIs
  <2>2. \A i \in 0..Len(a), j \in n..Len(c) : KeepsUp(e, d, -1, 1, i, j)
    BY <2>1, RemoveFollows
  <2>3. Len(c) = Len(b) + 1 /\ Len(c) \in n..Len(c) /\ Len(c) + -1 = Len(b)
    BY <1>1, <2>1 DEF Grown
  <2>4. KeepsUp(e, d, -1, 1, Len(a), Len(c))
    BY <1>1, <2>2, <2>3
  <2>5. AtMost(d, Len(a), Len(b), At(e, Len(a), Len(c)) + 1)
    BY <2>3, <2>4 DEF KeepsUp
  <2> QED
    BY <2>5 DEF AtMost, Within
<1>3. ASSUME NEW n \in 1..Len(b), c = RemoveAt(b, n) PROVE Within(d, e, Len(a), Len(b), Len(c))
  <2>1. Grown(c, b, n)
    BY <1>3, RemoveIs
  <2>2. \A i \in 0..Len(a), j \in n - 1..Len(c) : KeepsUp(e, d, 1, 1, i, j)
    BY <2>1, InsertFollows
  <2>3. Len(c) + 1 = Len(b) /\ Len(c) \in n - 1..Len(c)
    BY <1>1, <2>1 DEF Grown
  <2>4. KeepsUp(e, d, 1, 1, Len(a), Len(c))
    BY <1>1, <2>2, <2>3
  <2>5. AtMost(d, Len(a), Len(b), At(e, Len(a), Len(c)) + 1)
    BY <2>3, <2>4 DEF KeepsUp
  <2> QED
    BY <2>5 DEF AtMost, Within
<1>4. ASSUME NEW n \in 1..Len(b), NEW x, c = ReplaceAt(b, n, x) PROVE Within(d, e, Len(a), Len(b), Len(c))
  <2>1. Changed(b, c, n)
    BY <1>4, ChangeIs DEF ReplaceAt
  <2>2. Changed(c, b, n)
    BY <2>1 DEF Changed
  <2>3. \A i \in 0..Len(a), j \in n..Len(c) : KeepsUp(e, d, 0, 1, i, j)
    BY <2>2, ReplaceFollows
  <2>4. Len(c) + 0 = Len(b) /\ Len(c) \in n..Len(c)
    BY <1>1, <2>1 DEF Changed
  <2>5. KeepsUp(e, d, 0, 1, Len(a), Len(c))
    BY <1>1, <2>3, <2>4
  <2>6. AtMost(d, Len(a), Len(b), At(e, Len(a), Len(c)) + 1)
    BY <2>4, <2>5 DEF KeepsUp
  <2> QED
    BY <2>6 DEF AtMost, Within
<1>5. ASSUME Crossing(kind), NEW n \in 1..Len(b) - 1, c = [b EXCEPT ![n] = b[n + 1], ![n + 1] = b[n]]
      PROVE  Within(d, e, Len(a), Len(b), Len(c))
  <2>1. Swapped(b, c, n) /\ Swapped(c, b, n)
    BY <1>5, SwapIs
  <2>2. \A i \in 0..Len(a), j \in n + 1..Len(c) : KeepsUp(e, d, 0, 1, i, j)
    BY <1>5, <2>1, SwapFollows
  <2>3. Len(c) + 0 = Len(b) /\ Len(c) \in n + 1..Len(c)
    BY <1>1, <2>1 DEF Swapped
  <2>4. KeepsUp(e, d, 0, 1, Len(a), Len(c))
    BY <1>1, <2>2, <2>3
  <2>5. AtMost(d, Len(a), Len(b), At(e, Len(a), Len(c)) + 1)
    BY <2>3, <2>4 DEF KeepsUp
  <2> QED
    BY <2>5 DEF AtMost, Within
<1>6. DOMAIN b = 1..Len(b)
  BY LenProperties
<1>7. CASE c \in Edits(b, L)
  <2>1. \/ \E n \in 1..Len(b) + 1, x \in L : c = InsertAt(b, n, x)
        \/ \E n \in 1..Len(b) : c = RemoveAt(b, n)
        \/ \E n \in 1..Len(b), x \in L : c = ReplaceAt(b, n, x)
    BY <1>6, <1>7 DEF Edits
  <2> QED
    BY <1>2, <1>3, <1>4, <2>1
<1>8. CASE Crossing(kind) /\ c \in Swaps(b)
  <2>1. \E n \in 1..Len(b) - 1 : c = [b EXCEPT ![n] = b[n + 1], ![n + 1] = b[n]]
    BY <1>8 DEF Swaps
  <2> QED
    BY <1>5, <1>8, <2>1
<1> QED
  BY <1>7, <1>8 DEF Neighbours

\* A word is nowhere from itself.
LEMMA NothingAway ==
    ASSUME NEW a, NEW kind, NEW d, Table(d, a, a, kind)
    PROVE  At(d, Len(a), Len(a)) = 0
<1>1. Len(a) \in Nat /\ 0 \in 0..Len(a) /\ At(d, 0, 0) = 0 /\ Len(a) \in 0..Len(a)
  BY DEF Table
<1>2. Ends(a, a, 0, 0, Len(a)) /\ AtMost(d, 0, 0, 0)
  BY <1>1 DEF Ends, AtMost
<1>3. AtMost(d, Len(a), Len(a), 0)
  BY <1>1, <1>2, Along
<1>4. At(d, Len(a), Len(a)) \in Nat
  BY <1>1, CellIs
<1> DEFINE x == At(d, Len(a), Len(a))
<1>5. x <= 0
  BY <1>3 DEF AtMost
<1> HIDE DEF x
<1>6. x = 0
  BY <1>4, <1>5 DEF x
<1> QED
  BY <1>6 DEF x

\* Every place where two words of one length differ is a substitution.
LEMMA DifferencesAreSteps ==
    ASSUME NEW S, NEW a \in Seq(S), NEW b, NEW kind, NEW d, Table(d, a, b, kind), Len(a) = Len(b)
    PROVE  At(d, Len(a), Len(b)) <= Hamming(a, b)
<1> DEFINE N == Len(a)
           D(k) == {i \in 1..k : a[i] # b[i]}
           X == {k \in Nat : k <= N => IsFiniteSet(D(k)) /\ Cardinality(D(k)) \in Nat /\ AtMost(d, k, k, Cardinality(D(k)))}
<1>1. N \in Nat /\ 0 \in 0..N
  BY DEF Table
<1>2. 0 \in X
  <2>1. D(0) = {}
    OBVIOUS
  <2>2. IsFiniteSet(D(0)) /\ Cardinality(D(0)) = 0
    BY <2>1, FS_EmptySet
  <2>3. AtMost(d, 0, 0, 0)
    BY DEF AtMost, Table
  <2> QED
    BY <2>2, <2>3
<1>3. ASSUME NEW k \in Nat, k \in X PROVE k + 1 \in X
  <2> SUFFICES ASSUME k + 1 <= N
               PROVE  IsFiniteSet(D(k + 1)) /\ Cardinality(D(k + 1)) \in Nat /\ AtMost(d, k + 1, k + 1, Cardinality(D(k + 1)))
    OBVIOUS
  <2> DEFINE u == Cardinality(D(k))
             g == k + 1
  <2>1. k <= N /\ g \in 1..N /\ k = g - 1 /\ g \in 1..Len(b) /\ g \in 1..Len(a)
    BY <1>1
  <2>2. IsFiniteSet(D(k)) /\ u \in Nat /\ AtMost(d, k, k, u)
    BY <1>3, <2>1
  <2>3. CASE a[g] = b[g]
    <3>1. D(k + 1) = D(k)
      BY <2>3
    <3>2. Agree(a, b, g, g) /\ u \in Int
      <4> HIDE DEF u, g, D
      <4> QED
        BY <2>2, <2>3 DEF Agree
    <3>3. AtMost(d, g, g, u)
      <4> HIDE DEF u, g
      <4> QED
        BY <2>1, <2>2, <3>2, Straight
    <3> QED
      BY <2>2, <3>1, <3>3
  <2>4. CASE a[g] # b[g]
    <3>1. D(k + 1) = D(k) \cup {g} /\ g \notin D(k)
      BY <2>4
    <3>2. IsFiniteSet(D(k + 1)) /\ Cardinality(D(k + 1)) = u + 1
      <4> HIDE DEF g, D
      <4> QED
        BY <2>2, <3>1, FS_AddElement
    <3>3. AtMost(d, g, g, u + 1)
      <4> DEFINE w == u + 1
      <4> HIDE DEF u, g, D
      <4>1. u + 1 <= w /\ u \in Int /\ w \in Int
        BY <2>2
      <4> HIDE DEF w
      <4>2. AtMost(d, g, g, w)
        BY <2>1, <2>2, <4>1, OneOff
      <4> QED
        BY <4>2 DEF w
    <3> HIDE DEF u, D
    <3>4. u + 1 \in Nat
      BY <2>2
    <3> QED
      BY <3>2, <3>3, <3>4
  <2> QED
    BY <2>3, <2>4
<1> HIDE DEF X
<1>4. Nat \subseteq X
  BY <1>2, <1>3, InductionOverSet
<1>5. AtMost(d, N, N, Cardinality(D(N)))
  <2> HIDE DEF D
  <2>1. N \in X /\ N <= N
    BY <1>1, <1>4
  <2> QED
    BY <2>1 DEF X
<1>6. Hamming(a, b) = Cardinality(D(N))
  <2>1. DOMAIN a = 1..N
    BY LenProperties
  <2> QED
    BY <2>1 DEF Hamming
<1> QED
  BY <1>5, <1>6 DEF AtMost

\* A loop whose rounds are given goes to its end.
Advances(step, L, S) == step \in [1..L -> [S -> S]]

HasLoop(S, base, L, step) == \E h \in [0..L -> S] : h[0] = base /\ \A n \in 1..L : h[n] = step[n][h[n - 1]]

LEMMA LoopOf ==
    ASSUME NEW S, NEW base \in S, NEW L \in Nat, NEW step, Advances(step, L, S)
    PROVE  HasLoop(S, base, L, step)
<1>1. step \in [1..L -> [S -> S]]
  BY DEF Advances
<1>2. \E h \in [0..L -> S] : h[0] = base /\ \A n \in 1..L : h[n] = step[n][h[n - 1]]
  BY <1>1, RecursiveFunction
<1> QED
  BY <1>2 DEF HasLoop

LEMMA LeastIs ==
    ASSUME NEW x \in Int, NEW y \in Int
    PROVE  Least(x, y) \in {x, y} /\ Least(x, y) <= x /\ Least(x, y) <= y
BY DEF Least

\* The least of three ways to a cell: from above, from the left, and over both.
Nearest(x, y, z) == Least(Least(x + 1, y + 1), z)

LEMMA NearestIs ==
    ASSUME NEW x \in Nat, NEW y \in Nat, NEW z \in Nat
    PROVE  /\ Nearest(x, y, z) \in Nat
           /\ Nearest(x, y, z) <= x + 1 /\ Nearest(x, y, z) <= y + 1 /\ Nearest(x, y, z) <= z
           /\ Nearest(x, y, z) \in {x + 1, y + 1, z}
<1> DEFINE m == Least(x + 1, y + 1)
           n == Least(m, z)
<1>1. x + 1 \in Int /\ y + 1 \in Int /\ z \in Int
  OBVIOUS
<1>2. m \in {x + 1, y + 1} /\ m <= x + 1 /\ m <= y + 1
  BY <1>1, LeastIs
<1> HIDE DEF m
<1>3. m \in Int
  BY <1>2
<1>4. n \in {m, z} /\ n <= m /\ n <= z
  BY <1>1, <1>3, LeastIs
<1> HIDE DEF n
<1>5. n \in Nat /\ n <= x + 1 /\ n <= y + 1 /\ n <= z /\ n \in {x + 1, y + 1, z}
  BY <1>2, <1>4
<1> QED
  BY <1>5 DEF Nearest, n, m

LEMMA CostIs ==
    ASSUME NEW x, NEW y
    PROVE  Cost(x, y) \in Nat /\ (x = y => Cost(x, y) = 0) /\ (x # y => Cost(x, y) = 1)
BY DEF Cost

\* One row below another.
Below(cur, prev, i, a, b) ==
    /\ cur \in [0..Len(b) -> Nat]
    /\ cur[0] = i
    /\ \A j \in 1..Len(b) : cur[j] = Nearest(prev[j], cur[j - 1], prev[j - 1] + Cost(a[i], b[j]))

LEMMA RowIs ==
    ASSUME NEW a, NEW b, Len(b) \in Nat, NEW i \in Nat, NEW prev \in [0..Len(b) -> Nat]
    PROVE  Below(Row(prev, i, a, b), prev, i, a, b)
<1> DEFINE M == Len(b)
           z == [j \in 1..M |-> prev[j - 1] + Cost(a[i], b[j])]
           Solves(f) == f = [j \in 0..M |-> IF j = 0 THEN i ELSE Nearest(prev[j], f[j - 1], prev[j - 1] + Cost(a[i], b[j]))]
           cur == CHOOSE f : Solves(f)
           step == [j \in 1..M |-> [x \in Nat |-> Nearest(prev[j], x, z[j])]]
<1>1. Row(prev, i, a, b) = cur
  BY DEF Row, Nearest
<1>2. \A j \in 1..M : z[j] \in Nat /\ z[j] = prev[j - 1] + Cost(a[i], b[j]) /\ prev[j] \in Nat
  <2> SUFFICES ASSUME NEW j \in 1..M PROVE z[j] \in Nat /\ z[j] = prev[j - 1] + Cost(a[i], b[j]) /\ prev[j] \in Nat
    OBVIOUS
  <2>1. j - 1 \in 0..M /\ j \in 0..M
    OBVIOUS
  <2>2. prev[j - 1] \in Nat /\ prev[j] \in Nat /\ Cost(a[i], b[j]) \in Nat
    BY <2>1, CostIs
  <2>3. z[j] = prev[j - 1] + Cost(a[i], b[j])
    OBVIOUS
  <2> QED
    BY <2>2, <2>3
<1> HIDE DEF z
<1>3. \A j \in 1..M, x \in Nat : Nearest(prev[j], x, z[j]) \in Nat
  BY <1>2, NearestIs
<1>4. step \in [1..M -> [Nat -> Nat]] /\ \A j \in 1..M, x \in Nat : step[j][x] = Nearest(prev[j], x, z[j])
  <2>1. \A j \in 1..M : [x \in Nat |-> Nearest(prev[j], x, z[j])] \in [Nat -> Nat]
    BY <1>3
  <2>2. \A j \in 1..M : step[j] = [x \in Nat |-> Nearest(prev[j], x, z[j])]
    OBVIOUS
  <2>3. step \in [1..M -> [Nat -> Nat]]
    BY <2>1
  <2> HIDE DEF step
  <2>4. ASSUME NEW j \in 1..M, NEW x \in Nat PROVE step[j][x] = Nearest(prev[j], x, z[j])
    BY <2>2
  <2> QED
    BY <2>3, <2>4
<1> HIDE DEF step
<1>5. PICK h \in [0..M -> Nat] : h[0] = i /\ \A j \in 1..M : h[j] = step[j][h[j - 1]]
  <2>1. Advances(step, M, Nat)
    BY <1>4 DEF Advances
  <2>2. HasLoop(Nat, i, M, step)
    BY <2>1, LoopOf
  <2> QED
    BY <2>2 DEF HasLoop
<1>6. \A j \in 1..M : h[j] = Nearest(prev[j], h[j - 1], prev[j - 1] + Cost(a[i], b[j]))
  <2> SUFFICES ASSUME NEW j \in 1..M PROVE h[j] = Nearest(prev[j], h[j - 1], prev[j - 1] + Cost(a[i], b[j]))
    OBVIOUS
  <2>1. h[j - 1] \in Nat
    OBVIOUS
  <2> QED
    BY <1>2, <1>4, <1>5, <2>1
<1>7. Solves(h)
  <2>1. h = [j \in 0..M |-> h[j]]
    OBVIOUS
  <2>2. \A j \in 0..M : h[j] = IF j = 0 THEN i ELSE Nearest(prev[j], h[j - 1], prev[j - 1] + Cost(a[i], b[j]))
    BY <1>5, <1>6
  <2> QED
    BY <2>1, <2>2
<1>8. Solves(cur)
  <2> HIDE DEF Solves
  <2> QED
    BY <1>7
<1> HIDE DEF cur
<1>9. \A j \in 0..M : cur[j] = IF j = 0 THEN i ELSE Nearest(prev[j], cur[j - 1], prev[j - 1] + Cost(a[i], b[j]))
  BY <1>8
<1>10. cur[0] = i /\ \A j \in 1..M : cur[j] = Nearest(prev[j], cur[j - 1], prev[j - 1] + Cost(a[i], b[j]))
  BY <1>9
<1>11. cur \in [0..M -> Nat]
  <2> DEFINE X == {n \in Nat : n <= M => cur[n] \in Nat}
  <2>1. 0 \in X
    BY <1>10
  <2>2. ASSUME NEW n \in Nat, n \in X PROVE n + 1 \in X
    <3> SUFFICES ASSUME n + 1 <= M PROVE cur[n + 1] \in Nat
      OBVIOUS
    <3>1. n + 1 \in 1..M /\ (n + 1) - 1 = n /\ n <= M
      OBVIOUS
    <3>2. cur[n + 1] = Nearest(prev[n + 1], cur[n], z[n + 1])
      BY <1>2, <1>10, <3>1
    <3> QED
      BY <1>3, <2>2, <3>1, <3>2
  <2> HIDE DEF X
  <2>3. Nat \subseteq X
    BY <2>1, <2>2, InductionOverSet
  <2>4. \A j \in 0..M : cur[j] \in Nat
    BY <2>3 DEF X
  <2>5. DOMAIN cur = 0..M /\ cur = [j \in 0..M |-> cur[j]]
    BY <1>8
  <2> QED
    BY <2>4, <2>5
<1> QED
  BY <1>1, <1>10, <1>11 DEF Below

\* All rows, one below the other.
LEMMA RowsAre ==
    ASSUME NEW a, NEW b, Len(a) \in Nat, Len(b) \in Nat
    PROVE  \E row \in [0..Len(a) -> [0..Len(b) -> Nat]] :
                /\ row[0] = [j \in 0..Len(b) |-> j]
                /\ \A i \in 1..Len(a) : Below(row[i], row[i - 1], i, a, b)
                /\ Levenshtein(a, b) = row[Len(a)][Len(b)]
<1> DEFINE N == Len(a)
           M == Len(b)
           S == [0..M -> Nat]
           base == [j \in 0..M |-> j]
           Solves(f) == f = [i \in 0..N |-> IF i = 0 THEN base ELSE Row(f[i - 1], i, a, b)]
           row == CHOOSE f : Solves(f)
           step == [i \in 1..N |-> [x \in S |-> Row(x, i, a, b)]]
<1>1. Levenshtein(a, b) = row[N][M]
  BY DEF Levenshtein
<1>2. base \in S
  OBVIOUS
<1>3. \A i \in 1..N, x \in S : Row(x, i, a, b) \in S /\ Below(Row(x, i, a, b), x, i, a, b)
  <2> SUFFICES ASSUME NEW i \in 1..N, NEW x \in S PROVE Row(x, i, a, b) \in S /\ Below(Row(x, i, a, b), x, i, a, b)
    OBVIOUS
  <2>1. Below(Row(x, i, a, b), x, i, a, b)
    BY RowIs
  <2> QED
    BY <2>1 DEF Below
<1> HIDE DEF base, S
<1>4. step \in [1..N -> [S -> S]] /\ \A i \in 1..N, x \in S : step[i][x] = Row(x, i, a, b)
  <2>1. \A i \in 1..N : [x \in S |-> Row(x, i, a, b)] \in [S -> S]
    BY <1>3
  <2>2. \A i \in 1..N : step[i] = [x \in S |-> Row(x, i, a, b)]
    OBVIOUS
  <2>3. step \in [1..N -> [S -> S]]
    BY <2>1
  <2> HIDE DEF step
  <2>4. ASSUME NEW i \in 1..N, NEW x \in S PROVE step[i][x] = Row(x, i, a, b)
    BY <2>2
  <2> QED
    BY <2>3, <2>4
<1> HIDE DEF step
<1>5. PICK h \in [0..N -> S] : h[0] = base /\ \A i \in 1..N : h[i] = step[i][h[i - 1]]
  <2>1. Advances(step, N, S)
    BY <1>4 DEF Advances
  <2>2. HasLoop(S, base, N, step)
    BY <1>2, <2>1, LoopOf
  <2> QED
    BY <2>2 DEF HasLoop
<1>6. \A i \in 1..N : h[i] = Row(h[i - 1], i, a, b)
  <2> SUFFICES ASSUME NEW i \in 1..N PROVE h[i] = Row(h[i - 1], i, a, b)
    OBVIOUS
  <2>1. h[i - 1] \in S
    OBVIOUS
  <2> QED
    BY <1>4, <1>5, <2>1
<1>7. Solves(h)
  <2>1. h = [i \in 0..N |-> h[i]]
    OBVIOUS
  <2>2. \A i \in 0..N : h[i] = IF i = 0 THEN base ELSE Row(h[i - 1], i, a, b)
    BY <1>5, <1>6
  <2> QED
    BY <2>1, <2>2
<1>8. Solves(row)
  <2> HIDE DEF Solves
  <2> QED
    BY <1>7
<1> HIDE DEF row
<1>9. row[0] = base /\ \A i \in 1..N : row[i] = Row(row[i - 1], i, a, b)
  BY <1>8
<1>10. row \in [0..N -> S]
  <2> DEFINE X == {n \in Nat : n <= N => row[n] \in S}
  <2>1. 0 \in X
    BY <1>2, <1>9
  <2>2. ASSUME NEW n \in Nat, n \in X PROVE n + 1 \in X
    <3> SUFFICES ASSUME n + 1 <= N PROVE row[n + 1] \in S
      OBVIOUS
    <3>1. n + 1 \in 1..N /\ (n + 1) - 1 = n /\ n <= N
      OBVIOUS
    <3>2. row[n + 1] = Row(row[n], n + 1, a, b)
      BY <1>9, <3>1
    <3> QED
      BY <1>3, <2>2, <3>1, <3>2
  <2> HIDE DEF X
  <2>3. Nat \subseteq X
    BY <2>1, <2>2, InductionOverSet
  <2>4. \A i \in 0..N : row[i] \in S
    BY <2>3 DEF X
  <2>5. row = [i \in 0..N |-> row[i]]
    BY <1>8
  <2> QED
    BY <2>4, <2>5
<1>11. ASSUME NEW i \in 1..N PROVE Below(row[i], row[i - 1], i, a, b)
  <2>1. row[i - 1] \in S
    BY <1>10
  <2> QED
    BY <1>3, <1>9, <2>1
<1>12. row[0] = [j \in 0..M |-> j] /\ row \in [0..N -> [0..M -> Nat]]
  BY <1>9, <1>10 DEF base, S
<1> HIDE DEF Solves
<1> QED
  BY <1>1, <1>11, <1>12

LEMMA LevenshteinTable ==
    ASSUME NEW a, NEW b, Len(a) \in Nat, Len(b) \in Nat
    PROVE  \E d : Table(d, a, b, "levenshtein") /\ Levenshtein(a, b) = At(d, Len(a), Len(b))
<1> DEFINE N == Len(a)
           M == Len(b)
<1>1. PICK row \in [0..N -> [0..M -> Nat]] :
                /\ row[0] = [j \in 0..M |-> j]
                /\ \A i \in 1..N : Below(row[i], row[i - 1], i, a, b)
                /\ Levenshtein(a, b) = row[N][M]
  BY RowsAre
<1> DEFINE d == [ij \in (0..N) \X (0..M) |-> row[ij[1]][ij[2]]]
<1>2. N \in Nat /\ M \in Nat
  OBVIOUS
<1> HIDE DEF N, M
<1>3. \A i \in 0..N, j \in 0..M : At(d, i, j) = row[i][j]
  BY DEF At
<1>4. \A i \in 0..N, j \in 0..M : row[i][j] \in Nat
  OBVIOUS
<1> HIDE DEF d
<1>5. \A i \in 0..N, j \in 0..M : At(d, i, j) \in Nat
  BY <1>3, <1>4
<1>6. \A j \in 0..M : At(d, 0, j) = j
  <2>1. 0 \in 0..N
    BY <1>2
  <2> QED
    BY <1>1, <1>3, <2>1
<1>7. ASSUME NEW i \in 1..N
      PROVE  /\ At(d, i, 0) = i
             /\ \A j \in 1..M : At(d, i, j) = Nearest(At(d, i - 1, j), At(d, i, j - 1), At(d, i - 1, j - 1) + Cost(a[i], b[j]))
  <2>1. i \in 0..N /\ i - 1 \in 0..N /\ 0 \in 0..M
    BY <1>2
  <2>2. Below(row[i], row[i - 1], i, a, b)
    BY <1>1
  <2>3. At(d, i, 0) = i
    BY <1>3, <2>1, <2>2 DEF Below
  <2>4. ASSUME NEW j \in 1..M
        PROVE  At(d, i, j) = Nearest(At(d, i - 1, j), At(d, i, j - 1), At(d, i - 1, j - 1) + Cost(a[i], b[j]))
    <3>1. j \in 0..M /\ j - 1 \in 0..M
      BY <1>2
    <3>2. row[i][j] = Nearest(row[i - 1][j], row[i][j - 1], row[i - 1][j - 1] + Cost(a[i], b[j]))
      BY <2>2 DEF Below, M
    <3>3. At(d, i, j) = row[i][j] /\ At(d, i - 1, j) = row[i - 1][j] /\ At(d, i, j - 1) = row[i][j - 1]
          /\ At(d, i - 1, j - 1) = row[i - 1][j - 1]
      BY <1>3, <2>1, <3>1
    <3> QED
      BY <3>2, <3>3
  <2> QED
    BY <2>3, <2>4
<1>8. ASSUME NEW i \in 1..N, NEW j \in 1..M
      PROVE  /\ At(d, i, j) <= At(d, i - 1, j) + 1
             /\ At(d, i, j) <= At(d, i, j - 1) + 1
             /\ At(d, i, j) <= At(d, i - 1, j - 1) + Cost(a[i], b[j])
             /\ FromLeft(d, i, j) \/ FromAbove(d, i, j) \/ SameLetter(d, a, b, i, j) \/ Substituted(d, i, j)
  <2> DEFINE x == At(d, i - 1, j)
             y == At(d, i, j - 1)
             u == At(d, i - 1, j - 1)
             c == Cost(a[i], b[j])
             v == At(d, i, j)
  <2>1. i - 1 \in 0..N /\ i \in 0..N /\ j - 1 \in 0..M /\ j \in 0..M /\ i > 0 /\ j > 0
    BY <1>2
  <2>2. x \in Nat /\ y \in Nat /\ u \in Nat /\ v \in Nat
    BY <1>5, <2>1
  <2>3. c \in Nat /\ (a[i] = b[j] => c = 0) /\ (a[i] # b[j] => c = 1)
    BY CostIs
  <2>4. v = Nearest(x, y, u + c)
    BY <1>7
  <2> HIDE DEF x, y, u, c, v
  <2>5. u + c \in Nat
    BY <2>2, <2>3
  <2>6. v <= x + 1 /\ v <= y + 1 /\ v <= u + c /\ v \in {x + 1, y + 1, u + c}
    BY <2>2, <2>4, <2>5, NearestIs
  <2>7. CASE v = x + 1
    <3>1. FromAbove(d, i, j)
      BY <2>1, <2>7 DEF FromAbove, x, v
    <3> QED
      BY <2>6, <3>1 DEF x, y, u, c, v
  <2>8. CASE v = y + 1
    <3>1. FromLeft(d, i, j)
      BY <2>1, <2>8 DEF FromLeft, y, v
    <3> QED
      BY <2>6, <3>1 DEF x, y, u, c, v
  <2>9. CASE v = u + c
    <3>1. CASE a[i] = b[j]
      <4>1. v = u
        BY <2>2, <2>3, <2>9, <3>1
      <4>2. SameLetter(d, a, b, i, j)
        BY <2>1, <3>1, <4>1 DEF SameLetter, u, v
      <4> QED
        BY <2>6, <4>2 DEF x, y, u, c, v
    <3>2. CASE a[i] # b[j]
      <4>1. v = u + 1
        BY <2>2, <2>3, <2>9, <3>2
      <4>2. Substituted(d, i, j)
        BY <2>1, <4>1 DEF Substituted, u, v
      <4> QED
        BY <2>6, <4>2 DEF x, y, u, c, v
    <3> QED
      BY <3>1, <3>2
  <2> QED
    BY <2>6, <2>7, <2>8, <2>9
<1>9. ASSUME NEW i \in 0..N, NEW j \in 1..M PROVE At(d, i, j) <= At(d, i, j - 1) + 1
  <2>1. CASE i = 0
    <3>1. At(d, 0, j) = j /\ At(d, 0, j - 1) = j - 1
      BY <1>2, <1>6
    <3> QED
      BY <2>1, <3>1
  <2>2. CASE i # 0
    <3>1. i \in 1..N
      BY <1>2, <2>2
    <3> QED
      BY <1>8, <3>1
  <2> QED
    BY <2>1, <2>2
<1>10. ASSUME NEW i \in 1..N, NEW j \in 0..M PROVE At(d, i, j) <= At(d, i - 1, j) + 1
  <2>1. CASE j = 0
    <3>1. At(d, i, 0) = i /\ At(d, i - 1, 0) = i - 1
      <4>1. CASE i = 1
        <5>1. 0 \in 0..M
          BY <1>2
        <5> QED
          BY <1>6, <1>7, <4>1, <5>1
      <4>2. CASE i # 1
        <5>1. i - 1 \in 1..N
          BY <1>2, <4>2
        <5> QED
          BY <1>7, <5>1
      <4> QED
        BY <4>1, <4>2
    <3> QED
      BY <2>1, <3>1
  <2>2. CASE j # 0
    <3>1. j \in 1..M
      BY <1>2, <2>2
    <3> QED
      BY <1>8, <3>1
  <2> QED
    BY <2>1, <2>2
<1>11. ASSUME NEW i \in 0..N, NEW j \in 0..M
       PROVE  \/ i = 0 /\ j = 0
              \/ FromLeft(d, i, j) \/ FromAbove(d, i, j) \/ SameLetter(d, a, b, i, j) \/ Substituted(d, i, j)
  <2>1. CASE i = 0 /\ j > 0
    <3>1. j \in 1..M /\ j - 1 \in 0..M
      BY <1>2, <2>1
    <3>2. At(d, 0, j) = j /\ At(d, 0, j - 1) = j - 1
      BY <1>6, <3>1
    <3>3. FromLeft(d, i, j)
      BY <2>1, <3>1, <3>2 DEF FromLeft
    <3> QED
      BY <3>3
  <2>2. CASE i > 0 /\ j = 0
    <3>1. i \in 1..N
      BY <1>2, <2>2
    <3>2. At(d, i, 0) = i
      BY <1>7, <3>1
    <3>3. At(d, i - 1, 0) = i - 1
      <4>1. CASE i = 1
        <5>1. 0 \in 0..M
          BY <1>2
        <5> QED
          BY <1>6, <4>1, <5>1
      <4>2. CASE i # 1
        <5>1. i - 1 \in 1..N
          BY <3>1, <1>2, <4>2
        <5> QED
          BY <1>7, <5>1
      <4> QED
        BY <4>1, <4>2
    <3>4. FromAbove(d, i, j)
      BY <2>2, <3>1, <3>2, <3>3 DEF FromAbove
    <3> QED
      BY <3>4
  <2>3. CASE i > 0 /\ j > 0
    <3>1. i \in 1..N /\ j \in 1..M
      BY <1>2, <2>3
    <3> QED
      BY <1>8, <3>1
  <2>4. i \in Nat /\ j \in Nat
    BY <1>2
  <2> QED
    BY <2>1, <2>2, <2>3, <2>4
<1>12. Table(d, a, b, "levenshtein")
  <2>1. ~Crossing("levenshtein")
    BY DEF Crossing
  <2>2. At(d, 0, 0) = 0
    BY <1>2, <1>6
  <2>3. \A i \in 1..N, j \in 1..M : At(d, i, j) <= At(d, i - 1, j - 1) + Cost(a[i], b[j])
    BY <1>8
  <2> QED
    BY <1>2, <1>5, <1>9, <1>10, <1>11, <2>1, <2>2, <2>3 DEF Table, N, M
<1>13. Levenshtein(a, b) = At(d, N, M)
  <2>1. N \in 0..N /\ M \in 0..M
    BY <1>2
  <2> QED
    BY <1>1, <1>3, <2>1
<1> QED
  BY <1>12, <1>13 DEF N, M

\* The last place before i where s has x, or 0.
LEMMA LastIs ==
    ASSUME NEW s, NEW i \in Nat, i >= 1, NEW x
    PROVE  /\ LastBefore(s, i, x) \in 0..i - 1
           /\ LastBefore(s, i, x) # 0 => s[LastBefore(s, i, x)] = x
           /\ \A k \in 1..i - 1 : s[k] = x => k <= LastBefore(s, i, x)
<1> DEFINE I == {k \in 1..i - 1 : s[k] = x}
           n == LastBefore(s, i, x)
<1>1. n = IF I # {} THEN Max(I) ELSE 0
  BY DEF LastBefore, SelectLastInSubSeq
<1>2. CASE I = {}
  <2>1. n = 0
    BY <1>1, <1>2
  <2>2. \A k \in 1..i - 1 : s[k] # x
    BY <1>2
  <2> QED
    BY <2>1, <2>2
<1>3. CASE I # {}
  <2> DEFINE T == {t \in Nat : i - t \in I}
  <2>1. T # {}
    <3>1. PICK k \in I : TRUE
      BY <1>3
    <3>2. i - k \in Nat /\ i - (i - k) = k
      OBVIOUS
    <3> QED
      BY <3>1, <3>2
  <2> HIDE DEF I
  <2>2. PICK t \in T : \A u \in T : t <= u
    BY <2>1, LeastElement
  <2>3. i - t \in I /\ t \in Nat
    BY <2>2
  <2>4. \A k \in I : k \in 1..i - 1
    BY DEF I
  <2>5. \A k \in I : i - t >= k
    <3> SUFFICES ASSUME NEW k \in I PROVE i - t >= k
      OBVIOUS
    <3>1. k \in 1..i - 1
      BY <2>4
    <3>2. i - k \in Nat /\ i - (i - k) = k
      BY <3>1
    <3>3. i - k \in T
      BY <3>2
    <3>4. t <= i - k
      BY <2>2, <3>3
    <3> QED
      BY <2>3, <3>1, <3>4
  <2>6. Max(I) \in I /\ \A k \in I : Max(I) >= k
    <3>1. \E m \in I : \A k \in I : m >= k
      BY <2>3, <2>5
    <3> QED
      BY <3>1 DEF Max
  <2>7. n = Max(I)
    BY <1>1, <1>3
  <2>8. n \in I /\ \A k \in I : k <= n
    <3>1. \A k \in I : Max(I) >= k => k <= Max(I)
      BY <2>4, <2>6
    <3> QED
      BY <2>6, <2>7, <3>1
  <2> HIDE DEF n
  <2>9. n \in 1..i - 1 /\ s[n] = x
    BY <2>8 DEF I
  <2>10. \A k \in 1..i - 1 : s[k] = x => k <= n
    BY <2>8 DEF I
  <2> QED
    BY <2>9, <2>10 DEF n
<1> QED
  BY <1>2, <1>3

Cells(a, b) == (-1..Len(a)) \X (-1..Len(b))

Grid(t, a, b) == t \in [Cells(a, b) -> Int]

\* The letters that may have been swapped, the last ones of their kind, stand at p and q.
LastPair(a, b, i, j, p, q) ==
    /\ p \in 0..i - 1 /\ q \in 0..j - 1
    /\ p # 0 => a[p] = b[j]
    /\ q # 0 => b[q] = a[i]
    /\ \A k \in 1..i - 1 : a[k] = b[j] => k <= p
    /\ \A k \in 1..j - 1 : b[k] = a[i] => k <= q

CellFrom(d, i, j, p, q, a, b) ==
    Least(Least(At(d, i - 1, j - 1) + Cost(a[i], b[j]), Least(At(d, i, j - 1) + 1, At(d, i - 1, j) + 1)),
          At(d, p - 1, q - 1) + ((i - p - 1) + 1 + (j - q - 1)))

LEMMA PairIs ==
    ASSUME NEW a, NEW b, NEW i \in Nat, NEW j \in Nat, i >= 1, j >= 1
    PROVE  \E p, q : LastPair(a, b, i, j, p, q) /\ \A d : Cell(d, i, j, a, b) = CellFrom(d, i, j, p, q, a, b)
<1> DEFINE p == LastBefore(a, i, b[j])
           q == LastBefore(b, j, a[i])
<1>1. /\ p \in 0..i - 1
      /\ p # 0 => a[p] = b[j]
      /\ \A k \in 1..i - 1 : a[k] = b[j] => k <= p
  BY LastIs
<1>2. /\ q \in 0..j - 1
      /\ q # 0 => b[q] = a[i]
      /\ \A k \in 1..j - 1 : b[k] = a[i] => k <= q
  BY LastIs
<1>3. \A d : Cell(d, i, j, a, b) = CellFrom(d, i, j, p, q, a, b)
  BY DEF Cell, SwapCost, At, CellFrom
<1> HIDE DEF p, q
<1>4. LastPair(a, b, i, j, p, q)
  BY <1>1, <1>2 DEF LastPair
<1> QED
  BY <1>3, <1>4

\* A cell is computed from cells above and to the left of it.
LEMMA CellReads ==
    ASSUME NEW a, NEW b, NEW i \in Nat, NEW j \in Nat, i >= 1, j >= 1, NEW d, NEW e,
           \A g \in -1..i, h \in -1..j : g < i \/ h < j => At(d, g, h) = At(e, g, h)
    PROVE  Cell(d, i, j, a, b) = Cell(e, i, j, a, b)
<1>1. PICK p, q : LastPair(a, b, i, j, p, q) /\ \A f : Cell(f, i, j, a, b) = CellFrom(f, i, j, p, q, a, b)
  BY PairIs
<1>0. p \in 0..i - 1 /\ q \in 0..j - 1
  BY <1>1 DEF LastPair
<1>2. /\ i - 1 \in -1..i /\ i - 1 < i /\ j - 1 \in -1..j /\ j - 1 < j /\ i \in -1..i /\ j \in -1..j
      /\ p - 1 \in -1..i /\ p - 1 < i /\ q - 1 \in -1..j
  BY <1>0
<1>3. /\ At(d, i - 1, j - 1) = At(e, i - 1, j - 1)
      /\ At(d, i, j - 1) = At(e, i, j - 1)
      /\ At(d, i - 1, j) = At(e, i - 1, j)
      /\ At(d, p - 1, q - 1) = At(e, p - 1, q - 1)
  BY <1>2
<1>4. CellFrom(d, i, j, p, q, a, b) = CellFrom(e, i, j, p, q, a, b)
  BY <1>3 DEF CellFrom
<1> QED
  BY <1>1, <1>4

LEMMA CellIn ==
    ASSUME NEW a, NEW b, Len(a) \in Nat, Len(b) \in Nat, NEW i \in 1..Len(a), NEW j \in 1..Len(b),
           NEW d \in [Cells(a, b) -> Int]
    PROVE  Cell(d, i, j, a, b) \in Int
<1>1. i \in Nat /\ j \in Nat /\ i >= 1 /\ j >= 1
  OBVIOUS
<1>2. PICK p, q : LastPair(a, b, i, j, p, q) /\ \A f : Cell(f, i, j, a, b) = CellFrom(f, i, j, p, q, a, b)
  BY <1>1, PairIs
<1>0. p \in 0..i - 1 /\ q \in 0..j - 1
  BY <1>2 DEF LastPair
<1>3. \A g \in -1..Len(a), h \in -1..Len(b) : At(d, g, h) \in Int
  BY DEF At, Cells
<1>4. /\ i - 1 \in -1..Len(a) /\ j - 1 \in -1..Len(b) /\ i \in -1..Len(a) /\ j \in -1..Len(b)
      /\ p - 1 \in -1..Len(a) /\ q - 1 \in -1..Len(b)
  BY <1>0, <1>1
<1> DEFINE x == At(d, i - 1, j - 1)
           y == At(d, i, j - 1)
           z == At(d, i - 1, j)
           w == At(d, p - 1, q - 1)
           c == Cost(a[i], b[j])
<1>5. x \in Int /\ y \in Int /\ z \in Int /\ w \in Int /\ c \in Int
  <2>1. x \in Int /\ y \in Int /\ z \in Int /\ w \in Int
    BY <1>3, <1>4
  <2>2. c \in Nat
    BY CostIs
  <2> QED
    BY <2>1, <2>2
<1>6. Cell(d, i, j, a, b) = Least(Least(x + c, Least(y + 1, z + 1)), w + ((i - p - 1) + 1 + (j - q - 1)))
  BY <1>2 DEF CellFrom
<1> HIDE DEF x, y, z, w, c
<1> QED
  BY <1>0, <1>1, <1>5, <1>6 DEF Least

Put(d, i, j, a, b) == [d EXCEPT ![<<i, j>>] = Cell(d, i, j, a, b)]

LEMMA PutIs ==
    ASSUME NEW a, NEW b, Len(a) \in Nat, Len(b) \in Nat, NEW i \in 1..Len(a), NEW j \in 1..Len(b),
           NEW d \in [Cells(a, b) -> Int]
    PROVE  /\ Put(d, i, j, a, b) \in [Cells(a, b) -> Int]
           /\ At(Put(d, i, j, a, b), i, j) = Cell(d, i, j, a, b)
           /\ \A g \in -1..Len(a), h \in -1..Len(b) : g # i \/ h # j => At(Put(d, i, j, a, b), g, h) = At(d, g, h)
<1> DEFINE x == Cell(d, i, j, a, b)
           S == Cells(a, b)
<1>1. x \in Int
  BY CellIn
<1>2. <<i, j>> \in S
  BY DEF Cells
<1>3. \A g \in -1..Len(a), h \in -1..Len(b) : <<g, h>> \in S /\ (g # i \/ h # j => <<g, h>> # <<i, j>>)
  BY DEF Cells
<1> HIDE DEF x, S
<1>4. Put(d, i, j, a, b) = [d EXCEPT ![<<i, j>>] = x]
  BY DEF Put, x
<1>5. d \in [S -> Int]
  BY DEF S
<1>6. [d EXCEPT ![<<i, j>>] = x] \in [S -> Int] /\ [d EXCEPT ![<<i, j>>] = x][<<i, j>>] = x
  BY <1>1, <1>2, <1>5
<1>7. \A g \in -1..Len(a), h \in -1..Len(b) : g # i \/ h # j => [d EXCEPT ![<<i, j>>] = x][<<g, h>>] = d[<<g, h>>]
  BY <1>3, <1>5
<1> QED
  BY <1>4, <1>6, <1>7 DEF At, x, S

\* The row i of t is computed up to column j, and the rest is as in table.
Filled(t, table, i, j, a, b) ==
    /\ t \in [Cells(a, b) -> Int]
    /\ \A g \in -1..Len(a), h \in -1..Len(b) : g # i \/ h \notin 1..j => At(t, g, h) = At(table, g, h)
    /\ \A h \in 1..j : At(t, i, h) = Cell(t, i, h, a, b)

LEMMA PutFills ==
    ASSUME NEW a, NEW b, Len(a) \in Nat, Len(b) \in Nat, NEW i \in 1..Len(a), NEW j \in Nat, j + 1 <= Len(b),
           NEW table, NEW t, Filled(t, table, i, j, a, b)
    PROVE  Filled(Put(t, i, j + 1, a, b), table, i, j + 1, a, b)
<1> DEFINE n == j + 1
           u == Put(t, i, n, a, b)
<1>1. n \in 1..Len(b) /\ n = j + 1 /\ i \in Nat /\ i >= 1
  OBVIOUS
<1>2. /\ t \in [Cells(a, b) -> Int]
      /\ \A g \in -1..Len(a), h \in -1..Len(b) : g # i \/ h \notin 1..j => At(t, g, h) = At(table, g, h)
      /\ \A h \in 1..j : At(t, i, h) = Cell(t, i, h, a, b)
  BY DEF Filled
<1> HIDE DEF n
<1>3. /\ u \in [Cells(a, b) -> Int]
      /\ At(u, i, n) = Cell(t, i, n, a, b)
      /\ \A g \in -1..Len(a), h \in -1..Len(b) : g # i \/ h # n => At(u, g, h) = At(t, g, h)
  BY <1>1, <1>2, PutIs
<1> HIDE DEF u
<1>4. ASSUME NEW g \in -1..Len(a), NEW h \in -1..Len(b), g # i \/ h \notin 1..n PROVE At(u, g, h) = At(table, g, h)
  <2>1. (g # i \/ h # n) /\ (g # i \/ h \notin 1..j)
    BY <1>1, <1>4
  <2> QED
    BY <1>2, <1>3, <2>1
<1>5. ASSUME NEW h \in 1..n PROVE Cell(u, i, h, a, b) = Cell(t, i, h, a, b)
  <2>1. \A g \in -1..i, l \in -1..h : g < i \/ l < h => g \in -1..Len(a) /\ l \in -1..Len(b) /\ (g # i \/ l # n)
    BY <1>1
  <2>2. \A g \in -1..i, l \in -1..h : g < i \/ l < h => At(u, g, l) = At(t, g, l)
    BY <1>3, <2>1
  <2>3. h \in Nat /\ h >= 1
    BY <1>1
  <2> QED
    BY <1>1, <2>2, <2>3, CellReads
<1>6. ASSUME NEW h \in 1..n PROVE At(u, i, h) = Cell(u, i, h, a, b)
  <2>1. CASE h = n
    BY <1>3, <1>5, <2>1
  <2>2. CASE h # n
    <3>1. h \in 1..j /\ h \in -1..Len(b) /\ i \in -1..Len(a)
      BY <1>1, <2>2
    <3> QED
      BY <1>2, <1>3, <1>5, <2>2, <3>1
  <2> QED
    BY <2>1, <2>2
<1> QED
  BY <1>3, <1>4, <1>6 DEF Filled, u, n

LEMMA FillRowIs ==
    ASSUME NEW a, NEW b, Len(a) \in Nat, Len(b) \in Nat, NEW i \in 1..Len(a), NEW table, Grid(table, a, b)
    PROVE  Filled(FillRow(table, i, a, b), table, i, Len(b), a, b)
<1> DEFINE M == Len(b)
           S == [Cells(a, b) -> Int]
           Solves(f) == f = [j \in 0..M |-> IF j = 0 THEN table ELSE Put(f[j - 1], i, j, a, b)]
           filled == CHOOSE f : Solves(f)
           step == [j \in 1..M |-> [x \in S |-> Put(x, i, j, a, b)]]
<1>1. FillRow(table, i, a, b) = filled[M]
  BY DEF FillRow, Put
<1>2. \A j \in 1..M, x \in S : Put(x, i, j, a, b) \in S
  BY PutIs
<1>0. table \in S /\ M \in Nat
  BY DEF Grid
<1> HIDE DEF S
<1>4. step \in [1..M -> [S -> S]] /\ \A j \in 1..M, x \in S : step[j][x] = Put(x, i, j, a, b)
  <2>1. \A j \in 1..M : [x \in S |-> Put(x, i, j, a, b)] \in [S -> S]
    BY <1>2
  <2>2. \A j \in 1..M : step[j] = [x \in S |-> Put(x, i, j, a, b)]
    OBVIOUS
  <2>3. step \in [1..M -> [S -> S]]
    BY <2>1
  <2> HIDE DEF step
  <2>4. ASSUME NEW j \in 1..M, NEW x \in S PROVE step[j][x] = Put(x, i, j, a, b)
    BY <2>2
  <2> QED
    BY <2>3, <2>4
<1> HIDE DEF step
<1>5. PICK h \in [0..M -> S] : h[0] = table /\ \A j \in 1..M : h[j] = step[j][h[j - 1]]
  <2>1. Advances(step, M, S)
    BY <1>4 DEF Advances
  <2>2. HasLoop(S, table, M, step)
    BY <1>0, <2>1, LoopOf
  <2> QED
    BY <2>2 DEF HasLoop
<1>6. \A j \in 1..M : h[j] = Put(h[j - 1], i, j, a, b)
  <2> SUFFICES ASSUME NEW j \in 1..M PROVE h[j] = Put(h[j - 1], i, j, a, b)
    OBVIOUS
  <2>1. h[j - 1] \in S
    OBVIOUS
  <2> QED
    BY <1>4, <1>5, <2>1
<1>7. Solves(h)
  <2>1. h = [j \in 0..M |-> h[j]]
    OBVIOUS
  <2>2. \A j \in 0..M : h[j] = IF j = 0 THEN table ELSE Put(h[j - 1], i, j, a, b)
    BY <1>5, <1>6
  <2> QED
    BY <2>1, <2>2
<1>8. Solves(filled)
  <2> HIDE DEF Solves
  <2> QED
    BY <1>7
<1> HIDE DEF filled
<1>9. filled[0] = table /\ \A j \in 1..M : filled[j] = Put(filled[j - 1], i, j, a, b)
  BY <1>0, <1>8
<1> HIDE DEF Solves
<1> DEFINE X == {j \in Nat : j <= M => Filled(filled[j], table, i, j, a, b)}
<1>10. 0 \in X
  <2>1. Filled(table, table, i, 0, a, b)
    BY DEF Filled
  <2> QED
    BY <1>9, <2>1
<1>11. ASSUME NEW j \in Nat, j \in X PROVE j + 1 \in X
  <2> SUFFICES ASSUME j + 1 <= M PROVE Filled(filled[j + 1], table, i, j + 1, a, b)
    OBVIOUS
  <2>1. j + 1 \in 1..M /\ (j + 1) - 1 = j /\ j <= M
    BY <1>0
  <2>2. Filled(filled[j], table, i, j, a, b)
    BY <1>11, <2>1
  <2>3. filled[j + 1] = Put(filled[j], i, j + 1, a, b)
    BY <1>9, <2>1
  <2>4. Filled(Put(filled[j], i, j + 1, a, b), table, i, j + 1, a, b)
    BY <2>2, PutFills
  <2> QED
    BY <2>3, <2>4
<1> HIDE DEF X
<1>12. Nat \subseteq X
  BY <1>10, <1>11, InductionOverSet
<1>13. Filled(filled[M], table, i, M, a, b)
  <2>1. M \in X /\ M <= M
    BY <1>0, <1>12
  <2> QED
    BY <2>1 DEF X
<1> QED
  BY <1>1, <1>13

\* The rows of t are computed up to row i, and the rest is as before the loops.
Complete(t, i, a, b) ==
    /\ t \in [Cells(a, b) -> Int]
    /\ \A g \in -1..Len(a), h \in -1..Len(b) : g \notin 1..i \/ h \notin 1..Len(b) => At(t, g, h) = At(Margins(a, b), g, h)
    /\ \A g \in 1..i, h \in 1..Len(b) : At(t, g, h) = Cell(t, g, h, a, b)

LEMMA RowCompletes ==
    ASSUME NEW a, NEW b, Len(a) \in Nat, Len(b) \in Nat, NEW i \in Nat, i + 1 <= Len(a),
           NEW t, Complete(t, i, a, b)
    PROVE  Complete(FillRow(t, i + 1, a, b), i + 1, a, b)
<1> DEFINE n == i + 1
           M == Len(b)
           u == FillRow(t, n, a, b)
<1>1. n \in 1..Len(a) /\ n = i + 1 /\ M \in Nat
  OBVIOUS
<1>2. /\ t \in [Cells(a, b) -> Int]
      /\ \A g \in -1..Len(a), h \in -1..M : g \notin 1..i \/ h \notin 1..M => At(t, g, h) = At(Margins(a, b), g, h)
      /\ \A g \in 1..i, h \in 1..M : At(t, g, h) = Cell(t, g, h, a, b)
  BY DEF Complete
<1> HIDE DEF n
<1>3. Filled(u, t, n, M, a, b)
  BY <1>1, <1>2, FillRowIs DEF Grid
<1> HIDE DEF u
<1>4. /\ u \in [Cells(a, b) -> Int]
      /\ \A g \in -1..Len(a), h \in -1..M : g # n \/ h \notin 1..M => At(u, g, h) = At(t, g, h)
      /\ \A h \in 1..M : At(u, n, h) = Cell(u, n, h, a, b)
  BY <1>3 DEF Filled
<1> HIDE DEF M
<1>5. ASSUME NEW g \in -1..Len(a), NEW h \in -1..M, g \notin 1..n \/ h \notin 1..M
      PROVE  At(u, g, h) = At(Margins(a, b), g, h)
  <2>1. (g # n \/ h \notin 1..M) /\ (g \notin 1..i \/ h \notin 1..M)
    BY <1>1, <1>5
  <2> QED
    BY <1>2, <1>4, <2>1
<1>6. ASSUME NEW g \in 1..n, NEW h \in 1..M PROVE At(u, g, h) = Cell(u, g, h, a, b)
  <2>1. CASE g = n
    BY <1>4, <2>1
  <2>2. CASE g # n
    <3>1. g \in 1..i /\ g \in -1..Len(a) /\ h \in -1..M /\ g \in Nat /\ g >= 1 /\ h \in Nat /\ h >= 1
      BY <1>1, <2>2
    <3>2. \A k \in -1..g, l \in -1..h : k \in -1..Len(a) /\ l \in -1..M /\ k # n
      BY <1>1, <2>2
    <3>3. \A k \in -1..g, l \in -1..h : k < g \/ l < h => At(t, k, l) = At(u, k, l)
      BY <1>4, <3>2
    <3>4. Cell(t, g, h, a, b) = Cell(u, g, h, a, b)
      BY <3>1, <3>3, CellReads
    <3>5. At(u, g, h) = At(t, g, h)
      BY <1>4, <2>2, <3>1
    <3> QED
      BY <1>2, <3>1, <3>4, <3>5
  <2> QED
    BY <2>1, <2>2
<1> QED
  BY <1>4, <1>5, <1>6 DEF Complete, M, u, n

LEMMA MarginsAre ==
    ASSUME NEW a, NEW b, Len(a) \in Nat, Len(b) \in Nat
    PROVE  /\ Grid(Margins(a, b), a, b)
           /\ \A j \in 0..Len(b) : At(Margins(a, b), 0, j) = j
           /\ \A i \in 0..Len(a) : At(Margins(a, b), i, 0) = i
           /\ \A j \in -1..Len(b) : At(Margins(a, b), -1, j) = Len(a) + Len(b)
           /\ \A i \in -1..Len(a) : At(Margins(a, b), i, -1) = Len(a) + Len(b)
<1> DEFINE N == Len(a)
           M == Len(b)
           m == [ij \in (-1..N) \X (-1..M) |->
                    IF ij[1] = -1 \/ ij[2] = -1 THEN N + M ELSE IF ij[1] = 0 THEN ij[2] ELSE ij[1]]
<1>1. Margins(a, b) = m
  BY DEF Margins
<1>2. N \in Nat /\ M \in Nat
  OBVIOUS
<1> HIDE DEF N, M
<1>3. m \in [(-1..N) \X (-1..M) -> Int]
  <2>1. \A ij \in (-1..N) \X (-1..M) : ij[1] \in Int /\ ij[2] \in Int /\ N + M \in Int
    BY <1>2
  <2> QED
    BY <2>1
<1>4. \A i \in -1..N, j \in -1..M : m[<<i, j>>] = IF i = -1 \/ j = -1 THEN N + M ELSE IF i = 0 THEN j ELSE i
  OBVIOUS
<1> HIDE DEF m
<1>5. Grid(m, a, b)
  BY <1>3 DEF Grid, Cells, N, M
<1>6. \A j \in 0..M : At(m, 0, j) = j
  <2>1. \A j \in 0..M : 0 \in -1..N /\ j \in -1..M /\ 0 # -1 /\ j # -1
    BY <1>2
  <2> QED
    BY <1>4, <2>1 DEF At
<1>7. \A i \in 0..N : At(m, i, 0) = i
  <2>1. \A i \in 0..N : 0 \in -1..M /\ i \in -1..N /\ 0 # -1 /\ i # -1
    BY <1>2
  <2> QED
    BY <1>4, <2>1 DEF At
<1>8. \A j \in -1..M : At(m, -1, j) = N + M
  <2>1. -1 \in -1..N
    BY <1>2
  <2> QED
    BY <1>4, <2>1 DEF At
<1>9. \A i \in -1..N : At(m, i, -1) = N + M
  <2>1. -1 \in -1..M
    BY <1>2
  <2> QED
    BY <1>4, <2>1 DEF At
<1> QED
  BY <1>1, <1>5, <1>6, <1>7, <1>8, <1>9 DEF N, M

LEMMA CompleteTable ==
    ASSUME NEW a, NEW b, Len(a) \in Nat, Len(b) \in Nat
    PROVE  \E t : Complete(t, Len(a), a, b) /\ DamerauLevenshtein(a, b) = At(t, Len(a), Len(b))
<1> DEFINE N == Len(a)
           S == [Cells(a, b) -> Int]
           base == Margins(a, b)
           Solves(f) == f = [i \in 0..N |-> IF i = 0 THEN base ELSE FillRow(f[i - 1], i, a, b)]
           d == CHOOSE f : Solves(f)
           step == [i \in 1..N |-> [x \in S |-> FillRow(x, i, a, b)]]
<1>1. DamerauLevenshtein(a, b) = d[N][<<N, Len(b)>>]
  BY DEF DamerauLevenshtein
<1>2. N \in Nat /\ base \in S
  BY MarginsAre DEF Grid
<1>3. \A i \in 1..N, x \in S : FillRow(x, i, a, b) \in S
  <2> SUFFICES ASSUME NEW i \in 1..N, NEW x, Grid(x, a, b) PROVE FillRow(x, i, a, b) \in S
    BY DEF Grid
  <2>1. Filled(FillRow(x, i, a, b), x, i, Len(b), a, b)
    BY FillRowIs
  <2> QED
    BY <2>1 DEF Filled
<1> HIDE DEF S, base
<1>4. step \in [1..N -> [S -> S]] /\ \A i \in 1..N, x \in S : step[i][x] = FillRow(x, i, a, b)
  <2>1. \A i \in 1..N : [x \in S |-> FillRow(x, i, a, b)] \in [S -> S]
    BY <1>3
  <2>2. \A i \in 1..N : step[i] = [x \in S |-> FillRow(x, i, a, b)]
    OBVIOUS
  <2>3. step \in [1..N -> [S -> S]]
    BY <2>1
  <2> HIDE DEF step
  <2>4. ASSUME NEW i \in 1..N, NEW x \in S PROVE step[i][x] = FillRow(x, i, a, b)
    BY <2>2
  <2> QED
    BY <2>3, <2>4
<1> HIDE DEF step
<1>5. PICK h \in [0..N -> S] : h[0] = base /\ \A i \in 1..N : h[i] = step[i][h[i - 1]]
  <2>1. Advances(step, N, S)
    BY <1>4 DEF Advances
  <2>2. HasLoop(S, base, N, step)
    BY <1>2, <2>1, LoopOf
  <2> QED
    BY <2>2 DEF HasLoop
<1>6. \A i \in 1..N : h[i] = FillRow(h[i - 1], i, a, b)
  <2> SUFFICES ASSUME NEW i \in 1..N PROVE h[i] = FillRow(h[i - 1], i, a, b)
    OBVIOUS
  <2>1. h[i - 1] \in S
    OBVIOUS
  <2> QED
    BY <1>4, <1>5, <2>1
<1>7. Solves(h)
  <2>1. h = [i \in 0..N |-> h[i]]
    OBVIOUS
  <2>2. \A i \in 0..N : h[i] = IF i = 0 THEN base ELSE FillRow(h[i - 1], i, a, b)
    BY <1>5, <1>6
  <2> QED
    BY <2>1, <2>2
<1>8. Solves(d)
  <2> HIDE DEF Solves
  <2> QED
    BY <1>7
<1> HIDE DEF d
<1>9. d[0] = base /\ \A i \in 1..N : d[i] = FillRow(d[i - 1], i, a, b)
  BY <1>2, <1>8
<1> HIDE DEF Solves
<1> DEFINE X == {i \in Nat : i <= N => Complete(d[i], i, a, b)}
<1>10. 0 \in X
  <2>1. Complete(base, 0, a, b)
    BY <1>2 DEF Complete, S, base
  <2> QED
    BY <1>9, <2>1
<1>11. ASSUME NEW i \in Nat, i \in X PROVE i + 1 \in X
  <2> SUFFICES ASSUME i + 1 <= N PROVE Complete(d[i + 1], i + 1, a, b)
    OBVIOUS
  <2>1. i + 1 \in 1..N /\ (i + 1) - 1 = i /\ i <= N
    BY <1>2
  <2>2. Complete(d[i], i, a, b)
    BY <1>11, <2>1
  <2>3. d[i + 1] = FillRow(d[i], i + 1, a, b)
    BY <1>9, <2>1
  <2>4. Complete(FillRow(d[i], i + 1, a, b), i + 1, a, b)
    BY <2>2, RowCompletes
  <2> QED
    BY <2>3, <2>4
<1> HIDE DEF X
<1>12. Nat \subseteq X
  BY <1>10, <1>11, InductionOverSet
<1>13. Complete(d[N], N, a, b)
  <2>1. N \in X /\ N <= N
    BY <1>2, <1>12
  <2> QED
    BY <2>1 DEF X
<1>14. DamerauLevenshtein(a, b) = At(d[N], N, Len(b))
  BY <1>1 DEF At
<1> QED
  BY <1>13, <1>14

LEMMA LeastOfFour ==
    ASSUME NEW x \in Int, NEW y \in Int, NEW z \in Int, NEW w \in Int, NEW v,
           v = Least(Least(x, Least(y, z)), w)
    PROVE  v \in {x, y, z, w} /\ v <= x /\ v <= y /\ v <= z /\ v <= w
<1> DEFINE m == Least(y, z)
           n == Least(x, m)
<1>1. m \in {y, z} /\ m <= y /\ m <= z
  BY LeastIs
<1> HIDE DEF m
<1>2. m \in Int
  BY <1>1
<1>3. n \in {x, m} /\ n <= x /\ n <= m
  BY <1>2, LeastIs
<1>4. v = Least(n, w)
  BY DEF n, m
<1> HIDE DEF n
<1>5. n \in Int
  BY <1>2, <1>3
<1>6. v \in {n, w} /\ v <= n /\ v <= w
  BY <1>4, <1>5, LeastIs
<1> QED
  BY <1>1, <1>2, <1>3, <1>5, <1>6

\* A cell is the least of four ways to it, the fourth over the letters at p and q.
FourWays(t, a, b, i, j, p, q) ==
    /\ At(t, i, j) <= At(t, i - 1, j - 1) + Cost(a[i], b[j])
    /\ At(t, i, j) <= At(t, i, j - 1) + 1
    /\ At(t, i, j) <= At(t, i - 1, j) + 1
    /\ At(t, i, j) <= At(t, p - 1, q - 1) + (i - p) + (j - q) - 1
    /\ \/ At(t, i, j) = At(t, i - 1, j - 1) + Cost(a[i], b[j])
       \/ At(t, i, j) = At(t, i, j - 1) + 1
       \/ At(t, i, j) = At(t, i - 1, j) + 1
       \/ At(t, i, j) = At(t, p - 1, q - 1) + (i - p) + (j - q) - 1

LEMMA FourWaysAre ==
    ASSUME NEW a, NEW b, Len(a) \in Nat, Len(b) \in Nat, NEW t, Complete(t, Len(a), a, b),
           NEW i \in 1..Len(a), NEW j \in 1..Len(b)
    PROVE  \E p, q : LastPair(a, b, i, j, p, q) /\ FourWays(t, a, b, i, j, p, q)
<1>1. i \in Nat /\ j \in Nat /\ i >= 1 /\ j >= 1
  OBVIOUS
<1>2. PICK p, q : LastPair(a, b, i, j, p, q) /\ \A d : Cell(d, i, j, a, b) = CellFrom(d, i, j, p, q, a, b)
  BY <1>1, PairIs
<1>3. p \in 0..i - 1 /\ q \in 0..j - 1
  BY <1>2 DEF LastPair
<1>4. t \in [Cells(a, b) -> Int] /\ At(t, i, j) = Cell(t, i, j, a, b)
  BY DEF Complete
<1>5. \A g \in -1..Len(a), h \in -1..Len(b) : At(t, g, h) \in Int
  BY <1>4 DEF At, Cells
<1> DEFINE u == At(t, i - 1, j - 1)
           y == At(t, i, j - 1)
           z == At(t, i - 1, j)
           w == At(t, p - 1, q - 1)
           v == At(t, i, j)
           c == Cost(a[i], b[j])
<1>6. /\ i - 1 \in -1..Len(a) /\ j - 1 \in -1..Len(b) /\ i \in -1..Len(a) /\ j \in -1..Len(b)
      /\ p - 1 \in -1..Len(a) /\ q - 1 \in -1..Len(b)
  BY <1>1, <1>3
<1>7. u \in Int /\ y \in Int /\ z \in Int /\ w \in Int /\ v \in Int
  BY <1>5, <1>6
<1>8. c \in Nat
  BY CostIs
<1>9. v = Least(Least(u + c, Least(y + 1, z + 1)), w + ((i - p - 1) + 1 + (j - q - 1)))
  BY <1>2, <1>4 DEF CellFrom
<1> HIDE DEF u, y, z, w, v, c
<1> DEFINE s == (i - p - 1) + 1 + (j - q - 1)
           r == w + s
<1>10. s \in Int /\ r \in Int /\ r = w + (i - p) + (j - q) - 1 /\ u + c \in Int /\ y + 1 \in Int /\ z + 1 \in Int
  BY <1>1, <1>3, <1>7, <1>8
<1>11. v = Least(Least(u + c, Least(y + 1, z + 1)), r)
  BY <1>9
<1> HIDE DEF s, r
<1>12. v \in {u + c, y + 1, z + 1, r} /\ v <= u + c /\ v <= y + 1 /\ v <= z + 1 /\ v <= r
  BY <1>10, <1>11, LeastOfFour
<1>13. FourWays(t, a, b, i, j, p, q)
  BY <1>10, <1>12 DEF FourWays, u, y, z, w, v, c
<1> QED
  BY <1>2, <1>13

\* What is around the cells.
Framed(t, n, m) ==
    /\ \A j \in 0..m : At(t, 0, j) = j
    /\ \A i \in 0..n : At(t, i, 0) = i
    /\ \A j \in -1..m : At(t, -1, j) = n + m
    /\ \A i \in -1..n : At(t, i, -1) = n + m

LEMMA FrameIs ==
    ASSUME NEW a, NEW b, Len(a) \in Nat, Len(b) \in Nat, NEW t, Complete(t, Len(a), a, b)
    PROVE  Framed(t, Len(a), Len(b))
<1> DEFINE N == Len(a)
           M == Len(b)
           m == Margins(a, b)
<1>1. /\ \A j \in 0..M : At(m, 0, j) = j
      /\ \A i \in 0..N : At(m, i, 0) = i
      /\ \A j \in -1..M : At(m, -1, j) = N + M
      /\ \A i \in -1..N : At(m, i, -1) = N + M
  BY MarginsAre
<1>2. \A g \in -1..N, h \in -1..M : g \notin 1..N \/ h \notin 1..M => At(t, g, h) = At(m, g, h)
  BY DEF Complete
<1>0. N \in Nat /\ M \in Nat
  OBVIOUS
<1> HIDE DEF N, M, m
<1>3. \A j \in -1..M : 0 \in -1..N /\ 0 \notin 1..N /\ -1 \in -1..N /\ -1 \notin 1..N
  BY <1>0
<1>4. \A i \in -1..N : 0 \in -1..M /\ 0 \notin 1..M /\ -1 \in -1..M /\ -1 \notin 1..M
  BY <1>0
<1>5. (\A j \in 0..M : j \in -1..M) /\ (\A i \in 0..N : i \in -1..N)
  BY <1>0
<1>6. \A j \in 0..M : At(t, 0, j) = j
  BY <1>1, <1>2, <1>3, <1>5
<1>7. \A i \in 0..N : At(t, i, 0) = i
  BY <1>1, <1>2, <1>4, <1>5
<1>8. \A j \in -1..M : At(t, -1, j) = N + M
  BY <1>1, <1>2, <1>3
<1>9. \A i \in -1..N : At(t, i, -1) = N + M
  BY <1>1, <1>2, <1>4
<1> QED
  BY <1>6, <1>7, <1>8, <1>9 DEF Framed, N, M

\* No cell is more than all the letters before it.
LEMMA CellsAreSmall ==
    ASSUME NEW a, NEW b, Len(a) \in Nat, Len(b) \in Nat, NEW t, Complete(t, Len(a), a, b)
    PROVE  \A i \in 0..Len(a), j \in 0..Len(b) : At(t, i, j) \in Int /\ At(t, i, j) <= i + j
<1> DEFINE N == Len(a)
           M == Len(b)
<1>1. \A i \in 0..N, j \in 0..M : At(t, i, j) \in Int
  <2>1. t \in [Cells(a, b) -> Int]
    BY DEF Complete
  <2> QED
    BY <2>1 DEF At, Cells
<1>2. Framed(t, N, M)
  BY FrameIs
<1>3. \A i \in 1..N, j \in 1..M : At(t, i, j) <= At(t, i, j - 1) + 1
  BY FourWaysAre DEF FourWays
<1>4. N \in Nat /\ M \in Nat
  OBVIOUS
<1> SUFFICES ASSUME NEW i \in 0..N PROVE \A j \in 0..M : At(t, i, j) <= i + j
  BY <1>1
<1> HIDE DEF N, M
<1>5. CASE i = 0
  <2>1. \A j \in 0..M : At(t, 0, j) = j
    BY <1>2 DEF Framed
  <2> QED
    BY <1>4, <1>5, <2>1
<1>6. CASE i # 0
  <2> DEFINE X == {j \in Nat : j <= M => At(t, i, j) <= i + j}
  <2>1. i \in 1..N /\ i \in Nat
    BY <1>4, <1>6
  <2>2. 0 \in X
    <3>1. At(t, i, 0) = i
      BY <1>2 DEF Framed
    <3> QED
      BY <2>1, <3>1
  <2>3. ASSUME NEW j \in Nat, j \in X PROVE j + 1 \in X
    <3> SUFFICES ASSUME j + 1 <= M PROVE At(t, i, j + 1) <= i + (j + 1)
      OBVIOUS
    <3> DEFINE n == j + 1
               u == At(t, i, j)
               v == At(t, i, n)
    <3>1. n \in 1..M /\ n - 1 = j /\ j <= M /\ j \in 0..M /\ n \in 0..M /\ n = j + 1
      BY <1>4
    <3>2. u \in Int /\ v \in Int /\ u <= i + j
      BY <1>1, <2>3, <3>1
    <3>3. v <= u + 1
      <4>1. At(t, i, n) <= At(t, i, n - 1) + 1
        BY <1>3, <2>1, <3>1
      <4> QED
        BY <3>1, <4>1
    <3> HIDE DEF u, v, n
    <3>4. v <= i + n
      BY <2>1, <3>1, <3>2, <3>3
    <3> QED
      BY <3>4 DEF v, n
  <2> HIDE DEF X
  <2>4. Nat \subseteq X
    BY <2>2, <2>3, InductionOverSet
  <2>5. ASSUME NEW j \in 0..M PROVE At(t, i, j) <= i + j
    <3>1. j \in Nat /\ j <= M
      BY <1>4
    <3> QED
      BY <2>4, <3>1 DEF X
  <2> QED
    BY <2>5
<1> QED
  BY <1>5, <1>6

LEMMA CellsAreNumbers ==
    ASSUME NEW a, NEW b, Len(a) \in Nat, Len(b) \in Nat, NEW t, Complete(t, Len(a), a, b)
    PROVE  \A i \in 0..Len(a), j \in 0..Len(b) : At(t, i, j) \in Nat
<1> DEFINE N == Len(a)
           M == Len(b)
           X == {n \in Nat : \A i \in 0..N, j \in 0..M : i + j <= n => At(t, i, j) \in Nat}
<1>1. \A i \in 0..N, j \in 0..M : At(t, i, j) \in Int
  BY CellsAreSmall
<1>2. Framed(t, N, M)
  BY FrameIs
<1>3. N \in Nat /\ M \in Nat
  OBVIOUS
<1>4. \A i \in 1..N, j \in 1..M : \E p, q : LastPair(a, b, i, j, p, q) /\ FourWays(t, a, b, i, j, p, q)
  BY FourWaysAre
<1> HIDE DEF N, M
<1>5. (\A j \in 0..M : At(t, 0, j) \in Nat) /\ (\A i \in 0..N : At(t, i, 0) \in Nat)
  BY <1>2, <1>3 DEF Framed
<1>6. 0 \in X
  <2> SUFFICES ASSUME NEW i \in 0..N, NEW j \in 0..M, i + j <= 0 PROVE At(t, i, j) \in Nat
    OBVIOUS
  <2>1. i = 0
    BY <1>3
  <2> QED
    BY <1>5, <2>1
<1>7. ASSUME NEW n \in Nat, n \in X PROVE n + 1 \in X
  <2> SUFFICES ASSUME NEW i \in 0..N, NEW j \in 0..M, i + j <= n + 1 PROVE At(t, i, j) \in Nat
    OBVIOUS
  <2>1. CASE i = 0 \/ j = 0
    BY <1>5, <2>1
  <2>2. CASE i # 0 /\ j # 0
    <3>1. i \in 1..N /\ j \in 1..M /\ i \in Nat /\ j \in Nat
      BY <1>3, <2>2
    <3>2. PICK p, q : LastPair(a, b, i, j, p, q) /\ FourWays(t, a, b, i, j, p, q)
      BY <1>4, <3>1
    <3>3. p \in 0..i - 1 /\ q \in 0..j - 1
      BY <3>2 DEF LastPair
    <3> DEFINE u == At(t, i - 1, j - 1)
               y == At(t, i, j - 1)
               z == At(t, i - 1, j)
               w == At(t, p - 1, q - 1)
               v == At(t, i, j)
               c == Cost(a[i], b[j])
    <3>4. u \in Nat /\ y \in Nat /\ z \in Nat
      <4>1. i - 1 \in 0..N /\ j - 1 \in 0..M /\ (i - 1) + (j - 1) <= n /\ i + (j - 1) <= n /\ (i - 1) + j <= n
        BY <1>3, <3>1
      <4> QED
        BY <1>7, <4>1
    <3>5. w \in Nat
      <4>1. CASE p = 0
        <5>1. p - 1 = -1 /\ q - 1 \in -1..M
          BY <1>3, <3>1, <3>3, <4>1
        <5>2. w = N + M
          BY <1>2, <5>1 DEF Framed
        <5> QED
          BY <1>3, <5>2
      <4>2. CASE q = 0
        <5>1. q - 1 = -1 /\ p - 1 \in -1..N
          BY <1>3, <3>1, <3>3, <4>2
        <5>2. w = N + M
          BY <1>2, <5>1 DEF Framed
        <5> QED
          BY <1>3, <5>2
      <4>3. CASE p # 0 /\ q # 0
        <5>1. p - 1 \in 0..N /\ q - 1 \in 0..M /\ (p - 1) + (q - 1) <= n
          BY <1>3, <3>1, <3>3, <4>3
        <5> QED
          BY <1>7, <5>1
      <4> QED
        BY <4>1, <4>2, <4>3
    <3>6. c \in Nat
      BY CostIs
    <3>7. v = u + c \/ v = y + 1 \/ v = z + 1 \/ v = w + (i - p) + (j - q) - 1
      BY <3>2 DEF FourWays
    <3> HIDE DEF u, y, z, w, v, c
    <3>8. v \in Nat
      BY <3>1, <3>3, <3>4, <3>5, <3>6, <3>7
    <3> QED
      BY <3>8 DEF v
  <2> QED
    BY <2>1, <2>2
<1> HIDE DEF X
<1>8. Nat \subseteq X
  BY <1>6, <1>7, InductionOverSet
<1>9. ASSUME NEW i \in 0..N, NEW j \in 0..M PROVE At(t, i, j) \in Nat
  <2>1. i + j \in X /\ i + j <= i + j
    BY <1>3, <1>8
  <2> QED
    BY <2>1 DEF X
<1> QED
  BY <1>9 DEF N, M

\* Where a cell comes from.
LEMMA OriginFrom ==
    ASSUME NEW a, NEW b, Len(a) \in Nat, Len(b) \in Nat, NEW t, Complete(t, Len(a), a, b),
           NEW i \in 1..Len(a), NEW j \in 1..Len(b)
    PROVE  \/ FromLeft(t, i, j)
           \/ FromAbove(t, i, j)
           \/ SameLetter(t, a, b, i, j)
           \/ Substituted(t, i, j)
           \/ \E p \in 1..i - 1, q \in 1..j - 1 : Crossed(t, a, b, i, j, p, q)
<1> DEFINE N == Len(a)
           M == Len(b)
<1>1. \A g \in 0..N, h \in 0..M : At(t, g, h) \in Nat
  BY CellsAreNumbers
<1>2. \A g \in 0..N, h \in 0..M : At(t, g, h) <= g + h
  BY CellsAreSmall
<1>3. Framed(t, N, M)
  BY FrameIs
<1>4. PICK p, q : LastPair(a, b, i, j, p, q) /\ FourWays(t, a, b, i, j, p, q)
  BY FourWaysAre
<1>5. N \in Nat /\ M \in Nat /\ i \in 1..N /\ j \in 1..M
  OBVIOUS
<1> HIDE DEF N, M
<1>6. /\ p \in 0..i - 1 /\ q \in 0..j - 1
      /\ p # 0 => a[p] = b[j]
      /\ q # 0 => b[q] = a[i]
  BY <1>4 DEF LastPair
<1>7. i > 0 /\ j > 0 /\ i \in Nat /\ j \in Nat
  BY <1>5
<1> DEFINE u == At(t, i - 1, j - 1)
           y == At(t, i, j - 1)
           w == At(t, p - 1, q - 1)
           v == At(t, i, j)
           c == Cost(a[i], b[j])
<1>8. /\ v <= y + 1
      /\ \/ v = u + c
         \/ v = y + 1
         \/ v = At(t, i - 1, j) + 1
         \/ v = w + (i - p) + (j - q) - 1
  BY <1>4 DEF FourWays
<1>9. CASE v = y + 1
  <2>1. FromLeft(t, i, j)
    BY <1>7, <1>9 DEF FromLeft
  <2> QED
    BY <2>1
<1>10. CASE v = At(t, i - 1, j) + 1
  <2>1. FromAbove(t, i, j)
    BY <1>7, <1>10 DEF FromAbove
  <2> QED
    BY <2>1
<1>11. CASE v = u + c
  <2>1. u \in Nat
    <3>1. i - 1 \in 0..N /\ j - 1 \in 0..M
      BY <1>5
    <3> QED
      BY <1>1, <3>1
  <2>2. c \in Nat /\ (a[i] = b[j] => c = 0) /\ (a[i] # b[j] => c = 1)
    BY CostIs
  <2>3. CASE a[i] = b[j]
    <3> HIDE DEF u, v, c
    <3>1. v = u
      BY <1>11, <2>1, <2>2, <2>3
    <3>2. SameLetter(t, a, b, i, j)
      BY <1>7, <2>3, <3>1 DEF SameLetter, u, v
    <3> QED
      BY <3>2
  <2>4. CASE a[i] # b[j]
    <3> HIDE DEF u, v, c
    <3>1. v = u + 1
      BY <1>11, <2>1, <2>2, <2>4
    <3>2. Substituted(t, i, j)
      BY <1>7, <3>1 DEF Substituted, u, v
    <3> QED
      BY <3>2
  <2> QED
    BY <2>3, <2>4
<1>12. CASE v = w + (i - p) + (j - q) - 1
  <2>1. y \in Nat /\ y <= i + (j - 1)
    <3>1. i \in 0..N /\ j - 1 \in 0..M
      BY <1>5
    <3> QED
      BY <1>1, <1>2, <3>1
  <2>2. CASE p = 0 \/ q = 0
    <3>1. w = N + M
      <4>1. CASE p = 0
        <5>1. p - 1 = -1 /\ q - 1 \in -1..M
          BY <1>5, <1>6, <4>1
        <5> QED
          BY <1>3, <5>1 DEF Framed
      <4>2. CASE q = 0
        <5>1. q - 1 = -1 /\ p - 1 \in -1..N
          BY <1>5, <1>6, <4>2
        <5> QED
          BY <1>3, <5>1 DEF Framed
      <4> QED
        BY <2>2, <4>1, <4>2
    <3>2. i <= N /\ j <= M /\ i - p >= 1 /\ j - q >= 1 /\ p \in Int /\ q \in Int
      BY <1>5, <1>6, <1>7
    <3>3. v <= y + 1 /\ v = w + (i - p) + (j - q) - 1
      BY <1>8, <1>12
    <3> HIDE DEF y, w, v
    <3>4. FALSE
      BY <1>5, <1>7, <2>1, <3>1, <3>2, <3>3
    <3> QED
      BY <3>4
  <2>3. CASE p # 0 /\ q # 0
    <3>1. p \in 1..i - 1 /\ q \in 1..j - 1
      BY <1>6, <1>7, <2>3
    <3>2. Across(a, b, i, j, p, q)
      BY <1>6, <2>3, <3>1 DEF Across
    <3>3. Crossed(t, a, b, i, j, p, q)
      BY <1>12, <3>2 DEF Crossed
    <3> QED
      BY <3>1, <3>3
  <2> QED
    BY <2>2, <2>3
<1> QED
  BY <1>8, <1>9, <1>10, <1>11, <1>12

LEMMA CompleteIsSteady ==
    ASSUME NEW a, NEW b, Len(a) \in Nat, Len(b) \in Nat, NEW t, Complete(t, Len(a), a, b)
    PROVE  Steady(t, a, b)
<1> DEFINE N == Len(a)
           M == Len(b)
<1>1. \A i \in 0..N, j \in 0..M : At(t, i, j) \in Nat
  BY CellsAreNumbers
<1>2. Framed(t, N, M)
  BY FrameIs
<1>3. \A i \in 1..N, j \in 1..M : At(t, i, j) <= At(t, i, j - 1) + 1 /\ At(t, i, j) <= At(t, i - 1, j) + 1
  BY FourWaysAre DEF FourWays
<1>4. N \in Nat /\ M \in Nat
  OBVIOUS
<1> HIDE DEF N, M
<1>5. ASSUME NEW i \in 0..N, NEW j \in 1..M PROVE At(t, i, j) <= At(t, i, j - 1) + 1
  <2>1. CASE i = 0
    <3>1. j \in 0..M /\ j - 1 \in 0..M
      BY <1>4
    <3>2. At(t, 0, j) = j /\ At(t, 0, j - 1) = j - 1
      BY <1>2, <3>1 DEF Framed
    <3> QED
      BY <2>1, <3>2
  <2>2. CASE i # 0
    <3>1. i \in 1..N
      BY <1>4, <2>2
    <3> QED
      BY <1>3, <3>1
  <2> QED
    BY <2>1, <2>2
<1>6. ASSUME NEW i \in 1..N, NEW j \in 0..M PROVE At(t, i, j) <= At(t, i - 1, j) + 1
  <2>1. CASE j = 0
    <3>1. i \in 0..N /\ i - 1 \in 0..N
      BY <1>4
    <3>2. At(t, i, 0) = i /\ At(t, i - 1, 0) = i - 1
      BY <1>2, <3>1 DEF Framed
    <3> QED
      BY <2>1, <3>2
  <2>2. CASE j # 0
    <3>1. j \in 1..M
      BY <1>4, <2>2
    <3> QED
      BY <1>3, <3>1
  <2> QED
    BY <2>1, <2>2
<1> QED
  BY <1>1, <1>4, <1>5, <1>6 DEF Steady, N, M

\* No swap at all is better than that of the last letters of their kind.
LEMMA LastPairIsBest ==
    ASSUME NEW a, NEW b, Len(a) \in Nat, Len(b) \in Nat, NEW t, Complete(t, Len(a), a, b),
           NEW i \in 1..Len(a), NEW j \in 1..Len(b), NEW r \in 1..i - 1, NEW s \in 1..j - 1,
           Across(a, b, i, j, r, s)
    PROVE  At(t, i, j) <= At(t, r - 1, s - 1) + (i - r) + (j - s) - 1
<1>1. PICK p, q : LastPair(a, b, i, j, p, q) /\ FourWays(t, a, b, i, j, p, q)
  BY FourWaysAre
<1>2. /\ p \in 0..i - 1 /\ q \in 0..j - 1
      /\ \A k \in 1..i - 1 : a[k] = b[j] => k <= p
      /\ \A k \in 1..j - 1 : b[k] = a[i] => k <= q
  BY <1>1 DEF LastPair
<1>3. r <= p /\ s <= q
  BY <1>2 DEF Across
<1> DEFINE u == At(t, r - 1, s - 1)
           w == At(t, p - 1, q - 1)
           v == At(t, i, j)
           k == r - 1
           l == s - 1
           g == p - 1
           h == q - 1
           x == u + (g - k) + (h - l)
<1>4. /\ k \in 0..Len(a) /\ l \in 0..Len(b) /\ g \in k..Len(a) /\ h \in l..Len(b)
      /\ g \in 0..Len(a) /\ h \in 0..Len(b) /\ i \in 0..Len(a) /\ j \in 0..Len(b)
      /\ k = r - 1 /\ l = s - 1 /\ g = p - 1 /\ h = q - 1
      /\ i \in Int /\ j \in Int /\ r \in Int /\ s \in Int /\ p \in Int /\ q \in Int
  BY <1>2, <1>3
<1>5. u \in Nat /\ w \in Nat /\ v \in Nat
  BY <1>4, CellsAreNumbers
<1>6. v <= w + (i - p) + (j - q) - 1
  BY <1>1 DEF FourWays
<1>7. AtMost(t, k, l, u)
  <2>1. At(t, k, l) = u
    OBVIOUS
  <2> HIDE DEF u
  <2> QED
    BY <1>5, <2>1 DEF AtMost
<1> HIDE DEF u, w, v, k, l, g, h
<1>8. x \in Int /\ u + (g - k) + (h - l) <= x /\ u \in Int
  BY <1>4, <1>5
<1> HIDE DEF x
<1>9. Steady(t, a, b)
  BY CompleteIsSteady
<1>10. AtMost(t, g, h, x)
  <2>1. /\ k \in 0..Len(a) /\ l \in 0..Len(b) /\ g \in k..Len(a) /\ h \in l..Len(b) /\ u \in Int /\ x \in Int
        /\ AtMost(t, k, l, u) /\ u + (g - k) + (h - l) <= x /\ Steady(t, a, b)
    BY <1>4, <1>7, <1>8, <1>9
  <2> QED
    BY <2>1, SteadyWalk
<1>11. w <= x
  BY <1>10 DEF AtMost, w, g, h
<1>12. x = u + (p - r) + (q - s)
  BY <1>4, <1>5 DEF x
<1>13. v <= u + (i - r) + (j - s) - 1
  <2>1. i \in Int /\ j \in Int /\ r \in Int /\ s \in Int /\ p \in Int /\ q \in Int
    BY <1>4
  <2> QED
    BY <1>5, <1>6, <1>11, <1>12, <2>1
<1> QED
  BY <1>13 DEF u, v

LEMMA DamerauTable ==
    ASSUME NEW a, NEW b, Len(a) \in Nat, Len(b) \in Nat
    PROVE  \E d : Table(d, a, b, "damerau") /\ DamerauLevenshtein(a, b) = At(d, Len(a), Len(b))
<1>1. PICK t : Complete(t, Len(a), a, b) /\ DamerauLevenshtein(a, b) = At(t, Len(a), Len(b))
  BY CompleteTable
<1> DEFINE N == Len(a)
           M == Len(b)
<1>2. Steady(t, a, b)
  BY <1>1, CompleteIsSteady
<1>3. Framed(t, N, M)
  BY <1>1, FrameIs
<1>4. \A i \in 1..N, j \in 1..M : At(t, i, j) <= At(t, i - 1, j - 1) + Cost(a[i], b[j])
  BY <1>1, FourWaysAre DEF FourWays
<1>5. \A i \in 1..N, j \in 1..M : \A r \in 1..i - 1, s \in 1..j - 1 :
         Across(a, b, i, j, r, s) => At(t, i, j) <= At(t, r - 1, s - 1) + (i - r) + (j - s) - 1
  BY <1>1, LastPairIsBest
<1>6. ASSUME NEW i \in 0..N, NEW j \in 0..M
      PROVE  \/ i = 0 /\ j = 0
             \/ FromLeft(t, i, j)
             \/ FromAbove(t, i, j)
             \/ SameLetter(t, a, b, i, j)
             \/ Substituted(t, i, j)
             \/ Crossing("damerau") /\ \E p \in 1..i - 1, q \in 1..j - 1 : Crossed(t, a, b, i, j, p, q)
  <2>0. N \in Nat /\ M \in Nat
    OBVIOUS
  <2>1. CASE i = 0 /\ j > 0
    <3> HIDE DEF N, M
    <3>1. j \in 0..M /\ j - 1 \in 0..M
      BY <2>0, <2>1
    <3>2. At(t, 0, j) = j /\ At(t, 0, j - 1) = j - 1
      BY <1>3, <3>1 DEF Framed
    <3>3. FromLeft(t, i, j)
      BY <2>1, <3>1, <3>2 DEF FromLeft
    <3> QED
      BY <3>3
  <2>2. CASE i > 0 /\ j = 0
    <3> HIDE DEF N, M
    <3>1. i \in 0..N /\ i - 1 \in 0..N
      BY <2>0, <2>2
    <3>2. At(t, i, 0) = i /\ At(t, i - 1, 0) = i - 1
      BY <1>3, <3>1 DEF Framed
    <3>3. FromAbove(t, i, j)
      BY <2>2, <3>1, <3>2 DEF FromAbove
    <3> QED
      BY <3>3
  <2>3. CASE i > 0 /\ j > 0
    <3>1. i \in 1..N /\ j \in 1..M
      BY <2>0, <2>3
    <3>2. Crossing("damerau")
      BY DEF Crossing
    <3> QED
      BY <1>1, <3>1, <3>2, OriginFrom
  <2>4. i \in Nat /\ j \in Nat
    BY <2>0
  <2> QED
    BY <2>1, <2>2, <2>3, <2>4
<1>7. At(t, 0, 0) = 0
  BY <1>3 DEF Framed
<1>8. /\ N \in Nat /\ M \in Nat
      /\ \A i \in 0..N, j \in 0..M : At(t, i, j) \in Nat
      /\ \A i \in 0..N, j \in 1..M : At(t, i, j) <= At(t, i, j - 1) + 1
      /\ \A i \in 1..N, j \in 0..M : At(t, i, j) <= At(t, i - 1, j) + 1
  BY <1>2 DEF Steady
<1> HIDE DEF N, M
<1>9. Table(t, a, b, "damerau")
  BY <1>4, <1>5, <1>6, <1>7, <1>8 DEF Table, N, M
<1> QED
  BY <1>1, <1>9

LEMMA NeighboursAreWords ==
    ASSUME NEW S, NEW L, NEW b \in Seq(S), NEW kind
    PROVE  \A c \in Neighbours(b, L, kind) : Len(c) \in Nat
<1> SUFFICES ASSUME NEW c \in Neighbours(b, L, kind) PROVE Len(c) \in Nat
  OBVIOUS
<1>1. DOMAIN b = 1..Len(b)
  BY LenProperties
<1>2. CASE c \in Edits(b, L)
  <2>1. \/ \E n \in 1..Len(b) + 1, x \in L : c = InsertAt(b, n, x)
        \/ \E n \in 1..Len(b) : c = RemoveAt(b, n)
        \/ \E n \in 1..Len(b), x \in L : c = ReplaceAt(b, n, x)
    BY <1>1, <1>2 DEF Edits
  <2>2. ASSUME NEW n \in 1..Len(b) + 1, NEW x PROVE Len(InsertAt(b, n, x)) \in Nat
    BY InsertIs
  <2>3. ASSUME NEW n \in 1..Len(b) PROVE Len(RemoveAt(b, n)) \in Nat
    BY RemoveIs
  <2>4. ASSUME NEW n \in 1..Len(b), NEW x PROVE Len(ReplaceAt(b, n, x)) \in Nat
    BY ChangeIs DEF ReplaceAt
  <2> QED
    BY <2>1, <2>2, <2>3, <2>4
<1>3. CASE c \in Swaps(b)
  <2>1. PICK n \in 1..Len(b) - 1 : c = [b EXCEPT ![n] = b[n + 1], ![n + 1] = b[n]]
    BY <1>3 DEF Swaps
  <2>2. Len([b EXCEPT ![n] = b[n + 1], ![n + 1] = b[n]]) \in Nat
    BY SwapIs
  <2> QED
    BY <2>1, <2>2
<1>4. c \in Edits(b, L) \/ c \in Swaps(b)
  BY DEF Neighbours
<1> QED
  BY <1>2, <1>3, <1>4

\* So the distances count the steps: nothing for one word, and for two one more than for
\* the nearest of the neighbours of the other.
Measures(x, a, c, kind) == \E d : Table(d, a, c, kind) /\ x = At(d, Len(a), Len(c))

LEMMA TablesCount ==
    ASSUME NEW L, NEW S, NEW a \in Seq(L), NEW b \in Seq(S), NEW kind, NEW D,
           Measures(D[b], a, b, kind),
           \A c \in Neighbours(b, L, kind) : Measures(D[c], a, c, kind)
    PROVE  /\ a = b => D[b] = 0
           /\ a # b => /\ \A c \in Neighbours(b, L, kind) : D[b] <= D[c] + 1
                       /\ \E c \in Neighbours(b, L, kind) : D[b] = D[c] + 1
<1>1. PICK d : Table(d, a, b, kind) /\ D[b] = At(d, Len(a), Len(b))
  BY DEF Measures
<1>2. Len(a) \in 0..Len(a) /\ Len(b) \in 0..Len(b)
  BY LenProperties
<1>3. D[b] \in Nat
  BY <1>1, <1>2, CellIs
<1>4. ASSUME a = b PROVE D[b] = 0
  <2>1. Table(d, a, a, kind) /\ D[b] = At(d, Len(a), Len(a))
    BY <1>1, <1>4
  <2> QED
    BY <2>1, NothingAway
<1>5. ASSUME NEW c \in Neighbours(b, L, kind) PROVE D[b] <= D[c] + 1
  <2>1. PICK e : Table(e, a, c, kind) /\ D[c] = At(e, Len(a), Len(c))
    BY DEF Measures
  <2>2. Within(d, e, Len(a), Len(b), Len(c))
    BY <1>1, <2>1, NoneIsMuchNearer
  <2> QED
    BY <1>1, <2>1, <2>2 DEF Within
<1>6. ASSUME a # b PROVE \E c \in Neighbours(b, L, kind) : D[b] = D[c] + 1
  <2>1. Nearer(a, b, L, kind, At(d, Len(a), Len(b)) - 1)
    BY <1>1, <1>6, OneIsNearer
  <2>2. PICK c \in Neighbours(b, L, kind) :
           Len(c) \in Nat /\ \A e : Table(e, a, c, kind) => AtMost(e, Len(a), Len(c), D[b] - 1)
    BY <1>1, <2>1 DEF Nearer
  <2>3. PICK e : Table(e, a, c, kind) /\ D[c] = At(e, Len(a), Len(c))
    BY DEF Measures
  <2>4. D[c] <= D[b] - 1
    BY <2>2, <2>3 DEF AtMost
  <2>5. D[c] \in Nat
    <3>1. Len(c) \in 0..Len(c)
      BY <2>2
    <3> QED
      BY <1>2, <2>3, <3>1, CellIs
  <2>6. D[b] <= D[c] + 1
    BY <1>5
  <2>7. D[b] = D[c] + 1
    BY <1>3, <2>4, <2>5, <2>6
  <2> QED
    BY <2>7
<1> QED
  BY <1>4, <1>5, <1>6

LEMMA LevenshteinCounts ==
    ASSUME NEW L, NEW S, NEW a \in Seq(L), NEW b \in Seq(S)
    PROVE  CountsSteps(Levenshtein, a, b, Edits(b, L))
<1> DEFINE E == Edits(b, L)
           D == [c \in E \cup {b} |-> Levenshtein(a, c)]
<1>1. Neighbours(b, L, "levenshtein") = E
  BY DEF Neighbours, Crossing
<1>2. \A c \in E \cup {b} : Len(c) \in Nat
  <2>1. Len(b) \in Nat
    BY LenProperties
  <2>2. \A c \in Neighbours(b, L, "levenshtein") : Len(c) \in Nat
    BY NeighboursAreWords
  <2> HIDE DEF E
  <2> QED
    BY <1>1, <2>1, <2>2
<1>3. Len(a) \in Nat
  BY LenProperties
<1> HIDE DEF E
<1>4. ASSUME NEW c \in E \cup {b} PROVE Measures(Levenshtein(a, c), a, c, "levenshtein")
  BY <1>2, <1>3, LevenshteinTable DEF Measures
<1>5. \A c \in E \cup {b} : D[c] = Levenshtein(a, c)
  OBVIOUS
<1> HIDE DEF D
<1>6. Measures(D[b], a, b, "levenshtein") /\ \A c \in E : Measures(D[c], a, c, "levenshtein")
  BY <1>4, <1>5
<1>7. /\ a = b => D[b] = 0
      /\ a # b => (\A c \in E : D[b] <= D[c] + 1) /\ (\E c \in E : D[b] = D[c] + 1)
  BY <1>1, <1>6, TablesCount
<1>8. /\ a = b => Levenshtein(a, b) = 0
      /\ a # b => (\A c \in E : Levenshtein(a, b) <= Levenshtein(a, c) + 1) /\ (\E c \in E : Levenshtein(a, b) = Levenshtein(a, c) + 1)
  BY <1>5, <1>7
<1> QED
  BY <1>8 DEF CountsSteps, E

LEMMA DamerauLevenshteinCounts ==
    ASSUME NEW L, NEW S, NEW a \in Seq(L), NEW b \in Seq(S)
    PROVE  CountsSteps(DamerauLevenshtein, a, b, Edits(b, L) \cup Swaps(b))
<1> DEFINE E == Edits(b, L) \cup Swaps(b)
           D == [c \in E \cup {b} |-> DamerauLevenshtein(a, c)]
<1>1. Neighbours(b, L, "damerau") = E
  BY DEF Neighbours, Crossing
<1>2. \A c \in E \cup {b} : Len(c) \in Nat
  <2>1. Len(b) \in Nat
    BY LenProperties
  <2>2. \A c \in Neighbours(b, L, "damerau") : Len(c) \in Nat
    BY NeighboursAreWords
  <2> HIDE DEF E
  <2> QED
    BY <1>1, <2>1, <2>2
<1>3. Len(a) \in Nat
  BY LenProperties
<1> HIDE DEF E
<1>4. ASSUME NEW c \in E \cup {b} PROVE Measures(DamerauLevenshtein(a, c), a, c, "damerau")
  BY <1>2, <1>3, DamerauTable DEF Measures
<1>5. \A c \in E \cup {b} : D[c] = DamerauLevenshtein(a, c)
  OBVIOUS
<1> HIDE DEF D
<1>6. Measures(D[b], a, b, "damerau") /\ \A c \in E : Measures(D[c], a, c, "damerau")
  BY <1>4, <1>5
<1>7. /\ a = b => D[b] = 0
      /\ a # b => (\A c \in E : D[b] <= D[c] + 1) /\ (\E c \in E : D[b] = D[c] + 1)
  BY <1>1, <1>6, TablesCount
<1>8. /\ a = b => DamerauLevenshtein(a, b) = 0
      /\ a # b => /\ \A c \in E : DamerauLevenshtein(a, b) <= DamerauLevenshtein(a, c) + 1
                  /\ \E c \in E : DamerauLevenshtein(a, b) = DamerauLevenshtein(a, c) + 1
  BY <1>5, <1>7
<1> QED
  BY <1>8 DEF CountsSteps, E

\* levenshtein is the least number of insertions, removals and substitutions between two
\* words, no more than the places where they differ, and damerau_levenshtein the least
\* number when swaps of neighbours count one as well, for words of any length over any
\* alphabet.
THEOREM DistancesAreSteps == Spec => []DistancesCountEdits
<1>1. Types => DistancesCountEdits
  <2> SUFFICES ASSUME Types, topic = "edits"
               PROVE  /\ CountsSteps(Levenshtein, text, other, Edits(other, Topics[topic].chars))
                      /\ Len(text) = Len(other) => Levenshtein(text, other) <= Hamming(text, other)
                      /\ CountsSteps(DamerauLevenshtein, text, other,
                                     Edits(other, Topics[topic].chars) \cup Swaps(other))
    BY DEF DistancesCountEdits
  <2>1. text \in Seq(Topics[topic].chars) /\ other \in Seq(Topics[topic].otherChars)
    BY DEF Types
  <2>2. CountsSteps(Levenshtein, text, other, Edits(other, Topics[topic].chars))
    BY <2>1, LevenshteinCounts
  <2>3. CountsSteps(DamerauLevenshtein, text, other, Edits(other, Topics[topic].chars) \cup Swaps(other))
    BY <2>1, DamerauLevenshteinCounts
  <2>4. ASSUME Len(text) = Len(other) PROVE Levenshtein(text, other) <= Hamming(text, other)
    <3>1. Len(text) \in Nat /\ Len(other) \in Nat
      BY <2>1, LenProperties
    <3>2. PICK d : Table(d, text, other, "levenshtein") /\ Levenshtein(text, other) = At(d, Len(text), Len(other))
      BY <3>1, LevenshteinTable
    <3>3. At(d, Len(text), Len(other)) <= Hamming(text, other)
      BY <2>1, <2>4, <3>2, DifferencesAreSteps
    <3> QED
      BY <3>2, <3>3
  <2> QED
    BY <2>2, <2>3, <2>4
<1> QED
  BY <1>1, TypesHold, PTL
=============================================================================
