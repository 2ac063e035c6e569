------------------------------ MODULE Induction ------------------------------
(***************************************************************************)
(* Induction over the natural numbers, stated of a set and not of an       *)
(* operator: a set that contains 0 and with every number its successor     *)
(* contains all of them.  With it, functions defined by recursion exist.   *)
(*                                                                         *)
(* Then what needs it of sequences: what a sequence of sequences comes to  *)
(* when they are put together, with something between them or not, and     *)
(* what a text becomes when each of its elements is replaced by a sequence.*)
(***************************************************************************)
EXTENDS SequencesExt, WellFoundedInduction, SequenceTheorems, TLAPS

Less == {p \in Nat \X Nat : p[1] < p[2]}

\* Every nonempty set of natural numbers has a least element.
LEMMA LeastElement ==
    ASSUME NEW T \in SUBSET Nat, T # {}
    PROVE  \E n \in T : \A m \in T : n <= m
<1>1. IsWellFoundedOn(Less, Nat)
  BY NatLessThanWellFounded DEF OpToRel, Less
<1>2. PICK n \in T : \A m \in T : <<m, n>> \notin Less
  BY <1>1, WFMin
<1>3. \A m \in T : <<m, n>> \in Nat \X Nat
  OBVIOUS
<1>4. \A m \in T : ~(m < n)
  BY <1>2, <1>3 DEF Less
<1> QED
  BY <1>4

\* Otherwise the least number outside the set would have a predecessor inside.
THEOREM InductionOverSet ==
    ASSUME NEW S, 0 \in S, \A n \in Nat : n \in S => n + 1 \in S
    PROVE  Nat \subseteq S
<1> SUFFICES ASSUME Nat \ S # {} PROVE FALSE
  OBVIOUS
<1>1. PICK n \in Nat \ S : \A m \in Nat \ S : n <= m
  BY LeastElement
<1>2. n # 0 /\ n - 1 \in Nat
  BY <1>1
<1>3. n - 1 \in S
  BY <1>1, <1>2
<1> QED
  BY <1>1, <1>2, <1>3

\* A loop over 1..L, given by what a round makes of the value before it, has a value
\* after every round.
THEOREM RecursiveFunction ==
    ASSUME NEW S, NEW base \in S, NEW L \in Nat, NEW step \in [1..L -> [S -> S]]
    PROVE  \E h \in [0..L -> S] : h[0] = base /\ \A n \in 1..L : h[n] = step[n][h[n - 1]]
<1> DEFINE Loop(k, h) == h[0] = base /\ \A n \in 1..k : h[n] = step[n][h[n - 1]]
           K == {k \in Nat : k <= L => \E h \in [0..k -> S] : Loop(k, h)}
<1>1. 0 \in K
  <2>1. [n \in 0..0 |-> base] \in [0..0 -> S] /\ Loop(0, [n \in 0..0 |-> base])
    OBVIOUS
  <2> QED
    BY <2>1
<1>2. ASSUME NEW k \in Nat, k \in K
      PROVE  k + 1 \in K
  <2> SUFFICES ASSUME k + 1 <= L
               PROVE  \E h \in [0..k + 1 -> S] : Loop(k + 1, h)
    OBVIOUS
  <2>1. PICK h \in [0..k -> S] : Loop(k, h)
    BY <1>2
  <2> DEFINE g == [n \in 0..k + 1 |-> IF n <= k THEN h[n] ELSE step[k + 1][h[k]]]
  <2>2. h[k] \in S /\ k + 1 \in 1..L
    OBVIOUS
  <2>3. step[k + 1][h[k]] \in S
    BY <2>2
  <2>4. g \in [0..k + 1 -> S]
    BY <2>3
  <2>5. g[0] = base
    BY <2>1
  <2>6. ASSUME NEW n \in 1..k + 1
        PROVE  g[n] = step[n][g[n - 1]]
    <3>1. CASE n <= k
      <4>1. n \in 1..k /\ n - 1 \in 0..k /\ n - 1 <= k
        BY <3>1
      <4>2. g[n] = h[n] /\ g[n - 1] = h[n - 1]
        BY <3>1, <4>1
      <4> QED
        BY <2>1, <4>1, <4>2
    <3>2. CASE n = k + 1
      BY <3>2
    <3> QED
      BY <3>1, <3>2
  <2> QED
    BY <2>4, <2>5, <2>6
<1> HIDE DEF K
<1>3. Nat \subseteq K
  BY <1>1, <1>2, InductionOverSet
<1>4. L \in K
  BY <1>3
<1> QED
  BY <1>4 DEF K

-----------------------------------------------------------------------------
\* What holds of the empty sequence, and with every sequence of those one element longer,
\* holds of every sequence.
LEMMA InductionOverSequences ==
    ASSUME NEW C, NEW X, <<>> \in X, \A s \in Seq(C) : \A c \in C : s \in X => Append(s, c) \in X
    PROVE  Seq(C) \subseteq X
<1> DEFINE K == {n \in Nat : \A s \in Seq(C) : Len(s) = n => s \in X}
<1>1. 0 \in K
  BY EmptySeq
<1>2. ASSUME NEW n \in Nat, n \in K PROVE n + 1 \in K
  <2> SUFFICES ASSUME NEW s \in Seq(C), Len(s) = n + 1 PROVE s \in X
    OBVIOUS
  <2>1. s # <<>>
    BY EmptySeq
  <2>2. PICK r \in Seq(C), c \in C : s = Append(r, c)
    BY <2>1, SequenceEmptyOrAppend
  <2>3. Len(s) = Len(r) + 1 /\ Len(r) \in Nat
    BY <2>2, AppendProperties, LenProperties
  <2>4. r \in X
    BY <1>2, <2>3
  <2> QED
    BY <2>2, <2>4
<1> HIDE DEF K
<1>3. Nat \subseteq K
  BY <1>1, <1>2, InductionOverSet
<1> QED
  BY <1>3, LenProperties DEF K

\* Sequences are put together one after the other: with n of them, the loop has come to h[n].
Cat(r, t) == r \o t

Concatenates(h, seqs, L) == h[0] = <<>> /\ \A n \in 1..L : h[n] = Cat(h[n - 1], seqs[n])

LEMMA LoopExists ==
    ASSUME NEW S, NEW L \in Nat, NEW seqs, <<>> \in S,
           \A n \in 1..L : \A x \in S : Cat(x, seqs[n]) \in S
    PROVE  \E h \in [0..L -> S] : Concatenates(h, seqs, L)
<1> DEFINE step == [n \in 1..L |-> [x \in S |-> Cat(x, seqs[n])]]
           base == <<>>
<1>1. step \in [1..L -> [S -> S]]
  OBVIOUS
<1>2. base \in S
  OBVIOUS
<1> HIDE DEF step, base
<1>3. PICK h \in [0..L -> S] : h[0] = base /\ \A n \in 1..L : h[n] = step[n][h[n - 1]]
  BY <1>1, <1>2, RecursiveFunction
<1>4. \A n \in 1..L : n - 1 \in 0..L
  OBVIOUS
<1>5. \A n \in 1..L : h[n] = Cat(h[n - 1], seqs[n])
  BY <1>3, <1>4 DEF step
<1> QED
  BY <1>3, <1>5 DEF Concatenates, base

\* Two loops over sequences that begin alike go alike.
LEMMA LoopsAgree ==
    ASSUME NEW L \in Nat, NEW f, NEW g, NEW r, NEW t, Concatenates(f, r, L), Concatenates(g, t, L),
           \A n \in 1..L : r[n] = t[n]
    PROVE  f[L] = g[L]
<1> DEFINE K == {n \in Nat : n <= L => f[n] = g[n]}
<1>1. 0 \in K
  BY DEF Concatenates
<1>2. ASSUME NEW n \in Nat, n \in K PROVE n + 1 \in K
  <2> SUFFICES ASSUME n + 1 <= L PROVE f[n + 1] = g[n + 1]
    OBVIOUS
  <2>1. n + 1 \in 1..L /\ n + 1 - 1 = n /\ n <= L
    OBVIOUS
  <2>2. f[n + 1] = Cat(f[n], r[n + 1]) /\ g[n + 1] = Cat(g[n], t[n + 1]) /\ r[n + 1] = t[n + 1]
    BY <2>1 DEF Concatenates
  <2> QED
    BY <1>2, <2>1, <2>2
<1> HIDE DEF K
<1>3. Nat \subseteq K
  BY <1>1, <1>2, InductionOverSet
<1> QED
  BY <1>3 DEF K

LEMMA FlattenLoop ==
    ASSUME NEW T, NEW seqs \in Seq(Seq(T))
    PROVE  \E h \in [0..Len(seqs) -> Seq(T)] : Concatenates(h, seqs, Len(seqs)) /\ FlattenSeq(seqs) = h[Len(seqs)]
<1> DEFINE L == Len(seqs)
           Solves(f) == f = [i \in 1..L |-> IF i = 1 THEN seqs[i] ELSE Cat(f[i - 1], seqs[i])]
           flatten == CHOOSE f : Solves(f)
<1>1. L \in Nat /\ \A n \in 1..L : seqs[n] \in Seq(T)
  BY LenProperties, ElementOfSeq
<1>2. \A n \in 1..L : \A x \in Seq(T) : Cat(x, seqs[n]) \in Seq(T)
  BY <1>1, ConcatProperties DEF Cat
<1>3. FlattenSeq(seqs) = IF L = 0 THEN seqs ELSE flatten[L]
  BY DEF FlattenSeq, Cat
<1> HIDE DEF L
<1>4. <<>> \in Seq(T)
  OBVIOUS
<1>5. PICK h \in [0..L -> Seq(T)] : Concatenates(h, seqs, L)
  BY <1>1, <1>2, <1>4, LoopExists
<1>6. ASSUME NEW n \in 1..L PROVE h[n] = Cat(h[n - 1], seqs[n]) /\ (n = 1 => h[n] = seqs[n])
  <2>1. h[n] = Cat(h[n - 1], seqs[n]) /\ h[0] = <<>>
    BY <1>5 DEF Concatenates
  <2>2. Cat(<<>>, seqs[n]) = seqs[n]
    BY <1>1, ConcatEmptySeq DEF Cat
  <2> QED
    BY <2>1, <2>2
<1>7. Solves([i \in 1..L |-> h[i]])
  <2> DEFINE f == [i \in 1..L |-> h[i]]
  <2>1. \A i \in 1..L : i # 1 => i - 1 \in 1..L
    BY <1>1
  <2>2. \A i \in 1..L : h[i] = IF i = 1 THEN seqs[i] ELSE Cat(f[i - 1], seqs[i])
    BY <1>6, <2>1
  <2> QED
    BY <2>2
<1>8. Solves(flatten)
  BY <1>7
<1> DEFINE more == [n \in 0..L |-> IF n = 0 THEN <<>> ELSE flatten[n]]
<1> HIDE DEF flatten
<1>9. Concatenates(more, seqs, L)
  <2>0. more[0] = <<>>
    BY <1>1
  <2> SUFFICES ASSUME NEW n \in 1..L PROVE more[n] = Cat(more[n - 1], seqs[n])
    BY <2>0 DEF Concatenates
  <2>1. more[n] = flatten[n] /\ n - 1 \in 0..L
    BY <1>1
  <2>2. CASE n = 1
    <3>1. flatten[n] = seqs[n] /\ more[n - 1] = <<>>
      BY <1>8, <2>1, <2>2
    <3>2. Cat(<<>>, seqs[n]) = seqs[n]
      BY <1>1, ConcatEmptySeq DEF Cat
    <3> QED
      BY <2>1, <3>1, <3>2
  <2>3. CASE n # 1
    <3>1. flatten[n] = Cat(flatten[n - 1], seqs[n]) /\ more[n - 1] = flatten[n - 1]
      BY <1>8, <2>1, <2>3
    <3> QED
      BY <2>1, <3>1
  <2> QED
    BY <2>2, <2>3
<1>10. FlattenSeq(seqs) = h[L]
  <2>1. CASE L = 0
    <3>1. seqs = <<>>
      BY <2>1, EmptySeq DEF L
    <3> QED
      BY <1>3, <1>5, <2>1, <3>1 DEF Concatenates
  <2>2. CASE L # 0
    <3>1. more[L] = flatten[L]
      BY <1>1, <2>2
    <3>2. h[L] = more[L]
      <4> HIDE DEF more
      <4> QED
        BY <1>1, <1>5, <1>9, LoopsAgree
    <3> QED
      BY <1>3, <2>2, <3>1, <3>2
  <2> QED
    BY <2>1, <2>2
<1> QED
  BY <1>5, <1>10 DEF L

\* One more sequence is put behind the others.
LEMMA FlattenAppend ==
    ASSUME NEW T
    PROVE  /\ FlattenSeq(<<>>) = <<>>
           /\ \A seqs \in Seq(Seq(T)) :
                /\ FlattenSeq(seqs) \in Seq(T)
                /\ \A x \in Seq(T) : FlattenSeq(Append(seqs, x)) = FlattenSeq(seqs) \o x
<1>1. FlattenSeq(<<>>) = <<>>
  BY DEF FlattenSeq
<1>2. ASSUME NEW seqs \in Seq(Seq(T)) PROVE FlattenSeq(seqs) \in Seq(T)
  <2>1. Len(seqs) \in 0..Len(seqs)
    BY LenProperties
  <2> QED
    BY <2>1, FlattenLoop
<1>3. ASSUME NEW seqs \in Seq(Seq(T)), NEW x \in Seq(T)
      PROVE  FlattenSeq(Append(seqs, x)) = FlattenSeq(seqs) \o x
  <2> DEFINE L == Len(seqs)
             more == Append(seqs, x)
  <2>1. /\ L \in Nat /\ more \in Seq(Seq(T)) /\ Len(more) = L + 1
        /\ \A i \in 1..L : seqs[i] = more[i]
        /\ more[L + 1] = x
    BY AppendProperties, LenProperties
  <2>2. PICK h \in [0..L -> Seq(T)] : Concatenates(h, seqs, L) /\ FlattenSeq(seqs) = h[L]
    BY FlattenLoop
  <2> HIDE DEF more
  <2>3. PICK g \in [0..Len(more) -> Seq(T)] : Concatenates(g, more, Len(more)) /\ FlattenSeq(more) = g[Len(more)]
    BY <2>1, FlattenLoop
  <2> HIDE DEF L
  <2>4. Concatenates(g, more, L)
    BY <2>1, <2>3 DEF Concatenates
  <2>5. h[L] = g[L]
    BY <2>1, <2>2, <2>4, LoopsAgree
  <2>6. L + 1 \in 1..Len(more) /\ L + 1 - 1 = L /\ L \in 0..L
    BY <2>1
  <2>7. g[L + 1] = Cat(g[L], x)
    BY <2>1, <2>3, <2>6 DEF Concatenates
  <2> QED
    BY <2>1, <2>2, <2>3, <2>5, <2>6, <2>7 DEF more, Cat
<1> QED
  BY <1>1, <1>2, <1>3

\* What a text becomes when each element is replaced by a sequence.
Spread(f, t) == FlattenSeq([i \in DOMAIN t |-> f[t[i]]])

Maps(f, C, T) == f \in [C -> Seq(T)]

LEMMA SpreadAppend ==
    ASSUME NEW C, NEW T, NEW f, Maps(f, C, T)
    PROVE  /\ Spread(f, <<>>) = <<>>
           /\ \A c \in C : f[c] \in Seq(T)
           /\ \A t \in Seq(C) : Spread(f, t) \in Seq(T)
           /\ \A t \in Seq(C) : \A c \in C : Spread(f, Append(t, c)) = Spread(f, t) \o f[c]
<1> DEFINE Seqs(t) == [i \in DOMAIN t |-> f[t[i]]]
<1>1. Spread(f, <<>>) = <<>>
  <2>1. [i \in DOMAIN <<>> |-> f[<<>>[i]]] = <<>>
    OBVIOUS
  <2> QED
    BY <2>1, FlattenAppend DEF Spread
<1>2. ASSUME NEW t \in Seq(C)
      PROVE  /\ Seqs(t) \in Seq(Seq(T)) /\ Len(Seqs(t)) = Len(t)
             /\ \A i \in 1..Len(t) : Seqs(t)[i] = f[t[i]]
  <2>1. Len(t) \in Nat /\ DOMAIN t = 1..Len(t) /\ \A i \in 1..Len(t) : t[i] \in C
    BY LenProperties, ElementOfSeq
  <2>2. \A i \in 1..Len(t) : f[t[i]] \in Seq(T)
    BY <2>1 DEF Maps
  <2> QED
    BY <2>1, <2>2
<1>3. \A t : Spread(f, t) = FlattenSeq(Seqs(t))
  BY DEF Spread
<1> HIDE DEF Seqs
<1>4. \A t \in Seq(C) : Spread(f, t) \in Seq(T)
  BY <1>2, <1>3, FlattenAppend
<1>5. \A c \in C : f[c] \in Seq(T)
  BY DEF Maps
<1>6. ASSUME NEW t \in Seq(C), NEW c \in C
      PROVE  Spread(f, Append(t, c)) = Spread(f, t) \o f[c]
  <2> DEFINE u == Append(t, c)
             x == f[c]
  <2>1. /\ Len(t) \in Nat /\ u \in Seq(C) /\ Len(u) = Len(t) + 1
        /\ \A i \in 1..Len(t) : u[i] = t[i]
        /\ u[Len(t) + 1] = c
    BY AppendProperties, LenProperties
  <2>2. x \in Seq(T)
    BY <1>5
  <2>3. x = f[c]
    OBVIOUS
  <2> HIDE DEF u, x
  <2>4. /\ Seqs(t) \in Seq(Seq(T)) /\ Len(Seqs(t)) = Len(t)
        /\ \A i \in 1..Len(t) : Seqs(t)[i] = f[t[i]]
    BY <1>2
  <2>5. /\ Seqs(u) \in Seq(Seq(T)) /\ Len(Seqs(u)) = Len(t) + 1
        /\ \A i \in 1..Len(t) + 1 : Seqs(u)[i] = f[u[i]]
    BY <1>2, <2>1
  <2>6. Seqs(u) = Append(Seqs(t), x)
    <3> DEFINE Q == Seq(T)
               q == Seqs(t)
    <3>0. q \in Seq(Q) /\ x \in Q /\ Len(q) = Len(t)
      BY <2>2, <2>4
    <3>1. /\ Append(Seqs(t), x) \in Seq(Seq(T)) /\ Len(Append(Seqs(t), x)) = Len(t) + 1
          /\ \A i \in 1..Len(t) : Append(Seqs(t), x)[i] = Seqs(t)[i]
          /\ Append(Seqs(t), x)[Len(t) + 1] = x
      <4> HIDE DEF Q, q
      <4>1. /\ Append(q, x) \in Seq(Q) /\ Len(Append(q, x)) = Len(q) + 1
            /\ \A i \in 1..Len(q) : Append(q, x)[i] = q[i]
            /\ Append(q, x)[Len(q) + 1] = x
        BY <3>0, AppendProperties
      <4> QED
        BY <3>0, <4>1 DEF Q, q
    <3>2. \A i \in 1..Len(t) + 1 : i = Len(t) + 1 \/ i \in 1..Len(t)
      BY <2>1
    <3>3. \A i \in 1..Len(t) : Seqs(u)[i] = Append(Seqs(t), x)[i]
      <4> SUFFICES ASSUME NEW i \in 1..Len(t) PROVE Seqs(u)[i] = Append(Seqs(t), x)[i]
        OBVIOUS
      <4>1. i \in 1..Len(t) + 1
        BY <2>1
      <4>2. Seqs(u)[i] = f[u[i]] /\ u[i] = t[i]
        BY <2>1, <2>5, <4>1
      <4> QED
        BY <2>4, <3>1, <4>2
    <3>4. Len(t) + 1 \in 1..Len(t) + 1
      BY <2>1
    <3>5. Seqs(u)[Len(t) + 1] = x
      <4>1. Seqs(u)[Len(t) + 1] = f[u[Len(t) + 1]] /\ u[Len(t) + 1] = c
        BY <2>1, <2>5, <3>4
      <4> QED
        BY <2>3, <4>1
    <3>6. \A i \in 1..Len(t) + 1 : Seqs(u)[i] = Append(Seqs(t), x)[i]
      BY <3>1, <3>2, <3>3, <3>5
    <3> QED
      BY <2>5, <3>1, <3>6, SeqEqual
  <2>7. FlattenSeq(Append(Seqs(t), x)) = FlattenSeq(Seqs(t)) \o x
    BY <2>2, <2>4, FlattenAppend
  <2> QED
    BY <1>3, <2>6, <2>7 DEF u, x
<1> QED
  BY <1>1, <1>4, <1>5, <1>6

\* Element by element, it does not matter where a text is cut.
LEMMA SpreadConcat ==
    ASSUME NEW C, NEW T, NEW f, Maps(f, C, T), NEW r \in Seq(C)
    PROVE  \A t \in Seq(C) : r \o t \in Seq(C) /\ Spread(f, r \o t) = Spread(f, r) \o Spread(f, t)
<1>0. /\ \A c \in C : f[c] \in Seq(T)
      /\ \A t \in Seq(C) : \A c \in C : Spread(f, Append(t, c)) = Spread(f, t) \o f[c]
  BY SpreadAppend
<1> DEFINE X == {t \in Seq(C) : Spread(f, r \o t) = Spread(f, r) \o Spread(f, t)}
<1>1. Spread(f, r) \in Seq(T)
  BY SpreadAppend
<1>2. <<>> \in X
  <2>1. r \o <<>> = r /\ Spread(f, <<>>) = <<>> /\ Spread(f, r) \o <<>> = Spread(f, r)
    BY <1>1, ConcatEmptySeq, SpreadAppend
  <2> QED
    BY <2>1, EmptySeq
<1>3. ASSUME NEW t \in Seq(C), NEW c \in C, t \in X PROVE Append(t, c) \in X
  <2>1. r \o t \in Seq(C)
    BY ConcatProperties
  <2>2. r \o Append(t, c) = Append(r \o t, c)
    <3>1. <<c>> \in Seq(C) /\ Append(t, c) = t \o <<c>> /\ Append(r \o t, c) = (r \o t) \o <<c>>
      BY <2>1, AppendIsConcat
    <3> QED
      BY <3>1, ConcatAssociative
  <2>3. /\ Spread(f, Append(r \o t, c)) = Spread(f, r \o t) \o f[c]
        /\ Spread(f, Append(t, c)) = Spread(f, t) \o f[c]
        /\ Spread(f, t) \in Seq(T) /\ f[c] \in Seq(T)
    <3>1. /\ Spread(f, Append(t, c)) = Spread(f, t) \o f[c] /\ f[c] \in Seq(T)
      BY <1>0
    <3>4. Spread(f, t) \in Seq(T)
      BY SpreadAppend
    <3> DEFINE u == r \o t
    <3>2. u \in Seq(C)
      BY <2>1
    <3> HIDE DEF u
    <3>3. Spread(f, Append(u, c)) = Spread(f, u) \o f[c]
      BY <1>0, <3>2
    <3> QED
      BY <3>1, <3>3, <3>4 DEF u
  <2>4. (Spread(f, r) \o Spread(f, t)) \o f[c] = Spread(f, r) \o (Spread(f, t) \o f[c])
    <3> DEFINE x == Spread(f, r)
               y == Spread(f, t)
               z == f[c]
    <3>1. x \in Seq(T) /\ y \in Seq(T) /\ z \in Seq(T)
      BY <1>1, <2>3
    <3> HIDE DEF x, y, z
    <3>2. (x \o y) \o z = x \o (y \o z)
      BY <3>1, ConcatAssociative
    <3> QED
      BY <3>2 DEF x, y, z
  <2>5. Append(t, c) \in Seq(C)
    BY AppendProperties
  <2> QED
    BY <1>3, <2>2, <2>3, <2>4, <2>5
<1> HIDE DEF X
<1>4. Seq(C) \subseteq X
  BY <1>2, <1>3, InductionOverSequences
<1> QED
  BY <1>4, ConcatProperties DEF X

\* Induction from the last place of a sequence down to the first.
LEMMA InductionFromTheRight ==
    ASSUME NEW N \in Nat, NEW X, \A i \in 1..N : (\A j \in i + 1..N : j \in X) => i \in X
    PROVE  1..N \subseteq X
<1> DEFINE K == {k \in Nat : \A j \in 1..N : j > N - k => j \in X}
<1>1. 0 \in K
  OBVIOUS
<1>2. ASSUME NEW k \in Nat, k \in K PROVE k + 1 \in K
  <2> SUFFICES ASSUME NEW i \in 1..N, i > N - (k + 1) PROVE i \in X
    OBVIOUS
  <2>1. \A j \in i + 1..N : j \in 1..N /\ j > N - k
    OBVIOUS
  <2>2. \A j \in i + 1..N : j \in X
    BY <1>2, <2>1
  <2> QED
    BY <2>2
<1> HIDE DEF K
<1>3. N \in K
  BY <1>1, <1>2, InductionOverSet
<1>4. \A j \in 1..N : j > N - N
  OBVIOUS
<1> QED
  BY <1>3, <1>4 DEF K

\* A loop that ends at the places stop, and from the others goes on at next.
GoesOn(f, N, stop, last, head, next) ==
    f = [i \in 1..N |-> IF i \in stop THEN last[i] ELSE Cat(head[i], f[next[i]])]

LEMMA LoopGoesOn ==
    ASSUME NEW N \in Nat, NEW stop, NEW last, NEW head, NEW next,
           \A i \in 1..N : i \notin stop => next[i] \in i + 1..N
    PROVE  \E f : GoesOn(f, N, stop, last, head, next)
<1> DEFINE At(f, i) == IF i \in stop THEN last[i] ELSE Cat(head[i], f[next[i]])
           SolvesFrom(f, j) == \A i \in 1..N : i > j => f[i] = At(f, i)
           K == {k \in Nat : k <= N => \E f : SolvesFrom(f, N - k)}
<1>1. 0 \in K
  <2>1. \A i \in 1..N : ~(i > N - 0)
    OBVIOUS
  <2>2. SolvesFrom(<<>>, N - 0)
    BY <2>1
  <2> QED
    BY <2>2
<1>2. ASSUME NEW k \in Nat, k \in K PROVE k + 1 \in K
  <2> SUFFICES ASSUME k + 1 <= N PROVE \E g : SolvesFrom(g, N - (k + 1))
    OBVIOUS
  <2> DEFINE j == N - k
  <2>1. k <= N
    OBVIOUS
  <2>2. PICK f : SolvesFrom(f, j)
    BY <1>2, <2>1
  <2>3. j \in 1..N /\ N - (k + 1) = j - 1
    OBVIOUS
  <2> DEFINE g == [i \in 1..N |-> IF i = j THEN At(f, i) ELSE f[i]]
  <2> HIDE DEF j
  <2>4. \A i \in 1..N : i > j => g[i] = f[i] /\ f[i] = At(f, i)
    BY <2>2, <2>3
  <2>5. \A i \in 1..N : i >= j /\ i \notin stop => next[i] \in 1..N /\ next[i] > j
    BY <2>3
  <2>6. \A i \in 1..N : i >= j /\ i \notin stop => g[next[i]] = f[next[i]]
    BY <2>4, <2>5
  <2>7. g[j] = At(f, j)
    BY <2>3
  <2> HIDE DEF g
  <2>8. \A i \in 1..N : i >= j => At(g, i) = At(f, i)
    BY <2>6
  <2>9. \A i \in 1..N : i > j - 1 => i = j \/ i > j
    BY <2>3
  <2>10. \A i \in 1..N : i > j => i >= j
    BY <2>3
  <2>11. g[j] = At(g, j)
    BY <2>3, <2>7, <2>8
  <2>12. \A i \in 1..N : i > j => g[i] = At(g, i)
    BY <2>4, <2>8, <2>10
  <2>13. SolvesFrom(g, j - 1)
    BY <2>9, <2>11, <2>12
  <2> QED
    BY <2>3, <2>13
<1> HIDE DEF K
<1>3. N \in K
  BY <1>1, <1>2, InductionOverSet
<1>4. PICK f : SolvesFrom(f, N - N)
  BY <1>3 DEF K
<1>5. \A i \in 1..N : f[i] = At(f, i)
  BY <1>4
<1> DEFINE g == [i \in 1..N |-> f[i]]
<1>6. \A i \in 1..N : i \notin stop => g[next[i]] = f[next[i]]
  OBVIOUS
<1>7. \A i \in 1..N : f[i] = At(g, i)
  BY <1>5, <1>6
<1>8. g = [i \in 1..N |-> At(g, i)]
  BY <1>7
<1> QED
  BY <1>8 DEF GoesOn

\* The parts with glue between them, and with glue in front of each.
Joined(glue, parts) == FlattenSeq([i \in DOMAIN parts |-> IF i = 1 THEN parts[i] ELSE glue \o parts[i]])

Glued(T, glue) == [x \in Seq(T) |-> glue \o x]

LEMMA JoinedIs ==
    ASSUME NEW T, NEW glue \in Seq(T)
    PROVE  /\ Spread(Glued(T, glue), <<>>) = <<>>
           /\ \A x \in Seq(T) : \A parts \in Seq(Seq(T)) :
                /\ Joined(glue, <<x>> \o parts) = x \o Spread(Glued(T, glue), parts)
                /\ Spread(Glued(T, glue), <<x>> \o parts) = glue \o Joined(glue, <<x>> \o parts)
                /\ Joined(glue, <<x>> \o parts) \in Seq(T)
<1> DEFINE Q == Seq(T)
           same == [x \in Q |-> x]
           f == Glued(T, glue)
<1>1. f \in [Q -> Seq(T)] /\ \A x \in Q : f[x] = glue \o x
  BY ConcatProperties DEF Glued
<1>2. same \in [Q -> Seq(T)] /\ \A x \in Q : same[x] = x
  OBVIOUS
<1> HIDE DEF f, same
<1>3. ASSUME NEW g \in [Q -> Seq(T)], NEW x \in Q
      PROVE  Spread(g, <<x>>) = g[x] /\ Spread(g, <<>>) = <<>> /\ g[x] \in Seq(T)
  <2> HIDE DEF Q
  <2>1. <<>> \in Seq(Q) /\ <<x>> = Append(<<>>, x)
    OBVIOUS
  <2>2. Spread(g, <<>>) = <<>> /\ g[x] \in Seq(T) /\ Spread(g, Append(<<>>, x)) = Spread(g, <<>>) \o g[x]
    <3>1. /\ Spread(g, <<>>) = <<>>
          /\ \A c \in Q : g[c] \in Seq(T)
          /\ \A t \in Seq(Q) : \A c \in Q : Spread(g, Append(t, c)) = Spread(g, t) \o g[c]
      BY SpreadAppend DEF Maps
    <3> QED
      BY <2>1, <3>1
  <2>3. <<>> \o g[x] = g[x]
    BY <2>2, ConcatEmptySeq
  <2> QED
    BY <2>1, <2>2, <2>3
<1>4. Spread(f, <<>>) = <<>>
  <2> HIDE DEF Q
  <2> QED
    BY <1>1, SpreadAppend DEF Maps
<1>5. ASSUME NEW x \in Q, NEW parts \in Seq(Q)
      PROVE  /\ Joined(glue, <<x>> \o parts) = x \o Spread(f, parts)
             /\ Spread(f, <<x>> \o parts) = glue \o Joined(glue, <<x>> \o parts)
             /\ Joined(glue, <<x>> \o parts) \in Seq(T)
  <2> DEFINE L == Len(parts)
             more == <<x>> \o parts
             mapped == [i \in DOMAIN parts |-> f[parts[i]]]
             whole == <<x>> \o mapped
             joint == [i \in DOMAIN more |-> IF i = 1 THEN more[i] ELSE glue \o more[i]]
  <2>1. L \in Nat /\ DOMAIN parts = 1..L /\ \A i \in 1..L : parts[i] \in Q
    <3> HIDE DEF Q
    <3> QED
      BY LenProperties, ElementOfSeq
  <2>2. <<x>> \in Seq(Q) /\ Len(<<x>>) = 1 /\ <<x>>[1] = x
    <3> HIDE DEF Q
    <3> QED
      OBVIOUS
  <2>3. /\ more \in Seq(Q) /\ Len(more) = 1 + L
        /\ \A i \in 1..1 + L : more[i] = IF i <= 1 THEN x ELSE parts[i - 1]
    <3> HIDE DEF Q
    <3>1. /\ <<x>> \o parts \in Seq(Q) /\ Len(<<x>> \o parts) = Len(<<x>>) + Len(parts)
          /\ \A i \in 1..Len(<<x>>) + Len(parts) :
                (<<x>> \o parts)[i] = IF i <= Len(<<x>>) THEN <<x>>[i] ELSE parts[i - Len(<<x>>)]
      BY <2>2, ConcatProperties
    <3>2. \A i \in 1..1 + L : i <= 1 => i = 1
      BY <2>1
    <3> QED
      BY <2>1, <2>2, <3>1, <3>2
  <2>4. mapped \in Seq(Q) /\ Len(mapped) = L /\ \A i \in 1..L : mapped[i] = glue \o parts[i]
    <3>1. \A i \in 1..L : f[parts[i]] \in Q /\ f[parts[i]] = glue \o parts[i]
      BY <1>1, <2>1
    <3> HIDE DEF Q
    <3> QED
      BY <2>1, <3>1
  <2> HIDE DEF mapped
  <2>5. /\ whole \in Seq(Q) /\ Len(whole) = 1 + L
        /\ \A i \in 1..1 + L : whole[i] = IF i <= 1 THEN x ELSE mapped[i - 1]
    <3> HIDE DEF Q
    <3>1. /\ <<x>> \o mapped \in Seq(Q) /\ Len(<<x>> \o mapped) = Len(<<x>>) + Len(mapped)
          /\ \A i \in 1..Len(<<x>>) + Len(mapped) :
                (<<x>> \o mapped)[i] = IF i <= Len(<<x>>) THEN <<x>>[i] ELSE mapped[i - Len(<<x>>)]
      BY <2>2, <2>4, ConcatProperties
    <3>2. \A i \in 1..1 + L : i <= 1 => i = 1
      BY <2>1
    <3> QED
      BY <2>1, <2>2, <2>4, <3>1, <3>2
  <2>6. joint = whole
    <3>1. DOMAIN more = 1..1 + L /\ DOMAIN whole = 1..1 + L
      <4> HIDE DEF Q, more, whole
      <4> QED
        BY <2>3, <2>5, LenProperties
    <3>2. ASSUME NEW i \in 1..1 + L PROVE (IF i = 1 THEN more[i] ELSE glue \o more[i]) = whole[i]
      <4>1. CASE i = 1
        BY <2>3, <2>5, <4>1
      <4>2. CASE i # 1
        <5>1. i - 1 \in 1..L /\ ~(i <= 1)
          BY <2>1, <4>2
        <5> HIDE DEF more, whole
        <5>2. more[i] = parts[i - 1] /\ whole[i] = mapped[i - 1] /\ mapped[i - 1] = glue \o parts[i - 1]
          BY <2>3, <2>4, <2>5, <5>1
        <5> QED
          BY <4>2, <5>2
      <4> QED
        BY <4>1, <4>2
    <3> HIDE DEF more
    <3>3. joint = [i \in 1..1 + L |-> whole[i]]
      BY <3>1, <3>2
    <3>4. whole = [i \in 1..1 + L |-> whole[i]]
      <4> HIDE DEF whole, Q
      <4> QED
        BY <2>5, <3>1
    <3> QED
      BY <3>3, <3>4
  <2>7. \A seqs \in Seq(Q) : FlattenSeq(seqs) = Spread(same, seqs)
    <3> SUFFICES ASSUME NEW seqs \in Seq(Q) PROVE FlattenSeq(seqs) = Spread(same, seqs)
      OBVIOUS
    <3>1. \A i \in DOMAIN seqs : seqs[i] \in Q
      <4> HIDE DEF Q
      <4> QED
        BY LenProperties, ElementOfSeq
    <3>2. [i \in DOMAIN seqs |-> same[seqs[i]]] = [i \in DOMAIN seqs |-> seqs[i]]
      BY <1>2, <3>1
    <3>3. seqs = [i \in DOMAIN seqs |-> seqs[i]]
      <4> HIDE DEF Q
      <4> QED
        OBVIOUS
    <3> QED
      BY <3>2, <3>3 DEF Spread
  <2> HIDE DEF Q
  <2>8. Spread(same, whole) = Spread(same, <<x>>) \o Spread(same, mapped)
    <3>1. ASSUME NEW r \in Seq(Q)
          PROVE  \A t \in Seq(Q) : r \o t \in Seq(Q) /\ Spread(same, r \o t) = Spread(same, r) \o Spread(same, t)
      <4>1. Maps(same, Q, T)
        BY <1>2 DEF Maps
      <4> QED
        BY <4>1, SpreadConcat
    <3> DEFINE one == <<x>>
    <3>2. one \in Seq(Q) /\ mapped \in Seq(Q)
      BY <2>2, <2>4
    <3> HIDE DEF one
    <3>3. Spread(same, one \o mapped) = Spread(same, one) \o Spread(same, mapped)
      BY <3>1, <3>2
    <3> QED
      BY <3>3 DEF one
  <2>9. Spread(same, <<x>>) = x
    BY <1>2, <1>3
  <2>10. Spread(same, mapped) = Spread(f, parts)
    BY <2>4, <2>7 DEF Spread, mapped
  <2>11. Joined(glue, more) = x \o Spread(f, parts)
    <3>1. Joined(glue, more) = FlattenSeq(joint)
      BY DEF Joined
    <3> HIDE DEF joint, more
    <3>2. FlattenSeq(whole) = Spread(same, whole)
      BY <2>5, <2>7
    <3> HIDE DEF whole
    <3> QED
      BY <2>6, <2>8, <2>9, <2>10, <3>1, <3>2
  <2>12. Spread(f, more) = Spread(f, <<x>>) \o Spread(f, parts)
    <3>1. ASSUME NEW r \in Seq(Q)
          PROVE  \A t \in Seq(Q) : r \o t \in Seq(Q) /\ Spread(f, r \o t) = Spread(f, r) \o Spread(f, t)
      <4>1. Maps(f, Q, T)
        BY <1>1 DEF Maps
      <4> QED
        BY <4>1, SpreadConcat
    <3> DEFINE one == <<x>>
    <3>2. one \in Seq(Q)
      BY <2>2
    <3> HIDE DEF one
    <3>3. Spread(f, one \o parts) = Spread(f, one) \o Spread(f, parts)
      BY <3>1, <3>2
    <3> QED
      BY <3>3 DEF one
  <2>13. Spread(f, <<x>>) = glue \o x
    BY <1>1, <1>3
  <2>14. x \in Seq(T) /\ Spread(f, parts) \in Seq(T)
    BY <1>1, SpreadAppend DEF Maps, Q
  <2>15. (glue \o x) \o Spread(f, parts) = glue \o (x \o Spread(f, parts))
    BY <2>14, ConcatAssociative
  <2>16. x \o Spread(f, parts) \in Seq(T)
    BY <2>14, ConcatProperties
  <2> HIDE DEF more
  <2> QED
    BY <2>11, <2>12, <2>13, <2>15, <2>16 DEF more
<1> QED
  BY <1>4, <1>5 DEF f

\* A loop that puts pieces in a row: the pieces of a kind are a sequence of the kind.
InPieces(f, N, K, stop, piece, next) ==
    /\ \A b \in 1..N : f[b] = IF b \in stop THEN <<piece[b]>> ELSE <<piece[b]>> \o f[next[b]]
    /\ \A b \in K : b \in 1..N /\ (b \notin stop => next[b] \in K /\ next[b] \in b + 1..N)

LEMMA PiecesOfAKind ==
    ASSUME NEW N \in Nat, NEW f, NEW K, NEW stop, NEW piece, NEW next, InPieces(f, N, K, stop, piece, next),
           NEW Kind, \A b \in K : piece[b] \in Kind
    PROVE  \A b \in K : f[b] \in Seq(Kind) /\ Len(f[b]) >= 1
<1> DEFINE X == {b \in 1..N : b \in K => f[b] \in Seq(Kind) /\ Len(f[b]) >= 1}
<1>1. ASSUME NEW b \in 1..N, \A j \in b + 1..N : j \in X PROVE b \in X
  <2> SUFFICES ASSUME b \in K PROVE f[b] \in Seq(Kind) /\ Len(f[b]) >= 1
    OBVIOUS
  <2> DEFINE x == piece[b]
             one == <<x>>
  <2>1. x \in Kind
    OBVIOUS
  <2> HIDE DEF x
  <2>2. one \in Seq(Kind) /\ Len(one) = 1
    BY <2>1
  <2> HIDE DEF one
  <2>3. CASE b \in stop
    <3>1. f[b] = one
      BY <2>3 DEF InPieces, x, one
    <3>2. one \in Seq(Kind) /\ Len(one) >= 1
      BY <2>2
    <3> DEFINE fb == f[b]
    <3>3. fb = one
      BY <3>1
    <3> HIDE DEF fb
    <3>4. fb \in Seq(Kind) /\ Len(fb) >= 1
      BY <3>2, <3>3
    <3> QED
      BY <3>4 DEF fb
  <2>4. CASE b \notin stop
    <3> DEFINE rest == f[next[b]]
    <3>1. f[b] = one \o rest
      BY <2>4 DEF InPieces, x, one
    <3>2. next[b] \in K /\ next[b] \in b + 1..N
      BY <2>4 DEF InPieces
    <3>3. rest \in Seq(Kind)
      BY <1>1, <3>2
    <3> HIDE DEF rest
    <3>4. one \o rest \in Seq(Kind) /\ Len(one \o rest) = Len(one) + Len(rest) /\ Len(rest) \in Nat
      BY <2>2, <3>3, ConcatProperties, LenProperties
    <3> QED
      BY <2>2, <3>1, <3>4
  <2> QED
    BY <2>3, <2>4
<1> HIDE DEF X
<1>2. 1..N \subseteq X
  BY <1>1, InductionFromTheRight
<1>3. \A b \in K : b \in 1..N
  BY DEF InPieces
<1> QED
  BY <1>2, <1>3 DEF X

\* A loop that puts the pieces and the glue in a row, and joined the pieces are what it comes to.
InARow(h, N, stop, piece, next, glue) ==
    \A b \in 1..N : h[b] = IF b \in stop THEN piece[b] ELSE Cat(Cat(piece[b], glue), h[next[b]])

LEMMA PiecesJoined ==
    ASSUME NEW T, NEW N \in Nat, NEW f, NEW stop, NEW piece, NEW next,
           InPieces(f, N, 1..N, stop, piece, next),
           \A b \in 1..N : piece[b] \in Seq(T),
           NEW glue \in Seq(T), NEW h, InARow(h, N, stop, piece, next, glue)
    PROVE  \A b \in 1..N : Joined(glue, f[b]) = h[b] /\ h[b] \in Seq(T)
<1> DEFINE Q == Seq(T)
           g == Glued(T, glue)
           X == {b \in 1..N : /\ Joined(glue, f[b]) = h[b] /\ h[b] \in Seq(T)
                              /\ Spread(g, f[b]) = glue \o h[b]}
<1>1. \A b \in 1..N : f[b] \in Seq(Q)
  <2> HIDE DEF Q
  <2>1. \A b \in 1..N : piece[b] \in Q
    BY DEF Q
  <2> QED
    BY <2>1, PiecesOfAKind
<1>2. \A x \in Q : \A parts \in Seq(Q) :
        /\ Joined(glue, <<x>> \o parts) = x \o Spread(g, parts)
        /\ Spread(g, <<x>> \o parts) = glue \o Joined(glue, <<x>> \o parts)
        /\ Joined(glue, <<x>> \o parts) \in Seq(T)
  BY JoinedIs
<1>3. Spread(g, <<>>) = <<>>
  BY JoinedIs
<1> HIDE DEF g
<1>4. ASSUME NEW b \in 1..N, \A j \in b + 1..N : j \in X PROVE b \in X
  <2> DEFINE x == piece[b]
             one == <<x>>
  <2>1. x \in Q
    OBVIOUS
  <2> HIDE DEF Q, x
  <2>2. one \in Seq(Q) /\ <<>> \in Seq(Q) /\ one \o <<>> = one
    <3>1. one \in Seq(Q) /\ <<>> \in Seq(Q)
      BY <2>1
    <3> HIDE DEF one
    <3> QED
      BY <3>1, ConcatEmptySeq
  <2>3. \A parts \in Seq(Q) : /\ Joined(glue, one \o parts) = x \o Spread(g, parts)
                              /\ Spread(g, one \o parts) = glue \o Joined(glue, one \o parts)
                              /\ Joined(glue, one \o parts) \in Seq(T)
    BY <1>2, <2>1
  <2> HIDE DEF one
  <2>4. CASE b \in stop
    <3>1. f[b] = one /\ h[b] = x
      BY <2>4 DEF InPieces, InARow, x, one
    <3>2. /\ Joined(glue, one) = x \o <<>>
          /\ Spread(g, one) = glue \o Joined(glue, one)
      BY <1>3, <2>2, <2>3
    <3>3. x \o <<>> = x /\ x \in Seq(T)
      BY <2>1, ConcatEmptySeq DEF Q
    <3> QED
      BY <3>1, <3>2, <3>3
  <2>5. CASE b \notin stop
    <3> DEFINE n == next[b]
    <3>1. f[b] = one \o f[n]
      BY <2>5 DEF InPieces, x, one
    <3>2. h[b] = (x \o glue) \o h[n]
      BY <2>5 DEF InARow, x, Cat
    <3>3. n \in 1..N /\ n \in b + 1..N
      BY <2>5 DEF InPieces
    <3> HIDE DEF n
    <3>4. Spread(g, f[n]) = glue \o h[n] /\ h[n] \in Seq(T) /\ f[n] \in Seq(Q)
      BY <1>1, <1>4, <3>3
    <3>5. /\ Joined(glue, f[b]) = x \o (glue \o h[n])
          /\ Spread(g, f[b]) = glue \o Joined(glue, f[b])
          /\ Joined(glue, f[b]) \in Seq(T)
      BY <2>3, <3>1, <3>4
    <3>6. (x \o glue) \o h[n] = x \o (glue \o h[n])
      <4> DEFINE y == h[n]
      <4>1. x \in Seq(T)
        BY <2>1 DEF Q
      <4>2. y \in Seq(T)
        BY <3>4
      <4> HIDE DEF y
      <4>3. (x \o glue) \o y = x \o (glue \o y)
        BY <4>1, <4>2, ConcatAssociative
      <4> QED
        BY <4>3 DEF y
    <3> QED
      BY <3>2, <3>5, <3>6
  <2> QED
    BY <2>4, <2>5
<1> HIDE DEF X
<1>5. 1..N \subseteq X
  BY <1>4, InductionFromTheRight
<1> QED
  BY <1>5 DEF X

LEMMA SpreadOne ==
    ASSUME NEW C, NEW T, NEW f, Maps(f, C, T), NEW c \in C
    PROVE  /\ Spread(f, <<c>>) = f[c] /\ f[c] \in Seq(T)
           /\ Spread(f, <<>>) = <<>>
           /\ \A t \in Seq(C) : Spread(f, t) \in Seq(T)
<1>2. /\ Spread(f, <<>>) = <<>>
      /\ \A d \in C : f[d] \in Seq(T)
      /\ \A t \in Seq(C) : Spread(f, t) \in Seq(T)
      /\ \A t \in Seq(C) : \A d \in C : Spread(f, Append(t, d)) = Spread(f, t) \o f[d]
  BY SpreadAppend
<1>3. <<>> \in Seq(C) /\ Append(<<>>, c) = <<c>>
  OBVIOUS
<1>4. Spread(f, <<c>>) = <<>> \o f[c]
  BY <1>2, <1>3
<1>5. <<>> \o f[c] = f[c]
  BY <1>2, ConcatEmptySeq
<1> QED
  BY <1>2, <1>4, <1>5

\* What leaves every element as it is leaves the text as it is.
LEMMA SpreadSame ==
    ASSUME NEW C, NEW f, Maps(f, C, C), NEW t \in Seq(C), \A i \in 1..Len(t) : f[t[i]] = <<t[i]>>
    PROVE  Spread(f, t) = t
<1> DEFINE X == {r \in Seq(C) : (\A i \in 1..Len(r) : f[r[i]] = <<r[i]>>) => Spread(f, r) = r}
<1>2. /\ Spread(f, <<>>) = <<>>
      /\ \A r \in Seq(C) : Spread(f, r) \in Seq(C)
      /\ \A r \in Seq(C) : \A c \in C : Spread(f, Append(r, c)) = Spread(f, r) \o f[c]
  BY SpreadAppend
<1>3. <<>> \in X
  BY <1>2
<1>4. ASSUME NEW r \in Seq(C), NEW c \in C, r \in X PROVE Append(r, c) \in X
  <2> DEFINE u == Append(r, c)
  <2>1. /\ Len(r) \in Nat /\ u \in Seq(C) /\ Len(u) = Len(r) + 1
        /\ \A i \in 1..Len(r) : u[i] = r[i]
        /\ u[Len(r) + 1] = c
    BY AppendProperties, LenProperties
  <2>2. Spread(f, u) = Spread(f, r) \o f[c] /\ u = r \o <<c>>
    BY <1>2, AppendIsConcat
  <2> HIDE DEF u
  <2> SUFFICES ASSUME \A i \in 1..Len(u) : f[u[i]] = <<u[i]>> PROVE Spread(f, u) = u
    BY <2>1 DEF u
  <2>3. \A i \in 1..Len(r) : i \in 1..Len(u)
    BY <2>1
  <2>4. \A i \in 1..Len(r) : f[r[i]] = <<r[i]>>
    BY <2>1, <2>3
  <2>5. Spread(f, r) = r
    BY <1>4, <2>4
  <2>6. f[c] = <<c>>
    <3>1. Len(r) + 1 \in 1..Len(u)
      BY <2>1
    <3>2. f[u[Len(r) + 1]] = <<u[Len(r) + 1]>>
      BY <3>1
    <3> QED
      BY <2>1, <3>2
  <2> QED
    BY <2>2, <2>5, <2>6
<1> HIDE DEF X
<1>5. Seq(C) \subseteq X
  BY <1>3, <1>4, InductionOverSequences
<1> QED
  BY <1>5 DEF X

LEMMA Spreads ==
    \A C, f : Maps(f, C, C) =>
        /\ Spread(f, <<>>) = <<>>
        /\ \A c \in C : f[c] \in Seq(C)
        /\ \A t \in Seq(C) : Spread(f, t) \in Seq(C)
        /\ \A t \in Seq(C) : \A c \in C : Spread(f, Append(t, c)) = Spread(f, t) \o f[c]
  BY SpreadAppend

LEMMA SpreadsParts ==
    \A C, f : Maps(f, C, C) =>
        \A r \in Seq(C) : \A t \in Seq(C) : r \o t \in Seq(C) /\ Spread(f, r \o t) = Spread(f, r) \o Spread(f, t)
  BY SpreadConcat

\* Two replacements one after the other are one.
FirstThen(h, g, f, C) == \A c \in C : h[c] = Spread(f, g[c])

LEMMA SpreadTwice ==
    ASSUME NEW C, NEW f, Maps(f, C, C), NEW g, Maps(g, C, C), NEW h, Maps(h, C, C),
           FirstThen(h, g, f, C)
    PROVE  \A t \in Seq(C) : Spread(f, Spread(g, t)) = Spread(h, t)
<1> DEFINE X == {t \in Seq(C) : Spread(f, Spread(g, t)) = Spread(h, t)}
<1>1. /\ Spread(g, <<>>) = <<>>
      /\ \A c \in C : g[c] \in Seq(C)
      /\ \A t \in Seq(C) : Spread(g, t) \in Seq(C)
      /\ \A t \in Seq(C) : \A c \in C : Spread(g, Append(t, c)) = Spread(g, t) \o g[c]
  BY Spreads
<1>2. /\ Spread(h, <<>>) = <<>>
      /\ \A t \in Seq(C) : \A c \in C : Spread(h, Append(t, c)) = Spread(h, t) \o h[c]
  BY Spreads
<1>3. Spread(f, <<>>) = <<>>
  BY Spreads
<1>4. \A r \in Seq(C) : \A t \in Seq(C) :
            r \o t \in Seq(C) /\ Spread(f, r \o t) = Spread(f, r) \o Spread(f, t)
  BY SpreadConcat
<1>5. <<>> \in X
  BY <1>1, <1>2, <1>3
<1>6. ASSUME NEW t \in Seq(C), NEW c \in C, t \in X PROVE Append(t, c) \in X
  <2> DEFINE x == Spread(g, t)
             y == g[c]
  <2>1. x \in Seq(C) /\ y \in Seq(C)
    BY <1>1
  <2>2. Spread(g, Append(t, c)) = x \o y
    BY <1>1
  <2>3. Spread(h, Append(t, c)) = Spread(h, t) \o Spread(f, y)
    BY <1>2 DEF FirstThen
  <2>4. Spread(f, x) = Spread(h, t)
    BY <1>6
  <2> HIDE DEF x, y
  <2>5. Spread(f, x \o y) = Spread(f, x) \o Spread(f, y)
    BY <1>4, <2>1
  <2>6. Append(t, c) \in Seq(C)
    BY AppendProperties
  <2> QED
    BY <2>2, <2>3, <2>4, <2>5, <2>6
<1> HIDE DEF X
<1>7. Seq(C) \subseteq X
  BY <1>5, <1>6, InductionOverSequences
<1> QED
  BY <1>7 DEF X
=============================================================================
