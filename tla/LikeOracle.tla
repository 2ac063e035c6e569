------------------------------ MODULE LikeOracle ------------------------------
(***************************************************************************)
(* LikeOracle of prop_strings.cpp, which decides what LIKE, LIKE ... ESCAPE*)
(* and ILIKE have to answer, and another definition of what a pattern      *)
(* matches: the places of the subject from where on each rest of the       *)
(* pattern matches, one element at a time.                                 *)
(***************************************************************************)
EXTENDS Integers, FiniteSetsExt, Sequences

Percent == 37          \* '%'
Underscore == 95          \* '_'
NoEscape == -1

\* Places in a subject and its pattern, from 1 to one behind their ends.
Places(s, p) == (1..Len(s) + 1) \X (1..Len(p) + 1)

\* '%', and those right behind it: the places to go on from are tried in order, until one
\* of them matches or throws.
AnyNumber(like, s, p, si, pi) ==
    LET rest == {i \in pi..Len(p) : p[i] # Percent}
        ends == {k \in si..Len(s) + 1 : like[<<k, Min(rest)>>] # "no"}
    IN IF rest = {} THEN "yes"
       ELSE IF ends = {} THEN "no" ELSE like[<<Min(ends), Min(rest)>>]

\* One round of the loop of LikeOracle(s, p, escape, si, pi), which is like[<<si, pi>>]
\* further on.
LikeAt(like, s, p, escape, si, pi) ==
    LET Literal(c, width) ==
            IF si <= Len(s) /\ s[si] = c THEN like[<<si + 1, pi + width>>] ELSE "no"
    IN CASE pi > Len(p) -> IF si > Len(s) THEN "yes" ELSE "no"
         [] pi <= Len(p) /\ p[pi] = escape ->
                IF pi = Len(p) THEN "throws" ELSE Literal(p[pi + 1], 2)
         [] pi <= Len(p) /\ p[pi] # escape /\ p[pi] = Percent -> AnyNumber(like, s, p, si, pi)
         [] pi <= Len(p) /\ p[pi] # escape /\ p[pi] = Underscore ->
                IF si <= Len(s) THEN like[<<si + 1, pi + 1>>] ELSE "no"
         [] OTHER -> Literal(p[pi], 1)

\* "yes", "no", or "throws" where the pattern ends with the escape.
LikeFrom(s, p, escape) ==
    LET like[at \in Places(s, p)] == LikeAt(like, s, p, escape, at[1], at[2])
    IN like[<<1, 1>>]

Lower(c) == IF c \in 65..90 THEN c + 32 ELSE c
LowerAscii(cps) == [i \in DOMAIN cps |-> Lower(cps[i])]

\* Mutant of ValidPattern: every pattern is tried.
ValidPatternAlways(p, escape) == TRUE

\* Patterns that end with the escape are discarded, the escaped ones among them too.
ValidPattern(p, escape) == p = <<>> \/ escape = NoEscape \/ p[Len(p)] # escape

-----------------------------------------------------------------------------
SameCharacter(c, d, nocase) == IF nocase THEN Lower(c) = Lower(d) ELSE c = d

\* The places of s from where on a literal character takes one that equals it, '_' any one
\* and '%' any number of them, to get to one of the places next.
Literally(s, c, nocase, next) == {n \in 1..Len(s) : SameCharacter(s[n], c, nocase) /\ n + 1 \in next}
AnyOne(s, next) == {n \in 1..Len(s) : n + 1 \in next}
AnyRun(s, next) == {n \in 1..Len(s) + 1 : \E m \in next : n <= m}

\* The places of s from where on the rest of p from i matches it to its end.
MatchedAt(matched, s, p, escape, nocase, i) ==
    CASE i > Len(p) -> {Len(s) + 1}
      [] i <= Len(p) /\ p[i] = escape ->
            IF i = Len(p) THEN {} ELSE Literally(s, p[i + 1], nocase, matched[i + 2])
      [] i <= Len(p) /\ p[i] # escape /\ p[i] = Percent -> AnyRun(s, matched[i + 1])
      [] i <= Len(p) /\ p[i] # escape /\ p[i] = Underscore -> AnyOne(s, matched[i + 1])
      [] OTHER -> Literally(s, p[i], nocase, matched[i + 1])

Matches(s, p, escape, nocase) ==
    LET matched[i \in 1..Len(p) + 1] == MatchedAt(matched, s, p, escape, nocase, i)
    IN 1 \in matched[1]
=============================================================================
