------------------------------ MODULE TextOracles ------------------------------
(***************************************************************************)
(* The other oracles of prop_strings.cpp about positions in a text.  Some  *)
(* work on bytes (find, split, replace), others on code points (substring, *)
(* left, right, pad, trim).                                                *)
(***************************************************************************)
EXTENDS Utf8, FiniteSetsExt

\* s.find(t, from), with positions from 1 and 0 for npos.
Find(s, t, from) ==
    LET hits == {p \in from..Len(s) - Len(t) + 1 : SubSeq(s, p, p + Len(t) - 1) = t}
    IN IF hits = {} THEN 0 ELSE Min(hits)

\* Mutant of StrPos: the position is left in bytes.
StrPosInBytes(s, sub) == Find(s, sub, 1)

\* strpos counts characters, from 1.
StrPos(s, sub) ==
    LET pos == Find(s, sub, 1)
    IN IF pos = 0 THEN 0 ELSE Len(ToCodepoints(SubSeq(s, 1, pos - 1))) + 1

\* Mutant of After: the search goes on one byte further, not one separator.
AfterOneByte(pos, sep) == pos + 1

\* Where the search goes on after a hit.
After(pos, sep) == pos + Len(sep)

SplitOracle(s, sep) ==
    LET parts[start \in 1..Len(s) + 1] ==
            LET pos == Find(s, sep, start)
            IN IF pos = 0 THEN <<SubSeq(s, start, Len(s))>>
               ELSE <<SubSeq(s, start, pos - 1)>> \o parts[After(pos, sep)]
    IN parts[1]

ReplaceOracle(s, old, new) ==
    LET rest[start \in 1..Len(s) + 1] ==
            LET pos == Find(s, old, start)
            IN IF pos = 0 THEN SubSeq(s, start, Len(s))
               ELSE SubSeq(s, start, pos - 1) \o new \o rest[After(pos, old)]
    IN IF old = <<>> THEN s ELSE rest[1]

\* split_part counts from the front or, below 0, from the back.
SplitPart(parts, idx) ==
    CASE idx \in 1..Len(parts) -> parts[idx]
      [] -idx \in 1..Len(parts) -> parts[Len(parts) + idx + 1]
      [] OTHER -> <<>>

\* Mutant of FromFront: -1 is taken for the last character but one.
FromFrontShort(start, n) == IF start < 0 THEN n + start ELSE start

\* Positions below 0 count from the back, -1 being the last.
FromFront(start, n) == IF start < 0 THEN n + start + 1 ELSE start

Substring(cps, start, len) ==
    LET eff == FromFront(start, Len(cps))
        lo == IF len >= 0 THEN eff ELSE eff + len
        hi == IF len >= 0 THEN eff + len ELSE eff
    IN SubSeq(cps, Max({lo, 1}), Min({hi - 1, Len(cps)}))

\* How many characters left(s, k) and right(s, k) keep.
Kept(cps, k) == IF k >= 0 THEN Min({k, Len(cps)}) ELSE Max({0, Len(cps) + k})
Left(cps, k) == SubSeq(cps, 1, Kept(cps, k))
Right(cps, k) == SubSeq(cps, Len(cps) - Kept(cps, k) + 1, Len(cps))

\* Mutant of Padding: only whole fills are added.
PaddingWhole(missing, fill) ==
    [i \in 1..Len(fill) * ((missing + Len(fill) - 1) \div Len(fill)) |-> fill[((i - 1) % Len(fill)) + 1]]

\* The fill over and over, until nothing is missing.
Padding(missing, fill) == [i \in 1..missing |-> fill[((i - 1) % Len(fill)) + 1]]

LPad(cps, width, fill) ==
    IF width <= Len(cps) THEN SubSeq(cps, 1, width) ELSE Padding(width - Len(cps), fill) \o cps
RPad(cps, width, fill) ==
    IF width <= Len(cps) THEN SubSeq(cps, 1, width) ELSE cps \o Padding(width - Len(cps), fill)

\* The first and the last character that is not to be trimmed.
LTrim(cps, set) ==
    LET keep == {i \in DOMAIN cps : cps[i] \notin set}
    IN IF keep = {} THEN <<>> ELSE SubSeq(cps, Min(keep), Len(cps))
RTrim(cps, set) ==
    LET keep == {i \in DOMAIN cps : cps[i] \notin set}
    IN IF keep = {} THEN <<>> ELSE SubSeq(cps, 1, Max(keep))
Trim(cps, set) ==
    LET keep == {i \in DOMAIN cps : cps[i] \notin set}
    IN IF keep = {} THEN <<>> ELSE SubSeq(cps, Min(keep), Max(keep))

\* Mutant of PlaceIn: of a character that is there twice the last one counts.
LastPlaceIn(from, c) == Max({i \in DOMAIN from : from[i] = c} \cup {0})

\* Where the character is first, or 0.
PlaceIn(from, c) ==
    LET places == {i \in DOMAIN from : from[i] = c}
    IN IF places = {} THEN 0 ELSE Min(places)

\* Each character of from is replaced by the one at its place in to, or removed.
Translate(cps, from, to) ==
    FlattenSeq([n \in DOMAIN cps |->
        LET i == PlaceIn(from, cps[n])
        IN CASE i = 0 -> <<cps[n]>>
             [] i \in DOMAIN to -> <<to[i]>>
             [] OTHER -> <<>>])
=============================================================================
