----------------------------- MODULE EditDistance -----------------------------
(***************************************************************************)
(* The distances of prop_strings.cpp, and the edits they count.            *)
(***************************************************************************)
EXTENDS Integers, SequencesExt

Least(x, y) == IF x <= y THEN x ELSE y

Cost(x, y) == IF x = y THEN 0 ELSE 1

\* The row below prev.
Row(prev, i, a, b) ==
    LET cur[j \in 0..Len(b)] ==
            IF j = 0 THEN i
            ELSE Least(Least(prev[j] + 1, cur[j - 1] + 1), prev[j - 1] + Cost(a[i], b[j]))
    IN cur

Levenshtein(a, b) ==
    LET row[i \in 0..Len(a)] ==
            IF i = 0 THEN [j \in 0..Len(b) |-> j] ELSE Row(row[i - 1], i, a, b)
    IN row[Len(a)][Len(b)]

\* Mutant of SwapCost: what stands between the two swapped characters is free.
SwapCostFree(i, i2, j, j2) == 1

\* A swap, and the removal and insertion of what stands between.
SwapCost(i, i2, j, j2) == (i - i2 - 1) + 1 + (j - j2 - 1)

\* The last place of c in s before i, or 0.
LastBefore(s, i, c) == SelectLastInSubSeq(s, 1, i - 1, LAMBDA x : x = c)

\* d[i2][j2] is the cell before the last pair of characters that a swap could have
\* exchanged, by last_row per character and last_col per row.  Rows and columns are
\* counted one below those of the code.
Cell(d, i, j, a, b) ==
    LET i2 == LastBefore(a, i, b[j])
        j2 == LastBefore(b, j, a[i])
    IN Least(Least(d[<<i - 1, j - 1>>] + Cost(a[i], b[j]),
                   Least(d[<<i, j - 1>>] + 1, d[<<i - 1, j>>] + 1)),
             d[<<i2 - 1, j2 - 1>>] + SwapCost(i, i2, j, j2))

\* The table before the loops, with a row and a column of inf around it.
Margins(a, b) ==
    [ij \in (-1..Len(a)) \X (-1..Len(b)) |->
        IF ij[1] = -1 \/ ij[2] = -1 THEN Len(a) + Len(b)
        ELSE IF ij[1] = 0 THEN ij[2] ELSE ij[1]]

\* The table after one more row, cell by cell.
FillRow(table, i, a, b) ==
    LET filled[j \in 0..Len(b)] ==
            IF j = 0 THEN table
            ELSE LET d == filled[j - 1] IN [d EXCEPT ![<<i, j>>] = Cell(d, i, j, a, b)]
    IN filled[Len(b)]

DamerauLevenshtein(a, b) ==
    LET d[i \in 0..Len(a)] ==
            IF i = 0 THEN Margins(a, b) ELSE FillRow(d[i - 1], i, a, b)
    IN d[Len(a)][<<Len(a), Len(b)>>]

\* The number of places where two strings of one length differ.
Hamming(a, b) == Cardinality({i \in DOMAIN a : a[i] # b[i]})

-----------------------------------------------------------------------------
\* What one edit makes of a word.
Edits(w, letters) ==
    {InsertAt(w, i, c) : i \in 1..Len(w) + 1, c \in letters}
        \cup {RemoveAt(w, i) : i \in DOMAIN w}
        \cup {ReplaceAt(w, i, c) : i \in DOMAIN w, c \in letters}

Swaps(w) == {[w EXCEPT ![i] = w[i + 1], ![i + 1] = w[i]] : i \in 1..Len(w) - 1}

\* The defining equation of a distance in numbers of steps: nothing is 0 away from
\* itself, and everything else is one step further than the nearest of its neighbours.
CountsSteps(Distance(_, _), a, b, neighbours) ==
    IF a = b THEN Distance(a, b) = 0
    ELSE /\ \A c \in neighbours : Distance(a, b) <= Distance(a, c) + 1
         /\ \E c \in neighbours : Distance(a, b) = Distance(a, c) + 1
=============================================================================
