------------------------------ MODULE ListOracles ------------------------------
(***************************************************************************)
(* The oracles of prop_lists.cpp: sorting with NULLs last both ways,       *)
(* membership, slices, and the sizes and ends of ranges of BIGINT.         *)
(***************************************************************************)
EXTENDS CIntegers, SequencesExt, FiniteSetsExt

CONSTANT NullValue   \* the NULL of any type

\* The comparisons the two sorts are given.
OrderByLess(a, b) == a # NullValue /\ (b = NullValue \/ a < b)

\* Mutant of OrderByGreater: the ascending order turned round.
OrderByGreaterReversed(a, b) == OrderByLess(b, a)

OrderByGreater(a, b) == a # NullValue /\ (b = NullValue \/ b < a)

\* (external) std::stable_sort, for a comparison that is a strict weak order: a value's
\* place is behind those that are less and those that are equal and came before it.
StableSort(values, Less(_, _)) ==
    LET Before(i, j) == Less(values[i], values[j]) \/ (~Less(values[j], values[i]) /\ i < j)
        Place(i) == Cardinality({j \in DOMAIN values : Before(j, i)}) + 1
    IN [k \in DOMAIN values |-> values[CHOOSE i \in DOMAIN values : Place(i) = k]]

\* list_position finds NULLs, list_contains answers NULL for one.
Position(values, needle) == SelectInSeq(values, LAMBDA v : v = needle)
ListContains(values, needle) ==
    IF needle = NullValue THEN "NULL"
    ELSE IF Position(values, needle) # 0 THEN "true" ELSE "false"

\* The elements that are not NULL and not there already, sorted.
Distinct(values) ==
    LET found[n \in 0..Len(values)] ==
            IF n = 0 THEN <<>>
            ELSE LET before == found[n - 1]
                 IN IF values[n] = NullValue \/ values[n] \in ToSet(before) THEN before
                    ELSE Append(before, values[n])
    IN StableSort(found[Len(values)], OrderByLess)

\* Mutant of FirstOf: a position before the list stays there.
FirstOfUnclamped(begin, n) == IF begin < 0 THEN n + begin + 1 ELSE Max({begin, 1})

\* The first and last position of a slice of n elements.
FirstOf(begin, n) == Max({IF begin < 0 THEN n + begin + 1 ELSE begin, 1})
LastOf(end, n) == IF end < 0 THEN n + end + 1 ELSE Min({end, n})

\* The loop stops at the first position that is not in the list.
Slice(values, begin, end) ==
    LET n == Len(values)
        lo == FirstOf(begin, n)
        hi == LastOf(end, n)
    IN IF lo \in 1..n THEN SubSeq(values, lo, hi) ELSE <<>>

-----------------------------------------------------------------------------
\* Mutant of RangeCount: the count is not rounded up.
RangeCountDown(s, e, st) ==
    CASE st > 0 /\ e > s -> CDiv(e - s, st)
      [] st < 0 /\ e < s -> CDiv(s - e, -st)
      [] OTHER -> 0

\* How many values range and generate_series have, the end excluded or included.
RangeCount(s, e, st) ==
    CASE st > 0 /\ e > s -> CDiv(e - s + st - 1, st)
      [] st < 0 /\ e < s -> CDiv(s - e + (-st) - 1, -st)
      [] OTHER -> 0

SeriesCount(s, e, st) ==
    CASE st > 0 /\ e >= s -> CDiv(e - s, st) + 1
      [] st < 0 /\ e <= s -> CDiv(s - e, -st) + 1
      [] OTHER -> 0

\* The smallest and the largest value of a range that has values.
ExpectedMin(s, e, st) == IF st > 0 THEN s ELSE s + (RangeCount(s, e, st) - 1) * st
ExpectedMax(s, e, st) == IF st > 0 THEN s + (RangeCount(s, e, st) - 1) * st ELSE s
=============================================================================
