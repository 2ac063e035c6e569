-------------------------------- MODULE Texts --------------------------------
(***************************************************************************)
(* The inputs of the suites "strings" and "lists", grown element by element*)
(* as RapidCheck's containers are, and what the oracles say of them.  Each *)
(* oracle is held against a definition of another kind, or against another *)
(* oracle it has to agree with.                                            *)
(*                                                                         *)
(* A topic is a property of the suites, or a few that take the same kind   *)
(* of input: two sequences, or the three numbers of a range.               *)
(***************************************************************************)
EXTENDS LikeOracle, TextOracles, EditDistance, ListOracles

CONSTANTS
    Topics,       \* topic -> [chars, otherChars: what the sequences are made of,
                  \*           maxText, maxOther: bounds on their length]
    Escapes,      \* the escapes of LIKE
    IntLimit      \* half the number of BIGINTs

ASSUME TopicsAssumption ==
    /\ DOMAIN Topics = {"like", "places", "edits", "lists", "ranges"}
    /\ Topics["like"].chars \subseteq Nat /\ Topics["like"].otherChars \subseteq Nat
    /\ Topics["places"].chars \subseteq CodePoints /\ Topics["places"].otherChars \subseteq CodePoints
    /\ Topics["lists"].chars \subseteq Int \cup {NullValue}

\* '\', '$' and '#', or none: no letters, which LowerAscii would make escapes of.
ASSUME EscapesAssumption ==
    Escapes \subseteq {NoEscape} \cup Nat /\ Escapes \cap (65..90 \cup 97..122) = {}

ASSUME ValuesAssumption == NullValue \notin Int /\ IntLimit \in Nat /\ IntLimit >= 2

VARIABLES
    topic,   \* what the inputs are for
    text,    \* the subject: code points, letters, or values of a list
    other,   \* the pattern, the part looked for, the second word or list
    range    \* start, stop and step

vars == <<topic, text, other, range>>

BigInts == -IntLimit..IntLimit - 1

NotDrawn == [start |-> 0, stop |-> 0, step |-> 1]

Init ==
    /\ topic \in DOMAIN Topics
    /\ text = <<>>
    /\ other = <<>>
    /\ range = NotDrawn

GrowText ==
    /\ Len(text) < Topics[topic].maxText
    /\ \E c \in Topics[topic].chars : text' = Append(text, c)
    /\ UNCHANGED <<topic, other, range>>

GrowOther ==
    /\ Len(other) < Topics[topic].maxOther
    /\ \E c \in Topics[topic].otherChars : other' = Append(other, c)
    /\ UNCHANGED <<topic, text, range>>

\* A step of 0 is discarded.
DrawRange ==
    /\ topic = "ranges" /\ range = NotDrawn
    /\ range' \in [start : BigInts, stop : BigInts, step : BigInts \ {0}]
    /\ UNCHANGED <<topic, text, other>>

Next == GrowText \/ GrowOther \/ DrawRange

Spec == Init /\ [][Next]_vars

-----------------------------------------------------------------------------
\* The reference LIKE, which backtracks over '%', says what the pattern matches element
\* by element, never throws for a pattern that is not discarded, and does so for
\* ILIKE too, where subject and pattern are lowered but the escape is not.
LikeMatchesReference ==
    topic = "like" =>
        \A escape \in Escapes :
            ValidPattern(other, escape) =>
                /\ LikeFrom(text, other, escape) =
                        IF Matches(text, other, escape, FALSE) THEN "yes" ELSE "no"
                /\ LikeFrom(LowerAscii(text), LowerAscii(other), escape) =
                        IF Matches(text, other, escape, TRUE) THEN "yes" ELSE "no"

\* "strpos is 1-based and counts characters": though the oracle searches the bytes,
\* it finds exactly the places where the characters are, for characters of one to
\* four bytes that share continuation bytes; and the conversions invert each other.
StrPosCountsCharacters ==
    topic = "places" =>
        /\ ToCodepoints(FromCodepoints(text)) = text
        /\ StrPos(FromCodepoints(text), FromCodepoints(other)) = Find(text, other, 1)

\* What is split and joined again is the string, with another separator it is what
\* replace makes of it; no part holds the separator or begins inside a character,
\* and split_part finds every part from the front and from the back.
SplitsRejoin ==
    topic = "places" /\ other # <<>> =>
        LET s == FromCodepoints(text)
            sep == FromCodepoints(other)
            parts == SplitOracle(s, sep)
            Join(glue) == FlattenSeq([i \in DOMAIN parts |-> IF i = 1 THEN parts[i] ELSE glue \o parts[i]])
        IN /\ Join(sep) = s
           /\ \A c \in Topics[topic].chars : Join(Encoded(c)) = ReplaceOracle(s, sep, Encoded(c))
           /\ \A i \in DOMAIN parts :
                /\ Find(parts[i], sep, 1) = 0
                /\ parts[i] # <<>> => parts[i][1] \notin 128..191
                /\ SplitPart(parts, i) = parts[i]
                /\ SplitPart(parts, i - Len(parts) - 1) = parts[i]

\* left and right cut a string in two wherever they are asked to, also beyond its
\* ends, and substring agrees with both, counting from the front and from the back,
\* with a length to the right and to the left.
SlicesTile ==
    topic = "places" =>
        \A k \in -(Len(text) + 2)..Len(text) + 2 :
            /\ k # 0 => Left(text, k) \o Right(text, -k) = text
            /\ k >= 0 => /\ Substring(text, 1, k) = Left(text, k)
                         /\ Substring(text, -k, k) = Right(text, k)
            /\ k # 0 => \A len \in 0..Len(text) + 2 :
                LET place == FromFront(k, Len(text))
                IN Substring(text, k, -len) \o Substring(text, k, len) =
                    SubSeq(text, Max({place - len, 1}), Min({place + len - 1, Len(text)}))

\* What a pad adds, a trim of the same characters takes away, and nothing else: the
\* width is the one asked for, and trimming both sides is trimming one after the other.
PadsAreTrimmed ==
    topic = "places" =>
        LET set == ToSet(other)
        IN /\ Trim(text, set) = LTrim(RTrim(text, set), set)
           /\ Trim(text, set) = RTrim(LTrim(text, set), set)
           /\ other # <<>> => \A width \in -1..Len(text) + 2 * Len(other) + 1 :
                LET left == LPad(text, width, other)
                    right == RPad(text, width, other)
                IN /\ Len(left) = Max({width, 0}) /\ Len(right) = Len(left)
                   /\ width >= Len(text) => /\ LTrim(left, set) = LTrim(text, set)
                                            /\ RTrim(right, set) = RTrim(text, set)

\* translate is replace character by character, each of from in its turn, though one
\* works on code points and the other on bytes: the first of equal characters counts,
\* those without a counterpart go, and none that was put in is replaced again, so that
\* an exchange of two characters undoes itself.
TranslateReplacesInTurn ==
    topic = "places" =>
        LET Bytes(to, i) == IF i \in DOMAIN to THEN Encoded(to[i]) ELSE <<>>
            fresh == Topics[topic].chars \ ToSet(other)
        IN /\ \A to \in BoundedSeq(fresh, Topics[topic].maxOther) :
                LET replaced[i \in 0..Len(other)] ==
                        IF i = 0 THEN FromCodepoints(text)
                        ELSE ReplaceOracle(replaced[i - 1], Encoded(other[i]), Bytes(to, i))
                IN FromCodepoints(Translate(text, other, to)) = replaced[Len(other)]
           /\ Cardinality(ToSet(other)) = Len(other) =>
                Translate(Translate(text, other, Reverse(other)), other, Reverse(other)) = text

-----------------------------------------------------------------------------
\* levenshtein is the least number of insertions, removals and substitutions that
\* make one word of the other, and for words of one length at most what hamming says.
\* "True (unrestricted) Damerau-Levenshtein distance": swaps of neighbours count one
\* as well, and what was swapped may be edited again.
DistancesCountEdits ==
    topic = "edits" =>
        LET edits == Edits(other, Topics[topic].chars)
        IN /\ CountsSteps(Levenshtein, text, other, edits)
           /\ Len(text) = Len(other) => Levenshtein(text, other) <= Hamming(text, other)
           /\ CountsSteps(DamerauLevenshtein, text, other, edits \cup Swaps(other))

-----------------------------------------------------------------------------
\* The two sorts of a list have its values in opposite orders, but NULLs last in
\* both; list_distinct is that order without NULLs and repetitions, and what
\* list_contains and list_position find is what is there.
SortsAgree ==
    topic = "lists" =>
        LET up == StableSort(text, OrderByLess)
            down == StableSort(text, OrderByGreater)
            count == Cardinality({i \in DOMAIN text : text[i] # NullValue})
            distinct == Distinct(text)
        IN /\ \A i \in DOMAIN text : (up[i] # NullValue <=> i <= count) /\ (down[i] # NullValue <=> i <= count)
           /\ \A i \in 1..count : down[i] = up[count + 1 - i]
           /\ \A i \in DOMAIN distinct : i > 1 => distinct[i - 1] < distinct[i]
           /\ \A v \in Topics[topic].chars \ {NullValue} :
                /\ ListContains(text, v) = IF v \in ToSet(distinct) THEN "true" ELSE "false"
                /\ v \in ToSet(distinct) => text[Position(text, v)] = v

\* "list slicing matches the substring model": a slice is the substring of as many
\* elements when both ends count from the same side, and otherwise still the window
\* between the two places, whatever part of it the list has.
SlicesAreWindows ==
    topic = "lists" =>
        \A begin, end \in -(Len(text) + 3)..Len(text) + 3 :
            LET from == FromFront(begin, Len(text))
                to == FromFront(end, Len(text))
            IN /\ Slice(text, begin, end) =
                    [i \in 1..Cardinality({p \in DOMAIN text : from <= p /\ p <= to})
                        |-> text[Max({from, 1}) + i - 1]]
               /\ begin <= end /\ (begin < 0 <=> end < 0) =>
                    Slice(text, begin, end) = Substring(text, begin, end - begin + 1)

\* The values from start to stop that whole steps lead to.
SeriesOf(s, e, st) ==
    {x \in BigInts : (x - s) % AbsOf(st) = 0 /\ IF st > 0 THEN x \in s..e ELSE x \in e..s}

\* The closed-form counts are the numbers of values that range and generate_series
\* step on, for every start, stop and step of the type and in both directions; the
\* ends of a range are the least and the greatest of them, and fit in the type.
RangesCountElements ==
    topic = "ranges" =>
        LET s == range.start
            e == range.stop
            st == range.step
            series == SeriesOf(s, e, st)
            values == series \ {e}
        IN /\ SeriesCount(s, e, st) = Cardinality(series)
           /\ RangeCount(s, e, st) = Cardinality(values)
           /\ values # {} => /\ ExpectedMin(s, e, st) = Min(values)
                             /\ ExpectedMax(s, e, st) = Max(values)
=============================================================================
