-------------------------------- MODULE Values --------------------------------
(***************************************************************************)
(* The types and values of generators.cpp, and the walks over them that    *)
(* the filters of the properties are made of.  A type is a term, a value a *)
(* tree.  A number stands for the value of a leaf: the offset of a TIMETZ, *)
(* the micros of an INTERVAL, the label of an ENUM; a string is just safe  *)
(* (alphanumeric) or not.  The types that nothing can go wrong with are    *)
(* represented by one of them.                                             *)
(***************************************************************************)
EXTENDS CIntegers, SequencesExt

CONSTANTS
    Types,       \* the types that are generated
    MaxDepth,    \* how many nested types one is within at most: GenType(2)
    Leaves,      \* id of a scalar type other than ENUM -> the values it is tried with
    Names,       \* the labels and field names
    SafeNames,   \* those of them that are alphanumeric
    MaxLen       \* bound: the longest list

\* [size: the width of a DECIMAL, the size of an ARRAY; names: labels, fields or members]
TypeOf(id, size, names, parts) == [id |-> id, size |-> size, names |-> names, parts |-> parts]
Scalar(id) == TypeOf(id, 0, <<>>, <<>>)
Decimal(width) == TypeOf("DECIMAL", width, <<>>, <<>>)
Enum(labels) == TypeOf("ENUM", 0, labels, <<>>)
List(t) == TypeOf("LIST", 0, <<>>, <<t>>)
Array(t, size) == TypeOf("ARRAY", size, <<>>, <<t>>)
Struct(names, ts) == TypeOf("STRUCT", 0, names, ts)
MapType(k, v) == TypeOf("MAP", 0, <<>>, <<k, v>>)
Union(names, ts) == TypeOf("UNION", 0, names, ts)

IsNested(t) == t.id \in {"LIST", "ARRAY", "STRUCT", "MAP", "UNION"}

\* A value: the members of a UNION other than its own are NULL and left out; the
\* entries of a MAP are STRUCTs.
Value(t, leaf, parts) == [type |-> t, null |-> FALSE, leaf |-> leaf, parts |-> parts]
NullOf(t) == [type |-> t, null |-> TRUE, leaf |-> 0, parts |-> <<>>]

Safe == 1   \* the leaf of a VARCHAR or BLOB that is an alphanumeric string

-----------------------------------------------------------------------------
PartsOf(S) == UNION {{y.parts[i] : i \in DOMAIN y.parts} : y \in S}

\* A type or value, its parts, their parts, and so on down to a depth.
Levels(x, depth) ==
    LET level[n \in 0..depth] == IF n = 0 THEN {x} ELSE PartsOf(level[n - 1])
    IN level

ValueDepth == 2 * MaxDepth

\* Mutant of VisitedTypes: of a MAP only the keys are looked at.
VisitedKeyTypes(t) ==
    LET level[n \in 0..MaxDepth] ==
            IF n = 0 THEN {t}
            ELSE UNION {{c.parts[i] : i \in IF c.id = "MAP" THEN {1} ELSE DOMAIN c.parts} : c \in level[n - 1]}
    IN UNION {level[n] : n \in 0..MaxDepth}

\* The types that TypeContains shows its predicate, and the values ValueContains does.
VisitedTypes(t) == LET level == Levels(t, MaxDepth) IN UNION {level[n] : n \in 0..MaxDepth}
VisitedValues(v) == LET level == Levels(v, ValueDepth) IN UNION {level[n] : n \in 0..ValueDepth}

TypeContainsAny(t, ids) == \E c \in VisitedTypes(t) : c.id \in ids

IsSafeString(s) == s \in SafeNames

AllSafe(t, id) == \A c \in VisitedTypes(t) : c.id = id => \A i \in DOMAIN c.names : IsSafeString(c.names[i])
TypeHasSafeEnumValues(t) == AllSafe(t, "ENUM")
TypeHasSafeFieldNames(t) == AllSafe(t, "STRUCT")

ValuesEqual(v, w) == v = w
ValuesEqualLoose(v, w) == v.null = w.null /\ v.leaf = w.leaf /\ v.parts = w.parts

-----------------------------------------------------------------------------
\* What GenType generates at a level: the scalar types, and above the last the nested ones.
GeneratedAt(t, n) ==
    IF ~IsNested(t)
    THEN /\ t.parts = <<>>
         /\ t.id \in DOMAIN Leaves \/ (t.id = "ENUM" /\ t.names # <<>> /\ IsInjective(t.names))
         /\ t.id = "DECIMAL" => t.size \in 1..38
    ELSE /\ n < MaxDepth
         /\ t.id \in {"LIST", "ARRAY"} => DOMAIN t.parts = {1}
         /\ t.id = "MAP" => DOMAIN t.parts = {1, 2}
         /\ t.id = "ARRAY" => t.size \in 1..4
         /\ t.id \in {"STRUCT", "UNION"} =>
                t.names # <<>> /\ IsInjective(t.names) /\ DOMAIN t.parts = DOMAIN t.names
         /\ t.id = "UNION" => Len(t.names) <= 8

Generated(t) ==
    \A n \in 0..MaxDepth : \A c \in Levels(t, MaxDepth)[n] : c.names \in Seq(Names) /\ GeneratedAt(c, n)

ASSUME GenTypeAssumption ==
    /\ MaxDepth \in Nat
    /\ \A t \in Types : Generated(t)

ASSUME LeavesAssumption ==
    /\ \A id \in DOMAIN Leaves : Leaves[id] \subseteq Int
    /\ SafeNames \subseteq Names /\ {"key", "value"} \subseteq SafeNames
    /\ MaxLen \in Nat

Options == [nulls : BOOLEAN, safe_strings : BOOLEAN]

\* The options for the keys of a MAP: no key is NULL.
KeyOptions(options) == [options EXCEPT !.nulls = FALSE]

\* The values of a scalar type: GenNonNullValue draws safe strings if it is told to.
LeavesOf(t, options) ==
    CASE t.id = "ENUM" -> DOMAIN t.names
      [] t.id \in {"VARCHAR", "BLOB"} /\ options.safe_strings -> {Safe}
      [] OTHER -> Leaves[t.id]

SeqsOf(S) == UNION {[1..n -> S] : n \in 0..MaxLen}

\* A key that is there already is dropped, so that any different ones may remain.
DistinctKeys(S) == {keys \in SeqsOf(S) : IsInjective(keys)}

Entry(t, k, v) == Value(Struct(<<"key", "value">>, t.parts), 0, <<k, v>>)
Entries(t, keys, values) == [i \in DOMAIN keys |-> Entry(t, keys[i], values[i])]

\* The values of a type, where GenValue[<<t, options>>] are those of its parts.
GenNonNullValue(GenValue, t, options) ==
    LET Part(i) == GenValue[<<t.parts[i], options>>]
    IN CASE t.id = "LIST" -> {Value(t, 0, s) : s \in SeqsOf(Part(1))}
         [] t.id = "ARRAY" -> {Value(t, 0, s) : s \in [1..t.size -> Part(1)]}
         [] t.id = "STRUCT" ->
                {Value(t, 0, s) : s \in {s \in [DOMAIN t.parts -> UNION {Part(i) : i \in DOMAIN t.parts}] :
                                            \A i \in DOMAIN t.parts : s[i] \in Part(i)}}
         [] t.id = "MAP" ->
                UNION {{Value(t, 0, Entries(t, keys, values)) : values \in [DOMAIN keys -> Part(2)]} :
                       keys \in DistinctKeys(GenValue[<<t.parts[1], KeyOptions(options)>>])}
         [] t.id = "UNION" -> UNION {{Value(t, tag, <<x>>) : x \in Part(tag)} : tag \in DOMAIN t.parts}
         [] OTHER -> {Value(t, leaf, <<>>) : leaf \in LeavesOf(t, options)}

AllTypes == UNION {VisitedTypes(t) : t \in Types}

\* The values of types within which are so many levels, less one, of others.
GenValueWithin[levels \in 0..MaxDepth + 1] ==
    [at \in AllTypes \X Options |->
        IF levels = 0 THEN {}
        ELSE GenNonNullValue(GenValueWithin[levels - 1], at[1], at[2])
                \cup IF at[2].nulls THEN {NullOf(at[1])} ELSE {}]

GenValue(t, options) == GenValueWithin[MaxDepth + 1][<<t, options>>]
=============================================================================
