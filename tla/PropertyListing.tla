--------------------------- MODULE PropertyListing ---------------------------
(***************************************************************************)
(* How run_properties.sh learns what there is to run: in a process of its  *)
(* own fuzzing_properties() lists the registry chunk by chunk, the shell   *)
(* prints a row as a line, and the script reads its fields again, of which *)
(* the issue may be empty.  Other processes answer fuzzing_check().        *)
(***************************************************************************)
EXTENDS FuzzingCheck

CONSTANT Null   \* a NULL

ASSUME ListingAssumption == \A p \in Properties : p.issue # Null

VARIABLES
    listing,     \* "none", "scanning", "finished" or "failed"
    listOffset,  \* FuzzingPropertiesState.offset
    listChunk,   \* the rows of the chunk that is filled
    lines,       \* PROPERTIES
    index,       \* the entry the script is at
    calls        \* the fields of the entries whose properties it runs

listingVars == <<listing, listOffset, listChunk, lines, index, calls>>

ListingInit ==
    /\ Init
    /\ listing = "none"
    /\ listOffset = 0
    /\ listChunk = <<>> /\ lines = <<>> /\ calls = <<>>
    /\ index = 0

-----------------------------------------------------------------------------
NullableString(s) == IF s = "" THEN Null ELSE s

\* A row of fuzzing_properties().
RowOf(p) ==
    [suite |-> p.suite, property |-> p.name, issue |-> NullableString(p.issue),
     expectation |-> p.expectation, deterministic |-> p.deterministic,
     requires_extension |-> NullableString(p.requires_extension)]

\* SELECT suite, expectation, coalesce(issue, ''), property
LineOf(row) ==
    <<row.suite, row.expectation, IF row.issue = Null THEN "" ELSE row.issue, row.property>>

StartListing ==
    /\ loaded /\ scan = "none" /\ listing = "none"
    /\ listing' = "scanning"
    /\ UNCHANGED <<vars, listOffset, listChunk, lines, index, calls>>

MoreToList == Len(listChunk) < VectorSize /\ listOffset < Len(registry)

ListRow ==
    /\ listing = "scanning" /\ MoreToList
    /\ listChunk' = Append(listChunk, RowOf(registry[listOffset + 1]))
    /\ listOffset' = listOffset + 1
    /\ UNCHANGED <<vars, listing, lines, index, calls>>

\* An empty chunk ends the scan.
PrintChunk ==
    /\ listing = "scanning" /\ ~MoreToList
    /\ lines' = lines \o [i \in DOMAIN listChunk |-> LineOf(listChunk[i])]
    /\ listing' = IF listChunk = <<>> THEN "finished" ELSE listing
    /\ listChunk' = <<>>
    /\ UNCHANGED <<vars, listOffset, index, calls>>

\* Mutant of Fields: the separator is whitespace, and two of them are one.
FieldsOfWords(line) ==
    LET words == SelectSeq(line, LAMBDA w : w # "")
    IN [i \in 1..4 |-> IF i <= Len(words) THEN words[i] ELSE ""]

\* IFS="$SEP" read -r suite expectation issue property
Fields(line) == [i \in 1..4 |-> line[i]]

\* An entry without a suite or a property ends the script.
ReadEntry ==
    /\ listing = "finished" /\ index < Len(lines)
    /\ LET fields == Fields(lines[index + 1])
       IN IF fields[1] = "" \/ fields[4] = ""
          THEN listing' = "failed" /\ UNCHANGED calls
          ELSE /\ calls' = Append(calls, [suite |-> fields[1], expectation |-> fields[2],
                                          issue |-> fields[3], property |-> fields[4]])
               /\ UNCHANGED listing
    /\ index' = index + 1
    /\ UNCHANGED <<vars, listOffset, listChunk, lines>>

ListingNext ==
    \/ listing = "none" /\ Next /\ UNCHANGED listingVars
    \/ StartListing
    \/ ListRow
    \/ PrintChunk
    \/ ReadEntry

ListingSpec == ListingInit /\ [][ListingNext]_<<vars, listingVars>>

-----------------------------------------------------------------------------
\* "Run every registered property": whatever its issue and the chunk it is listed in,
\* each call of the script selects one property and no other, with the expectation and
\* the issue crash_record.py goes by, and in the end no property has been left out.
EveryCallIsOneProperty ==
    /\ listing # "failed"
    /\ \A n \in DOMAIN calls :
        /\ {i \in DOMAIN registry :
              registry[i].suite = calls[n].suite /\ registry[i].name = calls[n].property} = {n}
        /\ registry[n].expectation = calls[n].expectation
        /\ registry[n].issue = calls[n].issue
    /\ listing = "finished" /\ index = Len(lines) => Len(calls) = Cardinality(Properties)
=============================================================================
