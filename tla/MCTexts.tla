------------------------------- MODULE MCTexts -------------------------------
(***************************************************************************)
(* Alphabets that bring out what each oracle has to tell apart: wildcards, *)
(* escapes and both cases for LIKE; characters of one to four bytes that   *)
(* have continuation bytes in common; three letters, two values and NULL.  *)
(***************************************************************************)
EXTENDS Texts

CONSTANT NoValue

Wildcards == {Percent, Underscore, 92, 65, 97}
Characters == {97, 162, 8354, 73890}
Letters == {"a", "b", "c"}
Values == {1, 2, NoValue}

MCTopics ==
    [like |-> [chars |-> Wildcards \ {Underscore}, otherChars |-> Wildcards, maxText |-> 3, maxOther |-> 4],
     places |-> [chars |-> Characters, otherChars |-> Characters, maxText |-> 4, maxOther |-> 2],
     edits |-> [chars |-> Letters, otherChars |-> Letters, maxText |-> 3, maxOther |-> 3],
     lists |-> [chars |-> Values, otherChars |-> {}, maxText |-> 5, maxOther |-> 0],
     ranges |-> [chars |-> {}, otherChars |-> {}, maxText |-> 0, maxOther |-> 0]]

MCEscapes == {NoEscape, 92}
=============================================================================
