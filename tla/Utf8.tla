--------------------------------- MODULE Utf8 ---------------------------------
(***************************************************************************)
(* The conversions of generators.cpp between code points and the bytes of  *)
(* a UTF-8 string.  A string is the sequence of its bytes.                 *)
(***************************************************************************)
EXTENDS Integers, SequencesExt

LastCodePoint == 1114111
CodePoints == 0..LastCodePoint

\* Six bits of cp, those above the unit, as a continuation byte.
Continuation(cp, unit) == 128 + ((cp \div unit) % 64)

Encoded(cp) ==
    CASE cp < 128 -> <<cp>>
      [] 128 <= cp /\ cp < 2048 -> <<192 + (cp \div 64), Continuation(cp, 1)>>
      [] 2048 <= cp /\ cp < 65536 -> <<224 + (cp \div 4096), Continuation(cp, 64), Continuation(cp, 1)>>
      [] OTHER -> <<240 + (cp \div 262144), Continuation(cp, 4096), Continuation(cp, 64),
                    Continuation(cp, 1)>>

FromCodepoints(cps) == FlattenSeq([i \in DOMAIN cps |-> Encoded(cps[i])])

\* The bytes of the character a byte begins, and the bits of it in that byte.
\* A byte that begins none is taken for one that begins four.
Leads(c) ==
    CASE c < 128 -> [len |-> 1, bits |-> c]
      [] c \div 32 = 6 -> [len |-> 2, bits |-> c % 32]
      [] c \div 16 = 14 -> [len |-> 3, bits |-> c % 16]
      [] OTHER -> [len |-> 4, bits |-> c % 8]

\* The character that begins at a byte, six more bits from each byte that follows.
\* The bytes after the last one are not the string's: one cut short has no decoding.
Decoded(s, i) ==
    LET lead == Leads(s[i])
        cp[j \in 1..lead.len] == IF j = 1 THEN lead.bits ELSE cp[j - 1] * 64 + (s[i + j - 1] % 64)
    IN cp[lead.len]

\* The loop ends where a character does, at the end or, cut short, up to three behind it.
ToCodepoints(s) ==
    LET from[i \in 1..Len(s) + 4] ==
            IF i > Len(s) THEN <<>> ELSE <<Decoded(s, i)>> \o from[i + Leads(s[i]).len]
    IN from[1]
=============================================================================
