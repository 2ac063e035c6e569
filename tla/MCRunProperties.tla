--------------------------- MODULE MCRunProperties ---------------------------
(***************************************************************************)
(* Two ordinary properties around a probe for an open issue, in listings   *)
(* of every length, one with an entry that cannot be parsed; the script is *)
(* started twice over the same directory.                                  *)
(***************************************************************************)
EXTENDS RunProperties

MCEntry == {"trim", "sort", "probe"}
MCExpectation == [e \in MCEntry |-> IF e = "probe" THEN "known_fail" ELSE "pass"]
MCListings == {<<>>, <<"trim", "">>, <<"trim", "probe", "sort">>, <<"probe", "sort">>}
=============================================================================
