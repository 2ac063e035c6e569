------------------------------ MODULE MCNumbers ------------------------------
(***************************************************************************)
(* Types of two bits against an __int128 of five and the HUGEINT in it;    *)
(* DECIMALs of up to four binary digits, which just fit into five bits, as  *)
(* 38 decimal digits just fit into 128; walks across leap years, the year  *)
(* 0, 1900, 1970, 2000, and from an era to the next; a clock with units of *)
(* two to four smaller ones, from two days before the epoch to two after.  *)
(***************************************************************************)
EXTENDS Numbers

MCTypes == [bits : {2}, signed : BOOLEAN] \cup {[bits |-> 5, signed |-> TRUE]}

\* The first of November of a year.
Autumn(days, year, dow) ==
    [day |-> days, date |-> [y |-> year, m |-> 11, d |-> 1], weekday |-> dow,
     iso |-> [year |-> year, week |-> 44]]

MCStarts ==
    {Autumn(-865686, -401, 1), Autumn(-719589, -1, 1), Autumn(-25628, 1899, 3),
     Autumn(-426, 1968, 5), Autumn(10896, 1999, 1), Autumn(12357, 2003, 6)}

\* The range of DATE begins and ends within a walk, in the middle of a month.
MCMinDate == [y |-> -401, m |-> 11, d |-> 25]
MCMaxDate == [y |-> 2004, m |-> 7, d |-> 10]

MCFirstDay == -2
=============================================================================
