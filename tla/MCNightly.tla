------------------------------ MODULE MCNightly ------------------------------
(***************************************************************************)
(* A property that may break and a probe of an open bug, each of which can *)
(* be a finding; the scheduled run and one started by hand.                *)
(***************************************************************************)
EXTENDS Nightly

MCPosition == [f \in Fingerprints |-> IF f = "probe" THEN 1 ELSE 2]
=============================================================================
