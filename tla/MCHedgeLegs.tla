---------------------------- MODULE MCHedgeLegs ----------------------------
(* A cross-pair operation whose legs are unhedged, or hedged with one unit. *)
EXTENDS HedgeLegs

MCSizes == {0, 1}
=============================================================================
