--------------------------- MODULE MCOperatorView ---------------------------
(* Instance of OperatorView for TLC: two levels of alarm, two legs, one     *)
(* picked time.                                                            *)
EXTENDS OperatorView

CONSTANT Noon
=============================================================================
