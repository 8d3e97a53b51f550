-------------------------- MODULE MCPositionTruth --------------------------
(* Instance of PositionTruth for TLC: a flat LP, a small one and a larger  *)
(* one, so that the engine both sells and covers; orders of two steps or   *)
(* more, with a catch-up tolerance of one step.                            *)
EXTENDS PositionTruth

MCTargets == {0, 2, 4}
=============================================================================
