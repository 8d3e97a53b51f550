-------------------------- MODULE MCGridTeardown --------------------------
(* Instance of GridTeardown for TLC: two stops a side, two LP ranges.      *)
EXTENDS GridTeardown

MCBounds == <<<<2, 4>>, <<1, 3>>>>
=============================================================================
