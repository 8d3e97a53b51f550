---------------------------- MODULE MCEventGrid ----------------------------
(* Instance of EventGrid for TLC: two stops a side around the market, and  *)
(* a second LP range the vault may move to; or one range that has room for *)
(* both stops of each side.                                                *)
EXTENDS EventGrid

MCBounds == <<<<2, 4>>, <<1, 3>>>>
MCWideBounds == <<<<1, 4>>>>
=============================================================================
