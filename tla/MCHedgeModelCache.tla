------------------------- MODULE MCHedgeModelCache -------------------------
(* Instance of HedgeModelCache for TLC: two vaults, two refreshes at once. *)
(* The first vault is selected from the beginning: the other one would do  *)
(* as well, and until a pair is selected nothing happens.                  *)
EXTENDS HedgeModelCache

CONSTANTS First, Second

MCVaults == {First, Second}
MCInit == CacheInit /\ selected = First

MCSpec == MCInit /\ [][CacheNext]_allVars /\ CacheFairness
=============================================================================
