--------------------------- MODULE MCVaultReaders ---------------------------
(* Instance of VaultReaders for TLC: the main loop and one dashboard.      *)
EXTENDS VaultReaders

CONSTANTS Loop, Dashboard

MCRefreshers == {Loop, Dashboard}
MCSpec == ReadersSpec /\ ReadersFairness(Loop)
=============================================================================
