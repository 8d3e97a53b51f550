----------------------------- MODULE MCChainTx -----------------------------
(* Instance of ChainTx for TLC: a deposit, and a swap that goes on beside   *)
(* it and shares its nonces.                                                *)
EXTENDS ChainTx

CONSTANTS Swap, Deposit

MCCalls == {Swap, Deposit}
=============================================================================
