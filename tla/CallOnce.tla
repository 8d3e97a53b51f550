------------------------------ MODULE CallOnce ------------------------------
(***************************************************************************)
(* What the rest of the program may take an on-chain call for              *)
(* (ChainExecutor.send_tx): it takes effect at most once; it answers only  *)
(* when it has; and when it raises that says nothing, for the effect may   *)
(* still come.                                                             *)
(***************************************************************************)
EXTENDS Naturals

CONSTANT Calls

VARIABLES
    effects,  \* how often each call took effect
    answer    \* what its caller was told

vars == <<effects, answer>>

Init ==
    /\ effects = [c \in Calls |-> 0]
    /\ answer = [c \in Calls |-> "not called"]

Call(c) ==
    /\ answer[c] = "not called"
    /\ answer' = [answer EXCEPT ![c] = "none"]
    /\ UNCHANGED effects

TakesEffect(c) ==
    /\ answer[c] # "not called" /\ effects[c] = 0
    /\ effects' = [effects EXCEPT ![c] = 1]
    /\ UNCHANGED answer

Answers(c) ==
    /\ answer[c] = "none" /\ effects[c] = 1
    /\ answer' = [answer EXCEPT ![c] = "ok"]
    /\ UNCHANGED effects

\* Several at once when the process dies.
Raise(failed) ==
    /\ \A c \in failed : answer[c] = "none"
    /\ answer' = [c \in Calls |-> IF c \in failed THEN "raised" ELSE answer[c]]
    /\ UNCHANGED effects

Next == \/ \E c \in Calls : Call(c) \/ TakesEffect(c) \/ Answers(c)
        \/ \E failed \in SUBSET Calls : Raise(failed)

Spec == Init /\ [][Next]_vars
=============================================================================
