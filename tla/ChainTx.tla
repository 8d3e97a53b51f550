------------------------------ MODULE ChainTx ------------------------------
(***************************************************************************)
(* Transactions of the bot's account: ChainExecutor.send_tx, the wait for  *)
(* a calm pool in front of deposits and withdrawals (BeefyExecutor), and   *)
(* what OperationLifecycle writes into the operation's row before and      *)
(* after such a call. Requests overlap and share the account's nonces; the *)
(* process may die; the node and the chain go on.                          *)
(*                                                                         *)
(* Left out: amounts, gas, approvals (calls like any other, without a row).*)
(***************************************************************************)
EXTENDS Naturals, FiniteSets

CONSTANTS Calls,       \* on-chain calls, each with the row it is written to
          Checked,     \* those that wait for a calm pool
          Tries,       \* looks at the pool: one, and the delays of _CALM_RETRY_DELAYS
          MaxFee,      \* bound: fees, of which a higher one replaces a lower one
          MaxFaults,   \* bound: answers of the node lost, transactions evicted
          MaxCrashes   \* bound: restarts

ASSUME ChainAssumption ==
    /\ Checked \subseteq Calls
    /\ Tries \in Nat \ {0} /\ MaxFee \in Nat /\ MaxFaults \in Nat /\ MaxCrashes \in Nat

VARIABLES
    at,        \* where each call is
    tries,     \* looks at the pool it has taken
    nonce,     \* the nonce it was given
    row,       \* the stage of its row: a hash goes with "confirmed"
    up,        \* the process has started
    mempool,   \* transactions the node has accepted
    height,    \* transactions of the account that were executed
    done,      \* how often each call was executed
    reverted,  \* how often it was executed in vain
    unseen,    \* history: calls that ended, or died, between sending and the receipt
    faults, crashes

callVars == <<at, tries, nonce, unseen>>
nodeVars == <<mempool, height, done, reverted>>
vars == <<callVars, row, up, nodeVars, faults, crashes>>

Unsent == {"new", "check", "nonce", "send"}
Ended == {"ok", "raised"}
Transactions == [call : Calls, nonce : Nat, fee : 1..MaxFee]

TypeOK ==
    /\ at \in [Calls -> Unsent \cup {"wait"} \cup Ended]
    /\ tries \in [Calls -> 0..Tries]
    /\ nonce \in [Calls -> Nat]
    /\ row \in [Calls -> {"none", "pending", "confirmed", "failed"}]
    /\ up \in BOOLEAN
    /\ mempool \subseteq Transactions
    /\ height \in Nat
    /\ done \in [Calls -> Nat] /\ reverted \in [Calls -> Nat]
    /\ unseen \subseteq Calls
    /\ faults \in 0..MaxFaults /\ crashes \in 0..MaxCrashes

Init ==
    /\ at = [c \in Calls |-> "new"]
    /\ tries = [c \in Calls |-> 0]
    /\ nonce = [c \in Calls |-> 0]
    /\ row = [c \in Calls |-> "none"]
    /\ up = TRUE
    /\ mempool = {} /\ height = 0
    /\ done = [c \in Calls |-> 0] /\ reverted = [c \in Calls |-> 0]
    /\ unseen = {} /\ faults = 0 /\ crashes = 0

Goto(c, place) == at' = [at EXCEPT ![c] = place]
Fault == faults < MaxFaults /\ faults' = faults + 1
-----------------------------------------------------------------------------
(***************************************************************************)
(* The call, from the row's "pending" to the transaction. Before it is     *)
(* sent any request may raise, and nothing has happened.                   *)
(***************************************************************************)
Begin(c) ==
    /\ up /\ at[c] = "new"
    /\ row' = [row EXCEPT ![c] = "pending"]
    /\ Goto(c, IF c \in Checked THEN "check" ELSE "nonce")
    /\ UNCHANGED <<tries, nonce, unseen, up, nodeVars, faults, crashes>>

\* _is_calm, and a call that fails for another reason passes too.
Calm(c) ==
    /\ at[c] = "check"
    /\ Goto(c, "nonce")
    /\ UNCHANGED <<tries, nonce, unseen, row, up, nodeVars, faults, crashes>>

\* (Variant: one look too many.)
NotCalmOnceMore(c) ==
    /\ tries' = [tries EXCEPT ![c] = @ + 1]
    /\ IF tries[c] < Tries THEN UNCHANGED at ELSE Goto(c, "raised")

NotCalm(c) ==
    /\ tries' = [tries EXCEPT ![c] = @ + 1]
    /\ IF tries[c] + 1 < Tries THEN UNCHANGED at ELSE Goto(c, "raised")

Waits(c) ==
    /\ at[c] = "check"
    /\ NotCalm(c)
    /\ UNCHANGED <<nonce, unseen, row, up, nodeVars, faults, crashes>>

\* The gas is estimated, then get_transaction_count(.., "pending"): the first
\* nonce without a transaction.
Unused(n) == n > height /\ \A t \in mempool : t.nonce # n

GetNonce(c) ==
    /\ at[c] = "nonce"
    /\ \E n \in (height + 1)..(height + 1 + Cardinality(mempool)) :
          /\ Unused(n) /\ \A m \in (height + 1)..(n - 1) : ~Unused(m)
          /\ nonce' = [nonce EXCEPT ![c] = n]
    /\ Goto(c, "send")
    /\ UNCHANGED <<tries, unseen, row, up, nodeVars, faults, crashes>>

RaisesBefore(c) ==
    /\ at[c] \in {"nonce", "send"}
    /\ Goto(c, "raised")
    /\ UNCHANGED <<tries, nonce, unseen, row, up, nodeVars, faults, crashes>>

(***************************************************************************)
(* send_raw_transaction. The node takes a transaction for a nonce that is  *)
(* not used, or instead of one that pays less; any other it refuses        *)
(* (RaisesBefore).                                                         *)
(***************************************************************************)
Rivals(c) == {t \in mempool : t.nonce = nonce[c]}

Accepted(c, fee) ==
    /\ at[c] = "send" /\ nonce[c] > height
    /\ \A t \in Rivals(c) : t.fee < fee
    /\ mempool' = (mempool \ Rivals(c)) \cup {[call |-> c, nonce |-> nonce[c], fee |-> fee]}
    /\ UNCHANGED <<tries, nonce, row, up, height, done, reverted, crashes>>

Send(c) ==
    /\ \E fee \in 1..MaxFee : Accepted(c, fee)
    /\ Goto(c, "wait")
    /\ UNCHANGED <<unseen, faults>>

\* The transaction is out, the call does not know.
SendAnswerLost(c) ==
    /\ \E fee \in 1..MaxFee : Accepted(c, fee)
    /\ Goto(c, "raised")
    /\ unseen' = unseen \cup {c}
    /\ Fault
-----------------------------------------------------------------------------
(***************************************************************************)
(* wait_for_receipt: for this hash, for three minutes.                     *)
(***************************************************************************)
\* (Variant: whatever was executed under the nonce counts.)
ReceiptOfNonce(c) == height >= nonce[c]

ReceiptOk(c) == done[c] > 0

Confirmed(c) ==
    /\ at[c] = "wait" /\ ReceiptOk(c)
    /\ Goto(c, "ok")
    /\ UNCHANGED <<tries, nonce, unseen, row, up, nodeVars, faults, crashes>>

\* (Variant: a receipt that is not there yet is one without success.)
NoSuccess(c) == done[c] = 0

HasReverted(c) == reverted[c] > 0

Reverts(c) ==
    /\ at[c] = "wait" /\ HasReverted(c)
    /\ Goto(c, "raised")
    /\ UNCHANGED <<tries, nonce, unseen, row, up, nodeVars, faults, crashes>>

\* (Variant: a call that is sent again when no receipt comes.)
AfterTimeoutResend == "nonce"

AfterTimeout == "raised"

TimesOut(c) ==
    /\ at[c] = "wait"
    /\ Goto(c, AfterTimeout)
    /\ unseen' = unseen \cup {c}
    /\ UNCHANGED <<tries, nonce, row, up, nodeVars, faults, crashes>>

\* (Variant: an exception leaves the row as it is.)
Answered(c) == at[c] = "ok"

IsOver(c) == at[c] \in Ended

\* The hash is written with the stage after, or the operation fails.
Record(c) ==
    /\ up /\ IsOver(c) /\ row[c] = "pending"
    /\ row' = [row EXCEPT ![c] = IF at[c] = "ok" THEN "confirmed" ELSE "failed"]
    /\ UNCHANGED <<callVars, up, nodeVars, faults, crashes>>

Proceeds(c) == Calm(c) \/ Waits(c) \/ GetNonce(c) \/ RaisesBefore(c)
               \/ Send(c) \/ Confirmed(c) \/ Reverts(c) \/ TimesOut(c) \/ Record(c)
-----------------------------------------------------------------------------
(***************************************************************************)
(* The node and the chain: nonces are executed in order. What becomes of a *)
(* deposit or a swap (slippage, deadline) is the contract's to say.        *)
(***************************************************************************)
Mine(t) ==
    /\ t.nonce = height + 1
    /\ mempool' = mempool \ {t} /\ height' = height + 1
    /\ \/ done' = [done EXCEPT ![t.call] = @ + 1] /\ UNCHANGED reverted
       \/ reverted' = [reverted EXCEPT ![t.call] = @ + 1] /\ UNCHANGED done
    /\ UNCHANGED <<callVars, row, up, faults, crashes>>

Evict(t) ==
    /\ Fault
    /\ mempool' = mempool \ {t}
    /\ UNCHANGED <<callVars, row, up, height, done, reverted, crashes>>

(***************************************************************************)
(* The process dies with everything it waited for. At startup              *)
(* resume_in_flight looks at the rows: one that is pending has no hash, so *)
(* there is nothing to wait for, and _continue_bootstrap or                *)
(* _continue_teardown fail it.                                             *)
(***************************************************************************)
Crash ==
    /\ up /\ crashes < MaxCrashes
    /\ up' = FALSE /\ crashes' = crashes + 1
    /\ at' = [c \in Calls |-> IF at[c] \in {"new"} \cup Ended THEN at[c] ELSE "raised"]
    /\ unseen' = unseen \cup {c \in Calls : at[c] = "wait" \/ (at[c] = "ok" /\ row[c] = "pending")}
    /\ UNCHANGED <<tries, nonce, row, nodeVars, faults>>

Resume ==
    /\ ~up
    /\ up' = TRUE
    /\ row' = [c \in Calls |-> IF row[c] = "pending" THEN "failed" ELSE row[c]]
    /\ UNCHANGED <<callVars, nodeVars, faults, crashes>>
-----------------------------------------------------------------------------
Next ==
    \/ \E c \in Calls : Begin(c) \/ Proceeds(c) \/ SendAnswerLost(c)
    \/ \E t \in mempool : Mine(t) \/ Evict(t)
    \/ Crash \/ Resume

(* A request to the node is answered or raises, a sleep ends, the wait for *)
(* the receipt too, and the supervisor starts the process again. Nothing   *)
(* makes the chain execute a transaction.                                  *)
Fairness == WF_vars(Resume) /\ \A c \in Calls : WF_vars(Proceeds(c))

Spec == Init /\ [][Next]_vars /\ Fairness
-----------------------------------------------------------------------------
answer == [c \in Calls |-> IF at[c] = "new" THEN "not called"
                           ELSE IF at[c] \in Ended THEN at[c] ELSE "none"]

Once == INSTANCE CallOnce WITH effects <- done

(* A call takes effect at most once and answers only when it has, whatever *)
(* the calls beside it do with the same nonce.                             *)
OnceSpec == Once!Spec

(* An operation does not stay half way in a call: its row is written when  *)
(* the call ends, whether it answers, raises or waits in vain for a calm   *)
(* pool or a receipt, or at the next start.                                *)
RowsSettle == \A c \in Calls : row[c] = "pending" ~> row[c] \in {"confirmed", "failed"}

(* A call takes effect for a row that failed only when its outcome was not *)
(* seen: nobody waits any more, and no hash is written by which the        *)
(* transaction could be found. Everything else that fails has failed on    *)
(* the chain, too.                                                         *)
FailedIsUndone ==
    \A c \in Calls : row[c] = "failed" /\ c \notin unseen =>
        done[c] = 0 /\ \A t \in mempool : t.call # c
=============================================================================
