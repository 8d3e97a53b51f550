------------------------- MODULE FundingAccumulator -------------------------
(***************************************************************************)
(* How funding payments reach an operation's accumulator: pollers of the   *)
(* Lighter adapter fetch the latest entries once a minute and hand each    *)
(* one to GridMakerEngine._on_funding_payment, which adds it to the        *)
(* operation's row unless its in-memory set says it was added before.      *)
(*                                                                         *)
(* app.py and engine.start both call connect() on the same adapter, and    *)
(* each call starts a poller: there are two of them.                       *)
(***************************************************************************)
EXTENDS Naturals

CONSTANTS Pollers,     \* the _funding_poller_loop tasks
          Entries,     \* how many entries the exchange may post: 1..Entries
          Hedged,      \* those on a market the pair hedges
          Window,      \* the page size of a fetch (100 in the code)
          MaxOps,      \* bound: operations in a behaviour
          MaxFaults,   \* bound: failed fetches, reads and writes
          MaxCrashes   \* bound: restarts of the process

ASSUME FundingAssumption ==
    /\ Entries \in Nat
    /\ Hedged \subseteq 1..Entries
    /\ Window \in Nat
    /\ MaxOps \in Nat
    /\ MaxFaults \in Nat
    /\ MaxCrashes \in Nat

VARIABLES
    posted,    \* entries posted so far; entry e is the e-th, in time order
    op,        \* hub.current_operation_id, 0 for None
    ops,       \* operations started so far
    start,     \* the number of entries posted when each operation started
    counted,   \* how often each entry was added to each operation's row
    seen,      \* _seen_funding_ids
    seenOp,    \* _seen_funding_ids_op_id, 0 for None
    resolved,  \* the market ids of the legs are known
    at,        \* where the coroutine of each poller is
    batch,     \* the entries of its page it has still to hand over
    entry,     \* the entry its callback works on
    opId,      \* the operation that callback read from the hub
    faults, crashes

accounts == <<start, counted>>
memory == <<seen, seenOp, resolved>>
pollers == <<at, batch, entry, opId>>
vars == <<posted, op, ops, accounts, memory, pollers, faults, crashes>>

CountersOK ==
    /\ posted \in 0..Entries
    /\ ops \in 0..MaxOps
    /\ op \in {0, ops}
    /\ faults \in 0..MaxFaults
    /\ crashes \in 0..MaxCrashes

MemoryOK ==
    /\ seen \subseteq 1..Entries
    /\ seenOp \in 0..MaxOps
    /\ resolved \in BOOLEAN

StartOK == start \in [1..MaxOps -> 0..Entries]
CountedOK == counted \in [1..MaxOps -> [1..Entries -> Nat]]
BatchOK == batch \in [Pollers -> SUBSET (1..Entries)]

PollersOK ==
    /\ at \in [Pollers -> {"sleep", "batch", "read", "write"}]
    /\ entry \in [Pollers -> 0..Entries]
    /\ opId \in [Pollers -> 0..MaxOps]

TypeOK == CountersOK /\ MemoryOK /\ StartOK /\ CountedOK /\ BatchOK /\ PollersOK

Init ==
    /\ posted = 0
    /\ op = 0
    /\ ops = 0
    /\ start = [o \in 1..MaxOps |-> 0]
    /\ counted = [o \in 1..MaxOps |-> [e \in 1..Entries |-> 0]]
    /\ seen = {}
    /\ seenOp = 0
    /\ resolved = FALSE
    /\ at = [p \in Pollers |-> "sleep"]
    /\ batch = [p \in Pollers |-> {}]
    /\ entry = [p \in Pollers |-> 0]
    /\ opId = [p \in Pollers |-> 0]
    /\ faults = 0
    /\ crashes = 0

-----------------------------------------------------------------------------
(* The environment.                                                        *)

\* The exchange books a funding payment.
Post ==
    /\ posted < Entries
    /\ posted' = posted + 1
    /\ UNCHANGED <<op, ops, accounts, memory, pollers, faults, crashes>>

\* An operation starts: its row and the hub. The hub may still name an
\* operation that failed. (No page is fetched between the time the row
\* records and the hub's new id: one write to the database.)
StartOp ==
    /\ ops < MaxOps
    /\ ops' = ops + 1
    /\ op' = ops + 1
    /\ start' = [start EXCEPT ![ops + 1] = posted]
    /\ UNCHANGED <<posted, counted, memory, pollers, faults, crashes>>

EndOp ==
    /\ op # 0
    /\ op' = 0
    /\ UNCHANGED <<posted, ops, accounts, memory, pollers, faults, crashes>>

\* resolve_market_ids_for_funding, at startup and when a pair is picked.
Resolve ==
    /\ ~resolved
    /\ resolved' = TRUE
    /\ UNCHANGED <<posted, op, ops, accounts, seen, seenOp, pollers, faults, crashes>>

\* The process restarts: engine.start restores the operation if it is still
\* live, the in-memory set is empty again.
Restart ==
    /\ op' \in {0, op}
    /\ crashes < MaxCrashes
    /\ crashes' = crashes + 1
    /\ seen' = {}
    /\ seenOp' = 0
    /\ resolved' = FALSE
    /\ at' = [p \in Pollers |-> "sleep"]
    /\ batch' = [p \in Pollers |-> {}]
    /\ entry' = [p \in Pollers |-> 0]
    /\ opId' = [p \in Pollers |-> 0]
    /\ UNCHANGED <<posted, ops, accounts, faults>>

-----------------------------------------------------------------------------
(* One poller.                                                             *)

Goto(p, place) == at' = [at EXCEPT ![p] = place]

\* The callback works on entry e for operation o, or is done with its entry.
Take(p, e, o) == entry' = [entry EXCEPT ![p] = e] /\ opId' = [opId EXCEPT ![p] = o]
Done(p) == Goto(p, "batch") /\ Take(p, 0, 0)

\* (Variant: a page whose end is one too far.)
FetchAhead(p) ==
    /\ at[p] = "sleep"
    /\ Goto(p, "batch")
    /\ batch' = [batch EXCEPT ![p] = {e \in 1..(posted + 1) : e + Window > posted}]
    /\ UNCHANGED <<posted, op, ops, accounts, memory, entry, opId, faults, crashes>>

\* _fetch_position_funding: the latest entries, or nothing on an error.
Fetch(p) ==
    /\ at[p] = "sleep"
    /\ Goto(p, "batch")
    /\ batch' = [batch EXCEPT ![p] = {e \in 1..posted : e + Window > posted}]
    /\ UNCHANGED <<posted, op, ops, accounts, memory, entry, opId, faults, crashes>>

FetchFails(p) ==
    /\ at[p] = "sleep"
    /\ faults < MaxFaults
    /\ faults' = faults + 1
    /\ UNCHANGED <<posted, op, ops, accounts, memory, pollers, crashes>>

\* The page is done: the poller sleeps until the next minute.
Sleep(p) ==
    /\ at[p] = "batch"
    /\ batch[p] = {}
    /\ Goto(p, "sleep")
    /\ UNCHANGED <<posted, op, ops, accounts, memory, batch, entry, opId, faults, crashes>>

\* An entry is handed to the callback, which forgets what it has seen when
\* the operation changed and drops an entry of no operation or no leg.
Callback(p) ==
    /\ at[p] = "batch"
    /\ \E e \in batch[p] :
          /\ batch' = [batch EXCEPT ![p] = @ \ {e}]
          /\ IF op # 0 /\ resolved /\ e \in Hedged
             THEN Goto(p, "read") /\ Take(p, e, op)
             ELSE Done(p)
    /\ seen' = IF op # 0 /\ seenOp # op THEN {} ELSE seen
    /\ seenOp' = IF op # 0 THEN op ELSE seenOp
    /\ UNCHANGED <<posted, op, ops, accounts, resolved, faults, crashes>>

\* (Variant: the entry marked only by whoever wrote it, after the await.)
SiftUnmarked(p, since) ==
    IF entry[p] =< since \/ entry[p] \in seen
    THEN Done(p) /\ seen' = seen
    ELSE Goto(p, "write") /\ seen' = seen /\ UNCHANGED <<entry, opId>>

\* After get_operation answered: an entry of before the start is dropped,
\* so is one in the set; any other is put there before its write is awaited.
Sift(p, since) ==
    IF entry[p] =< since \/ entry[p] \in seen
    THEN Done(p) /\ seen' = seen
    ELSE Goto(p, "write") /\ seen' = seen \cup {entry[p]} /\ UNCHANGED <<entry, opId>>

Read(p) ==
    /\ at[p] = "read"
    /\ Sift(p, start[opId[p]])
    /\ UNCHANGED <<posted, op, ops, accounts, seenOp, resolved, batch, faults, crashes>>

\* get_operation raises: the start is taken to be 0.
ReadFails(p) ==
    /\ at[p] = "read"
    /\ faults < MaxFaults
    /\ faults' = faults + 1
    /\ Sift(p, 0)
    /\ UNCHANGED <<posted, op, ops, accounts, seenOp, resolved, batch, crashes>>

\* add_to_operation_accumulator.
Write(p) ==
    /\ at[p] = "write"
    /\ counted' = [counted EXCEPT ![opId[p]][entry[p]] = @ + 1]
    /\ Done(p)
    /\ UNCHANGED <<posted, op, ops, start, memory, batch, faults, crashes>>

\* (Variant: the mark kept although the write failed.)
WriteFailsMarked(p) ==
    /\ at[p] = "write"
    /\ faults < MaxFaults
    /\ faults' = faults + 1
    /\ Done(p)
    /\ UNCHANGED <<posted, op, ops, accounts, memory, batch, crashes>>

\* It raises: the entry leaves the set, for the next poll to retry.
WriteFails(p) ==
    /\ at[p] = "write"
    /\ faults < MaxFaults
    /\ faults' = faults + 1
    /\ seen' = seen \ {entry[p]}
    /\ Done(p)
    /\ UNCHANGED <<posted, op, ops, accounts, seenOp, resolved, batch, crashes>>

-----------------------------------------------------------------------------
Poll(p) == Fetch(p) \/ Sleep(p) \/ Callback(p) \/ Read(p) \/ Write(p)
Fail(p) == FetchFails(p) \/ ReadFails(p) \/ WriteFails(p)

Next ==
    \/ Post \/ StartOp \/ EndOp \/ Resolve \/ Restart
    \/ \E p \in Pollers : Poll(p) \/ Fail(p)

\* The pollers keep polling and the market ids get resolved; that calls
\* fail finitely often is the bound on faults.
Fairness == WF_vars(Resolve) /\ \A p \in Pollers : WF_vars(Poll(p))

Spec == Init /\ [][Next]_vars /\ Fairness

-----------------------------------------------------------------------------
(* Properties.                                                             *)

(* A payment due to the latest operation is added to it at most once while *)
(* the process runs, however the two pollers interleave with each other    *)
(* and with the start of the operation, and once more per restart at most. *)
CountedOncePerRun ==
    ops # 0 => \A e \in 1..Entries :
                  start[ops] < e => counted[ops][e] =< 1 + crashes

(* A payment is added to an operation at most once, restarts included: the *)
(* design holds the set's loss at a restart acceptable, "because backfill  *)
(* at startup re-syncs". The code breaks it: the accumulator is persisted, *)
(* the set that guards it is not.                                          *)
CountedOnce == \A o \in 1..MaxOps, e \in 1..Entries : counted[o][e] =< 1

(* Every payment of a hedged leg posted while an operation lives reaches   *)
(* its row, unless the operation ends first: a failed write is retried.    *)
FundingArrives ==
    \A o \in 1..MaxOps, e \in Hedged :
        (op = o /\ start[o] < e /\ e =< posted) ~> (counted[o][e] > 0 \/ op # o)
=============================================================================
