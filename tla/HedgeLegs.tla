----------------------------- MODULE HedgeLegs -----------------------------
(***************************************************************************)
(* Who trades the perp legs of an operation, and in which order: the start *)
(* (_bootstrap_dual_leg), hedge-existing and the stop (_teardown_dual_leg) *)
(* of engine/lifecycle.py, and the drift trades of the engine's main loop, *)
(* all through the one order lock of LighterAdapter.                       *)
(*                                                                         *)
(* asyncio.gather returns at the first child that raises and leaves the    *)
(* others running: a leg may be traded for an operation that has already   *)
(* failed. The stop reads the raw WebSocket view (get_position), the main  *)
(* loop the larger of that and what it has credited. What the vault and    *)
(* the table go through is module Lifecycle; how one order is placed and   *)
(* how the estimates are kept is PositionTruth. Here an order is one step, *)
(* a message shows the size of the moment, and requests come one at a      *)
(* time. A single-leg operation is NLegs = 1.                              *)
(***************************************************************************)
EXTENDS Integers, Sequences, FiniteSets, FiniteSetsExt, Functions

CONSTANTS NLegs,       \* perp markets of the pair, opened in this order
          Sizes,       \* shorts the LP may call for
          MaxOps,      \* bound: operations in a behaviour
          MaxReads,    \* bound: iterations of the main loop that find a drift
          MaxFaults,   \* bound: orders that do not go as told, missing prices
          MaxCrashes   \* bound: crashes in a behaviour

ASSUME LegsAssumption ==
    /\ NLegs \in Nat \ {0}
    /\ Sizes \subseteq Nat
    /\ MaxOps \in Nat \ {0}
    /\ MaxReads \in Nat
    /\ MaxFaults \in Nat
    /\ MaxCrashes \in Nat

Legs == 1..NLegs

VARIABLES
    status,     \* of each operation; the hub shows the last one's
    ops,        \* operations begun
    kind, pc,   \* the request being served and where it is
    wait,       \* legs whose order it awaits
    opened,     \* legs opened, that hedge-existing would have to undo
    size,       \* the shorts it decided to open
    queue,      \* orders waiting for _order_lock; the first one holds it
    shares,     \* the vault holds a position
    short,      \* at the exchange; negative is a long
    raw,        \* _observed_position_meta: signed, as last shown
    drift,      \* corrections the main loop's iteration has still to send
    reads, faults, crashes,
    net,        \* history: shorts the orders of hedge-existing really added
    excused,    \* history: legs on which what a request was told, or saw, was
                \* not what happened
    late        \* history: drift orders placed since the operation left ACTIVE

requestVars == <<status, ops, kind, pc, wait, opened, size>>
accountVars == <<short, raw>>
historyVars == <<net, excused, late>>
vars == <<requestVars, queue, shares, accountVars, drift, reads, faults,
          crashes, historyVars>>

Live == {"starting", "active", "stopping"}
NoLegs == [l \in Legs |-> 0]

\* An order: what it changes a short by, who sent it and for which operation.
OrderSet == [leg : Legs, delta : Int \ {0}, by : {"request", "loop"}, op : 1..MaxOps]

RequestOK ==
    /\ status \in [1..MaxOps -> Live \cup {"none", "closed", "failed"}]
    /\ ops \in 0..MaxOps
    /\ kind \in {"none", "start", "hedge", "stop"}
    /\ pc \in {"idle", "gather", "opening", "undo", "undoing", "cancel", "closing", "fail"}
    /\ wait \subseteq Legs
    /\ opened \in Seq(Legs)
    /\ size \in [Legs -> Nat]

QueueOK == queue \in Seq(OrderSet)

AccountOK ==
    /\ shares \in BOOLEAN
    /\ short \in [Legs -> Int] /\ raw \in [Legs -> Int]
    /\ drift \in [Legs -> Int]

CountersOK == reads \in 0..MaxReads /\ faults \in 0..MaxFaults /\ crashes \in 0..MaxCrashes

HistoryOK == excused \subseteq Legs /\ net \in [Legs -> Int] /\ late \in [Legs -> Nat]

TypeOK == RequestOK /\ QueueOK /\ AccountOK /\ CountersOK /\ HistoryOK

Init ==
    /\ status = [i \in 1..MaxOps |-> "none"]
    /\ ops = 0
    /\ kind = "none" /\ pc = "idle" /\ wait = {} /\ opened = <<>> /\ size = NoLegs
    /\ queue = <<>>
    /\ shares = FALSE
    /\ short = NoLegs /\ raw = NoLegs
    /\ drift = NoLegs
    /\ reads = 0 /\ faults = 0 /\ crashes = 0
    /\ excused = {} /\ net = NoLegs /\ late = NoLegs

-----------------------------------------------------------------------------
(* Parts the steps are built from.                                         *)

NowLive == ops > 0 /\ status[ops] \in Live

\* hub.operation_state is ACTIVE.
HubActive == ops > 0 /\ status[ops] = "active"

Changed(d) == {l \in Legs : d[l] # 0}
Only(l, n) == [NoLegs EXCEPT ![l] = n]
First(S) == {l \in S : \A k \in S : l =< k}

\* Orders queue up in the order of their legs; asyncio.Lock is fair.
Order(l, n, by) == [leg |-> l, delta |-> n, by |-> by, op |-> ops]
Lined(S) == {q \in [1..Cardinality(S) -> S] :
                \A i, j \in 1..Cardinality(S) : i < j => q[i] < q[j]}

\* The orders that make the changes d. (Variant: a leg with nothing to
\* trade is sent all the same.)
EvenEmpty(d) == {[i \in DOMAIN q |-> Order(q[i], d[q[i]], "request")] : q \in Lined(Legs)}
Orders(d) == {[i \in DOMAIN q |-> Order(q[i], d[q[i]], "request")] : q \in Lined(Changed(d))}

\* A request sends orders and awaits them. (Variant: all but the first run on
\* as tasks nobody awaits.)
AwaitFirst(d) == First(Changed(d))
Awaited(d) == Changed(d)
Send(d, at) ==
    /\ \E new \in Orders(d) : queue' = queue \o new
    /\ wait' = Awaited(d)
    /\ pc' = at

\* What the operation is remembered by until it has ended.
Forget == size' = NoLegs /\ opened' = <<>> /\ net' = NoLegs /\ excused' = {}

SetStatus(s) == status' = [status EXCEPT ![ops] = s]

\* Legs without a price: an oracle answer that omits a symbol is taken for 0.
Unpriced(legs) ==
    /\ legs # {} => faults < MaxFaults
    /\ faults' = IF legs = {} THEN faults ELSE faults + 1

-----------------------------------------------------------------------------
(* start and hedge-existing.                                               *)

\* bootstrap has deposited and taken its snapshot. Only a missing price of
\* token1 stops it; without one of token0 that short is not opened.
Start ==
    /\ pc = "idle" /\ ~NowLive /\ ops < MaxOps
    /\ ops' = ops + 1
    /\ status' = [status EXCEPT ![ops + 1] = "starting"]
    /\ kind' = "start" /\ pc' = "gather"
    /\ shares' = TRUE
    /\ \E wanted \in [Legs -> Sizes], blind \in SUBSET (IF NLegs > 1 THEN {1} ELSE {}) :
          /\ Unpriced(blind)
          /\ size' = [l \in Legs |-> IF l \in blind THEN 0 ELSE wanted[l]]
    /\ UNCHANGED <<wait, opened, queue, accountVars, drift, reads, crashes, historyVars>>

\* Both shorts at once; the children run up to the lock in turn.
Gather ==
    /\ pc = "gather"
    /\ Send(size, "opening")
    /\ UNCHANGED <<status, ops, kind, opened, size, shares, accountVars, drift, reads,
                   faults, crashes, historyVars>>

\* open_shorts_for_existing_position: reads the vault, not the exchange.
Hedge ==
    /\ pc = "idle" /\ ~NowLive /\ ops < MaxOps /\ shares
    /\ ops' = ops + 1
    /\ status' = [status EXCEPT ![ops + 1] = "starting"]
    /\ kind' = "hedge" /\ pc' = "opening"
    /\ size' \in [Legs -> Sizes]
    /\ UNCHANGED <<wait, opened, queue, shares, accountVars, drift, reads, faults, crashes,
                   historyVars>>

\* Its shorts go one after the other; a leg without a size is passed over.
\* (Variant: it is waited for.)
ToOpenEmpty == Legs \ Range(opened)
ToOpen == {l \in Legs : size[l] > 0} \ Range(opened)
OpenNext ==
    /\ kind = "hedge" /\ pc = "opening" /\ wait = {}
    /\ \E l \in First(ToOpen) : Send(Only(l, size[l]), "opening")
    /\ UNCHANGED <<status, ops, kind, opened, size, shares, accountVars, drift, reads,
                   faults, crashes, historyVars>>

\* A leg that was opened before another one failed is bought back.
Undo ==
    /\ pc = "undo" /\ opened # <<>>
    /\ Send(Only(Head(opened), -size[Head(opened)]), "undoing")
    /\ UNCHANGED <<status, ops, kind, opened, size, shares, accountVars, drift, reads,
                   faults, crashes, historyVars>>

Activate ==
    /\ pc = "opening" /\ wait = {}
    /\ kind = "hedge" => ToOpen = {}
    /\ SetStatus("active")
    /\ pc' = "idle" /\ kind' = "none" /\ Forget
    /\ late' = NoLegs
    /\ UNCHANGED <<ops, wait, queue, shares, accountVars, drift, reads, faults, crashes>>

\* The handlers of the three requests: FAILED, and no order is taken back.
Fail ==
    /\ pc = "fail" \/ (pc = "undo" /\ opened = <<>>)
    /\ SetStatus("failed")
    /\ pc' = "idle" /\ kind' = "none" /\ Forget
    /\ UNCHANGED <<ops, wait, queue, shares, accountVars, drift, reads, faults,
                   crashes, late>>

-----------------------------------------------------------------------------
(* stop.                                                                   *)

Stop ==
    /\ pc = "idle" /\ HubActive
    /\ SetStatus("stopping")
    /\ kind' = "stop" /\ pc' = "cancel"
    /\ UNCHANGED <<ops, wait, opened, size, queue, shares, accountVars, drift, reads,
                   faults, crashes, historyVars>>

\* What closes a leg: the size and side last shown. (Variant: every
\* position is taken for a short.)
CloseShort(l) == -(IF raw[l] < 0 THEN -raw[l] ELSE raw[l])
CloseShown(l) == -raw[l]

\* Every leg that shows a position and has a price is closed, all at once.
CloseLegs ==
    /\ pc = "cancel"
    /\ \E blind \in SUBSET (IF NLegs > 1 THEN Legs ELSE {}) :
          /\ Unpriced(blind)
          /\ Send([l \in Legs |-> IF l \in blind THEN 0 ELSE CloseShown(l)], "closing")
          /\ excused' = blind \cup {l \in Legs : raw[l] # short[l]}
                              \cup {queue[i].leg : i \in DOMAIN queue}
    /\ UNCHANGED <<status, ops, kind, opened, size, shares, accountVars, drift, reads,
                   crashes, net, late>>

\* The vault is withdrawn and the operation closed.
CloseOperation ==
    /\ pc = "closing" /\ wait = {}
    /\ shares' = FALSE
    /\ SetStatus("closed")
    /\ pc' = "idle" /\ kind' = "none" /\ Forget
    /\ UNCHANGED <<ops, wait, queue, accountVars, drift, reads, faults, crashes, late>>

\* The batch cancel, the withdrawal or the swap back raises.
StopRaises ==
    /\ pc \in {"cancel", "closing"} /\ wait = {}
    /\ faults < MaxFaults /\ faults' = faults + 1
    /\ pc' = "fail"
    /\ shares' \in (IF pc = "closing" THEN {TRUE, FALSE} ELSE {shares})
    /\ UNCHANGED <<status, ops, kind, wait, opened, size, queue, accountVars, drift, reads,
                   crashes, historyVars>>

-----------------------------------------------------------------------------
(* The main loop, and the LP it follows.                                   *)

\* (Variant: the loop does not look at the hub.)
Unasked == ops > 0
MayTrade == HubActive

LoopIdle == drift = NoLegs /\ \A i \in DOMAIN queue : queue[i].by # "loop"

\* get_effective_position: the larger of what was shown and what was
\* credited, which is the short but for orders that did not go as told.
Estimate(l) == Max({raw[l], short[l], 0})

\* _iterate reads the LP and the legs and looks at the hub, once, and keeps
\* the differences it would trade.
LoopRead ==
    /\ LoopIdle /\ MayTrade /\ shares
    /\ \E wanted \in [Legs -> Sizes] :
          drift' = [l \in Legs |-> wanted[l] - Estimate(l)]
    /\ drift' # NoLegs
    /\ reads < MaxReads /\ reads' = reads + 1
    /\ UNCHANGED <<requestVars, queue, shares, accountVars, faults, crashes,
                   historyVars>>

\* Later, after the awaits of the PnL and the margin check, leg by leg.
LoopFire ==
    /\ \A i \in DOMAIN queue : queue[i].by # "loop"
    /\ \E l \in First(Changed(drift)) :
          /\ queue' = Append(queue, Order(l, drift[l], "loop"))
          /\ drift' = [drift EXCEPT ![l] = 0]
    /\ UNCHANGED <<requestVars, shares, accountVars, reads, faults, crashes,
                   historyVars>>

-----------------------------------------------------------------------------
(* The adapter.                                                            *)

\* (Variant: a leg is not remembered once it is open.)
NotRecorded(l) == opened
Recorded(l) == Append(opened, l)

\* The order at the head of the queue is its request's, not one of a gather
\* that has been left.
Mine(o) == o.by = "request" /\ o.op = ops /\ o.leg \in wait

\* The coroutine that awaits order o goes on. An order that was accepted
\* returns, filled or not, and nobody looks at its status.
Returned(o) ==
    /\ IF Mine(o) THEN wait' = wait \ {o.leg} ELSE UNCHANGED wait
    /\ opened' = CASE Mine(o) /\ pc = "opening" -> Recorded(o.leg)
                   [] Mine(o) /\ pc = "undoing" -> Tail(opened)
                   [] OTHER -> opened
    /\ pc' = IF Mine(o) /\ pc = "undoing" THEN "undo" ELSE pc

\* The gather raises at once and awaits no other child; a cleanup that
\* raises is logged; the main loop logs as well.
Raised(o) ==
    /\ wait' = IF Mine(o) THEN {} ELSE wait
    /\ pc' = CASE Mine(o) /\ (pc = "undoing" \/ kind = "hedge") -> "undo"
               [] Mine(o) /\ kind # "hedge" -> "fail"
               [] OTHER -> pc
    /\ opened' = IF Mine(o) /\ pc = "undoing" THEN Tail(opened) ELSE opened

Filled(o) == short' = [short EXCEPT ![o.leg] = @ + o.delta]

\* The first order in the queue is placed: filled; accepted but not filled;
\* refused; or filled although its answer is lost.
Place(filled, told) ==
    /\ queue # <<>>
    /\ faults' = IF filled /\ told THEN faults ELSE faults + 1
    /\ faults' =< MaxFaults
    /\ LET o == Head(queue)
       IN /\ queue' = Tail(queue)
          /\ IF filled THEN Filled(o) ELSE UNCHANGED short
          /\ IF told THEN Returned(o) ELSE Raised(o)
          /\ net' = IF filled /\ kind = "hedge" /\ Mine(o)
                    THEN [net EXCEPT ![o.leg] = @ + o.delta] ELSE net
          /\ excused' = IF /\ kind \in {"hedge", "stop"}
                           /\ \/ filled # told
                              \/ ~filled /\ pc = "undoing"
                              \/ filled /\ ~Mine(o)
                        THEN excused \cup {o.leg} ELSE excused
          /\ late' = IF o.by = "loop" /\ ~HubActive
                     THEN [late EXCEPT ![o.leg] = @ + 1] ELSE late
    /\ UNCHANGED <<status, ops, kind, size, shares, raw, drift, reads, crashes>>

\* An account message: a flat leg is missing from it, and a short that was
\* shown is then kept ...
Message(l) ==
    /\ raw' = [raw EXCEPT ![l] = IF short[l] # 0 \/ @ =< 0 THEN short[l] ELSE @]
    /\ UNCHANGED <<requestVars, queue, shares, short, drift, reads, faults, crashes,
                   historyVars>>

\* ... until the reconciler has asked over HTTP.
Reconcile(l) ==
    /\ \A i \in DOMAIN queue : queue[i].leg # l
    /\ raw' = [raw EXCEPT ![l] = short[l]]
    /\ UNCHANGED <<requestVars, queue, shares, short, drift, reads, faults, crashes,
                   historyVars>>

\* The process dies and starts again: the order under way may have filled,
\* the others were never sent, what was in flight is written off.
Crash ==
    /\ crashes < MaxCrashes
    /\ crashes' = crashes + 1
    /\ \/ UNCHANGED short
       \/ queue # <<>> /\ Filled(Head(queue))
    /\ queue' = <<>>
    /\ raw' = short'
    /\ status' = [i \in 1..MaxOps |->
                    IF status[i] \in {"starting", "stopping"} THEN "failed" ELSE status[i]]
    /\ kind' = "none" /\ pc' = "idle" /\ wait' = {}
    /\ drift' = NoLegs
    /\ Forget /\ UNCHANGED <<ops, shares, reads, faults, late>>

-----------------------------------------------------------------------------
Request ==
    \/ Gather \/ OpenNext \/ Undo \/ Activate \/ Fail
    \/ CloseLegs \/ CloseOperation \/ StopRaises

Placement == \E filled, told \in BOOLEAN : Place(filled, told)

Next ==
    \/ Start \/ Hedge \/ Stop \/ Request \/ Placement
    \/ LoopRead \/ LoopFire
    \/ \E l \in Legs : Message(l) \/ Reconcile(l)
    \/ Crash

\* A request that can go on does, and the adapter gives every order an end
\* (its retries and its wait for the fill are bounded).
Fairness == WF_vars(Request) /\ WF_vars(Placement)

Spec == Init /\ [][Next]_vars /\ Fairness

-----------------------------------------------------------------------------
(* Properties.                                                             *)

(* An operation becomes ACTIVE only once the exchange has taken the order  *)
(* of every leg it decided to open: neither the gather nor the sequential  *)
(* opening goes on with a leg still under way ("promote to ACTIVE only     *)
(* after the shorts confirm").                                             *)
ActiveIsAnswered ==
    [][Activate => {l \in Legs : size[l] > 0} \subseteq Range(opened)]_vars

(* A leg that is traded for an operation nobody awaits belongs to one that *)
(* has failed: an operation that is ACTIVE or CLOSED has no order of its   *)
(* own left in the adapter's queue.                                        *)
LeftBehindIsFailed ==
    \A i \in DOMAIN queue : queue[i].by = "request" =>
        status[queue[i].op] \in {"starting", "stopping", "failed"}

(* hedge-existing leaves no leg behind when it fails: what it opened it    *)
(* bought back, except on a leg where an accepted order did not fill, an   *)
(* answer was lost or the buy-back failed.                                 *)
FailedHedgeUndone ==
    [][kind = "hedge" /\ Fail => \A l \in Legs \ excused : net[l] = 0]_vars

(* Once a stop has begun, or the operation has failed, the main loop may   *)
(* still finish the iteration it is in, and no more: at most one drift     *)
(* order per leg.                                                          *)
LoopLetsGo == \A l \in Legs : late[l] =< 1

(* A closed operation is flat on every leg the stop saw as it was, had a   *)
(* price for and was alone on until the end, whichever way the leg stood.  *)
ClosedIsFlatAsSeen ==
    [][CloseOperation => \A l \in Legs \ excused : short[l] = 0]_vars

(* A closed operation is flat: POST /operations/stop closes the short and  *)
(* marks the operation CLOSED.                                             *)
ClosedIsFlat == [][CloseOperation => short = NoLegs]_vars

(* Every request comes to its end, whatever its orders do.                 *)
RequestsEnd == pc # "idle" ~> pc = "idle"
=============================================================================
