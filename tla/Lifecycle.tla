----------------------------- MODULE Lifecycle -----------------------------
(***************************************************************************)
(* One operation from its start request to its close, as the requests of   *)
(* the web panel, a crash and the restart after it can interleave          *)
(* (engine/lifecycle.py with the routing of GridMakerEngine's              *)
(* start_operation and stop_operation and app.py's startup), for a pair    *)
(* against USDC (one leg) and for a cross-pair (two). The orders on the    *)
(* legs themselves are module HedgeLegs.                                   *)
(*                                                                         *)
(* Every database write is one step and so is every awaited call, so a     *)
(* crash may fall between a transaction and the row that records it, and   *)
(* between any two of the writes that close or fail an operation; and any  *)
(* step of another request may, for nothing locks one against the other.   *)
(* What that breaks, the properties say by the history variables: they     *)
(* name the coroutines that another one has overtaken.                     *)
(***************************************************************************)
EXTENDS Naturals, Sequences, FiniteSets, FiniteSetsExt, OperationStates

CONSTANTS Tasks,       \* the requests the web server may serve at once
          Funds,       \* what the wallet owns, in units of deposit
          MaxOps,      \* bound: rows inserted in a behaviour
          MaxCrashes,  \* bound: crashes in a behaviour
          MaxOverlaps  \* bound: requests that come while one is served

ASSUME LifecycleAssumption ==
    /\ Funds \in Nat \ {0}
    /\ MaxOps \in Nat \ {0}
    /\ MaxCrashes \in Nat
    /\ MaxOverlaps \in Nat

VARIABLES
    dual,     \* settings.dydx_symbol_token1 is set: a cross-pair
    rows,     \* the operations table: a sequence of [status, stage]
    shares,   \* vault shares of the wallet; Funds - shares is still in it
    hub,      \* StateHub: [op |-> current_operation_id or 0, state |-> ...]
    phase,    \* of the process: "scan", "resume" and "restore" are startup
    todo,     \* rows resume_in_flight has still to handle
    task,     \* the coroutine that serves each request
    crashes,  \* crashes so far
    overlaps  \* requests so far that came while one was served

\* History: what others do while a coroutine is under way.
VARIABLES
    disturbed, \* coroutines in whose time another wrote the table or the hub
    parted,    \* there was one since the hub was last restored
    emptied,   \* starts in whose time the vault was emptied, and still is
    filled     \* teardowns in whose time shares entered it that are still there

codeVars == <<dual, rows, shares, hub, phase, todo, task, crashes, overlaps>>
vars == <<codeVars, disturbed, parted, emptied, filled>>

-----------------------------------------------------------------------------
(* The stages of a row (bootstrap_state).                                  *)

\* The stages a coroutine writes, each with the one it may write next.
CommonSteps ==
    { <<"inserted", "approving">>, <<"snapshot", "hedge_pending">>,
      <<"stopping", "teardown_grid_cancel">>,
      <<"teardown_withdraw_pending", "teardown_withdraw_confirmed">> }

SingleSteps ==
    { <<"approving", "swap_pending">>, <<"approving", "swap_confirmed">>,
      <<"swap_pending", "swap_confirmed">>, <<"swap_confirmed", "deposit_pending">>,
      <<"deposit_pending", "deposit_confirmed">>, <<"deposit_confirmed", "snapshot">>,
      <<"hedge_pending", "hedge_confirmed">>, <<"hedge_confirmed", "active">>,
      <<"teardown_grid_cancel", "teardown_short_close">>,
      <<"teardown_short_close", "teardown_withdraw_pending">>,
      <<"teardown_withdraw_confirmed", "teardown_swap_pending">>,
      <<"teardown_swap_pending", "teardown_swap_confirmed">> }

DualSteps ==
    { <<"approving", "swap_token0_pending">>, <<"swap_token0_pending", "swaps_done">>,
      <<"swaps_done", "deposit_pending">>, <<"deposit_pending", "deposit_done">>,
      <<"deposit_done", "snapshot">>,
      <<"hedge_pending", "hedge_done">>, <<"hedge_done", "active">>,
      <<"teardown_grid_cancel", "teardown_close_pending">>,
      <<"teardown_close_pending", "teardown_close_done">>,
      <<"teardown_close_done", "teardown_withdraw_pending">>,
      <<"teardown_withdraw_confirmed", "teardown_swap_token0_pending">>,
      <<"teardown_withdraw_confirmed", "teardown_swap_token1_pending">>,
      <<"teardown_swap_token0_pending", "teardown_swap_token0_done">>,
      <<"teardown_swap_token0_done", "teardown_swap_token1_pending">>,
      <<"teardown_swap_token1_pending", "teardown_swap_done">> }

Steps == CommonSteps \cup (IF dual THEN DualSteps ELSE SingleSteps)

\* The stages from which the operation is closed: no swap back, or all done.
Closing ==
    {"teardown_withdraw_confirmed"} \cup
        IF dual THEN {"teardown_swap_token0_done", "teardown_swap_done"}
                ELSE {"teardown_swap_confirmed"}

\* The calls awaited at a stage before the next one is written. (The swaps
\* back of a cross-pair begin by reading the wallet.)
Calls(stage) ==
    CASE stage = "teardown_withdraw_pending" -> 2
      [] stage \in {"approving", "swap_pending", "swap_token0_pending",
                    "deposit_pending", "snapshot", "hedge_pending",
                    "teardown_grid_cancel", "teardown_short_close",
                    "teardown_close_pending", "teardown_swap_pending",
                    "teardown_swap_token0_pending", "teardown_swap_token1_pending"} -> 1
      [] stage = "teardown_withdraw_confirmed" /\ dual -> 1
      [] OTHER -> 0

Settled == {"pending", "active", "closed", "failed"}
Stages == Settled \cup {s[2] : s \in CommonSteps \cup SingleSteps \cup DualSteps}

Ids == 1..Len(rows)

\* (Variant: a query that takes an operation for live only once it is hedged.)
LiveOnceActive == {i \in Ids : rows[i].status \in {"active", "stopping"}}

\* get_active_operation: the latest of the live rows.
Live == {i \in Ids : rows[i].status \in LiveStates}
Latest == Max(Live)

\* (Variant: a query that knows the stages of bootstrap only.)
InFlightBootstrap == {i \in Ids : rows[i].stage \in
    {"approving", "swap_pending", "swap_confirmed", "deposit_pending",
     "deposit_confirmed", "snapshot", "hedge_pending", "hedge_confirmed"}}

\* get_in_flight_operations.
InFlight == {i \in Ids : rows[i].stage \notin Settled}

Idle == [kind |-> "none", at |-> "idle", left |-> 0, op |-> 0, seen |-> 0]
NoHub == [op |-> 0, state |-> "none"]

TypeOK ==
    /\ dual \in BOOLEAN
    /\ rows \in Seq([status : States, stage : Stages])
    /\ Len(rows) =< MaxOps
    /\ shares \in 0..Funds
    /\ hub \in [op : 0..MaxOps, state : States]
    /\ phase \in {"scan", "resume", "restore", "up"}
    /\ todo \subseteq Ids
    /\ task \in [Tasks ->
          [ kind : {"none", "start", "hedge", "stop", "legacy", "recover", "partial"},
            at : Stages \cup
                 {"idle", "inserted", "stopping", "check", "read", "insert", "reread", "begin", "withdraw",
                  "promoted", "closing", "raised", "condemned"},
            left : 0..2, op : 0..Len(rows), seen : 0..Funds ]]
    /\ crashes \in 0..MaxCrashes /\ overlaps \in 0..MaxOverlaps
    /\ disturbed \subseteq Tasks /\ parted \in BOOLEAN
    /\ emptied \subseteq Tasks /\ filled \subseteq Tasks

Init ==
    /\ dual \in BOOLEAN
    /\ rows = <<>>
    /\ shares = 0
    /\ hub = NoHub
    /\ phase = "up"
    /\ todo = {}
    /\ task = [t \in Tasks |-> Idle]
    /\ crashes = 0 /\ overlaps = 0
    /\ disturbed = {} /\ parted = FALSE /\ emptied = {} /\ filled = {}

-----------------------------------------------------------------------------
(* Parts the steps are built from.                                         *)

\* The process serves requests and task t, of one of kinds, is at `at`.
At(t, kinds, at) ==
    /\ phase = "up"
    /\ task[t].kind \in kinds
    /\ task[t].at = at

Goto(t, at, left) == task' = [task EXCEPT ![t].at = at, ![t].left = left]
Saw(t, at, n) == task' = [task EXCEPT ![t].at = at, ![t].left = 0, ![t].seen = n]
Serve(t, kind, at) == task' = [task EXCEPT ![t] = [Idle EXCEPT !.kind = kind, !.at = at]]
Finish(t) == task' = [task EXCEPT ![t] = Idle]

SetStage(i, stage) == rows' = [rows EXCEPT ![i].stage = stage]
SetStatus(i, status) == rows' = [rows EXCEPT ![i].status = status]

\* No step of a coroutine changes these; nothing but the tasks changes.
Process == UNCHANGED <<dual, phase, todo, crashes, overlaps>>
OnlyTasks == Process /\ UNCHANGED <<rows, shares, hub>>

\* The shares a call that raises may leave: send_tx raises before the
\* transaction is sent, when it reverts, or when its receipt is not seen
\* although it is mined. (Mined later, or after a crash, is left out.)
Landed(t) ==
    LET at == task[t].at
        sends == task[t].left = 1
    IN CASE at = "deposit_pending" /\ sends -> {shares, Funds}
         [] at = "withdraw" \/ (at = "teardown_withdraw_pending" /\ sends) ->
              {shares} \cup ({shares - task[t].seen} \cap Nat)
         [] OTHER -> {shares}

-----------------------------------------------------------------------------
(* Requests.                                                               *)

\* A request arrives: POST /operations/{start,hedge-existing,stop,recover}
\* begin with get_active_operation, /withdraw-partial does not ask for it.
\* It may come while others are served.
Request(t) ==
    /\ phase = "up"
    /\ task[t] = Idle
    /\ \/ \E kind \in {"start", "hedge", "stop", "recover"} : Serve(t, kind, "check")
       \/ Serve(t, "partial", "read")
    /\ IF \A s \in Tasks : task[s] = Idle
       THEN UNCHANGED overlaps
       ELSE overlaps < MaxOverlaps /\ overlaps' = overlaps + 1
    /\ UNCHANGED <<dual, rows, shares, hub, phase, todo, crashes>>

\* start, hedge and recover go on only when no operation is live; a live
\* one answers 409. The awaits between this read and the insert are many.
Check(t) ==
    /\ \E kind \in {"start", "hedge", "recover"} :
          /\ At(t, {kind}, "check")
          /\ IF Live = {}
             THEN Goto(t, IF kind = "start" THEN "insert" ELSE "read", 0)
             ELSE Finish(t)
    /\ OnlyTasks

\* (Variant: an open_shorts that does not ask whether there is a position.)
ReadUnchecked(t) ==
    /\ \/ At(t, {"hedge"}, "read") /\ Saw(t, "insert", shares)
       \/ At(t, {"recover"}, "read") /\ shares > 0 /\ Saw(t, "withdraw", shares)
       \/ At(t, {"partial"}, "read") /\ \E n \in 1..shares : Saw(t, "withdraw", n)
       \/ At(t, {"recover", "partial"}, "read") /\ shares = 0 /\ Finish(t)
    /\ OnlyTasks

\* The vault position is read: nothing to hedge, nothing to withdraw ends
\* the request; withdraw_partial takes a fraction of what it read.
Read(t) ==
    /\ \/ At(t, {"hedge"}, "read") /\ shares > 0 /\ Saw(t, "insert", shares)
       \/ At(t, {"recover"}, "read") /\ shares > 0 /\ Saw(t, "withdraw", shares)
       \/ At(t, {"partial"}, "read") /\ \E n \in 1..shares : Saw(t, "withdraw", n)
       \/ At(t, {"hedge", "recover", "partial"}, "read") /\ shares = 0 /\ Finish(t)
    /\ OnlyTasks

\* The vault burns the shares asked for; it reverts when there are fewer.
Withdraw(t) ==
    /\ At(t, {"recover", "partial"}, "withdraw")
    /\ task[t].seen =< shares
    /\ shares' = shares - task[t].seen
    /\ Finish(t)
    /\ Process /\ UNCHANGED <<rows, hub>>

\* A call made before the row exists, or by a request that has no row,
\* raises: the error is the response and nothing is recorded.
Refuse(t) ==
    /\ \/ At(t, {"hedge", "recover", "partial"}, "read")
       \/ At(t, {"start", "hedge"}, "insert")
       \/ At(t, {"recover", "partial"}, "withdraw")
    /\ shares' \in Landed(t)
    /\ Finish(t)
    /\ Process /\ UNCHANGED <<rows, hub>>

-----------------------------------------------------------------------------
(* bootstrap and open_shorts_for_existing_position.                        *)

\* insert_operation: bootstrap puts the new id in the hub at once,
\* open_shorts only after the next write.
Insert(t) ==
    /\ At(t, {"start", "hedge"}, "insert")
    /\ Len(rows) < MaxOps
    /\ rows' = Append(rows, [status |-> "starting", stage |-> "pending"])
    /\ task' = [task EXCEPT ![t].at = "inserted", ![t].op = Len(rows) + 1]
    /\ hub' = IF task[t].kind = "start"
              THEN [op |-> Len(rows) + 1, state |-> "starting"]
              ELSE hub
    /\ Process /\ UNCHANGED shares

\* The next stage is written once the calls of the last one are over.
Mark(t) ==
    /\ phase = "up"
    /\ task[t].kind \in {"start", "stop"}
    /\ task[t].left = 0
    /\ \E s \in Steps :
          /\ s[1] = task[t].at
          /\ SetStage(task[t].op, s[2])
          /\ Goto(t, s[2], Calls(s[2]))
    /\ Process /\ UNCHANGED <<shares, hub>>

MarkHedge(t) ==
    /\ At(t, {"hedge"}, "inserted")
    /\ SetStage(task[t].op, "hedge_pending")
    /\ hub' = [op |-> task[t].op, state |-> "starting"]
    /\ Goto(t, "hedge_pending", Calls("hedge_pending"))
    /\ Process /\ UNCHANGED shares

\* A call that moves none of what is modelled: approvals, the baseline
\* read, the short (sent, whether it fills or not), the batch cancel, the
\* swap back. A swap needs something in the wallet to be swapped.
Call(t) ==
    /\ phase = "up"
    /\ task[t].left = 1
    /\ task[t].at \notin {"deposit_pending", "teardown_withdraw_pending"}
    /\ task[t].at \in {"swap_pending", "swap_token0_pending"} => shares < Funds
    /\ Goto(t, task[t].at, 0)
    /\ OnlyTasks

\* (Variant: a deposit of the whole budget on top of what is there.)
DepositBudget(t) ==
    /\ At(t, {"start"}, "deposit_pending")
    /\ task[t].left = 1
    /\ shares < Funds
    /\ shares' = shares + Funds
    /\ Goto(t, "deposit_pending", 0)
    /\ Process /\ UNCHANGED <<rows, hub>>

\* beefy.deposit sends all the wallet holds and returns after the receipt.
Deposit(t) ==
    /\ At(t, {"start"}, "deposit_pending")
    /\ task[t].left = 1
    /\ shares < Funds
    /\ shares' = Funds
    /\ Goto(t, "deposit_pending", 0)
    /\ Process /\ UNCHANGED <<rows, hub>>

\* bootstrap writes stage "active" first and the status after it;
\* open_shorts writes the status first.
Activate(t) ==
    /\ At(t, {"start"}, "active")
    /\ SetStatus(task[t].op, "active")
    /\ hub' = [hub EXCEPT !.state = "active"]
    /\ Finish(t)
    /\ Process /\ UNCHANGED shares

Promote(t) ==
    /\ At(t, {"hedge"}, "hedge_pending")
    /\ task[t].left = 0
    /\ SetStatus(task[t].op, "active")
    /\ Goto(t, "promoted", 0)
    /\ Process /\ UNCHANGED <<shares, hub>>

Promoted(t) ==
    /\ At(t, {"hedge"}, "promoted")
    /\ SetStage(task[t].op, "active")
    /\ hub' = [hub EXCEPT !.state = "active"]
    /\ Finish(t)
    /\ Process /\ UNCHANGED shares

-----------------------------------------------------------------------------
(* stop_operation: teardown, or the legacy path.                           *)

\* (Variant: a route that takes an operation never activated for a legacy one.)
RouteByStatus(t) ==
    /\ At(t, {"stop"}, "check")
    /\ \/ Live = {} /\ Finish(t)
       \/ /\ Live # {}
          /\ rows[Latest].status = "starting"
          /\ task' = [task EXCEPT ![t].kind = "legacy", ![t].at = "begin",
                                  ![t].op = Latest]
       \/ Live # {} /\ rows[Latest].status # "starting" /\ Goto(t, "reread", 0)
    /\ OnlyTasks

\* stop_operation routes by the stage of the live row. A "pending" row
\* never went through bootstrap and keeps its vault shares.
Route(t) ==
    /\ At(t, {"stop"}, "check")
    /\ \/ Live = {} /\ Finish(t)
       \/ /\ Live # {}
          /\ rows[Latest].stage = "pending"
          /\ task' = [task EXCEPT ![t].kind = "legacy", ![t].at = "begin",
                                  ![t].op = Latest]
       \/ Live # {} /\ rows[Latest].stage # "pending" /\ Goto(t, "reread", 0)
    /\ OnlyTasks

\* teardown reads the live row again, after the lifecycle was built.
Reread(t) ==
    /\ At(t, {"stop"}, "reread")
    /\ IF Live = {}
       THEN Finish(t)
       ELSE task' = [task EXCEPT ![t].at = "begin", ![t].op = Latest]
    /\ OnlyTasks

\* Both paths begin by writing STOPPING. The legacy one then cancels and
\* closes the short with the errors swallowed, but for the reads.
Stopping(t) ==
    /\ At(t, {"stop", "legacy"}, "begin")
    /\ SetStatus(task[t].op, "stopping")
    /\ hub' = [hub EXCEPT !.state = "stopping"]
    /\ Goto(t, "stopping", IF task[t].kind = "legacy" THEN 1 ELSE 0)
    /\ Process /\ UNCHANGED shares

\* teardown reads its shares and, if there are any, withdraws them all.
ReadShares(t) ==
    /\ At(t, {"stop"}, "teardown_withdraw_pending")
    /\ task[t].left = 2
    /\ task' = [task EXCEPT ![t].seen = shares,
                            ![t].left = IF shares > 0 THEN 1 ELSE 0]
    /\ OnlyTasks

WithdrawAll(t) ==
    /\ At(t, {"stop"}, "teardown_withdraw_pending")
    /\ task[t].left = 1
    /\ task[t].seen =< shares
    /\ shares' = shares - task[t].seen
    /\ Goto(t, "teardown_withdraw_pending", 0)
    /\ Process /\ UNCHANGED <<rows, hub>>

\* close_operation, after the optional swap back, and the stage after it.
Close(t) ==
    /\ \E at \in Closing : At(t, {"stop"}, at)
    /\ SetStatus(task[t].op, "closed")
    /\ Goto(t, "closing", 0)
    /\ Process /\ UNCHANGED <<shares, hub>>

Closed(t) ==
    /\ At(t, {"stop"}, "closing")
    /\ SetStage(task[t].op, "closed")
    /\ hub' = NoHub
    /\ Finish(t)
    /\ Process /\ UNCHANGED shares

\* The legacy path leaves the stage as it was.
LegacyClose(t) ==
    /\ At(t, {"legacy"}, "stopping")
    /\ task[t].left = 0
    /\ SetStatus(task[t].op, "closed")
    /\ hub' = NoHub
    /\ Finish(t)
    /\ Process /\ UNCHANGED shares

-----------------------------------------------------------------------------
(* A call raises.                                                          *)

\* The legacy stop has no handler: its row stays "stopping".
Raise(t) ==
    /\ phase = "up"
    /\ task[t].left > 0
    /\ IF task[t].kind = "legacy" THEN Finish(t) ELSE Goto(t, "raised", 0)
    /\ shares' \in Landed(t)
    /\ Process /\ UNCHANGED <<rows, hub>>

\* bootstrap and teardown write the stage first and the status second,
\* open_shorts the other way round.
Condemn(t) ==
    /\ At(t, {"start", "stop", "hedge"}, "raised")
    /\ IF task[t].kind = "hedge" THEN SetStatus(task[t].op, "failed")
                                 ELSE SetStage(task[t].op, "failed")
    /\ Goto(t, "condemned", 0)
    /\ Process /\ UNCHANGED <<shares, hub>>

Condemned(t) ==
    /\ At(t, {"start", "stop", "hedge"}, "condemned")
    /\ IF task[t].kind = "hedge" THEN SetStage(task[t].op, "failed")
                                 ELSE SetStatus(task[t].op, "failed")
    /\ hub' = [ op |-> IF task[t].kind = "hedge" THEN 0 ELSE hub.op,
                state |-> "failed" ]
    /\ Finish(t)
    /\ Process /\ UNCHANGED shares

-----------------------------------------------------------------------------
(* Crash and startup.                                                      *)

\* The process dies: coroutines and hub are gone, the table, the chain and
\* the exchange stay. A transaction already mined stays mined.
Crash ==
    /\ crashes < MaxCrashes
    /\ crashes' = crashes + 1
    /\ phase' = "scan"
    /\ hub' = NoHub
    /\ todo' = {}
    /\ task' = [t \in Tasks |-> Idle]
    /\ UNCHANGED <<dual, rows, shares, overlaps>>

\* resume_in_flight reads the rows in flight.
Scan ==
    /\ phase = "scan"
    /\ todo' = InFlight
    /\ phase' = "resume"
    /\ UNCHANGED <<dual, rows, shares, hub, task, crashes, overlaps>>

\* Whatever the stage, the row is written off: _continue_bootstrap and
\* _continue_teardown only mark it failed, and so do the unknown stage and
\* the exception handler. (A hash is stored with the confirmed stage, so
\* no "pending" stage ever has a receipt to wait for.)
ResumeStage ==
    /\ phase = "resume"
    /\ todo # {}
    /\ rows[Min(todo)].stage # "failed"
    /\ SetStage(Min(todo), "failed")
    /\ UNCHANGED <<dual, shares, hub, phase, todo, task, crashes, overlaps>>

ResumeStatus ==
    /\ phase = "resume"
    /\ todo # {}
    /\ rows[Min(todo)].stage = "failed"
    /\ SetStatus(Min(todo), "failed")
    /\ todo' = todo \ {Min(todo)}
    /\ UNCHANGED <<dual, shares, hub, phase, task, crashes, overlaps>>

Resumed ==
    /\ phase = "resume"
    /\ todo = {}
    /\ phase' = "restore"
    /\ UNCHANGED <<dual, rows, shares, hub, todo, task, crashes, overlaps>>

\* (Variant: a start that only remembers an ACTIVE operation.)
RestoreActive ==
    /\ phase = "restore"
    /\ hub' = IF Live = {} \/ rows[Latest].status # "active" THEN hub
              ELSE [op |-> Latest, state |-> "active"]
    /\ phase' = "up"
    /\ UNCHANGED <<dual, rows, shares, todo, task, crashes, overlaps>>

\* engine.start puts the live row, if any, back in the hub.
Restore ==
    /\ phase = "restore"
    /\ hub' = IF Live = {} THEN hub
              ELSE [op |-> Latest, state |-> rows[Latest].status]
    /\ phase' = "up"
    /\ UNCHANGED <<dual, rows, shares, todo, task, crashes, overlaps>>

-----------------------------------------------------------------------------
Step(t) ==
    \/ Check(t) \/ Read(t) \/ Withdraw(t) \/ Refuse(t)
    \/ Insert(t) \/ Mark(t) \/ MarkHedge(t) \/ Call(t) \/ Deposit(t)
    \/ Activate(t) \/ Promote(t) \/ Promoted(t)
    \/ Route(t) \/ Reread(t) \/ Stopping(t) \/ ReadShares(t) \/ WithdrawAll(t)
    \/ Close(t) \/ Closed(t) \/ LegacyClose(t)
    \/ Raise(t) \/ Condemn(t) \/ Condemned(t)

Startup == Scan \/ ResumeStage \/ ResumeStatus \/ Resumed \/ Restore

\* A coroutine that acts on what it has seen of the table: for a start, that
\* no operation is live, for a stop, which one is.
Involved(c) ==
    /\ c.kind \in {"start", "hedge", "stop", "legacy"}
    /\ c.at \notin {"check", "reread"}

History ==
    /\ disturbed' = {t \in Tasks : Involved(task'[t]) /\
          (t \in disturbed \/ (task'[t] = task[t] /\ <<rows, hub>>' # <<rows, hub>>))}
    /\ parted' = IF phase = "restore" /\ phase' = "up"
                 THEN \E i, j \in Live : i # j
                 ELSE parted \/ disturbed' # {}
    /\ emptied' = {t \in Tasks : task'[t].kind \in {"start", "hedge"} /\ shares' = 0 /\
                                    (t \in emptied \/ shares > 0)}
    /\ filled' = {t \in Tasks : task'[t].kind = "stop" /\ shares' > 0 /\
                                   (t \in filled \/ shares' > shares)}

Next ==
    /\ \/ \E t \in Tasks : Request(t) \/ Step(t)
       \/ Crash
       \/ Startup
    /\ History

\* A coroutine that can go on does (the event loop runs it, a call returns
\* or raises), and a process that is starting up goes on to serve. No
\* request has to arrive and nothing has to crash.
Fairness == WF_codeVars(Startup) /\ \A t \in Tasks : WF_codeVars(Step(t))

Spec == Init /\ [][Next]_vars /\ Fairness

-----------------------------------------------------------------------------
(* Properties.                                                             *)

\* The step is one of coroutine t, on row i.
OwnStep(t, i) == task[t].op = i /\ task'[t] # task[t]

Resting == phase = "up" /\ \A t \in Tasks : task[t] = Idle

(* Between requests the hub the panel and the main loop go by mirrors the  *)
(* table: it names the live row with its status, and without a live row it *)
(* says none or failed. No crash and no raise at any write in between, and *)
(* no other request, makes them part, but one that writes in the middle of *)
(* another; and a restart brings them together again.                      *)
HubMirrorsRow ==
    Resting /\ ~parted =>
        IF Live = {} THEN hub.state \in {"none", "failed"}
        ELSE hub = [op |-> Latest, state |-> rows[Latest].status]

(* One operation at a time: start and hedge answer 409 while another one   *)
(* is live (get_active_operation).                                         *)
OneLiveOperation == Cardinality(Live) =< 1

(* An operation becomes ACTIVE only over a position that exists: shares    *)
(* are in the vault when bootstrap or open_shorts declares it, unless      *)
(* another request has emptied the vault since this one came.              *)
ActivatedOnDeposit ==
    [][\A i \in Ids : rows'[i].status = "active" /\ rows[i].status # "active"
                         => shares > 0 \/ \E t \in emptied : OwnStep(t, i)]_vars

(* An operation that went through bootstrap is closed only once the vault  *)
(* is empty: teardown withdraws all it finds, also after a restart. It can *)
(* leave no shares but those another request deposited beside it. And a    *)
(* legacy stop, which withdraws nothing, closes such an operation only     *)
(* when another request took it over since the stop looked at its stage.   *)
ClosedIsWithdrawn ==
    [][\A i \in Ids : rows'[i].status = "closed" /\ rows[i].status # "closed"
                      /\ rows[i].stage # "pending"
                         => \/ shares = 0
                            \/ \E t \in filled : OwnStep(t, i)
                            \/ \E t \in disturbed : task[t].kind = "legacy" /\ OwnStep(t, i)]_vars

\* The table as its readers see it.
StatusOf == [i \in 1..MaxOps |-> IF i \in Ids THEN rows[i].status ELSE "none"]

\* Two moves the declared machine lacks: a start cut short by a crash is
\* stopped from STARTING, and an operation whose close was cut short
\* between its two writes is turned from CLOSED into FAILED.
ActualMoves ==
    ValidTransitions \cup {<<"starting", "stopping">>, <<"closed", "failed">>}

Actual == INSTANCE OperationStatus
            WITH Ids <- 1..MaxOps, Moves <- ActualMoves, status <- StatusOf,
                 contended <- {task[t].op : t \in disturbed},
                 late <- \E t \in disturbed : task[t].at = "insert"

(* The table implements the abstract operation: no row leaves the declared *)
(* machine but by those two moves, and none begins while another is live,  *)
(* across crashes and restarts and with other requests beside it. Only the *)
(* row of a coroutine another one has overtaken may go any way, and only   *)
(* such a coroutine may insert a second live row.                          *)
TableIsOrderly == Actual!Spec

(* After any crash every row ends up settled: no operation is left in the  *)
(* middle of a bootstrap or a teardown that nobody carries on.             *)
Settles == []<>(phase = "up" /\ \A i \in Ids : rows[i].stage \in Settled)
=============================================================================
