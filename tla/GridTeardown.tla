--------------------------- MODULE GridTeardown ---------------------------
(***************************************************************************)
(* The grid of stop orders and the end of the operation it belongs to.     *)
(*                                                                         *)
(* EventGrid is the grid of an operation that goes on. Here a stop request *)
(* runs OperationLifecycle.teardown (T, src/engine/lifecycle.py) next to   *)
(* its two loops, and a new operation may begin behind it. What they share *)
(* is the hub's operation_state, which only the main loop looks at, the    *)
(* rows of grid_orders, which only the initial grid has, and the position. *)
(*                                                                         *)
(* T's order, withdrawal and swap either succeed or raise; HedgeLegs and   *)
(* Lifecycle have their details. Restarts are EventGrid's.                 *)
(***************************************************************************)
EXTENDS EventGrid, FiniteSetsExt

CONSTANT MaxStops   \* bound: operations that are stopped and followed by another

ASSUME StopsAssumption == MaxStops \in Nat

VARIABLES
  hub,       \* hub.operation_state
  late,      \* what the current pass of the main loop may still do
  active,    \* cloids whose row is neither cancelled nor filled
  rows,      \* cloids that ever had a row: the column is UNIQUE
  tpc, listed, tomark, tpos,   \* T: where it is, and its locals
  stops,
  missed,    \* T's cancels name no order at the exchange
  raced      \* history: T began during a pass of the main loop

opVars == <<hub, late, active, rows, tpc, listed, tomark, tpos, stops, missed, raced>>
tVars  == <<tpc, listed, tomark, tpos>>
allVars == <<vars, opVars>>

TeardownTypeOK ==
    /\ TypeOK
    /\ hub \in {"none", "active", "stopping", "failed"}
    /\ late \in {"no", "grid", "drift"}
    /\ active \subseteq rows /\ rows \subseteq Nat
    /\ tpc \in {"idle", "read", "cancel", "position", "trade", "withdraw"}
    /\ listed \subseteq tomark /\ tomark \subseteq rows
    /\ tpos \in Int
    /\ stops \in 0..MaxStops
    /\ missed \in BOOLEAN /\ raced \in BOOLEAN

\* The initial grid has its rows.
InitAll ==
    /\ Init
    /\ hub = "active" /\ late = "no"
    /\ active = Cloids(local) /\ rows = Cloids(local)
    /\ tpc = "idle" /\ listed = {} /\ tomark = {} /\ tpos = 0
    /\ stops = 0 /\ missed = FALSE /\ raced = FALSE
-----------------------------------------------------------------------------
(***************************************************************************)
(* The loops. A pass of the main loop looks at the state once, before all  *)
(* of its requests: first the grid, then the drift. A pass that looked in  *)
(* time goes on while T is at work: late is what it may still begin.       *)
(***************************************************************************)
GridBegins == MOutOfRange \/ MRangeChanged \/ MStartPost
GridGoesOn == MClearOut \/ MPlace \/ MVerify \/ MVerified \/ MTraded

\* (Variant: a main loop that does not ask for the state.)
MaintainAnyway ==
    /\ GridBegins
    /\ UNCHANGED opVars

MaintainBegins ==
    /\ hub = "active" \/ late = "grid"
    /\ GridBegins
    /\ late' = IF hub = "active" THEN late ELSE "drift"
    /\ UNCHANGED <<hub, active, rows, tVars, stops, missed, raced>>

MaintainGoesOn == GridGoesOn /\ UNCHANGED opVars

DriftTrade ==
    /\ hub = "active" \/ late # "no"
    /\ \E d \in {-1, 1} : MDrift(d)
    /\ late' = "no"
    /\ UNCHANGED <<hub, active, rows, tVars, stops, missed, raced>>

LatePassEnds ==
    /\ late # "no" /\ mpc = "idle"
    /\ late' = "no"
    /\ UNCHANGED <<vars, hub, active, rows, tVars, stops, missed, raced>>

\* The stop placed gets its row.
PlacedWithRow ==
    /\ MPlaced
    /\ active' = active \cup Cloids(mnew)
    /\ rows' = rows \cup Cloids(mnew)
    /\ UNCHANGED <<hub, late, tVars, stops, missed, raced>>

\* A range change also cancels every row.
ClearWithRows ==
    /\ MClearRange
    /\ active' = {}
    /\ UNCHANGED <<hub, late, rows, tVars, stops, missed, raced>>

MainPass == \/ MaintainBegins \/ MaintainGoesOn \/ PlacedWithRow \/ ClearWithRows
            \/ LatePassEnds

\* The event loop and its audit do not ask what the operation does.
Events == (Audit \/ EventLoop) /\ UNCHANGED opVars

Environment ==
    /\ MarketFalls \/ MarketRises \/ RangeMoves \/ WsUpdate \/ AuditTimer
    /\ UNCHANGED opVars
-----------------------------------------------------------------------------
(***************************************************************************)
(* T: teardown.                                                            *)
(***************************************************************************)
otherVars == <<marketVars, fired, gen, seq, gridVars, mVars, eVars, lied, overlap>>

TBegin ==
    /\ tpc = "idle" /\ hub = "active" /\ stops < MaxStops
    /\ tpc' = "read" /\ hub' = "stopping"
    /\ late' \in CASE mpc = "idle" -> {"no", "drift", "grid"}
                   [] mpc = "traded" -> {"no"}
                   [] OTHER -> {"no", "drift"}
    /\ raced' = (raced \/ late' # "no" \/ mpc # "idle")
    /\ UNCHANGED <<vars, active, rows, listed, tomark, tpos, stops, missed>>

\* get_active_grid_orders. The cancels that follow name the client's index
\* where cancel_order asks for the exchange's own: they find their orders,
\* or none of them does.
TRead ==
    /\ tpc = "read"
    /\ tpc' = "cancel" /\ listed' = active /\ tomark' = active
    /\ missed' \in {missed, TRUE}
    /\ UNCHANGED <<vars, hub, late, active, rows, tpos, stops, raced>>

\* (Variant: a teardown that goes on without the cancels.)
CancelNothing ==
    /\ tpc = "cancel" /\ listed # {}
    /\ listed' = {}
    /\ UNCHANGED <<vars, hub, late, active, rows, tpc, tomark, tpos, stops, missed, raced>>

\* batch_cancel, in the order the rows were placed; a refusal is not seen.
TCancel ==
    /\ tpc = "cancel" /\ listed # {}
    /\ listed' = listed \ {Min(listed)}
    /\ IF missed THEN live' = live /\ UNCHANGED faults
                 ELSE Cancel({o \in live : o.cloid = Min(listed)})
    /\ UNCHANGED <<otherVars, pos, seen, hub, late, active, rows, tpc, tomark, tpos,
                   stops, missed, raced>>

\* (Variant: the rows are marked without waiting for the cancels.)
TMarkEarly ==
    /\ tpc = "cancel"
    /\ tpc' = "position"
    /\ active' = active \ tomark /\ tomark' = {}
    /\ UNCHANGED <<vars, hub, late, rows, listed, tpos, stops, missed, raced>>

TMark ==
    /\ tpc = "cancel" /\ listed = {}
    /\ tpc' = "position"
    /\ active' = active \ tomark /\ tomark' = {}
    /\ UNCHANGED <<vars, hub, late, rows, listed, tpos, stops, missed, raced>>

\* The close is for the position as get_position shows it.
TPosition ==
    /\ tpc = "position"
    /\ tpc' = "trade" /\ tpos' = seen
    /\ UNCHANGED <<vars, hub, late, active, rows, listed, tomark, stops, missed, raced>>

TTrade ==
    /\ tpc = "trade"
    /\ tpc' = "withdraw" /\ tpos' = 0
    /\ pos' = pos - tpos
    /\ UNCHANGED <<otherVars, live, seen, faults, hub, late, active, rows, listed, tomark,
                   stops, missed, raced>>

\* The row is closed, then the hub forgets the operation.
TEnd ==
    /\ tpc = "withdraw"
    /\ tpc' = "idle" /\ hub' = "none"
    /\ UNCHANGED <<vars, late, active, rows, listed, tomark, tpos, stops, missed, raced>>

\* The order or the withdrawal raises.
TFails ==
    /\ tpc \in {"trade", "withdraw"} /\ Fault
    /\ tpc' = "idle" /\ hub' = "failed" /\ tpos' = 0
    /\ UNCHANGED <<otherVars, live, pos, seen, late, active, rows, listed, tomark, stops,
                   missed, raced>>

Teardown == TRead \/ TCancel \/ TMark \/ TPosition \/ TTrade \/ TEnd

(***************************************************************************)
(* The next operation. bootstrap deposits, opens its short and leaves the  *)
(* grid alone: what the engine remembers is of the operation before.       *)
(***************************************************************************)
Start ==
    /\ hub \in {"none", "failed"} /\ stops < MaxStops
    /\ hub' = "active" /\ stops' = stops + 1
    /\ pos' = pos + StartShort /\ late' = "no"
    /\ UNCHANGED <<otherVars, live, seen, faults, active, rows, tVars, missed, raced>>
-----------------------------------------------------------------------------
NextAll == \/ MainPass \/ DriftTrade \/ Events \/ Environment
           \/ TBegin \/ Teardown \/ TFails \/ Start

SpecAll == InitAll /\ [][NextAll]_allVars
-----------------------------------------------------------------------------
Closed == hub = "none"

(* What the table knew is gone when the operation is closed, whatever the  *)
(* event loop made of the vanishing stops in the meantime: those that      *)
(* remain never had a row. Only a main loop that was at work when T began, *)
(* or a cancel that failed, can leave more.                                *)
RowedStopsGone ==
    Closed /\ ~missed /\ ~raced /\ faults = 0 => Cloids(live) \cap rows = {}

(* A closed operation leaves no row that the next teardown would take for  *)
(* an order of its own: nothing posts with a row unless the operation is   *)
(* ACTIVE.                                                                 *)
TableIsClean == Closed /\ ~raced => active = {}

(* Docstring of teardown: "Cancel grid -> close short -> withdraw Beefy".  *)
(* The code leaves the grid behind even when every request is answered and *)
(* the loops never meet: replacements are not in the table T reads, and    *)
(* the event loop takes the cancelled stops for fills and posts new ones.  *)
ClosedLeavesNoStop == Closed /\ ~missed /\ ~raced /\ faults = 0 /\ ~overlap => live = {}
=============================================================================
