---------------------------- MODULE OperatorView ----------------------------
(***************************************************************************)
(* What the operator gets to see of a running operation: the tail of a     *)
(* pass of the main loop (_iterate, engine/__init__.py) that writes        *)
(* hub.operation_pnl_breakdown and then looks at the margin. In between    *)
(* its requests the operator picks another PnL window, the operation is    *)
(* stopped and another one begins, and the process is restarted.           *)
(*                                                                         *)
(* A sum of money is represented by the time it counts from: an operation  *)
(* (its start) or a picked time. A margin ratio is represented by its      *)
(* level: what the pass takes it for depends on what the exchange's        *)
(* messages have told of the collateral, the shorts and the prices. Left   *)
(* out: amounts, unrealized PnL, and what the pass does after the alert.   *)
(***************************************************************************)
EXTENDS Naturals

CONSTANTS Picks,        \* times the operator may pick
          Legs,         \* how many legs have a short
          Worst,        \* the worst margin level; 0 is "healthy"
          NoAlert,      \* None, of an alert level
          NoView,       \* the breakdown is empty
          NoCache,
          MaxOps,       \* bound: operations
          MaxEvents     \* bound: windows picked, changes of level, range and
                        \*        sight, failures and restarts, all together

Ops == 1..MaxOps
Since == Ops \cup Picks

ASSUME ViewAssumption ==
    /\ \A p \in Picks : p \notin Nat
    /\ {Legs, Worst} \subseteq Nat \ {0} /\ NoAlert \notin Nat
    /\ MaxOps \in Nat \ {0} /\ MaxEvents \in Nat

VARIABLES
    hub,      \* operation_state, and FAILED after a teardown that raised
    op,       \* the latest operation
    window,   \* per operation: where its PnL counts from
    level,    \* margin level of the account, as it is
    inRange,  \* the price is in the range of the position
    balance,  \* a message has told the collateral
    counted,  \* how many legs' short has been seen and has a price
    pc,       \* where the pass is
    pass,     \* its locals: the operation, its window, the two sums, the level
    cache,    \* _trade_pnl_cache
    shown,    \* operation_pnl_breakdown
    last,     \* _last_alert_level
    told,     \* history: the level last told, until a healthy one is read
    lost,     \* history: the level of the last alert, when its post failed
    events    \* of the bound

passVars == <<pc, pass>>
alertVars == <<last, told, lost>>
sightVars == <<balance, counted>>
marketVars == <<level, inRange, sightVars>>
worldVars == <<hub, op, window, marketVars>>
viewVars == <<cache, shown, alertVars>>
vars == <<worldVars, passVars, viewVars, events>>

Levels == 0..Worst
Bad == 1..Worst
Alerts == Bad \cup {NoAlert}

\* The accumulator of this process instead of a hedge, zero instead of funding.
Fallback == 0
Sums == Since \cup {Fallback}

NoPass == [op |-> 1, window |-> 1, hedge |-> 1, level |-> 0]

TypeOK ==
    /\ hub \in {"none", "active", "stopping", "failed"}
    /\ op \in Nat /\ op =< MaxOps
    /\ window \in [Ops -> Since]
    /\ level \in Levels /\ inRange \in BOOLEAN
    /\ balance \in BOOLEAN /\ counted \in 0..Legs
    /\ pc \in {"idle", "row", "hedge", "funding", "post"}
    /\ pass \in [op : Ops, window : Since, hedge : Sums, level : Levels]
    /\ cache \in Since \cup {NoCache}
    /\ shown \in [op : Ops, hedge : Sums, funding : Sums] \cup {NoView}
    /\ last \in Alerts /\ told \in Alerts /\ lost \in Alerts
    /\ events \in 0..MaxEvents

Init ==
    /\ hub = "none" /\ op = 0 /\ window = [o \in Ops |-> o]
    /\ level \in Levels /\ inRange = TRUE
    /\ balance = FALSE /\ counted = 0
    /\ pc = "idle" /\ pass = NoPass
    /\ cache = NoCache /\ shown = NoView
    /\ last = NoAlert /\ told = NoAlert /\ lost = NoAlert
    /\ events = 0

Event == events < MaxEvents /\ events' = events + 1
-----------------------------------------------------------------------------
(***************************************************************************)
(* The operation: bootstrap, POST pnl-window, teardown.                    *)
(***************************************************************************)
Start ==
    /\ hub \in {"none", "failed"} /\ op < MaxOps
    /\ hub' = "active" /\ op' = op + 1
    /\ UNCHANGED <<window, marketVars, passVars, viewVars, events>>

\* A picked time, or back to the start. Only the row of an active operation
\* is updated.
SelectWindow(w) ==
    /\ hub = "active" /\ w \in Picks \cup {op} /\ w # window[op] /\ Event
    /\ window' = [window EXCEPT ![op] = w]
    /\ UNCHANGED <<hub, op, marketVars, passVars, viewVars>>

Stop ==
    /\ hub = "active" /\ hub' = "stopping"
    /\ UNCHANGED <<op, window, marketVars, passVars, viewVars, events>>

Closed ==
    /\ hub = "stopping" /\ hub' = "none"
    /\ shown' = NoView
    /\ UNCHANGED <<op, window, marketVars, passVars, cache, alertVars, events>>

StopFails ==
    /\ hub = "stopping" /\ Event
    /\ hub' = "failed"
    /\ UNCHANGED <<op, window, marketVars, passVars, viewVars>>
-----------------------------------------------------------------------------
(***************************************************************************)
(* The pass. It has read the account and the collateral, in one step with  *)
(* the look at operation_state, and goes through its requests; an await    *)
(* that the adapter answers from memory is one, too.                       *)
(***************************************************************************)
\* The levels the pass may take the margin for. A short no message has told
\* is None and a book without a price gives 0.0: neither adds to what is
\* required, and nothing required is healthy. Collateral no message has told
\* is 0.0, the worst ratio whatever is required. (In a cross-pair the second
\* leg's price is also the unit: without it nothing is required.)
Measured ==
    CASE counted = 0 -> {0}
      [] counted = Legs -> {IF balance THEN level ELSE Worst}
      [] OTHER -> IF balance THEN 0..level ELSE {0, Worst}

\* A pass out of range, or without an operation, ends before.
PassBegins ==
    /\ pc = "idle" /\ hub = "active" /\ inRange
    /\ pc' = "row"
    /\ \E l \in Measured : pass' = [NoPass EXCEPT !.op = op, !.level = l]
    /\ UNCHANGED <<worldVars, viewVars, events>>

\* get_operation.
RowRead ==
    /\ pc = "row" /\ pc' = "hedge"
    /\ pass' = [pass EXCEPT !.window = window[pass.op]]
    /\ UNCHANGED <<worldVars, viewVars, events>>

Hedged(sum) ==
    /\ pc' = "funding"
    /\ pass' = [pass EXCEPT !.hedge = sum]
    /\ UNCHANGED <<worldVars, shown, alertVars>>

\* get_trade_pnl_since: what is in the cache, whatever window it is of.
HedgeFromCache ==
    /\ pc = "hedge" /\ cache # NoCache
    /\ Hedged(cache)
    /\ UNCHANGED <<cache, events>>

HedgeAnswered ==
    /\ pc = "hedge" /\ cache = NoCache
    /\ Hedged(pass.window)
    /\ cache' = pass.window
    /\ UNCHANGED events

\* None: the accumulator of this process.
HedgeFails ==
    /\ pc = "hedge" /\ cache = NoCache /\ Event
    /\ Hedged(Fallback)
    /\ UNCHANGED cache

\* After 30 seconds. (Variant: a cache without an age.)
CacheStays == cache' = cache

CacheEnds == cache' = NoCache

CacheAges ==
    /\ cache # NoCache
    /\ CacheEnds
    /\ UNCHANGED <<worldVars, passVars, shown, alertVars, events>>

\* (Variant: a level that is remembered through a healthy margin.)
RecoveredSilently == UNCHANGED last

Recovered == last' = NoAlert

Heed == IF pass.level = 0 THEN Recovered /\ told' = NoAlert /\ lost' = NoAlert
                          ELSE UNCHANGED alertVars

\* Locals a pass does not use any more are dropped.
PassEnds == pc' = "idle" /\ pass' = NoPass
Posts == pc' = "post" /\ pass' = [NoPass EXCEPT !.level = pass.level]

\* (Variant: the level is compared, and a healthy one is one like any other.)
CheckMarginPlainly ==
    /\ IF pass.level = last THEN PassEnds ELSE Posts
    /\ UNCHANGED alertVars

\* _check_margin_and_alert, up to the webhook.
CheckMargin ==
    /\ IF pass.level \in {0, last} THEN PassEnds ELSE Posts
    /\ Heed

Publish(sum) ==
    shown' = [op |-> pass.op, hedge |-> pass.hedge, funding |-> sum]

\* Without a picked window the sums of the operation's row are shown.
FundingAnswered ==
    /\ pc = "funding"
    /\ Publish(IF pass.window \in Picks THEN pass.window ELSE pass.op)
    /\ CheckMargin
    /\ UNCHANGED <<worldVars, cache, events>>

\* No answer in 5 seconds: the sums of the row. An error: nothing was paid.
FundingFails ==
    /\ pc = "funding" /\ pass.window \in Picks /\ Event
    /\ Publish(pass.op) \/ Publish(Fallback)
    /\ CheckMargin
    /\ UNCHANGED <<worldVars, cache>>

\* The row cannot be read: the breakdown of before stays.
RowFails ==
    /\ pc = "row" /\ Event
    /\ CheckMargin
    /\ UNCHANGED <<worldVars, cache, shown>>

Attempted ==
    /\ pc = "post" /\ PassEnds
    /\ last' = pass.level
    /\ UNCHANGED <<worldVars, cache, shown>>

Posted ==
    /\ Attempted
    /\ told' = pass.level /\ lost' = NoAlert
    /\ UNCHANGED events

\* post_alert swallows the exception.
PostFails ==
    /\ Attempted /\ Event
    /\ lost' = pass.level /\ UNCHANGED told

Pass == \/ PassBegins \/ RowRead \/ RowFails
        \/ HedgeFromCache \/ HedgeAnswered \/ HedgeFails
        \/ FundingAnswered \/ FundingFails \/ Posted \/ PostFails
-----------------------------------------------------------------------------
(***************************************************************************)
(* The account, the market and the process.                                *)
(***************************************************************************)
LevelMoves(l) ==
    /\ l # level /\ Event
    /\ level' = l
    /\ UNCHANGED <<hub, op, window, inRange, sightVars, passVars, viewVars>>

RangeMoves ==
    /\ Event
    /\ inRange' = ~inRange
    /\ UNCHANGED <<hub, op, window, level, sightVars, passVars, viewVars>>

\* An account message tells the shorts, and the collateral if it has a
\* balance; an order of its own tells the process a short, too, and a book
\* message the price of its leg. Whichever it was, more legs count.
Told(withBalance, n) ==
    /\ <<withBalance, n>> # <<balance, counted>>
    /\ balance' = withBalance /\ counted' = n
    /\ UNCHANGED <<hub, op, window, level, inRange, passVars, viewVars>>

MessageTells ==
    /\ \E b \in {balance, TRUE}, n \in counted..Legs : Told(b, n)
    /\ UNCHANGED events

\* The book of a leg runs empty.
LegLost ==
    /\ Event /\ counted > 0 /\ Told(balance, counted - 1)

\* The operation comes back from the table, but for a failed one.
Restart ==
    /\ Event
    /\ hub' = IF hub = "failed" THEN "none" ELSE hub
    /\ balance' = FALSE /\ counted' = 0
    /\ PassEnds
    /\ cache' = NoCache /\ shown' = NoView /\ last' = NoAlert
    /\ UNCHANGED <<op, window, level, inRange, told, lost>>

Operator == Start \/ Stop \/ \E w \in Since : SelectWindow(w)
World == \/ RangeMoves \/ MessageTells \/ LegLost \/ Restart
         \/ \E l \in Levels : LevelMoves(l)

Next == Operator \/ Closed \/ StopFails \/ Pass \/ CacheAges \/ World

(* The main loop comes round, its requests are answered or time out, and   *)
(* the cache ages. The messages are the exchange's to send.                *)
Fairness == WF_vars(Pass) /\ WF_vars(CacheAges)

Spec == Init /\ [][Next]_vars /\ Fairness
-----------------------------------------------------------------------------
Watched == hub = "active" /\ inRange

\* What the margin is made of has been told, for every leg.
Measurable == balance /\ counted = Legs

(* A level the account stays at, once it can be measured, is the last one  *)
(* the operator was told of, or the one whose post failed: nothing that    *)
(* happened in between, other levels, lost posts of theirs, alarms over    *)
(* what was not told yet, restarts, other operations, lets the alert be    *)
(* left out.                                                               *)
AlertsArrive ==
    \A b \in Bad :
        <>[](Watched /\ Measurable /\ level = b) => <>[](told = b \/ lost = b)

(* No alarm goes out before the collateral has been told: "callers should  *)
(* treat 0 as 'unknown' (the engine already does)" (lighter.py:1493).      *)
UnknownIsNoAlarm == pc = "post" => balance

(* What is shown ends up as the PnL of the operation there is, hedge and   *)
(* funding counted from the window last picked, although the hedge's sum   *)
(* comes from a cache that does not ask for the window, and a pass may     *)
(* write an older operation's sums late.                                   *)
ViewSettles ==
    <>[]Watched =>
      <>[](/\ op > 0
           /\ shown = [op |-> op, hedge |-> window[op], funding |-> window[op]])
=============================================================================
