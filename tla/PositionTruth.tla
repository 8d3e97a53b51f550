--------------------------- MODULE PositionTruth ---------------------------
(***************************************************************************)
(* One perp leg of LighterAdapter (src/exchanges/lighter.py) and the taker *)
(* path of the engine that hedges on it (src/engine/__init__.py).          *)
(*                                                                         *)
(* The adapter never knows the real short `exch`. It keeps two estimates:  *)
(*   observed   _observed_short_size[mid], from WebSocket account messages *)
(*   expected   _expected_short_size[mid], credited locally per order      *)
(* and the engine hedges against the larger of the two                     *)
(* (get_effective_position). A background reconciler pins the estimates to *)
(* an HTTP answer when they stay apart.                                    *)
(*                                                                         *)
(* Sizes are whole market steps. An IOC order that the server accepted is  *)
(* matched or cancelled before _verify_fill gives up (2 s) and before the  *)
(* reconciler's 10 s time-out; nothing else is assumed about delays. The   *)
(* exchange's HTTP answer, if it comes, is well formed and true: the code  *)
(* would take one without an account or a size for a flat position.        *)
(***************************************************************************)
EXTENDS Integers, Sequences

CONSTANTS
  Targets,      (* short sizes the LP may call for                          *)
  MinSize,      (* smallest drift worth an order (min_notional / ref_price) *)
  Tol,          (* _step_size_for_mid: observed counts as equal to expected *)
  MaxAttempts,  (* _TAKER_RETRIES                                           *)
  MaxFires,     (* bound: orders the engine decides on                      *)
  MaxFaults     (* bound: restarts, lost answers, stop fills, HTTP failures *)

ASSUME TruthAssumption ==
  /\ Targets \subseteq Nat
  /\ MinSize \in Nat \ {0}
  /\ Tol \in Nat
  /\ MaxAttempts \in Nat \ {0}
  /\ MaxFires \in Nat
  /\ MaxFaults \in Nat

VARIABLES
  exch,         (* net short at the exchange; negative is a long           *)
  pending,      (* account snapshots the WebSocket has not delivered yet   *)
  ord,          (* our order at the exchange: "none", "sent" or "booked"   *)
  observed, expected,
  tracked,      (* mid is a key of _expected_short_size                    *)
  lastFire,     (* _last_fire_at[mid], as the number of the last stamp     *)
  aged,         (* stamps up to this one are older than the time-out       *)
  pc,           (* engine: "idle", "read", "attempt", "await", "verify"    *)
  v2,           (* settings.predictive_grid_v2                             *)
  target, cur,  (* what the iteration read                                 *)
  delta,        (* order under way: + sells short, - covers                *)
  attempts,
  rpc,          (* reconciler: "idle", "handle", "http", "answer"          *)
  scan,         (* (expected, last fire) at the start of the pass          *)
  truth,        (* HTTP answer                                             *)
  fires, faults,
  accepted,     (* history: orders the server accepted for this decision   *)
  covered,      (* history: a cover was decided                            *)
  external,     (* history: the short moved, or the estimates were lost,   *)
                (* without a stamp                                         *)
  eroded,       (* history: credit dropped by catch-up pins within Tol     *)
  maxTarget     (* history: largest target read                            *)

exchangeVars == <<exch, pending, ord>>
layerVars    == <<observed, expected, tracked>>
clockVars    == <<lastFire, aged>>
engineVars   == <<pc, v2, target, cur, delta, attempts>>
reconVars    == <<rpc, scan, truth>>
historyVars  == <<accepted, covered, external, eroded, maxTarget>>
vars == <<exchangeVars, layerVars, clockVars, engineVars, reconVars,
          fires, faults, historyVars>>

Larger(a, b) == IF a >= b THEN a ELSE b
Magnitude(n) == IF n >= 0 THEN n ELSE -n
ShortOf(n)   == Larger(n, 0)

(* get_effective_position: 0 stands for None, no open position.            *)
(* (Variant: the plain WebSocket view of get_position.)                    *)
RawObserved == observed
Effective == Larger(observed, expected)

NoScan == [expected |-> 0, fire |-> 0]

TypeOK ==
  /\ exch \in Int
  /\ pending \in Seq(Int)
  /\ ord \in {"none", "sent", "booked"}
  /\ observed \in Nat /\ expected \in Nat
  /\ tracked \in BOOLEAN
  /\ lastFire \in Nat /\ aged \in Nat
  /\ pc \in {"idle", "read", "attempt", "await", "verify"}
  /\ v2 \in BOOLEAN
  /\ target \in Nat /\ cur \in Nat /\ delta \in Int
  /\ attempts \in 0..MaxAttempts
  /\ rpc \in {"idle", "handle", "http", "answer"}
  /\ scan \in [expected : Nat, fire : Nat]
  /\ truth \in Nat
  /\ fires \in 0..MaxFires /\ faults \in 0..MaxFaults
  /\ accepted \in Nat
  /\ covered \in BOOLEAN /\ external \in BOOLEAN
  /\ eroded \in Nat /\ maxTarget \in Nat

Init ==
  /\ exch = 0 /\ pending = << >> /\ ord = "none"
  /\ observed = 0 /\ expected = 0 /\ tracked = FALSE
  /\ lastFire = 0 /\ aged = 0
  /\ pc = "idle" /\ v2 \in BOOLEAN
  /\ target = 0 /\ cur = 0 /\ delta = 0 /\ attempts = 0
  /\ rpc = "idle" /\ scan = NoScan /\ truth = 0
  /\ fires = 0 /\ faults = 0
  /\ accepted = 0 /\ covered = FALSE /\ external = FALSE
  /\ eroded = 0 /\ maxTarget = 0

(* A fault other than an order answer, charged to the bound.               *)
Fault == faults < MaxFaults /\ faults' = faults + 1

(***************************************************************************)
(* Engine: one iteration reads the target and the effective short, and     *)
(* later, after awaits, decides on them.                                   *)
(***************************************************************************)
ReadState(t) ==
  /\ pc = "idle"
  /\ pc' = "read"
  /\ target' = t
  /\ cur' = Effective
  /\ maxTarget' = Larger(maxTarget, t)
  /\ UNCHANGED <<exchangeVars, layerVars, clockVars, v2, delta, attempts, reconVars,
                 fires, faults, accepted, covered, external, eroded>>

(* _maybe_rebalance_leg takes an absent position for a flat one;           *)
(* _maybe_correct_drift refuses to trade on it.                            *)
Fires == /\ Magnitude(target - cur) >= MinSize
         /\ ~(v2 /\ cur = 0)

Skip ==
  /\ pc = "read" /\ ~Fires
  /\ pc' = "idle"
  /\ target' = 0 /\ cur' = 0
  /\ UNCHANGED <<exchangeVars, layerVars, clockVars, v2, delta, attempts, reconVars,
                 fires, faults, historyVars>>

(* An order whose answer was lost has settled before the next decision     *)
(* reaches the exchange (the placement lock and 0.6 s gap lie between).    *)
Decide ==
  /\ pc = "read" /\ Fires /\ fires < MaxFires /\ ord = "none"
  /\ pc' = "attempt"
  /\ delta' = target - cur
  /\ target' = 0 /\ cur' = 0
  /\ fires' = fires + 1
  /\ accepted' = 0
  /\ covered' = (covered \/ target < cur)
  /\ UNCHANGED <<exchangeVars, layerVars, clockVars, v2, attempts, reconVars,
                 faults, external, eroded, maxTarget>>

(***************************************************************************)
(* _place_long_term_order_unlocked: at most MaxAttempts tries; an empty    *)
(* book or a rejection uses one up, an accepted order is never retried.    *)
(***************************************************************************)
BookEmpty ==
  /\ pc = "attempt" /\ attempts < MaxAttempts
  /\ attempts' = attempts + 1
  /\ UNCHANGED <<exchangeVars, layerVars, clockVars, pc, v2, target, cur, delta,
                 reconVars, fires, faults, historyVars>>

CreateOrder ==
  /\ pc = "attempt" /\ attempts < MaxAttempts /\ ord = "none"
  /\ pc' = "await" /\ ord' = "sent"
  /\ UNCHANGED <<exch, pending, layerVars, clockVars, v2, target, cur, delta, attempts,
                 reconVars, fires, faults, historyVars>>

Exhausted ==
  /\ pc = "attempt" /\ attempts = MaxAttempts
  /\ pc' = "idle" /\ attempts' = 0
  /\ UNCHANGED <<exchangeVars, layerVars, clockVars, v2, target, cur, delta,
                 reconVars, fires, faults, historyVars>>

Rejected ==
  /\ pc = "await" /\ ord = "sent"
  /\ pc' = "attempt" /\ ord' = "none"
  /\ attempts' = attempts + 1
  /\ UNCHANGED <<exch, pending, layerVars, clockVars, v2, target, cur, delta,
                 reconVars, fires, faults, historyVars>>

(* The credit of an accepted order: a sell adds, a cover subtracts and is  *)
(* clamped at zero; independent of any fill. (Variant: no clamp.)          *)
UnclampedCredit(e, d) == e + d
Credit(e, d) == ShortOf(e + d)

(* Where the placement goes once the server has accepted: never back to    *)
(* another attempt. (Variant: the retry loop goes on.)                     *)
RetryAfterAccept == "attempt"
AfterAccept == "verify"

Stamp ==
  /\ pc = "await" /\ ord # "sent"
  /\ expected' = Credit(expected, delta)
  /\ tracked' = TRUE
  /\ lastFire' = lastFire + 1
  /\ pc' = AfterAccept /\ attempts' = 0
  /\ UNCHANGED <<exchangeVars, observed, aged, v2, target, cur, delta, reconVars,
                 fires, faults, historyVars>>

(* _verify_fill ends, with or without a fill; both are the engine's end of *)
(* the order.                                                              *)
Verified ==
  /\ pc = "verify" /\ ord = "none"
  /\ pc' = "idle"
  /\ UNCHANGED <<exchangeVars, layerVars, clockVars, v2, target, cur, delta, attempts,
                 reconVars, fires, faults, historyVars>>

(* create_order raises although the request may have reached the server:   *)
(* the exception leaves the adapter unstamped and the engine logs it.      *)
LoseAnswer ==
  /\ pc = "await" /\ Fault
  /\ pc' = "idle"
  /\ ord' \in (IF ord = "sent" THEN {"sent", "none"} ELSE {ord})
  /\ external' = TRUE /\ attempts' = 0
  /\ UNCHANGED <<exch, pending, layerVars, clockVars, v2, target, cur, delta, reconVars,
                 fires, accepted, covered, eroded, maxTarget>>

(***************************************************************************)
(* The exchange.                                                           *)
(***************************************************************************)
Accept ==
  /\ ord = "sent"
  /\ ord' = "booked"
  /\ accepted' = accepted + 1
  /\ UNCHANGED <<exch, pending, layerVars, clockVars, engineVars, reconVars,
                 fires, faults, covered, external, eroded, maxTarget>>

(* IOC: k of the order fills, the rest is cancelled. A change of position  *)
(* is pushed as a new account snapshot.                                    *)
Match(k) ==
  /\ ord = "booked"
  /\ ord' = "none"
  /\ exch' = IF delta >= 0 THEN exch + k ELSE exch - k
  /\ pending' = IF k = 0 THEN pending ELSE Append(pending, exch')
  /\ UNCHANGED <<layerVars, clockVars, engineVars, reconVars, fires, faults, historyVars>>

(* A resting stop order fills, or the operator trades by hand: the taker   *)
(* path is not told.                                                       *)
StopFill(d) ==
  /\ Fault
  /\ exch' = exch + d
  /\ pending' = Append(pending, exch')
  /\ external' = TRUE
  /\ UNCHANGED <<ord, layerVars, clockVars, engineVars, reconVars, fires,
                 accepted, covered, eroded, maxTarget>>

(***************************************************************************)
(* WebSocket: _on_account_update. A flat position is simply missing from   *)
(* the message, and a missing non-zero entry is kept (defensive merge). A  *)
(* long counts as zero short.                                              *)
(***************************************************************************)
Merge(old, shown) == IF shown = 0 THEN old ELSE ShortOf(shown)

WsUpdate ==
  /\ pending # << >>
  /\ observed' = Merge(observed, Head(pending))
  /\ pending' = Tail(pending)
  /\ UNCHANGED <<exch, ord, expected, tracked, clockVars, engineVars, reconVars,
                 fires, faults, historyVars>>

(* A transient snapshot that drops an open position.                       *)
WsDrop ==
  /\ Fault
  /\ observed' = Merge(observed, 0)
  /\ UNCHANGED <<exchangeVars, expected, tracked, clockVars, engineVars, reconVars,
                 fires, historyVars>>

(* The pump reconnects and subscribes again: one fresh snapshot.           *)
WsReconnect ==
  /\ pending' = <<exch>>
  /\ UNCHANGED <<exch, ord, layerVars, clockVars, engineVars, reconVars,
                 fires, faults, historyVars>>

(***************************************************************************)
(* Reconciler: _reconcile_once. Other markets' HTTP awaits may lie between *)
(* the scan and the moment this market is handled.                         *)
(***************************************************************************)
Scan ==
  /\ rpc = "idle" /\ tracked
  /\ rpc' = "handle"
  /\ scan' = [expected |-> expected, fire |-> lastFire]
  /\ UNCHANGED <<exchangeVars, layerVars, clockVars, engineVars, truth,
                 fires, faults, historyVars>>

CaughtUp   == Magnitude(scan.expected - observed) <= Tol
(* An order stamped since the scan aborts the pin. (Variant: it does not.) *)
Unguarded  == TRUE
NoNewFire  == lastFire = scan.fire

CatchUp ==
  /\ rpc = "handle" /\ CaughtUp
  /\ rpc' = "idle" /\ scan' = NoScan /\ truth' = 0
  /\ IF NoNewFire
       THEN /\ expected' = observed
            /\ eroded' = eroded + ShortOf(expected - observed)
       ELSE UNCHANGED <<expected, eroded>>
  /\ UNCHANGED <<exchangeVars, observed, tracked, clockVars, engineVars,
                 fires, faults, accepted, covered, external, maxTarget>>

TooYoung ==
  /\ rpc = "handle" /\ ~CaughtUp /\ scan.fire > aged
  /\ rpc' = "idle" /\ scan' = NoScan /\ truth' = 0
  /\ UNCHANGED <<exchangeVars, layerVars, clockVars, engineVars,
                 fires, faults, historyVars>>

Query ==
  /\ rpc = "handle" /\ ~CaughtUp /\ scan.fire =< aged
  /\ rpc' = "http"
  /\ UNCHANGED <<exchangeVars, layerVars, clockVars, engineVars, scan, truth,
                 fires, faults, historyVars>>

(* _fetch_short_size_via_http, at the server: a long or flat account is 0. *)
HttpAnswer ==
  /\ rpc = "http"
  /\ rpc' = "answer"
  /\ truth' = ShortOf(exch)
  /\ UNCHANGED <<exchangeVars, layerVars, clockVars, engineVars, scan,
                 fires, faults, historyVars>>

HttpFail ==
  /\ rpc = "http" /\ Fault
  /\ rpc' = "idle" /\ scan' = NoScan /\ truth' = 0
  /\ UNCHANGED <<exchangeVars, layerVars, clockVars, engineVars,
                 fires, historyVars>>

(* The answer overrides both estimates. (Variant: only the observed one.)  *)
PinObservedOnly ==
  /\ rpc = "answer"
  /\ rpc' = "idle" /\ scan' = NoScan /\ truth' = 0
  /\ observed' = (IF NoNewFire THEN truth ELSE observed)
  /\ UNCHANGED <<exchangeVars, expected, tracked, clockVars, engineVars,
                 fires, faults, historyVars>>

Pin ==
  /\ rpc = "answer"
  /\ rpc' = "idle" /\ scan' = NoScan /\ truth' = 0
  /\ IF NoNewFire
       THEN observed' = truth /\ expected' = truth
       ELSE UNCHANGED <<observed, expected>>
  /\ UNCHANGED <<exchangeVars, tracked, clockVars, engineVars,
                 fires, faults, historyVars>>

(* Ten seconds pass since the last stamp; the stamped order has settled.   *)
TimeOut ==
  /\ aged < lastFire
  /\ pc = "verify" => ord = "none"
  /\ aged' = lastFire
  /\ UNCHANGED <<exchangeVars, layerVars, lastFire, engineVars, reconVars,
                 fires, faults, historyVars>>

(* Process restart: every estimate is memory only. The position is read    *)
(* again from the first account message after the subscription.            *)
Restart ==
  /\ Fault
  /\ observed' = 0 /\ expected' = 0 /\ tracked' = FALSE
  /\ lastFire' = 0 /\ aged' = 0
  /\ pc' = "idle" /\ rpc' = "idle"
  /\ pending' = <<exch>>
  /\ external' = TRUE
  /\ target' = 0 /\ cur' = 0 /\ attempts' = 0
  /\ scan' = NoScan /\ truth' = 0
  /\ UNCHANGED <<exch, ord, v2, delta, fires, accepted, covered, eroded, maxTarget>>

Placement  == BookEmpty \/ CreateOrder \/ Exhausted \/ Stamp \/ Verified
Exchange   == Accept \/ \E k \in 0..Magnitude(delta) : Match(k)
Reconciler == Scan \/ CatchUp \/ TooYoung \/ Query \/ HttpAnswer \/ Pin
Faulty     == \/ LoseAnswer \/ WsDrop \/ HttpFail \/ Restart
              \/ \E d \in {-1, 1} : StopFill(d)

Next ==
  \/ \E t \in Targets : ReadState(t)
  \/ Skip \/ Decide \/ Rejected
  \/ Placement \/ Exchange \/ Reconciler
  \/ WsUpdate \/ WsReconnect \/ TimeOut
  \/ Faulty

Safety == Init /\ [][Next]_vars

(* The 1 s loop, the pump and the 5 s reconciler keep running; the server  *)
(* answers and settles.                                                    *)
Fairness ==
  /\ WF_vars(Placement) /\ WF_vars(Exchange) /\ WF_vars(Reconciler)
  /\ WF_vars(WsUpdate) /\ WF_vars(TimeOut)

Spec == Safety /\ Fairness
-----------------------------------------------------------------------------
(***************************************************************************)
(* Properties.                                                             *)
(***************************************************************************)

(* As long as the bot only sold, on estimates it never lost, the engine    *)
(* never reads less short than the exchange holds, but for the credit the  *)
(* tolerance of catch-up pins gave away. Reads happen outside "await".     *)
ShortNeverUnderread ==
  ~covered /\ ~external /\ pc # "await" => exch =< Effective + eroded

(* Under the same conditions the short never exceeds the largest target    *)
(* ever read, whatever the lag of the WebSocket and of the reconciler: the *)
(* over-hedge stack of 2026-05-07 and of op #28 cannot build up.           *)
NoOverHedge ==
  ~covered /\ ~external => exch =< maxTarget + eroded

(* One decision of the engine never becomes two orders at the exchange,    *)
(* however often a rejected create_order is retried.                       *)
OneOrderPerDecision == accepted =< 1

(* While a short is open that only stamped orders moved, the two estimates *)
(* finally agree with the exchange: non-fills, dropped snapshots, failed   *)
(* HTTP reads and aborted reconciler passes are all recovered from.        *)
TruthConverges == <>[](exch > 0 /\ ~external => Effective = exch)

(* Docstring of _maybe_rebalance_leg: after a successful fire drift is 0,  *)
(* "so re-fire is impossible during WS lag": with the credit right and a   *)
(* size read that is the WebSocket's, no order is decided once the short   *)
(* equals the target. The code breaks it on covers: the lagging observed   *)
(* size is then the larger of the two.                                     *)
NoFireWhenHedged ==
  [][Decide /\ ~external /\ expected = exch /\ cur = observed => exch # target]_vars

(* Comment of _on_account_update: keeping a missing position "only DEFERS  *)
(* clearing - it doesn't permanently mask a closed position". The code     *)
(* breaks it when the position was closed by something else than a taker   *)
(* order of this process.                                                  *)
ClosedIsSeen == <>[](exch = 0 => Effective = 0)
=============================================================================
