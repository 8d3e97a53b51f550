----------------------------- MODULE EventGrid -----------------------------
(***************************************************************************)
(* The event-driven grid of stop orders (src/engine/__init__.py).          *)
(*                                                                         *)
(* Two coroutines share the grid state without a lock:                     *)
(*   M  the 1 s main loop, _maintain_grid and _post_initial_grid           *)
(*   E  the 100 ms _grid_event_loop, with the 90 s _safety_reconcile       *)
(* They interleave at every await. An action runs a coroutine from one     *)
(* await to the next and lets the exchange act on the request; the answer  *)
(* is used by a later action.                                              *)
(*                                                                         *)
(* Prices are grid levels, an integer apart. The market is the gap between *)
(* the levels mkt and mkt + 1: sells belong below it, buys above. A stop   *)
(* fires when the market crosses its level, in either direction. Every     *)
(* stop has size one.                                                      *)
(***************************************************************************)
EXTENDS Integers, Sequences, FiniteSets, SequencesExt

CONSTANTS
  Bounds,       (* per LP range: <<lowest level, highest level>>           *)
  PerSide,      (* max_open_orders // 2                                    *)
  StartGap,     (* the market when the process starts                     *)
  StartShort,   (* the short opened by the bootstrap                      *)
  MaxEvents     (* bound: market moves, range changes, taker trades,       *)
                (* failed requests and process restarts, all together      *)

ASSUME GridAssumption ==
  /\ Bounds \in Seq(Int \X Int) /\ Len(Bounds) > 0
  /\ PerSide \in Nat \ {0}
  /\ StartGap \in Bounds[1][1]..Bounds[1][2] - 1 /\ StartShort \in Int
  /\ MaxEvents \in Nat

VARIABLES
  mkt, range,   (* market gap; LP range in the hedge model's cache         *)
  live,         (* orders at the exchange: [cloid, gen, side, price]       *)
  pos, seen,    (* net short; the one get_position reads (WebSocket)       *)
  gen, seq,     (* process generation; _cloid_seq                          *)
  local,        (* _local_grid: [cloid, side, price], one per cloid        *)
  lastPos,      (* _last_known_position                                    *)
  sig,          (* _posted_grid_signature, 0 for None                      *)
  auditDue,     (* 90 s since _last_safety_reconcile_at                    *)
  mpc, msig, todo, mnew, msnap,            (* M: where it is, and locals   *)
  epc, snap, orphans, missing, posNow,     (* E: where it is, and locals   *)
  queue, step, job, made,
  moves, faults, (* how often the world moved, how many requests failed    *)
  lied,         (* history: a read failed or a stop was silently rejected  *)
  overlap,      (* history: M and E were both at work at some moment       *)
  fired         (* history: cloids of this process the market fired        *)

marketVars  == <<mkt, range, moves>>
exchangeVars == <<live, pos, seen, fired>>
gridVars    == <<local, lastPos, sig, auditDue>>
mVars       == <<mpc, msig, todo, mnew, msnap>>
eVars       == <<epc, snap, orphans, missing, posNow, queue, step, job, made>>
auditVars   == <<orphans, missing>>
fillVars    == <<queue, step, job, made>>
vars == <<marketVars, exchangeVars, gen, seq, gridVars, mVars, eVars, faults,
          lied, overlap>>

Sides == {"sell", "buy"}
Level == [side : Sides, price : Int]
Stop  == [cloid : Nat, side : Sides, price : Int]
Order == [cloid : Nat, gen : Nat, side : Sides, price : Int]
NoStop == [cloid |-> 0, side |-> "sell", price |-> 0]
NoJob  == [stop |-> NoStop, opp |-> NoStop, tip |-> 0]

Numbered(n, l) == [cloid |-> n, side |-> l.side, price |-> l.price]
AsOrder(s, g) == [cloid |-> s.cloid, gen |-> g, side |-> s.side, price |-> s.price]
AsStop(o)  == [cloid |-> o.cloid, side |-> o.side, price |-> o.price]
Cloids(S)  == {s.cloid : s \in S}
Side(S, d) == {s \in S : s.side = d}
Opposite(d) == IF d = "sell" THEN "buy" ELSE "sell"

(* A dict keyed by cloid: an insertion replaces the entry of its key.      *)
Without(S, cs) == {s \in S : s.cloid \notin cs}
(* (Variant: a list, which would keep both.)                               *)
InsertTwice(S, new) == S \cup new
Insert(S, new) == Without(S, Cloids(new)) \cup new

(* compute_grid_from_pool_ticks and the selection of _post_initial_grid:   *)
(* the PerSide levels next to the market on each side, or all there are    *)
(* between it and the end of the range, nearest first.                     *)
Levels(r, g) ==
  [i \in 1..Min({PerSide, g + 1 - Bounds[r][1]}) |-> [side |-> "sell", price |-> g + 1 - i]]
  \o [i \in 1..Min({PerSide, Bounds[r][2] - g}) |-> [side |-> "buy", price |-> g + i]]

InRange == Bounds[range][1] =< mkt /\ mkt < Bounds[range][2]

TypeOK ==
  /\ mkt \in Int /\ range \in 1..Len(Bounds)
  /\ live \subseteq Order
  /\ pos \in Int /\ seen \in Int
  /\ gen \in 0..MaxEvents /\ seq \in Nat
  /\ local \subseteq Stop
  /\ lastPos \in Int /\ sig \in 0..Len(Bounds) /\ auditDue \in BOOLEAN
  /\ mpc \in {"idle", "clear_out", "clear_range", "post", "placed", "verify", "traded"}
  /\ msig \in 0..Len(Bounds) /\ todo \in Seq(Level) /\ mnew \subseteq Stop
  /\ msnap \subseteq Order
  /\ epc \in {"idle", "audit", "cancel", "position", "diff", "next", "oppose", "extend", "commit"}
  /\ snap \subseteq Order /\ orphans \subseteq Order /\ missing \subseteq Nat
  /\ posNow \in Int /\ queue \subseteq Stop /\ step \in Int
  /\ job \in [stop : Stop, opp : Stop, tip : Int] /\ made \subseteq Stop
  /\ moves \in 0..MaxEvents /\ faults \in 0..MaxEvents
  /\ lied \in BOOLEAN /\ overlap \in BOOLEAN /\ fired \subseteq Nat
  /\ Cardinality(Cloids(local)) = Cardinality(local)

(* An operation whose initial grid was posted, verified and found by E.    *)
(* Restart leads back to a process with nothing posted.                    *)
InitialGrid ==
  LET l == Levels(1, StartGap)
  IN {Numbered(i, l[i]) : i \in 1..Len(l)}

Init ==
  /\ mkt = StartGap /\ range = 1 /\ moves = 0
  /\ local = InitialGrid /\ live = {AsOrder(s, 0) : s \in InitialGrid}
  /\ pos = StartShort /\ seen = StartShort /\ lastPos = StartShort
  /\ gen = 0 /\ seq = Cardinality(InitialGrid)
  /\ sig = 1 /\ auditDue = FALSE
  /\ mpc = "idle" /\ msig = 0 /\ todo = << >> /\ mnew = {} /\ msnap = {}
  /\ epc = "idle" /\ snap = {} /\ orphans = {} /\ missing = {} /\ posNow = 0
  /\ queue = {} /\ step = 0 /\ job = NoJob /\ made = {}
  /\ faults = 0 /\ lied = FALSE /\ overlap = FALSE /\ fired = {}

(* Every disturbance is charged to one budget.                             *)
MayHappen == moves + faults + gen < MaxEvents
Fault == MayHappen /\ faults' = faults + 1
(***************************************************************************)
(* Requests to the exchange.                                               *)
(***************************************************************************)

(* get_open_orders answers [] on any error. The callers key the orders by  *)
(* cloid; of two orders with one cloid they see the later of the list.     *)
ByCloid(L, newest) ==
  {o \in L : \A q \in L : q.cloid = o.cloid => IF newest THEN q.gen =< o.gen ELSE o.gen =< q.gen}

OpenOrders(answer) ==
  \/ \E newest \in BOOLEAN : answer = ByCloid(live, newest) /\ UNCHANGED <<faults, lied>>
  \/ Fault /\ answer = {} /\ lied' = TRUE

(* place_stop_market: lands; or is silently rejected; or raises, before or *)
(* after the order landed. told is what the caller may remember.           *)
Place(stop, told) ==
  LET o == AsOrder(stop, gen)
  IN \/ told = {stop} /\ live' = live \cup {o} /\ UNCHANGED <<faults, lied>>
     \/ Fault /\ told = {stop} /\ live' = live /\ lied' = TRUE
     \/ Fault /\ told = {} /\ live' \in {live, live \cup {o}} /\ UNCHANGED lied

(* The caller inserts into its grid what it was told, never what it asked  *)
(* for.                                                                    *)
Remembered(stop, told) == told

(* cancel_stop_order and cancel_all_stops; callers ignore a failure.       *)
Cancel(os) ==
  \/ live' = live \ os /\ UNCHANGED faults
  \/ Fault /\ live' = live
(***************************************************************************)
(* M: _maintain_grid.                                                      *)
(***************************************************************************)
MOutOfRange ==
  /\ mpc = "idle" /\ ~InRange /\ sig # 0
  /\ Cancel(live)
  /\ mpc' = "clear_out"
  /\ overlap' = (overlap \/ epc # "idle")
  /\ UNCHANGED <<marketVars, pos, seen, fired, gen, seq, gridVars, msig, todo, mnew, msnap,
                 eVars, lied>>

MClearOut ==
  /\ mpc = "clear_out"
  /\ mpc' = "idle" /\ sig' = 0 /\ local' = {}
  /\ UNCHANGED <<marketVars, exchangeVars, gen, seq, lastPos, auditDue, msig, todo, mnew,
                 msnap, eVars, faults, lied, overlap>>

MRangeChanged ==
  /\ mpc = "idle" /\ InRange /\ sig \notin {0, range}
  /\ Cancel(live)
  /\ mpc' = "clear_range"
  /\ overlap' = (overlap \/ epc # "idle")
  /\ UNCHANGED <<marketVars, pos, seen, fired, gen, seq, gridVars, msig, todo, mnew, msnap,
                 eVars, lied>>

(* (Variant: the stops are cancelled and still remembered.)                *)
MClearRangeKept ==
  /\ mpc = "clear_range"
  /\ mpc' = "idle" /\ sig' = 0 /\ auditDue' = TRUE
  /\ UNCHANGED <<marketVars, exchangeVars, gen, seq, local, lastPos, msig, todo, mnew, msnap,
                 eVars, faults, lied, overlap>>

(* The local posted_sig is still set: the new grid is for the next pass.   *)
MClearRange ==
  /\ mpc = "clear_range"
  /\ mpc' = "idle" /\ sig' = 0 /\ local' = {} /\ auditDue' = TRUE
  /\ UNCHANGED <<marketVars, exchangeVars, gen, seq, lastPos, msig, todo, mnew, msnap,
                 eVars, faults, lied, overlap>>

(* _post_initial_grid, level by level.                                     *)
MStartPost ==
  /\ mpc = "idle" /\ InRange /\ sig = 0
  /\ mpc' = "post"
  /\ msig' = range /\ todo' = Levels(range, mkt)
  /\ overlap' = (overlap \/ epc # "idle")
  /\ UNCHANGED <<marketVars, exchangeVars, gen, seq, gridVars, mnew, msnap, eVars, faults, lied>>

MPlace ==
  /\ mpc = "post" /\ todo # << >>
  /\ mpc' = "placed" /\ todo' = Tail(todo) /\ seq' = seq + 1
  /\ LET new == Numbered(seq + 1, Head(todo))
     IN \E told \in SUBSET {new} : mnew' = Remembered(new, told) /\ Place(new, told)
  /\ UNCHANGED <<marketVars, pos, seen, fired, gen, gridVars, msig, msnap, eVars, overlap>>

MPlaced ==
  /\ mpc = "placed"
  /\ mpc' = "post" /\ mnew' = {}
  /\ local' = Insert(local, mnew)
  /\ UNCHANGED <<marketVars, exchangeVars, gen, seq, lastPos, sig, auditDue, msig, todo,
                 msnap, eVars, faults, lied, overlap>>

(* The verification of the post drops what is not live, then the position  *)
(* becomes the new baseline.                                               *)
MVerify ==
  /\ mpc = "post" /\ todo = << >>
  /\ mpc' = "verify" /\ OpenOrders(msnap')
  /\ UNCHANGED <<marketVars, exchangeVars, gen, seq, gridVars, msig, todo, mnew, eVars, overlap>>

MVerified ==
  /\ mpc = "verify"
  /\ mpc' = "idle" /\ msnap' = {} /\ msig' = 0
  /\ local' = {s \in local : s.cloid \in Cloids(msnap)}
  /\ lastPos' = seen /\ sig' = msig
  /\ UNCHANGED <<marketVars, exchangeVars, gen, seq, auditDue, todo, mnew,
                 eVars, faults, lied, overlap>>

(* _maybe_correct_drift: a taker trade of the main loop, after which the   *)
(* position read back is the new baseline.                                 *)
MDrift(d) ==
  /\ mpc = "idle" /\ MayHappen
  /\ mpc' = "traded" /\ moves' = moves + 1
  /\ pos' = pos + d
  /\ UNCHANGED <<mkt, range, live, seen, fired, gen, seq, gridVars, msig, todo, mnew, msnap,
                 eVars, faults, lied, overlap>>

MTraded ==
  /\ mpc = "traded"
  /\ mpc' = "idle" /\ lastPos' = seen
  /\ UNCHANGED <<marketVars, exchangeVars, gen, seq, local, sig, auditDue, msig, todo, mnew,
                 msnap, eVars, faults, lied, overlap>>
(***************************************************************************)
(* E: _safety_reconcile.                                                   *)
(***************************************************************************)
EAudit ==
  /\ epc = "idle" /\ auditDue
  /\ epc' = "audit" /\ OpenOrders(snap')
  /\ overlap' = (overlap \/ mpc # "idle")
  /\ UNCHANGED <<marketVars, exchangeVars, gen, seq, gridVars, mVars, auditVars, posNow, fillVars>>

(* After the audit the iteration goes on with the position, at once.       *)
AfterAudit == IF seen = lastPos THEN "idle" ELSE "position"

(* An empty grid adopts what the exchange shows.                           *)
EAdopt ==
  /\ epc = "audit" /\ local = {}
  /\ epc' = AfterAudit /\ auditDue' = FALSE /\ snap' = {}
  /\ local' = {AsStop(o) : o \in snap}
  /\ UNCHANGED <<marketVars, exchangeVars, gen, seq, lastPos, sig, mVars, auditVars, posNow,
                 fillVars, faults, lied, overlap>>

ECompare ==
  /\ epc = "audit" /\ local # {}
  /\ epc' = "cancel" /\ snap' = {}
  /\ orphans' = {o \in snap : o.cloid \notin Cloids(local)}
  /\ missing' = Cloids(local) \ Cloids(snap)
  /\ UNCHANGED <<marketVars, exchangeVars, gen, seq, gridVars, mVars, posNow, fillVars,
                 faults, lied, overlap>>

ECancelOrphan ==
  /\ epc = "cancel"
  /\ \E o \in orphans : Cancel({o}) /\ orphans' = orphans \ {o}
  /\ UNCHANGED <<marketVars, pos, seen, fired, gen, seq, gridVars, mVars, epc, snap,
                 missing, posNow, fillVars, lied, overlap>>

(* (Variant: an audit that only looks for orphans.)                        *)
EKeepMissing ==
  /\ epc = "cancel" /\ orphans = {}
  /\ epc' = AfterAudit /\ auditDue' = FALSE /\ missing' = {}
  /\ UNCHANGED <<marketVars, exchangeVars, gen, seq, local, lastPos, sig, mVars, snap, orphans,
                 posNow, fillVars, faults, lied, overlap>>

EDropMissing ==
  /\ epc = "cancel" /\ orphans = {}
  /\ epc' = AfterAudit /\ auditDue' = FALSE /\ missing' = {}
  /\ local' = Without(local, missing)
  /\ UNCHANGED <<marketVars, exchangeVars, gen, seq, lastPos, sig, mVars, snap, orphans, posNow,
                 fillVars, faults, lied, overlap>>
(***************************************************************************)
(* E: _grid_event_iter. A changed position sends it to look for the stops  *)
(* that are gone.                                                          *)
(***************************************************************************)
EChanged ==
  /\ epc = "position" \/ (epc = "idle" /\ ~auditDue /\ seen # lastPos)
  /\ epc' = "diff" /\ posNow' = seen /\ OpenOrders(snap')
  /\ overlap' = (overlap \/ mpc # "idle")
  /\ UNCHANGED <<marketVars, exchangeVars, gen, seq, gridVars, mVars, auditVars, fillVars>>

Lowest(S)  == CHOOSE s \in S : \A t \in S : s.price =< t.price
Highest(S) == CHOOSE s \in S : \A t \in S : s.price >= t.price

(* _estimate_grid_step: the gap at the low end of the sells, else at the   *)
(* high end of the buys, else none.                                        *)
EstimateStep(G) ==
  LET sells == Side(G, "sell")
      buys  == Side(G, "buy")
  IN IF Cardinality(sells) >= 2
     THEN Lowest(sells \ {Lowest(sells)}).price - Lowest(sells).price
     ELSE IF Cardinality(buys) >= 2
          THEN Highest(buys).price - Highest(buys \ {Highest(buys)}).price
          ELSE 0

EDiff ==
  /\ epc = "diff"
  /\ epc' = "next"
  /\ queue' = Without(local, Cloids(snap))
  /\ step' = IF queue' = {} THEN 0 ELSE EstimateStep(local)
  /\ UNCHANGED <<marketVars, exchangeVars, gen, seq, gridVars, mVars, snap, auditVars, posNow,
                 job, made, faults, lied, overlap>>

(* What a fill of stop s takes away on the other side, and the extreme it  *)
(* extends on its own side.                                                *)
Target(s) == IF s.side = "sell" THEN Lowest(Side(local, "buy")) ELSE Highest(Side(local, "sell"))
Tip(s)    == IF s.side = "sell" THEN Highest(Side(local, "sell")) ELSE Lowest(Side(local, "buy"))
Extension(j) == IF j.stop.side = "sell" THEN j.tip + step ELSE j.tip - step

(* The order of _apply_fills_to_grid: sells by rising trigger, buys by     *)
(* falling one. Only cloids are kept: an entry that left the grid in the   *)
(* meantime is passed over.                                                *)
FillKey(s) == IF s.side = "sell" THEN s.price ELSE -s.price
IsFirst(s) == s \in queue /\ \A t \in queue : FillKey(s) =< FillKey(t)
Tracked(s) == s.cloid \in Cloids(local)
CanReplace == step > 0 /\ \A d \in Sides : Side(local, d) # {}

ESkip ==
  /\ epc = "next"
  /\ \E s \in queue : IsFirst(s) /\ ~(Tracked(s) /\ CanReplace) /\ queue' = queue \ {s}
  /\ UNCHANGED <<marketVars, exchangeVars, gen, seq, gridVars, mVars, epc, snap, auditVars, posNow,
                 step, job, made, faults, lied, overlap>>

(* The cancel goes by the order index of the snapshot, if it has one.      *)
EReplace ==
  /\ epc = "next" /\ CanReplace
  /\ \E s \in queue :
       /\ IsFirst(s) /\ Tracked(s)
       /\ queue' = queue \ {s}
       /\ job' = [stop |-> s, opp |-> Target(s), tip |-> Tip(s).price]
       /\ Cancel({o \in snap : o.cloid = Target(s).cloid})
  /\ epc' = "oppose" /\ made' = {}
  /\ UNCHANGED <<marketVars, pos, seen, fired, gen, seq, gridVars, mVars, snap, auditVars, posNow,
                 step, lied, overlap>>

PostStop(side, price) ==
  LET new == [cloid |-> seq + 1, side |-> side, price |-> price]
  IN /\ seq' = seq + 1
     /\ \E told \in SUBSET {new} : made' = made \cup Remembered(new, told) /\ Place(new, told)

EOppose ==
  /\ epc = "oppose"
  /\ epc' = "extend" /\ PostStop(Opposite(job.stop.side), job.stop.price)
  /\ UNCHANGED <<marketVars, pos, seen, fired, gen, gridVars, mVars, snap, auditVars, posNow,
                 queue, step, job, overlap>>

EExtend ==
  /\ epc = "extend"
  /\ epc' = "commit" /\ PostStop(job.stop.side, Extension(job))
  /\ UNCHANGED <<marketVars, pos, seen, fired, gen, gridVars, mVars, snap, auditVars, posNow,
                 queue, step, job, overlap>>

(* Both the filled stop and the cancelled one leave the grid.              *)
(* (Variant: the cancelled one stays.)                                     *)
RetireFilledOnly(j) == {j.stop.cloid}
Retired(j) == {j.stop.cloid, j.opp.cloid}

ECommit ==
  /\ epc = "commit"
  /\ epc' = "next" /\ job' = NoJob /\ made' = {}
  /\ local' = Insert(Without(local, Retired(job)), made)
  /\ UNCHANGED <<marketVars, exchangeVars, gen, seq, lastPos, sig, auditDue, mVars, snap, auditVars,
                 posNow, queue, step, faults, lied, overlap>>

EDone ==
  /\ epc = "next" /\ queue = {}
  /\ epc' = "idle" /\ snap' = {} /\ step' = 0
  /\ lastPos' = posNow /\ posNow' = 0
  /\ UNCHANGED <<marketVars, exchangeVars, gen, seq, local, sig, auditDue, mVars, auditVars,
                 queue, job, made, faults, lied, overlap>>
(***************************************************************************)
(* The world.                                                              *)
(***************************************************************************)

(* The market crosses a level: every stop on it fires.                     *)
Cross(level, gap) ==
  LET gone == {o \in live : o.price = level}
  IN /\ MayHappen /\ moves' = moves + 1
     /\ mkt' = gap
     /\ live' = live \ gone
     /\ pos' = pos + Cardinality(Side(gone, "sell")) - Cardinality(Side(gone, "buy"))
     /\ fired' = fired \cup Cloids({o \in gone : o.gen = gen})
     /\ UNCHANGED <<range, seen, gen, seq, gridVars, mVars, eVars, faults, lied, overlap>>

MarketFalls == Cross(mkt, mkt - 1)
MarketRises == Cross(mkt + 1, mkt + 1)

RangeMoves ==
  /\ MayHappen /\ moves' = moves + 1
  /\ range' \in 1..Len(Bounds) \ {range}
  /\ UNCHANGED <<mkt, exchangeVars, gen, seq, gridVars, mVars, eVars, faults, lied, overlap>>

(* An account message; a flat position is missing from it and the old one  *)
(* is kept.                                                                *)
WsUpdate ==
  /\ seen # pos /\ pos # 0
  /\ seen' = pos
  /\ UNCHANGED <<marketVars, live, pos, fired, gen, seq, gridVars, mVars, eVars, faults,
                 lied, overlap>>

AuditTimer ==
  /\ epc = "idle" /\ ~auditDue /\ auditDue' = TRUE
  /\ UNCHANGED <<marketVars, exchangeVars, gen, seq, local, lastPos, sig, mVars, eVars,
                 faults, lied, overlap>>

(* The process dies and starts again: memory is lost, the operation is     *)
(* restored from the database and start() cancels what is live, best       *)
(* effort.                                                                 *)
Restart ==
  /\ MayHappen /\ gen' = gen + 1
  /\ Cancel(live)
  /\ seen' = pos /\ seq' = 0
  /\ local' = {} /\ lastPos' = 0 /\ sig' = 0 /\ auditDue' = TRUE
  /\ mpc' = "idle" /\ msig' = 0 /\ todo' = << >> /\ mnew' = {} /\ msnap' = {}
  /\ epc' = "idle" /\ snap' = {} /\ orphans' = {} /\ missing' = {} /\ posNow' = 0
  /\ queue' = {} /\ step' = 0 /\ job' = NoJob /\ made' = {}
  /\ fired' = {}
  /\ UNCHANGED <<marketVars, pos, lied, overlap>>

MainLoop == \/ MOutOfRange \/ MClearOut \/ MRangeChanged \/ MClearRange \/ MStartPost
            \/ MPlace \/ MPlaced \/ MVerify \/ MVerified \/ MTraded
Audit    == EAudit \/ EAdopt \/ ECompare \/ ECancelOrphan \/ EDropMissing
EventLoop == \/ EChanged \/ EDiff \/ ESkip \/ EReplace \/ EOppose \/ EExtend
             \/ ECommit \/ EDone
World == \/ MarketFalls \/ MarketRises \/ RangeMoves \/ \E d \in {-1, 1} : MDrift(d)

Next == MainLoop \/ Audit \/ EventLoop \/ World \/ WsUpdate \/ AuditTimer \/ Restart

(* Both loops keep running, account messages arrive and the audit timer    *)
(* goes on.                                                                *)
Fairness ==
  /\ WF_vars(MainLoop) /\ WF_vars(Audit \/ EventLoop)
  /\ WF_vars(WsUpdate) /\ WF_vars(AuditTimer)

Spec == Init /\ [][Next]_vars /\ Fairness
-----------------------------------------------------------------------------
(***************************************************************************)
(* Properties.                                                             *)
(***************************************************************************)

(* The exchange told the truth and the coroutines never overlapped.        *)
Undisturbed == ~lied /\ ~overlap /\ gen = 0

(* _apply_fills_to_grid only ever replaces a stop the market did fire, be  *)
(* it after failed placements, failed cancels or swallowed fills. Only a   *)
(* lying read or an overlap with the main loop can make it replace a live  *)
(* or a cancelled one.                                                     *)
FillsAreReal == Undisturbed /\ epc = "oppose" => job.stop.cloid \in fired

(* The stops the grid will hold once what is under way is done.            *)
Kept == Without(local, Retired(job)) \cup made \cup mnew

(* Without failures and overlaps the grid never goes by more stops than    *)
(* max_open_orders allows: a fill takes two and adds two, however many     *)
(* fire in one iteration, and no rebuild finds a grid that is still there. *)
KeptBounded == faults = 0 /\ ~overlap => Cardinality(Kept) =< 2 * PerSide

(* Whatever the two loops did to each other, once the world is quiet the   *)
(* grid in memory and the orders at the exchange agree: phantoms are       *)
(* dropped, orphans cancelled (_safety_reconcile). After a restart the     *)
(* agreement is only by cloid.                                             *)
TrackingConverges ==
  <>[](/\ Cloids(live) = Cloids(local)
       /\ gen = 0 => local = {AsStop(o) : o \in live})

(* Docstring of _apply_fills_to_grid: a cloid missing from the live map is *)
(* "already-cancelled-or-filled by external means", so the exchange holds  *)
(* no stop the grid has given up. The code breaks it when two stops fire   *)
(* in one iteration: the second fill retires the replacement the first one *)
(* just posted, which is not in the older live map, and never cancels it.  *)
NoOrphan == Undisturbed /\ faults = 0 => \A o \in live : AsStop(o) \in local \cup mnew \cup made

(* Panel: max_open_orders is the "Máximo open orders na exchange". The code  *)
(* goes beyond it, with the order NoOrphan speaks of, when the grid is as  *)
(* large as the range allows: of the two cancels that the design counts    *)
(* for two fills in one iteration the second is never sent.                *)
LiveBounded == faults = 0 /\ gen = 0 /\ ~overlap => Cardinality(live) =< 2 * PerSide

(* Comment of start(): when cancelling the leftovers of the last process   *)
(* fails, "_safety_reconcile bootstrap will recover". The code breaks it:  *)
(* the new process numbers its stops from 1 again, and a leftover with the *)
(* cloid of a new stop is never told from it.                              *)
LeftoversRecovered == <>[](Cardinality(live) = Cardinality(local))
=============================================================================
