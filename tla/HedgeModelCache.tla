-------------------------- MODULE HedgeModelCache --------------------------
(***************************************************************************)
(* HedgeModel: the liquidity and range of the vault's two positions, read  *)
(* from the chain by tasks that nobody awaits, and the pass of the main    *)
(* loop that starts them, compares the cache with what the vault reports   *)
(* and gives the cached range to the grid. The vault moves its positions   *)
(* when it likes; the pair is switched under all of this (VaultReaders).   *)
(*                                                                         *)
(* A position is a version: every move of a vault gets the next one and    *)
(* changes the amounts by more than DIVERGENCE_THRESHOLD; every vault has  *)
(* an alt position. Prices and amounts are left out, and so are the stops  *)
(* of the grid (EventGrid): what is kept is the signature of the last one. *)
(* The main loop alone refreshes the readers: a model is of one pair, and  *)
(* no pass meets another's. What the dashboard does to that is in          *)
(* VaultReaders.                                                           *)
(***************************************************************************)
EXTENDS VaultReaders

CONSTANTS Loop,      \* the main loop
          Slots,     \* bound: refreshes of the cache at one time
          Nothing,   \* no cache, no task, no grid
          MaxMoves   \* bound: moves of vaults

ASSUME CacheAssumption ==
    /\ Refreshers = {Loop}
    /\ MaxMoves \in Nat

VARIABLES
    ver,       \* the version of each vault's positions: the last move that was its
    moves,     \* moves of vaults so far
    cache,     \* HedgeModel._cache
    pending,   \* HedgeModel._refresh_pending
    tasks,     \* the refresh_cache tasks
    pass,      \* where the main loop is
    shown,     \* the pass's beefy_pos: vault and version
    grid       \* what _posted_grid_signature was computed from

chainVars == <<ver, moves>>
passVars == <<pass, shown>>
allVars == <<readersVars, chainVars, cache, pending, tasks, passVars, grid>>

Sides == {"main", "alt"}
Versions == 0..MaxMoves

\* What a read of one position has come to: nothing, the range, or the range
\* and whether positions() knows liquidity for it.
Read(s, v) == [step |-> s, ver |-> v]
Reads(steps) == [step : steps, ver : Versions]

\* A pass that has not read the vault.
Unshown == [vault |-> NoVault, ver |-> 0]

\* What a refresh has read so far, and what a cache is.
Refreshes == [of : Vaults, read : [main : Reads({"start", "range", "found", "gone"}),
                                   alt : Reads({"start", "found", "gone", "none"})]]
Caches == [of : Vaults, read : [main : Reads({"found", "gone"}),
                                alt : Reads({"found", "gone", "none"})]]

CacheTypeOK ==
    /\ ReadersTypeOK
    /\ moves \in 0..MaxMoves /\ ver \in [Vaults -> 0..moves]
    /\ cache \in Caches \cup {Nothing}
    /\ pending \in BOOLEAN
    /\ tasks \in [Slots -> Refreshes \cup {Nothing}]
    /\ pass \in {"idle", "refresh", "account"}
    /\ shown \in [vault : AnyVault, ver : Versions]
    /\ grid \in [of : Vaults, main : Reads({"found", "gone"})] \cup {Nothing}

CacheInit ==
    /\ ReadersInit
    /\ ver = [v \in Vaults |-> 0] /\ moves = 0
    /\ cache = Nothing /\ pending = FALSE
    /\ tasks = [t \in Slots |-> Nothing]
    /\ pass = "idle" /\ shown = Unshown
    /\ grid = Nothing
-----------------------------------------------------------------------------
(***************************************************************************)
(* The environment, and the refreshes of the readers. A new model begins   *)
(* with an empty cache. The tasks of the one before go on and store their  *)
(* answers in an object that nobody has: they are left out from there on.  *)
(***************************************************************************)
Moves(v) ==
    /\ moves < MaxMoves /\ moves' = moves + 1
    /\ ver' = [ver EXCEPT ![v] = moves + 1]
    /\ UNCHANGED <<readersVars, cache, pending, tasks, passVars, grid>>

Switch == (\E v \in Vaults : Select(v))
          /\ UNCHANGED <<chainVars, cache, pending, tasks, passVars, grid>>

\* (Variant: tasks that store into the engine's model, not into their own.)
Shared == tasks

Orphaned == [t \in Slots |-> Nothing]

NewModel ==
    /\ Modelled(Loop) \/ ModelFails(Loop)
    /\ cache' = Nothing /\ pending' = FALSE
    /\ tasks' = Orphaned
    /\ UNCHANGED <<chainVars, passVars, grid>>

NewReaders ==
    /\ Built(Loop) \/ BuildFails(Loop)
    /\ UNCHANGED <<chainVars, cache, pending, tasks, passVars, grid>>
-----------------------------------------------------------------------------
(***************************************************************************)
(* refresh_cache: two reads side by side.                                  *)
(***************************************************************************)
taskFrame == <<readersVars, chainVars, passVars, grid>>

Answer(t, side, read) ==
    /\ tasks' = [tasks EXCEPT ![t].read[side] = read]
    /\ UNCHANGED <<cache, pending>>

ReadRange(t) ==
    /\ tasks[t] # Nothing /\ tasks[t].read["main"].step = "start"
    /\ Answer(t, "main", Read("range", ver[tasks[t].of]))
    /\ UNCHANGED taskFrame

\* positions() of a range the strategy has left is zero.
Position(of, v) == Read(IF ver[of] = v THEN "found" ELSE "gone", v)

ReadLiquidity(t) ==
    /\ tasks[t] # Nothing /\ tasks[t].read["main"].step = "range"
    /\ Answer(t, "main", Position(tasks[t].of, tasks[t].read["main"].ver))
    /\ UNCHANGED taskFrame

\* The alt position in one step: no use is made of its range.
ReadAlt(t) ==
    /\ tasks[t] # Nothing /\ tasks[t].read["alt"].step = "start"
    /\ Answer(t, "alt", Position(tasks[t].of, ver[tasks[t].of]))
    /\ UNCHANGED taskFrame

\* read_position_alt makes None of any failure.
AltFails(t) ==
    /\ tasks[t] # Nothing /\ tasks[t].read["alt"].step = "start" /\ Fault
    /\ Answer(t, "alt", Read("none", 0))
    /\ UNCHANGED <<selected, engineVars, at, sel, selects, unresolved, crossed,
                   chainVars, passVars, grid>>

\* The cache of before stays, and so does the request for another one.
MainFails(t) ==
    /\ tasks[t] # Nothing /\ tasks[t].read["main"].step \in {"start", "range"} /\ Fault
    /\ tasks' = [tasks EXCEPT ![t] = Nothing]
    /\ UNCHANGED <<selected, engineVars, at, sel, selects, unresolved, crossed,
                   chainVars, passVars, grid, cache, pending>>

\* (Variant: the alt position is not waited for.)
AnsweredMain(t) == tasks[t].read["main"].step \notin {"start", "range"}

Answered(t) == \A side \in Sides : tasks[t].read[side].step \notin {"start", "range"}

Complete(t) ==
    /\ tasks[t] # Nothing
    /\ Answered(t)
    /\ cache' = tasks[t] /\ pending' = FALSE
    /\ tasks' = [tasks EXCEPT ![t] = Nothing]
    /\ UNCHANGED taskFrame

TaskStep(t) == ReadRange(t) \/ ReadLiquidity(t) \/ ReadAlt(t) \/ Complete(t)
TaskFails(t) == AltFails(t) \/ MainFails(t)
-----------------------------------------------------------------------------
(***************************************************************************)
(* A pass of the main loop.                                                *)
(***************************************************************************)
PassBegins ==
    /\ pass = "idle"
    /\ Outdated(Loop) \/ (Current(Loop) /\ UNCHANGED readersVars)
    /\ pass' = "refresh"
    /\ UNCHANGED <<chainVars, cache, pending, tasks, shown, grid>>

loopFrame == <<readersVars, chainVars, cache, pending, tasks, grid>>

\* Both readers are asked in one step; without a pair there is nobody to ask.
ReadChain ==
    /\ pass = "refresh" /\ at[Loop] = "idle"
    /\ IF readers = NoVault
       THEN pass' = "idle" /\ UNCHANGED shown
       ELSE pass' = "account" /\ shown' = [vault |-> readers, ver |-> ver[readers]]
    /\ UNCHANGED loopFrame

PassEnds == pass' = "idle" /\ shown' = Unshown

ChainTimesOut ==
    /\ pass = "refresh" /\ at[Loop] = "idle" /\ Fault
    /\ PassEnds
    /\ UNCHANGED <<selected, engineVars, at, sel, selects, unresolved, crossed,
                   chainVars, cache, pending, tasks, grid>>

\* Not ACTIVE, nothing deposited, or the price out of the vault's range.
EndsEarly ==
    /\ pass = "account"
    /\ PassEnds
    /\ UNCHANGED loopFrame

Unavailable ==
    /\ pass = "account" /\ model = NoModel
    /\ PassEnds
    /\ UNCHANGED <<readersVars, chainVars, cache, pending, tasks, grid>>

NewTask == [of |-> model.strategy, read |-> [main |-> Read("start", 0), alt |-> Read("start", 0)]]

\* should_refresh, and the task for it. The TTL may have run out.
Due(old) == cache = Nothing \/ pending \/ old

StartRefresh(old) ==
    IF Due(old) THEN \E t \in Slots : /\ tasks[t] = Nothing
                                      /\ tasks' = [tasks EXCEPT ![t] = NewTask]
                ELSE UNCHANGED tasks

\* verify: the cache is of other positions than the vault reports, or the
\* vault has idle funds besides.
Agrees == /\ cache.of = shown.vault
          /\ \A side \in Sides : cache.read[side] = Read("found", shown.ver)

\* (Variant: the divergence is shown, and that is all.)
VerifyOnly(diverges) == UNCHANGED pending

Verify(diverges) == pending' = (pending \/ diverges)

\* The part of _maintain_grid about the signature: the grid goes when the
\* price is out of the cached range or the signature has changed, and the
\* next pass posts another.
Signature == [of |-> cache.of, main |-> cache.read["main"]]

MaintainGrid(inside) ==
    grid' = CASE ~inside           -> Nothing
              [] grid = Nothing    -> Signature
              [] grid # Signature  -> Nothing
              [] OTHER             -> grid

HedgeStep ==
    /\ pass = "account" /\ model # NoModel
    /\ PassEnds
    /\ \E old \in BOOLEAN : StartRefresh(old)
    /\ IF cache = Nothing
       THEN UNCHANGED <<pending, grid>>
       ELSE /\ \E idleFunds \in BOOLEAN : Verify(~Agrees \/ idleFunds)
            /\ \E inside \in {TRUE, Agrees} : MaintainGrid(inside)
    /\ UNCHANGED <<readersVars, chainVars, cache>>

LoopStep == PassBegins \/ ReadChain \/ EndsEarly \/ Unavailable \/ HedgeStep
-----------------------------------------------------------------------------
CacheNext ==
    \/ LoopStep \/ ChainTimesOut
    \/ \E t \in Slots : TaskStep(t) \/ TaskFails(t)
    \/ NewModel \/ NewReaders
    \/ \E v \in Vaults : Moves(v)
    \/ Switch

(* The loop comes back every second, and a request that was sent is        *)
(* answered or raises.                                                     *)
CacheFairness ==
    /\ WF_allVars(LoopStep)
    /\ \A t \in Slots : WF_allVars(TaskStep(t))
    /\ WF_allVars(NewModel \/ NewReaders)

CacheSpec == CacheInit /\ [][CacheNext]_allVars /\ CacheFairness
-----------------------------------------------------------------------------
(* What predict and the grid work with was read from the pool and strategy *)
(* of the pair the readers are of: an answer that was on its way when the  *)
(* pair was switched never counts for the new one.                         *)
CacheOfReaders ==
    ~Amid /\ cache # Nothing => cache.of = readers

(* Refreshes overlap, an older answer may overwrite a newer one, a read    *)
(* may be torn by a move of the vault, the alt position may be missing: if *)
(* an operation is ACTIVE and in its range again and again, verify finds   *)
(* out, and cache and grid come to be those of the vault. Unless there is  *)
(* no model: a failure to build one is never made good.                    *)
CatchesUp ==
    []<><<HedgeStep>>_allVars =>
        <>[](\/ model = NoModel
             \/ /\ cache # Nothing /\ grid = Signature /\ cache.of = selected
                /\ \A side \in Sides : cache.read[side] = Read("found", ver[selected]))
=============================================================================
