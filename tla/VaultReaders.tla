---------------------------- MODULE VaultReaders ----------------------------
(***************************************************************************)
(* How GridMakerEngine follows the pair picker: _refresh_vault_readers     *)
(* compares the selected vault with the one its readers were built for and *)
(* replaces readers, settings, funding markets and hedge model, one after  *)
(* the other. The main loop runs it in every pass; the dashboard's curve   *)
(* (compute_curve_preview) runs the same method on the same engine.        *)
(*                                                                         *)
(* Left out: fetching and filtering of the pair list, the reward pool, the *)
(* adapter's list of symbols to subscribe to. The reconciler gets the new  *)
(* settings in the step that sets them. The Lighter adapter answers        *)
(* get_market_meta from memory: nothing runs while the markets change.     *)
(***************************************************************************)
EXTENDS Naturals

CONSTANTS Vaults,      \* the vaults that select_pair accepts
          Cross,       \* those whose second token is hedged as well
          NoVault,     \* the placeholder of the .env file
          NoModel,     \* _hedge_model is None
          Refreshers,  \* coroutines that run _refresh_vault_readers
          MaxSelects,  \* bound: pairs selected
          MaxFaults    \* bound: requests that raise

ASSUME ReadersAssumption ==
    /\ Cross \subseteq Vaults
    /\ NoVault \notin Vaults
    /\ NoModel \notin [strategy : Vaults, pool : Vaults]
    /\ MaxSelects \in Nat /\ MaxFaults \in Nat

VARIABLES
    selected,  \* selected_vault_id in the database
    key,       \* _vault_readers_cache[0]
    readers,   \* the vault of _beefy_reader, _pool_reader and _settings
    mid0, mid1,  \* the vaults whose funding markets are _token0_mid, _token1_mid
    model,     \* the contracts that _hedge_model reads
    at,        \* where each coroutine is
    sel,       \* its local selected while it is at work
    selects, faults,
    unresolved,  \* history: a market was not found
    crossed    \* history: readers were replaced while a model was being built

readersVars == <<selected, key, readers, mid0, mid1, model, at, sel,
                 selects, faults, unresolved, crossed>>
engineVars == <<key, readers, mid0, mid1, model>>

Models == [strategy : Vaults, pool : Vaults]
AnyVault == Vaults \cup {NoVault}

ReadersTypeOK ==
    /\ selected \in AnyVault /\ key \in AnyVault /\ readers \in AnyVault
    /\ mid0 \in AnyVault /\ mid1 \in AnyVault
    /\ model \in Models \cup {NoModel}
    /\ at \in [Refreshers -> {"idle", "build", "strategy"}]
    /\ sel \in [Refreshers -> AnyVault]
    /\ selects \in 0..MaxSelects /\ faults \in 0..MaxFaults
    /\ unresolved \in BOOLEAN /\ crossed \in BOOLEAN

ReadersInit ==
    /\ selected \in AnyVault
    /\ key = NoVault /\ readers = NoVault
    /\ mid0 = NoVault /\ mid1 = NoVault
    /\ model = NoModel
    /\ at = [c \in Refreshers |-> "idle"]
    /\ sel = [c \in Refreshers |-> NoVault]
    /\ selects = 0 /\ faults = 0
    /\ unresolved = FALSE /\ crossed = FALSE

Fault == faults < MaxFaults /\ faults' = faults + 1

Goto(c, place) == at' = [at EXCEPT ![c] = place]
\* The coroutine is done with its local.
Done(c) == Goto(c, "idle") /\ sel' = [sel EXCEPT ![c] = NoVault]

Amid == \E c \in Refreshers : at[c] = "strategy"
-----------------------------------------------------------------------------
\* POST /pairs/select: any time, whatever an operation does.
Select(v) ==
    /\ selects < MaxSelects /\ v # selected
    /\ selected' = v /\ selects' = selects + 1
    /\ UNCHANGED <<engineVars, at, sel, faults, unresolved, crossed>>

\* The database is asked for the selected vault, and the answer is compared.
\* No pair yet, or the readers are its own already: nothing to do.
Current(c) == at[c] = "idle" /\ selected \in {NoVault, key}

\* (Variant: the new key is set before the readers are built.)
OutdatedMarked(c) ==
    /\ at[c] = "idle" /\ selected \notin {NoVault, key}
    /\ Goto(c, "build")
    /\ sel' = [sel EXCEPT ![c] = selected] /\ key' = selected
    /\ UNCHANGED <<selected, readers, mid0, mid1, model, selects, faults, unresolved, crossed>>

\* (Variant: the readers of before are let go first.)
OutdatedAfresh(c) ==
    /\ at[c] = "idle" /\ selected \notin {NoVault, key}
    /\ Goto(c, "build")
    /\ sel' = [sel EXCEPT ![c] = selected] /\ key' = NoVault /\ readers' = NoVault
    /\ UNCHANGED <<selected, mid0, mid1, model, selects, faults, unresolved, crossed>>

Outdated(c) ==
    /\ at[c] = "idle" /\ selected \notin {NoVault, key}
    /\ Goto(c, "build")
    /\ sel' = [sel EXCEPT ![c] = selected]
    /\ UNCHANGED <<selected, engineVars, selects, faults, unresolved, crossed>>

\* (Variant: markets resolved at startup only.)
ResolveNothing(v) == UNCHANGED <<mid0, mid1, faults, unresolved>>

\* resolve_market_ids_for_funding: a market that is not found keeps the id
\* there was, and so does a second leg the pair does not have.
ResolveMarkets(v) ==
    \/ /\ mid0' = v
       /\ mid1' = IF v \in Cross THEN v ELSE mid1
       /\ UNCHANGED <<faults, unresolved>>
    \/ /\ Fault
       /\ unresolved' = TRUE
       /\ \/ mid0' = v /\ UNCHANGED mid1
          \/ UNCHANGED mid0 /\ mid1' = IF v \in Cross THEN v ELSE mid1

\* Everything up to the next request to the chain: the strategy's address.
Built(c) ==
    /\ at[c] = "build"
    /\ readers' = sel[c] /\ key' = sel[c]
    /\ ResolveMarkets(sel[c])
    /\ Goto(c, "strategy")
    /\ crossed' = (crossed \/ Amid)
    /\ UNCHANGED <<selected, model, sel, selects>>

\* build_readers_for_vault raises: the readers of before go on.
BuildFails(c) ==
    /\ at[c] = "build" /\ Fault
    /\ Done(c)
    /\ UNCHANGED <<selected, engineVars, selects, unresolved, crossed>>

\* The strategy is of the vault that was asked for, the pool of the settings
\* there are now.
Modelled(c) ==
    /\ at[c] = "strategy"
    /\ model' = [strategy |-> sel[c], pool |-> readers]
    /\ Done(c)
    /\ UNCHANGED <<selected, key, readers, mid0, mid1, selects, faults,
                   unresolved, crossed>>

\* (Variant: the model of the pair before is kept.)
ModelFailsKept(c) ==
    /\ at[c] = "strategy" /\ Fault
    /\ Done(c)
    /\ UNCHANGED <<selected, engineVars, selects, unresolved, crossed>>

\* There is no model until another pair is selected.
ModelFails(c) ==
    /\ at[c] = "strategy" /\ Fault
    /\ model' = NoModel
    /\ Done(c)
    /\ UNCHANGED <<selected, key, readers, mid0, mid1, selects, unresolved, crossed>>

Rebuilds(c) == Built(c) \/ Modelled(c)
RefreshStep(c) == Outdated(c) \/ Rebuilds(c) \/ BuildFails(c) \/ ModelFails(c)

ReadersNext == (\E c \in Refreshers : RefreshStep(c)) \/ (\E v \in Vaults : Select(v))

(* A request that was sent is answered or raises; the main loop, and not   *)
(* the dashboard, comes back every second.                                 *)
ReadersFairness(Loop) ==
    /\ \A c \in Refreshers : WF_readersVars(Rebuilds(c))
    /\ WF_readersVars(Outdated(Loop))

ReadersSpec == ReadersInit /\ [][ReadersNext]_readersVars
-----------------------------------------------------------------------------
(* The hedge model in use reads the pool and the strategy of the vault the *)
(* readers are of, or there is none, and then a request failed. This is    *)
(* the code's when refreshes do not meet.                                  *)
ModelOfReaders ==
    ~crossed /\ ~Amid =>
        \/ model = [strategy |-> readers, pool |-> readers]
        \/ model = NoModel /\ (faults = 0 => readers = NoVault)

(* Comment in _refresh_vault_readers: "Build / rebuild HedgeModel whenever *)
(* vault readers change". When the dashboard's refresh meets the loop's,   *)
(* the slower one builds a model of one vault's strategy and the other's   *)
(* pool, and the key says that everything is up to date.                   *)
ModelFollowsReaders ==
    ~Amid => model \in {NoModel, [strategy |-> readers, pool |-> readers]}

(* Funding payments are looked up under the markets of the pair that is    *)
(* read: the second leg's too, which the .env file does not know.          *)
LegsFollow ==
    ~unresolved =>
        /\ mid0 = readers
        /\ readers \in Cross => mid1 = readers

(* The last selection wins, however many refreshes of an older one are     *)
(* still under way: one that assigns late is found out by the next pass.   *)
ReadersSettle == <>[](selected # NoVault => readers = selected /\ key = selected)
=============================================================================
