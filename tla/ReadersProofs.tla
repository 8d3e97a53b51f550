---------------------------- MODULE ReadersProofs ----------------------------
(***************************************************************************)
(* Proofs about VaultReaders, for any number of refreshers, vaults, faults *)
(* and selections, and about HedgeModelCache, which extends it, for any    *)
(* number of tasks and moves, too.                                         *)
(*                                                                         *)
(* Two facts about the coroutines at work carry the invariants of the      *)
(* readers: a local vault is one of the list, and as long as no refresh    *)
(* overtook another, the one that waits for the strategy's address is      *)
(* alone and waits for that of the readers there are.                      *)
(*                                                                         *)
(* The cache is typed, and what it holds is of the pair the readers are    *)
(* of. The reason is that cache and tasks belong to a model, and that a    *)
(* model is of one vault: with one refresher no refresh of the readers     *)
(* meets another.                                                          *)
(***************************************************************************)
EXTENDS HedgeModelCache, TLAPS

\* The locals and the readers of a coroutine at work are vaults of the list.
LocalsAreVaults ==
    \A c \in Refreshers :
        /\ at[c] # "idle" => sel[c] \in Vaults
        /\ at[c] = "strategy" => readers \in Vaults

\* Refreshes that do not meet.
SoleBuilder ==
    ~crossed => \A c \in Refreshers : at[c] = "strategy" =>
        /\ sel[c] = readers
        /\ \A d \in Refreshers : at[d] = "strategy" => d = c

IInv == ReadersTypeOK /\ LocalsAreVaults /\ SoleBuilder /\ ModelOfReaders /\ LegsFollow
-----------------------------------------------------------------------------
LEMMA InitInv == ReadersInit => IInv
<1> SUFFICES ASSUME ReadersInit PROVE IInv
  OBVIOUS
<1>1. ReadersTypeOK
  <2>1. selects \in 0..MaxSelects /\ faults \in 0..MaxFaults
    BY ReadersAssumption DEF ReadersInit
  <2>2. unresolved \in BOOLEAN /\ crossed \in BOOLEAN
    BY DEF ReadersInit
  <2>3. /\ at \in [Refreshers -> {"idle", "build", "strategy"}]
        /\ sel \in [Refreshers -> AnyVault]
    BY DEF ReadersInit, AnyVault
  <2> QED  BY <2>1, <2>2, <2>3 DEF ReadersInit, ReadersTypeOK, AnyVault
<1>2. LocalsAreVaults /\ SoleBuilder
  BY DEF ReadersInit, LocalsAreVaults, SoleBuilder
<1>3. ModelOfReaders
  BY DEF ReadersInit, ModelOfReaders
<1>4. LegsFollow
  BY DEF ReadersInit, LegsFollow
<1> QED  BY <1>1, <1>2, <1>3, <1>4 DEF IInv

LEMMA SelectInv ==
  ASSUME IInv, NEW v \in Vaults, Select(v)
  PROVE  IInv'
<1>1. ReadersTypeOK'
  BY ReadersAssumption DEF IInv, ReadersTypeOK, Select, engineVars, AnyVault
<1>2. LocalsAreVaults' /\ SoleBuilder'
  BY DEF IInv, LocalsAreVaults, SoleBuilder, Select, engineVars
<1>3. ModelOfReaders' /\ LegsFollow'
  BY DEF IInv, ModelOfReaders, LegsFollow, Amid, Select, engineVars
<1> QED  BY <1>1, <1>2, <1>3 DEF IInv

LEMMA OutdatedInv ==
  ASSUME IInv, NEW c \in Refreshers, Outdated(c)
  PROVE  IInv'
<1>1. ReadersTypeOK'
  BY DEF IInv, ReadersTypeOK, Outdated, engineVars, Goto, AnyVault
<1>2. LocalsAreVaults' /\ SoleBuilder'
  BY DEF IInv, ReadersTypeOK, AnyVault, LocalsAreVaults, SoleBuilder, Outdated, engineVars, Goto
<1>3. Amid' <=> Amid
  BY DEF IInv, ReadersTypeOK, Amid, Outdated, Goto
<1>4. ModelOfReaders' /\ LegsFollow'
  BY <1>3 DEF IInv, ModelOfReaders, LegsFollow, Outdated, engineVars
<1> QED  BY <1>1, <1>2, <1>4 DEF IInv

LEMMA BuildFailsInv ==
  ASSUME IInv, NEW c \in Refreshers, BuildFails(c)
  PROVE  IInv'
<1>1. ReadersTypeOK'
  BY ReadersAssumption
     DEF IInv, ReadersTypeOK, BuildFails, Fault, Done, engineVars, Goto, AnyVault
<1>2. LocalsAreVaults' /\ SoleBuilder'
  BY DEF IInv, ReadersTypeOK, LocalsAreVaults, SoleBuilder, BuildFails, Done, engineVars, Goto
<1>3. Amid' <=> Amid
  BY DEF IInv, ReadersTypeOK, Amid, BuildFails, Done, Goto
<1>4. faults' # 0
  BY DEF IInv, ReadersTypeOK, BuildFails, Fault
<1>5. ModelOfReaders' /\ LegsFollow'
  BY <1>3, <1>4 DEF IInv, ModelOfReaders, LegsFollow, BuildFails, engineVars
<1> QED  BY <1>1, <1>2, <1>5 DEF IInv

LEMMA BuiltInv ==
  ASSUME IInv, NEW c \in Refreshers, Built(c)
  PROVE  IInv'
<1>1. sel[c] \in Vaults
  BY DEF IInv, LocalsAreVaults, Built
<1>2. ReadersTypeOK'
  <2>1. faults' \in 0..MaxFaults
    BY ReadersAssumption DEF IInv, ReadersTypeOK, Built, ResolveMarkets, Fault
  <2>2. unresolved' \in BOOLEAN
    BY DEF IInv, ReadersTypeOK, Built, ResolveMarkets
  <2>3. mid0' \in AnyVault /\ mid1' \in AnyVault
    BY <1>1 DEF IInv, ReadersTypeOK, Built, ResolveMarkets, AnyVault
  <2>4. crossed' \in BOOLEAN
    BY DEF Built, Amid, IInv, ReadersTypeOK
  <2> QED  BY <1>1, <2>1, <2>2, <2>3, <2>4 DEF IInv, ReadersTypeOK, Built, Goto, AnyVault
<1>3. LocalsAreVaults'
  BY <1>1 DEF IInv, ReadersTypeOK, LocalsAreVaults, Built, Goto
<1>4. SoleBuilder'
  BY DEF IInv, ReadersTypeOK, SoleBuilder, Built, Goto, Amid
<1>5. Amid'
  BY DEF IInv, ReadersTypeOK, Amid, Built, Goto
<1>6. LegsFollow'
  BY DEF IInv, ReadersTypeOK, LegsFollow, Built, ResolveMarkets
<1> QED  BY <1>2, <1>3, <1>4, <1>5, <1>6 DEF IInv, ModelOfReaders

LEMMA ModelledInv ==
  ASSUME IInv, NEW c \in Refreshers, Modelled(c)
  PROVE  IInv'
<1>1. sel[c] \in Vaults /\ readers \in Vaults
  BY DEF IInv, LocalsAreVaults, Modelled
<1>2. ReadersTypeOK'
  BY <1>1 DEF IInv, ReadersTypeOK, Modelled, Done, Goto, AnyVault, Models
<1>3. LocalsAreVaults' /\ SoleBuilder'
  BY DEF IInv, ReadersTypeOK, LocalsAreVaults, SoleBuilder, Modelled, Done, Goto
<1>4. ~crossed => model' = [strategy |-> readers, pool |-> readers]
  BY DEF IInv, SoleBuilder, Modelled
<1>5. ModelOfReaders' /\ LegsFollow'
  BY <1>4 DEF IInv, ModelOfReaders, LegsFollow, Modelled
<1> QED  BY <1>2, <1>3, <1>5 DEF IInv

LEMMA ModelFailsInv ==
  ASSUME IInv, NEW c \in Refreshers, ModelFails(c)
  PROVE  IInv'
<1>1. ReadersTypeOK'
  BY ReadersAssumption
     DEF IInv, ReadersTypeOK, ModelFails, Fault, Done, Goto, AnyVault
<1>2. LocalsAreVaults' /\ SoleBuilder'
  BY DEF IInv, ReadersTypeOK, LocalsAreVaults, SoleBuilder, ModelFails, Done, Goto
<1>3. faults' # 0
  BY DEF IInv, ReadersTypeOK, ModelFails, Fault
<1>4. ModelOfReaders' /\ LegsFollow'
  BY <1>3 DEF IInv, ModelOfReaders, LegsFollow, ModelFails
<1> QED  BY <1>1, <1>2, <1>4 DEF IInv

LEMMA StutterInv ==
  ASSUME IInv, UNCHANGED readersVars
  PROVE  IInv'
  BY DEF IInv, readersVars, ReadersTypeOK, LocalsAreVaults, SoleBuilder, ModelOfReaders,
         LegsFollow, Amid

LEMMA NextInv == IInv /\ [ReadersNext]_readersVars => IInv'
<1> SUFFICES ASSUME IInv, [ReadersNext]_readersVars PROVE IInv'
  OBVIOUS
<1>1. ASSUME NEW v \in Vaults, Select(v) PROVE IInv'
  BY <1>1, SelectInv
<1>2. ASSUME NEW c \in Refreshers, RefreshStep(c) PROVE IInv'
  BY <1>2, OutdatedInv, BuiltInv, ModelledInv, BuildFailsInv, ModelFailsInv
     DEF RefreshStep, Rebuilds
<1>3. CASE UNCHANGED readersVars
  BY <1>3, StutterInv
<1> QED  BY <1>1, <1>2, <1>3 DEF ReadersNext

LEMMA AlwaysIInv == ReadersSpec => []IInv
  BY InitInv, NextInv, PTL DEF ReadersSpec
-----------------------------------------------------------------------------
(* The pair picker's state keeps its type, whoever refreshes it and        *)
(* however often.                                                          *)
THEOREM ReadersTypeCorrect == ReadersSpec => []ReadersTypeOK
<1>1. IInv => ReadersTypeOK
  BY DEF IInv
<1> QED  BY <1>1, AlwaysIInv, PTL

(* As long as no refresh replaces the readers while another one waits for  *)
(* the strategy's address (_refresh_vault_readers), the hedge model is the *)
(* one of the readers, or there is none because a request failed.          *)
THEOREM ModelIsOfReaders == ReadersSpec => []ModelOfReaders
<1>1. IInv => ModelOfReaders
  BY DEF IInv
<1> QED  BY <1>1, AlwaysIInv, PTL

(* The funding markets follow the readers in the step that replaces them,  *)
(* unless a market was not found (resolve_market_ids_for_funding).         *)
THEOREM LegsFollowReaders == ReadersSpec => []LegsFollow
<1>1. IInv => LegsFollow
  BY DEF IInv
<1> QED  BY <1>1, AlwaysIInv, PTL
-----------------------------------------------------------------------------
(***************************************************************************)
(* The cache of the hedge model.                                           *)
(***************************************************************************)
OfModel(x) == x # Nothing => model # NoModel /\ x.of = model.strategy

HeldInv == OfModel(cache) /\ \A t \in Slots : OfModel(tasks[t])

CInv == IInv /\ ~crossed /\ CacheTypeOK /\ HeldInv

readersButFaults == <<selected, engineVars, at, sel, selects, unresolved, crossed>>
-----------------------------------------------------------------------------
LEMMA CacheInitInv == CacheInit => CInv
<1> SUFFICES ASSUME CacheInit PROVE CInv
  OBVIOUS
<1>1. IInv
  BY InitInv DEF CacheInit
<1>2. ~crossed
  BY DEF CacheInit, ReadersInit
<1>3. HeldInv
  BY DEF CacheInit, HeldInv, OfModel
<1>4. CacheTypeOK
  <2>1. moves \in 0..MaxMoves /\ ver \in [Vaults -> 0..moves]
    BY CacheAssumption DEF CacheInit
  <2>2. shown \in [vault : AnyVault, ver : Versions]
    BY CacheAssumption DEF CacheInit, Unshown, Versions, AnyVault
  <2> QED  BY <1>1, <2>1, <2>2 DEF CacheInit, CacheTypeOK, IInv
<1> QED  BY <1>1, <1>2, <1>3, <1>4 DEF CInv

\* A failed request that leaves the pair alone.
LEMMA FaultInv ==
  ASSUME IInv, Fault, UNCHANGED readersButFaults
  PROVE  IInv'
<1>1. ReadersTypeOK'
  <2>1. faults' \in 0..MaxFaults
    BY ReadersAssumption DEF IInv, ReadersTypeOK, Fault
  <2> QED  BY <2>1 DEF IInv, ReadersTypeOK, readersButFaults, engineVars
<1>2. LocalsAreVaults' /\ SoleBuilder'
  BY DEF IInv, LocalsAreVaults, SoleBuilder, readersButFaults, engineVars
<1>3. faults' # 0
  BY DEF IInv, ReadersTypeOK, Fault
<1>4. ModelOfReaders' /\ LegsFollow'
  BY <1>3 DEF IInv, ModelOfReaders, LegsFollow, Amid, readersButFaults, engineVars
<1> QED  BY <1>1, <1>2, <1>4 DEF IInv

\* Steps of the pair picker that keep the model.
LEMMA KeepsModel ==
  ASSUME CInv, IInv', ~crossed', model' = model,
         UNCHANGED <<chainVars, cache, pending, tasks, grid>>,
         pass' \in {"idle", "refresh", "account"},
         shown' \in [vault : AnyVault, ver : Versions]
  PROVE  CInv'
<1>1. HeldInv'
  BY DEF CInv, HeldInv, OfModel
<1>2. CacheTypeOK'
  BY DEF CInv, CacheTypeOK, chainVars, IInv
<1> QED  BY <1>1, <1>2 DEF CInv

LEMMA UnshownType == Unshown \in [vault : AnyVault, ver : Versions]
  BY CacheAssumption DEF Unshown, AnyVault, Versions
-----------------------------------------------------------------------------
LEMMA SwitchInv == ASSUME CInv, Switch PROVE CInv'
<1> PICK v \in Vaults : Select(v)
  BY DEF Switch
<1>1. IInv'
  BY SelectInv DEF CInv
<1>2. ~crossed' /\ model' = model
  BY DEF CInv, Select, engineVars
<1>3. /\ UNCHANGED <<chainVars, cache, pending, tasks, grid>>
      /\ pass' = pass /\ shown' = shown
  BY DEF Switch, passVars
<1> QED  BY <1>1, <1>2, <1>3, KeepsModel DEF CInv, CacheTypeOK

LEMMA NewReadersInv == ASSUME CInv, NewReaders PROVE CInv'
<1>1. Loop \in Refreshers
  BY CacheAssumption
<1>2. IInv'
  BY <1>1, BuiltInv, BuildFailsInv DEF NewReaders, CInv
<1>3. ~crossed'
  BY <1>1, CacheAssumption DEF CInv, NewReaders, Built, BuildFails, Amid
<1>4. model' = model
  BY DEF NewReaders, Built, BuildFails, engineVars
<1>5. /\ UNCHANGED <<chainVars, cache, pending, tasks, grid>>
      /\ pass' = pass /\ shown' = shown
  BY DEF NewReaders, passVars
<1> QED  BY <1>2, <1>3, <1>4, <1>5, KeepsModel DEF CInv, CacheTypeOK

LEMMA NewModelInv == ASSUME CInv, NewModel PROVE CInv'
<1>1. Loop \in Refreshers
  BY CacheAssumption
<1>2. IInv'
  BY <1>1, ModelledInv, ModelFailsInv DEF NewModel, CInv
<1>3. ~crossed'
  BY DEF CInv, NewModel, Modelled, ModelFails
<1>4. HeldInv'
  BY DEF HeldInv, OfModel, NewModel, Orphaned
<1>5. CacheTypeOK'
  BY <1>2 DEF CInv, CacheTypeOK, IInv, NewModel, Orphaned, chainVars, passVars
<1> QED  BY <1>2, <1>3, <1>4, <1>5 DEF CInv

LEMMA MovesInv == ASSUME CInv, NEW v \in Vaults, Moves(v) PROVE CInv'
<1>1. IInv' /\ ~crossed'
  BY StutterInv DEF CInv, Moves, readersVars
<1>2. HeldInv'
  BY DEF CInv, HeldInv, OfModel, Moves, readersVars
<1>3. moves' \in 0..MaxMoves /\ ver' \in [Vaults -> 0..moves']
  <2>1. moves \in Nat /\ moves' = moves + 1 /\ moves' \in 0..MaxMoves
    BY CacheAssumption DEF CInv, CacheTypeOK, Moves
  <2>2. \A w \in Vaults : ver[w] \in 0..moves'
    BY <2>1 DEF CInv, CacheTypeOK
  <2>3. moves + 1 \in 0..moves'
    BY <2>1
  <2>4. ver \in [Vaults -> 0..moves']
    BY <2>2 DEF CInv, CacheTypeOK
  <2> QED  BY <2>1, <2>3, <2>4 DEF Moves
<1>4. CacheTypeOK'
  BY <1>1, <1>3 DEF CInv, CacheTypeOK, IInv, Moves, passVars
<1> QED  BY <1>1, <1>2, <1>4 DEF CInv
-----------------------------------------------------------------------------
(***************************************************************************)
(* The tasks.                                                              *)
(***************************************************************************)
Steps(side) == IF side = "main" THEN {"start", "range", "found", "gone"}
                                ELSE {"start", "found", "gone", "none"}

LEMMA VersionType ==
  ASSUME CInv, NEW t \in Slots, tasks[t] # Nothing
  PROVE  /\ tasks[t] \in Refreshes
         /\ tasks[t].of \in Vaults
         /\ ver[tasks[t].of] \in Versions
<1>1. tasks[t] \in Refreshes
  BY DEF CInv, CacheTypeOK
<1>2. tasks[t].of \in Vaults
  BY <1>1 DEF Refreshes
<1>3. ver[tasks[t].of] \in Versions
  BY <1>2, CacheAssumption DEF CInv, CacheTypeOK, Versions
<1> QED  BY <1>1, <1>2, <1>3

LEMMA AnswerInv ==
  ASSUME CInv, IInv', ~crossed', model' = model,
         NEW t \in Slots, tasks[t] # Nothing,
         NEW side \in Sides, NEW read \in Reads(Steps(side)), Answer(t, side, read),
         UNCHANGED <<chainVars, passVars, grid>>
  PROVE  CInv'
<1>1. tasks[t] \in Refreshes
  BY VersionType
<1> DEFINE new == [tasks[t] EXCEPT !.read[side] = read]
<1>2. new \in Refreshes /\ new.of = tasks[t].of
  BY <1>1 DEF Refreshes, Sides, Steps
<1>3. tasks' = [tasks EXCEPT ![t] = new]
  BY DEF Answer
<1> HIDE DEF new
<1>4. tasks' \in [Slots -> Refreshes \cup {Nothing}]
  BY <1>2, <1>3 DEF CInv, CacheTypeOK
<1>5. HeldInv'
  BY <1>2, <1>3 DEF CInv, HeldInv, OfModel, Answer, CacheTypeOK
<1>6. CacheTypeOK'
  BY <1>4 DEF CInv, CacheTypeOK, IInv, Answer, chainVars, passVars
<1> QED  BY <1>5, <1>6 DEF CInv

LEMMA TaskStepInv == ASSUME CInv, NEW t \in Slots, TaskStep(t) PROVE CInv'
<1>1. IInv' /\ ~crossed' /\ model' = model /\ UNCHANGED <<chainVars, passVars, grid>>
  BY StutterInv DEF CInv, TaskStep, ReadRange, ReadLiquidity, ReadAlt, Complete, taskFrame,
                    readersVars
<1>2. CASE ReadRange(t)
  <2>1. tasks[t] # Nothing
    BY <1>2 DEF ReadRange
  <2>2. Read("range", ver[tasks[t].of]) \in Reads(Steps("main"))
    BY <2>1, VersionType DEF Read, Reads, Steps
  <2> QED  BY <1>1, <1>2, <2>1, <2>2, AnswerInv DEF ReadRange, Sides
<1>3. CASE ReadLiquidity(t)
  <2>1. tasks[t] # Nothing
    BY <1>3 DEF ReadLiquidity
  <2>2. tasks[t].read["main"].ver \in Versions
    BY <2>1, VersionType DEF Refreshes, Reads
  <2>3. Position(tasks[t].of, tasks[t].read["main"].ver) \in Reads(Steps("main"))
    BY <2>2 DEF Position, Read, Reads, Steps
  <2> QED  BY <1>1, <1>3, <2>1, <2>3, AnswerInv DEF ReadLiquidity, Sides
<1>4. CASE ReadAlt(t)
  <2>1. tasks[t] # Nothing
    BY <1>4 DEF ReadAlt
  <2>2. Position(tasks[t].of, ver[tasks[t].of]) \in Reads(Steps("alt"))
    BY <2>1, VersionType DEF Position, Read, Reads, Steps
  <2> QED  BY <1>1, <1>4, <2>1, <2>2, AnswerInv DEF ReadAlt, Sides
<1>5. CASE Complete(t)
  <2>1. tasks[t] \in Refreshes
    BY <1>5, VersionType DEF Complete
  <2>2. tasks[t] \in Caches
    <3>1. /\ tasks[t].read["main"].step \notin {"start", "range"}
          /\ tasks[t].read["alt"].step \notin {"start", "range"}
      BY <1>5 DEF Complete, Answered, Sides
    <3> QED  BY <2>1, <3>1 DEF Refreshes, Caches, Reads
  <2>3. HeldInv'
    BY <1>1, <1>5 DEF CInv, HeldInv, OfModel, Complete, CacheTypeOK
  <2>4. CacheTypeOK'
    BY <1>1, <1>5, <2>2 DEF CInv, CacheTypeOK, IInv, Complete, chainVars, passVars
  <2> QED  BY <1>1, <2>3, <2>4 DEF CInv
<1> QED  BY <1>2, <1>3, <1>4, <1>5 DEF TaskStep

LEMMA TaskFailsInv == ASSUME CInv, NEW t \in Slots, TaskFails(t) PROVE CInv'
<1>1. Fault /\ UNCHANGED readersButFaults
  BY DEF TaskFails, AltFails, MainFails, readersButFaults
<1>2. IInv' /\ ~crossed' /\ model' = model
  BY <1>1, FaultInv DEF CInv, readersButFaults, engineVars
<1>3. tasks[t] # Nothing
  BY DEF TaskFails, AltFails, MainFails
<1>4. CASE AltFails(t)
  <2>1. Read("none", 0) \in Reads(Steps("alt"))
    BY CacheAssumption DEF Read, Reads, Steps, Versions
  <2> QED  BY <1>2, <1>3, <1>4, <2>1, AnswerInv DEF AltFails, Sides
<1>5. CASE MainFails(t)
  <2>1. HeldInv'
    BY <1>2, <1>5 DEF CInv, HeldInv, OfModel, MainFails, CacheTypeOK
  <2>2. CacheTypeOK'
    BY <1>2, <1>5 DEF CInv, CacheTypeOK, IInv, MainFails, chainVars, passVars
  <2> QED  BY <1>2, <2>1, <2>2 DEF CInv
<1> QED  BY <1>4, <1>5 DEF TaskFails
-----------------------------------------------------------------------------
(***************************************************************************)
(* The pass.                                                               *)
(***************************************************************************)
LEMMA PassBeginsInv == ASSUME CInv, PassBegins PROVE CInv'
<1>1. IInv'
  BY CacheAssumption, OutdatedInv, StutterInv DEF CInv, PassBegins
<1>2. ~crossed' /\ model' = model
  BY DEF CInv, PassBegins, Outdated, engineVars, readersVars
<1>3. /\ UNCHANGED <<chainVars, cache, pending, tasks, grid>>
      /\ pass' = "refresh" /\ shown' = shown
  BY DEF PassBegins
<1> QED  BY <1>1, <1>2, <1>3, KeepsModel DEF CInv, CacheTypeOK

LEMMA ReadChainInv == ASSUME CInv, ReadChain PROVE CInv'
<1>1. IInv' /\ ~crossed' /\ model' = model
  BY StutterInv DEF CInv, ReadChain, loopFrame, readersVars
<1>2. UNCHANGED <<chainVars, cache, pending, tasks, grid>>
  BY DEF ReadChain, loopFrame
<1>3. pass' \in {"idle", "refresh", "account"}
  BY DEF ReadChain
<1>4. shown' \in [vault : AnyVault, ver : Versions]
  <2>1. CASE readers = NoVault
    BY <2>1 DEF CInv, CacheTypeOK, ReadChain
  <2>2. CASE readers # NoVault
    <3>1. readers \in Vaults
      BY <2>2 DEF CInv, IInv, ReadersTypeOK, AnyVault
    <3>2. ver[readers] \in Versions
      BY <3>1, CacheAssumption DEF CInv, CacheTypeOK, Versions
    <3> QED  BY <2>2, <3>1, <3>2 DEF ReadChain, AnyVault
  <2> QED  BY <2>1, <2>2
<1> QED  BY <1>1, <1>2, <1>3, <1>4, KeepsModel

LEMMA PassEndsInv ==
  ASSUME CInv, EndsEarly \/ Unavailable \/ ChainTimesOut
  PROVE  CInv'
<1>1. IInv'
  <2>1. CASE EndsEarly \/ Unavailable
    BY <2>1, StutterInv DEF CInv, EndsEarly, Unavailable, loopFrame
  <2>2. CASE ChainTimesOut
    BY <2>2, FaultInv DEF CInv, ChainTimesOut, readersButFaults
  <2> QED  BY <2>1, <2>2
<1>2. /\ ~crossed' /\ model' = model
      /\ UNCHANGED <<chainVars, cache, pending, tasks, grid>>
      /\ pass' = "idle" /\ shown' = Unshown
  BY DEF CInv, EndsEarly, Unavailable, ChainTimesOut, loopFrame, readersVars, engineVars,
         PassEnds
<1> QED  BY <1>1, <1>2, KeepsModel, UnshownType

LEMMA HedgeStepInv == ASSUME CInv, HedgeStep PROVE CInv'
<1>1. IInv' /\ ~crossed' /\ model' = model
  BY StutterInv DEF CInv, HedgeStep, readersVars
<1>2. model \in Models
  BY DEF CInv, IInv, ReadersTypeOK, HedgeStep
<1>3. NewTask \in Refreshes /\ NewTask.of = model.strategy
  <2>1. Read("start", 0) \in Reads({"start", "range", "found", "gone"})
    BY CacheAssumption DEF Read, Reads, Versions
  <2>2. Read("start", 0) \in Reads({"start", "found", "gone", "none"})
    BY CacheAssumption DEF Read, Reads, Versions
  <2>3. model.strategy \in Vaults
    BY <1>2 DEF Models
  <2> QED  BY <2>1, <2>2, <2>3 DEF NewTask, Refreshes
<1>4. tasks' = tasks \/ \E t \in Slots : tasks' = [tasks EXCEPT ![t] = NewTask]
  BY DEF HedgeStep, StartRefresh
<1> HIDE DEF NewTask
<1>5. HeldInv'
  BY <1>1, <1>3, <1>4 DEF CInv, HeldInv, OfModel, HedgeStep, CacheTypeOK
<1>6. pending' \in BOOLEAN
  BY DEF CInv, CacheTypeOK, HedgeStep, Verify
<1>7. grid' \in [of : Vaults, main : Reads({"found", "gone"})] \cup {Nothing}
  <2>1. CASE cache = Nothing
    BY <2>1 DEF CInv, CacheTypeOK, HedgeStep
  <2>2. CASE cache # Nothing
    <3>1. cache \in Caches
      BY <2>2 DEF CInv, CacheTypeOK
    <3>2. Signature \in [of : Vaults, main : Reads({"found", "gone"})]
      BY <3>1 DEF Signature, Caches
    <3>3. grid' \in {Nothing, Signature, grid}
      BY <2>2 DEF HedgeStep, MaintainGrid
    <3> QED  BY <3>2, <3>3 DEF CInv, CacheTypeOK
  <2> QED  BY <2>1, <2>2
<1>8. tasks' \in [Slots -> Refreshes \cup {Nothing}]
  BY <1>3, <1>4 DEF CInv, CacheTypeOK
<1>9. CacheTypeOK'
  BY <1>1, <1>6, <1>7, <1>8, UnshownType
     DEF CInv, CacheTypeOK, IInv, HedgeStep, PassEnds, chainVars
<1> QED  BY <1>1, <1>5, <1>9 DEF CInv
-----------------------------------------------------------------------------
LEMMA CacheStutterInv == ASSUME CInv, UNCHANGED allVars PROVE CInv'
<1>1. IInv' /\ ~crossed' /\ model' = model
  BY StutterInv DEF CInv, allVars, readersVars
<1>2. /\ UNCHANGED <<chainVars, cache, pending, tasks, grid>>
      /\ pass' = pass /\ shown' = shown
  BY DEF allVars, passVars
<1> QED  BY <1>1, <1>2, KeepsModel DEF CInv, CacheTypeOK

LEMMA CacheNextInv == CInv /\ [CacheNext]_allVars => CInv'
<1> SUFFICES ASSUME CInv, [CacheNext]_allVars PROVE CInv'
  OBVIOUS
<1>1. CASE LoopStep \/ ChainTimesOut
  BY <1>1, PassBeginsInv, ReadChainInv, PassEndsInv, HedgeStepInv DEF LoopStep
<1>2. ASSUME NEW t \in Slots, TaskStep(t) \/ TaskFails(t) PROVE CInv'
  BY <1>2, TaskStepInv, TaskFailsInv
<1>3. CASE NewModel \/ NewReaders \/ Switch
  BY <1>3, NewModelInv, NewReadersInv, SwitchInv
<1>4. ASSUME NEW v \in Vaults, Moves(v) PROVE CInv'
  BY <1>4, MovesInv
<1>5. CASE UNCHANGED allVars
  BY <1>5, CacheStutterInv
<1> QED  BY <1>1, <1>2, <1>3, <1>4, <1>5 DEF CacheNext

LEMMA AlwaysCInv == CacheSpec => []CInv
  BY CacheInitInv, CacheNextInv, PTL DEF CacheSpec
-----------------------------------------------------------------------------
(* The cache of the hedge model, its tasks and the pass of the main loop   *)
(* keep their types through switches of the pair, moves of the vaults and  *)
(* failed reads.                                                           *)
THEOREM CacheTypeCorrect == CacheSpec => []CacheTypeOK
<1>1. CInv => CacheTypeOK
  BY DEF CInv
<1> QED  BY <1>1, AlwaysCInv, PTL

(* An answer that was on its way when the pair was switched never reaches  *)
(* the model of the new pair: once the new model stands, what predict and  *)
(* the grid are given is of the readers' vault.                            *)
THEOREM CacheIsOfReaders == CacheSpec => []CacheOfReaders
<1>1. CInv => CacheOfReaders
  <2> SUFFICES ASSUME CInv, ~Amid, cache # Nothing PROVE cache.of = readers
    BY DEF CacheOfReaders
  <2>1. model # NoModel /\ cache.of = model.strategy
    BY DEF CInv, HeldInv, OfModel
  <2>2. model = [strategy |-> readers, pool |-> readers]
    BY <2>1 DEF CInv, IInv, ModelOfReaders
  <2> QED  BY <2>1, <2>2
<1> QED  BY <1>1, AlwaysCInv, PTL
=============================================================================
