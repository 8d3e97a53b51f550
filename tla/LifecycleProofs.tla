-------------------------- MODULE LifecycleProofs --------------------------
(***************************************************************************)
(* The operations table, the hub and the vault of Lifecycle, for any       *)
(* number of requests at a time, rows, crashes and units of deposit.       *)
(*                                                                         *)
(* Between its two writes, and between a write and the call that it        *)
(* announces, a coroutine leaves table, hub and vault out of step with     *)
(* each other. The invariant says, place by place, how far, for as long as *)
(* no other coroutine interferes; and what interferes is recorded.         *)
(***************************************************************************)
EXTENDS Lifecycle, SequenceTheorems, FiniteSetTheorems, WellFoundedInduction, TLAPS

-----------------------------------------------------------------------------
(* Where a coroutine can be.                                               *)

Deposited == {"deposit_confirmed", "deposit_done", "snapshot", "hedge_pending",
              "hedge_confirmed", "hedge_done", "active"}
Boot == {"inserted", "approving", "swap_pending", "swap_confirmed", "swap_token0_pending",
         "swaps_done", "deposit_pending"} \cup Deposited

Withdrawn == {"teardown_withdraw_confirmed", "teardown_swap_pending",
              "teardown_swap_confirmed", "teardown_swap_token0_pending",
              "teardown_swap_token0_done", "teardown_swap_token1_pending",
              "teardown_swap_done"}
Tear == {"stopping", "teardown_grid_cancel", "teardown_short_close",
         "teardown_close_pending", "teardown_close_done",
         "teardown_withdraw_pending"} \cup Withdrawn

\* Before a coroutine knows its row.
Rowless == {"idle", "check", "read", "withdraw", "insert", "reread"}

Row == [status : States, stage : Stages]

Kinds == {"none", "start", "hedge", "stop", "legacy", "recover", "partial"}
Spots == Stages \cup
    {"idle", "inserted", "stopping", "check", "read", "insert", "reread", "begin",
     "withdraw", "promoted", "closing", "raised", "condemned"}

Coroutine == [kind : Kinds, at : Spots, left : 0..2, op : 0..Len(rows), seen : 0..Funds]

Places ==
    [ none    |-> {"idle"},
      start   |-> {"check", "insert", "raised", "condemned"} \cup Boot,
      hedge   |-> {"check", "read", "insert", "inserted", "hedge_pending", "promoted",
                   "raised", "condemned"},
      stop    |-> {"check", "reread", "begin", "closing", "raised", "condemned"} \cup Tear,
      legacy  |-> {"begin", "stopping"},
      recover |-> {"check", "read", "withdraw"},
      partial |-> {"read", "withdraw"} ]

\* Coroutine c is where its kind may be, and knows its row from some place on.
Placed(c) ==
    /\ c.at \in Places[c.kind]
    /\ c.kind = "none" => c = Idle
    /\ c.at \notin Rowless => c.op \in Ids
    /\ c.at \in Rowless => c.left = 0

PcInv == \A t \in Tasks : Placed(task[t]) /\ (phase # "up" => task[t] = Idle)

-----------------------------------------------------------------------------
(* The types: of what the code keeps and of the history.                   *)

CodeType ==
    /\ dual \in BOOLEAN
    /\ rows \in Seq(Row) /\ Len(rows) =< MaxOps
    /\ shares \in 0..Funds
    /\ hub \in [op : 0..MaxOps, state : States]
    /\ phase \in {"scan", "resume", "restore", "up"}
    /\ todo \subseteq Ids
    /\ task \in [Tasks -> Coroutine]
    /\ crashes \in 0..MaxCrashes /\ overlaps \in 0..MaxOverlaps

HistoryType ==
    /\ disturbed \subseteq Tasks /\ parted \in BOOLEAN
    /\ emptied \subseteq Tasks /\ filled \subseteq Tasks

TInv == CodeType /\ PcInv

-----------------------------------------------------------------------------
(* The table.                                                              *)

LEMMA SomeStages ==
  /\ Settled \subseteq Stages
  /\ \A s \in Steps : s[2] \in Stages
  /\ "hedge_pending" \in Stages
<1>1. \A s \in Steps : s \in CommonSteps \cup SingleSteps \cup DualSteps
  BY DEF Steps
<1>2. <<"snapshot", "hedge_pending">> \in CommonSteps
  BY DEF CommonSteps
<1> QED  BY <1>1, <1>2 DEF Stages

LEMMA RowsAreRows ==
  ASSUME rows \in Seq(Row), NEW i \in Ids
  PROVE  /\ rows[i] \in Row
         /\ Ids = DOMAIN rows /\ Len(rows) \in Nat
         /\ rows = [j \in Ids |-> rows[j]]
<1> QED  BY ElementOfSeq, LenProperties DEF Ids

\* A stage or a status is written.
LEMMA StageWritten ==
  ASSUME rows \in Seq(Row), NEW i \in Ids, NEW stage \in Stages, SetStage(i, stage)
  PROVE  /\ rows' \in Seq(Row) /\ Len(rows') = Len(rows) /\ Ids' = Ids
         /\ \A j \in Ids : /\ rows'[j].status = rows[j].status
                           /\ rows'[j].stage = IF j = i THEN stage ELSE rows[j].stage
<1> DEFINE new == [rows[i] EXCEPT !.stage = stage]
<1>1. \A j \in Ids : rows[j] \in Row
  BY ElementOfSeq DEF Ids
<1>2. new \in Row /\ new.status = rows[i].status /\ new.stage = stage
  BY <1>1 DEF Row
<1>3. rows' = [rows EXCEPT ![i] = new]
  BY DEF SetStage
<1> HIDE DEF new
<1>4. /\ rows' \in Seq(Row) /\ Len(rows') = Len(rows)
      /\ \A j \in Ids : rows'[j] = IF j = i THEN new ELSE rows[j]
  BY <1>2, <1>3, ExceptSeq DEF Ids
<1> QED  BY <1>2, <1>4 DEF Ids

LEMMA StatusWritten ==
  ASSUME rows \in Seq(Row), NEW i \in Ids, NEW status \in States, SetStatus(i, status)
  PROVE  /\ rows' \in Seq(Row) /\ Len(rows') = Len(rows) /\ Ids' = Ids
         /\ \A j \in Ids : /\ rows'[j].stage = rows[j].stage
                           /\ rows'[j].status = IF j = i THEN status ELSE rows[j].status
<1> DEFINE new == [rows[i] EXCEPT !.status = status]
<1>1. \A j \in Ids : rows[j] \in Row
  BY ElementOfSeq DEF Ids
<1>2. new \in Row /\ new.stage = rows[i].stage /\ new.status = status
  BY <1>1 DEF Row
<1>3. rows' = [rows EXCEPT ![i] = new]
  BY DEF SetStatus
<1> HIDE DEF new
<1>4. /\ rows' \in Seq(Row) /\ Len(rows') = Len(rows)
      /\ \A j \in Ids : rows'[j] = IF j = i THEN new ELSE rows[j]
  BY <1>2, <1>3, ExceptSeq DEF Ids
<1> QED  BY <1>2, <1>4 DEF Ids

\* The largest and the smallest of some row ids.
LEMMA SmallestExists ==
  ASSUME NEW S \in SUBSET Nat, S # {}
  PROVE  \E x \in S : \A y \in S : x =< y
<1>1. PICK x \in S : \A y \in S : ~(<<y, x>> \in OpToRel(<, Nat))
  BY NatLessThanWellFounded, WFMin, Zenon
<1>2. \A y \in S : ~(y < x)
  BY <1>1, Zenon DEF OpToRel
<1> QED  BY <1>2

LEMMA LargestExists ==
  ASSUME NEW n \in Nat, NEW S \in SUBSET (1..n), S # {}
  PROVE  \E x \in S : \A y \in S : x >= y
<1> DEFINE gaps == {g \in Nat : n - g \in S}
<1>1. \A y \in S : n - y \in gaps
  OBVIOUS
<1>2. PICK g \in gaps : \A h \in gaps : g =< h
  <2>1. gaps \in SUBSET Nat /\ gaps # {}
    BY <1>1
  <2> QED  BY <2>1, SmallestExists
<1>3. ASSUME NEW y \in S PROVE n - g >= y
  <2>1. n - y \in gaps /\ y \in 1..n
    BY <1>1
  <2>2. g =< n - y /\ g \in Nat
    BY <1>2, <2>1
  <2> QED  BY <2>1, <2>2
<1> QED  BY <1>2, <1>3

LEMMA LatestIsLive ==
  ASSUME rows \in Seq(Row), Live # {}
  PROVE  Latest \in Live /\ Latest \in Ids /\ rows[Latest].status \in LiveStates
<1>1. Len(rows) \in Nat
  BY LenProperties
<1>2. \E i \in Live : \A j \in Live : i >= j
  BY <1>1, LargestExists DEF Live, Ids
<1> QED  BY <1>2 DEF Latest, Live, Max
-----------------------------------------------------------------------------
(* Types and places, for any number of requests.                           *)

LEMMA TypeParts == TypeOK <=> CodeType /\ HistoryType
BY DEF TypeOK, CodeType, HistoryType, Coroutine, Kinds, Spots, Row

\* The step of one coroutine that inserts no row.
LEMMA CoroutineMoves ==
  ASSUME TInv, NEW t \in Tasks, phase = "up", Process \/ Request(t),
         rows' \in Seq(Row), Len(rows') = Len(rows),
         shares' \in 0..Funds,
         hub' \in [op : 0..MaxOps, state : States],
         task' \in [Tasks -> Coroutine], Placed(task'[t]),
         \A s \in Tasks \ {t} : task'[s] = task[s]
  PROVE  TInv'
<1>1. Coroutine' = Coroutine /\ Ids' = Ids
  BY DEF Coroutine, Ids
<1>2. UNCHANGED <<dual, phase, todo, crashes>> /\ overlaps' \in 0..MaxOverlaps
  <2>1. overlaps \in 0..MaxOverlaps /\ MaxOverlaps \in Nat
    BY LifecycleAssumption DEF TInv, CodeType
  <2> QED  BY <2>1 DEF Process, Request
<1>3. CodeType'
  BY <1>1, <1>2 DEF TInv, CodeType
<1>4. PcInv'
  BY <1>1, <1>2 DEF TInv, PcInv, Placed
<1> QED  BY <1>3, <1>4 DEF TInv

(***************************************************************************)
(* What becomes of the coroutine, field by field.                          *)
(***************************************************************************)
LEMMA GotoDoes ==
  ASSUME task \in [Tasks -> Coroutine], NEW t \in Tasks,
         NEW at \in Spots, NEW left \in 0..2, Goto(t, at, left)
  PROVE  /\ task' \in [Tasks -> Coroutine]
         /\ task'[t].at = at /\ task'[t].left = left
         /\ task'[t].kind = task[t].kind /\ task'[t].op = task[t].op
         /\ task'[t].seen = task[t].seen
         /\ \A s \in Tasks \ {t} : task'[s] = task[s]
<1> DEFINE new == [task[t] EXCEPT !.at = at, !.left = left]
<1>1. new \in Coroutine
  BY DEF Coroutine
<1>2. task' = [task EXCEPT ![t] = new]
  BY DEF Goto
<1>3. /\ new.at = at /\ new.left = left /\ new.kind = task[t].kind /\ new.op = task[t].op
      /\ new.seen = task[t].seen
  BY DEF Coroutine
<1> HIDE DEF new
<1> QED  BY <1>1, <1>2, <1>3

LEMMA SawDoes ==
  ASSUME task \in [Tasks -> Coroutine], NEW t \in Tasks,
         NEW at \in Spots, NEW n \in 0..Funds, Saw(t, at, n)
  PROVE  /\ task' \in [Tasks -> Coroutine]
         /\ task'[t].at = at /\ task'[t].left = 0
         /\ task'[t].kind = task[t].kind /\ task'[t].op = task[t].op
         /\ task'[t].seen = n
         /\ \A s \in Tasks \ {t} : task'[s] = task[s]
<1> DEFINE new == [task[t] EXCEPT !.at = at, !.left = 0, !.seen = n]
<1>1. new \in Coroutine
  <2>1. task[t] \in Coroutine /\ 0 \in 0..2
    OBVIOUS
  <2> QED  BY <2>1 DEF Coroutine
<1>2. task' = [task EXCEPT ![t] = new]
  BY DEF Saw
<1>3. /\ new.at = at /\ new.left = 0 /\ new.kind = task[t].kind /\ new.op = task[t].op
      /\ new.seen = n
  BY DEF Coroutine
<1> HIDE DEF new
<1> QED  BY <1>1, <1>2, <1>3

LEMMA IdleIsPlaced ==
  rows \in Seq(Row) => Idle \in Coroutine /\ Placed(Idle)
<1> SUFFICES ASSUME rows \in Seq(Row) PROVE Idle \in Coroutine /\ Placed(Idle)
  OBVIOUS
<1>1. Len(rows) \in Nat /\ Funds \in Nat
  BY LenProperties, LifecycleAssumption
<1>2. Idle \in Coroutine
  BY <1>1 DEF Idle, Coroutine, Kinds, Spots
<1>3. Placed(Idle)
  BY DEF Idle, Placed, Places, Rowless
<1> QED  BY <1>2, <1>3

LEMMA FinishDoes ==
  ASSUME task \in [Tasks -> Coroutine], rows \in Seq(Row), NEW t \in Tasks, Finish(t)
  PROVE  /\ task' \in [Tasks -> Coroutine]
         /\ task'[t] = Idle /\ Placed(task'[t])
         /\ \A s \in Tasks \ {t} : task'[s] = task[s]
<1> QED  BY IdleIsPlaced DEF Finish

LEMMA ServeDoes ==
  ASSUME task \in [Tasks -> Coroutine], rows \in Seq(Row), NEW t \in Tasks,
         NEW kind \in Kinds, NEW at \in Spots, Serve(t, kind, at)
  PROVE  /\ task' \in [Tasks -> Coroutine]
         /\ task'[t].kind = kind /\ task'[t].at = at /\ task'[t].left = 0
         /\ \A s \in Tasks \ {t} : task'[s] = task[s]
<1> DEFINE new == [Idle EXCEPT !.kind = kind, !.at = at]
<1>1. Idle \in Coroutine /\ Idle.left = 0
  BY IdleIsPlaced DEF Idle
<1>2. new \in Coroutine /\ new.kind = kind /\ new.at = at /\ new.left = 0
  BY <1>1 DEF Coroutine
<1>3. task' = [task EXCEPT ![t] = new]
  BY DEF Serve
<1> HIDE DEF new
<1> QED  BY <1>2, <1>3

\* Where a coroutine goes is a place of its kind.
LEMMA GotoPlaced ==
  ASSUME task \in [Tasks -> Coroutine], NEW t \in Tasks,
         NEW at \in Spots, NEW left \in 0..2, Goto(t, at, left),
         task[t].kind # "none", at \in Places[task[t].kind],
         at \notin Rowless => task[t].op \in Ids,
         at \in Rowless => left = 0
  PROVE  Placed(task'[t])
BY GotoDoes DEF Placed

LEMMA RequestsTInv ==
  ASSUME TInv, NEW t \in Tasks,
         Request(t) \/ Check(t) \/ Read(t) \/ Route(t) \/ Reread(t) \/ Call(t) \/ ReadShares(t)
  PROVE  TInv'
<1>1. /\ task[t] \in Coroutine /\ Placed(task[t]) /\ shares \in 0..Funds /\ shares \in Nat
      /\ task \in [Tasks -> Coroutine] /\ rows \in Seq(Row)
  BY LifecycleAssumption DEF CodeType, TInv, PcInv
<1> DEFINE Done == /\ task' \in [Tasks -> Coroutine] /\ Placed(task'[t])
                   /\ \A s \in Tasks \ {t} : task'[s] = task[s]
<1>0. Finish(t) => Done
  BY <1>1, FinishDoes
<1>2. ASSUME Request(t) PROVE Done
  <2>1. ASSUME NEW kind \in Kinds \ {"none"}, NEW at \in Rowless,
               at \in Places[kind], Serve(t, kind, at)
        PROVE  Done
    <3>1. at \in Spots
      BY DEF Spots, Rowless
    <3> QED  BY <1>1, <2>1, <3>1, ServeDoes DEF Placed
  <2>2. CASE \E kind \in {"start", "hedge", "stop", "recover"} : Serve(t, kind, "check")
    BY <2>1, <2>2 DEF Kinds, Places, Rowless
  <2>3. CASE Serve(t, "partial", "read")
    BY <2>1, <2>3 DEF Kinds, Places, Rowless
  <2> QED  BY <1>2, <2>2, <2>3 DEF Request
<1>3. ASSUME Check(t) PROVE Done
  <2>1. CASE task[t].kind = "start" /\ Goto(t, "insert", 0)
    BY <1>1, <2>1, GotoDoes, GotoPlaced DEF Places, Spots, Rowless
  <2>2. CASE task[t].kind \in {"hedge", "recover"} /\ Goto(t, "read", 0)
    BY <1>1, <2>2, GotoDoes, GotoPlaced DEF Places, Spots, Rowless
  <2> QED  BY <1>0, <1>3, <2>1, <2>2 DEF Check, At
<1>4. ASSUME Read(t) PROVE Done
  <2>1. ASSUME NEW n \in 0..Funds, NEW at \in {"insert", "withdraw"},
               task[t].kind # "none", at \in Places[task[t].kind], Saw(t, at, n)
        PROVE  Done
    <3>1. at \in Spots /\ at \in Rowless
      BY DEF Spots, Rowless
    <3> QED  BY <1>1, <2>1, <3>1, SawDoes DEF Placed
  <2>2. CASE task[t].kind = "hedge" /\ Saw(t, "insert", shares)
    BY <1>1, <2>1, <2>2 DEF Places
  <2>3. CASE task[t].kind = "recover" /\ Saw(t, "withdraw", shares)
    BY <1>1, <2>1, <2>3 DEF Places
  <2>4. CASE task[t].kind = "partial" /\ \E n \in 1..shares : Saw(t, "withdraw", n)
    <3>1. PICK n \in 1..shares : Saw(t, "withdraw", n)
      BY <2>4
    <3>2. n \in 0..Funds
      BY <1>1, LifecycleAssumption
    <3> QED  BY <2>1, <2>4, <3>1, <3>2 DEF Places
  <2> QED  BY <1>0, <1>4, <2>2, <2>3, <2>4 DEF Read, At
\* A stop takes the live row for its own.
<1>5. ASSUME NEW kind \in {"stop", "legacy"}, NEW i \in Ids, task[t].kind # "none",
             task' = [task EXCEPT ![t].kind = kind, ![t].at = "begin", ![t].op = i],
             task[t].left = 0
      PROVE  Done
  <2> DEFINE new == [task[t] EXCEPT !.kind = kind, !.at = "begin", !.op = i]
  <2>1. i \in 0..Len(rows)
    BY <1>1, LenProperties DEF Ids
  <2>2. /\ new \in Coroutine /\ new.kind = kind /\ new.at = "begin" /\ new.op = i
        /\ new.left = 0
    BY <1>1, <1>5, <2>1 DEF Coroutine, Kinds, Spots
  <2>3. task' = [task EXCEPT ![t] = new]
    BY <1>5
  <2> HIDE DEF new
  <2>4. "begin" \in Places[kind] /\ "begin" \notin Rowless
    BY DEF Places, Rowless
  <2> QED  BY <1>1, <2>2, <2>3, <2>4 DEF Placed
<1>6. Live # {} => Latest \in Ids
  BY <1>1, LatestIsLive
<1>7. task[t].at \in {"check", "reread"} => task[t].left = 0
  BY <1>1 DEF Placed, Rowless
<1>8. ASSUME Route(t) PROVE Done
  <2>1. CASE task[t].kind = "stop" /\ Goto(t, "reread", 0)
    BY <1>1, <2>1, GotoDoes, GotoPlaced DEF Places, Spots, Rowless
  <2>2. CASE /\ Live # {}
             /\ task' = [task EXCEPT ![t].kind = "legacy", ![t].at = "begin", ![t].op = Latest]
    <3>1. task[t].kind # "none" /\ task[t].left = 0
      BY <1>7, <1>8 DEF Route, At
    <3> QED  BY <1>5, <1>6, <2>2, <3>1
  <2> QED  BY <1>0, <1>8, <2>1, <2>2 DEF Route, At
<1>9. ASSUME Reread(t) PROVE Done
  <2>1. CASE task' = [task EXCEPT ![t].at = "begin", ![t].op = Latest] /\ Live # {}
    <3>1. task[t].kind = "stop" /\ task[t].left = 0
      BY <1>7, <1>9 DEF Reread, At
    <3>2. task' = [task EXCEPT ![t].kind = "stop", ![t].at = "begin", ![t].op = Latest]
      BY <1>1, <2>1, <3>1 DEF Coroutine
    <3> QED  BY <1>5, <1>6, <2>1, <3>1, <3>2
  <2> QED  BY <1>0, <1>9, <2>1 DEF Reread
<1>10. ASSUME Call(t) PROVE Done
  <2>1. task[t].at \notin Rowless /\ task[t].at \in Places[task[t].kind] /\ task[t].kind # "none"
    BY <1>1, <1>10 DEF Call, Placed, Idle
  <2> QED  BY <1>1, <1>10, <2>1, GotoDoes, GotoPlaced DEF Call, Coroutine, Placed
<1>11. ASSUME ReadShares(t) PROVE Done
  <2> DEFINE left == IF shares > 0 THEN 1 ELSE 0
  <2> DEFINE new == [task[t] EXCEPT !.seen = shares, !.left = left]
  <2>1. /\ new \in Coroutine /\ new.kind = task[t].kind /\ new.at = task[t].at
        /\ new.op = task[t].op
    <3>1. left \in 0..2 /\ shares \in 0..Funds /\ task[t] \in Coroutine
      BY <1>1
    <3> HIDE DEF left
    <3> QED  BY <3>1 DEF Coroutine
  <2>2. task' = [task EXCEPT ![t] = new]
    BY <1>11 DEF ReadShares
  <2>3. task[t].kind = "stop" /\ task[t].at \notin Rowless
    BY <1>11 DEF ReadShares, At, Rowless
  <2> HIDE DEF new
  <2> QED  BY <1>1, <2>1, <2>2, <2>3 DEF Placed
<1>12. Done
  BY <1>2, <1>3, <1>4, <1>8, <1>9, <1>10, <1>11
<1>13. phase = "up" /\ (Process \/ Request(t)) /\ UNCHANGED <<rows, shares, hub>>
  BY DEF Request, Check, Read, Route, Reread, Call, ReadShares, At, OnlyTasks
<1> HIDE DEF Done
<1>14. /\ rows' \in Seq(Row) /\ Len(rows') = Len(rows) /\ shares' \in 0..Funds
       /\ hub' \in [op : 0..MaxOps, state : States]
  BY <1>1, <1>13 DEF CodeType, TInv
<1> QED  BY <1>12, <1>13, <1>14, CoroutineMoves DEF Done

LEMMA LandedType ==
  ASSUME TInv, NEW t \in Tasks
  PROVE  Landed(t) \subseteq 0..Funds
<1>1. shares \in 0..Funds /\ task[t].seen \in 0..Funds /\ Funds \in Nat
  BY LifecycleAssumption DEF CodeType, TInv, Coroutine
<1> QED  BY <1>1 DEF Landed

\* A coroutine ends; what it leaves behind is well typed.
LEMMA EndTInv ==
  ASSUME TInv, NEW t \in Tasks, phase = "up", Process, Finish(t),
         rows' \in Seq(Row), Len(rows') = Len(rows), shares' \in 0..Funds,
         hub' \in [op : 0..MaxOps, state : States]
  PROVE  TInv'
<1>1. task \in [Tasks -> Coroutine] /\ rows \in Seq(Row)
  BY DEF CodeType, TInv
<1> QED  BY <1>1, FinishDoes, CoroutineMoves

\* A coroutine goes on.
LEMMA GoTInv ==
  ASSUME TInv, NEW t \in Tasks, phase = "up", Process,
         NEW at \in Spots, NEW left \in 0..2, Goto(t, at, left),
         task[t].kind # "none", at \in Places[task[t].kind], at \notin Rowless,
         task[t].at \notin Rowless,
         rows' \in Seq(Row), Len(rows') = Len(rows), shares' \in 0..Funds,
         hub' \in [op : 0..MaxOps, state : States]
  PROVE  TInv'
<1>1. task \in [Tasks -> Coroutine] /\ task[t].op \in Ids
  BY DEF CodeType, TInv, PcInv, Placed
<1> QED  BY <1>1, GotoDoes, GotoPlaced, CoroutineMoves

\* A coroutine at a place with a row has one.
LEMMA HasRow ==
  ASSUME TInv, NEW t \in Tasks, task[t].at \notin Rowless
  PROVE  /\ task[t].op \in Ids /\ task[t].op \in 0..MaxOps /\ rows \in Seq(Row)
         /\ task[t].kind # "none" /\ task[t].kind \in Kinds
<1>1. Placed(task[t]) /\ task[t] \in Coroutine /\ rows \in Seq(Row) /\ Len(rows) =< MaxOps
  BY DEF CodeType, TInv, PcInv
<1>2. Len(rows) \in Nat /\ MaxOps \in Nat
  BY <1>1, LenProperties, LifecycleAssumption
<1> QED  BY <1>1, <1>2 DEF Placed, Ids, Idle, Rowless, Coroutine

LEMMA EndsTInv ==
  ASSUME TInv, NEW t \in Tasks,
         \/ Withdraw(t) \/ Refuse(t) \/ Activate(t) \/ Promoted(t) \/ Closed(t)
         \/ LegacyClose(t) \/ Condemned(t)
  PROVE  TInv'
<1>1. /\ rows \in Seq(Row) /\ shares \in 0..Funds /\ hub \in [op : 0..MaxOps, state : States]
      /\ Funds \in Nat /\ MaxOps \in Nat /\ task[t] \in Coroutine
  BY LifecycleAssumption DEF CodeType, TInv
<1>2. NoHub \in [op : 0..MaxOps, state : States]
  BY <1>1 DEF NoHub, States
<1>3. CASE Withdraw(t)
  <2>1. shares' \in 0..Funds
    BY <1>1, <1>3 DEF Withdraw, Coroutine
  <2> QED  BY <1>1, <1>3, <2>1, EndTInv DEF Withdraw, At
<1>4. CASE Refuse(t)
  BY <1>1, <1>4, LandedType, EndTInv DEF Refuse, At
<1>5. CASE Activate(t) \/ Promoted(t) \/ Closed(t) \/ LegacyClose(t) \/ Condemned(t)
  <2>1. task[t].at \notin Rowless /\ phase = "up" /\ Finish(t) /\ Process /\ shares' = shares
    BY <1>5 DEF Activate, Promoted, Closed, LegacyClose, Condemned, At, Rowless
  <2>2. task[t].op \in Ids
    BY <2>1, HasRow
  <2>3. \/ \E status \in States : SetStatus(task[t].op, status)
        \/ \E stage \in Stages : SetStage(task[t].op, stage)
    BY <1>5, SomeStages DEF Activate, Promoted, Closed, LegacyClose, Condemned, States, Settled
  <2>4. rows' \in Seq(Row) /\ Len(rows') = Len(rows)
    BY <1>1, <2>2, <2>3, StageWritten, StatusWritten
  <2>5. hub' \in [op : 0..MaxOps, state : States]
    <3>1. CASE hub' = NoHub
      BY <1>2, <3>1
    <3>2. CASE hub' = [hub EXCEPT !.state = "active"]
      BY <1>1, <3>2 DEF States
    <3>3. CASE hub' = [op |-> IF task[t].kind = "hedge" THEN 0 ELSE hub.op, state |-> "failed"]
      BY <1>1, <3>3 DEF States
    <3> QED  BY <1>5, <3>1, <3>2, <3>3 DEF Activate, Promoted, Closed, LegacyClose, Condemned
  <2> QED  BY <1>1, <2>1, <2>4, <2>5, EndTInv
<1> QED  BY <1>3, <1>4, <1>5

LEMMA GoesOnTInv ==
  ASSUME TInv, NEW t \in Tasks,
         \/ MarkHedge(t) \/ Deposit(t) \/ Promote(t) \/ Stopping(t) \/ WithdrawAll(t)
         \/ Close(t) \/ Condemn(t)
  PROVE  TInv'
<1>1. /\ rows \in Seq(Row) /\ shares \in 0..Funds /\ hub \in [op : 0..MaxOps, state : States]
      /\ Funds \in Nat /\ MaxOps \in Nat /\ task[t] \in Coroutine /\ Placed(task[t])
  BY LifecycleAssumption DEF CodeType, TInv, PcInv
<1>2. task[t].at \notin Rowless /\ phase = "up" /\ Process
  BY DEF MarkHedge, Deposit, Promote, Stopping, WithdrawAll, Close, Condemn, At, Rowless, Closing
<1>3. task[t].op \in Ids /\ task[t].op \in 0..MaxOps /\ task[t].kind # "none"
  BY <1>2, HasRow
<1>4. \/ rows' = rows
      \/ \E status \in States : SetStatus(task[t].op, status)
      \/ \E stage \in Stages : SetStage(task[t].op, stage)
  BY SomeStages DEF MarkHedge, Deposit, Promote, Stopping, WithdrawAll, Close, Condemn, States,
                    Settled
<1>5. rows' \in Seq(Row) /\ Len(rows') = Len(rows)
  BY <1>1, <1>3, <1>4, StageWritten, StatusWritten
<1>6. hub' \in [op : 0..MaxOps, state : States]
  BY <1>1, <1>3 DEF MarkHedge, Deposit, Promote, Stopping, WithdrawAll, Close, Condemn, States
<1>7. shares' \in 0..Funds
  BY <1>1 DEF MarkHedge, Deposit, Promote, Stopping, WithdrawAll, Close, Condemn, Coroutine
<1>8. \E at \in Spots \ Rowless, left \in 0..2 : at \in Places[task[t].kind] /\ Goto(t, at, left)
  <2>1. CASE MarkHedge(t)
    BY <2>1, SomeStages DEF MarkHedge, At, Calls, Spots, Rowless, Places
  <2>2. CASE Deposit(t)
    BY <2>2, <1>1 DEF Deposit, At, Placed, Rowless, Coroutine
  <2>3. CASE Promote(t)
    BY <2>3 DEF Promote, At, Spots, Rowless, Places
  <2>4. CASE Stopping(t)
    BY <2>4 DEF Stopping, At, Spots, Rowless, Places, Tear
  <2>5. CASE WithdrawAll(t)
    BY <2>5, <1>1 DEF WithdrawAll, At, Placed, Rowless, Coroutine
  <2>6. CASE Close(t)
    BY <2>6 DEF Close, At, Spots, Rowless, Places
  <2>7. CASE Condemn(t)
    BY <2>7 DEF Condemn, At, Spots, Rowless, Places
  <2> QED  BY <2>1, <2>2, <2>3, <2>4, <2>5, <2>6, <2>7
<1> QED  BY <1>2, <1>3, <1>5, <1>6, <1>7, <1>8, GoTInv

\* The stages a coroutine goes through are places of its kind.
LEMMA StepsStay ==
  ASSUME NEW s \in Steps
  PROVE  /\ s[1] \in Boot => s[2] \in Boot
         /\ s[1] \in Tear => s[2] \in Tear
         /\ s[1] \in Boot \cup Tear
<1>1. CASE s \in CommonSteps
  BY <1>1 DEF CommonSteps, Boot, Tear, Deposited, Withdrawn
<1>2. CASE s \in SingleSteps
  BY <1>2 DEF SingleSteps, Boot, Tear, Deposited, Withdrawn
<1>3. CASE s \in DualSteps
  BY <1>3 DEF DualSteps, Boot, Tear, Deposited, Withdrawn
<1> QED  BY <1>1, <1>2, <1>3 DEF Steps

LEMMA MarkTInv ==
  ASSUME TInv, NEW t \in Tasks, Mark(t)
  PROVE  TInv'
<1>1. /\ rows \in Seq(Row) /\ shares \in 0..Funds /\ hub \in [op : 0..MaxOps, state : States]
      /\ Placed(task[t])
  BY DEF CodeType, TInv, PcInv
<1>2. PICK s \in Steps : /\ s[1] = task[t].at /\ SetStage(task[t].op, s[2])
                         /\ Goto(t, s[2], Calls(s[2]))
  BY DEF Mark
<1>3. s[2] \in Stages /\ Calls(s[2]) \in 0..2
  BY SomeStages DEF Calls
<1>4. (Boot \cup Tear) \cap Rowless = {}
  BY DEF Boot, Tear, Deposited, Withdrawn, Rowless
<1>5. task[t].at \notin Rowless /\ s[2] \notin Rowless
  BY <1>2, <1>4, StepsStay
<1>6. s[2] \in Places[task[t].kind]
  <2>1. CASE task[t].kind = "start"
    <3>1. task[t].at \in Boot
      BY <1>1, <1>2, <2>1, StepsStay DEF Placed, Places, Boot, Tear, Deposited, Withdrawn
    <3> QED  BY <1>2, <2>1, <3>1, StepsStay DEF Places
  <2>2. CASE task[t].kind = "stop"
    <3>1. task[t].at \in Tear
      BY <1>1, <1>2, <2>2, StepsStay DEF Placed, Places, Boot, Tear, Deposited, Withdrawn
    <3> QED  BY <1>2, <2>2, <3>1, StepsStay DEF Places
  <2> QED  BY <2>1, <2>2 DEF Mark
<1>7. rows' \in Seq(Row) /\ Len(rows') = Len(rows)
  BY <1>1, <1>2, <1>3, <1>5, HasRow, StageWritten
<1>8. phase = "up" /\ Process /\ shares' = shares /\ hub' = hub /\ task[t].kind # "none"
  BY DEF Mark
<1>9. s[2] \in Spots
  BY <1>3 DEF Spots
<1> QED  BY <1>1, <1>2, <1>3, <1>5, <1>6, <1>7, <1>8, <1>9, GoTInv

LEMMA RaiseTInv ==
  ASSUME TInv, NEW t \in Tasks, Raise(t)
  PROVE  TInv'
<1>1. /\ rows \in Seq(Row) /\ hub \in [op : 0..MaxOps, state : States]
      /\ Placed(task[t]) /\ task[t] \in Coroutine
  BY DEF CodeType, TInv, PcInv
<1>2. shares' \in 0..Funds
  BY LandedType DEF Raise
<1>3. task[t].at \notin Rowless
  BY <1>1 DEF Raise, Placed
<1>4. CASE Finish(t)
  BY <1>1, <1>2, <1>4, EndTInv DEF Raise
<1>5. CASE task[t].kind # "legacy" /\ Goto(t, "raised", 0)
  <2>1. task[t].kind \in {"start", "hedge", "stop"}
    <3>1. task[t].kind \in Kinds /\ task[t].at \in Places[task[t].kind]
      BY <1>1 DEF Coroutine, Placed
    <3> QED  BY <1>3, <1>5, <3>1 DEF Places, Rowless, Kinds
  <2>2. "raised" \in Places[task[t].kind] /\ "raised" \in Spots /\ "raised" \notin Rowless
    BY <2>1 DEF Places, Spots, Rowless
  <2> QED  BY <1>1, <1>2, <1>3, <1>5, <2>1, <2>2, GoTInv DEF Raise
<1> QED  BY <1>4, <1>5 DEF Raise

\* A row is inserted.
LEMMA RowInserted ==
  ASSUME rows \in Seq(Row), NEW row \in Row, rows' = Append(rows, row)
  PROVE  /\ rows' \in Seq(Row) /\ Len(rows') = Len(rows) + 1
         /\ Ids' = Ids \cup {Len(rows) + 1} /\ Len(rows) + 1 \notin Ids
         /\ \A i \in Ids : rows'[i] = rows[i]
         /\ rows'[Len(rows) + 1] = row
<1>1. Len(rows) \in Nat
  BY LenProperties
<1> QED  BY <1>1 DEF Ids

LEMMA InsertTInv ==
  ASSUME TInv, NEW t \in Tasks, Insert(t)
  PROVE  /\ TInv'
         /\ task'[t].at = "inserted" /\ task'[t].op = Len(rows) + 1
         /\ task'[t].kind = task[t].kind /\ task'[t].left = 0
<1>1. /\ rows \in Seq(Row) /\ hub \in [op : 0..MaxOps, state : States]
      /\ Placed(task[t]) /\ task[t] \in Coroutine /\ task \in [Tasks -> Coroutine]
      /\ Len(rows) \in Nat /\ Len(rows) < MaxOps /\ MaxOps \in Nat
  BY LenProperties, LifecycleAssumption DEF CodeType, TInv, PcInv, Insert
<1>2. /\ rows' \in Seq(Row) /\ Len(rows') = Len(rows) + 1 /\ Ids' = Ids \cup {Len(rows) + 1}
      /\ Ids = 1..Len(rows)
  <2>1. [status |-> "starting", stage |-> "pending"] \in Row
    BY SomeStages DEF Row, States, Settled
  <2> QED  BY <1>1, <2>1, RowInserted DEF Insert, Ids
<1>3. Coroutine \subseteq Coroutine'
  BY <1>1, <1>2 DEF Coroutine
<1> DEFINE new == [task[t] EXCEPT !.at = "inserted", !.op = Len(rows) + 1]
<1>4. /\ new \in Coroutine' /\ new.at = "inserted" /\ new.op = Len(rows) + 1
      /\ new.kind = task[t].kind /\ new.left = task[t].left
  <2>1. "inserted" \in Spots /\ Len(rows) + 1 \in 0..Len(rows')
    BY <1>1, <1>2 DEF Spots
  <2>2. task[t] \in [kind : Kinds, at : Spots, left : 0..2, op : 0..Len(rows), seen : 0..Funds]
    BY <1>1 DEF Coroutine
  <2>3. new \in [kind : Kinds, at : Spots, left : 0..2, op : 0..Len(rows'), seen : 0..Funds]
    BY <2>1, <2>2
  <2> QED  BY <2>2, <2>3 DEF Coroutine
<1>5. task' = [task EXCEPT ![t] = new] /\ task[t].kind \in {"start", "hedge"} /\ phase = "up"
      /\ Process /\ shares' = shares /\ task[t].at = "insert"
  BY DEF Insert, At
<1> HIDE DEF new
<1>6. \A s \in Tasks : task'[s] = IF s = t THEN new ELSE task[s]
  BY <1>1, <1>5
<1>7. task' \in [Tasks -> Coroutine']
  BY <1>1, <1>3, <1>4, <1>5
<1>8. hub' \in [op : 0..MaxOps, state : States]
  BY <1>1 DEF Insert, States
<1>9. CodeType'
  BY <1>1, <1>2, <1>5, <1>7, <1>8 DEF TInv, Process, CodeType
<1>10. PcInv'
  <2>1. Placed(task[t])'
    <3>1. task'[t].at \in Places[task'[t].kind]
      BY <1>4, <1>5, <1>6 DEF Places, Boot
    <3> QED  BY <1>1, <1>2, <1>4, <1>5, <1>6, <3>1 DEF Placed, Rowless
  <2>2. \A s \in Tasks : s # t => Placed(task[s])'
    BY <1>2, <1>6 DEF TInv, PcInv, Placed
  <2> QED  BY <1>5, <2>1, <2>2 DEF PcInv, Process
<1>11. task[t].left = 0
  BY <1>1, <1>5 DEF Placed, Rowless
<1> QED  BY <1>4, <1>6, <1>9, <1>10, <1>11 DEF TInv

LEMMA CrashTInv ==
  ASSUME TInv, Crash
  PROVE  TInv' /\ \A t \in Tasks : task'[t] = Idle
<1>1. rows \in Seq(Row) /\ MaxOps \in Nat /\ MaxCrashes \in Nat /\ crashes \in Nat
  BY LifecycleAssumption DEF CodeType, TInv
<1>2. Idle \in Coroutine' /\ Placed(Idle)
  BY <1>1, IdleIsPlaced DEF Coroutine, Crash
<1>3. task' \in [Tasks -> Coroutine'] /\ \A t \in Tasks : task'[t] = Idle
  BY <1>2 DEF Crash
<1>4. NoHub \in [op : 0..MaxOps, state : States]
  BY <1>1 DEF NoHub, States
<1>5. CodeType'
  BY <1>1, <1>3, <1>4 DEF TInv, CodeType, Crash, Ids
<1>6. PcInv'
  BY <1>2, <1>3 DEF PcInv, Placed, Idle, Rowless
<1> QED  BY <1>3, <1>5, <1>6 DEF TInv

LEMMA StartupTInv ==
  ASSUME TInv, Startup
  PROVE  TInv' /\ task' = task
<1>1. /\ rows \in Seq(Row) /\ hub \in [op : 0..MaxOps, state : States]
      /\ Len(rows) \in Nat /\ Len(rows) =< MaxOps /\ MaxOps \in Nat /\ todo \subseteq Ids
  BY LenProperties, LifecycleAssumption DEF CodeType, TInv
<1>2. /\ task' = task /\ dual' = dual /\ shares' = shares /\ crashes' = crashes
      /\ overlaps' = overlaps
      /\ phase # "up" /\ phase' \in {"scan", "resume", "restore", "up"}
  BY DEF Startup, Scan, ResumeStage, ResumeStatus, Resumed, Restore
<1>3. rows' \in Seq(Row) /\ Len(rows') = Len(rows)
  <2>1. todo # {} => Min(todo) \in Ids
    <3>1. todo # {} => \E x \in todo : \A y \in todo : x =< y
      BY <1>1, SmallestExists DEF Ids
    <3> QED  BY <1>1, <3>1 DEF Min
  <2>2. CASE ResumeStage
    BY <1>1, <2>1, <2>2, StageWritten, SomeStages DEF ResumeStage, Settled
  <2>3. CASE ResumeStatus
    BY <1>1, <2>1, <2>3, StatusWritten DEF ResumeStatus, States
  <2> QED  BY <1>1, <2>2, <2>3 DEF Startup, Scan, Resumed, Restore
<1>4. hub' \in [op : 0..MaxOps, state : States]
  <2>1. CASE Restore
    <3>1. Live # {} => Latest \in 0..MaxOps /\ rows[Latest].status \in States
      <4>1. Live # {} => Latest \in Ids
        BY <1>1, LatestIsLive
      <4>2. \A i \in Ids : rows[i] \in Row /\ i \in 0..MaxOps
        BY <1>1, RowsAreRows DEF Ids
      <4> QED  BY <4>1, <4>2 DEF Row
    <3> QED  BY <1>1, <2>1, <3>1 DEF Restore
  <2> QED  BY <1>1, <2>1 DEF Startup, Scan, ResumeStage, ResumeStatus, Resumed
<1>5. todo' \subseteq Ids
  BY <1>1 DEF Startup, Scan, ResumeStage, ResumeStatus, Resumed, Restore, InFlight
<1>6. Ids' = Ids /\ Coroutine' = Coroutine
  BY <1>3 DEF Ids, Coroutine
<1>7. CodeType'
  BY <1>1, <1>2, <1>3, <1>4, <1>5, <1>6 DEF TInv, CodeType
<1>8. PcInv'
  BY <1>2, <1>6 DEF TInv, PcInv, Placed
<1> QED  BY <1>2, <1>7, <1>8 DEF TInv

LEMMA InitTInv == Init => TInv /\ HistoryType
<1> SUFFICES ASSUME Init PROVE TInv /\ HistoryType
  OBVIOUS
<1>1. /\ rows \in Seq(Row) /\ Len(rows) = 0 /\ MaxOps \in Nat /\ Funds \in Nat
      /\ MaxCrashes \in Nat /\ MaxOverlaps \in Nat
  BY EmptySeq, LifecycleAssumption DEF Init
<1>2. Idle \in Coroutine /\ Placed(Idle)
  BY <1>1, IdleIsPlaced
<1>3. CodeType
  BY <1>1, <1>2 DEF CodeType, Init, NoHub, States
<1>4. PcInv
  BY <1>2 DEF Init, PcInv
<1>5. HistoryType
  BY DEF Init, HistoryType
<1> QED  BY <1>3, <1>4, <1>5 DEF TInv

LEMMA NextTInv == TInv /\ [Next]_vars => TInv'
<1> SUFFICES ASSUME TInv, [Next]_vars PROVE TInv'
  OBVIOUS
<1>1. ASSUME NEW t \in Tasks, Request(t) \/ Step(t) PROVE TInv'
  BY <1>1, RequestsTInv, EndsTInv, GoesOnTInv, MarkTInv, RaiseTInv, InsertTInv DEF Step
<1>2. CASE UNCHANGED vars
  <2>1. Coroutine' = Coroutine /\ Ids' = Ids
    BY <1>2 DEF Coroutine, Ids, vars, codeVars
  <2> QED  BY <1>2, <2>1 DEF TInv, PcInv, Placed, vars, codeVars, CodeType
<1> QED  BY <1>1, <1>2, CrashTInv, StartupTInv DEF Next

LEMMA NextHistory == HistoryType /\ [Next]_vars => HistoryType'
<1>1. History /\ HistoryType => HistoryType'
  <2>1. History /\ HistoryType => parted' \in BOOLEAN
    BY Zenon DEF History, HistoryType
  <2> QED  BY <2>1 DEF History, HistoryType
<1> QED  BY <1>1 DEF Next, vars, HistoryType

LEMMA AlwaysTInv == Spec => []TInv
<1> QED  BY InitTInv, NextTInv, PTL DEF Spec

(* Table, hub, vault and coroutines keep their types for any number of     *)
(* requests at a time: among others the vault never owes more shares than  *)
(* were deposited, and every write of a coroutine is to a row that exists. *)
THEOREM TypeCorrect == Spec => []TypeOK
<1>1. TInv /\ HistoryType => TypeOK
  BY TypeParts DEF TInv
<1> QED  BY <1>1, InitTInv, NextTInv, NextHistory, PTL DEF Spec
-----------------------------------------------------------------------------
(* What a coroutine knows of the table while no other one writes it.       *)

\* The status its row has while a coroutine is where it is. (Where it has
\* written a status, or is about to, it awaits nothing that could raise.)
StatusOk(c) ==
    /\ c.at \in {"begin", "promoted", "closing", "condemned"} => c.left = 0
    /\ c.at \notin Rowless =>
        CASE c.kind = "hedge" /\ c.at = "promoted" -> rows[c.op].status = "active"
          [] c.kind = "hedge" /\ c.at = "condemned" -> rows[c.op].status = "failed"
          [] c.at = "begin" -> rows[c.op].status \in LiveStates
          [] c.at = "closing" -> rows[c.op].status = "closed"
          [] c.kind \in {"stop", "legacy"} /\ c.at \notin {"begin", "closing"} ->
                rows[c.op].status = "stopping"
          [] OTHER -> rows[c.op].status = "starting"
    /\ c.kind = "legacy" => rows[c.op].stage = "pending"

\* A row is inserted only where none is live.
Vacant(c) == c.kind \in {"start", "hedge"} /\ c.at \in {"read", "insert"} => Live = {}

TableOk(c) == StatusOk(c) /\ Vacant(c)

TableInv == \A t \in Tasks \ disturbed : TableOk(task[t])

LEMMA IdleKnows == TableOk(Idle)
  BY DEF TableOk, StatusOk, Vacant, Idle, Rowless

\* A coroutine that is not involved takes nothing for granted.
LEMMA NotInvolved ==
  ASSUME TInv', NEW t \in Tasks, ~Involved(task'[t])
  PROVE  TableOk(task[t])' /\ task'[t].at \in Rowless
<1>1. Placed(task[t])' /\ task'[t].kind \in Kinds
  BY DEF TInv, PcInv, CodeType, Coroutine
<1>2. task'[t].at \in Rowless /\ task'[t].kind # "legacy"
  BY <1>1 DEF Placed, Places, Involved, Kinds, Rowless, Idle
<1>3. Vacant(task[t])'
  BY DEF Vacant, Involved
<1> QED  BY <1>2, <1>3 DEF TableOk, StatusOk, Rowless

\* In the time of a coroutine that is not disturbed nobody else writes.
LEMMA Undisturbed ==
  ASSUME History, NEW t \in Tasks, t \notin disturbed', Involved(task'[t])
  PROVE  t \notin disturbed /\ (task'[t] = task[t] => rows' = rows /\ hub' = hub)
BY DEF History

LEMMA OthersTable ==
  ASSUME TInv', TableInv, History, NEW s \in Tasks \ disturbed', task'[s] = task[s]
  PROVE  TableOk(task[s])'
<1>1. CASE ~Involved(task'[s])
  BY <1>1, NotInvolved
<1>2. CASE Involved(task'[s])
  <2>1. rows' = rows /\ TableOk(task[s])
    BY <1>2, Undisturbed DEF TableInv
  <2>2. Live' = Live
    BY <2>1 DEF Live, Ids
  <2> QED  BY <2>1, <2>2 DEF TableOk, StatusOk, Vacant
<1> QED  BY <1>1, <1>2

(***************************************************************************)
(* The step of a coroutine that nobody has disturbed.                      *)
(***************************************************************************)
LEMMA StaysTable ==
  ASSUME TInv, NEW t \in Tasks, TableOk(task[t]), rows' = rows,
         task'[t].kind = task[t].kind, task'[t].op = task[t].op,
         task'[t].left = 0 \/ task[t].at \notin {"begin", "promoted", "closing", "condemned"},
         \/ task'[t].at = task[t].at
         \/ /\ task[t].at \notin Rowless \cup {"begin", "promoted", "closing", "condemned"}
            /\ task'[t].at = "raised"
  PROVE  TableOk(task[t])'
<1>1. Live' = Live
  BY DEF Live, Ids
<1> QED  BY <1>1 DEF TableOk, StatusOk, Vacant, Rowless

LEMMA LooksTable ==
  ASSUME TInv, NEW t \in Tasks, TableOk(task[t]),
         \/ Request(t) \/ Check(t) \/ Read(t) \/ Route(t) \/ Reread(t) \/ Withdraw(t)
         \/ Refuse(t)
  PROVE  TableOk(task[t])'
<1>1. /\ task[t] \in Coroutine /\ Placed(task[t]) /\ shares \in Nat /\ shares =< Funds
      /\ task \in [Tasks -> Coroutine] /\ rows \in Seq(Row) /\ Funds \in Nat
  BY LifecycleAssumption DEF CodeType, TInv, PcInv
<1>2. rows' = rows /\ task[t].at \in Rowless
  BY DEF Request, Check, Read, Route, Reread, Withdraw, Refuse, OnlyTasks, At, Idle, Rowless
<1>3. Live' = Live
  BY <1>2 DEF Live, Ids
<1>4. CASE Finish(t)
  BY <1>1, <1>4, FinishDoes, IdleKnows DEF TableOk, StatusOk, Vacant, Idle, Rowless
<1>5. ASSUME task'[t].at \in Rowless, task'[t].kind # "legacy",
             task'[t].kind \in {"start", "hedge"} /\ task'[t].at \in {"read", "insert"}
                => Live = {}
      PROVE  TableOk(task[t])'
  BY <1>3, <1>5 DEF TableOk, StatusOk, Vacant, Rowless
<1>6. CASE Request(t)
  <2>1. \A kind \in Kinds : Serve(t, kind, "check") \/ Serve(t, kind, "read")
           => task'[t].kind = kind /\ task'[t].at \in {"check", "read"}
                /\ (Serve(t, kind, "check") => task'[t].at = "check")
    <3>1. "check" \in Spots /\ "read" \in Spots
      BY DEF Spots
    <3> QED  BY <1>1, <3>1, ServeDoes
  <2>2. \/ task'[t].at = "check" /\ task'[t].kind \in {"start", "hedge", "stop", "recover"}
        \/ task'[t].at = "read" /\ task'[t].kind = "partial"
    BY <1>6, <2>1, ServeDoes, <1>1 DEF Request, Kinds, Spots
  <2> QED  BY <1>5, <2>2 DEF Rowless
<1>7. CASE Check(t)
  <2>1. CASE Live = {} /\ \E at \in {"insert", "read"} : Goto(t, at, 0)
    <3>1. task'[t].at \in {"insert", "read"} /\ task'[t].kind = task[t].kind
      BY <1>1, <2>1, GotoDoes DEF Spots
    <3> QED  BY <1>5, <1>7, <2>1, <3>1 DEF Check, At, Rowless
  <2> QED  BY <1>4, <1>7, <2>1 DEF Check
<1>8. CASE Read(t)
  <2>1. CASE \E at \in {"insert", "withdraw"}, n \in 0..Funds :
               Saw(t, at, n) /\ (at = "insert" => task[t].kind = "hedge")
    <3>1. PICK at \in {"insert", "withdraw"}, n \in 0..Funds :
             Saw(t, at, n) /\ (at = "insert" => task[t].kind = "hedge")
      BY <2>1
    <3>2. at \in Spots
      BY DEF Spots
    <3>3. task'[t].at = at /\ task'[t].kind = task[t].kind
      BY <1>1, <3>1, <3>2, SawDoes
    <3>4. task[t].kind \in {"start", "hedge"} => Live = {}
      BY <1>8 DEF Read, At, TableOk, Vacant
    <3> QED  BY <1>5, <1>8, <3>3, <3>4 DEF Read, At, Rowless
  <2>2. shares \in 0..Funds /\ 1..shares \subseteq 0..Funds
    BY <1>1
  <2> QED  BY <1>4, <1>8, <2>1, <2>2 DEF Read, At
<1>9. ASSUME NEW kind \in {"stop", "legacy"}, Live # {}, task[t].left = 0,
             task' = [task EXCEPT ![t].kind = kind, ![t].at = "begin", ![t].op = Latest],
             kind = "legacy" => rows[Latest].stage = "pending"
      PROVE  TableOk(task[t])'
  <2>1. rows[Latest].status \in LiveStates
    BY <1>1, <1>9, LatestIsLive
  <2>2. /\ task'[t].kind = kind /\ task'[t].at = "begin" /\ task'[t].op = Latest
        /\ task'[t].left = 0
    BY <1>1, <1>9 DEF Coroutine
  <2> QED  BY <1>2, <1>9, <2>1, <2>2 DEF TableOk, StatusOk, Vacant, Rowless
<1>10. CASE Route(t)
  <2>1. task[t].kind = "stop" /\ task[t].left = 0
    BY <1>1, <1>2, <1>10 DEF Route, At, Placed
  <2>2. CASE Goto(t, "reread", 0)
    <3>1. task'[t].at = "reread" /\ task'[t].kind = "stop"
      BY <1>1, <2>1, <2>2, GotoDoes DEF Spots
    <3> QED  BY <1>5, <3>1 DEF Rowless
  <2> QED  BY <1>4, <1>9, <1>10, <2>1, <2>2 DEF Route
<1>11. CASE Reread(t)
  <2>1. task[t].kind = "stop" /\ task[t].left = 0
    BY <1>1, <1>2, <1>11 DEF Reread, At, Placed
  <2>2. CASE Live # {} /\ task' = [task EXCEPT ![t].at = "begin", ![t].op = Latest]
    <3>1. task' = [task EXCEPT ![t].kind = "stop", ![t].at = "begin", ![t].op = Latest]
      BY <1>1, <2>1, <2>2 DEF Coroutine
    <3> QED  BY <1>9, <2>1, <2>2, <3>1
  <2> QED  BY <1>4, <1>11, <2>2 DEF Reread
<1> QED  BY <1>4, <1>6, <1>7, <1>8, <1>10, <1>11 DEF Withdraw, Refuse

LEMMA CallsTable ==
  ASSUME TInv, NEW t \in Tasks, TableOk(task[t]),
         \/ Call(t) \/ ReadShares(t) \/ Deposit(t) \/ WithdrawAll(t) \/ Raise(t)
  PROVE  TableOk(task[t])'
<1>1. /\ task[t] \in Coroutine /\ Placed(task[t]) /\ shares \in 0..Funds
      /\ task \in [Tasks -> Coroutine] /\ rows \in Seq(Row)
  BY DEF CodeType, TInv, PcInv
<1>2. rows' = rows /\ task[t].left > 0
  BY DEF Call, ReadShares, Deposit, WithdrawAll, Raise, OnlyTasks
<1>3. task[t].at \notin Rowless \cup {"begin", "promoted", "closing", "condemned"}
  BY <1>1, <1>2 DEF Placed, TableOk, StatusOk
<1>4. CASE Finish(t)
  BY <1>1, <1>4, FinishDoes DEF TableOk, StatusOk, Vacant, Idle, Rowless
<1>5. CASE \E at \in {task[t].at, "raised"} : Goto(t, at, 0)
  <2>1. PICK at \in {task[t].at, "raised"} : Goto(t, at, 0)
    BY <1>5
  <2>2. at \in Spots
    BY <1>1 DEF Coroutine, Spots
  <2>3. /\ task'[t].at = at /\ task'[t].kind = task[t].kind /\ task'[t].op = task[t].op
        /\ task'[t].left = 0
    BY <1>1, <2>1, <2>2, GotoDoes
  <2> QED  BY <1>2, <1>3, <2>3, StaysTable
<1>6. CASE ReadShares(t)
  <2>1. /\ task'[t].at = task[t].at /\ task'[t].kind = task[t].kind
        /\ task'[t].op = task[t].op
    BY <1>1, <1>6 DEF ReadShares, Coroutine
  <2> QED  BY <1>2, <1>3, <2>1, StaysTable
<1> QED  BY <1>4, <1>5, <1>6 DEF Call, Deposit, WithdrawAll, Raise, At

LEMMA EndsTable ==
  ASSUME TInv, NEW t \in Tasks,
         Activate(t) \/ Promoted(t) \/ Closed(t) \/ LegacyClose(t) \/ Condemned(t)
  PROVE  TableOk(task[t])'
<1>1. task \in [Tasks -> Coroutine] /\ rows \in Seq(Row)
  BY DEF CodeType, TInv
<1>2. task'[t] = Idle
  BY <1>1, FinishDoes DEF Activate, Promoted, Closed, LegacyClose, Condemned
<1> QED  BY <1>2 DEF TableOk, StatusOk, Vacant, Idle, Rowless

\* A stage is written, and the status is the one of the place it leads to.
LEMMA StageTable ==
  ASSUME TInv, NEW t \in Tasks, TableOk(task[t]), task[t].at \notin Rowless,
         NEW stage \in Stages, SetStage(task[t].op, stage),
         task'[t].kind = task[t].kind, task'[t].op = task[t].op,
         task[t].kind \in {"start", "hedge", "stop"},
         task[t].at \notin {"begin", "promoted", "closing", "condemned"},
         task'[t].at \notin Rowless \cup {"begin", "promoted", "closing"},
         task'[t].at = "condemned" => task[t].kind # "hedge" /\ task'[t].left = 0
  PROVE  TableOk(task[t])'
<1>1. task[t].op \in Ids /\ rows \in Seq(Row)
  BY HasRow
<1>2. rows'[task[t].op].status = rows[task[t].op].status
  BY <1>1, StageWritten
<1>3. rows[task[t].op].status = IF task[t].kind = "stop" THEN "stopping" ELSE "starting"
  BY DEF TableOk, StatusOk
<1> QED  BY <1>2, <1>3 DEF TableOk, StatusOk, Vacant, Rowless

LEMMA MarkTable ==
  ASSUME TInv, NEW t \in Tasks, TableOk(task[t]), Mark(t) \/ MarkHedge(t)
  PROVE  TableOk(task[t])'
<1>1. /\ task \in [Tasks -> Coroutine] /\ Placed(task[t]) /\ task[t] \in Coroutine
  BY DEF CodeType, TInv, PcInv
<1>2. CASE Mark(t)
  <2>1. PICK s \in Steps : /\ s[1] = task[t].at /\ SetStage(task[t].op, s[2])
                           /\ Goto(t, s[2], Calls(s[2]))
    BY <1>2 DEF Mark
  <2>2. s[2] \in Stages /\ s[2] \in Spots /\ Calls(s[2]) \in 0..2
    BY SomeStages DEF Calls, Spots
  <2>3. task'[t].kind = task[t].kind /\ task'[t].at = s[2] /\ task'[t].op = task[t].op
    BY <1>1, <2>1, <2>2, GotoDoes
  <2>4. (Boot \cup Tear) \cap (Rowless \cup {"begin", "promoted", "closing", "condemned"}) = {}
    BY DEF Boot, Tear, Deposited, Withdrawn, Rowless
  <2>5. {s[1], s[2]} \subseteq Boot \cup Tear
    BY StepsStay
  <2> QED  BY <1>2, <2>1, <2>2, <2>3, <2>4, <2>5, StageTable DEF Mark
<1>3. CASE MarkHedge(t)
  <2>1. /\ task[t].kind = "hedge" /\ task[t].at = "inserted"
        /\ SetStage(task[t].op, "hedge_pending") /\ Goto(t, "hedge_pending", 1)
    BY <1>3 DEF MarkHedge, At, Calls
  <2>2. "hedge_pending" \in Stages /\ "hedge_pending" \in Spots
    BY SomeStages DEF Spots
  <2>3. /\ task'[t].kind = "hedge" /\ task'[t].at = "hedge_pending"
        /\ task'[t].op = task[t].op
    BY <1>1, <2>1, <2>2, GotoDoes
  <2> QED  BY <2>1, <2>2, <2>3, StageTable DEF Rowless
<1> QED  BY <1>2, <1>3

LEMMA WritesTable ==
  ASSUME TInv, NEW t \in Tasks, TableOk(task[t]),
         Promote(t) \/ Stopping(t) \/ Close(t) \/ Condemn(t)
  PROVE  TableOk(task[t])'
<1>1. task \in [Tasks -> Coroutine] /\ Placed(task[t]) /\ task[t] \in Coroutine
  BY DEF CodeType, TInv, PcInv
<1>2. task[t].at \notin Rowless
  BY DEF Promote, Stopping, Close, Condemn, At, Closing, Rowless
<1>3. task[t].op \in Ids /\ rows \in Seq(Row)
  BY <1>2, HasRow
<1>4. ASSUME NEW to \in States, SetStatus(task[t].op, to)
      PROVE  rows'[task[t].op].status = to /\ rows'[task[t].op].stage = rows[task[t].op].stage
  BY <1>3, <1>4, StatusWritten
<1>5. CASE Promote(t)
  <2>1. task[t].kind = "hedge" /\ SetStatus(task[t].op, "active") /\ Goto(t, "promoted", 0)
    BY <1>5 DEF Promote, At
  <2>2. /\ task'[t].kind = "hedge" /\ task'[t].at = "promoted" /\ task'[t].left = 0
        /\ task'[t].op = task[t].op
    BY <1>1, <2>1, GotoDoes DEF Spots
  <2>3. rows'[task[t].op].status = "active"
    BY <1>4, <2>1 DEF States
  <2> QED  BY <2>2, <2>3 DEF TableOk, StatusOk, Vacant
<1>6. CASE Stopping(t)
  <2>1. /\ task[t].kind \in {"stop", "legacy"} /\ SetStatus(task[t].op, "stopping")
        /\ \E left \in 0..2 : Goto(t, "stopping", left)
    BY <1>6 DEF Stopping, At
  <2>2. /\ task'[t].kind = task[t].kind /\ task'[t].at = "stopping"
        /\ task'[t].op = task[t].op
    BY <1>1, <2>1, GotoDoes DEF Spots
  <2>3. /\ rows'[task[t].op].status = "stopping"
        /\ rows'[task[t].op].stage = rows[task[t].op].stage
    BY <1>4, <2>1 DEF States
  <2> QED  BY <2>1, <2>2, <2>3 DEF TableOk, StatusOk, Vacant, Rowless
<1>7. CASE Close(t)
  <2>1. task[t].kind = "stop" /\ SetStatus(task[t].op, "closed") /\ Goto(t, "closing", 0)
    BY <1>7 DEF Close, At
  <2>2. /\ task'[t].kind = "stop" /\ task'[t].at = "closing" /\ task'[t].left = 0
        /\ task'[t].op = task[t].op
    BY <1>1, <2>1, GotoDoes DEF Spots
  <2>3. rows'[task[t].op].status = "closed"
    BY <1>4, <2>1 DEF States
  <2> QED  BY <2>2, <2>3 DEF TableOk, StatusOk, Vacant
<1>8. CASE Condemn(t)
  <2>1. /\ task[t].kind \in {"start", "stop", "hedge"} /\ task[t].at = "raised"
        /\ Goto(t, "condemned", 0)
    BY <1>8 DEF Condemn, At
  <2>2. /\ task'[t].kind = task[t].kind /\ task'[t].at = "condemned" /\ task'[t].left = 0
        /\ task'[t].op = task[t].op
    BY <1>1, <2>1, GotoDoes DEF Spots
  <2>3. CASE task[t].kind = "hedge"
    <3>1. rows'[task[t].op].status = "failed"
      BY <1>4, <1>8, <2>3 DEF Condemn, States
    <3> QED  BY <2>2, <2>3, <3>1 DEF TableOk, StatusOk, Vacant
  <2>4. CASE task[t].kind # "hedge"
    <3>1. SetStage(task[t].op, "failed") /\ "failed" \in Stages
      BY <1>8, <2>4, SomeStages DEF Condemn, Settled
    <3> QED  BY <1>2, <2>1, <2>2, <2>4, <3>1, StageTable DEF Rowless
  <2> QED  BY <2>3, <2>4
<1> QED  BY <1>5, <1>6, <1>7, <1>8

LEMMA InsertTable ==
  ASSUME TInv, NEW t \in Tasks, Insert(t)
  PROVE  TableOk(task[t])'
<1>1. rows \in Seq(Row) /\ Len(rows) \in Nat /\ task[t].kind \in {"start", "hedge"}
  BY LenProperties DEF CodeType, TInv, Insert, At
<1>2. /\ task'[t].at = "inserted" /\ task'[t].op = Len(rows) + 1
      /\ task'[t].kind = task[t].kind
  BY InsertTInv
<1>3. rows'[Len(rows) + 1].status = "starting"
  <2> DEFINE row == [status |-> "starting", stage |-> "pending"]
  <2>1. row \in Row /\ row.status = "starting" /\ rows' = Append(rows, row)
    BY SomeStages DEF Row, States, Settled, Insert
  <2> HIDE DEF row
  <2> QED  BY <1>1, <2>1, RowInserted
<1> QED  BY <1>1, <1>2, <1>3 DEF TableOk, StatusOk, Vacant, Rowless

\* A step of a coroutine changes no other one.
LEMMA OneMoves ==
  ASSUME TInv, NEW t \in Tasks, Request(t) \/ Step(t), NEW s \in Tasks, s # t
  PROVE  task'[s] = task[s]
<1>1. task \in [Tasks -> Coroutine]
  BY DEF CodeType, TInv
<1>2. \E new : task' = [task EXCEPT ![t] = new]
  <2>1. CASE Request(t) \/ Check(t) \/ Read(t) \/ Withdraw(t) \/ Refuse(t)
    BY <2>1 DEF Request, Check, Read, Withdraw, Refuse, Serve, Goto, Saw, Finish
  <2>2. CASE Insert(t) \/ Mark(t) \/ MarkHedge(t) \/ Call(t) \/ Deposit(t)
    BY <2>2 DEF Insert, Mark, MarkHedge, Call, Deposit, Goto
  <2>3. CASE Activate(t) \/ Promote(t) \/ Promoted(t) \/ Route(t) \/ Reread(t)
    BY <2>3 DEF Activate, Promote, Promoted, Route, Reread, Goto, Finish
  <2>4. CASE Stopping(t) \/ ReadShares(t) \/ WithdrawAll(t) \/ Close(t) \/ Closed(t)
    BY <2>4 DEF Stopping, ReadShares, WithdrawAll, Close, Closed, Goto, Finish
  <2>5. CASE LegacyClose(t) \/ Raise(t) \/ Condemn(t) \/ Condemned(t)
    BY <2>5 DEF LegacyClose, Raise, Condemn, Condemned, Goto, Finish
  <2> QED  BY <2>1, <2>2, <2>3, <2>4, <2>5 DEF Step
<1> QED  BY <1>1, <1>2

LEMMA NextTable == TInv /\ TableInv /\ [Next]_vars => TableInv'
<1> SUFFICES ASSUME TInv, TableInv, [Next]_vars, NEW s \in Tasks \ disturbed'
             PROVE  TableOk(task[s])'
  BY DEF TableInv
<1>1. TInv'
  BY NextTInv
<1>2. ASSUME NEW t \in Tasks, Request(t) \/ Step(t), History PROVE TableOk(task[s])'
  <2>1. CASE s # t
    BY <1>1, <1>2, <2>1, OneMoves, OthersTable
  <2>2. CASE s = t /\ ~Involved(task'[s])
    BY <1>1, <2>2, NotInvolved
  <2>3. CASE s = t /\ Involved(task'[s])
    <3>1. TableOk(task[t])
      BY <1>2, <2>3, Undisturbed DEF TableInv
    <3> QED  BY <1>2, <2>3, <3>1, LooksTable, CallsTable, EndsTable, MarkTable, WritesTable,
                InsertTable DEF Step
  <2> QED  BY <2>1, <2>2, <2>3
<1>3. CASE Crash
  <2>1. task'[s] = Idle
    BY <1>3, CrashTInv
  <2> QED  BY <2>1 DEF TableOk, StatusOk, Vacant, Idle, Rowless
<1>4. CASE Startup
  <2>1. task'[s] = Idle
    BY <1>4, StartupTInv
       DEF TInv, PcInv, Startup, Scan, ResumeStage, ResumeStatus, Resumed, Restore
  <2> QED  BY <2>1 DEF TableOk, StatusOk, Vacant, Idle, Rowless
<1>5. CASE UNCHANGED vars
  <2>1. Live' = Live
    BY <1>5 DEF vars, codeVars, Live, Ids
  <2> QED  BY <1>5, <2>1 DEF vars, codeVars, TableInv, TableOk, StatusOk, Vacant
<1> QED  BY <1>2, <1>3, <1>4, <1>5 DEF Next

LEMMA AlwaysTable == Spec => []TableInv
<1>1. Init => TableInv
  BY IdleKnows DEF Init, TableInv
<1> QED  BY <1>1, NextTable, AlwaysTInv, PTL DEF Spec
-----------------------------------------------------------------------------
(* The vault: deposited shares stay, withdrawn ones are gone, but for what *)
(* others withdraw and deposit.                                            *)

Funded(c) ==
    \/ c.kind = "start" /\ (c.at \in Deposited \/ (c.at = "deposit_pending" /\ c.left = 0))
    \/ c.kind = "hedge" /\ c.at \in {"insert", "inserted", "hedge_pending", "promoted"}

Asked(c) == c.kind = "stop" /\ c.at = "teardown_withdraw_pending" /\ c.left = 1

Drained(c) ==
    c.kind = "stop" /\ (c.at \in Withdrawn \/ (c.at = "teardown_withdraw_pending" /\ c.left = 0))

VaultOk(t) ==
    /\ Funded(task[t]) /\ t \notin emptied => shares > 0
    /\ Asked(task[t]) /\ t \notin filled => task[t].seen >= shares
    /\ Drained(task[t]) /\ t \notin filled => shares = 0

VaultInv == \A t \in Tasks : VaultOk(t)

\* What the steps of a coroutine add to its knowledge, history does the rest.
LEMMA VaultMoves ==
  ASSUME TInv, TInv', History, NEW t \in Tasks, VaultOk(t),
         Funded(task'[t]) => Funded(task[t]) \/ shares' > 0,
         Asked(task'[t]) =>
            task'[t].seen >= shares \/ (Asked(task[t]) /\ task'[t].seen = task[t].seen),
         Drained(task'[t]) =>
            \/ shares' = 0
            \/ Drained(task[t])
            \/ Asked(task[t]) /\ task[t].seen =< shares /\ shares' = shares - task[t].seen
  PROVE  VaultOk(t)'
<1>1. /\ shares \in Nat /\ shares' \in Nat /\ Funds \in Nat
      /\ task[t].seen \in Nat /\ task'[t].seen \in Nat
  BY LifecycleAssumption DEF CodeType, TInv, Coroutine
<1>2. Funded(task'[t]) /\ t \notin emptied' => shares' > 0
  <2>1. ASSUME Funded(task'[t]), t \notin emptied', shares' = 0 PROVE FALSE
    <3>1. task'[t].kind \in {"start", "hedge"}
      BY <2>1 DEF Funded
    <3>2. t \notin emptied /\ shares = 0
      BY <1>1, <2>1, <3>1 DEF History
    <3> QED  BY <2>1, <3>2 DEF VaultOk
  <2> QED  BY <1>1, <2>1
<1>3. ASSUME task'[t].kind = "stop", t \notin filled'
      PROVE  shares' = 0 \/ (t \notin filled /\ shares' =< shares)
  BY <1>1, <1>3 DEF History
<1>4. Asked(task'[t]) /\ t \notin filled' => task'[t].seen >= shares'
  <2> SUFFICES ASSUME Asked(task'[t]), t \notin filled' PROVE task'[t].seen >= shares'
    OBVIOUS
  <2>1. shares' = 0 \/ (t \notin filled /\ shares' =< shares)
    BY <1>3 DEF Asked
  <2>2. t \notin filled => task'[t].seen >= shares
    BY DEF VaultOk
  <2> QED  BY <1>1, <2>1, <2>2
<1>5. Drained(task'[t]) /\ t \notin filled' => shares' = 0
  <2> SUFFICES ASSUME Drained(task'[t]), t \notin filled' PROVE shares' = 0
    OBVIOUS
  <2>1. shares' = 0 \/ (t \notin filled /\ shares' =< shares)
    BY <1>3 DEF Drained
  <2>2. CASE t \notin filled /\ Drained(task[t]) /\ shares' =< shares
    BY <1>1, <2>2 DEF VaultOk
  <2>3. CASE /\ t \notin filled
             /\ Asked(task[t]) /\ task[t].seen =< shares /\ shares' = shares - task[t].seen
    BY <1>1, <2>3 DEF VaultOk
  <2> QED  BY <2>1, <2>2, <2>3
<1> QED  BY <1>2, <1>4, <1>5 DEF VaultOk, Funded, Asked, Drained

LEMMA VaultStays ==
  ASSUME TInv, TInv', History, NEW t \in Tasks, VaultOk(t), task'[t] = task[t]
  PROVE  VaultOk(t)'
BY VaultMoves

\* A coroutine that knows nothing of the vault.
LEMMA VaultFree ==
  ASSUME NEW t \in Tasks, ~Funded(task'[t]), ~Asked(task'[t]), ~Drained(task'[t])
  PROVE  VaultOk(t)'
BY DEF VaultOk, Funded, Asked, Drained

LEMMA VaultFinish ==
  ASSUME TInv, NEW t \in Tasks, Finish(t)
  PROVE  VaultOk(t)'
<1>1. task'[t] = Idle
  BY FinishDoes DEF TInv, CodeType
<1> QED  BY <1>1, VaultFree DEF Idle, Funded, Asked, Drained

LEMMA LooksVault ==
  ASSUME TInv, TInv', History, NEW t \in Tasks, VaultOk(t),
         \/ Request(t) \/ Check(t) \/ Read(t) \/ Route(t) \/ Reread(t) \/ Withdraw(t)
         \/ Refuse(t)
  PROVE  VaultOk(t)'
<1>1. /\ task[t] \in Coroutine /\ shares \in Nat /\ shares =< Funds
      /\ task \in [Tasks -> Coroutine] /\ rows \in Seq(Row) /\ Funds \in Nat
  BY LifecycleAssumption DEF CodeType, TInv
<1>2. ASSUME task'[t].at \in {"check", "read", "withdraw", "reread", "begin"}
      PROVE  VaultOk(t)'
  BY <1>2, VaultFree DEF Funded, Asked, Drained, Deposited, Withdrawn
<1>3. CASE Request(t)
  <2>1. \A kind \in Kinds, at \in {"check", "read"} : Serve(t, kind, at) => task'[t].at = at
    BY <1>1, ServeDoes DEF Spots
  <2>2. task'[t].at \in {"check", "read"}
    BY <1>3, <2>1 DEF Request, Kinds
  <2> QED  BY <1>2, <2>2
<1>4. CASE Check(t)
  <2>1. CASE task[t].kind = "start" /\ Goto(t, "insert", 0)
    <3>1. task'[t].at = "insert" /\ task'[t].kind = "start"
      BY <1>1, <2>1, GotoDoes DEF Spots
    <3> QED  BY <3>1, VaultFree DEF Funded, Asked, Drained, Deposited, Withdrawn
  <2>2. CASE Goto(t, "read", 0)
    <3>1. task'[t].at = "read"
      BY <1>1, <2>2, GotoDoes DEF Spots
    <3> QED  BY <1>2, <3>1
  <2> QED  BY <1>4, <2>1, <2>2, VaultFinish DEF Check, At
<1>5. CASE Read(t)
  <2>0. shares \in 0..Funds /\ 1..shares \subseteq 0..Funds
    BY <1>1
  <2>1. CASE task[t].kind = "hedge" /\ shares > 0 /\ Saw(t, "insert", shares)
    <3>1. task'[t].at = "insert" /\ task'[t].kind = "hedge" /\ shares' = shares
      BY <1>1, <1>5, <2>0, <2>1, SawDoes DEF Spots, Read, OnlyTasks
    <3> QED  BY <2>1, <3>1, VaultMoves DEF Asked, Drained
  <2>2. CASE \E n \in 0..Funds : Saw(t, "withdraw", n)
    <3>1. task'[t].at = "withdraw"
      BY <1>1, <2>2, SawDoes DEF Spots
    <3> QED  BY <1>2, <3>1
  <2> QED  BY <1>5, <2>0, <2>1, <2>2, VaultFinish DEF Read, At
<1>6. CASE Route(t) \/ Reread(t)
  <2>1. \A kind \in Kinds :
          task' = [task EXCEPT ![t].kind = kind, ![t].at = "begin", ![t].op = Latest]
             => task'[t].at = "begin"
    BY <1>1 DEF Coroutine
  <2>2. task' = [task EXCEPT ![t].at = "begin", ![t].op = Latest] => task'[t].at = "begin"
    BY <1>1 DEF Coroutine
  <2>3. Goto(t, "reread", 0) => task'[t].at = "reread"
    BY <1>1, GotoDoes DEF Spots
  <2> QED  BY <1>2, <1>6, <2>1, <2>2, <2>3, VaultFinish DEF Route, Reread, Kinds
<1> QED  BY <1>3, <1>4, <1>5, <1>6, VaultFinish DEF Withdraw, Refuse

\* Deposited stages come after the deposit, withdrawn ones after the withdrawal.
LEMMA StepsEarn ==
  ASSUME NEW s \in Steps
  PROVE  /\ s[2] \in Deposited => s[1] \in Deposited \cup {"deposit_pending"}
         /\ s[2] \in Withdrawn => s[1] \in Withdrawn \cup {"teardown_withdraw_pending"}
<1>1. CASE s \in CommonSteps
  BY <1>1 DEF CommonSteps, Deposited, Withdrawn
<1>2. CASE s \in SingleSteps
  BY <1>2 DEF SingleSteps, Deposited, Withdrawn
<1>3. CASE s \in DualSteps
  BY <1>3 DEF DualSteps, Deposited, Withdrawn
<1> QED  BY <1>1, <1>2, <1>3 DEF Steps

LEMMA MarkVault ==
  ASSUME TInv, TInv', History, NEW t \in Tasks, VaultOk(t), Mark(t)
  PROVE  VaultOk(t)'
<1>1. task \in [Tasks -> Coroutine]
  BY DEF CodeType, TInv
<1>2. PICK s \in Steps : s[1] = task[t].at /\ Goto(t, s[2], Calls(s[2]))
  BY DEF Mark
<1>3. /\ s[2] \in Spots /\ Calls(s[2]) \in 0..2
      /\ Calls("deposit_pending") = 1 /\ Calls("teardown_withdraw_pending") = 2
  BY SomeStages DEF Calls, Spots
<1>4. /\ task'[t].kind = task[t].kind /\ task'[t].at = s[2] /\ task'[t].left = Calls(s[2])
      /\ task[t].left = 0
  BY <1>1, <1>2, <1>3, GotoDoes DEF Mark
<1>5. Funded(task'[t]) => Funded(task[t])
  <2>1. task[t].kind # "hedge"
    BY DEF Mark
  <2> QED  BY <1>2, <1>3, <1>4, <2>1, StepsEarn DEF Funded
<1>6. ~Asked(task'[t])
  BY <1>3, <1>4 DEF Asked
<1>7. Drained(task'[t]) => Drained(task[t])
  BY <1>2, <1>3, <1>4, StepsEarn DEF Drained
<1> QED  BY <1>5, <1>6, <1>7, VaultMoves

LEMMA CallsVault ==
  ASSUME TInv, TInv', History, NEW t \in Tasks, VaultOk(t),
         \/ Call(t) \/ ReadShares(t) \/ Deposit(t) \/ WithdrawAll(t) \/ Raise(t)
  PROVE  VaultOk(t)'
<1>1. /\ task[t] \in Coroutine /\ shares \in Nat /\ Funds \in Nat \ {0}
      /\ task \in [Tasks -> Coroutine] /\ rows \in Seq(Row)
  BY LifecycleAssumption DEF CodeType, TInv
<1>2. ASSUME NEW at \in {task[t].at, "raised"}, Goto(t, at, 0)
      PROVE  /\ task'[t].at = at /\ task'[t].kind = task[t].kind /\ task'[t].left = 0
             /\ task'[t].seen = task[t].seen
  <2>1. at \in Spots
    BY <1>1 DEF Coroutine, Spots
  <2> QED  BY <1>1, <1>2, <2>1, GotoDoes
<1>3. CASE Call(t)
  <2>1. /\ task'[t].at = task[t].at /\ task'[t].kind = task[t].kind /\ task'[t].left = 0
        /\ task[t].at \notin {"deposit_pending", "teardown_withdraw_pending"}
    BY <1>2, <1>3 DEF Call
  <2> QED  BY <2>1, VaultMoves DEF Funded, Asked, Drained
<1>4. CASE ReadShares(t)
  <2>1. /\ task'[t].seen = shares /\ task'[t].left = (IF shares > 0 THEN 1 ELSE 0)
        /\ task'[t].kind = "stop" /\ shares' = shares /\ task'[t].at = task[t].at
        /\ task[t].at = "teardown_withdraw_pending"
    BY <1>1, <1>4 DEF ReadShares, At, OnlyTasks, Coroutine
  <2>2. ~Funded(task'[t])
    BY <2>1 DEF Funded
  <2>3. Drained(task'[t]) => shares' = 0
    BY <1>1, <2>1 DEF Drained, Withdrawn
  <2> QED  BY <1>1, <2>1, <2>2, <2>3, VaultMoves
<1>5. CASE Deposit(t)
  <2>1. task'[t].kind = "start" /\ shares' > 0
    BY <1>1, <1>2, <1>5 DEF Deposit, At
  <2> QED  BY <2>1, VaultMoves DEF Asked, Drained
<1>6. CASE WithdrawAll(t)
  <2>1. /\ task'[t].kind = "stop" /\ task'[t].left = 0 /\ Asked(task[t])
        /\ task[t].seen =< shares /\ shares' = shares - task[t].seen
    BY <1>2, <1>6 DEF WithdrawAll, At, Asked
  <2> QED  BY <2>1, VaultMoves DEF Funded, Asked
<1>7. CASE Raise(t)
  <2>1. CASE Goto(t, "raised", 0)
    BY <1>2, <2>1, VaultFree DEF Funded, Asked, Drained, Deposited, Withdrawn
  <2> QED  BY <1>7, <2>1, VaultFinish DEF Raise
<1> QED  BY <1>3, <1>4, <1>5, <1>6, <1>7

LEMMA WritesVault ==
  ASSUME TInv, TInv', History, NEW t \in Tasks, VaultOk(t),
         \/ Insert(t) \/ MarkHedge(t) \/ Promote(t) \/ Stopping(t) \/ Close(t) \/ Condemn(t)
  PROVE  VaultOk(t)'
<1>1. task \in [Tasks -> Coroutine]
  BY DEF CodeType, TInv
<1>2. CASE Insert(t)
  <2>1. task'[t].at = "inserted" /\ task'[t].kind = task[t].kind /\ task[t].at = "insert"
    BY <1>2, InsertTInv DEF Insert, At
  <2> QED  BY <2>1, VaultMoves DEF Funded, Asked, Drained, Deposited, Withdrawn
<1>3. CASE MarkHedge(t) \/ Promote(t)
  <2>1. \E at \in {"hedge_pending", "promoted"}, left \in 0..2 : Goto(t, at, left)
    BY <1>3 DEF MarkHedge, Promote, Calls
  <2>2. {"hedge_pending", "promoted"} \subseteq Spots
    BY SomeStages DEF Spots
  <2>3. task'[t].kind = "hedge" /\ task[t].kind = "hedge" /\ Funded(task[t])
    BY <1>1, <1>3, <2>1, <2>2, GotoDoes DEF MarkHedge, Promote, At, Funded
  <2> QED  BY <2>3, VaultMoves DEF Asked, Drained
<1>4. CASE Stopping(t) \/ Close(t) \/ Condemn(t)
  <2>1. PICK at \in {"stopping", "closing", "condemned"}, left \in 0..2 : Goto(t, at, left)
    BY <1>4 DEF Stopping, Close, Condemn
  <2>2. task'[t].at = at
    BY <1>1, <2>1, GotoDoes DEF Spots
  <2> QED  BY <2>2, VaultFree DEF Funded, Asked, Drained, Deposited, Withdrawn
<1> QED  BY <1>2, <1>3, <1>4

LEMMA EndsVault ==
  ASSUME TInv, NEW t \in Tasks,
         Activate(t) \/ Promoted(t) \/ Closed(t) \/ LegacyClose(t) \/ Condemned(t)
  PROVE  VaultOk(t)'
BY VaultFinish DEF Activate, Promoted, Closed, LegacyClose, Condemned

LEMMA NextVault == TInv /\ VaultInv /\ [Next]_vars => VaultInv'
<1> SUFFICES ASSUME TInv, VaultInv, [Next]_vars, NEW s \in Tasks PROVE VaultOk(s)'
  BY DEF VaultInv
<1>1. TInv' /\ VaultOk(s)
  BY NextTInv DEF VaultInv
<1>2. ASSUME NEW t \in Tasks, Request(t) \/ Step(t), History PROVE VaultOk(s)'
  <2>1. CASE s # t
    BY <1>1, <1>2, <2>1, OneMoves, VaultStays
  <2>2. CASE s = t
    BY <1>1, <1>2, <2>2, LooksVault, MarkVault, CallsVault, WritesVault, EndsVault DEF Step
  <2> QED  BY <2>1, <2>2
<1>3. ASSUME task'[s] = Idle PROVE VaultOk(s)'
  BY <1>3, VaultFree DEF Idle, Funded, Asked, Drained
<1>4. CASE Crash
  BY <1>3, <1>4, CrashTInv
<1>5. CASE Startup
  BY <1>3, <1>5, StartupTInv
     DEF TInv, PcInv, Startup, Scan, ResumeStage, ResumeStatus, Resumed, Restore
<1>6. CASE UNCHANGED vars
  BY <1>1, <1>6 DEF vars, codeVars, VaultOk, Funded, Asked, Drained
<1> QED  BY <1>2, <1>4, <1>5, <1>6 DEF Next

LEMMA AlwaysVault == Spec => []VaultInv
<1>1. Init => VaultInv
  BY DEF Init, VaultInv, VaultOk, Funded, Asked, Drained, Idle
<1> QED  BY <1>1, NextVault, AlwaysTInv, PTL DEF Spec
-----------------------------------------------------------------------------
(* The hub, as long as no coroutine has overtaken another one.             *)

Sole == \A i, j \in Live : i = j

Mirrors ==
    IF Live = {} THEN hub.state \in {"none", "failed"}
    ELSE hub = [op |-> Latest, state |-> rows[Latest].status]

\* A coroutine has written and has not written its last.
Midway(c) == c.at \notin Rowless \cup {"begin"}

\* Its status written for good, a row waits for its last stage.
Ended(c) == c.at = "closing" \/ (c.kind = "hedge" /\ c.at = "condemned")

\* From the first write on the hub names the row of the coroutine, and this
\* row is the live one until it is closed or has failed.
HubOk(c) ==
    /\ c.kind = "start" /\ Midway(c) => hub = [op |-> c.op, state |-> "starting"]
    /\ c.kind = "hedge" /\ c.at \in {"hedge_pending", "promoted"} => hub.op = c.op
    /\ c.kind \in {"stop", "legacy"} /\ Midway(c) => hub = [op |-> c.op, state |-> "stopping"]
    /\ Ended(c) => Live = {}

HubInv ==
    /\ Sole
    /\ \A t \in Tasks : HubOk(task[t])
    /\ (\A t \in Tasks : ~Midway(task[t])) => Mirrors

PartInv ==
    /\ disturbed # {} => parted
    /\ phase # "up" => hub = NoHub
    /\ phase = "up" /\ ~parted => HubInv

LEMMA NotMidway == \A c : ~Midway(c) => HubOk(c)
  BY DEF HubOk, Midway, Ended, Rowless

\* The table stays as it is.
LEMMA SameTable ==
  ASSUME rows' = rows
  PROVE  Live' = Live /\ Latest' = Latest /\ (Sole => Sole') /\ (hub' = hub /\ Mirrors => Mirrors')
<1>1. Live' = Live /\ Latest' = Latest
  BY DEF Live, Ids, Latest
<1> QED  BY <1>1 DEF Sole, Mirrors

LEMMA SoleLive ==
  ASSUME Sole, NEW i \in Live
  PROVE  Live = {i} /\ Latest = i
<1>1. Live = {i}
  BY DEF Sole
<1>2. i >= i
  BY DEF Live, Ids
<1> QED  BY <1>1, <1>2 DEF Latest, Max

\* Where a coroutine is with its row live, this is the one live row.
LEMMA OwnRow ==
  ASSUME TInv, Sole, NEW t \in Tasks, TableOk(task[t]), task[t].at \notin Rowless,
         ~Ended(task[t])
  PROVE  /\ Live = {task[t].op} /\ Latest = task[t].op /\ task[t].op \in Live
         /\ task[t].op \in Ids
<1>1. task[t].op \in Ids /\ task[t].kind \in Kinds
  BY HasRow
<1>2. rows[task[t].op].status \in LiveStates
  BY <1>1 DEF TableOk, StatusOk, Ended, LiveStates
<1>3. task[t].op \in Live
  BY <1>1, <1>2 DEF Live
<1> QED  BY <1>1, <1>3, SoleLive

LEMMA StageKeepsLive ==
  ASSUME rows \in Seq(Row), Sole, NEW i \in Ids, NEW stage \in Stages, SetStage(i, stage)
  PROVE  Sole' /\ Live' = Live /\ Latest' = Latest
         /\ \A j \in Ids : rows'[j].status = rows[j].status
<1>1. Ids' = Ids /\ \A j \in Ids : rows'[j].status = rows[j].status
  BY StageWritten
<1>2. Live' = Live
  BY <1>1 DEF Live
<1> QED  BY <1>1, <1>2 DEF Sole, Latest

\* The live row changes its status.
LEMMA LiveChanges ==
  ASSUME rows \in Seq(Row), Sole, NEW i \in Live,
         NEW status \in States, SetStatus(i, status)
  PROVE  /\ Sole' /\ rows'[i].status = status
         /\ status \in LiveStates => Live' = {i} /\ Latest' = i
         /\ status \notin LiveStates => Live' = {}
<1>1. i \in Ids /\ Ids \subseteq Int
  BY DEF Live, Ids
<1>2. Ids' = Ids /\ \A j \in Ids : rows'[j].status = IF j = i THEN status ELSE rows[j].status
  BY <1>1, StatusWritten
<1>3. Live = {i}
  BY SoleLive
<1>4. Live' = IF status \in LiveStates THEN {i} ELSE {}
  <2>1. Live' = {j \in Ids : rows'[j].status \in LiveStates}
    BY <1>2 DEF Live
  <2>2. \A j \in Ids : j # i => rows'[j].status \notin LiveStates
    BY <1>2, <1>3 DEF Live
  <2> QED  BY <1>1, <1>2, <2>1, <2>2
<1>5. Sole'
  BY <1>2, <1>4 DEF Sole
<1>6. status \in LiveStates => Latest' = i
  <2> SUFFICES ASSUME status \in LiveStates PROVE Latest' = i
    OBVIOUS
  <2>1. Live' = {i} /\ i >= i
    BY <1>1, <1>4
  <2> QED  BY <2>1 DEF Latest, Max
<1> QED  BY <1>1, <1>2, <1>4, <1>5, <1>6

(***************************************************************************)
(* The step of a coroutine, when it disturbs no other one.                 *)
(***************************************************************************)
LEMMA OthersHub ==
  ASSUME TInv', HubInv, History, disturbed' = {}, NEW s \in Tasks, task'[s] = task[s]
  PROVE  HubOk(task[s])' /\ (Midway(task[s]) => rows' = rows /\ hub' = hub)
<1>1. CASE ~Involved(task'[s])
  <2>1. ~Midway(task'[s])
    BY <1>1, NotInvolved DEF Midway
  <2> QED  BY <2>1 DEF HubOk, Midway, Ended, Rowless
<1>2. CASE Involved(task'[s])
  <2>1. rows' = rows /\ hub' = hub
    BY <1>2, Undisturbed
  <2> QED  BY <2>1, SameTable DEF HubInv, HubOk, Midway, Ended
<1> QED  BY <1>1, <1>2

LEMMA HubMoves ==
  ASSUME TInv', HubInv, History, disturbed' = {}, NEW t \in Tasks,
         \A s \in Tasks : s # t => task'[s] = task[s],
         Sole', HubOk(task[t])',
         \/ Midway(task'[t])
         \/ Mirrors'
         \/ ~Midway(task[t]) /\ rows' = rows /\ hub' = hub
  PROVE  HubInv'
<1>1. \A s \in Tasks : HubOk(task[s])'
  BY OthersHub
<1>2. ASSUME \A s \in Tasks : ~Midway(task'[s]) PROVE Mirrors'
  <2>1. CASE ~Midway(task[t]) /\ rows' = rows /\ hub' = hub
    <3>1. \A s \in Tasks : ~Midway(task[s])
      BY <1>2, <2>1
    <3> QED  BY <2>1, <3>1, SameTable DEF HubInv
  <2> QED  BY <1>2, <2>1
<1>3. (\A s \in Tasks : ~Midway(task[s]))' => Mirrors'
  BY <1>2 DEF Midway
<1> QED  BY <1>1, <1>3 DEF HubInv

\* A coroutine that has no row to write yet.
LEMMA LooksAt ==
  ASSUME TInv, NEW t \in Tasks,
         \/ Request(t) \/ Check(t) \/ Read(t) \/ Route(t) \/ Reread(t) \/ Withdraw(t)
         \/ Refuse(t)
  PROVE  /\ ~Midway(task[t]) /\ ~Midway(task'[t])
         /\ rows' = rows /\ hub' = hub
<1>1. /\ task[t] \in Coroutine /\ shares \in Nat /\ shares =< Funds
      /\ task \in [Tasks -> Coroutine] /\ rows \in Seq(Row) /\ Funds \in Nat
  BY LifecycleAssumption DEF CodeType, TInv
<1>2. rows' = rows /\ hub' = hub /\ ~Midway(task[t])
  BY DEF Request, Check, Read, Route, Reread, Withdraw, Refuse, OnlyTasks, At, Idle, Midway,
         Rowless
<1>3. CASE Finish(t)
  BY <1>1, <1>2, <1>3, FinishDoes DEF Idle, Midway, Rowless
<1>4. ASSUME task'[t].at \in Rowless \cup {"begin"} PROVE ~Midway(task'[t])
  BY <1>4 DEF Midway
<1>5. CASE Request(t)
  <2>1. \A kind \in Kinds, at \in {"check", "read"} : Serve(t, kind, at) => task'[t].at = at
    BY <1>1, ServeDoes DEF Spots
  <2>2. task'[t].at \in {"check", "read"}
    BY <1>5, <2>1 DEF Request, Kinds
  <2> QED  BY <1>2, <1>4, <2>2 DEF Rowless
<1>6. CASE Check(t) \/ Read(t)
  <2>1. shares \in 0..Funds /\ 1..shares \subseteq 0..Funds
    BY <1>1
  <2>2. ASSUME NEW at \in {"insert", "read", "withdraw"}, NEW n \in 0..Funds,
               Goto(t, at, 0) \/ Saw(t, at, n)
        PROVE  task'[t].at = at
    <3>1. at \in Spots /\ 0 \in 0..2
      BY DEF Spots
    <3>2. CASE Goto(t, at, 0)
      BY <1>1, <3>1, <3>2, GotoDoes
    <3>3. CASE Saw(t, at, n)
      BY <1>1, <3>1, <3>3, SawDoes
    <3> QED  BY <2>2, <3>2, <3>3
  <2>3. CASE Check(t)
    <3>1. 0 \in 0..Funds
      BY <1>1
    <3>2. Finish(t) \/ task'[t].at \in {"insert", "read", "withdraw"}
      BY <2>2, <2>3, <3>1 DEF Check
    <3> QED  BY <1>2, <1>3, <1>4, <3>2 DEF Rowless
  <2>4. CASE Read(t)
    <3>1. Finish(t) \/ task'[t].at \in {"insert", "read", "withdraw"}
      BY <2>1, <2>2, <2>4 DEF Read
    <3> QED  BY <1>2, <1>3, <1>4, <3>1 DEF Rowless
  <2> QED  BY <1>6, <2>3, <2>4
<1>7. CASE Route(t) \/ Reread(t)
  <2>1. \A kind \in Kinds :
          task' = [task EXCEPT ![t].kind = kind, ![t].at = "begin", ![t].op = Latest]
             => task'[t].at = "begin"
    BY <1>1 DEF Coroutine
  <2>2. task' = [task EXCEPT ![t].at = "begin", ![t].op = Latest] => task'[t].at = "begin"
    BY <1>1 DEF Coroutine
  <2>3. Goto(t, "reread", 0) => task'[t].at = "reread"
    BY <1>1, GotoDoes DEF Spots
  <2>4. Finish(t) \/ task'[t].at \in {"begin", "reread"}
    BY <1>7, <2>1, <2>2, <2>3 DEF Route, Reread, Kinds
  <2> QED  BY <1>2, <1>3, <1>4, <2>4 DEF Rowless
<1> QED  BY <1>2, <1>3, <1>5, <1>6, <1>7 DEF Withdraw, Refuse

LEMMA LooksHub ==
  ASSUME TInv, TInv', HubInv, History, disturbed' = {}, NEW t \in Tasks,
         \/ Request(t) \/ Check(t) \/ Read(t) \/ Route(t) \/ Reread(t) \/ Withdraw(t)
         \/ Refuse(t)
  PROVE  HubInv'
<1>1. /\ ~Midway(task[t]) /\ ~Midway(task'[t])
      /\ rows' = rows /\ hub' = hub
  BY LooksAt
<1>2. Sole'
  BY <1>1, SameTable DEF HubInv
<1>3. HubOk(task[t])'
  BY <1>1 DEF HubOk, Midway, Ended, Rowless
<1>4. \A s \in Tasks : s # t => task'[s] = task[s]
  BY OneMoves DEF Step
<1> QED  BY <1>1, <1>2, <1>3, <1>4, HubMoves

LEMMA CallsHub ==
  ASSUME TInv, TInv', HubInv, History, disturbed' = {}, NEW t \in Tasks, TableOk(task[t]),
         \/ Call(t) \/ ReadShares(t) \/ Deposit(t) \/ WithdrawAll(t) \/ Raise(t)
  PROVE  HubInv'
<1>1. /\ task[t] \in Coroutine /\ Placed(task[t])
      /\ task \in [Tasks -> Coroutine] /\ rows \in Seq(Row)
  BY DEF CodeType, TInv, PcInv
<1>2. rows' = rows /\ hub' = hub /\ task[t].left > 0
  BY DEF Call, ReadShares, Deposit, WithdrawAll, Raise, OnlyTasks
<1>3. Midway(task[t]) /\ ~Ended(task[t]) /\ HubOk(task[t]) /\ task[t].at # "promoted"
  <2>1. task[t].at \notin Rowless \cup {"begin", "promoted", "closing", "condemned"}
    BY <1>1, <1>2 DEF Placed, TableOk, StatusOk
  <2> QED  BY <2>1 DEF Midway, Ended, HubInv
<1>4. \A s \in Tasks : s # t => task'[s] = task[s]
  BY OneMoves DEF Step
<1>5. Live' = Live /\ Sole'
  BY <1>2, SameTable DEF HubInv
<1>6. ASSUME task'[t].at \in {task[t].at, "raised"}, task'[t].kind = task[t].kind,
             task'[t].op = task[t].op
      PROVE  HubInv'
  <2>1. Midway(task'[t])
    BY <1>3, <1>6 DEF Midway, Rowless
  <2>2. HubOk(task[t])'
    BY <1>2, <1>3, <1>5, <1>6 DEF HubOk, Midway, Ended
  <2> QED  BY <1>4, <1>5, <2>1, <2>2, HubMoves
<1>7. CASE \E at \in {task[t].at, "raised"} : Goto(t, at, 0)
  <2>1. PICK at \in {task[t].at, "raised"} : Goto(t, at, 0)
    BY <1>7
  <2>2. at \in Spots
    BY <1>1 DEF Coroutine, Spots
  <2> QED  BY <1>1, <1>6, <2>1, <2>2, GotoDoes
<1>8. CASE ReadShares(t)
  <2>1. /\ task'[t].at = task[t].at /\ task'[t].kind = task[t].kind
        /\ task'[t].op = task[t].op
    BY <1>1, <1>8 DEF ReadShares, Coroutine
  <2> QED  BY <1>6, <2>1
<1>9. CASE task[t].kind = "legacy" /\ Finish(t)
  <2>1. task'[t] = Idle
    BY <1>1, <1>9, FinishDoes
  <2>2. HubOk(task[t])'
    BY <2>1 DEF HubOk, Midway, Ended, Idle, Rowless
  <2>3. rows[task[t].op].status = "stopping" /\ hub = [op |-> task[t].op, state |-> "stopping"]
    BY <1>3, <1>9 DEF HubOk, TableOk, StatusOk, Midway, Ended
  <2>4. Live = {task[t].op} /\ Latest = task[t].op
    BY <1>3, OwnRow DEF Midway, HubInv
  <2>5. Mirrors'
    BY <1>2, <2>3, <2>4, SameTable DEF Mirrors
  <2> QED  BY <1>4, <1>5, <2>2, <2>5, HubMoves
<1> QED  BY <1>7, <1>8, <1>9 DEF Call, Deposit, WithdrawAll, Raise, At

LEMMA EndsHub ==
  ASSUME TInv, TInv', HubInv, History, disturbed' = {}, NEW t \in Tasks, TableOk(task[t]),
         Activate(t) \/ Promoted(t) \/ Closed(t) \/ LegacyClose(t) \/ Condemned(t)
  PROVE  HubInv'
<1>1. /\ rows \in Seq(Row) /\ hub \in [op : 0..MaxOps, state : States]
      /\ task \in [Tasks -> Coroutine]
  BY DEF TInv, CodeType
<1>2. task'[t] = Idle /\ Midway(task[t]) /\ task[t].at \notin Rowless
  <2>1. task'[t] = Idle
    BY <1>1, FinishDoes DEF Activate, Promoted, Closed, LegacyClose, Condemned
  <2> QED  BY <2>1 DEF Activate, Promoted, Closed, LegacyClose, Condemned, At, Midway, Rowless
<1>3. StatusOk(task[t]) /\ HubOk(task[t]) /\ Sole
  BY DEF HubInv, TableOk
<1>4. \A s \in Tasks : s # t => task'[s] = task[s]
  BY OneMoves DEF Step
<1>5. HubOk(task[t])'
  BY <1>2 DEF HubOk, Midway, Ended, Idle, Rowless
<1>6. SUFFICES Sole' /\ Mirrors'
  BY <1>4, <1>5, HubMoves
<1>7. task[t].op \in Ids
  BY <1>2, HasRow
<1>8. ~Ended(task[t]) => Live = {task[t].op} /\ Latest = task[t].op /\ task[t].op \in Live
  BY <1>2, <1>3, OwnRow
<1>9. CASE Activate(t)
  <2>1. /\ task[t].kind = "start" /\ task[t].at = "active"
        /\ SetStatus(task[t].op, "active") /\ hub' = [hub EXCEPT !.state = "active"]
    BY <1>9 DEF Activate, At
  <2>2. hub.op = task[t].op
    BY <1>2, <1>3, <2>1 DEF HubOk
  <2>3. task[t].op \in Live
    BY <1>8, <2>1 DEF Ended
  <2>4. /\ Sole' /\ Live' = {task[t].op} /\ Latest' = task[t].op
        /\ rows'[task[t].op].status = "active"
    BY <1>1, <1>3, <2>1, <2>3, LiveChanges DEF States, LiveStates
  <2>5. hub' = [op |-> task[t].op, state |-> "active"]
    BY <1>1, <2>1, <2>2
  <2> QED  BY <2>4, <2>5 DEF Mirrors
<1>10. CASE Promoted(t)
  <2>1. /\ task[t].kind = "hedge" /\ task[t].at = "promoted"
        /\ SetStage(task[t].op, "active") /\ hub' = [hub EXCEPT !.state = "active"]
    BY <1>10 DEF Promoted, At
  <2>2. hub.op = task[t].op /\ rows[task[t].op].status = "active"
    BY <1>2, <1>3, <2>1 DEF HubOk, StatusOk
  <2>3. Live = {task[t].op} /\ Latest = task[t].op
    BY <1>8, <2>1 DEF Ended
  <2>4. Sole' /\ Live' = Live /\ Latest' = Latest /\ rows'[task[t].op].status = "active"
    BY <1>1, <1>3, <1>7, <2>1, <2>2, StageKeepsLive, SomeStages DEF Settled
  <2>5. hub' = [op |-> task[t].op, state |-> "active"]
    BY <1>1, <2>1, <2>2
  <2> QED  BY <2>3, <2>4, <2>5 DEF Mirrors
<1>11. CASE Closed(t)
  <2>1. /\ task[t].at = "closing" /\ SetStage(task[t].op, "closed") /\ hub' = NoHub
    BY <1>11 DEF Closed, At
  <2>2. Live = {}
    BY <1>3, <2>1 DEF HubOk, Ended
  <2>3. Sole' /\ Live' = {}
    BY <1>1, <1>3, <1>7, <2>1, <2>2, StageKeepsLive, SomeStages DEF Settled
  <2> QED  BY <2>1, <2>3 DEF Mirrors, NoHub
<1>12. CASE LegacyClose(t)
  <2>1. /\ task[t].kind = "legacy" /\ task[t].at = "stopping"
        /\ SetStatus(task[t].op, "closed") /\ hub' = NoHub
    BY <1>12 DEF LegacyClose, At
  <2>2. task[t].op \in Live
    BY <1>8, <2>1 DEF Ended
  <2>3. Sole' /\ Live' = {}
    BY <1>1, <1>3, <2>1, <2>2, LiveChanges DEF States, LiveStates
  <2> QED  BY <2>1, <2>3 DEF Mirrors, NoHub
<1>13. CASE Condemned(t)
  <2>1. task[t].at = "condemned" /\ hub'.state = "failed"
    BY <1>13 DEF Condemned, At
  <2>2. CASE task[t].kind = "hedge"
    <3>1. Live = {} /\ SetStage(task[t].op, "failed")
      BY <1>3, <1>13, <2>1, <2>2 DEF HubOk, Ended, Condemned
    <3>2. Sole' /\ Live' = {}
      BY <1>1, <1>3, <1>7, <3>1, StageKeepsLive, SomeStages DEF Settled
    <3> QED  BY <2>1, <3>2 DEF Mirrors
  <2>3. CASE task[t].kind \in {"start", "stop"}
    <3>1. task[t].op \in Live /\ SetStatus(task[t].op, "failed")
      BY <1>8, <1>13, <2>1, <2>3 DEF Ended, Condemned
    <3>2. Sole' /\ Live' = {}
      BY <1>1, <1>3, <3>1, LiveChanges DEF States, LiveStates
    <3> QED  BY <2>1, <3>2 DEF Mirrors
  <2> QED  BY <1>13, <2>2, <2>3 DEF Condemned, At
<1> QED  BY <1>9, <1>10, <1>11, <1>12, <1>13

\* The hub of a stop that begins: another coroutine that has written and goes
\* on, undisturbed, can only be at the very same row.
LEMMA StoppingHub ==
  ASSUME TInv, TInv', HubInv, History, disturbed' = {}, NEW t \in Tasks,
         \A s \in Tasks : TableOk(task[s]), Stopping(t)
  PROVE  HubInv'
<1>1. /\ rows \in Seq(Row) /\ hub \in [op : 0..MaxOps, state : States]
      /\ task \in [Tasks -> Coroutine] /\ Sole
  BY DEF TInv, CodeType, HubInv
<1>2. /\ task[t].kind \in {"stop", "legacy"} /\ task[t].at = "begin"
      /\ SetStatus(task[t].op, "stopping") /\ hub' = [hub EXCEPT !.state = "stopping"]
      /\ \E left \in 0..2 : Goto(t, "stopping", left)
  BY DEF Stopping, At
<1>3. /\ task'[t].kind = task[t].kind /\ task'[t].at = "stopping"
      /\ task'[t].op = task[t].op
  BY <1>1, <1>2, GotoDoes DEF Spots
<1>4. Live = {task[t].op} /\ Latest = task[t].op /\ task[t].op \in Live
  BY <1>1, <1>2, OwnRow DEF Rowless, Ended
<1>5. Sole'
  BY <1>1, <1>2, <1>4, LiveChanges DEF States
<1>6. \A s \in Tasks : s # t => task'[s] = task[s]
  BY OneMoves DEF Step
<1>7. hub.op = task[t].op
  <2>1. CASE \A s \in Tasks : ~Midway(task[s])
    BY <1>4, <2>1 DEF HubInv, Mirrors
  <2>2. CASE \E s \in Tasks : Midway(task[s])
    <3>1. PICK s \in Tasks : Midway(task[s])
      BY <2>2
    <3>2. task'[s] = task[s] /\ hub' = hub
      BY <1>2, <1>6, <3>1, OthersHub DEF Midway
    <3>3. HubOk(task[s]) /\ task[s].at \notin Rowless /\ task[s].kind \in Kinds
      BY <1>1, <3>1 DEF HubInv, Midway, Coroutine
    <3>4. ~Ended(task[s])
      BY <1>4, <3>3 DEF HubOk
    <3>5. Latest = task[s].op
      BY <1>1, <3>3, <3>4, OwnRow
    <3>6. hub.state = "stopping"
      BY <1>1, <1>2, <3>2
    <3>7. rows'[task[t].op].status = "stopping" /\ rows' = rows
      BY <1>1, <1>2, <1>4, <3>1, <3>2, LiveChanges, OthersHub DEF States
    <3>8. task[s].kind \in {"stop", "legacy"}
      <4>1. rows[task[s].op].status = "stopping"
        BY <1>4, <3>5, <3>7
      <4>2. Placed(task[s]) /\ StatusOk(task[s])
        BY DEF TInv, PcInv, TableOk
      <4> QED  BY <3>1, <3>3, <4>1, <4>2
               DEF StatusOk, Placed, Places, Kinds, Midway, Idle, Rowless
    <3>9. hub = [op |-> task[s].op, state |-> "stopping"]
      BY <3>1, <3>3, <3>8 DEF HubOk
    <3> QED  BY <1>4, <3>5, <3>9
  <2> QED  BY <2>1, <2>2
<1>8. hub' = [op |-> task[t].op, state |-> "stopping"]
  BY <1>1, <1>2, <1>7
<1>9. HubOk(task[t])' /\ Midway(task'[t])
  BY <1>2, <1>3, <1>8 DEF HubOk, Midway, Ended, Rowless
<1> QED  BY <1>5, <1>6, <1>9, HubMoves

LEMMA MarkHub ==
  ASSUME TInv, TInv', HubInv, History, disturbed' = {}, NEW t \in Tasks, Mark(t)
  PROVE  HubInv'
<1>1. /\ rows \in Seq(Row) /\ task \in [Tasks -> Coroutine] /\ Sole /\ HubOk(task[t])
  BY DEF TInv, CodeType, HubInv
<1>2. PICK s \in Steps : /\ s[1] = task[t].at /\ SetStage(task[t].op, s[2])
                         /\ Goto(t, s[2], Calls(s[2])) /\ hub' = hub
                         /\ task[t].kind \in {"start", "stop"}
  BY DEF Mark
<1>3. s[2] \in Stages /\ s[2] \in Spots /\ Calls(s[2]) \in 0..2
  BY SomeStages DEF Calls, Spots
<1>4. task'[t].kind = task[t].kind /\ task'[t].at = s[2] /\ task'[t].op = task[t].op
  BY <1>1, <1>2, <1>3, GotoDoes
<1>5. (Boot \cup Tear) \cap (Rowless \cup {"begin", "promoted", "closing", "condemned"}) = {}
  BY DEF Boot, Tear, Deposited, Withdrawn, Rowless
<1>6. {s[1], s[2]} \subseteq Boot \cup Tear
  BY <1>2, StepsStay DEF Mark
<1>7. Midway(task[t]) /\ Midway(task'[t]) /\ ~Ended(task'[t]) /\ task[t].at \notin Rowless
  BY <1>2, <1>4, <1>5, <1>6 DEF Midway, Ended
<1>8. task[t].op \in Ids
  BY <1>7, HasRow
<1>9. Sole'
  BY <1>1, <1>2, <1>3, <1>8, StageKeepsLive
<1>10. HubOk(task[t])'
  BY <1>1, <1>2, <1>4, <1>7 DEF HubOk, Midway, Ended
<1>11. \A r \in Tasks : r # t => task'[r] = task[r]
  BY OneMoves DEF Step
<1> QED  BY <1>7, <1>9, <1>10, <1>11, HubMoves

LEMMA WritesHub ==
  ASSUME TInv, TInv', HubInv, History, disturbed' = {}, NEW t \in Tasks, TableOk(task[t]),
         MarkHedge(t) \/ Promote(t) \/ Close(t) \/ Condemn(t)
  PROVE  HubInv'
<1>1. /\ rows \in Seq(Row) /\ hub \in [op : 0..MaxOps, state : States]
      /\ task \in [Tasks -> Coroutine] /\ Sole /\ HubOk(task[t]) /\ StatusOk(task[t])
  BY DEF TInv, CodeType, HubInv, TableOk
<1>2. task[t].at \notin Rowless /\ Midway(task[t]) /\ ~Ended(task[t])
  BY DEF MarkHedge, Promote, Close, Condemn, At, Closing, Rowless, Midway, Ended
<1>3. task[t].op \in Ids /\ task[t].op \in Live
  BY <1>1, <1>2, HasRow, OwnRow
<1>4. \A s \in Tasks : s # t => task'[s] = task[s]
  BY OneMoves DEF Step
<1>5. SUFFICES Sole' /\ HubOk(task[t])' /\ Midway(task'[t])
  BY <1>4, HubMoves
<1>6. CASE MarkHedge(t)
  <2>1. /\ task[t].kind = "hedge" /\ SetStage(task[t].op, "hedge_pending")
        /\ hub' = [op |-> task[t].op, state |-> "starting"] /\ Goto(t, "hedge_pending", 1)
    BY <1>6 DEF MarkHedge, At, Calls
  <2>2. "hedge_pending" \in Stages /\ "hedge_pending" \in Spots
    BY SomeStages DEF Spots
  <2>3. /\ task'[t].kind = "hedge" /\ task'[t].at = "hedge_pending"
        /\ task'[t].op = task[t].op
    BY <1>1, <2>1, <2>2, GotoDoes
  <2>4. Sole'
    BY <1>1, <1>3, <2>1, <2>2, StageKeepsLive
  <2> QED  BY <2>1, <2>3, <2>4 DEF HubOk, Midway, Ended, Rowless
<1>7. CASE Promote(t)
  <2>1. /\ task[t].kind = "hedge" /\ task[t].at = "hedge_pending"
        /\ SetStatus(task[t].op, "active") /\ hub' = hub /\ Goto(t, "promoted", 0)
    BY <1>7 DEF Promote, At
  <2>2. /\ task'[t].kind = "hedge" /\ task'[t].at = "promoted" /\ task'[t].op = task[t].op
    BY <1>1, <2>1, GotoDoes DEF Spots
  <2>3. Sole'
    BY <1>1, <1>3, <2>1, LiveChanges DEF States
  <2> QED  BY <1>1, <2>1, <2>2, <2>3 DEF HubOk, Midway, Ended, Rowless
<1>8. CASE Close(t)
  <2>1. /\ task[t].kind = "stop" /\ SetStatus(task[t].op, "closed") /\ hub' = hub
        /\ Goto(t, "closing", 0)
    BY <1>8 DEF Close, At
  <2>2. /\ task'[t].kind = "stop" /\ task'[t].at = "closing" /\ task'[t].op = task[t].op
    BY <1>1, <2>1, GotoDoes DEF Spots
  <2>3. Sole' /\ Live' = {}
    BY <1>1, <1>3, <2>1, LiveChanges DEF States, LiveStates
  <2>4. hub = [op |-> task[t].op, state |-> "stopping"]
    BY <1>1, <1>2, <2>1 DEF HubOk
  <2> QED  BY <2>1, <2>2, <2>3, <2>4 DEF HubOk, Midway, Ended, Rowless
<1>9. CASE Condemn(t)
  <2>1. /\ task[t].kind \in {"start", "stop", "hedge"} /\ hub' = hub /\ Goto(t, "condemned", 0)
    BY <1>9 DEF Condemn, At
  <2>2. /\ task'[t].kind = task[t].kind /\ task'[t].at = "condemned"
        /\ task'[t].op = task[t].op
    BY <1>1, <2>1, GotoDoes DEF Spots
  <2>3. Midway(task'[t])
    BY <2>2 DEF Midway, Rowless
  <2>4. CASE task[t].kind = "hedge"
    <3>1. Sole' /\ Live' = {}
      BY <1>1, <1>3, <1>9, <2>4, LiveChanges DEF States, LiveStates, Condemn
    <3> QED  BY <2>2, <2>3, <2>4, <3>1 DEF HubOk
  <2>5. CASE task[t].kind \in {"start", "stop"}
    <3>1. Sole'
      BY <1>1, <1>3, <1>9, <2>5, StageKeepsLive, SomeStages DEF Condemn, Settled
    <3>2. hub = [op |-> task[t].op,
                 state |-> IF task[t].kind = "start" THEN "starting" ELSE "stopping"]
      BY <1>1, <1>2, <2>5 DEF HubOk
    <3> QED  BY <2>1, <2>2, <2>3, <2>5, <3>1, <3>2 DEF HubOk, Ended
  <2> QED  BY <2>1, <2>4, <2>5
<1> QED  BY <1>6, <1>7, <1>8, <1>9

LEMMA InsertHub ==
  ASSUME TInv, TInv', HubInv, History, disturbed' = {}, NEW t \in Tasks, TableOk(task[t]),
         Insert(t)
  PROVE  HubInv'
<1>1. /\ rows \in Seq(Row) /\ Len(rows) \in Nat /\ task[t].kind \in {"start", "hedge"}
      /\ task[t].at = "insert"
  BY LenProperties DEF TInv, CodeType, Insert, At
<1>2. /\ task'[t].at = "inserted" /\ task'[t].op = Len(rows) + 1
      /\ task'[t].kind = task[t].kind
  BY InsertTInv
<1>3. Live = {}
  BY <1>1 DEF TableOk, Vacant
<1>4. /\ Ids' = Ids \cup {Len(rows) + 1} /\ \A i \in Ids : rows'[i] = rows[i]
  <2> DEFINE row == [status |-> "starting", stage |-> "pending"]
  <2>1. row \in Row /\ rows' = Append(rows, row)
    BY SomeStages DEF Row, States, Settled, Insert
  <2> HIDE DEF row
  <2> QED  BY <1>1, <2>1, RowInserted
<1>5. Sole'
  <2>1. Live' = {i \in Ids' : rows'[i].status \in LiveStates}
    BY DEF Live
  <2>2. \A i \in Ids : rows[i].status \notin LiveStates
    BY <1>3 DEF Live
  <2>3. \A i \in Live' : i = Len(rows) + 1
    BY <1>4, <2>1, <2>2
  <2> QED  BY <2>3 DEF Sole
<1>6. HubOk(task[t])' /\ Midway(task'[t])
  <2>1. task[t].kind = "start" => hub' = [op |-> Len(rows) + 1, state |-> "starting"]
    BY DEF Insert
  <2> QED  BY <1>1, <1>2, <2>1 DEF HubOk, Midway, Ended, Rowless
<1>7. \A s \in Tasks : s # t => task'[s] = task[s]
  BY OneMoves DEF Step
<1> QED  BY <1>5, <1>6, <1>7, HubMoves

LEMMA StepsServe ==
  ASSUME NEW t \in Tasks, Request(t) \/ Step(t)
  PROVE  phase = "up" /\ phase' = "up"
<1>1. CASE Request(t) \/ Check(t) \/ Read(t) \/ Withdraw(t) \/ Refuse(t)
  BY <1>1 DEF Request, Check, Read, Withdraw, Refuse, At, OnlyTasks, Process
<1>2. CASE Insert(t) \/ Mark(t) \/ MarkHedge(t) \/ Call(t) \/ Deposit(t)
  BY <1>2 DEF Insert, Mark, MarkHedge, Call, Deposit, At, OnlyTasks, Process
<1>3. CASE Activate(t) \/ Promote(t) \/ Promoted(t) \/ Route(t) \/ Reread(t)
  BY <1>3 DEF Activate, Promote, Promoted, Route, Reread, At, OnlyTasks, Process
<1>4. CASE Stopping(t) \/ ReadShares(t) \/ WithdrawAll(t) \/ Close(t) \/ Closed(t)
  BY <1>4 DEF Stopping, ReadShares, WithdrawAll, Close, Closed, At, OnlyTasks, Process
<1>5. CASE LegacyClose(t) \/ Raise(t) \/ Condemn(t) \/ Condemned(t)
  BY <1>5 DEF LegacyClose, Raise, Condemn, Condemned, At, Process
<1> QED  BY <1>1, <1>2, <1>3, <1>4, <1>5 DEF Step

\* Whatever the hub had lost, a start that finds one live row restores it.
LEMMA RestoreHub ==
  ASSUME TInv, TInv', hub = NoHub, Restore, Sole
  PROVE  HubInv'
<1>1. rows' = rows /\ task' = task /\ \A t \in Tasks : task[t] = Idle
  BY DEF Restore, TInv, PcInv
<1>2. Live' = Live /\ Latest' = Latest /\ Sole'
  BY <1>1, SameTable
<1>3. Mirrors'
  BY <1>1, <1>2 DEF Restore, Mirrors, NoHub
<1>4. \A t \in Tasks : HubOk(task[t])'
  BY <1>1 DEF HubOk, Midway, Ended, Idle, Rowless
<1> QED  BY <1>2, <1>3, <1>4 DEF HubInv

LEMMA NextPart == TInv /\ TableInv /\ PartInv /\ [Next]_vars => PartInv'
<1> SUFFICES ASSUME TInv, TableInv, PartInv, [Next]_vars PROVE PartInv'
  OBVIOUS
<1>1. TInv'
  BY NextTInv
<1>2. ASSUME NEW t \in Tasks, Request(t) \/ Step(t), History PROVE PartInv'
  <2>1. phase = "up" /\ phase' = "up"
    BY <1>2, StepsServe
  <2>2. parted' = (parted \/ disturbed' # {})
    BY <1>2, <2>1 DEF History
  <2>3. ASSUME ~parted' PROVE HubInv'
    <3>1. ~parted /\ disturbed' = {} /\ disturbed = {}
      BY <2>2, <2>3 DEF PartInv
    <3>2. HubInv /\ \A s \in Tasks : TableOk(task[s])
      BY <2>1, <3>1 DEF PartInv, TableInv
    <3>3. CASE \/ Request(t) \/ Check(t) \/ Read(t) \/ Route(t) \/ Reread(t)
               \/ Withdraw(t) \/ Refuse(t)
      BY <1>1, <1>2, <3>1, <3>2, <3>3, LooksHub
    <3>4. CASE Call(t) \/ ReadShares(t) \/ Deposit(t) \/ WithdrawAll(t) \/ Raise(t)
      BY <1>1, <1>2, <3>1, <3>2, <3>4, CallsHub
    <3>5. CASE Activate(t) \/ Promoted(t) \/ Closed(t) \/ LegacyClose(t) \/ Condemned(t)
      BY <1>1, <1>2, <3>1, <3>2, <3>5, EndsHub
    <3>6. CASE Stopping(t) \/ Mark(t) \/ Insert(t)
      BY <1>1, <1>2, <3>1, <3>2, <3>6, StoppingHub, MarkHub, InsertHub
    <3>7. CASE MarkHedge(t) \/ Promote(t) \/ Close(t) \/ Condemn(t)
      BY <1>1, <1>2, <3>1, <3>2, <3>7, WritesHub
    <3> QED  BY <1>2, <3>3, <3>4, <3>5, <3>6, <3>7 DEF Step
  <2> QED  BY <2>1, <2>2, <2>3 DEF PartInv
<1>3. CASE Crash /\ History
  <2>1. phase' = "scan" /\ hub' = NoHub
    BY <1>3 DEF Crash
  <2>2. parted' = (parted \/ disturbed' # {})
    BY <1>3, <2>1 DEF History
  <2> QED  BY <2>1, <2>2 DEF PartInv
<1>4. CASE Startup /\ History
  <2>1. phase # "up" /\ hub = NoHub
    BY <1>4 DEF PartInv, Startup, Scan, ResumeStage, ResumeStatus, Resumed, Restore
  <2>2. CASE Restore
    <3>1. /\ phase = "restore" /\ phase' = "up"
          /\ parted' = \E i, j \in Live : i # j
      BY <1>4, <2>2 DEF Restore, History
    <3>2. disturbed' = {}
      <4>1. \A t \in Tasks : task'[t] = Idle
        BY <2>1, <2>2 DEF Restore, TInv, PcInv
      <4> QED  BY <1>4, <4>1 DEF History, Involved, Idle
    <3>3. ~parted' => Sole
      BY <3>1 DEF Sole
    <3> QED  BY <1>1, <2>1, <2>2, <3>1, <3>2, <3>3, RestoreHub DEF PartInv
  <2>3. CASE ~Restore
    <3>1. phase' # "up" /\ hub' = hub
      BY <1>4, <2>3 DEF Startup, Scan, ResumeStage, ResumeStatus, Resumed
    <3>2. parted' = (parted \/ disturbed' # {})
      BY <1>4, <3>1 DEF History
    <3> QED  BY <2>1, <3>1, <3>2 DEF PartInv
  <2> QED  BY <2>2, <2>3
<1>5. CASE UNCHANGED vars
  <2>1. HubInv => HubInv'
    <3>1. rows' = rows /\ hub' = hub /\ task' = task
      BY <1>5 DEF vars, codeVars
    <3>2. Live' = Live /\ (Sole => Sole') /\ (Mirrors => Mirrors')
      BY <3>1, SameTable
    <3> QED  BY <3>1, <3>2 DEF HubInv, HubOk, Midway, Ended
  <2> QED  BY <1>5, <2>1 DEF PartInv, vars, codeVars
<1> QED  BY <1>2, <1>3, <1>4, <1>5 DEF Next

LEMMA AlwaysPart == Spec => []PartInv
<1>1. Init => PartInv
  <2> SUFFICES ASSUME Init PROVE PartInv
    OBVIOUS
  <2>1. Live = {} /\ \A t \in Tasks : task[t] = Idle
    BY DEF Init, Live, Ids
  <2>2. Sole /\ Mirrors
    BY <2>1 DEF Init, Sole, Mirrors, NoHub
  <2>3. \A t \in Tasks : HubOk(task[t])
    BY <2>1 DEF HubOk, Midway, Ended, Idle, Rowless
  <2> QED  BY <2>2, <2>3 DEF PartInv, HubInv, Init
<1> QED  BY <1>1, NextPart, AlwaysTInv, AlwaysTable, PTL DEF Spec

(* Between requests the hub names the live row with its status, and none   *)
(* or failed when no row is live: whatever crashed, raised or was refused, *)
(* and whatever else was asked for at the same time, unless a request      *)
(* wrote in the middle of another one; and then until the next restart     *)
(* that finds at most one live row.                                        *)
THEOREM HubMirrors == Spec => []HubMirrorsRow
<1>1. PartInv => HubMirrorsRow
  <2> SUFFICES ASSUME PartInv, Resting, ~parted PROVE Mirrors
    BY DEF HubMirrorsRow, Mirrors
  <2>1. HubInv /\ \A t \in Tasks : ~Midway(task[t])
    BY DEF PartInv, Resting, Midway, Idle, Rowless
  <2> QED  BY <2>1 DEF HubInv
<1> QED  BY <1>1, AlwaysPart, PTL
-----------------------------------------------------------------------------
(* What a step makes of the table.                                         *)

Contended == {task[t].op : t \in disturbed}

\* The status of row i may become `to`: as the code has it, where no other
\* coroutine has interfered.
MayBecome(i, to) ==
    LET from == rows[i].status
    IN \/ from = to
       \/ /\ to = "active"
          /\ from = "starting" \/ i \in Contended
          /\ shares > 0 \/ \E t \in emptied : OwnStep(t, i)
       \/ to = "stopping" /\ (from \in LiveStates \/ i \in Contended)
       \/ /\ to = "closed"
          /\ from = "stopping" \/ i \in Contended
          /\ \/ rows[i].stage = "pending"
             \/ shares = 0
             \/ \E t \in filled : OwnStep(t, i)
             \/ \E t \in disturbed : task[t].kind = "legacy" /\ OwnStep(t, i)
       \/ to = "failed"

SameStatuses == Ids' = Ids /\ \A j \in Ids : rows'[j].status = rows[j].status
OneChanges == \E i \in Ids, to \in States : SetStatus(i, to) /\ MayBecome(i, to)
OneBegins ==
    /\ Live = {} \/ \E t \in disturbed : task[t].at = "insert"
    /\ Len(rows) < MaxOps
    /\ rows' = Append(rows, [status |-> "starting", stage |-> "pending"])

\* The rows in flight are there.
LEMMA SmallestToDo ==
  ASSUME TInv, todo # {}
  PROVE  Min(todo) \in Ids
<1>1. todo \subseteq Ids
  BY DEF TInv, CodeType
<1>2. \E x \in todo : \A y \in todo : x =< y
  BY <1>1, SmallestExists DEF Ids
<1> QED  BY <1>1, <1>2 DEF Min

TablesInv == TInv /\ TableInv /\ VaultInv

LEMMA Activates ==
  ASSUME TablesInv, NEW t \in Tasks, Activate(t) \/ Promote(t)
  PROVE  OneChanges
<1>1. /\ task[t].at \notin Rowless \cup {"begin", "closing", "promoted", "condemned"}
      /\ SetStatus(task[t].op, "active")
      /\ Funded(task[t]) /\ task[t].kind \in {"start", "hedge"}
  BY DEF Activate, Promote, At, Rowless, Funded, Deposited
<1>2. task[t].op \in Ids /\ "active" \in States
  BY <1>1, HasRow DEF States, TablesInv
<1>3. OwnStep(t, task[t].op)
  <2>1. task[t] \in Coroutine /\ task \in [Tasks -> Coroutine] /\ rows \in Seq(Row)
    BY DEF TablesInv, TInv, CodeType
  <2>2. CASE Activate(t)
    BY <1>1, <2>1, <2>2, FinishDoes DEF Activate, OwnStep, Idle, Rowless
  <2>3. CASE Promote(t)
    <3>1. task'[t].at = "promoted"
      BY <2>1, <2>3, GotoDoes DEF Promote, Spots
    <3> QED  BY <1>1, <3>1 DEF OwnStep
  <2> QED  BY <2>2, <2>3
<1>4. rows[task[t].op].status = "starting" \/ t \in disturbed
  BY <1>1 DEF TablesInv, TableInv, TableOk, StatusOk
<1>5. shares > 0 \/ t \in emptied
  BY <1>1 DEF TablesInv, VaultInv, VaultOk
<1>6. MayBecome(task[t].op, "active")
  BY <1>3, <1>4, <1>5 DEF MayBecome, Contended
<1> QED  BY <1>1, <1>2, <1>6 DEF OneChanges

LEMMA Stops ==
  ASSUME TablesInv, NEW t \in Tasks, Stopping(t)
  PROVE  OneChanges
<1>1. /\ task[t].at = "begin" /\ task[t].at \notin Rowless /\ SetStatus(task[t].op, "stopping")
      /\ task[t].kind \in {"stop", "legacy"}
  BY DEF Stopping, At, Rowless
<1>2. task[t].op \in Ids /\ "stopping" \in States
  BY <1>1, HasRow DEF States, TablesInv
<1>3. rows[task[t].op].status \in LiveStates \/ t \in disturbed
  BY <1>1 DEF TablesInv, TableInv, TableOk, StatusOk
<1>4. MayBecome(task[t].op, "stopping")
  BY <1>3 DEF MayBecome, Contended
<1> QED  BY <1>1, <1>2, <1>4 DEF OneChanges

LEMMA Closes ==
  ASSUME TablesInv, NEW t \in Tasks, Close(t) \/ LegacyClose(t)
  PROVE  OneChanges
<1>1. /\ SetStatus(task[t].op, "closed")
      /\ \/ task[t].kind = "stop" /\ task[t].at \in Withdrawn
         \/ task[t].kind = "legacy" /\ task[t].at = "stopping"
  BY DEF Close, LegacyClose, At, Closing, Withdrawn
<1>2. task[t].at \notin Rowless \cup {"begin", "closing"}
  BY <1>1 DEF Rowless, Withdrawn
<1>3. task[t].op \in Ids /\ "closed" \in States
  BY <1>2, HasRow DEF States, TablesInv
<1>4. OwnStep(t, task[t].op)
  <2>1. task[t] \in Coroutine /\ task \in [Tasks -> Coroutine] /\ rows \in Seq(Row)
    BY DEF TablesInv, TInv, CodeType
  <2>2. CASE LegacyClose(t)
    BY <1>2, <2>1, <2>2, FinishDoes DEF LegacyClose, OwnStep, Idle, Rowless
  <2>3. CASE Close(t)
    <3>1. task'[t].at = "closing"
      BY <2>1, <2>3, GotoDoes DEF Close, Spots
    <3> QED  BY <1>2, <3>1 DEF OwnStep
  <2> QED  BY <2>2, <2>3
<1>5. /\ rows[task[t].op].status = "stopping" \/ t \in disturbed
      /\ task[t].kind = "legacy" => rows[task[t].op].stage = "pending" \/ t \in disturbed
  BY <1>1, <1>2 DEF TablesInv, TableInv, TableOk, StatusOk
<1>6. task[t].kind = "stop" => shares = 0 \/ t \in filled
  BY <1>1 DEF TablesInv, VaultInv, VaultOk, Drained
<1>7. MayBecome(task[t].op, "closed")
  BY <1>1, <1>4, <1>5, <1>6 DEF MayBecome, Contended
<1> QED  BY <1>1, <1>3, <1>7 DEF OneChanges

LEMMA TableSteps ==
  ASSUME TablesInv, [Next]_vars
  PROVE  SameStatuses \/ OneChanges \/ OneBegins
<1>1. rows \in Seq(Row) /\ TInv
  BY DEF TablesInv, TInv, CodeType
<1>2. ASSUME rows' = rows PROVE SameStatuses
  BY <1>2 DEF SameStatuses, Ids
<1>3. ASSUME NEW i \in Ids, NEW stage \in Stages, SetStage(i, stage) PROVE SameStatuses
  BY <1>1, <1>3, StageWritten DEF SameStatuses
<1>4. ASSUME NEW i \in Ids, SetStatus(i, "failed") PROVE OneChanges
  BY <1>4 DEF OneChanges, MayBecome, States
<1>5. ASSUME NEW t \in Tasks,
             \/ Request(t) \/ Check(t) \/ Read(t) \/ Withdraw(t) \/ Refuse(t) \/ Call(t)
             \/ Deposit(t) \/ Route(t) \/ Reread(t) \/ ReadShares(t) \/ WithdrawAll(t)
             \/ Raise(t)
      PROVE  SameStatuses
  BY <1>2, <1>5 DEF Request, Check, Read, Withdraw, Refuse, Call, Deposit, Route, Reread,
                    ReadShares, WithdrawAll, Raise, OnlyTasks
<1>6. ASSUME NEW t \in Tasks, Insert(t) PROVE OneBegins
  <2>1. Live = {} \/ t \in disturbed
    BY <1>6 DEF Insert, At, TablesInv, TableInv, TableOk, Vacant
  <2> QED  BY <1>6, <2>1 DEF Insert, At, OneBegins
<1>7. ASSUME NEW t \in Tasks, Mark(t) PROVE SameStatuses
  <2>1. PICK s \in Steps : s[1] = task[t].at /\ SetStage(task[t].op, s[2])
    BY <1>7 DEF Mark
  <2>2. task[t].at \notin Rowless
    BY <2>1, StepsStay DEF Boot, Tear, Deposited, Withdrawn, Rowless
  <2> QED  BY <1>1, <1>3, <2>1, <2>2, HasRow, SomeStages
<1>8. ASSUME NEW t \in Tasks, MarkHedge(t) \/ Promoted(t) \/ Closed(t) PROVE SameStatuses
  <2>1. task[t].at \notin Rowless
    BY <1>8 DEF MarkHedge, Promoted, Closed, At, Rowless
  <2>2. \E stage \in Stages : SetStage(task[t].op, stage)
    BY <1>8, SomeStages DEF MarkHedge, Promoted, Closed, Settled
  <2> QED  BY <1>1, <1>3, <2>1, <2>2, HasRow
<1>9. ASSUME NEW t \in Tasks, Condemn(t) \/ Condemned(t) PROVE SameStatuses \/ OneChanges
  <2>1. /\ task[t].at \notin Rowless
        /\ SetStatus(task[t].op, "failed") \/ SetStage(task[t].op, "failed")
    BY <1>9 DEF Condemn, Condemned, At, Rowless
  <2>2. task[t].op \in Ids
    BY <1>1, <2>1, HasRow
  <2> QED  BY <1>3, <1>4, <2>1, <2>2, SomeStages DEF Settled
<1>10. ASSUME Startup PROVE SameStatuses \/ OneChanges
  <2>1. CASE ResumeStage
    BY <1>1, <1>3, <2>1, SmallestToDo, SomeStages DEF ResumeStage, Settled
  <2>2. CASE ResumeStatus
    BY <1>1, <1>4, <2>2, SmallestToDo DEF ResumeStatus
  <2> QED  BY <1>2, <1>10, <2>1, <2>2 DEF Startup, Scan, Resumed, Restore
<1>11. CASE Crash \/ UNCHANGED vars
  BY <1>2, <1>11 DEF Crash, vars, codeVars
<1> QED  BY <1>5, <1>6, <1>7, <1>8, <1>9, <1>10, <1>11, Activates, Stops, Closes DEF Next, Step

\* What a step makes of the row it inserts and of the others.
LEMMA RowBegins ==
  ASSUME TInv, OneBegins
  PROVE  /\ Ids' = Ids \cup {Len(rows) + 1} /\ Len(rows) + 1 \notin Ids
         /\ rows'[Len(rows) + 1].status = "starting"
         /\ \A i \in Ids : rows'[i] = rows[i]
<1> DEFINE row == [status |-> "starting", stage |-> "pending"]
<1>1. row \in Row /\ row.status = "starting" /\ rows' = Append(rows, row) /\ rows \in Seq(Row)
  BY SomeStages DEF Row, States, Settled, OneBegins, TInv, CodeType
<1> HIDE DEF row
<1> QED  BY <1>1, RowInserted

LEMMA StatusMoves ==
  ASSUME TablesInv, [Next]_vars, NEW i \in Ids, rows'[i].status # rows[i].status
  PROVE  MayBecome(i, rows'[i].status)
<1>1. rows \in Seq(Row) /\ TInv
  BY DEF TablesInv, TInv, CodeType
<1>2. CASE OneChanges
  <2>1. PICK j \in Ids, to \in States : SetStatus(j, to) /\ MayBecome(j, to)
    BY <1>2 DEF OneChanges
  <2>2. rows'[i].status = IF i = j THEN to ELSE rows[i].status
    BY <1>1, <2>1, StatusWritten
  <2> QED  BY <2>1, <2>2
<1>3. CASE OneBegins
  BY <1>1, <1>3, RowBegins
<1> QED  BY <1>2, <1>3, TableSteps DEF SameStatuses

LEMMA AlwaysTables == Spec => []TablesInv
<1> QED  BY AlwaysTInv, AlwaysTable, AlwaysVault, PTL DEF TablesInv

(* An operation becomes ACTIVE only with shares in the vault: a deposit    *)
(* that was sent has its receipt by then, open_shorts has read a position; *)
(* and if the vault is empty all the same, another request has emptied it  *)
(* since, beside the one that activates.                                   *)
THEOREM ActiveOnDeposit == Spec => ActivatedOnDeposit
<1>1. ASSUME TablesInv, [Next]_vars
      PROVE  [\A i \in Ids : rows'[i].status = "active" /\ rows[i].status # "active"
                                => shares > 0 \/ \E t \in emptied : OwnStep(t, i)]_vars
  BY <1>1, StatusMoves DEF MayBecome
<1> QED  BY <1>1, AlwaysTables, PTL DEF Spec, ActivatedOnDeposit

(* An operation that went through bootstrap is closed only once the vault  *)
(* is empty, however its teardown was cut short and taken up again: shares *)
(* that are left came in by another request during the teardown. A legacy  *)
(* stop closes such an operation only when it was overtaken.               *)
THEOREM ClosedWithdrawn == Spec => ClosedIsWithdrawn
<1>1. ASSUME TablesInv, [Next]_vars
      PROVE  [\A i \in Ids : rows'[i].status = "closed" /\ rows[i].status # "closed"
                             /\ rows[i].stage # "pending"
                                => \/ shares = 0
                                   \/ \E t \in filled : OwnStep(t, i)
                                   \/ \E t \in disturbed :
                                         task[t].kind = "legacy" /\ OwnStep(t, i)]_vars
  BY <1>1, StatusMoves DEF MayBecome
<1> QED  BY <1>1, AlwaysTables, PTL DEF Spec, ClosedIsWithdrawn
-----------------------------------------------------------------------------
(* The table implements the abstract operation.                            *)

\* A row that is there has been started.
Begun == \A i \in Ids : rows[i].status # "none"

LEMMA NextBegun == TablesInv /\ Begun /\ [Next]_vars => Begun'
<1> SUFFICES ASSUME TablesInv, Begun, [Next]_vars PROVE Begun'
  OBVIOUS
<1>1. TInv
  BY DEF TablesInv
<1>2. CASE OneBegins
  BY <1>1, <1>2, RowBegins DEF Begun
<1>3. CASE SameStatuses \/ OneChanges
  <2>1. Ids' = Ids
    BY <1>1, <1>3, StatusWritten DEF SameStatuses, OneChanges, TInv, CodeType
  <2>2. ASSUME NEW i \in Ids PROVE rows'[i].status # "none"
    <3>1. CASE rows'[i].status = rows[i].status
      BY <3>1 DEF Begun
    <3>2. CASE rows'[i].status # rows[i].status
      BY <3>2, StatusMoves DEF MayBecome
    <3> QED  BY <3>1, <3>2
  <2> QED  BY <2>1, <2>2 DEF Begun
<1> QED  BY <1>2, <1>3, TableSteps

LEMMA MovesAreActual ==
  ASSUME TInv, Begun, NEW i \in Ids, NEW to \in States, MayBecome(i, to), to # rows[i].status
  PROVE  /\ rows[i].status # "none" /\ to \notin {"none", "starting"}
         /\ <<rows[i].status, to>> \in ActualMoves \/ i \in Contended
<1>1. rows[i].status \in States /\ rows[i].status # "none"
  <2>1. rows[i] \in Row
    BY RowsAreRows DEF TInv, CodeType
  <2> QED  BY <2>1 DEF Row, Begun
<1> QED  BY <1>1 DEF MayBecome, ActualMoves, ValidTransitions, LiveStates, States

LEMMA RefinementStep ==
  ASSUME TablesInv, Begun, [Next]_vars
  PROVE  [Actual!Next]_StatusOf
<1>1. /\ rows \in Seq(Row) /\ Len(rows) \in Nat /\ Len(rows) =< MaxOps /\ MaxOps \in Nat
      /\ Ids \subseteq 1..MaxOps /\ TInv
  BY LenProperties, LifecycleAssumption DEF TablesInv, TInv, CodeType, Ids
<1>2. CASE SameStatuses
  BY <1>2 DEF SameStatuses, StatusOf
<1>3. CASE OneChanges
  <2>1. PICK i \in Ids, to \in States : SetStatus(i, to) /\ MayBecome(i, to)
    BY <1>3 DEF OneChanges
  <2>2. Ids' = Ids /\ \A j \in Ids : rows'[j].status = IF j = i THEN to ELSE rows[j].status
    BY <1>1, <2>1, StatusWritten
  <2>3. CASE to = rows[i].status
    BY <2>2, <2>3 DEF StatusOf
  <2>4. CASE to # rows[i].status
    <3>1. /\ rows[i].status # "none" /\ to \notin {"none", "starting"}
          /\ <<rows[i].status, to>> \in ActualMoves \/ i \in Contended
      BY <1>1, <2>1, <2>4, MovesAreActual
    <3>2. StatusOf[i] = rows[i].status /\ i \in 1..MaxOps
      BY <1>1 DEF StatusOf
    <3>3. StatusOf' = [StatusOf EXCEPT ![i] = to]
      BY <1>1, <2>2 DEF StatusOf
    <3>4. Actual!Move(i, to)
      BY <3>1, <3>2, <3>3 DEF Actual!Move, Contended
    <3> QED  BY <3>2, <3>4 DEF Actual!Next, Actual!States, States
  <2> QED  BY <2>3, <2>4
<1>4. CASE OneBegins
  <2> DEFINE n == Len(rows) + 1
  <2>1. /\ Ids' = Ids \cup {n} /\ n \notin Ids /\ rows'[n].status = "starting"
        /\ \A i \in Ids : rows'[i] = rows[i]
    BY <1>1, <1>4, RowBegins
  <2>2. n \in 1..MaxOps
    BY <1>1, <1>4 DEF OneBegins
  <2> HIDE DEF n
  <2>3. StatusOf[n] = "none"
    BY <2>1, <2>2 DEF StatusOf
  <2>4. (\E t \in disturbed : task[t].at = "insert")
           \/ \A j \in 1..MaxOps : StatusOf[j] \notin LiveStates
    BY <1>4 DEF OneBegins, StatusOf, Live, LiveStates
  <2>5. StatusOf' = [StatusOf EXCEPT ![n] = "starting"]
    BY <1>1, <2>1, <2>2 DEF StatusOf
  <2>6. <<"none", "starting">> \in ActualMoves
    BY DEF ActualMoves, ValidTransitions
  <2>7. Actual!Begin(n)
    BY <2>3, <2>4, <2>5, <2>6 DEF Actual!Begin, Actual!LiveStates, LiveStates
  <2> QED  BY <2>2, <2>7 DEF Actual!Next
<1> QED  BY <1>2, <1>3, <1>4, TableSteps

(* The operations table is the abstract operation, with any number of      *)
(* requests at a time: no status moves but along the declared machine and  *)
(* two more moves of the crashes, and none begins while another is live,   *)
(* but for the rows and the insert of coroutines that were overtaken.      *)
THEOREM TableImplements == Spec => TableIsOrderly
<1>1. Init => Actual!Init /\ Begun
  BY DEF Init, Actual!Init, StatusOf, Ids, Begun
<1>2. TablesInv /\ Begun /\ [Next]_vars => [Actual!Next]_StatusOf
  BY RefinementStep
<1>3. Spec => []Begun
  BY <1>1, NextBegun, AlwaysTables, PTL DEF Spec
<1>4. Spec => Actual!Init /\ [][Actual!Next]_StatusOf
  BY <1>1, <1>2, <1>3, AlwaysTables, PTL DEF Spec
<1> QED  BY <1>4 DEF TableIsOrderly, Actual!Spec
=============================================================================
