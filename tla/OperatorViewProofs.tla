------------------------- MODULE OperatorViewProofs -------------------------
(***************************************************************************)
(* The state of OperatorView keeps its type, for any number of operations, *)
(* windows, legs, levels and events. TypeOK is not inductive: a pass takes *)
(* the operation it finds for one that there is, and the level it posts    *)
(* for one of alarm. What the operator finally sees and is told are        *)
(* liveness properties and stay with TLC.                                  *)
(***************************************************************************)
EXTENDS OperatorView, TLAPS

\* An operation there is a state of has begun.
BegunInv == hub # "none" => op > 0

\* Only alarms are posted.
AlarmInv == pc = "post" => pass.level \in Bad

IInv == TypeOK /\ BegunInv /\ AlarmInv

Passes == [op : Ops, window : Since, hedge : Sums, level : Levels]
Views  == [op : Ops, hedge : Sums, funding : Sums] \cup {NoView}
-----------------------------------------------------------------------------
LEMMA Worlds ==
  /\ 1 \in Ops /\ Ops \subseteq Since /\ Picks \subseteq Since /\ Since \subseteq Sums
  /\ Fallback \in Sums /\ 0 \in Levels /\ Worst \in Levels
  /\ Levels \ {0} \subseteq Bad /\ Bad \subseteq Alerts /\ NoAlert \in Alerts
BY ViewAssumption DEF ViewAssumption, Ops, Since, Sums, Fallback, Levels, Bad, Alerts

LEMMA NoPassType == NoPass \in Passes
  BY Worlds DEF NoPass, Passes

LEMMA InitInv == Init => IInv
<1> SUFFICES ASSUME Init PROVE IInv
  OBVIOUS
<1>1. /\ op \in Nat /\ op =< MaxOps
      /\ counted \in 0..Legs /\ events \in 0..MaxEvents
  BY ViewAssumption DEF Init, ViewAssumption
<1>2. window \in [Ops -> Since]
  BY Worlds DEF Init
<1>3. pass \in Passes
  BY NoPassType DEF Init
<1>4. last \in Alerts /\ told \in Alerts /\ lost \in Alerts
  BY Worlds DEF Init
<1>5. TypeOK
  BY <1>1, <1>2, <1>3, <1>4 DEF Init, TypeOK, Passes
<1> QED  BY <1>5 DEF Init, IInv, BegunInv, AlarmInv

\* One more of the events of the bound.
LEMMA EventType == ASSUME IInv, Event PROVE events' \in 0..MaxEvents
  BY ViewAssumption DEF ViewAssumption, Event, IInv, TypeOK

-----------------------------------------------------------------------------
(* The operation and its window.                                           *)

LEMMA BegunOp == ASSUME IInv, hub # "none" PROVE op \in Ops
  BY ViewAssumption DEF ViewAssumption, IInv, TypeOK, BegunInv, Ops

LEMMA OperationInv ==
  ASSUME IInv, Start \/ Stop \/ Closed \/ StopFails
  PROVE  IInv'
<1>1. CASE Start
  <2>1. op' \in Nat /\ op' =< MaxOps /\ op' > 0
    BY <1>1, ViewAssumption DEF Start, ViewAssumption, IInv, TypeOK
  <2> QED
    BY <1>1, <2>1 DEF Start, IInv, TypeOK, BegunInv, AlarmInv, marketVars, sightVars,
                          passVars, viewVars, alertVars
<1>2. CASE Stop
  BY <1>2 DEF Stop, IInv, TypeOK, BegunInv, AlarmInv, marketVars, sightVars,
         passVars, viewVars, alertVars
<1>3. CASE Closed
  BY <1>3 DEF Closed, IInv, TypeOK, BegunInv, AlarmInv, marketVars, sightVars,
         passVars, viewVars, alertVars
<1>4. CASE StopFails
  <2>1. events' \in 0..MaxEvents
    BY <1>4, EventType DEF StopFails
  <2> QED
    BY <1>4, <2>1 DEF StopFails, IInv, TypeOK, BegunInv, AlarmInv, marketVars, sightVars,
         passVars, viewVars, alertVars
<1> QED  BY <1>1, <1>2, <1>3, <1>4

LEMMA SelectInv ==
  ASSUME IInv, NEW w \in Since, SelectWindow(w)
  PROVE  IInv'
<1>1. events' \in 0..MaxEvents
  BY EventType DEF SelectWindow
<1>2. window' \in [Ops -> Since]
  BY DEF SelectWindow, IInv, TypeOK
<1> QED
  BY <1>1, <1>2 DEF SelectWindow, IInv, TypeOK, BegunInv, AlarmInv, marketVars,
                          sightVars, passVars, viewVars, alertVars

-----------------------------------------------------------------------------
(* The pass.                                                               *)

\* What is not told yet changes the level a pass reads, within the levels.
LEMMA MeasuredIsLevel == ASSUME IInv PROVE Measured \subseteq Levels
<1>1. level \in 0..Worst /\ Worst \in Nat
  BY ViewAssumption DEF ViewAssumption, IInv, TypeOK, Levels
<1>2. 0..level \subseteq 0..Worst /\ {0, Worst} \subseteq 0..Worst
  BY <1>1
<1> QED  BY <1>1, <1>2 DEF Measured, Levels

LEMMA ReadsInv ==
  ASSUME IInv, PassBegins \/ RowRead
  PROVE  IInv'
<1>1. pass' \in Passes /\ pc' \in {"row", "hedge"}
  <2>1. CASE PassBegins
    <3>1. PICK l \in Measured : pass' = [NoPass EXCEPT !.op = op, !.level = l]
      BY <2>1 DEF PassBegins
    <3>2. l \in Levels
      BY <3>1, MeasuredIsLevel
    <3>3. op \in Ops
      BY <2>1, BegunOp DEF PassBegins
    <3> QED  BY <2>1, <3>1, <3>2, <3>3, NoPassType DEF PassBegins, Passes
  <2>2. CASE RowRead
    BY <2>2 DEF RowRead, IInv, TypeOK, Passes
  <2> QED  BY <2>1, <2>2
<1>2. UNCHANGED <<worldVars, viewVars, events>>
  BY DEF PassBegins, RowRead
<1> QED
  BY <1>1, <1>2 DEF IInv, TypeOK, BegunInv, AlarmInv, Passes, worldVars,
         marketVars, sightVars, viewVars, alertVars

LEMMA HedgeInv ==
  ASSUME IInv, HedgeFromCache \/ HedgeAnswered \/ HedgeFails
  PROVE  IInv'
<1>1. PICK sum \in Sums : Hedged(sum)
  BY Worlds DEF HedgeFromCache, HedgeAnswered, HedgeFails, IInv, TypeOK
<1>2. pass' \in Passes
  BY <1>1 DEF Hedged, IInv, TypeOK, Passes
<1>3. cache' \in Since \cup {NoCache}
  BY DEF HedgeFromCache, HedgeAnswered, HedgeFails, IInv, TypeOK
<1>4. events' \in 0..MaxEvents
  BY EventType DEF HedgeFromCache, HedgeAnswered, HedgeFails, IInv, TypeOK
<1> QED
  BY <1>1, <1>2, <1>3, <1>4
     DEF Hedged, IInv, TypeOK, BegunInv, AlarmInv, Passes, worldVars,
         marketVars, sightVars, viewVars, alertVars

LEMMA CacheAgesInv == ASSUME IInv, CacheAges PROVE IInv'
  BY DEF CacheAges, CacheEnds, IInv, TypeOK, BegunInv, AlarmInv, worldVars, marketVars,
         sightVars, passVars,
         alertVars

\* A margin that is not healthy goes to the webhook, or was attempted.
LEMMA CheckMarginDoes ==
  ASSUME IInv, CheckMargin
  PROVE  /\ pass' \in Passes /\ pc' \in {"idle", "post"} /\ AlarmInv'
         /\ last' \in Alerts /\ told' \in Alerts /\ lost' \in Alerts
<1>1. PassEnds \/ (Posts /\ pass.level # 0)
  BY DEF CheckMargin
<1>2. pass \in Passes
  BY DEF IInv, TypeOK, Passes
<1>3. pass' \in Passes /\ pc' \in {"idle", "post"} /\ AlarmInv'
  <2>1. CASE PassEnds
    BY <2>1, NoPassType DEF PassEnds, AlarmInv
  <2>2. CASE Posts /\ pass.level # 0
    <3>1. pass.level \in Bad /\ pass.level \in Levels
      BY <1>2, <2>2, Worlds DEF Passes
    <3>2. pass' \in Passes /\ pass'.level = pass.level
      BY <2>2, <3>1, NoPassType DEF Posts, Passes
    <3> QED  BY <2>2, <3>1, <3>2 DEF Posts, AlarmInv
  <2> QED  BY <1>1, <2>1, <2>2
<1>4. last' \in Alerts /\ told' \in Alerts /\ lost' \in Alerts
  BY Worlds DEF CheckMargin, Heed, Recovered, alertVars, IInv, TypeOK
<1> QED  BY <1>3, <1>4

LEMMA FundingInv ==
  ASSUME IInv, FundingAnswered \/ FundingFails \/ RowFails
  PROVE  IInv'
<1>1. CheckMargin /\ UNCHANGED <<worldVars, cache>>
  BY DEF FundingAnswered, FundingFails, RowFails
<1>2. events' \in 0..MaxEvents
  BY EventType DEF FundingAnswered, FundingFails, RowFails, IInv, TypeOK
<1>3. shown' \in Views
  <2>1. ASSUME NEW sum \in Sums, Publish(sum) PROVE shown' \in Views
    BY <2>1 DEF Publish, Views, IInv, TypeOK
  <2>2. pass.op \in Sums /\ pass.window \in Sums /\ Fallback \in Sums
    BY Worlds DEF IInv, TypeOK
  <2>3. CASE RowFails
    BY <2>3 DEF RowFails, IInv, TypeOK, Views
  <2> QED  BY <2>1, <2>2, <2>3 DEF FundingAnswered, FundingFails
<1> QED
  BY <1>1, <1>2, <1>3, CheckMarginDoes
     DEF IInv, TypeOK, BegunInv, Passes, Views, worldVars,
         marketVars, sightVars

LEMMA PostInv ==
  ASSUME IInv, Posted \/ PostFails
  PROVE  IInv'
<1>1. Attempted /\ pc = "post"
  BY DEF Posted, PostFails, Attempted
<1>2. pass.level \in Bad
  BY <1>1 DEF IInv, AlarmInv
<1>3. events' \in 0..MaxEvents
  BY EventType DEF Posted, PostFails, IInv, TypeOK
<1>4. last' \in Alerts /\ told' \in Alerts /\ lost' \in Alerts
  BY <1>1, <1>2, Worlds DEF Attempted, Posted, PostFails, IInv, TypeOK
<1>5. pass' \in Passes /\ pc' = "idle"
  BY <1>1, NoPassType DEF Attempted, PassEnds
<1> QED
  BY <1>1, <1>3, <1>4, <1>5
     DEF Attempted, Passes, IInv, TypeOK, BegunInv, AlarmInv, worldVars,
         marketVars, sightVars

-----------------------------------------------------------------------------
(* The account, the market and the process.                                *)

LEMMA WorldInv == ASSUME IInv, World PROVE IInv'
<1>1. CASE RangeMoves
  <2>1. events' \in 0..MaxEvents
    BY <1>1, EventType DEF RangeMoves
  <2>2. inRange' \in BOOLEAN
    BY <1>1 DEF RangeMoves
  <2> QED
    BY <1>1, <2>1, <2>2
       DEF RangeMoves, IInv, TypeOK, BegunInv, AlarmInv, passVars, viewVars, sightVars,
           alertVars
<1>2. CASE MessageTells \/ LegLost
  <2>1. PICK b \in BOOLEAN, n \in 0..Legs : Told(b, n)
    <3>1. CASE MessageTells
      <4>1. {balance, TRUE} \subseteq BOOLEAN /\ counted..Legs \subseteq 0..Legs
        BY ViewAssumption DEF ViewAssumption, IInv, TypeOK
      <4> QED  BY <1>2, <3>1, <4>1 DEF MessageTells
    <3>2. CASE LegLost
      <4>1. counted - 1 \in 0..Legs
        BY <3>2, ViewAssumption DEF ViewAssumption, LegLost, IInv, TypeOK
      <4>2. balance \in BOOLEAN
        BY DEF IInv, TypeOK
      <4> QED  BY <3>2, <4>1, <4>2 DEF LegLost
    <3> QED  BY <1>2, <3>1, <3>2
  <2>2. events' \in 0..MaxEvents
    BY <1>2, EventType DEF MessageTells, LegLost, IInv, TypeOK
  <2>3. balance' \in BOOLEAN /\ counted' \in 0..Legs
    BY <2>1 DEF Told
  <2> QED
    BY <2>1, <2>2, <2>3
       DEF Told, IInv, TypeOK, BegunInv, AlarmInv, passVars, viewVars, alertVars
<1>3. CASE Restart
  <2>1. events' \in 0..MaxEvents
    BY <1>3, EventType DEF Restart
  <2>2. pass' \in Passes /\ pc' = "idle"
    BY <1>3, NoPassType DEF Restart, PassEnds
  <2>3. hub' \in {"none", "active", "stopping", "failed"} /\ BegunInv'
    BY <1>3 DEF Restart, IInv, TypeOK, BegunInv
  <2>4. balance' \in BOOLEAN /\ last' \in Alerts
    BY <1>3, Worlds DEF Restart
  <2>5. counted' \in 0..Legs
    <3>1. counted' = 0 /\ Legs \in Nat
      BY <1>3, ViewAssumption DEF Restart, ViewAssumption
    <3> QED  BY <3>1
  <2> QED
    BY <1>3, <2>1, <2>2, <2>3, <2>4, <2>5 DEF Restart, IInv, TypeOK, AlarmInv, Passes
<1>4. ASSUME NEW l \in Levels, LevelMoves(l) PROVE IInv'
  <2>1. events' \in 0..MaxEvents
    BY <1>4, EventType DEF LevelMoves
  <2> QED
    BY <1>4, <2>1 DEF LevelMoves, IInv, TypeOK, BegunInv, AlarmInv, passVars, viewVars,
                      sightVars, alertVars
<1> QED  BY <1>1, <1>2, <1>3, <1>4 DEF World

LEMMA NextInv == IInv /\ [Next]_vars => IInv'
<1> SUFFICES ASSUME IInv, [Next]_vars PROVE IInv'
  OBVIOUS
<1>1. CASE Operator \/ Closed \/ StopFails
  BY <1>1, OperationInv, SelectInv DEF Operator
<1>2. CASE Pass
  BY <1>2, ReadsInv, HedgeInv, FundingInv, PostInv DEF Pass
<1>3. CASE CacheAges \/ World
  BY <1>3, CacheAgesInv, WorldInv
<1>4. CASE UNCHANGED vars
  BY <1>4 DEF vars, worldVars, marketVars, sightVars, passVars, viewVars, alertVars,
                   IInv, TypeOK, BegunInv, AlarmInv
<1> QED  BY <1>1, <1>2, <1>3, <1>4 DEF Next

(* Whatever passes are cut short, requests fail and windows change: the   *)
(* breakdown is of one operation with a sum on each side, and what         *)
(* _check_margin_and_alert posts and remembers is never a healthy margin.  *)
THEOREM ViewTypeCorrect == Spec => []TypeOK
<1>1. IInv => TypeOK
  BY DEF IInv
<1> QED  BY <1>1, InitInv, NextInv, PTL DEF Spec
=============================================================================
