------------------------ MODULE PositionTruthProofs ------------------------
(***************************************************************************)
(* Safety of PositionTruth for every set of targets, threshold, tolerance  *)
(* and bound: type correctness, one order per decision, and that a bot     *)
(* that only sold on estimates it never lost does not over-hedge.          *)
(***************************************************************************)
EXTENDS PositionTruth, TLAPS

(***************************************************************************)
(* The inductive invariant.                                                *)
(***************************************************************************)

(* The two estimates were never lost and no cover was decided.             *)
Clean == ~covered /\ ~external

(* An order under way belongs to the placement that sent it.               *)
OrderInv ==
  /\ pc = "await" => attempts < MaxAttempts
  /\ pc = "attempt" => ord = "none" /\ accepted = 0
  /\ ord = "sent" => accepted = 0
  /\ accepted =< 1
  /\ Clean /\ ord # "none" => pc \in {"await", "verify"}
  /\ pc = "verify" => ord # "sent"

(* An HTTP answer the reconciler may still apply is newer than every       *)
(* settled stamp.                                                          *)
ClockInv ==
  /\ aged =< lastFire
  /\ rpc # "idle" => scan.fire =< lastFire
  /\ rpc \in {"http", "answer"} => scan.fire =< aged
  /\ pc = "verify" /\ ord = "booked" => aged < lastFire

(* What the estimates miss of the short is in the hands of the order that  *)
(* is being placed, or was given away by a catch-up pin.                   *)
Unstamped == IF pc = "await" /\ ord = "none" THEN delta ELSE 0

CreditInv ==
  Clean =>
    /\ delta >= 0
    /\ exch =< expected + eroded + Unstamped
    /\ pc = "verify" /\ ord = "booked" => exch + delta =< expected + eroded
    /\ rpc = "answer" /\ lastFire = scan.fire => exch =< truth + Unstamped

(* The order that is being placed ends at its target.                      *)
TargetInv ==
  /\ pc = "read" => target =< maxTarget
  /\ Clean => exch =< maxTarget + eroded
  /\ Clean /\ pc = "read" => exch =< cur + eroded
  /\ Clean /\ (pc = "attempt" \/ ord # "none") => exch + delta =< maxTarget + eroded

IInv == TypeOK /\ OrderInv /\ ClockInv /\ CreditInv /\ TargetInv
-----------------------------------------------------------------------------
LEMMA MagnitudeNat == \A n \in Int : Magnitude(n) \in Nat
  BY DEF Magnitude

LEMMA ShortNat == \A n \in Int : ShortOf(n) \in Nat /\ n =< ShortOf(n)
  BY DEF ShortOf, Larger

LEMMA MergeNat == \A n \in Nat, s \in Int : Merge(n, s) \in Nat
  BY ShortNat DEF Merge

LEMMA InitIInv == Init => IInv
  <1> SUFFICES ASSUME Init PROVE IInv
    OBVIOUS
  <1> USE TruthAssumption DEF Init
  <1>1. TypeOK
    <2>1. pending \in Seq(Int)
      OBVIOUS
    <2>2. NoScan \in [expected : Nat, fire : Nat]
      BY DEF NoScan
    <2>3. attempts \in 0..MaxAttempts /\ fires \in 0..MaxFires /\ faults \in 0..MaxFaults
      OBVIOUS
    <2>4. /\ tracked \in BOOLEAN /\ v2 \in BOOLEAN
          /\ covered \in BOOLEAN /\ external \in BOOLEAN
      OBVIOUS
    <2>. QED
      BY <2>1, <2>2, <2>3, <2>4 DEF TypeOK
  <1>2. OrderInv
    BY DEF OrderInv, Clean
  <1>3. ClockInv
    BY DEF ClockInv
  <1>4. CreditInv
    BY DEF CreditInv, Unstamped, Clean
  <1>5. TargetInv
    BY DEF TargetInv, Clean
  <1>. QED
    BY <1>1, <1>2, <1>3, <1>4, <1>5 DEF IInv

(***************************************************************************)
(* Type correctness.                                                       *)
(***************************************************************************)
LEMMA TypeStep ==
  ASSUME TypeOK, OrderInv, Next
  PROVE  TypeOK'
  <1> USE TruthAssumption
      DEF TypeOK, exchangeVars, layerVars,
          clockVars, engineVars, reconVars, historyVars
  <1>1. ASSUME NEW t \in Targets, ReadState(t) PROVE TypeOK'
    BY <1>1 DEF ReadState, Effective, Larger
  <1>2. CASE Skip
    BY <1>2 DEF Skip
  <1>3. CASE Decide
    BY <1>3 DEF Decide
  <1>4. CASE Rejected
    BY <1>4 DEF Rejected, OrderInv
  <1>5. CASE BookEmpty
    BY <1>5 DEF BookEmpty
  <1>6. CASE CreateOrder
    BY <1>6 DEF CreateOrder
  <1>7. CASE Exhausted
    BY <1>7 DEF Exhausted
  <1>8. CASE Stamp
    BY <1>8, ShortNat DEF Stamp, Credit, AfterAccept
  <1>9. CASE Verified
    BY <1>9 DEF Verified
  <1>10. CASE Accept
    BY <1>10 DEF Accept
  <1>11. ASSUME NEW k \in 0..Magnitude(delta), Match(k) PROVE TypeOK'
    <2>1. exch' \in Int
      BY <1>11, MagnitudeNat DEF Match
    <2>2. pending' \in Seq(Int)
      BY <1>11, <2>1 DEF Match
    <2>. QED
      BY <1>11, <2>1, <2>2 DEF Match
  <1>12. CASE Scan
    BY <1>12 DEF Scan
  <1>13. CASE CatchUp
    <2>1. ShortOf(expected - observed) \in Nat
      <3>1. expected - observed \in Int
        OBVIOUS
      <3>. QED
        BY <3>1, ShortNat, Zenon
    <2>. QED
      BY <1>13, <2>1 DEF CatchUp, NoScan
  <1>14. CASE TooYoung
    BY <1>14 DEF TooYoung, NoScan
  <1>15. CASE Query
    BY <1>15 DEF Query
  <1>16. CASE HttpAnswer
    BY <1>16, ShortNat DEF HttpAnswer
  <1>17. CASE Pin
    BY <1>17 DEF Pin, NoScan
  <1>18. CASE WsUpdate
    <2>1. Head(pending) \in Int /\ Tail(pending) \in Seq(Int)
      BY <1>18 DEF WsUpdate
    <2>2. observed' \in Nat /\ pending' \in Seq(Int)
      BY <1>18, <2>1, MergeNat DEF WsUpdate
    <2>. QED
      BY <1>18, <2>2 DEF WsUpdate
  <1>19. CASE WsReconnect
    BY <1>19 DEF WsReconnect
  <1>20. CASE TimeOut
    BY <1>20 DEF TimeOut
  <1>21. CASE LoseAnswer
    BY <1>21 DEF LoseAnswer, Fault
  <1>22. CASE WsDrop
    BY <1>22, MergeNat DEF WsDrop, Fault
  <1>23. CASE HttpFail
    BY <1>23 DEF HttpFail, NoScan, Fault
  <1>24. CASE Restart
    <2>1. pending' \in Seq(Int) /\ scan' \in [expected : Nat, fire : Nat]
      BY <1>24 DEF Restart, NoScan
    <2>2. /\ observed' \in Nat /\ expected' \in Nat /\ lastFire' \in Nat /\ aged' \in Nat
          /\ target' \in Nat /\ cur' \in Nat /\ attempts' \in 0..MaxAttempts /\ truth' \in Nat
          /\ faults' \in 0..MaxFaults
      BY <1>24 DEF Restart, Fault
    <2>3. /\ exch' \in Int /\ delta' \in Int /\ ord' \in {"none", "sent", "booked"}
          /\ fires' \in 0..MaxFires /\ accepted' \in Nat /\ eroded' \in Nat /\ maxTarget' \in Nat
      BY <1>24 DEF Restart
    <2>4. /\ pc' \in {"idle", "read", "attempt", "await", "verify"}
          /\ rpc' \in {"idle", "handle", "http", "answer"}
      BY <1>24 DEF Restart
    <2>5. /\ tracked' \in BOOLEAN /\ v2' \in BOOLEAN
          /\ covered' \in BOOLEAN /\ external' \in BOOLEAN
      BY <1>24 DEF Restart
    <2>. QED
      BY <2>1, <2>2, <2>3, <2>4, <2>5
  <1>25. ASSUME NEW d \in {-1, 1}, StopFill(d) PROVE TypeOK'
    <2>1. exch' \in Int /\ pending' \in Seq(Int)
      BY <1>25 DEF StopFill
    <2>. QED
      BY <1>25, <2>1 DEF StopFill, Fault
  <1>. QED
    BY <1>1, <1>2, <1>3, <1>4, <1>5, <1>6, <1>7, <1>8, <1>9, <1>10, <1>11, <1>12,
       <1>13, <1>14, <1>15, <1>16, <1>17, <1>18, <1>19, <1>20, <1>21, <1>22, <1>23,
       <1>24, <1>25 DEF Next, Placement, Exchange, Reconciler, Faulty

(***************************************************************************)
(* One order at a time, and one accepted order per decision.               *)
(***************************************************************************)
LEMMA OrderStep ==
  ASSUME TypeOK, OrderInv, Next
  PROVE  OrderInv'
  <1> USE TruthAssumption
      DEF TypeOK, OrderInv, Clean, exchangeVars, layerVars,
          clockVars, engineVars, reconVars, historyVars
  <1>1. ASSUME NEW t \in Targets, ReadState(t) PROVE OrderInv'
    BY <1>1 DEF ReadState
  <1>2. CASE Skip
    BY <1>2 DEF Skip
  <1>3. CASE Decide
    BY <1>3 DEF Decide
  <1>4. CASE Rejected
    BY <1>4 DEF Rejected
  <1>5. CASE BookEmpty
    BY <1>5 DEF BookEmpty
  <1>6. CASE CreateOrder
    BY <1>6 DEF CreateOrder
  <1>7. CASE Exhausted
    BY <1>7 DEF Exhausted
  <1>8. CASE Stamp
    BY <1>8 DEF Stamp, AfterAccept
  <1>9. CASE Verified
    BY <1>9 DEF Verified
  <1>10. CASE Accept
    BY <1>10 DEF Accept
  <1>11. ASSUME NEW k \in 0..Magnitude(delta), Match(k) PROVE OrderInv'
    BY <1>11 DEF Match
  <1>12. CASE Scan
    BY <1>12 DEF Scan
  <1>13. CASE CatchUp
    BY <1>13 DEF CatchUp
  <1>14. CASE TooYoung
    BY <1>14 DEF TooYoung
  <1>15. CASE Query
    BY <1>15 DEF Query
  <1>16. CASE HttpAnswer
    BY <1>16 DEF HttpAnswer
  <1>17. CASE Pin
    BY <1>17 DEF Pin
  <1>18. CASE WsUpdate
    BY <1>18 DEF WsUpdate
  <1>19. CASE WsReconnect
    BY <1>19 DEF WsReconnect
  <1>20. CASE TimeOut
    BY <1>20 DEF TimeOut
  <1>21. CASE LoseAnswer
    BY <1>21 DEF LoseAnswer
  <1>22. CASE WsDrop
    BY <1>22 DEF WsDrop
  <1>23. CASE HttpFail
    BY <1>23 DEF HttpFail
  <1>24. CASE Restart
    BY <1>24 DEF Restart
  <1>25. ASSUME NEW d \in {-1, 1}, StopFill(d) PROVE OrderInv'
    BY <1>25 DEF StopFill
  <1>. QED
    BY <1>1, <1>2, <1>3, <1>4, <1>5, <1>6, <1>7, <1>8, <1>9, <1>10, <1>11, <1>12,
       <1>13, <1>14, <1>15, <1>16, <1>17, <1>18, <1>19, <1>20, <1>21, <1>22, <1>23,
       <1>24, <1>25 DEF Next, Placement, Exchange, Reconciler, Faulty

(***************************************************************************)
(* The reconciler's clock.                                                 *)
(***************************************************************************)
LEMMA ClockStep ==
  ASSUME TypeOK, OrderInv, ClockInv, Next
  PROVE  ClockInv'
  <1> USE TruthAssumption
      DEF TypeOK, OrderInv, ClockInv, exchangeVars, layerVars,
          clockVars, engineVars, reconVars, historyVars
  <1>1. ASSUME NEW t \in Targets, ReadState(t) PROVE ClockInv'
    BY <1>1 DEF ReadState
  <1>2. CASE Skip
    BY <1>2 DEF Skip
  <1>3. CASE Decide
    BY <1>3 DEF Decide
  <1>4. CASE Rejected
    BY <1>4 DEF Rejected
  <1>5. CASE BookEmpty
    BY <1>5 DEF BookEmpty
  <1>6. CASE CreateOrder
    BY <1>6 DEF CreateOrder
  <1>7. CASE Exhausted
    BY <1>7 DEF Exhausted
  <1>8. CASE Stamp
    BY <1>8 DEF Stamp, AfterAccept
  <1>9. CASE Verified
    BY <1>9 DEF Verified
  <1>10. CASE Accept
    BY <1>10 DEF Accept
  <1>11. ASSUME NEW k \in 0..Magnitude(delta), Match(k) PROVE ClockInv'
    BY <1>11 DEF Match
  <1>12. CASE Scan
    BY <1>12 DEF Scan
  <1>13. CASE CatchUp
    BY <1>13 DEF CatchUp
  <1>14. CASE TooYoung
    BY <1>14 DEF TooYoung
  <1>15. CASE Query
    BY <1>15 DEF Query
  <1>16. CASE HttpAnswer
    BY <1>16 DEF HttpAnswer
  <1>17. CASE Pin
    BY <1>17 DEF Pin
  <1>18. CASE WsUpdate
    BY <1>18 DEF WsUpdate
  <1>19. CASE WsReconnect
    BY <1>19 DEF WsReconnect
  <1>20. CASE TimeOut
    BY <1>20 DEF TimeOut
  <1>21. CASE LoseAnswer
    BY <1>21 DEF LoseAnswer
  <1>22. CASE WsDrop
    BY <1>22 DEF WsDrop
  <1>23. CASE HttpFail
    BY <1>23 DEF HttpFail
  <1>24. CASE Restart
    BY <1>24 DEF Restart
  <1>25. ASSUME NEW d \in {-1, 1}, StopFill(d) PROVE ClockInv'
    BY <1>25 DEF StopFill
  <1>. QED
    BY <1>1, <1>2, <1>3, <1>4, <1>5, <1>6, <1>7, <1>8, <1>9, <1>10, <1>11, <1>12,
       <1>13, <1>14, <1>15, <1>16, <1>17, <1>18, <1>19, <1>20, <1>21, <1>22, <1>23,
       <1>24, <1>25 DEF Next, Placement, Exchange, Reconciler, Faulty

(***************************************************************************)
(* The credit bound.                                                       *)
(***************************************************************************)
LEMMA CatchUpKeeps ==
  ASSUME TypeOK, CatchUp
  PROVE  /\ expected' \in Nat /\ eroded' \in Nat
         /\ eroded =< eroded'
         /\ expected + eroded =< expected' + eroded'
  <1>1. expected \in Nat /\ observed \in Nat /\ eroded \in Nat
    BY DEF TypeOK
  <1>2. \/ expected' = observed /\ eroded' = eroded + ShortOf(expected - observed)
        \/ expected' = expected /\ eroded' = eroded
    BY DEF CatchUp
  <1>3. expected - observed \in Int
    BY <1>1
  <1>4. /\ ShortOf(expected - observed) \in Nat
        /\ expected - observed =< ShortOf(expected - observed)
    BY <1>3, ShortNat
  <1>. QED
    BY <1>1, <1>2, <1>4

LEMMA CreditStep ==
  ASSUME TypeOK, OrderInv, ClockInv, CreditInv, TargetInv, Next
  PROVE  CreditInv'
  <1> USE TruthAssumption
      DEF TypeOK, OrderInv, ClockInv, CreditInv, TargetInv, Clean, Unstamped,
          exchangeVars, layerVars, clockVars, engineVars, reconVars, historyVars
  <1>1. ASSUME NEW t \in Targets, ReadState(t) PROVE CreditInv'
    BY <1>1 DEF ReadState
  <1>2. CASE Skip
    BY <1>2 DEF Skip
  <1>3. CASE Decide
    <2>1. ~covered' => ~covered /\ ~(target < cur)
      BY <1>3, Zenon DEF Decide
    <2>2. /\ pc' = "attempt" /\ ord = "none" /\ ord' = "none" /\ exch' = exch
          /\ delta' = target - cur /\ external' = external /\ expected' = expected
          /\ eroded' = eroded /\ rpc' = rpc /\ scan' = scan /\ truth' = truth
          /\ lastFire' = lastFire /\ pc = "read"
      BY <1>3 DEF Decide
    <2>. QED
      BY <2>1, <2>2
  <1>4. CASE Rejected
    BY <1>4 DEF Rejected
  <1>5. CASE BookEmpty
    BY <1>5 DEF BookEmpty
  <1>6. CASE CreateOrder
    BY <1>6 DEF CreateOrder
  <1>7. CASE Exhausted
    BY <1>7 DEF Exhausted
  <1>8. CASE Stamp
    BY <1>8 DEF Stamp, Credit, ShortOf, Larger, AfterAccept
  <1>9. CASE Verified
    BY <1>9 DEF Verified
  <1>10. CASE Accept
    BY <1>10 DEF Accept
  <1>11. ASSUME NEW k \in 0..Magnitude(delta), Match(k) PROVE CreditInv'
    BY <1>11 DEF Match, Magnitude
  <1>12. CASE Scan
    BY <1>12 DEF Scan
  <1>13. CASE CatchUp
    <2>1. rpc' = "idle" /\ UNCHANGED <<exch, pc, ord, delta, covered, external>>
      BY <1>13 DEF CatchUp
    <2>. QED
      BY <1>13, <2>1, CatchUpKeeps
  <1>14. CASE TooYoung
    BY <1>14 DEF TooYoung
  <1>15. CASE Query
    BY <1>15 DEF Query
  <1>16. CASE HttpAnswer
    <2>1. exch =< truth' /\ truth' \in Nat
      BY <1>16, ShortNat DEF HttpAnswer
    <2>. QED
      BY <1>16, <2>1 DEF HttpAnswer
  <1>17. CASE Pin
    BY <1>17 DEF Pin, NoNewFire
  <1>18. CASE WsUpdate
    BY <1>18 DEF WsUpdate
  <1>19. CASE WsReconnect
    BY <1>19 DEF WsReconnect
  <1>20. CASE TimeOut
    BY <1>20 DEF TimeOut
  <1>21. CASE LoseAnswer
    BY <1>21 DEF LoseAnswer
  <1>22. CASE WsDrop
    BY <1>22 DEF WsDrop
  <1>23. CASE HttpFail
    BY <1>23 DEF HttpFail
  <1>24. CASE Restart
    BY <1>24 DEF Restart
  <1>25. ASSUME NEW d \in {-1, 1}, StopFill(d) PROVE CreditInv'
    BY <1>25 DEF StopFill
  <1>. QED
    BY <1>1, <1>2, <1>3, <1>4, <1>5, <1>6, <1>7, <1>8, <1>9, <1>10, <1>11, <1>12,
       <1>13, <1>14, <1>15, <1>16, <1>17, <1>18, <1>19, <1>20, <1>21, <1>22, <1>23,
       <1>24, <1>25 DEF Next, Placement, Exchange, Reconciler, Faulty

(***************************************************************************)
(* The target bound.                                                       *)
(***************************************************************************)
LEMMA TargetStep ==
  ASSUME TypeOK, OrderInv, CreditInv, TargetInv, Next
  PROVE  TargetInv'
  <1> USE TruthAssumption
      DEF TypeOK, OrderInv, CreditInv, TargetInv, Clean, Unstamped,
          exchangeVars, layerVars, clockVars, engineVars, reconVars, historyVars
  <1>1. ASSUME NEW t \in Targets, ReadState(t) PROVE TargetInv'
    BY <1>1 DEF ReadState, Effective, Larger
  <1>2. CASE Skip
    BY <1>2 DEF Skip
  <1>3. CASE Decide
    BY <1>3 DEF Decide
  <1>4. CASE Rejected
    BY <1>4 DEF Rejected
  <1>5. CASE BookEmpty
    BY <1>5 DEF BookEmpty
  <1>6. CASE CreateOrder
    BY <1>6 DEF CreateOrder
  <1>7. CASE Exhausted
    BY <1>7 DEF Exhausted
  <1>8. CASE Stamp
    BY <1>8 DEF Stamp, AfterAccept
  <1>9. CASE Verified
    BY <1>9 DEF Verified
  <1>10. CASE Accept
    BY <1>10 DEF Accept
  <1>11. ASSUME NEW k \in 0..Magnitude(delta), Match(k) PROVE TargetInv'
    BY <1>11 DEF Match, Magnitude
  <1>12. CASE Scan
    BY <1>12 DEF Scan
  <1>13. CASE CatchUp
    <2>1. UNCHANGED <<exch, pc, ord, delta, target, cur, maxTarget, covered, external>>
      BY <1>13 DEF CatchUp
    <2>. QED
      BY <1>13, <2>1, CatchUpKeeps
  <1>14. CASE TooYoung
    BY <1>14 DEF TooYoung
  <1>15. CASE Query
    BY <1>15 DEF Query
  <1>16. CASE HttpAnswer
    BY <1>16 DEF HttpAnswer
  <1>17. CASE Pin
    BY <1>17 DEF Pin
  <1>18. CASE WsUpdate
    BY <1>18 DEF WsUpdate
  <1>19. CASE WsReconnect
    BY <1>19 DEF WsReconnect
  <1>20. CASE TimeOut
    BY <1>20 DEF TimeOut
  <1>21. CASE LoseAnswer
    BY <1>21 DEF LoseAnswer
  <1>22. CASE WsDrop
    BY <1>22 DEF WsDrop
  <1>23. CASE HttpFail
    BY <1>23 DEF HttpFail
  <1>24. CASE Restart
    BY <1>24 DEF Restart
  <1>25. ASSUME NEW d \in {-1, 1}, StopFill(d) PROVE TargetInv'
    BY <1>25 DEF StopFill
  <1>. QED
    BY <1>1, <1>2, <1>3, <1>4, <1>5, <1>6, <1>7, <1>8, <1>9, <1>10, <1>11, <1>12,
       <1>13, <1>14, <1>15, <1>16, <1>17, <1>18, <1>19, <1>20, <1>21, <1>22, <1>23,
       <1>24, <1>25 DEF Next, Placement, Exchange, Reconciler, Faulty

(***************************************************************************)
(* The inductive step and what follows from it.                            *)
(***************************************************************************)
LEMMA StepIInv == IInv /\ [Next]_vars => IInv'
  <1> SUFFICES ASSUME IInv, [Next]_vars PROVE IInv'
    OBVIOUS
  <1>1. CASE Next
    BY <1>1, TypeStep, OrderStep, ClockStep, CreditStep, TargetStep DEF IInv
  <1>2. CASE UNCHANGED vars
    <2>. USE <1>2 DEF IInv, vars, exchangeVars, layerVars, clockVars, engineVars,
                      reconVars, historyVars
    <2>1. TypeOK'
      BY DEF TypeOK
    <2>2. OrderInv' /\ ClockInv'
      BY DEF OrderInv, ClockInv, Clean
    <2>3. CreditInv'
      BY DEF CreditInv, Unstamped, Clean
    <2>4. TargetInv'
      BY DEF TargetInv, Clean
    <2>. QED
      BY <2>1, <2>2, <2>3, <2>4
  <1>. QED
    BY <1>1, <1>2

LEMMA AlwaysIInv == Spec => []IInv
  <1>. QED
    BY InitIInv, StepIInv, PTL DEF Spec, Safety

(* Every variable keeps its type, whatever the targets and the bounds.     *)
THEOREM TypeCorrect == Spec => []TypeOK
  <1>1. IInv => TypeOK
    BY DEF IInv
  <1>. QED
    BY <1>1, AlwaysIInv, PTL

(* The server accepts at most one order per decision of the engine: the    *)
(* retry loop of _place_long_term_order_unlocked ends with an acceptance.  *)
THEOREM SingleOrder == Spec => []OneOrderPerDecision
  <1>1. IInv => OneOrderPerDecision
    BY DEF IInv, OrderInv, OneOrderPerDecision
  <1>. QED
    BY <1>1, AlwaysIInv, PTL

(* A bot that only sold, on estimates it never lost, reads at least the    *)
(* short it holds, but for what catch-up pins rounded away.                *)
THEOREM NeverUnderread == Spec => []ShortNeverUnderread
  <1>1. IInv => ShortNeverUnderread
    BY DEF IInv, TypeOK, CreditInv, Unstamped, Clean, ShortNeverUnderread, Effective, Larger
  <1>. QED
    BY <1>1, AlwaysIInv, PTL

(* Such a bot never holds a larger short than the largest target it read.  *)
THEOREM NeverOverHedged == Spec => []NoOverHedge
  <1>1. IInv => NoOverHedge
    BY DEF IInv, TargetInv, Clean, NoOverHedge
  <1>. QED
    BY <1>1, AlwaysIInv, PTL
=============================================================================
