-------------------------- MODULE HedgeLegsProofs --------------------------
(***************************************************************************)
(* Safety of HedgeLegs for any number of legs, operations, drifts, faults  *)
(* and crashes: which orders may still be under way for which operation,   *)
(* what the main loop still trades after a stop, and what an activation, a *)
(* close and a failed hedge-existing leave at the exchange.                *)
(***************************************************************************)
EXTENDS HedgeLegs, FiniteSetTheorems, SequenceTheorems, TLAPS

(***************************************************************************)
(* The inductive invariant.                                                *)
(***************************************************************************)

(* Where the request being served is, what it is, and what status its      *)
(* operation has.                                                          *)
PcInv ==
    /\ pc = "idle" <=> kind = "none"
    /\ pc # "idle" => /\ ops > 0
                      /\ status[ops] = (IF kind = "stop" THEN "stopping" ELSE "starting")
    /\ pc = "idle" /\ ops > 0 => status[ops] \in {"active", "closed", "failed"}
    /\ pc = "gather" => kind = "start"
    /\ pc = "opening" => kind \in {"start", "hedge"}
    /\ pc \in {"undo", "undoing"} => kind = "hedge"
    /\ pc \in {"cancel", "closing"} => kind = "stop"
    /\ pc = "fail" => kind # "hedge"
    /\ wait # {} => pc \in {"opening", "undoing", "closing"}
    /\ kind = "hedge" => \A a, b \in wait : a = b
    /\ pc = "undoing" => opened # <<>>

(* An order of a request was sent for an operation that has failed, or is  *)
(* about to, or the request awaits it; no two of one operation are on the  *)
(* same leg.                                                               *)
Own(o) == o.by = "request" /\ o.op = ops
Accounted(o) ==
    /\ o.op =< ops
    /\ \/ status[o.op] = "failed"
       \/ o.op = ops /\ pc = "fail"
       \/ o.op = ops /\ o.leg \in wait

QueueInv ==
    /\ \A i \in DOMAIN queue : queue[i].by = "request" => Accounted(queue[i])
    /\ \A i, j \in DOMAIN queue :
          i # j /\ Own(queue[i]) /\ Own(queue[j]) => queue[i].leg # queue[j].leg

(* The main loop has at most one order per leg to send or under way, all   *)
(* of an iteration that found the operation ACTIVE.                        *)
LoopInv ==
    /\ drift # NoLegs => ops > 0
    /\ HubActive => late = NoLegs
    /\ \A i, j \in DOMAIN queue : queue[i].by = "loop" /\ queue[j].by = "loop" => i = j
    /\ \A i \in DOMAIN queue : queue[i].by = "loop" =>
          late[queue[i].leg] = 0 /\ drift[queue[i].leg] = 0
    /\ \A l \in Legs : late[l] =< 1 /\ (drift[l] # 0 => late[l] = 0)

(* While a stop closes: a leg it saw as it was is flat, or its order makes *)
(* it flat.                                                                *)
FlatInv ==
    pc = "closing" =>
        \A l \in Legs \ excused :
            IF l \in wait
            THEN \A i \in DOMAIN queue :
                    Own(queue[i]) /\ queue[i].leg = l => queue[i].delta = -short[l]
            ELSE short[l] = 0

(* While a start opens: a leg to open is awaited or was answered.          *)
AnswerInv ==
    kind = "start" /\ pc = "opening" =>
        \A l \in Legs : size[l] > 0 => l \in wait \/ l \in Range(opened)

(* While hedge-existing opens or undoes: the short it has added to a leg   *)
(* is the one it remembers.                                                *)
UndoInv ==
    /\ kind = "none" => opened = <<>> /\ net = NoLegs
    /\ kind = "hedge" =>
          /\ \A i, j \in DOMAIN opened : opened[i] = opened[j] => i = j
          /\ \A l \in Legs \ excused : net[l] = IF l \in Range(opened) THEN size[l] ELSE 0
          /\ pc = "opening" => \A l \in wait : l \notin Range(opened)
          /\ pc = "undoing" => \A l \in wait : l = Head(opened)
          /\ \A i \in DOMAIN queue : Own(queue[i]) =>
                queue[i].delta = IF pc = "opening" THEN size[queue[i].leg]
                                                   ELSE -size[queue[i].leg]

IInv == TypeOK /\ PcInv /\ QueueInv /\ LoopInv /\ FlatInv /\ AnswerInv /\ UndoInv

(***************************************************************************)
(* What the parts of a step do to the queue and to the request.            *)
(***************************************************************************)

(* A set of legs is finite.                                                *)
LEMMA LegsFinite ==
    ASSUME NEW S \in SUBSET Legs
    PROVE  Cardinality(S) \in Nat
  <1>1. NLegs \in Nat
    BY LegsAssumption
  <1>2. IsFiniteSet(Legs)
    BY <1>1, FS_Interval DEF Legs
  <1>3. IsFiniteSet(S)
    BY <1>2, FS_Subset
  <1>. QED
    BY <1>3, FS_CardinalityType

(* The elements of the queue are orders.                                   *)
LEMMA OrdersOK ==
    ASSUME QueueOK
    PROVE  /\ DOMAIN queue = 1..Len(queue) /\ Len(queue) \in Nat
           /\ \A i \in DOMAIN queue : queue[i] \in OrderSet
  <1>1. queue \in Seq(OrderSet)
    BY DEF QueueOK
  <1>. QED
    BY <1>1, LenProperties, ElementOfSeq

(* The new orders are one for each leg that is changed, after the others.  *)
LEMMA SendFacts ==
    ASSUME QueueOK, ops \in 1..MaxOps, NEW d \in [Legs -> Int], NEW at, Send(d, at)
    PROVE  /\ queue' \in Seq(OrderSet)
           /\ \A i \in DOMAIN queue' :
                 \/ i \in DOMAIN queue /\ queue'[i] = queue[i]
                 \/ /\ i \notin DOMAIN queue
                    /\ queue'[i].leg \in Changed(d)
                    /\ queue'[i] = Order(queue'[i].leg, d[queue'[i].leg], "request")
           /\ \A i, j \in DOMAIN queue' :
                 i \notin DOMAIN queue /\ j \notin DOMAIN queue /\ i # j
                    => queue'[i].leg # queue'[j].leg
           /\ wait' = Changed(d) /\ pc' = at
  <1>. DEFINE C == Changed(d)
              n == Cardinality(C)
  <1>1. C \subseteq Legs /\ \A l \in C : d[l] \in Int \ {0}
    BY DEF Changed
  <1>2. n \in Nat
    BY <1>1, LegsFinite
  <1>3. PICK q \in Lined(C) :
           queue' = queue \o [i \in DOMAIN q |-> Order(q[i], d[q[i]], "request")]
    BY DEF Send, Orders
  <1>4. /\ q \in [1..n -> C]
        /\ \A i, j \in 1..n : i < j => q[i] < q[j]
    BY <1>3 DEF Lined
  <1>. DEFINE new == [i \in 1..n |-> Order(q[i], d[q[i]], "request")]
  <1>5. queue' = queue \o new
    BY <1>3, <1>4
  <1>6. \A i \in 1..n : /\ new[i] = Order(q[i], d[q[i]], "request")
                        /\ new[i].leg = q[i]
                        /\ new[i] \in OrderSet
    BY <1>1, <1>4 DEF Order, OrderSet
  <1>7. new \in [1..n -> OrderSet]
    BY <1>6
  <1>8. new \in Seq(OrderSet) /\ Len(new) = n
    BY <1>2, <1>7, SeqDef
  <1>. HIDE DEF n, C, new
  <1>9. queue \in Seq(OrderSet)
    BY DEF QueueOK
  <1>10. /\ queue' \in Seq(OrderSet)
         /\ Len(queue') = Len(queue) + n
         /\ \A i \in 1..Len(queue) + n :
               queue'[i] = IF i <= Len(queue) THEN queue[i] ELSE new[i - Len(queue)]
    BY <1>5, <1>8, <1>9, ConcatProperties
  <1>11. /\ DOMAIN queue = 1..Len(queue) /\ Len(queue) \in Nat
         /\ DOMAIN queue' = 1..Len(queue) + n
    BY <1>9, <1>10, LenProperties
  <1>12. ASSUME NEW i \in DOMAIN queue', i \notin DOMAIN queue
         PROVE  /\ i - Len(queue) \in 1..n
                /\ queue'[i] = new[i - Len(queue)]
    BY <1>2, <1>10, <1>11, <1>12
  <1>13. ASSUME NEW i \in DOMAIN queue', i \in DOMAIN queue
         PROVE  queue'[i] = queue[i]
    BY <1>2, <1>10, <1>11, <1>13
  <1>14. ASSUME NEW i \in DOMAIN queue', i \notin DOMAIN queue
         PROVE  /\ queue'[i].leg \in C
                /\ queue'[i] = Order(queue'[i].leg, d[queue'[i].leg], "request")
    BY <1>4, <1>6, <1>12, <1>14
  <1>15. ASSUME NEW i \in DOMAIN queue', NEW j \in DOMAIN queue',
                i \notin DOMAIN queue, j \notin DOMAIN queue, i # j
         PROVE  queue'[i].leg # queue'[j].leg
    <2>. DEFINE a == i - Len(queue)
                b == j - Len(queue)
    <2>1. a \in 1..n /\ b \in 1..n /\ queue'[i].leg = q[a] /\ queue'[j].leg = q[b]
      BY <1>6, <1>12, <1>15
    <2>2. a # b
      BY <1>11, <1>10, <1>15, <1>2
    <2>. HIDE DEF a, b
    <2>3. q[a] \in Int /\ q[b] \in Int
      <3>1. q[a] \in Legs /\ q[b] \in Legs
        BY <1>1, <1>4, <2>1
      <3>2. Legs \subseteq Int
        BY LegsAssumption DEF Legs
      <3>. QED
        BY <3>1, <3>2
    <2>4. q[a] # q[b]
      <3>1. a \in Int /\ b \in Int /\ (a < b \/ b < a)
        BY <1>2, <2>1, <2>2
      <3>. QED
        BY <1>4, <2>1, <2>3, <3>1
    <2>. QED
      BY <2>1, <2>4
  <1>. QED
    BY <1>10, <1>13, <1>14, <1>15 DEF Send, Awaited, C

(* The first order leaves the queue.                                       *)
LEMMA HeadFacts ==
    ASSUME QueueOK, queue # <<>>, queue' = Tail(queue)
    PROVE  /\ 1 \in DOMAIN queue /\ Head(queue) = queue[1] /\ queue[1] \in OrderSet
           /\ queue' \in Seq(OrderSet)
           /\ \A i \in DOMAIN queue' :
                 i \in Nat \ {0} /\ i + 1 \in DOMAIN queue /\ queue'[i] = queue[i + 1]
  <1>1. queue \in Seq(OrderSet)
    BY DEF QueueOK
  <1>2. /\ Len(queue) \in Nat \ {0} /\ DOMAIN queue = 1..Len(queue)
        /\ queue \in [1..Len(queue) -> OrderSet]
    BY <1>1, EmptySeq, LenProperties
  <1>3. /\ Tail(queue) \in Seq(OrderSet)
        /\ Len(Tail(queue)) = Len(queue) - 1
        /\ \A i \in 1..Len(Tail(queue)) : Tail(queue)[i] = queue[i + 1]
    BY <1>1, HeadTailProperties
  <1>4. DOMAIN Tail(queue) = 1..Len(queue) - 1
    BY <1>3, LenProperties
  <1>. QED
    BY <1>2, <1>3, <1>4

(* What an order that is placed does to every variable.                    *)
LEMMA PlaceFacts ==
    ASSUME TypeOK, PcInv, NEW filled \in BOOLEAN, NEW told \in BOOLEAN, Place(filled, told)
    PROVE  /\ 1 \in DOMAIN queue /\ queue[1] \in OrderSet
           /\ queue' \in Seq(OrderSet)
           /\ \A i \in DOMAIN queue' :
                 i \in Nat \ {0} /\ i + 1 \in DOMAIN queue /\ queue'[i] = queue[i + 1]
           /\ UNCHANGED <<status, ops, kind, size, shares, raw, drift, reads, crashes>>
           /\ ~Mine(queue[1]) => UNCHANGED <<wait, opened, pc>>
           /\ Mine(queue[1]) => pc \in {"opening", "undoing", "closing"}
           /\ Mine(queue[1]) /\ told => wait' = wait \ {queue[1].leg}
           /\ Mine(queue[1]) /\ ~told => wait' = {}
           /\ Mine(queue[1]) /\ pc = "opening" /\ told =>
                 pc' = pc /\ opened' = Append(opened, queue[1].leg)
           /\ Mine(queue[1]) /\ pc = "opening" /\ ~told =>
                 pc' = (IF kind = "hedge" THEN "undo" ELSE "fail") /\ opened' = opened
           /\ Mine(queue[1]) /\ pc = "undoing" => pc' = "undo" /\ opened' = Tail(opened)
           /\ Mine(queue[1]) /\ pc = "closing" =>
                 pc' = (IF told THEN pc ELSE "fail") /\ opened' = opened
           /\ short' = IF filled
                       THEN [short EXCEPT ![queue[1].leg] = @ + queue[1].delta] ELSE short
           /\ net' = IF filled /\ kind = "hedge" /\ Mine(queue[1])
                     THEN [net EXCEPT ![queue[1].leg] = @ + queue[1].delta] ELSE net
           /\ excused' = IF /\ kind \in {"hedge", "stop"}
                            /\ \/ filled # told
                               \/ ~filled /\ pc = "undoing"
                               \/ filled /\ ~Mine(queue[1])
                         THEN excused \cup {queue[1].leg} ELSE excused
           /\ late' = IF queue[1].by = "loop" /\ ~HubActive
                      THEN [late EXCEPT ![queue[1].leg] = @ + 1] ELSE late
           /\ faults' \in 0..MaxFaults
  <1>1. queue # <<>> /\ queue' = Tail(queue)
    BY DEF Place
  <1>2. /\ 1 \in DOMAIN queue /\ Head(queue) = queue[1] /\ queue[1] \in OrderSet
        /\ queue' \in Seq(OrderSet)
        /\ \A i \in DOMAIN queue' :
              i \in Nat \ {0} /\ i + 1 \in DOMAIN queue /\ queue'[i] = queue[i + 1]
    BY <1>1, HeadFacts DEF TypeOK
  <1>3. /\ UNCHANGED <<status, ops, kind, size, shares, raw, drift, reads, crashes>>
        /\ short' = IF filled
                    THEN [short EXCEPT ![queue[1].leg] = @ + queue[1].delta] ELSE short
        /\ net' = IF filled /\ kind = "hedge" /\ Mine(queue[1])
                  THEN [net EXCEPT ![queue[1].leg] = @ + queue[1].delta] ELSE net
    BY <1>2 DEF Place, Filled
  <1>4. /\ excused' = IF /\ kind \in {"hedge", "stop"}
                         /\ \/ filled # told
                            \/ ~filled /\ pc = "undoing"
                            \/ filled /\ ~Mine(queue[1])
                      THEN excused \cup {queue[1].leg} ELSE excused
        /\ late' = IF queue[1].by = "loop" /\ ~HubActive
                   THEN [late EXCEPT ![queue[1].leg] = @ + 1] ELSE late
    BY <1>2 DEF Place
  <1>5. faults' \in 0..MaxFaults
    BY LegsAssumption DEF Place, TypeOK, CountersOK
  <1>6. Mine(queue[1]) => pc \in {"opening", "undoing", "closing"}
    BY DEF Mine, PcInv
  <1>7. /\ told => Returned(queue[1])
        /\ ~told => Raised(queue[1])
    BY <1>2 DEF Place
  <1>8. /\ ~Mine(queue[1]) => UNCHANGED <<wait, opened, pc>>
        /\ Mine(queue[1]) /\ told => wait' = wait \ {queue[1].leg}
        /\ Mine(queue[1]) /\ ~told => wait' = {}
    BY <1>7 DEF Returned, Raised
  <1>9. /\ Mine(queue[1]) /\ pc = "opening" /\ told =>
              pc' = pc /\ opened' = Append(opened, queue[1].leg)
        /\ Mine(queue[1]) /\ pc = "opening" /\ ~told =>
              pc' = (IF kind = "hedge" THEN "undo" ELSE "fail") /\ opened' = opened
        /\ Mine(queue[1]) /\ pc = "undoing" => pc' = "undo" /\ opened' = Tail(opened)
        /\ Mine(queue[1]) /\ pc = "closing" =>
              pc' = (IF told THEN pc ELSE "fail") /\ opened' = opened
    BY <1>7 DEF Returned, Raised, Recorded, PcInv
  <1>. QED
    BY <1>2, <1>3, <1>4, <1>5, <1>6, <1>8, <1>9

(* The estimate of a leg is a number.                                      *)
LEMMA EstimateInt ==
    ASSUME TypeOK, NEW l \in Legs
    PROVE  Estimate(l) \in Int
  <1>. DEFINE S == {raw[l], short[l], 0}
  <1>1. raw[l] \in Int /\ short[l] \in Int
    BY DEF TypeOK, AccountOK
  <1>2. \E x \in S : \A y \in S : x >= y
    BY <1>1
  <1>3. Max(S) \in S
    BY <1>2 DEF Max
  <1>. QED
    BY <1>1, <1>3 DEF Estimate

(* A change of one leg changes that leg alone.                             *)
LEMMA OnlyFacts ==
    ASSUME NEW l \in Legs, NEW n \in Int
    PROVE  /\ Only(l, n) \in [Legs -> Int]
           /\ Only(l, n)[l] = n
           /\ Changed(Only(l, n)) \subseteq {l}
           /\ n # 0 => Changed(Only(l, n)) = {l}
  BY DEF Only, NoLegs, Changed

(* An element appended is added to the range.                              *)
LEMMA RangeAppend ==
    ASSUME NEW S, NEW s \in Seq(S), NEW x \in S
    PROVE  Range(Append(s, x)) = Range(s) \cup {x}
  <1>1. /\ Len(Append(s, x)) = Len(s) + 1 /\ Len(s) \in Nat
        /\ \A i \in 1..Len(s) : Append(s, x)[i] = s[i]
        /\ Append(s, x)[Len(s) + 1] = x
        /\ Append(s, x) \in Seq(S)
    BY AppendProperties, LenProperties
  <1>2. DOMAIN s = 1..Len(s) /\ DOMAIN Append(s, x) = 1..Len(s) + 1
    BY <1>1, LenProperties
  <1>. QED
    BY <1>1, <1>2 DEF Range

(* The leg that is bought back next, and the ones after it.                *)
LEMMA HeadOpened ==
    ASSUME RequestOK, opened # <<>>
    PROVE  /\ Head(opened) \in Legs /\ Tail(opened) \in Seq(Legs)
           /\ Head(opened) = opened[1] /\ 1 \in DOMAIN opened
           /\ DOMAIN opened = 1..Len(opened) /\ Len(opened) \in Nat
           /\ DOMAIN Tail(opened) = 1..Len(opened) - 1
           /\ \A i \in DOMAIN Tail(opened) : Tail(opened)[i] = opened[i + 1]
  <1>1. opened \in Seq(Legs)
    BY DEF RequestOK
  <1>. QED
    BY <1>1, EmptySeq, LenProperties, HeadTailProperties

(* The four steps that send orders, and what they send.                    *)
LEMMA Sends ==
    ASSUME TypeOK, PcInv, Gather \/ OpenNext \/ Undo \/ CloseLegs
    PROVE  /\ ops \in 1..MaxOps /\ status[ops] \in {"starting", "stopping"}
           /\ wait = {} /\ pc # "fail"
           /\ \E d \in [Legs -> Int] :
                 \/ Gather /\ Send(d, "opening") /\ d = size
                 \/ /\ OpenNext /\ Send(d, "opening")
                    /\ \E l \in ToOpen : d = Only(l, size[l])
                 \/ /\ Undo /\ Send(d, "undoing")
                    /\ d = Only(Head(opened), -size[Head(opened)])
                 \/ /\ CloseLegs /\ Send(d, "closing")
                    /\ \A l \in Legs \ excused' :
                          /\ d[l] = -raw[l] /\ raw[l] = short[l]
                          /\ \A i \in DOMAIN queue : queue[i].leg # l
  <1>. USE LegsAssumption DEF TypeOK, RequestOK, AccountOK
  <1>1. CASE Gather
    <2>1. pc = "gather" /\ Send(size, "opening")
      BY <1>1 DEF Gather
    <2>2. size \in [Legs -> Int]
      OBVIOUS
    <2>. QED
      BY <1>1, <2>1, <2>2 DEF PcInv
  <1>2. CASE OpenNext
    <2>1. PICK l \in First(ToOpen) : Send(Only(l, size[l]), "opening")
      BY <1>2 DEF OpenNext
    <2>2. l \in ToOpen /\ l \in Legs /\ size[l] \in Int
      BY <2>1 DEF First, ToOpen
    <2>3. Only(l, size[l]) \in [Legs -> Int]
      BY <2>2, OnlyFacts
    <2>4. /\ ops \in 1..MaxOps /\ status[ops] \in {"starting", "stopping"}
          /\ wait = {} /\ pc # "fail"
      BY <1>2 DEF PcInv, OpenNext
    <2>. QED
      BY <1>2, <2>1, <2>2, <2>3, <2>4
  <1>3. CASE Undo
    <2>1. /\ pc = "undo" /\ opened # <<>>
          /\ Send(Only(Head(opened), -size[Head(opened)]), "undoing")
      BY <1>3 DEF Undo
    <2>2. Head(opened) \in Legs /\ -size[Head(opened)] \in Int
      BY <2>1, HeadOpened
    <2>3. Only(Head(opened), -size[Head(opened)]) \in [Legs -> Int]
      BY <2>2, OnlyFacts
    <2>. QED
      BY <1>3, <2>1, <2>3 DEF PcInv
  <1>4. CASE CloseLegs
    <2>1. pc = "cancel"
      BY <1>4 DEF CloseLegs
    <2>2. PICK blind \in SUBSET Legs :
             /\ Send([l \in Legs |-> IF l \in blind THEN 0 ELSE CloseShown(l)], "closing")
             /\ excused' = blind \cup {l \in Legs : raw[l] # short[l]}
                                 \cup {queue[i].leg : i \in DOMAIN queue}
      BY <1>4 DEF CloseLegs
    <2>. DEFINE d == [l \in Legs |-> IF l \in blind THEN 0 ELSE CloseShown(l)]
    <2>3. d \in [Legs -> Int]
      BY DEF CloseShown
    <2>4. \A l \in Legs \ excused' :
             /\ d[l] = -raw[l] /\ raw[l] = short[l]
             /\ \A i \in DOMAIN queue : queue[i].leg # l
      BY <2>2 DEF CloseShown
    <2>. HIDE DEF d
    <2>5. Send(d, "closing")
      BY <2>2 DEF d
    <2>6. /\ ops \in 1..MaxOps /\ status[ops] \in {"starting", "stopping"}
          /\ wait = {} /\ pc # "fail"
      BY <2>1 DEF PcInv
    <2>. QED
      BY <1>4, <2>3, <2>4, <2>5, <2>6
  <1>. QED
    BY <1>1, <1>2, <1>3, <1>4

(* Every step keeps the types of the request ...                           *)
LEMMA RequestStep == TypeOK /\ PcInv /\ [Next]_vars => RequestOK'
  <1> SUFFICES ASSUME TypeOK, PcInv, [Next]_vars PROVE RequestOK'
    OBVIOUS
  <1>. USE LegsAssumption
       DEF TypeOK, RequestOK, Live, Forget, SetStatus, requestVars
  <1>1. CASE Start
    <2>1. PICK wanted \in [Legs -> Sizes], blind \in SUBSET (IF NLegs > 1 THEN {1} ELSE {}) :
             size' = [l \in Legs |-> IF l \in blind THEN 0 ELSE wanted[l]]
      BY <1>1 DEF Start
    <2>2. size' \in [Legs -> Nat]
      BY <2>1
    <2>. QED
      BY <1>1, <2>2 DEF Start
  <1>2. CASE Hedge
    <2>1. size' \in [Legs -> Nat]
      BY <1>2 DEF Hedge
    <2>. QED
      BY <1>2, <2>1 DEF Hedge
  <1>3. CASE Stop
    BY <1>3 DEF Stop, HubActive
  <1>4. CASE Gather \/ OpenNext \/ Undo \/ CloseLegs
    <2>1. wait' \subseteq Legs /\ pc' \in {"opening", "undoing", "closing"}
      BY <1>4, Sends DEF Send, Awaited, Changed
    <2>2. UNCHANGED <<status, ops, kind, opened, size>>
      BY <1>4 DEF Gather, OpenNext, Undo, CloseLegs
    <2>. QED
      BY <2>1, <2>2
  <1>5. CASE Activate \/ Fail
    <2>1. /\ status' \in {[status EXCEPT ![ops] = "active"], [status EXCEPT ![ops] = "failed"]}
          /\ opened' = <<>> /\ size' = [l \in Legs |-> 0]
      BY <1>5 DEF Activate, Fail, NoLegs
    <2>2. UNCHANGED <<ops, wait>> /\ pc' = "idle" /\ kind' = "none"
      BY <1>5 DEF Activate, Fail
    <2>3. status' \in [1..MaxOps -> Live \cup {"none", "closed", "failed"}]
      BY <2>1
    <2>4. opened' \in Seq(Legs) /\ size' \in [Legs -> Nat]
      BY <2>1
    <2>5. ops' \in 0..MaxOps /\ wait' \subseteq Legs
      BY <2>2
    <2>. QED
      BY <2>2, <2>3, <2>4, <2>5
  <1>6. CASE CloseOperation
    <2>1. status' \in [1..MaxOps -> Live \cup {"none", "closed", "failed"}]
      BY <1>6 DEF CloseOperation
    <2>5. opened' \in Seq(Legs)
      BY <1>6 DEF CloseOperation
    <2>2. size' \in [Legs -> Nat]
      BY <1>6 DEF CloseOperation, NoLegs
    <2>3. ops' \in 0..MaxOps /\ wait' \subseteq Legs
      BY <1>6 DEF CloseOperation
    <2>4. kind' = "none" /\ pc' = "idle"
      BY <1>6 DEF CloseOperation
    <2>. QED
      BY <2>1, <2>2, <2>3, <2>4, <2>5
  <1>7. CASE StopRaises
    BY <1>7 DEF StopRaises
  <1>8. CASE LoopRead
    BY <1>8 DEF LoopRead
  <1>9. CASE LoopFire
    BY <1>9 DEF LoopFire
  <1>10. ASSUME NEW filled \in BOOLEAN, NEW told \in BOOLEAN, Place(filled, told)
         PROVE  RequestOK'
    <2>1. UNCHANGED <<status, ops, kind, size>>
      BY <1>10 DEF Place
    <2>2. wait' \subseteq Legs
      BY <1>10, PlaceFacts
    <2>3. opened' \in Seq(Legs)
      <3>1. Append(opened, queue[1].leg) \in Seq(Legs)
        BY <1>10, PlaceFacts DEF OrderSet
      <3>2. pc = "undoing" => Tail(opened) \in Seq(Legs)
        BY HeadOpened DEF PcInv
      <3>. QED
        BY <1>10, <3>1, <3>2, PlaceFacts
    <2>4. pc' \in {"idle", "gather", "opening", "undo", "undoing", "cancel", "closing", "fail"}
      BY <1>10, PlaceFacts
    <2>. QED
      BY <2>1, <2>2, <2>3, <2>4
  <1>11. ASSUME NEW l \in Legs, Message(l) \/ Reconcile(l) PROVE RequestOK'
    BY <1>11 DEF Message, Reconcile
  <1>12. CASE Crash
    BY <1>12 DEF Crash, NoLegs
  <1>13. CASE UNCHANGED vars
    BY <1>13 DEF vars
  <1>. QED
    BY <1>1, <1>2, <1>3, <1>4, <1>5, <1>6, <1>7, <1>8, <1>9, <1>10, <1>11,
       <1>12, <1>13 DEF Next, Request, Placement

(* The steps that change the queue.                                        *)
LEMMA QueueMoves ==
    ASSUME [Next]_vars
    PROVE  \/ UNCHANGED queue
           \/ Gather \/ OpenNext \/ Undo \/ CloseLegs
           \/ LoopFire
           \/ \E filled, told \in BOOLEAN : Place(filled, told)
           \/ Crash
  <1>1. Start \/ Hedge \/ Stop \/ Activate \/ Fail => UNCHANGED queue
    BY DEF Start, Hedge, Stop, Activate, Fail
  <1>2. CloseOperation \/ StopRaises \/ LoopRead => UNCHANGED queue
    BY DEF CloseOperation, StopRaises, LoopRead
  <1>3. \A l \in Legs : Message(l) \/ Reconcile(l) => UNCHANGED queue
    BY DEF Message, Reconcile
  <1>. QED
    BY <1>1, <1>2, <1>3 DEF Next, Request, Placement, vars

(* A drift order is appended to the queue and taken out of the drifts.     *)
LEMMA FireFacts ==
    ASSUME TypeOK, LoopInv, LoopFire
    PROVE  \E l \in Legs :
              /\ drift[l] \in Int \ {0} /\ drift' = [drift EXCEPT ![l] = 0]
              /\ \A i \in DOMAIN queue : queue[i].by # "loop"
              /\ queue' \in Seq(OrderSet)
              /\ \A i \in DOMAIN queue' :
                    \/ i \in DOMAIN queue /\ queue'[i] = queue[i]
                    \/ i = Len(queue) + 1 /\ queue'[i] = Order(l, drift[l], "loop")
  <1>. USE LegsAssumption
  <1>1. PICK l \in First(Changed(drift)) :
           /\ queue' = Append(queue, Order(l, drift[l], "loop"))
           /\ drift' = [drift EXCEPT ![l] = 0]
    BY DEF LoopFire
  <1>2. l \in Legs /\ drift[l] \in Int \ {0}
    BY <1>1 DEF First, Changed, TypeOK, AccountOK
  <1>3. ops \in 1..MaxOps
    BY <1>2 DEF LoopInv, NoLegs, TypeOK, RequestOK
  <1>4. Order(l, drift[l], "loop") \in OrderSet
    BY <1>2, <1>3 DEF Order, OrderSet
  <1>5. queue \in Seq(OrderSet)
    BY DEF TypeOK, QueueOK
  <1>6. /\ queue' \in Seq(OrderSet) /\ Len(queue') = Len(queue) + 1
        /\ \A i \in 1..Len(queue) : queue'[i] = queue[i]
        /\ queue'[Len(queue) + 1] = Order(l, drift[l], "loop")
    BY <1>1, <1>4, <1>5, AppendProperties
  <1>7. /\ DOMAIN queue = 1..Len(queue) /\ Len(queue) \in Nat
        /\ DOMAIN queue' = 1..Len(queue) + 1
    BY <1>5, <1>6, LenProperties
  <1>8. \A i \in DOMAIN queue : queue[i].by # "loop"
    BY DEF LoopFire
  <1>9. \A i \in DOMAIN queue' :
           \/ i \in DOMAIN queue /\ queue'[i] = queue[i]
           \/ i = Len(queue) + 1 /\ queue'[i] = Order(l, drift[l], "loop")
    BY <1>6, <1>7
  <1>. QED
    BY <1>1, <1>2, <1>6, <1>8, <1>9

(* ... of the queue ...                                                    *)
LEMMA QueueTypeStep == TypeOK /\ PcInv /\ LoopInv /\ [Next]_vars => QueueOK'
  <1> SUFFICES ASSUME TypeOK, PcInv, LoopInv, [Next]_vars PROVE QueueOK'
    OBVIOUS
  <1>1. CASE UNCHANGED queue
    BY <1>1 DEF TypeOK, QueueOK, OrderSet
  <1>2. CASE Gather \/ OpenNext \/ Undo \/ CloseLegs
    <2>1. PICK d \in [Legs -> Int], at \in {"opening", "undoing", "closing"} : Send(d, at)
      BY <1>2, Sends
    <2>. QED
      BY <1>2, <2>1, Sends, SendFacts DEF TypeOK, QueueOK, OrderSet
  <1>3. CASE LoopFire
    BY <1>3, FireFacts DEF QueueOK, OrderSet
  <1>4. ASSUME NEW filled \in BOOLEAN, NEW told \in BOOLEAN, Place(filled, told)
        PROVE  QueueOK'
    BY <1>4, PlaceFacts DEF QueueOK, OrderSet
  <1>5. CASE Crash
    BY <1>5 DEF Crash, QueueOK
  <1>. QED
    BY <1>1, <1>2, <1>3, <1>4, <1>5, QueueMoves

(* ... of the account ...                                                  *)
LEMMA AccountStep == TypeOK /\ PcInv /\ LoopInv /\ [Next]_vars => AccountOK'
  <1> SUFFICES ASSUME TypeOK, PcInv, LoopInv, [Next]_vars PROVE AccountOK'
    OBVIOUS
  <1>. USE LegsAssumption DEF TypeOK, AccountOK, accountVars
  <1>1. CASE Start \/ Hedge \/ Stop
    BY <1>1 DEF Start, Hedge, Stop
  <1>2. CASE Gather \/ OpenNext \/ Undo \/ CloseLegs
    BY <1>2 DEF Gather, OpenNext, Undo, CloseLegs
  <1>3. CASE Activate \/ Fail
    BY <1>3 DEF Activate, Fail
  <1>4. CASE CloseOperation
    BY <1>4 DEF CloseOperation
  <1>5. CASE StopRaises
    BY <1>5 DEF StopRaises
  <1>6. CASE LoopRead
    <2>1. PICK wanted \in [Legs -> Sizes] :
             drift' = [l \in Legs |-> wanted[l] - Estimate(l)]
      BY <1>6 DEF LoopRead
    <2>2. ASSUME NEW l \in Legs PROVE wanted[l] - Estimate(l) \in Int
      <3>. DEFINE e == Estimate(l)
      <3>1. e \in Int
        BY EstimateInt
      <3>2. wanted[l] \in Int
        <4>1. wanted[l] \in Sizes
          BY <2>1
        <4>2. Sizes \subseteq Int
          BY LegsAssumption
        <4>. QED
          BY <4>1, <4>2, Zenon
      <3>. HIDE DEF e
      <3>3. wanted[l] - e \in Int
        BY <3>1, <3>2
      <3>. QED
        BY <3>3 DEF e
    <2>3. drift' \in [Legs -> Int]
      BY <2>1, <2>2
    <2>. QED
      BY <1>6, <2>3 DEF LoopRead
  <1>7. CASE LoopFire
    <2>1. drift' \in [Legs -> Int]
      BY <1>7, FireFacts
    <2>. QED
      BY <1>7, <2>1 DEF LoopFire
  <1>8. ASSUME NEW filled \in BOOLEAN, NEW told \in BOOLEAN, Place(filled, told)
        PROVE  AccountOK'
    <2>1. queue[1].leg \in Legs /\ queue[1].delta \in Int
      BY <1>8, PlaceFacts DEF OrderSet
    <2>2. short' \in [Legs -> Int]
      BY <1>8, <2>1, PlaceFacts
    <2>. QED
      BY <1>8, <2>2, PlaceFacts
  <1>9. ASSUME NEW l \in Legs, Message(l) \/ Reconcile(l) PROVE AccountOK'
    <2>1. raw' \in [Legs -> Int]
      BY <1>9 DEF Message, Reconcile
    <2>. QED
      BY <1>9, <2>1 DEF Message, Reconcile
  <1>10. CASE Crash
    <2>1. short' \in [Legs -> Int]
      <3>1. ASSUME queue # <<>>
            PROVE  Head(queue).leg \in Legs /\ Head(queue).delta \in Int
        <4>1. queue \in Seq(OrderSet)
          BY DEF QueueOK
        <4>2. Head(queue) \in OrderSet
          BY <3>1, <4>1, HeadTailProperties
        <4>. QED
          BY <4>2 DEF OrderSet
      <3>. QED
        BY <1>10, <3>1 DEF Crash, Filled
    <2>. QED
      BY <1>10, <2>1 DEF Crash, NoLegs
  <1>11. CASE UNCHANGED vars
    BY <1>11 DEF vars
  <1>. QED
    BY <1>1, <1>2, <1>3, <1>4, <1>5, <1>6, <1>7, <1>8, <1>9, <1>10, <1>11
       DEF Next, Request, Placement

(* ... of the bounded counters ...                                         *)
LEMMA CountersStep == TypeOK /\ PcInv /\ [Next]_vars => CountersOK'
  <1> SUFFICES ASSUME TypeOK, PcInv, [Next]_vars PROVE CountersOK'
    OBVIOUS
  <1>. USE LegsAssumption DEF TypeOK, CountersOK
  <1>1. CASE Start
    <2>1. PICK blind \in SUBSET (IF NLegs > 1 THEN {1} ELSE {}) : Unpriced(blind)
      BY <1>1 DEF Start
    <2>. QED
      BY <1>1, <2>1 DEF Start, Unpriced
  <1>2. CASE Hedge \/ Stop
    BY <1>2 DEF Hedge, Stop
  <1>3. CASE Gather \/ OpenNext \/ Undo
    BY <1>3 DEF Gather, OpenNext, Undo
  <1>4. CASE CloseLegs
    <2>1. PICK blind \in SUBSET (IF NLegs > 1 THEN Legs ELSE {}) : Unpriced(blind)
      BY <1>4 DEF CloseLegs
    <2>. QED
      BY <1>4, <2>1 DEF CloseLegs, Unpriced
  <1>5. CASE Activate \/ Fail
    BY <1>5 DEF Activate, Fail
  <1>6. CASE CloseOperation \/ StopRaises
    <2>1. faults' \in 0..MaxFaults
      <3>1. faults' = faults \/ (faults < MaxFaults /\ faults' = faults + 1)
        BY <1>6 DEF CloseOperation, StopRaises
      <3>2. faults \in 0..MaxFaults /\ MaxFaults \in Nat
        OBVIOUS
      <3>. QED
        BY <3>1, <3>2
    <2>2. reads' = reads /\ crashes' = crashes
      BY <1>6 DEF CloseOperation, StopRaises
    <2>. QED
      BY <2>1, <2>2
  <1>7. CASE LoopRead \/ LoopFire
    BY <1>7 DEF LoopRead, LoopFire
  <1>8. ASSUME NEW filled \in BOOLEAN, NEW told \in BOOLEAN, Place(filled, told)
        PROVE  CountersOK'
    <2>1. faults' \in 0..MaxFaults
      BY <1>8, PlaceFacts
    <2>2. reads' = reads /\ crashes' = crashes
      BY <1>8 DEF Place
    <2>. QED
      BY <2>1, <2>2
  <1>9. ASSUME NEW l \in Legs, Message(l) \/ Reconcile(l) PROVE CountersOK'
    BY <1>9 DEF Message, Reconcile
  <1>10. CASE Crash
    BY <1>10 DEF Crash
  <1>11. CASE UNCHANGED vars
    BY <1>11 DEF vars
  <1>. QED
    BY <1>1, <1>2, <1>3, <1>4, <1>5, <1>6, <1>7, <1>8, <1>9, <1>10, <1>11
       DEF Next, Request, Placement

(* ... and of the history.                                                 *)
LEMMA HistoryStep == TypeOK /\ PcInv /\ [Next]_vars => HistoryOK'
  <1> SUFFICES ASSUME TypeOK, PcInv, [Next]_vars PROVE HistoryOK'
    OBVIOUS
  <1>. USE LegsAssumption DEF TypeOK, HistoryOK, Forget, historyVars
  <1>1. CASE Start \/ Hedge \/ Stop
    BY <1>1 DEF Start, Hedge, Stop
  <1>2. CASE Gather \/ OpenNext \/ Undo
    BY <1>2 DEF Gather, OpenNext, Undo
  <1>3. CASE CloseLegs
    <2>1. excused' \subseteq Legs
      <3>1. PICK blind \in SUBSET (IF NLegs > 1 THEN Legs ELSE {}) :
               excused' = blind \cup {l \in Legs : raw[l] # short[l]}
                                \cup {queue[i].leg : i \in DOMAIN queue}
        BY <1>3 DEF CloseLegs
      <3>2. \A i \in DOMAIN queue : queue[i].leg \in Legs
        BY OrdersOK DEF OrderSet
      <3>. QED
        BY <3>1, <3>2
    <2>. QED
      BY <1>3, <2>1 DEF CloseLegs
  <1>4. CASE Activate \/ Fail
    <2>1. excused' = {} /\ net' = [l \in Legs |-> 0]
      BY <1>4 DEF Activate, Fail, NoLegs
    <2>2. late' \in [Legs -> Nat]
      BY <1>4 DEF Activate, Fail, NoLegs
    <2>. QED
      BY <2>1, <2>2
  <1>5. CASE CloseOperation
    BY <1>5 DEF CloseOperation, NoLegs
  <1>6. CASE StopRaises \/ LoopRead \/ LoopFire
    BY <1>6 DEF StopRaises, LoopRead, LoopFire
  <1>7. ASSUME NEW filled \in BOOLEAN, NEW told \in BOOLEAN, Place(filled, told)
        PROVE  HistoryOK'
    <2>1. queue[1].leg \in Legs /\ queue[1].delta \in Int
      BY <1>7, PlaceFacts DEF OrderSet
    <2>2. net' \in [Legs -> Int]
      BY <1>7, <2>1, PlaceFacts
    <2>3. late' \in [Legs -> Nat]
      BY <1>7, <2>1, PlaceFacts
    <2>4. excused' \subseteq Legs
      BY <1>7, <2>1, PlaceFacts
    <2>. QED
      BY <2>2, <2>3, <2>4
  <1>8. ASSUME NEW l \in Legs, Message(l) \/ Reconcile(l) PROVE HistoryOK'
    BY <1>8 DEF Message, Reconcile
  <1>9. CASE Crash
    BY <1>9 DEF Crash, NoLegs
  <1>10. CASE UNCHANGED vars
    BY <1>10 DEF vars
  <1>. QED
    BY <1>1, <1>2, <1>3, <1>4, <1>5, <1>6, <1>7, <1>8, <1>9, <1>10
       DEF Next, Request, Placement

(***************************************************************************)
(* Where the request is.                                                   *)
(***************************************************************************)

(* Every step keeps PcInv.                                                 *)
LEMMA PcStep == IInv /\ [Next]_vars => PcInv'
  <1> SUFFICES ASSUME TypeOK, PcInv, UndoInv, [Next]_vars PROVE PcInv'
    BY DEF IInv
  <1>. USE LegsAssumption DEF TypeOK, RequestOK, Live, SetStatus, Forget, requestVars
  <1>1. CASE Start
    BY <1>1 DEF Start, PcInv
  <1>2. CASE Hedge
    BY <1>2 DEF Hedge, PcInv
  <1>3. CASE Stop
    BY <1>3 DEF Stop, PcInv, HubActive
  <1>4. CASE Gather \/ OpenNext \/ Undo \/ CloseLegs
    <2>1. UNCHANGED <<status, ops, kind, opened>>
      BY <1>4 DEF Gather, OpenNext, Undo, CloseLegs
    <2>2. CASE Gather
      BY <2>1, <2>2 DEF Gather, Send, PcInv
    <2>3. CASE OpenNext
      <3>1. PICK l \in First(ToOpen) : Send(Only(l, size[l]), "opening")
        BY <2>3 DEF OpenNext
      <3>2. l \in Legs /\ size[l] \in Int
        BY <3>1 DEF First, ToOpen
      <3>3. wait' \subseteq {l} /\ pc' = "opening"
        BY <3>1, <3>2, OnlyFacts DEF Send, Awaited
      <3>. QED
        BY <2>1, <2>3, <3>3 DEF OpenNext, PcInv
    <2>4. CASE Undo
      <3>1. wait' \subseteq {Head(opened)} /\ pc' = "undoing"
        <4>1. opened # <<>>
          BY <2>4 DEF Undo
        <4>2. Head(opened) \in Legs /\ -size[Head(opened)] \in Int
          BY <4>1, HeadOpened
        <4>3. Changed(Only(Head(opened), -size[Head(opened)])) \subseteq {Head(opened)}
          BY <4>2, OnlyFacts
        <4>. QED
          BY <2>4, <4>3 DEF Undo, Send, Awaited
      <3>. QED
        BY <2>1, <2>4, <3>1 DEF Undo, PcInv
    <2>5. CASE CloseLegs
      BY <2>1, <2>5 DEF CloseLegs, Send, PcInv
    <2>. QED
      BY <1>4, <2>2, <2>3, <2>4, <2>5
  <1>5. CASE Activate
    BY <1>5 DEF Activate, PcInv
  <1>6. CASE Fail
    BY <1>6 DEF Fail, PcInv
  <1>7. CASE CloseOperation
    BY <1>7 DEF CloseOperation, PcInv
  <1>8. CASE StopRaises
    BY <1>8 DEF StopRaises, PcInv
  <1>9. CASE LoopRead \/ LoopFire
    BY <1>9 DEF LoopRead, LoopFire, PcInv
  <1>10. ASSUME NEW filled \in BOOLEAN, NEW told \in BOOLEAN, Place(filled, told)
         PROVE  PcInv'
    <2>1. UNCHANGED <<status, ops, kind>>
      BY <1>10, PlaceFacts
    <2>2. CASE ~Mine(queue[1])
      BY <1>10, <2>1, <2>2, PlaceFacts DEF PcInv
    <2>3. CASE Mine(queue[1])
      <3>1. wait' \subseteq wait /\ pc \in {"opening", "undoing", "closing"}
        BY <1>10, <2>3, PlaceFacts
      <3>2. CASE told /\ pc \in {"opening", "closing"}
        <4>1. pc' = pc
          BY <1>10, <2>3, <3>2, PlaceFacts
        <4>. QED
          BY <2>1, <3>1, <3>2, <4>1 DEF PcInv
      <3>3. CASE pc = "undoing"
        <4>1. pc' = "undo" /\ kind = "hedge" /\ wait' = {}
          <5>1. Mine(queue[1]) => queue[1].leg \in wait
            BY DEF Mine
          <5>. QED
            BY <1>10, <2>3, <3>3, <5>1, PlaceFacts DEF PcInv
        <4>. QED
          BY <2>1, <3>3, <4>1 DEF PcInv
      <3>4. CASE ~told /\ pc \in {"opening", "closing"}
        <4>1. /\ pc' = (IF pc = "opening" /\ kind = "hedge" THEN "undo" ELSE "fail")
              /\ wait' = {}
          BY <1>10, <2>3, <3>4, PlaceFacts
        <4>. QED
          BY <2>1, <3>4, <4>1 DEF PcInv
      <3>. QED
        BY <3>1, <3>2, <3>3, <3>4
    <2>. QED
      BY <2>2, <2>3
  <1>11. ASSUME NEW l \in Legs, Message(l) \/ Reconcile(l) PROVE PcInv'
    BY <1>11 DEF Message, Reconcile, PcInv
  <1>12. CASE Crash
    BY <1>12 DEF Crash, PcInv
  <1>13. CASE UNCHANGED vars
    BY <1>13 DEF vars, PcInv
  <1>. QED
    BY <1>1, <1>2, <1>3, <1>4, <1>5, <1>6, <1>7, <1>8, <1>9, <1>10, <1>11,
       <1>12, <1>13 DEF Next, Request, Placement

(***************************************************************************)
(* Whose orders are in the queue.                                          *)
(***************************************************************************)

(* A request that awaits no order and has not failed has none under way.   *)
LEMMA NoOwn ==
    ASSUME QueueInv, wait = {}, pc # "fail", status[ops] # "failed"
    PROVE  \A i \in DOMAIN queue : ~Own(queue[i])
  BY DEF QueueInv, Own, Accounted

(* Every step keeps QueueInv.                                              *)
LEMMA QueueStep == IInv /\ [Next]_vars => QueueInv'
  <1> SUFFICES ASSUME TypeOK, PcInv, QueueInv, LoopInv, [Next]_vars PROVE QueueInv'
    BY DEF IInv
  <1>. USE LegsAssumption DEF SetStatus, Forget, requestVars
  <1>. DEFINE Ready == wait = {} /\ pc # "fail" /\ status[ops] # "failed"
  <1>0. /\ ops \in 0..MaxOps /\ DOMAIN status = 1..MaxOps
        /\ \A i \in DOMAIN queue : queue[i].op \in 1..MaxOps
    BY OrdersOK DEF TypeOK, RequestOK, OrderSet
  <1>1. CASE Start \/ Hedge
    <2>1. /\ pc = "idle" /\ wait = {} /\ ops' = ops + 1 /\ UNCHANGED queue
          /\ status' = [status EXCEPT ![ops + 1] = "starting"]
      BY <1>1 DEF Start, Hedge, PcInv
    <2>2. ASSUME NEW i \in DOMAIN queue, queue[i].by = "request"
          PROVE  queue[i].op =< ops /\ status[queue[i].op] = "failed"
      BY <2>1, <2>2 DEF QueueInv, Accounted
    <2>. QED
      BY <1>0, <2>1, <2>2 DEF QueueInv, Accounted, Own
  <1>2. CASE Stop \/ Activate \/ CloseOperation
    <2>1. /\ Ready /\ UNCHANGED <<queue, ops>>
          /\ \E s \in {"stopping", "active", "closed"} : status' = [status EXCEPT ![ops] = s]
      BY <1>2 DEF Stop, Activate, CloseOperation, PcInv, HubActive
    <2>2. \A i \in DOMAIN queue : ~Own(queue[i])
      BY <2>1, NoOwn
    <2>. QED
      BY <1>0, <2>1, <2>2 DEF QueueInv, Accounted, Own
  <1>3. CASE Fail
    <2>1. wait = {} /\ UNCHANGED <<queue, ops>> /\ status' = [status EXCEPT ![ops] = "failed"]
      BY <1>3 DEF Fail, PcInv
    <2>. QED
      BY <1>0, <2>1 DEF QueueInv, Accounted, Own
  <1>4. CASE StopRaises
    BY <1>4 DEF StopRaises, QueueInv, Accounted, Own
  <1>5. CASE Gather \/ OpenNext \/ Undo \/ CloseLegs
    <2>1. UNCHANGED <<status, ops>> /\ Ready /\ ops \in 1..MaxOps
      BY <1>5, Sends DEF Gather, OpenNext, Undo, CloseLegs
    <2>2. PICK d \in [Legs -> Int], at \in {"opening", "undoing", "closing"} : Send(d, at)
      BY <1>5, Sends
    <2>3. \A i \in DOMAIN queue : ~Own(queue[i])
      BY <2>1, NoOwn
    <2>4. \A i \in DOMAIN queue' :
             \/ i \in DOMAIN queue /\ queue'[i] = queue[i]
             \/ /\ i \notin DOMAIN queue
                /\ queue'[i].op = ops /\ queue'[i].leg \in wait'
      BY <2>1, <2>2, SendFacts DEF Order, TypeOK
    <2>5. \A i, j \in DOMAIN queue' :
             i \notin DOMAIN queue /\ j \notin DOMAIN queue /\ i # j
                => queue'[i].leg # queue'[j].leg
      BY <2>1, <2>2, SendFacts DEF TypeOK
    <2>6. ASSUME NEW i \in DOMAIN queue', queue'[i].by = "request" PROVE Accounted(queue[i])'
      BY <1>0, <2>1, <2>3, <2>4, <2>6 DEF QueueInv, Accounted, Own
    <2>7. ASSUME NEW i \in DOMAIN queue', NEW j \in DOMAIN queue',
                 i # j, Own(queue[i])', Own(queue[j])'
          PROVE  queue'[i].leg # queue'[j].leg
      BY <2>1, <2>3, <2>4, <2>5, <2>7 DEF Own
    <2>. QED
      BY <2>6, <2>7 DEF QueueInv
  <1>6. CASE LoopRead
    BY <1>6 DEF LoopRead, QueueInv, Accounted, Own
  <1>7. CASE LoopFire
    <2>1. UNCHANGED <<status, ops, pc, wait>>
      BY <1>7 DEF LoopFire
    <2>2. \A i \in DOMAIN queue' :
             \/ i \in DOMAIN queue /\ queue'[i] = queue[i]
             \/ queue'[i].by = "loop"
      BY <1>7, FireFacts DEF Order
    <2>. QED
      BY <2>1, <2>2 DEF QueueInv, Accounted, Own
  <1>8. ASSUME NEW filled \in BOOLEAN, NEW told \in BOOLEAN, Place(filled, told)
        PROVE  QueueInv'
    <2>1. UNCHANGED <<status, ops, kind>> /\ 1 \in DOMAIN queue
      BY <1>8, PlaceFacts
    <2>2. \A i \in DOMAIN queue' :
             i \in Nat \ {0} /\ i + 1 \in DOMAIN queue /\ queue'[i] = queue[i + 1]
      BY <1>8, PlaceFacts
    <2>3. ASSUME NEW i \in DOMAIN queue', NEW j \in DOMAIN queue',
                 i # j, Own(queue[i])', Own(queue[j])'
          PROVE  queue'[i].leg # queue'[j].leg
      <3>1. i + 1 # j + 1 /\ i + 1 # 1
        BY <2>2, <2>3
      <3>. QED
        BY <2>1, <2>2, <2>3, <3>1 DEF QueueInv, Own
    <2>4. ASSUME NEW i \in DOMAIN queue', queue'[i].by = "request" PROVE Accounted(queue[i])'
      <3>. DEFINE k == i + 1
      <3>1. k \in DOMAIN queue /\ k # 1 /\ queue'[i] = queue[k]
        BY <2>2
      <3>. HIDE DEF k
      <3>2. Accounted(queue[k])
        BY <2>4, <3>1 DEF QueueInv
      <3>3. CASE ~Mine(queue[1])
        BY <1>8, <2>1, <3>1, <3>2, <3>3, PlaceFacts DEF Accounted
      <3>4. CASE Mine(queue[1]) /\ (status[queue[k].op] = "failed" \/ queue[k].op # ops)
        BY <2>1, <3>1, <3>2, <3>4 DEF Accounted
      <3>5. CASE Mine(queue[1]) /\ status[queue[k].op] # "failed" /\ queue[k].op = ops
        <4>1. /\ Own(queue[1]) /\ Own(queue[k]) /\ queue[k].leg # queue[1].leg
              /\ queue[1].leg \in wait
          BY <2>1, <2>4, <3>1, <3>5 DEF Mine, Own, QueueInv
        <4>2. queue[k].leg \in wait
          BY <3>2, <3>5, PlaceFacts, <1>8 DEF Accounted
        <4>3. kind # "hedge"
          BY <4>1, <4>2 DEF PcInv
        <4>4. pc # "undoing"
          BY <4>3 DEF PcInv
        <4>5. told => wait' = wait \ {queue[1].leg}
          BY <1>8, <3>5, PlaceFacts
        <4>6. ~told => pc' = "fail"
          BY <1>8, <3>5, <4>3, <4>4, PlaceFacts
        <4>. QED
          BY <2>1, <3>1, <3>2, <3>5, <4>1, <4>2, <4>5, <4>6 DEF Accounted
      <3>. QED
        BY <3>3, <3>4, <3>5
    <2>. QED
      BY <2>3, <2>4 DEF QueueInv
  <1>9. ASSUME NEW l \in Legs, Message(l) \/ Reconcile(l) PROVE QueueInv'
    BY <1>9 DEF Message, Reconcile, QueueInv, Accounted, Own
  <1>10. CASE Crash
    <2>1. queue' = <<>>
      BY <1>10 DEF Crash
    <2>2. DOMAIN queue' = {}
      BY <2>1
    <2>. QED
      BY <2>2 DEF QueueInv
  <1>11. CASE UNCHANGED vars
    BY <1>11 DEF vars, QueueInv, Accounted, Own
  <1>. QED
    BY <1>1, <1>2, <1>3, <1>4, <1>5, <1>6, <1>7, <1>8, <1>9, <1>10, <1>11
       DEF Next, Request, Placement

(***************************************************************************)
(* What the main loop has under way.                                       *)
(***************************************************************************)

(* Every step keeps LoopInv.                                               *)
LEMMA LoopStep == IInv /\ [Next]_vars => LoopInv'
  <1> SUFFICES ASSUME TypeOK, PcInv, LoopInv, [Next]_vars PROVE LoopInv'
    BY DEF IInv
  <1>. USE LegsAssumption DEF SetStatus, requestVars, historyVars
  <1>0. ops \in 0..MaxOps /\ DOMAIN status = 1..MaxOps
    BY DEF TypeOK, RequestOK
  <1>1. CASE Start \/ Hedge
    <2>1. /\ ops' = ops + 1 /\ ops < MaxOps /\ UNCHANGED <<queue, drift, late>>
          /\ status' = [status EXCEPT ![ops + 1] = "starting"]
      BY <1>1 DEF Start, Hedge
    <2>2. ~HubActive'
      BY <1>0, <2>1 DEF HubActive
    <2>. QED
      BY <1>0, <2>1, <2>2 DEF LoopInv
  <1>2. CASE Stop \/ Fail \/ CloseOperation
    <2>1. /\ UNCHANGED <<ops, queue, drift, late>>
          /\ \E s \in {"stopping", "failed", "closed"} : status' = [status EXCEPT ![ops] = s]
      BY <1>2 DEF Stop, Fail, CloseOperation
    <2>2. ~HubActive'
      BY <1>0, <2>1 DEF HubActive
    <2>. QED
      BY <2>1, <2>2 DEF LoopInv
  <1>3. CASE Activate
    <2>1. UNCHANGED <<ops, queue, drift>> /\ late' = [l \in Legs |-> 0]
      BY <1>3 DEF Activate, NoLegs
    <2>2. \A i \in DOMAIN queue : queue[i].leg \in Legs
      BY OrdersOK DEF TypeOK, OrderSet
    <2>3. late' = NoLegs
      BY <2>1 DEF NoLegs
    <2>. QED
      BY <2>1, <2>2, <2>3 DEF LoopInv
  <1>4. CASE Gather \/ OpenNext \/ Undo \/ CloseLegs
    <2>1. UNCHANGED <<status, ops, drift, late>> /\ ops \in 1..MaxOps
      BY <1>4, Sends DEF Gather, OpenNext, Undo, CloseLegs
    <2>2. PICK d \in [Legs -> Int], at \in {"opening", "undoing", "closing"} : Send(d, at)
      BY <1>4, Sends
    <2>3. \A i \in DOMAIN queue' :
             \/ i \in DOMAIN queue /\ queue'[i] = queue[i]
             \/ queue'[i].by = "request"
      BY <2>1, <2>2, SendFacts DEF Order, TypeOK
    <2>. QED
      BY <2>1, <2>3 DEF LoopInv, HubActive
  <1>5. CASE StopRaises
    BY <1>5 DEF StopRaises, LoopInv, HubActive
  <1>6. CASE LoopRead
    <2>1. /\ HubActive /\ UNCHANGED <<status, ops, queue, late>>
          /\ \A i \in DOMAIN queue : queue[i].by # "loop"
      BY <1>6 DEF LoopRead, LoopIdle, MayTrade
    <2>2. late = [l \in Legs |-> 0]
      BY <2>1 DEF LoopInv, NoLegs
    <2>. QED
      BY <2>1, <2>2 DEF LoopInv, HubActive
  <1>7. CASE LoopFire
    <2>1. PICK l \in Legs :
              /\ drift[l] \in Int \ {0} /\ drift' = [drift EXCEPT ![l] = 0]
              /\ \A i \in DOMAIN queue : queue[i].by # "loop"
              /\ \A i \in DOMAIN queue' :
                    \/ i \in DOMAIN queue /\ queue'[i] = queue[i]
                    \/ i = Len(queue) + 1 /\ queue'[i] = Order(l, drift[l], "loop")
      BY <1>7, FireFacts
    <2>2. UNCHANGED <<status, ops, late>>
      BY <1>7 DEF LoopFire
    <2>3. drift \in [Legs -> Int] /\ drift'[l] = 0 /\ late[l] = 0 /\ ops > 0
      BY <2>1 DEF LoopInv, TypeOK, AccountOK, NoLegs
    <2>4. \A i \in DOMAIN queue' : queue'[i].by = "loop" =>
             i = Len(queue) + 1 /\ queue'[i].leg = l
      BY <2>1 DEF Order
    <2>5. \A k \in Legs : late'[k] =< 1 /\ (drift'[k] # 0 => late'[k] = 0)
      BY <2>1, <2>2, <2>3 DEF LoopInv
    <2>. QED
      BY <2>2, <2>3, <2>4, <2>5 DEF LoopInv, HubActive
  <1>8. ASSUME NEW filled \in BOOLEAN, NEW told \in BOOLEAN, Place(filled, told)
        PROVE  LoopInv'
    <2>. DEFINE m == queue[1].leg
    <2>1. /\ UNCHANGED <<status, ops, drift>> /\ 1 \in DOMAIN queue /\ m \in Legs
          /\ late' = IF queue[1].by = "loop" /\ ~HubActive
                     THEN [late EXCEPT ![m] = @ + 1] ELSE late
      BY <1>8, PlaceFacts DEF OrderSet
    <2>2. \A i \in DOMAIN queue' :
             i \in Nat \ {0} /\ i + 1 \in DOMAIN queue /\ queue'[i] = queue[i + 1]
      BY <1>8, PlaceFacts
    <2>3. late \in [Legs -> Nat]
      BY DEF TypeOK, HistoryOK
    <2>4. CASE queue[1].by = "loop" /\ ~HubActive
      <3>1. late[m] = 0 /\ drift[m] = 0
        BY <2>1, <2>4 DEF LoopInv
      <3>2. \A i \in DOMAIN queue' : queue'[i].by # "loop"
        <4>1. \A i \in DOMAIN queue' : i + 1 # 1
          BY <2>2
        <4>. QED
          BY <2>1, <2>2, <2>4, <4>1 DEF LoopInv
      <3>3. late' = [late EXCEPT ![m] = 1]
        BY <2>1, <2>4, <3>1
      <3>. HIDE DEF m
      <3>4. \A l \in Legs : late'[l] =< 1 /\ (drift'[l] # 0 => late'[l] = 0)
        BY <2>1, <2>3, <3>1, <3>3 DEF LoopInv
      <3>5. ~HubActive'
        BY <2>1, <2>4 DEF HubActive
      <3>. QED
        BY <2>1, <3>2, <3>4, <3>5 DEF LoopInv
    <2>5. CASE ~(queue[1].by = "loop" /\ ~HubActive)
      <3>1. late' = late
        BY <2>1, <2>5
      <3>2. ASSUME NEW i \in DOMAIN queue', NEW j \in DOMAIN queue',
                   queue'[i].by = "loop", queue'[j].by = "loop"
            PROVE  i = j
        <4>1. i + 1 = j + 1
          BY <2>2, <3>2 DEF LoopInv
        <4>. QED
          BY <2>2, <4>1
      <3>3. \A i \in DOMAIN queue' : queue'[i].by = "loop" =>
               late[queue'[i].leg] = 0 /\ drift[queue'[i].leg] = 0
        BY <2>2 DEF LoopInv
      <3>. HIDE DEF m
      <3>. QED
        BY <2>1, <3>1, <3>2, <3>3 DEF LoopInv, HubActive
    <2>. QED
      BY <2>4, <2>5
  <1>9. ASSUME NEW l \in Legs, Message(l) \/ Reconcile(l) PROVE LoopInv'
    BY <1>9 DEF Message, Reconcile, LoopInv, HubActive
  <1>10. CASE Crash
    <2>1. queue' = <<>> /\ drift' = [l \in Legs |-> 0] /\ UNCHANGED <<ops, late>>
      BY <1>10 DEF Crash, NoLegs
    <2>2. HubActive' => HubActive
      BY <1>0, <1>10 DEF Crash, HubActive
    <2>3. DOMAIN queue' = {} /\ drift' = NoLegs
      BY <2>1 DEF NoLegs
    <2>. QED
      BY <2>1, <2>2, <2>3 DEF LoopInv
  <1>11. CASE UNCHANGED vars
    BY <1>11 DEF vars, LoopInv, HubActive
  <1>. QED
    BY <1>1, <1>2, <1>3, <1>4, <1>5, <1>6, <1>7, <1>8, <1>9, <1>10, <1>11
       DEF Next, Request, Placement

(***************************************************************************)
(* What a closing stop, and an opening start, have still to do.            *)
(***************************************************************************)

(* Every step keeps FlatInv.                                               *)
LEMMA FlatStep == IInv /\ [Next]_vars => FlatInv'
  <1> SUFFICES ASSUME TypeOK, PcInv, QueueInv, LoopInv, FlatInv, [Next]_vars, pc' = "closing"
               PROVE  FlatInv'
    BY DEF IInv, FlatInv
  <1>. USE LegsAssumption DEF requestVars, accountVars, historyVars
  <1>1. CASE CloseLegs
    <2>1. PICK d \in [Legs -> Int] :
             /\ Send(d, "closing")
             /\ \A l \in Legs \ excused' :
                   /\ d[l] = -raw[l] /\ raw[l] = short[l]
                   /\ \A i \in DOMAIN queue : queue[i].leg # l
      BY <1>1, Sends DEF Gather, OpenNext, Undo, CloseLegs
    <2>2. ops \in 1..MaxOps /\ UNCHANGED <<ops, short>>
      BY <1>1, Sends DEF CloseLegs
    <2>3. /\ \A i \in DOMAIN queue' :
                \/ i \in DOMAIN queue /\ queue'[i] = queue[i]
                \/ queue'[i] = Order(queue'[i].leg, d[queue'[i].leg], "request")
          /\ wait' = Changed(d)
      BY <2>1, <2>2, SendFacts DEF TypeOK
    <2>4. ASSUME NEW l \in Legs \ excused', l \in wait', NEW i \in DOMAIN queue',
                 queue'[i].leg = l
          PROVE  queue'[i].delta = -short'[l]
      <3>1. queue'[i] = Order(l, d[l], "request")
        BY <2>1, <2>3, <2>4
      <3>. QED
        BY <2>1, <2>2, <3>1 DEF Order
    <2>5. ASSUME NEW l \in Legs \ excused', l \notin wait' PROVE short'[l] = 0
      <3>1. d[l] = 0 /\ d[l] = -short[l] /\ short[l] \in Int
        BY <2>1, <2>3, <2>5 DEF Changed, TypeOK, AccountOK
      <3>. QED
        BY <2>2, <3>1
    <2>. QED
      BY <2>4, <2>5 DEF FlatInv
  <1>2. CASE LoopFire
    <2>1. UNCHANGED <<ops, pc, wait, short, excused>>
      BY <1>2 DEF LoopFire
    <2>2. \A i \in DOMAIN queue' :
             \/ i \in DOMAIN queue /\ queue'[i] = queue[i]
             \/ queue'[i].by = "loop"
      BY <1>2, FireFacts DEF Order
    <2>. QED
      BY <2>1, <2>2 DEF FlatInv, Own
  <1>3. ASSUME NEW filled \in BOOLEAN, NEW told \in BOOLEAN, Place(filled, told)
        PROVE  FlatInv'
    <2>. DEFINE o == queue[1]
                m == o.leg
    <2>1. /\ ops' = ops /\ kind' = kind /\ 1 \in DOMAIN queue
          /\ m \in Legs /\ o.delta \in Int
      BY <1>3, PlaceFacts DEF OrderSet
    <2>2. \A i \in DOMAIN queue' : i + 1 \in DOMAIN queue /\ queue'[i] = queue[i + 1]
      BY <1>3, PlaceFacts
    <2>3. pc = "closing" /\ kind = "stop" /\ (Mine(o) => told)
      <3>1. pc = "closing" /\ (Mine(o) => told)
        BY <1>3, PlaceFacts
      <3>. QED
        BY <3>1 DEF PcInv
    <2>4. /\ excused \subseteq excused'
          /\ filled # told \/ (filled /\ ~Mine(o)) => m \in excused'
      BY <1>3, <2>3, PlaceFacts
    <2>5. wait' = IF Mine(o) THEN wait \ {m} ELSE wait
      BY <1>3, <2>3, PlaceFacts
    <2>6. /\ \A l \in Legs \ {m} : short'[l] = short[l]
          /\ short'[m] = IF filled THEN short[m] + o.delta ELSE short[m]
          /\ short[m] \in Int
      BY <1>3, <2>1, PlaceFacts DEF TypeOK, AccountOK
    <2>7. \A i \in DOMAIN queue' : Own(queue[i])' =>
             \E k \in DOMAIN queue : queue'[i] = queue[k] /\ Own(queue[k])
      BY <2>1, <2>2 DEF Own
    <2>8. ASSUME NEW l \in Legs \ excused', l # m
          PROVE  IF l \in wait'
                 THEN \A i \in DOMAIN queue' :
                         Own(queue[i])' /\ queue'[i].leg = l => queue'[i].delta = -short'[l]
                 ELSE short'[l] = 0
      <3>1. (l \in wait' <=> l \in wait) /\ short'[l] = short[l] /\ l \in Legs \ excused
        BY <2>4, <2>5, <2>6, <2>8
      <3>. HIDE DEF m, o
      <3>. QED
        BY <2>3, <2>7, <3>1 DEF FlatInv
    <2>9. ASSUME m \notin excused'
          PROVE  IF m \in wait'
                 THEN \A i \in DOMAIN queue' :
                         Own(queue[i])' /\ queue'[i].leg = m => queue'[i].delta = -short'[m]
                 ELSE short'[m] = 0
      <3>1. m \in Legs \ excused
        BY <2>1, <2>4, <2>9
      <3>2. CASE Mine(o)
        <4>1. Own(o) /\ m \in wait /\ filled
          BY <2>3, <2>4, <2>9, <3>2 DEF Mine, Own
        <4>2. o.delta = -short[m]
          BY <2>1, <2>3, <3>1, <4>1 DEF FlatInv
        <4>3. m \notin wait' /\ short'[m] = short[m] + o.delta
          BY <2>5, <2>6, <3>2, <4>1
        <4>. QED
          BY <2>6, <4>2, <4>3
      <3>3. CASE ~Mine(o)
        <4>1. ~filled /\ wait' = wait /\ short'[m] = short[m]
          BY <2>4, <2>5, <2>6, <2>9, <3>3
        <4>. HIDE DEF m, o
        <4>. QED
          BY <2>3, <2>7, <3>1, <4>1 DEF FlatInv
      <3>. QED
        BY <3>2, <3>3
    <2>10. ASSUME NEW l \in Legs \ excused'
           PROVE  IF l \in wait'
                  THEN \A i \in DOMAIN queue' :
                          Own(queue[i])' /\ queue'[i].leg = l => queue'[i].delta = -short'[l]
                  ELSE short'[l] = 0
      BY <2>8, <2>9
    <2>. QED
      BY <2>10 DEF FlatInv
  <1>4. CASE LoopRead
    BY <1>4 DEF LoopRead, FlatInv, Own
  <1>5. ASSUME NEW l \in Legs, Message(l) \/ Reconcile(l) PROVE FlatInv'
    BY <1>5 DEF Message, Reconcile, FlatInv, Own
  <1>6. CASE UNCHANGED vars
    BY <1>6 DEF vars, FlatInv, Own
  <1>7. ~(Start \/ Hedge \/ Stop \/ Activate \/ Fail \/ CloseOperation \/ StopRaises \/ Crash)
    BY DEF Start, Hedge, Stop, Activate, Fail, CloseOperation, StopRaises, Crash
  <1>8. ~(Gather \/ OpenNext \/ Undo)
    BY DEF Gather, OpenNext, Undo, Send
  <1>. QED
    BY <1>1, <1>2, <1>3, <1>4, <1>5, <1>6, <1>7, <1>8 DEF Next, Request, Placement

(* Every step keeps AnswerInv.                                             *)
LEMMA AnswerStep == IInv /\ [Next]_vars => AnswerInv'
  <1> SUFFICES ASSUME TypeOK, PcInv, AnswerInv, [Next]_vars, kind' = "start", pc' = "opening"
               PROVE  AnswerInv'
    BY DEF IInv, AnswerInv
  <1>. USE LegsAssumption DEF requestVars
  <1>1. CASE Gather
    <2>1. wait' = Changed(size) /\ size' = size
      BY <1>1 DEF Gather, Send, Awaited
    <2>2. \A l \in Legs : size[l] > 0 => l \in wait'
      BY <2>1 DEF Changed, TypeOK, RequestOK
    <2>. QED
      BY <2>1, <2>2 DEF AnswerInv
  <1>2. ASSUME NEW filled \in BOOLEAN, NEW told \in BOOLEAN, Place(filled, told)
        PROVE  AnswerInv'
    <2>1. kind = "start" /\ pc = "opening" /\ size' = size
      BY <1>2, PlaceFacts DEF PcInv
    <2>2. CASE ~Mine(queue[1])
      BY <1>2, <2>1, <2>2, PlaceFacts DEF AnswerInv
    <2>3. CASE Mine(queue[1])
      <3>1. told
        BY <1>2, <2>1, <2>3, PlaceFacts
      <3>2. /\ wait' = wait \ {queue[1].leg} /\ opened' = Append(opened, queue[1].leg)
            /\ queue[1].leg \in Legs
        BY <1>2, <2>1, <2>3, <3>1, PlaceFacts DEF OrderSet
      <3>3. opened \in Seq(Legs)
        BY DEF TypeOK, RequestOK
      <3>4. Range(opened') = Range(opened) \cup {queue[1].leg}
        BY <3>2, <3>3, RangeAppend
      <3>. QED
        BY <2>1, <3>2, <3>4 DEF AnswerInv
    <2>. QED
      BY <2>2, <2>3
  <1>3. CASE LoopRead \/ LoopFire
    BY <1>3 DEF LoopRead, LoopFire, AnswerInv
  <1>4. ASSUME NEW l \in Legs, Message(l) \/ Reconcile(l) PROVE AnswerInv'
    BY <1>4 DEF Message, Reconcile, AnswerInv
  <1>5. CASE UNCHANGED vars
    BY <1>5 DEF vars, AnswerInv
  <1>6. ~(Start \/ Hedge \/ Stop \/ Activate \/ Fail \/ CloseOperation \/ StopRaises \/ Crash)
    BY DEF Start, Hedge, Stop, Activate, Fail, CloseOperation, StopRaises, Crash
  <1>7. ~(OpenNext \/ Undo \/ CloseLegs)
    BY DEF OpenNext, Undo, CloseLegs, Send
  <1>. QED
    BY <1>1, <1>2, <1>3, <1>4, <1>5, <1>6, <1>7 DEF Next, Request, Placement

(***************************************************************************)
(* What a failed hedge-existing has still to buy back.                     *)
(***************************************************************************)

(* An order that is placed keeps UndoInv ...                               *)
LEMMA UndoPlace ==
    ASSUME TypeOK, PcInv, QueueInv, UndoInv, QueueInv',
           NEW filled \in BOOLEAN, NEW told \in BOOLEAN, Place(filled, told)
    PROVE  UndoInv'
  <1>. USE LegsAssumption
  <1>. DEFINE o == queue[1]
              m == o.leg
  <1>1. /\ UNCHANGED <<ops, kind, size, status>> /\ 1 \in DOMAIN queue
        /\ m \in Legs /\ o.delta \in Int
    BY PlaceFacts DEF OrderSet
  <1>2. \A i \in DOMAIN queue' : Own(queue[i])' =>
           \E k \in DOMAIN queue : queue'[i] = queue[k] /\ Own(queue[k])
    <2>1. \A i \in DOMAIN queue' : i + 1 \in DOMAIN queue /\ queue'[i] = queue[i + 1]
      BY PlaceFacts
    <2>. QED
      BY <1>1, <2>1 DEF Own
  <1>3. CASE kind = "none"
    <2>1. wait = {}
      BY <1>3 DEF PcInv
    <2>2. ~Mine(o)
      BY <2>1 DEF Mine
    <2>3. opened' = opened /\ net' = net
      BY <1>3, <2>2, PlaceFacts
    <2>. QED
      BY <1>1, <1>3, <2>3 DEF UndoInv, NoLegs
  <1>4. CASE kind \in {"start", "stop"}
    BY <1>1, <1>4 DEF UndoInv
  <1>5. CASE kind = "hedge"
    <2>1. /\ \A i, j \in DOMAIN opened : opened[i] = opened[j] => i = j
          /\ \A l \in Legs \ excused : net[l] = IF l \in Range(opened) THEN size[l] ELSE 0
          /\ pc = "opening" => \A l \in wait : l \notin Range(opened)
          /\ pc = "undoing" => \A l \in wait : l = Head(opened)
          /\ \A i \in DOMAIN queue : Own(queue[i]) =>
                queue[i].delta = IF pc = "opening" THEN size[queue[i].leg]
                                                   ELSE -size[queue[i].leg]
      BY <1>5 DEF UndoInv
    <2>2. excused' = IF \/ filled # told
                        \/ ~filled /\ pc = "undoing"
                        \/ filled /\ ~Mine(o)
                     THEN excused \cup {m} ELSE excused
      BY <1>5, PlaceFacts
    <2>3. net' = IF filled /\ Mine(o) THEN [net EXCEPT ![m] = @ + o.delta] ELSE net
      BY <1>5, PlaceFacts
    <2>4. /\ net \in [Legs -> Int] /\ size \in [Legs -> Nat] /\ opened \in Seq(Legs)
      BY DEF TypeOK, RequestOK, HistoryOK
    <2>. HIDE DEF o, m
    <2>5. CASE ~Mine(o)
      <3>1. UNCHANGED <<wait, opened, pc, net>> /\ excused \subseteq excused'
        BY <2>2, <2>3, <2>5, PlaceFacts DEF o
      <3>. QED
        BY <1>1, <1>2, <1>5, <2>1, <3>1 DEF UndoInv
    <2>6. CASE Mine(o)
      <3>1. /\ m \in wait /\ Own(o)
            /\ pc \in {"opening", "undoing"}
        BY <1>5, <2>6, PlaceFacts DEF Mine, Own, PcInv, o, m
      <3>2. /\ o.delta = IF pc = "opening" THEN size[m] ELSE -size[m]
        BY <1>1, <2>1, <3>1 DEF o, m
      <3>3. \A l \in Legs \ {m} : net'[l] = net[l] /\ (l \notin excused' => l \notin excused)
        BY <2>2, <2>3, <2>4
      <3>4. wait' = {}
        BY <1>5, <2>6, <3>1, PlaceFacts DEF PcInv, o, m
      <3>5. status[ops] \notin {"failed"} /\ pc' # "fail"
        BY <1>5, <2>6, <3>1, PlaceFacts DEF PcInv, o
      <3>6. \A i \in DOMAIN queue' : ~Own(queue[i])'
        BY <1>1, <3>4, <3>5 DEF QueueInv, Own, Accounted
      <3>7. CASE pc = "opening" /\ told
        <4>1. pc' = "opening" /\ opened' = Append(opened, m)
          BY <2>6, <3>7, PlaceFacts DEF o, m
        <4>2. Range(opened') = Range(opened) \cup {m} /\ m \notin Range(opened)
          BY <1>1, <2>1, <2>4, <3>1, <3>7, <4>1, RangeAppend
        <4>3. \A i, j \in DOMAIN opened' : opened'[i] = opened'[j] => i = j
          <5>1. /\ DOMAIN opened = 1..Len(opened) /\ Len(opened) \in Nat
                /\ DOMAIN opened' = 1..Len(opened) + 1
                /\ \A i \in 1..Len(opened) : opened'[i] = opened[i]
                /\ opened'[Len(opened) + 1] = m
            <6>1. opened' \in Seq(Legs)
              BY <1>1, <2>4, <4>1, AppendProperties
            <6>. QED
              BY <1>1, <2>4, <4>1, <6>1, AppendProperties, LenProperties
          <5>2. \A i \in 1..Len(opened) : opened[i] # m
            BY <4>2, <5>1 DEF Range
          <5>. QED
            BY <2>1, <5>1, <5>2
        <4>4. ASSUME m \notin excused' PROVE net'[m] = size[m]
          <5>1. filled /\ m \notin excused
            BY <2>2, <3>7, <4>4
          <5>2. net[m] = 0
            BY <1>1, <2>1, <4>2, <5>1
          <5>3. net' = [net EXCEPT ![m] = @ + o.delta] /\ o.delta = size[m]
            BY <2>3, <2>6, <3>2, <3>7, <5>1
          <5>4. net'[m] = net[m] + size[m] /\ size[m] \in Int
            BY <1>1, <2>4, <5>3
          <5>. QED
            BY <5>2, <5>4
        <4>5. ASSUME NEW l \in Legs \ excused'
              PROVE  net'[l] = IF l \in Range(opened') THEN size[l] ELSE 0
          BY <2>1, <3>3, <4>2, <4>4
        <4>. QED
          BY <1>1, <1>5, <3>4, <3>6, <4>1, <4>3, <4>5 DEF UndoInv
      <3>8. CASE pc = "opening" /\ ~told
        <4>1. pc' = "undo" /\ opened' = opened
          BY <1>5, <2>6, <3>8, PlaceFacts DEF o
        <4>2. m \notin Range(opened)
          BY <2>1, <3>1, <3>8
        <4>3. ASSUME m \notin excused' PROVE net'[m] = 0
          BY <1>1, <2>1, <2>2, <2>3, <3>8, <4>2, <4>3
        <4>4. ASSUME NEW l \in Legs \ excused'
              PROVE  net'[l] = IF l \in Range(opened') THEN size[l] ELSE 0
          BY <2>1, <3>3, <4>1, <4>2, <4>3
        <4>. QED
          BY <1>1, <1>5, <2>1, <3>4, <3>6, <4>1, <4>4 DEF UndoInv
      <3>9. CASE pc = "undoing"
        <4>1. pc' = "undo" /\ opened' = Tail(opened) /\ opened # <<>>
          BY <2>6, <3>9, PlaceFacts DEF PcInv, o
        <4>2. /\ m = opened[1] /\ 1 \in DOMAIN opened
              /\ DOMAIN opened = 1..Len(opened) /\ Len(opened) \in Nat
              /\ DOMAIN opened' = 1..Len(opened) - 1
              /\ \A i \in DOMAIN opened' : opened'[i] = opened[i + 1]
          BY <2>1, <3>1, <3>9, <4>1, HeadOpened DEF TypeOK
        <4>3. \A i, j \in DOMAIN opened' : opened'[i] = opened'[j] => i = j
          BY <2>1, <4>2
        <4>4. m \notin Range(opened') /\ m \in Range(opened)
          BY <2>1, <4>2 DEF Range
        <4>5. \A l \in Legs \ {m} : l \in Range(opened') <=> l \in Range(opened)
          <5>1. ASSUME NEW i \in DOMAIN opened, opened[i] # m PROVE opened[i] \in Range(opened')
            <6>1. i - 1 \in DOMAIN opened' /\ opened'[i - 1] = opened[i]
              BY <4>2, <5>1
            <6>. QED
              BY <6>1 DEF Range
          <5>2. ASSUME NEW i \in DOMAIN opened' PROVE opened'[i] \in Range(opened)
            <6>1. i + 1 \in DOMAIN opened /\ opened'[i] = opened[i + 1]
              BY <4>2
            <6>. QED
              BY <6>1 DEF Range
          <5>. QED
            BY <5>1, <5>2 DEF Range
        <4>6. ASSUME m \notin excused' PROVE net'[m] = 0
          <5>1. filled /\ m \notin excused
            BY <2>2, <3>9, <4>6
          <5>2. net[m] = size[m]
            BY <1>1, <2>1, <4>4, <5>1
          <5>3. net' = [net EXCEPT ![m] = @ + o.delta] /\ o.delta = -size[m]
            BY <2>3, <2>6, <3>2, <3>9, <5>1
          <5>4. net'[m] = net[m] + (-size[m]) /\ size[m] \in Int
            BY <1>1, <2>4, <5>3
          <5>. QED
            BY <5>2, <5>4
        <4>7. ASSUME NEW l \in Legs \ excused'
              PROVE  net'[l] = IF l \in Range(opened') THEN size[l] ELSE 0
          BY <2>1, <3>3, <4>4, <4>5, <4>6
        <4>. QED
          BY <1>1, <1>5, <3>4, <3>6, <4>1, <4>3, <4>7 DEF UndoInv
      <3>. QED
        BY <3>1, <3>7, <3>8, <3>9
    <2>. QED
      BY <2>5, <2>6
  <1>. QED
    BY <1>3, <1>4, <1>5 DEF TypeOK, RequestOK

(* ... and so does every step.                                             *)
LEMMA UndoStep == IInv /\ [Next]_vars => UndoInv'
  <1> SUFFICES ASSUME TypeOK, PcInv, QueueInv, LoopInv, UndoInv, [Next]_vars, QueueInv'
               PROVE  UndoInv'
    BY QueueStep DEF IInv
  <1>. USE LegsAssumption DEF requestVars, historyVars, Forget
  <1>1. CASE Start
    BY <1>1 DEF Start, UndoInv
  <1>2. CASE Hedge
    <2>1. /\ kind = "none" /\ ops' = ops + 1 /\ kind' = "hedge" /\ pc' = "opening"
          /\ UNCHANGED <<queue, opened, net, wait>> /\ wait = {}
      BY <1>2 DEF Hedge, PcInv
    <2>2. opened' = <<>> /\ net' = [l \in Legs |-> 0]
      BY <2>1 DEF UndoInv, NoLegs
    <2>3. DOMAIN opened' = {}
      BY <2>2
    <2>4. \A i \in DOMAIN queue : ~(queue[i].by = "request" /\ queue[i].op = ops + 1)
      <3>1. \A i \in DOMAIN queue : queue[i].op \in Int
        BY OrdersOK DEF TypeOK, OrderSet
      <3>2. ops \in Int
        BY DEF TypeOK, RequestOK
      <3>. QED
        BY <3>1, <3>2 DEF QueueInv, Accounted
    <2>. QED
      BY <2>1, <2>2, <2>3, <2>4 DEF UndoInv, Own, Range
  <1>3. CASE Stop \/ StopRaises
    <2>1. kind' = "stop"
      BY <1>3 DEF Stop, StopRaises, PcInv
    <2>. QED
      BY <2>1 DEF UndoInv
  <1>4. CASE Gather \/ CloseLegs
    <2>1. kind' \in {"start", "stop"}
      BY <1>4 DEF Gather, CloseLegs, PcInv
    <2>. QED
      BY <2>1 DEF UndoInv
  <1>5. CASE OpenNext
    <2>1. PICK l \in First(ToOpen) : Send(Only(l, size[l]), "opening")
      BY <1>5 DEF OpenNext
    <2>2. l \in Legs /\ l \notin Range(opened) /\ size[l] \in Int
      BY <2>1 DEF First, ToOpen, TypeOK, RequestOK
    <2>. DEFINE d == Only(l, size[l])
    <2>3. d \in [Legs -> Int] /\ d[l] = size[l] /\ Changed(d) \subseteq {l}
      BY <2>2, OnlyFacts
    <2>. HIDE DEF d
    <2>4. /\ UNCHANGED <<ops, kind, opened, size, net, excused>> /\ kind = "hedge"
          /\ pc = "opening" /\ ops \in 1..MaxOps
          /\ wait = {} /\ pc # "fail" /\ status[ops] # "failed"
      BY <1>5, Sends DEF OpenNext
    <2>5. \A i \in DOMAIN queue : ~Own(queue[i])
      BY <2>4, NoOwn
    <2>6. /\ \A i \in DOMAIN queue' :
                \/ i \in DOMAIN queue /\ queue'[i] = queue[i]
                \/ /\ queue'[i].leg \in Changed(d)
                   /\ queue'[i] = Order(queue'[i].leg, d[queue'[i].leg], "request")
          /\ wait' = Changed(d) /\ pc' = "opening"
      BY <2>1, <2>3, <2>4, SendFacts DEF d, TypeOK
    <2>7. \A i \in DOMAIN queue' : Own(queue[i])' => queue'[i].delta = size[queue'[i].leg]
      BY <2>3, <2>4, <2>5, <2>6 DEF Own, Order
    <2>. QED
      BY <2>2, <2>3, <2>4, <2>6, <2>7 DEF UndoInv
  <1>6. CASE Undo
    <2>. DEFINE h == Head(opened)
                d == Only(h, -size[h])
    <2>1. opened # <<>> /\ Send(d, "undoing") /\ pc = "undo"
      BY <1>6 DEF Undo
    <2>2. h \in Legs /\ -size[h] \in Int
      <3>1. h \in Legs
        BY <2>1, HeadOpened DEF TypeOK
      <3>2. size[h] \in Int
        BY <3>1 DEF TypeOK, RequestOK
      <3>. QED
        BY <3>1, <3>2
    <2>3. d \in [Legs -> Int] /\ d[h] = -size[h] /\ Changed(d) \subseteq {h}
      BY <2>2, OnlyFacts
    <2>. HIDE DEF d, h
    <2>4. /\ UNCHANGED <<ops, kind, opened, size, net, excused>> /\ kind = "hedge"
          /\ ops \in 1..MaxOps
          /\ wait = {} /\ pc # "fail" /\ status[ops] # "failed"
      BY <1>6, Sends DEF Undo, PcInv
    <2>5. \A i \in DOMAIN queue : ~Own(queue[i])
      BY <2>4, NoOwn
    <2>6. /\ \A i \in DOMAIN queue' :
                \/ i \in DOMAIN queue /\ queue'[i] = queue[i]
                \/ /\ queue'[i].leg \in Changed(d)
                   /\ queue'[i] = Order(queue'[i].leg, d[queue'[i].leg], "request")
          /\ wait' = Changed(d) /\ pc' = "undoing"
      BY <2>1, <2>3, <2>4, SendFacts DEF TypeOK
    <2>7. \A i \in DOMAIN queue' : Own(queue[i])' => queue'[i].delta = -size[queue'[i].leg]
      BY <2>3, <2>4, <2>5, <2>6 DEF Own, Order
    <2>8. \A l \in wait' : l = Head(opened)
      BY <2>3, <2>6 DEF h
    <2>. QED
      BY <2>4, <2>6, <2>7, <2>8 DEF UndoInv
  <1>7. CASE Activate \/ Fail \/ CloseOperation \/ Crash
    <2>1. kind' = "none" /\ opened' = <<>> /\ net' = NoLegs
      BY <1>7 DEF Activate, Fail, CloseOperation, Crash
    <2>. QED
      BY <2>1 DEF UndoInv, NoLegs
  <1>8. CASE LoopRead
    BY <1>8 DEF LoopRead, UndoInv, Own
  <1>9. CASE LoopFire
    <2>1. UNCHANGED <<ops, kind, pc, wait, opened, size, net, excused>>
      BY <1>9 DEF LoopFire
    <2>2. \A i \in DOMAIN queue' :
             \/ i \in DOMAIN queue /\ queue'[i] = queue[i]
             \/ queue'[i].by = "loop"
      BY <1>9, FireFacts DEF Order
    <2>3. \A i \in DOMAIN queue' : Own(queue[i])' =>
             i \in DOMAIN queue /\ queue'[i] = queue[i] /\ Own(queue[i])
      BY <2>1, <2>2 DEF Own
    <2>. QED
      BY <2>1, <2>3 DEF UndoInv
  <1>10. ASSUME NEW filled \in BOOLEAN, NEW told \in BOOLEAN, Place(filled, told)
         PROVE  UndoInv'
    BY <1>10, UndoPlace
  <1>11. ASSUME NEW l \in Legs, Message(l) \/ Reconcile(l) PROVE UndoInv'
    BY <1>11 DEF Message, Reconcile, UndoInv, Own
  <1>12. CASE UNCHANGED vars
    BY <1>12 DEF vars, UndoInv, Own
  <1>. QED
    BY <1>1, <1>2, <1>3, <1>4, <1>5, <1>6, <1>7, <1>8, <1>9, <1>10, <1>11, <1>12
       DEF Next, Request, Placement

(***************************************************************************)
(* The theorems.                                                           *)
(***************************************************************************)

(* The initial state satisfies the invariant ...                           *)
LEMMA InitIInv == Init => IInv
  <1> SUFFICES ASSUME Init PROVE IInv
    OBVIOUS
  <1>. USE LegsAssumption DEF Init
  <1>1. RequestOK
    BY DEF RequestOK, Live, NoLegs
  <1>2. QueueOK /\ CountersOK
    BY DEF QueueOK, CountersOK
  <1>3. AccountOK /\ HistoryOK
    <2>1. shares \in BOOLEAN
      OBVIOUS
    <2>2. \A f \in {short, raw, drift, net} : f \in [Legs -> Int]
      BY DEF NoLegs
    <2>3. excused \subseteq Legs /\ late \in [Legs -> Nat]
      BY DEF NoLegs
    <2>. QED
      BY <2>1, <2>2, <2>3 DEF AccountOK, HistoryOK
  <1>4. DOMAIN queue = {}
    OBVIOUS
  <1>5. PcInv /\ QueueInv /\ FlatInv /\ AnswerInv /\ UndoInv
    BY <1>4 DEF PcInv, QueueInv, FlatInv, AnswerInv, UndoInv
  <1>6. LoopInv
    BY <1>4 DEF LoopInv, HubActive, NoLegs
  <1>. QED
    BY <1>1, <1>2, <1>3, <1>5, <1>6 DEF IInv, TypeOK

(* ... every step keeps it ...                                             *)
LEMMA StepIInv == IInv /\ [Next]_vars => IInv'
  <1>1. IInv /\ [Next]_vars => TypeOK'
    BY RequestStep, QueueTypeStep, AccountStep, CountersStep, HistoryStep DEF IInv, TypeOK
  <1>. QED
    BY <1>1, PcStep, QueueStep, LoopStep, FlatStep, AnswerStep, UndoStep DEF IInv

(* ... and so it always holds.                                             *)
LEMMA AlwaysIInv == Spec => []IInv
  BY InitIInv, StepIInv, PTL DEF Spec

(* Every variable keeps its type.                                          *)
THEOREM TypeCorrect == Spec => []TypeOK
  <1>1. IInv => TypeOK
    BY DEF IInv
  <1>. QED
    BY <1>1, AlwaysIInv, PTL

(* asyncio.gather leaves orders running only behind an operation that has  *)
(* failed: one that is ACTIVE or CLOSED has none of its own in the queue.  *)
THEOREM LeftBehind == Spec => []LeftBehindIsFailed
  <1>1. IInv => LeftBehindIsFailed
    <2> SUFFICES ASSUME PcInv, QueueInv, NEW i \in DOMAIN queue, queue[i].by = "request"
                 PROVE  status[queue[i].op] \in {"starting", "stopping", "failed"}
      BY DEF IInv, LeftBehindIsFailed
    <2>1. Accounted(queue[i])
      BY DEF QueueInv
    <2>2. queue[i].op = ops /\ (pc = "fail" \/ wait # {})
             => status[queue[i].op] \in {"starting", "stopping"}
      BY DEF PcInv
    <2>. QED
      BY <2>1, <2>2 DEF Accounted
  <1>. QED
    BY <1>1, AlwaysIInv, PTL

(* After a stop has begun, or an operation has failed, the main loop sends *)
(* at most one more drift order per leg.                                   *)
THEOREM LetsGo == Spec => []LoopLetsGo
  <1>1. IInv => LoopLetsGo
    BY DEF IInv, LoopInv, LoopLetsGo
  <1>. QED
    BY <1>1, AlwaysIInv, PTL

(* No operation becomes ACTIVE before every leg it was to open was taken.  *)
THEOREM Answered == Spec => ActiveIsAnswered
  <1>1. IInv /\ [Next]_vars =>
           [Activate => {l \in Legs : size[l] > 0} \subseteq Range(opened)]_vars
    <2> SUFFICES ASSUME PcInv, AnswerInv, Activate, NEW l \in Legs, size[l] > 0
                 PROVE  l \in Range(opened)
      BY DEF IInv
    <2>1. pc = "opening" /\ wait = {} /\ (kind = "hedge" => ToOpen = {})
      BY DEF Activate
    <2>2. CASE kind = "start"
      BY <2>1, <2>2 DEF AnswerInv
    <2>3. CASE kind = "hedge"
      BY <2>1, <2>3 DEF ToOpen
    <2>. QED
      BY <2>1, <2>2, <2>3 DEF PcInv
  <1>. QED
    BY <1>1, AlwaysIInv, PTL DEF Spec, ActiveIsAnswered

(* A failed hedge-existing has bought back all that it opened, except on   *)
(* the legs whose orders did not go as told.                               *)
THEOREM Undone == Spec => FailedHedgeUndone
  <1>1. IInv /\ [Next]_vars =>
           [kind = "hedge" /\ Fail => \A l \in Legs \ excused : net[l] = 0]_vars
    <2> SUFFICES ASSUME PcInv, UndoInv, kind = "hedge", Fail, NEW l \in Legs \ excused
                 PROVE  net[l] = 0
      BY DEF IInv
    <2>1. opened = <<>>
      BY DEF Fail, PcInv
    <2>2. Range(opened) = {}
      BY <2>1 DEF Range
    <2>. QED
      BY <2>2 DEF UndoInv
  <1>. QED
    BY <1>1, AlwaysIInv, PTL DEF Spec, FailedHedgeUndone

(* A closed operation is flat on the legs its stop saw as they were, had a *)
(* price for and was alone on.                                             *)
THEOREM FlatAsSeen == Spec => ClosedIsFlatAsSeen
  <1>1. IInv /\ [Next]_vars =>
           [CloseOperation => \A l \in Legs \ excused : short[l] = 0]_vars
    BY DEF IInv, FlatInv, CloseOperation
  <1>. QED
    BY <1>1, AlwaysIInv, PTL DEF Spec, ClosedIsFlatAsSeen
=============================================================================
