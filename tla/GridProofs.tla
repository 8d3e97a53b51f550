----------------------------- MODULE GridProofs -----------------------------
(***************************************************************************)
(* What EventGrid and GridTeardown do for every grid, range, market and    *)
(* budget of disturbances.                                                 *)
(*                                                                         *)
(* Three invariants carry the proofs about the grid: GridInv holds of      *)
(* every state and gives the types, FillsInv of the states no lying read   *)
(* and no overlap led to, KeptInv of those no failed request and no        *)
(* overlap led to. The teardown has TableInv and RowsInv on top.           *)
(***************************************************************************)
EXTENDS GridTeardown, SequenceTheorems, FiniteSetTheorems,
        WellFoundedInduction, TLAPS

(* A collection with one entry per cloid, as the dicts of the code are.    *)
Unique(S) == \A s, t \in S : s.cloid = t.cloid => s = t
UpTo(S, n) == \A s \in S : s.cloid =< n

(* The orders at the exchange: one per cloid and process, none of a        *)
(* process to come, those of this one numbered so far.                     *)
Numbering(L, g, n) ==
  /\ \A o, q \in L : o.cloid = q.cloid /\ o.gen = q.gen => o = q
  /\ \A o \in L : o.gen =< g /\ (o.gen = g => o.cloid =< n)

GridInv ==
  /\ TypeOK
  /\ IsFiniteSet(local) /\ Unique(local)
  /\ IsFiniteSet(live) /\ Numbering(live, gen, seq)
  /\ IsFiniteSet(snap) /\ Unique(snap)
  /\ IsFiniteSet(made) /\ Unique(made) /\ UpTo(made, seq)
  /\ IsFiniteSet(mnew) /\ Unique(mnew) /\ UpTo(mnew, seq)
  /\ mnew # {} => mpc = "placed"
  /\ made # {} => epc \in {"extend", "commit"}

Replacing == epc \in {"oppose", "extend", "commit"}
Clearing  == mpc \in {"clear_out", "clear_range"}
MAtRest   == mpc \in {"idle", "traded"}
Posting   == mpc \in {"post", "placed", "verify"}

(* Where a cloid may be that the grid still has or an answer still shows.  *)
Accounted == Cloids(live) \cup fired

FillsParts ==
  /\ MAtRest \/ epc = "idle"
  /\ ~Clearing => Cloids(local) \subseteq
                    Accounted \cup (IF Replacing THEN {job.opp.cloid} ELSE {})
  /\ Cloids(mnew) \subseteq Accounted
  /\ Cloids(made) \subseteq Accounted
  /\ epc = "audit" => Cloids(snap) \subseteq Accounted
  /\ epc = "cancel" => Cloids(orphans) \cap Cloids(local) = {}
  /\ epc = "diff" => Cloids(local) \subseteq Cloids(snap) \cup fired
  /\ epc = "next" \/ Replacing => Cloids(queue) \subseteq fired
  /\ Replacing => job.stop.cloid \in fired

FillsInv == Undisturbed => FillsParts

JobParts ==
  /\ job.stop \in local /\ job.opp \in local /\ job.stop.side # job.opp.side
  /\ epc = "oppose" => made = {}
  /\ epc = "extend" => Cardinality(made) =< 1
  /\ epc = "commit" => Cardinality(made) =< 2 /\ made # {}

KeptParts ==
  /\ MAtRest \/ epc = "idle"
  /\ \A o \in live : o.gen = gen
  /\ UpTo(local, seq) /\ UpTo(queue, seq) /\ UpTo(snap, seq) /\ UpTo(msnap, seq)
  /\ queue # {} => epc = "next" \/ Replacing
  /\ \A s \in queue, e \in local \cup made : s.cloid = e.cloid => s = e
  /\ Replacing => JobParts
  /\ Cardinality(local) =< 2 * PerSide
  /\ mpc \in {"post", "placed"} =>
       Cardinality(local) + Cardinality(mnew) + Len(todo) =< 2 * PerSide
  /\ Clearing => live = {}
  /\ MAtRest /\ sig = 0 => local = {}
  /\ MAtRest /\ local = {} => live = {}
  /\ epc = "audit" => live \subseteq snap
  /\ epc = "audit" /\ local = {} => snap = {}
  /\ epc = "cancel" => \A o \in live : o \in orphans \/ o.cloid \in Cloids(local) \ missing
  /\ Posting => /\ Cloids(live) \subseteq Cloids(local) \cup Cloids(mnew)
                /\ msig \in 1..Len(Bounds)
  /\ mpc = "verify" => live \subseteq msnap

Quiet == faults = 0 /\ ~overlap
KeptInv == Quiet => KeptParts

TableInv ==
  /\ tpc # "idle" <=> hub = "stopping"
  /\ ~raced /\ hub # "active" => late = "no" /\ mpc = "idle"
  /\ ~raced /\ tpc = "cancel" => active = tomark
  /\ ~raced /\ (tpc \in {"position", "trade", "withdraw"} \/ hub \in {"none", "failed"})
       => active = {}

Rowed == {o \in live : o.cloid \in rows}
RowsInv ==
  /\ \A c \in rows : c =< seq
  /\ ~missed /\ ~raced /\ faults = 0 =>
       /\ Cloids(Rowed) \subseteq active
       /\ mpc = "clear_range" => Rowed = {}
       /\ tpc = "cancel" => Cloids(Rowed) \subseteq listed

-----------------------------------------------------------------------------
(***************************************************************************)
(* Least elements.                                                         *)
(***************************************************************************)

(* A nonempty set of natural numbers has a smallest one.                   *)
LEMMA SmallestExists ==
  ASSUME NEW N \in SUBSET Nat, N # {}
  PROVE  \E n \in N : \A m \in N : n =< m
<1>1. PICK n \in N : \A m \in N : <<m, n>> \notin OpToRel(<, Nat)
  BY WFMin, NatLessThanWellFounded, Zenon
<1>2. \A m \in N : ~(m < n)
  BY <1>1 DEF OpToRel
<1> QED  BY <1>2

(* The extreme prices EstimateStep, Target and Tip choose do exist: so     *)
(* does the least value of any function on a finite set.                   *)
LEMMA LeastExists ==
  ASSUME NEW S, IsFiniteSet(S), S # {}, NEW f \in [S -> Int]
  PROVE  \E x \in S : \A y \in S : f[x] =< f[y]
<1> DEFINE Below(x) == {y \in S : f[y] < f[x]}
           Rank(x) == Cardinality(Below(x))
           Ranks == {Rank(x) : x \in S}
<1>1. ASSUME NEW x \in S PROVE IsFiniteSet(Below(x)) /\ Rank(x) \in Nat
  <2>1. Below(x) \in SUBSET S
    OBVIOUS
  <2>2. IsFiniteSet(Below(x))
    BY <2>1, FS_Subset
  <2> QED  BY <2>2, FS_CardinalityType
<1>2. Ranks \in SUBSET Nat /\ Ranks # {}
  BY <1>1
<1>3. PICK n \in Ranks : \A m \in Ranks : n =< m
  BY <1>2, SmallestExists
<1>4. PICK x \in S : n = Rank(x)
  BY <1>3
<1>5. ASSUME NEW y \in S, f[y] < f[x] PROVE FALSE
  <2>1. Below(y) \in SUBSET Below(x)
    <3>1. ASSUME NEW z \in Below(y) PROVE f[z] < f[x]
      BY <3>1, <1>5
    <3> QED  BY <3>1
  <2>2. y \in Below(x) /\ y \notin Below(y)
    BY <1>5
  <2>3. IsFiniteSet(Below(x)) /\ Rank(x) \in Nat /\ Rank(y) \in Nat
    BY <1>1
  <2>4. Rank(y) # Rank(x) /\ Rank(y) =< Rank(x)
    <3> HIDE DEF Below
    <3> QED  BY <2>1, <2>2, <2>3, FS_Subset
  <2>5. Rank(y) \in Ranks
    OBVIOUS
  <2> HIDE DEF Rank, Ranks
  <2> QED  BY <2>3, <2>4, <2>5, <1>3, <1>4
<1>6. \A y \in S : ~(f[y] < f[x])
  BY <1>5
<1> QED  BY <1>6

(* Lowest and Highest choose a stop of the set.                            *)
LEMMA ExtremesExist ==
  ASSUME NEW S \in SUBSET Stop, IsFiniteSet(S), S # {}
  PROVE  Lowest(S) \in S /\ Highest(S) \in S
<1> DEFINE up == [s \in S |-> s.price]
           down == [s \in S |-> -s.price]
<1>1. up \in [S -> Int] /\ down \in [S -> Int]
  BY DEF Stop
<1>2. PICK x \in S : \A y \in S : up[x] =< up[y]
  <2> HIDE DEF up
  <2> QED  BY <1>1, LeastExists
<1>3. PICK z \in S : \A y \in S : down[z] =< down[y]
  <2> HIDE DEF down
  <2> QED  BY <1>1, LeastExists
<1>4. \A y \in S : x.price =< y.price
  BY <1>2
<1>5. \A y \in S : z.price >= y.price
  BY <1>3 DEF Stop
<1> QED  BY <1>4, <1>5 DEF Lowest, Highest

(***************************************************************************)
(* Collections with one entry per cloid.                                   *)
(***************************************************************************)

LEMMA CloidsCounted ==
  ASSUME NEW S, IsFiniteSet(S), Unique(S)
  PROVE  Cardinality(Cloids(S)) = Cardinality(S)
<1> DEFINE f == [s \in S |-> s.cloid]
<1>1. f \in Bijection(S, Cloids(S))
  BY DEF Bijection, Injection, Surjection, IsInjective, Unique, Cloids
<1>2. ExistsBijection(S, Cloids(S))
  BY <1>1 DEF ExistsBijection
<1> QED  BY <1>2, FS_Bijection

LEMMA SubsetUnique ==
  ASSUME NEW S, IsFiniteSet(S), Unique(S), NEW T \in SUBSET S
  PROVE  IsFiniteSet(T) /\ Unique(T) /\ Cardinality(Cloids(T)) = Cardinality(T)
<1>1. IsFiniteSet(T) /\ Unique(T)
  BY FS_Subset DEF Unique
<1> QED  BY <1>1, CloidsCounted

(* Insert replaces the entries of the keys it is given.                    *)
LEMMA InsertUnique ==
  ASSUME NEW S, IsFiniteSet(S), Unique(S), NEW T, IsFiniteSet(T), Unique(T)
  PROVE  /\ IsFiniteSet(Insert(S, T)) /\ Unique(Insert(S, T))
         /\ Cardinality(Cloids(Insert(S, T))) = Cardinality(Insert(S, T))
<1>1. Without(S, Cloids(T)) \in SUBSET S
  BY DEF Without
<1>2. IsFiniteSet(Insert(S, T))
  BY <1>1, FS_Subset, FS_Union DEF Insert
<1>3. Unique(Insert(S, T))
  BY DEF Unique, Insert, Without, Cloids
<1> QED  BY <1>2, <1>3, CloidsCounted

LEMMA InsertCounted ==
  ASSUME NEW S, IsFiniteSet(S), NEW T, IsFiniteSet(T)
  PROVE  /\ Cardinality(S) \in Nat /\ Cardinality(T) \in Nat
         /\ Cardinality(Insert(S, T)) \in Nat
         /\ Cardinality(Insert(S, T)) =< Cardinality(S) + Cardinality(T)
<1> DEFINE W == Without(S, Cloids(T))
<1>1. W \in SUBSET S
  BY DEF Without
<1>2. IsFiniteSet(W) /\ Cardinality(W) =< Cardinality(S)
  BY <1>1, FS_Subset
<1>3. /\ IsFiniteSet(W \cup T)
      /\ Cardinality(W \cup T) = Cardinality(W) + Cardinality(T) - Cardinality(W \cap T)
  BY <1>2, FS_Union
<1>4. IsFiniteSet(W \cap T)
  BY <1>2, FS_Intersection
<1>5. /\ Cardinality(S) \in Nat /\ Cardinality(T) \in Nat /\ Cardinality(W) \in Nat
      /\ Cardinality(W \cap T) \in Nat /\ Cardinality(W \cup T) \in Nat
  BY <1>2, <1>3, <1>4, FS_CardinalityType
<1> QED  BY <1>2, <1>3, <1>5 DEF Insert

(* An answer's orders become entries, an entry per cloid if there was an   *)
(* order per cloid.                                                        *)
LEMMA AdoptedUnique ==
  ASSUME NEW S \in SUBSET Order, IsFiniteSet(S), Unique(S)
  PROVE  LET A == {AsStop(o) : o \in S}
         IN  /\ A \subseteq Stop /\ IsFiniteSet(A) /\ Unique(A)
             /\ Cardinality(Cloids(A)) = Cardinality(A)
             /\ Cardinality(A) =< Cardinality(S)
<1> DEFINE A == {AsStop(o) : o \in S}
           f == [o \in S |-> AsStop(o)]
<1>1. A \subseteq Stop
  BY DEF Order, Stop, AsStop
<1>2. f \in Surjection(S, A)
  BY DEF Surjection
<1>3. IsFiniteSet(A) /\ Cardinality(A) =< Cardinality(S)
  <2> HIDE DEF A, f
  <2> QED  BY <1>2, FS_Surjection
<1>4. Unique(A)
  <2> SUFFICES ASSUME NEW s \in A, NEW t \in A, s.cloid = t.cloid PROVE s = t
    BY DEF Unique
  <2>1. PICK o \in S : s = AsStop(o)
    OBVIOUS
  <2>2. PICK q \in S : t = AsStop(q)
    OBVIOUS
  <2>3. o.cloid = q.cloid
    BY <2>1, <2>2 DEF AsStop
  <2> QED  BY <2>1, <2>2, <2>3 DEF Unique
<1> HIDE DEF A
<1>5. Cardinality(Cloids(A)) = Cardinality(A)
  BY <1>3, <1>4, CloidsCounted
<1> QED  BY <1>1, <1>3, <1>4, <1>5 DEF A
-----------------------------------------------------------------------------
(***************************************************************************)
(* The grid of the curve.                                                  *)
(***************************************************************************)

LEMMA MinOfTwo ==
  ASSUME NEW a \in Int, NEW b \in Int
  PROVE  Min({a, b}) \in {a, b} /\ Min({a, b}) =< a /\ Min({a, b}) =< b
<1>1. \E x \in {a, b} : \A y \in {a, b} : x =< y
  OBVIOUS
<1> QED  BY <1>1 DEF Min

(* The curve yields at most max_open_orders levels.                        *)
LEMMA LevelsCounted ==
  ASSUME GridAssumption, NEW r \in 1..Len(Bounds),
         NEW g \in Bounds[r][1]..Bounds[r][2] - 1
  PROVE  Levels(r, g) \in Seq(Level) /\ Len(Levels(r, g)) =< 2 * PerSide
<1> DEFINE m == Min({PerSide, g + 1 - Bounds[r][1]})
           n == Min({PerSide, Bounds[r][2] - g})
           sells == [i \in 1..m |-> [side |-> "sell", price |-> g + 1 - i]]
           buys == [i \in 1..n |-> [side |-> "buy", price |-> g + i]]
<1>1. Bounds[r][1] \in Int /\ Bounds[r][2] \in Int /\ g \in Int /\ PerSide \in Nat
  BY DEF GridAssumption
<1>2. m \in Nat /\ m =< PerSide
  <2> DEFINE room == g + 1 - Bounds[r][1]
  <2>1. room \in Nat
    BY <1>1
  <2>2. m = Min({PerSide, room})
    OBVIOUS
  <2> HIDE DEF room, m
  <2>3. Min({PerSide, room}) \in {PerSide, room} /\ Min({PerSide, room}) =< PerSide
    <3>1. PerSide \in Int /\ room \in Int
      BY <1>1, <2>1
    <3> QED  BY ONLY <3>1, MinOfTwo
  <2> QED  BY <1>1, <2>1, <2>2, <2>3
<1>3. n \in Nat /\ n =< PerSide
  <2> DEFINE room == Bounds[r][2] - g
  <2>1. room \in Nat
    BY <1>1
  <2>2. n = Min({PerSide, room})
    OBVIOUS
  <2> HIDE DEF room, n
  <2>3. Min({PerSide, room}) \in {PerSide, room} /\ Min({PerSide, room}) =< PerSide
    <3>1. PerSide \in Int /\ room \in Int
      BY <1>1, <2>1
    <3> QED  BY ONLY <3>1, MinOfTwo
  <2> QED  BY <1>1, <2>1, <2>2, <2>3
<1>4. Levels(r, g) = sells \o buys
  BY DEF Levels
<1> HIDE DEF m, n
<1>5. sells \in Seq(Level) /\ Len(sells) = m
  BY <1>1, <1>2 DEF Level, Sides
<1>6. buys \in Seq(Level) /\ Len(buys) = n
  BY <1>1, <1>3 DEF Level, Sides
<1> HIDE DEF sells, buys
<1>7. sells \o buys \in Seq(Level) /\ Len(sells \o buys) = Len(sells) + Len(buys)
  BY <1>5, <1>6, ConcatProperties
<1> QED  BY <1>1, <1>2, <1>3, <1>4, <1>5, <1>6, <1>7

LEMMA FirstLevels ==
  ASSUME GridAssumption
  PROVE  /\ Levels(1, StartGap) \in Seq(Level)
         /\ Len(Levels(1, StartGap)) \in Nat /\ Len(Levels(1, StartGap)) =< 2 * PerSide
<1>1. 1 \in 1..Len(Bounds) /\ StartGap \in Bounds[1][1]..Bounds[1][2] - 1
  BY DEF GridAssumption
<1>2. Levels(1, StartGap) \in Seq(Level) /\ Len(Levels(1, StartGap)) =< 2 * PerSide
  BY <1>1, LevelsCounted
<1> QED  BY <1>2

(* The first grid numbers its levels from one.                             *)
LEMMA InitialGridCounted ==
  ASSUME GridAssumption
  PROVE  /\ InitialGrid \subseteq Stop /\ IsFiniteSet(InitialGrid) /\ Unique(InitialGrid)
         /\ Cardinality(InitialGrid) \in Nat
         /\ Cardinality(InitialGrid) =< 2 * PerSide
         /\ UpTo(InitialGrid, Cardinality(InitialGrid))
<1> DEFINE l == Levels(1, StartGap)
           n == Len(l)
           f == [i \in 1..n |-> Numbered(i, l[i])]
<1>1. l \in Seq(Level) /\ n \in Nat /\ n =< 2 * PerSide
  BY FirstLevels
<1>2. \A i \in 1..n : l[i] \in Level
  BY <1>1
<1>3. InitialGrid = {Numbered(i, l[i]) : i \in 1..n}
  BY DEF InitialGrid
<1> HIDE DEF l, n
<1>4. InitialGrid \subseteq Stop
  BY <1>1, <1>2, <1>3 DEF Numbered, Level, Stop
<1>5. f \in Bijection(1..n, InitialGrid)
  BY <1>3 DEF Bijection, Injection, Surjection, IsInjective, Numbered
<1>6. ExistsBijection(1..n, InitialGrid)
  BY <1>5 DEF ExistsBijection
<1>7. IsFiniteSet(InitialGrid) /\ Cardinality(InitialGrid) = n
  BY <1>1, <1>6, FS_NatBijection, FS_CountingElements
<1>8. Unique(InitialGrid) /\ UpTo(InitialGrid, n)
  BY <1>1, <1>3 DEF Numbered, Unique, UpTo
<1> QED  BY <1>1, <1>4, <1>7, <1>8

(* Its orders at the exchange.                                             *)
LEMMA PostedCounted ==
  ASSUME NEW S \in SUBSET Stop, IsFiniteSet(S), Unique(S), NEW g \in Nat
  PROVE  LET P == {AsOrder(s, g) : s \in S}
         IN  P \subseteq Order /\ IsFiniteSet(P) /\ Unique(P)
<1> DEFINE P == {AsOrder(s, g) : s \in S}
           f == [s \in S |-> AsOrder(s, g)]
<1>1. P \subseteq Order
  BY DEF Order, Stop, AsOrder
<1>2. f \in Surjection(S, P)
  BY DEF Surjection
<1>3. IsFiniteSet(P)
  <2> HIDE DEF P, f
  <2> QED  BY <1>2, FS_Surjection
<1>4. Unique(P)
  BY DEF Unique, AsOrder
<1> QED  BY <1>1, <1>3, <1>4

-----------------------------------------------------------------------------
(***************************************************************************)
(* Requests to the exchange.                                               *)
(***************************************************************************)

(* What is remembered is the stop or nothing, what landed is its order or  *)
(* nothing, and both happen unless a request failed.                       *)
LEMMA PlaceDoes ==
  ASSUME faults \in Nat, NEW s, NEW told, Place(s, told)
  PROVE  /\ told = {s} \/ told = {}
         /\ live' = live \/ live' = live \cup {AsOrder(s, gen)}
         /\ faults' = faults \/ Fault
         /\ lied' = lied \/ lied' = TRUE
         /\ faults' = faults => told = {s} /\ live' = live \cup {AsOrder(s, gen)}
         /\ ~lied' => ~lied
BY DEF Place, Fault

LEMMA PlaceTold ==
  ASSUME NEW s, NEW told, Place(s, told), ~lied'
  PROVE  told = {} \/ live' = live \cup {AsOrder(s, gen)}
BY DEF Place

(* An answer shows live orders; unless it lies it is one of ByCloid.       *)
LEMMA OpenOrdersDoes ==
  ASSUME faults \in Nat, NEW answer, OpenOrders(answer)
  PROVE  /\ answer = {} \/ \E newest \in BOOLEAN : answer = ByCloid(live, newest)
         /\ faults' = faults \/ Fault
         /\ lied' = lied \/ lied' = TRUE
         /\ faults' = faults \/ ~lied' =>
              \E newest \in BOOLEAN : answer = ByCloid(live, newest)
         /\ faults' = faults \/ ~lied' => lied' = lied
BY DEF OpenOrders, Fault

LEMMA CancelDoes ==
  ASSUME faults \in Nat, NEW os, Cancel(os)
  PROVE  /\ live' = live \/ live' = live \ os
         /\ faults' = faults \/ Fault
         /\ faults' = faults => live' = live \ os
BY DEF Cancel, Fault

(* An answer has an order per cloid.                                       *)
LEMMA AnswerUnique ==
  ASSUME IsFiniteSet(live), Numbering(live, gen, seq), live \subseteq Order,
         NEW newest \in BOOLEAN
  PROVE  LET answer == ByCloid(live, newest)
         IN  answer \subseteq live /\ IsFiniteSet(answer) /\ Unique(answer)
<1> DEFINE answer == ByCloid(live, newest)
<1>1. answer \in SUBSET live
  BY DEF ByCloid
<1>2. IsFiniteSet(answer)
  BY <1>1, FS_Subset
<1>3. ASSUME NEW o \in answer, NEW q \in answer, o.cloid = q.cloid PROVE o = q
  <2>1. o \in live /\ q \in live /\ o.gen \in Nat /\ q.gen \in Nat
    BY <1>1 DEF Order
  <2>2. o.gen =< q.gen /\ q.gen =< o.gen
    BY <1>3 DEF ByCloid
  <2> QED  BY <1>3, <2>1, <2>2 DEF Numbering
<1> QED  BY <1>1, <1>2, <1>3 DEF Unique

(* A new order takes the next number of its process.                       *)
LEMMA NumberingGrows ==
  ASSUME NEW L \in SUBSET Order, NEW g \in Nat, NEW n \in Nat, Numbering(L, g, n),
         IsFiniteSet(L), NEW s \in Stop, s.cloid = n + 1
  PROVE  LET N == L \cup {AsOrder(s, g)}
         IN  N \subseteq Order /\ IsFiniteSet(N) /\ Numbering(N, g, n + 1)
<1> DEFINE o == AsOrder(s, g)
<1>1. o \in Order /\ o.gen = g /\ o.cloid = n + 1
  BY DEF AsOrder, Stop, Order
<1> HIDE DEF o
<1>2. IsFiniteSet(L \cup {o})
  BY FS_AddElement
<1>3. \A q \in L : q.cloid \in Nat /\ q.gen \in Nat
  BY DEF Order
<1>4. Numbering(L \cup {o}, g, n + 1)
  BY <1>1, <1>3 DEF Numbering
<1> QED  BY <1>1, <1>2, <1>4 DEF o

LEMMA NumberingKept ==
  ASSUME NEW L \in SUBSET Order, NEW g \in Nat, NEW n \in Nat, Numbering(L, g, n),
         IsFiniteSet(L), NEW K \in SUBSET L
  PROVE  K \subseteq Order /\ IsFiniteSet(K) /\ Numbering(K, g, n) /\ Numbering(K, g, n + 1)
<1>1. \A q \in L : q.cloid \in Nat /\ q.gen \in Nat
  BY DEF Order
<1>2. IsFiniteSet(K)
  BY FS_Subset
<1>3. Numbering(K, g, n) /\ Numbering(K, g, n + 1)
  BY <1>1 DEF Numbering
<1> QED  BY <1>2, <1>3

LEMMA NumberingRestarts ==
  ASSUME NEW L \in SUBSET Order, NEW g \in Nat, NEW n \in Nat, Numbering(L, g, n)
  PROVE  Numbering(L, g + 1, 0)
<1>1. \A q \in L : q.cloid \in Nat /\ q.gen \in Nat
  BY DEF Order
<1> QED  BY <1>1 DEF Numbering

-----------------------------------------------------------------------------
(***************************************************************************)
(* The types: GridInv holds of every state of the grid.                    *)
(***************************************************************************)

LEMMA Parameters ==
  /\ Len(Bounds) \in Nat /\ Len(Bounds) > 0
  /\ PerSide \in Nat /\ PerSide > 0 /\ MaxEvents \in Nat
BY GridAssumption DEF GridAssumption

LEMMA RangesAreInts ==
  ASSUME NEW r \in 1..Len(Bounds)
  PROVE  Bounds[r][1] \in Int /\ Bounds[r][2] \in Int
BY GridAssumption DEF GridAssumption

LEMMA Nothing ==
  /\ IsFiniteSet({}) /\ Unique({}) /\ Cardinality({}) = 0 /\ Cloids({}) = {}
  /\ \A n : UpTo({}, n)
BY FS_EmptySet DEF Unique, UpTo, Cloids

(* What every request leaves of the counters, and a cancel of the orders.  *)
LEMMA CountersKept ==
  ASSUME GridInv
  PROVE  /\ faults \in Nat /\ gen \in Nat /\ seq \in Nat
         /\ faults' = faults \/ Fault => faults' \in 0..MaxEvents
BY Parameters DEF GridInv, TypeOK, Fault, MayHappen

LEMMA CancelKeeps ==
  ASSUME GridInv, NEW os, Cancel(os)
  PROVE  /\ live' \subseteq live /\ live' \subseteq Order /\ IsFiniteSet(live')
         /\ Numbering(live', gen, seq) /\ faults' \in 0..MaxEvents
<1>1. faults \in Nat /\ gen \in Nat /\ seq \in Nat
  BY CountersKept
<1>2. live' \in SUBSET live
  BY <1>1, CancelDoes
<1>3. live \in SUBSET Order /\ IsFiniteSet(live) /\ Numbering(live, gen, seq)
  BY DEF GridInv, TypeOK
<1>4. faults' \in 0..MaxEvents
  BY <1>1, CancelDoes, CountersKept
<1>5. live' \subseteq Order /\ IsFiniteSet(live') /\ Numbering(live', gen, seq)
  BY <1>1, <1>2, <1>3, NumberingKept
<1> QED  BY <1>2, <1>4, <1>5

LEMMA PlaceKeeps ==
  ASSUME GridInv, NEW s \in Stop, s.cloid = seq + 1, NEW told, Place(s, told)
  PROVE  /\ told = {} \/ told = {s}
         /\ live' \subseteq Order /\ IsFiniteSet(live') /\ Numbering(live', gen, seq + 1)
         /\ faults' \in 0..MaxEvents /\ lied' \in BOOLEAN
<1>1. faults \in Nat /\ gen \in Nat /\ seq \in Nat
  BY CountersKept
<1>2. live \in SUBSET Order /\ IsFiniteSet(live) /\ Numbering(live, gen, seq)
  BY DEF GridInv, TypeOK
<1>3. /\ told = {} \/ told = {s}
      /\ live' = live \/ live' = live \cup {AsOrder(s, gen)}
  BY <1>1, PlaceDoes
<1>4. faults' \in 0..MaxEvents
  BY <1>1, PlaceDoes, CountersKept
<1>5. lied' \in BOOLEAN
  BY <1>1, PlaceDoes DEF GridInv, TypeOK
<1>6. live' \subseteq Order /\ IsFiniteSet(live') /\ Numbering(live', gen, seq + 1)
  <2>1. CASE live' = live
    BY <1>1, <1>2, <2>1, NumberingKept
  <2>2. CASE live' = live \cup {AsOrder(s, gen)}
    BY <1>1, <1>2, <2>2, NumberingGrows
  <2> QED  BY <1>3, <2>1, <2>2
<1> QED  BY <1>3, <1>4, <1>5, <1>6

LEMMA AnswerKeeps ==
  ASSUME GridInv, NEW answer, OpenOrders(answer)
  PROVE  /\ answer \subseteq live /\ answer \subseteq Order
         /\ IsFiniteSet(answer) /\ Unique(answer)
         /\ faults' \in 0..MaxEvents /\ lied' \in BOOLEAN
<1>1. faults \in Nat
  BY CountersKept
<1>2. live \subseteq Order /\ IsFiniteSet(live) /\ Numbering(live, gen, seq)
  BY DEF GridInv, TypeOK
<1>3. answer = {} \/ \E newest \in BOOLEAN : answer = ByCloid(live, newest)
  BY <1>1, OpenOrdersDoes
<1>4. answer \subseteq live /\ IsFiniteSet(answer) /\ Unique(answer)
  BY <1>2, <1>3, AnswerUnique, Nothing
<1>5. faults' \in 0..MaxEvents
  BY <1>1, OpenOrdersDoes, CountersKept
<1>6. lied' \in BOOLEAN
  BY <1>1, OpenOrdersDoes DEF GridInv, TypeOK
<1> QED  BY <1>2, <1>4, <1>5, <1>6

(* A stop that was just numbered is an entry of its own.                   *)
LEMMA NewStop ==
  ASSUME NEW s \in Stop, NEW T, T = {} \/ T = {s}
  PROVE  T \subseteq Stop /\ IsFiniteSet(T) /\ Unique(T) /\ UpTo(T, s.cloid)
<1>1. IsFiniteSet(T)
  BY FS_EmptySet, FS_Singleton
<1>2. s.cloid \in Nat
  BY DEF Stop
<1> QED  BY <1>1, <1>2 DEF Unique, UpTo

LEMMA GridInvMain ==
  ASSUME GridInv, MainLoop
  PROVE  GridInv'
<1> USE DEF GridInv, TypeOK
<1>1. CASE MOutOfRange
  <2>1. /\ live' \subseteq Order /\ IsFiniteSet(live') /\ Numbering(live', gen, seq)
        /\ faults' \in 0..MaxEvents
    BY <1>1, CancelKeeps DEF MOutOfRange
  <2> QED  BY <1>1, <2>1 DEF MOutOfRange, marketVars, gridVars, eVars
<1>2. CASE MClearOut
  <2>1. /\ local' = {} /\ sig' = 0 /\ sig' \in 0..Len(Bounds)
    BY <1>2, Parameters DEF MClearOut
  <2>2. /\ local' \subseteq Stop /\ IsFiniteSet(local') /\ Unique(local')
        /\ Cardinality(Cloids(local')) = Cardinality(local')
    BY <2>1, Nothing
  <2> QED  BY <1>2, <2>1, <2>2 DEF MClearOut, marketVars, exchangeVars, eVars
<1>3. CASE MRangeChanged
  <2>1. /\ live' \subseteq Order /\ IsFiniteSet(live') /\ Numbering(live', gen, seq)
        /\ faults' \in 0..MaxEvents
    BY <1>3, CancelKeeps DEF MRangeChanged
  <2> QED  BY <1>3, <2>1 DEF MRangeChanged, marketVars, gridVars, eVars
<1>4. CASE MClearRange
  <2>1. /\ local' = {} /\ sig' = 0 /\ sig' \in 0..Len(Bounds)
    BY <1>4, Parameters DEF MClearRange
  <2>2. /\ local' \subseteq Stop /\ IsFiniteSet(local') /\ Unique(local')
        /\ Cardinality(Cloids(local')) = Cardinality(local')
    BY <2>1, Nothing
  <2> QED  BY <1>4, <2>1, <2>2 DEF MClearRange, marketVars, exchangeVars, eVars
<1>5. CASE MStartPost
  <2>1. mkt \in Bounds[range][1]..Bounds[range][2] - 1 /\ range \in 1..Len(Bounds)
    BY <1>5, RangesAreInts DEF MStartPost, InRange
  <2>2. Levels(range, mkt) \in Seq(Level)
    BY <2>1, LevelsCounted, GridAssumption
  <2>3. todo' \in Seq(Level) /\ msig' \in 0..Len(Bounds)
    BY <1>5, <2>1, <2>2, Parameters DEF MStartPost
  <2> QED  BY <1>5, <2>3 DEF MStartPost, marketVars, exchangeVars, gridVars, eVars
<1>6. CASE MPlace
  <2> DEFINE new == Numbered(seq + 1, Head(todo))
  <2>1. PICK told \in SUBSET {new} : mnew' = Remembered(new, told) /\ Place(new, told)
    BY <1>6 DEF MPlace
  <2>2. todo \in Seq(Level) /\ todo # << >> /\ seq \in Nat
    BY <1>6 DEF MPlace
  <2>3. Head(todo) \in Level /\ Tail(todo) \in Seq(Level)
    BY <2>2
  <2>4. new \in Stop /\ new.cloid = seq + 1
    <3>1. seq + 1 \in Nat /\ Head(todo).side \in Sides /\ Head(todo).price \in Int
      BY <2>2, <2>3 DEF Level
    <3> QED  BY ONLY <3>1 DEF Numbered, Stop, new
  <2> HIDE DEF new
  <2>5. /\ told = {} \/ told = {new}
        /\ live' \subseteq Order /\ IsFiniteSet(live') /\ Numbering(live', gen, seq + 1)
        /\ faults' \in 0..MaxEvents /\ lied' \in BOOLEAN
    BY <2>1, <2>4, PlaceKeeps
  <2>6. mnew' \subseteq Stop /\ IsFiniteSet(mnew') /\ Unique(mnew') /\ UpTo(mnew', seq + 1)
    BY <2>1, <2>4, <2>5, NewStop DEF Remembered
  <2>7. UpTo(made, seq + 1)
    BY <2>2 DEF UpTo, Stop
  <2>8. seq' = seq + 1 /\ todo' = Tail(todo) /\ mpc = "post" /\ mpc' = "placed"
    BY <1>6 DEF MPlace
  <2>9. UNCHANGED <<marketVars, pos, seen, fired, gen, gridVars, msig, msnap, eVars, overlap>>
    BY <1>6 DEF MPlace
  <2>10. Numbering(live', gen', seq') /\ UpTo(made', seq') /\ UpTo(mnew', seq')
    BY <2>5, <2>6, <2>7, <2>8, <2>9 DEF eVars
  <2>11. TypeOK'
    BY <2>2, <2>3, <2>5, <2>6, <2>8, <2>9 DEF marketVars, gridVars, eVars
  <2> QED  BY <2>5, <2>6, <2>8, <2>9, <2>10, <2>11 DEF gridVars, eVars
<1>7. CASE MPlaced
  <2>1. local' = Insert(local, mnew) /\ mnew' = {}
    BY <1>7 DEF MPlaced
  <2>2. /\ local' \subseteq Stop /\ IsFiniteSet(local') /\ Unique(local')
        /\ Cardinality(Cloids(local')) = Cardinality(local')
    BY <2>1, InsertUnique DEF Insert, Without
  <2>3. mnew' \subseteq Stop /\ IsFiniteSet(mnew') /\ Unique(mnew') /\ UpTo(mnew', seq)
    BY <2>1, Nothing
  <2> QED  BY <1>7, <2>1, <2>2, <2>3 DEF MPlaced, marketVars, exchangeVars, eVars
<1>8. CASE MVerify
  <2>1. msnap' \subseteq Order /\ faults' \in 0..MaxEvents /\ lied' \in BOOLEAN
    BY <1>8, AnswerKeeps DEF MVerify
  <2> QED  BY <1>8, <2>1 DEF MVerify, marketVars, exchangeVars, gridVars, eVars
<1>9. CASE MVerified
  <2>1. local' \in SUBSET local
    BY <1>9 DEF MVerified
  <2>2. IsFiniteSet(local') /\ Unique(local') /\ Cardinality(Cloids(local')) = Cardinality(local')
    BY <2>1, SubsetUnique
  <2>3. msnap' \subseteq Order /\ msig' \in 0..Len(Bounds) /\ sig' \in 0..Len(Bounds)
    BY <1>9, Parameters DEF MVerified
  <2>4. local' \subseteq Stop /\ lastPos' \in Int /\ mpc' = "idle" /\ mpc # "placed"
    BY <1>9, <2>1 DEF MVerified
  <2>5. UNCHANGED <<marketVars, exchangeVars, gen, seq, auditDue, todo, mnew,
                    eVars, faults, lied, overlap>>
    BY <1>9 DEF MVerified
  <2> QED  BY <2>2, <2>3, <2>4, <2>5 DEF marketVars, exchangeVars, eVars
<1>10. CASE MTraded
  BY <1>10 DEF MTraded, marketVars, exchangeVars, eVars
<1> QED  BY <1>1, <1>2, <1>3, <1>4, <1>5, <1>6, <1>7, <1>8, <1>9, <1>10 DEF MainLoop

(* The gap of the grid is a number, whatever the grid.                     *)
LEMMA EstimateIsInt ==
  ASSUME NEW G \in SUBSET Stop, IsFiniteSet(G)
  PROVE  EstimateStep(G) \in Int
<1> DEFINE sells == Side(G, "sell")
           buys == Side(G, "buy")
<1>1. /\ sells \in SUBSET Stop /\ IsFiniteSet(sells)
      /\ buys \in SUBSET Stop /\ IsFiniteSet(buys)
  BY FS_Subset DEF Side
<1> HIDE DEF sells, buys
<1>2. ASSUME NEW S \in SUBSET Stop, IsFiniteSet(S), Cardinality(S) >= 2
      PROVE  /\ Lowest(S) \in Stop /\ Highest(S) \in Stop
             /\ Lowest(S \ {Lowest(S)}) \in Stop /\ Highest(S \ {Highest(S)}) \in Stop
  <2>1. S # {}
    BY <1>2, FS_EmptySet
  <2>2. Lowest(S) \in S /\ Highest(S) \in S
    BY <1>2, <2>1, ExtremesExist
  <2>3. ASSUME NEW x \in S
        PROVE  S \ {x} \in SUBSET Stop /\ IsFiniteSet(S \ {x}) /\ S \ {x} # {}
    <3>1. IsFiniteSet(S \ {x}) /\ Cardinality(S \ {x}) = Cardinality(S) - 1
      BY <1>2, FS_RemoveElement
    <3>2. S \ {x} # {}
      BY <1>2, <3>1, FS_EmptySet, FS_CardinalityType
    <3> QED  BY <3>1, <3>2
  <2>4. Lowest(S \ {Lowest(S)}) \in Stop
    BY <2>2, <2>3, ExtremesExist
  <2>5. Highest(S \ {Highest(S)}) \in Stop
    BY <2>2, <2>3, ExtremesExist
  <2> QED  BY <2>2, <2>4, <2>5
<1>3. \A s \in Stop : s.price \in Int
  BY DEF Stop
<1>4. EstimateStep(G) =
        IF Cardinality(sells) >= 2
        THEN Lowest(sells \ {Lowest(sells)}).price - Lowest(sells).price
        ELSE IF Cardinality(buys) >= 2
             THEN Highest(buys).price - Highest(buys \ {Highest(buys)}).price
             ELSE 0
  BY DEF EstimateStep, sells, buys
<1>5. CASE Cardinality(sells) >= 2
  <2>1. Lowest(sells \ {Lowest(sells)}).price \in Int /\ Lowest(sells).price \in Int
    BY <1>1, <1>2, <1>3, <1>5
  <2> QED  BY <1>4, <1>5, <2>1
<1>6. CASE ~(Cardinality(sells) >= 2) /\ Cardinality(buys) >= 2
  <2>1. Highest(buys \ {Highest(buys)}).price \in Int /\ Highest(buys).price \in Int
    BY <1>1, <1>2, <1>3, <1>6
  <2> QED  BY <1>4, <1>6, <2>1
<1>7. CASE ~(Cardinality(sells) >= 2) /\ ~(Cardinality(buys) >= 2)
  BY <1>4, <1>7
<1> QED  BY <1>5, <1>6, <1>7

(* What a fill replaces is in the grid, on the side across from it.        *)
LEMMA TargetsExist ==
  ASSUME local \subseteq Stop, IsFiniteSet(local), CanReplace, NEW s \in Stop
  PROVE  /\ Target(s) \in local /\ Tip(s) \in local
         /\ Target(s).side # s.side
<1>1. ASSUME NEW d \in Sides
      PROVE  Lowest(Side(local, d)) \in Side(local, d) /\ Highest(Side(local, d)) \in Side(local, d)
  <2>1. Side(local, d) \in SUBSET Stop /\ Side(local, d) # {}
    BY DEF CanReplace, Side
  <2>2. IsFiniteSet(Side(local, d))
    BY FS_Subset DEF Side
  <2> QED  BY <2>1, <2>2, ExtremesExist
<1>2. "sell" \in Sides /\ "buy" \in Sides /\ s.side \in {"sell", "buy"}
  BY DEF Sides, Stop
<1>3. /\ Lowest(Side(local, "buy")) \in Side(local, "buy")
      /\ Highest(Side(local, "sell")) \in Side(local, "sell")
      /\ Lowest(Side(local, "buy")) \in Side(local, "buy")
      /\ Highest(Side(local, "sell")) \in Side(local, "sell")
  BY <1>1, <1>2
<1>4. \A x, d : x \in Side(local, d) => x \in local /\ x.side = d
  BY DEF Side
<1> QED  BY <1>2, <1>3, <1>4 DEF Target, Tip

LEMMA GridInvAudit ==
  ASSUME GridInv, Audit
  PROVE  GridInv'
<1> USE DEF GridInv, TypeOK
<1>1. CASE EAudit
  <2>1. /\ snap' \subseteq Order /\ IsFiniteSet(snap') /\ Unique(snap')
        /\ faults' \in 0..MaxEvents /\ lied' \in BOOLEAN
    BY <1>1, AnswerKeeps DEF EAudit
  <2> QED  BY <1>1, <2>1 DEF EAudit, marketVars, exchangeVars, gridVars, mVars, auditVars, fillVars
<1>2. CASE EAdopt
  <2>1. local' = {AsStop(o) : o \in snap} /\ snap' = {}
    BY <1>2 DEF EAdopt
  <2>2. /\ local' \subseteq Stop /\ IsFiniteSet(local') /\ Unique(local')
        /\ Cardinality(Cloids(local')) = Cardinality(local')
    BY <2>1, AdoptedUnique
  <2>3. snap' \subseteq Order /\ IsFiniteSet(snap') /\ Unique(snap')
    BY <2>1, Nothing
  <2>4. epc' \in {"idle", "position"} /\ epc = "audit"
    BY <1>2 DEF EAdopt, AfterAudit
  <2> QED  BY <1>2, <2>2, <2>3, <2>4 DEF EAdopt, marketVars, exchangeVars, mVars, auditVars, fillVars
<1>3. CASE ECompare
  <2>1. snap' \subseteq Order /\ IsFiniteSet(snap') /\ Unique(snap')
    BY <1>3, Nothing DEF ECompare
  <2>2. orphans' \subseteq Order /\ missing' \subseteq Nat
    BY <1>3 DEF ECompare, Cloids, Stop
  <2>3. epc = "audit" /\ epc' = "cancel"
    BY <1>3 DEF ECompare
  <2>4. UNCHANGED <<marketVars, exchangeVars, gen, seq, gridVars, mVars, posNow, fillVars,
                    faults, lied, overlap>>
    BY <1>3 DEF ECompare
  <2> QED  BY <2>1, <2>2, <2>3, <2>4 DEF marketVars, exchangeVars, gridVars, mVars, fillVars
<1>4. CASE ECancelOrphan
  <2>1. PICK o \in orphans : Cancel({o}) /\ orphans' = orphans \ {o}
    BY <1>4 DEF ECancelOrphan
  <2>2. /\ live' \subseteq Order /\ IsFiniteSet(live') /\ Numbering(live', gen, seq)
        /\ faults' \in 0..MaxEvents
    BY <2>1, CancelKeeps
  <2> QED  BY <1>4, <2>1, <2>2 DEF ECancelOrphan, marketVars, gridVars, mVars, fillVars
<1>5. CASE EDropMissing
  <2>1. local' \in SUBSET local
    BY <1>5 DEF EDropMissing, Without
  <2>2. IsFiniteSet(local') /\ Unique(local') /\ Cardinality(Cloids(local')) = Cardinality(local')
    BY <2>1, SubsetUnique
  <2>3. epc' \in {"idle", "position"} /\ epc = "cancel"
    BY <1>5 DEF EDropMissing, AfterAudit
  <2> QED  BY <1>5, <2>1, <2>2, <2>3 DEF EDropMissing, marketVars, exchangeVars, mVars, fillVars
<1> QED  BY <1>1, <1>2, <1>3, <1>4, <1>5 DEF Audit

(* What PostStop makes of the numbering and of the entries made so far.    *)
LEMMA PostKeeps ==
  ASSUME GridInv, NEW side \in Sides, NEW price \in Int, PostStop(side, price)
  PROVE  /\ seq' = seq + 1 /\ seq' \in Nat
         /\ live' \subseteq Order /\ IsFiniteSet(live') /\ Numbering(live', gen, seq + 1)
         /\ made' \subseteq Stop /\ IsFiniteSet(made') /\ Unique(made') /\ UpTo(made', seq + 1)
         /\ UpTo(mnew, seq + 1)
         /\ faults' \in 0..MaxEvents /\ lied' \in BOOLEAN
<1> DEFINE new == [cloid |-> seq + 1, side |-> side, price |-> price]
<1>1. seq' = seq + 1
  BY DEF PostStop
<1>2. PICK told \in SUBSET {new} : made' = made \cup Remembered(new, told) /\ Place(new, told)
  BY DEF PostStop
<1>3. seq \in Nat /\ made \subseteq Stop /\ IsFiniteSet(made) /\ Unique(made) /\ UpTo(made, seq)
  BY DEF GridInv, TypeOK
<1>4. new \in Stop /\ new.cloid = seq + 1
  BY <1>3 DEF Stop
<1> HIDE DEF new
<1>5. /\ told = {} \/ told = {new}
      /\ live' \subseteq Order /\ IsFiniteSet(live') /\ Numbering(live', gen, seq + 1)
      /\ faults' \in 0..MaxEvents /\ lied' \in BOOLEAN
  BY <1>2, <1>4, PlaceKeeps
<1>6. told \subseteq Stop /\ IsFiniteSet(told) /\ Unique(told) /\ UpTo(told, seq + 1)
  BY <1>4, <1>5, NewStop
<1>7. made' = made \cup told
  BY <1>2 DEF Remembered
<1>8. IsFiniteSet(made')
  BY <1>3, <1>6, <1>7, FS_Union
<1>9. \A s \in made : s.cloid \in Nat /\ s.cloid =< seq
  BY <1>3 DEF UpTo, Stop
<1>10. Unique(made') /\ UpTo(made', seq + 1)
  BY <1>3, <1>4, <1>5, <1>7, <1>9 DEF Unique, UpTo
<1>11. UpTo(mnew, seq + 1)
  BY <1>3 DEF GridInv, TypeOK, UpTo, Stop
<1> QED  BY <1>1, <1>3, <1>5, <1>6, <1>7, <1>8, <1>10, <1>11

LEMMA GridInvEvents ==
  ASSUME GridInv, EventLoop
  PROVE  GridInv'
<1> USE DEF GridInv, TypeOK
<1>1. CASE EChanged
  <2>1. /\ snap' \subseteq Order /\ IsFiniteSet(snap') /\ Unique(snap')
        /\ faults' \in 0..MaxEvents /\ lied' \in BOOLEAN
    BY <1>1, AnswerKeeps DEF EChanged
  <2>2. epc \notin {"extend", "commit"} /\ epc' = "diff" /\ posNow' \in Int /\ overlap' \in BOOLEAN
    BY <1>1 DEF EChanged
  <2>3. UNCHANGED <<marketVars, exchangeVars, gen, seq, gridVars, mVars, auditVars, fillVars>>
    BY <1>1 DEF EChanged
  <2> QED  BY <2>1, <2>2, <2>3 DEF marketVars, exchangeVars, gridVars, mVars, auditVars, fillVars
<1>2. CASE EDiff
  <2>1. queue' \subseteq Stop
    BY <1>2 DEF EDiff, Without
  <2>2. step' \in Int
    BY <1>2, EstimateIsInt DEF EDiff
  <2>3. epc = "diff" /\ epc' = "next"
    BY <1>2 DEF EDiff
  <2>4. UNCHANGED <<marketVars, exchangeVars, gen, seq, gridVars, mVars, snap, auditVars, posNow,
                    job, made, faults, lied, overlap>>
    BY <1>2 DEF EDiff
  <2> QED  BY <2>1, <2>2, <2>3, <2>4 DEF marketVars, exchangeVars, gridVars, mVars, auditVars
<1>3. CASE ESkip
  <2>1. queue' \subseteq queue
    BY <1>3 DEF ESkip
  <2>2. UNCHANGED <<marketVars, exchangeVars, gen, seq, gridVars, mVars, epc, snap, auditVars,
                    posNow, step, job, made, faults, lied, overlap>>
    BY <1>3 DEF ESkip
  <2> QED  BY <2>1, <2>2 DEF marketVars, exchangeVars, gridVars, mVars, auditVars
<1>4. CASE EReplace
  <2>1. PICK s \in queue :
          /\ queue' = queue \ {s}
          /\ job' = [stop |-> s, opp |-> Target(s), tip |-> Tip(s).price]
          /\ Cancel({o \in snap : o.cloid = Target(s).cloid})
    BY <1>4 DEF EReplace
  <2>2. CanReplace /\ epc = "next" /\ epc' = "oppose" /\ made' = {}
    BY <1>4 DEF EReplace
  <2>3. UNCHANGED <<marketVars, pos, seen, fired, gen, seq, gridVars, mVars, snap, auditVars,
                    posNow, step, lied, overlap>>
    BY <1>4 DEF EReplace
  <2>4. /\ live' \subseteq Order /\ IsFiniteSet(live') /\ Numbering(live', gen, seq)
        /\ faults' \in 0..MaxEvents
    BY <2>1, CancelKeeps
  <2>5. Target(s) \in local /\ Tip(s) \in local /\ s \in Stop
    BY <2>1, <2>2, TargetsExist
  <2>6. job' \in [stop : Stop, opp : Stop, tip : Int]
    <3>1. Target(s) \in Stop /\ Tip(s).price \in Int
      BY <2>5 DEF Stop
    <3> QED  BY ONLY <2>1, <2>5, <3>1
  <2>7. made' \subseteq Stop /\ IsFiniteSet(made') /\ Unique(made') /\ UpTo(made', seq)
    BY <2>2, Nothing
  <2>8. queue' \subseteq Stop
    BY <2>1
  <2> QED  BY <2>2, <2>3, <2>4, <2>6, <2>7, <2>8
              DEF marketVars, gridVars, mVars, auditVars
<1>5. CASE EOppose
  <2>1. job.stop \in Stop /\ Opposite(job.stop.side) \in Sides /\ job.stop.price \in Int
    BY DEF Stop, Sides, Opposite
  <2>2. PostStop(Opposite(job.stop.side), job.stop.price)
    BY <1>5 DEF EOppose
  <2>3. /\ seq' = seq + 1 /\ seq' \in Nat
        /\ live' \subseteq Order /\ IsFiniteSet(live') /\ Numbering(live', gen, seq')
        /\ made' \subseteq Stop /\ IsFiniteSet(made') /\ Unique(made') /\ UpTo(made', seq')
        /\ UpTo(mnew, seq')
        /\ faults' \in 0..MaxEvents /\ lied' \in BOOLEAN
    BY <2>1, <2>2, PostKeeps
  <2>4. epc = "oppose" /\ epc' = "extend"
    BY <1>5 DEF EOppose
  <2>5. UNCHANGED <<marketVars, pos, seen, fired, gen, gridVars, mVars, snap, auditVars, posNow,
                    queue, step, job, overlap>>
    BY <1>5 DEF EOppose
  <2> QED  BY <2>3, <2>4, <2>5 DEF marketVars, gridVars, mVars, auditVars
<1>6. CASE EExtend
  <2>1. job.stop.side \in Sides /\ Extension(job) \in Int
    BY DEF Stop, Extension
  <2>2. PostStop(job.stop.side, Extension(job))
    BY <1>6 DEF EExtend
  <2>3. /\ seq' = seq + 1 /\ seq' \in Nat
        /\ live' \subseteq Order /\ IsFiniteSet(live') /\ Numbering(live', gen, seq')
        /\ made' \subseteq Stop /\ IsFiniteSet(made') /\ Unique(made') /\ UpTo(made', seq')
        /\ UpTo(mnew, seq')
        /\ faults' \in 0..MaxEvents /\ lied' \in BOOLEAN
    BY <2>1, <2>2, PostKeeps
  <2>4. epc = "extend" /\ epc' = "commit"
    BY <1>6 DEF EExtend
  <2>5. UNCHANGED <<marketVars, pos, seen, fired, gen, gridVars, mVars, snap, auditVars, posNow,
                    queue, step, job, overlap>>
    BY <1>6 DEF EExtend
  <2> QED  BY <2>3, <2>4, <2>5 DEF marketVars, gridVars, mVars, auditVars
<1>7. CASE ECommit
  <2> DEFINE W == Without(local, Retired(job))
  <2>1. local' = Insert(W, made) /\ made' = {} /\ job' = NoJob /\ epc' = "next"
    BY <1>7 DEF ECommit
  <2>2. W \in SUBSET local
    BY DEF Without
  <2>3. IsFiniteSet(W) /\ Unique(W)
    <3> HIDE DEF W
    <3> QED  BY <2>2, SubsetUnique
  <2>4. /\ local' \subseteq Stop /\ IsFiniteSet(local') /\ Unique(local')
        /\ Cardinality(Cloids(local')) = Cardinality(local')
    <3> HIDE DEF W
    <3>1. local' \subseteq Stop
      BY <2>1, <2>2 DEF Insert, Without
    <3> QED  BY <2>1, <2>3, <3>1, InsertUnique
  <2>5. job' \in [stop : Stop, opp : Stop, tip : Int]
    BY ONLY <2>1 DEF NoJob, NoStop, Stop, Sides
  <2>6. made' \subseteq Stop /\ IsFiniteSet(made') /\ Unique(made') /\ UpTo(made', seq)
    BY <2>1, Nothing
  <2>7. UNCHANGED <<marketVars, exchangeVars, gen, seq, lastPos, sig, auditDue, mVars, snap,
                    auditVars, posNow, queue, step, faults, lied, overlap>>
    BY <1>7 DEF ECommit
  <2> HIDE DEF W
  <2> QED  BY <2>1, <2>4, <2>5, <2>6, <2>7 DEF marketVars, exchangeVars, mVars, auditVars
<1>8. CASE EDone
  <2>1. snap' \subseteq Order /\ IsFiniteSet(snap') /\ Unique(snap')
    BY <1>8, Nothing DEF EDone
  <2>2. epc' = "idle" /\ epc = "next" /\ step' = 0 /\ lastPos' = posNow /\ posNow' = 0
    BY <1>8 DEF EDone
  <2>3. UNCHANGED <<marketVars, exchangeVars, gen, seq, local, sig, auditDue, mVars, auditVars,
                    queue, job, made, faults, lied, overlap>>
    BY <1>8 DEF EDone
  <2> QED  BY <2>1, <2>2, <2>3 DEF marketVars, exchangeVars, mVars, auditVars
<1> QED  BY <1>1, <1>2, <1>3, <1>4, <1>5, <1>6, <1>7, <1>8 DEF EventLoop

LEMMA GridInvWorld ==
  ASSUME GridInv, World \/ WsUpdate \/ AuditTimer
  PROVE  GridInv'
<1> USE DEF GridInv, TypeOK
<1>1. ASSUME NEW level \in Int, NEW gap \in Int, Cross(level, gap) PROVE GridInv'
  <2> DEFINE gone == {o \in live : o.price = level}
  <2>1. /\ moves' = moves + 1 /\ moves + faults + gen < MaxEvents
        /\ mkt' = gap /\ live' = live \ gone
        /\ pos' = pos + Cardinality(Side(gone, "sell")) - Cardinality(Side(gone, "buy"))
        /\ fired' = fired \cup Cloids({o \in gone : o.gen = gen})
        /\ UNCHANGED <<range, seen, gen, seq, gridVars, mVars, eVars, faults, lied, overlap>>
    BY <1>1 DEF Cross, MayHappen
  <2>2. gone \in SUBSET live /\ live' \in SUBSET live
    BY <2>1
  <2> HIDE DEF gone
  <2>3. /\ live' \subseteq Order /\ IsFiniteSet(live') /\ Numbering(live', gen, seq)
    <3>1. /\ live \in SUBSET Order /\ IsFiniteSet(live) /\ Numbering(live, gen, seq)
          /\ gen \in Nat /\ seq \in Nat
      BY Parameters
    <3> QED  BY <2>2, <3>1, NumberingKept
  <2>4. \A d : Cardinality(Side(gone, d)) \in Nat
    <3>1. \A d : Side(gone, d) \in SUBSET live
      BY <2>2 DEF Side
    <3> QED  BY <3>1, FS_Subset, FS_CardinalityType
  <2>5. pos' \in Int
    BY <2>1, <2>4
  <2>6. moves' \in 0..MaxEvents
    BY <2>1, Parameters
  <2>7. fired' \subseteq Nat
    <3>1. \A o \in gone : o.cloid \in Nat
      BY <2>2 DEF Order
    <3>2. Cloids({o \in gone : o.gen = gen}) \subseteq Nat
      BY ONLY <3>1 DEF Cloids
    <3>3. fired \subseteq Nat
      OBVIOUS
    <3> QED  BY ONLY <2>1, <3>2, <3>3
  <2> QED  BY <2>1, <2>3, <2>5, <2>6, <2>7 DEF gridVars, mVars, eVars
<1>2. CASE MarketFalls
  <2>1. mkt \in Int /\ mkt - 1 \in Int
    OBVIOUS
  <2>2. Cross(mkt, mkt - 1)
    BY <1>2 DEF MarketFalls
  <2> QED  BY ONLY <1>1, <2>1, <2>2
<1>3. CASE MarketRises
  <2>1. mkt + 1 \in Int
    OBVIOUS
  <2>2. Cross(mkt + 1, mkt + 1)
    BY <1>3 DEF MarketRises
  <2> QED  BY ONLY <1>1, <2>1, <2>2
<1>4. CASE RangeMoves
  <2>1. range' \in 1..Len(Bounds) /\ moves' \in 0..MaxEvents
    BY <1>4, Parameters DEF RangeMoves, MayHappen
  <2> QED  BY <1>4, <2>1 DEF RangeMoves, exchangeVars, gridVars, mVars, eVars
<1>5. ASSUME NEW d \in {-1, 1}, MDrift(d) PROVE GridInv'
  <2>1. pos' \in Int /\ moves' \in 0..MaxEvents
    BY <1>5, Parameters DEF MDrift, MayHappen
  <2>2. mpc = "idle" /\ mpc' = "traded"
    BY <1>5 DEF MDrift
  <2>3. UNCHANGED <<mkt, range, live, seen, fired, gen, seq, gridVars, msig, todo, mnew, msnap,
                    eVars, faults, lied, overlap>>
    BY <1>5 DEF MDrift
  <2> QED  BY <2>1, <2>2, <2>3 DEF gridVars, eVars
<1>6. CASE WsUpdate
  BY <1>6 DEF WsUpdate, marketVars, gridVars, mVars, eVars
<1>7. CASE AuditTimer
  BY <1>7 DEF AuditTimer, marketVars, exchangeVars, mVars, eVars
<1> QED  BY <1>2, <1>3, <1>4, <1>5, <1>6, <1>7 DEF World

LEMMA GridInvRestart ==
  ASSUME GridInv, Restart
  PROVE  GridInv'
<1> USE DEF GridInv, TypeOK
<1>1. /\ live' \in SUBSET live /\ live' \subseteq Order /\ IsFiniteSet(live')
      /\ Numbering(live', gen, seq) /\ faults' \in 0..MaxEvents
  BY CancelKeeps DEF Restart
<1>2. gen' = gen + 1 /\ gen' \in 0..MaxEvents /\ seq' = 0
  BY Parameters DEF Restart, MayHappen
<1>3. Numbering(live', gen', seq')
  BY <1>1, <1>2, NumberingRestarts, Parameters
<1>4. /\ local' = {} /\ snap' = {} /\ made' = {} /\ mnew' = {}
      /\ seen' = pos /\ lastPos' = 0 /\ sig' = 0 /\ auditDue' = TRUE
      /\ mpc' = "idle" /\ msig' = 0 /\ todo' = << >> /\ msnap' = {}
      /\ epc' = "idle" /\ orphans' = {} /\ missing' = {} /\ posNow' = 0
      /\ queue' = {} /\ step' = 0 /\ job' = NoJob /\ fired' = {}
      /\ UNCHANGED <<marketVars, pos, lied, overlap>>
  BY DEF Restart
<1>5. job' \in [stop : Stop, opp : Stop, tip : Int]
  BY ONLY <1>4 DEF NoJob, NoStop, Stop, Sides
<1>6. /\ IsFiniteSet(local') /\ Unique(local') /\ Cardinality(Cloids(local')) = Cardinality(local')
      /\ IsFiniteSet(snap') /\ Unique(snap')
      /\ IsFiniteSet(made') /\ Unique(made') /\ UpTo(made', seq')
      /\ IsFiniteSet(mnew') /\ Unique(mnew') /\ UpTo(mnew', seq')
  BY <1>4, Nothing
<1>7. todo' \in Seq(Level) /\ sig' \in 0..Len(Bounds) /\ msig' \in 0..Len(Bounds)
  BY <1>4, Parameters
<1> QED  BY <1>1, <1>2, <1>3, <1>4, <1>5, <1>6, <1>7 DEF marketVars

LEMMA GridInvInit ==
  ASSUME Init
  PROVE  GridInv
<1>1. /\ InitialGrid \subseteq Stop /\ IsFiniteSet(InitialGrid) /\ Unique(InitialGrid)
      /\ Cardinality(InitialGrid) \in Nat
      /\ UpTo(InitialGrid, Cardinality(InitialGrid))
  BY InitialGridCounted, GridAssumption
<1>2. /\ live \subseteq Order /\ IsFiniteSet(live) /\ Unique(live)
      /\ live = {AsOrder(s, 0) : s \in local}
  BY <1>1, PostedCounted DEF Init
<1>3. /\ local = InitialGrid /\ gen = 0 /\ seq = Cardinality(InitialGrid)
  BY DEF Init
<1>4. Numbering(live, gen, seq)
  BY <1>1, <1>2, <1>3 DEF Numbering, Unique, UpTo, AsOrder
<1>5. Cardinality(Cloids(local)) = Cardinality(local)
  BY <1>1, <1>3, CloidsCounted
<1>6. /\ mkt \in Int /\ range \in 1..Len(Bounds) /\ sig \in 0..Len(Bounds)
      /\ pos \in Int /\ seen \in Int /\ lastPos \in Int
  BY GridAssumption, Parameters, RangesAreInts DEF Init, GridAssumption
<1>7. job \in [stop : Stop, opp : Stop, tip : Int]
  BY DEF Init, NoJob, NoStop, Stop, Sides
<1>8. /\ moves = 0 /\ gen = 0 /\ auditDue = FALSE
      /\ mpc = "idle" /\ msig = 0 /\ todo = << >> /\ mnew = {} /\ msnap = {}
      /\ epc = "idle" /\ snap = {} /\ orphans = {} /\ missing = {} /\ posNow = 0
      /\ queue = {} /\ step = 0 /\ made = {}
      /\ faults = 0 /\ lied = FALSE /\ overlap = FALSE /\ fired = {}
  BY DEF Init
<1>9. todo \in Seq(Level)
  BY <1>8
<1>10. local \subseteq Stop /\ seq \in Nat /\ live \subseteq Order
  BY <1>1, <1>2, <1>3
<1>11. TypeOK
  <2>1. gen \in 0..MaxEvents /\ moves \in 0..MaxEvents /\ faults \in 0..MaxEvents
    BY <1>8, Parameters
  <2>2. /\ mnew \subseteq Stop /\ msnap \subseteq Order /\ snap \subseteq Order
        /\ orphans \subseteq Order /\ missing \subseteq Nat /\ queue \subseteq Stop
        /\ made \subseteq Stop /\ fired \subseteq Nat
    BY <1>8
  <2>3. msig \in 0..Len(Bounds) /\ posNow \in Int /\ step \in Int
    BY <1>8, Parameters
  <2>4. auditDue \in BOOLEAN /\ lied \in BOOLEAN /\ overlap \in BOOLEAN
    BY <1>8
  <2>5. mpc = "idle" /\ epc = "idle"
    BY <1>8
  <2> QED  BY <1>5, <1>6, <1>7, <1>9, <1>10, <2>1, <2>2, <2>3, <2>4, <2>5 DEF TypeOK
<1> QED  BY <1>1, <1>2, <1>3, <1>4, <1>8, <1>11, Nothing DEF GridInv

LEMMA GridInvStep ==
  ASSUME GridInv, [Next]_vars
  PROVE  GridInv'
<1>1. CASE UNCHANGED vars
  BY <1>1 DEF vars, marketVars, exchangeVars, gridVars, mVars, eVars, GridInv, TypeOK
<1>2. CASE Next
  BY <1>2, GridInvMain, GridInvAudit, GridInvEvents, GridInvWorld, GridInvRestart DEF Next
<1> QED  BY <1>1, <1>2

(* The counters, positions, grids and orders keep their types, and the     *)
(* grid in memory never has two entries for one cloid, whatever fails and  *)
(* whatever overlaps (_next_cloid_for_leg, _local_grid).                   *)
THEOREM GridTypes == Spec => []TypeOK
<1>1. Init => GridInv
  BY GridInvInit
<1>2. GridInv /\ [Next]_vars => GridInv'
  BY GridInvStep
<1>3. GridInv => TypeOK
  BY DEF GridInv
<1> QED  BY <1>1, <1>2, <1>3, PTL DEF Spec

-----------------------------------------------------------------------------
(***************************************************************************)
(* Fills are real: a stop the event loop takes for filled was fired by     *)
(* the market, as long as no read lied and the loops did not overlap. The  *)
(* invariant says where the cloids of the grid can be at every await.      *)
(***************************************************************************)

LEMMA FillsUntouched ==
  ASSUME FillsParts, MAtRest, MAtRest',
         UNCHANGED <<live, fired, local, mnew, epc, snap, orphans, queue, job, made>>
  PROVE  FillsParts'
BY DEF FillsParts, MAtRest, Clearing, Replacing, Accounted

(* While E rests only the grid and the stop being placed matter.           *)
LEMMA FillsWithoutE ==
  ASSUME epc' = "idle", made' = {}, Cloids(mnew') \subseteq Accounted',
         ~Clearing' => Cloids(local') \subseteq Accounted'
  PROVE  FillsParts'
BY Nothing DEF FillsParts, Replacing

LEMMA FillsMain ==
  ASSUME GridInv, FillsInv, MainLoop, Undisturbed'
  PROVE  FillsParts'
<1> USE DEF MAtRest, Clearing, Replacing
<1>1. CASE MTraded
  <2>1. Undisturbed /\ mpc = "traded" /\ mpc' = "idle"
    BY <1>1 DEF MTraded, Undisturbed
  <2> QED  BY <1>1, <2>1, FillsUntouched DEF FillsInv, MTraded, exchangeVars, eVars
<1> SUFFICES ASSUME ~MTraded PROVE FillsParts'
  BY <1>1
<1>2. Undisturbed
  <2>1. CASE MPlace
    <3>1. PICK new, told : Place(new, told) /\ UNCHANGED <<gen, overlap>>
      BY <2>1 DEF MPlace
    <3>2. ~lied' => ~lied
      BY <3>1, PlaceDoes, CountersKept
    <3> QED  BY <3>1, <3>2 DEF Undisturbed
  <2>2. CASE MVerify
    <3>1. ~lied' => ~lied
      BY <2>2, OpenOrdersDoes, CountersKept DEF MVerify
    <3> QED  BY <2>2, <3>1 DEF MVerify, Undisturbed
  <2>3. CASE ~MPlace /\ ~MVerify
    <3>1. UNCHANGED <<gen, lied>> /\ (~overlap' => ~overlap)
      <4>1. CASE MOutOfRange \/ MRangeChanged \/ MStartPost
        BY <4>1 DEF MOutOfRange, MRangeChanged, MStartPost
      <4>2. CASE MClearOut \/ MClearRange \/ MPlaced \/ MVerified
        BY <4>2 DEF MClearOut, MClearRange, MPlaced, MVerified
      <4> QED  BY <2>3, <4>1, <4>2 DEF MainLoop
    <3> QED  BY <3>1 DEF Undisturbed
  <2> QED  BY <2>1, <2>2, <2>3
<1>3. FillsParts
  BY <1>2 DEF FillsInv
<1>4. epc = "idle"
  <2>1. CASE mpc = "idle"
    BY <2>1 DEF MainLoop, MOutOfRange, MClearOut, MRangeChanged, MClearRange, MStartPost,
                MPlace, MPlaced, MVerify, MVerified, Undisturbed
  <2>2. CASE mpc # "idle"
    <3>1. mpc # "traded"
      BY <2>2 DEF MainLoop, MOutOfRange, MClearOut, MRangeChanged, MClearRange, MStartPost,
                  MPlace, MPlaced, MVerify, MVerified
    <3> QED  BY <1>3, <2>2, <3>1 DEF FillsParts
  <2> QED  BY <2>1, <2>2
<1>5. UNCHANGED eVars /\ UNCHANGED fired
  BY DEF MainLoop, MOutOfRange, MClearOut, MRangeChanged, MClearRange, MStartPost, MPlace,
         MPlaced, MVerify, MVerified, exchangeVars
<1>6. epc' = "idle" /\ made' = {}
  BY <1>4, <1>5 DEF eVars, GridInv
<1>7. Cloids(mnew) \subseteq Accounted /\ (~Clearing => Cloids(local) \subseteq Accounted)
  BY <1>3, <1>4 DEF FillsParts
<1>8. ASSUME mnew' = {}, Clearing' \/ local' = {} PROVE FillsParts'
  BY <1>6, <1>8, FillsWithoutE, Nothing
<1>9. CASE MOutOfRange \/ MClearOut \/ MRangeChanged \/ MClearRange
  <2>1. mpc # "placed" /\ UNCHANGED mnew /\ (Clearing' \/ local' = {})
    BY <1>9 DEF MOutOfRange, MClearOut, MRangeChanged, MClearRange
  <2>2. mnew' = {}
    BY <2>1 DEF GridInv
  <2> QED  BY <1>8, <2>1, <2>2
<1>10. CASE MStartPost \/ MVerify \/ MVerified
  <2>1. UNCHANGED <<live, mnew>> /\ local' \subseteq local /\ ~Clearing
    BY <1>10 DEF MStartPost, MVerify, MVerified, exchangeVars, gridVars
  <2>2. Accounted' = Accounted /\ Cloids(local') \subseteq Cloids(local)
    BY <1>5, <2>1 DEF Accounted, Cloids
  <2> QED  BY <1>6, <1>7, <2>1, <2>2, FillsWithoutE
<1>11. CASE MPlace
  <2> DEFINE new == Numbered(seq + 1, Head(todo))
  <2>1. PICK told \in SUBSET {new} : mnew' = told /\ Place(new, told)
    BY <1>11 DEF MPlace, Remembered
  <2> HIDE DEF new
  <2>2. told = {} \/ (told = {new} /\ live' = live \cup {AsOrder(new, gen)})
    <3>1. ~lied'
      BY DEF Undisturbed
    <3>2. told = {new} \/ told = {}
      BY <2>1
    <3>3. told = {} \/ live' = live \cup {AsOrder(new, gen)}
      BY <2>1, <3>1, PlaceTold, CountersKept
    <3> QED  BY <3>1, <3>2, <3>3
  <2>3. live \subseteq live' /\ Accounted \subseteq Accounted'
    <3>1. live \subseteq live'
      BY <2>1, PlaceDoes, CountersKept
    <3> QED  BY <1>5, <3>1 DEF Accounted, Cloids
  <2>4. Cloids(mnew') \subseteq Accounted'
    <3>1. CASE told = {}
      BY <2>1, <3>1, Nothing
    <3>2. CASE told = {new} /\ live' = live \cup {AsOrder(new, gen)}
      <4>1. AsOrder(new, gen).cloid = new.cloid /\ AsOrder(new, gen) \in live'
        BY <3>2 DEF AsOrder
      <4> QED  BY <2>1, <3>2, <4>1 DEF Accounted, Cloids
    <3> QED  BY <2>2, <3>1, <3>2
  <2>5. local' = local /\ ~Clearing
    BY <1>11 DEF MPlace, gridVars
  <2> QED  BY <1>6, <1>7, <2>3, <2>4, <2>5, FillsWithoutE
<1>12. CASE MPlaced
  <2>1. UNCHANGED live /\ mnew' = {} /\ local' \subseteq local \cup mnew /\ ~Clearing
    BY <1>12 DEF MPlaced, exchangeVars, Insert, Without
  <2>2. Accounted' = Accounted /\ Cloids(local') \subseteq Cloids(local) \cup Cloids(mnew)
    BY <1>5, <2>1 DEF Accounted, Cloids
  <2> QED  BY <1>6, <1>7, <2>1, <2>2, FillsWithoutE, Nothing
<1> QED  BY <1>1, <1>9, <1>10, <1>11, <1>12 DEF MainLoop

(* E works while M rests: nothing is being placed or cleared.              *)
LEMMA RestingM ==
  ASSUME GridInv, FillsParts, epc # "idle"
  PROVE  MAtRest /\ ~Clearing /\ mnew = {}
BY DEF GridInv, FillsParts, MAtRest, Clearing

LEMMA FillsAudit ==
  ASSUME GridInv, FillsInv, Audit, Undisturbed'
  PROVE  FillsParts'
<1> USE DEF MAtRest, Clearing, Replacing
<1>1. Undisturbed /\ FillsParts
  <2>1. ~lied' => ~lied
    <3>1. CASE EAudit
      BY <3>1, OpenOrdersDoes, CountersKept DEF EAudit
    <3>2. CASE ~EAudit
      BY <3>2 DEF Audit, EAdopt, ECompare, ECancelOrphan, EDropMissing
    <3> QED  BY <3>1, <3>2
  <2>2. gen' = gen /\ (~overlap' => ~overlap)
    <3>1. CASE EAudit
      BY <3>1 DEF EAudit
    <3>2. CASE ~EAudit
      BY <3>2 DEF Audit, EAdopt, ECompare, ECancelOrphan, EDropMissing
    <3> QED  BY <3>1, <3>2
  <2> QED  BY <2>1, <2>2 DEF Undisturbed, FillsInv
<1>2. UNCHANGED <<mVars, fired, queue, job, made>>
  BY DEF Audit, EAudit, EAdopt, ECompare, ECancelOrphan, EDropMissing, exchangeVars, fillVars
<1>3. CASE EAudit
  <2>1. epc = "idle" /\ epc' = "audit" /\ mpc = "idle"
    BY <1>3 DEF EAudit, Undisturbed
  <2>2. UNCHANGED <<live, local>>
    BY <1>3 DEF EAudit, exchangeVars, gridVars
  <2>3. snap' \subseteq live
    BY <1>3, AnswerKeeps DEF EAudit
  <2>4. Cloids(snap') \subseteq Accounted' /\ Accounted' = Accounted
    BY <1>2, <2>2, <2>3 DEF Accounted, Cloids
  <2> QED  BY <1>1, <1>2, <2>1, <2>2, <2>4 DEF FillsParts, mVars
<1> SUFFICES ASSUME epc # "idle" PROVE FillsParts'
  BY <1>3 DEF Audit, EAdopt, ECompare, ECancelOrphan, EDropMissing
<1>4. MAtRest /\ ~Clearing /\ mnew = {} /\ MAtRest' /\ mnew' = {}
  BY <1>1, <1>2, RestingM DEF mVars
<1>5. epc # "commit" /\ epc # "extend" /\ made = {} /\ made' = {}
  BY <1>2 DEF GridInv, Audit, EAudit, EAdopt, ECompare, ECancelOrphan, EDropMissing
<1>6. CASE EAdopt
  <2>1. epc = "audit" /\ epc' \in {"idle", "position"} /\ UNCHANGED live
    BY <1>6 DEF EAdopt, AfterAudit, exchangeVars
  <2>2. Cloids(local') = Cloids(snap)
    <3>1. local' = {AsStop(o) : o \in snap} /\ \A o : AsStop(o).cloid = o.cloid
      BY <1>6 DEF EAdopt, AsStop
    <3> QED  BY ONLY <3>1 DEF Cloids
  <2>3. Accounted' = Accounted
    BY <1>2, <2>1 DEF Accounted
  <2>4. Cloids(local') \subseteq Accounted'
    BY <1>1, <2>1, <2>2, <2>3 DEF FillsParts
  <2> QED  BY <1>4, <1>5, <2>1, <2>4, Nothing DEF FillsParts
<1>7. CASE ECompare
  <2>1. epc = "audit" /\ epc' = "cancel" /\ UNCHANGED <<live, local>>
    BY <1>7 DEF ECompare, exchangeVars, gridVars
  <2>2. Cloids(orphans') \cap Cloids(local') = {}
    BY <1>7, <2>1 DEF ECompare, Cloids
  <2>3. Accounted' = Accounted
    BY <1>2, <2>1 DEF Accounted
  <2> QED  BY <1>1, <1>4, <1>5, <2>1, <2>2, <2>3, Nothing DEF FillsParts
<1>8. CASE ECancelOrphan
  <2>1. PICK o \in orphans : Cancel({o}) /\ orphans' = orphans \ {o}
    BY <1>8 DEF ECancelOrphan
  <2>2. live' = live \/ live' = live \ {o}
    BY <2>1, CancelDoes, CountersKept
  <2>3. epc = "cancel" /\ epc' = "cancel" /\ UNCHANGED local
    BY <1>8 DEF ECancelOrphan, gridVars
  <2>4. o.cloid \notin Cloids(local)
    BY <1>1, <2>3 DEF FillsParts, Cloids
  <2>5. ASSUME NEW c \in Cloids(local) PROVE c \in Accounted'
    <3>1. c \in Accounted
      BY <1>1, <1>4, <2>3, <2>5 DEF FillsParts
    <3>2. CASE c \in fired
      BY <1>2, <3>2 DEF Accounted
    <3>3. CASE c \in Cloids(live)
      <4>1. PICK q \in live : q.cloid = c
        BY <3>3 DEF Cloids
      <4>2. q # o
        BY <2>4, <2>5, <4>1
      <4> QED  BY <2>2, <4>1, <4>2 DEF Accounted, Cloids
    <3> QED  BY <3>1, <3>2, <3>3 DEF Accounted
  <2>6. Cloids(orphans') \cap Cloids(local') = {}
    BY <1>1, <2>1, <2>3 DEF FillsParts, Cloids
  <2> QED  BY <1>4, <1>5, <2>3, <2>5, <2>6, Nothing DEF FillsParts
<1>9. CASE EDropMissing
  <2>1. epc' \in {"idle", "position"} /\ epc = "cancel" /\ UNCHANGED live
    BY <1>9 DEF EDropMissing, AfterAudit, exchangeVars
  <2>2. Cloids(local') \subseteq Cloids(local)
    BY <1>9 DEF EDropMissing, Without, Cloids
  <2>3. Accounted' = Accounted
    BY <1>2, <2>1 DEF Accounted
  <2> QED  BY <1>1, <1>4, <1>5, <2>1, <2>2, <2>3, Nothing DEF FillsParts
<1> QED  BY <1>3, <1>6, <1>7, <1>8, <1>9 DEF Audit

(* What a process that never restarted sees is all there is.               *)
LEMMA AnswerComplete ==
  ASSUME NEW newest \in BOOLEAN, live \subseteq Order, \A o \in live : o.gen = gen
  PROVE  ByCloid(live, newest) = live
<1>1. gen \in Nat \/ live = {}
  BY DEF Order
<1>2. CASE live = {}
  BY <1>2 DEF ByCloid
<1>3. CASE gen \in Nat
  <2>1. ASSUME NEW o \in live, NEW q \in live PROVE q.gen =< o.gen /\ o.gen =< q.gen
    BY <1>3
  <2> QED  BY <2>1 DEF ByCloid
<1> QED  BY <1>1, <1>2, <1>3

LEMMA FirstProcess ==
  ASSUME GridInv, gen = 0
  PROVE  \A o \in live : o.gen = gen
BY DEF GridInv, TypeOK, Numbering, Order

(* A stop posted is at the exchange or not remembered.                     *)
LEMMA PostAccounted ==
  ASSUME GridInv, NEW side, NEW price, PostStop(side, price), ~lied', fired' = fired,
         Cloids(made) \subseteq Accounted
  PROVE  Accounted \subseteq Accounted' /\ Cloids(made') \subseteq Accounted'
<1> DEFINE new == [cloid |-> seq + 1, side |-> side, price |-> price]
<1>1. PICK told \in SUBSET {new} : made' = made \cup Remembered(new, told) /\ Place(new, told)
  BY DEF PostStop
<1> HIDE DEF new
<1>2. live \subseteq live'
  BY <1>1, PlaceDoes, CountersKept
<1>3. Accounted \subseteq Accounted'
  BY <1>2 DEF Accounted, Cloids
<1>4. told = {} \/ live' = live \cup {AsOrder(new, gen)}
  BY <1>1, PlaceTold
<1>5. Cloids(told) \subseteq Accounted'
  <2>1. CASE told = {}
    BY <2>1, Nothing
  <2>2. CASE live' = live \cup {AsOrder(new, gen)}
    <3>1. AsOrder(new, gen).cloid = new.cloid /\ AsOrder(new, gen) \in live'
      BY <2>2 DEF AsOrder
    <3> QED  BY <1>1, <3>1 DEF Accounted, Cloids
  <2> QED  BY <1>4, <2>1, <2>2
<1>6. Cloids(made') = Cloids(made) \cup Cloids(told)
  BY <1>1 DEF Remembered, Cloids
<1> QED  BY <1>3, <1>5, <1>6

LEMMA FillsEvents ==
  ASSUME GridInv, FillsInv, EventLoop, Undisturbed'
  PROVE  FillsParts'
<1> USE DEF MAtRest, Clearing, Replacing
<1>1. Undisturbed /\ FillsParts
  <2>1. CASE EChanged
    <3>1. ~lied' => ~lied
      BY <2>1, OpenOrdersDoes, CountersKept DEF EChanged
    <3> QED  BY <2>1, <3>1 DEF EChanged, Undisturbed, FillsInv
  <2>2. CASE EOppose \/ EExtend
    <3>1. PICK new, told : Place(new, told)
      BY <2>2 DEF EOppose, EExtend, PostStop
    <3>2. ~lied' => ~lied
      BY <3>1, PlaceDoes, CountersKept
    <3> QED  BY <2>2, <3>2 DEF EOppose, EExtend, Undisturbed, FillsInv
  <2>3. CASE EDiff \/ ESkip \/ EReplace \/ ECommit \/ EDone
    <3>1. UNCHANGED <<gen, lied, overlap>>
      BY <2>3 DEF EDiff, ESkip, EReplace, ECommit, EDone
    <3> QED  BY <3>1 DEF Undisturbed, FillsInv
  <2> QED  BY <2>1, <2>2, <2>3 DEF EventLoop
<1>2. UNCHANGED <<mVars, fired, orphans>>
  <2>1. CASE EChanged \/ EDiff \/ ESkip \/ EReplace
    BY <2>1 DEF EChanged, EDiff, ESkip, EReplace, exchangeVars, auditVars
  <2>2. CASE EOppose \/ EExtend \/ ECommit \/ EDone
    BY <2>2 DEF EOppose, EExtend, ECommit, EDone, exchangeVars, auditVars
  <2> QED  BY <2>1, <2>2 DEF EventLoop
<1>3. mpc' = mpc /\ mnew' = mnew /\ fired' = fired
  BY <1>2 DEF mVars
<1>4. CASE EChanged
  <2>1. epc \in {"position", "idle"} /\ epc' = "diff" /\ mpc = "idle"
    BY <1>1, <1>4 DEF EChanged, Undisturbed
  <2>2. UNCHANGED <<live, local, made>>
    BY <1>4 DEF EChanged, exchangeVars, gridVars, fillVars
  <2>3. snap' = live
    <3>1. ~lied' /\ gen = 0
      BY <1>1 DEF Undisturbed
    <3>2. \E newest \in BOOLEAN : snap' = ByCloid(live, newest)
      BY <1>4, <3>1, OpenOrdersDoes, CountersKept DEF EChanged
    <3>3. live \subseteq Order
      BY DEF GridInv, TypeOK
    <3> QED  BY <3>1, <3>2, <3>3, FirstProcess, AnswerComplete
  <2>4. Cloids(local) \subseteq Accounted /\ Accounted' = Accounted
    BY <1>1, <1>3, <2>1, <2>2 DEF FillsParts, Accounted
  <2>5. Cloids(local') \subseteq Cloids(snap') \cup fired'
    BY <1>3, <2>2, <2>3, <2>4 DEF Accounted
  <2> QED  BY <1>1, <1>3, <2>1, <2>2, <2>4, <2>5 DEF FillsParts
<1> SUFFICES ASSUME epc # "idle" PROVE FillsParts'
  BY <1>4 DEF EventLoop, EDiff, ESkip, EReplace, EOppose, EExtend, ECommit, EDone
<1>5. MAtRest /\ ~Clearing /\ mnew = {} /\ MAtRest' /\ mnew' = {}
  BY <1>1, <1>3, RestingM
<1>6. CASE EDiff
  <2>1. epc = "diff" /\ epc' = "next" /\ UNCHANGED <<live, local, made>>
    BY <1>6 DEF EDiff, exchangeVars, gridVars
  <2>2. Cloids(queue') \subseteq fired
    <3>1. queue' = Without(local, Cloids(snap)) /\ Cloids(local) \subseteq Cloids(snap) \cup fired
      BY <1>1, <1>6, <2>1 DEF EDiff, FillsParts
    <3> QED  BY ONLY <3>1 DEF Without, Cloids
  <2>3. Accounted' = Accounted
    BY <1>3, <2>1 DEF Accounted
  <2> QED  BY <1>1, <1>3, <1>5, <2>1, <2>2, <2>3, Nothing DEF FillsParts
<1>7. CASE ESkip
  <2>1. epc = "next" /\ epc' = "next" /\ UNCHANGED <<live, local, made>>
    BY <1>7 DEF ESkip, exchangeVars, gridVars
  <2>2. Cloids(queue') \subseteq Cloids(queue)
    BY <1>7 DEF ESkip, Cloids
  <2>3. Accounted' = Accounted
    BY <1>3, <2>1 DEF Accounted
  <2> QED  BY <1>1, <1>3, <1>5, <2>1, <2>2, <2>3, Nothing DEF FillsParts
<1>8. CASE EReplace
  <2>1. PICK s \in queue :
          /\ queue' = queue \ {s}
          /\ job' = [stop |-> s, opp |-> Target(s), tip |-> Tip(s).price]
          /\ Cancel({o \in snap : o.cloid = Target(s).cloid})
    BY <1>8 DEF EReplace
  <2>2. epc = "next" /\ epc' = "oppose" /\ made' = {} /\ UNCHANGED local
    BY <1>8 DEF EReplace, gridVars
  <2>3. job'.stop = s /\ job'.opp = Target(s)
    BY <2>1
  <2>4. Cloids(queue') \subseteq fired /\ s.cloid \in fired
    BY <1>1, <2>1, <2>2 DEF FillsParts, Cloids
  <2>5. ASSUME NEW c \in Cloids(local), c # Target(s).cloid PROVE c \in Accounted'
    <3>1. c \in Accounted
      BY <1>1, <1>5, <2>2, <2>5 DEF FillsParts
    <3>2. CASE c \in fired
      BY <1>3, <3>2 DEF Accounted
    <3>3. CASE c \in Cloids(live)
      <4>1. PICK q \in live : q.cloid = c
        BY <3>3 DEF Cloids
      <4>2. live' = live \/ live' = live \ {o \in snap : o.cloid = Target(s).cloid}
        BY <2>1, CancelDoes, CountersKept
      <4>3. q \in live'
        BY <2>5, <4>1, <4>2
      <4> QED  BY <4>1, <4>3 DEF Accounted, Cloids
    <3> QED  BY <3>1, <3>2, <3>3 DEF Accounted
  <2>6. Cloids(local') \subseteq Accounted' \cup {job'.opp.cloid}
    BY <2>2, <2>3, <2>5
  <2> QED  BY <1>3, <1>5, <2>2, <2>3, <2>4, <2>6, Nothing DEF FillsParts
<1>9. CASE EOppose \/ EExtend
  <2>1. /\ epc \in {"oppose", "extend"} /\ epc' \in {"extend", "commit"}
        /\ UNCHANGED <<local, queue, job>>
    BY <1>9 DEF EOppose, EExtend, gridVars
  <2>2. PICK side, price : PostStop(side, price)
    BY <1>9 DEF EOppose, EExtend
  <2>3. ~lied' /\ Cloids(made) \subseteq Accounted
    BY <1>1 DEF Undisturbed, FillsParts
  <2>4. Accounted \subseteq Accounted' /\ Cloids(made') \subseteq Accounted'
    BY <1>3, <2>2, <2>3, PostAccounted
  <2> QED  BY <1>1, <1>3, <1>5, <2>1, <2>4, Nothing DEF FillsParts
<1>10. CASE ECommit
  <2>1. epc = "commit" /\ epc' = "next" /\ made' = {} /\ UNCHANGED <<live, queue>>
    BY <1>10 DEF ECommit, exchangeVars
  <2>2. local' = Insert(Without(local, Retired(job)), made)
    BY <1>10 DEF ECommit
  <2>3. /\ Cloids(local) \subseteq Accounted \cup {job.opp.cloid}
        /\ Cloids(made) \subseteq Accounted
    BY <1>1, <1>5, <2>1 DEF FillsParts
  <2>4. Cloids(local') \subseteq Accounted
    <3>1. ASSUME NEW s \in local' PROVE s.cloid \in Accounted
      <4>1. s \in made \/ (s \in local /\ s.cloid # job.opp.cloid)
        BY <2>2 DEF Insert, Without, Retired
      <4> QED  BY <2>3, <4>1 DEF Cloids
    <3> QED  BY <3>1 DEF Cloids
  <2>5. Accounted' = Accounted
    BY <1>3, <2>1 DEF Accounted
  <2> QED  BY <1>1, <1>3, <1>5, <2>1, <2>4, <2>5, Nothing DEF FillsParts
<1>11. CASE EDone
  <2>1. epc = "next" /\ epc' = "idle" /\ UNCHANGED <<live, local, made>>
    BY <1>11 DEF EDone, exchangeVars
  <2>2. Accounted' = Accounted
    BY <1>3, <2>1 DEF Accounted
  <2> QED  BY <1>1, <1>3, <1>5, <2>1, <2>2, Nothing DEF FillsParts
<1> QED  BY <1>4, <1>6, <1>7, <1>8, <1>9, <1>10, <1>11 DEF EventLoop

LEMMA FillsWorld ==
  ASSUME GridInv, FillsInv, World \/ WsUpdate \/ AuditTimer, Undisturbed'
  PROVE  FillsParts'
<1> USE DEF MAtRest, Clearing, Replacing
<1>1. /\ UNCHANGED <<gen, lied, overlap>>
      /\ UNCHANGED <<local, mnew, epc, snap, orphans, queue, job, made>>
  <2>1. CASE MarketFalls \/ MarketRises
    BY <2>1 DEF MarketFalls, MarketRises, Cross, gridVars, mVars, eVars
  <2>2. CASE RangeMoves \/ \E d \in {-1, 1} : MDrift(d)
    BY <2>2 DEF RangeMoves, MDrift, gridVars, mVars, eVars
  <2>3. CASE WsUpdate \/ AuditTimer
    BY <2>3 DEF WsUpdate, AuditTimer, gridVars, mVars, eVars
  <2> QED  BY <2>1, <2>2, <2>3 DEF World
<1>2. Undisturbed /\ FillsParts
  BY <1>1 DEF Undisturbed, FillsInv
<1>3. mpc' = mpc \/ (mpc = "idle" /\ mpc' = "traded")
  <2>1. CASE MarketFalls \/ MarketRises
    BY <2>1 DEF MarketFalls, MarketRises, Cross, mVars
  <2>2. CASE RangeMoves \/ \E d \in {-1, 1} : MDrift(d)
    BY <2>2 DEF RangeMoves, MDrift, mVars
  <2>3. CASE WsUpdate \/ AuditTimer
    BY <2>3 DEF WsUpdate, AuditTimer, mVars
  <2> QED  BY <2>1, <2>2, <2>3 DEF World
<1>4. Accounted \subseteq Accounted'
  <2>1. ASSUME NEW level, NEW gap, Cross(level, gap) PROVE Accounted \subseteq Accounted'
    <3> DEFINE gone == {o \in live : o.price = level}
    <3>1. /\ live' = live \ gone
          /\ fired' = fired \cup Cloids({o \in gone : o.gen = gen})
      BY <2>1 DEF Cross
    <3>2. \A o \in live : o.gen = gen
      BY <1>2, FirstProcess DEF Undisturbed
    <3>3. {o \in gone : o.gen = gen} = gone
      BY <3>2
    <3>4. live \subseteq live' \cup gone
      BY <3>1
    <3> HIDE DEF gone
    <3> QED  BY <3>1, <3>3, <3>4 DEF Accounted, Cloids
  <2>2. CASE MarketFalls \/ MarketRises
    BY <2>1, <2>2 DEF MarketFalls, MarketRises
  <2>3. CASE RangeMoves \/ \E d \in {-1, 1} : MDrift(d)
    <3>1. UNCHANGED <<live, fired>>
      BY <2>3 DEF RangeMoves, MDrift, exchangeVars
    <3> QED  BY <3>1 DEF Accounted
  <2>4. CASE WsUpdate \/ AuditTimer
    <3>1. UNCHANGED <<live, fired>>
      BY <2>4 DEF WsUpdate, AuditTimer, exchangeVars
    <3> QED  BY <3>1 DEF Accounted
  <2> QED  BY <2>2, <2>3, <2>4 DEF World
<1>5. fired \subseteq fired'
  <2>1. CASE MarketFalls \/ MarketRises
    BY <2>1 DEF MarketFalls, MarketRises, Cross
  <2>2. CASE ~(MarketFalls \/ MarketRises)
    BY <2>2 DEF World, RangeMoves, MDrift, WsUpdate, AuditTimer, exchangeVars
  <2> QED  BY <2>1, <2>2
<1> QED  BY <1>1, <1>2, <1>3, <1>4, <1>5 DEF FillsParts

LEMMA FillsInit ==
  ASSUME Init
  PROVE  FillsInv
<1>1. live = {AsOrder(s, 0) : s \in local} /\ \A s : AsOrder(s, 0).cloid = s.cloid
  BY DEF Init, AsOrder
<1>2. Cloids(local) \subseteq Accounted
  BY ONLY <1>1 DEF Accounted, Cloids
<1>3. epc = "idle" /\ made = {} /\ mnew = {} /\ mpc = "idle"
  BY DEF Init
<1> QED  BY <1>2, <1>3, Nothing DEF FillsInv, FillsParts, MAtRest, Replacing

LEMMA FillsStep ==
  ASSUME GridInv, FillsInv, [Next]_vars
  PROVE  FillsInv'
<1> SUFFICES ASSUME Undisturbed' PROVE FillsParts'
  BY DEF FillsInv
<1>1. CASE UNCHANGED vars
  BY <1>1 DEF vars, marketVars, exchangeVars, gridVars, mVars, eVars, FillsInv, FillsParts,
              Undisturbed, MAtRest, Clearing, Replacing, Accounted
<1>2. CASE Restart
  BY <1>2 DEF Restart, Undisturbed, GridInv, TypeOK
<1>3. CASE Next /\ ~Restart
  BY <1>3, FillsMain, FillsAudit, FillsEvents, FillsWorld DEF Next
<1> QED  BY <1>1, <1>2, <1>3

(* For every grid and market: a stop that _apply_fills_to_grid replaces is *)
(* one the market did fire, whatever placements and cancels failed, unless *)
(* a read lied or the loops overlapped.                                    *)
THEOREM ReplacedStopsFired == Spec => []FillsAreReal
<1>1. Init => GridInv /\ FillsInv
  BY GridInvInit, FillsInit
<1>2. GridInv /\ FillsInv /\ [Next]_vars => GridInv' /\ FillsInv'
  BY GridInvStep, FillsStep
<1>3. FillsInv => FillsAreReal
  BY DEF FillsInv, FillsParts, FillsAreReal, Replacing
<1> QED  BY <1>1, <1>2, <1>3, PTL DEF Spec

-----------------------------------------------------------------------------
(***************************************************************************)
(* The grid stays within max_open_orders, as long as no request failed and *)
(* the loops did not overlap. A fill takes two entries that the grid does  *)
(* have, because what the diff found missing is still there when its turn  *)
(* comes; a rebuild finds an empty grid, because clearing left none, and   *)
(* an audit brings nothing back.                                           *)
(***************************************************************************)

LEMMA UpToWeaken ==
  ASSUME NEW S, NEW n \in Nat, UpTo(S, n), \A s \in S : s.cloid \in Nat
  PROVE  UpTo(S, n + 1)
BY DEF UpTo

LEMMA NumbersUpTo ==
  ASSUME GridInv, KeptParts
  PROVE  /\ UpTo(local, seq + 1) /\ UpTo(queue, seq + 1) /\ UpTo(snap, seq + 1)
         /\ UpTo(msnap, seq + 1)
<1>1. /\ \A s \in local : s.cloid \in Nat
      /\ \A s \in queue : s.cloid \in Nat
      /\ \A s \in snap : s.cloid \in Nat
      /\ \A s \in msnap : s.cloid \in Nat
  BY DEF GridInv, TypeOK, Stop, Order
<1>2. seq \in Nat
  BY DEF GridInv, TypeOK
<1>3. UpTo(local, seq) /\ UpTo(queue, seq) /\ UpTo(snap, seq) /\ UpTo(msnap, seq)
  BY DEF KeptParts
<1> QED  BY <1>1, <1>2, <1>3, UpToWeaken

(* A quiet answer shows all that is live.                                  *)
LEMMA QuietAnswer ==
  ASSUME GridInv, KeptParts, NEW answer, OpenOrders(answer), faults' = faults
  PROVE  answer = live /\ UpTo(answer, seq)
<1>1. \E newest \in BOOLEAN : answer = ByCloid(live, newest)
  BY OpenOrdersDoes, CountersKept
<1>2. live \subseteq Order /\ (\A o \in live : o.gen = gen) /\ Numbering(live, gen, seq)
  BY DEF GridInv, TypeOK, KeptParts
<1>3. answer = live
  BY <1>1, <1>2, AnswerComplete
<1>4. UpTo(live, seq)
  BY <1>2 DEF Numbering, UpTo
<1> QED  BY <1>3, <1>4

(* A fill takes two different entries out of the grid.                     *)
LEMMA RetiredCounted ==
  ASSUME GridInv, JobParts
  PROVE  LET W == Without(local, Retired(job))
         IN  IsFiniteSet(W) /\ Cardinality(W) \in Nat /\ Cardinality(W) + 2 =< Cardinality(local)
<1> DEFINE W == Without(local, Retired(job))
           L == local \ {job.stop}
           K == L \ {job.opp}
<1>1. IsFiniteSet(local) /\ Cardinality(local) \in Nat
  BY FS_CardinalityType DEF GridInv
<1>2. job.stop \in local /\ job.opp \in L
  BY DEF JobParts
<1>3. W \in SUBSET K
  BY DEF Without, Retired
<1> HIDE DEF W
<1>4. IsFiniteSet(L) /\ Cardinality(L) = Cardinality(local) - 1
  BY <1>1, <1>2, FS_RemoveElement
<1> HIDE DEF L
<1>5. IsFiniteSet(K) /\ Cardinality(K) = Cardinality(L) - 1
  BY <1>2, <1>4, FS_RemoveElement
<1> HIDE DEF K
<1>6. IsFiniteSet(W) /\ Cardinality(W) =< Cardinality(K)
  BY <1>3, <1>5, FS_Subset
<1>7. Cardinality(W) \in Nat /\ Cardinality(K) \in Nat
  BY <1>5, <1>6, FS_CardinalityType
<1> QED  BY <1>1, <1>4, <1>5, <1>6, <1>7 DEF W

(* Nothing but orders that disappear.                                      *)
LEMMA KeptShrinks ==
  ASSUME KeptParts, live' \subseteq live, mpc' = mpc \/ (MAtRest /\ MAtRest'),
         UNCHANGED <<local, queue, snap, msnap, made, mnew, todo, epc, sig, msig, orphans,
                     missing, job, gen, seq>>
  PROVE  KeptParts'
BY DEF KeptParts, JobParts, MAtRest, Clearing, Posting, Replacing, Cloids

(* While E rests only the grid and M's own work matter.                    *)
LEMMA KeptWithoutE ==
  ASSUME epc' = "idle", queue' = {},
         (\A o \in live : o.gen = gen)',
         UpTo(local, seq)', UpTo(snap, seq)', UpTo(msnap, seq)',
         (Cardinality(local) =< 2 * PerSide)',
         (mpc \in {"post", "placed"} =>
            Cardinality(local) + Cardinality(mnew) + Len(todo) =< 2 * PerSide)',
         (Clearing => live = {})', (MAtRest /\ sig = 0 => local = {})',
         (MAtRest /\ local = {} => live = {})',
         (Posting => /\ Cloids(live) \subseteq Cloids(local) \cup Cloids(mnew)
                     /\ msig \in 1..Len(Bounds))',
         (mpc = "verify" => live \subseteq msnap)'
  PROVE  KeptParts'
BY Nothing DEF KeptParts, Replacing

(* Requests that did not fail leave the count of failures at zero.         *)
LEMMA StaysQuiet ==
  ASSUME GridInv, KeptInv, Quiet', faults' = faults \/ Fault, ~overlap' => ~overlap
  PROVE  KeptParts /\ faults' = faults
BY CountersKept DEF Quiet, KeptInv, Fault

LEMMA KeptMain ==
  ASSUME GridInv, KeptInv, MainLoop, Quiet'
  PROVE  KeptParts'
<1> USE DEF MAtRest, Clearing, Posting
<1>1. KeptParts /\ faults' = faults
  <2>1. CASE MOutOfRange \/ MRangeChanged
    <3>1. faults' = faults \/ Fault
      BY <2>1, CancelDoes, CountersKept DEF MOutOfRange, MRangeChanged
    <3> QED  BY <2>1, <3>1, StaysQuiet DEF MOutOfRange, MRangeChanged
  <2>2. CASE MPlace
    <3>1. PICK new, told : Place(new, told)
      BY <2>2 DEF MPlace
    <3>2. faults' = faults \/ Fault
      BY <3>1, PlaceDoes, CountersKept
    <3> QED  BY <2>2, <3>2, StaysQuiet DEF MPlace
  <2>3. CASE MVerify
    <3>1. faults' = faults \/ Fault
      BY <2>3, OpenOrdersDoes, CountersKept DEF MVerify
    <3> QED  BY <2>3, <3>1, StaysQuiet DEF MVerify
  <2>4. CASE MClearOut \/ MClearRange \/ MStartPost \/ MPlaced \/ MVerified \/ MTraded
    <3>1. faults' = faults /\ (~overlap' => ~overlap)
      <4>1. CASE MStartPost
        BY <4>1 DEF MStartPost
      <4>2. CASE ~MStartPost
        BY <2>4, <4>2 DEF MClearOut, MClearRange, MPlaced, MVerified, MTraded
      <4> QED  BY <4>1, <4>2
    <3> QED  BY <3>1, StaysQuiet
  <2> QED  BY <2>1, <2>2, <2>3, <2>4 DEF MainLoop
<1>2. CASE MTraded
  BY <1>1, <1>2, KeptShrinks DEF MTraded, exchangeVars, eVars
<1> SUFFICES ASSUME ~MTraded PROVE KeptParts'
  BY <1>2
<1>3. epc = "idle"
  <2>1. CASE mpc = "idle"
    BY <2>1 DEF MainLoop, MOutOfRange, MClearOut, MRangeChanged, MClearRange, MStartPost,
                MPlace, MPlaced, MVerify, MVerified, Quiet
  <2>2. CASE mpc # "idle"
    <3>1. mpc # "traded"
      BY <2>2 DEF MainLoop, MOutOfRange, MClearOut, MRangeChanged, MClearRange, MStartPost,
                  MPlace, MPlaced, MVerify, MVerified
    <3> QED  BY <1>1, <2>2, <3>1 DEF KeptParts
  <2> QED  BY <2>1, <2>2
<1>4. UNCHANGED <<epc, snap, queue, made, gen>>
  BY DEF MainLoop, MOutOfRange, MClearOut, MRangeChanged, MClearRange, MStartPost, MPlace,
         MPlaced, MVerify, MVerified, eVars
<1>5. queue = {} /\ epc' = "idle" /\ queue' = {}
  BY <1>1, <1>3, <1>4 DEF KeptParts, Replacing
<1>6. CASE MOutOfRange \/ MRangeChanged
  <2>1. Cancel(live) /\ mpc = "idle" /\ Clearing'
    BY <1>6 DEF MOutOfRange, MRangeChanged
  <2>2. live' = {}
    <3>1. live' = live \ live
      BY <1>1, <2>1, CancelDoes, CountersKept
    <3> QED  BY <3>1
  <2>3. UNCHANGED <<local, seq, todo, mnew, msnap, msig, sig>>
    BY <1>6 DEF MOutOfRange, MRangeChanged, gridVars
  <2> QED  BY <1>1, <1>4, <1>5, <2>1, <2>2, <2>3, KeptWithoutE DEF KeptParts
<1>7. CASE MClearOut \/ MClearRange
  <2>1. Clearing /\ mpc' = "idle" /\ local' = {} /\ UNCHANGED <<live, seq, msnap>>
    BY <1>7 DEF MClearOut, MClearRange, exchangeVars
  <2>2. live' = {}
    BY <1>1, <2>1 DEF KeptParts
  <2>3. Cardinality(local') =< 2 * PerSide /\ UpTo(local', seq')
    BY <2>1, Nothing, Parameters
  <2> QED  BY <1>1, <1>4, <1>5, <2>1, <2>2, <2>3, KeptWithoutE DEF KeptParts
<1>8. CASE MStartPost
  <2>1. /\ mpc = "idle" /\ InRange /\ sig = 0 /\ mpc' = "post" /\ msig' = range
        /\ todo' = Levels(range, mkt)
        /\ UNCHANGED <<live, seq, local, sig, mnew, msnap>>
    BY <1>8 DEF MStartPost, exchangeVars, gridVars
  <2>2. local = {} /\ live = {} /\ mnew = {}
    BY <1>1, <2>1 DEF KeptParts, GridInv
  <2>3. range \in 1..Len(Bounds) /\ mkt \in Int
    BY DEF GridInv, TypeOK
  <2>4. mkt \in Bounds[range][1]..Bounds[range][2] - 1
    BY <2>1, <2>3, RangesAreInts DEF InRange
  <2>5. Len(todo') \in Nat /\ Len(todo') =< 2 * PerSide
    <3>1. Levels(range, mkt) \in Seq(Level) /\ Len(Levels(range, mkt)) =< 2 * PerSide
      BY <2>3, <2>4, LevelsCounted, GridAssumption
    <3> QED  BY <2>1, <3>1
  <2>6. Cardinality(local') = 0 /\ Cardinality(mnew') = 0
    BY <2>1, <2>2, Nothing
  <2>7. (Cardinality(local) =< 2 * PerSide)'
    BY <2>6, Parameters
  <2>8. (Cardinality(local) + Cardinality(mnew) + Len(todo) =< 2 * PerSide)'
    BY <2>5, <2>6, Parameters
  <2> QED  BY <1>1, <1>4, <1>5, <2>1, <2>2, <2>3, <2>7, <2>8, Nothing, KeptWithoutE DEF KeptParts
<1>9. CASE MPlace
  <2> DEFINE new == Numbered(seq + 1, Head(todo))
             o == AsOrder(new, gen)
  <2>1. PICK told \in SUBSET {new} : mnew' = told /\ Place(new, told)
    BY <1>9 DEF MPlace, Remembered
  <2>2. /\ mpc = "post" /\ todo # << >> /\ mpc' = "placed" /\ todo' = Tail(todo)
        /\ seq' = seq + 1 /\ UNCHANGED <<local, msnap, msig, sig>>
    BY <1>9 DEF MPlace, gridVars
  <2>3. new.cloid = seq + 1 /\ o.cloid = seq + 1 /\ o.gen = gen
    BY DEF Numbered, AsOrder
  <2> HIDE DEF new
  <2>4. mnew' = {new} /\ live' = live \cup {o}
    BY <1>1, <2>1, PlaceDoes, CountersKept
  <2> HIDE DEF o
  <2>5. mnew = {} /\ todo \in Seq(Level) /\ IsFiniteSet(local)
    BY <2>2 DEF GridInv, TypeOK
  <2>6. Cardinality(local') + Cardinality(mnew') + Len(todo') =< 2 * PerSide
    <3>1. Cardinality(local) + Cardinality(mnew) + Len(todo) =< 2 * PerSide
      BY <1>1, <2>2 DEF KeptParts
    <3>2. Cardinality(mnew) = 0 /\ Cardinality(mnew') = 1 /\ Cardinality(local) \in Nat
      BY <2>4, <2>5, FS_EmptySet, FS_Singleton, FS_CardinalityType
    <3>3. Len(todo') = Len(todo) - 1 /\ Len(todo) \in Nat
      BY <2>2, <2>5
    <3> QED  BY <2>2, <3>1, <3>2, <3>3, Parameters
  <2>7. UpTo(local, seq') /\ UpTo(snap, seq') /\ UpTo(msnap, seq')
    BY <1>1, <2>2, NumbersUpTo
  <2>8. (\A q \in live : q.gen = gen)'
    BY <1>1, <1>4, <2>3, <2>4 DEF KeptParts
  <2>9. Cloids(live') \subseteq Cloids(local') \cup Cloids(mnew') /\ msig' \in 1..Len(Bounds)
    <3>1. Cloids(live) \subseteq Cloids(local) /\ msig \in 1..Len(Bounds)
      BY <1>1, <2>2, <2>5, Nothing DEF KeptParts
    <3> QED  BY <2>2, <2>3, <2>4, <3>1 DEF Cloids
  <2>10. (Cardinality(local) =< 2 * PerSide)'
    BY <1>1, <2>2 DEF KeptParts
  <2> QED  BY <1>4, <1>5, <2>2, <2>6, <2>7, <2>8, <2>9, <2>10, KeptWithoutE
<1>10. CASE MPlaced
  <2>1. /\ mpc = "placed" /\ mpc' = "post" /\ mnew' = {}
        /\ local' = Insert(local, mnew) /\ UNCHANGED <<live, seq, todo, msnap, msig, sig>>
    BY <1>10 DEF MPlaced, exchangeVars
  <2>2. Cloids(local') = Cloids(local) \cup Cloids(mnew)
    BY <2>1 DEF Insert, Without, Cloids
  <2>3. UpTo(local', seq')
    <3>1. UpTo(local, seq) /\ UpTo(mnew, seq)
      BY <1>1 DEF KeptParts, GridInv
    <3> QED  BY <2>1, <3>1 DEF UpTo, Insert, Without
  <2>4. /\ Cardinality(local') \in Nat /\ Cardinality(local) \in Nat /\ Cardinality(mnew) \in Nat
        /\ Cardinality(local') =< Cardinality(local) + Cardinality(mnew)
    BY <2>1, InsertCounted DEF GridInv
  <2>5. Len(todo) \in Nat /\ Cardinality(mnew') = 0
    BY <2>1, Nothing DEF GridInv, TypeOK
  <2>6. Cardinality(local) + Cardinality(mnew) + Len(todo) =< 2 * PerSide
    BY <1>1, <2>1 DEF KeptParts
  <2>7. Cardinality(local') + Cardinality(mnew') + Len(todo') =< 2 * PerSide
    BY <2>1, <2>4, <2>5, <2>6, Parameters
  <2>8. Cardinality(local') =< 2 * PerSide
    BY <2>4, <2>5, <2>6, Parameters
  <2> QED  BY <1>1, <1>4, <1>5, <2>1, <2>2, <2>3, <2>7, <2>8, KeptWithoutE DEF KeptParts
<1>11. CASE MVerify
  <2>1. /\ mpc = "post" /\ mpc' = "verify" /\ OpenOrders(msnap')
        /\ UNCHANGED <<live, seq, local, sig, mnew, msig>>
    BY <1>11 DEF MVerify, exchangeVars, gridVars
  <2>2. msnap' = live /\ UpTo(msnap', seq)
    BY <1>1, <2>1, QuietAnswer
  <2> QED  BY <1>1, <1>4, <1>5, <2>1, <2>2, KeptWithoutE DEF KeptParts
<1>12. CASE MVerified
  <2>1. /\ mpc = "verify" /\ mpc' = "idle" /\ msnap' = {} /\ sig' = msig
        /\ local' = {s \in local : s.cloid \in Cloids(msnap)}
        /\ UNCHANGED <<live, seq>>
    BY <1>12 DEF MVerified, exchangeVars
  <2>2. local' \in SUBSET local
    BY <2>1
  <2>3. Cardinality(local') =< 2 * PerSide
    <3>1. Cardinality(local') =< Cardinality(local) /\ IsFiniteSet(local') /\ IsFiniteSet(local)
      BY <2>2, FS_Subset DEF GridInv
    <3>2. Cardinality(local) \in Nat /\ Cardinality(local') \in Nat
      BY <3>1, FS_CardinalityType
    <3>3. Cardinality(local) =< 2 * PerSide
      BY <1>1 DEF KeptParts
    <3> QED  BY <3>1, <3>2, <3>3, Parameters
  <2>4. UpTo(local', seq') /\ UpTo(msnap', seq')
    BY <1>1, <2>1, <2>2, Nothing DEF KeptParts, UpTo
  <2>5. sig' # 0
    BY <1>1, <2>1 DEF KeptParts
  <2>6. ASSUME local' = {}, NEW o \in live PROVE FALSE
    <3>1. mnew = {}
      BY <2>1 DEF GridInv
    <3>2. o \in msnap /\ o.cloid \in Cloids(local)
      <4>1. o \in msnap /\ Cloids(live) \subseteq Cloids(local)
        BY <1>1, <2>1, <3>1, Nothing DEF KeptParts
      <4> QED  BY <4>1 DEF Cloids
    <3>3. PICK s \in local : s.cloid = o.cloid
      BY <3>2 DEF Cloids
    <3>4. s \in local'
      BY <2>1, <3>2, <3>3 DEF Cloids
    <3> QED  BY <2>6, <3>4
  <2> QED  BY <1>1, <1>4, <1>5, <2>1, <2>3, <2>4, <2>5, <2>6, KeptWithoutE DEF KeptParts
<1> QED  BY <1>2, <1>6, <1>7, <1>8, <1>9, <1>10, <1>11, <1>12 DEF MainLoop

(* E works while M rests: of the parts about M's work nothing is left.     *)
LEMMA KeptWithoutM ==
  ASSUME MAtRest', (\A o \in live : o.gen = gen)',
         UpTo(local, seq)', UpTo(queue, seq)', UpTo(snap, seq)', UpTo(msnap, seq)',
         (queue # {} => epc = "next" \/ Replacing)',
         (\A s \in queue, e \in local \cup made : s.cloid = e.cloid => s = e)',
         (Replacing => JobParts)',
         (Cardinality(local) =< 2 * PerSide)',
         (sig = 0 => local = {})', (local = {} => live = {})',
         (epc = "audit" => live \subseteq snap /\ (local = {} => snap = {}))',
         (epc = "cancel" => \A o \in live : o \in orphans \/ o.cloid \in Cloids(local) \ missing)'
  PROVE  KeptParts'
BY DEF KeptParts, MAtRest, Clearing, Posting

LEMMA KeptAudit ==
  ASSUME GridInv, KeptInv, Audit, Quiet'
  PROVE  KeptParts'
<1> USE DEF MAtRest, Replacing
<1>1. KeptParts /\ faults' = faults
  <2>1. CASE EAudit
    <3>1. faults' = faults \/ Fault
      BY <2>1, OpenOrdersDoes, CountersKept DEF EAudit
    <3> QED  BY <2>1, <3>1, StaysQuiet DEF EAudit
  <2>2. CASE ECancelOrphan
    <3>1. faults' = faults \/ Fault
      BY <2>2, CancelDoes, CountersKept DEF ECancelOrphan
    <3> QED  BY <2>2, <3>1, StaysQuiet DEF ECancelOrphan
  <2>3. CASE EAdopt \/ ECompare \/ EDropMissing
    <3>1. UNCHANGED <<faults, overlap>>
      BY <2>3 DEF EAdopt, ECompare, EDropMissing
    <3> QED  BY <3>1, StaysQuiet
  <2> QED  BY <2>1, <2>2, <2>3 DEF Audit
<1>2. epc \in {"idle", "audit", "cancel"} /\ queue = {} /\ made = {}
  <2>1. epc \in {"idle", "audit", "cancel"}
    BY DEF Audit, EAudit, EAdopt, ECompare, ECancelOrphan, EDropMissing
  <2> QED  BY <1>1, <2>1 DEF KeptParts, GridInv
<1>3. UNCHANGED <<mpc, queue, made, msnap, seq, gen, sig>>
  BY DEF Audit, EAudit, EAdopt, ECompare, ECancelOrphan, EDropMissing, mVars, fillVars, gridVars
<1>4. MAtRest /\ MAtRest'
  <2>1. CASE epc = "idle"
    BY <1>3, <2>1 DEF Audit, EAudit, EAdopt, ECompare, ECancelOrphan, EDropMissing, Quiet
  <2> QED  BY <1>1, <1>3, <2>1 DEF KeptParts
<1>5. queue' = {} /\ UpTo(queue', seq') /\ UpTo(msnap', seq')
  BY <1>1, <1>2, <1>3, Nothing DEF KeptParts
<1>6. /\ \A o \in live : o.gen = gen
      /\ UpTo(local, seq) /\ UpTo(snap, seq) /\ Cardinality(local) =< 2 * PerSide
      /\ sig = 0 => local = {}
      /\ local = {} => live = {}
  BY <1>1, <1>4 DEF KeptParts
<1>7. CASE EAudit
  <2>1. epc' = "audit" /\ OpenOrders(snap') /\ UNCHANGED <<live, local>>
    BY <1>7 DEF EAudit, exchangeVars, gridVars
  <2>2. snap' = live /\ UpTo(snap', seq)
    BY <1>1, <2>1, QuietAnswer
  <2> QED  BY <1>3, <1>4, <1>5, <1>6, <2>1, <2>2, KeptWithoutM
<1>8. CASE EAdopt
  <2>1. /\ epc = "audit" /\ local = {} /\ epc' \in {"idle", "position"} /\ snap' = {}
        /\ local' = {AsStop(o) : o \in snap} /\ UNCHANGED live
    BY <1>8 DEF EAdopt, AfterAudit, exchangeVars
  <2>2. local' = {}
    BY <1>1, <2>1 DEF KeptParts
  <2>3. UpTo(local', seq') /\ UpTo(snap', seq')
    BY <2>1, <2>2, Nothing
  <2>4. Cardinality(local') =< 2 * PerSide
    BY <2>2, Nothing, Parameters
  <2> QED  BY <1>3, <1>4, <1>5, <1>6, <2>1, <2>2, <2>3, <2>4, KeptWithoutM
<1>9. CASE ECompare
  <2>1. /\ epc = "audit" /\ epc' = "cancel" /\ snap' = {}
        /\ orphans' = {o \in snap : o.cloid \notin Cloids(local)}
        /\ missing' = Cloids(local) \ Cloids(snap)
        /\ UNCHANGED <<live, local>>
    BY <1>9 DEF ECompare, exchangeVars, gridVars
  <2>2. ASSUME NEW o \in live PROVE o \in orphans' \/ o.cloid \in Cloids(local) \ missing'
    <3>1. o \in snap
      BY <1>1, <2>1 DEF KeptParts
    <3>2. o.cloid \in Cloids(snap)
      BY <3>1 DEF Cloids
    <3> QED  BY <2>1, <3>1, <3>2
  <2>3. UpTo(snap', seq')
    BY <2>1, Nothing
  <2> QED  BY <1>3, <1>4, <1>5, <1>6, <2>1, <2>2, <2>3, KeptWithoutM
<1>10. CASE ECancelOrphan
  <2>1. PICK o \in orphans : Cancel({o}) /\ orphans' = orphans \ {o}
    BY <1>10 DEF ECancelOrphan
  <2>2. live' = live \ {o}
    BY <1>1, <2>1, CancelDoes, CountersKept
  <2>3. epc = "cancel" /\ epc' = "cancel" /\ UNCHANGED <<local, snap, missing>>
    BY <1>10 DEF ECancelOrphan, gridVars
  <2>4. \A q \in live : q \in orphans \/ q.cloid \in Cloids(local) \ missing
    BY <1>1, <2>3 DEF KeptParts
  <2>5. \A q \in live' : q \in orphans' \/ q.cloid \in Cloids(local') \ missing'
    BY <2>1, <2>2, <2>3, <2>4
  <2> QED  BY <1>3, <1>4, <1>5, <1>6, <2>2, <2>3, <2>5, KeptWithoutM
<1>11. CASE EDropMissing
  <2>1. /\ epc = "cancel" /\ orphans = {} /\ epc' \in {"idle", "position"}
        /\ local' = Without(local, missing) /\ UNCHANGED <<live, snap>>
    BY <1>11 DEF EDropMissing, AfterAudit, exchangeVars
  <2>2. local' \in SUBSET local
    BY <2>1 DEF Without
  <2>3. Cardinality(local') =< 2 * PerSide
    <3>1. Cardinality(local') =< Cardinality(local) /\ IsFiniteSet(local') /\ IsFiniteSet(local)
      BY <2>2, FS_Subset DEF GridInv
    <3>2. Cardinality(local) \in Nat /\ Cardinality(local') \in Nat
      BY <3>1, FS_CardinalityType
    <3> QED  BY <1>6, <3>1, <3>2, Parameters
  <2>4. UpTo(local', seq')
    BY <1>3, <1>6, <2>2 DEF UpTo
  <2>5. ASSUME local' = {}, NEW o \in live PROVE FALSE
    <3>1. o.cloid \in Cloids(local) \ missing
      BY <1>1, <2>1 DEF KeptParts
    <3>2. PICK s \in local : s.cloid = o.cloid
      BY <3>1 DEF Cloids
    <3>3. s \in local'
      BY <2>1, <3>1, <3>2 DEF Without
    <3> QED  BY <2>5, <3>3
  <2> QED  BY <1>3, <1>4, <1>5, <1>6, <2>1, <2>2, <2>3, <2>4, <2>5, KeptWithoutM
<1> QED  BY <1>7, <1>8, <1>9, <1>10, <1>11 DEF Audit

(* Without a failure a post lands, is remembered, and has a new number.    *)
LEMMA PostRemembered ==
  ASSUME GridInv, KeptParts, NEW side, NEW price, PostStop(side, price), faults' = faults,
         gen' = gen
  PROVE  /\ seq' = seq + 1 /\ (\A o \in live : o.gen = gen)'
         /\ IsFiniteSet(made') /\ made' # {}
         /\ Cardinality(made) \in Nat /\ Cardinality(made') \in Nat
         /\ Cardinality(made') =< Cardinality(made) + 1
         /\ \A s \in queue, e \in local \cup made' : s.cloid = e.cloid => s = e
<1> DEFINE new == [cloid |-> seq + 1, side |-> side, price |-> price]
<1>1. PICK told \in SUBSET {new} : made' = made \cup Remembered(new, told) /\ Place(new, told)
  BY DEF PostStop
<1>2. seq' = seq + 1
  BY DEF PostStop
<1>3. new.cloid = seq + 1
  OBVIOUS
<1> HIDE DEF new
<1>4. made' = made \cup {new} /\ live' = live \cup {AsOrder(new, gen)}
  BY <1>1, PlaceDoes, CountersKept DEF Remembered
<1>5. (\A o \in live : o.gen = gen)'
  <2>1. AsOrder(new, gen).gen = gen
    BY DEF AsOrder
  <2> QED  BY <1>4, <2>1 DEF KeptParts
<1>6. /\ IsFiniteSet(made') /\ Cardinality(made') =< Cardinality(made) + 1
      /\ Cardinality(made) \in Nat /\ Cardinality(made') \in Nat
  <2>1. IsFiniteSet(made) /\ Cardinality(made) \in Nat
    BY FS_CardinalityType DEF GridInv
  <2>2. /\ IsFiniteSet(made')
        /\ Cardinality(made') = IF new \in made THEN Cardinality(made) ELSE Cardinality(made) + 1
    BY <1>4, <2>1, FS_AddElement
  <2> QED  BY <2>1, <2>2
<1>7. ASSUME NEW s \in queue PROVE s.cloid # new.cloid
  <2>1. s.cloid \in Nat /\ s.cloid =< seq /\ seq \in Nat
    BY DEF GridInv, TypeOK, KeptParts, UpTo, Stop
  <2> QED  BY <1>3, <2>1
<1>8. \A s \in queue, e \in local \cup made' : s.cloid = e.cloid => s = e
  BY <1>4, <1>7 DEF KeptParts
<1> QED  BY <1>2, <1>4, <1>5, <1>6, <1>8

LEMMA KeptEvents ==
  ASSUME GridInv, KeptInv, EventLoop, Quiet'
  PROVE  KeptParts'
<1> USE DEF MAtRest, Replacing
<1>1. KeptParts /\ faults' = faults
  <2>1. CASE EChanged
    <3>1. faults' = faults \/ Fault
      BY <2>1, OpenOrdersDoes, CountersKept DEF EChanged
    <3> QED  BY <2>1, <3>1, StaysQuiet DEF EChanged
  <2>2. CASE EReplace
    <3>1. PICK os : Cancel(os)
      BY <2>2 DEF EReplace
    <3>2. faults' = faults \/ Fault
      BY <3>1, CancelDoes, CountersKept
    <3> QED  BY <2>2, <3>2, StaysQuiet DEF EReplace
  <2>3. CASE EOppose \/ EExtend
    <3>1. PICK new, told : Place(new, told)
      BY <2>3 DEF EOppose, EExtend, PostStop
    <3>2. faults' = faults \/ Fault
      BY <3>1, PlaceDoes, CountersKept
    <3> QED  BY <2>3, <3>2, StaysQuiet DEF EOppose, EExtend
  <2>4. CASE EDiff \/ ESkip \/ ECommit \/ EDone
    <3>1. UNCHANGED <<faults, overlap>>
      BY <2>4 DEF EDiff, ESkip, ECommit, EDone
    <3> QED  BY <3>1, StaysQuiet
  <2> QED  BY <2>1, <2>2, <2>3, <2>4 DEF EventLoop
<1>2. UNCHANGED <<mpc, msnap, gen, sig>>
  <2>1. CASE EChanged \/ EDiff \/ ESkip \/ EReplace
    BY <2>1 DEF EChanged, EDiff, ESkip, EReplace, mVars, gridVars
  <2>2. CASE EOppose \/ EExtend \/ ECommit \/ EDone
    BY <2>2 DEF EOppose, EExtend, ECommit, EDone, mVars, gridVars
  <2> QED  BY <2>1, <2>2 DEF EventLoop
<1>3. MAtRest /\ MAtRest'
  <2>1. CASE epc = "idle"
    BY <1>2, <2>1 DEF EventLoop, EChanged, EDiff, ESkip, EReplace, EOppose, EExtend, ECommit,
                      EDone, Quiet
  <2> QED  BY <1>1, <1>2, <2>1 DEF KeptParts
<1>4. /\ \A o \in live : o.gen = gen
      /\ UpTo(local, seq) /\ UpTo(queue, seq) /\ UpTo(snap, seq) /\ UpTo(msnap, seq)
      /\ queue # {} => epc = "next" \/ Replacing
      /\ \A s \in queue, e \in local \cup made : s.cloid = e.cloid => s = e
      /\ Replacing => JobParts
      /\ Cardinality(local) =< 2 * PerSide
      /\ sig = 0 => local = {}
      /\ local = {} => live = {}
  BY <1>1, <1>3 DEF KeptParts
<1>5. CASE EChanged
  <2>1. /\ epc \in {"position", "idle"} /\ epc' = "diff" /\ OpenOrders(snap')
        /\ UNCHANGED <<live, local, queue, made, seq>>
    BY <1>5 DEF EChanged, exchangeVars, gridVars, fillVars
  <2>2. UpTo(snap', seq)
    BY <1>1, <2>1, QuietAnswer
  <2> QED  BY <1>2, <1>3, <1>4, <2>1, <2>2, KeptWithoutM
<1>6. CASE EDiff
  <2>1. /\ epc = "diff" /\ epc' = "next" /\ queue' = Without(local, Cloids(snap))
        /\ UNCHANGED <<live, local, made, snap, seq>>
    BY <1>6 DEF EDiff, exchangeVars, gridVars
  <2>2. queue' \subseteq local /\ made = {} /\ Unique(local)
    BY <2>1 DEF Without, GridInv
  <2>3. UpTo(queue', seq')
    BY <1>4, <2>1, <2>2 DEF UpTo
  <2>4. \A s \in queue', e \in local' \cup made' : s.cloid = e.cloid => s = e
    BY <2>1, <2>2 DEF Unique
  <2> QED  BY <1>2, <1>3, <1>4, <2>1, <2>3, <2>4, KeptWithoutM
<1>7. CASE ESkip
  <2>1. /\ epc = "next" /\ epc' = "next" /\ queue' \subseteq queue
        /\ UNCHANGED <<live, local, made, snap, seq>>
    BY <1>7 DEF ESkip, exchangeVars, gridVars
  <2>2. UpTo(queue', seq')
    BY <1>4, <2>1 DEF UpTo
  <2> QED  BY <1>2, <1>3, <1>4, <2>1, <2>2, KeptWithoutM
<1>8. CASE EReplace
  <2>1. PICK s \in queue :
          /\ IsFirst(s) /\ Tracked(s) /\ queue' = queue \ {s}
          /\ job' = [stop |-> s, opp |-> Target(s), tip |-> Tip(s).price]
          /\ Cancel({o \in snap : o.cloid = Target(s).cloid})
    BY <1>8 DEF EReplace
  <2>2. /\ CanReplace /\ epc = "next" /\ epc' = "oppose" /\ made' = {}
        /\ UNCHANGED <<local, snap, seq>>
    BY <1>8 DEF EReplace, gridVars
  <2>3. live' \subseteq live
    BY <2>1, CancelDoes, CountersKept
  <2>4. s \in local
    <3>1. PICK e \in local : e.cloid = s.cloid
      BY <2>1 DEF Tracked, Cloids
    <3> QED  BY <1>4, <3>1
  <2>5. Target(s) \in local /\ Target(s).side # s.side
    BY <2>2, <2>4, TargetsExist DEF GridInv, TypeOK
  <2>6. JobParts'
    <3>1. job'.stop = s /\ job'.opp = Target(s)
      BY <2>1
    <3> QED  BY <2>2, <2>4, <2>5, <3>1 DEF JobParts
  <2>7. UpTo(queue', seq')
    BY <1>4, <2>1, <2>2 DEF UpTo
  <2>8. \A t \in queue', e \in local' \cup made' : t.cloid = e.cloid => t = e
    BY <1>4, <2>1, <2>2
  <2> QED  BY <1>2, <1>3, <1>4, <2>2, <2>3, <2>6, <2>7, <2>8, KeptWithoutM
<1>9. CASE EOppose \/ EExtend
  <2>1. /\ UNCHANGED <<local, queue, snap, job>>
        /\ \/ epc = "oppose" /\ epc' = "extend"
           \/ epc = "extend" /\ epc' = "commit"
    BY <1>9 DEF EOppose, EExtend, gridVars
  <2>2. PICK side, price : PostStop(side, price)
    BY <1>9 DEF EOppose, EExtend
  <2>3. /\ seq' = seq + 1 /\ (\A o \in live : o.gen = gen)'
        /\ made' # {}
        /\ Cardinality(made) \in Nat /\ Cardinality(made') \in Nat
        /\ Cardinality(made') =< Cardinality(made) + 1
        /\ \A s \in queue, e \in local \cup made' : s.cloid = e.cloid => s = e
    BY <1>1, <1>2, <2>2, PostRemembered
  <2>4. UpTo(local', seq') /\ UpTo(queue', seq') /\ UpTo(snap', seq') /\ UpTo(msnap', seq')
    BY <1>1, <1>2, <2>1, <2>3, NumbersUpTo
  <2>5. JobParts
    BY <1>4, <2>1
  <2>6. JobParts'
    <3>1. CASE epc = "oppose"
      <4>1. Cardinality(made) = 0
        BY <2>5, <3>1, Nothing DEF JobParts
      <4> QED  BY <2>1, <2>3, <2>5, <3>1, <4>1 DEF JobParts
    <3>2. CASE epc = "extend"
      BY <2>1, <2>3, <2>5, <3>2 DEF JobParts
    <3> QED  BY <2>1, <3>1, <3>2
  <2>7. local # {}
    BY <2>5 DEF JobParts
  <2> QED  BY <1>2, <1>3, <1>4, <2>1, <2>3, <2>4, <2>6, <2>7, KeptWithoutM
<1>10. CASE ECommit
  <2> DEFINE W == Without(local, Retired(job))
  <2>1. /\ epc = "commit" /\ epc' = "next" /\ made' = {}
        /\ local' = Insert(W, made)
        /\ UNCHANGED <<live, queue, snap, seq>>
    BY <1>10 DEF ECommit, exchangeVars
  <2>2. JobParts
    BY <1>4, <2>1
  <2>3. IsFiniteSet(W) /\ Cardinality(W) \in Nat /\ Cardinality(W) + 2 =< Cardinality(local)
    BY <2>2, RetiredCounted
  <2>4. W \subseteq local
    BY DEF Without
  <2> HIDE DEF W
  <2>5. local' \subseteq local \cup made /\ made \subseteq local'
    BY <2>1, <2>4 DEF Insert, Without
  <2>6. Cardinality(local') =< 2 * PerSide
    <3>1. /\ Cardinality(made) \in Nat /\ Cardinality(local') \in Nat
          /\ Cardinality(local') =< Cardinality(W) + Cardinality(made)
      BY <2>1, <2>3, InsertCounted DEF GridInv
    <3>2. Cardinality(made) =< 2
      BY <2>1, <2>2 DEF JobParts
    <3>3. Cardinality(local) \in Nat
      BY FS_CardinalityType DEF GridInv
    <3> QED  BY <1>4, <2>3, <3>1, <3>2, <3>3, Parameters
  <2>7. UpTo(local', seq')
    BY <1>4, <2>1, <2>5 DEF GridInv, UpTo
  <2>8. local' # {} /\ sig # 0
    BY <1>4, <2>1, <2>2, <2>5 DEF JobParts
  <2>9. \A s \in queue', e \in local' \cup made' : s.cloid = e.cloid => s = e
    BY <1>4, <2>1, <2>5
  <2> QED  BY <1>2, <1>3, <1>4, <2>1, <2>6, <2>7, <2>8, <2>9, KeptWithoutM
<1>11. CASE EDone
  <2>1. /\ epc' = "idle" /\ queue = {} /\ snap' = {}
        /\ UNCHANGED <<live, local, made, queue, seq>>
    BY <1>11 DEF EDone, exchangeVars
  <2>2. UpTo(snap', seq')
    BY <2>1, Nothing
  <2> QED  BY <1>2, <1>3, <1>4, <2>1, <2>2, KeptWithoutM
<1> QED  BY <1>5, <1>6, <1>7, <1>8, <1>9, <1>10, <1>11 DEF EventLoop

LEMMA KeptWorld ==
  ASSUME GridInv, KeptInv, World \/ WsUpdate \/ AuditTimer, Quiet'
  PROVE  KeptParts'
<1> USE DEF MAtRest
<1>1. /\ UNCHANGED <<faults, overlap>>
      /\ UNCHANGED <<local, queue, snap, msnap, made, mnew, todo, epc, sig, msig, orphans,
                     missing, job, gen, seq>>
  <2>1. CASE MarketFalls \/ MarketRises
    BY <2>1 DEF MarketFalls, MarketRises, Cross, gridVars, mVars, eVars
  <2>2. CASE RangeMoves \/ \E d \in {-1, 1} : MDrift(d)
    BY <2>2 DEF RangeMoves, MDrift, gridVars, mVars, eVars
  <2>3. CASE WsUpdate \/ AuditTimer
    BY <2>3 DEF WsUpdate, AuditTimer, gridVars, mVars, eVars
  <2> QED  BY <2>1, <2>2, <2>3 DEF World
<1>2. KeptParts
  BY <1>1 DEF Quiet, KeptInv
<1>3. live' \subseteq live /\ (mpc' = mpc \/ (MAtRest /\ MAtRest'))
  <2>1. CASE MarketFalls \/ MarketRises
    BY <2>1 DEF MarketFalls, MarketRises, Cross, mVars
  <2>2. CASE RangeMoves \/ \E d \in {-1, 1} : MDrift(d)
    BY <2>2 DEF RangeMoves, MDrift, mVars, exchangeVars
  <2>3. CASE WsUpdate \/ AuditTimer
    BY <2>3 DEF WsUpdate, AuditTimer, mVars, exchangeVars
  <2> QED  BY <2>1, <2>2, <2>3 DEF World
<1> QED  BY <1>1, <1>2, <1>3, KeptShrinks

(* A restart whose cancels succeed begins with an empty exchange.          *)
LEMMA KeptRestart ==
  ASSUME GridInv, KeptInv, Restart, Quiet'
  PROVE  KeptParts'
<1>1. faults' = faults
  <2>1. faults' = faults \/ Fault
    BY CancelDoes, CountersKept DEF Restart
  <2> QED  BY <2>1, StaysQuiet DEF Restart
<1>2. live' = {}
  <2>1. live' = live \ live
    BY <1>1, CancelDoes, CountersKept DEF Restart
  <2> QED  BY <2>1
<1>3. /\ local' = {} /\ snap' = {} /\ msnap' = {} /\ queue' = {}
      /\ epc' = "idle" /\ mpc' = "idle"
  BY DEF Restart
<1>4. UpTo(local', seq') /\ UpTo(snap', seq') /\ UpTo(msnap', seq')
  BY <1>3, Nothing
<1>5. Cardinality(local') =< 2 * PerSide
  BY <1>3, Nothing, Parameters
<1> QED  BY <1>2, <1>3, <1>4, <1>5, KeptWithoutE DEF Clearing, Posting

LEMMA KeptInit ==
  ASSUME Init
  PROVE  KeptInv
<1>1. /\ Cardinality(InitialGrid) \in Nat /\ Cardinality(InitialGrid) =< 2 * PerSide
      /\ UpTo(InitialGrid, Cardinality(InitialGrid))
  BY InitialGridCounted, GridAssumption
<1>2. /\ local = InitialGrid /\ seq = Cardinality(InitialGrid) /\ gen = 0 /\ sig = 1
      /\ live = {AsOrder(s, 0) : s \in InitialGrid}
      /\ epc = "idle" /\ mpc = "idle" /\ snap = {} /\ msnap = {} /\ queue = {}
  BY DEF Init
<1>3. (\A o \in live : o.gen = gen) /\ (local = {} => live = {})
  BY <1>2 DEF AsOrder
<1>4. UpTo(local, seq) /\ UpTo(queue, seq) /\ UpTo(snap, seq) /\ UpTo(msnap, seq)
  BY <1>1, <1>2, Nothing
<1>5. Cardinality(local) =< 2 * PerSide
  BY <1>1, <1>2
<1> QED  BY <1>2, <1>3, <1>4, <1>5
         DEF KeptInv, KeptParts, MAtRest, Clearing, Posting, Replacing

LEMMA KeptStep ==
  ASSUME GridInv, KeptInv, [Next]_vars
  PROVE  KeptInv'
<1> SUFFICES ASSUME Quiet' PROVE KeptParts'
  BY DEF KeptInv
<1>1. CASE UNCHANGED vars
  <2>1. UNCHANGED <<faults, overlap, live, mpc, local, queue, snap, msnap, made, mnew, todo,
                    epc, sig, msig, orphans, missing, job, gen, seq>>
    BY <1>1 DEF vars, marketVars, exchangeVars, gridVars, mVars, eVars
  <2> QED  BY <2>1, KeptShrinks DEF KeptInv, Quiet
<1>2. CASE Next
  BY <1>2, KeptMain, KeptAudit, KeptEvents, KeptWorld, KeptRestart DEF Next
<1> QED  BY <1>1, <1>2

LEMMA KeptCounted ==
  ASSUME GridInv, KeptInv
  PROVE  KeptBounded
<1> SUFFICES ASSUME Quiet PROVE Cardinality(Kept) =< 2 * PerSide
  BY DEF KeptBounded, Quiet
<1> DEFINE W == Without(local, Retired(job))
<1>1. KeptParts
  BY DEF KeptInv
<1>2. /\ IsFiniteSet(W) /\ Cardinality(W) \in Nat /\ Cardinality(W) =< Cardinality(local)
      /\ Cardinality(local) \in Nat
  <2>1. W \in SUBSET local
    BY DEF Without
  <2> HIDE DEF W
  <2> QED  BY <2>1, FS_Subset, FS_CardinalityType DEF GridInv
<1>3. CASE Replacing
  <2>1. JobParts /\ mnew = {} /\ Cardinality(made) =< 2
    <3>1. JobParts /\ mnew = {}
      BY <1>1, <1>3 DEF KeptParts, GridInv, Replacing, MAtRest
    <3>2. CASE epc = "oppose"
      BY <3>1, <3>2, Nothing DEF JobParts
    <3>3. CASE epc = "extend"
      <4>1. Cardinality(made) \in Nat /\ Cardinality(made) =< 1
        BY <3>1, <3>3, FS_CardinalityType DEF JobParts, GridInv
      <4> QED  BY <3>1, <4>1
    <3>4. CASE epc = "commit"
      BY <3>1, <3>4 DEF JobParts
    <3> QED  BY <1>3, <3>2, <3>3, <3>4, <3>1 DEF Replacing
  <2>2. Cardinality(W) + 2 =< Cardinality(local)
    BY <2>1, RetiredCounted
  <2> HIDE DEF W
  <2>3. Kept = W \cup made
    BY <2>1 DEF Kept, W
  <2>4. /\ IsFiniteSet(made) /\ Cardinality(made) \in Nat
        /\ Cardinality(W \cup made) = Cardinality(W) + Cardinality(made) - Cardinality(W \cap made)
        /\ Cardinality(W \cap made) \in Nat
    BY <1>2, FS_Union, FS_Intersection, FS_CardinalityType DEF GridInv
  <2>5. Cardinality(local) =< 2 * PerSide
    BY <1>1 DEF KeptParts
  <2> QED  BY <1>2, <2>1, <2>2, <2>3, <2>4, <2>5, Parameters
<1>4. CASE ~Replacing
  <2> HIDE DEF W
  <2>1. Kept = W \cup mnew
    <3>1. made = {}
      BY <1>4 DEF GridInv, Replacing
    <3> QED  BY <3>1 DEF Kept, W
  <2>2. /\ IsFiniteSet(mnew) /\ Cardinality(mnew) \in Nat
        /\ Cardinality(W \cup mnew) = Cardinality(W) + Cardinality(mnew) - Cardinality(W \cap mnew)
        /\ Cardinality(W \cap mnew) \in Nat
    BY <1>2, FS_Union, FS_Intersection, FS_CardinalityType DEF GridInv
  <2>3. Cardinality(local) + Cardinality(mnew) =< 2 * PerSide
    <3>1. CASE mpc = "placed"
      <4>1. Cardinality(local) + Cardinality(mnew) + Len(todo) =< 2 * PerSide
        BY <1>1, <3>1 DEF KeptParts
      <4>2. Len(todo) \in Nat
        BY DEF GridInv, TypeOK
      <4> QED  BY <1>2, <2>2, <4>1, <4>2, Parameters
    <3>2. CASE mpc # "placed"
      <4>1. Cardinality(mnew) = 0
        BY <3>2, Nothing DEF GridInv
      <4>2. Cardinality(local) =< 2 * PerSide
        BY <1>1 DEF KeptParts
      <4> QED  BY <1>2, <4>1, <4>2, Parameters
    <3> QED  BY <3>1, <3>2
  <2> QED  BY <1>2, <2>1, <2>2, <2>3, Parameters
<1> QED  BY <1>3, <1>4

(* For every max_open_orders, range and market: however many stops fire in *)
(* one iteration of _grid_event_iter, and however often the range changes, *)
(* the grid the engine means to keep never exceeds max_open_orders, unless *)
(* a request failed or the loops overlapped.                               *)
THEOREM GridStaysBounded == Spec => []KeptBounded
<1>1. Init => GridInv /\ KeptInv
  BY GridInvInit, KeptInit
<1>2. GridInv /\ KeptInv /\ [Next]_vars => GridInv' /\ KeptInv'
  BY GridInvStep, KeptStep
<1>3. GridInv /\ KeptInv => KeptBounded
  BY KeptCounted
<1> QED  BY <1>1, <1>2, <1>3, PTL DEF Spec

-----------------------------------------------------------------------------
(***************************************************************************)
(* The end of the operation.                                               *)
(***************************************************************************)

(* The steps of the grid while the process lives.                          *)
GridStep == MainLoop \/ Audit \/ EventLoop \/ World \/ WsUpdate \/ AuditTimer

(* What a step of the teardown may do to the grid: orders disappear, the   *)
(* position changes, a request fails.                                      *)
OutsideGrid ==
  /\ UNCHANGED otherVars /\ UNCHANGED seen
  /\ live' \subseteq live
  /\ faults' = faults \/ Fault

LEMMA OutsideKeepsGrid ==
  ASSUME GridInv, OutsideGrid, pos' \in Int
  PROVE  GridInv'
<1>1. /\ live' \in SUBSET live /\ faults' \in 0..MaxEvents
  BY CountersKept DEF OutsideGrid
<1>2. live' \subseteq Order /\ IsFiniteSet(live') /\ Numbering(live', gen, seq)
  <2>1. /\ live \in SUBSET Order /\ IsFiniteSet(live) /\ Numbering(live, gen, seq)
        /\ gen \in Nat /\ seq \in Nat
    BY Parameters DEF GridInv, TypeOK
  <2> QED  BY <1>1, <2>1, NumberingKept
<1>3. UNCHANGED otherVars /\ UNCHANGED seen
  BY DEF OutsideGrid
<1> QED  BY <1>1, <1>2, <1>3
         DEF GridInv, TypeOK, otherVars, marketVars, gridVars, mVars, eVars

LEMMA LoopsAreSteps ==
  ASSUME MainPass \/ DriftTrade \/ Events \/ Environment
  PROVE  GridStep \/ UNCHANGED vars
<1>1. CASE MaintainBegins \/ MaintainGoesOn
  BY <1>1 DEF MaintainBegins, MaintainGoesOn, GridBegins, GridGoesOn, GridStep, MainLoop
<1>2. CASE PlacedWithRow \/ ClearWithRows
  BY <1>2 DEF PlacedWithRow, ClearWithRows, GridStep, MainLoop
<1>3. CASE LatePassEnds
  BY <1>3 DEF LatePassEnds
<1>4. CASE DriftTrade \/ Events \/ Environment
  BY <1>4 DEF DriftTrade, Events, Environment, GridStep, World
<1> QED  BY <1>1, <1>2, <1>3, <1>4 DEF MainPass

LEMMA TeardownIsOutside ==
  ASSUME GridInv, TBegin \/ Teardown \/ TFails \/ Start
  PROVE  OutsideGrid
<1>1. CASE TBegin \/ TRead \/ TMark \/ TPosition \/ TEnd
  <2>1. UNCHANGED vars
    BY <1>1 DEF TBegin, TRead, TMark, TPosition, TEnd
  <2> QED  BY <2>1 DEF vars, exchangeVars, OutsideGrid, otherVars
<1>2. CASE TCancel
  <2>1. UNCHANGED otherVars /\ UNCHANGED seen
    BY <1>2 DEF TCancel
  <2>2. (live' = live /\ faults' = faults) \/ \E os : Cancel(os)
    BY <1>2 DEF TCancel
  <2>3. live' \subseteq live /\ (faults' = faults \/ Fault)
    BY <2>2, CancelDoes, CountersKept
  <2> QED  BY <2>1, <2>3 DEF OutsideGrid
<1>3. CASE TTrade \/ TFails \/ Start
  BY <1>3 DEF TTrade, TFails, Start, OutsideGrid
<1> QED  BY <1>1, <1>2, <1>3 DEF Teardown

LEMMA TeardownTypes ==
  ASSUME GridInv, TeardownTypeOK, [NextAll]_allVars
  PROVE  GridInv' /\ TeardownTypeOK'
<1>1. GridInv'
  <2>1. CASE MainPass \/ DriftTrade \/ Events \/ Environment \/ UNCHANGED allVars
    <3>1. [Next]_vars
      BY <2>1, LoopsAreSteps DEF allVars, Next, GridStep
    <3> QED  BY <3>1, GridInvStep
  <2>2. CASE TBegin \/ Teardown \/ TFails \/ Start
    <3>1. pos' \in Int
      <4>1. pos \in Int /\ tpos \in Int /\ StartShort \in Int
        BY GridAssumption DEF TeardownTypeOK, TypeOK, GridAssumption
      <4>2. pos' \in {pos, pos - tpos, pos + StartShort}
        <5>1. CASE TBegin \/ TRead \/ TMark \/ TPosition \/ TEnd
          BY <5>1 DEF TBegin, TRead, TMark, TPosition, TEnd, vars, exchangeVars
        <5>2. CASE TCancel \/ TTrade \/ TFails \/ Start
          BY <5>2 DEF TCancel, TTrade, TFails, Start
        <5> QED  BY <2>2, <5>1, <5>2 DEF Teardown
      <4> QED  BY <4>1, <4>2
    <3> QED  BY <2>2, <3>1, TeardownIsOutside, OutsideKeepsGrid
  <2> QED  BY <2>1, <2>2 DEF NextAll
<1>2. TypeOK'
  BY <1>1 DEF GridInv
<1> SUFFICES TeardownTypeOK'
  BY <1>1
<1> USE DEF TeardownTypeOK
<1>3. CASE MaintainBegins \/ DriftTrade \/ LatePassEnds
  BY <1>2, <1>3 DEF MaintainBegins, DriftTrade, LatePassEnds, tVars
<1>4. CASE MaintainGoesOn \/ Events \/ Environment \/ UNCHANGED allVars
  BY <1>2, <1>4 DEF MaintainGoesOn, Events, Environment, allVars, opVars, tVars
<1>5. CASE PlacedWithRow
  <2>1. Cloids(mnew) \subseteq Nat
    BY DEF GridInv, TypeOK, Cloids, Stop
  <2> QED  BY <1>2, <1>5, <2>1 DEF PlacedWithRow, tVars
<1>6. CASE ClearWithRows
  BY <1>2, <1>6 DEF ClearWithRows, tVars
<1>7. CASE TBegin
  <2>1. late' \in {"no", "grid", "drift"} /\ raced' \in BOOLEAN
    BY <1>7 DEF TBegin
  <2> QED  BY <1>2, <1>7, <2>1 DEF TBegin
<1>8. CASE TRead \/ TMark \/ TEnd
  <2>1. CASE TRead
    BY <1>2, <2>1 DEF TRead
  <2>2. CASE TMark
    BY <1>2, <2>2 DEF TMark
  <2>3. CASE TEnd
    BY <1>2, <2>3 DEF TEnd
  <2> QED  BY <1>8, <2>1, <2>2, <2>3
<1>9. CASE TCancel
  BY <1>2, <1>9 DEF TCancel
<1>10. CASE TPosition \/ TTrade
  <2>1. seen \in Int
    BY DEF TypeOK
  <2>2. CASE TPosition
    BY <1>2, <2>1, <2>2 DEF TPosition
  <2>3. CASE TTrade
    BY <1>2, <2>3 DEF TTrade
  <2> QED  BY <1>10, <2>2, <2>3
<1>11. CASE TFails
  BY <1>2, <1>11 DEF TFails
<1>12. CASE Start
  <2>1. stops' \in 0..MaxStops
    BY <1>12, StopsAssumption DEF Start, StopsAssumption
  <2> QED  BY <1>2, <1>12, <2>1 DEF Start, tVars
<1> QED  BY <1>3, <1>4, <1>5, <1>6, <1>7, <1>8, <1>9, <1>10, <1>11, <1>12
         DEF NextAll, MainPass, Teardown

LEMMA TeardownInit ==
  ASSUME InitAll
  PROVE  GridInv /\ TeardownTypeOK
<1>1. GridInv /\ TypeOK
  BY GridInvInit DEF InitAll, GridInv
<1>2. Cloids(local) \subseteq Nat
  BY <1>1 DEF TypeOK, Cloids, Stop
<1>3. stops \in 0..MaxStops /\ tpos \in Int
  BY StopsAssumption DEF InitAll, StopsAssumption
<1>4. /\ hub = "active" /\ late = "no" /\ active = Cloids(local) /\ rows = Cloids(local)
      /\ tpc = "idle" /\ listed = {} /\ tomark = {} /\ missed = FALSE /\ raced = FALSE
  BY DEF InitAll
<1> QED  BY <1>1, <1>2, <1>3, <1>4 DEF TeardownTypeOK

(* The state of a teardown next to a grid that works on keeps its types,   *)
(* and so does the grid: what T lists and marks are rows of grid_orders.   *)
THEOREM TeardownTypeCorrect == SpecAll => []TeardownTypeOK
<1>1. InitAll => GridInv /\ TeardownTypeOK
  BY TeardownInit
<1>2. GridInv /\ TeardownTypeOK /\ [NextAll]_allVars => GridInv' /\ TeardownTypeOK'
  BY TeardownTypes
<1> QED  BY <1>1, <1>2, PTL DEF SpecAll

(* A pass of the main loop that is at work moves it off its idle point; no *)
(* other step of the operation does.                                       *)
LEMMA MainAtWork ==
  /\ MaintainGoesOn \/ PlacedWithRow \/ ClearWithRows => mpc # "idle"
  /\ Events \/ Environment \/ LatePassEnds => mpc' = mpc
  /\ TBegin \/ Teardown \/ TFails \/ Start => mpc' = mpc
<1>1. MaintainGoesOn \/ PlacedWithRow \/ ClearWithRows => mpc # "idle"
  BY DEF MaintainGoesOn, GridGoesOn, PlacedWithRow, ClearWithRows, MClearOut, MPlace, MVerify,
         MVerified, MTraded, MPlaced, MClearRange
<1>2. Events => mpc' = mpc
  <2>1. Audit => mpc' = mpc
    BY DEF Audit, EAudit, EAdopt, ECompare, ECancelOrphan, EDropMissing, mVars
  <2>2. EventLoop => mpc' = mpc
    BY DEF EventLoop, EChanged, EDiff, ESkip, EReplace, EOppose, EExtend, ECommit, EDone, mVars
  <2> QED  BY <2>1, <2>2 DEF Events
<1>3. Environment => mpc' = mpc
  BY DEF Environment, MarketFalls, MarketRises, Cross, RangeMoves, WsUpdate, AuditTimer, mVars
<1>4. LatePassEnds => mpc' = mpc
  BY DEF LatePassEnds, vars, mVars
<1>5. TBegin \/ TRead \/ TMark \/ TPosition \/ TEnd => mpc' = mpc
  BY DEF TBegin, TRead, TMark, TPosition, TEnd, vars, mVars
<1>6. TCancel \/ TTrade \/ TFails \/ Start => mpc' = mpc
  BY DEF TCancel, TTrade, TFails, Start, otherVars, mVars
<1> QED  BY <1>1, <1>2, <1>3, <1>4, <1>5, <1>6 DEF Teardown

LEMMA TableStep ==
  ASSUME TeardownTypeOK, TableInv, [NextAll]_allVars
  PROVE  TableInv'
<1> USE DEF TableInv
<1>1. CASE MaintainBegins
  BY <1>1 DEF MaintainBegins, tVars
<1>2. CASE MaintainGoesOn
  BY <1>2, MainAtWork DEF MaintainGoesOn, opVars, tVars
<1>3. CASE PlacedWithRow
  BY <1>3, MainAtWork DEF PlacedWithRow, tVars
<1>4. CASE ClearWithRows
  BY <1>4, MainAtWork DEF ClearWithRows, tVars
<1>5. CASE LatePassEnds
  BY <1>5, MainAtWork DEF LatePassEnds, tVars
<1>6. CASE DriftTrade
  BY <1>6 DEF DriftTrade, tVars
<1>7. CASE Events \/ Environment
  BY <1>7, MainAtWork DEF Events, Environment, opVars, tVars
<1>8. CASE UNCHANGED allVars
  BY <1>8 DEF allVars, vars, mVars, opVars, tVars
<1>9. CASE TBegin
  BY <1>9, MainAtWork DEF TBegin, TeardownTypeOK
<1>10. CASE TRead
  BY <1>10, MainAtWork DEF TRead, Teardown
<1>11. CASE TCancel
  BY <1>11, MainAtWork DEF TCancel, Teardown
<1>12. CASE TMark
  BY <1>12, MainAtWork DEF TMark, Teardown
<1>13. CASE TPosition \/ TTrade
  BY <1>13, MainAtWork DEF TPosition, TTrade, Teardown
<1>14. CASE TEnd
  BY <1>14, MainAtWork DEF TEnd, Teardown
<1>15. CASE TFails
  BY <1>15, MainAtWork DEF TFails
<1>16. CASE Start
  BY <1>16, MainAtWork DEF Start, tVars
<1> QED  BY <1>1, <1>2, <1>3, <1>4, <1>5, <1>6, <1>7, <1>8, <1>9, <1>10, <1>11, <1>12, <1>13,
            <1>14, <1>15, <1>16 DEF NextAll, MainPass, Teardown

LEMMA TableInit ==
  ASSUME InitAll
  PROVE  TableInv
BY DEF InitAll, TableInv

(* When an operation is closed no row of grid_orders still looks live,     *)
(* unless its teardown began during a pass of the main loop: rows are only *)
(* written while the operation is ACTIVE, and the teardown marks all those *)
(* it read.                                                                *)
THEOREM ClosedTableClean == SpecAll => []TableIsClean
<1>1. InitAll => GridInv /\ TeardownTypeOK /\ TableInv
  BY TeardownInit, TableInit
<1>2. GridInv /\ TeardownTypeOK /\ TableInv /\ [NextAll]_allVars
        => GridInv' /\ TeardownTypeOK' /\ TableInv'
  BY TeardownTypes, TableStep
<1>3. TableInv => TableIsClean
  BY DEF TableInv, TableIsClean, Closed
<1> QED  BY <1>1, <1>2, <1>3, PTL DEF SpecAll

(* A stop that appears at the exchange has the next number, and failed     *)
(* requests are never forgotten.                                           *)
GridGrows ==
  /\ \A o \in live' : o \in live \/ o.cloid = seq + 1
  /\ seq' = seq \/ seq' = seq + 1
  /\ faults' = faults \/ faults' = faults + 1

LEMMA PlaceGrows ==
  ASSUME GridInv, NEW s, s.cloid = seq + 1, NEW told, Place(s, told)
  PROVE  /\ \A o \in live' : o \in live \/ o.cloid = seq + 1
         /\ faults' = faults \/ faults' = faults + 1
<1>1. AsOrder(s, gen).cloid = seq + 1
  BY DEF AsOrder
<1>2. live' = live \/ live' = live \cup {AsOrder(s, gen)}
  BY PlaceDoes, CountersKept
<1>3. faults' = faults \/ Fault
  BY PlaceDoes, CountersKept
<1> QED  BY <1>1, <1>2, <1>3 DEF Fault

LEMMA LoopsGrow ==
  ASSUME GridInv, GridStep
  PROVE  GridGrows
<1> USE DEF GridGrows
<1>1. CASE MPlace
  <2> DEFINE new == Numbered(seq + 1, Head(todo))
  <2>1. PICK told : Place(new, told)
    BY <1>1 DEF MPlace
  <2>2. new.cloid = seq + 1
    BY DEF Numbered
  <2>3. seq' = seq + 1
    BY <1>1 DEF MPlace
  <2> HIDE DEF new
  <2> QED  BY <2>1, <2>2, <2>3, PlaceGrows
<1>2. ASSUME NEW side, NEW price, PostStop(side, price) PROVE GridGrows
  <2> DEFINE new == [cloid |-> seq + 1, side |-> side, price |-> price]
  <2>1. PICK told : Place(new, told)
    BY <1>2 DEF PostStop
  <2>2. new.cloid = seq + 1
    OBVIOUS
  <2>3. seq' = seq + 1
    BY <1>2 DEF PostStop
  <2> HIDE DEF new
  <2> QED  BY <2>1, <2>2, <2>3, PlaceGrows
<1>3. CASE EOppose \/ EExtend
  BY <1>2, <1>3 DEF EOppose, EExtend
<1>4. ASSUME NEW os, Cancel(os), seq' = seq PROVE GridGrows
  <2>1. live' = live \/ live' = live \ os
    BY <1>4, CancelDoes, CountersKept
  <2>2. faults' = faults \/ Fault
    BY <1>4, CancelDoes, CountersKept
  <2> QED  BY <1>4, <2>1, <2>2 DEF Fault
<1>5. CASE MOutOfRange \/ MRangeChanged \/ ECancelOrphan \/ EReplace
  BY <1>4, <1>5 DEF MOutOfRange, MRangeChanged, ECancelOrphan, EReplace
<1>6. ASSUME NEW answer, OpenOrders(answer), UNCHANGED <<live, seq>> PROVE GridGrows
  <2>1. faults' = faults \/ Fault
    BY <1>6, OpenOrdersDoes, CountersKept
  <2> QED  BY <1>6, <2>1 DEF Fault
<1>7. CASE MVerify \/ EAudit \/ EChanged
  BY <1>6, <1>7 DEF MVerify, EAudit, EChanged, exchangeVars
<1>8. CASE MClearOut \/ MClearRange \/ MStartPost \/ MPlaced \/ MVerified \/ MTraded
  BY <1>8 DEF MClearOut, MClearRange, MStartPost, MPlaced, MVerified, MTraded, exchangeVars
<1>9. CASE EAdopt \/ ECompare \/ EDropMissing \/ EDiff \/ ESkip \/ ECommit \/ EDone
  BY <1>9 DEF EAdopt, ECompare, EDropMissing, EDiff, ESkip, ECommit, EDone, exchangeVars
<1>10. CASE MarketFalls \/ MarketRises
  BY <1>10 DEF MarketFalls, MarketRises, Cross
<1>11. CASE RangeMoves \/ WsUpdate \/ AuditTimer \/ \E d \in {-1, 1} : MDrift(d)
  BY <1>11 DEF RangeMoves, WsUpdate, AuditTimer, MDrift, exchangeVars
<1> QED  BY <1>1, <1>3, <1>5, <1>7, <1>8, <1>9, <1>10, <1>11
         DEF GridStep, MainLoop, Audit, EventLoop, World

LEMMA AllGrows ==
  ASSUME GridInv, [NextAll]_allVars
  PROVE  GridGrows
<1>1. CASE TBegin \/ Teardown \/ TFails \/ Start
  BY <1>1, TeardownIsOutside DEF OutsideGrid, otherVars, GridGrows, Fault
<1>2. CASE UNCHANGED vars
  BY <1>2 DEF vars, exchangeVars, GridGrows
<1>3. CASE GridStep
  BY <1>3, LoopsGrow
<1>4. CASE MainPass \/ DriftTrade \/ Events \/ Environment
  BY <1>2, <1>3, <1>4, LoopsAreSteps
<1> QED  BY <1>1, <1>2, <1>4 DEF NextAll, allVars

(* A new stop has no row before it is remembered.                          *)
LEMMA RowedShrinks ==
  ASSUME GridInv, TeardownTypeOK, RowsInv, [NextAll]_allVars, rows' = rows
  PROVE  /\ Rowed' \subseteq Rowed /\ (\A c \in rows : c =< seq)'
         /\ faults' = 0 => faults = 0
<1>1. GridGrows
  BY AllGrows
<1>2. seq \in Nat /\ faults \in Nat
  BY CountersKept
<1>3. seq + 1 \notin rows
  BY <1>2 DEF RowsInv
<1>4. Rowed' \subseteq Rowed
  BY <1>1, <1>3 DEF Rowed, GridGrows
<1>5. ASSUME NEW c \in rows PROVE c =< seq'
  <2>1. c \in Nat /\ c =< seq /\ (seq' = seq \/ seq' = seq + 1)
    BY <1>1 DEF RowsInv, GridGrows, TeardownTypeOK
  <2> QED  BY <1>2, <2>1
<1>6. faults' = 0 => faults = 0
  BY <1>1, <1>2 DEF GridGrows
<1> QED  BY <1>4, <1>5, <1>6

LEMMA RowsUntouched ==
  ASSUME GridInv, TeardownTypeOK, RowsInv, [NextAll]_allVars,
         UNCHANGED <<rows, active, missed>>, raced \in BOOLEAN, ~raced' => ~raced,
         tpc' = "cancel" => tpc = "cancel" /\ listed' = listed,
         mpc' = "clear_range" => mpc = "clear_range" \/ live' = {} \/ faults' # 0
  PROVE  RowsInv'
<1>1. /\ Rowed' \subseteq Rowed /\ (\A c \in rows : c =< seq)'
      /\ faults' = 0 => faults = 0
  BY RowedShrinks
<1>2. live' = {} => Rowed' = {}
  BY DEF Rowed
<1>3. Cloids(Rowed') \subseteq Cloids(Rowed)
  BY <1>1 DEF Cloids
<1> HIDE DEF Rowed
<1> QED  BY <1>1, <1>2, <1>3 DEF RowsInv

LEMMA RowsStep ==
  ASSUME GridInv, TeardownTypeOK, TableInv, RowsInv, [NextAll]_allVars
  PROVE  RowsInv'
<1>0. raced \in BOOLEAN /\ missed \in BOOLEAN
  BY DEF TeardownTypeOK
<1>1. CASE MaintainBegins
  <2>1. UNCHANGED <<rows, active, missed, raced, tpc, listed>>
    BY <1>1 DEF MaintainBegins, tVars
  <2>2. CASE MRangeChanged
    <3>1. faults' = 0 => live' = {}
      <4>1. Cancel(live)
        BY <2>2 DEF MRangeChanged
      <4>2. faults' = 0 => faults' = faults
        BY <1>1, AllGrows, CountersKept DEF GridGrows
      <4>3. faults' = faults => live' = live \ live
        BY <4>1, CancelDoes, CountersKept
      <4> QED  BY <4>2, <4>3
    <3> QED  BY <1>0, <2>1, <3>1, RowsUntouched
  <2>3. CASE MOutOfRange \/ MStartPost
    <3>1. mpc' # "clear_range"
      BY <2>3 DEF MOutOfRange, MStartPost
    <3> QED  BY <1>0, <2>1, <3>1, RowsUntouched
  <2> QED  BY <1>1, <2>2, <2>3 DEF MaintainBegins, GridBegins
<1>2. CASE MaintainGoesOn \/ DriftTrade
  <2>1. UNCHANGED <<rows, active, missed, raced, tpc, listed>>
    BY <1>2 DEF MaintainGoesOn, DriftTrade, opVars, tVars
  <2>2. mpc' # "clear_range"
    BY <1>2 DEF MaintainGoesOn, GridGoesOn, DriftTrade, MDrift, MClearOut, MPlace, MVerify,
                MVerified, MTraded
  <2> QED  BY <1>0, <2>1, <2>2, RowsUntouched
<1>3. CASE Events \/ Environment \/ LatePassEnds \/ UNCHANGED allVars
  <2>1. UNCHANGED <<rows, active, missed, raced, tpc, listed>>
    BY <1>3 DEF Events, Environment, LatePassEnds, allVars, opVars, tVars
  <2>2. mpc' = mpc
    BY <1>3, MainAtWork DEF allVars, vars, mVars
  <2> QED  BY <1>0, <2>1, <2>2, RowsUntouched
<1>4. CASE TBegin \/ TPosition \/ TTrade \/ TEnd \/ TFails \/ Start
  <2>1. UNCHANGED <<rows, active, missed, listed>> /\ (~raced' => ~raced)
    <3>1. CASE TBegin
      <4>1. UNCHANGED <<rows, active, missed, listed>>
        BY <3>1 DEF TBegin
      <4>2. raced' = (raced \/ late' # "no" \/ mpc # "idle")
        BY <3>1 DEF TBegin
      <4>3. ~raced' => ~raced
        BY <4>2, Zenon
      <4> QED  BY <4>1, <4>3
    <3>2. CASE TPosition \/ TTrade \/ TEnd \/ TFails \/ Start
      <4>1. UNCHANGED <<rows, active, missed, listed, raced>>
        BY <3>2 DEF TPosition, TTrade, TEnd, TFails, Start, tVars
      <4> QED  BY <4>1
    <3> QED  BY <1>4, <3>1, <3>2
  <2>2. tpc' = "cancel" => tpc = "cancel"
    BY <1>4 DEF TBegin, TPosition, TTrade, TEnd, TFails, Start, tVars
  <2>3. mpc' = mpc
    BY <1>4, MainAtWork DEF Teardown
  <2> QED  BY <1>0, <2>1, <2>2, <2>3, RowsUntouched
<1>5. CASE PlacedWithRow
  <2>1. /\ mpc = "placed" /\ mpc' = "post" /\ UNCHANGED <<live, seq, faults>>
        /\ active' = active \cup Cloids(mnew) /\ rows' = rows \cup Cloids(mnew)
        /\ UNCHANGED <<tpc, missed, raced>>
    BY <1>5 DEF PlacedWithRow, MPlaced, exchangeVars, tVars
  <2>2. ~raced => tpc # "cancel"
    BY <2>1 DEF TableInv
  <2>3. \A c \in rows' : c =< seq'
    BY <2>1 DEF RowsInv, GridInv, UpTo, Cloids
  <2>4. Cloids(Rowed') \subseteq Cloids(Rowed) \cup Cloids(mnew)
    <3>1. ASSUME NEW o \in Rowed' PROVE o.cloid \in Cloids(Rowed) \cup Cloids(mnew)
      <4>1. o \in live /\ (o.cloid \in rows \/ o.cloid \in Cloids(mnew))
        BY <2>1 DEF Rowed
      <4>2. CASE o.cloid \in rows
        BY <4>1, <4>2 DEF Rowed, Cloids
      <4> QED  BY <4>1, <4>2
    <3> QED  BY <3>1 DEF Cloids
  <2> QED  BY <2>1, <2>2, <2>3, <2>4 DEF RowsInv
<1>6. CASE ClearWithRows
  <2>1. /\ mpc = "clear_range" /\ mpc' = "idle"
        /\ active' = {} /\ UNCHANGED <<rows, tpc, missed, raced>>
    BY <1>6 DEF ClearWithRows, MClearRange, tVars
  <2>2. ~raced => tpc # "cancel"
    BY <2>1 DEF TableInv
  <2>3. /\ Rowed' \subseteq Rowed /\ (\A c \in rows : c =< seq)'
        /\ faults' = 0 => faults = 0
    BY <2>1, RowedShrinks
  <2>4. ~missed' /\ ~raced' /\ faults' = 0 => Rowed' = {}
    BY <2>1, <2>3 DEF RowsInv
  <2>5. Cloids({}) = {}
    BY Nothing
  <2> QED  BY <2>1, <2>2, <2>3, <2>4, <2>5 DEF RowsInv
<1>7. CASE TRead
  <2>1. /\ tpc' = "cancel" /\ listed' = active /\ missed' \in {missed, TRUE}
        /\ UNCHANGED <<mpc, live, seq, faults, rows, active, raced>>
    BY <1>7 DEF TRead, vars, exchangeVars, mVars
  <2>2. Rowed' = Rowed
    BY <2>1 DEF Rowed
  <2> QED  BY <1>0, <2>1, <2>2 DEF RowsInv
<1>8. CASE TCancel
  <2> DEFINE m == Min(listed)
  <2>1. /\ tpc = "cancel" /\ tpc' = "cancel" /\ listed' = listed \ {m}
        /\ UNCHANGED <<mpc, rows, active, missed, raced>>
    BY <1>8 DEF TCancel, otherVars, mVars
  <2>2. /\ Rowed' \subseteq Rowed /\ (\A c \in rows : c =< seq)'
        /\ faults' = 0 => faults = 0
    BY <2>1, RowedShrinks
  <2>3. ASSUME ~missed', ~raced', faults' = 0
        PROVE  live' = live \ {o \in live : o.cloid = m}
    <3>1. Cancel({o \in live : o.cloid = m})
      BY <1>8, <2>1, <2>3 DEF TCancel
    <3> HIDE DEF m
    <3> QED  BY <2>2, <2>3, <3>1, CancelDoes, CountersKept
  <2> HIDE DEF m
  <2>4. ASSUME ~missed', ~raced', faults' = 0
        PROVE  /\ Cloids(Rowed') \subseteq active'
               /\ mpc' = "clear_range" => Rowed' = {}
               /\ Cloids(Rowed') \subseteq listed'
    <3>1. /\ Cloids(Rowed) \subseteq active /\ Cloids(Rowed) \subseteq listed
          /\ mpc = "clear_range" => Rowed = {}
      BY <2>1, <2>2, <2>4 DEF RowsInv
    <3>2. Cloids(Rowed') \subseteq Cloids(Rowed) /\ m \notin Cloids(Rowed')
      <4>1. \A o \in Rowed' : o \in live' /\ o \in Rowed
        BY <2>2 DEF Rowed
      <4>2. \A o \in Rowed' : o.cloid # m
        BY <2>3, <2>4, <4>1
      <4> QED  BY <4>1, <4>2 DEF Cloids
    <3> QED  BY <2>1, <2>2, <3>1, <3>2
  <2> QED  BY <2>2, <2>4 DEF RowsInv
<1>9. CASE TMark
  <2>1. /\ tpc = "cancel" /\ listed = {} /\ tpc' = "position"
        /\ UNCHANGED <<mpc, live, seq, faults, rows, missed, raced>>
    BY <1>9 DEF TMark, vars, exchangeVars, mVars
  <2>2. Rowed' = Rowed
    BY <2>1 DEF Rowed
  <2>3. ~missed /\ ~raced /\ faults = 0 => Cloids(Rowed) = {}
    BY <2>1 DEF RowsInv
  <2> QED  BY <2>1, <2>2, <2>3 DEF RowsInv
<1> QED  BY <1>1, <1>2, <1>3, <1>4, <1>5, <1>6, <1>7, <1>8, <1>9
         DEF NextAll, MainPass, Teardown

LEMMA RowsInit ==
  ASSUME InitAll
  PROVE  RowsInv
<1>1. /\ local = InitialGrid /\ seq = Cardinality(InitialGrid) /\ mpc = "idle"
      /\ active = Cloids(local) /\ rows = Cloids(local) /\ tpc = "idle"
  BY DEF InitAll, Init
<1>2. UpTo(InitialGrid, Cardinality(InitialGrid))
  BY InitialGridCounted, GridAssumption
<1>3. \A c \in rows : c =< seq
  BY <1>1, <1>2 DEF UpTo, Cloids
<1>4. Cloids(Rowed) \subseteq active
  BY <1>1 DEF Rowed, Cloids
<1> QED  BY <1>1, <1>3, <1>4 DEF RowsInv

(* A closed operation leaves no live stop that ever had a row, unless the  *)
(* cancels named no order, one failed, or the teardown began during a pass *)
(* of the main loop: whatever the event loop does about the vanishing      *)
(* stops, what remains was posted without a row.                           *)
THEOREM ClosedRowsGone == SpecAll => []RowedStopsGone
<1>1. InitAll => GridInv /\ TeardownTypeOK /\ TableInv /\ RowsInv
  BY TeardownInit, TableInit, RowsInit
<1>2. GridInv /\ TeardownTypeOK /\ TableInv /\ RowsInv /\ [NextAll]_allVars
        => GridInv' /\ TeardownTypeOK' /\ TableInv' /\ RowsInv'
  BY TeardownTypes, TableStep, RowsStep
<1>3. TableInv /\ RowsInv => RowedStopsGone
  <2> SUFFICES ASSUME TableInv, RowsInv, Closed, ~missed, ~raced, faults = 0
               PROVE  Cloids(live) \cap rows = {}
    BY DEF RowedStopsGone
  <2>1. active = {} /\ Cloids(Rowed) \subseteq active
    BY DEF TableInv, RowsInv, Closed
  <2> QED  BY <2>1 DEF Rowed, Cloids
<1> QED  BY <1>1, <1>2, <1>3, PTL DEF SpecAll
=============================================================================
