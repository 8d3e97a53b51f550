--------------------------- MODULE ChainTxProofs ---------------------------
(***************************************************************************)
(* ChainTx implements CallOnce, for any number of calls, fees, faults and  *)
(* restarts. The argument is about where a call's one transaction can be:  *)
(* nowhere while the call is not sent, in the mempool with no outcome      *)
(* beside it, or executed once.                                            *)
(***************************************************************************)
EXTENDS ChainTx, FiniteSetTheorems, TLAPS

Absent(c) == \A t \in mempool : t.call # c

TriesInv == \A c \in Calls : at[c] \in {"new", "check"} => tries[c] < Tries

\* A call that is not sent has left nothing behind.
UnsentInv == \A c \in Calls :
    at[c] \in Unsent => done[c] = 0 /\ reverted[c] = 0 /\ Absent(c)

\* A transaction that waits to be executed is its call's first and only.
MempoolInv == \A t \in mempool :
    /\ done[t.call] = 0 /\ reverted[t.call] = 0
    /\ \A u \in mempool : u.call = t.call => u = t

OutcomeInv == \A c \in Calls : done[c] + reverted[c] =< 1

\* A call that raised with its outcome in sight has had none.
RaisedInv == \A c \in Calls :
    at[c] = "raised" /\ c \notin unseen => done[c] = 0 /\ Absent(c)

RowInv == \A c \in Calls :
    /\ row[c] = "failed" => at[c] = "raised" \/ c \in unseen
    /\ row[c] = "none" <=> at[c] = "new"
    /\ ~up => /\ at[c] \in {"new"} \cup Ended
              /\ at[c] = "ok" /\ row[c] = "pending" => c \in unseen

IInv == /\ TypeOK /\ IsFiniteSet(mempool)
        /\ TriesInv /\ UnsentInv /\ MempoolInv /\ OutcomeInv /\ RaisedInv /\ RowInv
-----------------------------------------------------------------------------
LEMMA InitInv == Init => IInv
<1> SUFFICES ASSUME Init PROVE IInv
  OBVIOUS
<1>1. TypeOK
  BY ChainAssumption DEF Init, TypeOK, Unsent, Ended
<1>2. IsFiniteSet(mempool)
  BY FS_EmptySet DEF Init
<1>3. TriesInv
  BY ChainAssumption DEF Init, TriesInv
<1>4. UnsentInv /\ MempoolInv /\ OutcomeInv /\ RaisedInv /\ RowInv
  BY DEF Init, UnsentInv, MempoolInv, OutcomeInv, RaisedInv, RowInv, Absent
<1> QED  BY <1>1, <1>2, <1>3, <1>4 DEF IInv

(***************************************************************************)
(* Steps of the calls that leave node and chain alone.                     *)
(***************************************************************************)
\* A call moves from one place to another.
Moves(c, place) ==
    /\ at' = [at EXCEPT ![c] = place]
    /\ UNCHANGED <<up, nodeVars, faults, crashes>>

LEMMA MovesInv ==
  ASSUME IInv, NEW c \in Calls, NEW place, Moves(c, place),
         UNCHANGED <<row, nonce>>,
         tries' = tries, unseen \subseteq unseen', unseen' \subseteq Calls,
         at[c] # "new", at[c] \notin Ended, place # "new",
         \/ at[c] \in Unsent /\ place \in Unsent \ {"check"}
         \/ at[c] = "wait" /\ place = "ok"
         \/ place = "raised" /\ (at[c] \in Unsent \/ c \in unseen' \/ reverted[c] > 0)
  PROVE  IInv'
<1>1. TypeOK'
  <2>1. at' \in [Calls -> Unsent \cup {"wait"} \cup Ended]
    BY DEF IInv, TypeOK, Moves, Unsent, Ended
  <2> QED  BY <2>1 DEF IInv, TypeOK, Moves, nodeVars
<1>2. TriesInv' /\ OutcomeInv' /\ IsFiniteSet(mempool')
  BY DEF IInv, TypeOK, TriesInv, OutcomeInv, Moves, nodeVars
<1>3. MempoolInv'
  BY DEF IInv, MempoolInv, Moves, nodeVars
<1>4. UnsentInv'
  BY DEF IInv, TypeOK, UnsentInv, Moves, nodeVars, Unsent, Ended, Absent
<1>5. RaisedInv'
  <2> SUFFICES ASSUME NEW d \in Calls, at'[d] = "raised", d \notin unseen'
               PROVE  done[d] = 0 /\ Absent(d)
    BY DEF RaisedInv, Absent, Moves, nodeVars
  <2>1. CASE d # c
    BY <2>1 DEF IInv, TypeOK, RaisedInv, Moves
  <2>2. CASE d = c /\ at[c] \in Unsent
    BY <2>2 DEF IInv, UnsentInv
  <2>3. CASE d = c /\ reverted[c] > 0
    <3>1. done[c] = 0
      <4>1. done[c] \in Nat /\ reverted[c] \in Nat
        BY DEF IInv, TypeOK
      <4>2. done[c] + reverted[c] =< 1
        BY DEF IInv, OutcomeInv
      <4> QED  BY <2>3, <4>1, <4>2
    <3>2. Absent(c)
      BY <2>3 DEF IInv, MempoolInv, Absent
    <3> QED  BY <2>3, <3>1, <3>2
  <2>4. place = "raised" \/ d # c
    BY DEF IInv, TypeOK, Moves
  <2> QED  BY <2>1, <2>2, <2>3, <2>4 DEF Unsent
<1>6. RowInv'
  <2>1. up
    BY DEF IInv, RowInv
  <2> QED  BY <2>1 DEF IInv, TypeOK, RowInv, Moves, Ended
<1> QED  BY <1>1, <1>2, <1>3, <1>4, <1>5, <1>6 DEF IInv

LEMMA BeginInv == ASSUME IInv, NEW c \in Calls, Begin(c) PROVE IInv'
<1> DEFINE place == IF c \in Checked THEN "check" ELSE "nonce"
<1>0. at' = [at EXCEPT ![c] = place] /\ place \in {"check", "nonce"}
  BY DEF Begin, Goto
<1> HIDE DEF place
<1>1. TypeOK'
  BY <1>0 DEF IInv, TypeOK, Begin, nodeVars, Unsent
<1>2. TriesInv' /\ OutcomeInv' /\ IsFiniteSet(mempool')
  BY <1>0 DEF IInv, TypeOK, TriesInv, OutcomeInv, Begin, nodeVars
<1>3. MempoolInv'
  BY DEF IInv, MempoolInv, Begin, nodeVars
<1>4. UnsentInv' /\ RaisedInv'
  BY <1>0 DEF IInv, TypeOK, UnsentInv, RaisedInv, Begin, nodeVars, Unsent, Absent
<1>5. RowInv'
  BY <1>0 DEF IInv, TypeOK, RowInv, Begin, Ended
<1> QED  BY <1>1, <1>2, <1>3, <1>4, <1>5 DEF IInv

LEMMA WaitsInv == ASSUME IInv, NEW c \in Calls, Waits(c) PROVE IInv'
<1>0. tries[c] \in 0..Tries /\ tries[c] < Tries /\ Tries \in Nat
  BY ChainAssumption DEF IInv, TypeOK, TriesInv, Waits
<1>1. CASE tries[c] + 1 < Tries
  <2>1. at' = at /\ tries' = [tries EXCEPT ![c] = tries[c] + 1]
    BY <1>1 DEF Waits, NotCalm
  <2>2. tries' \in [Calls -> 0..Tries]
    BY <1>0, <2>1 DEF IInv, TypeOK
  <2>3. TypeOK'
    BY <2>1, <2>2 DEF IInv, TypeOK, Waits, nodeVars
  <2>4. TriesInv'
    BY <1>1, <2>1 DEF IInv, TypeOK, TriesInv
  <2>5. UnsentInv' /\ MempoolInv' /\ OutcomeInv' /\ RaisedInv' /\ RowInv' /\ IsFiniteSet(mempool')
    BY <2>1 DEF IInv, UnsentInv, MempoolInv, OutcomeInv, RaisedInv, RowInv, Absent, Waits,
                nodeVars
  <2> QED  BY <2>3, <2>4, <2>5 DEF IInv
<1>2. CASE ~(tries[c] + 1 < Tries)
  <2>1. at' = [at EXCEPT ![c] = "raised"] /\ tries' = [tries EXCEPT ![c] = tries[c] + 1]
    BY <1>2 DEF Waits, NotCalm, Goto
  <2>2. tries' \in [Calls -> 0..Tries]
    BY <1>0, <2>1 DEF IInv, TypeOK
  <2>3. TypeOK'
    BY <2>1, <2>2 DEF IInv, TypeOK, Waits, nodeVars, Ended
  <2>4. TriesInv'
    BY <2>1 DEF IInv, TypeOK, TriesInv
  <2>5. MempoolInv' /\ OutcomeInv' /\ IsFiniteSet(mempool')
    BY DEF IInv, MempoolInv, OutcomeInv, Waits, nodeVars
  <2>6. UnsentInv' /\ RaisedInv'
    BY <2>1 DEF IInv, TypeOK, UnsentInv, RaisedInv, Absent, Waits, nodeVars, Unsent
  <2>7. RowInv'
    BY <2>1 DEF IInv, TypeOK, RowInv, Waits, Ended
  <2> QED  BY <2>3, <2>4, <2>5, <2>6, <2>7 DEF IInv
<1> QED  BY <1>1, <1>2

LEMMA CalmInv == ASSUME IInv, NEW c \in Calls, Calm(c) PROVE IInv'
<1>1. Moves(c, "nonce")
  BY DEF Calm, Goto, Moves
<1>2. at[c] = "check" /\ UNCHANGED <<row, nonce, tries, unseen>>
  BY DEF Calm
<1> QED  BY <1>1, <1>2, MovesInv DEF Unsent, Ended, IInv, TypeOK

LEMMA RaisesBeforeInv == ASSUME IInv, NEW c \in Calls, RaisesBefore(c) PROVE IInv'
<1>1. Moves(c, "raised")
  BY DEF RaisesBefore, Goto, Moves
<1>2. at[c] \in {"nonce", "send"} /\ UNCHANGED <<row, nonce, tries, unseen>>
  BY DEF RaisesBefore
<1> QED  BY <1>1, <1>2, MovesInv DEF Unsent, Ended, IInv, TypeOK

LEMMA ConfirmedInv == ASSUME IInv, NEW c \in Calls, Confirmed(c) PROVE IInv'
<1>1. Moves(c, "ok")
  BY DEF Confirmed, Goto, Moves
<1>2. at[c] = "wait" /\ UNCHANGED <<row, nonce, tries, unseen>>
  BY DEF Confirmed
<1> QED  BY <1>1, <1>2, MovesInv DEF Unsent, Ended, IInv, TypeOK

LEMMA RevertsInv == ASSUME IInv, NEW c \in Calls, Reverts(c) PROVE IInv'
<1>1. Moves(c, "raised")
  BY DEF Reverts, Goto, Moves
<1>2. at[c] = "wait" /\ reverted[c] > 0 /\ UNCHANGED <<row, nonce, tries, unseen>>
  BY DEF Reverts, HasReverted
<1> QED  BY <1>1, <1>2, MovesInv DEF Unsent, Ended, IInv, TypeOK

LEMMA TimesOutInv == ASSUME IInv, NEW c \in Calls, TimesOut(c) PROVE IInv'
<1>1. Moves(c, "raised")
  BY DEF TimesOut, AfterTimeout, Goto, Moves
<1>2. at[c] = "wait" /\ UNCHANGED <<row, nonce, tries>> /\ unseen' = unseen \cup {c}
  BY DEF TimesOut
<1> QED  BY <1>1, <1>2, MovesInv DEF Unsent, Ended, IInv, TypeOK

LEMMA GetNonceInv == ASSUME IInv, NEW c \in Calls, GetNonce(c) PROVE IInv'
<1>1. at' = [at EXCEPT ![c] = "send"] /\ at[c] = "nonce"
  BY DEF GetNonce, Goto
<1>2. nonce' \in [Calls -> Nat]
  <2>1. Cardinality(mempool) \in Nat /\ height \in Nat
    BY FS_CardinalityType DEF IInv, TypeOK
  <2>2. PICK n \in (height + 1)..(height + 1 + Cardinality(mempool)) :
          nonce' = [nonce EXCEPT ![c] = n]
    BY DEF GetNonce
  <2>3. n \in Nat
    BY <2>1
  <2> QED  BY <2>2, <2>3 DEF IInv, TypeOK
<1>3. TypeOK'
  BY <1>1, <1>2 DEF IInv, TypeOK, GetNonce, nodeVars, Unsent
<1>4. MempoolInv' /\ OutcomeInv' /\ IsFiniteSet(mempool')
  BY DEF IInv, MempoolInv, OutcomeInv, GetNonce, nodeVars
<1>5. TriesInv'
  BY <1>1 DEF IInv, TypeOK, TriesInv, GetNonce
<1>6. UnsentInv' /\ RaisedInv'
  BY <1>1 DEF IInv, TypeOK, UnsentInv, RaisedInv, Absent, GetNonce, nodeVars, Unsent
<1>7. RowInv'
  BY <1>1 DEF IInv, TypeOK, RowInv, GetNonce, Ended
<1> QED  BY <1>3, <1>4, <1>5, <1>6, <1>7 DEF IInv

(***************************************************************************)
(* Sending: the call's transaction comes to the mempool, others may leave. *)
(***************************************************************************)
LEMMA AcceptedInv ==
  ASSUME IInv, NEW c \in Calls, NEW fee \in 1..MaxFee, Accepted(c, fee),
         NEW place \in {"wait", "raised"}, Goto(c, place),
         faults' \in 0..MaxFaults, unseen \subseteq unseen', unseen' \subseteq Calls,
         place = "raised" => c \in unseen'
  PROVE  IInv'
<1> DEFINE new == [call |-> c, nonce |-> nonce[c], fee |-> fee]
<1>1. /\ at[c] = "send" /\ at' = [at EXCEPT ![c] = place]
      /\ mempool' = (mempool \ Rivals(c)) \cup {new}
      /\ UNCHANGED <<tries, nonce, row, up, height, done, reverted, crashes>>
  BY DEF Accepted, Goto
<1>2. new \in Transactions /\ new.call = c
  BY DEF IInv, TypeOK, Transactions
<1> HIDE DEF new
<1>3. done[c] = 0 /\ reverted[c] = 0 /\ Absent(c)
  BY <1>1 DEF IInv, UnsentInv, Unsent
<1>4. TypeOK'
  BY <1>1, <1>2 DEF IInv, TypeOK, Ended
<1>5. IsFiniteSet(mempool')
  <2>1. IsFiniteSet(mempool \ Rivals(c))
    BY FS_Subset DEF IInv
  <2> QED  BY <1>1, <2>1, FS_AddElement
<1>6. TriesInv' /\ OutcomeInv'
  BY <1>1 DEF IInv, TypeOK, TriesInv, OutcomeInv
<1>7. MempoolInv'
  BY <1>1, <1>2, <1>3 DEF IInv, MempoolInv, Absent
<1>8. UnsentInv' /\ RaisedInv'
  BY <1>1, <1>2 DEF IInv, TypeOK, UnsentInv, RaisedInv, Absent, Unsent
<1>9. RowInv'
  <2>1. up
    BY <1>1 DEF IInv, RowInv, Ended
  <2> QED  BY <1>1, <2>1 DEF IInv, TypeOK, RowInv
<1> QED  BY <1>4, <1>5, <1>6, <1>7, <1>8, <1>9 DEF IInv

LEMMA SendInv ==
  ASSUME IInv, NEW c \in Calls, Send(c) \/ SendAnswerLost(c)
  PROVE  IInv'
<1>1. PICK fee \in 1..MaxFee : Accepted(c, fee)
  BY DEF Send, SendAnswerLost
<1>2. CASE Send(c)
  BY <1>1, <1>2, AcceptedInv DEF Send, IInv, TypeOK
<1>3. CASE SendAnswerLost(c)
  <2>1. faults' \in 0..MaxFaults
    BY <1>3, ChainAssumption DEF SendAnswerLost, Fault, IInv, TypeOK
  <2> QED  BY <1>1, <1>3, <2>1, AcceptedInv DEF SendAnswerLost, IInv, TypeOK
<1> QED  BY <1>2, <1>3

(***************************************************************************)
(* The row, the chain, the process.                                        *)
(***************************************************************************)
LEMMA RecordInv == ASSUME IInv, NEW c \in Calls, Record(c) PROVE IInv'
<1>1. TypeOK'
  BY DEF IInv, TypeOK, Record, callVars, nodeVars
<1>2. /\ TriesInv' /\ UnsentInv' /\ MempoolInv' /\ OutcomeInv' /\ RaisedInv'
      /\ IsFiniteSet(mempool')
  BY DEF IInv, TriesInv, UnsentInv, MempoolInv, OutcomeInv, RaisedInv, Absent, Record,
         callVars, nodeVars
<1>3. RowInv'
  BY DEF IInv, TypeOK, RowInv, Record, callVars, IsOver, Ended
<1> QED  BY <1>1, <1>2, <1>3 DEF IInv

LEMMA MineInv == ASSUME IInv, NEW t \in mempool, Mine(t) PROVE IInv'
<1>1. t.call \in Calls
  BY DEF IInv, TypeOK, Transactions
<1>2. done[t.call] = 0 /\ reverted[t.call] = 0
  BY DEF IInv, MempoolInv
<1>3. /\ mempool' = mempool \ {t} /\ height' = height + 1
      /\ UNCHANGED <<callVars, row, up, faults, crashes>>
  BY DEF Mine
<1>4. \/ done' = [done EXCEPT ![t.call] = 1] /\ reverted' = reverted
      \/ reverted' = [reverted EXCEPT ![t.call] = 1] /\ done' = done
  BY <1>1, <1>2 DEF Mine, IInv, TypeOK
<1>5. TypeOK'
  BY <1>1, <1>3, <1>4 DEF IInv, TypeOK, callVars
<1>6. IsFiniteSet(mempool')
  BY <1>3, FS_RemoveElement DEF IInv
<1>7. TriesInv' /\ RowInv'
  BY <1>3 DEF IInv, TriesInv, RowInv, callVars
<1>8. at[t.call] \notin Unsent
  BY <1>1 DEF IInv, UnsentInv, Absent
<1>9. UnsentInv'
  BY <1>1, <1>3, <1>4, <1>8 DEF IInv, TypeOK, UnsentInv, Absent, callVars
<1>10. MempoolInv'
  <2>1. \A u \in mempool' : u.call # t.call /\ u.call \in Calls
    BY <1>3 DEF IInv, MempoolInv, TypeOK, Transactions
  <2> QED  BY <1>3, <1>4, <2>1 DEF IInv, TypeOK, MempoolInv
<1>11. OutcomeInv'
  <2> SUFFICES ASSUME NEW c \in Calls PROVE done'[c] + reverted'[c] =< 1
    BY DEF OutcomeInv
  <2>1. CASE c = t.call
    BY <1>1, <1>2, <1>4, <2>1 DEF IInv, TypeOK
  <2>2. CASE c # t.call
    <3>1. done'[c] = done[c] /\ reverted'[c] = reverted[c]
      BY <1>4, <2>2 DEF IInv, TypeOK
    <3> QED  BY <3>1 DEF IInv, OutcomeInv
  <2> QED  BY <2>1, <2>2
<1>12. RaisedInv'
  BY <1>1, <1>3, <1>4 DEF IInv, TypeOK, RaisedInv, Absent, callVars
<1> QED  BY <1>5, <1>6, <1>7, <1>9, <1>10, <1>11, <1>12 DEF IInv

LEMMA EvictInv == ASSUME IInv, NEW t \in mempool, Evict(t) PROVE IInv'
<1>1. faults' \in 0..MaxFaults
  BY ChainAssumption DEF Evict, Fault, IInv, TypeOK
<1>2. TypeOK'
  BY <1>1 DEF IInv, TypeOK, Evict, callVars
<1>3. IsFiniteSet(mempool')
  BY FS_RemoveElement DEF IInv, Evict
<1>4. /\ TriesInv' /\ UnsentInv' /\ MempoolInv' /\ OutcomeInv' /\ RaisedInv' /\ RowInv'
  BY DEF IInv, TriesInv, UnsentInv, MempoolInv, OutcomeInv, RaisedInv, RowInv, Absent,
         Evict, callVars
<1> QED  BY <1>2, <1>3, <1>4 DEF IInv

LEMMA CrashInv == ASSUME IInv, Crash PROVE IInv'
<1>1. \A c \in Calls : /\ at'[c] \in {"new"} \cup Ended
                       /\ at'[c] # "raised" => at'[c] = at[c]
                       /\ at'[c] = "new" <=> at[c] = "new"
                       /\ at[c] \in Ended => at'[c] = at[c]
  BY DEF Crash, Ended
<1>2. \A c \in Calls : /\ c \in unseen => c \in unseen'
                       /\ at[c] = "wait" => c \in unseen'
                       /\ at[c] = "ok" /\ row[c] = "pending" => c \in unseen'
  BY DEF Crash
<1>3. UNCHANGED <<tries, nonce, row, mempool, height, done, reverted, faults>>
  BY DEF Crash, nodeVars
<1>4. TypeOK'
  <2>1. crashes' \in 0..MaxCrashes
    BY ChainAssumption DEF Crash, IInv, TypeOK
  <2>2. at' \in [Calls -> Unsent \cup {"wait"} \cup Ended]
    BY DEF Crash, IInv, TypeOK, Ended, Unsent
  <2>3. unseen' \subseteq Calls
    BY DEF Crash, IInv, TypeOK
  <2> QED  BY <1>3, <2>1, <2>2, <2>3 DEF IInv, TypeOK, Crash
<1>5. TriesInv' /\ MempoolInv' /\ OutcomeInv' /\ IsFiniteSet(mempool')
  BY <1>1, <1>3 DEF IInv, TriesInv, MempoolInv, OutcomeInv, Ended
<1>6. UnsentInv'
  BY <1>1, <1>3 DEF IInv, UnsentInv, Absent, Unsent, Ended
<1>7. RaisedInv'
  <2> SUFFICES ASSUME NEW c \in Calls, at'[c] = "raised", c \notin unseen'
               PROVE  done[c] = 0 /\ Absent(c)
    BY <1>3 DEF RaisedInv, Absent
  <2>1. at[c] \in Unsent \/ at[c] = "raised" \/ at[c] = "ok"
    BY <1>2 DEF IInv, TypeOK, Ended
  <2>2. at[c] # "ok"
    BY <1>1 DEF Ended
  <2> QED  BY <1>2, <2>1, <2>2 DEF IInv, UnsentInv, RaisedInv
<1>8. RowInv'
  BY <1>1, <1>2, <1>3 DEF IInv, RowInv, Ended
<1> QED  BY <1>4, <1>5, <1>6, <1>7, <1>8 DEF IInv

LEMMA ResumeInv == ASSUME IInv, Resume PROVE IInv'
<1>1. /\ ~up /\ up' = TRUE
      /\ row' = [c \in Calls |-> IF row[c] = "pending" THEN "failed" ELSE row[c]]
      /\ UNCHANGED <<callVars, nodeVars, faults, crashes>>
  BY DEF Resume
<1>2. TypeOK'
  BY <1>1 DEF IInv, TypeOK, callVars, nodeVars
<1>3. /\ TriesInv' /\ UnsentInv' /\ MempoolInv' /\ OutcomeInv' /\ RaisedInv'
      /\ IsFiniteSet(mempool')
  BY <1>1 DEF IInv, TriesInv, UnsentInv, MempoolInv, OutcomeInv, RaisedInv, Absent,
              callVars, nodeVars
<1>4. RowInv'
  BY <1>1 DEF IInv, RowInv, Ended, callVars
<1> QED  BY <1>2, <1>3, <1>4 DEF IInv

LEMMA StutterInv == ASSUME IInv, UNCHANGED vars PROVE IInv'
  BY DEF IInv, vars, callVars, nodeVars, TypeOK, TriesInv, UnsentInv, MempoolInv,
         OutcomeInv, RaisedInv, RowInv, Absent

LEMMA NextInv == IInv /\ [Next]_vars => IInv'
<1> SUFFICES ASSUME IInv, [Next]_vars PROVE IInv'
  OBVIOUS
<1>1. ASSUME NEW c \in Calls, Begin(c) \/ Proceeds(c) \/ SendAnswerLost(c) PROVE IInv'
  BY <1>1, BeginInv, CalmInv, WaitsInv, GetNonceInv, RaisesBeforeInv, SendInv, ConfirmedInv,
     RevertsInv, TimesOutInv, RecordInv DEF Proceeds
<1>2. ASSUME NEW t \in mempool, Mine(t) \/ Evict(t) PROVE IInv'
  BY <1>2, MineInv, EvictInv
<1>3. CASE Crash \/ Resume
  BY <1>3, CrashInv, ResumeInv
<1>4. CASE UNCHANGED vars
  BY <1>4, StutterInv
<1> QED  BY <1>1, <1>2, <1>3, <1>4 DEF Next

LEMMA AlwaysIInv == Spec => []IInv
  BY InitInv, NextInv, PTL DEF Spec
-----------------------------------------------------------------------------
(***************************************************************************)
(* The refinement.                                                         *)
(***************************************************************************)
AnswerAt(place) == IF place = "new" THEN "not called"
                   ELSE IF place \in Ended THEN place ELSE "none"

LEMMA AnswerMoves ==
  ASSUME TypeOK, NEW c \in Calls, NEW place, at' = [at EXCEPT ![c] = place]
  PROVE  answer' = [answer EXCEPT ![c] = AnswerAt(place)]
  BY DEF TypeOK, answer, AnswerAt

LEMMA AnswerStays ==
  ASSUME TypeOK, NEW c \in Calls, NEW place, at' = [at EXCEPT ![c] = place],
         AnswerAt(place) = AnswerAt(at[c])
  PROVE  answer' = answer
  BY DEF TypeOK, answer, AnswerAt

LEMMA RaiseStep ==
  ASSUME TypeOK, NEW c \in Calls, at' = [at EXCEPT ![c] = "raised"],
         at[c] # "new", at[c] \notin Ended, done' = done
  PROVE  Once!Next
<1>1. answer[c] = "none"
  BY DEF TypeOK, answer
<1>2. answer' = [d \in Calls |-> IF d \in {c} THEN "raised" ELSE answer[d]]
  BY DEF TypeOK, answer, Ended
<1>3. Once!Raise({c})
  BY <1>1, <1>2 DEF Once!Raise
<1> QED  BY <1>3 DEF Once!Next

LEMMA CallStep ==
  ASSUME IInv, NEW c \in Calls, Begin(c) \/ Proceeds(c) \/ SendAnswerLost(c)
  PROVE  [Once!Next]_(Once!vars)
<1> USE DEF IInv
<1>1. CASE Begin(c)
  <2>1. done' = done /\ answer[c] = "not called"
    BY <1>1 DEF Begin, nodeVars, answer
  <2>2. answer' = [answer EXCEPT ![c] = "none"]
    BY <1>1 DEF Begin, Goto, TypeOK, answer, Ended
  <2>3. Once!Call(c)
    BY <2>1, <2>2 DEF Once!Call
  <2> QED  BY <2>3 DEF Once!Next
<1>2. CASE Calm(c) \/ GetNonce(c)
  <2>1. PICK place \in {"nonce", "send"} : at' = [at EXCEPT ![c] = place]
    BY <1>2 DEF Calm, GetNonce, Goto
  <2>2. AnswerAt(place) = AnswerAt(at[c])
    BY <1>2 DEF AnswerAt, Calm, GetNonce, Ended
  <2>3. answer' = answer /\ done' = done
    BY <1>2, <2>1, <2>2, AnswerStays DEF Calm, GetNonce, nodeVars
  <2> QED  BY <2>3 DEF Once!vars
<1>3. CASE Waits(c)
  <2>1. CASE at' = at
    BY <1>3, <2>1 DEF Waits, nodeVars, answer, Once!vars
  <2>2. CASE at' = [at EXCEPT ![c] = "raised"]
    BY <1>3, <2>2, RaiseStep DEF Waits, nodeVars, Ended
  <2> QED  BY <1>3, <2>1, <2>2 DEF Waits, NotCalm, Goto
<1>4. CASE RaisesBefore(c) \/ Reverts(c) \/ TimesOut(c)
  BY <1>4, RaiseStep DEF RaisesBefore, Reverts, TimesOut, AfterTimeout, Goto, nodeVars, Ended
<1>5. CASE Send(c)
  <2>1. at' = [at EXCEPT ![c] = "wait"] /\ at[c] = "send" /\ done' = done
    BY <1>5 DEF Send, Accepted, Goto
  <2>2. answer' = answer
    BY <2>1, AnswerStays DEF AnswerAt, Ended
  <2> QED  BY <2>1, <2>2 DEF Once!vars
<1>6. CASE SendAnswerLost(c)
  BY <1>6, RaiseStep DEF SendAnswerLost, Accepted, Goto, Ended
<1>7. CASE Confirmed(c)
  <2>1. at' = [at EXCEPT ![c] = "ok"] /\ at[c] = "wait" /\ done' = done /\ done[c] > 0
    BY <1>7 DEF Confirmed, Goto, ReceiptOk, nodeVars
  <2>2. done[c] = 1
    <3>1. done[c] \in Nat /\ reverted[c] \in Nat /\ done[c] + reverted[c] =< 1
      BY DEF TypeOK, OutcomeInv
    <3> QED  BY <2>1, <3>1
  <2>3. answer[c] = "none"
    BY <2>1 DEF answer, Ended
  <2>4. answer' = [answer EXCEPT ![c] = "ok"]
    BY <2>1 DEF TypeOK, answer, Ended
  <2>5. Once!Answers(c)
    BY <2>1, <2>2, <2>3, <2>4 DEF Once!Answers
  <2> QED  BY <2>5 DEF Once!Next
<1>8. CASE Record(c)
  BY <1>8 DEF Record, callVars, nodeVars, answer, Once!vars
<1> QED  BY <1>1, <1>2, <1>3, <1>4, <1>5, <1>6, <1>7, <1>8 DEF Proceeds

LEMMA MineStep ==
  ASSUME IInv, NEW t \in mempool, Mine(t)
  PROVE  [Once!Next]_(Once!vars)
<1>1. t.call \in Calls /\ done[t.call] = 0 /\ at' = at
  BY DEF IInv, TypeOK, Transactions, MempoolInv, Mine, callVars
<1>2. answer' = answer
  BY <1>1 DEF answer
<1>3. at[t.call] # "new"
  BY <1>1 DEF IInv, UnsentInv, Unsent, Absent
<1>4. answer[t.call] # "not called"
  BY <1>1, <1>3 DEF answer, Ended
<1>5. CASE done' = [done EXCEPT ![t.call] = @ + 1]
  <2>1. done' = [done EXCEPT ![t.call] = 1]
    BY <1>1, <1>5 DEF IInv, TypeOK
  <2>2. Once!TakesEffect(t.call)
    BY <1>1, <1>2, <1>4, <2>1 DEF Once!TakesEffect
  <2> QED  BY <1>1, <2>2 DEF Once!Next
<1>6. CASE done' = done
  BY <1>2, <1>6 DEF Once!vars
<1> QED  BY <1>5, <1>6 DEF Mine

LEMMA CrashStep == ASSUME IInv, Crash PROVE [Once!Next]_(Once!vars)
<1> DEFINE failed == {c \in Calls : at[c] \notin {"new"} \cup Ended}
<1>1. \A c \in failed : answer[c] = "none"
  BY DEF answer
<1>2. answer' = [c \in Calls |-> IF c \in failed THEN "raised" ELSE answer[c]]
  BY DEF Crash, answer, Ended
<1>3. done' = done
  BY DEF Crash, nodeVars
<1>4. failed \in SUBSET Calls
  OBVIOUS
<1> HIDE DEF failed
<1>5. Once!Raise(failed)
  BY <1>1, <1>2, <1>3 DEF Once!Raise
<1> QED  BY <1>4, <1>5 DEF Once!Next

LEMMA RefinementStep == IInv /\ [Next]_vars => [Once!Next]_(Once!vars)
<1> SUFFICES ASSUME IInv, [Next]_vars PROVE [Once!Next]_(Once!vars)
  OBVIOUS
<1>1. ASSUME NEW c \in Calls, Begin(c) \/ Proceeds(c) \/ SendAnswerLost(c)
      PROVE  [Once!Next]_(Once!vars)
  BY <1>1, CallStep
<1>2. ASSUME NEW t \in mempool, Mine(t) PROVE [Once!Next]_(Once!vars)
  BY <1>2, MineStep
<1>3. CASE Crash
  BY <1>3, CrashStep
<1>4. ASSUME UNCHANGED <<at, done>> PROVE [Once!Next]_(Once!vars)
  BY <1>4 DEF answer, Once!vars
<1>5. ASSUME NEW t \in mempool, Evict(t) PROVE UNCHANGED <<at, done>>
  BY <1>5 DEF Evict, callVars
<1>6. CASE Resume \/ UNCHANGED vars
  BY <1>4, <1>6 DEF Resume, vars, callVars, nodeVars
<1> QED  BY <1>1, <1>2, <1>3, <1>4, <1>5, <1>6 DEF Next
-----------------------------------------------------------------------------
(* Calls, rows, mempool and chain keep their types: among others, a call   *)
(* never looks at the pool more often than _CALM_RETRY_DELAYS allows.      *)
THEOREM TypeCorrect == Spec => []TypeOK
<1>1. IInv => TypeOK
  BY DEF IInv
<1> QED  BY <1>1, AlwaysIInv, PTL

(* A row that failed stands for a call without effect, now and later,      *)
(* unless the call ended between sending and the receipt: timeouts, lost   *)
(* answers and deaths of the process (send_tx, resume_in_flight).          *)
THEOREM FailureIsUndone == Spec => []FailedIsUndone
<1>1. IInv => FailedIsUndone
  BY DEF IInv, FailedIsUndone, RowInv, RaisedInv, Absent
<1> QED  BY <1>1, AlwaysIInv, PTL

(* send_tx is what CallOnce promises: a call takes effect at most once,    *)
(* and answers only when it has.                                           *)
THEOREM CallsTakeEffectOnce == Spec => OnceSpec
<1>1. Init => Once!Init
  BY DEF Init, Once!Init, answer
<1>2. Spec => Init /\ [][Next]_vars
  BY PTL DEF Spec
<1>3. Spec => Once!Init /\ [][Once!Next]_(Once!vars)
  BY <1>1, <1>2, AlwaysIInv, RefinementStep, PTL
<1> QED  BY <1>3 DEF OnceSpec, Once!Spec
=============================================================================
