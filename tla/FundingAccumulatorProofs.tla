---------------------- MODULE FundingAccumulatorProofs ----------------------
(***************************************************************************)
(* A payment due to the latest operation is added to it at most once per   *)
(* run of the process, for any number of pollers, entries, operations,     *)
(* faults and restarts.                                                    *)
(***************************************************************************)
EXTENDS FundingAccumulator, TLAPS

Midway == {p \in Pollers : at[p] \in {"read", "write"}}

(* A callback between its awaits works for the latest operation, which the *)
(* set belongs to then, or on an entry posted before that one started.     *)
OwnerInv ==
    /\ seenOp =< ops
    /\ \A p \in Pollers : batch[p] \subseteq 1..posted
    /\ \A p \in Midway : /\ opId[p] \in 1..ops
                         /\ entry[p] \in 1..posted
                         /\ opId[p] = ops => seenOp = ops
                         /\ opId[p] # ops => entry[p] =< start[ops]

\* The entries due to the latest operation.
Due == {e \in 1..Entries : ops # 0 /\ start[ops] < e}

(* Of the entries due to the latest operation: one the set does not hold   *)
(* was not added in this run, and neither was one whose write is awaited;  *)
(* no two writes of one entry are.                                         *)
CountInv ==
    /\ \A o \in 1..MaxOps, e \in 1..Entries : o > ops => counted[o][e] = 0
    /\ \A e \in Due :
          /\ counted[ops][e] =< 1 + crashes
          /\ seenOp # ops \/ e \notin seen => counted[ops][e] =< crashes
    /\ \A p \in Pollers :
          at[p] = "write" /\ opId[p] = ops /\ entry[p] \in Due =>
             /\ entry[p] \in seen
             /\ counted[ops][entry[p]] =< crashes
             /\ \A q \in Pollers \ {p} :
                   at[q] = "write" /\ opId[q] = ops => entry[q] # entry[p]

IInv == TypeOK /\ OwnerInv /\ CountInv
-----------------------------------------------------------------------------
LEMMA InitIInv == Init => IInv
  <1> SUFFICES ASSUME Init PROVE IInv
    OBVIOUS
  <1>. USE FundingAssumption DEF Init
  <1>1. CountersOK
    BY DEF CountersOK
  <1>2. MemoryOK
    <2>1. resolved \in BOOLEAN
      OBVIOUS
    <2>2. seen \subseteq 1..Entries /\ seenOp \in 0..MaxOps
      OBVIOUS
    <2>. QED
      BY <2>1, <2>2 DEF MemoryOK
  <1>3. StartOK
    BY DEF StartOK
  <1>4. CountedOK
    BY DEF CountedOK
  <1>5. BatchOK
    BY DEF BatchOK
  <1>6. PollersOK
    BY DEF PollersOK
  <1>7. OwnerInv
    BY DEF OwnerInv, Midway
  <1>8. CountInv
    BY DEF CountInv, Due
  <1>. QED
    BY <1>1, <1>2, <1>3, <1>4, <1>5, <1>6, <1>7, <1>8 DEF IInv, TypeOK

LEMMA CountersStep == IInv /\ [Next]_vars => CountersOK'
  <1> SUFFICES ASSUME IInv, [Next]_vars PROVE CountersOK'
    OBVIOUS
  <1>. USE FundingAssumption DEF IInv, TypeOK, CountersOK, accounts, memory, pollers
  <1>1. CASE Post
    BY <1>1 DEF Post
  <1>2. CASE StartOp
    BY <1>2 DEF StartOp
  <1>3. CASE EndOp
    BY <1>3 DEF EndOp
  <1>4. CASE Resolve
    BY <1>4 DEF Resolve
  <1>5. CASE Restart
    BY <1>5 DEF Restart
  <1>6. ASSUME NEW p \in Pollers, Fetch(p) PROVE CountersOK'
    BY <1>6 DEF Fetch, Goto
  <1>7. ASSUME NEW p \in Pollers, FetchFails(p) PROVE CountersOK'
    BY <1>7 DEF FetchFails
  <1>8. ASSUME NEW p \in Pollers, Sleep(p) PROVE CountersOK'
    BY <1>8 DEF Sleep, Goto
  <1>9. ASSUME NEW p \in Pollers, Callback(p) PROVE CountersOK'
    BY <1>9 DEF Callback, Done, Take, Goto
  <1>10. ASSUME NEW p \in Pollers, Read(p) PROVE CountersOK'
    BY <1>10 DEF Read, Sift, Done, Take, Goto
  <1>11. ASSUME NEW p \in Pollers, ReadFails(p) PROVE CountersOK'
    BY <1>11 DEF ReadFails, Sift, Done, Take, Goto
  <1>12. ASSUME NEW p \in Pollers, Write(p) PROVE CountersOK'
    BY <1>12 DEF Write, Done, Take, Goto
  <1>13. ASSUME NEW p \in Pollers, WriteFails(p) PROVE CountersOK'
    BY <1>13 DEF WriteFails, Done, Take, Goto
  <1>14. CASE UNCHANGED vars
    BY <1>14 DEF vars
  <1>. QED
    BY <1>1, <1>2, <1>3, <1>4, <1>5, <1>6, <1>7, <1>8, <1>9, <1>10, <1>11, <1>12,
       <1>13, <1>14 DEF Next, Poll, Fail

LEMMA MemoryStep == IInv /\ [Next]_vars => MemoryOK'
  <1> SUFFICES ASSUME IInv, [Next]_vars PROVE MemoryOK'
    OBVIOUS
  <1>. USE FundingAssumption
       DEF IInv, TypeOK, CountersOK, MemoryOK, BatchOK, PollersOK, OwnerInv,
           Midway, accounts, memory, pollers
  <1>1. CASE Post
    BY <1>1 DEF Post
  <1>2. CASE StartOp
    BY <1>2 DEF StartOp
  <1>3. CASE EndOp
    BY <1>3 DEF EndOp
  <1>4. CASE Resolve
    BY <1>4 DEF Resolve
  <1>5. CASE Restart
    <2>1. resolved' \in BOOLEAN
      BY <1>5 DEF Restart
    <2>2. seen' \subseteq 1..Entries /\ seenOp' \in 0..MaxOps
      BY <1>5 DEF Restart
    <2>. QED
      BY <2>1, <2>2
  <1>6. ASSUME NEW p \in Pollers, Fetch(p) PROVE MemoryOK'
    BY <1>6 DEF Fetch, Goto
  <1>7. ASSUME NEW p \in Pollers, FetchFails(p) PROVE MemoryOK'
    BY <1>7 DEF FetchFails
  <1>8. ASSUME NEW p \in Pollers, Sleep(p) PROVE MemoryOK'
    BY <1>8 DEF Sleep, Goto
  <1>9. ASSUME NEW p \in Pollers, Callback(p) PROVE MemoryOK'
    <2>1. resolved' \in BOOLEAN
      BY <1>9 DEF Callback
    <2>2. op \in 0..MaxOps
      OBVIOUS
    <2>3. CASE op # 0
      <3>1. seenOp' = op /\ seen' \in {{}, seen}
        BY <1>9, <2>3 DEF Callback
      <3>. QED
        BY <2>1, <2>2, <3>1
    <2>4. CASE op = 0
      <3>1. seenOp' = seenOp /\ seen' = seen
        BY <1>9, <2>4 DEF Callback
      <3>. QED
        BY <2>1, <3>1
    <2>. QED
      BY <2>3, <2>4
  <1>10. ASSUME NEW p \in Pollers, Read(p) PROVE MemoryOK'
    <2>1. at[p] = "read" /\ seen' \in {seen, seen \cup {entry[p]}}
      BY <1>10 DEF Read, Sift
    <2>2. entry[p] \in 1..Entries
      BY <2>1
    <2>3. seenOp' = seenOp /\ resolved' = resolved
      BY <1>10 DEF Read
    <2>. QED
      BY <2>1, <2>2, <2>3
  <1>11. ASSUME NEW p \in Pollers, ReadFails(p) PROVE MemoryOK'
    <2>1. at[p] = "read" /\ seen' \in {seen, seen \cup {entry[p]}}
      BY <1>11 DEF ReadFails, Sift
    <2>2. entry[p] \in 1..Entries
      BY <2>1
    <2>3. seenOp' = seenOp /\ resolved' = resolved
      BY <1>11 DEF ReadFails
    <2>. QED
      BY <2>1, <2>2, <2>3
  <1>12. ASSUME NEW p \in Pollers, Write(p) PROVE MemoryOK'
    BY <1>12 DEF Write, Done, Take, Goto
  <1>13. ASSUME NEW p \in Pollers, WriteFails(p) PROVE MemoryOK'
    BY <1>13 DEF WriteFails, Done, Take, Goto
  <1>14. CASE UNCHANGED vars
    BY <1>14 DEF vars
  <1>. QED
    BY <1>1, <1>2, <1>3, <1>4, <1>5, <1>6, <1>7, <1>8, <1>9, <1>10, <1>11, <1>12,
       <1>13, <1>14 DEF Next, Poll, Fail

LEMMA StartStep == IInv /\ [Next]_vars => StartOK'
  <1> SUFFICES ASSUME IInv, [Next]_vars PROVE StartOK'
    OBVIOUS
  <1>. USE FundingAssumption
       DEF IInv, TypeOK, CountersOK, StartOK, accounts, memory, pollers
  <1>1. CASE Post
    BY <1>1 DEF Post
  <1>2. CASE StartOp
    BY <1>2 DEF StartOp
  <1>3. CASE EndOp
    BY <1>3 DEF EndOp
  <1>4. CASE Resolve
    BY <1>4 DEF Resolve
  <1>5. CASE Restart
    BY <1>5 DEF Restart
  <1>6. ASSUME NEW p \in Pollers, Fetch(p) PROVE StartOK'
    BY <1>6 DEF Fetch, Goto
  <1>7. ASSUME NEW p \in Pollers, FetchFails(p) PROVE StartOK'
    BY <1>7 DEF FetchFails
  <1>8. ASSUME NEW p \in Pollers, Sleep(p) PROVE StartOK'
    BY <1>8 DEF Sleep, Goto
  <1>9. ASSUME NEW p \in Pollers, Callback(p) PROVE StartOK'
    BY <1>9 DEF Callback, Done, Take, Goto
  <1>10. ASSUME NEW p \in Pollers, Read(p) PROVE StartOK'
    BY <1>10 DEF Read, Sift, Done, Take, Goto
  <1>11. ASSUME NEW p \in Pollers, ReadFails(p) PROVE StartOK'
    BY <1>11 DEF ReadFails, Sift, Done, Take, Goto
  <1>12. ASSUME NEW p \in Pollers, Write(p) PROVE StartOK'
    BY <1>12 DEF Write, Done, Take, Goto
  <1>13. ASSUME NEW p \in Pollers, WriteFails(p) PROVE StartOK'
    BY <1>13 DEF WriteFails, Done, Take, Goto
  <1>14. CASE UNCHANGED vars
    BY <1>14 DEF vars
  <1>. QED
    BY <1>1, <1>2, <1>3, <1>4, <1>5, <1>6, <1>7, <1>8, <1>9, <1>10, <1>11, <1>12,
       <1>13, <1>14 DEF Next, Poll, Fail

LEMMA CountedStep == IInv /\ [Next]_vars => CountedOK'
  <1> SUFFICES ASSUME IInv, [Next]_vars PROVE CountedOK'
    OBVIOUS
  <1>. USE FundingAssumption
       DEF IInv, TypeOK, CountedOK, PollersOK, OwnerInv, Midway, accounts,
           memory, pollers
  <1>1. CASE Post
    BY <1>1 DEF Post
  <1>2. CASE StartOp
    BY <1>2 DEF StartOp
  <1>3. CASE EndOp
    BY <1>3 DEF EndOp
  <1>4. CASE Resolve
    BY <1>4 DEF Resolve
  <1>5. CASE Restart
    BY <1>5 DEF Restart
  <1>6. ASSUME NEW p \in Pollers, Fetch(p) PROVE CountedOK'
    BY <1>6 DEF Fetch, Goto
  <1>7. ASSUME NEW p \in Pollers, FetchFails(p) PROVE CountedOK'
    BY <1>7 DEF FetchFails
  <1>8. ASSUME NEW p \in Pollers, Sleep(p) PROVE CountedOK'
    BY <1>8 DEF Sleep, Goto
  <1>9. ASSUME NEW p \in Pollers, Callback(p) PROVE CountedOK'
    BY <1>9 DEF Callback, Done, Take, Goto
  <1>10. ASSUME NEW p \in Pollers, Read(p) PROVE CountedOK'
    BY <1>10 DEF Read, Sift, Done, Take, Goto
  <1>11. ASSUME NEW p \in Pollers, ReadFails(p) PROVE CountedOK'
    BY <1>11 DEF ReadFails, Sift, Done, Take, Goto
  <1>12. ASSUME NEW p \in Pollers, Write(p) PROVE CountedOK'
    <2>1. opId[p] \in 1..MaxOps /\ entry[p] \in 1..Entries
      BY <1>12 DEF Write
    <2>2. counted[opId[p]][entry[p]] + 1 \in Nat
      BY <2>1
    <2>3. counted' = [counted EXCEPT ![opId[p]][entry[p]] =
                                       counted[opId[p]][entry[p]] + 1]
      BY <1>12 DEF Write
    <2>. QED
      BY <2>1, <2>2, <2>3
  <1>13. ASSUME NEW p \in Pollers, WriteFails(p) PROVE CountedOK'
    BY <1>13 DEF WriteFails, Done, Take, Goto
  <1>14. CASE UNCHANGED vars
    BY <1>14 DEF vars
  <1>. QED
    BY <1>1, <1>2, <1>3, <1>4, <1>5, <1>6, <1>7, <1>8, <1>9, <1>10, <1>11, <1>12,
       <1>13, <1>14 DEF Next, Poll, Fail

LEMMA BatchStep == IInv /\ [Next]_vars => BatchOK'
  <1> SUFFICES ASSUME IInv, [Next]_vars PROVE BatchOK'
    OBVIOUS
  <1>. USE FundingAssumption
       DEF IInv, TypeOK, CountersOK, BatchOK, accounts, memory, pollers
  <1>1. CASE Post
    BY <1>1 DEF Post
  <1>2. CASE StartOp
    BY <1>2 DEF StartOp
  <1>3. CASE EndOp
    BY <1>3 DEF EndOp
  <1>4. CASE Resolve
    BY <1>4 DEF Resolve
  <1>5. CASE Restart
    BY <1>5 DEF Restart
  <1>6. ASSUME NEW p \in Pollers, Fetch(p) PROVE BatchOK'
    BY <1>6 DEF Fetch, Goto
  <1>7. ASSUME NEW p \in Pollers, FetchFails(p) PROVE BatchOK'
    BY <1>7 DEF FetchFails
  <1>8. ASSUME NEW p \in Pollers, Sleep(p) PROVE BatchOK'
    BY <1>8 DEF Sleep, Goto
  <1>9. ASSUME NEW p \in Pollers, Callback(p) PROVE BatchOK'
    BY <1>9 DEF Callback, Done, Take, Goto
  <1>10. ASSUME NEW p \in Pollers, Read(p) PROVE BatchOK'
    BY <1>10 DEF Read, Sift, Done, Take, Goto
  <1>11. ASSUME NEW p \in Pollers, ReadFails(p) PROVE BatchOK'
    BY <1>11 DEF ReadFails, Sift, Done, Take, Goto
  <1>12. ASSUME NEW p \in Pollers, Write(p) PROVE BatchOK'
    BY <1>12 DEF Write, Done, Take, Goto
  <1>13. ASSUME NEW p \in Pollers, WriteFails(p) PROVE BatchOK'
    BY <1>13 DEF WriteFails, Done, Take, Goto
  <1>14. CASE UNCHANGED vars
    BY <1>14 DEF vars
  <1>. QED
    BY <1>1, <1>2, <1>3, <1>4, <1>5, <1>6, <1>7, <1>8, <1>9, <1>10, <1>11, <1>12,
       <1>13, <1>14 DEF Next, Poll, Fail

LEMMA PollersStep == IInv /\ [Next]_vars => PollersOK'
  <1> SUFFICES ASSUME IInv, [Next]_vars PROVE PollersOK'
    OBVIOUS
  <1>. USE FundingAssumption
       DEF IInv, TypeOK, CountersOK, BatchOK, PollersOK, accounts, memory,
           pollers
  <1>1. CASE Post
    BY <1>1 DEF Post
  <1>2. CASE StartOp
    BY <1>2 DEF StartOp
  <1>3. CASE EndOp
    BY <1>3 DEF EndOp
  <1>4. CASE Resolve
    BY <1>4 DEF Resolve
  <1>5. CASE Restart
    BY <1>5 DEF Restart
  <1>6. ASSUME NEW p \in Pollers, Fetch(p) PROVE PollersOK'
    BY <1>6 DEF Fetch, Goto
  <1>7. ASSUME NEW p \in Pollers, FetchFails(p) PROVE PollersOK'
    BY <1>7 DEF FetchFails
  <1>8. ASSUME NEW p \in Pollers, Sleep(p) PROVE PollersOK'
    BY <1>8 DEF Sleep, Goto
  <1>9. ASSUME NEW p \in Pollers, Callback(p) PROVE PollersOK'
    BY <1>9 DEF Callback, Done, Take, Goto
  <1>10. ASSUME NEW p \in Pollers, Read(p) PROVE PollersOK'
    BY <1>10 DEF Read, Sift, Done, Take, Goto
  <1>11. ASSUME NEW p \in Pollers, ReadFails(p) PROVE PollersOK'
    BY <1>11 DEF ReadFails, Sift, Done, Take, Goto
  <1>12. ASSUME NEW p \in Pollers, Write(p) PROVE PollersOK'
    BY <1>12 DEF Write, Done, Take, Goto
  <1>13. ASSUME NEW p \in Pollers, WriteFails(p) PROVE PollersOK'
    BY <1>13 DEF WriteFails, Done, Take, Goto
  <1>14. CASE UNCHANGED vars
    BY <1>14 DEF vars
  <1>. QED
    BY <1>1, <1>2, <1>3, <1>4, <1>5, <1>6, <1>7, <1>8, <1>9, <1>10, <1>11, <1>12,
       <1>13, <1>14 DEF Next, Poll, Fail

LEMMA OwnerStep == IInv /\ [Next]_vars => OwnerInv'
  <1> SUFFICES ASSUME IInv, [Next]_vars PROVE OwnerInv'
    OBVIOUS
  <1>. USE FundingAssumption
       DEF IInv, TypeOK, CountersOK, MemoryOK, StartOK, BatchOK, PollersOK,
           OwnerInv, Midway, accounts, memory, pollers
  <1>1. CASE Post
    BY <1>1 DEF Post
  <1>2. CASE StartOp
    <2>1. /\ ops' = ops + 1 /\ ops + 1 \in 1..MaxOps /\ start'[ops + 1] = posted
          /\ UNCHANGED <<posted, seenOp, at, batch, entry, opId>>
      BY <1>2 DEF StartOp
    <2>2. seenOp =< ops + 1
      OBVIOUS
    <2>3. \A p \in Midway : /\ opId[p] \in 1..(ops + 1)
                             /\ entry[p] \in 1..posted
                             /\ opId[p] # ops + 1
                             /\ entry[p] =< posted
      OBVIOUS
    <2>. QED
      BY <2>1, <2>2, <2>3
  <1>3. CASE EndOp
    BY <1>3 DEF EndOp
  <1>4. CASE Resolve
    BY <1>4 DEF Resolve
  <1>5. CASE Restart
    BY <1>5 DEF Restart
  <1>6. ASSUME NEW p \in Pollers, Fetch(p) PROVE OwnerInv'
    BY <1>6 DEF Fetch, Goto
  <1>7. ASSUME NEW p \in Pollers, FetchFails(p) PROVE OwnerInv'
    BY <1>7 DEF FetchFails
  <1>8. ASSUME NEW p \in Pollers, Sleep(p) PROVE OwnerInv'
    BY <1>8 DEF Sleep, Goto
  <1>9. ASSUME NEW p \in Pollers, Callback(p) PROVE OwnerInv'
    <2>1. /\ at[p] = "batch"
          /\ UNCHANGED <<posted, ops, start>>
          /\ seenOp' = IF op # 0 THEN op ELSE seenOp
          /\ \A q \in Pollers : batch'[q] \subseteq batch[q]
      BY <1>9 DEF Callback
    <2>2. \A q \in Pollers \ {p} :
             at'[q] = at[q] /\ entry'[q] = entry[q] /\ opId'[q] = opId[q]
      BY <1>9 DEF Callback, Done, Take, Goto
    <2>3. \/ at'[p] = "batch"
          \/ op = ops /\ op # 0 /\ opId'[p] = op /\ entry'[p] \in batch[p]
      BY <1>9 DEF Callback, Done, Take, Goto
    <2>4. seenOp' =< ops /\ seenOp' \in {seenOp, ops}
      BY <2>1
    <2>5. ASSUME NEW q \in Pollers, at'[q] \in {"read", "write"}
          PROVE  /\ opId'[q] \in 1..ops
                 /\ entry'[q] \in 1..posted
                 /\ opId'[q] = ops => seenOp' = ops
                 /\ opId'[q] # ops => entry'[q] =< start[ops]
      <3>1. CASE q = p
        <4>1. op = ops /\ op # 0 /\ opId'[q] = op /\ entry'[q] \in 1..posted
          BY <2>3, <2>5, <3>1
        <4>. QED
          BY <2>1, <4>1
      <3>2. CASE q # p
        <4>1. /\ q \in Midway
              /\ entry'[q] = entry[q] /\ opId'[q] = opId[q]
          BY <2>2, <2>5, <3>2
        <4>. QED
          BY <2>4, <4>1
      <3>. QED
        BY <3>1, <3>2
    <2>. QED
      BY <2>1, <2>4, <2>5
  <1>10. ASSUME NEW p \in Pollers, Read(p) PROVE OwnerInv'
    BY <1>10 DEF Read, Sift, Done, Take, Goto
  <1>11. ASSUME NEW p \in Pollers, ReadFails(p) PROVE OwnerInv'
    BY <1>11 DEF ReadFails, Sift, Done, Take, Goto
  <1>12. ASSUME NEW p \in Pollers, Write(p) PROVE OwnerInv'
    BY <1>12 DEF Write, Done, Take, Goto
  <1>13. ASSUME NEW p \in Pollers, WriteFails(p) PROVE OwnerInv'
    BY <1>13 DEF WriteFails, Done, Take, Goto
  <1>14. CASE UNCHANGED vars
    BY <1>14 DEF vars
  <1>. QED
    BY <1>1, <1>2, <1>3, <1>4, <1>5, <1>6, <1>7, <1>8, <1>9, <1>10, <1>11, <1>12,
       <1>13, <1>14 DEF Next, Poll, Fail

(* A step that adds nothing keeps the counts when the set it leaves and    *)
(* the writes it leaves awaited meet the invariant.                        *)
LEMMA CountKept ==
    ASSUME IInv,
           UNCHANGED <<counted, start, ops, crashes>>,
           \A e \in Due :
              seenOp' # ops \/ e \notin seen' => counted[ops][e] =< crashes,
           \A q \in Pollers :
              at'[q] = "write" /\ opId'[q] = ops /\ entry'[q] \in Due =>
                 /\ entry'[q] \in seen'
                 /\ counted[ops][entry'[q]] =< crashes
                 /\ \A r \in Pollers \ {q} :
                       at'[r] = "write" /\ opId'[r] = ops => entry'[r] # entry'[q]
    PROVE  CountInv'
  <1>1. Due' = Due
    BY DEF Due
  <1>2. CountInv
    BY DEF IInv
  <1>. QED
    BY <1>1, <1>2 DEF CountInv

(* What follows get_operation keeps the counts: the entry is dropped, or   *)
(* marked before its write is awaited.                                     *)
LEMMA SiftKeeps ==
    ASSUME IInv, NEW p \in Pollers, at[p] = "read", NEW since, Sift(p, since),
           UNCHANGED <<counted, start, crashes, ops, op, seenOp>>
    PROVE  CountInv'
  <1>. USE DEF IInv, TypeOK, PollersOK, OwnerInv, Midway, CountInv
  <1>1. CASE Done(p) /\ seen' = seen
    <2>1. \A q \in Pollers : at'[q] = "write" =>
             at[q] = "write" /\ entry'[q] = entry[q] /\ opId'[q] = opId[q]
      BY <1>1 DEF Done, Take, Goto
    <2>. QED
      BY <1>1, <2>1, CountKept
  <1>2. CASE /\ entry[p] \notin seen
             /\ Goto(p, "write")
             /\ seen' = seen \cup {entry[p]}
             /\ UNCHANGED <<entry, opId>>
    <2>1. \A q \in Pollers : at'[q] = "write" => q = p \/ at[q] = "write"
      BY <1>2 DEF Goto
    <2>2. \A e \in Due :
             seenOp # ops \/ e \notin seen' => counted[ops][e] =< crashes
      BY <1>2
    <2>3. ASSUME NEW q \in Pollers, at'[q] = "write", opId[q] = ops, entry[q] \in Due
          PROVE  /\ entry[q] \in seen'
                 /\ counted[ops][entry[q]] =< crashes
                 /\ \A r \in Pollers \ {q} :
                       at'[r] = "write" /\ opId[r] = ops => entry[r] # entry[q]
      <3>1. CASE q = p
        <4>1. \A r \in Pollers \ {p} :
                 at'[r] = "write" /\ opId[r] = ops => entry[r] # entry[p]
          BY <1>2, <2>1, <2>3, <3>1
        <4>. QED
          BY <1>2, <2>3, <3>1, <4>1
      <3>2. CASE q # p
        <4>1. entry[q] \in seen /\ at[q] = "write"
          BY <2>1, <2>3, <3>2
        <4>. QED
          BY <1>2, <2>1, <2>3, <3>2, <4>1
      <3>. QED
        BY <3>1, <3>2
    <2>. QED
      BY <1>2, <2>2, <2>3, CountKept
  <1>. QED
    BY <1>1, <1>2 DEF Sift

LEMMA CountStep == IInv /\ [Next]_vars => CountInv'
  <1> SUFFICES ASSUME IInv, [Next]_vars PROVE CountInv'
    OBVIOUS
  <1>. USE FundingAssumption
       DEF IInv, TypeOK, CountersOK, MemoryOK, StartOK, CountedOK, BatchOK, PollersOK,
           OwnerInv, Midway, Due, CountInv, accounts, memory, pollers
  <1>1. CASE Post
    BY <1>1 DEF Post
  <1>2. CASE StartOp
    <2>1. /\ ops' = ops + 1 /\ ops + 1 \in 1..MaxOps
          /\ UNCHANGED <<counted, seen, seenOp, at, entry, opId, crashes>>
      BY <1>2 DEF StartOp
    <2>2. \A o \in 1..MaxOps, e \in 1..Entries : o > ops + 1 => counted[o][e] = 0
      OBVIOUS
    <2>3. \A e \in 1..Entries : /\ counted[ops + 1][e] =< 1 + crashes
                                /\ counted[ops + 1][e] =< crashes
      BY <2>1
    <2>4. \A p \in Midway : opId[p] # ops + 1
      OBVIOUS
    <2>5. Due' \subseteq 1..Entries
      BY DEF Due
    <2>. QED
      BY <2>1, <2>2, <2>3, <2>4, <2>5
  <1>3. CASE EndOp
    BY <1>3 DEF EndOp
  <1>4. CASE Resolve
    BY <1>4 DEF Resolve
  <1>5. CASE Restart
    <2>1. /\ UNCHANGED <<counted, start, ops>>
          /\ crashes' = crashes + 1 /\ seen' = {} /\ seenOp' = 0
          /\ \A p \in Pollers : at'[p] # "write"
      BY <1>5 DEF Restart
    <2>2. Due' = Due
      BY <2>1
    <2>3. ASSUME NEW e \in Due
          PROVE  counted[ops][e] =< 1 + (crashes + 1) /\ counted[ops][e] =< crashes + 1
      <3>1. counted[ops][e] =< 1 + crashes
        OBVIOUS
      <3>2. e \in 1..Entries /\ ops \in 1..MaxOps
        BY DEF Due
      <3>3. counted[ops][e] \in Nat /\ crashes \in Nat
        BY <3>2
      <3>. HIDE FundingAssumption
           DEF IInv, TypeOK, CountersOK, MemoryOK, StartOK, CountedOK, BatchOK, PollersOK,
               OwnerInv, Midway, Due, CountInv, accounts, memory, pollers
      <3>. QED
        BY <3>1, <3>3
    <2>. QED
      BY <2>1, <2>2, <2>3
  <1>6. ASSUME NEW p \in Pollers, Fetch(p) PROVE CountInv'
    BY <1>6 DEF Fetch, Goto
  <1>7. ASSUME NEW p \in Pollers, FetchFails(p) PROVE CountInv'
    BY <1>7 DEF FetchFails
  <1>8. ASSUME NEW p \in Pollers, Sleep(p) PROVE CountInv'
    BY <1>8 DEF Sleep, Goto
  <1>9. ASSUME NEW p \in Pollers, Callback(p) PROVE CountInv'
    <2>1. at[p] = "batch" /\ UNCHANGED <<counted, start, crashes, ops>>
      BY <1>9 DEF Callback
    <2>2. \A q \in Pollers : at'[q] = "write" =>
             at[q] = "write" /\ entry'[q] = entry[q] /\ opId'[q] = opId[q]
      BY <1>9 DEF Callback, Done, Take, Goto
    <2>3. CASE op # 0 /\ seenOp # op
      <3>1. op = ops /\ seenOp # ops
        BY <2>3
      <3>2. \A q \in Pollers : ~(at[q] = "write" /\ opId[q] = ops)
        BY <3>1
      <3>3. \A e \in Due : counted[ops][e] =< crashes
        BY <3>1
      <3>. QED
        BY <2>1, <2>2, <3>2, <3>3, CountKept
    <2>4. CASE ~(op # 0 /\ seenOp # op)
      <3>1. seen' = seen /\ seenOp' = seenOp
        BY <1>9, <2>4 DEF Callback
      <3>2. \A e \in Due :
               seenOp' # ops \/ e \notin seen' => counted[ops][e] =< crashes
        BY <3>1
      <3>3. ASSUME NEW q \in Pollers,
                   at'[q] = "write", opId'[q] = ops, entry'[q] \in Due
            PROVE  /\ entry'[q] \in seen'
                   /\ counted[ops][entry'[q]] =< crashes
                   /\ \A r \in Pollers \ {q} :
                         at'[r] = "write" /\ opId'[r] = ops => entry'[r] # entry'[q]
        <4>1. /\ at[q] = "write" /\ entry'[q] = entry[q]
              /\ opId[q] = ops /\ entry[q] \in Due
          BY <2>2, <3>3
        <4>. QED
          BY <2>2, <3>1, <4>1
      <3>. QED
        BY <2>1, <3>2, <3>3, CountKept
    <2>. QED
      BY <2>3, <2>4
  <1>10. ASSUME NEW p \in Pollers, Read(p) PROVE CountInv'
    BY <1>10, SiftKeeps DEF Read
  <1>11. ASSUME NEW p \in Pollers, ReadFails(p) PROVE CountInv'
    BY <1>11, SiftKeeps DEF ReadFails
  <1>12. ASSUME NEW p \in Pollers, Write(p) PROVE CountInv'
    <2>. DEFINE o == opId[p]
                e == entry[p]
    <2>1. /\ at[p] = "write" /\ at' = [at EXCEPT ![p] = "batch"]
          /\ seen' = seen /\ crashes' = crashes
          /\ ops' = ops /\ op' = op /\ seenOp' = seenOp
          /\ entry' = [entry EXCEPT ![p] = 0] /\ opId' = [opId EXCEPT ![p] = 0]
      BY <1>12 DEF Write, Done, Take, Goto
    <2>2. /\ o \in 1..ops /\ o \in 1..MaxOps /\ e \in 1..Entries /\ start' = start
          /\ ops # 0 /\ ops \in 1..MaxOps
      BY <1>12, <2>1 DEF Write
    <2>3. \A n \in 1..MaxOps, f \in 1..Entries :
             counted'[n][f] = IF n = o /\ f = e THEN counted[n][f] + 1
                                                ELSE counted[n][f]
      BY <1>12, <2>2 DEF Write
    <2>4. Due' = Due
      BY <2>1, <2>2
    <2>5. \A n \in 1..MaxOps, f \in 1..Entries : n > ops => counted'[n][f] = 0
      <3> SUFFICES ASSUME NEW n \in 1..MaxOps, NEW f \in 1..Entries, n > ops
                   PROVE  counted'[n][f] = 0
        OBVIOUS
      <3>1. n # o
        BY <2>2
      <3>2. counted'[n][f] = counted[n][f]
        <4>. HIDE DEF o, e, CountInv, CountedOK, OwnerInv
        <4>. QED
          BY <2>3, <3>1
      <3>3. counted[n][f] = 0
        OBVIOUS
      <3>. QED
        BY <3>2, <3>3
    <2>6. \A f \in Due : /\ counted'[ops][f] =< 1 + crashes
                         /\ seenOp # ops \/ f \notin seen => counted'[ops][f] =< crashes
      <3> TAKE f \in Due
      <3>1. CASE ops = o /\ f = e
        <4>1. counted'[ops][f] = counted[ops][f] + 1 /\ counted[ops][f] \in Nat
          BY <2>2, <2>3, <3>1
        <4>2. counted[ops][f] =< crashes /\ seenOp = ops /\ f \in seen
          BY <2>1, <3>1
        <4>3. counted[ops][f] + 1 =< 1 + crashes
          <5>1. crashes \in Nat
            OBVIOUS
          <5>. HIDE DEF o, e, CountersOK, CountInv
          <5>. QED
            BY <4>1, <4>2, <5>1
        <4>. QED
          BY <4>1, <4>2, <4>3
      <3>2. CASE ~(ops = o /\ f = e)
        <4>1. counted'[ops][f] = counted[ops][f]
          BY <2>2, <2>3, <3>2
        <4>. QED
          BY <4>1
      <3>. QED
        BY <3>1, <3>2
    <2>7. \A q \in Pollers : at'[q] = "write" =>
             q # p /\ at[q] = "write" /\ entry'[q] = entry[q] /\ opId'[q] = opId[q]
      BY <2>1
    <2>8. ASSUME NEW q \in Pollers,
                 at'[q] = "write", opId'[q] = ops, entry'[q] \in Due
          PROVE  /\ entry'[q] \in seen
                 /\ counted'[ops][entry'[q]] =< crashes
                 /\ \A r \in Pollers \ {q} :
                       at'[r] = "write" /\ opId'[r] = ops => entry'[r] # entry'[q]
      <3>1. /\ q # p /\ at[q] = "write" /\ entry'[q] = entry[q]
            /\ opId'[q] = opId[q] /\ opId[q] = ops /\ entry[q] \in Due
        BY <2>7, <2>8
      <3>2. /\ entry[q] \in seen /\ counted[ops][entry[q]] =< crashes
            /\ \A r \in Pollers \ {q} :
                  at[r] = "write" /\ opId[r] = ops => entry[r] # entry[q]
        BY <3>1
      <3>3. ~(ops = o /\ entry[q] = e)
        BY <2>1, <3>1, <3>2
      <3>4. counted'[ops][entry[q]] = counted[ops][entry[q]]
        BY <2>2, <2>3, <3>1, <3>3
      <3>. QED
        BY <2>7, <3>1, <3>2, <3>4
    <2>. QED
      BY <2>1, <2>4, <2>5, <2>6, <2>8 DEF CountInv
  <1>13. ASSUME NEW p \in Pollers, WriteFails(p) PROVE CountInv'
    <2>1. /\ at[p] = "write" /\ seen' = seen \ {entry[p]} /\ seenOp' = seenOp
          /\ UNCHANGED <<counted, start, crashes, ops>>
      BY <1>13 DEF WriteFails
    <2>2. \A q \in Pollers : at'[q] = "write" =>
             q # p /\ at[q] = "write" /\ entry'[q] = entry[q] /\ opId'[q] = opId[q]
      BY <1>13 DEF WriteFails, Done, Take, Goto
    <2>3. entry[p] \in Due => opId[p] = ops /\ counted[ops][entry[p]] =< crashes
      <3> SUFFICES ASSUME entry[p] \in Due
                   PROVE  opId[p] = ops /\ counted[ops][entry[p]] =< crashes
        OBVIOUS
      <3>1. /\ ops \in 1..MaxOps /\ start[ops] \in Nat /\ entry[p] \in Nat
            /\ start[ops] < entry[p]
        OBVIOUS
      <3>2. opId[p] = ops
        BY <2>1, <3>1
      <3>. QED
        BY <2>1, <3>2
    <2>4. \A e \in Due :
             seenOp' # ops \/ e \notin seen' => counted[ops][e] =< crashes
      BY <2>1, <2>3
    <2>5. ASSUME NEW q \in Pollers, at'[q] = "write", opId'[q] = ops, entry'[q] \in Due
          PROVE  /\ entry'[q] \in seen'
                 /\ counted[ops][entry'[q]] =< crashes
                 /\ \A r \in Pollers \ {q} :
                       at'[r] = "write" /\ opId'[r] = ops => entry'[r] # entry'[q]
      <3>1. /\ q # p /\ at[q] = "write" /\ entry'[q] = entry[q]
            /\ opId[q] = ops /\ entry[q] \in Due
        BY <2>2, <2>5
      <3>2. entry[q] \in seen /\ counted[ops][entry[q]] =< crashes
        BY <3>1
      <3>3. entry[q] # entry[p]
        BY <2>1, <2>3, <3>1
      <3>. QED
        BY <2>1, <2>2, <3>1, <3>2, <3>3
    <2>. QED
      BY <2>1, <2>4, <2>5, CountKept
  <1>14. CASE UNCHANGED vars
    BY <1>14 DEF vars
  <1>. QED
    BY <1>1, <1>2, <1>3, <1>4, <1>5, <1>6, <1>7, <1>8, <1>9, <1>10, <1>11, <1>12,
       <1>13, <1>14 DEF Next, Poll, Fail

LEMMA AlwaysIInv == Spec => []IInv
  <1>1. IInv /\ [Next]_vars => IInv'
    BY CountersStep, MemoryStep, StartStep, CountedStep, BatchStep, PollersStep,
       OwnerStep, CountStep DEF IInv, TypeOK
  <1>. QED
    BY <1>1, InitIInv, PTL DEF Spec

(* Every variable keeps its type, whatever the constants.                  *)
THEOREM TypeCorrect == Spec => []TypeOK
  <1>1. IInv => TypeOK
    BY DEF IInv
  <1>. QED
    BY <1>1, AlwaysIInv, PTL

(* _on_funding_payment adds a payment due to the latest operation to it at *)
(* most once per run of the process, for any number of pollers, failures   *)
(* and operations started meanwhile.                                       *)
THEOREM OncePerRun == Spec => []CountedOncePerRun
  <1>1. IInv => CountedOncePerRun
    BY DEF IInv, CountInv, Due, CountedOncePerRun
  <1>. QED
    BY <1>1, AlwaysIInv, PTL
=============================================================================
