------------------------ MODULE WriteAheadLog_proofs ------------------------
(***************************************************************************)
(* A snapshot and the rows after it bring back the state the node had, and *)
(* the blocks and events the node has counted stay in step with the place  *)
(* of the callback in the chain, for any number of crashes, blocks and     *)
(* messages and any distance between snapshots.                            *)
(***************************************************************************)
EXTENDS WriteAheadLog, SequenceTheorems, FiniteSetTheorems,
        WellFoundedInduction, TLAPS

-----------------------------------------------------------------------------
(* The state that rows 1 .. n make.                                        *)

Entry(i) == [row |-> log[i].data, seed |-> i]
Applied(n) == [i \in 1 .. n |-> Entry(i)]
Entries == {Entry(i) : i \in 1 .. Len(log)}

IsSeq(s) == \E S : s \in Seq(S)

\* The first n state changes applied are a sequence of their own.
LEMMA AppliedSeq ==
  ASSUME NEW n \in Nat, n <= Len(log), Len(log) \in Nat
  PROVE  /\ Applied(n) \in Seq(Entries) /\ Len(Applied(n)) = n
         /\ \A i \in 1 .. n : Applied(n)[i] = Entry(i)
<1>1. \A i \in 1 .. n : Entry(i) \in Entries
  BY DEF Entries
<1>2. Applied(n) \in [1 .. n -> Entries]
  BY <1>1 DEF Applied
<1>3. Applied(n) \in Seq(Entries) /\ Len(Applied(n)) = n
  BY <1>2
<1> QED BY <1>3 DEF Applied

\* The rows after the first k, applied to what these made.
LEMMA AppliedConcat ==
  ASSUME Len(log) \in Nat, NEW k \in 0 .. Len(log)
  PROVE  Applied(k) \o [i \in 1 .. Len(log) - k |-> Entry(k + i)] = Applied(Len(log))
<1> DEFINE n == Len(log)
           r == [i \in 1 .. n - k |-> Entry(k + i)]
           s == Applied(k)
           t == Applied(n)
<1>1. /\ s \in Seq(Entries) /\ Len(s) = k
      /\ \A i \in 1 .. k : s[i] = Entry(i)
  BY AppliedSeq
<1>2. /\ t \in Seq(Entries) /\ Len(t) = n
      /\ \A i \in 1 .. n : t[i] = Entry(i)
  BY AppliedSeq
<1>3. r \in Seq(Entries) /\ Len(r) = n - k
  <2>1. \A i \in 1 .. n - k : k + i \in 1 .. n
    OBVIOUS
  <2>2. r \in [1 .. n - k -> Entries]
    BY <2>1 DEF Entries
  <2>3. n - k \in Nat
    OBVIOUS
  <2> HIDE DEF r
  <2> QED BY <2>2, <2>3
<1>4. \A i \in 1 .. n - k : r[i] = Entry(k + i)
  OBVIOUS
<1> HIDE DEF r, s, t
<1>5. /\ s \o r \in Seq(Entries) /\ Len(s \o r) = n
      /\ \A i \in 1 .. n : (s \o r)[i] = IF i <= k THEN s[i] ELSE r[i - k]
  BY <1>1, <1>3, ConcatProperties
<1>6. ASSUME NEW i \in 1 .. n PROVE (s \o r)[i] = t[i]
  <2>1. CASE i <= k
    <3>1. i \in 1 .. k
      BY <2>1
    <3>2. (s \o r)[i] = s[i] /\ s[i] = Entry(i) /\ t[i] = Entry(i)
      BY <1>1, <1>2, <1>5, <2>1, <3>1
    <3> QED BY <3>2
  <2>2. CASE i > k
    <3>1. i - k \in 1 .. n - k /\ k + (i - k) = i
      BY <2>2
    <3>2. r[i - k] = Entry(i)
      BY <1>4, <3>1
    <3>3. (s \o r)[i] = r[i - k] /\ t[i] = Entry(i)
      BY <1>2, <1>5, <2>2
    <3> QED BY <3>2, <3>3
  <2>3. i <= k \/ i > k
    <3>1. i \in Int /\ k \in Int
      OBVIOUS
    <3> QED BY <3>1
  <2> QED BY ONLY <2>1, <2>2, <2>3, Zenon
<1>7. s \o r = t
  BY <1>2, <1>5, <1>6, SeqEqual
<1> QED BY <1>7 DEF s, r, t

\* The last row, applied to what the rows before it make.
LEMMA AppliedAppend ==
  ASSUME Len(log) \in Nat, Len(log) > 0
  PROVE  Append(Applied(Len(log) - 1), Entry(Len(log))) = Applied(Len(log))
<1> DEFINE n == Len(log)
           s == Applied(n - 1)
           t == Applied(n)
           u == Append(s, Entry(n))
<1>1. n - 1 \in Nat /\ n - 1 <= n /\ n \in Nat /\ n \in 1 .. n
  OBVIOUS
<1>2. /\ s \in Seq(Entries) /\ Len(s) = n - 1
      /\ \A i \in 1 .. n - 1 : s[i] = Entry(i)
  BY <1>1, AppliedSeq
<1>3. /\ t \in Seq(Entries) /\ Len(t) = n
      /\ \A i \in 1 .. n : t[i] = Entry(i)
  BY <1>1, AppliedSeq
<1>4. Entry(n) \in Entries
  BY <1>1 DEF Entries
<1> HIDE DEF n, s, t
<1>5. /\ u \in Seq(Entries) /\ Len(u) = Len(s) + 1
      /\ \A i \in 1 .. Len(s) : u[i] = s[i]
      /\ u[Len(s) + 1] = Entry(n)
  BY <1>2, <1>4, AppendProperties
<1> HIDE DEF u
<1>6. ASSUME NEW i \in 1 .. n PROVE u[i] = t[i]
  <2>1. CASE i = n
    BY <1>1, <1>2, <1>3, <1>5, <2>1
  <2>2. CASE i # n
    <3>1. i \in 1 .. n - 1
      BY <1>1, <2>2
    <3> QED BY <1>2, <1>3, <1>5, <3>1
  <2> QED BY <2>1, <2>2
<1>7. Len(u) = n
  BY <1>1, <1>2, <1>5
<1>8. u = t
  BY <1>3, <1>5, <1>6, <1>7, SeqEqual
<1> QED BY <1>8 DEF u, t, s, n

-----------------------------------------------------------------------------
(* The invariant.                                                          *)

\* Tables are sequences, and the handler is in one of its places.
Tables ==
  /\ IsSeq(log) /\ IsSeq(snapshots) /\ broken \in Nat
  /\ pc \in {"down", "idle", "logged", "dispatched", "recorded", "handled"}

\* As long as every row can be read, so can every snapshot, and it is the state
\* its rows make.
SnapshotsExact ==
  /\ \A i \in 1 .. Len(log) : log[i].ok
  /\ \A k \in 1 .. Len(snapshots) :
       /\ snapshots[k].ok /\ snapshots[k].id \in 0 .. Len(log)
       /\ snapshots[k].state = Applied(snapshots[k].id)

\* The state in memory is what all rows make; the last one may be pending.
MemoryExact ==
  /\ pc \in {"logged", "dispatched", "recorded", "handled"} =>
       stateChangeId = Len(log) /\ Len(log) > 0
  /\ pc = "logged" => current = Applied(Len(log) - 1)
  /\ pc \notin {"down", "logged"} => current = Applied(Len(log))

LogInv == Tables /\ (Intact => SnapshotsExact /\ MemoryExact)

\* A restart brings back what all rows make.
LEMMA RestoresAll ==
  LogInv /\ Intact => RestoreToLatest = Applied(Len(log))
<1> SUFFICES ASSUME LogInv, Intact PROVE RestoreToLatest = Applied(Len(log))
  OBVIOUS
<1> DEFINE n == Len(log)
           c == getSnapshotClosestToStateChange(n)
<1>1. n \in Nat /\ Len(snapshots) \in Nat /\ DOMAIN snapshots = 1 .. Len(snapshots)
  BY DEF LogInv, Tables, IsSeq
<1>2. SnapshotsExact
  BY DEF LogInv
<1>3. c.id \in 0 .. n /\ c.state = Applied(c.id)
  <2> DEFINE S == {i \in DOMAIN snapshots : snapshots[i].id <= n}
  <2>1. S = 1 .. Len(snapshots)
    BY <1>1, <1>2 DEF SnapshotsExact
  <2>2. CASE Len(snapshots) = 0
    <3>1. S = {}
      BY <2>1, <2>2
    <3>2. c.id = 0 /\ c.state = <<>>
      BY <3>1 DEF getSnapshotClosestToStateChange
    <3>3. Applied(0) = <<>>
      BY DEF Applied
    <3> QED BY <1>1, <3>2, <3>3
  <2>3. CASE Len(snapshots) # 0
    <3>1. Max(S) \in S
      <4>1. Len(snapshots) \in S /\ \A y \in S : Len(snapshots) >= y
        BY <1>1, <2>1, <2>3
      <4> HIDE DEF S
      <4> QED BY <4>1 DEF Max
    <3>2. Max(S) \in 1 .. Len(snapshots)
      BY <2>1, <3>1
    <3>3. S # {} /\ snapshots[Max(S)].ok
      BY <1>2, <3>1, <3>2 DEF SnapshotsExact
    <3>4. c = snapshots[Max(S)]
      BY <3>3 DEF getSnapshotClosestToStateChange
    <3> QED BY <1>2, <3>2, <3>4 DEF SnapshotsExact
  <2> QED BY <2>2, <2>3
<1> DEFINE ids == [i \in 1 .. n - c.id |-> c.id + i]
<1>4. RestoreToLatest = c.state \o Replay(c.id, getStateChangesAfter(c.id))
  BY DEF RestoreToLatest
<1> HIDE DEF c
<1>5. getStateChangesAfter(c.id) = ids
  <2>1. \A k \in 1 .. n - c.id : c.id + k \in 1 .. n
    BY <1>1, <1>3
  <2>2. \A k \in DOMAIN ids : log[ids[k]].ok
    BY <1>2, <2>1 DEF SnapshotsExact
  <2> QED BY <2>2 DEF getStateChangesAfter, Readable
<1>6. Replay(c.id, ids) = [i \in 1 .. n - c.id |-> Entry(c.id + i)]
  BY DEF Replay, Entry
<1> QED BY <1>1, <1>3, <1>4, <1>5, <1>6, AppliedConcat

\* A row more leaves what the rows before it make.
LEMMA AppliedKept ==
  ASSUME IsSeq(log), NEW x, log' = Append(log, x)
  PROVE  /\ Len(log) \in Nat /\ Len(log') = Len(log) + 1 /\ IsSeq(log')
         /\ \A i \in 1 .. Len(log) : log'[i] = log[i]
         /\ log'[Len(log')] = x
         /\ \A n \in 0 .. Len(log) : Applied(n)' = Applied(n)
<1>1. PICK S : log \in Seq(S)
  BY DEF IsSeq
<1>2. log \in Seq(S \cup {x}) /\ x \in S \cup {x}
  BY <1>1
<1>3. /\ Len(log) \in Nat /\ Len(log') = Len(log) + 1 /\ log' \in Seq(S \cup {x})
      /\ \A i \in 1 .. Len(log) : log'[i] = log[i]
      /\ log'[Len(log) + 1] = x
  BY <1>2, AppendProperties
<1>4. \A n \in 0 .. Len(log) : \A i \in 1 .. n : log'[i] = log[i]
  BY <1>3
<1>5. \A n \in 0 .. Len(log) : Applied(n)' = Applied(n)
  BY <1>4 DEF Applied, Entry
<1> QED BY <1>3, <1>5 DEF IsSeq

\* What the handler of a state change writes.
LEMMA WriteNext ==
  ASSUME LogInv, NEW change, HandleStateChange(change)
  PROVE  /\ LogInv'
         /\ broken' \in Nat /\ (broken' = 0 => broken = 0)
         /\ Len(log) \in Nat /\ Len(log') = Len(log) + 1
         /\ \A n \in 0 .. Len(log) : Applied(n)' = Applied(n)
<1>1. PICK ok \in BOOLEAN :
        /\ log' = Append(log, [data |-> change, ok |-> ok])
        /\ broken' = IF ok THEN broken ELSE broken + 1
  BY DEF HandleStateChange
<1>2. /\ pc = "idle" /\ pc' = "logged" /\ stateChangeId' = Len(log')
      /\ UNCHANGED <<snapshots, current>>
  BY DEF HandleStateChange
<1>3. broken \in Nat /\ IsSeq(log) /\ IsSeq(snapshots)
  BY DEF LogInv, Tables
<1>4. /\ Len(log) \in Nat /\ Len(log') = Len(log) + 1 /\ IsSeq(log')
      /\ \A i \in 1 .. Len(log) : log'[i] = log[i]
      /\ log'[Len(log')] = [data |-> change, ok |-> ok]
      /\ \A n \in 0 .. Len(log) : Applied(n)' = Applied(n)
  BY <1>1, <1>3, AppliedKept
<1>5. broken' \in Nat /\ (broken' = 0 => broken = 0 /\ ok)
  BY <1>1, <1>3
<1>6. Tables'
  BY <1>2, <1>3, <1>4, <1>5 DEF Tables
<1>7. ASSUME broken' = 0 PROVE SnapshotsExact' /\ MemoryExact'
  <2>1. SnapshotsExact /\ MemoryExact
    BY <1>5, <1>7 DEF LogInv, Intact
  <2>2. \A i \in 1 .. Len(log') : i \in 1 .. Len(log) \/ i = Len(log')
    BY <1>4
  <2>3. \A i \in 1 .. Len(log') : log'[i].ok
    BY <1>4, <1>5, <1>7, <2>1, <2>2 DEF SnapshotsExact
  <2>4. 0 .. Len(log) \subseteq 0 .. Len(log')
    BY <1>4
  <2>5. ASSUME NEW k \in 1 .. Len(snapshots)
        PROVE  /\ snapshots[k].ok /\ snapshots[k].id \in 0 .. Len(log')
               /\ snapshots[k].state = Applied(snapshots[k].id)'
    <3>1. /\ snapshots[k].ok /\ snapshots[k].id \in 0 .. Len(log)
          /\ snapshots[k].state = Applied(snapshots[k].id)
      BY <2>1 DEF SnapshotsExact
    <3>2. Applied(snapshots[k].id)' = [i \in 1 .. snapshots[k].id |-> Entry(i)']
      BY <1>2 DEF Applied
    <3> QED BY <1>2, <1>4, <2>4, <3>1, <3>2 DEF Applied
  <2>6. SnapshotsExact'
    BY <1>2, <2>3, <2>5 DEF SnapshotsExact
  <2>7. Len(log') - 1 = Len(log) /\ Len(log') > 0
    BY <1>4
  <2>8. current' = [i \in 1 .. Len(log) |-> Entry(i)']
    <3>1. current = Applied(Len(log)) /\ Len(log) \in 0 .. Len(log)
      BY <1>2, <1>4, <2>1 DEF MemoryExact
    <3>2. \A n \in 0 .. Len(log) : Applied(n) = [i \in 1 .. n |-> Entry(i)']
      BY <1>4 DEF Applied
    <3> QED BY <1>2, <3>1, <3>2
  <2>9. MemoryExact'
    BY <1>2, <2>7, <2>8 DEF MemoryExact, Applied
  <2> QED BY <2>6, <2>9
<1> QED BY <1>4, <1>5, <1>6, <1>7 DEF LogInv, Intact

\* A step that writes no row: the handler's others, a crash, a start, a block.
Silent ==
  \/ initDB \/ StartService \/ Dispatch \/ writeEvents \/ OnChannelEvent
  \/ UserChangesRoutes \/ TakeSnapshot \/ Crash \/ Mine \/ UNCHANGED vars

\* The snapshots are exact, after TakeSnapshot too.
LEMMA SilentNext ==
  ASSUME LogInv, Silent
  PROVE  /\ LogInv' /\ log' = log
         /\ broken' \in Nat /\ (broken' = 0 => broken = 0)
<1> USE DEF tables, memory, bounds
<1>1. log' = log
  BY DEF Silent, initDB, StartService, Dispatch, writeEvents, OnChannelEvent,
         UserChangesRoutes, TakeSnapshot, Crash, Mine, vars
<1>2. \A n : Applied(n)' = Applied(n)
  BY <1>1 DEF Applied, Entry
<1>3. Tables /\ broken \in Nat /\ Len(log) \in Nat
  BY DEF LogInv, Tables, IsSeq
<1>4. CASE TakeSnapshot
  <2>1. PICK ok \in BOOLEAN :
          IF stateChangeId \div SnapshotStateChangeCount > snapshotGroup
          THEN /\ snapshots' = Append(snapshots, writeStateSnapshot(ok))
               /\ broken' = IF ok THEN broken ELSE broken + 1
          ELSE ok /\ UNCHANGED <<snapshots, broken>>
    BY <1>4 DEF TakeSnapshot
  <2>2. pc = "handled" /\ pc' = "idle" /\ UNCHANGED <<current, stateChangeId>>
    BY <1>4 DEF TakeSnapshot
  <2>3. broken' \in Nat /\ (broken' = 0 => broken = 0 /\ ok)
    BY <1>3, <2>1
  <2>4. /\ IsSeq(snapshots')
        /\ \A k \in 1 .. Len(snapshots') :
             \/ k \in 1 .. Len(snapshots) /\ snapshots'[k] = snapshots[k]
             \/ snapshots'[k] = writeStateSnapshot(ok)
    <3>1. CASE snapshots' = snapshots
      BY <1>3, <3>1 DEF Tables
    <3>2. CASE snapshots' = Append(snapshots, writeStateSnapshot(ok))
      <4> DEFINE e == writeStateSnapshot(ok)
      <4>1. PICK S : snapshots \in Seq(S)
        BY <1>3 DEF Tables, IsSeq
      <4>2. snapshots \in Seq(S \cup {e}) /\ e \in S \cup {e}
        BY <4>1
      <4> HIDE DEF e
      <4>3. /\ Append(snapshots, e) \in Seq(S \cup {e})
            /\ Len(Append(snapshots, e)) = Len(snapshots) + 1
            /\ \A k \in 1 .. Len(snapshots) : Append(snapshots, e)[k] = snapshots[k]
            /\ Append(snapshots, e)[Len(snapshots) + 1] = e
            /\ Len(snapshots) \in Nat
        BY <4>2, AppendProperties
      <4>4. snapshots' = Append(snapshots, e)
        BY <3>2 DEF e
      <4>5. \A k \in 1 .. Len(snapshots) + 1 :
              k \in 1 .. Len(snapshots) \/ k = Len(snapshots) + 1
        BY <4>3
      <4>6. \A k \in 1 .. Len(snapshots') :
              \/ k \in 1 .. Len(snapshots) /\ snapshots'[k] = snapshots[k]
              \/ snapshots'[k] = e
        BY <4>3, <4>4, <4>5
      <4> QED BY <4>3, <4>4, <4>6 DEF IsSeq, e
    <3> QED BY <2>1, <3>1, <3>2
  <2>5. Tables'
    BY <1>1, <1>3, <2>2, <2>3, <2>4 DEF Tables
  <2>6. ASSUME broken' = 0 PROVE SnapshotsExact' /\ MemoryExact'
    <3>1. SnapshotsExact /\ MemoryExact /\ ok
      BY <2>3, <2>6 DEF LogInv, Intact
    <3>2. stateChangeId = Len(log) /\ current = Applied(Len(log))
      BY <2>2, <3>1 DEF MemoryExact
    <3>3. /\ writeStateSnapshot(ok).ok
          /\ writeStateSnapshot(ok).id = Len(log)
          /\ writeStateSnapshot(ok).state = Applied(Len(log))
      BY <3>1, <3>2 DEF writeStateSnapshot
    <3>4. \A k \in 1 .. Len(snapshots') :
            /\ snapshots'[k].ok /\ snapshots'[k].id \in 0 .. Len(log)
            /\ snapshots'[k].state = Applied(snapshots'[k].id)
      <4>1. SUFFICES ASSUME NEW k \in 1 .. Len(snapshots')
                     PROVE  /\ snapshots'[k].ok /\ snapshots'[k].id \in 0 .. Len(log)
                            /\ snapshots'[k].state = Applied(snapshots'[k].id)
        OBVIOUS
      <4>2. CASE k \in 1 .. Len(snapshots) /\ snapshots'[k] = snapshots[k]
        BY <3>1, <4>2 DEF SnapshotsExact
      <4>3. CASE snapshots'[k] = writeStateSnapshot(ok)
        <5>1. Len(log) \in 0 .. Len(log)
          BY <1>3
        <5> QED BY <3>3, <4>3, <5>1
      <4> QED BY <2>4, <4>2, <4>3
    <3>5. \A k \in 1 .. Len(snapshots') :
            snapshots'[k].state = [i \in 1 .. snapshots'[k].id |-> Entry(i)']
      BY <1>1, <3>4 DEF Applied, Entry
    <3>6. SnapshotsExact'
      BY <1>1, <3>1, <3>4, <3>5 DEF SnapshotsExact, Applied
    <3>7. current' = [i \in 1 .. Len(log') |-> Entry(i)']
      BY <1>1, <2>2, <3>2 DEF Applied, Entry
    <3>8. MemoryExact'
      BY <2>2, <3>7 DEF MemoryExact, Applied
    <3> QED BY <3>6, <3>8
  <2> QED BY <1>1, <2>3, <2>5, <2>6 DEF LogInv, Intact
<1>5. ASSUME UNCHANGED <<snapshots, broken>>, Tables',
             MemoryExact /\ Intact /\ SnapshotsExact => MemoryExact'
      PROVE  LogInv' /\ broken' \in Nat /\ (broken' = 0 => broken = 0)
  <2>1. SnapshotsExact => SnapshotsExact'
    BY <1>1, <1>5 DEF SnapshotsExact, Applied, Entry
  <2> QED BY <1>3, <1>5, <2>1 DEF LogInv, Intact
<1>6. CASE initDB
  <2>1. /\ pc' = "idle" /\ current' = RestoreToLatest
        /\ UNCHANGED <<snapshots, broken>>
    BY <1>6 DEF initDB
  <2>2. ASSUME Intact PROVE MemoryExact'
    <3>1. current' = Applied(Len(log))
      BY <2>1, <2>2, RestoresAll
    <3>2. current' = [i \in 1 .. Len(log') |-> Entry(i)']
      BY <1>1, <3>1 DEF Applied, Entry
    <3> QED BY <2>1, <3>2 DEF MemoryExact, Applied
  <2>3. Tables'
    BY <1>1, <1>3, <2>1 DEF Tables
  <2> QED BY <1>1, <1>5, <2>1, <2>2, <2>3
<1>7. CASE Dispatch
  <2>1. /\ pc = "logged" /\ pc' = "dispatched"
        /\ current' = Append(current, [row |-> Pending, seed |-> stateChangeId])
        /\ UNCHANGED <<snapshots, broken, stateChangeId>>
    BY <1>7 DEF Dispatch
  <2>2. ASSUME MemoryExact PROVE MemoryExact'
    <3>1. /\ stateChangeId = Len(log) /\ Len(log) > 0
          /\ current = Applied(Len(log) - 1)
      BY <2>1, <2>2 DEF MemoryExact
    <3>2. current' = Append(Applied(Len(log) - 1), Entry(Len(log)))
      BY <2>1, <3>1 DEF Pending, Entry
    <3>3. current' = Applied(Len(log))
      BY <1>3, <3>1, <3>2, AppliedAppend
    <3>4. current' = [i \in 1 .. Len(log') |-> Entry(i)']
      BY <1>1, <3>3 DEF Applied, Entry
    <3> QED BY <1>1, <2>1, <3>1, <3>4 DEF MemoryExact, Applied
  <2>3. Tables'
    BY <1>1, <1>3, <2>1 DEF Tables
  <2> QED BY <1>1, <1>5, <2>1, <2>2, <2>3
<1>8. CASE Crash
  <2>1. pc' = "down" /\ UNCHANGED <<snapshots, broken>>
    BY <1>8 DEF Crash
  <2>2. MemoryExact'
    BY <2>1 DEF MemoryExact
  <2>3. Tables'
    BY <1>1, <1>3, <2>1 DEF Tables
  <2> QED BY <1>1, <1>5, <2>1, <2>2, <2>3
<1>9. CASE StartService \/ writeEvents \/ OnChannelEvent \/ UserChangesRoutes \/ Mine
             \/ UNCHANGED vars
  <2>1. /\ UNCHANGED <<snapshots, broken, current, stateChangeId>>
        /\ \/ pc' = pc
           \/ pc = "dispatched" /\ pc' = "recorded"
           \/ pc = "recorded" /\ pc' = "handled"
    BY <1>9 DEF StartService, writeEvents, OnChannelEvent, UserChangesRoutes, Mine, vars
  <2>2. ASSUME MemoryExact PROVE MemoryExact'
    BY <1>1, <2>1, <2>2 DEF MemoryExact, Applied, Entry
  <2>3. Tables'
    BY <1>1, <1>3, <2>1 DEF Tables
  <2> QED BY <1>1, <1>5, <2>1, <2>2, <2>3
<1> QED BY <1>1, <1>4, <1>6, <1>7, <1>8, <1>9 DEF Silent

\* Every step is one of the two.
LEMMA SilentOrWrites ==
  [Next]_vars => Silent \/ \E change : HandleStateChange(change)
BY DEF Next, Silent, InitializeNode, CallbackNewBlock, UserStateChange

\* The invariant holds in every state.
LEMMA LogCorrect == Spec => []LogInv
<1>1. Init => LogInv
  <2> SUFFICES ASSUME Init PROVE LogInv
    OBVIOUS
  <2>1. <<>> \in Seq({}) /\ Len(<<>>) = 0 /\ 1 .. 0 = {}
    OBVIOUS
  <2>2. IsSeq(<<>>)
    BY <2>1 DEF IsSeq
  <2> QED BY <2>1, <2>2 DEF Init, LogInv, Tables, SnapshotsExact, MemoryExact
<1>2. LogInv /\ [Next]_vars => LogInv'
  BY SilentOrWrites, SilentNext, WriteNext
<1> QED BY <1>1, <1>2, PTL DEF Spec

-----------------------------------------------------------------------------
(* The theorems.                                                           *)

\* What the last snapshot saw of the changes beside the log.
LastBeside == IF Len(snapshots) = 0 THEN {} ELSE snapshots[Len(snapshots)].beside

\* A change is told by the snapshots that were there when it was made: the last one
\* saw all that were made before it, and none later.
BesideExact ==
  /\ \A c \in LastBeside :
       c \in 0 .. Len(snapshots) /\ c < Len(snapshots)
  /\ pc # "down" =>
       /\ \A c \in beside : c \in 0 .. Len(snapshots)
       /\ LastBeside = {c \in beside : c < Len(snapshots)}

BesideInv == Intact => BesideExact

\* A restart reads the last snapshot.
LEMMA RestoresLast ==
  LogInv /\ Intact => RestoredBeside = LastBeside
<1> SUFFICES ASSUME LogInv, Intact PROVE RestoredBeside = LastBeside
  OBVIOUS
<1> DEFINE c == getSnapshotClosestToStateChange(Len(log))
           S == {i \in DOMAIN snapshots : snapshots[i].id <= Len(log)}
<1>1. /\ Len(log) \in Nat /\ Len(snapshots) \in Nat
      /\ DOMAIN snapshots = 1 .. Len(snapshots) /\ SnapshotsExact
  BY DEF LogInv, Tables, IsSeq
<1>2. S = 1 .. Len(snapshots)
  BY <1>1 DEF SnapshotsExact
<1>3. CASE Len(snapshots) = 0
  <2>1. S = {}
    BY <1>2, <1>3
  <2>2. c.beside = {}
    BY <2>1 DEF getSnapshotClosestToStateChange
  <2> QED BY <1>3, <2>2 DEF RestoredBeside, LastBeside
<1>4. CASE Len(snapshots) # 0
  <2>1. Max(S) = Len(snapshots)
    <3>1. Len(snapshots) \in S /\ \A y \in S : Len(snapshots) >= y /\ y \in Nat
      BY <1>1, <1>2, <1>4
    <3>2. \A x \in S : (\A y \in S : x >= y) => x = Len(snapshots)
      BY <1>1, <3>1
    <3> HIDE DEF S
    <3> QED BY <3>1, <3>2 DEF Max
  <2>2. S # {} /\ snapshots[Max(S)].ok
    <3>1. Len(snapshots) \in 1 .. Len(snapshots)
      BY <1>1, <1>4
    <3>2. snapshots[Len(snapshots)].ok
      BY <1>1, <3>1 DEF SnapshotsExact
    <3> QED BY <1>2, <2>1, <3>1, <3>2
  <2>3. c = snapshots[Max(S)]
    BY <2>2 DEF getSnapshotClosestToStateChange
  <2> QED BY <1>4, <2>1, <2>3 DEF RestoredBeside, LastBeside
<1> QED BY <1>3, <1>4

\* A change made now is seen by the next snapshot and not by the last one.
LEMMA BesideMore ==
  ASSUME BesideExact, pc # "down", pc' # "down", Len(snapshots) \in Nat,
         UNCHANGED snapshots,
         beside' = beside \/ beside' = beside \cup {Len(snapshots)}
  PROVE  BesideExact'
<1>1. LastBeside' = LastBeside
  BY DEF LastBeside
<1>2. ASSUME NEW c \in beside', c \notin beside PROVE c = Len(snapshots)
  BY <1>2
<1>3. beside \subseteq beside'
  OBVIOUS
<1>4. \A c \in beside' : c \in 0 .. Len(snapshots)
  BY <1>2 DEF BesideExact
<1>5. {c \in beside' : c < Len(snapshots)}
        = {c \in beside : c < Len(snapshots)}
  BY <1>2, <1>3
<1> QED BY <1>1, <1>4, <1>5 DEF BesideExact

\* Every step keeps this.
LEMMA BesideNext ==
  LogInv /\ LogInv' /\ BesideInv /\ [Next]_vars => BesideInv'
<1> SUFFICES ASSUME LogInv, LogInv', BesideInv, [Next]_vars, Intact'
             PROVE  BesideExact'
  BY DEF BesideInv
<1> USE DEF tables, memory, bounds
<1>1. Intact
  <2>1. CASE Silent
    BY <2>1, SilentNext DEF Intact
  <2>2. ASSUME NEW change, HandleStateChange(change) PROVE Intact
    BY <2>2, WriteNext DEF Intact
  <2> QED BY <2>1, <2>2, SilentOrWrites
<1>2. BesideExact
  BY <1>1 DEF BesideInv
<1>3. Len(snapshots) \in Nat /\ IsSeq(snapshots)
  BY DEF LogInv, Tables, IsSeq
<1>4. CASE TakeSnapshot
  <2>1. pc = "handled" /\ pc' = "idle" /\ beside' = beside
    BY <1>4 DEF TakeSnapshot
  <2>2. CASE UNCHANGED snapshots
    BY <1>2, <1>3, <2>1, <2>2, BesideMore
  <2>3. ASSUME NEW ok \in BOOLEAN, snapshots' = Append(snapshots, writeStateSnapshot(ok))
        PROVE  BesideExact'
    <3> DEFINE e == writeStateSnapshot(ok)
    <3>1. PICK S : snapshots \in Seq(S)
      BY <1>3 DEF IsSeq
    <3>2. snapshots \in Seq(S \cup {e}) /\ e \in S \cup {e}
      BY <3>1
    <3>3. e.beside = beside
      BY DEF writeStateSnapshot
    <3> HIDE DEF e
    <3>4. Len(snapshots') = Len(snapshots) + 1 /\ snapshots'[Len(snapshots) + 1] = e
      BY <2>3, <3>2, AppendProperties DEF e
    <3>5. LastBeside' = beside
      BY <1>3, <3>3, <3>4 DEF LastBeside
    <3>6. \A c \in beside : c < Len(snapshots')
      <4>1. ASSUME NEW c \in beside PROVE c < Len(snapshots')
        <5>1. c \in 0 .. Len(snapshots)
          BY <1>2, <2>1 DEF BesideExact
        <5> QED BY <1>3, <3>4, <5>1
      <4> QED BY <4>1
    <3>7. \A c \in beside : c \in 0 .. Len(snapshots')
      BY <1>2, <1>3, <2>1, <3>4 DEF BesideExact
    <3> QED BY <2>1, <3>5, <3>6, <3>7 DEF BesideExact
  <2> QED BY <1>4, <2>2, <2>3 DEF TakeSnapshot
<1>5. CASE Crash
  <2>1. pc' = "down" /\ UNCHANGED snapshots
    BY <1>5 DEF Crash
  <2> QED BY <1>2, <2>1 DEF BesideExact, LastBeside
<1>6. CASE initDB
  <2>1. pc' = "idle" /\ beside' = RestoredBeside /\ UNCHANGED snapshots
    BY <1>6 DEF initDB
  <2>2. beside' = LastBeside
    BY <1>1, <2>1, RestoresLast
  <2> QED BY <1>2, <1>3, <2>1, <2>2 DEF BesideExact, LastBeside
<1>7. ASSUME \/ StartService \/ OnChannelEvent \/ UserChangesRoutes
             \/ Dispatch \/ writeEvents \/ \E change : HandleStateChange(change)
      PROVE  BesideExact'
  <2>1. UNCHANGED snapshots
    BY <1>7 DEF StartService, OnChannelEvent, UserChangesRoutes, Dispatch, writeEvents,
                HandleStateChange
  <2>2. beside' = beside \/ beside' = beside \cup {Len(snapshots)}
    BY <1>7 DEF StartService, OnChannelEvent, UserChangesRoutes, Dispatch, writeEvents,
                HandleStateChange, ChangeBeside
  <2>3. pc # "down" /\ pc' # "down"
    BY <1>7 DEF StartService, OnChannelEvent, UserChangesRoutes, Dispatch, writeEvents,
                HandleStateChange
  <2> QED BY ONLY <1>2, <1>3, <2>1, <2>2, <2>3, BesideMore
<1>8. CASE Mine \/ UNCHANGED vars
  <2>1. UNCHANGED <<snapshots, beside, pc>>
    BY <1>8 DEF Mine, vars
  <2> QED BY <1>2, <2>1 DEF BesideExact, LastBeside
<1> QED BY <1>4, <1>5, <1>6, <1>7, <1>8, SilentOrWrites DEF Silent

\* MemoryIsDurable: RestoreToLatest is the state in memory together with the
\* state change being handled, wherever HandleStateChange was killed and
\* whichever snapshot it starts from; and of what was changed beside the log,
\* exactly that comes back which the last snapshot saw.
THEOREM DurableMemory == Spec => []MemoryIsDurable
<1>1. LogInv /\ Intact /\ pc # "down" => LoggedIsDurable
  <2> SUFFICES ASSUME LogInv, Intact, pc # "down"
               PROVE  RestoreToLatest =
                        IF pc = "logged"
                        THEN Append(current, [row |-> Pending, seed |-> stateChangeId])
                        ELSE current
    BY DEF LoggedIsDurable
  <2>1. RestoreToLatest = Applied(Len(log)) /\ MemoryExact
    BY RestoresAll DEF LogInv
  <2>2. CASE pc = "logged"
    <3>1. /\ stateChangeId = Len(log) /\ Len(log) > 0
          /\ current = Applied(Len(log) - 1)
      BY <2>1, <2>2 DEF MemoryExact
    <3>2. Len(log) \in Nat
      BY DEF LogInv, Tables, IsSeq
    <3>3. Append(current, Entry(Len(log))) = Applied(Len(log))
      BY <3>1, <3>2, AppliedAppend
    <3> QED BY <2>1, <2>2, <3>1, <3>3 DEF Pending, Entry
  <2>3. CASE pc # "logged"
    BY <2>1, <2>3 DEF MemoryExact
  <2> QED BY <2>2, <2>3
<1>2. LogInv /\ BesideInv /\ Intact /\ pc # "down" => BesideUntilSnapshot
  BY RestoresLast DEF BesideInv, BesideExact, BesideUntilSnapshot
<1>3. LogInv /\ BesideInv => MemoryIsDurable
  BY <1>1, <1>2 DEF MemoryIsDurable
<1>4. Init => BesideInv
  BY DEF Init, BesideInv, BesideExact, LastBeside
<1> QED BY <1>3, <1>4, BesideNext, LogCorrect, PTL DEF Spec

\* ImplementsDurable: every step of the node, crashes and starts included,
\* leaves the state a restart brings back as it is or adds one state change, and
\* what is sent comes from that state.
THEOREM DurableRefinement == Spec => ImplementsDurable
<1>1. Init => Durable!Init
  <2> SUFFICES ASSUME Init PROVE Durable!Init
    OBVIOUS
  <2>1. LogInv /\ Intact /\ Len(log) = 0
    <3>1. <<>> \in Seq({}) /\ Len(<<>>) = 0 /\ 1 .. 0 = {}
      OBVIOUS
    <3>2. IsSeq(<<>>)
      BY <3>1 DEF IsSeq
    <3> QED BY <3>1, <3>2 DEF Init, Intact, LogInv, Tables, SnapshotsExact, MemoryExact
  <2>2. RestoreToLatest = Applied(0)
    BY <2>1, RestoresAll
  <2>3. Applied(0) = <<>>
    BY DEF Applied
  <2> QED BY <2>1, <2>2, <2>3 DEF Init, Durable!Init
<1>2. LogInv /\ LogInv' /\ [Next]_vars => [Durable!Next]_<<RestoreToLatest, sent, Intact>>
  <2> SUFFICES ASSUME LogInv, LogInv', [Next]_vars
               PROVE  Durable!Next \/ UNCHANGED <<RestoreToLatest, sent, Intact>>
    OBVIOUS
  <2>0. (LogInv /\ Intact => RestoreToLatest = Applied(Len(log)))'
    BY RestoresAll, PTL
  <2>1. CASE ~Intact'
    BY <2>1 DEF Durable!Next, Durable!Break
  <2>2. CASE Intact' /\ Silent
    <3>1. Intact /\ log' = log
      BY <2>2, SilentNext DEF Intact
    <3>2. /\ RestoreToLatest = Applied(Len(log))
          /\ RestoreToLatest' = [i \in 1 .. Len(log') |-> Entry(i)']
      BY <2>0, <2>2, <3>1, RestoresAll DEF Applied
    <3>3. RestoreToLatest' = RestoreToLatest
      BY <3>1, <3>2 DEF Applied, Entry
    <3>4. sent \subseteq sent' /\ sent' \subseteq sent \cup Range(RestoreToLatest)
      <4>1. CASE OnChannelEvent
        <5>1. /\ sent' = sent
                 \/ sent' = sent \cup {[row |-> Pending, seed |-> stateChangeId]}
              /\ stateChangeId = Len(log) /\ Len(log) > 0
          BY <3>1, <4>1 DEF OnChannelEvent, LogInv, MemoryExact
        <5>2. Len(log) \in Nat
          BY DEF LogInv, Tables, IsSeq
        <5>3. Entry(Len(log)) \in Range(Applied(Len(log)))
          BY <5>1, <5>2 DEF Range, Applied
        <5> QED BY <3>2, <5>1, <5>3 DEF Pending, Entry
      <4>2. CASE StartService
        <5>1. sent' = sent \cup Messages(current) /\ current = Applied(Len(log))
          BY <3>1, <4>2 DEF StartService, LogInv, MemoryExact
        <5> QED BY <3>2, <5>1 DEF Messages
      <4>3. CASE initDB \/ Dispatch \/ writeEvents \/ UserChangesRoutes \/ TakeSnapshot
                   \/ Crash \/ Mine \/ UNCHANGED vars
        <5>1. sent' = sent
          BY <4>3 DEF initDB, Dispatch, writeEvents, UserChangesRoutes, TakeSnapshot,
                      Crash, Mine, vars
        <5> QED BY <5>1
      <4> QED BY <2>2, <4>1, <4>2, <4>3 DEF Silent
    <3>5. Intact' = Intact
      BY <2>2, <3>1 DEF Intact
    <3>6. UNCHANGED <<RestoreToLatest, Intact>>
      BY <3>3, <3>5
    <3>7. Durable!Emit
      BY <3>4, <3>6 DEF Durable!Emit, Durable!Range, Range
    <3> QED BY <3>7, Zenon DEF Durable!Next
  <2>3. ASSUME Intact', NEW change, HandleStateChange(change)
        PROVE  Durable!Change
    <3>1. /\ Intact /\ Len(log) \in Nat /\ Len(log') = Len(log) + 1
          /\ \A n \in 0 .. Len(log) : Applied(n)' = Applied(n)
      BY <2>3, WriteNext DEF Intact
    <3>2. /\ RestoreToLatest = Applied(Len(log))
          /\ RestoreToLatest' = [i \in 1 .. Len(log') |-> Entry(i)']
      BY <2>0, <2>3, <3>1, RestoresAll DEF Applied
    <3> DEFINE n == Len(log)
               s == RestoreToLatest
               t == RestoreToLatest'
    <3>3. s \in Seq(Entries) /\ Len(s) = n
      BY <3>1, <3>2, AppliedSeq
    <3>4. \A i \in 1 .. n : Entry(i)' = s[i]
      <4>1. [i \in 1 .. n |-> Entry(i)'] = s
        <5>1. n \in 0 .. n
          BY <3>1
        <5>2. \A k \in 0 .. n : [i \in 1 .. k |-> Entry(i)'] = Applied(k)
          BY <3>1 DEF Applied
        <5> QED BY <3>2, <5>1, <5>2
      <4> QED BY <4>1
    <3>5. /\ Len(t) = n + 1 /\ \A i \in 1 .. n : t[i] = s[i]
          /\ t[n + 1].seed = n + 1
      <4>1. n + 1 \in Nat /\ n + 1 \in 1 .. n + 1 /\ \A i \in 1 .. n : i \in 1 .. n + 1
        BY <3>1
      <4>2. t \in Seq({Entry(i)' : i \in 1 .. n + 1}) /\ Len(t) = n + 1
        <5>1. t \in [1 .. n + 1 -> {Entry(i)' : i \in 1 .. n + 1}]
          BY <3>1, <3>2
        <5> QED BY <4>1, <5>1
      <4>3. \A i \in 1 .. n + 1 : t[i] = Entry(i)'
        BY <3>1, <3>2
      <4>4. \A i \in 1 .. n + 1 : t[i].seed = i
        <5>1. \A i : Entry(i)'.seed = i
          BY DEF Entry
        <5> QED BY <4>3, <5>1
      <4>5. \A i \in 1 .. n : t[i] = s[i]
        BY <3>4, <4>1, <4>3
      <4> HIDE DEF n, s, t
      <4> QED BY <4>1, <4>2, <4>4, <4>5
    <3>6. SubSeq(t, 1, n) = s
      <4>1. \A i \in 1 .. n : t[i] \in Entries
        BY <3>3, <3>5
      <4>2. /\ SubSeq(t, 1, n) \in Seq(Entries)
            /\ Len(SubSeq(t, 1, n)) = IF 1 <= n THEN n - 1 + 1 ELSE 0
            /\ \A i \in 1 .. n - 1 + 1 : SubSeq(t, 1, n)[i] = t[1 + i - 1]
        BY <3>1, <4>1, SubSeqProperties
      <4>3. Len(SubSeq(t, 1, n)) = n
        BY <3>1, <4>2
      <4>4. \A i \in 1 .. n : SubSeq(t, 1, n)[i] = s[i]
        BY <3>1, <3>5, <4>2
      <4> QED BY <3>3, <4>2, <4>3, <4>4, SeqEqual
    <3>7. sent' = sent /\ Intact' = Intact
      BY <2>3, <3>1 DEF HandleStateChange, Intact
    <3>8. t # <<>> /\ Len(t) - 1 = n
      <4>1. Len(t) # 0 /\ Len(t) - 1 = n
        BY <3>1, <3>5
      <4> HIDE DEF t
      <4> QED BY <4>1, EmptySeq
    <3>9. t[Len(t)].seed = Len(t)
      BY <3>5
    <3> HIDE DEF n
    <3> QED BY <3>6, <3>7, <3>8, <3>9 DEF Durable!Change
  <2> QED BY <2>1, <2>2, <2>3, SilentOrWrites DEF Durable!Next
<1> QED BY <1>1, <1>2, LogCorrect, PTL DEF Spec, ImplementsDurable, Durable!Spec
-----------------------------------------------------------------------------
(* The state in which a balance proof was made.                            *)

\* Positions have a last one.
LEMMA LastPosition ==
  ASSUME NEW n \in Nat, NEW S \in SUBSET (1 .. n), S # {}
  PROVE  Max(S) \in S
<1> DEFINE above(k) == k + 1 .. n
           T == {above(k) : k \in S}
<1>1. IsWellFoundedOn(StrictSubsetOrdering(1 .. n), SUBSET (1 .. n))
  <2>1. IsFiniteSet(1 .. n)
    BY FS_Interval
  <2> QED BY <2>1, FS_StrictSubsetOrderingWellFounded, FS_FiniteSubsetsOfFinite
<1>2. T \subseteq SUBSET (1 .. n) /\ \E x : x \in T
  <2>1. \A k \in S : above(k) \in SUBSET (1 .. n)
    OBVIOUS
  <2> HIDE DEF above
  <2> QED BY <2>1
<1>3. \E x \in T : \A y \in T : ~(<<y, x>> \in StrictSubsetOrdering(1 .. n))
  <2> HIDE DEF T
  <2> QED BY <1>1, <1>2, WFMin
<1>4. PICK m \in S :
        \A y \in T : ~(<<y, above(m)>> \in StrictSubsetOrdering(1 .. n))
  BY <1>3
<1>5. ASSUME NEW k \in S, ~(m >= k)
      PROVE  FALSE
  <2>1. above(k) \in T
    OBVIOUS
  <2>2. above(k) \subseteq above(m) /\ k \in above(m) /\ k \notin above(k)
    BY <1>5
  <2>3. <<above(k), above(m)>> \in StrictSubsetOrdering(1 .. n)
    BY <2>2 DEF StrictSubsetOrdering
  <2> QED BY <1>4, <2>1, <2>3
<1> QED BY <1>5 DEF Max

\* The snapshot a rebuilding starts from is what the rows up to its own make.
LEMMA ClosestSnapshot ==
  ASSUME LogInv, Intact, NEW id \in 1 .. Len(log)
  PROVE  LET c == getSnapshotClosestToStateChange(id)
         IN c.id \in 0 .. id /\ c.state = Applied(c.id)
<1> DEFINE S == {i \in DOMAIN snapshots : snapshots[i].id <= id}
           c == getSnapshotClosestToStateChange(id)
<1>1. /\ Len(log) \in Nat /\ Len(snapshots) \in Nat
      /\ DOMAIN snapshots = 1 .. Len(snapshots)
  BY DEF LogInv, Tables, IsSeq
<1>2. SnapshotsExact
  BY DEF LogInv
<1>3. CASE S = {}
  <2>1. c.id = 0 /\ c.state = <<>>
    BY <1>3 DEF getSnapshotClosestToStateChange
  <2>2. Applied(0) = <<>>
    BY DEF Applied
  <2> QED BY <1>1, <2>1, <2>2
<1>4. CASE S # {}
  <2>1. Max(S) \in S
    BY <1>1, <1>4, LastPosition
  <2>2. Max(S) \in 1 .. Len(snapshots) /\ snapshots[Max(S)].id <= id
    BY <1>1, <2>1
  <2>3. /\ snapshots[Max(S)].ok /\ snapshots[Max(S)].id \in 0 .. Len(log)
        /\ snapshots[Max(S)].state = Applied(snapshots[Max(S)].id)
    BY <1>2, <2>2 DEF SnapshotsExact
  <2>4. c = snapshots[Max(S)]
    BY <1>4, <2>3 DEF getSnapshotClosestToStateChange
  <2>5. snapshots[Max(S)].id \in 0 .. id
    BY <1>1, <2>2, <2>3
  <2> QED BY <2>3, <2>4, <2>5
<1> QED BY <1>3, <1>4

\* RebuildsPast: whichever row a balance proof is found in, and whatever
\* snapshots there are, RestoreToStateChange applies the rows up to that one, in
\* order, and none but the row of the snapshot twice.
THEOREM PastRebuilt == Spec => []RebuildsPast
<1>1. LogInv => RebuildsPast
  <2> DEFINE Past(from, to) == [i \in 1 .. to - from + 1 |-> log[from + i - 1].data]
             rows(s) == [i \in DOMAIN s |-> s[i].row]
  <2> SUFFICES ASSUME LogInv, Intact, NEW id \in Found
               PROVE  \/ rows(RestoreToStateChange(id)) = Past(1, id)
                      \/ \E k \in 1 .. id :
                           rows(RestoreToStateChange(id)) = Past(1, k) \o Past(k, id)
    BY DEF RebuildsPast
  <2> DEFINE c == getSnapshotClosestToStateChange(id)
             k == c.id
             from == IF k = 0 THEN 1 ELSE k
             ids == [i \in 1 .. id - from + 1 |-> from + i - 1]
             after == [i \in 1 .. id - from + 1 |->
                         [row |-> log[from + i - 1].data, seed |-> k + i]]
  <2>1. Len(log) \in Nat /\ DOMAIN log = 1 .. Len(log)
    BY DEF LogInv, Tables, IsSeq
  <2>2. id \in 1 .. Len(log)
    BY <2>1 DEF Found, GetStateChangeWithBalanceProofByLocksroot,
                GetEventWithBalanceProofByLocksroot
  <2>3. k \in 0 .. id /\ c.state = Applied(k)
    BY <2>2, ClosestSnapshot
  <2>4. RestoreToStateChange(id) = Applied(k) \o after
    <3>1. from \in 1 .. id
      BY <2>2, <2>3
    <3>2. \A i \in 1 .. id - from + 1 : from + i - 1 \in 1 .. Len(log)
      BY <2>1, <2>2, <3>1
    <3>3. \A i \in DOMAIN ids : log[ids[i]].ok
      BY <3>2 DEF LogInv, SnapshotsExact
    <3>4. getStateChangesById(from, id) = ids
      BY <3>3 DEF getStateChangesById, Readable
    <3>5. Replay(k, ids) = after
      BY DEF Replay
    <3> HIDE DEF k, ids, after
    <3>6. RestoreToStateChange(id) = c.state \o Replay(k, getStateChangesById(from, id))
      BY DEF RestoreToStateChange, k
    <3> QED BY <2>3, <3>4, <3>5, <3>6
  <2>5. \A m \in 0 .. id : /\ Applied(m) \in Seq(Entries) /\ Len(Applied(m)) = m
                           /\ \A i \in 1 .. m : Applied(m)[i] = Entry(i)
    BY <2>1, <2>2, AppliedSeq
  <2>6. CASE k = 0
    <3>1. Applied(k) = <<>> /\ from = 1
      BY <2>6 DEF Applied
    <3>2. after \in Seq({after[i] : i \in 1 .. id - from + 1})
      <4>1. id - from + 1 \in Nat
        BY <2>2, <3>1
      <4>2. after \in [1 .. id - from + 1 -> {after[i] : i \in 1 .. id - from + 1}]
        OBVIOUS
      <4> HIDE DEF after, from
      <4> QED BY <4>1, <4>2
    <3>3. <<>> \o after = after
      <4> HIDE DEF after
      <4> QED BY <3>2, ConcatEmptySeq
    <3>4. RestoreToStateChange(id) = after
      BY <2>4, <3>1, <3>3
    <3>5. rows(after) = Past(from, id)
      OBVIOUS
    <3> QED BY <3>1, <3>4, <3>5
  <2>7. CASE k # 0
    <3>1. k \in 1 .. id /\ from = k
      BY <2>3, <2>7
    <3> DEFINE n == id - k + 1
               past == Past(1, k)
               again == Past(k, id)
               all == {log[i].data : i \in 1 .. id}
    <3>2. n \in Nat /\ \A i \in 1 .. n : k + i - 1 \in 1 .. id
      BY <2>2, <3>1
    <3>3. past \in Seq(all) /\ Len(past) = k /\ \A i \in 1 .. k : past[i] = log[i].data
      <4>1. past = [i \in 1 .. k |-> log[i].data]
        BY <3>1
      <4>2. \A i \in 1 .. k : i \in 1 .. id
        BY <2>2, <3>1
      <4>3. past \in [1 .. k -> all] /\ k \in Nat
        <5> HIDE DEF k
        <5> QED BY <3>1, <4>1, <4>2
      <4> HIDE DEF past, k, all
      <4> QED BY <4>1, <4>3
    <3>4. again \in Seq(all) /\ Len(again) = n
          /\ \A i \in 1 .. n : again[i] = log[k + i - 1].data
      <4>1. again = [i \in 1 .. n |-> log[k + i - 1].data]
        OBVIOUS
      <4>2. again \in [1 .. n -> all]
        BY <3>2, <4>1
      <4> HIDE DEF again, n, k, all
      <4> QED BY <3>2, <4>1, <4>2
    <3>5. /\ past \o again \in Seq(all) /\ Len(past \o again) = k + n
          /\ \A i \in 1 .. k + n :
               (past \o again)[i] = IF i <= k THEN past[i] ELSE again[i - k]
      <4> HIDE DEF past, again, n, k, all
      <4>1. /\ past \o again \in Seq(all)
            /\ Len(past \o again) = Len(past) + Len(again)
            /\ \A i \in 1 .. Len(past) + Len(again) :
                 (past \o again)[i]
                   = IF i <= Len(past) THEN past[i] ELSE again[i - Len(past)]
        BY <3>3, <3>4, ConcatProperties, ZenonT(40)
      <4> QED BY <3>3, <3>4, <4>1, Zenon
    <3> DEFINE every == Entries \cup {after[i] : i \in 1 .. n}
               whole == Applied(k) \o after
    <3>6. after \in Seq(every) /\ Len(after) = n
          /\ \A i \in 1 .. n : after[i].row = log[k + i - 1].data
      <4>1. after = [i \in 1 .. n |-> [row |-> log[k + i - 1].data, seed |-> k + i]]
        BY <3>1
      <4>2. after \in [1 .. n -> every]
        BY <4>1
      <4> HIDE DEF after, n, k, every
      <4> QED BY <3>2, <4>1, <4>2
    <3>7. /\ Applied(k) \in Seq(every) /\ Len(Applied(k)) = k
          /\ \A i \in 1 .. k : Applied(k)[i].row = log[i].data
      <4>1. /\ Applied(k) \in Seq(Entries) /\ Len(Applied(k)) = k
            /\ \A i \in 1 .. k : Applied(k)[i] = Entry(i)
        BY <2>3, <2>5
      <4> HIDE DEF k, n, after
      <4> QED BY <4>1 DEF Entry
    <3>8. /\ whole \in Seq(every) /\ Len(whole) = k + n
          /\ \A i \in 1 .. k + n :
               whole[i] = IF i <= k THEN Applied(k)[i] ELSE after[i - k]
      <4>1. k \in Nat /\ n \in Nat
        BY <3>1, <3>2
      <4> DEFINE first == Applied(k)
      <4> HIDE DEF after, n, k, every, first
      <4>2. first \in Seq(every) /\ Len(first) = k
        BY <3>7 DEF first
      <4>3. /\ first \o after \in Seq(every) /\ Len(first \o after) = k + n
            /\ \A i \in 1 .. k + n :
                 (first \o after)[i] = IF i <= k THEN first[i] ELSE after[i - k]
        BY <3>6, <4>1, <4>2, ConcatProperties
      <4> QED BY <4>3 DEF first
    <3>9. DOMAIN whole = 1 .. k + n /\ DOMAIN (past \o again) = 1 .. k + n
      <4> HIDE DEF whole, past, again, k, n, every, all
      <4> QED BY <3>5, <3>8
    <3>10. ASSUME NEW i \in 1 .. k + n PROVE whole[i].row = (past \o again)[i]
      <4>1. k \in Nat /\ n \in Nat
        BY <3>1, <3>2
      <4> HIDE DEF whole, past, again, k, n, every, all, after
      <4>2. CASE i <= k
        <5>1. i \in 1 .. k
          BY <4>1, <4>2
        <5> QED BY <3>3, <3>5, <3>7, <3>8, <4>2, <5>1
      <4>3. CASE ~(i <= k)
        <5>1. i - k \in 1 .. n
          BY <4>1, <4>3
        <5>2. whole[i] = after[i - k] /\ (past \o again)[i] = again[i - k]
          BY <3>5, <3>8, <4>3
        <5> QED BY <3>4, <3>6, <5>1, <5>2
      <4> QED BY <4>2, <4>3
    <3>11. rows(whole) = past \o again
      <4>1. past \o again = [i \in 1 .. k + n |-> (past \o again)[i]]
        <5> DEFINE both == past \o again
        <5>1. both \in Seq(all) /\ Len(both) = k + n
          BY <3>5
        <5> HIDE DEF both, k, n, all
        <5>2. both = [i \in 1 .. k + n |-> both[i]]
          BY <5>1
        <5> QED BY <5>2 DEF both
      <4> HIDE DEF whole, past, again, k, n, every, all, after
      <4> QED BY <3>9, <3>10, <4>1
    <3> HIDE DEF Past, rows, k, after
    <3> QED BY <2>4, <3>1, <3>11
  <2> QED BY <2>6, <2>7
<1> QED BY <1>1, LogCorrect, PTL
-----------------------------------------------------------------------------
(* The events of the blocks.                                               *)

\* The rows that hold event i of block b.
Rows(b, i) == {k \in 1 .. Len(log) : log[k].data = EventRow(b, i)}

\* The last block among the first n rows.
BlocksUntil(n) == {k \in 1 .. n : log[k].data.kind = "Block"}
Height(n) == IF BlocksUntil(n) = {} THEN 0 ELSE log[Max(BlocksUntil(n))].data.block
Top == Height(Len(log))
Before == Height(Len(log) - 1)

Busy == pc \in {"logged", "dispatched", "recorded", "handled"}
LastRow == log[Len(log)].data

\* How many events of the block after Top the process has written.
Written ==
  CASE Busy /\ LastRow.kind = "event" -> handled + 1
    [] Busy /\ LastRow.kind = "Block" -> 0
    [] OTHER -> handled

\* Counters and the chain; a node that is down has neither a state nor a count.
Numbers ==
  /\ chain \in Seq(0 .. 1) /\ crashes \in Nat /\ handled \in Nat
  /\ pc = "down" => handled = 0 /\ current = <<>>

\* A new node writes its first three rows and nothing else.
FirstRows ==
  phase = "initDB" /\ pc # "down" =>
    /\ Len(log) <= IF pc = "idle" THEN 2 ELSE 3
    /\ Len(log) = 3 => LastRow = InitRows[3]

\* Rows hold events of blocks up to the one after Top, and no others.
EventsOfBlocks ==
  /\ Top \in 0 .. Len(chain)
  /\ \A b, i : Rows(b, i) # {} => b \in 1 .. Len(chain) /\ b <= Top + 1 /\ i \in 1 .. chain[b]

\* A block comes after all of its events.
BlocksComplete == \A b \in 1 .. Top : \A i \in 1 .. chain[b] : Rows(b, i) # {}

\* An event is written once, and once more after a crash.
EventsCounted ==
  /\ \A b \in 1 .. Top : \A i \in 1 .. 1 : Cardinality(Rows(b, i)) <= 1 + crashes
  /\ \A i \in 1 .. 1 : Cardinality(Rows(Top + 1, i)) <= crashes + IF i <= Written THEN 1 ELSE 0

\* Where the callback stands is what the rows say.
CallbackInStep ==
  /\ Written > 0 => Top + 1 \in 1 .. Len(chain) /\ Written <= chain[Top + 1]
  /\ \A i \in 1 .. Written : Rows(Top + 1, i) # {}
  /\ pc # "down" => lastFilterBlock = IF Busy /\ LastRow.kind = "Block" THEN Top - 1 ELSE Top
  /\ Busy /\ LastRow.kind = "Block" => LastRow.block = Top /\ Before = Top - 1 /\ Top > 0
  /\ Busy /\ LastRow.kind = "event" => LastRow = EventRow(Top + 1, handled + 1)

BlocksInv ==
  /\ Numbers
  /\ Intact => FirstRows /\ EventsOfBlocks /\ BlocksComplete /\ EventsCounted /\ CallbackInStep

\* The height of a state is that of the rows it is made of.
LEMMA HeightIs ==
  ASSUME Len(log) \in Nat, NEW n \in 0 .. Len(log)
  PROVE  BlockHeight(Applied(n)) = Height(n)
<1> DEFINE s == Applied(n)
           B == {i \in DOMAIN s : s[i].row.kind = "Block"}
<1>1. DOMAIN s = 1 .. n /\ \A i \in 1 .. n : s[i].row = log[i].data
  BY DEF Applied, Entry
<1> HIDE DEF s
<1>2. B = BlocksUntil(n)
  BY <1>1 DEF BlocksUntil
<1>3. BlockHeight(s) = IF B = {} THEN 0 ELSE s[Max(B)].row.block
  BY DEF BlockHeight
<1>4. CASE B = {}
  BY <1>2, <1>3, <1>4 DEF s, Height
<1>5. CASE B # {}
  <2>1. Max(B) \in B
    <3>1. B \in SUBSET (1 .. n) /\ n \in Nat
      BY <1>1
    <3> HIDE DEF B
    <3> QED BY <1>5, <3>1, LastPosition
  <2>2. s[Max(B)].row = log[Max(B)].data
    BY <1>1, <2>1
  <2> QED BY <1>2, <1>3, <1>5, <2>2 DEF s, Height
<1> QED BY <1>4, <1>5

\* What one row more changes: the height if it is a block, the rows of an event
\* if it is that event.
LEMMA RowMore ==
  ASSUME IsSeq(log), NEW x, log' = Append(log, x)
  PROVE  /\ Len(log) \in Nat /\ Len(log') = Len(log) + 1 /\ LastRow' = x.data
         /\ Top' = IF x.data.kind = "Block" THEN x.data.block ELSE Top
         /\ Before' = Top
         /\ \A b, i : Rows(b, i)' = IF x.data = EventRow(b, i)
                                    THEN Rows(b, i) \cup {Len(log) + 1} ELSE Rows(b, i)
<1> DEFINE n == Len(log)
<1>1. /\ n \in Nat /\ Len(log') = n + 1
      /\ \A k \in 1 .. n : log'[k] = log[k]
      /\ log'[n + 1] = x
  BY AppliedKept
<1>2. \A k : k \in 1 .. n + 1 <=> k \in 1 .. n \/ k = n + 1
  BY <1>1
<1>3. n + 1 \notin 1 .. n
  BY <1>1
<1> HIDE DEF n
<1>4. LastRow' = x.data
  BY <1>1 DEF LastRow
<1>5. \A b, i : Rows(b, i)' = IF x.data = EventRow(b, i)
                               THEN Rows(b, i) \cup {n + 1} ELSE Rows(b, i)
  <2> SUFFICES ASSUME NEW b, NEW i
               PROVE  Rows(b, i)' = IF x.data = EventRow(b, i)
                                    THEN Rows(b, i) \cup {n + 1} ELSE Rows(b, i)
    OBVIOUS
  <2>1. Rows(b, i)' = {k \in 1 .. n + 1 : log'[k].data = EventRow(b, i)}
    BY <1>1 DEF Rows, EventRow
  <2>2. Rows(b, i) = {k \in 1 .. n : log[k].data = EventRow(b, i)}
    BY DEF Rows, n
  <2> HIDE DEF Rows
  <2> QED BY <1>1, <1>2, <1>3, <2>1, <2>2
<1> DEFINE B == BlocksUntil(n)
           C == {k \in 1 .. n + 1 : log'[k].data.kind = "Block"}
<1>6. C = IF x.data.kind = "Block" THEN B \cup {n + 1} ELSE B
  <2>1. B = {k \in 1 .. n : log[k].data.kind = "Block"}
    BY DEF BlocksUntil
  <2> HIDE DEF B
  <2> QED BY <1>1, <1>2, <1>3, <2>1
<1>7. BlocksUntil(Len(log))' = C
  BY <1>1 DEF BlocksUntil
<1>8. Top' = IF C = {} THEN 0 ELSE log'[Max(C)].data.block
  BY <1>7 DEF Top, Height
<1>9. Top = IF B = {} THEN 0 ELSE log[Max(B)].data.block
  BY DEF Top, Height, n
<1>10. B \in SUBSET (1 .. n)
  BY DEF BlocksUntil
<1>11. ASSUME x.data.kind = "Block" PROVE Top' = x.data.block
  <2>1. C = B \cup {n + 1}
    BY <1>6, <1>11
  <2>2. n + 1 \in C /\ \A y \in C : n + 1 >= y /\ (y >= n + 1 => y = n + 1)
    BY <1>1, <1>10, <2>1
  <2> HIDE DEF B, C
  <2>4. Max(C) \in C /\ Max(C) >= n + 1
    BY <2>2 DEF Max
  <2>5. Max(C) = n + 1
    BY <2>2, <2>4
  <2> QED BY <1>1, <1>8, <1>11, <2>2, <2>5
<1>12. ASSUME x.data.kind # "Block" PROVE Top' = Top
  <2>1. C = B
    BY <1>6, <1>12
  <2>2. CASE B = {}
    BY <1>8, <1>9, <2>1, <2>2
  <2>3. CASE B # {}
    <3>1. Max(B) \in B
      BY <1>1, <1>10, <2>3, LastPosition
    <3>2. log'[Max(B)] = log[Max(B)]
      BY <1>1, <1>10, <3>1
    <3> QED BY <1>8, <1>9, <2>1, <2>3, <3>2
  <2> QED BY <2>2, <2>3
<1>13. Before' = Top
  <2>1. BlocksUntil(Len(log) - 1)' = {k \in 1 .. n : log'[k].data.kind = "Block"}
    BY <1>1 DEF BlocksUntil
  <2>2. BlocksUntil(Len(log) - 1)' = B
    BY <1>1, <2>1 DEF BlocksUntil
  <2>3. Before' = IF B = {} THEN 0 ELSE log'[Max(B)].data.block
    BY <2>2 DEF Before, Height
  <2>4. CASE B = {}
    BY <1>9, <2>3, <2>4
  <2>5. CASE B # {}
    <3>1. Max(B) \in B
      BY <1>1, <1>10, <2>5, LastPosition
    <3>2. log'[Max(B)] = log[Max(B)]
      BY <1>1, <1>10, <3>1
    <3> QED BY <1>9, <2>3, <2>5, <3>2
  <2> QED BY <2>4, <2>5
<1> QED BY <1>1, <1>4, <1>5, <1>11, <1>12, <1>13 DEF n

\* Rows are counted.
LEMMA RowsFinite ==
  ASSUME Len(log) \in Nat, NEW b, NEW i
  PROVE  /\ IsFiniteSet(Rows(b, i)) /\ Cardinality(Rows(b, i)) \in Nat
         /\ Rows(b, i) = {} => Cardinality(Rows(b, i)) = 0
         /\ Cardinality(Rows(b, i) \cup {Len(log) + 1}) = Cardinality(Rows(b, i)) + 1
<1>1. IsFiniteSet(1 .. Len(log))
  BY FS_Interval
<1>2. Rows(b, i) \subseteq 1 .. Len(log) /\ Len(log) + 1 \notin Rows(b, i)
  BY DEF Rows
<1>3. IsFiniteSet(Rows(b, i))
  BY <1>1, <1>2, FS_Subset
<1> HIDE DEF Rows
<1> QED BY <1>2, <1>3, FS_CardinalityType, FS_EmptySet, FS_AddElement

\* Steps that write no row leave what the rows say.
LEMMA RowsKept ==
  ASSUME log' = log
  PROVE  /\ Top' = Top /\ Before' = Before /\ LastRow' = LastRow
         /\ \A b, i : Rows(b, i)' = Rows(b, i)
BY DEF Top, Before, Height, BlocksUntil, LastRow, Rows, EventRow

\* They keep the invariant if they keep count of what was written.
LEMMA CountKept ==
  ASSUME BlocksInv, Intact, log' = log, UNCHANGED <<chain, crashes>>, Written' = Written,
         Numbers', FirstRows', pc' # "down",
         lastFilterBlock' = IF Busy' /\ LastRow.kind = "Block" THEN Top - 1 ELSE Top,
         Busy' /\ LastRow.kind \in {"Block", "event"} => Busy /\ handled' = handled
  PROVE  BlocksInv'
<1>1. /\ Top' = Top /\ Before' = Before /\ LastRow' = LastRow
      /\ \A b, i : Rows(b, i)' = Rows(b, i)
  BY RowsKept
<1>2. EventsOfBlocks /\ BlocksComplete /\ EventsCounted /\ CallbackInStep
  BY DEF BlocksInv
<1>3. EventsOfBlocks'
  BY <1>1, <1>2 DEF EventsOfBlocks
<1>4. BlocksComplete'
  BY <1>1, <1>2 DEF BlocksComplete
<1>5. EventsCounted'
  BY <1>1, <1>2 DEF EventsCounted
<1>6. CallbackInStep'
  BY <1>1, <1>2 DEF CallbackInStep, EventRow
<1> QED BY <1>3, <1>4, <1>5, <1>6 DEF BlocksInv

\* What the handler makes of a state change it is done with.
LEMMA BlocksSnapshot ==
  ASSUME LogInv, BlocksInv, Intact, TakeSnapshot
  PROVE  BlocksInv'
<1>1. log' = log /\ UNCHANGED <<chain, crashes>>
  BY DEF TakeSnapshot
<1>2. /\ pc = "handled" /\ pc' = "idle" /\ Busy /\ ~Busy'
  BY DEF TakeSnapshot, Busy
<1>3. Pending = LastRow /\ Len(log) \in Nat
  BY <1>2 DEF LogInv, MemoryExact, Pending, LastRow, Tables, IsSeq
<1>4. handled' = Written
  BY <1>2, <1>3 DEF TakeSnapshot, Written
<1>5. Written' = Written
  BY <1>2, <1>4 DEF Written
<1>6. lastFilterBlock' = Top
  BY <1>2, <1>3 DEF TakeSnapshot, BlocksInv, CallbackInStep
<1>7. Numbers'
  <2>1. handled \in Nat /\ chain \in Seq(0 .. 1) /\ crashes \in Nat
    BY DEF BlocksInv, Numbers
  <2>2. Written \in Nat
    BY <2>1 DEF Written
  <2> QED BY <1>1, <1>2, <1>4, <2>1, <2>2 DEF Numbers
<1>8. FirstRows'
  <2> SUFFICES ASSUME phase' = "initDB" PROVE Len(log) <= 2
    BY <1>1, <1>2, <1>3 DEF FirstRows
  <2>1. LastRow # InitRows[3] /\ phase = "initDB"
    <3>1. Len(InitRows) = 3
      BY DEF InitRows
    <3> QED BY <1>3, <3>1 DEF TakeSnapshot
  <2>2. Len(log) <= 3 /\ Len(log) # 3
    BY <1>2, <2>1 DEF BlocksInv, FirstRows
  <2>3. Len(log) \in Nat
    BY <1>3
  <2>4. \A m \in Nat : m <= 3 /\ m # 3 => m <= 2
    OBVIOUS
  <2> QED BY <2>2, <2>3, <2>4
<1> QED BY <1>1, <1>2, <1>5, <1>6, <1>7, <1>8, CountKept

\* The steps that write no row.
LEMMA BlocksSilent ==
  ASSUME LogInv, BlocksInv, Silent, Intact
  PROVE  BlocksInv'
<1> USE DEF tables, memory, bounds
<1>1. log' = log
  BY SilentNext
<1>2. /\ Top' = Top /\ Before' = Before /\ LastRow' = LastRow
      /\ \A b, i : Rows(b, i)' = Rows(b, i)
  BY <1>1, RowsKept
<1>3. /\ Numbers /\ FirstRows /\ EventsOfBlocks /\ BlocksComplete /\ EventsCounted
      /\ CallbackInStep
  BY DEF BlocksInv
<1>4. Len(log) \in Nat
  BY DEF LogInv, Tables, IsSeq
<1>5. CASE initDB
  <2>1. /\ pc = "down" /\ pc' = "idle" /\ handled' = handled
        /\ UNCHANGED <<chain, crashes>>
    BY <1>5 DEF initDB
  <2>2. ~Busy /\ ~Busy'
    BY <2>1 DEF Busy
  <2>3. Written' = Written
    BY <2>1, <2>2 DEF Written
  <2>4. current' = Applied(Len(log)) /\ lastFilterBlock' = BlockHeight(current')
    BY <1>5, RestoresAll DEF initDB
  <2>5. lastFilterBlock' = Top
    BY <1>4, <2>4, HeightIs DEF Top
  <2>6. FirstRows'
    <3> SUFFICES ASSUME phase' = "initDB" PROVE Len(log) = 0
      BY <1>1 DEF FirstRows
    <3>1. Applied(Len(log)) = <<>>
      BY <1>5, <2>4 DEF initDB
    <3>2. Len(Applied(Len(log))) = Len(log)
      BY <1>4, AppliedSeq
    <3>3. Len(<<>>) = 0
      OBVIOUS
    <3> QED BY <3>1, <3>2, <3>3
  <2>7. Numbers'
    BY <1>3, <2>1 DEF Numbers
  <2> QED BY <1>1, <2>1, <2>2, <2>3, <2>5, <2>6, <2>7, CountKept
<1>6. CASE StartService \/ Dispatch \/ writeEvents \/ OnChannelEvent
             \/ UserChangesRoutes \/ UNCHANGED vars
  <2>1. /\ UNCHANGED <<chain, crashes, handled, lastFilterBlock>>
        /\ Busy' = Busy /\ (pc' = "down") = (pc = "down")
        /\ (pc' = "idle") = (pc = "idle")
        /\ phase' = "initDB" => phase = "initDB"
        /\ pc' = "down" => current' = current
    BY <1>6 DEF StartService, Dispatch, writeEvents, OnChannelEvent, UserChangesRoutes,
                vars, Busy
  <2>2. Written' = Written
    BY <1>2, <2>1 DEF Written
  <2>3. Numbers'
    <3>1. handled \in Nat /\ chain \in Seq(0 .. 1) /\ crashes \in Nat
      BY <1>3 DEF Numbers
    <3>2. pc' = "down" => handled' = 0 /\ current' = <<>>
      BY <1>3, <2>1 DEF Numbers
    <3> QED BY <2>1, <3>1, <3>2 DEF Numbers
  <2>4. FirstRows'
    BY <1>1, <1>2, <1>3, <2>1 DEF FirstRows, InitRows
  <2>5. CASE pc # "down"
    BY <1>1, <1>3, <2>1, <2>2, <2>3, <2>4, <2>5, CountKept DEF CallbackInStep
  <2>6. CASE pc = "down"
    <3>1. ~Busy /\ ~Busy'
      BY <2>1, <2>6 DEF Busy
    <3>2. EventsOfBlocks' /\ BlocksComplete'
      BY <1>2, <1>3, <2>1 DEF EventsOfBlocks, BlocksComplete
    <3>3. EventsCounted'
      BY <1>2, <1>3, <2>1, <2>2 DEF EventsCounted
    <3>4. CallbackInStep'
      BY <1>2, <1>3, <2>1, <2>2, <2>6, <3>1 DEF CallbackInStep
    <3> QED BY <2>3, <2>4, <3>2, <3>3, <3>4 DEF BlocksInv
  <2> QED BY <2>5, <2>6
<1>7. CASE TakeSnapshot
  BY <1>7, BlocksSnapshot
<1>8. CASE Crash
  <2>1. /\ pc' = "down" /\ handled' = 0 /\ current' = <<>>
        /\ crashes' = crashes + 1 /\ chain' = chain
    BY <1>8 DEF Crash
  <2>2. ~Busy' /\ Written' = 0
    BY <2>1 DEF Busy, Written
  <2>3. Numbers'
    BY <1>3, <2>1 DEF Numbers
  <2>4. FirstRows'
    BY <2>1 DEF FirstRows
  <2>5. EventsOfBlocks' /\ BlocksComplete'
    BY <1>2, <1>3, <2>1 DEF EventsOfBlocks, BlocksComplete
  <2>6. EventsCounted'
    <3>1. \A b, i : Cardinality(Rows(b, i)) \in Nat
      BY <1>4, RowsFinite
    <3>2. \A b, i : Cardinality(Rows(b, i))' = Cardinality(Rows(b, i))
      BY <1>2
    <3>3. \A b \in 1 .. Top : \A i \in 1 .. 1 : Cardinality(Rows(b, i)) <= 1 + crashes'
      BY <1>3, <2>1, <3>1 DEF EventsCounted, Numbers
    <3>4. \A i \in 1 .. 1 : Cardinality(Rows(Top + 1, i)) <= crashes'
      BY <1>3, <2>1, <3>1 DEF EventsCounted, Numbers
    <3>5. \A i \in 1 .. 1 : ~(i <= 0)
      OBVIOUS
    <3>6. crashes' + 0 = crashes'
      BY <1>3, <2>1 DEF Numbers
    <3> QED BY <1>2, <2>2, <3>2, <3>3, <3>4, <3>5, <3>6 DEF EventsCounted
  <2>7. CallbackInStep'
    BY <2>1, <2>2 DEF CallbackInStep
  <2> QED BY <2>3, <2>4, <2>5, <2>6, <2>7 DEF BlocksInv
<1>9. CASE Mine
  <2>1. PICK n \in 0 .. 1 : chain' = Append(chain, n)
    BY <1>9 DEF Mine
  <2>2. UNCHANGED <<crashes, handled, lastFilterBlock, pc, phase, current>>
    BY <1>9 DEF Mine
  <2>3. /\ chain' \in Seq(0 .. 1) /\ Len(chain) \in Nat /\ Len(chain') = Len(chain) + 1
        /\ \A b \in 1 .. Len(chain) : chain'[b] = chain[b] /\ b \in 1 .. Len(chain')
    BY <1>3, <2>1, AppendProperties DEF Numbers
  <2>4. Busy' = Busy /\ Written' = Written
    BY <1>2, <2>2 DEF Busy, Written
  <2>5. Numbers' /\ FirstRows'
    BY <1>1, <1>2, <1>3, <2>2, <2>3 DEF Numbers, FirstRows, InitRows
  <2>6. Top \in 0 .. Len(chain) /\ Top \in 0 .. Len(chain')
    BY <1>3, <2>3 DEF EventsOfBlocks
  <2>7. EventsOfBlocks'
    BY <1>2, <1>3, <2>3, <2>6 DEF EventsOfBlocks
  <2>8. BlocksComplete'
    BY <1>2, <1>3, <2>3, <2>6 DEF BlocksComplete
  <2>9. EventsCounted'
    BY <1>2, <1>3, <2>2, <2>4 DEF EventsCounted
  <2>10. CallbackInStep'
    BY <1>2, <1>3, <2>2, <2>3, <2>4 DEF CallbackInStep, EventRow
  <2> QED BY <2>5, <2>7, <2>8, <2>9, <2>10 DEF BlocksInv
<1> QED BY <1>5, <1>6, <1>7, <1>8, <1>9 DEF Silent

\* What the handler of a state change finds and writes.
LEMMA WriteBlocks ==
  ASSUME LogInv, BlocksInv, NEW change, HandleStateChange(change), broken' = 0
  PROVE  /\ Intact /\ Numbers' /\ Busy' /\ pc = "idle" /\ pc' = "logged"
         /\ UNCHANGED <<chain, crashes, handled, lastFilterBlock, phase>>
         /\ Len(log) \in Nat /\ Len(log') = Len(log) + 1 /\ LastRow' = change
         /\ Before' = Top /\ Top' = IF change.kind = "Block" THEN change.block ELSE Top
         /\ \A b, i : Rows(b, i)' = IF change = EventRow(b, i)
                                    THEN Rows(b, i) \cup {Len(log) + 1} ELSE Rows(b, i)
         /\ Written = handled /\ lastFilterBlock = Top
<1>1. PICK ok \in BOOLEAN : log' = Append(log, [data |-> change, ok |-> ok])
  BY DEF HandleStateChange
<1>2. Intact /\ IsSeq(log)
  BY WriteNext DEF Intact, LogInv, Tables
<1>3. /\ pc = "idle" /\ pc' = "logged"
      /\ UNCHANGED <<chain, crashes, handled, lastFilterBlock, phase>>
  BY DEF HandleStateChange
<1>4. Busy' /\ ~Busy
  BY <1>3 DEF Busy
<1>5. Numbers'
  BY <1>3 DEF BlocksInv, Numbers
<1>6. Written = handled /\ lastFilterBlock = Top
  BY <1>2, <1>3, <1>4 DEF Written, BlocksInv, CallbackInStep
<1> DEFINE x == [data |-> change, ok |-> ok]
<1>7. x.data = change
  OBVIOUS
<1> HIDE DEF x
<1>8. log' = Append(log, x)
  BY <1>1 DEF x
<1>9. /\ Len(log) \in Nat /\ Len(log') = Len(log) + 1 /\ LastRow' = change
      /\ Before' = Top /\ Top' = IF change.kind = "Block" THEN change.block ELSE Top
      /\ \A b, i : Rows(b, i)' = IF change = EventRow(b, i)
                                 THEN Rows(b, i) \cup {Len(log) + 1} ELSE Rows(b, i)
  BY <1>2, <1>7, <1>8, RowMore
<1> QED BY <1>2, <1>3, <1>4, <1>5, <1>6, <1>9

\* A state change that is neither a block nor an event of one.
LEMMA OtherWritten ==
  ASSUME LogInv, BlocksInv, NEW change, HandleStateChange(change), broken' = 0,
         change.kind \notin {"Block", "event"}, FirstRows'
  PROVE  BlocksInv'
<1>1. /\ Intact /\ Numbers' /\ Busy' /\ pc' = "logged"
      /\ UNCHANGED <<chain, crashes, handled, lastFilterBlock>>
      /\ LastRow' = change /\ Top' = Top
      /\ \A b, i : Rows(b, i)' = IF change = EventRow(b, i)
                                 THEN Rows(b, i) \cup {Len(log) + 1} ELSE Rows(b, i)
      /\ Written = handled /\ lastFilterBlock = Top
  BY WriteBlocks
<1>2. \A b, i : change # EventRow(b, i)
  BY DEF EventRow
<1>3. \A b, i : Rows(b, i)' = Rows(b, i)
  BY <1>1, <1>2
<1>4. Written' = Written
  BY <1>1 DEF Written
<1>5. EventsOfBlocks /\ BlocksComplete /\ EventsCounted /\ CallbackInStep
  BY <1>1 DEF BlocksInv
<1>6. EventsOfBlocks' /\ BlocksComplete'
  BY <1>1, <1>3, <1>5 DEF EventsOfBlocks, BlocksComplete
<1>7. EventsCounted'
  BY <1>1, <1>3, <1>4, <1>5 DEF EventsCounted
<1>8. CallbackInStep'
  BY <1>1, <1>3, <1>4, <1>5 DEF CallbackInStep
<1> QED BY <1>1, <1>6, <1>7, <1>8 DEF BlocksInv

\* An event of the next block.
LEMMA EventWritten ==
  ASSUME LogInv, BlocksInv, broken' = 0, phase # "initDB",
         lastFilterBlock + 1 <= Len(chain), handled < chain[lastFilterBlock + 1],
         HandleStateChange(EventRow(lastFilterBlock + 1, handled + 1))
  PROVE  BlocksInv'
<1>1. PICK b, e : b = lastFilterBlock + 1 /\ e = handled + 1
  OBVIOUS
<1> DEFINE change == EventRow(b, e)
           n == Len(log)
<1>2. HandleStateChange(change)
  BY <1>1
<1>3. change.kind = "event" /\ \A c, i : change = EventRow(c, i) <=> c = b /\ i = e
  BY DEF EventRow
<1> HIDE DEF change
<1>4. /\ Intact /\ Numbers' /\ Busy' /\ pc' = "logged"
      /\ UNCHANGED <<chain, crashes, handled, lastFilterBlock, phase>>
      /\ n \in Nat /\ LastRow' = change /\ Top' = Top
      /\ \A c, i : Rows(c, i)' = IF change = EventRow(c, i)
                                 THEN Rows(c, i) \cup {n + 1} ELSE Rows(c, i)
      /\ Written = handled /\ lastFilterBlock = Top
  BY <1>2, <1>3, WriteBlocks
<1>5. EventsOfBlocks /\ BlocksComplete /\ EventsCounted /\ CallbackInStep /\ Numbers
  BY <1>4 DEF BlocksInv
<1>6. Top \in Nat /\ b = Top + 1 /\ b \in 1 .. Len(chain) /\ handled \in Nat /\ e \in Nat
      /\ crashes \in Nat
  BY <1>1, <1>4, <1>5 DEF EventsOfBlocks, Numbers
<1>7. chain[b] \in 0 .. 1 /\ handled = 0 /\ e = 1 /\ chain[b] = 1
  BY <1>1, <1>4, <1>5, <1>6 DEF Numbers
<1>8. Written' = e
  BY <1>1, <1>3, <1>4 DEF Written
<1>9. \A c, i : ~(c = b /\ i = e) => Rows(c, i)' = Rows(c, i)
  BY <1>3, <1>4
<1>10. Rows(b, e)' = Rows(b, e) \cup {n + 1}
  BY <1>3, <1>4
<1>11. FirstRows'
  BY <1>4 DEF FirstRows
<1>12. EventsOfBlocks'
  <2> SUFFICES ASSUME NEW c, NEW i, Rows(c, i)' # {}
               PROVE  c \in 1 .. Len(chain) /\ c <= Top + 1 /\ i \in 1 .. chain[c]
    BY <1>4, <1>5 DEF EventsOfBlocks
  <2>1. CASE c = b /\ i = e
    BY <1>6, <1>7, <2>1
  <2>2. CASE ~(c = b /\ i = e)
    BY <1>5, <1>9, <2>2 DEF EventsOfBlocks
  <2> QED BY <2>1, <2>2
<1>13. \A c \in 1 .. Top : c # b
  BY <1>6
<1>14. BlocksComplete'
  BY <1>4, <1>5, <1>9, <1>13 DEF BlocksComplete
<1>15. EventsCounted'
  <2>1. \A c \in 1 .. Top : \A i \in 1 .. 1 : Cardinality(Rows(c, i))' <= 1 + crashes
    BY <1>5, <1>9, <1>13 DEF EventsCounted
  <2>2. Cardinality(Rows(b, e)) <= crashes + 0
    BY <1>4, <1>5, <1>6, <1>7 DEF EventsCounted
  <2>3. Cardinality(Rows(b, e))' = Cardinality(Rows(b, e)) + 1 /\ Cardinality(Rows(b, e)) \in Nat
    BY <1>4, <1>10, RowsFinite
  <2>4. Cardinality(Rows(b, e))' <= crashes + 1
    BY <1>6, <2>2, <2>3
  <2>5. \A i \in 1 .. 1 : i = e /\ i <= e
    BY <1>7
  <2> QED BY <1>4, <1>6, <1>8, <2>1, <2>4, <2>5 DEF EventsCounted
<1>16. CallbackInStep'
  <2>1. Rows(b, e)' # {}
    BY <1>10
  <2>2. \A i \in 1 .. e : i = e
    BY <1>7
  <2>3. (\A i \in 1 .. Written : Rows(Top + 1, i) # {})'
    <3>1. \A i \in 1 .. e : Rows(b, i)' # {}
      BY <2>1, <2>2
    <3>2. Written' = e /\ Top' + 1 = b
      BY <1>4, <1>6, <1>8
    <3> QED BY <3>1, <3>2
  <2>4. Top + 1 \in 1 .. Len(chain) /\ e <= chain[Top + 1]
    BY <1>6, <1>7
  <2>5. (LastRow = EventRow(Top + 1, handled + 1))'
    BY <1>1, <1>4, <1>6 DEF change, EventRow
  <2>6. LastRow'.kind # "Block"
    BY <1>3, <1>4
  <2> QED BY <1>4, <1>8, <2>3, <2>4, <2>5, <2>6 DEF CallbackInStep
<1> QED BY <1>4, <1>11, <1>12, <1>14, <1>15, <1>16 DEF BlocksInv

\* A block, when its events were written.
LEMMA BlockWritten ==
  ASSUME LogInv, BlocksInv, broken' = 0, phase # "initDB",
         lastFilterBlock + 1 <= Len(chain), ~(handled < chain[lastFilterBlock + 1]),
         HandleStateChange(BlockRow(lastFilterBlock + 1))
  PROVE  BlocksInv'
<1>1. PICK b : b = lastFilterBlock + 1
  OBVIOUS
<1> DEFINE change == BlockRow(b)
           n == Len(log)
<1>2. HandleStateChange(change)
  BY <1>1
<1>3. change.kind = "Block" /\ change.block = b /\ \A c, i : change # EventRow(c, i)
  BY DEF BlockRow, EventRow
<1> HIDE DEF change
<1>4. /\ Intact /\ Numbers' /\ Busy' /\ pc' = "logged"
      /\ UNCHANGED <<chain, crashes, handled, lastFilterBlock, phase>>
      /\ n \in Nat /\ LastRow' = change /\ Top' = b /\ Before' = Top
      /\ \A c, i : Rows(c, i)' = IF change = EventRow(c, i)
                                 THEN Rows(c, i) \cup {n + 1} ELSE Rows(c, i)
      /\ Written = handled /\ lastFilterBlock = Top
  BY <1>2, <1>3, WriteBlocks
<1>5. EventsOfBlocks /\ BlocksComplete /\ EventsCounted /\ CallbackInStep /\ Numbers
  BY <1>4 DEF BlocksInv
<1>6. Top \in Nat /\ b = Top + 1 /\ b \in 1 .. Len(chain) /\ handled \in Nat /\ crashes \in Nat
  BY <1>1, <1>4, <1>5 DEF EventsOfBlocks, Numbers
<1>7. chain[b] \in 0 .. 1
  BY <1>5, <1>6 DEF Numbers
<1>8. Written' = 0
  BY <1>3, <1>4 DEF Written
<1>9. \A c, i : Rows(c, i)' = Rows(c, i)
  BY <1>3, <1>4
<1>10. \A c, i : Rows(c, i) # {} => c \in 1 .. Len(chain) /\ c <= Top + 1 /\ i \in 1 .. chain[c]
  BY <1>5 DEF EventsOfBlocks
<1>11. FirstRows'
  BY <1>4 DEF FirstRows
<1>12. EventsOfBlocks'
  <2>1. \A c, i : Rows(c, i) # {} => c \in 1 .. Len(chain) /\ c <= b + 1 /\ i \in 1 .. chain[c]
    BY <1>6, <1>10
  <2>2. b \in 0 .. Len(chain)
    BY <1>6
  <2> QED BY <1>4, <1>9, <2>1, <2>2 DEF EventsOfBlocks
<1>13. \A c \in 1 .. b : c \in 1 .. Top \/ c = b
  BY <1>6
<1>14. BlocksComplete'
  <2>1. \A i \in 1 .. chain[b] : Rows(b, i) # {}
    <3>1. \A i \in 1 .. chain[b] : i \in 1 .. Written
      BY <1>1, <1>4, <1>6, <1>7
    <3> QED BY <1>5, <1>6, <3>1 DEF CallbackInStep
  <2> QED BY <1>4, <1>5, <1>9, <1>13, <2>1 DEF BlocksComplete
<1>15. EventsCounted'
  <2>1. \A c, i : Cardinality(Rows(c, i)) \in Nat /\ (Rows(c, i) = {} => Cardinality(Rows(c, i)) = 0)
    BY <1>4, RowsFinite
  <2>2. \A i \in 1 .. 1 : Cardinality(Rows(b, i)) <= 1 + crashes
    <3>1. \A i \in 1 .. 1 :
            Cardinality(Rows(b, i)) <= crashes + IF i <= Written THEN 1 ELSE 0
      BY <1>5, <1>6 DEF EventsCounted
    <3> QED BY <1>6, <2>1, <3>1
  <2>3. \A i : Rows(b + 1, i) = {}
    <3>1. ~(b + 1 <= Top + 1)
      BY <1>6
    <3> QED BY <1>10, <3>1
  <2>4. \A i \in 1 .. 1 : Cardinality(Rows(b + 1, i)) <= crashes + 0 /\ ~(i <= 0)
    BY <1>6, <2>1, <2>3
  <2> QED BY <1>4, <1>5, <1>8, <1>9, <1>13, <2>2, <2>4 DEF EventsCounted
<1>16. CallbackInStep'
  <2>1. 1 .. Written' = {} /\ ~(Written' > 0)
    BY <1>8
  <2>2. lastFilterBlock' = Top' - 1 /\ Top' > 0
    BY <1>1, <1>4, <1>6
  <2>3. Before' = Top' - 1
    BY <1>4, <1>6
  <2> QED BY <1>3, <1>4, <2>1, <2>2, <2>3 DEF CallbackInStep
<1> QED BY <1>4, <1>11, <1>12, <1>14, <1>15, <1>16 DEF BlocksInv

\* Every step keeps what the rows say about the blocks.
LEMMA BlocksNext ==
  ASSUME LogInv, BlocksInv, [Next]_vars
  PROVE  BlocksInv'
<1>1. CASE Silent /\ broken' = 0
  BY <1>1, SilentNext, BlocksSilent DEF Intact
<1>2. CASE InitializeNode /\ broken' = 0
  <2> DEFINE change == InitRows[Len(current) + 1]
  <2>1. HandleStateChange(change) /\ phase = "initDB"
    BY <1>2 DEF InitializeNode
  <2> HIDE DEF change
  <2>2. /\ Intact /\ pc = "idle" /\ pc' = "logged" /\ Len(log) \in Nat
        /\ Len(log') = Len(log) + 1 /\ LastRow' = change
    BY <1>2, <2>1, WriteBlocks
  <2>3. current = Applied(Len(log)) /\ Len(log) <= 2
    BY <2>1, <2>2 DEF LogInv, MemoryExact, BlocksInv, FirstRows
  <2>4. Len(current) = Len(log)
    BY <2>2, <2>3, AppliedSeq
  <2>5. Len(current) + 1 \in 1 .. 3 /\ (Len(log') = 3 => Len(current) + 1 = 3) /\ Len(log') <= 3
    BY <2>2, <2>3, <2>4
  <2>6. change.kind \notin {"Block", "event"}
    BY <2>5 DEF change, InitRows
  <2>7. Len(log') = 3 => change = InitRows[3]
    BY <2>5 DEF change
  <2>8. FirstRows'
    BY <2>2, <2>5, <2>7 DEF FirstRows, InitRows
  <2> QED BY <1>2, <2>1, <2>6, <2>8, OtherWritten
<1>3. CASE UserStateChange /\ broken' = 0
  <2>1. HandleStateChange(MessageRow) /\ phase = "running"
    BY <1>3 DEF UserStateChange
  <2>2. phase' = phase
    BY <1>3, <2>1, WriteBlocks
  <2>3. FirstRows'
    BY <2>1, <2>2 DEF FirstRows
  <2>4. MessageRow.kind \notin {"Block", "event"}
    BY DEF MessageRow
  <2> QED BY <1>3, <2>1, <2>3, <2>4, OtherWritten
<1>4. CASE CallbackNewBlock /\ broken' = 0
  <2>1. /\ phase # "initDB" /\ lastFilterBlock + 1 <= Len(chain)
        /\ HandleStateChange(NextOfBlock(lastFilterBlock + 1))
    BY <1>4 DEF CallbackNewBlock
  <2>2. CASE handled < chain[lastFilterBlock + 1]
    <3>1. NextOfBlock(lastFilterBlock + 1) = EventRow(lastFilterBlock + 1, handled + 1)
      BY <2>2 DEF NextOfBlock
    <3>2. HandleStateChange(EventRow(lastFilterBlock + 1, handled + 1))
      BY <2>1, <3>1
    <3> QED BY <1>4, <2>1, <2>2, <3>2, EventWritten
  <2>3. CASE ~(handled < chain[lastFilterBlock + 1])
    <3>1. NextOfBlock(lastFilterBlock + 1) = BlockRow(lastFilterBlock + 1)
      BY <2>3 DEF NextOfBlock
    <3>2. HandleStateChange(BlockRow(lastFilterBlock + 1))
      BY <2>1, <3>1
    <3> QED BY <1>4, <2>1, <2>3, <3>2, BlockWritten
  <2> QED BY <2>2, <2>3
<1>5. CASE broken' # 0
  <2>1. Numbers
    BY DEF BlocksInv
  <2>2. ASSUME NEW change, HandleStateChange(change) PROVE Numbers'
    BY <2>1, <2>2 DEF HandleStateChange, Numbers
  <2>3. ASSUME Silent PROVE Numbers'
    <3>1. handled \in Nat /\ chain \in Seq(0 .. 1) /\ crashes \in Nat
      BY <2>1 DEF Numbers
    <3>5. chain' = chain \/ \E m \in 0 .. 1 : chain' = Append(chain, m)
      BY <2>3 DEF Silent, vars, memory, bounds, tables, initDB, StartService,
        Dispatch, writeEvents, OnChannelEvent, UserChangesRoutes, TakeSnapshot, Crash, Mine
    <3>6. chain' \in Seq(0 .. 1)
      BY <3>1, <3>5
    <3>7. crashes' \in {crashes, crashes + 1}
      BY <2>3 DEF Silent, vars, memory, bounds, tables, initDB, StartService,
        Dispatch, writeEvents, OnChannelEvent, UserChangesRoutes, TakeSnapshot, Crash, Mine
    <3>2. crashes' \in Nat
      BY <3>1, <3>7
    <3>3. handled' \in {0, handled, handled + 1}
      BY <2>3 DEF Silent, vars, memory, bounds, tables, initDB, StartService,
        Dispatch, writeEvents, OnChannelEvent, UserChangesRoutes, TakeSnapshot, Crash, Mine
    <3>4. pc' = "down" => handled' = 0 /\ current' = <<>>
      BY <2>1, <2>3 DEF Numbers, Silent, vars, memory, bounds, tables, initDB,
        StartService, Dispatch, writeEvents, OnChannelEvent, UserChangesRoutes, TakeSnapshot, Crash, Mine
    <3> QED BY <3>1, <3>2, <3>3, <3>4, <3>6 DEF Numbers
  <2>4. Numbers'
    BY <2>2, <2>3, SilentOrWrites
  <2> QED BY <1>5, <2>4 DEF BlocksInv, Intact
<1> QED BY <1>1, <1>2, <1>3, <1>4, <1>5 DEF Next, Silent

\* The invariant holds in every state.
LEMMA BlocksCorrect == Spec => []BlocksInv
<1>1. Init => BlocksInv
  <2> SUFFICES ASSUME Init PROVE BlocksInv
    OBVIOUS
  <2>1. Len(log) = 0 /\ 1 .. 0 = {} /\ <<>> \in Seq(0 .. 1) /\ Len(chain) = 0
    BY DEF Init
  <2>2. BlocksUntil(0) = {} /\ Top = 0
    BY <2>1 DEF BlocksUntil, Height, Top
  <2>3. \A b, i : Rows(b, i) = {}
    BY <2>1 DEF Rows
  <2>4. ~Busy /\ Written = 0
    BY DEF Init, Busy, Written
  <2>5. Numbers /\ FirstRows
    BY <2>1 DEF Init, Numbers, FirstRows
  <2>6. EventsOfBlocks /\ BlocksComplete
    BY <2>1, <2>2, <2>3 DEF EventsOfBlocks, BlocksComplete
  <2>7. EventsCounted
    <3>1. \A b, i : Cardinality(Rows(b, i)) = 0
      BY <2>3, FS_EmptySet
    <3>2. 1 .. Top = {} /\ \A i \in 1 .. 1 : ~(i <= Written)
      BY <2>2, <2>4
    <3> QED BY <3>1, <3>2 DEF Init, EventsCounted
  <2>8. CallbackInStep
    BY <2>2, <2>4 DEF Init, CallbackInStep
  <2> QED BY <2>5, <2>6, <2>7, <2>8 DEF BlocksInv
<1>2. LogInv /\ BlocksInv /\ [Next]_vars => BlocksInv'
  BY BlocksNext
<1> QED BY <1>1, <1>2, LogCorrect, PTL DEF Spec

\* BlockEventsApplied: the state in memory, also one that was restored, has had
\* each event of each block it counts as handled, once and at most once more for
\* each time the process was killed, and no event the chain does not have.
THEOREM EventsApplied == Spec => []BlockEventsApplied
<1>1. LogInv /\ BlocksInv => BlockEventsApplied
  <2> SUFFICES ASSUME LogInv, BlocksInv, Intact,
                      NEW b \in 1 .. BlockHeight(current), NEW i \in 1 .. 1
               PROVE  LET times == Cardinality({k \in DOMAIN current :
                                                  current[k].row = EventRow(b, i)})
                      IN IF i <= chain[b] THEN times \in 1 .. 1 + crashes ELSE times = 0
    BY DEF BlockEventsApplied
  <2> DEFINE times == {k \in DOMAIN current : current[k].row = EventRow(b, i)}
  <2>1. Len(log) \in Nat
    BY DEF LogInv, Tables, IsSeq
  <2>2. EventsOfBlocks /\ BlocksComplete /\ EventsCounted /\ CallbackInStep /\ Numbers
    BY DEF BlocksInv
  <2>3. Top \in Nat /\ Top <= Len(chain) /\ Len(chain) \in Nat
    BY <2>2 DEF EventsOfBlocks, Numbers
  <2>4. b \in 1 .. Top /\ times = Rows(b, i)
    <3>1. pc # "down"
      <4> SUFFICES ASSUME pc = "down" PROVE FALSE
        OBVIOUS
      <4>1. current = <<>>
        BY <2>2 DEF Numbers
      <4>2. {k \in DOMAIN current : current[k].row.kind = "Block"} = {}
        BY <4>1
      <4>3. BlockHeight(current) = 0
        BY <4>2 DEF BlockHeight
      <4> QED BY <4>3
    <3>2. CASE pc # "logged"
      <4>1. current = Applied(Len(log)) /\ BlockHeight(current) = Top
        BY <2>1, <3>1, <3>2, HeightIs DEF LogInv, MemoryExact, Top
      <4> QED BY <4>1 DEF Applied, Entry, Rows
    <3>3. CASE pc = "logged"
      <4> DEFINE n == Len(log) - 1
      <4>1. /\ n \in 0 .. Len(log) /\ Len(log) = n + 1 /\ Busy
            /\ current = Applied(n)
        BY <2>1, <3>3 DEF LogInv, MemoryExact, Busy
      <4>2. \A k : k \in 1 .. n + 1 <=> k \in 1 .. n \/ k = n + 1
        BY <2>1, <4>1
      <4> HIDE DEF n
      <4>3. BlockHeight(current) = Height(n)
        BY <2>1, <4>1, HeightIs
      <4>4. times = {k \in 1 .. n : log[k].data = EventRow(b, i)}
        BY <4>1 DEF Applied, Entry
      <4>5. LastRow = log[n + 1].data
        BY <4>1 DEF LastRow
      <4>6. CASE LastRow.kind # "Block"
        <5>1. BlocksUntil(n + 1) = BlocksUntil(n)
          BY <4>2, <4>5, <4>6 DEF BlocksUntil
        <5>2. Height(n) = Top
          BY <4>1, <5>1 DEF Height, Top
        <5>3. LastRow # EventRow(b, i)
          <6>1. LastRow = EventRow(b, i) => b = Top + 1
            BY <2>2, <4>1 DEF CallbackInStep, EventRow
          <6> QED BY <2>3, <4>3, <5>2, <6>1
        <5>4. Rows(b, i) = {k \in 1 .. n : log[k].data = EventRow(b, i)}
          BY <4>1, <4>2, <4>5, <5>3 DEF Rows
        <5> QED BY <4>3, <4>4, <5>2, <5>4
      <4>7. CASE LastRow.kind = "Block"
        <5>1. LastRow # EventRow(b, i)
          BY <4>7 DEF EventRow
        <5>2. Rows(b, i) = {k \in 1 .. n : log[k].data = EventRow(b, i)}
          BY <4>1, <4>2, <4>5, <5>1 DEF Rows
        <5>3. Height(n) = Top - 1
          BY <2>2, <4>1, <4>7 DEF CallbackInStep, Before, n
        <5>4. b \in 1 .. Top
          BY <2>3, <4>3, <5>3
        <5> QED BY <4>4, <5>2, <5>4
      <4> QED BY <4>6, <4>7
    <3> QED BY <3>1, <3>2, <3>3
  <2>5. Cardinality(Rows(b, i)) \in Nat /\ Cardinality(Rows(b, i)) <= 1 + crashes
    BY <2>1, <2>2, <2>4, RowsFinite DEF EventsCounted
  <2>6. b \in 1 .. Len(chain) /\ chain[b] \in 0 .. 1 /\ crashes \in Nat
    BY <2>2, <2>3, <2>4 DEF Numbers
  <2>7. CASE i <= chain[b]
    <3>1. Rows(b, i) # {}
      BY <2>2, <2>4, <2>6, <2>7 DEF BlocksComplete
    <3>2. Cardinality(Rows(b, i)) # 0
      BY <2>1, <3>1, RowsFinite, FS_EmptySet
    <3>3. Cardinality(Rows(b, i)) \in 1 .. 1 + crashes
      BY <2>5, <2>6, <3>2
    <3> HIDE DEF times
    <3> QED BY <2>4, <2>7, <3>3 DEF times
  <2>8. CASE ~(i <= chain[b])
    <3>1. Rows(b, i) = {}
      BY <2>2, <2>6, <2>8 DEF EventsOfBlocks
    <3>2. Cardinality(times) = 0
      BY <2>1, <2>4, <3>1, RowsFinite
    <3> QED BY <2>8, <3>2
  <2> QED BY <2>7, <2>8
<1> QED BY <1>1, LogCorrect, BlocksCorrect, PTL
=============================================================================
