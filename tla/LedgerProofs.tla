---------------------------- MODULE LedgerProofs ----------------------------
(***************************************************************************)
(* Theorems about the ledger's writers, for any number of processes,       *)
(* threads and calls.  They come in two layers.  What makes the lock file  *)
(* a lock is spelt out in Dependable: no process is killed (MaxCrashes =   *)
(* 0), the holder can delete the lock file, and it is done before the file *)
(* counts as stale (HoldTime < StaleAfter); then at most one writer is in  *)
(* the critical section.  What atomic_write and the operations do inside   *)
(* is proved from that alone ([]MutualExclusion), so it holds with         *)
(* processes killed and file operations failing anywhere.                  *)
(***************************************************************************)
EXTENDS Ledger, LibraryProofs, FiniteSetTheorems, TLAPS

Dependable ==
    /\ MaxCrashes = 0
    /\ "remove" \notin DiskFaults
    /\ HoldTime < StaleAfter

USE LedgerAssumption, LedgerDataAssumption, SentinelAssumption

(* Control state keeps its type, under any faults and crashes.             *)
LEMMA TickLimitNat == TickLimit \in Nat /\ HoldTime <= TickLimit /\ LockWait <= TickLimit
  BY DEF TickLimit

LEMMA InitControlType == Init => ControlTypeOK
  BY TickLimitNat DEF Init, ControlTypeOK, Steps, AllOps

LEMMA NextControlType == ControlTypeOK /\ [Next]_vars => ControlTypeOK'
<1> SUFFICES ASSUME ControlTypeOK, [Next]_vars PROVE ControlTypeOK'
  OBVIOUS
<1> USE DEF ControlTypeOK, Steps, Waiting, Critical, Goto, At, lockVars, dataVars, pastVars
<1>1. ASSUME NEW t \in Thread, NEW o \in Ops, Call(t, o) PROVE ControlTypeOK'
  BY <1>1 DEF Call
<1>2. ASSUME NEW t \in Thread, TakeMutex(t) PROVE ControlTypeOK'
  BY <1>2, TickLimitNat DEF TakeMutex
<1>3. ASSUME NEW t \in Thread, CreateLock(t) PROVE ControlTypeOK'
  BY <1>3, TickLimitNat DEF CreateLock
<1>4. ASSUME NEW t \in Thread, CreateLockFails(t) PROVE ControlTypeOK'
  BY <1>4 DEF CreateLockFails
<1>5. ASSUME NEW t \in Thread, StatLock(t) PROVE ControlTypeOK'
  BY <1>5 DEF StatLock
<1>6. ASSUME NEW t \in Thread, RemoveStaleLock(t) PROVE ControlTypeOK'
  BY <1>6 DEF RemoveStaleLock
<1>7. ASSUME NEW t \in Thread, Inspect(t) PROVE ControlTypeOK'
  BY <1>7 DEF Inspect
<1>8. ASSUME NEW t \in Thread, Quarantine(t) PROVE ControlTypeOK'
  BY <1>8 DEF Quarantine
<1>9. ASSUME NEW t \in Thread, LoadAndApply(t) PROVE ControlTypeOK'
  BY <1>9 DEF LoadAndApply
<1>10. ASSUME NEW t \in Thread, OpenTmp(t) PROVE ControlTypeOK'
  BY <1>10 DEF OpenTmp
<1>11. ASSUME NEW t \in Thread, WriteTmp(t) PROVE ControlTypeOK'
  BY <1>11 DEF WriteTmp
<1>12. ASSUME NEW t \in Thread, Rename(t) PROVE ControlTypeOK'
  BY <1>12 DEF Rename, Id
<1>13. ASSUME NEW t \in Thread, DropLock(t) PROVE ControlTypeOK'
  BY <1>13 DEF DropLock
<1>14. ASSUME NEW t \in Thread, DropMutex(t) PROVE ControlTypeOK'
  BY <1>14, TickLimitNat DEF DropMutex
<1>15. ASSUME NEW p \in Proc, Crash(p) PROVE ControlTypeOK'
  BY <1>15 DEF Crash
<1>16. ASSUME Tick PROVE ControlTypeOK'
  <2>1. lock' \in [owner: Thread, age: 0..StaleAfter] \cup {NoLock}
    BY <1>16 DEF Tick, AtMost
  <2>2. elapsed' \in [Thread -> 0..TickLimit]
    BY <1>16, TickLimitNat DEF Tick, AtMost
  <2>3. QED BY <1>16, <2>1, <2>2 DEF Tick
<1>17. ASSUME NextDay PROVE ControlTypeOK'
  BY <1>17 DEF NextDay
<1>18. CASE UNCHANGED vars
  BY <1>18 DEF vars
<1>19. QED
  BY <1>1, <1>2, <1>3, <1>4, <1>5, <1>6, <1>7, <1>8, <1>9, <1>10, <1>11, <1>12,
     <1>13, <1>14, <1>15, <1>16, <1>17, <1>18 DEF Next, ThreadStep

(* The control variables of Ledger keep their types in every reachable     *)
(* state: the program counters, mutexes, lock file, clocks and call state. *)
THEOREM ControlTypeCorrect == Spec => []ControlTypeOK
  BY InitControlType, NextControlType, PTL DEF Spec

-----------------------------------------------------------------------------
(* Mutual exclusion.  While the lock is dependable, the lock file and the  *)
(* writer in the critical section determine each other, and its age is the *)
(* time that writer has held it: no waiter ever sees it stale.             *)
LockTracksHolder ==
    /\ \A t \in Holders :
          /\ lock # NoLock
          /\ lock.owner = t
          /\ lock.age = elapsed[t]
          /\ elapsed[t] <= HoldTime
    /\ lock # NoLock => lock.owner \in Holders
    /\ \A t \in Thread : pc[t] # "remove"
    /\ crashes = 0

LockInv == ControlTypeOK /\ LockTracksHolder

LEMMA InitLock == Init => LockInv
  BY InitControlType DEF Init, LockInv, LockTracksHolder, Holders, Critical

LEMMA NextLock ==
  ASSUME Dependable PROVE LockInv /\ [Next]_vars => LockInv'
<1> SUFFICES ASSUME LockInv, [Next]_vars PROVE LockTracksHolder'
  BY NextControlType DEF LockInv
<1> USE DEF LockInv, LockTracksHolder, ControlTypeOK, Holders, Critical, Waiting, Goto, At,
            lockVars, dataVars, pastVars, Dependable
<1>1. ASSUME NEW t \in Thread, NEW o \in Ops, Call(t, o) PROVE LockTracksHolder'
  BY <1>1 DEF Call
<1>2. ASSUME NEW t \in Thread, TakeMutex(t) PROVE LockTracksHolder'
  BY <1>2 DEF TakeMutex
<1>3. ASSUME NEW t \in Thread, CreateLock(t) PROVE LockTracksHolder'
  BY <1>3 DEF CreateLock
<1>4. ASSUME NEW t \in Thread, CreateLockFails(t) PROVE LockTracksHolder'
  BY <1>4 DEF CreateLockFails
<1>5. ASSUME NEW t \in Thread, StatLock(t) PROVE LockTracksHolder'
  BY <1>5 DEF StatLock
<1>6. ASSUME NEW t \in Thread, RemoveStaleLock(t) PROVE LockTracksHolder'
  BY <1>6 DEF RemoveStaleLock
<1>7. ASSUME NEW t \in Thread, Inspect(t) PROVE LockTracksHolder'
  BY <1>7 DEF Inspect
<1>8. ASSUME NEW t \in Thread, Quarantine(t) PROVE LockTracksHolder'
  BY <1>8 DEF Quarantine
<1>9. ASSUME NEW t \in Thread, LoadAndApply(t) PROVE LockTracksHolder'
  BY <1>9 DEF LoadAndApply
<1>10. ASSUME NEW t \in Thread, OpenTmp(t) PROVE LockTracksHolder'
  BY <1>10 DEF OpenTmp
<1>11. ASSUME NEW t \in Thread, WriteTmp(t) PROVE LockTracksHolder'
  BY <1>11 DEF WriteTmp
<1>12. ASSUME NEW t \in Thread, Rename(t) PROVE LockTracksHolder'
  BY <1>12 DEF Rename
<1>13. ASSUME NEW t \in Thread, DropLock(t) PROVE LockTracksHolder'
  BY <1>13 DEF DropLock, Fails
<1>14. ASSUME NEW t \in Thread, DropMutex(t) PROVE LockTracksHolder'
  BY <1>14 DEF DropMutex
<1>15. ASSUME NEW p \in Proc, Crash(p) PROVE LockTracksHolder'
  BY <1>15 DEF Crash
<1>16. ASSUME Tick PROVE LockTracksHolder'
  BY <1>16, TickLimitNat DEF Tick, AtMost
<1>17. ASSUME NextDay PROVE LockTracksHolder'
  BY <1>17 DEF NextDay
<1>18. CASE UNCHANGED vars
  BY <1>18 DEF vars
<1>19. QED
  BY <1>1, <1>2, <1>3, <1>4, <1>5, <1>6, <1>7, <1>8, <1>9, <1>10, <1>11, <1>12,
     <1>13, <1>14, <1>15, <1>16, <1>17, <1>18 DEF Next, ThreadStep

(* The lock file serialises the writers of all processes, however many     *)
(* there are, as long as no holder dies or outlives STALE_LOCK_AFTER.      *)
THEOREM LedgerMutualExclusion ==
  ASSUME Dependable PROVE Spec => []MutualExclusion
<1>1. LockInv => MutualExclusion
  BY DEF LockInv, LockTracksHolder, MutualExclusion
<1>2. QED
  BY InitLock, NextLock, <1>1, PTL DEF Spec

-----------------------------------------------------------------------------
(* Refinement.  What the holder has in its hands was computed from the     *)
(* ledger that is still on disk, so installing it is one whole operation   *)
(* on the current content.  A failed rename would let an unparsable file   *)
(* be overwritten instead of quarantined, so renames are assumed to work.  *)
Computed(t) ==
    /\ file # Garbage
    /\ Saves(op[t], Load(file))
    /\ \E now \in 0..day : buf[t] = Apply(op[t], Load(file), Id(t), now)

HolderInv ==
    \A t \in Thread :
      /\ pc[t] # "idle" => Id(t) \in RecordId
      /\ pc[t] # "idle" => op[t] \in Ops
      /\ pc[t] = "quarantine" => file = Garbage
      /\ pc[t] = "load" => file # Garbage
      /\ pc[t] \in {"open_tmp", "write_tmp", "rename"} => Computed(t)
      /\ pc[t] = "write_tmp" => tmp = Garbage
      /\ pc[t] = "rename" => tmp = buf[t]

BookInv == LockInv /\ HolderInv /\ DOMAIN buf = Thread

LEMMA InitBook == Init => BookInv
  BY InitLock DEF Init, BookInv, HolderInv

LEMMA NextBook ==
  ASSUME Dependable, "rename" \notin DiskFaults
  PROVE  BookInv /\ [Next]_vars => BookInv'
<1> SUFFICES ASSUME BookInv, [Next]_vars PROVE HolderInv'
  <2>1. BookInv /\ [Next]_vars => DOMAIN buf' = Thread
    BY DEF BookInv, Next, ThreadStep, vars, dataVars, pastVars, lockVars, Call, TakeMutex,
           CreateLock, CreateLockFails, StatLock, RemoveStaleLock, Inspect, Quarantine,
           LoadAndApply, OpenTmp, WriteTmp, Rename, DropLock, DropMutex, Crash, Tick, NextDay
  <2>2. QED
    BY <2>1, NextLock DEF BookInv
<1> LockInv /\ LockInv'
  BY NextLock DEF BookInv
<1>0. \A s, t \in Holders : s = t
  BY DEF LockInv, LockTracksHolder
<1>a. \A t \in Thread : calls[t] \in 0..MaxCalls /\ pc[t] \in Steps
  BY DEF LockInv, ControlTypeOK
<1>b. /\ pc \in [Thread -> Steps] /\ calls \in [Thread -> 0..MaxCalls]
      /\ op \in [Thread -> AllOps] /\ day \in 0..MaxDay
      /\ DOMAIN buf = Thread
  BY DEF LockInv, ControlTypeOK, BookInv
<1> USE DEF BookInv, HolderInv, Goto, At, lockVars, dataVars, pastVars
<1>1. ASSUME NEW t \in Thread, NEW o \in Ops, Call(t, o) PROVE HolderInv'
  BY <1>1, <1>a, <1>b DEF Call, Computed, Id
<1>2. ASSUME NEW t \in Thread, TakeMutex(t) PROVE HolderInv'
  BY <1>2, <1>b DEF TakeMutex, Computed, Id
<1>3. ASSUME NEW t \in Thread, CreateLock(t) PROVE HolderInv'
  BY <1>3, <1>b DEF CreateLock, Computed, Id
<1>4. ASSUME NEW t \in Thread, CreateLockFails(t) PROVE HolderInv'
  BY <1>4, <1>b DEF CreateLockFails, Computed, Id
<1>5. ASSUME NEW t \in Thread, StatLock(t) PROVE HolderInv'
  BY <1>5, <1>b DEF StatLock, Computed, Id
<1>6. ASSUME NEW t \in Thread, RemoveStaleLock(t) PROVE HolderInv'
  BY <1>6, <1>b DEF RemoveStaleLock, Computed, Id
<1>7. ASSUME NEW t \in Thread, Inspect(t) PROVE HolderInv'
  BY <1>7, <1>b DEF Inspect, Computed, Id
<1>8. ASSUME NEW t \in Thread, Quarantine(t) PROVE HolderInv'
  BY <1>8, <1>0, <1>b DEF Quarantine, Computed, Id, Fails, Holders, Critical
<1>9. ASSUME NEW t \in Thread, LoadAndApply(t) PROVE HolderInv'
  BY <1>9, <1>b DEF LoadAndApply, Computed, Id
<1>10. ASSUME NEW t \in Thread, OpenTmp(t) PROVE HolderInv'
  BY <1>10, <1>0, <1>b DEF OpenTmp, Computed, Id, Holders, Critical
<1>11. ASSUME NEW t \in Thread, WriteTmp(t) PROVE HolderInv'
  BY <1>11, <1>0, <1>b DEF WriteTmp, Computed, Id, Holders, Critical
<1>12. ASSUME NEW t \in Thread, Rename(t) PROVE HolderInv'
  BY <1>12, <1>0, <1>b DEF Rename, Computed, Id, Holders, Critical
<1>13. ASSUME NEW t \in Thread, DropLock(t) PROVE HolderInv'
  BY <1>13, <1>b DEF DropLock, Computed, Id
<1>14. ASSUME NEW t \in Thread, DropMutex(t) PROVE HolderInv'
  BY <1>14, <1>b DEF DropMutex, Computed, Id
<1>15. ASSUME NEW p \in Proc, Crash(p) PROVE HolderInv'
  BY <1>15 DEF Crash, LockInv, LockTracksHolder, Dependable
<1>16. ASSUME Tick PROVE HolderInv'
  BY <1>16, <1>b DEF Tick, Computed, Id
<1>17. ASSUME NextDay PROVE HolderInv'
  BY <1>17, <1>b DEF NextDay, Computed, Id
<1>18. CASE UNCHANGED vars
  BY <1>18, <1>b DEF vars, Computed, Id
<1>19. QED
  BY <1>1, <1>2, <1>3, <1>4, <1>5, <1>6, <1>7, <1>8, <1>9, <1>10, <1>11, <1>12,
     <1>13, <1>14, <1>15, <1>16, <1>17, <1>18 DEF Next, ThreadStep

(* Writers and book compute the same.                                      *)
LEMMA SameApply ==
  ASSUME NEW o, NEW ledger, NEW id, NEW now
  PROVE  Apply(o, ledger, id, now) = Book!Apply(o, ledger, id, now)
<1>1. ASSUME NEW s, NEW places PROVE Select(s, places) = Book!Select(s, places)
  <2>1. ASSUME NEW S PROVE Cardinality(S) = Book!Cardinality(S)
    BY DEF Cardinality, Book!Cardinality
  <2>2. ASSUME NEW n PROVE Nth(places, n) = Book!Nth(places, n)
    BY DEF Nth, Book!Nth, Cardinality, Book!Cardinality
  <2>3. QED
    BY <2>1, <2>2 DEF Select, Book!Select
<1>2. \A l : WithinRetention(l, now) = Book!WithinRetention(l, now)
  BY <1>1 DEF WithinRetention, Book!WithinRetention
<1>3. \A l : Prune(l, now) = Book!Prune(l, now)
  <2>1. \A records : Newest(records) = Book!Newest(records)
    BY DEF Newest, Book!Newest
  <2>2. QED
    BY <1>2, <2>1 DEF Prune, Book!Prune
<1>4. QED
  BY <1>3 DEF Apply, Book!Apply, Push, Book!Push

LEMMA NextImplements ==
  ASSUME Dependable, "rename" \notin DiskFaults
  PROVE  BookInv /\ [Next]_vars => [Book!Next]_Book!bookVars
<1> SUFFICES ASSUME BookInv, [Next]_vars PROVE [Book!Next]_Book!bookVars
  OBVIOUS
<1> USE DEF Book!bookVars, lockVars, dataVars, pastVars
<1>1. ASSUME NEW t \in Thread, Quarantine(t) PROVE Book!Next
  <2>1. file = Garbage
    BY <1>1 DEF BookInv, HolderInv, Quarantine, At
  <2>2. Book!Quarantine
    BY <1>1, <2>1, SentinelAssumption DEF Quarantine, Book!Quarantine, Fails
  <2>3. QED
    BY <2>2 DEF Book!Next
<1>2. ASSUME NEW t \in Thread, WriteTmp(t) PROVE UNCHANGED Book!bookVars
  <2>1. tmp = Garbage
    BY <1>2 DEF BookInv, HolderInv, WriteTmp, At
  <2>2. QED
    BY <1>2, <2>1, SentinelAssumption DEF WriteTmp
<1>3. ASSUME NEW t \in Thread, Rename(t) PROVE Book!Next \/ UNCHANGED Book!bookVars
  <2>1. /\ Computed(t) /\ tmp = buf[t] /\ op[t] \in Ops /\ Id(t) \in RecordId
    BY <1>3 DEF BookInv, HolderInv, Rename, At
  <2>2. PICK now \in 0..day : buf[t] = Apply(op[t], Load(file), Id(t), now)
    BY <2>1 DEF Computed
  <2>3. now \in 0..MaxDay /\ now <= day
    BY <2>2 DEF BookInv, LockInv, ControlTypeOK
  <2>4. CASE file' = tmp /\ UNCHANGED <<quarantined, day>>
    <3>1. Book!Operate(op[t], Id(t), now)
      BY <2>1, <2>2, <2>3, <2>4, SameApply DEF Computed, Book!Operate, Load, Book!Load,
         Saves, Book!Saves, DefaultLedger, Book!DefaultLedger, NotALedger, Book!NotALedger
    <3>2. QED
      BY <3>1, <2>1, <2>3 DEF Book!Next
  <2>5. CASE UNCHANGED <<file, quarantined, day>>
    BY <2>5
  <2>6. QED
    BY <1>3, <2>4, <2>5 DEF Rename
<1>4. ASSUME NextDay PROVE Book!Next
  BY <1>4 DEF NextDay, Book!NextDay, Book!Next
<1>5. ASSUME NEW t \in Thread,
             \/ TakeMutex(t) \/ CreateLock(t) \/ CreateLockFails(t) \/ StatLock(t)
             \/ RemoveStaleLock(t) \/ Inspect(t) \/ LoadAndApply(t) \/ OpenTmp(t)
             \/ DropLock(t) \/ DropMutex(t)
      PROVE  UNCHANGED Book!bookVars
  BY <1>5 DEF TakeMutex, CreateLock, CreateLockFails, StatLock, RemoveStaleLock, Inspect,
              LoadAndApply, OpenTmp, DropLock, DropMutex
<1>6. ASSUME NEW t \in Thread, NEW o \in Ops, Call(t, o) PROVE UNCHANGED Book!bookVars
  BY <1>6 DEF Call
<1>7. ASSUME NEW p \in Proc, Crash(p) PROVE UNCHANGED Book!bookVars
  BY <1>7 DEF Crash
<1>8. ASSUME Tick PROVE UNCHANGED Book!bookVars
  BY <1>8 DEF Tick
<1>9. CASE UNCHANGED vars
  BY <1>9 DEF vars
<1>10. QED
  BY <1>1, <1>2, <1>3, <1>4, <1>5, <1>6, <1>7, <1>8, <1>9 DEF Next, ThreadStep

(* The writers of all processes together behave like the book: every       *)
(* change of velox_ledger.json is one whole record, clear or settings      *)
(* operation applied to what was there, or a quarantine.  No update is     *)
(* lost, none is torn.                                                     *)
THEOREM LedgerImplementsBook ==
  ASSUME Dependable, "rename" \notin DiskFaults
  PROVE  Spec => ImplementsBook
<1>1. Init => Book!Init
  BY DEF Init, Book!Init
<1>2. QED
  BY <1>1, InitBook, NextBook, NextImplements, PTL DEF Spec, ImplementsBook, Book!Spec

-----------------------------------------------------------------------------
(* What the operations compute.                                            *)

LEMMA LoadType ==
  ASSUME NEW content \in Ledgers \cup NotALedger
  PROVE  Load(content) \in Ledgers
  BY DEF Load, DefaultLedger, Ledgers

(* What is left of a list of records is made of some of its places, in     *)
(* their order; and a record that is not older than one that is left, and  *)
(* stands behind it, is left too.                                          *)
Remains(after, before) ==
    \E from \in [DOMAIN after -> DOMAIN before] :
      /\ \A k \in DOMAIN after : after[k] = before[from[k]]
      /\ \A k, l \in DOMAIN after : k < l => from[k] < from[l]
      /\ \A k \in DOMAIN after, j \in DOMAIN before :
            from[k] < j /\ before[from[k]].ts <= before[j].ts
            => \E l \in DOMAIN after : from[l] = j

LEMMA NewestRemains ==
  ASSUME NEW records \in Seq(SessionRecord)
  PROVE  Newest(records) \in Seq(SessionRecord) /\ Remains(Newest(records), records)
<1> DEFINE L == Len(records)
           d == IF L <= MaxRecords THEN 0 ELSE L - MaxRecords
           r == Newest(records)
           from == [k \in DOMAIN r |-> k + d]
<1>1. L \in Nat /\ d \in 0..L /\ MaxRecords \in Nat \ {0}
  OBVIOUS
<1>2. r \in Seq(SessionRecord) /\ Len(r) = L - d /\ \A k \in 1..(L - d) : r[k] = records[k + d]
  <2>1. CASE L <= MaxRecords
    BY <2>1 DEF Newest
  <2>2. CASE ~(L <= MaxRecords)
    <3>1. r = SubSeq(records, d + 1, L) /\ d + 1 \in 1..L
      BY <1>1, <2>2 DEF Newest
    <3> HIDE DEF d, r
    <3>2. QED
      BY <1>1, <3>1
  <2>3. QED
    BY <2>1, <2>2
<1> HIDE DEF d, r
<1>3. DOMAIN r = 1..(L - d) /\ DOMAIN records = 1..L
  BY <1>2
<1>4. from \in [DOMAIN r -> DOMAIN records] /\ \A k \in DOMAIN r : from[k] = k + d
  BY <1>1, <1>3
<1>5. ASSUME NEW k \in DOMAIN r, NEW j \in DOMAIN records, from[k] < j
      PROVE  \E l \in DOMAIN r : from[l] = j
  <2>1. j - d \in 1..(L - d) /\ (j - d) + d = j
    BY <1>1, <1>3, <1>4, <1>5
  <2>2. QED
    BY <1>3, <1>4, <2>1
<1>6. \A k, l \in DOMAIN r : k < l => from[k] < from[l]
  BY <1>1, <1>3, <1>4
<1>7. \A k \in DOMAIN r : r[k] = records[from[k]]
  BY <1>2, <1>3, <1>4
<1>8. Remains(r, records)
  <2> HIDE DEF from
  <2>1. QED
    BY <1>4, <1>5, <1>6, <1>7 DEF Remains
<1>9. QED
  BY <1>2, <1>8 DEF r

LEMMA RetentionRemains ==
  ASSUME NEW ledger \in Ledgers, NEW now \in Nat
  PROVE  /\ WithinRetention(ledger, now) \in Seq(SessionRecord)
         /\ Remains(WithinRetention(ledger, now), ledger.records)
<1> DEFINE s == ledger.records
           Young == IF ledger.days = 0 THEN DOMAIN s
                    ELSE {i \in DOMAIN s : s[i].ts >= now - ledger.days}
           r == WithinRetention(ledger, now)
           from == [k \in DOMAIN r |-> Nth(Young, k)]
<1>1. s \in Seq(SessionRecord) /\ ledger.days \in Nat /\ Young \in SUBSET DOMAIN s
  BY DEF Ledgers
<1>2. r = Select(s, Young)
  BY <1>1, SelectAll DEF WithinRetention
<1>3. \A i, j \in DOMAIN s : i \in Young /\ s[i].ts <= s[j].ts => j \in Young
  <2>1. \A i \in DOMAIN s : s[i].ts \in Nat
    <3> HIDE DEF s, Young
    <3>1. \A i \in DOMAIN s : s[i] \in SessionRecord
      BY <1>1
    <3>2. QED
      BY <3>1 DEF SessionRecord
  <2>2. CASE ledger.days = 0
    BY <2>2
  <2>3. CASE ledger.days # 0
    <3> HIDE DEF s
    <3>1. QED
      BY <1>1, <2>1, <2>3
  <2>4. QED
    BY <2>2, <2>3
<1> HIDE DEF s, r, Young
<1>4. /\ r \in Seq(SessionRecord)
      /\ \A n \in DOMAIN r : Nth(Young, n) \in Young /\ r[n] = s[Nth(Young, n)]
      /\ \A i \in Young : \E n \in DOMAIN r : Nth(Young, n) = i
      /\ \A m, n \in DOMAIN r : m < n => Nth(Young, m) < Nth(Young, n)
  BY <1>1, <1>2, SelectKeeps
<1>5. from \in [DOMAIN r -> DOMAIN s] /\ \A k \in DOMAIN r : from[k] = Nth(Young, k)
  BY <1>1, <1>4
<1> HIDE DEF from
<1>6. ASSUME NEW k \in DOMAIN r, NEW j \in DOMAIN s, s[from[k]].ts <= s[j].ts
      PROVE  \E l \in DOMAIN r : from[l] = j
  <2>1. from[k] \in Young /\ from[k] \in DOMAIN s
    BY <1>4, <1>5
  <2>2. j \in Young
    BY <1>3, <1>6, <2>1
  <2>3. QED
    BY <1>4, <1>5, <2>2
<1>7. Remains(r, s)
  BY <1>4, <1>5, <1>6 DEF Remains
<1>8. QED
  BY <1>4, <1>7 DEF r, s

LEMMA RemainsTransitive ==
  ASSUME NEW a \in Seq(SessionRecord), NEW b \in Seq(SessionRecord),
         NEW c \in Seq(SessionRecord), Remains(a, b), Remains(b, c)
  PROVE  Remains(a, c)
<1>1. PICK f \in [DOMAIN a -> DOMAIN b] :
         /\ \A k \in DOMAIN a : a[k] = b[f[k]]
         /\ \A k, l \in DOMAIN a : k < l => f[k] < f[l]
         /\ \A k \in DOMAIN a, j \in DOMAIN b :
               f[k] < j /\ b[f[k]].ts <= b[j].ts => \E l \in DOMAIN a : f[l] = j
  BY DEF Remains
<1>2. PICK g \in [DOMAIN b -> DOMAIN c] :
         /\ \A k \in DOMAIN b : b[k] = c[g[k]]
         /\ \A k, l \in DOMAIN b : k < l => g[k] < g[l]
         /\ \A k \in DOMAIN b, j \in DOMAIN c :
               g[k] < j /\ c[g[k]].ts <= c[j].ts => \E l \in DOMAIN b : g[l] = j
  BY DEF Remains
<1> DEFINE h == [k \in DOMAIN a |-> g[f[k]]]
<1>3. h \in [DOMAIN a -> DOMAIN c] /\ \A k \in DOMAIN a : h[k] = g[f[k]] /\ f[k] \in DOMAIN b
  BY <1>1, <1>2
<1> HIDE DEF h
<1>4. \A k \in DOMAIN a : a[k] = c[h[k]]
  BY <1>1, <1>2, <1>3
<1>5. \A k, l \in DOMAIN a : k < l => h[k] < h[l]
  BY <1>1, <1>2, <1>3
<1>6. ASSUME NEW k \in DOMAIN a, NEW j \in DOMAIN c, h[k] < j, c[h[k]].ts <= c[j].ts
      PROVE  \E l \in DOMAIN a : h[l] = j
  <2>0. f[k] \in DOMAIN b /\ g[f[k]] < j /\ c[g[f[k]]].ts <= c[j].ts
    BY <1>3, <1>6
  <2>1. PICK m \in DOMAIN b : g[m] = j
    BY <1>2, <2>0, Zenon
  <2>2. f[k] < m
    <3>1. DOMAIN b \subseteq Nat /\ DOMAIN c \subseteq Nat
      OBVIOUS
    <3>2. ASSUME m <= f[k] PROVE FALSE
      <4>1. g[m] <= g[f[k]] /\ h[k] = g[f[k]] /\ g[f[k]] \in DOMAIN c
        <5>1. m = f[k] \/ m < f[k]
          BY <1>3, <3>1, <3>2
        <5>2. QED
          BY <1>2, <1>3, <3>1, <5>1
      <4>2. QED
        BY <1>6, <2>1, <3>1, <4>1
    <3>3. QED
      BY <1>3, <3>1, <3>2
  <2>3. b[f[k]].ts <= b[m].ts
    BY <1>2, <1>3, <1>6, <2>1
  <2>4. PICK l \in DOMAIN a : f[l] = m
    BY <1>1, <2>2, <2>3
  <2>5. QED
    BY <1>3, <2>1, <2>4
<1>7. \A k \in DOMAIN a, j \in DOMAIN c :
         h[k] < j /\ c[h[k]].ts <= c[j].ts => \E l \in DOMAIN a : h[l] = j
  BY <1>6
<1>8. QED
  BY <1>3, <1>4, <1>5, <1>7, Zenon DEF Remains

(* prune keeps the ledger's settings, and of its records what it should.   *)
LEMMA PruneRemains ==
  ASSUME NEW ledger \in Ledgers, NEW now \in Nat
  PROVE  /\ Prune(ledger, now) \in Ledgers
         /\ Prune(ledger, now).enabled = ledger.enabled
         /\ Prune(ledger, now).days = ledger.days
         /\ Remains(Prune(ledger, now).records, ledger.records)
<1> DEFINE within == WithinRetention(ledger, now)
           left == Newest(within)
<1>1. within \in Seq(SessionRecord) /\ Remains(within, ledger.records)
  BY RetentionRemains
<1> HIDE DEF within
<1>2. left \in Seq(SessionRecord) /\ Remains(left, within)
  BY <1>1, NewestRemains
<1> HIDE DEF left
<1>3. ledger.records \in Seq(SessionRecord)
  BY DEF Ledgers
<1>4. Remains(left, ledger.records)
  BY <1>1, <1>2, <1>3, RemainsTransitive
<1>5. Prune(ledger, now) = [ledger EXCEPT !.records = left]
  BY DEF Prune, left, within
<1>6. QED
  BY <1>2, <1>4, <1>5 DEF Ledgers

LEMMA PushType ==
  ASSUME NEW ledger \in Ledgers, NEW id \in RecordId, NEW now \in Nat
  PROVE  /\ Push(ledger, id, now) \in Ledgers
         /\ Push(ledger, id, now).records = Append(ledger.records, [id |-> id, ts |-> now])
         /\ Push(ledger, id, now).enabled = ledger.enabled
         /\ Push(ledger, id, now).days = ledger.days
<1> DEFINE longer == Append(ledger.records, [id |-> id, ts |-> now])
<1>1. [id |-> id, ts |-> now] \in SessionRecord
  BY DEF SessionRecord
<1>2. longer \in Seq(SessionRecord)
  BY <1>1 DEF Ledgers
<1>3. Push(ledger, id, now) = [ledger EXCEPT !.records = longer]
  BY DEF Push
<1> HIDE DEF longer
<1>4. QED
  BY <1>2, <1>3 DEF Ledgers, longer

LEMMA ApplyType ==
  ASSUME NEW o \in AllOps, NEW ledger \in Ledgers, NEW id \in RecordId, NEW now \in Nat
  PROVE  Apply(o, ledger, id, now) \in Ledgers
<1>1. CASE o.name = "record"
  BY <1>1, PushType, PruneRemains DEF Apply
<1>2. CASE o.name = "clear"
  <2> DEFINE empty == <<>>
  <2>1. empty \in Seq(SessionRecord)
    OBVIOUS
  <2>2. Apply(o, ledger, id, now) = [ledger EXCEPT !.records = empty]
    BY <1>2 DEF Apply
  <2> HIDE DEF empty
  <2>3. QED
    BY <2>1, <2>2 DEF Ledgers
<1>3. CASE o.name = "set_enabled"
  BY <1>3 DEF Apply, Ledgers
<1>4. CASE o.name = "set_retention_days"
  <2>1. [ledger EXCEPT !.days = o.arg] \in Ledgers
    BY DEF Ledgers, AllOps
  <2>2. QED
    BY <1>4, <2>1, PruneRemains DEF Apply
<1>5. QED
  BY <1>1, <1>2, <1>3, <1>4 DEF AllOps

-----------------------------------------------------------------------------
(* Types.                                                                  *)

LEMMA InitType == Init => TypeOK
<1>1. DefaultLedger \in Ledgers
  BY DEF DefaultLedger, Ledgers
<1>2. QED
  BY <1>1, InitControlType DEF Init, TypeOK, DataTypeOK, NotALedger

LEMMA NextType == TypeOK /\ [Next]_vars => TypeOK'
<1> SUFFICES ASSUME TypeOK, [Next]_vars PROVE DataTypeOK'
  BY NextControlType DEF TypeOK
<1>0. /\ file \in Ledgers \cup NotALedger /\ tmp \in Ledgers \cup NotALedger
      /\ quarantined \subseteq Ledgers \cup NotALedger /\ buf \in [Thread -> Ledgers]
      /\ Missing \in NotALedger /\ Garbage \in NotALedger
  BY DEF TypeOK, DataTypeOK, NotALedger
<1>s. SUFFICES /\ file' \in Ledgers \cup NotALedger /\ tmp' \in Ledgers \cup NotALedger
               /\ quarantined' \subseteq Ledgers \cup NotALedger /\ buf' \in [Thread -> Ledgers]
  BY DEF DataTypeOK
<1>1. ASSUME NEW t \in Thread, Quarantine(t) PROVE DataTypeOK'
  BY <1>0, <1>1 DEF Quarantine, DataTypeOK
<1>2. ASSUME NEW t \in Thread, LoadAndApply(t) PROVE DataTypeOK'
  <2>1. Load(file) \in Ledgers
    BY <1>0, LoadType
  <2>2. op[t] \in AllOps /\ Id(t) \in RecordId /\ day \in Nat
    BY DEF TypeOK, ControlTypeOK, Id
  <2>3. Apply(op[t], Load(file), Id(t), day) \in Ledgers
    BY <2>1, <2>2, ApplyType
  <2>4. QED
    BY <1>0, <1>2, <2>3 DEF LoadAndApply, DataTypeOK
<1>3. ASSUME NEW t \in Thread, OpenTmp(t) \/ WriteTmp(t) \/ Rename(t) PROVE DataTypeOK'
  BY <1>0, <1>3 DEF OpenTmp, WriteTmp, Rename, DataTypeOK
<1>4. ASSUME NEW t \in Thread, DropMutex(t) PROVE DataTypeOK'
  <2>1. DefaultLedger \in Ledgers
    BY DEF DefaultLedger, Ledgers
  <2>2. QED
    BY <1>0, <1>4, <2>1 DEF DropMutex, DataTypeOK
<1>5. CASE UNCHANGED <<file, tmp, quarantined, buf>>
  BY <1>0, <1>5
<1>6. QED
  BY <1>1, <1>2, <1>3, <1>4, <1>5 DEF Next, ThreadStep, Call, TakeMutex, CreateLock,
     CreateLockFails, StatLock, RemoveStaleLock, Inspect, DropLock, Crash, Tick, NextDay,
     vars, dataVars, DataTypeOK

(* Control, files and what the writers hold keep their types, under any    *)
(* faults and crashes, also when two writers are at work.                  *)
THEOREM LedgerTypeCorrect == Spec => []TypeOK
  BY InitType, NextType, PTL DEF Spec

-----------------------------------------------------------------------------
(* Saving.  What a holder is about to install was computed from the ledger *)
(* that is still on disk, also when other processes have died in the       *)
(* middle of a save, and when any file operation may fail.                 *)
Saving == {"open_tmp", "write_tmp", "rename"}

Prepared(t, now) ==
    /\ Saves(op[t], Load(file))
    /\ buf[t] = Apply(op[t], Load(file), Id(t), now)

HoldsItsOwn(t) ==
    /\ pc[t] \notin {"idle", "dead"} => calls[t] \in 1..MaxCalls /\ op[t] \in Ops
    /\ pc[t] = "quarantine" => file = Garbage
    /\ pc[t] \in Saving => \E now \in 0..day : Prepared(t, now)
    /\ pc[t] = "write_tmp" => tmp # Missing
    /\ pc[t] = "rename" => tmp = buf[t]

SaveInv == TypeOK /\ \A t \in Thread : HoldsItsOwn(t)

(* How the ledger's file changes: not, or by a quarantine, or by the       *)
(* rename of one thread, which installs a whole operation.                 *)
Installs(t) ==
    /\ pc[t] = "rename" /\ pc' = [pc EXCEPT ![t] = "unlock"]
    /\ file' = buf[t]
    /\ acked' = IF op[t].name = "record" THEN acked \cup {Id(t)} ELSE acked
    /\ UNCHANGED <<op, calls, day, buf>>

FileStep ==
    \/ UNCHANGED <<file, acked>>
    \/ file = Garbage /\ file' = Missing /\ UNCHANGED acked
    \/ \E t \in Thread : Installs(t)

LEMMA InitSave == Init => SaveInv
  BY InitType DEF Init, SaveInv, HoldsItsOwn, Saving

LEMMA NextSave == SaveInv /\ MutualExclusion /\ [Next]_vars => SaveInv'
<1> SUFFICES ASSUME SaveInv, MutualExclusion, [Next]_vars, NEW s \in Thread
             PROVE  HoldsItsOwn(s)'
  BY NextType DEF SaveInv
<1>0. /\ pc \in [Thread -> Steps] /\ calls \in [Thread -> 0..MaxCalls]
      /\ op \in [Thread -> AllOps] /\ day \in 0..MaxDay /\ buf \in [Thread -> Ledgers]
      /\ HoldsItsOwn(s)
  BY DEF SaveInv, TypeOK, ControlTypeOK, DataTypeOK
<1>a. \A t \in Thread : pc[t] \in Critical /\ pc[s] \in Critical => t = s
  BY DEF MutualExclusion, Holders
<1>b. Missing # Garbage
  OBVIOUS
<1> USE DEF HoldsItsOwn, Saving, Critical, Goto, At, lockVars, dataVars, pastVars
<1>1. ASSUME NEW t \in Thread, NEW o \in Ops, Call(t, o) PROVE HoldsItsOwn(s)'
  BY <1>0, <1>1 DEF Call, Prepared, Id
<1>2. ASSUME NEW t \in Thread,
             \/ TakeMutex(t) \/ CreateLock(t) \/ CreateLockFails(t) \/ StatLock(t)
             \/ RemoveStaleLock(t) \/ DropLock(t)
      PROVE  HoldsItsOwn(s)'
  BY <1>0, <1>2 DEF TakeMutex, CreateLock, CreateLockFails, StatLock, RemoveStaleLock,
     DropLock, Prepared, Id, Steps
<1>3. ASSUME NEW t \in Thread, Inspect(t) PROVE HoldsItsOwn(s)'
  BY <1>0, <1>3 DEF Inspect, Prepared, Id
<1>4. ASSUME NEW t \in Thread, Quarantine(t) PROVE HoldsItsOwn(s)'
  BY <1>0, <1>a, <1>4 DEF Quarantine, Prepared, Id
<1>5. ASSUME NEW t \in Thread, LoadAndApply(t) PROVE HoldsItsOwn(s)'
  BY <1>0, <1>a, <1>5 DEF LoadAndApply, Prepared, Id
<1>6. ASSUME NEW t \in Thread, OpenTmp(t) PROVE HoldsItsOwn(s)'
  BY <1>0, <1>a, <1>b, <1>6 DEF OpenTmp, Prepared, Id
<1>7. ASSUME NEW t \in Thread, WriteTmp(t) PROVE HoldsItsOwn(s)'
  BY <1>0, <1>a, <1>7 DEF WriteTmp, Prepared, Id
<1>8. ASSUME NEW t \in Thread, Rename(t) PROVE HoldsItsOwn(s)'
  BY <1>0, <1>a, <1>8 DEF Rename, Prepared, Id
<1>9. ASSUME NEW t \in Thread, DropMutex(t) PROVE HoldsItsOwn(s)'
  BY <1>0, <1>9 DEF DropMutex, Prepared, Id
<1>10. ASSUME NEW p \in Proc, Crash(p) PROVE HoldsItsOwn(s)'
  BY <1>0, <1>10 DEF Crash, Prepared, Id
<1>11. ASSUME Tick \/ NextDay PROVE HoldsItsOwn(s)'
  BY <1>0, <1>11 DEF Tick, NextDay, Prepared, Id
<1>12. CASE UNCHANGED vars
  BY <1>0, <1>12 DEF vars, Prepared, Id
<1>13. QED
  BY <1>1, <1>2, <1>3, <1>4, <1>5, <1>6, <1>7, <1>8, <1>9, <1>10, <1>11, <1>12
  DEF Next, ThreadStep

LEMMA FileSteps == SaveInv /\ MutualExclusion /\ [Next]_vars => FileStep
<1> SUFFICES ASSUME SaveInv, MutualExclusion, [Next]_vars PROVE FileStep
  OBVIOUS
<1> USE DEF lockVars, dataVars, pastVars
<1>1. ASSUME NEW t \in Thread, Quarantine(t) PROVE FileStep
  BY <1>1 DEF Quarantine, At, SaveInv, HoldsItsOwn, FileStep
<1>2. ASSUME NEW t \in Thread, WriteTmp(t) PROVE FileStep
  BY <1>2 DEF WriteTmp, At, SaveInv, HoldsItsOwn, FileStep
<1>3. ASSUME NEW t \in Thread, Rename(t) PROVE FileStep
  BY <1>3 DEF Rename, At, Goto, SaveInv, HoldsItsOwn, FileStep, Installs
<1>4. CASE UNCHANGED <<file, acked>>
  BY <1>4 DEF FileStep
<1>5. QED
  BY <1>1, <1>2, <1>3, <1>4 DEF Next, ThreadStep, Call, TakeMutex, CreateLock,
     CreateLockFails, StatLock, RemoveStaleLock, Inspect, LoadAndApply, OpenTmp, DropLock,
     DropMutex, Crash, Tick, NextDay, vars

(* atomic_write: as long as the lock excludes, no kill and no failure of a *)
(* file operation leaves a half-written text under the ledger's name.      *)
THEOREM SavesAreAtomic == Spec /\ []MutualExclusion => NeverTorn
<1>1. SaveInv /\ MutualExclusion /\ [Next]_vars => [file' = Garbage => file = Garbage]_vars
  <2> SUFFICES ASSUME SaveInv, MutualExclusion, [Next]_vars, file' = Garbage
               PROVE  file = Garbage
    OBVIOUS
  <2>1. Garbage \notin Ledgers /\ Garbage # Missing
    BY DEF NotALedger
  <2>2. \A t \in Thread : buf[t] \in Ledgers
    BY DEF SaveInv, TypeOK, DataTypeOK
  <2>3. QED
    BY <2>1, <2>2, FileSteps DEF FileStep, Installs
<1>2. QED
  BY InitSave, NextSave, <1>1, PTL DEF Spec, NeverTorn

-----------------------------------------------------------------------------
(* Nothing in this instance drops a record: no clear, no retention shorter *)
(* than the run, and room for a record of every call.                      *)
Lasting(days) == days = 0 \/ MaxDay <= days

AllCalls == Thread \X (1..MaxCalls)

NothingDrops ==
    /\ \A o \in Ops : /\ o.name # "clear"
                      /\ o.name = "set_retention_days" => Lasting(o.arg)
    /\ Lasting(DefaultDays)
    /\ IsFiniteSet(Thread)
    /\ Cardinality(AllCalls) <= MaxRecords
    /\ \A f \in InitialFiles :
         /\ Lasting(Load(f).days)
         /\ Len(Load(f).records) + Cardinality(AllCalls) <= MaxRecords

(* The calls that may still save something.                                *)
Done(t, n) == n < calls[t] \/ (n = calls[t] /\ pc[t] \in {"unlock", "release", "idle", "dead"})
Open       == {c \in AllCalls : ~Done(c[1], c[2])}

KeepInv ==
    /\ SaveInv
    /\ acked \subseteq Ids(file)
    /\ Lasting(Load(file).days)
    /\ Len(Load(file).records) + Cardinality(Open) <= MaxRecords

(* Pruning a ledger that need not drop anything drops nothing.             *)
LEMMA PruneDropsNothing ==
  ASSUME NEW ledger \in Ledgers, NEW now \in 0..MaxDay, Lasting(ledger.days),
         Len(ledger.records) <= MaxRecords
  PROVE  Prune(ledger, now).records = ledger.records
<1> DEFINE s == ledger.records
<1>1. s \in Seq(SessionRecord) /\ ledger.days \in Nat
  BY DEF Ledgers
<1>2. \A i \in DOMAIN s : s[i].ts \in Nat
  <2> HIDE DEF s
  <2>1. \A i \in DOMAIN s : s[i] \in SessionRecord
    BY <1>1
  <2>2. QED
    BY <2>1 DEF SessionRecord
<1>3. WithinRetention(ledger, now) = s
  <2>1. CASE ledger.days = 0
    BY <2>1 DEF WithinRetention
  <2>2. CASE ledger.days # 0
    <3> DEFINE cutoff == now - ledger.days
               young == {i \in DOMAIN s : s[i].ts >= cutoff}
    <3>1. cutoff <= 0 /\ cutoff \in Int
      BY <1>1, <2>2 DEF Lasting
    <3>2. WithinRetention(ledger, now) = Select(s, young)
      BY <2>2 DEF WithinRetention
    <3> HIDE DEF s, cutoff
    <3>3. young = DOMAIN s
      <4>1. \A i \in DOMAIN s : s[i].ts >= cutoff
        BY <1>2, <3>1
      <4>2. QED
        BY <4>1
    <3>4. QED
      BY <1>1, <3>2, <3>3, SelectAll
  <2>3. QED
    BY <2>1, <2>2
<1>4. Newest(s) = s
  BY DEF Newest
<1>5. QED
  BY <1>3, <1>4 DEF Prune, Ledgers

(* The calls that may still save become fewer, by one with every save.     *)
LEMMA OpenShrinks ==
  ASSUME TypeOK, [Next]_vars PROVE Open' \subseteq Open
<1> SUFFICES ASSUME NEW c \in AllCalls, Done(c[1], c[2]) PROVE Done(c[1], c[2])'
  BY DEF Open
<1> DEFINE u == c[1]
           n == c[2]
<1>1. u \in Thread /\ n \in 1..MaxCalls
  BY DEF AllCalls
<1> HIDE DEF u, n
<1>2. /\ pc \in [Thread -> Steps] /\ calls \in [Thread -> 0..MaxCalls]
      /\ Done(u, n)
  BY DEF TypeOK, ControlTypeOK, u, n
<1>3. SUFFICES Done(u, n)'
  BY DEF u, n
<1>4. CASE \E t \in Thread, o \in Ops : Call(t, o)
  BY <1>1, <1>2, <1>4 DEF Call, Done, Goto, At
<1>5. CASE \E t \in Thread : ThreadStep(t)
  <2>1. PICK t \in Thread : ThreadStep(t)
    BY <1>5
  <2>2. calls' = calls /\ pc' = [pc EXCEPT ![t] = pc'[t]]
    BY <1>2, <2>1 DEF ThreadStep, TakeMutex, CreateLock, CreateLockFails, StatLock,
       RemoveStaleLock, Inspect, Quarantine, LoadAndApply, OpenTmp, WriteTmp, Rename, DropLock,
       DropMutex, Goto, pastVars
  <2>3. pc[t] \in {"unlock", "release", "idle", "dead"} => pc'[t] \in {"release", "idle"}
    BY <1>2, <2>1 DEF ThreadStep, TakeMutex, CreateLock, CreateLockFails, StatLock,
       RemoveStaleLock, Inspect, Quarantine, LoadAndApply, OpenTmp, WriteTmp, Rename, DropLock,
       DropMutex, Goto, At
  <2>4. QED
    BY <1>1, <1>2, <2>2, <2>3 DEF Done
<1>6. CASE \E p \in Proc : Crash(p)
  BY <1>1, <1>2, <1>6 DEF Crash, Done
<1>7. CASE Tick \/ NextDay \/ UNCHANGED vars
  BY <1>1, <1>2, <1>7 DEF Tick, NextDay, vars, Done, pastVars
<1>8. QED
  BY <1>4, <1>5, <1>6, <1>7 DEF Next

LEMMA OpenFinite ==
  ASSUME IsFiniteSet(Thread)
  PROVE  IsFiniteSet(AllCalls) /\ IsFiniteSet(Open) /\ Cardinality(Open) \in Nat
<1>1. IsFiniteSet(1..MaxCalls)
  <2>1. 1 \in Int /\ MaxCalls \in Int
    OBVIOUS
  <2>2. QED
    BY <2>1, FS_Interval
<1>2. IsFiniteSet(AllCalls)
  BY <1>1, FS_Product DEF AllCalls
<1>3. Open \subseteq AllCalls
  BY DEF Open
<1>4. QED
  BY <1>2, <1>3, FS_Subset, FS_CardinalityType

LEMMA OpenCloses ==
  ASSUME TypeOK, NEW t \in Thread,
         calls[t] \in 1..MaxCalls, pc[t] = "rename", pc'[t] = "unlock", calls' = calls
  PROVE  Id(t) \in Open /\ Id(t) \notin Open'
<1>1. Id(t) \in AllCalls /\ Id(t)[1] = t /\ Id(t)[2] = calls[t]
  BY DEF AllCalls, Id
<1>2. ~Done(t, calls[t]) /\ Done(t, calls[t])'
  BY DEF Done
<1>3. Id(t) \in Open
  BY <1>1, <1>2 DEF Open
<1>4. Id(t) \notin Open'
  BY <1>1, <1>2 DEF Open, Done
<1>5. QED
  BY <1>3, <1>4

LEMMA OpenByOne ==
  ASSUME TypeOK, [Next]_vars, IsFiniteSet(Thread), NEW t \in Thread,
         calls[t] \in 1..MaxCalls, pc[t] = "rename", pc'[t] = "unlock", calls' = calls
  PROVE  /\ Id(t) \in Open /\ Id(t) \notin Open'
         /\ Cardinality(Open') \in Nat /\ Cardinality(Open') + 1 <= Cardinality(Open)
<1>3. Id(t) \in Open /\ Id(t) \notin Open'
  BY OpenCloses
<1>4. Id(t) \notin Open'
  BY <1>3
<1>5. IsFiniteSet(Open) /\ Cardinality(Open) \in Nat /\ Open' \subseteq Open
  BY OpenShrinks, OpenFinite
<1> DEFINE rest == Open'
<1>6. rest \subseteq Open \ {Id(t)}
  BY <1>4, <1>5
<1> HIDE DEF rest
<1>7. IsFiniteSet(Open \ {Id(t)}) /\ Cardinality(Open \ {Id(t)}) = Cardinality(Open) - 1
  BY <1>3, <1>5, FS_RemoveElement
<1>8. Cardinality(rest) <= Cardinality(Open) - 1 /\ IsFiniteSet(rest)
  BY <1>6, <1>7, FS_Subset
<1>9. Cardinality(rest) \in Nat
  BY <1>8, FS_CardinalityType
<1>10. QED
  BY <1>3, <1>4, <1>5, <1>8, <1>9 DEF rest

LEMMA OwnContent ==
  ASSUME NEW content \in Ledgers
  PROVE  /\ Load(content) = content
         /\ Ids(content) = {content.records[i].id : i \in DOMAIN content.records}
<1>1. content \notin NotALedger
  OBVIOUS
<1>2. QED
  BY <1>1 DEF Load, Ids

(* What an operation of such an instance writes back.                      *)
LEMMA KeepingApply ==
  ASSUME NothingDrops, NEW o \in Ops, NEW ledger \in Ledgers, NEW id \in RecordId,
         NEW now \in 0..MaxDay, Lasting(ledger.days), Len(ledger.records) < MaxRecords
  PROVE  LET after == Apply(o, ledger, id, now)
         IN  /\ after \in Ledgers /\ Lasting(after.days)
             /\ after.records = IF o.name = "record"
                                THEN Append(ledger.records, [id |-> id, ts |-> now])
                                ELSE ledger.records
<1> DEFINE after == Apply(o, ledger, id, now)
<1>1. o \in AllOps /\ now \in Nat /\ ledger.records \in Seq(SessionRecord)
  BY DEF Ledgers
<1>2. after \in Ledgers
  BY <1>1, ApplyType
<1>3. CASE o.name = "record"
  <2> DEFINE pushed == Push(ledger, id, now)
  <2>1. /\ pushed \in Ledgers /\ pushed.days = ledger.days
        /\ pushed.records = Append(ledger.records, [id |-> id, ts |-> now])
    BY <1>1, PushType
  <2>2. after = Prune(pushed, now)
    BY <1>3 DEF Apply
  <2> HIDE DEF pushed, after
  <2>3. Len(pushed.records) <= MaxRecords
    BY <1>1, <2>1
  <2>4. after.records = pushed.records /\ after.days = pushed.days
    BY <1>1, <2>1, <2>2, <2>3, PruneDropsNothing, PruneRemains
  <2>5. QED
    BY <1>2, <1>3, <2>1, <2>4 DEF after
<1>4. CASE o.name = "set_enabled"
  <2>1. after = [ledger EXCEPT !.enabled = o.arg = 1]
    BY <1>4 DEF Apply
  <2> HIDE DEF after
  <2>2. after.records = ledger.records /\ after.days = ledger.days
    BY <2>1 DEF Ledgers
  <2>3. QED
    BY <1>2, <1>4, <2>2 DEF after
<1>5. CASE o.name = "set_retention_days"
  <2> DEFINE changed == [ledger EXCEPT !.days = o.arg]
  <2>1. changed \in Ledgers /\ changed.records = ledger.records /\ changed.days = o.arg
    BY <1>1 DEF Ledgers, AllOps
  <2>2. Lasting(o.arg)
    BY <1>5 DEF NothingDrops
  <2>3. after = Prune(changed, now)
    BY <1>5 DEF Apply
  <2> HIDE DEF changed, after
  <2>4. after.records = changed.records /\ after.days = changed.days
    BY <1>1, <2>1, <2>2, <2>3, PruneDropsNothing, PruneRemains
  <2>5. QED
    BY <1>2, <1>5, <2>1, <2>2, <2>4 DEF after
<1>6. QED
  BY <1>1, <1>3, <1>4, <1>5 DEF NothingDrops, AllOps

LEMMA InitKeep == ASSUME NothingDrops PROVE Init => KeepInv
<1> SUFFICES ASSUME Init PROVE KeepInv
  OBVIOUS
<1>1. SaveInv /\ acked = {} /\ file \in InitialFiles
  BY InitSave DEF Init
<1>2. IsFiniteSet(AllCalls) /\ Open \subseteq AllCalls /\ Cardinality(Open) \in Nat
  BY OpenFinite DEF NothingDrops, Open
<1>3. Cardinality(Open) <= Cardinality(AllCalls) /\ Cardinality(AllCalls) \in Nat
  BY <1>2, FS_Subset, FS_CardinalityType
<1>4. Load(file) \in Ledgers
  BY <1>1, LoadType DEF SaveInv, TypeOK, DataTypeOK
<1>5. Len(Load(file).records) \in Nat
  BY <1>4 DEF Ledgers
<1>6. QED
  BY <1>1, <1>2, <1>3, <1>5 DEF KeepInv, NothingDrops

LEMMA NextKeep ==
  ASSUME NothingDrops PROVE KeepInv /\ MutualExclusion /\ [Next]_vars => KeepInv'
<1> SUFFICES ASSUME KeepInv, MutualExclusion, [Next]_vars
             PROVE  /\ acked' \subseteq Ids(file')
                    /\ Lasting(Load(file').days)
                    /\ Len(Load(file').records) + Cardinality(Open') <= MaxRecords
  BY NextSave DEF KeepInv
<1>1. SaveInv /\ TypeOK /\ FileStep
  BY FileSteps DEF KeepInv, SaveInv
<1>2. /\ acked \subseteq Ids(file) /\ Lasting(Load(file).days)
      /\ Len(Load(file).records) + Cardinality(Open) <= MaxRecords
      /\ IsFiniteSet(Thread)
  BY DEF KeepInv, NothingDrops
<1>3. Load(file) \in Ledgers /\ Len(Load(file).records) \in Nat
  <2>1. Load(file) \in Ledgers
    BY <1>1, LoadType DEF TypeOK, DataTypeOK
  <2>2. QED
    BY <2>1 DEF Ledgers
<1>4. /\ IsFiniteSet(Open) /\ Cardinality(Open) \in Nat /\ Open' \subseteq Open
  BY <1>1, <1>2, OpenFinite, OpenShrinks
<1> DEFINE rest == Open'
<1>5. Cardinality(rest) \in Nat /\ Cardinality(rest) <= Cardinality(Open)
  <2>1. rest \subseteq Open
    BY <1>4
  <2> HIDE DEF rest
  <2>2. QED
    BY <1>4, <2>1, FS_Subset, FS_CardinalityType
<1>6. CASE UNCHANGED <<file, acked>>
  <2> HIDE DEF rest
  <2>1. Len(Load(file).records) + Cardinality(rest) <= MaxRecords
    BY <1>2, <1>3, <1>4, <1>5
  <2>2. QED
    BY <1>2, <1>6, <2>1 DEF rest
<1>7. CASE file = Garbage /\ file' = Missing /\ UNCHANGED acked
  <2>1. Load(file') = Load(file)
    BY <1>7 DEF Load, NotALedger
  <2>2. Ids(file') = Ids(file)
    BY <2>1 DEF Ids
  <2> HIDE DEF rest
  <2>3. Len(Load(file).records) + Cardinality(rest) <= MaxRecords
    BY <1>2, <1>3, <1>4, <1>5
  <2>4. QED
    BY <1>2, <1>7, <2>1, <2>2, <2>3 DEF rest
<1>8. ASSUME NEW t \in Thread, Installs(t)
      PROVE  /\ acked' \subseteq Ids(file')
             /\ Lasting(Load(file').days)
             /\ Len(Load(file').records) + Cardinality(rest) <= MaxRecords
  <2>1. /\ pc[t] = "rename" /\ op[t] \in Ops /\ calls[t] \in 1..MaxCalls
        /\ \E now \in 0..day : Prepared(t, now)
    BY <1>1, <1>8 DEF SaveInv, HoldsItsOwn, Installs, Saving
  <2>2. PICK now \in 0..day : Prepared(t, now)
    BY <2>1
  <2>3. now \in 0..MaxDay /\ Id(t) \in RecordId
    BY <1>1, <2>2 DEF TypeOK, ControlTypeOK, Id
  <2>4. /\ Id(t) \in Open /\ Cardinality(rest) + 1 <= Cardinality(Open)
    <3>1. pc'[t] = "unlock" /\ calls' = calls
      BY <1>1, <1>8 DEF Installs, TypeOK, ControlTypeOK
    <3>2. QED
      BY <1>1, <1>2, <2>1, <3>1, OpenByOne
  <2> HIDE DEF rest
  <2> DEFINE before == Load(file)
             after == Apply(op[t], before, Id(t), now)
  <2>5. Len(before.records) < MaxRecords
    BY <1>2, <1>3, <1>4, <1>5, <2>4
  <2>6. /\ after \in Ledgers /\ Lasting(after.days)
        /\ after.records = IF op[t].name = "record"
                           THEN Append(before.records, [id |-> Id(t), ts |-> now])
                           ELSE before.records
    <3> HIDE DEF before
    <3>1. before \in Ledgers /\ Lasting(before.days)
      BY <1>2, <1>3 DEF before
    <3>2. QED
      BY <2>1, <2>3, <2>5, <3>1, KeepingApply
  <2>7. file' = after
    BY <1>8, <2>2 DEF Installs, Prepared
  <2>8. Ids(file) = {before.records[i].id : i \in DOMAIN before.records}
    BY DEF Ids
  <2> HIDE DEF before, after
  <2>9. Load(file') = after /\ Ids(file') = {after.records[i].id : i \in DOMAIN after.records}
    BY <2>6, <2>7, OwnContent
  <2>10. before.records \in Seq(SessionRecord)
    BY <1>3 DEF before, Ledgers
  <2>11. CASE op[t].name = "record"
    <3> DEFINE b == before.records
               a == after.records
    <3>1. a = Append(b, [id |-> Id(t), ts |-> now]) /\ b \in Seq(SessionRecord)
      BY <2>6, <2>10, <2>11
    <3> HIDE DEF a, b
    <3>2. /\ Len(a) = Len(b) + 1 /\ a[Len(b) + 1].id = Id(t)
          /\ \A i \in DOMAIN b : i \in DOMAIN a /\ a[i] = b[i]
          /\ Len(b) + 1 \in DOMAIN a
      BY <3>1
    <3>3. Ids(file) \cup {Id(t)} \subseteq Ids(file')
      BY <2>8, <2>9, <3>2 DEF a, b
    <3>4. acked' = acked \cup {Id(t)}
      BY <1>8, <2>11 DEF Installs
    <3>5. Len(a) + Cardinality(rest) <= MaxRecords
      <4>1. Len(b) \in Nat /\ Len(b) + Cardinality(Open) <= MaxRecords
        BY <1>2, <1>3 DEF b, before
      <4>2. QED
        BY <1>4, <1>5, <2>4, <3>2, <4>1
    <3>6. QED
      BY <1>2, <2>6, <2>9, <3>3, <3>4, <3>5 DEF a
  <2>12. CASE op[t].name # "record"
    <3>1. after.records = before.records /\ acked' = acked
      BY <1>8, <2>6, <2>12 DEF Installs
    <3>2. Len(before.records) + Cardinality(rest) <= MaxRecords
      BY <1>2, <1>3, <1>4, <1>5 DEF before
    <3>3. QED
      BY <1>2, <2>6, <2>8, <2>9, <3>1, <3>2
  <2>13. QED
    BY <2>11, <2>12
<1>9. QED
  BY <1>1, <1>6, <1>7, <1>8 DEF FileStep

(* A record whose save succeeded stays in the ledger, whatever other       *)
(* writers do, whichever processes die and whichever file operations fail, *)
(* as long as the lock excludes and no operation is asked to drop records. *)
THEOREM AcknowledgedIsKept ==
  ASSUME NothingDrops PROVE Spec /\ []MutualExclusion => []AckedRecordsKept
<1>1. KeepInv => AckedRecordsKept
  BY DEF KeepInv, AckedRecordsKept
<1>2. QED
  BY InitKeep, NextKeep, <1>1, PTL DEF Spec

-----------------------------------------------------------------------------
(* The records of a ledger: each has an identity of its own, given by a    *)
(* call that was made, and they stand in the order they were made in.      *)
Tidy(records) ==
    /\ \A i, j \in DOMAIN records : records[i].id = records[j].id => i = j
    /\ \A i, j \in DOMAIN records : i < j => records[i].ts <= records[j].ts

TidyStart ==
    \A f \in InitialFiles :
      /\ Tidy(Load(f).records)
      /\ \A i \in DOMAIN Load(f).records :
           Load(f).records[i].id[2] = 0 /\ Load(f).records[i].ts = 0

Latest(now) == \A i \in DOMAIN Load(file).records : Load(file).records[i].ts <= now

OrderInv ==
    /\ SaveInv
    /\ Tidy(Load(file).records) /\ Latest(day)
    /\ \A i \in DOMAIN Load(file).records : Load(file).records[i].id \notin Open
    /\ \A t \in Thread : pc[t] \in Saving => \E now \in 0..day : Prepared(t, now) /\ Latest(now)

LEMMA TidyRemains ==
  ASSUME NEW after \in Seq(SessionRecord), NEW before \in Seq(SessionRecord),
         Remains(after, before), Tidy(before)
  PROVE  /\ Tidy(after)
         /\ \A k \in DOMAIN after : \E i \in DOMAIN before : after[k] = before[i]
         /\ \A i, j \in DOMAIN before, k \in DOMAIN after :
              i < j /\ after[k].id = before[i].id
              => \E l \in DOMAIN after : after[l] = before[j]
<1>1. PICK from \in [DOMAIN after -> DOMAIN before] :
         /\ \A k \in DOMAIN after : after[k] = before[from[k]]
         /\ \A k, l \in DOMAIN after : k < l => from[k] < from[l]
         /\ \A k \in DOMAIN after, j \in DOMAIN before :
               from[k] < j /\ before[from[k]].ts <= before[j].ts
               => \E l \in DOMAIN after : from[l] = j
  BY DEF Remains
<1>2. /\ DOMAIN after \subseteq Nat /\ DOMAIN before \subseteq Nat
      /\ \A k \in DOMAIN after : from[k] \in DOMAIN before
  OBVIOUS
<1>3. ASSUME NEW k \in DOMAIN after, NEW l \in DOMAIN after, after[k].id = after[l].id
      PROVE  k = l
  <2>1. from[k] = from[l]
    BY <1>1, <1>2, <1>3 DEF Tidy
  <2>2. ~(k < l) /\ ~(l < k)
    BY <1>1, <1>2, <2>1
  <2>3. QED
    BY <1>2, <2>2
<1>4. ASSUME NEW k \in DOMAIN after, NEW l \in DOMAIN after, k < l
      PROVE  after[k].ts <= after[l].ts
  BY <1>1, <1>2, <1>4 DEF Tidy
<1>5. ASSUME NEW i \in DOMAIN before, NEW j \in DOMAIN before, NEW k \in DOMAIN after,
             i < j, after[k].id = before[i].id
      PROVE  \E l \in DOMAIN after : after[l] = before[j]
  <2>1. from[k] = i
    BY <1>1, <1>2, <1>5 DEF Tidy
  <2>2. before[from[k]].ts <= before[j].ts
    BY <1>5, <2>1 DEF Tidy
  <2>3. PICK l \in DOMAIN after : from[l] = j
    BY <1>1, <1>5, <2>1, <2>2
  <2>4. QED
    BY <1>1, <2>3
<1>6. QED
  BY <1>1, <1>2, <1>3, <1>4, <1>5 DEF Tidy

(* What an operation makes of tidy records: a record is added only while   *)
(* recording is on, and those that go are the oldest.                      *)
LEMMA TidyApply ==
  ASSUME NEW o \in AllOps, NEW ledger \in Ledgers, NEW id \in RecordId, NEW now \in Nat,
         Tidy(ledger.records), Saves(o, ledger),
         \A i \in DOMAIN ledger.records :
            ledger.records[i].ts <= now /\ ledger.records[i].id # id
  PROVE  LET before == ledger.records
             after  == Apply(o, ledger, id, now).records
         IN  /\ Tidy(after)
             /\ \A k \in DOMAIN after :
                  \/ \E i \in DOMAIN before : after[k] = before[i]
                  \/ ledger.enabled /\ after[k] = [id |-> id, ts |-> now]
             /\ \A i, j \in DOMAIN before, k \in DOMAIN after :
                  i < j /\ after[k].id = before[i].id
                  => \E l \in DOMAIN after : after[l] = before[j]
<1> DEFINE before == ledger.records
           written == Apply(o, ledger, id, now)
           after == written.records
<1>1. before \in Seq(SessionRecord) /\ written \in Ledgers /\ after \in Seq(SessionRecord)
  <2>1. written \in Ledgers
    BY ApplyType
  <2> HIDE DEF written
  <2>2. QED
    BY <2>1 DEF Ledgers
<1>2. CASE o.name = "record"
  <2> DEFINE pushed == Push(ledger, id, now)
             longer == pushed.records
             new == [id |-> id, ts |-> now]
  <2>1. pushed \in Ledgers /\ longer = Append(before, new) /\ written = Prune(pushed, now)
    <3>1. pushed \in Ledgers /\ longer = Append(before, new)
      BY PushType
    <3>2. written = Prune(pushed, now)
      <4> HIDE DEF pushed
      <4>1. QED
        BY <1>2 DEF Apply, pushed
    <3>3. QED
      BY <3>1, <3>2
  <2>2. ledger.enabled
    BY <1>2 DEF Saves
  <2> HIDE DEF pushed, written
  <2>3. Remains(after, longer) /\ longer \in Seq(SessionRecord)
    BY <2>1, PruneRemains DEF Ledgers
  <2>4. new.id = id /\ new.ts = now /\ new \in SessionRecord
    BY DEF SessionRecord
  <2>5. \A i \in DOMAIN before : before[i].ts <= now /\ before[i].id # id
    OBVIOUS
  <2>6. Tidy(before)
    OBVIOUS
  <2> HIDE DEF longer, before, after, new
  <2>7. /\ DOMAIN longer = DOMAIN before \cup {Len(before) + 1}
        /\ longer[Len(before) + 1] = new /\ DOMAIN before = 1..Len(before)
        /\ \A i \in DOMAIN before : longer[i] = before[i]
        /\ Len(before) \in Nat
    BY <1>1, <2>1
  <2>8. Tidy(longer)
    <3>1. ASSUME NEW i \in DOMAIN longer, NEW j \in DOMAIN longer, longer[i].id = longer[j].id
          PROVE  i = j
      BY <2>4, <2>5, <2>6, <2>7, <3>1 DEF Tidy
    <3>2. ASSUME NEW i \in DOMAIN longer, NEW j \in DOMAIN longer, i < j
          PROVE  longer[i].ts <= longer[j].ts
      <4>1. i \in DOMAIN before
        BY <2>7, <3>2
      <4>2. QED
        BY <2>4, <2>5, <2>6, <2>7, <3>2, <4>1 DEF Tidy
    <3>3. QED
      BY <3>1, <3>2 DEF Tidy
  <2>9. /\ Tidy(after)
        /\ \A k \in DOMAIN after : \E i \in DOMAIN longer : after[k] = longer[i]
        /\ \A i, j \in DOMAIN longer, k \in DOMAIN after :
              i < j /\ after[k].id = longer[i].id
              => \E l \in DOMAIN after : after[l] = longer[j]
    BY <1>1, <2>3, <2>8, TidyRemains
  <2>10. \A k \in DOMAIN after : (\E i \in DOMAIN before : after[k] = before[i]) \/ after[k] = new
    BY <2>7, <2>9
  <2>11. \A i, j \in DOMAIN before, k \in DOMAIN after :
            i < j /\ after[k].id = before[i].id
            => \E l \in DOMAIN after : after[l] = before[j]
    BY <2>7, <2>9
  <2>12. QED
    BY <2>2, <2>9, <2>10, <2>11 DEF before, after, written, new
<1>3. CASE o.name = "clear"
  <2>1. DOMAIN after = {}
    BY <1>3 DEF Apply, Ledgers
  <2> HIDE DEF after, before
  <2>2. QED
    BY <2>1 DEF Tidy, after, before, written
<1>4. CASE o.name = "set_enabled"
  <2>1. after = before
    BY <1>4 DEF Apply, Ledgers
  <2>2. Tidy(before)
    OBVIOUS
  <2> HIDE DEF after, before
  <2>3. QED
    BY <2>1, <2>2 DEF after, before, written
<1>5. CASE o.name = "set_retention_days"
  <2> DEFINE changed == [ledger EXCEPT !.days = o.arg]
  <2>1. changed \in Ledgers /\ changed.records = before
    BY DEF Ledgers, AllOps
  <2>2. written = Prune(changed, now)
    BY <1>5 DEF Apply
  <2> HIDE DEF changed, written
  <2>3. Remains(after, before)
    BY <2>1, <2>2, PruneRemains
  <2>4. Tidy(before)
    OBVIOUS
  <2> HIDE DEF after, before
  <2>5. /\ Tidy(after)
        /\ \A k \in DOMAIN after : \E i \in DOMAIN before : after[k] = before[i]
        /\ \A i, j \in DOMAIN before, k \in DOMAIN after :
              i < j /\ after[k].id = before[i].id
              => \E l \in DOMAIN after : after[l] = before[j]
    BY <1>1, <2>3, <2>4, TidyRemains
  <2>6. QED
    BY <2>5 DEF after, before, written
<1>6. QED
  BY <1>2, <1>3, <1>4, <1>5 DEF AllOps

LEMMA InitOrder == ASSUME TidyStart PROVE Init => OrderInv
<1> SUFFICES ASSUME Init PROVE OrderInv
  OBVIOUS
<1>1. SaveInv /\ file \in InitialFiles /\ day = 0 /\ \A t \in Thread : pc[t] = "idle"
  BY InitSave DEF Init
<1>2. \A i \in DOMAIN Load(file).records :
         Load(file).records[i].id \notin Open /\ Load(file).records[i].ts <= day
  BY <1>1 DEF TidyStart, Open, AllCalls
<1>3. QED
  BY <1>1, <1>2 DEF OrderInv, TidyStart, Latest, Saving

(* A change in memory is stamped no earlier than any record it is made to. *)
LEMMA NextStamped ==
  ASSUME SaveInv, MutualExclusion, [Next]_vars, Latest(day), NEW s \in Thread,
         pc[s] \in Saving => \E now \in 0..day : Prepared(s, now) /\ Latest(now)
  PROVE  pc'[s] \in Saving => \E now \in 0..day' : Prepared(s, now)' /\ Latest(now)'
<1> SUFFICES ASSUME pc'[s] \in Saving
             PROVE  \E now \in 0..day' : Prepared(s, now)' /\ Latest(now)'
  OBVIOUS
<1>0. /\ pc \in [Thread -> Steps] /\ calls \in [Thread -> 0..MaxCalls]
      /\ op \in [Thread -> AllOps] /\ day \in 0..MaxDay /\ buf \in [Thread -> Ledgers]
  BY DEF SaveInv, TypeOK, ControlTypeOK, DataTypeOK
<1>a. \A t \in Thread : pc[t] \in Critical /\ pc[s] \in Critical => t = s
  BY DEF MutualExclusion, Holders
<1> USE DEF Saving, Critical, Goto, At, lockVars, dataVars, pastVars
<1>1. ASSUME NEW t \in Thread, NEW o \in Ops, Call(t, o)
      PROVE  \E now \in 0..day' : Prepared(s, now)' /\ Latest(now)'
  BY <1>0, <1>1 DEF Call, Prepared, Id, Latest
<1>2. ASSUME NEW t \in Thread,
             \/ TakeMutex(t) \/ CreateLock(t) \/ CreateLockFails(t) \/ StatLock(t)
             \/ RemoveStaleLock(t) \/ DropLock(t) \/ DropMutex(t) \/ Inspect(t)
      PROVE  \E now \in 0..day' : Prepared(s, now)' /\ Latest(now)'
  BY <1>0, <1>2 DEF TakeMutex, CreateLock, CreateLockFails, StatLock, RemoveStaleLock,
     DropLock, DropMutex, Inspect, Prepared, Id, Latest
<1>3. ASSUME NEW t \in Thread, Quarantine(t)
      PROVE  \E now \in 0..day' : Prepared(s, now)' /\ Latest(now)'
  BY <1>0, <1>a, <1>3 DEF Quarantine
<1>4. ASSUME NEW t \in Thread, LoadAndApply(t)
      PROVE  \E now \in 0..day' : Prepared(s, now)' /\ Latest(now)'
  <2>1. t # s => pc[s] \notin Critical
    BY <1>a, <1>4 DEF LoadAndApply
  <2>2. t = s
    BY <1>0, <1>4, <2>1 DEF LoadAndApply
  <2>3. Prepared(s, day)' /\ Latest(day)' /\ day' \in 0..day'
    BY <1>0, <1>4, <2>2 DEF LoadAndApply, Prepared, Id, Latest
  <2>4. QED
    BY <1>4, <2>3 DEF LoadAndApply
<1>5. ASSUME NEW t \in Thread, OpenTmp(t) \/ WriteTmp(t) \/ Rename(t)
      PROVE  \E now \in 0..day' : Prepared(s, now)' /\ Latest(now)'
  <2>1. t # s => pc[s] \notin Critical
    BY <1>a, <1>5 DEF OpenTmp, WriteTmp, Rename
  <2>2. t = s
    BY <1>0, <1>5, <2>1 DEF OpenTmp, WriteTmp, Rename
  <2>3. UNCHANGED <<file, op, calls, day, buf>> /\ pc[s] \in Saving
    BY <1>0, <1>5, <2>2 DEF OpenTmp, WriteTmp, Rename, SaveInv, HoldsItsOwn
  <2>4. QED
    BY <2>3 DEF Prepared, Id, Latest
<1>6. ASSUME NEW p \in Proc, Crash(p)
      PROVE  \E now \in 0..day' : Prepared(s, now)' /\ Latest(now)'
  BY <1>0, <1>6 DEF Crash, Prepared, Id, Latest
<1>7. ASSUME Tick \/ NextDay \/ UNCHANGED vars
      PROVE  \E now \in 0..day' : Prepared(s, now)' /\ Latest(now)'
  BY <1>0, <1>7 DEF Tick, NextDay, vars, Prepared, Id, Latest
<1>8. QED
  BY <1>1, <1>2, <1>3, <1>4, <1>5, <1>6, <1>7 DEF Next, ThreadStep

LEMMA DayMoves == TypeOK /\ [Next]_vars => day \in Nat /\ day' \in Nat /\ day <= day'
  BY NextType DEF TypeOK, ControlTypeOK, Next, ThreadStep, Call, TakeMutex, CreateLock,
     CreateLockFails, StatLock, RemoveStaleLock, Inspect, Quarantine, LoadAndApply, OpenTmp,
     WriteTmp, Rename, DropLock, DropMutex, Crash, Tick, NextDay, vars

(* What a rename installs is made of tidy records, as the settings say.    *)
LEMMA InstallsTidy ==
  ASSUME OrderInv, NEW t \in Thread, Installs(t)
  PROVE  LET before == Load(file).records
             after  == Load(file').records
         IN  /\ file' \in Ledgers /\ Id(t) \in Open
             /\ Tidy(after)
             /\ \A k \in DOMAIN after :
                  \/ \E i \in DOMAIN before : after[k] = before[i]
                  \/ Load(file).enabled /\ after[k].id = Id(t) /\ after[k].ts <= day
             /\ \A i, j \in DOMAIN before, k \in DOMAIN after :
                  i < j /\ after[k].id = before[i].id
                  => \E l \in DOMAIN after : after[l] = before[j]
<1>1. /\ TypeOK /\ pc[t] = "rename" /\ calls[t] \in 1..MaxCalls /\ op[t] \in AllOps
      /\ pc' = [pc EXCEPT ![t] = "unlock"] /\ calls' = calls /\ file' = buf[t]
      /\ buf[t] \in Ledgers /\ Id(t) \in RecordId /\ day \in Nat /\ pc \in [Thread -> Steps]
  BY DEF Installs, OrderInv, SaveInv, HoldsItsOwn, TypeOK, ControlTypeOK, DataTypeOK, Id
<1>2. PICK now \in 0..day : Prepared(t, now) /\ Latest(now)
  BY <1>1 DEF OrderInv, Saving
<1> DEFINE loaded == Load(file)
           before == loaded.records
           after == Load(file').records
<1>3. loaded \in Ledgers /\ Tidy(before) /\ \A i \in DOMAIN before : before[i].id \notin Open
  BY <1>1, LoadType DEF OrderInv, TypeOK, DataTypeOK
<1>4. Id(t) \in Open
  <2>1. pc'[t] = "unlock"
    BY <1>1
  <2>2. QED
    BY <1>1, <2>1, OpenCloses
<1>5. Load(file') = Apply(op[t], loaded, Id(t), now) /\ Saves(op[t], loaded)
  BY <1>1, <1>2, OwnContent DEF Prepared
<1>6. \A i \in DOMAIN before : before[i].ts <= now /\ before[i].id # Id(t)
  BY <1>2, <1>3, <1>4 DEF Latest
<1>7. now \in Nat /\ now <= day
  BY <1>1, <1>2
<1> HIDE DEF loaded
<1>8. /\ Tidy(after)
      /\ \A k \in DOMAIN after :
           \/ \E i \in DOMAIN before : after[k] = before[i]
           \/ loaded.enabled /\ after[k] = [id |-> Id(t), ts |-> now]
      /\ \A i, j \in DOMAIN before, k \in DOMAIN after :
           i < j /\ after[k].id = before[i].id
           => \E l \in DOMAIN after : after[l] = before[j]
  BY <1>1, <1>3, <1>5, <1>6, <1>7, TidyApply
<1>9. QED
  BY <1>1, <1>4, <1>7, <1>8 DEF loaded

LEMMA NextOrder == OrderInv /\ MutualExclusion /\ [Next]_vars => OrderInv'
<1> SUFFICES ASSUME OrderInv, MutualExclusion, [Next]_vars PROVE OrderInv'
  OBVIOUS
<1>1. SaveInv /\ SaveInv' /\ TypeOK /\ FileStep /\ Open' \subseteq Open
  BY FileSteps, NextSave, OpenShrinks DEF OrderInv, SaveInv
<1>2. /\ Tidy(Load(file).records) /\ Latest(day)
      /\ \A i \in DOMAIN Load(file).records : Load(file).records[i].id \notin Open
      /\ \A t \in Thread : pc[t] \in Saving => \E now \in 0..day : Prepared(t, now) /\ Latest(now)
  BY DEF OrderInv
<1>3. day \in Nat /\ day' \in Nat /\ day <= day'
  BY <1>1, DayMoves
<1>4. \A t \in Thread :
         pc'[t] \in Saving => \E now \in 0..day' : Prepared(t, now)' /\ Latest(now)'
  BY <1>1, <1>2, NextStamped
<1>5. Load(file) \in Ledgers /\ \A i \in DOMAIN Load(file).records : Load(file).records[i].ts \in Nat
  <2>1. Load(file) \in Ledgers
    BY <1>1, LoadType DEF TypeOK, DataTypeOK
  <2>2. \A i \in DOMAIN Load(file).records : Load(file).records[i] \in SessionRecord
    BY <2>1 DEF Ledgers
  <2>3. QED
    BY <2>1, <2>2 DEF SessionRecord
<1> DEFINE before == Load(file).records
           after == Load(file').records
<1>6. SUFFICES /\ Tidy(after)
               /\ \A k \in DOMAIN after : after[k].ts <= day' /\ after[k].id \notin Open'
  BY <1>1, <1>4 DEF OrderInv, Latest
<1>7. \A i \in DOMAIN before : before[i].ts <= day' /\ before[i].id \notin Open'
  BY <1>1, <1>2, <1>3, <1>5 DEF Latest
<1>8. CASE after = before
  <2> HIDE DEF after, before
  <2>1. Tidy(before)
    BY <1>2 DEF before
  <2>2. QED
    BY <1>7, <1>8, <2>1
<1>9. ASSUME NEW t \in Thread, Installs(t)
      PROVE  /\ Tidy(after)
             /\ \A k \in DOMAIN after : after[k].ts <= day' /\ after[k].id \notin Open'
  <2>1. /\ Tidy(after)
        /\ \A k \in DOMAIN after :
             \/ \E i \in DOMAIN before : after[k] = before[i]
             \/ after[k].id = Id(t) /\ after[k].ts <= day
    BY <1>9, InstallsTidy
  <2>2. Id(t) \notin Open' /\ day' = day
    <3>1. /\ pc[t] = "rename" /\ pc'[t] = "unlock" /\ calls' = calls /\ calls[t] \in 1..MaxCalls
      BY <1>1, <1>9 DEF Installs, SaveInv, HoldsItsOwn, TypeOK, ControlTypeOK
    <3>2. QED
      BY <1>1, <1>9, <3>1, OpenCloses DEF Installs
  <2> HIDE DEF after, before
  <2>3. QED
    BY <1>7, <2>1, <2>2
<1>10. CASE file = Garbage /\ file' = Missing
  <2>1. Load(file) = Load(file')
    BY <1>10 DEF Load, NotALedger
  <2>2. QED
    BY <1>8, <2>1
<1>11. QED
  BY <1>1, <1>8, <1>9, <1>10 DEF FileStep

(* Once recording is off no writer that looked before slips a record in,   *)
(* and no record goes while one pushed before it stays: what goes is the   *)
(* oldest, whichever writers race, die or fail, as long as the lock        *)
(* excludes and the ledgers found on disk are in order.                    *)
THEOREM RecordsFollowSettings ==
  ASSUME TidyStart PROVE Spec /\ []MutualExclusion => RecordsObeySettings
<1> DEFINE Obeys ==
      file \notin NotALedger /\ file' \notin NotALedger
      => /\ ~file.enabled => Ids(file') \subseteq Ids(file)
         /\ \A i, j \in DOMAIN file.records :
               i < j /\ file.records[i].id \in Ids(file')
               => file.records[j].id \in Ids(file')
<1>1. OrderInv /\ MutualExclusion /\ [Next]_vars => [Obeys]_vars
  <2> SUFFICES ASSUME OrderInv, MutualExclusion, [Next]_vars,
                      file \notin NotALedger, file' \notin NotALedger
               PROVE  Obeys
    BY Zenon
  <2>1. FileStep
    BY FileSteps DEF OrderInv
  <2>2. Load(file) = file /\ Load(file') = file'
    BY DEF Load
  <2>3. ASSUME NEW t \in Thread, Installs(t) PROVE Obeys
    <3> DEFINE before == file.records
               after == file'.records
    <3>1. /\ \A k \in DOMAIN after :
               \/ \E i \in DOMAIN before : after[k] = before[i]
               \/ file.enabled
          /\ \A i, j \in DOMAIN before, k \in DOMAIN after :
               i < j /\ after[k].id = before[i].id
               => \E l \in DOMAIN after : after[l] = before[j]
      BY <2>2, <2>3, InstallsTidy
    <3>2. /\ Ids(file) = {before[i].id : i \in DOMAIN before}
          /\ Ids(file') = {after[i].id : i \in DOMAIN after}
      BY <2>2 DEF Ids
    <3> HIDE DEF before, after
    <3>3. ~file.enabled => Ids(file') \subseteq Ids(file)
      BY <3>1, <3>2
    <3>4. \A i, j \in DOMAIN before :
             i < j /\ before[i].id \in Ids(file') => before[j].id \in Ids(file')
      BY <3>1, <3>2
    <3>5. QED
      BY <3>3, <3>4 DEF before
  <2>4. CASE file' = file
    <3>1. \A j \in DOMAIN file.records : file.records[j].id \in Ids(file')
      BY <2>2, <2>4 DEF Ids
    <3>2. QED
      BY <2>4, <3>1
  <2>5. CASE file = Garbage
    BY <2>5 DEF NotALedger
  <2>6. QED
    BY <2>1, <2>3, <2>4, <2>5 DEF FileStep
<1>2. QED
  BY InitOrder, NextOrder, <1>1, PTL DEF Spec, RecordsObeySettings
=============================================================================
