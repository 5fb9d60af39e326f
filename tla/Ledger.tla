------------------------------- MODULE Ledger -------------------------------
(***************************************************************************)
(* The usage ledger's writers: velox-core/src/ledger.rs with atomic_write  *)
(* of velox-core/src/ai.rs.                                                *)
(*                                                                         *)
(* Several processes (the desktop engine, CLI invocations) each run        *)
(* several writer threads.  Threads of one process serialise on a static   *)
(* mutex; processes serialise on the lock file velox_ledger.json.lock,     *)
(* created with create_new, deleted when the guard drops, and deleted by   *)
(* a waiter that finds it older than STALE_LOCK_AFTER.  The holder         *)
(* quarantines an unparsable ledger, loads, changes and saves it through   *)
(* velox_ledger.json.tmp and a rename.  Every system call is a step of its *)
(* own, so other processes run between any two.                            *)
(***************************************************************************)
EXTENDS LedgerData, FiniteSets

CONSTANTS
    Proc,          \* processes that use the ledger
    Thread,        \* writer threads of all processes
    Host,          \* [Thread -> Proc]
    Nobody,        \* the owner of a mutex that is free
    NoLock,        \* there is no lock file
    StaleAfter,    \* STALE_LOCK_AFTER in ticks: a lock file this old is removed
    LockWait,      \* LOCK_WAIT in ticks: a waiter gives up after this long
    HoldTime,      \* a holder gets through its critical section in at most this
    DiskFaults,    \* file operations that may fail in this run
    InitialFiles,  \* what may be on disk when the programs start
    MaxCalls,      \* bound: ledger calls per thread
    MaxCrashes,    \* bound: processes that are killed
    MaxDay         \* bound: days the model runs for

FileOps == {"create", "remove", "write", "rename"}

ASSUME LedgerAssumption ==
    /\ Host \in [Thread -> Proc]
    /\ RecordId = Thread \X (0..MaxCalls)  \* call 0: made before
    /\ StaleAfter \in Nat \ {0} /\ LockWait \in Nat /\ HoldTime \in Nat
    /\ DiskFaults \subseteq FileOps
    /\ MaxCalls \in Nat /\ MaxCrashes \in Nat /\ MaxDay \in Nat
    /\ InitialFiles \subseteq Ledgers \cup NotALedger
    /\ Nobody \notin Thread

ASSUME SentinelAssumption ==
    /\ NoLock \notin [owner: Thread, age: 0..StaleAfter]
    /\ Missing # Garbage
    /\ NotALedger \cap Ledgers = {}

VARIABLES
    pc,           \* pc[t]: where thread t is
    mutex,        \* mutex[p]: the thread holding LEDGER_PROCESS_LOCK of p
    lock,         \* the lock file: its age, and who created it (not in the file)
    elapsed,      \* elapsed[t]: ticks since t began to wait, or to hold
    op,           \* op[t]: the operation t was called for
    buf,          \* buf[t]: the ledger t computed and is about to save
    calls,        \* calls[t]: calls t has made
    file,         \* content of velox_ledger.json
    tmp,          \* content of velox_ledger.json.tmp
    quarantined,  \* contents moved to velox_ledger.json.corrupt-...
    day,          \* the current date
    crashes,      \* processes killed so far
    acked         \* records whose save succeeded: record_to returns true

lockVars == <<mutex, lock, elapsed>>
dataVars == <<buf, file, tmp, quarantined>>
pastVars == <<calls, crashes, acked>>
vars     == <<pc, op, day, lockVars, dataVars, pastVars>>

Critical == {"inspect", "quarantine", "load", "open_tmp", "write_tmp", "rename", "unlock"}
Waiting  == {"create", "stat", "remove"}
Steps    == {"idle", "mutex", "release", "dead"} \cup Waiting \cup Critical

Holders   == {t \in Thread : pc[t] \in Critical}
Id(t)     == <<t, calls[t]>>
Fails(f)  == f \in DiskFaults
Goto(t, s) == pc' = [pc EXCEPT ![t] = s]
At(t, s)   == pc[t] = s

TickLimit == IF LockWait > HoldTime THEN LockWait ELSE HoldTime

Init ==
    /\ pc = [t \in Thread |-> "idle"]
    /\ mutex = [p \in Proc |-> Nobody]
    /\ lock = NoLock
    /\ elapsed = [t \in Thread |-> 0]
    /\ op = [t \in Thread |-> [name |-> "clear", arg |-> 0]]
    /\ buf = [t \in Thread |-> DefaultLedger]
    /\ calls = [t \in Thread |-> 0]
    /\ file \in InitialFiles
    /\ tmp = Missing
    /\ quarantined = {}
    /\ day = 0
    /\ crashes = 0
    /\ acked = {}

-----------------------------------------------------------------------------
(* Entering: the process mutex, then the lock file.                        *)

(* record, clear, set_enabled or set_retention_days is called.             *)
Call(t, o) ==
    /\ At(t, "idle")
    /\ calls[t] < MaxCalls
    /\ op' = [op EXCEPT ![t] = o]
    /\ calls' = [calls EXCEPT ![t] = @ + 1]
    /\ Goto(t, "mutex")
    /\ UNCHANGED <<day, lockVars, dataVars, crashes, acked>>

(* acquire_process_lock returns and acquire_lock sets its deadline.        *)
TakeMutex(t) ==
    /\ At(t, "mutex")
    /\ mutex[Host[t]] = Nobody
    /\ mutex' = [mutex EXCEPT ![Host[t]] = t]
    /\ elapsed' = [elapsed EXCEPT ![t] = 0]
    /\ Goto(t, "create")
    /\ UNCHANGED <<op, day, lock, dataVars, pastVars>>

(* create_new succeeds: there was no lock file.                            *)
CreateLock(t) ==
    /\ At(t, "create")
    /\ lock = NoLock
    /\ lock' = [owner |-> t, age |-> 0]
    /\ elapsed' = [elapsed EXCEPT ![t] = 0]
    /\ Goto(t, "inspect")
    /\ UNCHANGED <<op, day, mutex, dataVars, pastVars>>

(* create_new fails: the file is there, or the directory refuses.          *)
CreateLockFails(t) ==
    /\ At(t, "create")
    /\ \/ lock # NoLock /\ Goto(t, "stat")
       \/ Fails("create") /\ Goto(t, "release")
    /\ UNCHANGED <<op, day, lockVars, dataVars, pastVars>>

(* Defect: a lock file of any age counts as stale.                         *)
StatLockAnyAge(t) ==
    /\ At(t, "stat")
    /\ Goto(t, IF lock # NoLock THEN "remove" ELSE "create")
    /\ UNCHANGED <<op, day, lockVars, dataVars, pastVars>>

(* Defect: a waiter that times out goes ahead without the lock.            *)
StatLockGoesAhead(t) ==
    /\ At(t, "stat")
    /\ Goto(t, IF elapsed[t] >= LockWait THEN "inspect" ELSE "create")
    /\ UNCHANGED <<op, day, lockVars, dataVars, pastVars>>

(* Defect: a waiter that times out returns without freeing the mutex.      *)
StatLockLeaksMutex(t) ==
    /\ At(t, "stat")
    /\ \/ /\ lock # NoLock
          /\ lock.age >= StaleAfter
          /\ Goto(t, "remove")
       \/ /\ lock # NoLock => lock.age < StaleAfter
          /\ Goto(t, IF elapsed[t] >= LockWait THEN "idle" ELSE "create")
    /\ UNCHANGED <<op, day, lockVars, dataVars, pastVars>>

(* The age is read from the file that is there now; a file that has gone   *)
(* meanwhile is not stale.                                                 *)
StatLock(t) ==
    /\ At(t, "stat")
    /\ \/ /\ lock # NoLock
          /\ lock.age >= StaleAfter
          /\ Goto(t, "remove")
       \/ /\ lock # NoLock => lock.age < StaleAfter
          /\ Goto(t, IF elapsed[t] >= LockWait THEN "release" ELSE "create")
    /\ UNCHANGED <<op, day, lockVars, dataVars, pastVars>>

(* remove_file names a path: it deletes whatever lock file is there now.   *)
RemoveStaleLock(t) ==
    /\ At(t, "remove")
    /\ lock' = NoLock \/ (Fails("remove") /\ UNCHANGED lock)
    /\ Goto(t, "create")
    /\ UNCHANGED <<op, day, mutex, elapsed, dataVars, pastVars>>

-----------------------------------------------------------------------------
(* Inside: quarantine_corrupt_file, load_from, the change, save_to.        *)

(* Defect: no quarantine, an unparsable ledger is simply replaced.         *)
InspectOnly(t) ==
    /\ At(t, "inspect")
    /\ Goto(t, "load")
    /\ UNCHANGED <<op, day, lockVars, dataVars, pastVars>>

(* A file that cannot be read, and one that parses, is left where it is.   *)
Inspect(t) ==
    /\ At(t, "inspect")
    /\ Goto(t, IF file = Garbage THEN "quarantine" ELSE "load")
    /\ UNCHANGED <<op, day, lockVars, dataVars, pastVars>>

Quarantine(t) ==
    /\ At(t, "quarantine")
    /\ \/ /\ file # Missing
          /\ quarantined' = quarantined \cup {file}
          /\ file' = Missing
       \/ /\ file = Missing \/ Fails("rename")
          /\ UNCHANGED <<file, quarantined>>
    /\ Goto(t, "load")
    /\ UNCHANGED <<op, day, lockVars, buf, tmp, pastVars>>

(* Load, then the change in memory; a disabled ledger takes no record.     *)
LoadAndApply(t) ==
    /\ At(t, "load")
    /\ IF Saves(op[t], Load(file))
       THEN /\ buf' = [buf EXCEPT ![t] = Apply(op[t], Load(file), Id(t), day)]
            /\ Goto(t, "open_tmp")
       ELSE /\ UNCHANGED buf
            /\ Goto(t, "unlock")
    /\ UNCHANGED <<op, day, lockVars, file, tmp, quarantined, pastVars>>

(* Defect: the ledger is written in place, without a temporary file.       *)
OpenInPlace(t) ==
    /\ At(t, "open_tmp")
    /\ tmp' = Garbage /\ file' = Garbage
    /\ Goto(t, "write_tmp")
    /\ UNCHANGED <<op, day, lockVars, buf, quarantined, pastVars>>

(* fs::write creates or truncates the temporary file ...                   *)
OpenTmp(t) ==
    /\ At(t, "open_tmp")
    /\ \/ tmp' = Garbage /\ Goto(t, "write_tmp")
       \/ Fails("write") /\ UNCHANGED tmp /\ Goto(t, "unlock")
    /\ UNCHANGED <<op, day, lockVars, buf, file, quarantined, pastVars>>

(* ... and then fills it.  If another holder has renamed it in between,    *)
(* the open file is by now the ledger itself.                              *)
WriteTmp(t) ==
    /\ At(t, "write_tmp")
    /\ \/ /\ IF tmp # Missing
             THEN tmp' = buf[t] /\ UNCHANGED file
             ELSE file' = buf[t] /\ UNCHANGED tmp
          /\ Goto(t, "rename")
       \/ Fails("write") /\ UNCHANGED <<file, tmp>> /\ Goto(t, "unlock")
    /\ UNCHANGED <<op, day, lockVars, buf, quarantined, pastVars>>

(* rename installs what the temporary file holds, whoever wrote it.        *)
Rename(t) ==
    /\ At(t, "rename")
    /\ \/ /\ tmp # Missing
          /\ file' = tmp
          /\ tmp' = Missing
          /\ acked' = IF op[t].name = "record" THEN acked \cup {Id(t)} ELSE acked
       \/ /\ tmp = Missing \/ Fails("rename")
          /\ UNCHANGED <<file, tmp, acked>>
    /\ Goto(t, "unlock")
    /\ UNCHANGED <<op, day, lockVars, buf, quarantined, calls, crashes>>

-----------------------------------------------------------------------------
(* Leaving: the guards drop in reverse order.                              *)

(* Drop deletes the path, whoever created the file that is there now.      *)
DropLock(t) ==
    /\ At(t, "unlock")
    /\ lock' = NoLock \/ (Fails("remove") /\ UNCHANGED lock)
    /\ Goto(t, "release")
    /\ UNCHANGED <<op, day, mutex, elapsed, dataVars, pastVars>>

(* ... and the call returns: its locals are gone.                          *)
DropMutex(t) ==
    /\ At(t, "release")
    /\ mutex' = [mutex EXCEPT ![Host[t]] = Nobody]
    /\ elapsed' = [elapsed EXCEPT ![t] = 0]
    /\ buf' = [buf EXCEPT ![t] = DefaultLedger]
    /\ Goto(t, "idle")
    /\ UNCHANGED <<op, day, lock, file, tmp, quarantined, pastVars>>

-----------------------------------------------------------------------------
(* Time, and processes that are killed.                                    *)

AtMost(n, limit) == IF n < limit THEN n ELSE limit

(* A tick of the clock.  No holder stays longer than HoldTime.             *)
Tick ==
    /\ \A t \in Holders : elapsed[t] < HoldTime
    /\ lock' = IF lock = NoLock THEN NoLock
               ELSE [owner |-> lock.owner, age |-> AtMost(lock.age + 1, StaleAfter)]
    /\ elapsed' = [t \in Thread |-> IF pc[t] \in Waiting \cup Critical
                                    THEN AtMost(elapsed[t] + 1, TickLimit)
                                    ELSE elapsed[t]]
    /\ UNCHANGED <<pc, op, day, mutex, dataVars, pastVars>>

NextDay ==
    /\ day < MaxDay
    /\ day' = day + 1
    /\ UNCHANGED <<pc, op, lockVars, dataVars, pastVars>>

(* A process is killed: its mutex dies with it, its lock file stays.       *)
Crash(p) ==
    /\ crashes < MaxCrashes
    /\ crashes' = crashes + 1
    /\ pc' = [t \in Thread |-> IF Host[t] = p THEN "dead" ELSE pc[t]]
    /\ mutex' = [mutex EXCEPT ![p] = Nobody]
    /\ UNCHANGED <<op, day, lock, elapsed, dataVars, calls, acked>>

ThreadStep(t) ==
    \/ TakeMutex(t)
    \/ CreateLock(t) \/ CreateLockFails(t) \/ StatLock(t) \/ RemoveStaleLock(t)
    \/ Inspect(t) \/ Quarantine(t) \/ LoadAndApply(t)
    \/ OpenTmp(t) \/ WriteTmp(t) \/ Rename(t)
    \/ DropLock(t) \/ DropMutex(t)

Next ==
    \/ \E t \in Thread, o \in Ops : Call(t, o)
    \/ \E t \in Thread : ThreadStep(t)
    \/ \E p \in Proc : Crash(p)
    \/ Tick
    \/ NextDay

Spec == Init /\ [][Next]_vars

(* The OS runs every thread, and time passes.  Nothing makes a caller call *)
(* or a process die.                                                       *)
FairSpec == Spec /\ WF_vars(Tick) /\ \A t \in Thread : WF_vars(ThreadStep(t))

-----------------------------------------------------------------------------
ControlTypeOK ==
    /\ pc \in [Thread -> Steps]
    /\ mutex \in [Proc -> Thread \cup {Nobody}]
    /\ lock \in [owner: Thread, age: 0..StaleAfter] \cup {NoLock}
    /\ elapsed \in [Thread -> 0..TickLimit]
    /\ op \in [Thread -> AllOps]
    /\ calls \in [Thread -> 0..MaxCalls]
    /\ day \in 0..MaxDay
    /\ crashes \in 0..MaxCrashes
    /\ acked \subseteq RecordId

DataTypeOK ==
    /\ {file, tmp} \subseteq Ledgers \cup NotALedger
    /\ quarantined \subseteq Ledgers \cup NotALedger
    /\ buf \in [Thread -> Ledgers]

(* Each variable keeps its type: pc, lock file, clocks and call state of   *)
(* the writers, and the contents of the three kinds of file.               *)
TypeOK == ControlTypeOK /\ DataTypeOK

(* At most one writer is between taking the lock file and dropping it: the *)
(* lock of acquire_lock serialises writers of all processes.               *)
MutualExclusion == \A s, t \in Holders : s = t

(* Neither a concurrent writer's save nor a half-written file loses a      *)
(* record whose record_to succeeded.  For runs whose operations drop no    *)
(* record (no clear, no retention, fewer records than MaxRecords).         *)
AckedRecordsKept == acked \subseteq Ids(file)

(* atomic_write: what readers find under the ledger's name never becomes a *)
(* partial write, even if writers are killed in the middle of one.         *)
NeverTorn == [][file' = Garbage => file = Garbage]_vars

(* Records come and go by the settings: once recording is off, no writer   *)
(* that looked before slips one in; the size limit and the retention drop  *)
(* the oldest, no record goes while one pushed before it stays (prune).    *)
RecordsObeySettings ==
    [][ file \notin NotALedger /\ file' \notin NotALedger
        => /\ ~file.enabled => Ids(file') \subseteq Ids(file)
           /\ \A i, j \in DOMAIN file.records :
                 i < j /\ file.records[i].id \in Ids(file')
                 => file.records[j].id \in Ids(file') ]_vars

(* LOCK_WAIT bounds the wait: a call returns, unless its process is killed.*)
EveryCallReturns == \A t \in Thread : pc[t] # "idle" ~> pc[t] \in {"idle", "dead"}

(* The writers implement a book that changes one whole operation at a time.*)
Book == INSTANCE LedgerBook
ImplementsBook == Book!Spec
=============================================================================
