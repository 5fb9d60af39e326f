------------------------------ MODULE Metrics ------------------------------
(***************************************************************************)
(* The alpha metrics of velox-core/src/metrics.rs: counters in one file,   *)
(* read, changed and written without a lock, and one marker file that says *)
(* "a session is open".  A marker that is still there at a start is        *)
(* counted as a crash of the session before.  Only the command line opens  *)
(* sessions; the server starts commands of its own through /run/:cmd.      *)
(* Every file operation can fail, and no error is reported: what cannot be *)
(* read counts as empty, what cannot be written or removed stays.          *)
(***************************************************************************)
EXTENDS Naturals, Sequences, FiniteSets

CONSTANTS
    Reasons,      \* labels sanitize_reason lets through
    Clis,         \* processes of velox-cli, each runs once
    MaxOps,       \* MAX_OPS (2000): operations that are kept
    MaxUpdates,   \* bound: what is recorded besides sessions
    MaxFailures   \* bound: file operations that fail

ASSUME MetricsAssumption ==
    /\ {MaxOps, MaxUpdates, MaxFailures} \subseteq Nat
    /\ Reasons \cap {"starts", "clean_exits", "crashes", "sensor_attempts",
                     "sensor_unavailable", "false_warnings"} = {}

VARIABLES
    cli,          \* cli[c]: where process c is, and its locals
    metrics,      \* velox_metrics.json
    marker,       \* velox_session_open.marker
    died,         \* history: processes killed, since the counters were cleared
    fell,         \* history: those among them whose session was open
    stuck,        \* history: markers that could not be removed
    lost,         \* history: crashes that a failure can have lost
    left,         \* updates that are still allowed
    failures      \* failures that are still allowed

history == <<died, fell, stuck, lost>>
mvars == <<cli, metrics, marker, history, left, failures>>

Outcomes == {"Completed", "Cancelled", "Failed"}
Counters == {"starts", "clean_exits", "crashes", "sensor_attempts", "sensor_unavailable",
             "false_warnings"} \cup Reasons
Books    == [count: [Counters -> Nat], operations: Seq(Outcomes)]
NoBook   == [count |-> [k \in Counters |-> 0], operations |-> <<>>]

(* What one call of update changes: counters that go up, an operation that *)
(* is pushed.                                                              *)
Change(counters, outcomes) == [counters |-> counters, outcomes |-> outcomes]
Updates ==
    {Change({}, <<o>>) : o \in Outcomes}                              \* record_operation
    \cup {Change({"sensor_attempts"}, <<>>),                          \* record_sensor
          Change({"sensor_attempts", "sensor_unavailable"}, <<>>)}
    \cup {Change({r}, <<>>) : r \in Reasons}                          \* record_policy_denial
    \cup {Change({"false_warnings"}, <<>>)}

Kept(s) == IF Len(s) > MaxOps THEN SubSeq(s, Len(s) - MaxOps + 1, Len(s)) ELSE s
Updated(m, u) ==
    [count |-> [k \in Counters |-> m.count[k] + (IF k \in u.counters THEN 1 ELSE 0)],
     operations |-> Kept(m.operations \o u.outcomes)]

Places == {"idle", "start", "load", "save", "mark", "work", "done", "dead"}
NoCli  == [at |-> "idle", then |-> "done", update |-> Change({}, <<>>), buf |-> NoBook]

CliAt(c, place) == cli[c].at = place
Running(c)   == cli[c].at \notin {"idle", "done", "dead"}
Move(c, to)  == cli' = [cli EXCEPT ![c].at = to]
Record(c, u, then) == cli' = [cli EXCEPT ![c].at = "load", ![c].update = u, ![c].then = then]

(* A file operation does what it should, or fails and says nothing.        *)
Works == UNCHANGED failures
Fails == failures > 0 /\ failures' = failures - 1

MetricsInit ==
    /\ cli = [c \in Clis |-> NoCli]
    /\ metrics = NoBook /\ marker = FALSE
    /\ died = 0 /\ fell = 0 /\ stuck = 0 /\ lost = 0
    /\ left = MaxUpdates /\ failures = MaxFailures

-----------------------------------------------------------------------------
(* main: record_start, the command, record_clean_exit.                     *)

Start(c) ==
    /\ CliAt(c, "idle")
    /\ Move(c, "start")
    /\ UNCHANGED <<metrics, marker, history, left, failures>>

(* exists says no as well when it cannot look.                             *)
LookForMarker(c) ==
    /\ CliAt(c, "start")
    /\ \/ /\ Record(c, Change({"starts"} \cup (IF marker THEN {"crashes"} ELSE {}), <<>>), "mark")
          /\ UNCHANGED lost /\ Works
       \/ /\ Record(c, Change({"starts"}, <<>>), "mark")
          /\ lost' = lost + (IF marker THEN 1 ELSE 0) /\ Fails
    /\ UNCHANGED <<metrics, marker, died, fell, stuck, left>>

(* update: load, change, trim, save.                                       *)
Load(c) ==
    /\ CliAt(c, "load")
    /\ \/ /\ cli' = [cli EXCEPT ![c].at = "save", ![c].buf = Updated(metrics, cli[c].update)]
          /\ UNCHANGED lost /\ Works
       \/ /\ cli' = [cli EXCEPT ![c].at = "save", ![c].buf = Updated(NoBook, cli[c].update)]
          /\ lost' = lost + metrics.count["crashes"] /\ Fails
    /\ UNCHANGED <<metrics, marker, died, fell, stuck, left>>

Counts(c) == IF "crashes" \in cli[c].update.counters THEN 1 ELSE 0

Save(c) ==
    /\ CliAt(c, "save")
    /\ \/ metrics' = cli[c].buf /\ UNCHANGED lost /\ Works
       \/ UNCHANGED metrics /\ lost' = lost + Counts(c) /\ Fails
    /\ cli' = [cli EXCEPT ![c].at = cli[c].then, ![c].update = NoCli.update, ![c].buf = NoBook]
    /\ UNCHANGED <<marker, died, fell, stuck, left>>

Mark(c) ==
    /\ CliAt(c, "mark")
    /\ \/ marker' = TRUE /\ UNCHANGED lost /\ Works
       \/ UNCHANGED marker /\ lost' = lost + (IF marker THEN 0 ELSE 1) /\ Fails
    /\ Move(c, "work")
    /\ UNCHANGED <<metrics, died, fell, stuck, left>>

Work(c) ==
    /\ CliAt(c, "work") /\ left > 0 /\ left' = left - 1
    /\ \E u \in Updates : Record(c, u, "work")
    /\ UNCHANGED <<metrics, marker, history, failures>>

(* metrics clear removes the counters, not the marker: a session that has  *)
(* none still has none.                                                    *)
Clear(c) ==
    /\ CliAt(c, "work") /\ left > 0 /\ left' = left - 1
    /\ \/ /\ metrics' = NoBook /\ died' = 0 /\ fell' = 0 /\ stuck' = 0
          /\ lost' = (IF marker THEN 0 ELSE 1) /\ Works
       \/ UNCHANGED <<metrics, history>> /\ Fails
    /\ UNCHANGED <<cli, marker>>

(* Defect: the marker stays.                                               *)
UnmarkForgets(c) ==
    /\ CliAt(c, "work")
    /\ Record(c, Change({"clean_exits"}, <<>>), "done")
    /\ UNCHANGED <<metrics, marker, history, left, failures>>

(* The end of main, or arguments that do not parse.                        *)
Unmark(c) ==
    /\ CliAt(c, "work")
    /\ \/ marker' = FALSE /\ UNCHANGED stuck /\ Works
       \/ UNCHANGED marker /\ stuck' = stuck + (IF marker THEN 1 ELSE 0) /\ Fails
    /\ Record(c, Change({"clean_exits"}, <<>>), "done")
    /\ UNCHANGED <<metrics, died, fell, lost, left>>

(* A process is ended from outside, a window closed, a blue screen.        *)
KillCli(c) ==
    /\ Running(c)
    /\ cli' = [cli EXCEPT ![c] = [NoCli EXCEPT !.at = "dead"]]
    /\ died' = died + 1
    /\ fell' = fell + (IF CliAt(c, "work") \/ cli[c].then = "work" THEN 1 ELSE 0)
    /\ UNCHANGED <<metrics, marker, stuck, lost, left, failures>>

CliStep(c) == \/ LookForMarker(c) \/ Load(c) \/ Save(c) \/ Mark(c)
              \/ Work(c) \/ Clear(c) \/ Unmark(c)

-----------------------------------------------------------------------------
(* summary: a rate without samples is not a rate.                          *)

Rate(part, whole) == IF whole = 0 THEN {} ELSE {(part * 100) \div whole}
Times(o)  == Cardinality({i \in DOMAIN metrics.operations : metrics.operations[i] = o})
Minus(a, b) == IF a > b THEN a - b ELSE 0
Summary ==
    LET n == metrics.count
        total == Len(metrics.operations)
    IN  [start_success |-> Rate(Minus(n["starts"], n["crashes"]), n["starts"]),
         completion    |-> Rate(Times("Completed"), total),
         cancel        |-> Rate(Times("Cancelled"), total),
         sensor_unavailable |-> Rate(n["sensor_unavailable"], n["sensor_attempts"])]
=============================================================================
