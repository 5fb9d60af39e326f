------------------------------ MODULE Sessions ------------------------------
(***************************************************************************)
(* The processes of one PC: the shell with its server, and the processes   *)
(* of the command line that the user or the server starts.                 *)
(***************************************************************************)
EXTENDS Shell, Metrics

CONSTANT Overlap       \* may two processes of the command line overlap?
ASSUME SessionsAssumption == Overlap \in BOOLEAN

sessionsVars == <<svars, mvars>>

SessionsInit == ShellInit /\ MetricsInit

MayStart == Overlap \/ \A c \in Clis : ~Running(c)

UserRuns(c) == MayStart /\ Start(c) /\ UNCHANGED svars

(* run_cmd: a page with the session's cookie asks the server for one of    *)
(* six read-only commands; the server starts velox.exe.                    *)
ServerRuns(c) ==
    /\ app = "window" /\ server = "serving" /\ port = "server"
    /\ MayStart /\ Start(c) /\ UNCHANGED svars

SessionsNext ==
    \/ Shell /\ UNCHANGED mvars
    \/ \E c \in Clis : \/ UserRuns(c) \/ ServerRuns(c)
                       \/ (CliStep(c) \/ KillCli(c)) /\ UNCHANGED svars

(* The shell's main thread and its child are scheduled.                    *)
SessionsSpec ==
    /\ SessionsInit /\ [][SessionsNext]_sessionsVars
    /\ WF_sessionsVars(AppStep /\ UNCHANGED mvars)

-----------------------------------------------------------------------------
(* Properties.                                                             *)

SessionsTypeOK ==
    /\ app \in {"off", "endpoint", "look", "connect", "answered", "window", "closed", "crashed"}
    /\ rounds \in 0..Patience
    /\ server \in {"none", "starting", "serving", "dead"}
    /\ port \in {"closed", "server", "other"} /\ (port = "server" <=> server = "serving")
    /\ \A c \in Clis : cli[c].at \in Places
    /\ metrics \in Books /\ Len(metrics.operations) <= MaxOps
    /\ marker \in BOOLEAN /\ died \in Nat /\ fell \in 0..died
    /\ {stuck, lost} \subseteq Nat /\ left \in 0..MaxUpdates /\ failures \in 0..MaxFailures

(* A crash is counted once, although the marker is read before and written *)
(* after the count.  The crashes counted, and the one the marker announces *)
(* while nobody runs, are at most the processes that died and the markers  *)
(* that could not be removed; of those that died in their session none is  *)
(* missing but what an unread, unwritten or unmarked file has lost.        *)
(* Whatever fails, no rate of the summary is beyond its scale, although one*)
(* of them is computed with a difference.                                  *)
Announced == IF marker /\ \A c \in Clis : ~Running(c) THEN 1 ELSE 0
CrashesAccounted ==
    /\ metrics.count["crashes"] + Announced <= died + stuck
    /\ (\A c \in Clis : ~Running(c)) => fell <= metrics.count["crashes"] + Announced + lost
    /\ \A rate \in DOMAIN Summary : Summary[rate] \subseteq 0..100
    /\ metrics.count["crashes"] <= metrics.count["starts"]

(* Whichever way the shell ends, except when it dies itself, no engine of  *)
(* its is left, also one that was still starting.                          *)
NoOrphanServer == app = "closed" => server \in {"none", "dead"}

(* A shell that was started comes to a window or to an end, also when its  *)
(* server hangs or dies, or somebody else answers.                         *)
ShellSettles == app # "off" ~> app \in {"window", "closed", "crashed"}
=============================================================================
