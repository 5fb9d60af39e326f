------------------------------- MODULE Daemon -------------------------------
(***************************************************************************)
(* The loop of velox daemon (velox-cli/src/daemon.rs): read at every tick, *)
(* react when it has been hot for Required ticks in a row and the cooldown *)
(* is over, sleep.  What react does to the machine is the subject of       *)
(* Actions; here it takes any time and returns.                            *)
(*                                                                         *)
(* The cooldown counts from the end of a reaction.  As only sleeping lies  *)
(* between that end and the next reading, it is counted in ticks.          *)
(***************************************************************************)
EXTENDS Integers

CONSTANTS
    Required,    \* CONSECUTIVE_HOT_REQUIRED (3 in the code)
    Cooldown     \* COOLDOWN_SECS over the interval, rounded up

ASSUME DaemonAssumption == Required \in Nat \ {0} /\ Cooldown \in Nat

VARIABLES
    at,       \* where the loop is
    streak,   \* hot_streak
    rested,   \* ticks since last_fire, Cooldown if it never fired
    watch     \* what happened at the latest ticks: watch[1] at the last one

daemonVars == <<at, streak, rested, watch>>

AtMost(n, limit) == IF n < limit THEN n ELSE limit

(* Enough of the past to see one reaction and all that led to it.          *)
Memory == Required + Cooldown + 1

(* "react" is a hot reading that sets off a reaction.                      *)
Happenings == {"none", "cool", "hot", "react"}

Noted(what) == [i \in 1..Memory |-> IF i = 1 THEN what ELSE watch[i - 1]]

DaemonInit ==
    /\ at = "tick"
    /\ streak = 0
    /\ rested = Cooldown
    /\ watch = [i \in 1..Memory |-> "none"]

(* Defect: a cool reading does not end the streak.                         *)
TickKeepsStreak(hot) ==
    /\ at = "tick"
    /\ streak' = IF hot THEN AtMost(streak + 1, Required + 1) ELSE streak
    /\ LET react == hot /\ streak' >= Required /\ rested >= Cooldown
       IN /\ at' = IF react THEN "react" ELSE "sleep"
          /\ watch' = Noted(IF react THEN "react" ELSE IF hot THEN "hot" ELSE "cool")
    /\ UNCHANGED rested

(* Defect: the streak is compared with = instead of >=.                    *)
TickExactly(hot) ==
    /\ at = "tick"
    /\ streak' = IF hot THEN AtMost(streak + 1, Required + 1) ELSE 0
    /\ LET react == hot /\ streak' = Required /\ rested >= Cooldown
       IN /\ at' = IF react THEN "react" ELSE "sleep"
          /\ watch' = Noted(IF react THEN "react" ELSE IF hot THEN "hot" ELSE "cool")
    /\ UNCHANGED rested

(* quick_status, then the two conditions.  Beyond Required the length of   *)
(* the streak makes no difference.                                         *)
Tick(hot) ==
    /\ at = "tick"
    /\ streak' = IF hot THEN AtMost(streak + 1, Required + 1) ELSE 0
    /\ LET react == hot /\ streak' >= Required /\ rested >= Cooldown
       IN /\ at' = IF react THEN "react" ELSE "sleep"
          /\ watch' = Noted(IF react THEN "react" ELSE IF hot THEN "hot" ELSE "cool")
    /\ UNCHANGED rested

(* react returns: last_fire is now, and the streak starts again.           *)
Reacted ==
    /\ at = "react"
    /\ at' = "sleep"
    /\ streak' = 0
    /\ rested' = 0
    /\ UNCHANGED watch

Wake ==
    /\ at = "sleep"
    /\ at' = "tick"
    /\ rested' = AtMost(rested + 1, Cooldown)
    /\ UNCHANGED <<streak, watch>>

(* Ctrl+C is listened for only while the loop sleeps.                      *)
Stop ==
    /\ at = "sleep"
    /\ at' = "stopped"
    /\ UNCHANGED <<streak, rested, watch>>

LoopStep == Reacted \/ Wake \/ \E hot \in BOOLEAN : Tick(hot)

DaemonNext == LoopStep \/ Stop

(* The process runs on: sleeps end, reactions return.                      *)
DaemonSpec == DaemonInit /\ [][DaemonNext]_daemonVars /\ WF_daemonVars(LoopStep)

-----------------------------------------------------------------------------
(* Each variable keeps its type.                                           *)
DaemonTypeOK ==
    /\ at \in {"tick", "react", "sleep", "stopped"}
    /\ streak \in 0..(Required + 1)
    /\ rested \in 0..Cooldown
    /\ watch \in [1..Memory -> Happenings]

(* "A one-off glitch can't trigger anything", and at most one reaction per *)
(* cooldown: a reaction follows Required hot readings in a row, all read   *)
(* since the reaction before it, and Cooldown ticks after that one.        *)
ReactsToSustainedHeat ==
    watch[1] = "react" =>
      /\ \A i \in 2..Required : watch[i] = "hot"
      /\ \A i \in 2..Cooldown : watch[i] # "react"

(* Heat that lasts is reacted to again and again, unless the daemon is     *)
(* stopped: neither the streak nor the cooldown locks the reaction out.    *)
LastingHeatIsReactedTo ==
    <>(at = "stopped") \/ []<>(watch[1] = "cool") \/ []<>(at = "react")
=============================================================================
