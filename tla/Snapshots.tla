------------------------------ MODULE Snapshots ------------------------------
(***************************************************************************)
(* Snapshots of the PC, the files that keep them (the baseline, what the   *)
(* user saves with --out, and the measurements of a repair), and what is   *)
(* made of two of them: a comparison and a repair report.  velox-core's    *)
(* snapshot.rs and report.rs.  The drivers come from one Windows query,    *)
(* which may fail.                                                         *)
(***************************************************************************)
EXTENDS Evidence, Sequences, FiniteSetsExt

CONSTANTS
    Pcs,          \* what the PC may be: see Hardware
    Labels,       \* files
    Devices, Versions,
    ScoreNoise, SustainNoise, TempNoise,   \* SCORE_NOISE_PCT and so on
    Missing, Torn             \* no file, half a file: model values

VARIABLES
    pc,           \* this PC, as it is
    captures      \* label -> measurement, Missing or Torn

svars == <<pc, captures>>

Unmeasured == -1
(* Drivers with a version, in the order of their names.                    *)
Hardware == [cpu: STRING, drivers: Seq(Devices \X Versions), gpus: Nat, busy: BOOLEAN,
             temp: Nat \cup {Unmeasured}, speed: Nat]
ASSUME SnapshotsAssumption ==
    /\ Pcs # {} /\ Pcs \subseteq Hardware
    /\ {ScoreNoise, SustainNoise, TempNoise} \subseteq Nat \ {0}

-----------------------------------------------------------------------------
(* Reading the PC and keeping what was read.                               *)

Name(d) == d[1]

(* drivers_from drops what repeats the entry before it.                    *)
Listed(list) ==
    {i \in DOMAIN list : \A k \in 1..i - 1 :
        list[k] = list[i] => \E m \in k + 1..i - 1 : list[m] # list[i]}

(* Snapshot::collect; a query that fails lists neither drivers nor GPUs.   *)
Collected(p, answered) ==
    IF answered THEN p ELSE [p EXCEPT !.drivers = <<>>, !.gpus = 0]

(* A measurement: the CPU is measured only on demand, the sustained load   *)
(* by neither way of capturing.  real and answered are history.            *)
Measured(p, answered, bench) ==
    [snapshot |-> Collected(p, answered), score |-> IF bench THEN p.speed ELSE Unmeasured,
     sustain |-> Unmeasured, real |-> p, answered |-> answered]

SnapshotsFrom(some) == pc \in some /\ captures = [l \in Labels |-> Missing]
SnapshotsInit == SnapshotsFrom(Pcs)

PcChanges == pc' \in Pcs \ {pc} /\ UNCHANGED captures

(* The file is written in place: killed or out of space, half of it stays. *)
Capture == \E l \in Labels, answered, bench \in BOOLEAN :
    /\ \/ captures' = [captures EXCEPT ![l] = Measured(pc, answered, bench)]
       \/ captures' = [captures EXCEPT ![l] = Torn]
    /\ UNCHANGED pc

SnapshotsNext == PcChanges \/ Capture

-----------------------------------------------------------------------------
(* Comparing.                                                              *)

(* compare collects both lists into maps: of one name the last one counts. *)
LastOf(list, name) ==
    list[Max({i \in DOMAIN list : Name(list[i]) = name})][2]
VersionsOf(list) == [name \in {Name(list[i]) : i \in DOMAIN list} |-> LastOf(list, name)]

(* Defect: only what is new is looked for.                                 *)
DiffVersionedForward(old, new) ==
    [changed |-> {n \in DOMAIN old \cap DOMAIN new : old[n] # new[n]},
     added   |-> DOMAIN new \ DOMAIN old,
     removed |-> {}]

DiffVersioned(old, new) ==
    [changed |-> {n \in DOMAIN old \cap DOMAIN new : old[n] # new[n]},
     added   |-> DOMAIN new \ DOMAIN old,
     removed |-> DOMAIN old \ DOMAIN new]

(* The readings of a moment, load and temperature, are not compared.       *)
Compare(old, new) ==
    LET d == DiffVersioned(VersionsOf(old.drivers), VersionsOf(new.drivers))
    IN  [d EXCEPT !.changed = @ \cup (IF old.cpu # new.cpu THEN {"cpu"} ELSE {})]

NothingChanged(d) == d.changed = {} /\ d.added = {} /\ d.removed = {}

-----------------------------------------------------------------------------
(* The repair report.                                                      *)

Outcomes == {"Pass", "Fail", "NoChange", "Noted", "Unknown"}

Verdict(gain, noise) ==
    IF gain >= noise THEN "Pass" ELSE IF -gain >= noise THEN "Fail" ELSE "NoChange"

(* In per cent of the first score; nothing is a gain over a zero.          *)
ScoreVerdict(b, a) ==
    IF Unmeasured \in {b, a} \/ b = 0 THEN "Unknown" ELSE Verdict((a - b) * 100, ScoreNoise * b)
SustainVerdict(b, a) ==
    IF Unmeasured \in {b, a} THEN "Unknown" ELSE Verdict(a - b, SustainNoise)
TempVerdict(b, a) ==
    IF Unmeasured \in {b, a} THEN "Unknown" ELSE Verdict(b - a, TempNoise)

(* Single and multi core share a verdict here.                             *)
Build(before, after) ==
    LET diff == Compare(before.snapshot, after.snapshot)
    IN  [diff     |-> diff,
         caveat   |-> before.snapshot.cpu # after.snapshot.cpu,
         verdicts |-> [score   |-> ScoreVerdict(before.score, after.score),
                       sustain |-> SustainVerdict(before.sustain, after.sustain),
                       temp    |-> TempVerdict(before.snapshot.temp, after.snapshot.temp),
                       drivers |-> "Noted"]]

Whole == {l \in Labels : captures[l] \notin {Missing, Torn}}
(* repair_build wants two labels; any two files can be compared.           *)
Pairs == {x \in Whole \X Whole : x[1] # x[2]}

-----------------------------------------------------------------------------
(* Properties.                                                             *)

SnapshotsTypeOK ==
    /\ pc \in Pcs /\ DOMAIN captures = Labels
    /\ \A l \in Whole : /\ captures[l].real \in Pcs
                        /\ captures[l].snapshot = Collected(captures[l].real, captures[l].answered)

(* No name is listed with two versions.                                    *)
Unique(p) == \A i, j \in DOMAIN p.drivers :
                Name(p.drivers[i]) = Name(p.drivers[j]) => p.drivers[i] = p.drivers[j]

Installed(p) == {p.drivers[i] : i \in DOMAIN p.drivers}

(* Two snapshots, one of which at least lists a driver, compare as equal   *)
(* only if the same drivers were installed.  A report says that a score    *)
(* did not change only of what was measured twice, calls no change an      *)
(* improvement in both directions, and warns of another CPU.               *)
SnapshotsTellChanges ==
    \A x \in Pairs :
      LET b == captures[x[1]]
          a == captures[x[2]]
          report  == Build(b, a)
          reverse == Build(a, b)
      IN  /\ NothingChanged(report.diff) /\ Unique(b.real) /\ Unique(a.real)
             /\ {b.snapshot.drivers, a.snapshot.drivers} # {<<>>}
             => Installed(a.real) = Installed(b.real)
          /\ a.real.cpu # b.real.cpu <=> report.caveat
          /\ report.caveat => ~NothingChanged(report.diff)
          /\ report.verdicts.score = "NoChange" => Unmeasured \notin {b.score, a.score}
          /\ \A v \in DOMAIN report.verdicts :
                report.verdicts[v] = "Pass" => reverse.verdicts[v] # "Pass"
=============================================================================
