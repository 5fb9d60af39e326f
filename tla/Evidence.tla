------------------------------ MODULE Evidence ------------------------------
(***************************************************************************)
(* Evidence: the only road from what the program measured to the text a    *)
(* provider reads.  velox-core's evidence.rs and privacy.rs.  An item      *)
(* keeps its identity, its sensitivity and, for the properties, what it    *)
(* discloses; a bundle's items keep their order in the code, not here.     *)
(***************************************************************************)
EXTENDS Integers, FiniteSets

Minimal == 1
System  == 2
Drivers == 3
Scopes  == {Minimal, System, Drivers}

(* An identity is a kind and a number, for the n-th of its kind.           *)
Item(id, about, level, tells) ==
    [id |-> id, about |-> about, sensitivity |-> level, tells |-> tells]
Items(kind, n, level, tells) == {Item(<<kind, i>>, <<kind, i>>, level, tells) : i \in 1..n}

Each(kinds, level) == UNION {Items(k, 1, level, k) : k \in kinds}

(* add: what is too sensitive for the scope is left out.                   *)
Within(items, scope) == {item \in items : item.sensitivity <= scope}

(* EvidenceBundle::new: what it refuses.  Two items with one identity are  *)
(* two members of the set.                                                 *)
Empty(items)      == items = {}
Duplicated(items) == Cardinality({item.id : item \in items}) < Cardinality(items)
Exceeds(items, scope) == \E item \in items : item.sensitivity > scope
Bundle(items, scope) ==
    IF Empty(items) \/ Duplicated(items) \/ Exceeds(items, scope) THEN {} ELSE items

(* What a scope adds of the machine, but for its GPUs and drivers.         *)
Machine == {"cpu_model", "logical_cores", "ram_total_mb", "os"}

(* Defect: drivers for everyone who may know the system.                   *)
OfSnapshotOpen(pc) ==
    Items("power_plan", 1, Minimal, "load") \cup Items("cpu_usage", 1, Minimal, "load")
    \cup Each(Machine, System)
    \cup Items("driver", pc.drivers, System, "driver")

(* snapshot_items of a PC with or without a readable temperature.          *)
OfSnapshot(pc) ==
    Items("power_plan", 1, Minimal, "load") \cup Items("cpu_usage", 1, Minimal, "load")
    \cup Items("max_temp_c", IF pc.temp = "unknown" THEN 0 ELSE 1, Minimal, "load")
    \cup Each(Machine, System)
    \cup Items("gpu", pc.gpus, System, "gpu")
    \cup Items("driver", pc.drivers, Drivers, "driver")

(* HealthReport::from_snapshot: findings about load and temperature.       *)
Findings(pc) == (IF pc.busy THEN 1 ELSE 0) + (IF pc.temp = "normal" THEN 0 ELSE 1)
OfHealth(pc) == OfSnapshot(pc) \cup Items("finding", Findings(pc), Minimal, "load")

(* from_cpu_benchmark.                                                     *)
OfBenchmark == Items("single_score", 1, Minimal, "score") \cup Items("multi_score", 1, Minimal, "score")
               \cup Items("cores", 1, System, "logical_cores")

(* Project evidence has no add: all of it is Minimal.  A language's        *)
(* identity is its name in small letters, with p for + and #.              *)
Slug(lang) == CASE lang = "C++" -> "cpp" [] lang = "C#" -> "cp" [] OTHER -> lang
OfProject(found) ==
    Items("project", 3, Minimal, "project")
    \cup {Item(<<"lang", Slug(l)>>, <<"lang", l>>, Minimal, "project") : l \in DOMAIN found.languages}
    \cup Items("manifest", Cardinality(found.manifests), Minimal, "project")
    \cup Items("command", Cardinality(found.commands), Minimal, "project")
    \cup Items("todo", found.todos, Minimal, "project")
    \cup Items("secrets_skipped", IF found.skipped > 0 THEN 1 ELSE 0, Minimal, "project")
    \cup Items("truncated", IF found.truncated THEN 1 ELSE 0, Minimal, "project")

(* AiContext::from_snapshot, the other road: what its text discloses.  It  *)
(* takes all of SystemInfo.                                                *)
SystemInfo == Machine \cup {"kernel"}
ContextTells(pc, scope) ==
    {"load"} \cup (IF scope >= System THEN SystemInfo ELSE {})
             \cup (IF scope >= System /\ pc.gpus > 0 THEN {"gpu"} ELSE {})
             \cup (IF scope = Drivers /\ pc.drivers > 0 THEN {"driver"} ELSE {})

Tells(bundle) == {item.tells : item \in bundle}
=============================================================================
