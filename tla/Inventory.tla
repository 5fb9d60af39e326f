------------------------------ MODULE Inventory ------------------------------
(***************************************************************************)
(* The system view of velox-core/src/sysmanage.rs: services, programs that *)
(* start with Windows, disks and adapters, its stored baseline and what    *)
(* changed since.  Each part is a Windows query of its own that may fail.  *)
(***************************************************************************)
EXTENDS Integers, FiniteSets

CONSTANTS
    Systems,     \* what the PC may be: see Views
    Services, Startups, Disks, Adapters,
    Noise,       \* DISK_NOISE_GB
    Unread,      \* Readout::Unavailable: a model value
    NoView       \* no baseline, nothing being saved: a model value

VARIABLES
    system,      \* the PC as it is, without failing queries
    baseline,    \* velox_system_baseline.json, or NoView
    saving       \* the view that is being saved, or NoView

ivars == <<system, baseline, saving>>

States == {"Running", "Stopped", "Other"}
Partial(D, R) == UNION {[E -> R] : E \in SUBSET D}
Views == [services: Partial(Services, States), startup: SUBSET Startups,
          disks: [Disks -> Nat], network: Partial(Adapters, BOOLEAN)]
Parts == {"services", "startup", "disks", "network"}
ASSUME InventoryAssumption ==
    /\ Noise \in Nat \ {0} /\ Systems # {} /\ Systems \subseteq Views
    /\ \A v \in Systems, part \in Parts : v[part] # Unread

-----------------------------------------------------------------------------
(* The machine.                                                            *)

InventoryFrom(some) == system \in some /\ baseline = NoView /\ saving = NoView
InventoryInit == InventoryFrom(Systems)

(* collect: no failure of a part fails the rest.  Without COM or WMI none  *)
(* of them is read.                                                        *)
ReadNow(v, failing) == [part \in Parts |-> IF part \in failing THEN Unread ELSE v[part]]
Failing == {{}} \cup {{part} : part \in Parts} \cup {Parts}

SystemChanges == system' \in Systems \ {system} /\ UNCHANGED <<baseline, saving>>

CollectBaseline == /\ saving = NoView
                   /\ \E failing \in Failing :
                         saving' = [view |-> ReadNow(system, failing), real |-> system]
                   /\ UNCHANGED <<system, baseline>>

(* save_baseline writes a temporary file and renames it; either fails, or  *)
(* the process ends, and the old baseline stays.                           *)
StoreBaseline == /\ saving # NoView
                 /\ baseline' \in {saving, baseline}
                 /\ saving' = NoView
                 /\ UNCHANGED system

InventoryNext == SystemChanges \/ CollectBaseline \/ StoreBaseline

-----------------------------------------------------------------------------
(* What changed.                                                           *)

(* Defect: a part that one of the two could not read is passed over.       *)
NotComparedSilently(old, new) == {}

(* both: what one of the two could not read is not compared, but told.     *)
Both(old, new, part)  == Unread \notin {old[part], new[part]}
NotCompared(old, new) == {part \in Parts : ~Both(old, new, part)}

Far(a, b) == a - b >= Noise \/ b - a >= Noise

(* A part is compared if both views have it, disks and adapters one by     *)
(* one if both have them.                                                  *)
Diff(old, new) ==
    LET Of(part, what) == IF Both(old, new, part) THEN what ELSE {}
        Shared(part)   == DOMAIN old[part] \cap DOMAIN new[part]
    IN  [startup_added    |-> Of("startup", new.startup \ old.startup),
         startup_removed  |-> Of("startup", old.startup \ new.startup),
         services_added   |-> Of("services", DOMAIN new.services \ DOMAIN old.services),
         services_removed |-> Of("services", DOMAIN old.services \ DOMAIN new.services),
         services_changed |-> Of("services", {s \in Shared("services") :
                                                  old.services[s] # new.services[s]}),
         disks            |-> Of("disks", {d \in Shared("disks") :
                                                  Far(old.disks[d], new.disks[d])}),
         network          |-> Of("network", {a \in Shared("network") :
                                                  old.network[a] # new.network[a]}),
         not_compared     |-> NotCompared(old, new)]

IsEmpty(d) == \A field \in DOMAIN d : d[field] = {}

-----------------------------------------------------------------------------
(* Properties.                                                             *)

InventoryTypeOK ==
    /\ system \in Systems
    /\ \A b \in {baseline, saving} \ {NoView} : b.real \in Systems

(* "Nothing has changed" is said only of a PC whose services and start     *)
(* programs are those of the baseline, and of disks and adapters that are  *)
(* still there, whatever could not be read then or now; and all that is    *)
(* reported did change.  The baseline is a view of one moment.             *)
NoSilentChange ==
    baseline # NoView =>
      LET old == baseline.real
      IN  /\ \E failing \in Failing : baseline.view = ReadNow(old, failing)
          /\ \A failing \in Failing :
               LET d == Diff(baseline.view, ReadNow(system, failing))
               IN  /\ IsEmpty(d) =>
                        /\ old.services = system.services /\ old.startup = system.startup
                        /\ \A x \in DOMAIN old.disks : ~Far(old.disks[x], system.disks[x])
                        /\ \A a \in DOMAIN old.network \cap DOMAIN system.network :
                              old.network[a] = system.network[a]
                   /\ old = system => \A field \in DOMAIN d \ {"not_compared"} : d[field] = {}
=============================================================================
