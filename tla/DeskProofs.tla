------------------------------ MODULE DeskProofs ------------------------------
(***************************************************************************)
(* Theorems about the parts of the desk, in the order of this list: what   *)
(* the streamed diagnosis sends, what an edit of the plans touches, what   *)
(* the system view, the snapshots and the usage pages say, whom the panel  *)
(* ranks and joins, what a scan accounts for, how it reads the rules; the  *)
(* types of all of them; and, on top of these, the renewals.  Each part    *)
(* has invariants of its own, which the others leave alone.                *)
(***************************************************************************)
EXTENDS Desk, LibraryProofs, FiniteSetTheorems, TLAPS

-----------------------------------------------------------------------------
(* The streamed diagnosis.                                                 *)

Late(set) == {s \in set : s.late}

(* What the handler holds at each place.  Once the user has left, nothing  *)
(* is asked again: the next push fails.                                    *)
StreamInv ==
    /\ DOMAIN stream = {"at", "role", "scope", "evidence"}
    /\ client \in {"here", "gone"}
    /\ stream.at \in {"idle", "preview", "ask", "push", "closed"}
    /\ stream.at \in {"idle", "preview"} => sent = {}
    /\ stream.at \in {"preview", "ask", "push"} =>
          stream.evidence # {} /\ ~Exceeds(stream.evidence, stream.scope)
    /\ stream.at \in {"ask", "push"} => shown = stream.evidence
    /\ \A s \in sent : /\ s.evidence = shown /\ shown # {}
                       /\ ~Exceeds(shown, stream.scope)
    /\ Late(sent) # {} => /\ client = "gone" /\ stream.at \in {"push", "closed"}
                          /\ \E s \in sent : Late(sent) = {s}

LEMMA InitStream == Init => StreamInv
  BY DEF Init, DiagnosisInit, Quiet, StreamInv, Late

(* A bundle that is accepted has items, none of them beyond the scope.     *)
LEMMA AcceptedBundles ==
  ASSUME NEW items, NEW scope, Bundle(items, scope) # {}
  PROVE  ~Exceeds(Bundle(items, scope), scope)
  BY DEF Bundle, Exceeds

LEMMA StepStream == StreamInv /\ DiagnosisNext => StreamInv'
<1> SUFFICES ASSUME StreamInv, DiagnosisNext PROVE StreamInv'
  OBVIOUS
<1>1. CASE Open
  <2>1. \E scope \in Scopes : \E bundle :
          /\ stream = Quiet /\ UNCHANGED <<client, shown, sent>>
          /\ bundle # {} => ~Exceeds(bundle, scope)
          /\ stream' = [at |-> IF bundle = {} THEN "closed" ELSE "preview", role |-> 1,
                        scope |-> scope, evidence |-> bundle]
    BY <1>1, AcceptedBundles DEF Open
  <2>2. sent = {} /\ Late(sent') = {}
    BY <2>1 DEF StreamInv, Quiet, Late
  <2>3. QED
    BY <2>1, <2>2 DEF StreamInv
<1>2. CASE Push
  BY <1>2 DEF Push, StreamInv, Late
<1>3. CASE AskRole
  <2>1. Late(sent) = {} /\ stream.at = "ask"
    BY <1>3 DEF AskRole, StreamInv
  <2>2. CASE sent' = sent /\ stream' = [stream EXCEPT !.at = "closed"]
    BY <1>3, <2>1, <2>2 DEF AskRole, StreamInv, Late
  <2>3. CASE \E one : /\ one.evidence = stream.evidence /\ one.late = (client = "gone")
                      /\ sent' = sent \cup {one}
                      /\ stream' \in {[stream EXCEPT !.at = "push", !.role = @ + 1],
                                      [stream EXCEPT !.at = "closed"]}
    <3>1. PICK one : /\ one.evidence = stream.evidence /\ one.late = (client = "gone")
                     /\ sent' = sent \cup {one}
      BY <2>3
    <3>2. Late(sent') = IF client = "gone" THEN {one} ELSE {}
      BY <2>1, <3>1 DEF Late
    <3>3. /\ stream'.at \in {"push", "closed"} /\ DOMAIN stream' = DOMAIN stream
          /\ stream'.scope = stream.scope /\ stream'.evidence = stream.evidence
          /\ UNCHANGED <<client, shown>>
      BY <1>3, <2>3 DEF AskRole, StreamInv
    <3>4. QED
      BY <2>1, <3>1, <3>2, <3>3 DEF StreamInv
  <2>4. QED
    BY <1>3, <2>2, <2>3 DEF AskRole
<1>4. CASE LeaveStream
  BY <1>4 DEF LeaveStream, StreamInv, Late
<1>5. QED
  BY <1>1, <1>2, <1>3, <1>4 DEF DiagnosisNext

LEMMA NextStream == StreamInv /\ [Next]_vars => StreamInv'
<1> SUFFICES ASSUME StreamInv, [Next]_vars PROVE StreamInv'
  OBVIOUS
<1>1. CASE UNCHANGED dvars
  BY <1>1 DEF dvars, StreamInv, Late
<1>2. CASE DiagnosisNext
  BY <1>2, StepStream
<1>3. UNCHANGED dvars \/ DiagnosisNext
  BY DEF Next, vars, PlansStep, UsageStep, ProjectStep, SystemStep, PanelStep, SnapshotsStep,
     DiagnosisStep, PcMoves
<1>4. QED
  BY <1>1, <1>2, <1>3

(* Nothing is sent to a provider that the stream had not shown before, for *)
(* every machine, scope, provider and moment of leaving.                   *)
THEOREM SentWasShown == Spec => []SentIsShown
<1>1. StreamInv => SentIsShown
  <2> SUFFICES ASSUME StreamInv PROVE Cardinality(Late(sent)) <= 1
    BY DEF StreamInv, SentIsShown, Late
  <2>1. CASE Late(sent) = {}
    BY <2>1, FS_EmptySet
  <2>2. CASE \E s \in sent : Late(sent) = {s}
    <3>1. PICK s \in sent : Late(sent) = {s}
      BY <2>2
    <3>2. Cardinality({s}) = 1
      BY FS_Singleton
    <3>3. QED
      BY <3>1, <3>2
  <2>3. QED
    BY <2>1, <2>2 DEF StreamInv
<1>2. QED
  BY InitStream, NextStream, <1>1, PTL DEF Spec

-----------------------------------------------------------------------------
(* The book of plans.                                                      *)

Kept(old, new, id) ==
    /\ new \in Books
    /\ \A i \in PlanIds \ {id} :
          /\ i \in DOMAIN new <=> i \in DOMAIN old
          /\ i \in DOMAIN new => new[i] = old[i]

(* Between reading the book and replacing it, the buffer is the book but   *)
(* for one entry: nobody else writes the file meanwhile.                   *)
EditInv ==
    /\ plans \in Books \cup {Nothing, Garbled}
    /\ DOMAIN edit = DOMAIN NoEdit
    /\ edit = NoEdit \/ edit.at \in {"load", "write", "rename"}
    /\ edit.at = "load" =>
         /\ edit.id \in PlanIds /\ edit.name \in {"upsert", "remove", "confirm"}
         /\ edit.name = "upsert" => edit.input \in Inputs
         /\ edit.name = "confirm" => edit.input \in Renewals \cup {NoDate}
    /\ edit.at \in {"write", "rename"} =>
         Readable(plans) /\ Kept(BookOf(plans), edit.buf, edit.id)

LEMMA BookIsFunction ==
  ASSUME NEW book
  PROVE  book \in Books <=> DOMAIN book \subseteq PlanIds /\ book \in [DOMAIN book -> NewPlans]
  BY DEF Books

LEMMA EmptyBook == <<>> \in Books
<1>1. <<>> \in [{} -> NewPlans]
  OBVIOUS
<1>2. QED
  BY <1>1 DEF Books

LEMMA SpecialsAreNoBooks == Nothing \notin Books /\ Garbled \notin Books
  BY InputsAssumption DEF Books

LEMMA FileIsBook ==
  ASSUME plans \in Books \cup {Nothing, Garbled} PROVE BookOf(plans) \in Books
  BY EmptyBook DEF BookOf

(* Whichever edit it is, it changes its own entry only.                    *)
LEMMA ChangedKeepsOthers ==
  ASSUME EditInv, edit.at = "load", NEW book \in Books, ~Refused(book)
  PROVE  Kept(book, Changed(book), edit.id)
<1> DEFINE id == edit.id
<1>1. /\ DOMAIN book \subseteq PlanIds /\ book \in [DOMAIN book -> NewPlans] /\ id \in PlanIds
  BY BookIsFunction DEF EditInv
<1>2. ASSUME NEW e \in NewPlans PROVE Kept(book, Put(book, id, e), id)
  <2>1. Put(book, id, e) \in [DOMAIN book \cup {id} -> NewPlans]
    BY <1>1 DEF Put
  <2>2. QED
    BY <1>1, <2>1, BookIsFunction DEF Put, Kept
<1>3. CASE edit.name = "upsert"
  BY <1>2, <1>3, InputsAssumption DEF EditInv, Changed
<1>4. CASE edit.name = "remove"
  <2>1. Without(book, id) \in [DOMAIN book \ {id} -> NewPlans]
    BY <1>1 DEF Without
  <2>2. Kept(book, Without(book, id), id)
    BY <1>1, <2>1, BookIsFunction DEF Without, Kept
  <2>3. QED
    BY <1>4, <2>2 DEF Changed
<1>5. CASE edit.name = "confirm"
  <2>1. book[id] \in NewPlans
    BY <1>1, <1>5 DEF Refused
  <2>2. Confirmed(book[id]) \in NewPlans
    BY <1>5, <2>1 DEF Confirmed, NewPlans, EditInv
  <2>3. QED
    BY <1>2, <1>5, <2>2 DEF Changed
<1>6. QED
  BY <1>3, <1>4, <1>5 DEF EditInv

LEMMA InitEdit == Init => EditInv
  BY DEF Init, PlansFrom, EditInv, NoEdit

LEMMA StepEdit == EditInv /\ PlansNext => EditInv'
<1> SUFFICES ASSUME EditInv, PlansNext PROVE EditInv'
  OBVIOUS
<1>1. ASSUME edit' = NoEdit, plans' \in {plans, Nothing, Garbled} \cup Books PROVE EditInv'
  BY <1>1 DEF EditInv, NoEdit
<1>2. CASE BeginUpsert
  BY <1>2 DEF BeginUpsert, Begin, EditInv, NoEdit
<1>3. CASE BeginRemove
  BY <1>3 DEF BeginRemove, Begin, EditInv, NoEdit
<1>4. CASE BeginConfirm
  BY <1>4 DEF BeginConfirm, Begin, EditInv, NoEdit
<1>5. CASE LoadPlans
  <2>1. CASE edit' = NoEdit
    BY <1>1, <1>5, <2>1 DEF LoadPlans
  <2>2. CASE edit' # NoEdit
    <3>1. /\ edit' = [edit EXCEPT !.at = "write", !.buf = Changed(BookOf(plans))]
          /\ UNCHANGED plans /\ Readable(plans) /\ ~Refused(BookOf(plans)) /\ edit.at = "load"
      BY <1>5, <2>2 DEF LoadPlans
    <3>2. Kept(BookOf(plans), Changed(BookOf(plans)), edit.id)
      BY <3>1, FileIsBook, ChangedKeepsOthers DEF EditInv
    <3>3. edit'.at = "write" /\ edit'.buf = Changed(BookOf(plans)) /\ edit'.id = edit.id
          /\ DOMAIN edit' = DOMAIN edit
      BY <3>1 DEF EditInv, NoEdit
    <3>4. QED
      BY <3>1, <3>2, <3>3 DEF EditInv, Readable, BookOf
  <2>3. QED
    BY <2>1, <2>2
<1>6. CASE SavePlans
  <2>1. CASE edit' = NoEdit
    BY <1>1, <1>6, <2>1 DEF SavePlans
  <2>2. CASE edit' = [edit EXCEPT !.at = "rename"]
    <3>1. edit'.at = "rename" /\ edit'.buf = edit.buf /\ edit'.id = edit.id
          /\ DOMAIN edit' = DOMAIN edit /\ edit.at = "write" /\ UNCHANGED plans
      BY <1>6, <2>2 DEF SavePlans, EditInv, NoEdit
    <3>2. QED
      BY <3>1 DEF EditInv, Readable, BookOf
  <2>3. QED
    BY <1>6, <2>1, <2>2 DEF SavePlans
<1>7. CASE RenamePlans
  BY <1>1, <1>7 DEF RenamePlans, EditInv, Kept
<1>8. CASE KillEdit \/ HandEdit
  BY <1>1, <1>8 DEF KillEdit, HandEdit, EditInv
<1>9. CASE TimePasses
  BY <1>1, <1>9 DEF TimePasses
<1>10. QED
  BY <1>2, <1>3, <1>4, <1>5, <1>6, <1>7, <1>8, <1>9 DEF PlansNext

LEMMA NextEdit == EditInv /\ [Next]_vars => EditInv'
<1> SUFFICES ASSUME EditInv, [Next]_vars PROVE EditInv'
  OBVIOUS
<1>1. CASE UNCHANGED pvars
  BY <1>1 DEF pvars, EditInv, Readable, BookOf
<1>2. CASE PlansNext
  BY <1>2, StepEdit
<1>3. UNCHANGED pvars \/ PlansNext
  BY DEF Next, vars, PlansStep, UsageStep, ProjectStep, SystemStep, PanelStep, SnapshotsStep,
     DiagnosisStep
<1>4. QED
  BY <1>1, <1>2, <1>3

(* An edit of the plans that is interrupted or fails anywhere leaves the   *)
(* book as it was; one that succeeds changes one entry of a book it read.  *)
THEOREM EditsAreLocal == Spec => EditsTouchOneEntry
<1> DEFINE Local == plans' # plans /\ edit # NoEdit =>
                      /\ Garbled \notin {plans, plans'}
                      /\ \A id \in PlanIds \ {edit.id} :
                            /\ id \in DOMAIN plans' <=> id \in DOMAIN BookOf(plans)
                            /\ id \in DOMAIN plans' => plans'[id] = BookOf(plans)[id]
<1>1. EditInv /\ [Next]_vars => [Local]_pvars
  <2> SUFFICES ASSUME EditInv, PlansNext, plans' # plans, edit # NoEdit PROVE Local
    BY DEF pvars, Next, vars, PlansStep, UsageStep, ProjectStep, SystemStep, PanelStep,
       SnapshotsStep, DiagnosisStep
  <2>1. RenamePlans /\ plans' = edit.buf
    BY DEF PlansNext, BeginUpsert, BeginRemove, BeginConfirm, Begin, LoadPlans, SavePlans,
       RenamePlans, KillEdit, HandEdit, TimePasses
  <2>2. Kept(BookOf(plans), plans', edit.id) /\ Readable(plans)
    BY <2>1 DEF RenamePlans, EditInv
  <2>3. plans # Garbled /\ plans' # Garbled
    BY <2>2, SpecialsAreNoBooks DEF Kept, Readable
  <2>4. QED
    BY <2>2, <2>3 DEF Kept
<1>2. QED
  BY InitEdit, NextEdit, <1>1, PTL DEF Spec, EditsTouchOneEntry

-----------------------------------------------------------------------------
(* The system view.                                                        *)

(* What is kept was read in one moment of a PC that existed.               *)
IsView(b) == /\ b.real \in Systems
             /\ \E failing \in Failing : b.view = ReadNow(b.real, failing)
ViewsInv == /\ system \in Systems
            /\ baseline # NoView => IsView(baseline)
            /\ saving # NoView => IsView(saving)

LEMMA InitViews == Init => ViewsInv
<1> SUFFICES ASSUME Init PROVE system \in Systems /\ baseline = NoView /\ saving = NoView
  BY DEF ViewsInv
<1>1. Some(Systems) \subseteq Systems
  BY InventoryAssumption DEF Some
<1>2. QED
  BY <1>1 DEF Init, InventoryFrom, Start

LEMMA StepViews == ViewsInv /\ InventoryNext => ViewsInv'
<1> SUFFICES ASSUME ViewsInv, InventoryNext PROVE ViewsInv'
  OBVIOUS
<1>1. CASE SystemChanges
  BY <1>1 DEF SystemChanges, ViewsInv
<1>2. CASE CollectBaseline
  <2>1. IsView(saving')
    BY <1>2 DEF CollectBaseline, IsView, ViewsInv
  <2>2. QED
    BY <1>2, <2>1 DEF CollectBaseline, ViewsInv
<1>3. CASE StoreBaseline
  BY <1>3 DEF StoreBaseline, ViewsInv
<1>4. QED
  BY <1>1, <1>2, <1>3 DEF InventoryNext

LEMMA NextViews == ViewsInv /\ [Next]_vars => ViewsInv'
<1> SUFFICES ASSUME ViewsInv, [Next]_vars PROVE ViewsInv'
  OBVIOUS
<1>1. CASE UNCHANGED ivars
  BY <1>1 DEF ivars, ViewsInv
<1>2. CASE InventoryNext
  BY <1>2, StepViews
<1>3. UNCHANGED ivars \/ InventoryNext
  BY DEF Next, vars, PlansStep, UsageStep, ProjectStep, SystemStep, PanelStep, SnapshotsStep,
     DiagnosisStep
<1>4. QED
  BY <1>1, <1>2, <1>3

(* A view with nothing unread is the PC, and one that has a part unread is *)
(* told from it.                                                           *)
LEMMA ReadParts ==
  ASSUME NEW v \in Systems, NEW failing, NEW part \in Parts
  PROVE  /\ DOMAIN ReadNow(v, failing) = Parts
         /\ ReadNow(v, failing)[part] = Unread <=> part \in failing
         /\ part \notin failing => ReadNow(v, failing)[part] = v[part]
  BY InventoryAssumption DEF ReadNow

(* Whatever could not be read, of two systems that differ in services or   *)
(* start programs it is never said that nothing has changed, and of equal  *)
(* ones never that something has.                                          *)
LEMMA DiffTells ==
  ASSUME NEW old \in Systems, NEW new \in Systems, NEW f, NEW g
  PROVE  LET d == Diff(ReadNow(old, f), ReadNow(new, g))
         IN  /\ IsEmpty(d) =>
                  /\ old.services = new.services /\ old.startup = new.startup
                  /\ \A x \in DOMAIN old.disks : ~Far(old.disks[x], new.disks[x])
                  /\ \A a \in DOMAIN old.network \cap DOMAIN new.network :
                        old.network[a] = new.network[a]
             /\ old = new => \A field \in DOMAIN d \ {"not_compared"} : d[field] = {}
<1> DEFINE a == ReadNow(old, f)
           b == ReadNow(new, g)
           d == Diff(a, b)
<1>1. ASSUME NEW part \in Parts, Both(a, b, part)
      PROVE  a[part] = old[part] /\ b[part] = new[part]
  BY <1>1, ReadParts DEF Both
<1>2. /\ old \in Views /\ new \in Views
  BY InventoryAssumption
<1>3. ASSUME IsEmpty(d)
      PROVE  /\ old.services = new.services /\ old.startup = new.startup
             /\ \A x \in DOMAIN old.disks : ~Far(old.disks[x], new.disks[x])
             /\ \A x \in DOMAIN old.network \cap DOMAIN new.network :
                   old.network[x] = new.network[x]
  <2>1. \A part \in Parts : Both(a, b, part)
    BY <1>3 DEF IsEmpty, Diff, NotCompared
  <2>2. /\ a.services = old.services /\ b.services = new.services
        /\ a.startup = old.startup /\ b.startup = new.startup
        /\ a.disks = old.disks /\ b.disks = new.disks
        /\ a.network = old.network /\ b.network = new.network
    BY <1>1, <2>1 DEF Parts
  <2> HIDE DEF a, b
  <2>3. /\ b.startup \ a.startup = {} /\ a.startup \ b.startup = {}
        /\ DOMAIN b.services \ DOMAIN a.services = {}
        /\ DOMAIN a.services \ DOMAIN b.services = {}
        /\ {s \in DOMAIN a.services \cap DOMAIN b.services : a.services[s] # b.services[s]} = {}
        /\ {x \in DOMAIN a.disks \cap DOMAIN b.disks : Far(a.disks[x], b.disks[x])} = {}
        /\ {x \in DOMAIN a.network \cap DOMAIN b.network : a.network[x] # b.network[x]} = {}
    <3>1. /\ Both(a, b, "startup") /\ Both(a, b, "services")
          /\ Both(a, b, "disks") /\ Both(a, b, "network")
      BY <2>1 DEF Parts
    <3>2. /\ d.startup_added = {} /\ d.startup_removed = {} /\ d.services_added = {}
          /\ d.services_removed = {} /\ d.services_changed = {} /\ d.disks = {} /\ d.network = {}
      <4>1. {"startup_added", "startup_removed", "services_added", "services_removed",
             "services_changed", "disks", "network"} \subseteq DOMAIN d
        BY DEF Diff
      <4> HIDE DEF d
      <4>2. QED
        BY <1>3, <4>1 DEF IsEmpty
    <3>3. QED
      BY <3>1, <3>2 DEF Diff
  <2>4. old.startup = new.startup
    <3>1. \A s, t : s \ t = {} /\ t \ s = {} => \A x : x \in s <=> x \in t
      OBVIOUS
    <3>2. \A x : x \in a.startup <=> x \in b.startup
      BY <2>3, <3>1
    <3>3. \A s, t : (\A x : x \in s <=> x \in t) => s = t
      OBVIOUS
    <3>4. a.startup = b.startup
      BY <3>2, <3>3
    <3>5. QED
      BY <2>2, <3>4
  <2>5. \A x \in DOMAIN old.disks : ~Far(old.disks[x], new.disks[x])
    BY <1>2, <2>2, <2>3 DEF Views
  <2>6. \A x \in DOMAIN old.network \cap DOMAIN new.network : old.network[x] = new.network[x]
    BY <2>2, <2>3
  <2>7. old.services = new.services
    BY <1>2, <2>2, <2>3 DEF Views, Partial
  <2>8. QED
    BY <2>4, <2>5, <2>6, <2>7
<1>4. ASSUME old = new, NEW field \in DOMAIN d \ {"not_compared"}
      PROVE  d[field] = {}
  <2>1. \A x \in DOMAIN old.disks : ~Far(old.disks[x], old.disks[x])
    BY <1>2, InventoryAssumption DEF Far, Views
  <2>2. QED
    BY <1>1, <1>4, <2>1 DEF Diff, Parts
<1>5. QED
  BY <1>3, <1>4

(* For every PC, every failure of a query and every noise level: the view  *)
(* of the system does not hide a change behind a part it could not read.   *)
THEOREM NothingIsHidden == Spec => []NoSilentChange
<1>1. ViewsInv => NoSilentChange
  BY DiffTells DEF ViewsInv, IsView, NoSilentChange
<1>2. QED
  BY InitViews, NextViews, <1>1, PTL DEF Spec

-----------------------------------------------------------------------------
(* Evidence of a machine.                                                  *)

LoadKinds == {"power_plan", "cpu_usage", "max_temp_c", "finding"}
ItemKinds == LoadKinds \cup {"cpu_model", "logical_cores", "ram_total_mb", "os", "gpu", "driver"}
Level == [k \in ItemKinds |-> IF k \in LoadKinds THEN Minimal
                              ELSE IF k = "driver" THEN Drivers ELSE System]
Told  == [k \in ItemKinds |-> IF k \in LoadKinds THEN "load" ELSE k]
ItemOf(k, i) == Item(<<k, i>>, <<k, i>>, Level[k], Told[k])
FactSet == [temp: {"unknown", "high", "normal"}, gpus: Nat, drivers: Nat, busy: BOOLEAN]

LEMMA FactsOfMachine ==
  ASSUME NEW p \in Pcs, NEW answered \in BOOLEAN
  PROVE  Facts(Collected(p, answered)) \in FactSet
<1> DEFINE c == Collected(p, answered)
<1>1. p \in Hardware
  BY SnapshotsAssumption
<1>2. /\ c.drivers \in Seq(Devices \X Versions) /\ c.gpus \in Nat /\ c.busy \in BOOLEAN
  BY <1>1 DEF Collected, Hardware
<1>3. IsFiniteSet(1..Len(c.drivers)) /\ DOMAIN c.drivers = 1..Len(c.drivers)
  <2> HIDE DEF c
  <2>1. Len(c.drivers) \in Nat /\ DOMAIN c.drivers = 1..Len(c.drivers)
    BY <1>2
  <2>2. QED
    BY <2>1, FS_Interval
<1>4. IsFiniteSet(Listed(c.drivers))
  BY <1>3, FS_Subset DEF Listed
<1>5. Cardinality(Listed(c.drivers)) \in Nat
  BY <1>4, FS_CardinalityType
<1>6. QED
  BY <1>2, <1>5 DEF Facts, FactSet

LEMMA ItemsAreFinite ==
  ASSUME NEW k, NEW n \in Nat, NEW level, NEW tells
  PROVE  IsFiniteSet(Items(k, n, level, tells))
<1> DEFINE f == [i \in 1..n |-> Item(<<k, i>>, <<k, i>>, level, tells)]
<1>1. f \in Surjection(1..n, Items(k, n, level, tells))
  BY DEF Surjection, Items
<1>2. QED
  BY <1>1, FS_Interval, FS_Surjection

(* The evidence of a machine is finite, and an identity tells which item   *)
(* it is.                                                                  *)
LEMMA HealthItems ==
  ASSUME NEW facts \in FactSet
  PROVE  /\ IsFiniteSet(OfHealth(facts))
         /\ \A x \in OfHealth(facts) : \E k \in ItemKinds, i \in Nat :
               /\ x = ItemOf(k, i)
               /\ (k = "driver" => facts.drivers > 0) /\ (k = "gpu" => facts.gpus > 0)
         /\ {ItemOf(k, 1) : k \in {"power_plan"} \cup Machine} \subseteq OfHealth(facts)
         /\ facts.gpus > 0 => ItemOf("gpu", 1) \in OfHealth(facts)
         /\ facts.drivers > 0 => ItemOf("driver", 1) \in OfHealth(facts)
<1> DEFINE Of(k, n) == Items(k, n, Level[k], Told[k])
<1>1. ASSUME NEW k \in ItemKinds, NEW n \in Nat PROVE IsFiniteSet(Of(k, n))
  BY ItemsAreFinite
<1>2. ASSUME NEW k \in ItemKinds, NEW n \in Nat, NEW x \in Of(k, n)
      PROVE  \E i \in Nat : i \in 1..n /\ x = ItemOf(k, i)
  <2>1. PICK i \in 1..n : x = Item(<<k, i>>, <<k, i>>, Level[k], Told[k])
    BY <1>2 DEF Items
  <2>2. i \in Nat
    OBVIOUS
  <2>3. QED
    BY <2>1, <2>2 DEF ItemOf
<1> DEFINE Temp == IF facts.temp = "unknown" THEN 0 ELSE 1
<1>3. /\ Temp \in Nat /\ facts.gpus \in Nat /\ facts.drivers \in Nat /\ Findings(facts) \in Nat
      /\ 1 \in Nat
  BY DEF FactSet, Findings
<1> DEFINE Load == Of("power_plan", 1) \cup Of("cpu_usage", 1) \cup Of("max_temp_c", Temp)
           Four == Of("cpu_model", 1) \cup Of("logical_cores", 1) \cup Of("ram_total_mb", 1)
                   \cup Of("os", 1)
           Gpus == Of("gpu", facts.gpus)
           Devs == Of("driver", facts.drivers)
           Warn == Of("finding", Findings(facts))
<1>4. OfHealth(facts) = Load \cup Four \cup Gpus \cup Devs \cup Warn
  <2> DEFINE Names4 == Each(Machine, System)
  <2>1. Names4 = Items("cpu_model", 1, System, "cpu_model")
                 \cup Items("logical_cores", 1, System, "logical_cores")
                 \cup Items("ram_total_mb", 1, System, "ram_total_mb") \cup Items("os", 1, System, "os")
    BY DEF Each, Machine
  <2>2. /\ Level["power_plan"] = Minimal /\ Told["power_plan"] = "load"
        /\ Level["cpu_usage"] = Minimal /\ Told["cpu_usage"] = "load"
        /\ Level["max_temp_c"] = Minimal /\ Told["max_temp_c"] = "load"
        /\ Level["finding"] = Minimal /\ Told["finding"] = "load"
        /\ Level["cpu_model"] = System /\ Told["cpu_model"] = "cpu_model"
        /\ Level["logical_cores"] = System /\ Told["logical_cores"] = "logical_cores"
        /\ Level["ram_total_mb"] = System /\ Told["ram_total_mb"] = "ram_total_mb"
        /\ Level["os"] = System /\ Told["os"] = "os"
        /\ Level["gpu"] = System /\ Told["gpu"] = "gpu"
        /\ Level["driver"] = Drivers /\ Told["driver"] = "driver"
    BY DEF Level, Told, ItemKinds, LoadKinds
  <2>3. OfHealth(facts) =
          Items("power_plan", 1, Minimal, "load") \cup Items("cpu_usage", 1, Minimal, "load")
          \cup Items("max_temp_c", Temp, Minimal, "load") \cup Names4
          \cup Items("gpu", facts.gpus, System, "gpu")
          \cup Items("driver", facts.drivers, Drivers, "driver")
          \cup Items("finding", Findings(facts), Minimal, "load")
    BY DEF OfHealth, OfSnapshot
  <2> HIDE DEF Names4
  <2>4. Names4 = Four
    BY <2>1, <2>2
  <2>5. QED
    BY <2>2, <2>3, <2>4
<1>5. {"power_plan", "cpu_usage", "max_temp_c", "cpu_model", "logical_cores", "ram_total_mb", "os",
       "gpu", "driver", "finding"} \subseteq ItemKinds
  BY DEF ItemKinds, LoadKinds
<1>6. IsFiniteSet(OfHealth(facts))
  <2>1. \A S, T : IsFiniteSet(S) /\ IsFiniteSet(T) => IsFiniteSet(S \cup T)
    BY FS_Union
  <2>2. /\ IsFiniteSet(Of("power_plan", 1)) /\ IsFiniteSet(Of("cpu_usage", 1))
        /\ IsFiniteSet(Of("max_temp_c", Temp))
        /\ IsFiniteSet(Of("cpu_model", 1)) /\ IsFiniteSet(Of("logical_cores", 1))
        /\ IsFiniteSet(Of("ram_total_mb", 1)) /\ IsFiniteSet(Of("os", 1))
        /\ IsFiniteSet(Gpus) /\ IsFiniteSet(Devs) /\ IsFiniteSet(Warn)
    BY <1>1, <1>3, <1>5
  <2> HIDE DEF Of, Gpus, Devs, Warn, Temp
  <2>3. IsFiniteSet(Load)
    BY <2>1, <2>2
  <2>4. IsFiniteSet(Four)
    BY <2>1, <2>2
  <2> HIDE DEF Load, Four
  <2>5. QED
    BY <1>4, <2>1, <2>2, <2>3, <2>4
<1>7. ASSUME NEW x \in OfHealth(facts)
      PROVE  \E k \in ItemKinds, i \in Nat :
                /\ x = ItemOf(k, i)
                /\ (k = "driver" => facts.drivers > 0) /\ (k = "gpu" => facts.gpus > 0)
  <2> HIDE DEF Of, Temp
  <2>1. PICK k \in ItemKinds, n \in Nat :
           x \in Of(k, n) /\ (k = "driver" => n = facts.drivers) /\ (k = "gpu" => n = facts.gpus)
    BY <1>3, <1>4, <1>5
  <2>2. PICK i \in Nat : i \in 1..n /\ x = ItemOf(k, i)
    BY <1>2, <2>1
  <2>3. (k = "driver" => facts.drivers > 0) /\ (k = "gpu" => facts.gpus > 0)
    BY <2>1, <2>2
  <2>4. QED
    BY <2>2, <2>3
<1>8. ASSUME NEW k \in ItemKinds, NEW n \in Nat, n > 0 PROVE ItemOf(k, 1) \in Of(k, n)
  BY <1>8 DEF Items, ItemOf
<1>9. /\ {ItemOf(k, 1) : k \in {"power_plan"} \cup Machine} \subseteq OfHealth(facts)
      /\ facts.gpus > 0 => ItemOf("gpu", 1) \in OfHealth(facts)
      /\ facts.drivers > 0 => ItemOf("driver", 1) \in OfHealth(facts)
  <2>1. /\ ItemOf("power_plan", 1) \in Load
        /\ ItemOf("cpu_model", 1) \in Four /\ ItemOf("logical_cores", 1) \in Four
        /\ ItemOf("ram_total_mb", 1) \in Four /\ ItemOf("os", 1) \in Four
    BY <1>3, <1>5, <1>8
  <2>2. /\ (facts.gpus > 0 => ItemOf("gpu", 1) \in Gpus)
        /\ (facts.drivers > 0 => ItemOf("driver", 1) \in Devs)
    BY <1>3, <1>5, <1>8
  <2> HIDE DEF Load, Four, Gpus, Devs, Warn
  <2>3. \A k \in {"power_plan"} \cup Machine : ItemOf(k, 1) \in Load \cup Four
    BY <2>1 DEF Machine
  <2>4. QED
    BY <1>4, <2>2, <2>3
<1>10. QED
  BY <1>6, <1>7, <1>9

(* Items with identities of their own are not refused as duplicates.       *)
LEMMA NoneTwice ==
  ASSUME NEW X, IsFiniteSet(X), \A x, y \in X : x.id = y.id => x = y
  PROVE  ~Duplicated(X)
<1> DEFINE Ids == {x.id : x \in X}
           f   == [x \in X |-> x.id]
<1>1. f \in Surjection(X, Ids)
  BY DEF Surjection
<1>2. IsFiniteSet(Ids)
  BY <1>1, FS_Surjection
<1> SUFFICES ASSUME Cardinality(Ids) < Cardinality(X) PROVE FALSE
  BY DEF Duplicated
<1>3. f \in [X -> Ids]
  OBVIOUS
<1> HIDE DEF Ids, f
<1>4. \E x, y \in X : x # y /\ f[x] = f[y]
  BY <1>2, <1>3, FS_PigeonHole
<1>5. QED
  BY <1>4 DEF f

(* Whatever the scope, what remains of the evidence is accepted, as it is. *)
LEMMA HealthAccepted ==
  ASSUME NEW facts \in FactSet, NEW scope \in Scopes
  PROVE  Bundle(Within(OfHealth(facts), scope), scope) = Within(OfHealth(facts), scope)
<1> DEFINE X   == Within(OfHealth(facts), scope)
<1>1. IsFiniteSet(X)
  BY HealthItems, FS_Subset DEF Within
<1>2. \A x, y \in X : x.id = y.id => x = y
  <2>1. \A x \in X : \E k \in ItemKinds, i \in Nat : x = ItemOf(k, i)
    BY HealthItems DEF Within
  <2>2. \A k, i, l, j : ItemOf(k, i).id = ItemOf(l, j).id => ItemOf(k, i) = ItemOf(l, j)
    BY DEF ItemOf, Item
  <2>3. QED
    BY <2>1, <2>2
<1>3. ~Duplicated(X)
  BY <1>1, <1>2, NoneTwice
<1>4. ~Exceeds(X, scope)
  <2>1. ASSUME NEW x \in X PROVE x.sensitivity \in 1..3
    <3>1. PICK k \in ItemKinds, i \in Nat : x = ItemOf(k, i)
      BY HealthItems DEF Within
    <3>2. x.sensitivity = Level[k]
      BY <3>1 DEF ItemOf, Item
    <3>3. QED
      BY <3>2 DEF Level, Minimal, System, Drivers
  <2>2. QED
    BY <2>1 DEF Exceeds, Within, Scopes, Minimal, System, Drivers
<1>5. QED
  BY <1>3, <1>4 DEF Bundle, Empty

(* What the items of a scope tell is what AiContext tells in that scope,   *)
(* without the kernel.                                                     *)
LEMMA HealthTells ==
  ASSUME NEW facts \in FactSet, NEW scope \in Scopes
  PROVE  Tells(Within(OfHealth(facts), scope)) = ContextTells(facts, scope) \ {"kernel"}
<1> USE DEF Scopes, Minimal, System, Drivers, SystemInfo, Machine
<1>1. ASSUME NEW x \in Within(OfHealth(facts), scope)
      PROVE  x.tells \in ContextTells(facts, scope) \ {"kernel"}
  <2>1. PICK k \in ItemKinds, i \in Nat :
           /\ x = ItemOf(k, i)
           /\ (k = "driver" => facts.drivers > 0) /\ (k = "gpu" => facts.gpus > 0)
    BY HealthItems DEF Within
  <2>2. x.tells = Told[k] /\ Level[k] <= scope
    BY <2>1 DEF ItemOf, Item, Within
  <2>3. CASE k \in LoadKinds
    BY <2>2, <2>3 DEF Told, ContextTells
  <2>4. CASE k = "driver"
    BY <2>1, <2>2, <2>4 DEF Told, Level, LoadKinds, ContextTells
  <2>5. CASE k = "gpu"
    BY <2>1, <2>2, <2>5 DEF Told, Level, LoadKinds, ContextTells
  <2>6. CASE k \in Machine
    BY <2>2, <2>6 DEF Told, Level, LoadKinds, ContextTells
  <2>7. QED
    BY <2>3, <2>4, <2>5, <2>6 DEF ItemKinds
<1>2. ASSUME NEW k \in ItemKinds, ItemOf(k, 1) \in OfHealth(facts), Level[k] <= scope
      PROVE  Told[k] \in Tells(Within(OfHealth(facts), scope))
  BY <1>2 DEF Tells, Within, ItemOf, Item
<1>3. /\ {"power_plan", "gpu", "driver"} \cup Machine \subseteq ItemKinds
      /\ Level["power_plan"] = 1 /\ Level["driver"] = 3
      /\ \A k \in {"gpu"} \cup Machine : Level[k] = 2 /\ Told[k] = k
      /\ Told["power_plan"] = "load" /\ Told["driver"] = "driver"
  BY DEF Level, Told, ItemKinds, LoadKinds
<1>4. ASSUME NEW t \in ContextTells(facts, scope) \ {"kernel"}
      PROVE  t \in Tells(Within(OfHealth(facts), scope))
  <2>1. CASE t = "load"
    BY <1>2, <1>3, <2>1, HealthItems
  <2>2. CASE t = "driver" /\ scope = Drivers /\ facts.drivers > 0
    BY <1>2, <1>3, <2>2, HealthItems
  <2>3. CASE t = "gpu" /\ scope >= System /\ facts.gpus > 0
    BY <1>2, <1>3, <2>3, HealthItems
  <2>4. CASE t \in Machine /\ scope >= System
    BY <1>2, <1>3, <2>4, HealthItems
  <2>5. QED
    BY <1>4, <2>1, <2>2, <2>3, <2>4 DEF ContextTells
<1>5. QED
  BY <1>1, <1>4 DEF Tells

(* The evidence of every machine, read well or badly, stays in its scope   *)
(* and says what AiContext says, but for the kernel.                       *)
THEOREM EvidenceStaysInScope == Spec => []BundleStaysInScope
<1> DEFINE PcInv == pc \in Pcs
<1>1. Init => PcInv
  <2>1. Some(Pcs) \subseteq Pcs
    BY SnapshotsAssumption DEF Some
  <2>2. QED
    BY <2>1 DEF Init, SnapshotsFrom, Start
<1>2. PcInv /\ [Next]_vars => PcInv'
  BY DEF Next, vars, svars, PlansStep, UsageStep, ProjectStep, SystemStep, PanelStep,
     SnapshotsStep, SnapshotsNext, DiagnosisStep, DiagnosisNext, PcMoves, PcChanges, Capture
<1>3. PcInv => BundleStaysInScope
  <2> SUFFICES ASSUME pc \in Pcs, NEW answered \in BOOLEAN, NEW scope \in Scopes
      PROVE LET facts == Facts(Collected(pc, answered))
                Of(level) == Bundle(Within(OfHealth(facts), level), level)
            IN  /\ Of(scope) # {} /\ Tells(Of(scope)) = ContextTells(facts, scope) \ {"kernel"}
                /\ Tells(Bundle(Within(OfBenchmark, scope), scope)) \ {"score"} \subseteq Tells(Of(scope))
                /\ \A wider \in Scopes : wider >= scope =>
                      Of(scope) = {item \in Of(wider) : item.sensitivity <= scope}
    BY DEF BundleStaysInScope
  <2> DEFINE facts == Facts(Collected(pc, answered))
             Of(level) == Bundle(Within(OfHealth(facts), level), level)
  <2>1. facts \in FactSet
    BY FactsOfMachine
  <2> HIDE DEF facts
  <2>2. \A level \in Scopes : Of(level) = Within(OfHealth(facts), level)
    BY <2>1, HealthAccepted
  <2>3. Tells(Of(scope)) = ContextTells(facts, scope) \ {"kernel"}
    BY <2>1, <2>2, HealthTells
  <2>4. Of(scope) # {}
    BY <2>3 DEF Tells, ContextTells
  <2>5. Tells(Bundle(Within(OfBenchmark, scope), scope)) \ {"score"} \subseteq Tells(Of(scope))
    <3>1. ASSUME NEW x \in Within(OfBenchmark, scope), x.tells # "score"
          PROVE  x.tells \in ContextTells(facts, scope) \ {"kernel"}
      BY <3>1 DEF Within, OfBenchmark, Items, Item, ContextTells, SystemInfo, Machine, Scopes,
                  Minimal, System, Drivers
    <3>2. Tells(Bundle(Within(OfBenchmark, scope), scope)) \ {"score"}
             \subseteq ContextTells(facts, scope) \ {"kernel"}
      BY <3>1 DEF Bundle, Tells
    <3> HIDE DEF Of
    <3>3. QED
      BY <2>3, <3>2
  <2>6. ASSUME NEW wider \in Scopes, wider >= scope
        PROVE  Of(scope) = {item \in Of(wider) : item.sensitivity <= scope}
    <3>1. \A x \in OfHealth(facts) : x.sensitivity \in 1..3
      <4>1. ASSUME NEW x \in OfHealth(facts) PROVE x.sensitivity \in 1..3
        <5>1. PICK k \in ItemKinds, i \in Nat : x = ItemOf(k, i)
          BY <2>1, HealthItems
        <5>2. QED
          BY <5>1 DEF ItemOf, Item, Level, Minimal, System, Drivers
      <4>2. QED
        BY <4>1
    <3>2. QED
      BY <2>2, <2>6, <3>1 DEF Within, Scopes, Minimal, System, Drivers
  <2>7. QED
    BY <2>3, <2>4, <2>5, <2>6 DEF facts
<1> HIDE DEF PcInv
<1>4. QED
  BY <1>1, <1>2, <1>3, PTL DEF Spec

-----------------------------------------------------------------------------
(* Comparisons and reports.                                                *)

(* Of a set of places there is a last one.                                 *)
LEMMA LastPlace ==
  ASSUME NEW L \in Nat, NEW S \in SUBSET (1..L), S # {}
  PROVE  Max(S) \in S
<1> DEFINE T == {L - i : i \in S}
<1>1. T \in SUBSET Nat /\ T # {}
  <2>1. \A i \in S : L - i \in Nat
    OBVIOUS
  <2>2. QED
    BY <2>1
<1>2. PICK m \in T : \A n \in T : m <= n
  <2> HIDE DEF T
  <2>1. QED
    BY <1>1, LeastNatural
<1>3. PICK x \in S : m = L - x
  OBVIOUS
<1>4. ASSUME NEW y \in S PROVE x >= y
  <2>1. L - y \in T
    OBVIOUS
  <2>2. L - x <= L - y
    BY <1>2, <1>3, <2>1
  <2>3. QED
    BY <2>2
<1>5. QED
  BY <1>4, Zenon DEF Max

(* The map of the versions of a list says which drivers are in it, if no   *)
(* name is there with two.                                                 *)
LEMMA VersionsTell ==
  ASSUME NEW p \in Hardware, Unique(p)
  PROVE  /\ Installed(p) = {<<n, VersionsOf(p.drivers)[n]>> : n \in DOMAIN VersionsOf(p.drivers)}
         /\ DOMAIN VersionsOf(p.drivers) = {} <=> p.drivers = <<>>
<1> DEFINE list == p.drivers
           V    == VersionsOf(list)
           At(n) == {i \in DOMAIN list : Name(list[i]) = n}
<1>1. list \in Seq(Devices \X Versions) /\ Len(list) \in Nat /\ DOMAIN list = 1..Len(list)
  BY DEF Hardware
<1>2. DOMAIN V = {Name(list[i]) : i \in DOMAIN list}
  BY DEF VersionsOf
<1>3. ASSUME NEW i \in DOMAIN list PROVE list[i] = <<Name(list[i]), V[Name(list[i])]>>
  <2> DEFINE n == Name(list[i])
  <2>1. Max(At(n)) \in At(n)
    <3>1. At(n) \in SUBSET (1..Len(list)) /\ At(n) # {}
      BY <1>1
    <3> HIDE DEF At, list
    <3>2. QED
      BY <1>1, <3>1, LastPlace
  <2>2. PICK j \in DOMAIN list : j = Max(At(n)) /\ Name(list[j]) = n
    BY <2>1
  <2>3. list[j] = list[i]
    BY <2>2 DEF Unique
  <2>4. V[n] = list[j][2]
    BY <1>2, <2>2 DEF VersionsOf, LastOf
  <2>5. list[i] = <<list[i][1], list[i][2]>>
    BY <1>1
  <2>6. QED
    BY <2>3, <2>4, <2>5 DEF Name
<1>4. Installed(p) = {list[i] : i \in DOMAIN list}
  BY DEF Installed
<1>5. DOMAIN V = {} <=> list = <<>>
  BY <1>1, <1>2
<1> HIDE DEF V, list
<1>6. Installed(p) = {<<n, V[n]>> : n \in DOMAIN V}
  BY <1>2, <1>3, <1>4
<1>7. QED
  BY <1>5, <1>6 DEF V, list

(* What a file holds was measured of a PC that there was.                  *)
IsMeasured(c) ==
    \E p \in Pcs, answered, bench \in BOOLEAN : c = Measured(p, answered, bench)
CaptureInv == /\ pc \in Pcs /\ DOMAIN captures = Labels
              /\ \A l \in Whole : IsMeasured(captures[l])

LEMMA InitCapture == Init => CaptureInv
<1>1. Some(Pcs) \subseteq Pcs
  BY SnapshotsAssumption DEF Some
<1>2. QED
  BY <1>1 DEF Init, SnapshotsFrom, Start, CaptureInv, Whole

LEMMA NextCapture == CaptureInv /\ [Next]_vars => CaptureInv'
<1> SUFFICES ASSUME CaptureInv, [Next]_vars PROVE CaptureInv'
  OBVIOUS
<1>1. CASE UNCHANGED captures /\ pc' \in Pcs
  BY <1>1 DEF CaptureInv, Whole
<1>2. CASE Capture
  <2>1. PICK l \in Labels, answered \in BOOLEAN, bench \in BOOLEAN :
           \/ captures' = [captures EXCEPT ![l] = Measured(pc, answered, bench)]
           \/ captures' = [captures EXCEPT ![l] = Torn]
    BY <1>2 DEF Capture
  <2>2. IsMeasured(Measured(pc, answered, bench))
    BY DEF IsMeasured, CaptureInv
  <2> HIDE DEF IsMeasured
  <2>3. ASSUME NEW k \in Whole' PROVE IsMeasured(captures'[k])
    BY <2>1, <2>2 DEF Whole, CaptureInv
  <2>4. pc' \in Pcs /\ DOMAIN captures' = Labels
    BY <1>2, <2>1 DEF Capture, CaptureInv
  <2>5. QED
    BY <2>3, <2>4 DEF CaptureInv
<1>3. (UNCHANGED captures /\ pc' \in Pcs) \/ Capture
  BY DEF Next, vars, svars, PlansStep, UsageStep, ProjectStep, SystemStep, PanelStep,
     SnapshotsStep, SnapshotsNext, DiagnosisStep, DiagnosisNext, PcMoves, PcChanges, CaptureInv
<1>4. QED
  BY <1>1, <1>2, <1>3

(* An improvement by at least the noise is none the other way round.       *)
LEMMA ScoresAreFair ==
  ASSUME NEW b \in Nat \cup {Unmeasured}, NEW a \in Nat \cup {Unmeasured}
  PROVE  /\ ScoreVerdict(b, a) = "NoChange" => Unmeasured \notin {b, a}
         /\ ScoreVerdict(b, a) = "Pass" => ScoreVerdict(a, b) # "Pass"
         /\ TempVerdict(b, a) = "Pass" => TempVerdict(a, b) # "Pass"
<1>1. ASSUME NEW x \in Nat \ {0}, NEW y \in Nat, (y - x) * 100 >= ScoreNoise * x PROVE y > x
  <2>1. ScoreNoise * x > 0
    BY SnapshotsAssumption
  <2> DEFINE z == ScoreNoise * x
  <2>2. z \in Nat /\ z > 0 /\ (y - x) * 100 >= z
    BY <1>1, <2>1, SnapshotsAssumption
  <2> HIDE DEF z
  <2>3. QED
    BY <2>2
<1>2. ASSUME NEW x \in Nat \cup {Unmeasured}, NEW y \in Nat \cup {Unmeasured},
             ScoreVerdict(x, y) = "Pass"
      PROVE  x \in Nat \ {0} /\ y \in Nat /\ y > x
  BY <1>1, <1>2 DEF ScoreVerdict, Verdict, Unmeasured
<1>3. ScoreVerdict(b, a) = "Pass" => ScoreVerdict(a, b) # "Pass"
  BY <1>2
<1>4. TempVerdict(b, a) = "Pass" => TempVerdict(a, b) # "Pass"
  BY SnapshotsAssumption DEF TempVerdict, Verdict, Unmeasured
<1>5. QED
  BY <1>3, <1>4 DEF ScoreVerdict

LEMMA TwoMeasurements ==
  ASSUME NEW b, NEW a, IsMeasured(b), IsMeasured(a)
  PROVE  LET report  == Build(b, a)
             reverse == Build(a, b)
         IN  /\ NothingChanged(report.diff) /\ Unique(b.real) /\ Unique(a.real)
                /\ {b.snapshot.drivers, a.snapshot.drivers} # {<<>>}
                => Installed(a.real) = Installed(b.real)
             /\ a.real.cpu # b.real.cpu <=> report.caveat
             /\ report.caveat => ~NothingChanged(report.diff)
             /\ report.verdicts.score = "NoChange" => Unmeasured \notin {b.score, a.score}
             /\ \A v \in DOMAIN report.verdicts :
                   report.verdicts[v] = "Pass" => reverse.verdicts[v] # "Pass"
<1> DEFINE report  == Build(b, a)
           reverse == Build(a, b)
           Vb == VersionsOf(b.snapshot.drivers)
           Va == VersionsOf(a.snapshot.drivers)
<1>1. ASSUME NEW c, IsMeasured(c)
      PROVE  /\ c.real \in Hardware /\ c.snapshot.cpu = c.real.cpu
             /\ c.snapshot.drivers \in {c.real.drivers, <<>>}
             /\ c.score \in Nat \cup {Unmeasured} /\ c.sustain = Unmeasured
             /\ c.snapshot.temp \in Nat \cup {Unmeasured}
  <2>1. PICK p \in Pcs, answered \in BOOLEAN, bench \in BOOLEAN : c = Measured(p, answered, bench)
    BY <1>1 DEF IsMeasured
  <2>2. p \in Hardware
    BY SnapshotsAssumption
  <2>3. QED
    BY <2>1, <2>2 DEF Measured, Collected, Hardware
<1>2. /\ report.diff = Compare(b.snapshot, a.snapshot)
      /\ report.caveat = (b.snapshot.cpu # a.snapshot.cpu)
      /\ DOMAIN report.verdicts = {"score", "sustain", "temp", "drivers"}
      /\ report.verdicts.score = ScoreVerdict(b.score, a.score)
      /\ report.verdicts.sustain = SustainVerdict(b.sustain, a.sustain)
      /\ report.verdicts.temp = TempVerdict(b.snapshot.temp, a.snapshot.temp)
      /\ report.verdicts.drivers = "Noted"
      /\ reverse.verdicts.score = ScoreVerdict(a.score, b.score)
      /\ reverse.verdicts.temp = TempVerdict(a.snapshot.temp, b.snapshot.temp)
  BY DEF Build
<1>3. /\ report.diff.changed = {n \in DOMAIN Vb \cap DOMAIN Va : Vb[n] # Va[n]}
                               \cup (IF b.snapshot.cpu # a.snapshot.cpu THEN {"cpu"} ELSE {})
      /\ report.diff.added = DOMAIN Va \ DOMAIN Vb
      /\ report.diff.removed = DOMAIN Vb \ DOMAIN Va
  BY <1>2 DEF Compare, DiffVersioned
<1> HIDE DEF report, reverse
<1>4. ASSUME NothingChanged(report.diff), Unique(b.real), Unique(a.real),
             {b.snapshot.drivers, a.snapshot.drivers} # {<<>>}
      PROVE  Installed(a.real) = Installed(b.real)
  <2>1. DOMAIN Va = DOMAIN Vb /\ \A n \in DOMAIN Va : Va[n] = Vb[n]
    <3> HIDE DEF Va, Vb
    <3>1. QED
      BY <1>3, <1>4 DEF NothingChanged
  <2>2. DOMAIN VersionsOf(<<>>) = {}
    BY DEF VersionsOf
  <2>3. a.snapshot.drivers = a.real.drivers /\ b.snapshot.drivers = b.real.drivers
    <3>1. ASSUME NEW c, IsMeasured(c), Unique(c.real), c.snapshot.drivers # <<>>
          PROVE  DOMAIN VersionsOf(c.snapshot.drivers) # {}
      BY <1>1, <3>1, VersionsTell
    <3>2. a.snapshot.drivers # <<>> /\ b.snapshot.drivers # <<>>
      BY <1>4, <2>1, <2>2, <3>1
    <3>3. QED
      BY <1>1, <3>2
  <2>4. /\ Installed(a.real) = {<<n, Va[n]>> : n \in DOMAIN Va}
        /\ Installed(b.real) = {<<n, Vb[n]>> : n \in DOMAIN Vb}
    BY <1>1, <1>4, <2>3, VersionsTell
  <2> HIDE DEF Va, Vb
  <2>5. QED
    BY <2>1, <2>4
<1>5. report.caveat => ~NothingChanged(report.diff)
  <2> HIDE DEF Va, Vb
  <2>1. QED
    BY <1>2, <1>3 DEF NothingChanged
<1>6. report.verdicts.score = "NoChange" => Unmeasured \notin {b.score, a.score}
  BY <1>1, <1>2, ScoresAreFair
<1>7. ASSUME NEW v \in DOMAIN report.verdicts, report.verdicts[v] = "Pass"
      PROVE  reverse.verdicts[v] # "Pass"
  <2>1. CASE v = "score"
    <3>1. ScoreVerdict(b.score, a.score) = "Pass" => ScoreVerdict(a.score, b.score) # "Pass"
      BY <1>1, ScoresAreFair
    <3>2. QED
      BY <1>2, <1>7, <2>1, <3>1
  <2>2. CASE v = "temp"
    <3> DEFINE was == b.snapshot.temp
               is  == a.snapshot.temp
    <3>1. was \in Nat \cup {Unmeasured} /\ is \in Nat \cup {Unmeasured}
      BY <1>1
    <3> HIDE DEF was, is
    <3>2. TempVerdict(was, is) = "Pass" => TempVerdict(is, was) # "Pass"
      BY <3>1, ScoresAreFair
    <3>3. QED
      BY <1>2, <1>7, <2>2, <3>2 DEF was, is
  <2>3. CASE v \in {"sustain", "drivers"}
    BY <1>1, <1>2, <1>7, <2>3 DEF SustainVerdict
  <2>4. QED
    BY <1>2, <2>1, <2>2, <2>3
<1>8. QED
  BY <1>1, <1>2, <1>4, <1>5, <1>6, <1>7 DEF report, reverse

(* For every PC, every noise and every two files, torn or overwritten      *)
(* meanwhile as they may be: a comparison of two snapshots does not hide a *)
(* change, and a report does not make up an improvement.                   *)
THEOREM ComparisonsTellChanges == Spec => []SnapshotsTellChanges
<1>1. CaptureInv => SnapshotsTellChanges
  <2> SUFFICES ASSUME CaptureInv, NEW x \in Pairs
      PROVE IsMeasured(captures[x[1]]) /\ IsMeasured(captures[x[2]])
    BY TwoMeasurements DEF SnapshotsTellChanges
  <2>1. QED
    BY DEF CaptureInv, Pairs
<1>2. QED
  BY InitCapture, NextCapture, <1>1, PTL DEF Spec

-----------------------------------------------------------------------------
(* Usage and prices.                                                       *)

RecordOf(day, call) == [day |-> day, model |-> call.model, status |-> call.status,
                        usage |-> Usage(call), call |-> call]
Entries == {RecordOf(day, call) : day \in UsageDays, call \in CallSet}

(* Every record tells the usage its call reported.                         *)
UsageInv ==
    /\ now \in UsageDays /\ effective \in UsageDays \cup {Nobody}
    /\ DOMAIN prices \subseteq Models /\ \A m \in DOMAIN prices : prices[m] \in BOOLEAN
    /\ records \in Seq(Entries)

LEMMA InitUsage == Init => UsageInv
<1>1. Some(UsageDays) \subseteq UsageDays
  BY UsageAssumption DEF Some
<1>2. QED
  BY <1>1 DEF Init, UsageFrom, Start, UsageInv

LEMMA NextUsage == UsageInv /\ [Next]_vars => UsageInv'
<1> SUFFICES ASSUME UsageInv, [Next]_vars PROVE UsageInv'
  OBVIOUS
<1>1. CASE UNCHANGED uvars
  BY <1>1 DEF uvars, UsageInv
<1>2. CASE RecordCall
  <2>1. PICK call \in Calls : records' = Append(records, RecordOf(now, call))
    BY <1>2 DEF RecordCall, RecordOf
  <2>2. RecordOf(now, call) \in Entries
    BY UsageAssumption DEF Entries, UsageInv
  <2>3. records' \in Seq(Entries)
    BY <2>1, <2>2 DEF UsageInv
  <2>4. QED
    BY <1>2, <2>3 DEF RecordCall, UsageInv
<1>3. CASE ClearUsage
  BY <1>3 DEF ClearUsage, UsageInv
<1>4. CASE SetPrice \/ RemovePrice
  BY <1>4 DEF SetPrice, RemovePrice, UsageInv
<1>5. CASE PricesUnreadable
  BY <1>5 DEF PricesUnreadable, UsageInv
<1>6. CASE ClockTicks
  BY <1>6 DEF ClockTicks, UsageInv
<1>7. UNCHANGED uvars \/ UsageNext
  BY DEF Next, vars, PlansStep, UsageStep, ProjectStep, SystemStep, PanelStep, SnapshotsStep,
     DiagnosisStep
<1>8. QED
  BY <1>1, <1>2, <1>3, <1>4, <1>5, <1>6, <1>7 DEF UsageNext

LEMMA EntryOf ==
  ASSUME UsageInv, NEW i \in DOMAIN records
  PROVE  /\ records[i].call \in CallSet /\ records[i].day \in UsageDays
         /\ records[i] = RecordOf(records[i].day, records[i].call)
<1>1. records[i] \in Entries
  BY DEF UsageInv
<1>2. PICK day \in UsageDays, call \in CallSet : records[i] = RecordOf(day, call)
  BY <1>1 DEF Entries
<1>3. QED
  BY <1>2 DEF RecordOf

(* What can be priced is priced as the provider charges it, or, if only    *)
(* the output was reported, below that.                                    *)
LEMMA CostIsCharge ==
  ASSUME NEW call \in CallSet, NEW cachePriced \in BOOLEAN, NEW u \in Usage(call),
         u.cached > 0 => cachePriced
  PROVE  /\ Cost(u, cachePriced) \in Nat /\ Charge(call) \in Nat
         /\ Cost(u, cachePriced) <= Charge(call)
         /\ call.reports # "output" => Cost(u, cachePriced) = Charge(call)
<1> DEFINE a == call.used.uncached
           b == call.used.cached
           c == call.used.out
           i == Rates["in"]
           h == Rates["cached"]
           o == Rates["out"]
<1>1. /\ a \in Nat /\ b \in Nat /\ c \in Nat /\ i \in Nat /\ h \in Nat /\ o \in Nat
      /\ call.reports \in {"all", "output", "nothing"}
  BY UsageAssumption DEF CallSet
<1>2. u = [input  |-> IF call.reports = "all" THEN a + b ELSE Nobody,
           cached |-> IF call.reports = "all" THEN b ELSE Nobody, output |-> c]
      /\ call.reports # "nothing"
  BY DEF Usage, InputOf
<1>3. Charge(call) = a * i + b * h + c * o
  BY DEF Charge
<1>4. /\ u.output = c /\ Known(c) = c
      /\ call.reports = "all" => u.input = a + b /\ u.cached = b
      /\ call.reports # "all" => u.input = Nobody /\ u.cached = Nobody
  BY <1>1, <1>2 DEF Known, Nobody
<1> HIDE DEF a, b, c, i, h, o
<1>5. a * i \in Nat /\ b * h \in Nat /\ c * o \in Nat
  BY <1>1
<1>6. CASE call.reports = "all"
  <2>1. CASE cachePriced
    <3>1. Spare(a + b, b) = a /\ Known(a + b) = a + b /\ b # Nobody
      BY <1>1 DEF Spare, Known, Nobody
    <3>2. Cost(u, cachePriced) = a * i + b * h + c * o
      BY <1>4, <1>6, <2>1, <3>1 DEF Cost, i, h, o
    <3>3. QED
      BY <1>3, <1>5, <3>2
  <2>2. CASE ~cachePriced
    <3>1. b = 0
      BY <1>1, <1>4, <1>6, <2>2
    <3>2. Known(a + b) = a /\ b * h = 0
      BY <1>1, <3>1 DEF Known, Nobody
    <3>3. Cost(u, cachePriced) = a * i + c * o
      BY <1>4, <1>6, <2>2, <3>2 DEF Cost, i, o
    <3>4. QED
      BY <1>3, <1>5, <3>2, <3>3
  <2>3. QED
    BY <2>1, <2>2
<1>7. CASE call.reports # "all"
  <2>1. Known(Nobody) = 0 /\ 0 * i = 0
    BY <1>1 DEF Known
  <2>2. Cost(u, cachePriced) = 0 + c * o
    BY <1>4, <1>7, <2>1 DEF Cost, i, o
  <2>3. call.reports = "output"
    BY <1>1, <1>2, <1>7
  <2>4. QED
    BY <1>3, <1>5, <2>2, <2>3
<1>8. QED
  BY <1>6, <1>7

(* The calls of a page, sorted.                                            *)
Sent(chosen)   == chosen \ Denied(chosen)
Reported(chosen)  == {i \in Sent(chosen) : records[i].usage # {}}
Priced(chosen) == {i \in Reported(chosen) : Priceable(records[i])}
AllTold(chosen) == \A i \in chosen : records[i].call.reports # "output"

LEMMA PagesAreFinite ==
  ASSUME UsageInv, NEW S \in SUBSET DOMAIN records
  PROVE  IsFiniteSet(S) /\ Cardinality(S) \in Nat /\ (Cardinality(S) = 0 <=> S = {})
<1>1. IsFiniteSet(DOMAIN records)
  <2>1. Len(records) \in Nat /\ DOMAIN records = 1..Len(records)
    BY DEF UsageInv
  <2>2. QED
    BY <2>1, FS_Interval
<1>2. QED
  BY <1>1, FS_Subset, FS_CardinalityType, FS_EmptySet

LEMMA CostOfPage ==
  ASSUME UsageInv, NEW chosen \in SUBSET DOMAIN records
  PROVE  LET cost == Estimate(chosen).known_cost
             bill == Bill(chosen)
         IN  /\ cost \in Nat /\ bill \in Nat /\ cost <= bill
             /\ Priced(chosen) = Sent(chosen) /\ AllTold(chosen) => cost = bill
             /\ Priced(chosen) = {} => cost = 0
<1> DEFINE P == Priced(chosen)
           S == Sent(chosen)
           f == [i \in P |-> Cost(CHOOSE u \in records[i].usage : TRUE, prices[records[i].model])]
           g == [i \in S |-> Charge(records[i].call)]
<1>1. Estimate(chosen).known_cost = SumFunction(f) /\ Bill(chosen) = SumFunction(g)
  BY DEF Estimate, Bill, Priced, Reported, Sent
<1>2. P \in SUBSET S /\ S \in SUBSET DOMAIN records /\ IsFiniteSet(S)
  BY PagesAreFinite DEF Priced, Reported, Sent
<1>3. ASSUME NEW i \in P
      PROVE  /\ f[i] \in Nat /\ f[i] <= g[i]
             /\ records[i].call.reports # "output" => f[i] = g[i]
  <2> DEFINE r == records[i]
             u == CHOOSE x \in r.usage : TRUE
  <2>1. /\ r.usage # {} /\ Priceable(r) /\ i \in S
        /\ r.call \in CallSet /\ r = RecordOf(r.day, r.call)
    BY <1>2, EntryOf DEF Priced, Reported
  <2>2. u \in r.usage /\ r.usage = Usage(r.call)
    BY <2>1 DEF RecordOf
  <2>3. prices[r.model] \in BOOLEAN /\ (u.cached > 0 => prices[r.model])
    BY <2>1, <2>2 DEF Priceable, UsageInv
  <2>4. f[i] = Cost(u, prices[r.model]) /\ g[i] = Charge(r.call)
    BY <2>1
  <2> HIDE DEF f, g, u, r
  <2>5. QED
    BY <2>1, <2>2, <2>3, <2>4, CostIsCharge DEF r
<1>4. ASSUME NEW i \in S PROVE g[i] \in Nat
  <2>1. records[i].call \in CallSet
    BY <1>2, EntryOf
  <2>2. QED
    BY <2>1, UsageAssumption DEF Charge, CallSet
<1>5. f \in [P -> Nat] /\ g \in [S -> Nat] /\ \A i \in P : f[i] <= g[i]
  BY <1>3, <1>4
<1>6. SumFunction(f) \in Nat /\ SumFunction(g) \in Nat /\ SumFunction(f) <= SumFunction(g)
  <2> HIDE DEF f, g, P, S
  <2>1. QED
    BY <1>2, <1>5, SumAtMost
<1>7. ASSUME P = S, AllTold(chosen) PROVE f = g
  <2>1. \A i \in S : f[i] = g[i]
    BY <1>3, <1>7 DEF AllTold, Sent
  <2>2. DOMAIN f = S /\ DOMAIN g = S
    BY <1>7
  <2> HIDE DEF P, S
  <2>3. QED
    BY <1>5, <1>7, <2>1
<1>8. ASSUME P = {} PROVE SumFunction(f) = 0
  <2>1. DOMAIN f = {}
    BY <1>8
  <2> HIDE DEF f
  <2>2. QED
    BY <2>1, SumOfNothing
<1>9. QED
  BY <1>1, <1>6, <1>7, <1>8

LEMMA PartAndRest ==
  ASSUME UsageInv, NEW S \in SUBSET DOMAIN records, NEW T \in SUBSET S
  PROVE  Cardinality(S) = Cardinality(T) + Cardinality(S \ T)
<1>1. IsFiniteSet(S) /\ IsFiniteSet(T) /\ Cardinality(S) \in Nat /\ Cardinality(T) \in Nat
  BY PagesAreFinite
<1>2. Cardinality(S \ T) = Cardinality(S) - Cardinality(S \cap T)
  BY <1>1, FS_Difference
<1>3. Cardinality(S \cap T) = Cardinality(T)
  <2>1. S \cap T = T
    OBVIOUS
  <2>2. QED
    BY <2>1
<1>4. QED
  BY <1>1, <1>2, <1>3

(* The summary, its groups and the estimate count the same calls.          *)
LEMMA CountsOfPage ==
  ASSUME UsageInv, NEW chosen \in SUBSET DOMAIN records
  PROVE  LET est == Estimate(chosen)
             totals == Group(chosen)
             groups == GroupByModel(chosen)
         IN  /\ totals.calls = totals.denied + est.priced_calls
                               + est.calls_missing_price + est.calls_missing_usage
             /\ totals.calls_without_usage = est.calls_missing_usage
             /\ SumFunction([m \in DOMAIN groups |-> groups[m].calls]) = totals.calls
             /\ est.models_missing_price \subseteq DOMAIN groups
<1> DEFINE est == Estimate(chosen)
           totals == Group(chosen)
           groups == GroupByModel(chosen)
           D == Denied(chosen)
           S == Sent(chosen)
           R == Reported(chosen)
           P == Priced(chosen)
<1>1. /\ est.priced_calls = Cardinality(P) /\ est.calls_missing_price = Cardinality(R \ P)
      /\ est.calls_missing_usage = Cardinality(S \ R)
      /\ est.models_missing_price = {records[i].model : i \in R \ P}
  BY DEF Estimate, Priced, Reported, Sent
<1>2. /\ totals.calls = Cardinality(chosen) /\ totals.denied = Cardinality(D)
      /\ totals.calls_without_usage = Cardinality({i \in S : records[i].usage = {}})
  BY DEF Group, Sent
<1>3. /\ S = chosen \ D /\ D \in SUBSET chosen /\ R \in SUBSET S /\ P \in SUBSET R
      /\ {i \in S : records[i].usage = {}} = S \ R
  BY DEF Denied, Sent, Reported, Priced
<1>4. totals.calls = totals.denied + est.priced_calls + est.calls_missing_price + est.calls_missing_usage
  <2> HIDE DEF est, totals, D, S, R, P
  <2>1. /\ Cardinality(chosen) = Cardinality(D) + Cardinality(S)
        /\ Cardinality(S) = Cardinality(R) + Cardinality(S \ R)
        /\ Cardinality(R) = Cardinality(P) + Cardinality(R \ P)
    BY <1>3, PartAndRest
  <2>2. /\ Cardinality(D) \in Nat /\ Cardinality(P) \in Nat
        /\ Cardinality(S \ R) \in Nat /\ Cardinality(R \ P) \in Nat
    <3>1. \A T \in {D, P, S \ R, R \ P} : T \in SUBSET DOMAIN records
      BY <1>3
    <3>2. QED
      BY <3>1, PagesAreFinite
  <2>3. QED
    BY <1>1, <1>2, <2>1, <2>2
<1>5. SumFunction([m \in DOMAIN groups |-> groups[m].calls]) = totals.calls
  <2> DEFINE M == {records[i].model : i \in chosen}
             kind == [i \in chosen |-> records[i].model]
             f == [m \in M |-> Cardinality({i \in chosen : kind[i] = m})]
  <2>1. DOMAIN groups = M
    BY DEF GroupByModel
  <2>2. [m \in DOMAIN groups |-> groups[m].calls] = f
    <3>1. ASSUME NEW m \in M PROVE groups[m].calls = Cardinality({i \in chosen : kind[i] = m})
      <4>1. {i \in chosen : kind[i] = m} = {i \in chosen : records[i].model = m}
        OBVIOUS
      <4>2. groups[m].calls = Cardinality({i \in chosen : records[i].model = m})
        BY DEF GroupByModel, Group
      <4>3. QED
        BY <4>1, <4>2
    <3> HIDE DEF M, kind, groups
    <3>2. QED
      BY <2>1, <3>1
  <2>3. M = {kind[i] : i \in chosen} /\ IsFiniteSet(chosen)
    BY PagesAreFinite
  <2> HIDE DEF M, kind
  <2>4. SumFunction(f) = Cardinality(chosen)
    BY <2>3, SumOfParts
  <2>5. QED
    BY <1>2, <2>2, <2>4
<1>6. est.models_missing_price \subseteq DOMAIN groups
  BY <1>1, <1>3 DEF GroupByModel
<1>7. QED
  BY <1>1, <1>2, <1>3, <1>4, <1>5, <1>6

LEMMA CompletePage ==
  ASSUME UsageInv, NEW chosen \in SUBSET DOMAIN records
  PROVE  LET est == Estimate(chosen)
         IN  /\ est.priced_calls \in Nat /\ est.calls_missing_price \in Nat
             /\ est.calls_missing_usage \in Nat
             /\ IsComplete(est) => Priced(chosen) = Sent(chosen)
             /\ est.priced_calls = 0 => Priced(chosen) = {}
             /\ est.calls_missing_price > 0 => est.models_missing_price # {}
<1> DEFINE est == Estimate(chosen)
           S == Sent(chosen)
           R == Reported(chosen)
           P == Priced(chosen)
<1>1. /\ est.priced_calls = Cardinality(P) /\ est.calls_missing_price = Cardinality(R \ P)
      /\ est.calls_missing_usage = Cardinality(S \ R)
      /\ est.models_missing_price = {records[i].model : i \in R \ P}
  BY DEF Estimate, Priced, Reported, Sent
<1>2. S \in SUBSET chosen /\ R \in SUBSET S /\ P \in SUBSET R
  BY DEF Sent, Reported, Priced
<1>3. \A T \in {P, R \ P, S \ R} : Cardinality(T) \in Nat /\ (Cardinality(T) = 0 <=> T = {})
  <2> HIDE DEF S, R, P
  <2>1. \A T \in {P, R \ P, S \ R} : T \in SUBSET DOMAIN records
    BY <1>2
  <2>2. QED
    BY <2>1, PagesAreFinite
<1> HIDE DEF est, S, R, P
<1>4. IsComplete(est) => P = S
  BY <1>1, <1>2, <1>3 DEF IsComplete
<1>5. est.calls_missing_price > 0 => est.models_missing_price # {}
  BY <1>1, <1>3
<1>6. QED
  BY <1>1, <1>3, <1>4, <1>5 DEF est, S, P

(* For every history of calls, every price table and every rate: what the  *)
(* usage pages say about money is never more than the provider charges, is *)
(* that whenever they call it complete, and speaks of the calls counted.   *)
THEOREM EstimatesAreHonest == Spec => []EstimateIsHonest
<1>1. UsageInv => EstimateIsHonest
  <2> SUFFICES ASSUME UsageInv, NEW period \in Periods
      PROVE LET chosen == Chosen(period)
                page   == Page(period)
                est    == page.estimate
                said   == Display(est)
                whole  == AllTold(chosen)
            IN  /\ said.says = "at least" => said.amount <= Bill(chosen) /\ Notes(est) \ {"stale"} # {}
                /\ said.says = "exactly" => IF whole THEN said.amount = Bill(chosen)
                                                      ELSE said.amount <= Bill(chosen)
                /\ said.says = "unknown" => est.known_cost = 0
                /\ BudgetStatus(est) = "Over" => Bill(chosen) >= Budget
                /\ BudgetStatus(est) = "Within" /\ IsComplete(est) /\ whole
                   => 100 * Bill(chosen) < 80 * Budget
                /\ page.totals.calls = page.totals.denied + est.priced_calls
                                       + est.calls_missing_price + est.calls_missing_usage
                /\ page.totals.calls_without_usage = est.calls_missing_usage
                /\ SumFunction([m \in DOMAIN page.by_model |-> page.by_model[m].calls])
                     = page.totals.calls
                /\ est.models_missing_price \subseteq DOMAIN page.by_model
                /\ "price" \in Notes(est) => est.models_missing_price # {}
    BY DEF EstimateIsHonest, AllTold
  <2> DEFINE chosen == Chosen(period)
             est    == Estimate(chosen)
             said   == Display(est)
             bill   == Bill(chosen)
             cost   == est.known_cost
  <2>1. chosen \in SUBSET DOMAIN records
    BY DEF Chosen
  <2> HIDE DEF chosen
  <2>2. /\ cost \in Nat /\ bill \in Nat /\ cost <= bill
        /\ IsComplete(est) /\ AllTold(chosen) => cost = bill
        /\ est.priced_calls = 0 => cost = 0
    BY <2>1, CostOfPage, CompletePage
  <2>3. /\ est.priced_calls \in Nat /\ est.calls_missing_price \in Nat
        /\ est.calls_missing_usage \in Nat
        /\ est.calls_missing_price > 0 => est.models_missing_price # {}
    BY <2>1, CompletePage
  <2>4. Page(period) = [totals |-> Group(chosen), by_model |-> GroupByModel(chosen), estimate |-> est]
    BY DEF Page, chosen
  <2>5. Budget \in Nat
    BY UsageAssumption
  <2>6. /\ Page(period).totals = Group(chosen) /\ Page(period).by_model = GroupByModel(chosen)
        /\ Page(period).estimate = est
    BY <2>4
  <2>7. /\ Group(chosen).calls = Group(chosen).denied + est.priced_calls
                                 + est.calls_missing_price + est.calls_missing_usage
        /\ Group(chosen).calls_without_usage = est.calls_missing_usage
        /\ SumFunction([m \in DOMAIN GroupByModel(chosen) |-> GroupByModel(chosen)[m].calls])
             = Group(chosen).calls
        /\ est.models_missing_price \subseteq DOMAIN GroupByModel(chosen)
    BY <2>1, CountsOfPage
  <2> HIDE DEF est, bill
  <2>8. said.says = "at least" => said.amount = cost /\ ~IsComplete(est) /\ est.priced_calls # 0
    BY DEF Display
  <2>9. said.says = "exactly" => said.amount = cost /\ IsComplete(est)
    BY DEF Display
  <2>10. said.says = "unknown" => est.priced_calls = 0
    BY DEF Display
  <2>11. ~IsComplete(est) /\ est.priced_calls # 0 => Notes(est) \ {"stale"} # {}
    <3>1. CASE est.pricing_unconfigured
      BY <3>1 DEF Notes
    <3>2. CASE ~est.pricing_unconfigured
      <4>1. /\ est.calls_missing_price > 0 => "price" \in Notes(est)
            /\ est.calls_missing_usage > 0 => "usage" \in Notes(est)
        BY <3>2 DEF Notes
      <4>2. ~IsComplete(est) /\ est.priced_calls # 0
              => est.calls_missing_price > 0 \/ est.calls_missing_usage > 0
        BY <2>3, <3>2 DEF IsComplete
      <4>3. QED
        BY <4>1, <4>2
    <3>3. QED
      BY <3>1, <3>2
  <2>12. "price" \in Notes(est) => est.calls_missing_price > 0
    BY DEF Notes
  <2>13. BudgetStatus(est) = "Over" => bill >= Budget
    BY <2>2, <2>5 DEF BudgetStatus
  <2>14. BudgetStatus(est) = "Within" /\ IsComplete(est) /\ AllTold(chosen) => 100 * bill < 80 * Budget
    BY <2>2, <2>5 DEF BudgetStatus
  <2>15. QED
    BY <2>2, <2>3, <2>6, <2>7, <2>8, <2>9, <2>10, <2>11, <2>12, <2>13, <2>14 DEF chosen, bill
<1>2. QED
  BY InitUsage, NextUsage, <1>1, PTL DEF Spec

-----------------------------------------------------------------------------
(* The panel.                                                              *)

Everyone == ToSet(Contenders)
Cell     == 0..MaxMark * Sixth
Row(table, m, n) == table[m] \in Seq(Cell) /\ Len(table[m]) = n

(* Those that are left are the last of the contenders; those before them   *)
(* have all their cells, the first of them those of the prompts before.    *)
Done(left)   == Len(Contenders) - Len(left)
Remain(left) ==
    /\ left \in Seq(Everyone) /\ Len(left) \in 0..Len(Contenders)
    /\ \A j \in 1..Len(left) : left[j] = Contenders[Done(left) + j]
Cells(i, done, prompt) == IF i <= done THEN Prompts ELSE IF i = done + 1 THEN prompt - 1 ELSE 0
Bench(left, prompt, table) ==
    /\ Remain(left) /\ left # <<>> /\ prompt \in 1..Prompts /\ DOMAIN table = Everyone
    /\ \A i \in DOMAIN Contenders : Row(table, Contenders[i], Cells(i, Done(left), prompt))
Marked(table) == DOMAIN table = Everyone /\ \A m \in Everyone : Row(table, m, Prompts)

(* Nobody is put together twice, nor is anybody who is still to be asked.  *)
Heard(heard, left) ==
    \A h \in DOMAIN heard : \E i \in 1..Done(left) : heard[h] = Contenders[i]

FairBoard(list, table) ==
    list # <<>> =>
      /\ ToSet(list) = Everyone /\ IsInjective(list)
      /\ \A m \in ToSet(list) :
            Len(table[m]) = Prompts /\ \A p \in 1..Prompts : table[m][p] \in Cell
      /\ \A i \in 1..Len(list) - 1 :
            SumFunction(table[list[i]]) >= SumFunction(table[list[i + 1]])

Holds(j, table, list, history) ==
    /\ DOMAIN j = DOMAIN Idle
    /\ j.at \in {"idle", "answer", "judge", "sort", "poll", "synthesis", "over"}
    /\ j.at = "idle" => j = Idle /\ list = <<>> /\ history = {} /\ table = <<>>
    /\ j.at \in {"answer", "judge"} => Bench(j.left, j.prompt, table)
    /\ j.at = "answer" => j.marks = <<>>
    /\ j.at = "judge" => /\ j.judges \in Seq(Everyone)
                         /\ \A i \in DOMAIN j.judges : j.judges[i] # Head(j.left)
                         /\ j.marks \in Seq(0..MaxMark)
    /\ j.at = "sort" => Marked(table)
    /\ j.at \in {"answer", "judge", "sort"} => j.heard = <<>> /\ list = <<>>
    /\ j.at \in {"poll", "synthesis"} => /\ history = {} /\ list = <<>> /\ table = <<>>
                                         /\ j.heard \in Seq(Everyone) /\ IsInjective(j.heard)
    /\ j.at = "poll" => Remain(j.left) /\ Heard(j.heard, j.left)
    /\ j.at = "synthesis" => Len(j.heard) >= 2
    /\ j.at = "over" => DOMAIN table \subseteq Everyone
    /\ FairBoard(list, table)
    /\ j.heard = <<>> => \A t \in history : t.by # t.of
    /\ j.heard # <<>> => \A t \in history : Len(t.of) >= 2 /\ IsInjective(t.of)

PanelInv == keyed \subseteq ToSet(Builtins) /\ Holds(job, rows, board, trace)

LEMMA PanelPeople ==
  /\ Builtins \in Seq(ToSet(Builtins)) /\ Contenders \in Seq(Everyone)
  /\ IsInjective(Contenders)
  /\ Jury \in Seq(Everyone)
  /\ DOMAIN Contenders = 1..Len(Contenders) /\ Len(Contenders) \in Nat
<1> DEFINE B == ToSet(Builtins)
           C == ToSet(Customs)
           K == {i \in DOMAIN Builtins : HasKey(Builtins[i])}
<1>1. Builtins \in Seq(B) /\ Customs \in Seq(C) /\ IsInjective(Builtins \o Customs)
  BY PanelAssumption
<1>2. /\ Jury \in Seq(B) /\ Len(Jury) = Cardinality(K)
      /\ \A n \in DOMAIN Jury : Nth(K, n) \in K /\ Jury[n] = Builtins[Nth(K, n)]
      /\ \A m, n \in DOMAIN Jury : m < n => Nth(K, m) < Nth(K, n)
  <2>1. K \in SUBSET DOMAIN Builtins
    OBVIOUS
  <2>2. Jury = Select(Builtins, K)
    BY DEF Jury
  <2> HIDE DEF K, B
  <2>3. QED
    BY <1>1, <2>1, <2>2, SelectKeeps
<1> HIDE DEF K
<1>3. /\ Contenders = Jury \o Customs /\ Len(Jury) \in Nat /\ Len(Customs) \in Nat
      /\ Len(Builtins) \in Nat
      /\ DOMAIN Jury = 1..Len(Jury) /\ DOMAIN Customs = 1..Len(Customs)
      /\ DOMAIN Builtins = 1..Len(Builtins)
  BY <1>1, <1>2 DEF Contenders
<1>4. /\ Contenders \in Seq(B \cup C) /\ Len(Contenders) = Len(Jury) + Len(Customs)
      /\ \A i \in 1..Len(Contenders) :
            Contenders[i] = IF i <= Len(Jury) THEN Jury[i] ELSE Customs[i - Len(Jury)]
  <2> DEFINE A == B \cup C
  <2>1. Jury \in Seq(A) /\ Customs \in Seq(A)
    <3>1. (\A i \in 1..Len(Jury) : Jury[i] \in B) /\ (\A i \in 1..Len(Customs) : Customs[i] \in C)
      BY <1>1, <1>2, <1>3
    <3> HIDE DEF B, C
    <3>2. QED
      BY <1>1, <1>2, <1>3, <3>1
  <2> HIDE DEF A
  <2>2. QED
    BY <1>3, <2>1 DEF A
<1>5. DOMAIN Contenders = 1..Len(Contenders) /\ Len(Contenders) \in Nat
  BY <1>4
<1>6. Contenders \in Seq(Everyone)
  <2>1. \A i \in 1..Len(Contenders) : Contenders[i] \in Everyone
    BY <1>5 DEF Everyone, ToSet
  <2>2. Contenders = [i \in 1..Len(Contenders) |-> Contenders[i]]
    BY <1>4
  <2>3. QED
    BY <1>5, <2>1, <2>2
<1>7. Jury \in Seq(Everyone)
  <2>1. \A i \in 1..Len(Jury) : Jury[i] \in Everyone
    BY <1>3, <1>4, <1>5 DEF Everyone, ToSet
  <2>2. QED
    BY <1>2, <1>3, <2>1
<1>8. IsInjective(Contenders)
  <2> DEFINE All == Builtins \o Customs
             where(i) == IF i <= Len(Jury) THEN Nth(K, i) ELSE Len(Builtins) + (i - Len(Jury))
  <2>1. K \subseteq 1..Len(Builtins)
    BY <1>3 DEF K
  <2>2. ASSUME NEW i \in 1..Len(Contenders)
        PROVE  where(i) \in DOMAIN All /\ Contenders[i] = All[where(i)]
    <3>1. CASE i <= Len(Jury)
      <4>1. i \in DOMAIN Jury /\ Contenders[i] = Jury[i]
        BY <1>3, <1>4, <3>1
      <4>2. Nth(K, i) \in 1..Len(Builtins) /\ Jury[i] = Builtins[Nth(K, i)]
        BY <1>2, <2>1, <4>1
      <4>3. where(i) = Nth(K, i)
        BY <3>1
      <4> HIDE DEF where
      <4>4. QED
        BY <1>1, <1>3, <4>1, <4>2, <4>3
    <3>2. CASE i > Len(Jury)
      <4>1. i - Len(Jury) \in 1..Len(Customs) /\ Contenders[i] = Customs[i - Len(Jury)]
        BY <1>3, <1>4, <3>2
      <4>2. where(i) = Len(Builtins) + (i - Len(Jury))
        BY <1>3, <1>4, <3>2
      <4> HIDE DEF where
      <4>3. QED
        BY <1>1, <1>3, <4>1, <4>2
    <3>3. QED
      BY <1>3, <3>1, <3>2
  <2>3. ASSUME NEW i \in 1..Len(Contenders), NEW j \in 1..Len(Contenders), i < j
        PROVE  where(i) < where(j)
    <3>1. CASE j <= Len(Jury)
      <4>1. i \in DOMAIN Jury /\ j \in DOMAIN Jury /\ i <= Len(Jury)
        BY <1>3, <2>3, <3>1
      <4>2. QED
        BY <1>2, <2>3, <3>1, <4>1
    <3>2. CASE j > Len(Jury) /\ i <= Len(Jury)
      <4>1. i \in DOMAIN Jury /\ j - Len(Jury) > 0 /\ j - Len(Jury) \in Nat /\ ~(j <= Len(Jury))
        BY <1>3, <3>2
      <4>2. Nth(K, i) \in 1..Len(Builtins)
        BY <1>2, <2>1, <4>1
      <4>3. QED
        BY <1>3, <3>2, <4>1, <4>2
    <3>3. CASE i > Len(Jury)
      <4>1. ~(i <= Len(Jury)) /\ ~(j <= Len(Jury))
        BY <1>3, <2>3, <3>3
      <4>2. QED
        BY <1>3, <2>3, <4>1
    <3>4. QED
      BY <1>3, <3>1, <3>2, <3>3
  <2> HIDE DEF where, All
  <2>4. ASSUME NEW i \in 1..Len(Contenders), NEW j \in 1..Len(Contenders), i < j
        PROVE  Contenders[i] # Contenders[j]
    <3>1. where(i) # where(j)
      <4>1. where(i) \in Nat /\ where(j) \in Nat
        <5>1. DOMAIN All \subseteq Nat
          BY <1>1 DEF All
        <5>2. QED
          BY <2>2, <5>1
      <4>2. QED
        BY <2>3, <2>4, <4>1
    <3>2. IsInjective(All)
      BY <1>1 DEF All
    <3>3. QED
      BY <2>2, <3>1, <3>2 DEF IsInjective
  <2>5. QED
    BY <1>5, <2>4 DEF IsInjective
<1>9. QED
  BY <1>1, <1>5, <1>6, <1>7, <1>8

LEMMA SamePeople ==
  ASSUME keyed' = keyed
  PROVE  Jury' = Jury /\ Contenders' = Contenders /\ Everyone' = Everyone
BY DEF Jury, Contenders, Everyone, HasKey

LEMMA TailOf ==
  ASSUME NEW E, NEW s \in Seq(E), s # <<>>
  PROVE  /\ Tail(s) \in Seq(E) /\ Len(Tail(s)) = Len(s) - 1 /\ Head(s) = s[1]
         /\ \A j \in 1..(Len(s) - 1) : Tail(s)[j] = s[j + 1]
         /\ (Len(s) = 1 <=> Tail(s) = <<>>)
<1>1. Tail(s) \in Seq(E) /\ Len(Tail(s)) = Len(s) - 1 /\ Head(s) = s[1] /\ Len(s) \in Nat
  OBVIOUS
<1>2. \A j \in 1..(Len(s) - 1) : Tail(s)[j] = s[j + 1]
  OBVIOUS
<1>3. \A t \in Seq(E) : t = <<>> <=> Len(t) = 0
  OBVIOUS
<1>4. Len(s) = 1 <=> Tail(s) = <<>>
  <2> DEFINE t == Tail(s)
  <2>1. t \in Seq(E) /\ Len(t) = Len(s) - 1 /\ (t = <<>> <=> Len(t) = 0)
    BY <1>1, <1>3
  <2> HIDE DEF t
  <2>2. QED
    BY <1>1, <2>1 DEF t
<1>5. QED
  BY <1>1, <1>2, <1>4

LEMMA NextModel ==
  ASSUME NEW left, Remain(left), left # <<>>
  PROVE  /\ Done(left) + 1 \in 1..Len(Contenders) /\ Head(left) = Contenders[Done(left) + 1]
         /\ Head(left) \in Everyone /\ Len(left) \in 1..Len(Contenders)
         /\ Done(left) \in 0..Len(Contenders)
         /\ Remain(Tail(left)) /\ Done(Tail(left)) = Done(left) + 1
         /\ Len(left) = 1 <=> Tail(left) = <<>>
         /\ Len(left) = 1 <=> Done(left) + 1 = Len(Contenders)
<1> DEFINE n == Len(Contenders)
           k == Len(left)
<1>1. /\ left \in Seq(Everyone) /\ k \in 1..n /\ n \in Nat /\ left[1] \in Everyone
      /\ left[1] = Contenders[n - k + 1] /\ Done(left) = n - k
      /\ \A j \in 1..k : left[j] = Contenders[n - k + j]
  BY PanelPeople DEF Remain, Done
<1>2. /\ Tail(left) \in Seq(Everyone) /\ Len(Tail(left)) = k - 1
      /\ \A j \in 1..(k - 1) : Tail(left)[j] = left[j + 1]
      /\ Head(left) = left[1] /\ (k = 1 <=> Tail(left) = <<>>)
  BY <1>1, TailOf
<1> HIDE DEF n, k
<1>3. Done(Tail(left)) = n - k + 1
  <2>1. n \in Nat /\ k \in Nat /\ Len(Tail(left)) = k - 1 /\ Done(Tail(left)) = n - Len(Tail(left))
    BY <1>1, <1>2 DEF Done, n
  <2>2. QED
    BY <2>1
<1>4. \A j \in 1..(k - 1) : Tail(left)[j] = Contenders[Done(Tail(left)) + j]
  <2>1. ASSUME NEW j \in 1..(k - 1) PROVE Tail(left)[j] = Contenders[Done(Tail(left)) + j]
    <3>1. j + 1 \in 1..k /\ n - k + (j + 1) = n - k + 1 + j
      BY <1>1
    <3>2. QED
      BY <1>1, <1>2, <1>3, <3>1
  <2>2. QED
    BY <2>1
<1>5. Remain(Tail(left))
  BY <1>1, <1>2, <1>4 DEF Remain, n
<1>6. k = 1 <=> Done(left) + 1 = n
  BY <1>1
<1>7. Done(left) \in 0..n /\ Done(Tail(left)) = Done(left) + 1
  BY <1>1, <1>3
<1>8. /\ Done(left) + 1 \in 1..n /\ Head(left) = Contenders[Done(left) + 1]
      /\ Head(left) \in Everyone
  BY <1>1, <1>2
<1>9. k \in 1..n /\ (k = 1 <=> Tail(left) = <<>>)
  BY <1>1, <1>2
<1>10. QED
  BY <1>5, <1>6, <1>7, <1>8, <1>9 DEF n, k

(* A score in its cell, and on to the next prompt, contender or the list.  *)
LEMMA ScoredKeeps ==
  ASSUME Bench(job.left, job.prompt, rows), DOMAIN job = DOMAIN Idle, NEW score \in Cell,
         Scored(score)
  PROVE  /\ DOMAIN job' = DOMAIN Idle /\ UNCHANGED <<keyed, board>> /\ job'.heard = job.heard
         /\ job'.marks = <<>>
         /\ \/ job'.at = "answer" /\ Bench(job'.left, job'.prompt, rows')
            \/ job'.at = "sort" /\ Marked(rows')
<1> DEFINE n == Len(Contenders)
           d == Done(job.left)
           p == job.prompt
           left == job.left
<1>1. /\ UNCHANGED <<keyed, board>> /\ rows' = [rows EXCEPT ![Model] = Append(@, score)]
  BY DEF Scored
<1>2. /\ d + 1 \in 1..n /\ Model = Contenders[d + 1] /\ Model \in Everyone
      /\ d \in 0..n /\ Remain(Tail(left)) /\ Done(Tail(left)) = d + 1 /\ Len(left) \in Nat
      /\ (Len(left) = 1 <=> Tail(left) = <<>>) /\ (Len(left) = 1 <=> d + 1 = n)
  <2> HIDE DEF n, d
  <2>1. Remain(left) /\ left # <<>>
    BY DEF Bench
  <2>2. Len(left) \in 1..n => Len(left) \in Nat
    BY PanelPeople DEF n
  <2>3. QED
    BY <2>1, <2>2, NextModel DEF Model, n, d
<1>3. /\ n \in Nat /\ DOMAIN Contenders = 1..n /\ p \in 1..Prompts /\ Prompts \in Nat
      /\ DOMAIN rows = Everyone
      /\ \A i \in 1..n : Contenders[i] \in Everyone /\ Row(rows, Contenders[i], Cells(i, d, p))
  BY PanelPeople, PanelAssumption DEF Bench
<1>4. \A i \in 1..n : i # d + 1 => Contenders[i] # Model
  BY <1>2, <1>3, PanelPeople DEF IsInjective
<1> HIDE DEF n, d, p
<1>5. Row(rows', Model, p) /\ DOMAIN rows' = Everyone
  <2>1. Row(rows, Model, p - 1)
    <3>1. Cells(d + 1, d, p) = p - 1
      BY <1>2, <1>3 DEF Cells
    <3>2. QED
      BY <1>2, <1>3, <3>1
  <2>2. rows'[Model] = Append(rows[Model], score) /\ DOMAIN rows' = Everyone
    BY <1>1, <1>2, <1>3
  <2>3. p - 1 + 1 = p
    BY <1>3
  <2>4. QED
    BY <2>1, <2>2, <2>3 DEF Row
<1>6. ASSUME NEW i \in 1..n, i # d + 1
      PROVE  Row(rows', Contenders[i], IF i <= d THEN Prompts ELSE 0)
  <2>1. rows'[Contenders[i]] = rows[Contenders[i]]
    BY <1>1, <1>3, <1>4, <1>6
  <2>2. Cells(i, d, p) = IF i <= d THEN Prompts ELSE 0
    BY <1>6 DEF Cells
  <2>3. QED
    BY <1>3, <2>1, <2>2 DEF Row
<1>7. CASE p < Prompts
  <2>1. job' = [job EXCEPT !.at = "answer", !.prompt = @ + 1, !.marks = <<>>]
    BY <1>7 DEF Scored, p
  <2>2. /\ DOMAIN job' = DOMAIN Idle /\ job'.at = "answer" /\ job'.prompt = p + 1
        /\ job'.left = left /\ job'.marks = <<>> /\ job'.heard = job.heard
    BY <2>1 DEF Idle, p
  <2>3. ASSUME NEW i \in 1..n PROVE Row(rows', Contenders[i], Cells(i, d, p + 1))
    <3>1. Cells(i, d, p + 1) = IF i = d + 1 THEN p ELSE IF i <= d THEN Prompts ELSE 0
      BY <1>2, <1>3 DEF Cells
    <3>2. QED
      BY <1>2, <1>5, <1>6, <3>1
  <2>4. p + 1 \in 1..Prompts
    BY <1>3, <1>7
  <2>5. Bench(left, p + 1, rows')
    BY <1>3, <1>5, <2>3, <2>4 DEF Bench, d
  <2>6. QED
    BY <1>1, <2>2, <2>5
<1>8. CASE ~(p < Prompts)
  <2>1. job' = [job EXCEPT !.at = IF Len(left) = 1 THEN "sort" ELSE "answer",
                           !.left = Tail(@), !.prompt = 1, !.marks = <<>>]
    BY <1>8 DEF Scored, p
  <2>2. /\ DOMAIN job' = DOMAIN Idle /\ job'.at = IF Len(left) = 1 THEN "sort" ELSE "answer"
        /\ job'.prompt = 1 /\ job'.left = Tail(left) /\ job'.marks = <<>> /\ job'.heard = job.heard
    BY <2>1 DEF Idle
  <2>3. p = Prompts
    BY <1>3, <1>8
  <2>4. ASSUME NEW i \in 1..n
        PROVE  Row(rows', Contenders[i], IF i <= d + 1 THEN Prompts ELSE 0)
    <3>1. (i <= d + 1) = (i = d + 1 \/ i <= d)
      BY <1>2, <1>3
    <3>2. QED
      BY <1>2, <1>5, <1>6, <2>3, <3>1
  <2>5. CASE Len(left) = 1
    <3>1. \A i \in 1..n : Row(rows', Contenders[i], Prompts)
      BY <1>2, <1>3, <2>4, <2>5
    <3>2. \A m \in Everyone : \E i \in 1..n : m = Contenders[i]
      BY <1>3 DEF Everyone, ToSet
    <3>3. Marked(rows')
      BY <1>5, <3>1, <3>2 DEF Marked
    <3>4. QED
      BY <1>1, <2>2, <2>5, <3>3
  <2>6. CASE Len(left) # 1
    <3>1. ASSUME NEW i \in 1..n PROVE Row(rows', Contenders[i], Cells(i, d + 1, 1))
      <4>1. Cells(i, d + 1, 1) = IF i <= d + 1 THEN Prompts ELSE 0
        BY DEF Cells
      <4>2. QED
        BY <2>4, <4>1
    <3>2. 1 \in 1..Prompts
      BY <1>3
    <3>3. Bench(Tail(left), 1, rows')
      BY <1>2, <1>3, <1>5, <2>6, <3>1, <3>2 DEF Bench
    <3>4. QED
      BY <1>1, <2>2, <2>6, <3>3
  <2>7. QED
    BY <2>5, <2>6
<1>9. QED
  BY <1>3, <1>7, <1>8

LEMMA MeanInCell ==
  ASSUME NEW marks \in Seq(0..MaxMark)
  PROVE  Mean(marks) \in Cell
<1>1. CASE marks = <<>>
  BY <1>1 DEF Mean, Cell, MaxMark, Sixth
<1>2. CASE marks # <<>>
  <2> DEFINE n == Len(marks)
             s == SumFunction(marks)
  <2>1. n \in Nat \ {0} /\ marks \in [1..n -> 0..MaxMark]
    <3>1. \A T : \A q \in Seq(T) : /\ Len(q) \in Nat /\ q \in [1..Len(q) -> T]
                                   /\ q # <<>> => Len(q) # 0
      OBVIOUS
    <3> HIDE DEF MaxMark
    <3>2. QED
      BY <1>2, <3>1
  <2>2. IsFiniteSet(1..n) /\ Cardinality(1..n) = n
    <3> HIDE DEF n
    <3>1. IsFiniteSet(1..n) /\ Cardinality(1..n) = IF 1 > n THEN 0 ELSE n - 1 + 1
      BY <2>1, FS_Interval
    <3>2. QED
      BY <2>1, <3>1
  <2> HIDE DEF n
  <2>3. s \in Nat /\ s <= MaxMark * n
    <3>1. \A max \in Nat : \A f \in [1..n -> 0..max] :
             SumFunction(f) \in Nat /\ SumFunction(f) <= max * n
      <4> DEFINE S == 1..n
      <4> HIDE DEF S
      <4>1. \A max \in Nat : \A f \in [S -> 0..max] :
               SumFunction(f) \in Nat /\ SumFunction(f) <= max * Cardinality(S)
        BY <2>2, SumBounded DEF S
      <4>2. QED
        BY <2>2, <4>1 DEF S
    <3>2. MaxMark \in Nat
      BY DEF MaxMark
    <3>3. QED
      BY <2>1, <3>1, <3>2
  <2> HIDE DEF s
  <2> DEFINE x == s * 6
  <2>4. x \in Nat /\ x <= 6000 * n
    BY <2>1, <2>3 DEF MaxMark
  <2> DEFINE q == x \div n
  <2>6. Mean(marks) = q
    BY <1>2 DEF Mean, Sixth, s, n
  <2> HIDE DEF x
  <2>7. Mean(marks) \in 0..6000
    <3>1. q \in 0..6000
      BY <2>1, <2>4
    <3> HIDE DEF q
    <3>2. QED
      BY <2>6, <3>1
  <2>8. Cell = 0..6000
    BY DEF Cell, MaxMark, Sixth
  <2>9. QED
    BY <2>7, <2>8
<1>3. QED
  BY <1>1, <1>2

(* Of those in a strict order, none stands as high as another, and every   *)
(* rank is taken.                                                          *)
LEMMA RanksAreTaken ==
  ASSUME Marked(rows)
  PROVE  /\ \A a, b \in Everyone : Rank(a) = Rank(b) => a = b
         /\ \A i \in 1..Len(Contenders) : \E m \in Everyone : Rank(m) = i - 1
         /\ \A m \in Everyone : Rank(m) \in 0..(Len(Contenders) - 1)
         /\ \A a, b \in Everyone : Rank(a) < Rank(b) => Total(a) >= Total(b)
<1> DEFINE n == Len(Contenders)
           E == Everyone
           Higher(m) == {x \in E : Ahead(x, m)}
<1>1. n \in Nat /\ DOMAIN Contenders = 1..n /\ Contenders \in Seq(E) /\ IsInjective(Contenders)
  BY PanelPeople
<1>2. IsFiniteSet(E) /\ Cardinality(E) = n
  <2> DEFINE D == 1..n
  <2>1. Contenders \in Surjection(D, E) /\ Contenders \in Injection(D, E)
    <3>1. Contenders \in [D -> E]
      BY <1>1
    <3>2. \A m \in E : \E i \in D : Contenders[i] = m
      BY <1>1 DEF Everyone, ToSet
    <3>3. QED
      BY <1>1, <3>1, <3>2 DEF Surjection, Injection, IsInjective
  <2>2. IsFiniteSet(D) /\ Cardinality(D) = n
    <3> HIDE DEF n
    <3>1. IsFiniteSet(1..n) /\ Cardinality(1..n) = IF 1 > n THEN 0 ELSE n - 1 + 1
      BY <1>1, FS_Interval
    <3>2. QED
      BY <1>1, <3>1
  <2> HIDE DEF D, E, n
  <2>3. QED
    BY <2>1, <2>2, FS_Surjection
<1>3. ASSUME NEW m \in E
      PROVE  Total(m) \in Nat /\ Place(m) \in 1..n /\ Contenders[Place(m)] = m
  <2>1. Place(m) \in 1..n /\ Contenders[Place(m)] = m
    BY <1>1 DEF Place, Everyone, ToSet
  <2>2. rows[m] \in Seq(Cell) /\ Len(rows[m]) \in Nat /\ DOMAIN rows[m] = 1..Len(rows[m])
    BY DEF Marked, Row
  <2>3. rows[m] \in [1..Len(rows[m]) -> Nat]
    <3>1. \A q \in Seq(Cell) : q \in [1..Len(q) -> Cell]
      OBVIOUS
    <3>2. Cell \subseteq Nat
      BY DEF Cell, MaxMark, Sixth
    <3> HIDE DEF E
    <3>3. QED
      BY <2>2, <3>1, <3>2
  <2>4. IsFiniteSet(1..Len(rows[m]))
    BY <2>2, FS_Interval
  <2>5. SumFunction(rows[m]) \in Nat
    <3> DEFINE f == rows[m]
               S == 1..Len(rows[m])
    <3>1. IsFiniteSet(S) /\ f \in [S -> Nat] /\ S \in SUBSET S /\ \A x \in S : f[x] <= f[x]
      BY <2>3, <2>4
    <3> HIDE DEF f, S
    <3>2. SumFunction(f) \in Nat
      BY <3>1, SumAtMost
    <3>3. QED
      BY <3>2 DEF f
  <2>6. QED
    BY <2>1, <2>5 DEF Total
<1> HIDE DEF E
<1>4. /\ \A a, b \in E : a # b => Ahead(a, b) \/ Ahead(b, a)
      /\ \A a \in E : ~Ahead(a, a)
      /\ \A a, b, c \in E : Ahead(a, b) /\ Ahead(b, c) => Ahead(a, c)
      /\ \A a, b \in E : Ahead(a, b) => Total(a) >= Total(b)
  <2>1. \A a, b \in E : Place(a) = Place(b) => a = b
    BY <1>3
  <2>2. \A a \in E : Total(a) \in Nat /\ Place(a) \in Nat
    BY <1>1, <1>3
  <2>3. QED
    BY <2>1, <2>2 DEF Ahead
<1>5. ASSUME NEW m \in E
      PROVE  IsFiniteSet(Higher(m)) /\ Rank(m) = Cardinality(Higher(m)) /\ Rank(m) \in 0..(n - 1)
  <2>1. Higher(m) \in SUBSET E /\ m \notin Higher(m) /\ Rank(m) = Cardinality(Higher(m))
    <3>1. Higher(m) \in SUBSET E /\ m \notin Higher(m)
      BY <1>4
    <3>2. Rank(m) = Cardinality(Higher(m))
      BY DEF Rank, E, Everyone
    <3>3. QED
      BY <3>1, <3>2
  <2> HIDE DEF Higher
  <2>2. /\ IsFiniteSet(Higher(m)) /\ Cardinality(Higher(m)) <= Cardinality(E)
        /\ (Cardinality(E) = Cardinality(Higher(m)) => E = Higher(m))
    BY <1>2, <2>1, FS_Subset
  <2>3. Cardinality(Higher(m)) \in Nat
    BY <2>2, FS_CardinalityType
  <2>4. QED
    BY <1>1, <1>2, <2>1, <2>2, <2>3
<1>6. ASSUME NEW a \in E, NEW b \in E, Ahead(a, b) PROVE Rank(a) < Rank(b)
  <2>1. Higher(a) \in SUBSET Higher(b) /\ a \in Higher(b) /\ a \notin Higher(a)
    BY <1>4, <1>6
  <2> HIDE DEF Higher
  <2>2. /\ Cardinality(Higher(a)) <= Cardinality(Higher(b))
        /\ (Cardinality(Higher(b)) = Cardinality(Higher(a)) => Higher(b) = Higher(a))
    BY <1>5, <2>1, FS_Subset
  <2>3. Rank(a) = Cardinality(Higher(a)) /\ Rank(b) = Cardinality(Higher(b))
        /\ Rank(a) \in Int /\ Rank(b) \in Int
    BY <1>5
  <2>4. QED
    BY <2>1, <2>2, <2>3
<1> HIDE DEF Higher
<1>7. /\ \A m \in E : Rank(m) \in 0..(n - 1)
      /\ \A a, b \in E : a # b => Rank(a) < Rank(b) \/ Rank(b) < Rank(a)
      /\ \A a, b \in E : Rank(a) < Rank(b) => ~Ahead(b, a) /\ a # b
  <2>1. \A m \in E : Rank(m) \in 0..(n - 1)
    BY <1>5
  <2>2. \A a, b \in E : a # b => Rank(a) < Rank(b) \/ Rank(b) < Rank(a)
    BY <1>4, <1>6
  <2>3. \A a, b \in E : Rank(a) < Rank(b) => ~(Rank(b) < Rank(a)) /\ a # b
    BY <1>1, <2>1
  <2>4. QED
    BY <1>6, <2>1, <2>2, <2>3
<1>8. \A a, b \in E : Rank(a) = Rank(b) => a = b
  BY <1>1, <1>7
<1>9. ASSUME NEW i \in 1..n PROVE \E m \in E : Rank(m) = i - 1
  <2> DEFINE T == 0..(n - 1)
             r == [m \in E |-> Rank(m)]
  <2>1. IsFiniteSet(T) /\ Cardinality(T) = n
    <3>1. 0 \in Int /\ n - 1 \in Int
      BY <1>1
    <3>2. IsFiniteSet(0..(n - 1)) /\ Cardinality(0..(n - 1)) = IF 0 > n - 1 THEN 0 ELSE (n - 1) - 0 + 1
      BY <3>1, FS_Interval
    <3>3. QED
      BY <1>1, <3>2
  <2>2. r \in Injection(E, T)
    BY <1>7, <1>8 DEF Injection, IsInjective
  <2>3. i - 1 \in T
    BY <1>1
  <2> HIDE DEF T, r
  <2>4. r \in Surjection(E, T)
    BY <1>2, <2>1, <2>2, FS_Injection
  <2>5. \E m \in E : r[m] = i - 1
    BY <2>3, <2>4 DEF Surjection
  <2>6. QED
    BY <2>5 DEF r
<1>10. \A m \in E : Rank(m) \in 0..(n - 1)
  BY <1>7
<1>11. \A a, b \in E : Rank(a) < Rank(b) => Total(a) >= Total(b)
  BY <1>4, <1>7
<1>12. QED
  BY <1>8, <1>9, <1>10, <1>11 DEF E

(* The list is the contenders, the best of them first.                     *)
LEMMA SortIsFair ==
  ASSUME Marked(rows), Sort
  PROVE  FairBoard(board', rows')
<1> DEFINE n == Len(Contenders)
           E == Everyone
           B == [i \in 1..n |-> CHOOSE m \in E : Rank(m) = i - 1]
<1>1. n \in Nat /\ DOMAIN Contenders = 1..n
  BY PanelPeople
<1>2. rows' = rows /\ board' = B
  BY <1>1 DEF Sort, Everyone
<1>3. /\ \A a, b \in E : Rank(a) = Rank(b) => a = b
      /\ \A i \in 1..n : \E m \in E : Rank(m) = i - 1
      /\ \A m \in E : Rank(m) \in 0..(n - 1)
      /\ \A a, b \in E : Rank(a) < Rank(b) => Total(a) >= Total(b)
  BY RanksAreTaken
<1> HIDE DEF n, E
<1>4. \A i \in 1..n : B[i] \in E /\ Rank(B[i]) = i - 1
  BY <1>3
<1>5. DOMAIN B = 1..n /\ Len(B) = n
  BY <1>1
<1> HIDE DEF B
<1>6. \A m \in E : B[Rank(m) + 1] = m
  <2>1. ASSUME NEW m \in E PROVE B[Rank(m) + 1] = m
    <3> DEFINE i == Rank(m) + 1
    <3>1. i \in 1..n /\ i - 1 = Rank(m)
      BY <1>1, <1>3
    <3> HIDE DEF i
    <3>2. B[i] \in E /\ Rank(B[i]) = Rank(m)
      BY <1>4, <3>1
    <3>3. B[i] = m
      BY <1>3, <3>2
    <3>4. QED
      BY <3>3 DEF i
  <2>2. QED
    BY <2>1
<1>7. ToSet(B) = E
  BY <1>3, <1>4, <1>5, <1>6 DEF ToSet
<1>8. IsInjective(B)
  <2>1. ASSUME NEW i \in 1..n, NEW j \in 1..n, B[i] = B[j] PROVE i = j
    <3>1. i - 1 = j - 1 /\ i \in Int /\ j \in Int
      BY <1>4, <2>1
    <3>2. QED
      BY <3>1
  <2>2. QED
    BY <1>5, <2>1 DEF IsInjective
<1>9. ASSUME NEW m \in E
      PROVE  Len(rows[m]) = Prompts /\ \A p \in 1..Prompts : rows[m][p] \in Cell
  <2>1. rows[m] \in Seq(Cell) /\ Len(rows[m]) = Prompts
    BY DEF Marked, Row, E
  <2>2. QED
    BY <2>1
<1>10. ASSUME NEW i \in 1..n - 1
       PROVE  SumFunction(rows[B[i]]) >= SumFunction(rows[B[i + 1]])
  <2>1. i \in 1..n /\ i + 1 \in 1..n /\ i - 1 < i + 1 - 1
    BY <1>1
  <2>2. Rank(B[i]) < Rank(B[i + 1]) /\ B[i] \in E /\ B[i + 1] \in E
    BY <1>4, <2>1
  <2>3. QED
    BY <1>3, <2>2 DEF Total
<1>11. FairBoard(B, rows)
  BY <1>5, <1>7, <1>8, <1>9, <1>10 DEF FairBoard, E
<1>12. QED
  BY <1>2, <1>11

(* The jurors who mark an answer.                                          *)
LEMMA OthersAreOthers ==
  ASSUME NEW model
  PROVE  /\ Others(model) \in Seq(Everyone)
         /\ \A i \in DOMAIN Others(model) : Others(model)[i] # model
<1> DEFINE E == Everyone
           K == {i \in DOMAIN Jury : Jury[i] # model}
<1>1. Jury \in Seq(E) /\ K \in SUBSET DOMAIN Jury /\ Others(model) = Select(Jury, K)
  BY PanelPeople DEF Others
<1> HIDE DEF E, K
<1>2. /\ Others(model) \in Seq(E)
      /\ \A i \in DOMAIN Others(model) :
            Nth(K, i) \in K /\ Others(model)[i] = Jury[Nth(K, i)]
  BY <1>1, SelectKeeps
<1>3. QED
  BY <1>2 DEF E, K

(* Every contender is still to be asked.                                   *)
LEMMA AllRemain == Remain(Contenders) /\ Done(Contenders) = 0
<1>1. Done(Contenders) = 0
  BY PanelPeople DEF Done
<1>2. QED
  BY <1>1, PanelPeople DEF Remain

LEMMA InitPanel == Init => PanelInv
<1> SUFFICES ASSUME Init PROVE PanelInv
  OBVIOUS
<1>1. Some(Keys) \subseteq Keys
  BY PanelAssumption DEF Some
<1>2. keyed \in Keys /\ job = Idle /\ rows = <<>> /\ board = <<>> /\ trace = {}
  BY <1>1 DEF Init, PanelFrom, Start
<1>3. keyed \subseteq ToSet(Builtins)
  BY <1>2, PanelAssumption
<1>4. /\ DOMAIN job = DOMAIN Idle /\ job.at = "idle" /\ job.heard = <<>>
  BY <1>2 DEF Idle
<1>5. QED
  BY <1>2, <1>3, <1>4 DEF PanelInv, Holds, FairBoard

(* The last step of every case below: nobody new, and the rest holds.      *)
LEMMA HoldsAgain ==
  ASSUME PanelInv, keyed' = keyed, Holds(job', rows', board', trace')
  PROVE  PanelInv'
<1>1. keyed' \subseteq ToSet(Builtins)
  BY DEF PanelInv
<1>2. Holds(job, rows, board, trace)' <=> Holds(job', rows', board', trace')
  BY SamePeople DEF Holds, Bench, Remain, Done, Marked, Heard, FairBoard
<1>3. QED
  BY <1>1, <1>2 DEF PanelInv

LEMMA StepBench == PanelInv /\ (StartBench \/ Answer \/ Judge \/ EndJudging \/ Sort) => PanelInv'
<1> SUFFICES ASSUME PanelInv, StartBench \/ Answer \/ Judge \/ EndJudging \/ Sort
    PROVE keyed' = keyed /\ Holds(job', rows', board', trace')
  BY HoldsAgain
<1>1. Holds(job, rows, board, trace)
  BY DEF PanelInv
<1>2. CASE StartBench
  <2>1. /\ job = Idle /\ board = <<>> /\ trace = {} /\ keyed' = keyed /\ board' = board
        /\ trace' = trace /\ rows' = [m \in Everyone |-> <<>>]
        /\ job' = [Idle EXCEPT !.at = "answer", !.left = Contenders, !.prompt = 1]
    BY <1>1, <1>2 DEF StartBench, Everyone, Holds, Idle
  <2>2. /\ DOMAIN job' = DOMAIN Idle /\ job'.at = "answer" /\ job'.left = Contenders
        /\ job'.prompt = 1 /\ job'.marks = <<>> /\ job'.heard = <<>>
    BY <2>1 DEF Idle
  <2>3. Contenders # <<>>
    <3>1. Jury # <<>> /\ Jury \in Seq(Everyone) /\ Customs \in Seq(ToSet(Customs))
      BY <1>2, PanelPeople, PanelAssumption DEF StartBench
    <3>2. Len(Jury) \in Nat /\ Len(Jury) # 0 /\ Len(Customs) \in Nat
      BY <3>1
    <3>3. Len(Jury \o Customs) = Len(Jury) + Len(Customs)
      BY <3>1
    <3>4. Len(Contenders) # 0
      BY <3>2, <3>3 DEF Contenders
    <3>5. QED
      BY <3>4
  <2>4. ASSUME NEW i \in DOMAIN Contenders
        PROVE  Row(rows', Contenders[i], Cells(i, 0, 1))
    <3>1. Contenders[i] \in Everyone /\ i \in Nat \ {0}
      BY PanelPeople
    <3>2. Cells(i, 0, 1) = 0
      BY <3>1 DEF Cells
    <3>3. rows'[Contenders[i]] = <<>>
      BY <2>1, <3>1
    <3>4. QED
      BY <3>2, <3>3 DEF Row
  <2>5. 1 \in 1..Prompts /\ DOMAIN rows' = Everyone
    BY <2>1, PanelAssumption
  <2>6. Bench(Contenders, 1, rows')
    BY <2>3, <2>4, <2>5, AllRemain DEF Bench
  <2>7. QED
    BY <2>1, <2>2, <2>6 DEF Holds, FairBoard
<1>3. ASSUME NEW score \in Cell, Scored(score), trace' = trace, job.at \in {"answer", "judge"}
      PROVE  keyed' = keyed /\ Holds(job', rows', board', trace')
  <2>1. /\ Bench(job.left, job.prompt, rows) /\ DOMAIN job = DOMAIN Idle
        /\ job.heard = <<>> /\ board = <<>> /\ \A t \in trace : t.by # t.of
    BY <1>1, <1>3 DEF Holds
  <2>2. /\ DOMAIN job' = DOMAIN Idle /\ UNCHANGED <<keyed, board>> /\ job'.heard = <<>>
        /\ job'.marks = <<>>
        /\ \/ job'.at = "answer" /\ Bench(job'.left, job'.prompt, rows')
           \/ job'.at = "sort" /\ Marked(rows')
    BY <1>3, <2>1, ScoredKeeps
  <2>3. QED
    BY <1>3, <2>1, <2>2 DEF Holds, FairBoard
<1>4. CASE Answer
  <2>1. CASE Scored(0)
    <3>1. 0 \in Cell
      BY DEF Cell, MaxMark, Sixth
    <3>2. QED
      BY <1>3, <1>4, <2>1, <3>1 DEF Answer
  <2>2. CASE /\ job' = [job EXCEPT !.at = "judge", !.judges = Others(Model)]
             /\ UNCHANGED <<keyed, rows, board>>
    <3>1. /\ Bench(job.left, job.prompt, rows) /\ DOMAIN job = DOMAIN Idle
          /\ job.heard = <<>> /\ board = <<>> /\ job.marks = <<>>
          /\ \A t \in trace : t.by # t.of
      BY <1>1, <1>4 DEF Holds, Answer
    <3>2. /\ DOMAIN job' = DOMAIN Idle /\ job'.at = "judge" /\ job'.judges = Others(Model)
          /\ job'.left = job.left /\ job'.prompt = job.prompt /\ job'.heard = <<>>
          /\ job'.marks = <<>> /\ trace' = trace
      BY <1>4, <2>2, <3>1 DEF Idle, Answer
    <3>3. /\ Others(Model) \in Seq(Everyone)
          /\ \A i \in DOMAIN Others(Model) : Others(Model)[i] # Head(job.left)
      BY OthersAreOthers DEF Model
    <3>4. /\ job'.judges \in Seq(Everyone) /\ job'.marks \in Seq(0..MaxMark)
          /\ \A i \in DOMAIN job'.judges : job'.judges[i] # Head(job'.left)
      BY <3>2, <3>3
    <3>5. Bench(job'.left, job'.prompt, rows')
      BY <2>2, <3>1, <3>2
    <3>6. keyed' = keyed /\ board' = <<>>
      BY <2>2, <3>1
    <3>7. QED
      BY <3>1, <3>2, <3>4, <3>5, <3>6 DEF Holds, FairBoard
  <2>3. QED
    BY <1>4, <2>1, <2>2 DEF Answer
<1>5. CASE Judge
  <2>1. /\ job.at = "judge" /\ job.judges # <<>> /\ job.judges \in Seq(Everyone)
        /\ \A i \in DOMAIN job.judges : job.judges[i] # Model
        /\ job.marks \in Seq(0..MaxMark) /\ Bench(job.left, job.prompt, rows)
        /\ DOMAIN job = DOMAIN Idle /\ job.heard = <<>> /\ board = <<>>
        /\ \A t \in trace : t.by # t.of
    BY <1>1, <1>5 DEF Holds, Judge, Model
  <2>2. PICK mark \in Marks \cup {NoMark} :
          job' = [job EXCEPT !.judges = Tail(@),
                             !.marks = IF mark = NoMark THEN @ ELSE Append(@, Clamped(mark))]
    BY <1>5 DEF Judge
  <2>3. /\ keyed' = keyed /\ rows' = rows /\ board' = board
        /\ trace' = trace \cup {[by |-> Head(job.judges), of |-> Model]}
    BY <1>5 DEF Judge
  <2>4. /\ DOMAIN job' = DOMAIN Idle /\ job'.at = "judge" /\ job'.left = job.left
        /\ job'.prompt = job.prompt /\ job'.heard = <<>> /\ job'.judges = Tail(job.judges)
        /\ job'.marks = IF mark = NoMark THEN job.marks ELSE Append(job.marks, Clamped(mark))
    BY <2>1, <2>2 DEF Idle
  <2>5. /\ Tail(job.judges) \in Seq(Everyone) /\ Head(job.judges) # Model
        /\ \A i \in DOMAIN Tail(job.judges) : Tail(job.judges)[i] # Model
    <3> DEFINE q == job.judges
    <3>1. /\ Tail(q) \in Seq(Everyone) /\ Len(Tail(q)) = Len(q) - 1 /\ Head(q) = q[1]
          /\ \A j \in 1..(Len(q) - 1) : Tail(q)[j] = q[j + 1]
      BY <2>1, TailOf
    <3>2. Len(q) \in Nat /\ Len(q) # 0 /\ DOMAIN q = 1..Len(q)
      BY <2>1
    <3>3. \A j \in 1..(Len(q) - 1) : j + 1 \in DOMAIN q
      BY <3>2
    <3>4. DOMAIN Tail(q) = 1..(Len(q) - 1)
      BY <3>1
    <3>5. QED
      BY <2>1, <3>1, <3>2, <3>3, <3>4
  <2>6. job'.marks \in Seq(0..MaxMark)
    <3>1. CASE mark = NoMark
      BY <2>1, <2>4, <3>1
    <3>2. CASE mark # NoMark
      <4>1. mark \in Nat
        BY <3>2, PanelAssumption
      <4>2. Clamped(mark) \in 0..MaxMark
        BY <4>1 DEF Clamped, MaxMark
      <4>3. QED
        BY <2>1, <2>4, <3>2, <4>2
    <3>3. QED
      BY <3>1, <3>2
  <2>7. \A t \in trace' : t.by # t.of
    BY <2>1, <2>3, <2>5
  <2>8. \A i \in DOMAIN job'.judges : job'.judges[i] # Head(job'.left)
    BY <2>4, <2>5 DEF Model
  <2>9. QED
    BY <2>1, <2>3, <2>4, <2>5, <2>6, <2>7, <2>8 DEF Holds, FairBoard
<1>6. CASE EndJudging
  <2>1. job.marks \in Seq(0..MaxMark)
    BY <1>1, <1>6 DEF Holds, EndJudging
  <2>2. Mean(job.marks) \in Cell
    BY <2>1, MeanInCell
  <2>3. QED
    BY <1>3, <1>6, <2>2 DEF EndJudging
<1>7. CASE Sort
  <2>1. Marked(rows) /\ job.heard = <<>> /\ \A t \in trace : t.by # t.of
    BY <1>1, <1>7 DEF Holds, Sort
  <2>2. /\ keyed' = keyed /\ rows' = rows /\ trace' = trace
        /\ job' = [Idle EXCEPT !.at = "over"]
    BY <1>7 DEF Sort
  <2>3. DOMAIN job' = DOMAIN Idle /\ job'.at = "over" /\ job'.heard = <<>>
    BY <2>2 DEF Idle
  <2>4. FairBoard(board', rows')
    BY <1>7, <2>1, SortIsFair
  <2>5. DOMAIN rows' \subseteq Everyone
    BY <2>1, <2>2 DEF Marked
  <2>6. QED
    BY <2>1, <2>2, <2>3, <2>4, <2>5 DEF Holds
<1>8. QED
  BY <1>2, <1>4, <1>5, <1>6, <1>7

LEMMA StepConsensus ==
  PanelInv /\ (StartConsensus \/ Poll \/ Polled \/ Synthesize) => PanelInv'
<1> SUFFICES ASSUME PanelInv, StartConsensus \/ Poll \/ Polled \/ Synthesize
    PROVE keyed' = keyed /\ Holds(job', rows', board', trace')
  BY HoldsAgain
<1>1. Holds(job, rows, board, trace)
  BY DEF PanelInv
<1>2. CASE StartConsensus
  <2>1. /\ job = Idle /\ board = <<>> /\ trace = {} /\ rows = <<>> /\ keyed' = keyed
        /\ board' = board /\ trace' = trace /\ rows' = rows
        /\ job' = [Idle EXCEPT !.at = "poll", !.left = Contenders]
    BY <1>1, <1>2 DEF StartConsensus, Holds, Idle
  <2>2. /\ DOMAIN job' = DOMAIN Idle /\ job'.at = "poll" /\ job'.left = Contenders
        /\ job'.heard = <<>>
    BY <2>1 DEF Idle
  <2>3. <<>> \in Seq(Everyone) /\ IsInjective(<<>>) /\ Heard(<<>>, Contenders)
    BY DEF IsInjective, Heard
  <2>4. QED
    BY <2>1, <2>2, <2>3, AllRemain DEF Holds, FairBoard
<1>3. CASE Poll
  <2>1. /\ trace = {} /\ board = <<>> /\ rows = <<>> /\ job.heard \in Seq(Everyone)
        /\ IsInjective(job.heard) /\ Remain(job.left) /\ Heard(job.heard, job.left)
        /\ job.left # <<>> /\ job.at = "poll" /\ DOMAIN job = DOMAIN Idle
    BY <1>1, <1>3 DEF Poll, Holds
  <2>2. PICK heard \in {job.heard, Append(job.heard, Model)} :
          job' = [job EXCEPT !.left = Tail(@), !.heard = heard]
    BY <1>3 DEF Poll
  <2>3. keyed' = keyed /\ rows' = rows /\ board' = board /\ trace' = trace
    BY <1>3 DEF Poll
  <2>4. /\ DOMAIN job' = DOMAIN Idle /\ job'.at = "poll" /\ job'.left = Tail(job.left)
        /\ job'.heard = heard
    BY <2>1, <2>2 DEF Idle
  <2> DEFINE d == Done(job.left)
             h == job.heard
  <2>5. /\ d + 1 \in 1..Len(Contenders) /\ Model = Contenders[d + 1] /\ Model \in Everyone
        /\ Remain(Tail(job.left)) /\ Done(Tail(job.left)) = d + 1 /\ d \in 0..Len(Contenders)
        /\ Len(Contenders) \in Nat
    BY <2>1, NextModel, PanelPeople DEF Model
  <2>6. /\ Len(h) \in Nat /\ DOMAIN h = 1..Len(h)
        /\ \A k \in 1..Len(h) : \E i \in 1..d : h[k] = Contenders[i]
    BY <2>1 DEF Heard
  <2> HIDE DEF d
  <2>7. \A k \in 1..Len(h) : h[k] # Model
    <3>1. \A i \in 1..d : i \in 1..Len(Contenders) /\ i # d + 1
      BY <2>5
    <3>2. \A i \in 1..d : Contenders[i] # Contenders[d + 1]
      BY <2>5, <3>1, PanelPeople DEF IsInjective
    <3>3. QED
      BY <2>5, <2>6, <3>2
  <2>8. CASE heard = h
    <3>1. ASSUME NEW k \in DOMAIN h PROVE \E i \in 1..(d + 1) : h[k] = Contenders[i]
      <4>1. PICK i \in 1..d : h[k] = Contenders[i]
        BY <2>6
      <4>2. i \in 1..(d + 1)
        BY <2>5
      <4>3. QED
        BY <4>1, <4>2
    <3>2. Heard(h, Tail(job.left))
      BY <2>5, <3>1 DEF Heard
    <3>3. QED
      BY <2>1, <2>3, <2>4, <2>5, <2>8, <3>2 DEF Holds, FairBoard
  <2>9. CASE heard = Append(h, Model)
    <3>1. /\ heard \in Seq(Everyone) /\ Len(heard) = Len(h) + 1 /\ DOMAIN heard = 1..(Len(h) + 1)
          /\ \A k \in 1..(Len(h) + 1) : heard[k] = IF k <= Len(h) THEN h[k] ELSE Model
      BY <2>1, <2>5, <2>6, <2>9
    <3>2. \A k \in DOMAIN heard : \E i \in 1..(d + 1) : heard[k] = Contenders[i]
      <4>1. ASSUME NEW k \in DOMAIN heard PROVE \E i \in 1..(d + 1) : heard[k] = Contenders[i]
        <5>1. CASE k <= Len(h)
          <6>1. k \in 1..Len(h) /\ heard[k] = h[k]
            BY <2>6, <3>1, <5>1
          <6>2. PICK i \in 1..d : h[k] = Contenders[i]
            BY <2>6, <6>1
          <6>3. i \in 1..(d + 1)
            BY <2>5
          <6>4. QED
            BY <6>1, <6>2, <6>3
        <5>2. CASE ~(k <= Len(h))
          <6>1. heard[k] = Contenders[d + 1] /\ d + 1 \in 1..(d + 1)
            BY <2>5, <3>1, <5>2
          <6>2. QED
            BY <6>1
        <5>3. QED
          BY <5>1, <5>2
      <4>2. QED
        BY <4>1
    <3>3. Heard(heard, Tail(job.left))
      BY <2>5, <3>2 DEF Heard
    <3>4. IsInjective(heard)
      <4>1. ASSUME NEW a \in 1..(Len(h) + 1), NEW b \in 1..(Len(h) + 1), heard[a] = heard[b]
            PROVE  a = b
        <5>1. CASE a <= Len(h) /\ b <= Len(h)
          <6>1. a \in 1..Len(h) /\ b \in 1..Len(h) /\ h[a] = h[b]
            BY <2>6, <3>1, <4>1, <5>1
          <6>2. QED
            BY <2>1, <2>6, <6>1 DEF IsInjective
        <5>2. CASE a <= Len(h) /\ ~(b <= Len(h))
          <6>1. a \in 1..Len(h) /\ h[a] = Model
            BY <2>6, <3>1, <4>1, <5>2
          <6>2. QED
            BY <2>7, <6>1
        <5>3. CASE ~(a <= Len(h)) /\ b <= Len(h)
          <6>1. b \in 1..Len(h) /\ h[b] = Model
            BY <2>6, <3>1, <4>1, <5>3
          <6>2. QED
            BY <2>7, <6>1
        <5>4. CASE ~(a <= Len(h)) /\ ~(b <= Len(h))
          BY <2>6, <5>4
        <5>5. QED
          BY <5>1, <5>2, <5>3, <5>4
      <4>2. QED
        BY <3>1, <4>1 DEF IsInjective
    <3>5. QED
      BY <2>1, <2>3, <2>4, <2>5, <3>1, <3>3, <3>4 DEF Holds, FairBoard
  <2>10. QED
    BY <2>2, <2>8, <2>9
<1>4. CASE Polled
  <2>1. /\ trace = {} /\ board = <<>> /\ rows = <<>> /\ job.heard \in Seq(Everyone)
        /\ IsInjective(job.heard) /\ DOMAIN job = DOMAIN Idle
        /\ job' = [job EXCEPT !.at = IF Len(job.heard) >= 2 THEN "synthesis" ELSE "over"]
        /\ keyed' = keyed /\ rows' = rows /\ board' = board /\ trace' = trace
    BY <1>1, <1>4 DEF Polled, Holds
  <2>2. /\ DOMAIN job' = DOMAIN Idle /\ job'.heard = job.heard
        /\ job'.at = IF Len(job.heard) >= 2 THEN "synthesis" ELSE "over"
    BY <2>1 DEF Idle
  <2>3. DOMAIN rows' = {}
    BY <2>1
  <2>4. QED
    BY <2>1, <2>2, <2>3 DEF Holds, FairBoard
<1>5. CASE Synthesize
  <2>1. /\ trace = {} /\ board = <<>> /\ rows = <<>> /\ job.heard \in Seq(Everyone)
        /\ IsInjective(job.heard) /\ Len(job.heard) >= 2 /\ DOMAIN job = DOMAIN Idle
    BY <1>1, <1>5 DEF Synthesize, Holds
  <2>2. /\ job' = [job EXCEPT !.at = "over"] /\ keyed' = keyed /\ rows' = rows /\ board' = board
        /\ \/ trace' = {[by |-> Synthesizer, of |-> job.heard]}
           \/ trace' = trace
    BY <1>5 DEF Synthesize
  <2>3. DOMAIN job' = DOMAIN Idle /\ job'.at = "over" /\ job'.heard = job.heard
    BY <2>1, <2>2 DEF Idle
  <2>4. job.heard # <<>> /\ \A t \in trace' : t.of = job.heard
    BY <2>1, <2>2
  <2>5. DOMAIN rows' = {}
    BY <2>1, <2>2
  <2>6. QED
    BY <2>1, <2>2, <2>3, <2>4, <2>5 DEF Holds, FairBoard
<1>6. QED
  BY <1>2, <1>3, <1>4, <1>5

LEMMA NextPanel == PanelInv /\ [Next]_vars => PanelInv'
<1> SUFFICES ASSUME PanelInv, [Next]_vars PROVE PanelInv'
  OBVIOUS
<1>1. CASE UNCHANGED avars
  BY <1>1, HoldsAgain DEF avars, PanelInv
<1>2. UNCHANGED avars \/ PanelNext
  BY DEF Next, vars, PlansStep, UsageStep, ProjectStep, SystemStep, PanelStep, SnapshotsStep,
     DiagnosisStep
<1>3. QED
  BY <1>1, <1>2, StepBench, StepConsensus DEF PanelNext

(* No model marks its own answer; every cell of the list a benchmark shows *)
(* is there and on the scale, and nobody stands above a better one; what   *)
(* is called a consensus joins answers of two models at least, each once.  *)
THEOREM PanelsAreFair == Spec => []PanelIsFair
<1>1. PanelInv => PanelIsFair
  BY DEF PanelInv, Holds, FairBoard, PanelIsFair, Everyone, Cell, Total
<1>2. QED
  BY InitPanel, NextPanel, <1>1, PTL DEF Spec

-----------------------------------------------------------------------------
(* The scan of a project.                                                  *)

(* q is a folder that p is in.                                             *)
Over(q, p) == (q = Root /\ p # Root) \/ (Len(q) < Len(p) /\ IsPrefix(q \o <<"/">>, p))

(* What is on the stack or unread is still to come, with all that is in it.*)
ToCome(un, st)  == un \cup ToSet(st)
Waits(p, open)  == \E q \in open : q = p \/ Over(q, p)
Seen(S, open)   == {p \in S : ~Waits(p, open)}
Entered(q)      == q = Root \/ /\ q \in Reached /\ Tree[q].kind \in {"dir", "locked"}
                               /\ ~Tree[q].skip /\ ~Ignored(q)
Secrets         == {p \in Files : Tree[p].secret}

(* The stack and what is unread are reached, and none of them is in        *)
(* another, so that nothing is counted twice.                              *)
Walk(un, st) ==
    /\ un \subseteq Reached /\ st \in Seq(folder \cup {Root})
    /\ \A q \in ToSet(st) : Entered(q)
    /\ IsInjective(st) /\ un \cap ToSet(st) = {}
    /\ \A a, b \in ToCome(un, st) : ~Over(a, b)

Limits(s) ==
    /\ s.todos \in 0..MaxTodos /\ s.skipped \in Nat /\ s.truncated \in BOOLEAN
    /\ Cardinality(s.files) <= MaxFiles /\ s.total_bytes = Bytes(s.files)
    /\ s.files = {} \/ \E p \in s.files : Bytes(s.files \ {p}) < MaxTotalBytes
    /\ s.languages = [l \in {Tree[p].language : p \in s.files} |->
                        Cardinality({p \in s.files : Tree[p].language = l})]
    /\ s.manifests \subseteq DOMAIN Commands /\ IsFiniteSet(s.manifests) /\ IsFiniteSet(s.commands)

(* What was seen so far is in the scan, but for what was cut.              *)
Accounts(s, open) ==
    /\ s.files \subseteq Seen(Code, open)
    /\ ~s.truncated => /\ s.files = Seen(Code, open)
                       /\ s.manifests = {Tree[p].manifest : p \in Seen(Wanted, open)} \ {"none"}
    /\ s.skipped = Cardinality(Seen(Secrets, open))

ScanHolds(un, st, s) ==
    Walk(un, st) /\ DOMAIN s = DOMAIN NoScan /\ Limits(s) /\ Accounts(s, ToCome(un, st))

ScanInv ==
    /\ folder \in Folders \cup {{}} /\ at \in {"scan", "done", "rules"}
    /\ ScanHolds(unread, stack, found)
    /\ at = "done" => unread = {} /\ stack = <<>>

-----------------------------------------------------------------------------
(* Paths.                                                                  *)

Chars == {"/"} \cup UNION {ToSet(p) : p \in DOMAIN Tree}
FolderIsTree == folder \in Folders \cup {{}}

LEMMA FolderIs ==
  ASSUME FolderIsTree
  PROVE  /\ IsFiniteSet(folder) /\ folder \subseteq DOMAIN Tree /\ folder \subseteq Seq(Chars)
         /\ Root \notin folder
         /\ \A p \in folder : /\ Len(p) \in Nat \ {0} /\ p[Len(p)] # "/" /\ Tree[p] \in Contents
                              /\ \A i \in 1..Len(p) : p[i] = "/" => SubSeq(p, 1, i - 1) \in folder
<1>1. IsFiniteSet(folder) /\ folder \subseteq DOMAIN Tree
  BY ProjectAssumption, FS_EmptySet DEF FolderIsTree
<1>2. ASSUME NEW p \in folder
      PROVE  /\ p \in Seq(Chars) /\ p # <<>> /\ Len(p) \in Nat \ {0} /\ p[Len(p)] # "/"
             /\ Tree[p] \in Contents /\ DOMAIN p = 1..Len(p)
  <2>1. p \in DOMAIN Tree
    BY <1>1
  <2> DEFINE T == ToSet(p)
  <2>2. p \in Seq(T) /\ p # <<>> /\ Last(p) # "/" /\ Tree[p] \in Contents
    BY <2>1, ProjectAssumption
  <2>3. T \subseteq Chars
    BY <2>1 DEF Chars
  <2> HIDE DEF T
  <2>4. p \in Seq(Chars)
    BY <2>2, <2>3
  <2>5. QED
    BY <2>2, <2>4 DEF Last
<1>3. ASSUME NEW p \in folder, NEW i \in 1..Len(p), p[i] = "/" PROVE SubSeq(p, 1, i - 1) \in folder
  <2>1. folder \in Folders
    BY <1>3 DEF FolderIsTree
  <2>2. i \in DOMAIN p
    BY <1>2
  <2>3. QED
    BY <1>3, <2>1, <2>2, ProjectAssumption
<1>4. QED
  BY <1>1, <1>2, <1>3 DEF Root

LEMMA OverIs ==
  ASSUME NEW q \in Seq(Chars), NEW p \in Seq(Chars)
  PROVE  Over(q, p) <=> \/ q = Root /\ p # Root
                        \/ /\ Len(q) < Len(p) /\ p[Len(q) + 1] = "/"
                           /\ \A i \in 1..Len(q) : p[i] = q[i]
<1> DEFINE r == q \o <<"/">>
           n == Len(q)
<1>1. n \in Nat /\ Len(p) \in Nat /\ "/" \in Chars
  BY DEF Chars
<1>2. /\ r \in Seq(Chars) /\ Len(r) = n + 1 /\ r[n + 1] = "/"
      /\ \A i \in 1..n : r[i] = q[i]
  BY <1>1
<1>3. SubSeq(r, 1, n + 1) = r
  BY <1>1, <1>2
<1> HIDE DEF r
<1>4. ASSUME n < Len(p)
      PROVE  r = SubSeq(p, 1, n + 1) <=> (p[n + 1] = "/" /\ \A i \in 1..n : p[i] = q[i])
  <2> DEFINE s == SubSeq(p, 1, n + 1)
  <2>1. s \in Seq(Chars) /\ Len(s) = n + 1 /\ \A i \in 1..(n + 1) : s[i] = p[i]
    BY <1>1, <1>4
  <2> HIDE DEF s
  <2>2. r = s <=> \A i \in 1..(n + 1) : r[i] = s[i]
    <3>1. r = [i \in 1..(n + 1) |-> r[i]] /\ s = [i \in 1..(n + 1) |-> s[i]]
      BY <1>2, <2>1
    <3>2. QED
      BY <3>1
  <2>3. (\A i \in 1..(n + 1) : r[i] = s[i]) <=> (p[n + 1] = "/" /\ \A i \in 1..n : p[i] = q[i])
    <3>1. \A i \in 1..(n + 1) : i = n + 1 \/ i \in 1..n
      BY <1>1
    <3>2. n + 1 \in 1..(n + 1) /\ \A i \in 1..n : i \in 1..(n + 1)
      BY <1>1
    <3>3. QED
      BY <1>2, <2>1, <3>1, <3>2
  <2>4. QED
    BY <2>2, <2>3 DEF s
<1>5. n < Len(p) => n + 1 <= Len(p)
  BY <1>1
<1>6. QED
  BY <1>2, <1>3, <1>4, <1>5 DEF Over, IsPrefix, r

(* Being in a folder is a strict order, and the folders a path is in are   *)
(* in each other.                                                          *)
LEMMA OverOrder ==
  ASSUME NEW a \in Seq(Chars), NEW b \in Seq(Chars), NEW c \in Seq(Chars)
  PROVE  /\ ~Over(a, a)
         /\ Over(a, b) /\ Over(b, c) => Over(a, c)
         /\ Over(a, c) /\ Over(b, c) => a = b \/ Over(a, b) \/ Over(b, a)
<1>1. Len(a) \in Nat /\ Len(b) \in Nat /\ Len(c) \in Nat
  OBVIOUS
<1>2. \A p \in Seq(Chars) : p = Root <=> Len(p) = 0
  BY DEF Root
<1>3. ~Over(a, a)
  BY <1>1, OverIs
<1>4. ASSUME Over(a, b), Over(b, c) PROVE Over(a, c)
  <2>1. b # Root /\ Len(b) # 0 /\ Len(b) < Len(c) /\ c[Len(b) + 1] = "/"
        /\ \A i \in 1..Len(b) : c[i] = b[i]
    BY <1>1, <1>2, <1>4, OverIs
  <2>2. CASE a = Root
    <3>1. c # Root
      BY <1>1, <1>2, <2>1
    <3>2. QED
      BY <2>2, <3>1, OverIs
  <2>3. CASE a # Root
    <3>1. Len(a) < Len(b) /\ b[Len(a) + 1] = "/" /\ \A i \in 1..Len(a) : b[i] = a[i]
      BY <1>4, <2>3, OverIs
    <3>2. Len(a) + 1 \in 1..Len(b) /\ \A i \in 1..Len(a) : i \in 1..Len(b)
      BY <1>1, <3>1
    <3>3. Len(a) < Len(c) /\ c[Len(a) + 1] = "/" /\ \A i \in 1..Len(a) : c[i] = a[i]
      BY <1>1, <2>1, <3>1, <3>2
    <3>4. QED
      BY <3>3, OverIs
  <2>4. QED
    BY <2>2, <2>3
<1>5. ASSUME Over(a, c), Over(b, c), a # Root, b # Root
      PROVE  a = b \/ Over(a, b) \/ Over(b, a)
  <2>1. /\ Len(a) < Len(c) /\ c[Len(a) + 1] = "/" /\ \A i \in 1..Len(a) : c[i] = a[i]
        /\ Len(b) < Len(c) /\ c[Len(b) + 1] = "/" /\ \A i \in 1..Len(b) : c[i] = b[i]
    BY <1>5, OverIs
  <2>2. CASE Len(a) < Len(b)
    <3>1. Len(a) + 1 \in 1..Len(b) /\ \A i \in 1..Len(a) : i \in 1..Len(b)
      BY <1>1, <2>2
    <3>2. b[Len(a) + 1] = "/" /\ \A i \in 1..Len(a) : b[i] = a[i]
      BY <2>1, <3>1
    <3>3. QED
      BY <2>2, <3>2, OverIs
  <2>3. CASE Len(b) < Len(a)
    <3>1. Len(b) + 1 \in 1..Len(a) /\ \A i \in 1..Len(b) : i \in 1..Len(a)
      BY <1>1, <2>3
    <3>2. a[Len(b) + 1] = "/" /\ \A i \in 1..Len(b) : a[i] = b[i]
      BY <2>1, <3>1
    <3>3. QED
      BY <2>3, <3>2, OverIs
  <2>4. CASE Len(a) = Len(b)
    <3>1. \A i \in 1..Len(a) : a[i] = b[i]
      BY <2>1, <2>4
    <3>2. a = [i \in 1..Len(a) |-> a[i]] /\ b = [i \in 1..Len(a) |-> b[i]]
      BY <2>4
    <3>3. QED
      BY <3>1, <3>2
  <2>5. QED
    BY <1>1, <2>2, <2>3, <2>4
<1>6. ASSUME Over(a, c), Over(b, c) PROVE a = b \/ Over(a, b) \/ Over(b, a)
  BY <1>5, <1>6, OverIs
<1>7. QED
  BY <1>3, <1>4, <1>6

LEMMA NodeIs ==
  ASSUME FolderIsTree, NEW q \in folder \cup {Root}
  PROVE  q \in Seq(Chars) /\ Len(q) \in Nat /\ (q = Root <=> Len(q) = 0)
<1>1. q \in Seq(Chars)
  <2>1. Root \in Seq(Chars)
    BY DEF Root
  <2>2. QED
    BY <2>1, FolderIs
<1>2. QED
  BY <1>1 DEF Root

LEMMA SubSeqIs ==
  ASSUME NEW E, NEW s \in Seq(E), NEW m \in Nat, NEW n \in Nat, m <= n, n <= Len(s)
  PROVE  /\ SubSeq(s, m + 1, n) \in Seq(E) /\ Len(SubSeq(s, m + 1, n)) = n - m
         /\ \A j \in 1..(n - m) : SubSeq(s, m + 1, n)[j] = s[m + j]
OBVIOUS

(* What is read of a folder is in it and in no folder within it, ...       *)
LEMMA ChildOf ==
  ASSUME FolderIsTree, NEW d \in folder \cup {Root}, NEW c \in Inside(d)
  PROVE  /\ c \in folder /\ Over(d, c)
         /\ \A q \in folder \cup {Root} : Over(q, c) => q = d \/ Over(q, d)
<1> DEFINE k == IF d = Root THEN 0 ELSE Len(d) + 1
<1>1. d \in Seq(Chars) /\ Root \in Seq(Chars) /\ Len(Root) = 0 /\ Len(d) \in Nat
      /\ k \in Nat /\ "/" \in Chars
  <2>1. "/" \in Chars /\ Len(Root) = 0 /\ Root \in folder \cup {Root}
    BY DEF Root, Chars
  <2>2. QED
    BY <2>1, NodeIs
<1>2. /\ c \in folder /\ c \in Seq(Chars) /\ Len(c) \in Nat /\ Len(c) > k
      /\ \A i \in 1..Len(c) : i > k => c[i] # "/"
      /\ d # Root => c[Len(d) + 1] = "/" /\ \A i \in 1..Len(d) : c[i] = d[i]
  <2> DEFINE r == IF d = <<>> THEN d ELSE d \o <<"/">>
  <2>1. r \in Seq(Chars) /\ Len(r) = k
    BY <1>1 DEF Root
  <2>2. /\ c \in folder /\ Len(c) > Len(r) /\ SubSeq(c, 1, Len(r)) = r
        /\ "/" \notin ToSet(SubSeq(c, Len(r) + 1, Len(c)))
    BY DEF Inside, Here, r
  <2>3. c \in Seq(Chars) /\ Len(c) \in Nat
    BY <2>2, FolderIs
  <2>4. ASSUME NEW i \in 1..Len(c), i > k PROVE c[i] # "/"
    <3> DEFINE s == SubSeq(c, k + 1, Len(c))
    <3>1. /\ s \in Seq(Chars) /\ Len(s) = Len(c) - k
          /\ \A j \in 1..(Len(c) - k) : s[j] = c[k + j]
      <4>1. k <= Len(c)
        BY <1>1, <2>1, <2>2, <2>3
      <4> HIDE DEF k
      <4>2. QED
        BY <1>1, <2>3, <4>1, SubSeqIs
    <3> HIDE DEF s, k
    <3>2. i - k \in 1..(Len(c) - k) /\ k + (i - k) = i
      BY <1>1, <2>3, <2>4
    <3>3. c[i] \in ToSet(s)
      <4>1. s[i - k] = c[i] /\ i - k \in DOMAIN s
        BY <3>1, <3>2
      <4>2. QED
        BY <4>1 DEF ToSet
    <3>4. QED
      BY <2>1, <2>2, <3>3 DEF s
  <2>5. ASSUME d # Root PROVE c[Len(d) + 1] = "/" /\ \A i \in 1..Len(d) : c[i] = d[i]
    <3>1. r = d \o <<"/">> /\ k = Len(d) + 1
      BY <2>5 DEF Root
    <3>2. r[Len(d) + 1] = "/" /\ \A i \in 1..Len(d) : r[i] = d[i]
      BY <1>1, <3>1
    <3>3. \A i \in 1..k : SubSeq(c, 1, k)[i] = c[i]
      BY <1>1, <2>1, <2>2, <2>3
    <3> HIDE DEF r
    <3>4. \A i \in 1..k : r[i] = c[i]
      BY <2>1, <2>2, <3>3
    <3>5. Len(d) + 1 \in 1..k /\ \A i \in 1..Len(d) : i \in 1..k
      BY <1>1, <3>1
    <3>6. QED
      BY <3>2, <3>4, <3>5
  <2>6. QED
    BY <2>1, <2>2, <2>3, <2>4, <2>5
<1>3. Over(d, c)
  <2>1. CASE d = Root
    BY <1>2, <2>1, FolderIs DEF Over
  <2>2. CASE d # Root
    BY <1>1, <1>2, <2>2, OverIs
  <2>3. QED
    BY <2>1, <2>2
<1>4. ASSUME NEW q \in folder \cup {Root}, Over(q, c) PROVE q = d \/ Over(q, d)
  <2>1. q \in Seq(Chars) /\ Len(q) \in Nat
    BY NodeIs
  <2>2. CASE q = Root
    BY <2>2 DEF Over
  <2>3. CASE q # Root
    <3>1. Len(q) < Len(c) /\ c[Len(q) + 1] = "/"
      BY <1>2, <1>4, <2>1, <2>3, OverIs
    <3>2. ~(Len(q) + 1 > k)
      BY <1>2, <2>1, <3>1
    <3>3. d # Root /\ Len(q) <= Len(d)
      BY <1>1, <2>1, <3>2
    <3>4. ~Over(d, q)
      BY <1>1, <2>1, <3>3, OverIs
    <3>5. QED
      BY <1>1, <1>2, <1>3, <1>4, <2>1, <3>4, OverOrder
  <2>4. QED
    BY <2>2, <2>3
<1>5. QED
  BY <1>2, <1>3, <1>4

(* ... and whatever is in the folder is read of it or in what is.          *)
LEMMA Descent ==
  ASSUME FolderIsTree, NEW d \in folder \cup {Root}, NEW p \in folder, Over(d, p)
  PROVE  \E c \in Inside(d) : c = p \/ Over(c, p)
<1> DEFINE k == IF d = Root THEN 0 ELSE Len(d) + 1
           r == IF d = <<>> THEN d ELSE d \o <<"/">>
           Cuts == {i \in 1..Len(p) : i > k /\ p[i] = "/"}
<1>1. /\ d \in Seq(Chars) /\ Len(d) \in Nat /\ k \in Nat /\ p \in Seq(Chars)
      /\ Len(p) \in Nat \ {0} /\ p[Len(p)] # "/" /\ "/" \in Chars
      /\ r \in Seq(Chars) /\ Len(r) = k
  <2>1. /\ d \in Seq(Chars) /\ Len(d) \in Nat /\ (d = Root <=> Len(d) = 0) /\ "/" \in Chars
    BY NodeIs DEF Chars
  <2>2. p \in Seq(Chars) /\ Len(p) \in Nat \ {0} /\ p[Len(p)] # "/"
    BY FolderIs
  <2>3. r \in Seq(Chars) /\ Len(r) = k /\ k \in Nat
    BY <2>1 DEF Root
  <2>4. QED
    BY <2>1, <2>2, <2>3
<1>2. /\ Len(p) > k /\ \A i \in 1..k : p[i] = r[i]
      /\ d # Root => r[k] = "/"
  <2>1. CASE d = Root
    BY <1>1, <2>1
  <2>2. CASE d # Root
    <3>1. Len(d) < Len(p) /\ p[Len(d) + 1] = "/" /\ \A i \in 1..Len(d) : p[i] = d[i]
      BY <1>1, <2>2, OverIs
    <3>2. r[Len(d) + 1] = "/" /\ (\A i \in 1..Len(d) : r[i] = d[i]) /\ k = Len(d) + 1
      BY <1>1, <2>2 DEF Root
    <3>3. \A i \in 1..k : i = Len(d) + 1 \/ i \in 1..Len(d)
      BY <1>1, <3>2
    <3>4. Len(d) + 1 # Len(p)
      BY <1>1, <3>1
    <3>5. QED
      BY <1>1, <3>1, <3>2, <3>3, <3>4
  <2>3. QED
    BY <2>1, <2>2
<1> HIDE DEF k, r
<1>3. ASSUME NEW c \in folder, Len(c) > k, Len(c) <= Len(p), \A i \in 1..Len(c) : c[i] = p[i],
             \A i \in 1..Len(c) : i > k => c[i] # "/"
      PROVE  c \in Inside(d)
  <2>1. c \in Seq(Chars) /\ Len(c) \in Nat
    BY FolderIs
  <2>2. SubSeq(c, 1, k) = r
    <3> DEFINE s == SubSeq(c, 1, k)
    <3>1. s \in Seq(Chars) /\ Len(s) = k /\ \A i \in 1..k : s[i] = c[i]
      BY <1>1, <1>3, <2>1
    <3> HIDE DEF s
    <3>2. \A i \in 1..k : i \in 1..Len(c)
      BY <1>1, <1>3, <2>1
    <3>3. \A i \in 1..k : s[i] = r[i]
      BY <1>2, <1>3, <3>1, <3>2
    <3>4. s = [i \in 1..k |-> s[i]] /\ r = [i \in 1..k |-> r[i]]
      BY <1>1, <3>1
    <3>5. QED
      BY <3>3, <3>4 DEF s
  <2>3. "/" \notin ToSet(SubSeq(c, k + 1, Len(c)))
    <3> DEFINE s == SubSeq(c, k + 1, Len(c))
    <3>1. /\ s \in Seq(Chars) /\ Len(s) = Len(c) - k
          /\ \A j \in 1..(Len(c) - k) : s[j] = c[k + j]
      BY <1>1, <1>3, <2>1
    <3> HIDE DEF s
    <3>2. \A j \in 1..(Len(c) - k) : k + j \in 1..Len(c) /\ k + j > k
      BY <1>1, <2>1
    <3>3. \A j \in DOMAIN s : s[j] # "/"
      BY <1>3, <3>1, <3>2
    <3>4. QED
      BY <3>3 DEF ToSet, s
  <2>4. c \in Here(r)
    BY <1>1, <1>3, <2>2, <2>3 DEF Here
  <2>5. QED
    BY <2>4 DEF Inside, r
<1>4. CASE Cuts = {}
  <2>1. \A i \in 1..Len(p) : i > k => p[i] # "/"
    BY <1>4
  <2>2. p \in Inside(d)
    BY <1>1, <1>2, <1>3, <2>1
  <2>3. QED
    BY <2>2
<1>5. CASE Cuts # {}
  <2>1. PICK i \in Cuts : \A j \in Cuts : i <= j
    <3>1. Cuts \in SUBSET Nat
      OBVIOUS
    <3> HIDE DEF Cuts
    <3>2. QED
      BY <1>5, <3>1, LeastNatural
  <2> DEFINE c == SubSeq(p, 1, i - 1)
  <2>2. i \in 1..Len(p) /\ i > k /\ p[i] = "/" /\ i \in Nat
    BY <1>1
  <2>3. \A j \in 1..Len(p) : j > k /\ p[j] = "/" => i <= j
    BY <2>1
  <2> HIDE DEF Cuts
  <2>4. /\ c \in folder /\ c \in Seq(Chars) /\ Len(c) = i - 1
        /\ \A j \in 1..(i - 1) : c[j] = p[j]
    <3>1. c \in folder
      BY <2>2, FolderIs
    <3>2. QED
      BY <1>1, <2>2, <3>1
  <2> HIDE DEF c
  <2>5. Len(c) > k
    <3> SUFFICES ASSUME i - 1 = k PROVE FALSE
      BY <1>1, <2>2, <2>4
    <3>1. Len(c) \in Nat \ {0} /\ c[Len(c)] # "/"
      BY <2>4, FolderIs
    <3>2. d # Root
      BY <2>4, <3>1 DEF k
    <3>3. k \in 1..k /\ c[k] = p[k]
      <4>1. k \in Nat \ {0}
        BY <1>1, <2>4, <3>1
      <4>2. k \in 1..(i - 1)
        BY <4>1
      <4>3. QED
        BY <2>4, <4>1, <4>2
    <3>4. QED
      BY <1>2, <2>4, <3>1, <3>2, <3>3
  <2>6. \A j \in 1..Len(c) : j > k => c[j] # "/"
    <3>1. \A j \in 1..(i - 1) : j \in 1..Len(p) /\ ~(i <= j)
      BY <1>1, <2>2
    <3>2. QED
      BY <2>3, <2>4, <3>1
  <2>7. c \in Inside(d)
    <3>1. Len(c) <= Len(p) /\ \A j \in 1..Len(c) : c[j] = p[j]
      BY <1>1, <2>2, <2>4
    <3>2. QED
      BY <1>3, <2>4, <2>5, <2>6, <3>1
  <2>8. Over(c, p)
    <3>1. Len(c) < Len(p) /\ Len(c) + 1 = i
      BY <1>1, <2>2, <2>4
    <3>2. QED
      BY <1>1, <2>2, <2>4, <3>1, OverIs
  <2>9. QED
    BY <2>7, <2>8
<1>6. QED
  BY <1>4, <1>5

(* The stack as a set.                                                     *)
LEMMA FrontOf ==
  ASSUME NEW E, NEW s \in Seq(E), s # <<>>, IsInjective(s)
  PROVE  /\ Front(s) \in Seq(E) /\ IsInjective(Front(s)) /\ Last(s) \in ToSet(s)
         /\ ToSet(Front(s)) = ToSet(s) \ {Last(s)}
<1> DEFINE n == Len(s)
<1>1. n \in Nat \ {0} /\ DOMAIN s = 1..n
  OBVIOUS
<1>2. /\ Front(s) \in Seq(E) /\ Len(Front(s)) = n - 1 /\ DOMAIN Front(s) = 1..(n - 1)
      /\ \A i \in 1..(n - 1) : Front(s)[i] = s[i]
  BY <1>1 DEF Front
<1>3. Last(s) = s[n] /\ n \in 1..n
  BY <1>1 DEF Last
<1> HIDE DEF n
<1>4. \A i \in 1..(n - 1) : i \in 1..n /\ i # n
  BY <1>1
<1>5. \A i \in 1..n : i = n \/ i \in 1..(n - 1)
  BY <1>1
<1>6. \A i, j \in 1..n : s[i] = s[j] => i = j
  BY <1>1 DEF IsInjective
<1>7. IsInjective(Front(s))
  BY <1>2, <1>4, <1>6 DEF IsInjective
<1>8. ToSet(Front(s)) = {s[i] : i \in 1..(n - 1)} /\ ToSet(s) = {s[i] : i \in 1..n}
  BY <1>1, <1>2 DEF ToSet
<1>9. {s[i] : i \in 1..(n - 1)} = {s[i] : i \in 1..n} \ {s[n]}
  BY <1>3, <1>4, <1>5, <1>6
<1>10. Last(s) \in ToSet(s)
  BY <1>3, <1>8
<1>11. QED
  BY <1>2, <1>3, <1>7, <1>8, <1>9, <1>10

LEMMA AppendOf ==
  ASSUME NEW E, NEW s \in Seq(E), IsInjective(s), NEW x \in E, x \notin ToSet(s)
  PROVE  /\ Append(s, x) \in Seq(E) /\ IsInjective(Append(s, x))
         /\ ToSet(Append(s, x)) = ToSet(s) \cup {x}
<1> DEFINE n == Len(s)
           t == Append(s, x)
<1>1. /\ n \in Nat /\ DOMAIN s = 1..n /\ t \in Seq(E) /\ DOMAIN t = 1..(n + 1)
      /\ t[n + 1] = x /\ \A i \in 1..n : t[i] = s[i]
  OBVIOUS
<1> HIDE DEF n, t
<1>2. /\ \A i \in 1..(n + 1) : i = n + 1 \/ i \in 1..n
      /\ n + 1 \in 1..(n + 1) /\ \A i \in 1..n : i \in 1..(n + 1)
  BY <1>1
<1>3. \A i \in 1..n : s[i] # x
  BY <1>1 DEF ToSet
<1>4. \A i, j \in 1..n : s[i] = s[j] => i = j
  BY <1>1 DEF IsInjective
<1>5. \A i, j \in 1..(n + 1) : t[i] = t[j] => i = j
  BY <1>1, <1>2, <1>3, <1>4
<1>6. ToSet(t) = ToSet(s) \cup {x}
  BY <1>1, <1>2 DEF ToSet
<1>7. QED
  BY <1>1, <1>5, <1>6 DEF IsInjective, t

(* What is in two of those to come is in one of them only.                 *)
LEMMA Removed ==
  ASSUME FolderIsTree, NEW open \in SUBSET (folder \cup {Root}),
         \A a, b \in open : ~Over(a, b), NEW x \in open, NEW f \in folder
  PROVE  Waits(f, open \ {x}) <=> Waits(f, open) /\ ~(f = x \/ Over(x, f))
<1>1. ASSUME NEW q \in open, q # x, q = f \/ Over(q, f) PROVE ~(f = x \/ Over(x, f))
  <2>1. q \in Seq(Chars) /\ x \in Seq(Chars) /\ f \in Seq(Chars)
    BY NodeIs
  <2>2. ~Over(q, x) /\ ~Over(x, q)
    OBVIOUS
  <2>3. Over(q, f) /\ Over(x, f) => q = x \/ Over(q, x) \/ Over(x, q)
    BY <2>1, OverOrder
  <2>4. QED
    BY <1>1, <2>2, <2>3
<1>2. QED
  BY <1>1 DEF Waits

LEMMA AboveIs ==
  ASSUME FolderIsTree, NEW q \in folder, NEW p
  PROVE  q \in Above(p) <=> Over(q, p)
<1>1. q # Root
  BY FolderIs
<1>2. QED
  BY <1>1 DEF Above, Over

LEMMA FilesAre ==
  ASSUME FolderIsTree, NEW f \in Files
  PROVE  /\ f \in folder /\ f # Root /\ Tree[f].kind = "file"
         /\ \A q \in folder : Over(q, f) => Tree[q].kind = "dir" /\ ~Tree[q].skip /\ ~Ignored(q)
BY AboveIs, FolderIs DEF Files, Reached

LEMMA WalkIs ==
  ASSUME FolderIsTree, NEW un, NEW st, Walk(un, st)
  PROVE  /\ ToCome(un, st) \in SUBSET (folder \cup {Root})
         /\ un \subseteq folder /\ ToSet(st) \in SUBSET (folder \cup {Root})
         /\ \A a, b \in ToCome(un, st) : ~Over(a, b)
<1>1. st \in Seq(folder \cup {Root}) /\ un \subseteq Reached /\ Reached \subseteq folder
  BY DEF Walk, Reached
<1>2. ToSet(st) \subseteq folder \cup {Root}
  BY <1>1 DEF ToSet
<1>3. QED
  BY <1>1, <1>2 DEF ToCome, Walk

(* A folder is read: what was in it waits for what is read of it.          *)
LEMMA PopWalks ==
  ASSUME FolderIsTree, Walk(unread, stack), Pop
  PROVE  /\ Walk(unread', stack')
         /\ Seen(Files, ToCome(unread', stack')) = Seen(Files, ToCome(unread, stack))
<1> DEFINE d == Last(stack)
           open == ToSet(stack)
           A == open \ {d}
           N == unread'
<1>1. /\ stack \in Seq(folder \cup {Root}) /\ IsInjective(stack) /\ stack # <<>> /\ unread = {}
      /\ \A q \in open : Entered(q)
      /\ stack' = Front(stack)
      /\ unread' = IF d # Root /\ Tree[d].kind = "locked" THEN {} ELSE Inside(d)
  BY DEF Walk, Pop
<1>2. /\ Front(stack) \in Seq(folder \cup {Root}) /\ IsInjective(Front(stack)) /\ d \in open
      /\ ToSet(stack') = A
  BY <1>1, FrontOf
<1>3. /\ open \in SUBSET (folder \cup {Root}) /\ \A a, b \in open : ~Over(a, b)
      /\ ToCome(unread, stack) = open
  BY <1>1, WalkIs DEF ToCome
<1>4. ToCome(unread', stack') = N \cup A
  BY <1>2 DEF ToCome
<1>5. /\ d \in folder \cup {Root} /\ Entered(d)
      /\ \A f \in Files : f # d
  <2>1. d \in folder \cup {Root} /\ Entered(d)
    BY <1>1, <1>2, <1>3
  <2>2. d = Root \/ Tree[d].kind # "file"
    BY <2>1 DEF Entered
  <2>3. QED
    BY <2>1, <2>2, FilesAre
<1> HIDE DEF d, open
<1>6. CASE d # Root /\ Tree[d].kind = "locked"
  <2>1. N = {}
    BY <1>1, <1>6
  <2>2. \A f \in Files : ~Over(d, f)
    BY <1>5, <1>6, FilesAre
  <2>3. \A f \in Files : Waits(f, open \ {d}) <=> Waits(f, open)
    BY <1>2, <1>3, <1>5, <2>2, FilesAre, Removed
  <2>4. Seen(Files, N \cup A) = Seen(Files, open)
    BY <2>1, <2>3 DEF Seen
  <2>5. Walk(unread', stack')
    BY <1>1, <1>2, <1>3, <1>4, <2>1 DEF Walk
  <2>6. QED
    BY <1>3, <1>4, <2>4, <2>5
<1>7. CASE ~(d # Root /\ Tree[d].kind = "locked")
  <2>1. N = Inside(d)
    BY <1>1, <1>7
  <2> HIDE DEF N
  <2>2. \A c \in N : /\ c \in folder /\ Over(d, c)
                     /\ \A q \in folder \cup {Root} : Over(q, c) => q = d \/ Over(q, d)
    BY <1>5, <2>1, ChildOf
  <2>3. \A x \in N \cup open : x \in folder \cup {Root} /\ x \in Seq(Chars)
    BY <1>3, <2>2, NodeIs
  <2>4. ASSUME NEW c \in N PROVE c \in Reached
    <3>1. ASSUME NEW q \in Above(c) PROVE Tree[q].kind = "dir" /\ ~Tree[q].skip /\ ~Ignored(q)
      <4>1. q \in folder /\ Over(q, c)
        BY <3>1, AboveIs DEF Above
      <4>2. CASE q = d
        <5>1. d # Root
          BY <4>1, <4>2, FolderIs
        <5>2. QED
          BY <1>5, <1>7, <4>2, <5>1 DEF Entered
      <4>3. CASE Over(q, d)
        <5>1. d # Root
          <6>1. ~Over(Root, Root) /\ Len(Root) = 0 /\ Len(q) \in Nat
            BY <4>1, FolderIs, NodeIs, OverOrder DEF Root
          <6>2. q # Root
            BY <4>1, FolderIs
          <6>3. QED
            BY <4>3, <6>1, <6>2 DEF Over
        <5>2. d \in Reached /\ q \in Above(d)
          BY <1>5, <4>1, <4>3, <5>1, AboveIs DEF Entered
        <5>3. QED
          BY <5>2 DEF Reached
      <4>4. QED
        BY <2>2, <4>1, <4>2, <4>3
    <3>2. QED
      BY <2>2, <3>1 DEF Reached
  <2>5. N \cap A = {}
    BY <1>2, <1>3, <2>2
  <2>6. ASSUME NEW x \in N \cup A, NEW y \in N \cup A PROVE ~Over(x, y)
    <3>1. /\ d \in Seq(Chars) /\ x \in Seq(Chars) /\ y \in Seq(Chars)
          /\ x \in folder \cup {Root} /\ d \in open
      BY <1>2, <2>3
    <3>2. CASE x \in A /\ y \in A
      BY <1>3, <3>2
    <3>3. CASE x \in N /\ y \in A
      <4>1. Over(d, x) /\ ~Over(d, y)
        BY <1>2, <1>3, <2>2, <3>3
      <4>2. QED
        BY <3>1, <4>1, OverOrder
    <3>4. CASE x \in A /\ y \in N
      <4>1. x # d /\ ~Over(x, d)
        BY <1>2, <1>3, <3>4
      <4>2. QED
        BY <2>2, <3>1, <3>4, <4>1
    <3>5. CASE x \in N /\ y \in N
      <4>1. Over(d, x) /\ ~Over(d, d) /\ (Over(x, y) => x = d \/ Over(x, d))
        BY <2>2, <3>1, <3>5, OverOrder
      <4>2. ~(Over(d, x) /\ Over(x, d))
        BY <3>1, <4>1, OverOrder
      <4>3. QED
        BY <4>1, <4>2
    <3>6. QED
      BY <3>2, <3>3, <3>4, <3>5
  <2>7. ASSUME NEW f \in Files PROVE Waits(f, N \cup A) <=> Waits(f, open)
    <3>1. f \in folder /\ f # d /\ f \in Seq(Chars) /\ d \in Seq(Chars)
      BY <1>2, <1>5, <2>3, FilesAre, FolderIs
    <3>2. ASSUME NEW c \in N, c = f \/ Over(c, f) PROVE Over(d, f)
      <4>1. Over(d, c) /\ c \in Seq(Chars)
        BY <2>2, <2>3
      <4>2. QED
        BY <3>1, <3>2, <4>1, OverOrder
    <3>3. Over(d, f) => \E c \in N : c = f \/ Over(c, f)
      BY <1>5, <2>1, <3>1, Descent
    <3>4. QED
      BY <1>2, <3>1, <3>2, <3>3 DEF Waits
  <2>8. Seen(Files, N \cup A) = Seen(Files, open)
    BY <2>7 DEF Seen
  <2>9. Walk(N, stack')
    <3>1. ToCome(N, stack') = N \cup A
      BY <1>2 DEF ToCome
    <3>2. N \subseteq Reached /\ \A q \in A : Entered(q)
      BY <1>1, <2>4 DEF open
    <3>3. QED
      BY <1>1, <1>2, <2>5, <2>6, <3>1, <3>2 DEF Walk
  <2>10. QED
    BY <1>3, <1>4, <2>8, <2>9 DEF N
<1>8. QED
  BY <1>6, <1>7

(* A folder is put on the stack: it waits there.                           *)
LEMMA ReadPushes ==
  ASSUME FolderIsTree, Walk(unread, stack), NEW p \in unread, Entered(p)
  PROVE  /\ Walk(unread \ {p}, Append(stack, p))
         /\ ToCome(unread \ {p}, Append(stack, p)) = ToCome(unread, stack)
<1>1. /\ stack \in Seq(folder \cup {Root}) /\ IsInjective(stack) /\ unread \cap ToSet(stack) = {}
      /\ p \in folder \cup {Root} /\ p \notin ToSet(stack)
  BY WalkIs DEF Walk
<1>2. /\ Append(stack, p) \in Seq(folder \cup {Root}) /\ IsInjective(Append(stack, p))
      /\ ToSet(Append(stack, p)) = ToSet(stack) \cup {p}
  BY <1>1, AppendOf
<1>3. ToCome(unread \ {p}, Append(stack, p)) = ToCome(unread, stack)
  BY <1>2 DEF ToCome
<1>4. QED
  BY <1>1, <1>2, <1>3 DEF Walk

(* Anything else is passed: if it is a file, it is seen, and nothing waits *)
(* in it.                                                                  *)
LEMMA ReadPasses ==
  ASSUME FolderIsTree, Walk(unread, stack), NEW p \in unread,
         ~(Tree[p].kind = "dir" /\ ~Tree[p].skip /\ ~Ignored(p)), NEW S \in SUBSET Files
  PROVE  /\ Walk(unread \ {p}, stack)
         /\ Seen(S, ToCome(unread \ {p}, stack)) = Seen(S, ToCome(unread, stack)) \cup (S \cap {p})
         /\ p \notin Seen(S, ToCome(unread, stack))
<1> DEFINE open == ToCome(unread, stack)
<1>1. /\ open \in SUBSET (folder \cup {Root}) /\ \A a, b \in open : ~Over(a, b)
      /\ p \in open /\ unread \cap ToSet(stack) = {}
  BY WalkIs DEF ToCome, Walk
<1>2. ToCome(unread \ {p}, stack) = open \ {p}
  BY <1>1 DEF ToCome
<1>3. Walk(unread \ {p}, stack)
  BY <1>1, <1>2 DEF Walk
<1> HIDE DEF open
<1>4. ASSUME NEW f \in S PROVE Waits(f, open \ {p}) <=> Waits(f, open) /\ f # p
  <2>1. f \in folder /\ p \in folder /\ f \in Files
    BY FilesAre, WalkIs
  <2>2. ~Over(p, f)
    BY <2>1, FilesAre
  <2>3. QED
    BY <1>1, <2>1, <2>2, Removed
<1>5. p \in S => Waits(p, open)
  BY <1>1 DEF Waits
<1>6. QED
  BY <1>2, <1>3, <1>4, <1>5 DEF Seen, open

-----------------------------------------------------------------------------
(* What the scan counts.                                                   *)

LEMMA BytesOfOneMore ==
  ASSUME FolderIsTree, NEW F \in SUBSET folder, NEW p \in folder, p \notin F
  PROVE  Bytes(F) \in Nat /\ Bytes(F \cup {p}) = Bytes(F) + Tree[p].bytes
<1> DEFINE f == [x \in F |-> Tree[x].bytes]
           g == [x \in F \cup {p} |-> Tree[x].bytes]
<1>1. IsFiniteSet(F) /\ \A x \in F \cup {p} : Tree[x].bytes \in Nat
  BY FolderIs, FS_Subset DEF Contents
<1>2. f \in [F -> Nat] /\ g \in [F \cup {p} -> Nat] /\ (\A s \in F : g[s] = f[s])
      /\ g[p] = Tree[p].bytes
  BY <1>1
<1>3. Bytes(F) = SumFunction(f) /\ Bytes(F \cup {p}) = SumFunction(g)
  BY DEF Bytes
<1> HIDE DEF f, g
<1>4. SumFunction(f) \in Nat /\ SumFunction(g) = g[p] + SumFunction(f)
  <2>1. IsFiniteSet(F) /\ p \notin F
    BY <1>1
  <2>2. SumsGrow(F, p)
    BY <2>1, SumOfOneMore
  <2>3. QED
    BY <1>2, <2>2 DEF SumsGrow
<1>5. QED
  BY <1>1, <1>2, <1>3, <1>4

LEMMA BumpIs ==
  ASSUME FolderIsTree, NEW F \in SUBSET folder, NEW p \in folder, p \notin F
  PROVE  Bump([l \in {Tree[x].language : x \in F} |-> Cardinality({x \in F : Tree[x].language = l})],
              Tree[p].language)
           = [l \in {Tree[x].language : x \in F \cup {p}} |->
                Cardinality({x \in F \cup {p} : Tree[x].language = l})]
<1> DEFINE lang == Tree[p].language
           D == {Tree[x].language : x \in F}
           Of(l) == {x \in F : Tree[x].language = l}
           counts == [l \in D |-> Cardinality(Of(l))]
<1>1. ASSUME NEW l PROVE /\ IsFiniteSet(Of(l)) /\ Cardinality(Of(l)) \in Nat
                         /\ l \notin D => Cardinality(Of(l)) = 0
  <2>1. Of(l) \in SUBSET folder /\ (l \notin D => Of(l) = {})
    OBVIOUS
  <2> HIDE DEF Of
  <2>2. IsFiniteSet(Of(l))
    BY <2>1, FolderIs, FS_Subset
  <2>3. QED
    BY <2>1, <2>2, FS_CardinalityType, FS_EmptySet
<1>2. ASSUME NEW l
      PROVE  Cardinality({x \in F \cup {p} : Tree[x].language = l})
               = Cardinality(Of(l)) + (IF l = lang THEN 1 ELSE 0)
  <2>1. CASE l = lang
    <3>1. {x \in F \cup {p} : Tree[x].language = l} = Of(l) \cup {p} /\ p \notin Of(l)
      BY <2>1
    <3> HIDE DEF Of
    <3>2. Cardinality(Of(l) \cup {p}) = Cardinality(Of(l)) + 1
      BY <1>1, <3>1, FS_AddElement
    <3>3. QED
      BY <2>1, <3>1, <3>2
  <2>2. CASE l # lang
    <3>1. {x \in F \cup {p} : Tree[x].language = l} = Of(l)
      BY <2>2
    <3> HIDE DEF Of, lang
    <3>2. Cardinality(Of(l)) + 0 = Cardinality(Of(l))
      BY <1>1
    <3>3. QED
      BY <2>2, <3>1, <3>2
  <2>3. QED
    BY <2>1, <2>2
<1>3. DOMAIN counts = D /\ {Tree[x].language : x \in F \cup {p}} = D \cup {lang}
  OBVIOUS
<1>4. ASSUME NEW l
      PROVE  (IF l \in D THEN counts[l] ELSE 0) + (IF l = lang THEN 1 ELSE 0)
               = Cardinality({x \in F \cup {p} : Tree[x].language = l})
  <2>1. (IF l \in D THEN counts[l] ELSE 0) = Cardinality(Of(l))
    <3>1. l \in D => counts[l] = Cardinality(Of(l))
      OBVIOUS
    <3> HIDE DEF Of, D, counts
    <3>2. QED
      BY <1>1, <3>1
  <2> HIDE DEF Of, D, counts
  <2>2. QED
    BY <1>2, <2>1
<1>5. Bump(counts, lang) = [l \in D \cup {lang} |->
                              Cardinality({x \in F \cup {p} : Tree[x].language = l})]
  <2>1. Bump(counts, lang) = [l \in D \cup {lang} |-> (IF l \in D THEN counts[l] ELSE 0)
                                                      + (IF l = lang THEN 1 ELSE 0)]
    BY <1>3 DEF Bump
  <2> HIDE DEF D, counts
  <2>2. QED
    BY <1>4, <2>1
<1>6. QED
  BY <1>3, <1>5

(* What a file that is in scope adds.                                      *)
LEMMA WithFileIs ==
  ASSUME NEW s, DOMAIN s = DOMAIN NoScan, NEW p, NEW f, NEW t,
         t = WithFile(WithManifest(s, f), p, f)
  PROVE  /\ DOMAIN t = DOMAIN NoScan /\ t.skipped = s.skipped /\ t.truncated = s.truncated
         /\ t.manifests = s.manifests \cup ({f.manifest} \ {"none"})
         /\ t.commands = s.commands \cup (IF f.manifest = "none" THEN {} ELSE Commands[f.manifest])
         /\ f.language = "none" =>
              /\ t.files = s.files /\ t.total_bytes = s.total_bytes
              /\ t.languages = s.languages /\ t.todos = s.todos
         /\ f.language # "none" =>
              /\ t.files = s.files \cup {p} /\ t.total_bytes = s.total_bytes + f.bytes
              /\ t.languages = Bump(s.languages, f.language)
              /\ t.todos \in {s.todos, Smaller(s.todos + f.todos, MaxTodos)}
<1> DEFINE m == WithManifest(s, f)
<1>1. /\ DOMAIN m = DOMAIN NoScan /\ m.skipped = s.skipped /\ m.truncated = s.truncated
      /\ m.files = s.files /\ m.total_bytes = s.total_bytes /\ m.languages = s.languages
      /\ m.todos = s.todos
      /\ m.manifests = s.manifests \cup ({f.manifest} \ {"none"})
      /\ m.commands = s.commands \cup (IF f.manifest = "none" THEN {} ELSE Commands[f.manifest])
  <2>1. CASE f.manifest = "none"
    BY <2>1 DEF WithManifest
  <2>2. CASE f.manifest # "none"
    <3>1. m = [s EXCEPT !.manifests = @ \cup {f.manifest}, !.commands = @ \cup Commands[f.manifest]]
      BY <2>2 DEF WithManifest
    <3> HIDE DEF m
    <3>2. QED
      BY <2>2, <3>1 DEF NoScan
  <2>3. QED
    BY <2>1, <2>2
<1>2. t = WithFile(m, p, f)
  OBVIOUS
<1> HIDE DEF m
<1>3. CASE f.language = "none"
  BY <1>1, <1>2, <1>3 DEF WithFile
<1>4. CASE f.language # "none"
  <2>1. t = [m EXCEPT !.files = @ \cup {p}, !.total_bytes = @ + f.bytes,
                      !.languages = Bump(@, f.language), !.todos = Todos(m, f)]
    BY <1>2, <1>4 DEF WithFile
  <2>2. /\ DOMAIN t = DOMAIN NoScan /\ t.skipped = m.skipped /\ t.truncated = m.truncated
        /\ t.manifests = m.manifests /\ t.commands = m.commands
        /\ t.files = m.files \cup {p} /\ t.total_bytes = m.total_bytes + f.bytes
        /\ t.languages = Bump(m.languages, f.language) /\ t.todos = Todos(m, f)
    BY <1>1, <2>1 DEF NoScan
  <2>3. Todos(m, f) \in {m.todos, Smaller(m.todos + f.todos, MaxTodos)}
    BY DEF Todos
  <2>4. QED
    BY <1>1, <1>4, <2>2, <2>3
<1>5. QED
  BY <1>3, <1>4


(* A file is read: it is counted as a secret, left to the rules, cut or    *)
(* found, and no longer waits.                                             *)
LEMMA ReadCounts ==
  ASSUME FolderIsTree, ScanHolds(unread, stack, found), NEW p \in unread, ReadFile(p)
  PROVE  ScanHolds(unread', stack', found')
<1> DEFINE open == ToCome(unread, stack)
           left == ToCome(unread \ {p}, stack)
           s == found
           t == found'
           f == Tree[p]
<1>1. /\ unread' = unread \ {p} /\ stack' = stack /\ f.kind = "file"
      /\ t = IF f.secret THEN [s EXCEPT !.skipped = @ + 1]
             ELSE IF Ignored(p) THEN s ELSE IF AtLimit THEN Cut(s)
             ELSE WithFile(WithManifest(s, f), p, f)
  BY DEF ReadFile, Read
<1>2. /\ Walk(unread, stack) /\ DOMAIN s = DOMAIN NoScan /\ Limits(s) /\ Accounts(s, open)
      /\ IsFiniteSet(folder)
  BY FolderIs DEF ScanHolds
<1>3. /\ p \in Reached /\ p \in folder /\ p \in Files /\ f \in Contents
  BY <1>1, <1>2, FolderIs DEF Walk, Reached, Files
<1>4. /\ {Code, Wanted, Secrets} \subseteq SUBSET Files /\ Files \subseteq folder
      /\ (p \in Secrets <=> f.secret) /\ (p \in Wanted <=> ~f.secret /\ ~Ignored(p))
      /\ (p \in Code <=> p \in Wanted /\ f.language # "none")
  BY <1>3 DEF Code, Wanted, Secrets, Files, Reached
<1>5. ASSUME NEW S \in {Code, Wanted, Secrets}
      PROVE  /\ Seen(S, left) = Seen(S, open) \cup (S \cap {p}) /\ p \notin Seen(S, open)
             /\ Seen(S, open) \in SUBSET folder
  <2>1. S \in SUBSET Files
    BY <1>4
  <2>2. Seen(S, open) \in SUBSET folder
    BY <1>4, <2>1 DEF Seen
  <2>3. QED
    BY <1>1, <1>2, <2>1, <2>2, ReadPasses
<1>6. Walk(unread \ {p}, stack)
  <2>1. Code \in SUBSET Files
    BY <1>4
  <2>2. QED
    BY <1>1, <1>2, <2>1, ReadPasses
<1>7. SUFFICES DOMAIN t = DOMAIN NoScan /\ Limits(t) /\ Accounts(t, left)
  BY <1>1, <1>6 DEF ScanHolds
<1> DEFINE code == Seen(Code, open)
           wanted == Seen(Wanted, open)
           secrets == Seen(Secrets, open)
           Same == /\ t.files = s.files /\ t.total_bytes = s.total_bytes /\ t.todos = s.todos
                   /\ t.languages = s.languages /\ t.manifests = s.manifests
                   /\ t.commands = s.commands /\ DOMAIN t = DOMAIN NoScan
<1>8. /\ s.files \subseteq code /\ s.skipped = Cardinality(secrets) /\ s.skipped \in Nat
      /\ ~s.truncated => /\ s.files = code
                         /\ s.manifests = {Tree[x].manifest : x \in wanted} \ {"none"}
      /\ code \in SUBSET folder /\ secrets \in SUBSET folder
  BY <1>2, <1>5 DEF Accounts, Limits
<1>9. Same /\ t.skipped \in Nat /\ t.truncated \in BOOLEAN => Limits(t)
  BY <1>2 DEF Limits
<1> HIDE DEF open, left, t, f
<1>10. CASE f.secret
  <2>1. t = [s EXCEPT !.skipped = @ + 1]
    BY <1>1, <1>10
  <2>2. Same /\ t.skipped = s.skipped + 1 /\ t.truncated = s.truncated
    BY <1>2, <2>1 DEF NoScan
  <2>3. /\ Seen(Code, left) = code /\ Seen(Wanted, left) = wanted
        /\ Seen(Secrets, left) = secrets \cup {p} /\ p \notin secrets
    BY <1>4, <1>5, <1>10
  <2>4. Cardinality(secrets \cup {p}) = Cardinality(secrets) + 1
    <3>1. IsFiniteSet(secrets)
      BY <1>2, <1>8, FS_Subset
    <3> HIDE DEF secrets
    <3>2. QED
      BY <2>3, <3>1, FS_AddElement
  <2>5. Limits(t)
    BY <1>2, <1>8, <1>9, <2>2 DEF Limits
  <2>6. Accounts(t, left)
    BY <1>8, <2>2, <2>3, <2>4 DEF Accounts
  <2>7. QED
    BY <2>2, <2>5, <2>6
<1>11. CASE ~f.secret /\ (Ignored(p) \/ AtLimit)
  <2>1. t = s \/ (t = Cut(s) /\ ~Ignored(p))
    BY <1>1, <1>11
  <2>2. Same /\ t.skipped = s.skipped /\ (t.truncated = s.truncated \/ t.truncated = TRUE)
    BY <1>2, <2>1 DEF NoScan, Cut
  <2>3. t.truncated \/ (Ignored(p) /\ t.truncated = s.truncated)
    BY <1>1, <1>2, <1>11, <2>1 DEF NoScan, Cut
  <2>4. /\ code \subseteq Seen(Code, left)
        /\ Ignored(p) => Seen(Code, left) = code /\ Seen(Wanted, left) = wanted
        /\ Seen(Secrets, left) = secrets
    BY <1>4, <1>5, <1>11
  <2>5. Limits(t)
    BY <1>2, <1>8, <1>9, <2>2 DEF Limits
  <2>6. Accounts(t, left)
    BY <1>8, <2>2, <2>3, <2>4 DEF Accounts
  <2>7. QED
    BY <2>2, <2>5, <2>6
<1>12. CASE ~f.secret /\ ~Ignored(p) /\ ~AtLimit
  <2>1. t = WithFile(WithManifest(s, f), p, f)
    BY <1>1, <1>12
  <2>2. /\ DOMAIN t = DOMAIN NoScan /\ t.skipped = s.skipped /\ t.truncated = s.truncated
        /\ t.manifests = s.manifests \cup ({f.manifest} \ {"none"})
        /\ t.commands = s.commands \cup (IF f.manifest = "none" THEN {} ELSE Commands[f.manifest])
        /\ f.language = "none" =>
             /\ t.files = s.files /\ t.total_bytes = s.total_bytes
             /\ t.languages = s.languages /\ t.todos = s.todos
        /\ f.language # "none" =>
             /\ t.files = s.files \cup {p} /\ t.total_bytes = s.total_bytes + f.bytes
             /\ t.languages = Bump(s.languages, f.language)
             /\ t.todos \in {s.todos, Smaller(s.todos + f.todos, MaxTodos)}
    BY <1>2, <2>1, WithFileIs
  <2>3. /\ Seen(Code, left) = IF f.language = "none" THEN code ELSE code \cup {p}
        /\ Seen(Wanted, left) = wanted \cup {p} /\ Seen(Secrets, left) = secrets
        /\ p \notin code
    BY <1>4, <1>5, <1>12
  <2>4. /\ t.manifests \subseteq DOMAIN Commands /\ IsFiniteSet(t.manifests)
        /\ IsFiniteSet(t.commands)
    <3>1. /\ s.manifests \subseteq DOMAIN Commands /\ IsFiniteSet(s.manifests)
          /\ IsFiniteSet(s.commands) /\ f.manifest \in DOMAIN Commands \cup {"none"}
      BY <1>2, <1>3 DEF Limits, Contents
    <3>2. IsFiniteSet({f.manifest} \ {"none"})
      BY FS_Singleton, FS_Subset
    <3>3. IsFiniteSet(IF f.manifest = "none" THEN {} ELSE Commands[f.manifest])
      BY <3>1, FS_EmptySet, ProjectAssumption
    <3>4. IsFiniteSet(t.manifests)
      <4>1. IsFiniteSet(s.manifests \cup ({f.manifest} \ {"none"}))
        BY <3>1, <3>2, FS_Union
      <4>2. QED
        BY <2>2, <4>1
    <3>5. IsFiniteSet(t.commands)
      <4> DEFINE more == IF f.manifest = "none" THEN {} ELSE Commands[f.manifest]
      <4> HIDE DEF more
      <4>1. IsFiniteSet(s.commands \cup more)
        BY <3>1, <3>3, FS_Union DEF more
      <4>2. QED
        BY <2>2, <4>1 DEF more
    <3>6. QED
      BY <2>2, <3>1, <3>4, <3>5
  <2>5. /\ t.manifests = s.manifests \cup ({f.manifest} \ {"none"})
        /\ {Tree[x].manifest : x \in wanted \cup {p}}
             = {Tree[x].manifest : x \in wanted} \cup {f.manifest}
    BY <2>2 DEF f
  <2>6. Accounts(t, left)
    BY <1>8, <2>2, <2>3, <2>5 DEF Accounts
  <2>7. CASE f.language = "none"
    <3>1. Limits(t)
      BY <1>2, <2>2, <2>4, <2>7 DEF Limits
    <3>2. QED
      BY <2>2, <2>6, <3>1
  <2>8. CASE f.language # "none"
    <3>1. s.files \in SUBSET folder /\ p \notin s.files /\ IsFiniteSet(s.files)
      BY <1>2, <1>8, <2>3, FS_Subset
    <3>2. /\ Cardinality(s.files) \in Nat /\ Cardinality(s.files) < MaxFiles
          /\ s.total_bytes < MaxTotalBytes /\ MaxFiles \in Nat /\ MaxTodos \in Nat
          /\ Cardinality(t.files) = Cardinality(s.files) + 1
      <4>1. Cardinality(s.files) \in Nat
        BY <3>1, FS_CardinalityType
      <4>2. Cardinality(s.files \cup {p}) = Cardinality(s.files) + 1
        BY <3>1, FS_AddElement
      <4>3. s.total_bytes \in Nat
        BY <1>2, <1>3, <3>1, BytesOfOneMore DEF Limits
      <4>4. MaxTotalBytes \in Nat /\ MaxFiles \in Nat /\ MaxTodos \in Nat
        BY ProjectAssumption
      <4>5. Cardinality(s.files) < MaxFiles /\ s.total_bytes < MaxTotalBytes
        BY <1>12, <4>1, <4>3, <4>4 DEF AtLimit
      <4>6. t.files = s.files \cup {p}
        BY <2>2, <2>8
      <4>7. QED
        BY <4>1, <4>2, <4>4, <4>5, <4>6
    <3>3. /\ t.total_bytes = Bytes(t.files)
          /\ p \in t.files /\ Bytes(t.files \ {p}) < MaxTotalBytes
      <4>1. Bytes(s.files \cup {p}) = Bytes(s.files) + f.bytes /\ s.total_bytes = Bytes(s.files)
        BY <1>2, <1>3, <3>1, BytesOfOneMore DEF Limits, f
      <4>2. t.files \ {p} = s.files
        BY <2>2, <2>8, <3>1
      <4>3. QED
        BY <2>2, <2>8, <3>2, <4>1, <4>2
    <3>4. t.languages = [l \in {Tree[x].language : x \in t.files} |->
                            Cardinality({x \in t.files : Tree[x].language = l})]
      <4>1. s.languages = [l \in {Tree[x].language : x \in s.files} |->
                               Cardinality({x \in s.files : Tree[x].language = l})]
        BY <1>2 DEF Limits
      <4>2. Bump([l \in {Tree[x].language : x \in s.files} |->
                    Cardinality({x \in s.files : Tree[x].language = l})], Tree[p].language)
              = [l \in {Tree[x].language : x \in s.files \cup {p}} |->
                    Cardinality({x \in s.files \cup {p} : Tree[x].language = l})]
        BY <1>3, <3>1, BumpIs
      <4>3. t.files = s.files \cup {p} /\ t.languages = Bump(s.languages, Tree[p].language)
        BY <2>2, <2>8 DEF f
      <4>4. QED
        BY <4>1, <4>2, <4>3
    <3>5. t.todos \in 0..MaxTodos
      BY <1>2, <1>3, <2>2, <2>8, <3>2 DEF Limits, Contents, Smaller
    <3>6. t.skipped \in Nat /\ t.truncated \in BOOLEAN
      BY <1>2, <2>2 DEF Limits
    <3>7. \E q \in t.files : Bytes(t.files \ {q}) < MaxTotalBytes
      BY <3>3
    <3>8. Cardinality(t.files) <= MaxFiles
      BY <3>2
    <3>9. Limits(t)
      BY <2>4, <3>3, <3>4, <3>5, <3>6, <3>7, <3>8 DEF Limits
    <3>10. QED
      BY <2>2, <2>6, <3>9
  <2>9. QED
    BY <2>7, <2>8
<1>13. QED
  BY <1>10, <1>11, <1>12

(* What was seen of the files decides what was seen of any of them.        *)
LEMMA AccountsAgain ==
  ASSUME FolderIsTree, NEW s, NEW open, NEW later, Seen(Files, later) = Seen(Files, open),
         Accounts(s, open)
  PROVE  Accounts(s, later)
<1>1. ASSUME NEW S \in SUBSET Files PROVE Seen(S, later) = Seen(S, open)
  <2>1. \A o : Seen(S, o) = S \cap Seen(Files, o)
    BY DEF Seen
  <2>2. QED
    BY <2>1
<1>2. {Code, Wanted, Secrets} \subseteq SUBSET Files
  BY DEF Code, Wanted, Secrets
<1>3. QED
  BY <1>1, <1>2 DEF Accounts

LEMMA ScanAgain ==
  ASSUME FolderIsTree, folder' = folder, ScanHolds(unread', stack', found'),
         at' \in {"scan", "done", "rules"}, at' = "done" => unread' = {} /\ stack' = <<>>
  PROVE  ScanInv'
<1>1. ScanHolds(unread, stack, found)' <=> ScanHolds(unread', stack', found')
  BY DEF ScanHolds, Walk, Limits, Accounts, Seen, Waits, ToCome, Entered, Reached, Above, Code,
         Wanted, Secrets, Files
<1>2. QED
  BY <1>1 DEF ScanInv, FolderIsTree

LEMMA ReadNoFile ==
  ASSUME FolderIsTree, ScanHolds(unread, stack, found), NEW p \in unread,
         ReadLink(p) \/ ReadDir(p)
  PROVE  ScanHolds(unread', stack', found')
<1>1. /\ Walk(unread, stack) /\ DOMAIN found = DOMAIN NoScan /\ Limits(found)
      /\ Accounts(found, ToCome(unread, stack)) /\ p \in folder /\ p \in Reached
  BY DEF ScanHolds, Walk, Reached
<1>2. unread' = unread \ {p} /\ found' = found
  BY DEF ReadLink, ReadDir, Read
<1>3. CASE /\ Tree[p].kind \in {"dir", "locked"} /\ ~Tree[p].skip /\ ~Ignored(p)
           /\ stack' = Append(stack, p)
  <2>1. Entered(p)
    BY <1>1, <1>3 DEF Entered
  <2>2. QED
    BY <1>1, <1>2, <1>3, <2>1, ReadPushes DEF ScanHolds
<1>4. CASE /\ Tree[p].kind # "file" /\ ~(Tree[p].kind = "dir" /\ ~Tree[p].skip /\ ~Ignored(p))
           /\ stack' = stack
  <2>1. Files \in SUBSET Files /\ p \notin Files
    BY <1>4 DEF Files
  <2>2. /\ Walk(unread \ {p}, stack)
        /\ Seen(Files, ToCome(unread \ {p}, stack)) = Seen(Files, ToCome(unread, stack))
    <3>1. /\ Walk(unread \ {p}, stack)
          /\ Seen(Files, ToCome(unread \ {p}, stack))
               = Seen(Files, ToCome(unread, stack)) \cup (Files \cap {p})
      BY <1>1, <1>4, <2>1, ReadPasses
    <3>2. Files \cap {p} = {}
      BY <2>1
    <3>3. QED
      BY <3>1, <3>2
  <2>3. QED
    BY <1>1, <1>2, <1>4, <2>2, AccountsAgain DEF ScanHolds
<1>5. QED
  BY <1>3, <1>4 DEF ReadLink, ReadDir

LEMMA StepScan == ScanInv /\ ProjectNext => ScanInv'
<1> SUFFICES ASSUME ScanInv, ProjectNext PROVE ScanInv'
  OBVIOUS
<1>1. /\ FolderIsTree /\ ScanHolds(unread, stack, found) /\ Walk(unread, stack)
      /\ at \in {"scan", "done", "rules"}
  BY DEF ScanInv, ScanHolds, FolderIsTree
<1>2. CASE Pop
  <2>1. found' = found /\ at' = "scan" /\ folder' = folder
    BY <1>2 DEF Pop
  <2>2. /\ Walk(unread', stack')
        /\ Seen(Files, ToCome(unread', stack')) = Seen(Files, ToCome(unread, stack))
    BY <1>1, <1>2, PopWalks
  <2>3. ScanHolds(unread', stack', found')
    BY <1>1, <2>1, <2>2, AccountsAgain DEF ScanHolds
  <2>4. QED
    BY <1>1, <2>1, <2>3, ScanAgain
<1>3. CASE ScanEnds
  BY <1>1, <1>3, ScanAgain DEF ScanEnds
<1>4. ASSUME NEW p \in unread, ReadLink(p) \/ ReadDir(p) \/ ReadFile(p) PROVE ScanInv'
  <2>1. folder' = folder /\ at' = "scan"
    BY <1>4 DEF ReadLink, ReadDir, ReadFile, Read
  <2>2. ScanHolds(unread', stack', found')
    BY <1>1, <1>4, ReadNoFile, ReadCounts
  <2>3. QED
    BY <1>1, <2>1, <2>2, ScanAgain
<1>5. QED
  BY <1>2, <1>3, <1>4 DEF ProjectNext

LEMMA InitScan == Init => ScanInv
<1> SUFFICES ASSUME Init PROVE ScanInv
  OBVIOUS
<1>1. /\ stack = <<Root>> /\ unread = {} /\ found = NoScan /\ at \in {"scan", "rules"}
      /\ folder \in Folders \cup {{}}
  <2>1. Start({"project"}, Folders) \subseteq Folders
    <3>1. Some(Folders) \subseteq Folders
      BY ProjectAssumption DEF Some
    <3>2. QED
      BY <3>1 DEF Start
  <2>2. ProjectFrom(Start({"project"}, Folders), IF focus = "project" THEN Names \X Patterns ELSE {})
    BY DEF Init
  <2>3. QED
    BY <2>1, <2>2 DEF ProjectFrom
<1>2. ToSet(<<Root>>) = {Root} /\ <<Root>> \in Seq(folder \cup {Root}) /\ IsInjective(<<Root>>)
  BY DEF ToSet, IsInjective
<1>3. ~Over(Root, Root)
  BY DEF Over, Root
<1>4. Walk({}, <<Root>>)
  BY <1>2, <1>3 DEF Walk, ToCome, Entered
<1>5. Limits(NoScan)
  <2>1. Bytes({}) = 0
    BY SumOfNothing DEF Bytes
  <2>2. <<>> = [l \in {Tree[p].language : p \in {}} |->
                  Cardinality({p \in {} : Tree[p].language = l})]
    OBVIOUS
  <2>3. Cardinality({}) = 0 /\ IsFiniteSet({})
    BY FS_EmptySet
  <2>4. MaxFiles \in Nat /\ MaxTodos \in Nat
    BY ProjectAssumption
  <2>5. /\ NoScan.files = {} /\ NoScan.total_bytes = 0 /\ NoScan.languages = <<>>
        /\ NoScan.manifests = {} /\ NoScan.commands = {} /\ NoScan.todos = 0
        /\ NoScan.skipped = 0 /\ NoScan.truncated = FALSE
    BY DEF NoScan
  <2>6. NoScan.languages = [l \in {Tree[p].language : p \in NoScan.files} |->
                              Cardinality({p \in NoScan.files : Tree[p].language = l})]
    BY <2>2, <2>5
  <2>7. /\ NoScan.todos \in 0..MaxTodos /\ NoScan.skipped \in Nat /\ NoScan.truncated \in BOOLEAN
        /\ Cardinality(NoScan.files) <= MaxFiles /\ NoScan.total_bytes = Bytes(NoScan.files)
        /\ NoScan.manifests \subseteq DOMAIN Commands /\ IsFiniteSet(NoScan.manifests)
        /\ IsFiniteSet(NoScan.commands)
    <3> DEFINE n == NoScan
    <3> HIDE DEF n
    <3>1. n.todos = 0 /\ n.skipped = 0 /\ n.truncated = FALSE
      BY <2>5 DEF n
    <3>2. n.files = {} /\ n.total_bytes = 0 /\ n.manifests = {} /\ n.commands = {}
      BY <2>5 DEF n
    <3>3. Cardinality(n.files) <= MaxFiles /\ n.total_bytes = Bytes(n.files)
      BY <2>1, <2>3, <2>4, <3>2
    <3>4. /\ n.manifests \subseteq DOMAIN Commands /\ IsFiniteSet(n.manifests)
          /\ IsFiniteSet(n.commands)
      BY <2>3, <3>2
    <3>5. n.todos \in 0..MaxTodos /\ n.skipped \in Nat
      BY <2>4, <3>1
    <3>6. n.truncated \in BOOLEAN
      BY <3>1, Zenon
    <3>7. QED
      BY <3>3, <3>4, <3>5, <3>6 DEF n
  <2>8. QED
    BY <2>5, <2>6, <2>7 DEF Limits
<1>6. Accounts(NoScan, ToCome({}, <<Root>>))
  <2>1. ASSUME NEW S \in {Code, Wanted, Secrets} PROVE Seen(S, {Root}) = {}
    <3>1. \A f \in S : f # Root
      <4>1. S \subseteq folder /\ FolderIsTree
        BY <1>1 DEF Code, Wanted, Secrets, Files, Reached, FolderIsTree
      <4>2. QED
        BY <4>1, FolderIs
    <3>2. QED
      BY <3>1 DEF Seen, Waits, Over
  <2>2. ToCome({}, <<Root>>) = {Root}
    BY <1>2 DEF ToCome
  <2>3. Cardinality({}) = 0
    BY FS_EmptySet
  <2>4. /\ NoScan.files = {} /\ NoScan.manifests = {} /\ NoScan.skipped = 0
        /\ NoScan.truncated = FALSE
    BY DEF NoScan
  <2>5. Seen(Code, {Root}) = {} /\ Seen(Wanted, {Root}) = {} /\ Seen(Secrets, {Root}) = {}
    BY <2>1
  <2>6. QED
    BY <2>2, <2>3, <2>4, <2>5 DEF Accounts
<1>7. QED
  BY <1>1, <1>4, <1>5, <1>6 DEF ScanInv, ScanHolds

LEMMA NextScan == ScanInv /\ [Next]_vars => ScanInv'
<1> SUFFICES ASSUME ScanInv, [Next]_vars PROVE ScanInv'
  OBVIOUS
<1>1. CASE UNCHANGED jvars
  BY <1>1, ScanAgain DEF jvars, ScanInv, FolderIsTree
<1>2. UNCHANGED jvars \/ ProjectNext
  BY DEF Next, vars, PlansStep, UsageStep, ProjectStep, SystemStep, PanelStep, SnapshotsStep,
     DiagnosisStep
<1>3. QED
  BY <1>1, <1>2, StepScan

(* The evidence of a scan is never refused: its items are finitely many    *)
(* and have identities of their own.                                       *)
LEMMA ProjectAccepted ==
  ASSUME NEW s, IsFiniteSet(DOMAIN s.languages), DOMAIN s.languages \subseteq Languages,
         IsFiniteSet(s.manifests), IsFiniteSet(s.commands), s.todos \in Nat
  PROVE  Bundle(OfProject(s), Minimal) # {}
<1> DEFINE Langs == {Item(<<"lang", Slug(l)>>, <<"lang", l>>, Minimal, "project") :
                        l \in DOMAIN s.languages}
           Of(k, n) == Items(k, n, Minimal, "project")
           secrets == IF s.skipped > 0 THEN 1 ELSE 0
           cut == IF s.truncated THEN 1 ELSE 0
           X == OfProject(s)
<1>1. /\ Cardinality(s.manifests) \in Nat /\ Cardinality(s.commands) \in Nat
      /\ secrets \in Nat /\ cut \in Nat /\ 3 \in Nat
  BY FS_CardinalityType
<1>2. X = Of("project", 3) \cup Langs \cup Of("manifest", Cardinality(s.manifests))
          \cup Of("command", Cardinality(s.commands)) \cup Of("todo", s.todos)
          \cup Of("secrets_skipped", secrets) \cup Of("truncated", cut)
  BY DEF OfProject
<1>3. IsFiniteSet(Langs)
  <2> DEFINE D == DOMAIN s.languages
             f == [l \in D |-> Item(<<"lang", Slug(l)>>, <<"lang", l>>, Minimal, "project")]
  <2>1. f \in Surjection(D, Langs)
    BY DEF Surjection
  <2> HIDE DEF f, Langs
  <2>2. QED
    BY <2>1, FS_Surjection
<1>4. ASSUME NEW k, NEW n \in Nat, NEW x \in Of(k, n)
      PROVE  \E i : x = Item(<<k, i>>, <<k, i>>, Minimal, "project")
  BY DEF Items
<1>5. \A k, n : n \in Nat => IsFiniteSet(Of(k, n))
  BY ItemsAreFinite
<1>6. \A x \in Langs : \E l \in Languages :
         x = Item(<<"lang", Slug(l)>>, <<"lang", l>>, Minimal, "project")
  OBVIOUS
<1> HIDE DEF Langs, Of, secrets, cut, X
<1>7. IsFiniteSet(X)
  BY <1>1, <1>2, <1>3, <1>5, FS_Union
<1>8. ASSUME NEW x \in X
      PROVE  \/ \E k \in {"project", "manifest", "command", "todo", "secrets_skipped", "truncated"} :
                   \E i : x = Item(<<k, i>>, <<k, i>>, Minimal, "project")
             \/ \E l \in Languages : x = Item(<<"lang", Slug(l)>>, <<"lang", l>>, Minimal, "project")
  <2> DEFINE Sorts == {"project", "manifest", "command", "todo", "secrets_skipped", "truncated"}
  <2>1. x \in Langs \/ \E k \in Sorts : \E n : n \in Nat /\ x \in Of(k, n)
    BY <1>1, <1>2
  <2>2. QED
    BY <1>4, <1>6, <2>1
<1>9. \A l, m \in Languages : Slug(l) = Slug(m) => l = m
  BY DEF Slug, Languages
<1>10. ASSUME NEW x \in X, NEW y \in X, x.id = y.id PROVE x = y
  BY <1>8, <1>9, <1>10 DEF Item
<1>11. ~Duplicated(X)
  BY <1>7, <1>10, NoneTwice
<1>12. ~Exceeds(X, Minimal)
  BY <1>8 DEF Exceeds, Item, Minimal
<1>13. ~Empty(X)
  <2>1. Item(<<"project", 1>>, <<"project", 1>>, Minimal, "project") \in Of("project", 3)
    BY DEF Of, Items
  <2>2. QED
    BY <1>2, <2>1 DEF Empty
<1>14. QED
  BY <1>11, <1>12, <1>13 DEF Bundle, X, Empty

(* Whatever the order in which the file system lists the files, a scan     *)
(* accounts for each of them: it finds it, counts it as a secret, leaves   *)
(* it to the rules or says that it cut something; the limits are overrun   *)
(* by one file at most, and what it found is evidence that is accepted.    *)
THEOREM ScansAccount == Spec => []ScanAccountsForFiles
<1>1. ScanInv => ScanAccountsForFiles
  <2> SUFFICES ASSUME ScanInv, at = "done" PROVE ScanAccountsForFiles
    BY DEF ScanAccountsForFiles
  <2> DEFINE s == found
             F == found.files
  <2>1. /\ FolderIsTree /\ ToCome(unread, stack) = {} /\ Limits(s) /\ Accounts(s, {})
    <3>1. unread = {} /\ stack = <<>>
      BY DEF ScanInv
    <3>2. ToSet(<<>>) = {}
      BY DEF ToSet
    <3>3. QED
      BY <3>1, <3>2 DEF ScanInv, ScanHolds, ToCome, FolderIsTree
  <2>2. \A S : Seen(S, {}) = S
    BY DEF Seen, Waits
  <2>3. /\ F \subseteq Code /\ s.skipped = Cardinality(Secrets)
        /\ ~s.truncated => /\ F = Code
                           /\ s.manifests = {Tree[p].manifest : p \in Wanted} \ {"none"}
    BY <2>1, <2>2 DEF Accounts
  <2>4. /\ IsFiniteSet(F) /\ F \subseteq folder
        /\ \A p \in F : Tree[p].language \in Languages
    <3>1. F \subseteq folder /\ \A p \in F : Tree[p].language # "none"
      BY <2>3 DEF Code, Wanted, Files, Reached
    <3>2. \A p \in F : Tree[p].language \in Languages
      BY <2>1, <3>1, FolderIs DEF Contents
    <3>3. QED
      BY <2>1, <3>1, <3>2, FolderIs, FS_Subset
  <2> DEFINE kind == [p \in F |-> Tree[p].language]
             L == {kind[p] : p \in F}
             count == [l \in L |-> Cardinality({p \in F : kind[p] = l})]
  <2>5. s.languages = count
    <3>1. /\ L = {Tree[p].language : p \in F}
          /\ \A l : {p \in F : kind[p] = l} = {p \in F : Tree[p].language = l}
      OBVIOUS
    <3>2. s.languages = [l \in {Tree[p].language : p \in F} |->
                            Cardinality({p \in F : Tree[p].language = l})]
      BY <2>1 DEF Limits
    <3>3. QED
      BY <3>1, <3>2
  <2>6. L \subseteq Languages
    BY <2>4
  <2>7. DOMAIN s.languages = L
    BY <2>5
  <2>8. IsFiniteSet(L)
    <3>1. kind \in Surjection(F, L)
      BY DEF Surjection
    <3> HIDE DEF kind, L
    <3>2. QED
      BY <2>4, <3>1, FS_Surjection
  <2> HIDE DEF kind
  <2>9. SumFunction(s.languages) = Cardinality(F)
    <3>1. IsFiniteSet(F) /\ L = {kind[p] : p \in F}
      BY <2>4
    <3>2. s.languages = [l \in L |-> Cardinality({p \in F : kind[p] = l})]
      BY <2>5
    <3> HIDE DEF L, s, F
    <3>3. QED
      BY <3>1, <3>2, SumOfParts
  <2>10. Bundle(OfProject(s), Minimal) # {}
    <3>1. s.todos \in Nat /\ IsFiniteSet(s.manifests) /\ IsFiniteSet(s.commands)
      BY <2>1, ProjectAssumption DEF Limits
    <3> HIDE DEF L
    <3>2. QED
      BY <2>6, <2>7, <2>8, <3>1, ProjectAccepted
  <2>11. /\ Cardinality(F) <= MaxFiles /\ s.total_bytes = Bytes(F)
         /\ F = {} \/ \E p \in F : Bytes(F \ {p}) < MaxTotalBytes
    BY <2>1 DEF Limits
  <2>12. QED
    BY <2>3, <2>9, <2>10, <2>11 DEF ScanAccountsForFiles, Secrets
<1>2. QED
  BY InitScan, NextScan, <1>1, PTL DEF Spec

-----------------------------------------------------------------------------
(* The ignore rules.                                                       *)

LEMMA SameSeq ==
  ASSUME NEW E, NEW s \in Seq(E), NEW t \in Seq(E), Len(s) = Len(t)
  PROVE  s = t <=> \A j \in 1..Len(s) : s[j] = t[j]
OBVIOUS

(* The pieces of a sequence lie between the places of c, all of them, in   *)
(* their order.                                                            *)
LEMMA EdgesOf ==
  ASSUME NEW C, NEW s \in Seq(C), NEW c, NEW K, K = Cardinality(PlacesOf(s, c))
  PROVE  /\ K \in Nat /\ Edge(s, c, 0) = 0 /\ Edge(s, c, K + 1) = Len(s) + 1
         /\ \A n \in 1..K : Edge(s, c, n) \in 1..Len(s) /\ s[Edge(s, c, n)] = c
         /\ \A n \in 1..K + 1 :
               /\ Edge(s, c, n - 1) \in 0..Len(s) /\ Edge(s, c, n) \in 1..Len(s) + 1
               /\ Edge(s, c, n - 1) < Edge(s, c, n)
               /\ \A j \in Edge(s, c, n - 1) + 1..Edge(s, c, n) - 1 : s[j] # c
<1> DEFINE P == PlacesOf(s, c)
           e(n) == Edge(s, c, n)
           L == Len(s)
<1>1. P \in SUBSET DOMAIN s /\ \A i \in P : s[i] = c
  BY DEF PlacesOf
<1>2. L \in Nat /\ DOMAIN s = 1..L
  OBVIOUS
<1> HIDE DEF P
<1>3. /\ K \in 0..L
      /\ \A n \in 1..K : Nth(P, n) \in P
      /\ \A i \in P : \E n \in 1..K : Nth(P, n) = i
      /\ \A m, n \in 1..K : m < n => Nth(P, m) < Nth(P, n)
  <2>1. /\ Len(Select(s, P)) = Cardinality(P) /\ Cardinality(P) \in 0..L
        /\ Select(s, P) \in Seq(C)
        /\ \A n \in DOMAIN Select(s, P) : Nth(P, n) \in P
        /\ \A i \in P : \E n \in DOMAIN Select(s, P) : Nth(P, n) = i
        /\ \A m, n \in DOMAIN Select(s, P) : m < n => Nth(P, m) < Nth(P, n)
    BY <1>1, SelectKeeps
  <2>2. DOMAIN Select(s, P) = 1..K /\ K = Cardinality(P)
    BY <2>1 DEF P
  <2>3. QED
    BY <2>1, <2>2
<1>4. K \in Nat /\ K = Cardinality(P)
  BY <1>2, <1>3 DEF P
<1>5. e(0) = 0 /\ e(K + 1) = L + 1 /\ \A n \in 1..K : e(n) = Nth(P, n)
  BY <1>4 DEF Edge, P
<1> HIDE DEF e, L
<1>6. \A n \in 1..K : e(n) \in P /\ e(n) \in 1..L /\ s[e(n)] = c
  BY <1>1, <1>2, <1>3, <1>5
<1>7. ASSUME NEW n \in 1..K + 1
      PROVE  /\ e(n - 1) \in 0..L /\ e(n) \in 1..L + 1 /\ e(n - 1) < e(n)
             /\ \A j \in e(n - 1) + 1..e(n) - 1 : s[j] # c
  <2>1. n = 1 \/ n - 1 \in 1..K
    BY <1>4
  <2>2. n = K + 1 \/ n \in 1..K
    BY <1>4
  <2>3. e(n - 1) \in 0..L /\ e(n) \in 1..L + 1
    BY <1>2, <1>4, <1>5, <1>6, <2>1, <2>2
  <2>4. e(n - 1) < e(n)
    <3>1. CASE n = 1
      BY <1>4, <1>5, <2>3, <3>1
    <3>2. CASE n - 1 \in 1..K /\ n = K + 1
      BY <1>2, <1>5, <1>6, <3>2
    <3>3. CASE n - 1 \in 1..K /\ n \in 1..K
      BY <1>3, <1>4, <1>5, <3>3
    <3>4. QED
      BY <2>1, <2>2, <3>1, <3>2, <3>3
  <2>5. ASSUME NEW j \in e(n - 1) + 1..e(n) - 1, s[j] = c PROVE FALSE
    <3>1. j \in 1..L /\ e(n - 1) < j /\ j < e(n)
      BY <1>2, <2>3
    <3>2. j \in P
      BY <1>2, <2>5, <3>1 DEF P, PlacesOf
    <3>3. PICK m \in 1..K : e(m) = j
      BY <1>3, <1>5, <3>2
    <3>4. m < n /\ ~(m < n - 1) /\ m # n - 1
      <4>1. ASSUME m >= n PROVE FALSE
        <5>1. m = n \/ (n \in 1..K /\ n < m)
          BY <1>4, <4>1
        <5>2. n \in 1..K /\ n < m => e(n) < e(m)
          BY <1>3, <1>5
        <5>3. QED
          BY <1>2, <2>3, <3>1, <3>3, <5>1, <5>2
      <4>2. ASSUME m < n - 1 PROVE FALSE
        <5>1. n - 1 \in 1..K
          BY <1>4, <4>2
        <5>2. e(m) < e(n - 1)
          BY <1>3, <1>5, <4>2, <5>1
        <5>3. QED
          BY <1>2, <2>3, <3>1, <3>3, <5>2
      <4>3. m # n - 1
        BY <1>2, <2>3, <3>1, <3>3
      <4>4. QED
        BY <1>4, <4>1, <4>2, <4>3
    <3>5. QED
      BY <1>4, <3>4
  <2>6. QED
    BY <2>3, <2>4, <2>5
<1>8. QED
  BY <1>4, <1>5, <1>6, <1>7 DEF e, L

(* The recursion of Means, by name.                                        *)
IsEnds(name, pat, letters, f) ==
    f = [j \in 0..Len(pat) |->
          IF j = 0 THEN {0}
          ELSE IF pat[j] = "*"
               THEN {i \in 0..Len(name) : \E k \in f[j - 1] : Covers(name, k, i, letters)}
          ELSE {i \in 1..Len(name) : name[i] = pat[j] /\ i - 1 \in f[j - 1]}]
Ends(name, pat, letters) == CHOOSE f : IsEnds(name, pat, letters, f)

LEMMA MeansIs ==
  ASSUME NEW name, NEW pat, NEW letters
  PROVE  Means(name, pat, letters) <=> Len(name) \in Ends(name, pat, letters)[Len(pat)]
BY DEF Means, Ends, IsEnds

LEMMA EndsExist ==
  ASSUME NEW C, NEW name \in Seq(C), NEW pat \in Seq(C), NEW letters
  PROVE  IsEnds(name, pat, letters, Ends(name, pat, letters))
<1> DEFINE L == Len(name)
           P == Len(pat)
           V == SUBSET (0..L)
           After(j, v) ==
              IF pat[j] = "*"
              THEN {i \in 0..L : \E k \in v : Covers(name, k, i, letters)}
              ELSE {i \in 1..L : name[i] = pat[j] /\ i - 1 \in v}
           step == [j \in 1..P |-> [v \in V |-> After(j, v)]]
<1>1. L \in Nat /\ P \in Nat
  OBVIOUS
<1>2. {0} \in V /\ \A j \in 1..P : \A v \in V : step[j][v] \in V /\ step[j][v] = After(j, v)
  <2>1. \A j \in 1..P : \A v \in V : After(j, v) \in V
    BY <1>1
  <2>2. \A j \in 1..P : \A v \in V : step[j][v] = After(j, v)
    OBVIOUS
  <2>3. {0} \in V
    BY <1>1
  <2> HIDE DEF After, V, step
  <2>4. QED
    BY <2>1, <2>2, <2>3
<1>3. PICK f : IsChain(P, V, {0}, step, f)
  <2> HIDE DEF V, step, P
  <2>1. QED
    BY <1>1, <1>2, ChainExists
<1>4. f \in [0..P -> V] /\ f[0] = {0} /\ \A j \in 1..P : f[j] = After(j, f[j - 1])
  <2>1. f \in [0..P -> V] /\ f[0] = {0} /\ \A j \in 1..P : f[j] = step[j][f[j - 1]]
    BY <1>3 DEF IsChain
  <2> HIDE DEF V, step, After
  <2>2. \A j \in 1..P : f[j - 1] \in V
    BY <1>1, <2>1
  <2>3. QED
    BY <1>2, <2>1, <2>2
<1>5. f = [j \in 0..P |-> IF j = 0 THEN {0} ELSE After(j, f[j - 1])]
  <2> HIDE DEF V, After
  <2>1. \A j \in 0..P : j = 0 \/ j \in 1..P
    BY <1>1
  <2>2. \A j \in 0..P : f[j] = IF j = 0 THEN {0} ELSE After(j, f[j - 1])
    BY <1>4, <2>1
  <2>3. QED
    BY <1>4, <2>2
<1>6. IsEnds(name, pat, letters, f)
  BY <1>5 DEF IsEnds
<1>7. QED
  BY <1>6 DEF Ends

(* What stars and letters do to them.                                      *)
AreEndsOver(name, pat, letters, E) ==
    /\ E \in [0..Len(pat) -> SUBSET (0..Len(name))] /\ E[0] = {0}
    /\ \A j \in 1..Len(pat), i \in 0..Len(name) :
          IF pat[j] = "*" THEN i \in E[j] <=> \E k \in E[j - 1] : Covers(name, k, i, letters)
          ELSE i \in E[j] <=> i > 0 /\ name[i] = pat[j] /\ i - 1 \in E[j - 1]

LEMMA EndsAre ==
  ASSUME NEW C, NEW name \in Seq(C), NEW pat \in Seq(C), NEW letters
  PROVE  AreEndsOver(name, pat, letters, Ends(name, pat, letters))
<1> DEFINE L == Len(name)
           P == Len(pat)
           E == Ends(name, pat, letters)
<1>1. L \in Nat /\ P \in Nat
  OBVIOUS
<1>2. E = [j \in 0..P |->
          IF j = 0 THEN {0}
          ELSE IF pat[j] = "*"
               THEN {i \in 0..L : \E k \in E[j - 1] : Covers(name, k, i, letters)}
          ELSE {i \in 1..L : name[i] = pat[j] /\ i - 1 \in E[j - 1]}]
  BY EndsExist DEF IsEnds
<1> HIDE DEF L, P, E
<1>3. E[0] = {0}
  BY <1>1, <1>2
<1>4. ASSUME NEW j \in 1..P
      PROVE  E[j] = IF pat[j] = "*" THEN {i \in 0..L : \E k \in E[j - 1] : Covers(name, k, i, letters)}
                    ELSE {i \in 1..L : name[i] = pat[j] /\ i - 1 \in E[j - 1]}
  <2>1. j \in 0..P /\ j # 0
    BY <1>1
  <2>2. QED
    BY <1>2, <2>1
<1>5. E \in [0..P -> SUBSET (0..L)]
  <2>1. \A j \in 0..P : j = 0 \/ j \in 1..P
    BY <1>1
  <2>2. ASSUME NEW j \in 1..P PROVE E[j] \in SUBSET (0..L)
    <3>1. CASE pat[j] = "*"
      <4>1. E[j] = {i \in 0..L : \E k \in E[j - 1] : Covers(name, k, i, letters)}
        BY <1>4, <3>1
      <4>2. QED
        BY <4>1
    <3>2. CASE pat[j] # "*"
      <4>1. E[j] = {i \in 1..L : name[i] = pat[j] /\ i - 1 \in E[j - 1]}
        BY <1>4, <3>2
      <4>2. QED
        BY <1>1, <4>1
    <3>3. QED
      BY <3>1, <3>2
  <2>3. {0} \in SUBSET (0..L)
    BY <1>1
  <2>4. \A j \in 0..P : E[j] \in SUBSET (0..L)
    BY <1>3, <2>1, <2>2, <2>3
  <2>5. DOMAIN E = 0..P
    BY <1>2
  <2>6. E = [j \in DOMAIN E |-> E[j]]
    BY <1>2
  <2>7. QED
    BY <2>4, <2>5, <2>6
<1>6. ASSUME NEW j \in 1..P, NEW i \in 0..L
      PROVE  IF pat[j] = "*" THEN i \in E[j] <=> \E k \in E[j - 1] : Covers(name, k, i, letters)
             ELSE i \in E[j] <=> i > 0 /\ name[i] = pat[j] /\ i - 1 \in E[j - 1]
  <2>1. CASE pat[j] = "*"
    <3>1. E[j] = {h \in 0..L : \E k \in E[j - 1] : Covers(name, k, h, letters)}
      BY <1>4, <2>1
    <3>2. i \in E[j] <=> \E k \in E[j - 1] : Covers(name, k, i, letters)
      BY <3>1
    <3>3. QED
      BY <2>1, <3>2
  <2>2. CASE pat[j] # "*"
    <3>1. E[j] = {h \in 1..L : name[h] = pat[j] /\ h - 1 \in E[j - 1]}
      BY <1>4, <2>2
    <3>2. i \in 1..L <=> i > 0
      BY <1>1
    <3>3. i \in E[j] <=> i \in 1..L /\ name[i] = pat[j] /\ i - 1 \in E[j - 1]
      BY <3>1
    <3>4. QED
      BY <2>2, <3>2, <3>3
  <2>3. QED
    BY <2>1, <2>2
<1>7. QED
  BY <1>3, <1>5, <1>6 DEF AreEndsOver, L, P, E

(* A star that may run over every letter of the name needs only room.      *)
AreEnds(name, pat, E) ==
    /\ E \in [0..Len(pat) -> SUBSET (0..Len(name))] /\ E[0] = {0}
    /\ \A j \in 1..Len(pat), i \in 0..Len(name) :
          IF pat[j] = "*" THEN i \in E[j] <=> \E k \in E[j - 1] : k <= i
          ELSE i \in E[j] <=> i > 0 /\ name[i] = pat[j] /\ i - 1 \in E[j - 1]

LEMMA RoomIsEnough ==
  ASSUME NEW C, NEW name \in Seq(C), NEW i \in 0..Len(name), NEW k \in 0..Len(name)
  PROVE  Covers(name, k, i, ToSet(name)) <=> k <= i
<1>1. \A x \in k + 1..i : x \in 1..Len(name)
  OBVIOUS
<1>2. \A x \in 1..Len(name) : name[x] \in ToSet(name)
  BY DEF ToSet
<1>3. QED
  BY <1>1, <1>2 DEF Covers

LEMMA AnyEndsAre ==
  ASSUME NEW C, NEW name \in Seq(C), NEW pat \in Seq(C)
  PROVE  AreEnds(name, pat, Ends(name, pat, ToSet(name)))
<1> DEFINE L == Len(name)
           P == Len(pat)
           E == Ends(name, pat, ToSet(name))
<1>1. AreEndsOver(name, pat, ToSet(name), E)
  BY EndsAre
<1>2. L \in Nat /\ P \in Nat
  OBVIOUS
<1> HIDE DEF E
<1>3. /\ E \in [0..P -> SUBSET (0..L)] /\ E[0] = {0}
      /\ \A j \in 1..P, i \in 0..L :
            IF pat[j] = "*" THEN i \in E[j] <=> \E k \in E[j - 1] : Covers(name, k, i, ToSet(name))
            ELSE i \in E[j] <=> i > 0 /\ name[i] = pat[j] /\ i - 1 \in E[j - 1]
  BY <1>1 DEF AreEndsOver
<1>4. \A i, k \in 0..L : Covers(name, k, i, ToSet(name)) <=> k <= i
  BY RoomIsEnough
<1> HIDE DEF L, P
<1>5. ASSUME NEW j \in 1..P, NEW i \in 0..L
      PROVE  (\E k \in E[j - 1] : Covers(name, k, i, ToSet(name))) <=> \E k \in E[j - 1] : k <= i
  <2>1. j - 1 \in 0..P
    BY <1>2
  <2>2. E[j - 1] \in SUBSET (0..L)
    BY <1>3, <2>1
  <2>3. QED
    BY <1>4, <2>2
<1>6. \A j \in 1..P, i \in 0..L :
         IF pat[j] = "*" THEN i \in E[j] <=> \E k \in E[j - 1] : k <= i
         ELSE i \in E[j] <=> i > 0 /\ name[i] = pat[j] /\ i - 1 \in E[j - 1]
  BY <1>3, <1>5
<1>7. QED
  BY <1>3, <1>6 DEF AreEnds, E, L, P

(* With fewer letters for its stars a pattern means fewer names.           *)
LEMMA FewerLetters ==
  ASSUME NEW C, NEW name \in Seq(C), NEW pat \in Seq(C), NEW letters,
         Means(name, pat, letters)
  PROVE  Means(name, pat, ToSet(name))
<1> DEFINE L == Len(name)
           P == Len(pat)
           F == Ends(name, pat, letters)
           E == Ends(name, pat, ToSet(name))
           Good == {j \in 0..P : F[j] \subseteq E[j]}
<1>1. L \in Nat /\ P \in Nat
  OBVIOUS
<1>2. AreEndsOver(name, pat, letters, F) /\ AreEnds(name, pat, E)
  BY EndsAre, AnyEndsAre
<1>3. L \in F[P]
  BY MeansIs
<1>4. L \in E[P] => Means(name, pat, ToSet(name))
  BY MeansIs
<1> HIDE DEF E, F
<1>5. /\ F \in [0..P -> SUBSET (0..L)] /\ F[0] = {0} /\ E[0] = {0}
      /\ \A j \in 1..P, i \in 0..L :
            /\ IF pat[j] = "*" THEN i \in F[j] <=> \E k \in F[j - 1] : Covers(name, k, i, letters)
               ELSE i \in F[j] <=> i > 0 /\ name[i] = pat[j] /\ i - 1 \in F[j - 1]
            /\ IF pat[j] = "*" THEN i \in E[j] <=> \E k \in E[j - 1] : k <= i
               ELSE i \in E[j] <=> i > 0 /\ name[i] = pat[j] /\ i - 1 \in E[j - 1]
  BY <1>2 DEF AreEndsOver, AreEnds
<1>6. \A k, i : Covers(name, k, i, letters) => k <= i
  BY DEF Covers
<1> HIDE DEF L, P
<1>7. 0 \in Good
  BY <1>1, <1>5
<1>8. ASSUME NEW j \in 1..P, j - 1 \in Good PROVE j \in Good
  <2>1. F[j - 1] \subseteq E[j - 1] /\ j \in 0..P
    BY <1>1, <1>8
  <2>2. ASSUME NEW i \in 0..L, i \in F[j] PROVE i \in E[j]
    <3>1. CASE pat[j] = "*"
      BY <1>5, <1>6, <2>1, <2>2, <3>1
    <3>2. CASE pat[j] # "*"
      BY <1>5, <2>1, <2>2, <3>2
    <3>3. QED
      BY <3>1, <3>2
  <2>3. F[j] \in SUBSET (0..L)
    BY <1>5, <2>1
  <2>4. QED
    BY <2>1, <2>2, <2>3
<1> HIDE DEF Good
<1>9. P \in Good
  <2>1. \A j \in 0..P : j \in Good
    BY <1>1, <1>7, <1>8, CountUp
  <2>2. QED
    BY <1>1, <2>1
<1>10. QED
  BY <1>3, <1>4, <1>9 DEF Good

(* Letters one after the other move every end by as many places.           *)
Moved(name, pat, E, q, n) ==
    \A i \in 0..Len(name) :
       i \in E[q + n] <=> i - n \in E[q] /\ \A h \in 1..n : name[i - n + h] = pat[q + h]

LEMMA LettersMove ==
  ASSUME NEW C, NEW name \in Seq(C), NEW pat \in Seq(C), NEW E, AreEnds(name, pat, E),
         NEW q \in 0..Len(pat), NEW n \in Nat, q + n <= Len(pat),
         \A j \in q + 1..q + n : pat[j] # "*"
  PROVE  Moved(name, pat, E, q, n)
<1> DEFINE L == Len(name)
           P == Len(pat)
           Right(d, i) == i - d \in E[q] /\ \A h \in 1..d : name[i - d + h] = pat[q + h]
           Good == {d \in 0..n : \A i \in 0..L : i \in E[q + d] <=> Right(d, i)}
<1>1. /\ L \in Nat /\ P \in Nat /\ q \in 0..P /\ q + n <= P
      /\ E \in [0..P -> SUBSET (0..L)]
      /\ \A j \in 1..P, i \in 0..L :
            IF pat[j] = "*" THEN i \in E[j] <=> \E k \in E[j - 1] : k <= i
            ELSE i \in E[j] <=> i > 0 /\ name[i] = pat[j] /\ i - 1 \in E[j - 1]
  BY DEF AreEnds
<1> HIDE DEF L, P
<1>2. 0 \in Good
  <2>1. \A i \in 0..L : i - 0 = i /\ q + 0 = q
    BY <1>1
  <2>2. \A i \in 0..L : i \in E[q + 0] <=> Right(0, i)
    BY <2>1
  <2>3. 0 \in 0..n
    OBVIOUS
  <2> HIDE DEF Right
  <2>4. QED
    BY <2>2, <2>3
<1>3. ASSUME NEW d \in 1..n, d - 1 \in Good PROVE d \in Good
  <2>1. q + d \in 1..P /\ q + d - 1 = q + (d - 1) /\ pat[q + d] # "*" /\ q + d - 1 \in 0..P
    BY <1>1
  <2>2. ASSUME NEW i \in 0..L PROVE i \in E[q + d] <=> Right(d, i)
    <3>1. i \in E[q + d] <=> i > 0 /\ name[i] = pat[q + d] /\ i - 1 \in E[q + (d - 1)]
      BY <1>1, <2>1
    <3>2. i > 0 => i - 1 \in 0..L /\ (i - 1 \in E[q + (d - 1)] <=> Right(d - 1, i - 1))
      <4> HIDE DEF Right
      <4>1. i > 0 => i - 1 \in 0..L
        BY <1>1
      <4>2. QED
        BY <1>3, <4>1
    <3>3. i - 1 - (d - 1) = i - d
      BY <1>1
    <3>4. Right(d - 1, i - 1) <=> i - d \in E[q]
             /\ \A h \in 1..d - 1 : name[i - d + h] = pat[q + h]
      BY <3>3
    <3>5. Right(d, i) => i > 0
      <4>1. E[q] \in SUBSET (0..L)
        BY <1>1
      <4>2. QED
        BY <1>1, <4>1
    <3>6. (\A h \in 1..d : name[i - d + h] = pat[q + h])
             <=> name[i] = pat[q + d] /\ \A h \in 1..d - 1 : name[i - d + h] = pat[q + h]
      <4>1. d \in 1..d /\ i - d + d = i
        BY <1>1
      <4>2. \A h \in 1..d : h = d \/ h \in 1..d - 1
        OBVIOUS
      <4>3. \A h \in 1..d - 1 : h \in 1..d
        OBVIOUS
      <4>4. QED
        BY <4>1, <4>2, <4>3
    <3>7. QED
      BY <3>1, <3>2, <3>4, <3>5, <3>6
  <2> HIDE DEF Right
  <2>3. QED
    BY <2>2
<1>4. n \in 0..n
  OBVIOUS
<1>5. n \in Good
  <2> HIDE DEF Good
  <2>1. QED
    BY <1>2, <1>3, <1>4, CountUp
<1>6. QED
  BY <1>5 DEF L, Moved

(* The pieces are sequences.                                               *)
LEMMA SplitIs ==
  ASSUME NEW C, NEW s \in Seq(C), NEW c, NEW K, K = Cardinality(PlacesOf(s, c))
  PROVE  /\ Split(s, c) \in Seq(Seq(C)) /\ Len(Split(s, c)) = K + 1
         /\ \A n \in 1..K + 1 :
               /\ Split(s, c)[n] = SubSeq(s, Edge(s, c, n - 1) + 1, Edge(s, c, n) - 1)
               /\ Split(s, c)[n] \in Seq(C)
<1> DEFINE piece(n) == SubSeq(s, Edge(s, c, n - 1) + 1, Edge(s, c, n) - 1)
<1>1. K \in Nat
  BY EdgesOf
<1>2. ASSUME NEW n \in 1..K + 1 PROVE piece(n) \in Seq(C)
  <2> DEFINE lo == Edge(s, c, n - 1)
             hi == Edge(s, c, n)
  <2>1. lo \in 0..Len(s) /\ hi \in 1..Len(s) + 1 /\ lo < hi
    BY EdgesOf
  <2> HIDE DEF lo, hi
  <2>2. lo \in Nat /\ hi - 1 \in Nat /\ lo <= hi - 1 /\ hi - 1 <= Len(s)
    BY <2>1
  <2>3. SubSeq(s, lo + 1, hi - 1) \in Seq(C)
    BY <2>2, SubSeqIs
  <2>4. QED
    BY <2>3 DEF lo, hi
<1>3. Split(s, c) = [n \in 1..K + 1 |-> piece(n)]
  BY DEF Split
<1> HIDE DEF piece
<1>4. /\ Split(s, c) \in Seq(Seq(C)) /\ Len(Split(s, c)) = K + 1
      /\ \A n \in 1..K + 1 : Split(s, c)[n] = piece(n)
  BY <1>1, <1>2, <1>3
<1>5. QED
  BY <1>2, <1>4 DEF piece

(* The n-th piece of a pattern, and what it does to the ends.              *)
LEMMA PieceMoves ==
  ASSUME NEW C, NEW name \in Seq(C), NEW pat \in Seq(C), NEW E, AreEnds(name, pat, E),
         NEW K, K = Cardinality(PlacesOf(pat, "*")), NEW n \in 1..K + 1
  PROVE  LET w == Split(pat, "*")[n] IN
         /\ w \in Seq(C) /\ Len(w) = Edge(pat, "*", n) - 1 - Edge(pat, "*", n - 1)
         /\ \A i \in 0..Len(name) :
               i \in E[Edge(pat, "*", n) - 1] <=>
                  i - Len(w) \in E[Edge(pat, "*", n - 1)] /\ Occurs(w, name, i - Len(w))
<1> DEFINE w == Split(pat, "*")[n]
           L == Len(name)
           P == Len(pat)
           lo == Edge(pat, "*", n - 1)
           hi == Edge(pat, "*", n)
           size == hi - 1 - lo
<1>1. K \in Nat /\ lo \in 0..P /\ hi \in 1..P + 1 /\ lo < hi /\ \A j \in lo + 1..hi - 1 : pat[j] # "*"
  BY EdgesOf
<1>2. w = SubSeq(pat, lo + 1, hi - 1)
  BY DEF Split
<1>3. L \in Nat /\ P \in Nat
  OBVIOUS
<1> HIDE DEF lo, hi, w
<1>4. w \in Seq(C) /\ Len(w) = size /\ \A h \in 1..size : w[h] = pat[lo + h]
  <2>1. lo \in Nat /\ hi - 1 \in Nat /\ lo <= hi - 1 /\ hi - 1 <= Len(pat)
    BY <1>1, <1>3
  <2> HIDE DEF P
  <2>2. QED
    BY <1>2, <2>1, SubSeqIs
<1>5. size \in Nat /\ lo + size = hi - 1 /\ lo + size <= P
  BY <1>1, <1>3
<1> HIDE DEF size
<1>6. ASSUME NEW i \in 0..L
      PROVE  i \in E[hi - 1] <=> i - size \in E[lo] /\ \A h \in 1..size : name[i - size + h] = pat[lo + h]
  <2>1. \A j \in lo + 1..lo + size : pat[j] # "*"
    BY <1>1, <1>5
  <2>2. i \in E[lo + size] <=> i - size \in E[lo] /\ \A h \in 1..size : name[i - size + h] = pat[lo + h]
    <3>1. lo \in 0..Len(pat) /\ lo + size <= Len(pat) /\ i \in 0..Len(name) /\ size \in Nat
      BY <1>1, <1>5
    <3>2. Moved(name, pat, E, lo, size)
      <4> HIDE DEF L, P
      <4>1. QED
        BY <2>1, <3>1, LettersMove
    <3>3. QED
      BY <3>1, <3>2 DEF Moved
  <2>3. QED
    BY <1>5, <2>2
<1>7. ASSUME NEW x \in 0..L, x + size <= L
      PROVE  Occurs(w, name, x) <=> \A h \in 1..size : name[x + h] = pat[lo + h]
  <2> DEFINE u == SubSeq(name, x + 1, x + size)
  <2>1. u \in Seq(C) /\ Len(u) = size /\ \A h \in 1..size : u[h] = name[x + h]
    <3>1. x \in Nat /\ x + size \in Nat /\ x <= x + size /\ x + size <= Len(name) /\ x + size - x = size
      BY <1>3, <1>5, <1>7
    <3> HIDE DEF L
    <3>2. QED
      BY <1>5, <3>1, SubSeqIs
  <2>2. Occurs(w, name, x) <=> u = w
    BY <1>4 DEF Occurs
  <2> HIDE DEF u
  <2>3. u = w <=> \A h \in 1..size : u[h] = w[h]
    BY <1>4, <2>1, SameSeq
  <2>4. QED
    BY <1>4, <2>1, <2>2, <2>3
<1>8. E[lo] \in SUBSET (0..L)
  BY <1>1, <1>3 DEF AreEnds
<1>9. \A i \in 0..L : i \in E[hi - 1] <=> i - size \in E[lo] /\ Occurs(w, name, i - size)
  <2>1. \A i \in 0..L : i - size \in E[lo] => i - size \in 0..L /\ i - size + size <= L
    BY <1>3, <1>5, <1>8
  <2>2. QED
    BY <1>6, <1>7, <2>1
<1>10. QED
  BY <1>4, <1>9 DEF lo, hi, size, w

(* Where a piece may end that begins at one of the starts, and the least   *)
(* of such places: what one round of glob_matches finds.                   *)
Landing(name, w, starts) == {i \in 0..Len(name) : i - Len(w) \in starts /\ Occurs(w, name, i - Len(w))}
IsLeast(r, S) == IF S = {} THEN r = Lost ELSE r \in S /\ \A i \in S : r <= i

LEMMA TakeLands ==
  ASSUME NEW C, NEW name \in Seq(C), NEW w \in Seq(C), NEW from \in 0..Len(name)
  PROVE  /\ IsLeast(Take(name, from, w, FALSE), Landing(name, w, from..Len(name)))
         /\ from = 0 => IsLeast(Take(name, from, w, TRUE), Landing(name, w, {0}))
<1> DEFINE L == Len(name)
           W == Len(w)
           places == {i \in from..L - W : Occurs(w, name, i)}
           least == CHOOSE x \in places : \A y \in places : x <= y
<1>1. L \in Nat /\ W \in Nat /\ from \in 0..L /\ from # Lost
  BY DEF Lost
<1>2. CASE w = <<>>
  <2>1. W = 0 /\ \A first \in BOOLEAN : Take(name, from, w, first) = from
    BY <1>1, <1>2 DEF Take
  <2>2. \A i \in 0..L : Occurs(w, name, i)
    BY <1>1, <1>2 DEF Occurs
  <2> HIDE DEF L, W
  <2>3. \A i : i \in Landing(name, w, from..Len(name)) <=> i \in from..L
    BY <1>1, <2>1, <2>2 DEF Landing, L, W
  <2>4. from = 0 => \A i : i \in Landing(name, w, {0}) <=> i = 0
    BY <1>1, <2>1, <2>2 DEF Landing, L, W
  <2>5. Take(name, from, w, FALSE) = from /\ Take(name, from, w, TRUE) = from
    BY <2>1
  <2>6. IsLeast(from, Landing(name, w, from..Len(name)))
    <3>1. from \in from..L /\ \A i \in from..L : from <= i
      BY <1>1
    <3>2. from \in Landing(name, w, from..Len(name))
      BY <2>3, <3>1
    <3>3. \A i \in Landing(name, w, from..Len(name)) : from <= i
      BY <2>3, <3>1
    <3>4. QED
      BY <3>2, <3>3 DEF IsLeast
  <2>7. from = 0 => IsLeast(from, Landing(name, w, {0}))
    <3>1. ASSUME from = 0 PROVE IsLeast(0, Landing(name, w, {0}))
      <4>1. 0 \in Landing(name, w, {0}) /\ \A i \in Landing(name, w, {0}) : i = 0
        BY <2>4, <3>1
      <4>2. QED
        BY <4>1 DEF IsLeast
    <3>2. QED
      BY <3>1
  <2>8. QED
    BY <2>5, <2>6, <2>7
<1>3. CASE w # <<>>
  <2>1. \A first \in BOOLEAN :
           Take(name, from, w, first)
             = IF places = {} \/ ~Anchored(first, least) THEN Lost ELSE least + W
    BY <1>1, <1>3 DEF Take
  <2>2. places \in SUBSET Nat /\ \A i \in places : i + W \in 0..L /\ from <= i
    BY <1>1
  <2>3. places # {} => least \in places /\ \A y \in places : least <= y
    <3> HIDE DEF places
    <3>1. QED
      BY <2>2, LeastNatural
  <2>4. \A i \in 0..L : i \in Landing(name, w, from..Len(name)) <=> i - W \in places
    BY <1>1 DEF Landing
  <2>5. from = 0 => \A i \in 0..L : i \in Landing(name, w, {0}) <=> i - W \in places /\ i - W = 0
    BY <1>1 DEF Landing
  <2>6. Landing(name, w, from..Len(name)) \in SUBSET (0..L) /\ Landing(name, w, {0}) \in SUBSET (0..L)
    BY DEF Landing
  <2> DEFINE S == Landing(name, w, from..Len(name))
             T == Landing(name, w, {0})
  <2> HIDE DEF L, W, places, least, S, T
  <2>7. IsLeast(Take(name, from, w, FALSE), S)
    <3>1. Take(name, from, w, FALSE) = IF places = {} THEN Lost ELSE least + W
      BY <2>1 DEF Anchored
    <3>2. \A i \in S : i \in 0..L /\ i - W \in places
      BY <2>4, <2>6 DEF S
    <3>3. CASE places = {}
      <4>1. S = {}
        BY <3>2, <3>3
      <4>2. QED
        BY <3>1, <3>3, <4>1 DEF IsLeast
    <3>4. CASE places # {}
      <4>1. least \in places /\ least \in Nat /\ least + W \in 0..L /\ least + W - W = least
        <5>1. least \in places
          BY <2>3, <3>4
        <5>2. least \in Nat /\ least + W \in 0..L
          BY <2>2, <5>1
        <5>3. QED
          BY <1>1, <5>1, <5>2
      <4>2. least + W \in S
        <5> DEFINE e == least + W
        <5>1. e \in 0..L /\ e - W = least
          BY <1>1, <4>1
        <5> HIDE DEF e
        <5>2. e - W \in places
          BY <4>1, <5>1
        <5>3. e \in Landing(name, w, from..Len(name))
          BY <2>4, <5>1, <5>2
        <5>4. QED
          BY <5>3 DEF S, e
      <4>3. ASSUME NEW i \in S PROVE least + W <= i
        <5>1. least <= i - W /\ i \in 0..L
          BY <2>3, <3>2, <3>4
        <5>2. QED
          BY <1>1, <4>1, <5>1
      <4>4. QED
        BY <3>1, <3>4, <4>2, <4>3 DEF IsLeast
    <3>5. QED
      BY <3>3, <3>4
  <2>8. ASSUME from = 0 PROVE IsLeast(Take(name, from, w, TRUE), T)
    <3>1. Take(name, from, w, TRUE) = IF places = {} \/ least # 0 THEN Lost ELSE least + W
      BY <2>1 DEF Anchored
    <3>2. \A i \in 0..L : i \in T <=> i - W \in places /\ i - W = 0
      BY <2>5, <2>8 DEF T
    <3>3. T \in SUBSET (0..L)
      BY <2>6 DEF T
    <3>4. CASE 0 \in places
      <4>1. least = 0
        <5>1. least \in Nat /\ least <= 0
          BY <2>2, <2>3, <3>4
        <5>2. QED
          BY <5>1
      <4>2. W \in 0..L /\ W - W = 0
        <5>1. 0 + W \in 0..L
          BY <2>2, <3>4
        <5>2. QED
          BY <1>1, <5>1
      <4>3. W \in T /\ \A i \in T : i = W
        BY <1>1, <3>2, <3>3, <3>4, <4>2
      <4>4. Take(name, from, w, TRUE) = W
        <5>1. Take(name, from, w, TRUE) = least + W
          BY <3>1, <3>4, <4>1
        <5>2. least + W = W
          BY <1>1, <4>1
        <5>3. QED
          BY <5>1, <5>2
      <4>5. QED
        <5>1. IsLeast(W, T)
          BY <1>1, <4>3 DEF IsLeast
        <5>2. QED
          BY <4>4, <5>1
    <3>5. CASE 0 \notin places
      <4>1. T = {}
        BY <3>2, <3>3, <3>5
      <4>2. Take(name, from, w, TRUE) = Lost
        BY <2>3, <3>1, <3>5
      <4>3. QED
        BY <4>1, <4>2 DEF IsLeast
    <3>6. QED
      BY <3>4, <3>5
  <2>9. QED
    BY <2>7, <2>8 DEF S, T
<1>4. QED
  BY <1>2, <1>3

LEMMA NothingLands ==
  ASSUME NEW name, NEW w
  PROVE  Landing(name, w, {}) = {} /\ \A first \in BOOLEAN : Take(name, Lost, w, first) = Lost
BY DEF Landing, Take, Lost

(* The search of GlobMatches, by name.                                     *)
IsTour(name, pieces, f) ==
    f = [i \in 0..Len(pieces) |->
           IF i = 0 THEN 0 ELSE Take(name, f[i - 1], pieces[i], i = 1)]
Tour(name, pieces) == CHOOSE f : IsTour(name, pieces, f)

LEMMA GlobIs ==
  ASSUME NEW name, NEW pat
  PROVE  LET pieces == Split(pat, "*") IN
         GlobMatches(name, pat) <=>
            IF Len(pieces) = 1 THEN name = pat
            ELSE Tour(name, pieces)[Len(pieces)] # Lost /\ IsSuffix(Last(pieces), name)
BY DEF GlobMatches, Tour, IsTour

IsSearch(name, pieces, f) ==
    /\ f[0] = 0
    /\ \A i \in 1..Len(pieces) :
          f[i] = IF i = 1 THEN Take(name, f[i - 1], pieces[i], TRUE)
                 ELSE Take(name, f[i - 1], pieces[i], FALSE)

LEMMA TourIs ==
  ASSUME NEW C, NEW name \in Seq(C), NEW pieces \in Seq(Seq(C))
  PROVE  IsSearch(name, pieces, Tour(name, pieces))
<1> DEFINE L == Len(name)
           N == Len(pieces)
           V == {Lost} \cup 0..L
           step == [i \in 1..N |-> [v \in V |-> Take(name, v, pieces[i], i = 1)]]
<1>1. L \in Nat /\ N \in Nat /\ \A i \in 1..N : pieces[i] \in Seq(C)
  OBVIOUS
<1>2. ASSUME NEW v \in V, NEW i \in 1..N PROVE Take(name, v, pieces[i], i = 1) \in V
  <2>1. Take(name, v, pieces[i], FALSE) \in V
    <3>1. CASE v = Lost
      BY <3>1, NothingLands
    <3>2. CASE v \in 0..L
      <4>1. IsLeast(Take(name, v, pieces[i], FALSE), Landing(name, pieces[i], v..Len(name)))
        <5> HIDE DEF V, step
        <5>1. QED
          BY <1>1, <3>2, TakeLands
      <4>2. Landing(name, pieces[i], v..Len(name)) \in SUBSET (0..L)
        BY DEF Landing
      <4>3. QED
        BY <4>1, <4>2 DEF IsLeast
    <3>3. QED
      BY <3>1, <3>2
  <2>2. Take(name, v, pieces[i], i = 1) \in {Lost, Take(name, v, pieces[i], FALSE)}
    BY DEF Take, Anchored
  <2>3. Lost \in V
    OBVIOUS
  <2> HIDE DEF V
  <2>4. QED
    BY <2>1, <2>2, <2>3
<1>3. PICK f : IsChain(N, V, 0, step, f)
  <2>1. 0 \in V /\ \A i \in 1..N : \A v \in V : step[i][v] \in V
    <3>1. 0 \in V
      BY <1>1
    <3> HIDE DEF V
    <3>2. QED
      BY <1>2, <3>1
  <2> HIDE DEF V, step, N
  <2>2. QED
    BY <1>1, <2>1, ChainExists
<1>4. f \in [0..N -> V] /\ f[0] = 0 /\ \A i \in 1..N : f[i] = step[i][f[i - 1]]
  BY <1>3 DEF IsChain
<1>5. \A i \in 1..N : f[i] = Take(name, f[i - 1], pieces[i], i = 1) /\ f[i - 1] \in V
  <2> HIDE DEF V
  <2>1. \A i \in 1..N : i - 1 \in 0..N
    BY <1>1
  <2>2. QED
    BY <1>4, <2>1
<1>6. IsTour(name, pieces, f)
  <2>1. \A i \in 0..N : i = 0 \/ i \in 1..N
    BY <1>1
  <2> HIDE DEF V, step
  <2>2. f = [i \in 0..N |-> IF i = 0 THEN 0 ELSE Take(name, f[i - 1], pieces[i], i = 1)]
    BY <1>4, <1>5, <2>1
  <2>3. QED
    BY <2>2 DEF IsTour
<1> DEFINE g == Tour(name, pieces)
<1>7. g = [i \in 0..N |-> IF i = 0 THEN 0 ELSE Take(name, g[i - 1], pieces[i], i = 1)]
  BY <1>6 DEF Tour, IsTour
<1> HIDE DEF g, step
<1>8. g[0] = 0 /\ \A i \in 1..N : g[i] = Take(name, g[i - 1], pieces[i], i = 1)
  <2>1. \A i \in 1..N : i \in 0..N /\ i # 0
    BY <1>1
  <2>2. 0 \in 0..N
    BY <1>1
  <2>3. QED
    BY <1>7, <2>1, <2>2
<1>9. \A i \in 1..N : g[i] = IF i = 1 THEN Take(name, g[i - 1], pieces[i], TRUE)
                             ELSE Take(name, g[i - 1], pieces[i], FALSE)
  BY <1>8 DEF Take, Anchored
<1>10. QED
  BY <1>8, <1>9 DEF g, IsSearch

LEMMA SuffixIs ==
  ASSUME NEW C, NEW name \in Seq(C), NEW w \in Seq(C)
  PROVE  IsSuffix(w, name) <=> Len(w) <= Len(name) /\ Occurs(w, name, Len(name) - Len(w))
<1> DEFINE L == Len(name)
           W == Len(w)
           rn == Reverse(name)
           rw == Reverse(w)
<1>1. L \in Nat /\ W \in Nat
  OBVIOUS
<1>2. rn \in Seq(C) /\ Len(rn) = L /\ \A i \in 1..L : rn[i] = name[L - i + 1]
  BY DEF Reverse
<1>3. rw \in Seq(C) /\ Len(rw) = W /\ \A i \in 1..W : rw[i] = w[W - i + 1]
  BY DEF Reverse
<1> HIDE DEF rn, rw
<1>4. CASE W <= L
  <2> DEFINE a == SubSeq(rw, 1, W)
             b == SubSeq(rn, 1, W)
             c == SubSeq(name, L - W + 1, L)
  <2>1. a \in Seq(C) /\ Len(a) = W /\ \A i \in 1..W : a[i] = rw[i]
    <3> HIDE DEF W
    <3>1. QED
      BY <1>1, <1>3
  <2>2. b \in Seq(C) /\ Len(b) = W /\ \A i \in 1..W : b[i] = rn[i]
    <3> HIDE DEF W, L
    <3>1. QED
      BY <1>1, <1>2, <1>4
  <2>3. c \in Seq(C) /\ Len(c) = W /\ \A i \in 1..W : c[i] = name[L - W + i]
    BY <1>1, <1>4
  <2> HIDE DEF a, b, c
  <2>4. a = b <=> \A i \in 1..W : rw[i] = rn[i]
    BY <2>1, <2>2, SameSeq
  <2>5. c = w <=> \A i \in 1..W : name[L - W + i] = w[i]
    BY <2>3, SameSeq
  <2>6. ASSUME \A i \in 1..W : rw[i] = rn[i], NEW i \in 1..W PROVE name[L - W + i] = w[i]
    <3> DEFINE j == W - i + 1
    <3>1. j \in 1..W /\ j \in 1..L /\ W - j + 1 = i /\ L - j + 1 = L - W + i
      BY <1>1, <1>4
    <3> HIDE DEF j, W, L
    <3>2. rw[j] = w[i] /\ rn[j] = name[L - W + i]
      BY <1>2, <1>3, <3>1
    <3>3. QED
      BY <2>6, <3>1, <3>2
  <2>7. ASSUME \A i \in 1..W : name[L - W + i] = w[i], NEW i \in 1..W PROVE rw[i] = rn[i]
    <3> DEFINE j == W - i + 1
    <3>1. j \in 1..W /\ i \in 1..L /\ L - i + 1 = L - W + j
      BY <1>1, <1>4
    <3>2. rw[i] = w[j]
      BY <1>3
    <3> HIDE DEF j, W, L
    <3>3. rn[i] = name[L - W + j]
      BY <1>2, <3>1
    <3>4. QED
      BY <2>7, <3>1, <3>2, <3>3
  <2>8. IsSuffix(w, name) <=> a = b
    <3>1. IsSuffix(w, name) <=> IsPrefix(rw, rn)
      BY DEF IsSuffix, rw, rn
    <3>2. QED
      BY <1>1, <1>2, <1>3, <1>4, <3>1 DEF IsPrefix, a, b
  <2>9. Occurs(w, name, L - W) <=> c = w
    <3>1. L - W + W = L
      BY <1>1
    <3>2. QED
      BY <3>1 DEF Occurs, c
  <2>10. QED
    BY <1>4, <2>4, <2>5, <2>6, <2>7, <2>8, <2>9
<1>5. CASE ~(W <= L)
  <2>1. IsSuffix(w, name) <=> IsPrefix(rw, rn)
    BY DEF IsSuffix, rw, rn
  <2>2. QED
    BY <1>2, <1>3, <1>5, <2>1 DEF IsPrefix
<1>6. QED
  BY <1>4, <1>5

(* Behind a star everything is an end from the least one on.               *)
LEMMA StarOpens ==
  ASSUME NEW C, NEW name \in Seq(C), NEW pat \in Seq(C), NEW E, AreEnds(name, pat, E),
         NEW j \in 1..Len(pat), pat[j] = "*", NEW r, IsLeast(r, E[j - 1])
  PROVE  \/ r = Lost /\ E[j] = {}
         \/ r \in 0..Len(name) /\ E[j] = r..Len(name)
<1> DEFINE L == Len(name)
           P == Len(pat)
           A == E[j - 1]
           B == E[j]
<1>1. /\ L \in Nat /\ A \in SUBSET (0..L) /\ B \in SUBSET (0..L)
      /\ \A i \in 0..L : i \in B <=> \E k \in A : k <= i
  <2>1. L \in Nat /\ P \in Nat /\ j - 1 \in 0..P /\ j \in 0..P
    OBVIOUS
  <2>2. E \in [0..P -> SUBSET (0..L)]
    BY DEF AreEnds
  <2>3. \A i \in 0..L : i \in B <=> \E k \in A : k <= i
    BY DEF AreEnds
  <2> HIDE DEF L, P
  <2>4. QED
    BY <2>1, <2>2, <2>3
<1>2. IsLeast(r, A)
  OBVIOUS
<1> HIDE DEF L, A, B
<1>3. CASE A = {}
  BY <1>1, <1>2, <1>3 DEF IsLeast, B, L
<1>4. CASE A # {}
  <2>1. r \in A /\ r \in 0..L /\ \A i \in A : r <= i
    BY <1>1, <1>2, <1>4 DEF IsLeast
  <2>2. ASSUME NEW i \in B PROVE i \in r..L
    <3>1. PICK k \in A : k <= i
      BY <1>1
    <3>2. r <= k /\ k \in 0..L /\ i \in 0..L
      BY <1>1, <2>1
    <3>3. QED
      BY <1>1, <2>1, <3>1, <3>2
  <2>3. ASSUME NEW i \in r..L PROVE i \in B
    <3>1. i \in 0..L /\ r <= i
      BY <1>1, <2>1
    <3>2. QED
      BY <1>1, <2>1, <3>1
  <2>4. B = r..L
    BY <2>2, <2>3
  <2>5. QED
    BY <2>1, <2>4 DEF B, L
<1>5. QED
  BY <1>3, <1>4

(* After every piece but the last the search is at the least end, or lost  *)
(* where there is none.                                                    *)
LEMMA SearchIsLeast ==
  ASSUME NEW C, NEW name \in Seq(C), NEW pat \in Seq(C), NEW E, AreEnds(name, pat, E),
         NEW K, K = Cardinality(PlacesOf(pat, "*")), NEW n \in 1..K
  PROVE  IsLeast(Tour(name, Split(pat, "*"))[n], E[Edge(pat, "*", n) - 1])
<1> DEFINE pieces == Split(pat, "*")
           f == Tour(name, pieces)
           e(i) == Edge(pat, "*", i)
           L == Len(name)
           Right(i) == IsLeast(f[i], E[e(i) - 1])
           Good == {i \in 0..K : i = 0 \/ Right(i)}
<1>1. K \in Nat /\ e(0) = 0 /\ \A i \in 1..K : e(i) \in 1..Len(pat) /\ pat[e(i)] = "*"
  BY EdgesOf
<1>2. /\ pieces \in Seq(Seq(C)) /\ Len(pieces) = K + 1
      /\ \A i \in 1..K + 1 : pieces[i] \in Seq(C)
  BY SplitIs
<1>3. \A i \in 1..K + 1 : E[e(i) - 1] \in SUBSET (0..L)
  <2>1. E \in [0..Len(pat) -> SUBSET (0..L)]
    BY DEF AreEnds
  <2>2. \A i \in 1..K + 1 : e(i) \in 1..Len(pat) + 1
    BY EdgesOf
  <2> HIDE DEF e, L
  <2>3. \A i \in 1..K + 1 : e(i) - 1 \in 0..Len(pat)
    BY <2>2
  <2>4. QED
    BY <2>1, <2>3
<1>4. ASSUME NEW i \in 1..K PROVE E[e(i) - 1] = Landing(name, pieces[i], E[e(i - 1)])
  <2>1. i \in 1..K + 1
    BY <1>1
  <2>2. \A h \in 0..L : h \in E[e(i) - 1] <=>
            h - Len(pieces[i]) \in E[e(i - 1)] /\ Occurs(pieces[i], name, h - Len(pieces[i]))
    BY <2>1, PieceMoves
  <2>3. E[e(i) - 1] \in SUBSET (0..L)
    BY <1>3, <2>1
  <2> HIDE DEF pieces, e
  <2>4. QED
    BY <2>2, <2>3 DEF Landing
<1>5. /\ f[0] = 0
      /\ \A i \in 1..K : f[i] = IF i = 1 THEN Take(name, f[i - 1], pieces[i], TRUE)
                                ELSE Take(name, f[i - 1], pieces[i], FALSE)
  <2> HIDE DEF pieces
  <2>1. \A i \in 1..K : i \in 1..Len(pieces)
    BY <1>1, <1>2
  <2>2. IsSearch(name, pieces, f)
    BY <1>2, TourIs
  <2> HIDE DEF f
  <2>3. QED
    BY <2>1, <2>2 DEF IsSearch
<1>6. L \in Nat /\ E[0] = {0}
  BY DEF AreEnds
<1> HIDE DEF pieces, f, e
<1>7. ASSUME NEW i \in 1..K, i - 1 \in Good PROVE Right(i)
  <2>1. /\ pieces[i] \in Seq(C)
        /\ i = 1 => f[i] = Take(name, f[i - 1], pieces[i], TRUE)
        /\ i # 1 => f[i] = Take(name, f[i - 1], pieces[i], FALSE)
    <3>1. pieces[i] \in Seq(C)
      BY <1>1, <1>2
    <3>2. f[i] = IF i = 1 THEN Take(name, f[i - 1], pieces[i], TRUE)
                  ELSE Take(name, f[i - 1], pieces[i], FALSE)
      BY <1>5, Zenon
    <3>3. QED
      BY <3>1, <3>2, Zenon
  <2>2. E[e(i) - 1] = Landing(name, pieces[i], E[e(i - 1)])
    BY <1>4
  <2>3. CASE i = 1
    <3>1. f[i - 1] = 0 /\ E[e(i - 1)] = {0} /\ 0 \in 0..L
      <4>1. i - 1 = 0
        BY <2>3
      <4>2. QED
        BY <1>1, <1>5, <1>6, <4>1
    <3>2. IsLeast(Take(name, 0, pieces[i], TRUE), Landing(name, pieces[i], {0}))
      BY <2>1, <3>1, TakeLands
    <3>3. f[i] = Take(name, 0, pieces[i], TRUE)
      BY <2>1, <2>3, <3>1, Zenon
    <3>4. QED
      BY <2>2, <3>1, <3>2, <3>3, Zenon
  <2>4. CASE i # 1
    <3>1. i - 1 \in 1..K
      BY <1>1, <2>4
    <3>2. Right(i - 1)
      <4> HIDE DEF Right
      <4>1. QED
        BY <1>7, <3>1
    <3>3. \/ f[i - 1] = Lost /\ E[e(i - 1)] = {}
          \/ f[i - 1] \in 0..L /\ E[e(i - 1)] = f[i - 1]..L
      <4> DEFINE s == e(i - 1)
                 r == f[i - 1]
      <4>1. s \in 1..Len(pat) /\ pat[s] = "*" /\ IsLeast(r, E[s - 1])
        BY <1>1, <3>1, <3>2
      <4> HIDE DEF s, r
      <4>2. \/ r = Lost /\ E[s] = {}
            \/ r \in 0..Len(name) /\ E[s] = r..Len(name)
        BY <4>1, StarOpens
      <4>3. QED
        BY <4>2 DEF s, r
    <3>4. CASE f[i - 1] = Lost /\ E[e(i - 1)] = {}
      <4>1. E[e(i) - 1] = {} /\ f[i] = Lost
        BY <2>1, <2>2, <2>4, <3>4, NothingLands
      <4>2. QED
        BY <4>1 DEF IsLeast
    <3>5. CASE f[i - 1] \in 0..L /\ E[e(i - 1)] = f[i - 1]..L
      <4> DEFINE r == f[i - 1]
      <4>1. r \in 0..L /\ f[i] = Take(name, r, pieces[i], FALSE)
            /\ E[e(i) - 1] = Landing(name, pieces[i], r..L)
        BY <2>1, <2>2, <2>4, <3>5
      <4> HIDE DEF r
      <4>2. IsLeast(Take(name, r, pieces[i], FALSE), Landing(name, pieces[i], r..L))
        BY <2>1, <4>1, TakeLands
      <4>3. QED
        BY <4>1, <4>2
    <3>6. QED
      BY <3>3, <3>4, <3>5
  <2>5. QED
    BY <2>3, <2>4
<1>8. n \in Good
  <2>1. 0 \in Good
    BY <1>1
  <2>2. ASSUME NEW i \in 1..K, i - 1 \in Good PROVE i \in Good
    <3>1. Right(i) /\ i \in 0..K
      BY <1>1, <1>7, <2>2
    <3>2. QED
      BY <3>1
  <2> HIDE DEF Good
  <2>3. \A i \in 0..K : i \in Good
    BY <1>1, <2>1, <2>2, CountUp
  <2>4. QED
    BY <1>1, <2>3
<1>9. QED
  BY <1>1, <1>8 DEF f, e, pieces

(* The greedy search for the pieces between the stars finds a reading of   *)
(* the pattern exactly if there is one.                                    *)
LEMMA GreedyIsRight ==
  ASSUME NEW C, NEW name \in Seq(C), NEW pat \in Seq(C)
  PROVE  GlobMatches(name, pat) <=> Means(name, pat, ToSet(name))
<1>0. PICK K : K = Cardinality(PlacesOf(pat, "*"))
  OBVIOUS
<1>00. PICK n : n = K + 1
  OBVIOUS
<1> DEFINE E == Ends(name, pat, ToSet(name))
           pieces == Split(pat, "*")
           f == Tour(name, pieces)
           e(i) == Edge(pat, "*", i)
           L == Len(name)
           P == Len(pat)
           w == pieces[n]
<1>1. AreEnds(name, pat, E)
  BY AnyEndsAre
<1>2. K \in Nat /\ e(0) = 0 /\ e(n) = P + 1 /\ L \in Nat /\ P \in Nat
      /\ n \in 1..K + 1 /\ n - 1 = K
      /\ \A i \in 1..K : e(i) \in 1..P /\ pat[e(i)] = "*"
  <2>1. /\ K \in Nat /\ e(0) = 0 /\ e(K + 1) = P + 1
        /\ \A i \in 1..K : e(i) \in 1..P /\ pat[e(i)] = "*"
    BY <1>0, EdgesOf
  <2>2. L \in Nat /\ P \in Nat
    OBVIOUS
  <2> HIDE DEF e, L, P
  <2>3. QED
    BY <1>00, <2>1, <2>2
<1> HIDE DEF E
<1>3. /\ w \in Seq(C) /\ Len(w) = P - e(K)
      /\ L \in E[P] <=> L - Len(w) \in E[e(K)] /\ Occurs(w, name, L - Len(w))
  <2>1. /\ w \in Seq(C) /\ Len(w) = e(n) - 1 - e(n - 1)
        /\ \A i \in 0..L : i \in E[e(n) - 1] <=>
                 i - Len(w) \in E[e(n - 1)] /\ Occurs(w, name, i - Len(w))
    BY <1>0, <1>1, <1>2, PieceMoves
  <2>2. L \in 0..L /\ P + 1 - 1 = P
    BY <1>2
  <2> HIDE DEF w, e, L, P
  <2>3. QED
    BY <1>2, <2>1, <2>2
<1>4. /\ pieces \in Seq(Seq(C)) /\ Len(pieces) = n /\ Last(pieces) = w
  <2>1. pieces \in Seq(Seq(C)) /\ Len(pieces) = n
    BY <1>0, <1>00, SplitIs
  <2>2. QED
    BY <2>1 DEF Last
<1>5. GlobMatches(name, pat) <=>
         IF K = 0 THEN name = pat ELSE f[n] # Lost /\ IsSuffix(w, name)
  <2>1. n = 1 <=> K = 0
    BY <1>2
  <2>2. GlobMatches(name, pat) <=>
            IF Len(pieces) = 1 THEN name = pat
            ELSE f[Len(pieces)] # Lost /\ IsSuffix(Last(pieces), name)
    BY GlobIs
  <2> HIDE DEF pieces, f, w
  <2>3. QED
    BY <1>4, <2>1, <2>2
<1>6. Means(name, pat, ToSet(name)) <=> L \in E[P]
  BY MeansIs DEF E
<1>7. IsSuffix(w, name) <=> Len(w) <= L /\ Occurs(w, name, L - Len(w))
  <2> HIDE DEF w
  <2>1. QED
    BY <1>3, SuffixIs
<1>8. CASE K = 0
  <2>1. Len(w) = P /\ w = pat /\ E[e(K)] = {0}
    <3>1. w = SubSeq(pat, 1, P)
      <4>1. w = SubSeq(pat, e(n - 1) + 1, e(n) - 1)
        BY <1>0, <1>2, SplitIs
      <4>2. 0 + 1 = 1 /\ P + 1 - 1 = P
        BY <1>2
      <4> HIDE DEF w, e, P
      <4>3. QED
        BY <1>2, <1>8, <4>1, <4>2
    <3>2. SubSeq(pat, 1, P) = pat
      OBVIOUS
    <3>3. E[0] = {0}
      BY <1>1 DEF AreEnds
    <3>4. QED
      BY <1>2, <1>8, <3>1, <3>2, <3>3
  <2>2. L \in E[P] <=> L = P /\ Occurs(pat, name, 0)
    <3> HIDE DEF w, e, L, P
    <3>1. L - P \in {0} <=> L = P
      BY <1>2
    <3>2. L \in E[P] <=> L - P \in E[e(K)] /\ Occurs(pat, name, L - P)
      BY <1>3, <2>1
    <3>3. L = P => L - P = 0
      BY <1>2
    <3>4. QED
      BY <2>1, <3>1, <3>2, <3>3
  <2>3. L = P /\ Occurs(pat, name, 0) <=> name = pat
    <3>1. SubSeq(name, 1, Len(name)) = name
      OBVIOUS
    <3>2. 0 + 1 = 1 /\ 0 + P = P
      BY <1>2
    <3>3. Occurs(pat, name, 0) <=> SubSeq(name, 1, P) = pat
      BY <3>2 DEF Occurs
    <3>4. QED
      BY <3>1, <3>3
  <2>4. QED
    BY <1>5, <1>6, <1>8, <2>2, <2>3
<1>9. CASE K # 0
  <2>1. K \in 1..K /\ e(K) \in 1..P /\ pat[e(K)] = "*"
    BY <1>2, <1>9
  <2>2. IsLeast(f[K], E[e(K) - 1])
    BY <1>0, <1>1, <2>1, SearchIsLeast
  <2>3. f[n] = Take(name, f[K], w, FALSE)
    <3>1. n \in 1..Len(pieces) /\ n - 1 = K /\ n # 1
      BY <1>2, <1>4, <1>9
    <3>2. IsSearch(name, pieces, f)
      <4>1. pieces \in Seq(Seq(C))
        BY <1>4
      <4> HIDE DEF pieces
      <4>2. QED
        BY <4>1, TourIs
    <3> HIDE DEF f, pieces
    <3>3. QED
      BY <3>1, <3>2 DEF IsSearch
  <2> DEFINE r == f[K]
             s == e(K)
  <2>4. \/ r = Lost /\ E[s] = {}
        \/ r \in 0..L /\ E[s] = r..L
    <3>1. s \in 1..Len(pat) /\ pat[s] = "*" /\ IsLeast(r, E[s - 1])
      BY <2>1, <2>2
    <3> HIDE DEF r, s
    <3>2. QED
      BY <1>1, <3>1, StarOpens
  <2>5. f[n] = Take(name, r, w, FALSE) /\ (L \in E[P] <=> L - Len(w) \in E[s] /\ Occurs(w, name, L - Len(w)))
    BY <1>3, <2>3
  <2>6. w \in Seq(C) /\ Len(w) \in Nat
    BY <1>3
  <2> HIDE DEF r, s, w, f
  <2>7. CASE r = Lost /\ E[s] = {}
    <3>1. f[n] = Lost
      BY <2>5, <2>7, NothingLands
    <3>2. QED
      BY <1>5, <1>6, <1>9, <2>5, <2>7, <3>1
  <2>8. CASE r \in 0..L /\ E[s] = r..L
    <3> DEFINE there == Landing(name, w, r..L)
    <3>1. IsLeast(f[n], there)
      BY <2>5, <2>6, <2>8, TakeLands
    <3>2. there \in SUBSET (0..L)
      BY DEF Landing
    <3>3. L \in E[P] <=> L - Len(w) \in r..L /\ Occurs(w, name, L - Len(w))
      BY <2>5, <2>8
    <3>4. L \in E[P] <=> L \in there
      BY <1>2, <3>3 DEF Landing
    <3>5. ASSUME L \in E[P] PROVE f[n] # Lost /\ IsSuffix(w, name)
      <4>1. L \in there
        BY <3>4, <3>5
      <4>2. f[n] \in there
        BY <3>1, <4>1 DEF IsLeast
      <4> HIDE DEF there
      <4>3. f[n] \in 0..L
        BY <3>2, <4>2
      <4>4. f[n] # Lost
        BY <4>3 DEF Lost
      <4>5. Len(w) <= L
        BY <1>2, <2>6, <2>8, <3>3, <3>5
      <4>6. QED
        BY <1>7, <3>3, <3>5, <4>4, <4>5
    <3>6. ASSUME f[n] # Lost, IsSuffix(w, name) PROVE L \in E[P]
      <4>1. there # {}
        <5> HIDE DEF there
        <5>1. QED
          BY <3>1, <3>6 DEF IsLeast
      <4>2. PICK x \in there : TRUE
        BY <4>1
      <4>3. x \in 0..L /\ x - Len(w) \in r..L
        BY DEF Landing
      <4>4. L - Len(w) \in r..L
        BY <1>2, <2>6, <2>8, <4>3
      <4>5. QED
        BY <1>7, <3>3, <3>6, <4>4
    <3>7. QED
      BY <1>5, <1>6, <1>9, <3>5, <3>6
  <2>9. QED
    BY <2>4, <2>7, <2>8
<1>10. QED
  BY <1>8, <1>9

(* What is asked of the rules, and that it stays asked.                    *)
RulesInv == at = "rules" => asked \in Names \X Patterns

LEMMA InitRules == Init => RulesInv
<1>1. ASSUME NEW some, NEW rules, ProjectFrom(some, rules) PROVE at = "rules" => asked \in rules
  BY <1>1 DEF ProjectFrom
<1> SUFFICES ASSUME Init, at = "rules" PROVE asked \in Names \X Patterns
  BY DEF RulesInv
<1>2. ProjectFrom(Start({"project"}, Folders), IF focus = "project" THEN Names \X Patterns ELSE {})
  BY DEF Init
<1>3. asked \in IF focus = "project" THEN Names \X Patterns ELSE {}
  BY <1>1, <1>2
<1>4. QED
  BY <1>3

LEMMA NextRules == RulesInv /\ [Next]_vars => RulesInv'
<1> SUFFICES ASSUME RulesInv, [Next]_vars PROVE RulesInv'
  OBVIOUS
<1>1. UNCHANGED jvars \/ ProjectNext
  BY DEF Next, vars, PlansStep, UsageStep, ProjectStep, SystemStep, PanelStep, SnapshotsStep,
     DiagnosisStep
<1>2. asked' = asked /\ (at' = at \/ at' = "done")
  BY <1>1 DEF jvars, ProjectNext, Pop, ScanEnds, ReadLink, ReadDir, ReadFile, Read
<1>3. QED
  BY <1>2 DEF RulesInv

(* Of every name and every pattern the greedy search of glob_matches finds *)
(* what the pattern means, a star standing for a run of characters without *)
(* the path separator; of a segment nothing else, and of a path only what  *)
(* the pattern means when its stars may run across separators.             *)
THEOREM RulesAreRead == Spec => []RulesMeanWhatTheySay
<1>1. RulesInv => RulesMeanWhatTheySay
  <2> SUFFICES ASSUME RulesInv, at = "rules" PROVE RulesMeanWhatTheySay
    BY DEF RulesMeanWhatTheySay
  <2> DEFINE name == asked[1]
             pat == asked[2]
             C == ToSet(name) \cup ToSet(pat)
             plain == ToSet(name) \ {"/"}
  <2>1. name \in Names /\ pat \in Patterns
    BY DEF RulesInv
  <2>2. name \in Seq(ToSet(name)) /\ pat \in Seq(ToSet(pat))
    BY <2>1, ProjectAssumption
  <2>3. name \in Seq(C) /\ pat \in Seq(C)
    <3>1. ToSet(name) \subseteq C /\ ToSet(pat) \subseteq C
      OBVIOUS
    <3> HIDE DEF name, pat, C
    <3>2. QED
      BY <2>2, <3>1
  <2> HIDE DEF name, pat, C, plain
  <2>4. GlobMatches(name, pat) <=> Means(name, pat, ToSet(name))
    BY <2>3, GreedyIsRight
  <2>5. Means(name, pat, plain) => Means(name, pat, ToSet(name))
    BY <2>3, FewerLetters
  <2>6. "/" \notin ToSet(name) => plain = ToSet(name)
    BY DEF plain
  <2>7. QED
    BY <2>4, <2>5, <2>6 DEF name, pat, plain, RulesMeanWhatTheySay
<1>2. QED
  BY InitRules, NextRules, <1>1, PTL DEF Spec

-----------------------------------------------------------------------------
(* What the variables hold.                                                *)

(* The book on the disk and the one in the hands of an edit hold only what *)
(* build accepts, also when a date was confirmed.                          *)
BookInv ==
    /\ today \in Days /\ IsBook(BookOf(plans)) /\ IsBook(edit.buf)
    /\ edit.at = "load" /\ edit.name = "upsert" => Valid(edit.input)

LEMMA NoEntries == IsBook(<<>>)
<1>1. DOMAIN <<>> = {}
  OBVIOUS
<1>2. QED
  BY <1>1 DEF IsBook

LEMMA ConfirmedIsValid ==
  ASSUME NEW e \in NewPlans, Valid(e), NEW c \in Renewals, c # NoDate => InCalendar(c),
         c # NoDate => e.cycle # "none"
  PROVE  [e EXCEPT !.renews = c] \in NewPlans /\ Valid([e EXCEPT !.renews = c])
<1> DEFINE n == [e EXCEPT !.renews = c]
<1>1. n \in NewPlans
  BY DEF NewPlans
<1>2. n.renews = c /\ n.cycle = e.cycle /\ n.kind = e.kind /\ n.budget = e.budget
  BY DEF NewPlans
<1> HIDE DEF n
<1>3. Valid(n)
  BY <1>2 DEF Valid
<1>4. QED
  BY <1>1, <1>3 DEF n

LEMMA ChangedIsBook ==
  ASSUME EditInv, BookInv, edit.at = "load", NEW book, IsBook(book), ~Refused(book)
  PROVE  IsBook(Changed(book))
<1> DEFINE id == edit.id
<1>1. id \in PlanIds /\ edit.name \in {"upsert", "remove", "confirm"}
  BY DEF EditInv
<1>2. ASSUME NEW e \in NewPlans, Valid(e) PROVE IsBook(Put(book, id, e))
  BY <1>1, <1>2 DEF Put, IsBook
<1>3. CASE edit.name = "upsert"
  BY <1>2, <1>3, InputsAssumption DEF EditInv, BookInv, Changed
<1>4. CASE edit.name = "remove"
  BY <1>4 DEF Changed, Without, IsBook
<1>5. CASE edit.name = "confirm"
  <2> DEFINE e == book[id]
             c == edit.input
  <2>1. /\ e \in NewPlans /\ Valid(e) /\ c \in Renewals \cup {NoDate}
        /\ c # NoDate => InCalendar(c) /\ e.cycle # "none"
    BY <1>5 DEF Refused, IsBook, EditInv
  <2> HIDE DEF e, c
  <2>2. CASE c = NoDate
    <3>1. Confirmed(e) = e
      BY <2>2 DEF Confirmed, c
    <3>2. QED
      BY <1>2, <1>5, <2>1, <3>1 DEF Changed, e
  <2>3. CASE c # NoDate
    <3>1. Confirmed(e) = [e EXCEPT !.renews = c]
      BY <2>3 DEF Confirmed, c
    <3>2. Confirmed(e) \in NewPlans /\ Valid(Confirmed(e))
      BY <2>1, <2>3, <3>1, ConfirmedIsValid
    <3>3. QED
      BY <1>2, <1>5, <3>2 DEF Changed, e
  <2>4. QED
    BY <2>2, <2>3
<1>6. QED
  BY <1>1, <1>3, <1>4, <1>5

LEMMA InitBook == Init => BookInv
<1> SUFFICES ASSUME Init PROVE BookInv
  OBVIOUS
<1>1. today \in Days /\ plans = Nothing /\ edit = NoEdit
  <2>1. Some(Days) \subseteq Days
    BY PlansAssumption DEF Some
  <2>2. Start({"plans"}, Days) \subseteq Days
    BY <2>1 DEF Start
  <2>3. QED
    BY <2>2 DEF Init, PlansFrom
<1>2. BookOf(plans) = <<>> /\ edit.buf = <<>> /\ edit.at = "idle"
  BY <1>1 DEF BookOf, NoEdit
<1>3. QED
  BY <1>1, <1>2, NoEntries DEF BookInv

LEMMA StepBook == EditInv /\ BookInv /\ PlansNext => BookInv'
<1> SUFFICES ASSUME EditInv, BookInv, PlansNext PROVE BookInv'
  OBVIOUS
<1>1. today' \in Days
  BY DEF BookInv, PlansNext, BeginUpsert, BeginRemove, BeginConfirm, Begin, LoadPlans, SavePlans,
     RenamePlans, KillEdit, HandEdit, TimePasses
<1>2. ASSUME edit' = NoEdit, IsBook(BookOf(plans')) PROVE BookInv'
  <2>1. edit'.buf = <<>> /\ edit'.at = "idle"
    BY <1>2 DEF NoEdit
  <2>2. IsBook(edit'.buf)
    BY <2>1, NoEntries
  <2>3. QED
    BY <1>1, <1>2, <2>1, <2>2 DEF BookInv
<1>3. ASSUME NEW name, NEW id, NEW input, Begin(name, id, input), name = "upsert" => Valid(input)
      PROVE  BookInv'
  <2>1. /\ edit'.buf = <<>> /\ edit'.name = name /\ edit'.input = input /\ plans' = plans
    BY <1>3 DEF Begin, NoEdit
  <2>2. IsBook(edit'.buf)
    BY <2>1, NoEntries
  <2>3. QED
    BY <1>1, <1>3, <2>1, <2>2 DEF BookInv
<1>4. CASE BeginUpsert
  BY <1>3, <1>4 DEF BeginUpsert
<1>5. CASE BeginRemove \/ BeginConfirm
  BY <1>3, <1>5 DEF BeginRemove, BeginConfirm
<1>6. CASE LoadPlans
  <2>1. CASE edit' = NoEdit
    BY <1>2, <1>6, <2>1 DEF LoadPlans, BookInv
  <2>2. CASE edit' # NoEdit
    <3>1. /\ edit' = [edit EXCEPT !.at = "write", !.buf = Changed(BookOf(plans))]
          /\ plans' = plans /\ ~Refused(BookOf(plans)) /\ edit.at = "load"
      BY <1>6, <2>2 DEF LoadPlans
    <3>2. IsBook(Changed(BookOf(plans)))
      BY <3>1, ChangedIsBook DEF BookInv
    <3>3. edit'.at = "write" /\ edit'.buf = Changed(BookOf(plans))
      BY <3>1 DEF EditInv, NoEdit
    <3>4. QED
      BY <1>1, <3>1, <3>2, <3>3 DEF BookInv
  <2>3. QED
    BY <2>1, <2>2
<1>7. CASE SavePlans
  <2>1. CASE edit' = NoEdit
    BY <1>2, <1>7, <2>1 DEF SavePlans, BookInv
  <2>2. CASE edit' = [edit EXCEPT !.at = "rename"]
    <3>1. edit'.at = "rename" /\ edit'.buf = edit.buf /\ plans' = plans
      BY <1>7, <2>2 DEF SavePlans, EditInv, NoEdit
    <3>2. QED
      BY <1>1, <3>1 DEF BookInv
  <2>3. QED
    BY <1>7, <2>1, <2>2 DEF SavePlans
<1>8. CASE RenamePlans
  <2>1. edit' = NoEdit /\ plans' \in {edit.buf, plans} /\ edit.at = "rename"
    BY <1>8 DEF RenamePlans
  <2>2. IsBook(BookOf(edit.buf))
    BY NoEntries DEF BookOf, BookInv
  <2>3. QED
    BY <1>2, <2>1, <2>2 DEF BookInv
<1>9. CASE KillEdit
  BY <1>2, <1>9 DEF KillEdit, BookInv
<1>10. CASE HandEdit
  <2>1. BookOf(plans') = <<>>
    BY <1>10 DEF HandEdit, BookOf
  <2>2. QED
    BY <1>2, <1>10, <2>1, NoEntries DEF HandEdit
<1>11. CASE TimePasses
  BY <1>2, <1>11 DEF TimePasses, BookInv
<1>12. QED
  BY <1>4, <1>5, <1>6, <1>7, <1>8, <1>9, <1>10, <1>11 DEF PlansNext

LEMMA NextBook == EditInv /\ BookInv /\ [Next]_vars => BookInv'
<1> SUFFICES ASSUME EditInv, BookInv, [Next]_vars PROVE BookInv'
  OBVIOUS
<1>1. CASE UNCHANGED pvars
  BY <1>1 DEF pvars, BookInv
<1>2. UNCHANGED pvars \/ PlansNext
  BY DEF Next, vars, PlansStep, UsageStep, ProjectStep, SystemStep, PanelStep, SnapshotsStep,
     DiagnosisStep
<1>3. QED
  BY <1>1, <1>2, StepBook

(* Which role the stream is at.                                            *)
RoleInv ==
    /\ stream.scope \in Scopes /\ stream.role \in 0..3
    /\ stream.at \in {"preview", "push"} => stream.role \in 1..3
    /\ stream.at = "ask" => stream.role \in 1..2

LEMMA InitRole == Init => RoleInv
  BY DEF Init, DiagnosisInit, Quiet, RoleInv, Scopes

LEMMA NextRole == StreamInv /\ RoleInv /\ [Next]_vars => RoleInv'
<1> SUFFICES ASSUME StreamInv, RoleInv, [Next]_vars PROVE RoleInv'
  OBVIOUS
<1>1. CASE UNCHANGED stream
  BY <1>1 DEF RoleInv
<1>2. CASE Open
  BY <1>2 DEF Open, RoleInv
<1>3. ASSUME stream' = [stream EXCEPT !.at = "closed"] PROVE RoleInv'
  BY <1>3 DEF RoleInv, StreamInv
<1>4. CASE Push
  <2>1. Len(Roles) = 2
    BY DEF Roles
  <2>2. CASE stream' = [stream EXCEPT !.at = "ask"]
    <3>1. /\ stream'.at = "ask" /\ stream'.role = stream.role /\ stream'.scope = stream.scope
          /\ [stream EXCEPT !.at = "closed"].at = "closed"
      BY <2>2 DEF StreamInv
    <3>2. stream.role \in 1..2
      BY <1>4, <2>1, <3>1 DEF Push, RoleInv
    <3>3. QED
      BY <3>1, <3>2 DEF RoleInv
  <2>3. QED
    BY <1>3, <1>4, <2>2 DEF Push
<1>5. CASE AskRole
  <2>1. CASE stream' = [stream EXCEPT !.at = "push", !.role = @ + 1]
    <3>1. /\ stream'.at = "push" /\ stream'.role = stream.role + 1 /\ stream'.scope = stream.scope
          /\ stream.role \in 1..2
      BY <1>5, <2>1 DEF AskRole, RoleInv, StreamInv
    <3>2. QED
      BY <3>1 DEF RoleInv
  <2>2. QED
    BY <1>3, <1>5, <2>1 DEF AskRole
<1>6. UNCHANGED stream \/ Open \/ Push \/ AskRole
  BY DEF Next, vars, PlansStep, UsageStep, ProjectStep, SystemStep, PanelStep, SnapshotsStep,
     DiagnosisStep, DiagnosisNext, PcMoves, dvars, LeaveStream
<1>7. QED
  BY <1>1, <1>2, <1>4, <1>5, <1>6

FocusInv == focus \in PartsOfDesk

LEMMA InitFocus == Init => FocusInv
  BY DEF Init, FocusInv

LEMMA NextFocus == FocusInv /\ [Next]_vars => FocusInv'
  BY DEF FocusInv, Next, vars, PlansStep, UsageStep, ProjectStep, SystemStep, PanelStep,
     SnapshotsStep, DiagnosisStep

(* Every part of the desk holds what its types say, the book of plans only *)
(* entries that build accepts.                                             *)
THEOREM DeskTypeCorrect == Spec => []TypeOK
<1>1. EditInv /\ BookInv => PlansTypeOK
  <2> SUFFICES ASSUME EditInv, BookInv PROVE PlansTypeOK
    OBVIOUS
  <2>1. edit = NoEdit => edit.at = "idle"
    BY DEF NoEdit
  <2>2. QED
    BY <2>1 DEF EditInv, BookInv, PlansTypeOK
<1>2. UsageInv => UsageTypeOK
  <2> SUFFICES ASSUME UsageInv, NEW i \in DOMAIN records
               PROVE  /\ records[i].day \in UsageDays /\ records[i].call \in CallSet
                      /\ records[i].usage \subseteq [input: Tokens, cached: Tokens, output: Tokens]
    BY DEF UsageInv, UsageTypeOK
  <2>1. PICK day \in UsageDays, call \in CallSet : records[i] = RecordOf(day, call)
    BY DEF UsageInv, Entries
  <2>2. records[i].day = day /\ records[i].call = call /\ records[i].usage = Usage(call)
    BY <2>1 DEF RecordOf
  <2>3. call.used \in [uncached: Nat, cached: Nat, out: Nat]
    BY DEF CallSet
  <2>4. /\ InputOf(call) \in Tokens /\ Nobody \in Tokens
        /\ call.used.cached \in Tokens /\ call.used.out \in Tokens
    BY <2>3 DEF InputOf, Tokens
  <2>5. Usage(call) \subseteq [input: Tokens, cached: Tokens, output: Tokens]
    BY <2>4 DEF Usage
  <2>6. QED
    BY <2>2, <2>5
<1>3. ScanInv => ProjectTypeOK
  <2> SUFFICES ASSUME ScanInv PROVE ProjectTypeOK
    OBVIOUS
  <2>1. folder \in Folders \cup {{}} /\ at \in {"scan", "done", "rules"}
        /\ Walk(unread, stack) /\ Limits(found) /\ Accounts(found, ToCome(unread, stack))
    BY DEF ScanInv, ScanHolds
  <2>2. folder \subseteq DOMAIN Tree
    BY <2>1, ProjectAssumption
  <2>3. found.files \subseteq folder
    BY <2>1 DEF Accounts, Seen, Code, Wanted, Files, Reached
  <2>4. unread \subseteq folder /\ ToSet(stack) \subseteq folder \cup {Root}
    BY <2>1 DEF Walk, Reached, ToSet
  <2>5. found.todos \in 0..MaxTodos
    BY <2>1 DEF Limits
  <2>6. QED
    BY <2>1, <2>2, <2>3, <2>4, <2>5 DEF ProjectTypeOK
<1>4. ViewsInv => InventoryTypeOK
  BY DEF ViewsInv, InventoryTypeOK, IsView
<1>5. PanelInv => PanelTypeOK
  <2> SUFFICES ASSUME PanelInv PROVE PanelTypeOK
    OBVIOUS
  <2>1. /\ job.at \in {"idle", "answer", "judge", "sort", "poll", "synthesis", "over"}
        /\ job.at \in {"idle", "poll", "synthesis"} => rows = <<>>
        /\ job.at \in {"answer", "judge"} => Bench(job.left, job.prompt, rows)
        /\ job.at = "sort" => Marked(rows)
        /\ job.at = "over" => DOMAIN rows \subseteq Everyone
    BY DEF PanelInv, Holds
  <2>2. rows = <<>> => DOMAIN rows = {}
    OBVIOUS
  <2>3. DOMAIN rows \subseteq Everyone
    BY <2>1, <2>2 DEF Bench, Marked
  <2>4. QED
    BY <2>1, <2>3 DEF PanelInv, PanelTypeOK, Everyone
<1>6. CaptureInv => SnapshotsTypeOK
  <2> SUFFICES ASSUME CaptureInv, NEW l \in Whole
               PROVE  /\ captures[l].real \in Pcs
                      /\ captures[l].snapshot = Collected(captures[l].real, captures[l].answered)
    BY DEF CaptureInv, SnapshotsTypeOK
  <2>1. PICK p \in Pcs, answered, bench \in BOOLEAN :
            captures[l] = Measured(p, answered, bench)
    BY DEF CaptureInv, IsMeasured
  <2>2. QED
    BY <2>1 DEF Measured
<1>7. StreamInv /\ RoleInv => DiagnosisTypeOK
  BY DEF StreamInv, RoleInv, DiagnosisTypeOK
<1>8. QED
  BY InitEdit, NextEdit, InitBook, NextBook, InitUsage, NextUsage, InitScan, NextScan, InitViews,
     NextViews, InitPanel, NextPanel, InitCapture, NextCapture, InitStream, NextStream, InitRole,
     NextRole, InitFocus, NextFocus, <1>1, <1>2, <1>3, <1>4, <1>5, <1>6, <1>7, PTL
     DEF Spec, TypeOK, FocusInv
-----------------------------------------------------------------------------
(* The renewals.                                                           *)

(* The renewals of an entry that was given a date.                         *)
LEMMA SeriesIs ==
  ASSUME NEW e, e.renews \in Dates, InCalendar(e.renews), NEW asof \in Dates, NEW x
  PROVE  x \in Series(e, asof) <=>
            \E k \in Nat : /\ x = CyclesLater(e.renews, k, Step(e.cycle))
                           /\ x.y <= Greater(e.renews.y, asof.y) + 1
<1> DEFINE r == e.renews
           s == Step(e.cycle)
           last == Greater(r.y, asof.y) + 1
           firsts == {Date(p[1], p[2], 1) : p \in (r.y..last) \X (1..12)}
           On(f) == Date(f.y, f.m, Least(r.d, DaysInMonth(f.y, f.m)))
<1>1. Series(e, asof) = {On(f) : f \in {g \in firsts : Apart(r, g) >= 0 /\ Apart(r, g) % s = 0}}
  BY DEF Series
<1>2. r.y \in Int /\ asof.y \in Int /\ last \in Int /\ r.m \in 1..12 /\ r.m \in Int
  BY DEF Dates, InCalendar, Greater
<1>3. s = 1 \/ s = 12
  BY DEF Step
<1>4. \A f \in firsts : /\ f.y \in r.y..last /\ f.m \in 1..12 /\ f \in Dates /\ f.d = 1
                        /\ Apart(r, f) = Month(f) - Month(r) /\ Month(f) \in Int
  <2>1. TAKE f \in firsts
  <2>2. PICK y \in r.y..last, m \in 1..12 : f = Date(y, m, 1)
    BY <2>1
  <2>3. f.y = y /\ f.m = m /\ f.d = 1 /\ f \in Dates
    BY <2>2 DEF Date, Dates
  <2>4. QED
    BY <1>2, <2>3 DEF Apart, Month
<1>5. ASSUME NEW y \in r.y..last, NEW m \in 1..12 PROVE Date(y, m, 1) \in firsts
  <2> DEFINE p == <<y, m>>
  <2>2. p \in (r.y..last) \X (1..12) /\ p[1] = y /\ p[2] = m
    OBVIOUS
  <2> HIDE DEF p
  <2>3. QED
    BY <2>2
<1>6. Month(r) \in Int
  BY <1>2 DEF Month
<1> HIDE DEF firsts, last, s
<1>7. ASSUME NEW f \in firsts, Apart(r, f) >= 0, Apart(r, f) % s = 0
      PROVE  \E k \in Nat : On(f) = CyclesLater(r, k, s) /\ On(f).y <= last
  <2>1. PICK k \in Nat : k * s = Apart(r, f)
    <3>1. Apart(r, f) \in Nat
      BY <1>4, <1>6, <1>7
    <3>2. CASE s = 1
      BY <3>1, <3>2
    <3>3. CASE s = 12
      <4>1. Apart(r, f) \div 12 \in Nat /\ (Apart(r, f) \div 12) * 12 = Apart(r, f)
        BY <1>7, <3>1, <3>3
      <4>2. QED
        BY <3>3, <4>1
    <3>4. QED
      BY <1>3, <3>2, <3>3
  <2>2. /\ f.y \in r.y..last /\ f.m \in 1..12 /\ f.y \in Int /\ f.m \in Int
        /\ Month(f) = Month(r) + k * s
    BY <1>2, <1>4, <1>6, <2>1
  <2>3. r.y * 12 + (r.m - 1) + k * s = f.y * 12 + (f.m - 1)
    <3>1. k * s \in Int
      BY <1>3
    <3>2. QED
      BY <1>2, <2>2, <3>1 DEF Month
  <2>4. (f.y * 12 + (f.m - 1)) \div 12 = f.y /\ ((f.y * 12 + (f.m - 1)) % 12) + 1 = f.m
    BY <2>2
  <2>5. AddMonths(r, k * s) = On(f)
    BY <2>3, <2>4 DEF AddMonths
  <2>6. On(f).y = f.y
    BY DEF Date
  <2>7. QED
    BY <1>2, <2>2, <2>5, <2>6 DEF CyclesLater
<1>8. ASSUME NEW k \in Nat, x = CyclesLater(r, k, s), x.y <= last
      PROVE  \E f \in firsts : Apart(r, f) >= 0 /\ Apart(r, f) % s = 0 /\ x = On(f)
  <2>1. k * s \in Int /\ 0 <= k * s /\ (k * s) % s = 0
    <3>1. CASE s = 1
      BY <3>1
    <3>2. CASE s = 12
      BY <3>2
    <3>3. QED
      BY <1>3, <3>1, <3>2
  <2>2. /\ x \in Dates /\ InCalendar(x) /\ Month(x) = Month(r) + k * s
        /\ x.d = Least(r.d, DaysInMonth(x.y, x.m))
    <3> DEFINE n == k * s
    <3>1. n \in Int /\ x = AddMonths(r, n)
      BY <1>8, <2>1 DEF CyclesLater
    <3> HIDE DEF n
    <3>2. /\ AddMonths(r, n) \in Dates /\ InCalendar(AddMonths(r, n))
          /\ Month(AddMonths(r, n)) = Month(r) + n
          /\ AddMonths(r, n).d = Least(r.d, DaysInMonth(AddMonths(r, n).y, AddMonths(r, n).m))
      BY <3>1, AddedMonths
    <3>3. /\ x \in Dates /\ InCalendar(x) /\ Month(x) = Month(r) + n
          /\ x.d = Least(r.d, DaysInMonth(x.y, x.m))
      BY <3>1, <3>2, Zenon
    <3>4. QED
      BY <3>3 DEF n
  <2>3. x.y \in Int /\ x.m \in 1..12 /\ x.m \in Int
    BY <2>2 DEF Dates, InCalendar
  <2>4. r.y <= x.y
    BY <1>2, <2>1, <2>2, <2>3 DEF Month
  <2>5. Date(x.y, x.m, 1) \in firsts
    BY <1>2, <1>5, <1>8, <2>3, <2>4
  <2>6. Date(x.y, x.m, 1).y = x.y /\ Date(x.y, x.m, 1).m = x.m
    BY DEF Date
  <2>7. Month(Date(x.y, x.m, 1)) = Month(x)
    BY <2>6 DEF Month
  <2>8. Apart(r, Date(x.y, x.m, 1)) = k * s
    BY <1>4, <1>6, <2>1, <2>2, <2>5, <2>7
  <2>9. x = On(Date(x.y, x.m, 1))
    BY <2>2, <2>6 DEF Dates, Date
  <2>10. QED
    BY <2>1, <2>5, <2>8, <2>9
<1>9. QED
  BY <1>1, <1>7, <1>8 DEF last, s

(* The k-th renewal, by its month.                                         *)
LEMMA CyclesAre ==
  ASSUME NEW e, e.renews \in Dates, InCalendar(e.renews), NEW k \in Nat
  PROVE  LET s == Step(e.cycle)
             c == CyclesLater(e.renews, k, s)
         IN  /\ s \in Nat /\ k * s \in Nat /\ Month(e.renews) \in Int
             /\ c \in Dates /\ InCalendar(c) /\ Month(c) = Month(e.renews) + k * s
<1> DEFINE s == Step(e.cycle)
           n == k * s
<1>1. s \in Nat /\ n \in Nat
  <2>1. s = 1 \/ s = 12
    BY DEF Step
  <2>2. CASE s = 1
    BY <2>2
  <2>3. CASE s = 12
    BY <2>3
  <2>4. QED
    BY <2>1, <2>2, <2>3
<1> HIDE DEF s, n
<1>2. /\ Month(e.renews) \in Int
      /\ AddMonths(e.renews, n) \in Dates /\ InCalendar(AddMonths(e.renews, n))
      /\ Month(AddMonths(e.renews, n)) = Month(e.renews) + n
  BY <1>1, AddedMonths
<1>3. CyclesLater(e.renews, k, s) = AddMonths(e.renews, n)
  BY DEF CyclesLater, n
<1>4. QED
  BY <1>1, <1>2, <1>3, Zenon DEF s, n

(* k is the least number of cycles that leads to today or beyond.          *)
IsFirst(e, asof, k) ==
    /\ k \in Nat /\ ~Before(CyclesLater(e.renews, k, Step(e.cycle)), asof)
    /\ \A j \in Nat : j < k => Before(CyclesLater(e.renews, j, Step(e.cycle)), asof)

Guess(e, asof) == Greater(Apart(e.renews, asof) \div Step(e.cycle), 1)
FirstCycle(e, asof) ==
    IF Before(CyclesLater(e.renews, Guess(e, asof), Step(e.cycle)), asof) THEN Guess(e, asof) + 1
    ELSE Guess(e, asof)

LEMMA CyclesInOrder ==
  ASSUME NEW e, e.renews \in Dates, InCalendar(e.renews), NEW asof \in Dates, InCalendar(asof),
         NEW k \in Nat
  PROVE  /\ Month(e.renews) + k * Step(e.cycle) < Month(asof)
              => Before(CyclesLater(e.renews, k, Step(e.cycle)), asof)
         /\ Month(asof) < Month(e.renews) + k * Step(e.cycle)
              => ~Before(CyclesLater(e.renews, k, Step(e.cycle)), asof)
<1> DEFINE c == CyclesLater(e.renews, k, Step(e.cycle))
<1>1. c \in Dates /\ InCalendar(c) /\ Month(c) = Month(e.renews) + k * Step(e.cycle)
  BY CyclesAre
<1> HIDE DEF c
<1>2. /\ Month(c) < Month(asof) => Before(c, asof)
      /\ Month(asof) < Month(c) => ~Before(c, asof)
  BY <1>1, MonthsInOrder
<1>3. QED
  BY <1>1, <1>2 DEF c

LEMMA GuessIsClose ==
  ASSUME NEW e, e.renews \in Dates, InCalendar(e.renews), NEW asof \in Dates, InCalendar(asof),
         Before(e.renews, asof)
  PROVE  /\ IsFirst(e, asof, FirstCycle(e, asof))
         /\ Month(e.renews) + FirstCycle(e, asof) * Step(e.cycle) <= Month(asof) + 12
<1> DEFINE R == Month(e.renews)
           T == Month(asof)
           s == Step(e.cycle)
           g == Guess(e, asof)
           k == FirstCycle(e, asof)
           c(j) == CyclesLater(e.renews, j, s)
<1>1. R \in Int /\ T \in Int /\ R <= T /\ Apart(e.renews, asof) = T - R
  <2>1. e.renews.y \in Int /\ asof.y \in Int /\ e.renews.m \in Int /\ asof.m \in Int
    BY DEF Dates
  <2>2. R \in Int /\ T \in Int /\ Apart(e.renews, asof) = T - R
    BY <2>1 DEF Month, Apart
  <2>3. R <= T
    BY MonthsInOrder
  <2>4. QED
    BY <2>2, <2>3
<1>2. s = 1 \/ s = 12
  BY DEF Step
<1>3. \A j \in Nat : /\ R + j * s < T => Before(c(j), asof)
                     /\ T < R + j * s => ~Before(c(j), asof)
  BY CyclesInOrder
<1>4. c(0) = e.renews
  <2>1. 0 * s = 0
    BY <1>2
  <2>2. QED
    BY <2>1, NoMonthsLater DEF CyclesLater
<1>5. g = Greater((T - R) \div s, 1)
  BY <1>1 DEF Guess
<1>6. k = IF Before(c(g), asof) THEN g + 1 ELSE g
  BY DEF FirstCycle
<1> HIDE DEF R, T, s, g, k, c
<1>7. g \in Nat /\ g >= 1 /\ (\A j \in Nat : j < g => j = 0 \/ R + j * s < T) /\ T < R + (g + 1) * s
      /\ R + g * s <= T + 12
  <2>1. CASE s = 1
    BY <1>1, <1>5, <2>1 DEF Greater
  <2>2. CASE s = 12
    <3> DEFINE q == (T - R) \div 12
    <3>1. q \in Nat /\ 12 * q <= T - R /\ T - R < 12 * (q + 1)
      BY <1>1
    <3> HIDE DEF q
    <3>2. g = Greater(q, 1)
      BY <1>5, <2>2 DEF q
    <3>3. g \in Nat /\ g >= 1 /\ T < R + (g + 1) * 12 /\ R + g * 12 <= T + 12
      BY <1>1, <3>1, <3>2 DEF Greater
    <3>4. ASSUME NEW j \in Nat, j < g PROVE j = 0 \/ R + j * 12 < T
      BY <1>1, <3>1, <3>2, <3>4 DEF Greater
    <3>5. QED
      BY <2>2, <3>3, <3>4
  <2>3. QED
    BY <1>2, <2>1, <2>2
<1>8. \A j \in Nat : j < g => Before(c(j), asof)
  BY <1>3, <1>4, <1>7
<1>9. CASE ~Before(c(g), asof)
  BY <1>6, <1>7, <1>8, <1>9 DEF IsFirst, c, k, g, s, R, T
<1>10. CASE Before(c(g), asof)
  <2>1. k = g + 1 /\ k \in Nat
    BY <1>6, <1>7, <1>10
  <2>2. ~Before(c(k), asof)
    BY <1>3, <1>7, <2>1
  <2>3. \A j \in Nat : j < k => Before(c(j), asof)
    BY <1>7, <1>8, <1>10, <2>1
  <2>4. R + k * s <= T + 12
    <3>1. R + g * s <= T
      BY <1>1, <1>2, <1>3, <1>7, <1>10
    <3>2. QED
      BY <1>1, <1>2, <1>7, <2>1, <3>1
  <2>5. QED
    BY <2>1, <2>2, <2>3, <2>4 DEF IsFirst, c, k, s, R, T
<1>11. QED
  BY <1>9, <1>10

(* What may be expected of the entries of a book.                          *)
LEMMA DatesOfEntries ==
  ASSUME NEW e \in NewPlans, Valid(e)
  PROVE  /\ e.renews # NoDate => e.renews \in Dates /\ InCalendar(e.renews)
         /\ e.renews # NoDate <=> Cyclic(e)
<1>1. e.renews \in Renewals \cup {NoDate}
  BY DEF NewPlans
<1>2. QED
  BY <1>1, PlansAssumption DEF Valid, Cyclic, Dates

(* The renewal that is shown is the first of its series from today on.     *)
LEMMA NextIsFirst ==
  ASSUME NEW e \in NewPlans, Valid(e), NEW asof \in Dates, InCalendar(asof),
         NEW n \in NextRenewal(e, asof)
  PROVE  /\ n.date \in Dates /\ InCalendar(n.date) /\ n.days_left = ToDays(n.date) - ToDays(asof)
         /\ n.date \in Series(e, asof) /\ ~Before(n.date, asof)
         /\ \A c \in Series(e, asof) : ~Before(c, asof) => ~Before(c, n.date)
<1> DEFINE r == e.renews
           s == Step(e.cycle)
           C(k) == CyclesLater(r, k, s)
<1>1. r # NoDate /\ r \in Dates /\ InCalendar(r) /\ e.cycle # "none"
  BY DatesOfEntries DEF NextRenewal, Cyclic
<1>2. ASSUME NEW k, IsFirst(e, asof, k), C(k).y <= Greater(r.y, asof.y) + 1
      PROVE  /\ C(k) \in Dates /\ InCalendar(C(k)) /\ C(k) \in Series(e, asof) /\ ~Before(C(k), asof)
             /\ \A c \in Series(e, asof) : ~Before(c, asof) => ~Before(c, C(k))
  <2>1. k \in Nat /\ ~Before(C(k), asof) /\ \A j \in Nat : j < k => Before(C(j), asof)
    BY <1>2 DEF IsFirst
  <2>2. \A j \in Nat : C(j) \in Dates /\ InCalendar(C(j)) /\ Month(C(j)) = Month(r) + j * s
    BY <1>1, CyclesAre
  <2>3. s \in Nat /\ s > 0 /\ Month(r) \in Int
    BY <1>1, CyclesAre DEF Step
  <2>4. C(k) \in Series(e, asof)
    BY <1>1, <1>2, <2>1, SeriesIs
  <2>5. ASSUME NEW c \in Series(e, asof), ~Before(c, asof) PROVE ~Before(c, C(k))
    <3>1. PICK j \in Nat : c = C(j)
      BY <1>1, SeriesIs
    <3>2. k <= j
      BY <2>1, <2>5, <3>1
    <3>3. CASE j = k
      <4>1. Before(c, c) => ~Before(c, c)
        BY <2>2, <3>1, MonthsInOrder
      <4>2. QED
        BY <3>1, <3>3, <4>1
    <3>4. CASE k < j
      <4>1. k * s < j * s
        <5>1. s = 1 \/ s = 12
          BY DEF Step
        <5>2. CASE s = 1
          BY <2>1, <3>4, <5>2
        <5>3. CASE s = 12
          BY <2>1, <3>4, <5>3
        <5>4. QED
          BY <5>1, <5>2, <5>3
      <4>2. k * s \in Int /\ j * s \in Int
        BY <1>1, <2>1, CyclesAre
      <4>3. Month(C(k)) < Month(C(j))
        BY <2>1, <2>2, <2>3, <4>1, <4>2
      <4>4. QED
        BY <2>1, <2>2, <3>1, <4>3, MonthsInOrder
    <3>5. QED
      BY <2>1, <3>2, <3>3, <3>4
  <2>6. QED
    BY <2>1, <2>2, <2>4, <2>5
<1>3. CASE ~Before(r, asof)
  <2>1. n.date = r /\ n.days_left = ToDays(n.date) - ToDays(asof)
    BY <1>1, <1>3 DEF NextRenewal
  <2>2. C(0) = r
    <3>1. 0 * s = 0
      BY DEF Step
    <3>2. QED
      BY <1>1, <3>1, NoMonthsLater DEF CyclesLater
  <2>3. IsFirst(e, asof, 0)
    BY <1>3, <2>2 DEF IsFirst
  <2>4. r.y <= Greater(r.y, asof.y) + 1
    BY <1>1 DEF Greater, Dates
  <2>5. QED
    BY <1>2, <2>1, <2>2, <2>3, <2>4
<1>4. CASE Before(r, asof)
  <2> DEFINE k == FirstCycle(e, asof)
  <2>1. n.date = C(k) /\ n.days_left = ToDays(n.date) - ToDays(asof)
    BY <1>1, <1>4 DEF NextRenewal, FirstCycle, Guess
  <2>2. IsFirst(e, asof, k) /\ Month(r) + k * s <= Month(asof) + 12
    BY <1>1, <1>4, GuessIsClose
  <2> HIDE DEF k
  <2>3. k \in Nat
    BY <2>2 DEF IsFirst
  <2>4. C(k) \in Dates /\ InCalendar(C(k)) /\ Month(C(k)) <= Month(asof) + 12
    BY <1>1, <2>2, <2>3, CyclesAre
  <2>5. C(k).y <= Greater(r.y, asof.y) + 1
    <3> DEFINE d == C(k)
    <3>1. d.y \in Int /\ d.m \in Int /\ 1 <= d.m /\ asof.y \in Int /\ asof.m \in Int /\ asof.m <= 12
          /\ r.y \in Int
      BY <1>1, <2>4 DEF Dates, InCalendar
    <3>2. Month(d) <= Month(asof) + 12
      BY <2>4
    <3> HIDE DEF d
    <3>3. d.y <= Greater(r.y, asof.y) + 1
      BY <3>1, <3>2 DEF Month, Greater
    <3>4. QED
      BY <3>3 DEF d
  <2>6. QED
    BY <1>2, <2>1, <2>2, <2>5
<1>5. QED
  BY <1>3, <1>4

LEMMA NextExists ==
  ASSUME NEW e, Cyclic(e), NEW asof
  PROVE  NextRenewal(e, asof) # {}
BY DEF NextRenewal, Cyclic

(* A year has one renewal or twelve.                                       *)
LEMMA RenewalsOfAYear ==
  ASSUME NEW e \in NewPlans, Valid(e), Cyclic(e)
  PROVE  12 \div Step(e.cycle) = Cardinality(InAYear(e))
<1> DEFINE r == e.renews
           s == Step(e.cycle)
           N == 12 \div s
           C(k) == CyclesLater(r, k, s)
           K == 1..N
           f == [i \in K |-> C(i - 1)]
<1>1. r \in Dates /\ InCalendar(r)
  BY DatesOfEntries
<1>2. N \in Nat /\ s \in Nat /\ ((s = 1 /\ N = 12) \/ (s = 12 /\ N = 1))
  BY DEF Step
<1> HIDE DEF N, s
<1>13. ASSUME NEW k \in Nat
       PROVE  /\ k < N => k * s <= 11
              /\ N < k => 12 < k * s
              /\ \A j \in Nat : k * s = j * s => k = j
  <2>1. CASE s = 1 /\ N = 12
    BY <2>1
  <2>2. CASE s = 12 /\ N = 1
    BY <2>2
  <2>3. QED
    BY <1>2, <2>1, <2>2
<1>3. \A k \in Nat : /\ k * s \in Nat /\ C(k) \in Dates /\ InCalendar(C(k)) /\ Month(r) \in Int
                     /\ Month(C(k)) = Month(r) + k * s
  BY <1>1, CyclesAre DEF s
<1>4. /\ AddMonths(r, 12) \in Dates /\ InCalendar(AddMonths(r, 12))
      /\ Month(AddMonths(r, 12)) = Month(r) + 12
  BY <1>1, AddedMonths
<1>5. \A k \in Nat : Before(C(k), AddMonths(r, 12)) <=> k < N
  <2> SUFFICES ASSUME NEW k \in Nat PROVE Before(C(k), AddMonths(r, 12)) <=> k < N
    OBVIOUS
  <2>1. CASE k < N
    <3>1. Month(C(k)) < Month(AddMonths(r, 12))
      <4>1. k * s \in Int /\ k * s <= 11
        BY <1>3, <1>13, <2>1
      <4>2. QED
        BY <1>3, <1>4, <4>1
    <3>2. QED
      BY <1>3, <1>4, <2>1, <3>1, MonthsInOrder
  <2>2. CASE k = N
    <3>1. k * s = 12
      BY <1>2, <2>2
    <3>2. C(k) = AddMonths(r, 12)
      BY <3>1 DEF CyclesLater
    <3>3. ~Before(C(k), C(k))
      BY <1>3, MonthsInOrder
    <3>4. QED
      BY <1>2, <2>2, <3>2, <3>3
  <2>3. CASE k > N
    <3>1. Month(AddMonths(r, 12)) < Month(C(k))
      <4>1. k * s \in Int /\ 12 < k * s
        BY <1>2, <1>3, <1>13, <2>3
      <4>2. QED
        BY <1>3, <1>4, <4>1
    <3>2. ~Before(C(k), AddMonths(r, 12))
      BY <1>3, <1>4, <3>1, MonthsInOrder
    <3>3. QED
      BY <1>2, <2>3, <3>2
  <2>4. QED
    BY <1>2, <2>1, <2>2, <2>3
<1>6. \A k \in Nat : k < N => C(k).y <= Greater(r.y, r.y) + 1
  <2> SUFFICES ASSUME NEW k \in Nat, k < N PROVE C(k).y <= Greater(r.y, r.y) + 1
    OBVIOUS
  <2> DEFINE d == C(k)
  <2>1. d \in Dates /\ InCalendar(d) /\ Month(d) <= Month(r) + 11
    <3>1. k * s \in Int /\ k * s <= 11
      BY <1>3, <1>13
    <3>2. QED
      BY <1>3, <3>1
  <2>2. d.y \in Int /\ d.m \in Int /\ 1 <= d.m /\ r.y \in Int /\ r.m \in Int /\ r.m <= 12
    BY <1>1, <2>1 DEF Dates, InCalendar
  <2> HIDE DEF d
  <2>3. d.y <= r.y + 1
    BY <2>1, <2>2 DEF Month
  <2>4. QED
    BY <2>2, <2>3 DEF Greater, d
<1>7. \A c : c \in InAYear(e) <=> \E i \in K : c = C(i - 1)
  <2> SUFFICES ASSUME NEW c PROVE c \in InAYear(e) <=> \E i \in K : c = C(i - 1)
    OBVIOUS
  <2>1. c \in InAYear(e) <=> \E k \in Nat : k < N /\ c = C(k)
    <3>1. c \in InAYear(e) <=> c \in Series(e, r) /\ Before(c, AddMonths(r, 12))
      BY DEF InAYear
    <3>2. c \in Series(e, r) <=> \E k \in Nat : c = C(k) /\ c.y <= Greater(r.y, r.y) + 1
      BY <1>1, SeriesIs DEF s
    <3>3. QED
      BY <1>5, <1>6, <3>1, <3>2
  <2>2. (\E k \in Nat : k < N /\ c = C(k)) <=> \E i \in K : c = C(i - 1)
    <3>1. ASSUME NEW k \in Nat, k < N, c = C(k) PROVE \E i \in K : c = C(i - 1)
      <4>1. k + 1 \in K /\ (k + 1) - 1 = k
        BY <1>2, <3>1
      <4>2. QED
        BY <3>1, <4>1
    <3>2. ASSUME NEW i \in K, c = C(i - 1) PROVE \E k \in Nat : k < N /\ c = C(k)
      <4>1. i - 1 \in Nat /\ i - 1 < N
        BY <1>2
      <4>2. QED
        BY <3>2, <4>1
    <3>3. QED
      BY <3>1, <3>2
  <2>3. QED
    BY <2>1, <2>2
<1>8. \A i, j \in K : C(i - 1) = C(j - 1) => i = j
  <2> SUFFICES ASSUME NEW i \in K, NEW j \in K, C(i - 1) = C(j - 1) PROVE i = j
    OBVIOUS
  <2>1. i - 1 \in Nat /\ j - 1 \in Nat
    BY <1>2
  <2>2. (i - 1) * s = (j - 1) * s
    <3> DEFINE a == (i - 1) * s
               b == (j - 1) * s
    <3>1. a \in Int /\ b \in Int /\ Month(r) \in Int /\ Month(r) + a = Month(r) + b
      BY <1>3, <2>1
    <3> HIDE DEF a, b
    <3>2. a = b
      BY <3>1
    <3>3. QED
      BY <3>2 DEF a, b
  <2>3. QED
    BY <1>2, <1>13, <2>1, <2>2
<1>9. f \in Bijection(K, InAYear(e))
  <2> HIDE DEF C, K
  <2>1. f \in [K -> InAYear(e)] /\ \A i \in K : f[i] = C(i - 1)
    BY <1>7
  <2>2. \A i, j \in K : f[i] = f[j] => i = j
    BY <1>8, <2>1
  <2>3. \A c \in InAYear(e) : \E i \in K : f[i] = c
    BY <1>7, <2>1
  <2> HIDE DEF f
  <2>4. QED
    BY <2>1, <2>2, <2>3 DEF Bijection, Injection, Surjection, IsInjective
<1>10. ExistsBijection(K, InAYear(e))
  BY <1>9 DEF ExistsBijection
<1>11. IsFiniteSet(K) /\ Cardinality(K) = N
  <2> HIDE DEF N
  <2>1. N \in Int /\ 1 \in Int
    BY <1>2
  <2>2. QED
    BY <1>2, <2>1, FS_Interval
<1>12. QED
  BY <1>10, <1>11, FS_Bijection DEF N, s

(* Every entry is counted once.                                            *)
LEMMA EntriesAreCounted ==
  ASSUME NEW book, IsFiniteSet(DOMAIN book), \A id \in DOMAIN book : book[id].kind \in Kinds
  PROVE  Cardinality(DOMAIN book) = Cardinality(DOMAIN Totals(book).monthly)
                                    + Totals(book).without_amount + Totals(book).api_accounts
<1> DEFINE D == DOMAIN book
           A == Added(book)
           S == {id \in D : book[id].kind = "subscription"}
           P == {id \in D : book[id].kind = "api"}
<1>1. DOMAIN Totals(book).monthly = A /\ Totals(book).without_amount = Cardinality(S \ A)
      /\ Totals(book).api_accounts = Cardinality(P)
  BY DEF Totals
<1>2. A \subseteq S /\ S \subseteq D /\ P \subseteq D /\ S \cap P = {} /\ S \cup P = D
  BY DEF Added, Kinds
<1> HIDE DEF D, A, S, P
<1>3. IsFiniteSet(S) /\ IsFiniteSet(P) /\ IsFiniteSet(A) /\ IsFiniteSet(S \ A)
  <2>1. IsFiniteSet(D)
    BY DEF D
  <2>2. IsFiniteSet(S) /\ IsFiniteSet(P)
    BY <1>2, <2>1, FS_Subset
  <2>3. A \in SUBSET S /\ S \ A \in SUBSET S
    BY <1>2
  <2>4. QED
    BY <2>2, <2>3, FS_Subset
<1>4. /\ Cardinality(S) \in Nat /\ Cardinality(P) \in Nat /\ Cardinality(A) \in Nat
      /\ Cardinality(S \ A) \in Nat /\ Cardinality({}) = 0
  BY <1>3, FS_CardinalityType, FS_EmptySet
<1>5. Cardinality(S \cup P) = Cardinality(S) + Cardinality(P)
  BY <1>2, <1>3, DisjointUnion
<1>6. Cardinality(A \cup (S \ A)) = Cardinality(A) + Cardinality(S \ A)
  <2>1. A \cap (S \ A) = {}
    OBVIOUS
  <2>2. QED
    BY <1>3, <2>1, DisjointUnion
<1>7. S \cup P = D /\ A \cup (S \ A) = S
  BY <1>2
<1>8. Cardinality(D) = Cardinality(A) + Cardinality(S \ A) + Cardinality(P)
  BY <1>4, <1>5, <1>6, <1>7
<1>9. QED
  BY <1>1, <1>8 DEF D

LEMMA RenewalsAreRight ==
  ASSUME today \in Days, IsBook(BookOf(plans)), IsFiniteSet(DOMAIN BookOf(plans))
  PROVE  RenewalsInSeries
<1> DEFINE book     == BookOf(plans)
           ahead(e) == {c \in Series(e, Today) : ~Before(c, Today)}
           soon(e)  == {c \in ahead(e) : ToDays(c) - today <= Soon}
<1>1. today \in Nat /\ Soon \in Nat
  BY PlansAssumption
<1>2. /\ Today \in Dates /\ InCalendar(Today) /\ ToDays(Today) = today /\ OneCalendar(today)
  BY <1>1, EveryDayIsADate DEF OneCalendar, Today
<1>3. ASSUME NEW id \in DOMAIN book, NEW n \in NextRenewal(book[id], Today)
      PROVE  /\ n.date \in ahead(book[id]) /\ \A c \in ahead(book[id]) : ~Before(c, n.date)
             /\ CivilFromDays(today + n.days_left) = n.date
             /\ n.date \in Dates /\ InCalendar(n.date) /\ ToDays(n.date) \in Int
             /\ n.days_left = ToDays(n.date) - today
  <2>1. book[id] \in NewPlans /\ Valid(book[id])
    BY DEF IsBook
  <2>2. /\ n.date \in Dates /\ InCalendar(n.date) /\ n.days_left = ToDays(n.date) - ToDays(Today)
        /\ n.date \in Series(book[id], Today) /\ ~Before(n.date, Today)
        /\ \A c \in Series(book[id], Today) : ~Before(c, Today) => ~Before(c, n.date)
    BY <1>2, <2>1, NextIsFirst
  <2>3. ToDays(n.date) \in Int /\ CivilFromDays(ToDays(n.date)) = n.date
    BY <2>2, ThereAndBack
  <2>4. today + n.days_left = ToDays(n.date)
    BY <1>1, <1>2, <2>2, <2>3
  <2>5. QED
    BY <1>2, <2>2, <2>3, <2>4
<1>4. ASSUME NEW id \in DOMAIN book, Cyclic(book[id])
      PROVE  id \in Upcoming(book, Today, Soon) <=> soon(book[id]) # {}
  <2> DEFINE e == book[id]
  <2>1. PICK n : n \in NextRenewal(e, Today)
    BY <1>4, NextExists
  <2>2. \A m \in NextRenewal(e, Today) : m = n
    BY <2>1 DEF NextRenewal
  <2>3. id \in Upcoming(book, Today, Soon) <=> n.days_left <= Soon
    BY <2>1, <2>2 DEF Upcoming
  <2>4. /\ n.date \in ahead(e) /\ \A c \in ahead(e) : ~Before(c, n.date)
        /\ n.date \in Dates /\ InCalendar(n.date) /\ ToDays(n.date) \in Int
        /\ n.days_left = ToDays(n.date) - today
    BY <1>3, <2>1
  <2>5. ASSUME NEW c \in ahead(e) PROVE ToDays(c) \in Int /\ ToDays(n.date) <= ToDays(c)
    <3>1. c \in Dates /\ InCalendar(c)
      <4>1. e.renews \in Dates /\ InCalendar(e.renews)
        BY <1>4, DatesOfEntries DEF IsBook
      <4>2. PICK k \in Nat : c = CyclesLater(e.renews, k, Step(e.cycle))
        BY <1>2, <4>1, SeriesIs
      <4>3. QED
        BY <4>1, <4>2, CyclesAre
    <3>2. ~Before(c, n.date)
      BY <2>4
    <3>3. ToDays(c) \in Int
      BY <3>1, ThereAndBack
    <3>4. ~(ToDays(c) < ToDays(n.date))
      BY <2>4, <3>1, <3>2, DaysInOrder
    <3>5. QED
      BY <2>4, <3>3, <3>4
  <2> HIDE DEF e, ahead
  <2>6. soon(e) # {} <=> ToDays(n.date) - today <= Soon
    <3>1. ASSUME ToDays(n.date) - today <= Soon PROVE soon(e) # {}
      BY <2>4, <3>1
    <3>2. ASSUME NEW c \in soon(e) PROVE ToDays(n.date) - today <= Soon
      <4>1. c \in ahead(e) /\ ToDays(c) - today <= Soon
        OBVIOUS
      <4>2. QED
        BY <1>1, <2>4, <2>5, <4>1
    <3>3. QED
      BY <3>1, <3>2
  <2>7. QED
    BY <2>3, <2>4, <2>6 DEF e
<1>5. ASSUME NEW id \in DOMAIN book, Cyclic(book[id]), id \in DOMAIN Totals(book).monthly
      PROVE  Totals(book).monthly[id] = book[id].amount * Cardinality(InAYear(book[id]))
  <2>1. DOMAIN Totals(book).monthly = Added(book)
    BY DEF Totals
  <2>2. Totals(book).monthly[id] = book[id].amount * (12 \div Step(book[id].cycle))
    BY <1>5, <2>1 DEF Totals
  <2>3. 12 \div Step(book[id].cycle) = Cardinality(InAYear(book[id]))
    BY <1>5, RenewalsOfAYear DEF IsBook
  <2>4. QED
    BY <2>2, <2>3
<1>6. Cardinality(DOMAIN book) = Cardinality(DOMAIN Totals(book).monthly)
                                 + Totals(book).without_amount + Totals(book).api_accounts
  <2>1. \A id \in DOMAIN book : book[id].kind \in Kinds
    BY DEF IsBook, NewPlans
  <2>2. QED
    BY <2>1, EntriesAreCounted
<1>7. QED
  BY <1>2, <1>3, <1>4, <1>5, <1>6 DEF RenewalsInSeries

(* However many entries there are, they were entered one by one.           *)
FiniteInv == IsFiniteSet(DOMAIN BookOf(plans)) /\ IsFiniteSet(DOMAIN edit.buf)

LEMMA NothingIsFinite == IsFiniteSet(DOMAIN <<>>)
<1>1. DOMAIN <<>> = {}
  OBVIOUS
<1>2. QED
  BY <1>1, FS_EmptySet

LEMMA ChangedIsFinite ==
  ASSUME EditInv, edit.at = "load", NEW book, IsFiniteSet(DOMAIN book), ~Refused(book)
  PROVE  IsFiniteSet(DOMAIN Changed(book))
<1>1. edit.name \in {"upsert", "remove", "confirm"}
  BY DEF EditInv
<1>2. \A e : IsFiniteSet(DOMAIN Put(book, edit.id, e))
  <2>1. IsFiniteSet(DOMAIN book \cup {edit.id})
    BY FS_AddElement
  <2>2. QED
    BY <2>1 DEF Put
<1>3. IsFiniteSet(DOMAIN Without(book, edit.id))
  <2>1. IsFiniteSet(DOMAIN book \ {edit.id})
    BY FS_RemoveElement
  <2>2. QED
    BY <2>1 DEF Without
<1>4. QED
  BY <1>1, <1>2, <1>3 DEF Changed

LEMMA InitFinite == Init => FiniteInv
  BY NothingIsFinite DEF Init, PlansFrom, NoEdit, BookOf, FiniteInv

LEMMA StepFinite == EditInv /\ FiniteInv /\ PlansNext => FiniteInv'
<1> SUFFICES ASSUME EditInv, FiniteInv, PlansNext PROVE FiniteInv'
  OBVIOUS
<1>1. ASSUME edit' = NoEdit, IsFiniteSet(DOMAIN BookOf(plans')) PROVE FiniteInv'
  BY <1>1, NothingIsFinite DEF NoEdit, FiniteInv
<1>2. ASSUME NEW name, NEW id, NEW input, Begin(name, id, input) PROVE FiniteInv'
  <2>1. edit'.buf = <<>> /\ plans' = plans
    BY <1>2 DEF Begin, NoEdit
  <2>2. QED
    BY <2>1, NothingIsFinite DEF FiniteInv
<1>3. CASE BeginUpsert \/ BeginRemove \/ BeginConfirm
  BY <1>2, <1>3 DEF BeginUpsert, BeginRemove, BeginConfirm
<1>4. CASE LoadPlans
  <2>1. CASE edit' = NoEdit
    BY <1>1, <1>4, <2>1 DEF LoadPlans, FiniteInv
  <2>2. CASE edit' # NoEdit
    <3>1. /\ edit' = [edit EXCEPT !.at = "write", !.buf = Changed(BookOf(plans))]
          /\ plans' = plans /\ ~Refused(BookOf(plans)) /\ edit.at = "load"
      BY <1>4, <2>2 DEF LoadPlans
    <3>2. edit'.buf = Changed(BookOf(plans))
      BY <3>1 DEF EditInv, NoEdit
    <3>3. QED
      BY <3>1, <3>2, ChangedIsFinite DEF FiniteInv
  <2>3. QED
    BY <2>1, <2>2
<1>5. CASE SavePlans
  <2>1. CASE edit' = NoEdit
    BY <1>1, <1>5, <2>1 DEF SavePlans, FiniteInv
  <2>2. CASE edit' = [edit EXCEPT !.at = "rename"]
    <3>1. edit'.buf = edit.buf /\ plans' = plans
      BY <1>5, <2>2 DEF SavePlans, EditInv, NoEdit
    <3>2. QED
      BY <3>1 DEF FiniteInv
  <2>3. QED
    BY <1>5, <2>1, <2>2 DEF SavePlans
<1>6. CASE RenamePlans
  <2>1. edit' = NoEdit /\ plans' \in {edit.buf, plans}
    BY <1>6 DEF RenamePlans
  <2>2. IsFiniteSet(DOMAIN BookOf(edit.buf))
    BY NothingIsFinite DEF BookOf, FiniteInv
  <2>3. QED
    BY <1>1, <2>1, <2>2 DEF FiniteInv
<1>7. CASE KillEdit
  BY <1>1, <1>7 DEF KillEdit, FiniteInv
<1>8. CASE HandEdit
  BY <1>1, <1>8, NothingIsFinite DEF HandEdit, BookOf
<1>9. CASE TimePasses
  BY <1>1, <1>9 DEF TimePasses, FiniteInv
<1>10. QED
  BY <1>3, <1>4, <1>5, <1>6, <1>7, <1>8, <1>9 DEF PlansNext

LEMMA NextFinite == EditInv /\ FiniteInv /\ [Next]_vars => FiniteInv'
<1> SUFFICES ASSUME EditInv, FiniteInv, [Next]_vars PROVE FiniteInv'
  OBVIOUS
<1>1. CASE UNCHANGED pvars
  BY <1>1 DEF pvars, FiniteInv
<1>2. UNCHANGED pvars \/ PlansNext
  BY DEF Next, vars, PlansStep, UsageStep, ProjectStep, SystemStep, PanelStep, SnapshotsStep,
     DiagnosisStep
<1>3. QED
  BY <1>1, <1>2, StepFinite

(* Whatever dates users enter and whatever day it is: the calendars agree, *)
(* the renewal shown is the first of its series from today on, the warning *)
(* misses none that is near, and the totals count every entry once and a   *)
(* month as a twelfth of the renewals of a year.                           *)
THEOREM RenewalsAreInSeries == Spec => []RenewalsInSeries
<1>1. BookInv /\ FiniteInv => RenewalsInSeries
  BY RenewalsAreRight DEF BookInv, FiniteInv
<1>2. QED
  BY InitEdit, NextEdit, InitBook, NextBook, InitFinite, NextFinite, <1>1, PTL DEF Spec
=============================================================================
