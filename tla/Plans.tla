-------------------------------- MODULE Plans --------------------------------
(***************************************************************************)
(* The book of subscriptions and API accounts, velox-core/src/plans.rs:    *)
(* its edits, each of which reads the file, changes it and replaces it     *)
(* without a lock, and the renewal dates computed from it.  One edit at a  *)
(* time.  An entry keeps what the code decides on; names, purposes and     *)
(* notes are left out, and so is the order of the entries.                 *)
(***************************************************************************)
EXTENDS Calendar, FiniteSets

CONSTANTS
    PlanIds,     \* identities of entries
    Renewals,    \* dates a user types, not all in the calendar
    Inputs,      \* what a user asks upsert for
    Days,        \* days, since 1970, on which the clock may stand
    Soon,        \* for how many days upcoming looks ahead
    Nothing,     \* no file: a model value
    Garbled      \* a file that does not parse: a model value

ASSUME PlansAssumption ==
    /\ Days # {} /\ Days \subseteq Nat /\ Soon \in Nat
    /\ Renewals \subseteq [y : Int, m : Int, d : Int]

VARIABLES
    today,       \* the day of the clock (UTC)
    plans,       \* velox_plans.json: a book, Nothing or Garbled
    edit         \* the edit under way

pvars == <<today, plans, edit>>

NoDate  == Date(0, 0, 0)
Kinds   == {"subscription", "api"}
Cycles  == {"monthly", "yearly", "none"}
Today   == CivilFromDays(today)

(* 0 stands for an amount or a budget that is not given.  confirmed_at is  *)
(* only shown and is left out.                                             *)
NewPlans == [kind: Kinds, cycle: Cycles, renews: Renewals \cup {NoDate}, amount: Nat, budget: Nat]
Books    == UNION {[S -> NewPlans] : S \in SUBSET PlanIds}
ASSUME InputsAssumption ==
    /\ Inputs \subseteq NewPlans
    /\ \A S \in SUBSET PlanIds : {Nothing, Garbled} \cap [S -> NewPlans] = {}

(* build: what it refuses.                                                 *)
Valid(input) ==
    /\ input.budget > 0 => input.kind = "api"
    /\ input.renews # NoDate => InCalendar(input.renews) /\ input.cycle # "none"

(* Defect: a book that cannot be read is an empty one.                     *)
ReadableAlways(file) == TRUE

(* load_from: no file is an empty book, one that does not parse an error.  *)
Readable(file) == file # Garbled
BookOf(file) == IF file \in {Nothing, Garbled} THEN <<>> ELSE file

Put(book, id, e) == [i \in DOMAIN book \cup {id} |-> IF i = id THEN e ELSE book[i]]
Without(book, id) == [i \in DOMAIN book \ {id} |-> book[i]]

-----------------------------------------------------------------------------
(* Edits.                                                                  *)

NoEdit == [at |-> "idle", name |-> "none", id |-> "none", input |-> NoDate, buf |-> <<>>]

PlansFrom(some) == /\ today \in some /\ plans = Nothing /\ edit = NoEdit
PlansInit == PlansFrom(Days)

Begin(name, id, input) ==
    /\ edit = NoEdit
    /\ edit' = [NoEdit EXCEPT !.at = "load", !.name = name, !.id = id, !.input = input]
    /\ UNCHANGED <<today, plans>>

(* upsert builds before it loads; confirm may give a date or none.         *)
BeginUpsert  == \E id \in PlanIds, input \in Inputs : Valid(input) /\ Begin("upsert", id, input)
BeginRemove  == \E id \in PlanIds : Begin("remove", id, NoDate)
BeginConfirm == \E id \in PlanIds, c \in Renewals \cup {NoDate} : Begin("confirm", id, c)

Confirmed(e) == IF edit.input = NoDate THEN e ELSE [e EXCEPT !.renews = edit.input]

Changed(book) ==
    CASE edit.name = "upsert"  -> Put(book, edit.id, edit.input)
      [] edit.name = "remove"  -> Without(book, edit.id)
      [] edit.name = "confirm" -> Put(book, edit.id, Confirmed(book[edit.id]))

(* Defect: a date is confirmed without looking it up in the calendar.      *)
RefusedUnlessCyclic(book) ==
    \/ edit.name # "upsert" /\ edit.id \notin DOMAIN book
    \/ edit.name = "confirm" /\ edit.input # NoDate /\ book[edit.id].cycle = "none"

(* Only what is in the book is removed or confirmed, and only an entry     *)
(* with a cycle gets a date, which has to exist.                           *)
Refused(book) ==
    \/ edit.name # "upsert" /\ edit.id \notin DOMAIN book
    \/ /\ edit.name = "confirm" /\ edit.input # NoDate
       /\ ~InCalendar(edit.input) \/ book[edit.id].cycle = "none"

LoadPlans ==
    /\ edit.at = "load"
    /\ IF Readable(plans) /\ ~Refused(BookOf(plans))
       THEN edit' = [edit EXCEPT !.at = "write", !.buf = Changed(BookOf(plans))]
       ELSE edit' = NoEdit
    /\ UNCHANGED <<today, plans>>

(* save_to: a temporary file, which may fail, ...                          *)
SavePlans ==
    /\ edit.at = "write"
    /\ edit' \in {NoEdit, [edit EXCEPT !.at = "rename"]}
    /\ UNCHANGED <<today, plans>>

(* ... and a rename, which may fail.                                       *)
RenamePlans ==
    /\ edit.at = "rename"
    /\ \/ plans' = edit.buf
       \/ UNCHANGED plans
    /\ edit' = NoEdit
    /\ UNCHANGED today

KillEdit == edit # NoEdit /\ edit' = NoEdit /\ UNCHANGED <<today, plans>>

(* The user opens the file in an editor and breaks it, or moves it away.   *)
HandEdit == /\ edit = NoEdit
            /\ plans' \in {Nothing, Garbled}
            /\ UNCHANGED <<today, edit>>

TimePasses == /\ edit = NoEdit
              /\ \E day \in Days : day > today /\ today' = day
              /\ UNCHANGED <<plans, edit>>

PlansNext == BeginUpsert \/ BeginRemove \/ BeginConfirm \/ LoadPlans \/ SavePlans
             \/ RenamePlans \/ KillEdit \/ HandEdit \/ TimePasses

-----------------------------------------------------------------------------
(* Renewals.                                                               *)

Step(cycle) == IF cycle = "yearly" THEN 12 ELSE 1
Apart(a, b) == (b.y - a.y) * 12 + (b.m - a.m)
Greater(a, b) == IF a > b THEN a ELSE b

(* Defect: the day is clamped again and again.                             *)
DriftingCycles(start, k, step) ==
    LET Added[i \in 0..k] == IF i = 0 THEN start ELSE AddMonths(Added[i - 1], step)
    IN  Added[k]

(* k cycles after the date that was entered, not after the renewal before. *)
CyclesLater(start, k, step) == AddMonths(start, k * step)

(* next_renewal: the first guess of k is at most one too small.            *)
NextRenewal(e, now) ==
    IF e.renews = NoDate \/ (Before(e.renews, now) /\ e.cycle = "none") THEN {}
    ELSE IF ~Before(e.renews, now)
         THEN {[date |-> e.renews, days_left |-> ToDays(e.renews) - ToDays(now), derived |-> FALSE]}
    ELSE LET step  == Step(e.cycle)
             guess == Greater(Apart(e.renews, now) \div step, 1)
             k     == IF Before(CyclesLater(e.renews, guess, step), now) THEN guess + 1 ELSE guess
             date  == CyclesLater(e.renews, k, step)
         IN  {[date |-> date, days_left |-> ToDays(date) - ToDays(now), derived |-> TRUE]}

(* upcoming, without its order.                                            *)
Upcoming(book, now, within) ==
    {id \in DOMAIN book : \E n \in NextRenewal(book[id], now) : n.days_left <= within}

(* totals: only subscriptions with an amount and a cycle are added up, in  *)
(* twelfths of a month's amount so that a yearly one is exact.             *)
Added(book) == {id \in DOMAIN book : /\ book[id].kind = "subscription"
                                     /\ book[id].amount > 0 /\ book[id].cycle # "none"}
Totals(book) ==
    [monthly |-> [id \in Added(book) |-> book[id].amount * (12 \div Step(book[id].cycle))],
     without_amount |-> Cardinality({id \in DOMAIN book : book[id].kind = "subscription"}
                                    \ Added(book)),
     api_accounts |-> Cardinality({id \in DOMAIN book : book[id].kind = "api"})]
-----------------------------------------------------------------------------
(* Properties.                                                             *)

IsBook(book) == /\ DOMAIN book \subseteq PlanIds
                /\ \A id \in DOMAIN book : book[id] \in NewPlans /\ Valid(book[id])

PlansTypeOK ==
    /\ today \in Days
    /\ IsBook(BookOf(plans))
    /\ edit.at \in {"idle", "load", "write", "rename"} /\ IsBook(edit.buf)

(* The three calendars agree on every day, and the renewal shown is the    *)
(* first day from today on that has the day of month the user entered, or  *)
(* is the last of a shorter month, in a month of the entry's cycle.  The   *)
(* warning of what is due soon misses none, and what a month costs in the  *)
(* totals is a twelfth of the renewals of a year, every entry counted once.*)
Series(e, now) ==
    LET firsts == {Date(x[1], x[2], 1) :
                      x \in (e.renews.y..Greater(e.renews.y, now.y) + 1) \X (1..12)}
    IN  {Date(f.y, f.m, Least(e.renews.d, DaysInMonth(f.y, f.m))) :
            f \in {g \in firsts : /\ Apart(e.renews, g) >= 0
                                 /\ Apart(e.renews, g) % Step(e.cycle) = 0}}
Cyclic(e)  == e.renews # NoDate /\ e.cycle # "none"
InAYear(e) == {c \in Series(e, e.renews) : Before(c, AddMonths(e.renews, 12))}

RenewalsInSeries ==
    LET book     == BookOf(plans)
        ahead(e) == {c \in Series(e, Today) : ~Before(c, Today)}
        soon(e)  == {c \in ahead(e) : ToDays(c) - today <= Soon}
        totals   == Totals(book)
    IN  /\ OneCalendar(today)
        /\ \A id \in DOMAIN book :
             /\ \A n \in NextRenewal(book[id], Today) :
                  /\ n.date \in ahead(book[id])
                  /\ \A c \in ahead(book[id]) : ~Before(c, n.date)
                  /\ CivilFromDays(today + n.days_left) = n.date
             /\ Cyclic(book[id]) =>
                  (id \in Upcoming(book, Today, Soon) <=> soon(book[id]) # {})
             /\ Cyclic(book[id]) /\ id \in DOMAIN totals.monthly =>
                  totals.monthly[id] = book[id].amount * Cardinality(InAYear(book[id]))
        /\ Cardinality(DOMAIN book)
             = Cardinality(DOMAIN totals.monthly) + totals.without_amount + totals.api_accounts

(* Whatever fails and whenever it is killed, an edit changes one entry and *)
(* no other, and never replaces a book it could not read.                  *)
EditsTouchOneEntry ==
    [][plans' # plans /\ edit # NoEdit =>
         /\ Garbled \notin {plans, plans'}
         /\ \A id \in PlanIds \ {edit.id} :
               /\ id \in DOMAIN plans' <=> id \in DOMAIN BookOf(plans)
               /\ id \in DOMAIN plans' => plans'[id] = BookOf(plans)[id]]_pvars
=============================================================================
