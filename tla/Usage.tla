-------------------------------- MODULE Usage --------------------------------
(***************************************************************************)
(* What the usage pages say about money: the price table the user fills    *)
(* in, the estimate over the ledger's records of a period, the summary     *)
(* printed beside it, and the budget of an API account: velox-core's       *)
(* pricing.rs, the readers of ledger.rs and the budget half of plans.rs.   *)
(* A record also carries, as history, what its call really used.           *)
(***************************************************************************)
EXTENDS Calendar, Sequences, FiniteSetsExt

CONSTANTS
    Models,      \* models of the one provider of this instance
    Rates,       \* what the provider charges: [in, cached, out] per token
    Calls,       \* calls that may be made: see CallSet
    UsageDays,   \* days on which the clock may stand
    Budget,      \* the budget of the API account, 0 if none
    Shelf,       \* STALE_AFTER_DAYS (120)
    MaxCalls     \* bound: calls recorded

Nobody  == -1          \* a number the provider does not send
Dialects == {"total", "uncached"}   \* does input_tokens include the cache?
Statuses == {"Success", "Failed", "Cancelled", "PolicyDenied"}
CallSet ==
    [model: Models, status: Statuses, dialect: Dialects,
     used: [uncached: Nat, cached: Nat, out: Nat], reports: {"all", "output", "nothing"}]

ASSUME UsageAssumption ==
    /\ Rates \in [{"in", "cached", "out"} -> Nat] /\ Rates["cached"] <= Rates["in"]
    /\ Calls \subseteq CallSet /\ UsageDays # {} /\ UsageDays \subseteq Nat
    /\ {Budget, MaxCalls, Shelf} \subseteq Nat

VARIABLES
    now,         \* the day of the clock
    records,     \* the ledger's records, oldest first
    prices,      \* the models of velox_pricing.json: has the cache a price?
    effective    \* the day the prices were confirmed, or Nobody

uvars == <<now, records, prices, effective>>

UsageFrom(some) == now \in some /\ records = <<>> /\ prices = <<>> /\ effective = Nobody
UsageInit == UsageFrom(UsageDays)

-----------------------------------------------------------------------------
(* A call leaves a record with the usage its provider reported.            *)

(* Defect: what Anthropic calls input is taken for the whole input.        *)
InputOfDirectly(call) == IF call.dialect = "uncached" THEN call.used.uncached
                         ELSE call.used.uncached + call.used.cached

(* usage_anthropic adds what it read from the cache, so that input always  *)
(* includes it; the other two providers send the sum.                      *)
InputOf(call) == call.used.uncached + call.used.cached

Usage(call) ==
    IF call.status # "Success" \/ call.reports = "nothing" THEN {}
    ELSE {[input  |-> IF call.reports = "all" THEN InputOf(call) ELSE Nobody,
           cached |-> IF call.reports = "all" THEN call.used.cached ELSE Nobody,
           output |-> call.used.out]}

RecordCall == \E call \in Calls :
    /\ Len(records) < MaxCalls
    /\ records' = Append(records, [day |-> now, model |-> call.model, status |-> call.status,
                                   usage |-> Usage(call), call |-> call])
    /\ UNCHANGED <<now, prices, effective>>

ClearUsage == records # <<>> /\ records' = <<>> /\ UNCHANGED <<now, prices, effective>>

(* set_price and remove_price; a table that cannot be read is an empty one.*)
SetPrice == \E m \in Models, cache \in BOOLEAN, day \in UsageDays :
    /\ prices' = [x \in DOMAIN prices \cup {m} |-> IF x = m THEN cache ELSE prices[x]]
    /\ effective' = day
    /\ UNCHANGED <<now, records>>
RemovePrice == \E m \in DOMAIN prices :
    /\ prices' = [x \in DOMAIN prices \ {m} |-> prices[x]]
    /\ UNCHANGED <<now, records, effective>>
PricesUnreadable == prices' = <<>> /\ effective' = Nobody /\ UNCHANGED <<now, records>>

ClockTicks == \E day \in UsageDays : day > now /\ now' = day
                                     /\ UNCHANGED <<records, prices, effective>>

UsageNext == RecordCall \/ ClearUsage \/ SetPrice \/ RemovePrice \/ PricesUnreadable \/ ClockTicks

-----------------------------------------------------------------------------
(* Periods and estimates.                                                  *)

Periods == {"Day", "Week", "Month", "All"}
InPeriod(r, period) ==
    CASE period = "Day"   -> now - r.day < 1
      [] period = "Week"  -> now - r.day < 7
      [] period = "Month" -> /\ CivilFromDays(r.day).y = CivilFromDays(now).y
                             /\ CivilFromDays(r.day).m = CivilFromDays(now).m
      [] OTHER -> TRUE
Chosen(period) == {i \in DOMAIN records : InPeriod(records[i], period)}

(* ledger::totals and its groups, here by_model.                           *)
Denied(chosen) == {i \in chosen : records[i].status = "PolicyDenied"}
Group(chosen) ==
    [calls  |-> Cardinality(chosen),
     denied |-> Cardinality(Denied(chosen)),
     calls_without_usage |->
         Cardinality({i \in chosen \ Denied(chosen) : records[i].usage = {}})]
GroupByModel(chosen) ==
    [m \in {records[i].model : i \in chosen} |-> Group({i \in chosen : records[i].model = m})]

(* Which price and usage an estimate needs: a hit of the cache has to have *)
(* a price of its own.                                                     *)
Priceable(r) ==
    /\ r.model \in DOMAIN prices
    /\ \A u \in r.usage : u.cached > 0 => prices[r.model]

Known(tokens) == IF tokens = Nobody THEN 0 ELSE tokens
Spare(a, b)   == IF a > b THEN a - b ELSE 0

Cost(u, cachePriced) ==
    (IF u.cached # Nobody /\ cachePriced
     THEN Spare(Known(u.input), u.cached) * Rates["in"] + u.cached * Rates["cached"]
     ELSE Known(u.input) * Rates["in"])
    + Known(u.output) * Rates["out"]

Stale == effective # Nobody /\ PriceDays(CivilFromDays(now)) - effective > Shelf

(* estimate: a record that cannot be priced is counted, not guessed.       *)
Estimate(chosen) ==
    LET sent   == chosen \ Denied(chosen)
        told   == {i \in sent : records[i].usage # {}}
        priced == {i \in told : Priceable(records[i])}
        costs  == [i \in priced |-> Cost(CHOOSE u \in records[i].usage : TRUE,
                                         prices[records[i].model])]
    IN  [known_cost           |-> SumFunction(costs),
         priced_calls         |-> Cardinality(priced),
         calls_missing_price  |-> Cardinality(told \ priced),
         calls_missing_usage  |-> Cardinality(sent \ told),
         models_missing_price |-> {records[i].model : i \in told \ priced},
         pricing_unconfigured |-> prices = <<>>,
         pricing_stale        |-> Stale]

IsComplete(est) == /\ ~est.pricing_unconfigured
                   /\ est.calls_missing_price = 0 /\ est.calls_missing_usage = 0
                   /\ est.priced_calls > 0

(* display: a part of the cost is not shown as the cost.                   *)
Display(est) ==
    IF est.priced_calls = 0 THEN [says |-> "unknown"]
    ELSE [says |-> IF IsComplete(est) THEN "exactly" ELSE "at least", amount |-> est.known_cost]

(* The notes under an estimate, and usage_summary: the page of a period.   *)
Notes(est) ==
    IF est.pricing_unconfigured THEN {"unconfigured"}
    ELSE {n \in {"stale", "price", "usage"} :
            CASE n = "stale" -> est.pricing_stale
              [] n = "price" -> est.calls_missing_price > 0
              [] n = "usage" -> est.calls_missing_usage > 0}
Page(period) ==
    LET chosen == Chosen(period)
    IN  [totals |-> Group(chosen), by_model |-> GroupByModel(chosen),
         estimate |-> Estimate(chosen)]

(* budget_status; the currencies agree in this instance.                   *)
BudgetStatus(est) ==
    IF Budget = 0 THEN "NoBudget"
    ELSE IF est.pricing_unconfigured \/ est.priced_calls = 0 THEN "Unknown"
    ELSE IF est.known_cost * 100 >= 100 * Budget THEN "Over"
    ELSE IF est.known_cost * 100 >= 80 * Budget THEN "Near" ELSE "Within"

-----------------------------------------------------------------------------
(* Properties.                                                             *)

Tokens == Nat \cup {Nobody}
UsageTypeOK ==
    /\ now \in UsageDays /\ effective \in UsageDays \cup {Nobody}
    /\ DOMAIN prices \subseteq Models /\ \A m \in DOMAIN prices : prices[m] \in BOOLEAN
    /\ \A i \in DOMAIN records :
          /\ records[i].day \in UsageDays /\ records[i].call \in CallSet
          /\ records[i].usage \subseteq [input: Tokens, cached: Tokens, output: Tokens]

(* What a provider charges for the calls that were sent.                   *)
Charge(call) == call.used.uncached * Rates["in"] + call.used.cached * Rates["cached"]
                + call.used.out * Rates["out"]
Bill(chosen) == SumFunction([i \in chosen \ Denied(chosen) |-> Charge(records[i].call)])

(* The estimate never says more than the bill, whatever usage and prices   *)
(* are missing, and what it calls complete is the bill if the providers    *)
(* reported whole usages; so a budget is called used up only if it is, and *)
(* far from used up, unless the amount is called partial, only if it is.   *)
(* A partial amount says why.  The summary, its groups and the estimate on *)
(* one page speak of the same calls.                                       *)
EstimateIsHonest ==
    \A period \in Periods :
      LET chosen == Chosen(period)
          page   == Page(period)
          est    == page.estimate
          shown  == Display(est)
          whole  == \A i \in chosen : records[i].call.reports # "output"
      IN  /\ shown.says = "at least" => shown.amount <= Bill(chosen) /\ Notes(est) \ {"stale"} # {}
          /\ shown.says = "exactly" => IF whole THEN shown.amount = Bill(chosen)
                                                ELSE shown.amount <= Bill(chosen)
          /\ shown.says = "unknown" => est.known_cost = 0
          /\ BudgetStatus(est) = "Over" => Bill(chosen) >= Budget
          /\ BudgetStatus(est) = "Within" /\ IsComplete(est) /\ whole => 100 * Bill(chosen) < 80 * Budget
          /\ page.totals.calls = page.totals.denied + est.priced_calls
                                 + est.calls_missing_price + est.calls_missing_usage
          /\ page.totals.calls_without_usage = est.calls_missing_usage
          /\ SumFunction([m \in DOMAIN page.by_model |-> page.by_model[m].calls]) = page.totals.calls
          /\ est.models_missing_price \subseteq DOMAIN page.by_model
          /\ "price" \in Notes(est) => est.models_missing_price # {}
=============================================================================
