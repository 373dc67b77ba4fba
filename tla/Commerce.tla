------------------------------ MODULE Commerce ------------------------------
(***************************************************************************)
(* From a shop's sales to money the payroll may claim: the scan that opens *)
(* proposals (commerce_service), the person who declines or confirms one,  *)
(* the history of unit costs (product_costs, routers/costs) and the price  *)
(* of a restock (commerce_measurement with actions_engine).                *)
(*                                                                         *)
(* One shop sells one product that ships, is for sale and is counted.  The *)
(* syncs that file its sales, whether a window was read at all, and the    *)
(* races of one decision are modules Measurement and ActionLedger: here a  *)
(* sale is on record when it happens and a decision is one step.           *)
(***************************************************************************)
EXTENDS Restock, Findings, Sequences, SequencesExt

CONSTANTS
    Scanners,           \* the sync that has just finished, the route
    Variants,           \* variants of the product, as keyed in variant_daily_metrics
    Orders,             \* what one order buys: a variant, units, revenue
    Quotes,             \* what may be said of a cost: a variant, a source, a figure
    MeasurementDays,    \* MEASUREMENT_DAYS
    ScanDays,           \* how far back a scan looks
    Currency,           \* of the shop
    LastDay,            \* bound: the last day
    MaxStock,           \* bound: units on the shelf
    MaxOrders, MaxRefunds, MaxCosts, MaxActions   \* bounds

ASSUME CommerceAssumption ==
    /\ Orders \subseteq [variant : Variants, units : Nat \ {0}, revenue : Nat]
    /\ Quotes \subseteq [variant : Variants \cup {EveryVariant}, source : Sources,
                         figure : [amount : Nat, currency : STRING]]
    /\ MeasurementDays \in Nat \ {0} /\ ScanDays \in Nat /\ LastDay \in Nat
    /\ MaxStock \in Nat \ {0} /\ MaxOrders \in Nat /\ MaxRefunds \in Nat /\ MaxCosts \in Nat
    /\ MaxActions \in Nat

VARIABLES
    today,
    sales,      \* variant_daily_metrics of the product: units and revenue kept
    refunds,    \* money given back, by the day it was
    onHand,     \* what the shelf counts
    costs,      \* product_costs of the product
    actions,    \* operator_actions of module "commerce", oldest first
    scan,       \* what each scan in progress has read
    overlapped  \* history: keys opened while another scan had already read

vars == <<today, sales, refunds, onHand, costs, actions, scan, overlapped>>

Days == 0..LastDay
Never == LastDay + 1
Stock == (-MaxStock)..MaxStock
Shop == "shop"
Product == "product"

Figures == {q.figure : q \in Quotes}
Sales == [variant : Variants, day : Days, sold : Nat, units : Nat, revenue : Int]
Keys == [action_type : {COMMERCE_ACTIONS[r] : r \in DOMAIN COMMERCE_ACTIONS},
         target : {Shop, Product}]
Proposals == [key : Keys, on_hand : Stock]

\* Of a commerce action: what it is about, the baseline's on_hand, the day it
\* was confirmed and, once priced, its result.  restated is a history.
Unpriced == [blocked |-> "unpriced"]
Actions == [key : Keys, on_hand : Stock, status : {"proposed", "dismissed", "applied", "measured"},
            applied : Days \cup {Never}, restated : BOOLEAN,
            impact : {Unpriced} \cup [blocked : {"no"}, units : Nat, margin : Int,
                                      provisional : BOOLEAN]]

Idle == [phase |-> "idle"]

TypeOK ==
    /\ today \in Days
    /\ sales \subseteq Sales
    /\ refunds \in [Days -> Nat]
    /\ onHand \in Stock
    /\ costs \subseteq Rows(Variants \cup {EveryVariant}, Days, Figures)
    /\ actions \in Seq(Actions)
    /\ scan \in [Scanners -> {Idle} \cup [phase : {"read"}, proposals : SUBSET Proposals,
                                          open_keys : SUBSET Keys]]
    /\ overlapped \subseteq Keys

Init ==
    /\ today = 0
    /\ sales = {}
    /\ refunds = [d \in Days |-> 0]
    /\ onHand = 1
    /\ costs = {}
    /\ actions = <<>>
    /\ scan = [s \in Scanners |-> Idle]
    /\ overlapped = {}

Shelf == <<today, onHand>>
Scanning == <<scan, overlapped>>

---------------------------------------------------------------------------
(* The window of a confirmed restock.                                      *)

OpensOn(a) == a.applied + 1
ClosesOn(a) == OpensOn(a) + MeasurementDays - 1
Window(a) == OpensOn(a)..ClosesOn(a)
Complete(a) == today > ClosesOn(a)

\* Rows of the product as they are priced, each at a cost in force.
Group(r, on) ==
    [variant |-> r.variant, day |-> r.day, units |-> r.units, revenue |-> r.revenue,
     currency |-> Currency, cost |-> InForce(costs, r.variant, on)]

InWindow(a) == {r \in sales : r.day \in Window(a) /\ r.units > 0}

\* Mutant: a sale is priced by the cost of the day it is measured.
_sold_units_today(a) == {Group(r, today) : r \in InWindow(a)}

\* What the product sold in it: each day at the cost of that day.
_sold_units(a) == {Group(r, r.day) : r \in InWindow(a)}

Price(a) == measure_restock(a.on_hand, _sold_units(a), MeasurementDays, MeasurementDays)

---------------------------------------------------------------------------
(* The shop and the clock.                                                 *)

Tomorrow ==
    /\ today < LastDay
    /\ today' = today + 1
    /\ UNCHANGED <<sales, refunds, onHand, costs, actions, Scanning>>

\* A second order of a variant on a day adds to its row.
Sell(order) ==
    LET row == {r \in sales : r.variant = order.variant /\ r.day = today}
        sold(r) == [r EXCEPT !.sold = @ + 1, !.units = @ + order.units,
                             !.revenue = @ + order.revenue]
        first == [variant |-> order.variant, day |-> today, sold |-> 1,
                  units |-> order.units, revenue |-> order.revenue]
    IN
    /\ Total(LAMBDA r : r.sold, sales) < MaxOrders
    /\ onHand - order.units \in Stock
    /\ sales' = (sales \ row) \cup (IF row = {} THEN {first} ELSE {sold(r) : r \in row})
    /\ onHand' = onHand - order.units
    /\ UNCHANGED <<today, refunds, costs, actions, Scanning>>

\* An action whose window holds the day is told that it was restated.
Restated(from, to) ==
    [i \in DOMAIN actions |->
        IF actions[i].status = "measured" /\ ClosesOn(actions[i]) >= from /\ OpensOn(actions[i]) <= to
        THEN [actions[i] EXCEPT !.restated = TRUE] ELSE actions[i]]

\* A unit comes back: it leaves the day it was sold on and its money is given
\* back today.
Refund(r) ==
    LET money == r.revenue \div r.units IN
    /\ Cardinality({d \in Days : refunds[d] > 0}) < MaxRefunds
    /\ r.units > 0
    /\ sales' = (sales \ {r}) \cup {[r EXCEPT !.units = @ - 1, !.revenue = @ - money]}
    /\ refunds' = [refunds EXCEPT ![today] = @ + money]
    /\ actions' = Restated(r.day, r.day)
    /\ UNCHANGED <<today, onHand, costs, Scanning>>

\* The shelf is filled up, whoever proposed it.
Refill ==
    /\ onHand < MaxStock
    /\ onHand' = MaxStock
    /\ UNCHANGED <<today, sales, refunds, costs, actions, Scanning>>

---------------------------------------------------------------------------
(* What a unit costs.  The sync reads Shopify's figure as of its own day;  *)
(* a person may date one as they like.                                     *)

RecordCost(quote, from) ==
    LET new == [variant |-> quote.variant, from |-> from, source |-> quote.source,
                figure |-> quote.figure]
    IN
    /\ quote.source = "shopify" => quote.variant # EveryVariant /\ from = today
    /\ costs' = Record(costs, new)
    /\ costs' # costs
    /\ Cardinality(costs') <= MaxCosts
    /\ actions' = Restated(from, LastDay)
    /\ UNCHANGED <<sales, refunds, Shelf, Scanning>>

---------------------------------------------------------------------------
(* A scan, after a sync or when asked for.                                 *)

ScannedSince == today - ScanDays

\* commerce_daily_metrics since a day: no day of a Shopify store ever has all
\* its costs.
StoredDays(since) ==
    LET of(d) == {r \in sales : r.day = d}
    IN {[date |-> d, revenue |-> Revenue(of(d)), refunds |-> refunds[d],
         orders |-> Total(LAMBDA r : r.sold, of(d)), costs_complete |-> FALSE]
        : d \in {d \in 0..today : d >= since /\ (of(d) # {} \/ refunds[d] > 0)}}

\* channel_products with the product's own days.
OnTheShelf ==
    [title |-> Product, on_hand |-> onHand, status |-> "ACTIVE", is_gift_card |-> FALSE,
     requires_shipping |-> "yes", untracked |-> FALSE,
     units_sold |-> Units({r \in sales : r.day >= ScannedSince})]

\* Mutant: only what was said of the shop as a whole counts.
OpenKeysOfShop ==
    {actions[i].key : i \in {i \in DOMAIN actions : /\ actions[i].status = "proposed"
                                                   /\ actions[i].key.target = Shop}}

OpenKeys == {actions[i].key : i \in {i \in DOMAIN actions : actions[i].status = "proposed"}}

\* The findings, then what is already awaiting a decision.
Read(s) ==
    LET series == daily_series(StoredDays(ScannedSince), today) IN
    /\ scan[s] = Idle
    /\ scan' = [scan EXCEPT ![s] =
         [phase |-> "read", open_keys |-> OpenKeys,
          proposals |-> proposals_from_commerce(analyze(series),
                            analyze_products({OnTheShelf}, Cardinality(series)), Shop)]]
    /\ UNCHANGED <<sales, refunds, costs, actions, overlapped, Shelf>>

Proposed(p) ==
    [key |-> p.key, on_hand |-> p.on_hand, status |-> "proposed", applied |-> Never,
     restated |-> FALSE, impact |-> Unpriced]

\* One action for each proposal not open when it was read.
Open(s) ==
    LET opened == {p \in scan[s].proposals : p.key \notin scan[s].open_keys} IN
    /\ scan[s] # Idle
    /\ Len(actions) + Cardinality(opened) <= MaxActions
    /\ actions' = actions \o SetToSeq({Proposed(p) : p \in opened})
    /\ scan' = [scan EXCEPT ![s] = Idle]
    /\ overlapped' = IF \E t \in Scanners \ {s} : scan[t] # Idle
                     THEN overlapped \cup {p.key : p \in opened} ELSE overlapped
    /\ UNCHANGED <<sales, refunds, costs, Shelf>>

\* Nothing was committed.
FailScan(s) ==
    /\ scan[s] # Idle
    /\ scan' = [scan EXCEPT ![s] = Idle]
    /\ UNCHANGED <<sales, refunds, costs, actions, overlapped, Shelf>>

---------------------------------------------------------------------------
(* The decision and the price.                                             *)

Dismiss(i) ==
    /\ actions[i].status = "proposed"
    /\ actions' = [actions EXCEPT ![i].status = "dismissed"]
    /\ UNCHANGED <<sales, refunds, costs, Shelf, Scanning>>

VERIFIABLE_COMMERCE_ACTIONS == {"RESTOCK_PRODUCT"}

\* Only if the shelf, read back, holds more than when it was found.
Confirm(i) ==
    /\ actions[i].status = "proposed"
    /\ actions[i].key.action_type \in VERIFIABLE_COMMERCE_ACTIONS
    /\ onHand > actions[i].on_hand
    /\ actions' = [actions EXCEPT ![i].status = "applied", ![i].applied = today]
    /\ UNCHANGED <<sales, refunds, costs, Shelf, Scanning>>

\* The window is over and every sale in it has a cost (readiness), and the
\* costs are in the currency of the sales.
Measure(i) ==
    LET a == actions[i] IN
    /\ a.status = "applied"
    /\ Complete(a)
    /\ \A g \in _sold_units(a) : g.cost # {}
    /\ Price(a).blocked = "no"
    /\ actions' = [actions EXCEPT ![i].status = "measured", ![i].impact = Price(a)]
    /\ UNCHANGED <<sales, refunds, costs, Shelf, Scanning>>

---------------------------------------------------------------------------
(* The payroll.                                                            *)

\* What has settled reaches the headline, what may still move stands beside it,
\* and an action in effect without a result is awaited.
build_payroll(rows) ==
    LET priced == {i \in DOMAIN rows : rows[i].status = "measured" /\ rows[i].impact # Unpriced}
        final == {i \in priced : ~rows[i].impact.provisional}
        net(kept) == SumFunction([i \in kept |-> rows[i].impact.margin])
    IN [settled |-> net(final), provisional |-> net(priced \ final),
        awaiting |-> Cardinality({i \in DOMAIN rows : rows[i].status = "applied"})]

IsReal(a) == a.status = "measured" /\ evidence_for(a.impact) = "real"

\* Every action is counted; only a proven one brings its impact.
operator_payroll ==
    build_payroll([i \in DOMAIN actions |->
        [actions[i] EXCEPT !.impact = IF IsReal(actions[i]) THEN @ ELSE Unpriced]])

---------------------------------------------------------------------------
(* The dashboard.                                                          *)

Withheld == "withheld"

\* The last days of the shop, each sale at the cost of its day.  The profit
\* waits for days with all their costs, the gross profit for every sale's.
commerce_dashboard(days) ==
    LET metrics == StoredDays(today - days)
        revenue == Total(LAMBDA m : m.revenue, metrics)
        costed == {Group(r, r.day) : r \in {r \in sales : r.day >= today - days /\ r.units > 0}}
    IN [revenue |-> revenue,
        profit |-> IF metrics # {} /\ \A m \in metrics : m.costs_complete
                   THEN revenue - Total(LAMBDA m : m.refunds, metrics) ELSE Withheld,
        cogs_complete |-> cogs_complete(costed),
        gross_profit |-> IF cogs_complete(costed) THEN gross_profit(revenue, costed) ELSE Withheld,
        costed |-> costed,
        orders |-> Total(LAMBDA m : m.orders, metrics),
        daily |-> daily_series(metrics, today)]

Next ==
    \/ Tomorrow
    \/ \E order \in Orders : Sell(order)
    \/ \E r \in sales : Refund(r)
    \/ Refill
    \/ \E quote \in Quotes, from \in Days : RecordCost(quote, from)
    \/ \E s \in Scanners : Read(s) \/ Open(s) \/ FailScan(s)
    \/ \E i \in DOMAIN actions : Dismiss(i) \/ Confirm(i) \/ Measure(i)

Spec == Init /\ [][Next]_vars

---------------------------------------------------------------------------
(* Properties.                                                             *)

Waiting(key) == {i \in DOMAIN actions : actions[i].key = key /\ actions[i].status = "proposed"}

\* commerce_service.scan_store: "A scan that runs twice should not double the
\* list in front of anyone."  Nothing awaits a decision twice, unless one scan
\* opened it after another had read what was open.
SaidOnce == \A key \in Keys \ overlapped : Cardinality(Waiting(key)) <= 1

Claims == {a \in Range(actions) : a.status \in {"applied", "measured"} /\ Complete(a)
                                  /\ Price(a).blocked = "no"}

\* What would be claimed if the old stock had covered these units.
ClaimIf(covered, groups) ==
    ToCents(SumFunction([g \in groups |-> (g.units - covered[g]) * UnitMargin(g)]))

Coverings(groups, stock) ==
    {c \in [groups -> 0..AtLeastZero(stock)] :
        /\ \A g \in groups : c[g] <= g.units
        /\ SumFunction(c) = AtLeastZero(stock)}

\* actions_engine.measure_restock: "what is claimed is the cheapest explanation
\* of the same sales".  However the units the old stock could have covered are
\* chosen among the sales of the window, no choice claims less.
CheapestExplanation ==
    \A a \in Claims :
        LET groups == _sold_units(a) IN
        Price(a).units > 0 =>
            \A covered \in Coverings(groups, a.on_hand) :
                Price(a).margin <= ClaimIf(covered, groups)

Counted == {i \in DOMAIN actions : IsReal(actions[i])}

\* The payroll never claims more than the gross profit a dashboard shows for
\* days that hold every window it was earned in (routers/money.operator_payroll,
\* routers/dashboards.commerce_dashboard): while those results are what the
\* days say today, no two of them are about the same day, and nothing shown was
\* sold at a loss.
PayrollFitsTheDashboard ==
    \A days \in Days :
        LET shown == commerce_dashboard(days) IN
        (/\ shown.cogs_complete
         /\ \A g \in shown.costed : UnitMargin(g) >= 0
         /\ \A i \in Counted : ~actions[i].restated /\ OpensOn(actions[i]) >= today - days
         /\ \A i, j \in Counted : i # j => Window(actions[i]) \cap Window(actions[j]) = {})
            => operator_payroll.settled <= shown.gross_profit

\* product_costs: "Overwriting last month's figure with this month's would
\* quietly restate every result that had already been priced".  A recorded
\* result is what the days say today, unless a cost that starts on or before
\* the window's last day, or a return of a unit sold in it, came after.
PricesAreReproducible ==
    \A a \in Range(actions) : a.status = "measured" /\ ~a.restated => a.impact = Price(a)

\* A figure recorded from a day on changes the cost of no earlier day.
CostsAreDated ==
    [][costs' # costs => \A v \in Variants, d \in Days :
         (\A new \in costs' \ costs : d < new.from)
            => InForce(costs', v, d) = InForce(costs, v, d)]_vars
=============================================================================
