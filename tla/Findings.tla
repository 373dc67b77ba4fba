------------------------------ MODULE Findings ------------------------------
(***************************************************************************)
(* What a store's days support saying (commerce_engine) and the proposals  *)
(* that follow (actions_engine.proposals_from_commerce).                   *)
(*                                                                         *)
(* rows are the stored totals: records with date, revenue, refunds, orders *)
(* and costs_complete, one per day something was recorded of.              *)
(***************************************************************************)
EXTENDS Integers, FiniteSetsExt

CONSTANTS
    MinObservedDays,            \* MIN_OBSERVED_DAYS
    MinRevenueForRefundRule,    \* MIN_REVENUE_FOR_REFUND_RULE
    RefundShareThreshold,       \* REFUND_SHARE_THRESHOLD, in hundredths
    StallDays,                  \* STALL_DAYS
    StockoutHorizonDays,        \* STOCKOUT_HORIZON_DAYS
    MinUnitsForStockoutRule     \* MIN_UNITS_FOR_STOCKOUT_RULE

ASSUME FindingsAssumption ==
    /\ MinObservedDays \in Nat /\ MinRevenueForRefundRule \in Nat
    /\ RefundShareThreshold \in Nat /\ StallDays \in Nat
    /\ StockoutHorizonDays \in Nat /\ MinUnitsForStockoutRule \in Nat

Total(field(_), days) == SumFunction([d \in days |-> field(d)])

QuietDay(date) ==
    [date |-> date, revenue |-> 0, refunds |-> 0, orders |-> 0, costs_complete |-> TRUE]

\* Every calendar day from the first one recorded, quiet days included.
daily_series(rows, today) ==
    LET recorded == {r.date : r \in rows}
    IN rows \cup {QuietDay(d) : d \in {d \in 0..today : d \notin recorded
                                                        /\ \E f \in recorded : f < d}}

SoldSomething(day) == day.revenue > 0 \/ day.orders > 0

_costs_complete(days) ==
    LET selling == {d \in days : SoldSomething(d)}
    IN selling # {} /\ \A d \in selling : d.costs_complete

\* Days since the last one with an order.
TrailingDaysWithoutOrders(days) ==
    Cardinality({d \in days : \A e \in days : e.date >= d.date => e.orders = 0})

\* The rules that fire on the days of one store.
analyze(days) ==
    LET revenue == Total(LAMBDA d : d.revenue, days)
        refunds == Total(LAMBDA d : d.refunds, days)
        orders == Total(LAMBDA d : d.orders, days)
    IN {rule \in {"COSTS_MISSING", "REFUNDS_HIGH", "SALES_STALLED"} :
          /\ Cardinality(days) >= MinObservedDays
          /\ revenue > 0
          /\ rule = "COSTS_MISSING" => ~_costs_complete(days)
          /\ rule = "REFUNDS_HIGH" =>
               /\ revenue >= MinRevenueForRefundRule
               /\ refunds > 0
               /\ 100 * refunds >= RefundShareThreshold * revenue
          /\ rule = "SALES_STALLED" =>
               TrailingDaysWithoutOrders(days) >= StallDays /\ orders > 0}

---------------------------------------------------------------------------
(* The shelf.                                                              *)

\* A product something forbids restocking: a gift card, one that does not ship
\* or nobody says does, one not for sale, one whose stock nobody counts.
restock_ineligibility(product) ==
    \/ product.is_gift_card
    \/ product.requires_shipping # "yes"
    \/ product.status \notin {"", "ACTIVE"}
    \/ product.untracked

\* The stock left lasts at most the horizon at the rate of the window.
RunsOut(product, windowDays) ==
    LET left == IF product.on_hand < 0 THEN 0 ELSE product.on_hand
    IN left * windowDays <= StockoutHorizonDays * product.units_sold

analyze_products(products, windowDays) ==
    {p \in products :
       /\ windowDays >= MinObservedDays
       /\ p.units_sold >= MinUnitsForStockoutRule
       /\ ~restock_ineligibility(p)
       /\ RunsOut(p, windowDays)}

---------------------------------------------------------------------------
(* The proposals: what a person is asked to do, and about what.  The order *)
(* they are shown in is left out.                                          *)

COMMERCE_ACTIONS ==
    [COSTS_MISSING |-> "ENTER_LANDED_COSTS", REFUNDS_HIGH |-> "REVIEW_REFUNDS",
     SALES_STALLED |-> "REVIEW_STALLED_SALES", STOCKOUT_RISK |-> "RESTOCK_PRODUCT"]

Key(rule, target) == [action_type |-> COMMERCE_ACTIONS[rule], target |-> target]

\* A product finding names its product by title, any other the shop.
proposals_from_commerce(rules, products, shop) ==
    {[key |-> Key(rule, shop), on_hand |-> 0] : rule \in rules}
    \cup {[key |-> Key("STOCKOUT_RISK", p.title), on_hand |-> p.on_hand] : p \in products}
=============================================================================
