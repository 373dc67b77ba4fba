-------------------------- MODULE InventoryPlanner --------------------------
(***************************************************************************)
(* inventory_engine.analyze_sku: how long a SKU lasts, whether to reorder  *)
(* and how many.  Sales are hundredths of a unit a day, runways tenths of  *)
(* a day: a runway is rounded before it is compared, as the code does.     *)
(*                                                                         *)
(* The code computes in binary floats, whose last bit decides two things:  *)
(* whether a product that should be a whole number of units is taken up to *)
(* the next one (0.07 * 100 is), and which way half a tenth is rounded.    *)
(* There an operator is the set of the results the code may come to, and   *)
(* so is a finding.  Quantities are below 10^12 units.                     *)
(***************************************************************************)
EXTENDS Integers

OVERSTOCK_DAYS == 120

\* None stands for safety_stock_days=None.
None == -1

Skus == [on_hand : Nat, inbound : Nat, avg_daily_sales : Nat, lead_time_days : Nat,
         review_period_days : Nat, safety_stock_days : Nat \cup {None}]

\* math.ceil of an exact a / b.
Ceil(a, b) == (a + b - 1) \div b

\* Sales and whole quarters of a unit are the same in binary.
IsQuarters(sales) == sales % 25 = 0

\* math.ceil(daily * days).
UnitsFor(sales, days) ==
    LET units == Ceil(sales * days, 100)
    IN IF IsQuarters(sales) \/ (sales * days) % 100 # 0 \/ sales * days = 0
       THEN {units} ELSE {units, units + 1}

\* round(a / b) to a whole number: the nearest, and of a half either.
Round(a, b) == (2 * a + b - 1) \div (2 * b) .. (2 * a + b) \div (2 * b)

effective(s) == s.on_hand + s.inbound

\* Half the lead time, unless the seller said otherwise.
_safety_days(s) ==
    IF s.safety_stock_days = None THEN Ceil(s.lead_time_days, 2) ELSE s.safety_stock_days

\* The days an order placed today must still be able to wait.
Horizon(s) == s.lead_time_days + _safety_days(s)

\* What is short of a target.
Missing(s, target) == IF target > effective(s) THEN target - effective(s) ELSE 0

\* The findings the code may come to on a SKU that sells.
analyze_sku(s) ==
    [reorder_point : UnitsFor(s.avg_daily_sales, Horizon(s)),
     suggested_order_qty : {Missing(s, target) :
        target \in UnitsFor(s.avg_daily_sales, Horizon(s) + s.review_period_days)},
     stockout_in_days : Round(1000 * s.on_hand, s.avg_daily_sales),
     days_of_cover : Round(1000 * effective(s), s.avg_daily_sales)]

days_to_reorder(s, f) == f.days_of_cover - 10 * Horizon(s)

\* The two reasons to reorder now: what is on the shelf does not last until an
\* order arrives, or all there is has come down to the reorder point.
RunsDry(s, f) == f.stockout_in_days < 10 * s.lead_time_days
AtThePoint(s, f) == ~RunsDry(s, f) /\ days_to_reorder(s, f) <= 0

status(s, f) ==
    IF s.avg_daily_sales = 0 THEN "NO_SALES"
    ELSE IF RunsDry(s, f) \/ AtThePoint(s, f) THEN "REORDER_NOW"
    ELSE IF days_to_reorder(s, f) <= 10 * s.review_period_days THEN "REORDER_SOON"
    ELSE IF f.days_of_cover > 10 * OVERSTOCK_DAYS THEN "OVERSTOCK"
    ELSE "HEALTHY"
=============================================================================
