------------------------------- MODULE Restock -------------------------------
(***************************************************************************)
(* What a witnessed restock may claim (actions_engine.measure_restock and  *)
(* commerce_measurement.evidence_for), and the margin the dashboard shows  *)
(* for the same sales (commerce_engine.product_margin).                    *)
(*                                                                         *)
(* A group is what one variant sold on one day net of what came back, with *)
(* the cost in force that day: one row of its history, or none.  Money is  *)
(* whole cents; an average is held as a multiple of 1/Parts of a cent, and *)
(* rounded to cents at the end as the code does.                           *)
(* Averages are exact here.  The code keeps 28 digits of them, which can   *)
(* take a cent off a result that comes to whole cents.                     *)
(***************************************************************************)
EXTENDS Costs, FiniteSetsExt

CONSTANTS
    MinMeasurableDays,      \* MIN_MEASURABLE_DAYS
    MinAttributableUnits,   \* MIN_ATTRIBUTABLE_UNITS
    Parts                   \* a multiple of every number of units in a group

ASSUME RestockAssumption ==
    MinMeasurableDays \in Nat /\ MinAttributableUnits \in Nat /\ Parts \in Nat \ {0}

\* Shopify reports oversold stock as a negative number; nothing was on the shelf.
AtLeastZero(n) == IF n < 0 THEN 0 ELSE n

Units(groups) == SumFunction([g \in groups |-> g.units])
Revenue(groups) == SumFunction([g \in groups |-> g.revenue])

UnitCost(g) == (CHOOSE c \in g.cost : TRUE).figure

\* Mutant: the whole sale price is called profit.
UnitRevenue(g) == (Parts * g.revenue) \div g.units

\* What one unit of a group earned, in parts of a cent.
UnitMargin(g) == (Parts * g.revenue) \div g.units - Parts * UnitCost(g).amount

\* Decimal's ROUND_DOWN drops what is left of a cent, whatever the sign.
ToCents(parts) == IF parts < 0 THEN -((-parts) \div Parts) ELSE parts \div Parts

Blocked(why) == [blocked |-> why]
Priced(units, margin, provisional) ==
    [blocked |-> "no", units |-> units, margin |-> margin, provisional |-> provisional]

\* Mutant: the units that brought most money are covered first.
LeftByRevenue(m, groups, stock) ==
    LET at == {g \in groups : UnitMargin(g) = m}
        above == {g \in groups : \E h \in at : g.revenue * h.units > h.revenue * g.units}
    IN AtLeastZero(Units(at) - AtLeastZero(stock - Units(above)))

\* The units of one margin the old stock does not cover, once it has covered
\* the units of every higher margin.  Units of equal margin are taken together:
\* which of them go first changes no claim.
Left(m, groups, stock) ==
    LET at == {g \in groups : UnitMargin(g) = m}
        above == {g \in groups : UnitMargin(g) > m}
    IN AtLeastZero(Units(at) - AtLeastZero(stock - Units(above)))

Attributable(groups, stock) ==
    LET margins == {UnitMargin(g) : g \in groups}
    IN ToCents(SumFunction([m \in margins |-> m * Left(m, groups, stock)]))

\* groups are those that kept a unit; stockBefore is the baseline's on_hand,
\* which every restock carries.
measure_restock(stockBefore, groups, days, requestedDays) ==
    LET available == AtLeastZero(stockBefore)
        incremental == AtLeastZero(Units(groups) - available)
        provisional == days < requestedDays
    IN
    IF days < MinMeasurableDays THEN Blocked("window_too_short")
    ELSE IF \E g, h \in groups : g.currency # h.currency THEN Blocked("currency_mismatch")
    ELSE IF incremental = 0 THEN Priced(0, 0, provisional)
    ELSE IF \E g \in groups : g.cost = {} THEN Blocked("cost_unknown")
    ELSE IF \E g \in groups : UnitCost(g).currency # g.currency THEN Blocked("currency_mismatch")
    ELSE Priced(incremental, Attributable(groups, available), provisional)

\* A confirmation has always read the shelf back.
evidence_for(result) ==
    IF result.provisional \/ result.units < MinAttributableUnits THEN "unverified" ELSE "real"

---------------------------------------------------------------------------
(* The dashboard.                                                          *)

\* One missing or foreign cost withholds the whole figure.
cogs_complete(groups) ==
    /\ groups # {}
    /\ \A g \in groups : g.cost # {} /\ UnitCost(g).currency = g.currency

landed_cogs(groups) == SumFunction([g \in groups |-> g.units * UnitCost(g).amount])

\* revenue is the shop's, which the sync lowers by what was given back.
gross_profit(revenue, groups) == revenue - landed_cogs(groups)
=============================================================================
