----------------------------- MODULE ProductHunt -----------------------------
(***************************************************************************)
(* From a niche to a launch plan: the verdict on one product              *)
(* (decision_engine.py), the candidate and the supplier the Operator picks *)
(* (discovery._run, suppliers.find_suppliers, operator.plan) and the bar a *)
(* plan clears before it is queued (autopilot_service.py).                 *)
(*                                                                         *)
(* Money is whole cents, a rate or margin is in thousandths, a subscore in *)
(* quarters; what the code rounds to cents is rounded here, what it keeps  *)
(* in full is kept in thousandths of a cent.  Left out: the wording of a   *)
(* verdict, its pros and risks, and the break-even prices shown beside it. *)
(***************************************************************************)
EXTENDS Integers

FBA_FUEL_SURCHARGE == 35
MIN_REFERRAL_FEE == 30
MARGIN_TARGET == 300
ROI_TARGET == 1000
MARGIN_HARD_FLOOR == 150
BUY_THRESHOLD == 70
CAUTION_THRESHOLD == 50

Larger(a, b) == IF a < b THEN b ELSE a
Clamp(x, hi) == IF x < 0 THEN 0 ELSE IF x > hi THEN hi ELSE x

\* round(..., 2) of thousandths of a cent, and round() of a quotient.
Cents(mills) == (mills + 500) \div 1000
Nearest(a, b) == (2 * a + b) \div (2 * b)

\* One candidate; names come from the marketplace and need not differ.
Products(Names) ==
    [name : Names, price : Nat \ {0}, cogs : Nat, fba_fee : Nat, monthly_sales : Nat,
     referral_rate : 0..1000, ppc_per_unit : Nat, dominant_brands : Nat,
     median_reviews : Nat, size_score : 0..4, demand_score : 0..4, cert_score : 0..4,
     patent_ok : BOOLEAN]

---------------------------------------------------------------------------
(* The economics of one unit.                                              *)

referral_fee(p) == Larger(p.price * p.referral_rate, 1000 * MIN_REFERRAL_FEE)
fba_fee_total(p) == p.fba_fee * (1000 + FBA_FUEL_SURCHARGE)

profit(p) ==
    1000 * (p.price - p.cogs - p.ppc_per_unit) - referral_fee(p) - fba_fee_total(p)

monthly_profit(p) == Cents(profit(p) * p.monthly_sales)

\* margin = profit / price.
MarginAtLeast(p, m) == profit(p) >= m * p.price

---------------------------------------------------------------------------
(* The score: a weighted sum of subscores.                                 *)

_price_subscore(price) ==
    IF price >= 2000 /\ price <= 5000 THEN 4
    ELSE IF price < 1500 \/ price > 7000 THEN 0 ELSE 2

\* Half for the brands, half for the reviews.
_competition_subscore(p) ==
    LET brands == IF p.dominant_brands <= 2 THEN 2 ELSE IF p.dominant_brands <= 4 THEN 1 ELSE 0
        reviews == IF p.median_reviews <= 200 THEN 2 ELSE IF p.median_reviews <= 750 THEN 1 ELSE 0
    IN brands + reviews

\* The two subscores that depend on the cost, as fractions.
MarginPart(p) == [num |-> Clamp(profit(p), MARGIN_TARGET * p.price),
                  den |-> MARGIN_TARGET * p.price]
RoiPart(p) ==
    IF p.cogs > 0 THEN [num |-> Clamp(profit(p), ROI_TARGET * p.cogs), den |-> ROI_TARGET * p.cogs]
    ELSE [num |-> IF profit(p) > 0 THEN 1 ELSE 0, den |-> 1]

\* The others, weighted, in quarters of a point.
OtherPoints(p) ==
    10 * _price_subscore(p.price) + 12 * p.size_score + 20 * _competition_subscore(p)
        + 8 * p.demand_score + 5 * (IF p.patent_ok THEN 4 ELSE 0) + 5 * p.cert_score

\* round(25 margin + 15 roi + others) >= t, for an even t, over one denominator.
ScoreAtLeast(p, t) ==
    LET m == MarginPart(p)
        r == RoiPart(p)
    IN 4 * (25 * m.num * r.den + 15 * r.num * m.den) + OtherPoints(p) * m.den * r.den
          >= 2 * (2 * t - 1) * m.den * r.den

\* The two gates override the score.
decide(p) ==
    IF ~p.patent_ok \/ ~MarginAtLeast(p, MARGIN_HARD_FLOOR) THEN "AVOID"
    ELSE IF ScoreAtLeast(p, BUY_THRESHOLD) THEN "BUY"
    ELSE IF ScoreAtLeast(p, CAUTION_THRESHOLD) THEN "CAUTION"
    ELSE "AVOID"

\* The highest landed cost said to keep the margin above the floor, from the
\* fees as they are shown.
max_cogs_at_floor(p) ==
    Larger(0, Cents((1000 - MARGIN_HARD_FLOOR) * p.price - 1000 * Cents(referral_fee(p))
                    - 1000 * Cents(fba_fee_total(p)) - 1000 * p.ppc_per_unit))

evaluate(p) ==
    [name |-> p.name, verdict |-> decide(p), profit |-> profit(p), price |-> p.price,
     cogs |-> p.cogs, monthly_profit |-> monthly_profit(p),
     competition |-> _competition_subscore(p)]

---------------------------------------------------------------------------
(* The plan: kept are the candidates of the niche, in the order they came. *)

\* by_name = {c["name"]: c ...}: of two with one name the later one stays.
by_name(kept, name) ==
    kept[CHOOSE i \in DOMAIN kept :
            kept[i].name = name /\ \A j \in DOMAIN kept : kept[j].name = name => j <= i]

\* select="profit": the biggest earner, of those not to be avoided if there are
\* any, and of those that can be competed with if there are any.  Which of two
\* equal earners is a matter of their rank, left out.
Picks(kept) ==
    LET fit == {i \in DOMAIN kept : decide(kept[i]) # "AVOID"}
        pool == IF fit # {} THEN fit ELSE DOMAIN kept
        winnable == {i \in pool : _competition_subscore(kept[i]) >= 2}
        from == IF winnable # {} THEN winnable ELSE pool
    IN {i \in from : \A j \in from : monthly_profit(kept[j]) <= monthly_profit(kept[i])}

\* An offer is a landed cost (freight is never free) and a batch; without one
\* there is nothing to order.
NoOffer == [moq |-> 0, est_landed_cost |-> 0]
Offers == [moq : Nat, est_landed_cost : Nat \ {0}]

\* Cheapest landed cost first; ratings and lead times between equals left out.
find_suppliers(offers) ==
    IF offers = {} THEN {NoOffer}
    ELSE {o \in offers : \A q \in offers : o.est_landed_cost <= q.est_landed_cost}

\* In tenths of a month; none without a profit.
NoPayback == -1
compute_payback(units, landed_cost, profit_a_month) ==
    [upfront |-> units * landed_cost,
     months |-> IF profit_a_month > 0
                THEN Nearest(10 * units * landed_cost, profit_a_month) ELSE NoPayback]

\* Only a real supplier's cost replaces the estimate and scores the product anew.
plan(kept, i, offer, real) ==
    LET found == by_name(kept, kept[i].name)
        inputs == IF real /\ offer # NoOffer
                  THEN [found EXCEPT !.cogs = offer.est_landed_cost] ELSE found
        product == IF real /\ offer # NoOffer THEN evaluate(inputs) ELSE evaluate(kept[i])
    IN [product |-> product, inputs |-> inputs, suggested_cogs |-> inputs.cogs,
        payback |-> compute_payback(offer.moq, inputs.cogs, product.monthly_profit)]

\* The seller's filters; one that is not set is a limit everything keeps (for the
\* payback, a negative one).
Requests == [only_buy : BOOLEAN, min_margin : Int, min_monthly_profit : Int,
             min_roi : Int, min_competition : Int, max_payback : Int]

\* roi = profit / cogs.  A profit that ties up no capital has none that a queue
\* could store; it is stored as 999.
StoredUnbounded == 999

RoiAtLeast(product, r) ==
    IF product.cogs > 0 THEN product.profit >= r * product.cogs
    ELSE r <= (IF product.profit > 0 THEN StoredUnbounded ELSE 0)

meets_money_criteria(detail, req) ==
    /\ req.only_buy => detail.product.verdict = "BUY"
    /\ detail.product.profit >= req.min_margin * detail.product.price
    /\ detail.product.monthly_profit >= req.min_monthly_profit
    /\ RoiAtLeast(detail.product, req.min_roi)
    /\ detail.product.competition >= req.min_competition
    /\ req.max_payback >= 0 =>
          detail.payback.months # NoPayback /\ detail.payback.months <= req.max_payback
=============================================================================
