--------------------------- MODULE CommerceProofs ---------------------------
(***************************************************************************)
(* From a shop's sales to money, for every shop, horizon and sequence of   *)
(* figures: a day that the cost history covers has exactly one cost in     *)
(* force, and a figure changes the cost of no day before it starts; of a   *)
(* finding one action awaits a decision; every row has its type; a         *)
(* recorded result can be computed again, no way to lay the old shelf      *)
(* against the sales claims less, and what the payroll adds up fits the    *)
(* gross profit the dashboard shows. Then what the engines beside it       *)
(* promise for every input: the inventory planner, the verdict on a        *)
(* product and the plan the autopilot queues.                              *)
(*                                                                         *)
(* A recorded result stays what its days say because a sale is only ever   *)
(* of today and a window is priced when it is over, and because a later    *)
(* figure leaves the earlier days alone. What remains, a backdated cost or *)
(* a return, is what "restated" notes of the row.                          *)
(*                                                                         *)
(* Claims and totals are sums over finite sets. What such a sum is follows *)
(* from the fold it is defined by, one chosen element after the other      *)
(* (OneByOne, SumTakes): of the parts of a finite set for which a fact     *)
(* fails there would be a smallest one, because proper inclusion among     *)
(* them is well founded.                                                   *)
(***************************************************************************)
EXTENDS Commerce, InventoryPlanner, ProductHunt, FiniteSetTheorems, SequenceTheorems,
        WellFoundedInduction, TLAPS

\* One row for a variant, a start and a source (uq_product_cost_per_day).
OnePerKey(rows) == \A r, q \in rows : SameKey(r, q) => r = q

AllRows == Rows(Variants \cup {EveryVariant}, Days, Figures)

History == costs \subseteq AllRows /\ OnePerKey(costs)

\* Some figure may be used for a known variant on a day: one for it or for every
\* variant that has started by then.
SomeFigureFor(v, d) ==
    v # UnknownVariant /\ \E q \in costs : q.variant \in {v, EveryVariant} /\ q.from <= d

\* Where there is some figure the lookup finds one, and only one.
OneFigurePrices ==
    \A v \in Variants, d \in Days :
        SomeFigureFor(v, d) => \E r \in costs : InForce(costs, v, d) = {r}

---------------------------------------------------------------------------
\* Of two rows the lookup prefers one, never each to the other.
LEMMA BeatsIsStrict ==
    ASSUME NEW r \in AllRows, NEW q \in AllRows, Beats(r, q), Beats(q, r)
    PROVE  FALSE
<1>1. r.from \in Int /\ q.from \in Int
  BY CommerceAssumption DEF AllRows, Rows, Days
<1> QED
  BY <1>1 DEF Beats

\* Recording keeps the key unique ...
LEMMA RecordKeepsKeys ==
    ASSUME NEW rows, NEW new, OnePerKey(rows)
    PROVE  OnePerKey(Record(rows, new))
<1>1. CASE Record(rows, new) = rows
  BY <1>1
<1>2. CASE Record(rows, new) = {r \in rows : ~SameKey(r, new)} \cup {new}
  <2> SUFFICES ASSUME NEW r \in Record(rows, new), NEW q \in Record(rows, new), SameKey(r, q)
               PROVE  r = q
    BY DEF OnePerKey
  <2>1. CASE r \in rows /\ q \in rows
    BY <2>1 DEF OnePerKey
  <2>2. CASE r = new \/ q = new
    BY <1>2, <2>2 DEF SameKey
  <2> QED
    BY <1>2, <2>1, <2>2
<1> QED
  BY <1>1, <1>2 DEF Record

\* ... and leaves what could be used before the new figure starts as it was.
LEMMA RecordKeepsEarlierDays ==
    ASSUME NEW rows \in SUBSET AllRows, NEW new \in AllRows,
           NEW variant, NEW day \in Days, day < new.from
    PROVE  InForce(Record(rows, new), variant, day) = InForce(rows, variant, day)
<1>1. new.from \in Int /\ day \in Int /\ ~(new.from <= day)
  BY CommerceAssumption DEF AllRows, Rows, Days
<1>2. Usable(Record(rows, new), variant, day) = Usable(rows, variant, day)
  <2>1. CASE Record(rows, new) = rows
    BY <2>1
  <2>2. CASE Record(rows, new) = {r \in rows : ~SameKey(r, new)} \cup {new}
    <3>1. ASSUME NEW r \in Usable(Record(rows, new), variant, day)
          PROVE  r \in Usable(rows, variant, day)
      BY <1>1, <2>2, <3>1 DEF Usable, Candidates
    <3>2. ASSUME NEW r \in Usable(rows, variant, day)
          PROVE  r \in Usable(Record(rows, new), variant, day)
      BY <1>1, <2>2, <3>2 DEF Usable, Candidates, SameKey
    <3> QED
      BY <3>1, <3>2
  <2> QED
    BY <2>1, <2>2 DEF Record
<1> QED
  BY <1>2 DEF InForce

\* A figure that changed anything is one the history did not hold.
LEMMA ChangedByANewRow ==
    ASSUME NEW rows, NEW new, OnePerKey(rows), Record(rows, new) # rows
    PROVE  new \in Record(rows, new) \ rows
<1>1. Record(rows, new) = {r \in rows : ~SameKey(r, new)} \cup {new}
  BY DEF Record
<1>2. ASSUME new \in rows PROVE FALSE
  <2>1. \A r \in rows : SameKey(r, new) => r = new
    BY <1>2 DEF OnePerKey
  <2>2. Record(rows, new) = rows
    BY <1>1, <1>2, <2>1
  <2> QED
    BY <2>2
<1> QED
  BY <1>1, <1>2

---------------------------------------------------------------------------
LEMMA NextTouchesCosts ==
    ASSUME Next
    PROVE  \/ costs' = costs
           \/ \E quote \in Quotes, from \in Days : RecordCost(quote, from)
BY DEF Next, Tomorrow, Sell, Refund, Refill, Read, Open, FailScan, Dismiss, Confirm, Measure

LEMMA QuotesAreRows ==
    ASSUME NEW quote \in Quotes, NEW from \in Days
    PROVE  [variant |-> quote.variant, from |-> from, source |-> quote.source,
            figure |-> quote.figure] \in AllRows
BY CommerceAssumption DEF AllRows, Rows, Figures

\* What one recorded figure does to a sound history.
LEMMA RecordCostIsSound ==
    ASSUME History, NEW quote \in Quotes, NEW from \in Days, RecordCost(quote, from)
    PROVE  /\ History'
           /\ \A v \in Variants, d \in Days :
                (\A new \in costs' \ costs : d < new.from)
                    => InForce(costs', v, d) = InForce(costs, v, d)
<1> DEFINE new == [variant |-> quote.variant, from |-> from, source |-> quote.source,
                   figure |-> quote.figure]
<1>1. costs' = Record(costs, new) /\ costs' # costs
  BY DEF RecordCost
<1>2. new \in AllRows
  BY QuotesAreRows
<1>3. costs \in SUBSET AllRows /\ OnePerKey(costs)
  BY DEF History
<1> HIDE DEF new
<1>4. costs' \subseteq AllRows
  BY <1>1, <1>2, <1>3 DEF Record
<1>5. OnePerKey(costs')
  BY <1>1, <1>3, RecordKeepsKeys
<1>6. new \in costs' \ costs
  BY <1>1, <1>3, ChangedByANewRow
<1>7. ASSUME NEW v \in Variants, NEW d \in Days, \A n \in costs' \ costs : d < n.from
      PROVE  InForce(costs', v, d) = InForce(costs, v, d)
  BY <1>1, <1>2, <1>3, <1>6, <1>7, RecordKeepsEarlierDays
<1>8. History'
  BY <1>4, <1>5 DEF History, AllRows, Days, Figures, OnePerKey
<1> QED
  BY <1>7, <1>8

\* The history keeps one figure per variant, start and source.
LEMMA HistoryHolds == Spec => []History
<1>1. Init => History
  BY DEF Init, History, OnePerKey
<1>2. History /\ [Next]_vars => History'
  <2> SUFFICES ASSUME History, [Next]_vars PROVE History'
    OBVIOUS
  <2>1. CASE costs' = costs
    BY <2>1 DEF History, OnePerKey, AllRows, Days, Figures
  <2>2. CASE \E quote \in Quotes, from \in Days : RecordCost(quote, from)
    BY <2>2, RecordCostIsSound
  <2> QED
    BY <2>1, <2>2, NextTouchesCosts DEF vars
<1> QED
  BY <1>1, <1>2, PTL DEF Spec

\* For every horizon and history a figure recorded from a day on changes the
\* cost of no earlier day.
THEOREM EarlierCostsStand == Spec => CostsAreDated
<1>1. ASSUME History, [Next]_vars
      PROVE  [costs' # costs => \A v \in Variants, d \in Days :
                (\A new \in costs' \ costs : d < new.from)
                    => InForce(costs', v, d) = InForce(costs, v, d)]_vars
  BY <1>1, NextTouchesCosts, RecordCostIsSound DEF vars
<1> QED
  BY <1>1, HistoryHolds, PTL DEF Spec, CostsAreDated

---------------------------------------------------------------------------
(* Arithmetic.                                                             *)

\* A quotient is the number of times the divisor fits.
LEMMA Division ==
    ASSUME NEW a \in Int, NEW b \in Nat \ {0}
    PROVE  /\ a \div b \in Int
           /\ b * (a \div b) <= a
           /\ a < b * (a \div b) + b
  BY SMT

\* Multiplying by a natural number keeps an order, dividing by one keeps it too.
LEMMA TimesKeepsOrder ==
    ASSUME NEW x \in Int, NEW y \in Int, NEW z \in Nat, x <= y
    PROVE  /\ x * z <= y * z
           /\ x * z \in Int /\ y * z \in Int
  BY SMT

LEMMA OrderKeptByTimes ==
    ASSUME NEW x \in Int, NEW y \in Int, NEW z \in Nat \ {0}, x * z <= y * z
    PROVE  x <= y
  BY SMT

---------------------------------------------------------------------------
(* The inventory planner.                                                  *)

LEMMA CeilIsTheLeast ==
    ASSUME NEW a \in Nat, NEW n \in Int
    PROVE  /\ Ceil(a, 100) \in Int
           /\ a <= 100 * n <=> Ceil(a, 100) <= n
<1>1. a + 100 - 1 \in Int
  OBVIOUS
<1>2. QED
  BY <1>1, Division DEF Ceil

\* The units for some days are the least that is enough, or where the float may
\* have come out above a whole number, one more than exactly enough.
LEMMA UnitsAreEnough ==
    ASSUME NEW rate \in Nat, NEW days \in Nat, NEW need, need = rate * days, need \in Nat,
           NEW units \in UnitsFor(rate, days)
    PROVE  /\ units \in Int
           /\ need <= 100 * units
           /\ 100 * (units - 1) <= need
           /\ IsQuarters(rate) \/ need % 100 # 0 => 100 * (units - 1) < need
<1>1. \E least : least = Ceil(need, 100)
  OBVIOUS
<1> PICK least : least = Ceil(need, 100)
  BY <1>1
<1>2. least \in Int /\ need <= 100 * least /\ 100 * (least - 1) < need
  <2>1. least \in Int
    BY CeilIsTheLeast
  <2>2. need <= 100 * least /\ ~(need <= 100 * (least - 1))
    BY <2>1, CeilIsTheLeast
  <2>3. QED
    BY <2>1, <2>2
<1>3. units = least \/ (units = least + 1 /\ ~IsQuarters(rate) /\ need % 100 = 0)
  BY DEF UnitsFor
<1>4. CASE units = least
  BY <1>2, <1>4
<1>5. CASE units = least + 1 /\ ~IsQuarters(rate) /\ need % 100 = 0
  <2>1. PICK whole \in Int : need = 100 * whole
    <3>1. need = 100 * (need \div 100) /\ need \div 100 \in Int
      BY <1>5, SMT
    <3>2. QED
      BY <3>1
  <2>2. least = whole
    BY <1>2, <2>1
  <2>3. QED
    BY <1>2, <1>5, <2>1, <2>2
<1>6. QED
  BY <1>3, <1>4, <1>5

\* A runway is within half a tenth of a day of what it rounds.
LEMMA RoundIsNear ==
    ASSUME NEW n \in Nat, NEW b \in Nat \ {0}, NEW q \in Round(1000 * n, b)
    PROVE  /\ q \in Int /\ b * q \in Int
           /\ 2 * (b * q) <= 2000 * n + b
           /\ 2000 * n <= 2 * (b * q) + b
<1> DEFINE x == 2 * (1000 * n) + b
           y == 2 * b
<1>1. /\ x \in Int /\ x - 1 \in Int /\ y \in Nat \ {0}
      /\ q \in (x - 1) \div y .. x \div y
  BY DEF Round
<1> HIDE DEF x, y
<1>2. q \in Int /\ y * q <= x /\ x - 1 < y * q + y
  <2>1. /\ x \div y \in Int /\ y * (x \div y) <= x
        /\ (x - 1) \div y \in Int /\ x - 1 < y * ((x - 1) \div y) + y
    BY <1>1, Division, ZenonT(30)
  <2>2. q \in Int /\ (x - 1) \div y <= q /\ q <= x \div y
    BY <1>1, <2>1
  <2>3. /\ q * y <= (x \div y) * y
        /\ ((x - 1) \div y) * y <= q * y
    BY <1>1, <2>1, <2>2, TimesKeepsOrder
  <2>4. \A z \in Int : z * y = y * z /\ y * z \in Int
    BY <1>1, SMT
  <2>5. QED
    BY <1>1, <2>1, <2>2, <2>3, <2>4
<1>3. y * q = 2 * (b * q) /\ b * q \in Int
  BY <1>2, SMT DEF y
<1>4. QED
  BY <1>2, <1>3 DEF x, y

LEMMA SkuTypes ==
    ASSUME NEW s \in Skus
    PROVE  /\ s.on_hand \in Nat /\ s.inbound \in Nat /\ s.avg_daily_sales \in Nat
           /\ s.lead_time_days \in Nat /\ s.review_period_days \in Nat
           /\ effective(s) \in Nat /\ Horizon(s) \in Nat
           /\ s.lead_time_days <= Horizon(s)
           /\ s.avg_daily_sales * Horizon(s) \in Nat
           /\ s.avg_daily_sales * s.review_period_days \in Nat
           /\ s.avg_daily_sales * (Horizon(s) + s.review_period_days)
                 = s.avg_daily_sales * Horizon(s) + s.avg_daily_sales * s.review_period_days
<1>1. /\ s.on_hand \in Nat /\ s.inbound \in Nat /\ s.avg_daily_sales \in Nat
      /\ s.lead_time_days \in Nat /\ s.review_period_days \in Nat
      /\ s.safety_stock_days \in Nat \cup {None}
  BY DEF Skus
<1>2. _safety_days(s) \in Nat
  <2>1. CASE s.safety_stock_days = None
    BY <1>1, <2>1, Division DEF _safety_days, Ceil
  <2>2. CASE s.safety_stock_days # None
    BY <1>1, <2>2 DEF _safety_days
  <2>3. QED
    BY <2>1, <2>2
<1>3. effective(s) \in Nat /\ Horizon(s) \in Nat /\ s.lead_time_days <= Horizon(s)
  BY <1>1, <1>2 DEF effective, Horizon
<1>4. \A x, y, z \in Nat : x * y \in Nat /\ x * z \in Nat /\ x * (y + z) = x * y + x * z
  BY SMT
<1>5. QED
  BY <1>1, <1>3, <1>4

\* The suggested order, with what is there and on its way, lasts through the
\* lead time, the safety days and a whole review period.  One unit less would
\* not, or would exactly: that only where the sales are no whole quarters of a
\* unit and what they take is a whole number of units, which the float may
\* exceed (inventory_engine.analyze_sku, target_units).
THEOREM OrderCoversTheCycle ==
    ASSUME NEW s \in Skus, NEW f \in analyze_sku(s), s.avg_daily_sales > 0,
           NEW need, need = s.avg_daily_sales * (Horizon(s) + s.review_period_days),
           NEW total, total = effective(s) + f.suggested_order_qty
    PROVE  /\ need <= 100 * total
           /\ f.suggested_order_qty > 0 => 100 * (total - 1) <= need
           /\ f.suggested_order_qty > 0 /\ (IsQuarters(s.avg_daily_sales) \/ need % 100 # 0)
                 => 100 * (total - 1) < need
<1>1. /\ effective(s) \in Nat /\ s.avg_daily_sales \in Nat /\ need \in Nat
      /\ Horizon(s) + s.review_period_days \in Nat
  BY SkuTypes
<1>2. PICK target \in UnitsFor(s.avg_daily_sales, Horizon(s) + s.review_period_days) :
         f.suggested_order_qty = Missing(s, target)
  BY DEF analyze_sku
<1>3. /\ target \in Int /\ need <= 100 * target /\ 100 * (target - 1) <= need
      /\ IsQuarters(s.avg_daily_sales) \/ need % 100 # 0 => 100 * (target - 1) < need
  BY <1>1, UnitsAreEnough
<1>4. f.suggested_order_qty = IF target > effective(s) THEN target - effective(s) ELSE 0
  BY <1>2 DEF Missing
<1>5. CASE target > effective(s)
  <2>1. total = target
    BY <1>1, <1>3, <1>4, <1>5
  <2>2. QED
    BY <1>3, <2>1
<1>6. CASE ~(target > effective(s))
  <2>1. f.suggested_order_qty = 0 /\ total \in Int /\ target <= total
    BY <1>1, <1>3, <1>4, <1>6
  <2>2. QED
    BY <1>1, <1>3, <2>1
<1>7. QED
  BY <1>5, <1>6

\* What the planner's runways say, in units and hundredths.
LEMMA Runways ==
    ASSUME NEW s \in Skus, NEW f \in analyze_sku(s), s.avg_daily_sales > 0,
           NEW d, d = s.avg_daily_sales, NEW e, e = effective(s), NEW h, h = Horizon(s)
    PROVE  /\ RunsDry(s, f) \/ 20 * (d * s.lead_time_days) <= 2000 * s.on_hand + d
           /\ days_to_reorder(s, f) <= 0 => 2000 * e <= 20 * (d * h) + d
           /\ ~(days_to_reorder(s, f) <= 0) => 20 * (d * h) + d <= 2000 * e
<1>1. /\ d \in Nat \ {0} /\ e \in Nat /\ h \in Nat /\ s.on_hand \in Nat
      /\ s.lead_time_days \in Nat /\ d * h \in Nat
  BY SkuTypes
<1>2. \E out, cover : out = f.stockout_in_days /\ cover = f.days_of_cover
  OBVIOUS
<1> PICK out, cover : out = f.stockout_in_days /\ cover = f.days_of_cover
  BY <1>2
<1>3. out \in Round(1000 * s.on_hand, d) /\ cover \in Round(1000 * e, d)
  BY DEF analyze_sku
<1>4. /\ out \in Int /\ d * out \in Int
      /\ 2 * (d * out) <= 2000 * s.on_hand + d
  <2>1. \E units : units = s.on_hand
    OBVIOUS
  <2>2. PICK units : units = s.on_hand
    BY <2>1
  <2>3. units \in Nat /\ d \in Nat \ {0} /\ out \in Round(1000 * units, d)
    BY <1>1, <1>3, <2>2
  <2>4. /\ out \in Int /\ d * out \in Int
        /\ 2 * (d * out) <= 2000 * units + d
    BY <2>3, RoundIsNear
  <2>5. QED
    BY <2>2, <2>4
<1>5. /\ cover \in Int /\ d * cover \in Int
      /\ 2 * (d * cover) <= 2000 * e + d
      /\ 2000 * e <= 2 * (d * cover) + d
  BY <1>1, <1>3, RoundIsNear
<1>6. RunsDry(s, f) <=> out < 10 * s.lead_time_days
  BY DEF RunsDry
<1>7. days_to_reorder(s, f) = cover - 10 * h
  BY DEF days_to_reorder
<1>8. RunsDry(s, f) \/ 20 * (d * s.lead_time_days) <= 2000 * s.on_hand + d
  <2>1. SUFFICES ASSUME 10 * s.lead_time_days <= out
                 PROVE  20 * (d * s.lead_time_days) <= 2000 * s.on_hand + d
    BY <1>1, <1>4, <1>6
  <2>2. (10 * s.lead_time_days) * d <= out * d
    BY <1>1, <1>4, <2>1, TimesKeepsOrder
  <2>3. /\ (10 * s.lead_time_days) * d = 10 * (d * s.lead_time_days)
        /\ out * d = d * out /\ d * s.lead_time_days \in Int
    BY <1>1, <1>4, SMT
  <2>4. QED
    BY <1>1, <1>4, <2>2, <2>3
<1>9. ASSUME days_to_reorder(s, f) <= 0
      PROVE  2000 * e <= 20 * (d * h) + d
  <2>1. cover <= 10 * h
    BY <1>1, <1>5, <1>7, <1>9
  <2>2. cover * d <= (10 * h) * d
    BY <1>1, <1>5, <2>1, TimesKeepsOrder
  <2>3. cover * d = d * cover /\ (10 * h) * d = 10 * (d * h)
    BY <1>1, <1>5, SMT
  <2>4. QED
    BY <1>1, <1>5, <2>2, <2>3
<1>10. ASSUME ~(days_to_reorder(s, f) <= 0)
       PROVE  20 * (d * h) + d <= 2000 * e
  <2>1. 10 * h + 1 <= cover
    BY <1>1, <1>5, <1>7, <1>10
  <2>2. (10 * h + 1) * d <= cover * d
    BY <1>1, <1>5, <2>1, TimesKeepsOrder
  <2>3. cover * d = d * cover /\ (10 * h + 1) * d = 10 * (d * h) + d
    BY <1>1, <1>5, SMT
  <2>4. QED
    BY <1>1, <1>5, <2>2, <2>3
<1>11. QED
  BY <1>8, <1>9, <1>10

\* A SKU that is not to be reordered now has on its shelf what it sells until an
\* order can arrive, to within the twentieth of a day its runway is rounded by,
\* and holds, with what is on its way, at least its reorder point: no status but
\* REORDER_NOW hides a stockout, however the floats come out
\* (inventory_engine.analyze_sku).
THEOREM NotNowOutlastsTheLeadTime ==
    ASSUME NEW s \in Skus, NEW f \in analyze_sku(s), s.avg_daily_sales > 0,
           status(s, f) # "REORDER_NOW"
    PROVE  /\ 20 * (s.avg_daily_sales * s.lead_time_days)
                 <= 2000 * s.on_hand + s.avg_daily_sales
           /\ f.reorder_point <= effective(s)
<1> DEFINE d == s.avg_daily_sales
           need == d * Horizon(s)
<1>1. d \in Nat \ {0} /\ need \in Nat /\ effective(s) \in Nat /\ Horizon(s) \in Nat
  BY SkuTypes
<1>2. ~RunsDry(s, f) /\ ~(days_to_reorder(s, f) <= 0)
  BY <1>1 DEF status, AtThePoint
<1>3. /\ 20 * (d * s.lead_time_days) <= 2000 * s.on_hand + d
      /\ 20 * need + d <= 2000 * effective(s)
  BY <1>2, Runways
<1>4. \E point : point = f.reorder_point
  OBVIOUS
<1> PICK point : point = f.reorder_point
  BY <1>4
<1>5. point \in UnitsFor(d, Horizon(s))
  BY DEF analyze_sku
<1>6. point \in Int /\ 100 * (point - 1) <= need
  BY <1>1, <1>5, UnitsAreEnough
<1> HIDE DEF d, need
<1>7. point <= effective(s)
  BY <1>1, <1>3, <1>6
<1>8. QED
  BY <1>3, <1>7 DEF d

\* "At/below the reorder point" is true of a SKU that sells less than 20 units a
\* day; from there on the rounding of its cover can call it so with more than
\* that in stock (inventory_engine.py:113).  At any speed something is then
\* ordered, if the seller reviews the stock at all.
THEOREM AtThePointOrdersSomething ==
    ASSUME NEW s \in Skus, NEW f \in analyze_sku(s), s.avg_daily_sales > 0, AtThePoint(s, f)
    PROVE  /\ s.avg_daily_sales < 2000 => effective(s) <= f.reorder_point
           /\ s.review_period_days > 0 => f.suggested_order_qty > 0
<1> DEFINE d == s.avg_daily_sales
           need == d * Horizon(s)
           more == d * s.review_period_days
<1>1. /\ d \in Nat \ {0} /\ need \in Nat /\ effective(s) \in Nat /\ more \in Nat
      /\ Horizon(s) \in Nat /\ s.review_period_days \in Nat
  BY SkuTypes
<1>2. 2000 * effective(s) <= 20 * need + d
  BY Runways DEF AtThePoint
<1>3. d * (Horizon(s) + s.review_period_days) = need + more
  BY SkuTypes
<1>4. s.review_period_days > 0 => d <= more
  BY SkuTypes, TimesKeepsOrder
<1>5. ASSUME d < 2000
      PROVE  effective(s) <= f.reorder_point
  <2>1. \E point : point = f.reorder_point
    OBVIOUS
  <2> PICK point : point = f.reorder_point
    BY <2>1
  <2>2. point \in UnitsFor(d, Horizon(s))
    BY DEF analyze_sku
  <2>3. point \in Int /\ need <= 100 * point
    BY <1>1, <2>2, UnitsAreEnough
  <2> HIDE DEF d, need
  <2>4. QED
    BY <1>1, <1>2, <1>5, <2>3
<1>6. ASSUME s.review_period_days > 0
      PROVE  f.suggested_order_qty > 0
  <2>1. PICK target \in UnitsFor(d, Horizon(s) + s.review_period_days) :
           f.suggested_order_qty = Missing(s, target)
    BY DEF analyze_sku
  <2>2. target \in Int /\ need + more <= 100 * target
    <3>1. Horizon(s) + s.review_period_days \in Nat /\ need + more \in Nat /\ d \in Nat
      BY <1>1
    <3> HIDE DEF need, more
    <3>2. QED
      BY <1>3, <3>1, UnitsAreEnough
  <2>3. f.suggested_order_qty = IF target > effective(s) THEN target - effective(s) ELSE 0
    BY <2>1 DEF Missing
  <2> HIDE DEF d, need, more
  <2>4. target > effective(s)
    BY <1>1, <1>2, <1>4, <1>6, <2>2
  <2>5. QED
    BY <1>1, <2>2, <2>3, <2>4
<1>7. QED
  BY <1>5, <1>6 DEF d

---------------------------------------------------------------------------
(* The verdict on a product.                                               *)

LEMMA CentsIsNear ==
    ASSUME NEW x \in Int
    PROVE  /\ Cents(x) \in Int
           /\ 1000 * Cents(x) <= x + 500
           /\ x + 500 < 1000 * Cents(x) + 1000
<1>1. x + 500 \in Int
  OBVIOUS
<1>2. QED
  BY <1>1, Division DEF Cents

LEMMA ProductTypes ==
    ASSUME NEW Names, NEW p \in Products(Names)
    PROVE  /\ p.price \in Nat \ {0} /\ p.cogs \in Nat /\ p.fba_fee \in Nat
           /\ p.ppc_per_unit \in Nat /\ p.monthly_sales \in Nat
           /\ p.size_score \in Nat /\ p.demand_score \in Nat /\ p.cert_score \in Nat
           /\ p.patent_ok \in BOOLEAN
           /\ referral_fee(p) \in Int /\ fba_fee_total(p) \in Int
           /\ profit(p) \in Int
<1>1. /\ p.price \in Nat \ {0} /\ p.cogs \in Nat /\ p.fba_fee \in Nat
      /\ p.ppc_per_unit \in Nat /\ p.monthly_sales \in Nat /\ p.referral_rate \in Nat
      /\ p.size_score \in Nat /\ p.demand_score \in Nat /\ p.cert_score \in Nat
      /\ p.patent_ok \in BOOLEAN
  BY DEF Products
<1>2. p.price * p.referral_rate \in Int
  BY <1>1, SMT
<1>3. referral_fee(p) \in Int
  BY <1>2 DEF referral_fee, Larger, MIN_REFERRAL_FEE
<1>4. fba_fee_total(p) \in Int
  BY <1>1 DEF fba_fee_total, FBA_FUEL_SURCHARGE
<1>5. profit(p) \in Int
  BY <1>1, <1>3, <1>4 DEF profit
<1>6. QED
  BY <1>1, <1>3, <1>4, <1>5

\* The what-if panel agrees with the gate: a landed cost two cents below the
\* figure it names keeps the margin above the floor, one two cents above it is
\* an AVOID.  The two cents are the roundings of the fees and of the figure
\* itself (decision_engine.compute_whatif and decide).
THEOREM WhatIfAgreesWithTheGate ==
    ASSUME NEW Names, NEW p \in Products(Names)
    PROVE  /\ p.cogs + 2 <= max_cogs_at_floor(p) => MarginAtLeast(p, MARGIN_HARD_FLOOR)
           /\ max_cogs_at_floor(p) + 2 <= p.cogs => decide(p) = "AVOID"
<1> DEFINE f == referral_fee(p)
           g == fba_fee_total(p)
           room == 850 * p.price - 1000 * Cents(f) - 1000 * Cents(g) - 1000 * p.ppc_per_unit
<1>1. /\ p.price \in Nat \ {0} /\ p.cogs \in Nat /\ p.ppc_per_unit \in Nat
      /\ f \in Int /\ g \in Int
  BY ProductTypes
<1>2. profit(p) = 1000 * (p.price - p.cogs - p.ppc_per_unit) - f - g
  BY DEF profit
<1>3. max_cogs_at_floor(p) = Larger(0, Cents(room))
  BY DEF max_cogs_at_floor, MARGIN_HARD_FLOOR
<1> HIDE DEF f, g
<1>3a. f \in Int
  BY <1>1
<1>3b. g \in Int
  BY <1>1
<1>4. /\ Cents(f) \in Int
      /\ 1000 * Cents(f) <= f + 500
      /\ f + 500 < 1000 * Cents(f) + 1000
  BY <1>3a, CentsIsNear
<1>5. /\ Cents(g) \in Int
      /\ 1000 * Cents(g) <= g + 500
      /\ g + 500 < 1000 * Cents(g) + 1000
  BY <1>3b, CentsIsNear
<1> DEFINE shown == Cents(room)
<1>6. room \in Int
  BY <1>1, <1>4, <1>5
<1>7. shown \in Int /\ 1000 * shown <= room + 500 /\ room + 500 < 1000 * shown + 1000
  BY <1>6, CentsIsNear
<1> HIDE DEF shown
<1>8. MarginAtLeast(p, MARGIN_HARD_FLOOR) <=> profit(p) >= 150 * p.price
  BY DEF MarginAtLeast, MARGIN_HARD_FLOOR
<1>9. max_cogs_at_floor(p) = IF 0 < shown THEN shown ELSE 0
  BY <1>3 DEF Larger, shown
<1>10. ASSUME p.cogs + 2 <= max_cogs_at_floor(p)
       PROVE  MarginAtLeast(p, MARGIN_HARD_FLOOR)
  <2>1. p.cogs + 2 <= shown
    BY <1>1, <1>7, <1>9, <1>10
  <2>2. QED
    BY <1>1, <1>2, <1>4, <1>5, <1>7, <1>8, <2>1
<1>11. ASSUME max_cogs_at_floor(p) + 2 <= p.cogs
       PROVE  decide(p) = "AVOID"
  <2>1. shown + 2 <= p.cogs
    BY <1>1, <1>7, <1>9, <1>11
  <2>2. ~MarginAtLeast(p, MARGIN_HARD_FLOOR)
    BY <1>1, <1>2, <1>4, <1>5, <1>7, <1>8, <2>1
  <2>3. QED
    BY <2>2 DEF decide
<1>12. QED
  BY <1>10, <1>11

LEMMA ClampTypes ==
    ASSUME NEW x \in Int, NEW hi \in Nat
    PROVE  /\ Clamp(x, hi) \in Nat
           /\ Clamp(x, hi) <= hi
  BY DEF Clamp

\* A share of a target grows with what is shared and falls with the target.
LEMMA ShareGrows ==
    ASSUME NEW x \in Int, NEW y \in Int, NEW a \in Nat \ {0}, NEW b \in Nat \ {0},
           x <= y, b <= a
    PROVE  Clamp(x, a) * b <= Clamp(y, b) * a
<1>1. CASE x <= 0
  <2>1. Clamp(x, a) = 0 /\ Clamp(y, b) \in Nat
    BY <1>1, ClampTypes DEF Clamp
  <2>2. \A n \in Nat : 0 * b <= n * a
    BY SMT
  <2>3. QED
    BY <2>1, <2>2
<1>2. CASE y >= b
  <2>1. Clamp(y, b) = b /\ Clamp(x, a) \in Nat /\ Clamp(x, a) <= a
    BY <1>2, ClampTypes DEF Clamp
  <2>2. Clamp(x, a) * b <= a * b
    BY <2>1, TimesKeepsOrder
  <2>3. a * b = b * a
    BY SMT
  <2>4. QED
    BY <2>1, <2>2, <2>3
<1>3. CASE ~(x <= 0) /\ ~(y >= b)
  <2>1. Clamp(x, a) = x /\ Clamp(y, b) = y /\ x \in Nat /\ y \in Nat
    BY <1>3 DEF Clamp
  <2>2. x * b <= y * b
    BY TimesKeepsOrder
  <2>3. b * y <= a * y
    BY <2>1, TimesKeepsOrder
  <2>4. b * y = y * b /\ a * y = y * a
    BY SMT
  <2>5. x * b \in Int /\ y * b \in Int /\ y * a \in Int
    BY SMT
  <2>6. x * b <= y * a
    BY <2>2, <2>3, <2>4, <2>5
  <2>7. QED
    BY <2>1, <2>6
<1>4. QED
  BY <1>1, <1>2, <1>3

LEMMA PartTypes ==
    ASSUME NEW Names, NEW p \in Products(Names)
    PROVE  /\ MarginPart(p).num \in Nat /\ MarginPart(p).den \in Nat \ {0}
           /\ RoiPart(p).num \in Nat /\ RoiPart(p).den \in Nat \ {0}
           /\ RoiPart(p).num <= RoiPart(p).den
           /\ OtherPoints(p) \in Int
<1>1. /\ p.price \in Nat \ {0} /\ p.cogs \in Nat /\ profit(p) \in Int
      /\ p.size_score \in Nat /\ p.demand_score \in Nat /\ p.cert_score \in Nat
  BY ProductTypes
<1>2. /\ MarginPart(p).num = Clamp(profit(p), 300 * p.price)
      /\ MarginPart(p).den = 300 * p.price /\ 300 * p.price \in Nat \ {0}
  BY <1>1 DEF MarginPart, MARGIN_TARGET
<1>3. MarginPart(p).num \in Nat /\ MarginPart(p).den \in Nat \ {0}
  BY <1>1, <1>2, ClampTypes
<1>4. /\ RoiPart(p).num \in Nat /\ RoiPart(p).den \in Nat \ {0}
      /\ RoiPart(p).num <= RoiPart(p).den
  <2>1. CASE p.cogs > 0
    <3> DEFINE a == 1000 * p.cogs
    <3>1. /\ RoiPart(p).num = Clamp(profit(p), a)
          /\ RoiPart(p).den = a /\ a \in Nat \ {0}
      BY <1>1, <2>1 DEF RoiPart, ROI_TARGET
    <3> HIDE DEF a
    <3>2. Clamp(profit(p), a) \in Nat /\ Clamp(profit(p), a) <= a
      BY <1>1, <3>1, ClampTypes
    <3>3. QED
      BY <3>1, <3>2
  <2>2. CASE ~(p.cogs > 0)
    BY <2>2 DEF RoiPart
  <2>3. QED
    BY <2>1, <2>2
<1>5. _price_subscore(p.price) \in Int /\ _competition_subscore(p) \in Int
  BY DEF _price_subscore, _competition_subscore
<1>6. OtherPoints(p) \in Int
  BY <1>1, <1>5 DEF OtherPoints
<1>7. QED
  BY <1>3, <1>4, <1>6

\* Two shares m/d and i/a that both grow, to n/d and j/b, keep what their
\* weighted sum has reached.
LEMMA SumOfSharesGrows ==
    ASSUME NEW m \in Nat, NEW n \in Nat, NEW d \in Nat, NEW i \in Nat, NEW j \in Nat,
           NEW a \in Nat \ {0}, NEW b \in Nat \ {0}, NEW goal \in Int,
           m <= n, i * b <= j * a,
           100 * (m * a) + 60 * (i * d) >= goal * a
    PROVE  100 * (n * b) + 60 * (j * d) >= goal * b
<1>1. \A x, y \in Int : x * y \in Int
  BY SMT
<1>2. /\ m * a \in Int /\ i * d \in Int /\ goal * a \in Int /\ goal * b \in Int
      /\ n * b \in Int /\ j * d \in Int /\ m * b \in Int /\ i * b \in Int /\ j * a \in Int
  BY <1>1
<1> DEFINE before == 100 * (m * a) + 60 * (i * d)
           after == 100 * (n * b) + 60 * (j * d)
<1>3. before \in Int /\ after \in Int
  BY <1>2
<1>4. (goal * a) * b <= before * b
  BY <1>2, <1>3, TimesKeepsOrder
<1>5. before * b = 100 * ((m * b) * a) + 60 * ((i * b) * d)
  BY SMT
<1>6. after * a = 100 * ((n * b) * a) + 60 * ((j * a) * d)
  BY SMT
<1>7. (m * b) * a <= (n * b) * a /\ (m * b) * a \in Int /\ (n * b) * a \in Int
  <2>1. m * b <= n * b
    BY TimesKeepsOrder
  <2>2. QED
    BY <1>2, <2>1, TimesKeepsOrder
<1>8. (i * b) * d <= (j * a) * d /\ (i * b) * d \in Int /\ (j * a) * d \in Int
  BY <1>2, TimesKeepsOrder
<1>9. before * b <= after * a
  BY <1>5, <1>6, <1>7, <1>8
<1>10. (goal * a) * b = (goal * b) * a
  BY SMT
<1> HIDE DEF before, after
<1>11. before * b \in Int /\ after * a \in Int /\ (goal * b) * a \in Int
  BY <1>1, <1>2, <1>3
<1>12. (goal * b) * a <= after * a
  BY <1>4, <1>9, <1>10, <1>11
<1>13. goal * b <= after
  BY <1>2, <1>3, <1>12, OrderKeptByTimes
<1>14. QED
  BY <1>2, <1>3, <1>13 DEF after

LEMMA ScoreInShares ==
    ASSUME NEW Names, NEW p \in Products(Names), NEW t \in Int,
           NEW m, m = MarginPart(p), NEW r, r = RoiPart(p)
    PROVE  ScoreAtLeast(p, t)
              <=> 100 * (m.num * r.den) + 60 * (r.num * m.den)
                     >= ((2 * (2 * t - 1) - OtherPoints(p)) * m.den) * r.den
<1> DEFINE k == 2 * (2 * t - 1)
           o == OtherPoints(p)
<1>1. /\ m.num \in Nat /\ m.den \in Nat \ {0} /\ r.num \in Nat /\ r.den \in Nat \ {0}
      /\ o \in Int /\ k \in Int
  BY PartTypes
<1>2. ScoreAtLeast(p, t)
         <=> 4 * (25 * m.num * r.den + 15 * r.num * m.den) + o * m.den * r.den
                >= k * m.den * r.den
  BY DEF ScoreAtLeast
<1> HIDE DEF k, o
<1>3. \A x, y \in Int : x * y \in Int
  BY SMT
<1>4. /\ m.num * r.den \in Int /\ r.num * m.den \in Int
      /\ (k * m.den) * r.den \in Int /\ (o * m.den) * r.den \in Int
  BY <1>1, <1>3
<1>5. 4 * (25 * m.num * r.den + 15 * r.num * m.den)
         = 100 * (m.num * r.den) + 60 * (r.num * m.den)
  BY <1>1, SMT
<1>6. ((k - o) * m.den) * r.den = (k * m.den) * r.den - (o * m.den) * r.den
  BY <1>1, SMT
<1>7. QED
  BY <1>2, <1>4, <1>5, <1>6 DEF k, o

\* What a lower landed cost does to the parts of the score.
LEMMA CheaperParts ==
    ASSUME NEW Names, NEW p \in Products(Names), NEW q \in Products(Names),
           q = [p EXCEPT !.cogs = q.cogs], q.cogs <= p.cogs
    PROVE  /\ profit(p) <= profit(q)
           /\ q.price = p.price /\ q.patent_ok = p.patent_ok
           /\ MarginPart(p).num <= MarginPart(q).num
           /\ MarginPart(p).den = MarginPart(q).den
           /\ RoiPart(p).num * RoiPart(q).den <= RoiPart(q).num * RoiPart(p).den
           /\ OtherPoints(p) = OtherPoints(q)
<1>1. /\ q.price = p.price /\ q.patent_ok = p.patent_ok /\ q.fba_fee = p.fba_fee
      /\ q.ppc_per_unit = p.ppc_per_unit /\ q.referral_rate = p.referral_rate
      /\ q.size_score = p.size_score /\ q.demand_score = p.demand_score
      /\ q.cert_score = p.cert_score /\ q.dominant_brands = p.dominant_brands
      /\ q.median_reviews = p.median_reviews
  BY DEF Products
<1>2. /\ p.price \in Nat \ {0} /\ p.cogs \in Nat /\ q.cogs \in Nat /\ p.ppc_per_unit \in Nat
      /\ referral_fee(p) \in Int /\ fba_fee_total(p) \in Int
      /\ profit(p) \in Int /\ profit(q) \in Int
  BY ProductTypes
<1>3. referral_fee(q) = referral_fee(p) /\ fba_fee_total(q) = fba_fee_total(p)
  BY <1>1 DEF referral_fee, fba_fee_total
<1>4. profit(p) <= profit(q)
  BY <1>1, <1>2, <1>3 DEF profit
<1>5. /\ MarginPart(p).num <= MarginPart(q).num
      /\ MarginPart(p).den = MarginPart(q).den
  BY <1>1, <1>2, <1>4 DEF MarginPart, MARGIN_TARGET, Clamp
<1>6. OtherPoints(p) = OtherPoints(q)
  BY <1>1 DEF OtherPoints, _competition_subscore
<1>7. RoiPart(p).num * RoiPart(q).den <= RoiPart(q).num * RoiPart(p).den
  <2>1. CASE q.cogs > 0
    <3> DEFINE a == 1000 * p.cogs
               b == 1000 * q.cogs
    <3>1. a \in Nat \ {0} /\ b \in Nat \ {0} /\ b <= a /\ p.cogs > 0
      BY <1>2, <2>1
    <3>2. /\ RoiPart(p).num = Clamp(profit(p), a) /\ RoiPart(p).den = a
          /\ RoiPart(q).num = Clamp(profit(q), b) /\ RoiPart(q).den = b
      BY <2>1, <3>1 DEF RoiPart, ROI_TARGET
    <3> HIDE DEF a, b
    <3>3. Clamp(profit(p), a) * b <= Clamp(profit(q), b) * a
      BY <1>2, <1>4, <3>1, ShareGrows
    <3>4. QED
      BY <3>2, <3>3
  <2>2. CASE ~(q.cogs > 0)
    <3>1. /\ RoiPart(q).num = (IF profit(q) > 0 THEN 1 ELSE 0) /\ RoiPart(q).den = 1
          /\ RoiPart(p).num \in Nat /\ RoiPart(p).den \in Nat
          /\ RoiPart(p).num <= RoiPart(p).den
      BY <2>2, PartTypes DEF RoiPart
    <3>2. ASSUME ~(profit(q) > 0)
          PROVE  RoiPart(p).num = 0
      BY <1>2, <1>4, <3>2 DEF RoiPart, ROI_TARGET, Clamp
    <3>3. QED
      BY <3>1, <3>2
  <2>3. QED
    BY <2>1, <2>2
<1>8. QED
  BY <1>1, <1>4, <1>5, <1>6, <1>7

LEMMA CheaperKeepsScore ==
    ASSUME NEW Names, NEW p \in Products(Names), NEW q \in Products(Names),
           q = [p EXCEPT !.cogs = q.cogs], q.cogs <= p.cogs,
           NEW t \in Int, ScoreAtLeast(p, t)
    PROVE  ScoreAtLeast(q, t)
<1> DEFINE m == MarginPart(p)
           n == MarginPart(q)
           r == RoiPart(p)
           w == RoiPart(q)
           goal == (2 * (2 * t - 1) - OtherPoints(p)) * m.den
<1>1. /\ m.num \in Nat /\ m.den \in Nat \ {0} /\ r.num \in Nat /\ r.den \in Nat \ {0}
      /\ n.num \in Nat /\ w.num \in Nat /\ w.den \in Nat \ {0} /\ OtherPoints(p) \in Int
  BY PartTypes
<1>2. /\ m.num <= n.num /\ m.den = n.den /\ OtherPoints(p) = OtherPoints(q)
      /\ r.num * w.den <= w.num * r.den
  BY CheaperParts
<1>3. goal \in Int
  BY <1>1, SMT
<1>4. 100 * (m.num * r.den) + 60 * (r.num * m.den) >= goal * r.den
  BY ScoreInShares
<1>5. ScoreAtLeast(q, t) <=> 100 * (n.num * w.den) + 60 * (w.num * m.den) >= goal * w.den
  BY <1>2, ScoreInShares
<1> HIDE DEF m, n, r, w, goal
<1>6. 100 * (n.num * w.den) + 60 * (w.num * m.den) >= goal * w.den
  BY ZenonT(120), <1>1, <1>2, <1>3, <1>4, SumOfSharesGrows
<1>7. QED
  BY <1>5, <1>6

\* A cheaper supplier never worsens the verdict, whatever else the product is:
\* the clamps, the gate on the margin and the jump of the return at no cost all
\* go the same way (decision_engine.decide, and operator.plan's second scoring).
THEOREM CheaperNeverWorse ==
    ASSUME NEW Names, NEW p \in Products(Names), NEW q \in Products(Names),
           q = [p EXCEPT !.cogs = q.cogs], q.cogs <= p.cogs
    PROVE  /\ decide(p) = "BUY" => decide(q) = "BUY"
           /\ decide(p) = "CAUTION" => decide(q) \in {"BUY", "CAUTION"}
<1>1. /\ profit(p) \in Int /\ profit(q) \in Int /\ p.price \in Nat
      /\ profit(p) <= profit(q) /\ q.price = p.price /\ q.patent_ok = p.patent_ok
  BY ProductTypes, CheaperParts
<1>2. MarginAtLeast(p, MARGIN_HARD_FLOOR) => MarginAtLeast(q, MARGIN_HARD_FLOOR)
  BY <1>1 DEF MarginAtLeast, MARGIN_HARD_FLOOR
<1>3. BUY_THRESHOLD \in Int /\ CAUTION_THRESHOLD \in Int
  BY DEF BUY_THRESHOLD, CAUTION_THRESHOLD
<1>4. ScoreAtLeast(p, BUY_THRESHOLD) => ScoreAtLeast(q, BUY_THRESHOLD)
  BY <1>3, CheaperKeepsScore
<1>5. ScoreAtLeast(p, CAUTION_THRESHOLD) => ScoreAtLeast(q, CAUTION_THRESHOLD)
  BY <1>3, CheaperKeepsScore
<1>6. QED
  BY <1>1, <1>2, <1>4, <1>5 DEF decide

---------------------------------------------------------------------------
(* The plan.                                                               *)

\* Where no two candidates of a niche share a name the candidate is found again
\* by its name.
LEMMA FoundByName ==
    ASSUME NEW kept, NEW i \in DOMAIN kept,
           DOMAIN kept \subseteq Int,
           \A j \in DOMAIN kept : kept[j].name = kept[i].name => j = i
    PROVE  by_name(kept, kept[i].name) = kept[i]
<1> DEFINE IsLast(k) == /\ kept[k].name = kept[i].name
                        /\ \A j \in DOMAIN kept : kept[j].name = kept[i].name => j <= k
<1>1. i \in Int
  OBVIOUS
<1>2. IsLast(i)
  BY <1>1
<1>3. \A k \in DOMAIN kept : IsLast(k) => k = i
  OBVIOUS
<1>4. (CHOOSE k \in DOMAIN kept : IsLast(k)) = i
  BY <1>2, <1>3
<1>5. QED
  BY <1>4 DEF by_name

LEMMA WithCost ==
    ASSUME NEW Names, NEW p \in Products(Names), NEW x \in Nat
    PROVE  /\ [p EXCEPT !.cogs = x] \in Products(Names)
           /\ [p EXCEPT !.cogs = x].cogs = x
<1>1. [p EXCEPT !.cogs = x].cogs = x
  BY DEF Products
<1>2. [p EXCEPT !.cogs = x] \in Products(Names)
  BY SMTT(60) DEF Products
<1>3. QED
  BY <1>1, <1>2

\* The inputs and the score of a plan, for a candidate found again by its name.
LEMMA PlanOfFound ==
    ASSUME NEW kept, NEW i, NEW offer, NEW real \in BOOLEAN,
           by_name(kept, kept[i].name) = kept[i],
           NEW c, c = kept[i]
    PROVE  LET detail == plan(kept, i, offer, real)
           IN /\ IF real /\ offer # NoOffer
                 THEN detail.inputs = [c EXCEPT !.cogs = offer.est_landed_cost]
                 ELSE detail.inputs = c
              /\ detail.product = evaluate(detail.inputs)
              /\ detail.payback = compute_payback(offer.moq, detail.inputs.cogs,
                                                  detail.product.monthly_profit)
  BY DEF plan

\* What the autopilot queues is what it scored: with names that differ, the
\* inputs stored with a plan are the picked candidate's but for the cost, and
\* evaluating them again gives the verdict shown.
\* A BUY that passed the seller's filters is free of brand risk, keeps the
\* margin above the floor and above the seller's own limit, and what it costs
\* up front was computed from the cost it was scored with (operator.plan,
\* autopilot_service.meets_money_criteria).
THEOREM QueuedPlanStandsUp ==
    ASSUME NEW Names, NEW n \in Nat, NEW kept \in [1 .. n -> Products(Names)],
           \A j, k \in 1 .. n : kept[j].name = kept[k].name => j = k,
           NEW i \in Picks(kept), NEW offers \in SUBSET Offers,
           NEW offer \in find_suppliers(offers), NEW real \in BOOLEAN,
           NEW req \in Requests,
           NEW detail, detail = plan(kept, i, offer, real),
           req.only_buy, meets_money_criteria(detail, req)
    PROVE  /\ detail.product = evaluate(detail.inputs)
           /\ \A field \in DOMAIN kept[i] \ {"cogs"} : detail.inputs[field] = kept[i][field]
           /\ detail.inputs.patent_ok
           /\ MarginAtLeast(detail.inputs, MARGIN_HARD_FLOOR)
           /\ MarginAtLeast(detail.inputs, req.min_margin)
           /\ detail.payback.upfront = offer.moq * detail.inputs.cogs
<1> DEFINE c == kept[i]
<1>1. i \in 1 .. n
  BY DEF Picks
<1>2. by_name(kept, kept[i].name) = kept[i]
  BY <1>1, FoundByName
<1>3. /\ IF real /\ offer # NoOffer
         THEN detail.inputs = [c EXCEPT !.cogs = offer.est_landed_cost]
         ELSE detail.inputs = c
      /\ detail.product = evaluate(detail.inputs)
      /\ detail.payback = compute_payback(offer.moq, detail.inputs.cogs,
                                          detail.product.monthly_profit)
  BY <1>2, PlanOfFound
<1>4. \A field \in DOMAIN c \ {"cogs"} : detail.inputs[field] = c[field]
  <2>1. c \in Products(Names)
    BY <1>1
  <2> HIDE DEF c
  <2>2. \A x : \A field \in DOMAIN c \ {"cogs"} : [c EXCEPT !.cogs = x][field] = c[field]
    BY <2>1 DEF Products
  <2>3. QED
    BY <1>3, <2>2
<1>5. /\ detail.product.verdict = decide(detail.inputs)
      /\ detail.product.profit = profit(detail.inputs)
      /\ detail.product.price = detail.inputs.price
  BY <1>3 DEF evaluate
<1>6. decide(detail.inputs) = "BUY" /\ profit(detail.inputs) >= req.min_margin * detail.inputs.price
  BY <1>5 DEF meets_money_criteria
<1>7. detail.inputs.patent_ok /\ MarginAtLeast(detail.inputs, MARGIN_HARD_FLOOR)
  BY <1>6 DEF decide
<1>8. MarginAtLeast(detail.inputs, req.min_margin)
  BY <1>6 DEF MarginAtLeast
<1>9. detail.payback.upfront = offer.moq * detail.inputs.cogs
  BY <1>3 DEF compute_payback
<1>10. QED
  BY <1>3, <1>4, <1>7, <1>8, <1>9

\* Ranking the offers by their landed cost is ranking them by the verdict: had
\* any other offer made the product a BUY, the plan is a BUY
\* (suppliers.find_suppliers, operator.plan).
THEOREM CheapestOfferScoresBest ==
    ASSUME NEW Names, NEW n \in Nat, NEW kept \in [1 .. n -> Products(Names)],
           \A j, k \in 1 .. n : kept[j].name = kept[k].name => j = k,
           NEW i \in Picks(kept), NEW offers \in SUBSET Offers,
           NEW offer \in find_suppliers(offers), NEW other \in offers,
           decide([kept[i] EXCEPT !.cogs = other.est_landed_cost]) = "BUY"
    PROVE  plan(kept, i, offer, TRUE).product.verdict = "BUY"
<1> DEFINE c == kept[i]
           dear == [c EXCEPT !.cogs = other.est_landed_cost]
           cheap == [c EXCEPT !.cogs = offer.est_landed_cost]
<1>1. i \in 1 .. n
  BY DEF Picks
<1>2. offer \in offers /\ offer # NoOffer /\ offer.est_landed_cost <= other.est_landed_cost
  BY DEF find_suppliers, Offers, NoOffer
<1>3. other.est_landed_cost \in Nat /\ offer.est_landed_cost \in Nat
  BY <1>2 DEF Offers
<1>4. by_name(kept, kept[i].name) = kept[i]
  BY <1>1, FoundByName
<1>5. c \in Products(Names)
  BY <1>1
<1>6. plan(kept, i, offer, TRUE).product.verdict = decide(cheap)
  BY <1>2, <1>4 DEF plan, evaluate
<1> HIDE DEF c
<1>7. /\ dear \in Products(Names) /\ cheap \in Products(Names)
      /\ dear.cogs = other.est_landed_cost /\ cheap.cogs = offer.est_landed_cost
      /\ cheap = [dear EXCEPT !.cogs = cheap.cogs]
  <2>1. \A x \in Nat : /\ [c EXCEPT !.cogs = x] \in Products(Names)
                      /\ [c EXCEPT !.cogs = x].cogs = x
    BY <1>5, WithCost
  <2>2. \A x, y : [[c EXCEPT !.cogs = x] EXCEPT !.cogs = y] = [c EXCEPT !.cogs = y]
    OBVIOUS
  <2>3. QED
    BY <1>3, <2>1, <2>2
<1>8. decide(dear) = "BUY"
  BY DEF c
<1> HIDE DEF dear, cheap
<1>9. decide(cheap) = "BUY"
  BY <1>2, <1>7, <1>8, CheaperNeverWorse
<1>10. QED
  BY <1>6, <1>9

---------------------------------------------------------------------------
(* What awaits a decision.                                                 *)

\* What of an action the list is about; the rest is of some set X.
ActionRows(X) ==
    [key : Keys, on_hand : X, status : {"proposed", "dismissed", "applied", "measured"},
     applied : X, restated : X, impact : X]
Listed == \E X : actions \in Seq(ActionRows(X))

\* A scan proposes at most one notice of a kind about the shop, and one restock.
Notice(rule) == [key |-> Key(rule, Shop), on_hand |-> 0]
RestockOf(units) == [key |-> Key("STOCKOUT_RISK", Product), on_hand |-> units]
FewProposals(proposals) ==
    \E units : proposals \subseteq {Notice("COSTS_MISSING"), Notice("REFUNDS_HIGH"),
                                    Notice("SALES_STALLED"), RestockOf(units)}

Awaits(i) == actions[i].status = "proposed" /\ actions[i].key \notin overlapped

\* Every scan in progress has read every key that awaits a decision: what was
\* opened after it read is about a key that overlapped.
Once ==
    /\ Listed
    /\ DOMAIN scan = Scanners
    /\ \A s \in Scanners : scan[s] # Idle =>
          /\ FewProposals(scan[s].proposals)
          /\ \A i \in DOMAIN actions : Awaits(i) => actions[i].key \in scan[s].open_keys
    /\ \A i, j \in DOMAIN actions :
          Awaits(i) /\ Awaits(j) /\ actions[i].key = actions[j].key => i = j

LEMMA FewAreKeyed ==
    ASSUME NEW proposals, FewProposals(proposals)
    PROVE  /\ IsFiniteSet(proposals)
           /\ \A p \in proposals : p.key \in Keys
           /\ \A p, q \in proposals : p.key = q.key => p = q
<1>1. PICK units : proposals \subseteq {Notice("COSTS_MISSING"), Notice("REFUNDS_HIGH"),
                                        Notice("SALES_STALLED"), RestockOf(units)}
  BY DEF FewProposals
<1> DEFINE few == (({Notice("COSTS_MISSING")} \cup {Notice("REFUNDS_HIGH")})
                    \cup {Notice("SALES_STALLED")}) \cup {RestockOf(units)}
<1>2. IsFiniteSet(few)
  <2>1. IsFiniteSet({Notice("COSTS_MISSING")})
    BY FS_Singleton
  <2>2. IsFiniteSet({Notice("COSTS_MISSING")} \cup {Notice("REFUNDS_HIGH")})
    BY <2>1, FS_AddElement
  <2>3. IsFiniteSet(({Notice("COSTS_MISSING")} \cup {Notice("REFUNDS_HIGH")})
                     \cup {Notice("SALES_STALLED")})
    BY <2>2, FS_AddElement
  <2>4. QED
    BY <2>3, FS_AddElement
<1>3. IsFiniteSet(proposals)
  BY <1>1, <1>2, FS_Subset
<1>4. \A p \in few : p.key \in Keys
  BY DEF Notice, RestockOf, Key, COMMERCE_ACTIONS, Keys, Shop, Product
<1>5. \A p, q \in few : p.key = q.key => p = q
  BY DEF Notice, RestockOf, Key, COMMERCE_ACTIONS, Shop, Product
<1>6. QED
  BY <1>1, <1>3, <1>4, <1>5

\* What a scan reads off the days and the shelf.
LEMMA ReadsOfTheShelf ==
    ASSUME NEW series, NEW n
    PROVE  proposals_from_commerce(analyze(series), analyze_products({OnTheShelf}, n), Shop)
             \subseteq {Notice("COSTS_MISSING"), Notice("REFUNDS_HIGH"), Notice("SALES_STALLED"),
                        RestockOf(onHand)}
<1>1. analyze(series) \subseteq {"COSTS_MISSING", "REFUNDS_HIGH", "SALES_STALLED"}
  BY DEF analyze
<1>2. \A p \in analyze_products({OnTheShelf}, n) : p.title = Product /\ p.on_hand = onHand
  BY DEF analyze_products, OnTheShelf
<1>3. QED
  BY <1>1, <1>2 DEF proposals_from_commerce, Notice, RestockOf

LEMMA ReadsFew ==
    ASSUME NEW series, NEW n
    PROVE  FewProposals(proposals_from_commerce(analyze(series), analyze_products({OnTheShelf}, n), Shop))
BY ReadsOfTheShelf DEF FewProposals

\* A set in some order has each of its members once.
LEMMA InSomeOrder ==
    ASSUME NEW S, IsFiniteSet(S)
    PROVE  /\ SetToSeq(S) \in Seq(S)
           /\ DOMAIN SetToSeq(S) = 1..Len(SetToSeq(S))
           /\ \A i, j \in DOMAIN SetToSeq(S) : SetToSeq(S)[i] = SetToSeq(S)[j] => i = j
<1>1. PICK n \in Nat : n = Cardinality(S)
  BY FS_CardinalityType
<1>2. \E f \in [1..n -> S] : IsInjective(f)
  BY <1>1, FS_CardinalityType DEF ExistsBijection, Bijection, Injection
<1>3. SetToSeq(S) \in [1..n -> S] /\ IsInjective(SetToSeq(S))
  BY <1>1, <1>2 DEF SetToSeq
<1>4. SetToSeq(S) \in Seq(S)
  BY <1>3, SeqDef
<1>5. DOMAIN SetToSeq(S) = 1..Len(SetToSeq(S))
  BY <1>4
<1>6. QED
  BY <1>3, <1>4, <1>5 DEF IsInjective

LEMMA WiderSeq ==
    ASSUME NEW A, NEW B, A \subseteq B, NEW s \in Seq(A)
    PROVE  s \in Seq(B)
<1>1. PICK n \in Nat : s \in [1..n -> A]
  BY SeqDef
<1>2. s \in [1..n -> B]
  BY <1>1
<1>3. QED
  BY <1>2, SeqDef

LEMMA InitOnce == Init => Once
<1> SUFFICES ASSUME Init
             PROVE  Once
  OBVIOUS
<1>1. actions = <<>> /\ DOMAIN actions = {} /\ \A s \in Scanners : scan[s] = Idle
  BY DEF Init
<1>2. Listed
  BY <1>1 DEF Listed
<1>3. DOMAIN scan = Scanners
  BY DEF Init
<1>4. QED
  BY <1>1, <1>2, <1>3 DEF Once

\* A step that leaves the rows where they are, and proposes none again.
LEMMA CalmOnce ==
    ASSUME Once, Listed', UNCHANGED <<scan, overlapped>>, DOMAIN actions' = DOMAIN actions,
           \A i \in DOMAIN actions :
              /\ actions'[i].key = actions[i].key
              /\ actions'[i].status = "proposed" => actions[i].status = "proposed"
    PROVE  Once'
BY DEF Once, Awaits

LEMMA RestatedOnce ==
    ASSUME Once, NEW from, NEW to, actions' = Restated(from, to), UNCHANGED <<scan, overlapped>>
    PROVE  Once'
<1>1. DOMAIN actions' = DOMAIN actions
  BY DEF Restated
<1>2. PICK X : actions \in Seq(ActionRows(X))
  BY DEF Once, Listed
<1>3. DOMAIN actions = 1..Len(actions) /\ Len(actions) \in Nat
      /\ \A i \in DOMAIN actions : actions[i] \in ActionRows(X)
  BY <1>2
<1>4. ASSUME NEW i \in DOMAIN actions
      PROVE  /\ actions'[i] \in ActionRows(X \cup {TRUE})
             /\ actions'[i].key = actions[i].key /\ actions'[i].status = actions[i].status
  <2>1. actions[i] \in ActionRows(X \cup {TRUE})
    BY <1>3 DEF ActionRows
  <2>2. actions'[i] \in {actions[i], [actions[i] EXCEPT !.restated = TRUE]}
    BY DEF Restated
  <2>3. QED
    BY <2>1, <2>2 DEF ActionRows
<1>5. actions' \in [1..Len(actions) -> ActionRows(X \cup {TRUE})]
  BY <1>3, <1>4 DEF Restated
<1>6. Listed'
  BY <1>3, <1>5, SeqDef DEF Listed
<1>7. QED
  BY <1>1, <1>4, <1>6, CalmOnce

LEMMA DecidedOnce ==
    ASSUME Once, NEW i \in DOMAIN actions, Dismiss(i) \/ Confirm(i) \/ Measure(i)
    PROVE  Once'
<1>1. PICK X : actions \in Seq(ActionRows(X))
  BY DEF Once, Listed
<1>2. DOMAIN actions = 1..Len(actions) /\ Len(actions) \in Nat
      /\ \A j \in DOMAIN actions : actions[j] \in ActionRows(X)
  BY <1>1
<1> PICK price : price = Price(actions[i])
  OBVIOUS
<1> DEFINE Y == X \cup {today, price}
<1>3. PICK a : /\ actions' = [actions EXCEPT ![i] = a]
               /\ a \in {[actions[i] EXCEPT !.status = "dismissed"],
                         [actions[i] EXCEPT !.status = "applied", !.applied = today],
                         [actions[i] EXCEPT !.status = "measured", !.impact = price]}
  BY DEF Dismiss, Confirm, Measure
<1>4. actions[i] \in ActionRows(Y)
  BY <1>2 DEF ActionRows
<1>5. a \in ActionRows(Y) /\ a.key = actions[i].key /\ a.status # "proposed"
  BY <1>3, <1>4 DEF ActionRows
<1>6. \A j \in DOMAIN actions : actions[j] \in ActionRows(Y)
  BY <1>2 DEF ActionRows
<1>7. actions' \in [1..Len(actions) -> ActionRows(Y)]
  BY <1>1, <1>2, <1>3, <1>5, <1>6
<1>8. Listed'
  BY <1>2, <1>7, SeqDef DEF Listed
<1>9. UNCHANGED <<scan, overlapped>>
  BY DEF Dismiss, Confirm, Measure, Scanning
<1>10. /\ DOMAIN actions' = DOMAIN actions
       /\ \A j \in DOMAIN actions : actions'[j] = IF j = i THEN a ELSE actions[j]
  BY <1>2, <1>3
<1>11. QED
  BY <1>5, <1>8, <1>9, <1>10, CalmOnce

LEMMA ReadOnce ==
    ASSUME Once, NEW s \in Scanners, Read(s) \/ FailScan(s)
    PROVE  Once'
<1>1. UNCHANGED <<actions, overlapped>>
  BY DEF Read, FailScan
<1>2. PICK read : /\ scan' = [scan EXCEPT ![s] = read]
                  /\ read # Idle => /\ FewProposals(read.proposals)
                                    /\ read.open_keys = OpenKeys
  <2>1. CASE Read(s)
    <3> DEFINE series == daily_series(StoredDays(ScannedSince), today)
    <3>1. PICK found :
            found = proposals_from_commerce(analyze(series),
                        analyze_products({OnTheShelf}, Cardinality(series)), Shop)
      OBVIOUS
    <3> PICK read : read = [phase |-> "read", open_keys |-> OpenKeys, proposals |-> found]
      OBVIOUS
    <3>2. scan' = [scan EXCEPT ![s] = read]
      BY <2>1, <3>1 DEF Read
    <3> HIDE DEF series
    <3>3. FewProposals(read.proposals) /\ read.open_keys = OpenKeys
      BY <3>1, ReadsFew
    <3>4. QED
      BY <3>2, <3>3
  <2>2. CASE FailScan(s)
    BY <2>2 DEF FailScan
  <2>3. QED
    BY <2>1, <2>2
<1>3. /\ DOMAIN scan' = Scanners
      /\ \A t \in Scanners : scan'[t] = IF t = s THEN read ELSE scan[t]
  BY <1>2 DEF Once
<1>4. \A i \in DOMAIN actions : Awaits(i) => actions[i].key \in OpenKeys
  BY DEF Awaits, OpenKeys
<1>5. QED
  BY <1>1, <1>2, <1>3, <1>4 DEF Once, Awaits, Listed

\* The rows a scan adds: new keys, each once.
LEMMA OpenedOnce ==
    ASSUME Once, NEW s \in Scanners, Open(s)
    PROVE  Once'
<1> DEFINE opened == {p \in scan[s].proposals : p.key \notin scan[s].open_keys}
           rows == {Proposed(p) : p \in opened}
<1>1. /\ IsFiniteSet(opened) /\ \A p \in opened : p.key \in Keys /\ p.key \notin scan[s].open_keys
      /\ \A p, q \in opened : p.key = q.key => p = q
  <2>1. FewProposals(scan[s].proposals)
    BY DEF Open, Once
  <2>2. QED
    BY <2>1, FewAreKeyed, FS_Subset
<1>2. IsFiniteSet(rows)
  <2> DEFINE f == [p \in opened |-> Proposed(p)]
  <2>1. f \in Surjection(opened, rows)
    BY DEF Surjection
  <2> HIDE DEF f, opened, rows
  <2>2. QED
    BY <1>1, <2>1, FS_Surjection
<1> HIDE DEF rows
<1>3. PICK new : new = SetToSeq(rows)
  OBVIOUS
<1>4. /\ new \in Seq(rows) /\ DOMAIN new = 1..Len(new) /\ Len(new) \in Nat
      /\ \A i, j \in DOMAIN new : new[i] = new[j] => i = j
      /\ \A i \in DOMAIN new : new[i] \in rows
  BY <1>2, <1>3, InSomeOrder
<1>5. /\ actions' = actions \o new
      /\ scan' = [scan EXCEPT ![s] = Idle]
      /\ overlapped' = IF \E t \in Scanners \ {s} : scan[t] # Idle
                       THEN overlapped \cup {p.key : p \in opened} ELSE overlapped
  BY <1>3 DEF Open, rows
<1>6. PICK X : actions \in Seq(ActionRows(X))
  BY DEF Once, Listed
<1> PICK n \in Nat : n = Len(actions)
  BY <1>6
<1> PICK Y : Y = X \cup {p.on_hand : p \in opened} \cup {Never, FALSE, Unpriced}
  OBVIOUS
<1>7. \A a \in rows : /\ a \in ActionRows(Y) /\ a.status = "proposed"
                      /\ \E p \in opened : a = Proposed(p) /\ a.key = p.key
  <2> TAKE a \in rows
  <2>1. PICK p \in opened : a = Proposed(p)
    BY DEF rows
  <2>2. p.key \in Keys /\ {p.on_hand, Never, FALSE, Unpriced} \subseteq Y
    BY <1>1
  <2> HIDE DEF opened
  <2>3. a \in ActionRows(Y) /\ a.status = "proposed" /\ a.key = p.key
    BY <2>1, <2>2 DEF Proposed, ActionRows
  <2>4. QED
    BY <2>1, <2>3
<1>8. actions \in Seq(ActionRows(Y)) /\ new \in Seq(ActionRows(Y))
  <2>1. ActionRows(X) \subseteq ActionRows(Y)
    BY DEF ActionRows
  <2>2. rows \subseteq ActionRows(Y)
    BY <1>7
  <2>3. QED
    BY <1>4, <1>6, <2>1, <2>2, WiderSeq
<1> HIDE DEF opened
<1>9. /\ actions \o new \in Seq(ActionRows(Y))
      /\ DOMAIN actions' = 1..(n + Len(new))
      /\ \A i \in 1..n : actions'[i] = actions[i]
      /\ \A i \in (n + 1)..(n + Len(new)) : i - n \in DOMAIN new /\ actions'[i] = new[i - n]
  BY <1>4, <1>5, <1>8
<1>10. Listed'
  BY <1>5, <1>9 DEF Listed
<1>11. /\ DOMAIN scan' = Scanners /\ scan'[s] = Idle
       /\ \A t \in Scanners \ {s} : scan'[t] = scan[t]
  BY <1>5 DEF Once
<1>12. DOMAIN actions = 1..n
  BY <1>6
\* What awaits a decision afterwards did before, or is one of the new rows.
<1>13. ASSUME NEW i \in DOMAIN actions', Awaits(i)'
       PROVE  /\ i \in 1..n => /\ i \in DOMAIN actions /\ Awaits(i)
                               /\ actions'[i].key = actions[i].key
              /\ i \notin 1..n => /\ i - n \in DOMAIN new /\ actions'[i] = new[i - n]
                                  /\ actions'[i].key \notin scan[s].open_keys
                                  /\ \A t \in Scanners \ {s} : scan[t] = Idle
  <2>1. overlapped \subseteq overlapped'
    BY <1>5
  <2>2. CASE i \in 1..n
    BY <1>9, <1>12, <1>13, <2>1, <2>2 DEF Awaits
  <2>3. CASE i \notin 1..n
    <3>1. i - n \in DOMAIN new /\ actions'[i] = new[i - n]
      BY <1>4, <1>9, <2>3
    <3>2. PICK p \in opened : actions'[i].key = p.key
      BY <1>4, <1>7, <3>1
    <3>3. p.key \notin overlapped'
      BY <1>13, <3>2 DEF Awaits
    <3>4. QED
      BY <1>1, <1>5, <2>3, <3>1, <3>2, <3>3
  <2>4. QED
    BY <2>2, <2>3
<1>14. ASSUME NEW i \in DOMAIN actions', NEW j \in DOMAIN actions', Awaits(i)', Awaits(j)',
              actions'[i].key = actions'[j].key
       PROVE  i = j
  <2>1. \A k \in DOMAIN actions : Awaits(k) => actions[k].key \in scan[s].open_keys
    BY DEF Open, Once
  <2>2. CASE i \in 1..n /\ j \in 1..n
    <3>1. Awaits(i) /\ Awaits(j) /\ actions[i].key = actions[j].key
          /\ i \in DOMAIN actions /\ j \in DOMAIN actions
      BY <1>13, <1>14, <2>2
    <3>2. QED
      BY <3>1 DEF Once
  <2>3. CASE i \in 1..n /\ j \notin 1..n
    BY <1>13, <1>14, <2>1, <2>3
  <2>4. CASE i \notin 1..n /\ j \in 1..n
    BY <1>13, <1>14, <2>1, <2>4
  <2>5. CASE i \notin 1..n /\ j \notin 1..n
    <3>1. /\ i - n \in DOMAIN new /\ actions'[i] = new[i - n]
          /\ j - n \in DOMAIN new /\ actions'[j] = new[j - n]
      BY <1>13, <1>14, <2>5
    <3>2. new[i - n] = new[j - n]
      <4>1. PICK p \in opened : new[i - n] = Proposed(p) /\ new[i - n].key = p.key
        BY <1>4, <1>7, <3>1
      <4>2. PICK q \in opened : new[j - n] = Proposed(q) /\ new[j - n].key = q.key
        BY <1>4, <1>7, <3>1
      <4>3. p = q
        BY <1>1, <1>14, <3>1, <4>1, <4>2
      <4>4. QED
        BY <4>1, <4>2, <4>3
    <3>3. QED
      BY <1>4, <1>9, <3>1, <3>2
  <2>6. QED
    BY <2>2, <2>3, <2>4, <2>5
<1>15. ASSUME NEW t \in Scanners, scan'[t] # Idle
       PROVE  /\ FewProposals(scan'[t].proposals)
              /\ \A i \in DOMAIN actions' : Awaits(i)' => actions'[i].key \in scan'[t].open_keys
  <2>1. t # s /\ scan'[t] = scan[t] /\ scan[t] # Idle
    BY <1>11, <1>15
  <2>2. \A i \in DOMAIN actions' : Awaits(i)' => i \in 1..n
    BY <1>13, <2>1
  <2>3. QED
    BY <1>13, <2>1, <2>2 DEF Once
<1>16. QED
  BY <1>10, <1>11, <1>14, <1>15 DEF Once

LEMMA StepOnce == Once /\ [Next]_vars => Once'
<1> SUFFICES ASSUME Once, [Next]_vars
             PROVE  Once'
  OBVIOUS
<1>1. CASE UNCHANGED <<actions, scan, overlapped>>
  BY <1>1 DEF Once, Listed, Awaits
<1>2. CASE \E r \in sales : Refund(r)
  BY <1>2, RestatedOnce DEF Refund, Scanning
<1>3. CASE \E quote \in Quotes, from \in Days : RecordCost(quote, from)
  BY <1>3, RestatedOnce DEF RecordCost, Scanning
<1>4. CASE \E s \in Scanners : Read(s) \/ Open(s) \/ FailScan(s)
  BY <1>4, ReadOnce, OpenedOnce
<1>5. CASE \E i \in DOMAIN actions : Dismiss(i) \/ Confirm(i) \/ Measure(i)
  BY <1>5, DecidedOnce
<1>6. QED
  BY <1>1, <1>2, <1>3, <1>4, <1>5 DEF Next, vars, Tomorrow, Sell, Refill, Scanning

\* "A scan that runs twice should not double the list in front of anyone": of a
\* key no overlapping scans opened, one action awaits a decision, whatever the
\* shop sells and however often it is scanned, declined and scanned again.
THEOREM NothingIsSaidTwice == Spec => []SaidOnce
<1>1. Once => SaidOnce
  <2> SUFFICES ASSUME Once, NEW key \in Keys \ overlapped
               PROVE  Cardinality(Waiting(key)) <= 1
    BY DEF SaidOnce
  <2>1. \A i, j \in Waiting(key) : i = j
    BY DEF Once, Waiting, Awaits
  <2>2. CASE Waiting(key) = {}
    BY <2>2, FS_EmptySet
  <2>3. CASE Waiting(key) # {}
    <3>1. PICK i : Waiting(key) = {i}
      BY <2>1, <2>3
    <3>2. QED
      BY <3>1, FS_Singleton
  <2>4. QED
    BY <2>2, <2>3
<1>2. QED
  BY <1>1, InitOnce, StepOnce, PTL DEF Spec


---------------------------------------------------------------------------
(* What a restock was priced at.                                           *)

\* A priced action's window is over, and its price is what the window says
\* unless it was told otherwise.
Reproducible(a) ==
    /\ a.status \in {"applied", "measured"} => a.applied \in Days
    /\ a.status = "measured" => Complete(a) /\ (~a.restated => a.impact = Price(a))

\* No sale is on record before it happened: a window that is over gains none.
Reproduced ==
    /\ Once
    /\ History
    /\ today \in Days
    /\ sales \subseteq Sales
    /\ \A r \in sales : r.day <= today
    /\ \A i \in DOMAIN actions : Reproducible(actions[i])

LEMMA InitReproduced == Init => Reproduced
<1> SUFFICES ASSUME Init
             PROVE  Reproduced
  OBVIOUS
<1>1. today \in Days /\ sales = {} /\ DOMAIN actions = {}
  BY CommerceAssumption DEF Init, Days
<1>2. History
  BY DEF Init, History, OnePerKey
<1>3. QED
  BY <1>1, <1>2, InitOnce DEF Reproduced

\* A price depends on the shelf as it was and the days of the window.
LEMMA SameWindowSamePrice ==
    ASSUME NEW a, NEW b, a.on_hand = b.on_hand, a.applied = b.applied,
           (_sold_units(a))' = _sold_units(a)
    PROVE  (Price(b))' = Price(a)
<1>1. (_sold_units(b))' = (_sold_units(a))'
  BY DEF _sold_units, InWindow, Window, OpensOn, ClosesOn
<1>2. QED
  BY <1>1 DEF Price

\* The rows of a window are the same after a step that leaves its days alone.
LEMMA SameRowsSameWindow ==
    ASSUME NEW a, (InWindow(a))' = InWindow(a),
           \A r \in InWindow(a) : InForce(costs', r.variant, r.day) = InForce(costs, r.variant, r.day)
    PROVE  (_sold_units(a))' = _sold_units(a)
<1>1. (_sold_units(a))' =
        {[variant |-> r.variant, day |-> r.day, units |-> r.units, revenue |-> r.revenue,
          currency |-> Currency, cost |-> InForce(costs', r.variant, r.day)] : r \in (InWindow(a))'}
  BY DEF _sold_units, Group
<1>2. _sold_units(a) =
        {[variant |-> r.variant, day |-> r.day, units |-> r.units, revenue |-> r.revenue,
          currency |-> Currency, cost |-> InForce(costs, r.variant, r.day)] : r \in InWindow(a)}
  BY DEF _sold_units, Group
<1>3. QED
  BY <1>1, <1>2


LEMMA StillReproducible ==
    ASSUME NEW a, Reproducible(a), today \in Days, today' \in Days, today <= today',
           a.status = "measured" /\ ~a.restated => (_sold_units(a))' = _sold_units(a)
    PROVE  (Reproducible(a))'
<1>1. a.status \in {"applied", "measured"} => a.applied \in Days
  BY DEF Reproducible
<1>2. ASSUME a.status = "measured"
      PROVE  (Complete(a))' /\ (~a.restated => a.impact = (Price(a))')
  <2>1. Complete(a) /\ (~a.restated => a.impact = Price(a))
    BY <1>2 DEF Reproducible
  <2>2. (Complete(a))'
    BY <1>1, <1>2, <2>1, CommerceAssumption DEF Complete, ClosesOn, OpensOn, Days
  <2>3. ~a.restated => (Price(a))' = Price(a)
    BY <1>2, SameWindowSamePrice
  <2>4. QED
    BY <2>1, <2>2, <2>3
<1>3. QED
  BY <1>1, <1>2 DEF Reproducible, Days

\* What is sold today is in no window that is over.
LEMMA SoldToday ==
    ASSUME Reproduced, NEW order \in Orders, Sell(order)
    PROVE  /\ sales' \subseteq Sales
           /\ \A r \in sales' : r.day <= today
           /\ \A r : r.day # today => (r \in sales' <=> r \in sales)
<1> DEFINE row == {r \in sales : r.variant = order.variant /\ r.day = today}
           sold(r) == [r EXCEPT !.sold = @ + 1, !.units = @ + order.units,
                                !.revenue = @ + order.revenue]
           first == [variant |-> order.variant, day |-> today, sold |-> 1,
                     units |-> order.units, revenue |-> order.revenue]
<1>1. sales' = (sales \ row) \cup (IF row = {} THEN {first} ELSE {sold(r) : r \in row})
  BY DEF Sell
<1>2. /\ order.variant \in Variants /\ order.units \in Nat /\ order.revenue \in Nat
      /\ today \in Days /\ sales \subseteq Sales
  BY CommerceAssumption DEF Reproduced
<1>3. first \in Sales /\ first.day = today
  BY <1>2 DEF Sales
<1>4. \A r \in row : sold(r) \in Sales /\ sold(r).day = today
  <2> TAKE r \in row
  <2>1. r \in Sales /\ r.day = today
    BY <1>2
  <2>2. r.sold + 1 \in Nat /\ r.units + order.units \in Nat /\ r.revenue + order.revenue \in Int
    BY <1>2, <2>1 DEF Sales
  <2> HIDE DEF row
  <2>3. QED
    BY <2>1, <2>2 DEF Sales
<1> HIDE DEF first, sold
<1>5. \A r \in sales' : r \in sales \/ (r \in Sales /\ r.day = today)
  BY <1>1, <1>3, <1>4
<1>6. today <= today
  BY <1>2 DEF Days
<1>7. \A r \in sales : r \in Sales /\ r.day <= today
  BY <1>2 DEF Reproduced
<1>8. \A r \in sales : r.day # today => r \in sales'
  BY <1>1
<1>9. QED
  BY <1>5, <1>6, <1>7, <1>8

LEMMA SellReproduced ==
    ASSUME Reproduced, NEW order \in Orders, Sell(order), Once'
    PROVE  Reproduced'
<1>1. UNCHANGED <<today, costs, actions>>
  BY DEF Sell
<1>2. History'
  BY <1>1 DEF Reproduced, History, OnePerKey, AllRows, Days, Figures
<1>3. ASSUME NEW i \in DOMAIN actions
      PROVE  (Reproducible(actions[i]))'
  <2> PICK a : a = actions[i]
    OBVIOUS
  <2>1. Reproducible(a) /\ today \in Days /\ today' = today
    BY <1>1 DEF Reproduced
  <2>2. ASSUME a.status = "measured"
        PROVE  (_sold_units(a))' = _sold_units(a)
    <3>1. a.applied \in Days /\ Complete(a)
      BY <2>1, <2>2 DEF Reproducible
    <3>2. today \notin Window(a)
      BY <2>1, <3>1, CommerceAssumption DEF Complete, Window, OpensOn, ClosesOn, Days
    <3>3. (InWindow(a))' = InWindow(a)
      <4>1. (Window(a))' = Window(a)
        BY DEF Window, OpensOn, ClosesOn
      <4>2. \A r : r.day \in Window(a) => (r \in sales' <=> r \in sales)
        BY <3>2, SoldToday
      <4>3. QED
        BY <4>1, <4>2 DEF InWindow
    <3>4. QED
      BY <1>1, <3>3, SameRowsSameWindow
  <2>3. (Reproducible(a))'
    BY <2>1, <2>2, StillReproducible DEF Days
  <2>4. a = actions'[i]
    BY <1>1
  <2>5. QED
    BY <2>3, <2>4 DEF Reproducible, Complete, ClosesOn, OpensOn, Price, _sold_units, InWindow, Window
<1>4. QED
  BY <1>1, <1>2, <1>3, SoldToday DEF Reproduced, Days, Sales


\* A step that tells every priced action whose window it may have touched.
LEMMA RestatedReproduced ==
    ASSUME Reproduced, NEW from, NEW to, actions' = Restated(from, to),
           today' = today, Once', History', sales' \subseteq Sales, \A r \in sales' : r.day <= today,
           \A a : a.applied \in Days /\ Complete(a) /\ ~(ClosesOn(a) >= from /\ OpensOn(a) <= to)
                     => (_sold_units(a))' = _sold_units(a)
    PROVE  Reproduced'
<1>1. PICK X : actions \in Seq(ActionRows(X))
  BY DEF Reproduced, Once, Listed
<1>2. DOMAIN actions' = DOMAIN actions
  BY DEF Restated
<1>3. ASSUME NEW i \in DOMAIN actions
      PROVE  (Reproducible(actions[i]))'
  <2> PICK a : a = actions[i]
    OBVIOUS
  <2> PICK b : b = actions'[i]
    OBVIOUS
  <2>1. Reproducible(a) /\ today \in Days
    BY DEF Reproduced
  <2>2. a \in ActionRows(X)
    BY <1>1
  <2> DEFINE touched == a.status = "measured" /\ ClosesOn(a) >= from /\ OpensOn(a) <= to
  <2>3. b = IF touched THEN [a EXCEPT !.restated = TRUE] ELSE a
    BY DEF Restated
  <2>4. CASE touched
    <3>1. b.status = "measured" /\ b.applied = a.applied /\ b.restated = TRUE
      BY <2>2, <2>3, <2>4 DEF ActionRows
    <3>2. a.applied \in Days /\ Complete(a)
      BY <2>1, <2>4 DEF Reproducible
    <3>3. b.applied \in Days' /\ (Complete(b))'
      BY <3>1, <3>2 DEF Days, Complete, ClosesOn, OpensOn
    <3>4. (Reproducible(b))'
      BY <3>1, <3>3 DEF Reproducible
    <3>5. QED
      BY <3>4 DEF Reproducible, Complete, ClosesOn, OpensOn, Price, _sold_units, InWindow, Window
  <2>5. CASE ~touched
    <3>1. b = a
      BY <2>3, <2>5
    <3>2. ASSUME a.status = "measured"
          PROVE  (_sold_units(a))' = _sold_units(a)
      <4>1. a.applied \in Days /\ Complete(a)
        BY <2>1, <3>2 DEF Reproducible
      <4>2. ~(ClosesOn(a) >= from /\ OpensOn(a) <= to)
        BY <2>5, <3>2
      <4> HIDE DEF touched
      <4>3. QED
        BY <4>1, <4>2
    <3>3. (Reproducible(b))'
      BY <2>1, <3>1, <3>2, StillReproducible DEF Days
    <3>4. QED
      BY <3>3 DEF Reproducible, Complete, ClosesOn, OpensOn, Price, _sold_units, InWindow, Window
  <2>6. QED
    BY <2>4, <2>5
<1>4. QED
  BY <1>2, <1>3 DEF Reproduced, Days, Sales

LEMMA RefundReproduced ==
    ASSUME Reproduced, NEW r \in sales, Refund(r), Once'
    PROVE  Reproduced'
<1> DEFINE money == r.revenue \div r.units
           kept == [r EXCEPT !.units = @ - 1, !.revenue = @ - money]
<1>1. r \in Sales /\ r.day <= today /\ sales \subseteq Sales /\ today \in Days
  BY DEF Reproduced
<1>2. UNCHANGED <<today, costs>> /\ actions' = Restated(r.day, r.day) /\ r.units > 0
      /\ sales' = (sales \ {r}) \cup {kept}
  BY DEF Refund
<1>3. kept \in Sales /\ kept.day = r.day
  <2>1. r.revenue \in Int /\ r.units \in Nat \ {0}
    BY <1>1, <1>2 DEF Sales
  <2>2. r.units - 1 \in Nat /\ r.revenue - money \in Int
    BY <2>1, Division
  <2> HIDE DEF money
  <2>3. QED
    BY <1>1, <2>2 DEF Sales
<1> HIDE DEF kept
<1>4. History'
  BY <1>2 DEF Reproduced, History, OnePerKey, AllRows, Days, Figures
<1>5. sales' \subseteq Sales /\ \A q \in sales' : q.day <= today
  BY <1>1, <1>2, <1>3 DEF Reproduced
<1>6. ASSUME NEW a, a.applied \in Days, ~(ClosesOn(a) >= r.day /\ OpensOn(a) <= r.day)
      PROVE  (_sold_units(a))' = _sold_units(a)
  <2>1. r.day \notin Window(a)
    BY <1>1, <1>6, CommerceAssumption DEF Window, ClosesOn, OpensOn, Days, Sales
  <2>2. (Window(a))' = Window(a)
    BY DEF Window, OpensOn, ClosesOn
  <2>3. \A q : q.day \in Window(a) => (q \in sales' <=> q \in sales)
    BY <1>2, <1>3, <2>1
  <2>4. (InWindow(a))' = InWindow(a)
    BY <2>2, <2>3 DEF InWindow
  <2>5. QED
    BY <1>2, <2>4, SameRowsSameWindow
<1>7. QED
  BY <1>2, <1>4, <1>5, <1>6, RestatedReproduced

LEMMA RecordCostReproduced ==
    ASSUME Reproduced, NEW quote \in Quotes, NEW from \in Days, RecordCost(quote, from), Once'
    PROVE  Reproduced'
<1> DEFINE new == [variant |-> quote.variant, from |-> from, source |-> quote.source,
                   figure |-> quote.figure]
<1>1. UNCHANGED <<today, sales>> /\ actions' = Restated(from, LastDay) /\ costs' = Record(costs, new)
  BY DEF RecordCost, Shelf
<1>2. History /\ costs \in SUBSET AllRows /\ today \in Days /\ sales \subseteq Sales
  BY DEF Reproduced, History
<1>3. History'
  BY <1>2, RecordCostIsSound
<1>4. new \in AllRows /\ new.from = from
  BY QuotesAreRows
<1> HIDE DEF new
<1>5. ASSUME NEW a, a.applied \in Days, Complete(a), ~(ClosesOn(a) >= from /\ OpensOn(a) <= LastDay)
      PROVE  (_sold_units(a))' = _sold_units(a)
  <2>1. (InWindow(a))' = InWindow(a)
    BY <1>1 DEF InWindow, Window, OpensOn, ClosesOn
  <2>2. \A d \in Window(a) : d < from
    BY <1>2, <1>5, CommerceAssumption DEF Complete, Window, ClosesOn, OpensOn, Days
  <2>3. ASSUME NEW r \in InWindow(a)
        PROVE  InForce(costs', r.variant, r.day) = InForce(costs, r.variant, r.day)
    <3>1. r.day \in Days /\ r.day < from
      BY <1>2, <2>2 DEF InWindow, Sales
    <3>2. QED
      BY <1>1, <1>2, <1>4, <3>1, RecordKeepsEarlierDays
  <2>4. QED
    BY <2>1, <2>3, SameRowsSameWindow
<1>6. \A r \in sales' : r.day <= today
  BY <1>1 DEF Reproduced
<1>7. QED
  BY <1>1, <1>2, <1>3, <1>5, <1>6, RestatedReproduced


\* A step that leaves the sales, the costs and every decided action alone.
LEMMA CalmReproduced ==
    ASSUME Reproduced, Once', UNCHANGED <<sales, costs>>, today' \in Days, today <= today',
           \A i \in DOMAIN actions' : \/ i \in DOMAIN actions /\ actions'[i] = actions[i]
                                      \/ actions'[i].status \notin {"applied", "measured"}
    PROVE  Reproduced'
<1>1. today \in Days /\ sales \subseteq Sales /\ History /\ \A r \in sales : r.day <= today
  BY DEF Reproduced
<1>2. History'
  BY <1>1 DEF History, OnePerKey, AllRows, Days, Figures
<1>3. \A r \in sales' : r.day <= today'
  BY <1>1 DEF Sales, Days
<1>4. ASSUME NEW i \in DOMAIN actions'
      PROVE  (Reproducible(actions'[i]))
  <2> PICK b : b = actions'[i]
    OBVIOUS
  <2>1. (_sold_units(b))' = _sold_units(b)
    BY DEF _sold_units, Group, InWindow, Window, OpensOn, ClosesOn
  <2>2. Reproducible(b)
    BY DEF Reproduced, Reproducible
  <2>3. QED
    BY <2>2
<1>5. ASSUME NEW i \in DOMAIN actions'
      PROVE  (Reproducible(actions[i]))'
  <2> PICK b : b = actions'[i]
    OBVIOUS
  <2>1. (_sold_units(b))' = _sold_units(b)
    BY DEF _sold_units, Group, InWindow, Window, OpensOn, ClosesOn
  <2>2. Reproducible(b)
    BY <1>4
  <2>3. (Reproducible(b))'
    BY <1>1, <2>1, <2>2, StillReproducible DEF Days
  <2>4. QED
    BY <2>3 DEF Reproducible, Complete, ClosesOn, OpensOn, Price, _sold_units, InWindow, Window
<1>6. QED
  BY <1>1, <1>2, <1>3, <1>5 DEF Reproduced, Days, Sales

LEMMA DecidedReproduced ==
    ASSUME Reproduced, NEW i \in DOMAIN actions, Dismiss(i) \/ Confirm(i) \/ Measure(i), Once'
    PROVE  Reproduced'
<1>1. PICK X : actions \in Seq(ActionRows(X))
  BY DEF Reproduced, Once, Listed
<1> PICK a : a = actions[i]
  OBVIOUS
<1> PICK price : price = Price(a)
  OBVIOUS
<1>2. /\ UNCHANGED <<today, sales, costs>>
      /\ a \in ActionRows(X) /\ Reproducible(a) /\ today \in Days
  BY <1>1 DEF Dismiss, Confirm, Measure, Shelf, Reproduced
<1>3. PICK b : /\ actions' = [actions EXCEPT ![i] = b]
               /\ \/ b = [a EXCEPT !.status = "dismissed"]
                  \/ b = [a EXCEPT !.status = "applied", !.applied = today]
                  \/ /\ b = [a EXCEPT !.status = "measured", !.impact = price]
                     /\ a.status = "applied" /\ Complete(a)
  BY DEF Dismiss, Confirm, Measure
<1>4. DOMAIN actions' = DOMAIN actions
      /\ \A j \in DOMAIN actions : actions'[j] = IF j = i THEN b ELSE actions[j]
  BY <1>1, <1>3
<1>5. (_sold_units(a))' = _sold_units(a)
  BY <1>2 DEF _sold_units, Group, InWindow, Window, OpensOn, ClosesOn
<1>6. (Reproducible(b))'
  <2>1. CASE b = [a EXCEPT !.status = "dismissed"]
    BY <1>2, <2>1 DEF Reproducible, ActionRows
  <2>2. CASE b = [a EXCEPT !.status = "applied", !.applied = today]
    BY <1>2, <2>2 DEF Reproducible, ActionRows, Days
  <2>3. CASE /\ b = [a EXCEPT !.status = "measured", !.impact = price]
             /\ a.status = "applied" /\ Complete(a)
    <3>1. b.status = "measured" /\ b.impact = price /\ b.applied = a.applied /\ b.on_hand = a.on_hand
      BY <1>2, <2>3 DEF ActionRows
    <3>2. a.applied \in Days
      BY <1>2, <2>3 DEF Reproducible
    <3>3. (Price(b))' = price
      BY <1>5, <3>1, SameWindowSamePrice
    <3>4. (Complete(b))'
      BY <1>2, <2>3, <3>1 DEF Complete, ClosesOn, OpensOn
    <3>5. QED
      BY <3>1, <3>2, <3>3, <3>4 DEF Reproducible, Days
  <2>4. QED
    BY <1>3, <2>1, <2>2, <2>3
<1>7. ASSUME NEW j \in DOMAIN actions, j # i
      PROVE  (Reproducible(actions[j]))'
  <2> PICK c : c = actions'[j]
    OBVIOUS
  <2>1. Reproducible(c)
    BY <1>4, <1>7 DEF Reproduced
  <2>2. (_sold_units(c))' = _sold_units(c)
    BY <1>2 DEF _sold_units, Group, InWindow, Window, OpensOn, ClosesOn
  <2>3. (Reproducible(c))'
    BY <1>2, <2>1, <2>2, StillReproducible DEF Days
  <2>4. QED
    BY <2>3 DEF Reproducible, Complete, ClosesOn, OpensOn, Price, _sold_units, InWindow, Window
<1>8. (Reproducible(actions[i]))'
  <2>1. b = actions'[i]
    BY <1>4
  <2>2. QED
    BY <1>6, <2>1 DEF Reproducible, Complete, ClosesOn, OpensOn, Price, _sold_units, InWindow, Window
<1>9. History'
  BY <1>2 DEF Reproduced, History, OnePerKey, AllRows, Days, Figures
<1>10. QED
  BY <1>2, <1>4, <1>7, <1>8, <1>9 DEF Reproduced, Days, Sales

\* What a scan opens awaits a decision; what was there stays as it was.
LEMMA OpenedReproduced ==
    ASSUME Reproduced, NEW s \in Scanners, Open(s), Once'
    PROVE  Reproduced'
<1> DEFINE opened == {p \in scan[s].proposals : p.key \notin scan[s].open_keys}
           rows == {Proposed(p) : p \in opened}
<1>1. IsFiniteSet(opened)
  <2>1. FewProposals(scan[s].proposals)
    BY DEF Open, Reproduced, Once
  <2>2. QED
    BY <2>1, FewAreKeyed, FS_Subset
<1>2. IsFiniteSet(rows)
  <2> DEFINE f == [p \in opened |-> Proposed(p)]
  <2>1. f \in Surjection(opened, rows)
    BY DEF Surjection
  <2> HIDE DEF f, opened, rows
  <2>2. QED
    BY <1>1, <2>1, FS_Surjection
<1>3. \A a \in rows : a.status = "proposed"
  BY DEF Proposed
<1> PICK new : new = SetToSeq(rows)
  OBVIOUS
<1>4. actions' = actions \o new /\ UNCHANGED <<today, sales, costs>>
  BY DEF Open, Shelf
<1> HIDE DEF rows
<1>5. new \in Seq(rows)
  BY <1>2, InSomeOrder
<1>6. PICK X : actions \in Seq(ActionRows(X))
  BY DEF Reproduced, Once, Listed
<1>7. ASSUME NEW i \in DOMAIN actions'
      PROVE  \/ i \in DOMAIN actions /\ actions'[i] = actions[i]
             \/ actions'[i].status \notin {"applied", "measured"}
  <2>1. CASE i \in 1..Len(actions)
    BY <1>4, <1>5, <1>6, <2>1
  <2>2. CASE i \notin 1..Len(actions)
    <3>1. i - Len(actions) \in 1..Len(new) /\ actions'[i] = new[i - Len(actions)]
      BY <1>4, <1>5, <1>6, <2>2
    <3>2. actions'[i] \in rows
      BY <1>5, <3>1
    <3>3. QED
      BY <1>3, <3>2
  <2>3. QED
    BY <2>1, <2>2
<1>8. today \in Days /\ today' \in Days /\ today <= today'
  BY <1>4 DEF Reproduced, Days
<1>9. QED
  BY <1>4, <1>7, <1>8, CalmReproduced

LEMMA StepReproduced == Reproduced /\ [Next]_vars => Reproduced'
<1> SUFFICES ASSUME Reproduced, [Next]_vars
             PROVE  Reproduced'
  OBVIOUS
<1>1. Once'
  BY StepOnce DEF Reproduced
<1>2. CASE UNCHANGED <<sales, costs, actions>> /\ today' \in {today, today + 1} /\ today' <= LastDay
  BY <1>1, <1>2, CommerceAssumption, CalmReproduced DEF Reproduced, Days
<1>3. CASE \E order \in Orders : Sell(order)
  BY <1>1, <1>3, SellReproduced
<1>4. CASE \E r \in sales : Refund(r)
  BY <1>1, <1>4, RefundReproduced
<1>5. CASE \E quote \in Quotes, from \in Days : RecordCost(quote, from)
  BY <1>1, <1>5, RecordCostReproduced
<1>6. CASE \E s \in Scanners : Open(s)
  BY <1>1, <1>6, OpenedReproduced
<1>7. CASE \E i \in DOMAIN actions : Dismiss(i) \/ Confirm(i) \/ Measure(i)
  BY <1>1, <1>7, DecidedReproduced
<1>8. today <= LastDay /\ today \in Nat
  BY CommerceAssumption DEF Reproduced, Days
<1>9. CASE Tomorrow \/ Refill \/ (\E s \in Scanners : Read(s) \/ FailScan(s)) \/ UNCHANGED vars
  BY <1>2, <1>8, <1>9, CommerceAssumption DEF Tomorrow, Refill, Read, FailScan, Shelf, vars
<1>10. QED
  BY <1>3, <1>4, <1>5, <1>6, <1>7, <1>9 DEF Next

\* "Overwriting last month's figure with this month's would quietly restate
\* every result that had already been priced": for every shop, window and
\* history of costs, a recorded result is what its days still say, unless a
\* cost from before the window closed, or a return of a unit sold in it, came
\* after it and it was told.
THEOREM ResultsCanBeRecomputed == Spec => []PricesAreReproducible
<1>1. Reproduced => PricesAreReproducible
  <2> SUFFICES ASSUME Reproduced, NEW a \in Range(actions), a.status = "measured", ~a.restated
               PROVE  a.impact = Price(a)
    BY DEF PricesAreReproducible
  <2>1. PICK i \in DOMAIN actions : a = actions[i]
    BY DEF Range
  <2>2. Reproducible(a)
    BY <2>1 DEF Reproduced
  <2>3. QED
    BY <2>2 DEF Reproducible
<1>2. QED
  BY <1>1, InitReproduced, StepReproduced, PTL DEF Spec

---------------------------------------------------------------------------
(* Sums over a finite set.                                                 *)

\* The element a sum takes first.
Chosen(T) == CHOOSE x \in T : TRUE

\* h adds f up over every part of S, one chosen element after the other.
Adds(f, S, h) ==
    h = [T \in SUBSET S |-> IF T = {} THEN 0 ELSE f[Chosen(T)] + h[T \ {Chosen(T)}]]

\* Among parts of a finite set that do not have some property there is one all
\* of whose own parts have it.
LEMMA SmallestPart ==
    ASSUME NEW S, IsFiniteSet(S), NEW Bad \in SUBSET SUBSET S, Bad # {}
    PROVE  \E T \in Bad : IsFiniteSet(T) /\ \A U \in SUBSET T : U # T => U \notin Bad
<1>1. IsWellFoundedOn(StrictSubsetOrdering(S), SUBSET S)
  BY FS_StrictSubsetOrderingWellFounded, FS_FiniteSubsetsOfFinite
<1>2. PICK T \in Bad : \A U \in Bad : ~(<<U, T>> \in StrictSubsetOrdering(S))
  BY <1>1, WFMin
<1>3. \A U \in SUBSET T : U # T => U \notin Bad
  BY <1>2 DEF StrictSubsetOrdering
<1>4. IsFiniteSet(T)
  BY FS_Subset
<1>5. QED
  BY <1>3, <1>4

\* Induction over a finite set, element by element.
LEMMA OneByOne ==
    ASSUME NEW S, IsFiniteSet(S), NEW Good \in SUBSET SUBSET S, {} \in Good,
           \A T \in Good : \A x \in S \ T : T \cup {x} \in Good
    PROVE  S \in Good
<1> SUFFICES ASSUME S \notin Good PROVE FALSE
  OBVIOUS
<1> DEFINE Bad == (SUBSET S) \ Good
<1>1. PICK T \in Bad : \A U \in SUBSET T : U # T => U \notin Bad
  <2>1. Bad \in SUBSET SUBSET S /\ Bad # {}
    OBVIOUS
  <2> HIDE DEF Bad
  <2>2. QED
    BY <2>1, SmallestPart
<1>2. PICK x \in T : TRUE
  BY <1>1
<1>3. T \ {x} \in Good
  BY <1>1, <1>2
<1>4. (T \ {x}) \cup {x} \in Good
  BY <1>2, <1>3
<1>5. (T \ {x}) \cup {x} = T
  BY <1>2
<1>6. QED
  BY <1>1, <1>4, <1>5

LEMMA ChosenIsIn ==
    ASSUME NEW T, T # {}
    PROVE  Chosen(T) \in T
BY DEF Chosen

LEMMA AddsStep ==
    ASSUME NEW f, NEW S, NEW h, Adds(f, S, h), NEW T \in SUBSET S
    PROVE  h[T] = IF T = {} THEN 0 ELSE f[Chosen(T)] + h[T \ {Chosen(T)}]
BY DEF Adds

LEMMA AddsNone ==
    ASSUME NEW f, NEW S, NEW h, Adds(f, S, h)
    PROVE  h[{}] = 0
<1>1. {} \in SUBSET S
  OBVIOUS
<1>2. QED
  BY <1>1, AddsStep

\* What a part of two sets adds up to does not depend on the set.
LEMMA AddsAgree ==
    ASSUME NEW f, NEW S, NEW R, NEW h, NEW k, Adds(f, S, h), Adds(f, R, k),
           NEW T, IsFiniteSet(T), T \subseteq S, T \subseteq R
    PROVE  h[T] = k[T]
<1> SUFFICES ASSUME h[T] # k[T] PROVE FALSE
  OBVIOUS
<1> DEFINE Bad == {U \in SUBSET T : h[U] # k[U]}
<1>1. PICK U \in Bad : \A V \in SUBSET U : V # U => V \notin Bad
  <2>1. Bad \in SUBSET SUBSET T /\ Bad # {}
    OBVIOUS
  <2> HIDE DEF Bad
  <2>2. QED
    BY <2>1, SmallestPart
<1>2. U \in SUBSET S /\ U \in SUBSET R
  OBVIOUS
<1>3. U # {}
  <2>1. h[{}] = 0 /\ k[{}] = 0
    BY AddsNone
  <2>2. h[U] # k[U]
    BY <1>1
  <2>3. QED
    BY <2>1, <2>2
<1> DEFINE V == U \ {Chosen(U)}
<1>4. h[V] = k[V]
  BY <1>1, <1>3, ChosenIsIn
<1>5. h[U] = f[Chosen(U)] + h[V] /\ k[U] = f[Chosen(U)] + k[V]
  BY <1>2, <1>3, AddsStep
<1>6. QED
  BY <1>1, <1>4, <1>5

\* Every finite set is added up by something.
LEMMA SomethingAdds ==
    ASSUME NEW f, NEW S, IsFiniteSet(S)
    PROVE  \E h : Adds(f, S, h)
<1> SUFFICES ASSUME ~\E h : Adds(f, S, h) PROVE FALSE
  OBVIOUS
<1> DEFINE Bad == {T \in SUBSET S : ~\E h : Adds(f, T, h)}
<1>1. PICK T \in Bad : IsFiniteSet(T) /\ \A U \in SUBSET T : U # T => U \notin Bad
  <2>1. Bad \in SUBSET SUBSET S /\ Bad # {}
    OBVIOUS
  <2> HIDE DEF Bad
  <2>2. QED
    BY <2>1, SmallestPart
<1> DEFINE best(U) == CHOOSE h : Adds(f, U, h)
           value(U) == best(U)[U]
           rest(U) == U \ {Chosen(U)}
           whole == IF T = {} THEN 0 ELSE f[Chosen(T)] + value(rest(T))
           h == [U \in SUBSET T |-> IF U = T THEN whole ELSE value(U)]
<1>2. \A U \in SUBSET T : U # T => Adds(f, U, best(U))
  BY <1>1
<1>3. \A U \in SUBSET T : U # {} => rest(U) \in SUBSET T /\ rest(U) # T /\ IsFiniteSet(rest(U))
  BY <1>1, ChosenIsIn, FS_Subset
<1>4. \A U \in SUBSET T : U # T /\ U # {} => value(U) = f[Chosen(U)] + value(rest(U))
  <2> SUFFICES ASSUME NEW U \in SUBSET T, U # T, U # {}
               PROVE  value(U) = f[Chosen(U)] + value(rest(U))
    OBVIOUS
  <2>1. Adds(f, U, best(U)) /\ Adds(f, rest(U), best(rest(U)))
    BY <1>2, <1>3
  <2>2. rest(U) \subseteq U /\ IsFiniteSet(rest(U))
    BY <1>3
  <2> HIDE DEF best, rest
  <2>3. best(U)[rest(U)] = best(rest(U))[rest(U)]
    BY <2>1, <2>2, AddsAgree
  <2>4. best(U)[U] = f[Chosen(U)] + best(U)[rest(U)]
    BY <2>1, AddsStep DEF rest
  <2>5. QED
    BY <2>3, <2>4
<1>5. {} \in SUBSET T /\ ({} # T => value({}) = 0)
  BY <1>2, AddsNone
<1>6. \A U \in SUBSET T :
          h[U] = IF U = {} THEN 0 ELSE f[Chosen(U)] + h[rest(U)]
  <2> HIDE DEF best, value, rest
  <2>1. QED
    BY <1>3, <1>4, <1>5
<1>7. Adds(f, T, h)
  <2> HIDE DEF best, value, whole
  <2>1. h = [U \in SUBSET T |-> h[U]]
    OBVIOUS
  <2> HIDE DEF h
  <2>2. QED
    BY <1>6, <2>1 DEF Adds
<1>8. QED
  BY <1>7

\* A sum takes one element after the other.
LEMMA SumInTurn ==
    ASSUME NEW f, NEW S, IsFiniteSet(S)
    PROVE  /\ S = {} => SumFunctionOnSet(f, S) = 0
           /\ S # {} => /\ Chosen(S) \in S
                        /\ SumFunctionOnSet(f, S)
                             = f[Chosen(S)] + SumFunctionOnSet(f, S \ {Chosen(S)})
<1> DEFINE best(U) == CHOOSE h : Adds(f, U, h)
           rest == S \ {Chosen(S)}
<1>1. \A U : SumFunctionOnSet(f, U) = best(U)[U]
  BY DEF SumFunctionOnSet, FoldFunctionOnSet, MapThenFoldSet, Adds, Chosen
<1>2. IsFiniteSet(rest) /\ rest \subseteq S
  BY FS_Subset
<1>3. Adds(f, S, best(S)) /\ Adds(f, rest, best(rest))
  BY <1>2, SomethingAdds
<1> HIDE DEF best, rest
<1>4. best(S)[rest] = best(rest)[rest]
  BY <1>2, <1>3, AddsAgree
<1>5. best(S)[S] = IF S = {} THEN 0 ELSE f[Chosen(S)] + best(S)[rest]
  <2>1. S \in SUBSET S
    OBVIOUS
  <2>2. QED
    BY <1>3, <2>1, AddsStep DEF rest
<1>6. QED
  BY <1>1, <1>4, <1>5, ChosenIsIn DEF rest

LEMMA SumOfNone ==
    ASSUME NEW f
    PROVE  SumFunctionOnSet(f, {}) = 0
BY SumInTurn, FS_EmptySet

\* Sums of integers are integers.
LEMMA SumIsInt ==
    ASSUME NEW f, NEW S, IsFiniteSet(S), \A x \in S : f[x] \in Int
    PROVE  SumFunctionOnSet(f, S) \in Int
<1> SUFFICES ASSUME SumFunctionOnSet(f, S) \notin Int PROVE FALSE
  OBVIOUS
<1> DEFINE Bad == {T \in SUBSET S : SumFunctionOnSet(f, T) \notin Int}
<1>1. PICK T \in Bad : IsFiniteSet(T) /\ \A U \in SUBSET T : U # T => U \notin Bad
  <2>1. Bad \in SUBSET SUBSET S /\ Bad # {}
    OBVIOUS
  <2> HIDE DEF Bad
  <2>2. QED
    BY <2>1, SmallestPart
<1> DEFINE rest == T \ {Chosen(T)}
<1>2. T # {}
  <2>1. SumFunctionOnSet(f, T) \notin Int /\ SumFunctionOnSet(f, {}) = 0
    BY <1>1, SumOfNone
  <2>2. QED
    BY <2>1
<1>3. Chosen(T) \in T /\ SumFunctionOnSet(f, T) = f[Chosen(T)] + SumFunctionOnSet(f, rest)
  BY <1>1, <1>2, SumInTurn
<1>4. SumFunctionOnSet(f, rest) \in Int
  BY <1>1, <1>3
<1>5. QED
  BY <1>1, <1>3, <1>4

\* ... and take any element first.
LEMMA SumTakes ==
    ASSUME NEW f, NEW S, IsFiniteSet(S), \A x \in S : f[x] \in Int, NEW x \in S
    PROVE  /\ SumFunctionOnSet(f, S \ {x}) \in Int
           /\ SumFunctionOnSet(f, S) = f[x] + SumFunctionOnSet(f, S \ {x})
<1> DEFINE sum(T) == SumFunctionOnSet(f, T)
           Bad == {T \in SUBSET S : \E y \in T : sum(T) # f[y] + sum(T \ {y})}
<1>1. \A T \in SUBSET S : IsFiniteSet(T) /\ sum(T) \in Int
  BY SumIsInt, FS_Subset
<1>2. \A T \in SUBSET S : T # {} => /\ Chosen(T) \in T
                                    /\ sum(T) = f[Chosen(T)] + sum(T \ {Chosen(T)})
  BY <1>1, SumInTurn
<1> HIDE DEF sum
<1>3. ASSUME Bad # {} PROVE FALSE
  <2>1. PICK T \in Bad : \A U \in SUBSET T : U # T => U \notin Bad
    <3>1. Bad \in SUBSET SUBSET S
      OBVIOUS
    <3> HIDE DEF Bad
    <3>2. QED
      BY <3>1, <1>3, SmallestPart
  <2>2. PICK y \in T : sum(T) # f[y] + sum(T \ {y})
    BY <2>1
  <2> DEFINE c == Chosen(T)
             both == T \ {c, y}
  <2>3. c \in T /\ sum(T) = f[c] + sum(T \ {c}) /\ c # y
    BY <1>2, <2>1, <2>2
  <2> HIDE DEF c
  <2>4. sum(T \ {c}) = f[y] + sum(both)
    <3>1. (T \ {c}) \ {y} = both
      OBVIOUS
    <3>2. y \in T \ {c} /\ T \ {c} \notin Bad /\ T \ {c} \in SUBSET S
      BY <2>1, <2>2, <2>3
    <3>3. QED
      BY <3>1, <3>2
  <2>5. sum(T \ {y}) = f[c] + sum(both)
    <3>1. (T \ {y}) \ {c} = both
      OBVIOUS
    <3>2. c \in T \ {y} /\ T \ {y} \notin Bad /\ T \ {y} \in SUBSET S
      BY <2>1, <2>2, <2>3
    <3>3. QED
      BY <3>1, <3>2
  <2>6. f[c] \in Int /\ f[y] \in Int /\ sum(both) \in Int
    BY <1>1, <2>1, <2>3
  <2>7. QED
    BY <2>2, <2>3, <2>4, <2>5, <2>6
<1>4. sum(S) = f[x] + sum(S \ {x}) /\ sum(S \ {x}) \in Int
  BY <1>1, <1>3
<1>5. QED
  BY <1>4 DEF sum

LEMMA SumGrows ==
    ASSUME NEW f, NEW T, NEW x, IsFiniteSet(T), x \notin T, \A y \in T \cup {x} : f[y] \in Int
    PROVE  /\ SumFunctionOnSet(f, T) \in Int
           /\ SumFunctionOnSet(f, T \cup {x}) = f[x] + SumFunctionOnSet(f, T)
<1>1. IsFiniteSet(T \cup {x})
  BY FS_AddElement
<1>2. (T \cup {x}) \ {x} = T
  OBVIOUS
<1>3. QED
  BY <1>1, <1>2, SumTakes

\* A sum of larger numbers is larger.
LEMMA SumKeepsOrder ==
    ASSUME NEW S, IsFiniteSet(S), NEW f, NEW g, \A x \in S : f[x] \in Int /\ g[x] \in Int /\ f[x] <= g[x]
    PROVE  SumFunctionOnSet(f, S) <= SumFunctionOnSet(g, S)
<1> DEFINE Good == {T \in SUBSET S : SumFunctionOnSet(f, T) <= SumFunctionOnSet(g, T)}
<1>1. {} \in Good
  BY SumOfNone
<1>2. ASSUME NEW T \in Good, NEW x \in S \ T
      PROVE  T \cup {x} \in Good
  <2>1. IsFiniteSet(T) /\ \A y \in T \cup {x} : f[y] \in Int /\ g[y] \in Int
    BY FS_Subset
  <2>2. /\ SumFunctionOnSet(f, T) \in Int
        /\ SumFunctionOnSet(f, T \cup {x}) = f[x] + SumFunctionOnSet(f, T)
        /\ SumFunctionOnSet(g, T) \in Int
        /\ SumFunctionOnSet(g, T \cup {x}) = g[x] + SumFunctionOnSet(g, T)
    BY <2>1, SumGrows
  <2>3. QED
    BY <2>1, <2>2
<1> HIDE DEF Good
<1>3. S \in Good
  <2>1. Good \in SUBSET SUBSET S
    BY DEF Good
  <2>2. QED
    BY <1>1, <1>2, <2>1, OneByOne
<1>4. QED
  BY <1>3 DEF Good

LEMMA SumOfSame ==
    ASSUME NEW S, IsFiniteSet(S), NEW f, NEW g, \A x \in S : f[x] \in Int /\ f[x] = g[x]
    PROVE  SumFunctionOnSet(f, S) = SumFunctionOnSet(g, S)
<1>1. SumFunctionOnSet(f, S) \in Int /\ SumFunctionOnSet(g, S) \in Int
  BY SumIsInt
<1>2. SumFunctionOnSet(f, S) <= SumFunctionOnSet(g, S)
  BY SumKeepsOrder
<1>3. SumFunctionOnSet(g, S) <= SumFunctionOnSet(f, S)
  BY SumKeepsOrder
<1>4. QED
  BY <1>1, <1>2, <1>3

LEMMA SumOfPlus ==
    ASSUME NEW S, IsFiniteSet(S), NEW f, NEW g, NEW h,
           \A x \in S : f[x] \in Int /\ g[x] \in Int /\ h[x] = f[x] + g[x]
    PROVE  SumFunctionOnSet(h, S) = SumFunctionOnSet(f, S) + SumFunctionOnSet(g, S)
<1> DEFINE Good == {T \in SUBSET S :
               SumFunctionOnSet(h, T) = SumFunctionOnSet(f, T) + SumFunctionOnSet(g, T)}
<1>1. {} \in Good
  BY SumOfNone
<1>2. ASSUME NEW T \in Good, NEW x \in S \ T
      PROVE  T \cup {x} \in Good
  <2>1. IsFiniteSet(T) /\ \A y \in T \cup {x} : f[y] \in Int /\ g[y] \in Int /\ h[y] \in Int
    BY FS_Subset
  <2>2. /\ SumFunctionOnSet(f, T) \in Int
        /\ SumFunctionOnSet(f, T \cup {x}) = f[x] + SumFunctionOnSet(f, T)
        /\ SumFunctionOnSet(g, T) \in Int
        /\ SumFunctionOnSet(g, T \cup {x}) = g[x] + SumFunctionOnSet(g, T)
        /\ SumFunctionOnSet(h, T) \in Int
        /\ SumFunctionOnSet(h, T \cup {x}) = h[x] + SumFunctionOnSet(h, T)
    BY <2>1, SumGrows
  <2>3. QED
    BY <2>1, <2>2
<1> HIDE DEF Good
<1>3. S \in Good
  <2>1. Good \in SUBSET SUBSET S
    BY DEF Good
  <2>2. QED
    BY <1>1, <1>2, <2>1, OneByOne
<1>4. QED
  BY <1>3 DEF Good

\* A number times a sum.
LEMMA Distributes ==
    ASSUME NEW k \in Int, NEW a \in Int, NEW b \in Int
    PROVE  k * (a + b) = k * a + k * b /\ k * a \in Int /\ k * b \in Int
BY SMT

LEMMA SumOfTimes ==
    ASSUME NEW S, IsFiniteSet(S), NEW f, NEW h, NEW k \in Int,
           \A x \in S : f[x] \in Int /\ h[x] = k * f[x]
    PROVE  SumFunctionOnSet(h, S) = k * SumFunctionOnSet(f, S)
<1> DEFINE Good == {T \in SUBSET S :
               SumFunctionOnSet(h, T) = k * SumFunctionOnSet(f, T)}
<1>1. {} \in Good
  BY SumOfNone
<1>2. ASSUME NEW T \in Good, NEW x \in S \ T
      PROVE  T \cup {x} \in Good
  <2>1. IsFiniteSet(T) /\ \A y \in T \cup {x} : f[y] \in Int
    BY FS_Subset
  <2>2. /\ SumFunctionOnSet(f, T) \in Int
        /\ SumFunctionOnSet(f, T \cup {x}) = f[x] + SumFunctionOnSet(f, T)
    BY <2>1, SumGrows
  <2>3. \A y \in T \cup {x} : h[y] \in Int
    BY <2>1, Distributes
  <2>4. SumFunctionOnSet(h, T \cup {x}) = h[x] + SumFunctionOnSet(h, T)
    BY <2>1, <2>3, SumGrows
  <2>5. k * (f[x] + SumFunctionOnSet(f, T)) = k * f[x] + k * SumFunctionOnSet(f, T)
    BY <2>1, <2>2, Distributes
  <2>6. QED
    BY <2>1, <2>2, <2>4, <2>5
<1> HIDE DEF Good
<1>3. S \in Good
  <2>1. Good \in SUBSET SUBSET S
    BY DEF Good
  <2>2. QED
    BY <1>1, <1>2, <2>1, OneByOne
<1>4. QED
  BY <1>3 DEF Good

\* A set and what is left of it.
LEMMA SumInTwo ==
    ASSUME NEW S, IsFiniteSet(S), NEW f, \A x \in S : f[x] \in Int, NEW R \in SUBSET S
    PROVE  /\ SumFunctionOnSet(f, R) \in Int /\ SumFunctionOnSet(f, S \ R) \in Int
           /\ SumFunctionOnSet(f, S) = SumFunctionOnSet(f, R) + SumFunctionOnSet(f, S \ R)
<1> DEFINE Good == {T \in SUBSET R :
               SumFunctionOnSet(f, S) = SumFunctionOnSet(f, T) + SumFunctionOnSet(f, S \ T)}
<1>1. {} \in Good
  <2>1. S \ {} = S /\ SumFunctionOnSet(f, S) \in Int
    BY SumIsInt
  <2>2. QED
    BY <2>1, SumOfNone
<1>2. ASSUME NEW T \in Good, NEW x \in R \ T
      PROVE  T \cup {x} \in Good
  <2>1. IsFiniteSet(T) /\ IsFiniteSet(S \ T) /\ \A y \in T \cup {x} : f[y] \in Int
    BY FS_Subset
  <2>2. /\ SumFunctionOnSet(f, T) \in Int
        /\ SumFunctionOnSet(f, T \cup {x}) = f[x] + SumFunctionOnSet(f, T)
    BY <2>1, SumGrows
  <2>3. /\ SumFunctionOnSet(f, (S \ T) \ {x}) \in Int
        /\ SumFunctionOnSet(f, S \ T) = f[x] + SumFunctionOnSet(f, (S \ T) \ {x})
    BY <2>1, SumTakes
  <2>4. (S \ T) \ {x} = S \ (T \cup {x})
    OBVIOUS
  <2>5. SumFunctionOnSet(f, S) = SumFunctionOnSet(f, T) + SumFunctionOnSet(f, S \ T)
    BY DEF Good
  <2>6. SumFunctionOnSet(f, S)
          = SumFunctionOnSet(f, T \cup {x}) + SumFunctionOnSet(f, S \ (T \cup {x}))
    <3> HIDE DEF Good
    <3> PICK U : U = S \ (T \cup {x})
      OBVIOUS
    <3>1. SumFunctionOnSet(f, S \ T) = f[x] + SumFunctionOnSet(f, U) /\ SumFunctionOnSet(f, U) \in Int
      BY <2>3, <2>4
    <3>2. f[x] \in Int
      BY <2>1
    <3>3. SumFunctionOnSet(f, S) = SumFunctionOnSet(f, T \cup {x}) + SumFunctionOnSet(f, U)
      BY <2>2, <2>5, <3>1, <3>2
    <3>4. QED
      BY <3>3
  <2>7. QED
    BY <2>6
<1> HIDE DEF Good
<1>3. R \in Good
  <2>1. Good \in SUBSET SUBSET R /\ IsFiniteSet(R)
    BY FS_Subset DEF Good
  <2>2. QED
    BY <1>1, <1>2, <2>1, OneByOne
<1>4. IsFiniteSet(R) /\ IsFiniteSet(S \ R)
  BY FS_Subset
<1>5. QED
  BY <1>3, <1>4, SumIsInt DEF Good

LEMMA SumOfZeros ==
    ASSUME NEW S, IsFiniteSet(S), NEW f, \A x \in S : f[x] = 0
    PROVE  SumFunctionOnSet(f, S) = 0
<1>1. SumFunctionOnSet(f, S) = 0 * SumFunctionOnSet(f, S)
  BY SumOfTimes
<1>2. SumFunctionOnSet(f, S) \in Int
  BY SumIsInt
<1>3. QED
  BY <1>1, <1>2

LEMMA SumOfNat ==
    ASSUME NEW S, IsFiniteSet(S), NEW f, \A x \in S : f[x] \in Nat
    PROVE  SumFunctionOnSet(f, S) \in Nat
<1> DEFINE none == [x \in S |-> 0]
<1>1. SumFunctionOnSet(none, S) = 0
  BY SumOfZeros
<1>2. SumFunctionOnSet(f, S) \in Int
  BY SumIsInt
<1>3. SumFunctionOnSet(none, S) <= SumFunctionOnSet(f, S)
  BY SumKeepsOrder
<1>4. QED
  BY <1>1, <1>2, <1>3

\* Part of a sum of natural numbers.
LEMMA SumOfPart ==
    ASSUME NEW S, IsFiniteSet(S), NEW f, \A x \in S : f[x] \in Nat, NEW R \in SUBSET S
    PROVE  SumFunctionOnSet(f, R) <= SumFunctionOnSet(f, S)
<1>1. /\ SumFunctionOnSet(f, R) \in Int /\ SumFunctionOnSet(f, S \ R) \in Int
      /\ SumFunctionOnSet(f, S) = SumFunctionOnSet(f, R) + SumFunctionOnSet(f, S \ R)
  BY SumInTwo
<1>2. SumFunctionOnSet(f, S \ R) \in Nat
  BY FS_Subset, SumOfNat
<1>3. QED
  BY <1>1, <1>2

\* A sum taken family by family.
LEMMA SumByParts ==
    ASSUME NEW S, IsFiniteSet(S), NEW f, \A x \in S : f[x] \in Int,
           NEW I, IsFiniteSet(I), NEW part, \A i \in I : part[i] \subseteq S,
           \A i \in I : \A j \in I : i # j => part[i] \cap part[j] = {},
           NEW g, \A i \in I : g[i] = SumFunctionOnSet(f, part[i])
    PROVE  SumFunctionOnSet(g, I) = SumFunctionOnSet(f, UNION {part[i] : i \in I})
<1>0. \A A \in SUBSET S : \A P \in SUBSET A :
          SumFunctionOnSet(f, A) = SumFunctionOnSet(f, P) + SumFunctionOnSet(f, A \ P)
  BY FS_Subset, SumInTwo
<1> DEFINE all(J) == UNION {part[i] : i \in J}
           Good == {J \in SUBSET I : SumFunctionOnSet(g, J) = SumFunctionOnSet(f, all(J))}
<1>1. {} \in Good
  <2>1. all({}) = {}
    OBVIOUS
  <2>2. QED
    BY <2>1, SumOfNone
<1>2. ASSUME NEW J \in Good, NEW i \in I \ J
      PROVE  J \cup {i} \in Good
  <2>1. IsFiniteSet(J)
    BY FS_Subset
  <2>2. \A j \in I : g[j] \in Int
    BY FS_Subset, SumIsInt
  <2>3. SumFunctionOnSet(g, J \cup {i}) = g[i] + SumFunctionOnSet(g, J)
    BY <2>1, <2>2, SumGrows
  <2>4. /\ all(J \cup {i}) \subseteq S /\ part[i] \subseteq all(J \cup {i})
        /\ all(J \cup {i}) \ part[i] = all(J)
    OBVIOUS
  <2> HIDE DEF all
  <2>5. SumFunctionOnSet(f, all(J \cup {i})) = SumFunctionOnSet(f, part[i]) + SumFunctionOnSet(f, all(J))
    BY <1>0, <2>4
  <2>6. QED
    BY <2>3, <2>5
<1> HIDE DEF Good
<1>3. I \in Good
  <2>1. Good \in SUBSET SUBSET I
    BY DEF Good
  <2>2. QED
    BY <1>1, <1>2, <2>1, OneByOne
<1>4. QED
  BY <1>3 DEF Good

\* What a finite set is mapped to is finite.
LEMMA FinitelyMany ==
    ASSUME NEW S, IsFiniteSet(S), NEW f
    PROVE  IsFiniteSet({f[x] : x \in S})
<1> DEFINE g == [x \in S |-> f[x]]
           R == {f[x] : x \in S}
<1>1. g \in Surjection(S, R)
  BY DEF Surjection
<1> HIDE DEF g, R
<1>2. IsFiniteSet(R)
  BY <1>1, FS_Surjection
<1>3. QED
  BY <1>2 DEF R

\* A finite set of integers with something in it has a largest.
LEMMA SomeLargest ==
    ASSUME NEW S \in SUBSET Int, IsFiniteSet(S), S # {}
    PROVE  \E x \in S : \A y \in S : y <= x
<1> DEFINE Good == {T \in SUBSET S : T = {} \/ \E x \in T : \A y \in T : y <= x}
<1>1. {} \in Good
  OBVIOUS
<1>2. ASSUME NEW T \in Good, NEW z \in S \ T
      PROVE  T \cup {z} \in Good
  <2>1. CASE T = {}
    BY <2>1
  <2>2. CASE T # {}
    <3>1. PICK x \in T : \A y \in T : y <= x
      BY <2>2
    <3>2. CASE z <= x
      <4>1. x \in T \cup {z} /\ \A y \in T \cup {z} : y <= x
        BY <3>1, <3>2
      <4>2. QED
        BY <4>1
    <3>3. CASE ~(z <= x)
      <4>1. z \in T \cup {z} /\ \A y \in T \cup {z} : y <= z
        BY <3>1, <3>3
      <4>2. QED
        BY <4>1
    <3>4. QED
      BY <3>2, <3>3
  <2>3. QED
    BY <2>1, <2>2
<1> HIDE DEF Good
<1>3. S \in Good
  <2>1. Good \in SUBSET SUBSET S
    BY DEF Good
  <2>2. QED
    BY <1>1, <1>2, <2>1, OneByOne
<1>4. QED
  BY <1>3 DEF Good

LEMMA SomeSmallest ==
    ASSUME NEW S \in SUBSET Int, IsFiniteSet(S), S # {}
    PROVE  \E x \in S : \A y \in S : x <= y
<1> DEFINE f == [x \in S |-> -x]
           R == {f[x] : x \in S}
<1>1. R \in SUBSET Int /\ R # {}
  <2>1. \A x \in S : f[x] \in Int
    OBVIOUS
  <2> PICK x \in S : TRUE
    OBVIOUS
  <2>2. f[x] \in R
    OBVIOUS
  <2> HIDE DEF f
  <2>3. QED
    BY <2>1, <2>2
<1>2. IsFiniteSet(R)
  BY FinitelyMany
<1> HIDE DEF R
<1>3. PICK z \in R : \A y \in R : y <= z
  BY <1>1, <1>2, SomeLargest
<1>4. PICK x \in S : z = -x
  BY DEF R
<1>5. \A y \in S : -y <= z
  BY <1>3 DEF R
<1>6. \A y \in S : x <= y
  BY <1>4, <1>5
<1>7. QED
  BY <1>6

---------------------------------------------------------------------------
(* The figure in force.                                                    *)

\* Of figures of one variant that start on one day the seller's comes first.
LEMMA SellerFirst ==
    ASSUME NEW N \in SUBSET AllRows, N # {}, OnePerKey(N),
           \A r, q \in N : r.variant = q.variant /\ r.from = q.from
    PROVE  \E r \in N : \A q \in N \ {r} : r.source = "manual" /\ q.source = "shopify"
<1>1. \A r \in N : r.source \in {"manual", "shopify"}
  BY DEF AllRows, Rows, Sources
<1>2. \A r, q \in N : r.source = q.source => r = q
  BY DEF OnePerKey, SameKey
<1>3. CASE \E r \in N : r.source = "manual"
  BY <1>1, <1>2, <1>3
<1>4. CASE \A r \in N : r.source # "manual"
  BY <1>1, <1>2, <1>4
<1> QED
  BY <1>3, <1>4

\* Of figures equally near to the variant one comes before all others.
LEMMA OneComesFirst ==
    ASSUME NEW P \in SUBSET AllRows, P # {}, OnePerKey(P),
           \A r, q \in P : r.variant = q.variant
    PROVE  \E r \in P : \A q \in P \ {r} : Beats(r, q)
<1> DEFINE Starts == {d \in Days : \E r \in P : r.from = d}
<1>1. \A r \in P : r.from \in Days
  BY DEF AllRows, Rows
<1>2. Days \subseteq Int /\ IsFiniteSet(Days)
  BY CommerceAssumption, FS_Interval DEF Days
<1>3. Starts \in SUBSET Int /\ IsFiniteSet(Starts) /\ Starts # {}
  BY <1>1, <1>2, FS_Subset
<1> HIDE DEF Starts
<1>4. PICK last \in Starts : \A d \in Starts : d <= last
  BY <1>3, SomeLargest
<1> DEFINE N == {r \in P : r.from = last}
<1>5. /\ N \in SUBSET AllRows /\ N # {} /\ OnePerKey(N)
      /\ \A r, q \in N : r.variant = q.variant /\ r.from = q.from
  BY <1>4 DEF Starts, OnePerKey
<1>6. PICK r \in N : \A q \in N \ {r} : r.source = "manual" /\ q.source = "shopify"
  <2> HIDE DEF N
  <2> QED
    BY <1>5, SellerFirst
<1>7. ASSUME NEW q \in P \ {r} PROVE Beats(r, q)
  <2>1. r.variant = q.variant /\ r.from \in Int /\ q.from \in Int /\ q.from <= r.from
    BY <1>1, <1>2, <1>4 DEF Starts
  <2>2. CASE q.from = r.from
    BY <1>6, <2>1, <2>2 DEF Beats, Exact
  <2>3. CASE q.from # r.from
    BY <2>1, <2>3 DEF Beats, Exact
  <2> QED
    BY <2>2, <2>3
<1> QED
  BY <1>7

\* What can be used for a variant on a day has a first.
LEMMA OneIsInForce ==
    ASSUME NEW rows \in SUBSET AllRows, OnePerKey(rows), NEW v, NEW d,
           Usable(rows, v, d) # {}
    PROVE  \E r \in rows : InForce(rows, v, d) = {r}
<1> DEFINE U == Usable(rows, v, d)
           E == {r \in U : Exact(r)}
           P == IF E # {} THEN E ELSE U
<1>1. U \subseteq rows /\ \A r \in U : r.variant \in {v, EveryVariant}
  BY DEF Usable, Candidates
<1> HIDE DEF U
<1>2. P \in SUBSET AllRows /\ P \subseteq U /\ P # {} /\ OnePerKey(P)
  <2>1. U # {}
    BY DEF U
  <2> QED
    BY <1>1, <2>1 DEF OnePerKey
<1>3. \A r, q \in P : r.variant = q.variant
  BY <1>1 DEF Exact
<1>4. \A r \in P, q \in U \ P : Beats(r, q)
  BY DEF Beats
<1> HIDE DEF P
<1>5. PICK r \in P : \A q \in P \ {r} : Beats(r, q)
  BY <1>2, <1>3, OneComesFirst
<1>6. \A q \in U \ {r} : Beats(r, q)
  BY <1>4, <1>5
<1>7. InForce(rows, v, d) = {q \in U : \A p \in U \ {q} : Beats(q, p)}
  BY DEF InForce, U
<1>8. r \in InForce(rows, v, d)
  BY <1>2, <1>6, <1>7
<1>9. ASSUME NEW q \in InForce(rows, v, d), q # r PROVE FALSE
  <2>1. q \in U /\ r \in U /\ Beats(q, r) /\ Beats(r, q)
    BY <1>2, <1>6, <1>7, <1>9
  <2> QED
    BY <1>1, <2>1, BeatsIsStrict
<1> QED
  BY <1>1, <1>2, <1>8, <1>9

\* product_costs._pick: whatever was recorded in whichever order, a day that
\* some figure covers has exactly one in force for each known variant: no two
\* figures tie and none is missed.
THEOREM OneFigureInForce == Spec => []OneFigurePrices
<1>1. ASSUME History PROVE OneFigurePrices
  <2> SUFFICES ASSUME NEW v \in Variants, NEW d \in Days, SomeFigureFor(v, d)
               PROVE  \E r \in costs : InForce(costs, v, d) = {r}
    BY DEF OneFigurePrices
  <2>1. Usable(costs, v, d) # {}
    BY DEF SomeFigureFor, Usable, Candidates
  <2> QED
    BY <1>1, <2>1, OneIsInForce DEF History
<1> QED
  BY <1>1, HistoryHolds, PTL

---------------------------------------------------------------------------
(* What a claim is made of.                                                *)

LEMMA QuotientKeepsOrder ==
    ASSUME NEW a \in Int, NEW b \in Int, a <= b, NEW p \in Nat \ {0}
    PROVE  a \div p <= b \div p /\ a \div p \in Int /\ b \div p \in Int
BY SMT

LEMMA RoundingKeepsOrder ==
    ASSUME NEW a \in Int, NEW b \in Int, a <= b
    PROVE  ToCents(a) <= ToCents(b)
<1>1. Parts \in Nat \ {0}
  BY RestockAssumption
<1>2. CASE a < 0 /\ b < 0
  <2>1. -b \in Int /\ -a \in Int /\ -b <= -a
    OBVIOUS
  <2>2. (-b) \div Parts <= (-a) \div Parts /\ (-b) \div Parts \in Int /\ (-a) \div Parts \in Int
    BY <1>1, <2>1, QuotientKeepsOrder
  <2>3. QED
    BY <1>2, <2>2 DEF ToCents
<1>3. CASE a < 0 /\ ~(b < 0)
  <2>1. (-a) \div Parts \in Nat /\ b \div Parts \in Nat
    BY <1>1, <1>3, SMT
  <2>2. QED
    BY <1>3, <2>1 DEF ToCents
<1>4. CASE ~(a < 0) /\ ~(b < 0)
  BY <1>1, <1>4, QuotientKeepsOrder DEF ToCents
<1>5. QED
  BY <1>2, <1>3, <1>4

\* Groups that can be priced.
Priceable(groups) ==
    IsFiniteSet(groups) /\ \A g \in groups : g.units \in Nat /\ UnitMargin(g) \in Int

\* The units of some of them, counted among all.
LEMMA UnitsOfSome ==
    ASSUME NEW groups, Priceable(groups), NEW some \in SUBSET groups
    PROVE  /\ Units(some) = SumFunctionOnSet([g \in groups |-> g.units], some)
           /\ Units(some) \in Nat
<1>1. IsFiniteSet(some) /\ \A g \in some : g.units \in Nat
  BY FS_Subset DEF Priceable
<1> DEFINE all == [g \in groups |-> g.units]
           part == [g \in some |-> g.units]
<1>2. Units(some) = SumFunctionOnSet(part, some)
  BY DEF Units, SumFunction
<1>3. \A g \in some : part[g] \in Nat /\ part[g] = all[g]
  BY <1>1
<1> HIDE DEF all, part
<1>4. SumFunctionOnSet(part, some) = SumFunctionOnSet(all, some)
  BY <1>1, <1>3, SumOfSame
<1>5. SumFunctionOnSet(part, some) \in Nat
  BY <1>1, <1>3, SumOfNat
<1>6. QED
  BY <1>2, <1>4, <1>5 DEF all

LEMMA UnitsOfAll ==
    ASSUME NEW groups, Priceable(groups)
    PROVE  Units(groups) \in Nat
<1>1. groups \in SUBSET groups
  OBVIOUS
<1>2. QED
  BY <1>1, UnitsOfSome

At(m, groups) == {g \in groups : UnitMargin(g) = m}
Above(m, groups) == {g \in groups : UnitMargin(g) > m}
From(m, groups) == {g \in groups : UnitMargin(g) >= m}
Margins(groups) == {UnitMargin(g) : g \in groups}

LEMMA MarginsAreFew ==
    ASSUME NEW groups, Priceable(groups)
    PROVE  IsFiniteSet(Margins(groups)) /\ Margins(groups) \in SUBSET Int
<1> DEFINE f == [g \in groups |-> UnitMargin(g)]
<1>1. IsFiniteSet({f[g] : g \in groups})
  BY FinitelyMany DEF Priceable
<1>2. {f[g] : g \in groups} = Margins(groups)
  BY DEF Margins
<1>3. QED
  BY <1>1, <1>2 DEF Margins, Priceable

\* The units at a margin or above it.
LEMMA UnitsFrom ==
    ASSUME NEW groups, Priceable(groups), NEW m \in Int
    PROVE  Units(From(m, groups)) = Units(Above(m, groups)) + Units(At(m, groups))
<1> DEFINE u == [g \in groups |-> g.units]
           from == From(m, groups)
           above == Above(m, groups)
           at == At(m, groups)
<1>1. /\ from \in SUBSET groups /\ above \in SUBSET groups /\ at \in SUBSET groups
      /\ above \in SUBSET from /\ from \ above = at
  BY DEF From, Above, At, Priceable
<1>2. IsFiniteSet(from) /\ \A g \in from : u[g] \in Int
  BY <1>1, FS_Subset DEF Priceable
<1>3. /\ Units(from) = SumFunctionOnSet(u, from)
      /\ Units(above) = SumFunctionOnSet(u, above)
      /\ Units(at) = SumFunctionOnSet(u, at)
  BY <1>1, UnitsOfSome
<1> HIDE DEF u, from, above, at
<1>4. SumFunctionOnSet(u, from) = SumFunctionOnSet(u, above) + SumFunctionOnSet(u, from \ above)
  BY <1>1, <1>2, SumInTwo
<1>5. Units(from) = Units(above) + Units(at)
  BY <1>1, <1>3, <1>4
<1>6. QED
  BY <1>5 DEF from, above, at

\* More groups, more units.
LEMMA MoreUnits ==
    ASSUME NEW groups, Priceable(groups), NEW many \in SUBSET groups, NEW few \in SUBSET many
    PROVE  Units(few) <= Units(many)
<1> DEFINE u == [g \in groups |-> g.units]
<1>1. IsFiniteSet(many) /\ \A g \in many : u[g] \in Nat
  BY FS_Subset DEF Priceable
<1>2. Units(many) = SumFunctionOnSet(u, many) /\ Units(few) = SumFunctionOnSet(u, few)
  BY UnitsOfSome
<1> HIDE DEF u
<1>3. SumFunctionOnSet(u, few) <= SumFunctionOnSet(u, many)
  BY <1>1, SumOfPart
<1>4. QED
  BY <1>2, <1>3

\* The margin the old stock runs out at.
LEMMA RunsOutAt ==
    ASSUME NEW groups, Priceable(groups), NEW stock \in Nat, stock < Units(groups)
    PROVE  \E k \in Margins(groups) :
              Units(Above(k, groups)) <= stock /\ stock < Units(From(k, groups))
<1> DEFINE High == {m \in Margins(groups) : stock < Units(From(m, groups))}
<1>1. IsFiniteSet(Margins(groups)) /\ Margins(groups) \in SUBSET Int
  BY MarginsAreFew
<1>2. High # {}
  <2>1. groups # {}
    <3>1. Units({}) = 0
      BY SumOfNone DEF Units, SumFunction
    <3>2. QED
      BY <3>1
  <2>2. Margins(groups) # {}
    BY <2>1 DEF Margins
  <2>3. PICK least \in Margins(groups) : \A m \in Margins(groups) : least <= m
    BY <1>1, <2>2, SomeSmallest
  <2>4. From(least, groups) = groups
    BY <1>1, <2>3 DEF From, Margins
  <2>5. least \in High
    BY <2>4
  <2>6. QED
    BY <2>5
<1>3. PICK k \in High : \A m \in High : m <= k
  <2>1. IsFiniteSet(High) /\ High \in SUBSET Int
    BY <1>1, FS_Subset
  <2> HIDE DEF High
  <2>2. QED
    BY <1>2, <2>1, SomeLargest
<1>4. Units(Above(k, groups)) <= stock
  <2> DEFINE Higher == {m \in Margins(groups) : m > k}
  <2>1. CASE Higher = {}
    <3>1. Above(k, groups) = {}
      BY <2>1 DEF Above, Margins
    <3>2. Units({}) = 0
      BY SumOfNone DEF Units, SumFunction
    <3>3. QED
      BY <3>1, <3>2
  <2>2. CASE Higher # {}
    <3>1. IsFiniteSet(Higher) /\ Higher \in SUBSET Int
      BY <1>1, FS_Subset
    <3>2. PICK n \in Higher : \A m \in Higher : n <= m
      <4> HIDE DEF Higher
      <4>1. QED
        BY <2>2, <3>1, SomeSmallest
    <3>3. n \notin High
      BY <1>1, <1>3
    <3>4. Above(k, groups) = From(n, groups)
      <4>1. \A m \in Margins(groups) : m > k <=> m >= n
        BY <1>1, <3>2
      <4>2. \A g \in groups : UnitMargin(g) \in Margins(groups)
        BY DEF Margins
      <4> HIDE DEF High, Higher
      <4>3. QED
        BY <4>1, <4>2 DEF Above, From
    <3>5. From(n, groups) \in SUBSET groups
      BY DEF From
    <3>6. Units(From(n, groups)) \in Nat
      BY <3>5, UnitsOfSome
    <3>7. QED
      BY <3>3, <3>4, <3>6
  <2>3. QED
    BY <2>1, <2>2
<1>5. QED
  BY <1>3, <1>4

\* What is left of a margin: nothing above the one the stock runs out at, all
\* below it.
LEMMA WhatIsLeft ==
    ASSUME NEW groups, Priceable(groups), NEW stock \in Nat,
           NEW k \in Margins(groups), Units(Above(k, groups)) <= stock,
           stock < Units(From(k, groups)),
           NEW m \in Margins(groups)
    PROVE  Left(m, groups, stock) = IF m > k THEN 0
                                    ELSE IF m = k THEN Units(From(k, groups)) - stock
                                    ELSE Units(At(m, groups))
<1> DEFINE at == Units(At(m, groups))
           above == Units(Above(m, groups))
<1>1. m \in Int /\ k \in Int /\ \A g \in groups : UnitMargin(g) \in Int
  BY MarginsAreFew DEF Priceable
<1>2. /\ At(m, groups) \in SUBSET groups /\ Above(m, groups) \in SUBSET groups
      /\ Above(k, groups) \in SUBSET groups /\ From(m, groups) \in SUBSET groups
      /\ From(k, groups) \in SUBSET groups
  BY DEF At, Above, From
<1>3. /\ at \in Nat /\ above \in Nat /\ Units(From(k, groups)) \in Nat
      /\ Units(Above(k, groups)) \in Nat
  BY <1>2, UnitsOfSome
<1>4. Units(From(m, groups)) = above + at
  BY <1>1, UnitsFrom
<1>5. Left(m, groups, stock) = AtLeastZero(at - AtLeastZero(stock - above))
  BY DEF Left, At, Above
<1>6. CASE m > k
  <2>1. From(m, groups) \in SUBSET Above(k, groups)
    BY <1>1, <1>6 DEF From, Above
  <2>2. Units(From(m, groups)) <= Units(Above(k, groups))
    BY <1>2, <2>1, MoreUnits
  <2> HIDE DEF at, above
  <2>3. stock - above >= at
    BY <1>3, <1>4, <2>2
  <2>4. QED
    BY <1>3, <1>5, <1>6, <2>3 DEF AtLeastZero
<1>7. CASE m = k
  <2> HIDE DEF at, above
  <2>1. above <= stock /\ Units(From(k, groups)) = above + at
    BY <1>4, <1>7 DEF above
  <2>2. QED
    BY <1>3, <1>5, <1>7, <1>1, <2>1 DEF AtLeastZero
<1>8. CASE m < k
  <2>1. From(k, groups) \in SUBSET Above(m, groups)
    BY <1>1, <1>8 DEF From, Above
  <2>2. Units(From(k, groups)) <= above
    BY <1>2, <2>1, MoreUnits
  <2> HIDE DEF at, above
  <2>3. stock - above < 0
    BY <1>3, <2>2
  <2>4. Left(m, groups, stock) = at
    BY <1>3, <1>5, <2>3 DEF AtLeastZero
  <2>5. QED
    BY <1>1, <1>8, <2>4 DEF at
<1>9. QED
  BY <1>1, <1>6, <1>7, <1>8

\* Sums over groups taken margin by margin.
LEMMA ByMargin ==
    ASSUME NEW groups, Priceable(groups), NEW f, \A g \in groups : f[g] \in Int,
           NEW h, \A m \in Margins(groups) : h[m] = SumFunctionOnSet(f, At(m, groups))
    PROVE  SumFunctionOnSet(h, Margins(groups)) = SumFunctionOnSet(f, groups)
<1> DEFINE margins == Margins(groups)
           part == [m \in margins |-> At(m, groups)]
<1>1. IsFiniteSet(margins) /\ IsFiniteSet(groups)
  BY MarginsAreFew DEF Priceable
<1>2. \A m \in margins : part[m] \subseteq groups
  BY DEF At
<1>3. \A m \in margins : \A n \in margins : m # n => part[m] \cap part[n] = {}
  BY DEF At
<1>4. UNION {part[m] : m \in margins} = groups
  <2>1. \A g \in groups : UnitMargin(g) \in margins /\ g \in part[UnitMargin(g)]
    BY DEF Margins, At
  <2>2. QED
    BY <1>2, <2>1
<1>5. \A m \in margins : h[m] = SumFunctionOnSet(f, part[m])
  OBVIOUS
<1> HIDE DEF margins, part
<1>6. SumFunctionOnSet(h, margins) = SumFunctionOnSet(f, UNION {part[m] : m \in margins})
  BY <1>1, <1>2, <1>3, <1>5, SumByParts
<1>7. QED
  BY <1>4, <1>6 DEF margins

\* All that is left is what was sold beyond the stock.
LEMMA LeftInAll ==
    ASSUME NEW groups, Priceable(groups), NEW stock \in Nat, stock < Units(groups),
           NEW k \in Margins(groups), Units(Above(k, groups)) <= stock,
           stock < Units(From(k, groups)),
           NEW left, \A m \in Margins(groups) : left[m] = Left(m, groups, stock)
    PROVE  /\ \A m \in Margins(groups) : left[m] \in Int
           /\ SumFunctionOnSet(left, Margins(groups)) = Units(groups) - stock
<1> DEFINE u == [g \in groups |-> g.units]
           q == [g \in groups |-> IF UnitMargin(g) > k THEN 0 ELSE g.units]
           h == [m \in Margins(groups) |-> SumFunctionOnSet(q, At(m, groups))]
           above == Above(k, groups)
           rest == groups \ above
<1>1. /\ IsFiniteSet(groups) /\ k \in Int
      /\ \A g \in groups : u[g] \in Nat /\ q[g] \in Nat /\ UnitMargin(g) \in Int
  BY MarginsAreFew DEF Priceable
<1>2. /\ above \in SUBSET groups /\ rest \in SUBSET groups /\ From(k, groups) \in SUBSET groups
      /\ \A m : At(m, groups) \in SUBSET groups
  BY DEF Above, From, At
<1>3. IsFiniteSet(above) /\ IsFiniteSet(rest) /\ \A m : IsFiniteSet(At(m, groups))
  BY <1>1, <1>2, FS_Subset
<1>4. ASSUME NEW m \in Margins(groups)
      PROVE  h[m] = IF m > k THEN 0 ELSE Units(At(m, groups))
  <2>1. h[m] = SumFunctionOnSet(q, At(m, groups))
    OBVIOUS
  <2>2. CASE m > k
    <3>1. \A g \in At(m, groups) : q[g] = 0
      BY <2>2 DEF At
    <3> HIDE DEF q, h
    <3>2. QED
      BY <1>3, <2>1, <2>2, <3>1, SumOfZeros
  <2>3. CASE ~(m > k)
    <3>1. \A g \in At(m, groups) : q[g] = u[g] /\ q[g] \in Int
      BY <1>1, <2>3 DEF At
    <3> HIDE DEF q, h
    <3>2. SumFunctionOnSet(q, At(m, groups)) = SumFunctionOnSet(u, At(m, groups))
      BY <1>3, <3>1, SumOfSame
    <3>3. QED
      BY <1>2, <2>1, <2>3, <3>2, UnitsOfSome
  <2>4. QED
    BY <2>2, <2>3
<1>5. SumFunctionOnSet(q, groups) = Units(groups) - Units(above)
  <2>1. \A g \in above : q[g] = 0
    BY DEF Above
  <2>2. \A g \in rest : q[g] = u[g] /\ q[g] \in Int
    BY <1>1, <1>2 DEF Above
  <2>3. SumFunctionOnSet(u, groups) = SumFunctionOnSet(u, above) + SumFunctionOnSet(u, rest)
        /\ SumFunctionOnSet(u, above) \in Int /\ SumFunctionOnSet(u, rest) \in Int
    <3>1. \A g \in groups : u[g] \in Int
      BY <1>1
    <3> HIDE DEF u, above
    <3>2. QED
      BY <1>1, <1>2, <3>1, SumInTwo
  <2>4. SumFunctionOnSet(q, groups) = SumFunctionOnSet(q, above) + SumFunctionOnSet(q, rest)
    <3> HIDE DEF q, above
    <3>1. QED
      BY <1>1, <1>2, SumInTwo
  <2>5. Units(groups) = SumFunctionOnSet(u, groups) /\ Units(above) = SumFunctionOnSet(u, above)
    BY <1>2, UnitsOfSome
  <2> HIDE DEF q, u, above, rest
  <2>6. SumFunctionOnSet(q, above) = 0
    BY <1>3, <2>1, SumOfZeros
  <2>7. SumFunctionOnSet(q, rest) = SumFunctionOnSet(u, rest)
    BY <1>3, <2>2, SumOfSame
  <2>8. QED
    BY <2>3, <2>4, <2>5, <2>6, <2>7
<1>6. SumFunctionOnSet(h, Margins(groups)) = SumFunctionOnSet(q, groups)
  <2>1. \A g \in groups : q[g] \in Int
    BY <1>1
  <2>2. \A m \in Margins(groups) : h[m] = SumFunctionOnSet(q, At(m, groups))
    OBVIOUS
  <2> HIDE DEF q, h
  <2>3. QED
    BY <2>1, <2>2, ByMargin
<1> DEFINE others == Margins(groups) \ {k}
<1>7. IsFiniteSet(Margins(groups)) /\ Margins(groups) \in SUBSET Int /\ IsFiniteSet(others)
  BY MarginsAreFew, FS_Subset
<1>8. /\ Units(above) \in Int /\ Units(groups) \in Int /\ Units(From(k, groups)) \in Int
      /\ \A m : Units(At(m, groups)) \in Int
  <2>1. Units(groups) \in Int
    BY UnitsOfAll
  <2> HIDE DEF above
  <2>2. \A some \in SUBSET groups : Units(some) \in Nat
    BY UnitsOfSome
  <2>3. \A some \in SUBSET groups : Units(some) \in Int
    BY <2>2
  <2>4. QED
    BY <1>2, <2>1, <2>3
<1> HIDE DEF h, q, u
<1>9. ASSUME NEW m \in Margins(groups)
      PROVE  /\ left[m] \in Int /\ h[m] \in Int
             /\ m # k => left[m] = h[m]
             /\ m = k => left[m] = h[m] + Units(above) - stock
  <2>1. left[m] = IF m > k THEN 0
                  ELSE IF m = k THEN Units(From(k, groups)) - stock
                  ELSE Units(At(m, groups))
    BY WhatIsLeft
  <2>2. Units(From(k, groups)) = Units(above) + Units(At(k, groups))
    BY <1>1, UnitsFrom
  <2>3. m \in Int
    BY <1>7
  <2> HIDE DEF above
  <2>4. h[m] = IF m > k THEN 0 ELSE Units(At(m, groups))
    BY <1>4
  <2>5. Units(above) \in Int /\ Units(From(k, groups)) \in Int /\ Units(At(m, groups)) \in Int
        /\ Units(At(k, groups)) \in Int
    BY <1>8
  <2>6. left[m] \in Int /\ h[m] \in Int
    BY <2>1, <2>4, <2>5
  <2>7. m # k => left[m] = h[m]
    BY <2>1, <2>3, <2>4, <1>1
  <2>8. m = k => left[m] = h[m] + Units(above) - stock
    BY <2>1, <2>2, <2>3, <2>4, <2>5, <1>1
  <2>9. QED
    BY <2>6, <2>7, <2>8
<1>10. /\ SumFunctionOnSet(left, Margins(groups)) = left[k] + SumFunctionOnSet(left, others)
       /\ SumFunctionOnSet(left, others) \in Int
  <2>1. \A m \in Margins(groups) : left[m] \in Int
    BY <1>9
  <2>2. QED
    BY <1>7, <2>1, SumTakes
<1>11. /\ SumFunctionOnSet(h, Margins(groups)) = h[k] + SumFunctionOnSet(h, others)
       /\ SumFunctionOnSet(h, others) \in Int
  <2>1. \A m \in Margins(groups) : h[m] \in Int
    BY <1>9
  <2>2. QED
    BY <1>7, <2>1, SumTakes
<1>12. SumFunctionOnSet(left, others) = SumFunctionOnSet(h, others)
  <2>1. \A m \in others : left[m] \in Int /\ left[m] = h[m]
    BY <1>9
  <2>2. QED
    BY <1>7, <2>1, SumOfSame
<1>13. left[k] = h[k] + Units(above) - stock /\ h[k] \in Int
  BY <1>9
<1>14. SumFunctionOnSet(left, Margins(groups)) = Units(groups) - stock
  <2> HIDE DEF above, others
  <2>1. QED
    BY <1>5, <1>6, <1>8, <1>10, <1>11, <1>12, <1>13
<1>15. QED
  BY <1>9, <1>14

LEMMA Regroups ==
    ASSUME NEW a \in Int, NEW b \in Int, NEW c \in Int
    PROVE  /\ a * b \in Int /\ (a - b) * c \in Int
           /\ a * c = (a - b) * c + b * c
           /\ c * a = a * c
BY SMT

LEMMA Covering ==
    ASSUME NEW w \in Int, NEW k \in Int, NEW u \in Nat, NEW c \in Nat, c <= u
    PROVE  /\ w < k => (w - k) * u <= (w - k) * (u - c)
           /\ ~(w < k) => 0 <= (w - k) * (u - c)
<1>1. w - k \in Int /\ u - c \in Nat
  OBVIOUS
<1>2. ASSUME w < k PROVE (w - k) * u <= (w - k) * (u - c)
  <2>1. k - w \in Nat
    BY <1>2
  <2>2. (u - c) * (k - w) <= u * (k - w)
    BY <1>1, <2>1, SMT
  <2>3. (w - k) * u = -(u * (k - w)) /\ (w - k) * (u - c) = -((u - c) * (k - w))
        /\ u * (k - w) \in Int /\ (u - c) * (k - w) \in Int
    BY SMT
  <2>4. QED
    BY <2>2, <2>3
<1>3. ASSUME ~(w < k) PROVE 0 <= (w - k) * (u - c)
  <2>1. w - k \in Nat
    BY <1>3
  <2>2. QED
    BY <1>1, <2>1, SMT
<1>4. QED
  BY <1>2, <1>3

\* However the old stock is taken to cover units, what it leaves earned no less.
LEMMA NoCoverIsCheaper ==
    ASSUME NEW groups, Priceable(groups), NEW stock \in Nat, stock < Units(groups),
           NEW c \in [groups -> Nat], \A g \in groups : c[g] <= g.units,
           SumFunctionOnSet(c, groups) = stock
    PROVE  Attributable(groups, stock) <= ClaimIf(c, groups)
<1>1. PICK k \in Margins(groups) :
           Units(Above(k, groups)) <= stock /\ stock < Units(From(k, groups))
  BY RunsOutAt
<1> DEFINE margins == Margins(groups)
           left == [m \in margins |-> Left(m, groups, stock)]
           claim == [m \in margins |-> m * Left(m, groups, stock)]
           above == [m \in margins |-> (m - k) * left[m]]
           base == [m \in margins |-> k * left[m]]
           kept == [g \in groups |-> g.units - c[g]]
           price == [g \in groups |-> (g.units - c[g]) * UnitMargin(g)]
           lost == [g \in groups |-> IF UnitMargin(g) < k THEN (UnitMargin(g) - k) * g.units ELSE 0]
           over == [g \in groups |-> (UnitMargin(g) - k) * kept[g]]
           paid == [g \in groups |-> k * kept[g]]
           u == [g \in groups |-> g.units]
           rest == Units(groups) - stock
<1>2. /\ IsFiniteSet(groups) /\ IsFiniteSet(margins) /\ margins \in SUBSET Int /\ k \in Int
      /\ \A g \in groups : UnitMargin(g) \in Int /\ g.units \in Nat
  BY MarginsAreFew DEF Priceable
<1>3. (\A m \in margins : left[m] \in Int) /\ SumFunctionOnSet(left, margins) = rest
  <2>1. \A m \in Margins(groups) : left[m] = Left(m, groups, stock)
    OBVIOUS
  <2> HIDE DEF left
  <2>2. QED
    BY <1>1, <2>1, LeftInAll
<1>4. SumFunctionOnSet(kept, groups) = rest
  <2>1. Units(groups) = SumFunctionOnSet(u, groups)
    BY DEF Units, SumFunction
  <2>2. \A g \in groups : kept[g] \in Int /\ c[g] \in Int /\ u[g] = kept[g] + c[g]
    BY <1>2
  <2> HIDE DEF kept, u
  <2>3. SumFunctionOnSet(u, groups) = SumFunctionOnSet(kept, groups) + SumFunctionOnSet(c, groups)
    BY <1>2, <2>2, SumOfPlus
  <2>4. SumFunctionOnSet(kept, groups) \in Int
    BY <1>2, <2>2, SumIsInt
  <2>5. QED
    BY <2>1, <2>3, <2>4
<1>5. SumFunctionOnSet(claim, margins) = SumFunctionOnSet(above, margins) + k * rest
      /\ SumFunctionOnSet(above, margins) \in Int /\ SumFunctionOnSet(claim, margins) \in Int
  <2>1. ASSUME NEW m \in margins
        PROVE  /\ claim[m] = above[m] + base[m] /\ base[m] = k * left[m]
               /\ above[m] \in Int /\ base[m] \in Int /\ claim[m] \in Int
    <3>1. m \in Int /\ left[m] \in Int
      BY <1>2, <1>3
    <3>2. claim[m] = m * left[m] /\ above[m] = (m - k) * left[m] /\ base[m] = k * left[m]
      OBVIOUS
    <3> HIDE DEF claim, above, base, left
    <3>3. QED
      BY <1>2, <3>1, <3>2, Regroups
  <2> HIDE DEF claim, above, base, left, margins
  <2>2. SumFunctionOnSet(claim, margins)
          = SumFunctionOnSet(above, margins) + SumFunctionOnSet(base, margins)
    BY <1>2, <2>1, SumOfPlus
  <2>3. SumFunctionOnSet(base, margins) = k * SumFunctionOnSet(left, margins)
    BY <1>2, <1>3, <2>1, SumOfTimes
  <2>4. SumFunctionOnSet(above, margins) \in Int /\ SumFunctionOnSet(claim, margins) \in Int
    BY <1>2, <2>1, SumIsInt
  <2>5. QED
    BY <1>3, <2>2, <2>3, <2>4
<1>6. SumFunctionOnSet(price, groups) = SumFunctionOnSet(over, groups) + k * rest
      /\ SumFunctionOnSet(over, groups) \in Int /\ SumFunctionOnSet(price, groups) \in Int
  <2>1. ASSUME NEW g \in groups
        PROVE  /\ price[g] = over[g] + paid[g] /\ paid[g] = k * kept[g]
               /\ over[g] \in Int /\ paid[g] \in Int /\ price[g] \in Int /\ kept[g] \in Int
    <3> PICK w : w = UnitMargin(g)
      OBVIOUS
    <3>1. w \in Int /\ kept[g] \in Int
      BY <1>2
    <3>2. price[g] = kept[g] * w /\ over[g] = (w - k) * kept[g] /\ paid[g] = k * kept[g]
      OBVIOUS
    <3> HIDE DEF price, over, paid, kept
    <3>3. QED
      BY <1>2, <3>1, <3>2, Regroups
  <2> HIDE DEF price, over, paid, kept
  <2>2. SumFunctionOnSet(price, groups)
          = SumFunctionOnSet(over, groups) + SumFunctionOnSet(paid, groups)
    BY <1>2, <2>1, SumOfPlus
  <2>3. SumFunctionOnSet(paid, groups) = k * SumFunctionOnSet(kept, groups)
    BY <1>2, <2>1, SumOfTimes
  <2>4. SumFunctionOnSet(over, groups) \in Int /\ SumFunctionOnSet(price, groups) \in Int
    BY <1>2, <2>1, SumIsInt
  <2>5. QED
    BY <1>4, <2>2, <2>3, <2>4
<1>7. SumFunctionOnSet(lost, groups) <= SumFunctionOnSet(over, groups)
  <2>1. ASSUME NEW g \in groups
        PROVE  lost[g] \in Int /\ over[g] \in Int /\ lost[g] <= over[g]
    <3> PICK w : w = UnitMargin(g)
      OBVIOUS
    <3>1. w \in Int /\ g.units \in Nat /\ c[g] \in Nat /\ c[g] <= g.units
      BY <1>2
    <3>2. over[g] = (w - k) * (g.units - c[g])
          /\ lost[g] = IF w < k THEN (w - k) * g.units ELSE 0
      OBVIOUS
    <3> HIDE DEF over, lost
    <3>3. (w - k) * g.units \in Int /\ (w - k) * (g.units - c[g]) \in Int
      BY <1>2, <3>1, Regroups
    <3>4. QED
      BY <1>2, <3>1, <3>2, <3>3, Covering
  <2> HIDE DEF over, lost
  <2>2. QED
    BY <1>2, <2>1, SumKeepsOrder
<1>8. SumFunctionOnSet(above, margins) = SumFunctionOnSet(lost, groups)
  <2>1. \A g \in groups : lost[g] \in Int
    BY <1>2, Regroups
  <2>2. ASSUME NEW m \in margins
        PROVE  above[m] = SumFunctionOnSet(lost, At(m, groups))
    <3>1. above[m] = (m - k) * left[m]
      OBVIOUS
    <3>2. left[m] = IF m > k THEN 0
                    ELSE IF m = k THEN Units(From(k, groups)) - stock
                    ELSE Units(At(m, groups))
      BY <1>1, WhatIsLeft
    <3>3. IsFiniteSet(At(m, groups)) /\ m \in Int /\ At(m, groups) \in SUBSET groups
      BY <1>2, FS_Subset DEF At
    <3>4. left[m] \in Int
      BY <1>3
    <3>5. CASE m < k
      <4>1. left[m] = SumFunctionOnSet(u, At(m, groups))
        <5>1. left[m] = Units(At(m, groups))
          BY <1>2, <3>2, <3>3, <3>5
        <5> HIDE DEF left
        <5>2. QED
          BY <3>3, <5>1, UnitsOfSome
      <4>2. \A g \in At(m, groups) : u[g] \in Int /\ lost[g] = (m - k) * u[g]
        BY <1>2, <3>5 DEF At
      <4> HIDE DEF left, above, lost, u
      <4>3. SumFunctionOnSet(lost, At(m, groups)) = (m - k) * SumFunctionOnSet(u, At(m, groups))
        BY <1>2, <3>3, <4>2, SumOfTimes
      <4>4. QED
        BY <3>1, <4>1, <4>3
    <3>6. CASE ~(m < k)
      <4>1. \A g \in At(m, groups) : lost[g] = 0
        BY <3>6 DEF At
      <4>2. SumFunctionOnSet(lost, At(m, groups)) = 0
        <5> HIDE DEF lost
        <5>1. QED
          BY <3>3, <4>1, SumOfZeros
      <4> HIDE DEF left, above, lost
      <4>3. m - k = 0 \/ left[m] = 0
        BY <1>2, <3>2, <3>3, <3>6
      <4>4. (m - k) * left[m] = 0
        BY <1>2, <3>3, <3>4, <4>3, SMT
      <4>5. QED
        BY <3>1, <4>2, <4>4
    <3>7. QED
      BY <3>5, <3>6
  <2> HIDE DEF lost, above
  <2>3. QED
    BY <2>1, <2>2, ByMargin DEF margins
<1>9. k * rest \in Int
  <2>1. Units(groups) \in Int
    BY UnitsOfAll
  <2>2. QED
    BY <1>2, <2>1, Regroups
<1>10. /\ Attributable(groups, stock) = ToCents(SumFunctionOnSet(claim, margins))
       /\ ClaimIf(c, groups) = ToCents(SumFunctionOnSet(price, groups))
  BY DEF Attributable, ClaimIf, SumFunction, Margins
<1> HIDE DEF claim, above, price, over, lost, margins, rest
<1>11. SumFunctionOnSet(claim, margins) <= SumFunctionOnSet(price, groups)
  BY <1>5, <1>6, <1>7, <1>8, <1>9
<1>12. QED
  BY <1>5, <1>6, <1>10, <1>11, RoundingKeepsOrder

\* A sale with a cost in force is a group that can be priced.
LEMMA GroupOfSale ==
    ASSUME costs \subseteq AllRows, NEW r \in Sales, r.units > 0, NEW g, g = Group(r, r.day)
    PROVE  /\ g.units = r.units /\ g.revenue = r.revenue /\ g.day = r.day
           /\ g.units \in Nat \ {0} /\ g.revenue \in Int
           /\ g.cost # {} => UnitCost(g).amount \in Nat /\ UnitMargin(g) \in Int
<1>1. /\ g.units = r.units /\ g.revenue = r.revenue /\ g.day = r.day
      /\ g.units \in Nat \ {0} /\ g.revenue \in Int
  BY DEF Group, Sales
<1>2. ASSUME g.cost # {} PROVE UnitCost(g).amount \in Nat /\ UnitMargin(g) \in Int
  <2>1. g.cost \subseteq costs
    BY DEF Group, InForce, Usable, Candidates
  <2>2. (CHOOSE c \in g.cost : TRUE) \in AllRows
    BY <1>2, <2>1
  <2>3. UnitCost(g).amount \in Nat
    BY <2>2, CommerceAssumption DEF UnitCost, AllRows, Rows, Figures
  <2>4. Parts * g.revenue \in Int /\ Parts * UnitCost(g).amount \in Int
    BY <1>1, <2>3, RestockAssumption, SMT
  <2>5. (Parts * g.revenue) \div g.units \in Int
    BY <1>1, <2>4, Division
  <2>6. UnitMargin(g) \in Int
    BY <2>4, <2>5 DEF UnitMargin
  <2>7. QED
    BY <2>3, <2>6
<1>3. QED
  BY <1>1, <1>2

\* What a window sold.
LEMMA GroupsOfWindow ==
    ASSUME costs \subseteq AllRows, IsFiniteSet(sales), sales \subseteq Sales, NEW a
    PROVE  /\ IsFiniteSet(_sold_units(a))
           /\ Units(_sold_units(a)) \in Nat
           /\ (\A g \in _sold_units(a) : g.cost # {}) => Priceable(_sold_units(a))
<1> DEFINE groups == _sold_units(a)
           f == [r \in sales |-> Group(r, r.day)]
           u == [g \in groups |-> g.units]
<1>1. /\ groups = {f[r] : r \in InWindow(a)} /\ InWindow(a) \subseteq sales
      /\ \A r \in InWindow(a) : r \in Sales /\ r.units > 0
  BY DEF _sold_units, InWindow
<1>2. IsFiniteSet(groups)
  <2>1. IsFiniteSet(InWindow(a))
    BY <1>1, FS_Subset
  <2> HIDE DEF f, groups
  <2>2. QED
    BY <1>1, <2>1, FinitelyMany
<1>3. \A g \in groups : g.units \in Nat /\ (g.cost # {} => UnitMargin(g) \in Int)
  <2> TAKE g \in groups
  <2>1. PICK r \in InWindow(a) : g = Group(r, r.day)
    BY DEF _sold_units
  <2>2. QED
    BY <1>1, <2>1, GroupOfSale
<1>4. Units(groups) \in Nat
  <2>1. Units(groups) = SumFunctionOnSet(u, groups)
    BY DEF Units, SumFunction
  <2>2. \A g \in groups : u[g] \in Nat
    BY <1>3
  <2> HIDE DEF u, groups
  <2>3. QED
    BY <1>2, <2>1, <2>2, SumOfNat
<1>5. QED
  BY <1>2, <1>3, <1>4 DEF Priceable

\* A claim is made of nothing, or of groups that all have their cost.
LEMMA PricedAs ==
    ASSUME NEW stock, NEW groups, NEW days, NEW requested,
           measure_restock(stock, groups, days, requested).blocked = "no"
    PROVE  \/ measure_restock(stock, groups, days, requested) = Priced(0, 0, days < requested)
           \/ /\ AtLeastZero(Units(groups) - AtLeastZero(stock)) # 0
              /\ \A g \in groups : g.cost # {}
              /\ measure_restock(stock, groups, days, requested)
                   = Priced(AtLeastZero(Units(groups) - AtLeastZero(stock)),
                            Attributable(groups, AtLeastZero(stock)), days < requested)
<1>1. \A why : Blocked(why).blocked = why
  BY DEF Blocked
<1> PICK m : m = measure_restock(stock, groups, days, requested)
  OBVIOUS
<1>2. /\ ~(days < MinMeasurableDays)
      /\ ~(\E g, h \in groups : g.currency # h.currency)
  BY <1>1 DEF measure_restock
<1>3. CASE AtLeastZero(Units(groups) - AtLeastZero(stock)) = 0
  BY <1>2, <1>3 DEF measure_restock
<1>4. CASE AtLeastZero(Units(groups) - AtLeastZero(stock)) # 0
  <2>1. ~(\E g \in groups : g.cost = {})
    BY <1>1, <1>2, <1>4 DEF measure_restock
  <2>2. ~(\E g \in groups : UnitCost(g).currency # g.currency)
    BY <1>1, <1>2, <1>4, <2>1 DEF measure_restock
  <2>3. QED
    BY <1>2, <1>4, <2>1, <2>2 DEF measure_restock
<1>5. QED
  BY <1>3, <1>4

LEMMA CentsAreWhole ==
    ASSUME NEW n \in Int
    PROVE  ToCents(n) \in Int
<1>1. Parts \in Nat \ {0} /\ -n \in Int
  BY RestockAssumption
<1>2. n \div Parts \in Int /\ (-n) \div Parts \in Int
  BY <1>1, Division
<1>3. QED
  BY <1>2 DEF ToCents

LEMMA LeftIsNat ==
    ASSUME NEW groups, Priceable(groups), NEW stock \in Nat, NEW m
    PROVE  Left(m, groups, stock) \in Nat
<1>1. At(m, groups) \in SUBSET groups /\ Above(m, groups) \in SUBSET groups
  BY DEF At, Above
<1>2. Units(At(m, groups)) \in Nat /\ Units(Above(m, groups)) \in Nat
  BY <1>1, UnitsOfSome
<1>3. Left(m, groups, stock)
        = AtLeastZero(Units(At(m, groups)) - AtLeastZero(stock - Units(Above(m, groups))))
  BY DEF Left, At, Above
<1>4. QED
  BY <1>2, <1>3 DEF AtLeastZero

LEMMA ClaimsAreWhole ==
    ASSUME NEW groups, Priceable(groups), NEW stock \in Nat
    PROVE  Attributable(groups, stock) \in Int
<1> DEFINE claim == [m \in Margins(groups) |-> m * Left(m, groups, stock)]
<1>1. IsFiniteSet(Margins(groups)) /\ \A m \in Margins(groups) : m \in Int
  BY MarginsAreFew
<1>2. \A m \in Margins(groups) : claim[m] \in Int
  BY <1>1, LeftIsNat, Regroups
<1>3. Attributable(groups, stock) = ToCents(SumFunctionOnSet(claim, Margins(groups)))
  BY DEF Attributable, SumFunction, Margins
<1> HIDE DEF claim
<1>4. QED
  BY <1>1, <1>2, <1>3, SumIsInt, CentsAreWhole

---------------------------------------------------------------------------
\* What is on record has its type and can be added up; no sale brought less than
\* nothing, and an action that was measured has its price.
Typed ==
    /\ TypeOK
    /\ IsFiniteSet(sales)
    /\ \A r \in sales : r.revenue \in Nat
    /\ \A i \in DOMAIN actions : actions[i].status = "measured" => actions[i].impact # Unpriced

Results == [blocked : {"no"}, units : Nat, margin : Int, provisional : BOOLEAN]

LEMMA PriceIsAResult ==
    ASSUME History, IsFiniteSet(sales), sales \subseteq Sales,
           NEW a, a.on_hand \in Int, Price(a).blocked = "no"
    PROVE  Price(a) \in Results /\ Price(a).provisional = FALSE
<1> DEFINE groups == _sold_units(a)
           stock == AtLeastZero(a.on_hand)
           beyond == AtLeastZero(Units(groups) - stock)
<1>1. stock \in Nat
  BY DEF AtLeastZero
<1>2. Units(groups) \in Nat /\ ((\A g \in groups : g.cost # {}) => Priceable(groups))
  BY GroupsOfWindow DEF History
<1>3. beyond \in Nat
  BY <1>1, <1>2 DEF AtLeastZero
<1> PICK early : early = (MeasurementDays < MeasurementDays)
  OBVIOUS
<1>4. early = FALSE
  <2>1. (MeasurementDays < MeasurementDays) = FALSE
    BY CommerceAssumption
  <2>2. QED
    BY <2>1, Zenon
<1>5. \/ Price(a) = Priced(0, 0, early)
      \/ /\ \A g \in groups : g.cost # {}
         /\ Price(a) = Priced(beyond, Attributable(groups, stock), early)
  BY <1>4, PricedAs DEF Price
<1> HIDE DEF groups, stock, beyond
<1>6. PICK margin \in Int, units \in Nat : Price(a) = Priced(units, margin, early)
  <2>1. CASE Price(a) = Priced(0, 0, early)
    BY <2>1
  <2>2. CASE /\ \A g \in groups : g.cost # {}
             /\ Price(a) = Priced(beyond, Attributable(groups, stock), early)
    <3>1. Attributable(groups, stock) \in Int
      BY <1>1, <1>2, <2>2, ClaimsAreWhole
    <3>2. QED
      BY <1>3, <2>2, <3>1
  <2>3. QED
    BY <1>5, <2>1, <2>2
<1>7. QED
  BY <1>4, <1>6 DEF Priced, Results

Scans == {Idle} \cup [phase : {"read"}, proposals : SUBSET Proposals, open_keys : SUBSET Keys]

LEMMA InitTyped == Init => Typed
<1> SUFFICES ASSUME Init
             PROVE  Typed
  OBVIOUS
<1>1. /\ today \in Days /\ onHand \in Stock /\ refunds \in [Days -> Nat]
      /\ sales = {} /\ costs = {} /\ overlapped = {} /\ DOMAIN actions = {}
  BY CommerceAssumption DEF Init, Days, Stock
<1>2. actions \in Seq(Actions)
  BY DEF Init
<1>3. scan \in [Scanners -> Scans]
  BY DEF Init, Scans
<1>4. IsFiniteSet(sales)
  BY <1>1, FS_EmptySet
<1>5. QED
  BY <1>1, <1>2, <1>3, <1>4 DEF Typed, TypeOK, Scans

\* The sales after an order.
LEMMA SellTyped ==
    ASSUME Typed, Reproduced, NEW order \in Orders, Sell(order)
    PROVE  Typed'
<1> DEFINE row == {r \in sales : r.variant = order.variant /\ r.day = today}
           sold == [r \in sales |-> [r EXCEPT !.sold = @ + 1, !.units = @ + order.units,
                                              !.revenue = @ + order.revenue]]
           first == [variant |-> order.variant, day |-> today, sold |-> 1,
                     units |-> order.units, revenue |-> order.revenue]
           new == IF row = {} THEN {first} ELSE {sold[r] : r \in row}
<1>1. /\ sales' = (sales \ row) \cup new /\ onHand' \in Stock
      /\ UNCHANGED <<today, refunds, costs, actions, scan, overlapped>>
  BY DEF Sell, Scanning
<1>2. sales' \subseteq Sales
  BY SoldToday
<1>3. order.revenue \in Nat
  BY CommerceAssumption
<1>4. \A r \in sales : r \in Sales /\ r.revenue \in Nat
  BY DEF Typed, TypeOK
<1>5. \A r \in row : sold[r].revenue = r.revenue + order.revenue
  BY <1>4 DEF Sales
<1>6. first.revenue \in Nat
  BY <1>3
<1>7. IsFiniteSet(row) /\ IsFiniteSet(sales \ row) /\ row \subseteq sales
  BY FS_Subset DEF Typed
<1> HIDE DEF row, sold, first
<1>8. IsFiniteSet(new) /\ \A r \in new : r.revenue \in Nat
  <2>1. CASE row = {}
    BY <1>6, <2>1, FS_Singleton
  <2>2. CASE row # {}
    <3>1. IsFiniteSet({sold[r] : r \in row})
      BY <1>7, FinitelyMany
    <3>2. \A r \in row : sold[r].revenue \in Nat
      BY <1>3, <1>4, <1>5, <1>7
    <3>3. QED
      BY <2>2, <3>1, <3>2
  <2>3. QED
    BY <2>1, <2>2
<1> HIDE DEF new
<1>9. IsFiniteSet(sales')
  BY <1>1, <1>7, <1>8, FS_Union
<1>10. \A r \in sales' : r.revenue \in Nat
  BY <1>1, <1>4, <1>8
<1>11. QED
  BY <1>1, <1>2, <1>9, <1>10 DEF Typed, TypeOK

\* What telling the actions of a change leaves of them.
LEMMA RestatedTyped ==
    ASSUME Typed, NEW from, NEW to, actions' = Restated(from, to)
    PROVE  /\ actions' \in Seq(Actions)
           /\ \A i \in DOMAIN actions' : actions'[i].status = "measured"
                                            => actions'[i].impact # Unpriced
<1>1. actions \in Seq(Actions) /\ DOMAIN actions = 1..Len(actions) /\ Len(actions) \in Nat
      /\ \A i \in DOMAIN actions : actions[i] \in Actions
  BY DEF Typed, TypeOK
<1>2. ASSUME NEW i \in DOMAIN actions
      PROVE  /\ actions'[i] \in Actions
             /\ actions'[i].status = actions[i].status /\ actions'[i].impact = actions[i].impact
  <2>1. actions[i] \in Actions
    BY <1>1
  <2>2. actions'[i] \in {actions[i], [actions[i] EXCEPT !.restated = TRUE]}
    BY DEF Restated
  <2>3. QED
    BY <2>1, <2>2 DEF Actions
<1>3. actions' \in [1..Len(actions) -> Actions]
  BY <1>1, <1>2 DEF Restated
<1>4. actions' \in Seq(Actions) /\ DOMAIN actions' = DOMAIN actions
  BY <1>1, <1>3, SeqDef
<1>5. QED
  BY <1>2, <1>4 DEF Typed

\* What a unit returned gives back is no more than it brought.
LEMMA MoneyBack ==
    ASSUME NEW revenue \in Nat, NEW units \in Nat \ {0}
    PROVE  revenue \div units \in Nat /\ revenue - revenue \div units \in Nat
<1> PICK money : money = revenue \div units
  OBVIOUS
<1>1. money \in Int /\ units * money <= revenue /\ revenue < units * money + units
  BY Division
<1>2. money \in Nat
  <2>1. SUFFICES ASSUME money < 0
                 PROVE  FALSE
    BY <1>1
  <2>2. money + 1 <= 0
    BY <1>1, <2>1
  <2>3. (money + 1) * units <= 0 * units
    BY <1>1, <2>2, TimesKeepsOrder
  <2>4. (money + 1) * units = units * money + units
    BY <1>1, SMT
  <2>5. QED
    BY <1>1, <2>3, <2>4
<1>3. money <= units * money
  BY <1>2, SMT
<1>4. units * money \in Int
  BY <1>1, SMT
<1>5. QED
  BY <1>1, <1>2, <1>3, <1>4

LEMMA RefundTyped ==
    ASSUME Typed, NEW r \in sales, Refund(r)
    PROVE  Typed'
<1> DEFINE money == r.revenue \div r.units
           kept == [r EXCEPT !.units = @ - 1, !.revenue = @ - money]
<1>1. /\ r.units > 0 /\ sales' = (sales \ {r}) \cup {kept}
      /\ refunds' = [refunds EXCEPT ![today] = @ + money]
      /\ actions' = Restated(r.day, r.day)
      /\ UNCHANGED <<today, onHand, costs, scan, overlapped>>
  BY DEF Refund, Scanning
<1>2. r \in Sales /\ r.revenue \in Nat /\ r.units \in Nat \ {0}
  BY <1>1 DEF Typed, TypeOK, Sales
<1>3. money \in Nat /\ r.revenue - money \in Nat /\ r.units - 1 \in Nat
  BY <1>2, MoneyBack
<1> HIDE DEF money
<1>4. kept \in Sales /\ kept.revenue \in Nat
  <2>1. r.revenue - money \in Int
    BY <1>3
  <2>2. kept \in Sales
    BY <1>2, <1>3, <2>1 DEF Sales
  <2>3. kept.revenue = r.revenue - money
    BY <1>2 DEF Sales
  <2> HIDE DEF kept
  <2>4. QED
    BY <1>3, <2>2, <2>3
<1> HIDE DEF kept
<1>5. sales \subseteq Sales /\ sales' \subseteq Sales /\ \A q \in sales' : q.revenue \in Nat
  BY <1>1, <1>4 DEF Typed, TypeOK
<1>6. IsFiniteSet(sales')
  <2>1. IsFiniteSet(sales \ {r})
    BY FS_Subset DEF Typed
  <2>2. QED
    BY <1>1, <2>1, FS_AddElement
<1>7. refunds' \in [Days -> Nat]
  BY <1>1, <1>3 DEF Typed, TypeOK
<1>8. QED
  BY <1>1, <1>5, <1>6, <1>7, RestatedTyped DEF Typed, TypeOK

LEMMA RecordCostTyped ==
    ASSUME Typed, Reproduced, NEW quote \in Quotes, NEW from \in Days, RecordCost(quote, from)
    PROVE  Typed'
<1>1. actions' = Restated(from, LastDay) /\ UNCHANGED <<today, sales, refunds, onHand, scan, overlapped>>
  BY DEF RecordCost, Shelf, Scanning
<1>2. costs' \subseteq Rows(Variants \cup {EveryVariant}, Days, Figures)
  <2>1. History'
    BY RecordCostIsSound DEF Reproduced
  <2>2. QED
    BY <2>1 DEF History, AllRows
<1>3. QED
  BY <1>1, <1>2, RestatedTyped DEF Typed, TypeOK

\* What a scan reads off the days and the shelf.
LEMMA ReadsTyped ==
    ASSUME onHand \in Stock, NEW series, NEW n
    PROVE  proposals_from_commerce(analyze(series), analyze_products({OnTheShelf}, n), Shop)
             \in SUBSET Proposals
<1>1. proposals_from_commerce(analyze(series), analyze_products({OnTheShelf}, n), Shop)
        \subseteq {Notice("COSTS_MISSING"), Notice("REFUNDS_HIGH"), Notice("SALES_STALLED"),
                   RestockOf(onHand)}
  BY ReadsOfTheShelf
<1>2. 0 \in Stock
  BY CommerceAssumption DEF Stock
<1>3. {Notice("COSTS_MISSING"), Notice("REFUNDS_HIGH"), Notice("SALES_STALLED"), RestockOf(onHand)}
        \subseteq Proposals
  BY <1>2 DEF Notice, RestockOf, Key, COMMERCE_ACTIONS, Keys, Shop, Product, Proposals
<1>4. QED
  BY <1>1, <1>3

LEMMA ReadTyped ==
    ASSUME Typed, NEW s \in Scanners, Read(s) \/ FailScan(s)
    PROVE  Typed'
<1>1. UNCHANGED <<today, sales, refunds, onHand, costs, actions, overlapped>>
  BY DEF Read, FailScan, Shelf
<1>2. PICK read \in Scans : scan' = [scan EXCEPT ![s] = read]
  <2>1. CASE Read(s)
    <3> DEFINE series == daily_series(StoredDays(ScannedSince), today)
    <3>1. PICK found :
            found = proposals_from_commerce(analyze(series),
                        analyze_products({OnTheShelf}, Cardinality(series)), Shop)
      OBVIOUS
    <3> PICK read : read = [phase |-> "read", open_keys |-> OpenKeys, proposals |-> found]
      OBVIOUS
    <3>2. scan' = [scan EXCEPT ![s] = read]
      BY <2>1, <3>1 DEF Read
    <3> HIDE DEF series
    <3>3. found \in SUBSET Proposals
      BY <3>1, ReadsTyped DEF Typed, TypeOK
    <3>4. OpenKeys \in SUBSET Keys
      <4>1. \A i \in DOMAIN actions : actions[i] \in Actions
        BY DEF Typed, TypeOK
      <4>2. QED
        BY <4>1 DEF OpenKeys, Actions
    <3>5. read \in Scans
      BY <3>3, <3>4 DEF Scans
    <3>6. QED
      BY <3>2, <3>5
  <2>2. CASE FailScan(s)
    BY <2>2 DEF FailScan, Scans
  <2>3. QED
    BY <2>1, <2>2
<1>3. scan' \in [Scanners -> Scans]
  BY <1>2 DEF Typed, TypeOK, Scans
<1>4. QED
  BY <1>1, <1>3 DEF Typed, TypeOK, Scans

LEMMA OpenTyped ==
    ASSUME Typed, Once, NEW s \in Scanners, Open(s)
    PROVE  Typed'
<1> DEFINE opened == {p \in scan[s].proposals : p.key \notin scan[s].open_keys}
           rows == {Proposed(p) : p \in opened}
<1>1. scan[s] \in Scans /\ scan[s] # Idle
  BY DEF Typed, TypeOK, Scans, Open
<1>2. IsFiniteSet(opened) /\ opened \subseteq Proposals
  <2>1. FewProposals(scan[s].proposals)
    BY DEF Open, Once
  <2>2. QED
    BY <1>1, <2>1, FewAreKeyed, FS_Subset DEF Scans
<1>3. /\ actions' = actions \o SetToSeq(rows)
      /\ scan' = [scan EXCEPT ![s] = Idle]
      /\ overlapped' \in {overlapped, overlapped \cup {p.key : p \in opened}}
      /\ UNCHANGED <<today, sales, refunds, onHand, costs>>
  BY DEF Open, Shelf
<1> HIDE DEF opened
<1>4. IsFiniteSet(rows)
  <2> DEFINE f == [p \in opened |-> Proposed(p)]
  <2>1. rows = {f[p] : p \in opened}
    OBVIOUS
  <2> HIDE DEF f, rows
  <2>2. QED
    BY <1>2, <2>1, FinitelyMany
<1>5. rows \subseteq Actions /\ \A a \in rows : a.status = "proposed"
  <2>1. ASSUME NEW p \in opened
        PROVE  Proposed(p) \in Actions /\ Proposed(p).status = "proposed"
    <3>1. p.key \in Keys /\ p.on_hand \in Stock
      BY <1>2 DEF Proposals
    <3>2. QED
      BY <3>1 DEF Proposed, Actions
  <2>2. QED
    BY <2>1
<1> PICK new : new = SetToSeq(rows)
  OBVIOUS
<1> HIDE DEF rows
<1>6. new \in Seq(rows) /\ new \in Seq(Actions)
  BY <1>4, <1>5, InSomeOrder, WiderSeq
<1>7. actions \in Seq(Actions) /\ overlapped \subseteq Keys
  BY DEF Typed, TypeOK
<1>8. actions' \in Seq(Actions)
  BY <1>3, <1>6, <1>7
<1>9. ASSUME NEW i \in DOMAIN actions', actions'[i].status = "measured"
      PROVE  actions'[i].impact # Unpriced
  <2>1. CASE i \in 1..Len(actions)
    <3>1. i \in DOMAIN actions /\ actions'[i] = actions[i]
      BY <1>3, <1>6, <1>7, <2>1
    <3>2. QED
      BY <1>9, <3>1 DEF Typed
  <2>2. CASE i \notin 1..Len(actions)
    <3>1. i - Len(actions) \in 1..Len(new) /\ actions'[i] = new[i - Len(actions)]
      BY <1>3, <1>6, <1>7, <2>2
    <3>2. actions'[i] \in rows
      BY <1>6, <3>1
    <3>3. QED
      BY <1>5, <1>9, <3>2
  <2>3. QED
    BY <2>1, <2>2
<1>10. scan' \in [Scanners -> Scans]
  BY <1>3 DEF Typed, TypeOK, Scans
<1>11. overlapped' \subseteq Keys
  BY <1>2, <1>3, <1>7 DEF Proposals
<1>12. QED
  BY <1>3, <1>8, <1>9, <1>10, <1>11 DEF Typed, TypeOK, Scans

LEMMA DecidedTyped ==
    ASSUME Typed, Reproduced, NEW i \in DOMAIN actions, Dismiss(i) \/ Confirm(i) \/ Measure(i)
    PROVE  Typed'
<1> PICK a : a = actions[i]
  OBVIOUS
<1>1. actions \in Seq(Actions) /\ a \in Actions /\ today \in Days
  BY DEF Typed, TypeOK
<1>2. UNCHANGED <<today, sales, refunds, onHand, costs, scan, overlapped>>
  BY DEF Dismiss, Confirm, Measure, Shelf, Scanning
<1>3. PICK b : /\ actions' = [actions EXCEPT ![i] = b]
               /\ \/ b = [a EXCEPT !.status = "dismissed"]
                  \/ b = [a EXCEPT !.status = "applied", !.applied = today]
                  \/ /\ b = [a EXCEPT !.status = "measured", !.impact = Price(a)]
                     /\ Price(a).blocked = "no"
  BY DEF Dismiss, Confirm, Measure
<1>4. b \in Actions /\ (b.status = "measured" => b.impact # Unpriced)
  <2>1. CASE b = [a EXCEPT !.status = "dismissed"]
    BY <1>1, <2>1 DEF Actions
  <2>2. CASE b = [a EXCEPT !.status = "applied", !.applied = today]
    BY <1>1, <2>2 DEF Actions
  <2>3. CASE /\ b = [a EXCEPT !.status = "measured", !.impact = Price(a)]
             /\ Price(a).blocked = "no"
    <3> PICK price : price = Price(a)
      OBVIOUS
    <3>1. a.on_hand \in Int
      BY <1>1, CommerceAssumption DEF Actions, Stock
    <3>2. price \in Results
      BY <2>3, <3>1, PriceIsAResult DEF Reproduced, Typed
    <3>3. b = [a EXCEPT !.status = "measured", !.impact = price]
      BY <2>3
    <3>4. price # Unpriced
      BY <3>2 DEF Results, Unpriced
    <3>5. b \in Actions /\ b.impact = price
      BY <1>1, <3>2, <3>3 DEF Actions, Results
    <3>6. QED
      BY <3>4, <3>5
  <2>4. QED
    BY <1>3, <2>1, <2>2, <2>3
<1>5. actions' \in Seq(Actions)
  BY <1>1, <1>3, <1>4
<1>6. \A j \in DOMAIN actions' : /\ j \in DOMAIN actions
                                 /\ actions'[j] = IF j = i THEN b ELSE actions[j]
  BY <1>1, <1>3
<1>7. \A j \in DOMAIN actions' : actions'[j].status = "measured" => actions'[j].impact # Unpriced
  BY <1>4, <1>6 DEF Typed
<1>8. QED
  BY <1>2, <1>5, <1>7 DEF Typed, TypeOK

LEMMA StepTyped == Typed /\ Reproduced /\ [Next]_vars => Typed'
<1> SUFFICES ASSUME Typed, Reproduced, [Next]_vars
             PROVE  Typed'
  OBVIOUS
<1>1. CASE Tomorrow
  <2>1. today' \in Days
    BY <1>1, CommerceAssumption DEF Tomorrow, Days, Typed, TypeOK
  <2>2. QED
    BY <1>1, <2>1 DEF Tomorrow, Scanning, Typed, TypeOK
<1>2. CASE \E order \in Orders : Sell(order)
  BY <1>2, SellTyped
<1>3. CASE \E r \in sales : Refund(r)
  BY <1>3, RefundTyped
<1>4. CASE Refill
  <2>1. onHand' \in Stock
    BY <1>4, CommerceAssumption DEF Refill, Stock
  <2>2. QED
    BY <1>4, <2>1 DEF Refill, Scanning, Typed, TypeOK
<1>5. CASE \E quote \in Quotes, from \in Days : RecordCost(quote, from)
  BY <1>5, RecordCostTyped
<1>6. CASE \E s \in Scanners : Read(s) \/ FailScan(s)
  BY <1>6, ReadTyped
<1>7. CASE \E s \in Scanners : Open(s)
  BY <1>7, OpenTyped DEF Reproduced
<1>8. CASE \E i \in DOMAIN actions : Dismiss(i) \/ Confirm(i) \/ Measure(i)
  BY <1>8, DecidedTyped
<1>9. CASE UNCHANGED vars
  BY <1>9 DEF vars, Typed, TypeOK
<1>10. QED
  BY <1>1, <1>2, <1>3, <1>4, <1>5, <1>6, <1>7, <1>8, <1>9 DEF Next

\* Both at once, for the properties that need them.
LEMMA AlwaysSound == Spec => [](Reproduced /\ Typed)
<1>1. Init => Reproduced /\ Typed
  BY InitReproduced, InitTyped
<1>2. (Reproduced /\ Typed) /\ [Next]_vars => (Reproduced /\ Typed)'
  BY StepReproduced, StepTyped
<1>3. QED
  BY <1>1, <1>2, PTL DEF Spec

\* Every row a scan, a sale, a cost, a decision or a price leaves has the type
\* its table gives it, whatever is sold, returned and recorded.
THEOREM TypeCorrect == Spec => []TypeOK
<1>1. Typed => TypeOK
  BY DEF Typed
<1>2. QED
  BY <1>1, AlwaysSound, PTL

\* actions_engine.measure_restock: "what is claimed is the cheapest explanation
\* of the same sales".
THEOREM NoChoiceClaimsLess == Spec => []CheapestExplanation
<1>1. Reproduced /\ Typed => CheapestExplanation
  <2> SUFFICES ASSUME Reproduced, Typed, NEW a \in Claims, Price(a).units > 0,
                      NEW covered \in Coverings(_sold_units(a), a.on_hand)
               PROVE  Price(a).margin <= ClaimIf(covered, _sold_units(a))
    BY DEF CheapestExplanation
  <2> DEFINE groups == _sold_units(a)
             stock == AtLeastZero(a.on_hand)
  <2>1. a.on_hand \in Int /\ Price(a).blocked = "no"
    <3>1. PICK i \in DOMAIN actions : a = actions[i]
      BY DEF Claims, Range
    <3>2. a \in Actions
      BY <3>1 DEF Typed, TypeOK
    <3>3. QED
      BY <3>2, CommerceAssumption DEF Actions, Stock, Claims
  <2>2. stock \in Nat
    BY <2>1 DEF AtLeastZero
  <2>3. Units(groups) \in Nat /\ ((\A g \in groups : g.cost # {}) => Priceable(groups))
    BY GroupsOfWindow DEF Reproduced, History, Typed
  <2>4. /\ AtLeastZero(Units(groups) - stock) # 0
        /\ \A g \in groups : g.cost # {}
        /\ Price(a).margin = Attributable(groups, stock)
    <3> PICK early : early = (MeasurementDays < MeasurementDays)
      OBVIOUS
    <3>1. \/ Price(a) = Priced(0, 0, early)
          \/ /\ AtLeastZero(Units(groups) - stock) # 0
             /\ \A g \in groups : g.cost # {}
             /\ Price(a) = Priced(AtLeastZero(Units(groups) - stock), Attributable(groups, stock), early)
      BY <2>1, PricedAs DEF Price
    <3> HIDE DEF groups, stock
    <3>2. \A units, margin : Priced(units, margin, early).units = units
                             /\ Priced(units, margin, early).margin = margin
      BY DEF Priced
    <3>3. QED
      BY <3>1, <3>2
  <2>5. Priceable(groups) /\ stock < Units(groups)
    BY <2>2, <2>3, <2>4 DEF AtLeastZero
  <2>6. /\ covered \in [groups -> Nat] /\ \A g \in groups : covered[g] <= g.units
        /\ SumFunctionOnSet(covered, groups) = stock
    <3>1. covered \in [groups -> 0..stock] /\ SumFunction(covered) = stock
      BY DEF Coverings
    <3>2. SumFunction(covered) = SumFunctionOnSet(covered, groups)
      BY <3>1 DEF SumFunction
    <3>3. \A g \in groups : covered[g] <= g.units
      BY DEF Coverings
    <3>4. covered \in [groups -> Nat]
      BY <2>2, <3>1
    <3>5. QED
      BY <3>1, <3>2, <3>3, <3>4
  <2> HIDE DEF groups, stock
  <2>7. Attributable(groups, stock) <= ClaimIf(covered, groups)
    BY <2>2, <2>5, <2>6, NoCoverIsCheaper
  <2>8. QED
    BY <2>4, <2>7 DEF groups
<1>2. QED
  BY <1>1, AlwaysSound, PTL

---------------------------------------------------------------------------
(* The payroll and the dashboard.                                          *)

\* What a group brought beyond what it cost.
Gain(g) == g.revenue - g.units * UnitCost(g).amount

LEMMA TimesMinus ==
    ASSUME NEW a \in Int, NEW b \in Int, NEW c \in Int
    PROVE  a * (b - c) = a * b - a * c /\ a * b \in Int /\ a * c \in Int
BY SMT

LEMMA TimesSwap ==
    ASSUME NEW a \in Int, NEW b \in Int, NEW c \in Int
    PROVE  a * (b * c) = b * (a * c) /\ a * (b * c) \in Int
BY SMT

\* The margins of a group's units are what it gained, or less by rounding.
LEMMA MarginsWithinGain ==
    ASSUME NEW g, g.units \in Nat \ {0}, g.revenue \in Int, UnitCost(g).amount \in Nat
    PROVE  /\ UnitMargin(g) \in Int /\ g.units * UnitMargin(g) \in Int
           /\ Gain(g) \in Int /\ Parts * Gain(g) \in Int
           /\ g.units * UnitMargin(g) <= Parts * Gain(g)
           /\ 0 <= UnitMargin(g) => 0 <= Gain(g)
<1> PICK u, rev, amount, p : u = g.units /\ rev = g.revenue /\ amount = UnitCost(g).amount /\ p = Parts
  OBVIOUS
<1> PICK q : q = (p * rev) \div u
  OBVIOUS
<1> PICK m, gain : m = UnitMargin(g) /\ gain = Gain(g)
  OBVIOUS
<1>1. u \in Nat \ {0} /\ rev \in Int /\ amount \in Nat /\ p \in Nat \ {0}
  BY RestockAssumption
<1>2. p * rev \in Int /\ p * amount \in Int /\ u * amount \in Int
  BY <1>1, SMT
<1>3. q \in Int /\ u * q <= p * rev
  BY <1>1, <1>2, Division
<1>4. m = q - p * amount /\ gain = rev - u * amount
  BY DEF UnitMargin, Gain
<1>5. m \in Int /\ gain \in Int
  BY <1>1, <1>2, <1>3, <1>4
<1>6. u * m = u * q - u * (p * amount) /\ u * q \in Int /\ u * (p * amount) \in Int
  BY <1>1, <1>2, <1>3, <1>4, TimesMinus
<1>7. p * gain = p * rev - p * (u * amount)
  BY <1>1, <1>2, <1>4, TimesMinus
<1>8. u * (p * amount) = p * (u * amount)
  BY <1>1, TimesSwap
<1>9. u * m <= p * gain /\ u * m \in Int /\ p * gain \in Int
  BY <1>2, <1>3, <1>6, <1>7, <1>8
<1>10. ASSUME 0 <= m PROVE 0 <= gain
  <2>1. SUFFICES ASSUME gain <= -1
                 PROVE  FALSE
    BY <1>5
  <2>2. gain * p <= (-1) * p
    BY <1>1, <1>5, <2>1, TimesKeepsOrder
  <2>3. gain * p = p * gain /\ (-1) * p = -p
    BY <1>1, <1>5, SMT
  <2>4. 0 * u <= m * u
    BY <1>1, <1>5, <1>10, TimesKeepsOrder
  <2>5. 0 * u = 0 /\ m * u = u * m
    BY <1>1, <1>5, SMT
  <2>6. QED
    BY <1>1, <1>9, <2>2, <2>3, <2>4, <2>5
<1>11. QED
  BY <1>5, <1>9, <1>10

LEMMA WholeCents ==
    ASSUME NEW n \in Nat
    PROVE  ToCents(Parts * n) = n
<1> PICK p : p = Parts
  OBVIOUS
<1>1. p \in Nat \ {0}
  BY RestockAssumption
<1>2. p * n \in Nat
  BY <1>1, SMT
<1>3. (p * n) \div p = n
  BY <1>1, SMT
<1>4. QED
  BY <1>2, <1>3 DEF ToCents

\* Some groups sold at no loss: their claim is no more than their gain.
Gainful(groups) ==
    /\ IsFiniteSet(groups)
    /\ \A g \in groups : /\ g.units \in Nat \ {0} /\ g.revenue \in Int
                         /\ UnitCost(g).amount \in Nat /\ UnitMargin(g) >= 0

LEMMA ClaimWithinGain ==
    ASSUME NEW groups, Gainful(groups), NEW stock \in Nat
    PROVE  /\ \A g \in groups : Gain(g) \in Nat
           /\ SumFunctionOnSet([g \in groups |-> Gain(g)], groups) \in Nat
           /\ Attributable(groups, stock) <= SumFunctionOnSet([g \in groups |-> Gain(g)], groups)
<1> DEFINE margins == Margins(groups)
           claim == [m \in margins |-> m * Left(m, groups, stock)]
           all == [m \in margins |-> m * Units(At(m, groups))]
           worth == [g \in groups |-> g.units * UnitMargin(g)]
           parts == [g \in groups |-> Parts * Gain(g)]
           gain == [g \in groups |-> Gain(g)]
           u == [g \in groups |-> g.units]
<1>1. /\ IsFiniteSet(groups)
      /\ \A g \in groups : /\ g.units \in Nat /\ UnitMargin(g) \in Int /\ 0 <= UnitMargin(g)
                           /\ g.units * UnitMargin(g) \in Int
                           /\ Gain(g) \in Nat /\ Parts * Gain(g) \in Int
                           /\ g.units * UnitMargin(g) <= Parts * Gain(g)
  BY MarginsWithinGain DEF Gainful
<1>2. Priceable(groups)
  BY <1>1 DEF Priceable
<1>3. IsFiniteSet(margins) /\ \A m \in margins : m \in Nat
  <2>1. \A m \in margins : m \in Int /\ 0 <= m
    BY <1>1 DEF Margins
  <2>2. QED
    BY <1>2, <2>1, MarginsAreFew
<1>4. ASSUME NEW m \in margins
      PROVE  /\ claim[m] \in Int /\ all[m] \in Int /\ claim[m] <= all[m]
             /\ all[m] = SumFunctionOnSet(worth, At(m, groups))
  <2>1. At(m, groups) \in SUBSET groups /\ IsFiniteSet(At(m, groups))
    BY <1>1, FS_Subset DEF At
  <2>2. Units(At(m, groups)) \in Nat /\ Units(At(m, groups)) = SumFunctionOnSet(u, At(m, groups))
    BY <1>2, <2>1, UnitsOfSome
  <2>3. Left(m, groups, stock) \in Nat
    BY <1>2, LeftIsNat
  <2>4. Left(m, groups, stock) <= Units(At(m, groups))
    <3> PICK few : few = AtLeastZero(stock - Units(Above(m, groups)))
      OBVIOUS
    <3>1. Left(m, groups, stock) = AtLeastZero(Units(At(m, groups)) - few)
      BY DEF Left, At, Above
    <3>2. Units(Above(m, groups)) \in Nat
      <4>1. Above(m, groups) \in SUBSET groups
        BY DEF Above
      <4>2. QED
        BY <1>2, <4>1, UnitsOfSome
    <3>3. few \in Nat
      BY <3>2 DEF AtLeastZero
    <3>4. QED
      BY <2>2, <3>1, <3>3 DEF AtLeastZero
  <2>5. claim[m] \in Int /\ all[m] \in Int /\ claim[m] <= all[m]
    <3> PICK l, n : l = Left(m, groups, stock) /\ n = Units(At(m, groups))
      OBVIOUS
    <3>1. claim[m] = m * l /\ all[m] = m * n /\ m \in Nat /\ l \in Nat /\ n \in Nat /\ l <= n
      BY <1>3, <2>2, <2>3, <2>4
    <3> HIDE DEF claim, all
    <3>2. l * m <= n * m /\ l * m \in Int /\ n * m \in Int
      BY <3>1, TimesKeepsOrder
    <3>3. l * m = m * l /\ n * m = m * n
      BY <3>1, SMT
    <3>4. QED
      BY <3>1, <3>2, <3>3
  <2>6. all[m] = SumFunctionOnSet(worth, At(m, groups))
    <3>1. \A g \in At(m, groups) : u[g] \in Int /\ worth[g] = m * u[g]
      <4>1. \A g \in At(m, groups) : worth[g] = g.units * m /\ u[g] = g.units /\ g.units \in Int
        BY <1>1 DEF At
      <4>2. m \in Int
        BY <1>3
      <4> HIDE DEF worth, u
      <4>3. QED
        BY ZenonT(120), <4>1, <4>2, Regroups
    <3>2. all[m] = m * SumFunctionOnSet(u, At(m, groups)) /\ m \in Int
      BY <1>3, <2>2
    <3> HIDE DEF worth, u, all
    <3>3. QED
      BY <2>1, <3>1, <3>2, SumOfTimes
  <2>7. QED
    BY <2>5, <2>6
<1>5. \A g \in groups : /\ worth[g] \in Int /\ parts[g] \in Int /\ worth[g] <= parts[g]
                        /\ gain[g] \in Nat /\ parts[g] = Parts * gain[g]
  BY <1>1
<1>6. Attributable(groups, stock) = ToCents(SumFunctionOnSet(claim, margins))
  BY DEF Attributable, SumFunction, Margins
<1> HIDE DEF claim, all, worth, parts
<1>7. /\ SumFunctionOnSet(claim, margins) <= SumFunctionOnSet(all, margins)
      /\ SumFunctionOnSet(claim, margins) \in Int /\ SumFunctionOnSet(all, margins) \in Int
  BY <1>3, <1>4, SumKeepsOrder, SumIsInt
<1>8. SumFunctionOnSet(all, margins) = SumFunctionOnSet(worth, groups)
  BY <1>2, <1>4, <1>5, ByMargin
<1>9. SumFunctionOnSet(worth, groups) <= SumFunctionOnSet(parts, groups)
      /\ SumFunctionOnSet(parts, groups) \in Int
  BY <1>1, <1>5, SumKeepsOrder, SumIsInt
<1>10. \A g \in groups : Gain(g) \in Nat
  BY <1>1
<1> HIDE DEF gain
<1>11. SumFunctionOnSet(gain, groups) \in Nat
  BY <1>1, <1>5, SumOfNat
<1>12. SumFunctionOnSet(parts, groups) = Parts * SumFunctionOnSet(gain, groups)
  <2>1. Parts \in Int
    BY RestockAssumption
  <2>2. \A g \in groups : gain[g] \in Int /\ parts[g] = Parts * gain[g]
    BY <1>5
  <2>3. QED
    BY <1>1, <2>1, <2>2, SumOfTimes
<1>13. SumFunctionOnSet(claim, margins) <= SumFunctionOnSet(parts, groups)
  BY <1>7, <1>8, <1>9
<1>14. Attributable(groups, stock) <= ToCents(SumFunctionOnSet(parts, groups))
  BY <1>6, <1>7, <1>9, <1>13, RoundingKeepsOrder
<1>15. Attributable(groups, stock) <= SumFunctionOnSet(gain, groups)
  BY <1>11, <1>12, <1>14, WholeCents
<1>16. QED
  BY <1>10, <1>11, <1>15 DEF gain

LEMMA OneOfSum ==
    ASSUME NEW S, IsFiniteSet(S), NEW f, \A x \in S : f[x] \in Nat, NEW x \in S
    PROVE  f[x] <= SumFunctionOnSet(f, S)
<1>1. SumFunctionOnSet(f, S) = f[x] + SumFunctionOnSet(f, S \ {x})
  BY SumTakes
<1>2. SumFunctionOnSet(f, S \ {x}) \in Nat
  BY FS_Subset, SumOfNat
<1>3. QED
  BY <1>1, <1>2

\* The groups a dashboard adds up, and the days it takes its revenue from.
Shown(since) == {Group(r, r.day) : r \in {r \in sales : r.day >= since /\ r.units > 0}}
SalesOf(d) == {r \in sales : r.day = d}
Metric(d) ==
    [date |-> d, revenue |-> Revenue(SalesOf(d)), refunds |-> refunds[d],
     orders |-> Total(LAMBDA r : r.sold, SalesOf(d)), costs_complete |-> FALSE]
DaysShown(since) == {d \in 0..today : d >= since /\ (SalesOf(d) # {} \/ refunds[d] > 0)}

LEMMA MetricsByDay ==
    ASSUME NEW since
    PROVE  StoredDays(since) = {Metric(d) : d \in DaysShown(since)}
BY DEF StoredDays, Metric, DaysShown, SalesOf

\* The revenue of a shop's days holds that of every group shown.
LEMMA RevenueHoldsGroups ==
    ASSUME Reproduced, Typed, NEW since \in Int
    PROVE  /\ IsFiniteSet(Shown(since))
           /\ \A g \in Shown(since) : g.revenue \in Nat
           /\ SumFunctionOnSet([g \in Shown(since) |-> g.revenue], Shown(since))
                <= Total(LAMBDA m : m.revenue, StoredDays(since))
           /\ Total(LAMBDA m : m.revenue, StoredDays(since)) \in Int
<1> DEFINE rev == [r \in sales |-> r.revenue]
           rows == {r \in sales : r.day >= since /\ r.units > 0}
           group == [r \in sales |-> Group(r, r.day)]
           costed == Shown(since)
           same == [g \in costed |-> {r \in rows : Group(r, r.day) = g}]
           brought == [g \in costed |-> SumFunctionOnSet(rev, same[g])]
           grev == [g \in costed |-> g.revenue]
           metrics == StoredDays(since)
           metric == [d \in DaysShown(since) |-> Metric(d)]
           kept == [m \in metrics |-> SalesOf(m.date)]
           mrev == [m \in metrics |-> m.revenue]
<1>1. /\ IsFiniteSet(sales) /\ sales \subseteq Sales /\ rows \subseteq sales /\ today \in Nat
      /\ \A r \in sales : rev[r] \in Nat /\ r.day \in Nat /\ r.day <= today
  BY DEF Reproduced, Typed, Days, Sales
<1>2. \A r \in rows : Group(r, r.day).revenue = r.revenue
  BY DEF Group
<1>3. IsFiniteSet(rows) /\ IsFiniteSet(costed)
  <2>1. IsFiniteSet(rows)
    BY <1>1, FS_Subset
  <2>2. costed = {group[r] : r \in rows}
    BY DEF Shown
  <2> HIDE DEF rows, costed, group
  <2>3. QED
    BY <2>1, <2>2, FinitelyMany
<1>4. \A g \in costed : g.revenue \in Nat /\ \E r \in rows : g = Group(r, r.day) /\ g.revenue = rev[r]
  BY <1>1, <1>2 DEF Shown
<1>5. \A g \in costed : same[g] \subseteq rows /\ IsFiniteSet(same[g])
  BY <1>3, FS_Subset
<1>6. \A g \in costed : \A h \in costed : g # h => same[g] \cap same[h] = {}
  OBVIOUS
<1>7. ASSUME NEW g \in costed
      PROVE  grev[g] \in Int /\ brought[g] \in Int /\ grev[g] <= brought[g]
  <2>1. PICK r \in rows : g = Group(r, r.day) /\ g.revenue = rev[r]
    BY <1>4
  <2>2. r \in same[g] /\ brought[g] = SumFunctionOnSet(rev, same[g]) /\ grev[g] = rev[r]
    BY <2>1
  <2>3. \A q \in same[g] : rev[q] \in Nat
    BY <1>1, <1>5
  <2> HIDE DEF same, brought, grev, rev
  <2>4. rev[r] <= SumFunctionOnSet(rev, same[g]) /\ SumFunctionOnSet(rev, same[g]) \in Nat
    BY <1>5, <2>2, <2>3, OneOfSum, SumOfNat
  <2>5. QED
    BY <2>2, <2>3, <2>4
<1>8. UNION {same[g] : g \in costed} \subseteq rows
  BY <1>5
<1>9. SumFunctionOnSet(brought, costed) = SumFunctionOnSet(rev, UNION {same[g] : g \in costed})
  <2>1. \A g \in costed : brought[g] = SumFunctionOnSet(rev, same[g])
    OBVIOUS
  <2>2. \A r \in rows : rev[r] \in Int
    BY <1>1
  <2> HIDE DEF same, brought, rev, rows, costed
  <2>3. QED
    BY <1>3, <1>5, <1>6, <2>1, <2>2, SumByParts
<1>10. metrics = {metric[d] : d \in DaysShown(since)}
  BY MetricsByDay
<1>11. IsFiniteSet(metrics)
  <2>1. IsFiniteSet(0..today)
    BY <1>1, FS_Interval
  <2>2. IsFiniteSet(DaysShown(since))
    BY <2>1, FS_Subset DEF DaysShown
  <2> HIDE DEF metrics, metric
  <2>3. QED
    BY <1>10, <2>2, FinitelyMany
<1>12. \A m \in metrics : m = Metric(m.date) /\ m.revenue = Revenue(SalesOf(m.date))
  BY <1>10 DEF Metric
<1>13. \A m \in metrics : \A n \in metrics : m # n => kept[m] \cap kept[n] = {}
  BY <1>12 DEF SalesOf
<1>14. \A m \in metrics : kept[m] \subseteq sales
  BY DEF SalesOf
<1>15. ASSUME NEW m \in metrics
       PROVE  mrev[m] = SumFunctionOnSet(rev, kept[m])
  <2> DEFINE part == [r \in kept[m] |-> r.revenue]
  <2>1. mrev[m] = SumFunctionOnSet(part, kept[m])
    BY <1>12 DEF Revenue, SumFunction
  <2>2. IsFiniteSet(kept[m]) /\ \A r \in kept[m] : part[r] \in Int /\ part[r] = rev[r]
    BY <1>1, <1>14, FS_Subset
  <2> HIDE DEF kept, rev, part, mrev
  <2>3. QED
    BY <2>1, <2>2, SumOfSame
<1>16. rows \subseteq UNION {kept[m] : m \in metrics}
  <2> SUFFICES ASSUME NEW r \in rows
               PROVE  \E m \in metrics : r \in kept[m]
    OBVIOUS
  <2>1. r.day \in DaysShown(since) /\ r \in SalesOf(r.day)
    BY <1>1 DEF DaysShown, SalesOf
  <2>2. Metric(r.day) \in metrics /\ Metric(r.day).date = r.day
    BY <2>1, <1>10 DEF Metric
  <2>3. QED
    BY <2>1, <2>2
<1>17. UNION {kept[m] : m \in metrics} \subseteq sales
  BY <1>14
<1>18. Total(LAMBDA m : m.revenue, metrics) = SumFunctionOnSet(mrev, metrics)
  BY DEF Total, SumFunction
<1> HIDE DEF rev, rows, group, costed, same, brought, grev, metrics, metric, kept, mrev
<1>19. SumFunctionOnSet(mrev, metrics) = SumFunctionOnSet(rev, UNION {kept[m] : m \in metrics})
  <2>1. \A r \in sales : rev[r] \in Int
    BY <1>1
  <2>2. QED
    BY <1>1, <1>11, <1>13, <1>14, <1>15, <2>1, SumByParts
<1> PICK few : few = UNION {same[g] : g \in costed}
  OBVIOUS
<1> PICK many : many = UNION {kept[m] : m \in metrics}
  OBVIOUS
<1>20. SumFunctionOnSet(rev, few) <= SumFunctionOnSet(rev, many)
       /\ SumFunctionOnSet(rev, few) \in Nat /\ SumFunctionOnSet(rev, many) \in Nat
  <2>1. few \in SUBSET many /\ few \in SUBSET sales /\ many \in SUBSET sales
    BY <1>1, <1>8, <1>16, <1>17
  <2>2. IsFiniteSet(many) /\ IsFiniteSet(few)
    BY <1>1, <2>1, FS_Subset
  <2>3. (\A r \in many : rev[r] \in Nat) /\ \A r \in few : rev[r] \in Nat
    BY <1>1, <2>1
  <2>4. QED
    BY <2>1, <2>2, <2>3, SumOfPart, SumOfNat
<1>21. SumFunctionOnSet(grev, costed) <= SumFunctionOnSet(brought, costed)
       /\ SumFunctionOnSet(grev, costed) \in Int
  BY <1>3, <1>7, SumKeepsOrder, SumIsInt
<1>22. /\ SumFunctionOnSet(grev, costed) <= Total(LAMBDA m : m.revenue, metrics)
       /\ Total(LAMBDA m : m.revenue, metrics) \in Int
  BY <1>9, <1>18, <1>19, <1>20, <1>21
<1>23. QED
  BY <1>3, <1>4, <1>22 DEF costed, grev, metrics

\* What the payroll has settled is what the counted actions brought.
LEMMA SettledIsCounted ==
    ASSUME Typed
    PROVE  operator_payroll.settled
             = SumFunctionOnSet([i \in Counted |-> actions[i].impact.margin], Counted)
<1> DEFINE rows == [i \in DOMAIN actions |->
                      [actions[i] EXCEPT !.impact = IF IsReal(actions[i]) THEN @ ELSE Unpriced]]
           priced == {i \in DOMAIN rows : rows[i].status = "measured" /\ rows[i].impact # Unpriced}
           final == {i \in priced : ~rows[i].impact.provisional}
<1>1. operator_payroll.settled
        = SumFunctionOnSet([i \in final |-> rows[i].impact.margin], final)
  BY DEF operator_payroll, build_payroll, SumFunction
<1>2. ASSUME NEW i \in DOMAIN actions
      PROVE  /\ rows[i].status = actions[i].status
             /\ IsReal(actions[i]) => rows[i].impact = actions[i].impact
             /\ ~IsReal(actions[i]) => rows[i].impact = Unpriced
  <2>1. actions[i] \in Actions
    BY DEF Typed, TypeOK
  <2>2. QED
    BY <2>1 DEF Actions
<1>3. ASSUME NEW i \in DOMAIN actions
      PROVE  IsReal(actions[i]) => /\ actions[i].status = "measured"
                                   /\ actions[i].impact # Unpriced
                                   /\ ~actions[i].impact.provisional
  BY DEF IsReal, evidence_for, Typed
<1>4. final = Counted
  <2>1. DOMAIN rows = DOMAIN actions
    OBVIOUS
  <2> HIDE DEF rows
  <2>2. QED
    BY <1>2, <1>3, <2>1 DEF Counted
<1>5. \A i \in Counted : rows[i].impact.margin = actions[i].impact.margin
  BY <1>2 DEF Counted
<1> HIDE DEF rows, final
<1>6. [i \in final |-> rows[i].impact.margin] = [i \in Counted |-> actions[i].impact.margin]
  BY <1>4, <1>5
<1>7. QED
  BY <1>1, <1>4, <1>6

\* What a counted action claims is no more than its window gained, when every
\* group shown has its cost and none was sold at a loss.
LEMMA CountedWithinGain ==
    ASSUME Reproduced, Typed, NEW i \in Counted, ~actions[i].restated, NEW since \in Int,
           OpensOn(actions[i]) >= since,
           \A g \in Shown(since) : g.cost # {} /\ UnitMargin(g) >= 0
    PROVE  /\ _sold_units(actions[i]) \subseteq Shown(since)
           /\ actions[i].impact.margin \in Int
           /\ actions[i].impact.margin
                <= SumFunctionOnSet([g \in _sold_units(actions[i]) |-> Gain(g)], _sold_units(actions[i]))
<1> PICK a : a = actions[i]
  OBVIOUS
<1> DEFINE groups == _sold_units(a)
           stock == AtLeastZero(a.on_hand)
<1>1. a \in Actions /\ a.status = "measured" /\ i \in DOMAIN actions
  BY DEF Counted, IsReal, Typed, TypeOK
<1>2. a.impact = Price(a) /\ a.applied \in Days
  BY <1>1 DEF Reproduced, Reproducible
<1>3. a.impact \in Results
  BY <1>1 DEF Typed, Actions, Results
<1>4. Price(a).blocked = "no" /\ a.impact.margin \in Int /\ a.on_hand \in Int
  <2>1. a.on_hand \in Stock
    BY <1>1 DEF Actions
  <2>2. a.on_hand \in Int
    BY <2>1, CommerceAssumption DEF Stock
  <2>3. QED
    BY <1>2, <1>3, <2>2 DEF Results
<1>5. costs \subseteq AllRows /\ sales \subseteq Sales /\ IsFiniteSet(sales)
  BY DEF Reproduced, History, Typed
<1>6. groups \subseteq Shown(since)
  <2> SUFFICES ASSUME NEW r \in InWindow(a)
               PROVE  r.day >= since /\ r.units > 0 /\ r \in sales
    BY DEF _sold_units, Shown
  <2>1. r \in sales /\ r.units > 0 /\ r.day \in OpensOn(a)..ClosesOn(a) /\ OpensOn(a) \in Int
    BY <1>2 DEF InWindow, Window, OpensOn, Days
  <2>2. QED
    BY <2>1
<1>7. Gainful(groups)
  <2>1. IsFiniteSet(groups)
    BY <1>5, GroupsOfWindow
  <2>2. ASSUME NEW g \in groups
        PROVE  /\ g.units \in Nat \ {0} /\ g.revenue \in Int
               /\ UnitCost(g).amount \in Nat /\ UnitMargin(g) >= 0
    <3>1. PICK r \in InWindow(a) : g = Group(r, r.day)
      BY DEF _sold_units
    <3>2. r \in Sales /\ r.units > 0
      BY <1>5 DEF InWindow
    <3>3. g.cost # {} /\ UnitMargin(g) >= 0
      BY <1>6
    <3>4. QED
      BY <1>5, <3>1, <3>2, <3>3, GroupOfSale
  <2>3. QED
    BY <2>1, <2>2 DEF Gainful
<1>8. stock \in Nat
  BY <1>4 DEF AtLeastZero
<1>9. a.impact.margin = 0 \/ a.impact.margin = Attributable(groups, stock)
  <2> PICK early : early = (MeasurementDays < MeasurementDays)
    OBVIOUS
  <2>1. \/ Price(a) = Priced(0, 0, early)
        \/ Price(a) = Priced(AtLeastZero(Units(groups) - stock), Attributable(groups, stock), early)
    BY <1>4, PricedAs DEF Price
  <2> HIDE DEF groups, stock
  <2>2. \A units, margin : Priced(units, margin, early).margin = margin
    BY DEF Priced
  <2>3. QED
    BY <1>2, <2>1, <2>2
<1> HIDE DEF groups, stock
<1>10. a.impact.margin <= SumFunctionOnSet([g \in groups |-> Gain(g)], groups)
  BY <1>4, <1>7, <1>8, <1>9, ClaimWithinGain
<1>11. QED
  BY <1>4, <1>6, <1>10 DEF groups

\* A dashboard that shows every window the payroll counts shows at least as much.
LEMMA ShownCoversCounted ==
    ASSUME Reproduced, Typed, NEW since \in Int,
           \A g \in Shown(since) : g.cost # {} /\ UnitMargin(g) >= 0,
           \A i \in Counted : ~actions[i].restated /\ OpensOn(actions[i]) >= since,
           \A i, j \in Counted : i # j => Window(actions[i]) \cap Window(actions[j]) = {}
    PROVE  SumFunctionOnSet([i \in Counted |-> actions[i].impact.margin], Counted)
             <= Total(LAMBDA m : m.revenue, StoredDays(since)) - landed_cogs(Shown(since))
<1> DEFINE costed == Shown(since)
           gain == [g \in costed |-> Gain(g)]
           cost == [g \in costed |-> g.units * UnitCost(g).amount]
           rev == [g \in costed |-> g.revenue]
           part == [i \in Counted |-> _sold_units(actions[i])]
           margin == [i \in Counted |-> actions[i].impact.margin]
           earned == [i \in Counted |-> SumFunctionOnSet(gain, part[i])]
           total == Total(LAMBDA m : m.revenue, StoredDays(since))
<1>1. IsFiniteSet(costed) /\ SumFunctionOnSet(rev, costed) <= total /\ total \in Int
  BY RevenueHoldsGroups
<1>2. ASSUME NEW g \in costed
      PROVE  /\ gain[g] \in Nat /\ cost[g] \in Int /\ rev[g] \in Int
             /\ rev[g] = gain[g] + cost[g]
  <2>1. PICK r \in sales : g = Group(r, r.day) /\ r.units > 0
    BY DEF Shown
  <2>2. /\ g.units \in Nat \ {0} /\ g.revenue \in Int /\ UnitCost(g).amount \in Nat
        /\ UnitMargin(g) >= 0 /\ UnitMargin(g) \in Int
    BY <2>1, GroupOfSale DEF Reproduced, History
  <2>3. Gain(g) \in Int /\ 0 <= Gain(g)
    BY <2>2, MarginsWithinGain
  <2>4. g.units * UnitCost(g).amount \in Int
    BY <2>2, SMT
  <2>5. Gain(g) = g.revenue - g.units * UnitCost(g).amount
    BY DEF Gain
  <2>6. gain[g] = Gain(g) /\ cost[g] = g.units * UnitCost(g).amount /\ rev[g] = g.revenue
    OBVIOUS
  <2> HIDE DEF gain, cost, rev
  <2>7. QED
    BY <2>2, <2>3, <2>4, <2>5, <2>6
<1>3. IsFiniteSet(Counted)
  <2> PICK n : n = Len(actions)
    OBVIOUS
  <2>1. DOMAIN actions = 1..n /\ n \in Nat
    BY DEF Typed, TypeOK
  <2>2. IsFiniteSet(1..n)
    BY <2>1, FS_Interval
  <2>3. Counted \subseteq 1..n
    BY <2>1 DEF Counted
  <2>4. QED
    BY <2>2, <2>3, FS_Subset
<1>4. ASSUME NEW i \in Counted
      PROVE  /\ part[i] \subseteq costed /\ margin[i] \in Int
             /\ margin[i] <= earned[i] /\ earned[i] \in Int
  <2> DEFINE own == [g \in part[i] |-> Gain(g)]
  <2>1. part[i] \subseteq costed /\ margin[i] \in Int
        /\ margin[i] <= SumFunctionOnSet(own, part[i])
    BY CountedWithinGain
  <2>2. IsFiniteSet(part[i])
    BY <1>1, <2>1, FS_Subset
  <2>3. \A g \in part[i] : own[g] \in Int /\ own[g] = gain[g] /\ gain[g] \in Int
    BY <1>2, <2>1
  <2>4. earned[i] = SumFunctionOnSet(gain, part[i])
    OBVIOUS
  <2> HIDE DEF own, gain, part, earned, margin
  <2>5. SumFunctionOnSet(own, part[i]) = SumFunctionOnSet(gain, part[i])
    BY <2>2, <2>3, SumOfSame
  <2>6. SumFunctionOnSet(gain, part[i]) \in Int
    BY <2>2, <2>3, SumIsInt
  <2>7. QED
    BY <2>1, <2>4, <2>5, <2>6
<1>5. \A i \in Counted : \A j \in Counted : i # j => part[i] \cap part[j] = {}
  <2> SUFFICES ASSUME NEW i \in Counted, NEW j \in Counted, i # j,
                      NEW g \in part[i], g \in part[j]
               PROVE  FALSE
    OBVIOUS
  <2>1. g.day \in Window(actions[i]) /\ g.day \in Window(actions[j])
    BY DEF _sold_units, InWindow, Group
  <2>2. QED
    BY <2>1
<1>6. \A i \in Counted : earned[i] = SumFunctionOnSet(gain, part[i])
  OBVIOUS
<1>7. landed_cogs(costed) = SumFunctionOnSet(cost, costed)
  BY DEF landed_cogs, SumFunction
<1> HIDE DEF costed, gain, cost, rev, part, margin, earned, total
<1>8. SumFunctionOnSet(margin, Counted) <= SumFunctionOnSet(earned, Counted)
      /\ SumFunctionOnSet(margin, Counted) \in Int /\ SumFunctionOnSet(earned, Counted) \in Int
  BY <1>3, <1>4, SumKeepsOrder, SumIsInt
<1> PICK all : all = UNION {part[i] : i \in Counted}
  OBVIOUS
<1>9. SumFunctionOnSet(earned, Counted) = SumFunctionOnSet(gain, all)
  <2>1. \A g \in costed : gain[g] \in Int
    BY <1>2
  <2>2. \A i \in Counted : part[i] \subseteq costed
    BY <1>4
  <2>3. SumFunctionOnSet(earned, Counted) = SumFunctionOnSet(gain, UNION {part[i] : i \in Counted})
    BY <1>1, <1>3, <1>5, <1>6, <2>1, <2>2, SumByParts
  <2>4. QED
    BY <2>3
<1>10. SumFunctionOnSet(gain, all) <= SumFunctionOnSet(gain, costed)
  <2>1. all \in SUBSET costed
    BY <1>4
  <2>2. \A g \in costed : gain[g] \in Nat
    BY <1>2
  <2>3. QED
    BY <1>1, <2>1, <2>2, SumOfPart
<1>11. /\ SumFunctionOnSet(rev, costed) = SumFunctionOnSet(gain, costed) + SumFunctionOnSet(cost, costed)
       /\ SumFunctionOnSet(gain, costed) \in Int /\ SumFunctionOnSet(cost, costed) \in Int
  <2>1. \A g \in costed : /\ gain[g] \in Int /\ cost[g] \in Int /\ rev[g] = gain[g] + cost[g]
    BY <1>2
  <2>2. QED
    BY <1>1, <2>1, SumOfPlus, SumIsInt
<1>12. SumFunctionOnSet(margin, Counted) <= total - landed_cogs(costed)
  BY <1>1, <1>7, <1>8, <1>9, <1>10, <1>11
<1>13. QED
  BY <1>12 DEF margin, total, costed

\* routers/money.operator_payroll against routers/dashboards.commerce_dashboard:
\* for every shop, history of costs and number of confirmed restocks.
THEOREM PayrollWithinGrossProfit == Spec => []PayrollFitsTheDashboard
<1>1. Reproduced /\ Typed => PayrollFitsTheDashboard
  <2> SUFFICES ASSUME Reproduced, Typed, NEW days \in Days,
                      commerce_dashboard(days).cogs_complete,
                      \A g \in commerce_dashboard(days).costed : UnitMargin(g) >= 0,
                      \A i \in Counted : ~actions[i].restated
                                         /\ OpensOn(actions[i]) >= today - days,
                      \A i, j \in Counted : i # j =>
                         Window(actions[i]) \cap Window(actions[j]) = {}
               PROVE  operator_payroll.settled <= commerce_dashboard(days).gross_profit
    BY DEF PayrollFitsTheDashboard
  <2> DEFINE since == today - days
  <2>1. /\ commerce_dashboard(days).costed = Shown(since)
        /\ commerce_dashboard(days).cogs_complete = cogs_complete(Shown(since))
    BY DEF commerce_dashboard, Shown
  <2>2. commerce_dashboard(days).gross_profit
          = IF cogs_complete(Shown(since))
            THEN gross_profit(Total(LAMBDA m : m.revenue, StoredDays(since)), Shown(since))
            ELSE Withheld
    BY DEF commerce_dashboard, Shown
  <2>3. cogs_complete(Shown(since))
    BY <2>1
  <2>4. \A g \in Shown(since) : g.cost # {} /\ UnitMargin(g) >= 0
    BY <2>1, <2>3 DEF cogs_complete
  <2>5. since \in Int
    BY CommerceAssumption DEF Reproduced, Days
  <2> HIDE DEF since
  <2>6. \A i \in Counted : ~actions[i].restated /\ OpensOn(actions[i]) >= since
    BY DEF since
  <2>7. SumFunctionOnSet([i \in Counted |-> actions[i].impact.margin], Counted)
          <= Total(LAMBDA m : m.revenue, StoredDays(since)) - landed_cogs(Shown(since))
    BY <2>4, <2>5, <2>6, ShownCoversCounted
  <2>8. QED
    BY <2>2, <2>3, <2>7, SettledIsCounted DEF gross_profit
<1>2. QED
  BY <1>1, AlwaysSound, PTL
=============================================================================
