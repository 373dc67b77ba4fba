------------------------------ MODULE MCCommerce ------------------------------
(* A small shop for TLC: two variants, one of them seldom costed. *)
EXTENDS Commerce, TLC

Euro(amount) == [amount |-> amount, currency |-> "EUR"]

OneOrder(variant, units, revenue) == [variant |-> variant, units |-> units, revenue |-> revenue]
SmallOrders == {OneOrder("red", 2, 5), OneOrder("blue", 1, 4)}

Quote(variant, source, figure) == [variant |-> variant, source |-> source, figure |-> figure]
SmallQuotes == {Quote(EveryVariant, "manual", Euro(1)), Quote("blue", "shopify", Euro(3)),
                Quote("blue", "manual", [amount |-> 2, currency |-> "USD"])}

Symmetry == Permutations(Scanners)

\* Bounds: what the shop does in one behaviour; scans first, costs and prices
\* after, of what two proposals were about.
Sold == Total(LAMBDA r : r.sold, sales)
Events == Sold + Cardinality({d \in Days : refunds[d] > 0}) + Cardinality(costs)
Pricing == \E a \in Range(actions) : a.status \in {"applied", "measured"}
Dismissed == {i \in DOMAIN actions : actions[i].status = "dismissed"}
Explored ==
    /\ Events <= 5
    /\ Cardinality(Dismissed) <= 1
    /\ Sold > 1 \/ costs # {} => Pricing
    /\ Pricing => /\ Len(actions) <= 2 /\ Dismissed = {}
                  /\ \A s \in Scanners : scan[s] = Idle
    /\ Cardinality({s \in Scanners : scan[s] # Idle}) > 1 => \A d \in Days : refunds[d] = 0

\* Spec, without the steps that leave what is explored: as the constraint would
\* have it, and nothing beyond it is worked out.
ExploredSpec == Init /\ [][Next /\ Explored']_vars
===============================================================================
