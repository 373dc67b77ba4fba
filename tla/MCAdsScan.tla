----------------------------- MODULE MCAdsScan -----------------------------
(* The reports: two wastes, the smaller one first, beside rows no proposal    *)
(* comes of; a term that wastes in one group and sells in the other, beside   *)
(* one that sells below cost; a row with orders and no sales, which fails the *)
(* analysis; nothing at all.  The owner's settings are off, or on with one    *)
(* change a day.                                                              *)
EXTENDS AdsScan, TLC

CONSTANTS t1, t2, t3, g1, g2, w1, w2, k1, k2

Policy(on, limit, ceiling) ==
    [enabled |-> on, max_actions_per_day |-> limit, max_change_pct |-> 20,
     auto_apply_below |-> ceiling, protected_spend |-> 2]
MCPolicies == {Policy(FALSE, 1, 1), Policy(TRUE, 1, 2)}

TwoWastes == << Row(t1, g1, 10, 0, 1, 0), Row(t2, g1, 12, 0, 2, 0),
                Row(Blank, g2, 20, 0, 2, 0), Row(t3, Blank, 11, 0, 2, 0),
                Row(t3, g2, 9, 0, 2, 0), Row(t3, Blank, 20, 2, 1, 10) >>
Shared == << Row(t2, g1, 20, 1, 2, 1), Row(t1, g1, 10, 0, 1, 0),
             Row(t1, g2, 30, 3, 1, 20) >>
NoSales == << Row(t1, g1, 10, 1, 1, 0) >>
MCReports == {TwoWastes, Shared, NoSales, << >>}

MCPlaces == {[term |-> t1, group |-> g1], [term |-> t1, group |-> g2],
             [term |-> t2, group |-> g1]}
MCHandled == {[term |-> t1, group |-> g1]}
Symmetry == Permutations({w1, w2}) \cup Permutations({k1, k2})
===========================================================================
