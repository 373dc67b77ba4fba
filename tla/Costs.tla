-------------------------------- MODULE Costs --------------------------------
(***************************************************************************)
(* What a unit cost to buy (product_costs.py): the history of one product, *)
(* what a new figure does to it, and which figure prices a sale.           *)
(*                                                                         *)
(* The key of product_costs is (variant, effective_from, source), so the   *)
(* observation time that breaks the last tie in the code never decides and *)
(* is left out.                                                            *)
(***************************************************************************)
EXTENDS Integers

\* external_variant_id of a figure for every variant of the product.
EveryVariant == ""

\* The key of a line item that arrived without a variant.
UnknownVariant == "unknown"

Sources == {"manual", "shopify"}

\* The rows of a history, for given days and figures.
Rows(variants, days, figures) ==
    [variant : variants, from : days, source : Sources, figure : figures]

SameKey(r, s) == r.variant = s.variant /\ r.from = s.from /\ r.source = s.source

---------------------------------------------------------------------------
(* Writing.                                                                *)

\* What a source has said of a variant so far.
SaidBy(rows, new) == {r \in rows : r.variant = new.variant /\ r.source = new.source}

Latest(rows) == {r \in rows : \A q \in rows : q.from <= r.from}

\* The newest figure of the source is this one already.
NothingNew(rows, new) ==
    \E r \in Latest(SaidBy(rows, new)) : r.figure = new.figure /\ r.from <= new.from

\* A new figure for the same start is written over the old one.
Record(rows, new) ==
    IF new.figure.amount < 0 \/ NothingNew(rows, new) THEN rows
    ELSE {r \in rows : ~SameKey(r, new)} \cup {new}

---------------------------------------------------------------------------
(* Reading.                                                                *)

\* What can apply to a variant.  Nothing applies to units of no known variant.
Candidates(rows, variant) ==
    IF variant = UnknownVariant THEN {}
    ELSE {r \in rows : r.variant \in {variant, EveryVariant}}

Exact(r) == r.variant # EveryVariant

\* An exact variant before the product, a later start before an earlier, the
\* seller before the shop.
Beats(r, q) ==
    \/ Exact(r) /\ ~Exact(q)
    \/ /\ Exact(r) <=> Exact(q)
       /\ \/ r.from > q.from
          \/ r.from = q.from /\ r.source = "manual" /\ q.source = "shopify"

\* Mutant: whatever is recorded applies, whenever it starts.
UsableAtOnce(rows, variant, day) == Candidates(rows, variant)

Usable(rows, variant, day) == {r \in Candidates(rows, variant) : r.from <= day}

\* The rows in force for a variant on a day: one, or none.
InForce(rows, variant, day) ==
    LET usable == Usable(rows, variant, day)
    IN {r \in usable : \A q \in usable \ {r} : Beats(r, q)}
=============================================================================
