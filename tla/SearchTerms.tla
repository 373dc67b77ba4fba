---------------------------- MODULE SearchTerms ----------------------------
(***************************************************************************)
(* From a search-term report to the negatives worth proposing:             *)
(* amazon_ads_api.parse_search_term_rows, ppc_engine.analyze and           *)
(* actions_engine.proposals_from_ppc.  Money is in whole amounts, ratios in *)
(* percent; what a verdict says in words, and the bids it suggests, change *)
(* nothing and are left out.                                               *)
(***************************************************************************)
EXTENDS Integers, Sequences, FiniteSets

CONSTANTS
    MIN_CLICKS_FOR_JUDGEMENT,
    SCALE_ACOS_HEADROOM,
    BREAK_EVEN,     \* PPC_BREAK_EVEN_ACOS
    TARGET,         \* BREAK_EVEN * DEFAULT_TARGET_RATIO
    MIN_SPEND,      \* below it a proposal is not worth the paperwork
    WINDOW_DAYS,    \* days a report covers
    Blank           \* the term or the ad group a row does not carry

ASSUME SearchTermsAssumption ==
    /\ {MIN_CLICKS_FOR_JUDGEMENT, SCALE_ACOS_HEADROOM, BREAK_EVEN, TARGET, MIN_SPEND} \subseteq Nat
    /\ WINDOW_DAYS \in Nat \ {0}

\* One row: how a term did under one keyword of an ad group.
Row(term, group, clicks, orders, spend, sales) ==
    [place |-> [term |-> term, group |-> group],
     clicks |-> clicks, orders |-> orders, spend |-> spend, sales |-> sales]

parse_search_term_rows(payload) ==
    SelectSeq(payload, LAMBDA row : row.place.term # Blank)

---------------------------------------------------------------------------
(* ppc_engine.                                                             *)

\* analyze_keyword asserts that a row with orders has an ACOS, and divides by it
\* where there are two: one row without, or with an ACOS of nought, fails the
\* analysis of them all.
Analysable(rows) ==
    \A i \in DOMAIN rows :
        /\ rows[i].orders > 0 => rows[i].sales > 0
        /\ rows[i].orders > 1 => rows[i].spend > 0

Above(row, acos) == row.spend * 100 > acos * row.sales

\* Mutant: a term that loses money on its orders is negated as well.
analyze_keyword_by_acos(row) ==
    IF row.orders = 0 /\ row.clicks < MIN_CLICKS_FOR_JUDGEMENT THEN "GATHER_DATA"
    ELSE IF row.orders = 0 \/ Above(row, BREAK_EVEN) THEN "NEGATE"
    ELSE "KEEP"

\* The verdict on one row.
analyze_keyword(row) ==
    CASE row.orders = 0 /\ row.clicks < MIN_CLICKS_FOR_JUDGEMENT -> "GATHER_DATA"
      [] row.orders = 0 /\ row.clicks >= MIN_CLICKS_FOR_JUDGEMENT -> "NEGATE"
      [] row.orders > 0 /\ Above(row, BREAK_EVEN) -> "LOWER_BID"
      [] /\ row.orders >= 2 /\ ~Above(row, BREAK_EVEN)
         /\ row.spend * 10000 <= TARGET * SCALE_ACOS_HEADROOM * row.sales -> "RAISE_BID"
      [] OTHER -> "KEEP"

---------------------------------------------------------------------------
(* actions_engine.                                                         *)

NEGATABLE_ACTIONS == {"NEGATE"}

\* The row a term's ids are taken from: a dict over the rows keeps the last.
by_term(rows, term) ==
    rows[CHOOSE i \in DOMAIN rows :
           /\ rows[i].place.term = term
           /\ \A j \in DOMAIN rows : rows[j].place.term = term => j <= i]

Actionable(rows, i) ==
    /\ analyze_keyword(rows[i]) \in NEGATABLE_ACTIONS
    /\ by_term(rows, rows[i].place.term).place.group # Blank
    /\ rows[i].spend >= MIN_SPEND

\* What would be negated, and what that is worth.
Proposal(rows, i) ==
    [place |-> by_term(rows, rows[i].place.term).place,
     projected_impact |-> rows[i].spend,
     spend_per_day |-> rows[i].spend \div WINDOW_DAYS]

BiggerWaste(rows, i, j) ==
    rows[i].spend > rows[j].spend \/ (rows[i].spend = rows[j].spend /\ i < j)

\* The biggest waste first: the n-th has n - 1 bigger ones before it.
proposals_from_ppc(rows) ==
    LET wasted == {i \in DOMAIN rows : Actionable(rows, i)}
        Before(i) == {j \in wasted : BiggerWaste(rows, j, i)}
    IN [n \in 1..Cardinality(wasted) |->
          Proposal(rows, CHOOSE i \in wasted : Cardinality(Before(i)) = n - 1)]

---------------------------------------------------------------------------
(* What a report says of a place, for the properties.                      *)

Sells(rows, place) ==
    \E i \in DOMAIN rows : rows[i].place = place /\ rows[i].orders > 0

\* The same term in more than one row: under other keywords or ad groups.
Split(rows, term) ==
    \E i, j \in DOMAIN rows :
        i # j /\ rows[i].place.term = term /\ rows[j].place.term = term
============================================================================
