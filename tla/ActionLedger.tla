--------------------------- MODULE ActionLedger ---------------------------
(***************************************************************************)
(* The action ledger behind the payroll: routers/money.py, the confirm and *)
(* measure routes of routers/commerce.py, and commerce_measurement.measure *)
(* as the route and the daily job call it.                                 *)
(*                                                                         *)
(* Every handler loads one operator_actions row in a session of its own,   *)
(* decides from what it loaded, and commits later.  The session factory    *)
(* sets expire_on_commit=False, the table has no version column and no     *)
(* handler locks the row, so two requests that overlap both decide from    *)
(* the row as it was.  What reaches the table is the columns the handler   *)
(* changed, and only those: see Flush.                                     *)
(***************************************************************************)
CONSTANTS
    Actions,    \* ids of operator_actions rows
    Requests,   \* sessions: a route being served, or the daily measuring job
    NoAction    \* what a session that serves nothing has loaded

ASSUME NoActionAssumption == NoAction \notin Actions

(***************************************************************************)
(* A row, with the columns the handlers decide from.  "baseline" is which  *)
(* before-picture the row carries: rates are days/spend/revenue, a shelf   *)
(* is product_id/on_hand as well, a verified shelf has verified_on_hand    *)
(* too.  "impact" is where the recorded price came from: numbers a caller  *)
(* typed (over part of the window or all of it), or the store's own days   *)
(* (which showed attributable units, or none).                             *)
(***************************************************************************)
Kinds == {"none", "restock", "review", "ads", "manual"}
Statuses == {"absent", "proposed", "applied", "measured", "dismissed", "reverted"}
Baselines == {"none", "rates", "shelf", "verified_shelf"}
Impacts == {"none", "typed_provisional", "typed", "days_sold", "days_unsold"}

Rows == [kind      : Kinds,
         status    : Statuses,
         appliedBy : {"none", "human", "operator"},
         baseline  : Baselines,
         revertTo  : BOOLEAN,
         evidence  : {"unverified", "real"},
         impact    : Impacts,
         measuredAt: BOOLEAN]

NewRow(kind, status, baseline, revertTo) ==
    [kind |-> kind, status |-> status, appliedBy |-> "none",
     baseline |-> baseline, revertTo |-> revertTo, evidence |-> "unverified",
     impact |-> "none", measuredAt |-> FALSE]

Absent == NewRow("none", "absent", "none", FALSE)
Idle == [action |-> NoAction, loaded |-> Absent, edited |-> Absent]

VARIABLES
    ledger,     \* the committed operator_actions rows
    session,    \* what each request has loaded and is about to commit
    readBack,   \* history: rows whose change was seen in the live account
    sold        \* history: rows whose own days showed units beyond old stock

vars == <<ledger, session, readBack, sold>>

TypeOK ==
    /\ ledger \in [Actions -> Rows]
    /\ session \in [Requests ->
            [action: Actions \cup {NoAction}, loaded: Rows, edited: Rows]]
    /\ readBack \subseteq Actions
    /\ sold \subseteq Actions

Init ==
    /\ ledger = [a \in Actions |-> Absent]
    /\ session = [r \in Requests |-> Idle]
    /\ readBack = {}
    /\ sold = {}

---------------------------------------------------------------------------
(* Opening rows: POST /api/actions, scan_store and run_ads_scan.  Each row *)
(* appears with the commit of the transaction that opened it.              *)

Open(a, row) ==
    /\ ledger[a].status = "absent"
    /\ ledger' = [ledger EXCEPT ![a] = row]
    /\ UNCHANGED <<session, sold>>

\* A person records a proposal: no baseline and nothing to restore.
CreateAction(a) ==
    /\ Open(a, NewRow("manual", "proposed", "none", FALSE))
    /\ UNCHANGED readBack

\* A scan opens a commerce proposal.  Its revert_to is {"revertible": False},
\* which is not None.  Only a stockout finding carries a shelf.
ScanStore(a) ==
    /\ \/ Open(a, NewRow("restock", "proposed", "shelf", TRUE))
       \/ Open(a, NewRow("review", "proposed", "rates", TRUE))
    /\ UNCHANGED readBack

\* The advertising scan commits a proposal it did not apply, or could not
\* prove it applied ...
ScanAds(a) ==
    /\ Open(a, NewRow("ads", "proposed", "rates", TRUE))
    /\ UNCHANGED readBack

\* ... or one it applied alone and read back out of the account.
AppliedByOperator(row) ==
    [row EXCEPT !.status = "applied", !.appliedBy = "operator", !.evidence = "real"]

ScanAdsApplied(a) ==
    /\ Open(a, AppliedByOperator(NewRow("ads", "proposed", "rates", TRUE)))
    /\ readBack' = readBack \cup {a}

---------------------------------------------------------------------------
(* A handler loads a row, refuses or edits it, and commits.                *)

Load(r, a, edited) ==
    /\ session[r] = Idle
    /\ ledger[a].status # "absent"
    /\ session' = [session EXCEPT ![r] =
            [action |-> a, loaded |-> ledger[a], edited |-> edited]]
    /\ UNCHANGED ledger

\* What the unit of work writes: the columns the handler set to a value other
\* than the one it loaded.  The others keep what is in the table by then.  (A
\* caller who types a price of the same kind again types the same numbers.)
Flush(current, loaded, edited) ==
    [kind       |-> current.kind,
     status     |-> IF edited.status = loaded.status
                    THEN current.status ELSE edited.status,
     appliedBy  |-> IF edited.appliedBy = loaded.appliedBy
                    THEN current.appliedBy ELSE edited.appliedBy,
     baseline   |-> IF edited.baseline = loaded.baseline
                    THEN current.baseline ELSE edited.baseline,
     revertTo   |-> IF edited.revertTo = loaded.revertTo
                    THEN current.revertTo ELSE edited.revertTo,
     evidence   |-> IF edited.evidence = loaded.evidence
                    THEN current.evidence ELSE edited.evidence,
     impact     |-> IF edited.impact = loaded.impact
                    THEN current.impact ELSE edited.impact,
     measuredAt |-> IF edited.measuredAt = loaded.measuredAt
                    THEN current.measuredAt ELSE edited.measuredAt]

\* Mutant: the before-picture the request carried is not kept.
AppliedWithoutBaseline(row, given) ==
    [row EXCEPT !.status = "applied", !.appliedBy = "human", !.revertTo = given]

\* "I did this": a person applied it, with the before-picture and the value to
\* restore (given, or not) taken from the request.  evaluate() allows a human
\* within the change limit while the Operator is on; a refusal writes nothing.
AppliedByHand(row, given) ==
    [row EXCEPT !.status = "applied", !.appliedBy = "human",
                !.baseline = "rates", !.revertTo = given]

MarkApplied(r, a) ==
    /\ ledger[a].status \in {"proposed", "reverted"}
    /\ \E given \in BOOLEAN : Load(r, a, AppliedByHand(ledger[a], given))
    /\ UNCHANGED <<readBack, sold>>

\* The generic measurement: the caller types the outcome window.  A baseline
\* with no days, or an outcome under MIN_MEASURABLE_DAYS, is refused.
PricedByCaller(row, price) ==
    [row EXCEPT !.status = "measured", !.impact = price, !.measuredAt = TRUE]

MeasureAction(r, a) ==
    /\ ledger[a].status \in {"applied", "measured"}
    /\ ledger[a].baseline # "none"
    /\ \E price \in {"typed_provisional", "typed"} :
         Load(r, a, PricedByCaller(ledger[a], price))
    /\ UNCHANGED <<readBack, sold>>

Reverted(row) == [row EXCEPT !.status = "reverted"]

RevertAction(r, a) ==
    /\ ledger[a].status \in {"applied", "measured"}
    /\ ledger[a].revertTo
    /\ Load(r, a, Reverted(ledger[a]))
    /\ UNCHANGED <<readBack, sold>>

Dismissed(row) == [row EXCEPT !.status = "dismissed"]

\* Mutant: the 409 for a row that is no longer proposed is missing.
DismissAnyRow(r, a) ==
    /\ Load(r, a, Dismissed(ledger[a]))
    /\ UNCHANGED <<readBack, sold>>

DismissAction(r, a) ==
    /\ ledger[a].status = "proposed"
    /\ Load(r, a, Dismissed(ledger[a]))
    /\ UNCHANGED <<readBack, sold>>

\* The seller says the restock happened and Shopify shows the shelf above
\* on_hand.  A shelf that did not move records nothing.  The call to Shopify
\* falls between the load and the commit.
Confirmed(row) ==
    [row EXCEPT !.status = "applied", !.appliedBy = "human",
                !.baseline = "verified_shelf"]

ConfirmCommerceAction(r, a) ==
    /\ ledger[a].status = "proposed"
    /\ ledger[a].kind = "restock"
    /\ ledger[a].baseline \in {"shelf", "verified_shelf"}
    /\ Load(r, a, Confirmed(ledger[a]))
    /\ readBack' = readBack \cup {a}
    /\ UNCHANGED sold

\* Mutant: the shelf was read back, and that is called enough.
EvidenceFromShelf(row, units) ==
    IF row.baseline = "verified_shelf" THEN "real" ELSE "unverified"

\* What a window priced from the store's own days may be called.
EvidenceFor(row, units) ==
    IF row.baseline = "verified_shelf" /\ units = "days_sold"
    THEN "real" ELSE "unverified"

PricedFromDays(row, units) ==
    [row EXCEPT !.status = "measured", !.impact = units, !.measuredAt = TRUE,
                !.evidence = EvidenceFor(row, units)]

\* commerce_measurement.measure, called by the route and by the daily job.
\* readiness(): priced already, not applied, or no shelf to measure against
\* changes nothing.  What the closed window shows is the choice of units.
MeasureRestock(r, a) ==
    /\ ~ledger[a].measuredAt
    /\ ledger[a].status = "applied"
    /\ ledger[a].baseline \in {"shelf", "verified_shelf"}
    /\ \E units \in {"days_sold", "days_unsold"} :
         /\ Load(r, a, PricedFromDays(ledger[a], units))
         /\ sold' = IF units = "days_sold" THEN sold \cup {a} ELSE sold
    /\ UNCHANGED readBack

Commit(r) ==
    LET s == session[r] IN
    /\ s.action \in Actions
    /\ ledger' = [ledger EXCEPT ![s.action] = Flush(@, s.loaded, s.edited)]
    /\ session' = [session EXCEPT ![r] = Idle]
    /\ UNCHANGED <<readBack, sold>>

\* The process dies, or an exception rolls the transaction back.
Abort(r) ==
    /\ session[r].action \in Actions
    /\ session' = [session EXCEPT ![r] = Idle]
    /\ UNCHANGED <<ledger, readBack, sold>>

Next ==
    \/ \E a \in Actions :
         CreateAction(a) \/ ScanStore(a) \/ ScanAds(a) \/ ScanAdsApplied(a)
    \/ \E r \in Requests, a \in Actions :
         \/ MarkApplied(r, a)
         \/ MeasureAction(r, a)
         \/ RevertAction(r, a)
         \/ DismissAction(r, a)
         \/ ConfirmCommerceAction(r, a)
         \/ MeasureRestock(r, a)
    \/ \E r \in Requests : Commit(r) \/ Abort(r)

Spec == Init /\ [][Next]_vars

---------------------------------------------------------------------------
(***************************************************************************)
(* Properties.                                                             *)
(***************************************************************************)

\* A row calls itself real only if its change was read back out of the live
\* account and, for a restock, the store's own days showed units the old shelf
\* could not have covered.
Earned(row, a) ==
    row.evidence = "real" =>
        /\ a \in readBack
        /\ row.kind = "restock" => a \in sold

\* A row that was ever in effect says who put it there and keeps a
\* before-picture, and a measured row has a price with its date.
OnRecord(row) ==
    /\ row.status \in {"applied", "measured", "reverted"} =>
          row.appliedBy # "none" /\ row.baseline # "none"
    /\ row.status = "measured" => row.measuredAt
    /\ row.measuredAt <=> row.impact # "none"

\* Whatever the order overlapping requests commit in, real means earned ...
RealIsEarned == \A a \in Actions : Earned(ledger[a], a)

\* ... and what is in effect is on record, even when two requests each
\* flushed part of the row.
InEffectIsOnRecord == \A a \in Actions : OnRecord(ledger[a])

\* The lifecycle the handlers' 409s enforce.
LegalEdge(from, to) ==
    \/ from = to
    \/ from = "absent" /\ to \in {"proposed", "applied"}
    \/ from = "proposed" /\ to \in {"applied", "dismissed"}
    \/ from = "applied" /\ to \in {"measured", "reverted"}
    \/ from = "measured" /\ to = "reverted"
    \/ from = "reverted" /\ to = "applied"

\* What is inductive about one row: a verified shelf was read
\* back too, and a row that is not there yet is not priced.
RowSound(row, a) ==
    /\ Earned(row, a)
    /\ row.baseline = "verified_shelf" => a \in readBack
    /\ row.status = "absent" => ~row.measuredAt
    /\ OnRecord(row)

\* No handler un-sets a column of this kind once it is set.
Keeps(before, after) ==
    /\ before.appliedBy # "none" => after.appliedBy # "none"
    /\ before.baseline # "none" => after.baseline # "none"
    /\ before.measuredAt => after.measuredAt

\* How the recorded price of a row may change from one row to the other.
Reprices(before, after) ==
    before.impact \in {"days_sold", "days_unsold"} =>
        after.impact \in {before.impact, "typed", "typed_provisional"}

\* What an open request knows of its row, however long ago it loaded it.
SessionSound(s) ==
    /\ RowSound(s.loaded, s.action)
    /\ RowSound(s.edited, s.action)
    /\ Keeps(s.loaded, s.edited)
    /\ LegalEdge(s.loaded.status, s.edited.status)
    /\ Reprices(s.loaded, s.edited)
    /\ Keeps(s.loaded, ledger[s.action])
    /\ s.edited.kind = ledger[s.action].kind
    /\ ledger[s.action].status # "absent"

\* The inductive strengthening of RealIsEarned and InEffectIsOnRecord: the
\* decisions still in flight are as sound as the rows they will be flushed to.
IInv ==
    /\ TypeOK
    /\ \A a \in Actions : RowSound(ledger[a], a)
    /\ \A r \in Requests : session[r].action \in Actions => SessionSound(session[r])

\* A request is about to commit a decision about a row that has changed since.
Stale(r) == session[r].loaded # ledger[session[r].action]

\* The only step that can take a row against its lifecycle is the commit of a
\* request that loaded the row before another request changed it.
OffLifecycleOnlyWhenStale ==
    [][\A a \in Actions :
         \/ LegalEdge(ledger[a].status, ledger'[a].status)
         \/ \E r \in Requests : session[r].action = a /\ Stale(r) /\ Commit(r)]_vars

\* A price read from the store's own days is replaced only by a caller typing
\* another one, or by a second measurement that loaded the row unpriced: the
\* measured_at guard holds for every request that sees the first price.
DaysPriceReplacedOnlyByTyping ==
    [][\A a \in Actions :
         \/ Reprices(ledger[a], ledger'[a])
         \/ \E r \in Requests : session[r].action = a /\ Stale(r) /\ Commit(r)]_vars

===========================================================================
