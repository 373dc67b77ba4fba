------------------------ MODULE ActionLedgerProofs ------------------------
(***************************************************************************)
(* Proofs about ActionLedger, for any set of rows and of requests; and     *)
(* about Measurement, where the price of a restock in that ledger comes    *)
(* from, for any number of syncs, days, orders, returns and requests.      *)
(***************************************************************************)
EXTENDS ActionLedger, Measurement, FiniteSetTheorems, TLAPS

USE NoActionAssumption

LEMMA BlankTyped == Absent \in Rows
BY DEF Absent, NewRow, Rows, Kinds, Statuses, Baselines, Impacts

\* The rows the scans and the create route open.
LEMMA OpenedTyped ==
    /\ NewRow("manual", "proposed", "none", FALSE) \in Rows
    /\ NewRow("restock", "proposed", "shelf", TRUE) \in Rows
    /\ NewRow("review", "proposed", "rates", TRUE) \in Rows
    /\ NewRow("ads", "proposed", "rates", TRUE) \in Rows
    /\ AppliedByOperator(NewRow("ads", "proposed", "rates", TRUE)) \in Rows
BY DEF NewRow, AppliedByOperator, Rows, Kinds, Statuses, Baselines, Impacts

\* What each handler makes of the row it loaded is a row.
LEMMA EditedTyped ==
    ASSUME NEW row \in Rows
    PROVE  /\ \A given \in BOOLEAN : AppliedByHand(row, given) \in Rows
           /\ \A price \in {"typed_provisional", "typed"} :
                PricedByCaller(row, price) \in Rows
           /\ Reverted(row) \in Rows
           /\ Dismissed(row) \in Rows
           /\ Confirmed(row) \in Rows
           /\ \A units \in {"days_sold", "days_unsold"} :
                PricedFromDays(row, units) \in Rows
BY ZenonT(30) DEF AppliedByHand, PricedByCaller, Reverted, Dismissed, Confirmed,
       PricedFromDays, EvidenceFor, Rows, Statuses, Baselines, Impacts

\* Flushing the changed columns of one row onto another yields a row.
LEMMA FlushTyped ==
    ASSUME NEW current \in Rows, NEW loaded \in Rows, NEW edited \in Rows
    PROVE  Flush(current, loaded, edited) \in Rows
BY DEF Flush, Rows

\* A request that loads a row holds it with its edit, and writes nothing yet.
LEMMA LoadStep ==
    ASSUME TypeOK, NEW r \in Requests, NEW a \in Actions, NEW edited \in Rows,
           Load(r, a, edited)
    PROVE  /\ UNCHANGED ledger
           /\ session' \in [Requests ->
                [action: Actions \cup {NoAction}, loaded: Rows, edited: Rows]]
BY DEF TypeOK, Load

\* No step leaves a row or a session ill formed.
LEMMA TypeStep ==
    ASSUME TypeOK, [Next]_vars
    PROVE  TypeOK'
<1>1. ASSUME NEW a \in Actions,
             CreateAction(a) \/ ScanStore(a) \/ ScanAds(a) \/ ScanAdsApplied(a)
      PROVE  TypeOK'
  <2>1. ASSUME NEW row \in Rows, Open(a, row)
        PROVE  /\ ledger' \in [Actions -> Rows]
               /\ UNCHANGED <<session, sold>>
    BY <2>1 DEF Open, TypeOK
  <2>2. readBack' \subseteq Actions
    BY <1>1 DEF CreateAction, ScanStore, ScanAds, ScanAdsApplied, TypeOK
  <2>3. ledger' \in [Actions -> Rows] /\ UNCHANGED <<session, sold>>
    BY <1>1, <2>1, OpenedTyped DEF CreateAction, ScanStore, ScanAds, ScanAdsApplied
  <2> QED BY <2>2, <2>3 DEF TypeOK
<1>2. ASSUME NEW r \in Requests, NEW a \in Actions,
             \/ MarkApplied(r, a)
             \/ MeasureAction(r, a)
             \/ RevertAction(r, a)
             \/ DismissAction(r, a)
             \/ ConfirmCommerceAction(r, a)
             \/ MeasureRestock(r, a)
      PROVE  TypeOK'
  <2>1. PICK edited \in Rows : Load(r, a, edited)
    BY <1>2, EditedTyped
       DEF TypeOK, MarkApplied, MeasureAction, RevertAction, DismissAction,
           ConfirmCommerceAction, MeasureRestock
  <2>2. readBack' \subseteq Actions /\ sold' \subseteq Actions
    BY <1>2 DEF TypeOK, MarkApplied, MeasureAction, RevertAction, DismissAction,
                ConfirmCommerceAction, MeasureRestock
  <2> QED BY <2>1, <2>2, LoadStep DEF TypeOK
<1>3. ASSUME NEW r \in Requests, Commit(r)
      PROVE  TypeOK'
  <2>1. /\ session[r].loaded \in Rows
        /\ session[r].edited \in Rows
        /\ session[r].action \in Actions
    BY <1>3 DEF TypeOK, Commit
  <2>2. Flush(ledger[session[r].action], session[r].loaded, session[r].edited) \in Rows
    BY <2>1, FlushTyped DEF TypeOK
  <2> QED BY <1>3, <2>1, <2>2, BlankTyped DEF Commit, TypeOK, Idle
<1>4. ASSUME NEW r \in Requests, Abort(r)
      PROVE  TypeOK'
  BY <1>4, BlankTyped DEF Abort, TypeOK, Idle
<1>5. CASE UNCHANGED vars
  BY <1>5 DEF vars, TypeOK
<1> QED
  BY <1>1, <1>2, <1>3, <1>4, <1>5 DEF Next

\* Every committed row and every session stays well formed.
THEOREM TypeCorrect == Spec => []TypeOK
<1>1. Init => TypeOK
  BY BlankTyped DEF Init, TypeOK, Idle
<1> QED BY <1>1, TypeStep, PTL DEF Spec

---------------------------------------------------------------------------

\* What a handler decided from a sound row can be flushed onto whatever the
\* row has become by then, and the result is sound.
LEMMA FlushSound ==
    ASSUME NEW a \in Actions,
           NEW current \in Rows, NEW loaded \in Rows, NEW edited \in Rows,
           RowSound(current, a), RowSound(loaded, a), RowSound(edited, a),
           Keeps(loaded, edited), Keeps(loaded, current),
           LegalEdge(loaded.status, edited.status),
           edited.kind = current.kind, current.status # "absent"
    PROVE  LET row == Flush(current, loaded, edited) IN
           /\ RowSound(row, a)
           /\ Keeps(current, row)
           /\ row.kind = current.kind
           /\ row.status # "absent"
<1> DEFINE row == Flush(current, loaded, edited)
<1> USE DEF Rows, Flush
<1>1. Earned(row, a)
  BY DEF RowSound, Earned
<1>2. row.baseline = "verified_shelf" => a \in readBack
  BY DEF RowSound
<1>3. /\ row.status \in {"applied", "measured", "reverted"} =>
            row.appliedBy # "none" /\ row.baseline # "none"
      /\ row.status = "measured" => row.measuredAt
  BY DEF RowSound, OnRecord, Keeps
<1>4. row.measuredAt <=> row.impact # "none"
  BY DEF RowSound, OnRecord, Keeps
<1>5. Keeps(current, row)
  BY DEF Keeps
<1>6. row.status # "absent"
  BY DEF LegalEdge
<1> QED BY <1>1, <1>2, <1>3, <1>4, <1>5, <1>6 DEF RowSound, OnRecord

\* A sound row stays sound while the histories only grow.
LEMMA RowSoundGrows ==
    ASSUME NEW row, NEW a, RowSound(row, a),
           readBack \subseteq readBack', sold \subseteq sold'
    PROVE  RowSound(row, a)'
BY DEF RowSound, Earned, OnRecord

\* A handler that loads a sound row and decides soundly keeps the invariant.
LEMMA HandlerSound ==
    ASSUME IInv, TypeOK', NEW r \in Requests, NEW a \in Actions, NEW edited \in Rows,
           Load(r, a, edited),
           readBack \subseteq readBack', sold \subseteq sold',
           RowSound(edited, a)', Keeps(ledger[a], edited),
           LegalEdge(ledger[a].status, edited.status),
           Reprices(ledger[a], edited),
           edited.kind = ledger[a].kind
    PROVE  IInv'
<1>1. ledger' = ledger
  BY DEF Load
<1>2. \A b \in Actions : RowSound(ledger[b], b)'
  BY <1>1, RowSoundGrows DEF IInv
<1>3. ASSUME NEW q \in Requests, session'[q].action \in Actions
      PROVE  SessionSound(session[q])'
  <2>1. CASE q = r
    <3>1. session'[q] = [action |-> a, loaded |-> ledger[a], edited |-> edited]
      BY <2>1 DEF Load, IInv, TypeOK
    <3>2. RowSound(ledger[a], a)' /\ Keeps(ledger[a], ledger[a])
      BY <1>2 DEF Keeps
    <3>3. ledger[a].status # "absent"
      BY DEF Load
    <3> QED BY <1>1, <3>1, <3>2, <3>3 DEF SessionSound
  <2>2. CASE q # r
    <3>1. session'[q] = session[q]
      BY <2>2 DEF Load, IInv, TypeOK
    <3>2. SessionSound(session[q])
      BY <1>3, <3>1 DEF IInv
    <3>3. /\ RowSound(session[q].loaded, session[q].action)'
          /\ RowSound(session[q].edited, session[q].action)'
      BY <3>1, <3>2, RowSoundGrows DEF SessionSound, RowSound, Earned, OnRecord
    <3> QED BY <1>1, <3>1, <3>2, <3>3 DEF SessionSound
  <2> QED BY <2>1, <2>2
<1> QED BY <1>2, <1>3 DEF IInv

\* Opening a row leaves every open request's row alone: it was not absent.
LEMMA OpenSound ==
    ASSUME IInv, TypeOK', NEW a \in Actions, NEW row \in Rows, Open(a, row),
           readBack \subseteq readBack', RowSound(row, a)'
    PROVE  IInv'
<1>1. /\ ledger' = [ledger EXCEPT ![a] = row]
      /\ session' = session
      /\ sold' = sold
  BY DEF Open
<1>2. \A b \in Actions : RowSound(ledger[b], b)'
  <2> TAKE b \in Actions
  <2>1. CASE b = a
    BY <1>1, <2>1 DEF IInv, TypeOK
  <2>2. CASE b # a
    <3>1. ledger'[b] = ledger[b] /\ RowSound(ledger[b], b)
      BY <1>1, <2>2 DEF IInv, TypeOK
    <3> QED BY <1>1, <3>1 DEF RowSound, Earned, OnRecord
  <2> QED BY <2>1, <2>2
<1>3. ASSUME NEW q \in Requests, session'[q].action \in Actions
      PROVE  SessionSound(session[q])'
  <2>1. SessionSound(session[q])
    BY <1>1, <1>3 DEF IInv
  <2>2. ledger'[session[q].action] = ledger[session[q].action]
    BY <1>1, <1>3, <2>1 DEF Open, SessionSound, IInv, TypeOK
  <2> QED BY <1>1, <2>1, <2>2 DEF SessionSound, RowSound, Earned, OnRecord
<1> QED BY <1>2, <1>3 DEF IInv

\* The commit of a sound decision keeps the invariant, stale or not.
LEMMA CommitSound ==
    ASSUME IInv, TypeOK', NEW r \in Requests, Commit(r)
    PROVE  IInv'
<1> DEFINE s == session[r]
           row == Flush(ledger[s.action], s.loaded, s.edited)
<1>1. /\ s.action \in Actions
      /\ s.loaded \in Rows /\ s.edited \in Rows
      /\ ledger[s.action] \in Rows
      /\ SessionSound(s)
      /\ RowSound(ledger[s.action], s.action)
  BY DEF Commit, IInv, TypeOK
<1>2. /\ RowSound(row, s.action)
      /\ Keeps(ledger[s.action], row)
      /\ row.kind = ledger[s.action].kind
      /\ row.status # "absent"
  BY <1>1, FlushSound DEF SessionSound
<1>3. /\ ledger' = [ledger EXCEPT ![s.action] = row]
      /\ session' = [session EXCEPT ![r] = Idle]
      /\ readBack' = readBack /\ sold' = sold
  BY DEF Commit
<1> HIDE DEF row
<1>4. \A b \in Actions : RowSound(ledger[b], b)'
  <2> TAKE b \in Actions
  <2>1. CASE b = s.action
    <3>1. ledger'[b] = row
      BY <1>3, <2>1 DEF IInv, TypeOK
    <3> QED BY <1>2, <1>3, <2>1, <3>1 DEF RowSound, Earned, OnRecord
  <2>2. CASE b # s.action
    <3>1. ledger'[b] = ledger[b] /\ RowSound(ledger[b], b)
      BY <1>3, <2>2 DEF IInv, TypeOK
    <3> QED BY <1>3, <3>1 DEF RowSound, Earned, OnRecord
  <2> QED BY <2>1, <2>2
<1>5. ASSUME NEW q \in Requests, session'[q].action \in Actions
      PROVE  SessionSound(session[q])'
  <2>1. q # r /\ session'[q] = session[q]
    BY <1>3, <1>5 DEF Idle, IInv, TypeOK
  <2>2. SessionSound(session[q])
    BY <1>5, <2>1 DEF IInv
  <2>3. /\ RowSound(session[q].loaded, session[q].action)'
        /\ RowSound(session[q].edited, session[q].action)'
    BY <1>3, <2>1, <2>2 DEF SessionSound, RowSound, Earned, OnRecord
  <2>4. /\ Keeps(session[q].loaded, ledger'[session[q].action])
        /\ session[q].edited.kind = ledger'[session[q].action].kind
        /\ ledger'[session[q].action].status # "absent"
    <3>1. CASE session[q].action = s.action
      <4>1. ledger'[session[q].action] = row
        BY <1>3, <3>1, <1>1 DEF IInv, TypeOK
      <4> QED BY <1>2, <2>2, <3>1, <4>1 DEF SessionSound, Keeps
    <3>2. CASE session[q].action # s.action
      <4>1. ledger'[session[q].action] = ledger[session[q].action]
        BY <1>3, <3>2, <1>5, <2>1 DEF IInv, TypeOK
      <4> QED BY <2>2, <4>1 DEF SessionSound
    <3> QED BY <3>1, <3>2
  <2> QED BY <2>1, <2>2, <2>3, <2>4 DEF SessionSound
<1> QED BY <1>4, <1>5 DEF IInv

---------------------------------------------------------------------------

\* Each row a scan or the create route opens is sound; the one the Operator
\* applied alone is read back in the same step.
LEMMA OpenActionSound ==
    ASSUME IInv, TypeOK', NEW a \in Actions,
           CreateAction(a) \/ ScanStore(a) \/ ScanAds(a) \/ ScanAdsApplied(a)
    PROVE  IInv'
<1>1. CASE CreateAction(a)
  <2> DEFINE row == NewRow("manual", "proposed", "none", FALSE)
  <2>1. RowSound(row, a)'
    BY DEF NewRow, RowSound, Earned, OnRecord
  <2> QED BY <1>1, <2>1, OpenedTyped, OpenSound DEF CreateAction
<1>2. CASE ScanStore(a)
  <2>1. /\ RowSound(NewRow("restock", "proposed", "shelf", TRUE), a)'
        /\ RowSound(NewRow("review", "proposed", "rates", TRUE), a)'
    BY DEF NewRow, RowSound, Earned, OnRecord
  <2> QED BY <1>2, <2>1, OpenedTyped, OpenSound DEF ScanStore
<1>3. CASE ScanAds(a)
  <2>1. RowSound(NewRow("ads", "proposed", "rates", TRUE), a)'
    BY DEF NewRow, RowSound, Earned, OnRecord
  <2> QED BY <1>3, <2>1, OpenedTyped, OpenSound DEF ScanAds
<1>4. CASE ScanAdsApplied(a)
  <2>1. a \in readBack' /\ readBack \subseteq readBack'
    BY <1>4 DEF ScanAdsApplied
  <2>2. RowSound(AppliedByOperator(NewRow("ads", "proposed", "rates", TRUE)), a)'
    BY <2>1 DEF AppliedByOperator, NewRow, RowSound, Earned, OnRecord
  <2> QED BY <1>4, <2>1, <2>2, OpenedTyped, OpenSound DEF ScanAdsApplied
<1> QED BY <1>1, <1>2, <1>3, <1>4

\* What each handler's guard gives it to edit a sound row soundly.
LEMMA HandlerActionSound ==
    ASSUME IInv, TypeOK', NEW r \in Requests, NEW a \in Actions,
           \/ MarkApplied(r, a)
           \/ MeasureAction(r, a)
           \/ RevertAction(r, a)
           \/ DismissAction(r, a)
           \/ ConfirmCommerceAction(r, a)
           \/ MeasureRestock(r, a)
    PROVE  IInv'
<1> DEFINE row == ledger[a]
           Decision(edited) ==
              /\ RowSound(edited, a)'
              /\ Keeps(row, edited)
              /\ LegalEdge(row.status, edited.status)
              /\ Reprices(row, edited)
              /\ edited.kind = row.kind
<1>1. row \in Rows /\ RowSound(row, a)
  BY DEF IInv, TypeOK
<1>2. readBack \subseteq readBack' /\ sold \subseteq sold'
  BY DEF MarkApplied, MeasureAction, RevertAction, DismissAction,
         ConfirmCommerceAction, MeasureRestock
<1>3. ASSUME NEW edited \in Rows, Load(r, a, edited), Decision(edited)
      PROVE  IInv'
  BY <1>2, <1>3, HandlerSound
<1> HIDE DEF row
<1>4. CASE MarkApplied(r, a)
  <2>1. PICK edited \in Rows :
          /\ Load(r, a, edited)
          /\ \E given \in BOOLEAN : edited = AppliedByHand(row, given)
    BY <1>1, <1>4, EditedTyped DEF MarkApplied, row
  <2>2. row.status \in {"proposed", "reverted"}
    BY <1>4 DEF MarkApplied, row
  <2>3. RowSound(edited, a)'
    BY <1>1, <1>2, <2>1, <2>2 DEF AppliedByHand, Rows, RowSound, Earned, OnRecord
  <2>4. /\ Keeps(row, edited)
        /\ LegalEdge(row.status, edited.status)
        /\ Reprices(row, edited)
        /\ edited.kind = row.kind
    BY <1>1, <2>1, <2>2 DEF AppliedByHand, Rows, Keeps, LegalEdge, Reprices, RowSound, OnRecord
  <2> QED BY <1>3, <2>1, <2>3, <2>4
<1>5. CASE MeasureAction(r, a)
  <2>1. PICK edited \in Rows :
          /\ Load(r, a, edited)
          /\ \E price \in {"typed_provisional", "typed"} : edited = PricedByCaller(row, price)
    BY <1>1, <1>5, EditedTyped DEF MeasureAction, row
  <2>2. row.status \in {"applied", "measured"}
    BY <1>5 DEF MeasureAction, row
  <2>3. RowSound(edited, a)'
    BY <1>1, <1>2, <2>1, <2>2 DEF PricedByCaller, Rows, RowSound, Earned, OnRecord
  <2>4. /\ Keeps(row, edited)
        /\ LegalEdge(row.status, edited.status)
        /\ Reprices(row, edited)
        /\ edited.kind = row.kind
    BY <1>1, <2>1, <2>2 DEF PricedByCaller, Rows, Keeps, LegalEdge, Reprices, RowSound, OnRecord
  <2> QED BY <1>3, <2>1, <2>3, <2>4
<1>6. CASE RevertAction(r, a)
  <2>1. PICK edited \in Rows :
          /\ Load(r, a, edited)
          /\ edited = Reverted(row)
    BY <1>1, <1>6, EditedTyped DEF RevertAction, row
  <2>2. row.status \in {"applied", "measured"}
    BY <1>6 DEF RevertAction, row
  <2>3. RowSound(edited, a)'
    BY <1>1, <1>2, <2>1, <2>2 DEF Reverted, Rows, RowSound, Earned, OnRecord
  <2>4. /\ Keeps(row, edited)
        /\ LegalEdge(row.status, edited.status)
        /\ Reprices(row, edited)
        /\ edited.kind = row.kind
    BY <1>1, <2>1, <2>2 DEF Reverted, Rows, Keeps, LegalEdge, Reprices, RowSound, OnRecord
  <2> QED BY <1>3, <2>1, <2>3, <2>4
<1>7. CASE DismissAction(r, a)
  <2>1. PICK edited \in Rows :
          /\ Load(r, a, edited)
          /\ edited = Dismissed(row)
    BY <1>1, <1>7, EditedTyped DEF DismissAction, row
  <2>2. row.status = "proposed"
    BY <1>7 DEF DismissAction, row
  <2>3. RowSound(edited, a)'
    BY <1>1, <1>2, <2>1, <2>2 DEF Dismissed, Rows, RowSound, Earned, OnRecord
  <2>4. /\ Keeps(row, edited)
        /\ LegalEdge(row.status, edited.status)
        /\ Reprices(row, edited)
        /\ edited.kind = row.kind
    BY <1>1, <2>1, <2>2 DEF Dismissed, Rows, Keeps, LegalEdge, Reprices, RowSound, OnRecord
  <2> QED BY <1>3, <2>1, <2>3, <2>4
<1>8. CASE ConfirmCommerceAction(r, a)
  <2>1. PICK edited \in Rows :
          /\ Load(r, a, edited)
          /\ edited = Confirmed(row)
    BY <1>1, <1>8, EditedTyped DEF ConfirmCommerceAction, row
  <2>2. row.status = "proposed" /\ a \in readBack'
    BY <1>8 DEF ConfirmCommerceAction, row
  <2>3. RowSound(edited, a)'
    BY <1>1, <1>2, <2>1, <2>2 DEF Confirmed, Rows, RowSound, Earned, OnRecord
  <2>4. /\ Keeps(row, edited)
        /\ LegalEdge(row.status, edited.status)
        /\ Reprices(row, edited)
        /\ edited.kind = row.kind
    BY <1>1, <2>1, <2>2 DEF Confirmed, Rows, Keeps, LegalEdge, Reprices, RowSound, OnRecord
  <2> QED BY <1>3, <2>1, <2>3, <2>4
<1>9. CASE MeasureRestock(r, a)
  <2>1. PICK edited \in Rows :
          /\ Load(r, a, edited)
          /\ \E units \in {"days_sold", "days_unsold"} :
            edited = PricedFromDays(row, units) /\ (units = "days_sold" => a \in sold')
    BY <1>1, <1>9, EditedTyped DEF MeasureRestock, row
  <2>2. row.status = "applied" /\ ~row.measuredAt
    BY <1>9 DEF MeasureRestock, row
  <2>3. RowSound(edited, a)'
    BY <1>1, <1>2, <2>1, <2>2 DEF PricedFromDays, EvidenceFor, Rows, RowSound, Earned, OnRecord
  <2>4. /\ Keeps(row, edited)
        /\ LegalEdge(row.status, edited.status)
        /\ Reprices(row, edited)
        /\ edited.kind = row.kind
    BY <1>1, <2>1, <2>2 DEF PricedFromDays, Rows, Keeps, LegalEdge, Reprices, RowSound, OnRecord
  <2> QED BY <1>3, <2>1, <2>3, <2>4
<1> QED BY <1>4, <1>5, <1>6, <1>7, <1>8, <1>9

\* A request that ends without writing takes its decision with it.
LEMMA AbortSound ==
    ASSUME IInv, TypeOK', NEW r \in Requests, Abort(r)
    PROVE  IInv'
<1>1. \A q \in Requests : q # r => session'[q] = session[q]
  BY DEF Abort, IInv, TypeOK
<1>2. session'[r].action \notin Actions
  BY DEF Abort, IInv, TypeOK, Idle
<1>3. UNCHANGED <<ledger, readBack, sold>>
  BY DEF Abort
<1>4. \A q \in Requests : session'[q].action \in Actions => SessionSound(session[q])'
  BY <1>1, <1>2, <1>3 DEF IInv, SessionSound, RowSound, Earned, OnRecord
<1>5. \A b \in Actions : RowSound(ledger[b], b)'
  BY <1>3 DEF IInv, RowSound, Earned, OnRecord
<1> QED BY <1>4, <1>5 DEF IInv

\* The inductive invariant: rows, and the decisions in flight, are sound.
THEOREM Soundness == Spec => []IInv
<1>1. Init => IInv
  <2> SUFFICES ASSUME Init PROVE IInv
    OBVIOUS
  <2>1. TypeOK
    BY BlankTyped DEF Init, TypeOK, Idle
  <2>2. \A a \in Actions : RowSound(ledger[a], a)
    BY DEF Init, Absent, NewRow, RowSound, Earned, OnRecord
  <2>3. \A r \in Requests : session[r].action \notin Actions
    BY DEF Init, Idle
  <2> QED BY <2>1, <2>2, <2>3 DEF IInv
<1>2. IInv /\ [Next]_vars => IInv'
  <2> SUFFICES ASSUME IInv, [Next]_vars PROVE IInv'
    OBVIOUS
  <2>1. TypeOK'
    BY TypeStep DEF IInv
  <2>2. CASE UNCHANGED vars
    BY <2>2 DEF vars, IInv, TypeOK, RowSound, Earned, SessionSound
  <2> QED
    BY <2>1, <2>2, OpenActionSound, HandlerActionSound, CommitSound, AbortSound DEF Next
<1> QED BY <1>1, <1>2, PTL DEF Spec

\* A row that calls itself real is earned, whatever the requests interleaved.
THEOREM RealMoneyIsEarned == Spec => []RealIsEarned
<1>1. IInv => RealIsEarned
  BY DEF IInv, RowSound, RealIsEarned
<1> QED BY <1>1, Soundness, PTL

\* Whatever is in effect says who did it, and against which before-picture.
THEOREM NothingInEffectOffRecord == Spec => []InEffectIsOnRecord
<1>1. IInv => InEffectIsOnRecord
  BY DEF IInv, RowSound, InEffectIsOnRecord
<1> QED BY <1>1, Soundness, PTL

\* A commit onto the row the request loaded follows the lifecycle and the
\* pricing rule, since then the flush leaves the row the handler decided on.
LEMMA FreshCommit ==
    ASSUME IInv, NEW r \in Requests, Commit(r), ~Stale(r), NEW a \in Actions
    PROVE  /\ LegalEdge(ledger[a].status, ledger'[a].status)
           /\ Reprices(ledger[a], ledger'[a])
<1> DEFINE s == session[r]
<1>1. /\ s.action \in Actions /\ SessionSound(s)
      /\ s.loaded = ledger[s.action]
  BY DEF Commit, IInv, Stale
<1>2. CASE a = s.action
  <2>1. ledger'[a] = Flush(s.loaded, s.loaded, s.edited)
    BY <1>1, <1>2 DEF Commit, IInv, TypeOK
  <2>2. /\ ledger'[a].status = s.edited.status
        /\ ledger'[a].impact = s.edited.impact
    BY <2>1 DEF Flush
  <2> QED BY <1>1, <1>2, <2>2 DEF SessionSound, Reprices
<1>3. CASE a # s.action
  <2>1. ledger'[a] = ledger[a]
    BY <1>3, <1>1 DEF Commit, IInv, TypeOK
  <2> QED BY <2>1 DEF LegalEdge, Reprices
<1> QED BY <1>2, <1>3

\* A stale commit touches the row it loaded and no other.
LEMMA CommitElsewhere ==
    ASSUME TypeOK, NEW r \in Requests, Commit(r), NEW a \in Actions,
           session[r].action # a
    PROVE  ledger'[a] = ledger[a]
BY DEF Commit, TypeOK

\* Every step that is not the stale commit of a's own request is regular.
LEMMA RegularStep ==
    ASSUME IInv, [Next]_vars, NEW a \in Actions
    PROVE  \/ /\ LegalEdge(ledger[a].status, ledger'[a].status)
              /\ Reprices(ledger[a], ledger'[a])
           \/ \E r \in Requests : session[r].action = a /\ Stale(r) /\ Commit(r)
<1> DEFINE Regular == /\ LegalEdge(ledger[a].status, ledger'[a].status)
                      /\ Reprices(ledger[a], ledger'[a])
<1>1. ledger'[a] = ledger[a] => Regular
  BY DEF LegalEdge, Reprices
<1>2. ASSUME NEW b \in Actions,
             CreateAction(b) \/ ScanStore(b) \/ ScanAds(b) \/ ScanAdsApplied(b)
      PROVE  Regular
  <2>1. ASSUME NEW row \in Rows, Open(b, row), row.status \in {"proposed", "applied"}
        PROVE  Regular
    <3>1. CASE a = b
      <4>1. ledger'[a] = row /\ ledger[a].status = "absent"
        BY <2>1, <3>1 DEF Open, IInv, TypeOK
      <4>2. ledger[a].impact \notin {"days_sold", "days_unsold"}
        BY <4>1 DEF IInv, RowSound, OnRecord
      <4> QED BY <2>1, <4>1, <4>2 DEF LegalEdge, Reprices
    <3>2. CASE a # b
      BY <1>1, <2>1, <3>2 DEF Open, IInv, TypeOK
    <3> QED BY <3>1, <3>2
  <2>2. \E row \in Rows : Open(b, row) /\ row.status \in {"proposed", "applied"}
    BY <1>2, OpenedTyped
       DEF CreateAction, ScanStore, ScanAds, ScanAdsApplied, NewRow, AppliedByOperator
  <2> QED BY <2>1, <2>2
<1>3. ASSUME NEW r \in Requests, NEW b \in Actions,
             \/ MarkApplied(r, b)
             \/ MeasureAction(r, b)
             \/ RevertAction(r, b)
             \/ DismissAction(r, b)
             \/ ConfirmCommerceAction(r, b)
             \/ MeasureRestock(r, b)
      PROVE  Regular
  BY <1>1, <1>3 DEF MarkApplied, MeasureAction, RevertAction, DismissAction,
                    ConfirmCommerceAction, MeasureRestock, Load
<1>4. ASSUME NEW r \in Requests, Commit(r)
      PROVE  Regular \/ (session[r].action = a /\ Stale(r))
  BY <1>1, <1>4, FreshCommit, CommitElsewhere DEF IInv
<1>5. ASSUME NEW r \in Requests, Abort(r)
      PROVE  Regular
  BY <1>1, <1>5 DEF Abort
<1>6. CASE UNCHANGED vars
  BY <1>1, <1>6 DEF vars
<1> HIDE DEF Regular
<1> QED BY <1>2, <1>3, <1>4, <1>5, <1>6 DEF Next, Regular

\* A row leaves its lifecycle only in the commit of a stale request.
THEOREM LifecycleHolds == Spec => OffLifecycleOnlyWhenStale
<1>1. IInv /\ [Next]_vars =>
        [\A a \in Actions :
           \/ LegalEdge(ledger[a].status, ledger'[a].status)
           \/ \E r \in Requests : session[r].action = a /\ Stale(r) /\ Commit(r)]_vars
  BY RegularStep
<1> QED BY <1>1, Soundness, PTL DEF Spec, OffLifecycleOnlyWhenStale

\* A price read from the store's days survives all but typing and staleness.
THEOREM DaysPriceStands == Spec => DaysPriceReplacedOnlyByTyping
<1>1. IInv /\ [Next]_vars =>
        [\A a \in Actions :
           \/ Reprices(ledger[a], ledger'[a])
           \/ \E r \in Requests : session[r].action = a /\ Stale(r) /\ Commit(r)]_vars
  BY RegularStep
<1> QED BY <1>1, Soundness, PTL DEF Spec, DaysPriceReplacedOnlyByTyping

---------------------------------------------------------------------------
(* How the shop's days reach a price (module Measurement): for any number  *)
(* of syncs, days and orders.                                              *)

USE MeasurementAssumption

OnDay(T, d) == {t \in T : Day(t) = d}
Within(T, W) == {t \in T : Day(t) \in W}
UnitPairs(units, W, n) == {u \in W \X (1..n) : u[2] <= units[u[1]]}

LEMMA UnitsAreCounted == \A T, d : UnitsOn(T, d) = Cardinality(OnDay(T, d))
BY DEF UnitsOn, OnDay

LEMMA TicksAreFinite ==
    ASSUME NEW S, NEW T, S \subseteq T, T \subseteq Ticks
    PROVE  /\ IsFiniteSet(S) /\ Cardinality(S) \in Nat
           /\ IsFiniteSet(T) /\ Cardinality(T) \in Nat
           /\ Cardinality(S) <= Cardinality(T)
<1>1. IsFiniteSet(0..(2 * LastDay))
  BY FS_Interval
<1>2. IsFiniteSet(T)
  BY <1>1, FS_Subset DEF Ticks
<1>3. IsFiniteSet(S) /\ Cardinality(S) <= Cardinality(T)
  BY <1>2, FS_Subset
<1>4. QED
  BY <1>2, <1>3, FS_CardinalityType

\* No more units than ticks on each day of a window, no more in the window.
LEMMA FewerUnits ==
    ASSUME NEW W, NEW T, T \subseteq Ticks, NEW n \in Nat, NEW units,
           \A d \in W : units[d] \in 0..n /\ units[d] <= Cardinality(OnDay(T, d))
    PROVE  /\ IsFiniteSet(UnitPairs(units, W, n))
           /\ Cardinality(UnitPairs(units, W, n)) <= Cardinality(Within(T, W))
<1> DEFINE pairs == {u \in W \X (1..n) : u[2] <= units[u[1]]}
           in == {t \in T : Day(t) \in W}
<1> DEFINE first == [d \in W |-> CHOOSE f : f \in Injection(1..units[d], OnDay(T, d))]
<1>1. ASSUME NEW d \in W
      PROVE  first[d] \in Injection(1..units[d], OnDay(T, d))
  <2> PICK m : m = Cardinality(OnDay(T, d))
    OBVIOUS
  <2>1. IsFiniteSet(OnDay(T, d))
    BY TicksAreFinite DEF OnDay
  <2>2. m \in Nat /\ ExistsBijection(1..m, OnDay(T, d))
    BY <2>1, FS_CardinalityType
  <2>3. PICK f : f \in Bijection(1..m, OnDay(T, d))
    BY <2>2 DEF ExistsBijection
  <2>4. 1..units[d] \subseteq 1..m
    BY <2>2
  <2>5. [i \in 1..units[d] |-> f[i]] \in Injection(1..units[d], OnDay(T, d))
    BY <2>3, <2>4 DEF Bijection, Injection, IsInjective
  <2>6. QED
    BY <2>5
<1> HIDE DEF first
<1> DEFINE f == [u \in pairs |-> first[u[1]][u[2]]]
<1>2. \A u \in pairs : /\ u[1] \in W /\ u[2] \in 1..units[u[1]] /\ u = <<u[1], u[2]>>
                       /\ f[u] \in T /\ Day(f[u]) = u[1]
  <2> TAKE u \in pairs
  <2>1. u[1] \in W /\ u[2] \in 1..units[u[1]] /\ u = <<u[1], u[2]>>
    OBVIOUS
  <2>2. first[u[1]][u[2]] \in OnDay(T, u[1])
    BY <1>1, <2>1 DEF Injection
  <2>3. QED
    BY <2>1, <2>2 DEF OnDay
<1>3. f \in [pairs -> in]
  BY <1>2
<1>4. ASSUME NEW u \in pairs, NEW v \in pairs, f[u] = f[v]
      PROVE  u = v
  <2>1. u[1] = v[1]
    BY <1>2, <1>4
  <2>2. first[u[1]][u[2]] = first[u[1]][v[2]] /\ u[2] \in 1..units[u[1]] /\ v[2] \in 1..units[u[1]]
    BY <1>2, <1>4, <2>1
  <2>3. u[2] = v[2]
    BY <1>1, <1>2, <2>2 DEF Injection, IsInjective
  <2>4. QED
    BY <1>2, <2>1, <2>3
<1>5. f \in Injection(pairs, in)
  BY <1>3, <1>4 DEF Injection, IsInjective
<1>6. IsFiniteSet(in)
  BY TicksAreFinite
<1>7. pairs = UnitPairs(units, W, n) /\ in = Within(T, W)
  BY DEF UnitPairs, Within
<1> HIDE DEF f, pairs, in
<1>8. QED
  BY <1>5, <1>6, <1>7, FS_Injection

\* No fewer units than ticks on each day, no fewer in the window.
LEMMA MoreUnits ==
    ASSUME NEW W, NEW T, T \subseteq Ticks, NEW n \in Nat, NEW units,
           \A d \in W : units[d] \in 0..n /\ Cardinality(OnDay(T, d)) <= units[d],
           IsFiniteSet(UnitPairs(units, W, n))
    PROVE  Cardinality(Within(T, W)) <= Cardinality(UnitPairs(units, W, n))
<1> DEFINE pairs == {u \in W \X (1..n) : u[2] <= units[u[1]]}
           in == {t \in T : Day(t) \in W}
<1> DEFINE place == [d \in W |-> CHOOSE f : f \in Injection(OnDay(T, d), 1..units[d])]
<1>1. ASSUME NEW d \in W
      PROVE  place[d] \in Injection(OnDay(T, d), 1..units[d])
  <2> PICK m : m = Cardinality(OnDay(T, d))
    OBVIOUS
  <2>1. IsFiniteSet(OnDay(T, d))
    BY TicksAreFinite DEF OnDay
  <2>2. m \in Nat /\ ExistsBijection(1..m, OnDay(T, d))
    BY <2>1, FS_CardinalityType
  <2>3. PICK f : f \in Bijection(1..m, OnDay(T, d))
    BY <2>2 DEF ExistsBijection
  <2>4. 1..m \subseteq 1..units[d]
    BY <2>2
  <2> DEFINE g == [t \in OnDay(T, d) |-> CHOOSE i \in 1..m : f[i] = t]
  <2>5. \A t \in OnDay(T, d) : \E i \in 1..m : f[i] = t
    BY <2>3 DEF Bijection, Surjection
  <2>6. \A t \in OnDay(T, d) : g[t] \in 1..m /\ f[g[t]] = t
    BY <2>5
  <2>7. g \in [OnDay(T, d) -> 1..units[d]]
    BY <2>4, <2>6
  <2> HIDE DEF g
  <2>8. g \in Injection(OnDay(T, d), 1..units[d])
    BY <2>6, <2>7 DEF Injection, IsInjective
  <2>9. QED
    BY <2>8
<1> HIDE DEF place
<1> DEFINE f == [t \in in |-> <<Day(t), place[Day(t)][t]>>]
<1>2. \A t \in in : /\ Day(t) \in W /\ t \in OnDay(T, Day(t))
                    /\ place[Day(t)][t] \in 1..units[Day(t)]
  BY <1>1 DEF OnDay, Injection
<1>3. f \in [in -> pairs]
  BY <1>2
<1>4. ASSUME NEW t \in in, NEW u \in in, f[t] = f[u]
      PROVE  t = u
  <2> PICK d : d = Day(t)
    OBVIOUS
  <2>1. d = Day(u) /\ place[d][t] = place[d][u]
    BY <1>4
  <2>2. d \in W /\ t \in OnDay(T, d) /\ u \in OnDay(T, d)
    BY <1>2, <2>1
  <2>3. QED
    BY <1>1, <2>1, <2>2 DEF Injection, IsInjective
<1>5. f \in Injection(in, pairs)
  BY <1>3, <1>4 DEF Injection, IsInjective
<1>6. pairs = UnitPairs(units, W, n) /\ in = Within(T, W)
  BY DEF UnitPairs, Within
<1> HIDE DEF f, pairs, in
<1>7. QED
  BY <1>5, <1>6, FS_Injection

LEMMA HalfOf ==
    ASSUME NEW a \in Int
    PROVE  a \div 2 \in Int /\ 2 * (a \div 2) <= a /\ a < 2 * (a \div 2) + 2
  BY SMT

\* A day is two ticks.
LEMMA TicksAndDays ==
    /\ LastDay \in Nat /\ MaxOrders \in Nat /\ MeasurementDays \in Nat \ {0}
    /\ Days = 0..LastDay /\ Never = LastDay + 1 /\ Ticks = 0..(2 * LastDay)
    /\ \A t \in Ticks : Day(t) \in Days
    /\ \A t, u \in Ticks : t <= u => Day(t) <= Day(u)
<1>1. LastDay \in Nat /\ MaxOrders \in Nat /\ MeasurementDays \in Nat \ {0}
  OBVIOUS
<1>2. \A t \in Int : /\ Day(t) \in Int /\ 2 * Day(t) <= t
                     /\ t < 2 * Day(t) + 2
  BY HalfOf DEF Day
<1>3. Days = 0..LastDay /\ Never = LastDay + 1 /\ Ticks = 0..(2 * LastDay)
  BY DEF Days, Never, Ticks
<1>4. ASSUME NEW t \in Ticks
      PROVE  Day(t) \in Days
  <2>1. t \in Int /\ 0 <= t /\ t <= 2 * LastDay
    BY <1>1, <1>3
  <2> PICK d : d = Day(t)
    OBVIOUS
  <2>2. d \in Int /\ 2 * d <= t /\ t < 2 * d + 2
    BY <1>2, <2>1
  <2>3. d \in 0..LastDay
    BY <1>1, <2>1, <2>2
  <2>4. QED
    BY <1>3, <2>3
<1>5. ASSUME NEW t \in Ticks, NEW u \in Ticks, t <= u
      PROVE  Day(t) <= Day(u)
  <2>1. t \in Int /\ u \in Int
    BY <1>1, <1>3
  <2> PICK d : d = Day(t)
    OBVIOUS
  <2> PICK e : e = Day(u)
    OBVIOUS
  <2>2. d \in Int /\ 2 * d <= t /\ t < 2 * d + 2 /\ e \in Int /\ 2 * e <= u /\ u < 2 * e + 2
    BY <1>2, <2>1
  <2>3. d <= e
    BY <1>5, <2>1, <2>2
  <2>4. QED
    BY <2>3
<1>6. QED
  BY <1>1, <1>3, <1>4, <1>5

\* Nothing is stamped or ordered ahead of the clock.
Dated ==
    /\ \A t \in Placed : t <= now
    /\ Cardinality(Placed) <= MaxOrders
    /\ channel.synced_at <= Today
    /\ owner # NoWork => owner.stamp <= Today

\* What a sync has read is all that is kept since its cutoff, but for the day
\* it read on.
ReadWell(s) ==
    /\ s.net \subseteq s.read /\ s.read \subseteq Placed
    /\ s.readOn <= Today /\ s.stamp <= Today
    /\ \A t \in Kept : s.cutoff <= t /\ Day(t) < s.readOn => t \in s.net

Synced == \A j \in Jobs : job[j] # NoWork => ReadWell(job[j])

\* No day has more units than were ordered on it; and while the row is as one
\* tidy sync left it, a day strictly inside its range has all that were kept.
FiledWell ==
    /\ \A d \in Days : variant[d] <= Cardinality(OnDay(Placed, d))
    /\ sound => \A d \in Days :
                  channel.from < d /\ d < channel.synced_at
                     => Cardinality(OnDay(Kept, d)) <= variant[d]

\* A window found covered stays so until its days are read.
JudgedWell ==
    /\ judged # "none" \/ priced # Unpriced => WindowComplete
    /\ judged = "strictly_covered" =>
         \A d \in Window : Cardinality(OnDay(Kept, d)) <= variant[d]
    /\ PricedUnitsWereSold

Metered == MeasurementTypeOK /\ Dated /\ Synced /\ FiledWell /\ JudgedWell

LEMMA Clock ==
    ASSUME MeasurementTypeOK
    PROVE  /\ now \in Ticks /\ Today \in Days
           /\ Placed \subseteq Ticks /\ Kept \subseteq Placed
           /\ channel.synced_at \in Days /\ channel.from \in Days \cup {Never}
           /\ confirmed \in Days \cup {Never}
           /\ \A d \in Days : variant[d] \in 0..MaxOrders
BY TicksAndDays DEF MeasurementTypeOK, Today, Placed, Kept

\* The window of a confirmed restock that is over lies before today.
LEMMA WindowIsPast ==
    ASSUME MeasurementTypeOK, WindowComplete
    PROVE  /\ Window \subseteq Days
           /\ \A d \in Window : d < Today
<1>1. /\ confirmed \in 0..LastDay /\ Today \in 0..LastDay
      /\ Today - 1 >= Last
  BY TicksAndDays, Clock DEF WindowComplete
<1>2. Last = confirmed + 1 + MeasurementDays - 1 /\ Window = (confirmed + 1)..Last
  BY DEF Window, First, Last
<1>3. LastDay \in Nat /\ MeasurementDays \in Nat /\ Days = 0..LastDay
  BY TicksAndDays
<1>4. QED
  BY <1>1, <1>2, <1>3

LEMMA InitMetered ==
    ASSUME MeasurementInit
    PROVE  Metered
<1>1. 0 \in Ticks /\ 0 \in Days /\ Day(0) = 0
  BY TicksAndDays, HalfOf DEF Day
<1>2. MeasurementTypeOK
  <2>1. now \in Ticks /\ orders \in [Ticks -> {"none", "sold", "refunded", "cancelled"}]
    BY <1>1 DEF MeasurementInit
  <2>2. variant \in [Days -> 0..MaxOrders]
    BY TicksAndDays DEF MeasurementInit
  <2>3. channel \in [status: {"connected", "disconnected"}, synced_at: Days,
                     from: Days \cup {Never}]
    BY <1>1 DEF MeasurementInit
  <2>4. job \in [Jobs -> Syncs \cup {NoWork}] /\ owner \in OwnerRequests \cup {NoWork}
        /\ asked \in 0..MaxRequests
    BY DEF MeasurementInit
  <2>5. /\ confirmed \in Days \cup {Never}
        /\ judged \in {"none", "covered", "strictly_covered"}
        /\ priced \in {Unpriced} \cup [units: 0..MaxOrders, strictly: BOOLEAN]
        /\ sound \in BOOLEAN
    BY DEF MeasurementInit
  <2>6. QED
    BY <2>1, <2>2, <2>3, <2>4, <2>5 DEF MeasurementTypeOK
<1>3. Placed = {} /\ Kept = {}
  BY DEF MeasurementInit, Placed, Kept
<1>4. Dated
  BY <1>1, <1>3, FS_EmptySet, TicksAndDays DEF MeasurementInit, Dated, Today
<1>5. Synced
  BY DEF MeasurementInit, Synced
<1>6. FiledWell
  <2>1. \A d \in Days : OnDay(Placed, d) = {} /\ variant[d] = 0
    BY <1>3 DEF MeasurementInit, OnDay
  <2>2. QED
    BY <2>1, FS_EmptySet DEF FiledWell, MeasurementInit
<1>7. JudgedWell
  BY DEF MeasurementInit, JudgedWell, PricedUnitsWereSold
<1>8. QED
  BY <1>2, <1>4, <1>5, <1>6, <1>7 DEF Metered

LEMMA CountsGrow ==
    ASSUME NEW S, NEW T, S \subseteq T, T \subseteq Ticks, NEW d
    PROVE  /\ Cardinality(OnDay(S, d)) \in Nat /\ Cardinality(OnDay(T, d)) \in Nat
           /\ Cardinality(OnDay(S, d)) <= Cardinality(OnDay(T, d))
<1>1. OnDay(S, d) \subseteq OnDay(T, d) /\ OnDay(T, d) \subseteq Ticks
  BY DEF OnDay
<1>2. QED
  BY <1>1, TicksAreFinite

\* What is ordered is ordered today, and what was returned is kept no more.
LEMMA OrderedToday ==
    ASSUME Metered, MeasurementTypeOK', Dated',
           UNCHANGED <<now, variant, channel, job, owner, asked, confirmed, judged, priced, sound>>,
           Placed \subseteq Placed',
           \A t \in Kept' : t \in Kept \/ t = now
    PROVE  Metered'
<1> PICK P : P = Placed
  OBVIOUS
<1> PICK K : K = Kept
  OBVIOUS
<1> PICK P2 : P2 = Placed'
  OBVIOUS
<1> PICK K2 : K2 = Kept'
  OBVIOUS
<1>1. /\ P \subseteq P2 /\ P2 \subseteq Ticks /\ K2 \subseteq P2 /\ K \subseteq P
      /\ \A t \in K2 : t \in K \/ t = now
  BY Clock DEF Metered, Placed, Kept, MeasurementTypeOK, Ticks
<1>2. Today' = Today /\ Today = Day(now) /\ Today \in Days
  BY Clock DEF Metered, Today
<1>3. ASSUME NEW d \in Days, d # Today
      PROVE  Cardinality(OnDay(K2, d)) <= Cardinality(OnDay(K, d))
  <2>1. OnDay(K2, d) \subseteq OnDay(K, d)
    BY <1>1, <1>2, <1>3 DEF OnDay
  <2>2. OnDay(K, d) \subseteq Ticks
    BY <1>1 DEF OnDay
  <2>3. QED
    BY <2>1, <2>2, TicksAreFinite
<1>4. Synced'
  <2> SUFFICES ASSUME NEW j \in Jobs, job[j] # NoWork
               PROVE  ReadWell(job[j])'
    BY DEF Synced
  <2> PICK s : s = job[j]
    OBVIOUS
  <2>1. ReadWell(s) /\ s \in Syncs
    BY DEF Metered, Synced, MeasurementTypeOK
  <2>2. s.read \subseteq P2 /\ \A t \in K2 : s.cutoff <= t /\ Day(t) < s.readOn => t \in s.net
    <3>1. s.read \subseteq P2
      BY <1>1, <2>1 DEF ReadWell
    <3>2. ~(Day(now) < s.readOn)
      BY <1>2, <2>1, TicksAndDays DEF ReadWell, Syncs
    <3>3. QED
      BY <1>1, <2>1, <3>1, <3>2 DEF ReadWell
  <2>3. (ReadWell(s))'
    BY <1>2, <2>1, <2>2 DEF ReadWell
  <2>4. QED
    BY <2>3
<1>5. FiledWell'
  <2>1. \A d \in Days : variant[d] <= Cardinality(OnDay(P2, d))
    <3> TAKE d \in Days
    <3>1. variant[d] <= Cardinality(OnDay(P, d)) /\ variant[d] \in Nat
      BY Clock, TicksAndDays DEF Metered, FiledWell
    <3>2. QED
      BY <1>1, <3>1, CountsGrow
  <2>2. ASSUME sound, NEW d \in Days, channel.from < d, d < channel.synced_at
        PROVE  Cardinality(OnDay(K2, d)) <= variant[d]
    <3>1. Cardinality(OnDay(K, d)) <= variant[d] /\ variant[d] \in Nat
      BY SMTT(30), <2>2, Clock, TicksAndDays DEF Metered, FiledWell
    <3>2. d # Today
      BY <1>2, <2>2, Clock, TicksAndDays DEF Metered, Dated
    <3>3. K2 \subseteq Ticks /\ K \subseteq Ticks
      BY <1>1
    <3>4. Cardinality(OnDay(K2, d)) \in Nat /\ Cardinality(OnDay(K, d)) \in Nat
      BY <3>3, CountsGrow
    <3>5. QED
      BY <1>3, <3>1, <3>2, <3>4
  <2>3. (\A d \in Days : variant[d] <= Cardinality(OnDay(Placed, d)))'
    BY <2>1 DEF Days, OnDay, Day
  <2>4. (sound => \A d \in Days :
                  channel.from < d /\ d < channel.synced_at
                     => Cardinality(OnDay(Kept, d)) <= variant[d])'
    BY <2>2 DEF Days, OnDay, Day
  <2>5. QED
    BY <2>3, <2>4 DEF FiledWell
<1>6. JudgedWell'
  <2>1. /\ WindowComplete' = WindowComplete /\ Window' = Window
    BY <1>2 DEF WindowComplete, Window, First, Last, Never
  <2>2. judged # "none" \/ priced # Unpriced =>
          /\ WindowComplete /\ Window \subseteq Days
          /\ \A d \in Window : d # Today
    BY <1>2, WindowIsPast, TicksAndDays DEF Metered, JudgedWell
  <2>3. ASSUME judged = "strictly_covered", NEW d \in Window
        PROVE  Cardinality(OnDay(K2, d)) <= variant[d]
    <3>1. d \in Days /\ d # Today
      BY <2>2, <2>3
    <3>2. Cardinality(OnDay(K, d)) <= variant[d] /\ variant[d] \in Nat
      BY <2>3, <3>1, Clock, TicksAndDays DEF Metered, JudgedWell
    <3>3. K2 \subseteq Ticks /\ K \subseteq Ticks
      BY <1>1
    <3>4. Cardinality(OnDay(K2, d)) \in Nat /\ Cardinality(OnDay(K, d)) \in Nat
      BY <3>3, CountsGrow
    <3>5. QED
      BY <1>3, <3>1, <3>2, <3>4
  <2>4. ASSUME priced # Unpriced
        PROVE  /\ priced.units <= Cardinality(InWindow(P2))
               /\ priced.strictly => priced.units >= Cardinality(InWindow(K2))
    <3>1. /\ priced.units <= Cardinality(InWindow(P)) /\ priced.units \in Nat
          /\ priced.strictly => priced.units >= Cardinality(InWindow(K))
      BY <2>4, TicksAndDays DEF Metered, JudgedWell, PricedUnitsWereSold, MeasurementTypeOK
    <3>2. /\ InWindow(P) \subseteq InWindow(P2)
          /\ InWindow(P2) \subseteq Ticks
          /\ InWindow(K2) \subseteq InWindow(K)
          /\ InWindow(K) \subseteq Ticks
      BY <1>1, <1>2, <2>2, <2>4 DEF InWindow
    <3>3. Cardinality(InWindow(P)) <= Cardinality(InWindow(P2))
          /\ Cardinality(InWindow(P)) \in Nat /\ Cardinality(InWindow(P2)) \in Nat
      BY <3>2, TicksAreFinite
    <3>4. Cardinality(InWindow(K2)) <= Cardinality(InWindow(K))
          /\ Cardinality(InWindow(K)) \in Nat /\ Cardinality(InWindow(K2)) \in Nat
      BY <3>2, TicksAreFinite
    <3>5. QED
      BY <3>1, <3>3, <3>4
  <2>5. PricedUnitsWereSold'
    <3>1. /\ (InWindow(Placed))' = InWindow(P2)
          /\ (InWindow(Kept))' = InWindow(K2)
      BY <2>1 DEF InWindow, Day
    <3>2. QED
      BY <2>4, <3>1 DEF PricedUnitsWereSold, Unpriced
  <2>6. (judged = "strictly_covered" =>
           \A d \in Window : Cardinality(OnDay(Kept, d)) <= variant[d])'
    BY <2>1, <2>3 DEF OnDay, Day
  <2>7. (judged # "none" \/ priced # Unpriced => WindowComplete)'
    BY <2>1, <2>2 DEF Unpriced
  <2>8. QED
    BY <2>5, <2>6, <2>7 DEF JudgedWell
<1>7. QED
  BY <1>4, <1>5, <1>6 DEF Metered

LEMMA ShopMetered ==
    ASSUME Metered,
           \/ PlaceOrder
           \/ \E t \in Ticks, how \in {"refunded", "cancelled"} : Return(t, how)
    PROVE  Metered'
<1>1. UNCHANGED <<now, variant, channel, job, owner, asked, confirmed, judged, priced, sound>>
  BY DEF PlaceOrder, Return, Syncing, Connection, Measuring
<1>2. /\ now \in Ticks /\ Placed \subseteq Ticks /\ MaxOrders \in Nat
      /\ orders \in [Ticks -> {"none", "sold", "refunded", "cancelled"}]
  BY Clock, TicksAndDays DEF Metered, MeasurementTypeOK
<1>3. PICK t \in Ticks, how \in {"sold", "refunded", "cancelled"} :
        /\ orders' = [orders EXCEPT ![t] = how]
        /\ \/ t = now /\ how = "sold" /\ orders[t] = "none" /\ Cardinality(Placed) < MaxOrders
           \/ how # "sold" /\ orders[t] = "sold"
  BY <1>2 DEF PlaceOrder, Return
<1>4. orders' \in [Ticks -> {"none", "sold", "refunded", "cancelled"}]
  BY <1>2, <1>3
<1>5. MeasurementTypeOK'
  BY SMTT(30), <1>1, <1>4 DEF Metered, MeasurementTypeOK, Ticks, Days, Never, Syncs,
     OwnerRequests, NoWork, Unpriced
<1>6. Placed \subseteq Placed' /\ Placed' \subseteq Placed \cup {t}
      /\ \A u \in Kept' : u \in Kept \/ (u = now /\ t = now)
  BY <1>2, <1>3 DEF Placed, Kept, Ticks
<1>7. Dated'
  <2> PICK P2 : P2 = Placed'
    OBVIOUS
  <2>1. Today' = Today
    BY <1>1 DEF Today, Day
  <2>2. \A u \in P2 : u <= now
    <3>1. CASE t = now
      BY <1>2, <1>6, <3>1, TicksAndDays DEF Metered, Dated
    <3>2. CASE t # now
      <4>1. t \in Placed
        BY <1>3, <3>2 DEF Placed
      <4>2. QED
        BY <1>6, <4>1 DEF Metered, Dated
    <3>3. QED
      BY <3>1, <3>2
  <2>3. Cardinality(P2) <= MaxOrders
    <3>1. CASE t \in Placed
      <4>1. P2 = Placed
        BY <1>6, <3>1
      <4>2. QED
        BY <4>1 DEF Metered, Dated
    <3>2. CASE t \notin Placed
      <4> PICK P : P = Placed
        OBVIOUS
      <4>1. IsFiniteSet(P) /\ Cardinality(P) \in Nat /\ P2 \subseteq P \cup {t}
        BY <1>2, <1>6, TicksAreFinite
      <4>2. Cardinality(P) < MaxOrders
        BY <1>3, <3>2 DEF Placed
      <4>3. IsFiniteSet(P \cup {t}) /\ Cardinality(P \cup {t}) = Cardinality(P) + 1
        BY <3>2, <4>1, FS_AddElement
      <4>4. IsFiniteSet(P2) /\ Cardinality(P2) <= Cardinality(P \cup {t})
        BY <4>1, <4>3, FS_Subset
      <4>5. Cardinality(P2) \in Nat
        BY <4>4, FS_CardinalityType
      <4>6. QED
        BY <1>2, <4>1, <4>2, <4>3, <4>4, <4>5
    <3>3. QED
      BY <3>1, <3>2
  <2>4. QED
    BY <1>1, <2>1, <2>2, <2>3 DEF Metered, Dated, NoWork
<1>8. QED
  BY <1>1, <1>5, <1>6, <1>7, OrderedToday

\* A step that leaves the orders and the days alone, and may let time pass.
LEMMA LaterMetered ==
    ASSUME Metered, MeasurementTypeOK', Dated', UNCHANGED <<orders, variant>>,
           now <= now', confirmed' = confirmed \/ confirmed = Never,
           \A j \in Jobs : job'[j] \in {job[j], NoWork} \/ ReadWell(job'[j]),
           sound' => sound /\ channel'.from = channel.from /\ channel'.synced_at = channel.synced_at,
           judged' = judged, priced' = priced
    PROVE  Metered'
<1>1. /\ Placed' = Placed /\ Kept' = Kept
      /\ Today \in Days /\ Today' \in Days
      /\ Today <= Today'
  <2>1. now \in Ticks /\ now' \in Ticks
    BY DEF Metered, MeasurementTypeOK, Ticks
  <2>2. Day(now) <= Day(now') /\ Day(now) \in Days
        /\ Day(now') \in Days
    BY <2>1, TicksAndDays
  <2>3. Placed' = Placed /\ Kept' = Kept
    BY DEF Placed, Kept, Ticks
  <2>4. QED
    BY <2>2, <2>3 DEF Today, Day
<1>2. Synced'
  <2> SUFFICES ASSUME NEW j \in Jobs, job'[j] # NoWork
               PROVE  ReadWell(job[j])'
    BY DEF Synced, NoWork
  <2> PICK s : s = job'[j]
    OBVIOUS
  <2>1. ReadWell(s)
    BY DEF Metered, Synced
  <2>2. s \in Syncs
    BY DEF MeasurementTypeOK, Syncs, Ticks, Days, Never, NoWork
  <2>3. s.readOn \in 0..LastDay /\ s.stamp \in 0..LastDay /\ Today \in 0..LastDay
        /\ Today' \in 0..LastDay
    BY <1>1, <2>2, TicksAndDays DEF Syncs
  <2>4. s.readOn <= Today' /\ s.stamp <= Today'
    BY <1>1, <2>1, <2>3 DEF ReadWell
  <2>5. (ReadWell(s))'
    BY <1>1, <2>1, <2>4 DEF ReadWell, Day
  <2>6. QED
    BY <2>5
<1>3. FiledWell'
  BY <1>1 DEF Metered, FiledWell, OnDay, Day, Days
<1>4. JudgedWell'
  <2>1. CASE judged = "none" /\ priced = Unpriced
    BY <2>1 DEF JudgedWell, PricedUnitsWereSold, Unpriced
  <2>2. CASE judged # "none" \/ priced # Unpriced
    <3>1. WindowComplete
      BY <2>2 DEF Metered, JudgedWell
    <3>2. confirmed' = confirmed /\ Window' = Window /\ Last' = Last
      BY <3>1 DEF WindowComplete, Window, First, Last
    <3>3. WindowComplete'
      <4>1. /\ confirmed \in 0..LastDay /\ Today - 1 >= Last
            /\ Last = confirmed + 1 + MeasurementDays - 1 /\ MeasurementDays \in Nat
            /\ Today \in Int /\ Today' \in Int /\ confirmed # Never
        BY <1>1, <3>1, Clock, TicksAndDays DEF Metered, WindowComplete, Last, First
      <4>2. Today' - 1 >= Last
        <5> PICK l : l = Last
          OBVIOUS
        <5> PICK x : x = Today
          OBVIOUS
        <5> PICK y : y = Today'
          OBVIOUS
        <5>1. l \in Int /\ x \in Int /\ y \in Int /\ x - 1 >= l /\ x <= y
          BY <1>1, <4>1
        <5>2. \A i, j, k \in Int : i - 1 >= k /\ i <= j => j - 1 >= k
          OBVIOUS
        <5>3. y - 1 >= l
          BY <5>1, <5>2, Zenon
        <5>4. QED
          BY <5>3
      <4>3. QED
        BY <3>2, <4>1, <4>2 DEF WindowComplete, Never
    <3>4. PricedUnitsWereSold'
      BY <1>1, <3>2 DEF Metered, JudgedWell, PricedUnitsWereSold,
         InWindow, Unpriced, Day
    <3>5. QED
      BY <1>1, <3>2, <3>3, <3>4 DEF Metered, JudgedWell, OnDay, Day, Unpriced
  <2>3. QED
    BY <2>1, <2>2
<1>5. QED
  BY <1>2, <1>3, <1>4 DEF Metered

\* What is stamped is stamped by the clock.
LEMMA StampedByTheClock ==
    ASSUME Metered, orders' = orders, now' \in {now, now + 1}, now' \in Ticks,
           \/ channel'.synced_at \in {channel.synced_at, Today}
           \/ channel'.synced_at = owner.stamp /\ owner # NoWork,
           owner' \in {owner, NoWork} \/ owner'.stamp = Today
    PROVE  Dated'
<1>1. now \in Ticks /\ now' \in Ticks /\ now <= now'
  BY TicksAndDays DEF Metered, MeasurementTypeOK
<1>2. /\ Placed' = Placed
      /\ Today \in 0..LastDay /\ Today' \in 0..LastDay /\ Today <= Today'
  <2>1. Day(now) <= Day(now') /\ Day(now) \in Days
        /\ Day(now') \in Days
    BY <1>1, TicksAndDays
  <2>2. QED
    BY <2>1, TicksAndDays DEF Today, Day, Placed, Ticks
<1>3. \A t \in Placed : t <= now'
  <2> TAKE t \in Placed
  <2>1. t \in Ticks /\ t <= now
    BY Clock DEF Metered, Dated
  <2>2. QED
    BY <1>1, <2>1, TicksAndDays
<1>4. /\ channel.synced_at \in 0..LastDay /\ channel.synced_at <= Today
      /\ owner # NoWork => owner.stamp \in 0..LastDay /\ owner.stamp <= Today
  BY Clock, TicksAndDays DEF Metered, Dated, MeasurementTypeOK, OwnerRequests
<1>5. channel'.synced_at <= Today'
  <2>1. \A x \in 0..LastDay : x <= Today => x <= Today'
    BY <1>2, TicksAndDays
  <2>2. QED
    BY <1>2, <1>4, <2>1
<1>6. owner' # NoWork => owner'.stamp <= Today'
  <2>1. \A x \in 0..LastDay : x <= Today => x <= Today'
    BY <1>2, TicksAndDays
  <2>2. QED
    BY <1>2, <1>4, <2>1
<1>7. Cardinality(Placed') <= MaxOrders
  BY <1>2 DEF Metered, Dated
<1>8. QED
  BY <1>2, <1>3, <1>5, <1>6, <1>7 DEF Dated, NoWork

LEMMA ClockMetered ==
    ASSUME Metered, Tick \/ Confirm
    PROVE  Metered'
<1>1. /\ UNCHANGED <<orders, variant, job, channel, owner, asked, sound, judged, priced>>
      /\ \/ now' = now + 1 /\ now < 2 * LastDay /\ confirmed' = confirmed
         \/ now' = now /\ confirmed = Never /\ confirmed' = Today
  BY DEF Tick, Confirm, Syncing, Connection, Measuring
<1>2. now \in Ticks /\ Today \in Days
  BY Clock DEF Metered
<1>3. now' \in Ticks /\ now <= now' /\ now' \in {now, now + 1}
  BY <1>1, <1>2, TicksAndDays
<1>4. MeasurementTypeOK'
  BY SMTT(30), <1>1, <1>2, <1>3 DEF Metered, MeasurementTypeOK, Ticks, Days, Never,
     Syncs, OwnerRequests, NoWork, Unpriced
<1>5. Dated'
  BY <1>1, <1>3, StampedByTheClock
<1>6. QED
  BY <1>1, <1>3, <1>4, <1>5, LaterMetered

LEMMA ReadMetered ==
    ASSUME Metered,
           \/ \E j \in Jobs, days \in 1..MaxSyncDays : StartSync(j, days)
           \/ \E j \in Jobs : StampSync(j) \/ FailSync(j)
    PROVE  Metered'
<1>1. /\ UNCHANGED <<now, orders, confirmed, variant, owner, asked, sound, judged, priced>>
      /\ now \in Ticks /\ Today \in Days
      /\ Placed \subseteq Ticks /\ Kept \subseteq Placed
  BY Clock DEF Metered, StartSync, StampSync, FailSync, Shop,
     Connection, Measuring
<1>2. PICK j \in Jobs, s \in Syncs \cup {NoWork} :
        /\ job' = [job EXCEPT ![j] = s]
        /\ s # NoWork => ReadWell(s)
  <2>1. CASE \E j \in Jobs, days \in 1..MaxSyncDays : StartSync(j, days)
    <3> PICK j \in Jobs, days \in 1..MaxSyncDays : StartSync(j, days)
      BY <2>1
    <3> PICK cutoff : cutoff = IF now - 2 * days < 0 THEN 0 ELSE now - 2 * days
      OBVIOUS
    <3> PICK read : read = {t \in Placed : t >= cutoff /\ orders[t] # "cancelled"}
      OBVIOUS
    <3> PICK s : s = [phase |-> "read", cutoff |-> cutoff, from |-> channel.from, read |-> read,
                      net |-> read \cap Kept, readOn |-> Today, stamp |-> Today]
      OBVIOUS
    <3>1. job' = [job EXCEPT ![j] = s]
      BY DEF StartSync
    <3>2. cutoff \in Ticks
      BY <1>1, TicksAndDays
    <3>3. s \in Syncs
      BY <1>1, <3>2, Clock DEF Metered, Syncs
    <3>4. \A t \in Kept : cutoff <= t => t \in read
      BY <1>1, <3>2, TicksAndDays DEF Kept
    <3>5. Today <= Today
      BY <1>1, TicksAndDays
    <3>6. ReadWell(s)
      BY <3>4, <3>5 DEF ReadWell
    <3>7. QED
      BY <3>1, <3>3, <3>6
  <2>2. CASE \E j \in Jobs : StampSync(j)
    <3> PICK j \in Jobs : StampSync(j)
      BY <2>2
    <3> PICK was : was = job[j]
      OBVIOUS
    <3> PICK s : s = [was EXCEPT !.phase = "stamped", !.stamp = Today]
      OBVIOUS
    <3>1. job' = [job EXCEPT ![j] = s] /\ was.phase = "read"
      BY DEF Metered, MeasurementTypeOK, StampSync
    <3>2. was \in Syncs /\ ReadWell(was)
      BY <3>1 DEF Metered, MeasurementTypeOK, Synced, NoWork
    <3>3. s \in Syncs
      BY <1>1, <3>2 DEF Syncs
    <3>4. s.cutoff = was.cutoff /\ s.read = was.read /\ s.net = was.net /\ s.readOn = was.readOn
          /\ s.stamp = Today
      BY <3>2 DEF Syncs
    <3>5. ReadWell(s)
      BY <1>1, <3>2, <3>4, TicksAndDays DEF ReadWell
    <3>6. QED
      BY <3>1, <3>3, <3>5
  <2>3. CASE \E j \in Jobs : FailSync(j)
    BY <2>3 DEF FailSync
  <2>4. QED
    BY <2>1, <2>2, <2>3
<1>3. \/ channel' = channel
      \/ \E status \in {"connected", "disconnected"} : channel' = [channel EXCEPT !.status = status]
  <2>1. channel.status \in {"connected", "disconnected"}
    BY DEF Metered, MeasurementTypeOK
  <2>2. QED
    BY <2>1 DEF StartSync, StampSync, FailSync, Connection
<1>4. /\ job' \in [Jobs -> Syncs \cup {NoWork}]
      /\ channel' \in [status: {"connected", "disconnected"}, synced_at: Days,
                       from: Days \cup {Never}]
      /\ channel'.synced_at = channel.synced_at /\ channel'.from = channel.from
      /\ \A k \in Jobs : job'[k] \in {job[k], NoWork} \/ ReadWell(job'[k])
  BY <1>2, <1>3 DEF Metered, MeasurementTypeOK
<1>5. MeasurementTypeOK'
  BY <1>1, <1>4 DEF Metered, MeasurementTypeOK, Ticks, Days, Never,
     Syncs, OwnerRequests, NoWork, Unpriced
<1>6. Dated'
  BY <1>1, <1>4, StampedByTheClock
<1>7. now <= now'
  BY <1>1, TicksAndDays
<1>8. QED
  BY <1>1, <1>4, <1>5, <1>6, <1>7, LaterMetered

LEMMA OwnerMetered ==
    ASSUME Metered,
           \/ \E kind \in {"connect", "disconnect", "retry"} : Ask(kind)
           \/ Connect \/ Disconnect \/ RetryNotifications
           \/ DropRequest \/ Uninstalled
    PROVE  Metered'
<1>1. /\ UNCHANGED <<now, orders, confirmed, variant, job, judged, priced>>
      /\ now \in Ticks /\ Today \in Days
      /\ channel.from \in Days \cup {Never} /\ channel.synced_at \in Days
  BY Clock DEF Metered, Ask, Connect, Disconnect, RetryNotifications,
     DropRequest, Uninstalled, Answer, Shop, Syncing,
     Measuring
<1>2. owner # NoWork => owner.from \in Days \cup {Never} /\ owner.stamp \in Days
  BY DEF Metered, MeasurementTypeOK, OwnerRequests
<1>3. /\ owner' \in {owner, NoWork} \/ (owner' \in OwnerRequests /\ owner'.stamp = Today)
      /\ asked' \in 0..MaxRequests
  <2>1. CASE \E kind \in {"connect", "disconnect", "retry"} : Ask(kind)
    BY <1>1, <2>1 DEF Metered, MeasurementTypeOK, Ask, OwnerRequests
  <2>2. CASE ~\E kind \in {"connect", "disconnect", "retry"} : Ask(kind)
    BY <2>2 DEF Metered, MeasurementTypeOK, Connect, Disconnect,
       RetryNotifications, DropRequest, Uninstalled, Answer
  <2>3. QED
    BY <2>1, <2>2
<1>4. PICK status \in {"connected", "disconnected"}, stamp \in Days,
           from \in Days \cup {Never} :
        /\ channel' = [status |-> status, synced_at |-> stamp, from |-> from]
        /\ stamp \in {channel.synced_at, Today} \/ (stamp = owner.stamp /\ owner # NoWork)
        /\ sound' \in BOOLEAN
        /\ sound' => sound /\ channel' = channel
  <2>1. channel = [status |-> channel.status, synced_at |-> channel.synced_at, from |-> channel.from]
        /\ channel.status \in {"connected", "disconnected"} /\ sound \in BOOLEAN
    BY DEF Metered, MeasurementTypeOK
  <2>2. CASE (\E kind \in {"connect", "disconnect", "retry"} : Ask(kind)) \/ DropRequest
    <3>1. channel' = channel /\ sound' = sound
      BY <2>2 DEF Ask, DropRequest
    <3>2. QED
      BY <1>1, <2>1, <3>1
  <2>3. CASE Connect
    <3>1. PICK from \in {owner.from, channel.from} :
            Answer([status |-> "connected", synced_at |-> owner.stamp, from |-> from])
      BY <2>3 DEF Connect
    <3>2. owner # NoWork
      BY <2>3 DEF Connect, Asked
    <3>3. from \in Days \cup {Never} /\ owner.stamp \in Days
      BY <1>1, <1>2, <3>1, <3>2
    <3>4. /\ channel' = [status |-> "connected", synced_at |-> owner.stamp, from |-> from]
          /\ sound' = (sound /\ channel' = channel)
      BY <3>1 DEF Answer
    <3>5. QED
      BY <2>1, <3>2, <3>3, <3>4
  <2>4. CASE Disconnect
    <3>1. owner # NoWork
      BY <2>4 DEF Disconnect, Asked
    <3>2. /\ channel' = [status |-> "disconnected", synced_at |-> Today, from |-> owner.from]
          /\ sound' = (sound /\ channel' = channel)
      BY <2>4 DEF Disconnect, Answer
    <3>3. QED
      BY <1>1, <1>2, <2>1, <3>1, <3>2
  <2>5. CASE RetryNotifications
    <3>1. PICK from \in {owner.from, channel.from} : Answer([channel EXCEPT !.from = from])
      BY <2>5 DEF RetryNotifications
    <3>2. owner # NoWork
      BY <2>5 DEF RetryNotifications, Asked
    <3>3. from \in Days \cup {Never}
      BY <1>1, <1>2, <3>1, <3>2
    <3>4. /\ channel' = [status |-> channel.status, synced_at |-> channel.synced_at, from |-> from]
          /\ sound' = (sound /\ channel' = channel)
      BY <2>1, <3>1 DEF Answer
    <3>5. QED
      BY <1>1, <2>1, <3>3, <3>4
  <2>6. CASE Uninstalled
    <3>1. /\ channel' = [channel EXCEPT !.status = "disconnected", !.synced_at = Today]
          /\ sound' = FALSE
      BY <2>6 DEF Uninstalled
    <3>2. channel' = [status |-> "disconnected", synced_at |-> Today, from |-> channel.from]
      BY <2>1, <3>1
    <3>3. QED
      BY <1>1, <3>1, <3>2
  <2>7. QED
    BY <2>2, <2>3, <2>4, <2>5, <2>6
<1>5. MeasurementTypeOK'
  BY <1>1, <1>3, <1>4 DEF Metered, MeasurementTypeOK, Ticks, Days, Never,
     Syncs, OwnerRequests, NoWork, Unpriced
<1>6. Dated'
  <2>1. channel'.synced_at = stamp
    BY <1>4
  <2>2. QED
    BY <1>1, <1>3, <1>4, <2>1, StampedByTheClock
<1>7. now <= now'
  BY <1>1, TicksAndDays
<1>8. QED
  BY <1>1, <1>4, <1>5, <1>6, <1>7, LaterMetered

LEMMA CommitMetered ==
    ASSUME Metered, NEW j \in Jobs, CommitSync(j)
    PROVE  Metered'
<1> PICK s : s = job[j]
  OBVIOUS
<1> PICK P : P = Placed
  OBVIOUS
<1> PICK K : K = Kept
  OBVIOUS
<1>1. /\ UNCHANGED <<now, orders, confirmed, owner, asked, priced>>
      /\ s.phase = "stamped" /\ variant' = Filed(s)
      /\ job' = [job EXCEPT ![j] = NoWork]
      /\ judged' = IF judged = "strictly_covered" THEN "covered" ELSE judged
  BY DEF CommitSync, Shop
<1>2. s \in Syncs /\ ReadWell(s)
  BY <1>1 DEF Metered, MeasurementTypeOK, Synced, NoWork
<1>3. /\ now \in Ticks /\ Today \in Days
      /\ P \subseteq Ticks /\ K \subseteq P
      /\ \A d \in Days : variant[d] \in 0..MaxOrders
  BY Clock DEF Metered
<1>4. PICK from \in Days \cup {Never} :
        /\ channel' = [channel EXCEPT !.synced_at = s.stamp, !.from = from]
        /\ sound' = (from = Day(s.cutoff) /\ s.readOn = s.stamp)
  <2>1. Day(s.cutoff) \in Days
    BY <1>2, TicksAndDays DEF Syncs
  <2>2. channel.from \in Days \cup {Never}
    BY Clock DEF Metered
  <2>3. QED
    BY <2>1, <2>2 DEF CommitSync
<1>5. channel' \in [status: {"connected", "disconnected"}, synced_at: Days,
                    from: Days \cup {Never}]
      /\ channel'.synced_at = s.stamp /\ channel'.from = from
  BY <1>2, <1>4 DEF Metered, MeasurementTypeOK, Syncs
<1>6. s.net \subseteq P /\ s.net \subseteq Ticks
  BY <1>2, <1>3 DEF ReadWell
<1>7. ASSUME NEW d \in Days
      PROVE  /\ variant'[d] \in 0..MaxOrders
             /\ variant'[d] <= Cardinality(OnDay(P, d))
             /\ \/ variant'[d] = Cardinality(OnDay(s.net, d))
                \/ OnDay(s.net, d) = {}
  <2>1. variant'[d] = IF \E t \in s.read : Day(t) = d
                      THEN Cardinality(OnDay(s.net, d)) ELSE variant[d]
    BY <1>1, <1>7, UnitsAreCounted DEF Filed
  <2>2. variant[d] \in 0..MaxOrders /\ variant[d] <= Cardinality(OnDay(P, d))
    BY <1>3 DEF Metered, FiledWell
  <2>3. /\ Cardinality(OnDay(s.net, d)) \in Nat /\ Cardinality(OnDay(P, d)) \in Nat
        /\ Cardinality(OnDay(s.net, d)) <= Cardinality(OnDay(P, d))
    BY <1>3, <1>6, CountsGrow
  <2>4. Cardinality(OnDay(P, d)) <= MaxOrders /\ MaxOrders \in Nat
    <3>1. OnDay(P, d) \subseteq P
      BY DEF OnDay
    <3>2. /\ Cardinality(OnDay(P, d)) <= Cardinality(P) /\ Cardinality(P) \in Nat
      BY <1>3, <3>1, TicksAreFinite
    <3>3. Cardinality(P) <= MaxOrders
      BY DEF Metered, Dated
    <3>4. QED
      BY <2>3, <3>2, <3>3, TicksAndDays
  <2>5. CASE \E t \in s.read : Day(t) = d
    BY <2>1, <2>3, <2>4, <2>5
  <2>6. CASE ~\E t \in s.read : Day(t) = d
    <3>1. OnDay(s.net, d) = {}
      BY <1>2, <2>6 DEF ReadWell, OnDay
    <3>2. QED
      BY <2>1, <2>2, <2>6, <3>1
  <2>7. QED
    BY <2>5, <2>6
<1>8. MeasurementTypeOK'
  <2>1. variant' \in [Days -> 0..MaxOrders]
    BY <1>1, <1>7 DEF Filed
  <2>2. job' \in [Jobs -> Syncs \cup {NoWork}]
    BY <1>1 DEF Metered, MeasurementTypeOK
  <2>3. judged' \in {"none", "covered", "strictly_covered"} /\ sound' \in BOOLEAN
    BY <1>1, <1>4 DEF Metered, MeasurementTypeOK
  <2>4. QED
    BY <1>1, <1>5, <2>1, <2>2, <2>3 DEF Metered, MeasurementTypeOK, Ticks, Days,
       Never, Syncs, OwnerRequests, NoWork, Unpriced
<1>9. Placed' = P /\ Kept' = K /\ Today' = Today
  BY <1>1 DEF Placed, Kept, Ticks, Today, Day
<1>10. Dated'
  BY <1>1, <1>2, <1>5, <1>9 DEF Metered, Dated, ReadWell, NoWork
<1>11. Synced'
  <2> SUFFICES ASSUME NEW k \in Jobs, job'[k] # NoWork
               PROVE  ReadWell(job[k])'
    BY DEF Synced, NoWork
  <2> PICK r : r = job'[k]
    OBVIOUS
  <2>1. ReadWell(r)
    BY <1>1 DEF Metered, MeasurementTypeOK, Synced
  <2>2. (ReadWell(r))'
    BY <1>9, <2>1 DEF ReadWell, Day
  <2>3. QED
    BY <2>2
<1>12. FiledWell'
  <2>1. ASSUME sound', NEW d \in Days, from < d, d < s.stamp
        PROVE  Cardinality(OnDay(K, d)) <= variant'[d]
    <3>1. s.cutoff \in Ticks /\ Day(s.cutoff) < d /\ d < s.readOn
      BY <1>2, <1>4, <2>1 DEF Syncs
    <3>2. ASSUME NEW t \in OnDay(K, d)
          PROVE  t \in OnDay(s.net, d)
      <4>1. t \in K /\ t \in Ticks /\ Day(t) = d
        BY <1>3 DEF OnDay
      <4>2. s.cutoff <= t
        <5>1. ~(t <= s.cutoff)
          <6>1. SUFFICES ASSUME t <= s.cutoff PROVE FALSE
            OBVIOUS
          <6>2. d <= Day(s.cutoff)
            BY <3>1, <4>1, <6>1, TicksAndDays
          <6>3. Day(s.cutoff) \in Int /\ d \in Int
            BY <3>1, TicksAndDays
          <6>4. QED
            BY <3>1, <6>2, <6>3
        <5>2. QED
          BY <3>1, <4>1, <5>1, TicksAndDays
      <4>3. t \in s.net
        BY <1>2, <3>1, <4>1, <4>2 DEF ReadWell
      <4>4. QED
        BY <4>1, <4>3 DEF OnDay
    <3>3. OnDay(K, d) \subseteq OnDay(s.net, d) /\ OnDay(s.net, d) \subseteq Ticks
      BY <1>6, <3>2 DEF OnDay
    <3>4. Cardinality(OnDay(K, d)) <= Cardinality(OnDay(s.net, d))
      BY <3>3, TicksAreFinite
    <3>5. variant'[d] \in Nat
      BY <1>7, TicksAndDays
    <3>6. CASE OnDay(s.net, d) = {}
      <4>1. OnDay(K, d) = {}
        BY <3>3, <3>6
      <4>2. QED
        BY <3>5, <4>1, FS_EmptySet
    <3>7. CASE variant'[d] = Cardinality(OnDay(s.net, d))
      BY <3>4, <3>7
    <3>8. QED
      BY <1>7, <3>6, <3>7
  <2>2. (\A d \in Days : variant[d] <= Cardinality(OnDay(Placed, d)))'
    BY <1>7, <1>9 DEF Days, OnDay, Day
  <2>3. (sound => \A d \in Days :
                  channel.from < d /\ d < channel.synced_at
                     => Cardinality(OnDay(Kept, d)) <= variant[d])'
    BY <1>5, <1>9, <2>1 DEF Days, OnDay, Day
  <2>4. QED
    BY <2>2, <2>3 DEF FiledWell
<1>13. JudgedWell'
  <2>1. /\ WindowComplete' = WindowComplete /\ Window' = Window
    BY <1>1, <1>9 DEF WindowComplete, Window, First, Last, Never
  <2>2. PricedUnitsWereSold'
    BY <1>1, <1>9, <2>1 DEF Metered, JudgedWell, PricedUnitsWereSold, InWindow,
       Unpriced, Day
  <2>3. judged' # "strictly_covered" /\ (judged' # "none" => judged # "none")
    BY <1>1
  <2>4. QED
    BY <1>1, <2>1, <2>2, <2>3 DEF Metered, JudgedWell, Unpriced
<1>14. QED
  BY <1>8, <1>10, <1>11, <1>12, <1>13 DEF Metered

LEMMA JudgeMetered ==
    ASSUME Metered, Judge \/ LeaveUnpriced \/ Measure
    PROVE  Metered'
<1> PICK W : W = Window
  OBVIOUS
<1> PICK P : P = Placed
  OBVIOUS
<1> PICK K : K = Kept
  OBVIOUS
<1>1. UNCHANGED <<now, orders, confirmed, variant, job, channel, owner, asked, sound>>
  BY DEF Judge, LeaveUnpriced, Measure, Shop, Syncing,
     Connection
<1>2. /\ WindowComplete /\ W \subseteq Days /\ \A d \in W : d < Today
  <2>1. WindowComplete
    BY DEF Metered, JudgedWell, Judge, LeaveUnpriced, Measure
  <2>2. QED
    BY <2>1, WindowIsPast DEF Metered
<1>3. /\ P \subseteq Ticks /\ K \subseteq P /\ MaxOrders \in Nat
      /\ \A d \in Days : variant[d] \in 0..MaxOrders
  BY Clock, TicksAndDays DEF Metered
<1>4. /\ Placed' = P /\ Kept' = K /\ Today' = Today
      /\ WindowComplete' = WindowComplete /\ Window' = W
  BY <1>1 DEF Placed, Kept, Ticks, Today, Day,
     WindowComplete, Window, First, Last, Never
<1>5. Dated' /\ Synced' /\ FiledWell'
  <2>1. Dated'
    BY <1>1, <1>4 DEF Metered, Dated, NoWork
  <2>2. Synced'
    BY <1>1, <1>4 DEF Metered, Synced, ReadWell, NoWork, Day
  <2>3. FiledWell'
    BY <1>1, <1>4 DEF Metered, FiledWell, OnDay, Days, Day
  <2>4. QED
    BY <2>1, <2>2, <2>3
<1>6. CASE Judge
  <2>1. /\ judged' = IF sound /\ channel.from < First THEN "strictly_covered" ELSE "covered"
        /\ priced' = priced /\ channel.synced_at > Last
    BY <1>6 DEF Judge, coverage
  <2>2. ASSUME judged' = "strictly_covered", NEW d \in W
        PROVE  Cardinality(OnDay(K, d)) <= variant[d]
    <3>1. sound /\ channel.from < First /\ d \in Days
      BY <1>2, <2>1, <2>2
    <3>2. channel.from < d /\ d < channel.synced_at
      <4>1. /\ confirmed \in Int /\ channel.from \in Int /\ channel.synced_at \in Int /\ d \in Int
            /\ MeasurementDays \in Int
        BY <3>1, Clock, TicksAndDays DEF Metered
      <4>2. /\ First = confirmed + 1 /\ Last = confirmed + 1 + MeasurementDays - 1
            /\ d \in First..Last
        BY <2>2 DEF First, Last, Window
      <4>3. QED
        BY <2>1, <3>1, <4>1, <4>2
    <3>3. QED
      BY <3>1, <3>2 DEF Metered, FiledWell
  <2>3. MeasurementTypeOK'
    BY <1>1, <2>1 DEF Metered, MeasurementTypeOK, Ticks, Days, Never,
       Syncs, OwnerRequests, NoWork, Unpriced
  <2>4. PricedUnitsWereSold'
    BY <1>4, <2>1 DEF Metered, JudgedWell, PricedUnitsWereSold, InWindow,
       Unpriced, Day
  <2>5. JudgedWell'
    BY <1>1, <1>2, <1>4, <2>2, <2>4 DEF JudgedWell, OnDay, Day
  <2>6. QED
    BY <1>5, <2>3, <2>5 DEF Metered
<1>7. CASE LeaveUnpriced
  <2>1. judged' = "none" /\ priced' = priced
    BY <1>7 DEF LeaveUnpriced
  <2>2. MeasurementTypeOK'
    BY <1>1, <2>1 DEF Metered, MeasurementTypeOK, Ticks, Days, Never,
       Syncs, OwnerRequests, NoWork, Unpriced
  <2>3. PricedUnitsWereSold'
    BY <1>4, <2>1 DEF Metered, JudgedWell, PricedUnitsWereSold, InWindow,
       Unpriced, Day
  <2>4. QED
    BY <1>2, <1>4, <1>5, <2>1, <2>2, <2>3 DEF Metered, JudgedWell
<1>8. CASE Measure
  <2> PICK units : units = variant
    OBVIOUS
  <2> PICK pairs : pairs = UnitPairs(units, W, MaxOrders)
    OBVIOUS
  <2> PICK bought : bought = Within(P, W)
    OBVIOUS
  <2> PICK kept : kept = Within(K, W)
    OBVIOUS
  <2>1. /\ priced' = [units |-> Cardinality(pairs), strictly |-> judged = "strictly_covered"]
        /\ judged' = "none"
    BY <1>8 DEF Measure, WindowUnits, UnitPairs
  <2>2. IsFiniteSet(pairs) /\ Cardinality(pairs) <= Cardinality(bought)
    <3>1. \A d \in W : units[d] \in 0..MaxOrders /\ units[d] <= Cardinality(OnDay(P, d))
      BY <1>2, <1>3 DEF Metered, FiledWell
    <3>2. P \subseteq Ticks /\ MaxOrders \in Nat
      BY <1>3
    <3>3. QED
      BY <3>1, <3>2, FewerUnits, Zenon
  <2>3. ASSUME judged = "strictly_covered"
        PROVE  Cardinality(kept) <= Cardinality(pairs)
    <3>1. \A d \in W : units[d] \in 0..MaxOrders /\ Cardinality(OnDay(K, d)) <= units[d]
      BY <1>2, <1>3, <2>3 DEF Metered, JudgedWell
    <3>2. K \subseteq Ticks /\ MaxOrders \in Nat
      BY <1>3
    <3>3. QED
      BY <2>2, <3>1, <3>2, MoreUnits, Zenon
  <2>4. /\ Cardinality(pairs) \in Nat /\ Cardinality(bought) \in Nat /\ Cardinality(kept) \in Nat
        /\ Cardinality(bought) <= Cardinality(P) /\ Cardinality(P) \in Nat
    <3>1. Cardinality(pairs) \in Nat
      BY <2>2, FS_CardinalityType
    <3>2. bought \subseteq P /\ kept \subseteq P
      BY <1>3 DEF Within
    <3>3. QED
      BY <1>3, <3>1, <3>2, TicksAreFinite
  <2>5. Cardinality(P) <= MaxOrders
    BY DEF Metered, Dated
  <2>6. Cardinality(pairs) \in 0..MaxOrders
    BY <1>3, <2>2, <2>4, <2>5
  <2>7. MeasurementTypeOK'
    BY <1>1, <2>1, <2>6 DEF Metered, MeasurementTypeOK, Ticks, Days, Never,
       Syncs, OwnerRequests, NoWork, Unpriced
  <2>8. /\ priced'.units <= Cardinality(bought)
        /\ priced'.strictly => priced'.units >= Cardinality(kept)
    BY <2>1, <2>2, <2>3, <2>4
  <2>9. (InWindow(Placed))' = bought /\ (InWindow(Kept))' = kept
    BY <1>4 DEF InWindow, Day, Within
  <2>10. PricedUnitsWereSold'
    BY <2>8, <2>9 DEF PricedUnitsWereSold
  <2>11. QED
    BY <1>2, <1>4, <1>5, <2>1, <2>7, <2>10 DEF Metered, JudgedWell
<1>9. QED
  BY <1>6, <1>7, <1>8

\* No schedule of syncs, requests and clock ticks makes a price out of more
\* units than were ordered in the window; and a window strictly inside the
\* range of one sync that read and stamped on the same day, with no commit
\* between the check and the reading, is priced from every unit it kept: for
\* any number of syncs, days, orders, returns and requests.
THEOREM PricesComeFromOrders == MeasurementSpec => []PricedUnitsWereSold
<1>1. MeasurementInit => Metered
  BY InitMetered
<1>2. Metered /\ [MeasurementNext]_measurementVars => Metered'
  <2> SUFFICES ASSUME Metered, [MeasurementNext]_measurementVars
               PROVE  Metered'
    OBVIOUS
  <2>1. CASE UNCHANGED measurementVars
    <3>1. UNCHANGED <<now, orders, variant, channel, job, owner, asked, confirmed, judged, priced, sound>>
      BY <2>1 DEF measurementVars
    <3>2. MeasurementTypeOK'
      BY <3>1 DEF Metered, MeasurementTypeOK, Ticks, Days, Never, Syncs,
         OwnerRequests, NoWork, Unpriced
    <3>3. now \in Ticks
      BY Clock DEF Metered
    <3>4. Dated'
      BY <3>1, <3>3, StampedByTheClock
    <3>5. now <= now'
      BY <3>1, <3>3, TicksAndDays
    <3>6. QED
      BY <3>1, <3>2, <3>4, <3>5, LaterMetered
  <2>2. CASE MeasurementNext
    BY <2>2, ClockMetered, ShopMetered, ReadMetered, CommitMetered, OwnerMetered, JudgeMetered
       DEF MeasurementNext
  <2>3. QED
    BY <2>1, <2>2
<1>3. Metered => PricedUnitsWereSold
  BY DEF Metered, JudgedWell
<1>4. QED
  BY <1>1, <1>2, <1>3, PTL DEF MeasurementSpec
===========================================================================
