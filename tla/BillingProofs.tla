---------------------------- MODULE BillingProofs ----------------------------
(***************************************************************************)
(* What the subscription row and the webhook keep for every number of      *)
(* instances, pages, sessions, events and failures: types, each event      *)
(* taking effect once and being answered only then (also as the            *)
(* implementation of Inbox), access only after a payment, the rollover     *)
(* undoing only what it had read as a trial, the last word of Stripe       *)
(* standing, and a message exactly when the subscription moved.            *)
(*                                                                         *)
(* AnsweredIsAppliedOnce is not inductive. It holds because a delivery row *)
(* exists exactly for the events that were applied, and because the        *)
(* requests that hold an uncommitted one hold different ones, none of them *)
(* applied: that is OneHolder below. AccessWasPaidFor needs the same fact  *)
(* of the row each request has read as of the stored row, since either can *)
(* end up in the database.                                                 *)
(***************************************************************************)
EXTENDS Billing, TLAPS

USE DEF Subs, NoSub, Webhooks

LEMMA AppendToSet ==
    ASSUME NEW S, NEW s \in Seq(S), NEW x \in S
    PROVE  /\ ToSet(Append(s, x)) = ToSet(s) \cup {x}
           /\ Append(s, x) \in Seq(S)
  <1> DEFINE t == Append(s, x)
  <1>1. t \in Seq(S) /\ Len(t) = Len(s) + 1 /\ t[Len(s) + 1] = x
    OBVIOUS
  <1>2. \A i \in 1..Len(s) : t[i] = s[i]
    OBVIOUS
  <1>3. /\ ToSet(t) = {t[i] : i \in 1..Len(t)}
        /\ ToSet(s) = {s[i] : i \in 1..Len(s)}
    BY <1>1 DEF ToSet
  <1>4. ToSet(t) = ToSet(s) \cup {x}
    <2> HIDE DEF t
    <2>1. Len(s) \in Nat
      OBVIOUS
    <2>2. \A i \in 1..(Len(s) + 1) : i = Len(s) + 1 \/ i \in 1..Len(s)
      BY <2>1
    <2>3. QED
      BY <1>1, <1>2, <1>3, <2>1, <2>2
  <1>5. QED
    BY <1>1, <1>4

LEMMA AppendApplied ==
    ASSUME TypeOK, NEW e \in 1..MaxEvents
    PROVE  /\ ToSet(Append(applied, e)) = ToSet(applied) \cup {e}
           /\ Append(applied, e) \in Seq(1..MaxEvents)
  <1>1. applied \in Seq(1..MaxEvents)
    BY DEF TypeOK
  <1>2. QED
    BY <1>1, AppendToSet

---------------------------------------------------------------------------
(* Types.                                                                  *)

LEMMA InitType == Init => TypeOK
  <1>1. NoRow \in Rows /\ NoPage \in PageStates
    BY DEF NoRow, Rows, RowStatuses, NoPage, PageStates
  <1>2. Idle \in Requests /\ "none" \in StripeStatuses
    BY <1>1 DEF Idle, Requests, StripeStatuses
  <1>3. <<>> \in Seq(Events) /\ Len(<<>>) = 0 /\ <<>> \in Seq(1..MaxEvents)
    OBVIOUS
  <1>4. ASSUME Init PROVE /\ today \in 0..LastDay /\ failures \in 0..MaxFailures
                          /\ Len(events) <= MaxEvents
    BY <1>4, <1>3, BillingAssumption DEF Init
  <1>5. ASSUME Init PROVE /\ request \in [Webhooks -> Requests]
                          /\ page \in [Pages -> PageStates]
                          /\ stripe \in [Subs -> StripeStatuses]
    <2>1. request = [w \in Webhooks |-> Idle] /\ page = [p \in Pages |-> NoPage]
      BY <1>5 DEF Init
    <2>2. stripe = [s \in Subs |-> "none"]
      BY <1>5 DEF Init
    <2>3. QED
      BY <2>1, <2>2, <1>1, <1>2
  <1>6. ASSUME Init PROVE events \in Seq(Events) /\ applied \in Seq(1..MaxEvents)
    BY <1>6, <1>3 DEF Init
  <1>7. ASSUME Init PROVE /\ row \in Rows /\ trialEnd \in Nat
                          /\ delivered \subseteq 1..MaxEvents /\ acked \subseteq 1..MaxEvents
                          /\ receipts \subseteq (1..MaxEvents) \X Kinds
                          /\ stale \in BOOLEAN
    BY <1>7, <1>1 DEF Init
  <1>8. QED
    BY <1>4, <1>5, <1>6, <1>7 DEF TypeOK

LEMMA FailureType == TypeOK /\ Failure => failures' \in 0..MaxFailures
  BY BillingAssumption DEF TypeOK, Failure

LEMMA SendType ==
    ASSUME TypeOK, NEW s \in Subs,
           NEW type \in {"checkout.session.completed", "customer.subscription.updated"},
           NEW status \in StripeStatuses, Send(s, type, status)
    PROVE  events' \in Seq(Events) /\ Len(events') <= MaxEvents
  <1>1. [sub |-> s, type |-> type, status |-> status] \in Events
    BY DEF Events
  <1>2. QED
    BY <1>1, BillingAssumption DEF TypeOK, Send

\* What an event writes is a status, and it is "none" only over "none".
LEMMA StatusAfterType ==
    ASSUME NEW e, NEW status \in RowStatuses
    PROVE  /\ StatusAfter(e, status) \in RowStatuses
           /\ status # "none" => StatusAfter(e, status) # "none"
  BY DEF StatusAfter, RowStatuses

LEMMA RowAfterType ==
    ASSUME TypeOK, NEW e \in 1..Len(events), NEW read \in Rows
    PROVE  RowAfter(e, read) \in Rows
  <1>1. events[e] \in Events
    BY DEF TypeOK
  <1>2. QED
    BY <1>1, StatusAfterType DEF RowAfter, Rows, Events

LEMMA FlushedType ==
    ASSUME NEW read \in Rows, NEW written \in Rows, row \in Rows
    PROVE  Flushed(read, written) \in Rows
  BY DEF Flushed, Rows

LEMMA MailForType ==
    ASSUME NEW e \in 1..MaxEvents, NEW read, NEW written
    PROVE  MailFor(e, read, written) \subseteq (1..MaxEvents) \X Kinds
  BY DEF MailFor, Kinds, KindOf

\* A request that is being served is about an event Stripe sent.
ServedWasSent ==
    \A w \in Webhooks : request[w].stage # "idle" => request[w].event \in 1..Len(events)

LEMMA TypeStep ==
    ASSUME TypeOK, ServedWasSent, [Next]_vars
    PROVE  TypeOK'
  <1> USE DEF Store, Outside, History
  <1>1. CASE NewDay
    BY <1>1, BillingAssumption DEF NewDay, TypeOK
  <1>2. ASSUME NEW p \in Pages, LookAtTrial(p) PROVE TypeOK'
    <2>1. [stage |-> "expire", read |-> row.status] \in PageStates
      BY DEF TypeOK, Rows, PageStates
    <2>2. page' \in [Pages -> PageStates]
      BY ZenonT(30), <1>2, <2>1 DEF LookAtTrial, TypeOK, PageStates
    <2>3. QED
      BY <1>2, <2>2 DEF LookAtTrial, TypeOK
  <1>3. ASSUME NEW p \in Pages, CommitTrial(p) PROVE TypeOK'
    <2>1. page' \in [Pages -> PageStates]
      BY <1>3 DEF CommitTrial, TypeOK, PageStates, NoPage, RowStatuses
    <2>2. row' \in Rows
      BY <1>3 DEF CommitTrial, TypeOK, Rows, RowStatuses, RolledOver
    <2>3. trialEnd' \in Nat
      <3>1. today \in Nat /\ TrialDays \in Nat /\ trialEnd \in Nat
        BY BillingAssumption DEF TypeOK
      <3>2. trialEnd' = today + TrialDays \/ trialEnd' = trialEnd
        BY <1>3 DEF CommitTrial
      <3>3. QED
        BY <3>1, <3>2
    <2>4. stale' \in BOOLEAN
      BY <1>3 DEF CommitTrial, TypeOK
    <2>5. QED
      BY <1>3, <2>1, <2>2, <2>3, <2>4 DEF CommitTrial, TypeOK
  <1>4. ASSUME NEW s \in Subs, OpenCheckout(s) PROVE TypeOK'
    BY <1>4 DEF OpenCheckout, TypeOK, StripeStatuses
  <1>5. ASSUME NEW s \in Subs, CompleteCheckout(s) PROVE TypeOK'
    <2>1. PICK status \in {"active", "incomplete"} :
             /\ stripe' = [stripe EXCEPT ![s] = status]
             /\ Send(s, "checkout.session.completed", status)
      BY <1>5 DEF CompleteCheckout
    <2>2. status \in StripeStatuses
      BY DEF StripeStatuses
    <2>3. events' \in Seq(Events) /\ Len(events') <= MaxEvents
      BY <2>1, <2>2, SendType
    <2>4. stripe' \in [Subs -> StripeStatuses]
      BY <2>1, <2>2 DEF TypeOK
    <2>5. QED
      BY <1>5, <2>3, <2>4 DEF CompleteCheckout, TypeOK
  <1>6. ASSUME NEW s \in Subs, MoveSubscription(s) PROVE TypeOK'
    <2>1. PICK status \in StripeStatuses :
             /\ stripe' = [stripe EXCEPT ![s] = status]
             /\ Send(s, "customer.subscription.updated", status)
      BY <1>6 DEF MoveSubscription
    <2>2. events' \in Seq(Events) /\ Len(events') <= MaxEvents
      BY <2>1, SendType
    <2>3. stripe' \in [Subs -> StripeStatuses]
      BY <2>1 DEF TypeOK
    <2>4. QED
      BY <1>6, <2>2, <2>3 DEF MoveSubscription, TypeOK
  <1>7. ASSUME NEW s \in Subs, CancelInPortal(s) PROVE TypeOK'
    <2>1. "canceled" \in StripeStatuses
      BY DEF StripeStatuses
    <2>2. events' \in Seq(Events) /\ Len(events') <= MaxEvents
      BY <1>7, <2>1, SendType DEF CancelInPortal
    <2>3. stripe' \in [Subs -> StripeStatuses]
      BY <1>7, <2>1 DEF CancelInPortal, TypeOK
    <2>4. QED
      BY <1>7, <2>2, <2>3 DEF CancelInPortal, TypeOK
  <1>8. ASSUME NEW w \in Webhooks, NEW e \in 1..MaxEvents, LoadEvent(w, e) PROVE TypeOK'
    <2>1. [stage |-> "loaded", event |-> e, row |-> row] \in Requests
      BY DEF TypeOK, Requests
    <2>2. request' \in [Webhooks -> Requests]
      BY <1>8, <2>1 DEF LoadEvent, TypeOK
    <2>3. QED
      BY <1>8, <2>2 DEF LoadEvent, TypeOK
  <1>9. Idle \in Requests
    BY DEF Idle, Requests, Rows, NoRow, RowStatuses
  <1>10. ASSUME NEW w \in Webhooks, Record(w) PROVE TypeOK'
    <2>1. request' \in [Webhooks -> Requests]
      <3>1. [request[w] EXCEPT !.stage = "inserted"] \in Requests
        BY DEF TypeOK, Requests
      <3>2. \/ request' = [request EXCEPT ![w] = Idle]
            \/ request' = [request EXCEPT ![w] = [request[w] EXCEPT !.stage = "inserted"]]
        BY <1>10 DEF Record
      <3>3. QED
        BY <3>1, <3>2, <1>9 DEF TypeOK
    <2>2. request[w].event \in 1..MaxEvents
      BY <1>10, BillingAssumption DEF Record, ServedWasSent, TypeOK
    <2>3. acked' \subseteq 1..MaxEvents
      BY <1>10, <2>2 DEF Record, TypeOK
    <2>4. QED
      BY <1>10, <2>1, <2>3 DEF Record, TypeOK
  <1>11. ASSUME NEW w \in Webhooks, CommitEvent(w) PROVE TypeOK'
    <2> DEFINE e == request[w].event
               read == request[w].row
    <2>1. e \in 1..Len(events) /\ e \in 1..MaxEvents /\ read \in Rows
      BY <1>11, BillingAssumption DEF CommitEvent, ServedWasSent, TypeOK, Requests
    <2>2. row' \in Rows
      BY <1>11, <2>1, RowAfterType, FlushedType DEF CommitEvent, TypeOK
    <2>3. receipts' \subseteq (1..MaxEvents) \X Kinds
      BY <1>11, <2>1, MailForType DEF CommitEvent, TypeOK
    <2>4. request' \in [Webhooks -> Requests]
      BY <1>11, <1>9 DEF CommitEvent, TypeOK
    <2>5. applied' \in Seq(1..MaxEvents)
      BY <1>11, <2>1, AppendApplied DEF CommitEvent
    <2>6. delivered' \subseteq 1..MaxEvents /\ acked' \subseteq 1..MaxEvents
      BY <1>11, <2>1 DEF CommitEvent, TypeOK
    <2>7. failures' \in 0..MaxFailures
      BY <1>11, FailureType DEF CommitEvent, TypeOK
    <2>8. stale' \in BOOLEAN
      BY <1>11 DEF CommitEvent, TypeOK
    <2>9. QED
      BY <1>11, <2>2, <2>3, <2>4, <2>5, <2>6, <2>7, <2>8 DEF CommitEvent, TypeOK
  <1>12. ASSUME NEW w \in Webhooks, CrashRequest(w) PROVE TypeOK'
    <2>1. request' \in [Webhooks -> Requests]
      BY <1>12, <1>9 DEF CrashRequest, TypeOK
    <2>2. failures' \in 0..MaxFailures
      BY <1>12, FailureType DEF CrashRequest
    <2>3. QED
      BY <1>12, <2>1, <2>2 DEF CrashRequest, TypeOK
  <1>13. CASE UNCHANGED vars
    BY <1>13 DEF vars, TypeOK
  <1>14. QED
    BY <1>1, <1>2, <1>3, <1>4, <1>5, <1>6, <1>7, <1>8, <1>10, <1>11, <1>12, <1>13 DEF Next

---------------------------------------------------------------------------
(* Once, and answered only then.                                           *)

\* An event has a delivery row exactly when it took effect, and those that
\* requests are holding are others, each held once.
OneHolder ==
    /\ delivered = ToSet(applied)
    /\ \A i, j \in DOMAIN applied : applied[i] = applied[j] => i = j
    /\ ToSet(applied) \subseteq 1..Len(events)
    /\ acked \subseteq ToSet(applied)
    /\ \A w \in Webhooks : request[w].stage = "inserted" => request[w].event \notin delivered
    /\ \A v, w \in Webhooks :
          request[v].stage = "inserted" /\ request[w].stage = "inserted"
          /\ request[v].event = request[w].event => v = w

\* Stripe never takes back an event.
LEMMA EventsGrow ==
    ASSUME TypeOK, [Next]_vars
    PROVE  /\ Len(events') >= Len(events)
           /\ \A e \in 1..Len(events) : events'[e] = events[e]
  <1> USE DEF Store, Outside, History
  <1>1. CASE events' = events
    <2>1. Len(events) \in Nat
      BY DEF TypeOK
    <2>2. QED
      BY <1>1, <2>1
  <1>2. ASSUME NEW s, NEW type, NEW status, Send(s, type, status)
        PROVE  /\ Len(events') >= Len(events)
               /\ \A e \in 1..Len(events) : events'[e] = events[e]
    BY <1>2 DEF Send, TypeOK
  <1>3. \/ events' = events
        \/ \E s, type, status : Send(s, type, status)
    BY DEF Next, NewDay, LookAtTrial, CommitTrial, OpenCheckout, CompleteCheckout,
           MoveSubscription, CancelInPortal, LoadEvent, Record, CommitEvent, CrashRequest, vars
  <1>4. QED
    BY <1>1, <1>2, <1>3

LEMMA InitHolder == Init => OneHolder /\ ServedWasSent
  <1> SUFFICES ASSUME Init PROVE OneHolder /\ ServedWasSent
    OBVIOUS
  <1>1. ToSet(<<>>) = {} /\ DOMAIN <<>> = {}
    BY DEF ToSet
  <1>2. \A w \in Webhooks : request[w].stage = "idle"
    BY DEF Init, Idle
  <1>3. QED
    BY <1>1, <1>2 DEF Init, OneHolder, ServedWasSent

\* A step that leaves the requests alone, or only puts some back to idle,
\* and applies nothing.
LEMMA HolderCalm ==
    ASSUME TypeOK, OneHolder, ServedWasSent, [Next]_vars,
           UNCHANGED <<delivered, acked, applied>>,
           \A w \in Webhooks : request'[w] = request[w] \/ request'[w] = Idle
    PROVE  OneHolder' /\ ServedWasSent'
  <1>1. Len(events) \in Nat /\ Len(events') \in Nat /\ Len(events') >= Len(events)
    BY EventsGrow, TypeStep DEF TypeOK
  <1>2. 1..Len(events) \subseteq 1..Len(events')
    BY <1>1
  <1>3. ServedWasSent'
    BY <1>2 DEF ServedWasSent, Idle
  <1>4. OneHolder'
    BY <1>2 DEF OneHolder, Idle
  <1>5. QED
    BY <1>3, <1>4

LEMMA HolderLoad ==
    ASSUME TypeOK, OneHolder, ServedWasSent,
           NEW w \in Webhooks, NEW e \in 1..MaxEvents, LoadEvent(w, e)
    PROVE  OneHolder' /\ ServedWasSent'
  <1>1. /\ request' = [request EXCEPT ![w] = [stage |-> "loaded", event |-> e, row |-> row]]
        /\ e \in 1..Len(events)
        /\ UNCHANGED <<delivered, acked, applied, events>>
    BY DEF LoadEvent, Store, Outside, History
  <1>2. request'[w].stage = "loaded" /\ request'[w].event = e
    BY <1>1 DEF TypeOK
  <1>3. \A v \in Webhooks \ {w} : request'[v] = request[v]
    BY <1>1 DEF TypeOK
  <1>4. QED
    BY <1>1, <1>2, <1>3 DEF OneHolder, ServedWasSent

LEMMA HolderRecord ==
    ASSUME TypeOK, OneHolder, ServedWasSent, NEW w \in Webhooks, Record(w)
    PROVE  OneHolder' /\ ServedWasSent'
  <1> DEFINE e == request[w].event
  <1>1. UNCHANGED <<delivered, applied, events>> /\ request[w].stage = "loaded"
    BY DEF Record, Store, Outside, History
  <1>2. CASE /\ e \in delivered
             /\ request' = [request EXCEPT ![w] = Idle]
             /\ acked' = acked \cup {e}
    <2>1. request'[w] = Idle /\ \A v \in Webhooks \ {w} : request'[v] = request[v]
      BY <1>2 DEF TypeOK
    <2>2. QED
      BY <1>1, <1>2, <2>1 DEF OneHolder, ServedWasSent, Idle
  <1>3. CASE /\ e \notin delivered
             /\ \A v \in Webhooks : request[v].stage = "inserted" => request[v].event # e
             /\ request' = [request EXCEPT ![w].stage = "inserted"]
             /\ UNCHANGED acked
    <2>1. /\ request'[w].stage = "inserted" /\ request'[w].event = e
          /\ \A v \in Webhooks \ {w} : request'[v] = request[v]
      BY <1>3 DEF TypeOK, Requests
    <2>2. QED
      BY <1>1, <1>3, <2>1 DEF OneHolder, ServedWasSent
  <1>4. QED
    BY <1>2, <1>3 DEF Record

\* The one step that applies an event: it was held, so it was not applied.
LEMMA HolderCommit ==
    ASSUME TypeOK, OneHolder, ServedWasSent, NEW w \in Webhooks, CommitEvent(w)
    PROVE  OneHolder' /\ ServedWasSent'
  <1> DEFINE e == request[w].event
  <1>1. /\ request[w].stage = "inserted"
        /\ delivered' = delivered \cup {e}
        /\ applied' = Append(applied, e)
        /\ acked' = acked \cup {e} \/ acked' = acked
        /\ request' = [request EXCEPT ![w] = Idle]
        /\ events' = events
    BY DEF CommitEvent, Outside
  <1>2. e \in 1..Len(events) /\ e \in 1..MaxEvents /\ e \notin ToSet(applied)
    <2>1. e \in 1..Len(events) /\ e \notin ToSet(applied)
      BY <1>1 DEF OneHolder, ServedWasSent
    <2>2. Len(events) \in Nat /\ Len(events) <= MaxEvents /\ MaxEvents \in Nat
      BY BillingAssumption DEF TypeOK
    <2>3. QED
      BY <2>1, <2>2
  <1>3. request'[w] = Idle /\ \A v \in Webhooks \ {w} : request'[v] = request[v]
    BY <1>1 DEF TypeOK
  <1>4. ToSet(applied') = ToSet(applied) \cup {e}
    BY <1>1, <1>2, AppendApplied
  <1>5. \A i, j \in DOMAIN applied' : applied'[i] = applied'[j] => i = j
    <2>1. applied \in Seq(1..MaxEvents) /\ Len(applied) \in Nat
      BY DEF TypeOK
    <2>2. /\ DOMAIN applied' = 1..(Len(applied) + 1)
          /\ applied'[Len(applied) + 1] = e
          /\ \A i \in 1..Len(applied) : applied'[i] = applied[i]
      BY <1>1, <1>2, <2>1
    <2>3. \A i \in 1..Len(applied) : applied[i] # e
      BY <1>2, <2>1 DEF ToSet
    <2>4. \A i \in 1..(Len(applied) + 1) : i = Len(applied) + 1 \/ i \in 1..Len(applied)
      BY <2>1
    <2>5. DOMAIN applied = 1..Len(applied)
      BY <2>1
    <2>6. QED
      BY <2>2, <2>3, <2>4, <2>5 DEF OneHolder
  <1>6. \A v \in Webhooks \ {w} : request[v].stage = "inserted" => request[v].event # e
    BY <1>1 DEF OneHolder
  <1>7. ServedWasSent'
    BY <1>1, <1>3 DEF ServedWasSent, Idle
  <1>8. QED
    BY <1>1, <1>2, <1>3, <1>4, <1>5, <1>6, <1>7 DEF OneHolder, Idle

LEMMA HolderStep ==
    ASSUME TypeOK, OneHolder, ServedWasSent, [Next]_vars
    PROVE  OneHolder' /\ ServedWasSent'
  <1> USE DEF Store, Outside, History
  <1>1. CASE NewDay
    BY <1>1, HolderCalm DEF NewDay
  <1>2. ASSUME NEW p \in Pages, LookAtTrial(p) \/ CommitTrial(p)
        PROVE  OneHolder' /\ ServedWasSent'
    BY <1>2, HolderCalm DEF LookAtTrial, CommitTrial
  <1>3. ASSUME NEW s \in Subs, OpenCheckout(s) \/ CompleteCheckout(s)
                               \/ MoveSubscription(s) \/ CancelInPortal(s)
        PROVE  OneHolder' /\ ServedWasSent'
    BY <1>3, HolderCalm DEF OpenCheckout, CompleteCheckout, MoveSubscription, CancelInPortal
  <1>4. ASSUME NEW w \in Webhooks, CrashRequest(w) PROVE OneHolder' /\ ServedWasSent'
    <2>1. \A v \in Webhooks : request'[v] = request[v] \/ request'[v] = Idle
      BY <1>4 DEF CrashRequest, TypeOK
    <2>2. QED
      BY <1>4, <2>1, HolderCalm DEF CrashRequest
  <1>5. CASE UNCHANGED vars
    BY <1>5, HolderCalm DEF vars
  <1>6. QED
    BY <1>1, <1>2, <1>3, <1>4, <1>5, HolderLoad, HolderRecord, HolderCommit DEF Next

\* The subscription row, the delivery rows, the requests and the answers keep
\* the types that db/models.Subscription and the handler give them.
THEOREM TypeCorrect == Spec => []TypeOK
  <1>1. Init => TypeOK /\ OneHolder /\ ServedWasSent
    BY InitType, InitHolder
  <1>2. TypeOK /\ OneHolder /\ ServedWasSent /\ [Next]_vars
        => (TypeOK /\ OneHolder /\ ServedWasSent)'
    BY TypeStep, HolderStep
  <1>3. QED
    BY <1>1, <1>2, PTL DEF Spec

LEMMA HolderAlways == Spec => [](TypeOK /\ OneHolder /\ ServedWasSent)
  <1>1. Init => TypeOK /\ OneHolder /\ ServedWasSent
    BY InitType, InitHolder
  <1>2. TypeOK /\ OneHolder /\ ServedWasSent /\ [Next]_vars
        => (TypeOK /\ OneHolder /\ ServedWasSent)'
    BY TypeStep, HolderStep
  <1>3. QED
    BY <1>1, <1>2, PTL DEF Spec

\* An event takes effect once and is answered only when it has, for every
\* number of events, instances and failures.
THEOREM AppliedOnce == Spec => []AnsweredIsAppliedOnce
  <1>1. OneHolder => AnsweredIsAppliedOnce
    BY DEF OneHolder, AnsweredIsAppliedOnce, Applied
  <1>2. QED
    BY <1>1, HolderAlways, PTL

---------------------------------------------------------------------------
(* Access after a payment.                                                 *)

\* An event that was applied says that the money for it arrived.
Paid == \E e \in ToSet(applied) : Decides(e) /\ events[e].status = "active"

\* Whatever row is active, the stored one or one a request has read.
ActiveIsPaid ==
    /\ row.status = "active" => Paid
    /\ \A w \in Webhooks :
          request[w].stage # "idle" /\ request[w].row.status = "active" => Paid

\* Nothing takes a payment back: events and applied only grow.
LEMMA PaidStays ==
    ASSUME TypeOK, OneHolder, ServedWasSent, [Next]_vars, Paid
    PROVE  Paid'
  <1> USE DEF Store, Outside, History
  <1>1. PICK e \in ToSet(applied) : Decides(e) /\ events[e].status = "active"
    BY DEF Paid
  <1>2. e \in 1..Len(events) /\ events'[e] = events[e]
    BY <1>1, EventsGrow DEF OneHolder
  <1>3. Decides(e)'
    BY <1>1, <1>2 DEF Decides, CheckoutIsPaid
  <1>4. ToSet(applied) \subseteq ToSet(applied')
    <2>1. CASE applied' = applied
      BY <2>1
    <2>2. ASSUME NEW w \in Webhooks, CommitEvent(w)
          PROVE  ToSet(applied) \subseteq ToSet(applied')
      <3>1. request[w].event \in 1..Len(events) /\ applied' = Append(applied, request[w].event)
        BY <2>2 DEF CommitEvent, ServedWasSent
      <3>2. Len(events) \in Nat /\ Len(events) <= MaxEvents /\ MaxEvents \in Nat
        BY BillingAssumption DEF TypeOK
      <3>3. request[w].event \in 1..MaxEvents
        BY <3>1, <3>2
      <3>4. QED
        BY <3>1, <3>3, AppendApplied
    <2>3. applied' = applied \/ \E w \in Webhooks : CommitEvent(w)
      BY DEF Next, NewDay, LookAtTrial, CommitTrial, OpenCheckout, CompleteCheckout,
             MoveSubscription, CancelInPortal, LoadEvent, Record, CrashRequest, vars
    <2>4. QED
      BY <2>1, <2>2, <2>3
  <1>5. QED
    BY <1>1, <1>2, <1>3, <1>4 DEF Paid

\* A commit leaves `active' behind only over one that was read as active, or
\* for an event that says so.
LEMMA ActiveCommit ==
    ASSUME TypeOK, OneHolder, ServedWasSent, ActiveIsPaid,
           NEW w \in Webhooks, CommitEvent(w)
    PROVE  row'.status = "active" => Paid'
  <1> DEFINE e == request[w].event
             read == request[w].row
             written == RowAfter(e, read)
  <1>1. /\ request[w].stage = "inserted"
        /\ row' = Flushed(read, written)
        /\ applied' = Append(applied, e)
        /\ events' = events
    BY DEF CommitEvent, Outside
  <1>2. Len(events) \in Nat /\ Len(events) <= MaxEvents /\ MaxEvents \in Nat
    BY BillingAssumption DEF TypeOK
  <1>3. e \in 1..Len(events) /\ e \in 1..MaxEvents
    BY <1>1, <1>2 DEF ServedWasSent
  <1>4. ToSet(applied') = ToSet(applied) \cup {e}
    BY <1>1, <1>3, AppendApplied
  <1>5. Paid => Paid'
    BY <1>1, <1>4 DEF Paid, Decides, CheckoutIsPaid
  <1>6. row'.status = row.status \/ row'.status = written.status
    BY <1>1 DEF Flushed
  <1>7. written.status = read.status \/ Decides(e)
    BY DEF RowAfter, StatusAfter
  <1>8. written.status = "active" /\ Decides(e) => events[e].status = "active"
    BY DEF RowAfter, StatusAfter
  <1>9. Decides(e) /\ events[e].status = "active" => Paid'
    BY <1>1, <1>4 DEF Paid, Decides, CheckoutIsPaid
  <1>10. read.status = "active" => Paid
    BY <1>1 DEF ActiveIsPaid
  <1>11. row.status = "active" => Paid
    BY DEF ActiveIsPaid
  <1>12. QED
    BY <1>5, <1>6, <1>7, <1>8, <1>9, <1>10, <1>11

LEMMA ActiveStep ==
    ASSUME TypeOK, OneHolder, ServedWasSent, ActiveIsPaid, [Next]_vars
    PROVE  ActiveIsPaid'
  <1> USE DEF Store, Outside, History
  <1>1. CASE UNCHANGED <<row, request>>
    BY <1>1, PaidStays DEF ActiveIsPaid
  <1>2. ASSUME NEW p \in Pages, CommitTrial(p) PROVE ActiveIsPaid'
    <2>1. row'.status = "active" => row.status = "active"
      BY <1>2 DEF CommitTrial, RolledOver, TypeOK, Rows
    <2>2. QED
      BY <1>2, <2>1, PaidStays DEF CommitTrial, ActiveIsPaid
  <1>3. ASSUME NEW w \in Webhooks, NEW e \in 1..MaxEvents, LoadEvent(w, e)
        PROVE  ActiveIsPaid'
    <2>1. /\ request'[w].row = row /\ row' = row
          /\ \A v \in Webhooks \ {w} : request'[v] = request[v]
      BY <1>3 DEF LoadEvent, TypeOK
    <2>2. QED
      BY <2>1, PaidStays DEF ActiveIsPaid
  <1>4. ASSUME NEW w \in Webhooks, Record(w) PROVE ActiveIsPaid'
    <2>1. /\ row' = row /\ request[w].stage = "loaded"
          /\ request'[w].stage # "idle" => request'[w].row = request[w].row
          /\ \A v \in Webhooks \ {w} : request'[v] = request[v]
      <3>1. \/ request' = [request EXCEPT ![w] = Idle]
            \/ request' = [request EXCEPT ![w] = [request[w] EXCEPT !.stage = "inserted"]]
        BY <1>4 DEF Record
      <3>2. request'[w] = Idle \/ request'[w] = [request[w] EXCEPT !.stage = "inserted"]
        BY <3>1 DEF TypeOK
      <3>3. [request[w] EXCEPT !.stage = "inserted"].row = request[w].row
        BY DEF TypeOK, Requests
      <3>4. \A v \in Webhooks \ {w} : request'[v] = request[v]
        BY <3>1 DEF TypeOK
      <3>5. Idle.stage = "idle"
        BY DEF Idle
      <3>6. row' = row /\ request[w].stage = "loaded"
        BY <1>4 DEF Record
      <3>7. QED
        BY <3>2, <3>3, <3>4, <3>5, <3>6
    <2>2. QED
      BY <2>1, PaidStays DEF ActiveIsPaid
  <1>5. ASSUME NEW w \in Webhooks, CommitEvent(w) PROVE ActiveIsPaid'
    <2>1. /\ request'[w].stage = "idle"
          /\ \A v \in Webhooks \ {w} : request'[v] = request[v]
      BY <1>5 DEF CommitEvent, TypeOK, Idle
    <2>2. QED
      BY <1>5, <2>1, ActiveCommit, PaidStays DEF ActiveIsPaid
  <1>6. ASSUME NEW w \in Webhooks, CrashRequest(w) PROVE ActiveIsPaid'
    <2>1. /\ row' = row /\ request'[w].stage = "idle"
          /\ \A v \in Webhooks \ {w} : request'[v] = request[v]
      BY <1>6 DEF CrashRequest, TypeOK, Idle
    <2>2. QED
      BY <2>1, PaidStays DEF ActiveIsPaid
  <1>7. QED
    BY <1>1, <1>2, <1>3, <1>4, <1>5, <1>6
    DEF Next, NewDay, LookAtTrial, OpenCheckout, CompleteCheckout, MoveSubscription,
        CancelInPortal, vars

\* The store is served as a paying one only after an event that says the money
\* arrived, whichever requests overlapped.
THEOREM PaidForAccess == Spec => []AccessWasPaidFor
  <1>1. Init => ActiveIsPaid
    BY DEF Init, ActiveIsPaid, NoRow, Idle
  <1>2. TypeOK /\ OneHolder /\ ServedWasSent /\ ActiveIsPaid /\ [Next]_vars
        => ActiveIsPaid'
    BY ActiveStep
  <1>3. ActiveIsPaid => AccessWasPaidFor
    BY DEF ActiveIsPaid, AccessWasPaidFor, Applied, Paid
  <1>4. QED
    BY <1>1, <1>2, <1>3, HolderAlways, PTL DEF Spec

---------------------------------------------------------------------------
(* The rollover.                                                           *)

\* A page that is about to close the trial read one, and it had run out; and
\* a row that exists is never taken away again.
TrialWasRead ==
    /\ \A p \in Pages : page[p].stage = "expire" =>
          page[p].read = "trialing" /\ trialEnd <= today /\ row.status # "none"
    /\ \A w \in Webhooks : request[w].stage # "idle" =>
          request[w].row.status # "none" /\ row.status # "none"

\* A commit writes the status the handler chose, which is never "none" and
\* is trial_expired only when the row was read so and is then not written.
LEMMA CommitStatus ==
    ASSUME TypeOK, TrialWasRead, NEW w \in Webhooks, CommitEvent(w)
    PROVE  /\ row'.status # "none"
           /\ row'.status = "trial_expired" => row.status = "trial_expired"
  <1> DEFINE e == request[w].event
             read == request[w].row
             written == RowAfter(e, read)
  <1>1. request[w].stage = "inserted" /\ row' = Flushed(read, written)
    BY DEF CommitEvent
  <1>2. row.status # "none" /\ read.status # "none"
    BY <1>1 DEF TrialWasRead
  <1>3. row'.status = IF written.status # read.status THEN written.status ELSE row.status
    BY <1>1 DEF Flushed
  <1>4. written.status # read.status
          => written.status # "trial_expired" /\ written.status # "none"
    BY DEF RowAfter, StatusAfter
  <1>5. QED
    BY <1>2, <1>3, <1>4

LEMMA TrialStep ==
    ASSUME TypeOK, TrialWasRead, [Next]_vars
    PROVE  TrialWasRead'
  <1> USE DEF Store, Outside, History
  <1>1. CASE UNCHANGED <<today, row, trialEnd, page, request>>
    BY <1>1 DEF TrialWasRead
  <1>2. CASE NewDay
    <2>1. today \in Nat /\ trialEnd \in Nat /\ today' = today + 1
      BY <1>2 DEF NewDay, TypeOK
    <2>2. UNCHANGED <<row, trialEnd, page, request>>
      BY <1>2 DEF NewDay
    <2>3. trialEnd <= today => trialEnd' <= today'
      BY <2>1, <2>2
    <2>4. QED
      BY <2>2, <2>3 DEF TrialWasRead
  <1>3. ASSUME NEW p \in Pages, LookAtTrial(p) PROVE TrialWasRead'
    <2>1. UNCHANGED <<today, row, trialEnd, request>>
      BY <1>3 DEF LookAtTrial
    <2>2. \A q \in Pages \ {p} : page'[q] = page[q]
      BY <1>3 DEF LookAtTrial, TypeOK
    <2>3. page'[p].stage = "expire" =>
            page'[p].read = "trialing" /\ trialEnd <= today /\ row.status # "none"
      BY <1>3 DEF LookAtTrial, Expired, TypeOK, PageStates
    <2>4. QED
      BY <2>1, <2>2, <2>3 DEF TrialWasRead
  <1>4. ASSUME NEW p \in Pages, CommitTrial(p) PROVE TrialWasRead'
    <2>1. UNCHANGED <<today, request>>
      BY <1>4 DEF CommitTrial
    <2>2. page'[p].stage = "idle" /\ \A q \in Pages \ {p} : page'[q] = page[q]
      BY <1>4 DEF CommitTrial, TypeOK, NoPage
    <2>3. row'.status # "none" \/ row'.status = row.status
      BY <1>4 DEF CommitTrial, RolledOver, TypeOK, Rows
    <2>4. row.status # "none" => trialEnd' = trialEnd
      BY <1>4 DEF CommitTrial
    <2>5. QED
      BY <2>1, <2>2, <2>3, <2>4 DEF TrialWasRead
  <1>5. ASSUME NEW w \in Webhooks, NEW e \in 1..MaxEvents, LoadEvent(w, e)
        PROVE  TrialWasRead'
    <2>1. /\ UNCHANGED <<today, row, trialEnd, page>>
          /\ row.status # "none"
          /\ request'[w].row = row
          /\ \A v \in Webhooks \ {w} : request'[v] = request[v]
      BY <1>5 DEF LoadEvent, TypeOK
    <2>2. QED
      BY <2>1 DEF TrialWasRead
  <1>6. ASSUME NEW w \in Webhooks, Record(w) PROVE TrialWasRead'
    <2>1. UNCHANGED <<today, row, trialEnd, page>> /\ request[w].stage = "loaded"
      BY <1>6 DEF Record
    <2>2. \/ request' = [request EXCEPT ![w] = Idle]
          \/ request' = [request EXCEPT ![w] = [request[w] EXCEPT !.stage = "inserted"]]
      BY <1>6 DEF Record
    <2>3. request'[w] = Idle \/ request'[w] = [request[w] EXCEPT !.stage = "inserted"]
      BY <2>2 DEF TypeOK
    <2>4. [request[w] EXCEPT !.stage = "inserted"].row = request[w].row
      BY DEF TypeOK, Requests
    <2>5. \A v \in Webhooks \ {w} : request'[v] = request[v]
      BY <2>2 DEF TypeOK
    <2>6. Idle.stage = "idle"
      BY DEF Idle
    <2>7. request'[w].stage # "idle" => request'[w].row = request[w].row
      BY <2>3, <2>4, <2>6
    <2>8. QED
      BY <2>1, <2>5, <2>7 DEF TrialWasRead
  <1>7. ASSUME NEW w \in Webhooks, CommitEvent(w) PROVE TrialWasRead'
    <2>1. UNCHANGED <<today, trialEnd, page>>
      BY <1>7 DEF CommitEvent
    <2>2. request'[w].stage = "idle" /\ \A v \in Webhooks \ {w} : request'[v] = request[v]
      BY <1>7 DEF CommitEvent, TypeOK, Idle
    <2>3. QED
      BY <1>7, <2>1, <2>2, CommitStatus DEF TrialWasRead
  <1>8. ASSUME NEW w \in Webhooks, CrashRequest(w) PROVE TrialWasRead'
    <2>1. UNCHANGED <<today, row, trialEnd, page>>
      BY <1>8 DEF CrashRequest
    <2>2. request'[w].stage = "idle" /\ \A v \in Webhooks \ {w} : request'[v] = request[v]
      BY <1>8 DEF CrashRequest, TypeOK, Idle
    <2>3. QED
      BY <2>1, <2>2 DEF TrialWasRead
  <1>9. QED
    BY <1>1, <1>2, <1>3, <1>4, <1>5, <1>6, <1>7, <1>8
    DEF Next, OpenCheckout, CompleteCheckout, MoveSubscription, CancelInPortal, vars

\* Only a request that read an over-due trial closes it, so what Stripe said
\* is undone by the clock only through a read older than the event.
THEOREM RolloverIsOfATrial == Spec => RolloverUndoesOnlyWhenStale
  <1> DEFINE Step == row'.status = "trial_expired" /\ row.status # "trial_expired"
                       => /\ trialEnd <= today
                          /\ \/ row.status = "trialing"
                             \/ \E p \in Pages : page[p].stage = "expire"
                                                 /\ page[p].read = "trialing"
  <1>1. Init => TrialWasRead
    BY DEF Init, TrialWasRead, NoPage, Idle
  <1>2. TypeOK /\ TrialWasRead /\ [Next]_vars => TrialWasRead'
    BY TrialStep
  <1>3. ASSUME TypeOK, TrialWasRead, [Next]_vars PROVE [Step]_vars
    <2>1. ASSUME NEW p \in Pages, CommitTrial(p) PROVE Step
      <3>1. row'.status = "trial_expired" /\ row.status # "trial_expired"
              => page[p].stage = "expire"
        BY <1>3, <2>1 DEF CommitTrial, TypeOK, Rows
      <3>2. QED
        BY <1>3, <3>1 DEF TrialWasRead
    <2>2. ASSUME NEW w \in Webhooks, CommitEvent(w) PROVE Step
      BY <1>3, <2>2, CommitStatus
    <2>3. CASE row' = row
      BY <2>3
    <2>4. QED
      BY <1>3, <2>1, <2>2, <2>3
      DEF Next, NewDay, LookAtTrial, OpenCheckout, CompleteCheckout, MoveSubscription,
          CancelInPortal, LoadEvent, Record, CrashRequest, Store, vars
  <1>4. QED
    BY <1>1, <1>2, <1>3, TypeCorrect, PTL DEF Spec, RolloverUndoesOnlyWhenStale

---------------------------------------------------------------------------
(* The refinement.                                                         *)

LEMMA InitIsInbox == Init => EventInbox!Init
  <1>1. 1..0 = {} /\ Len(<<>>) = 0
    OBVIOUS
  <1>2. QED
    BY <1>1 DEF Init, EventInbox!Init

\* Sending an event is the inbox's Send.
LEMMA SendIsInbox ==
    ASSUME TypeOK, NEW s, NEW type, NEW status, Send(s, type, status),
           UNCHANGED <<applied, acked>>
    PROVE  EventInbox!Next
  <1>1. /\ Len(events) \in Nat /\ Len(events) < MaxEvents /\ MaxEvents \in Nat
        /\ Len(events') = Len(events) + 1
    BY BillingAssumption DEF Send, TypeOK
  <1>2. Len(events) + 1 \in (1..MaxEvents) \ (1..Len(events))
    BY <1>1
  <1>3. 1..Len(events') = (1..Len(events)) \cup {Len(events) + 1}
    BY <1>1
  <1>4. EventInbox!Send
    BY <1>2, <1>3 DEF EventInbox!Send
  <1>5. QED
    BY <1>4 DEF EventInbox!Next

\* The commit is the inbox's Take, with the answer or without.
LEMMA CommitIsInbox ==
    ASSUME TypeOK, OneHolder, ServedWasSent, NEW w \in Webhooks, CommitEvent(w)
    PROVE  EventInbox!Next
  <1> DEFINE e == request[w].event
  <1>1. /\ request[w].stage = "inserted"
        /\ applied' = Append(applied, e)
        /\ acked' = acked \cup {e} \/ acked' = acked
        /\ events' = events
    BY DEF CommitEvent, Outside
  <1>2. Len(events) \in Nat /\ Len(events) <= MaxEvents /\ MaxEvents \in Nat
    BY BillingAssumption DEF TypeOK
  <1>3. e \in 1..Len(events) /\ e \in 1..MaxEvents /\ e \notin ToSet(applied)
    BY <1>1, <1>2 DEF ServedWasSent, OneHolder
  <1>4. EventInbox!Take(e)
    BY <1>1, <1>3 DEF EventInbox!Take, EventInbox!ToSet, ToSet
  <1>5. QED
    BY <1>3, <1>4 DEF EventInbox!Next

\* An event found recorded is the inbox's Answer; one that is held anew
\* changes nothing the sender can see.
LEMMA RecordIsInbox ==
    ASSUME TypeOK, OneHolder, ServedWasSent, NEW w \in Webhooks, Record(w)
    PROVE  [EventInbox!Next]_(EventInbox!vars)
  <1> DEFINE e == request[w].event
  <1>1. events' = events /\ applied' = applied /\ request[w].stage = "loaded"
    BY DEF Record, Outside, Store, History
  <1>2. CASE e \in delivered /\ acked' = acked \cup {e}
    <2>1. Len(events) \in Nat /\ Len(events) <= MaxEvents /\ MaxEvents \in Nat
      BY BillingAssumption DEF TypeOK
    <2>2. e \in 1..MaxEvents /\ e \in ToSet(applied)
      BY <1>1, <1>2, <2>1 DEF ServedWasSent, OneHolder
    <2>3. EventInbox!Answer(e)
      BY <1>1, <1>2, <2>2 DEF EventInbox!Answer, EventInbox!ToSet, ToSet
    <2>4. QED
      BY <2>2, <2>3 DEF EventInbox!Next
  <1>3. CASE acked' = acked
    BY <1>1, <1>3 DEF EventInbox!vars
  <1>4. QED
    BY <1>2, <1>3 DEF Record

LEMMA StepIsInbox ==
    ASSUME TypeOK, OneHolder, ServedWasSent, [Next]_vars
    PROVE  [EventInbox!Next]_(EventInbox!vars)
  <1> USE DEF Store, Outside, History
  <1>1. CASE UNCHANGED <<events, applied, acked>>
    BY <1>1 DEF EventInbox!vars
  <1>2. ASSUME NEW s \in Subs, CompleteCheckout(s) \/ MoveSubscription(s) \/ CancelInPortal(s)
        PROVE  EventInbox!Next
    BY <1>2, SendIsInbox DEF CompleteCheckout, MoveSubscription, CancelInPortal
  <1>3. QED
    BY <1>1, <1>2, CommitIsInbox, RecordIsInbox
    DEF Next, NewDay, LookAtTrial, CommitTrial, OpenCheckout, LoadEvent, CrashRequest, vars

\* The webhook implements the safety of the inbox: what Stripe sees of two
\* instances, a unique index and their failures is a mailbox that takes every
\* message at most once and answers only for what it took.
THEOREM ImplementsInbox == Spec => EventInbox!Safely
  <1>1. TypeOK /\ OneHolder /\ ServedWasSent /\ [Next]_vars
          => [EventInbox!Next]_(EventInbox!vars)
    BY StepIsInbox
  <1>2. QED
    BY <1>1, InitIsInbox, HolderAlways, PTL DEF Spec, EventInbox!Safely

---------------------------------------------------------------------------
(* The last word.                                                          *)

\* LastWordStands, and that a trial, over or not, means that nothing decided.
Word ==
    ~stale =>
        /\ \A i \in DOMAIN applied : LastWord(i) => row.status = StatusAfter(applied[i], "none")
        /\ (\A i \in DOMAIN applied : ~Decides(applied[i]))
              <=> row.status \in {"none", "trialing", "trial_expired"}

\* What was applied says the same for good.
LEMMA WordsStay ==
    ASSUME TypeOK, OneHolder, [Next]_vars, applied' = applied
    PROVE  \A i \in DOMAIN applied :
              /\ Decides(applied[i])' <=> Decides(applied[i])
              /\ \A status : StatusAfter(applied[i], status)' = StatusAfter(applied[i], status)
  <1> SUFFICES ASSUME NEW i \in DOMAIN applied
               PROVE  /\ Decides(applied[i])' <=> Decides(applied[i])
                      /\ \A status : StatusAfter(applied[i], status)'
                                        = StatusAfter(applied[i], status)
    OBVIOUS
  <1>1. applied[i] \in 1..Len(events)
    BY DEF OneHolder, ToSet
  <1>2. events'[applied[i]] = events[applied[i]] /\ applied'[i] = applied[i]
    BY <1>1, EventsGrow
  <1>3. QED
    BY <1>2 DEF Decides, CheckoutIsPaid, StatusAfter

\* An event that decides says where the store is, whatever it was before.
LEMMA DecidedStatus ==
    ASSUME NEW e, Decides(e)
    PROVE  /\ StatusAfter(e, "none") \notin {"none", "trialing", "trial_expired"}
           /\ \A status : StatusAfter(e, status) = StatusAfter(e, "none")
  BY DEF StatusAfter

LEMMA TrialKeepsWord ==
    ASSUME TypeOK, OneHolder, TrialWasRead, Word, [Next]_vars, NEW p \in Pages, CommitTrial(p)
    PROVE  Word'
  <1> SUFFICES ASSUME ~stale'
               PROVE  /\ \A i \in DOMAIN applied :
                           LastWord(i)' => row'.status = StatusAfter(applied[i], "none")'
                      /\ (\A i \in DOMAIN applied : ~Decides(applied[i])')
                           <=> row'.status \in {"none", "trialing", "trial_expired"}
    BY DEF Word, CommitTrial
  <1>1. applied' = applied /\ ~stale
    BY DEF CommitTrial, TypeOK
  <1>2. \/ row' = row
        \/ /\ row.status \in {"none", "trialing"}
           /\ row'.status \in {"trialing", "trial_expired"}
    <2>1. page[p].stage = "expire" => row.status = "trialing"
      BY DEF CommitTrial, TrialWasRead
    <2>2. QED
      BY <2>1 DEF CommitTrial, RolledOver, TypeOK, Rows
  <1>3. CASE row' = row
    BY <1>1, <1>3, WordsStay DEF Word, LastWord
  <1>4. CASE row' # row
    <2>1. \A i \in DOMAIN applied : ~Decides(applied[i])
      BY <1>1, <1>2, <1>4 DEF Word
    <2>2. QED
      BY <1>1, <1>2, <1>4, <2>1, WordsStay DEF LastWord
  <1>5. QED
    BY <1>3, <1>4

LEMMA CommitKeepsWord ==
    ASSUME TypeOK, OneHolder, ServedWasSent, Word, NEW w \in Webhooks, CommitEvent(w)
    PROVE  Word'
  <1> PICK e : e = request[w].event
    OBVIOUS
  <1> SUFFICES ASSUME ~stale'
               PROVE  /\ \A i \in DOMAIN applied' :
                           LastWord(i)' => row'.status = StatusAfter(applied[i], "none")'
                      /\ (\A i \in DOMAIN applied' : ~Decides(applied[i])')
                           <=> row'.status \in {"none", "trialing", "trial_expired"}
    BY DEF Word
  <1>1. /\ ~stale /\ row = request[w].row
        /\ row' = Flushed(row, RowAfter(e, row))
        /\ applied' = Append(applied, e) /\ events' = events
        /\ request[w].stage = "inserted"
    BY DEF CommitEvent, Outside, TypeOK
  <1>2. row'.status = StatusAfter(e, row.status)
    BY <1>1 DEF Flushed, RowAfter
  <1> PICK n \in Nat : n = Len(applied)
    BY DEF TypeOK
  <1>3. /\ DOMAIN applied = 1..n /\ DOMAIN applied' = 1..(n + 1) /\ applied'[n + 1] = e
        /\ \A i \in 1..n : applied'[i] = applied[i]
    <2>1. applied \in Seq(1..MaxEvents) /\ e \in 1..MaxEvents
      <3>1. e \in 1..Len(events)
        BY <1>1 DEF ServedWasSent
      <3>2. Len(events) \in Nat /\ Len(events) <= MaxEvents /\ MaxEvents \in Nat
        BY BillingAssumption DEF TypeOK
      <3>3. QED
        BY <3>1, <3>2 DEF TypeOK
    <2>2. QED
      BY <1>1, <2>1
  <1>4. ASSUME NEW i \in 1..(n + 1)
        PROVE  /\ Decides(applied[i])' <=> Decides(applied'[i])
               /\ StatusAfter(applied[i], "none")' = StatusAfter(applied'[i], "none")
    BY <1>1 DEF Decides, CheckoutIsPaid, StatusAfter
  <1>5. n + 1 \in 1..(n + 1) /\ 1..n \subseteq 1..(n + 1) /\ n + 1 > n
    OBVIOUS
  <1>6. CASE Decides(e)
    <2>1. row'.status = StatusAfter(e, "none")
          /\ row'.status \notin {"none", "trialing", "trial_expired"}
      BY <1>2, <1>6, DecidedStatus
    <2>2. Decides(applied[n + 1])'
      BY <1>3, <1>4, <1>5, <1>6
    <2>3. ASSUME NEW i \in DOMAIN applied', LastWord(i)'
          PROVE  i = n + 1
      <3>1. n + 1 <= i
        BY <1>3, <1>5, <2>2, <2>3 DEF LastWord
      <3>2. QED
        BY <1>3, <3>1
    <2>4. QED
      BY <1>3, <1>4, <1>5, <2>1, <2>2, <2>3
  <1>7. CASE ~Decides(e)
    <2>1. row'.status = row.status
      BY <1>2, <1>7 DEF StatusAfter
    <2>2. \A i \in 1..n : (Decides(applied[i])' <=> Decides(applied[i]))
      BY <1>3, <1>4, <1>5
    <2>3. ~Decides(applied[n + 1])'
      BY <1>3, <1>4, <1>5, <1>7
    <2>4. \A i \in 1..(n + 1) : i \in 1..n \/ i = n + 1
      OBVIOUS
    <2>5. ASSUME NEW i \in DOMAIN applied', LastWord(i)'
          PROVE  row'.status = StatusAfter(applied[i], "none")'
      <3>1. i \in 1..n /\ Decides(applied[i])
        BY <1>3, <2>2, <2>3, <2>4, <2>5 DEF LastWord
      <3>2. LastWord(i)
        BY <1>3, <1>5, <2>2, <2>5, <3>1 DEF LastWord
      <3>3. QED
        BY <1>1, <1>3, <1>4, <1>5, <2>1, <3>1, <3>2 DEF Word
    <2>6. (\A i \in DOMAIN applied' : ~Decides(applied[i])')
             <=> (\A i \in DOMAIN applied : ~Decides(applied[i]))
      BY <1>3, <1>5, <2>2, <2>3, <2>4
    <2>7. QED
      BY <1>1, <2>1, <2>5, <2>6 DEF Word
  <1>8. QED
    BY <1>6, <1>7

LEMMA WordStep ==
    ASSUME TypeOK, OneHolder, ServedWasSent, TrialWasRead, Word, [Next]_vars
    PROVE  Word'
  <1> USE DEF Store, Outside, History
  <1>1. CASE UNCHANGED <<row, applied, stale>>
    BY <1>1, WordsStay DEF Word, LastWord
  <1>2. QED
    BY <1>1, TrialKeepsWord, CommitKeepsWord
    DEF Next, NewDay, LookAtTrial, OpenCheckout, CompleteCheckout, MoveSubscription,
        CancelInPortal, LoadEvent, Record, CrashRequest, vars

\* Unless somebody committed over a row that had moved, what the store may do is
\* what the last event that decides said.
THEOREM LastWordIsKept == Spec => []LastWordStands
  <1>1. Init => Word /\ TrialWasRead
    BY DEF Init, Word, NoRow, TrialWasRead, NoPage, Idle
  <1>2. TypeOK /\ OneHolder /\ ServedWasSent /\ Word /\ TrialWasRead /\ [Next]_vars
        => Word' /\ TrialWasRead'
    BY WordStep, TrialStep
  <1>3. Word => LastWordStands
    BY DEF Word, LastWordStands
  <1>4. QED
    BY <1>1, <1>2, <1>3, HolderAlways, PTL DEF Spec

---------------------------------------------------------------------------
(* The messages.                                                           *)

\* A receipt is of an event that was applied.
Receipted == \A r \in receipts : r[1] \in ToSet(applied)

LEMMA ReceiptsOfCommit ==
    ASSUME TypeOK, OneHolder, ServedWasSent, NEW w \in Webhooks, CommitEvent(w)
    PROVE  /\ ToSet(applied') = ToSet(applied) \cup {request[w].event}
           /\ \A r \in receipts' : r \in receipts \/ r[1] = request[w].event
  <1>1. request[w].event \in 1..Len(events)
    BY DEF CommitEvent, ServedWasSent
  <1>2. Len(events) \in Nat /\ Len(events) <= MaxEvents /\ MaxEvents \in Nat
    BY BillingAssumption DEF TypeOK
  <1>3. request[w].event \in 1..MaxEvents
    BY <1>1, <1>2
  <1>4. ToSet(applied') = ToSet(applied) \cup {request[w].event}
    BY <1>3, AppendApplied DEF CommitEvent
  <1>5. \A r \in receipts' : r \in receipts \/ r[1] = request[w].event
    BY DEF CommitEvent, MailFor
  <1>6. QED
    BY <1>4, <1>5

LEMMA ReceiptStep ==
    ASSUME TypeOK, OneHolder, ServedWasSent, Receipted, [Next]_vars
    PROVE  Receipted'
  <1> USE DEF Store, Outside, History
  <1>1. CASE UNCHANGED <<receipts, applied>>
    BY <1>1 DEF Receipted
  <1>2. QED
    BY <1>1, ReceiptsOfCommit
    DEF Receipted, Next, NewDay, LookAtTrial, CommitTrial, OpenCheckout, CompleteCheckout,
        MoveSubscription, CancelInPortal, LoadEvent, Record, CrashRequest, vars

\* The commit of a request that read the row as it still is.
LEMMA Announced ==
    ASSUME OneHolder, Receipted, NEW w \in Webhooks, CommitEvent(w), request[w].row = row,
           row'.status \in {"active", "past_due", "canceled"}
    PROVE  row'.status # row.status
              <=> \E k \in Kinds : <<request[w].event, k>> \in receipts'
  <1> PICK e : e = request[w].event
    OBVIOUS
  <1> PICK written : written = RowAfter(e, row)
    OBVIOUS
  <1>1. /\ row' = Flushed(row, written) /\ receipts' = receipts \cup MailFor(e, row, written)
        /\ request[w].stage = "inserted"
    BY DEF CommitEvent
  <1>2. row'.status = written.status
    BY <1>1 DEF Flushed
  <1>3. \A k : <<e, k>> \notin receipts
    <2>1. e \notin ToSet(applied)
      BY <1>1 DEF OneHolder
    <2>2. QED
      BY <2>1 DEF Receipted
  <1>4. \A k : <<e, k>> \in receipts' <=> <<e, k>> \in MailFor(e, row, written)
    BY <1>1, <1>3
  <1>5. written.status \in {"active", "past_due", "canceled"}
          => (written.status # row.status
                <=> \E k \in Kinds : <<e, k>> \in MailFor(e, row, written))
    <2>1. written.status = row.status => MailFor(e, row, written) = {}
      BY DEF MailFor
    <2>2. written.status # row.status /\ written.status \in {"active", "past_due", "canceled"}
            => \E k \in Kinds : MailFor(e, row, written) = {<<e, k>>}
      BY DEF MailFor, Kinds, KindOf
    <2>3. QED
      BY <2>1, <2>2
  <1>6. QED
    BY <1>2, <1>4, <1>5

\* Every move of the subscription is announced by the event that made it, and
\* no event announces a move it did not make, when the row was read as it was.
THEOREM MovesAreHeard == Spec => MovesAreAnnounced
  <1> DEFINE Step ==
        \A w \in Webhooks :
          /\ request[w].stage = "inserted" /\ request[w].row = row
          /\ request[w].event \in Applied' \ Applied
          /\ row'.status \in {"active", "past_due", "canceled"}
          => (row'.status # row.status
                <=> \E k \in Kinds : <<request[w].event, k>> \in receipts')
  <1>1. Init => Receipted
    BY DEF Init, Receipted
  <1>2. TypeOK /\ OneHolder /\ ServedWasSent /\ Receipted /\ [Next]_vars => Receipted'
    BY ReceiptStep
  <1>3. ASSUME TypeOK, OneHolder, ServedWasSent, Receipted, [Next]_vars PROVE [Step]_vars
    <2>1. CASE applied' = applied
      BY <2>1 DEF Applied
    <2>2. ASSUME NEW v \in Webhooks, CommitEvent(v) PROVE Step
      <3> SUFFICES ASSUME NEW w \in Webhooks,
                          request[w].stage = "inserted", request[w].row = row,
                          request[w].event \in Applied' \ Applied,
                          row'.status \in {"active", "past_due", "canceled"}
                   PROVE  row'.status # row.status
                            <=> \E k \in Kinds : <<request[w].event, k>> \in receipts'
        OBVIOUS
      <3>1. request[w].event = request[v].event /\ request[v].stage = "inserted"
        BY <1>3, <2>2, ReceiptsOfCommit DEF Applied, CommitEvent
      <3>2. v = w
        BY <1>3, <3>1 DEF OneHolder
      <3>3. QED
        BY <1>3, <2>2, <3>2, Announced
    <2>3. QED
      BY <1>3, <2>1, <2>2
      DEF Next, NewDay, LookAtTrial, CommitTrial, OpenCheckout, CompleteCheckout,
          MoveSubscription, CancelInPortal, LoadEvent, Record, CrashRequest, History, vars
  <1>4. QED
    BY <1>1, <1>2, <1>3, HolderAlways, PTL DEF Spec, MovesAreAnnounced
==============================================================================
