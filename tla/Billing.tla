------------------------------- MODULE Billing -------------------------------
(***************************************************************************)
(* What one store may do and who decides it: the subscription row          *)
(* (db/models.Subscription), the trial that billing.ensure_subscription    *)
(* opens and closes, the Stripe webhook that writes everything else, and   *)
(* the contract entitlement.py reads out of it.                            *)
(*                                                                         *)
(* A webhook reads the row, inserts its delivery, and commits the delivery *)
(* together with the columns it changed; nothing locks the row.  Stripe    *)
(* (external) moves its subscriptions, sends an event for every move in    *)
(* any order and sends it again until it is answered.  One event loop runs *)
(* the handler to its end; two requests are inside it at once when two     *)
(* instances of the API are up, as they are during a deployment.           *)
(*                                                                         *)
(* Left out: the plan column (one plan is sold), the period end (a date    *)
(* that is shown and decides nothing), the signature check, and the        *)
(* customer id, which is written together with the subscription's.         *)
(***************************************************************************)
EXTENDS Integers, FiniteSets, Sequences, SequencesExt

CONSTANTS
    MaxSubs,            \* bound: Checkout sessions, numbered as they are opened
    Instances,          \* how many API instances can be inside stripe_webhook
    Pages,              \* requests that can be inside ensure_subscription
    StripeConfigured,   \* STRIPE_SECRET_KEY is set
    TrialDays,          \* TRIAL_DAYS, clamped to 1..30
    LastDay,            \* bound: the clock
    MaxEvents,          \* bound: events Stripe sends
    MaxFailures         \* bound: requests that die, answers that get lost

ASSUME BillingAssumption ==
    /\ MaxSubs \in Nat /\ Instances \in Nat
    /\ StripeConfigured \in BOOLEAN
    /\ TrialDays \in 1..30
    /\ LastDay \in Nat /\ MaxEvents \in Nat /\ MaxFailures \in Nat

Subs == 1..MaxSubs
NoSub == 0
Webhooks == 1..Instances

VARIABLES
    today,      \* the clock, in days
    row,        \* the subscriptions row of the store
    trialEnd,   \* its trial_ends_at
    delivered,  \* webhook_deliveries: events recorded as completed
    request,    \* what each webhook request has read and how far it is
    page,       \* the same for the requests that roll the trial over
    receipts,   \* email_receipts reserved, as <<event, kind>>
    stripe,     \* Stripe's own state of each subscription
    events,     \* the events Stripe sent, in order
    acked,      \* events Stripe was answered 200 for, and sends no more
    failures,   \* history: failures so far
    applied,    \* history: events whose change was committed, in that order
    stale       \* history: somebody committed over a row that had changed

vars == <<today, row, trialEnd, delivered, request, page, receipts, stripe, events,
          acked, failures, applied, stale>>

RowStatuses == {"none", "trialing", "trial_expired", "active", "past_due", "canceled",
                "inactive"}
StripeStatuses == {"none", "open", "incomplete", "incomplete_expired", "active",
                   "past_due", "canceled"}
Kinds == {"activated", "payment_attention", "canceled"}
Rows == [status: RowStatuses, subscription: Subs \cup {NoSub}]
Events == [sub: Subs, type: {"checkout.session.completed", "customer.subscription.updated"},
           status: StripeStatuses]
Requests == [stage: {"idle", "loaded", "inserted"}, event: Nat, row: Rows]
PageStates == [stage: {"idle", "create", "expire"}, read: RowStatuses]
NoPage == [stage |-> "idle", read |-> "none"]
NoRow == [status |-> "none", subscription |-> NoSub]
Idle == [stage |-> "idle", event |-> 0, row |-> NoRow]

TypeOK ==
    /\ today \in 0..LastDay
    /\ row \in Rows
    /\ trialEnd \in Nat
    /\ delivered \subseteq 1..MaxEvents
    /\ request \in [Webhooks -> Requests]
    /\ page \in [Pages -> PageStates]
    /\ receipts \subseteq (1..MaxEvents) \X Kinds
    /\ stripe \in [Subs -> StripeStatuses]
    /\ events \in Seq(Events) /\ Len(events) <= MaxEvents
    /\ acked \subseteq 1..MaxEvents
    /\ failures \in 0..MaxFailures
    /\ applied \in Seq(1..MaxEvents)
    /\ stale \in BOOLEAN

Init ==
    /\ today = 0
    /\ row = NoRow
    /\ trialEnd = 0
    /\ delivered = {}
    /\ request = [w \in Webhooks |-> Idle]
    /\ page = [p \in Pages |-> NoPage]
    /\ receipts = {}
    /\ stripe = [s \in Subs |-> "none"]
    /\ events = <<>>
    /\ acked = {}
    /\ failures = 0
    /\ applied = <<>>
    /\ stale = FALSE

Store == <<row, trialEnd, delivered, receipts>>
Outside == <<stripe, events>>
History == <<applied, stale>>

Failure ==
    /\ failures < MaxFailures
    /\ failures' = failures + 1

---------------------------------------------------------------------------
(* The contract.                                                           *)

\* entitlement._status_of: the stored status in the words of the contract.
StatusOf(stored) ==
    IF ~StripeConfigured THEN "not_configured"
    ELSE CASE stored = "trialing" -> "trialing"
           [] stored = "active" -> "active"
           [] stored = "past_due" -> "past_due"
           [] stored = "canceled" -> "canceled"
           [] OTHER -> "expired"

\* entitlement.current, as the screen and the gate in front of the paid work
\* read it.
Current ==
    LET status == StatusOf(row.status) IN
    [status         |-> status,
     access         |-> status \in {"trialing", "active", "not_configured"},
     daysRemaining  |-> IF status = "trialing" /\ trialEnd > today THEN trialEnd - today ELSE 0,
     actionRequired |-> status \in {"past_due", "expired", "canceled"},
     action         |-> CASE status \in {"trialing", "expired", "canceled"} -> "checkout"
                          [] status \in {"past_due", "active"} -> "portal"
                          [] OTHER -> "none"]

---------------------------------------------------------------------------
(* The trial.                                                              *)

NewDay ==
    /\ today < LastDay
    /\ today' = today + 1
    /\ UNCHANGED <<Store, request, page, Outside, acked, failures, History>>

\* Mutant: whatever ran out is called an expired trial.
ExpiredByDate == trialEnd <= today

\* ensure_subscription closes a trial that is still one and has run out.
Expired == row.status = "trialing" /\ trialEnd <= today

\* A request reads the row and finds that it must write it.
LookAtTrial(p) ==
    /\ page[p].stage = "idle"
    /\ \/ /\ row.status = "none"
          /\ page' = [page EXCEPT ![p].stage = "create"]
       \/ /\ row.status # "none" /\ Expired
          /\ page' = [page EXCEPT ![p] = [stage |-> "expire", read |-> row.status]]
    /\ UNCHANGED <<today, Store, request, Outside, acked, failures, History>>

RolledOver(r) == [r EXCEPT !.status = "trial_expired"]

\* It commits what it decided.  store_id is unique: of two requests that both
\* found no row, the second fails.  The rollover writes the status and nothing
\* else.
CommitTrial(p) ==
    /\ page' = [page EXCEPT ![p] = NoPage]
    /\ \/ /\ page[p].stage = "create" /\ row.status = "none"
          /\ row' = [row EXCEPT !.status = "trialing"]
          /\ trialEnd' = today + TrialDays
          /\ UNCHANGED stale
       \/ /\ page[p].stage = "create" /\ row.status # "none"
          /\ UNCHANGED <<row, trialEnd, stale>>
       \/ /\ page[p].stage = "expire"
          /\ row' = RolledOver(row)
          /\ stale' = (stale \/ row.status # page[p].read)
          /\ UNCHANGED trialEnd
    /\ UNCHANGED <<today, delivered, receipts, request, Outside, acked, failures, applied>>

---------------------------------------------------------------------------
(* Stripe.                                                                 *)

Send(s, type, status) ==
    /\ Len(events) < MaxEvents
    /\ events' = Append(events, [sub |-> s, type |-> type, status |-> status])

\* billing_checkout: a session for the store, as often as the screen offers it.
OpenCheckout(s) ==
    /\ stripe[s] = "none"
    /\ \A t \in 1..(s - 1) : stripe[t] # "none"
    /\ row.status # "none"
    /\ Current.action = "checkout"
    /\ stripe' = [stripe EXCEPT ![s] = "open"]
    /\ UNCHANGED <<today, Store, request, page, events, acked, failures, History>>

\* The customer completes the session.  The money may not have arrived yet.
CompleteCheckout(s) ==
    /\ stripe[s] = "open"
    /\ \E status \in {"active", "incomplete"} :
          /\ stripe' = [stripe EXCEPT ![s] = status]
          /\ Send(s, "checkout.session.completed", status)
    /\ UNCHANGED <<today, Store, request, page, acked, failures, History>>

\* What a subscription can become on its own: a first payment settles or is
\* given up, a renewal fails and recovers, Stripe gives up.
Moves == {<<"incomplete", "active">>, <<"incomplete", "incomplete_expired">>,
          <<"active", "past_due">>, <<"past_due", "active">>, <<"past_due", "canceled">>}

MoveSubscription(s) ==
    /\ \E status \in StripeStatuses :
          /\ <<stripe[s], status>> \in Moves
          /\ stripe' = [stripe EXCEPT ![s] = status]
          /\ Send(s, "customer.subscription.updated", status)
    /\ UNCHANGED <<today, Store, request, page, acked, failures, History>>

\* billing_portal: open to a store Stripe knows as a customer.  The customer
\* stops the subscription there.
CancelInPortal(s) ==
    /\ row.subscription # NoSub
    /\ stripe[s] = "active"
    /\ stripe' = [stripe EXCEPT ![s] = "canceled"]
    /\ Send(s, "customer.subscription.updated", "canceled")
    /\ UNCHANGED <<today, Store, request, page, acked, failures, History>>

---------------------------------------------------------------------------
(* The webhook.                                                            *)

\* Stripe delivers an event it has no answer to; the handler reads the row of
\* the store the event names.  A free instance is as good as another.
LoadEvent(w, e) ==
    /\ request[w].stage = "idle"
    /\ \A v \in 1..(w - 1) : request[v].stage # "idle"
    /\ e \in 1..Len(events)
    /\ e \notin acked
    /\ row.status # "none"
    /\ request' = [request EXCEPT ![w] = [stage |-> "loaded", event |-> e, row |-> row]]
    /\ UNCHANGED <<today, Store, page, Outside, acked, failures, History>>

\* Mutant: the receipt is committed before the work it is a receipt for.
RecordFirst(w) ==
    LET e == request[w].event IN
    /\ request[w].stage = "loaded"
    /\ \/ /\ e \in delivered
          /\ request' = [request EXCEPT ![w] = Idle]
          /\ acked' = acked \cup {e}
          /\ UNCHANGED delivered
       \/ /\ e \notin delivered
          /\ request' = [request EXCEPT ![w].stage = "inserted"]
          /\ delivered' = delivered \cup {e}
          /\ UNCHANGED acked
    /\ UNCHANGED <<today, row, trialEnd, receipts, page, Outside, failures, History>>

\* Mutant: the delivery of another instance is not waited for.
RecordBeside(w) ==
    /\ request[w].stage = "loaded"
    /\ request' = [request EXCEPT ![w].stage = "inserted"]
    /\ UNCHANGED <<today, Store, page, Outside, acked, failures, History>>

\* The delivery is flushed, not committed.  (provider, delivery_id) is unique:
\* the flush waits for another request that holds the same one, and a
\* completed one is answered as a duplicate.
Record(w) ==
    LET e == request[w].event IN
    /\ request[w].stage = "loaded"
    /\ \/ /\ e \in delivered
          /\ request' = [request EXCEPT ![w] = Idle]
          /\ acked' = acked \cup {e}
       \/ /\ e \notin delivered
          /\ \A v \in Webhooks : request[v].stage = "inserted" => request[v].event # e
          /\ request' = [request EXCEPT ![w].stage = "inserted"]
          /\ UNCHANGED acked
    /\ UNCHANGED <<today, Store, page, Outside, failures, History>>

\* checkout_is_paid: the session says the money arrived.
CheckoutIsPaid(e) == events[e].status = "active"

\* Does the event decide the status at all?
Decides(e) ==
    \/ events[e].type = "customer.subscription.updated"
    \/ CheckoutIsPaid(e)

\* Mutant: a subscription that ended leaves the status alone.
StatusAfterUnlessCanceled(e, status) ==
    IF ~Decides(e) \/ events[e].status = "canceled" THEN status
    ELSE IF events[e].status \in {"active", "past_due"} THEN events[e].status
    ELSE "inactive"

\* Mutant: a completed session is a payment.
StatusAfterUnpaid(e, status) ==
    IF events[e].type = "checkout.session.completed" THEN "active"
    ELSE IF events[e].status \in {"active", "past_due", "canceled"} THEN events[e].status
    ELSE "inactive"

\* The status the handler leaves the row it read with.
StatusAfter(e, status) ==
    IF ~Decides(e) THEN status
    ELSE IF events[e].status \in {"active", "past_due", "canceled"} THEN events[e].status
    ELSE "inactive"

RowAfter(e, read) ==
    [status       |-> StatusAfter(e, read.status),
     subscription |-> IF events[e].type = "checkout.session.completed"
                      THEN events[e].sub ELSE read.subscription]

\* SQLAlchemy writes the columns whose value is no longer the one it loaded.
Flushed(read, written) ==
    [status       |-> IF written.status # read.status THEN written.status ELSE row.status,
     subscription |-> IF written.subscription # read.subscription
                      THEN written.subscription ELSE row.subscription]

\* The message a state is worth.
KindOf == [active |-> "activated", past_due |-> "payment_attention", canceled |-> "canceled"]

\* Mutant: a message every time Stripe mentions a state worth one.
MailForEvery(e, read, written) ==
    IF written.status \in DOMAIN KindOf THEN {<<e, KindOf[written.status]>>} ELSE {}

\* A message is reserved when the state moved, keyed on the event.
MailFor(e, read, written) ==
    IF written.status # read.status /\ written.status \in DOMAIN KindOf
    THEN {<<e, KindOf[written.status]>>} ELSE {}

\* One commit: the row, the delivery and the receipt.  The answer reaches
\* Stripe, or is lost and the event comes again.
CommitEvent(w) ==
    LET e == request[w].event
        read == request[w].row
        written == RowAfter(e, read) IN
    /\ request[w].stage = "inserted"
    /\ row' = Flushed(read, written)
    /\ delivered' = delivered \cup {e}
    /\ receipts' = receipts \cup MailFor(e, read, written)
    /\ request' = [request EXCEPT ![w] = Idle]
    /\ applied' = Append(applied, e)
    /\ stale' = (stale \/ row # read)
    /\ \/ acked' = acked \cup {e} /\ UNCHANGED failures
       \/ UNCHANGED acked /\ Failure
    /\ UNCHANGED <<today, trialEnd, page, Outside>>

\* The process dies, and its transaction with it.  (Before the delivery was
\* flushed it leaves no trace.)
CrashRequest(w) ==
    /\ request[w].stage = "inserted"
    /\ request' = [request EXCEPT ![w] = Idle]
    /\ Failure
    /\ UNCHANGED <<today, Store, page, Outside, acked, History>>

---------------------------------------------------------------------------
Next ==
    \/ NewDay
    \/ \E p \in Pages : LookAtTrial(p) \/ CommitTrial(p)
    \/ \E s \in Subs : \/ OpenCheckout(s) \/ CompleteCheckout(s)
                       \/ MoveSubscription(s) \/ CancelInPortal(s)
    \/ \E w \in Webhooks, e \in 1..MaxEvents : LoadEvent(w, e)
    \/ \E w \in Webhooks : Record(w) \/ CommitEvent(w) \/ CrashRequest(w)

\* Stripe keeps sending an event until it is answered, and a request that is
\* being served is served to its end.
Fairness ==
    /\ \A e \in 1..MaxEvents : WF_vars(\E w \in Webhooks : LoadEvent(w, e))
    /\ \A w \in Webhooks : WF_vars(Record(w)) /\ WF_vars(CommitEvent(w))

Spec == Init /\ [][Next]_vars /\ Fairness

---------------------------------------------------------------------------
(* Properties.                                                             *)

Applied == ToSet(applied)
InOrder == \A i, j \in DOMAIN applied : i < j => applied[i] < applied[j]

\* An event takes effect once, however often it is sent, whichever instances
\* serve it and wherever they die; and an event Stripe has been answered for
\* and will not send again has taken effect (account.py:158-163).
AnsweredIsAppliedOnce ==
    /\ \A i, j \in DOMAIN applied : applied[i] = applied[j] => i = j
    /\ acked \subseteq Applied

\* The product is handed over only after an event that says the money arrived
\* (account.py:189-194): not by a session completed unpaid, a rollover, or a
\* column an overlapping request left behind.
AccessWasPaidFor ==
    row.status = "active" => \E e \in Applied : Decides(e) /\ events[e].status = "active"

\* The event at place i is the last one applied that decides.
LastWord(i) ==
    Decides(applied[i]) /\ \A j \in DOMAIN applied : Decides(applied[j]) => j <= i

\* While nobody has committed over a row that had moved, the store is where the
\* last applied event that decides left it, whatever those it was sent with
\* wrote or left alone, and still in the trial if none did.
LastWordStands ==
    ~stale =>
        /\ \A i \in DOMAIN applied : LastWord(i) => row.status = StatusAfter(applied[i], "none")
        /\ (\A i \in DOMAIN applied : ~Decides(applied[i]))
              => row.status \in {"none", "trialing", "trial_expired"}

\* What Stripe said is undone by the clock only through a request that had
\* read the trial before the event was committed (billing.py:60-62).
RolloverUndoesOnlyWhenStale ==
    [][row'.status = "trial_expired" /\ row.status # "trial_expired"
        => /\ trialEnd <= today
           /\ \/ row.status = "trialing"
              \/ \E p \in Pages : page[p].stage = "expire" /\ page[p].read = "trialing"]_vars

\* A customer hears of every move of the subscription and of nothing else
\* (account.py:179-181), unless the request decided from a row that had
\* changed under it.
MovesAreAnnounced ==
    [][\A w \in Webhooks :
          /\ request[w].stage = "inserted" /\ request[w].row = row
          /\ request[w].event \in Applied' \ Applied
          /\ row'.status \in {"active", "past_due", "canceled"}
          => (row'.status # row.status
                <=> \E k \in Kinds : <<request[w].event, k>> \in receipts')]_vars

\* To Stripe the endpoint is an inbox: whatever the instances, the lost answers
\* and the dead requests do, every event takes effect exactly once, in the end,
\* and is answered only then (account.py:153-177).
EventInbox == INSTANCE Inbox WITH
    Messages <- 1..MaxEvents, sent <- 1..Len(events), taken <- applied, answered <- acked

IsAnInbox == EventInbox!Spec

\* A store that pays is served: entitlement.py:16 calls `active' the state in
\* which Stripe says they are paying.  Asked only when every event was
\* applied, in order, by requests that overlapped with nothing.
PayingKeepsAccess ==
    /\ InOrder /\ ~stale /\ Cardinality(Applied) = Len(events)
    /\ \E s \in Subs : stripe[s] = "active"
    => Current.status = "active"

=============================================================================
