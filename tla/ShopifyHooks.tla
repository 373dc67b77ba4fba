------------------------------ MODULE ShopifyHooks ------------------------------
(***************************************************************************)
(* The order notifications of one Shopify shop (routers/shopify.py,        *)
(* shopify_webhook) and the totals of one day they add to                  *)
(* (commerce_daily_metrics), which the daily sync replaces (tasks.py).     *)
(*                                                                         *)
(* Shopify delivers each notification at least once.  A handler inserts    *)
(* the delivery and flushes: whoever inserts the same id waits until the   *)
(* first has committed or rolled back.  The day is read, added to in       *)
(* Python and written back without a lock, by handlers and by the sync;    *)
(* the delivery and its effect are one commit.  Since the delivery is      *)
(* never committed in "processing", a take-over after two minutes can only *)
(* find a row of an earlier version of the code and is left out.           *)
(*                                                                         *)
(* One handler at a time runs in a process (the route is async and does    *)
(* not await after reading the body).  Left out: signatures, other shops,  *)
(* other days, and what an order is worth.                                 *)
(***************************************************************************)
EXTENDS Integers, FiniteSets, Sequences

CONSTANTS
    Handlers,       \* API processes, each handling one delivery at a time
    MaxEvents,      \* bound: notifications Shopify sends
    MaxMishaps      \* bound: exceptions and dead processes

ASSUME HooksAssumption == MaxEvents \in Nat /\ MaxMishaps \in Nat

VARIABLES
    sent,           \* the topics of the notifications, in the order of the events
    delivery,       \* the webhook_deliveries row of each
    handler,        \* what each handler works on and has read
    day,            \* the totals of the day, one row
    connected,      \* the status of the channel
    dailySync,      \* the sync of the shop, if one is under way
    mishaps,        \* history: faults so far
    known,          \* history: the events each total stands for
    off,            \* history: the totals that are off, for a reason below
    applied,        \* history: how often each event was added
    late            \* history: a failure was written over a delivery

hooksVars == <<sent, delivery, handler, day, connected, dailySync, mishaps, known, off, applied,
               late>>

Topics == {"orders", "refunds", "uninstalled", "redact"}
\* The topics that add to a total of the same name.
Totals == {"orders", "refunds"}
Events == 1..MaxEvents
DeliveryStatuses == {"none", "completed", "failed"}
Days == [exists : BOOLEAN, orders : Nat, refunds : Nat]
NoDay == [exists |-> FALSE, orders |-> 0, refunds |-> 0]
HandlerStates == {"idle", "found", "failed", "inserted", "read", "failing"}
Handling == [at : HandlerStates, event : 0..MaxEvents, seen : Days]
Idle == [at |-> "idle", event |-> 0, seen |-> NoDay]
DailySyncs == [at : {"idle", "read", "loaded"}, orders : SUBSET Events, seen : Days]
NoDailySync == [at |-> "idle", orders |-> {}, seen |-> NoDay]

HooksTypeOK ==
    /\ sent \in Seq(Topics) /\ Len(sent) <= MaxEvents
    /\ delivery \in [Events -> DeliveryStatuses]
    /\ handler \in [Handlers -> Handling]
    /\ day \in Days
    /\ connected \in BOOLEAN
    /\ dailySync \in DailySyncs
    /\ mishaps \in 0..MaxMishaps
    /\ known \in [Totals -> SUBSET Events] /\ off \subseteq Totals
    /\ applied \in [Events -> Nat] /\ late \in BOOLEAN

HooksInit ==
    /\ sent = <<>>
    /\ delivery = [e \in Events |-> "none"]
    /\ handler = [h \in Handlers |-> Idle]
    /\ day = NoDay
    /\ connected = TRUE
    /\ dailySync = NoDailySync
    /\ mishaps = 0
    /\ known = [t \in Totals |-> {}] /\ off = {}
    /\ applied = [e \in Events |-> 0] /\ late = FALSE

History == <<known, off, applied, late>>
Ordered == {e \in DOMAIN sent : sent[e] = "orders"}
Topic(h) == sent[handler[h].event]
Mishap == mishaps < MaxMishaps /\ mishaps' = mishaps + 1

---------------------------------------------------------------------------
(* Shopify.                                                                *)

\* Something happens in the shop and Shopify starts to send it.
Happen(topic) ==
    /\ Len(sent) < MaxEvents
    /\ sent' = Append(sent, topic)
    /\ UNCHANGED <<delivery, handler, day, connected, dailySync, mishaps, History>>

\* The merchant connects the shop again (Connection).
Reconnect ==
    /\ ~connected
    /\ connected' = TRUE
    /\ UNCHANGED <<sent, delivery, handler, day, dailySync, mishaps, History>>

---------------------------------------------------------------------------
(* A delivery.                                                             *)

\* The signature holds and a connected channel of the shop is found.  Without
\* one the answer is 404, whatever the topic.
Find(h, e) ==
    /\ handler[h].at = "idle"
    /\ e \in DOMAIN sent /\ connected
    /\ handler' = [handler EXCEPT ![h] = [at |-> "found", event |-> e, seen |-> NoDay]]
    /\ UNCHANGED <<sent, delivery, day, connected, dailySync, mishaps, History>>

\* Another handler has this delivery in a transaction that is still open.
Held(h) ==
    \E g \in Handlers \ {h} : /\ handler[g].event = handler[h].event
                              /\ handler[g].at \in {"inserted", "read"}

\* Mutant: the delivery is only looked up when it is new.
InsertAlways(h) ==
    /\ handler[h].at = "found" /\ ~Held(h)
    /\ handler' = [handler EXCEPT ![h].at = "inserted"]
    /\ UNCHANGED <<sent, delivery, day, connected, dailySync, mishaps, History>>

\* The insert: new, done before (200, "duplicate"), or failed before.
Insert(h) ==
    /\ handler[h].at = "found" /\ ~Held(h)
    /\ handler' = [handler EXCEPT ![h] =
          CASE delivery[handler[h].event] = "none" -> [@ EXCEPT !.at = "inserted"]
            [] delivery[handler[h].event] = "failed" -> [@ EXCEPT !.at = "failed"]
            [] delivery[handler[h].event] = "completed" -> Idle]
    /\ UNCHANGED <<sent, delivery, day, connected, dailySync, mishaps, History>>

\* A failed delivery is reclaimed, whatever it has become since it was read.
Reclaim(h) ==
    /\ handler[h].at = "failed" /\ ~Held(h)
    /\ handler' = [handler EXCEPT ![h].at = "inserted"]
    /\ UNCHANGED <<sent, delivery, day, connected, dailySync, mishaps, History>>

\* An order or a refund: the day is read.
ReadDay(h) ==
    /\ handler[h].at = "inserted" /\ Topic(h) \in Totals
    /\ handler' = [handler EXCEPT ![h].at = "read", ![h].seen = day]
    /\ UNCHANGED <<sent, delivery, day, connected, dailySync, mishaps, History>>

\* A row that another request inserted or erased since it was read.
Conflict(seen) == seen.exists # day.exists

\* The delivery is completed in the commit of its effect.
Complete(h) ==
    /\ delivery' = [delivery EXCEPT ![handler[h].event] = "completed"]
    /\ handler' = [handler EXCEPT ![h] = Idle]

Added(n) == n + 1

\* orders/create and refunds/create: one more than was read.
CommitTotal(h) ==
    /\ handler[h].at = "read"
    /\ LET t == Topic(h)
           e == handler[h].event
           seen == handler[h].seen
       IN /\ ~Conflict(seen)
          /\ day' = [day EXCEPT !.exists = TRUE, ![t] = Added(seen[t])]
          /\ Complete(h)
          /\ known' = [known EXCEPT ![t] = @ \cup {e}]
          /\ off' = IF e \in known[t] \/ seen[t] # day[t] THEN off \cup {t} ELSE off
          /\ applied' = [applied EXCEPT ![e] = @ + 1]
    /\ UNCHANGED <<sent, connected, dailySync, mishaps, late>>

\* The commit hits the unique key of the day, or a row that is gone.
CommitConflicts(h) ==
    /\ handler[h].at = "read" /\ Conflict(handler[h].seen)
    /\ handler' = [handler EXCEPT ![h].at = "failing", ![h].seen = NoDay]
    /\ UNCHANGED <<sent, delivery, day, connected, dailySync, mishaps, History>>

\* app/uninstalled.
CommitUninstalled(h) ==
    /\ handler[h].at = "inserted" /\ Topic(h) = "uninstalled"
    /\ connected' = FALSE
    /\ Complete(h)
    /\ UNCHANGED <<sent, day, dailySync, mishaps, History>>

\* shop/redact: the days and the credential go as well.
CommitRedacted(h) ==
    /\ handler[h].at = "inserted" /\ Topic(h) = "redact"
    /\ connected' = FALSE
    /\ day' = NoDay
    /\ known' = [t \in Totals |-> {}] /\ off' = {}
    /\ Complete(h)
    /\ UNCHANGED <<sent, dailySync, mishaps, applied, late>>

\* Anything else the handler raises.
Raise(h) ==
    /\ handler[h].at \in {"inserted", "read"}
    /\ Mishap
    /\ handler' = [handler EXCEPT ![h].at = "failing", ![h].seen = NoDay]
    /\ UNCHANGED <<sent, delivery, day, connected, dailySync, History>>

\* Mutant: the failed delivery is inserted again after the rollback.
RecordFailureAnew(h) ==
    /\ handler[h].at = "failing"
    /\ delivery' = [delivery EXCEPT ![handler[h].event] = "failed"]
    /\ handler' = [handler EXCEPT ![h] = Idle]
    /\ UNCHANGED <<sent, day, connected, dailySync, mishaps, History>>

\* The rollback took the insert with it.  A row found now is the work of
\* another handler, and says failed from here on.
RecordFailure(h) ==
    /\ handler[h].at = "failing"
    /\ LET e == handler[h].event
       IN /\ delivery' = [delivery EXCEPT ![e] = IF @ = "none" THEN @ ELSE "failed"]
          /\ late' = (late \/ delivery[e] = "completed")
    /\ handler' = [handler EXCEPT ![h] = Idle]
    /\ UNCHANGED <<sent, day, connected, dailySync, mishaps, known, off, applied>>

\* The process dies; its transaction is rolled back.
Crash(h) ==
    /\ handler[h].at # "idle"
    /\ Mishap
    /\ handler' = [handler EXCEPT ![h] = Idle]
    /\ UNCHANGED <<sent, delivery, day, connected, dailySync, History>>

---------------------------------------------------------------------------
(* The sync.                                                               *)

\* Every order of the day is read from Shopify...
ReadOrders ==
    /\ dailySync.at = "idle" /\ connected
    /\ dailySync' = [at |-> "read", orders |-> Ordered, seen |-> NoDay]
    /\ UNCHANGED <<sent, delivery, handler, day, connected, mishaps, History>>

\* ... and the row of the day, before the products are.
LoadDay ==
    /\ dailySync.at = "read"
    /\ dailySync' = [dailySync EXCEPT !.at = "loaded", !.seen = day]
    /\ UNCHANGED <<sent, delivery, handler, day, connected, mishaps, History>>

\* Mutant: the sync adds to the day.
ReplacedByAdding(total, seen) == seen.orders + total

\* What the commit leaves in the row: a total that equals the one read is not
\* written.  Refunds are not among the totals the sync writes.
Replaced(total, seen) == IF seen.orders = total THEN day.orders ELSE total

CommitDailySync ==
    /\ dailySync.at = "loaded"
    /\ IF dailySync.orders = {} \/ Conflict(dailySync.seen) THEN UNCHANGED <<day, known, off>>
       ELSE LET total == Cardinality(dailySync.orders)
                now == Replaced(total, dailySync.seen)
            IN /\ day' = [day EXCEPT !.exists = TRUE, !.orders = now]
               /\ IF now = total
                  THEN known' = [known EXCEPT !["orders"] = dailySync.orders] /\ off' = off \ {"orders"}
                  ELSE UNCHANGED <<known, off>>
    /\ dailySync' = NoDailySync
    /\ UNCHANGED <<sent, delivery, handler, connected, mishaps, applied, late>>

\* The sync fails or its worker dies.
FailDailySync ==
    /\ dailySync.at # "idle"
    /\ Mishap
    /\ dailySync' = NoDailySync
    /\ UNCHANGED <<sent, delivery, handler, day, connected, History>>

---------------------------------------------------------------------------
HooksNext ==
    \/ \E topic \in Topics : Happen(topic)
    \/ Reconnect
    \/ \E h \in Handlers :
          \/ \E e \in Events : Find(h, e)
          \/ Insert(h) \/ Reclaim(h) \/ ReadDay(h)
          \/ CommitTotal(h) \/ CommitConflicts(h) \/ CommitUninstalled(h) \/ CommitRedacted(h)
          \/ Raise(h) \/ RecordFailure(h) \/ Crash(h)
    \/ ReadOrders \/ LoadDay \/ CommitDailySync \/ FailDailySync

\* A connected shop is synced every day and the worker works.
HooksFairness ==
    /\ WF_hooksVars(ReadOrders) /\ WF_hooksVars(LoadDay)
    /\ WF_hooksVars(CommitDailySync)

HooksSpec == HooksInit /\ [][HooksNext]_hooksVars /\ HooksFairness

---------------------------------------------------------------------------
(* Properties.                                                             *)

\* A notification is added once, however often and to however many processes
\* it is delivered, unless the failure of one handler was written over the
\* completed delivery of another (routers/shopify.py:253-272).
AddedOnce == ~late => \A e \in Events : applied[e] <= 1

\* A total counts each notification it stands for, and nothing else; it is off
\* only after it was written over by a request that had read an older one, or
\* after an order was delivered that a sync had read already.  The next sync
\* puts the orders right, and nothing puts the refunds right.
TotalsAreExplained ==
    \A t \in Totals \ off : day[t] = Cardinality(known[t])

\* Whatever the deliveries and the syncs did to each other, the day of a
\* connected shop ends up with the orders the shop had.
OrdersSettle == <>[](connected => day.orders = Cardinality(Ordered))
=============================================================================
