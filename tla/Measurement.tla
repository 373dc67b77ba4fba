---------------------------- MODULE Measurement ----------------------------
(***************************************************************************)
(* How the shop's days reach a price: tasks.run_shopify_sync, the handlers *)
(* that stamp the Shopify connection (connect, disconnect, retry, the      *)
(* uninstall webhook), and commerce_measurement's window, coverage and     *)
(* measure.                                                                *)
(*                                                                         *)
(* One product of one shop sells at most one unit per tick.  Time runs in  *)
(* half-days, because a sync reads from a moment and files what it read by *)
(* the day; of every stamp only its day is kept, which is all that is      *)
(* compared.                                                               *)
(***************************************************************************)
EXTENDS Integers, FiniteSets

CONSTANTS
    Jobs,               \* worker processes running Shopify syncs
    MeasurementDays,    \* measurement_days of the restock
    MaxSyncDays,        \* the most days a sync may be asked for
    LastDay,            \* bound: the model ends on the morning of this day
    MaxOrders,          \* bound: orders placed
    MaxReturns,         \* bound: orders cancelled or refunded
    MaxRequests         \* bound: connect, disconnect and retry requests

ASSUME MeasurementAssumption ==
    /\ MeasurementDays \in Nat \ {0}
    /\ MaxSyncDays \in Nat \ {0}
    /\ LastDay \in Nat
    /\ MaxOrders \in Nat /\ MaxReturns \in Nat /\ MaxRequests \in Nat

VARIABLES
    now,        \* the tick
    orders,     \* what became of the unit ordered at each tick
    variant,    \* variant_daily_metrics: units of the product, by day
    channel,    \* the committed channel_connections row
    job,        \* what each running sync holds in memory
    owner,      \* a connect, disconnect or retry request in progress
    asked,      \* history: such requests so far
    confirmed,  \* day the restock was confirmed (applied_at)
    judged,     \* a measurement that found the window covered
    priced,     \* the recorded impact
    sound       \* history: the connection row is as one tidy sync left it

measurementVars == <<now, orders, variant, channel, job, owner, asked, confirmed, judged, priced,
          sound>>

Days == 0..LastDay
Ticks == 0..(2 * LastDay)
Day(t) == t \div 2
Today == Day(now)
Never == LastDay + 1

\* A sync past its order pages.  "from" is settings.synced_from as it loaded it;
\* "read" are the orders in the pages, "net" those of them not refunded.
NoWork == [phase |-> "idle"]
Syncs == [phase: {"read", "stamped"}, cutoff: Ticks, from: Days \cup {Never},
          read: SUBSET Ticks, net: SUBSET Ticks, readOn: Days, stamp: Days]
OwnerRequests == [kind: {"connect", "disconnect", "retry"}, from: Days \cup {Never}, stamp: Days]

\* The row before its impact is recorded.
Unpriced == [measured |-> FALSE]

MeasurementTypeOK ==
    /\ now \in Ticks
    /\ orders \in [Ticks -> {"none", "sold", "refunded", "cancelled"}]
    /\ variant \in [Days -> 0..MaxOrders]
    /\ channel \in [status: {"connected", "disconnected"}, synced_at: Days,
                    from: Days \cup {Never}]
    /\ job \in [Jobs -> Syncs \cup {NoWork}]
    /\ owner \in OwnerRequests \cup {NoWork}
    /\ asked \in 0..MaxRequests
    /\ confirmed \in Days \cup {Never}
    /\ judged \in {"none", "covered", "strictly_covered"}
    /\ priced \in {Unpriced} \cup [units: 0..MaxOrders, strictly: BOOLEAN]
    /\ sound \in BOOLEAN

\* The shop has just connected, which stamped synced_at and read nothing.
MeasurementInit ==
    /\ now = 0
    /\ orders = [t \in Ticks |-> "none"]
    /\ variant = [d \in Days |-> 0]
    /\ channel = [status |-> "connected", synced_at |-> 0, from |-> Never]
    /\ job = [j \in Jobs |-> NoWork]
    /\ owner = NoWork
    /\ asked = 0
    /\ confirmed = Never
    /\ judged = "none"
    /\ priced = Unpriced
    /\ sound = FALSE

\* What most steps leave alone.
Shop == <<now, orders, confirmed>>
Syncing == <<variant, job>>
Connection == <<channel, owner, asked, sound>>
Measuring == <<judged, priced>>

---------------------------------------------------------------------------
(* The shop, the clock and the seller.                                     *)

Tick ==
    /\ now < 2 * LastDay
    /\ now' = now + 1
    /\ UNCHANGED <<orders, confirmed, Syncing, Connection, Measuring>>

Placed == {t \in Ticks : orders[t] # "none"}
Kept == {t \in Ticks : orders[t] = "sold"}

PlaceOrder ==
    /\ orders[now] = "none"
    /\ Cardinality(Placed) < MaxOrders
    /\ orders' = [orders EXCEPT ![now] = "sold"]
    /\ UNCHANGED <<now, confirmed, Syncing, Connection, Measuring>>

Return(t, how) ==
    /\ orders[t] = "sold"
    /\ Cardinality(Placed \ Kept) < MaxReturns
    /\ orders' = [orders EXCEPT ![t] = how]
    /\ UNCHANGED <<now, confirmed, Syncing, Connection, Measuring>>

Confirm ==
    /\ confirmed = Never
    /\ channel.status = "connected"
    /\ confirmed' = Today
    /\ UNCHANGED <<now, orders, Syncing, Connection, Measuring>>

---------------------------------------------------------------------------
(* One sync, asked for any number of days: by the daily run, by a person,  *)
(* or left in the queue since either.                                      *)

\* The order pages are everything created since the cutoff and not cancelled;
\* what was sold is net of the refunds known by now.
StartSync(j, days) ==
    LET back == now - 2 * days
        cutoff == IF back < 0 THEN 0 ELSE back
        read == {t \in Placed : t >= cutoff /\ orders[t] # "cancelled"}
    IN
    /\ job[j] = NoWork
    /\ channel.status = "connected"
    /\ job' = [job EXCEPT ![j] =
         [phase |-> "read", cutoff |-> cutoff, from |-> channel.from, read |-> read,
          net |-> read \cap Kept, readOn |-> Today, stamp |-> Today]]
    /\ UNCHANGED <<variant, Shop, Connection, Measuring>>

\* The clock is read after the last page; the rows are filed and the shelf is
\* read under that stamp.
StampSync(j) ==
    /\ job[j].phase = "read"
    /\ job' = [job EXCEPT ![j] = [@ EXCEPT !.phase = "stamped", !.stamp = Today]]
    /\ UNCHANGED <<variant, Shop, Connection, Measuring>>

UnitsOn(ticks, d) == Cardinality({t \in ticks : Day(t) = d})

\* Every day the pages had an order of is replaced by what they showed of it.
Filed(s) ==
    [d \in Days |-> IF \E t \in s.read : Day(t) = d
                    THEN UnitsOn(s.net, d) ELSE variant[d]]

\* The stamp and the range go with the rows.  Settings that come out equal to
\* the ones the sync loaded are not a change, and another commit's stay.
CommitSync(j) ==
    LET s == job[j] IN
    /\ s.phase = "stamped"
    /\ variant' = Filed(s)
    /\ \E from \in {Day(s.cutoff), channel.from} :
         /\ from # Day(s.cutoff) => s.from = Day(s.cutoff)
         /\ channel' = [channel EXCEPT !.synced_at = s.stamp, !.from = from]
         /\ sound' = (from = Day(s.cutoff) /\ s.readOn = s.stamp)
    /\ job' = [job EXCEPT ![j] = NoWork]
    /\ judged' = IF judged = "strictly_covered" THEN "covered" ELSE judged
    /\ UNCHANGED <<owner, asked, priced, Shop>>

\* An exception rolls everything back.  A token Shopify refuses also marks the
\* shop disconnected; nothing is stamped.
FailSync(j) ==
    /\ job[j] # NoWork
    /\ job' = [job EXCEPT ![j] = NoWork]
    /\ \E status \in {channel.status, "disconnected"} :
         channel' = [channel EXCEPT !.status = status]
    /\ UNCHANGED <<variant, owner, asked, sound, Shop, Measuring>>

---------------------------------------------------------------------------
(* The connection row under other hands.  A person's request loads the row, *)
(* talks to Shopify about webhooks and commits; the settings it writes are  *)
(* the ones it loaded, or none if they come out equal.                      *)

Ask(kind) ==
    /\ owner = NoWork
    /\ asked < MaxRequests
    /\ kind # "connect" => channel.status = "connected"
    /\ owner' = [kind |-> kind, from |-> channel.from, stamp |-> Today]
    /\ asked' = asked + 1
    /\ UNCHANGED <<channel, sound, Shop, Syncing, Measuring>>

Asked(kind) == owner # NoWork /\ owner.kind = kind

Answer(written) ==
    /\ owner' = NoWork
    /\ channel' = written
    /\ sound' = (sound /\ written = channel)
    /\ UNCHANGED <<asked, Shop, Syncing, Measuring>>

\* Connecting stamps synced_at before the webhooks are registered ...
Connect ==
    /\ Asked("connect")
    /\ \E from \in {owner.from, channel.from} :
         Answer([status |-> "connected", synced_at |-> owner.stamp, from |-> from])

\* ... disconnecting stamps it after they are removed ...
Disconnect ==
    /\ Asked("disconnect")
    /\ Answer([status |-> "disconnected", synced_at |-> Today, from |-> owner.from])

\* ... and retrying the notifications stamps nothing.
RetryNotifications ==
    /\ Asked("retry")
    /\ \E from \in {owner.from, channel.from} : Answer([channel EXCEPT !.from = from])

\* Shopify refused, or the process stopped: nothing is written.
DropRequest ==
    /\ owner # NoWork
    /\ owner' = NoWork
    /\ UNCHANGED <<channel, asked, sound, Shop, Syncing, Measuring>>

\* The app/uninstalled and shop/redact webhooks.  Redaction deletes the shop's
\* daily totals and leaves the days of its variants.
Uninstalled ==
    /\ channel.status = "connected"
    /\ channel' = [channel EXCEPT !.status = "disconnected", !.synced_at = Today]
    /\ sound' = FALSE
    /\ UNCHANGED <<owner, asked, Shop, Syncing, Measuring>>

---------------------------------------------------------------------------
(* The measurement.                                                        *)

\* The day of the change is excluded, and so is today.
First == confirmed + 1
Last == First + MeasurementDays - 1
Window == First..Last
WindowComplete == confirmed # Never /\ Today - 1 >= Last

\* Mutant: a sync on the last day of the window is late enough.
coverageOfLastDay ==
    /\ channel.synced_at >= Last
    /\ channel.from # Never
    /\ channel.from <= First

\* Any connection will do, not only a healthy one.
coverage ==
    /\ channel.synced_at > Last
    /\ channel.from # Never
    /\ channel.from <= First

\* readiness: unpriced, the window over and covered.  The days and the costs
\* are read after the connection row.
Judge ==
    /\ priced = Unpriced
    /\ judged = "none"
    /\ WindowComplete
    /\ coverage
    /\ judged' = IF sound /\ channel.from < First THEN "strictly_covered" ELSE "covered"
    /\ UNCHANGED <<priced, Shop, Syncing, Connection>>

\* The units of the window, one by one.
WindowUnits(units) ==
    Cardinality({unit \in Window \X (1..MaxOrders) : unit[2] <= units[unit[1]]})

Measure ==
    /\ judged # "none"
    /\ priced' = [units |-> WindowUnits(variant), strictly |-> judged = "strictly_covered"]
    /\ judged' = "none"
    /\ UNCHANGED <<Shop, Syncing, Connection>>

\* A cost is missing, or the process stops: the row waits for the next run.
LeaveUnpriced ==
    /\ judged # "none"
    /\ judged' = "none"
    /\ UNCHANGED <<priced, Shop, Syncing, Connection>>

MeasurementNext ==
    \/ Tick
    \/ PlaceOrder
    \/ \E t \in Ticks, how \in {"refunded", "cancelled"} : Return(t, how)
    \/ Confirm
    \/ \E j \in Jobs, days \in 1..MaxSyncDays : StartSync(j, days)
    \/ \E j \in Jobs : StampSync(j) \/ CommitSync(j) \/ FailSync(j)
    \/ \E kind \in {"connect", "disconnect", "retry"} : Ask(kind)
    \/ Connect \/ Disconnect \/ RetryNotifications \/ DropRequest
    \/ Uninstalled
    \/ Judge
    \/ Measure
    \/ LeaveUnpriced

MeasurementSpec == MeasurementInit /\ [][MeasurementNext]_measurementVars

---------------------------------------------------------------------------
(* Properties.                                                             *)

InWindow(ticks) == {t \in ticks : Day(t) \in Window}

\* No schedule of syncs, requests and clock ticks makes a price out of more
\* units than were ordered in the window; and a window strictly inside the
\* range of one sync that read and stamped on the same day, with no commit
\* between the check and the reading, is priced from every unit it sold (units
\* returned since, or before, may still be in it).
PricedUnitsWereSold ==
    priced # Unpriced =>
        /\ priced.units <= Cardinality(InWindow(Placed))
        /\ priced.strictly => priced.units >= Cardinality(InWindow(Kept))

===========================================================================
