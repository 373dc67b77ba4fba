# A TLA+ verification of the AI Commerce Operator

The AI Commerce Operator watches a seller's shop and advertising account,
proposes changes, applies some of them alone inside the owner's guardrails, and
then prices what each change was worth from the seller's own numbers. Its
central claim is that the money it reports is real. The modules here model the
backend (`backend/app`, Python: FastAPI, SQLAlchemy, RQ on Redis, one cron
process) where that claim, and the messages, payments, connections and sign-ins
it rests on, depend on the order in which independent processes act; and the
pure rules behind the figures, as operators that are checked inside those
models or proved about for all inputs.

## Inventory

One database session per request or job, READ COMMITTED, no row locks (the pilot gate alone takes an advisory lock) and
no version columns (`db/session.py`: `autoflush=False, expire_on_commit=False`).
So every handler is *load, decide, commit*, and what it commits is the set of
columns it changed.

| Component | State | Operations | Interacts with | Hard behaviour | What makes it correct |
|---|---|---|---|---|---|
| Action ledger (`routers/money.py`, `routers/commerce.py`) | `operator_actions` | create, scan, apply, confirm, measure, revert, dismiss | scans open rows, daily job prices them, payroll sums them | overlapping requests over one row, Shopify called between load and commit | evidence is earned; a row in effect has a before-picture; only a stale commit leaves the lifecycle |
| Guardrails (`guardrails.py`) | `guardrail_policies` | `evaluate`, `update_guardrails` | every unattended change | precedence of the rules | every limit holds for what is allowed; looser policies refuse nothing more |
| Advertising scan (`tasks.run_ads_scan`, `ppc_engine`, `amazon_ads_api`, `change_verification`) | claim, in-memory rows, the live account | report, judge, read–create–read, commit | guardrails, ledger, idempotency records | crash or exception after the account changed, lost answers, two scans at once, midnight, rows of one term | a saving is counted once; only waste is negated; the day's budget |
| Shopify sync and measurement (`tasks.run_shopify_sync`, `commerce_measurement.py`) | `variant_daily_metrics`, `channel_connections` | read pages, stamp, file days; window, coverage, price | connect, disconnect, retry and uninstall write the same connection row | cutoffs inside a day, refunds and cancellations after the fact, overlapping syncs, stale settings | a price is made of units that were sold in the window |
| Email receipts (`notifications.py`) | `email_receipts`, RQ jobs | reserve, enqueue, deliver, mark | Stripe webhook, daily run, worker | accepted but unmarked, reclaimed while alive, lost between commit and queue | a second copy only in the documented window; a warning is settled |
| Daily run (`daily.py`, `scheduler.py`) | `scheduler_runs` | claim a day, three stages | sync queue, ledger, receipts | double firing, died half-way, a stage that fails | each stage once a day; a closed window is priced whatever was missed |
| Jobs (`db/crud.py`, `queueing.py`, `worker.py`, `tasks.py`, `autopilot_service.py`) | `idempotency_records`, Redis, plans, fees, reports | claim, take over, complete, fail, retry; decide on a plan | all background work, Amazon, WooCommerce | take-over of a live job, late failure over a completed record, lost report ids, pages committed one by one | an answer is backed by the work; work is repeated only for a reason; a key is never stuck |
| Billing (`billing.py`, `routers/account.py`, `entitlement.py`) | `subscriptions`, `webhook_deliveries` | Stripe events, trial rollover | receipts | reordered, repeated and concurrent events | each event once; access was paid for; a payment is not undone by a rollover |
| Shopify connection (`routers/shopify.py`, `shopify.py`, `pilot.py`, `credentials.py`) | `channel_connections`, `integration_credentials` | callback, disconnect, revoked token, uninstall, erasure notice | sync, Shopify | two tenants and one shop, a token revoked under a sync | the pilot's size; one tenant a shop; a connected shop has its key; a dead one is noticed |
| Shopify order webhooks (`routers/shopify.py`) | `webhook_deliveries`, `commerce_daily_metrics` | deliveries, the sync's replacement of days | the daily sync | duplicate and concurrent deliveries, read-modify-write of totals | an order is added once; totals stand for what was counted; the orders settle |
| Product costs (`product_costs.py`, `routers/costs.py`) | `product_costs` | record, `cost_on` | measurement, dashboard | which cost applies on a day | a dated cost changes no earlier day |
| Commerce scan (`commerce_service`, `commerce_engine`, `actions_engine`) | open proposals | series, findings, proposals | ledger, sync | two scans at once, boundaries, missing days | nothing is proposed twice; the claim is the cheapest explanation of the sales |
| Dashboards (`routers/dashboards.py`, the payroll of `routers/money.py`) | none | sums over rows | costs, ledger | – | the payroll fits the gross profit shown |
| Sign-in (`routers/auth.py`, `auth_email`, `accounts`, `sessions`) | `login_codes`, `users`, `stores`, `token_sessions` | ask for a code, verify, Google, open, touch, end | every request | two first sign-ins at once, codes held twice, a session ended under a request | one store a person; a code proves once; a session that ended stays ended |
| Inventory planner (`inventory_engine`), product research (`decision_engine`, `discovery`, `suppliers`, `operator`) | none | pure rules | autopilot | rounding, clamps, missing offers, duplicate names | the order covers the cycle; cheaper is never worse; a queued plan is what was scored |
| Onboarding and alerts (their two answers about a connection, in `Connection`), erasure, listings and language models, deployment checks, frontend | various | – | – | – | otherwise not modelled; `PROJECT.json` gives the reason |

## Modules

| Module | Models | Checked by | Proved in |
|---|---|---|---|
| `ActionLedger` | the ledger's handlers over overlapping requests | `MCActionLedger` | `ActionLedgerProofs` |
| `Guardrails` | `guardrails.evaluate` and its inputs, as operators | within `AdsScan` | `AdsScanProofs` |
| `SearchTerms` | from a search-term report to the negatives proposed, as operators | within `AdsScan` | `AdsScanProofs` |
| `AdsScan` | the advertising scan against a live account | `MCAdsScan` | `AdsScanProofs` |
| `Measurement` | sync, connection and pricing of a restock | `MCMeasurement` | `ActionLedgerProofs` |
| `Notifications` | receipts, the queue, the worker, webhook and daily run | `MCNotifications.cfg` | `NotificationsProofs` |
| `DailyRun` | the once-a-day run, its claims, the syncs it queues and the windows it prices | `MCDailyRun.cfg` | `DailyRunProofs` |
| `Inbox` | abstract: what a webhook endpoint promises its caller | implemented by `Billing` | `BillingProofs` |
| `Billing` | the subscription row, Stripe's events, trial rollover | `MCBilling.cfg`, `PayingKeepsAccess.cfg` | `BillingProofs` |
| `Jobs` | one operation under one idempotency key, and the decision on its plan | `MCJobs.cfg` | `DailyRunProofs` |
| `ShopifyHooks` | order notifications and the day's totals | `MCShopifyHooks.cfg` | `ConnectionProofs` |
| `Connection` | the life of a Shopify connection | `MCConnection` | `ConnectionProofs` |
| `Costs`, `Restock`, `Findings` | costs in force, the price of a restock, the commerce findings, as operators | within `Commerce` | `CommerceProofs` |
| `Commerce` | from a shop's sales to money the payroll may claim | `MCCommerce` | `CommerceProofs` |
| `SignIn` | one person's codes, account and sessions | `MCSignIn` | `SignInProofs` |
| `InventoryPlanner`, `ProductHunt` | `analyze_sku`; from a niche to a launch plan, as operators | – | `CommerceProofs` |

Some definitions are headed `Mutant:`. They are the code with one plausible bug
(a guard dropped, a count started in the wrong place) and nothing uses them:
each stands next to the definition it would replace, and replacing it makes one
named property fail. They are there to show that the property depends on that
part of the code. `PROJECT.json` pairs them. A `TypeOK` is stated in every
module with state and proved of each: as `TypeCorrect`, or as the first part of
an invariant (`Metered`, `HooksTyped`, `Backed`). `Measurement`, `ShopifyHooks` and `Jobs` name their
specifications `MeasurementSpec`, `HooksSpec` and `JobsSpec`, and so on, because
each is proved about beside the component it works for.

### ActionLedger

`ledger` is the committed table. `session[r]` is what one request has loaded and
the row as it will be after its edits; `Load` is the first half of every
handler, `Commit` the second, and `Flush` writes exactly the columns the handler
changed, over whatever the table holds by then. Each handler is an action
named after it; its guard is the handler's 409s and early returns, evaluated on
the row as loaded. `readBack`, `sold` and `declined` are history: the change was
seen in the live account, the days showed attributable units, a person was told
the row is declined. Amounts are abstracted to where a price came from
(`Impacts`), pictures to which fields they carry (`Baselines`).

### Guardrails, SearchTerms, AdsScan

`evaluate` is the function of the same name, in its order of precedence.
`SearchTerms` is the report's parser, the verdict on each row and the proposals
made of them: sorted by what they waste, one per term, with the identifiers of
the *last* row of the term, as `actions_engine` takes them. A scan holds in
memory what `run_ads_scan` holds in locals: the policy and the day's count as
read at the start, the proposals left, the rows flushed and not committed. One
proposal goes through `Judge` (guardrails and the read before), `Create` (sent
once; it lands or not and the answer is lost or not) and `ReadBack`.
`FinishScan` commits every row, `FailScan` rolls them back and marks the claim
failed, `CrashScan` loses them. The seller changes the same account at any time,
and the owner the policy. Rows a scan leaves proposed are for the ledger's
handlers and are not kept here. `life`, `overlap` and a scan's `wrote` are
history.

### Measurement

Time runs in half-days because a sync reads from a *moment* and files by *day*.
A sync is `StartSync` (cutoff and pages), `StampSync` (the clock read after the
last page) and `CommitSync` (days replaced, range and stamp written). The
connection row is also written by `Connect`, `Disconnect`, `RetryNotifications`
and `Uninstalled`; the first three load it, talk to Shopify and commit, so the
settings they write may be stale. `Judge` is the coverage check, `Measure` the
later read of the days. Tokens, costs and money are left out: a missing cost is
`LeaveUnpriced`. The pages are read at once, which is one of the orders in
which Shopify can answer.

### Notifications

A receipt is committed (`StripeEvent`, `WarnTrial`), then its job is queued
(`Enqueue`, or `LoseEnqueue`). A worker loads the receipt (`Begin`), calls the
provider (`Send`) and commits what came of it (`Mark`), again writing the
status only if it differs from the one loaded. `pending` counts the executions
RQ owes a job id, so a job queued twice, a retry and an abandoned job are all
the same thing. A run comes once a day, so any reservation it meets is older
than `STALE_RESERVATION_MINUTES`. Dry runs change nothing and are left out.

### DailyRun

A process that runs `app.daily` holds the stages still to do and, for the one it
is at, whether it is about to claim it, found it stale (`reclaim`) or is working
through its shops (`todo`). `run` holds today's rows of `scheduler_runs`.
`Claim` is the insert that succeeds; `FindStage` the one that fails and reads
the row; `Reclaim` the later commit of a take-over, which writes `started_at`
over whatever the row says by then. `SyncShop` and `MeasureShop` are one turn of
the loops of the two stages, with the record a scheduled sync claims and the
job it queues; `StartSync` to `CrashSync` are the worker. Of a sync only the
range it certifies is kept: what it files is `Measurement`'s. A tick is half a
day, longer than both take-over times, so "stale" is "began in an earlier
tick"; rows and records of a past day are never read again and are dropped at
midnight, when by assumption nothing is still running (a firing that outlives
its day is therefore not modelled).

### Billing and Inbox

`row` is the subscription, `delivery` the `webhook_deliveries` row of each
event, `request[w]` what one instance of `stripe_webhook` has read: `LoadEvent`
(the row), `Record` (the insert of the delivery, which waits for, or gives way
to, the one who has it), `CommitEvent` (delivery and changed columns together).
`page[p]` is a request inside `ensure_subscription`, which opens the trial or,
from a row it read as a trial that is over, writes `trial_expired`. Stripe is
external: it moves its subscriptions by its own rules, sends an event for every
move, delivers in any order and again until answered. A request may die at any
step, and an answer may be lost after its commit. `applied`, `acked`, `receipts`
and `stale` are history. `Inbox` says what that amounts to for Stripe, with none
of the machinery: `EventInbox == INSTANCE Inbox WITH ...` maps the events sent,
applied and answered to it.

### Jobs

`keyRecord` is the one idempotency record; a call is `ClaimKey` (the insert) or
`FindClaim` (the read), `TakeOver` (the later, unlocked reclaim), `Enqueue`,
`RecordRefusal`; a worker loads, runs one of five operations commit by commit
and completes the record, or records the failure over whatever it has become.
Each writes the columns that differ from the record *it* read: a call therefore
remembers the status and whether there was a response (`TakenOver`), a worker
the status where it would write the same again (`Remembered`). A rollback
expires what was read, so a failure after it writes `failed` in any case; one of
a sync or report that had read `failed` may find nothing to roll back and write
nothing, and either may happen in the model. The queue delivers at least once
and retries what raised or died. Amazon's report has its own life (`MoveReport`),
the catalogue its pages. WooCommerce's orders and Amazon's fees are one shape:
totals by day and currency, written by day in the commit of the result
(`CommitTotals`). `MixedDays` are those in two currencies; without autoflush the
second lookup does not see the row the first has added, so where there was no
row two are added under one unique key and the flush fails (`TotalsCollide`).
`daily`, the days with a row, starts with any of them: earlier keys wrote those.
Two jobs that insert the same day at once fail likewise, which is `Raise`.
Plans are decided by requests that read and commit later. `excuses` remembers
why work was repeated. The status of the run rows decides nothing but whether a
report is resumed.

### ShopifyHooks and Connection

`ShopifyHooks` is one day's totals of one shop between two handlers and the
sync, with the delivery row of each notification; `known`, `off`, `applied` and
`late` are history. `Connection` has both rows of a connection, `channel` and
`credential`, and what only Shopify knows: `install` (the token the app answers
to) and `subscribed`. A callback is the read of other holders, the pilot's
gate, its commit, and the subscription of the notifications; a disconnect and a
sync hold what they loaded. `crossed` and `renewed` are history.

### Costs, Restock, Findings, Commerce

`Costs` is `product_costs` as a set of rows and the order in which they price a
day; `Restock` is `measure_restock` in whole cents, with the code's roundings:
groups of units with one unit margin, the old shelf laid against the best of
them; `Findings` are the rules of `commerce_engine` over the daily series, and
what they propose. `Commerce` runs them: days pass, orders and refunds come,
costs are recorded, two scans read what is open and open what is not, a person
declines or confirms, and the daily job prices what is complete. Its dashboard
and its payroll are the sums the routes return.

### SignIn

A door is one sign-in in progress, step by step as the code reads and commits: a
code asked for and issued; looked up, its attempt counted, accepted or rejected;
then `ensure_account` (find or add the user, find or add the store) and the
session. A request with a token is admitted by the live session it finds,
touches it, and may end it or the others while a second one still uses them.
`raced`, `crowded`, a code's `shared` and a door's `newest` are history.

### InventoryPlanner, ProductHunt

Pure functions over integers: hundredths of a unit, tenths of a day, cents,
thousandths. What the code rounds to cents or to a tenth is rounded at the same
place, since the properties compare what is shown with what is decided. The
planner's quotients and products are binary floats, and their last bit decides
what is taken up or rounded: `math.ceil(0.07 * 100)` is 8, `round(41 / 20, 1)`
is 2.0. So `UnitsFor` and `Round` are the *sets* of what the code may come to
(the exact units or, where they are whole and the daily sales are not a multiple
of a quarter, one more; the nearest tenth, of a half either one), and the
theorems hold for every finding in `analyze_sku(s)`. Sales are given in
hundredths of a unit a day and quantities are below 10^12. In `ProductHunt`
halves are rounded up, where Python rounds them to even and a float may lie to
either side; it differs only where a quotient falls on a half, and an unbounded
return is stored as 999, as the queue does. The theorems about them cover every
input, so no run does.

## Runs

| Run | Expected | What it shows |
|---|---|---|
| `action_ledger` | holds | One row, two overlapping requests, every interleaving. `RealIsEarned`: no order of commits makes a row real that was not read back and sold. `InEffectIsOnRecord`: column-wise flushes of two requests never leave a row in effect without its before-picture or who applied it. `OffLifecycleOnlyWhenStale`: what breaks the lifecycle is always a stale commit. |
| `ads_scan` | holds | Two workers, two claims, two scans of four reports, midnight, an owner and a seller who change things. `SavingCountedOnce`: two rows claim one negative only if their scans overlapped. `OnlyWasteIsNegated`: a place the Operator negated alone does not sell, unless its term has rows in several groups (see Divergences). `BudgetHeldByScansAlone`: the daily budget survives crashes, retries and midnight as long as scans do not overlap. |
| `measurement` | holds | Syncs with returns and cancellations, with other handlers' stamps, or overlapping another sync of the shop. `PricedUnitsWereSold`: a price never holds units nobody ordered in the window, and a window strictly inside one tidy sync's range misses none it kept. |
| `notifications` | holds | Two workers, one Stripe receipt and one trial receipt, a lost process or job. `SecondCopyExplained`, `SentStays` (safety) and `TrialWarningSettles` (liveness). |
| `daily_run` | holds | Cron and firings by hand over three days, one failure of any kind. `TwoAtWorkExplained`: two processes work one stage only through a stale take-over. `CompletedRunStays`: a completed row is undone only after one. `EveryWindowPriced` (liveness): whatever was missed, died or was queued in vain, the range reaches back to the window and it is priced. |
| `billing` | holds | One session's events in any order over two instances, with a death or a lost answer, while a page rolls the trial over. `AnsweredIsAppliedOnce`, `AccessWasPaidFor` (active only after an applied event that says the money arrived), `LastWordStands` (until somebody commits over a row that had moved, the last applied event that decides has decided), `RolloverUndoesOnlyWhenStale`, `MovesAreAnnounced` (a message exactly when the status moved), `IsAnInbox` (the refinement, with its liveness: every event takes effect). |
| `paying_keeps_access` | violated | see Findings |
| `jobs` | holds | Each of five operations under one key. `AnswersAreBacked`: what a completed key answers is all there, whatever died before. `WorkDoneOnce`: two plans or two reports only for a recorded reason. `KeyIsNeverStuck` (liveness): a caller that keeps asking gets the result, or the report is dead, or some day's totals collide. `DecisionStands`: a decision is overturned only by a request that had read the plan before it. |
| `hooks` | holds | Two API processes and the sync over one day, with repeated deliveries, a fault, an uninstall, an erasure. `AddedOnce`, `TotalsAreExplained`, and `OrdersSettle` (liveness): the sync repairs what the deliveries lost. |
| `connection` | holds | Two tenants, two shops, a pilot of one. `PilotHolds`; `OneHolder` unless two callbacks crossed; `ConnectedHasKey`: the two rows of a connection never come apart on the checklist; `DenialIsEarned`: a sync's refusal is about the token the connection has; `DeadShopIsNoticed` (liveness) without any notice from Shopify. |
| `commerce` | holds | Two variants, two scans, refunds and costs. `SaidOnce`: nothing awaits a decision twice unless two scans overlapped. `CheapestExplanation`: the claim is the least of all ways to lay the old shelf against the sales. `PayrollFitsTheDashboard`: what is claimed fits the gross profit shown. `PricesAreReproducible`: a price changes only for a cost in its window or a return. `CostsAreDated`. |
| `sign_in` | holds | Both doors at once and two requests. `OneStoreEach`, `NewestCodeOnly`, `CodeProvesOnce`, `SignedOutStays`, each with the overlap that excuses it. |

Several properties end in "unless": two requests read before either committed.
The code takes no lock there, so the unconditional claim is false; the property
says that this overlap is the *only* way, whatever else crashes, is repeated or
comes late. What happens after one is under Divergences.

Deadlock is checked in `hooks`, where the sync goes on for ever. In every other
run the bounds (scans, days, orders, failures) end in a state where nothing more
is asked of the system, which is not a fault.

### Bounds

* `MCActionLedger`: rows never interact, so one row is enough; a handler has two
  steps, so two requests give every overlap of a pair. The proofs cover the rest.
* `MCAdsScan`: four reports (two wastes beside rows no proposal comes of; a term
  that wastes in one group and sells in the other; a row that fails the
  analysis; nothing), three places of which the seller reaches one, a policy
  that is off and one of a single change a day, two reports asked for (a retry,
  or a take-over), one midnight, one removal.
* `MCMeasurement`: a window of one day, syncs of one or two days, two orders,
  one return, one request by a person: enough for a cutoff inside the window,
  before it and after it, for a stamp on a later day than the pages, and for
  settings loaded before a sync's commit. The constraint `Explored` stops once
  the price is recorded, which is final (`ActionLedger` says by what else it can
  be replaced), and keeps three disturbances apart: two syncs overlap before
  anything is returned or asked for, and a behaviour has returns or requests.
* `MCNotifications`: `MAX_ATTEMPTS` 2 and one retry instead of 5 and 4 keep the
  relation between them (attempts run out with the retries); two warning days
  and one failure instead of three and two keep failures below days.
* `MCDailyRun`: a window that closes the day before the first modelled day, and
  three days: one for a failure, one to sync again, one to price (the stages of
  one run come before its syncs). `MAX_SYNC_DAYS` 8 is wider than the window
  ever needs and `DAILY_SYNC_DAYS` 1 narrower, so the range must be widened.
  Shops do not interact: one. Two firings by hand beside the cron are what two
  take-overs of one dead run need.
* `MCBilling`: three events are enough for any two to be reordered around a
  third; two instances are what a deployment has; the proofs cover the rest.
  `PayingKeepsAccess.cfg` needs two sessions and nothing going wrong: one
  instance, no failure.
* `MCJobs`: two callers and two workers for every take-over, one retry, one fault
  and one claim that ages; two pages; two days with totals, one of them in two
  currencies, each with or without a row from before; two tabs deciding on one
  plan.
* `MCShopifyHooks`: two notifications of any topic and two processes: each pair of
  a delivery with a delivery, with itself and with the sync, and one fault.
* `MCConnection`: two tenants share a shop and one has a second, so both the gate
  and the other holder matter; two authorizations (connect and reconnect, or
  one for each tenant), one failure.
* `MCCommerce`: two variants with different margins, orders of two sizes, a cost
  of the product, one of a variant and one in another currency, three days. `Explored`
  lets scans and dismissals run before prices, and keeps five events in a
  behaviour; it is a conjunct of the steps (`ExploredSpec`) and not a
  constraint, which would work out the figures of every state just outside; `Parts` 6 is divisible by every number of units
  that can be in a group.
* `MCSignIn`: two sign-ins, two requests, two codes, two sessions, three ticks.
  `Explored` races for stores and uses sessions only where everyone came through
  Google, and explores the codes until one sign-in is in: a code is looked up
  and used before any store or session is.

### Fairness

Fairness is stated only where the code or the service it talks to keeps going by
itself; failures are explicit actions under a bound, never excluded.

* `Notifications`: the daily run and each trial in it (the cron fires every day; a
  run is a loop with every exception caught), queueing a committed receipt, the
  worker's steps (the container restarts it; job and mailer have timeouts).
  Nothing of the provider: a send may raise every time, and attempts run out.
* `DailyRun`: the clock, the cron entry, a running process's steps and its loop
  over shops, the worker's steps.
* `Billing`: Stripe sends each event again until it is answered, and a request
  that is served goes on to its commit (or dies, which is bounded).
* `Jobs`: a caller's request proceeds, a claim that was left does grow old, a
  worker works, Amazon's report moves on. `KeyIsNeverStuck` needs callers to ask
  again, which a seller does and the daily run does.
* `ShopifyHooks`: the sync of the shop, once due, reads, loads and commits.
* `Connection`: the daily sync of a connection is strongly fair, because it is
  skipped on the days the connection is busy or has no key and comes again the
  next day; the worker's steps are weakly fair. Nothing of Shopify or of the
  merchant: notices may never come.

`ActionLedger`, `AdsScan`, `Measurement`, `Commerce` and `SignIn` promise safety
only, and their specifications have no fairness.

## Findings

`PayingKeepsAccess` – `routers/account.py:201`. `entitlement.py:16` describes
`active` as *Stripe says they are paying*. The webhook finds the row by the
store's id and applies the status of whichever subscription the event is about;
it never compares it with `stripe_subscription_id`. When a store has paid one
session and another of its sessions is given up or cancelled, the later event
moves the store out of `active`: every event applied, in order, none of them
stale, and the store that pays is refused.

## Divergences

Where the code does otherwise than a comment, a document or a plausible reading
says, as met while translating it. The models have the code's behaviour; the
properties above say what holds all the same.

**Action ledger and measurement**

* A dismissal that overlaps other requests over the row answers "dismissed" for a
  row the payroll then counts (`routers/money.py:250`).
* The generic measure route replaces the price of a restock proven from days with
  typed numbers and leaves it marked real (`routers/money.py:178-202`;
  `commerce_measurement.py:42`).
* `synced_at` is stamped by connect, disconnect, uninstall and erasure, which read
  no orders, and coverage believes it (`commerce_measurement.py:140`). With two
  Shopify connections the newest stamp answers for the other shop (`:133`).
* The first day of a sync's range is read from the cutoff's hour on, and replaces
  the complete count (`tasks.py:1152`). A day on which every order was cancelled
  gets no row and keeps its earlier units (`tasks.py:297`).
* The sync stage queues and the measurement stage follows at once, so a window
  that has just closed waits a day for a sync that runs minutes later
  (`daily.py:74-76`). A window older than `MAX_SYNC_DAYS` is no longer reached
  (`tasks.py:1193`). A failed stage is refused for the rest of its day
  (`scheduler.py:103`).
* A refused detail field makes the later order pages lean (`shopify.py:327-353`).

**Advertising**

* A verdict is about a report row, the negative about the identifiers of the
  term's last row (`actions_engine.py:449`): a term that wastes in one group may
  be negated in another, even where it sells. `OnlyWasteIsNegated` excepts it.
* A change that landed but was not read back does not count against the scan's
  budget (`docs/ARCHITECTURE.md:279`).
* A row with orders and no sales trips an assertion (`ppc_engine.py:119`), and one
  with two orders, sales and no spend divides by an ACOS of nought (`:128`);
  either fails the scan.

**Billing, receipts, jobs**

* Nothing reclaims a receipt reserved for a Stripe event when its job was lost
  after the commit (`notifications.py:166-168`; `routers/account.py:240`).
* A report Amazon has given up is polled by every retry of its key
  (`tasks.py:645-663`); only the next day's key gets another.
* Fees in two currencies on a day that has no row yet fail the whole sync: both
  totals are added under one unique key (`tasks.py:831-846`, `db/models.py:542`,
  `autoflush=False`), the flush raises, and so does every retry of the key, until
  the day leaves the range. Where the day has its row, the currency that comes
  last overwrites the other. WooCommerce's days are the same (`tasks.py:595-607`,
  `db/models.py:144`). The overview sums across currencies.
* A claim taken over after its status was read leaves the columns it did not
  change (`crud.py:271-279`): a failure, a completion and a take-over over one
  record can end in `completed` without a response. The autopilot answers 409
  for such a key, the other routes "finished" with nothing; `AnswersAreBacked`
  says a failure written over a result is the only way there.
* A Stripe checkout without `payment_status` counts as paid, by design
  (`stripe_billing.py:86-93`).

**Shopify connection and webhooks**

* Two tenants' overlapping callbacks both connect one shop, after which its
  notices are answered 404 (`routers/shopify.py:372-379`); one tenant's
  disconnect removes the subscriptions of the other.
* An erasure notice that comes after the connection ended is answered 404 and
  erases nothing (`routers/shopify.py:470-476`).
* A shop disconnected by its owner with a sync still queued is flagged revoked
  (`tasks.py:288`); the reason is never cleared on reconnecting. A late uninstall
  notice disconnects a fresh installation.
* A refund total that lost a race is never repaired: the sync restores orders only.

**Costs, commerce and engines**

* A manual figure equal to the latest manual one is refused even while a later
  read cost is in force (`product_costs.py:110-119`). A figure of the same day,
  or a backdated one, replaces or precedes one already used
  (`product_costs.py:128-131`); `PricesAreReproducible` excepts it. The model
  docstring's order of precedence (`db/models.py:251-255`) is not the code's
  (`product_costs.py:177-182`).
* Rounding down rounds a loss towards nought (`actions_engine.py:213`); `Restock`
  divides exactly where `Decimal` keeps 28 digits (`:158-166`): a result that comes
  to whole cents may be recorded a cent short, a gain (10.00 for three units as
  9.99) as well as a loss (2.23 for three of six units sold for 9.22 at a cost of 2.28, as 2.22). For such
  a loss `CheapestExplanation` holds to within that cent. Two restocks with
  overlapping windows claim the same units; the payroll property excepts it.
* `COSTS_MISSING` always fires for Shopify rows, whose `costs_complete` is always
  false. The payroll adds several currencies under the first row's.
* The alert for unproven changes can never fire for the advertising scan, which
  leaves an unproven change proposed (`alerts.py:376-395`, `tasks.py:927-938`).
* From twenty units a day on "at or below the reorder point" can be said with more
  than that in stock (`inventory_engine.py:113`; at 20 a day and two days of
  horizon, with 41). A critical reorder can suggest nothing when what is inbound
  covers the horizon, and a reorder point or an order can be a unit more than the
  sales take (`:85`, `:90`). With no supplier a
  plan orders nothing and pays back at once (`operator.py:116`). Two candidates
  of one name pair the evaluation of one with the inputs of the other
  (`discovery.py:320`). The what-if figure may be off by a cent and a half.

**Sign-in**

* Two first sign-ins of one person can make two stores, or one of them fails with
  its code used (`accounts.py:75`). Two overlapping requests leave two live
  codes; two sign-ins holding one code both succeed (`auth_email.py:140`).

**Erasure**: on a migrated PostgreSQL the erasure of a store cannot succeed, since
`audit_events` refuses deletion by trigger (`migrations/0003`), and the order of
deletion violates a foreign key (`erasure.py`, `db/models.py:558`).

## Proofs

Every safety property the runs check, invariants and action properties alike, is
also proved for all values of the constants. The assumptions are the modules' own
(`...Assumption`, in the module that declares the constants: bounds are numbers,
sets are of what their names say, and the shelf of `Commerce` holds the unit it
starts with), and TLC evaluates each of them. No proof uses
fairness. Almost no property is inductive as it stands: it speaks of rows, and
what breaks it next is what a request has read and not yet written. So each
proof has an invariant that says what the processes in the middle of something
know, whatever others have committed since.

### The ledger and what it is told: `ActionLedgerProofs`

For any set of rows and any number of overlapping requests, `TypeCorrect`, and
from one inductive invariant `IInv` the safety invariants `RealMoneyIsEarned` and
`NothingInEffectOffRecord` and the action properties `LifecycleHolds` and
`DaysPriceStands` (a price read from the days is replaced only by a typed one or
a stale commit). A request that loaded a row long ago will flush its columns over
a row it has not seen. `IInv` therefore says of every open session that the row
it loaded and the row it is about to write are both sound, that it un-sets
nothing (`Keeps`), and that what it loaded is still set in the table, because no
handler un-sets a column. A flush is a mix of two sound rows, and the lemmas
about `Flush` show such a mix is sound. The only assumption is that `NoAction`
is not a row.

`PricesComeFromOrders` is the measurement of such a row, for any number of syncs,
days, orders and returns. A day's count comes from a sync that read it
(`FiledWell`), a sync holds what it read and, from its cutoff on, all that is
kept (`ReadWell`), and between the judgement and the price the days only gain
(`JudgedWell`). The step that needs all of it is the commit: each day the sync
replaces is either strictly inside its range, hence complete, or outside what
coverage can rely on.

### The advertising scan: `AdsScanProofs`

Of the guardrails, for all policies and requests: `UnattendedKeepsEveryLimit` (an
unattended change that is allowed is within all limits and the switch is on) and
`LooseningRefusesNothing` (`evaluate` is monotone in the policy).

Of the scan, for any reports, workers, attempts and days: `TypeCorrect`;
`NothingThatSells`, because what a scan has to take up and has put in place are
wastes of its report (`WasteOnly`), and a waste that sells means a second row of
its term; `OneRowASaving` and `LoneScansKeepTheBudget`. For `OneRowASaving` the
invariant `Savings` covers the rows not yet committed too: a negative with a row
stands in the account until somebody takes it out (`Standing`), so a scan that
finds the place empty knows that nobody else's row is about the life it begins,
unless their scans overlapped (`Clear`). For the budget, `Budget` says that a
scan which overlaps none counted what the ledger still holds (`CountedOn`), and
that midnight moves its rows to later days only.

### Receipts: `NotificationsProofs`

For any set of receipts, any number of workers, retries, failures and warning
days, `TypeCorrect`, `SecondCopiesExplained` and `SentNeverUnsaid`. Nothing in
the receipt says who carries it. The invariant `IInv` adds that a receipt two
workers never carried has one worker at a time and is not sent while it is
carried (`CarriedAlone`), and that a copy of it that went out is recorded, or
held by that worker (`CopyRecorded`). The steps that ask for messages are all of
one kind (`Asking`): they leave what workers hold alone and never take a receipt
into or out of sent.

### The daily run and its keys: `DailyRunProofs`

For any number of firings, shops, days and failures, `TypeCorrect` (which holds
that a sync reads at least a day and at most `MAX_SYNC_DAYS`, however far behind
the shop is), `OneFiringWorks` and `CompletedStaysCompleted`. The row alone says
neither who works a stage nor since when, so the invariant `IInv` relates it to
the processes: a stage somebody is busy with has a row that says running, or is
contested (`BusyRowRuns`); two busy at one stage make it contested
(`TwoBusyContested`); and whoever inserted the row began before everybody who
took it over (`InsertIsOldest`). Most steps take no stage, and one lemma
(`CalmStep`) covers them; the three that do have a lemma each.

Of a key of `Jobs`, for any number of callers, workers, pages, plans, retries and
faults: `AnswersHold` from `Backed`, which adds to the answer what the workers
hold of it (`HeldWorkIsThere`), and from `Kept`: no step takes a page, a row, a
plan or a finished report away. `OneKeyOneResult` from `Sparing`: until two runs
of the job overlapped there is one (`Alone`), until a failure was written over a
result a plan is the only one and nobody is at it any more (`OnePlan`), until an
id was lost a report is the only one and whoever could order another knows of
none (`OneReport`). `DecisionsStand`: a request that decides has read its plan as
undecided.

### Payments: `BillingProofs`

For any number of sessions, instances, pages, events and failures, `TypeCorrect`,
`AppliedOnce`, `PaidForAccess`, `RolloverIsOfATrial`, `LastWordIsKept`,
`MovesAreHeard`, and that the webhook implements `Inbox` up to its liveness
(`ImplementsInbox`). "Applied once" is not inductive, because the row does not
say who is about to commit it: `OneHolder` adds that the requests holding a
delivery hold different ones, none of them applied yet, and `ServedWasSent` that
what is held was sent. A step of the refinement is then a `Take` when a commit
lands, an `Answer` when a repeated event is answered, a `Send` when Stripe has
news, and nothing otherwise. That access was paid for rests on `PaidStays`:
`applied` only grows, so what justified `active` once justifies it for good, and
`ActiveStep` shows that no flush of another column brings `active` without such
an event. The last word needs its converse too (`Word`): while nobody committed
over a row that had moved, the status is a trial's exactly when no applied event
decides, so a rollover has nothing to undo. `MovesAreHeard` needs that a receipt
is of an applied event (`Receipted`).

### Shops: `ConnectionProofs`

For any number of tenants, shops, authorizations and failures, `TypeCorrect`,
`PilotNeverOverfull`, `OneTenantAShop`, `ConnectedKeepsItsKey` and
`DenialsAreEarned`, all from `Bookkeeping`. Its parts: tokens and authorizations
are numbered as they are given (`Numbered`) and used once (`UsedOnce`); who ends
or syncs a connection works on a row that exists (`RowExists`); whoever is past
the gate is so alone and its place is there (`PlaceIsKept`, which is what the
advisory lock is for); until callbacks of two tenants crossed, whoever looked is
still the only holder (`StillAlone`); a connected row has its key beside it
(`KeyBeside`), though each of the two is written by several handlers from what
they loaded; and what a sync was refused stays refused until the merchant
connects again (`DeniedForGood`).

Of the order notifications, for any number of them, processes, syncs and faults:
`TotalsStandForEvents` (a total that is not known to be off is the number of
notifications known to be in it, since whoever overwrites another's count marks
it off) and `NotificationsAreAddedOnce`. The second rests on the transaction:
while a handler holds a delivery it has inserted, nobody else can have it, and
none is ever marked failed (`HeldOnce`) until a handler that failed writes its
failure over the delivery another one completed. That is the only way to a
failed delivery: the rollback took the handler's own insert with it
(`routers/shopify.py:259-272`, `:594-604`).

### Sign-in: `SignInProofs`

For any number of sign-ins, requests, codes and sessions: `TypeCorrect`,
`SignedOutForGood`, and one invariant for each of the others. `OnlyTheNewestWorks`:
until two requests for a code overlapped, the one that asks has seen every
pending code, and what was looked up was the newest (`NewestPending`).
`CodesAreSpent`: a code two sign-ins never held has one use, or a holder and
none (`HeldOnce`). `OneHome`: until two sign-ins raced, at most one of them found
no store, and then there is none (`OneStore`).

### Figures: `CommerceProofs`

For any products, orders, quotes and days: in every history the code can build, a
day that some figure covers has exactly one in force for each known variant
(`OneFigureInForce`), and a recorded figure changes the cost of no earlier day
(`EarlierCostsStand`). Both rest on `HistoryHolds`: a variant, a start and a
source have one row, since recording replaces the row of its own key. Of the
usable rows the exact ones, or if there are none all, are of one variant; among
those some start last, and of these at most two remain, by source, of which the
seller's wins (`SellerFirst`, `OneComesFirst`). Without the key two rows could
tie, and the day would have no cost in the model and an arbitrary one in the
code.

`NothingIsSaidTwice`, for any number of scans: every scan in progress has read
every key that awaits a decision, unless the key is known to have overlapped
(`Once`); the lemmas about the findings show that one scan proposes a key at most
once. `ResultsCanBeRecomputed`: a window that is over gains no sale, since sales
are filed on their day (`Reproduced`), and what may change in it, a return or a
cost that starts by its last day, restates the action.

What is claimed in money is a sum over the groups of units a window sold, and the
theorems about it need three things.

* *Sums.* `SumFunctionOnSet` of the community modules is a fold, recursive in the
  set. Nothing here is assumed of it: `SumTakes` shows that any element may be
  taken first, and from it follow the laws the claims use (monotone, additive,
  scaled, split in two, split by what another function maps to: `SumByParts`).
  The library's induction theorems take an operator, which the provers cannot
  instantiate, so the induction is `OneByOne`: were a fact false of some part of
  a finite set, `WFMin` gives a smallest such part, as proper inclusion among the
  parts of a finite set is well founded. This is why the figures are written
  as sums of functions, `SumFunction([x \in S |-> e])`, and not with an operator
  argument.
* *Types.* `TypeCorrect` by `Typed`: the sales are finitely many, none of negative
  revenue, and a measured action has its price. A sale with a cost in force is a
  group that can be priced (`GroupOfSale`, `GroupsOfWindow`), so a price is a
  count of units and whole cents (`PriceIsAResult`).
* *The cheapest cover.* `NoChoiceClaimsLess`: the code lays the old shelf against
  the units of the highest margin first. `RunsOutAt` names the margin `k` at which
  the shelf is used up: nothing above it is left, all below it is (`WhatIsLeft`).
  Any way to cover as many units leaves as many, so both claims can be taken less
  `k` for each unit left. What then remains of the code's is the loss on the units
  below `k`, all of them; another way leaves some of these, at no greater loss, and
  some above `k`, at a gain (`Covering`, `NoCoverIsCheaper`). Rounding to cents
  keeps the order (`RoundingKeepsOrder`).

`PayrollWithinGrossProfit` then goes from one claim to the page. Where nothing was
sold at a loss, a claim is within what its groups gained (`ClaimWithinGain`:
covering units takes nothing below nought away, and the roundings go down). The
groups of a window inside the period that nobody restated are among those the
dashboard shows (`CountedWithinGain`), and windows that are apart share none, so
the claims together are within the gain of all that is shown
(`ShownCoversCounted`). The revenue shown is summed by day and the gain by group:
no sale is in two days or two groups (`RevenueHoldsGroups`).

Of the pure rules, for every input and every way its floats may round:
`OrderCoversTheCycle` (the suggested quantity lasts lead time, safety days and
review period; one unit less would at best meet that exactly, and where the
floats are exact would not), `NotNowOutlastsTheLeadTime`,
`AtThePointOrdersSomething` (each with the allowance its rounding takes; the
second bounds the stock below twenty sales a day, where half a tenth of a day is
less than a unit); and of the research pipeline `CheaperNeverWorse` (a lower
landed cost never worsens a verdict, through gates, clamps and an unbounded
return), `CheapestOfferScoresBest` which follows from it, `WhatIfAgreesWithTheGate`
(the highest cost the panel names and the margin gate agree to within two cents),
and `QueuedPlanStandsUp` (where names differ, a queued plan is the score of the
inputs stored with it, and keeps the limits it was filtered by). The argument is
arithmetic: `Division`, `UnitsAreEnough` and `RoundIsNear` say what a rounding can
add, and the rest is inequalities.

### Only model-checked

* everything about liveness (`TrialWarningSettles`, `EveryWindowPriced`,
  `KeyIsNeverStuck`, `OrdersSettle`, `DeadShopIsNoticed`, and the liveness of
  `IsAnInbox`), which is outside what the prover does: fairness is about `ENABLED`;
* `PayingKeepsAccess`, which the code violates.

No safety property of a passing run is in this list.

## Not modelled

Rendering, text, credentials' encryption, the HTTP layer, row-level security
(PostgreSQL policies), scopes, the contents of reports beyond what proposals are
made of, answers of language models, deployment checks, the frontend. Of the
Amazon syncs the catalogue, the report and the finances are in `Jobs`; what the
rows say is not. Onboarding and alerts only read what other components wrote;
the two steps of the checklist a connection decides, and its screen, are operators of
`Connection`. Erasure deletes a store's rows in one transaction, so nothing of it
interleaves; what is wrong with it is under Divergences. The plan column and the
period end of a subscription decide nothing. Of Stripe's statuses `unpaid`, which
the webhook treats as `past_due` (`routers/account.py:202-203`), and `trialing`,
which no session `create_checkout` opens asks for, are not among those sent, and
a session says whether it is paid. A firing of the daily run that
outlives its day, a shop with two Shopify connections, and other currencies than
the shop's beyond being refused, are left out. `PROJECT.json` lists every
component with its status.

## Plan

| What is left | Why it is worth having |
|---|---|
| An abstract "one result per key" that `Jobs` implements where nothing overlapped | what callers rely on, stated once; `Sparing` would be most of its refinement |
| A composition of `Jobs`, `DailyRun` and `Measurement` | a closed window is priced within bounded days, through the real queue |
| Alerts and onboarding as operators over the rows of the other modules | the checklist and the alerts against what happened |
