------------------------------- MODULE DailyRun -------------------------------
(***************************************************************************)
(* The once-a-day run: daily.main and run_stage, the claims of             *)
(* scheduler.claim and finish, the syncs sync_connected_shopify_stores     *)
(* queues, and the windows measure_due_actions prices from what those      *)
(* syncs, run by a worker, have read.                                      *)
(*                                                                         *)
(* Every shop has one confirmed restock, applied AppliedAgo days before    *)
(* day 1 and not priced; its costs are on record, its credential can be    *)
(* read and it was synced on day 0.  A tick is half a day, longer than     *)
(* STALE_RUN_HOURS and STALE_CLAIM_SECONDS: what began in an earlier tick  *)
(* is stale.  Dry runs claim and write nothing and are left out.           *)
(***************************************************************************)
EXTENDS Integers, FiniteSetsExt

CONSTANTS
    Shops,
    Firings,            \* processes that may run app.daily at once
    Cron,               \* the one of them the cron entry starts
    Workers,            \* worker processes serving the integrations queue
    DAILY_SYNC_DAYS,
    MAX_SYNC_DAYS,
    AppliedAgo,         \* days from the restocks to the first day modelled
    WindowDays,         \* measurement_days of every restock
    LastDay,            \* bound: days the model runs for
    MaxByHand,          \* bound: firings by hand
    MaxFailures         \* bound: firings missed, processes lost, steps failed

ASSUME DailyRunAssumption ==
    /\ DAILY_SYNC_DAYS \in Nat \ {0}
    /\ MAX_SYNC_DAYS \in Nat /\ DAILY_SYNC_DAYS <= MAX_SYNC_DAYS
    /\ AppliedAgo \in Nat /\ WindowDays \in Nat \ {0}
    /\ LastDay \in Nat \ {0}
    /\ Cron \in Firings
    /\ MaxByHand \in Nat /\ MaxFailures \in Nat

\* scheduler.JOBS in the order of daily.STAGES.
TRIAL_WARNINGS == 1
SHOPIFY_SYNC == 2
MEASUREMENT == 3
Jobs == {TRIAL_WARNINGS, SHOPIFY_SYNC, MEASUREMENT}

Ticks == 0..(2 * LastDay - 1)
Never == -1

\* commerce_measurement.window_for: the day of the change is left out.
WindowFirst == 2 - AppliedAgo
WindowLast == WindowFirst + WindowDays - 1

\* The idempotency record of a scheduled sync: its operation names the shop and
\* the range; its key, the day, which is today for all that are kept.
Keys == [shop: Shops, days: 1..MAX_SYNC_DAYS]

VARIABLES
    tick,
    fired,      \* the last day the cron fired, or failed to
    byHand,     \* history: firings by hand so far
    run,        \* scheduler_runs: the row of each job for today
    firing,     \* what each process that runs app.daily is at
    record,     \* idempotency records of today's scheduled syncs
    queue,      \* syncs on the integrations queue
    sync,       \* what each worker is at
    channel,    \* the days each shop's last sync read
    connected,  \* shops whose token works
    priced,     \* shops whose restock has been measured
    failures,   \* history: failures so far
    contested   \* history: runs found stale while another firing was at them

vars == <<tick, fired, byHand, run, firing, record, queue, sync, channel, connected, priced,
          failures, contested>>

Today == tick \div 2 + 1
NoRun == [status |-> "absent", started |-> Never]
NoFiring == [stages |-> {}, phase |-> "claim", todo |-> {}, since |-> Never, by |-> "nobody"]
NoSync == [phase |-> "idle"]

TypeOK ==
    /\ tick \in Ticks
    /\ fired \in 0..LastDay
    /\ byHand \in 0..MaxByHand
    /\ run \in [Jobs ->
            [status: {"absent", "running", "failed", "completed"}, started: Ticks \cup {Never}]]
    /\ firing \in [Firings ->
            [stages: SUBSET Jobs, phase: {"claim", "reclaim", "work"}, todo: SUBSET Shops,
             since: Ticks \cup {Never}, by: {"nobody", "insert", "reclaim"}]]
    /\ DOMAIN record \subseteq Keys
    /\ \A k \in DOMAIN record :
            record[k] \in [status: {"processing", "failed", "completed"}, created: Ticks]
    /\ queue \subseteq Keys
    /\ sync \in [Workers -> [key: Keys, from: Int] \cup {NoSync}]
    /\ channel \in [Shops -> [from: Int, through: 0..LastDay]]
    /\ connected \subseteq Shops
    /\ priced \subseteq Shops
    /\ failures \in 0..MaxFailures
    /\ contested \subseteq Jobs

Init ==
    /\ tick = 0
    /\ fired = 0
    /\ byHand = 0
    /\ run = [j \in Jobs |-> NoRun]
    /\ firing = [p \in Firings |-> NoFiring]
    /\ record = [k \in {} |-> Never]
    /\ queue = {}
    /\ sync = [w \in Workers |-> NoSync]
    /\ channel = [s \in Shops |-> [from |-> 0 - DAILY_SYNC_DAYS, through |-> 0]]
    /\ connected = Shops
    /\ priced = {}
    /\ failures = 0
    /\ contested = {}

\* What most steps leave alone.
Clock == <<tick, fired, byHand>>
Syncing == <<queue, sync, channel, connected>>

Failure ==
    /\ failures < MaxFailures
    /\ failures' = failures + 1

---------------------------------------------------------------------------
(* Firing, and claiming a stage.                                           *)

\* The stage a process is at: stages are taken up in order.
Stage(p) == Min(firing[p].stages)
Running(p) == firing[p].stages # {}
AtWork(p) == Running(p) /\ firing[p].phase = "work"

Fire(p, stages) ==
    /\ ~Running(p)
    /\ firing' = [firing EXCEPT ![p] = [NoFiring EXCEPT !.stages = stages]]
    /\ UNCHANGED <<tick, run, record, Syncing, priced, contested>>

\* The cron entry, once a day: a retry of it is a firing by hand.
FireCron ==
    /\ fired < Today
    /\ fired' = Today
    /\ Fire(Cron, Jobs)
    /\ UNCHANGED <<byHand, failures>>

\* Somebody runs it, whole or with --only.
FireByHand(p) ==
    /\ p = Cron => fired = Today
    /\ byHand < MaxByHand
    /\ byHand' = byHand + 1
    /\ \E stages \in {Jobs} \cup {{j} : j \in Jobs} : Fire(p, stages)
    /\ UNCHANGED <<fired, failures>>

MissFiring ==
    /\ fired < Today
    /\ Failure
    /\ fired' = Today
    /\ UNCHANGED <<tick, byHand, run, firing, record, Syncing, priced, contested>>

\* On to the next stage, whatever became of this one.
NextStage(p) ==
    firing' = [firing EXCEPT ![p] =
                 [NoFiring EXCEPT !.stages = firing[p].stages \ {Stage(p)}]]

\* What a stage goes through.
TodoOf(j) ==
    CASE j = TRIAL_WARNINGS -> {}
      [] j = SHOPIFY_SYNC -> connected
      [] j = MEASUREMENT -> Shops \ priced

StartWork(p, how) ==
    firing' = [firing EXCEPT ![p].phase = "work", ![p].todo = TodoOf(Stage(p)),
                             ![p].since = tick, ![p].by = how]

\* The insert of (job, run_key) succeeds.
Claim(p) ==
    /\ Running(p) /\ firing[p].phase = "claim"
    /\ run[Stage(p)].status = "absent"
    /\ run' = [run EXCEPT ![Stage(p)] = [status |-> "running", started |-> tick]]
    /\ StartWork(p, "insert")
    /\ UNCHANGED <<Clock, record, Syncing, priced, failures, contested>>

\* Mutant: a run is presumed dead at once.
StaleAtOnce(row) == row.status = "running"

\* Mutant: any row old enough is taken over, a finished one too.
StaleWhenOld(row) == row.started < tick

\* A run still running after STALE_RUN_HOURS.
Stale(row) == row.status = "running" /\ row.started < tick

Contested(p) ==
    \E q \in Firings \ {p} :
        Running(q) /\ Stage(q) = Stage(p) /\ firing[q].phase \in {"reclaim", "work"}

\* The insert fails and the row is read: a stale one is to be taken over, any
\* other means the day is taken.
FindStage(p) ==
    /\ Running(p) /\ firing[p].phase = "claim"
    /\ run[Stage(p)].status # "absent"
    /\ \/ /\ Stale(run[Stage(p)])
          /\ firing' = [firing EXCEPT ![p].phase = "reclaim"]
          /\ contested' = IF Contested(p) THEN contested \cup {Stage(p)} ELSE contested
       \/ /\ ~Stale(run[Stage(p)])
          /\ NextStage(p)
          /\ UNCHANGED contested
    /\ UNCHANGED <<Clock, run, record, Syncing, priced, failures>>

\* The commit of a take-over writes started_at, whatever the row says by then.
Reclaim(p) ==
    /\ Running(p) /\ firing[p].phase = "reclaim"
    /\ run' = [run EXCEPT ![Stage(p)].started = tick]
    /\ StartWork(p, "reclaim")
    /\ UNCHANGED <<Clock, record, Syncing, priced, failures, contested>>

\* The database is away: the stage is given up before it is claimed.
FailToClaim(p) ==
    /\ Running(p) /\ firing[p].phase \in {"claim", "reclaim"}
    /\ Failure
    /\ NextStage(p)
    /\ UNCHANGED <<Clock, run, record, Syncing, priced, contested>>

---------------------------------------------------------------------------
(* The stages.                                                             *)

\* Mutant: an open window does not widen the range.
SyncDaysSinceLast(s) ==
    Min({MAX_SYNC_DAYS, Max({DAILY_SYNC_DAYS, Today - channel[s].through + 2})})

\* _sync_days_for: the routine range, the gap since the last sync, and back to
\* the first day of a window that has not been priced; capped.
SyncDaysFor(s) ==
    LET routine == {DAILY_SYNC_DAYS, Today - channel[s].through + 2}
        window == IF s \in priced THEN {} ELSE {Today - WindowFirst + 1}
    IN Min({MAX_SYNC_DAYS, Max(routine \cup window)})

\* crud.claim_is_in_flight, over the shop's records.
InFlight(s) ==
    \E k \in DOMAIN record :
        k.shop = s /\ record[k].status = "processing" /\ record[k].created = tick

\* crud.claim_idempotency: a new record, or one that failed or was abandoned.
Claimable(k) ==
    k \in DOMAIN record =>
        \/ record[k].status = "failed"
        \/ record[k].status = "processing" /\ record[k].created < tick

Done(p, s) == firing' = [firing EXCEPT ![p].todo = @ \ {s}]

\* The sync of one shop is queued, or skipped.  Queueing may raise (no live
\* worker, no Redis) after the record was committed: it stays processing.
SyncShop(p, s) ==
    LET k == [shop |-> s, days |-> SyncDaysFor(s)] IN
    /\ AtWork(p) /\ Stage(p) = SHOPIFY_SYNC
    /\ s \in firing[p].todo
    /\ Done(p, s)
    /\ \/ /\ ~InFlight(s) /\ Claimable(k)
          /\ record' = [n \in DOMAIN record \cup {k} |->
                          IF n = k THEN [status |-> "processing", created |-> tick]
                          ELSE record[n]]
          /\ \/ queue' = queue \cup {k} /\ UNCHANGED failures
             \/ Failure /\ UNCHANGED queue
       \/ /\ InFlight(s) \/ ~Claimable(k)
          /\ UNCHANGED <<record, queue, failures>>
    /\ UNCHANGED <<Clock, run, sync, channel, connected, priced, contested>>

\* The window is over, and the last sync ran after it and reached back to it.
WindowComplete == Today > WindowLast
Covered(s) == channel[s].through > WindowLast /\ channel[s].from <= WindowFirst

\* One shop's due restock is priced and committed, or left waiting.
MeasureShop(p, s) ==
    /\ AtWork(p) /\ Stage(p) = MEASUREMENT
    /\ s \in firing[p].todo
    /\ Done(p, s)
    /\ priced' = IF WindowComplete /\ Covered(s) THEN priced \cup {s} ELSE priced
    /\ UNCHANGED <<Clock, run, record, Syncing, failures, contested>>

\* An exception over one shop is counted and the rest go on.
FailShop(p, s) ==
    /\ AtWork(p)
    /\ s \in firing[p].todo
    /\ Failure
    /\ Done(p, s)
    /\ UNCHANGED <<Clock, run, record, Syncing, priced, contested>>

FinishStage(p) ==
    /\ AtWork(p) /\ firing[p].todo = {}
    /\ run' = [run EXCEPT ![Stage(p)].status = "completed"]
    /\ NextStage(p)
    /\ UNCHANGED <<Clock, record, Syncing, priced, failures, contested>>

FailStage(p) ==
    /\ AtWork(p)
    /\ Failure
    /\ run' = [run EXCEPT ![Stage(p)].status = "failed"]
    /\ NextStage(p)
    /\ UNCHANGED <<Clock, record, Syncing, priced, contested>>

\* The process dies and its row says running.
Die(p) ==
    /\ Running(p)
    /\ Failure
    /\ firing' = [firing EXCEPT ![p] = NoFiring]
    /\ UNCHANGED <<Clock, run, record, Syncing, priced, contested>>

---------------------------------------------------------------------------
(* The worker: tasks.run_shopify_sync.  What it files is Measurement's.    *)

StartSync(w, k) ==
    /\ sync[w] = NoSync
    /\ queue' = queue \ {k}
    /\ sync' = IF record[k].status = "completed" THEN sync
               ELSE [sync EXCEPT ![w] = [key |-> k, from |-> Today - k.days]]
    /\ UNCHANGED <<Clock, run, firing, record, channel, connected, priced, failures, contested>>

Close(w, status) ==
    /\ sync[w] # NoSync
    /\ sync' = [sync EXCEPT ![w] = NoSync]
    /\ record' = [record EXCEPT ![sync[w].key].status = status]

FinishSync(w) ==
    /\ Close(w, "completed")
    /\ channel' = [channel EXCEPT ![sync[w].key.shop] =
                     [from |-> sync[w].from, through |-> Today]]
    /\ UNCHANGED <<Clock, run, firing, queue, connected, priced, failures, contested>>

\* The token no longer works: the record is completed and the shop marked.
FindRevoked(w) ==
    /\ Close(w, "completed")
    /\ connected' = connected \ {sync[w].key.shop}
    /\ UNCHANGED <<Clock, run, firing, queue, channel, priced, failures, contested>>

\* An exception: RQ queues the job again while it has retries.
FailSync(w) ==
    /\ Failure
    /\ Close(w, "failed")
    /\ queue' \in {queue, queue \cup {sync[w].key}}
    /\ UNCHANGED <<Clock, run, firing, channel, connected, priced, contested>>

\* The worker dies: the record says processing, and RQ may retry the job.
CrashSync(w) ==
    /\ sync[w] # NoSync
    /\ Failure
    /\ sync' = [sync EXCEPT ![w] = NoSync]
    /\ queue' \in {queue, queue \cup {sync[w].key}}
    /\ UNCHANGED <<Clock, run, firing, record, channel, connected, priced, contested>>

\* Half a day passes.  The cron fires in the first half or not at all.
NextHalf ==
    /\ tick % 2 = 0
    /\ fired = Today
    /\ tick' = tick + 1
    /\ UNCHANGED <<fired, byHand, run, firing, record, Syncing, priced, failures, contested>>

\* Before a day ends what was begun is over: jobs and their retries take no
\* longer.  The rows of a day that is past are never read again.
NextDay ==
    /\ tick % 2 = 1 /\ tick + 1 \in Ticks
    /\ queue = {}
    /\ \A p \in Firings : ~Running(p)
    /\ \A w \in Workers : sync[w] = NoSync
    /\ tick' = tick + 1
    /\ run' = [j \in Jobs |-> NoRun]
    /\ record' = [k \in {} |-> Never]
    /\ contested' = {}
    /\ UNCHANGED <<fired, byHand, firing, Syncing, priced, failures>>

Next ==
    \/ NextHalf
    \/ NextDay
    \/ FireCron
    \/ MissFiring
    \/ \E p \in Firings :
         \/ FireByHand(p) \/ Claim(p) \/ FindStage(p) \/ Reclaim(p)
         \/ FailToClaim(p) \/ FinishStage(p) \/ FailStage(p) \/ Die(p)
    \/ \E p \in Firings, s \in Shops : SyncShop(p, s) \/ MeasureShop(p, s) \/ FailShop(p, s)
    \/ \E w \in Workers, k \in queue : StartSync(w, k)
    \/ \E w \in Workers : FinishSync(w) \/ FindRevoked(w) \/ FailSync(w) \/ CrashSync(w)

Spec == Init /\ [][Next]_vars

\* The clock moves and the cron fires; a process that runs app.daily goes
\* through its stages, each a loop that ends; workers take jobs and end them.
Fairness ==
    /\ WF_vars(NextHalf) /\ WF_vars(NextDay)
    /\ WF_vars(FireCron)
    /\ \A p \in Firings :
         /\ WF_vars(Claim(p) \/ FindStage(p) \/ Reclaim(p) \/ FinishStage(p))
         /\ WF_vars(\E s \in Shops : SyncShop(p, s) \/ MeasureShop(p, s))
    /\ \A w \in Workers :
         /\ WF_vars(\E k \in queue : StartSync(w, k))
         /\ WF_vars(FinishSync(w) \/ FindRevoked(w))

FairSpec == Spec /\ Fairness

---------------------------------------------------------------------------
(* The inductive invariant behind the two properties of the claims.        *)

\* A firing that has, or is about to take, a stage.
Busy(p) == Running(p) /\ firing[p].phase \in {"reclaim", "work"}

RunRows ==
    [status: {"absent", "running", "failed", "completed"}, started: Nat \cup {Never}]
FiringStates ==
    [stages: SUBSET Jobs, phase: {"claim", "reclaim", "work"}, todo: SUBSET Shops,
     since: Nat \cup {Never}, by: {"nobody", "insert", "reclaim"}]

ClaimsTyped ==
    /\ tick \in Nat
    /\ run \in [Jobs -> RunRows]
    /\ firing \in [Firings -> FiringStates]
    /\ connected \subseteq Shops
    /\ contested \subseteq Jobs

\* The row of a stage somebody is busy with is there, and says running unless
\* somebody else is, or was, busy with it too.
BusyRowRuns ==
    \A p \in Firings : Busy(p) =>
        /\ run[Stage(p)].status # "absent"
        /\ run[Stage(p)].status = "running" \/ Stage(p) \in contested

TwoBusyContested ==
    \A p, q \in Firings : p # q /\ Busy(p) /\ Busy(q) /\ Stage(p) = Stage(q) =>
        Stage(p) \in contested

\* Who inserted the row was there before everybody who took it over.
InsertIsOldest ==
    \A p \in Firings : AtWork(p) =>
        /\ firing[p].by # "nobody"
        /\ firing[p].by = "insert" =>
             /\ firing[p].since <= run[Stage(p)].started
             /\ firing[p].since <= tick
             /\ \A q \in Firings \ {p} : Busy(q) /\ Stage(q) = Stage(p) =>
                  IF firing[q].phase = "reclaim"
                  THEN firing[p].since < tick
                  ELSE firing[q].by = "reclaim" /\ firing[p].since < firing[q].since

IInv == ClaimsTyped /\ BusyRowRuns /\ TwoBusyContested /\ InsertIsOldest

---------------------------------------------------------------------------
(* Properties.                                                             *)

\* scheduler.py: "Two firings at once are handled by the database rather than by
\* hoping."  Two processes work on one stage of one day only if one of them has
\* been at it for longer than STALE_RUN_HOURS, or if both took it over from a
\* third that had.
TwoAtWorkExplained ==
    \A p, q \in Firings :
        p # q /\ AtWork(p) /\ AtWork(q) /\ Stage(p) = Stage(q) =>
            \/ firing[p].since # firing[q].since
            \/ firing[p].by = "reclaim" /\ firing[q].by = "reclaim"

\* daily.py: a measurement that throws must leave the others "recorded as the
\* successes they were".  A stage recorded as completed stays so, unless it was
\* found stale while a firing was still at it: the take-over writes started_at
\* over whatever the row says by then, and works it again.
CompletedRunStays ==
    [][\A j \in Jobs : run[j].status = "completed" /\ ~NextDay =>
         run'[j].status = "completed" \/ j \in contested]_vars

\* tasks.measure_due_actions: without it "an action could sit `applied` for
\* ever".  With days enough after the window for every failure, and the window
\* within MAX_SYNC_DAYS, each closed window of a shop that stays connected is
\* read back to its first day and priced, whatever is missed, dies, or is run by
\* hand in between.
EveryWindowPriced == \A s \in Shops : <>(s \in priced \/ s \notin connected)

===============================================================================
