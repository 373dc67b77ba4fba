-------------------------------- MODULE Jobs --------------------------------
(***************************************************************************)
(* One operation under one idempotency key (db/crud.py), from the POST     *)
(* that claims the key through the RQ queue to the worker that records the *)
(* result, and what becomes of the plan it left (routers/autopilot.py).    *)
(*                                                                         *)
(* A POST inserts the record or reads the one that is there; a read and    *)
(* the take-over it leads to are two transactions without a lock.  Whoever *)
(* holds the record writes the columns it changed from what it had read,   *)
(* whatever the row says by then.  The queue (external) delivers at least  *)
(* once: it retries what raised or died as long as the job has retries     *)
(* left, and a job enqueued again under the same id is a second copy of it.*)
(*                                                                         *)
(* Five operations: "scan" (autopilot: new rows in the commit of the       *)
(* result), "import" (WooCommerce's orders) and "finances" (Amazon's fees),*)
(* both summed by day and currency and upserted, one row a day, in the     *)
(* commit of the result, "sync" (Amazon catalogue: rows upserted and       *)
(* committed page by page) and "report" (ordered at Amazon and polled      *)
(* until it is there).  Left out: what the rows say otherwise, tenancy,    *)
(* and the inline scan of an installation without a queue.                 *)
(***************************************************************************)
EXTENDS Integers, FiniteSets, Sequences

CONSTANTS
    Operations,     \* the operations the key may be for
    Calls,          \* POSTs that can be under way at once
    JobWorkers,     \* RQ worker processes
    Deciders,       \* requests that can be deciding on a plan
    Pages,          \* pages of the catalogue of a "sync"
    TotalDays,      \* days an "import" or a "finances" has totals for
    MixedDays,      \* those of them it has totals in two currencies for
    MaxRetries,     \* Retry(max=...)
    MaxFaults,      \* bound: exceptions, crashes, lost answers, dead reports
    MaxAges,        \* bound: claims that grow old while their job is alive
    MaxQueued,      \* bound: copies of the job a POST finds waiting
    MaxPlans,       \* bound: scans that commit
    OnScreen        \* bound: the plans somebody decides on or clears away

ASSUME JobsAssumption ==
    /\ Operations \subseteq {"scan", "import", "finances", "sync", "report"}
    /\ TotalDays \in Nat /\ MixedDays \subseteq 1..TotalDays
    /\ Pages \in Nat /\ MaxRetries \in Nat
    /\ MaxFaults \in Nat /\ MaxAges \in Nat /\ MaxQueued \in Nat /\ MaxPlans \in Nat
    /\ OnScreen \in Nat

VARIABLES
    keyRecord,  \* the idempotency_records row of the key; stale: created_at is too
                \* long ago, which is asked only of a claim in processing
    call,       \* what each POST knows and how far it is
    queued,     \* copies of the job waiting in Redis
    retries,    \* the retries the job has left
    exec,       \* what each worker is doing
    synced,     \* pages committed by a sync
    daily,      \* commerce_daily_metrics or amazon_cost_daily: the days with a row
    keyRun,     \* the amazon_sync_runs or amazon_report_runs row of the record
    reports,    \* Amazon's own state of each report it was asked for
    plans,      \* the recommendations rows, by their status
    decision,   \* what each deciding request has read
    faults,     \* history: faults so far
    ages,       \* history: claims that grew old with their job alive
    excuses     \* history: "overlap", "late" failure, "lost" report id

jobsVars == <<keyRecord, call, queued, retries, exec, synced, daily, keyRun, reports, plans,
              decision, faults, ages, excuses>>

Nothing == 0
Results == 0..MaxPlans + 1
RecordStatuses == {"none", "processing", "failed", "completed"}
Records == [operation : Operations, status : RecordStatuses, response : Results,
            stale : BOOLEAN]
\* How far a POST is, and what it last read of the record: its status and
\* whether it had a response.
CallStates == [at : {"idle", "seen", "claimed", "refused"}, status : RecordStatuses,
               answered : BOOLEAN]
TotalledDays == 1..TotalDays
Totalled == {"import", "finances"}
\* How far a worker is, the status it read of the record, the report it holds
\* and the pages it has written.
Executions == [at : {"idle", "starting", "working", "created", "polling", "failing"},
               status : RecordStatuses, report : Nat, page : 0..Pages]
RunStatuses == {"none", "running", "processing", "done", "fatal", "failed", "completed"}
ReportStatuses == {"in_progress", "done", "fatal"}
PlanStatuses == {"pending", "approved", "dismissed", "deleted"}
Decisions == [at : {"idle", "deciding", "clearing"}, plan : Nat, read : SUBSET Nat,
              choice : PlanStatuses]

NoCall == [at |-> "idle", status |-> "none", answered |-> FALSE]
Out == [at |-> "idle", status |-> "none", report |-> Nothing, page |-> 0]
NoDecision == [at |-> "idle", plan |-> Nothing, read |-> {}, choice |-> "pending"]

JobsTypeOK ==
    /\ keyRecord \in Records
    /\ call \in [Calls -> CallStates]
    /\ queued \in Nat
    /\ retries \in 0..MaxRetries
    /\ exec \in [JobWorkers -> Executions]
    /\ synced \in 0..Pages
    /\ daily \subseteq TotalledDays
    /\ keyRun \in [status : RunStatuses, report : Nat]
    /\ reports \in Seq(ReportStatuses)
    /\ plans \in Seq(PlanStatuses) /\ Len(plans) <= MaxPlans
    /\ decision \in [Deciders -> Decisions]
    /\ faults \in 0..MaxFaults /\ ages \in 0..MaxAges
    /\ excuses \subseteq {"overlap", "late", "lost"}

JobsInit ==
    /\ keyRecord \in [operation : Operations, status : {"none"}, response : {Nothing},
                      stale : {FALSE}]
    /\ call = [c \in Calls |-> NoCall]
    /\ queued = 0 /\ retries = 0
    /\ exec = [w \in JobWorkers |-> Out]
    /\ synced = 0
    /\ daily \in SUBSET TotalledDays   \* from earlier keys
    /\ keyRecord.operation \notin Totalled => daily = {}
    /\ keyRun = [status |-> "none", report |-> Nothing]
    /\ reports = <<>>
    /\ plans = <<>>
    /\ decision = [d \in Deciders |-> NoDecision]
    /\ faults = 0 /\ ages = 0 /\ excuses = {}

Queue == <<queued, retries>>
Stored == <<synced, daily>>
Work == <<exec, Stored, keyRun, reports>>
Plans == <<plans, decision>>
History == <<faults, ages, excuses>>

Fault == faults < MaxFaults /\ faults' = faults + 1

\* A failure written over a result.
LateFailure == IF keyRecord.status = "completed" THEN {"late"} ELSE {}

\* A report was ordered and nobody wrote down which.
LostReport(w) == IF exec[w].at = "created" THEN {"lost"} ELSE {}

---------------------------------------------------------------------------
(* The claim.                                                              *)

\* Mutant: a claim that failed keeps its key.
AbandonedWhenOld == keyRecord.status = "processing" /\ keyRecord.stale

\* _claim_is_abandoned: failed, or in processing for longer than any job runs.
ClaimIsAbandoned ==
    \/ keyRecord.status = "failed"
    \/ keyRecord.status = "processing" /\ keyRecord.stale

\* The key is new: the insert is the claim.
ClaimKey(c) ==
    /\ call[c].at = "idle"
    /\ keyRecord.status = "none"
    /\ keyRecord' = [keyRecord EXCEPT !.status = "processing"]
    /\ call' = [call EXCEPT ![c] = [NoCall EXCEPT !.at = "claimed", !.status = "processing"]]
    /\ UNCHANGED <<Queue, Work, Plans, History>>

\* The key is there and its claim looks abandoned.  (Otherwise the record, with
\* its result if there is one, is the answer and nothing changes.)
FindClaim(c) ==
    /\ call[c].at = "idle"
    /\ ClaimIsAbandoned
    /\ call' = [call EXCEPT ![c] = [at |-> "seen", status |-> keyRecord.status,
                                    answered |-> keyRecord.response # Nothing]]
    /\ UNCHANGED <<keyRecord, Queue, Work, Plans, History>>

\* What the record says once a claim is taken over: processing, no response
\* and a new created_at, of which the flush writes what differs from the record
\* as it was read.
TakenOver(c) ==
    [keyRecord EXCEPT
        !.status = IF call[c].status = "processing" THEN @ ELSE "processing",
        !.response = IF call[c].answered THEN Nothing ELSE @,
        !.stale = FALSE]

\* The claim is taken over, whatever became of it since it was read, and the
\* record is read again.
TakeOver(c) ==
    /\ call[c].at = "seen"
    /\ keyRecord' = TakenOver(c)
    /\ call' = [call EXCEPT ![c] = [NoCall EXCEPT !.at = "claimed",
                                                  !.status = TakenOver(c).status]]
    /\ excuses' = excuses \cup (IF TakenOver(c).status = "completed" THEN {} ELSE LateFailure)
    /\ UNCHANGED <<Queue, Work, Plans, faults, ages>>

\* The job is handed to the queue, with its retries.
Enqueue(c) ==
    /\ call[c].at = "claimed"
    /\ queued < MaxQueued
    /\ queued' = queued + 1
    /\ retries' = MaxRetries
    /\ call' = [call EXCEPT ![c] = NoCall]
    /\ UNCHANGED <<keyRecord, Work, Plans, History>>

\* No worker listens, or Redis does not answer, though it may have the job.
EnqueueFails(c) ==
    /\ call[c].at = "claimed"
    /\ Fault
    /\ \/ UNCHANGED Queue
       \/ queued < MaxQueued /\ queued' = queued + 1 /\ retries' = MaxRetries
    /\ call' = [call EXCEPT ![c].at = "refused"]
    /\ UNCHANGED <<keyRecord, Work, Plans, ages, excuses>>

\* fail_idempotency writes the status, whatever the record says by now.
Fail == /\ keyRecord' = [keyRecord EXCEPT !.status = "failed", !.stale = FALSE]
        /\ excuses' = excuses \cup LateFailure

\* The refusal is recorded (autopilot_scan rolls back first), and 503.
RecordRefusal(c) ==
    /\ call[c].at = "refused"
    /\ IF keyRecord.operation # "scan" /\ call[c].status = "failed"
       THEN UNCHANGED <<keyRecord, excuses>> ELSE Fail
    /\ call' = [call EXCEPT ![c] = NoCall]
    /\ UNCHANGED <<Queue, Work, Plans, faults, ages>>

\* The API process dies with the claim in its hands.
CrashCall(c) ==
    /\ call[c].at \in {"claimed", "refused"}
    /\ Fault
    /\ call' = [call EXCEPT ![c] = NoCall]
    /\ UNCHANGED <<keyRecord, Queue, Work, Plans, ages, excuses>>

Occupied == {w \in JobWorkers : exec[w].at # "idle"}

JobIsAlive ==
    queued > 0 \/ Occupied # {} \/ \E c \in Calls : call[c].at \in {"claimed", "refused"}

\* STALE_CLAIM_SECONDS pass: the retries of one job can take longer.
Age ==
    /\ keyRecord.status = "processing" /\ ~keyRecord.stale
    /\ keyRecord' = [keyRecord EXCEPT !.stale = TRUE]
    /\ IF JobIsAlive THEN ages < MaxAges /\ ages' = ages + 1 ELSE UNCHANGED ages
    /\ UNCHANGED <<call, Queue, Work, Plans, faults, excuses>>

---------------------------------------------------------------------------
(* The worker.                                                             *)

\* One idle worker is as good as another.
FreeWorker == CHOOSE w \in JobWorkers : Occupied # JobWorkers => w \notin Occupied

\* The status a worker has read, where it would not write the same again:
\* completed, and failed in a sync or a report, which may have nothing to roll
\* back since its last commit.  A rollback forgets what was read.
Remembered ==
    IF \/ keyRecord.status = "completed"
       \/ keyRecord.status = "failed" /\ keyRecord.operation \in {"sync", "report"}
    THEN keyRecord.status ELSE "none"

\* Mutant: the worker does not look whether the work is done.
LoadAlways(w) ==
    /\ Occupied # JobWorkers /\ w = FreeWorker /\ queued > 0
    /\ queued' = queued - 1
    /\ exec' = [exec EXCEPT ![w].at = "starting", ![w].status = Remembered]
    /\ excuses' = excuses \cup (IF Occupied # {} THEN {"overlap"} ELSE {})
    /\ UNCHANGED <<keyRecord, call, retries, Stored, keyRun, reports, Plans, faults, ages>>

\* A worker takes a copy of the job.  A recorded result ends it at once.
Load(w) ==
    /\ Occupied # JobWorkers /\ w = FreeWorker /\ queued > 0
    /\ queued' = queued - 1
    /\ \/ /\ keyRecord.status = "completed" /\ keyRecord.response # Nothing
          /\ UNCHANGED <<exec, excuses>>
       \/ /\ ~(keyRecord.status = "completed" /\ keyRecord.response # Nothing)
          /\ exec' = [exec EXCEPT ![w].at = "starting", ![w].status = Remembered]
          /\ excuses' = excuses \cup (IF Occupied # {} THEN {"overlap"} ELSE {})
    /\ UNCHANGED <<keyRecord, call, retries, Stored, keyRun, reports, Plans, faults, ages>>

\* The run row is committed before Amazon is asked for anything.  The report
\* id the worker goes on with is the one it read from the row.
StartRun(w) ==
    /\ exec[w].at = "starting"
    /\ \/ /\ keyRecord.operation \in {"scan", "import", "finances"}
          /\ exec' = [exec EXCEPT ![w].at = "working"]
          /\ UNCHANGED keyRun
       \/ /\ keyRecord.operation = "sync"
          /\ exec' = [exec EXCEPT ![w].at = "working"]
          /\ keyRun' = [keyRun EXCEPT !.status = "running"]
       \/ /\ keyRecord.operation = "report"
          /\ exec' = [exec EXCEPT ![w].report = keyRun.report,
                                  ![w].at = IF keyRun.report = Nothing THEN "working"
                                            ELSE "polling"]
          /\ keyRun' = IF keyRun.status = "none" THEN [keyRun EXCEPT !.status = "running"]
                       ELSE keyRun
    /\ UNCHANGED <<keyRecord, call, Queue, Stored, reports, Plans, History>>

\* One result: rows, audit event and record in a single commit.  A record that
\* already said completed, without a response, when the worker read it keeps
\* the status it has by now.
Complete(w, result) ==
    /\ keyRecord' = [keyRecord EXCEPT !.response = result,
                        !.status = IF exec[w].status = "completed" THEN @ ELSE "completed",
                        !.stale = IF exec[w].status = "completed" THEN @ ELSE FALSE]
    /\ exec' = [exec EXCEPT ![w] = Out]

\* save_recommendation: a new row, whatever plans there are already.
Saved == Append(plans, "pending")

\* run_autopilot_scan: the plans that clear the bar, pending.
CommitScan(w) ==
    /\ keyRecord.operation = "scan" /\ exec[w].at = "working"
    /\ Len(plans) < MaxPlans
    /\ plans' = Saved
    /\ Complete(w, Len(plans) + 1)
    /\ UNCHANGED <<call, Queue, Stored, keyRun, reports, decision, History>>

\* A day in two currencies is two totals and one row: without autoflush the
\* second does not find the row the first has added, and adds another.
Collides == keyRecord.operation \in Totalled /\ ~(MixedDays \subseteq daily)

\* run_woocommerce_sync, run_amazon_finances_sync: everything is read first,
\* summed by day and currency, and upserted by day in one go.  Where the day
\* has its row, the currency that comes last keeps it.
CommitTotals(w) ==
    /\ keyRecord.operation \in Totalled /\ exec[w].at = "working"
    /\ ~Collides
    /\ daily' = TotalledDays
    /\ Complete(w, 1)
    /\ UNCHANGED <<call, Queue, synced, keyRun, reports, Plans, History>>

\* Two rows under one unique key: the flush raises and all is rolled back.
TotalsCollide(w) ==
    /\ Collides /\ exec[w].at = "working"
    /\ exec' = [exec EXCEPT ![w].at = "failing"]
    /\ UNCHANGED <<keyRecord, call, Queue, Stored, keyRun, reports, Plans, History>>

\* run_amazon_sync: upserts, one commit per page.
CommitPage(w) ==
    /\ keyRecord.operation = "sync" /\ exec[w].at = "working"
    /\ exec[w].page < Pages
    /\ exec' = [exec EXCEPT ![w].page = @ + 1]
    /\ synced' = IF exec[w].page + 1 > synced THEN exec[w].page + 1 ELSE synced
    /\ UNCHANGED <<keyRecord, call, Queue, daily, keyRun, reports, Plans, History>>

\* Mutant: a sync is called complete a page early.
LastPageEarly(w) == exec[w].page + 1 >= Pages

LastPage(w) == exec[w].page = Pages

CommitSync(w) ==
    /\ keyRecord.operation = "sync" /\ exec[w].at = "working"
    /\ LastPage(w)
    /\ keyRun' = [keyRun EXCEPT !.status = "completed"]
    /\ Complete(w, 1)
    /\ UNCHANGED <<call, Queue, Stored, reports, Plans, History>>

\* run_amazon_sales_report: Amazon is asked for a report...
CreateReport(w) ==
    /\ keyRecord.operation = "report" /\ exec[w].at = "working"
    /\ reports' = Append(reports, "in_progress")
    /\ exec' = [exec EXCEPT ![w].at = "created", ![w].report = Len(reports) + 1]
    /\ UNCHANGED <<keyRecord, call, Queue, Stored, keyRun, Plans, History>>

\* ... and its id is committed before anything else happens.
PersistReport(w) ==
    /\ exec[w].at = "created"
    /\ keyRun' = [status |-> "processing", report |-> exec[w].report]
    /\ exec' = [exec EXCEPT ![w].at = "polling"]
    /\ UNCHANGED <<keyRecord, call, Queue, Stored, reports, Plans, History>>

\* It is there: downloaded, upserted and recorded.
CommitReport(w) ==
    /\ exec[w].at = "polling"
    /\ reports[exec[w].report] = "done"
    /\ keyRun' = [keyRun EXCEPT !.status = "completed"]
    /\ Complete(w, 1)
    /\ UNCHANGED <<call, Queue, Stored, reports, Plans, History>>

\* It will never be there.
ReportIsDead(w) ==
    /\ exec[w].at = "polling"
    /\ reports[exec[w].report] = "fatal"
    /\ keyRun' = [keyRun EXCEPT !.status = "failed"]
    /\ exec' = [exec EXCEPT ![w].at = "failing"]
    /\ UNCHANGED <<keyRecord, call, Queue, Stored, reports, Plans, History>>

\* Anything the work raises: rolled back, and the run row says failed.
Raise(w) ==
    /\ exec[w].at \in {"starting", "working", "created", "polling"}
    /\ Fault
    /\ exec' = [exec EXCEPT ![w].at = "failing"]
    /\ keyRun' = IF exec[w].at = "starting" \/ keyRun.status = "none" THEN keyRun
                 ELSE [keyRun EXCEPT !.status = "failed"]
    /\ excuses' = excuses \cup LostReport(w)
    /\ UNCHANGED <<keyRecord, call, Queue, Stored, reports, Plans, ages>>

\* RQ runs the job again while it has retries left.
Retry ==
    \/ retries > 0 /\ retries' = retries - 1 /\ queued' = queued + 1
    \/ retries = 0 /\ UNCHANGED Queue

\* The failure is recorded, unless failed is what was read and still known.
RecordFailure(w) ==
    /\ exec[w].at = "failing"
    /\ \/ Fail
       \/ exec[w].status = "failed" /\ UNCHANGED <<keyRecord, excuses>>
    /\ exec' = [exec EXCEPT ![w] = Out]
    /\ Retry
    /\ UNCHANGED <<call, Stored, keyRun, reports, Plans, faults, ages>>

\* The worker process dies; RQ notices.
CrashWorker(w) ==
    /\ exec[w].at # "idle"
    /\ Fault
    /\ exec' = [exec EXCEPT ![w] = Out]
    /\ excuses' = excuses \cup LostReport(w)
    /\ Retry
    /\ UNCHANGED <<keyRecord, call, Stored, keyRun, reports, Plans, ages>>

\* Amazon finishes a report or gives it up.
MoveReport(r) ==
    /\ r \in DOMAIN reports /\ reports[r] = "in_progress"
    /\ \/ reports' = [reports EXCEPT ![r] = "done"] /\ UNCHANGED faults
       \/ reports' = [reports EXCEPT ![r] = "fatal"] /\ Fault
    /\ UNCHANGED <<keyRecord, call, Queue, exec, Stored, keyRun, Plans, ages, excuses>>

---------------------------------------------------------------------------
(* The plan.                                                               *)

\* The plans nobody has decided on.
Undecided == {p \in DOMAIN plans : plans[p] = "pending"}

\* Mutant: the last click counts.
ReadPlanAgain(d, p, choice) ==
    /\ decision[d].at = "idle"
    /\ p \in DOMAIN plans /\ plans[p] # "deleted"
    /\ decision' = [decision EXCEPT ![d] =
          [at |-> "deciding", plan |-> p, read |-> Undecided \cap {p}, choice |-> choice]]
    /\ UNCHANGED <<keyRecord, call, Queue, Work, plans, History>>

\* autopilot_decision reads the plan.  A plan decided already is answered
\* (the same decision) or refused (the other one) and left alone.
ReadPlan(d, p, choice) ==
    /\ decision[d].at = "idle"
    /\ p \in DOMAIN plans /\ plans[p] = "pending"
    /\ decision' = [decision EXCEPT ![d] =
          [at |-> "deciding", plan |-> p, read |-> Undecided \cap {p}, choice |-> choice]]
    /\ UNCHANGED <<keyRecord, call, Queue, Work, plans, History>>

\* It writes the whole detail column, status included; a row that is gone is
\* an error.
Decide(d) ==
    /\ decision[d].at = "deciding"
    /\ plans' = IF plans[decision[d].plan] = "deleted" THEN plans
                ELSE [plans EXCEPT ![decision[d].plan] = decision[d].choice]
    /\ decision' = [decision EXCEPT ![d] = NoDecision]
    /\ UNCHANGED <<keyRecord, call, Queue, Work, History>>

\* clear_recommendations picks the rows of one status or of any...
PickPlans(d, statuses) ==
    /\ decision[d].at = "idle"
    /\ \E p \in 1..OnScreen \cap DOMAIN plans : plans[p] \in statuses
    /\ decision' = [decision EXCEPT ![d] =
          [at |-> "clearing", plan |-> Nothing, choice |-> "deleted",
           read |-> {p \in 1..OnScreen \cap DOMAIN plans : plans[p] \in statuses}]]
    /\ UNCHANGED <<keyRecord, call, Queue, Work, plans, History>>

\* ... and deletes those rows, whatever they say by now.
ClearPlans(d) ==
    /\ decision[d].at = "clearing"
    /\ plans' = [p \in DOMAIN plans |-> IF p \in decision[d].read THEN "deleted" ELSE plans[p]]
    /\ decision' = [decision EXCEPT ![d] = NoDecision]
    /\ UNCHANGED <<keyRecord, call, Queue, Work, History>>

---------------------------------------------------------------------------
JobsNext ==
    \/ \E c \in Calls : \/ ClaimKey(c) \/ FindClaim(c) \/ TakeOver(c) \/ Enqueue(c)
                        \/ EnqueueFails(c) \/ RecordRefusal(c) \/ CrashCall(c)
    \/ Age
    \/ \E w \in JobWorkers :
          \/ Load(w) \/ StartRun(w) \/ CommitScan(w) \/ CommitTotals(w)
          \/ TotalsCollide(w) \/ CommitPage(w) \/ CommitSync(w)
          \/ CreateReport(w) \/ PersistReport(w) \/ CommitReport(w)
          \/ ReportIsDead(w) \/ Raise(w) \/ RecordFailure(w) \/ CrashWorker(w)
    \/ \E r \in DOMAIN reports : MoveReport(r)
    \/ \E d \in Deciders :
          \/ \E p \in 1..OnScreen, choice \in {"approved", "dismissed"} : ReadPlan(d, p, choice)
          \/ Decide(d)
          \/ \E statuses \in {{"pending"}, {"pending", "approved", "dismissed"}} :
                PickPlans(d, statuses)
          \/ ClearPlans(d)

\* Whoever was told to try again does, workers work, Amazon answers, and time
\* passes.
JobsFairness ==
    /\ \A c \in Calls :
          WF_jobsVars(FindClaim(c) \/ TakeOver(c) \/ Enqueue(c) \/ RecordRefusal(c))
    /\ WF_jobsVars(Age)
    /\ \A w \in JobWorkers :
          WF_jobsVars(\/ Load(w) \/ StartRun(w) \/ CommitScan(w) \/ CommitTotals(w)
                      \/ TotalsCollide(w) \/ CommitPage(w) \/ CommitSync(w)
                      \/ CreateReport(w) \/ PersistReport(w) \/ CommitReport(w)
                      \/ ReportIsDead(w) \/ RecordFailure(w))
    /\ WF_jobsVars(\E r \in DOMAIN reports : MoveReport(r))

JobsSpec == JobsInit /\ [][JobsNext]_jobsVars /\ JobsFairness

---------------------------------------------------------------------------
(* Properties.                                                             *)

\* What the key answers with is all there: the plans of the scan, every page
\* of the sync, a row for every day an import or the fees have totals for, a
\* report that Amazon finished - whatever the runs before the one that answered
\* had left behind (crud.complete_idempotency and the single commit it makes).
\* A key without an answer is one whose result a late failure had overwritten:
\* the claim that found it so wiped the response of the next.
AnswersAreBacked ==
    keyRecord.status = "completed" =>
        /\ keyRecord.response = Nothing => "late" \in excuses
        /\ CASE keyRecord.operation = "scan" -> keyRecord.response \in DOMAIN plans \cup {Nothing}
             [] keyRecord.operation = "sync" -> synced = Pages
             [] keyRecord.operation \in Totalled -> daily = TotalledDays
             [] keyRecord.operation = "report" ->
                   keyRun.report \in DOMAIN reports /\ \E r \in DOMAIN reports : reports[r] = "done"

\* Work is repeated under one key only if two runs of the job were at it
\* together or a failure (or a take-over) was written over a result; a second
\* report is ordered only by runs that overlapped, or when the id of the first
\* was lost before its commit (tasks.py:663-674).
WorkDoneOnce ==
    /\ Len(plans) > 1 => excuses \cap {"overlap", "late"} # {}
    /\ Len(reports) > 1 => excuses \cap {"overlap", "lost"} # {}

\* The report the key holds on to is one Amazon has given up.
DeadReport == keyRun.report # Nothing /\ reports[keyRun.report] = "fatal"

\* A key can always be used again: whatever died or failed, a caller that
\* keeps asking sees it completed (crud.py:215-226), unless the report the key
\* remembers is dead or some day's totals collide, which every retry repeats.
KeyIsNeverStuck ==
    keyRecord.status \in {"processing", "failed"}
        ~> keyRecord.status = "completed" \/ DeadReport \/ Collides

\* "A decision is a one-time transition, and a stale tab must not be able to
\* overturn one made elsewhere" (autopilot.py:173-178).  It is overturned only
\* by a request that read the plan before it was decided; one that came later
\* can at most have it cleared away.
DecisionStands ==
    [][\A p \in DOMAIN plans : plans[p] \in {"approved", "dismissed"}
          => \/ plans'[p] \in {plans[p], "deleted"}
             \/ \E d \in Deciders : decision[d].at = "deciding" /\ p \in decision[d].read]_jobsVars
=============================================================================
