---------------------------- MODULE Notifications ----------------------------
(***************************************************************************)
(* The emails about money: notifications.reserve and deliver, the job that *)
(* carries one (queueing.enqueue_notification, tasks.send_subscription_    *)
(* email), and who asks for one: the Stripe webhook once per event, and    *)
(* tasks.warn_about_ending_trials every day of a trial's last days.        *)
(*                                                                         *)
(* A receipt is committed first, the job is queued after the commit, and   *)
(* the provider is called between loading the receipt and committing what  *)
(* came of it.  Nothing locks the receipt.                                 *)
(***************************************************************************)
EXTENDS Integers, FiniteSets

CONSTANTS
    EventMails,     \* receipts keyed on a Stripe event
    TrialMails,     \* receipts keyed on the end of a trial
    Workers,        \* worker processes serving the notifications queue
    NoMail,         \* a worker that carries none
    MAX_ATTEMPTS,
    MaxRetries,     \* retries RQ allows a job
    WarningDays,    \* TRIAL_WARNING_DAYS: daily runs that find a trial ending
    MaxFailures     \* bound: processes lost, runs missed, jobs not queued

Mails == EventMails \cup TrialMails

ASSUME NotificationsAssumption ==
    /\ EventMails \cap TrialMails = {}
    /\ NoMail \notin Mails
    /\ MAX_ATTEMPTS \in Nat \ {0}
    /\ MaxRetries \in Nat /\ WarningDays \in Nat /\ MaxFailures \in Nat

VARIABLES
    receipt,    \* email_receipts: status and attempts
    inHand,     \* receipts a process has committed and is about to queue
    pending,    \* executions of the job of a receipt that RQ still owes
    retries,    \* retries the job has left
    delivery,   \* what each worker has loaded and what came of the send
    trialing,   \* trials that are still running
    today,      \* day of the trials' last days; past WarningDays they are over
    considered, \* trials today's run is done with
    failures,   \* history: failures so far
    copies,     \* history: messages the provider accepted for each receipt
    unmarked,   \* history: receipts with an accepted message nobody recorded
    overlapped  \* history: receipts two workers carried at once

vars == <<receipt, inHand, pending, retries, delivery, trialing, today, considered,
          failures, copies, unmarked, overlapped>>

Idle == [mail |-> NoMail, status |-> "absent", attempts |-> 0, outcome |-> "none"]

TypeOK ==
    /\ receipt \in [Mails ->
            [status: {"absent", "reserved", "failed", "sent"}, attempts: Nat]]
    /\ inHand \subseteq Mails
    /\ pending \in [Mails -> Nat]
    /\ retries \in [Mails -> 0..MaxRetries]
    /\ delivery \in [Workers ->
            [mail: Mails \cup {NoMail}, status: {"absent", "reserved", "failed"},
             attempts: Nat, outcome: {"none", "accepted", "raised", "rejected"}]]
    /\ trialing \subseteq TrialMails
    /\ today \in 1..(WarningDays + 1)
    /\ considered \subseteq TrialMails
    /\ failures \in 0..MaxFailures
    /\ copies \in [Mails -> Nat]
    /\ unmarked \subseteq Mails
    /\ overlapped \subseteq Mails

Init ==
    /\ receipt = [m \in Mails |-> [status |-> "absent", attempts |-> 0]]
    /\ inHand = {}
    /\ pending = [m \in Mails |-> 0]
    /\ retries = [m \in Mails |-> 0]
    /\ delivery = [w \in Workers |-> Idle]
    /\ trialing = TrialMails
    /\ today = 1
    /\ considered = {}
    /\ failures = 0
    /\ copies = [m \in Mails |-> 0]
    /\ unmarked = {}
    /\ overlapped = {}

\* What most steps leave alone.
Calendar == <<trialing, today, considered>>
Queue == <<pending, retries>>
History == <<copies, unmarked, overlapped>>

Failure ==
    /\ failures < MaxFailures
    /\ failures' = failures + 1

---------------------------------------------------------------------------
(* Asking for a message.                                                   *)

\* Mutant: a reservation nobody acted on is not taken over.
ReservableUnlessReserved(m) ==
    \/ receipt[m].status = "absent"
    \/ receipt[m].status = "failed" /\ receipt[m].attempts < MAX_ATTEMPTS

\* Mutant: a message that went out may be asked for again.
ReservableAgain(m) ==
    \/ receipt[m].status \in {"absent", "reserved", "sent"}
    \/ receipt[m].status = "failed" /\ receipt[m].attempts < MAX_ATTEMPTS

\* reserve: a new receipt, one abandoned while reserved, or one that failed
\* with attempts left.  The next run comes a day after the one that reserved,
\* which is always longer than STALE_RESERVATION_MINUTES.
Reservable(m) ==
    \/ receipt[m].status \in {"absent", "reserved"}
    \/ receipt[m].status = "failed" /\ receipt[m].attempts < MAX_ATTEMPTS

Reserve(m) ==
    /\ receipt' = [receipt EXCEPT ![m].status = "reserved"]
    /\ inHand' = inHand \cup {m}

\* The Stripe webhook commits the new state of the subscription and the receipt
\* of its message together.  An event delivered again is a duplicate by then,
\* and reserves nothing.
StripeEvent(m) ==
    /\ receipt[m].status = "absent"
    /\ Reserve(m)
    /\ UNCHANGED <<Queue, delivery, Calendar, failures, History>>

\* The daily run gets to one trial that ends soon.
WarnTrial(m) ==
    /\ today <= WarningDays
    /\ m \in trialing \ considered
    /\ considered' = considered \cup {m}
    /\ \/ Reservable(m) /\ Reserve(m)
       \/ ~Reservable(m) /\ UNCHANGED <<receipt, inHand>>
    /\ UNCHANGED <<Queue, delivery, trialing, today, failures, History>>

\* The job goes into the queue under the receipt's own id, with its retries.
Enqueue(m) ==
    /\ m \in inHand
    /\ inHand' = inHand \ {m}
    /\ pending' = [pending EXCEPT ![m] = @ + 1]
    /\ retries' = [retries EXCEPT ![m] = MaxRetries]
    /\ UNCHANGED <<receipt, delivery, Calendar, failures, History>>

\* Redis is away (the exception is logged), or the process dies first.
LoseEnqueue(m) ==
    /\ m \in inHand
    /\ Failure
    /\ inHand' = inHand \ {m}
    /\ UNCHANGED <<receipt, Queue, delivery, Calendar, History>>

\* The customer pays, or the subscription changes otherwise.
LeaveTrial(m) ==
    /\ m \in trialing
    /\ trialing' = trialing \ {m}
    /\ UNCHANGED <<receipt, inHand, Queue, delivery, today, considered, failures, History>>

\* The day's run never happened, or died before it got to the rest.
MissRun ==
    /\ today <= WarningDays
    /\ trialing \ considered # {}
    /\ Failure
    /\ considered' = trialing
    /\ UNCHANGED <<receipt, inHand, Queue, delivery, trialing, today, History>>

NewDay ==
    /\ today <= WarningDays
    /\ trialing \subseteq considered
    /\ inHand \cap TrialMails = {}
    /\ today' = today + 1
    /\ considered' = {}
    /\ UNCHANGED <<receipt, inHand, Queue, delivery, trialing, failures, History>>

---------------------------------------------------------------------------
(* Delivering it.                                                          *)

\* Mutant: deliver does not ask whether it went out already.
AlreadySentUnchecked(m) == FALSE

AlreadySent(m) == receipt[m].status = "sent"

\* A worker takes the job and loads the receipt; one that went out ends it.
Begin(w, m) ==
    /\ delivery[w] = Idle
    /\ pending[m] > 0
    /\ pending' = [pending EXCEPT ![m] = @ - 1]
    /\ delivery' = [delivery EXCEPT ![w] =
         IF AlreadySent(m) THEN Idle
         ELSE [mail |-> m, status |-> receipt[m].status,
               attempts |-> receipt[m].attempts, outcome |-> "none"]]
    /\ overlapped' = IF \E v \in Workers : delivery[v].mail = m
                     THEN overlapped \cup {m} ELSE overlapped
    /\ UNCHANGED <<receipt, inHand, retries, Calendar, failures, copies, unmarked>>

\* The provider accepts it, refuses it for good (as when there is no address to
\* send to), or the call raises: it may have been accepted all the same.
Send(w) ==
    LET m == delivery[w].mail IN
    /\ m # NoMail
    /\ delivery[w].outcome = "none"
    /\ \E outcome \in {"accepted", "raised", "rejected"} :
         /\ delivery' = [delivery EXCEPT ![w].outcome = outcome]
         /\ \/ /\ outcome \in {"accepted", "raised"}
               /\ copies' = [copies EXCEPT ![m] = @ + 1]
               /\ unmarked' = IF outcome = "raised" THEN unmarked \cup {m} ELSE unmarked
            \/ outcome # "accepted" /\ UNCHANGED <<copies, unmarked>>
    /\ UNCHANGED <<receipt, inHand, Queue, Calendar, failures, overlapped>>

\* The status deliver gives the receipt it loaded.
StatusAfter(d) ==
    CASE d.outcome = "accepted" -> "sent"
      [] d.outcome = "rejected" -> "failed"
      [] d.outcome = "raised" /\ d.attempts + 1 >= MAX_ATTEMPTS -> "failed"
      [] OTHER -> "reserved"

\* What came of it is committed: a status equal to the one loaded is not
\* written.  A receipt left reserved makes the job raise, and RQ queues it
\* again while it has retries.
Mark(w) ==
    LET d == delivery[w]
        m == d.mail
        again == StatusAfter(d) = "reserved" /\ retries[m] > 0
    IN
    /\ d.outcome # "none"
    /\ receipt' = [receipt EXCEPT ![m] =
         [status |-> IF StatusAfter(d) = d.status THEN @.status ELSE StatusAfter(d),
          attempts |-> d.attempts + 1]]
    /\ delivery' = [delivery EXCEPT ![w] = Idle]
    /\ pending' = IF again THEN [pending EXCEPT ![m] = @ + 1] ELSE pending
    /\ retries' = IF again THEN [retries EXCEPT ![m] = @ - 1] ELSE retries
    /\ UNCHANGED <<inHand, Calendar, failures, History>>

\* The worker process dies.  RQ may find the job abandoned and retry it.
CrashWorker(w) ==
    LET m == delivery[w].mail IN
    /\ m # NoMail
    /\ Failure
    /\ delivery' = [delivery EXCEPT ![w] = Idle]
    /\ unmarked' = IF delivery[w].outcome = "accepted"
                   THEN unmarked \cup {m} ELSE unmarked
    /\ \/ /\ retries[m] > 0
          /\ retries' = [retries EXCEPT ![m] = @ - 1]
          /\ pending' = [pending EXCEPT ![m] = @ + 1]
       \/ UNCHANGED Queue
    /\ UNCHANGED <<receipt, inHand, Calendar, copies, overlapped>>

Next ==
    \/ \E m \in EventMails : StripeEvent(m)
    \/ \E m \in TrialMails : WarnTrial(m) \/ LeaveTrial(m)
    \/ MissRun
    \/ NewDay
    \/ \E m \in Mails : Enqueue(m) \/ LoseEnqueue(m)
    \/ \E w \in Workers, m \in Mails : Begin(w, m)
    \/ \E w \in Workers : Send(w) \/ Mark(w) \/ CrashWorker(w)

Spec == Init /\ [][Next]_vars

\* The cron fires every day and its run reaches every trial; the process that
\* reserved goes on to queue the job; workers are restarted, take jobs in
\* order, and finish them (the job's timeout and the mailer's bound the call).
Fairness ==
    /\ WF_vars(NewDay)
    /\ \A m \in TrialMails : WF_vars(WarnTrial(m))
    /\ \A m \in Mails : WF_vars(Enqueue(m)) /\ WF_vars(\E w \in Workers : Begin(w, m))
    /\ \A w \in Workers : WF_vars(Send(w)) /\ WF_vars(Mark(w))

FairSpec == Spec /\ Fairness

---------------------------------------------------------------------------
(* Properties.                                                             *)

\* notifications.py promises one message, and a second only in the window
\* between the provider accepting it and the mark.  A receipt is sent twice
\* only if a message was accepted and never recorded, or if two workers carried
\* the receipt at once; no order of runs, retries, reclaimed reservations and
\* jobs queued twice does it otherwise.
SecondCopyExplained ==
    \A m \in Mails : copies[m] > 1 => m \in unmarked \cup overlapped

\* A receipt that says sent goes on saying so, whatever stale outcome arrives
\* later, unless two workers carried it at once.
SentStays ==
    [][\A m \in Mails : receipt[m].status = "sent" =>
         receipt'[m].status = "sent" \/ m \in overlapped]_vars

\* Why they hold.  A receipt that two workers never carried has one worker at a
\* time, and is not sent while it is carried; and a copy of it that went out is
\* recorded, or held by that worker.
CarriedAlone ==
    \A w \in Workers :
        delivery[w].mail \in Mails \ overlapped =>
            /\ receipt[delivery[w].mail].status # "sent"
            /\ \A v \in Workers : delivery[v].mail = delivery[w].mail => v = w

CopyRecorded ==
    \A m \in Mails \ (unmarked \cup overlapped) :
        copies[m] > 0 =>
            /\ copies[m] = 1
            /\ \/ receipt[m].status = "sent"
               \/ \E w \in Workers : delivery[w].mail = m /\ delivery[w].outcome = "accepted"

IInv == TypeOK /\ CarriedAlone /\ CopyRecorded

Settled(m) == receipt[m].status \in {"sent", "failed"}

\* Fewer failures than warning days cannot silence a trial's warning: while the
\* trial runs, some run finds the reservation left behind and gets it sent, or
\* recorded as failed.  (Two workers carrying it at once can: one attempt of
\* theirs is not counted, and the retries they share run out first.)
TrialWarningSettles ==
    \A m \in TrialMails : <>(Settled(m) \/ m \notin trialing \/ m \in overlapped)

=============================================================================
