------------------------- MODULE NotificationsProofs -------------------------
(***************************************************************************)
(* Proofs about Notifications, for any set of receipts and workers and any  *)
(* number of retries, failures and warning days: the type invariant, that a *)
(* second copy is always explained, and that a receipt stays sent.          *)
(***************************************************************************)
EXTENDS Notifications, TLAPS

\* The worker that carries nothing is well typed.
LEMMA IdleIsTyped ==
    Idle \in [mail: Mails \cup {NoMail}, status: {"absent", "reserved", "failed"},
              attempts: Nat, outcome: {"none", "accepted", "raised", "rejected"}]
  BY DEF Idle

\* deliver writes one of three statuses ...
LEMMA StatusAfterTyped ==
    \A d : StatusAfter(d) \in {"sent", "failed", "reserved"}
  BY DEF StatusAfter

\* ... and sent when the provider accepted the message.
LEMMA AcceptedIsSent ==
    \A d : d.outcome = "accepted" => StatusAfter(d) = "sent"
  BY DEF StatusAfter

\* Initially nothing was asked for and nobody carries anything.
LEMMA InitIInv == Init => IInv
  <1> SUFFICES ASSUME Init PROVE IInv
    OBVIOUS
  <1> USE NotificationsAssumption DEF Init
  <1>1. TypeOK
    BY IdleIsTyped DEF TypeOK
  <1>2. CarriedAlone
    BY DEF CarriedAlone, Idle
  <1>3. CopyRecorded
    BY DEF CopyRecorded
  <1>4. QED
    BY <1>1, <1>2, <1>3 DEF IInv

\* Every action keeps the types.
LEMMA TypeStep == TypeOK /\ [Next]_vars => TypeOK'
  <1> SUFFICES ASSUME TypeOK, [Next]_vars PROVE TypeOK'
    OBVIOUS
  <1> USE NotificationsAssumption DEF TypeOK
  <1>1. CASE UNCHANGED vars
    BY <1>1 DEF vars
  <1>2. ASSUME NEW m \in EventMails, StripeEvent(m) PROVE TypeOK'
    BY <1>2 DEF StripeEvent, Reserve, Queue, Calendar, History, Mails
  <1>3. ASSUME NEW m \in TrialMails, WarnTrial(m) PROVE TypeOK'
    <2>1. m \in Mails
      BY DEF Mails
    <2>2. CASE Reserve(m)
      BY <1>3, <2>1, <2>2 DEF WarnTrial, Reserve, Queue, History
    <2>3. CASE UNCHANGED <<receipt, inHand>>
      BY <1>3, <2>1, <2>3 DEF WarnTrial, Queue, History
    <2>4. QED
      BY <1>3, <2>2, <2>3 DEF WarnTrial
  <1>4. ASSUME NEW m \in TrialMails, LeaveTrial(m) PROVE TypeOK'
    BY <1>4 DEF LeaveTrial, Queue, History
  <1>5. CASE MissRun
    BY <1>5 DEF MissRun, Failure, Queue, History
  <1>6. CASE NewDay
    BY <1>6 DEF NewDay, Queue, History
  <1>7. ASSUME NEW m \in Mails, Enqueue(m) PROVE TypeOK'
    BY <1>7 DEF Enqueue, Calendar, History
  <1>8. ASSUME NEW m \in Mails, LoseEnqueue(m) PROVE TypeOK'
    BY <1>8 DEF LoseEnqueue, Failure, Queue, Calendar, History
  <1>9. ASSUME NEW w \in Workers, NEW m \in Mails, Begin(w, m) PROVE TypeOK'
    <2>1. pending' \in [Mails -> Nat]
      BY <1>9 DEF Begin
    <2>2. delivery' \in [Workers ->
            [mail: Mails \cup {NoMail}, status: {"absent", "reserved", "failed"},
             attempts: Nat, outcome: {"none", "accepted", "raised", "rejected"}]]
      BY <1>9, IdleIsTyped DEF Begin, AlreadySent
    <2>3. overlapped' \subseteq Mails
      BY <1>9 DEF Begin
    <2>4. QED
      BY <1>9, <2>1, <2>2, <2>3 DEF Begin, Calendar
  <1>10. ASSUME NEW w \in Workers, Send(w) PROVE TypeOK'
    <2> DEFINE m == delivery[w].mail
    <2>1. m \in Mails
      BY <1>10 DEF Send
    <2>2. PICK outcome \in {"accepted", "raised", "rejected"} :
            /\ delivery' = [delivery EXCEPT ![w].outcome = outcome]
            /\ \/ /\ copies' = [copies EXCEPT ![m] = @ + 1]
                  /\ unmarked' = IF outcome = "raised" THEN unmarked \cup {m} ELSE unmarked
               \/ UNCHANGED <<copies, unmarked>>
      BY <1>10 DEF Send
    <2>3. delivery' \in [Workers ->
            [mail: Mails \cup {NoMail}, status: {"absent", "reserved", "failed"},
             attempts: Nat, outcome: {"none", "accepted", "raised", "rejected"}]]
      BY <2>2
    <2>4. copies' \in [Mails -> Nat] /\ unmarked' \subseteq Mails
      BY <2>1, <2>2
    <2>5. QED
      BY <1>10, <2>3, <2>4 DEF Send, Queue, Calendar
  <1>11. ASSUME NEW w \in Workers, Mark(w) PROVE TypeOK'
    <2> DEFINE m == delivery[w].mail
    <2>1. CASE m \notin Mails
      \* Nobody's mail: a write outside a function's domain changes nothing.
      <3>1. receipt' = receipt /\ pending' = pending /\ retries' = retries
        BY <1>11, <2>1 DEF Mark
      <3>2. delivery' \in [Workers ->
            [mail: Mails \cup {NoMail}, status: {"absent", "reserved", "failed"},
             attempts: Nat, outcome: {"none", "accepted", "raised", "rejected"}]]
        BY <1>11, IdleIsTyped DEF Mark
      <3>3. QED
        BY <1>11, <3>1, <3>2 DEF Mark, Calendar, History
    <2>2. CASE m \in Mails
      <3>1. receipt' \in [Mails ->
              [status: {"absent", "reserved", "failed", "sent"}, attempts: Nat]]
        <4> DEFINE written == IF StatusAfter(delivery[w]) = delivery[w].status
                              THEN receipt[m].status ELSE StatusAfter(delivery[w])
        <4>1. written \in {"absent", "reserved", "failed", "sent"}
          BY <2>2, StatusAfterTyped
        <4>2. delivery[w].attempts + 1 \in Nat
          OBVIOUS
        <4>3. receipt' = [receipt EXCEPT ![m] =
                            [status |-> written, attempts |-> delivery[w].attempts + 1]]
          BY <1>11, <2>2 DEF Mark
        <4> HIDE DEF written
        <4>4. QED
          BY <4>1, <4>2, <4>3
      <3>2. delivery' \in [Workers ->
            [mail: Mails \cup {NoMail}, status: {"absent", "reserved", "failed"},
             attempts: Nat, outcome: {"none", "accepted", "raised", "rejected"}]]
        BY <1>11, IdleIsTyped DEF Mark
      <3>3. pending' \in [Mails -> Nat] /\ retries' \in [Mails -> 0..MaxRetries]
        <4>1. CASE retries[m] > 0
          <5>1. retries[m] - 1 \in 0..MaxRetries /\ pending[m] + 1 \in Nat
            BY <2>2, <4>1
          <5>2. QED
            BY <1>11, <2>2, <5>1 DEF Mark
        <4>2. CASE ~(retries[m] > 0)
          BY <1>11, <2>2, <4>2 DEF Mark
        <4>3. QED
          BY <4>1, <4>2
      <3>4. QED
        BY <1>11, <3>1, <3>2, <3>3 DEF Mark, Calendar, History
    <2>3. QED
      BY <2>1, <2>2
  <1>12. ASSUME NEW w \in Workers, CrashWorker(w) PROVE TypeOK'
    <2> DEFINE m == delivery[w].mail
    <2>1. m \in Mails
      BY <1>12 DEF CrashWorker
    <2>2. delivery' \in [Workers ->
            [mail: Mails \cup {NoMail}, status: {"absent", "reserved", "failed"},
             attempts: Nat, outcome: {"none", "accepted", "raised", "rejected"}]]
      BY <1>12, IdleIsTyped DEF CrashWorker
    <2>3. pending' \in [Mails -> Nat] /\ retries' \in [Mails -> 0..MaxRetries]
      <3>1. CASE /\ retries[m] > 0
                 /\ retries' = [retries EXCEPT ![m] = @ - 1]
                 /\ pending' = [pending EXCEPT ![m] = @ + 1]
        <4>1. retries[m] \in 0..MaxRetries /\ pending[m] \in Nat
          BY <2>1
        <4>2. QED
          BY <2>1, <3>1, <4>1
      <3>2. CASE UNCHANGED Queue
        BY <3>2 DEF Queue
      <3>3. QED
        BY <1>12, <3>1, <3>2 DEF CrashWorker
    <2>4. unmarked' \subseteq Mails /\ failures' \in 0..MaxFailures
      BY <1>12, <2>1 DEF CrashWorker, Failure
    <2>5. QED
      BY <1>12, <2>2, <2>3, <2>4 DEF CrashWorker, Calendar
  <1>13. QED
    BY <1>1, <1>2, <1>3, <1>4, <1>5, <1>6, <1>7, <1>8, <1>9, <1>10, <1>11, <1>12
       DEF Next

\* A step that neither carries a message nor touches one that is carried: what
\* the workers hold is the same, and a status changes only from one that is not
\* sent to another that is not.
Asking ==
    /\ UNCHANGED <<delivery, copies, unmarked, overlapped>>
    /\ \A m \in Mails : receipt'[m].status = "sent" <=> receipt[m].status = "sent"

\* Whatever asks for messages, or loses one, is such a step.
LEMMA AskingSteps ==
    ASSUME TypeOK, Next,
           \A w \in Workers, m \in Mails : ~Begin(w, m),
           \A w \in Workers : ~Send(w) /\ ~Mark(w) /\ ~CrashWorker(w)
    PROVE  Asking
  <1> USE DEF Asking, TypeOK
  <1>1. ASSUME NEW m \in Mails, receipt[m].status # "sent", Reserve(m)
        PROVE  \A n \in Mails : receipt'[n].status = "sent" <=> receipt[n].status = "sent"
    BY <1>1 DEF Reserve
  <1>2. ASSUME NEW m \in EventMails, StripeEvent(m) PROVE Asking
    BY <1>1, <1>2 DEF StripeEvent, History, Mails
  <1>3. ASSUME NEW m \in TrialMails, WarnTrial(m) PROVE Asking
    <2>1. m \in Mails
      BY DEF Mails
    <2>2. CASE Reservable(m) /\ Reserve(m)
      <3>1. receipt[m].status # "sent"
        BY <2>2 DEF Reservable
      <3>2. QED
        BY <1>1, <1>3, <2>1, <2>2, <3>1 DEF WarnTrial, History
    <2>3. CASE UNCHANGED <<receipt, inHand>>
      BY <1>3, <2>3 DEF WarnTrial, History
    <2>4. QED
      BY <1>3, <2>2, <2>3 DEF WarnTrial
  <1>4. ASSUME NEW m \in TrialMails, LeaveTrial(m) PROVE Asking
    BY <1>4 DEF LeaveTrial, History
  <1>5. CASE MissRun
    BY <1>5 DEF MissRun, History
  <1>6. CASE NewDay
    BY <1>6 DEF NewDay, History
  <1>7. ASSUME NEW m \in Mails, Enqueue(m) PROVE Asking
    BY <1>7 DEF Enqueue, History
  <1>8. ASSUME NEW m \in Mails, LoseEnqueue(m) PROVE Asking
    BY <1>8 DEF LoseEnqueue, History
  <1>9. QED
    BY <1>2, <1>3, <1>4, <1>5, <1>6, <1>7, <1>8 DEF Next

\* Such a step keeps both parts of the invariant.
LEMMA AskingKeeps ==
    ASSUME TypeOK, CarriedAlone, CopyRecorded, Asking
    PROVE  CarriedAlone' /\ CopyRecorded'
  <1>1. CarriedAlone'
    BY DEF Asking, CarriedAlone
  <1>2. \A m \in Mails : copies'[m] = copies[m]
    BY DEF Asking
  <1>3. CopyRecorded'
    BY <1>2 DEF Asking, CopyRecorded
  <1>4. QED
    BY <1>1, <1>3

\* A worker takes a job: it is alone with the receipt or the receipt is
\* overlapped, and nothing is sent yet.
LEMMA BeginKeeps ==
    ASSUME TypeOK, CarriedAlone, CopyRecorded,
           NEW w \in Workers, NEW m \in Mails, Begin(w, m)
    PROVE  CarriedAlone' /\ CopyRecorded'
  <1> USE NotificationsAssumption DEF TypeOK
  <1>1. UNCHANGED <<receipt, copies, unmarked>> /\ overlapped \subseteq overlapped'
    BY DEF Begin
  <1>2. delivery[w] = Idle /\ Idle.mail = NoMail /\ Idle.outcome = "none"
    BY DEF Begin, Idle
  <1>3. \A v \in Workers : v # w => delivery'[v] = delivery[v]
    BY DEF Begin
  <1>4. CASE AlreadySent(m)
    <2>1. delivery' = delivery
      BY <1>2, <1>4 DEF Begin
    <2>2. CarriedAlone'
      BY <1>1, <2>1 DEF CarriedAlone
    <2>3. CopyRecorded'
      BY <1>1, <2>1 DEF CopyRecorded
    <2>4. QED
      BY <2>2, <2>3
  <1>5. CASE ~AlreadySent(m)
    <2>1. delivery'[w].mail = m /\ delivery'[w].outcome = "none"
      BY <1>5 DEF Begin
    <2>2. receipt[m].status # "sent"
      BY <1>5 DEF AlreadySent
    <2>3. m \notin overlapped' => \A v \in Workers : delivery[v].mail # m
      BY DEF Begin
    <2>4. CarriedAlone'
      BY <1>1, <1>3, <2>1, <2>2, <2>3 DEF CarriedAlone
    <2>5. CopyRecorded'
      <3> SUFFICES ASSUME NEW n \in Mails, n \notin unmarked, n \notin overlapped,
                          copies[n] > 0
                   PROVE  /\ copies[n] = 1
                          /\ \/ receipt[n].status = "sent"
                             \/ \E v \in Workers : /\ delivery'[v].mail = n
                                                  /\ delivery'[v].outcome = "accepted"
        BY <1>1 DEF CopyRecorded
      <3>1. CASE receipt[n].status = "sent"
        BY <3>1 DEF CopyRecorded
      <3>2. CASE \E v \in Workers : delivery[v].mail = n /\ delivery[v].outcome = "accepted"
        <4>1. PICK v \in Workers : delivery[v].mail = n /\ delivery[v].outcome = "accepted"
          BY <3>2
        <4>2. v # w
          BY <1>2, <4>1
        <4>3. QED
          BY <1>3, <4>1, <4>2 DEF CopyRecorded
      <3>3. QED
        BY <3>1, <3>2 DEF CopyRecorded
    <2>6. QED
      BY <2>4, <2>5
  <1>6. QED
    BY <1>4, <1>5

\* A receipt carried by one worker, which nothing accepted yet, has no copy out.
LEMMA NoneOutYet ==
    ASSUME TypeOK, CarriedAlone, CopyRecorded, NEW w \in Workers,
           delivery[w].mail \in Mails \ (unmarked \cup overlapped),
           delivery[w].outcome # "accepted"
    PROVE  copies[delivery[w].mail] = 0
  <1> DEFINE m == delivery[w].mail
  <1>1. receipt[m].status # "sent"
    BY DEF CarriedAlone
  <1>2. ~\E v \in Workers : delivery[v].mail = m /\ delivery[v].outcome = "accepted"
    BY DEF CarriedAlone
  <1>3. ~(copies[m] > 0)
    BY <1>1, <1>2 DEF CopyRecorded
  <1>4. QED
    BY <1>3 DEF TypeOK

\* The provider is called: the one copy is held by the worker that knows it, or
\* the receipt counts as unmarked.
LEMMA SendKeeps ==
    ASSUME TypeOK, CarriedAlone, CopyRecorded, NEW w \in Workers, Send(w)
    PROVE  CarriedAlone' /\ CopyRecorded'
  <1> USE NotificationsAssumption DEF TypeOK
  <1> DEFINE m == delivery[w].mail
  <1>1. m \in Mails /\ delivery[w].outcome = "none"
    BY DEF Send
  <1>2. UNCHANGED <<receipt, overlapped>>
    BY DEF Send
  <1>3. PICK outcome \in {"accepted", "raised", "rejected"} :
          /\ delivery' = [delivery EXCEPT ![w].outcome = outcome]
          /\ \/ /\ copies' = [copies EXCEPT ![m] = @ + 1]
                /\ outcome \in {"accepted", "raised"}
                /\ unmarked' = IF outcome = "raised" THEN unmarked \cup {m} ELSE unmarked
             \/ outcome # "accepted" /\ UNCHANGED <<copies, unmarked>>
    BY DEF Send
  <1>4. /\ \A v \in Workers : delivery'[v].mail = delivery[v].mail
        /\ \A v \in Workers : v # w => delivery'[v] = delivery[v]
        /\ delivery'[w].outcome = outcome
    BY <1>3
  <1>5. CarriedAlone'
    BY <1>2, <1>4 DEF CarriedAlone
  <1>6. CopyRecorded'
    <2> SUFFICES ASSUME NEW n \in Mails, n \notin unmarked', n \notin overlapped,
                        copies'[n] > 0
                 PROVE  /\ copies'[n] = 1
                        /\ \/ receipt[n].status = "sent"
                           \/ \E v \in Workers : /\ delivery'[v].mail = n
                                                /\ delivery'[v].outcome = "accepted"
      BY <1>2 DEF CopyRecorded
    <2>1. n \notin unmarked
      BY <1>3
    <2>2. CASE n = m
      <3>1. copies[m] = 0
        BY <1>1, <2>1, <2>2, NoneOutYet
      <3>2. copies'[m] = 1 /\ outcome = "accepted"
        BY <1>1, <1>3, <2>2, <3>1
      <3>3. QED
        BY <1>4, <2>2, <3>2
    <2>3. CASE n # m
      <3>1. copies'[n] = copies[n]
        BY <1>3, <2>3
      <3>2. CASE receipt[n].status = "sent"
        BY <2>1, <3>1, <3>2 DEF CopyRecorded
      <3>3. CASE \E v \in Workers : delivery[v].mail = n /\ delivery[v].outcome = "accepted"
        <4>1. PICK v \in Workers : delivery[v].mail = n /\ delivery[v].outcome = "accepted"
          BY <3>3
        <4>2. v # w
          BY <2>3, <4>1
        <4>3. QED
          BY <1>4, <2>1, <3>1, <4>1, <4>2 DEF CopyRecorded
      <3>4. QED
        BY <2>1, <3>1, <3>2, <3>3 DEF CopyRecorded
    <2>4. QED
      BY <2>2, <2>3
  <1>7. QED
    BY <1>5, <1>6

\* What came of it is committed: an accepted message is recorded, and a receipt
\* that was sent is not touched unless it is overlapped.
LEMMA MarkKeeps ==
    ASSUME TypeOK, CarriedAlone, CopyRecorded, NEW w \in Workers, Mark(w)
    PROVE  /\ CarriedAlone' /\ CopyRecorded'
           /\ \A n \in Mails : receipt[n].status = "sent" /\ n \notin overlapped
                                  => receipt'[n].status = "sent"
  <1> USE NotificationsAssumption DEF TypeOK
  <1> DEFINE m == delivery[w].mail
  <1>1. /\ UNCHANGED <<copies, unmarked, overlapped>>
        /\ delivery'[w].mail = NoMail /\ delivery'[w].outcome = "none"
        /\ \A v \in Workers : v # w => delivery'[v] = delivery[v]
    BY DEF Mark, History, Idle
  <1>2. \A n \in Mails : n # m => receipt'[n] = receipt[n]
    BY DEF Mark
  <1>3. m \in Mails /\ delivery[w].outcome = "accepted" => receipt'[m].status = "sent"
    <2> SUFFICES ASSUME m \in Mails, delivery[w].outcome = "accepted"
                 PROVE  receipt'[m].status = "sent"
      OBVIOUS
    <2>1. StatusAfter(delivery[w]) = "sent"
      BY AcceptedIsSent
    <2>2. delivery[w].status # "sent"
      OBVIOUS
    <2>3. QED
      BY <2>1, <2>2 DEF Mark
  <1>4. CarriedAlone'
    <2> SUFFICES ASSUME NEW v \in Workers, delivery'[v].mail \in Mails, delivery'[v].mail \notin overlapped
                 PROVE  /\ receipt'[delivery'[v].mail].status # "sent"
                        /\ \A u \in Workers : delivery'[u].mail = delivery'[v].mail => u = v
      BY <1>1 DEF CarriedAlone
    <2>1. v # w /\ delivery'[v] = delivery[v]
      BY <1>1
    <2>2. delivery[v].mail # m
      BY <2>1 DEF CarriedAlone
    <2>3. receipt'[delivery[v].mail].status # "sent"
      BY <1>2, <2>1, <2>2 DEF CarriedAlone
    <2>4. ASSUME NEW u \in Workers, delivery'[u].mail = delivery'[v].mail PROVE u = v
      <3>1. u # w
        BY <1>1, <2>4
      <3>2. QED
        BY <1>1, <2>1, <2>4, <3>1 DEF CarriedAlone
    <2>5. QED
      BY <2>1, <2>3, <2>4
  <1>5. CopyRecorded'
    <2> SUFFICES ASSUME NEW n \in Mails, n \notin unmarked, n \notin overlapped,
                        copies[n] > 0
                 PROVE  /\ copies[n] = 1
                        /\ \/ receipt'[n].status = "sent"
                           \/ \E v \in Workers : /\ delivery'[v].mail = n
                                                /\ delivery'[v].outcome = "accepted"
      BY <1>1 DEF CopyRecorded
    <2>1. CASE n = m
      <3>1. delivery[w].outcome = "accepted"
        BY <2>1, NoneOutYet
      <3>2. QED
        BY <1>3, <2>1, <3>1 DEF CopyRecorded
    <2>2. CASE n # m
      <3>1. CASE receipt[n].status = "sent"
        BY <1>2, <2>2, <3>1 DEF CopyRecorded
      <3>2. CASE \E v \in Workers : delivery[v].mail = n /\ delivery[v].outcome = "accepted"
        BY <1>1, <2>2, <3>2 DEF CopyRecorded
      <3>3. QED
        BY <3>1, <3>2 DEF CopyRecorded
    <2>3. QED
      BY <2>1, <2>2
  <1>6. ASSUME NEW n \in Mails, receipt[n].status = "sent", n \notin overlapped
        PROVE  receipt'[n].status = "sent"
    <2>1. n # m
      BY <1>6 DEF CarriedAlone
    <2>2. QED
      BY <1>2, <1>6, <2>1
  <1>7. QED
    BY <1>4, <1>5, <1>6

\* A worker dies: what it had sent counts as unmarked, and it carries nothing.
LEMMA CrashKeeps ==
    ASSUME TypeOK, CarriedAlone, CopyRecorded, NEW w \in Workers, CrashWorker(w)
    PROVE  CarriedAlone' /\ CopyRecorded'
  <1> USE NotificationsAssumption DEF TypeOK
  <1> DEFINE m == delivery[w].mail
  <1>1. /\ UNCHANGED <<receipt, copies, overlapped>>
        /\ delivery'[w].mail = NoMail
        /\ \A v \in Workers : v # w => delivery'[v] = delivery[v]
        /\ unmarked \subseteq unmarked'
        /\ delivery[w].outcome = "accepted" => m \in unmarked'
    BY DEF CrashWorker, Idle
  <1>2. CarriedAlone'
    BY <1>1 DEF CarriedAlone
  <1>3. CopyRecorded'
    <2> SUFFICES ASSUME NEW n \in Mails, n \notin unmarked', n \notin overlapped,
                        copies[n] > 0
                 PROVE  /\ copies[n] = 1
                        /\ \/ receipt[n].status = "sent"
                           \/ \E v \in Workers : /\ delivery'[v].mail = n
                                                /\ delivery'[v].outcome = "accepted"
      BY <1>1 DEF CopyRecorded
    <2>1. n \notin unmarked
      BY <1>1
    <2>2. CASE receipt[n].status = "sent"
      BY <2>1, <2>2 DEF CopyRecorded
    <2>3. CASE \E v \in Workers : delivery[v].mail = n /\ delivery[v].outcome = "accepted"
      <3>1. PICK v \in Workers : delivery[v].mail = n /\ delivery[v].outcome = "accepted"
        BY <2>3
      <3>2. v # w
        BY <1>1, <3>1
      <3>3. QED
        BY <1>1, <2>1, <3>1, <3>2 DEF CopyRecorded
    <2>4. QED
      BY <2>1, <2>2, <2>3 DEF CopyRecorded
  <1>4. QED
    BY <1>2, <1>3

\* The inductive step, and what a step does to a receipt that is sent.
LEMMA StepIInv ==
    ASSUME IInv, [Next]_vars
    PROVE  /\ IInv'
           /\ \A n \in Mails : receipt[n].status = "sent" /\ n \notin overlapped
                                  => receipt'[n].status = "sent"
  <1>1. TypeOK /\ CarriedAlone /\ CopyRecorded
    BY DEF IInv
  <1>2. TypeOK'
    BY <1>1, TypeStep
  <1>3. CASE UNCHANGED vars
    <2>1. CarriedAlone' /\ CopyRecorded'
      BY <1>1, <1>3, AskingKeeps DEF vars, Asking
    <2>2. QED
      BY <1>2, <1>3, <2>1 DEF IInv, vars
  <1>4. ASSUME NEW w \in Workers, NEW m \in Mails, Begin(w, m)
        PROVE  /\ CarriedAlone' /\ CopyRecorded'
               /\ UNCHANGED receipt
    <2>1. UNCHANGED receipt
      BY <1>4 DEF Begin
    <2>2. QED
      BY <1>1, <1>4, <2>1, BeginKeeps
  <1>5. ASSUME NEW w \in Workers, Send(w)
        PROVE  /\ CarriedAlone' /\ CopyRecorded'
               /\ UNCHANGED receipt
    <2>1. UNCHANGED receipt
      BY <1>5 DEF Send
    <2>2. QED
      BY <1>1, <1>5, <2>1, SendKeeps
  <1>6. ASSUME NEW w \in Workers, Mark(w)
        PROVE  /\ CarriedAlone' /\ CopyRecorded'
               /\ \A n \in Mails : receipt[n].status = "sent" /\ n \notin overlapped
                                      => receipt'[n].status = "sent"
    BY <1>1, <1>6, MarkKeeps
  <1>7. ASSUME NEW w \in Workers, CrashWorker(w)
        PROVE  /\ CarriedAlone' /\ CopyRecorded'
               /\ UNCHANGED receipt
    <2>1. UNCHANGED receipt
      BY <1>7 DEF CrashWorker
    <2>2. QED
      BY <1>1, <1>7, <2>1, CrashKeeps
  <1>8. CASE /\ Next
             /\ \A w \in Workers, m \in Mails : ~Begin(w, m)
             /\ \A w \in Workers : ~Send(w) /\ ~Mark(w) /\ ~CrashWorker(w)
    <2>1. Asking
      BY <1>1, <1>8, AskingSteps
    <2>2. CarriedAlone' /\ CopyRecorded'
      BY <1>1, <2>1, AskingKeeps
    <2>3. QED
      BY <1>2, <2>1, <2>2 DEF IInv, Asking
  <1>9. QED
    BY <1>2, <1>3, <1>4, <1>5, <1>6, <1>7, <1>8 DEF IInv

\* The inductive invariant: a receipt that two workers never carried has one
\* worker at a time and is not sent while carried, and its copy is recorded or held.
THEOREM OneCarrier == Spec => []IInv
  <1>1. IInv /\ [Next]_vars => IInv'
    BY StepIInv
  <1>2. QED
    BY <1>1, InitIInv, PTL DEF Spec

\* Type correctness for any set of receipts, workers, retries and warning days.
THEOREM TypeCorrect == Spec => []TypeOK
  <1>1. IInv => TypeOK
    BY DEF IInv
  <1>2. QED
    BY <1>1, OneCarrier, PTL

\* notifications.deliver: a second copy goes out only if an accepted message was
\* never recorded, or if two workers carried the receipt at once.
THEOREM SecondCopiesExplained == Spec => []SecondCopyExplained
  <1>1. IInv => SecondCopyExplained
    <2> SUFFICES ASSUME IInv, NEW m \in Mails, copies[m] > 1, m \notin unmarked \cup overlapped
                 PROVE  FALSE
      BY DEF SecondCopyExplained
    <2>1. copies[m] \in Nat
      BY DEF IInv, TypeOK
    <2>2. copies[m] = 1
      BY <2>1 DEF IInv, CopyRecorded
    <2>3. QED
      BY <2>2
  <1>2. QED
    BY <1>1, OneCarrier, PTL

\* notifications.deliver: a receipt that says sent goes on saying so, unless two
\* workers carried it at once.
THEOREM SentNeverUnsaid == Spec => SentStays
  <1>1. IInv /\ [Next]_vars =>
          [\A m \in Mails : receipt[m].status = "sent" =>
              receipt'[m].status = "sent" \/ m \in overlapped]_vars
    BY StepIInv
  <1>2. QED
    BY <1>1, OneCarrier, PTL DEF Spec, SentStays

=============================================================================
