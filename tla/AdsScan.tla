------------------------------ MODULE AdsScan ------------------------------
(***************************************************************************)
(* The advertising scan: tasks.run_ads_scan and _ppc_action_rows, the      *)
(* guardrails it consults and the read-mutate-read bracket of               *)
(* AdsClient.apply_negative_keyword, against an account other hands change  *)
(* too.                                                                     *)
(*                                                                         *)
(* A scan waits for its report, reads the policy and the day's count once,  *)
(* then works through its proposals one call to Amazon at a time, and       *)
(* commits every row together at the end.  An exception rolls the rows      *)
(* back; nothing rolls the account back.                                    *)
(***************************************************************************)
EXTENDS Guardrails, SearchTerms, FiniteSets

CONSTANTS
    Reports,        \* the payloads Amazon may answer with
    Places,         \* the ad groups' terms a scan may negate
    Handled,        \* bound: the places the seller's own hands reach
    Workers,        \* worker processes serving the integrations queue
    Keys,           \* idempotency records of the operation ads.scan
    ADS_WRITE_ENABLED,
    SomePolicies,   \* the guardrail settings the owner moves between
    MaxAttempts,    \* bound: reports asked for, and scans that got theirs
    LastDay,        \* bound: days the model runs for
    MaxRemovals     \* bound: negatives the seller removes again

ASSUME AdsScanAssumption ==
    /\ \A payload \in Reports : \A i \in DOMAIN payload :
         payload[i].spend % WINDOW_DAYS = 0      \* a day's share is exact
    /\ \A payload \in Reports :
         LET rows == parse_search_term_rows(payload) IN
         /\ DOMAIN rows = 1..Len(rows) /\ Len(rows) \in Nat
         /\ \A i \in DOMAIN rows :
              /\ rows[i].spend \in Nat
              /\ Actionable(rows, i) => Proposal(rows, i).place \in Places
    /\ ADS_WRITE_ENABLED \in BOOLEAN
    /\ SomePolicies \subseteq Policies
    /\ IsFiniteSet(Workers)
    /\ Handled \subseteq Places
    /\ MaxAttempts \in Nat /\ LastDay \in Nat /\ MaxRemovals \in Nat

VARIABLES
    policy,     \* the committed guardrail_policies row
    today,
    account,    \* places negated in the live advertising account
    ledger,     \* committed operator_actions rows with status applied
    record,     \* status of each idempotency record
    scan,       \* what each worker process holds in memory
    attempts,   \* history: scans that judged a report, which also numbers them
    overlap,    \* history: pairs of scans that judged at the same time
    life        \* history: how often each negative was taken out again

vars == <<policy, today, account, ledger, record, scan, attempts, overlap, life>>

Days == 0..LastDay
Lives == 0..MaxRemovals

\* A row the Operator applied, on a day (applied_at).  attempt and life, for the
\* properties, say which scan saw the change land and how often the negative had
\* been taken out of the account before.  The rows a scan leaves proposed are for a
\* person to decide on: nothing here reads them, and they are not kept.
Rows == [place: Places, day: Days, attempt: 1..MaxAttempts, life: Lives]

Idle == [phase |-> "idle"]
Reading == [phase : {"reading"}, key : Keys]
Parsed == {parse_search_term_rows(payload) : payload \in Reports}
Scans == [phase  : {"judging", "absent_before", "sent", "raised"},
          key    : Keys,
          attempt: 1..MaxAttempts,
          policy : SomePolicies,
          before : Nat,             \* applied_today, as read at the start
          rows   : Parsed,          \* the report
          wrote  : SUBSET Places,   \* history: negatives this scan put in place
          todo   : Seq([place : Places, projected_impact : Nat, spend_per_day : Nat]),
          opened : SUBSET Rows]     \* flushed rows, not yet committed

TypeOK ==
    /\ policy \in SomePolicies
    /\ today \in Days
    /\ account \subseteq Places
    /\ ledger \subseteq Rows
    /\ record \in [Keys -> {"absent", "processing", "failed", "completed"}]
    /\ scan \in [Workers -> Scans \cup Reading \cup {Idle}]
    /\ attempts \in 0..MaxAttempts
    /\ overlap \subseteq SUBSET (1..MaxAttempts)
    /\ life \in [Places -> Lives]

Init ==
    /\ policy \in SomePolicies
    /\ today = 0
    /\ account = {}
    /\ ledger = {}
    /\ record = [k \in Keys |-> "absent"]
    /\ scan = [w \in Workers |-> Idle]
    /\ attempts = 0
    /\ overlap = {}
    /\ life = [p \in Places |-> 0]

Running == {w \in Workers : scan[w] # Idle}
Judging == {w \in Workers : scan[w] \notin Reading \cup {Idle}}
AppliedOn(rows, d) == Cardinality({row \in rows : row.day = d})
AppliedByOperator(w, p) ==
    [place |-> p, day |-> today, attempt |-> scan[w].attempt, life |-> life[p]]

---------------------------------------------------------------------------
(* The world around the scan.                                              *)

UpdateGuardrails(p) ==
    /\ policy' = p
    /\ UNCHANGED <<today, account, ledger, record, scan, attempts, overlap, life>>

NewDay ==
    /\ today < LastDay
    /\ today' = today + 1
    /\ UNCHANGED <<policy, account, ledger, record, scan, attempts, overlap, life>>

\* The seller, or their agency, negates a term or takes a negative out again.
SellerAdds(p) ==
    /\ account' = account \cup {p}
    /\ UNCHANGED <<policy, today, ledger, record, scan, attempts, overlap, life>>

SellerRemoves(p) ==
    /\ p \in account
    /\ \A q \in Places : life[q] < MaxRemovals
    /\ account' = account \ {p}
    /\ life' = [life EXCEPT ![p] = @ + 1]
    /\ UNCHANGED <<policy, today, ledger, record, scan, attempts, overlap>>

\* POST /api/ppc/scan: a new key, or one whose scan failed, is claimed and
\* queued.
RequestScan(k) ==
    /\ record[k] \in {"absent", "failed"}
    /\ record' = [record EXCEPT ![k] = "processing"]
    /\ UNCHANGED <<policy, today, account, ledger, scan, attempts, overlap, life>>

---------------------------------------------------------------------------
(* One scan.                                                               *)

\* A worker picks the job up: the first delivery, RQ's retry of a failed one,
\* or a second delivery of a key claimed again while the first still runs.  It
\* asks for a report and polls for up to a quarter of an hour.
StartScan(w, k) ==
    /\ scan[w] = Idle
    /\ record[k] \in {"processing", "failed"}
    /\ attempts + Cardinality({v \in Running : scan[v].phase = "reading"}) < MaxAttempts
    /\ scan' = [scan EXCEPT ![w] = [phase |-> "reading", key |-> k]]
    /\ UNCHANGED <<policy, today, account, ledger, record, attempts, overlap, life>>

\* A report with no rows completes the record and opens nothing.
EmptyReport(w) ==
    /\ scan[w].phase = "reading"
    /\ \E payload \in Reports : parse_search_term_rows(payload) = <<>>
    /\ record' = [record EXCEPT ![scan[w].key] = "completed"]
    /\ scan' = [scan EXCEPT ![w] = Idle]
    /\ UNCHANGED <<policy, today, account, ledger, attempts, overlap, life>>

\* The report is in: the engine judges it, and only then are the policy and the
\* day's count read, once for all its proposals.
Analyse(w) ==
    /\ scan[w].phase = "reading"
    /\ \E payload \in Reports :
         LET rows == parse_search_term_rows(payload) IN
         /\ rows # <<>>
         /\ Analysable(rows)
         /\ scan' = [scan EXCEPT ![w] =
              [phase |-> "judging", key |-> scan[w].key, attempt |-> attempts + 1,
               policy |-> policy, before |-> AppliedOn(ledger, today), rows |-> rows,
               wrote |-> {}, todo |-> proposals_from_ppc(rows), opened |-> {}]]
    /\ attempts' = attempts + 1
    /\ overlap' = overlap \cup {{scan[v].attempt, attempts + 1} : v \in Judging}
    /\ UNCHANGED <<policy, today, account, ledger, record, life>>

\* Mutant: only what this run has applied counts against the day's limit.
RequestForThisRun(s) ==
    [actor |-> "operator", money_at_stake |-> Head(s.todo).projected_impact,
     change_pct |-> NoChange, spend_per_day |-> Head(s.todo).spend_per_day,
     applied_today |-> Cardinality(s.opened)]

\* What the guardrails are asked about the next proposal.
RequestFor(s) ==
    [actor |-> "operator", money_at_stake |-> Head(s.todo).projected_impact,
     change_pct |-> NoChange, spend_per_day |-> Head(s.todo).spend_per_day,
     applied_today |-> s.before + Cardinality(s.opened)]

Allowed(s) == evaluate(RequestFor(s), s.policy) = "allowed"

\* Mutant: the account is not read before the create.
JudgeWithoutReading(w) ==
    LET s == scan[w] IN
    /\ s.phase = "judging"
    /\ s.todo # <<>>
    /\ scan' = [scan EXCEPT ![w] =
         IF Allowed(s) /\ ADS_WRITE_ENABLED
         THEN [s EXCEPT !.phase = "absent_before"] ELSE [s EXCEPT !.todo = Tail(@)]]
    /\ UNCHANGED <<policy, today, account, ledger, record, attempts, overlap, life>>

\* Take up the next proposal, the biggest waste first.  Refused, without write
\* access, or already in place: the row stays proposed.  Otherwise the bracket
\* around it is open.
Judge(w) ==
    LET s == scan[w] IN
    /\ s.phase = "judging"
    /\ s.todo # <<>>
    /\ scan' = [scan EXCEPT ![w] =
         IF Allowed(s) /\ ADS_WRITE_ENABLED /\ Head(s.todo).place \notin account
         THEN [s EXCEPT !.phase = "absent_before"] ELSE [s EXCEPT !.todo = Tail(@)]]
    /\ UNCHANGED <<policy, today, account, ledger, record, attempts, overlap, life>>

\* AdsClient.request: a write is sent once and never replayed, whatever it
\* answers, and an error is raised.
Answers == {"sent", "raised"}

\* The create lands, or is accepted and dropped; either way the answer may be an
\* error instead.
Create(w) ==
    LET p == Head(scan[w].todo).place IN
    /\ scan[w].phase = "absent_before"
    /\ \E lands \in BOOLEAN, phase \in Answers :
         /\ account' = IF lands THEN account \cup {p} ELSE account
         /\ scan' = [scan EXCEPT ![w].phase = phase,
                                 ![w].wrote = @ \cup (account' \ account)]
    /\ UNCHANGED <<policy, today, ledger, record, attempts, overlap, life>>

\* Seen after and not before: the change is the Operator's, applied and real.
\* Not seen, or the read failed: the row stays proposed.
ReadBack(w) ==
    LET p == Head(scan[w].todo).place IN
    /\ scan[w].phase = "sent"
    /\ \E rows \in {{}, {AppliedByOperator(w, p)}} :
         /\ rows # {} => p \in account
         /\ scan' = [scan EXCEPT ![w].phase = "judging", ![w].todo = Tail(@),
                                 ![w].opened = @ \cup rows]
    /\ UNCHANGED <<policy, today, account, ledger, record, attempts, overlap, life>>

FinishScan(w) ==
    /\ scan[w].phase = "judging"
    /\ scan[w].todo = <<>>
    /\ ledger' = ledger \cup scan[w].opened
    /\ record' = [record EXCEPT ![scan[w].key] = "completed"]
    /\ scan' = [scan EXCEPT ![w] = Idle]
    /\ UNCHANGED <<policy, today, account, attempts, overlap, life>>

\* Any exception (the account is not connected, the report fails or is not ready
\* in time, a row cannot be analysed, the create answers with an error): the rows
\* are rolled back and the record is failed, whatever another worker has made of
\* it since.
FailScan(w) ==
    /\ w \in Running
    /\ record' = [record EXCEPT ![scan[w].key] = "failed"]
    /\ scan' = [scan EXCEPT ![w] = Idle]
    /\ UNCHANGED <<policy, today, account, ledger, attempts, overlap, life>>

\* The process dies: the rows are lost and the record still says processing.
CrashScan(w) ==
    /\ w \in Running
    /\ scan' = [scan EXCEPT ![w] = Idle]
    /\ UNCHANGED <<policy, today, account, ledger, record, attempts, overlap, life>>

Next ==
    \/ NewDay
    \/ \E p \in SomePolicies : UpdateGuardrails(p)
    \/ \E p \in Handled : SellerAdds(p) \/ SellerRemoves(p)
    \/ \E k \in Keys : RequestScan(k)
    \/ \E w \in Workers, k \in Keys : StartScan(w, k)
    \/ \E w \in Workers :
         \/ EmptyReport(w) \/ Analyse(w) \/ Judge(w) \/ Create(w) \/ ReadBack(w)
         \/ FinishScan(w) \/ FailScan(w) \/ CrashScan(w)

Spec == Init /\ [][Next]_vars

---------------------------------------------------------------------------
(* Properties.                                                             *)

\* Two rows may claim the same negative only if the scans that opened them
\* ran at the same time: a scan that starts after another has ended finds its
\* negatives in place and counts none of them, even the ones a rollback or a
\* crash left without a row.
SavingCountedOnce ==
    \A p, q \in ledger :
        p # q /\ p.place = q.place /\ p.life = q.life =>
            {p.attempt, q.attempt} \in overlap

\* "A search term with no orders is wasted spend; one that merely converts badly
\* is a bid problem" (actions_engine.py): what a scan negates, row or no row, sold
\* nothing in its report.  The exception is a term the report has in several
\* rows: its verdicts are per row, but its ids are those of its last row.
OnlyWasteIsNegated ==
    \A w \in Judging : \A p \in scan[w].wrote :
        Sells(scan[w].rows, p) => Split(scan[w].rows, p.term)

\* A scan that had the account to itself.
Alone(w) == \A pair \in overlap : scan[w].attempt \notin pair

\* The daily budget of unattended actions holds across scans, crashes, retries
\* and midnight: a scan that overlapped no other leaves no day above the limit
\* it read, unless the day was above it already.
BudgetHeldByScansAlone ==
    [][\A w \in Workers, d \in Days :
         FinishScan(w) /\ Alone(w) =>
            \/ AppliedOn(ledger', d) <= scan[w].policy.max_actions_per_day
            \/ AppliedOn(ledger', d) = AppliedOn(ledger, d)]_vars
===========================================================================
