---------------------------- MODULE AdsScanProofs ----------------------------
(***************************************************************************)
(* What the guardrails promise for every policy and request, what the      *)
(* engine proposes for every report, and what the advertising scan makes   *)
(* of both for any workers, retries, crashes, hands on the account and     *)
(* changes of the policy.                                                  *)
(***************************************************************************)
EXTENDS AdsScan, FiniteSetTheorems, SequenceTheorems, WellFoundedInduction, TLAPS

---------------------------------------------------------------------------
(* The guardrails.                                                         *)

\* An unattended action that is let through found the Operator on, the day's
\* budget open, and every limit kept: the order of the checks in evaluate lets
\* none of them be skipped.
THEOREM UnattendedKeepsEveryLimit ==
    ASSUME NEW p \in Policies, NEW r \in Requests,
           r.actor = "operator", evaluate(r, p) = "allowed"
    PROVE  /\ p.enabled
           /\ remaining_today(p, r.applied_today) > 0
           /\ r.money_at_stake <= p.auto_apply_below
           /\ r.spend_per_day <= p.protected_spend
           /\ r.change_pct # NoChange => r.change_pct <= p.max_change_pct
<1>1. /\ p.enabled \in BOOLEAN
      /\ p.max_actions_per_day \in Nat /\ p.max_change_pct \in Nat
      /\ p.auto_apply_below \in Nat /\ p.protected_spend \in Nat
  BY DEF Policies
<1>2. /\ r.applied_today \in Nat /\ r.money_at_stake \in Nat /\ r.spend_per_day \in Nat
      /\ r.change_pct \in Nat \cup {NoChange}
  BY DEF Requests
<1>3. p.enabled
  BY DEF evaluate
<1>4. r.change_pct # NoChange => ~(r.change_pct > p.max_change_pct)
  BY DEF evaluate
<1>5. ~(r.applied_today >= p.max_actions_per_day)
  BY <1>3, <1>4 DEF evaluate
<1>6. ~(r.spend_per_day > p.protected_spend) /\ ~(r.money_at_stake > p.auto_apply_below)
  BY <1>3, <1>4, <1>5 DEF evaluate
<1>7. remaining_today(p, r.applied_today) > 0
  BY <1>1, <1>2, <1>5 DEF remaining_today
<1>8. r.change_pct # NoChange => r.change_pct <= p.max_change_pct
  BY <1>1, <1>2, <1>4 DEF NoChange
<1>9. QED
  BY <1>1, <1>2, <1>3, <1>6, <1>7, <1>8

\* Loosening any limit, or several, never refuses what was allowed before: an
\* owner who relaxes the policy cannot make the Operator do less.
THEOREM LooseningRefusesNothing ==
    ASSUME NEW p \in Policies, NEW q \in Policies, NEW r \in Requests,
           Looser(p, q), evaluate(r, p) = "allowed"
    PROVE  evaluate(r, q) = "allowed"
<1>1. /\ p.enabled => q.enabled
      /\ p.max_actions_per_day \in Nat /\ q.max_actions_per_day \in Nat
      /\ p.max_change_pct \in Nat /\ q.max_change_pct \in Nat
      /\ p.auto_apply_below \in Nat /\ q.auto_apply_below \in Nat
      /\ p.protected_spend \in Nat /\ q.protected_spend \in Nat
  BY DEF Policies, Looser
<1>2. /\ r.applied_today \in Nat /\ r.money_at_stake \in Nat /\ r.spend_per_day \in Nat
      /\ r.change_pct \in Nat \cup {NoChange}
  BY DEF Requests
<1>3. /\ p.max_actions_per_day <= q.max_actions_per_day
      /\ p.max_change_pct <= q.max_change_pct
      /\ p.auto_apply_below <= q.auto_apply_below
      /\ p.protected_spend <= q.protected_spend
  BY DEF Looser
<1>4. p.enabled /\ (r.change_pct # NoChange => ~(r.change_pct > p.max_change_pct))
  BY DEF evaluate
<1>5. q.enabled /\ (r.change_pct # NoChange => ~(r.change_pct > q.max_change_pct))
  BY <1>1, <1>2, <1>3, <1>4 DEF NoChange
<1>6. CASE r.actor = "human"
  BY <1>5, <1>6 DEF evaluate
<1>7. CASE r.actor # "human"
  <2>1. ~(r.applied_today >= p.max_actions_per_day)
    BY <1>4, <1>7 DEF evaluate
  <2>2. ~(r.spend_per_day > p.protected_spend) /\ ~(r.money_at_stake > p.auto_apply_below)
    BY <1>4, <1>7, <2>1 DEF evaluate
  <2>3. /\ ~(r.applied_today >= q.max_actions_per_day)
        /\ ~(r.spend_per_day > q.protected_spend)
        /\ ~(r.money_at_stake > q.auto_apply_below)
    BY <1>1, <1>2, <1>3, <2>1, <2>2
  <2>4. QED
    BY <1>5, <1>7, <2>3 DEF evaluate
<1>8. QED
  BY <1>6, <1>7

---------------------------------------------------------------------------
(* What is proposed.                                                       *)

\* A bounded set of numbers has a last one.
LEMMA LastOf ==
    ASSUME NEW n \in Nat, NEW S \in SUBSET (1..n), S # {}
    PROVE  \E i \in S : \A j \in S : j <= i
<1> DEFINE T == {m \in 0..n : n - m \in S}
           R == OpToRel(<, Nat)
<1>1. T \subseteq Nat /\ T # {}
  <2>1. PICK i \in S : TRUE
    OBVIOUS
  <2>2. n - i \in T
    BY <2>1
  <2>3. \A k \in T : k \in Nat
    BY SMT
  <2> HIDE DEF T
  <2>4. QED
    BY <2>2, <2>3
<1>2. IsWellFoundedOn(R, Nat)
  BY NatLessThanWellFounded
<1>3. \A x, y \in Nat : x < y <=> <<x, y>> \in R
  BY DEF OpToRel
<1> HIDE DEF R
<1>4. PICK m \in T : \A k \in T : <<k, m>> \notin R
  <2> HIDE DEF T
  <2>1. QED
    BY <1>1, <1>2, WFMin
<1>5. \A k \in T : m <= k
  <2> HIDE DEF T
  <2>1. \A k \in T : k \in Nat
    BY <1>1
  <2>2. \A k \in T : ~(k < m)
    BY <1>3, <1>4, <2>1
  <2>3. QED
    BY <2>1, <2>2
<1>6. ASSUME NEW j \in S
      PROVE  j <= n - m
  <2>1. n - j \in T
    BY <1>6
  <2>2. QED
    BY <1>5, <2>1
<1>7. QED
  BY <1>6

\* What the parser keeps of a report.
IsReport(rows) ==
    /\ Len(rows) \in Nat /\ DOMAIN rows = 1..Len(rows)
    /\ \A i \in DOMAIN rows : rows[i].spend \in Nat

\* A term's ids are those of a row of that term.
LEMMA ByTermIsARow ==
    ASSUME NEW rows, IsReport(rows), NEW i \in DOMAIN rows
    PROVE  /\ by_term(rows, rows[i].place.term) \in {rows[j] : j \in DOMAIN rows}
           /\ by_term(rows, rows[i].place.term).place.term = rows[i].place.term
<1> DEFINE t == rows[i].place.term
           S == {j \in DOMAIN rows : rows[j].place.term = t}
<1>1. PICK k \in S : \A j \in S : j <= k
  BY LastOf DEF IsReport
<1>2. /\ k \in DOMAIN rows /\ rows[k].place.term = t
      /\ \A j \in DOMAIN rows : rows[j].place.term = t => j <= k
  BY <1>1
<1> HIDE DEF t, S
<1>3. \E j \in DOMAIN rows : /\ rows[j].place.term = t /\ by_term(rows, t) = rows[j]
  BY <1>2 DEF by_term
<1>4. QED
  BY <1>3 DEF t

\* What is negated sold nothing in the row the verdict is about.
LEMMA NegatedIsWaste ==
    ASSUME NEW rows, NEW i, Actionable(rows, i)
    PROVE  rows[i].orders = 0
  BY DEF Actionable, analyze_keyword, NEGATABLE_ACTIONS

Wasted(rows) == {i \in DOMAIN rows : Actionable(rows, i)}
Before(rows, i) == {j \in Wasted(rows) : BiggerWaste(rows, j, i)}

\* The wastes are ranked, each rank once.
LEMMA Ranked ==
    ASSUME NEW rows, IsReport(rows), NEW n \in 1..Cardinality(Wasted(rows))
    PROVE  \E i \in Wasted(rows) : Cardinality(Before(rows, i)) = n - 1
<1> DEFINE W == Wasted(rows)
           K == Cardinality(W)
           rank == [i \in W |-> Cardinality(Before(rows, i))]
<1>1. IsFiniteSet(W) /\ K \in Nat
  <2>1. IsFiniteSet(DOMAIN rows)
    BY FS_Interval DEF IsReport
  <2>2. W \in SUBSET DOMAIN rows
    BY DEF Wasted
  <2> HIDE DEF W
  <2>3. QED
    BY <2>1, <2>2, FS_Subset, FS_CardinalityType
<1>2. \A i \in W : i \in Int /\ rows[i].spend \in Nat
  BY DEF Wasted, IsReport
<1>3. \A i \in W : Before(rows, i) \in SUBSET W /\ i \notin Before(rows, i)
  BY <1>2 DEF Before, BiggerWaste
<1>4. \A i \in W : IsFiniteSet(Before(rows, i)) /\ Cardinality(Before(rows, i)) \in 0..(K - 1)
  <2> SUFFICES ASSUME NEW i \in W
               PROVE  IsFiniteSet(Before(rows, i)) /\ Cardinality(Before(rows, i)) \in 0..(K - 1)
    OBVIOUS
  <2>1. IsFiniteSet(W \ {i}) /\ Cardinality(W \ {i}) = K - 1
    BY <1>1, FS_RemoveElement
  <2>2. Before(rows, i) \in SUBSET (W \ {i})
    BY <1>3
  <2>3. IsFiniteSet(Before(rows, i)) /\ Cardinality(Before(rows, i)) <= K - 1
    BY <2>1, <2>2, FS_Subset
  <2>4. QED
    BY <1>1, <2>3, FS_CardinalityType
<1>5. ASSUME NEW i \in W, NEW j \in W, BiggerWaste(rows, i, j)
      PROVE  Cardinality(Before(rows, i)) # Cardinality(Before(rows, j))
  <2>1. Before(rows, i) \in SUBSET Before(rows, j)
    BY <1>2, <1>5 DEF Before, BiggerWaste
  <2>2. i \in Before(rows, j) /\ i \notin Before(rows, i)
    BY <1>3, <1>5 DEF Before
  <2>3. QED
    BY <1>4, <2>1, <2>2, FS_Subset
<1>6. \A i, j \in W : i # j => BiggerWaste(rows, i, j) \/ BiggerWaste(rows, j, i)
  BY <1>2 DEF BiggerWaste
<1>7. rank \in Injection(W, 0..(K - 1))
  <2>1. rank \in [W -> 0..(K - 1)]
    BY <1>4
  <2>2. \A i, j \in W : rank[i] = rank[j] => i = j
    BY <1>5, <1>6
  <2>3. QED
    BY <2>1, <2>2 DEF Injection, IsInjective
<1>8. IsFiniteSet(0..(K - 1)) /\ Cardinality(0..(K - 1)) = K
  <2> HIDE DEF K
  <2>1. QED
    BY <1>1, FS_Interval
<1>9. rank \in Surjection(W, 0..(K - 1))
  <2> HIDE DEF rank, W
  <2>1. QED
    BY <1>7, <1>8, FS_Injection
<1>10. n - 1 \in 0..(K - 1)
  BY <1>1
<1>11. PICK i \in W : rank[i] = n - 1
  <2> HIDE DEF rank, K
  <2>1. QED
    BY <1>9, <1>10 DEF Surjection
<1>12. QED
  BY <1>11

\* Every proposal is about a waste of the report.
LEMMA ProposalsAreWaste ==
    ASSUME NEW rows, IsReport(rows)
    PROVE  /\ Cardinality(Wasted(rows)) \in Nat
           /\ proposals_from_ppc(rows) =
                [n \in 1..Cardinality(Wasted(rows)) |-> proposals_from_ppc(rows)[n]]
           /\ \A n \in 1..Cardinality(Wasted(rows)) : \E i \in Wasted(rows) :
                proposals_from_ppc(rows)[n] = Proposal(rows, i)
<1>1. Cardinality(Wasted(rows)) \in Nat
  <2>1. IsFiniteSet(DOMAIN rows)
    BY FS_Interval DEF IsReport
  <2>2. Wasted(rows) \in SUBSET DOMAIN rows
    BY DEF Wasted
  <2>3. QED
    BY <2>1, <2>2, FS_Subset, FS_CardinalityType
<1>2. proposals_from_ppc(rows) =
        [n \in 1..Cardinality(Wasted(rows)) |->
           Proposal(rows, CHOOSE i \in Wasted(rows) : Cardinality(Before(rows, i)) = n - 1)]
  BY DEF proposals_from_ppc, Wasted, Before
<1>3. ASSUME NEW n \in 1..Cardinality(Wasted(rows))
      PROVE  \E i \in Wasted(rows) : proposals_from_ppc(rows)[n] = Proposal(rows, i)
  <2>1. (CHOOSE i \in Wasted(rows) : Cardinality(Before(rows, i)) = n - 1) \in Wasted(rows)
    BY Ranked
  <2>2. QED
    BY <1>2, <2>1
<1>4. QED
  BY <1>1, <1>2, <1>3

---------------------------------------------------------------------------
(* Types.                                                                  *)

Bracket == {"absent_before", "sent", "raised"}
Waiting == {v \in Workers : scan[v].phase = "reading"}

\* A bracket is around a proposal, rows are few, and the scans that wait for a
\* report have an attempt kept for them.
Typed ==
    /\ TypeOK
    /\ IsFiniteSet(ledger)
    /\ \A w \in Judging :
         IsFiniteSet(scan[w].opened) /\ (scan[w].phase \in Bracket => scan[w].todo # <<>>)
    /\ attempts + Cardinality(Waiting) <= MaxAttempts

LEMMA Shapes ==
    ASSUME TypeOK, NEW w \in Workers
    PROVE  /\ scan[w].phase = "reading" => scan[w] \in Reading
           /\ scan[w].phase \in {"judging"} \cup Bracket => w \in Judging
           /\ w \in Judging => scan[w] \in Scans /\ scan[w].phase \in {"judging"} \cup Bracket
           /\ w \in Running => scan[w].key \in Keys
<1>1. scan[w] \in Scans \cup Reading \cup {Idle}
  BY DEF TypeOK
<1>2. scan[w] \in Scans => scan[w].phase \in {"judging"} \cup Bracket /\ scan[w].key \in Keys
  BY DEF Scans, Bracket
<1>3. scan[w] \in Reading => scan[w].phase = "reading" /\ scan[w].key \in Keys
  BY DEF Reading
<1>4. scan[w] = Idle => scan[w].phase = "idle"
  BY DEF Idle
<1>5. QED
  BY <1>1, <1>2, <1>3, <1>4 DEF Judging, Running, Bracket

LEMMA Counts ==
    ASSUME NEW S \in SUBSET Workers, NEW w \in Workers
    PROVE  /\ IsFiniteSet(S) /\ Cardinality(S) \in Nat
           /\ Cardinality(S \cup {w}) <= Cardinality(S) + 1
           /\ Cardinality(S \ {w}) = IF w \in S THEN Cardinality(S) - 1 ELSE Cardinality(S)
<1>1. IsFiniteSet(S)
  BY AdsScanAssumption, FS_Subset
<1>2. QED
  <2>1. /\ Cardinality(S) \in Nat
        /\ Cardinality(S \cup {w}) = IF w \in S THEN Cardinality(S) ELSE Cardinality(S) + 1
        /\ Cardinality(S \ {w}) = IF w \in S THEN Cardinality(S) - 1 ELSE Cardinality(S)
    BY <1>1, FS_CardinalityType, FS_AddElement, FS_RemoveElement
  <2>2. QED
    BY <1>1, <2>1

\* The proposal a bracket is around, or that is taken up next.
LEMMA UpNext ==
    ASSUME NEW s \in Scans, s.todo # <<>>
    PROVE  /\ Head(s.todo).place \in Places
           /\ Tail(s.todo) \in Seq([place : Places, projected_impact : Nat, spend_per_day : Nat])
<1>1. s.todo \in Seq([place : Places, projected_impact : Nat, spend_per_day : Nat])
  BY DEF Scans
<1>2. /\ Head(s.todo) \in [place : Places, projected_impact : Nat, spend_per_day : Nat]
      /\ Tail(s.todo) \in Seq([place : Places, projected_impact : Nat, spend_per_day : Nat])
  BY <1>1, HeadTailProperties
<1>3. QED
  BY <1>2

\* What the steps of a scan write of it.
LEMMA TakesUp ==
    ASSUME NEW s \in Scans, NEW t, t = [s EXCEPT !.phase = "absent_before"]
    PROVE  /\ t \in Scans /\ t.phase = "absent_before" /\ t.attempt = s.attempt
           /\ t.policy = s.policy /\ t.before = s.before /\ t.rows = s.rows
           /\ t.wrote = s.wrote /\ t.todo = s.todo /\ t.opened = s.opened
  BY DEF Scans

LEMMA PassesOver ==
    ASSUME NEW s \in Scans, s.todo # <<>>, NEW t, t = [s EXCEPT !.todo = Tail(@)]
    PROVE  /\ t \in Scans /\ t.phase = s.phase /\ t.attempt = s.attempt
           /\ t.policy = s.policy /\ t.before = s.before /\ t.rows = s.rows
           /\ t.wrote = s.wrote /\ t.todo = Tail(s.todo) /\ t.opened = s.opened
  BY UpNext DEF Scans

LEMMA InitTyped == Init => Typed
<1> SUFFICES ASSUME Init
             PROVE  Typed
  OBVIOUS
<1>1. Waiting = {} /\ Judging = {}
  BY DEF Init, Waiting, Judging, Idle
<1>2. /\ IsFiniteSet(ledger) /\ Cardinality(Waiting) = 0
  BY <1>1, FS_EmptySet DEF Init
<1>3. /\ policy \in SomePolicies /\ today \in Days /\ account \subseteq Places /\ ledger \subseteq Rows
      /\ attempts \in 0..MaxAttempts /\ overlap \subseteq SUBSET (1..MaxAttempts)
      /\ attempts + Cardinality(Waiting) <= MaxAttempts
  BY <1>2, AdsScanAssumption DEF Init, Days
<1>4. /\ record \in [Keys -> {"absent", "processing", "failed", "completed"}]
      /\ scan \in [Workers -> Scans \cup Reading \cup {Idle}]
      /\ life \in [Places -> Lives]
  BY AdsScanAssumption DEF Init, Lives
<1>5. QED
  BY <1>1, <1>2, <1>3, <1>4 DEF Typed, TypeOK

LEMMA WorldTyped ==
    ASSUME Typed,
           \/ NewDay
           \/ \E p \in SomePolicies : UpdateGuardrails(p)
           \/ \E p \in Handled : SellerAdds(p) \/ SellerRemoves(p)
           \/ \E k \in Keys : RequestScan(k)
    PROVE  Typed'
<1>1. UNCHANGED <<ledger, scan, attempts, overlap>>
  BY DEF NewDay, UpdateGuardrails, SellerAdds, SellerRemoves, RequestScan
<1>2. Waiting' = Waiting /\ Judging' = Judging
  BY <1>1 DEF Waiting, Judging
<1>3. policy' \in SomePolicies
  BY DEF NewDay, UpdateGuardrails, SellerAdds, SellerRemoves, RequestScan, Typed, TypeOK
<1>4. today' \in Days
  BY AdsScanAssumption
     DEF NewDay, UpdateGuardrails, SellerAdds, SellerRemoves, RequestScan, Typed, TypeOK, Days
<1>5. account' \subseteq Places
  BY AdsScanAssumption
     DEF NewDay, UpdateGuardrails, SellerAdds, SellerRemoves, RequestScan, Typed, TypeOK
<1>6. record' \in [Keys -> {"absent", "processing", "failed", "completed"}]
  BY DEF NewDay, UpdateGuardrails, SellerAdds, SellerRemoves, RequestScan, Typed, TypeOK
<1>7. life' \in [Places -> Lives]
  BY AdsScanAssumption
     DEF NewDay, UpdateGuardrails, SellerAdds, SellerRemoves, RequestScan, Typed, TypeOK, Lives
<1>8. QED
  BY <1>1, <1>2, <1>3, <1>4, <1>5, <1>6, <1>7 DEF Typed, TypeOK, Rows, Days, Lives

\* A scan that goes on or ends leaves room for the ones that wait.
LEMMA Room ==
    ASSUME Typed, NEW w \in Workers, NEW s, s.phase # "reading",
           scan' = [scan EXCEPT ![w] = s],
           attempts' = attempts \/ (attempts' = attempts + 1 /\ scan[w].phase = "reading")
    PROVE  /\ attempts' \in 0..MaxAttempts
           /\ attempts' + Cardinality(Waiting') <= MaxAttempts
<1>1. Waiting' = Waiting \ {w}
  BY DEF Waiting, Typed, TypeOK
<1>2. /\ Waiting \in SUBSET Workers
      /\ w \in Waiting <=> scan[w].phase = "reading"
      /\ attempts \in 0..MaxAttempts /\ attempts + Cardinality(Waiting) <= MaxAttempts
  BY DEF Waiting, Typed, TypeOK
<1>3. /\ Cardinality(Waiting) \in Nat
      /\ Cardinality(Waiting \ {w}) = IF w \in Waiting THEN Cardinality(Waiting) - 1
                                      ELSE Cardinality(Waiting)
  BY <1>2, Counts
<1>4. Cardinality(Waiting \ {w}) \in Nat
  BY <1>2, Counts
<1>5. QED
  BY <1>1, <1>2, <1>3, <1>4, AdsScanAssumption

LEMMA ScanTyped ==
    ASSUME Typed, NEW w \in Workers, NEW s \in Scans \cup Reading \cup {Idle},
           scan' = [scan EXCEPT ![w] = s],
           s \in Scans => IsFiniteSet(s.opened) /\ (s.phase \in Bracket => s.todo # <<>>),
           IsFiniteSet(ledger'), ledger' \subseteq Rows, account' \subseteq Places,
           record' \in [Keys -> {"absent", "processing", "failed", "completed"}],
           overlap' \subseteq SUBSET (1..MaxAttempts),
           attempts' \in 0..MaxAttempts, attempts' + Cardinality(Waiting') <= MaxAttempts,
           UNCHANGED <<policy, today, life>>
    PROVE  Typed'
<1>1. /\ scan' \in [Workers -> Scans \cup Reading \cup {Idle}]
      /\ \A v \in Workers : scan'[v] = IF v = w THEN s ELSE scan[v]
  BY DEF Typed, TypeOK
<1>2. TypeOK'
  BY <1>1 DEF Typed, TypeOK
<1>3. ASSUME NEW v \in Judging'
      PROVE  /\ IsFiniteSet(scan'[v].opened)
             /\ scan'[v].phase \in Bracket => scan'[v].todo # <<>>
  <2>1. v \in Workers /\ scan'[v] \notin Reading \cup {Idle}
    BY DEF Judging
  <2>2. CASE v = w
    BY <1>1, <2>1, <2>2
  <2>3. CASE v # w
    <3>1. v \in Judging /\ scan'[v] = scan[v]
      BY <1>1, <2>1, <2>3 DEF Judging
    <3>2. QED
      BY <3>1 DEF Typed
  <2>4. QED
    BY <2>2, <2>3
<1>4. QED
  BY <1>2, <1>3 DEF Typed

LEMMA StartTyped ==
    ASSUME Typed, NEW w \in Workers, NEW k \in Keys, StartScan(w, k)
    PROVE  Typed'
<1> DEFINE s == [phase |-> "reading", key |-> k]
<1>1. s \in Reading /\ s \notin Scans
  BY DEF Reading, Scans
<1>2. scan' = [scan EXCEPT ![w] = s]
  BY DEF StartScan
<1>3. Waiting' = Waiting \cup {w}
  BY <1>2 DEF Waiting, Typed, TypeOK
<1>4. {v \in Running : scan[v].phase = "reading"} = Waiting
  BY DEF Running, Waiting, Idle
<1>5. attempts + Cardinality(Waiting) < MaxAttempts
  BY <1>4 DEF StartScan
<1>6. /\ Cardinality(Waiting) \in Nat
      /\ Cardinality(Waiting') \in Nat
      /\ Cardinality(Waiting') <= Cardinality(Waiting) + 1
  <2>1. Waiting \in SUBSET Workers /\ Waiting \cup {w} \in SUBSET Workers
    BY DEF Waiting
  <2>2. QED
    BY <1>3, <2>1, Counts
<1>7. attempts' \in 0..MaxAttempts /\ attempts' + Cardinality(Waiting') <= MaxAttempts
  BY <1>5, <1>6, AdsScanAssumption DEF StartScan, Typed, TypeOK
<1> HIDE DEF s
<1>8. QED
  BY <1>1, <1>2, <1>7, ScanTyped DEF StartScan, Typed, TypeOK

LEMMA ReportTyped ==
    ASSUME NEW payload \in Reports, NEW rows, rows = parse_search_term_rows(payload)
    PROVE  /\ rows \in Parsed /\ IsReport(rows)
           /\ proposals_from_ppc(rows)
                \in Seq([place : Places, projected_impact : Nat, spend_per_day : Nat])
<1>1. IsReport(rows) /\ rows \in Parsed
  BY AdsScanAssumption DEF IsReport, Parsed
<1>2. ASSUME NEW i \in Wasted(rows)
      PROVE  Proposal(rows, i) \in [place : Places, projected_impact : Nat, spend_per_day : Nat]
  <2>1. rows[i].spend \in Nat /\ Proposal(rows, i).place \in Places
    BY <1>2, AdsScanAssumption DEF Wasted
  <2>2. rows[i].spend \div WINDOW_DAYS \in Nat
    BY <2>1, SearchTermsAssumption
  <2>3. QED
    BY <2>1, <2>2 DEF Proposal
<1>3. \A n \in 1..Cardinality(Wasted(rows)) :
        proposals_from_ppc(rows)[n]
          \in [place : Places, projected_impact : Nat, spend_per_day : Nat]
  BY <1>1, <1>2, ProposalsAreWaste
<1> DEFINE T == [place : Places, projected_impact : Nat, spend_per_day : Nat]
           f == proposals_from_ppc(rows)
           n == Cardinality(Wasted(rows))
<1>4. n \in Nat /\ f = [m \in 1..n |-> f[m]] /\ \A m \in 1..n : f[m] \in T
  BY <1>1, <1>3, ProposalsAreWaste
<1> HIDE DEF T, f, n
<1>5. f \in [1..n -> T]
  BY <1>4
<1>6. f \in Seq(T)
  BY <1>4, <1>5, SeqDef
<1>7. QED
  BY <1>1, <1>6 DEF T, f

\* What taking up a report does.
LEMMA Analysed ==
    ASSUME Typed, NEW w \in Workers, Analyse(w)
    PROVE  \E s \in Scans :
             /\ scan' = [scan EXCEPT ![w] = s]
             /\ s.phase = "judging" /\ s.attempt = attempts + 1 /\ s.policy = policy
             /\ s.before = AppliedOn(ledger, today) /\ s.wrote = {} /\ s.opened = {}
             /\ IsReport(s.rows) /\ s.todo = proposals_from_ppc(s.rows)
<1>1. PICK payload \in Reports :
        LET rows == parse_search_term_rows(payload) IN
        scan' = [scan EXCEPT ![w] =
              [phase |-> "judging", key |-> scan[w].key, attempt |-> attempts + 1,
               policy |-> policy, before |-> AppliedOn(ledger, today), rows |-> rows,
               wrote |-> {}, todo |-> proposals_from_ppc(rows), opened |-> {}]]
  BY DEF Analyse
<1> DEFINE rows == parse_search_term_rows(payload)
           s == [phase |-> "judging", key |-> scan[w].key, attempt |-> attempts + 1,
                 policy |-> policy, before |-> AppliedOn(ledger, today), rows |-> rows,
                 wrote |-> {}, todo |-> proposals_from_ppc(rows), opened |-> {}]
<1>2. scan' = [scan EXCEPT ![w] = s]
  BY <1>1
<1>3. /\ rows \in Parsed /\ IsReport(rows)
      /\ proposals_from_ppc(rows)
           \in Seq([place : Places, projected_impact : Nat, spend_per_day : Nat])
  BY ReportTyped
<1>4. AppliedOn(ledger, today) \in Nat
  <2>1. {row \in ledger : row.day = today} \in SUBSET ledger
    OBVIOUS
  <2>2. QED
    BY <2>1, FS_Subset, FS_CardinalityType DEF AppliedOn, Typed
<1>5. scan[w].key \in Keys /\ policy \in SomePolicies
  BY Shapes DEF Analyse, Typed, TypeOK, Running, Idle
<1>6. attempts + 1 \in 1..MaxAttempts
  <2>1. w \in Waiting /\ Waiting \in SUBSET Workers
    BY DEF Waiting, Analyse
  <2>2. Cardinality(Waiting) \in Nat /\ Cardinality(Waiting) - 1 \in Nat
    <3>1. Waiting \ {w} \in SUBSET Workers
      BY <2>1
    <3>2. Cardinality(Waiting \ {w}) \in Nat
      BY <3>1, Counts
    <3>3. QED
      BY <2>1, <3>2, Counts
  <2>3. QED
    BY <2>2, AdsScanAssumption DEF Typed, TypeOK
<1>7. /\ s.phase = "judging" /\ s.attempt = attempts + 1 /\ s.policy = policy
      /\ s.before = AppliedOn(ledger, today) /\ s.wrote = {} /\ s.opened = {}
      /\ s.rows = rows /\ s.todo = proposals_from_ppc(rows)
  OBVIOUS
<1>8. s \in Scans
  <2> HIDE DEF rows
  <2>1. QED
    BY <1>3, <1>4, <1>5, <1>6 DEF Scans
<1> HIDE DEF s, rows
<1>9. QED
  BY <1>2, <1>3, <1>7, <1>8

LEMMA AnalyseTyped ==
    ASSUME Typed, NEW w \in Workers, Analyse(w)
    PROVE  Typed'
<1>1. PICK s \in Scans :
        /\ scan' = [scan EXCEPT ![w] = s] /\ s.phase = "judging" /\ s.opened = {}
        /\ s.attempt = attempts + 1
  BY Analysed
<1>2. attempts' \in 0..MaxAttempts /\ attempts' + Cardinality(Waiting') <= MaxAttempts
  BY <1>1, Room DEF Analyse
<1>3. overlap' \subseteq SUBSET (1..MaxAttempts)
  <2>1. \A v \in Judging : scan[v].attempt \in 1..MaxAttempts
    BY Shapes DEF Typed, Scans, Judging
  <2>2. attempts + 1 \in 1..MaxAttempts
    BY <1>1 DEF Scans
  <2>3. QED
    BY <2>1, <2>2 DEF Analyse, Typed, TypeOK
<1>4. QED
  BY ZenonT(30), <1>1, <1>2, <1>3, FS_EmptySet, ScanTyped DEF Analyse, Typed, TypeOK, Bracket

\* What judging a proposal does.
LEMMA Judged ==
    ASSUME Typed, NEW w \in Workers, Judge(w)
    PROVE  \E s \in Scans :
             /\ scan' = [scan EXCEPT ![w] = s]
             /\ s.attempt = scan[w].attempt /\ s.policy = scan[w].policy
             /\ s.before = scan[w].before /\ s.rows = scan[w].rows
             /\ s.wrote = scan[w].wrote /\ s.opened = scan[w].opened
             /\ \/ /\ s.phase = "absent_before" /\ s.todo = scan[w].todo
                   /\ Allowed(scan[w]) /\ Head(s.todo).place \notin account
                \/ s.phase = "judging" /\ s.todo = Tail(scan[w].todo)
<1>1. scan[w] \in Scans /\ scan[w].todo # <<>> /\ scan[w].phase = "judging"
  BY Shapes DEF Judge, Typed
<1>2. CASE Allowed(scan[w]) /\ ADS_WRITE_ENABLED /\ Head(scan[w].todo).place \notin account
  <2>1. PICK s : s = [scan[w] EXCEPT !.phase = "absent_before"]
    OBVIOUS
  <2>2. scan' = [scan EXCEPT ![w] = s]
    BY <1>2, <2>1 DEF Judge
  <2>3. QED
    BY <1>1, <1>2, <2>1, <2>2, TakesUp
<1>3. CASE ~(Allowed(scan[w]) /\ ADS_WRITE_ENABLED /\ Head(scan[w].todo).place \notin account)
  <2>1. PICK s : s = [scan[w] EXCEPT !.todo = Tail(@)]
    OBVIOUS
  <2>2. scan' = [scan EXCEPT ![w] = s]
    BY <1>3, <2>1 DEF Judge
  <2>3. QED
    <3>1. /\ s \in Scans /\ s.phase = scan[w].phase /\ s.attempt = scan[w].attempt
          /\ s.policy = scan[w].policy /\ s.before = scan[w].before /\ s.rows = scan[w].rows
          /\ s.wrote = scan[w].wrote /\ s.todo = Tail(scan[w].todo)
          /\ s.opened = scan[w].opened
      BY <1>1, <2>1, PassesOver
    <3>2. QED
      BY <1>1, <2>2, <3>1
<1>4. QED
  BY <1>2, <1>3

LEMMA JudgeTyped ==
    ASSUME Typed, NEW w \in Workers, Judge(w)
    PROVE  Typed'
<1>1. scan[w].todo # <<>> /\ IsFiniteSet(scan[w].opened)
  BY Shapes DEF Judge, Typed
<1>2. PICK s \in Scans :
        /\ scan' = [scan EXCEPT ![w] = s] /\ s.opened = scan[w].opened
        /\ \/ s.phase = "absent_before" /\ s.todo = scan[w].todo
           \/ s.phase = "judging"
  BY Judged
<1>3. s.phase # "reading" /\ (s.phase \in Bracket => s.todo # <<>>)
  BY <1>1, <1>2 DEF Bracket
<1>4. attempts' \in 0..MaxAttempts /\ attempts' + Cardinality(Waiting') <= MaxAttempts
  BY <1>2, <1>3, Room DEF Judge
<1>5. QED
  BY <1>1, <1>2, <1>3, <1>4, ScanTyped DEF Judge, Typed, TypeOK

\* What the bracket does.
LEMMA Created ==
    ASSUME Typed, NEW w \in Workers, Create(w)
    PROVE  \E s \in Scans :
             /\ scan' = [scan EXCEPT ![w] = s]
             /\ s.phase \in Answers /\ s.attempt = scan[w].attempt /\ s.policy = scan[w].policy
             /\ s.before = scan[w].before /\ s.rows = scan[w].rows
             /\ s.wrote \subseteq scan[w].wrote \cup {Head(scan[w].todo).place}
             /\ s.todo = scan[w].todo /\ s.opened = scan[w].opened
             /\ account' \in {account, account \cup {Head(scan[w].todo).place}}
             /\ Head(scan[w].todo).place \in Places
<1> DEFINE p == Head(scan[w].todo).place
<1>1. scan[w] \in Scans /\ scan[w].todo # <<>>
  BY Shapes DEF Create, Typed, Bracket
<1>2. p \in Places /\ account \subseteq Places
  BY <1>1, UpNext DEF Typed, TypeOK
<1>3. PICK lands \in BOOLEAN, phase \in Answers :
         /\ account' = IF lands THEN account \cup {p} ELSE account
         /\ scan' = [scan EXCEPT ![w].phase = phase, ![w].wrote = @ \cup (account' \ account)]
  BY DEF Create
<1>4. /\ account' \in {account, account \cup {p}}
      /\ account' \ account \in SUBSET Places
      /\ account' \ account \subseteq {p}
  BY <1>2, <1>3
<1> PICK new \in SUBSET Places : new = account' \ account
  BY <1>4
<1> PICK was \in Scans : was = scan[w]
  BY <1>1
<1> PICK s : s = [was EXCEPT !.phase = phase, !.wrote = @ \cup new]
  OBVIOUS
<1>5. scan' = [scan EXCEPT ![w] = s]
  BY <1>3 DEF Typed, TypeOK
<1>6. /\ s \in Scans /\ s.phase = phase /\ s.attempt = was.attempt /\ s.policy = was.policy
      /\ s.before = was.before /\ s.rows = was.rows /\ s.wrote = was.wrote \cup new
      /\ s.todo = was.todo /\ s.opened = was.opened
  <2>1. was.wrote \cup new \in SUBSET Places
        /\ phase \in {"judging", "absent_before", "sent", "raised"}
    BY DEF Scans, Answers
  <2>2. QED
    BY <2>1 DEF Scans
<1> HIDE DEF p
<1>7. s.wrote \subseteq scan[w].wrote \cup {p}
  BY <1>4, <1>6
<1>8. QED
  BY <1>2, <1>4, <1>5, <1>6, <1>7 DEF p

LEMMA ReadOnce ==
    ASSUME Typed, NEW w \in Workers, ReadBack(w)
    PROVE  \E s \in Scans, new \in SUBSET {AppliedByOperator(w, Head(scan[w].todo).place)} :
             /\ new \subseteq Rows
             /\ new # {} => Head(scan[w].todo).place \in account
             /\ scan' = [scan EXCEPT ![w] = s]
             /\ s.phase = "judging" /\ s.attempt = scan[w].attempt /\ s.policy = scan[w].policy
             /\ s.before = scan[w].before /\ s.rows = scan[w].rows /\ s.wrote = scan[w].wrote
             /\ s.todo = Tail(scan[w].todo) /\ s.opened = scan[w].opened \cup new
<1> DEFINE p == Head(scan[w].todo).place
           r == AppliedByOperator(w, p)
<1>1. scan[w] \in Scans /\ scan[w].todo # <<>>
  BY Shapes DEF ReadBack, Typed, Bracket
<1>2. p \in Places
  BY <1>1, UpNext
<1>3. r \in Rows
  <2>1. scan[w].attempt \in 1..MaxAttempts
    BY <1>1 DEF Scans
  <2>2. life[p] \in Lives /\ today \in Days
    BY <1>2 DEF Typed, TypeOK
  <2> HIDE DEF p
  <2>3. QED
    BY <1>2, <2>1, <2>2 DEF AppliedByOperator, Rows
<1>4. PICK new \in {{}, {r}} :
         /\ new # {} => p \in account
         /\ scan' = [scan EXCEPT ![w].phase = "judging", ![w].todo = Tail(@),
                                 ![w].opened = @ \cup new]
  BY DEF ReadBack
<1> PICK was \in Scans : was = scan[w]
  BY <1>1
<1> PICK s : s = [was EXCEPT !.phase = "judging", !.todo = Tail(@), !.opened = @ \cup new]
  OBVIOUS
<1>5. scan' = [scan EXCEPT ![w] = s]
  BY <1>4 DEF Typed, TypeOK
<1>6. new \in SUBSET Rows /\ new \in SUBSET {r}
  BY <1>3, <1>4
<1>7. /\ s \in Scans /\ s.phase = "judging" /\ s.attempt = was.attempt
      /\ s.policy = was.policy /\ s.before = was.before /\ s.rows = was.rows
      /\ s.wrote = was.wrote /\ s.todo = Tail(was.todo) /\ s.opened = was.opened \cup new
  <2>1. was.opened \cup new \in SUBSET Rows
    BY <1>6 DEF Scans
  <2>2. was.todo # <<>>
    BY <1>1
  <2>3. QED
    BY <2>1, <2>2, UpNext DEF Scans
<1> HIDE DEF r, p
<1>8. QED
  <2>1. new \in SUBSET {r} /\ new \subseteq Rows /\ (new # {} => p \in account)
    BY <1>4, <1>6
  <2>2. QED
    BY <1>5, <1>7, <2>1 DEF r, p

LEMMA BracketTyped ==
    ASSUME Typed, NEW w \in Workers, Create(w) \/ ReadBack(w)
    PROVE  Typed'
<1>1. w \in Judging /\ scan[w] \in Scans /\ IsFiniteSet(scan[w].opened) /\ scan[w].todo # <<>>
  BY Shapes DEF Create, ReadBack, Typed, Bracket
<1>2. CASE Create(w)
  <2>1. PICK s \in Scans :
             /\ scan' = [scan EXCEPT ![w] = s]
             /\ s.phase \in Answers
             /\ s.todo = scan[w].todo /\ s.opened = scan[w].opened
             /\ account' \in {account, account \cup {Head(scan[w].todo).place}}
             /\ Head(scan[w].todo).place \in Places
    BY <1>2, Created
  <2>2. s.phase # "reading"
    BY <2>1 DEF Answers
  <2>3. attempts' \in 0..MaxAttempts /\ attempts' + Cardinality(Waiting') <= MaxAttempts
    BY <1>2, <2>1, <2>2, Room DEF Create
  <2>4. account' \subseteq Places
    BY <2>1 DEF Typed, TypeOK
  <2>5. QED
    BY <1>1, <1>2, <2>1, <2>3, <2>4, ScanTyped DEF Create, Typed, TypeOK
<1>3. CASE ReadBack(w)
  <2>1. PICK s \in Scans, new \in SUBSET {AppliedByOperator(w, Head(scan[w].todo).place)} :
             /\ scan' = [scan EXCEPT ![w] = s]
             /\ s.phase = "judging" /\ s.opened = scan[w].opened \cup new
    BY <1>3, ReadOnce
  <2>2. attempts' \in 0..MaxAttempts /\ attempts' + Cardinality(Waiting') <= MaxAttempts
    BY <1>3, <2>1, Room DEF ReadBack
  <2>3. IsFiniteSet(s.opened)
    <3>1. IsFiniteSet(new)
      <4>1. IsFiniteSet({AppliedByOperator(w, Head(scan[w].todo).place)})
        BY FS_Singleton
      <4>2. QED
        BY <4>1, FS_Subset
    <3>2. QED
      BY <1>1, <2>1, <3>1, FS_Union
  <2>4. QED
    BY <1>3, <2>1, <2>2, <2>3, ScanTyped DEF ReadBack, Typed, TypeOK, Bracket
<1>4. QED
  BY <1>2, <1>3

LEMMA EndTyped ==
    ASSUME Typed, NEW w \in Workers,
           EmptyReport(w) \/ FinishScan(w) \/ FailScan(w) \/ CrashScan(w)
    PROVE  Typed'
<1>1. scan' = [scan EXCEPT ![w] = Idle] /\ Idle.phase # "reading" /\ Idle \notin Scans
  BY DEF EmptyReport, FinishScan, FailScan, CrashScan, Idle, Scans
<1>2. attempts' \in 0..MaxAttempts /\ attempts' + Cardinality(Waiting') <= MaxAttempts
  BY <1>1, Room DEF EmptyReport, FinishScan, FailScan, CrashScan
<1>3. scan[w].key \in Keys
  BY Shapes DEF EmptyReport, FinishScan, FailScan, CrashScan, Typed, Running, Idle
<1>4. record' \in [Keys -> {"absent", "processing", "failed", "completed"}]
  BY <1>3 DEF EmptyReport, FinishScan, FailScan, CrashScan, Typed, TypeOK
<1>5. IsFiniteSet(ledger') /\ ledger' \subseteq Rows
  <2>1. CASE FinishScan(w)
    <3>1. w \in Judging /\ scan[w] \in Scans
      BY <2>1, Shapes DEF FinishScan, Typed, Bracket
    <3>2. IsFiniteSet(scan[w].opened) /\ scan[w].opened \subseteq Rows
      BY <3>1 DEF Typed, Scans
    <3>3. IsFiniteSet(ledger \cup scan[w].opened)
      BY <3>2, FS_Union DEF Typed
    <3>4. QED
      BY <2>1, <3>2, <3>3 DEF FinishScan, Typed, TypeOK
  <2>2. CASE ~FinishScan(w)
    BY <2>2 DEF EmptyReport, FailScan, CrashScan, Typed, TypeOK
  <2>3. QED
    BY <2>1, <2>2
<1>6. UNCHANGED <<policy, today, account, attempts, overlap, life>>
  BY DEF EmptyReport, FinishScan, FailScan, CrashScan
<1>7. QED
  BY <1>1, <1>2, <1>4, <1>5, <1>6, ScanTyped DEF Typed, TypeOK

LEMMA StepTyped == Typed /\ [Next]_vars => Typed'
<1> SUFFICES ASSUME Typed, [Next]_vars
             PROVE  Typed'
  OBVIOUS
<1>1. CASE UNCHANGED vars
  BY <1>1 DEF vars, Typed, TypeOK, Judging, Waiting
<1>2. CASE Next
  BY <1>2, WorldTyped, StartTyped, AnalyseTyped, JudgeTyped, BracketTyped, EndTyped DEF Next
<1>3. QED
  BY <1>1, <1>2

\* Whatever the workers, the seller and the owner do, every variable keeps its type.
THEOREM TypeCorrect == Spec => []TypeOK
<1>1. Typed => TypeOK
  BY DEF Typed
<1>2. QED
  BY <1>1, InitTyped, StepTyped, PTL DEF Spec

---------------------------------------------------------------------------
(* The scans that judge, before and after a step.                          *)

LEMMA Others ==
    ASSUME Typed, NEW w \in Workers, NEW s, scan' = [scan EXCEPT ![w] = s], NEW v \in Judging'
    PROVE  /\ v = w => scan'[v] = s /\ s \notin Reading \cup {Idle}
           /\ v # w => v \in Judging /\ scan'[v] = scan[v]
  BY DEF Judging, Typed, TypeOK

\* A worker that starts to wait for a report, or that is done with one.
LEMMA Leaves ==
    ASSUME Typed, NEW w \in Workers,
           \/ \E k \in Keys : StartScan(w, k)
           \/ EmptyReport(w) \/ FinishScan(w) \/ FailScan(w) \/ CrashScan(w)
    PROVE  /\ \A v \in Judging' : v # w /\ v \in Judging /\ scan'[v] = scan[v]
           /\ UNCHANGED <<today, account, overlap, life>>
           /\ ledger' = ledger \/ FinishScan(w)
<1>1. PICK s \in Reading \cup {Idle} : scan' = [scan EXCEPT ![w] = s]
  BY DEF StartScan, EmptyReport, FinishScan, FailScan, CrashScan, Reading
<1>2. \A v \in Judging' : v # w /\ v \in Judging /\ scan'[v] = scan[v]
  BY <1>1, Others
<1>3. UNCHANGED <<today, account, overlap, life>> /\ (ledger' = ledger \/ FinishScan(w))
  BY DEF StartScan, EmptyReport, FailScan, CrashScan, FinishScan
<1>4. QED
  BY <1>2, <1>3

---------------------------------------------------------------------------
(* What a scan negates.                                                    *)

IsWaste(rows, p) == \E i \in Wasted(rows) : Proposal(rows, i).place = p

\* What a scan still has to take up, and what it has put in place, are wastes of
\* its report.
WasteOnly ==
    \A w \in Judging :
       /\ IsReport(scan[w].rows)
       /\ \A n \in DOMAIN scan[w].todo : IsWaste(scan[w].rows, scan[w].todo[n].place)
       /\ \A p \in scan[w].wrote : IsWaste(scan[w].rows, p)

\* A waste sells nothing, unless its term is in the report twice.
LEMMA WasteSellsNothing ==
    ASSUME NEW rows, IsReport(rows), NEW p, IsWaste(rows, p), Sells(rows, p)
    PROVE  Split(rows, p.term)
<1>1. PICK i \in Wasted(rows) : Proposal(rows, i).place = p
  BY DEF IsWaste
<1>2. i \in DOMAIN rows /\ rows[i].orders = 0
  BY NegatedIsWaste DEF Wasted
<1>3. p.term = rows[i].place.term
  BY <1>1, <1>2, ByTermIsARow DEF Proposal
<1>4. PICK j \in DOMAIN rows : rows[j].place = p /\ rows[j].orders > 0
  BY DEF Sells
<1>5. i # j
  BY <1>2, <1>4
<1>6. QED
  BY <1>2, <1>3, <1>4, <1>5 DEF Split

\* The rest of the proposals are proposals.
LEMMA HeadOrTail ==
    ASSUME NEW s \in Scans, s.todo # <<>>,
           NEW rows, \A n \in DOMAIN s.todo : IsWaste(rows, s.todo[n].place)
    PROVE  /\ IsWaste(rows, Head(s.todo).place)
           /\ \A n \in DOMAIN Tail(s.todo) : IsWaste(rows, Tail(s.todo)[n].place)
<1> DEFINE T == [place : Places, projected_impact : Nat, spend_per_day : Nat]
<1>1. s.todo \in Seq(T)
  BY DEF Scans
<1> HIDE DEF T
<1>2. /\ Head(s.todo) = s.todo[1] /\ 1 \in DOMAIN s.todo
      /\ \A n \in DOMAIN Tail(s.todo) : n + 1 \in DOMAIN s.todo /\ Tail(s.todo)[n] = s.todo[n + 1]
  BY <1>1
<1>3. QED
  BY <1>2

LEMMA ScanWaste ==
    ASSUME Typed, WasteOnly, NEW w \in Workers,
           Analyse(w) \/ Judge(w) \/ Create(w) \/ ReadBack(w)
    PROVE  WasteOnly'
<1>1. ASSUME NEW s \in Scans, scan' = [scan EXCEPT ![w] = s], IsReport(s.rows),
             \A n \in DOMAIN s.todo : IsWaste(s.rows, s.todo[n].place),
             \A p \in s.wrote : IsWaste(s.rows, p)
      PROVE  WasteOnly'
  <2> SUFFICES ASSUME NEW v \in Judging'
               PROVE  /\ IsReport(scan'[v].rows)
                      /\ \A n \in DOMAIN scan'[v].todo : IsWaste(scan'[v].rows, scan'[v].todo[n].place)
                      /\ \A p \in scan'[v].wrote : IsWaste(scan'[v].rows, p)
    BY DEF WasteOnly
  <2>1. CASE v = w
    <3>1. scan'[v] = s
      BY ZenonT(30), <1>1, <2>1, Others
    <3>2. QED
      BY <1>1, <3>1
  <2>2. CASE v # w
    BY ZenonT(30), <1>1, <2>2, Others DEF WasteOnly
  <2>3. QED
    BY <2>1, <2>2
<1>2. CASE Analyse(w)
  <2>1. PICK s \in Scans :
             /\ scan' = [scan EXCEPT ![w] = s] /\ s.wrote = {}
             /\ IsReport(s.rows) /\ s.todo = proposals_from_ppc(s.rows)
    BY <1>2, Analysed
  <2>2. \A n \in DOMAIN s.todo : IsWaste(s.rows, s.todo[n].place)
    BY <2>1, ProposalsAreWaste DEF IsWaste
  <2>3. QED
    BY <1>1, <2>1, <2>2
<1>3. ASSUME Judge(w) \/ Create(w) \/ ReadBack(w)
      PROVE  /\ scan[w] \in Scans /\ scan[w].todo # <<>> /\ IsReport(scan[w].rows)
             /\ \A n \in DOMAIN scan[w].todo : IsWaste(scan[w].rows, scan[w].todo[n].place)
             /\ \A p \in scan[w].wrote : IsWaste(scan[w].rows, p)
             /\ IsWaste(scan[w].rows, Head(scan[w].todo).place)
             /\ \A n \in DOMAIN Tail(scan[w].todo) :
                   IsWaste(scan[w].rows, Tail(scan[w].todo)[n].place)
  <2>1. w \in Judging /\ scan[w] \in Scans /\ scan[w].todo # <<>>
    BY <1>3, Shapes DEF Judge, Create, ReadBack, Typed, Bracket
  <2>2. QED
    BY <2>1, HeadOrTail DEF WasteOnly
<1>4. CASE Judge(w)
  <2>1. PICK s \in Scans :
             /\ scan' = [scan EXCEPT ![w] = s]
             /\ s.rows = scan[w].rows /\ s.wrote = scan[w].wrote
             /\ s.todo \in {scan[w].todo, Tail(scan[w].todo)}
    BY <1>4, Judged
  <2>2. QED
    BY <1>1, <1>3, <1>4, <2>1
<1>5. CASE Create(w)
  <2>1. PICK s \in Scans :
             /\ scan' = [scan EXCEPT ![w] = s]
             /\ s.rows = scan[w].rows /\ s.todo = scan[w].todo
             /\ s.wrote \subseteq scan[w].wrote \cup {Head(scan[w].todo).place}
    BY <1>5, Created
  <2>2. QED
    BY <1>1, <1>3, <1>5, <2>1
<1>6. CASE ReadBack(w)
  <2>1. PICK s \in Scans :
             /\ scan' = [scan EXCEPT ![w] = s]
             /\ s.rows = scan[w].rows /\ s.todo = Tail(scan[w].todo)
             /\ s.wrote = scan[w].wrote
    BY <1>6, ReadOnce
  <2>2. QED
    BY <1>1, <1>3, <1>6, <2>1
<1>7. QED
  BY <1>2, <1>4, <1>5, <1>6

LEMMA StepWaste == Typed /\ WasteOnly /\ [Next]_vars => WasteOnly'
<1> SUFFICES ASSUME Typed, WasteOnly, [Next]_vars
             PROVE  WasteOnly'
  OBVIOUS
<1>1. CASE UNCHANGED scan
  BY <1>1 DEF WasteOnly, Judging
<1>2. ASSUME NEW w \in Workers,
             \/ \E k \in Keys : StartScan(w, k)
             \/ EmptyReport(w) \/ FinishScan(w) \/ FailScan(w) \/ CrashScan(w)
      PROVE  WasteOnly'
  BY <1>2, Leaves DEF WasteOnly
<1>3. QED
  BY <1>1, <1>2, ScanWaste
     DEF Next, vars, NewDay, UpdateGuardrails, SellerAdds, SellerRemoves, RequestScan

\* "A search term with no orders is wasted spend": whatever the reports are, no
\* scan negates a term that sold, except one the report has in several rows.
THEOREM NothingThatSells == Spec => []OnlyWasteIsNegated
<1>1. Init => WasteOnly
  BY DEF Init, WasteOnly, Judging
<1>2. WasteOnly => OnlyWasteIsNegated
  BY WasteSellsNothing DEF WasteOnly, OnlyWasteIsNegated
<1>3. QED
  BY <1>1, <1>2, InitTyped, StepTyped, StepWaste, PTL DEF Spec

---------------------------------------------------------------------------
(* A saving is counted once.                                               *)

AllRows == ledger \cup UNION {scan[w].opened : w \in Judging}

\* Scans that judge at the same time are known to overlap.
Apart ==
    \A v, w \in Judging : v # w => {scan[v].attempt, scan[w].attempt} \in overlap

\* A negative that has a row and was not taken out since is in place.
Standing ==
    \A r \in AllRows :
        r.life <= life[r.place] /\ (r.life = life[r.place] => r.place \in account)

\* While a bracket is open, only scans that overlap its own have counted its
\* negative in the life it has.
Clear ==
    \A w \in Judging : scan[w].phase \in Bracket =>
        \A r \in AllRows :
            r.place = Head(scan[w].todo).place /\ r.life = life[r.place] =>
                {r.attempt, scan[w].attempt} \in overlap

\* The property, of the rows not yet committed as well.
Counted ==
    \A p, q \in AllRows :
        p # q /\ p.place = q.place /\ p.life = q.life => {p.attempt, q.attempt} \in overlap

Savings == Apart /\ Standing /\ Clear /\ Counted

LEMMA RowTypes ==
    ASSUME Typed, NEW r \in AllRows
    PROVE  r.place \in Places /\ r.life \in Nat /\ r.day \in Nat
<1>1. r \in Rows
  <2>1. \A w \in Judging : scan[w].opened \subseteq Rows
    BY Shapes DEF Typed, Judging, Scans
  <2>2. QED
    BY <2>1 DEF AllRows, Typed, TypeOK
<1>2. QED
  BY <1>1, AdsScanAssumption DEF Rows, Lives, Days

\* The rows after a step of a scan.
LEMMA RowsAfter ==
    ASSUME Typed, NEW w \in Judging, NEW s, scan' = [scan EXCEPT ![w] = s],
           NEW new, s.opened \subseteq scan[w].opened \cup new, ledger' = ledger
    PROVE  AllRows' \subseteq AllRows \cup new
<1> SUFFICES ASSUME NEW r \in AllRows', r \notin ledger
             PROVE  r \in AllRows \cup new
  BY DEF AllRows
<1>1. PICK v \in Judging' : r \in scan'[v].opened
  BY DEF AllRows
<1>2. w \in Workers
  BY DEF Judging
<1>3. CASE v = w
  <2>1. scan'[v] = s
    BY ZenonT(30), <1>2, <1>3, Others
  <2>2. QED
    BY <1>1, <2>1 DEF AllRows
<1>4. CASE v # w
  <2>1. v \in Judging /\ scan'[v] = scan[v]
    BY <1>2, <1>4, Others
  <2>2. QED
    BY <1>1, <2>1 DEF AllRows
<1>5. QED
  BY <1>3, <1>4

LEMMA RowsLeft ==
    ASSUME Typed, NEW w \in Workers,
           \/ \E k \in Keys : StartScan(w, k)
           \/ EmptyReport(w) \/ FinishScan(w) \/ FailScan(w) \/ CrashScan(w)
    PROVE  AllRows' \subseteq AllRows
<1>1. \A v \in Judging' : scan'[v].opened \subseteq AllRows
  BY Leaves DEF AllRows
<1>2. ledger' \subseteq AllRows
  <2>1. CASE FinishScan(w)
    <3>1. w \in Judging
      BY <2>1, Shapes DEF FinishScan, Typed
    <3>2. QED
      BY <2>1, <3>1 DEF FinishScan, AllRows
  <2>2. CASE ~FinishScan(w)
    BY <2>2, Leaves DEF AllRows
  <2>3. QED
    BY <2>1, <2>2
<1>3. QED
  BY <1>1, <1>2 DEF AllRows

LEMMA WorldSaves ==
    ASSUME Typed, Savings, UNCHANGED <<ledger, scan, overlap>>,
           \/ account \subseteq account' /\ life' = life
           \/ \E p \in Handled : SellerRemoves(p)
    PROVE  Savings'
<1>1. AllRows' = AllRows /\ Judging' = Judging
  BY DEF AllRows, Judging
<1>2. Apart' /\ Counted'
  BY <1>1 DEF Savings, Apart, Counted
<1>3. CASE account \subseteq account' /\ life' = life
  BY <1>1, <1>2, <1>3 DEF Savings, Standing, Clear
<1>4. ASSUME NEW p \in Handled, SellerRemoves(p)
      PROVE  Standing' /\ Clear'
  <2>1. p \in Places /\ \A q \in Places : life[q] \in Nat
    BY AdsScanAssumption DEF Typed, TypeOK, Lives
  <2>2. \A q \in Places : life'[q] = IF q = p THEN life[p] + 1 ELSE life[q]
    BY <1>4 DEF SellerRemoves, Typed, TypeOK
  <2>3. \A r \in AllRows : r.place = p => r.life < life'[p]
    BY <2>1, <2>2, RowTypes DEF Savings, Standing
  <2>4. account' = account \ {p}
    BY <1>4 DEF SellerRemoves
  <2>5. ASSUME NEW r \in AllRows
        PROVE  /\ r.life <= life'[r.place]
               /\ r.life = life'[r.place] => r.place # p /\ life'[r.place] = life[r.place]
    <3>1. r.life \in Nat /\ r.place \in Places /\ r.life <= life[r.place]
      BY RowTypes DEF Savings, Standing
    <3>2. QED
      BY <2>1, <2>2, <2>3, <3>1
  <2>6. Standing'
    BY <1>1, <2>4, <2>5 DEF Savings, Standing
  <2>7. Clear'
    BY <1>1, <2>5 DEF Savings, Clear
  <2>8. QED
    BY <2>6, <2>7
<1>5. QED
  BY <1>2, <1>3, <1>4 DEF Savings

LEMMA LeavingSaves ==
    ASSUME Typed, Savings, NEW w \in Workers,
           \/ \E k \in Keys : StartScan(w, k)
           \/ EmptyReport(w) \/ FinishScan(w) \/ FailScan(w) \/ CrashScan(w)
    PROVE  Savings'
<1>1. /\ AllRows' \subseteq AllRows
      /\ \A v \in Judging' : v \in Judging /\ scan'[v] = scan[v]
      /\ UNCHANGED <<account, overlap, life>>
  BY RowsLeft, Leaves
<1>2. Apart' /\ Standing' /\ Counted'
  BY <1>1 DEF Savings, Apart, Standing, Counted
<1>3. Clear'
  BY <1>1 DEF Savings, Clear
<1>4. QED
  BY <1>2, <1>3 DEF Savings

LEMMA AnalyseSaves ==
    ASSUME Typed, Savings, NEW w \in Workers, Analyse(w)
    PROVE  Savings'
<1>1. PICK s \in Scans :
             /\ scan' = [scan EXCEPT ![w] = s]
             /\ s.phase = "judging" /\ s.attempt = attempts + 1 /\ s.opened = {}
  BY Analysed
<1>2. /\ overlap \subseteq overlap'
      /\ \A v \in Judging : {scan[v].attempt, attempts + 1} \in overlap'
      /\ UNCHANGED <<account, ledger, life>>
  BY DEF Analyse
<1>3. ASSUME NEW v \in Judging'
      PROVE  /\ v = w => /\ scan'[v].attempt = attempts + 1 /\ scan'[v].phase = "judging"
                         /\ scan'[v].opened = {}
             /\ v # w => v \in Judging /\ scan'[v] = scan[v]
  <2>1. /\ v = w => scan'[v] = s
        /\ v # w => v \in Judging /\ scan'[v] = scan[v]
    BY <1>1, Others
  <2>2. QED
    BY <1>1, <2>1
<1>4. AllRows' \subseteq AllRows
  BY <1>2, <1>3 DEF AllRows
<1>5. Apart'
  <2> SUFFICES ASSUME NEW u \in Judging', NEW v \in Judging', u # v
               PROVE  {scan'[u].attempt, scan'[v].attempt} \in overlap'
    BY DEF Apart
  <2>1. CASE u # w /\ v # w
    BY <1>2, <1>3, <2>1 DEF Savings, Apart
  <2>2. CASE u = w
    <3>1. {scan'[u].attempt, scan'[v].attempt} = {scan[v].attempt, attempts + 1} /\ v \in Judging
      BY <1>3, <2>2
    <3>2. QED
      BY <1>2, <3>1
  <2>3. CASE v = w
    <3>1. {scan'[u].attempt, scan'[v].attempt} = {scan[u].attempt, attempts + 1} /\ u \in Judging
      BY <1>3, <2>3
    <3>2. QED
      BY <1>2, <3>1
  <2>4. QED
    BY <2>1, <2>2, <2>3
<1>6. Standing' /\ Counted'
  BY <1>2, <1>4 DEF Savings, Standing, Counted
<1>7. Clear'
  BY <1>2, <1>3, <1>4 DEF Savings, Clear, Bracket
<1>8. QED
  BY <1>5, <1>6, <1>7 DEF Savings

LEMMA BracketSaves ==
    ASSUME Typed, Savings, NEW w \in Workers, Judge(w) \/ Create(w)
    PROVE  Savings'
<1>1. w \in Judging /\ UNCHANGED <<ledger, overlap, life>> /\ account \subseteq account'
  BY Shapes DEF Judge, Create, Typed, Bracket
<1>2. PICK s \in Scans :
             /\ scan' = [scan EXCEPT ![w] = s]
             /\ s.attempt = scan[w].attempt /\ s.opened = scan[w].opened
             /\ \/ s.phase = "judging"
                \/ Head(s.todo).place \notin account
                \/ scan[w].phase \in Bracket /\ s.todo = scan[w].todo
  <2>1. CASE Judge(w)
    BY <2>1, Judged
  <2>2. CASE Create(w)
    BY <2>2, Created DEF Create, Bracket
  <2>3. QED
    BY <2>1, <2>2
<1>3. AllRows' \subseteq AllRows
  <2>1. s.opened \subseteq scan[w].opened \cup {}
    BY <1>2
  <2>2. QED
    BY <1>1, <1>2, <2>1, RowsAfter
<1>4. ASSUME NEW v \in Judging'
      PROVE  /\ v \in Judging /\ scan'[v].attempt = scan[v].attempt
             /\ v # w => scan'[v] = scan[v]
             /\ v = w => scan'[v] = s
  <2>1. scan' = [scan EXCEPT ![w] = s]
    BY <1>2
  <2>2. /\ v = w => scan'[v] = s
        /\ v # w => v \in Judging /\ scan'[v] = scan[v]
    BY ZenonT(30), <2>1, Others
  <2>3. QED
    BY <1>1, <1>2, <2>2
<1>5. Apart' /\ Standing' /\ Counted'
  BY <1>1, <1>3, <1>4 DEF Savings, Apart, Standing, Counted
<1>6. Clear'
  <2> SUFFICES ASSUME NEW v \in Judging', scan'[v].phase \in Bracket, NEW r \in AllRows',
                      r.place = Head(scan'[v].todo).place, r.life = life[r.place]
               PROVE  {r.attempt, scan'[v].attempt} \in overlap
    BY <1>1 DEF Clear
  <2>1. CASE v # w
    BY <1>3, <1>4, <2>1 DEF Savings, Clear
  <2>2. CASE v = w
    <3>1. scan'[v] = s /\ s.phase # "judging"
      BY <1>4, <2>2 DEF Bracket
    <3>2. r.place \in account
      BY <1>3 DEF Savings, Standing
    <3>3. scan[w].phase \in Bracket /\ s.todo = scan[w].todo
      BY <1>2, <3>1, <3>2
    <3>4. QED
      BY <1>1, <1>2, <1>3, <2>2, <3>1, <3>3 DEF Savings, Clear
  <2>3. QED
    BY <2>1, <2>2
<1>7. QED
  BY <1>5, <1>6 DEF Savings

LEMMA ReadBackSaves ==
    ASSUME Typed, Savings, NEW w \in Workers, ReadBack(w)
    PROVE  Savings'
<1> PICK p : p = Head(scan[w].todo).place
  OBVIOUS
<1> PICK one : one = AppliedByOperator(w, p)
  OBVIOUS
<1>1. w \in Judging /\ scan[w].phase \in Bracket /\ UNCHANGED <<ledger, overlap, life, account>>
  BY Shapes DEF ReadBack, Typed, Bracket
<1>2. PICK s \in Scans, new \in SUBSET {one} :
             /\ new # {} => p \in account
             /\ scan' = [scan EXCEPT ![w] = s]
             /\ s.phase = "judging" /\ s.attempt = scan[w].attempt
             /\ s.opened = scan[w].opened \cup new
  BY ReadOnce
<1>3. one.place = p /\ one.life = life[p] /\ one.attempt = scan[w].attempt
  BY DEF AppliedByOperator
<1>4. AllRows' \subseteq AllRows \cup new
  BY <1>1, <1>2, RowsAfter
<1>5. ASSUME NEW v \in Judging'
      PROVE  /\ v \in Judging /\ scan'[v].attempt = scan[v].attempt
             /\ v # w => scan'[v] = scan[v]
             /\ v = w => scan'[v].phase = "judging"
  <2>1. scan' = [scan EXCEPT ![w] = s]
    BY <1>2
  <2>2. /\ v = w => scan'[v] = s
        /\ v # w => v \in Judging /\ scan'[v] = scan[v]
    BY ZenonT(30), <2>1, Others
  <2>3. QED
    BY <1>1, <1>2, <2>2
<1>6. life[p] \in Nat
  <2>1. p \in Places
    BY <1>1, Shapes, UpNext DEF Typed, Bracket
  <2>2. QED
    BY <2>1, AdsScanAssumption DEF Typed, TypeOK, Lives
<1>7. Apart'
  BY <1>1, <1>5 DEF Savings, Apart
<1>8. Standing'
  <2> SUFFICES ASSUME NEW r \in AllRows'
               PROVE  r.life <= life[r.place] /\ (r.life = life[r.place] => r.place \in account)
    BY <1>1 DEF Standing
  <2>1. CASE r \in AllRows
    BY <2>1 DEF Savings, Standing
  <2>2. CASE r = one /\ new # {}
    BY <1>2, <1>3, <1>6, <2>2
  <2>3. QED
    BY <1>2, <1>4, <2>1, <2>2
\* A row that was there for the same negative belongs to a scan that overlaps.
<1>9. ASSUME NEW r \in AllRows, r.place = p, r.life = life[p]
      PROVE  {r.attempt, scan[w].attempt} \in overlap
  BY <1>1, <1>9 DEF Savings, Clear
<1>10. Clear'
  <2> SUFFICES ASSUME NEW v \in Judging', scan'[v].phase \in Bracket, NEW r \in AllRows',
                      r.place = Head(scan'[v].todo).place, r.life = life[r.place]
               PROVE  {r.attempt, scan'[v].attempt} \in overlap
    BY <1>1 DEF Clear
  <2>1. v # w /\ v \in Judging /\ scan'[v] = scan[v]
    BY <1>5 DEF Bracket
  <2>2. CASE r \in AllRows
    BY <2>1, <2>2 DEF Savings, Clear
  <2>3. CASE r = one
    BY <1>1, <1>3, <2>1, <2>3 DEF Savings, Apart
  <2>4. QED
    BY <1>2, <1>4, <2>2, <2>3
<1>11. Counted'
  <2> SUFFICES ASSUME NEW x \in AllRows', NEW y \in AllRows',
                      x # y, x.place = y.place, x.life = y.life
               PROVE  {x.attempt, y.attempt} \in overlap
    BY <1>1 DEF Counted
  <2>1. CASE x \in AllRows /\ y \in AllRows
    BY <2>1 DEF Savings, Counted
  <2>2. CASE x = one /\ y \in AllRows
    <3>1. {x.attempt, y.attempt} = {y.attempt, scan[w].attempt}
      BY <1>3, <2>2
    <3>2. QED
      BY <1>3, <1>9, <2>2, <3>1
  <2>3. CASE y = one /\ x \in AllRows
    BY <1>3, <1>9, <2>3
  <2>4. QED
    BY <1>2, <1>4, <2>1, <2>2, <2>3
<1>12. QED
  BY <1>7, <1>8, <1>10, <1>11 DEF Savings

LEMMA StepSaves == Typed /\ Savings /\ [Next]_vars => Savings'
<1> SUFFICES ASSUME Typed, Savings, [Next]_vars
             PROVE  Savings'
  OBVIOUS
<1>1. CASE \/ UNCHANGED vars \/ NewDay
           \/ \E p \in SomePolicies : UpdateGuardrails(p)
           \/ \E p \in Handled : SellerAdds(p) \/ SellerRemoves(p)
           \/ \E k \in Keys : RequestScan(k)
  BY <1>1, WorldSaves
     DEF vars, NewDay, UpdateGuardrails, SellerAdds, SellerRemoves, RequestScan
<1>2. CASE \E w \in Workers : \/ \E k \in Keys : StartScan(w, k)
                              \/ EmptyReport(w) \/ FinishScan(w) \/ FailScan(w) \/ CrashScan(w)
  BY <1>2, LeavingSaves
<1>3. CASE \E w \in Workers : Analyse(w) \/ Judge(w) \/ Create(w) \/ ReadBack(w)
  BY <1>3, AnalyseSaves, BracketSaves, ReadBackSaves
<1>4. QED
  BY <1>1, <1>2, <1>3 DEF Next

\* One saving has one row: a scan that starts when another has ended counts
\* none of its negatives again, whatever became of its rows.
THEOREM OneRowASaving == Spec => []SavingCountedOnce
<1>1. Init => Savings
  <2> SUFFICES ASSUME Init
               PROVE  Savings
    OBVIOUS
  <2>1. Judging = {} /\ AllRows = {}
    BY DEF Init, Judging, AllRows
  <2>2. QED
    BY <2>1 DEF Savings, Apart, Standing, Clear, Counted
<1>2. Savings => SavingCountedOnce
  BY DEF Savings, Counted, SavingCountedOnce, AllRows
<1>3. QED
  BY <1>1, <1>2, InitTyped, StepTyped, StepSaves, PTL DEF Spec


---------------------------------------------------------------------------
(* The day's budget, for a scan that overlaps no other.                    *)

\* A scan opens a bracket only with room left for one more row.
Within(s) ==
    LET used == s.before + Cardinality(s.opened) IN
    /\ s.opened # {} => used <= s.policy.max_actions_per_day
    /\ s.phase \in Bracket => used < s.policy.max_actions_per_day

\* What it counted at the start is what the ledger has of day d, the last day
\* the ledger has rows of; its own rows are of that day or later ones.
CountedOn(s, rows, d) ==
    /\ s.before = AppliedOn(rows, d)
    /\ \A r \in rows : r.day <= d
    /\ \A r \in s.opened : r.day >= d

Budget ==
    /\ \A r \in AllRows : r.day <= today
    /\ \A w \in Judging : Within(scan[w])
    /\ \A w \in Judging : Alone(w) => \E d \in 0..today : CountedOn(scan[w], ledger, d)

LEMMA Amounts ==
    ASSUME Typed, NEW w \in Judging
    PROVE  /\ scan[w] \in Scans /\ w \in Workers
           /\ IsFiniteSet(scan[w].opened) /\ Cardinality(scan[w].opened) \in Nat
           /\ scan[w].before \in Nat /\ scan[w].policy.max_actions_per_day \in Nat
<1>1. scan[w] \in Scans /\ w \in Workers /\ IsFiniteSet(scan[w].opened)
  BY Shapes DEF Typed, Judging
<1>2. scan[w].before \in Nat /\ scan[w].policy \in Policies
  BY <1>1, AdsScanAssumption DEF Scans
<1>3. QED
  BY <1>1, <1>2, FS_CardinalityType DEF Policies

\* An allowed proposal leaves the count below the limit.
LEMMA AllowedHasRoom ==
    ASSUME Typed, NEW w \in Judging, Allowed(scan[w])
    PROVE  scan[w].before + Cardinality(scan[w].opened) < scan[w].policy.max_actions_per_day
<1> PICK n \in Nat : n = scan[w].before + Cardinality(scan[w].opened)
  BY Amounts
<1>1. RequestFor(scan[w]).actor = "operator" /\ RequestFor(scan[w]).applied_today = n
  BY DEF RequestFor
<1>2. ~(n >= scan[w].policy.max_actions_per_day)
  BY <1>1 DEF Allowed, evaluate
<1>3. QED
  BY <1>2, Amounts

\* A step that changes one scan alone.
LEMMA OneScanCounts ==
    ASSUME Typed, Budget, NEW w \in Workers, NEW s, scan' = [scan EXCEPT ![w] = s],
           UNCHANGED <<ledger, today>>, overlap \subseteq overlap',
           Within(s), \A r \in s.opened : r.day <= today,
           Alone(w)' => \E d \in 0..today : CountedOn(s, ledger, d)
    PROVE  Budget'
<1>1. ASSUME NEW v \in Judging'
      PROVE  /\ v = w => scan'[v] = s
             /\ v # w => v \in Judging /\ scan'[v] = scan[v]
  BY ZenonT(30), Others
<1>2. \A v \in Judging' : Within(scan'[v])
  BY <1>1 DEF Budget
<1>3. \A r \in AllRows' : r.day <= today
  <2> SUFFICES ASSUME NEW r \in AllRows', r \notin ledger
               PROVE  r.day <= today
    BY DEF Budget, AllRows
  <2>1. PICK v \in Judging' : r \in scan'[v].opened
    BY DEF AllRows
  <2>2. QED
    BY <1>1, <2>1 DEF Budget, AllRows
<1>4. ASSUME NEW v \in Judging', Alone(v)'
      PROVE  \E d \in 0..today : CountedOn(scan'[v], ledger, d)
  <2>1. CASE v = w
    BY <1>1, <1>4, <2>1
  <2>2. CASE v # w
    <3>1. v \in Judging /\ scan'[v] = scan[v]
      BY <1>1, <2>2
    <3>2. Alone(v)
      BY <1>4, <3>1 DEF Alone
    <3>3. QED
      BY <3>1, <3>2 DEF Budget
  <2>3. QED
    BY <2>1, <2>2
<1>5. today' = today /\ ledger' = ledger
  OBVIOUS
<1>6. /\ \A r \in AllRows' : r.day <= today'
      /\ \A v \in Judging' : Within(scan'[v])
      /\ \A v \in Judging' : Alone(v)' => \E d \in 0..today' : CountedOn(scan'[v], ledger', d)
  BY <1>2, <1>3, <1>4, <1>5
<1>7. QED
  BY <1>6 DEF Budget

LEMMA AnalyseCounts ==
    ASSUME Typed, Budget, NEW w \in Workers, Analyse(w)
    PROVE  Budget'
<1>1. PICK s \in Scans :
             /\ scan' = [scan EXCEPT ![w] = s]
             /\ s.phase = "judging" /\ s.before = AppliedOn(ledger, today) /\ s.opened = {}
  BY Analysed
<1>2. UNCHANGED <<ledger, today>> /\ overlap \subseteq overlap'
  BY DEF Analyse
<1>3. today \in 0..today
  BY AdsScanAssumption DEF Typed, TypeOK, Days
<1>4. CountedOn(s, ledger, today)
  BY <1>1 DEF CountedOn, Budget, AllRows
<1>5. Within(s)
  BY <1>1 DEF Within, Bracket
<1>6. QED
  BY <1>1, <1>2, <1>3, <1>4, <1>5, OneScanCounts

LEMMA JudgeCounts ==
    ASSUME Typed, Budget, NEW w \in Workers, Judge(w) \/ Create(w)
    PROVE  Budget'
<1>1. w \in Judging /\ UNCHANGED <<ledger, today, overlap>>
  BY Shapes DEF Judge, Create, Typed, Bracket
<1>2. PICK s \in Scans :
             /\ scan' = [scan EXCEPT ![w] = s]
             /\ s.attempt = scan[w].attempt /\ s.policy = scan[w].policy
             /\ s.before = scan[w].before /\ s.opened = scan[w].opened
             /\ s.phase \in Bracket => scan[w].phase \in Bracket \/ Allowed(scan[w])
  <2>1. CASE Judge(w)
    BY <2>1, Judged DEF Bracket
  <2>2. CASE Create(w)
    BY <2>2, Created DEF Create, Bracket
  <2>3. QED
    BY <2>1, <2>2
<1>3. Within(s)
  BY <1>1, <1>2, AllowedHasRoom DEF Within, Budget
<1>4. \A r \in s.opened : r.day <= today
  BY <1>1, <1>2 DEF Budget, AllRows
<1>5. Alone(w)' => \E d \in 0..today : CountedOn(s, ledger, d)
  <2> SUFFICES ASSUME Alone(w)'
               PROVE  \E d \in 0..today : CountedOn(s, ledger, d)
    OBVIOUS
  <2>1. scan'[w] = s
    BY <1>2 DEF Typed, TypeOK
  <2>2. Alone(w)
    BY <1>1, <1>2, <2>1 DEF Alone
  <2>3. QED
    BY <1>1, <1>2, <2>2 DEF Budget, CountedOn
<1>6. QED
  BY <1>1, <1>2, <1>3, <1>4, <1>5, OneScanCounts

LEMMA ReadBackCounts ==
    ASSUME Typed, Budget, NEW w \in Workers, ReadBack(w)
    PROVE  Budget'
<1> PICK one : one = AppliedByOperator(w, Head(scan[w].todo).place)
  OBVIOUS
<1>1. w \in Judging /\ scan[w].phase \in Bracket /\ UNCHANGED <<ledger, today, overlap>>
  BY Shapes DEF ReadBack, Typed, Bracket
<1>2. PICK s \in Scans, new \in SUBSET {one} :
             /\ scan' = [scan EXCEPT ![w] = s]
             /\ s.phase = "judging" /\ s.attempt = scan[w].attempt
             /\ s.policy = scan[w].policy /\ s.before = scan[w].before
             /\ s.opened = scan[w].opened \cup new
  BY ReadOnce
<1>3. one.day = today
  BY DEF AppliedByOperator
<1>4. today \in Nat
  BY AdsScanAssumption DEF Typed, TypeOK, Days
<1>5. Within(s)
  <2>1. IsFiniteSet(scan[w].opened) /\ s.opened \subseteq scan[w].opened \cup {one}
    BY <1>1, <1>2, Amounts
  <2>2. Cardinality(s.opened) \in Nat /\ Cardinality(s.opened) <= Cardinality(scan[w].opened) + 1
    <3>1. /\ IsFiniteSet(scan[w].opened \cup {one})
          /\ Cardinality(scan[w].opened \cup {one}) <= Cardinality(scan[w].opened) + 1
          /\ Cardinality(scan[w].opened) \in Nat
      <4> PICK S : S = scan[w].opened
        OBVIOUS
      <4>1. IsFiniteSet(S)
        BY <2>1
      <4>2. Cardinality(S) \in Nat
        BY <4>1, FS_CardinalityType, Zenon
      <4>3. /\ IsFiniteSet(S \cup {one})
            /\ \/ Cardinality(S \cup {one}) = Cardinality(S)
               \/ Cardinality(S \cup {one}) = Cardinality(S) + 1
        <5>1. CASE one \in S
          <6>1. S \cup {one} = S
            BY <5>1
          <6>2. QED
            BY <4>1, <6>1
        <5>2. CASE one \notin S
          BY <4>1, <5>2, FS_AddElement, Zenon
        <5>3. QED
          BY <5>1, <5>2
      <4>4. QED
        BY <4>2, <4>3
    <3>2. /\ IsFiniteSet(s.opened)
          /\ Cardinality(s.opened) <= Cardinality(scan[w].opened \cup {one})
      BY <2>1, <3>1, FS_Subset
    <3>3. Cardinality(s.opened) \in Nat /\ Cardinality(scan[w].opened \cup {one}) \in Nat
      BY <3>1, <3>2, FS_CardinalityType
    <3>4. QED
      BY <3>1, <3>2, <3>3
  <2>3. scan[w].before + Cardinality(scan[w].opened) < scan[w].policy.max_actions_per_day
    BY <1>1 DEF Budget, Within
  <2>4. s.before + Cardinality(s.opened) <= s.policy.max_actions_per_day
    BY <1>1, <1>2, <2>2, <2>3, Amounts
  <2>5. QED
    BY <1>2, <2>4 DEF Within, Bracket
<1>6. \A r \in s.opened : r.day <= today
  BY <1>1, <1>2, <1>3, <1>4 DEF Budget, AllRows
<1>7. Alone(w)' => \E d \in 0..today : CountedOn(s, ledger, d)
  <2> SUFFICES ASSUME Alone(w)'
               PROVE  \E d \in 0..today : CountedOn(s, ledger, d)
    OBVIOUS
  <2>1. scan'[w] = s
    BY <1>2 DEF Typed, TypeOK
  <2>2. Alone(w)
    BY <1>1, <1>2, <2>1 DEF Alone
  <2>3. PICK d \in 0..today : CountedOn(scan[w], ledger, d)
    BY <1>1, <2>2 DEF Budget
  <2>4. CountedOn(s, ledger, d)
    BY <1>2, <1>3, <1>4, <2>3 DEF CountedOn
  <2>5. QED
    BY <2>4
<1>8. QED
  BY <1>1, <1>2, <1>5, <1>6, <1>7, OneScanCounts

\* Two scans that judge at the same time overlap, so one that ends adds rows to no
\* ledger a lone scan has counted.
LEMMA LeavingCounts ==
    ASSUME Typed, Apart, Budget, NEW w \in Workers,
           \/ \E k \in Keys : StartScan(w, k)
           \/ EmptyReport(w) \/ FinishScan(w) \/ FailScan(w) \/ CrashScan(w)
    PROVE  Budget'
<1>1. /\ AllRows' \subseteq AllRows
      /\ \A v \in Judging' : v # w /\ v \in Judging /\ scan'[v] = scan[v]
      /\ UNCHANGED <<today, overlap>>
      /\ ledger' = ledger \/ FinishScan(w)
  BY RowsLeft, Leaves
<1>2. ASSUME NEW v \in Judging', Alone(v)'
      PROVE  \E d \in 0..today' : CountedOn(scan'[v], ledger', d)
  <2>1. v # w /\ v \in Judging /\ scan'[v] = scan[v]
    BY <1>1
  <2>2. Alone(v)
    BY <1>1, <1>2, <2>1 DEF Alone
  <2>3. ~FinishScan(w)
    <3> SUFFICES ASSUME FinishScan(w)
                 PROVE  FALSE
      OBVIOUS
    <3>1. w \in Judging
      BY Shapes DEF FinishScan, Typed
    <3>2. {scan[v].attempt, scan[w].attempt} \in overlap
      BY <2>1, <3>1 DEF Apart
    <3>3. QED
      BY <2>2, <3>2 DEF Alone
  <2>4. ledger' = ledger /\ today' = today
    BY <1>1, <2>3
  <2>5. QED
    BY <2>1, <2>2, <2>4 DEF Budget
<1>3. /\ \A r \in AllRows' : r.day <= today'
      /\ \A v \in Judging' : Within(scan'[v])
  BY <1>1 DEF Budget
<1>4. QED
  BY <1>2, <1>3 DEF Budget

LEMMA WorldCounts ==
    ASSUME Typed, Budget, UNCHANGED <<ledger, scan, overlap>>,
           today' = today \/ NewDay
    PROVE  Budget'
<1>1. AllRows' = AllRows /\ Judging' = Judging
  BY DEF AllRows, Judging
<1>2. \A v \in Judging : Alone(v)' => Alone(v)
  BY DEF Alone
<1>3. today \in Nat /\ today' \in Nat /\ today <= today'
  BY AdsScanAssumption DEF Typed, TypeOK, Days, NewDay
<1>4. \A r \in AllRows : r.day <= today'
  BY <1>3, RowTypes DEF Budget
<1>5. 0..today \subseteq 0..today'
  BY <1>3
<1>6. QED
  BY <1>1, <1>2, <1>4, <1>5 DEF Budget

LEMMA StepCounts == Typed /\ Apart /\ Budget /\ [Next]_vars => Budget'
<1> SUFFICES ASSUME Typed, Apart, Budget, [Next]_vars
             PROVE  Budget'
  OBVIOUS
<1>1. CASE \/ UNCHANGED vars \/ NewDay
           \/ \E p \in SomePolicies : UpdateGuardrails(p)
           \/ \E p \in Handled : SellerAdds(p) \/ SellerRemoves(p)
           \/ \E k \in Keys : RequestScan(k)
  BY <1>1, WorldCounts
     DEF vars, NewDay, UpdateGuardrails, SellerAdds, SellerRemoves, RequestScan
<1>2. CASE \E w \in Workers : \/ \E k \in Keys : StartScan(w, k)
                              \/ EmptyReport(w) \/ FinishScan(w) \/ FailScan(w) \/ CrashScan(w)
  BY <1>2, LeavingCounts
<1>3. CASE \E w \in Workers : Analyse(w) \/ Judge(w) \/ Create(w) \/ ReadBack(w)
  BY <1>3, AnalyseCounts, JudgeCounts, ReadBackCounts
<1>4. QED
  BY <1>1, <1>2, <1>3 DEF Next

\* What a lone scan commits of one day, with what the ledger had of it.
LEMMA FinishedWithin ==
    ASSUME Typed, Budget, NEW w \in Workers, NEW e \in Days, FinishScan(w), Alone(w)
    PROVE  \/ AppliedOn(ledger', e) <= scan[w].policy.max_actions_per_day
           \/ AppliedOn(ledger', e) = AppliedOn(ledger, e)
<1> DEFINE O == scan[w].opened
           Old == {r \in ledger : r.day = e}
           New == {r \in O : r.day = e}
<1>1. w \in Judging
  BY Shapes DEF FinishScan, Typed
<1>2. PICK d \in 0..today : CountedOn(scan[w], ledger, d)
  BY <1>1 DEF Budget
<1>3. {r \in ledger' : r.day = e} = Old \cup New
  BY DEF FinishScan
<1>4. e \in Nat /\ d \in Nat
  BY AdsScanAssumption DEF Days
<1>5. CASE New = {}
  BY <1>3, <1>5 DEF AppliedOn
<1>6. CASE New # {}
  <2>1. /\ IsFiniteSet(O) /\ IsFiniteSet(Old) /\ Cardinality(O) \in Nat
        /\ scan[w].before \in Nat /\ scan[w].policy.max_actions_per_day \in Nat
    BY <1>1, Amounts, FS_Subset DEF Typed
  <2>2. scan[w].before + Cardinality(O) <= scan[w].policy.max_actions_per_day
    BY <1>1, <1>6 DEF Budget, Within
  <2>3. e >= d
    BY <1>2, <1>6 DEF CountedOn
  <2>4. Cardinality(Old) <= scan[w].before
    <3>1. CASE e = d
      <4>1. Cardinality(Old) = scan[w].before
        BY <1>2, <3>1 DEF CountedOn, AppliedOn
      <4>2. QED
        BY <2>1, <4>1
    <3>2. CASE e > d
      <4>1. Old = {}
        BY <1>2, <1>4, <3>2, RowTypes DEF CountedOn, AllRows
      <4>2. QED
        BY <2>1, <4>1, FS_EmptySet
    <3>3. QED
      BY <1>4, <2>3, <3>1, <3>2
  <2>5. /\ IsFiniteSet(New) /\ Cardinality(New) \in Nat /\ Cardinality(New) <= Cardinality(O)
        /\ Cardinality(Old) \in Nat
    BY <2>1, FS_Subset, FS_CardinalityType
  <2>6. /\ Cardinality(Old \cup New) <= Cardinality(Old) + Cardinality(New)
        /\ Cardinality(Old \cup New) \in Nat
    <3>1. /\ Cardinality(Old \cup New)
               = Cardinality(Old) + Cardinality(New) - Cardinality(Old \cap New)
          /\ IsFiniteSet(Old \cup New)
      BY <2>1, <2>5, FS_Union
    <3>2. IsFiniteSet(Old \cap New)
      BY <2>1, FS_Subset
    <3>3. Cardinality(Old \cap New) \in Nat /\ Cardinality(Old \cup New) \in Nat
      BY <3>1, <3>2, FS_CardinalityType
    <3>4. QED
      BY <2>5, <3>1, <3>3
  <2>7. Cardinality(Old \cup New) <= scan[w].policy.max_actions_per_day
    <3> HIDE DEF O, Old, New
    <3>1. QED
      BY <2>1, <2>2, <2>4, <2>5, <2>6
  <2>8. QED
    BY <1>3, <2>7 DEF AppliedOn
<1>7. QED
  BY <1>5, <1>6

\* The daily budget of unattended actions holds across scans, crashes, retries
\* and midnight, for every scan that overlaps no other.
THEOREM LoneScansKeepTheBudget == Spec => BudgetHeldByScansAlone
<1>1. Init => Savings /\ Budget
  <2> SUFFICES ASSUME Init
               PROVE  Savings /\ Budget
    OBVIOUS
  <2>1. Judging = {} /\ AllRows = {}
    BY DEF Init, Judging, AllRows
  <2>2. QED
    BY <2>1 DEF Savings, Apart, Standing, Clear, Counted, Budget
<1>2. Typed /\ Savings /\ Budget /\ [Next]_vars => Savings' /\ Budget'
  BY StepSaves, StepCounts DEF Savings
<1>3. Typed /\ Budget =>
        [\A w \in Workers, d \in Days :
           FinishScan(w) /\ Alone(w) =>
              \/ AppliedOn(ledger', d) <= scan[w].policy.max_actions_per_day
              \/ AppliedOn(ledger', d) = AppliedOn(ledger, d)]_vars
  BY FinishedWithin
<1>4. QED
  BY <1>1, <1>2, <1>3, InitTyped, StepTyped, PTL DEF Spec, BudgetHeldByScansAlone
==============================================================================
