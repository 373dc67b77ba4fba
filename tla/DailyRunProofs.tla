--------------------------- MODULE DailyRunProofs ---------------------------
(***************************************************************************)
(* Proofs about the claims of DailyRun, for any number of processes, shops *)
(* and days: when two processes work one stage, and what can undo a stage  *)
(* that was recorded as completed. Then the same for the keys of Jobs, for *)
(* any number of callers, workers, plans, retries and faults: what a key   *)
(* answers with is there, it is worked on once unless for a recorded       *)
(* reason, and a decision is not overturned by whoever comes later.        *)
(***************************************************************************)
EXTENDS DailyRun, Jobs, TLAPS

\* The stage a process is at is one of those it has to do.
LEMMA StageIsAJob ==
    ASSUME NEW stages \in SUBSET Jobs, stages # {}
    PROVE  Min(stages) \in stages
  <1> DEFINE Least(j) == \A k \in stages : j <= k
  <1>1. \A j \in stages : j = 1 \/ j = 2 \/ j = 3
    BY DEF Jobs, TRIAL_WARNINGS, SHOPIFY_SYNC, MEASUREMENT
  <1>2. CASE 1 \in stages
    <2>1. Least(1)
      BY <1>1
    <2>2. QED
      BY <1>2, <2>1 DEF Min
  <1>3. CASE 1 \notin stages /\ 2 \in stages
    <2>1. Least(2)
      BY <1>1, <1>3
    <2>2. QED
      BY <1>3, <2>1 DEF Min
  <1>4. CASE 1 \notin stages /\ 2 \notin stages
    <2>1. 3 \in stages /\ Least(3)
      BY <1>1, <1>4
    <2>2. QED
      BY <2>1 DEF Min
  <1>5. QED
    BY <1>2, <1>3, <1>4

LEMMA StageTyped ==
    ASSUME ClaimsTyped, NEW p \in Firings, Running(p)
    PROVE  Stage(p) \in Jobs
  <1>1. firing[p].stages \in SUBSET Jobs /\ firing[p].stages # {}
    BY DEF ClaimsTyped, FiringStates, Running
  <1>2. QED
    BY <1>1, StageIsAJob DEF Stage

LEMMA InitIInv == Init => IInv
  <1> SUFFICES ASSUME Init PROVE IInv
    OBVIOUS
  <1> USE DailyRunAssumption DEF Init
  <1>1. ClaimsTyped
    BY DEF ClaimsTyped, RunRows, FiringStates, Ticks, NoRun, NoFiring, Never
  <1>2. \A p \in Firings : ~Running(p)
    BY DEF Running, NoFiring
  <1>3. QED
    BY <1>1, <1>2 DEF IInv, BusyRowRuns, TwoBusyContested, InsertIsOldest, Busy, AtWork

\* What a process is at stays typed when it takes up a stage's work,
LEMMA StartWorkTyped ==
    ASSUME ClaimsTyped, NEW p \in Firings, Running(p), NEW how \in {"insert", "reclaim"},
           StartWork(p, how)
    PROVE  firing' \in [Firings -> FiringStates]
  <1> DEFINE todo == TodoOf(Stage(p))
             begun == [firing[p] EXCEPT !.phase = "work", !.todo = todo,
                                        !.since = tick, !.by = how]
  <1>1. Stage(p) \in {1, 2, 3}
    BY StageTyped DEF Jobs, TRIAL_WARNINGS, SHOPIFY_SYNC, MEASUREMENT
  <1>2. todo \in SUBSET Shops
    BY <1>1 DEF ClaimsTyped, TodoOf, TRIAL_WARNINGS, SHOPIFY_SYNC, MEASUREMENT
  <1>3. firing[p] \in FiringStates /\ tick \in Nat
    BY DEF ClaimsTyped
  <1>4. firing' = [firing EXCEPT ![p] = begun]
    BY DEF StartWork, ClaimsTyped
  <1> HIDE DEF todo
  <1>5. begun \in FiringStates
    BY <1>2, <1>3 DEF FiringStates
  <1> HIDE DEF begun
  <1>6. QED
    BY <1>4, <1>5 DEF ClaimsTyped

\* and when it goes on to the next.
LEMMA NextStageTyped ==
    ASSUME ClaimsTyped, NEW p \in Firings, NextStage(p)
    PROVE  firing' \in [Firings -> FiringStates]
  BY DEF ClaimsTyped, NextStage, FiringStates, NoFiring, Never

\* Every action keeps the types of the claims.
LEMMA TypeStep == IInv /\ [Next]_vars => ClaimsTyped'
  <1> SUFFICES ASSUME IInv, [Next]_vars PROVE ClaimsTyped'
    OBVIOUS
  <1> USE DailyRunAssumption
  <1>0. ClaimsTyped
    BY DEF IInv
  <1>1. CASE UNCHANGED vars
    BY <1>0, <1>1 DEF vars, ClaimsTyped
  <1>2. CASE NextHalf
    BY <1>0, <1>2 DEF NextHalf, Syncing, ClaimsTyped
  <1>3. CASE NextDay
    BY <1>0, <1>3 DEF NextDay, Syncing, ClaimsTyped, RunRows, NoRun, Never
  <1>4. CASE FireCron
    BY <1>0, <1>4 DEF FireCron, Fire, Syncing, ClaimsTyped, FiringStates, NoFiring, Never
  <1>5. CASE MissFiring
    BY <1>0, <1>5 DEF MissFiring, Syncing, ClaimsTyped
  <1>6. ASSUME NEW p \in Firings, FireByHand(p) PROVE ClaimsTyped'
    BY <1>0, <1>6 DEF FireByHand, Fire, Syncing, ClaimsTyped, FiringStates, NoFiring, Never
  <1>7. ASSUME NEW p \in Firings, Claim(p) \/ Reclaim(p) PROVE ClaimsTyped'
    <2>1. Running(p) /\ Stage(p) \in Jobs
      BY <1>0, <1>7, StageTyped DEF Claim, Reclaim
    <2>2. firing' \in [Firings -> FiringStates]
      BY <1>0, <1>7, <2>1, StartWorkTyped DEF Claim, Reclaim
    <2>3. run' \in [Jobs -> RunRows]
      BY <1>0, <1>7, <2>1 DEF Claim, Reclaim, ClaimsTyped, RunRows
    <2>4. QED
      BY <1>0, <1>7, <2>2, <2>3 DEF Claim, Reclaim, Clock, Syncing, ClaimsTyped
  <1>8. ASSUME NEW p \in Firings, FindStage(p) PROVE ClaimsTyped'
    <2>1. Stage(p) \in Jobs
      BY <1>0, <1>8, StageTyped DEF FindStage
    <2>2. firing' \in [Firings -> FiringStates]
      <3>1. CASE firing' = [firing EXCEPT ![p].phase = "reclaim"]
        BY <1>0, <3>1 DEF ClaimsTyped, FiringStates
      <3>2. CASE NextStage(p)
        BY <1>0, <3>2, NextStageTyped
      <3>3. QED
        BY <1>8, <3>1, <3>2 DEF FindStage
    <2>3. contested' \subseteq Jobs
      BY <1>0, <1>8, <2>1 DEF FindStage, ClaimsTyped
    <2>4. QED
      BY <1>0, <1>8, <2>2, <2>3 DEF FindStage, Clock, Syncing, ClaimsTyped
  <1>9. ASSUME NEW p \in Firings, Die(p) PROVE ClaimsTyped'
    BY <1>0, <1>9 DEF Die, Clock, Syncing, ClaimsTyped, FiringStates, NoFiring, Never
  <1>10. ASSUME NEW p \in Firings, FailToClaim(p) \/ FinishStage(p) \/ FailStage(p)
         PROVE  ClaimsTyped'
    <2>1. Stage(p) \in Jobs
      BY <1>0, <1>10, StageTyped DEF FailToClaim, FinishStage, FailStage, AtWork
    <2>2. firing' \in [Firings -> FiringStates]
      BY <1>0, <1>10, NextStageTyped DEF FailToClaim, FinishStage, FailStage
    <2>3. run' \in [Jobs -> RunRows]
      BY <1>0, <1>10, <2>1 DEF FailToClaim, FinishStage, FailStage, ClaimsTyped, RunRows
    <2>4. QED
      BY <1>0, <1>10, <2>2, <2>3
      DEF FailToClaim, FinishStage, FailStage, Clock, Syncing, ClaimsTyped
  <1>11. ASSUME NEW p \in Firings, NEW s \in Shops,
                SyncShop(p, s) \/ MeasureShop(p, s) \/ FailShop(p, s)
         PROVE  ClaimsTyped'
    <2>1. Done(p, s)
      BY <1>11 DEF SyncShop, MeasureShop, FailShop
    <2>2. firing' \in [Firings -> FiringStates]
      BY <1>0, <2>1 DEF Done, ClaimsTyped, FiringStates
    <2>3. UNCHANGED <<tick, run, connected, contested>>
      BY <1>11 DEF SyncShop, MeasureShop, FailShop, Clock, Syncing
    <2>4. QED
      BY <1>0, <2>2, <2>3 DEF ClaimsTyped
  <1>12. ASSUME NEW w \in Workers, NEW k \in queue, StartSync(w, k) PROVE ClaimsTyped'
    BY <1>0, <1>12 DEF StartSync, Clock, ClaimsTyped
  <1>13. ASSUME NEW w \in Workers,
                FinishSync(w) \/ FindRevoked(w) \/ FailSync(w) \/ CrashSync(w)
         PROVE  ClaimsTyped'
    BY <1>0, <1>13 DEF FinishSync, FindRevoked, FailSync, CrashSync, Clock, ClaimsTyped
  <1>14. QED
    BY <1>1, <1>2, <1>3, <1>4, <1>5, <1>6, <1>7, <1>8, <1>9, <1>10, <1>11, <1>12, <1>13
    DEF Next

\* The claims proper.
ClaimsHold == BusyRowRuns /\ TwoBusyContested /\ InsertIsOldest

\* A step in which nobody takes or finds a stage keeps the claims: who is busy
\* was as busy before, and a row that changes its status belongs to a stage that
\* only contested firings are left at.
LEMMA CalmStep ==
    ASSUME IInv, ClaimsTyped', contested' = contested, tick <= tick',
           \A q \in Firings : Busy(q)' =>
                /\ Busy(q)
                /\ Stage(q)' = Stage(q)
                /\ firing'[q].phase = firing[q].phase
                /\ firing'[q].since = firing[q].since
                /\ firing'[q].by = firing[q].by,
           \A j \in Jobs :
                /\ run'[j].started = run[j].started
                /\ \/ run'[j].status = run[j].status
                   \/ /\ run'[j].status # "absent"
                      /\ \A q \in Firings : Busy(q)' /\ Stage(q)' = j => j \in contested
    PROVE  ClaimsHold'
  <1>1. \A q \in Firings : AtWork(q)' => Busy(q)' /\ AtWork(q)
    BY DEF AtWork, Busy
  <1>2. \A q \in Firings : Busy(q) => Stage(q) \in Jobs
    BY StageTyped DEF Busy, IInv
  <1>3. BusyRowRuns'
    <2> SUFFICES ASSUME NEW q \in Firings, Busy(q)'
                 PROVE  /\ run'[Stage(q)'].status # "absent"
                        /\ run'[Stage(q)'].status = "running" \/ Stage(q)' \in contested'
      BY DEF BusyRowRuns
    <2>1. /\ run[Stage(q)].status # "absent"
          /\ run[Stage(q)].status = "running" \/ Stage(q) \in contested
      BY DEF IInv, BusyRowRuns
    <2>2. QED
      BY <1>2, <2>1
  <1>4. TwoBusyContested'
    <2> SUFFICES ASSUME NEW p \in Firings, NEW q \in Firings, p # q, Busy(p)', Busy(q)',
                        Stage(p)' = Stage(q)'
                 PROVE  Stage(p)' \in contested'
      BY DEF TwoBusyContested
    <2>1. QED
      BY DEF IInv, TwoBusyContested
  <1>5. InsertIsOldest'
    <2> SUFFICES ASSUME NEW p \in Firings, AtWork(p)'
                 PROVE  /\ firing'[p].by # "nobody"
                        /\ firing'[p].by = "insert" =>
                             /\ firing'[p].since <= run'[Stage(p)'].started
                             /\ firing'[p].since <= tick'
                             /\ \A q \in Firings \ {p} :
                                  Busy(q)' /\ Stage(q)' = Stage(p)' =>
                                    IF firing'[q].phase = "reclaim"
                                    THEN firing'[p].since < tick'
                                    ELSE /\ firing'[q].by = "reclaim"
                                         /\ firing'[p].since < firing'[q].since
      BY DEF InsertIsOldest
    <2>1. AtWork(p) /\ Busy(p)' /\ Stage(p) \in Jobs
      BY <1>1, <1>2
    <2>2. firing[p].since \in Int /\ tick \in Int /\ tick' \in Int
      BY DEF IInv, ClaimsTyped, FiringStates, Never
    <2>3. firing[p].by # "nobody"
      BY <2>1 DEF IInv, InsertIsOldest
    <2>4. ASSUME firing[p].by = "insert"
          PROVE  /\ firing[p].since <= run[Stage(p)].started
                 /\ firing[p].since <= tick
      BY <2>1, <2>4 DEF IInv, InsertIsOldest
    <2>5. ASSUME firing[p].by = "insert", NEW q \in Firings \ {p}, Busy(q)',
                 Stage(q)' = Stage(p)'
          PROVE  IF firing[q].phase = "reclaim"
                 THEN firing[p].since < tick
                 ELSE firing[q].by = "reclaim" /\ firing[p].since < firing[q].since
      BY <2>1, <2>5 DEF IInv, InsertIsOldest
    <2>6. QED
      BY <2>1, <2>2, <2>3, <2>4, <2>5
  <1>6. QED
    BY <1>3, <1>4, <1>5 DEF ClaimsHold

\* A process between stages, or at none, is not busy.
LEMMA NextStageNotBusy ==
    ASSUME IInv, NEW p \in Firings, NextStage(p)
    PROVE  ~Busy(p)'
  BY DEF IInv, ClaimsTyped, NextStage, NoFiring, Busy

\* The insert finds nobody at the stage: it had no row.
LEMMA ClaimStep ==
    ASSUME IInv, ClaimsTyped', NEW p \in Firings, Claim(p)
    PROVE  ClaimsHold'
  <1> DEFINE j == Stage(p)
  <1>1. j \in Jobs /\ tick \in Nat /\ tick' = tick /\ contested' = contested
    BY StageTyped DEF IInv, ClaimsTyped, Claim, Clock
  <1>2. /\ firing'[p].stages = firing[p].stages /\ firing'[p].phase = "work"
        /\ firing'[p].since = tick /\ firing'[p].by = "insert"
        /\ Stage(p)' = j
        /\ \A q \in Firings \ {p} : firing'[q] = firing[q]
    BY DEF IInv, ClaimsTyped, FiringStates, Claim, StartWork, Stage
  <1>3. \A q \in Firings \ {p} :
            Stage(q)' = Stage(q) /\ Busy(q)' = Busy(q) /\ AtWork(q)' = AtWork(q)
    BY <1>2 DEF Stage, Busy, AtWork, Running
  <1>4. \A q \in Firings \ {p} : Busy(q) => Stage(q) # j
    BY DEF Claim, IInv, BusyRowRuns
  <1>5. /\ run'[j] = [status |-> "running", started |-> tick]
        /\ \A k \in Jobs \ {j} : run'[k] = run[k]
    BY <1>1 DEF Claim, IInv, ClaimsTyped
  <1>6. \A q \in Firings : Busy(q) => Stage(q) \in Jobs
    BY StageTyped DEF Busy, IInv
  <1>7. \A q \in Firings : AtWork(q) => Busy(q)
    BY DEF AtWork, Busy
  <1> HIDE DEF j
  <1>8. BusyRowRuns'
    <2> SUFFICES ASSUME NEW q \in Firings, Busy(q)'
                 PROVE  /\ run'[Stage(q)'].status # "absent"
                        /\ run'[Stage(q)'].status = "running" \/ Stage(q)' \in contested'
      BY DEF BusyRowRuns
    <2>1. CASE q = p
      BY <1>2, <1>5, <2>1
    <2>2. CASE q # p
      <3>1. Busy(q) /\ Stage(q)' = Stage(q) /\ run'[Stage(q)] = run[Stage(q)]
        BY <1>3, <1>4, <1>5, <1>6, <2>2
      <3>2. QED
        BY <1>1, <3>1 DEF IInv, BusyRowRuns
    <2>3. QED
      BY <2>1, <2>2
  <1>9. TwoBusyContested'
    <2> SUFFICES ASSUME NEW q \in Firings, NEW r \in Firings, q # r, Busy(q)', Busy(r)',
                        Stage(q)' = Stage(r)'
                 PROVE  Stage(q)' \in contested'
      BY DEF TwoBusyContested
    <2>1. q # p /\ r # p
      BY <1>2, <1>3, <1>4
    <2>2. QED
      BY <1>1, <1>3, <2>1 DEF IInv, TwoBusyContested
  <1>10. InsertIsOldest'
    <2> SUFFICES ASSUME NEW q \in Firings, AtWork(q)'
                 PROVE  /\ firing'[q].by # "nobody"
                        /\ firing'[q].by = "insert" =>
                             /\ firing'[q].since <= run'[Stage(q)'].started
                             /\ firing'[q].since <= tick'
                             /\ \A r \in Firings \ {q} :
                                  Busy(r)' /\ Stage(r)' = Stage(q)' =>
                                    IF firing'[r].phase = "reclaim"
                                    THEN firing'[q].since < tick'
                                    ELSE /\ firing'[r].by = "reclaim"
                                         /\ firing'[q].since < firing'[r].since
      BY DEF InsertIsOldest
    <2>1. CASE q = p
      <3>1. \A r \in Firings \ {p} : ~(Busy(r)' /\ Stage(r)' = Stage(p)')
        BY <1>2, <1>3, <1>4
      <3>2. QED
        BY <1>1, <1>2, <1>5, <2>1, <3>1
    <2>2. CASE q # p
      <3>1. AtWork(q) /\ Stage(q)' = Stage(q) /\ run'[Stage(q)] = run[Stage(q)]
            /\ firing'[q] = firing[q] /\ Stage(q) # j
        BY <1>2, <1>3, <1>4, <1>5, <1>6, <1>7, <2>2
      <3>2. \A r \in Firings \ {q} : Busy(r)' /\ Stage(r)' = Stage(q)' =>
                Busy(r) /\ Stage(r) = Stage(q) /\ firing'[r] = firing[r]
        BY <1>2, <1>3, <3>1
      <3>3. QED
        BY <1>1, <3>1, <3>2 DEF IInv, InsertIsOldest
    <2>3. QED
      BY <2>1, <2>2
  <1>11. QED
    BY <1>8, <1>9, <1>10 DEF ClaimsHold

\* Finding a stale row marks the stage as contested if somebody is at it, and
\* whoever inserted it did so in an earlier tick.
LEMMA FindStaleStep ==
    ASSUME IInv, ClaimsTyped', NEW p \in Firings, FindStage(p), Stale(run[Stage(p)]),
           firing' = [firing EXCEPT ![p].phase = "reclaim"],
           contested' = IF Contested(p) THEN contested \cup {Stage(p)} ELSE contested
    PROVE  ClaimsHold'
  <1> DEFINE j == Stage(p)
  <1>1. /\ j \in Jobs /\ tick \in Nat /\ tick' = tick /\ run' = run
        /\ contested \subseteq contested' /\ ~Busy(p)
        /\ run[j].status = "running" /\ run[j].started < tick
        /\ run[j].started \in Int
    BY StageTyped DEF IInv, ClaimsTyped, RunRows, Never, FindStage, Clock, Busy, Stale
  <1>2. /\ firing'[p].stages = firing[p].stages /\ firing'[p].phase = "reclaim"
        /\ Stage(p)' = j /\ ~AtWork(p)'
        /\ \A q \in Firings \ {p} : firing'[q] = firing[q]
    BY DEF IInv, ClaimsTyped, FiringStates, Stage, AtWork
  <1>3. \A q \in Firings \ {p} :
            Stage(q)' = Stage(q) /\ Busy(q)' = Busy(q) /\ AtWork(q)' = AtWork(q)
    BY <1>2 DEF Stage, Busy, AtWork, Running
  <1>4. \A q \in Firings \ {p} : Busy(q) /\ Stage(q) = j => j \in contested'
    BY <1>1 DEF Contested, Busy
  <1>5. \A q \in Firings : AtWork(q) => Busy(q)
    BY DEF AtWork, Busy
  <1> HIDE DEF j
  <1>6. BusyRowRuns'
    BY <1>1, <1>2, <1>3 DEF IInv, BusyRowRuns
  <1>7. TwoBusyContested'
    BY <1>1, <1>2, <1>3, <1>4 DEF IInv, TwoBusyContested
  <1>8. InsertIsOldest'
    <2> SUFFICES ASSUME NEW q \in Firings, AtWork(q)'
                 PROVE  /\ firing'[q].by # "nobody"
                        /\ firing'[q].by = "insert" =>
                             /\ firing'[q].since <= run'[Stage(q)'].started
                             /\ firing'[q].since <= tick'
                             /\ \A r \in Firings \ {q} :
                                  Busy(r)' /\ Stage(r)' = Stage(q)' =>
                                    IF firing'[r].phase = "reclaim"
                                    THEN firing'[q].since < tick'
                                    ELSE /\ firing'[r].by = "reclaim"
                                         /\ firing'[q].since < firing'[r].since
      BY DEF InsertIsOldest
    <2>1. /\ q # p /\ AtWork(q) /\ Stage(q)' = Stage(q) /\ firing'[q] = firing[q]
          /\ firing[q].since \in Int
      BY <1>2, <1>3 DEF IInv, ClaimsTyped, FiringStates, Never
    <2>2. ASSUME firing[q].by = "insert", Stage(q) = j
          PROVE  firing[q].since < tick
      BY <1>1, <2>1, <2>2 DEF IInv, InsertIsOldest
    <2>3. \A r \in Firings \ {p, q} : Busy(r)' /\ Stage(r)' = Stage(q)' =>
              Busy(r) /\ Stage(r) = Stage(q) /\ firing'[r] = firing[r]
      BY <1>2, <1>3, <2>1
    <2>4. QED
      BY <1>1, <1>2, <2>1, <2>2, <2>3 DEF IInv, InsertIsOldest
  <1>9. QED
    BY <1>6, <1>7, <1>8 DEF ClaimsHold

\* A take-over starts after whoever inserted the row did.
LEMMA ReclaimStep ==
    ASSUME IInv, ClaimsTyped', NEW p \in Firings, Reclaim(p)
    PROVE  ClaimsHold'
  <1> DEFINE j == Stage(p)
  <1>1. /\ j \in Jobs /\ tick \in Nat /\ tick' = tick /\ contested' = contested
        /\ Busy(p) /\ firing[p].phase = "reclaim"
    BY StageTyped DEF IInv, ClaimsTyped, Reclaim, Clock, Busy
  <1>2. /\ firing'[p].stages = firing[p].stages /\ firing'[p].phase = "work"
        /\ firing'[p].since = tick /\ firing'[p].by = "reclaim"
        /\ Stage(p)' = j
        /\ \A q \in Firings \ {p} : firing'[q] = firing[q]
    BY DEF IInv, ClaimsTyped, FiringStates, Reclaim, StartWork, Stage
  <1>3. \A q \in Firings :
            /\ Stage(q)' = Stage(q)
            /\ Busy(q)' => Busy(q)
            /\ q # p => AtWork(q)' = AtWork(q)
    BY <1>1, <1>2 DEF Stage, Busy, AtWork, Running
  <1>4. /\ run'[j].started = tick /\ run'[j].status = run[j].status
        /\ \A k \in Jobs \ {j} : run'[k] = run[k]
    BY <1>1 DEF Reclaim, IInv, ClaimsTyped, RunRows
  <1>5. \A q \in Firings : Busy(q) => Stage(q) \in Jobs
    BY StageTyped DEF Busy, IInv
  <1>6. \A q \in Firings : AtWork(q) => Busy(q)
    BY DEF AtWork, Busy
  <1> HIDE DEF j
  <1>7. BusyRowRuns'
    BY <1>1, <1>3, <1>4, <1>5 DEF IInv, BusyRowRuns
  <1>8. TwoBusyContested'
    BY <1>1, <1>3 DEF IInv, TwoBusyContested
  <1>9. InsertIsOldest'
    <2> SUFFICES ASSUME NEW q \in Firings, AtWork(q)'
                 PROVE  /\ firing'[q].by # "nobody"
                        /\ firing'[q].by = "insert" =>
                             /\ firing'[q].since <= run'[Stage(q)'].started
                             /\ firing'[q].since <= tick'
                             /\ \A r \in Firings \ {q} :
                                  Busy(r)' /\ Stage(r)' = Stage(q)' =>
                                    IF firing'[r].phase = "reclaim"
                                    THEN firing'[q].since < tick'
                                    ELSE /\ firing'[r].by = "reclaim"
                                         /\ firing'[q].since < firing'[r].since
      BY DEF InsertIsOldest
    <2>1. CASE q = p
      BY <1>2, <2>1
    <2>2. CASE q # p
      <3>1. AtWork(q) /\ Stage(q)' = Stage(q) /\ Stage(q) \in Jobs /\ firing'[q] = firing[q]
        BY <1>2, <1>3, <1>5, <1>6, <2>2
      <3>2. ASSUME firing[q].by = "insert"
            PROVE  firing[q].since <= tick /\ firing[q].since <= run'[Stage(q)].started
        <4>1. firing[q].since <= tick /\ firing[q].since <= run[Stage(q)].started
          BY <3>1, <3>2 DEF IInv, InsertIsOldest
        <4>2. QED
          BY <1>4, <3>1, <4>1
      <3>3. \A r \in Firings \ {p, q} : Busy(r)' /\ Stage(r)' = Stage(q)' =>
                Busy(r) /\ Stage(r) = Stage(q) /\ firing'[r] = firing[r]
        BY <1>2, <1>3, <3>1
      <3>4. ASSUME firing[q].by = "insert", Stage(q) = j
            PROVE  firing[q].since < tick
        BY <1>1, <2>2, <3>1, <3>4 DEF j, IInv, InsertIsOldest
      <3>5. QED
        BY <1>1, <1>2, <3>1, <3>2, <3>3, <3>4 DEF IInv, InsertIsOldest
    <2>3. QED
      BY <2>1, <2>2
  <1>10. QED
    BY <1>7, <1>8, <1>9 DEF ClaimsHold

\* Every action keeps the inductive invariant.
LEMMA ClaimsStep == IInv /\ [Next]_vars => IInv'
  <1> SUFFICES ASSUME IInv, [Next]_vars PROVE IInv'
    OBVIOUS
  <1>0. ClaimsTyped' /\ tick \in Nat
    BY TypeStep DEF IInv, ClaimsTyped
  <1>1. SUFFICES ClaimsHold'
    BY <1>0 DEF IInv, ClaimsHold
  \* Steps that leave the rows and the firings alone.
  <1>2. CASE UNCHANGED <<run, firing, contested>> /\ tick <= tick'
    BY <1>0, <1>2, CalmStep DEF Busy, Running, Stage
  <1>3. CASE UNCHANGED vars
    BY <1>0, <1>2, <1>3 DEF vars
  <1>4. CASE NextHalf
    BY <1>0, <1>2, <1>4 DEF NextHalf
  <1>5. CASE NextDay
    <2>1. \A p \in Firings : ~Busy(p)' /\ ~AtWork(p)'
      BY <1>5 DEF NextDay, Busy, AtWork, Running
    <2>2. QED
      BY <2>1 DEF ClaimsHold, BusyRowRuns, TwoBusyContested, InsertIsOldest
  <1>6. CASE MissFiring
    BY <1>0, <1>2, <1>6 DEF MissFiring
  <1>7. ASSUME NEW w \in Workers, NEW k \in queue, StartSync(w, k) PROVE ClaimsHold'
    BY <1>0, <1>2, <1>7 DEF StartSync, Clock
  <1>8. ASSUME NEW w \in Workers,
               FinishSync(w) \/ FindRevoked(w) \/ FailSync(w) \/ CrashSync(w)
        PROVE  ClaimsHold'
    BY <1>0, <1>2, <1>8 DEF FinishSync, FindRevoked, FailSync, CrashSync, Clock
  \* Steps of one process that is not busy afterwards.
  <1>9. ASSUME NEW p \in Firings, ~Busy(p)', UNCHANGED <<tick, run, contested>>,
               NEW state, firing' = [firing EXCEPT ![p] = state]
        PROVE  ClaimsHold'
    <2>1. \A q \in Firings \ {p} : firing'[q] = firing[q]
      BY <1>9 DEF IInv, ClaimsTyped
    <2>2. QED
      BY <1>0, <1>9, <2>1, CalmStep DEF Busy, Running, Stage
  <1>10. ASSUME NEW p \in Firings, NEW stages, Fire(p, stages) PROVE ClaimsHold'
    <2>1. ~Busy(p)'
      BY <1>10 DEF Fire, NoFiring, Busy, IInv, ClaimsTyped
    <2>2. QED
      BY <1>9, <1>10, <2>1 DEF Fire
  <1>11. CASE FireCron
    BY <1>10, <1>11, DailyRunAssumption DEF FireCron
  <1>12. ASSUME NEW p \in Firings, FireByHand(p) PROVE ClaimsHold'
    BY <1>10, <1>12 DEF FireByHand
  <1>13. ASSUME NEW p \in Firings, FailToClaim(p) PROVE ClaimsHold'
    BY <1>9, <1>13, NextStageNotBusy DEF FailToClaim, NextStage, Clock
  <1>14. ASSUME NEW p \in Firings, Die(p) PROVE ClaimsHold'
    <2>1. ~Busy(p)'
      BY <1>14 DEF Die, NoFiring, Busy, IInv, ClaimsTyped
    <2>2. QED
      BY <1>9, <1>14, <2>1 DEF Die, Clock
  <1>15. ASSUME NEW p \in Firings, FinishStage(p) \/ FailStage(p) PROVE ClaimsHold'
    <2> DEFINE j == Stage(p)
    <2>1. j \in Jobs /\ Busy(p) /\ NextStage(p) /\ UNCHANGED <<tick, contested>>
      BY <1>15, StageTyped DEF FinishStage, FailStage, AtWork, Busy, Clock, IInv
    <2>2. ~Busy(p)' /\ \A q \in Firings \ {p} : firing'[q] = firing[q]
      BY <2>1, NextStageNotBusy DEF NextStage, IInv, ClaimsTyped
    <2>3. \A q \in Firings : Busy(q)' => q # p /\ Busy(q) /\ Stage(q)' = Stage(q)
      BY <2>2 DEF Busy, Running, Stage
    <2>4. \A q \in Firings : Busy(q)' /\ Stage(q)' = j => j \in contested
      BY <2>1, <2>3 DEF IInv, TwoBusyContested
    <2>5. /\ run'[j].started = run[j].started /\ run'[j].status # "absent"
          /\ \A k \in Jobs \ {j} : run'[k] = run[k]
      BY <1>15, <2>1 DEF FinishStage, FailStage, IInv, ClaimsTyped, RunRows
    <2> HIDE DEF j
    <2>6. QED
      BY <1>0, <2>1, <2>2, <2>3, <2>4, <2>5, CalmStep
  \* A turn of a stage's loop leaves everything but the shops to do.
  <1>16. ASSUME NEW p \in Firings, NEW s \in Shops,
                SyncShop(p, s) \/ MeasureShop(p, s) \/ FailShop(p, s)
         PROVE  ClaimsHold'
    <2>1. Done(p, s) /\ UNCHANGED <<tick, run, contested>>
      BY <1>16 DEF SyncShop, MeasureShop, FailShop, Clock
    <2>2. \A q \in Firings :
              /\ firing'[q].stages = firing[q].stages /\ firing'[q].phase = firing[q].phase
              /\ firing'[q].since = firing[q].since /\ firing'[q].by = firing[q].by
      BY <2>1 DEF Done, IInv, ClaimsTyped, FiringStates
    <2>3. QED
      BY <1>0, <2>1, <2>2, CalmStep DEF Busy, Running, Stage
  \* Steps that take or find a stage.
  <1>17. ASSUME NEW p \in Firings, FindStage(p) PROVE ClaimsHold'
    <2>1. CASE NextStage(p) /\ UNCHANGED contested
      BY <1>9, <1>17, <2>1, NextStageNotBusy DEF FindStage, NextStage, Clock
    <2>2. CASE ~(NextStage(p) /\ UNCHANGED contested)
      BY <1>0, <1>17, <2>2, FindStaleStep DEF FindStage
    <2>3. QED
      BY <2>1, <2>2
  <1>18. QED
    BY <1>0, <1>3, <1>4, <1>5, <1>6, <1>7, <1>8, <1>11, <1>12, <1>13, <1>14, <1>15, <1>16,
       <1>17, ClaimStep, ReclaimStep
    DEF Next

\* scheduler.claim: the claims stay sound whatever fails and whoever fires.
THEOREM ClaimsSound == Spec => []IInv
  BY InitIInv, ClaimsStep, PTL DEF Spec

\* The types of the rest of DailyRun.
LEMMA LargestOfFew ==
    ASSUME NEW a \in Int, NEW b \in Int, NEW c \in Int
    PROVE  Max({a, b, c}) \in {a, b, c} /\ \A n \in {a, b, c} : n <= Max({a, b, c})
  <1>1. \E m \in {a, b, c} : \A n \in {a, b, c} : m >= n
    <2>1. (a >= b /\ a >= c) \/ (b >= a /\ b >= c) \/ (c >= a /\ c >= b)
      OBVIOUS
    <2>2. QED
      BY <2>1
  <1>2. /\ Max({a, b, c}) \in {a, b, c}
        /\ \A n \in {a, b, c} : Max({a, b, c}) >= n
    BY <1>1 DEF Max
  <1>3. QED
    BY <1>2

LEMMA LeastOfTwo ==
    ASSUME NEW a \in Int, NEW b \in Int
    PROVE  Min({a, b}) = IF a <= b THEN a ELSE b
  <1>1. \E m \in {a, b} : \A n \in {a, b} : m <= n
    OBVIOUS
  <1>2. Min({a, b}) \in {a, b} /\ \A n \in {a, b} : Min({a, b}) <= n
    BY <1>1 DEF Min
  <1>3. QED
    BY <1>2

LEMMA DaysTyped ==
    ASSUME tick \in Ticks
    PROVE  Today \in 1..LastDay
  BY DailyRunAssumption DEF Ticks, Today

\* However far behind a shop is, its sync reads some days and not too many.
LEMMA SyncDaysTyped ==
    ASSUME TypeOK, NEW s \in Shops
    PROVE  SyncDaysFor(s) \in 1..MAX_SYNC_DAYS
  <1> USE DailyRunAssumption
  <1> DEFINE gap == Today - channel[s].through + 2
             open == Today - WindowFirst + 1
             routine == {DAILY_SYNC_DAYS, gap}
             window == IF s \in priced THEN {} ELSE {open}
             most == Max(routine \cup window)
  <1>1. gap \in Int /\ open \in Int /\ DAILY_SYNC_DAYS \in Int
    BY DaysTyped DEF TypeOK, WindowFirst
  <1>2. most \in Int /\ DAILY_SYNC_DAYS <= most
    <2> HIDE DEF gap, open
    <2>1. CASE s \in priced
      <3>1. routine \cup window = {DAILY_SYNC_DAYS, gap, gap}
        BY <2>1
      <3> DEFINE few == {DAILY_SYNC_DAYS, gap, gap}
      <3>2. most = Max(few)
        BY ONLY <3>1
      <3>3. Max(few) \in few /\ \A n \in few : n <= Max(few)
        BY <1>1, LargestOfFew, Zenon
      <3> HIDE DEF most
      <3>4. QED
        BY <1>1, <3>2, <3>3
    <2>2. CASE s \notin priced
      <3>1. routine \cup window = {DAILY_SYNC_DAYS, gap, open}
        BY <2>2
      <3> DEFINE few == {DAILY_SYNC_DAYS, gap, open}
      <3>2. most = Max(few)
        BY ONLY <3>1
      <3>3. Max(few) \in few /\ \A n \in few : n <= Max(few)
        BY <1>1, LargestOfFew, Zenon
      <3> HIDE DEF most
      <3>4. QED
        BY <1>1, <3>2, <3>3
    <2>3. QED
      BY <2>1, <2>2
  <1>3. SyncDaysFor(s) = Min({MAX_SYNC_DAYS, most})
    BY DEF SyncDaysFor
  <1> HIDE DEF most
  <1>4. QED
    BY <1>2, <1>3, LeastOfTwo

LEMMA InitTyped == Init => TypeOK
  BY DailyRunAssumption
  DEF Init, TypeOK, Ticks, Jobs, NoRun, NoFiring, NoSync, Never


\* What the types say beyond ClaimsTyped: every date is of a tick of the model,
\* and the rest of the state, which the claims do not depend on.
Dated ==
    /\ tick \in Ticks
    /\ \A j \in Jobs : run[j].started \in Ticks \cup {Never}
    /\ \A p \in Firings : firing[p].since \in Ticks \cup {Never}

SyncsTyped ==
    /\ DOMAIN record \subseteq Keys
    /\ \A k \in DOMAIN record :
            record[k] \in [status: {"processing", "failed", "completed"}, created: Ticks]
    /\ queue \subseteq Keys
    /\ sync \in [Workers -> [key: Keys, from: Int] \cup {NoSync}]
    /\ channel \in [Shops -> [from: Int, through: 0..LastDay]]

Counted == fired \in 0..LastDay /\ byHand \in 0..MaxByHand /\ failures \in 0..MaxFailures

LEMMA TicksGoOn ==
    ASSUME TypeOK, NextHalf \/ NextDay
    PROVE  tick' \in Ticks
  <1>1. CASE NextDay
    BY <1>1 DEF NextDay
  <1>2. CASE NextHalf
    <2>1. tick \in 0..(2 * LastDay - 1) /\ tick % 2 = 0 /\ tick' = tick + 1
      BY <1>2 DEF TypeOK, Ticks, NextHalf
    <2>2. tick # 2 * LastDay - 1
      BY <2>1, DailyRunAssumption
    <2>3. tick' \in 0..(2 * LastDay - 1)
      BY <2>1, <2>2, DailyRunAssumption
    <2>4. QED
      BY <2>3 DEF Ticks
  <1>3. QED
    BY <1>1, <1>2

\* Dates are taken from the clock.
LEMMA DatesTyped ==
    ASSUME TypeOK, ClaimsTyped, [Next]_vars
    PROVE  Dated'
  <1> USE DailyRunAssumption
  <1>1. CASE UNCHANGED <<run, firing>> /\ tick' \in Ticks
    BY <1>1 DEF Dated, TypeOK
  <1>2. CASE NextHalf
    BY <1>1, <1>2, TicksGoOn DEF NextHalf
  <1>3. CASE NextDay
    <2>1. tick' \in Ticks /\ UNCHANGED firing
      BY <1>3, TicksGoOn DEF NextDay
    <2>2. \A j \in Jobs : run'[j].started = Never
      BY <1>3 DEF NextDay, NoRun
    <2>3. QED
      BY <2>1, <2>2 DEF Dated, TypeOK
  \* Steps of a process that does not begin to work.
  <1>4. ASSUME NEW p \in Firings, NEW state, state.since \in Ticks \cup {Never},
               firing' = [firing EXCEPT ![p] = state], UNCHANGED tick,
               \A j \in Jobs : run'[j].started = run[j].started
        PROVE  Dated'
    BY <1>4 DEF Dated, TypeOK
  <1>5. ASSUME NEW p \in Firings, NEW stages, Fire(p, stages) PROVE Dated'
    <2>1. [NoFiring EXCEPT !.stages = stages].since = Never
      BY DEF NoFiring
    <2>2. QED
      BY <1>4, <1>5, <2>1 DEF Fire
  <1>6. ASSUME NEW p \in Firings, NextStage(p), UNCHANGED tick,
               \A j \in Jobs : run'[j].started = run[j].started
        PROVE  Dated'
    <2>1. [NoFiring EXCEPT !.stages = firing[p].stages \ {Stage(p)}].since = Never
      BY DEF NoFiring
    <2>2. QED
      BY <1>4, <1>6, <2>1 DEF NextStage
  <1>7. ASSUME NEW p \in Firings, Claim(p) \/ Reclaim(p) PROVE Dated'
    <2>1. Stage(p) \in Jobs
      BY <1>7, StageTyped DEF Claim, Reclaim
    <2>2. \A j \in Jobs : run'[j].started \in {run[j].started, tick}
      BY <1>7, <2>1 DEF Claim, Reclaim, TypeOK
    <2>3. \A q \in Firings : firing'[q].since \in {firing[q].since, tick}
      BY <1>7 DEF Claim, Reclaim, StartWork, TypeOK
    <2>4. QED
      BY <1>7, <2>2, <2>3 DEF Claim, Reclaim, Clock, Dated, TypeOK
  <1>8. ASSUME NEW p \in Firings, FindStage(p) PROVE Dated'
    <2>1. CASE firing' = [firing EXCEPT ![p].phase = "reclaim"]
      <3>1. \A q \in Firings : firing'[q].since = firing[q].since
        BY <2>1 DEF TypeOK
      <3>2. QED
        BY <1>8, <3>1 DEF FindStage, Clock, Dated, TypeOK
    <2>2. QED
      BY <1>6, <1>8, <2>1 DEF FindStage, Clock
  <1>9. ASSUME NEW p \in Firings, FailToClaim(p) PROVE Dated'
    BY <1>6, <1>9 DEF FailToClaim, Clock
  <1>10. ASSUME NEW p \in Firings, FinishStage(p) \/ FailStage(p) PROVE Dated'
    <2>1. Stage(p) \in Jobs
      BY <1>10, StageTyped DEF FinishStage, FailStage, AtWork
    <2>2. \A j \in Jobs : run'[j].started = run[j].started
      BY <1>10, <2>1 DEF FinishStage, FailStage, TypeOK
    <2>3. QED
      BY <1>6, <1>10, <2>2 DEF FinishStage, FailStage, Clock
  <1>11. ASSUME NEW p \in Firings, Die(p) PROVE Dated'
    BY <1>4, <1>11 DEF Die, Clock, NoFiring
  <1>12. ASSUME NEW p \in Firings, NEW s \in Shops,
                SyncShop(p, s) \/ MeasureShop(p, s) \/ FailShop(p, s)
         PROVE  Dated'
    <2>1. Done(p, s) /\ UNCHANGED <<tick, run>>
      BY <1>12 DEF SyncShop, MeasureShop, FailShop, Clock
    <2>2. \A q \in Firings : firing'[q].since = firing[q].since
      BY <2>1 DEF Done, TypeOK
    <2>3. QED
      BY <2>1, <2>2 DEF Dated, TypeOK
  <1>13. ASSUME NEW w \in Workers, NEW k \in queue, StartSync(w, k) PROVE Dated'
    BY <1>1, <1>13 DEF StartSync, Clock, TypeOK
  <1>14. ASSUME NEW w \in Workers,
                FinishSync(w) \/ FindRevoked(w) \/ FailSync(w) \/ CrashSync(w)
         PROVE  Dated'
    BY <1>1, <1>14 DEF FinishSync, FindRevoked, FailSync, CrashSync, Clock, TypeOK
  <1>15. CASE MissFiring \/ UNCHANGED vars
    BY <1>1, <1>15 DEF MissFiring, vars, TypeOK
  <1>16. CASE FireCron
    BY <1>5, <1>16 DEF FireCron
  <1>17. ASSUME NEW p \in Firings, FireByHand(p) PROVE Dated'
    BY <1>5, <1>17 DEF FireByHand
  <1>18. QED
    BY <1>2, <1>3, <1>7, <1>8, <1>9, <1>10, <1>11, <1>12, <1>13, <1>14, <1>15, <1>16, <1>17
    DEF Next

\* The bounds are kept by the guards.
LEMMA CountsTyped ==
    ASSUME TypeOK, [Next]_vars
    PROVE  Counted' /\ priced' \subseteq Shops
  <1> USE DailyRunAssumption
  <1>1. Today \in 1..LastDay
    BY DaysTyped DEF TypeOK
  <1>2. Failure => failures' \in 0..MaxFailures
    BY DEF Failure, TypeOK
  <1>3. CASE FireCron \/ MissFiring
    BY <1>1, <1>2, <1>3 DEF FireCron, MissFiring, Fire, Counted, TypeOK
  <1>4. ASSUME NEW p \in Firings, FireByHand(p) PROVE Counted' /\ priced' \subseteq Shops
    BY <1>4 DEF FireByHand, Fire, Counted, TypeOK
  <1>5. CASE UNCHANGED <<fired, byHand>> /\ (Failure \/ UNCHANGED failures)
             /\ (UNCHANGED priced \/ \E s \in Shops : priced' = priced \cup {s})
    BY <1>2, <1>5 DEF Counted, TypeOK
  <1>6. ASSUME NEW p \in Firings,
               Claim(p) \/ FindStage(p) \/ Reclaim(p) \/ FailToClaim(p)
                 \/ FinishStage(p) \/ FailStage(p) \/ Die(p)
        PROVE  Counted' /\ priced' \subseteq Shops
    BY <1>5, <1>6 DEF Claim, FindStage, Reclaim, FailToClaim, FinishStage, FailStage, Die, Clock
  <1>7. ASSUME NEW p \in Firings, NEW s \in Shops,
               SyncShop(p, s) \/ MeasureShop(p, s) \/ FailShop(p, s)
        PROVE  Counted' /\ priced' \subseteq Shops
    BY <1>5, <1>7 DEF SyncShop, MeasureShop, FailShop, Clock
  <1>8. ASSUME NEW w \in Workers, NEW k \in queue, StartSync(w, k)
        PROVE  Counted' /\ priced' \subseteq Shops
    BY <1>5, <1>8 DEF StartSync, Clock
  <1>9. ASSUME NEW w \in Workers,
               FinishSync(w) \/ FindRevoked(w) \/ FailSync(w) \/ CrashSync(w)
        PROVE  Counted' /\ priced' \subseteq Shops
    BY <1>5, <1>9 DEF FinishSync, FindRevoked, FailSync, CrashSync, Clock
  <1>10. CASE NextHalf \/ NextDay \/ UNCHANGED vars
    BY <1>5, <1>10 DEF NextHalf, NextDay, vars
  <1>11. QED
    BY <1>3, <1>4, <1>6, <1>7, <1>8, <1>9, <1>10 DEF Next

\* A sync is queued, run and recorded under a key, and reads up to today.
LEMMA QueuedTyped ==
    ASSUME TypeOK, NEW p \in Firings, NEW s \in Shops, SyncShop(p, s)
    PROVE  SyncsTyped'
  <1> DEFINE k == [shop |-> s, days |-> SyncDaysFor(s)]
             new == [status |-> "processing", created |-> tick]
  <1>1. k \in Keys
    BY SyncDaysTyped DEF Keys
  <1>2. new \in [status: {"processing", "failed", "completed"}, created: Ticks]
    BY DEF TypeOK
  <1>3. \/ record' = record
        \/ record' = [n \in DOMAIN record \cup {k} |-> IF n = k THEN new ELSE record[n]]
    BY DEF SyncShop
  <1>4. queue' \in {queue, queue \cup {k}} /\ UNCHANGED <<sync, channel>>
    BY DEF SyncShop
  <1> HIDE DEF k, new
  <1>5. /\ DOMAIN record' \subseteq Keys
        /\ \A n \in DOMAIN record' :
             record'[n] \in [status: {"processing", "failed", "completed"}, created: Ticks]
    BY <1>1, <1>2, <1>3 DEF TypeOK
  <1>6. QED
    BY <1>1, <1>4, <1>5 DEF SyncsTyped, TypeOK

LEMMA ClosedTyped ==
    ASSUME TypeOK, NEW w \in Workers, NEW status \in {"failed", "completed"}, Close(w, status)
    PROVE  /\ sync[w] \in [key: Keys, from: Int]
           /\ DOMAIN record' \subseteq Keys
           /\ \A k \in DOMAIN record' :
                record'[k] \in [status: {"processing", "failed", "completed"}, created: Ticks]
           /\ sync' \in [Workers -> [key: Keys, from: Int] \cup {NoSync}]
  BY DEF TypeOK, Close

LEMMA SyncsStayTyped ==
    ASSUME TypeOK, [Next]_vars
    PROVE  SyncsTyped'
  <1> USE DailyRunAssumption
  <1>1. Today \in 1..LastDay
    BY DaysTyped DEF TypeOK
  <1>2. CASE UNCHANGED <<record, Syncing>>
    BY <1>2 DEF Syncing, SyncsTyped, TypeOK
  <1>3. CASE NextDay
    BY <1>3 DEF NextDay, Syncing, SyncsTyped, TypeOK
  <1>4. ASSUME NEW p \in Firings, NEW s \in Shops,
               SyncShop(p, s) \/ MeasureShop(p, s) \/ FailShop(p, s)
        PROVE  SyncsTyped'
    BY <1>2, <1>4, QueuedTyped DEF MeasureShop, FailShop
  <1>5. ASSUME NEW w \in Workers, NEW k \in queue, StartSync(w, k) PROVE SyncsTyped'
    <2>1. k \in Keys
      BY DEF TypeOK
    <2>2. k.days \in Int
      BY <2>1 DEF Keys
    <2>3. [key |-> k, from |-> Today - k.days] \in [key: Keys, from: Int]
      BY <1>1, <2>1, <2>2
    <2>4. sync' \in [Workers -> [key: Keys, from: Int] \cup {NoSync}]
      BY <1>5, <2>3 DEF StartSync, TypeOK
    <2>5. QED
      BY <1>5, <2>4 DEF StartSync, SyncsTyped, TypeOK
  <1>6. ASSUME NEW w \in Workers, FinishSync(w) PROVE SyncsTyped'
    <2>1. Close(w, "completed") /\ UNCHANGED queue
      BY <1>6 DEF FinishSync
    <2>2. sync[w].key.shop \in Shops /\ sync[w].from \in Int
      BY <2>1, ClosedTyped DEF Keys
    <2>3. channel' \in [Shops -> [from: Int, through: 0..LastDay]]
      BY <1>1, <1>6, <2>2 DEF FinishSync, TypeOK
    <2>4. QED
      BY <2>1, <2>3, ClosedTyped DEF SyncsTyped, TypeOK
  <1>7. ASSUME NEW w \in Workers, FindRevoked(w) \/ FailSync(w) PROVE SyncsTyped'
    <2>1. PICK status \in {"failed", "completed"} : Close(w, status)
      BY <1>7 DEF FindRevoked, FailSync
    <2>2. sync[w].key \in Keys
      BY <2>1, ClosedTyped
    <2>3. queue' \subseteq Keys /\ UNCHANGED channel
      BY <1>7, <2>2 DEF FindRevoked, FailSync, TypeOK
    <2>4. QED
      BY <2>1, <2>3, ClosedTyped DEF SyncsTyped, TypeOK
  <1>8. ASSUME NEW w \in Workers, CrashSync(w) PROVE SyncsTyped'
    <2>1. sync[w].key \in Keys
      BY <1>8 DEF CrashSync, TypeOK
    <2>2. QED
      BY <1>8, <2>1 DEF CrashSync, SyncsTyped, TypeOK
  <1>9. ASSUME NEW p \in Firings,
               FireByHand(p) \/ Claim(p) \/ FindStage(p) \/ Reclaim(p) \/ FailToClaim(p)
                 \/ FinishStage(p) \/ FailStage(p) \/ Die(p)
        PROVE  SyncsTyped'
    BY <1>2, <1>9
    DEF FireByHand, Fire, Claim, FindStage, Reclaim, FailToClaim, FinishStage, FailStage, Die
  <1>10. CASE NextHalf \/ FireCron \/ MissFiring \/ UNCHANGED vars
    BY <1>2, <1>10 DEF NextHalf, FireCron, MissFiring, Fire, vars, Syncing
  <1>11. QED
    BY <1>3, <1>4, <1>5, <1>6, <1>7, <1>8, <1>9, <1>10 DEF Next

\* DailyRun's types hold, for any number of firings, shops, workers and days.
THEOREM TypeCorrect == Spec => []TypeOK
  <1>1. TypeOK /\ IInv /\ [Next]_vars => TypeOK'
    <2> SUFFICES ASSUME TypeOK, IInv, [Next]_vars PROVE TypeOK'
      OBVIOUS
    <2>1. ClaimsTyped' /\ ClaimsTyped
      BY TypeStep DEF IInv
    <2>2. Dated' /\ SyncsTyped' /\ Counted' /\ priced' \subseteq Shops
      BY <2>1, DatesTyped, SyncsStayTyped, CountsTyped
    <2>3. QED
      BY <2>1, <2>2
      DEF ClaimsTyped, Dated, SyncsTyped, Counted, TypeOK, RunRows, FiringStates
  <1>2. QED
    BY <1>1, InitTyped, ClaimsSound, PTL DEF Spec

\* scheduler.py's "Two firings at once are handled by the database": two
\* processes at one stage are always a take-over of one that had been at it for
\* longer than STALE_RUN_HOURS, for any number of firings, shops and days.
THEOREM OneFiringWorks == Spec => []TwoAtWorkExplained
  <1>1. IInv => TwoAtWorkExplained
    <2> SUFFICES ASSUME IInv, NEW p \in Firings, NEW q \in Firings, p # q,
                        AtWork(p), AtWork(q), Stage(p) = Stage(q)
                 PROVE  \/ firing[p].since # firing[q].since
                        \/ firing[p].by = "reclaim" /\ firing[q].by = "reclaim"
      BY DEF TwoAtWorkExplained
    <2>1. /\ Busy(p) /\ firing[p].phase = "work" /\ firing[p] \in FiringStates
          /\ Busy(q) /\ firing[q].phase = "work" /\ firing[q] \in FiringStates
      BY DEF AtWork, Busy, IInv, ClaimsTyped
    <2>2. firing[p].by # "nobody" /\ firing[q].by # "nobody"
      BY DEF IInv, InsertIsOldest
    <2>3. ASSUME firing[p].by = "insert" PROVE firing[p].since < firing[q].since
      BY <2>1, <2>3 DEF IInv, InsertIsOldest
    <2>4. ASSUME firing[q].by = "insert" PROVE firing[q].since < firing[p].since
      BY <2>1, <2>4 DEF IInv, InsertIsOldest
    <2>5. QED
      BY <2>1, <2>2, <2>3, <2>4 DEF FiringStates, Never
  <1>2. QED
    BY <1>1, ClaimsSound, PTL

\* daily.py: a stage that is recorded as the success it was stays so, unless it
\* was found stale while somebody was at it.
THEOREM CompletedStaysCompleted == Spec => CompletedRunStays
  <1> DEFINE A == \A j \in Jobs : run[j].status = "completed" /\ ~NextDay =>
                     run'[j].status = "completed" \/ j \in contested
  <1>1. IInv /\ [Next]_vars => [A]_vars
    <2> SUFFICES ASSUME IInv, Next, NEW j \in Jobs, run[j].status = "completed", ~NextDay
                 PROVE  run'[j].status = "completed" \/ j \in contested
      OBVIOUS
    <2>1. CASE run' = run
      BY <2>1
    <2>2. ASSUME NEW p \in Firings, Claim(p) PROVE run'[j] = run[j]
      BY <2>2 DEF Claim, IInv, ClaimsTyped
    <2>3. ASSUME NEW p \in Firings, Reclaim(p) \/ FinishStage(p)
          PROVE  run'[j].status = "completed"
      BY <2>3 DEF Reclaim, FinishStage, IInv, ClaimsTyped, RunRows
    <2>4. ASSUME NEW p \in Firings, FailStage(p)
          PROVE  run'[j].status = "completed" \/ j \in contested
      <3>1. Busy(p)
        BY <2>4 DEF FailStage, AtWork, Busy
      <3>2. CASE Stage(p) = j
        BY <3>1, <3>2 DEF IInv, BusyRowRuns
      <3>3. CASE Stage(p) # j
        BY <2>4, <3>3 DEF FailStage, IInv, ClaimsTyped
      <3>4. QED
        BY <3>2, <3>3
    <2>5. ASSUME NEW p \in Firings,
                 FireByHand(p) \/ FindStage(p) \/ FailToClaim(p) \/ Die(p)
          PROVE  run' = run
      BY <2>5 DEF FireByHand, Fire, FindStage, FailToClaim, Die
    <2>6. ASSUME NEW p \in Firings, NEW s \in Shops,
                 SyncShop(p, s) \/ MeasureShop(p, s) \/ FailShop(p, s)
          PROVE  run' = run
      BY <2>6 DEF SyncShop, MeasureShop, FailShop
    <2>7. ASSUME NEW w \in Workers, NEW k \in queue, StartSync(w, k) PROVE run' = run
      BY <2>7 DEF StartSync
    <2>8. ASSUME NEW w \in Workers,
                 FinishSync(w) \/ FindRevoked(w) \/ FailSync(w) \/ CrashSync(w)
          PROVE  run' = run
      BY <2>8 DEF FinishSync, FindRevoked, FailSync, CrashSync
    <2>9. CASE NextHalf \/ FireCron \/ MissFiring
      BY <2>1, <2>9 DEF NextHalf, FireCron, Fire, MissFiring
    <2>10. QED
      BY <2>1, <2>2, <2>3, <2>4, <2>5, <2>6, <2>7, <2>8, <2>9 DEF Next
  <1>2. QED
    BY <1>1, ClaimsSound, PTL DEF CompletedRunStays, Spec

---------------------------------------------------------------------------
(* Any operation under an idempotency key, the daily run's syncs among     *)
(* them (module Jobs): for any number of callers, workers, retries, faults *)
(* and plans.                                                              *)

USE JobsAssumption

\* Types, the record, the callers and the queue apart from the work.
KeyTyped ==
    /\ keyRecord \in Records
    /\ call \in [Calls -> CallStates]
    /\ queued \in Nat
    /\ retries \in 0..MaxRetries
    /\ faults \in 0..MaxFaults /\ ages \in 0..MaxAges
    /\ excuses \subseteq {"overlap", "late", "lost"}

WorkTyped ==
    /\ exec \in [JobWorkers -> Executions]
    /\ synced \in 0..Pages
    /\ daily \subseteq TotalledDays
    /\ keyRun \in [status : RunStatuses, report : Nat]
    /\ reports \in Seq(ReportStatuses)

PlansTyped ==
    /\ plans \in Seq(PlanStatuses) /\ Len(plans) <= MaxPlans
    /\ decision \in [Deciders -> Decisions]

LEMMA TypedInParts ==
    /\ JobsTypeOK <=> KeyTyped /\ WorkTyped /\ PlansTyped
    /\ JobsTypeOK' <=> KeyTyped' /\ WorkTyped' /\ PlansTyped'
BY DEF JobsTypeOK, KeyTyped, WorkTyped, PlansTyped

LEMMA Claimed ==
    ASSUME NEW r \in Records, NEW status \in RecordStatuses, NEW answer \in Results,
           NEW stale \in BOOLEAN
    PROVE  /\ [r EXCEPT !.status = status] \in Records
           /\ [r EXCEPT !.stale = TRUE] \in Records
           /\ [r EXCEPT !.status = status, !.stale = FALSE] \in Records
           /\ [r EXCEPT !.status = status, !.response = answer, !.stale = FALSE] \in Records
           /\ [r EXCEPT !.response = answer, !.status = status, !.stale = stale] \in Records
BY DEF Records

LEMMA TakenOverTyped ==
    ASSUME KeyTyped, NEW c \in Calls
    PROVE  TakenOver(c) \in Records
<1> PICK r \in Records : r = keyRecord
  BY DEF KeyTyped
<1>1. r.status \in RecordStatuses /\ r.response \in Results
  BY DEF Records
<1>2. Nothing \in Results /\ "processing" \in RecordStatuses
  BY DEF Nothing, Results, RecordStatuses, KeyTyped
<1> DEFINE status == IF call[c].status = "processing" THEN r.status ELSE "processing"
           answer == IF call[c].answered THEN Nothing ELSE r.response
<1>3. status \in RecordStatuses /\ answer \in Results
  BY <1>1, <1>2
<1>4. [r EXCEPT !.status = status, !.response = answer, !.stale = FALSE] \in Records
  BY <1>3, Claimed
<1>5. QED
  BY <1>4 DEF TakenOver

LEMMA FailTyped ==
    ASSUME KeyTyped, Fail \/ UNCHANGED <<keyRecord, excuses>>
    PROVE  keyRecord' \in Records /\ excuses' \subseteq {"overlap", "late", "lost"}
<1> PICK r \in Records : r = keyRecord
  BY DEF KeyTyped
<1>1. "failed" \in RecordStatuses
  BY DEF RecordStatuses
<1>2. [r EXCEPT !.status = "failed", !.stale = FALSE] \in Records
  BY <1>1 DEF Records
<1>3. QED
  BY <1>2 DEF Fail, LateFailure, KeyTyped

LEMMA FaultTyped ==
    ASSUME KeyTyped, Fault
    PROVE  faults' \in 0..MaxFaults
BY DEF KeyTyped, Fault

LEMMA RetryTyped ==
    ASSUME KeyTyped, Retry
    PROVE  queued' \in Nat /\ retries' \in 0..MaxRetries
BY DEF KeyTyped, Retry, Queue

LEMMA CallsTyped ==
    ASSUME JobsTypeOK, NEW c \in Calls,
           \/ ClaimKey(c) \/ FindClaim(c) \/ TakeOver(c) \/ Enqueue(c)
           \/ EnqueueFails(c) \/ RecordRefusal(c) \/ CrashCall(c)
    PROVE  JobsTypeOK'
<1> USE TypedInParts
<1>1. WorkTyped' /\ PlansTyped'
  BY DEF WorkTyped, PlansTyped, ClaimKey, FindClaim, TakeOver, Enqueue,
     EnqueueFails, RecordRefusal, CrashCall, Work, Stored, Plans,
     Executions, TotalledDays, RunStatuses, ReportStatuses, PlanStatuses,
     Decisions
<1>2. call' \in [Calls -> CallStates]
  <2>1. keyRecord \in Records /\ call \in [Calls -> CallStates] /\ TakenOver(c) \in Records
    BY TakenOverTyped DEF KeyTyped
  <2>2. NoCall \in CallStates
    BY DEF NoCall, CallStates, RecordStatuses
  <2>3. CASE FindClaim(c)
    <3>1. [at |-> "seen", status |-> keyRecord.status, answered |-> keyRecord.response # Nothing]
             \in CallStates
      BY <2>1 DEF CallStates, Records
    <3>2. QED
      BY <2>1, <2>3, <3>1 DEF FindClaim
  <2>4. CASE TakeOver(c)
    <3>1. TakenOver(c).status \in RecordStatuses
      BY <2>1 DEF Records
    <3>2. [NoCall EXCEPT !.at = "claimed", !.status = TakenOver(c).status] \in CallStates
      BY <3>1 DEF NoCall, CallStates
    <3>3. QED
      BY <2>1, <2>4, <3>2 DEF TakeOver
  <2>5. CASE ClaimKey(c)
    <3>1. [NoCall EXCEPT !.at = "claimed", !.status = "processing"] \in CallStates
      BY DEF NoCall, CallStates, RecordStatuses
    <3>2. QED
      BY <2>1, <2>5, <3>1 DEF ClaimKey
  <2>6. CASE EnqueueFails(c)
    <3>1. [call[c] EXCEPT !.at = "refused"] \in CallStates
      BY <2>1 DEF CallStates
    <3>2. QED
      BY <2>1, <2>6, <3>1 DEF EnqueueFails
  <2>7. CASE Enqueue(c) \/ RecordRefusal(c) \/ CrashCall(c)
    BY <2>1, <2>2, <2>7 DEF Enqueue, RecordRefusal, CrashCall
  <2>8. QED
    BY <2>3, <2>4, <2>5, <2>6, <2>7
<1>3. keyRecord' \in Records
  <2> PICK r \in Records : r = keyRecord
    BY DEF KeyTyped
  <2>1. [r EXCEPT !.status = "processing"] \in Records
    BY Claimed DEF RecordStatuses, Records
  <2>2. CASE RecordRefusal(c)
    BY <2>2, FailTyped DEF RecordRefusal
  <2>3. CASE ~RecordRefusal(c)
    BY <2>1, <2>3, TakenOverTyped DEF ClaimKey, FindClaim, TakeOver, Enqueue,
       EnqueueFails, CrashCall
  <2>4. QED
    BY <2>2, <2>3
<1>4. queued' \in Nat /\ retries' \in 0..MaxRetries
  BY DEF KeyTyped, ClaimKey, FindClaim, TakeOver, Enqueue,
     EnqueueFails, RecordRefusal, CrashCall, Queue
<1>5. faults' \in 0..MaxFaults
  BY FaultTyped DEF KeyTyped, ClaimKey, FindClaim, TakeOver, Enqueue,
     EnqueueFails, RecordRefusal, CrashCall, History
<1>6. ages' \in 0..MaxAges /\ excuses' \subseteq {"overlap", "late", "lost"}
  <2>1. RecordRefusal(c) => excuses' \subseteq {"overlap", "late", "lost"}
    BY FailTyped DEF RecordRefusal
  <2>2. QED
    BY <2>1 DEF KeyTyped, ClaimKey, FindClaim, TakeOver, Enqueue,
     EnqueueFails, RecordRefusal, CrashCall, History, LateFailure
<1>7. KeyTyped'
  BY <1>2, <1>3, <1>4, <1>5, <1>6 DEF KeyTyped, Records, CallStates, RecordStatuses, Results
<1>8. QED
  BY <1>1, <1>7

LEMMA AgeTyped ==
    ASSUME JobsTypeOK, Age
    PROVE  JobsTypeOK'
<1> USE TypedInParts
<1>1. WorkTyped' /\ PlansTyped'
  BY DEF WorkTyped, PlansTyped, Age, Work, Stored, Plans,
     Executions, TotalledDays, RunStatuses, ReportStatuses, PlanStatuses,
     Decisions
<1>2. keyRecord' \in Records
  BY ZenonT(30), Claimed DEF KeyTyped, Age, RecordStatuses, Records
<1>3. ages' \in 0..MaxAges
  BY DEF KeyTyped, Age
<1>4. KeyTyped'
  BY <1>2, <1>3 DEF KeyTyped, Age, Queue, Records, CallStates, RecordStatuses,
     Results
<1>5. QED
  BY <1>1, <1>4


LEMMA WorkStarts ==
    ASSUME JobsTypeOK, NEW w \in JobWorkers, Load(w) \/ StartRun(w)
    PROVE  JobsTypeOK'
<1> USE TypedInParts
<1>1. PlansTyped'
  BY DEF PlansTyped, Load, StartRun, Plans, PlanStatuses, Decisions
<1>2. KeyTyped'
  BY DEF KeyTyped, Load, StartRun, Queue, History, Records, CallStates,
     RecordStatuses, Results
<1>3. exec' \in [JobWorkers -> Executions]
  <2>1. exec \in [JobWorkers -> Executions] /\ keyRun.report \in Nat
    BY DEF WorkTyped
  <2>2. CASE Load(w)
    <3>1. Remembered \in RecordStatuses
      BY DEF Remembered, RecordStatuses
    <3>2. [exec[w] EXCEPT !.at = "starting", !.status = Remembered] \in Executions
      BY <2>1, <3>1 DEF Executions
    <3>3. QED
      BY <2>1, <2>2, <3>2 DEF Load
  <2>3. CASE StartRun(w)
    BY <2>1, <2>3 DEF StartRun, Executions
  <2>4. QED
    BY <2>2, <2>3
<1>4. keyRun' \in [status : RunStatuses, report : Nat]
  BY DEF WorkTyped, Load, StartRun, RunStatuses
<1>5. WorkTyped'
  BY <1>3, <1>4 DEF WorkTyped, Load, StartRun, Stored, Executions, TotalledDays,
     RunStatuses, ReportStatuses
<1>6. QED
  BY <1>1, <1>2, <1>5

\* A commit that records the result of the operation.
LEMMA CommitTyped ==
    ASSUME KeyTyped, WorkTyped, NEW w \in JobWorkers, NEW result \in Results,
           Complete(w, result)
    PROVE  keyRecord' \in Records /\ exec' \in [JobWorkers -> Executions]
<1>1. keyRecord' \in Records
  <2> PICK r \in Records : r = keyRecord
    BY DEF KeyTyped
  <2> DEFINE status == IF exec[w].status = "completed" THEN r.status ELSE "completed"
             stale == IF exec[w].status = "completed" THEN r.stale ELSE FALSE
  <2>1. status \in RecordStatuses /\ stale \in BOOLEAN
    BY DEF Records, RecordStatuses
  <2>2. [r EXCEPT !.response = result, !.status = status, !.stale = stale] \in Records
    BY <2>1, Claimed
  <2>3. QED
    BY <2>2 DEF Complete
<1>2. Out \in Executions
  BY DEF Out, Executions, Nothing, RecordStatuses
<1>3. QED
  BY <1>1, <1>2 DEF WorkTyped, Complete

LEMMA CommitsTyped ==
    ASSUME JobsTypeOK, NEW w \in JobWorkers,
           \/ CommitScan(w) \/ CommitTotals(w)
           \/ CommitSync(w) \/ CommitReport(w)
    PROVE  JobsTypeOK'
<1> USE TypedInParts
<1>1. plans' \in Seq(PlanStatuses) /\ Len(plans') <= MaxPlans
  <2>1. plans \in Seq(PlanStatuses) /\ Len(plans) <= MaxPlans /\ MaxPlans \in Nat
    BY DEF PlansTyped
  <2>2. CASE CommitScan(w)
    BY <2>1, <2>2 DEF CommitScan, Saved, PlanStatuses
  <2>3. CASE ~CommitScan(w)
    BY <2>1, <2>3 DEF CommitTotals, CommitSync, CommitReport,
       Plans
  <2>4. QED
    BY <2>2, <2>3
<1>2. PlansTyped'
  BY <1>1 DEF PlansTyped, CommitScan, CommitTotals,
     CommitSync, CommitReport, Plans, PlanStatuses, Decisions
<1>3. \E result \in Results : Complete(w, result)
  <2>1. MaxPlans \in Nat /\ Len(plans) \in Nat
    BY DEF PlansTyped
  <2>2. Len(plans) < MaxPlans => Len(plans) + 1 \in Results
    BY <2>1 DEF Results
  <2>3. 1 \in Results
    BY <2>1 DEF Results
  <2>4. QED
    BY <2>2, <2>3 DEF CommitScan, CommitTotals,
       CommitSync, CommitReport
<1>4. keyRecord' \in Records /\ exec' \in [JobWorkers -> Executions]
  BY <1>3, CommitTyped
<1>5. KeyTyped'
  BY <1>4 DEF KeyTyped, CommitScan, CommitTotals,
     CommitSync, CommitReport, Queue, History, Records, CallStates,
     RecordStatuses, Results
<1>6. synced' \in 0..Pages /\ daily' \subseteq TotalledDays
  BY DEF WorkTyped, CommitScan, CommitTotals, CommitSync, CommitReport, Stored, TotalledDays
<1>7. keyRun' \in [status : RunStatuses, report : Nat] /\ reports' = reports
  BY DEF WorkTyped, RunStatuses, CommitScan, CommitTotals,
     CommitSync, CommitReport
<1>8. WorkTyped'
  BY <1>4, <1>6, <1>7 DEF WorkTyped, Executions, TotalledDays, RunStatuses,
     ReportStatuses
<1>9. QED
  BY <1>2, <1>5, <1>8

LEMMA WorkGoesOn ==
    ASSUME JobsTypeOK, NEW w \in JobWorkers,
           \/ CommitPage(w) \/ CreateReport(w) \/ PersistReport(w)
           \/ ReportIsDead(w) \/ TotalsCollide(w)
    PROVE  JobsTypeOK'
<1> USE TypedInParts
<1>1. PlansTyped'
  BY DEF PlansTyped, CommitPage, CreateReport, PersistReport, TotalsCollide, ReportIsDead,
     Plans, PlanStatuses, Decisions
<1>2. KeyTyped'
  BY DEF KeyTyped, CommitPage, CreateReport, PersistReport, TotalsCollide, ReportIsDead,
     Queue, History, Records, CallStates, RecordStatuses, Results
<1>3. Pages \in Nat /\ Len(reports) \in Nat /\ exec \in [JobWorkers -> Executions]
  BY DEF WorkTyped
<1>4. exec' \in [JobWorkers -> Executions]
  <2>1. CASE CommitPage(w)
    <3>1. exec[w].page + 1 \in 0..Pages
      BY <1>3, <2>1 DEF CommitPage, Executions
    <3>2. [exec[w] EXCEPT !.page = exec[w].page + 1] \in Executions
      BY <1>3, <3>1 DEF Executions
    <3>3. QED
      BY <1>3, <2>1, <3>2 DEF CommitPage
  <2>2. CASE CreateReport(w)
    <3> PICK id \in Nat : id = Len(reports) + 1
      BY <1>3
    <3> PICK e \in Executions : e = exec[w]
      BY <1>3
    <3>1. [e EXCEPT !.at = "created", !.report = id] \in Executions
      BY DEF Executions
    <3>2. exec' = [exec EXCEPT ![w] = [e EXCEPT !.at = "created", !.report = id]]
      BY <1>3, <2>2 DEF CreateReport, Executions
    <3>3. QED
      BY <1>3, <3>1, <3>2
  <2>3. CASE PersistReport(w) \/ ReportIsDead(w) \/ TotalsCollide(w)
    <3>1. PICK at \in {"polling", "failing"} : exec' = [exec EXCEPT ![w].at = at]
      BY <2>3 DEF PersistReport, TotalsCollide, ReportIsDead
    <3>2. [exec[w] EXCEPT !.at = at] \in Executions
      BY <1>3 DEF Executions
    <3>3. QED
      BY <1>3, <3>1, <3>2
  <2>4. QED
    BY <2>1, <2>2, <2>3
<1>5. synced' \in 0..Pages /\ daily' = daily
  BY SMTT(30), <1>3 DEF WorkTyped, CommitPage, CreateReport, PersistReport, TotalsCollide, ReportIsDead,
     Stored, Executions
<1>6. reports' \in Seq(ReportStatuses)
  <2>1. reports \in Seq(ReportStatuses) /\ "in_progress" \in ReportStatuses
    BY DEF WorkTyped, ReportStatuses
  <2>2. reports' = reports \/ reports' = Append(reports, "in_progress")
    BY DEF CommitPage, CreateReport, PersistReport, TotalsCollide, ReportIsDead
  <2>3. Append(reports, "in_progress") \in Seq(ReportStatuses)
    BY <2>1
  <2>4. QED
    BY <2>1, <2>2, <2>3 DEF ReportStatuses
<1>7. keyRun' \in [status : RunStatuses, report : Nat]
  BY SMTT(30), <1>3 DEF WorkTyped, CommitPage, CreateReport, PersistReport, TotalsCollide, ReportIsDead,
     RunStatuses, Executions
<1>8. WorkTyped'
  BY <1>4, <1>5, <1>6, <1>7 DEF WorkTyped, Executions, TotalledDays, RunStatuses,
     ReportStatuses
<1>9. QED
  BY <1>1, <1>2, <1>8

LEMMA WorkFails ==
    ASSUME JobsTypeOK, NEW w \in JobWorkers,
           Raise(w) \/ RecordFailure(w) \/ CrashWorker(w)
    PROVE  JobsTypeOK'
<1> USE TypedInParts
<1>1. PlansTyped'
  BY DEF PlansTyped, Raise, RecordFailure, CrashWorker, Plans, PlanStatuses,
     Decisions
<1>2. Out \in Executions /\ exec \in [JobWorkers -> Executions]
  BY DEF Out, Executions, Nothing, WorkTyped, RecordStatuses
<1>3. exec' \in [JobWorkers -> Executions]
  BY <1>2 DEF Raise, RecordFailure, CrashWorker, Executions
<1>4. keyRun' \in [status : RunStatuses, report : Nat]
  BY DEF WorkTyped, Raise, RecordFailure, CrashWorker, RunStatuses
<1>5. WorkTyped'
  BY <1>3, <1>4 DEF WorkTyped, Raise, RecordFailure, CrashWorker, Stored,
     Executions, TotalledDays, RunStatuses, ReportStatuses
<1>6. keyRecord' \in Records
  BY FailTyped DEF KeyTyped, Raise, RecordFailure, CrashWorker
<1>7. /\ queued' \in Nat /\ retries' \in 0..MaxRetries /\ faults' \in 0..MaxFaults
  BY RetryTyped, FaultTyped DEF KeyTyped, Raise, RecordFailure, CrashWorker, Queue
<1>8. ages' \in 0..MaxAges /\ excuses' \subseteq {"overlap", "late", "lost"}
  BY FailTyped DEF KeyTyped, Raise, RecordFailure, CrashWorker, LostReport
<1>9. KeyTyped'
  BY <1>6, <1>7, <1>8 DEF KeyTyped, Raise, RecordFailure, CrashWorker, Records,
     CallStates, RecordStatuses, Results
<1>10. QED
  BY <1>1, <1>5, <1>9


LEMMA ReportsMove ==
    ASSUME JobsTypeOK, NEW r \in DOMAIN reports, MoveReport(r)
    PROVE  JobsTypeOK'
<1> USE TypedInParts
<1>1. PlansTyped'
  BY DEF PlansTyped, MoveReport, Plans, PlanStatuses, Decisions
<1>2. faults' \in 0..MaxFaults
  BY FaultTyped DEF KeyTyped, MoveReport
<1>3. KeyTyped'
  BY <1>2 DEF KeyTyped, MoveReport, Queue, Records, CallStates,
     RecordStatuses, Results
<1>4. reports' \in Seq(ReportStatuses)
  <2>1. reports \in Seq(ReportStatuses)
    BY DEF WorkTyped
  <2>2. PICK status \in ReportStatuses : reports' = [reports EXCEPT ![r] = status]
    BY DEF MoveReport, ReportStatuses
  <2>3. QED
    BY <2>1, <2>2
<1>5. WorkTyped'
  BY <1>4 DEF WorkTyped, MoveReport, Stored, Executions, TotalledDays,
     RunStatuses, ReportStatuses
<1>6. QED
  BY <1>1, <1>3, <1>5

\* A request that decides changes what plans say, not which there are.
LEMMA PlansAreNotLost ==
    ASSUME PlansTyped, NEW d \in Deciders,
           \/ \E p \in 1..OnScreen, choice \in {"approved", "dismissed"} :
                 ReadPlan(d, p, choice)
           \/ Decide(d)
           \/ \E statuses \in {{"pending"}, {"pending", "approved", "dismissed"}} :
                 PickPlans(d, statuses)
           \/ ClearPlans(d)
    PROVE  /\ UNCHANGED <<keyRecord, call, queued, retries, exec, synced, daily, keyRun, reports>>
           /\ UNCHANGED <<faults, ages, excuses>>
           /\ plans' \in Seq(PlanStatuses)
           /\ Len(plans') = Len(plans) /\ DOMAIN plans' = DOMAIN plans
<1>1. /\ UNCHANGED <<keyRecord, call, queued, retries, exec, synced, daily, keyRun, reports>>
      /\ UNCHANGED <<faults, ages, excuses>>
  BY DEF ReadPlan, Decide, PickPlans, ClearPlans, Queue, Work,
     Stored, History
<1>2. /\ plans \in Seq(PlanStatuses) /\ Len(plans) \in Nat
      /\ decision \in [Deciders -> Decisions]
  BY DEF PlansTyped
<1>3. plans' \in Seq(PlanStatuses) /\ Len(plans') = Len(plans)
  <2>1. CASE Decide(d)
    <3> PICK p, choice : p = decision[d].plan /\ choice = decision[d].choice
      OBVIOUS
    <3>1. choice \in PlanStatuses
      BY <1>2 DEF Decisions
    <3>2. plans' = plans \/ plans' = [plans EXCEPT ![p] = choice]
      BY <2>1 DEF Decide
    <3>3. QED
      BY <1>2, <3>1, <3>2
  <2>2. CASE ClearPlans(d)
    <3>1. plans' = [p \in 1..Len(plans) |-> IF p \in decision[d].read THEN "deleted" ELSE plans[p]]
      BY <1>2, <2>2 DEF ClearPlans
    <3>2. \A p \in 1..Len(plans) : plans'[p] \in PlanStatuses
      BY <1>2, <3>1 DEF PlanStatuses
    <3>3. QED
      BY <1>2, <3>1, <3>2
  <2>3. CASE plans' = plans
    BY <1>2, <2>3
  <2>4. QED
    BY <2>1, <2>2, <2>3 DEF ReadPlan, PickPlans
<1>4. DOMAIN plans' = DOMAIN plans
  BY <1>2, <1>3
<1>5. QED
  BY <1>1, <1>3, <1>4

LEMMA DecisionsTyped ==
    ASSUME JobsTypeOK, NEW d \in Deciders,
           \/ \E p \in 1..OnScreen, choice \in {"approved", "dismissed"} :
                 ReadPlan(d, p, choice)
           \/ Decide(d)
           \/ \E statuses \in {{"pending"}, {"pending", "approved", "dismissed"}} :
                 PickPlans(d, statuses)
           \/ ClearPlans(d)
    PROVE  JobsTypeOK'
<1> USE TypedInParts
<1>1. KeyTyped' /\ WorkTyped'
  <2>1. /\ UNCHANGED <<keyRecord, call, queued, retries, exec, synced, daily, keyRun, reports>>
        /\ UNCHANGED <<faults, ages, excuses>>
    BY PlansAreNotLost
  <2>2. QED
    BY <2>1 DEF KeyTyped, WorkTyped, Records, CallStates, RecordStatuses, Results,
       Executions, TotalledDays, RunStatuses, ReportStatuses
<1>2. /\ plans \in Seq(PlanStatuses) /\ Len(plans) <= MaxPlans
      /\ decision \in [Deciders -> Decisions]
  BY DEF PlansTyped
<1>3. plans' \in Seq(PlanStatuses) /\ Len(plans') = Len(plans)
  BY PlansAreNotLost
<1>4. decision' \in [Deciders -> Decisions]
  <2>1. \A read \in SUBSET Nat, p \in Nat, choice \in PlanStatuses :
           /\ [at |-> "deciding", plan |-> p, read |-> read, choice |-> choice] \in Decisions
           /\ [at |-> "clearing", plan |-> p, read |-> read, choice |-> choice] \in Decisions
           /\ [at |-> "idle", plan |-> p, read |-> read, choice |-> choice] \in Decisions
    BY DEF Decisions
  <2>2. NoDecision \in Decisions
    BY <2>1 DEF NoDecision, Nothing, PlanStatuses
  <2>3. ASSUME NEW p \in 1..OnScreen, NEW choice \in {"approved", "dismissed"},
               ReadPlan(d, p, choice)
        PROVE  decision' \in [Deciders -> Decisions]
    <3> PICK read : read = Undecided \cap {p}
      OBVIOUS
    <3>1. read \in SUBSET Nat /\ p \in Nat /\ choice \in PlanStatuses
      BY <2>3 DEF PlanStatuses
    <3>2. decision' = [decision EXCEPT ![d] =
             [at |-> "deciding", plan |-> p, read |-> read, choice |-> choice]]
      BY <2>3 DEF ReadPlan
    <3>3. QED
      BY <1>2, <2>1, <3>1, <3>2
  <2>4. ASSUME NEW statuses, PickPlans(d, statuses)
        PROVE  decision' \in [Deciders -> Decisions]
    <3> PICK read : read = {p \in 1..OnScreen \cap DOMAIN plans : plans[p] \in statuses}
      OBVIOUS
    <3>1. read \in SUBSET Nat /\ "deleted" \in PlanStatuses /\ Nothing \in Nat
      BY DEF PlanStatuses, Nothing
    <3>2. decision' = [decision EXCEPT ![d] =
             [at |-> "clearing", plan |-> Nothing, choice |-> "deleted", read |-> read]]
      BY <2>4 DEF PickPlans
    <3>3. QED
      BY <1>2, <2>1, <3>1, <3>2
  <2>5. CASE Decide(d) \/ ClearPlans(d)
    BY <1>2, <2>2, <2>5 DEF Decide, ClearPlans
  <2>6. QED
    BY <2>3, <2>4, <2>5
<1>5. PlansTyped'
  BY <1>2, <1>3, <1>4 DEF PlansTyped, PlanStatuses, Decisions
<1>6. QED
  BY <1>1, <1>5

LEMMA KeyStaysTyped ==
    ASSUME JobsTypeOK, [JobsNext]_jobsVars
    PROVE  JobsTypeOK'
<1>1. CASE UNCHANGED jobsVars
  BY <1>1 DEF jobsVars, JobsTypeOK, Records, CallStates, RecordStatuses, Results,
     Executions, TotalledDays, RunStatuses, ReportStatuses, PlanStatuses,
     Decisions
<1>2. CASE JobsNext
  BY <1>2, CallsTyped, AgeTyped, WorkStarts, CommitsTyped, WorkGoesOn, WorkFails, ReportsMove,
     DecisionsTyped DEF JobsNext
<1>3. QED
  BY <1>1, <1>2


\* What AnswersAreBacked says of each operation.
Behind(op) ==
    /\ op = "scan" => keyRecord.response \in DOMAIN plans \cup {Nothing}
    /\ op = "sync" => synced = Pages
    /\ op \in Totalled => daily = TotalledDays
    /\ op = "report" =>
          /\ keyRun.report \in DOMAIN reports
          /\ \E r \in DOMAIN reports : reports[r] = "done"

LEMMA AnswersInParts ==
    ASSUME KeyTyped
    PROVE  AnswersAreBacked <=>
             (keyRecord.status = "completed" =>
                /\ keyRecord.response = Nothing => "late" \in excuses
                /\ Behind(keyRecord.operation))
<1>1. keyRecord.operation \in {"scan", "import", "finances", "sync", "report"}
  BY DEF KeyTyped, Records
<1>2. QED
  BY <1>1 DEF AnswersAreBacked, Behind, Totalled

\* The pages a worker has written are stored; the report it holds was ordered,
\* and once it polls, its id is in the run row, which only ever names one that
\* was ordered.
HeldWorkIsThere ==
    /\ \A w \in JobWorkers : exec[w].page <= synced
    /\ \A w \in JobWorkers : exec[w].at \in {"created", "polling"} =>
          keyRecord.operation = "report" /\ exec[w].report \in DOMAIN reports
    /\ \A w \in JobWorkers : exec[w].at = "polling" => keyRun.report # Nothing
    /\ keyRun.report # Nothing => keyRun.report \in DOMAIN reports

\* Until a failure or a claim was written over a result, a record has a
\* response when it is completed and only then, and nobody has read it otherwise.
Orderly ==
    "late" \notin excuses =>
        /\ (keyRecord.response # Nothing) <=> (keyRecord.status = "completed")
        /\ \A c \in Calls : ~call[c].answered
        /\ \A w \in JobWorkers : exec[w].status # "completed"

Backed ==
    /\ JobsTypeOK
    /\ HeldWorkIsThere
    /\ keyRecord.status = "completed" => Behind(keyRecord.operation)

\* Nothing is taken away from an answer: no page, row, plan or finished report.
Kept ==
    /\ keyRecord'.operation = keyRecord.operation
    /\ DOMAIN plans \subseteq DOMAIN plans'
    /\ synced <= synced'
    /\ daily \subseteq daily'
    /\ DOMAIN reports \subseteq DOMAIN reports'
    /\ \A r \in DOMAIN reports : reports[r] = "done" => reports'[r] = "done"
    /\ keyRun'.report = keyRun.report \/ keyRun'.report \in DOMAIN reports'

LEMMA AnswersStay ==
    ASSUME Backed, JobsTypeOK', Kept,
           keyRecord'.status = "completed" =>
              /\ keyRecord.status = "completed"
              /\ keyRecord'.response \in {keyRecord.response, Nothing}
    PROVE  keyRecord'.status = "completed" => Behind(keyRecord.operation)'
<1>1. WorkTyped /\ WorkTyped'
  BY TypedInParts DEF Backed
<1>2. SUFFICES ASSUME keyRecord'.status = "completed"
               PROVE  Behind(keyRecord.operation)'
  OBVIOUS
<1>3. /\ keyRecord'.response \in {keyRecord.response, Nothing}
      /\ keyRecord'.operation = keyRecord.operation /\ Behind(keyRecord.operation)
  BY <1>2 DEF Backed, Kept
<1>4. keyRecord.operation = "sync" => synced' = Pages
  BY <1>1, <1>3 DEF Behind, Kept, WorkTyped
<1>5. keyRecord.operation = "scan" => keyRecord'.response \in DOMAIN plans' \cup {Nothing}
  BY <1>3 DEF Behind, Kept
<1>6. keyRecord.operation \in Totalled => daily' = TotalledDays
  BY <1>1, <1>3 DEF Behind, Kept, WorkTyped, TotalledDays
<1>7. keyRecord.operation = "report" =>
        keyRun'.report \in DOMAIN reports' /\ \E r \in DOMAIN reports' : reports'[r] = "done"
  BY <1>3 DEF Behind, Kept
<1>8. QED
  BY <1>3, <1>4, <1>5, <1>6, <1>7 DEF Behind, TotalledDays, Totalled, Nothing

\* What a failure or a take-over makes of the record.
LEMMA FailKeepsAnswers ==
    ASSUME JobsTypeOK, Fail \/ UNCHANGED <<keyRecord, excuses>>
    PROVE  /\ keyRecord'.operation = keyRecord.operation
           /\ keyRecord'.status = "completed" => keyRecord' = keyRecord
           /\ excuses \subseteq excuses'
BY DEF JobsTypeOK, Records, Fail

LEMMA TakenOverKeepsAnswers ==
    ASSUME JobsTypeOK, NEW c \in Calls
    PROVE  /\ TakenOver(c).operation = keyRecord.operation
           /\ TakenOver(c).status \in {keyRecord.status, "processing"}
           /\ TakenOver(c).response \in {keyRecord.response, Nothing}
           /\ ~call[c].answered => TakenOver(c).response = keyRecord.response
BY DEF JobsTypeOK, Records, TakenOver

\* A step of a caller, or of the clock.
LEMMA CallsKeepBacked ==
    ASSUME Backed, JobsTypeOK',
           Age \/ \E c \in Calls : \/ ClaimKey(c) \/ FindClaim(c) \/ TakeOver(c)
                                       \/ Enqueue(c) \/ EnqueueFails(c)
                                       \/ RecordRefusal(c) \/ CrashCall(c)
    PROVE  Backed'
<1>1. UNCHANGED <<exec, synced, daily, keyRun, reports, plans>>
  BY DEF Age, ClaimKey, FindClaim, TakeOver, Enqueue, EnqueueFails,
     RecordRefusal, CrashCall, Work, Stored, Plans
<1>2. /\ keyRecord'.operation = keyRecord.operation
      /\ keyRecord'.status = "completed" =>
            keyRecord.status = "completed" /\ keyRecord'.response \in {keyRecord.response, Nothing}
  <2>1. JobsTypeOK /\ keyRecord \in Records
    BY DEF Backed, JobsTypeOK
  <2>2. ASSUME NEW c \in Calls, RecordRefusal(c)
        PROVE  <1>2!1 /\ <1>2!2
    BY <2>1, <2>2, FailKeepsAnswers DEF RecordRefusal
  <2>3. ASSUME NEW c \in Calls, TakeOver(c)
        PROVE  <1>2!1 /\ <1>2!2
    BY <2>1, <2>3, TakenOverKeepsAnswers DEF TakeOver
  <2>4. ASSUME Age \/ \E c \in Calls : ClaimKey(c)
        PROVE  <1>2!1 /\ <1>2!2
    BY <2>1, <2>4 DEF Age, ClaimKey, Records
  <2>5. ASSUME NEW c \in Calls, FindClaim(c) \/ Enqueue(c) \/ EnqueueFails(c) \/ CrashCall(c)
        PROVE  <1>2!1 /\ <1>2!2
    BY <2>5 DEF FindClaim, Enqueue, EnqueueFails, CrashCall
  <2>6. QED
    BY <2>2, <2>3, <2>4, <2>5
<1>3. Kept
  BY <1>1, <1>2 DEF Kept, Backed, JobsTypeOK
<1>4. HeldWorkIsThere'
  BY <1>1, <1>2 DEF Backed, HeldWorkIsThere, Nothing
<1>5. keyRecord'.status = "completed" => Behind(keyRecord.operation)'
  BY <1>2, <1>3, AnswersStay
<1>6. QED
  BY <1>4, <1>5 DEF Backed

\* A step of a deciding request, or of nobody.
LEMMA DecisionsKeepBacked ==
    ASSUME Backed, JobsTypeOK',
           UNCHANGED <<keyRecord, exec, synced, daily, keyRun, reports>>,
           DOMAIN plans' = DOMAIN plans
    PROVE  Backed'
<1>1. Kept
  BY DEF Kept, Backed, JobsTypeOK
<1>2. HeldWorkIsThere'
  BY DEF Backed, HeldWorkIsThere, Nothing
<1>3. QED
  BY <1>1, <1>2, AnswersStay DEF Backed


\* A worker begins, writes a page, orders a report or goes on to wait for it.
LEMMA WorkKeepsBacked ==
    ASSUME Backed, JobsTypeOK', NEW w \in JobWorkers,
           \/ Load(w) \/ StartRun(w) \/ CommitPage(w) \/ CreateReport(w)
           \/ PersistReport(w) \/ ReportIsDead(w) \/ Raise(w) \/ TotalsCollide(w)
    PROVE  Backed'
<1>1. keyRecord' = keyRecord /\ plans' = plans /\ daily' = daily
  BY DEF Load, StartRun, CommitPage, CreateReport, PersistReport,
     ReportIsDead, TotalsCollide, Raise, Stored, Plans
<1>2. /\ exec \in [JobWorkers -> Executions] /\ synced \in Int /\ keyRun.report \in Nat
      /\ reports \in Seq(ReportStatuses) /\ Len(reports) \in Nat
      /\ keyRun = [status |-> keyRun.status, report |-> keyRun.report]
  BY DEF Backed, JobsTypeOK
<1>3. /\ \A v \in JobWorkers \ {w} : exec'[v] = exec[v]
      /\ exec'[w].page = exec[w].page \/ exec'[w].page <= synced'
      /\ synced <= synced'
  <2>1. CASE CommitPage(w)
    BY <1>2, <2>1 DEF CommitPage, Executions
  <2>2. CASE ~CommitPage(w)
    BY SMTT(30), <1>2, <2>2 DEF Load, StartRun, CreateReport, PersistReport,
       ReportIsDead, TotalsCollide, Raise, Stored, Executions
  <2>3. QED
    BY <2>1, <2>2
<1>4. /\ DOMAIN reports \subseteq DOMAIN reports'
      /\ \A r \in DOMAIN reports : reports'[r] = reports[r]
  <2>1. reports' = reports \/ reports' = Append(reports, "in_progress")
    BY DEF Load, StartRun, CommitPage, CreateReport, PersistReport,
     ReportIsDead, TotalsCollide, Raise
  <2>2. CASE reports' = reports
    BY <2>2
  <2>3. CASE reports' = Append(reports, "in_progress")
    BY SMTT(30), <1>2, <2>3
  <2>4. QED
    BY <2>1, <2>2, <2>3
<1>5. keyRun'.report = keyRun.report \/ PersistReport(w)
  BY <1>2 DEF Load, StartRun, CommitPage, CreateReport, ReportIsDead, TotalsCollide, Raise
<1>6. PersistReport(w) => keyRun'.report = exec[w].report /\ exec[w].report \in DOMAIN reports
  BY DEF PersistReport, Backed, HeldWorkIsThere
<1>7. Kept
  BY <1>1, <1>3, <1>4, <1>5, <1>6 DEF Kept
<1>8. HeldWorkIsThere'
  <2>1. \A v \in JobWorkers : exec'[v].page <= synced'
    <3>1. \A v \in JobWorkers : exec[v].page \in Int /\ synced' \in Int /\ exec[v].page <= synced
      BY <1>2 DEF Backed, HeldWorkIsThere, JobsTypeOK, Executions
    <3>2. QED
      BY SMTT(30), <1>2, <1>3, <3>1
  <2>2. exec'[w].at \in {"created", "polling"} =>
          keyRecord.operation = "report" /\ exec'[w].report \in DOMAIN reports'
    <3>1. CASE StartRun(w)
      BY <1>2, <3>1 DEF StartRun, Executions, Backed, HeldWorkIsThere
    <3>2. CASE CreateReport(w)
      BY <1>2, <3>2 DEF CreateReport, Executions
    <3>3. CASE PersistReport(w)
      BY <1>2, <3>3 DEF PersistReport, Executions, Backed, HeldWorkIsThere
    <3>4. CASE \/ Load(w) \/ CommitPage(w) \/ ReportIsDead(w) \/ Raise(w)
            \/ TotalsCollide(w)
      BY <1>2, <1>4, <3>4 DEF Load, CommitPage, ReportIsDead, TotalsCollide, Raise,
         Executions, Backed, HeldWorkIsThere
    <3>5. QED
      BY <3>1, <3>2, <3>3, <3>4
  <2>3. \A v \in JobWorkers : exec'[v].at \in {"created", "polling"} =>
          keyRecord'.operation = "report" /\ exec'[v].report \in DOMAIN reports'
    BY <1>1, <1>3, <1>4, <2>2 DEF Backed, HeldWorkIsThere
  <2>4. keyRun'.report # Nothing => keyRun'.report \in DOMAIN reports'
    BY <1>4, <1>5, <1>6 DEF Backed, HeldWorkIsThere
  <2>5. keyRun.report # Nothing => keyRun'.report # Nothing
    BY <1>2, <1>5, <1>6 DEF Nothing
  <2>6. exec'[w].at = "polling" => keyRun'.report # Nothing
    <3>1. CASE PersistReport(w)
      BY <1>2, <1>6, <3>1 DEF Nothing
    <3>2. CASE StartRun(w)
      BY <1>2, <1>5, <2>5, <3>2 DEF StartRun, PersistReport, Executions, Nothing
    <3>3. CASE \/ Load(w) \/ CommitPage(w) \/ CreateReport(w) \/ ReportIsDead(w)
               \/ Raise(w) \/ TotalsCollide(w)
      BY <1>2, <2>5, <3>3 DEF Load, CommitPage, CreateReport, ReportIsDead,
         TotalsCollide, Raise, Executions, Backed, HeldWorkIsThere
    <3>4. QED
      BY <3>1, <3>2, <3>3
  <2>7. \A v \in JobWorkers : exec'[v].at = "polling" => keyRun'.report # Nothing
    BY <1>3, <2>5, <2>6 DEF Backed, HeldWorkIsThere
  <2>8. QED
    BY <2>1, <2>3, <2>4, <2>7 DEF HeldWorkIsThere, Nothing
<1>9. QED
  BY <1>1, <1>7, <1>8, AnswersStay DEF Backed

\* A worker lets go of the job without a result.
LEMMA FailuresKeepBacked ==
    ASSUME Backed, JobsTypeOK', NEW w \in JobWorkers,
           RecordFailure(w) \/ CrashWorker(w)
    PROVE  Backed'
<1>1. /\ UNCHANGED <<synced, daily, keyRun, reports, plans>>
      /\ exec' = [exec EXCEPT ![w] = Out]
  BY DEF RecordFailure, CrashWorker, Stored, Plans
<1>2. /\ keyRecord'.operation = keyRecord.operation
      /\ keyRecord'.status = "completed" => keyRecord' = keyRecord
  BY FailKeepsAnswers DEF Backed, RecordFailure, CrashWorker
<1>3. Kept
  BY <1>1, <1>2 DEF Kept, Backed, JobsTypeOK
<1>4. HeldWorkIsThere'
  BY <1>1, <1>2 DEF Backed, HeldWorkIsThere, JobsTypeOK, Nothing, Out
<1>5. QED
  BY <1>2, <1>3, <1>4, AnswersStay DEF Backed

LEMMA ReportsKeepBacked ==
    ASSUME Backed, JobsTypeOK', NEW r \in DOMAIN reports, MoveReport(r)
    PROVE  Backed'
<1>1. UNCHANGED <<keyRecord, exec, synced, daily, keyRun, plans>>
  BY DEF MoveReport, Stored, Plans
<1>2. /\ DOMAIN reports' = DOMAIN reports
      /\ \A q \in DOMAIN reports : reports[q] = "done" => reports'[q] = "done"
  BY DEF MoveReport, Backed, JobsTypeOK
<1>3. Kept
  BY <1>1, <1>2 DEF Kept, Backed, JobsTypeOK
<1>4. HeldWorkIsThere'
  BY <1>1, <1>2 DEF Backed, HeldWorkIsThere, Nothing
<1>5. QED
  BY <1>1, <1>3, <1>4, AnswersStay DEF Backed

\* The result is recorded: with it, or before it, everything it answers with.
LEMMA CommitsKeepBacked ==
    ASSUME Backed, JobsTypeOK', NEW w \in JobWorkers,
           \/ CommitScan(w) \/ CommitTotals(w)
           \/ CommitSync(w) \/ CommitReport(w)
    PROVE  Backed'
<1>1. /\ reports' = reports /\ exec' = [exec EXCEPT ![w] = Out]
      /\ keyRecord'.operation = keyRecord.operation
      /\ keyRun'.report = keyRun.report
  BY DEF Backed, JobsTypeOK, Records, Complete, CommitScan, CommitTotals, CommitSync, CommitReport
<1>2. synced <= synced' /\ synced \in Int /\ synced' \in Int
  <2>1. synced' = synced \/ synced' = Pages
    BY DEF CommitScan, CommitTotals, CommitSync,
       CommitReport, Stored
  <2>2. synced \in 0..Pages /\ Pages \in Nat
    BY DEF Backed, JobsTypeOK
  <2>3. QED
    BY <2>1, <2>2
<1>3. HeldWorkIsThere'
  <2>1. \A v \in JobWorkers : exec[v].page \in Int /\ exec[v].page <= synced
    BY DEF Backed, HeldWorkIsThere, JobsTypeOK, Executions
  <2>2. 0 <= synced'
    BY DEF JobsTypeOK
  <2>3. \A v \in JobWorkers : exec'[v].page <= synced'
    <3> TAKE v \in JobWorkers
    <3>1. exec'[v].page = 0 \/ exec'[v] = exec[v]
      BY <1>1 DEF Backed, JobsTypeOK, Out
    <3>2. QED
      BY <1>2, <2>1, <2>2, <3>1
  <2>4. QED
    BY <1>1, <2>3 DEF Backed, HeldWorkIsThere, JobsTypeOK, Nothing, Out
<1>4. SUFFICES Behind(keyRecord.operation)'
  BY <1>3 DEF Backed
<1>5. CASE CommitScan(w)
  <2>1. /\ plans' = Append(plans, "pending") /\ keyRecord'.response = Len(plans) + 1
        /\ keyRecord'.operation = "scan"
    BY <1>1, <1>5 DEF CommitScan, Complete, Saved, Backed, JobsTypeOK, Records
  <2>2. plans \in Seq(PlanStatuses) /\ Len(plans) \in Nat
    BY DEF Backed, JobsTypeOK
  <2>3. QED
    BY <2>1, <2>2 DEF Behind, Totalled, Nothing
<1>6. CASE CommitTotals(w)
  BY <1>1, <1>6 DEF Behind, CommitTotals, Totalled, TotalledDays
<1>7. CASE CommitSync(w)
  <2>1. exec[w].page = Pages /\ keyRecord'.operation = "sync" /\ synced' = synced
    BY <1>1, <1>7 DEF CommitSync, LastPage, Stored
  <2>2. exec[w].page <= synced /\ synced \in 0..Pages
    BY DEF Backed, HeldWorkIsThere, JobsTypeOK
  <2>3. synced' = Pages
    BY <2>1, <2>2
  <2>4. QED
    BY <2>1, <2>3 DEF Behind, Totalled
<1>8. CASE CommitReport(w)
  <2>1. /\ keyRecord'.operation = "report" /\ keyRun'.report \in DOMAIN reports'
        /\ exec[w].report \in DOMAIN reports' /\ reports'[exec[w].report] = "done"
    BY <1>1, <1>8 DEF CommitReport, Backed, HeldWorkIsThere
  <2>2. QED
    BY <2>1 DEF Behind, Totalled
<1>9. QED
  BY <1>5, <1>6, <1>7, <1>8

LEMMA InitBacked == JobsInit => Backed
<1> SUFFICES ASSUME JobsInit
             PROVE  Backed
  OBVIOUS
<1> USE DEF JobsInit
<1>1. Out \in Executions /\ NoDecision \in Decisions
  BY DEF Out, Executions, RecordStatuses, Nothing, NoDecision, Decisions, PlanStatuses
<1>2. KeyTyped
  <2>1. keyRecord \in Records /\ keyRecord.status = "none"
    <3>1. keyRecord \in [operation : Operations, status : {"none"}, response : {Nothing},
                          stale : {FALSE}]
      OBVIOUS
    <3>2. /\ {"none"} \subseteq RecordStatuses /\ {Nothing} \subseteq Results
          /\ {FALSE} \subseteq BOOLEAN
      BY DEF RecordStatuses, Results, Nothing
    <3>3. QED
      BY <3>1, <3>2, Zenon DEF Records
  <2>2. NoCall \in CallStates
    BY DEF NoCall, CallStates, RecordStatuses
  <2>3. QED
    BY <2>1, <2>2 DEF KeyTyped
<1>3. WorkTyped /\ PlansTyped
  BY <1>1 DEF WorkTyped, PlansTyped, RunStatuses, Nothing
<1>4. HeldWorkIsThere
  BY DEF HeldWorkIsThere, Out, Nothing
<1>5. keyRecord.status # "completed"
  OBVIOUS
<1>6. QED
  BY <1>2, <1>3, <1>4, <1>5, TypedInParts DEF Backed

LEMMA BackedStep ==
    ASSUME Backed, [JobsNext]_jobsVars
    PROVE  Backed'
<1>1. JobsTypeOK'
  BY KeyStaysTyped DEF Backed
<1>2. CASE UNCHANGED jobsVars
  BY <1>1, <1>2, DecisionsKeepBacked DEF jobsVars
<1>3. ASSUME NEW d \in Deciders,
             \/ \E p \in 1..OnScreen, choice \in {"approved", "dismissed"} :
                   ReadPlan(d, p, choice)
             \/ Decide(d)
             \/ \E statuses \in {{"pending"}, {"pending", "approved", "dismissed"}} :
                   PickPlans(d, statuses)
             \/ ClearPlans(d)
      PROVE  Backed'
  <2>1. PlansTyped
    BY TypedInParts DEF Backed
  <2>2. QED
    BY <1>1, <1>3, <2>1, PlansAreNotLost, DecisionsKeepBacked
<1>4. CASE JobsNext
  BY <1>1, <1>3, <1>4, CallsKeepBacked, WorkKeepsBacked, FailuresKeepBacked, ReportsKeepBacked,
     CommitsKeepBacked DEF JobsNext
<1>5. QED
  BY <1>2, <1>4

LEMMA InitOrderly == JobsInit => Orderly
<1> SUFFICES ASSUME JobsInit
             PROVE  Orderly
  OBVIOUS
<1>1. keyRecord.response = Nothing /\ keyRecord.status = "none"
  BY DEF JobsInit
<1>2. QED
  BY <1>1 DEF JobsInit, Orderly, NoCall, Out

\* A late failure excuses everything; without one the record is in order.
LEMMA OrderlyStep ==
    ASSUME JobsTypeOK, Orderly, [JobsNext]_jobsVars
    PROVE  Orderly'
<1>1. /\ keyRecord \in Records /\ call \in [Calls -> CallStates]
      /\ exec \in [JobWorkers -> Executions] /\ plans \in Seq(PlanStatuses)
  BY DEF JobsTypeOK
<1>2. CASE UNCHANGED <<keyRecord, call, exec, excuses>>
  BY <1>2 DEF Orderly, Nothing
<1>3. ASSUME NEW c \in Calls,
             \/ ClaimKey(c) \/ FindClaim(c) \/ TakeOver(c) \/ Enqueue(c)
             \/ EnqueueFails(c) \/ RecordRefusal(c) \/ CrashCall(c)
      PROVE  Orderly'
  <2>1. exec' = exec /\ excuses \subseteq excuses'
    BY <1>3 DEF ClaimKey, FindClaim, TakeOver, Enqueue, EnqueueFails, RecordRefusal,
       CrashCall, Fail, Work, History
  <2>2. SUFFICES ASSUME "late" \notin excuses'
                 PROVE  /\ (keyRecord'.response # Nothing) <=> (keyRecord'.status = "completed")
                        /\ \A b \in Calls : ~call'[b].answered
    BY <2>1 DEF Orderly, Nothing
  <2>3. /\ (keyRecord.response # Nothing) <=> (keyRecord.status = "completed")
        /\ \A b \in Calls : ~call[b].answered
    BY <2>1, <2>2 DEF Orderly
  <2>4. \A b \in Calls : ~call'[b].answered
    <3>1. CASE FindClaim(c)
      <4>1. keyRecord.response = Nothing
        BY <2>3, <3>1 DEF FindClaim, ClaimIsAbandoned
      <4>2. QED
        BY <1>1, <2>3, <3>1, <4>1 DEF FindClaim
    <3>2. CASE EnqueueFails(c)
      BY <1>1, <2>3, <3>2 DEF EnqueueFails, CallStates
    <3>3. CASE ~FindClaim(c) /\ ~EnqueueFails(c)
      <4>1. \E e : e.answered = FALSE /\ call' = [call EXCEPT ![c] = e]
        <5>1. CASE ClaimKey(c)
          <6>1. [NoCall EXCEPT !.at = "claimed", !.status = "processing"].answered = FALSE
            BY DEF NoCall
          <6>2. QED
            BY <5>1, <6>1 DEF ClaimKey
        <5>2. CASE TakeOver(c)
          <6>1. [NoCall EXCEPT !.at = "claimed", !.status = TakenOver(c).status].answered = FALSE
            BY DEF NoCall
          <6>2. QED
            BY <5>2, <6>1 DEF TakeOver
        <5>3. CASE Enqueue(c) \/ RecordRefusal(c) \/ CrashCall(c)
          <6>1. NoCall.answered = FALSE
            BY DEF NoCall
          <6>2. QED
            BY <5>3, <6>1 DEF Enqueue, RecordRefusal, CrashCall
        <5>4. QED
          BY <1>3, <3>3, <5>1, <5>2, <5>3
      <4>2. QED
        BY <1>1, <2>3, <4>1
    <3>4. QED
      BY <3>1, <3>2, <3>3
  <2>5. (keyRecord'.response # Nothing) <=> (keyRecord'.status = "completed")
    <3>1. CASE TakeOver(c)
      <4>1. TakenOver(c).response = keyRecord.response
        BY <2>3, TakenOverKeepsAnswers
      <4>2. keyRecord.status = "completed" => TakenOver(c).status = "completed"
        BY <2>2, <3>1 DEF TakeOver, LateFailure
      <4>3. TakenOver(c).status = "completed" => keyRecord.status = "completed"
        BY TakenOverKeepsAnswers
      <4>4. QED
        BY <2>3, <3>1, <4>1, <4>2, <4>3 DEF TakeOver
    <3>2. CASE RecordRefusal(c)
      BY <1>1, <2>2, <2>3, <3>2 DEF RecordRefusal, Fail, LateFailure, Records
    <3>3. CASE ClaimKey(c)
      BY <1>1, <2>3, <3>3 DEF ClaimKey, Records
    <3>4. CASE FindClaim(c) \/ Enqueue(c) \/ EnqueueFails(c) \/ CrashCall(c)
      BY <2>3, <3>4 DEF FindClaim, Enqueue, EnqueueFails, CrashCall
    <3>5. QED
      BY <1>3, <3>1, <3>2, <3>3, <3>4
  <2>6. QED
    BY <2>4, <2>5
<1>4. CASE Age
  BY <1>1, <1>4 DEF Age, Orderly, Records, Work, Nothing
<1>5. ASSUME NEW w \in JobWorkers,
             \/ Load(w) \/ StartRun(w) \/ CommitPage(w) \/ CreateReport(w) \/ PersistReport(w)
             \/ ReportIsDead(w) \/ Raise(w) \/ TotalsCollide(w)
      PROVE  Orderly'
  <2>1. UNCHANGED <<keyRecord, call>> /\ excuses \subseteq excuses'
    BY <1>5 DEF Load, StartRun, CommitPage, CreateReport, PersistReport, ReportIsDead, Raise,
       TotalsCollide, History
  <2>2. SUFFICES ASSUME "late" \notin excuses', Orderly
                 PROVE  \A v \in JobWorkers : exec'[v].status # "completed"
    BY <2>1 DEF Orderly, Nothing
  <2>3. CASE Load(w)
    <3>1. /\ \A v \in JobWorkers : exec[v].status # "completed"
          /\ (keyRecord.response # Nothing) <=> (keyRecord.status = "completed")
      BY <2>1, <2>2 DEF Orderly
    <3>2. exec' = exec \/ (/\ Remembered # "completed"
                           /\ exec' = [exec EXCEPT ![w].at = "starting", ![w].status = Remembered])
      BY <2>3, <3>1 DEF Load, Remembered
    <3>3. QED
      BY <1>1, <3>1, <3>2 DEF Executions
  <2>4. CASE ~Load(w)
    <3>1. \A v \in JobWorkers : exec'[v].status = exec[v].status
      <4>1. CASE StartRun(w)
        <5>1. \/ exec' = [exec EXCEPT ![w].at = "working"]
              \/ \E report, at : exec' = [exec EXCEPT ![w].report = report, ![w].at = at]
          BY <4>1 DEF StartRun
        <5>2. \E to : to.status = exec[w].status /\ exec' = [exec EXCEPT ![w] = to]
          <6>1. exec[w] \in Executions
            BY <1>1
          <6>2. CASE exec' = [exec EXCEPT ![w].at = "working"]
            <7>1. [exec[w] EXCEPT !.at = "working"].status = exec[w].status
              BY <6>1 DEF Executions
            <7>2. QED
              BY <6>2, <7>1
          <6>3. ASSUME NEW report, NEW at,
                       exec' = [exec EXCEPT ![w].report = report, ![w].at = at]
                PROVE  \E to : to.status = exec[w].status /\ exec' = [exec EXCEPT ![w] = to]
            <7>1. [exec[w] EXCEPT !.report = report, !.at = at].status = exec[w].status
              BY <6>1 DEF Executions
            <7>2. exec' = [exec EXCEPT ![w] = [exec[w] EXCEPT !.report = report, !.at = at]]
              BY <6>3, <1>1
            <7>3. QED
              BY <7>1, <7>2
          <6>4. QED
            BY <5>1, <6>2, <6>3
        <5>3. QED
          BY <1>1, <5>2
      <4>2. CASE CommitPage(w)
        BY <1>1, <4>2 DEF CommitPage, Executions
      <4>3. CASE CreateReport(w)
        BY <1>1, <4>3 DEF CreateReport, Executions
      <4>4. CASE PersistReport(w) \/ ReportIsDead(w)
        <5>1. \E at : exec' = [exec EXCEPT ![w].at = at]
          BY <4>4 DEF PersistReport, ReportIsDead
        <5>2. QED
          BY <1>1, <5>1 DEF Executions
      <4>5. CASE Raise(w) \/ TotalsCollide(w)
        BY <1>1, <4>5 DEF Raise, TotalsCollide, Executions
      <4>6. QED
        BY <1>5, <2>4, <4>1, <4>2, <4>3, <4>4, <4>5
    <3>2. QED
      BY <2>1, <2>2, <3>1 DEF Orderly
  <2>5. QED
    BY <2>3, <2>4
<1>6. ASSUME NEW w \in JobWorkers,
             \/ CommitScan(w) \/ CommitTotals(w) \/ CommitSync(w) \/ CommitReport(w)
             \/ RecordFailure(w) \/ CrashWorker(w)
      PROVE  Orderly'
  <2>1. /\ call' = call /\ excuses \subseteq excuses' /\ exec' = [exec EXCEPT ![w] = Out]
    BY <1>6 DEF CommitScan, CommitTotals, CommitSync, CommitReport, RecordFailure, CrashWorker,
       Complete, Fail, History
  <2>2. SUFFICES ASSUME "late" \notin excuses', Orderly
                 PROVE  (keyRecord'.response # Nothing) <=> (keyRecord'.status = "completed")
    BY <1>1, <2>1 DEF Orderly, Out, Nothing
  <2>3. /\ (keyRecord.response # Nothing) <=> (keyRecord.status = "completed")
        /\ exec[w].status # "completed"
    BY <2>1, <2>2 DEF Orderly
  <2>4. CASE RecordFailure(w) \/ CrashWorker(w)
    BY <1>1, <2>2, <2>3, <2>4 DEF RecordFailure, CrashWorker, Fail, LateFailure, Records
  <2>5. CASE ~(RecordFailure(w) \/ CrashWorker(w))
    <3>1. PICK result \in Nat : result # Nothing /\ Complete(w, result)
      <4>1. Len(plans) + 1 \in Nat /\ Len(plans) + 1 # 0
        BY <1>1
      <4>2. QED
        BY <1>6, <2>5, <4>1 DEF CommitScan, CommitTotals, CommitSync, CommitReport, Nothing
    <3>2. QED
      BY <1>1, <2>3, <3>1 DEF Complete, Records
  <2>6. QED
    BY <2>4, <2>5
<1>7. CASE JobsNext
  <2>1. ASSUME \/ \E r \in DOMAIN reports : MoveReport(r)
               \/ \E d \in Deciders :
                     \/ \E p \in 1..OnScreen, choice \in {"approved", "dismissed"} :
                           ReadPlan(d, p, choice)
                     \/ Decide(d)
                     \/ \E statuses \in {{"pending"}, {"pending", "approved", "dismissed"}} :
                           PickPlans(d, statuses)
                     \/ ClearPlans(d)
        PROVE  UNCHANGED <<keyRecord, call, exec, excuses>>
    BY <2>1 DEF MoveReport, ReadPlan, Decide, PickPlans, ClearPlans, Work, History
  <2>2. QED
    BY <1>2, <1>3, <1>4, <1>5, <1>6, <1>7, <2>1 DEF JobsNext
<1>8. QED
  BY <1>2, <1>7 DEF jobsVars

\* For any number of callers, workers, pages, days, retries and faults: what a
\* key answers with is all there, and a key that is completed without an answer
\* has had a failure or a claim written over a result.
THEOREM AnswersHold == JobsSpec => []AnswersAreBacked
<1>1. JobsInit => Backed /\ Orderly
  BY InitBacked, InitOrderly
<1>2. Backed /\ Orderly /\ [JobsNext]_jobsVars => (Backed /\ Orderly)'
  BY BackedStep, OrderlyStep DEF Backed
<1>3. Backed /\ Orderly => AnswersAreBacked
  BY TypedInParts, AnswersInParts DEF Backed, Orderly
<1>4. QED
  BY <1>1, <1>2, <1>3, PTL DEF JobsSpec


\* Until two runs of the job overlapped there is one; until then, and until a
\* failure was written over a result, a plan is the only one, recorded, and
\* nobody is at the job any more; and until an id was lost a report is the only
\* one, and whoever could order another knows of none.
Alone == "overlap" \notin excuses => \A v, w \in Occupied : v = w

OnePlan ==
    excuses \cap {"overlap", "late"} = {} /\ Len(plans) > 0 =>
        /\ Len(plans) = 1
        /\ keyRecord.status = "completed" /\ keyRecord.response # Nothing
        /\ Occupied = {}

OneReport ==
    excuses \cap {"overlap", "lost"} = {} =>
        /\ Len(reports) <= 1
        /\ Len(reports) > 0 =>
              keyRun.report # Nothing \/ \E w \in JobWorkers : exec[w].at = "created"
        /\ keyRecord.operation = "report" /\ Len(reports) > 0 =>
              \A w \in JobWorkers : exec[w].at # "working"

Sparing == Backed /\ Orderly /\ Alone /\ OnePlan /\ OneReport

LEMMA CallsSpare ==
    ASSUME Sparing, Backed', Orderly',
           Age \/ \E c \in Calls : \/ ClaimKey(c) \/ FindClaim(c) \/ TakeOver(c)
                                       \/ Enqueue(c) \/ EnqueueFails(c)
                                       \/ RecordRefusal(c) \/ CrashCall(c)
    PROVE  Sparing'
<1>1. /\ UNCHANGED <<exec, keyRun, reports, plans>> /\ excuses \subseteq excuses'
      /\ keyRecord'.operation = keyRecord.operation
  <2>1. JobsTypeOK /\ keyRecord \in Records
    BY DEF Sparing, Backed, JobsTypeOK
  <2>2. CASE Age
    BY <2>1, <2>2 DEF Age, Records, Work, Plans, History
  <2>3. ASSUME NEW c \in Calls, TakeOver(c)
        PROVE  <1>1!1 /\ <1>1!2
    BY <2>1, <2>3, TakenOverKeepsAnswers DEF TakeOver, Work, Plans
  <2>4. ASSUME NEW c \in Calls, RecordRefusal(c)
        PROVE  <1>1!1 /\ <1>1!2
    BY <2>1, <2>4, FailKeepsAnswers DEF RecordRefusal, Work, Plans
  <2>5. ASSUME NEW c \in Calls, \/ ClaimKey(c) \/ FindClaim(c) \/ Enqueue(c)
                                \/ EnqueueFails(c) \/ CrashCall(c)
        PROVE  <1>1!1 /\ <1>1!2
    BY <2>1, <2>5 DEF ClaimKey, FindClaim, Enqueue, EnqueueFails, CrashCall, Records, Work,
       Plans, History
  <2>6. QED
    BY <2>2, <2>3, <2>4, <2>5
<1>2. keyRecord.status = "completed" /\ "late" \notin excuses' =>
        keyRecord'.status = "completed" /\ keyRecord'.response # Nothing
  <2> SUFFICES ASSUME keyRecord.status = "completed", "late" \notin excuses'
               PROVE  keyRecord'.status = "completed"
    BY DEF Orderly, Nothing
  <2>1. ASSUME NEW c \in Calls, TakeOver(c)
        PROVE  keyRecord'.status = "completed"
    BY <2>1 DEF TakeOver, LateFailure
  <2>2. CASE ~\E c \in Calls : TakeOver(c)
    BY <2>2 DEF Age, ClaimKey, FindClaim, Enqueue, EnqueueFails, RecordRefusal, CrashCall, Fail,
       LateFailure
  <2>3. QED
    BY <2>1, <2>2
<1>3. Alone' /\ OneReport'
  BY <1>1 DEF Sparing, Alone, OneReport, Occupied, Nothing
<1>4. OnePlan'
  BY <1>1, <1>2 DEF Sparing, OnePlan, Occupied, Nothing
<1>5. QED
  BY <1>3, <1>4 DEF Sparing

\* Nobody begins, orders or lets go.
LEMMA OthersSpare ==
    ASSUME Sparing, Backed', Orderly',
           UNCHANGED <<keyRecord, exec, keyRun, excuses>>,
           Len(plans') = Len(plans), Len(reports') = Len(reports)
    PROVE  Sparing'
BY DEF Sparing, Alone, OnePlan, OneReport, Occupied, Nothing

LEMMA LoadSpares ==
    ASSUME Sparing, Backed', Orderly', NEW w \in JobWorkers, Load(w)
    PROVE  Sparing'
<1>1. UNCHANGED <<keyRecord, keyRun, reports, plans>>
  BY DEF Load, Plans
<1>2. CASE UNCHANGED <<exec, excuses>>
  BY <1>1, <1>2, OthersSpare
<1>3. CASE ~UNCHANGED <<exec, excuses>>
  <2>1. /\ ~(keyRecord.status = "completed" /\ keyRecord.response # Nothing)
        /\ exec' = [exec EXCEPT ![w].at = "starting", ![w].status = Remembered]
        /\ excuses' = excuses \cup (IF Occupied # {} THEN {"overlap"} ELSE {})
    BY <1>3 DEF Load
  <2>2. exec \in [JobWorkers -> Executions]
    BY DEF Sparing, Backed, JobsTypeOK
  <2>3. CASE "overlap" \in excuses'
    BY <2>3 DEF Sparing, Alone, OnePlan, OneReport
  <2>4. CASE "overlap" \notin excuses'
    <3>1. Occupied = {} /\ excuses' = excuses
      BY <2>1, <2>4
    <3>2. /\ \A v \in JobWorkers : exec[v].at = "idle"
          /\ exec'[w].at = "starting" /\ \A v \in JobWorkers : v # w => exec'[v].at = "idle"
      BY <2>1, <2>2, <3>1 DEF Occupied, Executions
    <3>3. Occupied' = {w}
      BY <3>2 DEF Occupied
    <3>4. OnePlan'
      BY <1>1, <2>1, <3>1 DEF Sparing, OnePlan, Nothing
    <3>5. OneReport'
      BY <1>1, <3>1, <3>2 DEF Sparing, OneReport, Nothing
    <3>6. QED
      BY <3>3, <3>4, <3>5 DEF Sparing, Alone
  <2>5. QED
    BY <2>3, <2>4
<1>4. QED
  BY <1>2, <1>3

\* The worker goes on: it was there, so there is no plan yet, or an excuse.
LEMMA StepSpares ==
    ASSUME Sparing, Backed', Orderly', NEW w \in JobWorkers,
           \/ StartRun(w) \/ CommitPage(w) \/ CreateReport(w)
           \/ PersistReport(w) \/ ReportIsDead(w) \/ Raise(w) \/ TotalsCollide(w)
    PROVE  Sparing'
<1>1. /\ keyRecord' = keyRecord /\ plans' = plans /\ excuses \subseteq excuses'
      /\ exec[w].at # "idle" /\ w \in Occupied
  BY DEF StartRun, CommitPage, CreateReport, PersistReport,
     ReportIsDead, Raise, TotalsCollide, Plans, History, Occupied
<1>2. exec \in [JobWorkers -> Executions] /\ reports \in Seq(ReportStatuses)
      /\ Len(reports) \in Nat
  BY DEF Sparing, Backed, JobsTypeOK
<1>3. /\ \A v \in JobWorkers : v # w => exec'[v] = exec[v]
      /\ exec'[w].at # "idle"
  BY <1>1, <1>2 DEF StartRun, CommitPage, CreateReport, PersistReport,
     ReportIsDead, Raise, TotalsCollide, Executions
<1>4. Occupied' = Occupied
  BY <1>1, <1>3 DEF Occupied
<1>5. Alone' /\ OnePlan'
  BY <1>1, <1>4 DEF Sparing, Alone, OnePlan
<1>6. OneReport'
  <2>1. SUFFICES ASSUME excuses' \cap {"overlap", "lost"} = {}
                 PROVE  /\ Len(reports') <= 1
                        /\ Len(reports') > 0 => \/ keyRun'.report # Nothing
                                                \/ \E v \in JobWorkers : exec'[v].at = "created"
                        /\ keyRecord'.operation = "report" /\ Len(reports') > 0 =>
                              \A v \in JobWorkers : exec'[v].at # "working"
    BY DEF OneReport, Nothing
  <2>2. /\ \A v \in JobWorkers : v # w => exec[v].at = "idle" /\ exec'[v].at = "idle"
        /\ Len(reports) <= 1
        /\ Len(reports) > 0 => keyRun.report # Nothing \/ exec[w].at = "created"
        /\ keyRecord.operation = "report" /\ Len(reports) > 0 => exec[w].at # "working"
    <3>1. \A v \in JobWorkers : v # w => exec[v].at = "idle"
      BY <1>1, <2>1 DEF Sparing, Alone, Occupied
    <3>2. QED
      BY <1>1, <1>3, <2>1, <3>1 DEF Sparing, OneReport
  <2>3. CASE StartRun(w)
    <3>1. keyRun'.report = keyRun.report /\ reports' = reports /\ exec[w].at = "starting"
      BY <2>3 DEF StartRun, Sparing, Backed, JobsTypeOK
    <3>2. keyRecord.operation = "report" /\ keyRun.report # Nothing
            => exec'[w].at = "polling"
      BY <1>2, <2>3 DEF StartRun, Executions
    <3>3. QED
      BY <1>1, <2>2, <3>1, <3>2
  <2>4. CASE CommitPage(w)
    BY <1>1, <1>2, <2>2, <2>4 DEF CommitPage, Executions
  <2>5. CASE CreateReport(w)
    BY <1>1, <1>2, <2>2, <2>5 DEF CreateReport, Executions
  <2>6. CASE PersistReport(w)
    BY <1>1, <1>2, <2>2, <2>6
       DEF PersistReport, Executions, Sparing, Backed, HeldWorkIsThere, Nothing
  <2>7. CASE ReportIsDead(w)
    <3>1. keyRun'.report = keyRun.report /\ reports' = reports /\ exec[w].at # "created"
      BY <2>7 DEF ReportIsDead, Sparing, Backed, JobsTypeOK
    <3>2. exec'[w].at = "failing"
      BY <1>2, <2>7 DEF ReportIsDead, Executions
    <3>3. QED
      BY <1>1, <2>2, <3>1, <3>2
  <2>8. CASE Raise(w)
    <3>1. keyRun'.report = keyRun.report /\ reports' = reports
      BY <2>8 DEF Raise, Sparing, Backed, JobsTypeOK
    <3>2. exec'[w].at = "failing" /\ exec[w].at # "created"
      BY <1>2, <2>1, <2>8 DEF Raise, LostReport, Executions
    <3>3. QED
      BY <1>1, <2>2, <3>1, <3>2
  <2>9. CASE TotalsCollide(w)
    BY <1>1, <1>2, <2>2, <2>9 DEF TotalsCollide, Executions
  <2>10. QED
    BY <2>3, <2>4, <2>5, <2>6, <2>7, <2>8, <2>9
<1>7. QED
  BY <1>5, <1>6 DEF Sparing

\* The worker is done, with a result or without.
LEMMA LeavingSpares ==
    ASSUME Sparing, Backed', Orderly', NEW w \in JobWorkers,
           \/ CommitScan(w) \/ CommitTotals(w)
           \/ CommitSync(w) \/ CommitReport(w)
           \/ RecordFailure(w) \/ CrashWorker(w)
    PROVE  Sparing'
<1>1. /\ exec' = [exec EXCEPT ![w] = Out] /\ reports' = reports
      /\ excuses \subseteq excuses'
      /\ exec[w].at # "idle" /\ w \in Occupied
  BY DEF CommitScan, CommitTotals, CommitSync, CommitReport,
     RecordFailure, CrashWorker, Complete, Fail, History, Occupied
<1>2. /\ exec \in [JobWorkers -> Executions] /\ keyRun.report \in Nat
      /\ plans \in Seq(PlanStatuses) /\ Len(plans) \in Nat
  BY DEF Sparing, Backed, JobsTypeOK
<1>3. /\ exec'[w].at = "idle" /\ \A v \in JobWorkers : v # w => exec'[v] = exec[v]
      /\ Occupied' = Occupied \ {w}
  BY <1>1, <1>2 DEF Occupied, Out
<1>4. keyRun'.report = keyRun.report /\ keyRecord'.operation = keyRecord.operation
  <2>1. JobsTypeOK
    BY DEF Sparing, Backed
  <2>2. CASE RecordFailure(w) \/ CrashWorker(w)
    BY <2>1, <2>2, FailKeepsAnswers DEF RecordFailure, CrashWorker
  <2>3. CASE ~(RecordFailure(w) \/ CrashWorker(w))
    BY <2>1, <2>3 DEF JobsTypeOK, Records, CommitScan, CommitTotals, CommitSync, CommitReport,
       Complete
  <2>4. QED
    BY <2>2, <2>3
<1>5. Alone'
  BY <1>1, <1>3 DEF Sparing, Alone
<1>6. OneReport'
  <2>1. exec[w].at = "created" => "lost" \in excuses'
    BY DEF CommitScan, CommitTotals, CommitSync, CommitReport,
       RecordFailure, CrashWorker, LostReport
  <2>2. QED
    BY <1>1, <1>3, <1>4, <2>1 DEF Sparing, OneReport, Nothing
<1>7. OnePlan'
  <2>1. SUFFICES ASSUME excuses' \cap {"overlap", "late"} = {}, Len(plans') > 0
                 PROVE  /\ Len(plans') = 1
                        /\ keyRecord'.status = "completed" /\ keyRecord'.response # Nothing
                        /\ Occupied' = {}
    BY DEF OnePlan, Nothing
  <2>2. Len(plans) = 0 /\ Occupied = {w}
    BY <1>1, <1>2, <2>1 DEF Sparing, OnePlan, Alone
  <2>3. CommitScan(w)
    BY <2>1, <2>2 DEF CommitTotals, CommitSync, CommitReport,
       RecordFailure, CrashWorker, Plans
  <2>4. exec[w].status # "completed"
    BY <1>1, <2>1 DEF Sparing, Orderly
  <2>5. plans' = Append(plans, "pending") /\ Complete(w, Len(plans) + 1)
    BY <2>3 DEF CommitScan, Saved
  <2>6. keyRecord'.status = "completed" /\ keyRecord'.response = 1
    BY <2>2, <2>4, <2>5 DEF Complete, Sparing, Backed, JobsTypeOK, Records
  <2>7. QED
    BY <1>2, <1>3, <2>2, <2>5, <2>6 DEF Nothing
<1>8. QED
  BY <1>5, <1>6, <1>7 DEF Sparing


LEMMA SparingStep ==
    ASSUME Sparing, [JobsNext]_jobsVars
    PROVE  Sparing'
<1>1. Backed' /\ Orderly'
  BY BackedStep, OrderlyStep DEF Sparing, Backed
<1>2. CASE UNCHANGED jobsVars
  BY <1>1, <1>2, OthersSpare DEF jobsVars
<1>3. ASSUME NEW d \in Deciders,
             \/ \E p \in 1..OnScreen, choice \in {"approved", "dismissed"} :
                   ReadPlan(d, p, choice)
             \/ Decide(d)
             \/ \E statuses \in {{"pending"}, {"pending", "approved", "dismissed"}} :
                   PickPlans(d, statuses)
             \/ ClearPlans(d)
      PROVE  Sparing'
  <2>1. PlansTyped
    BY TypedInParts DEF Sparing, Backed
  <2>2. UNCHANGED <<keyRecord, exec, keyRun, excuses, reports>> /\ Len(plans') = Len(plans)
    BY <1>3, <2>1, PlansAreNotLost
  <2>3. QED
    BY <1>1, <2>2, OthersSpare
<1>4. ASSUME NEW r \in DOMAIN reports, MoveReport(r)
      PROVE  Sparing'
  <2>1. UNCHANGED <<keyRecord, exec, keyRun, excuses, plans>> /\ Len(reports') = Len(reports)
    BY SMTT(30), <1>4 DEF MoveReport, Plans, Sparing, Backed, JobsTypeOK
  <2>2. QED
    BY <1>1, <2>1, OthersSpare
<1>5. CASE JobsNext
  BY <1>1, <1>3, <1>4, <1>5, CallsSpare, LoadSpares, StepSpares, LeavingSpares DEF JobsNext
<1>6. QED
  BY <1>2, <1>5

\* One key, one piece of work, for any number of callers, workers and retries:
\* a second plan needs two runs that overlapped or a failure written over a
\* result, a second report two that overlapped or an id that was lost.
THEOREM OneKeyOneResult == JobsSpec => []WorkDoneOnce
<1>1. JobsInit => Sparing
  <2> SUFFICES ASSUME JobsInit
               PROVE  Sparing
    OBVIOUS
  <2>1. Len(plans) = 0 /\ Len(reports) = 0 /\ Occupied = {}
    BY DEF JobsInit, Occupied, Out
  <2>2. QED
    BY <2>1, InitBacked, InitOrderly DEF Sparing, Alone, OnePlan, OneReport
<1>2. Sparing /\ [JobsNext]_jobsVars => Sparing'
  BY SparingStep
<1>3. Sparing => WorkDoneOnce
  <2> SUFFICES ASSUME Sparing
               PROVE  WorkDoneOnce
    OBVIOUS
  <2>1. Len(plans) \in Nat /\ Len(reports) \in Nat
    BY DEF Sparing, Backed, JobsTypeOK
  <2>2. Len(plans) > 1 => excuses \cap {"overlap", "late"} # {}
    <3>1. OnePlan
      BY DEF Sparing
    <3>2. excuses \cap {"overlap", "late"} = {} /\ Len(plans) > 0 => Len(plans) = 1
      BY <3>1, Zenon DEF OnePlan
    <3>3. Len(plans) > 1 => Len(plans) > 0 /\ Len(plans) # 1
      <4>1. \A n \in Nat : n > 1 => n > 0 /\ n # 1
        OBVIOUS
      <4>2. QED
        BY <2>1, <4>1, Zenon
    <3>4. QED
      BY <3>2, <3>3, Zenon
  <2>3. Len(reports) > 1 => excuses \cap {"overlap", "lost"} # {}
    BY <2>1 DEF Sparing, OneReport
  <2>4. QED
    BY <2>2, <2>3, Zenon DEF WorkDoneOnce
<1>4. QED
  BY <1>1, <1>2, <1>3, PTL DEF JobsSpec

\* A request that decides has read the plan it decides on as undecided.
StillUndecided == \A d \in Deciders : decision[d].at = "deciding" => decision[d].read = {decision[d].plan}

LEMMA UndecidedStep ==
    ASSUME Backed, StillUndecided, [JobsNext]_jobsVars
    PROVE  StillUndecided'
<1>1. decision \in [Deciders -> Decisions]
  BY DEF Backed, JobsTypeOK
<1>2. CASE decision' = decision
  BY <1>2 DEF StillUndecided
<1>3. ASSUME NEW d \in Deciders, NEW p \in 1..OnScreen, NEW choice \in {"approved", "dismissed"},
             ReadPlan(d, p, choice)
      PROVE  StillUndecided'
  <2>1. Undecided \cap {p} = {p}
    BY <1>3 DEF ReadPlan, Undecided
  <2>2. decision' = [decision EXCEPT ![d] =
           [at |-> "deciding", plan |-> p, read |-> {p}, choice |-> choice]]
    BY <1>3, <2>1 DEF ReadPlan
  <2>3. QED
    BY <1>1, <2>2 DEF StillUndecided
<1>4. ASSUME NEW d \in Deciders, NEW e, e.at # "deciding", decision' = [decision EXCEPT ![d] = e]
      PROVE  StillUndecided'
  BY <1>1, <1>4 DEF StillUndecided
<1>5. ASSUME NEW d \in Deciders,
             \/ Decide(d) \/ ClearPlans(d)
             \/ \E statuses \in {{"pending"}, {"pending", "approved", "dismissed"}} :
                   PickPlans(d, statuses)
      PROVE  StillUndecided'
  <2>1. \E e : e.at # "deciding" /\ decision' = [decision EXCEPT ![d] = e]
    BY <1>5 DEF Decide, ClearPlans, PickPlans, NoDecision
  <2>2. QED
    BY <1>4, <2>1
<1>6. CASE UNCHANGED jobsVars
  BY <1>2, <1>6 DEF jobsVars
<1>7. CASE JobsNext
  <2>1. \/ decision' = decision
        \/ \E d \in Deciders :
             \/ \E p \in 1..OnScreen, choice \in {"approved", "dismissed"} :
                   ReadPlan(d, p, choice)
             \/ Decide(d)
             \/ \E statuses \in {{"pending"}, {"pending", "approved", "dismissed"}} :
                   PickPlans(d, statuses)
             \/ ClearPlans(d)
    BY <1>7 DEF JobsNext, ClaimKey, FindClaim, TakeOver, Enqueue, EnqueueFails,
       RecordRefusal, CrashCall, Age, Load, StartRun, CommitScan,
       CommitTotals, TotalsCollide, CommitPage, CommitSync, CreateReport,
       PersistReport, CommitReport, ReportIsDead, Raise, RecordFailure,
       CrashWorker, MoveReport, Plans
  <2>2. QED
    BY <1>2, <1>3, <1>5, <2>1
<1>8. QED
  BY <1>6, <1>7

\* "A stale tab must not be able to overturn" a decision: for any number of
\* deciding requests and plans, one that does had read the plan before it was
\* decided, and one that reads it later can at most have it cleared away.
THEOREM DecisionsStand == JobsSpec => DecisionStands
<1> DEFINE Stands(p) == plans[p] \in {"approved", "dismissed"} =>
              \/ plans'[p] \in {plans[p], "deleted"}
              \/ \E d \in Deciders : decision[d].at = "deciding" /\ p \in decision[d].read
<1>1. JobsInit => Backed /\ StillUndecided
  <2>1. JobsInit => StillUndecided
    BY DEF JobsInit, StillUndecided, NoDecision
  <2>2. QED
    BY <2>1, InitBacked
<1>2. Backed /\ StillUndecided /\ [JobsNext]_jobsVars => (Backed /\ StillUndecided)'
  BY BackedStep, UndecidedStep
<1>3. ASSUME Backed, StillUndecided, JobsNext, NEW p \in DOMAIN plans
      PROVE  Stands(p)
  <2>1. plans \in Seq(PlanStatuses) /\ Len(plans) \in Nat
    BY <1>3 DEF Backed, JobsTypeOK
  <2>2. CASE plans' = plans \/ plans' = Append(plans, "pending")
    BY <1>3, <2>1, <2>2
  <2>3. ASSUME NEW d \in Deciders, Decide(d)
        PROVE  Stands(p)
    <3>1. CASE p = decision[d].plan
      BY <1>3, <2>3, <3>1 DEF Decide, StillUndecided
    <3>2. CASE p # decision[d].plan
      BY <1>3, <2>1, <2>3, <3>2 DEF Decide
    <3>3. QED
      BY <3>1, <3>2
  <2>4. ASSUME NEW d \in Deciders, ClearPlans(d)
        PROVE  Stands(p)
    BY <1>3, <2>4 DEF ClearPlans
  <2>5. \/ plans' = plans \/ plans' = Append(plans, "pending")
        \/ \E d \in Deciders : Decide(d) \/ ClearPlans(d)
    BY <1>3 DEF JobsNext, ClaimKey, FindClaim, TakeOver, Enqueue, EnqueueFails,
       RecordRefusal, CrashCall, Age, Load, StartRun, CommitScan,
       CommitTotals, TotalsCollide, CommitPage, CommitSync, CreateReport,
       PersistReport, CommitReport, ReportIsDead, Raise, RecordFailure,
       CrashWorker, MoveReport, Plans, Saved, ReadPlan, PickPlans
  <2>6. QED
    BY <2>2, <2>3, <2>4, <2>5
<1>4. Backed /\ StillUndecided /\ [JobsNext]_jobsVars =>
        [\A p \in DOMAIN plans : Stands(p)]_jobsVars
  BY <1>3
<1>5. QED
  BY <1>1, <1>2, <1>4, PTL DEF JobsSpec, DecisionStands
=============================================================================
