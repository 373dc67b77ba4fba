---------------------------- MODULE Guardrails ----------------------------
(***************************************************************************)
(* guardrails.py: the verdict on one proposed change.  Money and spend are *)
(* whole amounts, a relative change is in percent; NoChange stands for a   *)
(* change with no relative size (change_pct=None).                         *)
(***************************************************************************)
EXTENDS Integers

NoChange == -1

Policies == [enabled             : BOOLEAN,
             max_actions_per_day : Nat,
             max_change_pct      : Nat,
             auto_apply_below    : Nat,
             protected_spend     : Nat]

\* The size of the change is abs(change_pct), so Requests holds no sign.
Requests == [actor         : {"operator", "human"},
             money_at_stake: Nat,
             change_pct    : Nat \cup {NoChange},
             spend_per_day : Nat,
             applied_today : Nat]

\* In strict precedence: the kill switch, the step size, the human, the day's
\* budget, and only then the two limits that ask for an approval.
evaluate(request, policy) ==
    IF ~policy.enabled THEN "blocked"
    ELSE IF request.change_pct # NoChange /\ request.change_pct > policy.max_change_pct
         THEN "blocked"
    ELSE IF request.actor = "human" THEN "allowed"
    ELSE IF request.applied_today >= policy.max_actions_per_day THEN "blocked"
    ELSE IF \/ request.spend_per_day > policy.protected_spend
            \/ request.money_at_stake > policy.auto_apply_below
         THEN "approval_required"
    ELSE "allowed"

remaining_today(policy, applied_today) ==
    IF policy.max_actions_per_day > applied_today
    THEN policy.max_actions_per_day - applied_today ELSE 0

\* q is at least as permissive as p in every limit.
Looser(p, q) ==
    /\ p.enabled => q.enabled
    /\ p.max_actions_per_day <= q.max_actions_per_day
    /\ p.max_change_pct <= q.max_change_pct
    /\ p.auto_apply_below <= q.auto_apply_below
    /\ p.protected_spend <= q.protected_spend
===========================================================================
