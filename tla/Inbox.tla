-------------------------------- MODULE Inbox --------------------------------
(***************************************************************************)
(* What a webhook endpoint promises the service that calls it, with the    *)
(* database, the instances and the failures left out: a message that was   *)
(* sent is taken at most once, it is answered (and so never sent again)    *)
(* only when it has been taken, and it is taken in the end.                *)
(***************************************************************************)
EXTENDS Sequences, SequencesExt

CONSTANT Messages

VARIABLES
    sent,       \* the messages sent so far
    taken,      \* those that took effect, in that order
    answered    \* those the sender was told about

vars == <<sent, taken, answered>>

Init == sent = {} /\ taken = <<>> /\ answered = {}

Send ==
    /\ \E m \in Messages \ sent : sent' = sent \cup {m}
    /\ UNCHANGED <<taken, answered>>

\* A message takes effect; the answer leaves with it or is lost.
Take(m) ==
    /\ m \in sent
    /\ m \notin ToSet(taken)
    /\ taken' = Append(taken, m)
    /\ answered' \in {answered, answered \cup {m}}
    /\ UNCHANGED sent

\* A message that comes again is only answered.
Answer(m) ==
    /\ m \in ToSet(taken)
    /\ answered' = answered \cup {m}
    /\ UNCHANGED <<sent, taken>>

Next == Send \/ \E m \in Messages : Take(m) \/ Answer(m)

\* The promise without its last part.
Safely == Init /\ [][Next]_vars

Spec == Safely /\ \A m \in Messages : WF_vars(Take(m))
=============================================================================
