------------------------------- MODULE MCSignIn -------------------------------
EXTENDS SignIn, TLC

Symmetry == Permutations(Doors) \cup Permutations(Requests)

\* Bound: stores are raced for and sessions used where everyone came through
\* Google, while at most another session is being opened; codes are asked for,
\* and used, until one sign-in is in.
Explored ==
    /\ codes # <<>> => ~raced /\ sessions = <<>>
    /\ (\E r \in Requests : request[r] # Idle) => \A d \in Doors : door[d].phase \in {"idle", "store"}
===============================================================================
