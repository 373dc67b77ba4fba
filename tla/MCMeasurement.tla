--------------------------- MODULE MCMeasurement ---------------------------
EXTENDS Measurement, TLC

Symmetry == Permutations(Jobs)

\* A recorded price is never revised: what happens after it is not explored.
\* Two syncs overlap before anything is returned or asked for, and a behaviour
\* has a return or a request but not both.
Explored ==
    /\ priced = Unpriced
    /\ Placed = Kept \/ asked = 0
    /\ Cardinality({j \in Jobs : job[j] # NoWork}) > 1 => Placed = Kept /\ asked = 0
===========================================================================
