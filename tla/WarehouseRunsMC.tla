-------------------------- MODULE WarehouseRunsMC --------------------------
EXTENDS WarehouseRuns, TLC
CONSTANTS p1, p2, q1, q2, q3
\* Two requests in one process, a third in another.
MCHome == [q \in Requests |-> IF q \in {q1, q2} THEN p1 ELSE p2]
MCSymmetry == Permutations(Runs) \cup Permutations(Connections)
              \cup Permutations({q1, q2})
=============================================================================
