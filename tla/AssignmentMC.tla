---------------------------- MODULE AssignmentMC ----------------------------
EXTENDS Assignment, TLC
\* One user, who is in the holdouts of one per cent and more.
MCHashed == [u \in Users |-> [e \in Experiments |-> CHOOSE v \in Variants : TRUE]]
MCBucket == [u \in Users |-> [h \in Holdouts |-> 1]]
MCHash == [u \in Users |-> 1]
MCSymmetry == Permutations(Requests)
=============================================================================
