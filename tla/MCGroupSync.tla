------------------------------ MODULE MCGroupSync ------------------------------
(* Small instances of GroupSync for TLC.                                         *)
EXTENDS GroupSync, TLC

CONSTANTS g1, g2, lead1, work1, lead2, shared, t1, t2

Leader(n, r) == [name |-> n, leader |-> TRUE, replicas |-> r]
Worker(n, r) == [name |-> n, leader |-> FALSE, replicas |-> r]

\* g1 whose two sets are scaled and which gets a third.
Edited == [g \in Groups |->
    << <<Leader(lead1, 1), Worker(work1, 1)>>,
       <<Leader(lead1, 2), Worker(work1, 2), Worker(shared, 1)>> >>]

\* Two groups whose worker sets carry the same explicit name.
SharedName == [g \in Groups |->
    << IF g = g1 THEN <<Leader(lead1, 1), Worker(shared, 1)>>
                 ELSE <<Leader(lead2, 1), Worker(shared, 2)>> >>]

\* Groups stay, or g1 is deleted once and may be created again.
NoDeletions == [g \in Groups |-> 0]
OneDeletion == [g \in Groups |-> IF g = g1 THEN 1 ELSE 0]

ThreadSymmetry == Permutations(Threads)
================================================================================
