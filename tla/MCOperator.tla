------------------------------- MODULE MCOperator -------------------------------
(* A small instance of Operator for TLC.                                           *)
EXTENDS Operator, TLC

CONSTANTS o1, g1, g2, lead1, work1, lead2, t1, t2

Leader(n) == [name |-> n, leader |-> TRUE, replicas |-> 1]
Worker(n) == [name |-> n, leader |-> FALSE, replicas |-> 1]

\* One operator with two groups, of which g1 has a worker set.
TwoGroups == [o \in Operators |-> << <<g1, g2>> >>]
TheirSets == [g \in Groups |->
    << IF g = g1 THEN <<Leader(lead1), Worker(work1)>> ELSE <<Leader(lead2)>> >>]

\* One operator with one group without workers.
OneGroup == [o \in Operators |-> << <<g1>> >>]
LeadersOnly == [g \in Groups |-> << <<Leader(lead1)>> >>]

OneNamespace == [x \in Operators \cup Groups |-> "default"]

\* The operator is deleted at most once, its groups as often as it takes.
OneDeletion == [o \in Operators |-> 1]
AnyNumber == [g \in Groups |-> 9]
=================================================================================
