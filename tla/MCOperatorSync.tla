----------------------------- MODULE MCOperatorSync -----------------------------
(* Small instances of OperatorSync for TLC.                                        *)
EXTENDS OperatorSync, TLC

CONSTANTS o1, o2, g1, g2, t1, t2

\* Both operators list g1, o1 after g2; an edit empties the list of o2.
SharedGroup == [o \in Operators |->
    IF o = o1 THEN << <<g2, g1>> >> ELSE << <<g1>>, <<>> >>]

\* o1 may be deleted once, and created again.
OneDeletion == [o \in Operators |-> IF o = o1 THEN 1 ELSE 0]

OneNamespace == [x \in Operators \cup Groups |-> "default"]

ThreadSymmetry == Permutations(Threads)
=================================================================================
