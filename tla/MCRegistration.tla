--------------------------- MODULE MCRegistration ---------------------------
(* Small instances of Registration for TLC.                                *)
EXTENDS Registration, TLC

CONSTANTS l1, l2, w1, w2, x1

CONSTANTS
    LeaderVersions, WorkerVersions, StrangerVersions,
    W1Versions

\* The bound on the versions of a pod depends on its role.
RoleVersions == [p \in Pods |->
    CASE p = w1 -> W1Versions
      [] p \in Leaders -> LeaderVersions
      [] p \in Workers \ {w1} -> WorkerVersions
      [] OTHER -> StrangerVersions]

\* All pods in one compute group: leaders may then be exchanged.
OneGroup == [p \in Pods |-> "a"]
LeaderSymmetry == Permutations(Leaders)

\* l1 with w1, and l2 with w2, each in a compute group of its own.
TwoGroups == [p \in Pods |-> IF p \in {l2, w2} THEN "b" ELSE "a"]
=============================================================================
