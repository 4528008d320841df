------------------------- MODULE RegistrationMembership -------------------------
(* The register controller implements ClusterMembership.  The history variable     *)
(* seen, which no step of the controller reads, collects the nodes that have been  *)
(* ready.                                                                          *)
EXTENDS Registration

VARIABLE seen

ReadyNodes == {NodeOf(p, pods[p]) : p \in
    {q \in Leaders \cup Workers : pods[q].exists /\ pods[q].ready}}

HInit == Init /\ seen = {}
HNext == Next /\ seen' = seen \cup ReadyNodes'
HSpec == HInit /\ [][HNext]_<<vars, seen>>
HFairSpec == HSpec /\ Fairness

CM == INSTANCE ClusterMembership WITH Addresses <- Nat

\* The controller changes the lists as ClusterMembership allows: whatever
\* snapshots it works from, retries included, a node joins a list only under an
\* address at which it has been ready, one name joins once, and no leader is
\* ever taken off its own list (AddNode, RemoveNode, ProcessLeader).
ImplementsMembership == CM!Spec
=================================================================================
