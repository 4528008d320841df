--------------------------- MODULE ClusterMembership ---------------------------
(* What registration is for, seen from the leaders' fuse-query servers: the list   *)
(* of each changes by one worker at a time, and what joins a list is a worker, or  *)
(* the leader itself, under an address at which it has been ready.  How the        *)
(* register controller comes to know of the pods, what it retries and when it      *)
(* restarts cannot be seen here.                                                   *)
CONSTANTS Leaders, Workers,
    Addresses       \* of pods

VARIABLES
    nodes,          \* nodes[l]: the cluster list of leader l's server
    seen            \* the nodes that have been ready so far

Member == [pod : Leaders \cup Workers, addr : Addresses]
MemberNames(list) == {n.pod : n \in list}

Init ==
    /\ nodes = [l \in Leaders |-> {}]
    /\ seen = {}

\* Pods become ready.
Appear ==
    /\ seen \subseteq seen'
    /\ seen' \subseteq Member
    /\ UNCHANGED nodes

\* A leader registers a worker or itself, once under one name.
Join(l, n) ==
    /\ n.pod \in Workers \cup {l}
    /\ n.pod \notin MemberNames(nodes[l])
    /\ nodes' = [nodes EXCEPT ![l] = @ \cup {n}]
    /\ UNCHANGED seen

\* A worker is taken off a list; the leader never takes off itself.
Leave(l, w) ==
    /\ w \in Workers
    /\ nodes' = [nodes EXCEPT ![l] = {n \in @ : n.pod # w}]
    /\ UNCHANGED seen

\* The leader's container restarts or its pod is deleted.
Clear(l) ==
    /\ nodes' = [nodes EXCEPT ![l] = {}]
    /\ UNCHANGED seen

Next ==
    \/ Appear
    \/ \E l \in Leaders :
          \/ \E n \in seen : Join(l, n)
          \/ \E w \in Workers : Leave(l, w)
          \/ Clear(l)

Spec == Init /\ [][Next]_<<nodes, seen>>
=================================================================================
