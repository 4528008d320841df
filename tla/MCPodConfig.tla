------------------------------- MODULE MCPodConfig -------------------------------
(* A small instance of PodConfig for TLC.                                          *)
EXTENDS PodConfig, TLC

Spec0 == [cores |-> 1, coreLimit |-> 1300, memory |-> 512, memoryLimit |-> 512,
          httpPort |-> 8080, mysqlPort |-> 3307, clickhousePort |-> 9000,
          rpcPort |-> 9090, metricsPort |-> 7070, priority |-> 1]

\* The CRD's defaults; more cores under the default limit; no limit, other ports
\* and another priority; a limit of its own; too little memory; a port twice.
Small == {Spec0, [Spec0 EXCEPT !.cores = 2]}
Others == {[Spec0 EXCEPT !.cores = 3, !.coreLimit = Unset, !.httpPort = 8081,
                         !.rpcPort = 9091, !.priority = 10],
           [Spec0 EXCEPT !.coreLimit = 4000, !.metricsPort = 7071],
           [Spec0 EXCEPT !.memory = 1024],
           [Spec0 EXCEPT !.metricsPort = 8080]}

Group(ns, name, op) == [namespace |-> ns, name |-> name, operator |-> op]

\* default/c, and a-b/c and a/b-c, whose keys are the same, as are their operators'.
ab_c == Group(<<"a", "b">>, <<"c">>, <<"a", "b", "o">>)
a_bc == Group(<<"a">>, <<"b", "c">>, <<"a", "b", "o">>)
a_c  == Group(<<"a">>, <<"c">>, <<>>)
ThreeGroups == {ab_c, a_bc, a_c}

\* Of one leader set, and none, one or two sets of workers.
TheirSpecs == [g \in Groups |->
    IF g = a_bc THEN {<<l, w>> : l, w \in Small \cup Others} \cup {<<l>> : l \in Others}
    ELSE IF g = ab_c THEN {<<l, w, Spec0>> : l \in Small, w \in Others}
    ELSE {<<l, Spec0>> : l \in Small}]
=================================================================================
