---------------------------- MODULE MCStatistics ----------------------------
(***************************************************************************)
(* Statistics for TLC: an interface with a queue of either type, one with a *)
(* unicast queue, a priority group of each, and three buffer pools.         *)
(***************************************************************************)
EXTENDS Statistics, TLC

CONSTANTS i1, i2

Queue(i, t) == [port |-> i, type |-> t, num |-> 0]
Group(i) == [port |-> i, type |-> "group", num |-> 0]
Pool(t, n) == [port |-> None, type |-> t, num |-> n]

MCQueues == {Queue(i1, "ucast"), Queue(i1, "mcast"), Queue(i2, "ucast")}
MCGroups == {Group(i1), Group(i2)}
MCPools == {Pool("ingress", 1), Pool("ingress", 2), Pool("egress", 3)}

\* Nodes that do not exist in MMU 1.
MCLacks == {Queue(i1, "ucast"), Group(i1), Pool("ingress", 1)} \X {1}

Symmetry == Permutations(NpuPorts)
=============================================================================
