----------------------------- MODULE MCTaskQueue -----------------------------
(* TaskQueue on small instances: two nodes that hold the token of the same *)
(* machine (a host replaced by another), or a single node.                 *)
EXTENDS TaskQueue, FiniteSets, TLC
CONSTANTS n1, n2, m1

SharedMachine == n1 :> m1 @@ n2 :> m1
Single == n1 :> m1
(* Bounds of the run with two nodes: at most one given-up post is on its   *)
(* way at a time, and no host is retired (a retired host takes no step, so *)
(* to the others it is one that stays down).                               *)
FewFaults == Cardinality(late) <= 1 /\ gone = {}

Hosts == Permutations({n1, n2})
=============================================================================
