---------------------------- MODULE MCDagMonitor ----------------------------
(* DagMonitor on two nodes and two sockets at a time. *)
EXTENDS DagMonitor, TLC
CONSTANTS n1, n2
Symmetry == Permutations(Nodes)
====
