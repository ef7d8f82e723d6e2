------------------------------ MODULE MCCluster ------------------------------
(* Bounded instances of Cluster for TLC: two nodes, jobs of one or two cpus.      *)
EXTENDS Cluster, TLC

CONSTANTS n1, n2, gui

OneCpu  == [n \in Nodes |-> 1]
ThreeCpus == [n \in Nodes |-> 3]

\* The head has faulted, or all there is to do has been done.
Stopped ==
  /\ ~ENABLED Next
  /\ UNCHANGED vars

MCNext == Next \/ Stopped
MCSpec == Init /\ [][MCNext]_vars
MCFairSpec == MCSpec /\ Fairness
=============================================================================
