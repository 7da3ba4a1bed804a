---------------------------- MODULE MCWorkloads ----------------------------
(* Workloads for TLC: workloads of one unit of memory each.                  *)
EXTENDS Workloads

MCMem == [n \in Names |-> 1]

=============================================================================
