---------------------------- MODULE MCAddresses ----------------------------
(* Addresses for TLC: one workload, outside the pool, at start-up.           *)
EXTENDS Addresses, TLC

CONSTANTS vm1, a0

MCFound == [n \in Names |-> IF n = vm1 THEN a0 ELSE None]

(* The clone handlers are alike, and so are the workloads that are not there at start-up. *)
Symmetry == Permutations(Clones) \cup Permutations(Names \ {vm1})

=============================================================================
