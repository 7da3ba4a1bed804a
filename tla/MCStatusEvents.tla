--------------------------- MODULE MCStatusEvents ---------------------------
(* Instance of StatusEvents for TLC: both workloads run at the start. *)
EXTENDS StatusEvents, TLC

CONSTANTS v1, v2

MCOrder == <<v1, v2>>
MCStatuses == {"running", "stopped", "unknown"}

MCInit == StatusInit /\ status = [vm \in Vms |-> "running"]
MCSpec == MCInit /\ [][StatusNext]_statusVars /\ Fairness

=============================================================================
