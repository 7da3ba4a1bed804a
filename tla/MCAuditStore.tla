---------------------------- MODULE MCAuditStore ----------------------------
(***************************************************************************)
(* The audit store implements DurableLog: pending is what this life        *)
(* accepted and no file holds, durable is what some file holds.            *)
(***************************************************************************)
EXTENDS AuditStore

Accepted == (base + 1)..(base + appended)

Log == INSTANCE DurableLog WITH
    Entries <- 1..MaxAppends,
    pending <- Accepted \ OnDisk,
    durable <- OnDisk

\* Every behaviour of the store is a behaviour of the durable log
\* (audit-store.ts, guarantees 1 to 3).
ImplementsDurableLog == Log!Spec

=============================================================================
