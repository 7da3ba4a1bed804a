----------------------------- MODULE DurableLog -----------------------------
(***************************************************************************)
(* What an audit log promises, with no files, counters or writer in sight. *)
(* Entries are numbered in the order they are accepted.  They become       *)
(* durable in that order, are never lost afterwards, and are acknowledged  *)
(* only when durable.  A crash loses what was not durable yet, which is    *)
(* always the newest part of what was accepted.                            *)
(***************************************************************************)
EXTENDS Naturals

CONSTANT Entries  \* the numbers entries can have

VARIABLES
    pending,  \* accepted, held only in memory
    durable,  \* readable after any crash
    acked     \* reported to the caller as written

vars == <<pending, durable, acked>>

\* S can become durable without leaving a hole behind it.
Prefix(S) == /\ S \subseteq pending
             /\ \A e \in S, d \in pending : d < e => d \in S

Accept(e) ==
    /\ \A d \in pending \cup durable : d < e
    /\ pending' = pending \cup {e}
    /\ UNCHANGED <<durable, acked>>

Commit(S) ==
    /\ Prefix(S)
    /\ durable' = durable \cup S
    /\ pending' = pending \ S
    /\ UNCHANGED acked

Acknowledge(S) ==
    /\ S \subseteq durable
    /\ acked' = acked \cup S
    /\ UNCHANGED <<pending, durable>>

\* A commit may have been in progress: part of it can have reached the disk.
Crash(S) ==
    /\ Prefix(S)
    /\ durable' = durable \cup S
    /\ pending' = {}
    /\ UNCHANGED acked

Init == pending = {} /\ durable = {} /\ acked = {}

Next ==
    \/ \E e \in Entries : Accept(e)
    \/ \E S \in SUBSET pending : Commit(S) \/ Crash(S)
    \/ \E S \in SUBSET durable : Acknowledge(S)

Spec == Init /\ [][Next]_vars

=============================================================================
