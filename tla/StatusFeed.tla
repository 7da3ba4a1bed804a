----------------------------- MODULE StatusFeed -----------------------------
(***************************************************************************)
(* What the notification list promises about the workloads: every change   *)
(* of a recorded status to one that is told gives one entry, with the      *)
(* status recorded before and the one recorded now, and no other entry     *)
(* about a workload is made.  The promise is for workloads about which no  *)
(* two rounds of the poll overlapped since the start.                      *)
(***************************************************************************)
EXTENDS Sequences, Naturals

CONSTANTS
    Vms, Statuses,
    Told,     \* statuses whose arrival is told
    Unseen,   \* the record of a workload not yet looked at
    MaxKept   \* entries the list keeps

VARIABLES
    known,  \* the status recorded for each workload
    log,    \* the notification list, newest last
    raced   \* workloads about which rounds overlapped

vars == <<known, log, raced>>

Event(vm, before, now) == [vm |-> vm, before |-> before, now |-> now]
Other == Event(Unseen, Unseen, Unseen)

Latest(s) == IF Len(s) > MaxKept THEN Tail(s) ELSE s
Added(e)  == log' = Latest(Append(log, e))

Init == known = [vm \in Vms |-> Unseen] /\ log = <<>> /\ raced = {}

\* Nothing recorded, or the first record, or one whose arrival is not told.
Quiet(vm) ==
    \/ known'[vm] = known[vm]
    \/ known[vm] = Unseen
    \/ known'[vm] \notin Told

Telling(vm) ==
    /\ known[vm] \notin {Unseen, known'[vm]}
    /\ known'[vm] \in Told
    /\ Added(Event(vm, known[vm], known'[vm]))

\* A stretch of a round between two of its suspensions: any number of quiet
\* records, and at most one entry.
Look ==
    /\ raced \subseteq raced'
    /\ \/ UNCHANGED log /\ \A vm \in Vms \ raced' : Quiet(vm)
       \/ \E vm \in Vms \ raced' :
            Telling(vm) /\ \A other \in Vms \ (raced' \cup {vm}) : Quiet(other)
       \/ \E vm \in raced', before, now \in Statuses :
            Added(Event(vm, before, now)) /\ \A other \in Vms \ raced' : Quiet(other)

\* Security and licence events share the list.
Tell == Added(Other) /\ UNCHANGED <<known, raced>>

\* A restart forgets the records; the list is what the file still has.
Forget == known' = [vm \in Vms |-> Unseen] /\ raced' = {}

Next == Look \/ Tell \/ Forget

Spec == Init /\ [][Next]_vars

=============================================================================
