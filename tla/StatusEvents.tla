---------------------------- MODULE StatusEvents ----------------------------
(***************************************************************************)
(* The status poll of backend/src/routes/ws.ts and what it feeds: the      *)
(* status lists the WebSocket clients get, the change detection of         *)
(* services/notification.ts and the list of storage/notification-store.ts. *)
(*                                                                         *)
(* The interval starts a round whether or not the previous one is done.    *)
(* A round is suspended while it asks for the statuses, and for each event *)
(* while the list is written and while the push channels are served.       *)
(*                                                                         *)
(* Names differ from those of Workloads, whose statuses these are, so that *)
(* WorkloadsProofs can extend both.                                        *)
(***************************************************************************)
EXTENDS Naturals, Sequences, FiniteSets

CONSTANTS
    Vms,         \* workloads
    Order,       \* the order in which the registry lists them, a sequence
    Rounds,      \* rounds that can be under way at once
    Statuses,    \* what systemctl may say of a workload
    Unseen,      \* the record of a workload not yet looked at
    Gone,        \* the status of a workload that is not in the registry
    MaxKept,     \* MAX_NOTIFICATIONS
    MaxChanges,  \* bound: status changes
    MaxOthers,   \* bound: security and licence events
    MaxFaults    \* bound: restarts and failed status requests

ASSUME StatusAssumption ==
    /\ Unseen \notin Statuses /\ Gone \notin Statuses /\ Unseen # Gone
    /\ Order \in Seq(Vms) /\ Vms = {Order[i] : i \in DOMAIN Order}
    /\ \A i, j \in DOMAIN Order : Order[i] = Order[j] => i = j
    /\ MaxKept \in Nat \ {0}
    /\ MaxChanges \in Nat /\ MaxOthers \in Nat /\ MaxFaults \in Nat

VARIABLES
    status,   \* what systemctl says of each workload
    watching, \* a client is connected, and so the interval is running
    view,     \* the last status list the client got
    round,    \* where each round is suspended, what it saw, where it is
    prev,     \* previousStatus
    log,      \* the notification list, newest last
    raced,    \* history: workloads about which rounds overlapped
    changes, others, faults

bounds == <<changes, others, faults>>
statusVars == <<status, watching, view, round, prev, log, raced, bounds>>

Unknown == [vm \in Vms |-> Unseen]
Resting == [at |-> "idle", seen |-> Unknown, pos |-> 0]

UnderWay(k) == round[k].at # "idle"
Telling(k)  == round[k].at \in {"store", "dispatch"}
Subject(k)  == Order[round[k].pos]

----------------------------------------------------------------------------
(* The clients and the interval.                                           *)

\* The first client starts the interval.
Connect ==
    /\ ~ watching
    /\ watching' = TRUE
    /\ view' = Unknown
    /\ UNCHANGED <<status, round, prev, log, raced, bounds>>

\* The last one stops it; rounds under way run on.
Disconnect ==
    /\ watching
    /\ watching' = FALSE
    /\ UNCHANGED <<status, view, round, prev, log, raced, bounds>>

\* A round starts and asks for the statuses.
Tick(k) ==
    /\ watching
    /\ ~ UnderWay(k)
    /\ round' = [round EXCEPT ![k] = [Resting EXCEPT !.at = "list"]]
    /\ UNCHANGED <<status, watching, view, prev, log, raced, bounds>>

\* systemctl has answered for every workload.
Answer(k) ==
    /\ round[k].at = "list"
    /\ round' = [round EXCEPT ![k].at = "send", ![k].seen = status]
    /\ UNCHANGED <<status, watching, view, prev, log, raced, bounds>>

\* listVms() throws: the round is over.
Unanswered(k) ==
    /\ round[k].at = "list"
    /\ faults < MaxFaults
    /\ faults' = faults + 1
    /\ round' = [round EXCEPT ![k] = Resting]
    /\ UNCHANGED <<status, watching, view, prev, log, raced, changes, others>>

----------------------------------------------------------------------------
(* detectChanges().                                                        *)

Told == {"running", "stopped", "failed"} \cap Statuses

Event(vm, before, now) == [vm |-> vm, before |-> before, now |-> now]

\* createEvent(): an event if the status recorded is another one and the
\* arrival of this one is told.
Tells(p, seen, vm) == p[vm] \notin {Unseen, seen[vm]} /\ seen[vm] \in Told

Latest(s) == IF Len(s) > MaxKept THEN SubSeq(s, Len(s) - MaxKept + 1, Len(s)) ELSE s

\* NotificationStore.add(): push, and keep the newest.
Add(e) == log' = Latest(Append(log, e))

\* The first position from i on whose workload has an event, or the end.
NextTold(p, seen, i) ==
    LET due == {j \in i..Len(Order) : Tells(p, seen, Order[j])}
    IN IF due = {} THEN Len(Order) + 1 ELSE CHOOSE j \in due : \A l \in due : j <= l

\* Fault for the runs' mutants: only what was told is compared again.
Mut_ToldOnly(p, seen, i, j) ==
    [vm \in Vms |-> IF p[vm] = Unseen /\ seen[vm] # Gone THEN seen[vm] ELSE p[vm]]

\* The workloads listed from i up to j are recorded.
Scanned(p, seen, i, j) ==
    [vm \in Vms |-> IF seen[vm] # Gone /\ \E l \in i..(j - 1) : Order[l] = vm
                    THEN seen[vm] ELSE p[vm]]

\* The loop goes on from position i with the records p, to its next event.
Scan(k, seen, p, i) ==
    LET j == NextTold(p, seen, i)
        met == {Order[l] : l \in {l \in i..j : l <= Len(Order)}}
    IN
    /\ prev' = Scanned(p, seen, i, j)
    /\ raced' = raced \cup {vm \in met : \E o \in Rounds \ {k} : Telling(o) /\ Subject(o) = vm}
    /\ IF j > Len(Order)
       THEN /\ round' = [round EXCEPT ![k] = Resting]
            /\ UNCHANGED log
       ELSE /\ round' = [round EXCEPT ![k] = [at |-> "store", seen |-> seen, pos |-> j]]
            /\ Add(Event(Order[j], p[Order[j]], seen[Order[j]]))

\* The list goes to the client, and the scan begins.
Send(k) ==
    /\ round[k].at = "send"
    /\ view' = IF watching THEN round[k].seen ELSE view
    /\ Scan(k, round[k].seen, prev, 1)
    /\ UNCHANGED <<status, watching, bounds>>

\* The list is written, well or not; the push channels are served.
Stored(k) ==
    /\ round[k].at = "store"
    /\ round' = [round EXCEPT ![k].at = "dispatch"]
    /\ UNCHANGED <<status, watching, view, prev, log, raced, bounds>>

\* Fault for the runs' mutants: the event is told and its status not recorded.
Mut_Unrecorded(k) == prev

\* previousStatus.set() once every channel has answered or failed.
Settled(k) == [prev EXCEPT ![Subject(k)] = round[k].seen[Subject(k)]]

Dispatched(k) ==
    /\ round[k].at = "dispatch"
    /\ Scan(k, round[k].seen, Settled(k), round[k].pos + 1)
    /\ UNCHANGED <<status, watching, view, bounds>>

----------------------------------------------------------------------------
(* The rest of the system.                                                 *)

\* emitEvent(): security and licence events go to the same list.
Emit ==
    /\ others < MaxOthers
    /\ others' = others + 1
    /\ Add(Event(Unseen, Unseen, Unseen))
    /\ UNCHANGED <<status, watching, view, round, prev, raced, changes, faults>>

\* A workload starts, stops, fails, is deleted or is created again.
Change(vm, s) ==
    /\ changes < MaxChanges
    /\ changes' = changes + 1
    /\ s # status[vm]
    /\ status' = [status EXCEPT ![vm] = s]
    /\ UNCHANGED <<watching, view, round, prev, log, raced, others, faults>>

\* init() in a new process: nothing is recorded, the clients are gone, and
\* the list is the file's, or empty if a write was cut off.  (The file is the
\* list after each add(); that a failed write leaves an older one is left out,
\* for nothing is promised of the list a restart finds.)
StatusRestart ==
    /\ faults < MaxFaults
    /\ faults' = faults + 1
    /\ watching' = FALSE
    /\ view' = Unknown
    /\ round' = [k \in Rounds |-> Resting]
    /\ prev' = Unknown
    /\ log' \in {log, <<>>}
    /\ raced' = {}
    /\ UNCHANGED <<status, changes, others>>

StatusInit ==
    /\ status \in [Vms -> Statuses]
    /\ watching = FALSE
    /\ view = Unknown
    /\ round = [k \in Rounds |-> Resting]
    /\ prev = Unknown
    /\ log = <<>>
    /\ raced = {}
    /\ changes = 0 /\ others = 0 /\ faults = 0

GoesOn(k) == Tick(k) \/ Answer(k) \/ Send(k) \/ Stored(k) \/ Dispatched(k)

StatusNext ==
    \/ Connect \/ Disconnect \/ Emit \/ StatusRestart
    \/ \E k \in Rounds : GoesOn(k) \/ Unanswered(k)
    \/ \E vm \in Vms, s \in Statuses \cup {Gone} : Change(vm, s)

StatusSpec == StatusInit /\ [][StatusNext]_statusVars

\* The interval fires while a client is connected, requests to systemctl and
\* to the channels have time limits, and file writes end.
Fairness == \A k \in Rounds : WF_statusVars(GoesOn(k))

FairSpec == StatusSpec /\ Fairness

----------------------------------------------------------------------------
(* Properties.                                                             *)

\* Every variable has its type.
StatusTypeOK ==
    /\ status \in [Vms -> Statuses \cup {Gone}]
    /\ watching \in BOOLEAN
    /\ view \in [Vms -> Statuses \cup {Gone, Unseen}]
    /\ round \in [Rounds -> [at : {"idle", "list", "send", "store", "dispatch"},
                             seen : [Vms -> Statuses \cup {Gone, Unseen}],
                             pos : 0..Len(Order)]]
    /\ prev \in [Vms -> Statuses \cup {Unseen}]
    /\ log \in Seq([vm : Vms \cup {Unseen}, before : Statuses \cup {Unseen},
                    now : Statuses \cup {Unseen}])
    /\ Len(log) <= MaxKept
    /\ raced \subseteq Vms
    /\ changes \in 0..MaxChanges /\ others \in 0..MaxOthers /\ faults \in 0..MaxFaults

\* The status a workload is recorded with: from the moment its event is in
\* the list, the one the event tells.
Known(vm) ==
    LET telling == {k \in Rounds : Telling(k) /\ Subject(k) = vm}
    IN IF vm \notin raced /\ telling # {}
       THEN round[CHOOSE k \in telling : TRUE].seen[vm]
       ELSE prev[vm]

Feed == INSTANCE StatusFeed WITH known <- [vm \in Vms |-> Known(vm)]

\* However rounds, list writes, slow channels, other events and restarts are
\* interleaved, detectChanges() tells each recorded change of a workload
\* exactly once, with the statuses recorded before and after, as long as no
\* two rounds were at work on that workload at once.
FeedImplemented == Feed!Spec

\* While a client stays connected and the workloads have settled, the client
\* has their statuses in the end, and so has the change detection, however
\* late older rounds finished: the poll of routes/ws.ts repairs what
\* overlapping rounds put in the wrong order.
CatchesUp ==
    <>[]watching =>
        <>[](view = status /\ \A vm \in Vms : status[vm] # Gone => prev[vm] = status[vm])

\* Between two status changes of a workload, one event at most tells of it.
\* A round that starts while the event of an earlier one is still being
\* stored or pushed tells it again (routes/ws.ts does not wait for a round).
ToldOnce ==
    \A i, j \in 1..Len(log) :
        i < j /\ log[i] = log[j] /\ log[i].vm \in Vms =>
            \E l \in (i + 1)..(j - 1) : log[l].vm = log[i].vm

=============================================================================
