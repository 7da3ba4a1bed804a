----------------------------- MODULE Workloads -----------------------------
(***************************************************************************)
(* The workloads of a host: the registry, the units that run on the host,  *)
(* and the handlers that read one and change the other                     *)
(* (backend/src/services/microvm.ts, services/free-tier-cap.ts and the     *)
(* start, stop, restart, delete, scan and autostart handlers of            *)
(* routes/workloads.ts).                                                   *)
(*                                                                         *)
(* A handler is suspended whenever it runs a command on the host, and runs *)
(* undisturbed from one command to the next.  A handler is therefore a     *)
(* sequence of steps: one per command, one per continuation.  A workload   *)
(* is the natural number of its place in alphabetical order.               *)
(***************************************************************************)
EXTENDS Integers, FiniteSetsExt

CONSTANTS
    Names,            \* workloads the host declares
    Mem,              \* memory of each, as its run script gives it
    Split,            \* restarted by a stop and then a start: cloud VMs and Apptainer
    Apptainer,        \* the Apptainer instances among them, which Free does not show
    MaxControllable,  \* FREE_TIER_CAPS.MAX_CONTROLLABLE_VMS
    MaxMemory,        \* FREE_TIER_CAPS.MAX_TOTAL_MEMORY_MB
    Requests, Loop,   \* bound: handlers in progress at one time; the autostart loop
    Asked,            \* bound: the operations asked for
    Tiers,            \* bound: the tiers the licence moves between
    Rows, Flagged,    \* the rows of the registry at the first start-up, those with autostart
    Toggled,          \* bound: the workloads whose autostart flag is ever changed
    Recorded,         \* of Rows, those whose specs a scan has recorded
    HostActs,         \* bound: units that also change without Weaver (systemctl, a guest that halts)
    Sqlite            \* the registry is the SQLite backend

Ops == {"start", "restart", "stop", "delete", "scan", "flag"}

ASSUME NamesAssumption == Names \subseteq Nat /\ IsFiniteSet(Names) /\ Mem \in [Names -> Nat]
ASSUME LimitsAssumption == MaxControllable \in Nat /\ MaxMemory \in Nat /\ Loop \notin Requests
ASSUME SetsAssumption == /\ Split \subseteq Names /\ Apptainer \subseteq Split /\ Asked \subseteq Ops
                         /\ Tiers \subseteq {"free", "solo"}
                         /\ Rows \subseteq Names /\ Flagged \subseteq Rows
                         /\ Recorded \subseteq Rows \ Apptainer
                         /\ Toggled \subseteq Names /\ HostActs \subseteq Names
ASSUME BackendAssumption == Sqlite \in BOOLEAN

VARIABLES
    registry,   \* the names of the registry's rows
    recorded,   \* the rows that hold their specs; the others hold UNKNOWN_SPECS
    autostart,  \* the rows flagged autostart
    active,     \* the names whose unit is running on the host
    tier,       \* config.tier
    req,        \* the handlers in progress
    todo,       \* startAutostartVms(): the definitions its loop has still to visit
    quiet       \* history: handlers that nothing else has disturbed since they began

rows == <<registry, recorded, autostart>>
vars == <<rows, active, tier, req, todo, quiet>>

Handlers == Requests \cup {Loop}

\* `noted` holds the workloads a handler was told are running, `dark` (history) those whose
\* status could not be told.
Idle == [op |-> "none", at |-> "idle", name |-> 0, rows |-> {}, known |-> {}, left |-> {},
         noted |-> {}, dark |-> {}]

\* apptainerVisible(): the rows a tier shows.
Visible(S, t) == IF t = "free" THEN S \ Apptainer ELSE S

\* A handler begins: it goes on at `at`, and commands about `left` are still to answer.
Begins(r, op, n, at, left) ==
    /\ req[r] = Idle
    /\ req' = [req EXCEPT ![r] = [Idle EXCEPT !.op = op, !.at = at, !.name = n, !.left = left]]
    /\ quiet' = quiet \cup {r}

Goes(r, at) == req' = [req EXCEPT ![r].at = at]
Ends(r)     == req' = [req EXCEPT ![r] = Idle]

\* What `r` changes on the host or in the registry makes every other view of them stale.
DisturbedBy(r) == quiet' = quiet \cap {r}

\* The memory of some workloads by the figures of rows that hold their specs.
Memory(S, known) == MapThenSumSet(LAMBDA n : Mem[n], S \cap known)

\* The alphabetical-first MAX_CONTROLLABLE_VMS of some rows.
Controllable(S) == {n \in S : Cardinality({m \in S : m < n}) < MaxControllable}

\* Fault for the runs' mutants: the target's own memory is not counted.
Mut_WithoutTarget(h, t) ==
    \/ t # "free"
    \/ h.name \notin h.rows
    \/ /\ h.name \in Controllable(h.rows)
       /\ Memory(h.noted \ {h.name}, h.known) <= MaxMemory

\* checkFreeTierCap() of what listVms() answered; an unknown name is left to startVm().
Allowed(h, t) ==
    \/ t # "free"
    \/ h.name \notin h.rows
    \/ /\ h.name \in Controllable(h.rows)
       /\ Memory(h.noted \cup {h.name}, h.known) <= MaxMemory

----------------------------------------------------------------------------

\* POST start and restart: listVms() takes the rows the tier shows, then asks the host for each status.
AskStart(r, op, n) ==
    /\ op \in {"start", "restart"} \cap Asked
    /\ req[r] = Idle
    /\ req' = [req EXCEPT ![r] = [Idle EXCEPT !.op = op, !.at = "status", !.name = n,
                                     !.rows = Visible(registry, tier), !.known = recorded,
                                     !.left = Visible(registry, tier)]]
    /\ quiet' = quiet \cup {r}
    /\ UNCHANGED <<rows, active, tier, todo>>

\* POST stop: stopVm() runs its command only for a row the tier shows.
AskStop(r, n) ==
    /\ "stop" \in Asked
    /\ n \in Visible(registry, tier)
    /\ Begins(r, "stop", n, "command", {})
    /\ UNCHANGED <<rows, active, tier, todo>>

\* DELETE, registry only: deleteVm() asks for the status first.  Requires Solo.
AskDelete(r, n) ==
    /\ "delete" \in Asked
    /\ tier # "free"
    /\ Begins(r, "delete", n, "status", {n})
    /\ UNCHANGED <<rows, active, tier, todo>>

\* POST scan runs its parts at once, and they share only the registry: each is a handler of its own.
\* scanMicrovms() looks every unit up in turn, scanNixDeclarations() every declaration and
\* scanContainers() every container; scanApptainerInstances() begins with a listing, except on Free.
AskScan(r) ==
    /\ "scan" \in Asked
    /\ \/ \E at \in {"units", "adding"} : Begins(r, "scan", 0, at, Names \ Split)
       \/ tier # "free" /\ Begins(r, "scan", 0, "listing", {})
    /\ UNCHANGED <<rows, active, tier, todo>>

\* startAutostartVms() visits the next definition of those it took at start-up.
Visit(n) ==
    /\ n \in todo
    /\ Begins(Loop, "autostart", n, "status", {n})
    /\ todo' = todo \ {n}
    /\ UNCHANGED <<rows, active, tier>>

\* PUT autostart.
SetAutostart(n, flag) ==
    /\ "flag" \in Asked
    /\ n \in registry \cap Toggled
    /\ autostart' = IF flag THEN autostart \cup {n} ELSE autostart \ {n}
    /\ UNCHANGED <<registry, recorded, active, tier, req, todo, quiet>>

\* getVmStatus() of one workload tells whether it runs, or the query fails and it answers UNKNOWN.
\* A cloud VM or an instance that has no row is asked for as a unit there is not.
ReadStatus(r, n) ==
    /\ req[r].at = "status"
    /\ n \in req[r].left
    /\ \/ req' = [req EXCEPT ![r].left = @ \ {n}, ![r].noted = @ \cup ({n} \cap (active \ (Split \ registry)))]
       \/ req' = [req EXCEPT ![r].left = @ \ {n}, ![r].dark = @ \cup {n}]
    /\ UNCHANGED <<rows, active, tier, todo, quiet>>

Answered(r) == req[r].at = "status" /\ req[r].left = {}

\* The cap is checked, then startVm() or restartVm() looks its row up and runs its command.
DecideStart(r) ==
    /\ Answered(r)
    /\ req[r].op \in {"start", "restart"}
    /\ IF Allowed(req[r], tier) /\ req[r].name \in Visible(registry, tier)
          THEN Goes(r, "command") ELSE Ends(r)
    /\ UNCHANGED <<rows, active, tier, todo, quiet>>

\* The loop starts what it was not told is running; startVm() looks its row up, the cap is not checked.
DecideAutostart(r) ==
    /\ Answered(r)
    /\ req[r].op = "autostart"
    /\ IF req[r].name \notin req[r].noted /\ req[r].name \in Visible(registry, tier)
          THEN Goes(r, "command") ELSE Ends(r)
    /\ UNCHANGED <<rows, active, tier, todo, quiet>>

\* Fault for the runs' mutants: a running workload is deleted as well.
Mut_DeleteRunning(r) ==
    /\ Answered(r)
    /\ req[r].op = "delete"
    /\ Ends(r)
    /\ registry' = registry \ {req[r].name}
    /\ recorded' = recorded \ {req[r].name}
    /\ autostart' = autostart \ {req[r].name}
    /\ DisturbedBy(r)
    /\ UNCHANGED <<active, tier, todo>>

\* deleteVm() refuses a workload it was told is running and removes the row of any other.
DecideDelete(r) ==
    /\ Answered(r)
    /\ req[r].op = "delete"
    /\ Ends(r)
    /\ \/ /\ req[r].name \in req[r].noted
          /\ UNCHANGED <<rows, quiet>>
       \/ /\ req[r].name \notin req[r].noted
          /\ registry' = registry \ {req[r].name}
          /\ recorded' = recorded \ {req[r].name}
          /\ autostart' = autostart \ {req[r].name}
          /\ DisturbedBy(r)
    /\ UNCHANGED <<active, tier, todo>>

\* The command of a start, of a restart that is one command, or of an autostart: it may fail,
\* and a failed restart may leave the unit down.
StartCommand(r) ==
    LET n == req[r].name
    IN  /\ req[r].at = "command"
        /\ \/ req[r].op \in {"start", "autostart"} /\ active' \in {active, active \cup {n}}
           \/ req[r].op = "restart" /\ n \notin Split /\ active' \in {active, active \cup {n}, active \ {n}}
        /\ Ends(r)
        /\ IF active' = active THEN UNCHANGED quiet ELSE DisturbedBy(r)
        /\ UNCHANGED <<rows, tier, todo>>

\* The command of a stop.
StopCommand(r) ==
    /\ req[r].at = "command"
    /\ req[r].op = "stop"
    /\ active' \in {active, active \ {req[r].name}}
    /\ Ends(r)
    /\ IF active' = active THEN UNCHANGED quiet ELSE DisturbedBy(r)
    /\ UNCHANGED <<rows, tier, todo>>

\* The first half of a restart in two commands.  When it fails an Apptainer restart ends
\* and a cloud VM's goes on.
SplitStop(r) ==
    LET n == req[r].name
    IN  /\ req[r].at = "command"
        /\ req[r].op = "restart"
        /\ n \in Split
        /\ \/ active' = active \ {n} /\ Goes(r, "again")
           \/ active' = active /\ IF n \in Apptainer THEN Ends(r) ELSE Goes(r, "again")
        /\ IF active' = active THEN UNCHANGED quiet ELSE DisturbedBy(r)
        /\ UNCHANGED <<rows, tier, todo>>

\* The second half.
SplitStart(r) ==
    /\ req[r].at = "again"
    /\ active' \in {active, active \cup {req[r].name}}
    /\ Ends(r)
    /\ IF active' = active THEN UNCHANGED quiet ELSE DisturbedBy(r)
    /\ UNCHANGED <<rows, tier, todo>>

\* registry.update() of the three specs; the SQLite backend has no statement for them.
Update(n) == recorded' = IF Sqlite THEN recorded ELSE recorded \cup {n}

\* One line of the scan, after its run script was read or could not be: a row that holds other
\* specs is refreshed, a workload without a row is added.
ScanUnit(r, n, readable) ==
    /\ req[r].at = "units"
    /\ n \in req[r].left
    /\ LET known == n \in registry
           stale == known /\ readable /\ n \notin recorded
       IN  /\ registry' = registry \cup {n}
           /\ \/ stale /\ Update(n)
              \/ ~known /\ recorded' = IF readable THEN recorded \cup {n} ELSE recorded
              \/ known /\ ~stale /\ UNCHANGED recorded
           /\ req' = [req EXCEPT ![r].left = @ \ {n}, ![r].noted = IF stale THEN @ \cup {n} ELSE @]
           /\ IF known /\ ~stale THEN UNCHANGED quiet ELSE DisturbedBy(r)
    /\ UNCHANGED <<autostart, active, tier, todo>>

\* listApptainerInstances() lists the instances that run, or none when its command fails.
ListInstances(r) ==
    /\ req[r].at = "listing"
    /\ \E listed \in {active \cap Apptainer, {}} :
           req' = [req EXCEPT ![r].at = "adding", ![r].left = listed]
    /\ UNCHANGED <<rows, active, tier, todo, quiet>>

\* One line of the other scans: a workload without a row is added, with its specs only when a
\* declaration gives them; a row there is stays as it is.
ScanAdds(r, n, given) ==
    /\ req[r].at = "adding"
    /\ n \in req[r].left
    /\ given => n \notin Apptainer
    /\ registry' = registry \cup {n}
    /\ recorded' = IF given /\ n \notin registry THEN recorded \cup {n} ELSE recorded
    /\ req' = [req EXCEPT ![r].left = @ \ {n}]
    /\ IF n \in registry THEN UNCHANGED quiet ELSE DisturbedBy(r)
    /\ UNCHANGED <<autostart, active, tier, todo>>

EndScan(r) ==
    /\ req[r].at \in {"units", "adding"}
    /\ req[r].left = {}
    /\ Ends(r)
    /\ UNCHANGED <<rows, active, tier, todo, quiet>>

\* The host's own doing: systemctl, a guest that halts or comes up.
HostChanges(n) ==
    /\ n \in HostActs
    /\ active' = IF n \in active THEN active \ {n} ELSE active \cup {n}
    /\ quiet' = {}
    /\ UNCHANGED <<rows, tier, req, todo>>

\* A poll of the licence finds another tier.
TierChanges(t) ==
    /\ t # tier
    /\ tier' = t
    /\ quiet' = {}
    /\ UNCHANGED <<rows, active, req, todo>>

\* The process starts again, with or without its host; the loop takes the flagged rows.
Restart ==
    /\ active' \in {active, {}}
    /\ req' = [r \in Handlers |-> Idle]
    /\ todo' = autostart
    /\ quiet' = {}
    /\ UNCHANGED <<rows, tier>>

Init ==
    /\ registry = Rows /\ recorded = Recorded /\ autostart = Flagged
    /\ active = {}
    /\ tier \in Tiers
    /\ req = [r \in Handlers |-> Idle]
    /\ todo = Flagged
    /\ quiet = {}

HandlerStep(r) ==
    \/ \E n \in Names : ReadStatus(r, n)
    \/ DecideStart(r) \/ DecideAutostart(r) \/ DecideDelete(r)
    \/ StartCommand(r) \/ StopCommand(r) \/ SplitStop(r) \/ SplitStart(r)
    \/ \E n \in Names, readable \in BOOLEAN : ScanUnit(r, n, readable) \/ ScanAdds(r, n, readable)
    \/ ListInstances(r) \/ EndScan(r)

Next ==
    \/ \E r \in Requests, op \in Ops, n \in Names : AskStart(r, op, n)
    \/ \E r \in Requests, n \in Names : AskStop(r, n) \/ AskDelete(r, n)
    \/ \E r \in Requests : AskScan(r)
    \/ \E n \in Names : Visit(n)
    \/ \E n \in Names, flag \in BOOLEAN : SetAutostart(n, flag)
    \/ \E r \in Handlers : HandlerStep(r)
    \/ \E n \in Names : HostChanges(n)
    \/ \E t \in Tiers : TierChanges(t)
    \/ Restart

Spec == Init /\ [][Next]_vars

----------------------------------------------------------------------------

\* The registry, the flags and the handlers keep their types: no flag or spec without its row.
TypeOK ==
    /\ registry \subseteq Names /\ recorded \subseteq registry /\ autostart \subseteq registry
    /\ active \subseteq Names /\ todo \subseteq Names
    /\ tier \in Tiers
    /\ quiet \subseteq Handlers
    /\ req \in [Handlers -> [op : Ops \cup {"none", "autostart"},
                             at : {"idle", "status", "command", "again", "units", "listing", "adding"},
                             name : Names \cup {0}, rows : SUBSET Names, known : SUBSET Names,
                             left : SUBSET Names, noted : SUBSET Names, dark : SUBSET Names]]

\* A start or restart of the Free tier that brings its workload up keeps the memory of what runs
\* under the ceiling and controls one of the first workloads Free shows, when nothing else came up,
\* was scanned or lapsed since it began: check and command are commands apart.  What runs leaves out
\* a workload whose status query failed, which checkFreeTierCap() takes for one that does not run,
\* unless it is the workload started (free-tier-cap.ts; the start and restart handlers of
\* routes/workloads.ts).
CapHoldsUndisturbed ==
    [][\A r \in quiet \cap Requests :
          LET shown  == Visible(registry, tier)
              unseen == req[r].dark \ {req[r].name}
          IN  (/\ tier = "free" /\ req[r].op \in {"start", "restart"}
               /\ req'[r] = Idle /\ req[r].name \in active' \ active)
                  => /\ Memory((active' \cap shown) \ unseen, recorded) <= MaxMemory
                     /\ req[r].name \in Controllable(shown)]_vars

\* A row leaves the registry while its unit runs only if the unit came up after deleteVm() had
\* asked for its status, or if the query failed: UNKNOWN passes for not running.
DeleteSparesRunning ==
    [][\A r \in quiet : (req[r].op = "delete" /\ req'[r] = Idle /\ registry' # registry
                             /\ req[r].name \in active)
                            => req[r].name \in req[r].dark]_vars

\* A workload that a scan reports as refreshed holds the specs the scan read (scanMicrovms()).
RefreshTakes ==
    [][\A r \in Requests : (req[r].op = "scan" /\ req'[r].op = "scan")
                               => req'[r].noted \ req[r].noted \subseteq recorded']_vars

\* What a Free host runs is under the memory ceiling (constants/tier-limits.ts).
RunningWithinCeiling ==
    tier = "free" => Memory(active \cap Visible(registry, tier), recorded) <= MaxMemory

=============================================================================
