----------------------------- MODULE Addresses -----------------------------
(***************************************************************************)
(* The addresses of the workloads: the create, clone and registry-only     *)
(* delete handlers of backend/src/routes/workloads.ts, the JSON registry   *)
(* they write and the address pool they reserve from.                      *)
(*                                                                         *)
(* The pool is services/weaver/network-manager.ts, which is not in the     *)
(* repository: reserveIp takes the first free address of the pool and      *)
(* records it before it returns, releaseIp returns one and does nothing    *)
(* for an address that is free (backend/tests/services/ip-allocation).     *)
(* A handler is suspended while the host answers and while a file is       *)
(* written; what it does to the registry in memory is done at once.        *)
(***************************************************************************)
EXTENDS Integers

CONSTANTS
    Names, Addresses, None,
    Pool,           \* the addresses of the pool
    Explicit,       \* bound: addresses asked for by name
    ExplicitClones, \* bound: clones may ask for one
    Found,          \* bound: the rows at start-up, each with its address
    Clones,         \* bound: clone handlers in progress at one time
    MaxFaults       \* bound: registry writes that fail

ASSUME AddressesAssumption == Pool \subseteq Addresses /\ Explicit \subseteq Addresses /\ None \notin Addresses
ASSUME FoundAssumption == Found \in [Names -> Addresses \cup {None}]
ASSUME BoundsAssumption == MaxFaults \in Nat /\ ExplicitClones \in BOOLEAN

VARIABLES
    addr,       \* the registry: the address of each row, None where there is no row
    allocated,  \* the pool's reservations
    clone,      \* the clone handlers in progress
    handed,     \* history: reserved addresses whose clone succeeded
    faults

vars == <<addr, allocated, clone, handed, faults>>

NoRows == [n \in Names |-> None]
Idle   == [at |-> "idle", source |-> None, target |-> None, ip |-> None, reserved |-> FALSE, defs |-> NoRows]

Registered(n)  == addr[n] # None
InUse(a, rows) == \E n \in Names : rows[n] = a

\* The reservations of the clones in progress.
Held == {clone[c].ip : c \in {d \in Clones : clone[d].reserved}}

----------------------------------------------------------------------------

\* reserveIp() of an address of the pool that is free; which one it is does not matter here.
Reserve(a) == a \in Pool \ allocated /\ allocated' = allocated \cup {a}

\* POST /: the address is looked up in the registry as it is, and the row is added.
Create(n, a) ==
    /\ ~InUse(a, addr)
    /\ ~Registered(n)
    /\ addr' = [addr EXCEPT ![n] = a]
    /\ UNCHANGED <<allocated, clone, handed, faults>>

\* DELETE, registry only: the pool is not told.
Delete(n) ==
    /\ Registered(n)
    /\ addr' = [addr EXCEPT ![n] = None]
    /\ UNCHANGED <<allocated, clone, handed, faults>>

\* POST clone: the definitions are read, then the host is asked for the source's status.
Begin(c, source, target, ip) ==
    /\ clone[c] = Idle
    /\ Registered(source)
    /\ clone' = [clone EXCEPT ![c] = [at |-> "status", source |-> source, target |-> target,
                                      ip |-> ip, reserved |-> FALSE, defs |-> addr]]
    /\ UNCHANGED <<addr, allocated, handed, faults>>

\* The source runs, or the target had a row, or the address a row: refused.
Refuse(c) ==
    /\ clone[c].at = "status"
    /\ clone' = [clone EXCEPT ![c] = Idle]
    /\ UNCHANGED <<addr, allocated, handed, faults>>

\* The checks against the definitions read before.
Unused(c) == /\ clone[c].defs[clone[c].target] = None
             /\ clone[c].ip # None => ~InUse(clone[c].ip, clone[c].defs)

\* registry.add() in memory; its file is written next.
Added(c, ip, reserved) ==
    /\ addr' = [addr EXCEPT ![clone[c].target] = ip]
    /\ clone' = [clone EXCEPT ![c].at = "persist", ![c].ip = ip, ![c].reserved = reserved, ![c].defs = NoRows]

\* An address was asked for: the clone is registered with it, or its name was taken meanwhile.
UseExplicit(c) ==
    /\ clone[c].at = "status"
    /\ clone[c].ip # None
    /\ Unused(c)
    /\ IF Registered(clone[c].target)
       THEN clone' = [clone EXCEPT ![c] = Idle] /\ UNCHANGED addr
       ELSE Added(c, clone[c].ip, FALSE)
    /\ UNCHANGED <<allocated, handed, faults>>

\* None was: reserveIp() takes one and writes its own file.
ReserveFor(c, a) ==
    /\ clone[c].at = "status"
    /\ clone[c].ip = None
    /\ Unused(c)
    /\ Reserve(a)
    /\ clone' = [clone EXCEPT ![c].at = "reserved", ![c].ip = a, ![c].reserved = TRUE, ![c].defs = NoRows]
    /\ UNCHANGED <<addr, handed, faults>>

\* Fault for the runs' mutants: a name that was taken meanwhile keeps the reservation.
Mut_KeepReservation(c) ==
    /\ clone[c].at = "reserved"
    /\ IF Registered(clone[c].target)
       THEN /\ clone' = [clone EXCEPT ![c] = Idle]
            /\ UNCHANGED <<addr, allocated>>
       ELSE /\ Added(c, clone[c].ip, TRUE)
            /\ UNCHANGED allocated
    /\ UNCHANGED <<handed, faults>>

\* The reservation is on disk: the clone is registered, or the address released.
Register(c) ==
    /\ clone[c].at = "reserved"
    /\ IF Registered(clone[c].target)
       THEN /\ clone' = [clone EXCEPT ![c] = Idle]
            /\ allocated' = allocated \ {clone[c].ip}
            /\ UNCHANGED addr
       ELSE /\ Added(c, clone[c].ip, TRUE)
            /\ UNCHANGED allocated
    /\ UNCHANGED <<handed, faults>>

\* Fault for the runs' mutants: the address is released on every exit.
Mut_ReleaseAlways(c) ==
    /\ clone[c].at = "persist"
    /\ handed' = IF clone[c].reserved THEN handed \cup {clone[c].ip} ELSE handed
    /\ allocated' = allocated \ {clone[c].ip}
    /\ clone' = [clone EXCEPT ![c] = Idle]
    /\ UNCHANGED <<addr, faults>>

\* The registry's file is written: 201.
Succeed(c) ==
    /\ clone[c].at = "persist"
    /\ handed' = IF clone[c].reserved THEN handed \cup {clone[c].ip} ELSE handed
    /\ clone' = [clone EXCEPT ![c] = Idle]
    /\ UNCHANGED <<addr, allocated, faults>>

\* It cannot be written: 500 and the address is released; the row stays in the registry's memory.
Fail(c) ==
    /\ clone[c].at = "persist"
    /\ faults < MaxFaults
    /\ faults' = faults + 1
    /\ allocated' = IF clone[c].reserved THEN allocated \ {clone[c].ip} ELSE allocated
    /\ clone' = [clone EXCEPT ![c] = Idle]
    /\ UNCHANGED <<addr, handed>>

Init ==
    /\ addr = Found
    /\ allocated = {}
    /\ clone = [c \in Clones |-> Idle]
    /\ handed = {}
    /\ faults = 0

Next ==
    \/ \E n \in Names : Delete(n) \/ \E a \in Explicit : Create(n, a)
    \/ \E c \in Clones :
          \/ \E source, target \in Names, ip \in {None} \cup (IF ExplicitClones THEN Explicit ELSE {}) :
                source # target /\ Begin(c, source, target, ip)
          \/ Refuse(c) \/ UseExplicit(c) \/ Register(c) \/ Succeed(c) \/ Fail(c)
          \/ \E a \in Pool : ReserveFor(c, a)

Spec == Init /\ [][Next]_vars

----------------------------------------------------------------------------

\* The types of the registry, the pool and the handlers.
TypeOK ==
    /\ addr \in [Names -> Addresses \cup {None}]
    /\ allocated \subseteq Pool
    /\ handed \subseteq Pool
    /\ faults \in 0..MaxFaults
    /\ clone \in [Clones -> [at : {"idle", "status", "reserved", "persist"},
                             source : Names \cup {None}, target : Names \cup {None},
                             ip : Addresses \cup {None}, reserved : BOOLEAN,
                             defs : [Names -> Addresses \cup {None}]]]

\* No two workloads of the registry have one address: create and clone answer 409 for one in use.
UniqueAddresses ==
    \A m, n \in Names : (addr[m] = addr[n] /\ addr[m] # None) => m = n

\* So it is for the addresses of the pool, when nobody asks for one of them by name and every
\* registration is written: the pool alone keeps two clones apart.
UniquePoolAddresses ==
    (faults = 0 /\ Explicit \cap Pool = {}) =>
        \A m, n \in Names : (addr[m] = addr[n] /\ addr[m] \in Pool) => m = n

\* Every reservation is of a clone in progress or of one that succeeded: each exit of the clone
\* handler that is not a success returns the address.
NothingLeaks == allocated \subseteq Held \cup handed

\* No two clones in progress hold one reservation, and neither theirs nor those of the clones that
\* succeeded are free for the next: the failure of one clone releases nothing of another.
ReservedOnce ==
    /\ \A c, d \in Clones : (clone[c].reserved /\ clone[d].reserved /\ clone[c].ip = clone[d].ip) => c = d
    /\ Held \cap handed = {}
    /\ Held \cup handed \subseteq allocated

=============================================================================
