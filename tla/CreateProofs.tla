---------------------------- MODULE CreateProofs ----------------------------
(***************************************************************************)
(* What a create or a clone of a workload draws on: the addresses of the   *)
(* network (Addresses), and the sources and base images of distributions   *)
(* (Distros), for every set of workloads, addresses, clones, URLs,         *)
(* requests, calls and faults.                                             *)
(***************************************************************************)
EXTENDS Addresses, Distros, TLAPS

----------------------------------------------------------------------------
(* The addresses.                                                          *)


Clone == [at : {"idle", "status", "reserved", "persist"},
          source : Names \cup {None}, target : Names \cup {None},
          ip : Addresses \cup {None}, reserved : BOOLEAN,
          defs : [Names -> Addresses \cup {None}]]

\* Where a clone is says what it holds: a reservation from reserveIp() to the end of the
\* registration, and before that at most an address that was asked for.
Holds(c) ==
    /\ clone[c].at \in {"idle", "status"} => ~clone[c].reserved
    /\ clone[c].at = "reserved" => clone[c].reserved
    /\ clone[c].at = "status" => clone[c].ip \in Explicit \cup {None}
    /\ clone[c].at = "persist" /\ ~clone[c].reserved => clone[c].ip \in Explicit
    /\ clone[c].at \in {"status", "reserved", "persist"} => clone[c].target \in Names
    /\ clone[c].reserved => clone[c].ip \in Pool

\* The pool and the clones agree.
IInv == TypeOK /\ (\A c \in Clones : Holds(c)) /\ NothingLeaks /\ ReservedOnce

LEMMA IdleIsClone == Idle \in Clone /\ Idle.at = "idle" /\ Idle.reserved = FALSE
BY DEF Idle, Clone, NoRows

LEMMA InitIInv == Init => IInv
<1> SUFFICES ASSUME Init PROVE IInv
  OBVIOUS
<1>1. TypeOK
  BY FoundAssumption, BoundsAssumption, IdleIsClone DEF Init, TypeOK, Clone
<1>2. \A c \in Clones : Holds(c)
  BY IdleIsClone DEF Init, Holds, Idle
<1>3. Held = {}
  BY IdleIsClone DEF Init, Held
<1>4. NothingLeaks /\ ReservedOnce
  BY <1>3, IdleIsClone DEF Init, NothingLeaks, ReservedOnce
<1>. QED BY <1>1, <1>2, <1>4 DEF IInv

\* A step that leaves the pool alone and turns one clone into one without a reservation it did not
\* have, or ends it without one, keeps the agreement.
LEMMA OneCloneKeepsIInv ==
    ASSUME IInv, NEW c \in Clones, NEW r \in Clone,
           clone' = [clone EXCEPT ![c] = r],
           addr' \in [Names -> Addresses \cup {None}], faults' \in 0..MaxFaults,
           Holds(c)',
           r.reserved = clone[c].reserved, r.reserved => r.ip = clone[c].ip,
           UNCHANGED <<allocated, handed>>
    PROVE  IInv'
<1>1. clone \in [Clones -> Clone]
  BY DEF IInv, TypeOK, Clone
<1>2. clone' \in [Clones -> Clone] /\ clone'[c] = r /\ \A d \in Clones \ {c} : clone'[d] = clone[d]
  BY <1>1
<1>3. TypeOK'
  BY <1>2 DEF IInv, TypeOK, Clone
<1>4. \A d \in Clones : Holds(d)'
  BY <1>2 DEF IInv, Holds
<1>5. \A d \in Clones : clone'[d].reserved = clone[d].reserved /\ (clone[d].reserved => clone'[d].ip = clone[d].ip)
  BY <1>2
<1>6. Held' = Held
  BY <1>5 DEF Held
<1>7. NothingLeaks'
  BY <1>6 DEF IInv, NothingLeaks
<1>8. ReservedOnce'
  BY <1>5, <1>6 DEF IInv, ReservedOnce
<1>. QED BY <1>3, <1>4, <1>7, <1>8 DEF IInv

\* Where the reservations change, Held changes with them by the address of the one clone.
LEMMA HeldStep ==
    ASSUME IInv, NEW c \in Clones, NEW r \in Clone, clone' = [clone EXCEPT ![c] = r]
    PROVE  /\ clone' \in [Clones -> Clone]
           /\ clone'[c] = r /\ \A d \in Clones \ {c} : clone'[d] = clone[d]
           /\ ~clone[c].reserved /\ r.reserved => Held' = Held \cup {r.ip}
           /\ clone[c].reserved /\ ~r.reserved => Held' = Held \ {clone[c].ip}
<1>1. clone \in [Clones -> Clone]
  BY DEF IInv, TypeOK, Clone
<1>2. clone' \in [Clones -> Clone] /\ clone'[c] = r /\ \A d \in Clones \ {c} : clone'[d] = clone[d]
  BY <1>1
<1>3. CASE ~clone[c].reserved /\ r.reserved
  BY <1>2, <1>3 DEF Held
<1>4. CASE clone[c].reserved /\ ~r.reserved
  <2>1. \A d \in Clones \ {c} : clone[d].reserved => clone[d].ip # clone[c].ip
    BY <1>4 DEF IInv, ReservedOnce
  <2>. QED BY <1>2, <1>4, <2>1 DEF Held
<1>. QED BY <1>2, <1>3, <1>4

\* A clone that ends and releases its address: the pool has it again and nobody holds it.
LEMMA ReleaseStep ==
    ASSUME IInv, NEW c \in Clones, clone[c].reserved, clone' = [clone EXCEPT ![c] = Idle],
           allocated' = allocated \ {clone[c].ip},
           faults' \in 0..MaxFaults, UNCHANGED <<addr, handed>>
    PROVE  IInv'
<1>1. /\ clone' \in [Clones -> Clone] /\ clone'[c] = Idle /\ \A d \in Clones \ {c} : clone'[d] = clone[d]
      /\ Held' = Held \ {clone[c].ip}
  BY IdleIsClone, HeldStep
<1>2. clone[c].ip \in Held
  BY DEF Held
<1>3. TypeOK'
  BY <1>1 DEF IInv, TypeOK, Clone
<1>4. \A d \in Clones : Holds(d)'
  BY <1>1, IdleIsClone DEF IInv, Holds
<1>5. NothingLeaks' /\ ReservedOnce'
  BY <1>1, <1>2, IdleIsClone DEF IInv, NothingLeaks, ReservedOnce
<1>. QED BY <1>3, <1>4, <1>5 DEF IInv

LEMMA StepIInv == IInv /\ [Next]_vars => IInv'
<1> SUFFICES ASSUME IInv, [Next]_vars PROVE IInv'
  OBVIOUS
<1>0. /\ TypeOK /\ clone \in [Clones -> Clone] /\ Idle \in Clone
      /\ Idle.at = "idle" /\ Idle.reserved = FALSE
      /\ \A c \in Clones : Holds(c)
  BY IdleIsClone DEF IInv, TypeOK, Clone
<1>1. CASE UNCHANGED vars
  BY <1>1 DEF IInv, TypeOK, Holds, NothingLeaks, ReservedOnce, Held, vars
<1>2. CASE \E n \in Names : Delete(n) \/ \E a \in Explicit : Create(n, a)
  <2>1. addr' \in [Names -> Addresses \cup {None}] /\ UNCHANGED <<allocated, clone, handed, faults>>
    BY <1>0, <1>2, AddressesAssumption DEF Delete, Create, TypeOK
  <2>. QED BY <2>1 DEF IInv, TypeOK, Holds, NothingLeaks, ReservedOnce, Held
<1>3. ASSUME NEW c \in Clones, NEW source \in Names, NEW target \in Names,
             NEW ip \in {None} \cup Explicit, Begin(c, source, target, ip)
      PROVE  IInv'
  <2> DEFINE r == [at |-> "status", source |-> source, target |-> target,
                   ip |-> ip, reserved |-> FALSE, defs |-> addr]
  <2>1. r \in Clone
    BY <1>0, AddressesAssumption DEF Clone, TypeOK
  <2>2. clone' = [clone EXCEPT ![c] = r] /\ clone[c] = Idle /\ clone'[c] = r
    BY <1>0, <1>3 DEF Begin
  <2>3. Holds(c)'
    BY <2>2 DEF Holds
  <2>. QED BY <1>0, <1>3, <2>1, <2>2, <2>3, OneCloneKeepsIInv DEF Begin, TypeOK
<1>4. ASSUME NEW c \in Clones, Refuse(c)
      PROVE  IInv'
  <2>1. Holds(c)'
    BY <1>0, <1>4 DEF Refuse, Holds
  <2>2. ~clone[c].reserved
    BY <1>0, <1>4 DEF Refuse, Holds
  <2>. QED BY <1>0, <1>4, <2>1, <2>2, OneCloneKeepsIInv DEF Refuse, TypeOK
<1>5. ASSUME NEW c \in Clones, UseExplicit(c)
      PROVE  IInv'
  <2>1. ~clone[c].reserved /\ clone[c].ip \in Explicit /\ clone[c].target \in Names
    BY <1>0, <1>5 DEF UseExplicit, Holds
  <2>2. CASE Registered(clone[c].target)
    <3>1. clone' = [clone EXCEPT ![c] = Idle] /\ UNCHANGED <<addr, allocated, handed, faults>>
      BY <1>5, <2>2 DEF UseExplicit
    <3>2. Holds(c)'
      BY <1>0, <3>1 DEF Holds
    <3>. QED BY <1>0, <2>1, <3>1, <3>2, OneCloneKeepsIInv DEF TypeOK
  <2>3. CASE ~Registered(clone[c].target)
    <3> DEFINE r == [clone[c] EXCEPT !.at = "persist", !.ip = clone[c].ip, !.reserved = FALSE, !.defs = NoRows]
    <3>1. Added(c, clone[c].ip, FALSE) /\ UNCHANGED <<allocated, handed, faults>>
      BY <1>5, <2>3 DEF UseExplicit
    <3>2. clone' = [clone EXCEPT ![c] = r]
      BY <1>0, <3>1 DEF Added
    <3>3. r \in Clone
      BY <1>0, AddressesAssumption DEF Clone, NoRows
    <3>4. addr' \in [Names -> Addresses \cup {None}]
      BY <1>0, <2>1, <3>1, AddressesAssumption DEF Added, TypeOK
    <3>5. clone'[c] = r /\ r.at = "persist" /\ r.reserved = FALSE /\ r.ip = clone[c].ip /\ r.target = clone[c].target
      BY <1>0, <3>2 DEF Clone
    <3>6. Holds(c)'
      BY <2>1, <3>5 DEF Holds
    <3>. QED BY <1>0, <2>1, <3>1, <3>2, <3>3, <3>4, <3>5, <3>6, OneCloneKeepsIInv DEF TypeOK
  <2>. QED BY <2>2, <2>3
<1>6. ASSUME NEW c \in Clones, NEW a \in Pool, ReserveFor(c, a)
      PROVE  IInv'
  <2> DEFINE r == [clone[c] EXCEPT !.at = "reserved", !.ip = a, !.reserved = TRUE, !.defs = NoRows]
  <2>1. /\ clone' = [clone EXCEPT ![c] = r] /\ r \in Clone /\ ~clone[c].reserved
        /\ r.at = "reserved" /\ r.reserved = TRUE /\ r.ip = a /\ r.target = clone[c].target
        /\ clone[c].target \in Names
    BY <1>0, <1>6, AddressesAssumption DEF ReserveFor, Clone, NoRows, Holds
  <2>2. a \in Pool \ allocated /\ allocated' = allocated \cup {a} /\ UNCHANGED <<addr, handed, faults>>
    BY <1>6 DEF ReserveFor, Reserve
  <2>3. /\ clone' \in [Clones -> Clone] /\ clone'[c] = r /\ \A d \in Clones \ {c} : clone'[d] = clone[d]
        /\ Held' = Held \cup {a}
    BY <2>1, HeldStep
  <2>4. TypeOK'
    BY <1>0, <2>2, <2>3 DEF TypeOK, Clone
  <2>5. \A d \in Clones : Holds(d)'
    BY <1>0, <2>1, <2>3 DEF Holds
  <2>6. NothingLeaks'
    BY <2>2, <2>3 DEF IInv, NothingLeaks
  <2>7. \A d \in Clones : clone[d].reserved => clone[d].ip \in allocated
    BY DEF IInv, ReservedOnce, Held
  <2>8. ReservedOnce'
    BY <2>1, <2>2, <2>3, <2>7 DEF IInv, ReservedOnce
  <2>. QED BY <2>4, <2>5, <2>6, <2>8 DEF IInv
<1>7. ASSUME NEW c \in Clones, Register(c)
      PROVE  IInv'
  <2>1. clone[c].reserved /\ clone[c].ip \in Pool /\ clone[c].target \in Names
    BY <1>0, <1>7 DEF Register, Holds
  <2>2. CASE Registered(clone[c].target)
    BY <1>0, <1>7, <2>1, <2>2, ReleaseStep DEF Register, TypeOK
  <2>3. CASE ~Registered(clone[c].target)
    <3> DEFINE r == [clone[c] EXCEPT !.at = "persist", !.ip = clone[c].ip, !.reserved = TRUE, !.defs = NoRows]
    <3>1. Added(c, clone[c].ip, TRUE) /\ UNCHANGED <<allocated, handed, faults>>
      BY <1>7, <2>3 DEF Register
    <3>2. clone' = [clone EXCEPT ![c] = r]
      BY <1>0, <3>1 DEF Added
    <3>3. r \in Clone
      BY <1>0, AddressesAssumption DEF Clone, NoRows
    <3>4. addr' \in [Names -> Addresses \cup {None}]
      BY <1>0, <2>1, <3>1, AddressesAssumption DEF Added, TypeOK
    <3>5. clone'[c] = r /\ r.at = "persist" /\ r.reserved = TRUE /\ r.ip = clone[c].ip /\ r.target = clone[c].target
      BY <1>0, <3>2 DEF Clone
    <3>6. Holds(c)'
      BY <2>1, <3>5 DEF Holds
    <3>. QED BY <1>0, <2>1, <3>1, <3>2, <3>3, <3>4, <3>5, <3>6, OneCloneKeepsIInv DEF TypeOK
  <2>. QED BY <2>2, <2>3
<1>8. ASSUME NEW c \in Clones, Succeed(c)
      PROVE  IInv'
  <2>1. clone' = [clone EXCEPT ![c] = Idle] /\ UNCHANGED <<addr, allocated, faults>>
    BY <1>8 DEF Succeed
  <2>2. CASE ~clone[c].reserved
    <3>1. Holds(c)'
      BY <1>0, <2>1 DEF Holds
    <3>. QED BY <1>0, <1>8, <2>1, <2>2, <3>1, OneCloneKeepsIInv DEF Succeed, TypeOK
  <2>3. CASE clone[c].reserved
    <3>1. handed' = handed \cup {clone[c].ip} /\ clone[c].ip \in Pool
      BY <1>0, <1>8, <2>3 DEF Succeed, Holds
    <3>2. /\ clone' \in [Clones -> Clone] /\ clone'[c] = Idle /\ \A d \in Clones \ {c} : clone'[d] = clone[d]
          /\ Held' = Held \ {clone[c].ip}
      BY <1>0, <2>1, <2>3, HeldStep
    <3>3. clone[c].ip \in Held
      BY <2>3 DEF Held
    <3>4. TypeOK'
      BY <1>0, <2>1, <3>1, <3>2 DEF TypeOK, Clone
    <3>5. \A d \in Clones : Holds(d)'
      BY <1>0, <3>2 DEF Holds
    <3>6. NothingLeaks' /\ ReservedOnce'
      BY <1>0, <2>1, <3>1, <3>2, <3>3 DEF IInv, NothingLeaks, ReservedOnce
    <3>. QED BY <3>4, <3>5, <3>6 DEF IInv
  <2>. QED BY <2>2, <2>3
<1>9. ASSUME NEW c \in Clones, Fail(c)
      PROVE  IInv'
  <2>1. /\ clone' = [clone EXCEPT ![c] = Idle] /\ UNCHANGED <<addr, handed>>
        /\ faults' \in 0..MaxFaults
    BY <1>0, <1>9, BoundsAssumption DEF Fail, TypeOK
  <2>2. CASE ~clone[c].reserved
    <3>1. Holds(c)'
      BY <1>0, <2>1 DEF Holds
    <3>. QED BY <1>0, <1>9, <2>1, <2>2, <3>1, OneCloneKeepsIInv DEF Fail, TypeOK
  <2>3. CASE clone[c].reserved
    BY <1>0, <1>9, <2>1, <2>3, ReleaseStep DEF Fail, TypeOK
  <2>. QED BY <2>2, <2>3
<1>. QED BY <1>1, <1>2, <1>3, <1>4, <1>5, <1>6, <1>7, <1>8, <1>9 DEF Next

\* Every workload, address, pool and number of clones: the registry, the pool and the clones keep
\* their types (create, clone and delete handlers of routes/workloads.ts).
THEOREM TypeCorrect == Spec => []TypeOK
<1>1. IInv => TypeOK
  BY DEF IInv
<1>. QED BY <1>1, InitIInv, StepIInv, PTL DEF Spec

\* Each exit of the clone handler that is not a success returns its address to the pool, at every
\* interleaving of clones, creates and deletes and whichever registry writes fail.
THEOREM LeaksNothing == Spec => []NothingLeaks
<1>1. IInv => NothingLeaks
  BY DEF IInv
<1>. QED BY <1>1, InitIInv, StepIInv, PTL DEF Spec

\* A reservation has one holder: no clone is handed, and no clone releases, the address of another
\* that is in progress or succeeded.
THEOREM ReservesOnce == Spec => []ReservedOnce
<1>1. IInv => ReservedOnce
  BY DEF IInv
<1>. QED BY <1>1, InitIInv, StepIInv, PTL DEF Spec

----------------------------------------------------------------------------
(* The pool alone keeps clones apart: what the registry has of it is reserved,  *)
(* and what a clone has just reserved is in no row.                             *)

PoolRows ==
    (faults = 0 /\ Explicit \cap Pool = {}) =>
        /\ \A n \in Names : addr[n] \in Pool => addr[n] \in allocated
        /\ \A c \in Clones, n \in Names : clone[c].at = "reserved" => addr[n] # clone[c].ip
        /\ UniquePoolAddresses

LEMMA InitPoolRows ==
    ASSUME \A n \in Names : Found[n] \notin Pool, Init
    PROVE  PoolRows
BY IdleIsClone DEF Init, PoolRows, UniquePoolAddresses

\* A step that puts no address of the pool into a row and reserves for nobody.
LEMMA KeepsPoolRows ==
    ASSUME IInv, PoolRows, faults' = faults, allocated' = allocated,
           \A n \in Names : addr'[n] = addr[n] \/ addr'[n] \notin Pool,
           \A c \in Clones : clone'[c].at = "reserved" => clone'[c] = clone[c]
    PROVE  PoolRows'
<1> SUFFICES ASSUME faults = 0, Explicit \cap Pool = {}
             PROVE  /\ \A n \in Names : addr'[n] \in Pool => addr'[n] \in allocated'
                    /\ \A c \in Clones, n \in Names : clone'[c].at = "reserved" => addr'[n] # clone'[c].ip
                    /\ \A m, n \in Names : (addr'[m] = addr'[n] /\ addr'[m] \in Pool) => m = n
  BY DEF PoolRows, UniquePoolAddresses
<1>1. /\ \A n \in Names : addr[n] \in Pool => addr[n] \in allocated
      /\ \A c \in Clones, n \in Names : clone[c].at = "reserved" => addr[n] # clone[c].ip
      /\ \A m, n \in Names : (addr[m] = addr[n] /\ addr[m] \in Pool) => m = n
  BY DEF PoolRows, UniquePoolAddresses
<1>2. \A c \in Clones : clone[c].at = "reserved" => clone[c].ip \in Pool
  BY DEF IInv, Holds
<1>. QED BY <1>1, <1>2

LEMMA StepPoolRows == IInv /\ PoolRows /\ [Next]_vars => PoolRows'
<1> SUFFICES ASSUME IInv, PoolRows, [Next]_vars, faults' = 0, Explicit \cap Pool = {} PROVE PoolRows'
  BY DEF PoolRows
<1>0. /\ TypeOK /\ clone \in [Clones -> Clone]
      /\ \A c \in Clones : Holds(c)
      /\ addr \in [Names -> Addresses \cup {None}] /\ faults \in Nat
      /\ None \notin Pool /\ \A a \in Explicit : a \notin Pool
      /\ Idle.at = "idle"
  BY BoundsAssumption, AddressesAssumption, IdleIsClone DEF IInv, TypeOK, Clone
<1>1. CASE UNCHANGED vars
  BY <1>1, KeepsPoolRows DEF vars
<1>2. CASE \E n \in Names : Delete(n) \/ \E a \in Explicit : Create(n, a)
  <2>1. /\ UNCHANGED <<allocated, clone, faults>>
        /\ \A n \in Names : addr'[n] = addr[n] \/ addr'[n] \notin Pool
    BY <1>0, <1>2 DEF Delete, Create
  <2>. QED BY <2>1, KeepsPoolRows
<1>3. ASSUME NEW c \in Clones, NEW source \in Names, NEW target \in Names,
             NEW ip \in {None} \cup Explicit, Begin(c, source, target, ip)
      PROVE  PoolRows'
  <2>1. \A d \in Clones : clone'[d].at = "reserved" => clone'[d] = clone[d]
    BY <1>0, <1>3 DEF Begin
  <2>. QED BY <1>3, <2>1, KeepsPoolRows DEF Begin
<1>4. ASSUME NEW c \in Clones, Refuse(c) \/ Succeed(c)
      PROVE  PoolRows'
  <2>1. /\ clone' = [clone EXCEPT ![c] = Idle]
        /\ UNCHANGED <<addr, allocated, faults>>
    BY <1>4 DEF Refuse, Succeed
  <2>2. \A d \in Clones : clone'[d].at = "reserved" => clone'[d] = clone[d]
    BY <1>0, <2>1
  <2>. QED BY <2>1, <2>2, KeepsPoolRows
<1>5. ASSUME NEW c \in Clones, UseExplicit(c)
      PROVE  PoolRows'
  <2>1. \A d \in Clones : clone'[d].at = "reserved" => clone'[d] = clone[d]
    BY <1>0, <1>5 DEF UseExplicit, Added, Clone
  <2>2. clone[c].ip \notin Pool
    BY <1>0, <1>5 DEF UseExplicit, Holds
  <2>3. \A n \in Names : addr'[n] = addr[n] \/ addr'[n] \notin Pool
    BY <1>0, <1>5, <2>2 DEF UseExplicit, Added
  <2>. QED BY <1>5, <2>1, <2>3, KeepsPoolRows DEF UseExplicit
<1>6. CASE \E c \in Clones : Fail(c)
  BY <1>0, <1>6 DEF Fail
<1>7. /\ faults = 0 =>
            /\ \A n \in Names : addr[n] \in Pool => addr[n] \in allocated
            /\ \A c \in Clones, n \in Names : clone[c].at = "reserved" => addr[n] # clone[c].ip
            /\ \A m, n \in Names : (addr[m] = addr[n] /\ addr[m] \in Pool) => m = n
      /\ \A c \in Clones : clone[c].at = "reserved" => clone[c].reserved /\ clone[c].ip \in allocated \cap Pool
  BY <1>0 DEF PoolRows, UniquePoolAddresses, IInv, ReservedOnce, Held, Holds
<1>8. ASSUME NEW c \in Clones, NEW a \in Pool, ReserveFor(c, a)
      PROVE  PoolRows'
  <2>1. /\ faults = 0 /\ addr' = addr /\ a \notin allocated /\ allocated' = allocated \cup {a}
        /\ clone'[c].ip = a
        /\ \A d \in Clones \ {c} : clone'[d] = clone[d]
    BY <1>0, <1>8 DEF ReserveFor, Reserve, Clone
  <2>. QED BY <1>7, <2>1 DEF PoolRows, UniquePoolAddresses
<1>9. ASSUME NEW c \in Clones, Register(c)
      PROVE  PoolRows'
  <2>1. faults = 0 /\ clone[c].at = "reserved" /\ clone[c].target \in Names
    BY <1>0, <1>9 DEF Register, Holds
  <2>2. /\ clone'[c].at # "reserved"
        /\ \A d \in Clones \ {c} : clone'[d] = clone[d]
    BY <1>0, <1>9 DEF Register, Added, Clone
  <2>3. CASE Registered(clone[c].target)
    <3>1. addr' = addr /\ allocated' = allocated \ {clone[c].ip}
      BY <1>9, <2>3 DEF Register
    <3>. QED BY <1>7, <2>1, <2>2, <3>1 DEF PoolRows, UniquePoolAddresses
  <2>4. CASE ~Registered(clone[c].target)
    <3>1. allocated' = allocated /\ addr' = [addr EXCEPT ![clone[c].target] = clone[c].ip]
      BY <1>9, <2>4 DEF Register, Added
    <3>2. \A n \in Names : addr'[n] = IF n = clone[c].target THEN clone[c].ip ELSE addr[n]
      BY <1>0, <3>1
    <3>3. \A d \in Clones \ {c} : clone[d].at = "reserved" => clone[d].ip # clone[c].ip
      BY <1>7, <2>1 DEF IInv, ReservedOnce
    <3>. QED BY <1>7, <2>1, <2>2, <3>1, <3>2, <3>3 DEF PoolRows, UniquePoolAddresses
  <2>. QED BY <2>3, <2>4
<1>. QED BY <1>1, <1>2, <1>3, <1>4, <1>5, <1>6, <1>8, <1>9 DEF Next

\* The pool keeps workloads apart: when no address of the pool is asked for by name, and none is in
\* use at start-up, no two workloads have one of its addresses as long as every registration is
\* written, however many clones race for it.
THEOREM PoolKeepsApart ==
    ASSUME \A n \in Names : Found[n] \notin Pool
    PROVE  Spec => []UniquePoolAddresses
<1>1. Init => PoolRows
  BY InitPoolRows
<1>2. PoolRows => UniquePoolAddresses
  BY DEF PoolRows, UniquePoolAddresses
<1>. QED BY <1>1, <1>2, InitIInv, StepIInv, StepPoolRows, PTL DEF Spec


----------------------------------------------------------------------------
(* The sources: types.                                                     *)

\* A handler that writes the custom store is about a distribution.
Handler ==
    {h \in [at : {"idle", "custom", "fetch", "catalog", "check", "result"},
            name : Distributions \cup {Nil}, url : Urls \cup {Nil}, table : Table,
            validates : BOOLEAN] : h.at = "custom" => h.name \in Distributions}
Sources == [catalog : Table, custom : Table]

StoreTypes == /\ catalog \in Table /\ custom \in Table /\ customFile \in Table
              /\ catalogFile \in Table \cup {Nil}
              /\ inUse \in Sources
              /\ req \in [Requests -> Handler]
              /\ behind \subseteq {"custom", "catalog"}
CheckTypes == /\ results \in Table /\ resultsFile \in Table
              /\ sweep \in [at : {"idle", "check", "result"}, seen : Table]
FileTypes  == file \in [Distributions -> {Absent} \cup Calls] /\ spoiled \subseteq Distributions
BoundTypes == ops \in 0..MaxOps /\ distroFaults \in 0..MaxDistroFaults

LEMMA DistroTypeParts ==
    StoreTypes /\ CheckTypes /\ FileTypes /\ BoundTypes => DistroTypeOK
  BY DEF DistroTypeOK, StoreTypes, CheckTypes, FileTypes, BoundTypes, Handler, Sources

LEMMA NoRequestType ==
    /\ NoUrls \in Table /\ NoRequest \in Handler /\ NoRequest.at = "idle"
    /\ NoRequest.validates = FALSE
  BY DEF NoRequest, Handler, NoUrls, Table

LEMMA SourceTypes ==
    ASSUME NEW used \in Sources, NEW n \in Distributions
    PROVE  /\ Source(used, n).url \in Urls \cup {Nil} /\ Source(used, n).digest \in BOOLEAN
  BY DistroAssumption DEF Source, Sources, Table

LEMMA BoundSteps ==
    ASSUME BoundTypes, Counts \/ Fault \/ UNCHANGED bounds
    PROVE  BoundTypes'
  BY DistroAssumption DEF BoundTypes, Counts, Fault, bounds

LEMMA StoreStep ==
    ASSUME StoreTypes, NEW r \in Requests, NEW n \in Distributions, NEW url \in Urls \cup {Nil},
           NEW v \in BOOLEAN, Store(r, n, url, v)
    PROVE  StoreTypes' /\ Counts /\ UNCHANGED <<checks, images>>
  <1>1. custom' \in Table
    BY DEF Store, StoreTypes, Table
  <1>2. req' \in [Requests -> Handler]
    <2>1. [NoRequest EXCEPT !.at = "custom", !.name = n, !.table = custom', !.validates = v]
              \in Handler
      BY <1>1, NoRequestType DEF Handler
    <2> QED BY <2>1 DEF Store, StoreTypes
  <1> QED BY <1>1, <1>2 DEF Store, StoreTypes, Begins

LEMMA RequestTypes ==
    ASSUME StoreTypes, NEW r \in Requests, RequestStep(r)
    PROVE  StoreTypes' /\ (Counts \/ Fault) /\ UNCHANGED <<checks, images>>
  <1>1. ASSUME NEW n \in Distributions, NEW url \in Offered, Add(r, n, url) \/ PutUrl(r, n, url)
        PROVE  StoreTypes' /\ Counts /\ UNCHANGED <<checks, images>>
    BY <1>1, StoreStep, DistroAssumption DEF Add, PutUrl
  <1>2. ASSUME NEW n \in Distributions, Remove(r, n) \/ ResetUrl(r, n)
        PROVE  StoreTypes' /\ Counts /\ UNCHANGED <<checks, images>>
    BY <1>2, StoreStep DEF Remove, ResetUrl
  <1>3. CASE Refresh(r)
    BY <1>3 DEF Refresh, StoreTypes, Handler, Begins
  <1>4. CASE HandlerFails(r)
    <2>1. behind' \subseteq {"custom", "catalog"} /\ req' \in [Requests -> Handler]
      BY <1>4, NoRequestType DEF HandlerFails, StoreTypes
    <2> QED BY <1>4, <2>1 DEF HandlerFails, StoreTypes
  <1> QED BY <1>1, <1>2, <1>3, <1>4 DEF RequestStep

LEMMA GoesOnTypes ==
    ASSUME StoreTypes, CheckTypes, NEW r \in Requests, HandlerGoesOn(r)
    PROVE  StoreTypes' /\ CheckTypes' /\ UNCHANGED <<images, bounds>>
  <1>0. req \in [Requests -> Handler] /\ req[r] \in Handler /\ req[r].table \in Table
    BY DEF StoreTypes, Handler
  <1>1. CASE CustomWritten(r)
    <2> DEFINE used == [inUse EXCEPT !.custom = Synced(r)]
               url  == Source(used, req[r].name).url
               over == IF req[r].validates /\ url # Nil
                       THEN [NoRequest EXCEPT !.at = "check", !.name = req[r].name, !.url = url]
                       ELSE NoRequest
    <2>1. used \in Sources
      BY DEF StoreTypes, Sources, Synced
    <2>2. req[r].name \in Distributions
      BY <1>0, <1>1 DEF Handler, CustomWritten
    <2>3. url \in Urls \cup {Nil}
      BY <2>1, <2>2, SourceTypes
    <2>4. over \in Handler
      BY <2>2, <2>3, NoRequestType DEF Handler
    <2>5. req' = [req EXCEPT ![r] = over] /\ inUse' = used
      BY <1>1 DEF CustomWritten
    <2> QED BY <1>0, <1>1, <2>1, <2>4, <2>5 DEF CustomWritten, StoreTypes, CheckTypes, checks
  <1>2. CASE CatalogWritten(r)
    BY <1>0, <1>2, NoRequestType DEF CatalogWritten, StoreTypes, CheckTypes, checks, Sources
  <1>3. CASE Checked(r)
    <2>1. results' \in Table
      BY <1>0, <1>3 DEF Checked, CheckTypes, Table, Handler
    <2>2. [NoRequest EXCEPT !.at = "result", !.table = results'] \in Handler
      BY <2>1, NoRequestType DEF Handler
    <2> QED BY <1>0, <1>3, <2>1, <2>2 DEF Checked, StoreTypes, CheckTypes
  <1>4. CASE ResultWritten(r)
    BY <1>0, <1>4, NoRequestType DEF ResultWritten, StoreTypes, CheckTypes
  <1>5. ASSUME NEW new \in Remote, Fetched(r, new)
        PROVE  StoreTypes' /\ CheckTypes' /\ UNCHANGED <<images, bounds>>
    BY <1>0, <1>5, DistroAssumption DEF Fetched, StoreTypes, CheckTypes, checks, Handler
  <1> QED BY <1>1, <1>2, <1>3, <1>4, <1>5 DEF HandlerGoesOn

LEMMA SweepTypes ==
    ASSUME StoreTypes, CheckTypes, Sweeps \/ SweepFails
    PROVE  CheckTypes' /\ UNCHANGED <<stores, images>> /\ (Fault \/ UNCHANGED bounds)
  <1>1. CASE SweepBegins
    <2>1. [n \in Distributions |-> Source(inUse, n).url] \in Table
      BY SourceTypes DEF StoreTypes, Table
    <2> QED BY <1>1, <2>1 DEF SweepBegins, CheckTypes
  <1>2. CASE SweepChecked
    BY <1>2 DEF SweepChecked, CheckTypes
  <1>3. CASE SweepWritten
    BY <1>3, NoRequestType DEF SweepWritten, CheckTypes, NoSweep
  <1>4. CASE SweepFails
    BY <1>4, NoRequestType DEF SweepFails, CheckTypes, NoSweep, Finally
  <1> QED BY <1>1, <1>2, <1>3, <1>4 DEF Sweeps

LEMMA RestartTypes ==
    ASSUME StoreTypes, CheckTypes, Restart
    PROVE  StoreTypes' /\ CheckTypes' /\ Fault
  <1> DEFINE loaded == IF catalogFile = Nil THEN Shipped ELSE catalogFile
             kept == [n \in Distributions |-> IF loaded[n] = Nil THEN customFile[n] ELSE Nil]
  <1>1. loaded \in Table
    BY DistroAssumption DEF StoreTypes
  <1>2. kept \in Table
    BY <1>1 DEF StoreTypes, Table
  <1> QED BY <1>1, <1>2, NoRequestType
          DEF Restart, StoreTypes, CheckTypes, Sources, NoSweep

----------------------------------------------------------------------------
(* The sources: what the image manager has.                                *)

\* A store the image manager does not follow has a write under way or one
\* that failed.
Following ==
    /\ inUse.custom = custom \/ "custom" \in behind
           \/ \E r \in Requests : req[r].at = "custom"
    /\ inUse.catalog = catalog \/ "catalog" \in behind
           \/ \E r \in Requests : req[r].at = "catalog"

LEMMA RequestFollows ==
    ASSUME StoreTypes, Following, NEW r \in Requests, RequestStep(r)
    PROVE  Following'
  <1>0. req \in [Requests -> Handler] /\ NoRequest.at = "idle"
    BY NoRequestType DEF StoreTypes
  <1>1. ASSUME NEW n, NEW url, NEW v, Store(r, n, url, v)
        PROVE  Following'
    <2>1. req'[r].at = "custom" /\ \A q \in Requests \ {r} : req'[q] = req[q]
      BY <1>0, <1>1 DEF Store, NoRequest
    <2>2. req[r].at = "idle"
      BY <1>0, <1>1 DEF Store, Begins
    <2> QED BY <1>1, <2>1, <2>2 DEF Following, Store
  <1>2. CASE Refresh(r)
    BY <1>0, <1>2 DEF Refresh, Begins, Following
  <1>3. CASE HandlerFails(r)
    <2>1. \A q \in Requests \ {r} : req'[q] = req[q]
      BY <1>0, <1>3 DEF HandlerFails
    <2> QED BY <1>3, <2>1 DEF HandlerFails, Following
  <1> QED BY <1>1, <1>2, <1>3 DEF RequestStep, Add, Remove, PutUrl, ResetUrl

LEMMA GoesOnFollows ==
    ASSUME StoreTypes, Following, NEW r \in Requests, HandlerGoesOn(r)
    PROVE  Following'
  <1>0. req \in [Requests -> Handler] /\ NoRequest.at = "idle" /\ inUse \in Sources
    BY NoRequestType DEF StoreTypes
  <1>1. \A q \in Requests \ {r} : req'[q] = req[q]
    BY <1>0 DEF HandlerGoesOn, CustomWritten, CatalogWritten, Checked, ResultWritten, Fetched
  <1>2. CASE CustomWritten(r)
    BY <1>0, <1>1, <1>2 DEF CustomWritten, Following, Synced, Sources
  <1>3. CASE CatalogWritten(r)
    BY <1>0, <1>1, <1>3 DEF CatalogWritten, Following, Sources
  <1>4. CASE Checked(r) \/ ResultWritten(r)
    BY <1>0, <1>1, <1>4 DEF Checked, ResultWritten, Following
  <1>5. ASSUME NEW new \in Remote, Fetched(r, new)
        PROVE  Following'
    BY <1>0, <1>1, <1>5 DEF Fetched, Following
  <1> QED BY <1>2, <1>3, <1>4, <1>5 DEF HandlerGoesOn

LEMMA OthersFollow ==
    ASSUME Following, UNCHANGED stores \/ Restart
    PROVE  Following'
  BY DEF Following, stores, Restart

----------------------------------------------------------------------------
(* The images.                                                             *)

Content == [what : {"none", "empty", "part", "whole"}, digest : BOOLEAN, good : BOOLEAN,
            shared : BOOLEAN]
Fetch   == [at : {"new", "connect", "stream", "verify", "returned", "failed"},
            of : Wanted \cup {Nil}, digest : BOOLEAN, into : {Absent} \cup Calls, got : Content]

ImageTypes ==
    /\ FileTypes
    /\ data \in [Calls -> Content] /\ fetch \in [Calls -> Fetch]
    /\ \A c \in Calls : ~ Stage(c, "new") => fetch[c].of \in Wanted

\* Files were opened by calls for their distribution.
FileOwned(n)   == file[n] # Absent => fetch[file[n]].at # "new" /\ fetch[file[n]].of = n
StreamOwned(c) == Stage(c, "stream") =>
                      /\ fetch[c].into \in Calls /\ fetch[fetch[c].into].at # "new"
                      /\ fetch[fetch[c].into].of = fetch[c].of

\* Whom a call is for, while it is under way.
For(c, n) == UnderWay(c) /\ fetch[c].of = n

Sound(got) == got.what = "whole" /\ (got.digest => got.good)

\* As far as a call for n has come, if n was never spoiled.
GotSoFar(c, n) ==
    /\ Stage(c, "connect") => ~ Usable(n)
    /\ Stage(c, "stream") => /\ file[n] = fetch[c].into
                             /\ ~ data[file[n]].shared /\ data[file[n]].what \in {"empty", "part"}
    /\ Stage(c, "verify") => There(n).what = "whole"
    /\ Stage(c, "returned") => Sound(fetch[c].got)

\* No two calls are for n at once, and between them there is a sound image or none.
Clean(n) ==
    /\ \A c, d \in Calls : For(c, n) /\ For(d, n) => c = d
    /\ \A c \in Calls : fetch[c].of = n => GotSoFar(c, n)
    /\ (\A c \in Calls : ~ For(c, n)) => ~ Usable(n) \/ Sound(There(n))

ImageInv == /\ ImageTypes
            /\ \A n \in Distributions : FileOwned(n) /\ (n \notin spoiled => Clean(n))
            /\ \A c \in Calls : StreamOwned(c)

LEMMA AbsentIsNoCall == Absent \notin Calls
  BY DistroAssumption DEF Absent, Calls

LEMMA ThereTypes ==
    ASSUME ImageTypes, NEW n \in Distributions
    PROVE  There(n) \in Content /\ (file[n] = Absent => ~ Usable(n))
  BY AbsentIsNoCall DEF ImageTypes, FileTypes, There, In, NoBytes, Content, Usable

\* What a step of call c for distribution n leaves alone.
Touches(c, n) ==
    /\ \A d \in Calls \ {c} : fetch'[d] = fetch[d]
    /\ ~ Stage(c, "new") => fetch[c].of = n
    /\ fetch'[c].of = n /\ fetch'[c].at # "new"
    /\ \A m \in Distributions \ {n} : file'[m] = file[m]
    /\ \A f \in Calls : data'[f] # data[f] => fetch[f].of = n /\ fetch[f].at # "new"
    /\ spoiled \subseteq spoiled' /\ spoiled' \subseteq spoiled \cup {n}

\* The files of other distributions, and the calls for them, stay as they are.
LEMMA OthersKeepImages ==
    ASSUME ImageInv, ImageTypes', NEW c \in Calls, NEW n \in Wanted, Touches(c, n),
           NEW m \in Distributions, m # n
    PROVE  FileOwned(m)' /\ (m \notin spoiled' => Clean(m)')
  <1>1. FileOwned(m)'
    BY DEF ImageInv, ImageTypes, FileTypes, FileOwned, Touches, Stage
  <1>2. file'[m] = file[m] /\ There(m)' = There(m)
    BY DEF ImageInv, ImageTypes, FileTypes, FileOwned, Touches, Stage, There, In
  <1>3. ASSUME NEW d \in Calls
        PROVE  /\ For(d, m)' <=> For(d, m)
               /\ fetch'[d].of = m => d # c /\ fetch'[d] = fetch[d]
    BY DEF For, UnderWay, Touches, Stage
  <1>4. ASSUME m \notin spoiled' PROVE Clean(m)'
    <2>1. Clean(m)
      BY <1>4 DEF ImageInv, Touches
    <2>2. ASSUME NEW d \in Calls, fetch'[d].of = m
          PROVE  GotSoFar(d, m)'
      <3>1. GotSoFar(d, m) /\ fetch'[d] = fetch[d]
        BY <1>3, <2>1, <2>2 DEF Clean
      <3>2. ASSUME Stage(d, "stream") PROVE data'[file[m]] = data[file[m]]
        <4>1. file[m] \in Calls
          BY <3>1, <3>2 DEF GotSoFar, ImageInv, StreamOwned
        <4> QED BY <4>1, AbsentIsNoCall DEF ImageInv, FileOwned, Touches
      <3> QED BY <1>2, <3>1, <3>2 DEF GotSoFar, Stage, Usable
    <2> QED BY <1>2, <1>3, <2>1, <2>2 DEF Clean, Usable
  <1> QED BY <1>1, <1>4

LEMMA StepKeepsImages ==
    ASSUME ImageInv, ImageTypes', NEW c \in Calls, NEW n \in Wanted, Touches(c, n),
           FileOwned(n)', StreamOwned(c)',
           n \notin spoiled' =>
               /\ GotSoFar(c, n)' /\ \A d \in Calls \ {c} : ~ For(d, n)
               /\ ~ UnderWay(c)' => ~ Usable(n)' \/ Sound(There(n)')
    PROVE  ImageInv'
  <1>1. n \in Distributions
    BY DistroAssumption
  <1>2. ASSUME NEW d \in Calls \ {c} PROVE StreamOwned(d)'
    BY DEF ImageInv, StreamOwned, Touches, Stage
  <1>3. ASSUME n \notin spoiled' PROVE Clean(n)'
    <2>1. Clean(n)
      BY <1>1, <1>3 DEF ImageInv, Touches
    <2>2. ASSUME NEW d \in Calls \ {c}
          PROVE  ~ For(d, n)' /\ (fetch'[d].of = n => GotSoFar(d, n)')
      <3>1. ~ For(d, n) /\ fetch'[d] = fetch[d]
        BY <1>3 DEF Touches
      <3>2. fetch[d].of = n => GotSoFar(d, n) /\ ~ UnderWay(d)
        BY <2>1, <3>1 DEF Clean, For
      <3> QED BY <3>1, <3>2 DEF For, UnderWay, GotSoFar, Stage
    <2>3. fetch'[c].of = n
      BY DEF Touches
    <2> QED BY <1>3, <2>2, <2>3 DEF Clean, For
  <1> QED BY <1>2, <1>3, OthersKeepImages DEF ImageInv

LEMMA Alone ==
    ASSUME ImageInv, NEW c \in Calls, NEW n \in Wanted, fetch[c].of = n, UnderWay(c),
           n \notin spoiled
    PROVE  GotSoFar(c, n) /\ \A d \in Calls \ {c} : ~ For(d, n)
  BY DistroAssumption DEF ImageInv, Clean, For

LEMMA FetchTypes ==
    /\ NoBytes \in Content /\ Unasked \in Fetch
    /\ \A c \in Calls, n \in Distributions : ImageTypes => In(data, file[n]) \in Content
  BY AbsentIsNoCall DEF NoBytes, Content, Unasked, Fetch, ImageTypes, FileTypes, In

\* A call that begins to stream.
LEMMA StreamTypes ==
    ASSUME fetch \in [Calls -> Fetch], NEW c \in Calls, NEW into \in Calls,
           fetch' = [fetch EXCEPT ![c].at = "stream", ![c].into = into]
    PROVE  fetch' \in [Calls -> Fetch] /\ \A d \in Calls : fetch'[d].of = fetch[d].of
  BY DEF Fetch

\* How a call ends, and what that leaves alone.
LEMMA EndTypes ==
    ASSUME ImageTypes, NEW c \in Calls, NEW n \in Wanted, fetch[c].of = n, ~ Stage(c, "new"),
           NEW what \in {"returned", "failed"}, NEW got \in Content,
           fetch' = [fetch EXCEPT ![c] = Ended(c, what, got)]
    PROVE  /\ fetch' \in [Calls -> Fetch]
           /\ \A d \in Calls : fetch'[d].at # "new" => fetch'[d].of \in Wanted
           /\ fetch'[c].at = what /\ fetch'[c].of = n /\ fetch'[c].got = got
           /\ \A d \in Calls \ {c} : fetch'[d] = fetch[d]
  <1>1. Ended(c, what, got) \in Fetch
    BY FetchTypes DEF Ended, Unasked, Fetch, ImageTypes, Stage
  <1>2. /\ Ended(c, what, got).at = what /\ Ended(c, what, got).of = n
        /\ Ended(c, what, got).got = got
    BY DEF Ended, Unasked
  <1> QED BY <1>1, <1>2 DEF ImageTypes, Stage

LEMMA AskKeepsImages ==
    ASSUME StoreTypes, ImageInv, NEW c \in Calls, NEW n \in Wanted, Ask(c, n)
    PROVE  ImageInv' /\ Counts /\ UNCHANGED <<stores, checks>>
  <1> DEFINE call == IF Usable(n) THEN [Unasked EXCEPT !.at = "returned", !.of = n, !.got = There(n)]
                     ELSE [Unasked EXCEPT !.at = "connect", !.of = n,
                                          !.digest = Source(inUse, n).digest]
  <1>0. /\ n \in Distributions /\ Stage(c, "new") /\ UNCHANGED <<stores, checks, file, data>>
        /\ fetch' = [fetch EXCEPT ![c] = call] /\ Counts
        /\ spoiled' = IF \E d \in Calls : For(d, n) THEN spoiled \cup {n} ELSE spoiled
    BY DistroAssumption DEF Ask, For
  <1>1. call \in Fetch /\ call.of = n /\ call.at \in {"returned", "connect"}
    <2>1. There(n) \in Content /\ Source(inUse, n).digest \in BOOLEAN
      BY <1>0, ThereTypes, SourceTypes DEF ImageInv, StoreTypes
    <2> QED BY <2>1, FetchTypes DEF Unasked, Fetch
  <1> HIDE DEF call
  <1>2. /\ ImageTypes' /\ fetch'[c] = call
        /\ \A d \in Calls \ {c} : fetch'[d] = fetch[d]
    BY <1>0, <1>1 DEF ImageInv, ImageTypes, FileTypes, Stage
  <1>3. Touches(c, n)
    BY <1>0, <1>1, <1>2 DEF Touches, Stage
  <1>4. FileOwned(n)' /\ StreamOwned(c)'
    BY <1>0, <1>1, <1>2 DEF ImageInv, ImageTypes, FileTypes, FileOwned, StreamOwned, Stage
  <1>5. ASSUME n \notin spoiled'
        PROVE  /\ GotSoFar(c, n)' /\ \A d \in Calls \ {c} : ~ For(d, n)
               /\ ~ UnderWay(c)' => ~ Usable(n)' \/ Sound(There(n)')
    <2>1. There(n)' = There(n) /\ \A d \in Calls : ~ For(d, n)
      BY <1>0, <1>5 DEF There, In
    <2>2. ~ Usable(n) \/ Sound(There(n))
      BY <1>0, <1>5, <2>1 DEF ImageInv, Clean
    <2>3. IF Usable(n) THEN call.at = "returned" /\ call.got = There(n) ELSE call.at = "connect"
      BY DEF Unasked, call
    <2> QED BY <1>2, <2>1, <2>2, <2>3 DEF GotSoFar, Stage, UnderWay, Usable
  <1> QED BY <1>0, <1>2, <1>3, <1>4, <1>5, StepKeepsImages

LEMMA OpenKeepsImages ==
    ASSUME ImageInv, NEW c \in Calls, NEW n \in Wanted, fetch[c].of = n, Open(c)
    PROVE  ImageInv'
  <1> DEFINE into == IF file[n] = Absent THEN c ELSE file[n]
             made == [what |-> "empty", digest |-> fetch[c].digest, good |-> FALSE,
                      shared |-> \E d \in Calls : Stage(d, "stream") /\ fetch[d].into = into]
  <1>0. /\ n \in Distributions /\ Stage(c, "connect") /\ into \in Calls
        /\ file' = [file EXCEPT ![n] = into] /\ data' = [data EXCEPT ![into] = made]
        /\ fetch' = [fetch EXCEPT ![c].at = "stream", ![c].into = into] /\ UNCHANGED spoiled
    BY DistroAssumption DEF Open, ImageInv, ImageTypes, FileTypes
  <1>1. made \in Content /\ made.what = "empty"
    BY DEF Content, ImageInv, ImageTypes, Fetch
  <1>2. /\ fetch'[c].at = "stream" /\ fetch'[c].into = into /\ fetch'[c].of = n
        /\ file'[n] = into /\ data'[into] = made
        /\ \A d \in Calls \ {c} : fetch'[d] = fetch[d]
    BY <1>0 DEF ImageInv, ImageTypes, FileTypes, Fetch
  <1>3. fetch[into].of = n /\ fetch[into].at # "new"
    BY <1>0 DEF ImageInv, FileOwned, Stage
  <1> HIDE DEF into, made
  <1>4. ImageTypes'
    <2>1. /\ fetch' \in [Calls -> Fetch]
          /\ \A d \in Calls : fetch'[d].of = fetch[d].of
      BY <1>0, StreamTypes DEF ImageInv, ImageTypes
    <2>2. \A d \in Calls : Stage(d, "new")' <=> Stage(d, "new")
      BY <1>0, <1>2 DEF Stage
    <2>3. file' \in [Distributions -> {Absent} \cup Calls] /\ data' \in [Calls -> Content]
      BY <1>0, <1>1 DEF ImageInv, ImageTypes, FileTypes
    <2> QED BY <1>0, <2>1, <2>2, <2>3 DEF ImageInv, ImageTypes, FileTypes
  <1>5. Touches(c, n)
    BY <1>0, <1>2, <1>3 DEF Touches, ImageInv, ImageTypes, FileTypes, Stage
  <1>6. FileOwned(n)' /\ StreamOwned(c)'
    BY <1>0, <1>2, <1>3 DEF FileOwned, StreamOwned, Stage
  <1>7. ASSUME n \notin spoiled
        PROVE  GotSoFar(c, n)' /\ \A d \in Calls \ {c} : ~ For(d, n)
    <2>1. \A d \in Calls \ {c} : ~ For(d, n)
      BY <1>0, <1>7, Alone DEF UnderWay, Stage
    <2>2. ~ made.shared
      <3> SUFFICES ASSUME NEW d \in Calls, Stage(d, "stream"), fetch[d].into = into
                   PROVE  FALSE
        BY DEF made
      <3>1. fetch[d].of = n
        BY <1>3 DEF ImageInv, StreamOwned
      <3> QED BY <1>0, <2>1, <3>1 DEF For, UnderWay, Stage
    <2> QED BY <1>1, <1>2, <2>1, <2>2 DEF GotSoFar, Stage
  <1> QED BY <1>0, <1>2, <1>4, <1>5, <1>6, <1>7, StepKeepsImages DEF UnderWay

\* A stream goes into its call's file, which nobody else fills.
LEMMA StreamGoesOn ==
    ASSUME ImageInv, NEW c \in Calls, NEW n \in Wanted, fetch[c].of = n, Stage(c, "stream"),
           UNCHANGED spoiled
    PROVE  /\ fetch[c].into \in Calls /\ n \in Distributions
           /\ fetch[fetch[c].into].at # "new" /\ fetch[fetch[c].into].of = n
           /\ n \notin spoiled' => /\ GotSoFar(c, n) /\ file[n] = fetch[c].into
                                   /\ \A d \in Calls \ {c} : ~ For(d, n)
  <1>1. n \notin spoiled' => GotSoFar(c, n) /\ \A d \in Calls \ {c} : ~ For(d, n)
    BY Alone DEF UnderWay, Stage
  <1> QED BY <1>1, DistroAssumption DEF ImageInv, StreamOwned, GotSoFar

LEMMA BytesKeepImages ==
    ASSUME ImageInv, NEW c \in Calls, NEW n \in Wanted, fetch[c].of = n, Bytes(c)
    PROVE  ImageInv'
  <1>1. Stage(c, "stream") /\ UNCHANGED <<file, fetch, spoiled>>
    BY DEF Bytes
  <1>2. PICK into \in Calls :
            /\ fetch[c].into = into /\ n \in Distributions
            /\ fetch[into].at # "new" /\ fetch[into].of = n
            /\ n \notin spoiled' => /\ GotSoFar(c, n) /\ file[n] = into
                                    /\ \A d \in Calls \ {c} : ~ For(d, n)
    BY <1>1, StreamGoesOn
  <1>3. /\ ImageTypes'
        /\ data' = [data EXCEPT ![into].what = "part"] /\ data'[into].what = "part"
        /\ data'[into].shared = data[into].shared
    BY <1>1, <1>2 DEF Bytes, ImageInv, ImageTypes, FileTypes, Content, Stage
  <1>4. Touches(c, n)
    BY <1>1, <1>2, <1>3 DEF Touches, Stage, ImageInv, ImageTypes
  <1>5. FileOwned(n)' /\ StreamOwned(c)'
    BY <1>1, <1>2 DEF ImageInv, FileOwned, StreamOwned, Stage
  <1>6. n \notin spoiled' => GotSoFar(c, n)'
    BY <1>1, <1>2, <1>3 DEF GotSoFar, Stage
  <1>7. UnderWay(c)'
    BY <1>1 DEF UnderWay, Stage
  <1> QED BY <1>2, <1>3, <1>4, <1>5, <1>6, <1>7, StepKeepsImages

LEMMA EndsKeepsImages ==
    ASSUME ImageInv, NEW c \in Calls, NEW n \in Wanted, fetch[c].of = n, Ends(c)
    PROVE  ImageInv'
  <1>1. Stage(c, "stream") /\ UNCHANGED <<file, spoiled>>
    BY DEF Ends
  <1>2. PICK into \in Calls :
            /\ fetch[c].into = into /\ n \in Distributions
            /\ fetch[into].at # "new" /\ fetch[into].of = n
            /\ n \notin spoiled' => /\ GotSoFar(c, n) /\ file[n] = into
                                    /\ \A d \in Calls \ {c} : ~ For(d, n)
    BY <1>1, StreamGoesOn
  <1>3. PICK what \in {"part", "whole"}, good \in BOOLEAN :
            /\ what = "whole" \/ data[into].shared
            /\ data' = [data EXCEPT ![into] = [@ EXCEPT !.what = what, !.digest = fetch[c].digest,
                                                        !.good = good]]
    BY <1>2 DEF Ends
  <1>4. /\ data' \in [Calls -> Content] /\ data'[into].what = what
        /\ data'[into].digest = fetch[c].digest
        /\ \A f \in Calls \ {into} : data'[f] = data[f]
    <2> DEFINE made == [data[into] EXCEPT !.what = what, !.digest = fetch[c].digest,
                                          !.good = good]
    <2>1. /\ made \in Content /\ made.what = what /\ made.digest = fetch[c].digest
      <3>1. data[into] \in Content /\ fetch[c].digest \in BOOLEAN
        BY DEF ImageInv, ImageTypes, Fetch
      <3>2. PICK old \in Content, d \in BOOLEAN : old = data[into] /\ d = fetch[c].digest
        BY <3>1, Zenon
      <3>3. made = [old EXCEPT !.what = what, !.digest = d, !.good = good]
        BY <3>2
      <3> HIDE DEF made
      <3>4. made \in Content
        BY <3>3 DEF Content
      <3>5. made.what = what
        BY <3>3 DEF Content
      <3>6. made.digest = d
        BY <3>3 DEF Content
      <3> QED BY <3>2, <3>4, <3>5, <3>6, Zenon
    <2> HIDE DEF made
    <2>2. data' = [data EXCEPT ![into] = made]
      BY <1>3 DEF made
    <2>3. /\ data' \in [Calls -> Content] /\ data'[into] = made
          /\ \A f \in Calls \ {into} : data'[f] = data[f]
      BY <2>1, <2>2 DEF ImageInv, ImageTypes
    <2> QED BY <2>1, <2>3, Zenon
  <1>5. There(n)' \in Content /\ (n \notin spoiled => There(n)' = data'[into] /\ what = "whole")
    <2>1. There(n)' = In(data', file'[n])
      BY DEF There
    <2>2. file'[n] = Absent => There(n)' = NoBytes
      BY <2>1 DEF In
    <2>3. file'[n] # Absent => file'[n] \in Calls /\ There(n)' = data'[file'[n]]
      BY <1>1, <1>2, <2>1 DEF In, ImageInv, ImageTypes, FileTypes
    <2>4. n \notin spoiled => file[n] = into /\ ~ data[into].shared
      BY <1>1, <1>2 DEF GotSoFar
    <2> QED BY <1>1, <1>3, <1>4, <2>2, <2>3, <2>4, FetchTypes, AbsentIsNoCall
  <1>6. CASE fetch[c].digest
    <2>1. fetch' = [fetch EXCEPT ![c].at = "verify"]
      BY <1>6 DEF Ends, Goes
    <2>2. /\ fetch' \in [Calls -> Fetch] /\ fetch'[c].at = "verify" /\ fetch'[c].of = n
          /\ \A d \in Calls \ {c} : fetch'[d] = fetch[d]
          /\ \A d \in Calls : fetch'[d].of = fetch[d].of /\ (Stage(d, "new")' <=> Stage(d, "new"))
      BY <1>1, <2>1 DEF ImageInv, ImageTypes, Fetch, Stage
    <2>3. ImageTypes'
      BY <1>1, <1>4, <2>2 DEF ImageInv, ImageTypes, FileTypes
    <2>4. Touches(c, n)
      BY <1>1, <1>2, <1>4, <2>2 DEF Touches, Stage
    <2>5. FileOwned(n)' /\ StreamOwned(c)'
      BY <1>1, <1>2, <2>2 DEF ImageInv, FileOwned, StreamOwned, Stage, ImageTypes, FileTypes
    <2>6. n \notin spoiled' => GotSoFar(c, n)'
      BY <1>1, <1>4, <1>5, <2>2 DEF GotSoFar, Stage
    <2>7. UnderWay(c)'
      BY <2>2 DEF UnderWay, Stage
    <2> QED BY <1>2, <2>3, <2>4, <2>5, <2>6, <2>7, StepKeepsImages
  <1>7. CASE ~ fetch[c].digest
    <2>1. fetch' = [fetch EXCEPT ![c] = Ended(c, "returned", There(n)')]
      BY <1>7 DEF Ends, Returns, There
    <2>2. /\ fetch' \in [Calls -> Fetch]
          /\ \A d \in Calls : fetch'[d].at # "new" => fetch'[d].of \in Wanted
          /\ fetch'[c].at = "returned" /\ fetch'[c].of = n /\ fetch'[c].got = There(n)'
          /\ \A d \in Calls \ {c} : fetch'[d] = fetch[d]
      BY <1>1, <1>5, <2>1, EndTypes DEF ImageInv, Stage
    <2>3. ImageTypes'
      BY <1>1, <1>4, <2>2 DEF ImageInv, ImageTypes, FileTypes, Stage
    <2>4. Touches(c, n)
      BY <1>1, <1>2, <1>4, <2>2 DEF Touches, Stage
    <2>5. FileOwned(n)' /\ StreamOwned(c)'
      BY <1>1, <1>2, <2>2 DEF ImageInv, FileOwned, StreamOwned, Stage, ImageTypes, FileTypes
    <2>6. n \notin spoiled' => GotSoFar(c, n)' /\ Sound(There(n)')
      BY <1>1, <1>4, <1>5, <1>7, <2>2 DEF GotSoFar, Stage, Sound
    <2> QED BY <1>2, <2>3, <2>4, <2>5, <2>6, StepKeepsImages
  <1> QED BY <1>6, <1>7

LEMMA VerifyKeepsImages ==
    ASSUME ImageInv, NEW c \in Calls, NEW n \in Wanted, fetch[c].of = n, Verify(c)
    PROVE  ImageInv'
  <1>1. /\ Stage(c, "verify") /\ n \in Distributions /\ UNCHANGED <<data, spoiled>>
        /\ ~ Stage(c, "new")
    BY DistroAssumption DEF Verify, Stage
  <1>2. n \notin spoiled => There(n).what = "whole" /\ \A d \in Calls \ {c} : ~ For(d, n)
    <2>1. UnderWay(c)
      BY <1>1 DEF UnderWay, Stage
    <2>2. n \notin spoiled => GotSoFar(c, n) /\ \A d \in Calls \ {c} : ~ For(d, n)
      BY <2>1, Alone
    <2> QED BY <1>1, <2>2 DEF GotSoFar
  <1>3. CASE There(n).what = "whole" /\ There(n).good
    <2>1. /\ UNCHANGED file /\ There(n)' = There(n) /\ There(n) \in Content
          /\ fetch' = [fetch EXCEPT ![c] = Ended(c, "returned", There(n))]
      BY <1>1, <1>3, ThereTypes DEF Verify, Returns, There, In, ImageInv
    <2>2. /\ fetch' \in [Calls -> Fetch]
          /\ \A d \in Calls : fetch'[d].at # "new" => fetch'[d].of \in Wanted
          /\ fetch'[c].at = "returned" /\ fetch'[c].of = n /\ fetch'[c].got = There(n)
          /\ \A d \in Calls \ {c} : fetch'[d] = fetch[d]
      BY <1>1, <2>1, EndTypes DEF ImageInv
    <2>3. ImageTypes'
      BY <1>1, <2>1, <2>2 DEF ImageInv, ImageTypes, FileTypes, Stage
    <2>4. Touches(c, n)
      BY <1>1, <2>1, <2>2 DEF Touches, Stage
    <2>5. FileOwned(n)' /\ StreamOwned(c)'
      BY <1>1, <2>1, <2>2 DEF ImageInv, FileOwned, StreamOwned, Stage, ImageTypes, FileTypes
    <2>6. GotSoFar(c, n)' /\ Sound(There(n)')
      BY <1>3, <2>1, <2>2 DEF GotSoFar, Stage, Sound
    <2> QED BY <1>1, <1>2, <2>3, <2>4, <2>5, <2>6, StepKeepsImages
  <1>4. CASE ~ (There(n).what = "whole" /\ There(n).good)
    <2>1. /\ file' = [file EXCEPT ![n] = Absent]
          /\ fetch' = [fetch EXCEPT ![c] = Ended(c, "failed", NoBytes)]
      BY <1>1, <1>4 DEF Verify, Fails, Deleted
    <2>2. /\ fetch' \in [Calls -> Fetch]
          /\ \A d \in Calls : fetch'[d].at # "new" => fetch'[d].of \in Wanted
          /\ fetch'[c].at = "failed" /\ fetch'[c].of = n
          /\ \A d \in Calls \ {c} : fetch'[d] = fetch[d]
      BY <1>1, <2>1, EndTypes, FetchTypes DEF ImageInv
    <2>3. ImageTypes'
      BY <1>1, <2>1, <2>2 DEF ImageInv, ImageTypes, FileTypes, Stage
    <2>4. Touches(c, n) /\ file'[n] = Absent
      BY <1>1, <2>1, <2>2 DEF Touches, Stage, ImageInv, ImageTypes, FileTypes
    <2>5. FileOwned(n)' /\ StreamOwned(c)'
      BY <2>2, <2>4 DEF FileOwned, StreamOwned, Stage
    <2>6. GotSoFar(c, n)' /\ ~ Usable(n)'
      BY <2>2, <2>4 DEF GotSoFar, Stage, Usable, There, In, NoBytes
    <2> QED BY <1>1, <1>2, <2>3, <2>4, <2>5, <2>6, StepKeepsImages
  <1> QED BY <1>3, <1>4

\* A call that leaves no bytes behind leaves no image.
LEMMA LeavesNothing ==
    ASSUME ImageInv, NEW c \in Calls, NEW n \in Wanted, fetch[c].of = n, UnderWay(c),
           n \notin spoiled, ~ Leaves(c)
    PROVE  ~ Usable(n)
  <1>1. GotSoFar(c, n)
    BY Alone
  <1>2. CASE Stage(c, "connect")
    BY <1>1, <1>2 DEF GotSoFar
  <1>3. CASE Stage(c, "stream")
    <2>1. file[n] = fetch[c].into /\ data[file[n]].what = "empty"
      BY <1>1, <1>3 DEF GotSoFar, Leaves
    <2> QED BY <2>1 DEF Usable, There, In, NoBytes
  <1> QED BY <1>2, <1>3 DEF UnderWay, Leaves, Stage

LEMMA CutKeepsImages ==
    ASSUME ImageInv, NEW c \in Calls, NEW n \in Wanted, fetch[c].of = n, Cut(c)
    PROVE  ImageInv'
  <1>1. /\ UnderWay(c) /\ n \in Distributions /\ UNCHANGED <<file, data>> /\ ~ Stage(c, "new")
        /\ fetch' = [fetch EXCEPT ![c] = Ended(c, "failed", NoBytes)]
        /\ spoiled' = IF Leaves(c) THEN spoiled \cup {n} ELSE spoiled
    BY DistroAssumption DEF Cut, UnderWay, Stage, Fails
  <1>2. /\ fetch' \in [Calls -> Fetch]
        /\ \A d \in Calls : fetch'[d].at # "new" => fetch'[d].of \in Wanted
        /\ fetch'[c].at = "failed" /\ fetch'[c].of = n
        /\ \A d \in Calls \ {c} : fetch'[d] = fetch[d]
    BY <1>1, EndTypes, FetchTypes DEF ImageInv
  <1>3. ImageTypes'
    BY <1>1, <1>2 DEF ImageInv, ImageTypes, FileTypes, Stage
  <1>4. Touches(c, n)
    BY <1>1, <1>2 DEF Touches, Stage
  <1>5. FileOwned(n)' /\ StreamOwned(c)'
    BY <1>1, <1>2 DEF ImageInv, FileOwned, StreamOwned, Stage, ImageTypes, FileTypes
  <1>6. ASSUME n \notin spoiled'
        PROVE  GotSoFar(c, n)' /\ ~ Usable(n)' /\ \A d \in Calls \ {c} : ~ For(d, n)
    <2>1. n \notin spoiled /\ ~ Leaves(c)
      BY <1>1, <1>6
    <2>2. GotSoFar(c, n) /\ \A d \in Calls \ {c} : ~ For(d, n)
      BY <1>1, <2>1, Alone
    <2>3. ~ Usable(n)
      BY <1>1, <2>1, LeavesNothing
    <2>4. Usable(n)' <=> Usable(n)
      BY <1>1 DEF Usable, There, In
    <2> QED BY <1>2, <2>2, <2>3, <2>4 DEF GotSoFar, Stage
  <1> QED BY <1>3, <1>4, <1>5, <1>6, StepKeepsImages

LEMMA RestartKeepsImages ==
    ASSUME ImageInv, Restart
    PROVE  ImageInv'
  <1>1. /\ UNCHANGED <<file, data>>
        /\ fetch' = [c \in Calls |-> IF UnderWay(c) THEN Ended(c, "failed", NoBytes) ELSE fetch[c]]
        /\ spoiled' = spoiled \cup {fetch[c].of : c \in {c \in Calls : Leaves(c)}}
    BY DEF Restart
  <1>2. ASSUME NEW c \in Calls, UnderWay(c)
        PROVE  /\ Ended(c, "failed", NoBytes) \in Fetch
               /\ Ended(c, "failed", NoBytes).at = "failed"
               /\ Ended(c, "failed", NoBytes).of = fetch[c].of
    BY FetchTypes DEF Ended, Unasked, Fetch, ImageInv, ImageTypes
  <1>3. ASSUME NEW c \in Calls
        PROVE  /\ fetch'[c] \in Fetch /\ fetch'[c].of = fetch[c].of
               /\ fetch'[c].at \in {"new", "returned", "failed"}
               /\ fetch'[c].at = "new" <=> fetch[c].at = "new"
               /\ fetch'[c].at = "returned" => fetch'[c] = fetch[c]
    <2>1. CASE UnderWay(c)
      BY <1>1, <1>2, <2>1 DEF UnderWay
    <2>2. CASE ~ UnderWay(c)
      BY <1>1, <2>2 DEF UnderWay, Fetch, ImageInv, ImageTypes
    <2> QED BY <2>1, <2>2
  <1>4. \A c \in Calls : Leaves(c) => fetch[c].of \in spoiled' /\ fetch[c].of \in Wanted
    BY <1>1 DEF Leaves, ImageInv, ImageTypes, Stage
  <1>5. ImageTypes'
    <2>1. spoiled' \subseteq Distributions
      BY <1>1, <1>4, DistroAssumption DEF ImageInv, ImageTypes, FileTypes
    <2>2. fetch' \in [Calls -> Fetch]
      BY <1>1, <1>3
    <2> QED BY <1>1, <1>3, <2>1, <2>2 DEF ImageInv, ImageTypes, FileTypes, Stage
  <1>6. \A c \in Calls : StreamOwned(c)' /\ ~ UnderWay(c)'
    BY <1>3 DEF StreamOwned, UnderWay, Stage
  <1>7. ASSUME NEW n \in Distributions PROVE FileOwned(n)'
    BY <1>1, <1>3 DEF ImageInv, ImageTypes, FileTypes, FileOwned
  <1>8. ASSUME NEW n \in Distributions, n \notin spoiled' PROVE Clean(n)'
    <2>1. Clean(n) /\ n \notin spoiled
      BY <1>1, <1>8 DEF ImageInv
    <2>2. ~ Usable(n) \/ Sound(There(n))
      <3>1. ASSUME NEW c \in Calls, For(c, n) PROVE ~ Usable(n)
        <4>1. ~ Leaves(c) /\ n \in Wanted
          BY <1>4, <1>8, <3>1 DEF For, UnderWay, ImageInv, ImageTypes, Stage
        <4> QED BY <2>1, <3>1, <4>1, LeavesNothing DEF For
      <3> QED BY <2>1, <3>1 DEF Clean
    <2>3. There(n)' = There(n) /\ (Usable(n)' <=> Usable(n))
      BY <1>1 DEF There, In, Usable
    <2>4. ASSUME NEW c \in Calls, fetch'[c].of = n PROVE GotSoFar(c, n)'
      <3>1. GotSoFar(c, n)
        BY <1>3, <2>1, <2>4 DEF Clean
      <3> QED BY <1>3, <3>1 DEF GotSoFar, Stage
    <2> QED BY <1>6, <2>2, <2>3, <2>4 DEF Clean, For
  <1> QED BY <1>5, <1>6, <1>7, <1>8 DEF ImageInv

----------------------------------------------------------------------------
(* The theorems.                                                           *)

DistroInv == StoreTypes /\ CheckTypes /\ BoundTypes /\ Following /\ ImageInv

LEMMA InitDistro == DistroInit => DistroInv
  <1> SUFFICES ASSUME DistroInit PROVE DistroInv
    OBVIOUS
  <1>1. StoreTypes /\ CheckTypes /\ BoundTypes /\ Following
    BY NoRequestType, DistroAssumption
    DEF DistroInit, StoreTypes, CheckTypes, BoundTypes, Following, NoSweep, Sources
  <1>2. ImageTypes
    BY FetchTypes DEF DistroInit, ImageTypes, FileTypes, Stage, Unasked
  <1>3. \A c \in Calls : fetch[c].at = "new"
    BY DEF DistroInit, Unasked
  <1>4. ASSUME NEW n \in Distributions PROVE FileOwned(n) /\ Clean(n)
    BY <1>3 DEF DistroInit, FileOwned, Clean, For, UnderWay, GotSoFar, Stage, Usable, There, In,
                NoBytes
  <1>5. \A c \in Calls : StreamOwned(c)
    BY <1>3 DEF StreamOwned, Stage
  <1> QED BY <1>1, <1>2, <1>4, <1>5 DEF DistroInv, ImageInv

LEMMA CallKeepsImages ==
    ASSUME ImageInv, NEW c \in Calls,
           Open(c) \/ Bytes(c) \/ Ends(c) \/ Verify(c) \/ Cut(c)
    PROVE  ImageInv' /\ UNCHANGED <<stores, checks>> /\ (Fault \/ UNCHANGED bounds)
  <1>1. PICK n \in Wanted : fetch[c].of = n
    BY DEF ImageInv, ImageTypes, Open, Bytes, Ends, Verify, Cut, Stage
  <1>2. ImageInv'
    BY <1>1, OpenKeepsImages, BytesKeepImages, EndsKeepsImages, VerifyKeepsImages, CutKeepsImages
  <1>3. UNCHANGED <<stores, checks>> /\ (Fault \/ UNCHANGED bounds)
    BY DEF Open, Bytes, Ends, Verify, Cut, bounds
  <1> QED BY <1>2, <1>3

LEMMA ImagesStay ==
    ASSUME ImageInv, UNCHANGED images
    PROVE  ImageInv'
  BY DEF images, ImageInv, ImageTypes, FileTypes, FileOwned, StreamOwned, Clean, For, UnderWay,
         GotSoFar, Usable, There, In, Stage

LEMMA SourcesStay ==
    ASSUME StoreTypes, CheckTypes, UNCHANGED <<stores, checks>>
    PROVE  StoreTypes' /\ CheckTypes'
  BY DEF stores, checks, StoreTypes, CheckTypes

LEMMA StepDistro == DistroInv /\ [DistroNext]_distroVars => DistroInv'
  <1> SUFFICES ASSUME DistroInv, [DistroNext]_distroVars PROVE DistroInv'
    OBVIOUS
  <1> USE DEF DistroInv
  <1>1. ASSUME NEW r \in Requests, RequestStep(r) PROVE DistroInv'
    <2>1. StoreTypes' /\ (Counts \/ Fault) /\ UNCHANGED <<checks, images>>
      BY <1>1, RequestTypes
    <2> QED BY <1>1, <2>1, RequestFollows, ImagesStay, BoundSteps DEF checks, CheckTypes
  <1>2. ASSUME NEW r \in Requests, HandlerGoesOn(r) PROVE DistroInv'
    <2>1. StoreTypes' /\ CheckTypes' /\ UNCHANGED <<images, bounds>>
      BY <1>2, GoesOnTypes
    <2> QED BY <1>2, <2>1, GoesOnFollows, ImagesStay, BoundSteps
  <1>3. CASE Sweeps \/ SweepFails
    <2>1. CheckTypes' /\ UNCHANGED <<stores, images>> /\ (Fault \/ UNCHANGED bounds)
      BY <1>3, SweepTypes
    <2> QED BY <2>1, OthersFollow, ImagesStay, BoundSteps DEF stores, StoreTypes
  <1>4. ASSUME NEW c \in Calls, NEW n \in Wanted, Ask(c, n) PROVE DistroInv'
    BY <1>4, AskKeepsImages, SourcesStay, OthersFollow, BoundSteps
  <1>5. ASSUME NEW c \in Calls, Open(c) \/ Bytes(c) \/ Ends(c) \/ Verify(c) \/ Cut(c)
        PROVE  DistroInv'
    <2>1. ImageInv' /\ UNCHANGED <<stores, checks>> /\ (Fault \/ UNCHANGED bounds)
      BY <1>5, CallKeepsImages
    <2> QED BY <2>1, SourcesStay, OthersFollow, BoundSteps
  <1>6. CASE Restart
    BY <1>6, RestartTypes, RestartKeepsImages, OthersFollow, BoundSteps
  <1>7. CASE UNCHANGED distroVars
    BY <1>7, SourcesStay, OthersFollow, ImagesStay, BoundSteps DEF distroVars
  <1> QED BY <1>1, <1>2, <1>3, <1>4, <1>5, <1>6, <1>7 DEF DistroNext

LEMMA DistroHolds == DistroSpec => []DistroInv
  BY InitDistro, StepDistro, PTL DEF DistroSpec

\* The stores, the handlers, the results and the images keep their types.
THEOREM DistroTypes == DistroSpec => []DistroTypeOK
  <1>1. DistroInv => DistroTypeOK
    BY DistroTypeParts DEF DistroInv, ImageInv, ImageTypes
  <1> QED BY <1>1, DistroHolds, PTL

\* Once no handler is at work the image manager has the sources of a store,
\* unless its last write failed.
THEOREM SourcesAreFollowed == DistroSpec => []SourcesFollow
  <1>1. DistroInv => SourcesFollow
    BY NoRequestType DEF DistroInv, Following, SourcesFollow
  <1> QED BY <1>1, DistroHolds, PTL

\* An image that ensureImage() returns is whole and verified, unless calls for
\* its distribution overlapped or one was cut off.
THEOREM ImagesStayWhole == DistroSpec => []ImagesAreWhole
  <1>1. DistroInv => ImagesAreWhole
    <2> SUFFICES ASSUME DistroInv, NEW c \in Calls, Stage(c, "returned"),
                        fetch[c].of \notin spoiled
                 PROVE  Sound(fetch[c].got)
      BY DEF ImagesAreWhole, Sound
    <2>1. PICK n \in Distributions : fetch[c].of = n
      BY DistroAssumption DEF DistroInv, ImageInv, ImageTypes, Stage
    <2> QED BY <2>1 DEF DistroInv, ImageInv, Clean, GotSoFar
  <1> QED BY <1>1, DistroHolds, PTL

=============================================================================
