--------------------------- MODULE LiveViewProofs ---------------------------
(* Proofs about LiveView: types, the one connection of the page, and the   *)
(* workloads it deleted.                                                    *)
EXTENDS LiveView, TLAPS

\* One step of the system, by the part that takes it.
Socket(s) == Opened(s) \/ Ended(s) \/ Deliver(s) \/ Break(s)
Round(k)  == Read(k) \/ Broadcast(k)
Edit(v)   == Delete(v) \/ Confirm(v) \/ Create(v)
Event     == Stop \/ Start \/ Expire \/ Kick \/ SignIn \/ Reload

LEMMA NextCases ==
    ASSUME Next
    PROVE  \/ Acquire \/ Release \/ Reconnect
           \/ \E s \in Sockets : Socket(s)
           \/ \E k \in Rounds : Round(k)
           \/ \E v \in Vms : Edit(v)
           \/ Event
  BY DEF Next, Socket, Round, Edit, Event

\* Closing leaves a socket in a state, and one that is not used.
LEMMA ClosedIsState ==
    ASSUME TypeOK, NEW s \in Sockets
    PROVE  /\ Closed(s) \in SockStates
           /\ Closed(s) \notin {"connecting", "served", "refused", "replaced"}
           /\ Closed(s) = "free" <=> sock[s] = "free"
  BY DEF TypeOK, SocketTypeOK, Closed, SockStates

\* What the counters are: a part of the type that is arithmetic only.
Counters == attempt \in 0..MaxAttempts /\ refs \in 0..MaxRefs /\ unserved \in 0..MaxAttempts

LEMMA CounterTypes ==
    ASSUME TypeOK, Next
    PROVE  Counters'
  <1>0. Counters /\ 0 \in 0..MaxAttempts /\ 0 \in 0..MaxRefs
    BY LiveAssumption DEF TypeOK, SocketTypeOK, Counters
  <1>1. CASE Acquire
    <2>1. refs' \in 0..MaxRefs
      BY <1>0, <1>1, LiveAssumption DEF Acquire, Counters
    <2> QED BY <1>0, <1>1, <2>1 DEF Acquire, Counters
  <1>2. CASE Release
    <2>1. refs' \in 0..MaxRefs
      BY <1>0, <1>2, LiveAssumption DEF Release, Counters
    <2>2. attempt' \in {0, attempt} /\ unserved' \in {0, unserved}
      BY <1>2 DEF Release
    <2> QED BY <1>0, <2>1, <2>2 DEF Counters
  <1>3. ASSUME NEW s \in Sockets, Socket(s) PROVE Counters'
    <2>1. CASE Opened(s)
      <3>1. attempt' = 0 /\ unserved' \in {0, unserved} /\ refs' = refs
        BY <2>1 DEF Opened
      <3> QED BY <1>0, <3>1 DEF Counters
    <2>2. CASE Ended(s)
      <3>1. refs' = refs
        BY <2>2 DEF Ended
      <3>2. attempt' = attempt \/ (attempt < MaxAttempts /\ attempt' = attempt + 1)
        BY <2>2 DEF Ended, Schedules
      <3>3. unserved' = unserved \/ (unserved < MaxAttempts /\ unserved' = unserved + 1)
        BY <2>2 DEF Ended
      <3> QED BY <1>0, <3>1, <3>2, <3>3, LiveAssumption DEF Counters
    <2>3. CASE Deliver(s) \/ Break(s)
      BY <1>0, <2>3 DEF Deliver, Break, client, Counters
    <2> QED BY <1>3, <2>1, <2>2, <2>3 DEF Socket
  <1>4. CASE Reconnect
    BY <1>0, <1>4 DEF Reconnect, Counters
  <1>5. ASSUME NEW k \in Rounds, Round(k) PROVE Counters'
    BY <1>0, <1>5 DEF Round, Read, Broadcast, client, Counters
  <1>6. ASSUME NEW v \in Vms, Edit(v) PROVE Counters'
    BY <1>0, <1>6 DEF Edit, Delete, Confirm, Create, client, Counters
  <1>7. CASE Event
    BY <1>0, <1>7 DEF Event, Stop, Start, Expire, Kick, SignIn, Reload, client, Counters
  <1> QED BY <1>1, <1>2, <1>3, <1>4, <1>5, <1>6, <1>7, NextCases

\* The rest of the connection's type.
Handles ==
    /\ sock \in [Sockets -> SockStates]
    /\ ws \in Sockets \cup {None} /\ hooked \subseteq Sockets
    /\ timer \in BOOLEAN /\ connected \in BOOLEAN /\ kicked \in BOOLEAN

LEMMA HandleTypes ==
    ASSUME TypeOK, Next
    PROVE  Handles'
  <1>0. Handles
    BY DEF TypeOK, SocketTypeOK, Handles
  <1> USE DEF Handles
  <1>1. CASE Acquire
    <2>1. kicked' \in BOOLEAN /\ timer' = timer /\ connected' = connected
      BY <1>0, <1>1 DEF Acquire
    <2>2. CASE \E s \in Sockets : Open(s)
      BY <1>0, <2>1, <2>2 DEF Open, SockStates
    <2> QED BY <1>0, <1>1, <2>1, <2>2 DEF Acquire
  <1>2. CASE Release
    <2>1. CASE refs = 1
      BY <1>0, <1>2, <2>1, ClosedIsState DEF Release, Unhooked
    <2>2. CASE refs # 1
      BY <1>0, <1>2, <2>2 DEF Release
    <2> QED BY <2>1, <2>2
  <1>3. ASSUME NEW s \in Sockets, Socket(s) PROVE Handles'
    <2>1. CASE Opened(s)
      BY <1>0, <2>1 DEF Opened, SockStates
    <2>2. CASE Ended(s)
      <3>1. sock' \in [Sockets -> SockStates]
        BY <1>0, <2>2, ClosedIsState DEF Ended, SockStates
      <3>2. CASE s \notin hooked
        BY <1>0, <2>2, <3>1, <3>2 DEF Ended
      <3>3. CASE s \in hooked
        <4>1. ws' = None /\ connected' = FALSE /\ kicked' \in BOOLEAN
          BY <1>0, <2>2, <3>3 DEF Ended, Dropped
        <4>2. timer' = TRUE \/ timer' = timer
          BY <2>2, <3>3 DEF Ended
        <4>3. hooked' \subseteq Sockets
          BY <1>0, <2>2 DEF Ended
        <4> QED BY <1>0, <3>1, <4>1, <4>2, <4>3
      <3> QED BY <3>2, <3>3
    <2>3. CASE Deliver(s)
      BY <1>0, <2>3 DEF Deliver, client
    <2>4. CASE Break(s)
      BY <1>0, <2>4, ClosedIsState DEF Break, client
    <2> QED BY <1>3, <2>1, <2>2, <2>3, <2>4 DEF Socket
  <1>4. CASE Reconnect
    <2>1. CASE \E s \in Sockets : Open(s)
      BY <1>0, <1>4, <2>1 DEF Reconnect, Open, SockStates
    <2> QED BY <1>0, <1>4, <2>1 DEF Reconnect
  <1>5. ASSUME NEW k \in Rounds, Round(k) PROVE Handles'
    BY <1>0, <1>5 DEF Round, Read, Broadcast, client
  <1>6. ASSUME NEW v \in Vms, Edit(v) PROVE Handles'
    BY <1>0, <1>6 DEF Edit, Delete, Confirm, Create, client
  <1>7. CASE Event
    <2>1. CASE Stop
      BY <1>0, <2>1, ClosedIsState DEF Stop, client
    <2>2. CASE Start \/ SignIn \/ Expire
      BY <1>0, <2>2 DEF Start, SignIn, Expire, client
    <2>3. CASE Kick
      BY <1>0, <2>3 DEF Kick, SockStates, client
    <2>4. CASE Reload
      <3>1. sock' \in [Sockets -> SockStates]
        BY <2>4 DEF Reload, SockStates
      <3> QED BY <2>4, <3>1 DEF Reload
    <2> QED BY <1>7, <2>1, <2>2, <2>3, <2>4 DEF Event
  <1> QED BY <1>1, <1>2, <1>3, <1>4, <1>5, <1>6, <1>7, NextCases

LEMMA SocketTypes ==
    ASSUME TypeOK, Next
    PROVE  SocketTypeOK'
  BY CounterTypes, HandleTypes DEF Counters, Handles, SocketTypeOK

LEMMA ListTypes ==
    ASSUME TypeOK, Next
    PROVE  ListTypeOK'
  <1> USE DEF TypeOK, ListTypeOK
  <1>0. {} \in Lists /\ <<>> \in Seq(Lists)
    BY DEF Lists
  <1>1. CASE Acquire \/ Reconnect
    BY <1>1 DEF Acquire, Reconnect, server, rounds, list, news
  <1>2. CASE Release
    BY <1>0, <1>2 DEF Release, server, rounds, list, news
  <1>3. ASSUME NEW s \in Sockets, Socket(s) PROVE ListTypeOK'
    <2>1. CASE Opened(s)
      BY <2>1 DEF Opened, server, rounds, list, news
    <2>2. CASE Ended(s)
      BY <1>0, <2>2 DEF Ended, server, rounds, list, news
    <2>3. CASE Deliver(s)
      <3>1. wire[s] \in Seq(Lists) /\ wire[s] # <<>>
        BY <2>3 DEF Deliver
      <3>2. Head(wire[s]) \in Lists /\ Tail(wire[s]) \in Seq(Lists)
        BY <3>1
      <3>3. shown' \in Lists /\ pending' \in Lists
        BY <2>3, <3>2 DEF Deliver, Update, StillPending, Lists
      <3>4. unheard' \in Lists /\ muted' \in Lists
        BY <2>3 DEF Deliver, Hears, Lists
      <3> QED BY <2>3, <3>2, <3>3, <3>4 DEF Deliver, server, rounds
    <2>4. CASE Break(s)
      BY <1>0, <2>4 DEF Break, server, rounds, list, news
    <2> QED BY <1>3, <2>1, <2>2, <2>3, <2>4 DEF Socket
  <1>4. ASSUME NEW k \in Rounds, Round(k) PROVE ListTypeOK'
    <2>1. CASE Read(k)
      BY <1>4, <2>1 DEF Read, list, news
    <2>2. CASE Broadcast(k)
      <3>1. poll[k] \in Lists
        BY <1>4, <2>2 DEF Broadcast, Polling
      <3> QED BY <2>2, <3>1 DEF Broadcast, list, news
    <2> QED BY <1>4, <2>1, <2>2 DEF Round
  <1>5. ASSUME NEW v \in Vms, Edit(v) PROVE ListTypeOK'
    <2>1. CASE Delete(v)
      BY <1>5, <2>1 DEF Delete, rounds, news, Lists
    <2>2. CASE Confirm(v)
      BY <1>5, <2>2 DEF Confirm, Remove, server, rounds, Lists
    <2>3. CASE Create(v)
      BY <1>5, <2>3 DEF Create, rounds, news, Lists
    <2> QED BY <1>5, <2>1, <2>2, <2>3 DEF Edit
  <1>6. CASE Event
    <2>1. CASE Stop
      BY <1>0, <2>1 DEF Stop, news
    <2>2. CASE Start \/ SignIn \/ Expire
      BY <2>2 DEF Start, SignIn, Expire, rounds, list, news
    <2>3. CASE Kick
      BY <1>0, <2>3 DEF Kick, rounds, list, news
    <2>4. CASE Reload
      <3>1. wire' \in [Sockets -> Seq(Lists)] /\ namesakes' \in Lists
        BY <1>0, <2>4 DEF Reload, Lists
      <3> QED BY <1>0, <2>4, <3>1 DEF Reload
    <2> QED BY <1>6, <2>1, <2>2, <2>3, <2>4 DEF Event
  <1> QED BY <1>1, <1>2, <1>3, <1>4, <1>5, <1>6, NextCases

\* The variables have their types in every reachable state.
THEOREM TypeCorrect == Spec => []TypeOK
  <1>1. Init => TypeOK
    <2> SUFFICES ASSUME Init PROVE TypeOK
      OBVIOUS
    <2>1. SocketTypeOK
      <3>1. sock \in [Sockets -> SockStates]
        BY DEF Init, SockStates
      <3>2. 0 \in 0..MaxAttempts /\ 0 \in 0..MaxRefs
        BY LiveAssumption
      <3> QED BY <3>1, <3>2 DEF Init, SocketTypeOK
    <2>2. ListTypeOK
      <3>1. ahead \in [Rounds -> SUBSET Rounds] /\ wire \in [Sockets -> Seq(Lists)]
        BY DEF Init
      <3> QED BY <3>1 DEF Init, ListTypeOK, Lists
    <2> QED BY <2>1, <2>2, LiveAssumption DEF Init, TypeOK
  <1>2. TypeOK /\ [Next]_vars => TypeOK'
    <2> SUFFICES ASSUME TypeOK, [Next]_vars PROVE TypeOK'
      OBVIOUS
    <2>1. CASE Next
      <3>1. up' \in BOOLEAN /\ signedIn' \in BOOLEAN
        BY <2>1
        DEF TypeOK, Next, Acquire, Release, Reconnect, Opened, Ended, Deliver, Break, Read,
            Broadcast, Delete, Confirm, Create, Stop, Start, Expire, Kick, SignIn, Reload,
            server
      <3>2. \/ edits' = edits
            \/ edits < MaxEdits /\ edits' = edits + 1
        BY <2>1
        DEF Next, Acquire, Release, Reconnect, Opened, Ended, Deliver, Break, Read, Broadcast,
            Delete, Confirm, Create, Stop, Start, Expire, Kick, SignIn, Reload, Fault, bounds
      <3>3. \/ faults' = faults
            \/ faults < MaxFaults /\ faults' = faults + 1
        BY <2>1
        DEF Next, Acquire, Release, Reconnect, Opened, Ended, Deliver, Break, Read, Broadcast,
            Delete, Confirm, Create, Stop, Start, Expire, Kick, SignIn, Reload, Fault, bounds
      <3>4. edits' \in 0..MaxEdits /\ faults' \in 0..MaxFaults
        BY <3>2, <3>3, LiveAssumption DEF TypeOK
      <3> QED BY <2>1, <3>1, <3>4, SocketTypes, ListTypes DEF TypeOK
    <2>2. CASE UNCHANGED vars
      BY <2>2 DEF TypeOK, SocketTypeOK, ListTypeOK, vars, server, rounds, client, list, news, bounds
    <2> QED BY <2>1, <2>2
  <1> QED BY <1>1, <1>2, PTL DEF Spec

\* However holders come and go while sockets open, close and fail, the page
\* uses one connection, the module's own, and none once it has left.
THEOREM KeepsOneConnection == Spec => []OneConnection
  <1> DEFINE IInv == OneConnection /\ hooked = {s \in Sockets : s = ws}
  <1>1. Init => IInv
    BY LiveAssumption DEF Init, OneConnection, Using, Free
  <1>2. TypeOK /\ IInv /\ [Next]_vars => IInv'
    <2> SUFFICES ASSUME TypeOK, IInv, [Next]_vars PROVE IInv'
      OBVIOUS
    <2> USE DEF TypeOK, SocketTypeOK, OneConnection, Using, Free
    <2>1. CASE Acquire
      BY <2>1, LiveAssumption DEF TypeOK, Acquire, Open
    <2>2. CASE Release
      BY <2>2, ClosedIsState, LiveAssumption DEF TypeOK, Release, Unhooked
    <2>3. CASE Reconnect
      BY <2>3, LiveAssumption DEF TypeOK, Reconnect, Open
    <2>4. ASSUME NEW s \in Sockets, Socket(s) PROVE IInv'
      <3>1. CASE Opened(s)
        BY <3>1, LiveAssumption DEF TypeOK, Opened, client, list, news
      <3>2. CASE Ended(s)
        BY <3>2, ClosedIsState, LiveAssumption DEF TypeOK, Ended, CanEnd, Dropped, Schedules
      <3>3. CASE Deliver(s)
        BY <3>3 DEF Deliver, client
      <3>4. CASE Break(s)
        BY <3>4, ClosedIsState DEF TypeOK, Break, client
      <3> QED BY <2>4, <3>1, <3>2, <3>3, <3>4 DEF Socket
    <2>5. ASSUME NEW k \in Rounds, Round(k) PROVE IInv'
      BY <2>5 DEF Round, Read, Broadcast, client
    <2>6. ASSUME NEW v \in Vms, Edit(v) PROVE IInv'
      BY <2>6 DEF Edit, Delete, Confirm, Create, client
    <2>7. CASE Event
      <3>1. CASE Stop
        BY <3>1, ClosedIsState DEF TypeOK, Stop, client
      <3>2. CASE Start \/ SignIn \/ Expire
        BY <3>2 DEF Start, SignIn, Expire, client
      <3>3. CASE Kick
        BY <3>3 DEF TypeOK, Kick, client
      <3>4. CASE Reload
        BY <3>4, LiveAssumption DEF Reload
      <3> QED BY <2>7, <3>1, <3>2, <3>3, <3>4 DEF Event
    <2>8. CASE UNCHANGED vars
      BY <2>8 DEF vars, client
    <2> QED BY <2>1, <2>2, <2>3, <2>4, <2>5, <2>6, <2>7, <2>8, NextCases
  <1>3. IInv => OneConnection
    OBVIOUS
  <1> QED BY <1>1, <1>2, <1>3, TypeCorrect, PTL DEF Spec

----------------------------------------------------------------------------
(* The deleted workloads.                                                  *)

\* The rounds under way, in the order in which they read.
InOrder ==
    /\ \A k \in Rounds : \A j \in ahead[k] : Polling(j) /\ Polling(k) /\ j # k
    /\ \A j, k \in Rounds : Polling(j) /\ Polling(k) /\ j # k => j \in ahead[k] \/ k \in ahead[j]

\* The registry, and what was read after round k, lack v.
Ebb(p, a, r, k, v) ==
    v \notin r /\ \A j \in Rounds : p[j] # None /\ k \in a[j] => v \notin p[j]

\* Once one of the lists of w, from the n-th on, or of those that the rounds
\* under way have read lacks v, all that were read later do.
Falls(w, p, a, r, n, v) ==
    /\ \A i \in DOMAIN w : n <= i /\ v \notin w[i] =>
          /\ \A j \in DOMAIN w : i < j => v \notin w[j]
          /\ \A k \in Rounds : p[k] # None => v \notin p[k]
          /\ v \notin r
    /\ \A k \in Rounds : p[k] # None /\ v \notin p[k] => Ebb(p, a, r, k, v)

\* Only a served socket has lists on their way.
Quiet == \A s \in Sockets : sock[s] # "served" => wire[s] = <<>>

\* The page shows the workload, or knows that it deleted it.
Known(v) == v \in shown \cup gone \cup (deleted \ registry)

\* A name that was not created over an older one goes once: among the rounds
\* under way, whatever the order in which they send, ...
OnceRead(v) ==
    v \notin namesakes =>
        \A k, m \in Rounds :
            /\ Polling(k) /\ v \in poll[k]
            /\ Polling(m) /\ v \notin poll[m] /\ k \in ahead[m]
            => Ebb(poll, ahead, registry, m, v)

\* ... and, as long as they send in order, among all the lists.
Once(v) ==
    v \notin namesakes =>
        /\ \A s \in Sockets : \A i \in DOMAIN wire[s] :
               v \in wire[s][i] => Falls(wire[s], poll, ahead, registry, i, v)
        /\ Known(v) => \A s \in Sockets : Falls(wire[s], poll, ahead, registry, 1, v)

\* A deleted workload that a list still has is one the page keeps out.
Held(v) ==
    v \in gone =>
        /\ v \notin shown \cup registry \cup namesakes
        /\ \A s \in Sockets : \A i \in DOMAIN wire[s] : v \in wire[s][i] => v \in pending
        /\ \A k \in Rounds : poll[k] # None /\ v \in poll[k] => v \in pending

DeleteInv ==
    /\ Quiet /\ InOrder
    /\ \A v \in Vms : OnceRead(v) /\ (~ disordered => Once(v) /\ Held(v))

LEMMA QuietStep ==
    ASSUME TypeOK, Quiet, Next
    PROVE  Quiet'
  <1>0. /\ sock \in [Sockets -> SockStates]
        /\ wire \in [Sockets -> Seq(Lists)]
    BY DEF TypeOK, SocketTypeOK, ListTypeOK
  <1> USE DEF Quiet
  <1>1. CASE Acquire \/ Reconnect
    BY <1>0, <1>1 DEF Acquire, Reconnect, Open, Free
  <1>2. CASE Release
    <2>1. \A s \in Sockets : sock'[s] # "served" => s = ws \/ sock[s] # "served"
      BY <1>0, <1>2 DEF Release
    <2> QED BY <1>0, <1>2, <2>1 DEF Release
  <1>3. ASSUME NEW s \in Sockets, Socket(s) PROVE Quiet'
    <2>1. CASE Opened(s)
      BY <1>0, <2>1 DEF Opened
    <2>2. CASE Ended(s)
      BY <2>2 DEF Ended
    <2>3. CASE Deliver(s)
      BY <1>0, <2>3 DEF Deliver
    <2>4. CASE Break(s)
      BY <1>0, <2>4 DEF Break
    <2> QED BY <1>3, <2>1, <2>2, <2>3, <2>4 DEF Socket
  <1>4. ASSUME NEW k \in Rounds, Round(k) PROVE Quiet'
    BY <1>0, <1>4 DEF Round, Read, Broadcast
  <1>5. ASSUME NEW v \in Vms, Edit(v) PROVE Quiet'
    BY <1>0, <1>5 DEF Edit, Delete, Confirm, Create
  <1>6. CASE Event
    BY <1>0, <1>6 DEF Event, Stop, Start, Expire, Kick, SignIn, Reload
  <1> QED BY <1>1, <1>2, <1>3, <1>4, <1>5, <1>6, NextCases

\* A round reads, or sends what it read.
LEMMA ReadRounds ==
    ASSUME TypeOK, InOrder, NEW k \in Rounds, Read(k)
    PROVE  /\ poll' = [poll EXCEPT ![k] = registry] /\ poll[k] = None /\ registry # None
           /\ ahead'[k] = {j \in Rounds : poll[j] # None}
           /\ \A j \in Rounds : j # k => ahead'[j] = ahead[j] /\ k \notin ahead[j]
           /\ ahead[k] = {}
           /\ UNCHANGED <<registry, disordered, wire, shown, pending, deleted, gone, namesakes>>
  BY LiveAssumption DEF Read, InOrder, Polling, TypeOK, ListTypeOK, Lists, list, news

LEMMA BroadcastRounds ==
    ASSUME TypeOK, NEW k \in Rounds, Broadcast(k)
    PROVE  /\ poll' = [poll EXCEPT ![k] = None] /\ poll[k] # None /\ poll[k] \in Lists
           /\ \A j \in Rounds : ahead'[j] = IF j = k THEN {} ELSE ahead[j] \ {k}
           /\ disordered' = (disordered \/ ahead[k] # {})
           /\ UNCHANGED <<registry, shown, pending, deleted, gone, namesakes>>
  BY DEF Broadcast, Polling, TypeOK, ListTypeOK, list, news

\* Only the rounds and a stop of the server change what is under way.
LEMMA RoundsKept ==
    ASSUME Next, ~ Stop, \A k \in Rounds : ~ Round(k)
    PROVE  UNCHANGED <<poll, ahead>>
  BY NextCases
  DEF Acquire, Release, Reconnect, Socket, Opened, Ended, Deliver, Break, Edit, Delete, Confirm,
      Create, Event, Stop, Start, Expire, Kick, SignIn, Reload, server, rounds

LEMMA InOrderStep ==
    ASSUME TypeOK, InOrder, Next
    PROVE  InOrder'
  <1> USE DEF InOrder, Polling
  <1>1. ASSUME NEW k \in Rounds, Read(k) PROVE InOrder'
    <2>0. poll \in [Rounds -> Lists \cup {None}]
      BY DEF TypeOK, ListTypeOK
    <2>1. \A j \in Rounds : poll'[j] # None <=> j = k \/ poll[j] # None
      BY <1>1, <2>0, ReadRounds
    <2>2. /\ ahead'[k] = {j \in Rounds : poll[j] # None} /\ poll[k] = None
          /\ \A j \in Rounds : j # k => ahead'[j] = ahead[j]
      BY <1>1, ReadRounds
    <2>3. ASSUME NEW m \in Rounds, NEW j \in ahead'[m]
          PROVE  j \in Rounds /\ poll'[j] # None /\ poll'[m] # None /\ j # m
      <3>1. CASE m = k
        BY <2>1, <2>2, <2>3, <3>1
      <3>2. CASE m # k
        <4>1. ahead[m] \subseteq Rounds /\ j \in ahead[m]
          BY <2>2, <2>3, <3>2 DEF TypeOK, ListTypeOK
        <4> QED BY <2>1, <4>1
      <3> QED BY <3>1, <3>2
    <2>4. ASSUME NEW m \in Rounds, NEW j \in Rounds, poll'[j] # None, poll'[m] # None, j # m
          PROVE  j \in ahead'[m] \/ m \in ahead'[j]
      BY <2>1, <2>2, <2>4
    <2> QED BY <2>3, <2>4
  <1>2. ASSUME NEW k \in Rounds, Broadcast(k) PROVE InOrder'
    <2>0. poll \in [Rounds -> Lists \cup {None}]
      BY DEF TypeOK, ListTypeOK
    <2>1. \A j \in Rounds : poll'[j] # None <=> j # k /\ poll[j] # None
      BY <1>2, <2>0, BroadcastRounds
    <2>2. \A j \in Rounds : ahead'[j] = IF j = k THEN {} ELSE ahead[j] \ {k}
      BY <1>2, BroadcastRounds
    <2>a. \A m \in Rounds : ahead[m] \subseteq Rounds
      BY DEF TypeOK, ListTypeOK
    <2>3. \A m \in Rounds : \A j \in ahead'[m] : m # k /\ j # k /\ j \in ahead[m] /\ j \in Rounds
      BY <2>2, <2>a
    <2>4. ASSUME NEW m \in Rounds, NEW j \in ahead'[m]
          PROVE  poll'[j] # None /\ poll'[m] # None /\ j # m
      BY <2>1, <2>3, <2>4
    <2>5. ASSUME NEW m \in Rounds, NEW j \in Rounds, poll'[j] # None, poll'[m] # None, j # m
          PROVE  j \in ahead'[m] \/ m \in ahead'[j]
      BY <2>1, <2>2, <2>5
    <2> QED BY <2>4, <2>5
  <1>3. CASE Stop
    BY <1>3 DEF Stop
  <1>4. CASE ~ Stop /\ \A k \in Rounds : ~ Round(k)
    BY <1>4, RoundsKept
  <1> QED BY <1>1, <1>2, <1>3, <1>4 DEF Round

\* Among the rounds under way: what is read lacks v if the registry does.
LEMMA ReadEbbs ==
    ASSUME TypeOK, InOrder, NEW k \in Rounds, Read(k), NEW v, NEW m \in Rounds,
           poll'[m] # None, v \notin poll'[m], m # k => Ebb(poll, ahead, registry, m, v)
    PROVE  Ebb(poll', ahead', registry', m, v)
  <1>0. poll \in [Rounds -> Lists \cup {None}]
    BY DEF TypeOK, ListTypeOK
  <1>1. /\ poll'[k] = registry /\ registry' = registry /\ poll[k] = None
        /\ \A j \in Rounds : j # k =>
              poll'[j] = poll[j] /\ ahead'[j] = ahead[j] /\ k \notin ahead[j]
        /\ ahead'[k] = {j \in Rounds : poll[j] # None}
    BY <1>0, ReadRounds
  <1>2. CASE m = k
    BY <1>1, <1>2 DEF Ebb
  <1>3. CASE m # k
    BY <1>1, <1>3 DEF Ebb
  <1> QED BY <1>2, <1>3

\* Fewer rounds, fewer of them in order, and a registry with no more names.
LEMMA EbbsOn ==
    ASSUME NEW v, NEW m \in Rounds, Ebb(poll, ahead, registry, m, v),
           \A j \in Rounds : poll'[j] \in {poll[j], None} /\ ahead'[j] \subseteq ahead[j],
           v \in registry' => v \in registry
    PROVE  Ebb(poll', ahead', registry', m, v)
  BY DEF Ebb

LEMMA OnceReadStep ==
    ASSUME TypeOK, InOrder, Next, NEW v \in Vms, OnceRead(v)
    PROVE  OnceRead(v)'
  <1> USE DEF OnceRead, Polling
  <1>1. ASSUME NEW k \in Rounds, Read(k) PROVE OnceRead(v)'
    <2>0. poll \in [Rounds -> Lists \cup {None}]
      BY DEF TypeOK, ListTypeOK
    <2>1. /\ poll'[k] = registry /\ poll[k] = None /\ registry # None /\ namesakes' = namesakes
          /\ \A j \in Rounds : j # k =>
                poll'[j] = poll[j] /\ ahead'[j] = ahead[j] /\ k \notin ahead[j]
      BY <1>1, <2>0, ReadRounds
    <2>2. SUFFICES ASSUME v \notin namesakes', NEW i \in Rounds, NEW m \in Rounds,
                          poll'[i] # None, v \in poll'[i],
                          poll'[m] # None, v \notin poll'[m], i \in ahead'[m]
                   PROVE  Ebb(poll', ahead', registry', m, v)
      OBVIOUS
    <2>3. m # k => Ebb(poll, ahead, registry, m, v)
      BY <2>1, <2>2
    <2> QED BY <1>1, <2>2, <2>3, ReadEbbs
  <1>2. ASSUME NEW k \in Rounds, Broadcast(k) PROVE OnceRead(v)'
    <2>0. poll \in [Rounds -> Lists \cup {None}]
      BY DEF TypeOK, ListTypeOK
    <2>1. /\ \A j \in Rounds : poll'[j] = IF j = k THEN None ELSE poll[j]
          /\ \A j \in Rounds : ahead'[j] \subseteq ahead[j]
          /\ UNCHANGED <<registry, namesakes>>
      BY <1>2, <2>0, BroadcastRounds
    <2>2. \A j \in Rounds : poll'[j] \in {poll[j], None}
      BY <2>1
    <2>3. SUFFICES ASSUME v \notin namesakes', NEW i \in Rounds, NEW m \in Rounds,
                          poll'[i] # None, v \in poll'[i],
                          poll'[m] # None, v \notin poll'[m], i \in ahead'[m]
                   PROVE  Ebb(poll', ahead', registry', m, v)
      OBVIOUS
    <2>4. Ebb(poll, ahead, registry, m, v)
      BY <2>1, <2>3
    <2> QED BY <2>1, <2>2, <2>4, EbbsOn
  <1>3. CASE Stop
    BY <1>3 DEF Stop
  <1>4. CASE ~ Stop /\ \A k \in Rounds : ~ Round(k)
    <2>1. UNCHANGED <<poll, ahead>>
      BY <1>4, RoundsKept
    <2>2. ASSUME NEW u \in Vms, Create(u) PROVE OnceRead(v)'
      <3>1. /\ registry' = registry \cup {u}
            /\ namesakes' = IF About(u) THEN namesakes \cup {u} ELSE namesakes
        BY <2>2 DEF Create
      <3>2. CASE v = u
        BY <2>1, <3>1, <3>2 DEF About, IsRead
      <3>3. CASE v # u
        BY <2>1, <3>1, <3>3 DEF Ebb
      <3> QED BY <3>2, <3>3
    <2>3. CASE Reload
      BY <2>1, <2>3 DEF Reload, IsRead, TypeOK, ListTypeOK, Lists
    <2>4. CASE ~ Reload /\ \A u \in Vms : ~ Create(u)
      <3>1. registry' \subseteq registry /\ namesakes' = namesakes
        BY <1>4, <2>4, NextCases
        DEF Acquire, Release, Reconnect, Socket, Opened, Ended, Deliver, Break, Round, Edit, Delete,
            Confirm, Event, Start, Expire, Kick, SignIn, server, rounds, list, news
      <3> QED BY <2>1, <3>1 DEF Ebb
    <2> QED BY <2>2, <2>3, <2>4
  <1> QED BY <1>1, <1>2, <1>3, <1>4 DEF Round

\* Steps that only lose lists on their way.
Loses ==
    /\ \A s \in Sockets : wire'[s] \in {wire[s], <<>>}
    /\ UNCHANGED <<registry, rounds, list>>

LEMMA LosesKeeps ==
    ASSUME Loses, NEW v \in Vms, Once(v), Held(v)
    PROVE  Once(v)' /\ Held(v)'
  <1>0. UNCHANGED <<registry, poll, ahead>>
    BY DEF Loses, rounds
  <1>1. \A s \in Sockets : \A n :
           Falls(wire[s], poll, ahead, registry, n, v)
               => Falls(wire'[s], poll', ahead', registry', n, v)
    BY <1>0 DEF Falls, Loses
  <1>2. /\ \A s \in Sockets : wire'[s] = wire[s] \/ DOMAIN wire'[s] = {}
        /\ UNCHANGED <<registry, poll, shown, pending, deleted, gone, namesakes>>
    BY <1>0 DEF Loses, list, news
  <1>3. Once(v)'
    <2>1. Known(v)' => Known(v)
      BY <1>2 DEF Known
    <2>2. \A s \in Sockets : \A i \in DOMAIN wire'[s] : wire'[s] = wire[s] /\ i \in DOMAIN wire[s]
      BY <1>2
    <2> QED BY <1>1, <1>2, <2>1, <2>2 DEF Once
  <1>4. Held(v)'
    BY <1>2 DEF Held
  <1> QED BY <1>3, <1>4

LEMMA ReadKeeps ==
    ASSUME InOrder, NEW k \in Rounds, TypeOK, Read(k), NEW v \in Vms, Once(v), Held(v)
    PROVE  Once(v)' /\ Held(v)'
  <1>0. poll \in [Rounds -> Lists \cup {None}]
    BY DEF TypeOK, ListTypeOK
  <1>1. /\ \A j \in Rounds : poll'[j] = IF j = k THEN registry ELSE poll[j]
        /\ UNCHANGED <<wire, registry, shown, pending, deleted, gone, namesakes>>
    BY <1>0, ReadRounds
  <1>2. ASSUME NEW s \in Sockets, NEW n \in Nat, Falls(wire[s], poll, ahead, registry, n, v)
        PROVE  Falls(wire'[s], poll', ahead', registry', n, v)
    <2>1. ASSUME NEW i \in DOMAIN wire'[s], n <= i, v \notin wire'[s][i]
          PROVE  /\ \A j \in DOMAIN wire'[s] : i < j => v \notin wire'[s][j]
                 /\ \A m \in Rounds : poll'[m] # None => v \notin poll'[m]
                 /\ v \notin registry'
      BY <1>1, <1>2, <2>1 DEF Falls
    <2>2. ASSUME NEW m \in Rounds, poll'[m] # None, v \notin poll'[m]
          PROVE  Ebb(poll', ahead', registry', m, v)
      <3>1. m # k => Ebb(poll, ahead, registry, m, v)
        BY <1>1, <1>2, <2>2 DEF Falls
      <3> QED BY <2>2, <3>1, ReadEbbs
    <2> QED BY <2>1, <2>2 DEF Falls
  <1>3. Once(v)'
    <2>1. \A s \in Sockets : DOMAIN wire[s] \subseteq Nat
      BY DEF TypeOK, ListTypeOK
    <2> QED BY <1>1, <1>2, <2>1 DEF Once, Known
  <1>4. Held(v)'
    BY <1>1 DEF Held
  <1> QED BY <1>3, <1>4

\* A list that is sent in order is the last on its way, and the rounds that
\* are still under way read after it.
LEMMA BroadcastWires ==
    ASSUME TypeOK, Quiet, InOrder, NEW k \in Rounds, Broadcast(k), ~ disordered',
           NEW s \in Sockets
    PROVE  /\ \A j \in Rounds : j # k /\ poll[j] # None => k \in ahead[j]
           /\ \/ wire'[s] = <<>>
              \/ wire'[s] = Append(wire[s], poll[k])
  BY DEF TypeOK, ListTypeOK, Quiet, Broadcast, InOrder, Polling

LEMMA AppendFalls ==
    ASSUME TypeOK, NEW k \in Rounds, Broadcast(k),
           \A j \in Rounds : j # k /\ poll[j] # None => k \in ahead[j],
           NEW v, OnceRead(v), v \notin namesakes, NEW s \in Sockets, NEW n \in Nat,
           \/ Falls(wire[s], poll, ahead, registry, n, v)
           \/ n = Len(wire[s]) + 1 /\ v \in poll[k]
    PROVE  Falls(Append(wire[s], poll[k]), poll', ahead', registry', n, v)
  <1> DEFINE w == Append(wire[s], poll[k])
  <1>a. poll[k] # None /\ poll[k] \in Lists /\ registry' = registry
    BY BroadcastRounds
  <1>0. /\ wire[s] \in Seq(Lists) /\ Len(wire[s]) \in Nat
        /\ DOMAIN w = 1..(Len(wire[s]) + 1) /\ DOMAIN wire[s] = 1..Len(wire[s])
        /\ \A i \in 1..Len(wire[s]) : w[i] = wire[s][i]
        /\ w[Len(wire[s]) + 1] = poll[k]
    BY <1>a DEF TypeOK, ListTypeOK
  <1>b. /\ \A j \in Rounds : poll'[j] = IF j = k THEN None ELSE poll[j]
        /\ \A j \in Rounds : poll'[j] \in {poll[j], None} /\ ahead'[j] \subseteq ahead[j]
    <2>1. poll \in [Rounds -> Lists \cup {None}]
      BY DEF TypeOK, ListTypeOK
    <2> QED BY <2>1, BroadcastRounds
  <1> HIDE DEF w
  <1>1. ASSUME NEW i \in DOMAIN w, n <= i, v \notin w[i]
        PROVE  /\ \A j \in DOMAIN w : i < j => v \notin w[j]
               /\ \A j \in Rounds : poll'[j] # None => v \notin poll'[j]
               /\ v \notin registry
    <2>1. ~ (n = Len(wire[s]) + 1 /\ v \in poll[k])
      BY <1>0, <1>1
    <2>2. Falls(wire[s], poll, ahead, registry, n, v)
      BY <2>1
    <2>3. CASE i = Len(wire[s]) + 1
      <3>1. Ebb(poll, ahead, registry, k, v)
        BY <1>a, <1>0, <1>1, <2>2, <2>3 DEF Falls
      <3>2. v \notin registry /\ \A j \in Rounds : poll'[j] # None => v \notin poll'[j]
        BY <1>b, <3>1 DEF Ebb
      <3> QED BY <1>0, <2>3, <3>2
    <2>4. CASE i \in 1..Len(wire[s])
      <3>1. v \notin wire[s][i] /\ i \in DOMAIN wire[s]
        BY <1>0, <1>1, <2>4
      <3>2. /\ \A j \in DOMAIN wire[s] : i < j => v \notin wire[s][j]
            /\ \A j \in Rounds : poll[j] # None => v \notin poll[j]
            /\ v \notin registry
        BY <1>1, <2>2, <3>1 DEF Falls
      <3> QED BY <1>a, <1>b, <1>0, <3>2
    <2> QED BY <1>0, <1>1, <2>3, <2>4
  <1>2. ASSUME NEW m \in Rounds, poll'[m] # None, v \notin poll'[m]
        PROVE  Ebb(poll', ahead', registry', m, v)
    <2>1. m # k /\ poll[m] # None /\ v \notin poll[m] /\ k \in ahead[m]
      BY <1>b, <1>2
    <2>2. Ebb(poll, ahead, registry, m, v)
      <3>1. CASE v \in poll[k]
        BY <1>a, <2>1, <3>1 DEF OnceRead, Polling
      <3>2. CASE v \notin poll[k]
        BY <2>1, <3>2 DEF Falls
      <3> QED BY <3>1, <3>2
    <2> QED BY <1>a, <1>b, <2>2, EbbsOn
  <1> QED BY <1>a, <1>1, <1>2 DEF Falls, w

LEMMA BroadcastKeeps ==
    ASSUME InOrder, NEW k \in Rounds, TypeOK, Quiet, Broadcast(k), ~ disordered',
           NEW v \in Vms, OnceRead(v), Once(v), Held(v)
    PROVE  Once(v)' /\ Held(v)'
  <1>0. /\ \A j \in Rounds : poll'[j] = IF j = k THEN None ELSE poll[j]
        /\ \A j \in Rounds : ahead'[j] \subseteq ahead[j]
        /\ poll[k] # None /\ poll[k] \in Lists
        /\ UNCHANGED <<registry, shown, pending, deleted, gone, namesakes>>
    <2>1. poll \in [Rounds -> Lists \cup {None}]
      BY DEF TypeOK, ListTypeOK
    <2> QED BY <2>1, BroadcastRounds
  <1>1. \A s \in Sockets :
           /\ wire'[s] = <<>> \/ wire'[s] = Append(wire[s], poll[k])
           /\ \A j \in Rounds : j # k /\ poll[j] # None => k \in ahead[j]
    BY BroadcastWires
  <1>2. ASSUME NEW s \in Sockets
        PROVE  /\ wire[s] \in Seq(Lists) /\ Len(wire[s]) \in Nat
               /\ DOMAIN wire[s] = 1..Len(wire[s])
               /\ DOMAIN Append(wire[s], poll[k]) = 1..(Len(wire[s]) + 1)
               /\ \A i \in 1..Len(wire[s]) : Append(wire[s], poll[k])[i] = wire[s][i]
               /\ Append(wire[s], poll[k])[Len(wire[s]) + 1] = poll[k]
    BY <1>0 DEF TypeOK, ListTypeOK
  <1>3. Once(v)'
    <2> SUFFICES ASSUME v \notin namesakes PROVE Once(v)'
      BY <1>0 DEF Once
    <2>1. ASSUME NEW s \in Sockets, NEW i \in DOMAIN wire'[s], v \in wire'[s][i]
          PROVE  Falls(wire'[s], poll', ahead', registry', i, v)
      <3>1. wire'[s] = Append(wire[s], poll[k])
        BY <1>1, <2>1
      <3>2. i \in 1..(Len(wire[s]) + 1) /\ i \in Nat
        BY <1>2, <2>1, <3>1
      <3>3. CASE i = Len(wire[s]) + 1
        <4>1. v \in poll[k]
          BY <1>2, <2>1, <3>1, <3>3
        <4> QED BY <1>1, <3>1, <3>2, <3>3, <4>1, AppendFalls
      <3>4. CASE i \in 1..Len(wire[s])
        <4>1. v \in wire[s][i] /\ i \in DOMAIN wire[s]
          BY <1>2, <2>1, <3>1, <3>4
        <4>2. Falls(wire[s], poll, ahead, registry, i, v)
          BY <4>1 DEF Once
        <4> QED BY <1>1, <3>1, <3>2, <4>2, AppendFalls
      <3> QED BY <1>2, <3>2, <3>3, <3>4
    <2>2. ASSUME Known(v)', NEW s \in Sockets
          PROVE  Falls(wire'[s], poll', ahead', registry', 1, v)
      <3>1. Falls(wire[s], poll, ahead, registry, 1, v)
        BY <1>0, <2>2 DEF Once, Known
      <3>2. Falls(Append(wire[s], poll[k]), poll', ahead', registry', 1, v)
        BY <1>1, <3>1, AppendFalls
      <3>3. CASE wire'[s] = <<>>
        BY <3>2, <3>3 DEF Falls
      <3>4. CASE wire'[s] = Append(wire[s], poll[k])
        BY <3>2, <3>4
      <3> QED BY <1>1, <3>3, <3>4
    <2> QED BY <2>1, <2>2 DEF Once
  <1>4. Held(v)'
    <2> SUFFICES ASSUME v \in gone PROVE Held(v)'
      BY <1>0 DEF Held
    <2>1. ASSUME NEW s \in Sockets, NEW i \in DOMAIN wire'[s], v \in wire'[s][i]
          PROVE  v \in pending
      <3>1. wire'[s] = Append(wire[s], poll[k])
        BY <1>1, <2>1
      <3>2. \/ i = Len(wire[s]) + 1 /\ v \in poll[k]
            \/ i \in DOMAIN wire[s] /\ v \in wire[s][i]
        BY <1>2, <2>1, <3>1
      <3> QED BY <1>0, <3>2 DEF Held
    <2> QED BY <1>0, <2>1 DEF Held
  <1> QED BY <1>3, <1>4

\* A list arrives on the one served socket.
LEMMA DeliverKeeps ==
    ASSUME TypeOK, OneConnection, Quiet, NEW s \in Sockets, Deliver(s),
           NEW v \in Vms, Once(v), Held(v)
    PROVE  Once(v)' /\ Held(v)'
  <1> DEFINE w == wire[s]
             h == Head(wire[s])
  <1>0. /\ w \in Seq(Lists) /\ Len(w) \in Nat /\ w # <<>> /\ h = w[1] /\ 1 \in DOMAIN w
        /\ DOMAIN w = 1..Len(w) /\ DOMAIN Tail(w) = 1..(Len(w) - 1)
        /\ \A i \in DOMAIN Tail(w) : Tail(w)[i] = w[i + 1] /\ i + 1 \in DOMAIN w /\ i \in Nat \ {0}
    BY DEF TypeOK, ListTypeOK, Deliver
  <1>1. \A o \in Sockets : o # s => wire[o] = <<>>
    BY DEF OneConnection, Quiet, Using, Deliver
  <1>2. /\ wire'[s] = Tail(w)
        /\ \A o \in Sockets : o # s => wire'[o] = <<>>
        /\ UNCHANGED <<registry, poll, ahead, deleted, gone, namesakes>>
    BY <1>1 DEF Deliver, TypeOK, ListTypeOK, server, rounds
  <1>3. \/ h = {} /\ UNCHANGED <<shown, pending>>
        \/ shown' = h \ pending /\ pending' = pending \cap h
    BY DEF Deliver, Update, StillPending
  <1> HIDE DEF w, h
  <1>4. \A o \in Sockets : \A i \in DOMAIN wire'[o] :
           o = s /\ wire'[o][i] = w[i + 1] /\ i + 1 \in DOMAIN w /\ i \in Nat \ {0}
    BY <1>0, <1>2
  <1>5. ASSUME NEW n \in Nat, Falls(w, poll, ahead, registry, n + 1, v)
        PROVE  \A o \in Sockets : Falls(wire'[o], poll', ahead', registry', n, v)
    <2> SUFFICES ASSUME NEW o \in Sockets PROVE Falls(wire'[o], poll', ahead', registry', n, v)
      OBVIOUS
    <2>1. ASSUME NEW i \in DOMAIN wire'[o], n <= i, v \notin wire'[o][i]
          PROVE  /\ \A j \in DOMAIN wire'[o] : i < j => v \notin wire'[o][j]
                 /\ \A k \in Rounds : poll[k] # None => v \notin poll[k]
                 /\ v \notin registry
      <3>1. i + 1 \in DOMAIN w /\ v \notin w[i + 1] /\ i \in Nat /\ n + 1 <= i + 1
        BY <1>4, <2>1
      <3>2. /\ \A j \in DOMAIN w : i + 1 < j => v \notin w[j]
            /\ \A k \in Rounds : poll[k] # None => v \notin poll[k]
            /\ v \notin registry
        BY <1>5, <3>1 DEF Falls
      <3> QED BY <1>4, <3>1, <3>2
    <2> QED BY <1>2, <1>5, <2>1 DEF Falls
  <1>6. Falls(w, poll, ahead, registry, 1, v) => Falls(w, poll, ahead, registry, 1 + 1, v)
    BY <1>0 DEF Falls
  <1>7. Once(v)'
    <2> SUFFICES ASSUME v \notin namesakes PROVE Once(v)'
      BY <1>2 DEF Once
    <2>1. ASSUME NEW o \in Sockets, NEW i \in DOMAIN wire'[o], v \in wire'[o][i]
          PROVE  Falls(wire'[o], poll', ahead', registry', i, v)
      <3>1. i + 1 \in DOMAIN w /\ v \in w[i + 1] /\ i \in Nat
        BY <1>4, <2>1
      <3>2. Falls(w, poll, ahead, registry, i + 1, v)
        BY <3>1 DEF Once, w
      <3> QED BY <1>5, <3>1, <3>2
    <2>2. ASSUME Known(v)' PROVE \A o \in Sockets : Falls(wire'[o], poll', ahead', registry', 1, v)
      <3>1. Known(v) \/ v \in h
        BY <1>2, <1>3, <2>2 DEF Known
      <3>2. Falls(w, poll, ahead, registry, 1, v)
        BY <1>0, <3>1 DEF Once, w
      <3> QED BY <1>5, <1>6, <3>2
    <2> QED BY <2>1, <2>2 DEF Once
  <1>8. Held(v)'
    <2> SUFFICES ASSUME v \in gone PROVE Held(v)'
      BY <1>2 DEF Held
    <2>1. v \notin namesakes /\ Falls(w, poll, ahead, registry, 1, v)
      BY DEF Held, Once, Known, w
    <2>2. CASE v \in h
      <3>1. v \in pending /\ v \notin shown' /\ v \in pending'
        BY <1>0, <1>3, <2>2 DEF Held, w
      <3> QED BY <1>2, <3>1 DEF Held
    <2>3. CASE v \notin h
      <3>1. /\ \A j \in DOMAIN w : 1 < j => v \notin w[j]
            /\ \A k \in Rounds : poll[k] # None => v \notin poll[k]
        BY <1>0, <2>1, <2>3 DEF Falls
      <3>2. \A o \in Sockets : \A i \in DOMAIN wire'[o] : v \notin wire'[o][i]
        BY <1>0, <1>4, <3>1
      <3>3. v \notin shown'
        BY <1>3, <2>3 DEF Held
      <3> QED BY <1>2, <3>1, <3>2, <3>3 DEF Held
    <2> QED BY <2>2, <2>3
  <1> QED BY <1>7, <1>8

\* The server deletes a workload, or the page hears of it, or one is created.
LEMMA EditKeeps ==
    ASSUME TypeOK, NEW u \in Vms, Edit(u), NEW v \in Vms, Once(v), Held(v)
    PROVE  Once(v)' /\ Held(v)'
  <1>0. wire \in [Sockets -> Seq(Lists)]
    BY DEF TypeOK, ListTypeOK
  <1>1. CASE Delete(u)
    <2>1. /\ registry' = registry \ {u} /\ deleted' = deleted \cup {u} /\ u \in shown
          /\ UNCHANGED <<poll, ahead, wire, shown, pending, gone, namesakes>>
      BY <1>1 DEF Delete, rounds
    <2>2. \A w, n : Falls(w, poll, ahead, registry, n, v)
                    => Falls(w, poll', ahead', registry', n, v)
      BY <2>1 DEF Falls, Ebb
    <2>3. Known(v)' => Known(v)
      BY <2>1 DEF Known
    <2>4. Once(v)'
      BY <2>1, <2>2, <2>3 DEF Once
    <2>5. Held(v)'
      BY <2>1 DEF Held
    <2> QED BY <2>4, <2>5
  <1>2. CASE Confirm(u)
    <2>1. /\ shown' = shown \ {u} /\ pending' = pending \cup {u} /\ u \in deleted
          /\ deleted' = deleted \ {u}
          /\ gone' = IF u \in registry \cup namesakes THEN gone ELSE gone \cup {u}
          /\ UNCHANGED <<registry, poll, ahead, wire, namesakes>>
      BY <1>2 DEF Confirm, Remove, server, rounds
    <2>2. v \in gone' => v \in gone \/ (v = u /\ u \notin registry \cup namesakes)
      BY <2>1
    <2>3. Known(v)' => Known(v)
      BY <2>1, <2>2 DEF Known
    <2>4. Once(v)'
      BY <2>1, <2>3 DEF Once
    <2>5. Held(v)'
      BY <2>1, <2>2 DEF Held
    <2> QED BY <2>4, <2>5
  <1>3. CASE Create(u)
    <2>1. /\ registry' = registry \cup {u} /\ u \notin registry /\ gone' = gone \ {u}
          /\ namesakes' = IF About(u) THEN namesakes \cup {u} ELSE namesakes
          /\ UNCHANGED <<poll, ahead, wire, shown, pending, deleted>>
      BY <1>3 DEF Create, rounds
    <2>2. CASE v = u
      <3>1. Held(v)'
        BY <2>1, <2>2 DEF Held
      <3>2. ASSUME v \notin namesakes' PROVE Once(v)'
        <4>1. ~ About(v)
          BY <2>1, <2>2, <3>2
        <4>2. /\ ~ Known(v)'
              /\ \A s \in Sockets : \A i \in DOMAIN wire'[s] : v \notin wire'[s][i]
          BY <2>1, <2>2, <4>1 DEF About, Known
        <4> QED BY <4>2 DEF Once
      <3> QED BY <3>1, <3>2 DEF Once
    <2>3. CASE v # u
      <3>1. \A w, n : Falls(w, poll, ahead, registry, n, v)
                      => Falls(w, poll', ahead', registry', n, v)
        BY <2>1, <2>3 DEF Falls, Ebb
      <3>2. (Known(v)' => Known(v)) /\ (v \in namesakes' <=> v \in namesakes)
        BY <2>1, <2>3 DEF Known
      <3>3. Once(v)'
        BY <2>1, <3>1, <3>2 DEF Once
      <3>4. Held(v)'
        BY <2>1, <2>3 DEF Held
      <3> QED BY <3>3, <3>4
    <2> QED BY <2>2, <2>3
  <1> QED BY <1>1, <1>2, <1>3 DEF Edit

\* The page is loaded again, or the server stops.
LEMMA ReloadKeeps ==
    ASSUME Reload, NEW v \in Vms
    PROVE  Once(v)' /\ Held(v)'
  <1>1. /\ \A s \in Sockets : wire'[s] = <<>>
        /\ shown' = {} /\ deleted' = {} /\ gone' = {}
    BY DEF Reload
  <1> QED BY <1>1 DEF Once, Held, Known

LEMMA EventKeeps ==
    ASSUME TypeOK, Event, NEW v \in Vms, Once(v), Held(v)
    PROVE  Once(v)' /\ Held(v)'
  <1>1. CASE Stop
    <2>1. /\ \A k \in Rounds : poll'[k] = None
          /\ \A s \in Sockets : wire'[s] = <<>>
          /\ deleted' = {} /\ UNCHANGED <<registry, shown, pending, gone, namesakes>>
      BY <1>1 DEF Stop
    <2> QED BY <2>1 DEF Once, Held, Falls
  <1>2. CASE Reload
    BY <1>2, ReloadKeeps
  <1>3. CASE Start \/ Expire \/ Kick \/ SignIn
    <2>1. Loses
      BY <1>3 DEF Start, Expire, Kick, SignIn, Loses, list, news
    <2> QED BY <2>1, LosesKeeps
  <1> QED BY <1>1, <1>2, <1>3 DEF Event

\* Holders and sockets come and go: no list is changed, read or sent.
LEMMA SocketLoses ==
    ASSUME TypeOK,
           \/ Acquire \/ Release \/ Reconnect
           \/ \E s \in Sockets : Opened(s) \/ Ended(s) \/ Break(s)
    PROVE  Loses
  <1>0. wire \in [Sockets -> Seq(Lists)]
    BY DEF TypeOK, ListTypeOK
  <1>1. CASE Acquire \/ Reconnect
    BY <1>0, <1>1 DEF Acquire, Reconnect, Loses, server, rounds
  <1>2. CASE Release
    BY <1>0, <1>2 DEF Release, Loses, server, rounds
  <1>3. ASSUME NEW s \in Sockets, Opened(s) \/ Ended(s) \/ Break(s) PROVE Loses
    BY <1>0, <1>3 DEF Opened, Ended, Break, Loses, server, rounds
  <1> QED BY <1>1, <1>2, <1>3

LEMMA DeleteStep ==
    ASSUME TypeOK, OneConnection, DeleteInv, [Next]_vars
    PROVE  DeleteInv'
  <1>1. CASE Next
    <2>1. Quiet' /\ InOrder' /\ \A v \in Vms : OnceRead(v)'
      BY <1>1, QuietStep, InOrderStep, OnceReadStep DEF DeleteInv
    <2>2. ASSUME NEW v \in Vms, ~ disordered' PROVE Once(v)' /\ Held(v)'
      <3>0. CASE disordered
        <4>1. Reload
          BY <1>1, <2>2, <3>0, NextCases
          DEF Acquire, Release, Reconnect, Socket, Opened, Ended, Deliver, Break, Round, Read,
              Broadcast, Edit, Delete, Confirm, Create, Event, Stop, Start, Expire, Kick, SignIn,
              server, rounds
        <4> QED BY <4>1, ReloadKeeps
      <3> SUFFICES ASSUME ~ disordered PROVE Once(v)' /\ Held(v)'
        BY <3>0
      <3>1. Quiet /\ InOrder /\ OnceRead(v) /\ Once(v) /\ Held(v)
        BY DEF DeleteInv
      <3>2. CASE Acquire \/ Release \/ Reconnect
        BY <3>1, <3>2, SocketLoses, LosesKeeps
      <3>3. ASSUME NEW s \in Sockets, Socket(s) PROVE Once(v)' /\ Held(v)'
        <4>1. CASE Deliver(s)
          BY <3>1, <4>1, DeliverKeeps
        <4>2. CASE Opened(s) \/ Ended(s) \/ Break(s)
          BY <3>1, <4>2, SocketLoses, LosesKeeps
        <4> QED BY <3>3, <4>1, <4>2 DEF Socket
      <3>4. ASSUME NEW k \in Rounds, Round(k) PROVE Once(v)' /\ Held(v)'
        BY <2>2, <3>1, <3>4, ReadKeeps, BroadcastKeeps DEF Round
      <3>5. ASSUME NEW u \in Vms, Edit(u) PROVE Once(v)' /\ Held(v)'
        BY <3>1, <3>5, EditKeeps
      <3>6. CASE Event
        BY <3>1, <3>6, EventKeeps
      <3> QED BY <1>1, <3>2, <3>3, <3>4, <3>5, <3>6, NextCases
    <2> QED BY <2>1, <2>2 DEF DeleteInv
  <1>2. CASE UNCHANGED vars
    BY <1>2
    DEF vars, server, rounds, list, news, DeleteInv, Quiet, InOrder, Polling, OnceRead, Once, Held, Known
  <1> QED BY <1>1, <1>2

\* As long as the rounds of the poll send in the order in which they read, a
\* workload that this page deleted is not shown again by a list read before
\* the delete, for any number of sockets, of rounds under way at once, of
\* lists on their way, of edits and of faults.
THEOREM DeletedStaysAway == Spec => []DeletedStaysGone
  <1>1. Init => DeleteInv
    BY DEF Init, DeleteInv, Quiet, InOrder, Polling, OnceRead, Once, Held, Known
  <1>2. TypeOK /\ OneConnection /\ DeleteInv /\ [Next]_vars => DeleteInv'
    BY DeleteStep
  <1>3. TypeOK /\ DeleteInv => DeletedStaysGone
    BY DEF TypeOK, ListTypeOK, DeleteInv, Held, DeletedStaysGone, NoStaleList, Lists
  <1> QED BY <1>1, <1>2, <1>3, TypeCorrect, KeepsOneConnection, PTL DEF Spec

=============================================================================
