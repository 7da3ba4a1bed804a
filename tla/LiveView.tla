------------------------------ MODULE LiveView ------------------------------
(***************************************************************************)
(* What a page of the web client shows of the workloads: the WebSocket all *)
(* its components share (src/services/ws.ts), the end of it in the server  *)
(* (backend/src/routes/ws.ts) and the list the status broadcasts fill      *)
(* (src/stores/workload-store.ts), which a delete empties ahead of them.   *)
(***************************************************************************)
EXTENDS Naturals, Sequences, FiniteSets

CONSTANTS
    Vms,          \* workloads
    Sockets,      \* connections the browser has not done with at once
    None,         \* no socket, no list
    Rounds,       \* rounds of the status poll that can be under way at once
    MaxAttempts,  \* MAX_RECONNECT_ATTEMPTS
    MaxRefs,      \* bound: components that hold the connection
    MaxInFlight,  \* bound: lists on their way to the client
    MaxEdits,     \* bound: workloads created and deleted
    MaxFaults     \* bound: stops, failures, expired sign-ins, kicks and reloads

ASSUME LiveAssumption ==
    /\ None \notin Sockets /\ \A vms \in SUBSET Vms : vms # None
    /\ IsFiniteSet(Sockets)
    /\ MaxAttempts \in Nat /\ MaxRefs \in Nat /\ MaxEdits \in Nat /\ MaxFaults \in Nat

VARIABLES
    up,         \* the server answers
    signedIn,   \* the cookie names a session
    registry,   \* the workloads there are
    poll,       \* what each round of the poll has read, if it is under way
    ahead,      \* history: the rounds that read before each and have not sent
    disordered, \* history: a round sent its list before an older one did
    sock,       \* the state of each socket
    wire,       \* the lists on their way on each socket
    ws,         \* the module's socket
    hooked,     \* the sockets with an onclose handler
    timer,      \* a reconnection is scheduled
    attempt,    \* reconnectAttempt
    refs,       \* refCount
    connected,  \* _connected
    kicked,     \* the page was told that the session is another's now
    shown,      \* the workload store's list
    pending,    \* _pendingDeletes
    deleted,    \* deletes whose answer is on its way
    gone,       \* history: deletes this page confirmed, not created since
    namesakes,  \* history: names created while an older one was still about
    unheard,    \* history: names this page deleted, and no list without them has come since
    muted,      \* history: names it deleted, and only empty lists were without them since
    unserved,   \* history: reconnections since the server last served one
    edits, faults

rounds == <<poll, ahead, disordered>>
server == <<up, signedIn, registry, rounds>>
client == <<ws, hooked, timer, attempt, refs, connected, kicked>>
news == <<unheard, muted>>
list == <<shown, pending, deleted, gone, namesakes, news>>
bounds == <<edits, faults>>
vars == <<server, sock, wire, client, list, unserved, bounds>>

\* A socket is "free", "connecting", "served", "refused" (accepted, then closed
\* with 4401), "replaced" (closed with 4402), "closing" by the page, or "doomed":
\* closed by the page while it was connecting, which is an error first.
SockStates == {"free", "connecting", "served", "refused", "replaced", "closing", "doomed"}
Free(s) == sock[s] = "free"
Lists   == SUBSET Vms

----------------------------------------------------------------------------
(* The shared connection.                                                  *)

\* openConnection()
Open(s) ==
    /\ Free(s)
    /\ sock' = [sock EXCEPT ![s] = "connecting"]
    /\ hooked' = hooked \cup {s}
    /\ ws' = s

\* acquireWs(): the first holder opens the connection.
Acquire ==
    /\ refs < MaxRefs
    /\ refs' = refs + 1
    /\ kicked' = (kicked /\ refs > 0)
    /\ IF refs = 0 /\ ws = None THEN \E s \in Sockets : Open(s)
                                ELSE UNCHANGED <<sock, hooked, ws>>
    /\ UNCHANGED <<server, wire, timer, attempt, connected, list, unserved, bounds>>

\* WebSocket.close()
Closed(s) == CASE sock[s] = "connecting"         -> "doomed"
               [] sock[s] \in {"free", "doomed"} -> sock[s]
               [] OTHER                          -> "closing"

\* Fault for the runs' mutants: the socket's end is still reported.
Mut_StayHooked == hooked

\* closeConnection() takes the onclose handler off the socket.
Unhooked == hooked \ {ws}

\* The release function: the last holder closes the connection.
Release ==
    /\ refs > 0
    /\ refs' = refs - 1
    /\ IF refs = 1
       THEN /\ timer' = FALSE
            /\ attempt' = 0
            /\ connected' = FALSE
            /\ ws' = None
            /\ hooked' = Unhooked
            /\ sock' = [s \in Sockets |-> IF s = ws THEN Closed(s) ELSE sock[s]]
            /\ wire' = [s \in Sockets |-> IF s = ws THEN <<>> ELSE wire[s]]
            /\ unserved' = 0
       ELSE UNCHANGED <<timer, attempt, connected, ws, hooked, sock, wire, unserved>>
    /\ UNCHANGED <<server, kicked, list, bounds>>

\* onopen: the upgrade succeeds before the cookie is looked at.
Opened(s) ==
    /\ sock[s] = "connecting" /\ up
    /\ sock' = [sock EXCEPT ![s] = IF signedIn THEN "served" ELSE "refused"]
    /\ connected' = TRUE
    /\ attempt' = 0
    /\ timer' = FALSE
    /\ unserved' = IF signedIn THEN 0 ELSE unserved
    /\ UNCHANGED <<server, wire, ws, hooked, refs, kicked, list, bounds>>

\* The server and the network end a socket.
CanEnd(s) ==
    \/ sock[s] \in {"refused", "replaced", "closing", "doomed"}
    \/ sock[s] = "connecting" /\ ~ up

Failed(s) == sock[s] \in {"connecting", "doomed"}

\* Fault for the runs' mutants: a socket that is gone stays the module's.
Mut_KeepSocket(s) == ws

\* onclose: the module's socket is gone.
Dropped(s) == None

\* scheduleReconnect()
Schedules == refs > 0 /\ ~ timer /\ attempt < MaxAttempts

\* onclose, after onerror if the connection failed.  onerror closes whichever
\* socket is the module's by then.
Ended(s) ==
    /\ CanEnd(s)
    /\ sock' = [o \in Sockets |-> IF o = s THEN "free"
                                  ELSE IF Failed(s) /\ o = ws THEN Closed(o) ELSE sock[o]]
    /\ wire' = [o \in Sockets |-> IF sock'[o] = "served" THEN wire[o] ELSE <<>>]
    /\ hooked' = hooked \ {s}
    /\ IF s \notin hooked
       THEN UNCHANGED <<ws, connected, kicked, timer, attempt, unserved>>
       ELSE /\ ws' = Dropped(s)
            /\ connected' = FALSE
            /\ kicked' = (kicked \/ sock[s] = "replaced")
            /\ IF sock[s] # "replaced" /\ Schedules
               THEN /\ timer' = TRUE
                    /\ attempt' = attempt + 1
                    /\ unserved' = IF unserved < MaxAttempts THEN unserved + 1 ELSE unserved
               ELSE UNCHANGED <<timer, attempt, unserved>>
    /\ UNCHANGED <<server, refs, list, bounds>>

\* The reconnection is due.
Reconnect ==
    /\ timer
    /\ timer' = FALSE
    /\ IF refs > 0 /\ ws = None THEN \E s \in Sockets : Open(s)
                                ELSE UNCHANGED <<sock, hooked, ws>>
    /\ UNCHANGED <<server, wire, attempt, refs, connected, kicked, list, unserved, bounds>>

----------------------------------------------------------------------------
(* The list.                                                               *)

Polling(k) == poll[k] # None

\* A round of the poll reads the registry.
Read(k) ==
    /\ ~ Polling(k) /\ up
    /\ \E s \in Sockets : sock[s] = "served"
    /\ poll' = [poll EXCEPT ![k] = registry]
    /\ ahead' = [ahead EXCEPT ![k] = {j \in Rounds : Polling(j)}]
    /\ UNCHANGED disordered
    /\ UNCHANGED <<up, signedIn, registry, sock, wire, client, list, unserved, bounds>>

\* It is done, and its list goes to the clients.
Broadcast(k) ==
    /\ Polling(k)
    /\ \A s \in Sockets : Len(wire[s]) < MaxInFlight
    /\ poll' = [poll EXCEPT ![k] = None]
    /\ ahead' = [j \in Rounds |-> IF j = k THEN {} ELSE ahead[j] \ {k}]
    /\ disordered' = (disordered \/ ahead[k] # {})
    /\ wire' = [s \in Sockets |-> IF sock[s] = "served" THEN Append(wire[s], poll[k])
                                                        ELSE wire[s]]
    /\ UNCHANGED <<up, signedIn, registry, sock, client, list, unserved, bounds>>

\* Fault for the runs' mutants: a delete is not remembered.
Mut_Remove(v) == shown' = shown \ {v} /\ UNCHANGED pending

\* removeWorkload()
Remove(v) == shown' = shown \ {v} /\ pending' = pending \cup {v}

\* Fault for the runs' mutants: a name stays removed.
Mut_KeepPending(vms) == pending

\* The removed names that a list still has stay removed.
StillPending(vms) == pending \cap vms

\* updateWorkloads(), which the pages call with a list that is not empty.
Update(vms) ==
    IF vms = {} THEN UNCHANGED <<shown, pending>>
    ELSE /\ shown' = vms \ pending
         /\ pending' = StillPending(vms)

\* What the list tells of the deleted names it is without.
Hears(vms) ==
    /\ unheard' = unheard \cap vms
    /\ muted' = IF vms = {} THEN muted \cup unheard ELSE muted \cap vms

\* onmessage
Deliver(s) ==
    /\ sock[s] = "served" /\ wire[s] # <<>>
    /\ wire' = [wire EXCEPT ![s] = Tail(@)]
    /\ Update(Head(wire[s])) /\ Hears(Head(wire[s]))
    /\ UNCHANGED <<server, sock, client, deleted, gone, namesakes, unserved, bounds>>

\* The server deletes a workload; the answer is on its way to the page.
Delete(v) ==
    /\ edits < MaxEdits /\ edits' = edits + 1
    /\ up /\ v \in registry /\ v \in shown \ deleted
    /\ registry' = registry \ {v}
    /\ deleted' = deleted \cup {v}
    /\ UNCHANGED <<up, signedIn, rounds, sock, wire, client, shown, pending, gone, namesakes,
                   news, unserved, faults>>

\* The page has the answer.
Confirm(v) ==
    /\ v \in deleted
    /\ deleted' = deleted \ {v}
    /\ Remove(v)
    /\ unheard' = unheard \cup {v} /\ UNCHANGED muted
    /\ gone' = IF v \in registry \cup namesakes THEN gone ELSE gone \cup {v}
    /\ UNCHANGED <<server, sock, wire, client, namesakes, unserved, bounds>>

\* A round under way has read the workload.
IsRead(v) == \E k \in Rounds : Polling(k) /\ v \in poll[k]

\* The page shows the workload, or will by a list read already.
About(v) ==
    \/ v \in shown \/ IsRead(v)
    \/ \E s \in Sockets : \E i \in DOMAIN wire[s] : v \in wire[s][i]

\* A workload is created here or elsewhere.
Create(v) ==
    /\ edits < MaxEdits /\ edits' = edits + 1
    /\ up /\ v \notin registry
    /\ registry' = registry \cup {v}
    /\ gone' = gone \ {v}
    /\ namesakes' = IF About(v) THEN namesakes \cup {v} ELSE namesakes
    /\ UNCHANGED <<up, signedIn, rounds, sock, wire, client, shown, pending, deleted, news,
                   unserved, faults>>

----------------------------------------------------------------------------
(* Faults.                                                                 *)

Fault == faults < MaxFaults /\ faults' = faults + 1 /\ UNCHANGED edits

\* The server stops; its connections, and what was on its way, are lost.
Stop ==
    /\ Fault /\ up
    /\ up' = FALSE
    /\ poll' = [k \in Rounds |-> None] /\ ahead' = [k \in Rounds |-> {}]
    /\ sock' = [s \in Sockets |-> Closed(s)]
    /\ wire' = [s \in Sockets |-> <<>>]
    /\ deleted' = {}
    /\ UNCHANGED <<signedIn, registry, disordered, client, shown, pending, gone, namesakes,
                   news, unserved>>

Start ==
    /\ ~ up
    /\ up' = TRUE
    /\ UNCHANGED <<signedIn, registry, rounds, sock, wire, client, list, unserved, bounds>>

\* A connection attempt or a connection fails while the server runs.
Break(s) ==
    /\ Fault /\ sock[s] \in {"connecting", "served"}
    /\ sock' = [sock EXCEPT ![s] = Closed(s)]
    /\ wire' = [wire EXCEPT ![s] = <<>>]
    /\ UNCHANGED <<server, client, list, unserved>>

\* The cookie's session runs out.
Expire ==
    /\ Fault /\ signedIn
    /\ signedIn' = FALSE
    /\ UNCHANGED <<up, registry, rounds, sock, wire, client, list, unserved>>

\* The user signs in elsewhere: the server closes this user's connections.
Kick ==
    /\ Fault /\ up /\ signedIn
    /\ signedIn' = FALSE
    /\ sock' = [s \in Sockets |-> IF sock[s] = "served" THEN "replaced" ELSE sock[s]]
    /\ wire' = [s \in Sockets |-> <<>>]
    /\ UNCHANGED <<up, registry, rounds, client, list, unserved>>

\* The user signs in here, or a request renews the cookie.
SignIn ==
    /\ up /\ ~ signedIn
    /\ signedIn' = TRUE
    /\ UNCHANGED <<up, registry, rounds, sock, wire, client, list, unserved, bounds>>

\* The page is loaded again.
Reload ==
    /\ Fault
    /\ sock' = [s \in Sockets |-> "free"] /\ wire' = [s \in Sockets |-> <<>>]
    /\ ws' = None /\ hooked' = {} /\ timer' = FALSE /\ attempt' = 0
    /\ refs' = 0 /\ connected' = FALSE /\ kicked' = FALSE
    /\ shown' = {} /\ pending' = {} /\ deleted' = {} /\ gone' = {}
    /\ namesakes' = {v \in namesakes : IsRead(v)} /\ unheard' = {} /\ muted' = {}
    /\ disordered' = FALSE
    /\ unserved' = 0
    /\ UNCHANGED <<up, signedIn, registry, poll, ahead>>

Init ==
    /\ up = TRUE /\ signedIn = TRUE
    /\ registry \in Lists
    /\ poll = [k \in Rounds |-> None] /\ ahead = [k \in Rounds |-> {}] /\ disordered = FALSE
    /\ sock = [s \in Sockets |-> "free"] /\ wire = [s \in Sockets |-> <<>>]
    /\ ws = None /\ hooked = {} /\ timer = FALSE /\ attempt = 0
    /\ refs = 0 /\ connected = FALSE /\ kicked = FALSE
    /\ shown = {} /\ pending = {} /\ deleted = {} /\ gone = {} /\ namesakes = {}
    /\ unheard = {} /\ muted = {}
    /\ unserved = 0 /\ edits = 0 /\ faults = 0

Next ==
    \/ Acquire \/ Release \/ Reconnect
    \/ \E s \in Sockets : Opened(s) \/ Ended(s) \/ Deliver(s) \/ Break(s)
    \/ \E k \in Rounds : Read(k) \/ Broadcast(k)
    \/ \E v \in Vms : Delete(v) \/ Confirm(v) \/ Create(v)
    \/ Stop \/ Start \/ Expire \/ Kick \/ SignIn \/ Reload

Spec == Init /\ [][Next]_vars

\* Timers fire, connections open or fail, the poll goes round and what is on
\* a connection arrives.  Users, and the server's start, are under no duty.
Fairness ==
    /\ WF_vars(Reconnect)
    /\ \A s \in Sockets : WF_vars(Opened(s)) /\ WF_vars(Ended(s)) /\ WF_vars(Deliver(s))
    /\ \A k \in Rounds : WF_vars(Read(k)) /\ WF_vars(Broadcast(k))
    /\ \A v \in Vms : WF_vars(Confirm(v))

FairSpec == Spec /\ Fairness

----------------------------------------------------------------------------
(* Properties.                                                             *)

\* Every variable has its type.
SocketTypeOK ==
    /\ sock \in [Sockets -> SockStates]
    /\ ws \in Sockets \cup {None} /\ hooked \subseteq Sockets
    /\ timer \in BOOLEAN /\ connected \in BOOLEAN /\ kicked \in BOOLEAN
    /\ attempt \in 0..MaxAttempts /\ refs \in 0..MaxRefs
    /\ unserved \in 0..MaxAttempts

ListTypeOK ==
    /\ registry \in Lists
    /\ poll \in [Rounds -> Lists \cup {None}]
    /\ ahead \in [Rounds -> SUBSET Rounds] /\ disordered \in BOOLEAN
    /\ wire \in [Sockets -> Seq(Lists)]
    /\ shown \in Lists /\ pending \in Lists /\ deleted \in Lists
    /\ gone \in Lists /\ namesakes \in Lists
    /\ unheard \in Lists /\ muted \in Lists

TypeOK ==
    /\ SocketTypeOK /\ ListTypeOK
    /\ up \in BOOLEAN /\ signedIn \in BOOLEAN
    /\ edits \in 0..MaxEdits /\ faults \in 0..MaxFaults

Using(s) == sock[s] \in {"connecting", "served", "refused", "replaced"}

\* However holders come and go while sockets are opening, closing or failing,
\* the page uses one connection at a time, it is the module's own and the one
\* whose end will be noticed, and none is used or scheduled once the last
\* holder has left (openConnection() and closeConnection() of ws.ts).
OneConnection ==
    /\ \A s \in Sockets : Using(s) => s = ws /\ s \in hooked
    /\ ws # None => ws \in hooked /\ ~ Free(ws)
    /\ refs = 0 => ws = None /\ ~ timer
    /\ timer => ws = None
    /\ connected => ws # None

\* The delays grow until the server serves the client again ("the client backs
\* off exponentially", docs/ADMIN-GUIDE.md): the attempts the delay is computed
\* from are as many as were made in vain.
BacksOff == timer => attempt >= unserved

\* A workload that this page deleted is not shown again by a list read before
\* the delete ("prevents stale WS broadcasts from re-adding a just-deleted
\* VM", workload-store.ts), unless it was created before an older one of its
\* name had left the page and the lists on their way.
NoStaleList == shown \cap gone = {}

\* That holds as long as the rounds of the poll, however they overlap, send
\* their lists in the order in which they read them.
DeletedStaysGone == disordered \/ NoStaleList

Live == ws # None /\ sock[ws] = "served" /\ connected
GaveUp == ws = None /\ ~ timer /\ (attempt = MaxAttempts \/ kicked)

\* A page that holds the connection while the server runs and the user is
\* signed in is connected in the end, whatever sockets were opened, closed
\* or failed before, unless it gave up after MAX_RECONNECT_ATTEMPTS or was
\* told that the session is another's.
Reconnects == <>[](refs > 0 /\ up /\ signedIn) => <>[](Live \/ GaveUp)

\* While the page stays connected and there are workloads, it shows them all and no others in
\* the end.  Two kinds of deleted names may be missing for ever once they are created again: those
\* of which no list was without them, which updateWorkloads() keeps out by design, and those of
\* which only empty lists were, because the pages drop a list that is empty (WeaverPage.vue:635,
\* WorkloadDetailPage.vue:761).
ListCatchesUp ==
    <>[](Live /\ registry # {}) =>
        <>[](LET missing == unheard \cup muted
             IN  missing \subseteq registry /\ shown = registry \ missing)

\* A deleted name counts again from any list that confirms it is gone ("Clear names the backend
\* now confirms are gone", workload-store.ts:129).
ConfirmedComeBack ==
    <>[](Live /\ registry # {}) => <>[](shown = registry \ unheard)

=============================================================================
