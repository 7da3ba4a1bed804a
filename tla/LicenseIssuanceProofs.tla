----------------------- MODULE LicenseIssuanceProofs -----------------------
(* Proofs about LicenseIssuance for every number of subscriptions, handlers,  *)
(* periods, repeated deliveries, failures and restarts.                       *)
EXTENDS LicenseIssuance, TLAPS

Handler == [at : {"idle", "asked", "minted", "persist", "write"},
            event : Events \cup {None}, exp : 0..Periods, bytes : Rows \cup {None}]

\* What a handler in progress holds: an event that was sent, for a checkout or a renewal the period
\* Stripe answered, and at the write the records as they were when the file was opened.
Holds(h) ==
    /\ IF handler[h].at = "idle" THEN handler[h] = Idle ELSE handler[h].event \in sent
    /\ handler[h].at \in {"asked", "minted"} => Kind(h) \in {"checkout", "updated"}
    /\ handler[h].at = "minted" => handler[h].exp > 0
    /\ handler[h].at = "write" => handler[h].bytes \in Rows

Types ==
    /\ TypeOK
    /\ \A e \in sent : paid[e.sub] > 0
    /\ \A h \in Handlers : Holds(h)

LEMMA IdleIsHandler ==
    Idle \in Handler /\ Idle.at = "idle" /\ Idle.event = None /\ Idle.exp = 0 /\ Idle.bytes = None
BY BoundsAssumption DEF Idle, Handler

LEMMA InitTypes == Init => Types
<1> SUFFICES ASSUME Init PROVE Types
  OBVIOUS
<1>1. NoRows \in Rows
  BY DEF Rows, NoRows
<1>2. handler \in [Handlers -> Handler]
  BY IdleIsHandler DEF Init
<1>3. TypeOK
  <2>1. paid \in [Subs -> 0..Periods] /\ issued \in [Subs -> Nat] /\ mailed \in [Subs -> 0..Periods]
    BY BoundsAssumption DEF Init
  <2>2. again \in 0..MaxAgain /\ faults \in 0..MaxFaults /\ crashes \in 0..MaxCrashes
    BY BoundsAssumption DEF Init
  <2>. QED BY <1>1, <1>2, <2>1, <2>2 DEF Init, TypeOK, Handler
<1>4. \A h \in Handlers : Holds(h)
  BY IdleIsHandler DEF Init, Holds
<1>. QED BY <1>3, <1>4 DEF Init, Types

\* A step of one handler that leaves Stripe alone.
LEMMA OneHandlerKeepsTypes ==
    ASSUME Types, NEW h \in Handlers, NEW r \in Handler, handler' = [handler EXCEPT ![h] = r],
           UNCHANGED stripe,
           due' \subseteq due, records' \in Rows, file' \in Rows \cup {Torn},
           again' \in 0..MaxAgain, faults' \in 0..MaxFaults, crashes' = crashes,
           revoked' \subseteq Subs, lost' = lost, raced' \in BOOLEAN,
           overlaps' \subseteq Subs \X {"checkout", "updated", "deleted"} \X {"checkout", "updated", "deleted"},
           issued' \in [Subs -> Nat], mailed' \in [Subs -> 0..Periods],
           Holds(h)'
    PROVE  Types'
<1>1. handler \in [Handlers -> Handler]
  BY DEF Types, TypeOK, Handler
<1>2. handler' \in [Handlers -> Handler] /\ handler'[h] = r /\ \A g \in Handlers \ {h} : handler'[g] = handler[g]
  BY <1>1
<1>3. TypeOK'
  BY <1>2 DEF Types, TypeOK, Handler, stripe
<1>4. \A g \in Handlers : Holds(g)'
  BY <1>2 DEF Types, Holds, Kind, stripe
<1>. QED BY <1>3, <1>4 DEF Types, stripe

\* A step of Stripe: a subscription is paid or ends, and an event is sent.
LEMMA StripeKeepsTypes ==
    ASSUME Types, NEW s \in Subs, Buy(s) \/ Renew(s) \/ End(s)
    PROVE  Types'
<1>0. TypeOK /\ (\A e \in sent : paid[e.sub] > 0) /\ (\A h \in Handlers : Holds(h))
  BY DEF Types
<1>1. /\ paid' \in [Subs -> 0..Periods] /\ (\A t \in Subs : paid[t] > 0 => paid'[t] > 0)
      /\ paid'[s] > 0 /\ ended' \subseteq Subs
      /\ UNCHANGED <<store, handler, bounds, mail, past>>
  BY <1>0, BoundsAssumption DEF Buy, Renew, End, TypeOK
<1>2. \E e \in Events : e.sub = s /\ Emit(e)
  <2>1. CASE Buy(s)
    <3>1. [kind |-> "checkout", sub |-> s, period |-> 1] \in Events
      BY BoundsAssumption DEF Events
    <3>. QED BY <2>1, <3>1 DEF Buy
  <2>2. CASE Renew(s)
    <3>1. [kind |-> "updated", sub |-> s, period |-> paid[s] + 1] \in Events
      BY <1>0, <2>2, BoundsAssumption DEF Renew, Events, TypeOK
    <3>. QED BY <2>2, <3>1 DEF Renew
  <2>3. CASE End(s)
    <3>1. [kind |-> "deleted", sub |-> s, period |-> 0] \in Events
      BY BoundsAssumption DEF Events
    <3>. QED BY <2>3, <3>1 DEF End
  <2>. QED BY <2>1, <2>2, <2>3
<1>3. PICK e \in Events : e.sub = s /\ Emit(e)
  BY <1>2
<1>4. TypeOK'
  BY <1>0, <1>1, <1>3 DEF TypeOK, Emit, store, bounds, mail, past
<1>5. \A f \in sent' : paid'[f.sub] > 0
  BY <1>0, <1>1, <1>3 DEF Emit, TypeOK, Events
<1>6. \A h \in Handlers : Holds(h)'
  BY <1>0, <1>1, <1>3 DEF Holds, Kind, Emit
<1>. QED BY <1>4, <1>5, <1>6 DEF Types


\* What a handler in progress on event e holds.
Started(e, at) == [at |-> at, event |-> e, exp |-> 0, bytes |-> None]

LEMMA StartedIsHandler ==
    ASSUME NEW e \in Events, NEW at \in {"asked", "persist"}
    PROVE  /\ Started(e, at) \in Handler
           /\ Started(e, at).at = at /\ Started(e, at).event = e
BY BoundsAssumption DEF Started, Handler

LEMMA StartStarts ==
    ASSUME NEW h \in Handlers, NEW e, NEW at, Start(h, e, at)
    PROVE  handler' = [handler EXCEPT ![h] = Started(e, at)]
BY DEF Start, Started

\* The guards of the events: nothing happens, a handler starts, or a licence is revoked.
LEMMA DeliverCases ==
    ASSUME NEW h \in Handlers, NEW e, Deliver(h, e)
    PROVE  \/ /\ UNCHANGED <<handler, records>>
              /\ e.kind = "checkout" => records[e.sub] # None
              /\ e.kind = "deleted" => ~Live(e.sub)
           \/ /\ handler' = [handler EXCEPT ![h] = Started(e, "asked")]
              /\ UNCHANGED records
              /\ e.kind = "updated" \/ (e.kind = "checkout" /\ records[e.sub] = None)
           \/ /\ handler' = [handler EXCEPT ![h] = Started(e, "persist")]
              /\ e.kind = "deleted" /\ Live(e.sub)
              /\ records' = [records EXCEPT ![e.sub].live = FALSE]
<1>1. CASE e.kind = "checkout" /\ Checkout(h, e)
  BY <1>1, StartStarts DEF Checkout, Skip
<1>2. CASE e.kind = "updated" /\ Updated(h, e)
  BY <1>2, StartStarts DEF Updated, Skip
<1>3. CASE e.kind = "deleted" /\ Deleted(h, e)
  BY <1>3, StartStarts DEF Deleted, Skip
<1>. QED BY <1>1, <1>2, <1>3 DEF Deliver

LEMMA HandlerStepKeepsTypes ==
    ASSUME Types, NEW h \in Handlers,
           Answer(h) \/ Land(h) \/ Open(h) \/ Write(h) \/ Unreachable(h) \/ WriteFails(h)
    PROVE  Types'
<1>0. TypeOK /\ Holds(h) /\ handler[h] \in Handler /\ Idle \in Handler /\ Idle.at = "idle"
  BY IdleIsHandler DEF Types, TypeOK, Handler
<1>1. /\ handler[h].at \in {"idle", "asked", "minted", "persist", "write"}
      /\ handler[h].event \in Events \cup {None} /\ handler[h].exp \in 0..Periods
      /\ handler[h].bytes \in Rows \cup {None}
  BY <1>0 DEF Handler
<1>2. handler[h].at # "idle" => handler[h].event \in sent /\ Sub(h) \in Subs /\ paid[Sub(h)] \in 1..Periods
  BY <1>0, BoundsAssumption DEF Holds, Types, TypeOK, Events, Sub
<1>3. CASE Answer(h)
  <2> DEFINE r == [at |-> "minted", event |-> handler[h].event, exp |-> paid[Sub(h)], bytes |-> None]
  <2>1. r \in Handler
    BY <1>1, <1>2, <1>3 DEF Handler, Answer
  <2>2. handler' = [handler EXCEPT ![h] = r]
    BY <1>3 DEF Answer, Continue
  <2>3. handler'[h] = r
    BY <1>0, <2>2 DEF TypeOK
  <2>4. Holds(h)'
    BY <1>0, <1>2, <1>3, <2>3 DEF Holds, Kind, Answer, stripe
  <2>. QED BY <1>0, <1>3, <2>1, <2>2, <2>4, OneHandlerKeepsTypes DEF Answer, TypeOK, stripe, store, bounds, mail, past
<1>4. CASE Land(h)
  <2>0. Minted(h) \in Record /\ handler[h].at = "minted" /\ Kind(h) \in {"checkout", "updated"}
    BY <1>0, <1>1, <1>4, BoundsAssumption DEF Land, Minted, Record, Holds
  <2>1. CASE Persist(h, Minted(h))
    <3> DEFINE r == [at |-> "persist", event |-> handler[h].event, exp |-> handler[h].exp, bytes |-> None]
    <3>1. r \in Handler
      BY <1>1 DEF Handler
    <3>2. handler' = [handler EXCEPT ![h] = r]
      BY <2>1 DEF Persist, Continue
    <3>3. handler'[h] = r
      BY <1>0, <3>2 DEF TypeOK
    <3>4. Holds(h)'
      BY <1>2, <2>0, <3>3, <1>4 DEF Holds, Kind, Land, stripe
    <3>5. records' \in Rows
      BY <1>0, <1>2, <2>0, <2>1 DEF Persist, TypeOK, Rows
    <3>. QED BY <1>0, <1>4, <2>1, <3>1, <3>2, <3>4, <3>5, OneHandlerKeepsTypes
             DEF Land, Persist, TypeOK, stripe, bounds, mail, past
  <2>2. CASE handler' = [handler EXCEPT ![h] = Idle] /\ Ok(handler[h].event) /\ UNCHANGED records
    <3>1. Holds(h)'
      BY <1>0, <2>2 DEF Holds, TypeOK
    <3>. QED BY <1>0, <1>4, <2>2, <3>1, OneHandlerKeepsTypes DEF Land, Ok, TypeOK, stripe, bounds, mail, past
  <2>. QED BY <1>4, <2>1, <2>2 DEF Land, Save, RenewRecord
<1>5. CASE Open(h)
  <2> DEFINE r == [at |-> "write", event |-> handler[h].event, exp |-> handler[h].exp, bytes |-> records]
  <2>1. r \in Handler
    BY <1>0, <1>1 DEF Handler, TypeOK
  <2>2. handler' = [handler EXCEPT ![h] = r]
    BY <1>5 DEF Open, Continue
  <2>3. handler'[h] = r
    BY <1>0, <2>2 DEF TypeOK
  <2>4. Holds(h)'
    BY <1>0, <1>2, <1>5, <2>3 DEF Holds, Kind, Open, stripe, TypeOK
  <2>. QED BY <1>0, <1>5, <2>1, <2>2, <2>4, OneHandlerKeepsTypes DEF Open, TypeOK, stripe, bounds, mail
<1>6. CASE Write(h)
  <2>1. handler[h].bytes \in Rows /\ file' \in Rows \cup {Torn} /\ due' \subseteq due /\ Sub(h) \in Subs
    BY <1>0, <1>2, <1>6 DEF Holds, Write, Ok
  <2>2. issued' \in [Subs -> Nat] /\ mailed' \in [Subs -> 0..Periods]
    <3>1. issued \in [Subs -> Nat] /\ mailed \in [Subs -> 0..Periods] /\ Mail(h)
      BY <1>0, <1>6 DEF Write, TypeOK
    <3>2. issued' = [issued EXCEPT ![Sub(h)] = @ + 1] \/ UNCHANGED issued
      BY <3>1 DEF Mail
    <3>3. mailed' = [mailed EXCEPT ![Sub(h)] = handler[h].exp] \/ UNCHANGED mailed
      BY <3>1 DEF Mail
    <3>. QED BY <1>1, <3>1, <3>2, <3>3
  <2>3. Holds(h)'
    BY <1>0, <1>6 DEF Holds, TypeOK, Write
  <2>. QED BY <1>0, <1>6, <2>1, <2>2, <2>3, OneHandlerKeepsTypes DEF Write, TypeOK, stripe, bounds
<1>7. CASE Unreachable(h) \/ WriteFails(h)
  <2>1. handler' = [handler EXCEPT ![h] = Idle] /\ due' \subseteq due /\ faults' \in 0..MaxFaults
        /\ UNCHANGED <<stripe, store, again, crashes, mail, past>>
    BY <1>0, <1>7, BoundsAssumption DEF Unreachable, WriteFails, Ok, TypeOK
  <2>2. Holds(h)'
    BY <1>0, <2>1 DEF Holds, TypeOK
  <2>. QED BY <1>0, <2>1, <2>2, OneHandlerKeepsTypes DEF TypeOK, store, mail, past
<1>. QED BY <1>3, <1>4, <1>5, <1>6, <1>7

LEMMA CrashKeepsTypes ==
    ASSUME Types, Crash PROVE Types'
<1>0. TypeOK /\ Idle \in Handler /\ Idle.at = "idle"
  BY IdleIsHandler DEF Types
<1>1. records' \in Rows
  BY <1>0 DEF Crash, TypeOK, Rows, NoRows
<1>2. handler' \in [Handlers -> Handler] /\ crashes' \in 0..MaxCrashes /\ lost' \subseteq Subs
  BY <1>0, BoundsAssumption DEF Crash, TypeOK
<1>3. TypeOK'
  BY <1>0, <1>1, <1>2 DEF Crash, TypeOK, Handler, stripe, mail
<1>4. \A h \in Handlers : Holds(h)'
  BY <1>0 DEF Crash, Holds
<1>. QED BY <1>3, <1>4 DEF Types, Crash, stripe

LEMMA StutterKeepsTypes ==
    ASSUME Types, UNCHANGED vars PROVE Types'
BY DEF Types, TypeOK, Holds, Kind, vars, stripe, store, bounds, mail, past

LEMMA DeliverKeepsTypes ==
    ASSUME Types, NEW h \in Handlers, NEW e \in sent, Deliver(h, e)
    PROVE  Types'
<1>0. TypeOK /\ Holds(h) /\ e \in Events /\ e.sub \in Subs /\ handler[h] = Idle
      /\ handler \in [Handlers -> Handler] /\ Idle \in Handler /\ Idle.at = "idle"
  BY IdleIsHandler DEF Types, TypeOK, Events, Handler, Deliver
<1>1. due' \subseteq due
  BY DEF Deliver, Checkout, Updated, Deleted, Skip, Ok
<1>2. again' \in 0..MaxAgain
  BY <1>0, BoundsAssumption DEF Deliver, Comes, TypeOK
<1>3. records' \in Rows
  <2>1. CASE UNCHANGED records
    BY <1>0, <2>1 DEF TypeOK
  <2>2. CASE Live(e.sub) /\ records' = [records EXCEPT ![e.sub].live = FALSE]
    <3>1. records[e.sub] \in Record
      BY <1>0, <2>2 DEF Live, TypeOK, Rows
    <3>2. [records[e.sub] EXCEPT !.live = FALSE] \in Record
      BY <3>1 DEF Record
    <3>3. records' = [records EXCEPT ![e.sub] = [records[e.sub] EXCEPT !.live = FALSE]]
      BY <2>2
    <3>. QED BY <1>0, <3>2, <3>3 DEF TypeOK, Rows
  <2>. QED BY <2>1, <2>2, DeliverCases
<1>4. revoked' \subseteq Subs
  BY <1>0 DEF Deliver, Acknowledge, TypeOK
<1>5. overlaps' \subseteq Subs \X {"checkout", "updated", "deleted"} \X {"checkout", "updated", "deleted"}
  <2>1. \A g \in Handlers : handler[g] # Idle /\ Sub(g) = e.sub => Kind(g) \in {"checkout", "updated", "deleted"}
    BY <1>0 DEF Types, TypeOK, Holds, Kind, Events
  <2>. QED BY <1>0, <2>1 DEF Deliver, TypeOK, InProgress, Events
<1>6. UNCHANGED stripe /\ UNCHANGED <<file, faults, crashes, mail, raced, lost>>
  BY DEF Deliver
<1>7. CASE UNCHANGED handler
  <2>1. handler' = [handler EXCEPT ![h] = Idle]
    BY <1>0, <1>7
  <2>2. Holds(h)'
    BY <1>0, <1>7 DEF Holds
  <2>. QED BY <1>0, <1>1, <1>2, <1>3, <1>4, <1>5, <1>6, <2>1, <2>2, OneHandlerKeepsTypes DEF TypeOK, mail
<1>8. ASSUME NEW at \in {"asked", "persist"}, handler' = [handler EXCEPT ![h] = Started(e, at)],
             at = "asked" => e.kind \in {"checkout", "updated"}
      PROVE  Types'
  <2>1. Started(e, at) \in Handler /\ handler'[h] = Started(e, at)
    BY <1>0, <1>8, StartedIsHandler
  <2>2. Holds(h)'
    BY <1>0, <1>6, <1>8, <2>1, StartedIsHandler DEF Holds, Kind, stripe
  <2>. QED BY <1>0, <1>1, <1>2, <1>3, <1>4, <1>5, <1>6, <1>8, <2>1, <2>2, OneHandlerKeepsTypes DEF TypeOK, mail
<1>. QED BY <1>7, <1>8, DeliverCases

LEMMA NextKeepsTypes ==
    ASSUME Types, [Next]_vars PROVE Types'
BY StripeKeepsTypes, DeliverKeepsTypes, HandlerStepKeepsTypes, CrashKeepsTypes, StutterKeepsTypes DEF Next, Step

LEMMA TypesHold == Spec => []Types
BY InitTypes, NextKeepsTypes, PTL DEF Spec

\* The state has its types: in particular a key is minted for a period that was paid.
THEOREM TypeCorrect == Spec => []TypeOK
<1>1. Types => TypeOK
  BY DEF Types
<1>. QED BY <1>1, TypesHold, PTL

----------------------------------------------------------------------------

Busy(g, s, k) == handler[g].at # "idle" /\ Kind(g) = k /\ Sub(g) = s

\* The checkouts of a subscription come one at a time, and begin when it has no record.
OneCheckout(s) ==
    \A g, h \in Handlers : Busy(g, s, "checkout") /\ Busy(h, s, "checkout") => g = h
CheckoutRecord(s) ==
    \A g \in Handlers : Busy(g, s, "checkout") => (records[s] = None <=> handler[g].at \in {"asked", "minted"})

\* A cancellation in progress, and one that was answered, leaves a record that is not live.
Cancelled(s) == records[s] # None /\ ~records[s].live
Cancels(s) ==
    /\ \A g \in Handlers : Busy(g, s, "deleted") => Cancelled(s)
    /\ s \in revoked \ lost => Cancelled(s)

\* What was issued is on record, and was issued once.
Counted(s) ==
    s \notin lost =>
        /\ issued[s] > 0 => records[s] # None
        /\ \A g \in Handlers : Busy(g, s, "checkout") => issued[s] = 0
        /\ issued[s] <= 1

Undisturbed(s) == <<s, "checkout", "checkout">> \notin overlaps
SubInv(s) == OneCheckout(s) /\ CheckoutRecord(s) /\ Cancels(s) /\ Counted(s)
IInv == \A s \in Subs : Undisturbed(s) => SubInv(s)

\* One write at a time empties the file and fills it with the records, unless they change again.
FileInv ==
    (faults = 0 /\ crashes = 0 /\ ~raced) =>
        /\ \A g, h \in Handlers : handler[g].at = "write" /\ handler[h].at = "write" => g = h
        /\ \A h \in Handlers : handler[h].at = "write" => file = Torn
        /\ (\A h \in Handlers : handler[h].at # "persist") =>
              /\ \A h \in Handlers : handler[h].at = "write" => handler[h].bytes = records
              /\ (\A h \in Handlers : handler[h].at # "write") => file = records

\* A handler goes on with its event without changing the store, or has done with it.
LEMMA GoesOn ==
    ASSUME Types, NEW s \in Subs, SubInv(s), NEW h \in Handlers, NEW r \in Handler,
           handler' = [handler EXCEPT ![h] = r], UNCHANGED <<records, issued, revoked, lost>>,
           \/ r.at = "idle"
           \/ /\ handler[h].at # "idle" /\ r.event = handler[h].event
              /\ r.at \in {"asked", "minted"} <=> handler[h].at \in {"asked", "minted"}
    PROVE  SubInv(s)'
<1>1. handler'[h] = r /\ \A g \in Handlers \ {h} : handler'[g] = handler[g]
  BY DEF Types, TypeOK
<1>2. \A g \in Handlers, k \in {"checkout", "updated", "deleted"} :
         Busy(g, s, k)' => /\ Busy(g, s, k)
                           /\ handler'[g].at \in {"asked", "minted"} <=> handler[g].at \in {"asked", "minted"}
  BY <1>1 DEF Busy, Kind, Sub
<1>. QED BY <1>2 DEF SubInv, OneCheckout, CheckoutRecord, Cancels, Cancelled, Counted

\* A handler begins: a checkout when there is no record and no other checkout, a renewal, or a
\* cancellation when the record is live.
LEMMA DeliverKeepsSub ==
    ASSUME Types, NEW s \in Subs, SubInv(s), NEW h \in Handlers, NEW e \in sent, Deliver(h, e), Undisturbed(s)'
    PROVE  SubInv(s)'
<1>0. e \in Events /\ e.sub \in Subs /\ handler[h] = Idle /\ Idle.at = "idle" /\ handler \in [Handlers -> Handler]
      /\ records \in Rows /\ UNCHANGED <<issued, mailed, lost>>
  BY IdleIsHandler DEF Types, TypeOK, Events, Handler, Deliver, mail
<1>1. s \in revoked' \ revoked => e.kind = "deleted" /\ e \notin due' /\ e.sub = s /\ records[s] # None
  BY DEF Deliver, Acknowledge
<1>2. revoked \subseteq revoked'
  BY DEF Deliver, Acknowledge
<1>3. CASE UNCHANGED <<handler, records>> /\ (e.kind = "deleted" => ~Live(e.sub))
  <2>1. s \in revoked' \ revoked => Cancelled(s)
    BY <1>1, <1>3 DEF Live, Cancelled
  <2>2. \A g \in Handlers, k \in {"checkout", "updated", "deleted"} : Busy(g, s, k)' = Busy(g, s, k)
    BY <1>3 DEF Busy, Kind, Sub
  <2>. QED BY <1>0, <1>3, <2>1, <2>2 DEF SubInv, OneCheckout, CheckoutRecord, Cancels, Cancelled, Counted
<1>4. CASE /\ handler' = [handler EXCEPT ![h] = Started(e, "asked")] /\ UNCHANGED records
           /\ e.kind = "updated" \/ (e.kind = "checkout" /\ records[e.sub] = None)
  <2>1. /\ handler'[h].at = "asked" /\ handler'[h].event = e
        /\ \A g \in Handlers \ {h} : handler'[g] = handler[g]
    BY <1>0, <1>4, StartedIsHandler
  <2>2. \A g \in Handlers, k \in {"checkout", "updated", "deleted"} :
           Busy(g, s, k)' <=> (Busy(g, s, k) \/ (g = h /\ e.sub = s /\ e.kind = k))
    BY <1>0, <2>1 DEF Busy, Kind, Sub
  <2>3. ~Busy(h, s, "checkout")
    BY <1>0 DEF Busy
  <2>4. e.kind = "checkout" /\ e.sub = s => \A g \in Handlers : ~Busy(g, s, "checkout")
    <3> SUFFICES ASSUME e.kind = "checkout", e.sub = s, NEW g \in Handlers, Busy(g, s, "checkout") PROVE FALSE
      OBVIOUS
    <3>1. handler[g] # Idle
      BY <1>0 DEF Busy
    <3>2. Kind(g) = "checkout" /\ Sub(g) = s
      BY DEF Busy
    <3>3. "checkout" \in InProgress(s)
      BY <3>1, <3>2 DEF InProgress
    <3>4. <<s, "checkout", "checkout">> \in overlaps'
      BY <3>3 DEF Deliver
    <3>. QED BY <3>4 DEF Undisturbed
  <2>5. s \in revoked' => s \in revoked
    BY <1>1, <1>4
  <2>6. OneCheckout(s)' /\ Cancels(s)'
    BY <1>0, <1>4, <2>2, <2>4, <2>5 DEF SubInv, OneCheckout, Cancels, Cancelled
  <2>7. CheckoutRecord(s)'
    BY <1>4, <2>1, <2>2, <2>3 DEF SubInv, CheckoutRecord
  <2>8. Counted(s)'
    <3>1. issued[s] \in Nat
      BY DEF Types, TypeOK
    <3>. QED BY <1>0, <1>4, <2>2, <3>1 DEF SubInv, Counted
  <2>. QED BY <2>6, <2>7, <2>8 DEF SubInv
<1>5. CASE /\ handler' = [handler EXCEPT ![h] = Started(e, "persist")]
           /\ e.kind = "deleted" /\ Live(e.sub)
           /\ records' = [records EXCEPT ![e.sub].live = FALSE]
  <2>1. /\ handler'[h].at = "persist" /\ handler'[h].event = e
        /\ \A g \in Handlers \ {h} : handler'[g] = handler[g]
    BY <1>0, <1>5, StartedIsHandler
  <2>2. \A g \in Handlers : Busy(g, s, "checkout")' <=> Busy(g, s, "checkout")
    BY <1>0, <1>5, <2>1 DEF Busy, Kind, Sub
  <2>3. \A g \in Handlers : Busy(g, s, "deleted")' => Busy(g, s, "deleted") \/ e.sub = s
    BY <2>1 DEF Busy, Kind, Sub
  <2>4. e.sub = s => records[s] # None /\ Cancelled(s)'
    <3> SUFFICES ASSUME e.sub = s PROVE records[s] # None /\ Cancelled(s)'
      OBVIOUS
    <3>1. records[s] \in Record /\ records[s] # None
      BY <1>0, <1>5 DEF Live, Rows
    <3>2. records'[s] = [records[s] EXCEPT !.live = FALSE]
      BY <1>0, <1>5 DEF Rows
    <3>3. records'[s] \in Record /\ ~records'[s].live
      BY <3>1, <3>2 DEF Record
    <3>. QED BY <3>1, <3>3, SentinelsAssumption DEF Cancelled
  <2>5. e.sub # s => UNCHANGED records[s]
    BY <1>0, <1>5 DEF Rows
  <2>6. records'[s] = None <=> records[s] = None
    BY <2>4, <2>5 DEF Cancelled
  <2>7. OneCheckout(s)' /\ Counted(s)'
    BY <1>0, <2>2, <2>6 DEF SubInv, OneCheckout, Counted
  <2>8. CheckoutRecord(s)'
    <3>1. \A g \in Handlers : Busy(g, s, "checkout") => g # h
      BY <1>0 DEF Busy
    <3>. QED BY <2>1, <2>2, <2>6, <3>1 DEF SubInv, CheckoutRecord
  <2>9. Cancels(s)'
    BY <1>0, <1>1, <2>3, <2>4, <2>5 DEF SubInv, Cancels, Cancelled
  <2>. QED BY <2>7, <2>8, <2>9 DEF SubInv
<1>. QED BY <1>3, <1>4, <1>5, DeliverCases

\* A handler has its answer: only a checkout that is alone makes a record, a renewal finds one that is live.
LEMMA LandKeepsSub ==
    ASSUME Types, NEW s \in Subs, SubInv(s), NEW h \in Handlers, Land(h)
    PROVE  SubInv(s)'
<1>0. /\ handler[h].at = "minted" /\ handler[h] \in Handler /\ handler \in [Handlers -> Handler] /\ Idle \in Handler
      /\ records \in Rows /\ UNCHANGED <<issued, revoked, lost>> /\ Idle.at = "idle"
  BY IdleIsHandler DEF Types, TypeOK, Handler, Land, mail, past
<1>1. CASE Persist(h, Minted(h)) /\ (Kind(h) = "checkout" \/ (Kind(h) = "updated" /\ Live(Sub(h))))
  <2>1. /\ handler'[h].at = "persist" /\ handler'[h].event = handler[h].event
        /\ \A g \in Handlers \ {h} : handler'[g] = handler[g]
    BY <1>0, <1>1 DEF Persist, Continue
  <2>2. \A g \in Handlers, k \in {"checkout", "updated", "deleted"} : Busy(g, s, k)' <=> Busy(g, s, k)
    BY <1>0, <2>1 DEF Busy, Kind, Sub
  <2>3. Minted(h) \in Record /\ Minted(h) # None /\ Minted(h).live
    <3>1. handler[h].exp \in 1..Periods
      BY <1>0, BoundsAssumption DEF Types, Holds, Handler
    <3>2. Minted(h) \in Record /\ Minted(h).live
      BY <3>1 DEF Minted, Record
    <3>. QED BY <3>2, SentinelsAssumption
  <2>4. CASE Sub(h) # s
    <3>1. UNCHANGED records[s]
      BY <1>0, <1>1, <2>4 DEF Persist, Rows
    <3>2. \A g \in Handlers : Busy(g, s, "checkout") => handler'[g].at = handler[g].at
      BY <2>1, <2>4 DEF Busy
    <3>. QED BY <1>0, <2>2, <3>1, <3>2 DEF SubInv, OneCheckout, CheckoutRecord, Cancels, Cancelled, Counted
  <2>5. CASE Sub(h) = s /\ Kind(h) = "updated"
    <3>1. records[s] # None /\ records[s].live
      BY <1>1, <2>5 DEF Live
    <3>2. records'[s] # None
      BY <1>0, <1>1, <2>3, <2>5 DEF Persist, Rows
    <3>3. Cancels(s)'
      BY <1>0, <2>2, <3>1 DEF SubInv, Cancels, Cancelled
    <3>4. \A g \in Handlers : Busy(g, s, "checkout") => handler'[g].at = handler[g].at
      BY <2>1, <2>5 DEF Busy
    <3>. QED BY <1>0, <2>2, <3>1, <3>2, <3>3, <3>4 DEF SubInv, OneCheckout, CheckoutRecord, Counted
  <2>6. CASE Sub(h) = s /\ Kind(h) = "checkout"
    <3>1. Busy(h, s, "checkout") /\ records[s] = None
      BY <1>0, <2>6 DEF Busy, SubInv, CheckoutRecord
    <3>2. records'[s] # None
      BY <1>0, <1>1, <2>3, <2>6 DEF Persist, Rows
    <3>3. Cancels(s)'
      BY <1>0, <2>2, <3>1 DEF SubInv, Cancels, Cancelled
    <3>4. CheckoutRecord(s)'
      BY <2>1, <2>2, <3>1, <3>2 DEF SubInv, CheckoutRecord, OneCheckout
    <3>. QED BY <1>0, <2>2, <3>2, <3>3, <3>4 DEF SubInv, OneCheckout, Counted
  <2>. QED BY <1>1, <2>4, <2>5, <2>6
<1>2. CASE handler' = [handler EXCEPT ![h] = Idle] /\ UNCHANGED records
  BY <1>0, <1>2, GoesOn
<1>. QED BY <1>1, <1>2 DEF Land, Save, RenewRecord

\* A write has ended: a checkout counts what it issued, and a cancellation is answered.
LEMMA WriteKeepsSub ==
    ASSUME Types, NEW s \in Subs, SubInv(s), NEW h \in Handlers, Write(h)
    PROVE  SubInv(s)'
<1>0. /\ handler[h].at = "write" /\ handler \in [Handlers -> Handler] /\ Idle.at = "idle"
      /\ UNCHANGED <<records, lost>> /\ issued \in [Subs -> Nat]
  BY IdleIsHandler DEF Types, TypeOK, Handler, Write
<1>1. handler'[h] = Idle /\ \A g \in Handlers \ {h} : handler'[g] = handler[g]
  BY <1>0 DEF Write
<1>2. \A g \in Handlers, k \in {"checkout", "updated", "deleted"} : Busy(g, s, k)' => Busy(g, s, k) /\ g # h
  BY <1>0, <1>1 DEF Busy, Kind, Sub
<1>3. OneCheckout(s)' /\ CheckoutRecord(s)'
  BY <1>0, <1>1, <1>2 DEF SubInv, OneCheckout, CheckoutRecord
<1>4. Cancels(s)'
  <2>1. s \in revoked' \ revoked => Busy(h, s, "deleted")
    BY <1>0 DEF Write, Busy
  <2>. QED BY <1>0, <1>2, <2>1 DEF SubInv, Cancels, Cancelled
<1>5. Counted(s)'
  <2>1. CASE Busy(h, s, "checkout")
    <3>1. records[s] # None /\ \A g \in Handlers : ~Busy(g, s, "checkout")'
      BY <1>0, <1>2, <2>1 DEF SubInv, OneCheckout, CheckoutRecord
    <3>2. issued'[s] = issued[s] + 1
      BY <1>0, <2>1 DEF Busy, Write, Mail
    <3>3. s \notin lost => issued[s] = 0
      BY <2>1 DEF SubInv, Counted
    <3>. QED BY <1>0, <3>1, <3>2, <3>3 DEF Counted
  <2>2. CASE ~Busy(h, s, "checkout")
    <3>1. issued'[s] = issued[s]
      BY <1>0, <2>2 DEF Busy, Write, Mail
    <3>. QED BY <1>0, <1>2, <3>1 DEF SubInv, Counted
  <2>. QED BY <2>1, <2>2
<1>. QED BY <1>3, <1>4, <1>5 DEF SubInv

\* A restart: what is not as it was is lost.
LEMMA CrashKeepsSub ==
    ASSUME Types, NEW s \in Subs, SubInv(s), Crash
    PROVE  SubInv(s)'
<1>1. \A g \in Handlers, k \in {"checkout", "updated", "deleted"} : ~Busy(g, s, k)'
  BY IdleIsHandler DEF Crash, Busy
<1>2. UNCHANGED <<issued, revoked>> /\ (s \notin lost' => s \notin lost /\ UNCHANGED records[s])
  BY DEF Crash, mail
<1>. QED BY <1>1, <1>2 DEF SubInv, OneCheckout, CheckoutRecord, Cancels, Cancelled, Counted

LEMMA HandlerStepKeepsSub ==
    ASSUME Types, NEW s \in Subs, SubInv(s), NEW h \in Handlers,
           Answer(h) \/ Land(h) \/ Open(h) \/ Write(h) \/ Unreachable(h) \/ WriteFails(h)
    PROVE  SubInv(s)'
<1>0. handler[h] \in Handler /\ handler \in [Handlers -> Handler] /\ Idle \in Handler /\ Idle.at = "idle"
  BY IdleIsHandler DEF Types, TypeOK, Handler
<1>1. CASE Answer(h) \/ Open(h)
  <2>1. handler' \in [Handlers -> Handler]
    BY <1>1, HandlerStepKeepsTypes DEF Types, TypeOK, Handler
  <2>2. PICK at, exp, bytes :
           /\ Continue(h, at, exp, bytes)
           /\ (at = "minted" /\ handler[h].at = "asked") \/ (at = "write" /\ handler[h].at = "persist")
    BY <1>1 DEF Answer, Open
  <2> DEFINE r == [at |-> at, event |-> handler[h].event, exp |-> exp, bytes |-> bytes]
  <2>3. handler' = [handler EXCEPT ![h] = r]
    BY <2>2 DEF Continue
  <2>4. r \in Handler
    BY <1>0, <2>1, <2>3
  <2>5. UNCHANGED <<records, issued, revoked, lost>>
    BY <1>1 DEF Answer, Open, store, mail, past
  <2>. QED BY <2>2, <2>3, <2>4, <2>5, GoesOn
<1>2. CASE Unreachable(h) \/ WriteFails(h)
  <2>1. handler' = [handler EXCEPT ![h] = Idle] /\ UNCHANGED <<records, issued, revoked, lost>>
    BY <1>2 DEF Unreachable, WriteFails, store, mail, past
  <2>. QED BY <1>0, <2>1, GoesOn
<1>. QED BY <1>1, <1>2, LandKeepsSub, WriteKeepsSub

\* A step that leaves the webhook alone.
LEMMA ElsewhereKeepsSub ==
    ASSUME NEW s \in Subs, SubInv(s), UNCHANGED <<handler, records, issued, revoked, lost>>
    PROVE  SubInv(s)'
BY DEF SubInv, OneCheckout, CheckoutRecord, Cancels, Cancelled, Counted, Busy, Kind, Sub

LEMMA InitSub == Init => IInv
<1>1. Idle.at = "idle"
  BY DEF Idle
<1>. QED BY <1>1 DEF Init, IInv, SubInv, OneCheckout, CheckoutRecord, Cancels, Cancelled, Counted, Busy

LEMMA NextKeepsSub ==
    ASSUME Types, IInv, [Next]_vars PROVE IInv'
<1> SUFFICES ASSUME NEW s \in Subs, Undisturbed(s)' PROVE SubInv(s)'
  BY DEF IInv
<1>1. overlaps \subseteq overlaps'
  BY DEF Next, Step, Buy, Renew, End, Deliver, Answer, Land, Open, Write, Unreachable, WriteFails, Crash, past, vars
<1>2. SubInv(s)
  BY <1>1 DEF Undisturbed, IInv
<1>3. CASE (\E t \in Subs : Buy(t) \/ Renew(t) \/ End(t)) \/ UNCHANGED vars
  <2>1. UNCHANGED <<handler, records, issued, revoked, lost>>
    BY <1>3 DEF Buy, Renew, End, vars, store, mail, past
  <2>. QED BY <1>2, <2>1, ElsewhereKeepsSub
<1>4. CASE \E h \in Handlers : \E e \in sent : Deliver(h, e)
  BY <1>2, <1>4, DeliverKeepsSub
<1>5. CASE \E h \in Handlers : Step(h) \/ Unreachable(h) \/ WriteFails(h)
  BY <1>2, <1>5, HandlerStepKeepsSub DEF Step
<1>6. CASE Crash
  BY <1>2, <1>6, CrashKeepsSub
<1>. QED BY <1>3, <1>4, <1>5, <1>6 DEF Next

LEMMA SubsHold == Spec => []IInv
<1>1. Types /\ IInv /\ [Next]_vars => IInv'
  BY NextKeepsSub
<1>. QED BY <1>1, InitSub, TypesHold, PTL DEF Spec

\* A subscription is issued one licence, whatever is delivered again and in whatever order, when no two
\* deliveries of its checkout overlapped and no restart lost its record.
THEOREM IssuesOnce == Spec => []OneLicenceUndisturbed
<1>1. IInv => OneLicenceUndisturbed
  <2> SUFFICES ASSUME IInv, NEW s \in Subs, s \notin lost, Undisturbed(s) PROVE issued[s] <= 1
    BY DEF OneLicenceUndisturbed, Undisturbed
  <2>. QED BY DEF IInv, SubInv, Counted
<1>. QED BY <1>1, SubsHold, PTL

\* A cancellation that was answered stands: no renewal or checkout that was in progress makes the
\* licence live again.
THEOREM CancellationStands == Spec => []StaysRevoked
<1>1. Types /\ IInv => StaysRevoked
  <2> SUFFICES ASSUME Types, IInv, NEW s \in revoked \ lost, Undisturbed(s) PROVE ~Live(s)
    BY DEF StaysRevoked, Undisturbed
  <2>1. s \in Subs
    BY DEF Types, TypeOK
  <2>. QED BY <2>1 DEF IInv, SubInv, Cancels, Cancelled, Live
<1>. QED BY <1>1, TypesHold, SubsHold, PTL

----------------------------------------------------------------------------

LEMMA InitFile == Init => FileInv
<1>1. Idle.at = "idle"
  BY DEF Idle
<1>. QED BY <1>1 DEF Init, FileInv

\* A step of a handler that neither opens nor writes the file: when it changes the records, the handler
\* waits to write them.
LEMMA MemoryKeepsFile ==
    ASSUME Types, FileInv, NEW h \in Handlers, NEW r, handler' = [handler EXCEPT ![h] = r],
           handler[h].at \notin {"persist", "write"},
           UNCHANGED <<file, faults, crashes, raced>>,
           \/ r.at \in {"idle", "asked", "minted"} /\ UNCHANGED records
           \/ r.at = "persist"
    PROVE  FileInv'
<1>1. handler'[h] = r /\ \A g \in Handlers \ {h} : handler'[g] = handler[g]
  BY DEF Types, TypeOK
<1>2. \A g \in Handlers : handler'[g].at = "write" <=> handler[g].at = "write"
  BY <1>1
<1>3. \A g \in Handlers : handler[g].at = "write" => handler'[g] = handler[g]
  BY <1>1
<1>4. CASE r.at = "persist"
  BY <1>1, <1>2, <1>3, <1>4 DEF FileInv
<1>5. CASE r.at \in {"idle", "asked", "minted"} /\ UNCHANGED records
  <2>1. (\A g \in Handlers : handler'[g].at # "persist") => \A g \in Handlers : handler[g].at # "persist"
    BY <1>1
  <2>. QED BY <1>2, <1>3, <1>5, <2>1 DEF FileInv
<1>. QED BY <1>4, <1>5

LEMMA OpenKeepsFile ==
    ASSUME Types, FileInv, NEW h \in Handlers, Open(h) PROVE FileInv'
<1>1. /\ handler'[h].at = "write" /\ handler'[h].bytes = records
      /\ \A g \in Handlers \ {h} : handler'[g] = handler[g]
  BY DEF Types, TypeOK, Open, Continue
<1>2. UNCHANGED <<records, faults, crashes>> /\ file' = Torn
      /\ (~raced' => ~raced /\ \A g \in Handlers : handler[g].at # "write")
  BY DEF Open, bounds
<1>3. ~raced' => \A g \in Handlers : handler'[g].at = "write" => g = h
  BY <1>1, <1>2
<1>. QED BY <1>1, <1>2, <1>3 DEF FileInv

LEMMA WriteKeepsFile ==
    ASSUME Types, FileInv, NEW h \in Handlers, Write(h) PROVE FileInv'
<1> SUFFICES ASSUME faults = 0, crashes = 0, ~raced
             PROVE  /\ \A g, i \in Handlers : handler'[g].at = "write" /\ handler'[i].at = "write" => g = i
                    /\ \A g \in Handlers : handler'[g].at = "write" => file' = Torn
                    /\ (\A g \in Handlers : handler'[g].at # "persist") =>
                          /\ \A g \in Handlers : handler'[g].at = "write" => handler'[g].bytes = records'
                          /\ (\A g \in Handlers : handler'[g].at # "write") => file' = records'
  BY DEF Write, FileInv, bounds
<1>1. handler[h].at = "write" /\ UNCHANGED records /\ file = Torn
  BY DEF Write, FileInv
<1>2. file' = handler[h].bytes
  BY <1>1 DEF Write
<1>3. handler'[h].at = "idle" /\ \A g \in Handlers \ {h} : handler'[g] = handler[g]
  BY IdleIsHandler DEF Types, TypeOK, Write
<1>4. \A g \in Handlers : handler'[g].at # "write"
  BY <1>1, <1>3 DEF FileInv
<1>. QED BY <1>1, <1>2, <1>3, <1>4 DEF FileInv

LEMMA HandlerStepKeepsFile ==
    ASSUME Types, FileInv, NEW h \in Handlers,
           Answer(h) \/ Land(h) \/ Unreachable(h) \/ WriteFails(h)
    PROVE  FileInv'
<1>0. Idle.at = "idle"
  BY DEF Idle
<1>1. CASE Answer(h)
  <2>1. PICK r : r.at = "minted" /\ handler' = [handler EXCEPT ![h] = r]
    BY <1>1 DEF Answer, Continue
  <2>. QED BY <1>1, <2>1, MemoryKeepsFile DEF Answer, store, bounds, past
<1>2. CASE Land(h)
  <2>1. CASE handler' = [handler EXCEPT ![h] = Idle] /\ UNCHANGED records
    BY <1>0, <1>2, <2>1, MemoryKeepsFile DEF Land, bounds, past
  <2>2. CASE Persist(h, Minted(h))
    <3>1. PICK r : r.at = "persist" /\ handler' = [handler EXCEPT ![h] = r]
      BY <2>2 DEF Persist, Continue
    <3>. QED BY <1>2, <3>1, MemoryKeepsFile DEF Land, bounds, past
  <2>. QED BY <1>2, <2>1, <2>2 DEF Land, Save, RenewRecord
<1>3. CASE Unreachable(h) \/ WriteFails(h)
  <2>1. faults' = faults + 1 /\ faults \in Nat
    BY <1>3, BoundsAssumption DEF Unreachable, WriteFails, Types, TypeOK
  <2>. QED BY <2>1 DEF FileInv
<1>. QED BY <1>1, <1>2, <1>3

LEMMA DeliverKeepsFile ==
    ASSUME Types, FileInv, NEW h \in Handlers, NEW e \in sent, Deliver(h, e) PROVE FileInv'
<1>0. handler[h].at = "idle" /\ e \in Events /\ UNCHANGED <<file, faults, crashes, raced>>
  BY IdleIsHandler DEF Deliver, Types, TypeOK
<1>1. CASE UNCHANGED <<handler, records>>
  BY <1>0, <1>1 DEF FileInv
<1>2. CASE handler' = [handler EXCEPT ![h] = Started(e, "asked")] /\ UNCHANGED records
  BY <1>0, <1>2, StartedIsHandler, MemoryKeepsFile
<1>3. CASE handler' = [handler EXCEPT ![h] = Started(e, "persist")]
  BY <1>0, <1>3, StartedIsHandler, MemoryKeepsFile
<1>. QED BY <1>1, <1>2, <1>3, DeliverCases

LEMMA NextKeepsFile ==
    ASSUME Types, FileInv, [Next]_vars PROVE FileInv'
<1>1. CASE (\E t \in Subs : Buy(t) \/ Renew(t) \/ End(t)) \/ UNCHANGED vars
  BY <1>1 DEF Buy, Renew, End, vars, store, bounds, past, FileInv
<1>2. CASE \E h \in Handlers : \E e \in sent : Deliver(h, e)
  BY <1>2, DeliverKeepsFile
<1>3. CASE \E h \in Handlers : Step(h) \/ Unreachable(h) \/ WriteFails(h)
  BY <1>3, HandlerStepKeepsFile, OpenKeepsFile, WriteKeepsFile DEF Step
<1>4. CASE Crash
  <2>1. crashes' = crashes + 1 /\ crashes \in Nat
    BY <1>4, BoundsAssumption DEF Crash, Types, TypeOK
  <2>. QED BY <2>1 DEF FileInv
<1>. QED BY <1>1, <1>2, <1>3, <1>4 DEF Next

\* When no handler writes, the file holds what the store answers from, as long as no writes overlapped
\* and none failed: each change of the store's memory is followed by a write of all of it.
THEOREM FileHoldsStore == Spec => []FileIsStore
<1>1. FileInv => FileIsStore
  BY DEF FileInv, FileIsStore
<1>2. Types /\ FileInv /\ [Next]_vars => FileInv'
  BY NextKeepsFile
<1>. QED BY <1>1, <1>2, InitFile, TypesHold, PTL DEF Spec

=============================================================================
