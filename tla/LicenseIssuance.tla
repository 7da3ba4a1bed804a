-------------------------- MODULE LicenseIssuance --------------------------
(***************************************************************************)
(* The issuer's side of a licence: the Stripe webhook of                   *)
(* backend/src/routes/stripe-webhook.ts, the licence it generates          *)
(* (services/stripe.ts) and the store it is kept in                        *)
(* (storage/license-store.ts, one JSON file that is written in place).     *)
(*                                                                         *)
(* Stripe sends the events of a subscription in any order and at least     *)
(* once: an event is due until it is answered with a 200, and MaxAgain     *)
(* deliveries come on top.  A handler is suspended while Stripe answers    *)
(* and while the file is opened and written; a key is the end of the       *)
(* period it was minted for.                                               *)
(***************************************************************************)
EXTENDS Integers

CONSTANTS
    Subs, Handlers, None, Torn,
    Periods,     \* bound: the periods a subscription is paid for
    MaxAgain,    \* bound: deliveries of an event that is in progress or was answered
    MaxFaults,   \* bound: requests to Stripe and writes that fail
    MaxCrashes   \* bound: restarts

ASSUME BoundsAssumption == Periods \in Nat \ {0} /\ {MaxAgain, MaxFaults, MaxCrashes} \subseteq Nat

VARIABLES
    paid,     \* Stripe: the period paid through, 0 before the purchase
    ended,    \* Stripe: the subscriptions that were cancelled
    sent,     \* Stripe: the events there are
    due,      \* Stripe: those that are not answered with a 200
    records,  \* the store's memory: a record per subscription, or None
    file,     \* what its file holds: records, or Torn
    handler,
    again, faults, crashes,
    issued,   \* history: licences mailed for a checkout
    mailed,   \* history: the latest period of a key mailed
    revoked,  \* history: subscriptions whose cancellation was answered when they had a record
    overlaps, \* history: <<s, k, l>> where an event l of s came while one of kind k was in progress
    raced,    \* history: the file was opened while another write of it was in progress
    lost      \* history: subscriptions whose record a restart did not find as it was

stripe == <<paid, ended, sent>>
store  == <<records, file>>
bounds == <<again, faults, crashes>>
mail   == <<issued, mailed>>
past   == <<revoked, overlaps, raced, lost>>
vars   == <<stripe, due, store, handler, bounds, mail, past>>

Events  == [kind : {"checkout", "updated", "deleted"}, sub : Subs, period : 0..Periods]
Record  == [exp : 1..Periods, live : BOOLEAN]
Rows    == [Subs -> Record \cup {None}]
NoRows  == [s \in Subs |-> None]
ASSUME SentinelsAssumption == None \notin Record /\ Torn \notin Rows

Idle    == [at |-> "idle", event |-> None, exp |-> 0, bytes |-> None]

Kind(h) == handler[h].event.kind
Sub(h)  == handler[h].event.sub
Live(s) == records[s] # None /\ records[s].live

\* The longer file: a revoked record carries the time of the revocation.
Longer(f, g) == \/ \E s \in Subs : f[s] # None /\ g[s] = None
                \/ \E s \in Subs : f[s] # None /\ g[s] # None /\ ~f[s].live /\ g[s].live

----------------------------------------------------------------------------
\* Stripe.

Emit(e) == sent' = sent \cup {e} /\ due' = due \cup {e}

Buy(s) ==
    /\ paid[s] = 0
    /\ paid' = [paid EXCEPT ![s] = 1]
    /\ Emit([kind |-> "checkout", sub |-> s, period |-> 1])
    /\ UNCHANGED <<ended, store, handler, bounds, mail, past>>

Renew(s) ==
    /\ paid[s] \in 1..(Periods - 1)
    /\ s \notin ended
    /\ paid' = [paid EXCEPT ![s] = @ + 1]
    /\ Emit([kind |-> "updated", sub |-> s, period |-> paid[s] + 1])
    /\ UNCHANGED <<ended, store, handler, bounds, mail, past>>

End(s) ==
    /\ paid[s] > 0
    /\ s \notin ended
    /\ ended' = ended \cup {s}
    /\ Emit([kind |-> "deleted", sub |-> s, period |-> 0])
    /\ UNCHANGED <<paid, store, handler, bounds, mail, past>>

----------------------------------------------------------------------------
\* The webhook.

\* An event comes: one that is due and not in progress, or one that came before.
Comes(e) ==
    \/ /\ e \in due
       /\ \A h \in Handlers : handler[h].event # e
       /\ UNCHANGED again
    \/ /\ e \in sent
       /\ e \notin due \/ \E h \in Handlers : handler[h].event = e
       /\ again < MaxAgain
       /\ again' = again + 1

\* The handler begins: it waits for Stripe, or for the file.
Start(h, e, at) == handler' = [handler EXCEPT ![h] = [at |-> at, event |-> e, exp |-> 0, bytes |-> None]]

\* It goes on with its event to the next wait.
Continue(h, at, exp, bytes) ==
    handler' = [handler EXCEPT ![h] = [at |-> at, event |-> handler[h].event, exp |-> exp, bytes |-> bytes]]

\* The answer is a 200.
Ok(e) == due' = due \ {e}

\* There is nothing to do for the event.
Skip(h, e) == Ok(e) /\ UNCHANGED <<records, handler>>

\* Fault for the runs' mutants: a subscription that has a licence is issued another.
Mut_CheckoutAlways(h, e) == Start(h, e, "asked") /\ UNCHANGED <<due, records>>

\* checkout.session.completed: a subscription that has a record is not issued another.
Checkout(h, e) ==
    IF records[e.sub] # None THEN Skip(h, e)
    ELSE Start(h, e, "asked") /\ UNCHANGED <<due, records>>

\* customer.subscription.updated: a licence that was revoked, or never issued, is not renewed.
Updated(h, e) ==
    IF ~Live(e.sub) THEN Skip(h, e)
    ELSE Start(h, e, "asked") /\ UNCHANGED <<due, records>>

\* Fault for the runs' mutants: revoke() leaves the file to the next write.
Mut_RevokeInMemory(h, e) ==
    IF ~Live(e.sub) THEN Skip(h, e)
    ELSE /\ records' = [records EXCEPT ![e.sub].live = FALSE]
         /\ Ok(e)
         /\ UNCHANGED handler

\* customer.subscription.deleted: revoke() marks the record and writes the file.
Deleted(h, e) ==
    IF ~Live(e.sub) THEN Skip(h, e)
    ELSE /\ records' = [records EXCEPT ![e.sub].live = FALSE]
         /\ Start(h, e, "persist")
         /\ UNCHANGED due

\* Whether an answered cancellation found a record.
Acknowledge(e) ==
    revoked' = IF e.kind = "deleted" /\ e \notin due' /\ records[e.sub] # None THEN revoked \cup {e.sub} ELSE revoked

InProgress(s) == {Kind(h) : h \in {g \in Handlers : handler[g] # Idle /\ Sub(g) = s}}

Deliver(h, e) ==
    /\ handler[h] = Idle
    /\ Comes(e)
    /\ \/ e.kind = "checkout" /\ Checkout(h, e)
       \/ e.kind = "updated" /\ Updated(h, e)
       \/ e.kind = "deleted" /\ Deleted(h, e)
    /\ Acknowledge(e)
    /\ overlaps' = overlaps \cup {<<e.sub, k, e.kind>> : k \in InProgress(e.sub)}
    /\ UNCHANGED <<stripe, file, faults, crashes, mail, raced, lost>>

\* Stripe reads the subscription, whatever its status; its answer is on the way.
Answer(h) ==
    /\ handler[h].at = "asked"
    /\ Continue(h, "minted", paid[Sub(h)], None)
    /\ UNCHANGED <<stripe, due, store, bounds, mail, past>>

\* It cannot be reached: logged, and 200.
Unreachable(h) ==
    /\ handler[h].at = "asked"
    /\ faults < MaxFaults
    /\ faults' = faults + 1
    /\ Ok(handler[h].event)
    /\ handler' = [handler EXCEPT ![h] = Idle]
    /\ UNCHANGED <<stripe, store, again, crashes, mail, past>>

\* The store's memory has changed: the file is written next.
Persist(h, row) ==
    /\ records' = [records EXCEPT ![Sub(h)] = row]
    /\ Continue(h, "persist", handler[h].exp, None)
    /\ UNCHANGED due

Minted(h) == [exp |-> handler[h].exp, live |-> TRUE]

\* save(): replaces the record of the subscription, if there is one.
Save(h) == Kind(h) = "checkout" /\ Persist(h, Minted(h))

\* Fault for the runs' mutants: renew() finds the record whatever became of it.
Mut_RenewRevoked(h) == Kind(h) = "updated" /\ Persist(h, Minted(h))

\* renew(): key and expiry, unless the licence was revoked meanwhile.
RenewRecord(h) ==
    /\ Kind(h) = "updated"
    /\ IF Live(Sub(h)) THEN Persist(h, Minted(h))
       ELSE /\ Ok(handler[h].event)
            /\ handler' = [handler EXCEPT ![h] = Idle]
            /\ UNCHANGED records

Land(h) ==
    /\ handler[h].at = "minted"
    /\ Save(h) \/ RenewRecord(h)
    /\ UNCHANGED <<stripe, file, bounds, mail, past>>

\* writeFile() opens the file, which empties it, with the records as they are now.
Open(h) ==
    /\ handler[h].at = "persist"
    /\ file' = Torn
    /\ Continue(h, "write", handler[h].exp, records)
    /\ raced' = (raced \/ \E g \in Handlers : handler[g].at = "write")
    /\ UNCHANGED <<stripe, due, records, bounds, mail, revoked, overlaps, lost>>

\* Fault for the runs' mutants: a renewal is recorded and its key is not mailed.
Mut_MailFirstOnly(h) ==
    /\ issued' = IF Kind(h) = "checkout" THEN [issued EXCEPT ![Sub(h)] = @ + 1] ELSE issued
    /\ mailed' = IF Kind(h) = "checkout" THEN [mailed EXCEPT ![Sub(h)] = handler[h].exp] ELSE mailed

\* Fault for the runs' mutants: the key is mailed to the address of a record there was before.
Mut_MailRenewalsOnly(h) ==
    /\ issued' = issued
    /\ mailed' = IF Kind(h) = "updated" THEN [mailed EXCEPT ![Sub(h)] = handler[h].exp] ELSE mailed

\* The key is mailed; mail that fails is not sent again and not modelled.
Mail(h) ==
    /\ issued' = IF Kind(h) = "checkout" THEN [issued EXCEPT ![Sub(h)] = @ + 1] ELSE issued
    /\ mailed' = IF Kind(h) # "deleted" /\ handler[h].exp > mailed[Sub(h)]
                 THEN [mailed EXCEPT ![Sub(h)] = handler[h].exp] ELSE mailed

\* The bytes are written, over those of a write that began meanwhile: what is longer than they are
\* stays behind them.  Then the mail and the 200.
Write(h) ==
    /\ handler[h].at = "write"
    /\ LET bytes == handler[h].bytes
       IN  file' = IF file # Torn /\ Longer(file, bytes) THEN Torn ELSE bytes
    /\ Mail(h)
    /\ Ok(handler[h].event)
    /\ revoked' = IF Kind(h) = "deleted" THEN revoked \cup {Sub(h)} ELSE revoked
    /\ handler' = [handler EXCEPT ![h] = Idle]
    /\ UNCHANGED <<stripe, records, bounds, overlaps, raced, lost>>

\* The file cannot be opened or written: a 200 that nothing follows, but a 500 for a cancellation.
WriteFails(h) ==
    /\ handler[h].at \in {"persist", "write"}
    /\ faults < MaxFaults
    /\ faults' = faults + 1
    /\ IF Kind(h) = "deleted" THEN UNCHANGED due ELSE Ok(handler[h].event)
    /\ handler' = [handler EXCEPT ![h] = Idle]
    /\ UNCHANGED <<stripe, store, again, crashes, mail, past>>

\* The process ends and starts: init() reads the file, and starts empty when it cannot.
Crash ==
    /\ crashes < MaxCrashes
    /\ crashes' = crashes + 1
    /\ records' = IF file = Torn THEN NoRows ELSE file
    /\ lost' = lost \cup {s \in Subs : records'[s] # records[s]}
    /\ handler' = [h \in Handlers |-> Idle]
    /\ UNCHANGED <<stripe, due, file, again, faults, mail, revoked, overlaps, raced>>

----------------------------------------------------------------------------

Init ==
    /\ paid = [s \in Subs |-> 0]
    /\ ended = {} /\ sent = {} /\ due = {}
    /\ records = NoRows /\ file = NoRows
    /\ handler = [h \in Handlers |-> Idle]
    /\ again = 0 /\ faults = 0 /\ crashes = 0
    /\ issued = [s \in Subs |-> 0] /\ mailed = [s \in Subs |-> 0]
    /\ revoked = {} /\ overlaps = {} /\ raced = FALSE /\ lost = {}

Step(h) == Answer(h) \/ Land(h) \/ Open(h) \/ Write(h)

Next ==
    \/ \E s \in Subs : Buy(s) \/ Renew(s) \/ End(s)
    \/ \E h \in Handlers : \/ \E e \in sent : Deliver(h, e)
                           \/ Step(h) \/ Unreachable(h) \/ WriteFails(h)
    \/ Crash

Spec == Init /\ [][Next]_vars

\* Stripe delivers what is due, and what a handler waits for comes.
FairSpec ==
    /\ Spec
    /\ \A e \in Events : WF_vars(e \in due /\ \E h \in Handlers : Deliver(h, e))
    /\ \A h \in Handlers : WF_vars(Step(h))

----------------------------------------------------------------------------

\* The types of Stripe's side, the store and the handlers.
TypeOK ==
    /\ paid \in [Subs -> 0..Periods]
    /\ ended \subseteq Subs /\ revoked \subseteq Subs
    /\ due \subseteq sent /\ sent \subseteq Events
    /\ records \in Rows
    /\ file \in Rows \cup {Torn}
    /\ handler \in [Handlers -> [at : {"idle", "asked", "minted", "persist", "write"},
                                 event : Events \cup {None}, exp : 0..Periods, bytes : Rows \cup {None}]]
    /\ again \in 0..MaxAgain /\ faults \in 0..MaxFaults /\ crashes \in 0..MaxCrashes
    /\ overlaps \subseteq Subs \X {"checkout", "updated", "deleted"} \X {"checkout", "updated", "deleted"}
    /\ raced \in BOOLEAN /\ lost \subseteq Subs
    /\ issued \in [Subs -> Nat]
    /\ mailed \in [Subs -> 0..Periods]

\* One subscription is issued one licence: a checkout that is delivered again mints and mails no
\* second one.
OneLicence == \A s \in Subs : issued[s] <= 1

\* So it is when no two deliveries of the checkout were in progress at once and no restart lost the
\* record: the store answers for what was issued, and it answers across a restart.
OneLicenceUndisturbed ==
    \A s \in Subs \ lost : <<s, "checkout", "checkout">> \notin overlaps => issued[s] <= 1

\* A licence whose cancellation was answered with a 200 is not live again, however renewals and the
\* cancellation overlap: renew() looks again after its wait.
StaysRevoked ==
    \A s \in revoked \ lost : <<s, "checkout", "checkout">> \notin overlaps => ~Live(s)

\* Between writes the file holds what the store answers from, when writes did not overlap and none
\* failed: a restart then finds every answer the webhook has given.
FileIsStore ==
    (faults = 0 /\ crashes = 0 /\ ~raced /\ \A h \in Handlers : handler[h].at \notin {"persist", "write"})
        => file = records

\* A subscription that was bought is issued a licence, or is cancelled.
PurchaseIsIssued == \A s \in Subs : paid[s] > 0 ~> (mailed[s] > 0 \/ s \in ended)

\* So it is when Stripe and the disk answer and the process stays up.
PurchaseSettles ==
    \A s \in Subs : paid[s] > 0 ~> (mailed[s] > 0 \/ s \in ended \/ faults > 0 \/ crashes > 0)

\* A period that was paid reaches the customer in a key that covers it, in whatever order the events
\* come, unless the renewal came while the checkout was in progress, something failed or the
\* subscription was cancelled.
RenewalIsMailed ==
    \A s \in Subs : \A p \in 1..Periods :
        paid[s] = p ~> ( mailed[s] >= p \/ s \in ended \/ faults > 0 \/ crashes > 0
                            \/ <<s, "checkout", "updated">> \in overlaps)

=============================================================================
