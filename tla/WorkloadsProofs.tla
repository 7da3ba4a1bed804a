-------------------------- MODULE WorkloadsProofs --------------------------
(***************************************************************************)
(* Theorems about Workloads, for every host, registry, tier and number of  *)
(* handlers, and for either registry backend; and about StatusEvents,      *)
(* which polls the statuses, for every number of workloads and rounds.     *)
(***************************************************************************)
EXTENDS Workloads, StatusEvents, WellFoundedInduction, TLAPS

Handler == [op : Ops \cup {"none", "autostart"},
            at : {"idle", "status", "command", "again", "units", "listing", "adding"},
            name : Names \cup {0}, rows : SUBSET Names, known : SUBSET Names,
            left : SUBSET Names, noted : SUBSET Names, dark : SUBSET Names]

\* A handler that works on one workload names it.
Named == \A r \in Handlers : req[r].at \in {"status", "command", "again"} => req[r].name \in Names

Types == TypeOK /\ Named

LEMMA IdleIsHandler == Idle \in Handler /\ Idle.at = "idle" /\ Idle.op = "none"
BY DEF Idle, Handler

\* The way a handler begins keeps the types.
LEMMA BeginsKeepsTypes ==
    ASSUME Types, NEW r \in Handlers, NEW op \in Ops \cup {"autostart"}, NEW n \in Names \cup {0},
           NEW at \in {"status", "command", "units", "listing", "adding"}, NEW left \in SUBSET Names,
           Begins(r, op, n, at, left), at \in {"status", "command"} => n \in Names
    PROVE  /\ req' \in [Handlers -> Handler]
           /\ quiet' \subseteq Handlers
           /\ Named'
BY DEF Types, TypeOK, Named, Begins, Idle, Handler

\* The way it goes on, or ends, does as well.
LEMMA GoesOrEndsKeepsTypes ==
    ASSUME Types, NEW r \in Handlers,
           Ends(r) \/ ((Goes(r, "command") \/ Goes(r, "again")) /\ req[r].name \in Names)
    PROVE  req' \in [Handlers -> Handler] /\ Named'
<1>1. CASE Ends(r)
      BY <1>1, IdleIsHandler DEF Types, TypeOK, Named, Ends, Handler
<1>2. CASE (Goes(r, "command") \/ Goes(r, "again")) /\ req[r].name \in Names
      BY <1>2 DEF Types, TypeOK, Named, Goes, Handler
<1>. QED BY <1>1, <1>2

----------------------------------------------------------------------------
(* The types are inductive.                                                  *)

LEMMA InitTypes == Init => Types
<1>. SUFFICES ASSUME Init PROVE Types
     OBVIOUS
<1>1. req \in [Handlers -> Handler] /\ Named
      BY IdleIsHandler DEF Init, Named
<1>. QED BY <1>1, SetsAssumption DEF Init, Types, TypeOK, Handler

LEMMA AskKeepsTypes ==
    ASSUME Types,
           \/ \E r \in Requests, op \in Ops, n \in Names : AskStart(r, op, n)
           \/ \E r \in Requests, n \in Names : AskStop(r, n) \/ AskDelete(r, n)
           \/ \E r \in Requests : AskScan(r)
           \/ \E n \in Names : Visit(n)
    PROVE  Types'
<1>1. ASSUME NEW r \in Requests, NEW op \in Ops, NEW n \in Names, AskStart(r, op, n) PROVE Types'
  <2>. DEFINE h == [Idle EXCEPT !.op = op, !.at = "status", !.name = n,
                               !.rows = Visible(registry, tier), !.known = recorded,
                               !.left = Visible(registry, tier)]
  <2>1. req' \in [Handlers -> Handler] /\ Named'
    <3>1. h \in Handler /\ h.name = n
          BY <1>1, SetsAssumption DEF Types, TypeOK, AskStart, Idle, Handler, Visible
    <3>2. req' = [req EXCEPT ![r] = h] /\ r \in Handlers
          BY <1>1 DEF AskStart, Handlers
    <3>. QED BY <3>1, <3>2 DEF Types, TypeOK, Named, Handler
  <2>2. /\ UNCHANGED <<registry, recorded, autostart, active, todo, tier>>
        /\ quiet' \subseteq quiet \cup {r} /\ r \in Handlers
        BY <1>1 DEF AskStart, rows, Handlers
  <2>. HIDE DEF h
  <2>. QED BY <2>1, <2>2 DEF Types, TypeOK, Handler
<1>2. ASSUME NEW r \in Requests, NEW n \in Names, AskStop(r, n) PROVE Types'
  <2>1. req' \in [Handlers -> Handler] /\ quiet' \subseteq Handlers /\ Named'
    <3>1. Begins(r, "stop", n, "command", {}) /\ r \in Handlers /\ "stop" \in Ops \cup {"autostart"}
          BY <1>2 DEF AskStop, Handlers, Ops
    <3>. QED BY <3>1, BeginsKeepsTypes
  <2>. QED BY <1>2, <2>1 DEF Types, TypeOK, AskStop, rows, Handler
<1>3. ASSUME NEW r \in Requests, NEW n \in Names, AskDelete(r, n) PROVE Types'
  <2>1. req' \in [Handlers -> Handler] /\ quiet' \subseteq Handlers /\ Named'
    <3>1. Begins(r, "delete", n, "status", {n}) /\ r \in Handlers /\ "delete" \in Ops \cup {"autostart"}
          BY <1>3 DEF AskDelete, Handlers, Ops
    <3>. QED BY <3>1, BeginsKeepsTypes
  <2>. QED BY <1>3, <2>1 DEF Types, TypeOK, AskDelete, rows, Handler
<1>4. ASSUME NEW r \in Requests, AskScan(r) PROVE Types'
  <2>1. req' \in [Handlers -> Handler] /\ quiet' \subseteq Handlers /\ Named'
    <3>1. PICK at \in {"units", "listing", "adding"}, left \in SUBSET Names : Begins(r, "scan", 0, at, left)
          BY <1>4 DEF AskScan
    <3>2. r \in Handlers /\ "scan" \in Ops \cup {"autostart"}
          BY DEF Handlers, Ops
    <3>. QED BY <3>1, <3>2, BeginsKeepsTypes
  <2>. QED BY <1>4, <2>1 DEF Types, TypeOK, AskScan, rows, Handler
<1>5. ASSUME NEW n \in Names, Visit(n) PROVE Types'
  <2>1. req' \in [Handlers -> Handler] /\ quiet' \subseteq Handlers /\ Named'
    <3>1. Begins(Loop, "autostart", n, "status", {n}) /\ Loop \in Handlers
          BY <1>5 DEF Visit, Handlers
    <3>. QED BY <3>1, BeginsKeepsTypes
  <2>. QED BY <1>5, <2>1 DEF Types, TypeOK, Visit, rows, Handler
<1>. QED BY <1>1, <1>2, <1>3, <1>4, <1>5

LEMMA HandlerStepKeepsTypes ==
    ASSUME Types, NEW r \in Handlers, HandlerStep(r)
    PROVE  Types'
<1>1. ASSUME NEW n \in Names, ReadStatus(r, n) PROVE Types'
  <2>1. req' \in [Handlers -> Handler] /\ Named'
    <3>. DEFINE h == [req[r] EXCEPT !.left = @ \ {n},
                                    !.noted = @ \cup ({n} \cap (active \ (Split \ registry)))]
                g == [req[r] EXCEPT !.left = @ \ {n}, !.dark = @ \cup {n}]
    <3>1. req[r] \in Handler
          BY DEF Types, TypeOK, Handler
    <3>2. /\ h \in Handler /\ h.at = req[r].at /\ h.name = req[r].name
          /\ g \in Handler /\ g.at = req[r].at /\ g.name = req[r].name
          BY <3>1 DEF Handler
    <3>3. PICK x \in {h, g} : req' = [req EXCEPT ![r] = x]
          BY <1>1 DEF ReadStatus
    <3>4. x \in Handler /\ x.at = req[r].at /\ x.name = req[r].name
          BY <3>2, <3>3
    <3>. HIDE DEF h, g
    <3>. QED BY <3>3, <3>4 DEF Types, TypeOK, Named, Handler
  <2>. QED BY <1>1, <2>1 DEF Types, TypeOK, ReadStatus, rows, Handler
<1>2. CASE DecideStart(r) \/ DecideAutostart(r)
  <2>1. req' \in [Handlers -> Handler] /\ Named'
    <3>1. req[r].name \in Names
          BY <1>2 DEF Types, Named, Answered, DecideStart, DecideAutostart
    <3>2. Goes(r, "command") \/ Ends(r)
          BY <1>2 DEF DecideStart, DecideAutostart
    <3>. QED BY <3>1, <3>2, GoesOrEndsKeepsTypes
  <2>. QED BY <1>2, <2>1 DEF Types, TypeOK, DecideStart, DecideAutostart, rows, Handler
<1>3. CASE DecideDelete(r)
  <2>1. req' \in [Handlers -> Handler] /\ Named'
        BY <1>3, GoesOrEndsKeepsTypes DEF DecideDelete
  <2>. QED BY <1>3, <2>1 DEF Types, TypeOK, DecideDelete, DisturbedBy, rows, Handler
<1>4. CASE StartCommand(r) \/ StopCommand(r) \/ SplitStart(r)
  <2>1. req' \in [Handlers -> Handler] /\ Named'
        BY <1>4, GoesOrEndsKeepsTypes DEF StartCommand, StopCommand, SplitStart
  <2>2. req[r].name \in Names
        BY <1>4 DEF Types, Named, StartCommand, StopCommand, SplitStart
  <2>3. active' \subseteq Names
        BY <1>4, <2>2 DEF Types, TypeOK, StartCommand, StopCommand, SplitStart
  <2>. QED BY <1>4, <2>1, <2>3 DEF Types, TypeOK, StartCommand, StopCommand, SplitStart, DisturbedBy, rows, Handler
<1>5. CASE SplitStop(r)
  <2>1. req[r].name \in Names
        BY <1>5 DEF Types, Named, SplitStop
  <2>2. req' \in [Handlers -> Handler] /\ Named'
        BY <1>5, <2>1, GoesOrEndsKeepsTypes DEF SplitStop
  <2>. QED BY <1>5, <2>2 DEF Types, TypeOK, SplitStop, DisturbedBy, rows, Handler
<1>6. ASSUME NEW n \in Names, NEW readable \in BOOLEAN, ScanUnit(r, n, readable) PROVE Types'
  <2>1. req' \in [Handlers -> Handler] /\ Named'
    <3>. DEFINE stale == n \in registry /\ readable /\ n \notin recorded
                h == [req[r] EXCEPT !.left = @ \ {n}, !.noted = IF stale THEN @ \cup {n} ELSE @]
    <3>1. req[r] \in Handler
          BY DEF Types, TypeOK, Handler
    <3>2. h \in Handler /\ h.at = req[r].at /\ h.name = req[r].name
          BY <3>1 DEF Handler
    <3>3. req' = [req EXCEPT ![r] = h]
          BY <1>6 DEF ScanUnit
    <3>. QED BY <3>2, <3>3 DEF Types, TypeOK, Named, Handler
  <2>2. /\ registry' \subseteq Names /\ recorded' \subseteq registry' /\ autostart' \subseteq registry'
        BY <1>6 DEF Types, TypeOK, ScanUnit, Update
  <2>3. quiet' \subseteq quiet /\ UNCHANGED <<active, tier, todo>>
        BY <1>6 DEF ScanUnit, DisturbedBy
  <2>. QED BY <2>1, <2>2, <2>3 DEF Types, TypeOK, Handler
<1>7. CASE EndScan(r)
  <2>1. req' \in [Handlers -> Handler] /\ Named'
        BY <1>7, GoesOrEndsKeepsTypes DEF EndScan
  <2>. QED BY <1>7, <2>1 DEF Types, TypeOK, EndScan, rows, Handler
<1>8. ASSUME NEW n \in Names, NEW given \in BOOLEAN, ScanAdds(r, n, given) PROVE Types'
  <2>1. req' \in [Handlers -> Handler] /\ Named'
    <3>. DEFINE h == [req[r] EXCEPT !.left = @ \ {n}]
    <3>1. req[r] \in Handler
          BY DEF Types, TypeOK, Handler
    <3>2. h \in Handler /\ h.at = req[r].at /\ h.name = req[r].name
          BY <3>1 DEF Handler
    <3>3. req' = [req EXCEPT ![r] = h]
          BY <1>8 DEF ScanAdds
    <3>. QED BY <3>2, <3>3 DEF Types, TypeOK, Named, Handler
  <2>2. /\ registry' \subseteq Names /\ recorded' \subseteq registry' /\ autostart' \subseteq registry'
        BY <1>8 DEF Types, TypeOK, ScanAdds
  <2>3. quiet' \subseteq quiet /\ UNCHANGED <<active, tier, todo>>
        BY <1>8 DEF ScanAdds, DisturbedBy
  <2>. QED BY <2>1, <2>2, <2>3 DEF Types, TypeOK, Handler
<1>9. CASE ListInstances(r)
  <2>1. PICK listed \in SUBSET Names : req' = [req EXCEPT ![r].at = "adding", ![r].left = listed]
        BY <1>9 DEF ListInstances, Types, TypeOK
  <2>. DEFINE h == [req[r] EXCEPT !.at = "adding", !.left = listed]
  <2>2. req' = [req EXCEPT ![r] = h]
        BY <2>1
  <2>3. h \in Handler /\ h.at = "adding"
        BY DEF Types, TypeOK, Handler
  <2>4. req' \in [Handlers -> Handler] /\ Named'
        BY <2>2, <2>3 DEF Types, TypeOK, Named, Handler
  <2>. QED BY <1>9, <2>4 DEF Types, TypeOK, ListInstances, rows, Handler
<1>. QED BY <1>1, <1>2, <1>3, <1>4, <1>5, <1>6, <1>7, <1>8, <1>9 DEF HandlerStep

LEMMA NextTypes == Types /\ [Next]_vars => Types'
<1>. SUFFICES ASSUME Types, [Next]_vars PROVE Types'
     OBVIOUS
<1>1. CASE \/ \E r \in Requests, op \in Ops, n \in Names : AskStart(r, op, n)
           \/ \E r \in Requests, n \in Names : AskStop(r, n) \/ AskDelete(r, n)
           \/ \E r \in Requests : AskScan(r)
           \/ \E n \in Names : Visit(n)
      BY <1>1, AskKeepsTypes
<1>2. CASE \E r \in Handlers : HandlerStep(r)
      BY <1>2, HandlerStepKeepsTypes
<1>3. ASSUME NEW n \in Names, NEW flag \in BOOLEAN, SetAutostart(n, flag) PROVE Types'
      BY <1>3 DEF Types, TypeOK, Named, SetAutostart
<1>4. ASSUME NEW n \in Names, HostChanges(n) PROVE Types'
      BY <1>4 DEF Types, TypeOK, Named, HostChanges, rows
<1>5. ASSUME NEW t \in Tiers, TierChanges(t) PROVE Types'
      BY <1>5 DEF Types, TypeOK, Named, TierChanges, rows
<1>6. CASE Restart
  <2>1. req' \in [Handlers -> Handler] /\ Named'
        BY <1>6, IdleIsHandler DEF Restart, Named
  <2>. QED BY <1>6, <2>1 DEF Types, TypeOK, Restart, rows, Handler
<1>7. CASE UNCHANGED vars
      BY <1>7 DEF Types, TypeOK, Named, vars, rows
<1>. QED BY <1>1, <1>2, <1>3, <1>4, <1>5, <1>6, <1>7 DEF Next

\* The registry, its flags and every handler keep their types.
THEOREM TypeCorrect == Spec => []TypeOK
<1>1. Types => TypeOK
      BY DEF Types
<1>. QED BY <1>1, InitTypes, NextTypes, PTL DEF Spec

----------------------------------------------------------------------------
(* The cap.  A start that nothing disturbed holds the host as it is: while   *)
(* its statuses are read, what it noted is what runs of the rows its tier    *)
(* shows, but for the workloads whose query failed; once it may go on, its   *)
(* workload still fits.                                                      *)

Shown == Visible(registry, tier)

Fits(n, dark) == /\ n \in Controllable(Shown)
                 /\ Memory(((active \cap Shown) \ dark) \cup {n}, recorded) <= MaxMemory

View(r) ==
    (r \in quiet /\ req[r].op \in {"start", "restart"}) =>
        /\ req[r].at = "status" => /\ req[r].rows = Shown /\ req[r].known = recorded
                                   /\ req[r].left \subseteq Shown
                                   /\ req[r].dark \subseteq Shown \ req[r].left
                                   /\ req[r].noted = (active \cap (Shown \ req[r].left)) \ req[r].dark
        /\ (req[r].at \in {"command", "again"} /\ tier = "free") => Fits(req[r].name, req[r].dark)

Views == \A r \in Handlers : View(r)

\* A step of `s` leaves the view of everyone else, or makes it count no more.
LEMMA OthersKeepTheirView ==
    ASSUME Views, NEW s, NEW r \in Handlers \ {s},
           req'[r] = req[r], quiet' \subseteq quiet \cup {s},
           quiet' \subseteq {s} \/ UNCHANGED <<registry, recorded, active, tier>>
    PROVE  View(r)'
<1>1. CASE r \in quiet'
  <2>1. r \in quiet /\ UNCHANGED <<registry, recorded, active, tier>>
        BY <1>1
  <2>2. View(r)
        BY DEF Views
  <2>. QED BY <2>1, <2>2 DEF View, Fits, Shown
<1>2. CASE r \notin quiet'
      BY <1>2 DEF View
<1>. QED BY <1>1, <1>2

\* A handler that is not a start or a restart in progress has no view to keep.
LEMMA NoView ==
    ASSUME NEW r, req'[r].op \notin {"start", "restart"} PROVE View(r)'
BY DEF View

LEMMA BeginsHasNoView ==
    ASSUME Types, NEW r \in Handlers, NEW op, op \notin {"start", "restart"}, NEW n, NEW at, NEW left,
           Begins(r, op, n, at, left)
    PROVE  View(r)'
BY NoView DEF Begins, Idle, Types, TypeOK

LEMMA InitViews == Init => Views
BY DEF Init, Views, View

\* Asking for a handler.
LEMMA AskKeepsViews ==
    ASSUME Types, Views,
           \/ \E r \in Requests, op \in Ops, n \in Names : AskStart(r, op, n)
           \/ \E r \in Requests, n \in Names : AskStop(r, n) \/ AskDelete(r, n)
           \/ \E r \in Requests : AskScan(r)
           \/ \E n \in Names : Visit(n)
    PROVE  Views'
<1>1. PICK s \in Handlers :
        \/ \E op \in Ops, n \in Names : AskStart(s, op, n)
        \/ \E n \in Names : AskStop(s, n) \/ AskDelete(s, n)
        \/ AskScan(s)
        \/ \E n \in Names : Visit(n) /\ s = Loop
      BY DEF Handlers
<1>2. /\ \A r \in Handlers \ {s} : req'[r] = req[r]
      /\ quiet' \subseteq quiet \cup {s}
      /\ UNCHANGED <<registry, recorded, active, tier>>
      BY <1>1 DEF Types, TypeOK, AskStart, AskStop, AskDelete, AskScan, Visit, Begins, rows
<1>3. \A r \in Handlers \ {s} : View(r)'
      BY <1>2, OthersKeepTheirView
<1>4. View(s)'
  <2>1. ASSUME NEW op \in Ops, NEW n \in Names, AskStart(s, op, n) PROVE View(s)'
    <3>1. /\ req'[s].at = "status" /\ req'[s].rows = Shown /\ req'[s].known = recorded
          /\ req'[s].left = Shown /\ req'[s].noted = {} /\ req'[s].dark = {}
          BY <2>1 DEF Types, TypeOK, AskStart, Shown, Idle
    <3>2. Shown' = Shown
          BY <1>2 DEF Shown
    <3>. QED BY <1>2, <3>1, <3>2 DEF View
  <2>2. CASE ~ \E op \in Ops, n \in Names : AskStart(s, op, n)
    <3>1. ASSUME NEW n \in Names, AskStop(s, n) PROVE View(s)'
          BY <3>1, BeginsHasNoView DEF AskStop
    <3>2. ASSUME NEW n \in Names, AskDelete(s, n) PROVE View(s)'
          BY <3>2, BeginsHasNoView DEF AskDelete
    <3>3. CASE AskScan(s)
          BY <3>3, BeginsHasNoView DEF AskScan
    <3>4. ASSUME NEW n \in Names, Visit(n), s = Loop PROVE View(s)'
          BY <3>4, BeginsHasNoView DEF Visit
    <3>. QED BY <1>1, <2>2, <3>1, <3>2, <3>3, <3>4
  <2>. QED BY <2>1, <2>2
<1>. QED BY <1>3, <1>4 DEF Views

\* A handler going on keeps its own view.
LEMMA StepKeepsOwnView ==
    ASSUME Types, Views, NEW s \in Handlers, HandlerStep(s)
    PROVE  View(s)'
<1>. /\ View(s) /\ req[s] \in Handler
     /\ Ends(s) => View(s)'
     BY IdleIsHandler DEF Views, View, Ends, Types, TypeOK, Handler
<1>1. ASSUME NEW n \in Names, ReadStatus(s, n) PROVE View(s)'
  <2>1. /\ req[s].at = "status" /\ n \in req[s].left
        /\ UNCHANGED <<registry, recorded, active, tier, quiet>> /\ Shown' = Shown
        BY <1>1 DEF ReadStatus, rows, Shown
  <2>2. /\ req'[s].op = req[s].op /\ req'[s].at = "status"
        /\ req'[s].rows = req[s].rows /\ req'[s].known = req[s].known
        /\ req'[s].left = req[s].left \ {n}
        /\ \/ /\ req'[s].noted = req[s].noted \cup ({n} \cap (active \ (Split \ registry)))
              /\ req'[s].dark = req[s].dark
           \/ req'[s].noted = req[s].noted /\ req'[s].dark = req[s].dark \cup {n}
        BY <1>1, <2>1 DEF ReadStatus, Types, TypeOK, Handler
  <2>3. Shown \subseteq registry
        BY DEF Shown, Visible
  <2>. QED BY <2>1, <2>2, <2>3 DEF View
<1>2. CASE DecideStart(s)
  <2>1. CASE Ends(s)
        BY <2>1
  <2>2. CASE Goes(s, "command") /\ Allowed(req[s], tier) /\ req[s].name \in Shown
    <3>1. /\ req'[s].at = "command" /\ req'[s].name = req[s].name /\ req'[s].op = req[s].op
          /\ req'[s].dark = req[s].dark
          /\ req[s].at = "status" /\ req[s].left = {}
          /\ UNCHANGED <<registry, recorded, active, tier, quiet>>
          BY <1>2, <2>2 DEF DecideStart, Answered, Goes, rows, Types, TypeOK, Handler
    <3>2. ASSUME s \in quiet, req[s].op \in {"start", "restart"}, tier = "free"
          PROVE  Fits(req[s].name, req[s].dark)
          BY <2>2, <3>1, <3>2 DEF View, Allowed, Fits
    <3>3. Fits(req[s].name, req[s].dark) => Fits(req[s].name, req[s].dark)'
          BY <3>1 DEF Fits, Shown
    <3>. QED BY <3>1, <3>2, <3>3 DEF View
  <2>. QED BY <1>2, <2>1, <2>2 DEF DecideStart, Shown
<1>3. CASE DecideAutostart(s)
  <2>1. req'[s].op = "autostart" \/ Ends(s)
        BY <1>3 DEF DecideAutostart, Goes, Types, TypeOK
  <2>. QED BY <2>1, NoView
<1>4. CASE DecideDelete(s) \/ StartCommand(s) \/ StopCommand(s) \/ SplitStart(s) \/ EndScan(s)
      BY <1>4 DEF DecideDelete, StartCommand, StopCommand, SplitStart, EndScan
<1>5. CASE SplitStop(s)
  <2>1. CASE Ends(s)
        BY <2>1
  <2>2. CASE Goes(s, "again")
    <3>1. /\ req'[s].at = "again" /\ req'[s].name = req[s].name /\ req'[s].op = req[s].op
          /\ req'[s].dark = req[s].dark
          /\ req[s].at = "command" /\ UNCHANGED <<registry, recorded, tier>> /\ quiet' \subseteq quiet
          /\ active' \in {active, active \ {req[s].name}}
          BY <1>5, <2>2 DEF SplitStop, Goes, rows, Types, TypeOK, Handler, DisturbedBy
    <3>2. Fits(req[s].name, req[s].dark) => Fits(req[s].name, req[s].dark)'
      <4>1. Shown' = Shown
            BY <3>1 DEF Shown
      <4>2. ((active' \cap Shown) \ req[s].dark) \cup {req[s].name}
               = ((active \cap Shown) \ req[s].dark) \cup {req[s].name}
            BY <3>1
      <4>. QED BY <3>1, <4>1, <4>2 DEF Fits
    <3>. QED BY <3>1, <3>2 DEF View
  <2>. QED BY <1>5, <2>1, <2>2 DEF SplitStop
<1>6. ASSUME NEW n \in Names, NEW readable \in BOOLEAN, ScanUnit(s, n, readable) PROVE View(s)'
  <2>1. req'[s].at = "units"
        BY <1>6 DEF ScanUnit, Types, TypeOK, Handler
  <2>. QED BY <2>1 DEF View
<1>7. CASE ListInstances(s) \/ \E n \in Names, given \in BOOLEAN : ScanAdds(s, n, given)
  <2>1. req'[s].at = "adding"
        BY <1>7 DEF ListInstances, ScanAdds, Types, TypeOK, Handler
  <2>. QED BY <2>1 DEF View
<1>. QED BY <1>1, <1>2, <1>3, <1>4, <1>5, <1>6, <1>7 DEF HandlerStep

LEMMA HandlerStepKeepsViews ==
    ASSUME Types, Views, NEW s \in Handlers, HandlerStep(s)
    PROVE  Views'
<1>1. \A r \in Handlers \ {s} : req'[r] = req[r]
      BY DEF HandlerStep, ReadStatus, DecideStart, DecideAutostart, DecideDelete, StartCommand,
             StopCommand, SplitStop, SplitStart, ScanUnit, ScanAdds, ListInstances, EndScan, Goes, Ends, Types, TypeOK
<1>2. quiet' \subseteq {s} \/ UNCHANGED <<registry, recorded, active, tier>>
      BY DEF HandlerStep, ReadStatus, DecideStart, DecideAutostart, DecideDelete, StartCommand,
             StopCommand, SplitStop, SplitStart, ScanUnit, ScanAdds, ListInstances, EndScan, DisturbedBy, rows
<1>3. quiet' \subseteq quiet
      BY DEF HandlerStep, ReadStatus, DecideStart, DecideAutostart, DecideDelete, StartCommand,
             StopCommand, SplitStop, SplitStart, ScanUnit, ScanAdds, ListInstances, EndScan, DisturbedBy
<1>. QED BY <1>1, <1>2, <1>3, OthersKeepTheirView, StepKeepsOwnView DEF Views

LEMMA NextViews == Types /\ Views /\ [Next]_vars => Views'
<1>. SUFFICES ASSUME Types, Views, [Next]_vars PROVE Views'
     OBVIOUS
<1>1. CASE \/ \E r \in Requests, op \in Ops, n \in Names : AskStart(r, op, n)
           \/ \E r \in Requests, n \in Names : AskStop(r, n) \/ AskDelete(r, n)
           \/ \E r \in Requests : AskScan(r)
           \/ \E n \in Names : Visit(n)
      BY <1>1, AskKeepsViews
<1>2. CASE \E r \in Handlers : HandlerStep(r)
      BY <1>2, HandlerStepKeepsViews
<1>3. ASSUME NEW n \in Names, NEW flag \in BOOLEAN, SetAutostart(n, flag) PROVE Views'
      BY <1>3 DEF Views, View, SetAutostart, Fits, Shown
<1>4. CASE (\E n \in Names : HostChanges(n)) \/ (\E t \in Tiers : TierChanges(t)) \/ Restart
  <2>1. quiet' = {}
        BY <1>4 DEF HostChanges, TierChanges, Restart
  <2>. QED BY <2>1 DEF Views, View
<1>5. CASE UNCHANGED vars
      BY <1>5 DEF vars, rows, Views, View, Fits, Shown
<1>. QED BY <1>1, <1>2, <1>3, <1>4, <1>5 DEF Next

\* A start or restart of the Free tier that nothing disturbed since it began keeps what runs under
\* the memory ceiling, but for workloads whose status query failed, and controls one of the first
\* workloads Free shows, whatever else was done before.
THEOREM CapHolds == Spec => CapHoldsUndisturbed
<1>. DEFINE Held == \A r \in quiet \cap Requests :
                       LET shown  == Visible(registry, tier)
                           unseen == req[r].dark \ {req[r].name}
                       IN  (/\ tier = "free" /\ req[r].op \in {"start", "restart"}
                            /\ req'[r] = Idle /\ req[r].name \in active' \ active)
                               => /\ Memory((active' \cap shown) \ unseen, recorded) <= MaxMemory
                                  /\ req[r].name \in Controllable(shown)
<1>1. Types /\ Views /\ [Next]_vars => [Held]_vars
  <2>. SUFFICES ASSUME Types, Views, Next,
                       NEW r \in quiet \cap Requests, tier = "free", req[r].op \in {"start", "restart"},
                       req'[r] = Idle, req[r].name \in active' \ active
                PROVE  /\ Memory((active' \cap Shown) \ (req[r].dark \ {req[r].name}), recorded) <= MaxMemory
                       /\ req[r].name \in Controllable(Shown)
       BY DEF Shown
  <2>1. r \in Handlers /\ req'[r] # req[r] /\ View(r)
        BY IdleIsHandler DEF Views, Handlers
  <2>2. PICK s \in Handlers : StartCommand(s) \/ StopCommand(s) \/ SplitStop(s) \/ SplitStart(s)
    <3>1. active' # active /\ ~(active' \subseteq active)
          OBVIOUS
    <3>2. PICK s \in Handlers : HandlerStep(s)
          BY <2>1, <3>1 DEF Next, AskStart, AskStop, AskDelete, AskScan, Visit, SetAutostart,
                 HostChanges, TierChanges, Restart
    <3>. QED BY <3>1, <3>2 DEF HandlerStep,
                 ReadStatus, DecideStart, DecideAutostart, DecideDelete, ScanUnit, ScanAdds, ListInstances, EndScan
  <2>3. s = r
        BY <2>1, <2>2 DEF StartCommand, StopCommand, SplitStop, SplitStart, Goes, Ends, Types, TypeOK
  <2>4. req[r].at \in {"command", "again"} /\ active' = active \cup {req[r].name} /\ UNCHANGED rows
        BY <2>2, <2>3 DEF StartCommand, StopCommand, SplitStop, SplitStart
  <2>5. Fits(req[r].name, req[r].dark)
        BY <2>1, <2>4 DEF View
  <2>6. (active' \cap Shown) \ (req[r].dark \ {req[r].name})
           = ((active \cap Shown) \ req[r].dark) \cup {req[r].name}
        BY <2>4, <2>5 DEF Fits, Controllable
  <2>. QED BY <2>5, <2>6 DEF Fits
<1>. QED BY <1>1, InitTypes, NextTypes, InitViews, NextViews, PTL DEF Spec, CapHoldsUndisturbed

----------------------------------------------------------------------------
(* Deletes.  What a delete that nothing disturbed has noted is still so.      *)

Watch(r) ==
    (r \in quiet /\ req[r].op = "delete") =>
        /\ req[r].at = "status" /\ req[r].left \subseteq {req[r].name} /\ req[r].dark \cap req[r].left = {}
        /\ req[r].name \in registry =>
              req[r].noted = (active \cap ({req[r].name} \ req[r].left)) \ req[r].dark

Watches == \A r \in Handlers : Watch(r)

LEMMA OthersKeepTheirWatch ==
    ASSUME Watches, NEW s, NEW r \in Handlers \ {s},
           req'[r] = req[r], quiet' \subseteq quiet \cup {s},
           quiet' \subseteq {s} \/ UNCHANGED <<registry, active>>
    PROVE  Watch(r)'
<1>1. CASE r \in quiet'
      BY <1>1 DEF Watches, Watch
<1>2. CASE r \notin quiet'
      BY <1>2 DEF Watch
<1>. QED BY <1>1, <1>2

LEMMA NoWatch ==
    ASSUME NEW r, req'[r].op # "delete" PROVE Watch(r)'
BY DEF Watch

LEMMA BeginsAnother ==
    ASSUME Types, NEW r \in Handlers, NEW op, op # "delete", NEW n, NEW at, NEW left,
           Begins(r, op, n, at, left)
    PROVE  req'[r].op # "delete"
BY DEF Begins, Idle, Types, TypeOK

\* Asking for a handler.
LEMMA AskKeepsWatches ==
    ASSUME Types, Watches,
           \/ \E r \in Requests, op \in Ops, n \in Names : AskStart(r, op, n)
           \/ \E r \in Requests, n \in Names : AskStop(r, n) \/ AskDelete(r, n)
           \/ \E r \in Requests : AskScan(r)
           \/ \E n \in Names : Visit(n)
    PROVE  Watches'
<1>1. PICK s \in Handlers :
        \/ \E op \in Ops, n \in Names : AskStart(s, op, n)
        \/ \E n \in Names : AskStop(s, n) \/ AskDelete(s, n)
        \/ AskScan(s)
        \/ \E n \in Names : Visit(n) /\ s = Loop
      BY DEF Handlers
<1>2. /\ \A r \in Handlers \ {s} : req'[r] = req[r]
      /\ quiet' \subseteq quiet \cup {s}
      /\ UNCHANGED <<registry, active>>
      BY <1>1 DEF Types, TypeOK, AskStart, AskStop, AskDelete, AskScan, Visit, Begins, rows
<1>3. \A r \in Handlers \ {s} : Watch(r)'
      BY <1>2, OthersKeepTheirWatch
<1>4. Watch(s)'
  <2>1. CASE \E n \in Names : AskDelete(s, n)
    <3>1. PICK n \in Names : Begins(s, "delete", n, "status", {n})
          BY <2>1 DEF AskDelete
    <3>2. /\ req'[s].at = "status" /\ req'[s].name = n
          /\ req'[s].left = {n} /\ req'[s].noted = {} /\ req'[s].dark = {}
          BY <3>1 DEF Begins, Idle, Types, TypeOK
    <3>. QED BY <3>2 DEF Watch
  <2>2. CASE ~ \E n \in Names : AskDelete(s, n)
    <3>1. ASSUME NEW op \in Ops, NEW n \in Names, AskStart(s, op, n) PROVE req'[s].op # "delete"
          BY <3>1 DEF AskStart, Types, TypeOK
    <3>2. ASSUME NEW n \in Names, AskStop(s, n) PROVE req'[s].op # "delete"
          BY <3>2, BeginsAnother DEF AskStop
    <3>3. ASSUME AskScan(s) PROVE req'[s].op # "delete"
          BY <3>3, BeginsAnother DEF AskScan
    <3>4. ASSUME NEW n \in Names, Visit(n), s = Loop PROVE req'[s].op # "delete"
          BY <3>4, BeginsAnother DEF Visit
    <3>5. req'[s].op # "delete"
          BY <1>1, <2>2, <3>1, <3>2, <3>3, <3>4
    <3>. QED BY <3>5, NoWatch
  <2>. QED BY <2>1, <2>2
<1>. QED BY <1>3, <1>4 DEF Watches

\* A delete that goes on reads its one status, or ends.
LEMMA StepKeepsOwnWatch ==
    ASSUME Types, Watches, NEW s \in Handlers, HandlerStep(s)
    PROVE  Watch(s)'
<1>. /\ Watch(s) /\ req[s] \in Handler
     /\ Ends(s) => Watch(s)'
     BY IdleIsHandler, NoWatch DEF Watches, Ends, Types, TypeOK, Handler
<1>1. CASE req[s].op = "delete" /\ s \in quiet
  <2>1. req[s].at = "status"
        BY <1>1 DEF Watch
  <2>2. ASSUME NEW n \in Names, ReadStatus(s, n) PROVE Watch(s)'
    <3>1. n \in req[s].left /\ n = req[s].name /\ UNCHANGED <<registry, active, quiet>>
          BY <1>1, <2>2 DEF ReadStatus, Watch, rows
    <3>2. /\ req'[s].op = req[s].op /\ req'[s].at = "status" /\ req'[s].name = req[s].name
          /\ req'[s].left = req[s].left \ {n}
          /\ \/ /\ req'[s].noted = req[s].noted \cup ({n} \cap (active \ (Split \ registry)))
                /\ req'[s].dark = req[s].dark
             \/ req'[s].noted = req[s].noted /\ req'[s].dark = req[s].dark \cup {n}
          BY <2>1, <2>2 DEF ReadStatus, Types, TypeOK, Handler
    <3>. QED BY <1>1, <3>1, <3>2 DEF Watch
  <2>3. CASE DecideDelete(s)
        BY <2>3 DEF DecideDelete
  <2>. QED BY <1>1, <2>1, <2>2, <2>3 DEF HandlerStep, DecideStart, DecideAutostart, StartCommand,
           StopCommand, SplitStop, SplitStart, ScanUnit, ScanAdds, ListInstances, EndScan
<1>2. CASE req[s].op # "delete" \/ s \notin quiet
  <2>1. req'[s].op \in {req[s].op, "none"}
    <3>1. ASSUME NEW n \in Names, ReadStatus(s, n) PROVE req'[s].op = req[s].op
          BY <3>1 DEF ReadStatus, Types, TypeOK, Handler
    <3>2. ASSUME NEW n \in Names, NEW readable \in BOOLEAN, ScanUnit(s, n, readable)
          PROVE  req'[s].op = req[s].op
          BY <3>2 DEF ScanUnit, Types, TypeOK, Handler
    <3>5. ASSUME ListInstances(s) \/ \E n \in Names, given \in BOOLEAN : ScanAdds(s, n, given)
          PROVE  req'[s].op = req[s].op
          BY <3>5 DEF ListInstances, ScanAdds, Types, TypeOK, Handler
    <3>3. Goes(s, "command") \/ Goes(s, "again") => req'[s].op = req[s].op
          BY DEF Goes, Types, TypeOK, Handler
    <3>4. Ends(s) => req'[s].op = "none"
          BY IdleIsHandler DEF Ends, Types, TypeOK
    <3>. QED BY <3>1, <3>2, <3>3, <3>4, <3>5
             DEF HandlerStep, DecideStart, DecideAutostart, DecideDelete, StartCommand,
                 StopCommand, SplitStop, SplitStart, EndScan
  <2>2. quiet' \subseteq quiet
        BY DEF HandlerStep, ReadStatus, DecideStart, DecideAutostart, DecideDelete, StartCommand,
               StopCommand, SplitStop, SplitStart, ScanUnit, ScanAdds, ListInstances, EndScan, DisturbedBy
  <2>. QED BY <1>2, <2>1, <2>2 DEF Watch
<1>. QED BY <1>1, <1>2

LEMMA HandlerStepKeepsWatches ==
    ASSUME Types, Watches, NEW s \in Handlers, HandlerStep(s)
    PROVE  Watches'
<1>1. \A r \in Handlers \ {s} : req'[r] = req[r]
      BY DEF HandlerStep, ReadStatus, DecideStart, DecideAutostart, DecideDelete, StartCommand,
             StopCommand, SplitStop, SplitStart, ScanUnit, ScanAdds, ListInstances, EndScan, Goes, Ends, Types, TypeOK
<1>2. quiet' \subseteq {s} \/ UNCHANGED <<registry, active>>
      BY DEF HandlerStep, ReadStatus, DecideStart, DecideAutostart, DecideDelete, StartCommand,
             StopCommand, SplitStop, SplitStart, ScanUnit, ScanAdds, ListInstances, EndScan, DisturbedBy, rows
<1>3. quiet' \subseteq quiet
      BY DEF HandlerStep, ReadStatus, DecideStart, DecideAutostart, DecideDelete, StartCommand,
             StopCommand, SplitStop, SplitStart, ScanUnit, ScanAdds, ListInstances, EndScan, DisturbedBy
<1>. QED BY <1>1, <1>2, <1>3, OthersKeepTheirWatch, StepKeepsOwnWatch DEF Watches

LEMMA NextWatches == Types /\ Watches /\ [Next]_vars => Watches'
<1>. SUFFICES ASSUME Types, Watches, [Next]_vars PROVE Watches'
     OBVIOUS
<1>1. CASE \/ \E r \in Requests, op \in Ops, n \in Names : AskStart(r, op, n)
           \/ \E r \in Requests, n \in Names : AskStop(r, n) \/ AskDelete(r, n)
           \/ \E r \in Requests : AskScan(r)
           \/ \E n \in Names : Visit(n)
      BY <1>1, AskKeepsWatches
<1>2. CASE \E r \in Handlers : HandlerStep(r)
      BY <1>2, HandlerStepKeepsWatches
<1>3. ASSUME NEW n \in Names, NEW flag \in BOOLEAN, SetAutostart(n, flag) PROVE Watches'
      BY <1>3 DEF Watches, Watch, SetAutostart
<1>4. CASE (\E n \in Names : HostChanges(n)) \/ (\E t \in Tiers : TierChanges(t)) \/ Restart
  <2>1. quiet' = {}
        BY <1>4 DEF HostChanges, TierChanges, Restart
  <2>. QED BY <2>1 DEF Watches, Watch
<1>5. CASE UNCHANGED vars
      BY <1>5 DEF vars, rows, Watches, Watch
<1>. QED BY <1>1, <1>2, <1>3, <1>4, <1>5 DEF Next

\* A delete that nothing disturbed since it began leaves a running unit its row, unless its status
\* query failed: deleteVm() acts on the status it asked for.
THEOREM DeleteSpares == Spec => DeleteSparesRunning
<1>. DEFINE Spared == \A r \in quiet : (req[r].op = "delete" /\ req'[r] = Idle /\ registry' # registry
                                            /\ req[r].name \in active)
                                           => req[r].name \in req[r].dark
<1>1. Types /\ Watches /\ [Next]_vars => [Spared]_vars
  <2>. SUFFICES ASSUME Types, Watches, Next,
                       NEW r \in quiet, req[r].op = "delete", req'[r] = Idle, registry' # registry,
                       req[r].name \in active
                PROVE  req[r].name \in req[r].dark
       OBVIOUS
  <2>1. r \in Handlers /\ req'[r] # req[r] /\ Watch(r)
        BY IdleIsHandler DEF Watches, Types, TypeOK
  <2>2. PICK s \in Handlers : \/ DecideDelete(s)
                             \/ \E n \in Names, b \in BOOLEAN : ScanUnit(s, n, b) \/ ScanAdds(s, n, b)
        BY DEF Next, HandlerStep, AskStart, AskStop, AskDelete, AskScan, Visit, SetAutostart,
               ReadStatus, DecideStart, DecideAutostart, StartCommand, StopCommand, SplitStop,
               SplitStart, ListInstances, EndScan, HostChanges, TierChanges, Restart, rows
  <2>3. s = r
        BY <2>1, <2>2 DEF DecideDelete, ScanUnit, ScanAdds, Ends, Types, TypeOK
  <2>4. DecideDelete(r)
        BY <2>1, <2>2, <2>3 DEF Watch, ScanUnit, ScanAdds
  <2>5. req[r].name \notin req[r].noted /\ req[r].name \in registry
        BY <2>4 DEF DecideDelete, rows
  <2>. QED BY <2>1, <2>4, <2>5 DEF Watch, DecideDelete, Answered
<1>2. Init => Watches
      BY DEF Init, Watches, Watch
<1>. QED BY <1>1, <1>2, InitTypes, NextTypes, NextWatches, PTL DEF Spec, DeleteSparesRunning

----------------------------------------------------------------------------
(* The status poll: what holds between two suspensions.                    *)

Listing == [Vms -> Statuses \cup {Gone, Unseen}]
Rounding == [at : {"idle", "list", "send", "store", "dispatch"}, seen : Listing,
             pos : 0..Len(Order)]
Entry == [vm : Vms \cup {Unseen}, before : Statuses \cup {Unseen}, now : Statuses \cup {Unseen}]

PollTypes == /\ status \in [Vms -> Statuses \cup {Gone}] /\ watching \in BOOLEAN
             /\ view \in Listing
             /\ round \in [Rounds -> Rounding]
             /\ prev \in [Vms -> Statuses \cup {Unseen}]
             /\ raced \subseteq Vms
LogTypes  == log \in Seq(Entry) /\ Len(log) <= MaxKept
TickTypes == changes \in 0..MaxChanges /\ others \in 0..MaxOthers /\ faults \in 0..MaxFaults

\* A round that has its list has the status of each workload, and one that
\* tells is at an event.
Heard == \A k \in Rounds : round[k].at \in {"send", "store", "dispatch"} =>
                round[k].seen \in [Vms -> Statuses \cup {Gone}]
Tellers  == \A k \in Rounds : Telling(k) =>
                round[k].pos \in DOMAIN Order /\ round[k].seen[Subject(k)] \in Told

\* Two rounds tell of one workload only if it counts as raced.
TellsOf(k, vm) == Telling(k) /\ Subject(k) = vm
OneTeller == \A vm \in Vms \ raced, k, o \in Rounds : TellsOf(k, vm) /\ TellsOf(o, vm) => k = o

FeedInv == PollTypes /\ LogTypes /\ TickTypes /\ Heard /\ Tellers /\ OneTeller

LEMMA FeedTypes == FeedInv => StatusTypeOK
  BY DEF FeedInv, PollTypes, LogTypes, TickTypes, StatusTypeOK, Listing, Rounding, Entry

LEMMA OrderFacts ==
    /\ Len(Order) \in Nat /\ DOMAIN Order = 1..Len(Order)
    /\ \A i \in 1..Len(Order) : Order[i] \in Vms
    /\ \A vm \in Vms : \E i \in 1..Len(Order) : Order[i] = vm
    /\ \A i, j \in 1..Len(Order) : Order[i] = Order[j] => i = j
  BY StatusAssumption

LEMMA RestingTypes ==
    /\ Unknown \in Listing /\ Unknown \in [Vms -> Statuses \cup {Unseen}]
    /\ Resting \in Rounding /\ Resting.at = "idle"
  BY OrderFacts DEF Unknown, Resting, Listing, Rounding

\* The record of a workload no round tells of, and of one that a round tells of.
LEMMA KnownUntold ==
    ASSUME NEW vm \in Vms
    PROVE  /\ (\A k \in Rounds : ~ TellsOf(k, vm)) => Known(vm) = prev[vm]
           /\ (\A k \in Rounds : ~ TellsOf(k, vm)') => Known(vm)' = prev'[vm]
  <1>1. ASSUME \A k \in Rounds : ~ TellsOf(k, vm) PROVE Known(vm) = prev[vm]
    <2>1. {k \in Rounds : Telling(k) /\ Subject(k) = vm} = {}
      BY <1>1 DEF TellsOf
    <2> QED BY <2>1 DEF Known
  <1>2. ASSUME \A k \in Rounds : ~ TellsOf(k, vm)' PROVE Known(vm)' = prev'[vm]
    <2>1. {k \in Rounds : Telling(k)' /\ Subject(k)' = vm} = {}
      BY <1>2 DEF TellsOf
    <2> QED BY <2>1 DEF Known
  <1> QED BY <1>1, <1>2

LEMMA KnownTold ==
    ASSUME NEW vm \in Vms, NEW k \in Rounds
    PROVE  /\ TellsOf(k, vm) /\ OneTeller /\ vm \notin raced => Known(vm) = round[k].seen[vm]
           /\ TellsOf(k, vm)' /\ OneTeller' /\ vm \notin raced' => Known(vm)' = round'[k].seen[vm]
  <1>0. (CHOOSE o \in {k} : TRUE) = k
    OBVIOUS
  <1>1. ASSUME TellsOf(k, vm), OneTeller, vm \notin raced PROVE Known(vm) = round[k].seen[vm]
    <2>1. {o \in Rounds : Telling(o) /\ Subject(o) = vm} = {k}
      BY <1>1 DEF TellsOf, OneTeller
    <2> QED BY <1>0, <1>1, <2>1 DEF Known
  <1>2. ASSUME TellsOf(k, vm)', OneTeller', vm \notin raced' PROVE Known(vm)' = round'[k].seen[vm]
    <2>1. {o \in Rounds : Telling(o)' /\ Subject(o)' = vm} = {k}
      BY <1>2 DEF TellsOf, OneTeller
    <2> QED BY <1>0, <1>2, <2>1 DEF Known
  <1> QED BY <1>1, <1>2

----------------------------------------------------------------------------
(* A scan.                                                                 *)

LEMMA Least ==
    ASSUME NEW S \in SUBSET Nat, S # {}
    PROVE  \E m \in S : \A n \in S : m <= n
  <1>1. \E m \in S : \A n \in S : <<n, m>> \notin OpToRel(<, Nat)
    BY NatLessThanWellFounded, WFMin, Zenon
  <1>2. \A m, n \in Nat : <<n, m>> \notin OpToRel(<, Nat) => m <= n
    BY DEF OpToRel
  <1> QED BY <1>1, <1>2

Places == 1..(Len(Order) + 1)
Records == [Vms -> Statuses \cup {Unseen}]
Answers == [Vms -> Statuses \cup {Gone}]

\* The loop stops at the first event from where it goes on, or at the end.
LEMMA NextToldIsFirst ==
    ASSUME NEW p, NEW seen, NEW i \in Places, NEW j, j = NextTold(p, seen, i)
    PROVE  /\ j \in Places /\ i <= j
           /\ j <= Len(Order) => Tells(p, seen, Order[j])
           /\ \A l \in i..(j - 1) : ~ Tells(p, seen, Order[l])
  <1> DEFINE due == {l \in i..Len(Order) : Tells(p, seen, Order[l])}
  <1>1. CASE due = {}
    <2>1. j = Len(Order) + 1
      BY <1>1 DEF NextTold
    <2> QED BY <1>1, <2>1, OrderFacts DEF Places
  <1>2. CASE due # {}
    <2>1. due \in SUBSET Nat
      BY OrderFacts DEF Places
    <2>2. \E m \in due : \A l \in due : m <= l
      BY ONLY <1>2, <2>1, Least
    <2>3. j = CHOOSE m \in due : \A l \in due : m <= l
      BY <1>2 DEF NextTold
    <2>4. j \in due /\ \A l \in due : j <= l
      BY ONLY <2>2, <2>3
    <2> QED BY <2>4, OrderFacts DEF Places
  <1> QED BY <1>1, <1>2

\* What is told, and what was recorded before, are statuses.
LEMMA TellsStatuses ==
    ASSUME NEW p \in Records, NEW seen \in Answers, NEW vm \in Vms, Tells(p, seen, vm)
    PROVE  p[vm] \in Statuses /\ seen[vm] \in Told /\ seen[vm] \in Statuses
  BY DEF Records, Answers, Tells, Told

LEMMA ScannedTypes ==
    ASSUME NEW p \in Records, NEW seen \in Answers, NEW i \in Places, NEW j \in Places
    PROVE  Scanned(p, seen, i, j) \in Records
  BY DEF Records, Answers, Scanned

\* The list keeps its newest entries.
LEMMA AddKeeps ==
    ASSUME LogTypes, NEW e \in Entry, Add(e)
    PROVE  LogTypes' /\ Feed!Added(e)
  <1>1. Append(log, e) \in Seq(Entry) /\ Len(Append(log, e)) = Len(log) + 1 /\ Len(log) \in Nat
    BY DEF LogTypes
  <1>2. MaxKept \in Nat
    BY StatusAssumption
  <1>3. ASSUME NEW s \in Seq(Entry), Len(s) > MaxKept, Len(s) <= MaxKept + 1
        PROVE  SubSeq(s, Len(s) - MaxKept + 1, Len(s)) = Tail(s)
    BY <1>2, <1>3
  <1>4. ASSUME NEW s \in Seq(Entry), Len(s) <= MaxKept + 1 PROVE Latest(s) = Feed!Latest(s)
    <2>1. CASE Len(s) > MaxKept
      BY <1>3, <1>4, <2>1 DEF Latest, Feed!Latest
    <2>2. CASE ~ Len(s) > MaxKept
      BY <2>2 DEF Latest, Feed!Latest
    <2> QED BY <2>1, <2>2
  <1>5. Len(Tail(Append(log, e))) = Len(log) /\ Tail(Append(log, e)) \in Seq(Entry)
    BY <1>1
  <1>6. Feed!Latest(Append(log, e)) \in Seq(Entry) /\ Len(Feed!Latest(Append(log, e))) <= MaxKept
    BY <1>1, <1>2, <1>5 DEF Feed!Latest, LogTypes
  <1>7. Latest(Append(log, e)) = Feed!Latest(Append(log, e))
    <2>1. Len(Append(log, e)) <= MaxKept + 1
      BY <1>1, <1>2 DEF LogTypes
    <2> QED BY ONLY <1>1, <2>1, <1>4
  <1> QED BY <1>6, <1>7 DEF Add, Feed!Added, LogTypes

\* Where the scan stops, at j, and what it has done by then.
Stops(k, seen, p, i, j) ==
    /\ j \in Places /\ i <= j
    /\ j <= Len(Order) => Tells(p, seen, Order[j])
    /\ \A l \in i..(j - 1) : ~ Tells(p, seen, Order[l])
    /\ prev' = Scanned(p, seen, i, j)
    /\ raced \subseteq raced' /\ raced' \subseteq Vms
    /\ \A l \in i..j, o \in Rounds \ {k} :
         l <= Len(Order) /\ TellsOf(o, Order[l]) => Order[l] \in raced'
    /\ \/ j > Len(Order) /\ round' = [round EXCEPT ![k] = Resting] /\ UNCHANGED log
       \/ /\ j <= Len(Order)
          /\ round' = [round EXCEPT ![k] = [at |-> "store", seen |-> seen, pos |-> j]]
          /\ Add(Event(Order[j], p[Order[j]], seen[Order[j]]))

LEMMA ScanStops ==
    ASSUME FeedInv, NEW k \in Rounds, NEW seen \in Answers, NEW p \in Records, NEW i \in Places,
           Scan(k, seen, p, i)
    PROVE  \E j : Stops(k, seen, p, i, j)
  <1>0. PICK j : j = NextTold(p, seen, i)
    OBVIOUS
  <1> DEFINE met == {Order[l] : l \in {l \in i..j : l <= Len(Order)}}
  <1>1. /\ j \in Places /\ i <= j
        /\ j <= Len(Order) => Tells(p, seen, Order[j])
        /\ \A l \in i..(j - 1) : ~ Tells(p, seen, Order[l])
    BY <1>0, NextToldIsFirst
  <1>2. /\ prev' = Scanned(p, seen, i, j)
        /\ raced' = raced \cup {vm \in met : \E o \in Rounds \ {k} : Telling(o) /\ Subject(o) = vm}
        /\ \/ j > Len(Order) /\ round' = [round EXCEPT ![k] = Resting] /\ UNCHANGED log
           \/ /\ ~ j > Len(Order)
              /\ round' = [round EXCEPT ![k] = [at |-> "store", seen |-> seen, pos |-> j]]
              /\ Add(Event(Order[j], p[Order[j]], seen[Order[j]]))
    BY <1>0, Zenon DEF Scan
  <1>3. \A l \in i..j : l <= Len(Order) => Order[l] \in Vms /\ Order[l] \in met
    BY <1>1, OrderFacts DEF Places
  <1>4. met \subseteq Vms
    BY <1>1, OrderFacts DEF Places
  <1>5. raced \subseteq raced' /\ raced' \subseteq Vms
    BY <1>2, <1>4 DEF FeedInv, PollTypes
  <1>6. \A l \in i..j, o \in Rounds \ {k} :
          l <= Len(Order) /\ TellsOf(o, Order[l]) => Order[l] \in raced'
    <2> HIDE DEF met
    <2> QED BY <1>2, <1>3 DEF TellsOf
  <1>7. j > Len(Order) \/ j <= Len(Order)
    BY <1>1, OrderFacts DEF Places
  <1>8. j > Len(Order) <=> ~ (j <= Len(Order))
    BY <1>1, OrderFacts DEF Places
  <1>9. Stops(k, seen, p, i, j)
    <2> HIDE DEF met
    <2> QED BY <1>1, <1>2, <1>5, <1>6, <1>7, <1>8, Zenon DEF Stops
  <1> QED BY <1>9

\* The invariant's part about rounds, records and the list outlives a scan.
LEMMA ScanKeeps ==
    ASSUME FeedInv, NEW k \in Rounds, NEW seen \in Answers, NEW p \in Records, NEW i \in Places,
           NEW j, Stops(k, seen, p, i, j)
    PROVE  /\ round' \in [Rounds -> Rounding] /\ prev' \in Records /\ raced' \subseteq Vms
           /\ LogTypes' /\ Heard' /\ Tellers' /\ OneTeller'
  <1> USE OrderFacts
  <1>1. prev' \in Records /\ raced' \subseteq Vms
    BY ScannedTypes DEF Stops
  <1>2. CASE j > Len(Order) /\ round' = [round EXCEPT ![k] = Resting] /\ UNCHANGED log
    <2>1. round' \in [Rounds -> Rounding]
      BY <1>2, RestingTypes DEF FeedInv, PollTypes
    <2>2. round'[k].at = "idle" /\ \A o \in Rounds \ {k} : round'[o] = round[o]
      BY <1>2, RestingTypes DEF FeedInv, PollTypes
    <2>3. Heard' /\ Tellers'
      BY <2>2 DEF FeedInv, Heard, Tellers, Telling, Subject
    <2>4. OneTeller'
      BY <2>2 DEF FeedInv, OneTeller, TellsOf, Telling, Subject, Stops
    <2>5. LogTypes'
      BY <1>2 DEF FeedInv, LogTypes
    <2> QED BY <1>1, <2>1, <2>3, <2>4, <2>5
  <1>3. CASE /\ j <= Len(Order)
             /\ round' = [round EXCEPT ![k] = [at |-> "store", seen |-> seen, pos |-> j]]
             /\ Add(Event(Order[j], p[Order[j]], seen[Order[j]]))
    <2>0. Order[j] \in Vms /\ j \in 1..Len(Order) /\ Tells(p, seen, Order[j])
      BY <1>3 DEF Stops, Places
    <2>1. [at |-> "store", seen |-> seen, pos |-> j] \in Rounding
      BY <2>0 DEF Rounding, Listing, Answers
    <2>2. /\ round' \in [Rounds -> Rounding]
          /\ round'[k] = [at |-> "store", seen |-> seen, pos |-> j]
          /\ \A o \in Rounds \ {k} : round'[o] = round[o]
      BY <1>3, <2>1 DEF FeedInv, PollTypes
    <2>3. Heard'
      BY <2>2 DEF FeedInv, Heard, Answers
    <2>4. Tellers'
      BY <2>0, <2>2, TellsStatuses DEF FeedInv, Tellers, Telling, Subject
    <2>5. ASSUME NEW o \in Rounds \ {k}, NEW vm \in Vms \ raced', TellsOf(o, vm)', TellsOf(k, vm)'
          PROVE FALSE
      <3>1. vm = Order[j] /\ TellsOf(o, vm)
        BY <2>2, <2>5 DEF TellsOf, Telling, Subject
      <3> QED BY <2>0, <3>1 DEF Stops, Places
    <2>6. ASSUME NEW a \in Rounds \ {k}, NEW o \in Rounds \ {k}, NEW vm \in Vms \ raced',
                 TellsOf(a, vm)', TellsOf(o, vm)'
          PROVE a = o
      <3>1. TellsOf(a, vm) /\ TellsOf(o, vm) /\ vm \notin raced
        BY <2>2, <2>6 DEF TellsOf, Telling, Subject, Stops
      <3> QED BY <3>1 DEF FeedInv, OneTeller
    <2>7. OneTeller'
      BY <2>5, <2>6 DEF OneTeller
    <2>8. Event(Order[j], p[Order[j]], seen[Order[j]]) \in Entry
      BY <2>0, TellsStatuses DEF Event, Entry
    <2>9. LogTypes'
      BY <1>3, <2>8, AddKeeps DEF FeedInv
    <2> QED BY <1>1, <2>2, <2>3, <2>4, <2>7, <2>9
  <1> QED BY <1>2, <1>3 DEF Stops

\* The round that goes on has recorded what it told last.
HasTold(k, p) == \A vm \in Vms : p[vm] = IF TellsOf(k, vm) THEN round[k].seen[vm] ELSE prev[vm]

\* What a scan does to the record of a workload about which no rounds overlapped.
LEMMA ScanKnown ==
    ASSUME FeedInv, OneTeller', NEW k \in Rounds, NEW seen \in Answers, NEW p \in Records,
           NEW i \in Places, NEW j, Stops(k, seen, p, i, j), HasTold(k, p),
           NEW vm \in Vms \ raced'
    PROVE  IF j <= Len(Order) /\ Order[j] = vm
           THEN Known(vm) = p[vm] /\ Known(vm)' = seen[vm]
           ELSE \/ Known(vm)' = Known(vm)
                \/ Known(vm) = Unseen
                \/ Known(vm)' \notin Told
  <1> USE OrderFacts
  <1>0. vm \notin raced /\ OneTeller /\ round \in [Rounds -> Rounding]
    BY DEF Stops, FeedInv, PollTypes
  <1>1. /\ \A o \in Rounds \ {k} : round'[o] = round[o]
        /\ j > Len(Order) => round'[k].at = "idle"
        /\ j <= Len(Order) => round'[k] = [at |-> "store", seen |-> seen, pos |-> j]
    BY <1>0, RestingTypes DEF Stops, Places
  <1>2. ASSUME NEW o \in Rounds \ {k} PROVE TellsOf(o, vm)' <=> TellsOf(o, vm)
    BY <1>1 DEF TellsOf, Telling, Subject
  <1>3. TellsOf(k, vm)' <=> j <= Len(Order) /\ Order[j] = vm
    BY <1>1 DEF TellsOf, Telling, Subject, Stops, Places
  <1>4. CASE \E o \in Rounds \ {k} : TellsOf(o, vm)
    <2>1. PICK o \in Rounds \ {k} : TellsOf(o, vm)
      BY <1>4
    <2>2. Known(vm) = round[o].seen[vm]
      BY <1>0, <2>1, KnownTold
    <2>3. Known(vm)' = round'[o].seen[vm]
      BY <1>2, <2>1, KnownTold
    <2>4. ~ (j <= Len(Order) /\ Order[j] = vm)
      BY <2>1 DEF Stops, Places
    <2> QED BY <1>1, <2>2, <2>3, <2>4
  <1>5. CASE \A o \in Rounds \ {k} : ~ TellsOf(o, vm)
    <2>1. Known(vm) = p[vm]
      <3>1. CASE TellsOf(k, vm)
        <4>1. Known(vm) = round[k].seen[vm]
          BY <1>0, <3>1, KnownTold
        <4> QED BY <3>1, <4>1 DEF HasTold
      <3>2. CASE ~ TellsOf(k, vm)
        <4>1. Known(vm) = prev[vm]
          BY <1>5, <3>2, KnownUntold
        <4> QED BY <3>2, <4>1 DEF HasTold
      <3> QED BY <3>1, <3>2
    <2>2. CASE j <= Len(Order) /\ Order[j] = vm
      <3>1. Known(vm)' = round'[k].seen[vm]
        BY <1>3, <2>2, KnownTold
      <3> QED BY <1>1, <2>1, <2>2, <3>1
    <2>3. CASE ~ (j <= Len(Order) /\ Order[j] = vm)
      <3>1. Known(vm)' = prev'[vm]
        BY <1>2, <1>3, <1>5, <2>3, KnownUntold
      <3>2. CASE seen[vm] # Gone /\ \E l \in i..(j - 1) : Order[l] = vm
        <4>1. prev'[vm] = seen[vm] /\ ~ Tells(p, seen, vm)
          BY <3>2 DEF Stops, Scanned
        <4> QED BY <2>1, <2>3, <3>1, <4>1 DEF Tells
      <3>3. CASE ~ (seen[vm] # Gone /\ \E l \in i..(j - 1) : Order[l] = vm)
        <4>1. prev'[vm] = p[vm]
          BY <3>3 DEF Stops, Scanned
        <4> QED BY <2>1, <2>3, <3>1, <4>1
      <3> QED BY <3>2, <3>3
    <2> QED BY <2>2, <2>3
  <1> QED BY <1>4, <1>5

\* A scan is a stretch of the abstract feed.
LEMMA ScanLooks ==
    ASSUME FeedInv, OneTeller', NEW k \in Rounds, NEW seen \in Answers, NEW p \in Records,
           NEW i \in Places, NEW j, Stops(k, seen, p, i, j), HasTold(k, p)
    PROVE  Feed!Look
  <1> USE OrderFacts
  <1>0. raced \subseteq raced'
    BY DEF Stops
  <1>1. ASSUME NEW vm \in Vms \ raced', ~ (j <= Len(Order) /\ Order[j] = vm)
        PROVE  Feed!Quiet(vm)
    <2>1. \/ Known(vm)' = Known(vm) \/ Known(vm) = Unseen \/ Known(vm)' \notin Told
      BY <1>1, ScanKnown
    <2> QED BY <2>1 DEF Feed!Quiet
  <1>2. CASE j > Len(Order) /\ UNCHANGED log
    <2>1. \A vm \in Vms \ raced' : Feed!Quiet(vm)
      BY <1>1, <1>2 DEF Stops, Places
    <2> QED BY <1>0, <1>2, <2>1 DEF Feed!Look
  <1>3. CASE j <= Len(Order) /\ Add(Event(Order[j], p[Order[j]], seen[Order[j]]))
    <2>0. PICK vm \in Vms : vm = Order[j]
      BY <1>3 DEF Stops, Places
    <2>1. Tells(p, seen, vm) /\ p[vm] \in Statuses /\ seen[vm] \in Told /\ seen[vm] \in Statuses
      BY <1>3, <2>0, TellsStatuses DEF Stops
    <2>2. Event(vm, p[vm], seen[vm]) \in Entry
      BY <2>1 DEF Event, Entry
    <2>3. Feed!Added(Event(vm, p[vm], seen[vm]))
      BY <1>3, <2>0, <2>2, AddKeeps DEF FeedInv
    <2>4. \A other \in Vms \ (raced' \cup {vm}) : Feed!Quiet(other)
      BY <1>1, <2>0
    <2>5. CASE vm \in raced'
      <3>1. Feed!Added(Feed!Event(vm, p[vm], seen[vm]))
        BY <2>3 DEF Event, Feed!Event
      <3>2. \A other \in Vms \ raced' : Feed!Quiet(other)
        BY <2>4, <2>5
      <3> QED BY <1>0, <2>1, <2>5, <3>1, <3>2 DEF Feed!Look
    <2>6. CASE vm \notin raced'
      <3>1. Known(vm) = p[vm] /\ Known(vm)' = seen[vm]
        BY <1>3, <2>0, <2>6, ScanKnown
      <3>2. Feed!Telling(vm)
        BY <2>1, <2>3, <3>1 DEF Feed!Telling, Tells, Event, Feed!Event
      <3> QED BY <1>0, <2>4, <2>6, <3>2 DEF Feed!Look
    <2> QED BY <2>5, <2>6
  <1> QED BY <1>2, <1>3 DEF Stops

----------------------------------------------------------------------------
(* The steps.                                                              *)

\* A step that changes neither what is recorded nor who tells what looks like
\* a stretch in which nothing is seen.
LEMMA StillLooks ==
    ASSUME FeedInv, OneTeller', UNCHANGED <<log, raced, prev>>,
           \A o \in Rounds, vm \in Vms :
               /\ TellsOf(o, vm)' <=> TellsOf(o, vm)
               /\ TellsOf(o, vm) => round'[o].seen[vm] = round[o].seen[vm]
    PROVE  Feed!Look
  <1>1. ASSUME NEW vm \in Vms \ raced' PROVE Feed!Quiet(vm)
    <2>0. vm \notin raced /\ OneTeller
      BY DEF FeedInv
    <2>1. CASE \E o \in Rounds : TellsOf(o, vm)
      <3>1. PICK o \in Rounds : TellsOf(o, vm)
        BY <2>1
      <3>2. Known(vm) = round[o].seen[vm]
        BY <2>0, <3>1, KnownTold
      <3>3. Known(vm)' = round'[o].seen[vm]
        BY <3>1, KnownTold
      <3> QED BY <3>1, <3>2, <3>3 DEF Feed!Quiet
    <2>2. CASE \A o \in Rounds : ~ TellsOf(o, vm)
      <3>1. Known(vm) = prev[vm]
        BY <2>2, KnownUntold
      <3>2. Known(vm)' = prev'[vm]
        BY <2>2, KnownUntold
      <3> QED BY <3>1, <3>2 DEF Feed!Quiet
    <2> QED BY <2>1, <2>2
  <1> QED BY <1>1 DEF Feed!Look

\* What a step must show.
Fed == FeedInv' /\ Feed!Next

LEMMA FeedBegins == StatusInit => FeedInv /\ Feed!Init
  <1> SUFFICES ASSUME StatusInit PROVE FeedInv /\ Feed!Init
    OBVIOUS
  <1> USE OrderFacts, RestingTypes
  <1>1. TickTypes
    BY StatusAssumption DEF StatusInit, TickTypes
  <1>2. PollTypes /\ LogTypes
    <2>1. status \in [Vms -> Statuses \cup {Gone}]
      BY DEF StatusInit
    <2>2. round \in [Rounds -> Rounding]
      BY DEF StatusInit
    <2>3. LogTypes
      BY StatusAssumption DEF StatusInit, LogTypes
    <2> QED BY <2>1, <2>2, <2>3 DEF StatusInit, PollTypes
  <1>3. \A k \in Rounds : round[k].at = "idle"
    BY DEF StatusInit
  <1>4. Heard /\ Tellers /\ OneTeller
    BY <1>3 DEF Heard, Tellers, OneTeller, TellsOf, Telling
  <1>5. \A vm \in Vms : Known(vm) = Unseen
    <2> SUFFICES ASSUME NEW vm \in Vms PROVE Known(vm) = Unseen
      OBVIOUS
    <2>1. Known(vm) = prev[vm]
      BY <1>3, KnownUntold DEF TellsOf, Telling
    <2> QED BY <2>1 DEF StatusInit, Unknown
  <1>6. Feed!Init
    BY <1>5 DEF StatusInit, Feed!Init
  <1> QED BY <1>1, <1>2, <1>4, <1>6 DEF FeedInv

\* The clients come and go, or a workload changes.
LEMMA OutsideIsFed ==
    ASSUME FeedInv, \/ Connect \/ Disconnect
                    \/ \E vm \in Vms, s \in Statuses \cup {Gone} : Change(vm, s)
    PROVE  Fed
  <1>1. UNCHANGED <<round, prev, log, raced>>
    BY DEF Connect, Disconnect, Change
  <1>2. PollTypes'
    BY RestingTypes DEF FeedInv, PollTypes, Connect, Disconnect, Change
  <1>3. LogTypes' /\ Heard' /\ Tellers' /\ OneTeller'
    BY <1>1 DEF FeedInv, LogTypes, Heard, Tellers, OneTeller, TellsOf, Telling, Subject
  <1>4. TickTypes'
    BY StatusAssumption DEF FeedInv, TickTypes, Connect, Disconnect, Change, bounds
  <1>5. Feed!Look
    BY <1>1, <1>3, StillLooks DEF TellsOf, Telling, Subject
  <1> QED BY <1>2, <1>3, <1>4, <1>5 DEF FeedInv, Fed, Feed!Next

\* A round moves on without touching a record.
LEMMA RoundIsFed ==
    ASSUME FeedInv, NEW k \in Rounds, Tick(k) \/ Answer(k) \/ Unanswered(k) \/ Stored(k)
    PROVE  Fed
  <1> USE OrderFacts, RestingTypes
  <1>1. UNCHANGED <<status, watching, view, prev, log, raced>>
    BY DEF Tick, Answer, Unanswered, Stored
  <1>2. PICK r \in Rounding :
          /\ round' = [round EXCEPT ![k] = r]
          /\ \/ r.at \in {"idle", "list"} /\ ~ Telling(k)
             \/ r.at = "send" /\ r.seen = status /\ ~ Telling(k)
             \/ /\ r.at = "dispatch" /\ Telling(k)
                /\ r.seen = round[k].seen /\ r.pos = round[k].pos
    <2>1. CASE Tick(k)
      <3> DEFINE r == [Resting EXCEPT !.at = "list"]
      <3>1. r \in Rounding /\ r.at = "list"
        BY DEF Rounding, Resting
      <3>2. round' = [round EXCEPT ![k] = r] /\ ~ Telling(k)
        BY <2>1 DEF Tick, UnderWay, Telling
      <3> HIDE DEF r
      <3> QED BY <3>1, <3>2
    <2>2. CASE Answer(k)
      <3> DEFINE r == [round[k] EXCEPT !.at = "send", !.seen = status]
      <3>1. r \in Rounding /\ r.at = "send" /\ r.seen = status
        BY DEF FeedInv, PollTypes, Rounding, Listing
      <3>2. round' = [round EXCEPT ![k] = r] /\ ~ Telling(k)
        BY <2>2 DEF Answer, Telling
      <3> HIDE DEF r
      <3> QED BY <3>1, <3>2
    <2>3. CASE Unanswered(k)
      BY <2>3 DEF Unanswered, Telling
    <2>4. CASE Stored(k)
      <3> DEFINE r == [round[k] EXCEPT !.at = "dispatch"]
      <3>1. r \in Rounding /\ r.at = "dispatch" /\ r.seen = round[k].seen /\ r.pos = round[k].pos
        BY DEF FeedInv, PollTypes, Rounding
      <3>2. round' = [round EXCEPT ![k] = r] /\ Telling(k)
        BY <2>4 DEF Stored, Telling
      <3> HIDE DEF r
      <3> QED BY <3>1, <3>2
    <2> QED BY <2>1, <2>2, <2>3, <2>4
  <1>3. /\ round' \in [Rounds -> Rounding] /\ round'[k] = r
        /\ \A o \in Rounds \ {k} : round'[o] = round[o]
    BY <1>2 DEF FeedInv, PollTypes
  <1>4. PollTypes'
    BY <1>1, <1>3 DEF FeedInv, PollTypes
  <1>5. TickTypes'
    BY StatusAssumption DEF FeedInv, TickTypes, Tick, Answer, Unanswered, Stored, bounds
  <1>6. LogTypes'
    BY <1>1 DEF FeedInv, LogTypes
  <1>7. ASSUME NEW o \in Rounds, NEW vm \in Vms
        PROVE  /\ TellsOf(o, vm)' <=> TellsOf(o, vm)
               /\ TellsOf(o, vm) => round'[o].seen[vm] = round[o].seen[vm]
    BY <1>2, <1>3 DEF TellsOf, Telling, Subject
  <1>8. OneTeller'
    BY <1>1, <1>7 DEF FeedInv, OneTeller
  <1>9. Heard'
    BY <1>2, <1>3 DEF FeedInv, PollTypes, Heard, Telling
  <1>10. Tellers'
    BY <1>2, <1>3 DEF FeedInv, Tellers, Telling, Subject
  <1>11. Feed!Look
    BY <1>1, <1>7, <1>8, StillLooks
  <1> QED BY <1>4, <1>5, <1>6, <1>8, <1>9, <1>10, <1>11 DEF FeedInv, Fed, Feed!Next

\* A round scans on.
LEMMA ScanIsFed ==
    ASSUME FeedInv, NEW k \in Rounds, Send(k) \/ Dispatched(k)
    PROVE  Fed
  <1> USE OrderFacts
  <1>1. PICK seen \in Answers, p \in Records, i \in Places : Scan(k, seen, p, i) /\ HasTold(k, p)
    <2>0. round[k] \in Rounding /\ prev \in Records
      BY DEF FeedInv, PollTypes, Records
    <2>1. CASE Send(k)
      <3>1. round[k].seen \in Answers
        BY <2>1 DEF FeedInv, Heard, Answers, Send
      <3>2. HasTold(k, prev)
        BY <2>1 DEF HasTold, TellsOf, Telling, Send
      <3>3. 1 \in Places
        BY DEF Places
      <3> QED BY <2>0, <2>1, <3>1, <3>2, <3>3 DEF Send
    <2>2. CASE Dispatched(k)
      <3>1. round[k].seen \in Answers
        BY <2>2 DEF FeedInv, Heard, Answers, Dispatched
      <3>2. Telling(k) /\ round[k].pos \in 1..Len(Order) /\ round[k].seen[Subject(k)] \in Statuses
        BY <2>2 DEF FeedInv, Tellers, Telling, Dispatched, Told
      <3>3. Settled(k) \in Records
        BY <2>0, <3>2 DEF Settled, Records
      <3>4. HasTold(k, Settled(k))
        BY <2>0, <3>2 DEF HasTold, TellsOf, Settled, Records, Subject
      <3>5. round[k].pos + 1 \in Places
        BY <3>2 DEF Places
      <3> QED BY <2>2, <3>1, <3>3, <3>4, <3>5 DEF Dispatched
    <2> QED BY <2>1, <2>2
  <1>2. PICK j : Stops(k, seen, p, i, j)
    BY <1>1, ScanStops
  <1>3. /\ round' \in [Rounds -> Rounding] /\ prev' \in Records /\ raced' \subseteq Vms
        /\ LogTypes' /\ Heard' /\ Tellers' /\ OneTeller'
    BY <1>2, ScanKeeps
  <1>4. Feed!Look
    BY <1>1, <1>2, <1>3, ScanLooks
  <1>5. status' = status /\ watching' = watching /\ view' \in Listing /\ TickTypes'
    BY DEF FeedInv, PollTypes, TickTypes, Send, Dispatched, bounds, Rounding
  <1>6. PollTypes'
    BY <1>3, <1>5 DEF FeedInv, PollTypes, Records
  <1> QED BY <1>3, <1>4, <1>5, <1>6 DEF FeedInv, Fed, Feed!Next

LEMMA EmitIsFed ==
    ASSUME FeedInv, Emit
    PROVE  Fed
  <1>1. Event(Unseen, Unseen, Unseen) \in Entry
    BY DEF Event, Entry
  <1>2. LogTypes' /\ Feed!Added(Event(Unseen, Unseen, Unseen))
    BY <1>1, AddKeeps DEF FeedInv, Emit
  <1>3. UNCHANGED <<status, watching, view, round, prev, raced>>
    BY DEF Emit
  <1>4. PollTypes' /\ Heard' /\ Tellers' /\ OneTeller'
    BY <1>3 DEF FeedInv, PollTypes, Heard, Tellers, OneTeller, TellsOf, Telling, Subject
  <1>5. TickTypes'
    BY StatusAssumption DEF FeedInv, TickTypes, Emit
  <1>6. \A vm \in Vms : Known(vm)' = Known(vm)
    BY <1>3 DEF Known, Telling, Subject
  <1>7. Feed!Tell
    BY <1>2, <1>3, <1>6 DEF Feed!Tell, Feed!Other, Feed!Event, Event
  <1> QED BY <1>2, <1>4, <1>5, <1>7 DEF FeedInv, Fed, Feed!Next

LEMMA RestartIsFed ==
    ASSUME FeedInv, StatusRestart
    PROVE  Fed
  <1> USE OrderFacts, RestingTypes
  <1>1. \A k \in Rounds : round'[k] = Resting /\ round'[k].at = "idle"
    BY DEF StatusRestart
  <1>2. PollTypes'
    BY DEF FeedInv, PollTypes, StatusRestart
  <1>3. LogTypes'
    <2>1. <<>> \in Seq(Entry) /\ Len(<<>>) = 0 /\ 0 <= MaxKept
      BY StatusAssumption
    <2> QED BY <2>1 DEF FeedInv, LogTypes, StatusRestart
  <1>4. TickTypes'
    BY StatusAssumption DEF FeedInv, TickTypes, StatusRestart
  <1>5. Heard' /\ Tellers' /\ OneTeller'
    BY <1>1 DEF Heard, Tellers, OneTeller, TellsOf, Telling
  <1>6. \A vm \in Vms : Known(vm)' = Unseen
    <2> SUFFICES ASSUME NEW vm \in Vms PROVE Known(vm)' = Unseen
      OBVIOUS
    <2>1. Known(vm)' = prev'[vm]
      BY <1>1, KnownUntold DEF TellsOf, Telling
    <2> QED BY <2>1 DEF StatusRestart, Unknown
  <1>7. Feed!Forget
    BY <1>6 DEF StatusRestart, Feed!Forget
  <1> QED BY <1>2, <1>3, <1>4, <1>5, <1>7 DEF FeedInv, Fed, Feed!Next

LEMMA StepIsFed == FeedInv /\ [StatusNext]_statusVars => FeedInv' /\ [Feed!Next]_(Feed!vars)
  <1> SUFFICES ASSUME FeedInv, [StatusNext]_statusVars PROVE FeedInv' /\ [Feed!Next]_(Feed!vars)
    OBVIOUS
  <1>1. CASE Connect \/ Disconnect \/ \E vm \in Vms, s \in Statuses \cup {Gone} : Change(vm, s)
    BY <1>1, OutsideIsFed DEF Fed
  <1>2. ASSUME NEW k \in Rounds, GoesOn(k) \/ Unanswered(k) PROVE Fed
    BY <1>2, RoundIsFed, ScanIsFed DEF GoesOn
  <1>3. CASE Emit
    BY <1>3, EmitIsFed DEF Fed
  <1>4. CASE StatusRestart
    BY <1>4, RestartIsFed DEF Fed
  <1>5. CASE UNCHANGED statusVars
    <2>1. FeedInv'
      BY <1>5 DEF statusVars, bounds, FeedInv, PollTypes, LogTypes, TickTypes, Heard, Tellers,
         OneTeller, TellsOf, Telling, Subject
    <2>2. \A vm \in Vms : Known(vm)' = Known(vm)
      BY <1>5 DEF statusVars, Known, Telling, Subject
    <2>3. UNCHANGED Feed!vars
      BY <1>5, <2>2 DEF statusVars, Feed!vars
    <2> QED BY <2>1, <2>3
  <1> QED BY <1>1, <1>2, <1>3, <1>4, <1>5 DEF StatusNext, Fed

\* Every variable of the status poll has its type.
THEOREM StatusTypes == StatusSpec => []StatusTypeOK
  <1>1. StatusInit => FeedInv
    BY FeedBegins
  <1>2. FeedInv /\ [StatusNext]_statusVars => FeedInv'
    BY StepIsFed
  <1>3. FeedInv => StatusTypeOK
    BY FeedTypes
  <1> QED BY <1>1, <1>2, <1>3, PTL DEF StatusSpec

\* detectChanges() implements the feed: however rounds, writes, slow channels,
\* other events and restarts are interleaved, each recorded change of a
\* workload is told exactly once, with the statuses before and after, as long
\* as no two rounds were at work on that workload at once.
THEOREM StatusIsFed == StatusSpec => FeedImplemented
  <1>1. StatusInit => FeedInv /\ Feed!Init
    BY FeedBegins
  <1>2. FeedInv /\ [StatusNext]_statusVars => FeedInv' /\ [Feed!Next]_(Feed!vars)
    BY StepIsFed
  <1> QED BY <1>1, <1>2, PTL DEF StatusSpec, FeedImplemented, Feed!Spec

=============================================================================
