--------------------------- MODULE ExpiryWarnings ---------------------------
(***************************************************************************)
(* The expiry countdown: checkExpiryWarnings and the warning state of      *)
(* backend/src/index.ts, decideWarning and sentFor of                      *)
(* backend/src/services/license-watcher.ts.                                *)
(*                                                                         *)
(* Time is counted in days.  One check runs at a time: it is part of the   *)
(* licence poll, which is an hour apart from the next.  The state file is  *)
(* written in place, so a write empties it before it fills it, and a file  *)
(* that does not parse reads as the empty state.                           *)
(*                                                                         *)
(* Names differ from those of LicenseDns, the other half of the poll, so   *)
(* that LicensePollProofs can extend both.                                 *)
(***************************************************************************)
EXTENDS Integers

CONSTANTS
    WarningDays,  \* EXPIRY_WARNING_DAYS
    Expiries,     \* the days on which keys of this host expire
    LastDay,      \* bound: the days of a behaviour
    MaxRenewals,  \* bound: polls that find another key
    MaxWarnFaults \* bound: restarts and failed writes

ASSUME WarningDaysAssumption == WarningDays \subseteq Nat
ASSUME ExpiriesAssumption == Expiries \subseteq Nat \ {0}
ASSUME BoundsAssumption == LastDay \in Nat /\ MaxRenewals \in Nat /\ MaxWarnFaults \in Nat

VARIABLES
    today,     \* the wall clock
    expiry,    \* config.licenseExpiry, 0 for null
    check,     \* where the check in progress is, and what it holds
    stored,    \* license-warnings.json as readWarningState() reads it
    announced, \* history: every <<expiry, threshold>> announced
    said,      \* history: announcements made
    lastSaid,  \* history: the last one, forgotten when its record is lost
    renewals, warnFaults

warnHistory == <<announced, said, lastSaid>>
bounds      == <<renewals, warnFaults>>
warnVars    == <<today, expiry, check, stored, warnHistory, bounds>>

\* EMPTY_WARNING_STATE
EmptyState == [expiry |-> 0, sent |-> {}]
NoCheck    == [stage |-> "idle", expiry |-> 0, day |-> 0, sent |-> {}]
Nothing    == [expiry |-> 0, days |-> 0]

Smallest(t, S) == t \in S /\ \A u \in S : t <= u

\* The thresholds that `days` remaining have reached.
Crossed(days) == {t \in WarningDays : days <= t}

\* Fault for the runs' mutants: the state is not keyed by its expiry.
Mut_AnyExpiry(e) == stored.sent

\* sentFor(): what was announced for this expiry.
SentFor(e) == IF stored.expiry = e THEN stored.sent ELSE {}

Fault == warnFaults < MaxWarnFaults /\ warnFaults' = warnFaults + 1

----------------------------------------------------------------------------

\* The poll has applied the key it read; a key without expiry needs no check.
Begin ==
    /\ check.stage = "idle"
    /\ expiry' \in Expiries \cup {0}
    /\ \/ expiry' = expiry /\ UNCHANGED renewals
       \/ expiry' # expiry /\ renewals < MaxRenewals /\ renewals' = renewals + 1
    /\ check' = IF expiry' = 0 THEN NoCheck
                ELSE [stage |-> "read", expiry |-> expiry', day |-> today, sent |-> {}]
    /\ UNCHANGED <<today, stored, warnHistory, warnFaults>>

\* Fault for the runs' mutants: only the announced threshold is marked.
Mut_MarkOne ==
    LET crossed == Crossed(check.expiry - check.day)
        unsent  == crossed \ SentFor(check.expiry)
    IN  /\ check.stage = "read"
        /\ \/ /\ unsent = {}
              /\ check' = NoCheck
              /\ UNCHANGED warnHistory
           \/ \E t \in unsent :
                 /\ Smallest(t, unsent)
                 /\ announced' = announced \cup {<<check.expiry, t>>}
                 /\ said' = said + 1
                 /\ lastSaid' = [expiry |-> check.expiry, days |-> t]
                 /\ check' = [check EXCEPT !.stage = "write",
                                  !.sent = SentFor(check.expiry) \cup {t}]
        /\ UNCHANGED <<today, expiry, stored, bounds>>

\* Fault for the runs' mutants: a threshold is marked without being announced.
Mut_MarkOnly ==
    LET crossed == Crossed(check.expiry - check.day)
    IN  /\ check.stage = "read"
        /\ check' = [check EXCEPT !.stage = "write",
                         !.sent = SentFor(check.expiry) \cup crossed]
        /\ UNCHANGED <<today, expiry, stored, warnHistory, bounds>>

\* decideWarning() on the state that was read: the tightest threshold newly
\* reached is announced, and all those reached are marked.
Decide ==
    LET crossed == Crossed(check.expiry - check.day)
        unsent  == crossed \ SentFor(check.expiry)
    IN  /\ check.stage = "read"
        /\ \/ /\ unsent = {}
              /\ check' = NoCheck
              /\ UNCHANGED warnHistory
           \/ \E t \in unsent :
                 /\ Smallest(t, unsent)
                 /\ announced' = announced \cup {<<check.expiry, t>>}
                 /\ said' = said + 1
                 /\ lastSaid' = [expiry |-> check.expiry, days |-> t]
                 /\ check' = [check EXCEPT !.stage = "write",
                                  !.sent = SentFor(check.expiry) \cup crossed]
        /\ UNCHANGED <<today, expiry, stored, bounds>>

\* The notification is out; writeWarningState() opens the file.
Truncate ==
    /\ check.stage = "write"
    /\ check' = [check EXCEPT !.stage = "fill"]
    /\ stored' = EmptyState
    /\ UNCHANGED <<today, expiry, warnHistory, bounds>>

\* Fault for the runs' mutants: the state is written without the marks.
Mut_FillNothing ==
    /\ check.stage = "fill"
    /\ check' = NoCheck
    /\ stored' = [expiry |-> check.expiry, sent |-> {}]
    /\ UNCHANGED <<today, expiry, warnHistory, bounds>>

Fill ==
    /\ check.stage = "fill"
    /\ check' = NoCheck
    /\ stored' = [expiry |-> check.expiry, sent |-> check.sent]
    /\ UNCHANGED <<today, expiry, warnHistory, bounds>>

\* The write fails at either step: it is logged and the check ends.
WriteFails ==
    /\ check.stage \in {"write", "fill"}
    /\ Fault
    /\ check' = NoCheck
    /\ lastSaid' = Nothing
    /\ UNCHANGED <<today, expiry, stored, announced, said, renewals>>

\* The process restarts; the warning state is on disk.
WarnRestart ==
    /\ Fault
    /\ check' = NoCheck
    /\ lastSaid' = IF check.stage \in {"write", "fill"} THEN Nothing ELSE lastSaid
    /\ UNCHANGED <<today, expiry, stored, announced, said, renewals>>

Day ==
    /\ today < LastDay
    /\ today' = today + 1
    /\ UNCHANGED <<expiry, check, stored, warnHistory, bounds>>

----------------------------------------------------------------------------

WarnInit ==
    /\ today = 1
    /\ expiry \in Expiries \cup {0}
    /\ check = NoCheck
    /\ stored = EmptyState
    /\ announced = {} /\ said = 0 /\ lastSaid = Nothing
    /\ renewals = 0 /\ warnFaults = 0

Check == Begin \/ Decide \/ Truncate \/ Fill

WarnNext == Check \/ WriteFails \/ WarnRestart \/ Day

WarnSpec == WarnInit /\ [][WarnNext]_warnVars

\* The poll timer fires and awaited I/O completes; days pass.
FairWarnSpec == WarnSpec /\ WF_warnVars(Check) /\ WF_warnVars(Day)

----------------------------------------------------------------------------
(* Properties                                                               *)

State == [expiry : Nat, sent : SUBSET WarningDays]

WarnTypeOK ==
    /\ today \in Nat
    /\ expiry \in Expiries \cup {0}
    /\ check \in [stage : {"idle", "read", "write", "fill"}, expiry : Nat,
                  day : Nat, sent : SUBSET WarningDays]
    /\ check.stage # "idle" => check.expiry \in Expiries
    /\ stored \in State
    /\ announced \subseteq Expiries \X WarningDays
    /\ said \in Nat
    /\ lastSaid \in [expiry : Nat, days : Nat]
    /\ renewals \in Nat /\ warnFaults \in Nat

Announces == said' = said + 1

\* The countdown tightens: each announcement for an expiry is of a smaller
\* threshold than the one before it, across restarts and days on which no
\* check ran, until another expiry is announced or the record of an
\* announcement is lost.  So nothing is announced twice.
CountdownTightens ==
    [][(Announces /\ lastSaid'.expiry = lastSaid.expiry)
         => lastSaid'.days < lastSaid.days]_warnVars

\* After downtime only the nearest deadline is announced: an announcement is
\* of the tightest threshold reached, never of one that is passed.
NearestDeadline ==
    [][Announces => Smallest(lastSaid'.days, Crossed(check.expiry - check.day))]_warnVars

\* A crash costs a duplicate, never silence: what the state file marks as
\* announced was announced, or a tighter threshold of the same expiry was.
MarkedWasAnnounced ==
    \A t \in stored.sent : \E u \in WarningDays :
        u <= t /\ <<stored.expiry, u>> \in announced

\* Each warning concerns days before expiry (EXPIRY_WARNING_DAYS).
WarnsBeforeExpiry == [][Announces => check.day <= check.expiry]_warnVars

\* The last warning comes: a key left in place until its tightest threshold is
\* reached has it announced.
LastWarningComes ==
    \A e \in Expiries, t \in WarningDays :
        (expiry = e /\ e - today <= t /\ Smallest(t, WarningDays))
            ~> (expiry # e \/ <<e, t>> \in announced)

=============================================================================
