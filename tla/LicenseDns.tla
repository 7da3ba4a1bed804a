----------------------------- MODULE LicenseDns -----------------------------
(***************************************************************************)
(* The licence of a running backend and the DNS zone that follows it:      *)
(* pollLicense and the DNS controls of backend/src/index.ts, the applier   *)
(* of services/license-watcher.ts, the writer and the retirement of        *)
(* services/dns-writer.ts.                                                 *)
(*                                                                         *)
(* A task is suspended at an await; its next action is the code up to the  *)
(* following one.  writeFile() truncates the file when it opens it and     *)
(* fills it later, so a write takes two steps, either can fail, and two    *)
(* writes that overlap can leave the tail of the longer one behind.        *)
(***************************************************************************)
EXTENDS Naturals, FiniteSets

CONSTANTS
    Licenses,   \* what a readable key file can resolve to
    Contents,   \* zones the workload registry can give
    Polls,      \* polls that can be under way at once
    Ticks,      \* zone syncs that can be under way at once
    MaxChanges, \* bound: changes of the key file and of the registry
    MaxFaults   \* bound: restarts, and failed reads, writes and reloads

ASSUME LicensesAssumption ==
    Licenses \subseteq [tier : {"free", "solo"}, expiry : Nat, nodes : Nat]

\* FREE_SNAPSHOT; config.ts gives an unlicensed host one node.
Unlicensed == [tier |-> "free", expiry |-> 0, nodes |-> 1]

\* A key file that is present but cannot be used.
Unreadable == [tier |-> "unreadable", expiry |-> 0, nodes |-> 0]

NoZone == "none"
Banner == "banner"
ASSUME ContentsAssumption == Contents \cap {"none", "banner", "empty", "part", "absent"} = {}

VARIABLES
    key,       \* what reading the key file gives: a licence or Unreadable
    config,    \* the licence fields of the live config object
    registry,  \* the zone the workload registry gives now
    writer,    \* dnsWriter: 0, or the number of the current instance
    made,      \* writers constructed so far
    last,      \* lastZone of the current writer
    task,      \* where each poll, and the withdrawal at start-up, is suspended
    next,      \* the licence each poll is applying
    tick,      \* where each zone sync is suspended
    zone,      \* the zone each sync is writing, and for which writer
    file,      \* the hosts file: what it begins with and what is left behind it
    resolver,  \* the hosts file as dnsmasq last read it
    overlapped, \* history: a sync and a withdrawal had the file at once
    crossed,    \* history: a poll moved the tier under another's notification
    signalLost, \* history: no reload followed the last write, or it failed
    unwithdrawn, \* history: the last withdrawal could not read or write the file
    astray,     \* history: syncs had the file at once, or one failed to fill it
    changes, faults

poll     == <<task, next>>
sync     == <<tick, zone>>
licence  == <<key, config>>
dns      == <<writer, made, last>>
outside  == <<registry, changes, faults>>
lost     == <<signalLost, unwithdrawn>>
history  == <<overlapped, crossed, lost, astray>>
vars     == <<licence, dns, poll, sync, file, resolver, history, outside>>

Tasks   == Polls \cup {"boot"}
Heads   == Contents \cup {Banner, "empty", "part", "absent"}
Files   == [head : Heads, rest : Contents \cup {NoZone}]
Whole(h) == [head |-> h, rest |-> NoZone]

Publishable(l) == l.tier = "solo"

\* The file answers for at least one workload.
Serves(f) == f.head \in Contents \/ f.rest \in Contents

Writing(k)     == tick[k] \in {"truncate", "fill"}
Busy(k)        == tick[k] \in {"truncate", "fill", "written"}
Withdrawing(t) == task[t] \in {"read", "truncate", "fill"}
Overlap        == (\E k \in Ticks : Writing(k)) /\ (\E t \in Tasks : Withdrawing(t))
Alone(k)       == /\ \A j \in Ticks \ {k} : ~Busy(j)
                  /\ \A t \in Tasks : ~Withdrawing(t)

\* A file has been written whose reload is still to come.
Unsignalled == \/ \E t \in Tasks : task[t] \in {"fill", "reload"}
               \/ \E k \in Ticks : tick[k] \in {"fill", "written", "reload"}

\* A sync that is not writing.
NoWork == [content |-> NoZone, for |-> 0]

Fails == faults < MaxFaults /\ faults' = faults + 1

----------------------------------------------------------------------------
(* writeFile() and the reload, for a sync or a withdrawal.                  *)

\* The open truncates the file.
Truncated == file' = Whole("empty")

\* The content goes in at the start; where another write already filled the
\* file, what is longer of it stays behind.
Filled(content) ==
    \E rest \in {NoZone} \cup ({file.head, file.rest} \cap Contents) :
        /\ file.head \in {"empty", "absent"} => rest = file.rest
        /\ file' = [head |-> content, rest |-> rest]

\* The write is rejected: some of the content, or none or all of it, is in.
Torn(content) ==
    \/ file' = file
    \/ Filled(content)
    \/ \E rest \in {NoZone} \cup ({content, file.head, file.rest} \cap Contents) :
            file' = [head |-> "part", rest |-> rest]

\* dnsmasq reads the file again, or the signal fails and nobody retries it.
Reloaded ==
    \/ /\ resolver' = file
       /\ signalLost' = FALSE
       /\ UNCHANGED faults
    \/ /\ Fails
       /\ signalLost' = TRUE
       /\ UNCHANGED resolver

----------------------------------------------------------------------------
(* The licence poll.                                                        *)

\* snapshotChanged(): the node count is not part of a snapshot.
Changed(a, b) == a.tier # b.tier \/ a.expiry # b.expiry

\* startDnsPublishing(): idempotent, and a new writer knows no zone.
Start(t) ==
    /\ task' = [task EXCEPT ![t] = "idle"]
    /\ IF writer # 0 THEN UNCHANGED dns
                     ELSE writer' = made + 1 /\ made' = made + 1 /\ last' = NoZone
    /\ UNCHANGED unwithdrawn

\* stopDnsPublishing() up to the read of the hosts file.
Stop(t) ==
    /\ writer' = 0
    /\ last' = NoZone
    /\ task' = [task EXCEPT ![t] = "read"]
    /\ unwithdrawn' = FALSE
    /\ UNCHANGED made

\* Fault for the runs' mutants: a lapse leaves publishing alone.
Mut_StartOnly(t, l) ==
    IF Publishable(l) THEN Start(t)
    ELSE task' = [task EXCEPT ![t] = "idle"] /\ UNCHANGED <<dns, unwithdrawn>>

\* Fault for the runs' mutants: publishing is restarted on every change.
Mut_RestartOnChange(t, l) ==
    IF Publishable(l)
    THEN /\ task' = [task EXCEPT ![t] = "idle"]
         /\ writer' = made + 1 /\ made' = made + 1 /\ last' = NoZone
         /\ UNCHANGED unwithdrawn
         ELSE Stop(t)

\* The end of applyLicense(): DNS follows the tier that was applied.
Follow(t, l) == IF Publishable(l) THEN Start(t) ELSE Stop(t)

\* pollLicense() and applyLicense() up to the notification: an unusable file
\* changes nothing; a change is applied to the config at once and announced
\* only when the tier moved.
Poll(t) ==
    /\ task[t] = "idle"
    /\ key # Unreadable
    /\ Changed(config, key)
    /\ config' = [config EXCEPT !.tier = key.tier, !.expiry = key.expiry]
    /\ IF config.tier # key.tier
       THEN /\ task' = [task EXCEPT ![t] = "notify"]
            /\ next' = [next EXCEPT ![t] = key]
            /\ UNCHANGED <<dns, unwithdrawn>>
       ELSE Follow(t, key) /\ UNCHANGED next
    /\ UNCHANGED <<key, sync, file, resolver, signalLost, outside>>

\* The notification has been dispatched.
Notified(t) ==
    /\ task[t] = "notify"
    /\ Follow(t, next[t])
    /\ next' = [next EXCEPT ![t] = Unlicensed]
    /\ UNCHANGED <<licence, sync, file, resolver, signalLost, outside>>

----------------------------------------------------------------------------
(* retireZone()                                                             *)

\* Nothing to do for an absent file or one that begins with the banner; a file
\* that cannot be read is taken for an absent one.
RetireRead(t) ==
    /\ task[t] = "read"
    /\ \/ /\ task' = [task EXCEPT ![t] = IF file.head \in {"absent", Banner}
                                         THEN "idle" ELSE "truncate"]
          /\ UNCHANGED <<unwithdrawn, faults>>
       \/ /\ Fails
          /\ task' = [task EXCEPT ![t] = "idle"]
          /\ unwithdrawn' = TRUE
    /\ UNCHANGED <<licence, dns, next, sync, file, resolver, signalLost, registry, changes>>

RetireTruncate(t) ==
    /\ task[t] = "truncate"
    /\ \/ /\ task' = [task EXCEPT ![t] = "fill"]
          /\ Truncated
          /\ UNCHANGED <<unwithdrawn, faults>>
       \/ /\ Fails
          /\ task' = [task EXCEPT ![t] = "idle"]
          /\ unwithdrawn' = TRUE
          /\ UNCHANGED file
    /\ UNCHANGED <<licence, dns, next, sync, resolver, signalLost, registry, changes>>

\* Fault for the runs' mutants: the emptied file is not signalled.
Mut_NoRetireReload(t) ==
    /\ task[t] = "fill"
    /\ task' = [task EXCEPT ![t] = "idle"]
    /\ Filled(Banner)
    /\ unwithdrawn' = FALSE
    /\ UNCHANGED <<licence, dns, next, sync, resolver, signalLost, outside>>

\* stopDnsPublishing() logs a failed write and leaves it at that.
RetireFill(t) ==
    /\ task[t] = "fill"
    /\ \/ /\ task' = [task EXCEPT ![t] = "reload"]
          /\ Filled(Banner)
          /\ unwithdrawn' = FALSE
          /\ UNCHANGED <<signalLost, faults>>
       \/ /\ Fails
          /\ task' = [task EXCEPT ![t] = "idle"]
          /\ Torn(Banner)
          /\ unwithdrawn' = TRUE /\ signalLost' = TRUE
    /\ UNCHANGED <<licence, dns, next, sync, resolver, registry, changes>>

RetireReload(t) ==
    /\ task[t] = "reload"
    /\ task' = [task EXCEPT ![t] = "idle"]
    /\ Reloaded
    /\ UNCHANGED <<licence, dns, next, sync, file, unwithdrawn, registry, changes>>

----------------------------------------------------------------------------
(* The sync timer, which runs while there is a writer.                      *)

Tick(k) ==
    /\ writer # 0
    /\ tick[k] = "idle"
    /\ tick' = [tick EXCEPT ![k] = "definitions"]
    /\ UNCHANGED <<licence, dns, poll, zone, file, resolver, lost, outside>>

\* Fault for the runs' mutants: the writer is taken before the await.
Mut_WriterBeforeAwait(k) ==
    /\ tick[k] = "definitions"
    /\ IF last = registry
       THEN tick' = [tick EXCEPT ![k] = "idle"] /\ UNCHANGED zone
       ELSE /\ tick' = [tick EXCEPT ![k] = "truncate"]
            /\ zone' = [zone EXCEPT ![k] = [content |-> registry, for |-> made]]
    /\ UNCHANGED <<licence, dns, poll, file, resolver, lost, outside>>

\* The definitions arrived: sync() builds the zone and compares it with the
\* last one, unless publishing stopped meanwhile or there are no definitions.
Build(k) ==
    /\ tick[k] = "definitions"
    /\ \/ /\ writer = 0 \/ last = registry
          /\ tick' = [tick EXCEPT ![k] = "idle"]
          /\ UNCHANGED <<zone, faults>>
       \/ /\ writer # 0 /\ last # registry
          /\ tick' = [tick EXCEPT ![k] = "truncate"]
          /\ zone' = [zone EXCEPT ![k] = [content |-> registry, for |-> writer]]
          /\ UNCHANGED faults
       \/ /\ Fails
          /\ tick' = [tick EXCEPT ![k] = "idle"]
          /\ UNCHANGED zone
    /\ UNCHANGED <<licence, dns, poll, file, resolver, lost, registry, changes>>

\* A failed write ends the sync with lastZone as it was: the next one compares
\* with the zone before.
SyncTruncate(k) ==
    /\ tick[k] = "truncate"
    /\ \/ /\ tick' = [tick EXCEPT ![k] = "fill"]
          /\ Truncated
          /\ UNCHANGED <<zone, faults>>
       \/ /\ Fails
          /\ tick' = [tick EXCEPT ![k] = "idle"]
          /\ zone' = [zone EXCEPT ![k] = NoWork]
          /\ UNCHANGED file
    /\ UNCHANGED <<licence, dns, poll, resolver, lost, registry, changes>>

SyncFill(k) ==
    /\ tick[k] = "fill"
    /\ \/ /\ tick' = [tick EXCEPT ![k] = "written"]
          /\ Filled(zone[k].content)
          /\ UNCHANGED <<zone, signalLost, faults>>
       \/ /\ Fails
          /\ tick' = [tick EXCEPT ![k] = "idle"]
          /\ zone' = [zone EXCEPT ![k] = NoWork]
          /\ Torn(zone[k].content)
          /\ signalLost' = TRUE
    /\ UNCHANGED <<licence, dns, poll, resolver, unwithdrawn, registry, changes>>

\* The zone is recorded when its write is seen to have ended, before the reload.
SyncRecord(k) ==
    /\ tick[k] = "written"
    /\ tick' = [tick EXCEPT ![k] = "reload"]
    /\ last' = IF zone[k].for = writer THEN zone[k].content ELSE last
    /\ zone' = [zone EXCEPT ![k] = NoWork]
    /\ UNCHANGED <<licence, writer, made, poll, file, resolver, lost, outside>>

SyncReload(k) ==
    /\ tick[k] = "reload"
    /\ tick' = [tick EXCEPT ![k] = "idle"]
    /\ Reloaded
    /\ UNCHANGED <<licence, dns, poll, zone, file, unwithdrawn, registry, changes>>

----------------------------------------------------------------------------
(* The world: keys are pushed, expire and are removed; workloads change; the *)
(* process is restarted at any point.                                        *)

Change == changes < MaxChanges /\ changes' = changes + 1

KeyChanges ==
    /\ Change
    /\ key' \in (Licenses \cup {Unlicensed, Unreadable}) \ {key}
    /\ UNCHANGED <<config, dns, poll, sync, file, resolver, lost, registry, faults>>

RegistryChanges ==
    /\ Change
    /\ registry' \in Contents \ {registry}
    /\ UNCHANGED <<licence, dns, poll, sync, file, resolver, lost, faults>>

\* config.ts falls back to Free on a key it cannot use.
AtBoot(k) == IF k = Unreadable THEN Unlicensed ELSE k

\* Start-up: publish at once, or withdraw without waiting for it.
Boot ==
    /\ config' = AtBoot(key')
    /\ writer' = IF Publishable(config') THEN 1 ELSE 0
    /\ made' = writer'
    /\ last' = NoZone
    /\ task' = [t \in Tasks |-> IF t = "boot" /\ ~Publishable(config')
                                THEN "read" ELSE "idle"]
    /\ next' = [t \in Tasks |-> Unlicensed]
    /\ tick' = [k \in Ticks |-> "idle"]
    /\ zone' = [k \in Ticks |-> NoWork]
    /\ unwithdrawn' = FALSE

Restart ==
    /\ Fails
    /\ signalLost' = (signalLost \/ Unsignalled)
    /\ UNCHANGED <<key, file, resolver, registry, changes>>
    /\ Boot

----------------------------------------------------------------------------

Init ==
    /\ key \in Licenses \cup {Unlicensed}
    /\ config = key
    /\ registry \in Contents
    /\ writer = IF Publishable(config) THEN 1 ELSE 0
    /\ made = writer /\ last = NoZone
    /\ task = [t \in Tasks |-> IF t = "boot" /\ ~Publishable(config)
                               THEN "read" ELSE "idle"]
    /\ next = [t \in Tasks |-> Unlicensed]
    /\ tick = [k \in Ticks |-> "idle"]
    /\ zone = [k \in Ticks |-> NoWork]
    /\ file \in {Whole("absent"), Whole("empty")} \cup {Whole(c) : c \in Contents}
    /\ resolver = file
    /\ overlapped = FALSE /\ crossed = FALSE /\ signalLost = FALSE
    /\ unwithdrawn = FALSE /\ astray = FALSE
    /\ changes = 0 /\ faults = 0

PollStep(t) == Poll(t) \/ Notified(t)
RetireStep(t) == RetireRead(t) \/ RetireTruncate(t) \/ RetireFill(t) \/ RetireReload(t)
SyncStep(k) == \/ Tick(k) \/ Build(k) \/ SyncTruncate(k) \/ SyncFill(k)
               \/ SyncRecord(k) \/ SyncReload(k)

\* The timer does not wait for the poll before: the licence one is about to
\* follow, once its notification is dispatched, is no longer the one in force.
Crossing == \E t \in Polls : task[t] = "notify" /\ task'[t] = "notify"
                             /\ config'.tier # config.tier

\* A sync of a running writer truncates the file with nobody else at it: what
\* overlaps left there is gone.
Fresh == \E k \in Ticks : /\ tick[k] = "truncate" /\ tick'[k] = "fill"
                          /\ Alone(k) /\ writer # 0

\* Another writes beside a sync, or its own write fails.
Spoilt == \/ \E k \in Ticks : Busy(k)' /\ ~Alone(k)'
          \/ \E k \in Ticks : tick[k] = "fill" /\ tick'[k] = "idle"

\* The history variables of overlaps follow every step.
Noted == /\ overlapped' = (Overlap' \/ (overlapped /\ ~Fresh))
         /\ crossed' = (Crossing \/ (crossed /\ ~Restart))
         /\ astray' = (Spoilt \/ (astray /\ ~Fresh))

Next ==
    /\ \/ \E t \in Polls : PollStep(t)
       \/ \E t \in Tasks : RetireStep(t)
       \/ \E k \in Ticks : SyncStep(k)
       \/ KeyChanges \/ RegistryChanges \/ Restart
    /\ Noted

Spec == Init /\ [][Next]_vars

\* The timers fire and awaited I/O completes.
FairSpec ==
    /\ Spec
    /\ \A t \in Polls : WF_vars(PollStep(t) /\ Noted)
    /\ \A t \in Tasks : WF_vars(RetireStep(t) /\ Noted)
    /\ \A k \in Ticks : WF_vars(SyncStep(k) /\ Noted)

----------------------------------------------------------------------------
(* Properties                                                               *)

TypeOK ==
    /\ key \in Licenses \cup {Unlicensed, Unreadable}
    /\ config \in [tier : {"free", "solo"}, expiry : Nat, nodes : Nat]
    /\ registry \in Contents
    /\ writer \in {0, made} /\ made \in Nat
    /\ last \in Contents \cup {NoZone}
    /\ task \in [Tasks -> {"idle", "notify", "read", "truncate", "fill", "reload"}]
    /\ next \in [Tasks -> Licenses \cup {Unlicensed}]
    /\ tick \in [Ticks -> {"idle", "definitions", "truncate", "fill", "written", "reload"}]
    /\ zone \in [Ticks -> [content : Contents \cup {NoZone}, for : Nat]]
    /\ file \in Files /\ resolver \in Files
    /\ overlapped \in BOOLEAN /\ crossed \in BOOLEAN /\ signalLost \in BOOLEAN
    /\ unwithdrawn \in BOOLEAN /\ astray \in BOOLEAN

Quiet == (\A t \in Tasks : task[t] = "idle") /\ (\A k \in Ticks : tick[k] = "idle")

\* When nothing is under way on an unlicensed host, the hosts file answers for
\* no workload (retireZone: a tier-gated feature must not outlive the tier).
FreeHostWithdrawn == (Quiet /\ ~Publishable(config)) => ~Serves(file)

\* The only ways an unlicensed host can keep a zone are that its last withdrawal
\* could not read or write the hosts file, which is logged and never retried,
\* that a sync and a withdrawal had the file at the same time and no sync of a
\* running writer had it to itself since, and that polls of this process crossed.
WithdrawnUnlessOverlapped == overlapped \/ crossed \/ unwithdrawn \/ FreeHostWithdrawn

\* When nothing is under way the resolver answers from the file, unless the
\* last reload failed, or a failed write or a restart left out the reload;
\* nothing makes up for that before the next change of the zone.
ResolverCurrent == (Quiet /\ ~signalLost) => resolver = file

\* A renewal is invisible to DNS: while the tier stays licensed the writer is
\* neither replaced nor dropped (license-applier.spec.ts: "does NOT withdraw
\* when the tier is unchanged but the expiry moved"), unless polls crossed.
RenewalInvisible ==
    [][(Publishable(config) /\ Publishable(config') /\ writer # 0 /\ ~Restart /\ ~crossed)
         => writer' = writer]_vars

\* DNS follows the tier.  When keys and workloads stop changing, the hosts file
\* of a licensed host ends up answering exactly for the registry, a failed sync
\* being retried, unless a write that overlapped or failed left it otherwise and
\* the writer takes the registry for published (index.ts: "The writer no-ops
\* when the zone is unchanged").  An unlicensed host ends up answering for
\* nothing, with the exceptions of WithdrawnUnlessOverlapped.
DnsFollowsTier ==
    <>[](IF Publishable(config)
         THEN crossed \/ file = Whole(registry) \/ (astray /\ last = registry)
         ELSE overlapped \/ crossed \/ unwithdrawn \/ ~Serves(file))

=============================================================================
