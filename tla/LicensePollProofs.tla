-------------------------- MODULE LicensePollProofs --------------------------
(***************************************************************************)
(* What the licence poll of backend/src/index.ts does with the licence it  *)
(* read: the DNS zone that follows it (LicenseDns), and the countdown to   *)
(* its expiry (ExpiryWarnings), for every licence, registry, set of        *)
(* thresholds and number of faults.                                        *)
(***************************************************************************)
EXTENDS LicenseDns, ExpiryWarnings, TLAPS

----------------------------------------------------------------------------
(* The zone: types.                                                        *)

\* What the variables of the polls and of the syncs range over.
Stages == {"idle", "notify", "read", "truncate", "fill", "reload"}
Phases == {"idle", "definitions", "truncate", "fill", "written", "reload"}
Grants == [tier : {"free", "solo"}, expiry : Nat, nodes : Nat]
Zones  == [content : Contents \cup {NoZone}, for : Nat]

\* A zone that is being written is one of the registry's.
Built == \A k \in Ticks : Writing(k) => zone[k].content \in Contents

LicenceTypes == /\ key \in Licenses \cup {Unlicensed, Unreadable} /\ config \in Grants
                /\ registry \in Contents
                /\ next \in [Tasks -> Licenses \cup {Unlicensed}]
WriterTypes  == /\ writer \in {0, made} /\ made \in Nat /\ last \in Contents \cup {NoZone}
StageTypes   == /\ task \in [Tasks -> Stages] /\ tick \in [Ticks -> Phases]
                /\ zone \in [Ticks -> Zones]
FileTypes    == /\ file \in Files /\ resolver \in Files
                /\ overlapped \in BOOLEAN /\ crossed \in BOOLEAN /\ signalLost \in BOOLEAN
                /\ unwithdrawn \in BOOLEAN /\ astray \in BOOLEAN

LEMMA TypeParts ==
    /\ TypeOK <=> LicenceTypes /\ WriterTypes /\ StageTypes /\ FileTypes
    /\ TypeOK' <=> LicenceTypes' /\ WriterTypes' /\ StageTypes' /\ FileTypes'
  BY DEF TypeOK, LicenceTypes, WriterTypes, StageTypes, FileTypes, Stages, Phases, Grants, Zones

LEMMA GrantTypes ==
    /\ Unlicensed \in Grants /\ Unlicensed.tier = "free"
    /\ \A l \in Licenses \cup {Unlicensed} : l \in Grants
    /\ \A l \in Licenses \cup {Unlicensed, Unreadable} : l # Unreadable => l \in Grants
  BY LicensesAssumption DEF Unlicensed, Grants

LEMMA WholeTypes ==
    /\ \A h \in Heads : Whole(h) \in Files /\ Whole(h).head = h /\ Whole(h).rest = NoZone
    /\ Contents \subseteq Heads /\ {Banner, "empty", "part", "absent"} \subseteq Heads
  BY DEF Heads, Files, Whole

\* A write leaves a file, its content first, and behind it what was there.
LEMMA FilledTypes ==
    ASSUME file \in Files, NEW content \in Heads, Filled(content)
    PROVE  /\ file' \in Files /\ file'.head = content
           /\ file'.rest \in {NoZone} \cup ({file.head, file.rest} \cap Contents)
           /\ file.head \in {"empty", "absent"} => file'.rest = file.rest
  BY DEF Filled, Files

\* A rejected write leaves the file as it was, filled, or with a part of the
\* content, and adds no zone but the one it wrote.
LEMMA TornTypes ==
    ASSUME file \in Files, NEW content \in Heads, Torn(content)
    PROVE  /\ file' \in Files
           /\ file' = file \/ file'.head \in {content, "part"}
           /\ file'.rest \in {NoZone, file.rest} \cup ({content, file.head, file.rest} \cap Contents)
           /\ \/ file' = file \/ file'.head = "part"
              \/ file.head \in {"empty", "absent"} => file'.rest = file.rest
  <1>1. CASE file' = file
    BY <1>1
  <1>2. CASE Filled(content)
    BY <1>2, FilledTypes
  <1>3. CASE \E rest \in {NoZone} \cup ({content, file.head, file.rest} \cap Contents) :
                 file' = [head |-> "part", rest |-> rest]
    BY <1>3, WholeTypes DEF Files
  <1> QED BY <1>1, <1>2, <1>3 DEF Torn

\* The ways DNS follows a licence.
LEMMA FollowTypes ==
    ASSUME WriterTypes, NEW t, NEW l, Follow(t, l)
    PROVE  WriterTypes' /\ unwithdrawn' \in {unwithdrawn, FALSE}
  <1>1. CASE Start(t)
    BY <1>1 DEF Start, WriterTypes, dns
  <1>2. CASE Stop(t)
    BY <1>2 DEF Stop, WriterTypes
  <1> QED BY <1>1, <1>2 DEF Follow

LEMMA FollowStages ==
    ASSUME task \in [Tasks -> Stages], NEW t \in Tasks, NEW l, Follow(t, l)
    PROVE  /\ task' = [task EXCEPT ![t] = IF Publishable(l) THEN "idle" ELSE "read"]
           /\ task' \in [Tasks -> Stages]
  BY DEF Follow, Start, Stop, Stages

LEMMA InitTypes == Init => TypeOK /\ Built
  <1> SUFFICES ASSUME Init PROVE TypeOK /\ Built
    OBVIOUS
  <1>1. LicenceTypes
    BY GrantTypes DEF Init, LicenceTypes
  <1>2. WriterTypes
    BY DEF Init, WriterTypes
  <1>3. StageTypes
    BY DEF Init, StageTypes, Stages, Phases, Zones, NoWork
  <1>4. FileTypes
    BY WholeTypes DEF Init, FileTypes
  <1>5. Built
    BY DEF Init, Built, Writing
  <1> QED BY <1>1, <1>2, <1>3, <1>4, <1>5, TypeParts

LEMMA NotedTypes ==
    ASSUME FileTypes, Noted
    PROVE  overlapped' \in BOOLEAN /\ crossed' \in BOOLEAN /\ astray' \in BOOLEAN
  <1>1. Overlap' \in BOOLEAN /\ Fresh \in BOOLEAN /\ Spoilt \in BOOLEAN
    BY DEF Overlap, Fresh, Spoilt
  <1>2. Crossing \in BOOLEAN
    BY DEF Crossing
  <1> QED BY <1>1, <1>2 DEF Noted, FileTypes

LEMMA PollTypes ==
    ASSUME TypeOK, Built, NEW t \in Polls, PollStep(t), Noted
    PROVE  TypeOK' /\ Built'
  <1>0. LicenceTypes /\ WriterTypes /\ StageTypes /\ FileTypes /\ t \in Tasks
    BY TypeParts DEF Tasks
  <1>1. LicenceTypes'
    <2>1. CASE Poll(t)
      <3>1. key \in Grants /\ key \in Licenses \cup {Unlicensed}
        BY <1>0, <2>1, GrantTypes DEF Poll, LicenceTypes
      <3>2. config' \in Grants
        BY <1>0, <2>1, <3>1 DEF Poll, LicenceTypes, Grants
      <3> QED BY <1>0, <2>1, <3>1, <3>2 DEF Poll, LicenceTypes, outside
    <2>2. CASE Notified(t)
      BY <1>0, <2>2 DEF Notified, LicenceTypes, licence, outside
    <2> QED BY <2>1, <2>2 DEF PollStep
  <1>2. WriterTypes' /\ task' \in [Tasks -> Stages] /\ unwithdrawn' \in BOOLEAN
    <2>1. CASE Poll(t) /\ config.tier # key.tier
      BY <1>0, <2>1 DEF Poll, WriterTypes, StageTypes, FileTypes, Stages, dns
    <2>2. CASE Follow(t, key) \/ Follow(t, next[t])
      BY <1>0, <2>2, FollowTypes, FollowStages DEF StageTypes, FileTypes
    <2> QED BY <2>1, <2>2 DEF PollStep, Poll, Notified
  <1>3. StageTypes' /\ FileTypes' /\ Built'
    <2>1. /\ UNCHANGED <<sync, file, resolver, signalLost>>
          /\ overlapped' \in BOOLEAN /\ crossed' \in BOOLEAN /\ astray' \in BOOLEAN
      BY <1>0, NotedTypes DEF PollStep, Poll, Notified
    <2> QED BY <1>0, <1>2, <2>1 DEF StageTypes, FileTypes, sync, Built, Writing
  <1> QED BY <1>1, <1>2, <1>3, TypeParts

LEMMA ReloadedTypes ==
    ASSUME FileTypes, Reloaded
    PROVE  resolver' \in Files /\ signalLost' \in BOOLEAN
  BY DEF FileTypes, Reloaded

LEMMA RetireTypes ==
    ASSUME TypeOK, Built, NEW t \in Tasks, RetireStep(t), Noted
    PROVE  TypeOK' /\ Built'
  <1>0. LicenceTypes /\ WriterTypes /\ StageTypes /\ FileTypes
    BY TypeParts
  <1>1. /\ UNCHANGED <<licence, dns, next, sync, registry>>
        /\ task' \in [Tasks -> Stages]
    BY <1>0
    DEF RetireStep, RetireRead, RetireTruncate, RetireFill, RetireReload, StageTypes, Stages,
        outside
  <1>2. LicenceTypes' /\ WriterTypes' /\ StageTypes' /\ Built'
    BY <1>0, <1>1
    DEF LicenceTypes, WriterTypes, StageTypes, Built, Writing, licence, dns, sync
  <1>3. file' \in Files
    <2>1. CASE RetireTruncate(t)
      BY <1>0, <2>1, WholeTypes DEF RetireTruncate, Truncated, FileTypes
    <2>2. CASE RetireFill(t)
      BY <1>0, <2>2, WholeTypes, FilledTypes, TornTypes DEF RetireFill, FileTypes
    <2>3. CASE RetireRead(t) \/ RetireReload(t)
      BY <1>0, <2>3 DEF RetireRead, RetireReload, FileTypes
    <2> QED BY <2>1, <2>2, <2>3 DEF RetireStep
  <1>4. resolver' \in Files /\ signalLost' \in BOOLEAN /\ unwithdrawn' \in BOOLEAN
    BY <1>0, ReloadedTypes
    DEF RetireStep, RetireRead, RetireTruncate, RetireFill, RetireReload, FileTypes
  <1> QED BY <1>0, <1>2, <1>3, <1>4, NotedTypes, TypeParts DEF FileTypes

LEMMA SyncTypes ==
    ASSUME TypeOK, Built, NEW k \in Ticks, SyncStep(k), Noted
    PROVE  TypeOK' /\ Built'
  <1>0. LicenceTypes /\ WriterTypes /\ StageTypes /\ FileTypes
    BY TypeParts
  <1>1. LicenceTypes' /\ UNCHANGED task
    BY <1>0
    DEF SyncStep, Tick, Build, SyncTruncate, SyncFill, SyncRecord, SyncReload, LicenceTypes,
        licence, poll, outside
  <1>2. tick' \in [Ticks -> Phases]
    BY <1>0
    DEF SyncStep, Tick, Build, SyncTruncate, SyncFill, SyncRecord, SyncReload, StageTypes, Phases
  <1>3. zone' \in [Ticks -> Zones] /\ Built'
    <2>1. CASE Build(k)
      <3>1. writer \in Nat /\ registry \in Contents
        BY <1>0 DEF WriterTypes, LicenceTypes
      <3>2. CASE UNCHANGED zone /\ tick' = [tick EXCEPT ![k] = "idle"]
        BY <1>0, <3>2 DEF StageTypes, Built, Writing
      <3>3. CASE zone' = [zone EXCEPT ![k] = [content |-> registry, for |-> writer]]
                 /\ tick' = [tick EXCEPT ![k] = "truncate"]
        BY <1>0, <3>1, <3>3 DEF StageTypes, Built, Writing, Zones
      <3> QED BY <2>1, <3>2, <3>3 DEF Build
    <2>2. \A j \in Ticks \ {k} : tick'[j] = tick[j]
      BY <1>0
      DEF SyncStep, Tick, Build, SyncTruncate, SyncFill, SyncRecord, SyncReload, StageTypes
    <2>3. CASE UNCHANGED zone /\ (tick'[k] \in {"truncate", "fill"} => tick[k] = "truncate")
      BY <1>0, <2>2, <2>3 DEF StageTypes, Built, Writing
    <2>4. CASE zone' = [zone EXCEPT ![k] = NoWork] /\ tick'[k] \notin {"truncate", "fill"}
      <3>1. NoWork \in Zones
        BY DEF NoWork, Zones
      <3> QED BY <1>0, <2>2, <2>4, <3>1 DEF StageTypes, Built, Writing
    <2>5. CASE SyncTruncate(k) \/ SyncFill(k) \/ SyncRecord(k)
      BY <1>0, <2>3, <2>4, <2>5 DEF SyncTruncate, SyncFill, SyncRecord, StageTypes
    <2>6. CASE Tick(k) \/ SyncReload(k)
      BY <1>0, <2>3, <2>6 DEF Tick, SyncReload, StageTypes
    <2> QED BY <2>1, <2>5, <2>6 DEF SyncStep
  <1>4. WriterTypes'
    <2>1. CASE SyncRecord(k)
      BY <1>0, <2>1 DEF SyncRecord, WriterTypes, StageTypes, Zones
    <2>2. CASE Tick(k) \/ Build(k) \/ SyncTruncate(k) \/ SyncFill(k) \/ SyncReload(k)
      BY <1>0, <2>2 DEF Tick, Build, SyncTruncate, SyncFill, SyncReload, WriterTypes, dns
    <2> QED BY <2>1, <2>2 DEF SyncStep
  <1>5. file' \in Files
    <2>1. CASE SyncTruncate(k)
      BY <1>0, <2>1, WholeTypes DEF SyncTruncate, Truncated, FileTypes
    <2>2. CASE SyncFill(k)
      <3>1. zone[k].content \in Heads
        BY <2>2, WholeTypes DEF SyncFill, Built, Writing
      <3> QED BY <1>0, <2>2, <3>1, FilledTypes, TornTypes DEF SyncFill, FileTypes
    <2>3. CASE Tick(k) \/ Build(k) \/ SyncRecord(k) \/ SyncReload(k)
      BY <1>0, <2>3 DEF Tick, Build, SyncRecord, SyncReload, FileTypes
    <2> QED BY <2>1, <2>2, <2>3 DEF SyncStep
  <1>6. resolver' \in Files /\ signalLost' \in BOOLEAN /\ unwithdrawn' \in BOOLEAN
    BY <1>0, ReloadedTypes
    DEF SyncStep, Tick, Build, SyncTruncate, SyncFill, SyncRecord, SyncReload, FileTypes, lost
  <1> QED BY <1>0, <1>1, <1>2, <1>3, <1>4, <1>5, <1>6, NotedTypes, TypeParts
          DEF FileTypes, StageTypes

LEMMA WorldTypes ==
    ASSUME TypeOK, Built, KeyChanges \/ RegistryChanges \/ Restart, Noted
    PROVE  TypeOK' /\ Built'
  <1>0. LicenceTypes /\ WriterTypes /\ StageTypes /\ FileTypes
    BY TypeParts
  <1>1. overlapped' \in BOOLEAN /\ crossed' \in BOOLEAN /\ astray' \in BOOLEAN
    BY <1>0, NotedTypes
  <1>2. CASE KeyChanges \/ RegistryChanges
    <2>1. LicenceTypes'
      BY <1>0, <1>2 DEF KeyChanges, RegistryChanges, LicenceTypes, licence, poll
    <2>2. UNCHANGED <<dns, task, sync, file, resolver, lost>>
      BY <1>2 DEF KeyChanges, RegistryChanges, poll
    <2> QED BY <1>0, <1>1, <2>1, <2>2, TypeParts
        DEF WriterTypes, StageTypes, FileTypes, Built, Writing, dns, sync, lost
  <1>3. CASE Restart
    <2>1. config' \in Grants
      BY <1>0, <1>3, GrantTypes DEF Restart, Boot, AtBoot, LicenceTypes
    <2>2. LicenceTypes'
      BY <1>0, <1>3, <2>1 DEF Restart, Boot, LicenceTypes
    <2>3. WriterTypes'
      BY <1>3 DEF Restart, Boot, WriterTypes
    <2>4. StageTypes' /\ Built'
      BY <1>3 DEF Restart, Boot, StageTypes, Stages, Phases, Zones, Built, Writing, NoWork
    <2>5. FileTypes'
      BY <1>0, <1>1, <1>3 DEF Restart, Boot, FileTypes, Unsignalled
    <2> QED BY <2>2, <2>3, <2>4, <2>5, TypeParts
  <1> QED BY <1>2, <1>3

LEMMA NextTypes == TypeOK /\ Built /\ [Next]_vars => TypeOK' /\ Built'
  <1> SUFFICES ASSUME TypeOK, Built, [Next]_vars PROVE TypeOK' /\ Built'
    OBVIOUS
  <1>1. CASE Next
    BY <1>1, PollTypes, RetireTypes, SyncTypes, WorldTypes DEF Next
  <1>2. CASE UNCHANGED vars
    BY <1>2 DEF vars, licence, dns, poll, sync, history, lost, outside, TypeOK, Built, Writing
  <1> QED BY <1>1, <1>2

\* The licence, the writer, the tasks and the hosts file keep their types, and
\* a zone that is being written is one of the registry's.
THEOREM DnsTypes == Spec => [](TypeOK /\ Built)
  BY InitTypes, NextTypes, PTL DEF Spec

----------------------------------------------------------------------------
(* The resolver.                                                           *)

\* What the resolver has is the file, or a reload is still to come.
Signalled == ~ signalLost => resolver = file \/ Unsignalled

LEMMA SignalStep == TypeOK /\ Signalled /\ [Next]_vars => Signalled'
  <1> SUFFICES ASSUME TypeOK, Signalled, [Next]_vars PROVE Signalled'
    OBVIOUS
  <1>0. task \in [Tasks -> Stages] /\ tick \in [Ticks -> Phases] /\ Polls \subseteq Tasks
    BY TypeParts DEF StageTypes, Tasks
  <1>1. ASSUME NEW t \in Polls, PollStep(t) PROVE Signalled'
    <2>1. \A u \in Tasks : u # t => task'[u] = task[u]
      BY <1>0, <1>1, FollowStages DEF PollStep, Poll, Notified
    <2>2. task[t] \in {"idle", "notify"} /\ UNCHANGED <<sync, file, resolver, signalLost>>
      BY <1>1 DEF PollStep, Poll, Notified
    <2> QED BY <1>0, <2>1, <2>2 DEF Signalled, Unsignalled, sync
  <1>2. ASSUME NEW t \in Tasks, RetireStep(t) PROVE Signalled'
    <2>1. CASE RetireRead(t)
      BY <1>0, <2>1 DEF RetireRead, Signalled, Unsignalled, sync
    <2>2. CASE RetireTruncate(t) \/ RetireFill(t)
      BY <1>0, <2>2 DEF RetireTruncate, RetireFill, Signalled, Unsignalled, sync
    <2>3. CASE RetireReload(t)
      BY <2>3 DEF RetireReload, Reloaded, Signalled
    <2> QED BY <1>2, <2>1, <2>2, <2>3 DEF RetireStep
  <1>3. ASSUME NEW k \in Ticks, SyncStep(k) PROVE Signalled'
    <2>1. CASE Tick(k) \/ Build(k) \/ SyncRecord(k)
      BY <1>0, <2>1 DEF Tick, Build, SyncRecord, Signalled, Unsignalled, poll, lost
    <2>2. CASE SyncTruncate(k) \/ SyncFill(k)
      BY <1>0, <2>2 DEF SyncTruncate, SyncFill, Signalled, Unsignalled, poll, lost
    <2>3. CASE SyncReload(k)
      BY <2>3 DEF SyncReload, Reloaded, Signalled
    <2> QED BY <1>3, <2>1, <2>2, <2>3 DEF SyncStep
  <1>4. CASE KeyChanges \/ RegistryChanges
    BY <1>4 DEF KeyChanges, RegistryChanges, Signalled, Unsignalled, poll, sync, lost
  <1>5. CASE Restart
    BY <1>5 DEF Restart, Signalled
  <1>6. CASE UNCHANGED vars
    BY <1>6 DEF vars, poll, sync, history, lost, Signalled, Unsignalled
  <1> QED BY <1>1, <1>2, <1>3, <1>4, <1>5, <1>6 DEF Next

\* When nothing is under way the resolver answers from the hosts file as it
\* is, unless the last reload failed or a failed write or a restart left it out.
THEOREM ResolverFollows == Spec => []ResolverCurrent
  <1>1. Init => Signalled
    BY DEF Init, Signalled
  <1>2. Signalled => ResolverCurrent
    BY DEF Signalled, ResolverCurrent, Quiet, Unsignalled
  <1> QED BY <1>1, <1>2, SignalStep, DnsTypes, PTL DEF Spec

----------------------------------------------------------------------------
(* The writer.                                                              *)

Notifying == \E t \in Tasks : task[t] = "notify"

\* A poll notifies of the licence in force.
Announced == \A t \in Tasks : task[t] = "notify" => t \in Polls /\ next[t].tier = config.tier

\* There is a writer when there should be, but for the notification.
WriterFollows == ~ Notifying => (writer # 0 <=> Publishable(config))

\* Unless one poll moved the tier under the notification of another.
Followed == ~ crossed => Announced /\ WriterFollows

LEMMA FollowWriter ==
    ASSUME WriterTypes, NEW t, NEW l, Follow(t, l)
    PROVE  /\ writer' # 0 <=> Publishable(l)
           /\ Publishable(l) /\ writer # 0 => writer' = writer
  <1>1. made + 1 # 0
    BY DEF WriterTypes
  <1> QED BY <1>1 DEF Follow, Start, Stop, dns

\* The two ways a poll goes on: it notifies, or DNS follows.
LEMMA PollCases ==
    ASSUME TypeOK, Announced, NEW t \in Polls, PollStep(t)
    PROVE  /\ t \in Tasks /\ task[t] \in {"idle", "notify"}
           /\ \A u \in Tasks \ {t} : task'[u] = task[u] /\ next'[u] = next[u]
           /\ UNCHANGED <<sync, file, resolver, signalLost>>
           /\ \/ /\ task'[t] = "notify" /\ next'[t].tier = config'.tier
                 /\ config.tier # config'.tier /\ UNCHANGED <<dns, unwithdrawn>>
              \/ \E l : /\ Follow(t, l) /\ l.tier = config'.tier /\ config'.tier = config.tier
                        /\ task'[t] = IF Publishable(l) THEN "idle" ELSE "read"
  <1>0. /\ t \in Tasks /\ task \in [Tasks -> Stages] /\ config \in Grants
        /\ next \in [Tasks -> Licenses \cup {Unlicensed}]
    BY TypeParts DEF Tasks, StageTypes, LicenceTypes
  <1>2. CASE Poll(t)
    <2>1. config'.tier = key.tier /\ UNCHANGED <<sync, file, resolver, signalLost>>
      BY <1>0, <1>2 DEF Poll, Grants
    <2>2. CASE config.tier # key.tier
      BY <1>0, <1>2, <2>1, <2>2 DEF Poll
    <2>3. CASE config.tier = key.tier
      <3>1. Follow(t, key)
        BY <1>2, <2>3 DEF Poll
      <3> QED BY <1>0, <1>2, <2>1, <2>3, <3>1, FollowStages DEF Poll
    <2> QED BY <2>2, <2>3
  <1>3. CASE Notified(t)
    <2>1. Follow(t, next[t]) /\ UNCHANGED <<config, sync, file, resolver, signalLost>>
      BY <1>3 DEF Notified, licence
    <2>2. next[t].tier = config.tier
      BY <1>0, <1>3 DEF Notified, Announced
    <2> QED BY <1>0, <1>3, <2>1, <2>2, FollowStages DEF Notified
  <1> QED BY <1>2, <1>3 DEF PollStep

LEMMA FollowedStep == TypeOK /\ Followed /\ [Next]_vars => Followed'
  <1> SUFFICES ASSUME TypeOK, Followed, [Next]_vars, ~ crossed'
               PROVE  (Announced /\ WriterFollows)'
    BY DEF Followed
  <1>1. CASE Restart
    BY <1>1 DEF Restart, Boot, Announced, WriterFollows, Notifying
  <1>2. CASE ~ Restart
    <2>0. /\ task \in [Tasks -> Stages] /\ Announced /\ WriterFollows
          /\ WriterTypes
      BY <1>2, TypeParts DEF StageTypes, Followed, Next, Noted, vars, history
    <2>1. ASSUME NEW t \in Polls, PollStep(t), Next PROVE (Announced /\ WriterFollows)'
      <3>1. /\ t \in Tasks
            /\ \A u \in Tasks \ {t} : task'[u] = task[u] /\ next'[u] = next[u]
        BY <2>0, <2>1, PollCases
      <3>2. \A u \in Tasks \ {t} :
               task'[u] = "notify" => u \in Polls /\ next'[u].tier = config'.tier
        <4>1. ~ Crossing
          BY <2>1 DEF Next, Noted
        <4> QED BY <2>0, <3>1, <4>1 DEF Announced, Crossing
      <3>3. CASE task'[t] = "notify" /\ next'[t].tier = config'.tier
        BY <2>1, <3>1, <3>3, <3>2 DEF Announced, WriterFollows, Notifying
      <3>4. ASSUME NEW l, Follow(t, l), l.tier = config'.tier, task'[t] # "notify"
            PROVE  (Announced /\ WriterFollows)'
        <4>1. writer' # 0 <=> Publishable(config')
          BY <2>0, <3>4, FollowWriter DEF Publishable
        <4> QED BY <3>1, <3>4, <3>2, <4>1 DEF Announced, WriterFollows, Notifying
      <3> QED BY <2>0, <2>1, <3>3, <3>4, PollCases
    <2>2. ASSUME NEW t \in Tasks, RetireStep(t) PROVE (Announced /\ WriterFollows)'
      <3>1. /\ UNCHANGED <<config, writer, next>>
            /\ \A u \in Tasks \ {t} : task'[u] = task[u]
            /\ task[t] # "notify" /\ task'[t] # "notify"
        BY <2>0, <2>2
        DEF RetireStep, RetireRead, RetireTruncate, RetireFill, RetireReload, licence, dns
      <3> QED BY <2>0, <3>1 DEF Announced, WriterFollows, Notifying
    <2>3. CASE KeyChanges \/ RegistryChanges \/ UNCHANGED vars \/ \E k \in Ticks : SyncStep(k)
      <3>1. UNCHANGED <<config, writer, poll>>
        BY <2>3
        DEF KeyChanges, RegistryChanges, vars, SyncStep, Tick, Build, SyncTruncate, SyncFill,
            SyncRecord, SyncReload, licence, dns
      <3> QED BY <2>0, <3>1 DEF Announced, WriterFollows, Notifying, poll
    <2> QED BY <1>2, <2>1, <2>2, <2>3 DEF Next
  <1> QED BY <1>1, <1>2

LEMMA FollowedHolds == Spec => []Followed
  <1>1. Init => Followed
    BY DEF Init, Followed, Announced, WriterFollows, Notifying
  <1> QED BY <1>1, FollowedStep, DnsTypes, PTL DEF Spec

\* A renewal leaves the writer of a licensed host alone, for every licence and
\* any number of polls, unless one moved the tier under another's notification.
THEOREM RenewalsAreInvisible == Spec => RenewalInvisible
  <1>1. ASSUME TypeOK, Followed, [Next]_vars
        PROVE  [(Publishable(config) /\ Publishable(config') /\ writer # 0 /\ ~ Restart
                      /\ ~ crossed) => writer' = writer]_vars
    <2> SUFFICES ASSUME Publishable(config), Publishable(config'), writer # 0, ~ Restart,
                        ~ crossed, Next
                 PROVE  writer' = writer
      BY <1>1
    <2>0. Announced /\ WriterTypes
      BY <1>1, TypeParts DEF Followed
    <2>1. ASSUME NEW t \in Polls, PollStep(t) PROVE writer' = writer
      BY <1>1, <2>0, <2>1, PollCases, FollowWriter DEF dns, Publishable
    <2>2. CASE KeyChanges \/ RegistryChanges \/ (\E k \in Ticks : SyncStep(k))
               \/ (\E t \in Tasks : RetireStep(t))
      BY <2>2
      DEF KeyChanges, RegistryChanges, SyncStep, Tick, Build, SyncTruncate, SyncFill, SyncRecord,
          SyncReload, RetireStep, RetireRead, RetireTruncate, RetireFill, RetireReload, dns
    <2> QED BY <2>1, <2>2 DEF Next
  <1> QED BY <1>1, FollowedHolds, DnsTypes, PTL DEF Spec, RenewalInvisible

----------------------------------------------------------------------------
(* The withdrawal.                                                         *)

\* While no sync and no withdrawal had the file at once: nothing is written
\* without a writer, nothing stays behind what is no zone, and an unlicensed
\* host whose last withdrawal did not fail answers for no workload, or will not
\* once it was notified or withdraws.
NoneWritten  == writer = 0 => \A k \in Ticks : ~ Writing(k)
NoTail       == file.head \notin Contents \cup {"part"} => file.rest = NoZone
FillsBlank   == \A t \in Tasks : task[t] = "fill" => ~ Serves(file)
WillWithdraw == ~ Publishable(config) =>
                    ~ Serves(file) \/ Notifying \/ \E t \in Tasks : Withdrawing(t)

Orderly   == NoneWritten /\ NoTail /\ FillsBlank
Withdrawn == /\ ~ overlapped => ~ Overlap /\ Orderly
             /\ ~ overlapped /\ ~ crossed /\ ~ unwithdrawn => WillWithdraw

LEMMA NotContents ==
    /\ NoZone \notin Contents /\ Banner \notin Contents
    /\ "empty" \notin Contents /\ "part" \notin Contents /\ "absent" \notin Contents
  BY ContentsAssumption DEF NoZone, Banner

\* A poll: the file stays, and a writer only goes where a withdrawal begins.
LEMMA PollWithdraws ==
    ASSUME TypeOK, NEW t \in Polls, PollStep(t), ~ Overlap', Orderly
    PROVE  Orderly' /\ (Announced => WillWithdraw')
  <1>0. /\ t \in Tasks /\ UNCHANGED <<sync, file>> /\ WriterTypes
        /\ task \in [Tasks -> Stages]
    BY TypeParts DEF PollStep, Poll, Notified, Tasks, StageTypes
  <1>1. ASSUME UNCHANGED dns, task' = [task EXCEPT ![t] = "notify"]
        PROVE  Orderly'
    BY <1>0, <1>1 DEF Orderly, NoneWritten, NoTail, FillsBlank, Writing, sync, dns
  <1>2. ASSUME NEW l, Follow(t, l)
        PROVE  Orderly'
    <2>1. task' = [task EXCEPT ![t] = IF Publishable(l) THEN "idle" ELSE "read"]
      BY <1>0, <1>2, FollowStages
    <2>2. NoTail' /\ FillsBlank'
      BY <1>0, <2>1 DEF Orderly, NoTail, FillsBlank
    <2>3. CASE Publishable(l)
      BY <1>0, <1>2, <2>2, <2>3, FollowWriter DEF Orderly, NoneWritten
    <2>4. CASE ~ Publishable(l)
      <3>1. Withdrawing(t)'
        BY <1>0, <2>1, <2>4 DEF Withdrawing
      <3> QED BY <1>0, <2>2, <3>1 DEF Orderly, NoneWritten, Overlap
    <2> QED BY <2>3, <2>4
  <1>3. Orderly'
    BY <1>1, <1>2 DEF PollStep, Poll, Notified
  <1>4. ASSUME Announced PROVE WillWithdraw'
    <2>1. CASE task'[t] = "notify"
      BY <1>0, <2>1 DEF WillWithdraw, Notifying
    <2>2. ASSUME NEW l, l.tier = config'.tier,
                 task'[t] = IF Publishable(l) THEN "idle" ELSE "read"
          PROVE  WillWithdraw'
      BY <1>0, <2>2 DEF WillWithdraw, Withdrawing, Publishable
    <2> QED BY <1>4, <2>1, <2>2, PollCases
  <1> QED BY <1>3, <1>4

\* A withdrawal ends with a file that answers for nothing, or it failed.
LEMMA RetireWithdraws ==
    ASSUME TypeOK, NEW t \in Tasks, RetireStep(t), Orderly
    PROVE  /\ Orderly'
           /\ ~ unwithdrawn' /\ (~ unwithdrawn => WillWithdraw) => WillWithdraw'
  <1>0. /\ task \in [Tasks -> Stages] /\ file \in Files
        /\ UNCHANGED <<config, writer, tick>>
        /\ \A u \in Tasks \ {t} : task'[u] = task[u]
    BY TypeParts
    DEF StageTypes, FileTypes, RetireStep, RetireRead, RetireTruncate, RetireFill, RetireReload,
        licence, dns, sync
  <1>1. NoneWritten'
    BY <1>0 DEF Orderly, NoneWritten, Writing
  <1>2. CASE /\ UNCHANGED file /\ task'[t] # "fill"
             /\ RetireRead(t) \/ RetireReload(t) \/ unwithdrawn'
    <2>1. NoTail' /\ FillsBlank'
      BY <1>0, <1>2 DEF Orderly, NoTail, FillsBlank
    <2>2. CASE RetireRead(t) /\ ~ unwithdrawn'
      <3>1. CASE file.head \in {"absent", Banner}
        <4>1. ~ Serves(file')
          BY <1>2, <3>1, NotContents DEF Orderly, NoTail, Serves, Banner
        <4> QED BY <1>1, <2>1, <4>1 DEF Orderly, WillWithdraw
      <3>2. CASE file.head \notin {"absent", Banner}
        <4>1. Withdrawing(t)'
          BY <1>0, <2>2, <3>2 DEF RetireRead, Withdrawing
        <4> QED BY <1>1, <2>1, <4>1 DEF Orderly, WillWithdraw
      <3> QED BY <3>1, <3>2
    <2>3. CASE RetireReload(t)
      <3>1. task[t] = "reload" /\ task'[t] = "idle" /\ unwithdrawn' = unwithdrawn
        BY <1>0, <2>3 DEF RetireReload
      <3>2. WillWithdraw => WillWithdraw'
        BY <1>0, <1>2, <3>1 DEF WillWithdraw, Notifying, Withdrawing
      <3> QED BY <1>1, <2>1, <3>1, <3>2 DEF Orderly
    <2>4. CASE unwithdrawn'
      BY <1>1, <2>1, <2>4 DEF Orderly
    <2> QED BY <1>2, <2>2, <2>3, <2>4
  <1>3. CASE ~ Serves(file') /\ (file'.head \notin {"part"} => file'.rest = NoZone)
    BY <1>1, <1>3 DEF Orderly, NoTail, FillsBlank, WillWithdraw
  <1>4. CASE RetireRead(t) \/ RetireReload(t)
    BY <1>0, <1>2, <1>4 DEF RetireRead, RetireReload
  <1>5. CASE RetireTruncate(t)
    <2>1. CASE Truncated
      <3>1. file'.head = "empty" /\ file'.rest = NoZone
        BY <2>1, WholeTypes DEF Truncated, Heads
      <3> QED BY <1>3, <3>1, NotContents DEF Serves
    <2>2. CASE UNCHANGED file /\ task'[t] = "idle" /\ unwithdrawn'
      BY <1>2, <2>2
    <2> QED BY <1>0, <1>5, <2>1, <2>2 DEF RetireTruncate
  <1>6. CASE RetireFill(t)
    <2>1. file.head \notin Contents /\ file.rest \notin Contents /\ Banner \in Heads
      BY <1>6, WholeTypes DEF RetireFill, Orderly, FillsBlank, Serves
    <2>2. CASE UNCHANGED file /\ task'[t] = "idle" /\ unwithdrawn'
      BY <1>2, <2>2
    <2>3. CASE Filled(Banner)
      <3>1. file'.head = Banner /\ file'.rest = NoZone
        BY <1>0, <2>1, <2>3, FilledTypes, NotContents
      <3> QED BY <1>3, <3>1, NotContents DEF Serves
    <2>4. CASE \E rest \in {NoZone} \cup ({Banner, file.head, file.rest} \cap Contents) :
                   file' = [head |-> "part", rest |-> rest]
      <3>1. file'.head = "part" /\ file'.rest = NoZone
        BY <2>1, <2>4, NotContents
      <3> QED BY <1>3, <3>1, NotContents DEF Serves
    <2> QED BY <1>0, <1>6, <2>2, <2>3, <2>4 DEF RetireFill, Torn
  <1> QED BY <1>4, <1>5, <1>6 DEF RetireStep

\* A sync writes only beside no withdrawal, and for a licensed host or one that
\* is still to be notified.
LEMMA SyncWithdraws ==
    ASSUME TypeOK, Built, NEW k \in Ticks, SyncStep(k), ~ Overlap, Orderly
    PROVE  /\ Orderly'
           /\ WriterFollows /\ WillWithdraw => WillWithdraw'
           /\ unwithdrawn' = unwithdrawn
  <1>0. /\ tick \in [Ticks -> Phases] /\ file \in Files
        /\ UNCHANGED <<config, writer, task, unwithdrawn>>
        /\ \A j \in Ticks \ {k} : tick'[j] = tick[j]
    BY TypeParts
    DEF StageTypes, FileTypes, SyncStep, Tick, Build, SyncTruncate, SyncFill, SyncRecord,
        SyncReload, licence, dns, poll, lost
  <1>1. CASE Tick(k) \/ Build(k) \/ SyncRecord(k) \/ SyncReload(k)
    <2>1. file' = file
      BY <1>1 DEF Tick, Build, SyncRecord, SyncReload
    <2>2. NoneWritten'
      BY <1>0, <1>1 DEF Tick, Build, SyncRecord, SyncReload, Orderly, NoneWritten, Writing
    <2> QED BY <1>0, <2>1, <2>2
        DEF Orderly, NoTail, FillsBlank, WillWithdraw, Notifying, Withdrawing
  <1>2. CASE SyncTruncate(k) \/ SyncFill(k)
    <2>1. Writing(k) /\ writer # 0
      BY <1>2 DEF SyncTruncate, SyncFill, Writing, Orderly, NoneWritten
    <2>2. \A t \in Tasks : ~ Withdrawing(t)
      BY <2>1 DEF Overlap
    <2>3. FillsBlank' /\ NoneWritten'
      BY <1>0, <2>1, <2>2 DEF FillsBlank, NoneWritten, Withdrawing
    <2>4. WriterFollows => WillWithdraw'
      BY <1>0, <2>1 DEF WriterFollows, WillWithdraw, Notifying
    <2>5. CASE file' = file
      BY <1>0, <2>3, <2>4, <2>5 DEF Orderly, NoTail
    <2>6. CASE Truncated
      <3>1. file'.rest = NoZone
        BY <2>6, WholeTypes DEF Truncated, Heads
      <3> QED BY <1>0, <2>3, <2>4, <3>1 DEF Orderly, NoTail
    <2>7. CASE file'.head \in Contents \cup {"part"}
      BY <1>0, <2>3, <2>4, <2>7 DEF Orderly, NoTail
    <2>8. CASE SyncFill(k)
      <3>1. zone[k].content \in Contents
        BY <2>1 DEF Built
      <3>2. file'.head \in Contents \cup {"part"} \/ file' = file
        BY <1>0, <2>8, <3>1, FilledTypes, TornTypes, WholeTypes DEF SyncFill
      <3> QED BY <2>5, <2>7, <3>2
    <2> QED BY <1>2, <2>5, <2>6, <2>8 DEF SyncTruncate
  <1> QED BY <1>1, <1>2 DEF SyncStep

\* A sync of a running writer that has the file to itself begins it anew.
LEMMA FreshWithdraws ==
    ASSUME TypeOK, Next, Fresh
    PROVE  Orderly' /\ WillWithdraw'
  <1>0. tick \in [Ticks -> Phases]
    BY TypeParts DEF StageTypes
  <1>1. PICK k \in Ticks : /\ tick[k] = "truncate" /\ tick'[k] = "fill"
                           /\ Alone(k) /\ writer # 0
    BY DEF Fresh
  <1>2. tick' # tick /\ ~ Restart
    BY <1>1 DEF Restart, Boot
  <1>3. PICK j \in Ticks : SyncStep(j)
    BY <1>2
    DEF Next, PollStep, Poll, Notified, RetireStep, RetireRead, RetireTruncate, RetireFill,
        RetireReload, KeyChanges, RegistryChanges, sync
  <1>4. SyncStep(k)
    BY <1>0, <1>1, <1>3
    DEF SyncStep, Tick, Build, SyncTruncate, SyncFill, SyncRecord, SyncReload
  <1>5. Truncated /\ writer' # 0
    BY <1>0, <1>1, <1>4
    DEF SyncStep, Tick, Build, SyncTruncate, SyncFill, SyncRecord, SyncReload, dns
  <1>6. file'.head = "empty" /\ file'.rest = NoZone
    BY <1>5, WholeTypes DEF Truncated, Heads
  <1>7. ~ Serves(file')
    BY <1>6, NotContents DEF Serves
  <1> QED BY <1>5, <1>6, <1>7 DEF Orderly, NoneWritten, NoTail, FillsBlank, WillWithdraw

LEMMA WithdrawnStep ==
    ASSUME TypeOK, Built, Followed, Withdrawn, [Next]_vars
    PROVE  Withdrawn'
  <1>1. CASE Next
    <2> SUFFICES ASSUME ~ overlapped'
                 PROVE  /\ ~ Overlap' /\ Orderly'
                        /\ ~ crossed' /\ ~ unwithdrawn' => WillWithdraw'
      BY DEF Withdrawn
    <2>0. ~ Overlap' /\ (~ overlapped \/ Fresh)
      BY <1>1 DEF Next, Noted
    <2>1. CASE Fresh
      BY <1>1, <2>0, <2>1, FreshWithdraws
    <2>2. CASE ~ overlapped /\ Restart
      <3>1. /\ file' = file /\ "boot" \in Tasks
            /\ \A t \in Tasks : task'[t] # "fill"
            /\ \A k \in Ticks : tick'[k] = "idle"
            /\ ~ Publishable(config') => task'["boot"] = "read"
        BY <2>2 DEF Restart, Boot, Tasks
      <3>2. Orderly'
        BY <2>2, <3>1 DEF Withdrawn, Orderly, NoneWritten, NoTail, FillsBlank, Writing
      <3>3. WillWithdraw'
        BY <3>1 DEF WillWithdraw, Withdrawing
      <3> QED BY <2>0, <3>2, <3>3
    <2>3. CASE ~ overlapped /\ ~ Restart
      <3>1. /\ ~ Overlap /\ Orderly
            /\ ~ crossed' => ~ crossed /\ Announced /\ WriterFollows
            /\ ~ crossed /\ ~ unwithdrawn => WillWithdraw
        BY <1>1, <2>3 DEF Withdrawn, Followed, Next, Noted
      <3>2. ASSUME NEW t \in Polls, PollStep(t)
            PROVE  Orderly' /\ (~ crossed' /\ ~ unwithdrawn' => WillWithdraw')
        BY <2>0, <3>1, <3>2, PollWithdraws
      <3>3. ASSUME NEW t \in Tasks, RetireStep(t)
            PROVE  Orderly' /\ (~ crossed' /\ ~ unwithdrawn' => WillWithdraw')
        BY <3>1, <3>3, RetireWithdraws
      <3>4. ASSUME NEW k \in Ticks, SyncStep(k)
            PROVE  Orderly' /\ (~ crossed' /\ ~ unwithdrawn' => WillWithdraw')
        BY <3>1, <3>4, SyncWithdraws
      <3>5. CASE KeyChanges \/ RegistryChanges
        <4>1. UNCHANGED <<config, writer, task, tick, file, unwithdrawn>>
          BY <3>5 DEF KeyChanges, RegistryChanges, licence, dns, poll, sync, lost
        <4>2. Orderly'
          BY <3>1, <4>1 DEF Orderly, NoneWritten, NoTail, FillsBlank, Serves, Writing
        <4>3. WillWithdraw => WillWithdraw'
          BY <4>1 DEF WillWithdraw, Serves, Notifying, Withdrawing
        <4> QED BY <2>0, <3>1, <4>1, <4>2, <4>3
      <3> QED BY <1>1, <2>0, <2>3, <3>2, <3>3, <3>4, <3>5 DEF Next
    <2> QED BY <2>0, <2>1, <2>2, <2>3
  <1>2. CASE UNCHANGED vars
    BY <1>2
    DEF vars, licence, dns, poll, sync, history, lost, Withdrawn, Overlap, Orderly, NoneWritten,
        NoTail, FillsBlank, WillWithdraw, Writing, Notifying, Withdrawing
  <1> QED BY <1>1, <1>2

\* A zone outlives the tier that paid for it only where the last withdrawal
\* could not read or write the file, where a sync and a withdrawal had it at
\* once and no sync of a running writer had it to itself since, or where a poll
\* of this process moved the tier under the notification of another: for every
\* registry, key, number of polls, syncs, restarts and failed reads and writes.
THEOREM ZoneIsWithdrawn == Spec => []WithdrawnUnlessOverlapped
  <1>1. Init => Withdrawn
    <2> SUFFICES ASSUME Init PROVE Withdrawn
      OBVIOUS
    <2>1. /\ \A k \in Ticks : ~ Writing(k)
          /\ file \in {Whole("absent"), Whole("empty")} \cup {Whole(c) : c \in Contents}
          /\ ~ Publishable(config) => task["boot"] = "read" /\ "boot" \in Tasks
          /\ \A t \in Tasks : task[t] # "fill"
      BY DEF Init, Writing, Tasks
    <2> QED BY <2>1
        DEF Withdrawn, Overlap, Orderly, NoneWritten, NoTail, FillsBlank, WillWithdraw,
            Withdrawing, Whole
  <1>2. Withdrawn => WithdrawnUnlessOverlapped
    BY DEF Withdrawn, WillWithdraw, WithdrawnUnlessOverlapped, FreeHostWithdrawn, Quiet,
           Notifying, Withdrawing
  <1> QED BY <1>1, <1>2, WithdrawnStep, FollowedHolds, DnsTypes, PTL DEF Spec

----------------------------------------------------------------------------
(* The countdown.                                                          *)

Pending == check.stage \in {"write", "fill"}

\* Marks are closed upwards: marking a threshold marks the looser ones.
UpClosed(S) == \A t \in S, u \in WarningDays : t <= u => u \in S

AnnouncedBelow(e, S) ==
    \A t \in S : \E u \in WarningDays : u <= t /\ <<e, u>> \in announced

\* The last announcement is the tightest mark of the state that records it:
\* the one about to be written, or the file.
Accounted ==
    lastSaid.expiry # 0 =>
        /\ Pending => check.expiry = lastSaid.expiry /\ Smallest(lastSaid.days, check.sent)
        /\ ~Pending => stored.expiry = lastSaid.expiry /\ Smallest(lastSaid.days, stored.sent)

Marks ==
    /\ WarnTypeOK
    /\ UpClosed(stored.sent)
    /\ UpClosed(check.sent)
    /\ MarkedWasAnnounced
    /\ Pending => AnnouncedBelow(check.expiry, check.sent)
    /\ Accounted

LEMMA CrossedUpClosed ==
    ASSUME NEW d \in Int
    PROVE  Crossed(d) \subseteq WarningDays /\ UpClosed(Crossed(d))
BY WarningDaysAssumption, ExpiriesAssumption DEF Crossed, UpClosed

LEMMA UpClosedUnion ==
    ASSUME NEW S, NEW T, UpClosed(S), UpClosed(T)
    PROVE  UpClosed(S \cup T)
BY DEF UpClosed

\* The tightest threshold newly reached is the tightest one reached.
LEMMA NewestIsTightest ==
    ASSUME NEW d \in Int, NEW S \in SUBSET WarningDays, UpClosed(S),
           NEW t, Smallest(t, Crossed(d) \ S)
    PROVE  /\ Smallest(t, Crossed(d))
           /\ Smallest(t, S \cup Crossed(d))
           /\ \A u \in S : t < u
<1>1. /\ t \in WarningDays /\ t \in Nat /\ t \in Crossed(d) /\ t \notin S
      /\ \A u \in Crossed(d) : u \notin S => t <= u
  BY WarningDaysAssumption, ExpiriesAssumption DEF Smallest, Crossed
<1>2. \A u \in S : u \in Nat /\ t < u
  <2>1. ASSUME NEW u \in S PROVE u \in Nat /\ t < u
    <3>1. u \in Nat
      BY WarningDaysAssumption, ExpiriesAssumption
    <3>2. ~(u <= t)
      BY <1>1 DEF UpClosed
    <3> QED BY <1>1, <3>1, <3>2
  <2> QED BY <2>1
<1>3. \A u \in Crossed(d) : t <= u
  BY <1>1, <1>2, CrossedUpClosed, WarningDaysAssumption, ExpiriesAssumption
<1> QED BY <1>1, <1>2, <1>3 DEF Smallest

----------------------------------------------------------------------------

LEMMA InitMarks == WarnInit => Marks
<1> SUFFICES ASSUME WarnInit PROVE Marks
  OBVIOUS
<1> USE DEF WarnInit, NoCheck, EmptyState, Nothing
<1>1. WarnTypeOK
  BY WarningDaysAssumption, ExpiriesAssumption DEF WarnTypeOK, State
<1> QED
  BY <1>1 DEF Marks, UpClosed, MarkedWasAnnounced, Pending, Accounted

LEMMA StepMarks == Marks /\ [WarnNext]_warnVars => Marks'
<1> SUFFICES ASSUME Marks, [WarnNext]_warnVars PROVE Marks'
  OBVIOUS
<1> USE WarningDaysAssumption, ExpiriesAssumption
<1>1. CASE Begin
  <2>1. WarnTypeOK'
    <3>1. check' \in [stage : {"idle", "read", "write", "fill"}, expiry : Nat,
                      day : Nat, sent : SUBSET WarningDays]
          /\ (check'.stage # "idle" => check'.expiry \in Expiries)
          /\ expiry' \in Expiries \cup {0}
      BY <1>1 DEF Begin, Marks, WarnTypeOK, NoCheck
    <3> QED BY <1>1, <3>1 DEF Begin, Marks, WarnTypeOK, warnHistory
  <2>2. check'.sent = {} /\ ~Pending /\ ~Pending'
    BY <1>1 DEF Begin, NoCheck, Pending
  <2> QED
    BY <1>1, <2>1, <2>2
    DEF Begin, Marks, UpClosed, MarkedWasAnnounced, Accounted, Smallest, warnHistory
<1>2. CASE Decide
  <2> DEFINE d == check.expiry - check.day
             sent == SentFor(check.expiry)
             unsent == Crossed(d) \ sent
  <2>1. /\ d \in Int /\ sent \in SUBSET WarningDays /\ UpClosed(sent)
        /\ Crossed(d) \subseteq WarningDays /\ UpClosed(Crossed(d))
        /\ check.expiry \in Expiries /\ check.stage = "read" /\ ~Pending
    <3>1. check.expiry \in Expiries /\ check.day \in Nat /\ check.stage = "read" /\ ~Pending
      BY <1>2 DEF Decide, Marks, WarnTypeOK, Pending
    <3>2. d \in Int
      <4>1. check.expiry \in Nat
        BY <3>1
      <4> QED BY <3>1, <4>1
    <3>3. sent \in SUBSET WarningDays /\ UpClosed(sent)
      BY DEF SentFor, Marks, WarnTypeOK, State, UpClosed
    <3> QED BY <3>1, <3>2, <3>3, CrossedUpClosed
  <2>2. CASE check' = NoCheck /\ UNCHANGED warnHistory
    <3>1. WarnTypeOK'
      BY <1>2, <2>2 DEF Decide, Marks, WarnTypeOK, NoCheck, warnHistory, bounds
    <3>2. ~Pending' /\ check'.sent = {} /\ UNCHANGED <<stored, announced, lastSaid>>
      BY <1>2, <2>2 DEF Decide, NoCheck, Pending, warnHistory
    <3> QED
      BY <2>1, <3>1, <3>2 DEF Marks, UpClosed, MarkedWasAnnounced, Accounted, Smallest
  <2>3. ASSUME NEW t \in unsent,
               Smallest(t, unsent),
               announced' = announced \cup {<<check.expiry, t>>},
               said' = said + 1,
               lastSaid' = [expiry |-> check.expiry, days |-> t],
               check' = [check EXCEPT !.stage = "write", !.sent = sent \cup Crossed(d)]
        PROVE  Marks'
    <3>1. Smallest(t, sent \cup Crossed(d)) /\ t \in WarningDays
      BY <2>1, <2>3, NewestIsTightest
    <3>2. /\ check'.stage = "write" /\ check'.expiry = check.expiry
          /\ check'.sent = sent \cup Crossed(d)
      BY <2>3 DEF Marks, WarnTypeOK
    <3>3. WarnTypeOK'
      <4>1. check' \in [stage : {"idle", "read", "write", "fill"}, expiry : Nat,
                        day : Nat, sent : SUBSET WarningDays]
        BY <2>1, <2>3 DEF Marks, WarnTypeOK
      <4>2. check'.stage # "idle" => check'.expiry \in Expiries
        BY <2>1, <3>2
      <4>3. announced' \subseteq Expiries \X WarningDays
        BY <2>1, <2>3, <3>1 DEF Marks, WarnTypeOK
      <4>4. lastSaid' \in [expiry : Nat, days : Nat] /\ said' \in Nat
        BY <2>1, <2>3, <3>1 DEF Marks, WarnTypeOK
      <4> QED BY <1>2, <4>1, <4>2, <4>3, <4>4 DEF Decide, Marks, WarnTypeOK, bounds
    <3>4. UpClosed(check.sent)' /\ UpClosed(stored.sent)'
      <4>1. UpClosed(sent \cup Crossed(d))
        BY <2>1, UpClosedUnion
      <4> QED BY <1>2, <3>2, <4>1 DEF Decide, Marks, UpClosed
    <3>5. MarkedWasAnnounced'
      BY <1>2, <2>3 DEF Decide, Marks, MarkedWasAnnounced
    <3>6. AnnouncedBelow(check.expiry, check.sent)'
      BY <2>3, <3>1, <3>2 DEF AnnouncedBelow, Smallest
    <3>7. Accounted'
      BY <2>3, <3>1, <3>2 DEF Accounted, Smallest, Pending
    <3> QED BY <3>3, <3>4, <3>5, <3>6, <3>7 DEF Marks
  <2> QED BY <1>2, <2>2, <2>3 DEF Decide
<1>3. CASE Truncate
  <2>1. /\ check'.stage = "fill" /\ check'.expiry = check.expiry
        /\ check'.sent = check.sent /\ Pending /\ Pending'
    BY <1>3 DEF Truncate, Marks, WarnTypeOK, Pending
  <2>2. WarnTypeOK'
    BY <1>3
    DEF Truncate, Marks, WarnTypeOK, State, EmptyState, warnHistory,
        bounds
  <2> QED
    BY <1>3, <2>1, <2>2
    DEF Truncate, Marks, UpClosed, MarkedWasAnnounced, AnnouncedBelow, Accounted,
        Smallest, EmptyState, warnHistory
<1>4. CASE Fill
  <2>1. Pending /\ ~Pending' /\ check'.sent = {}
    BY <1>4 DEF Fill, NoCheck, Pending
  <2>2. WarnTypeOK'
    BY <1>4 DEF Fill, Marks, WarnTypeOK, State, NoCheck, warnHistory, bounds
  <2> QED
    BY <1>4, <2>1, <2>2
    DEF Fill, Marks, UpClosed, MarkedWasAnnounced, AnnouncedBelow, Accounted,
        Smallest, warnHistory
<1>5. CASE WriteFails \/ WarnRestart
  <2>1. /\ check' = NoCheck /\ UNCHANGED <<stored, announced>>
        /\ lastSaid' \in {Nothing, lastSaid} /\ (Pending => lastSaid' = Nothing)
    BY <1>5 DEF WriteFails, WarnRestart, Pending
  <2>2. WarnTypeOK'
    BY <1>5, <2>1
    DEF WriteFails, WarnRestart, Fault, Marks, WarnTypeOK, State,
        NoCheck, Nothing
  <2> QED
    BY <2>1, <2>2
    DEF Marks, UpClosed, MarkedWasAnnounced, Accounted, Smallest, NoCheck,
        Nothing, Pending
<1>6. CASE Day \/ UNCHANGED warnVars
  <2>1. UNCHANGED <<check, stored, announced, lastSaid>>
    BY <1>6 DEF Day, warnVars, warnHistory
  <2>2. WarnTypeOK'
    BY <1>6 DEF Day, warnVars, warnHistory, bounds, Marks, WarnTypeOK
  <2> QED
    BY <2>1, <2>2
    DEF Marks, UpClosed, MarkedWasAnnounced, AnnouncedBelow, Accounted, Smallest, Pending
<1> QED
  BY <1>1, <1>2, <1>3, <1>4, <1>5, <1>6 DEF WarnNext, Check

LEMMA MarksHold == WarnSpec => []Marks
BY InitMarks, StepMarks, PTL DEF WarnSpec

\* An announcement is made from a state of which the invariant holds.
LEMMA AnnouncementStep ==
    ASSUME Marks, [WarnNext]_warnVars, Announces
    PROVE  \E t \in WarningDays :
             /\ lastSaid' = [expiry |-> check.expiry, days |-> t]
             /\ Smallest(t, Crossed(check.expiry - check.day))
             /\ \A u \in SentFor(check.expiry) : t < u
             /\ ~Pending /\ check.expiry # 0
<1> DEFINE d == check.expiry - check.day
           sent == SentFor(check.expiry)
<1>1. Decide /\ said' # said
  <2>1. said' # said
    BY DEF Announces, Marks, WarnTypeOK
  <2> QED
    BY <2>1
    DEF WarnNext, Check, Begin, Truncate, Fill, WriteFails,
        WarnRestart, Day, warnVars, warnHistory
<1>2. PICK t \in Crossed(d) \ sent :
        /\ Smallest(t, Crossed(d) \ sent)
        /\ lastSaid' = [expiry |-> check.expiry, days |-> t]
  BY <1>1 DEF Decide, warnHistory
<1>3. /\ d \in Int /\ check.expiry # 0 /\ ~Pending
      /\ sent \in SUBSET WarningDays /\ UpClosed(sent)
  <2>1. check.expiry \in Expiries /\ check.day \in Nat /\ check.stage = "read"
    BY <1>1 DEF Decide, Marks, WarnTypeOK
  <2>2. sent \in SUBSET WarningDays /\ UpClosed(sent)
    BY DEF SentFor, Marks, WarnTypeOK, State, UpClosed
  <2>3. check.expiry \in Nat /\ check.expiry # 0
    BY <2>1, WarningDaysAssumption, ExpiriesAssumption
  <2>4. d \in Int
    BY <2>1, <2>3
  <2> QED BY <2>1, <2>2, <2>3, <2>4 DEF Pending
<1>4. t \in WarningDays
  BY <1>2 DEF Crossed
<1> QED BY <1>2, <1>3, <1>4, NewestIsTightest

\* The variables keep their types (checkExpiryWarnings).
THEOREM WarningTypes == WarnSpec => []WarnTypeOK
BY MarksHold, PTL DEF Marks

\* What the state file marks was announced, by a threshold at most as loose:
\* a crash repeats a warning and never swallows one.
THEOREM MarksAreAnnounced == WarnSpec => []MarkedWasAnnounced
BY MarksHold, PTL DEF Marks

\* Only the nearest deadline is announced (decideWarning after downtime).
THEOREM AnnouncesNearest == WarnSpec => NearestDeadline
<1>1. ASSUME Marks, [WarnNext]_warnVars
      PROVE  [Announces =>
                Smallest(lastSaid'.days,
                              Crossed(check.expiry - check.day))]_warnVars
  BY <1>1, AnnouncementStep
<1> QED BY <1>1, MarksHold, PTL DEF WarnSpec, NearestDeadline

\* The thresholds announced for one expiry get strictly tighter.
THEOREM Tightens == WarnSpec => CountdownTightens
<1>1. ASSUME Marks, [WarnNext]_warnVars
      PROVE  [(Announces /\ lastSaid'.expiry = lastSaid.expiry) =>
                lastSaid'.days < lastSaid.days]_warnVars
  <2> SUFFICES ASSUME Announces, lastSaid'.expiry = lastSaid.expiry
               PROVE  lastSaid'.days < lastSaid.days
    OBVIOUS
  <2>1. PICK t \in WarningDays :
             /\ lastSaid' = [expiry |-> check.expiry, days |-> t]
             /\ \A u \in SentFor(check.expiry) : t < u
             /\ ~Pending /\ check.expiry # 0
    BY <1>1, AnnouncementStep
  <2>2. stored.expiry = check.expiry /\ lastSaid.days \in stored.sent
    BY <1>1, <2>1 DEF Marks, Accounted, Smallest
  <2> QED BY <2>1, <2>2 DEF SentFor
<1> QED BY <1>1, MarksHold, PTL DEF WarnSpec, CountdownTightens

=============================================================================
