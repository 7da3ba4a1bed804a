-------------------------- MODULE AuditStoreProofs --------------------------
(***************************************************************************)
(* For every window size, every number of appends and every number of      *)
(* faults: what append() reported as written stays on disk and nothing     *)
(* that is on disk ever leaves it, and the store implements DurableLog,    *)
(* provided a failed appendFile leaves only whole lines (~TornAppends).    *)
(* With or without torn lines, no caller is forgotten and a store with     *)
(* nothing left to write answers from memory what its file holds.          *)
(***************************************************************************)
EXTENDS MCAuditStore, FiniteSetTheorems, TLAPS

(***************************************************************************)
(* The inductive invariant.                                                *)
(***************************************************************************)

\* Between two lives nothing is held in memory; an empty file is created only
\* where there is none.
AtRest ==
    /\ proc # "running" => /\ entries = {} /\ awaiting = {} /\ writer = Idle
                           /\ appended = 0
    /\ proc = "fresh" => file = "missing"
    /\ file = "missing" => live = {}

\* Entries leave the window only once they are archived.
EvictedAreArchived ==
    /\ writer.stage = "serialise" => writer.leaving \subseteq archive
    /\ \A n \in 1..appended : base + n \in entries \cup archive

\* Replacing the live file loses nothing.
FileIsCovered ==
    /\ proc = "running" => live \subseteq entries \cup archive \cup aside
    /\ writer.stage = "write" =>
          /\ live \subseteq writer.bytes \cup archive \cup aside
          /\ writer.bytes \subseteq entries

\* A write covers what its count says.
CountIsCovered ==
    /\ writer.covers <= appended
    /\ writer.stage = "write" =>
          \A n \in 1..writer.covers : base + n \in writer.bytes \cup archive
    /\ writer.stage = "renamed" =>
          \A n \in 1..writer.covers : base + n \in OnDisk

IInv ==
    /\ TypeOK /\ ~torn
    /\ AtRest /\ EvictedAreArchived /\ FileIsCovered /\ CountIsCovered
    /\ AckedDurable

\* What memory, the bytes of the write in flight and the file say of one
\* another when that write is the last one needed.
Agreement ==
    /\ proc # "running" => /\ entries = {} /\ awaiting = {} /\ writer = Idle
                           /\ appended = 0 /\ written = 0
    /\ written <= appended /\ writer.covers <= appended
    /\ writer.stage # "idle" => written < appended
    /\ \A w \in awaiting : w.target <= appended
    /\ (writer.stage \in {"write", "renamed"} /\ writer.covers = appended) =>
          writer.bytes = entries
    /\ (writer.stage = "renamed" /\ file = "readable") => live = writer.bytes

\* The number of an entry is its age: nothing is newer than the last append, a
\* write holds nothing newer than its count, what an earlier life accepted is
\* on disk, and what overflows is the oldest part of the window.
Ordered ==
    /\ entries \cup OnDisk \subseteq 1..(base + appended)
    /\ writer.stage = "write" => writer.bytes \subseteq 1..(base + writer.covers)
    /\ \A e \in entries : e <= base => e \in OnDisk
    /\ writer.stage \in {"archive", "serialise"} =>
          /\ writer.leaving \subseteq entries
          /\ \A e \in writer.leaving, d \in entries : d < e => d \in writer.leaving

----------------------------------------------------------------------------

\* The first entries of a set are some of its entries.
LEMMA OldestSubset == \A S, k : Oldest(S, k) \subseteq S
  BY DEF Oldest

\* A write begins with a well-formed record; when nothing overflows there is
\* nothing to evict.
LEMMA BeginWriteFacts ==
  ASSUME NEW S, S \subseteq Entry
  PROVE  /\ BeginWrite(S) \in Writer
         /\ BeginWrite(S).stage \in {"archive", "serialise"}
         /\ BeginWrite(S).stage = "serialise" => BeginWrite(S).leaving = {}
         /\ BeginWrite(S).leaving \subseteq S
         /\ BeginWrite(S).covers = 0
  <1> DEFINE leaving == Oldest(S, Cardinality(S) - MaxEntries)
  <1>1. leaving \subseteq S
    BY OldestSubset
  <1>2. BeginWrite(S) = [stage |-> IF leaving = {} THEN "serialise" ELSE "archive",
                         leaving |-> leaving, covers |-> 0, bytes |-> {}]
    BY DEF BeginWrite
  <1> HIDE DEF leaving
  <1> QED
    BY <1>1, <1>2 DEF Writer, Stages

\* A cut-short append leaves some of the lines, and without torn lines all that
\* it leaves can be read.
LEMMA PartialAppendFacts ==
  ASSUME TypeOK, NEW lines, lines \subseteq Entry, PartialAppend(lines)
  PROVE  /\ archive \subseteq archive' /\ archive' \subseteq Entry
         /\ torn' \in BOOLEAN
         /\ ~TornAppends /\ ~torn => ~torn'
  <1>1. PICK k \in 0..(Cardinality(lines) - 1), partial \in BOOLEAN :
           /\ partial => TornAppends
           /\ archive' = archive \cup Readable(Oldest(lines, k))
           /\ torn' = (partial \/ (k = 0 /\ torn))
    BY DEF PartialAppend
  <1>2. Readable(Oldest(lines, k)) \subseteq lines
    BY OldestSubset DEF Readable
  <1>3. torn \in BOOLEAN /\ archive \subseteq Entry
    BY DEF TypeOK
  <1> QED
    BY <1>1, <1>2, <1>3

----------------------------------------------------------------------------

\* Every variable keeps its type.
LEMMA TypeStep == TypeOK /\ [Next]_vars => TypeOK'
  <1> SUFFICES ASSUME TypeOK, [Next]_vars PROVE TypeOK'
    OBVIOUS
  <1> USE DEF TypeOK, memory, disk, Entry
  <1>1. Idle \in Writer
    BY DEF Idle, Writer, Stages
  <1>2. CASE Append
    <2>1. entries' \subseteq Entry /\ appended' \in Nat
      BY <1>2 DEF Append
    <2>2. awaiting' \subseteq Waiter
      BY <1>2 DEF Append, Waiter
    <2>3. writer' \in Writer
      BY <1>2, <2>1, BeginWriteFacts DEF Append
    <2> QED
      BY <1>2, <2>1, <2>2, <2>3 DEF Append
  <1>3. CASE Flush
    <2>1. awaiting' \subseteq Waiter
      BY <1>3 DEF Flush, Waiter
    <2>2. writer' \in Writer
      BY <1>3, BeginWriteFacts DEF Flush
    <2> QED
      BY <1>3, <2>1, <2>2 DEF Flush
  <1>4. CASE ArchiveWritten
    <2>1. Readable(writer.leaving) \subseteq Entry
      BY OldestSubset DEF Readable, Writer
    <2> QED
      BY <1>4, <2>1 DEF ArchiveWritten, Writer, Stages
  <1>5. CASE ArchiveFailed
    <2>1. archive' \subseteq Entry /\ torn' \in BOOLEAN
      BY <1>5, PartialAppendFacts DEF ArchiveFailed, Writer
    <2>2. writer' \in Writer
      BY <1>5 DEF ArchiveFailed, Writer, Stages
    <2>3. faults' \in Nat
      BY <1>5 DEF ArchiveFailed, Fault
    <2> QED
      BY <1>5, <2>1, <2>2, <2>3 DEF ArchiveFailed
  <1>6. CASE Serialise
    BY <1>6 DEF Serialise, Writer, Stages
  <1>7. CASE Rename
    BY <1>7 DEF Rename, Writer, Stages
  <1>8. CASE WriteDone
    <2>1. written' \in Nat
      BY <1>8 DEF WriteDone, Writer
    <2>2. awaiting' \subseteq Waiter
      BY <1>8 DEF WriteDone
    <2>3. acked' \subseteq Entry
      <3>1. \A w \in awaiting : base + w.target \in Entry
        BY DEF Waiter
      <3> QED
        BY <1>8, <3>1 DEF WriteDone
    <2>4. writer' \in Writer
      BY <1>8, <1>1, BeginWriteFacts DEF WriteDone
    <2> QED
      BY <1>8, <2>1, <2>2, <2>3, <2>4 DEF WriteDone
  <1>9. CASE WriteFailed
    BY <1>9, <1>1 DEF WriteFailed, Fault
  <1>10. CASE Crash
    <2>1. archive' \subseteq Entry /\ torn' \in BOOLEAN
      BY <1>10, PartialAppendFacts DEF Crash, Writer
    <2> QED
      BY <1>10, <1>1, <2>1 DEF Crash, Fault
  <1>11. CASE Damage
    BY <1>11 DEF Damage, Fault
  <1>12. CASE Startup
    <2>1. CASE LoadFile
      BY <2>1 DEF LoadFile
    <2>2. CASE NoFile
      BY <2>2 DEF NoFile
    <2>3. CASE SetAside
      BY <2>3 DEF SetAside
    <2>4. CASE WriteFresh
      BY <2>4 DEF WriteFresh
    <2> QED
      BY <1>12, <2>1, <2>2, <2>3, <2>4 DEF Startup
  <1>13. CASE StartFailed
    BY <1>13 DEF StartFailed, Fault
  <1>14. CASE UNCHANGED vars
    BY <1>14 DEF vars
  <1> QED
    BY <1>2, <1>3, <1>4, <1>5, <1>6, <1>7, <1>8, <1>9, <1>10, <1>11, <1>12,
       <1>13, <1>14 DEF Next, Io

\* The store's variables always have their types, whatever appends leave in the
\* archive.
THEOREM TypeCorrect == Spec => []TypeOK
  <1>1. ASSUME Init PROVE TypeOK
    <2>1. Idle \in Writer
      BY DEF Idle, Writer, Stages
    <2> QED
      BY <1>1, <2>1 DEF Init, TypeOK
  <1> QED
    BY <1>1, TypeStep, PTL DEF Spec

----------------------------------------------------------------------------

USE DEF memory, disk

LEMMA IInvInit == Init => IInv
  <1> SUFFICES ASSUME Init PROVE IInv
    OBVIOUS
  <1>1. TypeOK
    <2>1. Idle \in Writer
      BY DEF Idle, Writer, Stages
    <2> QED
      BY <2>1 DEF Init, TypeOK
  <1>2. EvictedAreArchived /\ FileIsCovered /\ CountIsCovered
    BY DEF Init, Idle, EvictedAreArchived, FileIsCovered, CountIsCovered
  <1> QED
    BY <1>1, <1>2 DEF Init, IInv, AtRest, AckedDurable

\* The invariant is kept by every step, when failed appends leave whole lines.
LEMMA IInvStep ==
  ASSUME ~TornAppends, IInv, [Next]_vars
  PROVE  IInv'
  <1> USE DEF IInv
  <1>1. TypeOK'
    BY TypeStep
  <1>2. CASE Append
    <2>1. appended' = appended + 1 /\ entries' = entries \cup {base + appended + 1}
      BY <1>2 DEF Append
    <2>2. UNCHANGED <<proc, base, live, archive, torn, aside, file, acked>>
      BY <1>2 DEF Append
    <2>3. \/ writer.stage # "idle" /\ writer' = writer
          \/ writer.stage = "idle" /\ writer' = BeginWrite(entries')
      BY <1>2 DEF Append
    <2>4. AtRest'
      BY <1>2, <2>2 DEF Append, AtRest
    <2>5. \A n \in 1..appended' : base + n \in entries' \cup archive'
      BY <2>1, <2>2 DEF EvictedAreArchived, TypeOK
    <2>6. entries' \subseteq Entry
      BY <1>1 DEF TypeOK
    <2>7. EvictedAreArchived' /\ FileIsCovered'
      <3>1. CASE writer' = writer
        BY <2>1, <2>2, <2>5, <3>1 DEF EvictedAreArchived, FileIsCovered
      <3>2. CASE writer' = BeginWrite(entries')
        <4>1. /\ writer'.stage # "write"
              /\ writer'.stage = "serialise" => writer'.leaving = {}
          BY <2>6, <3>2, BeginWriteFacts
        <4> QED
          BY <2>1, <2>2, <2>5, <4>1 DEF EvictedAreArchived, FileIsCovered
      <3> QED
        BY <2>3, <3>1, <3>2
    <2>8. CountIsCovered'
      <3>1. writer.covers \in Nat /\ appended \in Nat
        BY DEF TypeOK, Writer
      <3>2. CASE writer' = writer
        BY <2>1, <2>2, <3>1, <3>2 DEF CountIsCovered, OnDisk
      <3>3. CASE writer' = BeginWrite(entries')
        <4>1. writer'.stage \notin {"write", "renamed"} /\ writer'.covers = 0
          BY <2>6, <3>3, BeginWriteFacts
        <4> QED
          BY <2>1, <3>1, <4>1 DEF CountIsCovered
      <3> QED
        BY <2>3, <3>2, <3>3
    <2> QED
      BY <1>1, <2>2, <2>4, <2>7, <2>8 DEF AckedDurable, OnDisk
  <1>3. CASE Flush
    <2>1. UNCHANGED <<proc, entries, base, appended, live, archive, torn, aside, file, acked>>
      BY <1>3 DEF Flush
    <2>2. \/ writer.stage # "idle" /\ writer' = writer
          \/ writer.stage = "idle" /\ writer' = BeginWrite(entries)
      BY <1>3 DEF Flush
    <2>3. AtRest'
      BY <1>3, <2>1 DEF Flush, AtRest
    <2>4. entries \subseteq Entry
      BY DEF TypeOK
    <2>5. EvictedAreArchived' /\ FileIsCovered'
      BY <2>1, <2>2, <2>4, BeginWriteFacts DEF EvictedAreArchived, FileIsCovered
    <2>6. CountIsCovered'
      BY <2>1, <2>2, <2>4, BeginWriteFacts DEF CountIsCovered, OnDisk, TypeOK
    <2> QED
      BY <1>1, <2>1, <2>3, <2>5, <2>6 DEF AckedDurable, OnDisk
  <1>4. CASE ArchiveWritten
    <2>1. archive' = archive \cup writer.leaving /\ ~torn'
      BY <1>4 DEF ArchiveWritten, Readable
    <2>2. writer' = [writer EXCEPT !.stage = "serialise"] /\ writer.stage = "archive"
      BY <1>4 DEF ArchiveWritten
    <2>3. /\ writer'.stage = "serialise" /\ writer'.leaving = writer.leaving
          /\ writer'.covers = writer.covers
      BY <2>2 DEF TypeOK, Writer
    <2>4. UNCHANGED <<proc, entries, base, appended, live, aside, file, acked, awaiting>>
          /\ proc = "running"
      BY <1>4 DEF ArchiveWritten
    <2> QED
      BY <1>1, <2>1, <2>3, <2>4
      DEF AtRest, EvictedAreArchived, FileIsCovered, CountIsCovered, AckedDurable, OnDisk
  <1>5. CASE ArchiveFailed
    <2>1. archive \subseteq archive' /\ ~torn'
      BY <1>5, PartialAppendFacts DEF ArchiveFailed, TypeOK, Writer
    <2>2. writer' = [writer EXCEPT !.stage = "serialise", !.leaving = {}]
          /\ writer.stage = "archive"
      BY <1>5 DEF ArchiveFailed
    <2>3. /\ writer'.stage = "serialise" /\ writer'.leaving = {}
          /\ writer'.covers = writer.covers
      BY <2>2 DEF TypeOK, Writer
    <2>4. UNCHANGED <<proc, entries, base, appended, live, aside, file, acked, awaiting>>
          /\ proc = "running"
      BY <1>5 DEF ArchiveFailed
    <2> QED
      BY <1>1, <2>1, <2>3, <2>4
      DEF AtRest, EvictedAreArchived, FileIsCovered, CountIsCovered, AckedDurable, OnDisk
  <1>6. CASE Serialise
    <2>1. entries' = entries \ writer.leaving /\ writer.leaving \subseteq archive
      BY <1>6 DEF Serialise, EvictedAreArchived
    <2>2. /\ writer'.stage = "write" /\ writer'.leaving = {}
          /\ writer'.covers = appended /\ writer'.bytes = entries'
      BY <1>6 DEF Serialise
    <2>3. UNCHANGED <<proc, base, appended, live, archive, torn, aside, file, acked, awaiting>>
          /\ proc = "running"
      BY <1>6 DEF Serialise
    <2>4. AtRest' /\ EvictedAreArchived' /\ FileIsCovered'
      BY <2>1, <2>2, <2>3 DEF AtRest, EvictedAreArchived, FileIsCovered
    <2>5. CountIsCovered'
      BY <2>1, <2>2, <2>3 DEF CountIsCovered, EvictedAreArchived, TypeOK
    <2> QED
      BY <1>1, <2>3, <2>4, <2>5 DEF AckedDurable, OnDisk
  <1>7. CASE Rename
    <2>1. /\ live' = writer.bytes /\ file' = "readable" /\ writer.stage = "write"
          /\ proc = "running"
          /\ UNCHANGED <<proc, entries, base, appended, archive, torn, aside, acked, awaiting>>
      BY <1>7 DEF Rename
    <2>2. writer'.stage = "renamed" /\ writer'.covers = writer.covers
      BY <1>7 DEF Rename, TypeOK, Writer
    <2>3. OnDisk \subseteq OnDisk'
      BY <2>1 DEF FileIsCovered, OnDisk
    <2>4. CountIsCovered'
      BY <2>1, <2>2 DEF CountIsCovered, OnDisk
    <2> QED
      BY <1>1, <2>1, <2>2, <2>3, <2>4
      DEF AtRest, EvictedAreArchived, FileIsCovered, AckedDurable
  <1>8. CASE WriteDone
    <2>1. /\ writer.stage = "renamed" /\ proc = "running"
          /\ UNCHANGED <<proc, entries, base, appended, live, archive, torn, aside, file>>
      BY <1>8 DEF WriteDone
    <2>2. \/ writer' = Idle
          \/ writer' = BeginWrite(entries)
      BY <1>8 DEF WriteDone
    <2>3. acked' \subseteq OnDisk
      <3>1. \A w \in awaiting : w.target <= writer.covers => base + w.target \in OnDisk
        <4>1. \A w \in awaiting : w.target \in Nat \ {0}
          BY DEF TypeOK, Waiter, Entry
        <4>2. writer.covers \in Nat
          BY DEF TypeOK, Writer
        <4> QED
          BY <2>1, <4>1, <4>2 DEF CountIsCovered
      <3> QED
        BY <1>8, <3>1 DEF WriteDone, AckedDurable
    <2>4. entries \subseteq Entry
      BY DEF TypeOK
    <2>5. EvictedAreArchived' /\ FileIsCovered' /\ AtRest'
      BY <2>1, <2>2, <2>4, BeginWriteFacts
      DEF EvictedAreArchived, FileIsCovered, AtRest, Idle
    <2>6. CountIsCovered'
      BY <2>1, <2>2, <2>4, BeginWriteFacts DEF CountIsCovered, Idle, TypeOK
    <2> QED
      BY <1>1, <2>1, <2>3, <2>5, <2>6 DEF AckedDurable, OnDisk
  <1>9. CASE WriteFailed
    BY <1>1, <1>9
    DEF WriteFailed, Idle, AtRest, EvictedAreArchived, FileIsCovered,
        CountIsCovered, AckedDurable, OnDisk, TypeOK
  <1>10. CASE Crash
    <2>1. archive \subseteq archive' /\ ~torn'
      BY <1>10, PartialAppendFacts DEF Crash, TypeOK, Writer
    <2> QED
      BY <1>1, <1>10, <2>1
      DEF Crash, Idle, AtRest, EvictedAreArchived, FileIsCovered,
          CountIsCovered, AckedDurable, OnDisk, TypeOK
  <1>11. CASE Damage
    BY <1>1, <1>11
    DEF Damage, AtRest, EvictedAreArchived, FileIsCovered, CountIsCovered,
        AckedDurable, OnDisk
  <1>12. CASE Startup
    <2>1. CASE LoadFile
      BY <1>1, <2>1
      DEF LoadFile, AtRest, Idle, EvictedAreArchived, FileIsCovered,
          CountIsCovered, AckedDurable, OnDisk, TypeOK
    <2>2. CASE NoFile
      BY <1>1, <2>2
      DEF NoFile, AtRest, Idle, EvictedAreArchived, FileIsCovered,
          CountIsCovered, AckedDurable, OnDisk
    <2>3. CASE SetAside
      BY <1>1, <2>3
      DEF SetAside, AtRest, Idle, EvictedAreArchived, FileIsCovered,
          CountIsCovered, AckedDurable, OnDisk, TypeOK
    <2>4. CASE WriteFresh
      BY <1>1, <2>4
      DEF WriteFresh, AtRest, Idle, EvictedAreArchived, FileIsCovered,
          CountIsCovered, AckedDurable, OnDisk, TypeOK
    <2> QED
      BY <1>12, <2>1, <2>2, <2>3, <2>4 DEF Startup
  <1>13. CASE StartFailed
    BY <1>1, <1>13
    DEF StartFailed, AtRest, Idle, EvictedAreArchived, FileIsCovered,
        CountIsCovered, AckedDurable, OnDisk
  <1>14. CASE UNCHANGED vars
    BY <1>1, <1>14
    DEF vars, AtRest, EvictedAreArchived, FileIsCovered, CountIsCovered,
        AckedDurable, OnDisk
  <1> QED
    BY <1>2, <1>3, <1>4, <1>5, <1>6, <1>7, <1>8, <1>9, <1>10, <1>11, <1>12,
       <1>13, <1>14 DEF Next, Io

\* No step takes an entry off the disk.
LEMMA DiskGrows ==
  ASSUME IInv, [Next]_vars PROVE OnDisk \subseteq OnDisk'
  <1> USE DEF OnDisk
  <1>1. CASE Append \/ Flush
    BY <1>1 DEF Append, Flush
  <1>2. CASE ArchiveWritten
    BY <1>2 DEF ArchiveWritten
  <1>3. CASE ArchiveFailed
    BY <1>3, PartialAppendFacts DEF ArchiveFailed, IInv, TypeOK, Writer
  <1>4. CASE Serialise \/ WriteDone \/ WriteFailed
    BY <1>4 DEF Serialise, WriteDone, WriteFailed
  <1>5. CASE Rename
    BY <1>5 DEF Rename, IInv, FileIsCovered
  <1>6. CASE Crash
    BY <1>6, PartialAppendFacts DEF Crash, IInv, TypeOK, Writer
  <1>7. CASE Damage \/ StartFailed \/ UNCHANGED vars
    BY <1>7 DEF Damage, StartFailed, vars
  <1>8. CASE Startup
    BY <1>8 DEF Startup, LoadFile, NoFile, SetAside, WriteFresh, IInv, AtRest
  <1> QED
    BY <1>1, <1>2, <1>3, <1>4, <1>5, <1>6, <1>7, <1>8 DEF Next, Io

----------------------------------------------------------------------------
(* The results.                                                             *)

\* What append() reported as written is on disk ever after (guarantee 3 of
\* audit-store.ts), when a failed appendFile leaves whole lines.
THEOREM AckedIsDurable ==
  ASSUME ~TornAppends PROVE Spec => []AckedDurable
  <1>1. IInv /\ [Next]_vars => IInv'
    BY IInvStep
  <1>2. IInv => AckedDurable
    BY DEF IInv
  <1> QED
    BY IInvInit, <1>1, <1>2, PTL DEF Spec

\* No step takes an entry off the disk (guarantee 1 of audit-store.ts), when a
\* failed appendFile leaves whole lines.
THEOREM NothingIsDeleted ==
  ASSUME ~TornAppends PROVE Spec => NothingDeleted
  <1>1. IInv /\ [Next]_vars => IInv'
    BY IInvStep
  <1>2. IInv /\ [Next]_vars => [OnDisk \subseteq OnDisk']_vars
    BY DiskGrows
  <1> QED
    BY IInvInit, <1>1, <1>2, PTL DEF Spec, NothingDeleted

\* A caller suspended in writeThrough() always has a write in flight that will
\* resume it, whatever fails and whatever appends leave behind.
THEOREM NoLostWakeup == Spec => []WaitersHaveAWrite
  <1>1. Init => WaitersHaveAWrite
    BY DEF Init, WaitersHaveAWrite
  <1>2. TypeOK /\ WaitersHaveAWrite /\ [Next]_vars => WaitersHaveAWrite'
    <2> SUFFICES ASSUME TypeOK, WaitersHaveAWrite, [Next]_vars
                 PROVE  WaitersHaveAWrite'
      OBVIOUS
    <2> USE DEF WaitersHaveAWrite
    <2>1. entries \subseteq Entry /\ TypeOK'
      BY TypeStep DEF TypeOK
    <2>2. CASE Append
      <3>1. entries' \subseteq Entry
        BY <2>1 DEF TypeOK
      <3> QED
        BY <2>2, <3>1, BeginWriteFacts DEF Append
    <2>3. CASE Flush
      BY <2>1, <2>3, BeginWriteFacts DEF Flush
    <2>4. CASE Io \/ ArchiveFailed
      <3>1. CASE ArchiveWritten \/ ArchiveFailed \/ Serialise \/ Rename
        <4>1. writer'.stage # "idle"
          <5>1. CASE ArchiveWritten
            BY <5>1 DEF ArchiveWritten, TypeOK, Writer
          <5>2. CASE ArchiveFailed
            BY <5>2 DEF ArchiveFailed, TypeOK, Writer
          <5>3. CASE Serialise
            BY <5>3 DEF Serialise
          <5>4. CASE Rename
            BY <5>4 DEF Rename, TypeOK, Writer
          <5> QED
            BY <3>1, <5>1, <5>2, <5>3, <5>4
        <4> QED
          BY <4>1
      <3>2. CASE WriteDone
        BY <2>1, <3>2, BeginWriteFacts DEF WriteDone
      <3> QED
        BY <2>4, <3>1, <3>2 DEF Io
    <2>5. CASE WriteFailed \/ Crash
      BY <2>5 DEF WriteFailed, Crash
    <2>6. CASE Damage \/ Startup \/ StartFailed
      BY <2>6 DEF Damage, Startup, LoadFile, NoFile, SetAside, WriteFresh, StartFailed
    <2>7. CASE UNCHANGED vars
      BY <2>7 DEF vars
    <2> QED
      BY <2>2, <2>3, <2>4, <2>5, <2>6, <2>7 DEF Next
  <1> QED
    BY TypeCorrect, <1>1, <1>2, PTL DEF Spec

----------------------------------------------------------------------------
(* Memory and the file.                                                     *)

\* Every step keeps the agreement, whatever appends leave in the archive.
LEMMA AgreementStep ==
  ASSUME TypeOK, WaitersHaveAWrite, Agreement, [Next]_vars
  PROVE  Agreement'
  <1> USE DEF Agreement
  <1>1. /\ appended \in Nat /\ written \in Nat /\ entries \subseteq Entry
        /\ writer \in Writer /\ awaiting \subseteq Waiter
    BY DEF TypeOK
  <1>2. TypeOK'
    BY TypeStep
  <1>3. CASE Append
    <2>1. /\ appended' = appended + 1
          /\ awaiting' = awaiting \cup {[kind |-> "append", target |-> appended + 1]}
          /\ proc = "running" /\ UNCHANGED <<proc, written, file, live>>
      BY <1>3 DEF Append
    <2>2. written' <= appended' /\ written' < appended'
          /\ \A w \in awaiting' : w.target <= appended'
      BY <1>1, <2>1 DEF Waiter, Entry
    <2>3. CASE writer' = writer
      BY <1>1, <2>1, <2>2, <2>3 DEF Writer
    <2>4. CASE writer' = BeginWrite(entries')
      <3>1. writer'.covers = 0 /\ writer'.stage \notin {"write", "renamed"}
        BY <1>2, <2>4, BeginWriteFacts DEF TypeOK
      <3> QED
        BY <1>1, <2>1, <2>2, <3>1
    <2> QED
      BY <1>3, <2>3, <2>4 DEF Append
  <1>4. CASE Flush
    <2>1. /\ awaiting' = awaiting \cup {[kind |-> "flush", target |-> appended]}
          /\ proc = "running" /\ written < appended
          /\ UNCHANGED <<proc, entries, appended, written, file, live>>
      BY <1>4 DEF Flush
    <2>2. \A w \in awaiting' : w.target <= appended'
      BY <1>1, <2>1
    <2>3. CASE writer' = writer
      BY <1>1, <2>1, <2>2, <2>3
    <2>4. CASE writer' = BeginWrite(entries)
      <3>1. writer'.covers = 0 /\ writer'.stage \notin {"write", "renamed"}
        BY <1>1, <2>4, BeginWriteFacts
      <3> QED
        BY <1>1, <2>1, <2>2, <3>1
    <2> QED
      BY <1>4, <2>3, <2>4 DEF Flush
  <1>5. CASE ArchiveWritten \/ ArchiveFailed
    <2>1. /\ writer'.stage = "serialise" /\ writer'.covers = writer.covers
          /\ writer.stage = "archive"
      BY <1>1, <1>5 DEF ArchiveWritten, ArchiveFailed, Writer
    <2>2. UNCHANGED <<proc, entries, appended, written, awaiting, file, live>>
          /\ proc = "running"
      BY <1>5 DEF ArchiveWritten, ArchiveFailed
    <2> QED
      BY <2>1, <2>2
  <1>6. CASE Serialise
    BY <1>1, <1>6 DEF Serialise
  <1>7. CASE Rename
    <2>1. /\ writer'.stage = "renamed" /\ writer'.covers = writer.covers
          /\ writer'.bytes = writer.bytes /\ writer.stage = "write"
      BY <1>1, <1>7 DEF Rename, Writer
    <2> QED
      BY <1>7, <2>1 DEF Rename
  <1>8. CASE WriteDone
    <2>1. /\ written' = writer.covers /\ writer.stage = "renamed"
          /\ awaiting' = awaiting \ {w \in awaiting : w.target <= writer.covers}
          /\ proc = "running" /\ UNCHANGED <<proc, entries, appended, file, live>>
      BY <1>8 DEF WriteDone
    <2>2. written' <= appended' /\ \A w \in awaiting' : w.target <= appended'
      BY <2>1
    <2>3. CASE awaiting' = {}
      <3>1. writer' = Idle
        BY <1>8, <2>3 DEF WriteDone
      <3> QED
        BY <1>1, <2>1, <2>2, <3>1 DEF Idle
    <2>4. CASE awaiting' # {}
      <3>1. writer' = BeginWrite(entries)
        BY <1>8, <2>4 DEF WriteDone
      <3>2. writer'.covers = 0 /\ writer'.stage \notin {"write", "renamed"}
        BY <1>1, <3>1, BeginWriteFacts
      <3>3. PICK w \in awaiting : ~(w.target <= writer.covers)
        BY <2>1, <2>4
      <3>4. written' < appended'
        BY <1>1, <2>1, <3>3 DEF Waiter, Entry, Writer
      <3> QED
        BY <1>1, <2>1, <2>2, <3>2, <3>4
    <2> QED
      BY <2>3, <2>4
  <1>9. CASE WriteFailed \/ Crash
    BY <1>1, <1>9 DEF WriteFailed, Crash, Idle
  <1>10. CASE Damage \/ Startup \/ StartFailed
    BY <1>1, <1>10 DEF Damage, Startup, LoadFile, NoFile, SetAside, WriteFresh,
                       StartFailed, Idle
  <1>11. CASE UNCHANGED vars
    BY <1>11 DEF vars
  <1> QED
    BY <1>3, <1>4, <1>5, <1>6, <1>7, <1>8, <1>9, <1>10, <1>11 DEF Next, Io

\* When no write is pending and the file can be read, the live file is the
\* window: query() answers from memory what a restart would load, whatever
\* failed before and whatever appends leave in the archive.  The agreement
\* is needed because entries that arrive during a write make its bytes stale.
THEOREM SettledFileIsWindow == Spec => []SettledIsDurable
  <1>1. Init => Agreement
    BY DEF Init, Agreement, Idle
  <1>2. TypeOK /\ WaitersHaveAWrite /\ Agreement /\ [Next]_vars => Agreement'
    BY AgreementStep
  <1>3. Init => SettledIsDurable
    BY DEF Init, SettledIsDurable
  <1>4. TypeOK /\ Agreement /\ SettledIsDurable /\ [Next]_vars => SettledIsDurable'
    <2> SUFFICES ASSUME TypeOK, Agreement, SettledIsDurable, [Next]_vars
                 PROVE  SettledIsDurable'
      OBVIOUS
    <2> USE DEF SettledIsDurable
    <2>1. /\ appended \in Nat /\ written \in Nat /\ entries \subseteq Entry
          /\ writer \in Writer
      BY DEF TypeOK
    <2>2. CASE Append
      BY <2>1, <2>2 DEF Append, Agreement
    <2>3. CASE Flush
      BY <2>3 DEF Flush
    <2>4. CASE ArchiveWritten \/ ArchiveFailed \/ Serialise \/ Rename
      <3>1. written' < appended'
        BY <2>4 DEF ArchiveWritten, ArchiveFailed, Serialise, Rename, Agreement
      <3> QED
        BY <2>1, <2>4, <3>1 DEF ArchiveWritten, ArchiveFailed, Serialise, Rename
    <2>5. CASE WriteDone
      BY <2>5 DEF WriteDone, Agreement
    <2>6. CASE WriteFailed
      <3>1. written' < appended'
        BY <2>6 DEF WriteFailed, Agreement
      <3> QED
        BY <2>1, <2>6, <3>1 DEF WriteFailed
    <2>7. CASE Crash
      BY <2>7 DEF Crash
    <2>8. CASE Damage \/ Startup \/ StartFailed
      BY <2>8 DEF Damage, Startup, LoadFile, NoFile, SetAside, WriteFresh,
                  StartFailed, Agreement
    <2>9. CASE UNCHANGED vars
      BY <2>9 DEF vars
    <2> QED
      BY <2>2, <2>3, <2>4, <2>5, <2>6, <2>7, <2>8, <2>9 DEF Next, Io
  <1> QED
    BY TypeCorrect, NoLostWakeup, <1>1, <1>2, <1>3, <1>4, PTL DEF Spec

----------------------------------------------------------------------------
(* The durable log.                                                         *)

\* Whatever is older than one of the k oldest is one of them.
LEMMA OldestIsPrefix ==
  ASSUME NEW S, S \subseteq Nat, IsFiniteSet(S), NEW k \in Int,
         NEW e \in Oldest(S, k), NEW d \in S, d < e
  PROVE  d \in Oldest(S, k)
  <1> DEFINE Before(x) == {c \in S : c < x}
  <1>1. e \in S /\ Cardinality(Before(e)) < k
    BY DEF Oldest
  <1>2. Before(d) \subseteq Before(e)
    <2>1. d \in Nat /\ e \in Nat /\ \A c \in S : c \in Nat
      BY <1>1
    <2>2. \A c \in S : c < d => c < e
      BY <2>1
    <2> QED
      BY <2>2
  <1>3. IsFiniteSet(Before(e)) /\ IsFiniteSet(Before(d))
    BY FS_Subset
  <1> HIDE DEF Before
  <1>4. /\ Cardinality(Before(d)) \in Nat /\ Cardinality(Before(e)) \in Nat
        /\ Cardinality(Before(d)) <= Cardinality(Before(e))
    BY <1>2, <1>3, FS_Subset, FS_CardinalityType
  <1>5. Cardinality(Before(d)) < k
    BY <1>1, <1>4
  <1> QED
    BY <1>5 DEF Oldest, Before

\* A set of entry numbers below a bound is finite.
LEMMA BoundedIsFinite ==
  ASSUME NEW n \in Nat, NEW S, S \subseteq 1..n
  PROVE  IsFiniteSet(S) /\ S \subseteq Nat /\ Cardinality(S) \in Nat
  <1>1. IsFiniteSet(1..n)
    BY FS_Interval
  <1>2. IsFiniteSet(S)
    BY <1>1, FS_Subset
  <1>3. Cardinality(S) \in Nat
    BY <1>2, FS_CardinalityType
  <1> QED
    BY <1>2, <1>3

\* What a new write moves out of the window is its oldest part.
LEMMA BeginWriteIsOrdered ==
  ASSUME NEW n \in Nat, NEW S, S \subseteq 1..n
  PROVE  /\ BeginWrite(S).leaving \subseteq S
         /\ \A e \in BeginWrite(S).leaving, d \in S :
               d < e => d \in BeginWrite(S).leaving
  <1>1. BeginWrite(S).leaving = Oldest(S, Cardinality(S) - MaxEntries)
    BY DEF BeginWrite
  <1> DEFINE k == Cardinality(S) - MaxEntries
  <1>2. S \subseteq Nat /\ IsFiniteSet(S) /\ Cardinality(S) \in Nat
    BY BoundedIsFinite
  <1>3. k \in Int
    BY <1>2, MaxEntriesAssumption
  <1> HIDE DEF k
  <1>4. ASSUME NEW e \in Oldest(S, k), NEW d \in S, d < e
        PROVE  d \in Oldest(S, k)
    BY <1>2, <1>3, <1>4, OldestIsPrefix
  <1> QED
    BY <1>1, <1>4, OldestSubset DEF k

\* What a cut-short append adds to the archive is an oldest part of its lines.
LEMMA PartialAppendIsPrefix ==
  ASSUME ~torn, NEW n \in Nat, NEW lines, lines \subseteq 1..n, PartialAppend(lines)
  PROVE  \E S \in SUBSET lines :
            /\ archive' = archive \cup S
            /\ \A e \in S, d \in lines : d < e => d \in S
  <1>1. PICK k \in 0..(Cardinality(lines) - 1) :
           archive' = archive \cup Readable(Oldest(lines, k))
    BY DEF PartialAppend
  <1>2. archive' = archive \cup Oldest(lines, k)
    BY <1>1 DEF Readable
  <1>3. k \in Int
    BY <1>1, BoundedIsFinite
  <1>4. \A e \in Oldest(lines, k), d \in lines : d < e => d \in Oldest(lines, k)
    BY <1>3, BoundedIsFinite, OldestIsPrefix
  <1> QED
    BY <1>2, <1>4, OldestSubset

\* Every step keeps the entries in the order of their ages.
LEMMA OrderedStep ==
  ASSUME ~TornAppends, IInv, IInv', Ordered, OnDisk \subseteq OnDisk', [Next]_vars
  PROVE  Ordered'
  <1> USE DEF Ordered
  <1>1. /\ appended \in Nat /\ base \in Nat /\ entries \subseteq Entry
        /\ writer \in Writer /\ base + appended \in Nat /\ ~torn
    BY DEF IInv, TypeOK
  <1>2. CASE Append
    <2>1. /\ appended' = appended + 1 /\ entries' = entries \cup {base + appended + 1}
          /\ base' = base /\ OnDisk' = OnDisk
      BY <1>2 DEF Append, OnDisk
    <2>2. entries' \cup OnDisk' \subseteq 1..(base + appended')
      BY <1>1, <2>1
    <2>3. \A e \in entries' : e <= base => e \in OnDisk'
      BY <1>1, <2>1
    <2>4. CASE writer' = writer
      <3>1. \A e \in writer.leaving : writer.leaving \subseteq entries =>
               ~(base + appended + 1 < e)
        BY <1>1
      <3> QED
        BY <2>1, <2>2, <2>3, <2>4, <3>1
    <2>5. CASE writer' = BeginWrite(entries')
      <3>1. writer'.stage # "write"
        BY <2>2, <2>5, BeginWriteFacts DEF IInv, TypeOK
      <3>2. base + appended' \in Nat /\ entries' \subseteq 1..(base + appended')
        BY <1>1, <2>1, <2>2
      <3>3. /\ writer'.leaving \subseteq entries'
            /\ \A e \in writer'.leaving, d \in entries' : d < e => d \in writer'.leaving
        BY <2>5, <3>2, BeginWriteIsOrdered
      <3> QED
        BY <2>1, <2>2, <2>3, <3>1, <3>3
    <2> QED
      BY <1>2, <2>4, <2>5 DEF Append
  <1>3. CASE Flush
    <2>1. UNCHANGED <<appended, entries, base, OnDisk>>
      BY <1>3 DEF Flush, OnDisk
    <2>2. CASE writer' = writer
      BY <2>1, <2>2
    <2>3. CASE writer' = BeginWrite(entries)
      <3>1. writer'.stage # "write"
        BY <1>1, <2>3, BeginWriteFacts
      <3> QED
        BY <1>1, <2>1, <2>3, <3>1, BeginWriteIsOrdered
    <2> QED
      BY <1>3, <2>2, <2>3 DEF Flush
  <1>4. CASE ArchiveWritten
    <2>1. /\ writer'.stage = "serialise" /\ writer'.leaving = writer.leaving
          /\ writer.stage = "archive" /\ UNCHANGED <<appended, entries, base>>
      BY <1>1, <1>4 DEF ArchiveWritten, Writer
    <2>2. OnDisk' = OnDisk \cup writer.leaving
      BY <1>1, <1>4 DEF ArchiveWritten, Readable, OnDisk
    <2> QED
      BY <2>1, <2>2
  <1>5. CASE ArchiveFailed
    <2>1. /\ writer'.stage = "serialise" /\ writer'.leaving = {}
          /\ writer.stage = "archive" /\ UNCHANGED <<appended, entries, base>>
      BY <1>1, <1>5 DEF ArchiveFailed, Writer
    <2>2. OnDisk' \subseteq OnDisk \cup writer.leaving
      <3>1. writer.leaving \subseteq 1..(base + appended)
        BY <2>1
      <3> QED
        BY <1>1, <1>5, <3>1, PartialAppendIsPrefix DEF ArchiveFailed, OnDisk
    <2> QED
      BY <2>1, <2>2
  <1>6. CASE Serialise
    BY <1>1, <1>6 DEF Serialise, OnDisk
  <1>7. CASE Rename
    <2>1. /\ writer'.stage = "renamed" /\ writer.stage = "write"
          /\ UNCHANGED <<appended, entries, base, archive, aside>>
          /\ live' = writer.bytes
      BY <1>1, <1>7 DEF Rename, Writer
    <2>2. writer.bytes \subseteq entries
      BY <2>1 DEF IInv, FileIsCovered
    <2> QED
      BY <2>1, <2>2 DEF OnDisk
  <1>8. CASE WriteDone
    <2>1. UNCHANGED <<appended, entries, base, OnDisk>>
      BY <1>8 DEF WriteDone, OnDisk
    <2>2. CASE writer' = Idle
      BY <2>1, <2>2 DEF Idle
    <2>3. CASE writer' = BeginWrite(entries)
      <3>1. writer'.stage # "write"
        BY <1>1, <2>3, BeginWriteFacts
      <3> QED
        BY <1>1, <2>1, <2>3, <3>1, BeginWriteIsOrdered
    <2> QED
      BY <1>8, <2>2, <2>3 DEF WriteDone
  <1>9. CASE WriteFailed
    BY <1>9 DEF WriteFailed, Idle, OnDisk
  <1>10. CASE Crash
    <2>1. /\ entries' = {} /\ writer' = Idle /\ base' = base + appended
          /\ appended' = 0 /\ UNCHANGED <<live, aside>>
      BY <1>10 DEF Crash
    <2>2. OnDisk' \subseteq 1..(base + appended)
      <3>1. CASE archive' = archive
        BY <2>1, <3>1 DEF OnDisk
      <3>2. CASE writer.stage = "archive" /\ PartialAppend(writer.leaving)
        <4>1. writer.leaving \subseteq 1..(base + appended)
          BY <3>2
        <4> QED
          BY <1>1, <2>1, <3>2, <4>1, PartialAppendIsPrefix DEF OnDisk
      <3> QED
        BY <1>10, <3>1, <3>2 DEF Crash
    <2>3. base' + appended' = base + appended
      BY <1>1, <2>1
    <2> QED
      BY <2>1, <2>2, <2>3 DEF Idle
  <1>11. CASE Damage \/ NoFile \/ StartFailed \/ UNCHANGED vars
    BY <1>11 DEF Damage, NoFile, StartFailed, OnDisk, vars
  <1>12. CASE LoadFile
    BY <1>12 DEF LoadFile, IInv, AtRest, Idle, OnDisk
  <1>13. CASE SetAside \/ WriteFresh
    <2>1. OnDisk' = OnDisk /\ UNCHANGED <<entries, base, appended, writer>>
      BY <1>13 DEF SetAside, WriteFresh, IInv, AtRest, OnDisk
    <2> QED
      BY <2>1
  <1> QED
    BY <1>2, <1>3, <1>4, <1>5, <1>6, <1>7, <1>8, <1>9, <1>10, <1>11, <1>12,
       <1>13 DEF Next, Io, Startup

\* What the log holds as pending is in the window, and what is in the window is
\* on disk already or pending.
LEMMA PendingIsInWindow ==
  ASSUME IInv, Ordered
  PROVE  /\ Accepted \ OnDisk \subseteq entries
         /\ entries \subseteq OnDisk \cup Accepted
  <1>1. base \in Nat /\ appended \in Nat
    BY DEF IInv, TypeOK
  <1>2. ASSUME NEW e \in Accepted PROVE e \in entries \cup archive
    <2>1. e - base \in 1..appended /\ base + (e - base) = e
      BY <1>1, <1>2 DEF Accepted
    <2> QED
      BY <2>1 DEF IInv, EvictedAreArchived
  <1>3. ASSUME NEW e \in entries PROVE e \in OnDisk \cup Accepted
    BY <1>1, <1>3 DEF Ordered, Accepted
  <1> QED
    BY <1>2, <1>3 DEF OnDisk

\* A step that adds to the disk entries of the window, and with each of them
\* every older one still pending, is a commit of the log.
LEMMA CommitsPrefix ==
  ASSUME IInv, Ordered, NEW S, S \subseteq entries,
         \A e \in S, d \in Accepted \ OnDisk : d < e => d \in S,
         OnDisk' = OnDisk \cup S, UNCHANGED <<base, appended, acked>>
  PROVE  Log!Next
  <1> DEFINE T == S \cap (Accepted \ OnDisk)
  <1>1. T \in SUBSET (Accepted \ OnDisk) /\ Log!Prefix(T)
    BY DEF Log!Prefix
  <1>2. OnDisk' = OnDisk \cup T /\ Accepted' = Accepted
    BY PendingIsInWindow DEF Accepted
  <1>3. Accepted' \ OnDisk' = (Accepted \ OnDisk) \ T
    BY <1>2
  <1>4. Log!Commit(T)
    BY <1>1, <1>2, <1>3 DEF Log!Commit
  <1> QED
    BY <1>1, <1>4 DEF Log!Next

\* Every step of the store is a step of the log, or one the log does not see.
LEMMA LogStep ==
  ASSUME ~TornAppends, IInv, IInv', Ordered, [Next]_vars
  PROVE  [Log!Next]_(Log!vars)
  <1>1. /\ appended \in Nat /\ base \in Nat /\ entries \subseteq Entry
        /\ writer \in Writer /\ base + appended \in Nat /\ ~torn
    BY DEF IInv, TypeOK
  <1>2. Accepted \ OnDisk \subseteq entries
    BY PendingIsInWindow
  <1>3. CASE Append
    <2> DEFINE e == base + appended + 1
    <2>1. UNCHANGED <<base, OnDisk, acked>> /\ appended' = appended + 1
      BY <1>3 DEF Append, OnDisk
    <2>2. Accepted' = Accepted \cup {e}
      BY <1>1, <2>1 DEF Accepted
    <2>3. e \in 1..MaxAppends
      BY <1>1, <1>3, BoundsAssumption DEF Append
    <2>4. \A d \in Accepted \cup OnDisk : d < e
      BY <1>1 DEF Ordered, Accepted
    <2>5. e \notin OnDisk
      BY <1>1 DEF Ordered
    <2>6. Accepted' \ OnDisk' = (Accepted \ OnDisk) \cup {e}
      BY <2>1, <2>2, <2>5
    <2> HIDE DEF e
    <2>7. Log!Accept(e)
      BY <2>1, <2>4, <2>6 DEF Log!Accept
    <2> QED
      BY <2>3, <2>7 DEF Log!Next
  <1>4. CASE ArchiveWritten
    <2>1. /\ writer.stage = "archive" /\ UNCHANGED <<base, appended, acked>>
          /\ OnDisk' = OnDisk \cup writer.leaving
      BY <1>1, <1>4 DEF ArchiveWritten, Readable, OnDisk
    <2>2. \A e \in writer.leaving, d \in Accepted \ OnDisk :
             d < e => d \in writer.leaving
      BY <1>2, <2>1 DEF Ordered
    <2> QED
      BY <2>1, <2>2, CommitsPrefix DEF Ordered
  <1>5. CASE ArchiveFailed
    <2>1. /\ writer.stage = "archive" /\ UNCHANGED <<base, appended, acked>>
          /\ PartialAppend(writer.leaving) /\ UNCHANGED <<live, aside>>
      BY <1>5 DEF ArchiveFailed
    <2>2. writer.leaving \subseteq entries /\ writer.leaving \subseteq 1..(base + appended)
      BY <2>1 DEF Ordered
    <2>3. PICK S \in SUBSET writer.leaving :
             /\ archive' = archive \cup S
             /\ \A e \in S, d \in writer.leaving : d < e => d \in S
      BY <1>1, <2>1, <2>2, PartialAppendIsPrefix
    <2>4. OnDisk' = OnDisk \cup S
      BY <2>1, <2>3 DEF OnDisk
    <2>5. \A e \in S, d \in Accepted \ OnDisk : d < e => d \in S
      BY <1>2, <2>1, <2>3 DEF Ordered
    <2> QED
      BY <2>1, <2>2, <2>3, <2>4, <2>5, CommitsPrefix
  <1>6. CASE Rename
    <2>1. /\ writer.stage = "write" /\ live' = writer.bytes
          /\ UNCHANGED <<base, appended, acked, archive, aside>>
      BY <1>6 DEF Rename
    <2>2. writer.bytes \subseteq entries
      BY <2>1 DEF IInv, FileIsCovered
    <2>3. OnDisk' = OnDisk \cup writer.bytes
      BY <2>1, DiskGrows DEF OnDisk
    <2>4. ASSUME NEW e \in writer.bytes, NEW d \in Accepted \ OnDisk, d < e
          PROVE  d \in writer.bytes
      <3>1. d - base \in 1..writer.covers /\ base + (d - base) = d
        BY <1>1, <2>1, <2>4 DEF Ordered, Accepted, Writer
      <3> QED
        BY <2>1, <2>4, <3>1 DEF IInv, CountIsCovered, OnDisk
    <2> QED
      BY <2>1, <2>2, <2>3, <2>4, CommitsPrefix
  <1>7. CASE WriteDone
    <2>1. /\ UNCHANGED <<base, appended, OnDisk>>
          /\ acked' = acked \cup {base + w.target :
                w \in {v \in {u \in awaiting : u.target <= writer.covers} :
                          v.kind = "append"}}
      BY <1>7 DEF WriteDone, OnDisk
    <2>2. Accepted' = Accepted
      BY <2>1 DEF Accepted
    <2>3. acked \subseteq acked' /\ acked' \subseteq OnDisk
      BY <2>1 DEF IInv, AckedDurable
    <2>4. Log!Acknowledge(acked' \ acked)
      BY <2>1, <2>2, <2>3 DEF Log!Acknowledge
    <2> QED
      BY <2>3, <2>4 DEF Log!Next
  <1>8. CASE Crash
    <2>1. UNCHANGED <<acked, live, aside>>
      BY <1>8 DEF Crash
    <2>2. Accepted' = {}
      <3>1. base' \in Nat /\ appended' = 0
        BY <1>8 DEF Crash, IInv, TypeOK
      <3>2. \A b \in Nat : (b + 1)..(b + 0) = {}
        OBVIOUS
      <3> QED
        BY <3>1, <3>2 DEF Accepted
    <2>3. PICK S \in SUBSET entries :
             /\ OnDisk' = OnDisk \cup S
             /\ \A e \in S, d \in Accepted \ OnDisk : d < e => d \in S
      <3>1. CASE archive' = archive
        <4>1. OnDisk' = OnDisk \cup {}
          BY <2>1, <3>1 DEF OnDisk
        <4>2. \A e \in {}, d \in Accepted \ OnDisk : d < e => d \in {}
          OBVIOUS
        <4>3. {} \in SUBSET entries
          OBVIOUS
        <4> QED
          BY <4>1, <4>2, <4>3, ZenonT(20)
      <3>2. CASE writer.stage = "archive" /\ PartialAppend(writer.leaving)
        <4>1. writer.leaving \subseteq entries /\ writer.leaving \subseteq 1..(base + appended)
          BY <3>2 DEF Ordered
        <4>2. PICK S \in SUBSET writer.leaving :
                 /\ archive' = archive \cup S
                 /\ \A e \in S, d \in writer.leaving : d < e => d \in S
          BY <1>1, <3>2, <4>1, PartialAppendIsPrefix
        <4>3. OnDisk' = OnDisk \cup S
          BY <2>1, <4>2 DEF OnDisk
        <4>4. \A e \in S, d \in Accepted \ OnDisk : d < e => d \in S
          BY <1>2, <3>2, <4>2 DEF Ordered
        <4> QED
          BY <4>1, <4>2, <4>3, <4>4
      <3> QED
        BY <1>8, <3>1, <3>2 DEF Crash
    <2> DEFINE T == S \cap (Accepted \ OnDisk)
    <2>4. T \in SUBSET (Accepted \ OnDisk) /\ Log!Prefix(T)
      BY <2>3 DEF Log!Prefix
    <2>5. OnDisk' = OnDisk \cup T
      BY <2>3, PendingIsInWindow
    <2>6. Log!Crash(T)
      BY <2>1, <2>2, <2>4, <2>5 DEF Log!Crash
    <2> QED
      BY <2>4, <2>6 DEF Log!Next
  <1>9. CASE Flush \/ Serialise \/ WriteFailed \/ Damage \/ Startup \/ StartFailed
             \/ UNCHANGED vars
    <2>1. UNCHANGED <<base, appended, acked>>
      BY <1>9 DEF Flush, Serialise, WriteFailed, Damage, Startup, LoadFile, NoFile,
                  SetAside, WriteFresh, StartFailed, vars
    <2>2. OnDisk' = OnDisk
      <3>1. CASE Flush \/ Serialise \/ WriteFailed \/ Damage \/ StartFailed
                 \/ UNCHANGED vars
        BY <3>1 DEF Flush, Serialise, WriteFailed, Damage, StartFailed, vars, OnDisk
      <3>2. CASE Startup
        BY <3>2 DEF Startup, LoadFile, NoFile, SetAside, WriteFresh, IInv, AtRest, OnDisk
      <3> QED
        BY <1>9, <3>1, <3>2
    <2> QED
      BY <2>1, <2>2 DEF Accepted, Log!vars
  <1> QED
    BY <1>3, <1>4, <1>5, <1>6, <1>7, <1>8, <1>9 DEF Next, Io

\* The store implements the durable log, when a failed appendFile leaves whole
\* lines: what becomes durable is always the oldest part of what is not yet
\* (guarantees 1 to 3 of audit-store.ts, together with the order of entries).
THEOREM StoreImplementsDurableLog ==
  ASSUME ~TornAppends PROVE Spec => ImplementsDurableLog
  <1>1. Init => Log!Init
    <2> SUFFICES ASSUME Init PROVE Log!Init
      OBVIOUS
    <2>1. OnDisk = {} /\ acked = {} /\ Accepted = {}
      BY DEF Init, OnDisk, Accepted
    <2> QED
      BY <2>1 DEF Log!Init
  <1>2. Init => Ordered
    BY DEF Init, Ordered, Idle, OnDisk
  <1>3. IInv /\ [Next]_vars => IInv'
    BY IInvStep
  <1>4. IInv /\ IInv' /\ Ordered /\ [Next]_vars => Ordered'
    BY OrderedStep, DiskGrows
  <1>5. IInv /\ IInv' /\ Ordered /\ [Next]_vars => [Log!Next]_(Log!vars)
    BY LogStep
  <1> QED
    BY IInvInit, <1>1, <1>2, <1>3, <1>4, <1>5, PTL
    DEF Spec, ImplementsDurableLog, Log!Spec

=============================================================================
