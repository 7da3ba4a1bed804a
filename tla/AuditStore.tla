----------------------------- MODULE AuditStore -----------------------------
(***************************************************************************)
(* The audit log of backend/src/storage/audit-store.ts: a live window of   *)
(* entries held in memory and in a JSON file, an append-only archive for   *)
(* what the window no longer holds, group commit between concurrent        *)
(* appends, and the start-up that reads the file back.                     *)
(*                                                                         *)
(* Entries are numbered in the order of append() over all the lives of the *)
(* process: entry e of the current life is the one whose counter `mine` is *)
(* e - base.  The order of a set of entries is the order of their numbers, *)
(* which is the order the array and the files keep them in.                *)
(*                                                                         *)
(* One action per stretch of code between two awaits.  The waiters of a    *)
(* write all resume in the microtasks that follow its completion, before   *)
(* any I/O callback, so completion resumes them in the same step.          *)
(***************************************************************************)
EXTENDS Integers, FiniteSets

CONSTANTS
    MaxEntries,   \* size of the live window (DEFAULT_MAX_ENTRIES in the code)
    TornAppends,  \* TRUE: a failed appendFile may leave a partial last line
    MaxAppends,   \* bound: append() calls over all lives
    MaxFaults     \* bound: failed writes, crashes and damaged files

ASSUME MaxEntriesAssumption == MaxEntries \in Nat \ {0}
ASSUME TornAppendsAssumption == TornAppends \in BOOLEAN
ASSUME BoundsAssumption == MaxAppends \in Nat /\ MaxFaults \in Nat

VARIABLES
    proc,      \* "down", "fresh" (about to create an empty file), "running"
    entries,   \* this.entries
    base,      \* entries numbered before this life began
    appended,  \* this.appended
    written,   \* this.written
    writer,    \* this.writing: where the one writeOnce() in flight is
    awaiting,  \* callers suspended in writeThrough(), by kind and target
    acked,     \* entries whose append() resolved with written >= mine
    file,      \* "missing", "readable" or "unreadable" live file
    live,      \* the entries in the live file
    archive,   \* the entries on lines of the archive that parse
    torn,      \* the archive ends in a partial line
    aside,     \* the entries in files moved aside by setAside()
    faults     \* faults so far (bounded by MaxFaults)

memory == <<entries, base, appended, written, writer, awaiting>>
disk   == <<file, live, archive, torn, aside>>
vars   == <<proc, memory, disk, acked, faults>>

Entry  == Nat \ {0}
Waiter == [kind : {"append", "flush"}, target : Entry]
Stages == {"idle", "archive", "serialise", "write", "renamed"}
Writer == [stage : Stages, leaving : SUBSET Entry, covers : Nat,
           bytes : SUBSET Entry]

Idle == [stage |-> "idle", leaving |-> {}, covers |-> 0, bytes |-> {}]

\* The first k entries of S in append order: S.slice(0, k).
Oldest(S, k) == {e \in S : Cardinality({d \in S : d < e}) < k}

\* Every entry that can still be read from some file.
OnDisk == live \cup archive \cup aside

(***************************************************************************)
(* writeOnce() up to its first await: choose what overflows and start the  *)
(* archive append, or go straight on when nothing does.                    *)
(***************************************************************************)
BeginWrite(window) ==
    LET leaving == Oldest(window, Cardinality(window) - MaxEntries)
    IN  [stage |-> IF leaving = {} THEN "serialise" ELSE "archive",
         leaving |-> leaving, covers |-> 0, bytes |-> {}]

\* What joins the archive when `lines` are appended whole: the oldest of them
\* continues a partial last line if there is one, and that line never parses.
Readable(lines) == IF torn THEN lines \ Oldest(lines, 1) ELSE lines

Fault == faults < MaxFaults /\ faults' = faults + 1

----------------------------------------------------------------------------
(* append() and flush(): push, count, and wait on the write in flight or    *)
(* start one.                                                               *)

Append ==
    /\ proc = "running"
    /\ base + appended < MaxAppends
    /\ entries' = entries \cup {base + appended + 1}
    /\ appended' = appended + 1
    /\ awaiting' = awaiting \cup {[kind |-> "append", target |-> appended + 1]}
    /\ writer' = IF writer.stage = "idle" THEN BeginWrite(entries') ELSE writer
    /\ UNCHANGED <<proc, base, written, acked, disk, faults>>

Flush ==
    /\ proc = "running"
    /\ written < appended
    /\ awaiting' = awaiting \cup {[kind |-> "flush", target |-> appended]}
    /\ writer' = IF writer.stage = "idle" THEN BeginWrite(entries) ELSE writer
    /\ UNCHANGED <<proc, entries, base, appended, written, acked, disk, faults>>

----------------------------------------------------------------------------
(* archiveOverflow()                                                        *)

\* appendFile wrote every line.
ArchiveWritten ==
    /\ proc = "running"
    /\ writer.stage = "archive"
    /\ archive' = archive \cup Readable(writer.leaving)
    /\ torn' = FALSE
    /\ writer' = [writer EXCEPT !.stage = "serialise"]
    /\ UNCHANGED <<proc, entries, base, appended, written, awaiting, acked,
                   file, live, aside, faults>>

\* What an append of `lines` that did not complete leaves: its first k lines,
\* k less than all of them, and possibly part of the next one.
PartialAppend(lines) ==
    \E k \in 0..(Cardinality(lines) - 1), partial \in BOOLEAN :
        /\ partial => TornAppends
        /\ archive' = archive \cup Readable(Oldest(lines, k))
        /\ torn' = (partial \/ (k = 0 /\ torn))

\* Fault for the runs' mutants: the overflow is dropped although the archive
\* does not hold it.
Mut_EvictUnarchived ==
    /\ proc = "running"
    /\ writer.stage = "archive"
    /\ Fault
    /\ PartialAppend(writer.leaving)
    /\ writer' = [writer EXCEPT !.stage = "serialise"]
    /\ UNCHANGED <<proc, entries, base, appended, written, awaiting, acked,
                   file, live, aside>>

\* appendFile failed: nothing leaves the window.
ArchiveFailed ==
    /\ proc = "running"
    /\ writer.stage = "archive"
    /\ Fault
    /\ PartialAppend(writer.leaving)
    /\ writer' = [writer EXCEPT !.stage = "serialise", !.leaving = {}]
    /\ UNCHANGED <<proc, entries, base, appended, written, awaiting, acked,
                   file, live, aside>>

----------------------------------------------------------------------------
(* writeOnce() after the archive                                            *)

\* Fault for the runs' mutants: the bytes are taken before the splice.
Mut_SerialiseBeforeSplice ==
    /\ proc = "running"
    /\ writer.stage = "serialise"
    /\ entries' = entries \ writer.leaving
    /\ writer' = [stage |-> "write", leaving |-> {}, covers |-> appended,
                  bytes |-> entries]
    /\ UNCHANGED <<proc, base, appended, written, awaiting, acked, disk, faults>>

\* The splice, then the count and the bytes of the write in one stretch.
Serialise ==
    /\ proc = "running"
    /\ writer.stage = "serialise"
    /\ entries' = entries \ writer.leaving
    /\ writer' = [stage |-> "write", leaving |-> {}, covers |-> appended,
                  bytes |-> entries']
    /\ UNCHANGED <<proc, base, appended, written, awaiting, acked, disk, faults>>

\* rename() put the new bytes in place of the live file.
Rename ==
    /\ proc = "running"
    /\ writer.stage = "write"
    /\ file' = "readable"
    /\ live' = writer.bytes
    /\ writer' = [writer EXCEPT !.stage = "renamed"]
    /\ UNCHANGED <<proc, entries, base, appended, written, awaiting, acked,
                   archive, torn, aside, faults>>

\* Fault for the runs' mutants: the count is read when the write is over, so
\* it covers entries that arrived while the file was being written.
Mut_CountAfterWrite ==
    LET satisfied == {w \in awaiting : w.target <= appended}
    IN  /\ proc = "running"
        /\ writer.stage = "renamed"
        /\ written' = appended
        /\ awaiting' = awaiting \ satisfied
        /\ acked' = acked \cup {base + w.target :
                                 w \in {v \in satisfied : v.kind = "append"}}
        /\ writer' = IF awaiting' = {} THEN Idle ELSE BeginWrite(entries)
        /\ UNCHANGED <<proc, entries, base, appended, disk, faults>>

\* Fault for the runs' mutants: nobody starts the next write for the callers
\* this one did not cover.
Mut_NoNextWrite ==
    LET satisfied == {w \in awaiting : w.target <= writer.covers}
    IN  /\ proc = "running"
        /\ writer.stage = "renamed"
        /\ written' = writer.covers
        /\ awaiting' = awaiting \ satisfied
        /\ acked' = acked \cup {base + w.target :
                                 w \in {v \in satisfied : v.kind = "append"}}
        /\ writer' = Idle
        /\ UNCHANGED <<proc, entries, base, appended, disk, faults>>

\* The write is over: record what it covered and resume its waiters.  Those it
\* did not cover loop, the first of them starting the next write.
WriteDone ==
    LET satisfied == {w \in awaiting : w.target <= writer.covers}
    IN  /\ proc = "running"
        /\ writer.stage = "renamed"
        /\ written' = writer.covers
        /\ awaiting' = awaiting \ satisfied
        /\ acked' = acked \cup {base + w.target :
                                 w \in {v \in satisfied : v.kind = "append"}}
        /\ writer' = IF awaiting' = {} THEN Idle ELSE BeginWrite(entries)
        /\ UNCHANGED <<proc, entries, base, appended, disk, faults>>

\* Fault for the runs' mutants: callers are not resumed by a failed write.
Mut_FailureKeepsWaiters ==
    /\ proc = "running"
    /\ writer.stage = "write"
    /\ Fault
    /\ writer' = Idle
    /\ UNCHANGED <<proc, entries, base, appended, written, awaiting, acked, disk>>

\* The temporary file or the rename failed: it is logged, every waiter returns
\* (flush() then rejects), and the entries stay in memory for the next write.
WriteFailed ==
    /\ proc = "running"
    /\ writer.stage = "write"
    /\ Fault
    /\ writer' = Idle
    /\ awaiting' = {}
    /\ UNCHANGED <<proc, entries, base, appended, written, acked, disk>>

----------------------------------------------------------------------------
(* Crash, damage and init()                                                 *)

\* The process dies at any point; an append in flight may be cut short.
Crash ==
    /\ proc = "running"
    /\ Fault
    /\ proc' = "down"
    /\ entries' = {} /\ awaiting' = {} /\ writer' = Idle
    /\ base' = base + appended
    /\ appended' = 0 /\ written' = 0
    /\ \/ UNCHANGED <<archive, torn>>
       \/ writer.stage = "archive" /\ PartialAppend(writer.leaving)
    /\ UNCHANGED <<acked, file, live, aside>>

\* Something outside the program makes the live file unreadable or malformed.
Damage ==
    /\ file = "readable"
    /\ Fault
    /\ file' = "unreadable"
    /\ UNCHANGED <<proc, memory, live, archive, torn, aside, acked>>

\* init(): the file holds a JSON array.
LoadFile ==
    /\ proc = "down"
    /\ file = "readable"
    /\ proc' = "running"
    /\ entries' = live
    /\ UNCHANGED <<base, appended, written, writer, awaiting, disk, acked, faults>>

\* init() on a file that does not exist: go on to create an empty one.
NoFile ==
    /\ proc = "down"
    /\ file = "missing"
    /\ proc' = "fresh"
    /\ UNCHANGED <<memory, disk, acked, faults>>

\* setAside(): the unreadable file is renamed before a new one is created.
SetAside ==
    /\ proc = "down"
    /\ file = "unreadable"
    /\ proc' = "fresh"
    /\ aside' = aside \cup live
    /\ file' = "missing"
    /\ live' = {}
    /\ UNCHANGED <<memory, archive, torn, acked, faults>>

\* The empty array is written and the store is ready.
WriteFresh ==
    /\ proc = "fresh"
    /\ proc' = "running"
    /\ file' = "readable"
    /\ live' = {}
    /\ UNCHANGED <<memory, archive, torn, aside, acked, faults>>

\* A failure or a crash between the two steps of start-up ends the process.
StartFailed ==
    /\ proc = "fresh"
    /\ Fault
    /\ proc' = "down"
    /\ UNCHANGED <<memory, disk, acked>>

----------------------------------------------------------------------------

Init ==
    /\ proc = "down"
    /\ entries = {} /\ base = 0 /\ appended = 0 /\ written = 0
    /\ writer = Idle /\ awaiting = {} /\ acked = {}
    /\ file = "missing" /\ live = {} /\ archive = {} /\ torn = FALSE
    /\ aside = {} /\ faults = 0

\* The steps the event loop and the file system take on their own.
Io == ArchiveWritten \/ Serialise \/ Rename \/ WriteDone

Startup == LoadFile \/ NoFile \/ SetAside \/ WriteFresh

Next ==
    \/ Append \/ Flush
    \/ Io \/ ArchiveFailed \/ WriteFailed
    \/ Crash \/ Damage \/ Startup \/ StartFailed

Spec == Init /\ [][Next]_vars

(***************************************************************************)
(* I/O that was started finishes, and a stopped backend is started again   *)
(* by its service manager.  Nothing promises that I/O succeeds, that       *)
(* append() is called again or that the process survives.                  *)
(***************************************************************************)
FairSpec == Spec /\ WF_vars(Io) /\ WF_vars(Startup)

----------------------------------------------------------------------------
(* Properties                                                               *)

TypeOK ==
    /\ proc \in {"down", "fresh", "running"}
    /\ entries \subseteq Entry
    /\ base \in Nat /\ appended \in Nat /\ written \in Nat
    /\ writer \in Writer
    /\ awaiting \subseteq Waiter
    /\ acked \subseteq Entry
    /\ file \in {"missing", "readable", "unreadable"}
    /\ live \subseteq Entry /\ archive \subseteq Entry /\ aside \subseteq Entry
    /\ torn \in BOOLEAN
    /\ faults \in Nat

\* An entry whose append() resolved after a successful write is in the live
\* file, on a readable line of the archive, or in a file moved aside, through
\* crashes, failed writes, evictions and damaged files (guarantees 1 to 3).
AckedDurable == acked \subseteq OnDisk

\* Nothing is deleted (guarantee 1): an entry that can be read from the files
\* can be read from them after every step.
NothingDeleted == [][OnDisk \subseteq OnDisk']_vars

\* When no write is pending and none failed since, the file is the window:
\* query() answers from memory exactly what a restart would load.
SettledIsDurable ==
    (proc = "running" /\ written = appended /\ writer.stage = "idle"
        /\ file = "readable") => live = entries

\* No lost wake-up: a caller suspended in writeThrough() has a write in flight
\* that will resume it.
WaitersHaveAWrite == awaiting # {} => writer.stage # "idle"

\* Every append() settles: the caller is resumed by a write that covered its
\* entry or by one that failed, or the process died.
AppendsSettle ==
    \A n \in 1..MaxAppends :
        ([kind |-> "append", target |-> n] \in awaiting)
            ~> ([kind |-> "append", target |-> n] \notin awaiting)

=============================================================================
