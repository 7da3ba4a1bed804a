------------------------------- MODULE Distros -------------------------------
(***************************************************************************)
(* Distributions and their images: the two stores of sources and the       *)
(* handlers of backend/src/routes/distros.ts, the sources the image        *)
(* manager works from, the validation of their URLs                        *)
(* (services/url-validator.ts) and the download of a base image            *)
(* (services/image-manager.ts), which every workload of a distribution     *)
(* shares.                                                                 *)
(*                                                                         *)
(* A handler is suspended while a store is written and while a URL is      *)
(* asked for; a download while it asks for the checksum and the image,     *)
(* streams, and computes the digest.                                       *)
(*                                                                         *)
(* Names differ from those of Addresses, the other thing a new workload    *)
(* needs, so that CreateProofs can extend both.                            *)
(***************************************************************************)
EXTENDS Naturals, FiniteSets

CONSTANTS
    Distributions,  \* names
    Builtin,        \* those of DISTRO_IMAGES
    Urls,           \* where images are
    Offered,        \* the URLs that requests bring
    Wanted,         \* the distributions workloads are created of
    Default,        \* the URL of a built-in distribution
    Nil,
    Shipped,        \* the catalog that comes with the program
    Remote,         \* the catalogs a refresh may fetch
    Requests,       \* requests that can be under way at once
    MaxFetches,     \* bound: calls of ensureImage()
    MaxOps,         \* bound: these calls, and requests that change a store
    MaxDistroFaults \* bound: failed writes, requests and downloads, and restarts

Table == [Distributions -> Urls \cup {Nil}]

ASSUME DistroAssumption ==
    /\ Builtin \subseteq Distributions /\ Wanted \subseteq Distributions
    /\ Default \in Urls /\ Offered \subseteq Urls /\ Nil \notin Urls
    /\ Shipped \in Table /\ Remote \subseteq Table
    /\ MaxOps \in Nat /\ MaxFetches \in Nat /\ MaxDistroFaults \in Nat

VARIABLES
    catalog,      \* CatalogStore.distros
    catalogFile,  \* distro-catalog.json in the data directory, if there is one
    custom,       \* DistroStore.distros
    customFile,   \* custom-distros.json
    inUse,        \* catalogSources and customSources of the image manager
    req,          \* where each request is suspended, and with what
    behind,       \* history: the stores whose last write failed
    results,      \* the URL each validation result is about
    resultsFile,  \* url-validation.json
    sweep,        \* validateAll(), and the results it is making
    file,         \* the base image of each distribution
    data,         \* what is in each file ever opened
    fetch,        \* the calls of ensureImage()
    spoiled,      \* history: images on which calls overlapped, were cut off or failed to remove it
    ops, distroFaults

stores  == <<catalog, catalogFile, custom, customFile, inUse, req, behind>>
checks  == <<results, resultsFile, sweep>>
images  == <<file, data, fetch, spoiled>>
bounds  == <<ops, distroFaults>>
distroVars == <<stores, checks, images, bounds>>

NoUrls == [n \in Distributions |-> Nil]
NoRequest == [at |-> "idle", name |-> Nil, url |-> Nil, table |-> NoUrls, validates |-> FALSE]

Fault == distroFaults < MaxDistroFaults /\ distroFaults' = distroFaults + 1 /\ UNCHANGED ops

Counts == ops < MaxOps /\ ops' = ops + 1 /\ UNCHANGED distroFaults

\* Requests are alike: any place that is free will do.
Begins(r) ==
    /\ req[r] = NoRequest /\ r = CHOOSE q \in Requests : req[q] = NoRequest
    /\ Counts

----------------------------------------------------------------------------
(* The sources.                                                            *)

\* getAllSources(): a custom source hides a catalog's, a catalog's a built-in
\* one, and only the built-in ones have a digest.
Source(used, n) ==
    CASE used.custom[n] # Nil  -> [url |-> used.custom[n], digest |-> FALSE]
      [] used.catalog[n] # Nil -> [url |-> used.catalog[n], digest |-> FALSE]
      [] n \in Builtin         -> [url |-> Default, digest |-> TRUE]
      [] OTHER                 -> [url |-> Nil, digest |-> FALSE]

\* The names the routes do not count as custom.
Provided(n) == n \in Builtin \/ catalog[n] # Nil

\* A handler changes the custom store; the table is serialised at once.
Store(r, n, url, validates) ==
    /\ Begins(r)
    /\ custom' = [custom EXCEPT ![n] = url]
    /\ req' = [req EXCEPT ![r] = [NoRequest EXCEPT !.at = "custom", !.name = n, !.table = custom',
                                              !.validates = validates]]
    /\ UNCHANGED <<catalog, catalogFile, customFile, inUse, behind, checks, images>>

Add(r, n, url)    == ~ Provided(n) /\ custom[n] = Nil /\ Store(r, n, url, FALSE)
Remove(r, n)      == ~ Provided(n) /\ custom[n] # Nil /\ Store(r, n, Nil, FALSE)
PutUrl(r, n, url) == (Provided(n) \/ custom[n] # Nil) /\ Store(r, n, url, TRUE)
ResetUrl(r, n)    == Provided(n) /\ custom[n] # Nil /\ Store(r, n, Nil, TRUE)

\* Fault for the runs' mutants: the sources are those that were written.
Mut_Synced(r) == req[r].table

\* toImageSources() after the write has the table there is by then.
Synced(r) == custom

\* setCustomSources(), and validateOne() up to its request.
CustomWritten(r) ==
    LET used == [inUse EXCEPT !.custom = Synced(r)]
        url  == Source(used, req[r].name).url
    IN
    /\ req[r].at = "custom"
    /\ customFile' = req[r].table
    /\ inUse' = used
    /\ behind' = behind \ {"custom"}
    /\ req' = [req EXCEPT ![r] = IF req[r].validates /\ url # Nil
                                 THEN [NoRequest EXCEPT !.at = "check", !.name = req[r].name,
                                                        !.url = url]
                                 ELSE NoRequest]
    /\ UNCHANGED <<catalog, catalogFile, custom, checks, images, bounds>>

\* POST refresh-catalog asks for the remote catalog.
Refresh(r) ==
    /\ Begins(r)
    /\ req' = [req EXCEPT ![r].at = "fetch"]
    /\ UNCHANGED <<catalog, catalogFile, custom, customFile, inUse, behind, checks, images>>

\* It replaces the one in memory before it is written.
Fetched(r, new) ==
    /\ req[r].at = "fetch"
    /\ catalog' = new
    /\ req' = [req EXCEPT ![r].at = "catalog", ![r].table = new]
    /\ UNCHANGED <<catalogFile, custom, customFile, inUse, behind, checks, images, bounds>>

\* setCatalogSources()
CatalogWritten(r) ==
    /\ req[r].at = "catalog"
    /\ catalogFile' = req[r].table
    /\ inUse' = [inUse EXCEPT !.catalog = catalog]
    /\ behind' = behind \ {"catalog"}
    /\ req' = [req EXCEPT ![r] = NoRequest]
    /\ UNCHANGED <<catalog, custom, customFile, checks, images, bounds>>

\* A request or a write fails and the handler with it: the store keeps the
\* change, and the image manager does not have it.
HandlerFails(r) ==
    /\ req[r].at \in {"custom", "fetch", "catalog", "result"}
    /\ Fault
    /\ behind' = behind \cup ({req[r].at} \cap {"custom", "catalog"})
    /\ req' = [req EXCEPT ![r] = NoRequest]
    /\ UNCHANGED <<catalog, catalogFile, custom, customFile, inUse, checks, images>>

----------------------------------------------------------------------------
(* URL validation.                                                         *)

\* validateOne() has the answer and writes it down, with the other results.
Checked(r) ==
    /\ req[r].at = "check"
    /\ results' = [results EXCEPT ![req[r].name] = req[r].url]
    /\ req' = [req EXCEPT ![r] = [NoRequest EXCEPT !.at = "result", !.table = results']]
    /\ UNCHANGED <<catalog, catalogFile, custom, customFile, inUse, behind, resultsFile, sweep,
                   images, bounds>>

ResultWritten(r) ==
    /\ req[r].at = "result"
    /\ resultsFile' = req[r].table
    /\ req' = [req EXCEPT ![r] = NoRequest]
    /\ UNCHANGED <<catalog, catalogFile, custom, customFile, inUse, behind, results, sweep,
                   images, bounds>>

NoSweep == [at |-> "idle", seen |-> NoUrls]

\* validateAll() takes the sources there are, unless it is running.
SweepBegins ==
    /\ sweep.at = "idle"
    /\ sweep' = [at |-> "check", seen |-> [n \in Distributions |-> Source(inUse, n).url]]
    /\ UNCHANGED <<stores, results, resultsFile, images, bounds>>

\* Every URL was asked for: the new results replace the old.
SweepChecked ==
    /\ sweep.at = "check"
    /\ results' = sweep.seen
    /\ sweep' = [sweep EXCEPT !.at = "result"]
    /\ UNCHANGED <<stores, resultsFile, images, bounds>>

SweepWritten ==
    /\ sweep.at = "result"
    /\ resultsFile' = sweep.seen
    /\ sweep' = NoSweep
    /\ UNCHANGED <<stores, results, images, bounds>>

\* Fault for the runs' mutants: a sweep that fails stays marked as running.
Mut_Finally == [sweep EXCEPT !.at = "stuck"]

\* The flag is reset whatever happened.
Finally == NoSweep

SweepFails ==
    /\ sweep.at = "result"
    /\ Fault
    /\ sweep' = Finally
    /\ UNCHANGED <<stores, results, resultsFile, images>>

----------------------------------------------------------------------------
(* Base images.                                                            *)

\* What is in a file: none, some or all of an image, whether its source had
\* a digest, and whether that would match.  shared tells that two streams go
\* into it, and then it may never be an image.
NoBytes == [what |-> "none", digest |-> FALSE, good |-> FALSE, shared |-> FALSE]
Absent == 0
Calls == 1..MaxFetches
Unasked == [at |-> "new", of |-> Nil, digest |-> FALSE, into |-> Absent, got |-> NoBytes]

Stage(c, what) == fetch[c].at = what
UnderWay(c)    == fetch[c].at \in {"connect", "stream", "verify"}
In(d, f)       == IF f = Absent THEN NoBytes ELSE d[f]
There(n)       == In(data, file[n])
Goes(c, what)  == fetch' = [fetch EXCEPT ![c].at = what]
Ended(c, what, got) == [Unasked EXCEPT !.at = what, !.of = fetch[c].of, !.got = got]
Returns(c) == fetch' = [fetch EXCEPT ![c] = Ended(c, "returned", In(data', file'[fetch[c].of]))]
Fails(c)   == fetch' = [fetch EXCEPT ![c] = Ended(c, "failed", NoBytes)]

\* A file with something in it is the image.
Usable(n) == There(n).what \notin {"none", "empty"}

\* The provisioner asks for an image.  The source is looked up before the
\* file is, and is not looked up again.
Ask(c, n) ==
    /\ Stage(c, "new") /\ (c > 1 => ~ Stage(c - 1, "new"))
    /\ Counts
    /\ Source(inUse, n).url # Nil
    /\ fetch' = [fetch EXCEPT ![c] =
         IF Usable(n) THEN [Unasked EXCEPT !.at = "returned", !.of = n, !.got = There(n)]
                      ELSE [Unasked EXCEPT !.at = "connect", !.of = n,
                                           !.digest = Source(inUse, n).digest]]
    /\ spoiled' = IF \E d \in Calls : UnderWay(d) /\ fetch[d].of = n
                  THEN spoiled \cup {n} ELSE spoiled
    /\ UNCHANGED <<stores, checks, file, data>>

\* The checksum and the image's first bytes are there: the file is created,
\* or emptied under whoever else writes or reads it.
Open(c) ==
    LET n == fetch[c].of
        into == IF file[n] = Absent THEN c ELSE file[n]
    IN
    /\ Stage(c, "connect")
    /\ file' = [file EXCEPT ![n] = into]
    /\ data' = [data EXCEPT ![into] =
         [what |-> "empty", digest |-> fetch[c].digest, good |-> FALSE,
          shared |-> \E d \in Calls : Stage(d, "stream") /\ fetch[d].into = into]]
    /\ fetch' = [fetch EXCEPT ![c].at = "stream", ![c].into = into]
    /\ UNCHANGED <<stores, checks, spoiled, bounds>>

\* Some of the image has come.
Bytes(c) ==
    LET into == fetch[c].into
    IN
    /\ Stage(c, "stream") /\ data[into].what = "empty"
    /\ data' = [data EXCEPT ![into].what = "part"]
    /\ UNCHANGED <<stores, checks, file, fetch, spoiled, bounds>>

\* All of it.
Ends(c) ==
    LET into == fetch[c].into
    IN
    /\ Stage(c, "stream")
    /\ \E what \in {"whole"} \cup (IF data[into].shared THEN {"part"} ELSE {}),
         good \in (IF fetch[c].digest THEN BOOLEAN ELSE {FALSE}) :
         data' = [data EXCEPT ![into] = [@ EXCEPT !.what = what, !.digest = fetch[c].digest,
                                                  !.good = good]]
    /\ UNCHANGED <<stores, checks, file, spoiled, bounds>>
    /\ IF fetch[c].digest THEN Goes(c, "verify") ELSE Returns(c)

\* Fault for the runs' mutants: a rejected image stays.
Mut_Deleted(n) == file

\* rm() of an image that did not verify.
Deleted(n) == [file EXCEPT ![n] = Absent]

Verify(c) ==
    LET n == fetch[c].of
    IN
    /\ Stage(c, "verify")
    /\ UNCHANGED <<stores, checks, data, spoiled, bounds>>
    /\ IF There(n).what = "whole" /\ There(n).good
       THEN UNCHANGED file /\ Returns(c)
       ELSE file' = Deleted(n) /\ Fails(c)

\* What a download that is cut off leaves behind counts as an image, and so
\* does a rejected one that rm() fails to remove.
Leaves(c) ==
    \/ Stage(c, "verify")
    \/ Stage(c, "stream") /\ data[fetch[c].into].what # "empty"

Cut(c) ==
    /\ fetch[c].at \in {"connect", "stream", "verify"}
    /\ Fault
    /\ Fails(c)
    /\ spoiled' = IF Leaves(c) THEN spoiled \cup {fetch[c].of} ELSE spoiled
    /\ UNCHANGED <<stores, checks, file, data>>

----------------------------------------------------------------------------
(* Restart.                                                                *)

\* The shipped catalog, unless there is another; custom sources of a name
\* that the catalog has are removed.
Restart ==
    LET loaded == IF catalogFile = Nil THEN Shipped ELSE catalogFile
        kept == [n \in Distributions |-> IF loaded[n] = Nil THEN customFile[n] ELSE Nil]
    IN
    /\ Fault
    /\ catalog' = loaded /\ custom' = kept /\ customFile' = kept
    /\ inUse' = [catalog |-> loaded, custom |-> kept]
    /\ req' = [r \in Requests |-> NoRequest]
    /\ behind' = {}
    /\ results' = resultsFile /\ sweep' = NoSweep
    /\ fetch' = [c \in Calls |-> IF UnderWay(c) THEN Ended(c, "failed", NoBytes) ELSE fetch[c]]
    /\ spoiled' = spoiled \cup {fetch[c].of : c \in {c \in Calls : Leaves(c)}}
    /\ UNCHANGED <<catalogFile, resultsFile, file, data>>

DistroInit ==
    /\ catalog = Shipped /\ catalogFile = Nil
    /\ custom = NoUrls /\ customFile = NoUrls
    /\ inUse = [catalog |-> Shipped, custom |-> NoUrls]
    /\ req = [r \in Requests |-> NoRequest] /\ behind = {}
    /\ results = NoUrls /\ resultsFile = NoUrls /\ sweep = NoSweep
    /\ file = [n \in Distributions |-> Absent] /\ data = [c \in Calls |-> NoBytes]
    /\ fetch = [c \in Calls |-> Unasked] /\ spoiled = {}
    /\ ops = 0 /\ distroFaults = 0

RequestStep(r) ==
    \/ \E n \in Distributions, url \in Offered : Add(r, n, url) \/ PutUrl(r, n, url)
    \/ \E n \in Distributions : Remove(r, n) \/ ResetUrl(r, n)
    \/ Refresh(r) \/ HandlerFails(r)

HandlerGoesOn(r) ==
    \/ CustomWritten(r) \/ CatalogWritten(r) \/ Checked(r) \/ ResultWritten(r)
    \/ \E new \in Remote : Fetched(r, new)

Sweeps == SweepBegins \/ SweepChecked \/ SweepWritten

DistroNext ==
    \/ \E r \in Requests : RequestStep(r) \/ HandlerGoesOn(r)
    \/ Sweeps \/ SweepFails
    \/ \E c \in Calls, n \in Wanted : Ask(c, n)
    \/ \E c \in Calls : Open(c) \/ Bytes(c) \/ Ends(c) \/ Verify(c) \/ Cut(c)
    \/ Restart

DistroSpec == DistroInit /\ [][DistroNext]_distroVars

\* Requests to mirrors have time limits, writes end, and the sweep comes every
\* day.  Downloads and users are under no duty.
Fairness == WF_distroVars(Sweeps) /\ WF_distroVars(\E r \in Requests : HandlerGoesOn(r))

FairSpec == DistroSpec /\ Fairness

----------------------------------------------------------------------------
(* Properties.                                                             *)

\* Every variable has its type.
DistroTypeOK ==
    /\ catalog \in Table /\ custom \in Table /\ customFile \in Table
    /\ catalogFile \in Table \cup {Nil}
    /\ inUse \in [catalog : Table, custom : Table]
    /\ req \in [Requests -> [at : {"idle", "custom", "fetch", "catalog", "check", "result"},
                             name : Distributions \cup {Nil}, url : Urls \cup {Nil}, table : Table,
                             validates : BOOLEAN]]
    /\ behind \subseteq {"custom", "catalog"}
    /\ results \in Table /\ resultsFile \in Table
    /\ sweep \in [at : {"idle", "check", "result"}, seen : Table]
    /\ file \in [Distributions -> {Absent} \cup Calls]
    /\ spoiled \subseteq Distributions
    /\ ops \in 0..MaxOps /\ distroFaults \in 0..MaxDistroFaults

\* "the NEXT call finds it, skips the download, skips this check with it"
\* (image-manager.ts): an image that ensureImage() returns is whole and, if it
\* came from a source with a digest, matched it, unless two calls for the
\* distribution overlapped, a download of it was cut off before or a rejected
\* image could not be removed.
ImagesAreWhole ==
    \A c \in Calls : Stage(c, "returned") =>
        \/ fetch[c].got.what = "whole" /\ (fetch[c].got.digest => fetch[c].got.good)
        \/ fetch[c].of \in spoiled

\* Whatever handlers overlap, once they are done the image manager works from
\* the sources the stores have, unless the last write of a store failed.
SourcesFollow ==
    (\A r \in Requests : req[r] = NoRequest) =>
        /\ inUse.custom = custom \/ "custom" \in behind
        /\ inUse.catalog = catalog \/ "catalog" \in behind

\* Once the sources stop changing, the daily sweep leaves a result about the
\* URL in use for each distribution and none for the others, whatever results
\* of older URLs handlers and sweeps wrote over newer ones before.
ResultsCatchUp == <>[](results = [n \in Distributions |-> Source(inUse, n).url])

\* "Each built-in entry is verified against the distro's published checksum
\* before the image is used" (docs/ADMIN-GUIDE.md).
BuiltinsAreVerified ==
    \A c \in Calls : Stage(c, "returned") /\ fetch[c].of \in Builtin =>
        fetch[c].got.digest \/ inUse.custom[fetch[c].of] # Nil

\* "Override the default image URL for any built-in distribution"
\* (docs/ADMIN-GUIDE.md): only a request takes an override back.
OverridesStay ==
    [][\A n \in Distributions : custom[n] # Nil /\ custom'[n] = Nil =>
          \E r \in Requests : Remove(r, n) \/ ResetUrl(r, n)]_distroVars

=============================================================================
