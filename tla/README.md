# Weaver: a verification project in TLA+

Weaver is a dashboard and management service for the workloads of a NixOS host: MicroVMs, cloud
VMs, containers. Its backend (`backend/src`, Node.js and Fastify) starts and stops them, keeps an
audit log, enforces a licence that is re-read while the process runs, publishes their names over
DNS and, on the vendor's side, issues the licences that were paid for. A web client (`src`, Vue) shows
it all, live; the terminal client and the NixOS module are a second front end and packaging.

The backend is one process on one thread. There are no data races, and what makes it hard is the
rest: a handler is suspended at every `await` and anything else may run meanwhile; state is read
before such a suspension and used after it; files are written in place and the process may stop in
the middle; timers start work whether or not the last round is over; Stripe delivers its events
again, late and in any order; a tier lapses while something is in progress; a browser has several
tabs with one set of cookies, and sockets that end later than the page that opened them. The models
are about these.

Paths below are relative to `backend/src` unless they begin with `backend/`, `docs/`, `scripts/` or, for
the web client, `src/`.

## 1. Inventory

| Part | State | Operations | Modules |
| --- | --- | --- | --- |
| Audit store (`storage/audit-store.ts`, `storage/lib/atomic-write.ts`) | window in memory, counters `appended` and `written`, the one write in flight, live file, archive, files set aside | `append`, `flush`, `writeOnce`, `archiveOverflow`, `init`, `setAside`, `query` | AuditStore, DurableLog |
| Licence poll and DNS publishing (`index.ts` 485-723, `services/license-watcher.ts`, `services/dns-writer.ts`) | live config, writer and its last zone, poll and sync in progress, hosts file, what dnsmasq read | poll, apply, start and stop publishing, sync, retire, start-up | LicenseDns |
| Expiry countdown (`index.ts` 617-682, `license-watcher.ts` 102-150) | warning state file, check in progress | `checkExpiryWarnings`, `decideWarning`, `sentFor`, read and write of the state | ExpiryWarnings |
| Workload lifecycle and the Free-tier cap (`services/microvm.ts`, `services/free-tier-cap.ts`, `routes/workloads.ts`, `storage/*-registry.ts`) | registry rows (specs, autostart), units of the host, tier | status, start, stop, restart, delete, scan, autostart flag, autostart loop | Workloads |
| Create, clone and addresses (`routes/workloads.ts` 498-898, `storage/json-registry.ts`) | addresses of the rows, reservations of the pool, clones in progress | create, clone, registry-only delete; reserve and release | Addresses |
| Licence issuance (`routes/stripe-webhook.ts`, `services/stripe.ts`, `storage/license-store.ts`) | licence records in memory and on file, events in progress | three Stripe events, `save`, `renew`, `revoke`, `init` | LicenseIssuance |
| Accounts and sessions (`storage/user-store.ts`, `services/auth.ts`, session stores, `routes/auth.ts`, `routes/users.ts`, `scripts/reset-admin-password.sh`) | users by id, index by name, the users file, sessions, requests suspended in bcrypt or in a write | register, log in, refresh, log out, change password, role and profile, delete, reload on SIGHUP, reset by script | Accounts |
| Status poll and notifications (`routes/ws.ts`, `services/notification.ts`, `storage/notification-store.ts`) | rounds of the poll, previous statuses, notification list | poll, broadcast, `detectChanges`, `add`, `emitEvent`, dispatch | StatusEvents, StatusFeed |
| Live view of the web client (`src/services/ws.ts`, `src/stores/workload-store.ts`) | the shared socket, its timer and holders, the list shown, deletes pending | acquire, release, reconnect, receive, delete | LiveView |
| Sign-in of the web client (`src/boot/axios.ts`, `src/stores/auth-store.ts`, `src/router/index.ts`) | cookies, localStorage, tabs, requests that renew the sign-in | renewal by the interceptor, login, logout, start-up of a tab, being replaced | BrowserSessions |
| Images and distributions (`services/image-manager.ts`, `services/url-validator.ts`, `storage/distro-store.ts`, `storage/catalog-store.ts`, `routes/distros.ts`) | two stores with their files, the sources in use, base images, validation results | add, remove, refresh, override, reset; `ensureImage`; validate one or all | Distros |
| Toll allocation (`services/toll.ts`) | an append-only log of allocations | pure functions, not wired to a route | planned |
| Quotas, access lists and lockout, notification channels, smoke tests and URL search, DNS zone contents, entitlement format and verifier, configuration, networks, metrics and probes, agent, host reports, small settings stores, HTTP shell, mail, pages of the web client, terminal client, packaging | see `PROJECT.json` | | not modelled, section 8 |

How the parts interact:

* the licence poll writes `config.tier`, which the start handlers, the delete handler and DNS
  publishing read: in Workloads it is the action `TierChanges`, in LicenseDns the poll itself;
* every handler of `routes/workloads.ts` works on the one registry and on the host, and DNS
  publishing reads that registry: LicenseDns has `RegistryChanges`, which changes the zone that
  would be built;
* clone adds rows with addresses to that registry and reserves from the pool of the network
  manager; delete removes rows and does not tell the pool;
* every handler appends to the audit store and does not wait for anything else of it;
* a change of an account deletes its sessions, and the deletion of a session closes its WebSocket: in
  Accounts the sessions are a set, in BrowserSessions they are the cookies of a browser, in LiveView
  `signedIn` and `Kick`;
* the status poll reads what the handlers of `routes/workloads.ts` change, writes the notification list
  and feeds the live view: StatusEvents has the server's end of it, LiveView the client's;
* the provisioner, which is not in the repository, asks `ensureImage()` for images, from sources the
  handlers of `routes/distros.ts` change;
* the issuer signs the keys that the poll reads. The two run on different hosts, and a key is the
  only thing they exchange.

What makes each part correct:

* *Audit store*: what `append()` reported as written is on disk from then on, in order, without
  holes; eviction deletes nothing; a caller that waits is always resumed.
* *DNS publishing*: an unlicensed host answers for no workload; a renewal goes unnoticed; the
  resolver answers from the file; DNS ends up following the tier.
* *Countdown*: one announcement per threshold and expiry, the nearest one, never silenced by a
  crash, a failed write or the marks of another key.
* *Lifecycle*: the Free tier's ceilings hold; a running workload keeps its row; what a scan says it
  refreshed is refreshed.
* *Addresses*: no two workloads with one address; each exit of a clone that is not a success
  returns its reservation, and only its own.
* *Issuance*: one licence per subscription; what was revoked stays revoked; what was answered is on
  file; what was paid reaches the customer.
* *Accounts*: whoever is signed in knows the password and has the role the account has now; there is
  an admin as long as there are users; an account is found by its name; the file agrees with the memory.
* *Status*: a change of status is told once; clients and the change detection end up with what is so.
* *Live view*: one connection, made again when it ends; what was deleted stays gone; the list catches up.
* *Sign-in*: the last login is the one that counts, one refresh token serves, no tab is left hanging.
* *Images*: an image that is handed out is whole and verified; the sources in use are the stores'; the
  validation results are about the URLs in use.

`PROJECT.json` lists the hazards behind these, each at its line.

## 2. Modelling conventions

* **One action per stretch of code between two suspensions that let other work in.** These are
  commands run on the host, file operations, network requests and bcrypt. An `await` of something
  that is already there (the in-memory registry) resumes in a microtask before any I/O callback, so
  the code around it is one step. AuditStore uses the same fact for the waiters of a write: all of
  them resume in the step that completes it.
* **`writeFile` is two steps**, the open that truncates and the write that fills; `rename` is one.
  Two writes of one file that overlap can leave the tail of the longer one behind.
* **A call of bcrypt is a suspension**, of most of a second. It compares with the hash it was handed when it
  began. The session stores are synchronous behind their promises and are no suspension.
* **A failure is an action of its own, or a disjunct of the action that fails**, bounded by `MaxFaults`. A failed
  write leaves the file as it was before it or cut short, as the step it fails at determines. What the code does
  about it is part of the step: it may retry, answer an error, or log it and go on.
* **A restart** clears what is in memory, keeps the files, and runs the code of start-up.
* Names, addresses, keys and zones are model values or small numbers. A key is its tier and expiry,
  or, for the issuer, the period it covers.
* Variables marked `history` are read by properties only and never by a guard.
* `Mut_` operators are faults: each is what a plausible mistake in the code would make of the
  definition that follows it. No specification uses them; they show that a property notices.

## 3. Modules

### AuditStore, DurableLog, MCAuditStore, AuditStoreProofs

`AuditStore` numbers entries in the order of `append()` over all lives of the process. `entries`,
`appended`, `written` are the fields of the class, `writer` is the write in flight, with the stage it
is suspended at (`archive`: in `appendFile`; `write`: in the temporary file; `renamed`: the
rename is done and the code that waits for it not yet resumed) and the count and bytes it took, `awaiting` the callers suspended in
`writeThrough()`.

| Action | Code |
| --- | --- |
| `Append`, `Flush` | `append()` 203, `flush()` 254: push, count, join the write in flight or start one |
| `ArchiveWritten`, `ArchiveFailed` | `archiveOverflow()` 303-323: all lines, or the first of them and perhaps part of the next |
| `Serialise` | `writeOnce()` 283-291: splice, count, bytes |
| `Rename`, `WriteDone`, `WriteFailed` | `atomicWriteJson()`; the end of `writeOnce()` and the loop of `writeThrough()` |
| `Crash`, `Damage` | the process stops at any point; the file is damaged from outside |
| `LoadFile`, `NoFile`, `SetAside`, `WriteFresh`, `StartFailed` | `init()` 174, `setAside()` 325 |

`DurableLog` is what an audit log promises, without files, counters or a writer: entries become
durable in order, are never lost afterwards, and are acknowledged only when durable. `MCAuditStore`
maps the store to it (pending: accepted and in no file; durable: in some file) and states
`ImplementsDurableLog`.

### LicenseDns, MCLicenseDns, LicensePollProofs

The licence a running backend has and the zone that follows it. `task` says where a poll, or the
withdrawal of start-up, is suspended; `tick` where a zone sync is. `Poll`, `Notified` and `Follow` are
`pollLicense` and the applier; `Start` and `Stop` are `startDnsPublishing` and `stopDnsPublishing`;
`RetireRead` to `RetireReload` are `retireZone`; `Tick`, `Build`, `SyncTruncate`, `SyncFill`, `SyncRecord` and
`SyncReload` are the timer and `DnsZoneWriter.sync`, where `SyncRecord` is the code that resumes after the write
and sets `lastZone`. The interval does not wait for the sync before, so there are several of both.
`Restart` is a restart at any point with `Boot` as start-up.

Each read, write and reload of the hosts file may fail, and none is retried: a read that fails is taken for a file
that is not there (`index.ts:538`), a withdrawal that fails is logged (`index.ts:595`), and so is a sync
(`index.ts:562`), which leaves `lastZone` as it was. A write that fails leaves the file as it was before the open, or
`Torn`. What follows from that is recorded by history variables, which no guard reads:

| History | Set when | Cleared when |
| --- | --- | --- |
| `unwithdrawn` | a withdrawal could not read or write the file | a withdrawal begins or writes its banner; start-up |
| `signalLost` | a write failed after the open, a reload failed, or a restart came before one | a reload succeeds |
| `astray` | a sync's write overlaps another write, or fails after the open | a sync opens the file with nobody else at it |
| `overlapped` | a sync and a withdrawal have the file at once | a sync of a running writer opens the file with nobody else at it |
| `crossed` | a poll moves the tier while another notifies | start-up |

`KeyChanges` is what the outside does to the key file, which includes the end of a grace period: grace
mode only changes what a file resolves to.

### ExpiryWarnings, LicensePollProofs

The countdown in days. `Begin`, `Decide`, `Truncate` and `Fill` are the steps of one
`checkExpiryWarnings`; `WriteFails` and `WarnRestart` end it at any of them; `Day` is the clock. The key
may change between checks in any direction: a renewal, a roll-back to an earlier expiry, a key
without one. Both this module and LicenseDns are driven by the licence poll, and `LicensePollProofs`
extends the two.

### Workloads, MCWorkloads, WorkloadsProofs

The registry, the units of the host and the handlers between them. `AskStart`, `AskStop`, `AskDelete`,
`AskScan`, `Visit` begin a handler; `ReadStatus` is the answer about one workload; `DecideStart`,
`DecideDelete`, `DecideAutostart` are the code after the last answer; `StartCommand`, `StopCommand`,
`SplitStop` and `SplitStart` the commands. `HostChanges` is systemd,
an operator or a guest; `TierChanges` the licence poll; `Restart` the start of the process, whose
autostart loop is the handler `Loop`. A restart of a workload is one command for a MicroVM or a container of docker
or podman, and two for those in `Split`, the cloud VMs and the Apptainer instances; a failed stop ends that of an
instance and not that of a cloud VM.

`getVmStatus` answers `unknown` when its query fails, and all its callers take that for not running. `ReadStatus` has
both outcomes, and the history `dark` of a handler holds the workloads it was told nothing about. Below Solo
`listVms`, `startVm`, `stopVm` and `restartVm` do not show Apptainer instances (`Visible`); `getVmStatus`, `deleteVm` and
the registry do.

The parts of a scan run at once and share only the registry, so each is a handler: `ScanUnit` is a line of
`scanMicrovms`, which refreshes specs; `ScanAdds` one of the declarations, the containers or the instances, which only
add; `ListInstances` the listing that comes before the last.

The history variable `quiet` holds the handlers that nothing else disturbed since they began. The cap
reads statuses one by one and acts after the last, so without it there is nothing it could promise.

### Addresses, MCAddresses, CreateProofs

Create, clone and registry-only delete, on the JSON registry. `Begin` reads the definitions and asks
the host for the source's status; `UseExplicit` or `ReserveFor`, then `Register`, go on with an address
that was asked for or one of the pool; `Succeed` and `Fail` are the end of the registry's write. A row
is in memory before the write, and stays there when it fails. The pool is
`services/weaver/network-manager.ts`, which the repository does not have: `Reserve` is what its callers
and `backend/tests/services/ip-allocation.spec.ts` rely on, that an address is recorded before it is
handed out.

### LicenseIssuance, LicenseIssuanceProofs

The webhook and the store behind it. `Buy`, `Renew` and `End` are Stripe: they change the subscription
and make an event due, which it stays until it is answered with a 200. `Deliver` is the handler up to
its first suspension (the guards of each event); `Answer` is `generateLicenseFromSubscription`,
`Unreachable` its failure; `Land` is `save()` or `renew()` in memory; `Open` and `Write` the write of the
file, the mail and the 200; `WriteFails` its failure; `Crash` a restart, with `init()` starting empty
from a file it cannot parse.

### Accounts, MCAccounts, AccountsProofs

`users` and `index` are the two maps of `UserStore`, `file` what `users.json` would parse to, `req` the stage
of each request: in bcrypt (`bcrypt`), before the write that empties the file (`truncate`) or before the one
that fills it (`fill`), with the user object, the table or the password it has in hand.

| Action | Code |
| --- | --- |
| `Register`, `StoreSector` | `register()` 116-136: the name is looked up before the hash, the account made after it, its sector written in a second write |
| `Login`, `Refresh`, `Logout` | `login()` 146-182, `refreshToken()` 210-222, `logout()` 247-250 |
| `ChangePassword`, `UpdateProfile`, `ChangeRole`, `Delete` | the handlers of the same name, up to their next suspension; `Answer` is what follows the write, the revocation of the sessions included |
| `Truncate`, `Fill`, `WriteFails` | `persist()` 111-113 |
| `ScriptReads`, `ScriptWrites`, `ReloadReads`, `ReloadApplies` | the reset script, and `reload()` on its signal |
| `Restart`, `Expire` | `init()` with sessions in memory or in SQLite; a session past its time |

A request that waits holds a user object. After a reload it holds one that is in no store any more, which
`held` records. `late` marks a session whose login was being compared, or whose registration was being
written, when the account changed.

### StatusFeed, StatusEvents, MCStatusEvents, WorkloadsProofs

`StatusEvents` is the poll: `Tick` starts a round, whether or not the last one has returned, `Answer` is the
reply of `listVms()`, `Send` the broadcast and the beginning of `detectChanges()`, which runs up to the next
event (`Scan`), adds it to the list (`Add`) and is suspended while the list is written (`Stored`) and the
channels served (`Dispatched`). Only then is the status recorded (`Settled`). `Connect` and `Disconnect` are
the first and the last client: nothing is polled without one. `StatusFeed` is what a notification list
promises: a change of a recorded status is told once, with the two statuses, and nothing else is told of a
workload. The mapping takes a workload's status as known from the moment its event is in the list.

### LiveView, LiveViewProofs

One tab and one server. `Acquire` and `Release` are the holders of `acquireWs()`; `Opened`, `Dropped`, `Ended`,
`Failed` and `Reconnect` the handlers of the socket and the timer; `Kick` the server's close for a replaced
session; `Reload` the page loaded anew. `Read` and `Broadcast` are rounds of the poll, `Deliver` a list
that arrives, `Update` and `Remove` the workload store, `Delete` and `Confirm` the two ends of a delete.
`ahead`, `disordered`, `gone`, `namesakes`, `unheard` and `muted` are history. The last two are the names this page
deleted of which no list came without them yet, or only an empty one (`Hears`): both pages leave an empty list aside
(`src/pages/WeaverPage.vue:635`, `src/pages/WorkloadDetailPage.vue:761`), so the store does not learn from it.
A socket that was closed by the client goes on closing, and its handlers may run late: the sockets are
external and do what the WebSocket standard allows.

### BrowserSessions, BrowserSessionsProofs

One user, one browser with several tabs, and other clients of the user (`Elsewhere`). A grant is a pair of an
access and a refresh token; `jar` is the grant each cookie is of, `access` and `refresh` the grants with a valid
session. `Send`, `Answer`, `Ask`, `GiveUp`, `Renew`, `Granted` and `Expelled` are a request through the interceptor, which takes a
renewal that fails, or whose answer is lost, for a refusal (`RenewalFails`);
`Login`, `LoggedIn`, `Logout`, `Leave` and `Left` the sign-in and sign-out of a tab, `Load` and `Verified` its
start-up, `Kicked` the reply to a replaced session. `origin` is history: the login a grant descends from.

### Distros, MCDistros, CreateProofs

Two stores (`custom`, `catalog`), each with its file, what the image manager works from (`inUse`), and the
handlers between them: `Add`, `Remove`, `Refresh`, `PutUrl`, `ResetUrl`, with `CustomWritten` and `CatalogWritten`
for what they do after the write. `Ask` to `Deleted` are `ensureImage()`: look for the file, `Open` it, let
`Bytes` in, `Verify`; `Cut` and `Leaves` end it in the middle, or leave a rejected image that `rm` failed to remove. `sweep` is `validateAll()`, beside the checks of single
URLs that handlers make. The catalog that is shipped has the built-in distributions in it again;
`Shipped` says which. A create takes an address and an image, which is why `CreateProofs` has the theorems
of both.

Where a proof module extends two components, the names of the second one differ from the first's
(`WarnInit`, `StatusNext`, `DistroTypeOK` and so on); each keeps its own specification and variables.

## 4. Runs

`tlc -config X.cfg M` for the module and configuration of each run in `PROJECT.json`.

### What holds

| Run | Shows |
| --- | --- |
| `audit` | Group commit, eviction and start-up keep every acknowledged entry through failed writes, crashes and damaged files (`AckedDurable`, `NothingDeleted`), agree with the file when nothing is under way (`SettledIsDurable`), and leave nobody waiting (`WaitersHaveAWrite`, `AppendsSettle`). The store implements `DurableLog` (`ImplementsDurableLog`), in order and without holes. |
| `license_dns` | With two syncs at once, a restart or a failed read, write or reload at any point, and unreadable keys: an unlicensed host has no zone, unless its withdrawal failed, a sync had the file at the same time or polls crossed (`WithdrawnUnlessOverlapped`); the resolver has what the file has, unless the last reload failed or was left out by a restart or a failed write (`ResolverCurrent`); a renewal leaves the writer alone (`RenewalInvisible`); DNS ends up following the tier, a failed sync being retried, with the same exceptions and one more: a write that overlapped or failed left another zone, and the writer takes the registry's for published (`DnsFollowsTier`). |
| `expiry_warnings` | What is marked was announced (`MarkedWasAnnounced`), each announcement for an expiry is of a smaller threshold than the one before (`CountdownTightens`), it is the nearest (`NearestDeadline`), and the last one comes for a key that stays (`LastWarningComes`). |
| `workloads` | With the autostart loop beside a request, scans, status queries that fail, a host that acts on its own, tier changes and restarts: an undisturbed start keeps the workloads that were seen within the cap of those Free shows (`CapHoldsUndisturbed`); a delete drops a running workload only when it came up after its status was read or the query failed (`DeleteSparesRunning`). |
| `addresses` | Two clones beside creates and deletes, a failed registry write: reservations never leak (`NothingLeaks`) and keep two clones apart (`UniquePoolAddresses`). |
| `issuance` | Two events in progress, one delivered again, one failure and one restart: one licence per subscription (`OneLicenceUndisturbed`), a revoked one stays revoked (`StaysRevoked`), the file has what was answered (`FileIsStore`), a purchase and a renewal reach the customer (`PurchaseSettles`, `RenewalIsMailed`). |
| `accounts` | Two requests beside the reset script, a reload, a failed write, an expired session or a restart: sessions follow the password (`PasswordChangesRevoke`) and the role (`RoleChangesRevoke`) of their account, an admin remains (`AdminRemains`), accounts are found by name (`EveryoneIsFound`), the file agrees (`FileAgrees`). |
| `status` | Two rounds of the poll at once, slow writes and channels, other events, a restart: the notification list implements `StatusFeed` (`FeedImplemented`), and clients and change detection catch up (`CatchesUp`). |
| `live_view` | Holders that come and go, sockets that fail while opening or close late, stops of the server, expired sign-ins: one connection (`OneConnection`), made again (`Reconnects`); a deleted workload does not come back (`DeletedStaysGone`), and the list catches up but for deleted names that were created again before a list confirmed the delete, or that only empty lists confirmed (`ListCatchesUp`). |
| `browser_sessions` | Two tabs whose requests renew the sign-in at once, logins here and elsewhere, logouts, expiry, a renewal that fails and a restart: only the last login counts (`LastLoginOnly`), with one refresh token (`OneRefreshToken`), and every request and tab ends up somewhere (`EverythingEnds`). |
| `distros` | Two handlers at once beside two calls of `ensureImage()` and a sweep, with a failed write, a cut-off download or a restart: images that are returned are whole and verified (`ImagesAreWhole`), the sources in use are the stores' (`SourcesFollow`), validation catches up (`ResultsCatchUp`). |

Each property with an exception names it in its statement, and the exception is what one of the
following shows.

### What does not

The run `issuance_twice` violates `OneLicence`: a checkout is delivered again while the first delivery waits
for Stripe. The guard looked before the wait, so two keys are minted and mailed.

The other divergences have a configuration that reproduces each, to be run with the module it is named after, or the
MC module of that one where there is one:

| Configuration | Violated | What happens |
| --- | --- | --- |
| `AuditStoreTorn` | `NothingDeleted` | `appendFile` fails after part of a line. The retry appends behind it, so its first entry shares a line with the remains, does not parse, and is spliced from the window. No file has it. |
| `LicenseDnsOverlap` | `FreeHostWithdrawn` | A sync has built its zone and is writing when the licence lapses. The withdrawal writes its banner, the sync's write lands after it, and the zone is served until the next start-up. |
| `ExpiryWarningsLate` | `WarnsBeforeExpiry` | A key whose expiry passed while the host was off is announced as due tomorrow. |
| `WorkloadsRace` | `RunningWithinCeiling` | Two starts read statuses before either runs its command. Each fits, both are admitted, together they exceed the ceiling. |
| `WorkloadsBoot` | `RunningWithinCeiling` | The autostart loop starts every flagged workload without the cap. |
| `WorkloadsSqlite` | `RefreshTakes` | `update()` of the SQLite registry has no statement for the specs a scan refreshes, and answers true. |
| `AddressesPool` | `UniqueAddresses` | `POST /api/workload` with an address of the pool registers the row and reserves nothing. The next clone is handed that address. |
| `LicenseIssuanceLost` | `PurchaseIsIssued` | Stripe does not answer while a key is minted. The handler logs it and answers 200, so the event does not come again. |
| `AccountsTwice` | `NamesAreUnique` | Two registrations of one name look it up (`services/auth.ts:117`) before either has hashed its password. Both are created; the index knows the later one. |
| `AccountsReset` | `ResetEndsSessions` | `scripts/reset-admin-password.sh:14` says that all sessions of the user are invalidated after a reset. `reload()` replaces the users and touches no session. |
| `StatusEventsTwice` | `ToldOnce` | A round takes longer than the interval. Its event is in the list and its status not yet recorded, so the next round tells the event again. |
| `LiveViewBackoff` | `BacksOff` | The server accepts an upgrade before it looks at the cookie. Each refused connection has opened, which resets the delay that `docs/ADMIN-GUIDE.md:647` says grows exponentially. |
| `LiveViewStale` | `NoStaleList` | Two rounds of the poll send in the order opposite to the one they read in. The newer list clears the pending delete, the older one brings the workload back. |
| `LiveViewHidden` | `ConfirmedComeBack` | The only workload is deleted. The list that confirms it is empty, and the pages drop empty lists, so the store keeps the name pending although `src/stores/workload-store.ts:129` says that confirmed names are cleared. Every workload of that name is hidden until the page is loaded again or a list with others comes without it. |
| `BrowserSessionsKicked` | `LastLoginWins` | A tab is told that its session was replaced and signs out. The cookie it sends is by then the one of the login that replaced it (`routes/auth.ts:24` calls the rule "last login wins"). |
| `BrowserSessionsRenewal` | `Uninterrupted` | Two requests are denied at once and both ask for new tokens. The refresh token serves once; the one that is late signs the user out, although the sign-in was renewed (`docs/USER-GUIDE.md:54`). |
| `DistrosUnverified` | `BuiltinsAreVerified` | The shipped catalog lists built-in distributions again without a digest and hides the built-in source, so an image that `docs/ADMIN-GUIDE.md:425` says is verified is not. |
| `DistrosOverride` | `OverridesStay` | The migration of start-up (`index.ts:228-233`) removes custom entries named like a catalog entry, and with them overrides that `docs/ADMIN-GUIDE.md:476` offers. |

Met while modelling, and visible in the actions:

* `dnsDeps.writeFile` (`index.ts:502`) writes in place, where `dns-writer.ts:13` asks for an atomic write;
* a withdrawal that fails is logged and not tried again before the next lapse or start-up, so the zone it
  was to withdraw is served on; a sync that fails after it opened the file leaves it cut short, and if workloads
  then go back to what `lastZone` has, nobody writes it again; after two syncs that overlap the file may have the older
  zone or a mixture, and `lastZone` the newer one;
* the node count of a new key is not applied before a restart (`license-watcher.ts:93-99`);
* a status query that fails counts as not running: the cap leaves the workload out of its sum
  (`free-tier-cap.ts:60`) and a delete removes its row (`microvm.ts:968`);
* `save()` replaces a record whatever became of it, so of two checkouts that overlap, the second
  brings a licence back that was revoked in between;
* a restart during `LicenseStore.persist()` leaves a file that does not parse, and `init()` takes it for
  one that is not there;
* a cancellation whose write fails is answered 500, and its retry 200 without a write, because the
  memory already has it;
* a renewal that comes while the checkout is in progress finds no record and is ignored; if Stripe
  had answered the checkout before it, no key covers the new period;
* the clone's duplicate check uses definitions read before the host was asked for the source's status;
* `add()` changes the memory before the file: after a failed write the answer is 500, the address is
  released, and the row stays;
* of two rounds of the poll on one workload the older may record its status last, and the event of a change
  back is then told though nothing changed; with rounds that always overlap the last event may stay wrong;
* nothing is polled while no client is connected, the first look after a restart tells nothing, and a workload
  that is deleted and created again is compared with its predecessor;
* the client stops for good after 20 attempts in vain, until the page is loaded again;
* a second call of `ensureImage()` during a download returns the file as far as it has come, and so does any call
  after a download that was cut off; an image that was complete and unverified when the process stopped is
  returned unverified; the file is named after the distribution, so a change of its URL downloads nothing;
* a sweep of `validateAll()` puts its results over newer ones of single URLs, until the next day's sweep;
* a write of `users.json` that a restart cuts off leaves a file that `init()` takes for one that is not there, and
  the next registration is the first.

## 5. Bounds

Every bound is a constant, and its comment begins with `bound:`. The theorems hold for every value of them.

| Run | Bounds | Why they are enough |
| --- | --- | --- |
| `audit` | window 2, 5 appends, 3 faults, any number of flushes | one write can cover several entries while later ones arrive; two batches overflow; a fault can hit the archive, the retry and the restart that follows |
| `license_dns` | 1 poll, 2 syncs, 2 zones, 2 licences, 2 changes, 1 fault | a lapse and a renewal, or two of either, around two syncs that overlap each other and the withdrawal; a restart or a failure at each step. A second poll would only add polls that cross, which the properties except; the theorems are about any number |
| `expiry_warnings` | 3 thresholds, 2 expiries, 9 days, 2 renewals, 2 faults | several thresholds fall due at once and one at a time; a roll-back and its return; a crash and a failed write of one announcement |
| `workloads` | 3 workloads (an Apptainer instance, a cloud VM, a MicroVM), 1 request and the loop, room for 1 in each ceiling; one row and one flagged workload at start-up, whose flag may change | each kind of workload; the ones Free shows are over both limits when the other runs; start, delete and each part of a scan beside the loop and the host |
| `addresses` | 3 workloads, 2 clones, pool of 2, 1 other address, 1 failed write | the clones contend for names, for addresses and for a row that comes and goes. The workloads that are not there at start-up are alike, and so are the clones |
| `issuance` | 1 subscription, 2 periods, 2 events in progress, 1 more delivery, 1 fault, 1 restart | events of different subscriptions share only the file, and its overlap is `Longer` already; the second period tells a stale key from a fresh one |
| `accounts` | 2 users, 2 names, 2 passwords, 2 requests, 1 fault | two admins are what the last-admin rule is about; two requests overlap in bcrypt and in the file; the script, its reload, and a fault come on top. Users, names, passwords and requests are alike |
| `status` | 2 workloads, 2 rounds, list of 2, 2 changes, 1 other event, 1 fault | a round overlaps the next at each of its suspensions; the list overflows; a change and its reverse, or a change of each |
| `live_view` | 2 workloads, 2 sockets, 1 round, 2 attempts, 2 holders, 2 lists on their way, 2 edits, 2 faults | an old socket closes while a new one opens; a list read before a delete arrives after it, and a name is created again. The server's rounds overlap in `LiveViewStale` only, and in the proof |
| `browser_sessions` | 2 tabs, 2 requests, 2 logins, 1 fault | two requests of one tab or of two renew at once; a login here or elsewhere comes in between |
| `distros` | 2 distributions, one built in, 2 URLs, 2 handlers, 3 requests and calls in all, 1 fault | two handlers overlap and a call sees what both made; a distribution is custom, in the catalog or built in, and more than one of them |

`CHECK_DEADLOCK FALSE` stands where the bounds let the system come to an end: nothing left to append, no
more days, no more purchases, requests, edits or logins. `workloads`, `status` and `distros` run with deadlock
checked: polls, sweeps and handlers go on for ever.

## 6. Fairness

* *AuditStore*: I/O that was started ends, and the service manager starts a stopped backend. Nothing
  says that I/O succeeds, that anyone appends again or that the process stays up; failures are
  bounded by `MaxFaults`.
* *LicenseDns*: the poll and sync timers fire and the I/O they wait for ends, each task by itself.
  Nothing says that keys or workloads change; `DnsFollowsTier` speaks of what holds after the last
  change, which `MaxChanges` bounds.
* *ExpiryWarnings*: the hourly check runs and ends, and days pass.
* *LicenseIssuance*: Stripe delivers what is due, which it does for days, and what a handler waits for
  comes. Cancellations, failures and restarts are not promised and not excluded.
* *StatusEvents*: a round goes on. The interval fires while a client is connected, commands and channels have
  time limits, writes end. Connecting is not promised; `CatchesUp` speaks of clients that stay.
* *LiveView*: sockets open or fail, timers fire, lists arrive, and the poll and the handlers go on. That the
  server is up and the user signed in is the hypothesis of `Reconnects`.
* *BrowserSessions*: each request and each tab goes on as long as it waits for the server and not for the user.
* *Distros*: the sweep comes every day and ends, and a handler that waits for a mirror or a write goes on.
  Downloads are under no duty.

`setInterval`, the completion of file operations and Stripe's retries are what these rest on. Weak
fairness is enough: none of these steps is disabled by another part again and again.

## 7. Proofs

`tlapm M.tla` for the eight proof modules. The theorems hold for every value of the constants that
satisfies the module's assumptions. Every invariant, every action property and both refinements that the
passing runs check are proved; what is not is listed at the end of this section. The inductive invariants were
checked by TLC before they were proved, those of LicenseIssuance and Distros also with a third handler or call.

**AuditStoreProofs.** `TypeCorrect`. `AckedIsDurable` and `NothingIsDeleted`, both under `~TornAppends`, rest on one
inductive invariant. `AckedDurable` is not inductive: an
entry is acknowledged when the write that covers it is done, so one has to know what that write will
have put on disk, and rewriting the file loses nothing only because what it does not contain is in the
archive. The invariant says so in four parts: `AtRest` (between lives nothing is in memory, and an empty file
is only made where there is none), `EvictedAreArchived` (what leaves the window, and all of this life
that left it, is in the archive), `FileIsCovered` (what the file holds, the next file, the archive or a
file set aside holds), `CountIsCovered` (the first `covers` entries of this life are in the bytes being
written or the archive, and after the rename on disk). `NoLostWakeup` is inductive by itself with the
types. The assumption about torn appends is needed: `AuditStoreTorn` has the counterexample without it.

`SettledFileIsWindow` needs no such assumption. What makes it inductive is `Agreement`: a write whose count is the
number of appends has the window as its bytes, and after the rename so has the file. Entries that arrive
during a write make its bytes stale, and then the count says that another write follows.

`StoreImplementsDurableLog`, also under `~TornAppends`, is the refinement, step by step: an append is `Accept`; what reaches the
archive, and the rename, is `Commit` of the oldest pending entries; the end of a write is `Acknowledge`; a crash is `Crash` with
the lines that reached the archive; everything else stutters. That they are the oldest is the invariant `Ordered`: the number
of an entry is its age, a write holds nothing newer than its count, and what overflows is the oldest part of
the window. The module extends `MCAuditStore`, where the mapping is. An abstract step acknowledges what is
durable already, so the refinement includes `AckedDurable`.

**LicensePollProofs**, on LicenseDns: `DnsTypes`, `ResolverFollows`, `RenewalsAreInvisible`, `ZoneIsWithdrawn`. `ResolverFollows` is
inductive in the form `Signalled`: the resolver has the file, or a reload is still to come, or one was lost; a failed
write loses one. The
other two hold of any number of polls at once, unless polls crossed (`crossed`). The interval is an hour and the code
does not wait for the last poll: one that hangs in its notification while another moves the tier follows a licence no
longer in force. `Followed` says that, until polls cross, each notification is about the tier in force
(`Announced`), and that the writer is missing or left over only while one is under way (`WriterFollows`). `Withdrawn` says of a host without the tier that its file has no zone, or a withdrawal
is on its way (`WillWithdraw`), and that a write which is alone leaves nothing of an older file behind it (`NoTail`,
`FillsBlank`), for as long as the last withdrawal did not fail: a withdrawal that fails leaves the
zone, or part of it, and nothing is on its way (`unwithdrawn`). `overlapped` is the third exception the property
names; `LicenseDnsOverlap` shows it.

On ExpiryWarnings: `WarningTypes`, `MarksAreAnnounced`, `AnnouncesNearest`, `Tightens`. What makes them
inductive: the marks of the file and of the check in progress are closed upwards (`UpClosed`), because
`decideWarning` marks every threshold crossed; for every mark about to be written it or a tighter
threshold was announced (`AnnouncedBelow`); and the last announcement is the tightest mark of the state that
records it (`Accounted`), so the next is tighter still.

**WorkloadsProofs**, on Workloads: `TypeCorrect`, `CapHolds`, `DeleteSpares`. The invariant `Views` says what an undisturbed start
knows: as long as it reads statuses, the rows it took are those of the registry that Free shows, and those it noted
are the ones that run among those that answered, but for the ones it was told nothing about (`dark`); once its command
is under way, its workload still fits beside what it was told runs. `Types` adds to
`TypeOK` that a handler with a command has the name of a workload. `Watches` is the same for a delete: what it
noted is what runs, among what has answered and was not `dark`. The proof uses the cardinality and
sum operators only as functions of their arguments, so no induction over sets is needed.

On StatusEvents: `StatusTypes`, and `StatusIsFed`, the refinement of `StatusFeed`, for any number of workloads and
overlapping rounds. A workload is known by the event that tells of it from the moment the event is in the list, while
its record is older until the channels are served; so the mapping depends on which round tells of it, and is
well defined because two rounds tell of one workload only if it counts as raced (`OneTeller`). With that, and
with `Heard` (a round that has its list has a status for each workload) and `Tellers` (a round that tells is at an
event), each stretch of a round between two suspensions is one abstract `Look`: the workloads passed over
changed quietly (`NextToldIsFirst`), the one it stops at is told with its two statuses (`ScanKnown`),
and the one it told before becomes recorded, of which the feed sees nothing. Everything else that a round or a client
does is a `Look` at nothing, `Emit` is `Tell`, a restart is `Forget`.

**CreateProofs**, on Addresses: `TypeCorrect`, `LeaksNothing`, `ReservesOnce`, `PoolKeepsApart`. The first three rest on one
invariant that adds to the properties what a clone holds at each stage (`Holds`): from `reserveIp()` to the end
of the registration an address of the pool that is marked as its own, before that at most an address
that was asked for. `PoolKeepsApart` adds that a row with an address of the pool has one that is
reserved, and that an address a clone has just reserved is in no row (`PoolRows`); its hypothesis, that
nobody begins with an address of the pool, is part of the theorem.

On Distros: `DistroTypes`, `SourcesAreFollowed`, `ImagesStayWhole`. `Following` is inductive by itself: a store the image manager does not
follow has a write under way, or one that failed. For images it is not enough to look at the call that returns.
`ImageInv` says which call's bytes the file of a distribution is (`FileOwned`), that a stream writes into the file of
its own distribution even after the name has gone (`StreamOwned`), and for a distribution whose calls did not
overlap and were not cut off that its one call has got what its stage says, and that between calls there is a
sound image or none (`Clean`).

**LicenseIssuanceProofs.** `TypeCorrect`, `IssuesOnce`, `CancellationStands`, `FileHoldsStore`. For a subscription whose
checkouts did not overlap the invariant `SubInv` says: a checkout is alone, and has no record before the
store is changed and one after (`OneCheckout`, `CheckoutRecord`); a cancellation in progress, and one that
was answered, leaves a record that is not live (`Cancels`); what was issued is on record, and a checkout
in progress has issued nothing yet (`Counted`). The four need each other: a cancellation stands because a
checkout that is about to be saved found no record, and it found none because nothing was issued.
`FileInv` is separate: one write at a time, over a file that it emptied, with the records as they are
unless another handler is about to write them.

**AccountsProofs.** `TypeCorrect`, `AlwaysFound`, `AdminAlwaysRemains`, `FileAlwaysAgrees`, `PasswordAlwaysRevokes`, `RoleAlwaysRevokes`, for any
number of users, names, passwords and requests. `EveryoneIsFound` is inductive with two facts beside the types: every table
that may still be written or read, of a request, the file or the script, has no name twice but those that were registered twice
(`AllGood`), and an index entry is an account of its name (`IndexNames`). For `AdminRemains` it is not enough that the accounts in
memory have an admin: a restart or a reload may bring back an older table. The invariant `AdminInv` says
so of every table in flight as well: the file, what a reload has read, what a request or the script is about to
write. `ChangeRole` and `Delete` keep it because they count the admins and change the table in one step.
For the file, `FileInv` adds to the property that a write which met nobody has the table in memory as its bytes and found the
file as it left it, and so has a reload. For the sessions, `RevokeInv` says of every request that is still to make one that
the password and role it has in hand are those of the account, whose object it still holds, unless the account
changed in between and it is marked `late`: the session it makes comes after the revocation and from what was
read before it.

**LiveViewProofs.** `TypeCorrect`, `KeepsOneConnection`, `DeletedStaysAway`. `OneConnection` is inductive with the types, one
lemma per group of actions: what matters is that a socket that is let go of is unhooked first, so that its end, however late,
is nobody's. `DeletedStaysAway` is about any number of rounds at once, as long as none sends before one that read earlier
(`disordered`); `LiveViewStale` shows that this is needed. `ahead` orders the rounds under way (`InOrder`). Along the
lists on their way and then the rounds in that order, once one lacks a workload, the later ones do, down to the registry
(`Falls`), for a name that was not created again over an older one (`Once`); of the rounds alone that holds in any order of
sending (`OnceRead`), which a page that is loaded again starts from. A deleted workload that a list still has is pending,
so that the page keeps it out (`Held`). TLC checked this invariant with three rounds before it was proved.

**BrowserSessionsProofs.** `TypeCorrect`, `OnlyTheLastLogin`, `SingleRefreshToken`. `TypeCorrect` carries `Counted`: no more
grants are issued than there are logins and requests, so a grant that is issued is a new one. With
that `LastLoginOnly` is inductive: a renewal takes over the login of the refresh session it spends, which it
finds valid in the same step. `OneRefreshToken` is proved by itself, in the form that any two are equal.

**Only model-checked.** The liveness properties (`AppendsSettle`, `DnsFollowsTier`, `LastWarningComes`,
`PurchaseSettles`, `RenewalIsMailed`, `CatchesUp`, `Reconnects`, `ListCatchesUp`, `EverythingEnds`, `ResultsCatchUp`),
which the prover does not reach: they need fairness and `ENABLED`. The counterexamples of section 4 are TLC's.

## 8. Not modelled

* **Toll** (`services/toll.ts`): pure functions no route calls; section 9.
* **Provisioning and the network manager** (`services/weaver/`): not in the repository. Where the code
  calls them the models have their interface and no more. `DELETE` with a provisioner and the statuses
  of a provisioned workload are therefore left out.
* **Quotas, access lists, lockout**: limits per user, kept like the users, checked and changed in one step
  each. The lockout counts attempts in memory and writes its file without waiting.
* **Notification channels**: one external call per event and channel, whose failure is logged.
* **Smoke tests and the search for URLs** (`services/distro-tester.ts`, `distro-url-resolver.ts`): most of it is what a
  guest prints and what a mirror lists. Two tests would share the address 10.10.0.254, and a verdict is
  set before the clean-up; neither is modelled.
* **DNS zone contents** (`services/dns-zone.ts`): a pure rendering; a zone is the version of the registry
  it was built from.
* **Key format, signature and verifier** (`entitlement/`, `license*.ts`): parsing and cryptography. What a key
  file resolves to is an input.
* **Firmware, networks, compliance reports, host information, doctor, metrics, Prometheus**: reads and text.
* **Agent**: one call whose stream is relayed.
* **Middleware, plugins, mail**: configured library code without state of their own; mail is the history
  of keys mailed.
* **Pages and the other stores of the web client, demo mode, the terminal client**: presentation. The
  terminal client shares one renewal among its requests, and retries each without its token.
* **NixOS module, build files and repository scripts**: packaging. The reset script is in Accounts.

These are most of the lines of the repository: pages, help texts, demo data, tests, and reads of the host
that are shown as they are.

Within the modules that exist: the audit entries a
handler writes; a scan's write of the registry that fails; mail that fails; the renaming of tiers in `LicenseStore.init()`; idle time and the contents of tokens in Accounts; the
filter of a broadcast by user and the choice of channels in StatusEvents; the progress of provisioning in LiveView;
the ad-hoc image of one workload in Distros.

## 9. Plan

The order is by what a fault would cost: the log, the licence and what it controls, the workloads, their
addresses, the licences sold, the accounts, what is told of the workloads, what a browser makes of it, the
images. That is what is done. Next:

1. *Toll* (`services/toll.ts`): seat arithmetic over the log, against a reference definition.
2. Composition: Workloads and Addresses over one registry, with the pool; Accounts and BrowserSessions over
   one session store.

One run per question: as modules are added, the runs of section 4 that ask of one part give way to those of
the composition that contains it.
