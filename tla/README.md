# Ogre MCP in TLA+

Ogre MCP shows a player's game to their AI tools. A **bridge** on the player's
computer (Go, `src/bridge`) logs in to a **platform** (TypeScript over Postgres,
`src/platform`), installs a kit's add-on into the game (its *adapter*), watches
the files the game writes, and uploads each one that changes. The platform keeps
every upload as a row, lets the kit's interpreter (`src/kits`) make a snapshot of
it, and serves tools over MCP that read the snapshots.

This directory models the parts of that in which order, failure and concurrency
decide whether the program is right, and the readers whose bounds and searches do,
checks them with TLC on small instances, and proves with TLAPS, for all instances,
the safety properties of every part but some of the readers.

| module | models | checked by | proved in |
| --- | --- | --- | --- |
| `Uploader` | `bridge/internal/upload` between the watcher and the ingest route | `MCUploader` | `UploaderProofs` |
| `Login` | `bridge/internal/auth` against the OAuth server | `MCLogin` | `LoginProofs` |
| `Session` | `bridge/internal/tray` between the login, the uploader, the kit poller and the menu | `MCSession` | `SessionProofs` |
| `Adapter` | `bridge/internal/adapter`, the game and the menu's adapter lines | `MCAdapter` | `AdapterProofs` |
| `Ingest` | every transaction on a user's uploads, snapshots and devices | `MCIngest` | `IngestProofs` |
| `UserRows` | abstract: a user's devices, uploads and snapshots, each operation one step | as `RowsSpec` of `Ingest` | `IngestProofs` |
| `ToolCalls` | a tool call from its request to its events row, reports and visits | `MCCounts` | `ToolCallsProofs` |
| `SignIn` | sign-in, identities and web sessions | `MCSignIn` | `SessionProofs` |
| `Lifecycle` | abstract: what lets someone in is opened once and closed for good | as `LifeSpec` of `SignIn` | `SessionProofs` |
| `Grants` | approvals, grants, tokens, devices and their revocation | `MCGrants` | `GrantsProofs` |
| `Server` | containers that migrate, start and answer `/health` | `MCServerParts` | `ServerProofs` |
| `Limits` | the limits a process keeps in memory: buckets, fetch counts, key sets | `MCCounts` | `ServerProofs` |
| `Buckets` | abstract: a bucket per name, whatever is kept of it | as `BucketsHold` of `Limits` | `ServerProofs` |
| `Readers` | composes the readers below, each given one input | `MCReaders`, `MCServerParts` | see below |
| `Counts` | a behaviour of `ToolCalls` or of `Limits` | `MCCounts` | as its parts |
| `ServerParts` | a behaviour of `Server` or of `Readers` | `MCServerParts` | as its parts |
| `LuaReader`, `LuaText` | `kits/wow/interpreter/lua.ts`, and its reference: the text of given values | `Readers` | |
| `Bg1Save` | `kits/bg1/interpreter`: a save's bounds, lists and state | `Readers` | |
| `WowState` | `kits/wow/interpreter`: parse checks, flavor, gear, path, skills | `Readers` | by `WowShown` |
| `WowShown` | what the WoW kit tells of one parsed file and of the bags against what is worn, by `WowState` | `Readers` | `ToolCallsProofs` |
| `Results` | the tools' arguments and the trim of a result under its cap | `Readers` | `ToolCallsProofs` |
| `Trims` | one call of a kit's tool, answered by `Results` | `Readers` | `ToolCallsProofs` |
| `Reading` | a part that makes one answer of one input; `Trims` and `WowShown` extend it | `Readers` | `ToolCallsProofs` |
| `MigrationFile` | the splitting of a migration file (`migrations.ts`) | `Readers` | |
| `UploadRequest` | a multipart upload request inside the server (`ingest.ts`) | `Readers` | `IngestProofs` |
| `Sorting` | `Array.prototype.sort` | `Readers` | `ToolCallsProofs` |

## 1. The system

### The bridge (one process per user, `src/bridge`)

| component | state | operations | talks to |
| --- | --- | --- | --- |
| Uploader (`internal/upload`) | an entry per source instance (pending change and its `seq`, failures, due time, stopped, last SHA), the error counters, `loginRequired`, a wake channel of capacity 1 | `Add`, `CountError`, `Resume`, `Run` (scan, sleep, attempt, finish) | the watcher adds, the controller resumes and counts, attempts go through the login client to ingest |
| Login (`internal/auth`) | access and refresh token, expiry, `unsaved`, `mu`; the keychain's copy | `AccessToken`, `Do`, `DoUpload`, `Login` (device flow), `Save` | OAuth server, keychain; every other bridge request |
| Watcher (`internal/watch`) | watched folders, known instances, a debounce timer each, rescan interval | file events, `settle`, `rescan`, `Resync`, lost events | kernel file events in, `Add` out |
| Adapter (`internal/adapter`) | per kit the staged zip, the folders that wait for a game restart; `mu`; on disk the folder and what was renamed aside | `Sync`, `ApplyStaged` | the kit list, adapter downloads, the process list, the menu |
| Kit poller (`internal/kits`) | the last list, its ETag and whether it is `known` | periodic `poll`, `Refresh` | `GET /api/v1/kits`; calls the controller's `onFetch` |
| Controller and menu (`internal/tray`) | the parts of the current server, the login under way, `saving`/`saveGen`, the menu model | `Run`, `runServer`, `onFetch`, `followUploads`, `Login`, `retrySave`, `SetServer` | starts, stops and joins all of the above |
| Self-update, lock, app bundle (`internal/selfupdate`, `lock`, `macapp`) | the running executable, the new and the old one on disk, the lock file | check, stage, swap, relaunch, `Cleanup`; `Install` into Applications | the release server; the next process |
| Folder search (`internal/locate`), manifest, config, versions | none | pure searches, parsing, comparison | the controller |
| Keychain, log file, autostart, dialogs | the OS's | get, set, delete; rotate; native calls | the login client, the user |

### The platform (Node processes over one Postgres, `src/platform`)

| component | state | operations | talks to |
| --- | --- | --- | --- |
| Ingest and the user's rows (`ingest`, `devices`, `account`, `retention`, `reparse-uploads`) | `users.tier`, `devices` (`first_stored_at`, `revoked_at`), `uploads`, `snapshots` | `store`, `createDevice`, `revokeDevice`, `deleteUserData`, `deleteAccount`, the retention batch, the re-parse command | Postgres row locks; the kit's interpreter |
| Upload rate limit and token buckets | a bucket per device or address, in memory | `take`, refund, sweep, drop of the least recently used | ingest, the user code page, client registration |
| Device login, OAuth server (`oidc*`) | rows by id with their grant, consumed marks, keys | approve, poll, refresh with rotation, revoke a grant | the bridge's login, AI clients |
| Sign-in and web sessions | session rows, identities | sign in, validate and renew, sign out | browser |
| Tool calls, usage and events | usage counters per day, pending event inserts | count, run, refund, record | MCP clients, snapshots |
| Migrations | the applied list, an advisory lock | apply each file once in order | start of the server |
| Bridge API, kits, account and admin pages, web UI | the registry, read once | single queries | the bridge, browsers |

### The kits (`src/kits`, `src/packages/sdk`)

Each interpreter is a pure function of an upload's bytes: the WoW kit reads Lua
tables (`lua.ts`) and builds a state and a history; the BG1 kit reads a binary
save (`gam.ts`). Their hard part is bounds and malformed input, not order.

### What makes each part right, and what is hard about it

- **Uploader.** A file written during its own upload is sent again; an error that
  is counted during an upload is not lost with it; a change added between the scan
  and the sleep wakes it; a backoff is not cut short; nothing stays pending for
  ever. Hard: four callers change the entries between any two of Run's steps, and
  an answer may be lost after the server kept the row.
- **Login.** The server replaces the refresh token at every refresh and revokes
  the login if a replaced one is seen. So a token must be on disk before it is
  used, two callers must never refresh with the same one, and a refusal of old
  tokens must not end a new login. Hard: keychain failures, crashes, and a device
  login that is approved during a refresh.
- **Adapter.** No update under a running game, no downgrade, no link replaced, and
  never a moment from which the folder is lost. Hard: two renames with a crash,
  a failure or a person between them; and the game, which starts when it likes.
- **Ingest.** Slots of a device limit are not oversold; no row repeats the row
  before it; nothing outlives a revocation or a delete; transactions do not wait
  for each other in a circle. Hard: read committed shows each statement another
  state, and the row locks are taken in pieces.
- **Watcher.** Every write is reported once its file is quiet, whatever folder was
  replaced and whatever event the kernel dropped; a stale timer settles nothing.
- **Controller.** The parts agree on whether the bridge is logged in; a change of
  server and a login exclude each other; a replaced save retry changes nothing.
- **Self-update.** There is a program at the path at every step, and one of the
  two versions holds the lock.
- **Buckets, web sessions, OAuth rows, tool calls, migrations.** No limit is
  passed by concurrent callers or refunds; a sign-out is final; a revoked grant
  stays revoked; each counted call is refunded at most once, on its own day; each
  migration is applied once, with its record.

`PROJECT.json` lists the components with their files and the hazards with their
lines.

## 2. Conventions

- An action is one step of the code between two points at which something else can
  act: what runs under one mutex, or between two awaits, is one action, with all
  it calls. Its name is the function's, or says which part of it.
- Names of variables are the source's. Variables marked *history* are read by no
  guard; they record what a property compares with.
- `Budget` is a record of how often the environment may do each thing (write a
  file, fail, crash, release). It is the only bound on behaviour; every counter of
  the code that grows is bounded through it. The proofs hold for every budget.
- An operator after the comment "A mutant of ..." is the definition below it with
  the error that the comment names. No specification uses it. It serves to show
  that a property of the run fails when the code has that error.
- Data is abstracted to what the properties tell apart: bytes and their SHA-256
  are model values, an answer is its status, a version is a number.
- Proofs are in modules of their own. No module with a theorem reaches a RECURSIVE
  operator.

## 3. The modules and the code

### Uploader

State: `entries` is the map of `upload.go` (a record per source instance: pending
change, `seq`, `ifChanged`, failures, due time, stopped, error, last SHA), `counts`
the error counters, `loginRequired` and `wake` the flag and the channel of capacity
one. `pc`, `job` and `res` are where `Run` is and what it has in hand. `file`,
`dirty` stand for the game and the watcher's debounce timers, `now` for the clock,
`held` and the other history variables for the server's last row and what was counted.

`Run` is split where it holds no lock: the scan (`StartJob`, `SleepUntilDue`), the
select (`Wake`), the read of the file (`ReadFile`), the request (`Exchange`), and
`Finish`. Between any two of them `Add` (from `Report` and `ReportResync`),
`CountError`, `Resume`, `Tick` and `Restart` act. `Classify` has every class of
answer of `send.go`; a lost answer is an outcome of `Exchange` in which the server
may or may not have kept the row.

### Login

State: the client's `access`, `refresh`, `stale`, `unsaved`, the keychain's
`stored`, each caller's place in `calls`, the device login under way, and the
server's `granted`, `alive`, `gen` (the newest refresh token of each grant is a
number: a refresh makes the one before it a replaced one). Who is in a refresh
holds `mu`. A call is `Call`, `Token` (memory and keychain), `Refresh`, `Answer`
(adopt and save, or end), `Send`, `Verdict` (the 401 rules of `do`). `Restart` loses
the memory, at any point; a lost answer makes the grant *lossy*, the history variable
that `ReuseOnlyAfterLoss` refers to.

### Session

State: `base`, `next`, `run`, `loggingIn`, `saving`, `saveGen` are the controller's
fields; `logins` and `retries` are what `tasks` counts; `menu` is the model's login
state; `uploader`, `follow` and `poller` are what each part has in hand. `auth` is
what the login client of each server holds and `alive` whether the server accepts
it. The requests themselves are in `Login` and `Uploader`; here a request is one
step that asks the login client (`Ask`, or `AskToken` for a token that need not be
sent) and a later step handles its outcome, which is how an answer gets old.
`StartServer`, `StopParts`, `Join` are an iteration of `Run`; `Login`, `LoginShows`,
`LoginEnds`, `LoginReturns`, `LoginTells` the device login between its locks;
`StartRetry`, `RetryAsks`, `RetryGot`, `RetryEnds` the save retry; `OnFetch` and
`OnFetchUnsaved` the poller's callback; `Follow*` an iteration of `followUploads`.

### Ingest

State: one user's rows (`tier`, device `state` and `stamp`, `uploads`, `snapshots`),
the row `locks` with their modes, and the statement each transaction is at: two
requests (`req`), a delete of the data or the account (`del`), a re-parse (`rep`), a
retention batch (`ret`). An action is one statement that locks or reads. `Needs`
says what the next statement has to lock, `Free` whether it may; `Circle` is
Postgres' deadlock and `Abort` its answer. `Commit` writes what the transaction wrote.
The interpreter is an external choice of whether the bytes parse.

`UserRows` says what the user may rely on: every operation happens at once or not at
all. A store takes a slot or finds one that is free, and is of other bytes than the
device stored last; a row removed does not come back; a revoked device stores nothing.
`Promised` is `Ingest`'s instance of it: `last` is `lastRow`, the bytes of each device's
newest row, and `claimed` the devices whose first snapshot is stored. All but the
commits are stutters. A retention batch may commit after its user became a paid one
(the batch chose its rows by the tier it read), so `Expire` does not ask for the tier.

### Adapter

State: `disk` is the entry at each place (missing, a folder with a version, a
folder without a readable one, a link, another file), `old` the folders renamed
aside, `staged` and `restart` the updater's memory, `sync` the one sync that holds
`mu` and where it is, `results` what a sync returned and the `menu` does not show
yet. A sync goes through `Inspect`, `Zip`, `Install` and `Swap`, place by place; a
crash, the game, the player and the server act between any two. `Install` ends with
the rename of the old folder aside and `Swap` is the rename of the new one in, with
`PutBack` when that fails.

### ToolCalls

State: the rows of `users` (`tier`), `user_games` (`enabled`), `snapshots`,
`usage_daily` (`usage`), `events` and `issues`; in memory each `call` with the query
it waits for, the recorder's `pending` inserts and its count of `dropped` events.
`seen`, `charged` and `had` are history. A call is `Receive` (the route's checks),
then one `Handle` per query: count, run the tool, refund when the service failed,
record. `report_issue` is a transaction of three queries under the lock of the user's
row (`reporter`). Between any two queries the user changes tier or games, uploads,
deletes the data or the account, midnight passes (`Tick`) or the process ends
(`Crash`). `Visits` is the grouping of `events.ts`, `VisitCalls` the query of
`report-issue.ts`.

### SignIn and Lifecycle

State: `users`, `oauth_identities` (`owner`), `web_sessions` (`sessions`, by token),
each browser's cookies (`jar`, `flows`) and the requests under way (`req`). A request
carries the cookies of when it was sent: `Send`, `Select` with `Expire` or `Renew`
(`validate`), `Handle`, the queries of a sign-in or a link (`SignInSteps`), `Answer`,
which sets cookies or is lost, and `Fail`. `Age`, `Cleanup` and `Forget` are time, the
cleanup job and the browser. `Lifecycle` says what a session promises: opened once,
closed once, never again; `Life` is `SignIn`'s instance of it (a thing is open while
its row is there and has not expired).

### Grants

State: the rows of oidc-provider (`inter`, `grants`, `codes`, `tokens`), `devices`,
the user of the browser's web session (`web`) and the requests. `Start` and `Resume`
are oidc-provider's own routes, modelled from how it calls the adapter and the hooks;
`Interact` is the login and consent of `oidc.ts` by query, with the device's approval
and its undo; `TokenEndpoint` redeems and rotates; `RequireToken` is the check of a
call. `RevokeDevice`, `RevokeAgentGrant`, `DeleteAccount`, `SwitchUser`, `Expire`,
`DeleteExpired` and `Fail` come between any two queries. `closed` (history) names the
grants whose row was deleted and that no approval stored again.

### Server

State: what is deployed (`deploy`: each container's files, the bad ones, what is
recorded), each container's `step` with its `pending` files and open transaction
(`tx`), the advisory `lock` with the dead connections that wait for it (`ghosts`), the
`rows` of `schema_migrations` and how often each file was `applied`, and for `/health`
the shared check (`running`) and the waiting requests (`req`). A crash, a lost
connection, a commit whose answer is lost, an outage and a wait that times out happen
at any step. A commit whose answer is lost is reported as rolled back although it is
applied and recorded; the next run skips it.

### Limits and Buckets

State: the buckets of uploads, registrations and user codes (`buckets`, with the order
of last use and the last sweep), the posts under way, the three fetch windows and
`JwksCache`. `LimitUpload`, `Register`, `Post` and `FinishPost` are takes and refunds
with the sweep and the drop that `keep` does on the way; `AllowFetch`, `Document`,
`AskKeys`, `Fetched` and `Answered` the fetches; `Pass` and `Restart` time and the
process. `Buckets` is the abstract specification: each name has a bucket that loses a
request's cost and fills with time, and is full before its time only when it was
forgotten, one name of a group at once and, for uploads, only while as many others as
the map keeps are not full. The four limiters share nothing, so a behaviour uses one.

### Readers

One state machine that is given an input and answers it in one step, except the upload
request, whose parts, limits, early close and answer are steps (`UploadRequest`). A
tool's call (`Trims`) and a file and the gear of the WoW kit (`WowShown`) are modules of their
own because their properties are proved, and no module with a proof may reach the
RECURSIVE readers; each has a specification of its own, of that reader alone. The
algorithms are operators translated from the source: `LuaReader`'s `ReadSavedVariables`
by bytes, `Bg1Save`'s `ParseSave` by offsets and counts, `WowState`'s `ParseDb`,
`CompareGear` and `BuildInventory`, `Results`' tools with the binary search of the
trim, `MigrationFile`'s `StripTransaction`. Each property compares with a definition
made another way: `LuaText` writes the text from the values, the trim is compared with
trying every cut in turn, the gear with the quantified meaning of "better", a direction
with its distance from the way between the two places.

Positions are in tenths of a percent, as `percent` rounds them (sections.ts:76). The
compass's eighths of a turn need no angle then: a move of `a` tenths east and `b` north,
in the map's proportions, is north or south exactly when its angle from that axis is
less than a sixteenth of a turn, `a / b < tan(pi/8)`, the root of 2 less 1, which is
`(a + b)^2 < 2 b^2` (`Way`). The root is irrational, so no move lies on the bound.

In an upload request the parser runs from `readParts` on (`Started`): a refused device's
body is never read. A connection that closes during `findDevice` (`CloseUnread`) finds
no listener, and the parser, fed by a stream that is gone, has no end: the request has
no answer and no event, and `RequestAnswered` leaves this case out because nobody waits
for either. From `readParts` on each close is heard, and it holds without the case.

### Counts and ServerParts

`Counts` puts `ToolCalls` and `Limits` in one specification, `ServerParts` puts `Server`
and `Readers`. The two parts of each share no state in the code (`app.ts` gives them to
different routes, and migrations run before any), so a behaviour is one of either part,
with all that part can do, and the other rests: no event of one can matter to the other,
and none is checked against the other. The parts keep their own properties.

## 4. The runs

Each cfg bounds the environment by a `Budget`, a set of them ("stories": which events
may come, in every order) or `Max...` constants; nothing else is bounded. Symmetry is
used only in `ingest`, `counts`, `sign_in` and `grants`, which have no liveness
properties; in `counts` the two calls and the two clients that wait for keys are the same
model values, so that one symmetry serves both parts.

| run | instance | properties and what they show |
| --- | --- | --- |
| `uploader` | one file, a content within the cap and one over it; two writes, a sync, a fault, a restart; delays of 1 to 3 | `NothingLost`: at rest the last settled attempt read the bytes on disk, no counted error is lost, `Run` never sleeps past a due time. `WaitKept`: no call shortens a wait. `PendingSettles`: every pending change settles |
| `login` | two callers, two grants, three stories of up to four events: expiry, lapse, faults, revocation, crash | `TokensSafe`: saved before use, and a replaced token is sent only after a loss. `EndedByServer`: only the server ends a login. `CallsSettle`: calls return and unsaved tokens are saved |
| `session` | two servers, two logins, six stories of a login, a change of server, a revocation, a keychain failure, a change and a sync | `Tracked`: one login at a time, tasks belong to the running server, a replaced retry leaves `saving` be, "waiting" means a login. `LoginShown`: the menu ends on the truth |
| `session_resume` | one server, one login, one change, one fault | `UploadsResume` is violated: section 7 |
| `ingest` | two requests, two devices, two contents, limits of 1 and 2; one delete, tier change or revocation, batch and re-parse | `RowsConsistent`: slots within the limit, snapshots of parsed rows. `LocksOrdered`: the re-parse aside, no circle of waits but that of `ingest_late`. `RowsSpec`: the transactions implement `UserRows`, so the dedup and the slots hold whatever is concurrent. `RemovedForGood`: what was revoked or deleted stays gone |
| `ingest_late` | as `ingest` | `UploadsWait` is violated: section 7 |
| `adapter` | two places, two versions; any entry beside an old folder; a release, two plays, a crash, a fault, a meddling | `FolderSafe`: never lost, never downgraded. `LinksLeftAlone`. `Settles`: folders and menu come to rest |
| `counts` | Calls: one user, two calls at once, a tool for all and one for paid users, caps of 1 and 2, a pool of 1; a midnight and two of everything else. Limiters: four instances on three devices, four addresses, two users, hosts and callers; maps of two names and of one, bursts of two and three requests, a sweep every three units of time | `LimitsHold`, `UsageExact`, `EventsAccounted`, `VisitsAgree`: caps, counts, refunds, events and visits stay exact. `BucketsHold`: the maps implement `Buckets`. `FetchesBounded`: two windows at most in any minute. `KeysOfTheWait`: no stale keys, no kept failure |
| `sign_in` | two users, two browsers, two accounts, three tokens; two requests at once and four in all | `OwnUser`: a request acts for whom it may, an ended session stays ended. `NeverMerged`: accounts change hands only through a deleted user. `LifeSpec`: the rows implement `Lifecycle` |
| `grants` | two users, two interactions, two grants, two devices, three tokens; two requests at once and five in all, two other events | `RevokedRefused`: no call of a revoked grant or device is let through. `BridgeGrantHasDevice`: what a bridge holds can be revoked. `OwnResource`: a token opens only its own API |
| `server_parts` | Containers: two containers and five deploys: a first one, a bad file, two branches, a number used twice; a crash, a fault, an outage, a timeout. Readers: every small input of each kind (`MCReaders`) | `MigrationSafe`: rows and effects agree, one migrates at a time, none serves unmigrated. `AnswerIsOfTheWait`: a check is not kept. `MigrateEnds`. `LuaFaithful`, `SaveShown`, `GearHonest`, `StateTrue`, `TrimKeepsMost`, `FilesStripped`, `StoredWhole`, `EventOfAnswer`, `RequestAnswered`: each reader against its reference; every upload request is answered |
| `readers_spells` | the saves of `server_parts` that vary a character's spells | `SpellsReadOnce` is violated: section 7 |

Why these bounds are enough to meet the hazards: each hazard needs one event of the
environment at a particular point between two steps, and TLC puts it at every point.
The second event is there where the hazard is about an event meeting its own kind
(two writes during one upload, two logins and two servers, two uploads of one user,
two places of one adapter, two revocations, two containers). A third file, caller or
request adds no new pair: files share only the counters, the flag and the wake
channel; callers only `mu` and the tokens; uploads only rows, and who waits for whom
is decided between two. In `session` the servers are interchangeable, so the stories
start with the first, and the second is inert in a story without a change of server.
Each map of a limiter is given more names than it keeps, so sweeps and drops happen.
The mutants in `PROJECT.json` show that each property is violated within its run's
bounds when the code has the named error. The proofs of section 6 remove the bounds.

`CHECK_DEADLOCK FALSE` is in every cfg but the adapter's because the system may really
stop: the bounded environment runs out and the program waits for it. The adapter's
poller never stops, so its run checks for deadlock.

## 5. Fairness, and why the code justifies it

- **Uploader.** Weak fairness of `Run`'s steps (a goroutine that is never blocked but
  in its select), of the clock and of the watcher's timers. Not of `Resume`: nobody
  has to log in, so `PendingSettles` says "unless the device limit or the end of the
  login stops it".
- **Login.** Strong fairness of taking `mu` (Go's mutex hands over to a starving
  waiter), weak fairness of the steps inside it, which the HTTP timeout ends, and of
  the kit poller, which calls every interval for ever. None of a login or of
  callers that are not periodic.
- **Session.** Weak fairness of each goroutine's steps and of a device login (its
  code expires), strong fairness of `Poll(FALSE)`: the full timer of `Poller.Run`
  fires every interval whatever the conditional checks answer. The user does nothing
  for certain.
- **Adapter.** Weak fairness of a sync's steps, strong fairness of starting one and of
  `ApplyStaged` (they wait for the same mutex), weak fairness of showing the result.
  The game need not ever exit, nor the server list one version: `Settled` is the
  premise of `Settles`.
- **Server.** Weak fairness of each step of a migrate, strong fairness of taking the
  advisory lock (Postgres queues the waiters, and a holder that goes on releases it),
  weak fairness of the database noticing a dead connection and of a dead waiter's turn.
  No fairness of the timeout of the wait: `MigrateEnds` must not rely on it.
- **Readers.** Weak fairness of the parser's and the handler's steps of one request:
  an event loop that goes on. The caller sends nothing for certain; the connection
  closes when it does not.
- **Ingest, ToolCalls, SignIn, Grants, Limits.** None; their properties are safety
  properties.

## 6. What is proved

Every theorem is `Spec => []P`, `Spec => [][A]_vars` or `Spec => Abstract!Spec`, for
every value of the constants under the one named assumption of each module (bounds are
natural numbers, null values are not members of the sets they extend, sizes and rates
that the code fixes are over zero, a tool's call has the shape its schema allows). The
theorems are unconditional otherwise. Every invariant and action property that a run
checks is a theorem, but three of the readers: `LuaFaithful`, `SaveShown` and
`FilesStripped`.

**UploaderProofs.** `NothingIsLost` (`NothingLost`) from `LastWritesRead`,
`NoErrorsLost` and `NoLostWakeups`; `WaitsKept` (`WaitKept`). The inductive invariant
adds: an attempt's counters are within the counted ones (`JobCountsHeld`), its entry is
pending (`JobPending`), its bytes are the file's unless a newer change or the watcher
knows of a write (`JobFresh`), and a row that was answered for holds the attempt's
counters beside every other (`AnsweredRowHoldsCounts`). `LastWriteRead` alone is not
inductive: it says nothing of the attempt in flight that is about to clear `pending`.

**LoginProofs.** `TokensAreSafe` (`TokensSafe`) from `TokensSavedBeforeUse` and
`ReuseNeedsLoss`; `OnlyServerEnds` (`EndedByServer`). Added: what is in memory was
stored unless `unsaved` (`MemoryStored`), tokens were issued (`TokensIssued`), a 401's
verdict is about a token the server refuses (`VerdictRefused`), the caller in a refresh
has the memory's token (`InRefresh`), a device login's grant is new to the bridge
(`LoginFresh`), and outside an answer the bridge's tokens are the newest of their grant
or the grant lost one (`BridgeCurrent`), which is the heart of `ReuseNeedsLoss`.

**SessionProofs** covers the two parts that keep who is logged in. For `Session`:
`TasksAreTracked` (`Tracked`) from `OneLoginRuns`, `TasksBelong`, `SavingTells` and
`WaitingTells`. Added: parts stop before the run ends, no task is left when the next
server starts (`RunHeld`), and generations are distinct and at most `saveGen`
(`Generations`), without which a replaced retry could clear `saving`.
For `SignIn`: `RowsImplementLifecycle` (`LifeSpec`), `RequestsActForTheirUser`
(`OwnUser`) with `SessionsEndForGood` and `OneUserForEachAccount`, and
`AccountsAreNeverMerged` (`NeverMerged`). The refinement needs that tokens are used
once and that what has ended is among the used ones (`LifeInv`): then each step opens
one session, closes a set of them, or stutters (`NextLife`). `OwnerInv` says that a
request that signs in is for the owner of its account, or for a user who is gone,
whose id never comes back; `FlowInv` is stated for one assignment of users to tokens
at a time, which is what the cookie of a flow refers to.

**AdapterProofs.** `FoldersSafe` (`FolderSafe`) from `FolderKept` and `NewerOnly`;
`LinksSafe` (`LinksLeftAlone`). Added: the place a sync is at has no folder or one
older than what it brings (`Older`), which carries the look at the folder to the swap.

**IngestProofs.** `RowsAgree` (`RowsConsistent`), `RowsAreAtomic` (`RowsSpec`) and its
consequence `NoRowTwice`, `StaysGone` (`RemovedForGood`), `LocksInOrder`
(`LocksOrdered`) and from it `UploadsWaitUnlessLate` (`UploadsWait`). `LockInv` says which
locks each transaction holds at each statement; from it `Exclusion`: two transactions
past conflicting locks cannot both be there. On that rest `InUseStays` (the device a
request locked is still live, or its grant ended), `SlotInv` (a place that a request
found is free until it commits), and `RowInv` (ids are given once, an upload being
stored has its device's newest, its bytes differ from the latest row's, and a delete
has found all there is). `OrderInv` says that a transaction holds no more than its
place asked for and that an account's delete has each device but those it has left and
the late ones; so waits go from devices to the user to the delete, which leaves one
circle: a device approved after the delete scanned them (section 7). `RowsConsistent`
alone is not inductive: it says nothing of the request that counted and has yet to
commit. The refinement has one lemma per commit. Its hard case is the store: what the
request read many statements ago, that its device is not revoked, that the latest row
differs, that a place is free, must be true of the rows at the commit, which is
`InUseStays`, `RowInv` and `PlaceInv` (a request that found a place still has it, or its
device has claimed one). For `UploadRequest`, whose steps are those of `RequestSpec`: `KeptUploadsAreWhole`
(`StoredWhole`) and `AnswersHaveOneEvent` (`EventOfAnswer`), for every set of bodies.
While there is no outcome, each part the parser went past is named, not over its size
and the only one of its kind, unless the body is cut, which its end refuses (`NoFault`);
a third part's end settles the request before the parser's (so no good body has three);
and a good outcome fixes the place the parser is at, after which no token is taken
(`ReadWhole`).

**ToolCallsProofs.** `CountsAreExact` (`UsageExact`), `LimitsAreKept` (`LimitsHold`),
`NoEventVanishes` (`EventsAccounted`), `VisitsAreOne` (`VisitsAgree`), and `LocksEnd`:
a report's lock ends with its transaction. Each step of a call has one of five effects
(it moves, leaves, answers, is counted, is refunded). `CallInv` says that a call is
counted exactly at the places after its count, that only a service error is refunded,
and that its tier is one the user had; `IdsInv` and `Account` hold the recorder's sums;
`Reporting` says the one report inside a transaction saw the reports that are there;
`EventRows` (finitely many rows, each with a time and an id that orders them) is what
the two definitions of a visit need to agree for every gap: the agreement itself is a
fact about finite ordered sets.

For the kits' tools: `TrimsKeepMost` (`TrimKeepsMost`), for every size of every part and
every cap. The sums of sizes and the bounds of the binary search are recursive functions;
what holds of them is proved by induction, which here is the absence of a least
counterexample (`LeastNumber`, `UpTo`, from the library's theorem that the numbers are
well founded). A longer cut is no smaller than a shorter one, the note that says what is
left out included (`SumsRise`, `DigitsGrow`, `NoteSizes`): so the counts that fit are an
initial segment and the search, which keeps a fitting count below and a misfit above
(`BoundsAre`), ends on the last of them (`MostFits`, `SearchKeepsMost`). Two facts about
sizes are needed and assumed (`InputsAssumption`). A listed snapshot takes 60 bytes or
more (`SmallestEntry`; its time, flavor, rules and character, get-state.ts:184), else
the note on a cut history could weigh more than the snapshot it leaves out; and an entry of
the journal has 10 bytes of text or more (`SmallestText`; its key and quotes), for the
digits of the note's count.

For the WoW kit: `StateIsTrue` (`StateTrue`), for every file of the shape the schema lets
through, or does not (`FilesAssumption`; `Stored`): any integers, any lists. It has three
parts. *The client* (`ParsedIsTrue`): a row of the tables is used only with an interface
number in its flavor's range, and the ranges are apart (`OneFlavor`), so no other flavor
fits. *The path* (`PathIsTrue`): an axis is told only under the bound of `Way`
(`AlongAnAxis`), a diagonal only when neither axis is under it, which puts the move
within the same sixteenth of the diagonal (`AlongADiagonal`); the four quadrants follow
by their signs. *The skills* (`SkillsAreTrue`): `filter` and `flatMap` are recursive
functions, which exist (`Recursion`) and keep every value as often as the list has it,
or not at all (`FilterKeeps`, `CountOfJoined`); each skill is in one category, so the
groups together keep it as often as the game's list does (`GroupsKeep`).

`GearIsHonest` (`GearHonest`), for all bags and all worn items, with any item levels,
stats, enchants and level, whose details are read or pending. One thing is assumed of them
beside their shape (`Packed`, in `FilesAssumption`): the adapter reads each slot once
(kits/wow/adapter/Items.lua:650), so no two worn items are in one slot. The argument is by the loop of
`summariseGear`, a recursive function on the number of items. The summaries it starts
with are those of the worn items, in their order (`WornAre`, `SummedFromWorn`), and no step takes a
worn item from its slot (`HeldIs`), so the home of a bag item, the slot `SlotFor` picks,
depends only on what is worn, not on the items before it (`SlotForWorn`, `HomeIs`). The invariant
of the loop (`AllSummed`): one summary for each slot, each with the counts of the items
whose home it is, and each better item in its list, or the reason it could not be
compared in `notCompared` (`FairToMore`). From there on each summary is looked at by itself
(`SummarisedIs`, `LineIs`): the sort of its better items keeps each as often as it was
(`SortKeeps`), and so does the sort of the lines (`GearIs`, `OneLineEach`), so no line is lost or
told twice. The proof needed one correction of the model: two arms of `SlotsOf` fitted a
robe. TLC took the first, the chest, as the code does, but the definition did not say so.

**GrantsProofs.** `RevocationsHold` (`RevokedRefused`), `BridgesHaveDevices`
(`BridgeGrantHasDevice`), `TokensFitTheirResource` (`OwnResource`). The invariant:
requests hold the ids their step needs (`Placed`), a row's resource fits its client
(`Matched`), a closed grant has no row (`ClosedGone`), no grant is named for a bridge
and an agent (`Apart`), named ids were given (`Given`), a request knows its
interaction's client (`Sees`), a live bridge grant has its device (`AllBacked`), each
approval has a grant of its own (`OwnGrant`) and each grant one device, whose
revocation takes the grant away (`OwnDevice`). Steps have four shapes: they move a
request, end rows, link an interaction and its code, or add one of the three rows.
`RevokedRefused` is stated at the step that lets the call through: as a statement about
the state after it, it is false, because a revocation may follow the check of a call
that is already accepted.

**ServerProofs** covers what a process does at its start and keeps in memory. For
`Server`: `MigrationsSafe` (`MigrationSafe`) and `AnswersAreOfTheWait`
(`AnswerIsOfTheWait`). Added: who holds the lock is the one that read the list, a
transaction is of a file still to apply, and each file of the image is applied or still
to apply unless the run failed (`Holds`); a settled check is not kept, and a request
that waits has seen nothing yet (`HealthOK`). For `Limits`: `BucketsAreKept`
(`BucketsHold`), `MinutesAreBounded` (`FetchesBounded`), `KeysAreOfTheWait`
(`KeysOfTheWait`). The refinement maps a bucket that is not kept to a full one and a
post under way to what it may give back; the lemma behind it is that `keep` changes the
level of another name only where a full map drops its oldest after a sweep
(`KeepForgets`), and then as many other buckets are not full as the map keeps
(`KeepIsForgettable`). `FetchesSound` splits the last minute's fetches at the start of
the window under way: those since are in its count, those before are of one window.

The types of the variables are proved as well (`TypeCorrect`, `SessionTypeCorrect`),
for every module but `Limits` and the readers.

What stays with TLC, and why:

- Liveness (`PendingSettles`, `CallsSettle`, `LoginShown`, `Settles`, `MigrateEnds`,
  `RequestAnswered`): the prover has no rules for fairness and `ENABLED`.
- `LuaFaithful`, `SaveShown`, `FilesStripped`: these readers are recursive
  over strings, lists and trees. `TrimsKeepMost`, `StateIsTrue` and `GearIsHonest` show what
  that costs for functions on numbers and on one list; the library's induction theorems, which take an operator,
  cannot be used with the provers at hand, and RECURSIVE operators not at all.
- `UploadsResume`, `UploadsWait` and `SpellsReadOnce` are false (section 7).

The models themselves are not derived from the code by a tool: the map in
`PROJECT.json` names the lines of each definition.

## 7. Where the code and what it says disagree

With a run:

1. `session_resume`: an upload refused with the old login sets `loginRequired` after
   the new login has resumed the uploader (upload.go:415). Uploads stop until a sync or
   a restart while the menu says logged in, though "every upload stops until Resume"
   (upload.go:42). The other half of the same race, an old refusal that would reset the
   menu, is handled by `followUploads`, and `LoginShown` checks that.

2. `ingest_late`: a device approved between the lock on the user's devices and the lock
   on the user in "Delete account" (account.ts:136) is not locked by the delete. Its
   upload and the delete then deadlock, although account.ts:31-34 says "an upload in
   flight waits instead of deadlocking" and excepts only the re-parse command.
   Postgres aborts one of them, and the delete's second try finds the device.
   `LocksOrdered`, which is proved, says that this is the only such circle;
   `UploadsWaitUnlessLate` that the comment is right when no device is approved
   meanwhile.
3. `readers_spells`: a save whose memorization entries share a spell is shown, with the
   spell once for each entry, as long as all entries list no more spells than there are
   (gam.ts:376). gam.ts:356-360 says "each spell is read at most once", and gam.ts:7
   that no record is read twice for one character. The bound on the work that the
   comments are for holds, and `SaveShown` checks it. The same goes for item slots
   that name one item.

Found while modelling, and taken into the models as the code has them:

4. "Every other change is sent" (upload.go:18-20) fails when a sync's `IfChanged`
   change replaces a plain one that waits behind a lost answer (upload.go:233, 365).
   `LastWriteRead` holds all the same: the bytes are on the server.
5. Slots are ordered by the begin of the transaction (ingest.ts:811), not by the first
   upload stored (ingest.ts:73-80).
6. An update may happen under a running game that started after the process list was
   read (adapter.go:238, against adapter.go:14-15).
7. Two loads of one consent page at once approve a bridge twice (oidc.ts:517, against
   oidc.ts:469-471).
8. Posts in flight that do not miss hold their misses for a moment, and give them back
   to a bucket that filled meanwhile, so slightly more misses pass than devices.ts:81-87
   says. `Buckets` allows it: a post gives back at most what it took.

Facts the models take from the code and state nowhere as a property: after a lost
answer of a kept row the counted errors are on two rows; the save retry takes a
keychain that cannot be read for a saved login; an agent's approval that read its grant
before a revocation stores the grant again, so tokens stored after that work
("approved anew" in `RevokedRefused`); a trusted client whose key set the cache dropped
between `allowClient` and the fetch counts as a document; a too large part before
`meta` is recorded without a token of the rate; Lua line numbers in errors are wrong
after a name that a line break follows.

## 8. What is not modelled, and why

- Formatting, messages, logging, HTTP headers, the web pages and the native dialogs:
  no property depends on them.
- `oidc-provider`, Postgres, the kernel's file events and the keychain: libraries and
  services, modelled by what the code sees of them.
- Self-update, the instance lock, the app bundle and autostart, the search for game
  folders, the zip reader: file system and OS calls whose order is the swap of
  `Adapter` for one file, or that have no state. Every model of the bridge assumes the
  lock: one bridge runs.
- The watcher's folder watches and globs, and the kit poller's ETag: `Uploader` and
  `Adapter` have what they report.

`PROJECT.json` gives the reason for each component, and the three hazards that no
property covers: the stale debounce timer (watch.go:311), the folder replaced between
its check and its watch (watch.go:500), and the end of the bridge between the two
renames of its own update (selfupdate/app.go:56).

## 9. What is left

1. `Watcher`: watched folders that are replaced, dropped events, stale timers. Property:
   a write is reported once its file is quiet, whatever happened to its folder.
2. `SelfUpdate` with the lock and `macapp.Install`: two renames, crashes, two processes.
   Property: a program is at the path at every step; one holder of the lock.
3. Refinements between parts: `Login` implements the outcomes of `Session`'s `Ask`, and
   `Ingest`'s answers those of `Uploader`'s `Exchange`.
4. `Grants` as an implementation of `Lifecycle`, with the approval anew as an opening of
   another thing.
5. The other readers as recursive functions in modules of their own, as `Results` is, and
   what they compute by the same induction: `Bg1Save`'s bounds first.
