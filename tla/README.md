# kody-celld: a TLA+ model of the cells

kody-celld runs a personal agent backend as one Worker and a handful of Durable
Objects ("cells").  This directory holds TLA+ modules for the parts of it that
keep state and run concurrently, TLC configurations that check them on small
instances, and TLAPS proofs of the properties that matter for every instance.

## 1. Inventory

### Execution model

The Worker (`src/src/index.ts`) serves HTTP, MCP and cron events; each request
is an independent asynchronous activity.  State lives in Durable Objects with
an SQLite database.  A method of a cell runs without interruption up to its next
`await`; statements between two awaits are atomic, and the SQL of one call is
durable when it returns.  An `await` of a `fetch` or of a call to another cell
lets other calls on the same cell run in between.  An `await` of WebCrypto does
too: the comment in `src/src/mcp-client/oauth-store.ts:638` ("Optimistic: a
concurrent refresh that rotated this ciphertext wins") relies on it.  A Worker
can stop at any await; a cell that stops loses its memory and keeps its tables.

### Components

| Component | Module | State | Operations | Hard behaviour, and what makes it correct |
| --- | --- | --- | --- | --- |
| Runs and triage (`cells/user-cell.ts`, `execute/engine.ts`, `runs/triage-store.ts`) | `Runs`, `RunLifecycle` | `runs`, `usage_daily` | start (idempotency key, daily quotas), finish, prune, triage, bulk, auto-resolve | retention against runs in flight, replay of a key, a crash in the middle; one execution per key, only settled runs go |
| Jobs (`jobs/*`) | `Jobs` | `jobs`, `job_runs` | reconcile with a manifest, claim due, run now, finish, update | overlapping dispatchers, crash between claim and finish; no slot is claimed twice, a due job is claimed |
| Blobs (`blobs/*`) | `Blobs` | `blobs` index, bucket | put, get, delete | two stores without a transaction, quota races; row and object agree |
| Webhooks (`webhooks/*`) | `Webhooks` | `webhooks`, rate, deliveries, idempotency ledger | mint, rotate, admit, claim, finish | overlap of two secrets, rate window, redelivery while the first runs or is lost; one run per key |
| Integrations (`integrations/*`) | `Integrations` | `integrations`, connect links, in-memory refreshes | save, connect, refresh, disconnect, delete | an answer that arrives after the connection changed; no refresh token is spent twice |
| OAuth server (`oauth/*`) | `OAuthServer` | clients, codes, grants, token families | register, authorize, exchange, refresh, revoke, purge | two uses of one token at once, a lost answer retried; a code buys once, a family has one live refresh token |
| Accounts (`auth/*`, `web/signin.ts`, `web/account.ts`, `apps/origin.ts`) | `Accounts` | users, credentials, attempts, links, sessions, hand-offs | setup, password, link, hand-off, sign-out, revoke | parallel wrong passwords, one link opened twice; links and hand-offs are used once, the lock holds |
| MCP client (`mcp-client/*`) | `McpClient` | `mcp_servers`, OAuth row, pending authorizations, in-memory refreshes | add, remove, authorize, callback, refresh, discover, call, rekey | a server replaced while its tokens are on their way; credentials are those of the present server |
| Secrets and gateway (`secrets/*`) | `Secrets` | `secrets`, provider bindings and grants, cached values | save, rekey, bind, resolve, inject | rekey against a save, a binding revoked while it is resolved; nothing lost, only permitted items used |
| Email (`email/*`, `mail-bridge/*`) | `Email` | inboxes, messages, outgoing index, destinations | receive, send, report, verify | posts retried and overlapping, reports out of order; one copy, honest replies, one default |
| Packages (`packages/*`) | `Packages` | saved packages, listings, fetched packages | save, install, fork, preview, update, publish, obtain | a remote that moves between preview and install; what is saved is what was asked for |
| Module graph (`execute/module-graph.ts`) | `ModuleGraph` | the graph being built | include, rewrite, publish, check | cyclic imports; a provider entry is reached only by its own run, everything reached is linked |
| npm modules (`execute/npm-*.ts`) | `NpmModules` | memo, shared cache | resolve, get, put, evict | overlapping resolutions, contents that change; the graph is closed, the cache bounded |
| Package apps (`apps/serve.ts`) | `AppGraph` | cache of graphs | serve, build, validate | a save during a build; a graph served was current at some moment of the request |
| Memory (`cells/memory-cell.ts`, `ai/vector-store.ts`) | `Memory` | rows, vectors, suppressions | save, update, delete, search, reindex | vectors lag behind the rows; what is marked is indexed, what was deleted is not found |
| Registry (`cells/registry-cell.ts`) | in the four modules above that use it | their tables, API tokens, audit | | API tokens and audit are single statements, not modelled |
| Git clone (`packages/git-smart-http.ts`) | `GitClone` | one clone: refs, pack, walk | discover, upload, unpack, walk | a remote that moves between two requests, an incomplete pack; the files are those of the commit, within the limits |
| Package storage (`cells/package-storage-cell.ts`) | `PackageStorage` | keys and values, tables of the package | set, delete, list, clear, sql | a listing page by page under writes; nothing is skipped or given twice |
| Single-node container (`docker/entrypoint.sh`, `docker/single-local.mjs`) | `SingleNode` | `kody.env`, the deployment, the processes | load values, deploy, stop, exec | a start that is cut off or slow; one node, the right key, the new deployment |
| MCP server and capabilities, AI and browser providers, console and client | | | | not modelled, section 8 |

The user cell is the meeting point: a job, a webhook and an MCP call all end in
`executeRun` (`Runs`), which builds a graph (`ModuleGraph`, `NpmModules`) from
saved packages (`Packages`), whose code reaches the outside through the gateway
(`Secrets`, `Integrations`, `McpClient`).  Saving a package reconciles `Jobs`
and `Webhooks` with its manifest; this is an action of those modules.

## 2. Plan

Done, in this order: `Blobs`, `Runs` with the abstract `RunLifecycle`, `Jobs`,
`Webhooks`, `Integrations`, `OAuthServer`, `Accounts`, `McpClient`, `Secrets`,
`Email`, `Packages`, `ModuleGraph`, `AppGraph`, `Memory`, `NpmModules`,
`PackageStorage`, `GitClone`, `SingleNode`; then the modules that put components
side by side (`Content`, `Execution`, `Outside`, `Registry`, `Connections`), and a
proof of every safety property the runs check.

Left, the most useful first:

1. Refinements that are not stated yet: a clone as the one step `Download` of
   `Packages`, a call of `executeRun` as the steps the jobs and webhooks take for it.
2. Pure policies checked against a reference: host patterns and private address
   ranges (`lib/host-allowlist.ts`), redirect URIs (`oauth/protocol.ts`), cron
   fields with day-of-month and day-of-week (`jobs/schedule.ts`).
3. API tokens and the audit log of the registry.

## 3. Modules

Each module has one variable per table (or per in-memory map that matters), and
one record per activity that may be suspended at an `await`.  The record holds
the program counter and exactly those local variables that are read before an
await and used after it.  An action is what happens between two awaits.
Definitions keep the names of the code where there is one (`runFinish`,
`pruneRuns`, `jobsClaimDue`, `clearTokens`, ...); `PROJECT.json` maps each to its
lines.  A definition marked "Mutant" is a faulty variant of the one below it,
used to confirm that a property notices the fault; no specification uses it.
A variable marked "history" is no state of the program: it records what a
property refers to, or names the overlaps that the code does not fence, so that
the property can say exactly under which condition it holds.

Five modules put components side by side that share no table and no call:
`Content` (`Blobs` with `Secrets`, `Memory`, `PackageStorage`), `Execution` (`Runs`
with `Packages`, `ModuleGraph`, `AppGraph`), `Outside` (`Integrations` with
`NpmModules`), `Registry` (`OAuthServer` with `Accounts`, `Email`) and `Connections`
(`McpClient` with `GitClone`, `SingleNode`).  Each extends the first of its
components, takes the others as instances, and names their properties.  The runs
and the proofs both extend these modules, so that they speak of the same
definitions; a theorem about one component (`S!Spec => []RekeySafe`) takes its
specification alone.

What a component assumes of its constants is an `ASSUME` of its module, or, for a
component taken as an instance, an operator (`AccountsConstants`, `EmailConstants`,
`MemoryConstants`, `StorageConstants`, `NodeConstants`, `AppConstants`,
`GraphConstants`, `PackagesConstants`, `NpmConstants`, `CloneConstants`) that the
theorems about it have as their hypothesis and that the run's module assumes of its
own values, where TLC evaluates it.

### Blobs

| Model | Code |
| --- | --- |
| `index` | table `blobs`; a row is the body it was written for |
| `bucket` | the R2 or S3 bucket |
| `quota` | `UserCell.quotas`, changed by `quotaSet` |
| `req` | calls of `BlobService` in flight: put (`PutReserve`, `PutStore`, `PutIndex`/`PutIndexRejected`, `PutUndo`), get (`GetIndex`, `GetFetch`, `GetDrop`), delete (`DeleteIndex`, `DeleteObject`) |
| `tainted` | history: keys with overlapping requests or an injected fault |

A body stands for its bytes, hash and etag; `Size` is a constant function.
Faults: the bucket refuses a put or a delete, the Worker stops between two
calls, an object disappears from the bucket.

### Runs and RunLifecycle

`runs` is the table in order of creation, `usage` the counters of the day,
`exec` the calls of `executeRun` in progress, runs before `horizon` are too
old for `KODY_RUN_RETENTION_DAYS`.  `runStart` is `StartReplays` (the key is
known), `StartRefused` (a daily quota) or `StartRun` (insert, count, prune).
`runFinish` updates the row, counts usage, resolves earlier failures of the job
(`autoResolveJob`), prunes, and fails when it has pruned its own row; the engine
then records the run once more as an error.  `Triage` and `TriageBulk` are the
operations of `RunTriageStore`.

The isolate is three steps.  Once the graph is built, `graphHash` and `LOADER.get`
may throw (`LoadThrows`), outside any `try`: the call rejects and its row is left
`running`.  The request races with the timer (`IsolateResponds` or `IsolateFails`
against `Timeout`).  The body of an answer is then read outside the race
(`BodyEnds`), by an `await` without a timer.

`RunLifecycle` is what the table promises: runs are created in order, each
settles at most once, its status is final, and only a settled run disappears.
`Runs` refines it with `lifecycle` as the mapping (`ImplementsLifecycle`).

### Jobs

`jobs` and `jobRuns` are the tables, `disp` the dispatch cycles and manual runs,
each with the clock value it started with and its queue of claimed jobs.
`packageSave` is `reconcileJobs`; `computeNextRun` has the three kinds of
schedule, with a cron expression abstracted to "every n-th minute", searched for
`CronScan` minutes ahead as the code searches 400 days (`Found`).  A rare
expression is accepted while its next turn is near; when it is claimed there is
no turn after it in sight and `computeNextRun` throws inside `jobsClaimDue`
(`ClaimThrows`): the due jobs before it are advanced, none is run.  The loop
that advances an interval is written in closed form, and `MCJobs` compares it
with the loop for small values (`IntervalLoop`).  `ExecuteThrows` is a rejection
of `executeRun` (a used-up quota, or the internal error described under `Runs`).
`left` (history) has the jobs that a dispatcher which failed still had to run; of all
others `MarkedIsRunning` says that what is marked as running is being run.

### Webhooks

`hooks`, `rate`, `ledger`, `deliveries` are the tables, `declared` the
declarations in the saved package, `provider` what the provider was given by
`webhookUrlApply`, `owner` and `req` the owner's calls and the deliveries under
way.  A secret is the number of its issue; a handle identifies one mint.
`AdmitRead` and `Admit`/`AdmitRefuse`/`AdmitLimited` are separated by the await
of the hash in `webhookAdmit`; `MintBegin`/`MintInsert` and
`RotateBegin`/`RotateWrite` by the sealing.  `Verify` is the block of checks of
the ingress, of which only the outcome matters.  In `ack` mode the reply leaves
at `RecordAccepted` and the run goes on; in `sync` mode it leaves at the end.

The ingress reads the clock before it calls the cell, so a call may come after one
that read a later minute; the cell then counts the earlier minute and deletes the
count of the later one.  `overtaken` (history) counts these admissions, and
`RateLimitHolds` says what each can cost: the limit once more (section 7).

### Integrations

`row` is the integration (status, access and refresh token, numbered by the
answer they came in), `connects` the connect links, `inFlight` the map
`inFlightRefresh`, `calls` the refreshes and those who wait for one, `owner` a
save or connectStart under way (the owner's calls come one at a time),
`browsers` the pages of the connect flow.  The provider is part of the model, as
the code relies on it: it exchanges a code once, may replace the refresh token
with each answer, and refuses any but the latest.  `old` and `reseal` are a change
of the master key: the columns only the previous key opens, and the one `rekey` is
sealing again.

### OAuthServer

`clients`, `codes`, `grants`, `access` and `refresh` are the tables of `OAuthServerStore`;
a pair of tokens is one number, a family is named by its first pair. `reqs` are the token
requests, with the three awaits of the store (hash, mint, seal) between `ExchangeBegin` or
`RefreshBegin` and the answer, which is delivered or lost. `held` is what each client has
received last: a client that only uses that pair keeps its session, whatever answers are
lost: its token is good, or the answer that replaced it is kept and holds a good one
(`RetrySafe`). `purge` runs inside the operations that call it. `crowded` marks families
refreshed by two requests at once, `ended` those revoked.

### Accounts

The registry's tables `users`, `credentials`, `signin_attempts`, `signin_tokens`,
`sessions` and `app_handoffs`. A password attempt is `Password`: read the attempts, hash,
write them and start a session. The count is read before the hash and written after it, so
the lock is promised only after attempts that came one at a time: `overlapped` has the
addresses of which two attempts were hashing at once, until one is alone again, and
`tally` the failures in a row since (`LockHolds`). Setup is two calls of the registry;
`finishSignin` is the session that every way of signing in ends with. A hand-off is a
signed value the browser carries to the origin of apps, where `burned` records its use.

### McpClient

One server name with its row (`server`), OAuth row (`oauth`) and pending
authorizations (`attempts`), the refresh registered in memory (`inFlight`) and
the calls.  `bumpGeneration` is the code's fence: refreshes under way see
`changed` and give up.  `issuer` is the authorization server, which honours one
refresh token per grant.  `late` names the overlaps that the generation and the
comparison of server ids do not cover (section 7); the properties are stated
outside of them.

### Secrets

`secrets` holds one name under its two scopes, each with the key it is sealed
under; `keys` is the operator's configuration ("old", "both", "new"), and the old
key may be dropped once a rekey `reported` that nothing remains.  `binding`,
`grants` and `cache` are the provider's side.  A request of the gateway resolves
its references one after the other (`Inject`), each with a run of the provider's
package between the permission and the value; `allowed` is what the request was
permitted at some moment of it.

### Email

Inbound: `sender` offers a message and waits, `posts` are the requests of the
bridge, which serve recipients one after the other (resolve, classify, store), and
run on when the bridge has given up waiting.  A copy is refused as the code does, in
its order (`Refusal`): a duplicate, where the message has a Message-ID to look for
(`Anonymous` are those without one, stored again by every try), a quota (`MaxReceives`
a day, or other mail that fills the mailbox), a message over the size limit (`Large`).
The sender is told 250, 452, 552 or 550 (`Reply`).  Outbound: `outs` is the message
with its sending call, `index` the registry's index by which a report finds its
message, `wire` the bridge.  `StatusTrue` relates what a message says of itself to
what the bridge reported; `early` marks a report handled before the send had marked
the message.  `dests` are the destinations with their codes, `proven` (history) the
addresses whose code was given back: `SentIsProven` says where mail may go.

### Packages

`saved` and `listings` are the tables of the user cells and of the catalogue, `remote` the
versions at a repository or URL, `cache` the fetched packages in memory (promises while
they are under way: followers `join` them). A source is what `describePackageSource` and
`parsePackageSource` keep of it: the kind, the pinned commit, the directory, the mark of a
fork. The cache is a `Map` in order of insertion with one entry per key, so a failed fetch
is removed at its place. `listed` remembers the files a name was ever listed with.
`packageSave` records the `source` its caller gives, which may be any text, for files of
the caller's own (`SaveLocal`, `Claims`); `claimed` (history) has the packages whose
source is only claimed, until they are updated, installed, saved without one or deleted. A
text that names no repository, URL or listing (`npm:...`) is like `local`: nothing is
updated from it.

### ModuleGraph

A deterministic algorithm over every program of the bound: `imports`, `saved`,
`provider`, `entry` and `sealed` are chosen in `Init`.  `stack` is the recursion of
`includePackage`, one frame per package with the files and imports left;
`sealedOff` are the provider entries noted so far, `links` what the rewritten
imports name.

### AppGraph

`stamp` is `updated_at` of each package, `entries` and `order` the cache.  A build
reads the packages in order, then their stamps; a request that finds an entry
compares the stamps again.  `disturbed` marks builds during which a package was
saved: their stamps may be newer than what they read (section 7).  `Lazy` are the
packages that only files loaded by dynamic imports name.  One that is not saved does
not fail the build: the file that imports it becomes a stub that throws, and the
package is not among those whose stamps are watched (`Packages`).

### Memory

`rows` are the memories with the mark "vector made", `vectors` the store,
`shown` the suppressions.  Indexing is three steps (read, store, mark), and a
search repairs first, asks the store and then keeps the rows that still fit.
`MayWrite` says which writes the mark allows.  Scores are left out: a search
answers with any of the best size; it may include suppressed memories and leave
what it shows unacknowledged.  A marked row has the vector of its present text and
status (`MarkedIsCurrent`) except after a write that came while a call was indexing
the row (`crossed`).

### NpmModules

`res` are the resolutions with their queue, graph and list of downloads; `memo`
is the map of the isolate (emptied when it is full), `rows` the shared cache with
`fetched` and `used` times, `cdn` the present content of each URL.  `getMany` drops
expired rows, `putMany` evicts the least recently used until the size fits.

### GitClone

One clone from the advertisement to the files. `remote` is what the repository advertises,
`want` the object the ref resolves to, `pack` the entries still to be unpacked, `objects`
those unpacked, `stack` the recursion of `walk` with one frame per open tree. Objects are
named by their hash, so what an object contains is the constant `Object`, and a server can
only leave an entry out or send it before the base of its delta. Assumed is that objects
are as git makes them: the entries of a tree have different names, and no tree lies below
itself, as its hash covers theirs (`CloneConstants`); the objects that entries name may be
missing or of any type. `FilesExact` compares the walk with what git shows at each path
below the tree asked for (`EntryAt`). `Packages` uses a clone as one step (`Download`).

### PackageStorage

`kv` is the table `__kody_kv`, `tables` the package's own, `scan` the listings under
way: each call of `list` is one step of the cell, which answers in the order of the
keys (`InOrder`, the code's `ORDER BY key`), and any writes come in between.
`steady` are the keys that were there from the first page of a listing to the last.

### SingleNode

`file` is `kody.env` and `store` the local object store with its deployment, which
survive a crash; `pc` is the entrypoint with `deployLocal` inside it, `supervisor`
and `devNode` the processes of `celld.dev`, which is external.  Shell statements are
one step each where a crash between them matters (`Truncate`, `WriteLine`).  Reading
the pointer of the deployment may fail at any time and then answers as if there were
none (`Reads`).  `torn`, `blind` and `orphaned` name what the code does not cover, and
`StartSound` excepts (section 7): a crash while `kody.env` is written, an unreadable
store, a `celld.dev` that had to be killed.

## 4. Runs

Several components share no table and no call.  Such systems are put side by side
in one run: the variable `part`, chosen in `Init` and never changed, says which of
them moves, and the others rest in their initial state.  The state space is the
sum of theirs, not the product, and each property speaks of its own part.

| Run | Module | Parts and bounds | Properties |
| --- | --- | --- | --- |
| `content` | `MCContent` | "blobs": 2 requests, 2 keys, bodies of 1, 2 and 9 bytes (one too large), quotas of one blob or three bytes, every fault; "values", "provided": `Secrets` with 2 packages, 2 saves, one name under two scopes; "one", "two": `Memory` with 2 memories, 2 calls and 2 texts, of which the first part uses one memory and the second makes one call at a time; "storage": 4 keys of which 2 share a prefix, a listing by pages of 1 and 2 | `IsolatedKeyAgrees`, `CountQuotaHolds`, `BytesQuotaHolds`, `RekeySafe`, `ProviderValueFits`, `VectorsFollowRows`, `AnswerSound`, `PagesExact` |
| `runs` | `MCRuns` | "runs": 2 calls, 3 runs of which 2 are kept, 1 key, 1 job, `ExecuteMsPerDay` 1, crashes; "repository", "archive": previews through a cache of one entry, the remote moves once; "install": 1 user, quota of 1 package; "claiming": 1 user, files saved under a repository or a listing that is only claimed; "catalogue": 2 users; "graph": 2 packages of 2 files with up to 2 imports; "apps", "lazy apps": 1 dependency, imported by the entry or by a file loaded later, 2 requests, 2 saves, a cache of one | `ImplementsLifecycle`, `AutoResolveExact`, `OneExecutionPerKey`, `RetentionExact`, `FetchedIsAsked`, `ProvenanceHolds`, `GraphExact`, `ServedIsCurrent` |
| `jobs` | `MCJobs` | "two": 2 jobs, 2 dispatchers, 3 job runs, time 0 to 2; "failing": 1 job under every schedule, throws and crashes, time 0 to 3, also under a cron expression rarer than the scan (`CronScan` 2) | `NextAfterLast`, `MarkedIsRunning`, `SlotsClaimedOnce` |
| `live` | `MCLive` | "runs": 2 calls, 2 runs of which 1 is kept, retention by age; "jobs": 1 job, 2 dispatchers, `CronScan` 2; "graph": 2 packages of 2 files; "integrations": 1 app, 1 link, 2 calls, 3 answers; "webhooks": 1 webhook, 2 deliveries | `RunSettles`, `DueJobIsClaimed`, `BuildEnds`, `WaitersAnswered`, `KeySettles` |
| `outside` | `MCOutside` | "apps": 2 apps, one with client credentials, 1 link, restarts; "reconnect": 1 app, 2 links; "rekey": 1 app, 1 link, a change of the master key; "npm", "limits": 4 URLs of which one changes, 2 resolutions, which import each other or pass a limit, at most 3 modules, a memo of 1 and a cache of 2 bytes | `RefusalDeserved`, `TokensOfApp`, `ResolutionSound` |
| `webhooks` | `MCWebhooks` | "secrets": 1 webhook, 2 issues of secrets, 2 deliveries served one at a time, 2 minutes, crashes, ack; "ledger": a delivery id and a client key, 2 payloads, a ledger of one key, sync; "clocks": 3 deliveries up to their admission, which overtake each other | `LimitsHold`, `PreviousRevoked`, `LedgerSound` |
| `registry` | `MCRegistry` | "signin", "apps": `Accounts` with 1 address, 2 passwords, 2 calls, 1 link, 2 sessions, 1 hand-off; "oauth": 1 client, 1 code, 1 grant, 3 pairs, 2 requests; "inbound", "anonymous", "large": a mail to 2 names of 2 users, one without a Message-ID and one over the size limit, 2 tries each; "outbound"; "destinations": 2 addresses, 2 codes | `SingleUse`, `FamilySound`, `RetrySafe`, `LockHolds`, `InboundExact`, `OutboundSound` |
| `connections` | `MCConnections` | "grants", "moves", "bearers": one server name, 2 calls, 2 URLs, 2 authorizations or one with the operator's client; "clone": 2 commits, a tag and a tag of it, 6 trees and files with one tree in two places, packs complete or lacking one object, 1 redirect, a limit of 4 files; "container": 3 starts, 4 values, crashes | `CredentialsFit`, `UsedOnce`, `CloneExact`, `StartSound` |
| `jobs_dropped` | `MCJobs` | 2 jobs, 1 dispatcher, throwing runs | violation, section 6 |
| `integrations_dropped` | `MCOutside` | 2 apps, 1 call, 1 link | violation, section 6 |
| `setup_race` | `Accounts` | 2 addresses, 2 calls | violation, section 6 |
| `package_update` | `MCRuns` | 1 user, an archive with a directory | violation, section 6 |

A property named in the table that is a conjunction (`InboundExact`, `RekeySafe`,
`GraphExact`, ...) has its parts defined and explained just above it in the module.
`FamilySound` is `CodeOnce`, `OneLiveRefresh` and `SessionEnds`; `SingleUse` is
`LinkOnce` and `HandoffOnce`.  Type invariants are part of such conjunctions
(`VectorsFollowRows`, `ProvenanceHolds`, `LimitsHold`, ...), theorems of their own
(`TypeCorrect`, `AccountsTyped`) or parts of an inductive invariant of section 5.

Why the bounds are enough to be interesting.  All races here are between two
activities on one row, so two of each kind are the least that show them, and a
third adds only repetitions.  Limits are set to 1 or 2 so that the state at the
limit, and one past it, is reached: a third run is needed to overtake a slow one
with two kept; three answers of a provider are a first grant, a rotation, and a
use of a rotated token, and so are three pairs of the authorization server; two
secrets are a mint and a rotation; three deliveries are two of a minute and one of the
next that comes between; two tries of a sender are a lost answer and its
retry; two packages of two files are enough for cycles within and between
packages.  Named bounds (`MaxRuns`, `MaxTime`, `MaxPairs`, `MaxSaves`, ...) appear
only in guards of the actions that would exceed them.  Symmetry is declared for
calls, dispatchers and deliveries, in runs without liveness.  In `connections`
states after an overlap that the fences do not cover (`late # {}`) are not left:
what follows is not promised anything.

Deadlock is checked for `jobs`, `outside` and `webhooks`.  In `content`, `runs`,
`live`, `registry` and `connections` some part uses up its bounded work (runs,
versions, codes, a graph that is built) and then really stops.

### Fairness

`MCLive` repeats the fairness of each module for its own part.

* `Runs`: `WF` on building the graph or failing at it, on the timer of
  `Promise.race` and on `runFinish`.  Timers fire and calls to a cell return; nothing
  is assumed of the code in the isolate, which need not answer nor end the body of
  an answer.  `RunSettles` says what the code then gives: a run is settled, waits for
  a body, or its call has ended (a crash, a load that threw); and once the isolate was
  asked, only a body can keep a run whose Worker does not stop.
* `Jobs`: `SF` on the start of a cycle (the cron trigger fires every minute
  whatever manual runs do), `WF` on each later step of a cycle.  That `executeRun`
  ends is assumed: `RunSettles` shows it but for a body that never ends.
* `Webhooks`: `WF` on the steps of a delivery that has begun, without crashes, with
  the same assumption on `executeRun`.
* `Integrations`: `WF` on the steps of a refresh, and on `ProviderFails`: a
  request to the token endpoint ends after `tokenRequestTimeoutMs`.
* `ModuleGraph`: `WF` on the next step, which is the next statement of one loop.

Users, providers, clocks, browsers and crashes are never obliged to act.

## 5. Proofs

Every safety property that a passing run checks, invariant or action property, and the
refinement of `RunLifecycle` have a theorem.  The theorems hold for every value of
the constants that satisfies the named assumptions of the module: any number of
users, calls, keys and messages, any limits, any program or repository.  The
components of one run share a proof module with a part for each (`registry` has two).

* `Content_proofs`. Of `Blobs`, `TypeCorrect`; `CountQuota` (no step makes the number of
  rows grow past the count quota in force: the index write repeats the check that the
  reservation made, and `CountAfterWrite` says what a write does to the number of rows);
  `BytesQuota`, the same for the sum of the sizes, where the lemmas about sums show how
  one row added, replaced or dropped changes the fold of the library; `IsolatedAgreement`,
  with `TypeOK` and the agreement itself, which names the requests in the middle of a key,
  as the inductive invariant. Of `Secrets`, `SecretInv`: what is stored opens with the
  keys the configuration still has (`StoredFits`), what is cached is of the present
  binding or is marked `late` (`CacheFits`), and a call knows what its stage needs: a
  rekey holds the present values of scopes nobody overlapped, and a request counts as
  permitted everything the binding permits now (`CallFits`). It gives `NoValueLost` and
  `ValuesFitTheProvider`. Of `Memory`, `MemoryInv`: the rows a call embeds were there,
  what it drops is gone for good, its answer is made of the present rows (`MemoryFits`),
  and a memory whose forced deletion ended while nobody was indexing it has no vector and
  is in no batch (`Forgotten`), and no call is indexing an older text of a row that
  nothing crossed. It gives `VectorsFollow` and `AnswersSound`. Of `PackageStorage`,
  `StorageInv`: what a listing has given is in order and not past its cursor, and up to
  the cursor it has every key that was there all along. That the keys of a page can be put
  in order at all is a lemma (`OrderExists`). It gives `ListingsExact`.
* `Registry_proofs`. Of `Accounts`, `AccountInv` has the types and `AccountsTyped`; on it
  stand three invariants. `LinkInv`: the call that spends a link has taken it out of the
  table, and no other spends it. `HandoffInv`: a hand-off that was used is burned or
  expired, except those used on both sides of the expiry. `AttemptInv`: of attempts at an
  address that do not overlap one at most is hashing, and it has seen the present count,
  which is the number of failures in a row since they did. They give `UsedOnce` and
  `LockedOut`, which promises nothing to attempts that overlap. Of `Email`, `InboundInv`
  follows a post through the recipients it has still to serve (`PostFits`) and says what a
  message's sender may have been told (`MailFits`); `OutboundInv` and `DestInv` do the
  same for the send, the report and what each of them makes of the status, and for the
  destinations. They give `RepliesExact` and `ReportsDecide`.
* `Runs_proofs`. Of `Runs`, `TypeCorrect`. `Idempotency` is not inductive: retention
  deletes rows, so one has to know that a call that executes still owns its row
  (`OwnRows`, as only finished rows are pruned) and that no two rows carry one key
  (`UniqueKeys`). `Ownership` proves both together; `TriageOnErrors` comes with it.
  `Refinement` proves `Spec => ImplementsLifecycle`: `RowStep` classifies what a step does
  to the rows, and each class is a step of `RunLifecycle` or a stutter. `Retention`: only
  the start and the end of a run prune (`StepKinds`), all but the oldest of the rows a
  pruning leaves are newer than it (`PruneBound`), and the newer rows that made one go
  were created after it (`PruneReason`). `AutoResolve`, an action property, follows what
  `runFinish` makes of the table before it prunes (`Resolved`). Of `AppGraph`, `AppInv`: a
  graph being read, or built and not yet stamped, has the present versions unless a save
  disturbed it, and what is saved now was saved when a request came or later (`Since`), so
  that a request that compared stamps or built is served nothing older than it found,
  stubs aside. It gives `AppsAreCurrent`. Of `ModuleGraph`, `GraphInv`: every file of an
  included package is done or in a frame of the recursion (`Awaited`), and a frame or a
  link names only what may be linked (`Linkable`). The recursion is over an arbitrary
  finite set of modules, so its depth is bounded by the packages included. It gives
  `GraphsAreExact`. Of `Packages`, `PackageInv`: a pinned source is downloaded as it is,
  the head of another is no older than the call (`FetchFits`), the page and the cache hold
  for a pin that version and nothing else (`ShowsPin`, `KeptFits`), and files on their way
  are what their source says of them (`ComesFrom`), as are the saved ones that are not
  `claimed`. It gives `FetchesAreAsked` and `ProvenanceKept`.
* `Jobs_proofs`.  `IInv` is `TypeOK /\ NextAfterLast`; `NextRunEffect`,
  `AdvancedEffect` and `ReconciledEffect` bound what `computeNextRun`, a claim
  and a re-save produce, and
  `StepIInv` shows that a step preserves `IInv` and takes no slot twice.  This
  gives `TypeCorrect`, `NextRunLater` and `ClaimedOnce`.  `MarkedJobsRun` proves
  `MarkedIsRunning` with `RunningInv`.  A `job_run` that says running has to be the
  newest of its dispatcher (`RowsInv`), because settling closes that one only;
  `Settled` says what settling and trimming leave, `OrdersComplete` that a claim
  forgets no due job.  A dispatcher that fails leaves its jobs to `left`.
  `RunningJobsRun` shows that `left` stays empty, so that the statement holds of all
  jobs, as long as no dispatcher fails and no cron expression is so rare that the scan
  misses its next match (`Reliable`).
* `Webhooks_proofs`.  `TInv` has the types, that handles and secrets in use were
  issued, and that a handle is one webhook's wherever it is held (`OneHolder`);
  it gives `TypeCorrect`.  On it stand three invariants.  `RotationRevokes`:
  `webhookAdmit` writes a row from what it read before it awaited the hash, so
  `SecretInv` says how a row that was read relates to the row as it is now.
  `RateLimited`: `RateInv` counts the admitted deliveries of each minute
  (`AdmittedIn`) against what `webhook_rate` and `overtaken` leave room for (`Room`):
  the minute that is counted is told by its count, and every time an earlier minute
  takes its place there is room for the limit once more.  Calls come in any order.
  `IdempotentDeliveries`: a row of the ledger can be dropped and claimed anew,
  so `LedgerInv` numbers the claims; row i is the i-th of the newest claims, and
  a delivery whose claim is among them still finds its row.  The proof showed
  that a replay is honest only while the webhook exists: after `webhookDelete` a
  delivery under way may claim its key in the empty ledger of the old handle.
  `ReplayHonest` says so (`Known`).
* `Integrations_proofs`. Of `Integrations`, `TInv`: one refresh runs, the one in
  `inFlight`, and those who wait, wait for it; this gives `NobodyWaitsInVain`, the safety
  half of `WaitersAnswered`. `AppInv` follows the tokens from the request to the row
  (`IssuedFor`, `Current`) and gives `TokensFitTheApp`. `GrantInv` is about the grants at
  the provider: the first token of a grant is known to its page only (`NewGrants`), and a
  refresh token in use is good, revoked, or replaced by one that is on its way or lost
  (`Freshness`). With it a step that refuses a token has a reason: `RefusalsAreDeserved`,
  an action property. Of `NpmModules`, `NpmInv`: whatever was asked for or is imported by
  a module of the graph is in the graph or still in the queue (`ResolutionFits`), so the
  graph is closed when the queue is empty; the weight of the cache after an eviction fits
  (`EvictFits`). It gives `ResolutionsSound`.
* `OAuthServer_proofs`.  `TInv` has the shapes and what a request knows at each
  stage; `Apart` says that no two requests mint the same pair and that none uses a
  pair before it is minted.  `CodeInv`: a code that a request holds is gone from
  the table and bought nothing.  `FamilyInv`: a family belongs to one grant (`Claim`,
  which also counts the rows that a request is about to write), and the grant of an
  ended family is gone.  `LiveInv`: while a family is being refreshed, its live
  tokens are the one used and the one minted.  These give `TypeCorrect` and
  `FamiliesAreSound`.  `RetryInv`: a client that keeps the protocol uses one
  token in all its requests, which is good or whose answer can be repeated, and
  no request uses the pair of an answer before it is delivered.  `RetryKept`
  reduces each step to what it leaves of the rows (`Kept`) and of the requests
  (`Calm`) of that client; only beginning, sealing and delivering its own refresh
  need more.  This gives `RetriesAreSafe`.
* `Connections_proofs`. Of `McpClient`, `TInv` and `CodeInv`: the types, and what a call
  holds at each stage. `ServerInv`: a bearer belongs to a row of kind `bearer`, and one
  that is being sealed again is the one stored. `ClaimInv`: an attempt belongs to one call
  at a time, the one that starts it and then the one that claimed it, and its code is not
  spent before; this gives the half of `UsedOnce` about codes. For the other half and for
  `CredentialsFit` one has to follow the tokens. `FreshInv`: no token of a grant is stored
  or held before its first tokens are stored. `FlightInv`: a refresh that is not out of
  date is the registered one. `TokenInv` joins `StoreInv` (the tokens stored are of one
  grant, issued for the server of the row), `SeqInv` (no refresh token is newer than the
  one honoured) and `HeldInv` (the refresh that is not out of date works on the token
  stored, one that is out of date never does, and no two hold the same). Most steps only
  move calls on: `Ordinary` says how a call may change (`Turns`), and `Keeping` and
  `Clearing` prove the invariant once for steps that leave the tokens or clear them. As in
  the run, the parts about tokens and bearers hold outside the two overlaps that `late`
  names (section 7). The constants: `None` is no URL and no call, and the bounds are
  natural numbers (`McpAssumption`). Of `SingleNode`, `NodeInv`: between starts `kody.env`
  is whole and has the key that was promised, and while it is being written the values of
  the start carry that key (`FileInv`); since the pointer was read the deployment is the
  one it was, or that of this start (`DeployInv`); `celld.dev` has a node only while it
  runs (`DevInv`). It gives `StartsAreSound`. Of `GitClone`, `CloneInv`: each frame of the
  walk stands at the tree its directory leads to (`FrameFits`), and the files, their
  number and their bytes are those of exactly the paths of the tree that no frame has
  still ahead of it (`Visited`, `WalkFits`). Entering a directory passes nothing
  (`WalkDescends`), taking a file passes its path alone (`WalkTakes`) because the names in
  a tree differ, and a walk that has left every tree has nothing ahead. No path is longer
  than there are trees, as the trees on it go down in the numbering that `CloneConstants`
  assumes (`Rank`). It gives `ClonesExact`.

The effect of an action on the tables is stated once, as an operator
(`SealEffect`, ...), proved in a lemma of its own (`SealDoes`) and cited by all
invariants of the module.

What a fold or a recursive function computes is proved where the proofs need it
(the bytes of a set of blobs, URLs or files; the entries along a path) by the least
number at which it would fail, as the induction theorems of the library cannot be
instantiated here.

Only model-checked: the five liveness properties of `live`, because the proof system
has no rules for fairness here (`NobodyWaitsInVain` is the safety half of
`WaitersAnswered`), and that the loop which advances an
interval is the closed form `Jobs` has of it (`IntervalLoop`, for small values).

## 6. Findings

* `jobs_dropped`.  `dispatchDueJobs` claims all due jobs of a user, which advances
  their schedules, and runs them in a loop without a `try`.  A run that throws
  (for instance `quota_exceeded` from `runStart`) ends the loop, and the claimed
  jobs behind it lose their slot (`docs/jobs.md:40`).  So do the jobs that
  `jobsClaimDue` has advanced when `computeNextRun` throws for one behind them
  (`user-cell.ts:1571`).
* `integrations_dropped`.  The answer to a refresh is stored in whatever the row
  has become, with status `connected`: a disconnect during the request is undone
  (`docs/integrations.md:150`).
* `setup_race`.  The second look at the number of users and the creation of the
  account are two calls of the registry (`web/signin.ts:241`); two setups for
  different addresses both succeed, against the comment at line 240.
* `package_update`.  A package installed from a directory of an archive keeps the
  directory in the fragment of its source, which the parser drops:
  `packageUpdate` saves what lies at the root (`packages/install.ts:216`;
  `capabilities/packages.ts:374`: "Re-install a saved package from where it came
  from").

## 7. Seen while modelling

The models contain these behaviours unless noted; no run is devoted to them, and
the properties exclude exactly these cases, by the history variables named in
section 3.

* Blobs: a rejected overwrite leaves the new bytes under the old row, and the
  clean-up of a rejected put of a new key may delete an object that another put
  has just indexed (`blobs/service.ts:71`; `docs/blobs.md:119` says the stores
  cannot drift).
* Runs: a run overtaken by as many newer ones as are kept is pruned by its own
  `runFinish`, which answers `internal_error` (`user-cell.ts:1865`) and counts
  the run twice in the usage of the day.  A crash leaves a run `running` for
  ever, and its idempotency key replays it; so does a throw of `graphHash` or
  `LOADER.get`, which lie outside any `try` (`engine.ts:145` to 156).  `await
  response.json()` follows the race with the timer and has none of its own
  (`engine.ts:178`): a body that never ends keeps the run `running`, its call and, for
  a job, the dispatcher waiting.  `KeySettles` and `DueJobIsClaimed` are about calls of
  `executeRun` that end.  A `runFinish` that fails inside the `try` is reported as an
  error of the run (`engine.ts:209`).  Retention by age is off in the run `runs` and on
  in `live` and in the proof; rows of one millisecond, which have no order in the
  table, are not modelled.
* Jobs: a cron expression for a leap day is accepted within 400 days of it; once due,
  every claim of that user throws (`schedule.ts:180`) and the jobs behind it are not
  claimed any more, where `dispatcher.ts:41` says "claims and runs every due job".
  `DueJobIsClaimed` is therefore checked for schedules that have another turn within the
  scan. A throwing `executeRun` leaves the job and its job run `running`
  (`dispatcher.ts:22`, `docs/jobs.md:67`); a one-time job that has run is never scheduled
  again, also when it is saved with a new date (`schedule.ts:217`, `docs/jobs.md:70`).
* Webhooks: an admission that read the row before a rotation clears the previous secret
  the rotation has just set (`user-cell.ts:2220` and the comment at 2130).
  `PreviousRevoked` speaks of what is left after an admission, so it does not tell that
  case. `docs/webhooks.md:56` says "Sliding window per webhook; excess deliveries get
  `429`". The code counts calendar minutes, so twice the limit passes within seconds
  around the turn of a minute; and a call that read the clock in the last minute and comes
  after one of this minute deletes the count of this one (`user-cell.ts:2207`), so the
  limit of a calendar minute may be passed too, once for each such call. `RateLimitHolds`
  states what the code keeps, which is less than that line promises. Duplicates are
  answered 202 or 200, not 409 (`docs/webhooks.md:117`). A result that `JSON.stringify`
  refuses (`ingress.ts:279`) is left out: it was parsed from JSON (`engine.ts:178`). Two
  overlapping mints fail on the UNIQUE constraint or pass the quota together
  (`user-cell.ts:2103`).
* Integrations: a failed exchange decides by the status it read before, and may
  clear the tokens of a parallel callback (`store.ts:470`); two overlapping
  posts of a connect page both pass the one-time ticket (`store.ts:414`); `rekey`
  writes what it read whatever the row holds by then (`store.ts:739`), so it may put
  back a refresh token rotated meanwhile, which the provider then refuses, or the
  tokens of a connection disconnected meanwhile; its counterpart for MCP tokens
  writes only over the ciphertext it read (`oauth-store.ts:637`).  The links an
  overlap of rekey and refresh spoiled are `lost`, and a description saved while tokens
  for the old one are asked for is `raced`: `RefusalDeserved` and `TokensOfApp` except
  them, so neither shows what such an overlap does.  Not modelled: a provider that
  honours a code after the description of the app has changed (`store.ts:278`);
  the model's provider refuses it whatever has changed.
* OAuth server: overlapping refreshes of one token leave two live refresh tokens;
  a revocation during a mint leaves the new tokens alive; a delayed duplicate of a
  refresh after the client has moved on ends the family; a grant may be made for a
  client purged meanwhile; codes survive `grantRevokeAll`.  Two requests that present one
  token together are excepted by `crowded`.  Not modelled: a kept answer that does not
  open any more, as after a change of the master key, is not repeated; the retry then
  ends the family (`server-store.ts:438` to 441).
* Accounts: a slow wrong attempt overwrites the count and clears a lock
  (`docs/operations.md:217`), so `LockHolds` is about attempts that do not overlap
  (`overlapped`); the rehash of a weak hash can undo a concurrent
  change of the password; a hand-off used on both sides of its expiry gives two
  app sessions.
* MCP client: tokens are read one await before `refreshNow` notes the generation,
  so a call held there over a clear and a new grant may write tokens of the old
  grant or clear the new ones (`oauth-store.ts:524`, `:556`); `accessToken` without
  a refresh token clears without a check (`:532`); a call with a fresh grant may
  join a refresh of the old one; `rekeyBearers` writes a bearer back over a
  replaced server (`store.ts:425`); `mcpServerOAuthBegin` may write an old client to
  a server added again (`user-cell.ts:1304`); the late outcome of a discovery at
  the old URL marks the replaced record (`store.ts:262`); the authorization of the
  present server is sent to the URL read before (`service.ts:162`); a start that
  registers another client leaves the tokens of the old one.  Not modelled: usage
  lists are read and written in separate calls (`capabilities/mcp-servers.ts:196`).
* Secrets: `secretRekey` may overwrite a value saved meanwhile; a provider run that
  ends after a rebind caches the value of the old package
  (`secrets/fetch-gateway.ts:349`, `docs/secret-providers.md:100`).  Not modelled:
  values are kept by name, so both scopes of one name in one request get the value
  of the last (`fetch-gateway.ts:169`); placeholders are replaced one after the
  other, so a value that contains one is expanded again; `*.example.com` approves
  any depth (`host-policy.ts:52`); two new secrets can pass the quota together.
* Email: a failing cell call becomes a 404 and "550 No such Kody inbox"
  (`email/service.ts:197`, `docs/email.md:131`); a message accepted for one
  recipient and over quota for another is answered 250 and lost for the second; a
  timeout of the bridge marks a delivered message failed; a report applied before
  the send marks "queued" is overwritten, and one that overtakes the index is lost:
  `StatusTrue` excepts `early` messages and so does not tell this case;
  a crash leaves "sending" for ever; two overlapping verifications of the first
  destination leave no default.  A message without a Message-ID is stored again by
  each retry (`user-cell.ts:2543`), which `InboundExact` excepts.  Not modelled: a
  request the Worker cannot parse, which the bridge turns into 554; an address of
  another domain; a body so large that the request itself is refused
  (`email/inbound.ts:205`); any address of the domain is an allowed recipient;
  `docs/email.md` gives 15000 ms for a timeout the code sets to 20000.
* Packages: `packageSave` records any `source` it is given for files that never came from
  there (`capabilities/packages.ts:53`). The next `packageUpdate` fetches from it, and the
  package then is what that source says; `ProvenanceHolds` excepts packages whose source
  is only `claimed`. An update under way re-creates a package deleted meanwhile and
  overwrites a local save; a name unpublished by its owner can be published by another,
  whose files the installers' updates then get; an install counted over an unpublish and a
  publish counts for the new listing.
* Package apps: stamps are read after the build, so a dependency saved during it
  leaves a stale graph in service until the next save (`apps/serve.ts:18`), and one
  deleted then is no longer watched.  A package imported only by a dynamic `import()`
  that is not saved becomes a stub that throws (`execute/module-graph.ts:153`, 310 to
  319); it is not among the packages whose stamps are compared (`apps/serve.ts:48`), so
  after it is saved the kept stub is served until another package of the graph is
  saved, where `docs/package-apps.md:55` says that a package whose dependencies "are
  re-saved, serves the new code on its next request".  `ServedIsCurrent` compares
  what a graph has of saved packages and excepts its stubs.  Not modelled: two saves
  in one millisecond; what a package behind a dynamic import would import itself
  (it is taken to import nothing); a build that is going to fail reads on before it does.
* Module graph, not modelled: a dynamic import that cannot be resolved (it is followed
  like a static one here; the stub is in `AppGraph`); relative imports of files that
  are missing and names that a package does not export.
* Memory: a forced delete racing an indexing that has read the row leaves the
  vector behind; an older indexing that ends last overwrites the vector and marks
  the row; a failed drop leaves an orphan.  Not modelled: the category of a search,
  which only makes its best answers fewer.
* npm: the memo ignores the expiry of the shared cache, and a slow resolution
  stores an older content over a newer one with a fresh time.  Not modelled:
  different URLs may get one module path.

* Git clone: for an annotated tag the commit reported is the hash of the tag object
  (`packages/git-smart-http.ts:606`); a tag of a tag is refused; a ref-delta whose
  base comes later in the pack is refused (`:411`); a reference of the literal name goes
  before a branch of that name and a branch before a tag.  The commit is fixed by the
  discovery, so a remote that moves afterwards can only refuse.
* Single node: a crash between the emptying of `kody.env` and the line of the master
  key loses a generated key, which "makes every stored user secret unreadable"
  (`docker/entrypoint.sh:61`).  After such a crash an operator's value is used but
  not written, as lines 43 and 44 compare it with itself when the file lacks the
  line; the comment at line 33 says it is written back.  A failed read of the pointer
  before the deployment makes the old one look new (`docker/single-local.mjs:193`),
  and the node then runs it.  A SIGKILL of `celld.dev` may leave its node, and only
  the port is looked at (`:146`).  Not modelled: `PORT` in use by another program.
* Package storage, not modelled: `list` gives the length of the prefix in UTF-16
  units and SQLite counts characters, so a prefix with a character outside the basic
  plane matches nothing (`cells/package-storage-cell.ts:77`).

## 8. Not modelled

* Parsing of manifests, cron expressions, MIME messages, archives, the framing of git's
  protocol, SQL and program text; cryptography, which is perfect here; scores of search
  results, which are floating-point arithmetic; the wording of errors, pages and logs.
* The fleet mode of the container and its tunables, which are configuration, and
  `celld` itself, whose guarantees section 1 names.
* The MCP server and the capabilities: arguments are parsed and a cell is called;
  the calls are the actions of the components.  AI, browser and highlighting
  providers are stateless requests.
* The console and the client (`web/`, `client/`, `universal/`), almost half of the
  repository's lines: rendering and styles.  What their forms change is modelled
  with the component they call.
* Read-only operations (lists, searches, statistics) where no property depends on
  what they answer.
* Within modelled components: API tokens, audit, the sliding expiry of sessions;
  usage lists and client secrets of integrations;
  `KODY_MASTER_KEY_PREVIOUS` in the container; rekeying of MCP tokens
  (it writes only over the ciphertext it read); limits of the catalogue, hidden
  listings and branch names; relative imports, JSON modules and ad hoc code in the
  graph; attachments and the limit of inboxes in mail; the transport and the size
  limits of MCP.
