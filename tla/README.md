# nixstr-cache: TLA+ verification

This directory holds a TLA+ model of nixstr-cache, a daemon that serves a Nix
binary cache from Hashtree roots announced on Nostr and stored on Blossom
servers, and that publishes its own writable cache the same way. It follows the
data: uploads become an overlay (`WritePath`), an overlay becomes a Hashtree
(`Hashtree`), the tree an announced, available and selected publication
(`Publication`), the selection decides what is served (`Selection`,
`ServePath`), and blobs are fetched, cached and kept (`ReadPath`, `BlobStore`).
`Daemon` starts and stops the process around them.

## The system

| Component | State | Operations | Talks to |
|---|---|---|---|
| HTTP handler, merged cache (`nix/`) | request budgets | GET/HEAD/PUT of narinfo and NAR, precedence over selected publications | reader, staging, selection |
| Staging (`write_repository.ts`) | `staged_blobs`, `staged_narinfos`, reservations | `stage`, `discard`, quota | HTTP, blob store |
| Overlay, eligibility (`write/overlay.ts`, `eligibility.ts`) | overlay generations, leases | closure check, `commitOverlay` | staging, scheduler (`onCommitted`) |
| Batch scheduler (`batch_scheduler.ts`) | window (`publication_clock`), `publication_batches`, serial build chain | `dirty`, `#fire`, `#enqueue`, `close` | repository, Hashtree writer, coordinator (cancel) |
| Publication tables (`write_repository.ts`) | pending candidate, saga, history, inventory, proofs, endpoint work, owners | claim, refresh, proofs, outcomes, prune | everyone above |
| Coordinator (`publication_coordinator.ts`) | `#serial`, `#replicaAbort`, timer | `#run`, `#replicateInitial`, `#repair`, `close` | tables, Blossom, signer, relays, selector |
| Selection (`selection.ts`, `state_repository.ts`) | `identity_state`, EventStore, snapshot, expiry timer | `accept`, expiry, startup load | relays, coordinator |
| Blob store (`blob_store.ts`) | catalog, owners, reservations, tombstones, leases | reserve, admit, evict, release | fetcher, writer, tables |
| Reader, writer, manifest cache (`hashtree/`) | in-flight map, LRU | resolve, build, materialize | fetcher, blob store |
| Blob fetcher, safe fetcher | in-flight map | verified fetch | blob store, network |
| Signer (`signer/capability.ts`) | status, key | start, assert, sign, close | coordinator |
| Daemon (`runtime/daemon.ts`) | supervisor, drains | start, activate writes, stop | all |

Everything runs on one JavaScript thread. Two activities interleave only at an
`await`; a SQLite transaction is atomic and durable; the process may die at any
statement. That makes three things hard: what another actor does while `#run`
is at an await, what a restart finds, and long sequences of batches, refreshes
and prunings that share one id space. `PROJECT.json` lists the hazards at
their lines.

What makes each part correct:
- coordinator: no event is announced before a named server stores its tree; one
  event per candidate; a signed saga is carried to admission; nothing starves;
- tables: live rows are never taken by archiving, refreshing or pruning;
  attempts are bounded; no row is orphaned;
- scheduler: a committed generation is published, or a newer one is;
- selection: the snapshot is the newest valid event and only moves forward;
- blob store: an owned or leased blob is never taken away, usage stays within
  capacity, and a restart brings catalog and files together again;
- staging, overlay: the quota holds under concurrency, routes are immutable, a
  visible path has its whole closure, a complete path becomes visible;
- writer and reader: the tree is a function of its contents, and every route is
  found or proved absent;
- fetcher, manifest cache: shared work never leaks a lease, never mixes up its
  accounting, and every request ends;
- signer: one identity for ever, and no key left in a closed signer;
- daemon: shutdown closes nothing that a worker still uses, and it ends when the
  signer answers;
- HTTP handler: leases are exact and protect what is being served; a NAR comes
  from the publication that named it.

## Modules

| Module | Role |
|---|---|
| `PublicationTables` | the publication tables of `WriteRepository`; one operator per repository method |
| `Publication` | scheduler, coordinator, own-identity selector, crash/close/restart; composes the tables; all properties of the loop |
| `PublicationGate` | abstract specification: what the loop promises a reader |
| `BlobStore` | `blob_store.ts`: catalog, owners, routes, reservations, tombstones, files, leases, `reconcile()` |
| `ReadPath` | `manifest_cache.ts`, `blob_fetcher.ts` and the streams of `reader.ts`, composed |
| `Hashtree` | the algorithms of `writer.ts`, `reader.ts` and `protocol/hashtree.ts` as operators, driven by a sequence of batches |
| `WritePath` | the PUT branch of `http_handler.ts`, staging, `eligibility.ts`, `onCommitted` |
| `Selection` | `selection.ts`, `state_repository.ts` and the verdicts of `validatePublication` |
| `ServePath` | the GET/HEAD branches of `http_handler.ts`, `merged_cache.ts`, `overlay.ts` and generation leases |
| `Daemon` | `signer/capability.ts` and `runtime/daemon.ts`: the signer's lifecycle, activation of writes, launch, shutdown and crash |
| `MC*` | small constants for TLC, one module per specification |
| `Subsequence` | the filters of the code as one operator, `Where`, that proofs can follow |
| `Publication_proofs` | types, events and endpoint work of the loop, the availability gate, the refinement and the inventory, proved |
| `BlobStore_proofs`, `ReadPath_proofs`, `WritePath_proofs`, `Selection_proofs`, `ServePath_proofs`, `Daemon_proofs` | types and safety of each component, proved |
| `Subsequence_proofs` | lemmas about `Where` |

The modules meet at their variables. `Publication` takes an overlay generation
as given, which `WritePath` produces; a tree as the set of its blobs, which
`Hashtree` builds (`InventoryCovers` is what makes that sound); its owner rows
are those of `BlobStore`. `ReadPath` assumes of the store what `BlobStore`
shows (`LeasedIsReadable`, a part of `KeptIsReadable`). `ServePath` takes selection changes from
`Selection` and commits from `WritePath`. They are separate because the code's
parts only share such values, and one state space of all of them is out of reach.

Operators whose comment begins with *Mutant* (or *A mutant*) are no part of a
specification: each is a plausible mistake in the definition that follows it,
used to see that some property fails when the code is wrong in that way.

## The publication loop

### State

A table of SQLite rows is a function from its key, or a record or `None` for a
singleton: `window` is `publication_clock.generation`, `batches` is
`publication_batches`, `pending`, `saga` and `history` are the candidate, the
active saga and its archive, `sagaBlobs`, `proofs`, `work`, `attempts` are the
rows keyed by batch id, `owners` the `batch:` and `saga:` rows of
`blob_store_owners`. `up`, `pc`, `template`, `acked`, `worker`, `left`, `bad`,
`cancelled`, `round`, `stray`, `queue` and `pruning` (`#admittedGeneration` is
set) are the process's memory; `stored` is the
own row of `identity_state`, `loaded` and `current` the EventStore and snapshot.
`held` (what servers store) and `announced` (what relays were given) are ghosts
of the outside world.

### Actions

`pc` names the place in `#run`. At a *Holding* place the thread is not released,
so only the coordinator (or a crash) moves; at a *Waiting* place (idle, an
upload, the signer, the relays, a repair) every other actor may.

| Action | Code |
|---|---|
| `Dirty`, `Fire`, `Build`, `BuildFails` | `dirty`, `#fire`, both ends of `#enqueue` |
| `Tick`, `Asserted`, `AssertionFails` | `#run` begins, and `authorize` asks the signer; confirmed, an expiring publication is refreshed; it may also fail, here and at the start of `#repair` |
| `Claim`, `Ensure` | `#run` up to the first upload: `claimPublication` (credit, keep, replace, conflict), work rows |
| `Authorized`, `AuthorizationFails` | `prepareReplicaAuthorization` |
| `ProveBlob`, `FinishServer`, `AbortServer`, `EndReplication` | the worker pool of `#replicateInitial`, one `prove` call per step |
| `Stage`, `Signed`, `SigningFails` | template, signer answer, `recordSigned` |
| `Published`, `PublishFails`, `Acknowledge`, `Commit` | relay publication up to `commitPublication` |
| `Admit`, `Mark` | selector admission, `markPublicationAdmitted` with `#pruneAdmitted` |
| `ReleaseLease` | a request ends and `acquireGeneration`'s release runs `#pruneAdmitted` |
| `Repair`, `Repaired`, `RepairThrows`, `StrayEnds` | `#repair`; a rejected `Promise.all` leaves siblings running |
| `Echo`, `ExpireSelection` | relay subscription and expiry timer of the selector |
| `Crash`, `Close`, `Restart`, `TimePasses` | process death, graceful shutdown, `#activate` with the constructors, clock |

### Abstractions

- A Hashtree is its blob set `Tree[g]`; equal roots are equal sets. Relay lists
  are fixed, destination lists vary per claim. Servers keep what they store.
- Backoff times are gone: open work may or may not be due. The endpoint code and
  attempt times are not kept; replica attempts are not counted (they are
  exhausted at once).
- `claimEndpointWork` and `recordEndpointOutcome` of an initial attempt run
  without an await and are one step; a crash between the two statements is the
  same as a crash before them up to the status `retry` after restart.
- `commitOverlay` and `markPublicationDirty` are one step, and
  `recordPending`'s commit and the release of the superseded owner are one step;
  the crash between the first two is in `WritePath`, the other is a listed hazard.
- The update and the pruning of `markPublicationAdmitted` are one step; a crash
  between them only delays the pruning to the next admission. The overlay rows
  that `#pruneAdmitted` also deletes are in `ServePath`.
- A build checks its batch row when it ends instead of when it starts; nothing
  changes the row in between but pruning, which leaves nothing to record.
- The selector keeps the strict `created_at` rule; the event-id tie-break,
  downgrade consent and the `created_at > now + 900` check are in `Selection`.
  Signature checks are represented by the signer failing.

## The other modules

### BlobStore

State: `catalog`, `owners`, `committed` routes, `reservations` and `tombstones`
are the SQLite tables, `files` the directory, `leases` the memory. `Reserve`,
`Promote`, `AdmitFails`, `Lookup`, `ReleaseLease`, `AcquireOwner`,
`TransferOwner`, `ReleaseOwner`, `CommitRoute` are the public methods; `Delete`
and `DeleteIfUnownedWrite` are the private ones they call, inside the action.
`ReserveFails` keeps the deletions of files that a rolled-back `#makeSpace` has
made. `CrashInPromote`, `CrashInReserve` and `CrashInRelease` stop between a
file and its row. `Start`, `ReconcileRow`, `ReconcileTombstone`, `AdoptOrphan`
and `NextLoop` are the loops of `reconcile()`, `Throw` its way out on an error.
The order of last access is left open, so every eviction order is covered.
`inventory()` reads at most 10000 rows (`blob_store.ts:451`) and the model has
fewer; `reconcile()` reads the whole catalog, but the result of `admit` and the
sweep after `transferOwner` go through `inventory()` (see the disagreements).
A file never has wrong bytes: corruption on disk (`#quarantine`) is left out.

### ReadPath

A request asks for one manifest under a source plan and then for its chunks.
The manifest cache joins loads by hash and plan and runs them under its own
signal; the fetcher joins downloads by hash alone and runs them under the first
caller's. `FetchHit`, `FetchMiss`, `AttemptSucceeds`, `AttemptFails`,
`SkipQuarantined`, `OutOfBudget`, `Unavailable` are the fetcher, `Resolved` and
`Rejected` the continuation after its await, `Load*` and `Close*` the cache,
`Chunk*` the stream. `Evict` is another reservation's `#makeSpace`.

The batch scheduler is a reader too: `resolveBase` materializes the base of a
build through the same fetcher, past the manifest cache, under the scheduler's
signal and a budget per base (`Base*`), and holds every blob until the build is
over; `SchedulerCloses` is its `close()`. A view of the instance says which
requests come, what they ask for and which base the builds have. A download that
fails may quarantine its origin, an aborted one as well: `abort` cancels the
response's reader, the pending read reports the end of the body, and the part
that arrived has another hash (`blob_fetcher.ts:296`). A chunk shorter than its
manifest says is refused after its admission and stays in the store (`:345`), and
so does a blob whose row `admit` does not find for its result.

### Hashtree

Blobs are values: a manifest is the record of its links, so equal hashes are
equal values and no hash function is needed. `Build` is the writer
(`BuildFile`, `BuildDirectory` and `Collapse` with its groups and levels;
`Imported` reads a base), `Resolve` and `FilePlan` the reader, `Decodable` the
checks of the decoder. Names are numbers: the reader compares in UTF-16 order and
the writer in byte order, which agree on the ASCII of routes. `Publish` builds a batch on the former root, as the
scheduler does. The properties are the reference definitions: the tree is the
one of a single build, and reading it gives back the files.

### WritePath

Texts of narinfos are abstract: the narinfo of path p, or garbage. An upload
goes through `BeginInfo`, `ReadInfo`, `InsertInfo`, `ReadBack`, `RecordInfo` and
`OnStaged` with an await between them; after `ReadBack` the handler acts on what
it read, whatever happened to the row meanwhile (`RejectInfo` discards the route,
`RecordInfo` records it). `torn` is history: the paths whose right narinfo a
`discard()` took. A NAR is one step at the end of its body
(`StageNar`), since before that only the blob store sees it. The queue of
`EligibilityModel` is `queue`; a recomputation runs to its next await in one
step (`ToAwait`) and continues with `LowerAnswers` or `LowerFails`. `Reject`
gives each caller what the code gives it: 503, a failed activation, or, for the
unawaited promise of the subscription, the end of the process. The lower layer is
a fixed set, so `OverlayClosed` is relative to it: in the code the selection may
change, and a reference that a publication held may be gone later. All blobs have
size one; the ceilings of visited nodes and metadata are left out.

### Selection

Events are records enumerated in `MCSelection`, all well formed; delivery in
any order, again and late is the choice of `Accept`. The event store is
applesauce's: `timeline()` is called without its second argument and then shows
only the newest version of a replaceable event (`OldVersions = FALSE`),
although the store keeps the others. `AcceptCrashes` stops between the
transaction and the store. `setUnsignedConsent` has no caller outside the tests;
it is modelled as an operator's choice at any time. `Tick` is the clock.
`capped` is history: the timer set for the snapshot fires before the expiration
it is meant for, because that is further away than the ceiling of a timer.

### ServePath

A store path has one NAR route in all sources. `kept` are the generations with
rows, `leases` the counter of `acquireGeneration`; `signer` and `winner` are the
two registries in insertion order, with an entry `due` once its time to live has
passed. `told` and `leaked` are history: which source's narinfo a client saw
last, and which leases no one holds any more.

### Daemon

`proc` is where the process is between `launchDaemon` and the end of
`dispose()`; `bound` (the row of `bindIdentity`) survives it, and `open` says
whether the databases are open. `signer` is the state of `createSignerCapability`
with its `closed` flag, `active` and `key`. `ready` is the place in the
`signerReady` chain, `activation` that in the activation task, and `calls` holds
for each caller of `assertIdentity` the public key it found before its await;
`Judged` is what the capability does with the answer. `SourceReady`,
`PubkeyKnown` and their failures are `start()`, `ReadyAsserted` and `Rejected`
the rest of the chain, `Activation*`, `Reconciled` and `CleanedUp` are
`activateWrites`, `Tick` and `Proves` the assertions of `authorize` and of
`replica.prove`, `Sign*` is `signEvent` inside the coordinator's `#bounded`,
`Put*` the authorisation of an upload. `Signal` to `Finish` are shutdown:
listener, tasks, drains, signer, databases. `Launch` may come with another
configuration, `Switch` changes the account of a remote signer at any moment.
The build and the loop are only busy or idle here; what they do is
`Publication`. At most one `signEvent` is under way: one that `#bounded` gave up
is finished before the next begins; likewise one `prove`. `close()` of the
coordinator aborts what runs under a signal, while an assertion in `authorize` or
`prove` goes on and the drain waits for it (`DrainCalls`), unless another repair
fails and `#repair`'s `Promise.all` leaves it behind (`RunEnds`). The listener is
sure to close only when no PUT waits for its assertion; what else
`Deno.HttpServer.shutdown` waits for is outside the code.

## Properties and runs

Deadlock is checked in every run. Each module has a type invariant `TypeOK`; the
`core` run checks that of `Publication`, and the other configurations accept
theirs as a further `INVARIANT`: none of them is an answer a run is for.

| Run | Instance | Shows |
|---|---|---|
| `core` | 2 servers, 2 workers, 1 relay, 2 generations with growing trees, 3 ids, refreshes, clock to 4, 1 crash or shutdown | `TypeOK`, `AnnouncedIsAvailable`, `OneEventPerCandidate`, `GenerationsAdvance`, `UploadsAreOwned`, `GateInvariant`, `SignedIsKept`, `ImplementsGate` |
| `progress` | fair; 1 server that is listed or not, 2 relays, 2 generations of one root, lifetime 1, clock to 2, 1 crash or shutdown | `NoOrphanWork`, `CommittedIsAdmitted`, `CandidateIsClaimed` |
| `blob_store` | 2 blobs of sizes 1 and 2, capacity 3, 2 owners, 1 route, 2 admissions, 2 failing unlinks, 2 crashes | `CapacityRespected`, `KeptIsReadable`, `NoWriteGarbage`, `RestartKeepsOwned`, `ReconcileAgrees` |
| `read_path` | fair; 2 requests and the scheduler, 3 manifests, 1 chunk, 2 sources, shared or different plans, with and without a base | `CacheAccounting`, `NoLeakedLease`, `ManifestAbortIsOwn`, `EveryRequestEnds` |
| `hashtree` | 7 routes, files of 0 to 5 chunks, 2 links per node, every sequence of batches | `CanonicalRoot`, `ResolvesExactly`, `InventoryCovers` |
| `write_path` | 2 paths in a chain over a lower layer, 5 offers, 2 uploads at once, 1 crash, 1 fault | `QuotaRespected`, `OverlayClosed`, `OverlayReadable`, `RouteImmutable`, `CompleteIsVisible` |
| `selection` | fair; 2 identities, 6 events, clock to 4, timer ceiling 2, 1 crash, 1 corruption | `NeverRollsBack`, `NoSilentDowngrade`, `SelectionIsDurable`, `ExpiredIsDropped` |
| `serve_path` | fair; 2 store paths, 2 publications, 2 selections, 2 generations, 2 slots, 3 requests, 1 fault | `LeasesExact`, `LeasedIsKept`, `NarFromTheSamePublication`, `EveryLeaseReturns` |
| `daemon` | fair; local, remote and locked signers, 2 accounts, any number of launches, crashes, account switches and shutdowns | `WorkersDrained`, `OneIdentity`, `KeyGoesWithTheSigner`, `ShutdownEnds` |
| `refresh_masks`, `fanout_root`, `lost_mark` | the same modules | the findings below |

Bounds. Two generations are enough for every replacement (unsigned, admitted,
refused) and for a rebuild out of order; three ids for a refresh of a refresh and
for a collision with a batch; two servers for a sibling that completes, fails or
is cancelled; two attempts for retry and exhaustion; one crash at every state.
In the blob store a download of either blob needs the other's space, and the
second crash falls into the reconciliation of the first. Two requests are enough
for a joiner and an owner of shared work; with a base, the scheduler is the third.
In `progress` one server and one tree leave the room for two relays, expiry before
admission, the empty server list and a signer that hangs; the pool of two workers
is in `core`. Two links per node make five files a
tree of three levels. Two overlapping uploads cover every race between a
narinfo, its NAR and their recomputations; the third is serialised by the slots.
In `selection` the feed has two events of one second, one that expires before an
older one, and an unsigned one after signed ones; expirations both within and
beyond the ceiling of the timer occur. `Lifetime` against `MaxTime`
decides whether events expire within a run. Everything named `Max...` except
`MaxEntries`, `MaxDecodedBytes`, `MaxAttempts` and `MaxLinks` is a bound of the
model, not of the code. No symmetry is used.

Conditions in properties say where the code is known not to keep them:
`UploadsAreOwned` holds for the inventory unless a history row carries the live
saga's id or the saga is the refresh of such a one, `GenerationsAdvance` among the
events that are still in the saga tables,
`CandidateIsClaimed` unless there was a crash, it and `CommittedIsAdmitted` unless the
saga is `Stuck` (expired before its admission, or, after a crash, of an own identity that is
not a configured cache), `ManifestAbortIsOwn` while the scheduler is open,
`ExpiredIsDropped` unless the timer was `capped`, `KeptIsReadable` for owned blobs
and `RestartKeepsOwned` unless the blob has a tombstone, `OverlayReadable` and
`RouteImmutable` unless `discard()` took the narinfo by its own route (`torn`),
`CompleteIsVisible` for paths that share no NAR with another recorded path (`Held`),
`NoSilentDowngrade` and `NeverRollsBack` while the process is up, `LeasesExact` counts the leaked leases. Each of these is a
disagreement below, or, for the selection, a state that no reader sees.
`QuotaRespected` bounds what is staged and reserved by the quota, or by what an
earlier process left if that is more (`Allowed`), plus the NARs staged since
(`Late`), whose bytes are charged to the blob store and not to `#reserve`.

Fairness. `Publication`: the coordinator goes on wherever it does not wait for the
signer, because `#bounded` puts a timeout on the authorisation, the signature and
the relays, the uploader has its own, and `#schedule` always sets the next timer;
window timers fire; builds end; a supervisor restarts the process. `authorize`
(`publication_coordinator.ts:179`, `:641`) and the assertion in `replica.prove`
(`daemon.ts:789`) have neither a timeout nor a signal, so nothing is assumed of them
(`AtSigner`). What the liveness properties need beyond that they state as
conditions, each an assumption on the world: `SignerAnswers` (the signer answers or
fails every call, and asked again and again confirms the identity),
`ServersAreListed` (the list is not empty at every claim, as it is while the signer
is not ready, `daemon.ts:780`) and `RelaysAnswer` (a relay asked again and again says
OK once). Uploads and signatures may fail for ever.

`ReadPath`: attempts end because the fetcher has timeouts, and a reader pulls or
cancels. `Selection`: due timers run, the daemon is started again. `ServePath`:
sources answer or fail within their deadlines, a client reads or goes away, pins
age, due timers run. `Daemon`: promise continuations run, builds and fetches end, a
key in memory answers, and the listener closes once no PUT waits for the signer;
that a remote signer answers is the condition `SignerAnswers` of `ShutdownEnds`.
Clients, signals, commits, crashes, closes, and failures are never assumed.

### Findings

Three runs state what the repository's documents say, and TLC refutes it.

- `refresh_masks`: a refresh takes `MAX(batch_id)+1`, the id the next batch
  also gets; claiming that batch's candidate fails on its inventory rows at every
  tick.
- `fanout_root`: a root directory with more entries than `linksPerNode` is
  published as a fanout; neither `resolve` nor the next build accepts it as a root.
- `lost_mark`: when the recomputation that a PUT awaits is the one that commits,
  nobody calls `onCommitted`, and the generation is not published until a later
  one is. It takes a NAR and its narinfo uploaded at the same time.

Other disagreements, seen in the models and recorded without a run of their own.
The first four are one conjunct away from a passing run:

- `WritePath.cfg` with `MaxFaults = 0` and the invariant `torn = {}`: the handler
  reads a staged narinfo back, awaits, and when it does not parse calls
  `discard(route)`, which deletes whatever row the route has by then
  (`http_handler.ts:278`, `write_repository.ts:1736`). Two uploads of one bad text
  share a row; the first rejection frees the route, the right narinfo is staged
  and answered 200, and the second rejection deletes it. `03-01-SUMMARY.md:114`
  says that a mismatch "discards its staged row";
- a publication that expires more than 24.8 days ahead (the ceiling of a timer,
  `selection.ts:173`; the default lifetime is 30 days) is served past its
  expiration. The capped timer wakes up early, nothing has changed, so
  `distinctUntilChanged` lets nothing through and no timer is set again. The
  comment at `selection.ts:170` says it "must wake once at the timer ceiling and
  recompute", and `01-CONTEXT.md:17` asks to stop serving it. `ExpiredIsDropped`
  without its conjunct `~capped` is refuted by TLC in the `selection` run;
- `start()`, the activation, `authorize`, `prove` and a PUT await a remote signer
  without a timeout or a signal, and shutdown waits for all of them
  (`daemon.ts:401`, `:584`, `:778`, `:789`, `:858`), so a bunker that does not
  answer keeps the process from shutting down. `ShutdownEnds` without its
  condition `SignerAnswers` is refuted by TLC in the `daemon` run;
- a cache load may join the download that a build began for its base. When the
  activation fails, the catch closes the scheduler (`daemon.ts:880`), its signal
  aborts the download, and a request that nobody cancelled fails while the daemon
  serves on. `ManifestAbortIsOwn` without `Scheduler \notin aborted` is refuted by
  TLC in the `read_path` run: `BaseFetch`, a failed attempt, `LoadStart`,
  `SchedulerCloses`, `Unavailable`, `LoadRejected`;
- two store paths with the same contents name the same NAR. When both narinfos are
  recorded before it arrives, `affectedCandidates` looks up one of them with `.get()`
  (`write_repository.ts:512`) and only that one becomes visible; the other waits for
  the next upload to one of its routes or for a restart. `WritePath.cfg` with both
  paths over the lower layer, one NAR and no `Resident` has such behaviours, which the
  last conjunct of `Held` excludes. `03-03-PLAN.md:153` says of the arrival of NAR and
  narinfo: "Either order accepted";
- the id reuse behind `refresh_masks` lets `#pruneAdmitted` delete the live saga's
  inventory and owner (`write_repository.ts:1447`);
- the same reuse loses archived events: a refresh archives with `INSERT OR IGNORE`
  and a claim with `INSERT OR REPLACE` (`write_repository.ts:1259`, `:1012`), so when
  the history has the id already one of two announced events is forgotten. The next
  `created_at` is one more than the newest archived one and may then equal that of
  the forgotten event, and the refreshed saga starts with the inventory that pruning
  had emptied. `Publication_core.cfg` with one server, one relay, one blob,
  `Tree <- RepeatedTree`, `MaxBatch = 4`, `MaxAttempts = 1`, `Lifetime = 2` and no
  crash has such behaviours; `Remembered` is the condition that excludes them;
- after a restart the rebuild of an older failed batch overwrites a newer pending
  candidate (`write_repository.ts:916`);
- the own selection is loaded before the own identity is authorised; when the own
  identity is not a configured cache, a crash before admission cannot be
  recovered from (`selection.ts:232`). `progress` passes with `OwnConfigured = FALSE`
  too, because `Stuck` is then where the loop ends;
- an event that expires before admission blocks the loop
  (`publication_coordinator.ts:391`): the other case of `Stuck`, which `progress` reaches;
- a relay repair that throws leaves its row claimed until the next restart
  (`publication_coordinator.ts:683`);
- a tombstone survives the readmission of its blob, and the next `reconcile()`
  deletes the blob although it is owned (`blob_store.ts:596`);
- a joined download runs with the first caller's signal, budget and sources, and
  its failure is everyone's (`blob_fetcher.ts:195`);
- an abort in the middle of a body may quarantine an honest origin
  (`blob_fetcher.ts:296`, `:331`);
- a repair that outlives `#repair`, because a relay attempt of the same round was
  aborted by `close()`, is awaited by no drain and may write to a closed database
  (`publication_coordinator.ts:645`);
- in a store of more than 10000 blobs, `#promote` looks for the row it has just
  committed among the first 10000 (`blob_store.ts:371`, `:518`) and returns
  `undefined` for the others, on which `#attempt` throws although the blob is stored;
  the sweep of `transferOwner` (`:550`) passes them over too. `ReadPath` has the
  failed attempt, `BlobStore` is the store below that size;
- an overlay narinfo that cannot be read or parsed leaks its generation lease
  (`http_handler.ts:361`);
- a NAR without a pin is taken from the current overlay even when the narinfo came
  from a publication (`http_handler.ts:413`);
- a narinfo upload whose file another route's `discard` unlinked leaves a row
  without a file (`write_repository.ts:1744`);
- the repository's `README.md` promises that incomplete replicas remain repair work,
  while the code exhausts them at their first failure (plan 260814-l5q made that
  intentional).

## Proofs

`tlapm M.tla` checks the proofs of each `*_proofs` module from nothing. Every
theorem holds for any number of servers, blobs, uploads, requests, events and for
any value of the bounds. The assumptions on constants stand in the module that
declares them (`...Assumption`) and TLC evaluates them on every run: sets that
SQLite or memory holds are finite, names of one kind are not names of another,
`None` is no row, a request is no load, sizes and limits are numbers. Three are facts
of the code:
a narinfo body has a positive ceiling (`PerBody`), an event id names one event,
and the configured cache identities are distinct.

An argument has the same shape everywhere: a type invariant, an inductive
invariant that adds what the code knows at each await, checked by TLC on the
instance of the run first, one lemma for each action, and a last step by PTL.

### The publication loop

- `TypeCorrect`: `TypeOK` alone is not inductive: `#run` dereferences the saga,
  its event and the template without looking, so `TypeInv` adds what each await
  leaves behind (`PointsTyped`).
- `OneEvent`, `CreatedAtAdvances`, `SignedSagaStays`, by the inductive
  `EventInvariant`. `SagaSteps` divides the steps of the loop: a refresh, a claim that
  replaces, `Stage`, `Signed`, and all others, which keep the candidate and the event
  of the saga, the history and what was announced. An archived saga is of an older
  generation than the active one or of a smaller id (`HistoryIsOlder`), and an
  announced event is the active saga's or of an earlier candidate whose id is in the
  tables (`AnnouncedIsKnown`); so a second event for a candidate would have to come
  from a saga that has one already. Between the template and the signer's answer
  nothing is archived, hence `created_at` still exceeds that of every archived event
  when it is recorded (`CreatedAdvances`). Only a refresh and a claim replace a saga,
  and both look at `admitted` or `signed`.
- `WorkIsOwned`: `NoOrphanWork`, from the same division; a stray repair writes only
  where its row is claimed still, and such a row is the active saga's.
- `GateInvariantHolds` and `GateHolds`: `AnnouncedIsAvailable`, by the inductive
  `GateInvariant`. An event becomes announced because its saga has a complete
  server. That server is sound (`CompleteIsSound`) either because
  its proofs cover the inventory (`ProofsAreTrue`, `InventoryCovers`, and a
  cardinality argument on `ServerComplete`, which only counts rows), or because it
  was credited from an archived saga of the same root, or carried over by a
  refresh. `StagesInOrder` ties the event to the saga's tree and destinations;
  `PointsAgree` carries the same over the signer's await; `ReplicaWorkIsOwn`
  keeps workers within the destinations, so a complete server is one the event
  names. Pruning, which a lease release may run at any await, removes inventory
  and proofs together, so `InventoryCovers` allows an empty inventory, which
  `ServerComplete` refuses, and stale proofs never complete a mixed one. The
  `core` run checks the same invariant with TLC.
- `GateImplemented`: the loop refines `PublicationGate`, from the same invariant:
  only `ProveBlob` changes `held`, only `Stage` changes `announced`, and every
  other step moves the selection among announced events.
- `UploadsOwned`: `UploadsAreOwned`, with `InventoryIsKnown` (inventory rows have the
  id of a saga). A claim finds no rows under the candidate's id unless a saga has or
  had that id, and its owner takes over the candidate's. A refresh that leaves the
  old event in the tables has archived the old saga, so no history row had its id and
  its rows were intact (`InventoryRefresh`).

`EventInvariant` and `InventoryIsKnown` are defined in `Publication`; adding them to
the invariants of `Publication_core.cfg` has TLC check them in the same minute.

### BlobStore

- `HeldIsReadable`, `WritesAreCollected` by the inductive `Kept`: leases and
  owners point to ready rows with files, leases exist only in a running process,
  write blobs have an owner, and (`LoopsAgree`) what each loop of `reconcile()`
  has finished stays finished until the next crash.
- `RestartsKeepOwners`, `RestartsAgree` are the action properties
  `RestartKeepsOwned` and `ReconcileAgrees`, from the same invariant.
- `CapacityIsRespected` by `Space`, which adds `OrphansFit`: files without a row
  fit too, since `reconcile()` adopts them. Sums of sizes are written with
  `SumFunction`, whose induction theorem the provers cannot instantiate; the
  lemmas show them equal to cardinalities of sets of pairs and use the theorems
  about finite sets.

### ReadPath

`Inv`, defined in `ReadPath` with its parts and checked by TLC when it is added to
`ReadPath.cfg`, says who waits for what:

- `LeasesEnd`: a continuation knows only its own await, so `WaitsAreOwn` ties each
  await to the stage of its request or to the load it belongs to, and a load that
  still awaits its blob holds none; `PlacesAreSound` keeps the place in the body
  within it.
- `EveryWaitIsAnswerable` is `NobodyWaitsInVain`: what somebody awaits is in the map
  that settles it. It needs the joins (`FetchMiss` of a second caller, `LoadJoin`
  of a second request), the removal of a settled entry together with its waiters, and
  `close()`. What it leaves to `EveryRequestEnds` is that what is under way ends.
- `AbortsAreOwn` is the action property `ManifestAbortIsOwn`, from
  `LoadsObeyTheCache`. The fetcher joins by hash alone and runs under the first
  caller's signal; that a client's cancellation does not reach another's manifest is
  due to the first caller of a manifest's download being a load of the cache, under
  the cache's signal, or the scheduler, under its own. Requests only fetch chunks.
  The scheduler's case is the exception in the property.
- `BasesAreWhole`: `BaseIsHeld`. The scheduler awaits the item after those it holds,
  through hits, joins, rejections and the disposal at the end, and what is held is
  not evicted: a build never reads a base with a hole.
- `CacheAccounts`: `Retain` subtracts the entries it replaces or evicts and adds the
  new one, also when loads under two plans retain one manifest twice. `BytesOf` is a
  recursive function
  over places; `BytesOfBoth` shows it additive over concatenation, by a least
  counterexample, and the rest is arithmetic on its parts.

### WritePath

- `TypeCorrect` includes termination: a recomputation under way always waits for
  the lower layers. `ToAwaitSettles` shows that the recursive function of
  `ToAwait` exists and that its passes end within the bound, by a measure
  (`Left`) that every `Step` lowers.
- `OverlayIsClosed`, `OverlayIsReadable` by `Inv`: candidates and admitted paths
  of the recomputation under way stay recorded, staged and closed while uploads
  move on (`RunIsSane`, `InfosAreStaged`, `OverlayIsStaged`), although they were
  checked before the await.
- `RoutesAreImmutable` is the action property `RouteImmutable`, from `RowsStay`:
  what each action may do to a staged row.
- `QuotaHolds` by `QuotaIsKept` and `ReservationsAreOwned`: an upload between its
  reservation and its row has the reservation, so the admitting transaction, which
  does not count reservations, cannot break the sum. `JobsAreOwned` says that a
  queued recomputation of a PUT answers that PUT and no other.
- `CompletePathsAreVisible`: `CompleteIsVisible`, by `Attentive`. While the process is
  up, a held path that fits the overlay has a job in the queue that is sure to look at
  it, or is a candidate of the recomputation under way (`Noticed`); jobs of uploads do
  not count, because their rejection is forgotten, while that of the others ends the
  process or its activation, after which `reconcile()` queues every recorded path.
  What a commit makes fit was a candidate, since the candidates are closed under
  references but for paths recorded since, which have a job; and the last pass of a
  recomputation passed over nothing that fits by then, but for what arrived since,
  which has a job (`Thorough`). Two recursions are fixed points: `AffectedCloses`
  (`affectedCandidates` returns all that refers to its seed, since until then every
  step adds a path) and `NothingLeft` (if nothing fits, nothing invisible is complete).

### Selection

The four theorems are for `OldVersions = FALSE`, what applesauce's `timeline()`
shows (with `TRUE` they are false). `Inv`: each row holds the newest event
accepted since it was lost (`RowsAreNewest`), the history of signing outlives the
row (`PolicyIsKept`), the event store holds no newer event of an identity than
its row (`StoreIsDurable`), and the snapshot is `Select` of the store
(`SnapshotIsCurrent`). `NoRollback`, `DowngradesAreAllowed` and `SnapshotAgrees`
follow. `Subsequence_proofs` gives the places an element of a filtered list came
from, which the order of precedence needs.

### ServePath

`Inv` adds to `LeasesExact` and `LeasedIsKept`: what a request carries at each
await (`RequestsAreSound`), that a publication somebody was told of is pinned
still (`ToldIsPinned`), and that the current generation is never pruned.
`LeasesBalance` counts requests and pins by cardinality; `WhereCount` says that
filtering a registry loses and repeats nothing. `ServedIsKept` and
`NarFollowsNarinfo` follow.

### Daemon

`Inv` says how the chains depend on each other: the activation task starts after
`signerReady` (`ReadyChain`, `ActivationTask`), shutdown passes its stages only
when the tasks before have settled (`ShutdownOrder`), and every public key that a
call found or a signature carries is the bound one (`OneBinding`).
`ShutdownDrains`, `IdentityIsBound` and `ClosedSignerIsEmpty` follow; the last is
where `start()` would fill a closed signer if `dispose()` had another order.
`ShutdownDrains` is about what shutdown awaits. Calls that nobody awaits any more may
still be under way when the databases close: a `signEvent` that `#bounded` gave up, a
repair that outlived `#repair`, the assertion of a PUT whose client left.

### What the proofs changed

Where an invariant was not inductive the model was compared with the code again:
`CrashInPromote` lacked the guard of the step it interrupts, `Authorize` could
happen twice, the feed of `Selection` began with an event no accepted row could
hold, `NoSilentDowngrade` looked at the snapshot of a dead process, and
`WritePath` had joined the read-back of a staged narinfo with what follows its
await, which hid the late `discard()` described above. `GenerationsAdvance` and
`UploadsAreOwned` were stated without the condition on forgotten events: three ids
are one too few for a refresh of a saga whose id is in the history, and the attempt
to prove them led to the behaviour with four. `CompleteIsVisible` had no condition on
shared NARs; the instance gives each path its own, and the job of a NAR that covers
one of two paths came up in the proof.

### Only model-checked

- liveness, which TLAPS cannot prove: `CommittedIsAdmitted`, `CandidateIsClaimed`,
  `EveryRequestEnds`, `ExpiredIsDropped`, `EveryLeaseReturns`, `ShutdownEnds`, each
  under the conditions it states;
- `Hashtree` (`CanonicalRoot`, `ResolvesExactly`, `InventoryCovers`), whose operators
  are recursive over trees, so that what they compute needs induction over data.

Every other invariant and action property of a passing run is a theorem.

## Not modelled

Not modelled, with the reasons in `PROJECT.json`: backoff times of endpoint work;
writer-run ownership and the sweep of temporary files; a failing
`createHandler`; quarantine of corrupt files; the text of merged
narinfos. Left out for good: HTTP parsing and headers, address policy,
configuration parsing, logging and status pages, TLS and the relay wire protocol.
