# A TLA+ model of ncps

ncps is a caching proxy for Nix binary caches. Several instances may run behind a
load balancer; they share a database, a NAR store (local or S3), an optional chunk
store and a lock service (Redis, or local locks when there is one instance). This
directory models the parts of it where goroutines, instances and shared state meet,
checks them with TLC on small instances and proves the main results with TLAPS for
every value of the parameters.

Paths below are relative to the repository; `cache.go` is `pkg/cache/cache.go`.

## 1. Inventory

### Components, their state and their operations

| component | state | operations | hard part |
|---|---|---|---|
| NAR download and streaming (`cache.go`) | `downloadState`: temp file, `bytesWritten`, `finalSize`, `downloadError`, channels `start`/`stored`/`done`, wait groups, condition variable | `pullNarIntoStore`, `streamResponseToFile`, `GetNar`'s streaming goroutine, the CDC goroutine, the cleanup goroutine | one writer, a chunker and any number of readers share a file that must disappear when the last one is done |
| Download coordination (`cache.go`) | `upstreamJobs` per instance, the download lock of a hash | `coordinateDownload`, `pollForDownloadOrTakeOver` | TTL locks, takeover, callers that go away, instances that die |
| In-flight staging (`inflight_staging*.go`) | `staging_state` row, part objects | request, produce, read, reset, reclaim, sweep | a producer that outlives the lock it was started under |
| Redis lock, circuit breaker, local lock (`pkg/lock`, `pkg/circuitbreaker`) | the key in Redis, `mutexes`, failure count and circuit, reference-counted mutexes | `Lock`, `TryLock`, `Extend`, `Unlock` | which of the two locks an `Unlock` releases |
| Redis read-write lock (`pkg/lock/redis/rwlocker.go`) | writer key, readers hash | `Lock`, `TryLock`, `Unlock`, `RLock`, `RUnlock` | several commands per call |
| LRU eviction and pins (`cache.go`, `queries.go`) | `narinfos`, `nar_files`, `pinned_closures`, `bytes_stored_at`, the NAR store | `runLRU`, `PutNar`, `DeleteNar`, `PutNarInfo`, `PinClosure`, `UnpinClosure`, `touch*` | rows go in a transaction, objects later; shared NARs |
| CDC chunk lifecycle (`cache.go`, `pkg/chunker`, `pkg/storage/chunk`) | `chunks`, `nar_file_chunks`, `total_chunks`, `chunking_started_at`, chunk objects, whole files | chunking, progressive streaming, recovery, migrations to and from chunks, chunk eviction | partial attempts, stale locks, objects reused while they are deleted |
| Narinfo get, put, purge, migration (`cache.go`) | narinfo rows, narinfo objects of the old layout, three locks per hash | `GetNarInfo`, `pullNarInfo`, `PutNarInfo`, `DeleteNarInfo`, `purgeNarInfo`, `CheckAndFixNarInfo`, `MigrateNarInfo` | a narinfo moves from the store to the database while it is read; hashes come from whichever of two uploads ends last |
| Upstreams (`pkg/cache/upstream`, `healthcheck`, `cache.go`) | health flag per upstream, the list of the cache and that of the checker | selection race, requests with retries, health ticker, collection of rows without bytes | first answer wins, errors are joined, an absence is not a failure |
| Schema migrations (`pkg/database/migrate`) | the schema, `schema_migrations` in dbmate's or goose's layout, its backup | `Detect`, `freshInstall`, `adopt`, `runGoose` | MySQL commits each statement; a run resumes where another was cut off, and pods run it together |
| fsck (`pkg/ncps/fsck*.go`) | suspects, residue flags, `verified_at` | ten checks, re-verification, janitor, repair sections | runs without a lock beside a live cluster; one section's repair is another's damage |
| Migration commands (`pkg/ncps`) | none of their own | worker pools over the cache's operations | the operations, which are in the modules above |
| Stores, NAR URLs, server, commands, support libraries | files, objects | I/O, parsing, wiring | little protocol of their own |

`PROJECT.json` lists every component with its status and the hazards of the code,
each at the line where it bites, with the properties that would catch it.

### How the components interact

A request (`server.go`) calls `GetNar` or `GetNarInfo`. When the asset is not in the
store, `coordinateDownload` takes the cluster lock of its hash (Redis lock), looks
again, and starts a job (`pullNarIntoStore`) that is detached from the request. The
requests of the same instance join the job and stream its temp file; those of other
instances poll for the asset, for staging parts, or take over a lock that was freed.
The job stores the NAR and its row, or hands the temp file to the chunker. The cron
job `runLRU` takes its own lock (`cacheLockKey`), which none of the other operations
take; it meets them in the database and in the stores only. The read-write lock
guards the maintenance commands against the requests.

### What makes each component correct

* download: nobody loses the temp file under a read; a body that ends cleanly is
  whole; it is stored before its end is reported; every stream ends; the file goes.
* coordination: one download per hash in the cluster (NARs), none once it is stored,
  one job per instance whatever happens to the lock; every request is answered.
* staging: a staged body that ends cleanly is whole; artifacts do not stay.
* locks: exclusion while no TTL runs out under its holder, release of one's own
  token only, fallback references that add up, calls that return.
* eviction: no row that is linked goes, no bytes nobody accounts for, pins are kept,
  the coldest go first, the size comes down.
* chunks: a NAR that is marked complete has exactly its chunks and their objects;
  what was stored stays retrievable during a migration; an abandoned attempt ends.
* narinfos: what the cache has is found by a get that runs while it is migrated; it
  disappears only when somebody deletes, purges or evicts it; it ends with the hash
  and size of its NAR file; every call returns.
* upstreams: what is answered was offered; a fetch nothing disturbs finds what is there;
  a failing request is not taken for an absence when rows are collected; an upstream
  that answers again is used again.
* fsck: a run takes away nothing that can be served; what it leaves is right; nothing
  without an owner outlives it; it ends.
* schema migrations: no version record is lost; success means everything is applied and
  recorded; whatever state a run was cut off in, the next ones finish.

## 2. Modules

Ten components have a module and an `MC...` module, and all of them a `...Proofs` module: `LockProofs`
is about RedisLock and RWLock, which share `Lockers`, and `CommandProofs` about Fsck and Migrate. Where one
proof module extends two components, the names of the second carry a prefix or differ
(`RWSpec`, `MigrateSpec`). `Substitution` is an abstract specification that `Upstream` implements. What a
behaviour may meet (a configuration, which faults occur, what clients do) is a record
in a variable `mode`, `rwmode`, `scenario`, `rollout`, `scene` or `cfg` that `Init` chooses from a constant set and
no action changes; one run then covers several configurations, and a theorem speaks
of all of them.

### NarDownload

One `downloadState`: `dl` is the goroutine of `pullNarIntoStore`, `cdc` the CDC
goroutine, `cleaner` the cleanup goroutine, `pc[c]` the calls of `GetNar`. Each
action is one stretch of code between two synchronisation points (`ds.mu`, `ds.cond`,
a channel, a wait group, a store call). `cfg` selects the storage path: whole file,
eager CDC on the simple path (the chunker reads the finished file) or on the pipe
path (it reads what the download writes), and whether the requested compression
agrees with that of the temp file. Removing the job and closing `ds.done` are two steps, for
`pullNarIntoStore` and for the CDC goroutine, because requests come in between. A client's snapshot of `bytesWritten` and
`finalSize` is a variable, because it is used after `ds.mu` is released. Bytes are
counted; their value is not modelled.

### Coordination

One asset, the requests of several instances, the lock with a TTL, the job map, the
download reduced to the parts it has read, and the staging of those parts: the row,
the part objects, producer, reader, reclaim and sweep. `mode` says whether staging
and eager chunking are on, whether it is a narinfo (`waitForStorage`: the lock is
released when the caller goes away) and which faults occur. Eager chunking is on the simple
path, where the chunker reads the finished file, or on the pipe path, where a goroutine of its own
reads what the download writes. When that goroutine returns early it removes the job and closes
`ds.done`, and the lock goes, while the body is still read: such a request is `Stray`. The queries of the
database are taken not to fail; stores, upstream and lock service may.

### RedisLock

The key in Redis with its token, `mutexes` of each process, the circuit breaker
(failure count, `closed`/`open`/`half`), and the reference-counted local lock of the
degraded mode. The quorum of Redis nodes is one register that is up or down. Retries
of `Lock` are not counted: it may try again or give up after every failure.
`RecordFailure` and the `AllowRequest` that follows it without an intermediate
effect are one step.

### RWLock

The writer key and the readers hash, one Redis command per action, with the attempts
of `Lock` counted. `Extend` and the degraded mode are not modelled here.

### Eviction

The tables, the markers, the objects of the NAR store, the cron job and the calls of
clients. The LRU transaction is one step, as is the breadth-first search of the
pinned closure (it only reads); the deletions of objects that follow are a step each.
An object is `<<nar, "own">>` or `<<nar, "zst">>`, the latter for a `Compression:none`
NAR that was downloaded. CDC is off: the chunk phase is in Chunking. The `.nar.xz`
variant of a none NAR is not modelled.

### Chunking

The life of chunks when CDC is on. A NAR has a `nar_files` row of compression none, to
which its chunks belong, and possibly the row of the compressed file it came from
(`"old"`). The state is that of the tables (`rows`, `total`, `started`, `links`,
`chunkRows`, `url` and `linked` for the narinfo), of the two stores (`objects`, `whole`)
and of the migration lock of each hash. A transaction is one step, as is the put or
deletion of an object; what a call remembers between them (the chunks it has put and not
recorded, the id of a row that may be gone, the chunks it is about to delete) is a
variable of the agent. The calls are chunking stores (`storeNarWithCDC`, with or without
a known NarSize), `MigrateNarToChunks`, `MigrateChunksToNar`, `PurgeChunkedNar`, the
clean-up of replaced files (`runCDCDeletedCleanup`) and clients, who are routed to the
whole file or the chunks and may follow a chunking that is under way. The recovery
(`runCDCLazyRecovery`, with its cursor) and the eviction (`runLRU`, with the choice of
narinfos left open) are agents of their own. What the recovery does with a row without bytes
(look, query, probes, deletion) is a step each, and rows may be too young for it. Locks of the dead, of
calls that could not release theirs and of a purge expire (`ExpireLock`); the lock of a call at work may
run out too, when an extension fails (`LapseLock`), and the call goes on; `lapsed` remembers the NARs to
which that happened. A chunk is a hash; a body is the sequence of
chunks the chunker cuts it into, and a body that ends too early is cut differently at its
end (`Cut`). In-flight staging and the background start of migrations are left out: a
client here reads chunks, and a migrate call may come at any time.

### NarInfo

One store path, the versions of its narinfo that sources may hold (each names a NAR of
its own), and everything that reads or writes it: `GetNarInfo` on the substituter path
(`get`) and on the upload path (`ask`), the pull of an instance with the download of
its NAR, `PutNarInfo`, `PutNar` (`send`), `DeleteNarInfo`, an eviction, `MigrateNarInfo` in the
background of a get and by the command (`cli`). The state is that of the tables (`row`,
`fileHash`, `fileSize`, `links`, `narFiles`, `marked`), of the stores (`bytes`, `obj`), and of the three
locks of the hash (`migLock`, `putLock`, `pullLock`); `p[x]` is a goroutine with what it
has read. A transaction is one step and a lookup is one step, so a get can be overtaken
between any two of its lookups. `CheckAndFixNarInfo` is a step for each of its reads and writes
(`FixQuery` to `FixHash`), of the upload of a narinfo, of that of a NAR, and of a download when it has
ended (`Fetched(v)`). What a row holds is reduced to its version: fields that
no property distinguishes (references, signatures, deriver) go with it. Coordination has
the details of the download lock; here it is a lock with a job behind it.

### Upstream and Substitution

Several upstreams, each with what it holds of each hash (`has`: nothing, a good narinfo, or
one its checks refuse) and how it answers at present (`net`). Three activities run beside each
other. The health checker is started before upstreams are added, in the order of `serve`:
`AddUpstreamCaches` extends the cache's list and then the checker's, `Trigger` starts a
check when none is running, a `Tick` does the same, and `Check` asks one upstream after
another. One fetch begins with the upstreams in rotation, asks several of them at once
(`Probe`, a goroutine each, with retries) and takes the first that arrives in the channel, or
the channel's closing, or an error (`Select`: whichever the runtime chooses), then gets the
object (`GetNar`, `getNarInfoFromUpstream`). One collection
(`gcOrSkipBackingLessNarFile`) reads the narinfos of a row without bytes, asks every upstream in rotation
about each of them, and deletes in one transaction. A row that was read without a narinfo is deleted by a
statement of its own (`GcOrphan`), whose cascade takes the links that were made since the query: `late` has
the narinfos they were of.

`Substitution` says what all this promises a fetch in three variables: `offers` (who has the
object), `fine` (nothing has gone wrong since it began) and `answer`. An object is answered
only while somebody offers it; only a disturbed fetch may miss what is there; every fetch is
answered. The mapping takes `offers` to the upstreams whose holding passes the checks, and
`answer` to itself, with `"stored"` for `"found"`; `Promise` is the abstract specification,
its fairness included, as a property of `Upstream`. `fine` is a history variable of Upstream:
it is set when a fetch begins with every upstream in rotation and answering, and cleared by a
failure, a recovery, a change of content, or the caller's going away.

### Fsck

The tables, both stores and one run of the command after another: the ten checks
(`Scan`), the second look at the suspects (`ReVerify`), the janitor of chunked residue
(`Classify`, `JanitorVisit`, normalise, flag, purge), the report and the decision, and the
sections of the repair in the order of `repairFsckIssues`. A check only reads, and is one
step; in a repair the re-verification of an item (`Pick`) and its deletion (`Act`) are
two, because the server may work in between. `Same` compares row ids, which the code uses in
some places and not in others. Beside a run the server may pull, upload, chunk or evict a
NAR, a step at a time; deletions may fail and a run may be stopped. A NAR has at most one
narinfo here, and a body is `right`, `short` or `wrong`.

### Migrate

`ncps migrate up` on a database that may be empty, of dbmate or of goose. The state is the
set of migrations whose changes are in the schema, and two tables, each with its layout (none, dbmate's or
goose's) and the number of rows per version, 0 being goose's sentinel; duplicate rows are possible,
and the parity check counts them. A query or a statement is one step, and a transaction of
SQLite or PostgreSQL is one; `seen` keeps what the first probes of `Detect` found, since the later
ones are made on a database that may have changed. On MySQL `Schema.Create` makes its tables in several
steps, and a migration and its record are two, as they are for files marked `NO TRANSACTION`. goose
itself is external: it asks for the sentinel, refuses versions out of order, applies and records.
A pod may die at any step and is started again. A migration whose changes are there already may fail or
not. goose is used without a session lock (`apply.go:181`), so pods run it beside each other.

## 3. What the runs show

Deadlock is checked where the system never stops (`evict`); in the others the requests
come to their end.

| run | shows | instance |
|---|---|---|
| `nar_download` | nobody loses the temp file (`TempFileHeld`), a finished body is whole (`CompleteBody`) and stored (`StoredBeforeEOF`) | two clients, bodies of 0 to 2 blocks, four storage paths, upstream, store and clients fail |
| `nar_download_live` | a completed body ends every stream (`EOFEndsStreams`), the temp file goes (`TempReclaimed`) | one client, bodies of 1 or 2 blocks |
| `coord` | the lock covers the download (`LockCoversDownload`), nothing is downloaded again (`NoRedundantDownload`) | two instances, two or three requests, one part, seven modes: staging with failures, deaths or a slow producer, eager chunking on the simple path with failures and on the pipe path with failures or deaths, narinfos |
| `coord_live` | `EveryRequestEnds`, and the lock and the staging row go (`NothingLeftBehind`), although an instance may die at any step | two instances, two requests |
| `rw_modes` | `WritersExclude`, `WaitsForReaders`, `NoForeignUnlock`, `CallsReturn` | three clients of two processes, one or two attempts, crash, failure or lapse |
| `redis_modes` | `Exclusive`, `RefCounted` | three clients of two processes, threshold 2, three modes |
| `evict` | `LinkedRowKept`, `BytesAccounted`, `EarlyPinsKept`, `ColdestFirst`, `Bounded` | three narinfos on two NARs, five calls, four scenarios |
| `chunk` | a complete row is exactly its NAR (`CompleteMeansWhole`), a stream that ends is whole (`BodyWhole`), chunks in use keep their objects (`Backed`), a stored NAR can be served throughout its migrations (`NeverLost`), a dead attempt is recovered (`Recovered`) | two NARs that share a chunk, three calls, sixteen scenarios, three of them with locks that run out under calls at work, batches of two chunks, a recovery window of one row |
| `narinfo` | a get finds what is there throughout (`PresentServed`), hashes are filled in (`Backfilled`), a narinfo disappears only when it is deleted, purged or evicted (`NeverDropped`), every call returns (`CallsEnd`) | three calls on two instances, two versions, twenty scenarios, with and without failures, cancellations and lapses |
| `upstream` | the refinement (`Promise`), no narinfo loses its row to a collection (`NoDangling`), only what is absent is collected (`CollectsOnlyAbsent`), upstreams come back (`Rejoins`) | two upstreams, two narinfos of one NAR, three attempts per request, at most two failures or changes, eight scenes |
| `fsck` | a run takes nothing away that can be served (`StableKept`), leaves what is right (`Repaired`) and nothing that belongs to nothing (`Clean`), and ends (`RunEnds`) | two NARs that share a chunk, damaged in any two of thirteen ways, lost and rotten chunks, one to four runs, the server beside them |
| `migrate` | version records are kept (`VersionsKept`), success means current (`DoneMeansCurrent`), upgrades are finished (`Upgraded`) | three migrations, one pod with up to three crashes on every kind of database, two pods at once |

Why the bounds are enough: two readers suffice for any race between readers, since a
reader only meets the writer, the chunker and the cleaner, and never looks at another
reader but through the wait group; a body of two blocks has a beginning, a middle and
an end; in `coord` two requests share an instance while a third is elsewhere, which is
every relation two requests can have; the eviction needs a shared NAR, a
NAR of its own and a boundary that one of them crosses; chunking needs an attempt that
dies, one that takes over and somebody who watches, a NAR of two chunks so that one can
be missing, a second NAR that shares one of them, and a recovery window smaller than the
number of rows. A narinfo needs a reader and two writers, or two readers and a writer, of
which two share an instance (and hence its pull) and one does not, and a second version so that
an upload can replace what a migration has read. The race of a fetch needs one upstream that
has the object and one that does not, so that an answer, an absence, an error and the closing of the
channel can come in any order; the collection needs a narinfo that is linked while it asks, and a row that is linked after it was
read without a narinfo.
For fsck two NARs let one repair meet the shared chunk of the other, and since a section
only ever hands garbage to a later one or to the next run, two runs reach the fixed point; four let
a flag age past its window and be acted on. A migration needs a version that is recorded, one that is
pending and, for goose's order, one after it; an adoption has two places to be cut off in that leave
a state of their own (S4, S5), and a third crash hits the recovery itself. The proofs lift the safety results of every module to
every bound.

### Fairness

Weak fairness of the goroutines of a live instance (the Go scheduler runs what can
run). `GiveUp` and the end of the read-write lock's wait (`Look`) have strong
fairness: they are deadlines, which pass although the loop around them is never
continuously at the same point. Expiry of a dead holder's lock, the sweep and the
cron job have weak fairness: they are timers. No fairness is given to clients: a call
need not be made, a holder of the read-write lock need not release it, a reader of a
body need not go away. The liveness properties of Coordination hold where `Calm` does
(no lapse under a live holder, no failing services, no sweep that takes a slow
producer for a dead one; crashes are allowed), and `Bounded` where what exceeds the
maximal size can be reclaimed (`Reclaimable`). In Chunking the calls that were made go
on (each step of a live instance), the recovery is a cron job, and locks nobody
refreshes expire; `Recovered` is stated where services do not fail for ever.

In NarInfo the goroutines run and the lockers grant a lock that is free; no fairness is
given to an eviction, to a caller's going away, or to the failure of a wait. In Upstream
every request ends in an answer or in the timeout of the HTTP client, and the ticker goes on,
hence weak fairness of each of their steps; `Trigger` has strong fairness, since the checker's
`select` chooses at random between the ticker and the trigger channel and so takes the latter
in the end although a tick can always come first. Upstreams, callers and sweeps owe nothing:
`Rejoins` is about an upstream that answers from some moment on. In Fsck only the steps of a run are
fair; the server need not go on, and no run need be started.

In Migrate a run goes on and a run that failed is started again, as an init container is; nothing
is fair about crashes. `Upgraded` is stated where a single pod runs or DDL is transactional, for
installations that are not cut off and adoptions that may be, and unless a crash came between a migration and its
record (`torn`), which is goose's to handle.

### Observations

Disagreements met while modelling; no run expects a violation. The first eight are stated
as properties that do not hold, each with an instance on which TLC shows it: check the named
property instead of those of the cfg, with the named definition of the `MC...` module for the
constant given.

* `FailureEndsStreams` (NarDownload, one client and one block, `Configs <- MCWhole`): the streaming loop does not
  look at `downloadError` before it waits, so the last broadcast of a failed download can be
  missed; client, cleanup goroutine and temp file then stay for ever (`cache.go:1601`).
* `StagedBodyComplete` (Coordination, three instances and two parts, `Modes <- Calmest`,
  `Home <- Spread`): the staging producer is not waited for when `ds.done` frees the lock; a waiter takes the lock
  and resets the row to zero parts, the producer marks it complete, and a reader takes what
  it has for the whole body (`inflight_staging.go:284`).
* `ReadersExcludeWriter` (RWLock, one client on each of two processes, `RWModes <- Quiet`,
  `Home <- Alone`): `RLock` looks for the writer and adds itself in two commands (`rwlocker.go:505`, `538`).
* `CommitsVerified` (Chunking, `Scenarios <- RetryScenarios`): an attempt that the size check refuses
  leaves its links; the next one does not clear them, because `chunking_started_at` is NULL,
  and keeps the stale link at its index (`ON CONFLICT DO NOTHING`). Its own size is right, so it
  is committed.
* `FetchedUpstream` (NarInfo, `Scenarios <- Orphan`): a legacy narinfo whose NAR is missing is not
  fetched again, since the check before the pull (`cache.go:4588`) counts the legacy object as
  the asset; the get answers 404 although upstream has both (against the comment at
  `cache.go:5029` and the narinfo-purge-serving specification under `openspec/specs`).
* `SizeMatches` (NarInfo, `Scenarios <- OneUpload`): `CheckAndFixNarInfo` "ensures its FileSize matches the actual NAR
  size" (`cache.go:5986`), but its reads and its update are separate transactions. The fix of a narinfo's upload
  finds only the NarSize that stands for the size; the NAR is recorded and its own fix writes the size of the file; the
  first fix then writes the NarSize over it. `Backfilled` is therefore about the hash.
* `ResidueReclaimed` (Fsck, `Scenarios <- DrainedScenarios`): `openspec/specs/fsck/spec.md:289` says that on a
  drained database "the orphaned chunk DB rows and their backing storage files" are reclaimed. Section e
  of the repair deletes the rows and keeps the blobs, which check 1h had not found because the rows were still there
  (`fsck.go:1747`); the next run finds no chunk row, so `detectFsckCDCMode` (`fsck.go:208`) leaves CDC mode off
  and nobody looks at the chunk store again. The test of the scenario (`fsck_test.go:1976`) looks at the rows only.
* `RecordsPreserved` (Migrate, `Rollouts <- Adopting`): two pods adopt a MySQL database together, as
  `charts/ncps/values.yaml:558` has them do. The second sees the first one's half copy (S5) and decides to truncate; the
  first completes the copy, finds parity and drops the backup; whichever order the truncation and the drop come in,
  no table holds the records any more (`adopt.go:241`, `253`; against `openspec/specs/database-migrations/spec.md:62`,
  "Adoption SHALL preserve all historical migration version records").

The others (the states are reachable in the models as they stand, or left out of a property
as said):

Downloads, coordination and locks:

* A client that is cancelled before it reaches `Wait` sleeps until the download
  broadcasts (`cache.go:1601`); `openspec/specs/nar-concurrent-streaming/spec.md:21`
  asks for a bounded time without a broadcast.
* `finalSize == 0` also means "not finished": the clients of an empty body wait for
  ever (`cache.go:1601`). The safety run includes empty bodies, `EOFEndsStreams`
  speaks of the others.
* On the pipe path a CDC goroutine that returns early closes `ds.done` and frees the
  download lock while the body is still read (`cache.go:3343`, `3413`, against the comment at
  `cache.go:577`); the next download then runs beside it, on another instance or on the same one.
  `LockCoversDownload` and `OneJobPerInstance` leave out that body (`Stray`) and say that it
  comes about in no other way.
* `narURL.Compression` is set before the streaming goroutine compares it with the
  temp file's (`cache.go:1461`), so the branch that decompresses on the fly
  (`cache.go:1538`) is dead; with lazy CDC and a preferred upstream URL compressed
  bytes are stored as if they were plain (`cache.go:2205`, against `2195`).
* A staging producer can announce parts that a takeover has deleted, and a takeover
  through `Lock` instead of `TryLock` resets nothing
  (`openspec/specs/inflight-nar-staging/spec.md:69` and `:132`).
* In narinfo mode the lock is released when the caller goes away although the job
  goes on (`cache.go:6837`), so two instances may fetch the same narinfo.
* The readers of one process share one entry in the readers hash: the first `RUnlock`
  removes it for the others (`rwlocker.go:563`), and a purge decided on an old answer
  removes an entry that was renewed since (`rwlocker.go:262`). `WaitsForReaders`
  leaves those readers out.
* In degraded mode `Unlock` chooses Redis or the fallback by the circuit of that
  moment (`locker.go:271`): it can release the key of another client of its process,
  leave a local mutex locked for ever (half-open circuit, `locker.go:266`), or unlock a
  mutex nobody has locked, which is fatal (`local/locker.go:103`). A holder in Redis
  and one of the fallback hold the lock together in one process (`locker.go:158`).
  `Exclusive` is stated for degraded mode off.

Eviction and chunks:

* `parallelDeleteFromStores` deletes under the row's compression: the `.nar.zst` of a
  downloaded none NAR stays (`cache.go:7570`). `BytesAccounted` is stated for NARs
  stored under their row's compression.
* With two candidates of equal size, one of which is enough, both are evicted
  (`cache.go:7432`, against `cache.go:7309`).
* The candidates are cut at twice the cleanup size before pinned ones are passed over
  (`cache.go:7375`): one large cold pin can stop every run.
* A root pinned between the reading of the pins and the transaction is evicted
  (`cache.go:7625`); `EarlyPinsKept` speaks of the pins made before the run.
* Without any narinfo the eviction returns before it looks at NARs without a link
  (`cache.go:7329`).
* An upload or download between the LRU transaction and the deletion of the object
  finds the object, creates the row again with `bytes_stored_at`, and the object then
  goes (`cache.go:7570`, against the comment at `cache.go:1860`).
* A reference of a pinned root is cut at 52 characters (`cache.go:10097`) where a
  narinfo hash has 32 (`pkg/narinfo/hash.go:12`): the closure of a pin is the root
  alone, against `cache.go:9973`.
* With lazy chunking a migration neither relinks the narinfo (`cache.go:2621`) nor
  reconciles the link afterwards. Once `runCDCDeletedCleanup` has deleted the
  compressed file with its row, the chunked row has no narinfo and the next eviction
  removes it as an orphan (`cache.go:7451`), although the narinfo stays; against
  `openspec/specs/cdc-chunking/spec.md:551`. The same follows from a crash between the
  transactions `MarkComplete` and `RelinkAndCleanup`: the re-run finds the NAR chunked
  and only cleans up (`cache.go:9741`).
* The recovery judges a row by what it read at the beginning of its run. After a relink
  that failed and was only logged (`cache.go:2642`), it deletes a row that has become
  complete meanwhile, since no narinfo is linked to it (`cache.go:8189`). `NeverLost`
  is stated without the recovery for that reason.
* The eviction (`cache.go:7519`, `7593`) and `cleanupStaleLockChunks` (`cache.go:2942`,
  `2959`) delete a chunk's row and then its object; a chunker of another NAR that finds
  the object in between links to an object that then goes (against the comment at
  `cache.go:2938`). `Kept` excludes both.
* When the chunker fails, its error and the closed chunk channel are ready together
  (`cache.go:2546`): if the channel is chosen and the size is not known, the truncated
  NAR is marked complete, and a migration then deletes the whole file. `Sound` excludes
  bodies that cannot be read.
* The refresher of a migration lock only logs an extension that failed, and its next try comes after the
  TTL (`lock/refresher.go:46`). A second chunker then takes the lock and clears the links of the first, which marks
  its row complete all the same (`cache.go:2593`); a migration goes on to delete the whole file. Without the
  exception of `lapsed`, TLC finds the incomplete row (`CompleteMeansWhole`) after 13 states and the lost NAR
  (`NeverLost`) after 16, in the scenario of two migrations. The properties leave out the NAR whose own lock
  ran out; what happens to it does not spread to NARs that share its chunks and that nobody works on.
* `PurgeChunkedNar` does not refresh its lock (`cache.go:9432`), so a store may begin
  while it is still deleting.
* A re-run of a migration of a none-form NAR that died before its clean-up never deletes
  the whole file (`cache.go:9750`).
* The comment at `cache.go:2828` speaks of an age gate that is no longer there.

Narinfos:

* A pulled narinfo without a FileHash stays without one when the download of its NAR ends
  before `storeInDatabase`: the fix-up finds no row; and a migration of one does not fix it when its NAR was
  there before. `Backfilled` speaks of uploads of such narinfos (`BareUploads`), where both ends fix.
* A get can answer 404 although the narinfo could be served at every moment, by way of two versions: the
  eviction takes the NAR of the first between two of its lookups, an upload brings the second, the NAR of the
  first comes again and the second is deleted. It takes five calls, more than the run has; the attempt to prove
  `PresentServed` found it, and the property now asks that the NARs stay while the get runs (`steady`).
* A fix writes to the row that is there when it is done: a narinfo that was deleted and uploaded anew meanwhile may
  get the hash of the other version's NAR file. `Backfilled` asks for the right hash unless a removal was asked for.
* `PutNarInfo` over a row whose NAR is missing keeps the old URL.
* On the upload path (`ask`) a get that reads the store after the migration removed the object and
  the database before it wrote the row answers 404 for a narinfo that is there; the
  substituter path looks again. `PresentServed` speaks of the latter.
* A database error in the second look of `handleStorageFetchError` is answered as 404.
* A background migration that has read the object writes the row again after `DeleteNarInfo`
  removed both; `purgeNarInfo` deletes the row a second time, and with it a row that an upload
  has written since.
* `getNarInfoFromUpstream` turns every error into "not found"; an error of `signNarInfo` ends
  the pull without one (`cache.go:4396`), and its waiters answer 404.

Upstreams:

* Between `AddUpstreamCaches` and the end of the first check no upstream is in rotation, and
  every fetch is answered 404.
* `selectUpstream` closes its channel when all goroutines have ended: the closing can be chosen
  before an error that is still pending, which makes an absence of a failure. A HEAD that times
  out or is answered with a 5xx counts as an absence there (`upstream/cache.go:287`).
* An error received before the winner is joined to its success (`cache.go:8446`), so the fetch
  fails although an upstream has the object; `Promise` allows it, since such a fetch is
  disturbed, but the repository's README (line 19) promises fail-over.
* The collection asks the upstreams in rotation only: a narinfo that is at an upstream which is
  down at that time is deleted (against the comment at `cache.go:8325`). `CollectsOnlyAbsent`
  leaves those upstreams out (`shaky`).
* The collection deletes a row it has read without a narinfo (`cache.go:8173`) in a later statement
  (`cache.go:8189`). A narinfo that is stored in between loses its link by the cascade and is left without
  a row, against the comment at `cache.go:8185` (such a row "can never be resolved or served"). `NoDangling` leaves out the narinfos linked in that
  window (`late`) and no others.
* Priorities sort the list but do not bear on the race; they are read and set without
  synchronisation.

fsck:

* Stale chunk links and compression mismatches are not counted as issues: a run that finds
  nothing else returns before it repairs them (`fsck.go:574`), and without CDC mode the latter are
  never looked at (`fsck.go:1726`).
* `--dry-run --repair` lets the janitor write and purge (`fsck.go:568`, against the comment near
  `fsck.go:2740`).
* The documentation calls the command safe on a live cache, but a row that is being pulled or
  chunked has no bytes yet and is deleted with its narinfo. `StableKept` leaves the NARs the
  server works on out (`touched`).
* `isNarFileChunkBroken` looks at the chunks by the id it read, and the deletion goes by hash,
  compression and query: a row that was replaced in between has no chunks under the old id and
  the new one is deleted.
* `verified_at` is set in check 1g, before the content checks 1i and 1j have run; with
  `--verified-since` the next run then skips a row this one stopped before.
* `NormalizeChunkedNarInfoURL` and `PurgeChunkedNar` refuse when CDC is disabled.
* The janitor decides and then purges: a narinfo that arrives in between loses its NAR; the sweep
  of unlinked chunks can delete one that was linked again.
* Checks 1g and 1j need the link to the narinfo: a wrong body whose row is not linked takes two
  runs, which is why `Repaired` speaks of the second. They look at chunked rows only: the bytes of a whole
  file are never compared with its narinfo, so the second part of `Repaired` leaves those out.
* A run can delete the good one of two rows of a NAR: if only the other is linked and has lost its file, check
  1b takes the good one for an orphan before 1c deletes the linked one, and the narinfo goes with it. `Servable` counts a row
  without a link only where it is the only one of its NAR (`Backs`).
* A row with a missing chunk can be deleted although the server has put the chunk again for another
  NAR between the re-verification and the deletion. `StableKept` leaves out NARs that share chunks with those the
  server works on (`Alone`).
* Sections g and j run after section d, and check 1d has not listed the file that lies beside a chunked row: when the row goes
  for its content, the file is left to the next run. `Clean` names it.

Schema migrations:

* `freshInstall` records nothing before the whole schema is there: a run that dies after
  `Schema.Create` leaves tables without `schema_migrations`, which every later run refuses (`ErrCorruptState`,
  `state.go:31`, "should never happen during normal operation"); one that dies among the inserts leaves versions that goose
  then tries to apply to a schema that has them.
* The `ALTER TABLE ... RENAME` of the adoption does not look at the columns: a second pod may rename a table that was
  converted since its probe (`adopt.go:189`). The state S6 that `adopt.go:12` calls impossible comes about between
  the probes of one pod while another renames.
* The comment at `fresh.go:36` says that `goose.Up` is called afterwards; `Up` returns instead (`apply.go:83`).
* On MySQL, and for files marked `NO TRANSACTION`, a crash between a migration and its record leaves a change that the next
  run applies again; statements without `IF NOT EXISTS` then fail every time.

## 4. What is proved

`tlapm` checks the following for every value of the constants, under the named
assumptions of the modules (`ASSUME`), which say no more than that the constants have
their types; TLC evaluates them in every run.

* **NarDownloadProofs.** The invariant `IInv` is `TypeOK` with three parts: `Progress`
  (what a client has sent and snapshotted never passes what is written, and a complete
  snapshot ends at the final size), `HeldInv` (each wait group counts exactly the
  goroutines that are inside, and the cleaner's position follows from the counts) and
  `StoreOrder` (what `stored` and `done` say of the store). `TempFileHeld` alone is not
  inductive: that no reader is left when the file goes rests on the count of `wg` and on
  `closed` being set before the wait. From `IInv` follow `TempFileNeverLost`,
  `BodiesComplete` and `StoredFirst`. `JobGoneBeforeDone` has an invariant of its own, `JobEnd`: each goroutine that
  closes `ds.done` has removed the job in an earlier step, and nobody lists it again, so a request that sees
  the download done starts one of its own instead of joining it.
* **CoordinationProofs.** `TypeInv` adds `ProdProgress` (the producer never passes the
  body). `OneJob` rests on `JobListed`: a download of a live instance is the
  entry of its map until its `ds.done` is closed; what is still read after that is stray. That
  only a chunker on the pipe path whose attempt failed leaves such a body is `HandedOver`. `LockCovers`, `MutualExclusion` and `NothingDownloadedAgain` rest on
  `LockInv`: whoever is between acquiring and releasing has its token in the lock
  service and in its mutex; every running download that is not stray has such a holder; the release comes
  after the job's end; whoever is about to start has seen no asset under the lock. They
  hold for NARs while no lock of a live holder lapses (`Strict`).
* **LockProofs.** Of the exclusive lock: every operation of the breaker keeps the count and the circuit in
  agreement (`CircuitCorrect`); `KeyInv` ties what a client holds to the key and to its
  process's stored mutex (`LockIsExclusive`, `HoldersCanUnlock`, `ReleasesOwn`), with
  degraded mode off and no lapse. `ReferencesCounted` is about every mode: `FallbackInv` has the
  types, `DieTogether` (the clients of a process die with it) and `RefCounted` itself, and every step of the local lock
  adds or removes one waiter, or turns a waiter into the holder; the cardinalities come
  from FiniteSetTheorems, hence the assumption that there are finitely many clients (`ClientsAssumption`).

  Of the read-write lock: a client that writes, or is about to, owns the key while nothing
  lapses (`WritersAreExclusive`); the token of a process is only ever stored by that
  process, hence its compare-and-delete never removes another's key, lapses included
  (`NoForeignUnlocks`). `WaitsForReaders` (`WritersWait`) needs `AheadInv`: the readers that were inside and
  listed when the key was set (`ahead`, a history variable) are inside and listed until they
  leave, so every look a writer takes after its `SetNX` shows them (`LooksShow`), and a look that
  shows nobody leaves none ahead. That the key is set only when no writer is at work comes
  from the exclusion above.
* **EvictionProofs.** Links are kept (`LinksAreKept`), early pins are kept, the coldest
  leave first (from `Stamps`: access times are distinct and at most the clock, and
  `CandidatesCold`: the candidate set is closed towards the colder), and bytes are
  accounted for while nothing fails.
* **ChunkingProofs.** `CompleteMeansWhole` is not inductive: that the count a chunker
  writes into its row agrees with the links depends on nobody having removed links under
  it. `IInv` therefore has `LockInv` (`CoreType`; `Role`: the steps a call of each kind
  comes to; `HoldsLock`: whoever refreshes its migration lock holds it unless a lock on its NAR has run out under
  somebody's work, the theorem `LocksAreHeld`), `Fresh` (a row that is started is not complete) and, while every body
  is whole (`Sound`), `Exact` (every link is one of its NAR), `Recorded` (the links a
  chunker counts are there as long as the row it opened is) and `Complete`. Links go in
  four ways: a new attempt, a de-chunking and the recovery take them away under the lock,
  so no other chunker is at that NAR; a deletion of the row takes them with it, and the
  chunker's id then names no row, so it cannot complete one. `CompleteIsWhole` follows.
  Everything that rests on a lock is said of each NAR by itself, as long as it is not in `lapsed`: a lock that
  runs out under a call spoils what is known of its own NAR, and the argument for the others goes on.
  `CoreType` is the part of `TypeOK` the argument needs.

  Three more invariants are built on `IInv`. `BackInv`, for `ChunksAreBacked` (`Backed`): where
  nothing is evicted or purged, a clean-up runs under the lock of a NAR that is not
  complete, on chunks of that NAR, before its chunker has put anything (`Tidying`); so what a chunker has put stays
  (`Present`), and the chunks of a complete NAR are there (`Stored`). Objects that another NAR shares
  are safe because the row of a chunk goes only when no link is left, and a NAR nobody works on gets
  no new links. `HeldInv`, for `NarsAreNeverLost` (`NeverLost`): whoever is about to remove the whole file sees a complete row,
  whoever is about to remove the chunks has written the file, and the delayed clean-up, which
  takes no lock, has one or the other (`Covered`). `ReadInv`, for `BodiesAreWhole`
  (`BodyWhole`): the links of a NAR have no gap (`Gapless`), hence what a reader lists from an index on
  is the next stretch of the NAR (`ListingIsNext`, from the cardinality of a span of links), what it has got is a
  prefix and what it wants comes next (`Streamed`). A reader holds no lock: links may go and come
  again under it, but at an index there is only ever the same chunk (`Exact`).

* **UpstreamProofs.** `NeverDangling` rests on `RowsInv` (both ends of a link are there, and while a row that was
  read without a narinfo is about to go, only `late` ones link to it). `CollectsAbsent` is an
  action property, from `GcInv`: the upstreams that are not `shaky` are in rotation all the while, and each
  has denied every narinfo the collection is done with (`Denied`). `ImplementsSubstitution` is the
  refinement without its fairness: every behaviour of Upstream satisfies `Sub!Safety`, step by step. `FetchInv` says what holds of a fetch
  however it is disturbed, `FineInv` what holds of one that nothing disturbs: it considers every
  upstream that could offer the object, none that was asked and has it is missing from the
  channel, and the chosen one offers it or was the only one. `UpstreamAssumption` types the scenes
  (`Scene`) and makes the set of upstreams finite.
* **NarInfoProofs.** `Kept` is `TypeOK` with `Paths`: the narinfo a migration carries is the legacy one, that
  of a pull is upstream's, and whoever is about to remove the legacy object has its row in the database
  or was asked to. Every step is shown to have an `Effect`: it changes its own goroutine, keeps to its path, and
  never empties a row that has a URL unless somebody asked (`Frame`). `NarInfoNeverDropped` follows.
  `PresentServed` needs `Sighted`: while a steady get runs nobody pulls (`Nowhere`), as a pull starts only where nothing can be served;
  so a get that has read an object has its NAR, one that has found no row has the object before it, and one
  that has found the object gone (`Behind`) comes to a row. `Backfilled` needs `Hashing`: as long as a narinfo lacks its hash
  and its NAR is stored and recorded (`Watched`), whoever completed the two is about to look, or has looked and is about
  to write the hash, be it the upload of the narinfo, that of the NAR, or a download; since the fix is in steps, each of
  its points says what it has seen. `Bare` and `Own` say which rows lack a hash and that a hash is that of the row unless a removal
  was asked for.
* **CommandProofs, Fsck.** `FsckSafe` is the invariant behind `FsckStableKept`. `Tables` has the foreign keys; a step of a
  run only makes the tables smaller and leaves the rest as it is (`Shrinks`), a call of the server changes what
  belongs to its own NAR (`Elsewhere`). What the run has read of a row that the server leaves alone is still so (`Read`);
  the only row of a NAR is linked before rows without a link are deleted (`Relinks`); and what the run is
  about to delete is bad, or belongs to nothing (`Aims`, `Sweeps`).

  `FsckRepaired` and `FsckClean` are about runs that nothing disturbs (`Undisturbed`), from any state that disturbed ones
  have left. `Due(i)` is what the i-th section has still to handle. `Listed` says that whatever a section deletes is
  either not scanned yet or due: it is found by its check, survives every re-verification as long as it is faulty, is
  deleted in its turn, and no other step makes a row faulty. A run that ends well has nothing due (`Ends`), hence all rows are `Sound`. The second run begins with sound rows,
  finds none to delete in four of its sections, and so lists every wrong body (`Again`). For `Clean` the garbage itself has to be followed: the janitor visits
  every chunked row as it was read, so the first run leaves none the second would purge (`Visits`); chunks that lose their last
  link are swept by the section that follows (`Swept`); so the second run begins without such chunks and makes none before its later sections
  (`Calmer`), and every blob, narinfo and file without a row is due or about to go (`BlobsListed`, `InfosListed`,
  `FilesListed`). None of these is inductive without the others: that a blob stays listed depends on no chunk row going unswept, and that on no row
  being purged.
* **CommandProofs, Migrate.** `VersionsKept` is not inductive: a backup may only be dropped because of what the
  rows that were counted say of the copy. `IInv` has `CoreType`, `Standard` for SQLite and PostgreSQL (the
  tracking table is `NotAdopting`, and no pod is ever at a statement of MySQL's adoption), and for one pod on
  MySQL that the tables are `NotAdopting` or `Converting` (the backup has dbmate's unique records, and the new table
  holds nothing, the sentinel, or the whole copy), with `At`, what each point of the program says of
  them. `Parity` is the key lemma: of these three contents only the whole copy has one row more than the backup.
  `RecordsKept` follows. `SuccessIsCurrent` adds `Applied` (what is recorded is in the schema) and `Work` (what is not
  recorded is what the run has still to insert), and for pods beside each other `Grows`: schema and records only grow.

`OneJob`, `JobGoneBeforeDone`, `CircuitCorrect`, `HoldersCanUnlock` and `ReleasesOwn` are stated of properties
no run lists: the theorems cover every instance.

Every safety property that a run checks is thus proved. Only model-checked are the liveness properties (`EOFEndsStreams`, `TempReclaimed`,
`EveryRequestEnds`, `NothingLeftBehind`, `CallsReturn`, `Bounded`,
`Recovered`, `CallsEnd`, `Rejoins`, `RunEnds`, `Upgraded`), which need fairness and `ENABLED`, with the fairness of
`Promise`. Two more things are out of
the prover's reach and are not needed so far: induction over data, and recursive operators.

## 5. What is not modelled

Contents of NARs, signatures, compression, HTTP; back-off delays and other durations
(a timer fires at any moment); metrics, logging and tracing; the isolation levels of
PostgreSQL and MySQL (a transaction is one step); partial failures inside one store
operation; the quorum of several Redis nodes.

Components without a module: the stores (a put or deletion of an object is one step of the
models that use them), the local read-write lock (a reference-counted `sync.RWMutex`), build traces (single-row reads and
inserts), NAR URLs and hashes (string formats), the HTTP handlers, commands and configuration,
the database connection, the SQL of the migrations, and the migration commands other than
`migrate-narinfo` (worker pools over operations that are modelled). Their reasons are in `PROJECT.json`.

More than half of the repository's Go code (about 46,700 of 78,300 lines) is generated by ent from
the schema: builders and accessors without decisions of their own, whose queries appear in the
models where the cache makes them. Much of the rest is flags, telemetry, test support and
string handling. The models therefore stand for about 15% of all lines, and for most of those in
`pkg/cache`, `pkg/lock` and fsck that change shared state.

## 6. Plan

1. `RunEnds`: the variant behind it (what a run has left of its lists, and the chunk rows that are left to page
   through) as an action property, which can be proved although the liveness cannot.
2. `ResidueReclaimed` and the other observations, as the code changes: each names the property to
   check again.
3. An abstract lock that RedisLock (degraded mode off) and the local lock implement, and that
   Coordination uses; the degraded routing of the read-write lock.
4. Chunking: the drain mode, and the composition with Coordination through the readiness
   of a NAR that is being chunked.
