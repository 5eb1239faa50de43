# A formal model of kube-crisp

kube-crisp serves rows of SQL tables as Kubernetes objects.  A
`CustomResourceProjection` names a data source, the statements for each verb
and the mapping of columns to fields; the server turns that into an API with
get, list, create, update, delete and watch.  There is no etcd behind it, so
everything a client of Kubernetes takes for granted (reads that follow its
writes, list versions one can watch from, watches that lose nothing) is
re-created above a database that only answers queries.  This directory models
the parts that re-create it, checks them with TLC and proves their safety
properties with TLAPS.

Source paths below are relative to `src/pkg/`, and `RP` stands for
`registry/projection`.

## The system

| Component | State | Operations | Works with |
|---|---|---|---|
| Read cache (`RP/cache.go`) | entries by key, a generation, the generation each namespace was last invalidated at | lookup, epoch, store, evict, invalidate | reads fill it; writes and the watch poll drop from it |
| Flight group (`RP/flight.go`) | the query in flight for each key | Do, wait, finish, detach | reads join it; writes detach from it |
| Requests (`RP/rest.go`, `verbs.go`, `status.go`, `scale.go`) | per request; when the replica may be tried again | get, list, create, update, status, scale, delete, delete collection | both of the above, the pools, the limiter, the watch cache's version |
| Watch cache (`RP/watch.go`) | the rows last read, the highest version (the mark), a counter, the history ring | poll, apply, Watch, resume, list stamps | reads the table; feeds streams; drops cached reads |
| Watch streams (`RP/watch.go`, `cacheWatcher`) | a backlog, a channel and a goroutine per watcher; one backlog counter per cache | register, prepend, enqueue, broadcast, bookmark, terminate | the poll produces, clients consume |
| Poll group (`RP/pollgroup.go`, `leader.go`) | members, one timer | add, remove, retime, poll the due ones | caches join with their first watcher; elections change intervals |
| Projection controller (`controller/projection/controller.go`) | informers, a queue of one, compiled storages, remembered statuses | sync, resolve claims, retire, write statuses, recheck registrations | builds and replaces all of the above |
| APIService reconciliation (`controller/projection/apiservice.go`) | the APIServices of the cluster | ensure, adopt, prune, judge availability | follows the controller's claims |
| Router (`apiserver/dynamic/router.go`, `compile.go`, `projection/store.go`) | a snapshot of routes | prepare, compile, check, rebuild, serve | requests run while it changes |
| Pools (`sql/datasource.go`, `session.go`) | pools by key; connections, prepared statements and session variables in each; slots per projection | get, borrow, evict, retain; query, execute, transact, close | every query |
| Notifications (`sql/listen.go`) | a connection, a subscription | connect, subscribe, retry | wakes the poll group |
| Credentials (`credentials/*`, `sql/authconnector.go`) | a token command in flight | mint, join, fail | opening connections |
| Leader election (`apiserver/leaderelection.go`, `RP/leader.go`) | whether this replica leads | win, lose | the poll group's interval |
| Admission webhook (`webhook/projection.go`) | none | review, which checks against the database | borrows pools from the cache |
| Mapper, binding, plugin, server assembly, metrics, API types | none, or constant after start | conversions and checks | |

### What is hard here, and what has to hold

* **Reads against writes.**  A query that began before a write may end after
  it: its rows must not be cached, and no read that arrives after the write may
  be given them.  Detaching flights and invalidating entries happen in two
  steps, so the order matters.
* **Versions.**  The version a client holds is a claim about what it has seen.
  It comes from a column when there is one and from a counter when there is
  not; it is handed out by lists, bookmarks and events, each taken at another
  moment than the rows it describes; and a client may be cut off after any one
  event.
* **Deletions.**  A deleted row is only missing.  Full polls notice by
  comparing, incremental ones by a second query over tombstones, which runs
  after the first and may see a later state.
* **Restarts.**  The cache, the ring and the counter are lost; the clients'
  versions are not.
* **Slow clients.**  A broadcast must neither wait for a watcher nor skip an
  event for it.  Backlogs are limited per watcher and for all of them.
* **Who polls.**  The timer exists only while someone watches, is shared by the
  versions of a projection and is replaced while it may be polling; caches join
  outside the lock under which they leave.
* **Writes of one object.**  Read, modify, write without locks; finalizers and
  deletion in several statements; a crash in between.
* **Replacement.**  Projections are replaced and removed while requests, watches
  and admission checks run on the old storage and its pools.
* **Several replicas.**  Each reads the projections and APIServices through
  informers that lag, writes the same statuses, decides contested resources from
  them, and skips a write it believes made.
* **Shared connections.**  What one request leaves on a connection (a session
  variable, a transaction, a prepared plan) the next request finds, and it may
  belong to another projection.

`PROJECT.json` lists each hazard at its line, with the properties that cover it.

## Modules

### `ReadPath` (with `MCReadPath`, `ReadPathProofs`)

One projection on one server.  The rows of a namespace are abstracted to the
number of writes that have reached them, so the result of a query, a *view*, is
one number per namespace, and "older" is a comparison.

| Model | Code |
|---|---|
| `entries`, `generation`, `invalidatedAt`, `allInvalidatedAt` | `readCache`; a missing key of the map is 0 |
| `inflight`, `flight` | `flightGroup.inflight`, and every flight including detached ones |
| `BeginRead` ... `Reply` | `getObject` and `List`: lookup, `epoch()`, `versionFor`, `queryAll`, put |
| `FlightReads`, `FlightFallsBack`, `FlightFails`, `FlightFinishes` | `queryAll`'s `run` and `Do`: the pool answers; the replica is unreachable and the primary answers; shed or refused; `finish` and `close(done)` |
| `BeginWrite`, `Commit`/`WriteFails`, `Detach`, `Invalidate`, `ReadBack` | `write`: run, then `finish()` (detach before invalidate), then the fresh read; `deleteOnce` and `deleteInBulk` have the same order without the read back |
| `PollReads`, `PollApplies` | the watch poll as a shared read, and its `invalidateNamespaces(changedNamespaces(...))` |

Expiry is a miss that may happen at any time.  `settled` is a history variable:
what the writes that are finished promise.

### `WatchCache` (with `MCWatchCache`, `WatchCacheProofs`)

The table, the poll in its three steps (begin, read rows, read deletions), the
cache and a client with its own store.  A row is the stamp of its last write,
which is its resourceVersion when the projection maps one.  Stamps are assigned
in commit order: `docs/reference.md` asks for that, and recommends resyncs where
it does not hold.  A projection's configuration is a record, chosen in the
initial state from the constant `Configs` and never changed: whether it maps a
version, polls incrementally, resyncs and has a deletion query, and what a
tombstone says: only which row (`"identity"`), the row with its last version
(`"last"`) or with a version of the deletion's own (`"own"`).  Clients may have a
selector, on labels or on fields; it picks the rows of every second write, so
that a row goes in and out of it.  `MCWatchCache` holds the configurations:

| Configuration | Projection | Faults |
|---|---|---|
| `FullPolls` | a version, full polls | two cuts |
| `Counted` | no version: the cache counts | a cut, a restart |
| `Resynced` | incremental polls, resyncs, no deletion query | two cuts |
| `Named` | incremental, tombstones that only name the row | none |
| `Dated` | incremental, tombstones with the row's last version | one cut |
| `Stamped` | incremental, tombstones with a version of their own | none |
| `Listing` | as `FullPolls`, clients list and then watch | one cut |
| `Labelled` | as `FullPolls`, clients select by label | one cut |
| `LabelledNamed` | as `Named`, clients select by label | none |
| `FieldedDated` | as `Dated`, clients select on a field the lightweight cache does not keep | one cut |
| `LabelledDated` | as `Dated`, clients select by label (only in `WatchCacheDeparture`) | one cut |

| Model | Code |
|---|---|
| `PollBegins` ... `PollApplies` | `poll`, with `applyLocked` as `markReached`, `fullDiff`/`forwardDiff`, `recordedSteps` and `record` |
| `cache.history`, `cache.forgotStalled` | the ring, and the newest dropped deletion that did not move the version |
| `Resume`, `Expire`, `replayable`, `missedSince` | `Watch` with a version, up to the registration of the watcher |
| `ResumeFromDatabase`, `ResumeFromRows`, `ResumeFromTombstones` | the same when only the database can answer: registration, then `replayFromDatabase`, its two queries being two steps |
| `WatchInitial`, `WatchSnapshot`, `SnapshotRead` | `Watch` with initial events: registration, with the rows of the cache or, when that is lightweight, with rows read from the table afterwards |
| `Prepend`, `WatchRefused` | the end of `Watch`: `prepend`, or the watcher taken out again |
| `ListStamps`, `ListReads` | a list followed by a watch from its version |
| `transition`, `matchedBefore`, `mayHaveHeld`, `matches` | what a client with a selector is sent of an event: a row that arrives is an addition, one that leaves a deletion |
| `Cut`, `Restart` | a stream that ends anywhere; a new process |

`Watch` registers its watcher under the cache's lock and prepends the initial
events after it has released it; polls deliver to the watcher in between, and its
goroutine drains what they deliver.  So a client has a `queue`, to which polls
append from registration on, and `initial`, what `Watch` is about to prepend.
`Prepend` inserts the one into the other behind any number of events of the queue,
the ones the goroutine has taken by then.  (The code limits that number to what the
channel and the goroutine hold, 17 events; the model does not.)  If there are any
and there is something to prepend, the client is `overtaken`.  It reads its channel
only when `Watch` has returned, so nothing is delivered earlier.

A watch on a cache nobody else watches polls before it registers.  The model
does not insist on that poll: another watcher may be what keeps the cache
polled, and then there is none.  `firstStamp` is 1 in the configurations with a
version, so that the first row's version is above the counter's first value.

### `WatchStream` (with `MCWatchStream`, `WatchStreamProofs`)

Delivery.  The n-th event that polls produced is the change n.  What the code
does under `c.mu` is one step, except where it takes a watcher's lock while it
holds that one: then `mu` says who has it (a poll handing out bookmarks, or
`Close`), and everyone who needs it waits.  A watcher's own lock is `lock`,
because the check of the shared limit and the addition to it are two steps that
another watcher can come between.

| Model | Code |
|---|---|
| `Register`, `PrependChecks`, `PrependAdds`, `PrependNothing`, `Refuse` | `Watch`: registration under `c.mu`, and `prepend` after it |
| `Stop`, `StopTerminates`; `CloseBegins`, `CloseTerminates`, `CloseEnds` | `stop`, and `Close`, which terminates watcher after watcher under `c.mu` |
| `PollApplies`, `EnqueueChecks`, `EnqueueAdds`, `FallsBehind`, `Unregister` | `applyLocked`, `broadcast` with `enqueue`, and the removal of those that fell behind |
| `EmitBookmarks`, `PollEnds` | the bookmark that follows a poll, for any set of the registered watchers (those that asked) |
| `RunTakes`, `RunSends`, `RunExits`, `Receive` | the watcher's goroutine, and the client, which reads, if it reads, when `Watch` has returned its channel |

`initial` is the number of initial events a watcher has been promised, and
`overtaken` says that `PrependAdds` found events in the channel or with the
goroutine, which now come before them.

`casting` is the broadcast in progress: the events still to be handed out, the
watchers they are for, and those that have not been handed the first of them
(`round`).  The code goes through the watchers in the order of a map; the model
allows any order at every event.

### `PollGroup` (with `MCPollGroup`, `PollGroupProofs`)

Membership and the timer.  A cache is its number of watchers; `Register` and
`Join` are the two halves of a first `Watch` (under the cache's lock, and after
it), `Leave`, `Drop`, `Close` and `RefreshLeaves` the ways out.  A `run`
goroutine is a record with its own interval; the one that `cancel` names is the
group's, the others have been cancelled and may still be polling.  `Election` is
the lease won or lost (`apiserver/leaderelection.go`), which reaches the caches
as `SetLeadership`; the timer learns of it at its next tick.

### `ObjectWrites` and `Objects` (with `MCObjectWrites`, `ObjectWritesProofs`)

`ObjectWrites` has the writing verbs on the rows of a table.  Each is a read, a
decision and one or more statements, without a lock in between; a request may be
cut off between any two of them (a crash, a cancelled context).  A row has a uid,
a version, finalizers, a deletion mark, and two parts, each the set of edits it
reflects, so that a lost edit is a missing member.  The configurations are the
ways a projection can be written: `Held` (finalizers in a column, every statement
binds the version), `HeldAsDocumented` (as in the documentation's example, whose
marking statement does not), `Plain` (no finalizers) and `Bulk` (no finalizers, a
statement for collections).

| Model | Code |
|---|---|
| `BeginCreate`, `InsertCommits`, `InsertCollides` | `Create`, with the retries of a generated name |
| `BeginUpdate`, `ReadRow`, `DecideUpdate`, `StatementCommits`, `StatementMisses`, `Written` | `applyUpdate` for the object, its status and its scale; the client asserts the current version, an earlier one or none |
| `notFound` | `Update` after "not found", from the read, the statement or the read back: an apply goes on with `createOnUpdate` |
| `releasedByUpdate`, `finishDeletion`, `markTerminating` | the removal that follows the last finalizer, and the mark of a delete that must wait |
| `BeginDelete`, `DecideDelete`, `DeleteCommits`, `DeleteMisses` | `Delete` and its `deleteAttempts` decisions |
| `BeginDeleteCollection`, `ListRows`, `DeleteInBulk`, `DeleteEach` | `DeleteCollection` |
| `Abandoned` | a request cut off anywhere |

`Objects` is the abstract specification: objects that are edited, held, marked
and removed in single whole steps.  `ObjectWrites` instantiates it as `Stored`,
with the refinement mapping that takes each row to its object and drops the
version, and the run checks `Stored!Spec` as the property `ImplementsObjects`.

### `Projections` (with `MCProjections`, `ProjectionsProofs`)

The controller on every replica of the server.  The cluster stores projections
(with uid, generation and status) and APIServices; a replica is a record of its
informers' caches, its queue, what it has compiled, the statuses it remembers
writing, and where its sync stands.  `Deliver`, `DeliverAPIService` and
`DeliverSecret` are the informers catching up; `wakes` is the event handlers'
filter.  A sync is `SyncInstalls` (candidates from files and objects, fallback to
what was served before, `winners` in the order `below` of standing, age and name:
the code walks the claimants in that order, and `winners` is the one set that
contains a claimant exactly when no better member of it claims the same),
`SyncRegisters`
(ensure and prune, from the lagging cache), and one `SyncReports` or
`SyncReportFails` per status.  `Dial`, `Meddle` and `Collect` are the aggregator,
somebody who edits APIServices by hand, and the garbage collector: they are
external.  `Contended` has two replicas settle a claim, `Registered` has two
replicas register one group, `Filed` has one replica with files, restricted group
suffixes, rotated credentials, failures and APIServices made by others.

### `Surface` (with `MCSurface`, `SurfaceProofs`)

What one server has installed, from pool to route.  A pool is a key and the
number of times that key was opened, so that a pool closed and opened again is
another pool.  `SyncCompiles`, `SyncRefuses`, `SyncFailsToPrepare` and
`SyncFailsToCompile` build the candidates, `SyncRebuilds` or `SyncFailsToRebuild`
swap the router's snapshot, `SyncDestroys` and `SyncRetains` retire what it no
longer routes and the pools nothing uses.  Requests (`Arrive`, `Watch`, `Leave`)
keep the storage of the snapshot they arrived on.  `CheckBegins` ... `CheckRetries`
are the admission webhook's check, which borrows pools.

### `Pool` (with `MCPool`, `PoolProofs`)

One pool and what runs on it: jobs with one or several statements, prepared or
not, with or without session variables, probes, the limiter, a token command
that several connections share and a notification listener.  `database/sql` and
the database are external and modelled from how the code uses them: a cancelled
context rolls a transaction back by itself, a handle is closed when no call uses
it, a plan goes stale when the table is migrated.  The configurations are a MySQL
pool of one connection that tenants share (`Tenants`), a PostgreSQL one that is
closed under its jobs (`Local`), prepared statements through migrations with a
limit (`Cached`), passwords from a command with a listener and a probe
(`Minted`), and a pool of one with a listener (`Single`).

### How they fit together

`ReadPath` treats the poll as a reader that invalidates, `WatchCache` treats
delivery as a queue and polls as happening at any time, `WatchStream` treats
events as numbers, and `PollGroup` treats a poll as a step.  `ObjectWrites` reads
the table directly: what its reads may be given is `ReadPath`'s subject, and what
becomes of one statement on a connection is `Pool`'s.  `Projections` decides
which projection is served and leaves out how it is replaced; `Surface` has the
replacement and lets any projection win, and each of its pools is a `Pool`.  What
one of them leaves open another one restricts, so a property of each holds for
the whole, except where two shared reads meet (see Limits).  `WatchCache` and
`WatchStream` meet at `prepend`: the positions at which the one inserts initial
events include all those that the steps of the other lead to, and `overtaken`
means the same in both.

## Runs

| Run | Checks | Instance |
|---|---|---|
| `ReadPathWrites` | `TypeOK`, `FreshnessInv`, `CacheReflectsWrites`, `ReadYourWrites`, `OwnStampNotAhead`, `Coalesced` | a read of a namespace and one of all, the poll, a writer, one place in the cache |
| `ReadPathReplica` | `WriteSeesItself`, `WaitersReleased` | a replica that lags and fails; fairness |
| `WatchCacheEvents` | `TypeOK`, `Converged`, `RowsArrive`, `CacheTracks`, `NothingBelowMark`, `VersionMonotonic` | two rows, one client, all configurations but `LabelledDated`; 4.4 million states |
| `WatchStreamDelivery` | `TypeOK`, `NothingDropped`, `NoGapReceived`, `PendingAccounted`, `BookmarkHonest` | two watchers, each with or without initial events, all limits reachable; 2.5 million states |
| `WatchStreamFlow` | `BroadcastEnds`, `ClosedIsHeard` | one client that need not read; fairness |
| `PollGroupPolling` | `TypeOK`, `WatchedIsMember`, `OneTimer`, `KeepsPolling`, `IdleLeaves` | two versions with different intervals, overlapping goroutines, an election; fairness |
| `ObjectWritesVerbs` | `TypeOK`, `LeftoverPursued`, `ImplementsObjects` | two requests with any verb on one name, asserting any version so far or none; four configurations, 590 thousand states |
| `ProjectionsSettle` | `TypeOK`, `SurfaceSettled`, `StatusTells`, `RegistrationsSettled` | two projections of one resource, one or two replicas |
| `SurfaceLifetimes` | `SurfaceUsable`, `PoolsAccounted`, `RetiredDisconnected` | two projections, two data sources, a request and a check without a read replica |
| `PoolConnections` | `OwnSession`, `AtomicOnce`, `Accounted`, `NothingHangs` | two or three jobs on each of five pools; fairness |

What they show, in a sentence each, is in `PROJECT.json`; every property is
stated above its definition with the code it is about.  Deadlock is not checked
where everything really may stop: streams end and changes are limited
(`WatchStream`), a cluster in which nothing changes any more is at rest
(`Projections`, `Surface`), and every job runs once (`Pool`).

`SurfaceSettled`, `StatusTells` and `RegistrationsSettled` are about states in
which nothing is under way and nothing is left to be heard of.  They say that
whatever order things were heard in leads to the same end, without assuming that
the end is reached.

### Where the code does not do what it says

Two runs end in a counterexample to a sentence in a comment or the
documentation; `PROJECT.json` quotes each.

* `WatchCacheDeparture` (`NoRowKept`): on a lightweight cache, a row that leaves
  a client's label selector and is deleted before the next poll is filtered out
  by what its tombstone says, and the client keeps it for ever.
* `SurfaceEviction` (`SurfaceUsable`): an admission check that finds its own pool
  closed also evicts the read pool it borrowed, which may be one that a projection
  is being served through.  `SurfaceLifetimes` has the same model with checks of
  projections without a read replica.

The following were met while modelling and have no run of their own.  They are
why some properties except a case and some configurations have fewer faults than
others.

Reads and watches:

* A list that joins a query older than the version it was stamped with is stamped
  ahead of its rows (`RP/rest.go:1140` says it is not).  `OwnStampNotAhead` shows
  that lists which ran their own query are fine.
* A poll invalidates without detaching, so a read may join a query older than the
  poll and cache its rows for the full TTL (`docs/limitations.md:62`).
* With tombstones that carry versions of their own, a tombstone raises the mark
  past a row written between the two queries of a poll, and that row is skipped
  (`docs/reference.md:1694`); and an incremental poll sends deletions after rows
  with higher versions, so that a client cut in between misses them.  `Stamped`
  has no cuts, and `NothingBelowMark` leaves it out.
* After a restart a client at the current version is not told of deletions at that
  version (`docs/limitations.md:42`); a row that only a list saw, or that a replay
  from the database delivered ahead of the cache, is never reported deleted
  (`RP/rest.go:1130`).  `Named` has no cuts, and `Listing` is excepted from
  `Converged`.  The proofs ask for no restart on a mapped version.
* With `historySize` 0 (`apis/crisp/v1alpha1/types.go:98`) nothing is recorded
  (`RP/watch.go:1629`), deletions that do not move a mapped version included, so a
  client at the current version resumes without hearing of them.  The runs have a
  ring, and the proofs ask for one on a mapped version; a counter moves with every
  change and needs none.
* A version column that starts at 1 meets the counter's 1, which an empty table
  answers with (`firstStamp` 0 in `FullPolls` violates `Converged`).
* An event that a poll queues between the registration of a watcher
  (`RP/watch.go:539`) and `prepend` (`RP/watch.go:640`) can be with the goroutine, or
  in the channel, by the time of the latter, and the initial events then follow it.
  The comments on both say that they come first (`RP/watch.go:536`:
  "prepend puts the snapshot in front of them"; `RP/watch.go:1990`: "the snapshot
  belongs in front of them").  A client that receives `DELETED k` and then the
  snapshot's `ADDED k` keeps a row that is gone; one that receives a change of `k`
  and then a replayed, earlier one holds the earlier row; and one that is cut off
  after the event, or after a bookmark, that overtook a replay resumes past what
  it was to be replayed.  `Converged`, `RowsArrive`, `NoGapReceived` and
  `BookmarkHonest` are about the clients to which this has not happened since they
  last started over, and each of them fails without that exception; `NoRowKept`
  excepts them as well, so that `WatchCacheDeparture` is about something else.
* The limit that watchers share is checked and added to in two steps, so watchers
  that check at the same time pass it.
* `Watch` on a closed cache registers (`RP/watch.go:437`): `RetiredDisconnected`
  excepts those.
* Rows that share the value of `keysetColumn`, as in the example at
  `docs/reference.md:1541`, can be skipped at the end of a page.

Writes:

* The removal after the last finalizer is another statement: a request cut off
  before it, or one that loses `deleteAttempts` races, leaves a terminating object
  that nothing takes up again (`RP/rest.go:2167`).  `LeftoverPursued` excepts it.
* A marking statement without the version, as in `docs/reference.md:428`, can mark
  an object after its last finalizer has gone; `LeftoverPursued` asks for the guard.
* A foreground delete whose update statement returns no row marks what it reads
  back, and the collector's finalizer may be gone from that already: the object is
  terminating, held by nobody, and pursued by no request (`RP/rest.go:2498`).
  `LeftoverPursued` asks for statements that return their rows as well.
* A guarded marking statement that misses answers "not found", and a foreground
  delete of a terminating object adds the collector's finalizer to it
  (`RP/rest.go:2494`).
* A single statement without session variables that `verify` refuses has already
  taken effect (`RP/rest.go:3206`); `AtomicOnce` asks this of transactions only.

Control:

* Without a watch on Secrets nothing notices a rotation (`docs/reference.md:1085`
  counts on the resync); a failure to compile or to write a status is not tried
  again until something queues a sync; a change of an APIService's owners wakes
  none.  `Quiet` and `Faultless` say so.
* A projection that moved to another group and fails to compile goes on being
  served, and registered, in the old one, which no live projection declares; the
  second half of `RegistrationsSettled` is for syncs in which nothing failed.
* A remembered status is not tied to an object, so one deleted and created again
  under its name may be left without a status; `StatusTells` excepts it.
* A replica whose informer lags may prune an APIService that another one has just
  made; it is made again once that is heard of.
* A rebuild that fails leaves freshly compiled storages undestroyed: the next sync
  compiles them again.  Two OpenAPI publications may end in the older one
  (`apiserver/dynamic/router.go:242`).

Pools:

* Two calls that prepare one text at the same time leak one handle until the pool
  closes (`sql/datasource.go:565`), and closing an evicted handle waits for its
  users under the cache's lock.
* Connections that share a token command also share the cancellation of the one
  that started it.

### Bounds

Every bound is a named constant, or a named field of a configuration.
`ReadPath`: `MaxCommits` and `MaxGeneration` limit writes and invalidations; one
write against a reader and the poll suffices for a query to start before it, be
joined after it and be stored after it, and the proofs cover the rest.
`WatchCache`: two rows and up to five stamps allow delete-and-recreate on one
row while the other moves; a ring of two steps is overrun; `maxClock`, `maxCuts`
and `maxRestarts` limit writes and faults, and `MaxQueue` only keeps bookmarks
from piling up in a queue nobody drains.  `WatchStream`: limits of one to three
events make every limit bind.  `PollGroup`: `MaxRuns` counts goroutines alive at
once, so that a cancelled timer may overlap its successor.  `ObjectWrites`: three
versions and two uids let a name be created, edited by both requests, removed and
created again.  `Projections`: `turns` limits changes, rotations, failures and
restarts; one of them, heard of late by either replica, already puts every order
of two syncs between the informers, and one replica is given three.  `Surface`:
`MaxEdits` and `MaxFailures`; three edits move a projection to another data source
and back while one check runs.  `Pool`: each configuration names its faults,
migrations and cancellations; one of each at any moment is what a request meets,
and two migrations make a plan stale again after the retry.  Symmetry is used for
readers and flights, watchers, requests and replicas, which the modules never
order or choose among; never in a run with a liveness property (`ImplementsObjects`
has no fairness and is checked step by step), and not in `WatchCache`.

### Fairness

* `ReadPath`: weak fairness of each flight's steps only.  Queries run under a
  deadline in a goroutine of their own.
* `WatchStream`: weak fairness of the poll in progress, of an addition that holds
  a lock and of the end of a Close, strong fairness of the goroutine and of the
  terminations of a Stop or a Close in progress, which wait for a mutex that Go
  hands over in bounded time.  The client is not
  assumed to read.
* `PollGroup`: weak fairness of each goroutine and of a join in progress, strong
  fairness of noticing a cancelled context, which `select` chooses with positive
  probability whenever the timer is ready as well.
* `Pool`: weak fairness of each job, of the token command and of the listener.
  Every wait in a job is under a deadline or behind someone who is; nothing is
  assumed of cancellations, faults or evictions.
* `ObjectWrites`, `Projections` and `Surface` have safety properties only and
  assume none.

## Proofs

Each `...Proofs` module extends the module it is about and proves its theorems for
every value of the constants: any number of requests, watchers, connections or
projections, and any budget of faults.  They rest on the named assumptions of the
modules: the constants have their types, null values are not members of the sets
they stand beside, the sets whose members are counted are finite.  TLC evaluates
them in every run, and checked each inductive invariant on the instances of the
runs before it was proved.

| Theorem | States | For |
|---|---|---|
| `ReadPathProofs!TypeCorrect` | `TypeOK` | |
| `ReadPathProofs!Freshness` | `FreshnessInv`, the inductive invariant | no read replica |
| `ReadPathProofs!ReadsFollowWrites` | `ReadYourWrites` | no read replica |
| `ReadPathProofs!CacheFollowsWrites` | `CacheReflectsWrites` | no read replica |
| `ReadPathProofs!ReadsCoalesce` | `Coalesced` | |
| `ReadPathProofs!WritesSeeThemselves` | `WriteSeesItself` | |
| `ReadPathProofs!StampsNotAhead` | `OwnStampNotAhead` | no read replica |
| `WatchStreamProofs!StreamCorrect`, `TypeCorrect` | `StreamInv`, the inductive invariant; `TypeOK` | |
| `WatchStreamProofs!DeliveryCorrect` | `NothingDropped` | |
| `WatchStreamProofs!ReceptionCorrect` | `NoGapReceived` | |
| `WatchStreamProofs!BookmarksCorrect` | `BookmarkHonest` | |
| `WatchStreamProofs!BacklogCorrect` | `PendingAccounted` | |
| `WatchCacheProofs!TypeCorrect` | `TypeOK` | |
| `WatchCacheProofs!VersionNeverBack` | `VersionMonotonic`, an action property | |
| `WatchCacheProofs!MarkCovers` | `NothingBelowMark` | |
| `WatchCacheProofs!CacheTracksTable` | `CacheTracks` | |
| `WatchCacheProofs!ClientsConverge` | `Converged` | `RingSuffices` |
| `WatchCacheProofs!ListedRowsArrive` | `RowsArrive` | `RingSuffices` |
| `PollGroupProofs!GroupCorrect`, `TypeCorrect` | `GroupInv`, `TypeOK` | |
| `PollGroupProofs!WatchedIsPolled` | `WatchedIsMember` | |
| `PollGroupProofs!TimerIsSingle` | `OneTimer` | |
| `ObjectWritesProofs!ObjectCorrect`, `TypeCorrect` | `ObjectInv`, `TypeOK` | |
| `ObjectWritesProofs!ObjectsImplemented` | `ImplementsObjects`, the refinement | update, status and delete statements that bind the version |
| `ObjectWritesProofs!LeftoversPursued` | `LeftoverPursued` | |
| `ProjectionsProofs!TypeCorrect` | `TypeOK` | |
| `ProjectionsProofs!SurfaceAgreed` | `SurfaceSettled` | |
| `ProjectionsProofs!RegistrationsAgreed` | `RegistrationsSettled` | |
| `ProjectionsProofs!StatusesAgree` | `StatusTells` | |
| `SurfaceProofs!SurfaceCorrect` | `Surfaced`, `Attached`, `Numbered`, `Owned` | |
| `SurfaceProofs!StreamsAreCurrent` | `RetiredDisconnected` | |
| `SurfaceProofs!SurfaceStaysUsable` | `SurfaceUsable` | checks without a read replica |
| `SurfaceProofs!PoolsAreAccounted` | `PoolsAccounted` | checks without a read replica |
| `PoolProofs!PoolCorrect` | `PoolInv`, the inductive invariant | |
| `PoolProofs!SessionsAreOwn` | `OwnSession` | |
| `PoolProofs!EffectsAreAtomic` | `AtomicOnce` | |
| `PoolProofs!PoolIsAccounted` | `Accounted` | |

The conditions in the last column are hypotheses of the theorem, or of the
property itself.  "No read replica" is there because a replica lags by design;
"bind the version" because statements that do not are last-writer-wins, as the
documentation says; "checks without a read replica" because of the finding
`SurfaceEviction`, without which condition the properties are false.
`RingSuffices` is: no tombstones, and on a mapped version a ring of at least one
step, a first version past the counter's, and no restart so far.  Of the
configurations the runs use these are `FullPolls`, `Counted` with its restarts,
`Resynced`, `Listing` and `Labelled`; without any of the three conditions on a
mapped version the properties are false, as said above.

**Reads and writes.**  `ReadYourWrites` is not inductive: it speaks of readers that
are answered, and what they are answered with was decided when they joined a
flight.  `Fresh` adds the state in between.  `JoinableFresh`: a flight that can
still be joined and has its rows is no older than any finished write, nor than a
write that has detached and is about to invalidate; this is where the order of the
two is used.  `ReadersOwed`: a reader waiting for, or holding, rows is given what
was finished when it arrived, and rows older than a finished write only if its
epoch already says that they must not be stored.  `FlightsMatch`, `PromisesKept`
and `EpochsBehind` tie keys, promises and epochs together.  `Coalesced` is inductive
with the keys of flights; `WriteSeesItself` needs `OwnWrites`, that a commit is in
the table from which the read back reads.  `OwnStampNotAhead` needs `Observed`, that
nothing known (what was polled, a flight's rows, a stamp) is newer than the table,
and `Stamped`, that the rows of a reader which led its own query were read after
its stamp was taken.

**Streams.** `NothingDropped` speaks of everything on its way to a watcher,
`Inflight`: what the client has received, the channel, the event the goroutine
holds, the backlog, and what the broadcast has still to hand to it, put one behind
the other. Moving an event from one of these to the next leaves the whole as it was;
only a poll and a bookmark append to it, and `prepend` inserts the initial events
between what has left the backlog and the backlog. `Flowing` says of the whole that
it is in order, has no gap, goes no further than what was applied, and is complete
while the watcher is registered and open; of a closed watcher only what had left its
backlog counts, which is a prefix and so still in order and without a gap. Its part
`Leading` has the initial events: before `prepend` there are none on the way, and
afterwards, if nothing had left the backlog by then, they are the first ones of the
whole and of each prefix of it, whatever is appended, sent or closed later. `Locks`,
`Rounds` and `Queues` are there so that what `EnqueueAdds` appends is the head of
what remains for that watcher: one enqueue at a time, by the broadcast that is under
way, to a watcher still open and in its round; and `held` has at most one event, and
only while the goroutine sends. `PendingAccounted` counts the set of backlogged
events; each action changes the part of one watcher, whose cardinality is its
backlog's length.

**The watch cache.**  Three invariants, each resting on the one before.  `MarkInv`:
the mark bounds what is held, is empty until a versioned row was seen, and stands
still while a poll is under way; `VersionMonotonic` follows from it.  `TableInv`
compares what a poll has read with a table that moves on: what is committed after
the read has a later stamp (`StampInv`, `ReadInv`), the tombstones read are all
those between the mark and the moment of the read (`RemovedInv`), nothing at or
below the mark waits to be read (`BelowInv`), and a row that is gone and still held
has a tombstone past the mark (`DeathInv`), so that a later poll returns it.
`RingInv` is about what clients hold.  `Ordered`: on a counter the steps of the ring
are consecutive and end at the version; on a mapped version they ascend, and the
deletions of a version come last.  `Tells`: the last step sent about a row says what
is held of it.  `Follows`: a client that streams will hold what the cache holds, and
*after each event of its queue*, for it may be cut there, the version it would
resume from is one the ring makes up for (`Caught`) or refuses.  Of a watch that has
registered and not prepended yet the same is said of the client it will be
(`Admitted`: its initial events in front of what polls have queued since), which is
what keeps a poll in between from being missed; `Prepend` without overtaking turns
the one into the other, and a client that was overtaken drops out of the invariant
until it starts over.  This is where the
steps without a version of their own matter: `Owes` counts those at the client's
version as unseen, and `Replayable` refuses a version at or below the newest such
step that was dropped.  A poll is proved in stages: what a diff and the steps
recorded of it look like, what trimming the ring takes away, and what appending to a
queue adds.  The orders in which a diff reports rows are arbitrary, and sequences of
events are selected with `kept`, whose properties are proved by taking a least
counterexample.

**The poll group.**  `WatchedIsMember` and `OneTimer` hold each other up: a cache
that leaves may stop the timer only if no other is a member, and one that joins
finds the timer of those that are.  `GroupInv` adds `TimerKept` (`cancel` names a
goroutine exactly while there are members; that one is alive and uncancelled, and
every other live one is cancelled) and `ArrivalsCounted` (the `Watch` calls that
have registered and not joined are among the cache's arrivals).

**Writes of one object.**  `ObjectInv` says what a copy is worth: while the version
a request read is still stored, the row is the copy, and what it is about to bind
was decided on that copy.  From there a guarded statement that hits its row is one
step of `Objects`, and everything else a stutter.  Where a
row is missed, `notFound` either ends the request or makes it a create that has
read nothing, and both are as sound as a request that has just begun.
`LeftoverPursued` also needs
`UidsDiffer` (a uid names one object for ever) and `Pursued`, which follows the
duty to delete from the statement that drops the last finalizer to the attempts
that may lose it.

**The controller.**  The properties are about quiet states, and the invariants about
what can be said of each replica before that.  `CopyInv`: a copy of an object, in an
informer's cache, in a judgement under way or in a remembered status, is of the
past, and at the same generation has the same specification; `TypeOK` needs it for
the generation a status speaks of.  `SurfaceInv`: a replica that is not to sync and
did not fail serves what it would compile from what it has heard of, because the
event handlers let nothing pass that changes the outcome (`wakes`); replicas that
have heard of the same then agree.  That `winners` exists at all, for any finite set
of claimants in any order without cycles, is `WinnersSettle`, by the smallest set
that would be a counterexample.  `RegInv` has that a replica which registered and
need not again saw what it serves routed here (`Stands`), and that of every
registration of this server's some replica will answer for it: it is to sync, or has
not heard of it, or declares it (`Answered`).  `StatusInv` ties what a sync has still
to report and what it remembers reporting to what it serves (`Reported`), and has
that a status which speaks of its object's generation is the last one that some
replica wrote or read (`Vouched`): two replicas may overwrite each other, and the last to
write remembers what stands.

**What is installed.**  `Surfaced` has the storages: those served are compiled,
undestroyed and numbered below the next; what a sync is about to retire it does not
mean to serve.  `Attached` has the requests, `Numbered` and `Owned` the pools: an
open pool is in the cache or with one check.  `Served` adds that the cache holds
what served storages use, and is the part that fails when a check evicts a pool
that is not its own.

**A pool.**  `PoolInv` follows every job.  `Phase`: what it holds at which point of
its way (a connection, a slot, a transaction).  `Session`: on its connection are its
own variables at most, none before its transaction begins, and all of them while its
statements run; `Connwise` has the other half, that a connection nobody uses carries
none, which is what every way of giving one back has to re-establish.  `Effect`:
nothing was applied before the commit, and afterwards everything once.  `Slotwise`
counts slots by the jobs that have one, and `Runwise` ties the run of the token
command to the job, or the listener, that executes it.

Only model-checked:

* Liveness (`WaitersReleased`, `BroadcastEnds`, `ClosedIsHeard`, `KeepsPolling`,
  `IdleLeaves`, `NothingHangs`), which the prover cannot do.
* `Converged` and `RowsArrive` with tombstones.  A replay from the database reads in
  two steps a table that the cache has not caught up with, so what a client holds is
  compared with tombstones still to come instead of with the ring; the invariant for
  that is another one, and the exceptions above show how little it leaves.
* The two disagreements, which are counterexamples.

Every other property of a passing run is the subject of a theorem.

## Limits of the model

* Text, formats and wording are not modelled; nor is the comparison of versions
  that are not numbers, which the code treats as "cannot be placed".
* Times are nondeterministic choices: expiry, resync schedules, retry delays.
* A watcher's namespace is not modelled: it filters like a selector that never
  changes its mind about a row.
* `WatchCache` reads the table directly where the code makes a shared read that
  may join a flight (the poll without an incremental query, and the snapshot of
  a lightweight cache).  `ReadPath` has that effect in isolation.
* A single delete in `ObjectWrites` may assert a version and ask for the collector's
  finalizer (foreground propagation); a uid among its preconditions and the other
  propagation policies are left out, and so are the options of a collection's delete,
  which `deleteEach` hands to each of its deletes (`RP/rest.go:2893`).
  `canDeleteInBulk` has what a projection declares; a selector, a limit or a namespace
  the statement cannot see only decides between the two ways `DeleteCollection` can
  take, both of which are modelled.
* `SyncRegisters` is one step, and the requests it makes of the API server for an
  APIService succeed or find that the object has changed.  Other errors of `ensure`
  and `prune` (`controller/projection/apiservice.go:461`, `493`) leave a group
  version as it was until the next sync, which an error of `ensure` brings about and
  one of `prune`, only logged, does not; `RegistrationsSettled` is about syncs in
  which nothing failed.
* A wall clock that steps back across a restart is outside the model, as
  `docs/limitations.md` says it is outside the check.
* One process is one server: `WatchCache` and `ReadPath` are about a single
  replica, `Projections` about several.  `ObjectWrites`' requests may be on any.
* `Surface` gives a resource to any one claimant, and `Projections` compiles
  without pools; neither has the other's detail.

### Not modelled

* Continue tokens and limits of a list: conversions of a token's text, and
  statements the author of a projection writes.
* The row mapper, the checks of a specification, the binding of parameters and the
  text of statements: pure conversions over unbounded data, which the unit tests
  enumerate.
* OpenAPI documents, RBAC rules, discovery, the kubectl plugin: output computed
  from a specification and not read back.
* Server assembly and flags: nothing changes after the start.
* Metrics, recorded events, logs: nothing reads them back.
* API types and generated code: declarations.

## What could follow

1. `Converged` and `RowsArrive` with tombstones that only name their row, where the
   database rather than the ring accounts for what was missed.
2. A module for continue tokens over a changing table (`RP/rest.go:1299`), the one
   behaviour over time among the parts not modelled.
