------------------------------ MODULE ReadPath ------------------------------
(***************************************************************************)
(* The read path of one projection on one server: the read cache           *)
(* (registry/projection/cache.go), the flight group that coalesces         *)
(* identical queries (flight.go), the choice between the primary and a     *)
(* read replica (rest.go, queryAll and poolFor), the order in which a      *)
(* write drops what it made stale (rest.go, write), and the watch poll's   *)
(* part in that (watch.go, dropReadsOnChange).                             *)
(*                                                                         *)
(* The rows of a namespace are abstracted to the number of writes that     *)
(* have reached them, so what a query returned is a "view": one number per *)
(* namespace.  A view that is smaller somewhere is an older one.           *)
(***************************************************************************)
EXTENDS Integers, FiniteSets

CONSTANTS
    Namespaces,   \* the namespaces rows live in
    ClusterWide,  \* the empty namespace: a statement that names none
    Keys,         \* the distinct reads: one cache key and one statement each
    PollKey,      \* the read the watch poll shares: a cluster-wide list
    ScopeOf,      \* the namespace each read is confined to, or ClusterWide
    Readers,      \* concurrent get and list requests
    Writers,      \* concurrent write requests
    Flights,      \* identities for the queries in flight
    NoFlight,
    NoEntry,
    HasReplica,   \* whether the projection has a read pool
    Watched,      \* whether a watch has started the poller
    MaxEntries,   \* maxCacheEntries
    EvictionBatch,\* evictionBatch
    MaxCommits,   \* bound: commits to one namespace
    MaxGeneration \* bound: invalidations after which none is begun

Scopes == Namespaces \cup {ClusterWide}
Pools == {"primary", "replica"}

ASSUME ScopeAssumption ==
    /\ ClusterWide \notin Namespaces
    /\ ScopeOf \in [Keys -> Scopes]
    /\ PollKey \in Keys
    /\ ScopeOf[PollKey] = ClusterWide
ASSUME FlightAssumption == NoFlight \notin Flights
ASSUME BoundAssumption ==
    /\ HasReplica \in BOOLEAN
    /\ Watched \in BOOLEAN
    /\ MaxCommits \in Nat
    /\ MaxGeneration \in Nat

View == [Namespaces -> Nat]
Entry == [view : View]
Zero == [n \in Namespaces |-> 0]

ASSUME EntryAssumption == NoEntry \notin Entry

VARIABLES
    primary,          \* the view a query against the primary would return
    replica,          \* the view the read replica has caught up to
    replicaDown,      \* replicaDownUntil has not passed yet
    generation,       \* readCache.generation
    invalidatedAt,    \* readCache.invalidatedAt; a missing key is 0
    allInvalidatedAt, \* readCache.allInvalidatedAt
    entries,          \* readCache.entries
    inflight,         \* flightGroup.inflight
    flight,           \* every flight, the detached ones included
    reader,           \* the state of each read request
    writer,           \* the state of each write request
    poll,             \* the watch cache's poll: its step and what it read
    polled,           \* the view the watch cache last applied
    settled           \* history: the view every finished write promises

vars == <<primary, replica, replicaDown, generation, invalidatedAt,
          allInvalidatedAt, entries, inflight, flight, reader, writer, poll,
          polled, settled>>

database == <<primary, replica, replicaDown>>
cache == <<generation, invalidatedAt, allInvalidatedAt, entries>>
flights == <<inflight, flight>>
polling == <<poll, polled>>

ReaderSteps == {"idle", "lookup", "epoch", "version", "query", "wait",
                "store", "answered"}
WriterSteps == {"idle", "run", "detach", "invalidate", "readback", "answered"}
FlightSteps == {"unused", "running", "answered"}

Reader == [pc : ReaderSteps, key : Keys, since : Nat,
           flight : Flights \cup {NoFlight}, led : BOOLEAN,
           view : View, stamp : View, floor : View]
Writer == [pc : WriterSteps, scope : Scopes, wrote : View, answer : View]
Flight == [step : FlightSteps, key : Keys, pool : Pools, view : View,
           detached : BOOLEAN]
Poll == [pc : {"idle", "wait", "apply"}, flight : Flights \cup {NoFlight},
         view : View]

TypeOK ==
    /\ primary \in View
    /\ replica \in View
    /\ replicaDown \in BOOLEAN
    /\ generation \in Nat
    /\ invalidatedAt \in [Namespaces -> Nat]
    /\ allInvalidatedAt \in Nat
    /\ entries \in [Keys -> Entry \cup {NoEntry}]
    /\ inflight \in [Keys \X Pools -> Flights \cup {NoFlight}]
    /\ flight \in [Flights -> Flight]
    /\ reader \in [Readers -> Reader]
    /\ writer \in [Writers -> Writer]
    /\ poll \in Poll
    /\ polled \in View
    /\ settled \in View

IdleReader == [pc |-> "idle", key |-> PollKey, since |-> 0, flight |-> NoFlight,
               led |-> FALSE, view |-> Zero, stamp |-> Zero, floor |-> Zero]
IdleWriter == [pc |-> "idle", scope |-> ClusterWide, wrote |-> Zero,
               answer |-> Zero]
IdlePoll == [pc |-> "idle", flight |-> NoFlight, view |-> Zero]
UnusedFlight == [step |-> "unused", key |-> PollKey, pool |-> "primary",
                 view |-> Zero, detached |-> FALSE]

Init ==
    /\ primary = Zero
    /\ replica = Zero
    /\ replicaDown = FALSE
    /\ generation = 0
    /\ invalidatedAt = Zero
    /\ allInvalidatedAt = 0
    /\ entries = [k \in Keys |-> NoEntry]
    /\ inflight = [q \in Keys \X Pools |-> NoFlight]
    /\ flight = [f \in Flights |-> UnusedFlight]
    /\ reader = [r \in Readers |-> IdleReader]
    /\ writer = [w \in Writers |-> IdleWriter]
    /\ poll = IdlePoll
    /\ polled = Zero
    /\ settled = Zero

-----------------------------------------------------------------------------
(* Views and scopes. *)

\* The namespaces whose rows a statement confined to s reads or writes.
Covers(s) == IF s = ClusterWide THEN Namespaces ELSE {s}

\* Within scope s, view v reflects everything view u does.
Reflects(v, u, s) == \A n \in Covers(s) : u[n] <= v[n]

\* v with the namespaces of s taken from u where u is newer.
Newer(v, u, s) ==
    [n \in Namespaces |-> IF n \in Covers(s) /\ u[n] > v[n] THEN u[n] ELSE v[n]]

-----------------------------------------------------------------------------
(* The read cache. *)

\* Mutant: rows are stored whatever was invalidated since they were asked for.
neverStale(s, since) == FALSE

\* staleLocked: was something an entry of scope s describes invalidated after
\* the epoch `since`?
staleLocked(s, since) ==
    IF s = ClusterWide
    THEN generation > since
    ELSE allInvalidatedAt > since \/ invalidatedAt[s] > since

\* Mutant: the per-namespace map is thrown away instead of cleared.
invalidateDropsTheMap(ss) ==
    /\ generation' = generation + 1
    /\ allInvalidatedAt' = generation + 1
    /\ invalidatedAt' = [n \in {} |-> 0]
    /\ entries' = [k \in Keys |-> NoEntry]

\* Mutant: a write in a namespace leaves the cluster-wide entries, which hold
\* its rows too.
invalidateOnlyTheNamespace(ss) ==
    /\ generation' = generation + 1
    /\ allInvalidatedAt' = IF ClusterWide \in ss THEN generation + 1 ELSE allInvalidatedAt
    /\ invalidatedAt' = [n \in Namespaces |->
           IF n \in ss THEN generation + 1 ELSE invalidatedAt[n]]
    /\ entries' = [k \in Keys |->
           IF ClusterWide \in ss \/ ScopeOf[k] \in ss THEN NoEntry ELSE entries[k]]

\* invalidateNamespaces, for a non-empty set of scopes.
invalidateNamespaces(ss) ==
    /\ generation' = generation + 1
    /\ IF ClusterWide \in ss
       THEN /\ allInvalidatedAt' = generation + 1
            /\ invalidatedAt' = Zero
            /\ entries' = [k \in Keys |-> NoEntry]
       ELSE /\ invalidatedAt' = [n \in Namespaces |->
                    IF n \in ss THEN generation + 1 ELSE invalidatedAt[n]]
            /\ entries' = [k \in Keys |->
                    IF ScopeOf[k] \in ss \cup {ClusterWide}
                    THEN NoEntry ELSE entries[k]]
            /\ UNCHANGED allInvalidatedAt

\* evictLocked: the expired entries go first, whichever they are by now; if
\* that made no room, the EvictionBatch entries nearest their expiry.
Held == {k \in Keys : entries[k] # NoEntry}

evictLocked(drop) ==
    IF Cardinality(Held) < MaxEntries
    THEN drop = {}
    ELSE \E expired \in SUBSET Held :
            IF Cardinality(Held \ expired) < MaxEntries
            THEN drop = expired
            ELSE \E oldest \in SUBSET (Held \ expired) :
                    /\ Cardinality(oldest) = EvictionBatch
                    /\ drop = expired \cup oldest

-----------------------------------------------------------------------------
(* A read request: getObject and List. *)

\* A request arrives.  What finished writes have promised by now is what it is
\* entitled to see.
BeginRead(r, k) ==
    /\ reader[r].pc = "idle"
    /\ reader' = [reader EXCEPT ![r] =
           [@ EXCEPT !.pc = "lookup", !.key = k, !.floor = settled]]
    /\ UNCHANGED <<database, cache, flights, writer, polling, settled>>

\* lookup: the key is held, has not expired and is new enough for the client.
CacheHit(r) ==
    /\ reader[r].pc = "lookup"
    /\ entries[reader[r].key] # NoEntry
    /\ reader' = [reader EXCEPT ![r] =
           [@ EXCEPT !.pc = "answered", !.view = entries[reader[r].key].view]]
    /\ UNCHANGED <<database, cache, flights, writer, polling, settled>>

\* lookup: nothing held, or an entry too old for the version the client asked
\* for, which stays, or an expired one, which is deleted.
CacheMiss(r) ==
    /\ reader[r].pc = "lookup"
    /\ \/ UNCHANGED entries
       \/ entries' = [entries EXCEPT ![reader[r].key] = NoEntry]
    /\ reader' = [reader EXCEPT ![r] = [@ EXCEPT !.pc = "epoch"]]
    /\ UNCHANGED <<database, generation, invalidatedAt, allInvalidatedAt,
                   flights, writer, polling, settled>>

\* epoch(), before the query.
TakeEpoch(r) ==
    /\ reader[r].pc = "epoch"
    /\ reader' = [reader EXCEPT ![r] =
           [@ EXCEPT !.pc = "version", !.since = generation]]
    /\ UNCHANGED <<database, cache, flights, writer, polling, settled>>

\* List asks the watch cache where a watch could resume (versionFor); a get, or
\* a list whose watch cache is not primed, has no such stamp.
TakeVersion(r) ==
    /\ reader[r].pc = "version"
    /\ \E stamp \in {polled, Zero} :
           reader' = [reader EXCEPT ![r] =
               [@ EXCEPT !.pc = "query", !.stamp = stamp]]
    /\ UNCHANGED <<database, cache, flights, writer, polling, settled>>

\* poolFor a shared read.
poolFor == IF HasReplica /\ ~replicaDown THEN "replica" ELSE "primary"

\* Do: an identical query is running, so wait for that one.
join(k, f) ==
    /\ f = inflight[<<k, poolFor>>]
    /\ f # NoFlight
    /\ UNCHANGED flights

\* Do: nothing to join, so register a flight and start its query.
start(k, f) ==
    LET q == <<k, poolFor>> IN
    /\ inflight[q] = NoFlight
    /\ flight[f].step = "unused"
    /\ inflight' = [inflight EXCEPT ![q] = f]
    /\ flight' = [flight EXCEPT ![f] =
           [step |-> "running", key |-> k, pool |-> poolFor,
            view |-> Zero, detached |-> FALSE]]

JoinFlight(r, f) ==
    /\ reader[r].pc = "query"
    /\ join(reader[r].key, f)
    /\ reader' = [reader EXCEPT ![r] =
           [@ EXCEPT !.pc = "wait", !.flight = f, !.led = FALSE]]
    /\ UNCHANGED <<database, cache, writer, polling, settled>>

StartFlight(r, f) ==
    /\ reader[r].pc = "query"
    /\ start(reader[r].key, f)
    /\ reader' = [reader EXCEPT ![r] =
           [@ EXCEPT !.pc = "wait", !.flight = f, !.led = TRUE]]
    /\ UNCHANGED <<database, cache, writer, polling, settled>>

\* The query is answered by the pool it was routed to.
FlightReads(f) ==
    /\ flight[f].step = "running"
    /\ flight' = [flight EXCEPT ![f] =
           [@ EXCEPT !.step = "answered",
                     !.view = IF flight[f].pool = "primary" THEN primary ELSE replica]]
    /\ UNCHANGED <<database, cache, inflight, reader, writer, polling, settled>>

\* The replica is unreachable: remember that, and ask the primary instead.
FlightFallsBack(f) ==
    /\ flight[f].step = "running"
    /\ flight[f].pool = "replica"
    /\ replicaDown' = TRUE
    /\ flight' = [flight EXCEPT ![f] =
           [@ EXCEPT !.step = "answered", !.view = primary]]
    /\ UNCHANGED <<primary, replica, cache, inflight, reader, writer, polling,
                   settled>>

\* Mutant: a detached flight removes the flight that replaced it.
finishRemovesWhatever(f) ==
    inflight' = [inflight EXCEPT ![<<flight[f].key, flight[f].pool>>] = NoFlight]

\* finish: only the flight that is still current is removed.
finish(f) ==
    LET q == <<flight[f].key, flight[f].pool>> IN
    inflight' = IF inflight[q] = f
                THEN [inflight EXCEPT ![q] = NoFlight]
                ELSE inflight

\* wait returns in every request behind f, the poller's included.
release(f, received(_), polledRows) ==
    /\ reader' = [r \in Readers |->
           IF reader[r].pc = "wait" /\ reader[r].flight = f
           THEN received(reader[r]) ELSE reader[r]]
    /\ poll' = IF poll.pc = "wait" /\ poll.flight = f THEN polledRows ELSE poll
    /\ flight' = [flight EXCEPT ![f] = UnusedFlight]

\* Mutant: the version is asked for when the rows have arrived.
FlightFinishesThenStamps(f) ==
    LET received(rd) == [rd EXCEPT !.pc = "store", !.flight = NoFlight,
                                   !.view = flight[f].view, !.stamp = polled]
        rows == [pc |-> "apply", flight |-> NoFlight, view |-> flight[f].view] IN
    /\ flight[f].step = "answered"
    /\ finish(f)
    /\ release(f, received, rows)
    /\ UNCHANGED <<database, cache, writer, polled, settled>>

\* Mutant: only the flight still current closes its channel.
FlightFinishesIfCurrent(f) ==
    LET received(rd) == [rd EXCEPT !.pc = "store", !.flight = NoFlight,
                                   !.view = flight[f].view]
        rows == [pc |-> "apply", flight |-> NoFlight, view |-> flight[f].view] IN
    /\ flight[f].step = "answered"
    /\ inflight[<<flight[f].key, flight[f].pool>>] = f
    /\ finish(f)
    /\ release(f, received, rows)
    /\ UNCHANGED <<database, cache, writer, polled, settled>>

\* The query has returned rows: finish, then close(done).
FlightFinishes(f) ==
    LET received(rd) == [rd EXCEPT !.pc = "store", !.flight = NoFlight,
                                   !.view = flight[f].view]
        rows == [pc |-> "apply", flight |-> NoFlight, view |-> flight[f].view] IN
    /\ flight[f].step = "answered"
    /\ finish(f)
    /\ release(f, received, rows)
    /\ UNCHANGED <<database, cache, writer, polled, settled>>

\* The query was shed by the limiter, or the database refused it: the error is
\* every waiter's answer.
FlightFails(f) ==
    LET refused(rd) == IdleReader IN
    /\ flight[f].step = "running"
    /\ finish(f)
    /\ release(f, refused, IdlePoll)
    /\ UNCHANGED <<database, cache, writer, polled, settled>>

\* wait: the client went away; the flight carries on without it.
GiveUp(r) ==
    /\ reader[r].pc = "wait"
    /\ reader' = [reader EXCEPT ![r] = IdleReader]
    /\ UNCHANGED <<database, cache, flights, writer, polling, settled>>

\* store, through putObject or putList: nothing when the query found no row to
\* keep, refused when something the rows describe was invalidated since the
\* epoch, and making room first when full.
Store(r) ==
    LET k == reader[r].key IN
    /\ reader[r].pc = "store"
    /\ \/ UNCHANGED entries
       \/ /\ ~staleLocked(ScopeOf[k], reader[r].since)
          /\ \E drop \in SUBSET Keys :
                /\ evictLocked(drop)
                /\ entries' = [j \in Keys |->
                       IF j = k THEN [view |-> reader[r].view]
                       ELSE IF j \in drop THEN NoEntry ELSE entries[j]]
    /\ reader' = [reader EXCEPT ![r] = [@ EXCEPT !.pc = "answered"]]
    /\ UNCHANGED <<database, generation, invalidatedAt, allInvalidatedAt,
                   flights, writer, polling, settled>>

\* The response leaves.
Reply(r) ==
    /\ reader[r].pc = "answered"
    /\ reader' = [reader EXCEPT ![r] = IdleReader]
    /\ UNCHANGED <<database, cache, flights, writer, polling, settled>>

-----------------------------------------------------------------------------
(* A write request: write, deleteOnce and deleteInBulk share this order. *)

MayCommit(s) == \A n \in Covers(s) : primary[n] < MaxCommits

BeginWrite(w, s) ==
    /\ writer[w].pc = "idle"
    /\ generation < MaxGeneration
    /\ writer' = [writer EXCEPT ![w] = [@ EXCEPT !.pc = "run", !.scope = s]]
    /\ UNCHANGED <<database, cache, flights, reader, polling, settled>>

\* The statement commits.
Commit(w) ==
    LET after == [n \in Namespaces |->
            IF n \in Covers(writer[w].scope) THEN primary[n] + 1 ELSE primary[n]] IN
    /\ writer[w].pc = "run"
    /\ MayCommit(writer[w].scope)
    /\ primary' = after
    /\ writer' = [writer EXCEPT ![w] =
           [@ EXCEPT !.pc = "detach", !.wrote = after]]
    /\ UNCHANGED <<replica, replicaDown, cache, flights, reader, polling, settled>>

\* The statement fails, or affects no row; finish() runs all the same.
WriteFails(w) ==
    /\ writer[w].pc = "run"
    /\ writer' = [writer EXCEPT ![w] =
           [@ EXCEPT !.pc = "detach", !.wrote = Zero]]
    /\ UNCHANGED <<database, cache, flights, reader, polling, settled>>

\* Mutant: only flights of the very namespace written are detached.
DetachesItsScopeOnly(w) ==
    LET hit(q) == ScopeOf[q[1]] = writer[w].scope IN
    /\ writer[w].pc = "detach"
    /\ inflight' = [q \in Keys \X Pools |->
           IF hit(q) THEN NoFlight ELSE inflight[q]]
    /\ flight' = [f \in Flights |->
           IF \E q \in Keys \X Pools : hit(q) /\ inflight[q] = f
           THEN [flight[f] EXCEPT !.detached = TRUE] ELSE flight[f]]
    /\ writer' = [writer EXCEPT ![w] = [@ EXCEPT !.pc = "invalidate"]]
    /\ UNCHANGED <<database, cache, reader, polling, settled>>

\* detach: no new reader may join a flight whose rows the write may have moved.
\* The scope of a flight is the scope of its read.
Detach(w) ==
    LET s == writer[w].scope
        hit(q) == s = ClusterWide \/ ScopeOf[q[1]] \in {ClusterWide, s} IN
    /\ writer[w].pc = "detach"
    /\ inflight' = [q \in Keys \X Pools |->
           IF hit(q) THEN NoFlight ELSE inflight[q]]
    /\ flight' = [f \in Flights |->
           IF \E q \in Keys \X Pools : hit(q) /\ inflight[q] = f
           THEN [flight[f] EXCEPT !.detached = TRUE] ELSE flight[f]]
    /\ writer' = [writer EXCEPT ![w] = [@ EXCEPT !.pc = "invalidate"]]
    /\ UNCHANGED <<database, cache, reader, polling, settled>>

\* invalidate, after which the write may be reported.
Invalidate(w) ==
    /\ writer[w].pc = "invalidate"
    /\ invalidateNamespaces({writer[w].scope})
    /\ settled' = Newer(settled, writer[w].wrote, writer[w].scope)
    /\ writer' = [writer EXCEPT ![w] = [@ EXCEPT !.pc = "readback"]]
    /\ UNCHANGED <<database, flights, reader, polling>>

\* Mutant: the read back is routed like any other read.
readFromTheReplica == IF HasReplica /\ ~replicaDown THEN replica ELSE primary

\* The view a fresh read returns: poolFor(fresh) is the primary, and no flight
\* is joined.
freshRead == primary

\* The read back that answers a write that took effect.
ReadBack(w) ==
    /\ writer[w].pc = "readback"
    /\ writer[w].wrote # Zero
    /\ writer' = [writer EXCEPT ![w] =
           [@ EXCEPT !.pc = "answered", !.answer = freshRead]]
    /\ UNCHANGED <<database, cache, flights, reader, polling, settled>>

\* The response leaves; there is no read back for an error, for a statement that
\* returned the row itself, or for a delete.
WriteReplies(w) ==
    /\ writer[w].pc \in {"readback", "answered"}
    /\ writer' = [writer EXCEPT ![w] = IdleWriter]
    /\ UNCHANGED <<database, cache, flights, reader, polling, settled>>

-----------------------------------------------------------------------------
(* The database and the poller. *)

\* Another server, or anything else with the database's password, writes rows.
ExternalWrite(n) ==
    /\ MayCommit(n)
    /\ primary' = [primary EXCEPT ![n] = @ + 1]
    /\ UNCHANGED <<replica, replicaDown, cache, flights, reader, writer,
                   polling, settled>>

\* Replication applies one more write.
Replicate(n) ==
    /\ HasReplica
    /\ replica[n] < primary[n]
    /\ replica' = [replica EXCEPT ![n] = @ + 1]
    /\ UNCHANGED <<primary, replicaDown, cache, flights, reader, writer,
                   polling, settled>>

\* replicaRetryAfter passes.
ReplicaRetried ==
    /\ replicaDown
    /\ replicaDown' = FALSE
    /\ UNCHANGED <<primary, replica, cache, flights, reader, writer, polling,
                   settled>>

\* A watch poll reads the collection (listAllNamespaces), as a shared read.
PollReads(f) ==
    /\ Watched
    /\ poll.pc = "idle"
    /\ generation < MaxGeneration
    /\ join(PollKey, f) \/ start(PollKey, f)
    /\ poll' = [poll EXCEPT !.pc = "wait", !.flight = f]
    /\ UNCHANGED <<database, cache, reader, writer, polled, settled>>

\* The namespaces of the events of a poll.
changedNamespaces == {n \in Namespaces : poll.view[n] # polled[n]}

\* The poll is applied, and drops the cached reads of the namespaces it found
\* changed.  It detaches no flight.
PollApplies ==
    /\ poll.pc = "apply"
    /\ poll' = IdlePoll
    /\ polled' = poll.view
    /\ IF changedNamespaces = {} THEN UNCHANGED cache
       ELSE invalidateNamespaces(changedNamespaces)
    /\ UNCHANGED <<database, flights, reader, writer, settled>>

-----------------------------------------------------------------------------
ReadStep(r) ==
    \/ \E k \in Keys : BeginRead(r, k)
    \/ CacheHit(r)
    \/ CacheMiss(r)
    \/ TakeEpoch(r)
    \/ TakeVersion(r)
    \/ \E f \in Flights : JoinFlight(r, f) \/ StartFlight(r, f)
    \/ GiveUp(r)
    \/ Store(r)
    \/ Reply(r)

FlightStep(f) ==
    \/ FlightReads(f)
    \/ FlightFallsBack(f)
    \/ FlightFinishes(f)
    \/ FlightFails(f)

WriteStep(w) ==
    \/ \E s \in Scopes : BeginWrite(w, s)
    \/ Commit(w)
    \/ WriteFails(w)
    \/ Detach(w)
    \/ Invalidate(w)
    \/ ReadBack(w)
    \/ WriteReplies(w)

Next ==
    \/ \E r \in Readers : ReadStep(r)
    \/ \E f \in Flights : FlightStep(f)
    \/ \E w \in Writers : WriteStep(w)
    \/ \E n \in Namespaces : ExternalWrite(n) \/ Replicate(n)
    \/ ReplicaRetried
    \/ \E f \in Flights : PollReads(f)
    \/ PollApplies

Spec == Init /\ [][Next]_vars

\* The server's own steps are goroutines the runtime keeps scheduling, and
\* every query ends because it runs under a deadline; clients, other writers
\* and the poller are not assumed to do anything.
Fairness ==
    \A f \in Flights : WF_vars(FlightStep(f))

FairSpec == Spec /\ Fairness

-----------------------------------------------------------------------------
(* Properties. *)

\* A read answered by this server, from the cache, from a flight it joined or
\* from a query of its own, reflects every write this server had finished
\* before the read arrived (write's finish(), flight.go detach, cache.go
\* staleLocked).  A read replica lags by design and is excepted.
ReadYourWrites ==
    ~HasReplica =>
        \A r \in Readers : reader[r].pc = "answered" =>
            Reflects(reader[r].view, reader[r].floor, ScopeOf[reader[r].key])

\* Nothing the cache holds predates a finished write to its namespaces, even
\* when the rows were read before the write and arrived after it (cache.go,
\* store and invalidateNamespaces).
CacheReflectsWrites ==
    ~HasReplica =>
        \A k \in Keys : entries[k] # NoEntry =>
            Reflects(entries[k].view, settled, ScopeOf[k])

\* The response to a committed write describes the row as that write left it,
\* or later, whatever the replica has caught up to (write's read back).
WriteSeesItself ==
    \A w \in Writers : writer[w].pc = "answered" =>
        Reflects(writer[w].answer, writer[w].wrote, writer[w].scope)

\* A query nobody detached is the one its key leads to, so an identical read
\* joins it instead of running a second one (flight.go, Do and finish).
Coalesced ==
    \A f \in Flights :
        flight[f].step \in {"running", "answered"} /\ ~flight[f].detached =>
            inflight[<<flight[f].key, flight[f].pool>>] = f

\* A list that ran its own query is stamped no newer than its rows: a watch
\* resumed from the stamp is told of everything the rows lack (rest.go, List,
\* versionFor before listWith).
OwnStampNotAhead ==
    ~HasReplica =>
        \A r \in Readers : reader[r].pc \in {"store", "answered"} /\ reader[r].led =>
            Reflects(reader[r].view, reader[r].stamp, ScopeOf[reader[r].key])

\* Every request waiting on a flight is released, also when a write detached
\* the flight or the request that started it went away (flight.go, Do).
WaitersReleased ==
    \A r \in Readers : reader[r].pc = "wait" ~> reader[r].pc # "wait"

-----------------------------------------------------------------------------
(* The inductive invariant behind ReadYourWrites and CacheReflectsWrites.    *)

\* Epochs never run ahead of the cache's generation.
EpochsBehind ==
    /\ allInvalidatedAt <= generation
    /\ \A n \in Namespaces : invalidatedAt[n] <= generation
    /\ \A r \in Readers : reader[r].since <= generation

\* What a write promises, and what a reader is owed, has happened.
PromisesKept ==
    /\ \A n \in Namespaces : settled[n] <= primary[n]
    /\ \A w \in Writers : \A n \in Namespaces : writer[w].wrote[n] <= primary[n]
    /\ \A r \in Readers : \A n \in Namespaces : reader[r].floor[n] <= settled[n]

\* A registered flight is running and is the read its key names; so is the
\* flight a reader waits on.  Without a replica they all read the primary.
FlightsMatch ==
    /\ \A q \in Keys \X Pools : inflight[q] # NoFlight =>
           /\ flight[inflight[q]].step \in {"running", "answered"}
           /\ flight[inflight[q]].key = q[1]
           /\ flight[inflight[q]].pool = q[2]
    /\ \A r \in Readers : reader[r].pc = "wait" =>
           /\ reader[r].flight \in Flights
           /\ flight[reader[r].flight].step \in {"running", "answered"}
           /\ flight[reader[r].flight].key = reader[r].key
    /\ \A f \in Flights : flight[f].pool = "primary"

\* A flight that can be joined holds no rows older than a finished write, nor
\* than one that has detached its flights and is about to invalidate.
JoinableFresh ==
    \A q \in Keys \X Pools :
        inflight[q] # NoFlight /\ flight[inflight[q]].step = "answered" =>
            \A n \in Covers(ScopeOf[q[1]]) :
                /\ settled[n] <= flight[inflight[q]].view[n]
                /\ \A w \in Writers :
                       writer[w].pc = "invalidate" /\ n \in Covers(writer[w].scope) =>
                           writer[w].wrote[n] <= flight[inflight[q]].view[n]

\* The rows reader r has or will be given, v, are what it was owed, and may be
\* cached unless its epoch says otherwise.
Owed(r, v) ==
    /\ Reflects(v, reader[r].floor, ScopeOf[reader[r].key])
    /\ ~staleLocked(ScopeOf[reader[r].key], reader[r].since) =>
           Reflects(v, settled, ScopeOf[reader[r].key])

ReadersOwed ==
    \A r \in Readers :
        /\ reader[r].pc = "wait" /\ flight[reader[r].flight].step = "answered" =>
               Owed(r, flight[reader[r].flight].view)
        /\ reader[r].pc = "store" => Owed(r, reader[r].view)
        /\ reader[r].pc = "answered" =>
               Reflects(reader[r].view, reader[r].floor, ScopeOf[reader[r].key])

EntriesFresh ==
    \A k \in Keys : entries[k] # NoEntry =>
        Reflects(entries[k].view, settled, ScopeOf[k])

Fresh ==
    /\ EpochsBehind
    /\ PromisesKept
    /\ FlightsMatch
    /\ JoinableFresh
    /\ ReadersOwed
    /\ EntriesFresh

\* Along every interleaving of readers, flights, writers and polls, what can
\* still be joined, is being waited for or is cached is at least as new as what
\* finished writes promised (flight.go detach, then cache.go invalidate).
FreshnessInv == ~HasReplica => Fresh

=============================================================================
