----------------------------- MODULE WatchCache -----------------------------
(***************************************************************************)
(* The watch cache of one projection (registry/projection/watch.go): how a *)
(* poll turns two readings of a table into events, what version it reaches *)
(* by them, what the history ring remembers, and whether a client that     *)
(* comes back with a version is caught up from the ring, caught up from    *)
(* the database, or told to relist.                                        *)
(*                                                                         *)
(* A row is abstracted to the stamp of the write that last touched it,     *)
(* which is also its resourceVersion when the projection maps one; 0 is no *)
(* row, and as a version it is the empty string.  Stamps are assigned in   *)
(* commit order.  Delivery to a watcher is a queue here; the goroutines    *)
(* and limits behind that queue are the subject of WatchStream.            *)
(***************************************************************************)
EXTENDS Integers, Sequences, FiniteSets, FiniteSetsExt

CONSTANTS
    Keys,     \* the rows a table can hold
    Clients,  \* watching clients
    Configs,  \* the configurations of a projection to consider
    MaxQueue  \* bound: no bookmark is added to a queue this long

\* What a tombstone says.  "identity": only which row it was.  "last": the row,
\* with the version it last had.  "own": the row, with a version assigned by
\* the deletion.
TombstoneKinds == {"none", "identity", "last", "own"}

\* A configuration the server accepts, and the bounds to explore it within.
Config ==
    [versioned : BOOLEAN,         \* mapping.resourceVersion is set
     incremental : BOOLEAN,       \* watch.query is set: polls read from the mark
     tombstones : TombstoneKinds, \* watch.deletedQuery
     resyncs : BOOLEAN,           \* fullResyncInterval is not 0
     historySize : Nat,           \* watch.historySize
     byListing : BOOLEAN,         \* clients list and watch from its version
     selector : {"none", "labels", "fields"}, \* what the clients select on
     firstStamp : Nat,            \* the last version before the first row's
     maxClock : Nat,              \* bound: the last stamp assigned
     maxCuts : Nat,               \* bound: streams cut
     maxRestarts : Nat]           \* bound: restarts of the server

ASSUME ConfigAssumption ==
    /\ Configs \subseteq Config
    /\ \A c \in Configs :
           /\ c.incremental => c.versioned
           /\ c.tombstones # "none" => c.incremental
           /\ c.incremental /\ c.tombstones = "none" => c.resyncs
           /\ c.firstStamp <= c.maxClock
    /\ MaxQueue \in Nat

ASSUME KeysAssumption == IsFiniteSet(Keys)

VARIABLES
    config,   \* the projection's configuration
    rows,     \* the table: each row's stamp, 0 when it is absent
    tombs,    \* the tombstones in order: key, deletion stamp, version, row
    clock,    \* the last stamp assigned
    cache,    \* the watchCache's fields
    poll,     \* the poll in progress
    client,   \* each client: its store, its version and its stream
    faults,   \* how many streams were cut and how often the server restarted
    seenAt    \* history: the clock when the last poll applied read its rows

vars == <<config, rows, tombs, clock, cache, poll, client, faults, seenAt>>
outside == <<config, rows, tombs, clock>>

Versioned == config.versioned
Incremental == config.incremental
Tombstones == config.tombstones
Described == Tombstones \in {"last", "own"}
NoRows == [k \in Keys |-> 0]

\* The elements of a sequence at some of its indices, in order.
nth(S, i) == CHOOSE x \in S : Cardinality({y \in S : y < x}) = i - 1
kept(s, S) == [i \in 1..Cardinality(S) |-> s[nth(S, i)]]

\* The sequences of all elements of a set, and those sorted by a number of each.
orderings(S) == {s \in [1..Cardinality(S) -> S] : \A k \in S : \E i \in DOMAIN s : s[i] = k}
ascending(S, by) ==
    {s \in orderings(S) : \A i, j \in DOMAIN s : i < j => by[s[i]] <= by[s[j]]}

\* A client whose watcher is registered.  While Watch has not returned, its
\* collection is to be read, or at hand; or the rows, or the tombstones, of its
\* replay are to be read, or the replay is at hand.  Then it is served: taking
\* its collection, or caught up.
Prepending == {"starting", "resuming"}
Served == {"syncing", "online"}
Streaming == {"snapshotting", "replaying", "replayed"} \cup Prepending \cup Served

FreshCache(epoch) ==
    [items |-> NoRows, highestVersion |-> 0, version |-> epoch, epoch |-> epoch,
     history |-> <<>>, forgotStalled |-> 0, polled |-> FALSE,
     lightweight |-> FALSE]
IdlePoll == [pc |-> "idle", full |-> FALSE, since |-> 0, rows |-> NoRows,
             removed |-> <<>>, asOf |-> 0]
NewClient == [pc |-> "new", store |-> NoRows, at |-> 0, queue |-> <<>>,
              initial |-> <<>>, read |-> NoRows, overtaken |-> FALSE]

Init ==
    /\ config \in Configs
    /\ rows = NoRows
    /\ tombs = <<>>
    /\ clock = config.firstStamp
    /\ cache = FreshCache(1)
    /\ poll = IdlePoll
    /\ client = [c \in Clients |-> NewClient]
    /\ faults = [cuts |-> 0, restarts |-> 0]
    /\ seenAt = 0

-----------------------------------------------------------------------------
(* Versions. *)

movesForward(watermark, version) == version # 0 /\ version > watermark

\* currentVersionLocked of a cache.
currentVersion(c) == IF c.highestVersion # 0 THEN c.highestVersion ELSE c.version

Event(type, k, value, version) ==
    [type |-> type, key |-> k, value |-> value, version |-> version]

\* A bookmark, and whether it is annotated as the end of the initial events.
Bookmark(version, ends) == [type |-> "Bookmark", version |-> version, ends |-> ends]

\* cacheEvent: with the row before a modification, or the row that a deletion
\* carries (0: nothing is known of it), and whether that is a trimmed entry,
\* which has the labels and no mapped field.
cacheEvent(type, k, value, version, last, trimmed) ==
    [type |-> type, key |-> k, value |-> value, version |-> version,
     last |-> last, trimmed |-> trimmed]

\* matches: a selector picks the rows of every second write.
matches(value) == value # 0 /\ (config.selector = "none" \/ value % 2 = 0)
selected(items) == [k \in Keys |-> IF matches(items[k]) THEN items[k] ELSE 0]

\* mayHaveHeld: what the object of a deletion cannot say counts as a match.
mayHaveHeld(e) ==
    e.last = 0 \/ (e.trimmed /\ config.selector = "fields") \/ matches(e.last)

\* matchedBefore: so does what is not known of the row before a modification,
\* but the fields of a trimmed entry are asked of the row in hand.
matchedBefore(e) ==
    IF e.last # 0 /\ e.trimmed /\ config.selector = "fields" THEN matches(e.value)
    ELSE e.last = 0 \/ matches(e.last)

\* transition: a row that arrives in the selector is an addition and one that
\* leaves it a deletion, at the version of the change; a change to a row outside
\* it is not sent.
sends(e) ==
    \/ matches(e.value)
    \/ e.type = "Deleted" /\ mayHaveHeld(e)
    \/ e.type = "Modified" /\ matchedBefore(e)
transition(e) ==
    IF ~matches(e.value) THEN Event("Deleted", e.key, 0, e.version)
    ELSE Event(IF e.type = "Modified" /\ matchedBefore(e) THEN "Modified" ELSE "Added",
               e.key, e.value, e.version)
transitions(events) ==
    kept([i \in DOMAIN events |-> transition(events[i])],
         {i \in DOMAIN events : sends(events[i])})

\* What a client's store holds after an event.
Received(store, e) ==
    CASE e.type \in {"Added", "Modified"} -> [store EXCEPT ![e.key] = e.value]
      [] e.type = "Deleted"  -> [store EXCEPT ![e.key] = 0]
      [] e.type = "Bookmark" -> store

-----------------------------------------------------------------------------
(* The table, written by anyone. *)

Write(k) ==
    /\ clock < config.maxClock
    /\ clock' = clock + 1
    /\ rows' = [rows EXCEPT ![k] = clock + 1]
    /\ UNCHANGED <<config, tombs, cache, poll, client, faults, seenAt>>

Delete(k) ==
    /\ clock < config.maxClock
    /\ rows[k] # 0
    /\ clock' = clock + 1
    /\ rows' = [rows EXCEPT ![k] = 0]
    /\ tombs' = IF Tombstones = "none" THEN tombs
                ELSE Append(tombs, [key |-> k, at |-> clock + 1,
                                    version |-> CASE Tombstones = "own" -> clock + 1
                                                  [] Tombstones = "last" -> rows[k]
                                                  [] OTHER -> 0,
                                    row |-> IF Described THEN rows[k] ELSE 0])
    /\ UNCHANGED <<config, cache, poll, client, faults, seenAt>>

\* pollSince: the rows past a version; everything when it is empty.
rowsSince(since) == [k \in Keys |-> IF rows[k] > since THEN rows[k] ELSE 0]

\* deletedSince: the tombstones past a version, oldest first.
deletedSince(since) == kept(tombs, {i \in DOMAIN tombs : tombs[i].at > since})

-----------------------------------------------------------------------------
(* A poll. *)

\* What to read: everything when there is no forward query, nothing has been
\* seen yet or a resync is due; otherwise what is past the mark.
PollBegins ==
    /\ poll.pc = "idle"
    /\ \E resync \in {FALSE, config.resyncs /\ Incremental /\ cache.highestVersion # 0} :
           poll' = [IdlePoll EXCEPT
               !.pc = "rows",
               !.full = ~Incremental \/ cache.highestVersion = 0 \/ resync,
               !.since = cache.highestVersion]
    /\ UNCHANGED <<outside, cache, client, faults, seenAt>>

PollReadsRows ==
    /\ poll.pc = "rows"
    /\ poll' = [poll EXCEPT
           !.rows = rowsSince(IF poll.full THEN 0 ELSE poll.since),
           !.asOf = clock,
           !.pc = IF Tombstones # "none" /\ (~poll.full \/ cache.lightweight)
                  THEN "deleted" ELSE "apply"]
    /\ UNCHANGED <<outside, cache, client, faults, seenAt>>

\* The deletion query runs after the rows were read, from the same mark.
PollReadsDeleted ==
    /\ poll.pc = "deleted"
    /\ poll' = [poll EXCEPT !.removed = deletedSince(poll.since), !.pc = "apply"]
    /\ UNCHANGED <<outside, cache, client, faults, seenAt>>

\* Either query fails; nothing is applied.
PollFails ==
    /\ poll.pc \in {"rows", "deleted"}
    /\ poll' = IdlePoll
    /\ UNCHANGED <<outside, cache, client, faults, seenAt>>

\* lightenLocked: the first tombstone that describes its row.
lightenLocked ==
    cache.lightweight \/ (Described /\ poll.removed # <<>>)

\* Mutant: the mark is the newest version the poll read.
markOfThisPoll ==
    IF Versioned THEN Max({poll.rows[k] : k \in Keys}) ELSE 0

\* The mark moves to the newest version among the rows and the tombstones read.
markReached ==
    LET seen == {poll.rows[k] : k \in Keys}
                  \cup {poll.removed[i].version : i \in DOMAIN poll.removed} IN
    IF Versioned
    THEN Max({cache.highestVersion} \cup seen)
    ELSE 0

\* The version an event carries to the client: its row's, or, on the counter,
\* one assigned as it is recorded.
stamp(version) == IF Versioned THEN version ELSE 0

moved(k) == cacheEvent(IF cache.items[k] = 0 THEN "Added" ELSE "Modified",
                       k, poll.rows[k], stamp(poll.rows[k]), cache.items[k], lightenLocked)

\* The rows read that are new or changed, and the rows held that were not read.
present == {k \in Keys : poll.rows[k] # 0 /\ poll.rows[k] # cache.items[k]}
lost == {k \in Keys : poll.rows[k] = 0 /\ cache.items[k] # 0}

\* A row lost leaves with what a tombstone tells of it, or with what is held.
gone(k) ==
    LET told == {i \in DOMAIN poll.removed : poll.removed[i].key = k /\ Described} IN
    IF told = {}
    THEN cacheEvent("Deleted", k, 0, stamp(cache.items[k]), cache.items[k], lightenLocked)
    ELSE LET t == poll.removed[Max(told)]
         IN  cacheEvent("Deleted", k, 0, stamp(t.version), t.row, FALSE)

\* sortByVersion: versioned events come out in version order with deletions last;
\* the others in map order, so in any.
diffOrders ==
    {s \in orderings(present \cup lost) : Versioned =>
        \A i, j \in DOMAIN s : i < j /\ s[j] \in present =>
            s[i] \in present /\ poll.rows[s[i]] <= poll.rows[s[j]]}

\* A full read is diffed against what is held.
fullDiff ==
    LET event(k) == IF k \in lost THEN gone(k) ELSE moved(k) IN
    {[items |-> poll.rows,
      events |-> [i \in DOMAIN order |-> event(order[i])]] : order \in diffOrders}

\* Mutant: a forward read only adds the rows it did not know.
readAddsOnly ==
    [k \in Keys |-> IF poll.rows[k] # 0 /\ cache.items[k] = 0 THEN poll.rows[k]
                    ELSE cache.items[k]]

\* A forward read returns the rows that moved, and the rest of the cache stands.
readForward ==
    [k \in Keys |-> IF poll.rows[k] # 0 THEN poll.rows[k] ELSE cache.items[k]]

\* Mutant: an identity tombstone removes the row it arrived with.
staleOnlyIfOlder(t, held) == Described /\ held # 0 /\ movesForward(t.version, held)

\* A tombstone of a forward read is stale when it describes an older incarnation
\* than the row held, or says nothing of its version and came with the row.
stale(t, held) ==
    IF Described THEN held # 0 /\ movesForward(t.version, held)
    ELSE poll.rows[t.key] # 0

\* The i-th tombstone takes the row that the read left, if none before it did.
takes(i) == ~stale(poll.removed[i], readForward[poll.removed[i].key])
heldAt(i) ==
    IF \E j \in 1..(i - 1) : poll.removed[j].key = poll.removed[i].key /\ takes(j)
    THEN 0 ELSE readForward[poll.removed[i].key]

\* It is news of a row held, or of one not held that was written after the mark
\* the poll started from.
reported(i) ==
    /\ ~stale(poll.removed[i], heldAt(i))
    /\ \/ heldAt(i) # 0
       \/ Described /\ movesForward(poll.since, poll.removed[i].version)

removal(i) ==
    LET t == poll.removed[i]
        held == heldAt(i)
        standsIn == held = 0 \/ (Described /\ lightenLocked) IN
    cacheEvent("Deleted", t.key, 0, IF standsIn THEN t.version ELSE held,
               IF standsIn THEN t.row ELSE held, lightenLocked /\ ~standsIn)

\* A forward read: the rows that moved, in the query's order, then what the
\* deletion query reported, one tombstone after the other.
forwardDiff ==
    LET removals == kept([i \in DOMAIN poll.removed |-> removal(i)],
                         {i \in DOMAIN poll.removed : reported(i)}) IN
    {[items |-> [k \in Keys |->
                    IF \E i \in DOMAIN poll.removed : poll.removed[i].key = k /\ takes(i)
                    THEN 0 ELSE readForward[k]],
      events |-> [i \in DOMAIN order |-> moved(order[i])] \o removals] :
        order \in ascending(present, poll.rows)}

\* The events as the ring records them.  The mark has moved by now, so on a
\* mapped version a step starts and ends at the mark; on the counter every
\* event is a step of its own, and the event carries its value.
recordedSteps(events, mark) ==
    [i \in DOMAIN events |->
        IF mark # 0
        THEN [from |-> mark, version |-> mark, event |-> events[i]]
        ELSE [from |-> cache.version + i - 1, version |-> cache.version + i,
              event |-> [events[i] EXCEPT !.version = cache.version + i]]]

\* Mutant: the ring keeps one step too many.
recordKeepsOneMore(steps) ==
    LET all == cache.history \o steps
        overflow == IF Len(all) > config.historySize + 1 THEN Len(all) - config.historySize - 1 ELSE 0 IN
    [history |-> SubSeq(all, overflow + 1, Len(all)),
     forgotStalled |-> cache.forgotStalled]

\* record: the newest historySize steps stay, and the newest deletion dropped
\* that did not move the version is remembered.
record(steps) ==
    LET all == cache.history \o steps
        overflow == IF config.historySize > 0 /\ Len(all) > config.historySize
                    THEN Len(all) - config.historySize ELSE 0
        stalled == {all[i].version : i \in {j \in 1..overflow :
                       all[j].event.type = "Deleted" /\ all[j].from = all[j].version}} IN
    [history |-> IF config.historySize = 0 THEN cache.history
                 ELSE SubSeq(all, overflow + 1, Len(all)),
     forgotStalled |-> Max({cache.forgotStalled} \cup stalled)]

\* The cache once a diff is applied: the counter takes a value for every event,
\* or one for the poll when the mark is what the cache answers with.
applied(diff) ==
    LET mark == markReached
        steps == recordedSteps(diff.events, mark)
        ring == record(steps) IN
    [items |-> diff.items, highestVersion |-> mark,
     version |-> cache.version +
         IF mark = 0 THEN Len(steps) ELSE IF steps = <<>> THEN 0 ELSE 1,
     epoch |-> cache.epoch, history |-> ring.history,
     forgotStalled |-> ring.forgotStalled, polled |-> TRUE,
     lightweight |-> lightenLocked]

\* broadcast: the events as a client is sent them, then the bookmark if one is due.
broadcast(diff, bookmark) ==
    LET steps == recordedSteps(diff.events, markReached) IN
    transitions([i \in DOMAIN steps |-> steps[i].event]) \o
        IF bookmark
        THEN <<Bookmark(currentVersion(applied(diff)), FALSE)>>
        ELSE <<>>

\* applyLocked and broadcast.
PollApplies ==
    /\ poll.pc = "apply"
    /\ \E diff \in IF poll.full THEN fullDiff ELSE forwardDiff,
          bookmark \in {FALSE, \A c \in Clients : Len(client[c].queue) < MaxQueue} :
        /\ cache' = applied(diff)
        /\ client' = [c \in Clients |->
               IF client[c].pc \in Streaming
               THEN [client[c] EXCEPT !.queue = client[c].queue \o broadcast(diff, bookmark)]
               ELSE client[c]]
    /\ poll' = IdlePoll
    /\ seenAt' = poll.asOf
    /\ UNCHANGED <<outside, faults>>

-----------------------------------------------------------------------------
(* A client: an informer that syncs, streams, and resumes from its version.  *)

\* The collection as Added events, and the bookmark that ends it.
initialEvents(items, version) ==
    LET order == CHOOSE s \in orderings({k \in Keys : matches(items[k])}) : TRUE IN
    Append([i \in DOMAIN order |->
               Event("Added", order[i], items[order[i]], stamp(items[order[i]]))],
           Bookmark(version, TRUE))

\* Watch with sendInitialEvents: the watcher is registered, and its collection
\* is what the cache holds ...
WatchInitial(c) ==
    /\ ~config.byListing
    /\ cache.polled
    /\ ~cache.lightweight
    /\ client[c].pc = "new"
    /\ client' = [client EXCEPT ![c] =
           [NewClient EXCEPT !.pc = "starting",
                !.initial = initialEvents(cache.items, currentVersion(cache))]]
    /\ UNCHANGED <<outside, cache, poll, faults, seenAt>>

\* ... or, when it holds only keys and versions, the collection read from the
\* table once the watcher is registered, under the version of that moment.
WatchSnapshot(c) ==
    /\ ~config.byListing
    /\ cache.lightweight
    /\ client[c].pc = "new"
    /\ client' = [client EXCEPT ![c] =
           [NewClient EXCEPT !.pc = "snapshotting", !.at = currentVersion(cache)]]
    /\ UNCHANGED <<outside, cache, poll, faults, seenAt>>

SnapshotRead(c) ==
    /\ client[c].pc = "snapshotting"
    /\ client' = [client EXCEPT ![c] =
           [@ EXCEPT !.pc = "starting", !.at = 0,
                     !.initial = initialEvents(rows, client[c].at)]]
    /\ UNCHANGED <<outside, cache, poll, faults, seenAt>>

\* List takes its version from the cache first (versionFor)...
ListStamps(c) ==
    /\ config.byListing
    /\ cache.polled
    /\ client[c].pc = "new"
    /\ client' = [client EXCEPT ![c] =
           [NewClient EXCEPT !.pc = "listing", !.at = currentVersion(cache)]]
    /\ UNCHANGED <<outside, cache, poll, faults, seenAt>>

\* Mutant: a list takes its version when it has its rows.
ListReadsThenStamps(c) ==
    /\ client[c].pc = "listing"
    /\ \E read \in {rows, client[c].read} :
           client' = [client EXCEPT ![c].pc = "offline", ![c].store = selected(read),
                                    ![c].at = currentVersion(cache)]
    /\ UNCHANGED <<outside, cache, poll, faults, seenAt>>

\* ... and reads the rows afterwards.
ListReads(c) ==
    /\ client[c].pc = "listing"
    /\ client' = [client EXCEPT ![c].pc = "offline", ![c].store = selected(rows)]
    /\ UNCHANGED <<outside, cache, poll, faults, seenAt>>

\* replayable: may the ring account for everything after a version?
replayable(version) ==
    /\ version # currentVersion(cache) =>
           /\ version < currentVersion(cache)
           /\ cache.history # <<>>
           /\ cache.history[1].from <= version
    /\ cache.forgotStalled # 0 => version > cache.forgotStalled

\* Mutant: a deletion that left the version where it was is not replayed.
missedPastOnly(version) ==
    kept([i \in DOMAIN cache.history |-> cache.history[i].event],
         {i \in DOMAIN cache.history : movesForward(version, cache.history[i].version)})

\* The events to replay: deletions recorded at this very version, which it
\* cannot be told whether the client saw, then all that moved past it.
missedSince(version) ==
    LET past == {i \in DOMAIN cache.history :
                    movesForward(version, cache.history[i].version)}
        start == IF past = {} THEN Len(cache.history) + 1 ELSE Min(past)
        stalledDeletions == {i \in 1..(start - 1) :
                                /\ cache.history[i].event.type = "Deleted"
                                /\ cache.history[i].from = version
                                /\ cache.history[i].version = version} IN
    kept([i \in DOMAIN cache.history |-> cache.history[i].event],
         stalledDeletions \cup (start..Len(cache.history)))

\* A version an earlier counter handed out.
fromAnotherEpoch(version) == cache.highestVersion = 0 /\ version < cache.epoch

hasDatabaseHistory == Incremental /\ Tombstones # "none"

\* Watch from a version the ring can account for: the watcher is registered, and
\* its replay is at hand.
Resume(c) ==
    /\ client[c].pc = "offline"
    /\ cache.polled
    /\ ~fromAnotherEpoch(client[c].at)
    /\ replayable(client[c].at)
    /\ client' = [client EXCEPT ![c].pc = "resuming",
                                ![c].initial = transitions(missedSince(client[c].at))]
    /\ UNCHANGED <<outside, cache, poll, faults, seenAt>>

\* Watch from a version it cannot: 410, and the client starts over.
Expire(c) ==
    /\ client[c].pc = "offline"
    /\ cache.polled
    /\ \/ fromAnotherEpoch(client[c].at)
       \/ (~replayable(client[c].at) /\ ~hasDatabaseHistory)
    /\ client' = [client EXCEPT ![c] = NewClient]
    /\ UNCHANGED <<outside, cache, poll, faults, seenAt>>

\* Watch from a version only the database can: the watcher is registered ...
ResumeFromDatabase(c) ==
    /\ client[c].pc = "offline"
    /\ cache.polled
    /\ ~fromAnotherEpoch(client[c].at)
    /\ ~replayable(client[c].at)
    /\ hasDatabaseHistory
    /\ client' = [client EXCEPT ![c].pc = "replaying"]
    /\ UNCHANGED <<outside, cache, poll, faults, seenAt>>

\* ... replayFromDatabase reads the rows past its version ...
ResumeFromRows(c) ==
    /\ client[c].pc = "replaying"
    /\ client' = [client EXCEPT ![c].pc = "replayed",
                                ![c].read = rowsSince(client[c].at)]
    /\ UNCHANGED <<outside, cache, poll, faults, seenAt>>

\* tombstone: the deletion of a row, as the cache holds it if it does.
tombstone(t) ==
    LET held == cache.items[t.key]
    IN  IF cache.lightweight \/ held = 0
        THEN cacheEvent("Deleted", t.key, 0, t.version, t.row, FALSE)
        ELSE cacheEvent("Deleted", t.key, 0, held, held, FALSE)

\* ... and then the tombstones past it, leaving out the names the rows still
\* carry.
ResumeFromTombstones(c) ==
    LET read == client[c].read
        removed == kept(tombs, {i \in DOMAIN tombs :
                                   tombs[i].at > client[c].at /\ read[tombs[i].key] = 0})
        deletions == [i \in DOMAIN removed |-> tombstone(removed[i])] IN
    /\ client[c].pc = "replayed"
    /\ \E order \in ascending({k \in Keys : read[k] # 0}, read) :
        LET changes == [i \in DOMAIN order |->
                cacheEvent("Modified", order[i], read[order[i]], read[order[i]], 0, FALSE)] IN
        client' = [client EXCEPT ![c] = [@ EXCEPT
            !.pc = "resuming", !.read = NoRows,
            !.initial = transitions(changes \o deletions)]]
    /\ UNCHANGED <<outside, cache, poll, faults, seenAt>>

\* prepend: the initial events go in front of what polls have queued since the
\* watcher was registered, all but the events that run, which drains the queue
\* since then, has taken already.
Prepend(c) ==
    /\ client[c].pc \in Prepending
    /\ \E taken \in 0..Len(client[c].queue) :
        client' = [client EXCEPT ![c] = [@ EXCEPT
            !.pc = IF client[c].pc = "starting" THEN "syncing" ELSE "online",
            !.queue = SubSeq(client[c].queue, 1, taken) \o client[c].initial \o
                          SubSeq(client[c].queue, taken + 1, Len(client[c].queue)),
            !.initial = <<>>,
            !.overtaken = client[c].overtaken \/
                              (taken > 0 /\ client[c].initial # <<>>)]]
    /\ UNCHANGED <<outside, cache, poll, faults, seenAt>>

\* A query Watch makes once the watcher is registered fails, a replay returns
\* too much, or the initial events find no room: the watcher is taken back out,
\* and the client starts over.
WatchRefused(c) ==
    /\ client[c].pc \in Streaming \ Served
    /\ client' = [client EXCEPT ![c] = NewClient]
    /\ UNCHANGED <<outside, cache, poll, faults, seenAt>>

\* The client takes one event, and with it the version it would resume from: it
\* has none before the bookmark that ends its initial events, nor after a
\* tombstone that records none, and starts over if it is cut off there.
Deliver(c) ==
    LET e == Head(client[c].queue)
        synced == client[c].pc = "online" \/ (e.type = "Bookmark" /\ e.ends) IN
    /\ client[c].pc \in Served
    /\ client[c].queue # <<>>
    /\ client' = [client EXCEPT ![c] =
           [@ EXCEPT !.pc = IF synced THEN "online" ELSE "syncing",
                     !.at = IF synced THEN e.version ELSE 0,
                     !.store = Received(client[c].store, e),
                     !.queue = Tail(client[c].queue)]]
    /\ UNCHANGED <<outside, cache, poll, faults, seenAt>>

\* A client without its stream: what was queued for it is gone, and without a
\* version it starts over.
disconnected(u) ==
    IF u.at = 0 \/ u.pc = "snapshotting" THEN NewClient
    ELSE [u EXCEPT !.pc = IF u.pc = "listing" THEN "listing" ELSE "offline",
                   !.queue = <<>>, !.initial = <<>>, !.read = NoRows]

\* The stream ends: the client left, or fell behind and was disconnected.
Cut(c) ==
    /\ faults.cuts < config.maxCuts
    /\ client[c].pc \in Streaming
    /\ faults' = [faults EXCEPT !.cuts = @ + 1]
    /\ client' = [client EXCEPT ![c] = disconnected(client[c])]
    /\ UNCHANGED <<outside, cache, poll, seenAt>>

\* A counter starts from the wall clock, past whatever an earlier one can have
\* reached; the nearest such value is the hardest to tell apart.
nextEpoch == IF Versioned THEN 1 ELSE cache.version + 1

\* The server restarts: the cache, its ring and every stream are gone, the
\* table and what the clients hold are not.
Restart ==
    /\ faults.restarts < config.maxRestarts
    /\ faults' = [faults EXCEPT !.restarts = @ + 1]
    /\ cache' = FreshCache(nextEpoch)
    /\ poll' = IdlePoll
    /\ client' = [c \in Clients |-> disconnected(client[c])]
    /\ seenAt' = 0
    /\ UNCHANGED outside

-----------------------------------------------------------------------------
PollStep ==
    \/ PollBegins
    \/ PollReadsRows
    \/ PollReadsDeleted
    \/ PollFails
    \/ PollApplies

ClientStep(c) ==
    \/ WatchInitial(c)
    \/ WatchSnapshot(c)
    \/ SnapshotRead(c)
    \/ ListStamps(c)
    \/ ListReads(c)
    \/ Resume(c)
    \/ Expire(c)
    \/ ResumeFromDatabase(c)
    \/ ResumeFromRows(c)
    \/ ResumeFromTombstones(c)
    \/ Prepend(c)
    \/ WatchRefused(c)
    \/ Deliver(c)
    \/ Cut(c)

Next ==
    \/ \E k \in Keys : Write(k) \/ Delete(k)
    \/ PollStep
    \/ \E c \in Clients : ClientStep(c)
    \/ Restart

Spec == Init /\ [][Next]_vars

-----------------------------------------------------------------------------
(* Properties. *)

Rows == [Keys -> Nat]
ChangeTypes == {"Added", "Modified", "Deleted"}
Tombstone == [key : Keys, at : Nat, version : Nat, row : Nat]
CacheEvent == [type : ChangeTypes, key : Keys, value : Nat, version : Nat,
               last : Nat, trimmed : BOOLEAN]
Step == [from : Nat, version : Nat, event : CacheEvent]
WatchEvent == [type : ChangeTypes, key : Keys, value : Nat, version : Nat]
                  \cup [type : {"Bookmark"}, version : Nat, ends : BOOLEAN]
Cache == [items : Rows, highestVersion : Nat, version : Nat, epoch : Nat,
          history : Seq(Step), forgotStalled : Nat, polled : BOOLEAN,
          lightweight : BOOLEAN]
Poll == [pc : {"idle", "rows", "deleted", "apply"}, full : BOOLEAN, since : Nat,
         rows : Rows, removed : Seq(Tombstone), asOf : Nat]
Client == [pc : {"new", "listing", "offline"} \cup Streaming, store : Rows, at : Nat,
           queue : Seq(WatchEvent), initial : Seq(WatchEvent), read : Rows,
           overtaken : BOOLEAN]

TypeOK ==
    /\ config \in Configs
    /\ rows \in Rows
    /\ tombs \in Seq(Tombstone)
    /\ clock \in config.firstStamp..config.maxClock
    /\ cache \in Cache
    /\ Len(cache.history) <= config.historySize
    /\ poll \in Poll
    /\ client \in [Clients -> Client]
    /\ faults \in [cuts : 0..config.maxCuts, restarts : 0..config.maxRestarts]
    /\ seenAt \in Nat

\* What a client will hold once it has taken everything queued for it.
Outcome(c) ==
    [k \in Keys |->
        LET about == {i \in DOMAIN client[c].queue :
                         client[c].queue[i].type # "Bookmark" /\ client[c].queue[i].key = k}
        IN  IF about = {} THEN client[c].store[k] ELSE client[c].queue[Max(about)].value]

\* The last poll applied read everything there is, and the cache has it.
CaughtUp == cache.polled /\ seenAt = clock /\ cache.items = rows

\* A client's initial events are overtaken when they are prepended behind an
\* event that run had taken: they are to come first ("The client then sees the
\* collection and then what happened to it, in that order", watch.go, prepend),
\* but Watch registers the watcher before it reads, copies and prepends them.  A
\* client overtaken once can be left with a row as it was earlier until it starts
\* over, and the properties below except it.
InOrder(c) == client[c].pc \in Served /\ ~client[c].overtaken

\* Whenever the cache has caught up with the table, every client it admitted,
\* from the start, from the ring or from the database, will hold exactly the
\* rows it selects once its queue drains, unless its initial events were
\* overtaken: no change, no removal and no departure from a selector was lost to
\* a cut between two events, to the ring's trimming, to a stalled version or to
\* polls between registration, queries and prepend (watch.go, applyLocked,
\* record, replayable, transition and Watch).  Selectors over tombstones that
\* describe their row are the subject of NoRowKept.
Converged ==
    CaughtUp /\ ~config.byListing /\ ~(Described /\ config.selector # "none") =>
        \A c \in Clients : InOrder(c) => Outcome(c) = selected(rows)

\* No client goes on holding a row that is gone: "a deletion the watcher never
\* needed is one an informer discards, and one it did need and was not sent is a
\* row it keeps forever" (watch.go, mayHaveHeld).  Clients whose initial events
\* were overtaken are excepted here too.
NoRowKept ==
    CaughtUp /\ ~config.byListing =>
        \A c \in Clients, k \in Keys :
            InOrder(c) /\ rows[k] = 0 => Outcome(c)[k] = 0

\* The same for the rows selected, of every client whose initial events were not
\* overtaken, the ones that list before they watch included: a list takes its
\* version before it reads its rows, so what it read too early a watch from its
\* version repeats (rest.go, List).
RowsArrive ==
    CaughtUp =>
        \A c \in Clients, k \in Keys :
            client[c].pc = "online" /\ InOrder(c) /\ matches(rows[k]) =>
                Outcome(c)[k] = rows[k]

\* A poll that read everything written so far leaves the cache equal to the
\* table, when a poll can see deletions at all: by reading every row, or by
\* asking for tombstones, here ones that do not move the mark (watch.go,
\* applyLocked).
CacheTracks ==
    cache.polled /\ seenAt = clock /\ (~Incremental \/ Tombstones = "identity") =>
        cache.items = rows

\* Everything at or below a mark that only rows move has been seen: a forward
\* read, which returns only what is past the mark, cannot be what a row is
\* waiting for (watch.go, applyLocked's mark).
NothingBelowMark ==
    Incremental /\ ~Described =>
        \A k \in Keys : rows[k] # 0 /\ rows[k] <= cache.highestVersion =>
            cache.items[k] = rows[k]

\* The version a cache answers with never goes back while it lives, so neither
\* does a bookmark or a list's stamp (watch.go, currentVersionLocked).
VersionMonotonic ==
    [][faults'.restarts = faults.restarts =>
           currentVersion(cache) <= currentVersion(cache)']_vars
=============================================================================
