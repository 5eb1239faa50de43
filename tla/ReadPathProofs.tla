--------------------------- MODULE ReadPathProofs ---------------------------
(* Proofs about ReadPath for every set of namespaces, reads, requests and    *)
(* flights.                                                                  *)
EXTENDS ReadPath, TLAPS

LEMMA IdleTypes ==
    /\ Zero \in View
    /\ IdleReader \in Reader
    /\ IdleWriter \in Writer
    /\ UnusedFlight \in Flight
    /\ IdlePoll \in Poll
<1>1. Zero \in View
    BY DEF Zero, View
<1>2. PollKey \in Keys /\ ClusterWide \in Scopes
    BY ScopeAssumption DEF Scopes
<1>3. IdleReader \in Reader
    BY <1>1, <1>2 DEF IdleReader, Reader, ReaderSteps
<1>4. IdleWriter \in Writer
    BY <1>1, <1>2 DEF IdleWriter, Writer, WriterSteps
<1>5. UnusedFlight \in Flight
    BY <1>1, <1>2 DEF UnusedFlight, Flight, FlightSteps, Pools
<1>6. IdlePoll \in Poll
    BY <1>1 DEF IdlePoll, Poll
<1> QED BY <1>1, <1>3, <1>4, <1>5, <1>6

LEMMA InvalidateTypes ==
    ASSUME TypeOK, NEW ss, invalidateNamespaces(ss)
    PROVE  /\ generation' \in Nat
           /\ invalidatedAt' \in [Namespaces -> Nat]
           /\ allInvalidatedAt' \in Nat
           /\ entries' \in [Keys -> Entry \cup {NoEntry}]
<1>1. CASE ClusterWide \in ss
    BY <1>1, IdleTypes DEF TypeOK, invalidateNamespaces, View
<1>2. CASE ClusterWide \notin ss
    <2>1. generation' = generation + 1 /\ allInvalidatedAt' = allInvalidatedAt
        BY <1>2 DEF invalidateNamespaces
    <2>2. invalidatedAt' \in [Namespaces -> Nat]
        BY <1>2 DEF invalidateNamespaces, TypeOK
    <2>3. entries' \in [Keys -> Entry \cup {NoEntry}]
        BY <1>2 DEF invalidateNamespaces, TypeOK
    <2> QED BY <2>1, <2>2, <2>3 DEF TypeOK
<1> QED BY <1>1, <1>2

LEMMA FlightTypes ==
    ASSUME TypeOK, NEW k \in Keys, NEW f \in Flights, join(k, f) \/ start(k, f)
    PROVE  /\ inflight' \in [Keys \X Pools -> Flights \cup {NoFlight}]
           /\ flight' \in [Flights -> Flight]
<1>1. CASE join(k, f)
    BY <1>1 DEF join, flights, TypeOK
<1>2. CASE start(k, f)
    <2>1. poolFor \in Pools
        BY DEF poolFor, Pools
    <2>2. [step |-> "running", key |-> k, pool |-> poolFor, view |-> Zero,
           detached |-> FALSE] \in Flight
        BY <2>1, IdleTypes DEF Flight, FlightSteps
    <2> QED BY <1>2, <2>1, <2>2 DEF start, TypeOK
<1> QED BY <1>1, <1>2

LEMMA FinishTypes ==
    ASSUME TypeOK, NEW f \in Flights, finish(f)
    PROVE  inflight' \in [Keys \X Pools -> Flights \cup {NoFlight}]
BY DEF finish, TypeOK

\* Every variable keeps its type in every step.
LEMMA TypeStep == TypeOK /\ [Next]_vars => TypeOK'
<1> SUFFICES ASSUME TypeOK, [Next]_vars PROVE TypeOK'
    OBVIOUS
<1> USE DEF database, cache, flights, polling
<1>1. ASSUME NEW r \in Readers, ReadStep(r) PROVE TypeOK'
    <2>0. reader[r] \in Reader
        BY DEF TypeOK
    <2>1. ASSUME NEW k \in Keys, BeginRead(r, k) PROVE TypeOK'
        BY <2>0, <2>1 DEF TypeOK, BeginRead, Reader, ReaderSteps
    <2>2. CASE CacheHit(r)
        <3>1. entries[reader[r].key].view \in View
            BY <2>0, <2>2 DEF CacheHit, TypeOK, Reader, Entry
        <3> QED BY <2>0, <2>2, <3>1 DEF TypeOK, CacheHit, Reader, ReaderSteps
    <2>3. CASE CacheMiss(r)
        BY <2>0, <2>3 DEF TypeOK, CacheMiss, Reader, ReaderSteps
    <2>4. CASE TakeEpoch(r)
        BY <2>0, <2>4 DEF TypeOK, TakeEpoch, Reader, ReaderSteps
    <2>5. CASE TakeVersion(r)
        <3>1. PICK stamp \in {polled, Zero} :
                  reader' = [reader EXCEPT ![r] =
                      [@ EXCEPT !.pc = "query", !.stamp = stamp]]
            BY <2>5 DEF TakeVersion
        <3>2. stamp \in View
            BY <3>1, IdleTypes DEF TypeOK
        <3>3. reader' \in [Readers -> Reader]
            BY <2>0, <3>1, <3>2 DEF TypeOK, Reader, ReaderSteps
        <3> QED BY <2>5, <3>3 DEF TypeOK, TakeVersion
    <2>6. ASSUME NEW f \in Flights, JoinFlight(r, f) PROVE TypeOK'
        BY <2>0, <2>6, FlightTypes DEF TypeOK, JoinFlight, Reader, ReaderSteps
    <2>7. ASSUME NEW f \in Flights, StartFlight(r, f) PROVE TypeOK'
        BY <2>0, <2>7, FlightTypes DEF TypeOK, StartFlight, Reader, ReaderSteps
    <2>8. CASE GiveUp(r)
        BY <2>8, IdleTypes DEF TypeOK, GiveUp
    <2>9. CASE Store(r)
        <3>1. [view |-> reader[r].view] \in Entry
            BY <2>0 DEF Reader, Entry
        <3>2. entries' \in [Keys -> Entry \cup {NoEntry}]
            BY <2>9, <3>1 DEF Store, TypeOK
        <3> QED BY <2>0, <2>9, <3>2 DEF TypeOK, Store, Reader, ReaderSteps
    <2>10. CASE Reply(r)
        BY <2>10, IdleTypes DEF TypeOK, Reply
    <2> QED BY <1>1, <2>1, <2>2, <2>3, <2>4, <2>5, <2>6, <2>7, <2>8, <2>9, <2>10
            DEF ReadStep
<1>2. ASSUME NEW f \in Flights, FlightStep(f) PROVE TypeOK'
    <2>0. flight[f] \in Flight
        BY DEF TypeOK
    <2>1. CASE FlightReads(f)
        BY <2>0, <2>1 DEF TypeOK, FlightReads, Flight, FlightSteps
    <2>2. CASE FlightFallsBack(f)
        BY <2>0, <2>2 DEF TypeOK, FlightFallsBack, Flight, FlightSteps
    <2>3. CASE FlightFinishes(f)
        <3>1. inflight' \in [Keys \X Pools -> Flights \cup {NoFlight}]
            BY <2>3, FinishTypes DEF FlightFinishes
        <3>2. flight' \in [Flights -> Flight]
            BY <2>3, IdleTypes DEF FlightFinishes, release, TypeOK
        <3>3. poll' \in Poll
            BY <2>0, <2>3 DEF FlightFinishes, release, TypeOK, Poll, Flight
        <3>4. ASSUME NEW r \in Readers
              PROVE  [reader[r] EXCEPT !.pc = "store", !.flight = NoFlight,
                          !.view = flight[f].view] \in Reader
            <4>1. reader[r] \in Reader /\ flight[f].view \in View
                BY <2>0 DEF TypeOK, Flight
            <4> QED BY <4>1 DEF Reader, ReaderSteps
        <3>5. reader' \in [Readers -> Reader]
            BY <2>3, <3>4 DEF FlightFinishes, release, TypeOK
        <3> QED BY <2>3, <3>1, <3>2, <3>3, <3>5 DEF FlightFinishes, TypeOK
    <2>4. CASE FlightFails(f)
        <3>1. inflight' \in [Keys \X Pools -> Flights \cup {NoFlight}]
            BY <2>4, FinishTypes DEF FlightFails
        <3> QED BY <2>4, <3>1, IdleTypes DEF FlightFails, release, TypeOK
    <2> QED BY <1>2, <2>1, <2>2, <2>3, <2>4 DEF FlightStep
<1>3. ASSUME NEW w \in Writers, WriteStep(w) PROVE TypeOK'
    <2>0. writer[w] \in Writer
        BY DEF TypeOK
    <2>1. ASSUME NEW s \in Scopes, BeginWrite(w, s) PROVE TypeOK'
        BY <2>0, <2>1 DEF TypeOK, BeginWrite, Writer, WriterSteps
    <2>2. CASE Commit(w)
        <3>1. [n \in Namespaces |-> IF n \in Covers(writer[w].scope)
                                    THEN primary[n] + 1 ELSE primary[n]] \in View
            BY DEF TypeOK, View
        <3> QED BY <2>0, <2>2, <3>1 DEF TypeOK, Commit, Writer, WriterSteps
    <2>3. CASE WriteFails(w)
        BY <2>0, <2>3, IdleTypes DEF TypeOK, WriteFails, Writer, WriterSteps
    <2>4. CASE Detach(w)
        <3>1. inflight' \in [Keys \X Pools -> Flights \cup {NoFlight}]
            BY <2>4 DEF TypeOK, Detach
        <3>2. \A f \in Flights : [flight[f] EXCEPT !.detached = TRUE] \in Flight
            BY DEF TypeOK, Flight
        <3>3. flight' \in [Flights -> Flight]
            BY <2>4, <3>2 DEF TypeOK, Detach
        <3>4. writer' \in [Writers -> Writer]
            BY <2>0, <2>4 DEF TypeOK, Detach, Writer, WriterSteps
        <3> QED BY <2>4, <3>1, <3>3, <3>4 DEF TypeOK, Detach
    <2>5. CASE Invalidate(w)
        <3>1. Newer(settled, writer[w].wrote, writer[w].scope) \in View
            BY <2>0 DEF Newer, TypeOK, View, Writer
        <3>2. writer' \in [Writers -> Writer]
            BY <2>0, <2>5 DEF TypeOK, Invalidate, Writer, WriterSteps
        <3> QED BY <2>5, <3>1, <3>2, InvalidateTypes DEF TypeOK, Invalidate
    <2>6. CASE ReadBack(w)
        BY <2>0, <2>6 DEF TypeOK, ReadBack, freshRead, Writer, WriterSteps
    <2>7. CASE WriteReplies(w)
        BY <2>7, IdleTypes DEF TypeOK, WriteReplies
    <2> QED BY <1>3, <2>1, <2>2, <2>3, <2>4, <2>5, <2>6, <2>7 DEF WriteStep
<1>4. ASSUME NEW n \in Namespaces, ExternalWrite(n) PROVE TypeOK'
    BY <1>4 DEF TypeOK, ExternalWrite, View
<1>5. ASSUME NEW n \in Namespaces, Replicate(n) PROVE TypeOK'
    BY <1>5 DEF TypeOK, Replicate, View
<1>6. CASE ReplicaRetried
    BY <1>6 DEF TypeOK, ReplicaRetried
<1>7. ASSUME NEW f \in Flights, PollReads(f) PROVE TypeOK'
    <2>1. poll' \in Poll
        BY <1>7 DEF TypeOK, PollReads, Poll
    <2> QED BY <1>7, <2>1, FlightTypes, ScopeAssumption DEF TypeOK, PollReads
<1>8. CASE PollApplies
    <2>1. polled' \in View /\ poll' \in Poll
        BY <1>8, IdleTypes DEF TypeOK, PollApplies, Poll
    <2>2. /\ generation' \in Nat
          /\ invalidatedAt' \in [Namespaces -> Nat]
          /\ allInvalidatedAt' \in Nat
          /\ entries' \in [Keys -> Entry \cup {NoEntry}]
        BY <1>8, InvalidateTypes DEF TypeOK, PollApplies, changedNamespaces
    <2> QED BY <1>8, <2>1, <2>2 DEF TypeOK, PollApplies
<1>9. CASE UNCHANGED vars
    BY <1>9 DEF TypeOK, vars
<1> QED BY <1>1, <1>2, <1>3, <1>4, <1>5, <1>6, <1>7, <1>8, <1>9 DEF Next

\* The state of the read path stays well formed: TypeOK holds in every state
\* the read, write, flight and poll steps can reach.
THEOREM TypeCorrect == Spec => []TypeOK
<1>1. Init => TypeOK
    <2> SUFFICES ASSUME Init PROVE TypeOK
        OBVIOUS
    <2> USE DEF Init
    <2>1. /\ primary \in View /\ replica \in View /\ polled \in View
          /\ settled \in View /\ invalidatedAt \in [Namespaces -> Nat]
        BY IdleTypes DEF View
    <2>2. entries \in [Keys -> Entry \cup {NoEntry}]
        OBVIOUS
    <2>3. inflight \in [Keys \X Pools -> Flights \cup {NoFlight}]
        OBVIOUS
    <2>4. flight \in [Flights -> Flight]
        BY IdleTypes
    <2>5. reader \in [Readers -> Reader] /\ writer \in [Writers -> Writer]
        BY IdleTypes
    <2> QED BY <2>1, <2>2, <2>3, <2>4, <2>5, IdleTypes DEF TypeOK
<1> QED BY <1>1, TypeStep, PTL DEF Spec

-----------------------------------------------------------------------------
(* Invalidation. *)

\* An invalidation makes stale every epoch taken before it, for each read whose
\* namespaces it touches, and never makes a stale epoch good again.
LEMMA InvalidateStales ==
    ASSUME TypeOK, EpochsBehind,
           NEW ss \in SUBSET Scopes, ss # {}, invalidateNamespaces(ss),
           NEW s \in Scopes, NEW since \in Nat, since <= generation
    PROVE  /\ staleLocked(s, since) => staleLocked(s, since)'
           /\ (\E t \in ss : Covers(s) \cap Covers(t) # {}) => staleLocked(s, since)'
<1>1. CASE s = ClusterWide
    BY <1>1 DEF invalidateNamespaces, staleLocked, TypeOK
<1>2. CASE s # ClusterWide
    <2>1. s \in Namespaces /\ Covers(s) = {s}
        BY <1>2 DEF Scopes, Covers
    <2>2. CASE ClusterWide \in ss
        BY <1>2, <2>2 DEF invalidateNamespaces, staleLocked, TypeOK
    <2>3. CASE ClusterWide \notin ss
        <3>1. invalidatedAt'[s] = IF s \in ss THEN generation + 1 ELSE invalidatedAt[s]
            BY <2>1, <2>3 DEF invalidateNamespaces
        <3>2. allInvalidatedAt' = allInvalidatedAt
            BY <2>3 DEF invalidateNamespaces
        <3>3. staleLocked(s, since) => staleLocked(s, since)'
            BY <1>2, <2>1, <3>1, <3>2 DEF staleLocked, TypeOK
        <3>4. ASSUME NEW t \in ss, Covers(s) \cap Covers(t) # {}
              PROVE  staleLocked(s, since)'
            <4>1. s = t
                BY <2>1, <2>3, <3>4 DEF Covers
            <4> QED BY <1>2, <2>1, <3>1, <4>1 DEF staleLocked, TypeOK
        <3> QED BY <3>3, <3>4
    <2> QED BY <2>2, <2>3
<1> QED BY <1>1, <1>2

\* An invalidation keeps only entries of reads whose namespaces it leaves alone.
LEMMA InvalidateDrops ==
    ASSUME TypeOK, NEW ss \in SUBSET Scopes, invalidateNamespaces(ss),
           NEW k \in Keys, entries'[k] # NoEntry
    PROVE  /\ entries[k] # NoEntry
           /\ entries'[k] = entries[k]
           /\ \A t \in ss : Covers(ScopeOf[k]) \cap Covers(t) = {}
<1>1. ClusterWide \notin ss
    BY DEF invalidateNamespaces
<1>2. /\ ScopeOf[k] \notin ss
      /\ ScopeOf[k] # ClusterWide
      /\ entries'[k] = entries[k]
    BY <1>1 DEF invalidateNamespaces
<1>3. ASSUME NEW t \in ss PROVE Covers(ScopeOf[k]) \cap Covers(t) = {}
    BY <1>1, <1>2 DEF Covers
<1> QED BY <1>2, <1>3

\* The generation only grows, and keeps every epoch behind it.
LEMMA InvalidateEpochs ==
    ASSUME TypeOK, EpochsBehind, NEW ss, invalidateNamespaces(ss),
           UNCHANGED reader
    PROVE  EpochsBehind'
<1>1. generation' = generation + 1
    BY DEF invalidateNamespaces
<1>2. allInvalidatedAt' <= generation'
    BY DEF invalidateNamespaces, TypeOK, EpochsBehind
<1>3. ASSUME NEW n \in Namespaces PROVE invalidatedAt'[n] <= generation'
    BY DEF invalidateNamespaces, TypeOK, EpochsBehind, Zero
<1>4. ASSUME NEW r \in Readers PROVE reader'[r].since <= generation'
    BY <1>1 DEF TypeOK, EpochsBehind, Reader
<1> QED BY <1>2, <1>3, <1>4 DEF EpochsBehind

\* A finished write raises the promise only inside its own scope.
LEMMA NewerFacts ==
    ASSUME NEW v \in View, NEW u \in View, NEW s \in Scopes
    PROVE  \A n \in Namespaces :
               /\ v[n] <= Newer(v, u, s)[n]
               /\ n \notin Covers(s) => Newer(v, u, s)[n] = v[n]
               /\ Newer(v, u, s)[n] = v[n]
                    \/ (n \in Covers(s) /\ Newer(v, u, s)[n] = u[n])
<1> TAKE n \in Namespaces
<1>1. v[n] \in Nat /\ u[n] \in Nat
    BY DEF View
<1>2. Newer(v, u, s)[n] = IF n \in Covers(s) /\ u[n] > v[n] THEN u[n] ELSE v[n]
    BY DEF Newer
<1>3. ASSUME NEW x, x = IF n \in Covers(s) /\ u[n] > v[n] THEN u[n] ELSE v[n]
      PROVE  /\ v[n] <= x
             /\ n \notin Covers(s) => x = v[n]
             /\ x = v[n] \/ (n \in Covers(s) /\ x = u[n])
    BY <1>1, <1>3
<1> QED BY <1>2, <1>3

LEMMA CoversNamespaces ==
    \A s \in Scopes : Covers(s) \subseteq Namespaces
BY DEF Covers, Scopes

-----------------------------------------------------------------------------
(* The steps of a read. *)

LEMMA ReadStepFresh ==
    ASSUME ~HasReplica, TypeOK, TypeOK', Fresh, NEW r \in Readers, ReadStep(r)
    PROVE  Fresh'
<1> USE DEF Fresh, database, cache, flights, polling
<1>0. /\ reader[r] \in Reader
      /\ reader[r].key \in Keys
      /\ ScopeOf[reader[r].key] \in Scopes
      /\ PollKey \in Keys
    BY ScopeAssumption DEF TypeOK, Reader
<1>a. ASSUME UNCHANGED <<primary, generation, invalidatedAt, allInvalidatedAt, settled, writer>>,
             \A p \in Readers \ {r} : reader'[p] = reader[p],
             reader'[r].since \in Nat, reader'[r].since <= generation,
             \A n \in Namespaces : reader'[r].floor[n] <= settled[n]
      PROVE  EpochsBehind' /\ PromisesKept'
    <2>1. EpochsBehind'
        BY <1>a DEF EpochsBehind
    <2>2. PromisesKept'
        BY <1>a DEF PromisesKept
    <2> QED BY <2>1, <2>2
<1>b. \A n \in Namespaces : Zero[n] <= settled[n] /\ reader[r].floor[n] <= settled[n]
    BY DEF Zero, PromisesKept, TypeOK, View
<1>c. reader[r].since \in Nat /\ reader[r].since <= generation
    BY <1>0 DEF EpochsBehind, Reader
<1>1. ASSUME NEW k \in Keys, BeginRead(r, k) PROVE Fresh'
    <2>1. /\ reader'[r].pc = "lookup"
          /\ reader'[r].since = reader[r].since
          /\ reader'[r].floor = settled
          /\ \A p \in Readers \ {r} : reader'[p] = reader[p]
        BY <1>1, <1>0 DEF BeginRead, TypeOK, Reader
    <2>2. EpochsBehind' /\ PromisesKept'
        BY <1>1, <1>a, <1>c, <2>1 DEF BeginRead, TypeOK, View
    <2>3. FlightsMatch' /\ JoinableFresh' /\ EntriesFresh'
        BY <1>1, <2>1 DEF BeginRead, FlightsMatch, JoinableFresh, EntriesFresh
    <2>4. ReadersOwed'
        BY <1>1, <2>1 DEF BeginRead, ReadersOwed, Owed, staleLocked
    <2> QED BY <2>2, <2>3, <2>4
<1>2. CASE CacheHit(r)
    <2>1. /\ reader'[r].pc = "answered"
          /\ reader'[r].since = reader[r].since
          /\ reader'[r].floor = reader[r].floor
          /\ reader'[r].key = reader[r].key
          /\ reader'[r].view = entries[reader[r].key].view
          /\ \A p \in Readers \ {r} : reader'[p] = reader[p]
        BY <1>2, <1>0 DEF CacheHit, TypeOK, Reader
    <2>2. EpochsBehind' /\ PromisesKept'
        BY <1>2, <1>a, <1>b, <1>c, <2>1 DEF CacheHit
    <2>3. FlightsMatch' /\ JoinableFresh' /\ EntriesFresh'
        BY <1>2, <2>1 DEF CacheHit, FlightsMatch, JoinableFresh, EntriesFresh
    <2>4. entries[reader[r].key] \in Entry
        BY <1>0, <1>2 DEF CacheHit, TypeOK
    <2>5. ASSUME NEW n \in Covers(ScopeOf[reader[r].key])
          PROVE  reader[r].floor[n] <= entries[reader[r].key].view[n]
        <3>1. n \in Namespaces
            BY <1>0, CoversNamespaces
        <3>2. settled[n] <= entries[reader[r].key].view[n]
            BY <1>0, <1>2 DEF CacheHit, EntriesFresh, Reflects
        <3>3. /\ settled[n] \in Nat
              /\ reader[r].floor[n] \in Nat
              /\ entries[reader[r].key].view[n] \in Nat
            BY <1>0, <2>4, <3>1 DEF TypeOK, View, Reader, Entry
        <3> QED BY <1>b, <3>1, <3>2, <3>3
    <2>6. ReadersOwed'
        BY <1>2, <2>1, <2>5, SMTT(40) DEF CacheHit, ReadersOwed, Owed, staleLocked, Reflects
    <2> QED BY <2>2, <2>3, <2>6
<1>3. CASE CacheMiss(r)
    <2>1. /\ reader'[r].pc = "epoch"
          /\ reader'[r].since = reader[r].since
          /\ reader'[r].floor = reader[r].floor
          /\ \A p \in Readers \ {r} : reader'[p] = reader[p]
        BY <1>3, <1>0 DEF CacheMiss, TypeOK, Reader
    <2>2. EpochsBehind' /\ PromisesKept'
        BY <1>3, <1>a, <1>b, <1>c, <2>1 DEF CacheMiss
    <2>3. FlightsMatch' /\ JoinableFresh'
        BY <1>3, <2>1 DEF CacheMiss, FlightsMatch, JoinableFresh
    <2>4. EntriesFresh'
        <3>1. \A k \in Keys : entries'[k] # NoEntry => entries'[k] = entries[k]
            BY <1>0, <1>3 DEF CacheMiss, TypeOK
        <3> QED BY <1>3, <3>1 DEF CacheMiss, EntriesFresh
    <2>5. ReadersOwed'
        BY <1>3, <2>1 DEF CacheMiss, ReadersOwed, Owed, staleLocked
    <2> QED BY <2>2, <2>3, <2>4, <2>5
<1>4. CASE TakeEpoch(r)
    <2>1. /\ reader'[r].pc = "version"
          /\ reader'[r].since = generation
          /\ reader'[r].floor = reader[r].floor
          /\ \A p \in Readers \ {r} : reader'[p] = reader[p]
        BY <1>4, <1>0 DEF TakeEpoch, TypeOK, Reader
    <2>2. EpochsBehind' /\ PromisesKept'
        BY <1>4, <1>a, <1>b, <2>1 DEF TakeEpoch, TypeOK
    <2>3. FlightsMatch' /\ JoinableFresh' /\ EntriesFresh'
        BY <1>4, <2>1 DEF TakeEpoch, FlightsMatch, JoinableFresh, EntriesFresh
    <2>4. ReadersOwed'
        BY <1>4, <2>1 DEF TakeEpoch, ReadersOwed, Owed, staleLocked
    <2> QED BY <2>2, <2>3, <2>4
<1>5. CASE TakeVersion(r)
    <2>1. /\ reader'[r].pc = "query"
          /\ reader'[r].since = reader[r].since
          /\ reader'[r].floor = reader[r].floor
          /\ \A p \in Readers \ {r} : reader'[p] = reader[p]
        BY <1>5, <1>0 DEF TakeVersion, TypeOK, Reader
    <2>2. EpochsBehind' /\ PromisesKept'
        BY <1>5, <1>a, <1>b, <1>c, <2>1 DEF TakeVersion
    <2>3. FlightsMatch' /\ JoinableFresh' /\ EntriesFresh'
        BY <1>5, <2>1 DEF TakeVersion, FlightsMatch, JoinableFresh, EntriesFresh
    <2>4. ReadersOwed'
        BY <1>5, <2>1 DEF TakeVersion, ReadersOwed, Owed, staleLocked
    <2> QED BY <2>2, <2>3, <2>4
<1>6. ASSUME NEW f \in Flights, JoinFlight(r, f) PROVE Fresh'
    <2> DEFINE k == reader[r].key
               q == <<k, "primary">>
    <2>1. /\ reader'[r].pc = "wait"
          /\ reader'[r].since = reader[r].since
          /\ reader'[r].floor = reader[r].floor
          /\ reader'[r].key = k
          /\ reader'[r].flight = f
          /\ \A p \in Readers \ {r} : reader'[p] = reader[p]
        BY <1>6, <1>0 DEF JoinFlight, TypeOK, Reader
    <2>2. EpochsBehind' /\ PromisesKept'
        BY <1>6, <1>a, <1>b, <1>c, <2>1 DEF JoinFlight
    <2>3. q \in Keys \X Pools /\ inflight[q] = f /\ f # NoFlight
        BY <1>0, <1>6 DEF JoinFlight, join, poolFor, Pools
    <2>4. /\ flight[f].step \in {"running", "answered"}
          /\ flight[f].key = k
        BY <2>3 DEF FlightsMatch
    <2>5. FlightsMatch' /\ JoinableFresh' /\ EntriesFresh'
        BY <1>6, <2>1, <2>4 DEF JoinFlight, join, FlightsMatch, JoinableFresh, EntriesFresh
    <2>6. ASSUME flight[f].step = "answered", NEW n \in Covers(ScopeOf[k])
          PROVE  settled[n] <= flight[f].view[n] /\ reader[r].floor[n] <= flight[f].view[n]
        <3>1. n \in Namespaces
            BY <1>0, CoversNamespaces
        <3>2. settled[n] <= flight[f].view[n]
            BY <2>3, <2>6 DEF JoinableFresh
        <3>3. settled[n] \in Nat /\ reader[r].floor[n] \in Nat /\ flight[f].view[n] \in Nat
            BY <1>0, <3>1 DEF TypeOK, View, Reader, Flight
        <3> QED BY <1>b, <3>1, <3>2, <3>3
    <2>7. flight' = flight
        BY <1>6 DEF JoinFlight, join
    <2>8. ReadersOwed'
        BY <1>6, <2>1, <2>6, <2>7 DEF JoinFlight, ReadersOwed, Owed, staleLocked, Reflects
    <2> QED BY <2>2, <2>5, <2>8
<1>7. ASSUME NEW f \in Flights, StartFlight(r, f) PROVE Fresh'
    <2> DEFINE k == reader[r].key
               q == <<k, "primary">>
    <2>1. /\ reader'[r].pc = "wait"
          /\ reader'[r].since = reader[r].since
          /\ reader'[r].floor = reader[r].floor
          /\ reader'[r].key = k
          /\ reader'[r].flight = f
          /\ \A p \in Readers \ {r} : reader'[p] = reader[p]
        BY <1>7, <1>0 DEF StartFlight, TypeOK, Reader
    <2>2. EpochsBehind' /\ PromisesKept'
        BY <1>7, <1>a, <1>b, <1>c, <2>1 DEF StartFlight
    <2>3. /\ q \in Keys \X Pools
          /\ flight[f].step = "unused"
          /\ inflight' = [inflight EXCEPT ![q] = f]
          /\ flight' = [flight EXCEPT ![f] =
                 [step |-> "running", key |-> k, pool |-> "primary",
                  view |-> Zero, detached |-> FALSE]]
        BY <1>0, <1>7 DEF StartFlight, start, poolFor, Pools
    <2>4. flight'[f].step = "running" /\ flight'[f].key = k /\ flight'[f].pool = "primary"
        BY <2>3 DEF TypeOK
    <2>5. \A g \in Flights \ {f} : flight'[g] = flight[g]
        BY <2>3 DEF TypeOK
    <2>6. inflight'[q] = f /\ \A p \in (Keys \X Pools) \ {q} : inflight'[p] = inflight[p]
        BY <2>3 DEF TypeOK
    <2>7. \A p \in Keys \X Pools : inflight[p] # f
        BY <2>3, FlightAssumption DEF FlightsMatch
    <2>8. \A p \in Readers : reader[p].pc = "wait" => reader[p].flight # f
        BY <2>3 DEF FlightsMatch
    <2>9. \A p \in Keys \X Pools : inflight[p] # NoFlight => inflight[p] \in Flights
        BY DEF TypeOK
    <2>10. FlightsMatch'
        BY <2>1, <2>3, <2>4, <2>5, <2>6, <2>7, <2>8, <2>9 DEF FlightsMatch
    <2>11. JoinableFresh'
        BY <1>7, <2>4, <2>5, <2>6, <2>7, <2>9 DEF StartFlight, JoinableFresh
    <2>12. EntriesFresh'
        BY <1>7 DEF StartFlight, EntriesFresh
    <2>13. ASSUME NEW p \in Readers \ {r}
           PROVE  /\ reader'[p] = reader[p]
                  /\ reader[p].pc = "wait" =>
                        flight'[reader[p].flight] = flight[reader[p].flight]
        BY <2>1, <2>5, <2>8 DEF FlightsMatch
    <2>14. ReadersOwed'
        BY <1>7, <2>1, <2>4, <2>13 DEF StartFlight, ReadersOwed, Owed, staleLocked
    <2> QED BY <2>2, <2>10, <2>11, <2>12, <2>14
<1>8. CASE GiveUp(r) \/ Reply(r)
    <2>1. /\ reader' = [reader EXCEPT ![r] = IdleReader]
          /\ UNCHANGED <<database, cache, flights, writer, polling, settled>>
        BY <1>8 DEF GiveUp, Reply
    <2>2. /\ reader'[r] = IdleReader
          /\ \A p \in Readers \ {r} : reader'[p] = reader[p]
        BY <2>1 DEF TypeOK
    <2>3. EpochsBehind' /\ PromisesKept'
        BY <1>a, <1>b, <2>1, <2>2 DEF IdleReader, TypeOK
    <2>4. FlightsMatch' /\ JoinableFresh' /\ EntriesFresh'
        BY <2>1, <2>2 DEF FlightsMatch, JoinableFresh, EntriesFresh, IdleReader
    <2>5. ReadersOwed'
        BY <2>1, <2>2 DEF ReadersOwed, Owed, staleLocked, IdleReader
    <2> QED BY <2>3, <2>4, <2>5
<1>9. CASE Store(r)
    <2> DEFINE k == reader[r].key
    <2>1. /\ reader'[r].pc = "answered"
          /\ reader'[r].since = reader[r].since
          /\ reader'[r].floor = reader[r].floor
          /\ reader'[r].key = k
          /\ reader'[r].view = reader[r].view
          /\ \A p \in Readers \ {r} : reader'[p] = reader[p]
        BY <1>9, <1>0 DEF Store, TypeOK, Reader
    <2>2. EpochsBehind' /\ PromisesKept'
        BY <1>9, <1>a, <1>b, <1>c, <2>1 DEF Store
    <2>3. FlightsMatch' /\ JoinableFresh'
        BY <1>9, <2>1 DEF Store, FlightsMatch, JoinableFresh
    <2>4. Owed(r, reader[r].view)
        BY <1>9 DEF Store, ReadersOwed
    <2>5. EntriesFresh'
        <3>1. CASE UNCHANGED entries
            BY <1>9, <3>1 DEF Store, EntriesFresh
        <3>2. CASE ~staleLocked(ScopeOf[k], reader[r].since)
            <4>1. \A j \in Keys : entries'[j] # NoEntry =>
                     \/ j = k /\ entries'[j] = [view |-> reader[r].view]
                     \/ entries'[j] = entries[j]
                BY <1>9, <3>2 DEF Store
            <4>2. Reflects(reader[r].view, settled, ScopeOf[k])
                BY <2>4, <3>2 DEF Owed
            <4> QED BY <1>9, <4>1, <4>2 DEF Store, EntriesFresh
        <3> QED BY <1>9, <3>1, <3>2 DEF Store
    <2>6. ReadersOwed'
        BY <1>9, <2>1, <2>4 DEF Store, ReadersOwed, Owed, staleLocked
    <2> QED BY <2>2, <2>3, <2>5, <2>6
<1> QED BY <1>1, <1>2, <1>3, <1>4, <1>5, <1>6, <1>7, <1>8, <1>9 DEF ReadStep

-----------------------------------------------------------------------------
(* The steps of a flight. *)

LEMMA FlightStepFresh ==
    ASSUME ~HasReplica, TypeOK, TypeOK', Fresh, NEW f \in Flights, FlightStep(f)
    PROVE  Fresh'
<1> USE DEF Fresh, database, cache, flights, polling
<1>0. \A q \in Keys \X Pools : inflight[q] # NoFlight => inflight[q] \in Flights
    BY DEF TypeOK
<1>1. CASE FlightReads(f)
    <2>1. /\ flight'[f].step = "answered"
          /\ flight'[f].key = flight[f].key
          /\ flight'[f].pool = flight[f].pool
          /\ flight'[f].view = primary
          /\ \A g \in Flights \ {f} : flight'[g] = flight[g]
        BY <1>1 DEF FlightReads, TypeOK, Flight, FlightsMatch
    <2>2. EpochsBehind' /\ PromisesKept' /\ EntriesFresh'
        BY <1>1 DEF FlightReads, EpochsBehind, PromisesKept, EntriesFresh
    <2>3. FlightsMatch'
        BY <1>0, <1>1, <2>1 DEF FlightReads, FlightsMatch
    <2>4. JoinableFresh'
        <3> SUFFICES ASSUME NEW q \in Keys \X Pools, inflight[q] # NoFlight,
                            flight'[inflight[q]].step = "answered",
                            NEW n \in Covers(ScopeOf[q[1]])
                     PROVE  /\ settled[n] <= flight'[inflight[q]].view[n]
                            /\ \A w \in Writers :
                                 writer[w].pc = "invalidate" /\ n \in Covers(writer[w].scope) =>
                                   writer[w].wrote[n] <= flight'[inflight[q]].view[n]
            BY <1>1 DEF FlightReads, JoinableFresh
        <3>1. n \in Namespaces
            BY ScopeAssumption, CoversNamespaces
        <3>2. CASE inflight[q] = f
            BY <2>1, <3>1, <3>2 DEF PromisesKept
        <3>3. CASE inflight[q] # f
            BY <1>0, <2>1, <3>3 DEF JoinableFresh
        <3> QED BY <3>2, <3>3
    <2>5. ASSUME NEW r \in Readers, reader[r].pc = "wait", reader[r].flight = f
          PROVE  Owed(r, primary)
        <3>1. reader[r].key \in Keys
            BY DEF TypeOK, Reader
        <3>2. ASSUME NEW n \in Covers(ScopeOf[reader[r].key])
              PROVE  settled[n] <= primary[n] /\ reader[r].floor[n] <= primary[n]
            <4>1. n \in Namespaces
                BY <3>1, ScopeAssumption, CoversNamespaces
            <4>2. settled[n] \in Nat /\ reader[r].floor[n] \in Nat /\ primary[n] \in Nat
                BY <4>1 DEF TypeOK, View, Reader
            <4> QED BY <4>1, <4>2 DEF PromisesKept
        <3> QED BY <3>2 DEF Owed, Reflects
    <2>6. ReadersOwed'
        <3> SUFFICES ASSUME NEW r \in Readers PROVE
                /\ reader[r].pc = "wait" /\ flight'[reader[r].flight].step = "answered" =>
                       Owed(r, flight'[reader[r].flight].view)
                /\ reader[r].pc = "store" => Owed(r, reader[r].view)
                /\ reader[r].pc = "answered" =>
                       Reflects(reader[r].view, reader[r].floor, ScopeOf[reader[r].key])
            BY <1>1 DEF FlightReads, ReadersOwed, Owed, staleLocked
        <3>1. CASE reader[r].pc = "wait" /\ reader[r].flight = f
            BY <2>1, <2>5, <3>1
        <3>2. CASE ~(reader[r].pc = "wait" /\ reader[r].flight = f)
            BY <2>1, <3>2 DEF ReadersOwed, FlightsMatch
        <3> QED BY <3>1, <3>2
    <2> QED BY <2>2, <2>3, <2>4, <2>6
<1>2. CASE FlightFallsBack(f)
    BY <1>2 DEF FlightFallsBack, FlightsMatch
<1>3. ASSUME finish(f), flight' = [flight EXCEPT ![f] = UnusedFlight],
             UNCHANGED <<database, cache, writer, polled, settled>>,
             \A r \in Readers :
                 IF reader[r].pc = "wait" /\ reader[r].flight = f
                 THEN /\ reader'[r].pc # "wait"
                      /\ reader'[r].since \in Nat
                      /\ reader'[r].since <= generation
                      /\ \A n \in Namespaces : reader'[r].floor[n] <= settled[n]
                 ELSE reader'[r] = reader[r]
      PROVE  /\ EpochsBehind' /\ PromisesKept' /\ FlightsMatch'
             /\ JoinableFresh' /\ EntriesFresh'
    <2>1. \A r \in Readers : reader'[r] = reader[r] \/ reader'[r].pc # "wait"
        BY <1>3
    <2>2. EpochsBehind' /\ PromisesKept' /\ EntriesFresh'
        BY <1>3 DEF EpochsBehind, PromisesKept, EntriesFresh
    <2>3. /\ flight'[f].pool = "primary"
          /\ \A g \in Flights \ {f} : flight'[g] = flight[g]
        BY <1>3 DEF TypeOK, UnusedFlight
    <2>4. \A q \in Keys \X Pools : inflight'[q] # NoFlight =>
              inflight'[q] = inflight[q] /\ inflight[q] # f
        <3> SUFFICES ASSUME NEW q \in Keys \X Pools, inflight'[q] # NoFlight
                     PROVE  inflight'[q] = inflight[q] /\ inflight[q] # f
            OBVIOUS
        <3> DEFINE p == <<flight[f].key, flight[f].pool>>
        <3>1. p \in Keys \X Pools
            BY DEF TypeOK, Flight
        <3>2. inflight[q] = f => q = p
            BY FlightAssumption DEF FlightsMatch
        <3>3. CASE inflight[p] = f
            BY <1>3, <3>1, <3>2, <3>3 DEF finish, TypeOK
        <3>4. CASE inflight[p] # f
            BY <1>3, <3>2, <3>4 DEF finish
        <3> QED BY <3>3, <3>4
    <2>5. FlightsMatch'
        <3>1. ASSUME NEW q \in Keys \X Pools, inflight'[q] # NoFlight
              PROVE  /\ flight'[inflight'[q]].step \in {"running", "answered"}
                     /\ flight'[inflight'[q]].key = q[1]
                     /\ flight'[inflight'[q]].pool = q[2]
            BY <1>0, <2>3, <2>4, <3>1 DEF FlightsMatch
        <3>2. ASSUME NEW r \in Readers, reader'[r].pc = "wait"
              PROVE  /\ reader'[r].flight \in Flights
                     /\ flight'[reader'[r].flight].step \in {"running", "answered"}
                     /\ flight'[reader'[r].flight].key = reader'[r].key
            <4>1. reader'[r] = reader[r] /\ reader[r].flight # f
                BY <1>3, <3>2
            <4> QED BY <2>3, <3>2, <4>1 DEF FlightsMatch
        <3>3. \A g \in Flights : flight'[g].pool = "primary"
            BY <2>3 DEF FlightsMatch
        <3> QED BY <3>1, <3>2, <3>3 DEF FlightsMatch
    <2>6. JoinableFresh'
        BY <1>0, <1>3, <2>3, <2>4 DEF JoinableFresh
    <2> QED BY <2>2, <2>5, <2>6
<1>4. CASE FlightFinishes(f)
    <2> DEFINE received(rd) == [rd EXCEPT !.pc = "store", !.flight = NoFlight,
                                          !.view = flight[f].view]
    <2>1. /\ flight[f].step = "answered"
          /\ finish(f)
          /\ flight' = [flight EXCEPT ![f] = UnusedFlight]
          /\ reader' = [r \in Readers |->
                 IF reader[r].pc = "wait" /\ reader[r].flight = f
                 THEN received(reader[r]) ELSE reader[r]]
          /\ UNCHANGED <<database, cache, writer, polled, settled>>
        BY <1>4 DEF FlightFinishes, release
    <2>2. \A r \in Readers :
              /\ received(reader[r]).pc = "store"
              /\ received(reader[r]).since = reader[r].since
              /\ received(reader[r]).floor = reader[r].floor
              /\ received(reader[r]).key = reader[r].key
              /\ received(reader[r]).view = flight[f].view
        BY DEF TypeOK, Reader
    <2>3. \A r \in Readers :
              /\ received(reader[r]).pc # "wait"
              /\ received(reader[r]).since \in Nat
              /\ received(reader[r]).since <= generation
              /\ \A n \in Namespaces : received(reader[r]).floor[n] <= settled[n]
        BY <2>2 DEF TypeOK, Reader, EpochsBehind, PromisesKept
    <2> HIDE DEF received
    <2>4. /\ EpochsBehind' /\ PromisesKept' /\ FlightsMatch'
          /\ JoinableFresh' /\ EntriesFresh'
        BY <1>3, <2>1, <2>3
    <2>5. ReadersOwed'
        <3> SUFFICES ASSUME NEW r \in Readers PROVE
                /\ reader'[r].pc = "wait" /\ flight'[reader'[r].flight].step = "answered" =>
                       Owed(r, flight[reader[r].flight].view)'
                /\ reader'[r].pc = "store" => Owed(r, reader[r].view)'
                /\ reader'[r].pc = "answered" =>
                       Reflects(reader[r].view, reader[r].floor, ScopeOf[reader[r].key])'
            BY DEF ReadersOwed
        <3>1. CASE reader[r].pc = "wait" /\ reader[r].flight = f
            <4>1. reader'[r] = received(reader[r])
                BY <2>1, <3>1
            <4>2. Owed(r, flight[f].view)
                BY <2>1, <3>1 DEF ReadersOwed
            <4>3. Owed(r, reader[r].view)'
                BY <2>1, <2>2, <4>1, <4>2 DEF Owed, staleLocked, Reflects
            <4> QED BY <2>2, <4>1, <4>3
        <3>2. CASE ~(reader[r].pc = "wait" /\ reader[r].flight = f)
            <4>1. reader'[r] = reader[r]
                BY <2>1, <3>2
            <4>2. reader[r].pc = "wait" =>
                      flight'[reader[r].flight] = flight[reader[r].flight]
                BY <2>1, <3>2 DEF FlightsMatch, TypeOK
            <4> QED BY <2>1, <4>1, <4>2 DEF ReadersOwed, Owed, staleLocked
        <3> QED BY <3>1, <3>2
    <2> QED BY <2>4, <2>5
<1>5. CASE FlightFails(f)
    <2> DEFINE received(rd) == IdleReader
    <2>1. /\ finish(f)
          /\ flight' = [flight EXCEPT ![f] = UnusedFlight]
          /\ reader' = [r \in Readers |->
                 IF reader[r].pc = "wait" /\ reader[r].flight = f
                 THEN received(reader[r]) ELSE reader[r]]
          /\ UNCHANGED <<database, cache, writer, polled, settled>>
        BY <1>5 DEF FlightFails, release
    <2>2. \A r \in Readers :
              /\ received(reader[r]).pc = "idle"
              /\ received(reader[r]).since \in Nat
              /\ received(reader[r]).since <= generation
              /\ \A n \in Namespaces : received(reader[r]).floor[n] <= settled[n]
        BY DEF IdleReader, Zero, TypeOK, View
    <2> HIDE DEF received
    <2>4. /\ EpochsBehind' /\ PromisesKept' /\ FlightsMatch'
          /\ JoinableFresh' /\ EntriesFresh'
        BY <1>3, <2>1, <2>2
    <2>5. ReadersOwed'
        <3>1. ASSUME NEW r \in Readers
              PROVE  \/ reader'[r].pc = "idle"
                     \/ /\ reader'[r] = reader[r]
                        /\ reader[r].pc = "wait" =>
                              flight'[reader[r].flight] = flight[reader[r].flight]
            BY <2>1, <2>2 DEF FlightsMatch, TypeOK
        <3> QED BY <2>1, <3>1 DEF ReadersOwed, Owed, staleLocked
    <2> QED BY <2>4, <2>5
<1> QED BY <1>1, <1>2, <1>4, <1>5 DEF FlightStep

-----------------------------------------------------------------------------
(* The steps of a write. *)

\* A step that leaves reads, flights, the cache and the promise alone, and only
\* adds to what the primary holds, disturbs at most the writers' own part.
LEMMA PrimaryGrows ==
    ASSUME TypeOK, TypeOK', Fresh,
           UNCHANGED <<cache, flights, reader, settled>>,
           \A n \in Namespaces : primary[n] <= primary'[n],
           \A w \in Writers : \A n \in Namespaces : writer'[w].wrote[n] <= primary'[n],
           \A w \in Writers : writer'[w].pc = "invalidate" => writer'[w] = writer[w]
    PROVE  Fresh'
<1> USE DEF Fresh, cache, flights
<1>1. EpochsBehind' /\ FlightsMatch' /\ EntriesFresh'
    BY DEF EpochsBehind, FlightsMatch, EntriesFresh
<1>a. JoinableFresh'
    <2> SUFFICES ASSUME NEW q \in Keys \X Pools, inflight[q] # NoFlight,
                        flight[inflight[q]].step = "answered",
                        NEW n \in Covers(ScopeOf[q[1]])
                 PROVE  /\ settled[n] <= flight[inflight[q]].view[n]
                        /\ \A w \in Writers :
                             writer'[w].pc = "invalidate" /\ n \in Covers(writer'[w].scope) =>
                               writer'[w].wrote[n] <= flight[inflight[q]].view[n]
        BY DEF JoinableFresh
    <2> QED BY DEF JoinableFresh
<1>2. ReadersOwed'
    BY DEF ReadersOwed, Owed, staleLocked
<1>3. ASSUME NEW n \in Namespaces PROVE settled'[n] <= primary'[n]
    <2>1. settled[n] \in Nat /\ primary[n] \in Nat /\ primary'[n] \in Nat
        BY DEF TypeOK, View
    <2>2. settled[n] <= primary[n] /\ primary[n] <= primary'[n]
        BY DEF PromisesKept
    <2> QED BY <2>1, <2>2
<1>4. PromisesKept'
    BY <1>3 DEF PromisesKept
<1> QED BY <1>1, <1>a, <1>2, <1>4

LEMMA WriteStepFresh ==
    ASSUME ~HasReplica, TypeOK, TypeOK', Fresh, NEW w \in Writers, WriteStep(w)
    PROVE  Fresh'
<1> USE DEF database, cache, flights, polling
<1>0. writer[w] \in Writer /\ writer[w].scope \in Scopes
    BY DEF TypeOK, Writer
<1>a. \A n \in Namespaces : primary[n] \in Nat /\ primary[n] <= primary[n]
    BY DEF TypeOK, View
<1>b. \A v \in Writers : \A n \in Namespaces : writer[v].wrote[n] <= primary[n]
    BY DEF Fresh, PromisesKept
<1>c. \A n \in Namespaces : Zero[n] <= primary[n]
    BY <1>a DEF Zero
<1>1. ASSUME NEW s \in Scopes, BeginWrite(w, s) PROVE Fresh'
    <2>1. /\ writer'[w].pc = "run" /\ writer'[w].wrote = writer[w].wrote
          /\ \A v \in Writers \ {w} : writer'[v] = writer[v]
        BY <1>0, <1>1 DEF BeginWrite, TypeOK, Writer
    <2> QED BY <1>1, <1>a, <1>b, <2>1, PrimaryGrows DEF BeginWrite
<1>2. CASE Commit(w)
    <2>1. /\ writer'[w].pc = "detach" /\ writer'[w].wrote = primary'
          /\ \A v \in Writers \ {w} : writer'[v] = writer[v]
        BY <1>0, <1>2 DEF Commit, TypeOK, Writer
    <2>2. \A n \in Namespaces : primary'[n] = primary[n] + 1 \/ primary'[n] = primary[n]
        BY <1>2 DEF Commit
    <2>3. \A n \in Namespaces : primary[n] <= primary'[n]
        BY <1>a, <2>2
    <2>4. ASSUME NEW v \in Writers, NEW n \in Namespaces
          PROVE  writer'[v].wrote[n] <= primary'[n]
        <3>1. /\ writer[v].wrote[n] \in Nat /\ primary[n] \in Nat
              /\ primary'[n] \in Nat
            BY DEF TypeOK, Writer, View
        <3>2. CASE v = w
            BY <2>1, <3>1, <3>2
        <3>3. CASE v # w
            BY <1>b, <2>1, <2>3, <3>1, <3>3
        <3> QED BY <3>2, <3>3
    <2>5. \A v \in Writers : writer'[v].pc = "invalidate" => writer'[v] = writer[v]
        BY <2>1
    <2>6. UNCHANGED <<cache, flights, reader, settled>>
        BY <1>2 DEF Commit
    <2> QED BY <2>3, <2>4, <2>5, <2>6, PrimaryGrows
<1>3. CASE WriteFails(w)
    <2>1. /\ writer'[w].pc = "detach" /\ writer'[w].wrote = Zero
          /\ \A v \in Writers \ {w} : writer'[v] = writer[v]
        BY <1>0, <1>3 DEF WriteFails, TypeOK, Writer
    <2> QED BY <1>3, <1>a, <1>b, <1>c, <2>1, PrimaryGrows DEF WriteFails
<1>4. CASE Detach(w)
    <2> USE DEF Fresh
    <2>1. /\ writer'[w].pc = "invalidate"
          /\ writer'[w].wrote = writer[w].wrote
          /\ writer'[w].scope = writer[w].scope
          /\ \A v \in Writers \ {w} : writer'[v] = writer[v]
        BY <1>0, <1>4 DEF Detach, TypeOK, Writer
    <2>2. \A f \in Flights :
              /\ flight'[f].step = flight[f].step
              /\ flight'[f].key = flight[f].key
              /\ flight'[f].pool = flight[f].pool
              /\ flight'[f].view = flight[f].view
        BY <1>4 DEF Detach, TypeOK, Flight
    <2>3. \A q \in Keys \X Pools : inflight'[q] # NoFlight =>
              /\ inflight'[q] = inflight[q]
              /\ inflight[q] \in Flights
              /\ writer[w].scope # ClusterWide
              /\ ScopeOf[q[1]] # ClusterWide
              /\ ScopeOf[q[1]] # writer[w].scope
        BY <1>4 DEF Detach, TypeOK
    <2>4. \A q \in Keys \X Pools : inflight'[q] # NoFlight =>
              Covers(ScopeOf[q[1]]) \cap Covers(writer[w].scope) = {}
        BY <2>3 DEF Covers
    <2>5. EpochsBehind' /\ EntriesFresh'
        BY <1>4 DEF Detach, EpochsBehind, EntriesFresh
    <2>6. PromisesKept'
        BY <1>4, <2>1 DEF Detach, PromisesKept
    <2>7. FlightsMatch'
        BY <1>4, <2>2, <2>3, SMTT(40) DEF Detach, FlightsMatch
    <2>8. JoinableFresh'
        <3> SUFFICES ASSUME NEW q \in Keys \X Pools, inflight'[q] # NoFlight,
                            flight'[inflight'[q]].step = "answered",
                            NEW n \in Covers(ScopeOf[q[1]])
                     PROVE  /\ settled[n] <= flight'[inflight'[q]].view[n]
                            /\ \A v \in Writers :
                                 writer'[v].pc = "invalidate" /\ n \in Covers(writer'[v].scope) =>
                                   writer'[v].wrote[n] <= flight'[inflight'[q]].view[n]
            BY <1>4 DEF Detach, JoinableFresh
        <3>1. /\ inflight'[q] = inflight[q] /\ inflight[q] # NoFlight
              /\ flight[inflight[q]].step = "answered"
              /\ flight'[inflight'[q]].view = flight[inflight[q]].view
            BY <2>2, <2>3
        <3>2. n \notin Covers(writer'[w].scope)
            BY <2>1, <2>4
        <3> QED BY <2>1, <3>1, <3>2 DEF JoinableFresh
    <2>9. ReadersOwed'
        BY <1>4, <2>2 DEF Detach, ReadersOwed, Owed, staleLocked, FlightsMatch
    <2> QED BY <2>5, <2>6, <2>7, <2>8, <2>9
<1>5. CASE Invalidate(w)
    <2> USE DEF Fresh
    <2> DEFINE ss == {writer[w].scope}
    <2>0. ss \in SUBSET Scopes /\ ss # {} /\ invalidateNamespaces(ss)
        BY <1>0, <1>5 DEF Invalidate
    <2>1. /\ writer'[w].pc = "readback"
          /\ writer'[w].wrote = writer[w].wrote
          /\ \A v \in Writers \ {w} : writer'[v] = writer[v]
        BY <1>0, <1>5 DEF Invalidate, TypeOK, Writer
    <2>2. \A n \in Namespaces :
              /\ settled[n] <= settled'[n]
              /\ n \notin Covers(writer[w].scope) => settled'[n] = settled[n]
              /\ settled'[n] = settled[n]
                   \/ (n \in Covers(writer[w].scope) /\ settled'[n] = writer[w].wrote[n])
        <3>1. settled \in View /\ writer[w].wrote \in View
            BY <1>0 DEF TypeOK, Writer
        <3>2. settled' = Newer(settled, writer[w].wrote, writer[w].scope)
            BY <1>5 DEF Invalidate
        <3> QED BY <1>0, <3>1, <3>2, NewerFacts
    <2>3. EpochsBehind'
        BY <1>5, <2>0, InvalidateEpochs DEF Invalidate
    <2>4. PromisesKept'
        <3>1. \A n \in Namespaces : settled'[n] <= primary'[n]
            BY <1>5, <1>b, <2>2 DEF Invalidate, PromisesKept
        <3>2. \A v \in Writers : \A n \in Namespaces : writer'[v].wrote[n] <= primary'[n]
            BY <1>5, <1>b, <2>1 DEF Invalidate
        <3>3. ASSUME NEW r \in Readers, NEW n \in Namespaces
              PROVE  reader'[r].floor[n] <= settled'[n]
            <4>1. /\ reader[r].floor[n] \in Nat /\ settled[n] \in Nat
                  /\ settled'[n] \in Nat
                BY DEF TypeOK, Reader, View
            <4>2. reader[r].floor[n] <= settled[n] /\ settled[n] <= settled'[n]
                BY <2>2 DEF PromisesKept
            <4> QED BY <1>5, <4>1, <4>2 DEF Invalidate
        <3> QED BY <3>1, <3>2, <3>3 DEF PromisesKept
    <2>5. FlightsMatch'
        BY <1>5 DEF Invalidate, FlightsMatch
    <2>6. JoinableFresh'
        <3> SUFFICES ASSUME NEW q \in Keys \X Pools, inflight[q] # NoFlight,
                            flight[inflight[q]].step = "answered",
                            NEW n \in Covers(ScopeOf[q[1]])
                     PROVE  /\ settled'[n] <= flight[inflight[q]].view[n]
                            /\ \A v \in Writers :
                                 writer'[v].pc = "invalidate" /\ n \in Covers(writer'[v].scope) =>
                                   writer'[v].wrote[n] <= flight[inflight[q]].view[n]
            BY <1>5 DEF Invalidate, JoinableFresh
        <3>1. n \in Namespaces
            BY ScopeAssumption, CoversNamespaces
        <3>2. settled[n] <= flight[inflight[q]].view[n]
            BY DEF JoinableFresh
        <3>3. \A v \in Writers : writer[v].pc = "invalidate" /\ n \in Covers(writer[v].scope) =>
                  writer[v].wrote[n] <= flight[inflight[q]].view[n]
            BY DEF JoinableFresh
        <3>4. settled'[n] <= flight[inflight[q]].view[n]
            BY <1>5, <2>2, <3>1, <3>2, <3>3 DEF Invalidate
        <3> QED BY <2>1, <3>3, <3>4
    <2>7. ASSUME NEW r \in Readers, NEW v, Owed(r, v) PROVE Owed(r, v)'
        <3> DEFINE s == ScopeOf[reader[r].key]
        <3>1. /\ s \in Scopes /\ reader[r].since \in Nat
              /\ reader[r].since <= generation
            BY ScopeAssumption DEF TypeOK, Reader, EpochsBehind
        <3>2. reader' = reader
            BY <1>5 DEF Invalidate
        <3>3. ASSUME ~staleLocked(s, reader[r].since)'
              PROVE  Reflects(v, settled', s)
            <4>1. ~staleLocked(s, reader[r].since)
                BY <2>0, <3>1, <3>2, <3>3, InvalidateStales
            <4>2. Covers(s) \cap Covers(writer[w].scope) = {}
                BY <2>0, <3>1, <3>2, <3>3, InvalidateStales
            <4>3. Reflects(v, settled, s)
                BY <2>7, <4>1 DEF Owed
            <4>4. Covers(s) \subseteq Namespaces
                BY <3>1, CoversNamespaces
            <4> QED BY <2>2, <4>2, <4>3, <4>4 DEF Reflects
        <3>4. Reflects(v, reader[r].floor, s)
            BY <2>7 DEF Owed
        <3> QED BY <3>2, <3>3, <3>4 DEF Owed, Reflects
    <2>8. ReadersOwed'
        BY <1>5, <2>7 DEF Invalidate, ReadersOwed
    <2>9. EntriesFresh'
        <3> SUFFICES ASSUME NEW k \in Keys, entries'[k] # NoEntry
                     PROVE  Reflects(entries'[k].view, settled', ScopeOf[k])
            BY DEF EntriesFresh, Reflects
        <3>1. /\ entries[k] # NoEntry /\ entries'[k] = entries[k]
              /\ Covers(ScopeOf[k]) \cap Covers(writer[w].scope) = {}
            BY <2>0, InvalidateDrops
        <3>2. Covers(ScopeOf[k]) \subseteq Namespaces
            BY ScopeAssumption, CoversNamespaces
        <3> QED BY <2>2, <3>1, <3>2 DEF EntriesFresh, Reflects
    <2> QED BY <2>3, <2>4, <2>5, <2>6, <2>8, <2>9
<1>6. CASE ReadBack(w)
    <2>1. /\ writer'[w].pc = "answered" /\ writer'[w].wrote = writer[w].wrote
          /\ \A v \in Writers \ {w} : writer'[v] = writer[v]
        BY <1>0, <1>6 DEF ReadBack, TypeOK, Writer
    <2> QED BY <1>6, <1>a, <1>b, <2>1, PrimaryGrows DEF ReadBack
<1>7. CASE WriteReplies(w)
    <2>1. /\ writer'[w].pc = "idle" /\ writer'[w].wrote = Zero
          /\ \A v \in Writers \ {w} : writer'[v] = writer[v]
        BY <1>7 DEF WriteReplies, TypeOK, IdleWriter
    <2> QED BY <1>7, <1>a, <1>b, <1>c, <2>1, PrimaryGrows DEF WriteReplies
<1> QED BY <1>1, <1>2, <1>3, <1>4, <1>5, <1>6, <1>7 DEF WriteStep

-----------------------------------------------------------------------------
(* The database and the poller. *)

LEMMA PollReadsFresh ==
    ASSUME ~HasReplica, TypeOK, TypeOK', Fresh, NEW f \in Flights, PollReads(f)
    PROVE  Fresh'
<1> USE DEF Fresh, database, cache, flights
<1> DEFINE q == <<PollKey, "primary">>
<1>1. q \in Keys \X Pools
    BY ScopeAssumption DEF Pools
<1>2. UNCHANGED <<primary, generation, invalidatedAt, allInvalidatedAt, entries,
                  reader, writer, settled>>
    BY DEF PollReads
<1>3. EpochsBehind' /\ PromisesKept' /\ EntriesFresh'
    BY <1>2 DEF EpochsBehind, PromisesKept, EntriesFresh
<1>4. CASE UNCHANGED flights
    BY <1>2, <1>3, <1>4
        DEF FlightsMatch, JoinableFresh, ReadersOwed, Owed, staleLocked
<1>5. CASE start(PollKey, f)
    <2>1. /\ flight[f].step = "unused"
          /\ inflight' = [inflight EXCEPT ![q] = f]
          /\ flight' = [flight EXCEPT ![f] =
                 [step |-> "running", key |-> PollKey, pool |-> "primary",
                  view |-> Zero, detached |-> FALSE]]
        BY <1>5 DEF start, poolFor
    <2>2. /\ flight'[f].step = "running" /\ flight'[f].key = PollKey
          /\ flight'[f].pool = "primary"
          /\ \A g \in Flights \ {f} : flight'[g] = flight[g]
        BY <2>1 DEF TypeOK
    <2>3. inflight'[q] = f /\ \A p \in (Keys \X Pools) \ {q} : inflight'[p] = inflight[p]
        BY <1>1, <2>1 DEF TypeOK
    <2>4. \A p \in Keys \X Pools : inflight[p] # f
        BY <2>1, FlightAssumption DEF FlightsMatch
    <2>5. \A r \in Readers : reader[r].pc = "wait" =>
              reader[r].flight # f /\ flight'[reader[r].flight] = flight[reader[r].flight]
        BY <2>1, <2>2 DEF FlightsMatch
    <2>6. \A p \in Keys \X Pools : inflight[p] # NoFlight => inflight[p] \in Flights
        BY DEF TypeOK
    <2>7. FlightsMatch'
        BY <1>1, <1>2, <2>2, <2>3, <2>4, <2>5, <2>6 DEF FlightsMatch
    <2>8. JoinableFresh'
        BY <1>2, <2>2, <2>3, <2>4, <2>6 DEF JoinableFresh
    <2>9. ReadersOwed'
        BY <1>2, <2>5 DEF ReadersOwed, Owed, staleLocked
    <2> QED BY <1>3, <2>7, <2>8, <2>9
<1> QED BY <1>4, <1>5 DEF PollReads, join

LEMMA PollAppliesFresh ==
    ASSUME ~HasReplica, TypeOK, TypeOK', Fresh, PollApplies
    PROVE  Fresh'
<1> USE DEF Fresh, database, cache, flights
<1>1. UNCHANGED <<primary, inflight, flight, reader, writer, settled>>
    BY DEF PollApplies
<1>2. PromisesKept' /\ FlightsMatch' /\ JoinableFresh'
    BY <1>1 DEF PromisesKept, FlightsMatch, JoinableFresh
<1>3. CASE changedNamespaces = {}
    <2>1. UNCHANGED cache
        BY <1>3 DEF PollApplies
    <2> QED BY <1>1, <1>2, <2>1
            DEF EpochsBehind, ReadersOwed, Owed, staleLocked, EntriesFresh
<1>4. CASE changedNamespaces # {}
    <2>0. changedNamespaces \in SUBSET Scopes
        BY DEF Scopes, changedNamespaces
    <2>1. invalidateNamespaces(changedNamespaces)
        BY <1>4 DEF PollApplies
    <2>2. EpochsBehind'
        BY <1>1, <2>1, InvalidateEpochs
    <2>3. EntriesFresh'
        BY <1>1, <2>0, <2>1, InvalidateDrops DEF EntriesFresh
    <2>4. ASSUME NEW r \in Readers, NEW v, Owed(r, v) PROVE Owed(r, v)'
        <3>1. /\ ScopeOf[reader[r].key] \in Scopes /\ reader[r].since \in Nat
              /\ reader[r].since <= generation
            BY ScopeAssumption DEF TypeOK, Reader, EpochsBehind
        <3>2. staleLocked(ScopeOf[reader[r].key], reader[r].since) =>
                  staleLocked(ScopeOf[reader[r].key], reader[r].since)'
            BY <1>1, <1>4, <2>0, <2>1, <3>1, InvalidateStales
        <3> QED BY <1>1, <2>4, <3>2 DEF Owed, Reflects
    <2>5. ReadersOwed'
        BY <1>1, <2>4 DEF ReadersOwed
    <2> QED BY <1>2, <2>2, <2>3, <2>5
<1> QED BY <1>3, <1>4

-----------------------------------------------------------------------------
(* The theorems. *)

LEMMA FreshStep ==
    ASSUME ~HasReplica, TypeOK, TypeOK', Fresh, [Next]_vars
    PROVE  Fresh'
<1> USE DEF database, cache, flights, polling
<1>a. \A n \in Namespaces : primary[n] \in Nat /\ primary'[n] \in Nat
    BY DEF TypeOK, View
<1>b. \A w \in Writers : \A n \in Namespaces : writer[w].wrote[n] <= primary[n]
    BY DEF Fresh, PromisesKept
<1>1. ASSUME NEW n \in Namespaces, ExternalWrite(n) PROVE Fresh'
    <2>1. \A m \in Namespaces : primary'[m] = primary[m] + 1 \/ primary'[m] = primary[m]
        BY <1>1 DEF ExternalWrite, TypeOK, View
    <2>2. \A m \in Namespaces : primary[m] <= primary'[m]
        BY <1>a, <2>1
    <2>3. ASSUME NEW w \in Writers, NEW m \in Namespaces
          PROVE  writer'[w].wrote[m] <= primary'[m]
        <3>1. writer[w].wrote[m] \in Nat /\ writer' = writer
            BY <1>1 DEF ExternalWrite, TypeOK, Writer, View
        <3> QED BY <1>a, <1>b, <2>2, <3>1
    <2> QED BY <1>1, <2>2, <2>3, PrimaryGrows DEF ExternalWrite
<1>2. ASSUME NEW n \in Namespaces, Replicate(n) PROVE Fresh'
    BY <1>2 DEF Replicate
<1>3. CASE ReplicaRetried \/ UNCHANGED vars
    <2>1. UNCHANGED <<cache, flights, reader, settled, primary, writer>>
        BY <1>3 DEF ReplicaRetried, vars
    <2>2. \A m \in Namespaces : primary[m] <= primary'[m]
        BY <1>a, <2>1
    <2> QED BY <1>b, <2>1, <2>2, PrimaryGrows
<1> QED BY <1>1, <1>2, <1>3, ReadStepFresh, FlightStepFresh, WriteStepFresh,
           PollReadsFresh, PollAppliesFresh DEF Next

LEMMA FreshInit == Init => Fresh
<1> SUFFICES ASSUME Init PROVE Fresh
    OBVIOUS
<1> USE DEF Init
<1>1. EpochsBehind /\ PromisesKept
    BY DEF EpochsBehind, PromisesKept, Zero, IdleReader, IdleWriter
<1>2. FlightsMatch /\ JoinableFresh /\ ReadersOwed /\ EntriesFresh
    BY DEF FlightsMatch, JoinableFresh, ReadersOwed, EntriesFresh, IdleReader,
           UnusedFlight
<1> QED BY <1>1, <1>2 DEF Fresh

\* What can be joined, is waited for or is cached is never older than what
\* finished writes promised: write's order of detach, then invalidate, against
\* a reader's epoch, join and store, in every interleaving.
THEOREM Freshness == Spec => []FreshnessInv
<1>1. Init => FreshnessInv
    BY FreshInit DEF FreshnessInv
<1>2. TypeOK /\ TypeOK' /\ FreshnessInv /\ [Next]_vars => FreshnessInv'
    BY FreshStep DEF FreshnessInv
<1> QED BY <1>1, <1>2, TypeCorrect, PTL DEF Spec

\* Read your writes: a get or list that begins after a write to its namespaces
\* was finished by this server is answered with rows that reflect it.
THEOREM ReadsFollowWrites == Spec => []ReadYourWrites
<1>1. FreshnessInv => ReadYourWrites
    BY DEF FreshnessInv, Fresh, ReadersOwed, ReadYourWrites
<1> QED BY <1>1, Freshness, PTL

\* A cached get or list is never older than a finished write to its namespaces,
\* however late its rows arrived.
THEOREM CacheFollowsWrites == Spec => []CacheReflectsWrites
<1>1. FreshnessInv => CacheReflectsWrites
    BY DEF FreshnessInv, Fresh, EntriesFresh, CacheReflectsWrites
<1> QED BY <1>1, Freshness, PTL

-----------------------------------------------------------------------------
(* Identical reads share a flight.  With and without a replica. *)

LEMMA StartCoalesces ==
    ASSUME TypeOK, Coalesced, NEW k \in Keys, NEW f \in Flights, start(k, f)
    PROVE  Coalesced'
<1> DEFINE q == <<k, poolFor>>
<1>1. q \in Keys \X Pools
    BY DEF poolFor, Pools
<1>2. /\ inflight[q] = NoFlight
      /\ inflight'[q] = f
      /\ \A p \in Keys \X Pools : p # q => inflight'[p] = inflight[p]
    BY <1>1 DEF start, TypeOK
<1>3. /\ flight'[f].key = k /\ flight'[f].pool = poolFor
      /\ \A g \in Flights : g # f => flight'[g] = flight[g]
    BY DEF start, TypeOK
<1>4. ASSUME NEW g \in Flights, flight'[g].step \in {"running", "answered"},
             ~flight'[g].detached
      PROVE  inflight'[<<flight'[g].key, flight'[g].pool>>] = g
    <2>1. CASE g = f
        BY <1>2, <1>3, <2>1
    <2>2. CASE g # f
        <3>1. /\ flight'[g] = flight[g]
              /\ inflight[<<flight[g].key, flight[g].pool>>] = g
            BY <1>3, <1>4, <2>2 DEF Coalesced
        <3>2. <<flight[g].key, flight[g].pool>> \in Keys \X Pools
            BY DEF TypeOK, Flight
        <3>3. <<flight[g].key, flight[g].pool>> # q
            BY <1>2, <3>1, FlightAssumption
        <3> QED BY <1>2, <3>1, <3>2, <3>3
    <2> QED BY <2>1, <2>2
<1> QED BY <1>4 DEF Coalesced

LEMMA CoalescedStep ==
    ASSUME TypeOK, Coalesced, [Next]_vars
    PROVE  Coalesced'
<1> USE DEF database, cache, flights, polling
<1>0. /\ flight \in [Flights -> Flight]
      /\ \A f \in Flights : <<flight[f].key, flight[f].pool>> \in Keys \X Pools
    BY DEF TypeOK, Flight
<1>1. ASSUME UNCHANGED flights PROVE Coalesced'
    BY <1>1 DEF Coalesced
<1>2. ASSUME NEW r \in Readers, ReadStep(r) PROVE Coalesced'
    <2>1. ASSUME NEW f \in Flights, StartFlight(r, f) PROVE Coalesced'
        <3>1. reader[r].key \in Keys
            BY DEF TypeOK, Reader
        <3> QED BY <2>1, <3>1, StartCoalesces DEF StartFlight
    <2>2. ASSUME NEW f \in Flights, JoinFlight(r, f) PROVE Coalesced'
        BY <1>1, <2>2 DEF JoinFlight, join
    <2> QED BY <1>1, <1>2, <2>1, <2>2
            DEF ReadStep, BeginRead, CacheHit, CacheMiss, TakeEpoch, TakeVersion, GiveUp,
                Store, Reply
<1>3. ASSUME NEW f \in Flights, FlightStep(f) PROVE Coalesced'
    <2>1. CASE FlightReads(f) \/ FlightFallsBack(f)
        <3>1. /\ inflight' = inflight
              /\ \A g \in Flights : /\ flight'[g].key = flight[g].key
                                    /\ flight'[g].pool = flight[g].pool
                                    /\ flight'[g].detached = flight[g].detached
                                    /\ flight'[g].step # flight[g].step =>
                                           flight[g].step = "running"
            <4>1. PICK v : flight' = [flight EXCEPT ![f] = [@ EXCEPT !.step = "answered",
                                                                   !.view = v]]
                BY <2>1 DEF FlightReads, FlightFallsBack
            <4>2. flight[f].step = "running" /\ inflight' = inflight
                BY <2>1 DEF FlightReads, FlightFallsBack
            <4> QED BY <1>0, <4>1, <4>2 DEF Flight
        <3> QED BY <3>1 DEF Coalesced
    <2>2. CASE FlightFinishes(f) \/ FlightFails(f)
        <3>1. finish(f) /\ flight' = [flight EXCEPT ![f] = UnusedFlight]
            BY <2>2 DEF FlightFinishes, FlightFails, release
        <3>2. /\ flight'[f].step = "unused"
              /\ \A g \in Flights : g # f => flight'[g] = flight[g]
            BY <1>0, <3>1 DEF UnusedFlight
        <3>3. ASSUME NEW p \in Keys \X Pools, inflight[p] # f
              PROVE  inflight'[p] = inflight[p]
            BY <3>1, <3>3 DEF finish, TypeOK
        <3>4. ASSUME NEW g \in Flights, flight'[g].step \in {"running", "answered"},
                     ~flight'[g].detached
              PROVE  inflight'[<<flight'[g].key, flight'[g].pool>>] = g
            <4>1. g # f /\ flight'[g] = flight[g]
                BY <3>2, <3>4
            <4>2. inflight[<<flight[g].key, flight[g].pool>>] = g
                BY <3>4, <4>1 DEF Coalesced
            <4> QED BY <1>0, <3>3, <4>1, <4>2
        <3> QED BY <3>4 DEF Coalesced
    <2> QED BY <1>3, <2>1, <2>2 DEF FlightStep
<1>4. ASSUME NEW w \in Writers, WriteStep(w) PROVE Coalesced'
    <2>1. CASE Detach(w)
        <3> DEFINE s == writer[w].scope
                   hit(q) == s = ClusterWide \/ ScopeOf[q[1]] \in {ClusterWide, s}
        <3>1. /\ inflight' = [q \in Keys \X Pools |-> IF hit(q) THEN NoFlight ELSE inflight[q]]
              /\ flight' = [f \in Flights |->
                     IF \E q \in Keys \X Pools : hit(q) /\ inflight[q] = f
                     THEN [flight[f] EXCEPT !.detached = TRUE] ELSE flight[f]]
            BY <2>1 DEF Detach
        <3>2. ASSUME NEW f \in Flights, flight'[f].step \in {"running", "answered"},
                     ~flight'[f].detached
              PROVE  inflight'[<<flight'[f].key, flight'[f].pool>>] = f
            <4>1. flight'[f] = flight[f]
                <5>1. CASE \E q \in Keys \X Pools : hit(q) /\ inflight[q] = f
                    <6>1. flight'[f] = [flight[f] EXCEPT !.detached = TRUE]
                        BY <3>1, <5>1
                    <6> QED BY <1>0, <3>2, <6>1 DEF Flight
                <5> QED BY <3>1, <5>1
            <4>2. inflight[<<flight[f].key, flight[f].pool>>] = f
                BY <3>2, <4>1 DEF Coalesced
            <4>3. ~hit(<<flight[f].key, flight[f].pool>>)
                <5>1. SUFFICES ASSUME hit(<<flight[f].key, flight[f].pool>>) PROVE FALSE
                    OBVIOUS
                <5>2. flight'[f] = [flight[f] EXCEPT !.detached = TRUE]
                    BY <1>0, <3>1, <4>2, <5>1
                <5> QED BY <1>0, <3>2, <5>2 DEF Flight
            <4> QED BY <1>0, <3>1, <4>1, <4>2, <4>3
        <3> QED BY <3>2 DEF Coalesced
    <2> QED BY <1>1, <1>4, <2>1
            DEF WriteStep, BeginWrite, Commit, WriteFails, Invalidate, ReadBack, WriteReplies
<1>5. ASSUME NEW f \in Flights, PollReads(f) PROVE Coalesced'
    BY <1>1, <1>5, StartCoalesces, ScopeAssumption DEF PollReads, join
<1> QED BY <1>1, <1>2, <1>3, <1>4, <1>5
        DEF Next, ExternalWrite, Replicate, ReplicaRetried, PollApplies, vars

\* A query that no write has detached can be joined by every read that asks the
\* same of the same pool, however many flights have been detached, finished and
\* registered anew under its key.
THEOREM ReadsCoalesce == Spec => []Coalesced
<1>1. Init => Coalesced
    BY DEF Init, Coalesced, UnusedFlight
<1>2. TypeOK /\ Coalesced /\ [Next]_vars => Coalesced'
    BY CoalescedStep
<1> QED BY <1>1, <1>2, TypeCorrect, PTL DEF Spec

-----------------------------------------------------------------------------
(* A write is answered with what it wrote.  With and without a replica. *)

\* Nothing that was committed is undone.
LEMMA PrimaryNeverShrinks ==
    ASSUME TypeOK, [Next]_vars
    PROVE  /\ \A n \in Namespaces : primary[n] \in Nat /\ primary'[n] \in Nat
           /\ \A n \in Namespaces : primary[n] <= primary'[n]
<1> USE DEF database
<1>0. primary \in [Namespaces -> Nat]
    BY DEF TypeOK, View
<1>1. ASSUME UNCHANGED primary
      PROVE  \A n \in Namespaces : primary'[n] \in Nat /\ primary[n] <= primary'[n]
    BY <1>0, <1>1
<1>2. ASSUME NEW w \in Writers, Commit(w)
      PROVE  \A n \in Namespaces : primary'[n] \in Nat /\ primary[n] <= primary'[n]
    BY <1>0, <1>2 DEF Commit
<1>3. ASSUME NEW m \in Namespaces, ExternalWrite(m)
      PROVE  \A n \in Namespaces : primary'[n] \in Nat /\ primary[n] <= primary'[n]
    BY <1>0, <1>3 DEF ExternalWrite
<1>4. ASSUME NEW r \in Readers, ReadStep(r) PROVE UNCHANGED primary
    BY <1>4 DEF ReadStep, BeginRead, CacheHit, CacheMiss, TakeEpoch, TakeVersion, GiveUp,
                Store, Reply, JoinFlight, StartFlight
<1>5. ASSUME NEW f \in Flights, FlightStep(f) \/ PollReads(f) PROVE UNCHANGED primary
    BY <1>5 DEF FlightStep, FlightReads, FlightFallsBack, FlightFinishes, FlightFails,
                PollReads
<1>6. ASSUME NEW w \in Writers, WriteStep(w), ~Commit(w) PROVE UNCHANGED primary
    BY <1>6 DEF WriteStep, BeginWrite, WriteFails, Detach, Invalidate, ReadBack, WriteReplies
<1>7. ASSUME NEW n \in Namespaces, Replicate(n) PROVE UNCHANGED primary
    BY <1>7 DEF Replicate
<1>8. ASSUME ReplicaRetried \/ PollApplies \/ UNCHANGED vars PROVE UNCHANGED primary
    BY <1>8 DEF ReplicaRetried, PollApplies, vars
<1>9. \A n \in Namespaces : primary'[n] \in Nat /\ primary[n] <= primary'[n]
    BY <1>1, <1>2, <1>3, <1>4, <1>5, <1>6, <1>7, <1>8 DEF Next
<1> QED BY <1>0, <1>9

\* What a write wrote is in the primary, and in the answer it read there.
OwnWrites ==
    \A w \in Writers, n \in Namespaces :
        /\ writer[w].wrote[n] <= primary[n]
        /\ writer[w].pc = "answered" => writer[w].wrote[n] <= writer[w].answer[n]

LEMMA OwnWritesStep ==
    ASSUME TypeOK, OwnWrites, [Next]_vars
    PROVE  OwnWrites'
<1> USE DEF database, cache, flights, polling
<1>0. /\ \A w \in Writers : writer[w] \in Writer
      /\ writer \in [Writers -> Writer]
      /\ primary \in [Namespaces -> Nat] /\ Zero \in [Namespaces -> Nat]
      /\ \A n \in Namespaces : Zero[n] = 0
    BY DEF TypeOK, View, Zero
<1>1. ASSUME UNCHANGED writer PROVE OwnWrites'
    <2>1. ASSUME NEW w \in Writers, NEW n \in Namespaces
          PROVE  writer[w].wrote[n] <= primary'[n]
        <3>1. writer[w].wrote[n] \in Nat /\ writer[w].wrote[n] <= primary[n]
            BY <1>0 DEF OwnWrites, Writer, View
        <3> QED BY <3>1, PrimaryNeverShrinks
    <2> QED BY <1>1, <2>1 DEF OwnWrites
<1>2. ASSUME NEW w \in Writers, WriteStep(w) PROVE OwnWrites'
    <2>1. \A v \in Writers : v # w => writer'[v] = writer[v]
        BY <1>0, <1>2 DEF WriteStep, BeginWrite, Commit, WriteFails, Detach, Invalidate,
                          ReadBack, WriteReplies
    <2>2. ASSUME NEW n \in Namespaces
          PROVE  /\ writer'[w].wrote[n] <= primary'[n]
                 /\ writer'[w].pc = "answered" => writer'[w].wrote[n] <= writer'[w].answer[n]
        <3>0. /\ writer[w].wrote[n] \in Nat /\ writer[w].wrote[n] <= primary[n]
              /\ primary[n] \in Nat /\ primary'[n] \in Nat /\ primary[n] <= primary'[n]
            BY <1>0, PrimaryNeverShrinks DEF OwnWrites, Writer, View
        <3>1. CASE BeginWrite(w, ClusterWide) \/ \E s \in Scopes : BeginWrite(w, s)
            <4>1. writer'[w].wrote = writer[w].wrote /\ writer'[w].pc = "run"
                BY <1>0, <3>1 DEF BeginWrite, Writer
            <4> QED BY <3>0, <4>1
        <3>2. CASE Commit(w)
            <4>1. writer'[w].wrote = primary' /\ writer'[w].pc = "detach"
                BY <1>0, <3>2 DEF Commit, Writer
            <4> QED BY <3>0, <4>1
        <3>3. CASE WriteFails(w)
            <4>1. writer'[w].wrote = Zero /\ writer'[w].pc = "detach"
                BY <1>0, <3>3 DEF WriteFails, Writer
            <4> QED BY <1>0, <3>0, <4>1
        <3>4. CASE Detach(w) \/ Invalidate(w)
            <4>1. writer'[w].wrote = writer[w].wrote /\ writer'[w].pc # "answered"
                BY <1>0, <3>4 DEF Detach, Invalidate, Writer
            <4> QED BY <3>0, <4>1
        <3>5. CASE ReadBack(w)
            <4>1. writer'[w].wrote = writer[w].wrote /\ writer'[w].answer = primary
                BY <1>0, <3>5 DEF ReadBack, freshRead, Writer
            <4> QED BY <3>0, <4>1
        <3>6. CASE WriteReplies(w)
            <4>1. writer'[w].wrote = Zero /\ writer'[w].pc = "idle"
                BY <1>0, <3>6 DEF WriteReplies, IdleWriter
            <4> QED BY <1>0, <3>0, <4>1
        <3> QED BY <1>2, <3>1, <3>2, <3>3, <3>4, <3>5, <3>6 DEF WriteStep
    <2>3. ASSUME NEW v \in Writers, NEW n \in Namespaces, v # w
          PROVE  /\ writer'[v].wrote[n] <= primary'[n]
                 /\ writer'[v].pc = "answered" => writer'[v].wrote[n] <= writer'[v].answer[n]
        <3>1. writer[v].wrote[n] \in Nat /\ writer[v].wrote[n] <= primary[n]
            BY <1>0 DEF OwnWrites, Writer, View
        <3> QED BY <2>1, <2>3, <3>1, PrimaryNeverShrinks DEF OwnWrites
    <2> QED BY <2>2, <2>3 DEF OwnWrites
<1>3. ASSUME NEW r \in Readers, ReadStep(r) PROVE UNCHANGED writer
    BY <1>3 DEF ReadStep, BeginRead, CacheHit, CacheMiss, TakeEpoch, TakeVersion, GiveUp,
                Store, Reply, JoinFlight, StartFlight
<1>4. ASSUME NEW f \in Flights, FlightStep(f) \/ PollReads(f) PROVE UNCHANGED writer
    BY <1>4 DEF FlightStep, FlightReads, FlightFallsBack, FlightFinishes, FlightFails,
                PollReads
<1>5. ASSUME NEW n \in Namespaces, ExternalWrite(n) \/ Replicate(n) PROVE UNCHANGED writer
    BY <1>5 DEF ExternalWrite, Replicate
<1>6. ASSUME ReplicaRetried \/ PollApplies \/ UNCHANGED vars PROVE UNCHANGED writer
    BY <1>6 DEF ReplicaRetried, PollApplies, vars
<1> QED BY <1>1, <1>2, <1>3, <1>4, <1>5, <1>6 DEF Next

\* The answer to a write reflects that write, on a server with a replica that
\* lags or is down as well: the read back goes to the primary.
THEOREM WritesSeeThemselves == Spec => []WriteSeesItself
<1>1. Init => OwnWrites
    BY DEF Init, OwnWrites, IdleWriter, Zero
<1>2. TypeOK /\ OwnWrites /\ [Next]_vars => OwnWrites'
    BY OwnWritesStep
<1>3. TypeOK /\ OwnWrites => WriteSeesItself
    <2> SUFFICES ASSUME TypeOK, OwnWrites, NEW w \in Writers, writer[w].pc = "answered"
                 PROVE  Reflects(writer[w].answer, writer[w].wrote, writer[w].scope)
        BY DEF WriteSeesItself
    <2>1. Covers(writer[w].scope) \subseteq Namespaces
        BY CoversNamespaces DEF TypeOK, Writer
    <2> QED BY <2>1 DEF OwnWrites, Reflects
<1> QED BY <1>1, <1>2, <1>3, TypeCorrect, PTL DEF Spec

-----------------------------------------------------------------------------
(* A list is stamped no newer than its rows. *)

\* What the poller, the flights and the stamps know has happened.
Observed ==
    /\ \A n \in Namespaces : polled[n] <= primary[n] /\ poll.view[n] <= primary[n]
    /\ \A f \in Flights, n \in Namespaces : flight[f].view[n] <= primary[n]
    /\ \A r \in Readers, n \in Namespaces : reader[r].stamp[n] <= primary[n]

\* Where what is known after a step comes from.
LEMMA Sources ==
    ASSUME TypeOK, FlightsMatch, [Next]_vars
    PROVE  /\ polled' \in {polled, poll.view}
           /\ poll'.view \in {poll.view, Zero} \cup {flight[f].view : f \in Flights}
           /\ \A f \in Flights : flight'[f].view \in {flight[f].view, Zero, primary}
           /\ \A r \in Readers : reader'[r].stamp \in {reader[r].stamp, polled, Zero}
<1> USE DEF database, cache, flights, polling
<1>0. /\ flight \in [Flights -> Flight] /\ reader \in [Readers -> Reader]
      /\ poll \in Poll
      /\ \A f \in Flights : flight[f] \in Flight
      /\ \A r \in Readers : reader[r] \in Reader
    BY DEF TypeOK
<1> DEFINE PollSource == poll'.view \in {poll.view, Zero} \cup {flight[f].view : f \in Flights}
           FlightSource == \A f \in Flights : flight'[f].view \in {flight[f].view, Zero, primary}
           ReaderSource == \A r \in Readers :
                               reader'[r].stamp \in {reader[r].stamp, polled, Zero}
<1>1. polled' \in {polled, poll.view}
    <2>1. CASE PollApplies
        BY <2>1 DEF PollApplies
    <2>2. ASSUME ~PollApplies PROVE polled' = polled
        BY <2>2 DEF Next, vars, ReadStep, FlightStep, WriteStep, BeginRead, CacheHit, CacheMiss,
               TakeEpoch, TakeVersion, JoinFlight, StartFlight, GiveUp, Store, Reply,
               FlightReads, FlightFallsBack, FlightFinishes, FlightFails, BeginWrite, Commit,
               WriteFails, Detach, Invalidate, ReadBack, WriteReplies, ExternalWrite,
               Replicate, ReplicaRetried, PollReads
    <2> QED BY <2>1, <2>2
<1>2. ASSUME NEW f \in Flights, NEW k \in Keys, start(k, f)
      PROVE  FlightSource
    <2>1. \A g \in Flights : g # f => flight'[g] = flight[g]
        BY <1>0, <1>2 DEF start
    <2>2. flight'[f] = [step |-> "running", key |-> k, pool |-> poolFor,
                        view |-> Zero, detached |-> FALSE]
        BY <1>0, <1>2 DEF start
    <2> QED BY <2>1, <2>2
<1>3. ASSUME NEW r \in Readers, ReadStep(r)
      PROVE  PollSource /\ FlightSource /\ ReaderSource
    <2>1. UNCHANGED poll
        BY <1>3 DEF ReadStep, BeginRead, CacheHit, CacheMiss, TakeEpoch, TakeVersion,
                    JoinFlight, StartFlight, GiveUp, Store, Reply
    <2>2. FlightSource
        <3>1. ASSUME NEW f \in Flights, StartFlight(r, f) PROVE FlightSource
            <4>1. reader[r].key \in Keys
                BY <1>0 DEF Reader
            <4> QED BY <1>2, <3>1, <4>1 DEF StartFlight
        <3>2. ASSUME NEW f \in Flights, JoinFlight(r, f) PROVE FlightSource
            BY <3>2 DEF JoinFlight, join
        <3>3. ASSUME UNCHANGED flight PROVE FlightSource
            BY <3>3
        <3> QED BY <1>3, <3>1, <3>2, <3>3
                DEF ReadStep, BeginRead, CacheHit, CacheMiss, TakeEpoch, TakeVersion, GiveUp,
                    Store, Reply
    <2>3. \A s \in Readers : s # r => reader'[s] = reader[s]
        BY <1>0, <1>3 DEF ReadStep, BeginRead, CacheHit, CacheMiss, TakeEpoch, TakeVersion,
                    JoinFlight, StartFlight, GiveUp, Store, Reply
    <2>4. reader'[r].stamp \in {reader[r].stamp, polled, Zero}
        <3>1. CASE GiveUp(r) \/ Reply(r)
            <4>1. reader'[r] = IdleReader
                BY <1>0, <3>1 DEF GiveUp, Reply
            <4> QED BY <4>1 DEF IdleReader
        <3>2. CASE TakeVersion(r)
            <4>1. PICK stamp \in {polled, Zero} :
                      reader' = [reader EXCEPT ![r] = [@ EXCEPT !.pc = "query", !.stamp = stamp]]
                BY <3>2 DEF TakeVersion
            <4>2. reader'[r].stamp = stamp
                BY <1>0, <4>1 DEF Reader
            <4> QED BY <4>1, <4>2
        <3>3. ASSUME NEW k \in Keys, BeginRead(r, k) PROVE reader'[r].stamp = reader[r].stamp
            BY <1>0, <3>3 DEF BeginRead, Reader
        <3>4. CASE CacheHit(r) \/ CacheMiss(r) \/ TakeEpoch(r) \/ Store(r)
            <4>1. CASE CacheHit(r)
                BY <1>0, <4>1 DEF CacheHit, Reader
            <4>2. CASE CacheMiss(r) \/ Store(r)
                <5>1. PICK pc : reader' = [reader EXCEPT ![r] = [@ EXCEPT !.pc = pc]]
                    BY <4>2 DEF CacheMiss, Store
                <5> QED BY <1>0, <5>1 DEF Reader
            <4>3. CASE TakeEpoch(r)
                BY <1>0, <4>3 DEF TakeEpoch, Reader
            <4> QED BY <3>4, <4>1, <4>2, <4>3
        <3>5. ASSUME NEW f \in Flights, JoinFlight(r, f) \/ StartFlight(r, f)
              PROVE  reader'[r].stamp = reader[r].stamp
            BY <1>0, <3>5, ZenonT(40) DEF JoinFlight, StartFlight, Reader
        <3> QED BY <1>3, <3>1, <3>2, <3>3, <3>4, <3>5 DEF ReadStep
    <2> QED BY <2>1, <2>2, <2>3, <2>4
<1>4. ASSUME NEW f \in Flights, FlightStep(f)
      PROVE  PollSource /\ FlightSource /\ ReaderSource
    <2>1. CASE FlightReads(f) \/ FlightFallsBack(f)
        <3>1. flight' = [flight EXCEPT ![f] = [@ EXCEPT !.step = "answered", !.view = primary]]
            BY <2>1 DEF FlightReads, FlightFallsBack, FlightsMatch
        <3>2. FlightSource
            BY <1>0, <3>1 DEF Flight
        <3> QED BY <2>1, <3>2 DEF FlightReads, FlightFallsBack
    <2>2. CASE FlightFinishes(f) \/ FlightFails(f)
        <3>1. flight' = [flight EXCEPT ![f] = UnusedFlight]
            BY <2>2 DEF FlightFinishes, FlightFails, release
        <3>2. FlightSource
            BY <1>0, <3>1 DEF UnusedFlight
        <3>3. PollSource
            <4>1. poll' \in {poll, IdlePoll, [pc |-> "apply", flight |-> NoFlight,
                                             view |-> flight[f].view]}
                BY <2>2 DEF FlightFinishes, FlightFails, release
            <4> QED BY <4>1 DEF IdlePoll
        <3>4. CASE FlightFinishes(f)
            <4>1. reader' = [r \in Readers |->
                      IF reader[r].pc = "wait" /\ reader[r].flight = f
                      THEN [reader[r] EXCEPT !.pc = "store", !.flight = NoFlight,
                                             !.view = flight[f].view]
                      ELSE reader[r]]
                BY <3>4 DEF FlightFinishes, release
            <4>2. ReaderSource
                BY <1>0, <4>1 DEF Reader
            <4> QED BY <3>2, <3>3, <4>2
        <3>5. CASE FlightFails(f)
            <4>1. reader' = [r \in Readers |->
                      IF reader[r].pc = "wait" /\ reader[r].flight = f
                      THEN IdleReader ELSE reader[r]]
                BY <3>5 DEF FlightFails, release
            <4>2. ReaderSource
                BY <1>0, <4>1 DEF IdleReader
            <4> QED BY <3>2, <3>3, <4>2
        <3> QED BY <2>2, <3>4, <3>5
    <2> QED BY <1>4, <2>1, <2>2 DEF FlightStep
<1>5. ASSUME NEW w \in Writers, WriteStep(w)
      PROVE  PollSource /\ FlightSource /\ ReaderSource
    <2>1. UNCHANGED <<poll, reader>>
        BY <1>5 DEF WriteStep, BeginWrite, Commit, WriteFails, Detach, Invalidate, ReadBack,
                    WriteReplies
    <2>2. FlightSource
        <3>1. CASE Detach(w)
            <4>1. \A f \in Flights : \/ flight'[f] = flight[f]
                                     \/ flight'[f] = [flight[f] EXCEPT !.detached = TRUE]
                BY <3>1 DEF Detach
            <4> QED BY <1>0, <4>1 DEF Flight
        <3> QED BY <1>5, <3>1 DEF WriteStep, BeginWrite, Commit, WriteFails, Invalidate,
                    ReadBack, WriteReplies
    <2> QED BY <2>1, <2>2
<1>6. ASSUME NEW n \in Namespaces, ExternalWrite(n) \/ Replicate(n)
      PROVE  PollSource /\ FlightSource /\ ReaderSource
    BY <1>6 DEF ExternalWrite, Replicate
<1>7. CASE ReplicaRetried \/ UNCHANGED vars
    BY <1>1, <1>7 DEF ReplicaRetried, vars
<1>8. ASSUME NEW f \in Flights, PollReads(f)
      PROVE  PollSource /\ FlightSource /\ ReaderSource
    <2>1. UNCHANGED reader /\ poll'.view = poll.view
        BY <1>0, <1>8 DEF PollReads, Poll
    <2>2. FlightSource
        BY <1>2, <1>8, ScopeAssumption DEF PollReads, join
    <2> QED BY <2>1, <2>2
<1>9. CASE PollApplies
    BY <1>1, <1>9 DEF PollApplies, IdlePoll
<1> QED BY <1>1, <1>3, <1>4, <1>5, <1>6, <1>7, <1>8, <1>9 DEF Next

LEMMA ObservedStep ==
    ASSUME TypeOK, TypeOK', FlightsMatch, Observed, [Next]_vars
    PROVE  Observed'
<1>0. /\ \A n \in Namespaces : Zero[n] = 0
      /\ \A n \in Namespaces : primary[n] \in Nat /\ primary'[n] \in Nat
                               /\ primary[n] <= primary'[n]
    BY PrimaryNeverShrinks DEF Zero
<1>1. ASSUME NEW v \in View, NEW n \in Namespaces, v[n] <= primary[n]
      PROVE  v[n] <= primary'[n]
    BY <1>0, <1>1 DEF View
<1>2. /\ primary \in View /\ polled \in View /\ poll.view \in View /\ Zero \in View
      /\ \A f \in Flights : flight[f].view \in View
      /\ \A r \in Readers : reader[r].stamp \in View
    BY IdleTypes DEF TypeOK, Poll, Flight, Reader
<1>3. \A n \in Namespaces : Zero[n] <= primary[n] /\ primary[n] <= primary[n]
    BY <1>0
<1>4. ASSUME NEW n \in Namespaces PROVE polled'[n] <= primary'[n]
    BY <1>1, <1>2, Sources DEF Observed
<1>5. ASSUME NEW n \in Namespaces PROVE poll'.view[n] <= primary'[n]
    <2>1. PICK v \in View : poll'.view = v /\ v[n] <= primary[n]
        BY <1>2, <1>3, Sources DEF Observed
    <2> QED BY <1>1, <2>1
<1>6. ASSUME NEW f \in Flights, NEW n \in Namespaces PROVE flight'[f].view[n] <= primary'[n]
    <2>1. PICK v \in View : flight'[f].view = v /\ v[n] <= primary[n]
        BY <1>2, <1>3, Sources DEF Observed
    <2> QED BY <1>1, <2>1
<1>7. ASSUME NEW r \in Readers, NEW n \in Namespaces PROVE reader'[r].stamp[n] <= primary'[n]
    <2>1. PICK v \in View : reader'[r].stamp = v /\ v[n] <= primary[n]
        BY <1>2, <1>3, Sources DEF Observed
    <2> QED BY <1>1, <2>1
<1> QED BY <1>4, <1>5, <1>6, <1>7 DEF Observed

\* A reader leads only the flight it waits for or has its rows from; those rows
\* were read after its stamp was taken.
Stamped(r) ==
    reader[r].led =>
        /\ reader[r].pc \in {"wait", "store", "answered"}
        /\ reader[r].pc = "wait" /\ flight[reader[r].flight].step = "answered" =>
               \A n \in Namespaces :
                   reader[r].stamp[n] <= flight[reader[r].flight].view[n]
        /\ reader[r].pc \in {"store", "answered"} =>
               \A n \in Namespaces : reader[r].stamp[n] <= reader[r].view[n]

LEMMA StampedKept ==
    ASSUME NEW r \in Readers, Stamped(r), reader'[r] = reader[r],
           reader[r].pc = "wait" =>
               /\ flight'[reader[r].flight].step = flight[reader[r].flight].step
               /\ flight'[reader[r].flight].view = flight[reader[r].flight].view
    PROVE  Stamped(r)'
BY DEF Stamped

LEMMA StampedReadStep ==
    ASSUME TypeOK, FlightsMatch, NEW r \in Readers, ReadStep(r),
           \A s \in Readers : Stamped(s)
    PROVE  \A s \in Readers : Stamped(s)'
<1> USE DEF database, cache, flights, polling
<1>0. /\ reader \in [Readers -> Reader] /\ reader[r] \in Reader
      /\ flight \in [Flights -> Flight]
    BY DEF TypeOK
<1>1. ASSUME NEW s \in Readers, reader[s].pc = "wait"
      PROVE  flight'[reader[s].flight] = flight[reader[s].flight]
    <2>1. /\ reader[s].flight \in Flights
          /\ flight[reader[s].flight].step # "unused"
        BY <1>1 DEF FlightsMatch
    <2>2. ASSUME NEW f \in Flights, StartFlight(r, f)
          PROVE  flight'[reader[s].flight] = flight[reader[s].flight]
        BY <1>0, <2>1, <2>2 DEF StartFlight, start
    <2>3. ASSUME UNCHANGED flight PROVE flight'[reader[s].flight] = flight[reader[s].flight]
        BY <2>3
    <2> QED BY <2>2, <2>3 DEF ReadStep, BeginRead, CacheHit, CacheMiss, TakeEpoch, TakeVersion,
               GiveUp, Store, Reply, JoinFlight, join
<1>2. ASSUME NEW s \in Readers, s # r PROVE Stamped(s)'
    <2>1. reader'[s] = reader[s]
        BY <1>0, <1>2 DEF ReadStep, BeginRead, CacheHit, CacheMiss, TakeEpoch, TakeVersion,
               JoinFlight, StartFlight, GiveUp, Store, Reply
    <2> QED BY <1>1, <2>1, StampedKept
<1>3. Stamped(r)'
    <2>1. CASE GiveUp(r) \/ Reply(r)
        <3>1. reader'[r] = IdleReader
            BY <1>0, <2>1 DEF GiveUp, Reply
        <3> QED BY <3>1 DEF Stamped, IdleReader
    <2>2. CASE Store(r)
        <3>1. /\ reader[r].pc = "store"
              /\ reader'[r] = [reader[r] EXCEPT !.pc = "answered"]
            BY <1>0, <2>2 DEF Store
        <3>2. /\ reader'[r].led = reader[r].led /\ reader'[r].stamp = reader[r].stamp
              /\ reader'[r].view = reader[r].view /\ reader'[r].pc = "answered"
            BY <1>0, <3>1 DEF Reader
        <3> QED BY <3>1, <3>2 DEF Stamped
    <2>3. ASSUME NEW f \in Flights, JoinFlight(r, f) PROVE Stamped(r)'
        <3>1. reader'[r] = [reader[r] EXCEPT !.pc = "wait", !.flight = f, !.led = FALSE]
            BY <1>0, <2>3 DEF JoinFlight
        <3>2. reader'[r].led = FALSE
            BY <1>0, <3>1 DEF Reader
        <3> QED BY <3>2 DEF Stamped
    <2>4. ASSUME NEW f \in Flights, StartFlight(r, f) PROVE Stamped(r)'
        <3>1. reader'[r] = [reader[r] EXCEPT !.pc = "wait", !.flight = f, !.led = TRUE]
            BY <1>0, <2>4 DEF StartFlight
        <3>2. reader'[r].pc = "wait" /\ reader'[r].flight = f
            BY <1>0, <3>1 DEF Reader
        <3>3. flight'[f] = [step |-> "running", key |-> reader[r].key, pool |-> poolFor,
                            view |-> Zero, detached |-> FALSE]
            BY <1>0, <2>4 DEF StartFlight, start
        <3> QED BY <3>2, <3>3 DEF Stamped
    <2>5. ASSUME reader[r].pc \in {"idle", "lookup", "epoch", "version"},
                 reader'[r].led = reader[r].led
          PROVE  Stamped(r)'
        BY <2>5 DEF Stamped
    <2>6. ASSUME NEW k \in Keys, BeginRead(r, k) PROVE Stamped(r)'
        BY <1>0, <2>5, <2>6 DEF BeginRead, Reader
    <2>7. CASE CacheHit(r)
        BY <1>0, <2>5, <2>7 DEF CacheHit, Reader
    <2>8. CASE CacheMiss(r)
        BY <1>0, <2>5, <2>8 DEF CacheMiss, Reader
    <2>9. CASE TakeEpoch(r)
        BY <1>0, <2>5, <2>9 DEF TakeEpoch, Reader
    <2>10. CASE TakeVersion(r)
        <3>1. PICK stamp :
                  reader' = [reader EXCEPT ![r] = [@ EXCEPT !.pc = "query", !.stamp = stamp]]
            BY <2>10 DEF TakeVersion
        <3> QED BY <1>0, <2>5, <2>10, <3>1 DEF TakeVersion, Reader
    <2> QED BY <2>1, <2>2, <2>3, <2>4, <2>6, <2>7, <2>8, <2>9, <2>10 DEF ReadStep
<1> QED BY <1>2, <1>3

LEMMA StampedFlightStep ==
    ASSUME TypeOK, FlightsMatch, Observed, NEW f \in Flights, FlightStep(f),
           \A r \in Readers : Stamped(r)
    PROVE  \A r \in Readers : Stamped(r)'
<1> USE DEF database, cache, flights, polling
<1>0. /\ reader \in [Readers -> Reader]
      /\ \A r \in Readers : reader[r] \in Reader
      /\ flight \in [Flights -> Flight] /\ flight[f] \in Flight
    BY DEF TypeOK
<1> SUFFICES ASSUME NEW r \in Readers PROVE Stamped(r)'
    OBVIOUS
<1>1. CASE FlightReads(f) \/ FlightFallsBack(f)
    <2>1. /\ flight' = [flight EXCEPT ![f] = [@ EXCEPT !.step = "answered", !.view = primary]]
          /\ reader'[r] = reader[r]
        BY <1>1 DEF FlightReads, FlightFallsBack, FlightsMatch
    <2>2. CASE reader[r].pc = "wait" /\ reader[r].flight = f
        <3>1. flight'[reader[r].flight].view = primary
            BY <1>0, <2>1, <2>2 DEF Flight
        <3> QED BY <2>1, <2>2, <3>1 DEF Stamped, Observed
    <2>3. CASE ~(reader[r].pc = "wait" /\ reader[r].flight = f)
        <3>1. reader[r].pc = "wait" => flight'[reader[r].flight] = flight[reader[r].flight]
            BY <1>0, <2>1, <2>3 DEF FlightsMatch
        <3> QED BY <2>1, <3>1, StampedKept
    <2> QED BY <2>2, <2>3
<1>2. CASE FlightFinishes(f) \/ FlightFails(f)
    <2>1. flight' = [flight EXCEPT ![f] = UnusedFlight]
        BY <1>2 DEF FlightFinishes, FlightFails, release
    <2>2. CASE ~(reader[r].pc = "wait" /\ reader[r].flight = f)
        <3>1. reader'[r] = reader[r]
            BY <1>2, <2>2 DEF FlightFinishes, FlightFails, release
        <3>2. reader[r].pc = "wait" => flight'[reader[r].flight] = flight[reader[r].flight]
            BY <1>0, <2>1, <2>2 DEF FlightsMatch
        <3> QED BY <3>1, <3>2, StampedKept
    <2>3. CASE reader[r].pc = "wait" /\ reader[r].flight = f /\ FlightFinishes(f)
        <3>1. reader'[r] = [reader[r] EXCEPT !.pc = "store", !.flight = NoFlight,
                                             !.view = flight[f].view]
            BY <2>3 DEF FlightFinishes, release
        <3>2. /\ reader'[r].led = reader[r].led /\ reader'[r].stamp = reader[r].stamp
              /\ reader'[r].view = flight[f].view /\ reader'[r].pc = "store"
            BY <1>0, <3>1 DEF Reader
        <3>3. flight[f].step = "answered"
            BY <2>3 DEF FlightFinishes
        <3> QED BY <2>3, <3>2, <3>3 DEF Stamped
    <2>4. CASE reader[r].pc = "wait" /\ reader[r].flight = f /\ FlightFails(f)
        <3>1. reader'[r] = IdleReader
            BY <2>4 DEF FlightFails, release
        <3> QED BY <3>1 DEF Stamped, IdleReader
    <2> QED BY <1>2, <2>2, <2>3, <2>4
<1> QED BY <1>1, <1>2 DEF FlightStep

LEMMA StampedStep ==
    ASSUME TypeOK, FlightsMatch, Observed, [Next]_vars, \A r \in Readers : Stamped(r)
    PROVE  \A r \in Readers : Stamped(r)'
<1> USE DEF database, cache, flights, polling
<1>0. flight \in [Flights -> Flight] /\ \A f \in Flights : flight[f] \in Flight
    BY DEF TypeOK
<1>1. ASSUME UNCHANGED <<reader, flight>> PROVE \A r \in Readers : Stamped(r)'
    BY <1>1, StampedKept
<1>2. ASSUME NEW w \in Writers, WriteStep(w) PROVE \A r \in Readers : Stamped(r)'
    <2>1. CASE Detach(w)
        <3>1. \A f \in Flights : \/ flight'[f] = flight[f]
                                 \/ flight'[f] = [flight[f] EXCEPT !.detached = TRUE]
            BY <2>1 DEF Detach
        <3>2. \A f \in Flights : /\ flight'[f].step = flight[f].step
                                 /\ flight'[f].view = flight[f].view
            BY <1>0, <3>1 DEF Flight
        <3>3. UNCHANGED reader
            BY <2>1 DEF Detach
        <3> QED BY <3>2, <3>3, StampedKept DEF FlightsMatch
    <2> QED BY <1>1, <1>2, <2>1 DEF WriteStep, BeginWrite, Commit, WriteFails, Invalidate,
               ReadBack, WriteReplies
<1>3. ASSUME NEW f \in Flights, PollReads(f) PROVE \A r \in Readers : Stamped(r)'
    <2>1. UNCHANGED reader
        BY <1>3 DEF PollReads
    <2>2. ASSUME NEW r \in Readers, reader[r].pc = "wait"
          PROVE  flight'[reader[r].flight] = flight[reader[r].flight]
        <3>1. /\ reader[r].flight \in Flights
              /\ flight[reader[r].flight].step # "unused"
            BY <2>2 DEF FlightsMatch
        <3> QED BY <1>0, <1>3, <3>1 DEF PollReads, join, start
    <2> QED BY <2>1, <2>2, StampedKept
<1>4. ASSUME NEW n \in Namespaces, ExternalWrite(n) \/ Replicate(n)
      PROVE  \A r \in Readers : Stamped(r)'
    BY <1>1, <1>4 DEF ExternalWrite, Replicate
<1>5. CASE ReplicaRetried \/ PollApplies \/ UNCHANGED vars
    BY <1>1, <1>5 DEF ReplicaRetried, PollApplies, vars
<1> QED BY <1>2, <1>3, <1>4, <1>5, StampedReadStep, StampedFlightStep DEF Next

\* What OwnStampNotAhead needs, in projections without a replica.
StampsHonest == ~HasReplica => Observed /\ \A r \in Readers : Stamped(r)

\* A list whose rows come from a query of its own is stamped no newer than those
\* rows, whatever is committed, polled, detached and joined meanwhile: a watch
\* resumed from the stamp misses nothing.
THEOREM StampsNotAhead == Spec => []OwnStampNotAhead
<1>1. Init => StampsHonest
    BY DEF Init, StampsHonest, Observed, Stamped, IdleReader, UnusedFlight, IdlePoll, Zero
<1>2. TypeOK /\ TypeOK' /\ FreshnessInv /\ StampsHonest /\ [Next]_vars => StampsHonest'
    BY ObservedStep, StampedStep DEF FreshnessInv, Fresh, StampsHonest
<1>3. TypeOK /\ StampsHonest => OwnStampNotAhead
    <2> SUFFICES ASSUME TypeOK, ~HasReplica, NEW r \in Readers, Stamped(r),
                        reader[r].pc \in {"store", "answered"}, reader[r].led
                 PROVE  Reflects(reader[r].view, reader[r].stamp, ScopeOf[reader[r].key])
        BY DEF OwnStampNotAhead, StampsHonest
    <2>1. Covers(ScopeOf[reader[r].key]) \subseteq Namespaces
        BY CoversNamespaces, ScopeAssumption DEF TypeOK, Reader
    <2> QED BY <2>1 DEF Stamped, Reflects
<1> QED BY <1>1, <1>2, <1>3, TypeCorrect, Freshness, PTL DEF Spec
=============================================================================
