--------------------------- MODULE SurfaceProofs ---------------------------
(* Proofs about Surface for every number of projections, keys, requests and *)
(* admission checks, and any number of edits and failures.                  *)
EXTENDS Surface, TLAPS

Storage == [name : Names, rev : Nat, spec : Specs, pools : SUBSET (Keys \X Nat)]
MaybeStorage == Storage \cup {None}
MaybeSpec == Specs \cup {None}

-----------------------------------------------------------------------------
(* What holds of the surface. *)

\* A storage of projection n that was compiled and not destroyed.
Live(s, n) == s # None => s.name = n /\ s.rev <= revs[n] /\ s \notin destroyed

Syncing ==
    [pc : {"idle", "compile", "destroy", "retain"}, cands : [Names -> MaybeSpec],
     todo : SUBSET Names, surviving : [Names -> MaybeStorage], retired : SUBSET Storage]

\* What a sync has compiled so far: what it replaces is retired, once, and
\* nothing it means to serve is.
Compiling ==
    /\ \A n \in sync.todo : sync.cands[n] # None /\ sync.surviving[n] = None
    /\ \A s \in sync.retired : s.name \notin sync.todo /\ s # sync.surviving[s.name]
    /\ \A n \in Names : compiled[n] # None /\ sync.surviving[n] \notin {None, compiled[n]} =>
           compiled[n] \in sync.retired

Surfaced ==
    /\ wanted \in [Names -> MaybeSpec]
    /\ revs \in [Names -> Nat]
    /\ compiled \in [Names -> MaybeStorage]
    /\ current = {compiled[n] : n \in {m \in Names : compiled[m] # None}}
    /\ destroyed \subseteq Storage
    /\ sync \in Syncing
    /\ \A s \in destroyed \cup sync.retired : s.rev <= revs[s.name]
    /\ \A n \in Names : Live(compiled[n], n) /\ Live(sync.surviving[n], n)
    /\ sync.pc = "compile" => Compiling
    /\ sync.pc # "compile" => \A n \in Names : sync.surviving[n] = None
    /\ sync.pc = "destroy" => \A n \in Names : compiled[n] \notin sync.retired

-----------------------------------------------------------------------------
(* What holds of requests. *)

Request == [pc : {"idle", "routed", "streaming"}, storage : MaybeStorage, late : BOOLEAN]

\* What has left the surface and is about to be destroyed.
Retiring == IF sync.pc = "destroy" THEN sync.retired ELSE {}

Attached ==
    /\ req \in [Requests -> Request]
    /\ \A r \in Requests :
           /\ req[r].pc # "idle" => req[r].storage \in current \cup destroyed \cup Retiring
           /\ req[r].pc = "streaming" /\ ~req[r].late => req[r].storage \in current \cup Retiring

-----------------------------------------------------------------------------
(* What holds of pools. *)

Issued == {p \in Keys \X Nat : 1 <= p[2] /\ p[2] <= pools[p[1]]}
Cached == {<<k, cache[k]>> : k \in {j \in Keys : cache[j] # 0}}
Check == [pc : {"idle", "asks", "again"}, spec : MaybeSpec, used : SUBSET (Keys \X Nat),
          own : SUBSET (Keys \X Nat), again : BOOLEAN]

\* Every pool has a number of its own, and one owner.
Numbered ==
    /\ pools \in [Keys -> Nat]
    /\ cache \in [Keys -> Nat]
    /\ \A k \in Keys : cache[k] <= pools[k]
    /\ check \in [Checks -> Check]
    /\ \A c \in Checks :
           /\ check[c].pc # "idle" => check[c].spec \in Checked
           /\ check[c].pc # "asks" => check[c].own = {}
           /\ check[c].used \subseteq Issued
           /\ check[c].own \subseteq Issued \ Cached
           /\ \A d \in Checks \ {c} : check[c].own \cap check[d].own = {}

Owned == open = Cached \cup UNION {check[c].own : c \in Checks}

\* A storage stands on the pools the cache has for its keys.
Lodged(s) ==
    s # None =>
        /\ \A k \in keysOf(s.spec) : cache[k] # 0
        /\ s.pools = {<<k, cache[k]>> : k \in keysOf(s.spec)}

\* A check of a specification without a read replica uses one pool.
Single(c) ==
    check[c].pc = "asks" => \E p \in check[c].used : check[c].used = {p} /\ p[1] = check[c].spec.key

Lodging == \A n \in Names : Lodged(compiled[n]) /\ Lodged(sync.surviving[n])

Served ==
    /\ \A c \in Checks : Single(c)
    /\ Lodging
    /\ sync.pc = "idle" /\ ~queued => {k \in Keys : cache[k] # 0} = inUse

-----------------------------------------------------------------------------
(* The surface from sync to sync. *)

LEMMA StorageIsNotNone == None \notin Storage /\ None \notin Specs /\ None \notin Keys
BY SurfaceAssumption DEF Storage

LEMMA NoSyncFields ==
    /\ NoSync \in Syncing
    /\ NoSync.pc = "idle" /\ NoSync.todo = {} /\ NoSync.retired = {}
    /\ \A n \in Names : NoSync.surviving[n] = None /\ NoSync.cands[n] = None
<1>1. [n \in Names |-> None] \in [Names -> MaybeSpec]
    BY DEF MaybeSpec
<1>2. [n \in Names |-> None] \in [Names -> MaybeStorage]
    BY DEF MaybeStorage
<1> QED BY <1>1, <1>2 DEF NoSync, Syncing

\* The step of a sync that settles one projection.
LEMMA CompilesKeeps ==
    ASSUME Surfaced, NEW n \in sync.todo, sync.pc = "compile",
           NEW storage \in MaybeStorage, NEW gone \in SUBSET Storage,
           Compiles(n, storage, gone),
           UNCHANGED <<wanted, destroyed, current, compiled>>,
           revs' \in [Names -> Nat], \A m \in Names : revs[m] <= revs'[m],
           Live(storage, n)',
           gone \subseteq {compiled[n]} \ {storage},
           compiled[n] # None /\ storage \notin {None, compiled[n]} => compiled[n] \in gone
    PROVE  Surfaced'
<1>0. /\ n \in Names /\ sync \in Syncing /\ revs \in [Names -> Nat] /\ Compiling
      /\ compiled \in [Names -> MaybeStorage]
      /\ \A m \in Names : Live(compiled[m], m) /\ Live(sync.surviving[m], m)
    BY DEF Surfaced, Syncing
<1>1. PICK sv : sv = [sync.surviving EXCEPT ![n] = storage]
    OBVIOUS
<1>2. PICK td, rt : td = sync.todo \ {n} /\ rt = sync.retired \cup gone
    OBVIOUS
<1>3. sync' = [sync EXCEPT !.todo = td, !.surviving = sv, !.retired = rt]
    BY <1>0, <1>1, <1>2 DEF Compiles, Syncing
<1>4. /\ sv \in [Names -> MaybeStorage] /\ sv[n] = storage
      /\ \A m \in Names \ {n} : sv[m] = sync.surviving[m]
    BY <1>0, <1>1 DEF Syncing
<1>5. /\ sync' \in Syncing /\ sync'.pc = "compile" /\ sync'.todo = td /\ sync'.surviving = sv
      /\ sync'.retired = rt /\ sync'.cands = sync.cands
    BY <1>0, <1>2, <1>3, <1>4 DEF Syncing
<1>6. ASSUME NEW s \in MaybeStorage, NEW m \in Names, Live(s, m) PROVE Live(s, m)'
    <2>1. s # None => s.rev \in Nat
        BY DEF MaybeStorage, Storage
    <2> QED BY <1>0, <1>6, <2>1 DEF Live
<1>7. ASSUME NEW m \in Names PROVE Live(compiled[m], m)' /\ Live(sync.surviving[m], m)'
    <2>1. Live(compiled[m], m)'
        BY <1>0, <1>6 DEF Live
    <2>2. CASE m = n
        BY <1>4, <1>5, <2>1, <2>2 DEF Live
    <2>3. CASE m # n
        <3>1. sync.surviving[m] \in MaybeStorage /\ sync'.surviving[m] = sync.surviving[m]
            BY <1>0, <1>4, <1>5, <2>3 DEF Syncing
        <3>2. PICK s \in MaybeStorage : s = sync.surviving[m]
            BY <3>1
        <3>3. Live(s, m)'
            BY <1>0, <1>6, <3>2
        <3> QED BY <2>1, <3>1, <3>2, <3>3 DEF Live
    <2> QED BY <2>2, <2>3
<1>8. ASSUME NEW s \in destroyed' \cup sync'.retired PROVE s.rev <= revs'[s.name]
    <2>1. s \in Storage /\ s.rev <= revs[s.name]
        <3>1. CASE s \in gone
            <4>1. s = compiled[n] /\ s \in Storage
                BY <3>1
            <4> QED BY <1>0, <4>1, StorageIsNotNone DEF Live
        <3>2. CASE s \in destroyed \cup sync.retired
            BY <1>0, <3>2 DEF Surfaced, Syncing
        <3> QED BY <1>2, <1>5, <3>1, <3>2
    <2>2. s.name \in Names /\ s.rev \in Nat
        BY <2>1 DEF Storage
    <2> QED BY <1>0, <2>1, <2>2
<1>9. Compiling'
    <2>1. \A m \in td : sync'.cands[m] # None /\ sv[m] = None
        BY <1>0, <1>2, <1>4, <1>5 DEF Compiling, Syncing
    <2>2. ASSUME NEW s \in rt PROVE s.name \notin td /\ s # sv[s.name]
        <3>1. CASE s \in gone
            <4>1. s = compiled[n] /\ s \in Storage /\ s # storage
                BY <3>1
            <4>2. s.name = n
                BY <1>0, <4>1, StorageIsNotNone DEF Live
            <4> QED BY <1>2, <1>4, <4>1, <4>2
        <3>2. CASE s \in sync.retired
            <4>1. s \in Storage /\ s.name \in Names /\ s.name # n /\ s # sync.surviving[s.name]
                  /\ s.name \notin sync.todo
                BY <1>0, <3>2 DEF Compiling, Syncing, Storage
            <4> QED BY <1>2, <1>4, <4>1
        <3> QED BY <1>2, <3>1, <3>2
    <2>3. ASSUME NEW m \in Names, compiled[m] # None, sv[m] \notin {None, compiled[m]}
          PROVE  compiled[m] \in rt
        <3>1. CASE m = n
            BY <1>2, <1>4, <2>3, <3>1
        <3>2. CASE m # n
            BY <1>0, <1>2, <1>4, <2>3, <3>2 DEF Compiling
        <3> QED BY <3>1, <3>2
    <2> QED BY <1>5, <2>1, <2>2, <2>3 DEF Compiling
<1> QED BY <1>5, <1>7, <1>8, <1>9 DEF Surfaced

LEMMA KeysOfSpecs ==
    ASSUME NEW spec \in Specs
    PROVE  keysOf(spec) \subseteq Keys /\ spec.key \in keysOf(spec)
BY SurfaceAssumption DEF keysOf

LEMMA BuiltStorage ==
    ASSUME Numbered, NEW n \in Names, NEW spec \in Specs, revs \in [Names -> Nat]
    PROVE  built(n, spec) \in Storage /\ built(n, spec).name = n
           /\ built(n, spec).rev = revs[n] + 1
<1>1. PICK ps : ps = held(keysOf(spec)) \cup fresh(keysOf(spec))
    OBVIOUS
<1>2. keysOf(spec) \subseteq Keys /\ pools \in [Keys -> Nat] /\ cache \in [Keys -> Nat]
    BY KeysOfSpecs DEF Numbered
<1>3. ps \in SUBSET (Keys \X Nat)
    BY <1>1, <1>2 DEF held, fresh, Missing
<1>4. PICK v : v = revs[n] + 1
    OBVIOUS
<1>5. v \in Nat
    BY <1>4
<1>6. built(n, spec) = [name |-> n, rev |-> v, spec |-> spec, pools |-> ps]
    BY <1>1, <1>4 DEF built
<1> QED BY <1>3, <1>4, <1>5, <1>6 DEF Storage

LEMMA SyncCompilesSurface ==
    ASSUME Surfaced, Numbered, NEW n \in Names, SyncCompiles(n)
    PROVE  Surfaced'
<1>0. /\ sync \in Syncing /\ revs \in [Names -> Nat] /\ compiled \in [Names -> MaybeStorage]
      /\ n \in sync.todo /\ sync.pc = "compile" /\ Compiling
      /\ UNCHANGED <<wanted, destroyed, current, compiled>>
    BY DEF Surfaced, SyncCompiles
<1>1. PICK spec, previous : spec = sync.cands[n] /\ previous = compiled[n]
    OBVIOUS
<1>2. spec \in Specs /\ previous \in MaybeStorage /\ Live(previous, n)
    BY <1>0, <1>1 DEF Syncing, MaybeSpec, Compiling, Surfaced
<1>3. CASE previous # None /\ previous.spec = spec
    <2>1. Compiles(n, previous, {}) /\ UNCHANGED revs
        BY <1>1, <1>3 DEF SyncCompiles
    <2>2. Live(previous, n)'
        BY <1>0, <1>2, <2>1 DEF Live
    <2>3. \A m \in Names : revs[m] <= revs'[m]
        BY <1>0, <2>1
    <2> QED BY <1>0, <1>1, <1>2, <2>1, <2>2, <2>3, CompilesKeeps
<1>4. CASE ~(previous # None /\ previous.spec = spec)
    <2>1. PICK storage : storage = built(n, spec)
        OBVIOUS
    <2>2. PICK gone : gone = {previous} \ {None}
        OBVIOUS
    <2>3. Compiles(n, storage, gone) /\ revs' = [revs EXCEPT ![n] = @ + 1]
        BY <1>1, <1>4, <2>1, <2>2 DEF SyncCompiles
    <2>4. storage \in Storage /\ storage.name = n /\ storage.rev = revs[n] + 1
        BY <1>0, <1>2, <2>1, BuiltStorage
    <2>5. /\ revs' \in [Names -> Nat] /\ revs'[n] = revs[n] + 1 /\ revs[n] \in Nat
          /\ \A m \in Names : revs[m] <= revs'[m]
        BY <1>0, <2>3
    <2>6. ASSUME NEW s \in Storage, s.rev <= revs[s.name] PROVE s # storage
        BY <2>4, <2>5, <2>6
    <2>7. Live(storage, n)'
        <3>1. storage \notin destroyed
            BY <2>4, <2>6 DEF Surfaced
        <3> QED BY <1>0, <2>4, <2>5, <3>1 DEF Live
    <2>8. gone \subseteq {compiled[n]} \ {storage} /\ gone \in SUBSET Storage
        <3>1. previous # None => previous \in Storage /\ previous.rev <= revs[previous.name]
            BY <1>2 DEF MaybeStorage, Live
        <3> QED BY <1>1, <2>2, <2>6, <3>1
    <2>9. compiled[n] # None => compiled[n] \in gone
        BY <1>1, <2>2
    <2> QED BY <1>0, <2>3, <2>4, <2>5, <2>7, <2>8, <2>9, CompilesKeeps DEF MaybeStorage
<1> QED BY <1>3, <1>4

LEMMA SyncFailsSurface ==
    ASSUME Surfaced, NEW n \in Names, NEW storage \in {None, compiled[n]}, Failed(n, storage)
    PROVE  Surfaced'
<1>0. /\ revs \in [Names -> Nat] /\ compiled \in [Names -> MaybeStorage]
      /\ n \in sync.todo /\ sync.pc = "compile"
      /\ UNCHANGED <<wanted, revs, destroyed, current, compiled>>
      /\ Compiles(n, storage, {})
    BY DEF Surfaced, Failed, installed
<1>1. storage \in MaybeStorage /\ Live(storage, n)'
    BY <1>0 DEF Surfaced, Live, MaybeStorage
<1>2. revs' \in [Names -> Nat] /\ \A m \in Names : revs[m] <= revs'[m]
    BY <1>0
<1> QED BY <1>0, <1>1, <1>2, CompilesKeeps

LEMMA SyncStartsSurface ==
    ASSUME Surfaced, SyncStarts
    PROVE  Surfaced'
<1>0. /\ wanted \in [Names -> MaybeSpec] /\ UNCHANGED <<wanted, revs, destroyed, current, compiled>>
    BY DEF Surfaced, SyncStarts, installed
<1>1. PICK td : td = {n \in Names : wanted[n] # None}
    OBVIOUS
<1>2. sync' = [NoSync EXCEPT !.pc = "compile", !.cands = wanted, !.todo = td]
    BY <1>1 DEF SyncStarts
<1>3. /\ sync' \in Syncing /\ sync'.pc = "compile" /\ sync'.cands = wanted /\ sync'.todo = td
      /\ sync'.retired = {} /\ \A n \in Names : sync'.surviving[n] = None
    BY <1>0, <1>1, <1>2, NoSyncFields DEF Syncing
<1>4. Compiling'
    BY <1>1, <1>3 DEF Compiling
<1>5. \A n \in Names : Live(compiled[n], n)' /\ Live(sync.surviving[n], n)'
    BY <1>0, <1>3 DEF Surfaced, Live
<1> QED BY <1>0, <1>3, <1>4, <1>5 DEF Surfaced

\* What is served from now on is nothing that is about to be destroyed.
LEMMA SyncRebuildsSurface ==
    ASSUME Surfaced, NEW w \in SUBSET Names, SyncRebuilds(w)
    PROVE  Surfaced'
<1>0. /\ sync \in Syncing /\ revs \in [Names -> Nat] /\ compiled \in [Names -> MaybeStorage]
      /\ sync.pc = "compile" /\ Compiling
      /\ \A n \in Names : Live(compiled[n], n) /\ Live(sync.surviving[n], n)
      /\ UNCHANGED <<wanted, revs, destroyed>>
      /\ \A n \in w : sync.surviving[n] # None
      /\ current' = {sync.surviving[n] : n \in w}
      /\ compiled' = [n \in Names |-> IF n \in w THEN sync.surviving[n] ELSE None]
    BY DEF Surfaced, SyncRebuilds, Resolved
<1>1. PICK rt : rt = retired(w)
    OBVIOUS
<1>2. rt \in SUBSET Storage
    BY <1>0, <1>1 DEF retired, Syncing, MaybeStorage
<1>3. sync' = [NoSync EXCEPT !.pc = "destroy", !.retired = rt]
    BY <1>1 DEF SyncRebuilds
<1>4. /\ sync' \in Syncing /\ sync'.pc = "destroy" /\ sync'.retired = rt
      /\ \A n \in Names : sync'.surviving[n] = None
    BY <1>2, <1>3, NoSyncFields DEF Syncing
<1>5. compiled' \in [Names -> MaybeStorage]
    BY <1>0 DEF Syncing, MaybeStorage
<1>6. ASSUME NEW n \in Names PROVE Live(compiled[n], n)' /\ Live(sync.surviving[n], n)'
    BY <1>0, <1>4 DEF Live
<1>7. current' = {compiled'[n] : n \in {m \in Names : compiled'[m] # None}}
    BY <1>0
<1>8. ASSUME NEW s \in rt PROVE s.rev <= revs[s.name]
    <2>1. CASE s \in sync.retired
        BY <2>1 DEF Surfaced
    <2>2. CASE s \notin sync.retired
        <3>1. PICK n \in Names : s \in {sync.surviving[n], compiled[n]} /\ s # None
            BY <1>1, <2>2 DEF retired
        <3> QED BY <1>0, <3>1 DEF Live
    <2> QED BY <2>1, <2>2
<1>9. ASSUME NEW n \in Names PROVE compiled'[n] \notin rt
    <2>1. CASE n \notin w
        BY <1>0, <1>2, <2>1, StorageIsNotNone
    <2>2. CASE n \in w
        <3>1. PICK s : s = sync.surviving[n]
            OBVIOUS
        <3>2. s # None /\ s.name = n /\ compiled'[n] = s
            BY <1>0, <2>2, <3>1 DEF Live
        <3>3. s \notin sync.retired
            BY <1>0, <3>1, <3>2 DEF Compiling
        <3>4. ASSUME NEW m \in Names \ w PROVE s # sync.surviving[m] /\ s # compiled[m]
            BY <1>0, <2>2, <3>2 DEF Live
        <3> QED BY <1>1, <3>2, <3>3, <3>4 DEF retired
    <2> QED BY <2>1, <2>2
<1> QED BY <1>0, <1>4, <1>5, <1>6, <1>7, <1>8, <1>9 DEF Surfaced

LEMMA SyncEndsSurface ==
    ASSUME Surfaced, SyncFailsToRebuild \/ SyncDestroys \/ SyncRetains
    PROVE  Surfaced'
<1>0. /\ sync \in Syncing
      /\ UNCHANGED <<wanted, revs, current, compiled>>
      /\ destroyed \subseteq Storage
    BY DEF Surfaced, SyncFailsToRebuild, SyncDestroys, SyncRetains, installed
<1>1. /\ sync' \in Syncing /\ sync'.pc \in {"idle", "retain"} /\ sync'.retired = {}
      /\ \A n \in Names : sync'.surviving[n] = None
    <2>1. CASE SyncDestroys
        <3>1. sync' = [NoSync EXCEPT !.pc = "retain"]
            BY <2>1 DEF SyncDestroys
        <3> QED BY <3>1, NoSyncFields DEF Syncing
    <2>2. CASE SyncFailsToRebuild \/ SyncRetains
        BY <2>2, NoSyncFields DEF SyncFailsToRebuild, SyncRetains
    <2> QED BY <2>1, <2>2
<1>2. /\ destroyed' \subseteq destroyed \cup sync.retired
      /\ \A n \in Names : Live(compiled[n], n)'
    <2>1. CASE SyncDestroys
        <3>1. destroyed' = destroyed \cup sync.retired
            BY <2>1 DEF SyncDestroys
        <3>2. \A n \in Names : compiled[n] \notin sync.retired
            BY <2>1 DEF SyncDestroys, Surfaced
        <3> QED BY <1>0, <3>1, <3>2 DEF Surfaced, Live
    <2>2. CASE SyncFailsToRebuild \/ SyncRetains
        <3>1. UNCHANGED destroyed
            BY <2>2 DEF SyncFailsToRebuild, SyncRetains, installed
        <3> QED BY <1>0, <3>1 DEF Surfaced, Live
    <2> QED BY <2>1, <2>2
<1>3. \A n \in Names : Live(sync.surviving[n], n)'
    BY <1>1 DEF Live
<1>4. destroyed' \subseteq Storage
    BY <1>0, <1>2 DEF Syncing
<1> QED BY <1>0, <1>1, <1>2, <1>3, <1>4 DEF Surfaced

LEMMA SurfaceKept ==
    ASSUME Surfaced, wanted' \in [Names -> MaybeSpec],
           UNCHANGED <<revs, destroyed, current, compiled, sync>>
    PROVE  Surfaced'
BY DEF Surfaced, Compiling, Live

LEMMA RequestsKeepSurface ==
    ASSUME NEW r \in Requests, (\E s \in current : Arrive(r, s)) \/ Leave(r) \/ Watch(r)
    PROVE  UNCHANGED <<wanted, revs, destroyed, current, compiled, sync, queued, check, opened>>
BY DEF Arrive, Leave, Watch, installed, opened

Checkings(c) ==
    \/ \E s \in Checked : CheckBegins(c, s)
    \/ CheckEnds(c) \/ CheckFindsClosed(c) \/ CheckRetries(c)

LEMMA ChecksKeepSurface ==
    ASSUME NEW c \in Checks, Checkings(c)
    PROVE  UNCHANGED <<wanted, revs, destroyed, current, compiled, sync, queued, req>>
BY DEF Checkings, CheckBegins, CheckEnds, CheckFindsClosed, CheckRetries, Checking, installed

LEMMA SurfacedStep ==
    ASSUME Surfaced, Numbered, [Next]_vars
    PROVE  Surfaced'
<1>0. wanted \in [Names -> MaybeSpec]
    BY DEF Surfaced
<1>1. CASE UNCHANGED vars
    BY <1>0, <1>1, SurfaceKept DEF vars
<1>2. ASSUME NEW n \in Names, NEW s \in Specs \cup {None}, Edit(n, s) PROVE Surfaced'
    <2>1. wanted' \in [Names -> MaybeSpec] /\ UNCHANGED <<revs, destroyed, current, compiled, sync>>
        BY <1>0, <1>2 DEF Edit, MaybeSpec, installed
    <2> QED BY <2>1, SurfaceKept
<1>3. CASE Syncs
    <2>1. ASSUME NEW n \in Names, SyncRefuses(n) PROVE Surfaced'
        <3>1. Failed(n, None)
            BY <2>1 DEF SyncRefuses
        <3> QED BY <3>1, SyncFailsSurface
    <2>2. ASSUME NEW n \in Names, SyncFailsToCompile(n) PROVE Surfaced'
        BY <2>2, SyncFailsSurface DEF SyncFailsToCompile
    <2>3. ASSUME NEW n \in Names, NEW ks, SyncFailsToPrepare(n, ks) PROVE Surfaced'
        BY <2>3, SyncFailsSurface DEF SyncFailsToPrepare
    <2> QED BY <1>3, <2>1, <2>2, <2>3, SyncStartsSurface, SyncCompilesSurface,
               SyncRebuildsSurface, SyncEndsSurface DEF Syncs
<1>4. ASSUME NEW r \in Requests, (\E s \in current : Arrive(r, s)) \/ Leave(r) \/ Watch(r)
      PROVE  Surfaced'
    BY <1>0, <1>4, RequestsKeepSurface, SurfaceKept
<1>5. ASSUME NEW c \in Checks, Checkings(c) PROVE Surfaced'
    BY <1>0, <1>5, ChecksKeepSurface, SurfaceKept
<1> QED BY <1>1, <1>2, <1>3, <1>4, <1>5 DEF Next, Checkings

-----------------------------------------------------------------------------
(* Who owns which pool. *)

LEMMA NoCheckFields ==
    NoCheck \in Check /\ NoCheck.pc = "idle" /\ NoCheck.used = {} /\ NoCheck.own = {}
BY DEF NoCheck, Check, MaybeSpec

LEMMA CachedIsIssued == Numbered => Cached \subseteq Issued
BY DEF Numbered, Cached, Issued

\* The pools opened for ks get numbers nobody has.
LEMMA Counted ==
    ASSUME Numbered, NEW ks \in SUBSET Keys, pools' = counted(ks)
    PROVE  /\ pools' \in [Keys -> Nat]
           /\ \A k \in Keys : pools[k] <= pools'[k]
           /\ Issued \subseteq Issued'
           /\ fresh(ks) \subseteq Issued' \ Issued
<1>0. pools \in [Keys -> Nat]
    BY DEF Numbered
<1>1. \A k \in Keys : pools'[k] = IF k \in Missing(ks) THEN pools[k] + 1 ELSE pools[k]
    BY DEF counted
<1>2. pools' \in [Keys -> Nat] /\ \A k \in Keys : pools[k] <= pools'[k]
    BY <1>0, <1>1 DEF counted
<1>3. ASSUME NEW p \in Issued PROVE p \in Issued'
    <2>1. p \in Keys \X Nat /\ 1 <= p[2] /\ p[2] <= pools[p[1]] /\ p[1] \in Keys /\ p[2] \in Nat
        BY DEF Issued
    <2>2. p[2] <= pools'[p[1]]
        BY <1>0, <1>2, <2>1
    <2> QED BY <2>1, <2>2 DEF Issued
<1>4. ASSUME NEW p \in fresh(ks) PROVE p \in Issued' /\ p \notin Issued
    <2>1. PICK k \in Missing(ks) : p = <<k, pools[k] + 1>>
        BY DEF fresh
    <2>2. k \in Keys /\ pools[k] \in Nat /\ pools'[k] = pools[k] + 1
        BY <1>0, <1>1, <2>1 DEF Missing
    <2> QED BY <2>1, <2>2 DEF Issued
<1> QED BY <1>2, <1>3, <1>4

LEMMA GetCached ==
    ASSUME Numbered, NEW ks \in SUBSET Keys, Get(ks)
    PROVE  /\ cache' \in [Keys -> Nat]
           /\ \A k \in Keys : cache'[k] <= pools'[k]
           /\ Cached' = Cached \cup fresh(ks)
           /\ \A k \in Keys : cache[k] # 0 => cache'[k] = cache[k]
           /\ \A k \in ks : cache'[k] # 0
<1>0. pools \in [Keys -> Nat] /\ cache \in [Keys -> Nat] /\ \A k \in Keys : cache[k] <= pools[k]
    BY DEF Numbered
<1>1. \A k \in Keys : cache'[k] = IF k \in Missing(ks) THEN pools[k] + 1 ELSE cache[k]
    BY DEF Get
<1>2. \A k \in Keys : pools'[k] = IF k \in Missing(ks) THEN pools[k] + 1 ELSE pools[k]
    BY DEF Get, counted
<1>3. cache' \in [Keys -> Nat]
    BY <1>0, <1>1 DEF Get
<1>4. \A k \in Keys : pools[k] \in Nat /\ cache[k] \in Nat /\ pools[k] + 1 # 0
    BY <1>0
<1>5. \A k \in Keys : cache'[k] <= pools'[k]
    BY <1>0, <1>1, <1>2, <1>4
<1>6. ASSUME NEW k \in Keys
      PROVE  /\ cache[k] # 0 => cache'[k] = cache[k]
             /\ k \in ks => cache'[k] # 0
             /\ k \in Missing(ks) => cache[k] = 0 /\ cache'[k] = pools[k] + 1 /\ cache'[k] # 0
             /\ k \notin Missing(ks) => cache'[k] = cache[k]
    BY <1>1, <1>4 DEF Missing
<1>7. Cached' = Cached \cup fresh(ks)
    <2>1. ASSUME NEW p \in Cached' PROVE p \in Cached \cup fresh(ks)
        <3>1. PICK k \in Keys : p = <<k, cache'[k]>> /\ cache'[k] # 0
            BY DEF Cached
        <3> QED BY <1>6, <3>1 DEF Cached, fresh
    <2>2. ASSUME NEW p \in Cached PROVE p \in Cached'
        <3>1. PICK k \in Keys : p = <<k, cache[k]>> /\ cache[k] # 0
            BY DEF Cached
        <3> QED BY <1>6, <3>1 DEF Cached
    <2>3. ASSUME NEW p \in fresh(ks) PROVE p \in Cached'
        <3>1. PICK k \in Missing(ks) : p = <<k, pools[k] + 1>>
            BY DEF fresh
        <3>2. k \in Keys
            BY <3>1 DEF Missing
        <3> QED BY <1>6, <3>1, <3>2 DEF Cached
    <2> QED BY <2>1, <2>2, <2>3
<1> QED BY <1>3, <1>5, <1>6, <1>7

\* The checks as they were, while pools and cache move on.
LEMMA NumberedKept ==
    ASSUME Numbered, UNCHANGED check, pools' \in [Keys -> Nat], cache' \in [Keys -> Nat],
           \A k \in Keys : cache'[k] <= pools'[k],
           Issued \subseteq Issued', Cached' \cap Issued \subseteq Cached
    PROVE  Numbered'
<1>1. ASSUME NEW c \in Checks
      PROVE  /\ check[c].used \subseteq Issued'
             /\ check[c].own \subseteq Issued' \ Cached'
    BY DEF Numbered
<1> QED BY <1>1 DEF Numbered

LEMMA GetKeeps ==
    ASSUME Numbered, Owned, NEW ks \in SUBSET Keys, Get(ks), UNCHANGED check
    PROVE  Numbered' /\ Owned'
<1>0. pools' = counted(ks) /\ open' = open \cup fresh(ks)
    BY DEF Get
<1>1. /\ pools' \in [Keys -> Nat] /\ Issued \subseteq Issued' /\ fresh(ks) \cap Issued = {}
    BY <1>0, Counted
<1>2. /\ cache' \in [Keys -> Nat] /\ Cached' = Cached \cup fresh(ks)
      /\ \A k \in Keys : cache'[k] <= pools'[k]
    BY GetCached
<1>3. Numbered'
    BY <1>1, <1>2, NumberedKept
<1>4. Owned'
    BY <1>0, <1>2 DEF Owned
<1> QED BY <1>3, <1>4

\* One check changes what it owns.
LEMMA OwnedBy ==
    ASSUME check \in [Checks -> Check], NEW c \in Checks, NEW k, check' = [check EXCEPT ![c] = k]
    PROVE  UNION {check'[d].own : d \in Checks} =
               k.own \cup UNION {check[d].own : d \in Checks \ {c}}
<1>1. \A d \in Checks : check'[d] = IF d = c THEN k ELSE check[d]
    OBVIOUS
<1> QED BY <1>1

\* A check moves on to k.
LEMMA CheckMoves ==
    ASSUME Numbered, NEW c \in Checks, NEW k \in Check, check' = [check EXCEPT ![c] = k],
           pools' \in [Keys -> Nat], cache' \in [Keys -> Nat],
           \A j \in Keys : cache'[j] <= pools'[j],
           Issued \subseteq Issued', Cached' \subseteq Cached,
           k.pc # "idle" => k.spec \in Checked, k.pc # "asks" => k.own = {},
           k.used \subseteq Issued', k.own \subseteq Issued' \ Issued
    PROVE  Numbered'
<1>1. \A d \in Checks : check'[d] = IF d = c THEN k ELSE check[d]
    BY DEF Numbered
<1>2. check' \in [Checks -> Check]
    BY DEF Numbered
<1>3. Cached' \cap k.own = {}
    BY CachedIsIssued
<1>4. ASSUME NEW d \in Checks, d # c PROVE check[d].own \subseteq Issued \ Cached
    BY DEF Numbered
<1>5. ASSUME NEW d \in Checks
      PROVE  /\ check'[d].pc # "idle" => check'[d].spec \in Checked
             /\ check'[d].pc # "asks" => check'[d].own = {}
             /\ check'[d].used \subseteq Issued'
             /\ check'[d].own \subseteq Issued' \ Cached'
    BY <1>1, <1>3 DEF Numbered
<1>6. ASSUME NEW d \in Checks, NEW e \in Checks \ {d} PROVE check'[d].own \cap check'[e].own = {}
    <2>1. CASE d = c
        BY <1>1, <1>4, <2>1
    <2>2. CASE e = c
        BY <1>1, <1>4, <2>2
    <2>3. CASE c \notin {d, e}
        BY <1>1, <2>3 DEF Numbered
    <2> QED BY <2>1, <2>2, <2>3
<1> QED BY <1>2, <1>5, <1>6 DEF Numbered

\* What a check uses: a pool for each key, its own where the cache has none.
LEMMA CheckingFields ==
    ASSUME Numbered, NEW c \in Checks, NEW spec \in Checked, NEW again \in BOOLEAN,
           Checking(c, spec, again)
    PROVE  \E k \in Check :
               /\ check' = [check EXCEPT ![c] = k]
               /\ k.pc = "asks" /\ k.spec = spec /\ k.own = fresh(keysOf(spec))
               /\ k.used = held(keysOf(spec)) \cup fresh(keysOf(spec))
<1>0. spec \in Specs /\ keysOf(spec) \subseteq Keys
    BY SurfaceAssumption, KeysOfSpecs
<1>1. PICK us, fs : us = held(keysOf(spec)) \cup fresh(keysOf(spec)) /\ fs = fresh(keysOf(spec))
    OBVIOUS
<1>2. us \in SUBSET (Keys \X Nat) /\ fs \in SUBSET (Keys \X Nat)
    BY <1>0, <1>1 DEF held, fresh, Missing, Numbered
<1>3. PICK k : k = [pc |-> "asks", spec |-> spec, again |-> again, used |-> us, own |-> fs]
    OBVIOUS
<1>4. k \in Check /\ k.pc = "asks" /\ k.spec = spec /\ k.own = fs /\ k.used = us
    BY <1>0, <1>2, <1>3 DEF Check, MaybeSpec
<1>5. check' = [check EXCEPT ![c] = k]
    BY <1>1, <1>3 DEF Checking
<1> QED BY <1>1, <1>4, <1>5

LEMMA CheckingKeeps ==
    ASSUME Numbered, Owned, NEW c \in Checks, NEW spec \in Checked, NEW again \in BOOLEAN,
           Checking(c, spec, again), check[c].own = {}
    PROVE  Numbered' /\ Owned'
<1>1. PICK ks : ks = keysOf(spec)
    OBVIOUS
<1>2. ks \in SUBSET Keys
    BY <1>1, SurfaceAssumption, KeysOfSpecs
<1>3. PICK k \in Check :
          /\ check' = [check EXCEPT ![c] = k]
          /\ k.pc = "asks" /\ k.spec = spec /\ k.own = fresh(ks)
          /\ k.used = held(ks) \cup fresh(ks)
    BY <1>1, CheckingFields
<1>4. pools' = counted(ks) /\ open' = open \cup fresh(ks) /\ UNCHANGED cache
    BY <1>1 DEF Checking, Borrow
<1>5. /\ pools' \in [Keys -> Nat] /\ Issued \subseteq Issued' /\ fresh(ks) \subseteq Issued' \ Issued
      /\ \A j \in Keys : pools[j] <= pools'[j]
    BY <1>2, <1>4, Counted
<1>6. cache' \in [Keys -> Nat] /\ \A j \in Keys : cache'[j] <= pools'[j]
    BY <1>4, <1>5 DEF Numbered
<1>7. Cached' = Cached
    BY <1>4 DEF Cached
<1>8. held(ks) \subseteq Cached
    BY <1>2 DEF held, Missing, Cached
<1>9. Numbered'
    BY <1>3, <1>5, <1>6, <1>7, <1>8, CachedIsIssued, CheckMoves
<1>10. Owned'
    <2>1. UNION {check'[d].own : d \in Checks} =
              k.own \cup UNION {check[d].own : d \in Checks \ {c}}
        BY <1>3, OwnedBy DEF Numbered
    <2>2. UNION {check[d].own : d \in Checks} = UNION {check[d].own : d \in Checks \ {c}}
        OBVIOUS
    <2> QED BY <1>3, <1>4, <1>7, <2>1, <2>2 DEF Owned
<1> QED BY <1>9, <1>10

LEMMA CheckEndsKeeps ==
    ASSUME Numbered, Owned, NEW c \in Checks, CheckEnds(c)
    PROVE  Numbered' /\ Owned'
<1>0. /\ open' = open \ check[c].own /\ check' = [check EXCEPT ![c] = NoCheck]
      /\ UNCHANGED <<pools, cache>>
    BY DEF CheckEnds
<1>1. Issued' = Issued /\ Cached' = Cached
    BY <1>0 DEF Issued, Cached
<1>2. Numbered'
    <2>1. /\ pools' \in [Keys -> Nat] /\ cache' \in [Keys -> Nat]
          /\ \A j \in Keys : cache'[j] <= pools'[j]
        BY <1>0 DEF Numbered
    <2> QED BY <1>0, <1>1, <2>1, NoCheckFields, CheckMoves
<1>3. UNION {check'[d].own : d \in Checks} = UNION {check[d].own : d \in Checks \ {c}}
    BY <1>0, OwnedBy, NoCheckFields DEF Numbered
<1>4. /\ check[c].own \cap Cached = {}
      /\ \A d \in Checks \ {c} : check[d].own \cap check[c].own = {}
    BY DEF Numbered
<1> QED BY <1>0, <1>1, <1>2, <1>3, <1>4 DEF Owned

LEMMA CheckFindsClosedKeeps ==
    ASSUME Numbered, Owned, NEW c \in Checks, CheckFindsClosed(c)
    PROVE  Numbered' /\ Owned'
<1>1. PICK k : k = [check[c] EXCEPT !.pc = "again", !.used = {}, !.own = {}]
    OBVIOUS
<1>2. PICK ev : ev = evicted(check[c].used)
    OBVIOUS
<1>0. /\ open' = open \ (check[c].own \cup ev) /\ check' = [check EXCEPT ![c] = k]
      /\ cache' = [j \in Keys |-> IF \E p \in ev : p[1] = j THEN 0 ELSE cache[j]]
      /\ UNCHANGED pools /\ check[c].pc = "asks"
    BY <1>1, <1>2 DEF CheckFindsClosed
<1>3. /\ k \in Check /\ k.pc = "again" /\ k.used = {} /\ k.own = {}
      /\ k.spec = check[c].spec /\ k.spec \in Checked
    BY <1>0, <1>1 DEF Check, Numbered
<1>4. ev \subseteq Cached
    <2>1. ASSUME NEW p \in ev PROVE p \in Cached
        <3>1. p \in Issued /\ cache[p[1]] = p[2]
            BY <1>2 DEF evicted, Numbered
        <3>2. p = <<p[1], p[2]>> /\ p[1] \in Keys /\ p[2] # 0
            BY <3>1 DEF Issued
        <3> QED BY <3>1, <3>2 DEF Cached
    <2> QED BY <2>1
<1>5. Cached' = Cached \ ev
    <2>1. ASSUME NEW j \in Keys, NEW p \in ev, p[1] = j PROVE p = <<j, cache[j]>>
        BY <1>4, <2>1 DEF Cached
    <2>2. \A j \in Keys : cache'[j] = IF <<j, cache[j]>> \in ev THEN 0 ELSE cache[j]
        BY <1>0, <2>1
    <2> QED BY <2>2 DEF Cached
<1>6. /\ pools' \in [Keys -> Nat] /\ cache' \in [Keys -> Nat]
      /\ \A j \in Keys : cache'[j] <= pools'[j]
    BY <1>0 DEF Numbered
<1>7. Issued' = Issued
    BY <1>0 DEF Issued
<1>8. Numbered'
    BY <1>0, <1>3, <1>5, <1>6, <1>7, CheckMoves
<1>9. UNION {check'[d].own : d \in Checks} = UNION {check[d].own : d \in Checks \ {c}}
    BY <1>0, <1>3, OwnedBy DEF Numbered
<1>10. /\ check[c].own \cap Cached = {}
       /\ \A d \in Checks \ {c} : check[d].own \cap (check[c].own \cup Cached) = {}
    BY DEF Numbered
<1> QED BY <1>0, <1>4, <1>5, <1>8, <1>9, <1>10 DEF Owned

LEMMA SyncRetainsKeeps ==
    ASSUME Numbered, Owned, SyncRetains
    PROVE  Numbered' /\ Owned'
<1>0. /\ open' = open \ {<<k, cache[k]>> : k \in Keys \ inUse}
      /\ cache' = [k \in Keys |-> IF k \in inUse THEN cache[k] ELSE 0]
      /\ UNCHANGED <<pools, check>>
      /\ pools \in [Keys -> Nat] /\ cache \in [Keys -> Nat]
      /\ \A k \in Keys : cache[k] <= pools[k]
    BY DEF SyncRetains, Numbered
<1>1. \A k \in Keys : cache'[k] = IF k \in inUse THEN cache[k] ELSE 0
    BY <1>0
<1>2. Issued' = Issued /\ Cached' \subseteq Cached
    BY <1>0, <1>1 DEF Issued, Cached
<1>3. /\ pools' \in [Keys -> Nat] /\ cache' \in [Keys -> Nat]
      /\ \A j \in Keys : cache'[j] <= pools'[j]
    BY <1>0
<1>4. Numbered'
    BY <1>0, <1>2, <1>3, NumberedKept
<1>5. Cached' = Cached \ {<<k, cache[k]>> : k \in Keys \ inUse}
    BY <1>0, <1>1 DEF Cached
<1>6. ASSUME NEW c \in Checks, NEW k \in Keys PROVE <<k, cache[k]>> \notin check[c].own
    <2>1. ASSUME <<k, cache[k]>> \in Issued PROVE <<k, cache[k]>> \in Cached
        BY <2>1 DEF Issued, Cached
    <2> QED BY <2>1 DEF Numbered
<1>7. Owned'
    BY <1>0, <1>5, <1>6 DEF Owned
<1> QED BY <1>4, <1>7

LEMMA PoolsKept ==
    ASSUME Numbered, Owned, UNCHANGED <<opened, check>>
    PROVE  Numbered' /\ Owned'
BY DEF Numbered, Owned, Cached, Issued, opened

LEMMA OwnedStep ==
    ASSUME Surfaced, Numbered, Owned, [Next]_vars
    PROVE  Numbered' /\ Owned'
<1>1. CASE UNCHANGED vars
    BY <1>1, PoolsKept DEF vars, opened
<1>2. ASSUME NEW n \in Names, NEW s \in Specs \cup {None}, Edit(n, s) PROVE Numbered' /\ Owned'
    BY <1>2, PoolsKept DEF Edit
<1>3. CASE Syncs
    <2>1. ASSUME NEW n \in Names, n \in sync.todo, sync.pc = "compile"
          PROVE  sync.cands[n] \in Specs
        BY <2>1 DEF Surfaced, Compiling, Syncing, MaybeSpec
    <2>2. ASSUME NEW n \in Names, SyncCompiles(n) \/ SyncFailsToCompile(n)
          PROVE  Numbered' /\ Owned'
        <3>1. sync.cands[n] \in Specs /\ Get(keysOf(sync.cands[n])) /\ UNCHANGED check
            BY <2>1, <2>2 DEF SyncCompiles, SyncFailsToCompile, Failed
        <3> QED BY <3>1, KeysOfSpecs, GetKeeps
    <2>3. ASSUME NEW n \in Names, NEW ks, SyncFailsToPrepare(n, ks) PROVE Numbered' /\ Owned'
        <3>1. sync.cands[n] \in Specs /\ ks \in {{}, {sync.cands[n].key}} /\ Get(ks)
              /\ UNCHANGED check
            BY <2>1, <2>3 DEF SyncFailsToPrepare, Failed
        <3>2. ks \in SUBSET Keys
            BY <3>1, KeysOfSpecs
        <3> QED BY <3>1, <3>2, GetKeeps
    <2>4. ASSUME NEW n \in Names, SyncRefuses(n) PROVE Numbered' /\ Owned'
        BY <2>4, PoolsKept DEF SyncRefuses, Failed
    <2>5. ASSUME NEW w \in SUBSET Names, SyncRebuilds(w) PROVE Numbered' /\ Owned'
        BY <2>5, PoolsKept DEF SyncRebuilds
    <2>6. CASE SyncStarts \/ SyncFailsToRebuild \/ SyncDestroys
        BY <2>6, PoolsKept DEF SyncStarts, SyncFailsToRebuild, SyncDestroys
    <2> QED BY <1>3, <2>2, <2>3, <2>4, <2>5, <2>6, SyncRetainsKeeps DEF Syncs
<1>4. ASSUME NEW r \in Requests, (\E s \in current : Arrive(r, s)) \/ Leave(r) \/ Watch(r)
      PROVE  Numbered' /\ Owned'
    BY <1>4, RequestsKeepSurface, PoolsKept
<1>5. ASSUME NEW c \in Checks, Checkings(c) PROVE Numbered' /\ Owned'
    <2>1. ASSUME NEW s \in Checked, CheckBegins(c, s) PROVE Numbered' /\ Owned'
        <3>1. Checking(c, s, FALSE) /\ check[c].own = {}
            BY <2>1 DEF CheckBegins, Numbered
        <3> QED BY <3>1, CheckingKeeps
    <2>2. CASE CheckRetries(c)
        <3>1. Checking(c, check[c].spec, TRUE) /\ check[c].own = {} /\ check[c].spec \in Checked
            BY <2>2 DEF CheckRetries, Numbered
        <3> QED BY <3>1, CheckingKeeps
    <2> QED BY <1>5, <2>1, <2>2, CheckEndsKeeps, CheckFindsClosedKeeps DEF Checkings
<1> QED BY <1>1, <1>2, <1>3, <1>4, <1>5 DEF Next, Checkings

-----------------------------------------------------------------------------
(* Requests and streams. *)

LEMMA NoRequestFields == NoRequest \in Request /\ NoRequest.pc = "idle"
BY DEF NoRequest, Request, MaybeStorage

LEMMA AttachedKept ==
    ASSUME Attached, UNCHANGED <<req, current, destroyed>>, Retiring' = Retiring
    PROVE  Attached'
BY DEF Attached

\* What the surface loses is about to be destroyed.
LEMMA RebuiltAttached ==
    ASSUME Surfaced, Attached, NEW w \in SUBSET Names, SyncRebuilds(w)
    PROVE  Attached'
<1>0. /\ sync \in Syncing /\ sync.pc = "compile" /\ Compiling
      /\ current = {compiled[n] : n \in {m \in Names : compiled[m] # None}}
      /\ current' = {sync.surviving[n] : n \in w} /\ UNCHANGED <<destroyed, req>>
      /\ \A n \in w : sync.surviving[n] # None
    BY DEF Surfaced, SyncRebuilds, Resolved
<1>1. PICK rt : rt = retired(w)
    OBVIOUS
<1>2. sync' = [NoSync EXCEPT !.pc = "destroy", !.retired = rt]
    BY <1>1 DEF SyncRebuilds
<1>3. Retiring = {} /\ Retiring' = rt
    BY <1>0, <1>2 DEF Retiring, NoSync
<1>4. ASSUME NEW s \in current PROVE s \in current' \cup rt
    <2>1. PICK n \in Names : s = compiled[n] /\ s # None
        BY <1>0
    <2>2. CASE n \notin w
        BY <1>1, <2>1, <2>2 DEF retired
    <2>3. CASE n \in w /\ sync.surviving[n] = s
        BY <1>0, <2>3
    <2>4. CASE n \in w /\ sync.surviving[n] # s
        <3>1. s \in sync.retired
            BY <1>0, <2>1, <2>4 DEF Compiling
        <3> QED BY <1>1, <2>1, <3>1 DEF retired
    <2> QED BY <2>2, <2>3, <2>4
<1> QED BY <1>0, <1>3, <1>4 DEF Attached

LEMMA DestroyedAttached ==
    ASSUME Surfaced, Attached, SyncDestroys
    PROVE  Attached'
<1>0. /\ sync.pc = "destroy" /\ destroyed' = destroyed \cup sync.retired /\ UNCHANGED current
      /\ Retiring = sync.retired /\ Retiring' = {}
    BY DEF SyncDestroys, Retiring, NoSync
<1>1. \A r \in Requests : req'[r] = IF req[r].pc = "streaming" /\ req[r].storage \in sync.retired
                                    THEN NoRequest ELSE req[r]
    BY DEF SyncDestroys
<1>2. req' \in [Requests -> Request]
    BY <1>1, NoRequestFields DEF SyncDestroys, Attached
<1> QED BY <1>0, <1>1, <1>2, NoRequestFields DEF Attached

LEMMA RequestAttached ==
    ASSUME Surfaced, Attached, NEW r \in Requests,
           (\E s \in current : Arrive(r, s)) \/ Leave(r) \/ Watch(r)
    PROVE  Attached'
<1>0. UNCHANGED <<current, destroyed, sync>> /\ Retiring' = Retiring
    BY RequestsKeepSurface DEF Retiring
<1>1. ASSUME NEW q \in Request, req' = [req EXCEPT ![r] = q],
             q.pc # "idle" => q.storage \in current \cup destroyed \cup Retiring,
             q.pc = "streaming" /\ ~q.late => q.storage \in current \cup Retiring
      PROVE  Attached'
    <2>1. \A p \in Requests : req'[p] = IF p = r THEN q ELSE req[p]
        BY <1>1 DEF Attached
    <2>2. req' \in [Requests -> Request]
        BY <1>1 DEF Attached
    <2> QED BY <1>0, <1>1, <2>1, <2>2 DEF Attached
<1>2. CASE Leave(r)
    BY <1>1, <1>2, NoRequestFields DEF Leave
<1>3. ASSUME NEW s \in current, Arrive(r, s) PROVE Attached'
    <2>1. s \in MaybeStorage
        BY DEF Surfaced
    <2>2. PICK q : q = [pc |-> "routed", storage |-> s, late |-> FALSE]
        OBVIOUS
    <2>3. q \in Request /\ q.pc = "routed" /\ q.storage = s
        BY <2>1, <2>2 DEF Request
    <2>4. req' = [req EXCEPT ![r] = q]
        BY <1>3, <2>2 DEF Arrive
    <2> QED BY <1>1, <2>3, <2>4
<1>4. CASE Watch(r)
    <2>1. PICK s, l : s = req[r].storage /\ l = (s \in destroyed)
        OBVIOUS
    <2>2. l \in BOOLEAN /\ req[r] \in Request /\ req[r].pc = "routed"
        BY <1>4, <2>1 DEF Watch, Attached
    <2>3. PICK q : q = [req[r] EXCEPT !.pc = "streaming", !.late = l]
        OBVIOUS
    <2>4. q \in Request /\ q.pc = "streaming" /\ q.late = l /\ q.storage = s
        BY <2>1, <2>2, <2>3 DEF Request
    <2>5. req' = [req EXCEPT ![r] = q]
        BY <1>4, <2>1, <2>3 DEF Watch, Attached
    <2>6. s \in current \cup destroyed \cup Retiring
        BY <2>1, <2>2 DEF Attached
    <2> QED BY <1>1, <2>1, <2>4, <2>5, <2>6
<1> QED BY <1>2, <1>3, <1>4

LEMMA AttachedStep ==
    ASSUME Surfaced, Attached, [Next]_vars
    PROVE  Attached'
<1>1. CASE UNCHANGED vars
    BY <1>1, AttachedKept DEF vars, Retiring
<1>2. ASSUME NEW n \in Names, NEW s \in Specs \cup {None}, Edit(n, s) PROVE Attached'
    BY <1>2, AttachedKept DEF Edit, installed, Retiring
<1>3. CASE Syncs
    <2>1. ASSUME UNCHANGED <<req, current, destroyed>>, sync.pc # "destroy", sync'.pc # "destroy"
          PROVE  Attached'
        BY <2>1, AttachedKept DEF Retiring
    <2>2. ASSUME NEW n, NEW storage, NEW gone, sync.pc = "compile", Compiles(n, storage, gone)
          PROVE  sync'.pc # "destroy"
        BY <2>2 DEF Compiles, Surfaced, Syncing
    <2>3. ASSUME NEW n \in Names, SyncCompiles(n) PROVE Attached'
        BY <2>1, <2>2, <2>3 DEF SyncCompiles
    <2>4. ASSUME NEW n \in Names, NEW storage, Failed(n, storage) PROVE Attached'
        BY <2>1, <2>2, <2>4 DEF Failed, installed
    <2>5. CASE SyncStarts \/ SyncFailsToRebuild \/ SyncRetains
        <3>1. CASE SyncStarts
            <4>1. PICK td : sync' = [NoSync EXCEPT !.pc = "compile", !.cands = wanted, !.todo = td]
                BY <3>1 DEF SyncStarts
            <4>2. sync'.pc = "compile"
                BY <4>1 DEF NoSync
            <4> QED BY <2>1, <3>1, <4>2 DEF SyncStarts, installed
        <3>2. CASE SyncFailsToRebuild
            BY <2>1, <3>2, NoSyncFields DEF SyncFailsToRebuild, installed
        <3>3. CASE SyncRetains
            BY <2>1, <3>3, NoSyncFields DEF SyncRetains, installed
        <3> QED BY <2>5, <3>1, <3>2, <3>3
    <2> QED BY <1>3, <2>3, <2>4, <2>5, RebuiltAttached, DestroyedAttached
            DEF Syncs, SyncRefuses, SyncFailsToCompile, SyncFailsToPrepare
<1>4. ASSUME NEW r \in Requests, (\E s \in current : Arrive(r, s)) \/ Leave(r) \/ Watch(r)
      PROVE  Attached'
    BY <1>4, RequestAttached
<1>5. ASSUME NEW c \in Checks, Checkings(c) PROVE Attached'
    BY <1>5, ChecksKeepSurface, AttachedKept DEF Retiring
<1> QED BY <1>1, <1>2, <1>3, <1>4, <1>5 DEF Next, Checkings

-----------------------------------------------------------------------------
(* What is served stands on open pools. *)

\* No check names a read replica, so a check that finds its pool closed has no
\* other pool to drop.
NoReplicas == \A s \in Checked : s.replica = None

LEMMA SingleUsed ==
    ASSUME NoReplicas, Numbered, NEW spec \in Checked
    PROVE  \E p : held(keysOf(spec)) \cup fresh(keysOf(spec)) = {p} /\ p[1] = spec.key
<1>1. keysOf(spec) = {spec.key} /\ spec.key \in Keys
    BY SurfaceAssumption DEF NoReplicas, keysOf
<1>2. CASE cache[spec.key] = 0
    <2>1. held(keysOf(spec)) = {} /\ fresh(keysOf(spec)) = {<<spec.key, pools[spec.key] + 1>>}
        BY <1>1, <1>2 DEF held, fresh, Missing
    <2>2. PICK p : p = <<spec.key, pools[spec.key] + 1>>
        OBVIOUS
    <2>3. p[1] = spec.key
        BY <2>2
    <2> QED BY <2>1, <2>2, <2>3
<1>3. CASE cache[spec.key] # 0
    <2>1. held(keysOf(spec)) = {<<spec.key, cache[spec.key]>>} /\ fresh(keysOf(spec)) = {}
        BY <1>1, <1>3 DEF held, fresh, Missing
    <2>2. PICK p : p = <<spec.key, cache[spec.key]>>
        OBVIOUS
    <2>3. p[1] = spec.key
        BY <2>2
    <2> QED BY <2>1, <2>2, <2>3
<1> QED BY <1>2, <1>3

LEMMA NothingEvicted ==
    ASSUME Numbered, Owned, NEW c \in Checks, Single(c), CheckFindsClosed(c)
    PROVE  UNCHANGED cache
<1>1. check[c].pc = "asks" /\ asked(c) \notin open
    BY DEF CheckFindsClosed
<1>2. PICK p \in check[c].used : check[c].used = {p} /\ p[1] = check[c].spec.key
    BY <1>1 DEF Single
<1>3. asked(c) = p
    BY <1>2 DEF asked
<1>4. p \notin Cached
    BY <1>1, <1>3 DEF Owned
<1>5. p \in Issued
    BY <1>2 DEF Numbered
<1>6. p = <<p[1], p[2]>> /\ p[1] \in Keys /\ p[2] # 0
    BY <1>5 DEF Issued
<1>7. cache[p[1]] # p[2]
    BY <1>4, <1>6 DEF Cached
<1>8. evicted(check[c].used) = {}
    BY <1>2, <1>7 DEF evicted
<1>9. cache' = [k \in Keys |-> cache[k]]
    BY <1>8 DEF CheckFindsClosed
<1> QED BY <1>9 DEF Numbered

LEMMA SingleStep ==
    ASSUME NoReplicas, Surfaced, Numbered, \A c \in Checks : Single(c), [Next]_vars
    PROVE  \A c \in Checks : Single(c)'
<1>0. check \in [Checks -> Check]
    BY DEF Numbered
<1>1. ASSUME UNCHANGED check PROVE \A c \in Checks : Single(c)'
    BY <1>1 DEF Single
<1>2. ASSUME NEW c \in Checks, Checkings(c), NEW d \in Checks PROVE Single(d)'
    <2>1. ASSUME NEW k, check' = [check EXCEPT ![c] = k], k.pc # "asks" PROVE Single(d)'
        BY <1>0, <2>1 DEF Single
    <2>2. ASSUME NEW spec \in Checked, NEW again \in BOOLEAN, Checking(c, spec, again)
          PROVE  Single(d)'
        <3>1. PICK k \in Check :
                  /\ check' = [check EXCEPT ![c] = k]
                  /\ k.pc = "asks" /\ k.spec = spec /\ k.own = fresh(keysOf(spec))
                  /\ k.used = held(keysOf(spec)) \cup fresh(keysOf(spec))
            BY <2>2, CheckingFields
        <3>2. PICK p : k.used = {p} /\ p[1] = spec.key
            BY <3>1, SingleUsed
        <3>3. check'[d] = IF d = c THEN k ELSE check[d]
            BY <1>0, <3>1
        <3> QED BY <3>1, <3>2, <3>3 DEF Single
    <2>3. CASE CheckEnds(c)
        BY <2>1, <2>3, NoCheckFields DEF CheckEnds
    <2>4. CASE CheckFindsClosed(c)
        <3>1. PICK k : k = [check[c] EXCEPT !.pc = "again", !.used = {}, !.own = {}]
            OBVIOUS
        <3>2. check' = [check EXCEPT ![c] = k] /\ k.pc = "again"
            BY <1>0, <2>4, <3>1 DEF CheckFindsClosed, Check
        <3> QED BY <2>1, <3>2
    <2>5. ASSUME NEW s \in Checked, CheckBegins(c, s) PROVE Single(d)'
        <3>1. Checking(c, s, FALSE)
            BY <2>5 DEF CheckBegins
        <3> QED BY <2>2, <3>1
    <2>6. CASE CheckRetries(c)
        <3>1. Checking(c, check[c].spec, TRUE) /\ check[c].spec \in Checked
            BY <2>6 DEF CheckRetries, Numbered
        <3> QED BY <2>2, <3>1
    <2> QED BY <1>2, <2>3, <2>4, <2>5, <2>6 DEF Checkings
<1>3. ASSUME Syncs PROVE UNCHANGED check
    BY <1>3 DEF Syncs, SyncStarts, SyncCompiles, SyncRefuses, SyncFailsToCompile,
                SyncFailsToPrepare, Failed, SyncRebuilds, SyncFailsToRebuild, SyncDestroys,
                SyncRetains
<1>4. ASSUME NEW n \in Names, NEW s \in Specs \cup {None}, Edit(n, s) PROVE UNCHANGED check
    BY <1>4 DEF Edit
<1>5. ASSUME UNCHANGED vars PROVE UNCHANGED check
    BY <1>5 DEF vars
<1> QED BY <1>1, <1>2, <1>3, <1>4, <1>5, RequestsKeepSurface DEF Next, Checkings

LEMMA LodgedKept ==
    ASSUME NEW s \in MaybeStorage, Lodged(s),
           s # None => \A k \in keysOf(s.spec) : cache[k] # 0 => cache'[k] = cache[k]
    PROVE  Lodged(s)'
BY DEF Lodged

LEMMA LodgingKept ==
    ASSUME Surfaced, Surfaced', Lodging,
           \A k \in Keys : cache[k] # 0 => cache'[k] = cache[k],
           \A n \in Names : /\ compiled'[n] \in {None, compiled[n], sync.surviving[n]}
                            /\ sync'.surviving[n] \in {None, compiled[n], sync.surviving[n]}
    PROVE  Lodging'
<1>1. ASSUME NEW s \in MaybeStorage, Lodged(s) PROVE Lodged(s)'
    <2>1. s # None => keysOf(s.spec) \subseteq Keys
        BY KeysOfSpecs DEF MaybeStorage, Storage
    <2> QED BY <1>1, <2>1, LodgedKept
<1>2. ASSUME NEW n \in Names, NEW s, s \in {None, compiled[n], sync.surviving[n]} PROVE Lodged(s)'
    <2>1. s \in MaybeStorage /\ Lodged(s)
        BY <1>2 DEF Surfaced, Syncing, MaybeStorage, Lodging, Lodged
    <2> QED BY <1>1, <2>1
<1>3. ASSUME NEW n \in Names PROVE Lodged(compiled[n])' /\ Lodged(sync.surviving[n])'
    <2>1. PICK s, t : s = compiled'[n] /\ t = sync'.surviving[n]
        OBVIOUS
    <2>2. Lodged(s)' /\ Lodged(t)'
        BY <1>2, <2>1
    <2> QED BY <2>1, <2>2 DEF Lodged
<1> QED BY <1>3 DEF Lodging

LEMMA CompilesFields ==
    ASSUME Surfaced, NEW n \in Names, NEW storage, NEW gone, Compiles(n, storage, gone)
    PROVE  /\ sync'.pc = sync.pc
           /\ \A m \in Names : sync'.surviving[m] = IF m = n THEN storage ELSE sync.surviving[m]
<1>0. sync \in Syncing
    BY DEF Surfaced
<1>1. PICK sv : sv = [sync.surviving EXCEPT ![n] = storage]
    OBVIOUS
<1>2. PICK td, rt : td = sync.todo \ {n} /\ rt = sync.retired \cup gone
    OBVIOUS
<1>3. sync' = [sync EXCEPT !.todo = td, !.surviving = sv, !.retired = rt]
    BY <1>0, <1>1, <1>2 DEF Compiles, Syncing
<1>4. sync'.pc = sync.pc /\ sync'.surviving = sv
    BY <1>0, <1>3 DEF Syncing
<1> QED BY <1>0, <1>1, <1>4 DEF Syncing

\* A storage is built on the pools the cache has from then on.
LEMMA BuiltLodged ==
    ASSUME Numbered, NEW n \in Names, NEW spec \in Specs, revs \in [Names -> Nat],
           Get(keysOf(spec)), NEW storage, storage = built(n, spec)
    PROVE  Lodged(storage)'
<1>1. PICK ks : ks = keysOf(spec)
    OBVIOUS
<1>2. ks \subseteq Keys /\ Get(ks)
    BY <1>1, KeysOfSpecs
<1>3. /\ \A k \in Keys : cache[k] # 0 => cache'[k] = cache[k]
      /\ \A k \in ks : cache'[k] # 0
    BY <1>2, GetCached
<1>4. \A k \in ks : cache'[k] = IF k \in Missing(ks) THEN pools[k] + 1 ELSE cache[k]
    BY <1>2 DEF Get
<1>5. held(ks) \cup fresh(ks) = {<<k, cache'[k]>> : k \in ks}
    BY <1>4 DEF held, fresh, Missing
<1>6. storage.spec = spec /\ storage.pools = held(ks) \cup fresh(ks)
    BY <1>1 DEF built
<1> QED BY <1>1, <1>3, <1>5, <1>6 DEF Lodged

LEMMA SyncCompilesLodging ==
    ASSUME Surfaced, Surfaced', Numbered, Lodging, NEW n \in Names, SyncCompiles(n)
    PROVE  Lodging'
<1>0. /\ sync \in Syncing /\ revs \in [Names -> Nat] /\ compiled \in [Names -> MaybeStorage]
      /\ n \in sync.todo /\ sync.pc = "compile" /\ Compiling /\ UNCHANGED compiled
    BY DEF Surfaced, SyncCompiles
<1>1. PICK spec, previous : spec = sync.cands[n] /\ previous = compiled[n]
    OBVIOUS
<1>2. spec \in Specs /\ previous \in MaybeStorage /\ Get(keysOf(spec))
    BY <1>0, <1>1 DEF Syncing, MaybeSpec, Compiling, SyncCompiles
<1>3. \A k \in Keys : cache[k] # 0 => cache'[k] = cache[k]
    BY <1>2, KeysOfSpecs, GetCached
<1>4. CASE previous # None /\ previous.spec = spec
    <2>1. Compiles(n, previous, {})
        BY <1>1, <1>4 DEF SyncCompiles
    <2>2. \A m \in Names : sync'.surviving[m] \in {None, compiled[m], sync.surviving[m]}
        BY <1>1, <2>1, CompilesFields
    <2> QED BY <1>0, <1>3, <2>2, LodgingKept
<1>5. CASE ~(previous # None /\ previous.spec = spec)
    <2>1. PICK storage : storage = built(n, spec)
        OBVIOUS
    <2>2. Compiles(n, storage, {previous} \ {None})
        BY <1>1, <1>5, <2>1 DEF SyncCompiles
    <2>3. Lodged(storage)'
        BY <1>0, <1>2, <2>1, BuiltLodged
    <2>4. \A m \in Names : sync'.surviving[m] = IF m = n THEN storage ELSE sync.surviving[m]
        BY <2>2, CompilesFields
    <2>5. ASSUME NEW s \in MaybeStorage, Lodged(s) PROVE Lodged(s)'
        <3>1. s # None => keysOf(s.spec) \subseteq Keys
            BY KeysOfSpecs DEF MaybeStorage, Storage
        <3> QED BY <1>3, <2>5, <3>1, LodgedKept
    <2>6. ASSUME NEW m \in Names PROVE Lodged(compiled[m])' /\ Lodged(sync.surviving[m])'
        <3>1. PICK s, t : s = compiled'[m] /\ t = sync'.surviving[m]
            OBVIOUS
        <3>2. s \in MaybeStorage /\ Lodged(s)
            BY <1>0, <3>1 DEF Lodging
        <3>3. t = storage \/ (t \in MaybeStorage /\ Lodged(t))
            BY <1>0, <2>4, <3>1 DEF Lodging, Syncing
        <3>4. Lodged(s)' /\ Lodged(t)'
            BY <2>3, <2>5, <3>2, <3>3
        <3> QED BY <3>1, <3>4 DEF Lodged
    <2> QED BY <2>6 DEF Lodging
<1> QED BY <1>4, <1>5

LEMMA SyncRetainsLodging ==
    ASSUME Surfaced, Surfaced', Numbered, Lodging, SyncRetains
    PROVE  Lodging' /\ {k \in Keys : cache'[k] # 0} = inUse'
<1>0. /\ cache' = [k \in Keys |-> IF k \in inUse THEN cache[k] ELSE 0]
      /\ sync' = NoSync /\ UNCHANGED compiled /\ compiled \in [Names -> MaybeStorage]
    BY DEF SyncRetains, Surfaced, installed
<1>1. inUse' = inUse
    BY <1>0 DEF inUse
<1>2. ASSUME NEW n \in Names, compiled[n] # None
      PROVE  /\ keysOf(compiled[n].spec) \subseteq inUse
             /\ keysOf(compiled[n].spec) \subseteq Keys
             /\ \A k \in keysOf(compiled[n].spec) : cache[k] # 0
    <2>1. compiled[n] \in Storage
        BY <1>0, <1>2 DEF MaybeStorage
    <2>2. keysOf(compiled[n].spec) \subseteq Keys
        BY <2>1, KeysOfSpecs DEF Storage
    <2> QED BY <1>2, <2>2 DEF inUse, Lodging, Lodged
<1>3. ASSUME NEW n \in Names PROVE Lodged(compiled[n])' /\ Lodged(sync.surviving[n])'
    <2>1. PICK s : s = compiled[n]
        OBVIOUS
    <2>2. s \in MaybeStorage /\ Lodged(s)
        BY <1>0, <2>1 DEF Lodging
    <2>3. s # None => \A k \in keysOf(s.spec) : cache'[k] = cache[k]
        BY <1>0, <1>2, <2>1
    <2>4. Lodged(s)'
        BY <2>2, <2>3, LodgedKept
    <2> QED BY <1>0, <2>1, <2>4, NoSyncFields DEF Lodged
<1>4. inUse \subseteq Keys /\ \A k \in inUse : cache[k] # 0
    BY <1>2 DEF inUse
<1> QED BY <1>0, <1>1, <1>3, <1>4 DEF Lodging

LEMMA ServedStep ==
    ASSUME NoReplicas, Surfaced, Surfaced', Numbered, Owned, Served, [Next]_vars
    PROVE  Served'
<1>0. /\ \A c \in Checks : Single(c)'
      /\ Lodging /\ (sync.pc = "idle" /\ ~queued => {k \in Keys : cache[k] # 0} = inUse)
    BY SingleStep DEF Served
<1>1. ASSUME UNCHANGED <<cache, compiled, sync, queued>> PROVE Served'
    <2>1. Lodging'
        BY <1>0, <1>1 DEF Lodging, Lodged
    <2>2. inUse' = inUse
        BY <1>1 DEF inUse
    <2> QED BY <1>0, <1>1, <2>1, <2>2 DEF Served
<1>2. ASSUME Lodging', queued' \/ sync'.pc # "idle" PROVE Served'
    BY <1>0, <1>2 DEF Served
<1>3. ASSUME NEW n \in Names, NEW s \in Specs \cup {None}, Edit(n, s) PROVE Served'
    <2>1. UNCHANGED <<cache, compiled, sync>> /\ queued'
        BY <1>3 DEF Edit, opened, installed
    <2>2. Lodging'
        BY <1>0, <2>1 DEF Lodging, Lodged
    <2> QED BY <1>2, <2>1, <2>2
<1>4. CASE Syncs
    <2>1. ASSUME NEW n \in Names, NEW storage \in {None, compiled[n]}, Failed(n, storage),
                 \A k \in Keys : cache[k] # 0 => cache'[k] = cache[k]
          PROVE  Served'
        <3>1. sync.pc = "compile" /\ Compiles(n, storage, {}) /\ UNCHANGED compiled
            BY <2>1 DEF Failed, installed
        <3>2. sync'.pc # "idle"
              /\ \A m \in Names : sync'.surviving[m] \in {None, compiled[m], sync.surviving[m]}
            BY <3>1, CompilesFields
        <3>3. Lodging'
            BY <1>0, <2>1, <3>1, <3>2, LodgingKept
        <3> QED BY <1>2, <3>2, <3>3
    <2>2. ASSUME NEW n \in Names, n \in sync.todo, sync.pc = "compile"
          PROVE  sync.cands[n] \in Specs
        BY <2>2 DEF Surfaced, Compiling, Syncing, MaybeSpec
    <2>3. ASSUME NEW n \in Names, SyncRefuses(n) PROVE Served'
        <3>1. Failed(n, None) /\ UNCHANGED cache
            BY <2>3 DEF SyncRefuses, opened
        <3> QED BY <2>1, <3>1
    <2>4. ASSUME NEW n \in Names, SyncFailsToCompile(n) PROVE Served'
        <3>1. /\ Failed(n, compiled[n]) /\ Get(keysOf(sync.cands[n]))
              /\ keysOf(sync.cands[n]) \in SUBSET Keys
            BY <2>2, <2>4, KeysOfSpecs DEF SyncFailsToCompile, Failed
        <3> QED BY <2>1, <3>1, GetCached
    <2>5. ASSUME NEW n \in Names, NEW ks, SyncFailsToPrepare(n, ks) PROVE Served'
        <3>1. /\ Failed(n, compiled[n]) /\ Get(ks) /\ ks \in SUBSET Keys
            BY <2>2, <2>5, KeysOfSpecs DEF SyncFailsToPrepare, Failed
        <3> QED BY <2>1, <3>1, GetCached
    <2>6. ASSUME NEW n \in Names, SyncCompiles(n) PROVE Served'
        <3>1. sync'.pc = "compile"
            BY <2>6, CompilesFields DEF SyncCompiles
        <3> QED BY <1>0, <1>2, <2>6, <3>1, SyncCompilesLodging
    <2>7. ASSUME UNCHANGED cache, queued' \/ sync'.pc # "idle",
                 \A n \in Names : /\ compiled'[n] \in {None, compiled[n], sync.surviving[n]}
                                  /\ sync'.surviving[n] = None
          PROVE  Served'
        BY <1>0, <1>2, <2>7, LodgingKept
    <2>8. CASE SyncStarts
        <3>1. PICK td : sync' = [NoSync EXCEPT !.pc = "compile", !.cands = wanted, !.todo = td]
            BY <2>8 DEF SyncStarts
        <3>2. sync'.pc = "compile" /\ \A n \in Names : sync'.surviving[n] = None
            BY <3>1 DEF NoSync
        <3> QED BY <2>7, <2>8, <3>2 DEF SyncStarts, opened, installed
    <2>9. ASSUME NEW w \in SUBSET Names, SyncRebuilds(w) PROVE Served'
        <3>1. PICK rt : sync' = [NoSync EXCEPT !.pc = "destroy", !.retired = rt]
            BY <2>9 DEF SyncRebuilds
        <3>2. sync'.pc = "destroy" /\ \A n \in Names : sync'.surviving[n] = None
            BY <3>1 DEF NoSync
        <3> QED BY <2>7, <2>9, <3>2 DEF SyncRebuilds, opened
    <2>10. CASE SyncFailsToRebuild
        BY <2>7, <2>10, NoSyncFields DEF SyncFailsToRebuild, opened, installed
    <2>11. CASE SyncDestroys
        <3>1. sync' = [NoSync EXCEPT !.pc = "retain"]
            BY <2>11 DEF SyncDestroys
        <3>2. sync'.pc = "retain" /\ \A n \in Names : sync'.surviving[n] = None
            BY <3>1 DEF NoSync
        <3> QED BY <2>7, <2>11, <3>2 DEF SyncDestroys, opened
    <2>12. CASE SyncRetains
        BY <1>0, <2>12, SyncRetainsLodging DEF Served
    <2> QED BY <1>4, <2>3, <2>4, <2>5, <2>6, <2>8, <2>9, <2>10, <2>11, <2>12 DEF Syncs
<1>5. ASSUME NEW r \in Requests, (\E s \in current : Arrive(r, s)) \/ Leave(r) \/ Watch(r)
      PROVE  Served'
    BY <1>1, <1>5, RequestsKeepSurface DEF opened
<1>6. ASSUME NEW c \in Checks, Checkings(c) PROVE Served'
    <2>1. UNCHANGED cache
        <3>1. CASE CheckFindsClosed(c)
            BY <3>1, NothingEvicted DEF Served
        <3>2. CASE ~CheckFindsClosed(c)
            BY <1>6, <3>2 DEF Checkings, CheckBegins, CheckEnds, CheckRetries, Checking
        <3> QED BY <3>1, <3>2
    <2> QED BY <1>1, <1>6, <2>1, ChecksKeepSurface
<1>7. CASE UNCHANGED vars
    BY <1>1, <1>7 DEF vars
<1> QED BY <1>3, <1>4, <1>5, <1>6, <1>7 DEF Next, Checkings

-----------------------------------------------------------------------------
(* Theorems. *)

LEMMA SurfaceInit == Init => Surfaced /\ Attached /\ Numbered /\ Owned /\ Served
<1> SUFFICES ASSUME Init PROVE Surfaced /\ Attached /\ Numbered /\ Owned /\ Served
    OBVIOUS
<1> USE DEF Init
<1>1. Surfaced
    BY NoSyncFields, SurfaceAssumption DEF Surfaced, MaybeSpec, MaybeStorage, Live
<1>2. Attached
    BY NoRequestFields DEF Attached
<1>3. Numbered /\ Owned
    <2>1. \A c \in Checks : check[c] = NoCheck
        OBVIOUS
    <2>2. Cached = {}
        BY DEF Cached
    <2>3. check \in [Checks -> Check]
        BY NoCheckFields
    <2>4. UNION {check[c].own : c \in Checks} = {}
        BY <2>1, NoCheckFields
    <2> QED BY <2>1, <2>2, <2>3, <2>4, NoCheckFields DEF Numbered, Owned
<1>4. Served
    BY NoCheckFields, NoSyncFields DEF Served, Single, Lodging, Lodged
<1> QED BY <1>1, <1>2, <1>3, <1>4

\* Whatever syncs, failures, requests and checks there are, what is routed to was
\* not destroyed, and every open pool has one owner.
THEOREM SurfaceCorrect == Spec => [](Surfaced /\ Attached /\ Numbered /\ Owned)
<1>1. Surfaced /\ Attached /\ Numbered /\ Owned /\ [Next]_vars =>
          (Surfaced /\ Attached /\ Numbered /\ Owned)'
    BY SurfacedStep, AttachedStep, OwnedStep
<1> QED BY <1>1, SurfaceInit, PTL DEF Spec

\* The watches of a storage end when it is retired, through whichever path it
\* was, save for those registered after that.
THEOREM StreamsAreCurrent == Spec => []RetiredDisconnected
<1>1. Attached => RetiredDisconnected
    BY DEF Attached, RetiredDisconnected, Retiring
<1> QED BY <1>1, SurfaceCorrect, PTL

\* As long as no check is of a specification with a read replica, everything
\* routed can answer: its pools stay open, whatever failed, was checked or was
\* opened anew under a key in the meantime.
THEOREM SurfaceStaysUsable ==
    ASSUME \A s \in Checked : s.replica = None
    PROVE  Spec => []SurfaceUsable
<1>1. NoReplicas
    BY DEF NoReplicas
<1>2. Surfaced /\ Surfaced' /\ Numbered /\ Owned /\ Served /\ [Next]_vars => Served'
    BY <1>1, ServedStep
<1>3. Surfaced /\ Numbered /\ Owned /\ Served => SurfaceUsable
    <2> SUFFICES ASSUME Surfaced, Numbered, Owned, Served, NEW s \in current
                 PROVE  s \notin destroyed /\ s.pools \subseteq open
        BY DEF SurfaceUsable
    <2>1. PICK n \in Names : s = compiled[n] /\ s # None
        BY DEF Surfaced
    <2>2. s \in Storage /\ Live(s, n) /\ Lodged(s)
        BY <2>1 DEF Surfaced, Served, Lodging, MaybeStorage
    <2>3. keysOf(s.spec) \subseteq Keys
        BY <2>2, KeysOfSpecs DEF Storage
    <2>4. s.pools \subseteq Cached
        BY <2>1, <2>2, <2>3 DEF Lodged, Cached
    <2> QED BY <2>1, <2>2, <2>4 DEF Live, Owned
<1> QED BY <1>2, <1>3, SurfaceInit, SurfaceCorrect, PTL DEF Spec

\* No connection outlives its use: an open pool is the cache's or that of a check
\* under way, and once syncs are done the cache holds the pools of what is served
\* and no others.
THEOREM PoolsAreAccounted ==
    ASSUME \A s \in Checked : s.replica = None
    PROVE  Spec => []PoolsAccounted
<1>1. NoReplicas
    BY DEF NoReplicas
<1>2. Surfaced /\ Surfaced' /\ Numbered /\ Owned /\ Served /\ [Next]_vars => Served'
    BY <1>1, ServedStep
<1>3. Owned /\ Served => PoolsAccounted
    BY DEF Owned, Served, PoolsAccounted, Cached
<1> QED BY <1>2, <1>3, SurfaceInit, SurfaceCorrect, PTL DEF Spec
=============================================================================
