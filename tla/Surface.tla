------------------------------ MODULE Surface ------------------------------
(***************************************************************************)
(* What a server has installed, from data source to route, while it is     *)
(* being replaced: connection pools shared by key (sql/datasource.go,      *)
(* PoolCache), the storages compiled on them (apiserver/dynamic), the      *)
(* surface requests are routed on (Router) and the sync that swaps it      *)
(* (controller.go).  Requests keep the surface they arrived on, watches    *)
(* stay, and admission checks borrow pools that the sync may close.        *)
(*                                                                         *)
(* Which of two projections wins a resource is the subject of Projections; *)
(* here any choice that gives each resource to one of them will do.        *)
(***************************************************************************)
EXTENDS Integers, FiniteSets

CONSTANTS
    Names,       \* projections
    Keys,        \* pool keys: the driver, the connection string and the auth
    Specs,       \* specifications: the key, that of the read replica, the resource
    None,
    Checked,     \* the specifications put to admission checks
    Start,       \* the projections there are at first
    Requests,    \* requests in progress
    Checks,      \* admission checks in progress
    MaxEdits,    \* bound: edits, rotations that change a key, checks
    MaxFailures  \* bound: projections and rebuilds that fail

keysOf(spec) == {spec.key, spec.replica} \ {None}

ASSUME SurfaceAssumption ==
    /\ \A s \in Specs : keysOf(s) \subseteq Keys /\ s.key \in Keys
    /\ Checked \subseteq Specs
    /\ Start \in [Names -> Specs \cup {None}]
    /\ {MaxEdits, MaxFailures} \subseteq Nat
    /\ None \notin Specs \cup Keys
    /\ None \notin [name : Names, rev : Nat, spec : Specs, pools : SUBSET (Keys \X Nat)]

VARIABLES
    wanted,    \* the specification of each projection, or None
    queued,    \* a sync is due
    pools,     \* how many pools were opened for each key
    open,      \* the pools that are open: a key and a number
    cache,     \* PoolCache.pools: the number of the pool of each key, or 0
    revs,      \* how often each projection was compiled
    destroyed, \* the storages destroyed
    current,   \* the storages the router's snapshot routes to
    compiled,  \* Controller.compiled: the storage of each projection, or None
    sync,      \* the sync in progress
    req,       \* the requests
    check,     \* the admission checks
    edits, failures

vars == <<wanted, queued, pools, open, cache, revs, destroyed, current, compiled,
          sync, req, check, edits, failures>>
opened == <<pools, open, cache>>
installed == <<revs, destroyed, current, compiled>>

NoSync == [pc |-> "idle", cands |-> [n \in Names |-> None], todo |-> {},
           surviving |-> [n \in Names |-> None], retired |-> {}]
NoRequest == [pc |-> "idle", storage |-> None, late |-> FALSE]
NoCheck == [pc |-> "idle", spec |-> None, used |-> {}, own |-> {}, again |-> FALSE]

Init ==
    /\ wanted = Start
    /\ queued = TRUE
    /\ pools = [k \in Keys |-> 0]
    /\ open = {}
    /\ cache = [k \in Keys |-> 0]
    /\ revs = [n \in Names |-> 0]
    /\ destroyed = {}
    /\ current = {}
    /\ compiled = [n \in Names |-> None]
    /\ sync = NoSync
    /\ req = [r \in Requests |-> NoRequest]
    /\ check = [c \in Checks |-> NoCheck]
    /\ edits = 0
    /\ failures = 0

-----------------------------------------------------------------------------
(* Projections are edited, and their credentials rotated. *)

Edit(n, s) ==
    /\ edits < MaxEdits
    /\ wanted[n] # s
    /\ edits' = edits + 1
    /\ wanted' = [wanted EXCEPT ![n] = s]
    /\ queued' = TRUE
    /\ UNCHANGED <<opened, installed, sync, req, check, failures>>

-----------------------------------------------------------------------------
(* The pool cache. *)

Missing(ks) == {k \in ks : cache[k] = 0}
fresh(ks) == {<<k, pools[k] + 1>> : k \in Missing(ks)}
held(ks) == {<<k, cache[k]>> : k \in ks \ Missing(ks)}
counted(ks) == [k \in Keys |-> IF k \in Missing(ks) THEN pools[k] + 1 ELSE pools[k]]

\* Get: what is missing is opened and kept.
Get(ks) ==
    /\ pools' = counted(ks)
    /\ open' = open \cup fresh(ks)
    /\ cache' = [k \in Keys |-> IF k \in Missing(ks) THEN pools[k] + 1 ELSE cache[k]]

\* Mutant: what is under the key now is closed, whichever pool that is.
evictedByKey(ps) == {<<k, cache[k]>> : k \in {j \in Keys : cache[j] # 0 /\ \E p \in ps : p[1] = j}}

\* EvictIf, for pools as a check used them: closed only where they are still
\* the cache's.
evicted(ps) == {p \in ps : cache[p[1]] = p[2]}

-----------------------------------------------------------------------------
(* sync: compiling. *)

SyncStarts ==
    /\ sync.pc = "idle"
    /\ queued
    /\ queued' = FALSE
    /\ sync' = [NoSync EXCEPT !.pc = "compile", !.cands = wanted,
                              !.todo = {n \in Names : wanted[n] # None}]
    /\ UNCHANGED <<wanted, opened, installed, req, check, edits, failures>>

Compiles(n, storage, retired) ==
    sync' = [sync EXCEPT !.todo = @ \ {n}, !.surviving[n] = storage, !.retired = @ \cup retired]

\* CompileWith: a storage of its own on the pools Prepare found, whether or not
\* the database answers.
built(n, spec) ==
    [name |-> n, rev |-> revs[n] + 1, spec |-> spec,
     pools |-> held(keysOf(spec)) \cup fresh(keysOf(spec))]

\* Prepare finds a pool for each key.  A fingerprint that is the previous one
\* keeps the previous storage, and its pools.
SyncCompiles(n) ==
    LET spec == sync.cands[n]
        previous == compiled[n] IN
    /\ sync.pc = "compile"
    /\ n \in sync.todo
    /\ Get(keysOf(spec))
    /\ IF previous # None /\ previous.spec = spec
       THEN Compiles(n, previous, {}) /\ UNCHANGED revs
       ELSE /\ Compiles(n, built(n, spec), {previous} \ {None})
            /\ revs' = [revs EXCEPT ![n] = @ + 1]
    /\ UNCHANGED <<wanted, queued, destroyed, current, compiled, req, check, edits, failures>>

\* failed: what does not compile goes on as it was.
Failed(n, storage) ==
    /\ sync.pc = "compile"
    /\ n \in sync.todo
    /\ failures < MaxFailures
    /\ failures' = failures + 1
    /\ Compiles(n, storage, {})
    /\ UNCHANGED <<wanted, queued, installed, req, check, edits>>

\* A group that is not allowed, a name that a file has: what it served before is
\* no previous configuration to fall back on.
SyncRefuses(n) ==
    /\ Failed(n, None)
    /\ UNCHANGED opened

\* Prepare fails before it has a pool (a Secret cannot be read) or before it has
\* that of the replica.
SyncFailsToPrepare(n, ks) ==
    /\ Failed(n, compiled[n])
    /\ ks \in {{}, {sync.cands[n].key}}
    /\ Get(ks)

\* A schema that cannot be borrowed, a statement the database refuses, a resource
\* the router refuses: the pools are there by then.
SyncFailsToCompile(n) ==
    /\ Failed(n, compiled[n])
    /\ Get(keysOf(sync.cands[n]))

-----------------------------------------------------------------------------
(* sync: installing. *)

\* A choice of projections that gives each resource to one of them.
Resolved(w) ==
    LET ns == {n \in Names : sync.surviving[n] # None}
        res(n) == sync.surviving[n].spec.resource IN
    /\ w \subseteq ns
    /\ \A n \in ns : \E m \in w : res(m) = res(n)
    /\ \A m, n \in w : m # n => res(m) # res(n)

\* Mutant: what loses its claim is not served, and otherwise left alone.
retiredButLosers(w) ==
    (sync.retired \cup {compiled[n] : n \in {m \in Names : sync.surviving[m] = None}}) \ {None}

\* What goes: what was replaced, what was built and lost its claim, and what was
\* served and no longer is.
retired(w) ==
    (sync.retired \cup {sync.surviving[n] : n \in Names \ w}
                  \cup {compiled[n] : n \in Names \ w}) \ {None}

\* Rebuild swaps the surface at once.
SyncRebuilds(w) ==
    /\ sync.pc = "compile"
    /\ sync.todo = {}
    /\ Resolved(w)
    /\ current' = {sync.surviving[n] : n \in w}
    /\ compiled' = [n \in Names |-> IF n \in w THEN sync.surviving[n] ELSE None]
    /\ sync' = [NoSync EXCEPT !.pc = "destroy", !.retired = retired(w)]
    /\ UNCHANGED <<wanted, queued, opened, revs, destroyed, req, check, edits, failures>>

\* Rebuild refuses: the sync ends with an error, and is queued again.
SyncFailsToRebuild ==
    /\ sync.pc = "compile"
    /\ sync.todo = {}
    /\ failures < MaxFailures
    /\ failures' = failures + 1
    /\ sync' = NoSync
    /\ queued' = TRUE
    /\ UNCHANGED <<wanted, opened, installed, req, check, edits>>

\* DestroyAll: the watches of what was retired end.
SyncDestroys ==
    /\ sync.pc = "destroy"
    /\ destroyed' = destroyed \cup sync.retired
    /\ req' = [r \in Requests |-> IF req[r].pc = "streaming" /\ req[r].storage \in sync.retired
                                  THEN NoRequest ELSE req[r]]
    /\ sync' = [NoSync EXCEPT !.pc = "retain"]
    /\ UNCHANGED <<wanted, queued, opened, revs, current, compiled, check, edits, failures>>

inUse == UNION {keysOf(compiled[n].spec) : n \in {m \in Names : compiled[m] # None}}

\* RetainOnly: the pools no storage has a key of are closed.
SyncRetains ==
    /\ sync.pc = "retain"
    /\ open' = open \ {<<k, cache[k]>> : k \in Keys \ inUse}
    /\ cache' = [k \in Keys |-> IF k \in inUse THEN cache[k] ELSE 0]
    /\ sync' = NoSync
    /\ UNCHANGED <<wanted, queued, pools, installed, req, check, edits, failures>>

-----------------------------------------------------------------------------
(* Requests. *)

\* ServeHTTP takes the surface of the moment, and stays with it.
Arrive(r, s) ==
    /\ req[r].pc = "idle"
    /\ s \in current
    /\ req' = [req EXCEPT ![r] = [pc |-> "routed", storage |-> s, late |-> FALSE]]
    /\ UNCHANGED <<wanted, queued, opened, installed, sync, check, edits, failures>>

\* The request is answered, or a stream ends for reasons of its client's.
Leave(r) ==
    /\ req[r].pc # "idle"
    /\ req' = [req EXCEPT ![r] = NoRequest]
    /\ UNCHANGED <<wanted, queued, opened, installed, sync, check, edits, failures>>

\* Watch registers, also on a cache that was closed; the first watcher's poll
\* needs the pool.
Watch(r) ==
    LET s == req[r].storage IN
    /\ req[r].pc = "routed"
    /\ \/ s.pools \subseteq open
       \/ \E q \in Requests : req[q].pc = "streaming" /\ req[q].storage = s
    /\ req' = [req EXCEPT ![r].pc = "streaming", ![r].late = s \in destroyed]
    /\ UNCHANGED <<wanted, queued, opened, installed, sync, check, edits, failures>>

-----------------------------------------------------------------------------
(* Admission checks. *)

\* Borrow: what is cached is shared, what is not is the check's own.
Borrow(ks) ==
    /\ pools' = counted(ks)
    /\ open' = open \cup fresh(ks)

\* check: one attempt, with the pools it used.
Checking(c, spec, again) ==
    /\ Borrow(keysOf(spec))
    /\ check' = [check EXCEPT ![c] = [pc |-> "asks", spec |-> spec, again |-> again,
                     used |-> held(keysOf(spec)) \cup fresh(keysOf(spec)),
                     own |-> fresh(keysOf(spec))]]
    /\ UNCHANGED <<wanted, queued, cache, installed, sync, req, failures>>

\* review: a specification that is new or changed is put to the compiler.  It is
\* no projection yet, and may never be one.
CheckBegins(c, spec) ==
    /\ check[c].pc = "idle"
    /\ edits < MaxEdits
    /\ edits' = edits + 1
    /\ Checking(c, spec, FALSE)

\* The pool the check asks: the first one its specification names.
asked(c) == CHOOSE p \in check[c].used : p[1] = check[c].spec.key

\* Mutant: a check that gives way keeps what it opened.
CheckEndsKeeping(c) ==
    /\ check[c].pc = "asks"
    /\ asked(c) \in open \/ check[c].again
    /\ open' = IF check[c].again THEN open ELSE open \ check[c].own
    /\ check' = [check EXCEPT ![c] = NoCheck]
    /\ UNCHANGED <<wanted, queued, pools, cache, installed, sync, req, edits, failures>>

\* The database answers, or cannot be reached; or the pool was closed twice.
\* What the check opened is closed with it.
CheckEnds(c) ==
    /\ check[c].pc = "asks"
    /\ asked(c) \in open \/ check[c].again
    /\ open' = open \ check[c].own
    /\ check' = [check EXCEPT ![c] = NoCheck]
    /\ UNCHANGED <<wanted, queued, pools, cache, installed, sync, req, edits, failures>>

\* The pool was closed under the check, which drops what it used ...
CheckFindsClosed(c) ==
    /\ check[c].pc = "asks"
    /\ asked(c) \notin open
    /\ ~check[c].again
    /\ open' = open \ (check[c].own \cup evicted(check[c].used))
    /\ cache' = [k \in Keys |-> IF \E p \in evicted(check[c].used) : p[1] = k
                                THEN 0 ELSE cache[k]]
    /\ check' = [check EXCEPT ![c] = [@ EXCEPT !.pc = "again", !.used = {}, !.own = {}]]
    /\ UNCHANGED <<wanted, queued, pools, installed, sync, req, edits, failures>>

\* ... and asks once more.
CheckRetries(c) ==
    /\ check[c].pc = "again"
    /\ Checking(c, check[c].spec, TRUE)
    /\ UNCHANGED edits

-----------------------------------------------------------------------------
Syncs ==
    \/ SyncStarts
    \/ \E n \in Names : SyncCompiles(n) \/ SyncRefuses(n) \/ SyncFailsToCompile(n)
    \/ \E n \in Names, ks \in SUBSET Keys : SyncFailsToPrepare(n, ks)
    \/ \E w \in SUBSET Names : SyncRebuilds(w)
    \/ SyncFailsToRebuild
    \/ SyncDestroys
    \/ SyncRetains

Next ==
    \/ \E n \in Names, s \in Specs \cup {None} : Edit(n, s)
    \/ Syncs
    \/ \E r \in Requests : (\E s \in current : Arrive(r, s)) \/ Leave(r) \/ Watch(r)
    \/ \E c \in Checks : \/ \E s \in Checked : CheckBegins(c, s)
                         \/ CheckEnds(c) \/ CheckFindsClosed(c) \/ CheckRetries(c)

Spec == Init /\ [][Next]_vars

-----------------------------------------------------------------------------
(* Properties. *)

\* Everything routed can answer: no storage of the surface has been destroyed,
\* and the pools it was compiled on are open, whatever syncs, failures, checks
\* and pools opened anew under a key came before (controller.go, sync; compile.go,
\* Check: evicting must not "close whichever pool is under it now, which may be
\* one live projections are serving through").
SurfaceUsable == \A s \in current : s \notin destroyed /\ s.pools \subseteq open

\* No connection outlives its use: an open pool is in the cache or belongs to a
\* check that is under way, and once syncs are done the cache holds the pools of
\* what is served and no others (controller.go, "otherwise a deleted projection
\* would hold its pool open forever"; datasource.go, Borrow).
PoolsAccounted ==
    /\ open = {<<k, cache[k]>> : k \in {j \in Keys : cache[j] # 0}}
              \cup UNION {check[c].own : c \in Checks}
    /\ sync.pc = "idle" /\ ~queued => {k \in Keys : cache[k] # 0} = inUse

\* A stream is on the surface there is, or its request was overtaken: the watches
\* of a storage end when it is retired, through whichever path it was (an edit, a
\* deletion, a lost claim), save for those registered after that (watch.go, Watch
\* and Close).
RetiredDisconnected ==
    sync.pc \in {"idle", "retain"} =>
        \A r \in Requests :
            req[r].pc = "streaming" => req[r].storage \in current \/ req[r].late
=============================================================================
