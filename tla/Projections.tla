---------------------------- MODULE Projections ----------------------------
(***************************************************************************)
(* The controller that keeps what a server serves in step with the         *)
(* CustomResourceProjections of the cluster (controller/projection), on    *)
(* every replica of the server at once.  Replicas share nothing but what   *)
(* the cluster stores: the projections, whose statuses they all write and  *)
(* settle contested resources by, and the APIServices that route groups to *)
(* them.  Each sees both through informers that lag.                       *)
(***************************************************************************)
EXTENDS Integers, FiniteSets

CONSTANTS
    Names,      \* names of projections
    Replicas,   \* replicas of the server
    Specs,      \* specifications: the names a projection claims, and its group version
    Groups,     \* group versions
    None,
    Configs     \* the deployments to consider

Config ==
    [names : SUBSET Names, replicas : SUBSET Replicas,
     specs : SUBSET Specs,   \* what is written to them
     allowed : SUBSET Groups, \* what --projection-group-suffixes allows
     apiServices : BOOLEAN,  \* the server registers the groups it serves
     files : BOOLEAN,        \* --projection-dir is given
     secrets : BOOLEAN,      \* the Secrets of data sources are watched
     rotates : BOOLEAN,      \* credentials are rotated
     meddled : BOOLEAN,      \* the aggregator reports, others make and remove APIServices
     fails : BOOLEAN,        \* preparing a projection, or writing its status, may fail
     start : [Names -> Specs \cup {None}],  \* the projections there are at first
     registered : [Groups -> {"absent", "ours", "byHand", "elsewhere"}],
     turns : Nat]            \* bound: changes, rotations, failures and restarts

\* A status and a projection with it; a projection as a sync judged it; the last
\* status a replica wrote, and to which object; a candidate, and what is compiled
\* of it.
Verdicts == {"none", "serving", "previous", "lost", "failed"}
Status == [gen : Nat, verdict : Verdicts, routed : BOOLEAN]
Object == [uid : Nat, gen : Nat, spec : Specs, status : Status]
Judgement == [was : Object, verdict : Verdicts]
Memory == [status : Status, uid : Nat]
Candidate == [spec : Specs, file : BOOLEAN]
Compilation == [spec : Specs, creds : Nat, file : BOOLEAN]

ASSUME ProjectionsAssumption ==
    /\ \A s \in Specs : s.group \in Groups /\ s.claims # {}
    /\ Configs \subseteq Config
    /\ IsFiniteSet(Names)
    /\ None \notin Specs \cup Object \cup Judgement \cup Memory \cup Candidate \cup Compilation

VARIABLES
    config,
    objects,    \* the projections stored in the cluster
    files,      \* the projections of --projection-dir
    creds,      \* the version of the credentials in the Secret
    apis,       \* the APIServices
    minted,     \* uids handed out, in the order of creation
    turns,      \* how much of the bound is used
    rep         \* the replicas

vars == <<config, objects, files, creds, apis, minted, turns, rep>>
cluster == <<objects, files, creds, apis, minted>>

-----------------------------------------------------------------------------
(* What is stored. *)

NoStatus == [gen |-> 0, verdict |-> "none", routed |-> TRUE]

\* An APIService routes here ("ours" with the label, "byHand" without) or not;
\* the aggregator reports on it in its own time.
Registration(route) == [route |-> route, available |-> "pending", owners |-> {}]
Absent == Registration("absent")
routesHere(a) == a.route \in {"ours", "byHand"}

nameOrder == CHOOSE f \in [Names -> 1..Cardinality(Names)] :
                 \A m, n \in Names : m # n => f[m] # f[n]

\* A replica that has listed everything and is about to sync for the first time.
Started == [lister |-> objects, regs |-> apis, seen |-> creds, queued |-> TRUE,
            recheck |-> FALSE, pc |-> "idle", compiled |-> [n \in Names |-> None],
            failing |-> {}, last |-> [n \in Names |-> None],
            due |-> [n \in Names |-> None], declared |-> {}, unrouted |-> {}]

Init ==
    /\ config \in Configs
    /\ objects = [n \in Names |-> IF config.start[n] = None THEN None
                                  ELSE [uid |-> nameOrder[n], gen |-> 1,
                                        spec |-> config.start[n], status |-> NoStatus]]
    /\ files = [n \in Names |-> None]
    /\ creds = 0
    /\ apis = [g \in Groups |-> Registration(config.registered[g])]
    /\ minted = Cardinality(Names)
    /\ turns = 0
    /\ rep = [r \in Replicas |-> Started]

-----------------------------------------------------------------------------
(* What others do to the cluster. *)

Turn == turns < config.turns /\ turns' = turns + 1

Create(n, s) ==
    /\ objects[n] = None
    /\ Turn
    /\ minted' = minted + 1
    /\ objects' = [objects EXCEPT ![n] =
           [uid |-> minted + 1, gen |-> 1, spec |-> s, status |-> NoStatus]]
    /\ UNCHANGED <<config, files, creds, apis, rep>>

Edit(n, s) ==
    /\ objects[n] # None
    /\ objects[n].spec # s
    /\ Turn
    /\ objects' = [objects EXCEPT ![n].spec = s, ![n].gen = @ + 1]
    /\ UNCHANGED <<config, files, creds, apis, minted, rep>>

Delete(n) ==
    /\ objects[n] # None
    /\ Turn
    /\ objects' = [objects EXCEPT ![n] = None]
    /\ UNCHANGED <<config, files, creds, apis, minted, rep>>

\* A file appears, changes or goes; the directory is watched, or read at the
\* next sync.
FileChanges(n, s) ==
    /\ config.files
    /\ files[n] # s
    /\ Turn
    /\ files' = [files EXCEPT ![n] = s]
    /\ rep' = [r \in Replicas |-> [rep[r] EXCEPT !.queued = TRUE]]
    /\ UNCHANGED <<config, objects, creds, apis, minted>>

Rotate ==
    /\ config.rotates
    /\ Turn
    /\ creds' = creds + 1
    /\ UNCHANGED <<config, objects, files, apis, minted, rep>>

\* The aggregator reports on a registration; others make and remove theirs.
Dial(g, verdict) ==
    /\ config.meddled
    /\ routesHere(apis[g])
    /\ apis[g].available # verdict
    /\ Turn
    /\ apis' = [apis EXCEPT ![g].available = verdict]
    /\ UNCHANGED <<config, objects, files, creds, minted, rep>>

Meddle(g, route) ==
    /\ config.meddled
    /\ apis[g].route # route
    /\ Turn
    /\ apis' = [apis EXCEPT ![g] = Registration(route)]
    /\ UNCHANGED <<config, objects, files, creds, minted, rep>>

\* The cluster's garbage collector: all owners are gone.
Collect(g) ==
    /\ apis[g].owners # {}
    /\ \A n \in Names : objects[n] # None => objects[n].uid \notin apis[g].owners
    /\ apis' = [apis EXCEPT ![g] = Absent]
    /\ UNCHANGED <<config, objects, files, creds, minted, turns, rep>>

-----------------------------------------------------------------------------
(* Informers. *)

\* standingOf: what a status of the generation in hand says about claims.
standingOf(o) ==
    IF o = None \/ o.status.gen # o.gen THEN "unknown"
    ELSE CASE o.status.verdict \in {"serving", "previous"} -> "serving"
           [] o.status.verdict = "lost" -> "lost"
           [] OTHER -> "unknown"

\* The informer's handlers: a status matters when it moves a standing.  An
\* object created anew arrives as a deletion and an addition.
wakes(old, new) ==
    \/ (old = None) # (new = None)
    \/ /\ old # None
       /\ new # None
       /\ \/ old.uid # new.uid
          \/ old.gen # new.gen
          \/ standingOf(old) # standingOf(new)

\* A projection as it is now reaches a replica; delivered unchanged, it is the
\* informer's periodic resync.
Deliver(r, n) ==
    /\ rep' = [rep EXCEPT ![r].lister[n] = objects[n],
                          ![r].queued = @ \/ wakes(rep[r].lister[n], objects[n])]
    /\ UNCHANGED <<config, cluster, turns>>

\* Mutant: a registration that is gone is not missed.
sameWhileThere(old, new) ==
    new.route = "absent" \/ [old EXCEPT !.owners = {}] = [new EXCEPT !.owners = {}]

\* The spec and the status are compared, not the owners.
sameRegistration(old, new) == [old EXCEPT !.owners = {}] = [new EXCEPT !.owners = {}]

DeliverAPIService(r, g) ==
    /\ rep[r].regs[g] # apis[g]
    /\ rep' = [rep EXCEPT ![r].regs[g] = apis[g],
                          ![r].queued = @ \/ ~sameRegistration(rep[r].regs[g], apis[g])]
    /\ UNCHANGED <<config, cluster, turns>>

DeliverSecret(r) ==
    /\ config.secrets
    /\ rep[r].seen # creds
    /\ rep' = [rep EXCEPT ![r].seen = creds, ![r].queued = TRUE]
    /\ UNCHANGED <<config, cluster, turns>>

\* The delayed sync that a registration not yet settled asks for.
Recheck(r) ==
    /\ rep[r].recheck
    /\ rep' = [rep EXCEPT ![r].recheck = FALSE, ![r].queued = TRUE]
    /\ UNCHANGED <<config, cluster, turns>>

Restart(r) ==
    /\ Turn
    /\ rep' = [rep EXCEPT ![r] = Started]
    /\ UNCHANGED <<config, cluster>>

-----------------------------------------------------------------------------
(* sync: installing. *)

\* The projection a name stands for: a file's, if there is one.
candidate(q, n) ==
    IF files[n] # None THEN [spec |-> files[n], file |-> TRUE]
    ELSE IF q.lister[n] # None THEN [spec |-> q.lister[n].spec, file |-> FALSE]
    ELSE None

\* Mutant: what was compiled from the same specification is kept as it is.
survivingUnlessEdited(q, broken) ==
    [n \in Names |->
        LET cand == candidate(q, n) IN
        IF cand = None \/ (cand # None /\ cand.spec.group \notin config.allowed) THEN None
        ELSE IF q.compiled[n] # None /\ q.compiled[n].spec = cand.spec
                 /\ q.compiled[n].file = cand.file THEN q.compiled[n]
        ELSE IF n \in broken THEN None
        ELSE [spec |-> cand.spec, creds |-> creds, file |-> cand.file]]

\* What each candidate would be served as.  A group that is not allowed is not
\* served at all; what cannot be compiled keeps its previous compilation, unless
\* that came from the other side of the name.
surviving(q, broken) ==
    [n \in Names |->
        LET cand == candidate(q, n) IN
        IF cand = None \/ (cand # None /\ cand.spec.group \notin config.allowed) THEN None
        ELSE IF n \notin broken
        THEN [spec |-> cand.spec, creds |-> creds, file |-> cand.file]
        ELSE IF q.compiled[n] # None /\ q.compiled[n].file = cand.file THEN q.compiled[n]
        ELSE None]

rank(q, n) ==
    LET standing == IF files[n] # None THEN "unknown" ELSE standingOf(q.lister[n]) IN
    CASE standing = "serving" -> 0 [] standing = "unknown" -> 1 [] standing = "lost" -> 2

\* The order claims are settled in: the standing, then the age, then the name.
ranksAbove(q, m, n) ==
    LET created(k) == IF files[k] # None THEN 0 ELSE q.lister[k].uid IN
    \/ rank(q, m) < rank(q, n)
    \/ /\ rank(q, m) = rank(q, n)
       /\ \/ created(m) < created(n)
          \/ created(m) = created(n) /\ nameOrder[m] < nameOrder[n]

below(q) == [m \in Names |-> {n \in Names : ranksAbove(q, m, n)}]

\* resolveClaims: each in turn keeps what it claims, whole, unless one ranked
\* above it already does.
winners(order, surv) ==
    LET ns == {n \in Names : surv[n] # None} IN
    CHOOSE w \in SUBSET ns : \A n \in ns :
        n \in w <=> ~\E m \in w \ {n} :
            /\ n \in order[m]
            /\ surv[m].spec.claims \cap surv[n].spec.claims # {}

verdict(n, broken, surv, won) ==
    IF files[n] # None \/ surv[n] = None THEN "failed"
    ELSE IF n \notin won THEN "lost"
    ELSE IF n \in broken THEN "previous" ELSE "serving"

\* declaredGroupVersions: what every live projection declares, served or not, as
\* far as it is allowed.
declaredGroupVersions(q) ==
    {candidate(q, n).spec.group : n \in {m \in Names : candidate(q, m) # None}} \cap config.allowed

\* sync up to and including Rebuild, for the projections that fail this time.
\* What was remembered of a status goes with its object.
SyncInstalls(r, broken) ==
    LET q == rep[r]
        surv == surviving(q, broken)
        won == winners(below(q), surv) IN
    /\ q.pc = "idle"
    /\ q.queued
    /\ IF broken = {} THEN UNCHANGED turns ELSE config.fails /\ Turn
    /\ rep' = [rep EXCEPT ![r] = [@ EXCEPT
           !.pc = IF config.apiServices THEN "register" ELSE "status", !.queued = FALSE, !.failing = broken,
           !.compiled = [n \in Names |-> IF n \in won THEN surv[n] ELSE None],
           !.declared = declaredGroupVersions(q),
           !.last = [n \in Names |-> IF q.lister[n] = None THEN None ELSE q.last[n]],
           !.due = [n \in Names |-> IF q.lister[n] = None THEN None
                        ELSE [was |-> q.lister[n], verdict |-> verdict(n, broken, surv, won)]]]]
    /\ UNCHANGED <<config, cluster>>

-----------------------------------------------------------------------------
(* sync: registering. *)

wanted(q) == {q.compiled[n].spec.group : n \in {m \in Names : q.compiled[m] # None}}

\* apiServiceOwners: the objects served through a group version, and nobody when
\* a file is.
owners(q, g) ==
    LET ns == {n \in Names : q.compiled[n] # None /\ q.compiled[n].spec.group = g} IN
    IF \E n \in ns : q.compiled[n].file THEN {} ELSE {q.due[n].was.uid : n \in ns}

\* desired: the registration of a group version, as this server would have it.
desired(q, g) == [Registration("ours") EXCEPT !.owners = owners(q, g)]

\* ensure: what is there after a group version was seen to, as the cache has it.
ensured(q, g) ==
    LET cached == q.regs[g] IN
    CASE cached.route = "absent" /\ apis[g].route = "absent" -> desired(q, g)
      [] cached.route = "ours" /\ cached = apis[g] -> [apis[g] EXCEPT !.owners = desired(q, g).owners]
      [] OTHER -> apis[g]

\* prune: a registration of this server's that no live projection declares.
prunes(q, g) == q.regs[g].route = "ours" /\ g \notin wanted(q) \cup q.declared

\* routable, and what ensure itself reports.
pending(q, g) == routesHere(q.regs[g]) /\ q.regs[g].available = "pending"
unroutable(q, g) == ~routesHere(q.regs[g]) \/ q.regs[g].available = "down"

SyncRegisters(r) ==
    LET q == rep[r]
        gs == wanted(q) IN
    /\ q.pc = "register"
    /\ apis' = [g \in Groups |->
           CASE g \in gs -> ensured(q, g)
             [] prunes(q, g) -> Absent
             [] OTHER -> apis[g]]
    /\ rep' = [rep EXCEPT ![r] = [@ EXCEPT
           !.pc = "status",
           !.unrouted = {g \in gs : unroutable(q, g)},
           !.recheck = \E g \in gs : unroutable(q, g) \/ pending(q, g)]]
    /\ UNCHANGED <<config, objects, files, creds, minted, turns>>

-----------------------------------------------------------------------------
(* sync: reporting. *)

\* What a sync has to say of an object.
judged(q, n) ==
    LET d == q.due[n] IN
    [gen |-> d.was.gen, verdict |-> d.verdict,
     routed |-> d.verdict = "serving" => d.was.spec.group \notin q.unrouted]

\* Mutant: the generation a status speaks of is not compared.
statusUnchangedButForGeneration(q, n, st) ==
    LET known == IF q.last[n] # None THEN q.last[n].status ELSE q.due[n].was.status IN
    [known EXCEPT !.gen = st.gen] = st

\* Compared with what this replica last wrote, and with the copy listed when it
\* has written none.
statusUnchanged(q, n, st) ==
    st = IF q.last[n] # None THEN q.last[n].status ELSE q.due[n].was.status

\* Mutant: a status is written whatever generation the object is of by then.
statusAfterAny(q, n) ==
    LET remembered == [status |-> judged(q, n), uid |-> q.due[n].was.uid] IN
    IF statusUnchanged(q, n, judged(q, n))
    THEN [last |-> IF q.last[n] # None THEN q.last[n] ELSE remembered, object |-> objects[n]]
    ELSE IF objects[n] = None THEN [last |-> q.last[n], object |-> None]
    ELSE [last |-> remembered, object |-> [objects[n] EXCEPT !.status = judged(q, n)]]

\* updateStatus: written to the object as it is now, if it is still of the
\* generation judged.
statusAfter(q, n) ==
    LET st == judged(q, n)
        unchanged == statusUnchanged(q, n, st)
        remembered == [status |-> st, uid |-> q.due[n].was.uid] IN
    CASE unchanged -> [last |-> IF q.last[n] # None THEN q.last[n] ELSE remembered,
                       object |-> objects[n]]
      [] ~unchanged /\ objects[n] = None -> [last |-> q.last[n], object |-> None]
      [] ~unchanged /\ objects[n] # None ->
             [last |-> remembered,
              object |-> IF objects[n].gen = q.due[n].was.gen
                         THEN [objects[n] EXCEPT !.status = st] ELSE objects[n]]

Reports(r, n, after, failing) ==
    /\ rep[r].pc = "status"
    /\ rep[r].due[n] # None
    /\ objects' = [objects EXCEPT ![n] = after.object]
    /\ rep' = [rep EXCEPT ![r] = [@ EXCEPT
           !.due[n] = None, !.last[n] = after.last,
           !.failing = rep[r].failing \cup failing]]
    /\ UNCHANGED <<config, files, creds, apis, minted>>

SyncReports(r, n) ==
    /\ Reports(r, n, statusAfter(rep[r], n), {})
    /\ UNCHANGED turns

\* The write fails, and is not tried again.
SyncReportFails(r, n) ==
    /\ config.fails
    /\ Turn
    /\ Reports(r, n, [last |-> rep[r].last[n], object |-> objects[n]], {n})

SyncEnds(r) ==
    /\ rep[r].pc = "status"
    /\ \A n \in Names : rep[r].due[n] = None
    /\ rep' = [rep EXCEPT ![r].pc = "idle", ![r].declared = {}, ![r].unrouted = {}]
    /\ UNCHANGED <<config, cluster, turns>>

-----------------------------------------------------------------------------
Others ==
    \/ \E n \in config.names : (\E s \in config.specs : Create(n, s) \/ Edit(n, s)) \/ Delete(n)
    \/ \E n \in config.names, s \in config.specs \cup {None} : FileChanges(n, s)
    \/ Rotate
    \/ \E g \in Groups : \/ \E v \in {"up", "down"} : Dial(g, v)
                         \/ \E route \in {"absent", "elsewhere"} : Meddle(g, route)
    \/ \E r \in config.replicas : Restart(r)

Works(r) ==
    \/ \E broken \in SUBSET config.names : SyncInstalls(r, broken)
    \/ SyncRegisters(r)
    \/ SyncEnds(r)
    \/ \E n \in config.names : SyncReports(r, n) \/ SyncReportFails(r, n)

Informs(r) ==
    \/ \E n \in config.names : Deliver(r, n)
    \/ \E g \in Groups : DeliverAPIService(r, g)
    \/ DeliverSecret(r)
    \/ Recheck(r)

Next ==
    \/ Others
    \/ \E g \in Groups : Collect(g)
    \/ \E r \in config.replicas : Works(r) \/ Informs(r)

Spec == Init /\ [][Next]_vars

-----------------------------------------------------------------------------
(* Properties. *)

APIService == [route : {"absent", "ours", "byHand", "elsewhere"},
               available : {"pending", "up", "down"}, owners : SUBSET Nat]
Replica == [lister : [Names -> Object \cup {None}], regs : [Groups -> APIService],
            seen : Nat, queued : BOOLEAN, recheck : BOOLEAN,
            pc : {"idle", "register", "status"},
            compiled : [Names -> Compilation \cup {None}], failing : SUBSET Names,
            last : [Names -> Memory \cup {None}], due : [Names -> Judgement \cup {None}],
            declared : SUBSET Groups, unrouted : SUBSET Groups]

TypeOK ==
    /\ config \in Configs
    /\ objects \in [Names -> Object \cup {None}]
    /\ \A n \in Names : objects[n] # None =>
           objects[n].status.gen <= objects[n].gen /\ objects[n].uid \in 1..minted
    /\ files \in [Names -> Specs \cup {None}]
    /\ turns \in 0..config.turns
    /\ creds \in 0..turns
    /\ minted \in Cardinality(Names)..(Cardinality(Names) + turns)
    /\ apis \in [Groups -> APIService]
    /\ \A g \in Groups : apis[g].owners \subseteq 1..minted
    /\ rep \in [Replicas -> Replica]

\* Nothing is under way, and nothing that happened is still to be heard of.
Quiet ==
    /\ \A r \in config.replicas :
           /\ rep[r].pc = "idle"
           /\ ~rep[r].queued
           /\ ~rep[r].recheck
           /\ rep[r].lister = objects
           /\ rep[r].regs = apis
           /\ rep[r].seen = creds
    /\ \A g \in Groups : ~(apis[g].owners # {} /\ \A n \in Names :
                              objects[n] # None => objects[n].uid \notin apis[g].owners)

\* Nothing failed in any replica's last sync: a failure is not tried again until
\* something else queues a sync.
Faultless == \A r \in config.replicas : rep[r].failing = {}

\* Once everything has been heard of, every replica serves the same projections,
\* each as it is now, and what is not served gives way to what is: the answer to
\* a contested resource is "the same in every replica, and the same across a
\* restart" (controller.go, resolveClaims), whatever order the replicas read and
\* wrote the statuses in that it is decided from.
SurfaceSettled ==
    Quiet /\ Faultless =>
        \A r \in config.replicas :
            LET served == rep[r].compiled IN
            /\ \A r2 \in config.replicas : rep[r2].compiled = served
            /\ \A n \in Names :
                   LET cand == candidate(rep[r], n) IN
                   IF served[n] # None
                   THEN cand # None /\ served[n] = [spec |-> cand.spec, creds |-> creds,
                                                    file |-> cand.file]
                   ELSE \/ cand = None
                        \/ cand.spec.group \notin config.allowed
                        \/ \E m \in Names \ {n} : served[m] # None
                               /\ served[m].spec.claims \cap cand.spec.claims # {}

\* Then every projection's status says what became of it, though replicas write
\* it at will and each skips a write it believes made (controller.go,
\* updateStatus and lastStatus); except where a replica remembers the status of
\* an earlier object of the name.
StatusTells ==
    Quiet /\ Faultless =>
        \A n \in Names :
            objects[n] # None
            /\ (\A r \in config.replicas :
                    rep[r].last[n] # None => rep[r].last[n].uid = objects[n].uid)
            => \A r \in config.replicas :
                   /\ objects[n].status.gen = objects[n].gen
                   /\ objects[n].status.verdict = "serving" <=>
                          rep[r].compiled[n] # None /\ ~rep[r].compiled[n].file

\* Then a served group version is registered or belongs to somebody else, and
\* what this server registered is a group it may take and that a live
\* projection declares, though each replica decides from a cache that lags
\* (apiservice.go, reconcile; controller.go: "what is pruned is too: the
\* registrations of projections that are gone, and nothing else").
RegistrationsSettled ==
    Quiet /\ config.apiServices =>
        \A r \in config.replicas, g \in Groups :
            /\ g \in wanted(rep[r]) => apis[g].route # "absent"
            /\ Faultless /\ apis[g].route = "ours" => g \in config.allowed /\ \E n \in Names :
                   candidate(rep[r], n) # None /\ candidate(rep[r], n).spec.group = g
=============================================================================
