----------------------------- MODULE PoolProofs -----------------------------
(* Proofs about Pool for every number of jobs, connections, session         *)
(* variables and projections, and any budget of faults, migrations and      *)
(* cancellations.                                                           *)
EXTENDS Pool, TLAPS, FiniteSetTheorems

-----------------------------------------------------------------------------
(* What holds of a job. *)

Waiting == {"start", "queued", "stmtFor", "call", "conn", "evict"}
Connected == {"minting", "joined", "connecting", "got"}
Transacting == {"session", "statements", "finish"}
Answered == {"release", "done"}

Job == [pc : Waiting \cup Connected \cup Transacting \cup Answered, want : {"run", "prepare"},
        conn : Conns \cup {None}, slot : BOOLEAN, tx : {"none", "open", "over"}, ran : Nat,
        handle : Nat, cancelled : BOOLEAN, answer : Answers \cup {None}]
Conn == [state : {"closed", "idle", "used"}, vars : [Variables -> Jobs \cup {None}]]

\* What job j, being q, has got hold of.
Phase(j, q) ==
    /\ q.pc # "done" => kind(j) \in Kinds
    /\ q.pc \in Waiting \cup Answered => q.conn = None
    /\ q.pc \in Connected => q.conn # None
    /\ q.pc \in Waiting \cup Connected => q.tx = "none"
    /\ q.pc \in Transacting => transactional(j) /\ q.tx # "none"
    /\ q.tx = "open" => q.pc \in Transacting /\ q.conn # None
    /\ q.slot => q.pc \notin {"start", "queued", "done"} /\ ~isProbe(j) /\ config.limit > 0

\* The session variables on its connection are its own, and before its
\* transaction there are none.
Session(j, q) ==
    q.conn # None =>
        LET vs == conn[q.conn].vars IN
        /\ \A v \in Variables : vs[v] \in (IF v \in kind(j).session THEN {None, j} ELSE {None})
        /\ q.tx = "none" => vs = NoVariables
        /\ q.pc = "statements" /\ q.tx = "open" => vs = own(j)

\* What its statements did, of which there are so many.
Width(j) == IF kind(j) = None THEN 1 ELSE kind(j).statements
Times(j, x) == applied[j] = [i \in 1..Width(j) |-> x]

Effect(j, q) ==
    /\ Times(j, 0) \/ Times(j, 1)
    /\ q.pc \in Waiting \cup Connected \cup {"session", "statements"} =>
           q.answer = None /\ Times(j, 0)
    /\ q.answer = "ok" => isProbe(j) \/ Times(j, 1)
    /\ q.answer \in {"shed", "unbound"} => Times(j, 0)
    /\ q.answer = "refused" => kind(j).statements = 1 \/ Times(j, 0)

JobInv(j, q) == q \in Job /\ Phase(j, q) /\ Session(j, q) /\ Effect(j, q)

Jobwise ==
    /\ config \in Configs
    /\ conn \in [Conns -> Conn]
    /\ DOMAIN applied = Jobs
    /\ job \in [Jobs -> Job]
    /\ \A j \in Jobs : JobInv(j, job[j])

-----------------------------------------------------------------------------
(* What holds of connections, slots, the token command and prepared         *)
(* statements.                                                              *)

\* A connection is used by one job, and clean when none uses it.
Connwise ==
    /\ \A c \in Conns :
           /\ conn[c].state = "used" <=> \E j \in Jobs : job[j].conn = c
           /\ conn[c].state # "used" => conn[c].vars = NoVariables
           /\ closed => conn[c].state # "idle"
    /\ \A i, j \in Jobs : job[i].conn = job[j].conn /\ job[i].conn # None => i = j

slotted(p) == {j \in Jobs : job[j].slot /\ kind(j).projection = p}

Slotwise ==
    /\ slots \in [Projections -> Nat]
    /\ \A p \in Projections :
           /\ slots[p] = Cardinality(slotted(p))
           /\ config.limit > 0 => slots[p] <= config.limit

Runwise ==
    /\ run \in Jobs \cup {None, Listener}
    /\ \A j \in Jobs : At(j, "minting") <=> run = j
    /\ (listener = "minting") <=> (run = Listener)
    /\ (listener = "joined" \/ \E j \in Jobs : At(j, "joined")) => run # None

Planned ==
    /\ stmts \in [cached : Nat, gone : SUBSET Nat, plans : Seq(Nat)]
    /\ schema \in Nat

PoolInv == Jobwise /\ Connwise /\ Slotwise /\ Runwise /\ Planned

-----------------------------------------------------------------------------
(* The constants. *)

LEMMA KindFields ==
    ASSUME config \in Configs, NEW j \in Jobs
    PROVE  /\ kind(j) \in Kinds \cup {None}
           /\ kind(j) \in Kinds =>
                  /\ kind(j) # None /\ kind(j).statements \in 1..2
                  /\ kind(j).session \subseteq Variables
                  /\ kind(j).projection \in Projections \cup {None}
           /\ config.limit \in Nat
           /\ config.dialect \in {"setConfig", "userVariable"}
           /\ j # None /\ j # Listener
<1>1. kind(j) \in Kinds \cup {None}
    BY PoolAssumption DEF kind
<1>2. kind(j) \in Kinds => kind(j) # None
    BY PoolAssumption
<1>3. kind(j) \in Kinds => /\ kind(j).statements \in 1..2
                           /\ kind(j).session \subseteq Variables
                           /\ kind(j).projection \in Projections \cup {None}
    BY DEF Kinds
<1>4. config.limit \in Nat /\ config.dialect \in {"setConfig", "userVariable"}
    BY PoolAssumption
<1>5. j # None /\ j # Listener
    BY PoolAssumption
<1> QED BY <1>1, <1>2, <1>3, <1>4, <1>5

LEMMA Nobody ==
    /\ None \notin Conns /\ None \notin Answers /\ None \notin Projections /\ None # Listener
    /\ NoVariables \in [Variables -> Jobs \cup {None}]
    /\ \A v \in Variables : NoVariables[v] = None
    /\ discarded \in Conn /\ discarded.state = "closed" /\ discarded.vars = NoVariables
BY PoolAssumption DEF NoVariables, discarded, Conn

-----------------------------------------------------------------------------
(* A step of one job: what it may do to connections. *)

\* Job j, becoming q, touches the connection it had and the one it has then. One
\* that it gives back is clean, and one that it takes was nobody's.
Hands(j, q) ==
    /\ conn' \in [Conns -> Conn]
    /\ \A c \in Conns : c \notin {job[j].conn, q.conn} => conn'[c] = conn[c]
    /\ job[j].conn \notin {None, q.conn} =>
           /\ conn'[job[j].conn].state # "used"
           /\ conn'[job[j].conn].vars = NoVariables
           /\ closed => conn'[job[j].conn].state # "idle"
    /\ q.conn # None => conn'[q.conn].state = "used"
    /\ q.conn \notin {None, job[j].conn} => conn[q.conn].state # "used"

LEMMA HandsKept ==
    ASSUME Jobwise, Connwise, NEW j \in Jobs, NEW q \in Job, q.conn = job[j].conn,
           conn' = conn
    PROVE  Hands(j, q)
BY DEF Jobwise, Connwise, Hands, Job

\* A connection is given back or discarded.
LEMMA HandsBack ==
    ASSUME Jobwise, Connwise, NEW j \in Jobs, NEW q \in Job, q.conn = None,
           job[j].conn # None, NEW back \in Conn, back.state # "used",
           back.vars = NoVariables, closed => back.state # "idle",
           conn' = [conn EXCEPT ![job[j].conn] = back]
    PROVE  Hands(j, q)
<1>1. job[j].conn \in Conns
    BY DEF Jobwise, Job
<1>2. conn' \in [Conns -> Conn] /\ conn'[job[j].conn] = back
    BY <1>1 DEF Jobwise
<1>3. \A c \in Conns : c # job[j].conn => conn'[c] = conn[c]
    BY DEF Jobwise
<1> QED BY <1>1, <1>2, <1>3 DEF Hands

\* Variables are set on the connection.
LEMMA HandsVars ==
    ASSUME Jobwise, Connwise, NEW j \in Jobs, NEW q \in Job, q.conn = job[j].conn,
           job[j].conn # None, NEW vs \in [Variables -> Jobs \cup {None}],
           conn' = [conn EXCEPT ![job[j].conn].vars = vs]
    PROVE  Hands(j, q) /\ conn'[q.conn].vars = vs
<1>1. job[j].conn \in Conns /\ conn[job[j].conn].state = "used"
    BY DEF Jobwise, Job, Connwise
<1>2. PICK r : r = [conn[job[j].conn] EXCEPT !.vars = vs]
    OBVIOUS
<1>3. r \in Conn /\ r.state = "used" /\ r.vars = vs
    BY <1>1, <1>2 DEF Jobwise, Conn
<1>4. conn' \in [Conns -> Conn] /\ conn'[job[j].conn] = r
    BY <1>1, <1>2, <1>3 DEF Jobwise
<1>5. \A c \in Conns : c # job[j].conn => conn'[c] = conn[c]
    BY DEF Jobwise
<1> QED BY <1>1, <1>3, <1>4, <1>5 DEF Hands

\* A connection is taken that nobody uses.
LEMMA HandsTaken ==
    ASSUME Jobwise, Connwise, NEW j \in Jobs, NEW q \in Job, NEW c \in Conns, q.conn = c,
           job[j].conn = None, conn[c].state # "used",
           conn' = [conn EXCEPT ![c].state = "used"]
    PROVE  Hands(j, q) /\ conn'[c].vars = NoVariables
<1>1. conn[c].vars = NoVariables
    BY DEF Connwise
<1>2. PICK r : r = [conn[c] EXCEPT !.state = "used"]
    OBVIOUS
<1>3. r \in Conn /\ r.state = "used" /\ r.vars = NoVariables
    BY <1>1, <1>2 DEF Jobwise, Conn
<1>4. conn' \in [Conns -> Conn] /\ conn'[c] = r
    BY <1>2, <1>3 DEF Jobwise
<1>5. \A d \in Conns : d # c => conn'[d] = conn[d]
    BY DEF Jobwise
<1> QED BY <1>3, <1>4, <1>5 DEF Hands

\* What is on the connections of the others does not change.
LEMMA HandsOwn ==
    ASSUME Jobwise, Connwise, NEW j \in Jobs, NEW q \in Job, Hands(j, q),
           NEW i \in Jobs, i # j, job[i].conn # None
    PROVE  job[i].conn \notin {job[j].conn, q.conn} /\ conn'[job[i].conn] = conn[job[i].conn]
<1>1. job[i].conn \in Conns /\ job[i].conn # job[j].conn
    BY DEF Jobwise, Job, Connwise
<1>2. conn[job[i].conn].state = "used"
    BY <1>1 DEF Connwise
<1>3. job[i].conn # q.conn
    BY <1>1, <1>2, Nobody DEF Hands
<1> QED BY <1>1, <1>3 DEF Hands

LEMMA JobMoves ==
    ASSUME Jobwise, Connwise, NEW j \in Jobs, NEW q \in Job, Hands(j, q),
           job' = [job EXCEPT ![j] = q], JobInv(j, q)',
           config' = config, DOMAIN applied' = Jobs,
           \A i \in Jobs : i # j => applied'[i] = applied[i]
    PROVE  Jobwise'
<1>1. job' \in [Jobs -> Job] /\ job'[j] = q /\ \A i \in Jobs : i # j => job'[i] = job[i]
    BY DEF Jobwise
<1>2. ASSUME NEW i \in Jobs, i # j
      PROVE  JobInv(i, job[i])'
    <2>1. JobInv(i, job[i]) /\ job'[i] = job[i] /\ applied'[i] = applied[i]
        BY <1>1, <1>2 DEF Jobwise
    <2>2. Phase(i, job[i])'
        BY <2>1 DEF JobInv, Phase, kind, transactional, isProbe
    <2>3. Effect(i, job[i])'
        BY <2>1 DEF JobInv, Effect, Times, Width, kind, isProbe
    <2>4. Session(i, job[i])'
        <3>1. job[i].conn # None => conn'[job[i].conn] = conn[job[i].conn]
            BY <1>2, HandsOwn
        <3> QED BY <2>1, <3>1 DEF JobInv, Session, kind, own
    <2> QED BY <1>1, <1>2, <2>1, <2>2, <2>3, <2>4 DEF JobInv
<1>3. JobInv(j, job[j])'
    BY <1>1
<1>4. \A i \in Jobs : JobInv(i, job[i])'
    BY <1>2, <1>3
<1> QED BY <1>1, <1>4 DEF Jobwise, Hands

LEMMA ConnMoves ==
    ASSUME Jobwise, Connwise, NEW j \in Jobs, NEW q \in Job, Hands(j, q),
           job' = [job EXCEPT ![j] = q], closed' = closed
    PROVE  Connwise'
<1>1. job'[j] = q /\ \A i \in Jobs : i # j => job'[i] = job[i]
    BY DEF Jobwise
<1>2. \A i \in Jobs : i # j /\ job[i].conn # None => job[i].conn \notin {job[j].conn, q.conn}
    BY HandsOwn
<1>3. ASSUME NEW c \in Conns
      PROVE  /\ conn'[c].state = "used" <=> \E i \in Jobs : job'[i].conn = c
             /\ conn'[c].state # "used" => conn'[c].vars = NoVariables
             /\ closed => conn'[c].state # "idle"
    <2>1. CASE c = q.conn
        BY <1>1, <2>1, Nobody DEF Hands
    <2>2. CASE c = job[j].conn /\ c # q.conn
        BY <1>1, <1>2, <2>2, Nobody DEF Hands
    <2>3. CASE c \notin {job[j].conn, q.conn}
        BY <1>1, <2>3 DEF Hands, Connwise
    <2> QED BY <2>1, <2>2, <2>3
<1>4. ASSUME NEW i \in Jobs, NEW k \in Jobs, job'[i].conn = job'[k].conn, job'[i].conn # None
      PROVE  i = k
    BY <1>1, <1>2, <1>4 DEF Connwise
<1> QED BY <1>3, <1>4 DEF Connwise, NoVariables

-----------------------------------------------------------------------------
(* Steps that take no slot, release none and start no token command. *)

Quiet(j, q) ==
    /\ q.slot = job[j].slot
    /\ q.pc = "minting" <=> job[j].pc = "minting"
    /\ q.pc = "joined" => job[j].pc = "joined"
    /\ UNCHANGED <<config, slots, run, listener, closed>>

LEMMA SlotsKept ==
    ASSUME Jobwise, Slotwise, NEW j \in Jobs, NEW q \in Job, job' = [job EXCEPT ![j] = q],
           q.slot = job[j].slot, UNCHANGED <<config, slots>>
    PROVE  Slotwise'
<1>1. \A i \in Jobs : job'[i].slot = job[i].slot
    BY DEF Jobwise
<1>2. \A p \in Projections : slotted(p)' = slotted(p)
    BY <1>1 DEF slotted, kind
<1> QED BY <1>2 DEF Slotwise

LEMMA RunKept ==
    ASSUME Jobwise, Runwise, NEW j \in Jobs, NEW q \in Job, job' = [job EXCEPT ![j] = q],
           q.pc = "minting" <=> job[j].pc = "minting", q.pc = "joined" => job[j].pc = "joined",
           UNCHANGED <<run, listener>>
    PROVE  Runwise'
<1>1. job'[j] = q /\ \A i \in Jobs : i # j => job'[i] = job[i]
    BY DEF Jobwise
<1>2. \A i \in Jobs : At(i, "minting")' <=> At(i, "minting")
    BY <1>1 DEF At
<1>3. \A i \in Jobs : At(i, "joined")' => At(i, "joined")
    BY <1>1 DEF At
<1> QED BY <1>2, <1>3 DEF Runwise

LEMMA QuietMove ==
    ASSUME PoolInv, NEW j \in Jobs, NEW q \in Job, Quiet(j, q), Hands(j, q),
           job' = [job EXCEPT ![j] = q], JobInv(j, q)', DOMAIN applied' = Jobs,
           \A i \in Jobs : i # j => applied'[i] = applied[i], Planned'
    PROVE  PoolInv'
<1>1. Jobwise'
    BY JobMoves DEF PoolInv, Quiet
<1>2. Connwise'
    BY ConnMoves DEF PoolInv, Quiet
<1>3. Slotwise'
    BY SlotsKept DEF PoolInv, Quiet
<1>4. Runwise'
    BY RunKept DEF PoolInv, Quiet
<1> QED BY <1>1, <1>2, <1>3, <1>4 DEF PoolInv

LEMMA PhaseKept ==
    ASSUME config' = config, NEW j, NEW q, Phase(j, q)
    PROVE  Phase(j, q)'
BY DEF Phase, kind, transactional, isProbe

LEMMA EffectKept ==
    ASSUME UNCHANGED <<config, applied>>, NEW j, NEW q, Effect(j, q)
    PROVE  Effect(j, q)'
BY DEF Effect, Times, Width, kind, isProbe

\* A step that leaves connections and tables alone.
LEMMA Stays ==
    ASSUME PoolInv, NEW j \in Jobs, NEW q \in Job, Quiet(j, q), job' = [job EXCEPT ![j] = q],
           q.conn = job[j].conn, UNCHANGED <<conn, applied>>, Phase(j, q), Effect(j, q),
           q.tx = "none" => job[j].tx = "none",
           q.pc = "statements" => job[j].pc = "statements",
           q.tx = "open" => job[j].tx = "open" \/ q.pc = "session", Planned'
    PROVE  PoolInv'
<1>1. Hands(j, q)
    BY HandsKept DEF PoolInv
<1>2. Session(j, job[j])
    BY DEF PoolInv, Jobwise, JobInv
<1>3. Session(j, q)'
    BY <1>2 DEF Session, Quiet, kind, own
<1>4. Phase(j, q)' /\ Effect(j, q)'
    BY PhaseKept, EffectKept DEF Quiet
<1>5. JobInv(j, q)'
    BY <1>3, <1>4 DEF JobInv
<1>6. DOMAIN applied' = Jobs /\ \A i \in Jobs : i # j => applied'[i] = applied[i]
    BY DEF PoolInv, Jobwise
<1> QED BY <1>1, <1>5, <1>6, QuietMove

\* A step that gives the job's connection back, or discards it.
LEMMA GoesBack ==
    ASSUME PoolInv, NEW j \in Jobs, NEW q \in Job, Quiet(j, q), job' = [job EXCEPT ![j] = q],
           q.conn = None, job[j].conn # None, NEW back \in Conn, back.state # "used",
           back.vars = NoVariables, closed => back.state # "idle",
           conn' = [conn EXCEPT ![job[j].conn] = back],
           Phase(j, q), Effect(j, q)', DOMAIN applied' = Jobs,
           \A i \in Jobs : i # j => applied'[i] = applied[i], Planned'
    PROVE  PoolInv'
<1>1. Hands(j, q)
    BY HandsBack DEF PoolInv
<1>2. Session(j, q)'
    BY DEF Session
<1>3. Phase(j, q)'
    BY PhaseKept DEF Quiet
<1>4. JobInv(j, q)'
    BY <1>2, <1>3 DEF JobInv
<1> QED BY <1>1, <1>4, QuietMove

\* Given back clean, a connection is one that anybody can take.
LEMMA GivenClean ==
    ASSUME NEW c, NEW vs, vs = NoVariables
    PROVE  /\ givenBack(c, vs) \in Conn /\ givenBack(c, vs).state # "used"
           /\ givenBack(c, vs).vars = NoVariables
           /\ closed => givenBack(c, vs).state # "idle"
BY Nobody DEF givenBack, Conn

\* Before its transaction a job's connection has no variables.
LEMMA CleanBefore ==
    ASSUME PoolInv, NEW j \in Jobs, job[j].pc \in Connected
    PROVE  /\ job[j].conn \in Conns /\ job[j].conn # None /\ job[j].tx = "none"
           /\ conn[job[j].conn].vars = NoVariables
           /\ job[j].answer = None /\ Times(j, 0) /\ kind(j) \in Kinds
BY Nobody DEF PoolInv, Jobwise, JobInv, Job, Phase, Session, Effect, Connected, Waiting,
              Answered, Transacting

\* Once it ends, what a transaction that is not on a held connection leaves.
LEMMA LeftClean ==
    ASSUME PoolInv, NEW j \in Jobs, job[j].conn # None, ~holds(j), kind(j) \in Kinds
    PROVE  left(job[j].conn) = NoVariables
<1>1. job[j].conn \in Conns /\ Session(j, job[j])
    BY DEF PoolInv, Jobwise, JobInv, Job
<1>2. CASE config.dialect = "setConfig"
    BY <1>2 DEF left
<1>3. CASE kind(j).session = {}
    <2>1. conn[job[j].conn].vars \in [Variables -> Jobs \cup {None}]
        BY <1>1 DEF PoolInv, Jobwise, Conn
    <2>2. \A v \in Variables : conn[job[j].conn].vars[v] = None
        BY <1>1, <1>3 DEF Session
    <2>3. conn[job[j].conn].vars = NoVariables
        BY <2>1, <2>2 DEF NoVariables
    <2> QED BY <2>3 DEF left
<1> QED BY <1>2, <1>3, KindFields DEF holds, PoolInv, Jobwise

-----------------------------------------------------------------------------
(* Steps of a job that leave connections and tables alone. *)

LEMMA OfJob ==
    ASSUME PoolInv, NEW j \in Jobs
    PROVE  job[j] \in Job /\ Phase(j, job[j]) /\ Session(j, job[j]) /\ Effect(j, job[j])
BY DEF PoolInv, Jobwise, JobInv

LEMMA PlannedKept == Planned /\ UNCHANGED <<stmts, schema>> => Planned'
BY DEF Planned

LEMMA RemovedPlans ==
    ASSUME Planned
    PROVE  stmts.cached \in Nat /\ removed \in [cached : Nat, gone : SUBSET Nat, plans : Seq(Nat)]
BY DEF Planned, removed

LEMMA WaitingSteps ==
    ASSUME PoolInv, NEW j \in Jobs,
           Queues(j) \/ Shed(j) \/ StmtFor(j) \/ Calls(j) \/ EvictStatement(j)
    PROVE  PoolInv'
<1>1. job[j] \in Job /\ Phase(j, job[j]) /\ Effect(j, job[j]) /\ Planned
    BY OfJob DEF PoolInv
<1>2. CASE Queues(j)
    <2>1. PICK q : q = [job[j] EXCEPT !.pc = "queued"]
        OBVIOUS
    <2>2. /\ q \in Job /\ job[j].pc = "start" /\ q.pc = "queued" /\ q.conn = job[j].conn
          /\ q.tx = job[j].tx /\ q.slot = job[j].slot /\ q.answer = job[j].answer
        BY <1>1, <1>2, <2>1 DEF Job, Queues, At, Waiting
    <2>3. Quiet(j, q) /\ job' = [job EXCEPT ![j] = q] /\ UNCHANGED <<conn, applied>>
        BY <1>2, <2>1, <2>2 DEF Queues, Quiet, Moves, Becomes
    <2>4. Phase(j, q) /\ Effect(j, q)
        BY <1>1, <2>2 DEF Phase, Effect, Waiting, Connected, Transacting, Answered
    <2>5. Planned'
        BY <1>1, <1>2, PlannedKept DEF Queues
    <2> QED BY <2>2, <2>3, <2>4, <2>5, Stays
<1>3. CASE Shed(j)
    <2>1. PICK q : q = [job[j] EXCEPT !.pc = "done", !.answer = "shed"]
        OBVIOUS
    <2>2. /\ q \in Job /\ job[j].pc = "queued" /\ q.pc = "done" /\ q.conn = job[j].conn
          /\ q.tx = job[j].tx /\ q.slot = job[j].slot /\ q.answer = "shed"
        BY <1>1, <1>3, <2>1 DEF Job, Shed, At, Answered, Answers
    <2>3. Quiet(j, q) /\ job' = [job EXCEPT ![j] = q] /\ UNCHANGED <<conn, applied>>
        BY <1>3, <2>1, <2>2 DEF Shed, Quiet, Becomes
    <2>4. Phase(j, q) /\ Effect(j, q)
        BY <1>1, <2>2 DEF Phase, Effect, Waiting, Connected, Transacting, Answered
    <2>5. Planned'
        BY <1>1, <1>3, PlannedKept DEF Shed
    <2> QED BY <2>2, <2>3, <2>4, <2>5, Stays
<1>4. CASE StmtFor(j)
    <2>1. PICK q : q = IF stmts.cached # 0
                       THEN [job[j] EXCEPT !.pc = "call", !.handle = stmts.cached]
                       ELSE [job[j] EXCEPT !.pc = "conn", !.want = "prepare"]
        OBVIOUS
    <2>2. /\ q \in Job /\ job[j].pc = "stmtFor" /\ q.pc \in {"call", "conn"}
          /\ q.conn = job[j].conn
          /\ q.tx = job[j].tx /\ q.slot = job[j].slot /\ q.answer = job[j].answer
        BY <1>1, <1>4, <2>1, RemovedPlans DEF Job, StmtFor, At, Waiting
    <2>3. Quiet(j, q) /\ job' = [job EXCEPT ![j] = q] /\ UNCHANGED <<conn, applied>>
        BY <1>4, <2>1, <2>2 DEF StmtFor, Quiet, Becomes
    <2>4. Phase(j, q) /\ Effect(j, q)
        BY <1>1, <2>2 DEF Phase, Effect, Waiting, Connected, Transacting, Answered
    <2>5. Planned'
        BY <1>1, <1>4, PlannedKept DEF StmtFor
    <2> QED BY <2>2, <2>3, <2>4, <2>5, Stays
<1>5. CASE Calls(j)
    <2>1. PICK q : q = [job[j] EXCEPT !.pc = "conn",
                                      !.handle = IF @ \in stmts.gone THEN 0 ELSE @]
        OBVIOUS
    <2>2. /\ q \in Job /\ job[j].pc = "call" /\ q.pc = "conn" /\ q.conn = job[j].conn
          /\ q.tx = job[j].tx /\ q.slot = job[j].slot /\ q.answer = job[j].answer
        BY <1>1, <1>5, <2>1 DEF Job, Calls, At, Waiting
    <2>3. Quiet(j, q) /\ job' = [job EXCEPT ![j] = q] /\ UNCHANGED <<conn, applied>>
        BY <1>5, <2>1, <2>2 DEF Calls, Quiet, Becomes
    <2>4. Phase(j, q) /\ Effect(j, q)
        BY <1>1, <2>2 DEF Phase, Effect, Waiting, Connected, Transacting, Answered
    <2>5. Planned'
        BY <1>1, <1>5, PlannedKept DEF Calls
    <2> QED BY <2>2, <2>3, <2>4, <2>5, Stays
<1>6. CASE EvictStatement(j)
    <2>1. PICK q : q = [job[j] EXCEPT !.pc = "conn", !.handle = 0]
        OBVIOUS
    <2>2. /\ q \in Job /\ job[j].pc = "evict" /\ q.pc = "conn" /\ q.conn = job[j].conn
          /\ q.tx = job[j].tx /\ q.slot = job[j].slot /\ q.answer = job[j].answer
        BY <1>1, <1>6, <2>1 DEF Job, EvictStatement, At, Waiting
    <2>3. Quiet(j, q) /\ job' = [job EXCEPT ![j] = q] /\ UNCHANGED <<conn, applied>>
        BY <1>6, <2>1, <2>2 DEF EvictStatement, Quiet, Becomes
    <2>4. Phase(j, q) /\ Effect(j, q)
        BY <1>1, <2>2 DEF Phase, Effect, Waiting, Connected, Transacting, Answered
    <2>5. Planned'
        BY <1>1, <1>6, RemovedPlans DEF EvictStatement, Planned
    <2> QED BY <2>2, <2>3, <2>4, <2>5, Stays
<1> QED BY <1>2, <1>3, <1>4, <1>5, <1>6

LEMMA StayingSteps ==
    ASSUME PoolInv, NEW j \in Jobs,
           Connects(j) \/ BeginTx(j) \/ RunsStatement(j) \/ StatementFails(j)
           \/ VerifyRefuses(j) \/ Cancelled(j)
    PROVE  PoolInv'
<1>1. job[j] \in Job /\ Phase(j, job[j]) /\ Effect(j, job[j]) /\ Planned
    BY OfJob DEF PoolInv
<1>2. Planned'
    BY <1>1, PlannedKept DEF Connects, BeginTx, RunsStatement, StatementFails, VerifyRefuses,
                             Cancelled
<1>3. CASE Connects(j)
    <2>1. PICK q : q = [job[j] EXCEPT !.pc = "got"]
        OBVIOUS
    <2>2. /\ q \in Job /\ job[j].pc = "connecting" /\ q.pc = "got" /\ q.conn = job[j].conn
          /\ q.tx = job[j].tx /\ q.slot = job[j].slot /\ q.answer = job[j].answer
        BY <1>1, <1>3, <2>1 DEF Job, Connects, At, Connected
    <2>3. Quiet(j, q) /\ job' = [job EXCEPT ![j] = q] /\ UNCHANGED <<conn, applied>>
        BY <1>3, <2>1, <2>2 DEF Connects, Quiet, Moves, Becomes
    <2>4. Phase(j, q) /\ Effect(j, q)
        BY <1>1, <2>2 DEF Phase, Effect, Waiting, Connected, Transacting, Answered
    <2> QED BY <1>2, <2>2, <2>3, <2>4, Stays
<1>4. CASE BeginTx(j)
    <2>1. PICK q : q = [job[j] EXCEPT !.pc = "session", !.tx = "open"]
        OBVIOUS
    <2>2. /\ q \in Job /\ job[j].pc = "got" /\ q.pc = "session" /\ q.conn = job[j].conn
          /\ q.tx = "open" /\ q.slot = job[j].slot /\ q.answer = job[j].answer
        BY <1>1, <1>4, <2>1 DEF Job, BeginTx, At, Transacting
    <2>3. Quiet(j, q) /\ job' = [job EXCEPT ![j] = q] /\ UNCHANGED <<conn, applied>>
        BY <1>4, <2>1, <2>2 DEF BeginTx, Quiet, Becomes
    <2>4. Phase(j, q) /\ Effect(j, q)
        BY <1>1, <1>4, <2>2 DEF Phase, Effect, Waiting, Connected, Transacting, Answered, BeginTx
    <2> QED BY <1>2, <2>2, <2>3, <2>4, Stays
<1>5. CASE RunsStatement(j)
    <2>1. PICK q : q = [job[j] EXCEPT !.ran = @ + 1]
        OBVIOUS
    <2>2. /\ q \in Job /\ job[j].pc = "statements" /\ q.pc = "statements"
          /\ q.conn = job[j].conn
          /\ q.tx = job[j].tx /\ q.slot = job[j].slot /\ q.answer = job[j].answer
        BY <1>1, <1>5, <2>1 DEF Job, RunsStatement, At
    <2>3. Quiet(j, q) /\ job' = [job EXCEPT ![j] = q] /\ UNCHANGED <<conn, applied>>
        BY <1>5, <2>1, <2>2 DEF RunsStatement, Quiet, Becomes
    <2>4. Phase(j, q) /\ Effect(j, q)
        BY <1>1, <2>2 DEF Phase, Effect, Waiting, Connected, Transacting, Answered
    <2> QED BY <1>2, <2>2, <2>3, <2>4, Stays
<1>6. CASE StatementFails(j)
    <2>1. PICK q : q = [job[j] EXCEPT !.pc = "finish", !.answer = "error"]
        OBVIOUS
    <2>2. /\ q \in Job /\ job[j].pc \in {"session", "statements"} /\ q.pc = "finish"
          /\ q.conn = job[j].conn
          /\ q.tx = job[j].tx /\ q.slot = job[j].slot /\ q.answer = "error"
        BY <1>1, <1>6, <2>1 DEF Job, StatementFails, Transacting, Answers
    <2>3. Quiet(j, q) /\ job' = [job EXCEPT ![j] = q] /\ UNCHANGED <<conn, applied>>
        BY <1>6, <2>1, <2>2 DEF StatementFails, Quiet, Becomes
    <2>4. Phase(j, q) /\ Effect(j, q)
        BY <1>1, <2>2 DEF Phase, Effect, Waiting, Connected, Transacting, Answered
    <2> QED BY <1>2, <2>2, <2>3, <2>4, Stays
<1>7. CASE VerifyRefuses(j)
    <2>1. PICK q : q = [job[j] EXCEPT !.pc = "finish", !.answer = "refused"]
        OBVIOUS
    <2>2. /\ q \in Job /\ job[j].pc = "statements" /\ q.pc = "finish"
          /\ q.conn = job[j].conn
          /\ q.tx = job[j].tx /\ q.slot = job[j].slot /\ q.answer = "refused"
        BY <1>1, <1>7, <2>1 DEF Job, VerifyRefuses, ranAll, At, Transacting, Answers
    <2>3. Quiet(j, q) /\ job' = [job EXCEPT ![j] = q] /\ UNCHANGED <<conn, applied>>
        BY <1>7, <2>1, <2>2 DEF VerifyRefuses, Quiet, Becomes
    <2>4. Phase(j, q) /\ Effect(j, q)
        BY <1>1, <2>2 DEF Phase, Effect, Waiting, Connected, Transacting, Answered
    <2> QED BY <1>2, <2>2, <2>3, <2>4, Stays
<1>8. CASE Cancelled(j)
    <2>1. PICK q : q = [job[j] EXCEPT !.cancelled = TRUE]
        OBVIOUS
    <2>2. /\ q \in Job /\ q.pc = job[j].pc /\ q.conn = job[j].conn
          /\ q.tx = job[j].tx /\ q.slot = job[j].slot /\ q.answer = job[j].answer
        BY <1>1, <1>8, <2>1 DEF Job
    <2>3. Quiet(j, q) /\ job' = [job EXCEPT ![j] = q] /\ UNCHANGED <<conn, applied>>
        BY <1>8, <2>1, <2>2 DEF Cancelled, Quiet, Becomes
    <2>4. Phase(j, q) /\ Effect(j, q)
        BY <1>1, <2>2 DEF Phase, Effect
    <2> QED BY <1>2, <2>2, <2>3, <2>4, Stays
<1> QED BY <1>3, <1>4, <1>5, <1>6, <1>7, <1>8

-----------------------------------------------------------------------------
(* Steps of a job that give its connection back. *)

\* An error before the transaction: the job answers it, or goes on unprepared.
LEMMA Errored ==
    ASSUME PoolInv, NEW j \in Jobs, job[j].pc \in Connected \cup {"conn"}, NEW q, q = errored(j)
    PROVE  /\ q \in Job /\ q.conn = None /\ q.slot = job[j].slot /\ q.tx = "none"
           /\ q.pc \in {"conn", "release"}
           /\ job[j].want = "run" => q.pc = "release"
           /\ q.pc = "release" => q.answer = "error"
           /\ q.pc = "conn" => q.answer = None
           /\ Phase(j, q) /\ Effect(j, q)
<1>1. job[j] \in Job /\ Phase(j, job[j]) /\ Effect(j, job[j])
    BY OfJob
<1>2. job[j].tx = "none" /\ job[j].answer = None /\ Times(j, 0)
    BY <1>1 DEF Phase, Effect, Waiting, Connected
<1>3. /\ q \in Job /\ q.conn = None /\ q.slot = job[j].slot /\ q.tx = "none"
      /\ q.pc \in {"conn", "release"}
      /\ job[j].want = "run" => q.pc = "release"
      /\ q.pc = "release" => q.answer = "error"
      /\ q.pc = "conn" => q.answer = None
    BY <1>1, <1>2, ZenonT(40) DEF errored, Job, Waiting, Answered, Answers
<1>4. Phase(j, q)
    BY <1>1, <1>3 DEF Phase, Waiting, Connected, Transacting, Answered
<1>5. Effect(j, q)
    BY <1>1, <1>2, <1>3, Nobody DEF Effect, Waiting, Connected, Transacting, Answered, Answers
<1> QED BY <1>3, <1>4, <1>5

LEMMA ErroredBack ==
    ASSUME PoolInv, NEW j \in Jobs, job[j].pc \in Connected \ {"minting"}, Becomes(j, errored(j)),
           NEW back \in Conn, back.state # "used", back.vars = NoVariables,
           closed => back.state # "idle", conn' = [conn EXCEPT ![job[j].conn] = back],
           UNCHANGED <<config, slots, stmts, schema, run, listener, applied, closed>>
    PROVE  PoolInv'
<1>1. PICK q : q = errored(j)
    OBVIOUS
<1>2. /\ q \in Job /\ q.conn = None /\ q.slot = job[j].slot /\ q.pc \in {"conn", "release"}
      /\ Phase(j, q) /\ Effect(j, q)
    BY <1>1, Errored
<1>3. Quiet(j, q) /\ job' = [job EXCEPT ![j] = q]
    BY <1>1, <1>2 DEF Quiet, Becomes
<1>4. Effect(j, q)'
    BY <1>2, EffectKept
<1>5. job[j].conn # None
    BY CleanBefore
<1>6. Planned' /\ DOMAIN applied' = Jobs /\ \A i \in Jobs : i # j => applied'[i] = applied[i]
    BY PlannedKept DEF PoolInv, Jobwise
<1> QED BY <1>2, <1>3, <1>4, <1>5, <1>6, GoesBack

LEMMA FailingSteps ==
    ASSUME PoolInv, NEW j \in Jobs,
           ConnectFails(j) \/ AskFails(j) \/ GivesUp(j) \/ BeginFails(j)
    PROVE  PoolInv'
<1>1. CASE ConnectFails(j)
    <2>1. job[j].pc \in Connected \ {"minting"}
        BY <1>1 DEF ConnectFails, At, Connected
    <2> QED BY <1>1, <2>1, Nobody, ErroredBack DEF ConnectFails
<1>2. CASE AskFails(j)
    <2>1. job[j].pc \in Connected \ {"minting"}
        BY <1>2 DEF AskFails, At, Connected
    <2>2. job[j].conn \in Conns /\ conn[job[j].conn].vars = NoVariables
        BY <2>1, CleanBefore
    <2>3. PICK back : back = givenBack(job[j].conn, conn[job[j].conn].vars)
        OBVIOUS
    <2>4. /\ back \in Conn /\ back.state # "used" /\ back.vars = NoVariables
          /\ closed => back.state # "idle"
        BY <2>2, <2>3, GivenClean
    <2>5. conn' = [conn EXCEPT ![job[j].conn] = back]
        BY <1>2, <2>2, <2>3 DEF AskFails, PoolInv, Jobwise
    <2> QED BY <1>2, <2>1, <2>4, <2>5, ErroredBack DEF AskFails
<1>3. CASE BeginFails(j)
    <2>1. job[j].pc \in Connected \ {"minting"}
        BY <1>3 DEF BeginFails, At, Connected
    <2>2. conn[job[j].conn].vars = NoVariables
        BY <2>1, CleanBefore
    <2>3. PICK back : back = givenBack(job[j].conn, conn[job[j].conn].vars)
        OBVIOUS
    <2>4. /\ back \in Conn /\ back.state # "used" /\ back.vars = NoVariables
          /\ closed => back.state # "idle"
        BY <2>2, <2>3, GivenClean
    <2>5. conn' = [conn EXCEPT ![job[j].conn] = back]
        BY <1>3, <2>3 DEF BeginFails, afterFailure
    <2> QED BY <1>3, <2>1, <2>4, <2>5, ErroredBack DEF BeginFails
<1>4. CASE GivesUp(j) /\ At(j, "joined")
    <2>1. job[j].pc \in Connected \ {"minting"} /\ ~At(j, "conn")
        BY <1>4 DEF At, Connected
    <2> QED BY <1>4, <2>1, Nobody, ErroredBack DEF GivesUp
<1>5. CASE GivesUp(j) /\ At(j, "conn")
    <2>1. PICK q : q = errored(j)
        OBVIOUS
    <2>2. /\ q \in Job /\ q.conn = None /\ q.slot = job[j].slot /\ q.pc \in {"conn", "release"}
          /\ Phase(j, q) /\ Effect(j, q) /\ q.tx = "none"
        BY <1>5, <2>1, Errored DEF At
    <2>3. job[j].conn = None /\ job[j].tx = "none" /\ job[j].pc = "conn" /\ conn' = conn
        BY <1>5, OfJob DEF Phase, Waiting, At, GivesUp
    <2>4. Quiet(j, q) /\ job' = [job EXCEPT ![j] = q] /\ applied' = applied
        BY <1>5, <2>1, <2>2, <2>3 DEF Quiet, Becomes, GivesUp
    <2>5. Planned'
        BY <1>5, PlannedKept DEF PoolInv, GivesUp
    <2> QED BY <2>2, <2>3, <2>4, <2>5, Stays
<1> QED BY <1>1, <1>2, <1>3, <1>4, <1>5 DEF GivesUp

\* The handle that is prepared, or whose plan is stale.
LEMMA PreparedSteps ==
    ASSUME PoolInv, NEW j \in Jobs, Prepares(j) \/ StalePlan(j)
    PROVE  PoolInv'
<1>1. job[j].pc = "got" /\ job[j].pc \in Connected
    BY DEF Prepares, StalePlan, plain, At, Connected
<1>2. job[j] \in Job /\ Phase(j, job[j]) /\ Effect(j, job[j]) /\ Planned
    BY OfJob DEF PoolInv
<1>3. job[j].conn \in Conns /\ job[j].conn # None /\ conn[job[j].conn].vars = NoVariables
    BY <1>1, CleanBefore
<1>4. PICK back : back = givenBack(job[j].conn, conn[job[j].conn].vars)
    OBVIOUS
<1>5. /\ back \in Conn /\ back.state # "used" /\ back.vars = NoVariables
      /\ closed => back.state # "idle"
    BY <1>3, <1>4, GivenClean
<1>6. conn' = [conn EXCEPT ![job[j].conn] = back]
    BY <1>3, <1>4 DEF Prepares, StalePlan, PoolInv, Jobwise
<1>7. UNCHANGED <<config, applied, slots, run, listener, closed>>
    BY DEF Prepares, StalePlan
<1>8. DOMAIN applied' = Jobs /\ \A i \in Jobs : i # j => applied'[i] = applied[i]
    BY <1>7 DEF PoolInv, Jobwise
<1>9. CASE Prepares(j)
    <2>1. PICK h : h = Len(stmts.plans) + 1
        OBVIOUS
    <2>2. stmts.plans \in Seq(Nat) /\ schema \in Nat
        BY <1>2 DEF Planned
    <2>3. h \in Nat /\ Append(stmts.plans, schema) \in Seq(Nat)
        BY <2>1, <2>2
    <2>4. stmts' = [stmts EXCEPT !.cached = h, !.plans = Append(@, schema)]
        BY <1>9, <2>1 DEF Prepares
    <2>5. Planned'
        BY <1>2, <1>9, <2>3, <2>4 DEF Planned, Prepares
    <2>6. PICK q : q = [job[j] EXCEPT !.pc = "call", !.want = "run", !.handle = h, !.conn = None]
        OBVIOUS
    <2>7. /\ q \in Job /\ q.pc = "call" /\ q.conn = None
          /\ q.tx = job[j].tx /\ q.slot = job[j].slot /\ q.answer = job[j].answer
        BY <1>2, <2>3, <2>6 DEF Job, Waiting
    <2>8. job' = [job EXCEPT ![j] = q]
        BY <1>9, <2>1, <2>6 DEF Prepares, Becomes
    <2>9. Quiet(j, q)
        BY <1>1, <1>7, <2>7 DEF Quiet
    <2>10. Phase(j, q) /\ Effect(j, q)
        BY <1>1, <1>2, <2>7 DEF Phase, Effect, Waiting, Connected, Transacting, Answered
    <2>11. Effect(j, q)'
        BY <1>7, <2>10, EffectKept
    <2> QED BY <1>3, <1>5, <1>6, <1>8, <2>5, <2>7, <2>8, <2>9, <2>10, <2>11, GoesBack
<1>10. CASE StalePlan(j)
    <2>1. PICK q : q = [job[j] EXCEPT !.pc = "evict", !.conn = None]
        OBVIOUS
    <2>2. /\ q \in Job /\ q.pc = "evict" /\ q.conn = None
          /\ q.tx = job[j].tx /\ q.slot = job[j].slot /\ q.answer = job[j].answer
        BY <1>2, <2>1 DEF Job, Waiting
    <2>3. job' = [job EXCEPT ![j] = q]
        BY <1>10, <2>1 DEF StalePlan, Becomes
    <2>4. Quiet(j, q)
        BY <1>1, <1>7, <2>2 DEF Quiet
    <2>5. Phase(j, q) /\ Effect(j, q)
        BY <1>1, <1>2, <2>2 DEF Phase, Effect, Waiting, Connected, Transacting, Answered
    <2>6. Effect(j, q)'
        BY <1>7, <2>5, EffectKept
    <2>7. Planned'
        BY <1>2, <1>10, PlannedKept DEF StalePlan
    <2> QED BY <1>3, <1>5, <1>6, <1>8, <2>2, <2>3, <2>4, <2>5, <2>6, <2>7, GoesBack
<1> QED BY <1>9, <1>10

-----------------------------------------------------------------------------
(* Steps that take effect in the tables. *)

\* A single statement, outside any transaction.
LEMMA TookEffect ==
    ASSUME PoolInv, NEW j \in Jobs, Times(j, 0), kind(j) \in Kinds, ~transactional(j),
           config' = config, applied' = tookEffect(j, 1)
    PROVE  /\ Times(j, 1)' /\ DOMAIN applied' = Jobs
           /\ \A i \in Jobs : i # j => applied'[i] = applied[i]
<1>1. kind(j) # None /\ kind(j).statements = 1
    BY KindFields DEF PoolInv, Jobwise, transactional
<1>2. Width(j) = 1 /\ Width(j)' = 1
    BY <1>1 DEF Width, kind
<1>3. DOMAIN applied = Jobs /\ applied[j] = [i \in 1..1 |-> 0]
    BY <1>2 DEF PoolInv, Jobwise, Times
<1>4. applied' = [applied EXCEPT ![j] = [applied[j] EXCEPT ![1] = applied[j][1] + 1]]
    BY <1>3 DEF tookEffect
<1>5. PICK f : f = [applied[j] EXCEPT ![1] = applied[j][1] + 1]
    OBVIOUS
<1>6. f = [i \in 1..1 |-> 1]
    <2>1. 1 \in 1..1 /\ \A i \in 1..1 : i = 1
        OBVIOUS
    <2>2. applied[j] \in [1..1 -> Nat] /\ applied[j][1] + 1 = 1
        BY <1>3, <2>1
    <2>3. f = [applied[j] EXCEPT ![1] = 1]
        BY <1>5, <2>2
    <2>4. f \in [1..1 -> Nat] /\ f[1] = 1
        BY <2>1, <2>2, <2>3
    <2> QED BY <2>1, <2>4
<1>7. applied'[j] = f /\ DOMAIN applied' = Jobs /\ \A i \in Jobs : i # j => applied'[i] = applied[i]
    BY <1>3, <1>4, <1>5
<1> QED BY <1>2, <1>6, <1>7 DEF Times

\* A transaction.
LEMMA Committed ==
    ASSUME PoolInv, NEW j \in Jobs, Times(j, 0), config' = config, applied' = committed(j)
    PROVE  /\ Times(j, 1)' /\ DOMAIN applied' = Jobs
           /\ \A i \in Jobs : i # j => applied'[i] = applied[i]
<1>1. PICK w : w = Width(j)
    OBVIOUS
<1>2. Width(j)' = w
    BY <1>1 DEF Width, kind
<1>3. DOMAIN applied = Jobs /\ applied[j] = [i \in 1..w |-> 0]
    BY <1>1 DEF PoolInv, Jobwise, Times
<1>4. applied' = [applied EXCEPT ![j] = [i \in DOMAIN applied[j] |-> applied[j][i] + 1]]
    BY <1>3 DEF committed
<1>5. PICK f : f = [i \in DOMAIN applied[j] |-> applied[j][i] + 1]
    OBVIOUS
<1>6. f = [i \in 1..w |-> 1]
    BY <1>3, <1>5
<1>7. applied'[j] = f /\ DOMAIN applied' = Jobs /\ \A i \in Jobs : i # j => applied'[i] = applied[i]
    BY <1>3, <1>4, <1>5
<1> QED BY <1>2, <1>6, <1>7 DEF Times

LEMMA TimesKept ==
    ASSUME UNCHANGED <<config, applied>>, NEW j, NEW x
    PROVE  Times(j, x)' <=> Times(j, x)
BY DEF Times, Width, kind

LEMMA TableKept ==
    ASSUME PoolInv, applied' = applied, NEW j
    PROVE  DOMAIN applied' = Jobs /\ \A i \in Jobs : i # j => applied'[i] = applied[i]
BY DEF PoolInv, Jobwise

LEMMA ExecutesStep ==
    ASSUME PoolInv, NEW j \in Jobs, NEW a \in {"ok", "refused"}, Executes(j, a)
    PROVE  PoolInv'
<1>1. /\ job[j].pc = "got" /\ job[j].pc \in Connected /\ ~transactional(j)
      /\ UNCHANGED <<config, slots, stmts, schema, run, listener, closed>>
    BY DEF Executes, plain, At, Connected
<1>2. job[j] \in Job /\ Phase(j, job[j]) /\ Planned /\ config \in Configs
    BY OfJob DEF PoolInv, Jobwise
<1>3. /\ job[j].conn \in Conns /\ job[j].conn # None /\ conn[job[j].conn].vars = NoVariables
      /\ Times(j, 0) /\ kind(j) \in Kinds
    BY <1>1, CleanBefore
<1>4. kind(j).statements = 1
    BY <1>1, <1>2, <1>3, KindFields DEF transactional
<1>5. PICK back : back = givenBack(job[j].conn, conn[job[j].conn].vars)
    OBVIOUS
<1>6. /\ back \in Conn /\ back.state # "used" /\ back.vars = NoVariables
      /\ closed => back.state # "idle"
    BY <1>3, <1>5, GivenClean
<1>7. conn' = [conn EXCEPT ![job[j].conn] = back]
    BY <1>3, <1>5 DEF Executes, PoolInv, Jobwise
<1>8. PICK q : q = [job[j] EXCEPT !.pc = "release", !.conn = None, !.answer = a]
    OBVIOUS
<1>9. /\ q \in Job /\ q.pc = "release" /\ q.conn = None
      /\ q.tx = job[j].tx /\ q.slot = job[j].slot /\ q.answer = a
    BY <1>2, <1>8 DEF Job, Answered, Answers
<1>10. job' = [job EXCEPT ![j] = q]
    BY <1>8 DEF Executes, Becomes
<1>11. Quiet(j, q)
    BY <1>1, <1>9 DEF Quiet
<1>12. Phase(j, q)
    BY <1>1, <1>2, <1>9 DEF Phase, Waiting, Connected, Transacting, Answered
<1>13. /\ Times(j, 1)' \/ (isProbe(j) /\ Times(j, 0)')
       /\ DOMAIN applied' = Jobs /\ \A i \in Jobs : i # j => applied'[i] = applied[i]
    <2>1. CASE isProbe(j)
        BY <1>1, <1>3, <2>1, TimesKept, TableKept DEF Executes
    <2>2. CASE ~isProbe(j)
        BY <1>1, <1>3, <2>2, TookEffect DEF Executes
    <2> QED BY <2>1, <2>2
<1>14. kind(j)' = kind(j) /\ isProbe(j)' = isProbe(j)
    BY <1>1 DEF kind, isProbe
<1>15. Effect(j, q)'
    BY <1>4, <1>9, <1>13, <1>14 DEF Effect, Waiting, Connected, Transacting, Answered
<1>16. Planned'
    BY <1>1, <1>2, PlannedKept
<1> QED BY <1>3, <1>6, <1>7, <1>9, <1>10, <1>11, <1>12, <1>13, <1>15, <1>16, GoesBack

LEMMA ExecuteFailsStep ==
    ASSUME PoolInv, NEW j \in Jobs, ExecuteFails(j)
    PROVE  PoolInv'
<1>1. /\ job[j].pc = "got" /\ job[j].pc \in Connected /\ ~transactional(j) /\ job[j].want = "run"
      /\ UNCHANGED <<config, slots, stmts, schema, run, listener, closed>>
    BY DEF ExecuteFails, plain, At, Connected
<1>2. Planned
    BY DEF PoolInv
<1>3. /\ job[j].conn \in Conns /\ job[j].conn # None /\ conn[job[j].conn].vars = NoVariables
      /\ Times(j, 0) /\ kind(j) \in Kinds
    BY <1>1, CleanBefore
<1>4. PICK back \in {discarded, givenBack(job[j].conn, conn[job[j].conn].vars)} :
          conn' = [conn EXCEPT ![job[j].conn] = back]
    BY DEF ExecuteFails
<1>5. /\ back \in Conn /\ back.state # "used" /\ back.vars = NoVariables
      /\ closed => back.state # "idle"
    BY <1>3, <1>4, GivenClean, Nobody
<1>6. PICK q : q = errored(j)
    OBVIOUS
<1>7. /\ q \in Job /\ q.pc = "release" /\ q.conn = None /\ q.slot = job[j].slot
      /\ q.answer = "error" /\ Phase(j, q)
    BY <1>1, <1>6, Errored
<1>8. job' = [job EXCEPT ![j] = q]
    BY <1>6 DEF ExecuteFails, Becomes, lost
<1>9. Quiet(j, q)
    BY <1>1, <1>7 DEF Quiet
<1>10. /\ Times(j, 1)' \/ Times(j, 0)'
       /\ DOMAIN applied' = Jobs /\ \A i \in Jobs : i # j => applied'[i] = applied[i]
    <2>1. CASE applied' = applied
        BY <1>1, <1>3, <2>1, TimesKept, TableKept
    <2>2. CASE applied' = tookEffect(j, 1)
        BY <1>1, <1>3, <2>2, TookEffect
    <2> QED BY <2>1, <2>2 DEF ExecuteFails
<1>11. Effect(j, q)'
    BY <1>7, <1>10, Nobody DEF Effect, Waiting, Connected, Transacting, Answered, Answers
<1>12. Planned'
    BY <1>1, <1>2, PlannedKept
<1> QED BY <1>3, <1>4, <1>5, <1>7, <1>8, <1>9, <1>10, <1>11, <1>12, GoesBack

-----------------------------------------------------------------------------
(* Transactions. *)

\* A transaction that has not committed.
LEMMA OfTransaction ==
    ASSUME PoolInv, NEW j \in Jobs, job[j].tx = "open" \/ job[j].pc \in Transacting
    PROVE  /\ kind(j) \in Kinds /\ job[j].pc \in Transacting /\ job[j].tx # "none"
           /\ transactional(j)
           /\ job[j].tx = "open" => job[j].conn \in Conns /\ job[j].conn # None
           /\ job[j].pc \in {"session", "statements"} => job[j].answer = None /\ Times(j, 0)
BY OfJob DEF Phase, Effect, Job, Transacting, Answered

\* Variables are set or dropped on the connection that the job keeps.
LEMMA Sets ==
    ASSUME PoolInv, NEW j \in Jobs, NEW q \in Job, Quiet(j, q), job' = [job EXCEPT ![j] = q],
           q.conn = job[j].conn, job[j].conn # None,
           NEW vs \in [Variables -> Jobs \cup {None}],
           conn' = [conn EXCEPT ![job[j].conn].vars = vs], q.tx # "none",
           \A v \in Variables : vs[v] \in (IF v \in kind(j).session THEN {None, j} ELSE {None}),
           q.pc = "statements" /\ q.tx = "open" => vs = own(j),
           Phase(j, q), Effect(j, q)', DOMAIN applied' = Jobs,
           \A i \in Jobs : i # j => applied'[i] = applied[i], Planned'
    PROVE  PoolInv'
<1>1. Hands(j, q) /\ conn'[q.conn].vars = vs
    <2>1. Jobwise /\ Connwise
        BY DEF PoolInv
    <2> QED BY ONLY <2>1, HandsVars, j \in Jobs, q \in Job, q.conn = job[j].conn,
                    job[j].conn # None, vs \in [Variables -> Jobs \cup {None}],
                    conn' = [conn EXCEPT ![job[j].conn].vars = vs]
<1>2. kind(j)' = kind(j) /\ own(j)' = own(j)
    BY DEF Quiet, kind, own
<1>3. Session(j, q)'
    BY <1>1, <1>2 DEF Session
<1>4. Phase(j, q)'
    BY PhaseKept DEF Quiet
<1>5. JobInv(j, q)'
    BY <1>3, <1>4 DEF JobInv
<1> QED BY <1>1, <1>5, QuietMove

\* What is set on the connection of a job.
LEMMA SetFor ==
    ASSUME PoolInv, NEW j \in Jobs, job[j].conn \in Conns, job[j].conn # None,
           NEW ws, ws \subseteq kind(j).session, NEW vs, vs = setFor(j, ws)
    PROVE  /\ vs \in [Variables -> Jobs \cup {None}]
           /\ \A v \in Variables : vs[v] \in (IF v \in kind(j).session THEN {None, j} ELSE {None})
           /\ ws = kind(j).session => vs = own(j)
<1>1. conn[job[j].conn].vars \in [Variables -> Jobs \cup {None}]
    BY DEF PoolInv, Jobwise, Conn
<1>2. \A v \in Variables : conn[job[j].conn].vars[v] \in
          (IF v \in kind(j).session THEN {None, j} ELSE {None})
    BY OfJob DEF Session
<1>3. \A v \in Variables : vs[v] = IF v \in ws THEN j ELSE conn[job[j].conn].vars[v]
    BY DEF setFor
<1>4. vs \in [Variables -> Jobs \cup {None}]
    BY <1>1 DEF setFor
<1>5. ws = kind(j).session => vs = own(j)
    <2>1. \A v \in Variables : v \notin kind(j).session => conn[job[j].conn].vars[v] = None
        BY <1>2
    <2> QED BY <2>1 DEF setFor, own
<1> QED BY <1>2, <1>3, <1>4, <1>5

LEMMA SessionSteps ==
    ASSUME PoolInv, NEW j \in Jobs,
           AppliesSession(j) \/ \E ws \in SUBSET Variables : SessionFails(j, ws)
    PROVE  PoolInv'
<1>1. job[j].pc = "session" /\ job[j].tx = "open"
    BY DEF AppliesSession, SessionFails, At, live
<1>2. job[j] \in Job /\ Phase(j, job[j]) /\ Effect(j, job[j]) /\ Planned
    BY OfJob DEF PoolInv
<1>3. /\ kind(j) \in Kinds /\ job[j].conn \in Conns /\ job[j].conn # None
      /\ job[j].answer = None /\ Times(j, 0)
    BY <1>1, OfTransaction
<1>4. UNCHANGED <<config, slots, stmts, schema, run, listener, applied, closed>>
    BY DEF AppliesSession, SessionFails
<1>5. Planned' /\ DOMAIN applied' = Jobs /\ \A i \in Jobs : i # j => applied'[i] = applied[i]
    BY <1>2, <1>4, PlannedKept, TableKept
<1>6. CASE AppliesSession(j)
    <2>1. PICK q : q = [job[j] EXCEPT !.pc = "statements"]
        OBVIOUS
    <2>2. /\ q \in Job /\ q.pc = "statements" /\ q.conn = job[j].conn
          /\ q.tx = "open" /\ q.slot = job[j].slot /\ q.answer = job[j].answer
        BY <1>1, <1>2, <2>1 DEF Job, Transacting
    <2>3. Quiet(j, q) /\ job' = [job EXCEPT ![j] = q]
        BY <1>1, <1>4, <1>6, <2>1, <2>2 DEF AppliesSession, Quiet, Moves, Becomes
    <2>4. Phase(j, q) /\ Effect(j, q)
        BY <1>1, <1>2, <2>2 DEF Phase, Effect, Waiting, Connected, Transacting, Answered
    <2>5. Effect(j, q)'
        BY <1>4, <2>4, EffectKept
    <2>6. PICK vs : vs = setFor(j, kind(j).session)
        OBVIOUS
    <2>7. /\ vs \in [Variables -> Jobs \cup {None}]
          /\ \A v \in Variables : vs[v] \in (IF v \in kind(j).session THEN {None, j} ELSE {None})
          /\ vs = own(j)
        BY <1>3, <2>6, SetFor
    <2>8. conn' = [conn EXCEPT ![job[j].conn].vars = vs]
        BY <1>6, <2>6 DEF AppliesSession
    <2> QED BY <1>3, <1>5, <2>2, <2>3, <2>4, <2>5, <2>7, <2>8, Sets
<1>7. ASSUME NEW ws \in SUBSET Variables, SessionFails(j, ws)
      PROVE  PoolInv'
    <2>1. PICK q : q = [job[j] EXCEPT !.pc = "finish", !.answer = "error"]
        OBVIOUS
    <2>2. /\ q \in Job /\ q.pc = "finish" /\ q.conn = job[j].conn
          /\ q.tx = "open" /\ q.slot = job[j].slot /\ q.answer = "error"
        BY <1>1, <1>2, <2>1 DEF Job, Transacting, Answers
    <2>3. Quiet(j, q) /\ job' = [job EXCEPT ![j] = q]
        BY <1>1, <1>4, <1>7, <2>1, <2>2 DEF SessionFails, Quiet, Becomes
    <2>4. Phase(j, q) /\ Effect(j, q)
        BY <1>1, <1>2, <2>2 DEF Phase, Effect, Waiting, Connected, Transacting, Answered
    <2>5. Effect(j, q)'
        BY <1>4, <2>4, EffectKept
    <2>6. PICK vs : vs = setFor(j, ws)
        OBVIOUS
    <2>7. /\ vs \in [Variables -> Jobs \cup {None}]
          /\ \A v \in Variables : vs[v] \in (IF v \in kind(j).session THEN {None, j} ELSE {None})
        BY <1>3, <1>7, <2>6, SetFor DEF SessionFails
    <2>8. conn' = [conn EXCEPT ![job[j].conn].vars = vs]
        BY <1>7, <2>6 DEF SessionFails
    <2> QED BY <1>3, <1>5, <2>2, <2>3, <2>4, <2>5, <2>7, <2>8, Sets
<1> QED BY <1>6, <1>7

\* A held connection keeps what was set on it.
LEMMA LeftHeld ==
    ASSUME PoolInv, NEW j \in Jobs, job[j].conn \in Conns, job[j].conn # None, holds(j),
           NEW vs, vs = left(job[j].conn)
    PROVE  /\ vs \in [Variables -> Jobs \cup {None}]
           /\ \A v \in Variables : vs[v] \in (IF v \in kind(j).session THEN {None, j} ELSE {None})
<1>1. vs = conn[job[j].conn].vars
    BY DEF left, holds
<1>2. Session(j, job[j])
    BY OfJob
<1> QED BY <1>1, <1>2 DEF PoolInv, Jobwise, Conn, Session

\* A transaction that is over: a held connection stays with the job, any other
\* goes back.
LEMMA Ends ==
    ASSUME PoolInv, NEW j \in Jobs, job[j].tx = "open", NEW q \in Job, Quiet(j, q),
           job' = [job EXCEPT ![j] = q],
           q.conn = (IF holds(j) THEN job[j].conn ELSE None), q.tx = "over",
           conn' = [conn EXCEPT ![job[j].conn] =
                       IF holds(j) THEN [@ EXCEPT !.vars = left(job[j].conn)]
                       ELSE givenBack(job[j].conn, left(job[j].conn))],
           Phase(j, q), Effect(j, q)', DOMAIN applied' = Jobs,
           \A i \in Jobs : i # j => applied'[i] = applied[i], Planned'
    PROVE  PoolInv'
<1>1. kind(j) \in Kinds /\ job[j].conn \in Conns /\ job[j].conn # None
    BY OfTransaction
<1>2. CASE holds(j)
    <2>1. PICK vs : vs = left(job[j].conn)
        OBVIOUS
    <2>2. /\ vs \in [Variables -> Jobs \cup {None}]
          /\ \A v \in Variables : vs[v] \in (IF v \in kind(j).session THEN {None, j} ELSE {None})
        BY <1>1, <1>2, <2>1, LeftHeld
    <2>3. conn' = [conn EXCEPT ![job[j].conn].vars = vs]
        BY <1>1, <1>2, <2>1 DEF PoolInv, Jobwise
    <2>4. q.conn = job[j].conn /\ q.tx # "none"
        BY <1>2
    <2> QED BY <1>1, <2>2, <2>3, <2>4, Sets
<1>3. CASE ~holds(j)
    <2>1. PICK back : back = givenBack(job[j].conn, left(job[j].conn))
        OBVIOUS
    <2>2. left(job[j].conn) = NoVariables
        BY <1>1, <1>3, LeftClean
    <2>3. /\ back \in Conn /\ back.state # "used" /\ back.vars = NoVariables
          /\ closed => back.state # "idle"
        BY <2>1, <2>2, GivenClean
    <2>4. conn' = [conn EXCEPT ![job[j].conn] = back] /\ q.conn = None
        BY <1>3, <2>1
    <2> QED BY <1>1, <2>3, <2>4, GoesBack
<1> QED BY <1>2, <1>3

LEMMA CommitSteps ==
    ASSUME PoolInv, NEW j \in Jobs,
           (\E a \in {"ok", "refused"} : Commits(j, a)) \/ CommitUnknown(j)
    PROVE  PoolInv'
<1>1. job[j].pc = "statements" /\ job[j].tx = "open"
    BY DEF Commits, CommitUnknown, ranAll, At, live
<1>2. job[j] \in Job /\ Phase(j, job[j]) /\ Planned
    BY OfJob DEF PoolInv
<1>3. /\ kind(j) \in Kinds /\ transactional(j) /\ job[j].conn \in Conns /\ job[j].conn # None
      /\ Times(j, 0)
    BY <1>1, OfTransaction
<1>4. UNCHANGED <<config, slots, stmts, schema, run, listener, closed>>
    BY DEF Commits, CommitUnknown
<1>5. Planned' /\ kind(j)' = kind(j) /\ isProbe(j)' = isProbe(j)
    BY <1>2, <1>4, PlannedKept DEF kind, isProbe
<1>6. ASSUME NEW a \in {"ok", "refused"}, Commits(j, a)
      PROVE  PoolInv'
    <2>1. PICK q : q = ended(j, a)
        OBVIOUS
    <2>2. /\ q \in Job /\ q.pc = "finish" /\ q.tx = "over" /\ q.answer = a
          /\ q.slot = job[j].slot /\ q.conn = IF holds(j) THEN job[j].conn ELSE None
        BY <1>2, <2>1 DEF ended, Job, Transacting, Answers
    <2>3. Quiet(j, q) /\ job' = [job EXCEPT ![j] = q]
        BY <1>1, <1>4, <1>6, <2>1, <2>2 DEF Commits, Quiet, Becomes
    <2>4. Phase(j, q)
        BY <1>1, <1>2, <1>3, <2>2 DEF Phase, Waiting, Connected, Transacting, Answered
    <2>5. /\ Times(j, 1)' /\ DOMAIN applied' = Jobs
          /\ \A i \in Jobs : i # j => applied'[i] = applied[i]
        BY <1>3, <1>4, <1>6, Committed DEF Commits
    <2>6. a = "refused" => kind(j).statements = 1
        BY <1>6 DEF Commits
    <2>7. Effect(j, q)'
        BY <1>5, <2>2, <2>5, <2>6 DEF Effect, Waiting, Connected, Transacting, Answered
    <2>8. conn' = [conn EXCEPT ![job[j].conn] =
                      IF holds(j) THEN [@ EXCEPT !.vars = left(job[j].conn)]
                      ELSE givenBack(job[j].conn, left(job[j].conn))]
        BY <1>6 DEF Commits
    <2> QED BY <1>1, <1>5, <2>2, <2>3, <2>4, <2>5, <2>7, <2>8, Ends
<1>7. CASE CommitUnknown(j)
    <2>1. PICK e : e = ended(j, "error")
        OBVIOUS
    <2>2. /\ e \in Job /\ e.pc = "finish" /\ e.tx = "over" /\ e.answer = "error"
          /\ e.slot = job[j].slot
        BY <1>2, <2>1 DEF ended, Job, Transacting, Answers
    <2>3. PICK q : q = [e EXCEPT !.conn = None]
        OBVIOUS
    <2>4. /\ q \in Job /\ q.pc = "finish" /\ q.tx = "over" /\ q.answer = "error"
          /\ q.slot = job[j].slot /\ q.conn = None
        BY <2>2, <2>3 DEF Job
    <2>5. Quiet(j, q) /\ job' = [job EXCEPT ![j] = q]
        BY <1>1, <1>4, <1>7, <2>1, <2>3, <2>4 DEF CommitUnknown, Quiet, Becomes
    <2>6. Phase(j, q)
        BY <1>1, <1>2, <1>3, <2>4 DEF Phase, Waiting, Connected, Transacting, Answered
    <2>7. /\ Times(j, 1)' \/ Times(j, 0)'
          /\ DOMAIN applied' = Jobs /\ \A i \in Jobs : i # j => applied'[i] = applied[i]
        <3>1. CASE applied' = applied
            BY <1>3, <1>4, <3>1, TimesKept, TableKept
        <3>2. CASE applied' = committed(j)
            BY <1>3, <1>4, <3>2, Committed
        <3> QED BY <1>7, <3>1, <3>2 DEF CommitUnknown
    <2>8. Effect(j, q)'
        BY <2>4, <2>7, Nobody DEF Effect, Waiting, Connected, Transacting, Answered, Answers
    <2>9. conn' = [conn EXCEPT ![job[j].conn] = discarded]
        BY <1>7 DEF CommitUnknown
    <2> QED BY <1>3, <1>5, <2>4, <2>5, <2>6, <2>7, <2>8, <2>9, Nobody, GoesBack
<1> QED BY <1>6, <1>7

LEMMA CancelStep ==
    ASSUME PoolInv, NEW j \in Jobs, CancelRollsBack(j)
    PROVE  PoolInv'
<1>1. job[j].tx = "open"
    BY DEF CancelRollsBack
<1>2. job[j] \in Job /\ Phase(j, job[j]) /\ Effect(j, job[j]) /\ Planned
    BY OfJob DEF PoolInv
<1>3. kind(j) \in Kinds /\ job[j].pc \in Transacting /\ job[j].conn # None
    BY <1>1, OfTransaction
<1>4. UNCHANGED <<config, slots, stmts, schema, run, listener, applied, closed>>
    BY DEF CancelRollsBack
<1>5. Planned' /\ DOMAIN applied' = Jobs /\ \A i \in Jobs : i # j => applied'[i] = applied[i]
    BY <1>2, <1>4, PlannedKept, TableKept
<1>6. PICK q : q = [job[j] EXCEPT !.tx = "over", !.conn = IF holds(j) THEN @ ELSE None]
    OBVIOUS
<1>7. /\ q \in Job /\ q.pc = job[j].pc /\ q.tx = "over" /\ q.answer = job[j].answer
      /\ q.slot = job[j].slot /\ q.conn = IF holds(j) THEN job[j].conn ELSE None
    BY <1>2, <1>6 DEF Job
<1>8. Quiet(j, q) /\ job' = [job EXCEPT ![j] = q]
    BY <1>4, <1>6, <1>7 DEF CancelRollsBack, Quiet, Becomes
<1>9. Phase(j, q)
    BY <1>2, <1>3, <1>7 DEF Phase, Waiting, Connected, Transacting, Answered
<1>10. Effect(j, q)
    BY <1>2, <1>7 DEF Effect
<1>11. Effect(j, q)'
    BY <1>4, <1>10, EffectKept
<1>12. conn' = [conn EXCEPT ![job[j].conn] =
                   IF holds(j) THEN [@ EXCEPT !.vars = left(job[j].conn)]
                   ELSE givenBack(job[j].conn, left(job[j].conn))]
    BY DEF CancelRollsBack
<1> QED BY <1>1, <1>5, <1>7, <1>8, <1>9, <1>11, <1>12, Ends

LEMMA FinishSteps ==
    ASSUME PoolInv, NEW j \in Jobs, Finishes(j) \/ Clears(j) \/ ClearFails(j)
    PROVE  PoolInv'
<1>1. job[j].pc = "finish"
    BY DEF Finishes, Clears, ClearFails, At
<1>2. job[j] \in Job /\ Phase(j, job[j]) /\ Effect(j, job[j]) /\ Session(j, job[j]) /\ Planned
    BY OfJob DEF PoolInv
<1>3. kind(j) \in Kinds /\ job[j].tx # "none" /\ job[j].pc \in Transacting
    BY <1>1, OfTransaction DEF Transacting
<1>4. UNCHANGED <<config, slots, stmts, schema, run, listener, applied, closed>>
    BY DEF Finishes, Clears, ClearFails
<1>5. Planned' /\ DOMAIN applied' = Jobs /\ \A i \in Jobs : i # j => applied'[i] = applied[i]
    BY <1>2, <1>4, PlannedKept, TableKept
<1>6. PICK q : q = [job[j] EXCEPT !.pc = "release", !.tx = "over", !.conn = None]
    OBVIOUS
<1>7. /\ q \in Job /\ q.pc = "release" /\ q.tx = "over" /\ q.answer = job[j].answer
      /\ q.slot = job[j].slot /\ q.conn = None
    BY <1>2, <1>6 DEF Job, Answered
<1>8. Quiet(j, q) /\ job' = [job EXCEPT ![j] = q]
    BY <1>1, <1>4, <1>6, <1>7 DEF Finishes, Clears, ClearFails, Quiet, Becomes
<1>9. Phase(j, q)
    BY <1>1, <1>2, <1>7 DEF Phase, Waiting, Connected, Transacting, Answered
<1>10. Effect(j, q)
    BY <1>2, <1>7 DEF Effect, Waiting, Connected
<1>11. Effect(j, q)'
    BY <1>4, <1>10, EffectKept
<1>12. ASSUME job[j].conn # None, NEW back \in Conn, back.state # "used",
              back.vars = NoVariables, closed => back.state # "idle",
              conn' = [conn EXCEPT ![job[j].conn] = back]
       PROVE  PoolInv'
    BY <1>5, <1>7, <1>8, <1>9, <1>11, <1>12, GoesBack
<1>13. CASE Finishes(j) /\ job[j].conn = None
    <2>1. conn' = conn
        BY <1>13 DEF Finishes
    <2> QED BY <1>4, <1>5, <1>7, <1>8, <1>9, <1>10, <1>13, <2>1, Stays
<1>14. CASE Finishes(j) /\ job[j].conn # None
    <2>1. PICK back : back = givenBack(job[j].conn, left(job[j].conn))
        OBVIOUS
    <2>2. left(job[j].conn) = NoVariables
        BY <1>3, <1>14, LeftClean DEF Finishes
    <2>3. /\ back \in Conn /\ back.state # "used" /\ back.vars = NoVariables
          /\ closed => back.state # "idle"
        BY <2>1, <2>2, GivenClean
    <2>4. conn' = [conn EXCEPT ![job[j].conn] = back]
        BY <1>14, <2>1 DEF Finishes
    <2> QED BY <1>12, <1>14, <2>3, <2>4
<1>15. CASE Clears(j)
    <2>1. job[j].conn # None /\ job[j].conn \in Conns /\ holds(j)
        BY <1>2, <1>15 DEF Clears, Job
    <2>2. PICK vs : vs = [v \in Variables |-> IF v \in kind(j).session THEN None
                                              ELSE left(job[j].conn)[v]]
        OBVIOUS
    <2>3. \A v \in Variables : v \notin kind(j).session => left(job[j].conn)[v] = None
        BY <2>1, LeftHeld
    <2>4. vs = NoVariables
        BY <2>2, <2>3 DEF NoVariables
    <2>5. PICK back : back = givenBack(job[j].conn, vs)
        OBVIOUS
    <2>6. /\ back \in Conn /\ back.state # "used" /\ back.vars = NoVariables
          /\ closed => back.state # "idle"
        BY <2>4, <2>5, GivenClean
    <2>7. conn' = [conn EXCEPT ![job[j].conn] = back]
        BY <1>15, <2>2, <2>5 DEF Clears
    <2> QED BY <1>12, <2>1, <2>6, <2>7
<1>16. CASE ClearFails(j)
    BY <1>12, <1>16, Nobody DEF ClearFails
<1> QED BY <1>13, <1>14, <1>15, <1>16

-----------------------------------------------------------------------------
(* Slots are taken and released. *)

LEMMA SlottedFinite ==
    ASSUME NEW p
    PROVE  IsFiniteSet(slotted(p)) /\ Cardinality(slotted(p)) \in Nat
<1>1. slotted(p) \in SUBSET Jobs
    BY DEF slotted
<1>2. IsFiniteSet(slotted(p))
    BY <1>1, PoolAssumption, FS_Subset
<1> QED BY <1>2, FS_CardinalityType

LEMMA AcquireStep ==
    ASSUME PoolInv, NEW j \in Jobs, NEW b \in BOOLEAN, Acquire(j, b)
    PROVE  PoolInv'
<1>1. /\ job[j].pc \in {"start", "queued"} /\ ~full(j) /\ slots' = takes(j)
      /\ UNCHANGED <<config, conn, stmts, schema, run, listener, applied, closed>>
    BY DEF Acquire
<1>2. /\ job[j] \in Job /\ Phase(j, job[j]) /\ Effect(j, job[j]) /\ Session(j, job[j])
      /\ Planned /\ Slotwise /\ config \in Configs
    BY OfJob DEF PoolInv, Jobwise
<1>3. /\ kind(j) \in Kinds /\ job[j].conn = None /\ job[j].tx = "none" /\ ~job[j].slot
      /\ job[j].answer = None /\ Times(j, 0)
    BY <1>1, <1>2 DEF Phase, Effect, Waiting, Job
<1>4. PICK p : p = kind(j).projection
    OBVIOUS
<1>5. PICK s \in BOOLEAN : s <=> slots' # slots
    OBVIOUS
<1>6. PICK a : a = IF b THEN None ELSE "unbound"
    OBVIOUS
<1>7. PICK pc : pc = IF ~b THEN "release"
                     ELSE IF kind(j).prepared /\ ~transactional(j) THEN "stmtFor" ELSE "conn"
    OBVIOUS
<1>8. (slots' # slots) = s
    BY <1>5
<1>9. PICK q : q = [job[j] EXCEPT !.slot = s, !.answer = a, !.pc = pc]
    OBVIOUS
<1>10. job' = [job EXCEPT ![j] = q]
    BY <1>6, <1>7, <1>8, <1>9 DEF Acquire, Becomes
<1>11. q \in Job /\ q.pc = pc /\ q.answer = a /\ q.slot = s /\ q.conn = None /\ q.tx = "none"
    <2>1. pc \in Waiting \cup Answered /\ a \in Answers \cup {None}
        BY <1>6, <1>7 DEF Waiting, Answered, Answers
    <2>2. CASE s = TRUE
        BY <1>2, <1>3, <1>9, <2>1, <2>2 DEF Job
    <2>3. CASE s = FALSE
        BY <1>2, <1>3, <1>9, <2>1, <2>3 DEF Job
    <2> QED BY <2>2, <2>3
<1>12. \/ (isProbe(j) \/ config.limit = 0) /\ slots' = slots /\ ~s
       \/ /\ ~isProbe(j) /\ config.limit > 0 /\ p \in Projections /\ s
          /\ slots' = [slots EXCEPT ![p] = slots[p] + 1] /\ slots[p] < config.limit
    <2>1. CASE isProbe(j) \/ config.limit = 0
        BY <1>1, <1>5, <2>1 DEF takes
    <2>2. CASE ~(isProbe(j) \/ config.limit = 0)
        <3>1. config.limit > 0 /\ p \in Projections
            BY <1>2, <1>3, <1>4, <2>2, KindFields DEF isProbe
        <3>2. slots' = [slots EXCEPT ![p] = slots[p] + 1] /\ slots \in [Projections -> Nat]
            BY <1>1, <1>2, <1>4, <2>2 DEF takes, Slotwise
        <3>3. slots'[p] = slots[p] + 1 /\ slots[p] \in Nat
            BY <3>1, <3>2
        <3>4. slots' # slots
            BY <3>3
        <3>5. slots[p] < config.limit
            BY <1>1, <1>2, <1>4, <2>2, <3>1, <3>3, KindFields DEF full
        <3> QED BY <1>5, <2>2, <3>1, <3>2, <3>4, <3>5
    <2> QED BY <2>1, <2>2
<1>13. pc \in {"release", "stmtFor", "conn"} /\ (pc = "release" => a = "unbound")
       /\ (pc # "release" => a = None)
    BY <1>6, <1>7
<1>14. Hands(j, q)
    BY <1>1, <1>3, <1>11, HandsKept DEF PoolInv
<1>15. JobInv(j, q)'
    <2>1. Phase(j, q)
        BY <1>3, <1>11, <1>12, <1>13 DEF Phase, Waiting, Connected, Transacting, Answered
    <2>2. Effect(j, q)
        BY <1>3, <1>11, <1>13, Nobody DEF Effect, Waiting, Connected, Transacting, Answered, Answers
    <2>3. Session(j, q)'
        BY <1>11 DEF Session
    <2>4. Phase(j, q)' /\ Effect(j, q)'
        BY <1>1, <2>1, <2>2, PhaseKept, EffectKept
    <2> QED BY <1>11, <2>3, <2>4 DEF JobInv
<1>16. Jobwise'
    BY <1>1, <1>10, <1>11, <1>14, <1>15, TableKept, JobMoves DEF PoolInv
<1>17. Connwise'
    BY <1>1, <1>10, <1>11, <1>14, ConnMoves DEF PoolInv
<1>18. Runwise'
    BY <1>1, <1>10, <1>11, <1>13, RunKept DEF PoolInv
<1>19. job'[j] = q /\ \A i \in Jobs : i # j => job'[i] = job[i]
    BY <1>10 DEF PoolInv, Jobwise
<1>20. Slotwise'
    <2>1. CASE slots' = slots /\ ~s
        <3>1. q.slot = job[j].slot
            BY <1>2, <1>3, <1>11, <2>1 DEF Job
        <3>2. UNCHANGED <<config, slots>>
            BY <1>1, <2>1
        <3> QED BY <1>2, <1>10, <1>11, <3>1, <3>2, SlotsKept DEF PoolInv
    <2>2. CASE s
        <3>1. /\ config.limit > 0 /\ p \in Projections /\ slots \in [Projections -> Nat]
              /\ slots' = [slots EXCEPT ![p] = slots[p] + 1] /\ slots[p] < config.limit
            BY <1>2, <1>12, <2>2 DEF Slotwise
        <3>2. slotted(p)' = slotted(p) \cup {j} /\ j \notin slotted(p)
            BY <1>1, <1>3, <1>4, <1>11, <1>19, <2>2 DEF slotted, kind
        <3>3. \A r \in Projections : r # p => slotted(r)' = slotted(r)
            BY <1>1, <1>3, <1>4, <1>11, <1>19 DEF slotted, kind
        <3>4. Cardinality(slotted(p) \cup {j}) = Cardinality(slotted(p)) + 1
            BY <3>2, SlottedFinite, FS_AddElement
        <3>5. slots' \in [Projections -> Nat] /\ slots'[p] = slots[p] + 1
              /\ \A r \in Projections : r # p => slots'[r] = slots[r]
            BY <3>1
        <3>6. slots'[p] = Cardinality(slotted(p)')
            BY <1>2, <3>1, <3>2, <3>4, <3>5 DEF Slotwise
        <3>7. slots'[p] <= config.limit
            BY <1>2, <3>1, <3>5, KindFields
        <3>8. \A r \in Projections : r # p => /\ slots'[r] = Cardinality(slotted(r)')
                                              /\ config.limit > 0 => slots'[r] <= config.limit
            BY <1>2, <3>3, <3>5 DEF Slotwise
        <3> QED BY <1>1, <3>5, <3>6, <3>7, <3>8 DEF Slotwise
    <2> QED BY <1>12, <2>1, <2>2
<1>21. Planned'
    BY <1>1, <1>2, PlannedKept
<1> QED BY <1>16, <1>17, <1>18, <1>20, <1>21 DEF PoolInv

LEMMA ReleaseStep ==
    ASSUME PoolInv, NEW j \in Jobs, Release(j)
    PROVE  PoolInv'
<1>1. /\ job[j].pc = "release"
      /\ UNCHANGED <<config, conn, stmts, schema, run, listener, applied, closed>>
    BY DEF Release, At
<1>2. /\ job[j] \in Job /\ Phase(j, job[j]) /\ Effect(j, job[j])
      /\ Planned /\ Slotwise /\ config \in Configs
    BY OfJob DEF PoolInv, Jobwise
<1>3. kind(j) \in Kinds /\ job[j].conn = None
    BY <1>1, <1>2 DEF Phase, Answered
<1>4. PICK p : p = kind(j).projection
    OBVIOUS
<1>5. PICK q : q = [job[j] EXCEPT !.pc = "done", !.slot = FALSE]
    OBVIOUS
<1>6. /\ q \in Job /\ q.pc = "done" /\ ~q.slot /\ q.conn = None /\ q.tx = job[j].tx
      /\ q.answer = job[j].answer
    BY <1>2, <1>3, <1>5 DEF Job, Answered
<1>7. job' = [job EXCEPT ![j] = q]
    BY <1>5 DEF Release, Becomes
<1>8. Hands(j, q)
    BY <1>1, <1>3, <1>6, HandsKept DEF PoolInv
<1>9. JobInv(j, q)'
    <2>1. Phase(j, q)
        BY <1>1, <1>2, <1>6 DEF Phase, Waiting, Connected, Transacting, Answered
    <2>2. Effect(j, q)
        BY <1>2, <1>6 DEF Effect, Waiting, Connected
    <2>3. Session(j, q)'
        BY <1>6 DEF Session
    <2>4. Phase(j, q)' /\ Effect(j, q)'
        BY <1>1, <2>1, <2>2, PhaseKept, EffectKept
    <2> QED BY <1>6, <2>3, <2>4 DEF JobInv
<1>10. Jobwise'
    BY <1>1, <1>6, <1>7, <1>8, <1>9, TableKept, JobMoves DEF PoolInv
<1>11. Connwise'
    BY <1>1, <1>6, <1>7, <1>8, ConnMoves DEF PoolInv
<1>12. Runwise'
    BY <1>1, <1>6, <1>7, RunKept DEF PoolInv
<1>13. job'[j] = q /\ \A i \in Jobs : i # j => job'[i] = job[i]
    BY <1>7 DEF PoolInv, Jobwise
<1>14. Slotwise'
    <2>1. CASE ~job[j].slot
        <3>1. q.slot = job[j].slot
            BY <1>2, <1>6, <2>1 DEF Job
        <3>2. slots' = slots
            BY <2>1 DEF Release
        <3> QED BY <1>1, <1>2, <1>6, <1>7, <3>1, <3>2, SlotsKept DEF PoolInv
    <2>2. CASE job[j].slot
        <3>1. p \in Projections /\ slots \in [Projections -> Nat]
            BY <1>2, <1>3, <1>4, <2>2, KindFields DEF Phase, isProbe, Slotwise
        <3>2. slots' = [slots EXCEPT ![p] = slots[p] - 1]
            BY <1>4, <2>2 DEF Release
        <3>3. slotted(p)' = slotted(p) \ {j} /\ j \in slotted(p)
            BY <1>1, <1>4, <1>6, <1>13, <2>2 DEF slotted, kind
        <3>4. \A r \in Projections : r # p => slotted(r)' = slotted(r)
            BY <1>1, <1>4, <1>6, <1>13 DEF slotted, kind
        <3>5. IsFiniteSet(slotted(p)') /\ Cardinality(slotted(p)') = Cardinality(slotted(p)) - 1
            BY <3>3, SlottedFinite, FS_RemoveElement
        <3>6. Cardinality(slotted(p)') \in Nat
            BY <3>5, FS_CardinalityType
        <3>7. slots[p] \in Nat /\ slots[p] - 1 = Cardinality(slotted(p)')
            BY <1>2, <3>1, <3>5 DEF Slotwise
        <3>8. slots' \in [Projections -> Nat] /\ slots'[p] = slots[p] - 1
              /\ \A r \in Projections : r # p => slots'[r] = slots[r]
            BY <3>1, <3>2, <3>6, <3>7
        <3>9. config.limit > 0 => slots'[p] <= config.limit
            BY <1>2, <3>1, <3>7, <3>8, KindFields DEF Slotwise
        <3>10. \A r \in Projections : r # p => /\ slots'[r] = Cardinality(slotted(r)')
                                               /\ config.limit > 0 => slots'[r] <= config.limit
            BY <1>2, <3>4, <3>8 DEF Slotwise
        <3> QED BY <1>1, <3>7, <3>8, <3>9, <3>10 DEF Slotwise
    <2> QED BY <2>1, <2>2
<1>15. Planned'
    BY <1>1, <1>2, PlannedKept
<1> QED BY <1>10, <1>11, <1>12, <1>14, <1>15 DEF PoolInv

-----------------------------------------------------------------------------
(* A connection is taken. *)

LEMMA TakesStep ==
    ASSUME PoolInv, NEW j \in Jobs, NEW c \in Conns, TakesIdle(j, c) \/ Dials(j, c)
    PROVE  PoolInv'
<1>1. /\ job[j].pc = "conn" /\ conn[c].state # "used"
      /\ conn' = [conn EXCEPT ![c].state = "used"]
      /\ UNCHANGED <<config, slots, stmts, schema, listener, applied, closed>>
    BY DEF TakesIdle, Dials, At
<1>2. /\ job[j] \in Job /\ Phase(j, job[j]) /\ Effect(j, job[j]) /\ Planned /\ Runwise
      /\ config \in Configs
    BY OfJob DEF PoolInv, Jobwise
<1>3. kind(j) \in Kinds /\ job[j].conn = None /\ job[j].tx = "none" /\ c # None
    BY <1>1, <1>2, Nobody DEF Phase, Waiting
<1>4. PICK pc : pc = IF TakesIdle(j, c) THEN "got"
                     ELSE IF ~config.minted THEN "connecting"
                     ELSE IF run = None THEN "minting" ELSE "joined"
    OBVIOUS
<1>5. pc \in Connected
    BY <1>4 DEF Connected
<1>6. PICK q : q = [job[j] EXCEPT !.pc = pc, !.conn = c]
    OBVIOUS
<1>7. /\ q \in Job /\ q.pc = pc /\ q.conn = c /\ q.tx = "none" /\ q.slot = job[j].slot
      /\ q.answer = job[j].answer
    BY <1>2, <1>3, <1>5, <1>6 DEF Job
<1>8. job' = [job EXCEPT ![j] = q]
    <2>1. q = [job[j] EXCEPT !.conn = c, !.pc = pc]
        BY <1>2, <1>6 DEF Job
    <2> QED BY <1>4, <1>6, <2>1 DEF TakesIdle, Dials, Becomes
<1>9. Hands(j, q) /\ conn'[c].vars = NoVariables
    BY <1>1, <1>3, <1>7, HandsTaken DEF PoolInv
<1>10. JobInv(j, q)'
    <2>1. Phase(j, q)
        BY <1>1, <1>2, <1>3, <1>5, <1>7 DEF Phase, Waiting, Connected, Transacting, Answered
    <2>2. Effect(j, q)
        BY <1>1, <1>2, <1>5, <1>7 DEF Effect, Waiting
    <2>3. Phase(j, q)' /\ Effect(j, q)'
        BY <1>1, <2>1, <2>2, PhaseKept, EffectKept
    <2>4. Session(j, q)'
        BY <1>7, <1>9, Nobody DEF Session
    <2> QED BY <1>7, <2>3, <2>4 DEF JobInv
<1>11. Jobwise'
    BY <1>1, <1>7, <1>8, <1>9, <1>10, TableKept, JobMoves DEF PoolInv
<1>12. Connwise'
    BY <1>1, <1>7, <1>8, <1>9, ConnMoves DEF PoolInv
<1>13. Slotwise'
    BY <1>1, <1>7, <1>8, SlotsKept DEF PoolInv
<1>14. Planned'
    BY <1>1, <1>2, PlannedKept
<1>15. job'[j] = q /\ \A i \in Jobs : i # j => job'[i] = job[i]
    BY <1>8 DEF PoolInv, Jobwise
<1>16. Runwise'
    <2>1. CASE TakesIdle(j, c)
        <3>1. run' = run /\ q.pc = "got"
            BY <1>4, <1>7, <2>1 DEF TakesIdle
        <3> QED BY <1>1, <1>2, <1>7, <1>8, <3>1, RunKept DEF PoolInv
    <2>2. CASE Dials(j, c) /\ ~TakesIdle(j, c) /\ ~(config.minted /\ run = None)
        <3>1. run' = run /\ pc # "minting" /\ (pc = "joined" => run # None)
            BY <1>4, <2>2 DEF Dials
        <3>2. \A i \in Jobs : At(i, "minting")' <=> At(i, "minting")
            BY <1>1, <1>7, <1>15, <3>1 DEF At
        <3>3. \A i \in Jobs : At(i, "joined")' => At(i, "joined") \/ run # None
            BY <1>7, <1>15, <3>1 DEF At
        <3> QED BY <1>1, <1>2, <3>1, <3>2, <3>3 DEF Runwise
    <2>3. CASE Dials(j, c) /\ ~TakesIdle(j, c) /\ config.minted /\ run = None
        <3>1. run' = j /\ pc = "minting"
            BY <1>4, <2>3 DEF Dials
        <3>2. \A i \in Jobs : At(i, "minting")' <=> i = j
            <4>1. \A i \in Jobs : ~At(i, "minting")
                BY <1>2, <2>3, PoolAssumption DEF Runwise
            <4> QED BY <1>7, <1>15, <3>1, <4>1 DEF At
        <3>3. listener' # "minting" /\ j # Listener /\ j # None
            BY <1>1, <1>2, <2>3, KindFields, Nobody DEF Runwise
        <3> QED BY <3>1, <3>2, <3>3 DEF Runwise
    <2> QED BY <2>1, <2>2, <2>3
<1> QED BY <1>11, <1>12, <1>13, <1>14, <1>16 DEF PoolInv

-----------------------------------------------------------------------------
(* The token command ends for everybody who waits for it. *)

LEMMA Sharing ==
    ASSUME PoolInv, NEW i \in sharers
    PROVE  /\ i \in Jobs /\ job[i].pc \in Connected /\ job[i].pc \in {"minting", "joined"}
           /\ job[i] \in Job /\ Phase(i, job[i]) /\ Effect(i, job[i]) /\ Session(i, job[i])
BY OfJob DEF sharers, Connected

LEMMA MintsStep == PoolInv /\ Mints => PoolInv'
<1> SUFFICES ASSUME PoolInv, Mints
             PROVE  PoolInv'
    OBVIOUS
<1>1. /\ run' = None
      /\ job' = [j \in Jobs |-> IF j \in sharers THEN [job[j] EXCEPT !.pc = "connecting"]
                                ELSE job[j]]
      /\ listener' = IF listener \in {"minting", "joined"} THEN "connecting" ELSE listener
      /\ UNCHANGED <<config, conn, slots, stmts, schema, applied, closed, budget>>
    BY DEF Mints
<1>2. ASSUME NEW i \in Jobs
      PROVE  /\ job'[i] \in Job /\ job'[i].conn = job[i].conn /\ job'[i].slot = job[i].slot
             /\ job'[i].pc \notin {"minting", "joined"} /\ JobInv(i, job[i])'
    <2>1. job[i] \in Job /\ Phase(i, job[i]) /\ Effect(i, job[i]) /\ Session(i, job[i])
        BY OfJob
    <2>2. PICK q : q = job'[i]
        OBVIOUS
    <2>3. CASE i \notin sharers
        <3>1. q = job[i] /\ q.pc \notin {"minting", "joined"}
            BY <1>1, <2>2, <2>3 DEF sharers
        <3>2. Phase(i, q)' /\ Effect(i, q)'
            BY <1>1, <2>1, <3>1, PhaseKept, EffectKept
        <3>3. Session(i, q)'
            BY <1>1, <2>1, <3>1 DEF Session, kind, own
        <3> QED BY <2>1, <2>2, <3>1, <3>2, <3>3 DEF JobInv
    <2>4. CASE i \in sharers
        <3>1. job[i].pc \in {"minting", "joined"}
            BY <2>4 DEF sharers
        <3>2. q = [job[i] EXCEPT !.pc = "connecting"]
            BY <1>1, <2>2, <2>4
        <3>3. /\ q \in Job /\ q.pc = "connecting" /\ q.conn = job[i].conn
              /\ q.slot = job[i].slot /\ q.tx = job[i].tx /\ q.answer = job[i].answer
            BY <2>1, <3>2 DEF Job, Connected
        <3>4. Phase(i, q) /\ Effect(i, q)
            BY <2>1, <3>1, <3>3 DEF Phase, Effect, Waiting, Connected, Transacting, Answered
        <3>5. Phase(i, q)' /\ Effect(i, q)'
            BY <1>1, <3>4, PhaseKept, EffectKept
        <3>6. Session(i, q)'
            BY <1>1, <2>1, <3>3 DEF Session, kind, own
        <3> QED BY <2>2, <3>3, <3>5, <3>6 DEF JobInv
    <2> QED BY <2>3, <2>4
<1>3. Jobwise'
    <2>1. job' \in [Jobs -> Job]
        BY <1>1, <1>2
    <2> QED BY <1>1, <1>2, <2>1 DEF Jobwise, PoolInv
<1>4. Connwise'
    BY <1>1, <1>2 DEF Connwise, PoolInv, NoVariables
<1>5. Slotwise'
    <2>1. \A p \in Projections : slotted(p)' = slotted(p)
        BY <1>1, <1>2 DEF slotted, kind
    <2> QED BY <1>1, <2>1 DEF Slotwise, PoolInv
<1>6. Runwise'
    <2>1. \A i \in Jobs : ~At(i, "minting")' /\ ~At(i, "joined")' /\ i # None
        BY <1>2, PoolAssumption DEF At
    <2>2. listener' \notin {"minting", "joined"}
        BY <1>1
    <2> QED BY <1>1, <2>1, <2>2, Nobody DEF Runwise
<1>7. Planned'
    BY <1>1, PlannedKept DEF PoolInv
<1> QED BY <1>3, <1>4, <1>5, <1>6, <1>7 DEF PoolInv

LEMMA MintFailsStep == PoolInv /\ MintFails => PoolInv'
<1> SUFFICES ASSUME PoolInv, MintFails
             PROVE  PoolInv'
    OBVIOUS
<1>1. /\ run' = None
      /\ job' = [j \in Jobs |-> IF j \in sharers THEN errored(j) ELSE job[j]]
      /\ conn' = [c \in Conns |-> IF \E j \in sharers : job[j].conn = c THEN discarded
                                  ELSE conn[c]]
      /\ listener' = IF listener \in {"minting", "joined"} THEN "retry" ELSE listener
      /\ UNCHANGED <<config, slots, stmts, schema, applied, closed>>
    BY DEF MintFails
<1>2. conn' \in [Conns -> Conn]
    BY <1>1, Nobody DEF PoolInv, Jobwise
<1>3. ASSUME NEW i \in Jobs, i \notin sharers
      PROVE  /\ job'[i] = job[i] /\ job[i].pc \notin {"minting", "joined"} /\ job[i] \in Job
             /\ job[i].conn # None => conn'[job[i].conn] = conn[job[i].conn]
             /\ JobInv(i, job[i])'
    <2>1. job[i] \in Job /\ Phase(i, job[i]) /\ Effect(i, job[i]) /\ Session(i, job[i])
        BY OfJob
    <2>2. job'[i] = job[i] /\ job[i].pc \notin {"minting", "joined"}
        BY <1>1, <1>3 DEF sharers
    <2>3. job[i].conn # None => job[i].conn \in Conns /\ conn'[job[i].conn] = conn[job[i].conn]
        <3>1. job[i].conn # None => \A k \in sharers : job[k].conn # job[i].conn
            BY <1>3 DEF sharers, PoolInv, Connwise
        <3> QED BY <1>1, <2>1, <3>1 DEF Job
    <2>4. Phase(i, job[i])' /\ Effect(i, job[i])'
        BY <1>1, <2>1, <2>2
           DEF Phase, Effect, Times, Width, kind, isProbe, transactional
    <2>5. Session(i, job[i])'
        BY <1>1, <2>1, <2>2, <2>3 DEF Session, kind, own
    <2> QED BY <2>1, <2>2, <2>3, <2>4, <2>5 DEF JobInv
<1>4. ASSUME NEW i \in sharers
      PROVE  /\ i \in Jobs /\ job[i].conn \in Conns /\ job'[i].conn = None
             /\ job'[i].slot = job[i].slot /\ job'[i].pc \notin {"minting", "joined"}
             /\ job'[i] \in Job /\ JobInv(i, job[i])'
    <2>1. i \in Jobs /\ job[i].pc \in Connected
        BY Sharing
    <2>2. PICK q : q = job'[i]
        OBVIOUS
    <2>3. q = errored(i)
        BY <1>1, <2>1, <2>2
    <2>4. /\ q \in Job /\ q.conn = None /\ q.slot = job[i].slot /\ q.pc \in {"conn", "release"}
          /\ Phase(i, q) /\ Effect(i, q)
        BY <2>1, <2>3, Errored
    <2>5. Phase(i, q)' /\ Effect(i, q)'
        BY <1>1, <2>4, PhaseKept, EffectKept
    <2>6. Session(i, q)'
        BY <2>4 DEF Session
    <2>7. job[i].conn \in Conns
        BY <2>1, CleanBefore
    <2> QED BY <2>1, <2>2, <2>4, <2>5, <2>6, <2>7 DEF JobInv
<1>5. Jobwise'
    <2>1. job' \in [Jobs -> Job]
        BY <1>1, <1>3, <1>4
    <2>2. \A i \in Jobs : JobInv(i, job[i])'
        BY <1>3, <1>4
    <2> QED BY <1>1, <1>2, <2>1, <2>2 DEF Jobwise, PoolInv
<1>6. Connwise'
    <2>1. ASSUME NEW c \in Conns
          PROVE  /\ conn'[c].state = "used" <=> \E i \in Jobs : job'[i].conn = c
                 /\ conn'[c].state # "used" => conn'[c].vars = NoVariables
                 /\ closed => conn'[c].state # "idle"
        <3>1. CASE \E k \in sharers : job[k].conn = c
            <4>1. PICK k \in sharers : job[k].conn = c
                BY <3>1
            <4>2. conn'[c] = discarded
                BY <1>1, <3>1
            <4>3. \A i \in Jobs : job'[i].conn # c
                <5>1. \A i \in Jobs : i \in sharers => job'[i].conn # c
                    BY <1>4, Nobody
                <5>2. \A i \in Jobs : i \notin sharers => job[i].conn # c
                    BY <1>4, <4>1, Nobody DEF PoolInv, Connwise
                <5> QED BY <1>3, <5>1, <5>2
            <4> QED BY <4>2, <4>3, Nobody
        <3>2. CASE ~\E k \in sharers : job[k].conn = c
            <4>1. conn'[c] = conn[c]
                BY <1>1, <3>2
            <4>2. (\E i \in Jobs : job'[i].conn = c) <=> (\E i \in Jobs : job[i].conn = c)
                BY <1>3, <1>4, <3>2, Nobody
            <4> QED BY <4>1, <4>2 DEF PoolInv, Connwise
        <3> QED BY <3>1, <3>2
    <2>2. ASSUME NEW i \in Jobs, NEW k \in Jobs, job'[i].conn = job'[k].conn, job'[i].conn # None
          PROVE  i = k
        BY <1>3, <1>4, <2>2 DEF PoolInv, Connwise
    <2> QED BY <1>1, <2>1, <2>2 DEF Connwise, NoVariables
<1>7. Slotwise'
    <2>1. \A i \in Jobs : job'[i].slot = job[i].slot
        BY <1>3, <1>4
    <2>2. \A p \in Projections : slotted(p)' = slotted(p)
        BY <1>1, <2>1 DEF slotted, kind
    <2> QED BY <1>1, <2>2 DEF Slotwise, PoolInv
<1>8. Runwise'
    <2>1. \A i \in Jobs : ~At(i, "minting")' /\ ~At(i, "joined")' /\ i # None
        BY <1>3, <1>4, PoolAssumption DEF At
    <2>2. listener' \notin {"minting", "joined"}
        BY <1>1
    <2> QED BY <1>1, <2>1, <2>2, Nobody DEF Runwise
<1>9. Planned'
    BY <1>1, PlannedKept DEF PoolInv
<1> QED BY <1>5, <1>6, <1>7, <1>8, <1>9 DEF PoolInv

-----------------------------------------------------------------------------
(* The listener, and what happens to the pool. *)

\* Jobs and slots are as they were.
LEMMA JobsKept ==
    ASSUME PoolInv, UNCHANGED <<config, job, slots, applied>>, conn' \in [Conns -> Conn],
           \A c \in Conns : conn[c].state = "used" => conn'[c] = conn[c]
    PROVE  Jobwise' /\ Slotwise'
<1>1. ASSUME NEW i \in Jobs
      PROVE  JobInv(i, job[i])'
    <2>1. job[i] \in Job /\ Phase(i, job[i]) /\ Effect(i, job[i]) /\ Session(i, job[i])
        BY OfJob
    <2>2. Phase(i, job[i])' /\ Effect(i, job[i])'
        BY <2>1 DEF Phase, Effect, Times, Width, kind, isProbe, transactional
    <2>3. job[i].conn # None => conn'[job[i].conn] = conn[job[i].conn]
        BY <2>1 DEF Job, PoolInv, Connwise
    <2>4. Session(i, job[i])'
        BY <2>1, <2>3 DEF Session, kind, own
    <2> QED BY <2>1, <2>2, <2>4 DEF JobInv
<1>2. Jobwise'
    BY <1>1 DEF PoolInv, Jobwise
<1>3. \A p \in Projections : slotted(p)' = slotted(p)
    BY DEF slotted, kind
<1> QED BY <1>2, <1>3 DEF PoolInv, Slotwise

LEMMA ListenerSteps ==
    ASSUME PoolInv, Listening \/ ListenerStopped
    PROVE  PoolInv'
<1>1. UNCHANGED <<config, conn, job, slots, stmts, schema, applied, closed>>
    BY DEF Listening, ListenerConnects, Subscribes, ListenerRetries, ListenerStopped, ofItsOwn
<1>2. Jobwise' /\ Slotwise'
    BY <1>1, JobsKept DEF PoolInv, Jobwise
<1>3. Connwise' /\ Planned'
    BY <1>1 DEF PoolInv, Connwise, Planned, NoVariables
<1>4. \A i \in Jobs : (At(i, "minting")' <=> At(i, "minting")) /\ (At(i, "joined")' <=> At(i, "joined"))
    BY <1>1 DEF At
<1>5. Runwise
    BY DEF PoolInv
<1>6. Runwise'
    <2>1. CASE ListenerConnects /\ config.minted /\ run = None
        <3>1. run' = Listener /\ listener' = "minting"
            BY <2>1 DEF ListenerConnects
        <3>2. \A i \in Jobs : ~At(i, "minting") /\ i # Listener
            BY <1>5, <2>1, PoolAssumption DEF Runwise
        <3> QED BY <1>4, <3>1, <3>2, Nobody DEF Runwise
    <2>2. CASE ListenerConnects /\ ~(config.minted /\ run = None)
        <3>1. /\ run' = run /\ listener = "connect" /\ listener' \in {"connecting", "joined"}
              /\ listener' = "joined" => run # None
            BY <2>2 DEF ListenerConnects
        <3> QED BY <1>4, <1>5, <3>1 DEF Runwise
    <2>3. CASE Subscribes \/ ListenerRetries \/ ListenerStopped
        <3>1. /\ run' = run /\ listener \notin {"minting", "joined"}
              /\ listener' \notin {"minting", "joined"}
            BY <2>3 DEF Subscribes, ListenerRetries, ListenerStopped
        <3> QED BY <1>4, <1>5, <3>1 DEF Runwise
    <2> QED BY <2>1, <2>2, <2>3 DEF Listening
<1> QED BY <1>2, <1>3, <1>6 DEF PoolInv

LEMMA PoolSteps ==
    ASSUME PoolInv, CacheEvicts \/ Migrates \/ Closes \/ \E c \in Conns : IdleDropped(c)
    PROVE  PoolInv'
<1>1. UNCHANGED <<config, job, slots, run, listener, applied>>
    BY DEF CacheEvicts, Migrates, Closes, IdleDropped
<1>2. /\ conn' \in [Conns -> Conn]
      /\ \A c \in Conns : conn'[c] = conn[c] \/ (conn'[c] = discarded /\ conn[c].state # "used")
    <2>1. CASE CacheEvicts \/ Migrates
        BY <2>1 DEF CacheEvicts, Migrates, PoolInv, Jobwise
    <2>2. CASE Closes
        BY <2>2, Nobody DEF Closes, PoolInv, Jobwise
    <2>3. ASSUME NEW c \in Conns, IdleDropped(c)
          PROVE  /\ conn' \in [Conns -> Conn]
                 /\ \A d \in Conns : conn'[d] = conn[d]
                                     \/ (conn'[d] = discarded /\ conn[d].state # "used")
        BY <2>3, Nobody DEF IdleDropped, PoolInv, Jobwise
    <2> QED BY <2>1, <2>2, <2>3
<1>3. closed' => \A c \in Conns : conn'[c].state # "idle"
    <2>1. CASE Closes
        BY <2>1, Nobody DEF Closes
    <2>2. CASE ~Closes
        <3>1. closed' = closed
            BY <2>2 DEF CacheEvicts, Migrates, IdleDropped
        <3> QED BY <1>2, <3>1, Nobody DEF PoolInv, Connwise
    <2> QED BY <2>1, <2>2
<1>4. Jobwise' /\ Slotwise'
    BY <1>1, <1>2, JobsKept
<1>5. Connwise'
    <2>1. ASSUME NEW c \in Conns
          PROVE  /\ conn'[c].state = "used" <=> \E i \in Jobs : job'[i].conn = c
                 /\ conn'[c].state # "used" => conn'[c].vars = NoVariables
        BY <1>1, <1>2, Nobody DEF PoolInv, Connwise
    <2> QED BY <1>1, <1>3, <2>1 DEF PoolInv, Connwise, NoVariables
<1>6. Runwise'
    BY <1>1 DEF PoolInv, Runwise, At
<1>7. Planned'
    <2>1. /\ schema' \in Nat
          /\ stmts' = stmts \/ stmts' = removed
        BY DEF CacheEvicts, Migrates, Closes, IdleDropped, PoolInv, Planned
    <2> QED BY <2>1, RemovedPlans DEF PoolInv, Planned
<1> QED BY <1>4, <1>5, <1>6, <1>7 DEF PoolInv

-----------------------------------------------------------------------------
(* The theorems. *)

LEMMA PoolInit == Init => PoolInv
<1> SUFFICES ASSUME Init
             PROVE  PoolInv
    OBVIOUS
<1>1. config \in Configs /\ conn \in [Conns -> Conn]
      /\ \A c \in Conns : conn[c].state = "closed" /\ conn[c].vars = NoVariables
    BY Nobody DEF Init, Conn
<1>2. ASSUME NEW j \in Jobs
      PROVE  /\ job[j] \in Job /\ job[j].conn = None /\ ~job[j].slot /\ job[j].tx = "none"
             /\ job[j].answer = None
             /\ job[j].pc = IF kind(j) = None THEN "done" ELSE "start"
    <2>1. NewJob \in Job
        BY DEF NewJob, Job, Waiting
    <2>2. job[j] = IF kind(j) # None THEN NewJob ELSE [NewJob EXCEPT !.pc = "done"]
        BY DEF Init, kind
    <2>3. CASE kind(j) # None
        BY <2>1, <2>2, <2>3 DEF NewJob
    <2>4. CASE kind(j) = None
        <3>1. PICK q : q = [NewJob EXCEPT !.pc = "done"]
            OBVIOUS
        <3>2. /\ q \in Job /\ q.conn = None /\ ~q.slot /\ q.tx = "none" /\ q.answer = None
              /\ q.pc = "done"
            BY <2>1, <3>1 DEF NewJob, Job, Answered
        <3> QED BY <2>2, <2>4, <3>1, <3>2
    <2> QED BY <2>3, <2>4
<1>3. ASSUME NEW j \in Jobs
      PROVE  JobInv(j, job[j])
    <2>1. kind(j) \in Kinds \cup {None}
        BY <1>1, KindFields
    <2>2. Phase(j, job[j])
        BY <1>2, <2>1 DEF Phase, Waiting, Connected, Transacting, Answered
    <2>3. Session(j, job[j])
        BY <1>2 DEF Session
    <2>4. Times(j, 0)
        <3>1. CASE kind(j) = None
            <4>1. applied[j] = <<0>> /\ Width(j) = 1
                BY <3>1 DEF Init, kind, Width
            <4>2. <<0>> = [i \in 1..1 |-> 0]
                OBVIOUS
            <4> QED BY <4>1, <4>2 DEF Times
        <3>2. CASE kind(j) # None
            BY <3>2 DEF Init, kind, Width, Times
        <3> QED BY <3>1, <3>2
    <2>5. Effect(j, job[j])
        BY <1>2, <2>4, Nobody DEF Effect, Waiting, Connected, Answers
    <2> QED BY <1>2, <2>2, <2>3, <2>5 DEF JobInv
<1>4. Jobwise
    <2>1. job \in [Jobs -> Job]
        BY <1>2 DEF Init
    <2>2. DOMAIN applied = Jobs
        BY DEF Init
    <2> QED BY <1>1, <1>3, <2>1, <2>2 DEF Jobwise
<1>5. Connwise
    BY <1>1, <1>2, Nobody DEF Connwise, Init
<1>6. Slotwise
    <2>1. \A p \in Projections : slotted(p) = {}
        BY <1>2 DEF slotted
    <2>2. \A p \in Projections : slots[p] = 0
        BY DEF Init
    <2>3. config.limit \in Nat
        BY <1>1, PoolAssumption
    <2>4. slots \in [Projections -> Nat]
        BY DEF Init
    <2> QED BY <2>1, <2>2, <2>3, <2>4, FS_EmptySet DEF Slotwise
<1>7. Runwise
    <2>1. \A j \in Jobs : ~At(j, "minting") /\ ~At(j, "joined") /\ j # None
        BY <1>2, PoolAssumption DEF At
    <2>2. run = None /\ listener \in {"connect", "off"}
        BY DEF Init
    <2> QED BY <2>1, <2>2, Nobody DEF Runwise
<1>8. Planned
    BY DEF Init, Planned
<1> QED BY <1>4, <1>5, <1>6, <1>7, <1>8 DEF PoolInv

LEMMA PoolStep == PoolInv /\ [Next]_vars => PoolInv'
<1> SUFFICES ASSUME PoolInv, [Next]_vars
             PROVE  PoolInv'
    OBVIOUS
<1>1. ASSUME NEW j \in Jobs, JobStep(j)
      PROVE  PoolInv'
    <2>1. CASE \E b \in BOOLEAN : Acquire(j, b)
        BY <2>1, AcquireStep
    <2>2. CASE Release(j)
        BY <2>2, ReleaseStep
    <2>3. CASE Queues(j) \/ Shed(j) \/ StmtFor(j) \/ Calls(j) \/ EvictStatement(j)
        BY <2>3, WaitingSteps
    <2>4. CASE Prepares(j) \/ StalePlan(j)
        BY <2>4, PreparedSteps
    <2>5. CASE \E c \in Conns : TakesIdle(j, c) \/ Dials(j, c)
        BY <2>5, TakesStep
    <2>6. CASE ConnectFails(j) \/ AskFails(j) \/ GivesUp(j) \/ BeginFails(j)
        BY <2>6, FailingSteps
    <2>7. CASE \E a \in {"ok", "refused"} : Executes(j, a)
        BY <2>7, ExecutesStep
    <2>8. CASE ExecuteFails(j)
        BY <2>8, ExecuteFailsStep
    <2>9. CASE (\E a \in {"ok", "refused"} : Commits(j, a)) \/ CommitUnknown(j)
        BY <2>9, CommitSteps
    <2>10. CASE Connects(j) \/ BeginTx(j) \/ RunsStatement(j) \/ StatementFails(j)
                \/ VerifyRefuses(j)
        BY <2>10, StayingSteps
    <2>11. CASE AppliesSession(j) \/ \E ws \in SUBSET Variables : SessionFails(j, ws)
        BY <2>11, SessionSteps
    <2>12. CASE CancelRollsBack(j)
        BY <2>12, CancelStep
    <2>13. CASE Finishes(j) \/ Clears(j) \/ ClearFails(j)
        BY <2>13, FinishSteps
    <2> QED BY <1>1, <2>1, <2>2, <2>3, <2>4, <2>5, <2>6, <2>7, <2>8, <2>9, <2>10, <2>11,
               <2>12, <2>13 DEF JobStep
<1>2. ASSUME NEW j \in Jobs, Cancelled(j)
      PROVE  PoolInv'
    BY <1>2, StayingSteps
<1>3. CASE Minting
    BY <1>3, MintsStep, MintFailsStep DEF Minting
<1>4. CASE Listening \/ ListenerStopped
    BY <1>4, ListenerSteps
<1>5. CASE CacheEvicts \/ Migrates \/ Closes \/ \E c \in Conns : IdleDropped(c)
    BY <1>5, PoolSteps
<1>6. CASE UNCHANGED vars
    <2>1. UNCHANGED <<config, conn, job, slots, stmts, schema, run, listener, applied, closed>>
        BY <1>6 DEF vars
    <2>2. Jobwise' /\ Slotwise'
        BY <2>1, JobsKept DEF PoolInv, Jobwise
    <2>3. Connwise' /\ Planned' /\ Runwise'
        BY <2>1 DEF PoolInv, Connwise, Planned, Runwise, At, NoVariables
    <2> QED BY <2>2, <2>3 DEF PoolInv
<1> QED BY <1>1, <1>2, <1>3, <1>4, <1>5, <1>6 DEF Next

\* The pool's inductive invariant: jobs and what they hold, connections, slots,
\* the token command and the cache of prepared statements.
THEOREM PoolCorrect == Spec => []PoolInv
BY PoolInit, PoolStep, PTL DEF Spec

\* No statement runs with a session variable of another request, or without its
\* own, however many requests share the pool and however they ended.
THEOREM SessionsAreOwn == Spec => []OwnSession
<1>1. PoolInv => OwnSession
    <2> SUFFICES ASSUME PoolInv, NEW j \in Jobs, running(j)
                 PROVE  conn[job[j].conn].vars = own(j)
        BY DEF OwnSession
    <2>1. CASE plain(j)
        <3>1. job[j].pc \in Connected /\ kind(j).session = {}
            BY <2>1 DEF plain, At, Connected, transactional
        <3>2. own(j) = NoVariables
            BY <3>1 DEF own, NoVariables
        <3> QED BY <3>1, <3>2, CleanBefore
    <2>2. CASE At(j, "statements") /\ live(j)
        <3>1. job[j].conn # None
            BY <2>2, OfTransaction DEF live
        <3> QED BY <2>2, <3>1, OfJob DEF Session, At, live
    <2> QED BY <2>1, <2>2 DEF running
<1> QED BY <1>1, PoolCorrect, PTL

\* The statements of a request take effect together and once or not at all, and
\* its answer does not say otherwise.
THEOREM EffectsAreAtomic == Spec => []AtomicOnce
<1>1. PoolInv => AtomicOnce
    <2> SUFFICES ASSUME PoolInv, NEW j \in Jobs
                 PROVE  LET all == {applied[j][i] : i \in DOMAIN applied[j]}
                            a == job[j].answer
                        IN  /\ all \in {{0}, {1}}
                            /\ a = "ok" /\ ~isProbe(j) => all = {1}
                            /\ a \in {"shed", "unbound"} \/ (a = "refused" /\ kind(j).statements > 1) => all = {0}
        BY DEF AtomicOnce
    <2>1. Effect(j, job[j])
        BY OfJob
    <2>2. Width(j) \in 1..2
        BY KindFields DEF Width, PoolInv, Jobwise
    <2>3. ASSUME NEW x \in {0, 1}, Times(j, x)
          PROVE  {applied[j][i] : i \in DOMAIN applied[j]} = {x}
        <3>1. DOMAIN applied[j] = 1..Width(j) /\ 1 \in 1..Width(j)
            BY <2>2, <2>3 DEF Times
        <3>2. \A i \in 1..Width(j) : applied[j][i] = x
            BY <2>3 DEF Times
        <3> QED BY <3>1, <3>2
    <2> QED BY <2>1, <2>3 DEF Effect
<1> QED BY <1>1, PoolCorrect, PTL

\* Connections, slots and the run of the token command are accounted for: none is
\* lost, shared or over the limit.
THEOREM PoolIsAccounted == Spec => []Accounted
<1>1. PoolInv => Accounted
    <2> SUFFICES ASSUME PoolInv
                 PROVE  Accounted
        OBVIOUS
    <2>1. \A j \in Jobs : At(j, "done") => ~job[j].slot /\ job[j].conn = None
        BY OfJob DEF Phase, At, Answered
    <2>2. Connwise /\ Slotwise /\ Runwise
        BY DEF PoolInv
    <2> QED BY <2>1, <2>2 DEF Accounted, Connwise, Slotwise, Runwise, slotted
<1> QED BY <1>1, PoolCorrect, PTL
=============================================================================
