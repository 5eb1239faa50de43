-------------------------------- MODULE Pool --------------------------------
(***************************************************************************)
(* One connection pool (sql/datasource.go) and what runs on it: the        *)
(* statements of requests, plain or in a transaction, with their session   *)
(* variables (sql/session.go), the cache of prepared statements, the       *)
(* limiter of each projection, credentials minted per connection           *)
(* (sql/authconnector.go, credentials/) and a notification listener        *)
(* (sql/listen.go).  The pool is shared by every projection that reaches   *)
(* the database, so what one request leaves on a connection the next finds.*)
(*                                                                         *)
(* database/sql is modelled from how it is used here: it rolls back the    *)
(* transaction of a cancelled context by itself, gives a connection that   *)
(* it took for a transaction back at once, and never one that is held.     *)
(***************************************************************************)
EXTENDS Integers, FiniteSets, Sequences

CONSTANTS
    Jobs,        \* requests and probes, each of which runs once
    Conns,       \* connections a pool can have open
    Variables,   \* session variables; the statement timeout is one
    Projections, \* owners of a limiter
    None,
    Configs      \* the pools considered, and the jobs on them

\* A kind of job.  A probe (Ping, Check) belongs to no projection and takes no
\* slot; its one statement is a question that writes nothing.
Kinds == [projection : Projections \cup {None}, statements : 1..2, prepared : BOOLEAN,
          session : SUBSET Variables, verified : BOOLEAN]

\* The answers a job can have; None is the lack of one.
Answers == {"ok", "refused", "error", "shed", "unbound"}
Listener == "listener"

ASSUME PoolAssumption ==
    /\ IsFiniteSet(Jobs)
    /\ Listener \notin Jobs
    /\ None \notin Jobs \cup {Listener} \cup Conns \cup Projections \cup Answers
    /\ None \notin Kinds
    /\ \A cf \in Configs :
        /\ cf.dialect \in {"setConfig", "userVariable"}
        /\ cf.conns \in SUBSET Conns \ {{}}
        /\ cf.kinds \in [Jobs -> Kinds \cup {None}]
        /\ {cf.minted, cf.listens, cf.closes} \subseteq BOOLEAN
        /\ {cf.limit, cf.faults, cf.migrations, cf.cancels} \subseteq Nat

VARIABLES
    config,   \* the pool, fixed at the start
    conn,     \* its connections: closed, idle or used, and their session variables
    job,      \* the jobs
    slots,    \* Limiter.slots: how many are taken for each projection
    stmts,    \* Pool.stmts: the cached handle, the handles closed, the plan of each
    schema,   \* how often a migration changed the table under the statements
    run,      \* command.inflight: who executes the token command, or None
    listener, \* where the notification listener stands
    applied,  \* how often each statement of each job took effect
    closed,   \* the pool was closed
    budget    \* how many faults, migrations and cancellations are still allowed

vars == <<config, conn, job, slots, stmts, schema, run, listener, applied, closed, budget>>

NoVariables == [v \in Variables |-> None]
NewJob == [pc |-> "start", want |-> "run", conn |-> None, slot |-> FALSE, tx |-> "none",
           ran |-> 0, handle |-> 0, cancelled |-> FALSE, answer |-> None]

Init ==
    /\ config \in Configs
    /\ conn = [c \in Conns |-> [state |-> "closed", vars |-> NoVariables]]
    /\ job = [j \in Jobs |-> IF config.kinds[j] # None THEN NewJob
                             ELSE [NewJob EXCEPT !.pc = "done"]]
    /\ slots = [p \in Projections |-> 0]
    /\ stmts = [cached |-> 0, gone |-> {}, plans |-> <<>>]
    /\ schema = 0
    /\ run = None
    /\ listener = IF config.listens THEN "connect" ELSE "off"
    /\ applied = [j \in Jobs |-> IF config.kinds[j] = None THEN <<0>>
                                 ELSE [i \in 1..config.kinds[j].statements |-> 0]]
    /\ closed = FALSE
    /\ budget = [faults |-> config.faults, migrations |-> config.migrations,
                 cancels |-> config.cancels]

kind(j) == config.kinds[j]
isProbe(j) == kind(j).projection = None
\* A setting is scoped to one request by a transaction, and so are several
\* statements.
transactional(j) == kind(j).session # {} \/ kind(j).statements > 1

\* Mutant: every transaction begins on the pool.
holdsNothing(j) == FALSE

\* beginTx: with user variables to set, the transaction runs on a connection
\* that is held until they are cleared.
holds(j) == kind(j).session # {} /\ config.dialect = "userVariable"

-----------------------------------------------------------------------------
(* Steps of a job. *)

At(j, pc) == job[j].pc = pc
Becomes(j, new) == job' = [job EXCEPT ![j] = new]
Moves(j, pc) == Becomes(j, [job[j] EXCEPT !.pc = pc])

\* What fails: anything, within the budget, and whatever a cancelled request
\* still tries.
MayFail(j) == job[j].cancelled \/ budget.faults > 0
Charged(j) == budget' = IF job[j].cancelled THEN budget
                        ELSE [budget EXCEPT !.faults = @ - 1]

\* Connections. A closed pool closes what is given back.
givenBack(c, vs) == [state |-> IF closed THEN "closed" ELSE "idle",
                     vars |-> IF closed THEN NoVariables ELSE vs]
discarded == [state |-> "closed", vars |-> NoVariables]

\* The variables that a transaction which ended leaves on its connection.
left(c) == IF config.dialect = "setConfig" THEN NoVariables ELSE conn[c].vars

\* An error is the answer, except of preparing, after which the statement is
\* run unprepared.
errored(j) == IF job[j].want = "prepare"
              THEN [job[j] EXCEPT !.pc = "conn", !.want = "run", !.handle = 0, !.conn = None]
              ELSE [job[j] EXCEPT !.pc = "release", !.answer = "error", !.conn = None]

-----------------------------------------------------------------------------
(* The limiter: Acquire and the release it returns. *)

full(j) == ~isProbe(j) /\ config.limit > 0 /\ slots[kind(j).projection] >= config.limit
takes(j) == IF isProbe(j) \/ config.limit = 0 THEN slots
            ELSE [slots EXCEPT ![kind(j).projection] = @ + 1]

\* The slot is taken, and bind resolves the parameters of every statement; one
\* that nothing supplies is refused before anything ran.
Acquire(j, bound) ==
    /\ job[j].pc \in {"start", "queued"}
    /\ ~full(j)
    /\ slots' = takes(j)
    /\ ~bound => budget.faults > 0
    /\ budget' = IF bound THEN budget ELSE [budget EXCEPT !.faults = @ - 1]
    /\ Becomes(j, [job[j] EXCEPT
           !.slot = slots' # slots,
           !.answer = IF bound THEN None ELSE "unbound",
           !.pc = IF ~bound THEN "release"
                  ELSE IF kind(j).prepared /\ ~transactional(j) THEN "stmtFor" ELSE "conn"])
    /\ UNCHANGED <<config, conn, stmts, schema, run, listener, applied, closed>>

\* No slot is free: the request waits for one for a second at most.
Queues(j) ==
    /\ At(j, "start")
    /\ full(j)
    /\ Moves(j, "queued")
    /\ UNCHANGED <<config, conn, slots, stmts, schema, run, listener, applied, closed, budget>>

\* The second is over, or the caller went away: ErrTooBusy, a 429.
Shed(j) ==
    /\ At(j, "queued")
    /\ Becomes(j, [job[j] EXCEPT !.pc = "done", !.answer = "shed"])
    /\ UNCHANGED <<config, conn, slots, stmts, schema, run, listener, applied, closed, budget>>

Release(j) ==
    /\ At(j, "release")
    /\ slots' = IF job[j].slot THEN [slots EXCEPT ![kind(j).projection] = @ - 1] ELSE slots
    /\ Becomes(j, [job[j] EXCEPT !.pc = "done", !.slot = FALSE])
    /\ UNCHANGED <<config, conn, stmts, schema, run, listener, applied, closed, budget>>

-----------------------------------------------------------------------------
(* stmtFor and evictStatement. *)

\* stmtFor: the cached statement, or one to prepare, for which the job needs a
\* connection.
StmtFor(j) ==
    /\ At(j, "stmtFor")
    /\ Becomes(j, IF stmts.cached # 0
                  THEN [job[j] EXCEPT !.pc = "call", !.handle = stmts.cached]
                  ELSE [job[j] EXCEPT !.pc = "conn", !.want = "prepare"])
    /\ UNCHANGED <<config, conn, slots, stmts, schema, run, listener, applied, closed, budget>>

\* Add puts the new handle in the place of one that a racing job has put there
\* meanwhile, which stays open.
Prepares(j) ==
    /\ At(j, "got") /\ job[j].want = "prepare" /\ ~job[j].cancelled
    /\ LET h == Len(stmts.plans) + 1
       IN  /\ stmts' = [stmts EXCEPT !.cached = h, !.plans = Append(@, schema)]
           /\ Becomes(j, [job[j] EXCEPT !.pc = "call", !.want = "run", !.handle = h,
                                        !.conn = None])
    /\ conn' = [conn EXCEPT ![job[j].conn] = givenBack(job[j].conn, @.vars)]
    /\ UNCHANGED <<config, slots, schema, run, listener, applied, closed, budget>>

\* The call of a handle finds it closed, and the statement runs unprepared.
Calls(j) ==
    /\ At(j, "call")
    /\ Becomes(j, [job[j] EXCEPT !.pc = "conn",
                                 !.handle = IF @ \in stmts.gone THEN 0 ELSE @])
    /\ UNCHANGED <<config, conn, slots, stmts, schema, run, listener, applied, closed, budget>>

\* A handle is closed once nobody is in a call of it: Stmt.Close waits.
inCall(j) == job[j].pc \in {"conn", "minting", "joined", "connecting", "got"}
removable == stmts.cached # 0 /\ \A j \in Jobs : ~(inCall(j) /\ job[j].handle = stmts.cached)
removed == [stmts EXCEPT !.cached = 0, !.gone = @ \cup {stmts.cached}]

\* evictStatement after a stale plan: whatever is cached for the text goes, and
\* this job runs it unprepared.
EvictStatement(j) ==
    /\ At(j, "evict")
    /\ \/ stmts.cached = 0 /\ stmts' = stmts
       \/ removable /\ stmts' = removed
    /\ Becomes(j, [job[j] EXCEPT !.pc = "conn", !.handle = 0])
    /\ UNCHANGED <<config, conn, slots, schema, run, listener, applied, closed, budget>>

\* Statements of other texts push this one out of the cache.
CacheEvicts ==
    /\ budget.migrations > 0
    /\ removable
    /\ budget' = [budget EXCEPT !.migrations = @ - 1]
    /\ stmts' = removed
    /\ UNCHANGED <<config, conn, job, slots, schema, run, listener, applied, closed>>

\* The table is altered under the prepared statements.
Migrates ==
    /\ budget.migrations > 0
    /\ budget' = [budget EXCEPT !.migrations = @ - 1]
    /\ schema' = schema + 1
    /\ UNCHANGED <<config, conn, job, slots, stmts, run, listener, applied, closed>>

-----------------------------------------------------------------------------
(* Taking a connection. *)

TakesIdle(j, c) ==
    /\ At(j, "conn") /\ ~job[j].cancelled /\ ~closed
    /\ c \in config.conns /\ conn[c].state = "idle"
    /\ conn' = [conn EXCEPT ![c].state = "used"]
    /\ Becomes(j, [job[j] EXCEPT !.pc = "got", !.conn = c])
    /\ UNCHANGED <<config, slots, stmts, schema, run, listener, applied, closed, budget>>

\* A connection is opened when none is idle; the connector asks the credential
\* provider for its password first, which joins a run under way.
Dials(j, c) ==
    /\ At(j, "conn") /\ ~job[j].cancelled /\ ~closed
    /\ \A d \in config.conns : conn[d].state # "idle"
    /\ c \in config.conns /\ conn[c].state = "closed"
    /\ conn' = [conn EXCEPT ![c].state = "used"]
    /\ Becomes(j, [job[j] EXCEPT !.conn = c,
                                 !.pc = IF ~config.minted THEN "connecting"
                                        ELSE IF run = None THEN "minting" ELSE "joined"])
    /\ run' = IF config.minted /\ run = None THEN j ELSE run
    /\ UNCHANGED <<config, slots, stmts, schema, listener, applied, closed, budget>>

Connects(j) ==
    /\ At(j, "connecting") /\ ~job[j].cancelled
    /\ Moves(j, "got")
    /\ UNCHANGED <<config, conn, slots, stmts, schema, run, listener, applied, closed, budget>>

\* The password cannot be read, or the database refuses it or the handshake.
ConnectFails(j) ==
    /\ At(j, "connecting")
    /\ MayFail(j) /\ Charged(j)
    /\ conn' = [conn EXCEPT ![job[j].conn] = discarded]
    /\ Becomes(j, errored(j))
    /\ UNCHANGED <<config, slots, stmts, schema, run, listener, applied, closed>>

\* The database does not prepare the statement, or does not answer the probe in
\* its time.
AskFails(j) ==
    /\ At(j, "got") /\ (job[j].want = "prepare" \/ isProbe(j))
    /\ MayFail(j) /\ Charged(j)
    /\ conn' = [conn EXCEPT ![job[j].conn] = givenBack(job[j].conn, @.vars)]
    /\ Becomes(j, errored(j))
    /\ UNCHANGED <<config, slots, stmts, schema, run, listener, applied, closed>>

\* A job that waits gives up when it is cancelled or the pool is closed, alone:
\* a run that it joined goes on for the others.
GivesUp(j) ==
    /\ \/ At(j, "conn") /\ (job[j].cancelled \/ closed) /\ conn' = conn
       \/ At(j, "joined") /\ job[j].cancelled
          /\ conn' = [conn EXCEPT ![job[j].conn] = discarded]
    /\ Becomes(j, errored(j))
    /\ UNCHANGED <<config, slots, stmts, schema, run, listener, applied, closed, budget>>

-----------------------------------------------------------------------------
(* Password: the token command runs once for everybody who waits for it. *)

sharers == {j \in Jobs : job[j].pc \in {"minting", "joined"}}

Mints ==
    /\ run # None
    /\ run \in Jobs => ~job[run].cancelled
    /\ run' = None
    /\ job' = [j \in Jobs |-> IF j \in sharers THEN [job[j] EXCEPT !.pc = "connecting"]
                              ELSE job[j]]
    /\ listener' = IF listener \in {"minting", "joined"} THEN "connecting" ELSE listener
    /\ UNCHANGED <<config, conn, slots, stmts, schema, applied, closed, budget>>

\* The command fails, prints nothing, runs out of time, or is killed because
\* the one who started it was cancelled: the error is everybody's.
MintFails ==
    /\ run # None
    /\ \/ /\ run \in Jobs /\ job[run].cancelled
          /\ budget' = budget
       \/ /\ budget.faults > 0
          /\ budget' = [budget EXCEPT !.faults = @ - 1]
    /\ run' = None
    /\ job' = [j \in Jobs |-> IF j \in sharers THEN errored(j) ELSE job[j]]
    /\ conn' = [c \in Conns |-> IF \E j \in sharers : job[j].conn = c THEN discarded ELSE conn[c]]
    /\ listener' = IF listener \in {"minting", "joined"} THEN "retry" ELSE listener
    /\ UNCHANGED <<config, slots, stmts, schema, applied, closed>>

-----------------------------------------------------------------------------
(* ExecWith and QueryWith without a transaction, and probe. *)

plain(j) == At(j, "got") /\ job[j].want = "run" /\ ~transactional(j)
tookEffect(j, i) == [applied EXCEPT ![j][i] = @ + 1]

\* The statement runs, and commits. A check of what it wrote comes too late to
\* undo it.
Executes(j, answer) ==
    /\ plain(j) /\ ~job[j].cancelled
    /\ answer \in {"ok"} \cup (IF kind(j).verified THEN {"refused"} ELSE {})
    /\ applied' = IF isProbe(j) THEN applied ELSE tookEffect(j, 1)
    /\ conn' = [conn EXCEPT ![job[j].conn] = givenBack(job[j].conn, @.vars)]
    /\ Becomes(j, [job[j] EXCEPT !.pc = "release", !.conn = None, !.answer = answer])
    /\ UNCHANGED <<config, slots, stmts, schema, run, listener, closed, budget>>

\* The plan of a prepared statement is of an older schema. It may still run, on
\* a connection that prepares it again.
StalePlan(j) ==
    /\ plain(j) /\ job[j].handle # 0
    /\ stmts.plans[job[j].handle] # schema
    /\ conn' = [conn EXCEPT ![job[j].conn] = givenBack(job[j].conn, @.vars)]
    /\ Becomes(j, [job[j] EXCEPT !.pc = "evict", !.conn = None])
    /\ UNCHANGED <<config, slots, stmts, schema, run, listener, applied, closed, budget>>

\* Mutant: whatever went wrong with a prepared statement, it is run unprepared.
retriedUnprepared(j) == IF job[j].handle # 0
                        THEN [job[j] EXCEPT !.pc = "conn", !.handle = 0, !.conn = None]
                        ELSE errored(j)

\* Any other error is the answer.
lost(j) == errored(j)

\* The database refuses it, the connection breaks, the request is cancelled or
\* scanRows refuses the result: the error does not say whether it took effect.
ExecuteFails(j) ==
    /\ plain(j) /\ ~isProbe(j)
    /\ MayFail(j) /\ Charged(j)
    /\ applied' \in {applied, tookEffect(j, 1)}
    /\ \E back \in {discarded, givenBack(job[j].conn, conn[job[j].conn].vars)} :
           conn' = [conn EXCEPT ![job[j].conn] = back]
    /\ Becomes(j, lost(j))
    /\ UNCHANGED <<config, slots, stmts, schema, run, listener, closed>>

-----------------------------------------------------------------------------
(* transact: the transaction of a request. *)

BeginTx(j) ==
    /\ At(j, "got") /\ transactional(j) /\ ~job[j].cancelled
    /\ Becomes(j, [job[j] EXCEPT !.pc = "session", !.tx = "open"])
    /\ UNCHANGED <<config, conn, slots, stmts, schema, run, listener, applied, closed, budget>>

\* Mutant: the connection taken for the transaction is forgotten.
keptAfterFailure(c) == conn[c]

\* No transaction begins, and the connection goes back: one that is held because
\* it is closed here.
afterFailure(c) == givenBack(c, conn[c].vars)

BeginFails(j) ==
    /\ At(j, "got") /\ transactional(j)
    /\ MayFail(j) /\ Charged(j)
    /\ conn' = [conn EXCEPT ![job[j].conn] = afterFailure(job[j].conn)]
    /\ Becomes(j, errored(j))
    /\ UNCHANGED <<config, slots, stmts, schema, run, listener, applied, closed>>

live(j) == job[j].tx = "open" /\ ~job[j].cancelled
setFor(j, vs) == [v \in Variables |-> IF v \in vs THEN j ELSE conn[job[j].conn].vars[v]]

\* applyStatementTimeout and applySession, before anything reads or writes.
AppliesSession(j) ==
    /\ At(j, "session") /\ live(j)
    /\ conn' = [conn EXCEPT ![job[j].conn].vars = setFor(j, kind(j).session)]
    /\ Moves(j, "statements")
    /\ UNCHANGED <<config, slots, stmts, schema, run, listener, applied, closed, budget>>

\* It fails with some of the variables set.
SessionFails(j, vs) ==
    /\ At(j, "session") /\ job[j].tx = "open"
    /\ MayFail(j) /\ Charged(j)
    /\ vs \subseteq kind(j).session
    /\ conn' = [conn EXCEPT ![job[j].conn].vars = setFor(j, vs)]
    /\ Becomes(j, [job[j] EXCEPT !.pc = "finish", !.answer = "error"])
    /\ UNCHANGED <<config, slots, stmts, schema, run, listener, applied, closed>>

RunsStatement(j) ==
    /\ At(j, "statements") /\ live(j)
    /\ job[j].ran < kind(j).statements
    /\ Becomes(j, [job[j] EXCEPT !.ran = @ + 1])
    /\ UNCHANGED <<config, conn, slots, stmts, schema, run, listener, applied, closed, budget>>

\* A statement or the commit is refused, or the transaction is found ended.
StatementFails(j) ==
    /\ job[j].pc \in {"session", "statements"}
    /\ MayFail(j) /\ Charged(j)
    /\ Becomes(j, [job[j] EXCEPT !.pc = "finish", !.answer = "error"])
    /\ UNCHANGED <<config, conn, slots, stmts, schema, run, listener, applied, closed>>

ranAll(j) == At(j, "statements") /\ live(j) /\ job[j].ran = kind(j).statements

\* verify, still inside the transaction, when it has several statements.
VerifyRefuses(j) ==
    /\ ranAll(j) /\ kind(j).verified /\ kind(j).statements > 1
    /\ Becomes(j, [job[j] EXCEPT !.pc = "finish", !.answer = "refused"])
    /\ UNCHANGED <<config, conn, slots, stmts, schema, run, listener, applied, closed, budget>>

committed(j) == [applied EXCEPT ![j] = [i \in DOMAIN @ |-> @[i] + 1]]
ended(j, answer) == [job[j] EXCEPT !.pc = "finish", !.tx = "over", !.answer = answer,
                                   !.conn = IF holds(j) THEN @ ELSE None]

\* The commit ends the transaction, and with it what is local to it. One that
\* began on the pool gives its connection back. A single statement is verified
\* only now.
Commits(j, answer) ==
    /\ ranAll(j)
    /\ answer \in {"ok"} \cup (IF kind(j).verified /\ kind(j).statements = 1
                               THEN {"refused"} ELSE {})
    /\ applied' = committed(j)
    /\ conn' = [conn EXCEPT ![job[j].conn] =
                   IF holds(j) THEN [@ EXCEPT !.vars = left(job[j].conn)]
                   ELSE givenBack(job[j].conn, left(job[j].conn))]
    /\ Becomes(j, ended(j, answer))
    /\ UNCHANGED <<config, slots, stmts, schema, run, listener, closed, budget>>

\* The connection breaks during the commit, which took effect or did not; the
\* clearing of a held one then fails too, and it is discarded.
CommitUnknown(j) ==
    /\ ranAll(j)
    /\ budget.faults > 0 /\ Charged(j)
    /\ applied' \in {applied, committed(j)}
    /\ conn' = [conn EXCEPT ![job[j].conn] = discarded]
    /\ Becomes(j, [ended(j, "error") EXCEPT !.conn = None])
    /\ UNCHANGED <<config, slots, stmts, schema, run, listener, closed>>

\* database/sql rolls back the transaction of a cancelled context by itself, and
\* one that began on the pool gives its connection back there and then.
CancelRollsBack(j) ==
    /\ job[j].tx = "open" /\ job[j].cancelled
    /\ conn' = [conn EXCEPT ![job[j].conn] =
                   IF holds(j) THEN [@ EXCEPT !.vars = left(job[j].conn)]
                   ELSE givenBack(job[j].conn, left(job[j].conn))]
    /\ Becomes(j, [job[j] EXCEPT !.tx = "over", !.conn = IF holds(j) THEN @ ELSE None])
    /\ UNCHANGED <<config, slots, stmts, schema, run, listener, applied, closed, budget>>

-----------------------------------------------------------------------------
(* finish: the rollback, and releaseSession on a held connection. *)

Finishes(j) ==
    /\ At(j, "finish")
    /\ ~(holds(j) /\ job[j].conn # None)
    /\ conn' = IF job[j].conn = None THEN conn
               ELSE [conn EXCEPT ![job[j].conn] = givenBack(job[j].conn, left(job[j].conn))]
    /\ Becomes(j, [job[j] EXCEPT !.pc = "release", !.tx = "over", !.conn = None])
    /\ UNCHANGED <<config, slots, stmts, schema, run, listener, applied, closed, budget>>

\* clearSession on a context that the request's cancellation does not end.
Clears(j) ==
    /\ At(j, "finish") /\ holds(j) /\ job[j].conn # None
    /\ conn' = [conn EXCEPT ![job[j].conn] =
                   givenBack(job[j].conn,
                             [v \in Variables |-> IF v \in kind(j).session THEN None
                                                  ELSE left(job[j].conn)[v]])]
    /\ Becomes(j, [job[j] EXCEPT !.pc = "release", !.tx = "over", !.conn = None])
    /\ UNCHANGED <<config, slots, stmts, schema, run, listener, applied, closed, budget>>

\* What could not be cleared never goes back.
ClearFails(j) ==
    /\ At(j, "finish") /\ holds(j) /\ job[j].conn # None
    /\ budget.faults > 0
    /\ budget' = [budget EXCEPT !.faults = @ - 1]
    /\ conn' = [conn EXCEPT ![job[j].conn] = discarded]
    /\ Becomes(j, [job[j] EXCEPT !.pc = "release", !.tx = "over", !.conn = None])
    /\ UNCHANGED <<config, slots, stmts, schema, run, listener, applied, closed>>

-----------------------------------------------------------------------------
(* Listen: listenLoop and listenOnce. *)

\* Mutant: LISTEN takes one of the pool's connections.
fromThePool == \E c \in config.conns :
    /\ conn[c].state # "used"
    /\ conn' = [conn EXCEPT ![c].state = "used"]

\* openConnection: a connection outside the pool, through the same connector.
ofItsOwn == conn' = conn

ListenerConnects ==
    /\ listener = "connect"
    /\ ofItsOwn
    /\ listener' = IF ~config.minted THEN "connecting"
                   ELSE IF run = None THEN "minting" ELSE "joined"
    /\ run' = IF config.minted /\ run = None THEN Listener ELSE run
    /\ UNCHANGED <<config, job, slots, stmts, schema, applied, closed, budget>>

Subscribes ==
    /\ listener = "connecting"
    /\ listener' = "listening"
    /\ UNCHANGED <<config, conn, job, slots, stmts, schema, run, applied, closed, budget>>

\* It cannot connect or subscribe, or the subscription drops.
ListenerStopped ==
    /\ listener \in {"connecting", "listening"}
    /\ budget.faults > 0
    /\ budget' = [budget EXCEPT !.faults = @ - 1]
    /\ listener' = "retry"
    /\ UNCHANGED <<config, conn, job, slots, stmts, schema, run, applied, closed>>

ListenerRetries ==
    /\ listener = "retry"
    /\ listener' = "connect"
    /\ UNCHANGED <<config, conn, job, slots, stmts, schema, run, applied, closed, budget>>

-----------------------------------------------------------------------------
(* What happens to the pool and its requests. *)

\* The caller goes away, or the statement's deadline passes.
Cancelled(j) ==
    /\ budget.cancels > 0
    /\ job[j].pc \notin {"release", "done"} /\ ~job[j].cancelled
    /\ budget' = [budget EXCEPT !.cancels = @ - 1]
    /\ Becomes(j, [job[j] EXCEPT !.cancelled = TRUE])
    /\ UNCHANGED <<config, conn, slots, stmts, schema, run, listener, applied, closed>>

\* An idle connection reaches its lifetime, or keepWarm's ping finds it dead.
IdleDropped(c) ==
    /\ conn[c].state = "idle"
    /\ budget.faults > 0
    /\ budget' = [budget EXCEPT !.faults = @ - 1]
    /\ conn' = [conn EXCEPT ![c] = discarded]
    /\ UNCHANGED <<config, job, slots, stmts, schema, run, listener, applied, closed>>

\* Close clears the statement cache and closes what is idle.
Closes ==
    /\ config.closes /\ ~closed
    /\ closed' = TRUE
    /\ \/ stmts.cached = 0 /\ stmts' = stmts
       \/ removable /\ stmts' = removed
    /\ conn' = [c \in Conns |-> IF conn[c].state = "idle" THEN discarded ELSE conn[c]]
    /\ UNCHANGED <<config, job, slots, schema, run, listener, applied, budget>>

-----------------------------------------------------------------------------
JobStep(j) ==
    \/ \E bound \in BOOLEAN : Acquire(j, bound)
    \/ Queues(j) \/ Shed(j) \/ Release(j)
    \/ StmtFor(j) \/ Prepares(j) \/ Calls(j) \/ EvictStatement(j)
    \/ \E c \in Conns : TakesIdle(j, c) \/ Dials(j, c)
    \/ Connects(j) \/ ConnectFails(j) \/ AskFails(j) \/ GivesUp(j)
    \/ \E answer \in {"ok", "refused"} : Executes(j, answer) \/ Commits(j, answer)
    \/ StalePlan(j) \/ ExecuteFails(j)
    \/ BeginTx(j) \/ BeginFails(j) \/ AppliesSession(j)
    \/ \E vs \in SUBSET Variables : SessionFails(j, vs)
    \/ RunsStatement(j) \/ StatementFails(j) \/ VerifyRefuses(j) \/ CommitUnknown(j)
    \/ CancelRollsBack(j) \/ Finishes(j) \/ Clears(j) \/ ClearFails(j)

Minting == Mints \/ MintFails
Listening == ListenerConnects \/ Subscribes \/ ListenerRetries

Next ==
    \/ \E j \in Jobs : JobStep(j) \/ Cancelled(j)
    \/ Minting \/ Listening \/ ListenerStopped
    \/ CacheEvicts \/ Migrates \/ Closes
    \/ \E c \in Conns : IdleDropped(c)

Fairness ==
    /\ \A j \in Jobs : WF_vars(JobStep(j))
    /\ WF_vars(Minting) /\ WF_vars(Listening)

Spec == Init /\ [][Next]_vars /\ Fairness

-----------------------------------------------------------------------------
(* Properties. *)

own(j) == [v \in Variables |-> IF v \in kind(j).session THEN j ELSE None]
running(j) == \/ plain(j) /\ ~isProbe(j)
              \/ At(j, "statements") /\ live(j)

\* No statement runs with a session variable of another request, or without one
\* of its own, on whichever connection the pool hands it and whatever became of
\* the requests before it there: cancelled, failed half way through setting or
\* clearing their variables, rolled back by database/sql.
OwnSession == \A j \in Jobs : running(j) => conn[job[j].conn].vars = own(j)

\* The statements of a request take effect together and once, or not at all,
\* across closed handles, stale plans, commits of unknown outcome and
\* cancellation; a success means that they did, and a request that was shed,
\* could not be bound or was refused inside its transaction wrote nothing.
AtomicOnce == \A j \in Jobs :
    LET all == {applied[j][i] : i \in DOMAIN applied[j]}
        a == job[j].answer
    IN  /\ all \in {{0}, {1}}
        /\ a = "ok" /\ ~isProbe(j) => all = {1}
        /\ a \in {"shed", "unbound"} \/ (a = "refused" /\ kind(j).statements > 1) => all = {0}

\* Nothing is lost or shared: every used connection belongs to exactly one job,
\* the slots taken are those of jobs that hold one and never more than the
\* limit, no closed pool keeps an idle connection, and a shared run of the token
\* command has its executor still at it, which nobody who waits can do without.
Accounted ==
    /\ \A c \in Conns : (conn[c].state = "used") <=> (\E j \in Jobs : job[j].conn = c)
    /\ \A i, j \in Jobs : job[i].conn = job[j].conn /\ job[i].conn # None => i = j
    /\ \A p \in Projections :
        /\ slots[p] = Cardinality({j \in Jobs : job[j].slot /\ kind(j).projection = p})
        /\ config.limit > 0 => slots[p] <= config.limit
    /\ closed => \A c \in Conns : conn[c].state # "idle"
    /\ \A j \in Jobs : At(j, "done") => ~job[j].slot /\ job[j].conn = None
    /\ \A j \in Jobs : At(j, "minting") <=> run = j
    /\ (listener = "minting") <=> (run = Listener)
    /\ (listener = "joined" \/ \E j \in Jobs : At(j, "joined")) => run # None

\* Every request and every probe is answered, even on a pool of one connection
\* with a listener on the database, and a listener that is not subscribed
\* subscribes again.
NothingHangs ==
    /\ \A j \in Jobs : <>At(j, "done")
    /\ listener # "off" ~> listener = "listening"
=============================================================================
