------------------------------ MODULE PollGroup ------------------------------
(***************************************************************************)
(* The poll group of a projection (registry/projection/pollgroup.go): one  *)
(* timer for the watch caches of all its versions, running at the shortest *)
(* interval a member wants, from the first watcher to the last.  Joining   *)
(* happens outside the cache's lock and leaving inside it; a timer that is *)
(* replaced is only cancelled, and may be polling when that happens.       *)
(*                                                                         *)
(* A cache is its number of watchers.  What a poll does is the subject of  *)
(* WatchCache; here it succeeds, or fails with its context.                *)
(***************************************************************************)
EXTENDS Integers, FiniteSets, FiniteSetsExt

CONSTANTS
    Caches,           \* the watch caches of the projection's versions
    interval,         \* each cache's poll interval
    followerInterval, \* and the one it wants while not leading
    MaxRuns,          \* bound: run goroutines alive at once
    MaxWatchers,      \* bound: watchers of one cache
    MaxArrivals,      \* bound: Watch calls
    MaxElections      \* bound: changes of leadership

Intervals == {interval[c] : c \in Caches} \cup {followerInterval[c] : c \in Caches}

\* A projection has a version, and finitely many: one interval is the longest.
ASSUME IntervalAssumption ==
    /\ interval \in [Caches -> Nat \ {0}]
    /\ followerInterval \in [Caches -> Nat \ {0}]
    /\ \E longest \in Intervals : \A i \in Intervals : i <= longest
    /\ {MaxRuns, MaxWatchers, MaxArrivals, MaxElections} \subseteq Nat

VARIABLES
    watchers,  \* how many watchers each cache has registered
    joining,   \* Watch calls that registered a first watcher and have not added
    members,   \* g.members
    tick,      \* g.tick
    cancel,    \* the run g.cancel would cancel, or NoRun
    run,       \* the goroutines
    leading,   \* this replica holds the lease
    age,       \* time since each cache's lastPoll
    arrivals,
    elections

vars == <<watchers, joining, members, tick, cancel, run, leading, age,
          arrivals, elections>>
group == <<members, tick, cancel, run>>

Runs == 1..MaxRuns
NoRun == 0
Exited == [pc |-> "exited", cancelled |-> TRUE, tick |-> 0, todo |-> {}]
Longest == Max(Intervals)

Init ==
    /\ watchers = [c \in Caches |-> 0]
    /\ joining = [c \in Caches |-> 0]
    /\ members = {}
    /\ tick = 0
    /\ cancel = NoRun
    /\ run = [r \in Runs |-> Exited]
    /\ leading \in BOOLEAN
    /\ age = [c \in Caches |-> Longest]
    /\ arrivals = 0
    /\ elections = 0

-----------------------------------------------------------------------------
(* Intervals. *)

effectiveInterval(c) ==
    IF leading \/ followerInterval[c] <= interval[c]
    THEN interval[c] ELSE followerInterval[c]

shortest(S) == IF S = {} THEN 0 ELSE Min({effectiveInterval(c) : c \in S})

\* due: within half a tick of the interval.
due(c, elapsed, t) == 2 * elapsed >= 2 * effectiveInterval(c) - t

-----------------------------------------------------------------------------
(* Membership.  Each of these is one hold of g.mu. *)

\* Mutant: the timer being replaced is left running.
leftRunning(runs) == runs

cancelled(runs) ==
    IF cancel = NoRun THEN runs ELSE [runs EXCEPT ![cancel].cancelled = TRUE]

\* retimeLocked with the new members: the timer is replaced when it is not the
\* one they want.
retimeLocked(S, runs) ==
    IF shortest(S) = tick /\ cancel # NoRun
    THEN run' = runs /\ UNCHANGED <<tick, cancel>>
    ELSE \E r \in Runs :
           /\ runs[r].pc = "exited" /\ \A q \in 1..r - 1 : runs[q].pc # "exited"
           /\ run' = [cancelled(runs) EXCEPT ![r] =
                  [pc |-> "waiting", cancelled |-> FALSE, tick |-> shortest(S), todo |-> {}]]
           /\ tick' = shortest(S)
           /\ cancel' = r

add(c) ==
    /\ members' = members \cup {c}
    /\ retimeLocked(members', run)

\* runs are the goroutines as the caller leaves them.
remove(c, runs) ==
    /\ members' = members \ {c}
    /\ IF members' = {}
       THEN run' = cancelled(runs) /\ tick' = 0 /\ cancel' = NoRun
       ELSE retimeLocked(members', runs)

-----------------------------------------------------------------------------
(* Watchers. *)

\* Watch registers under c.mu ...
Register(c) ==
    /\ arrivals < MaxArrivals
    /\ watchers[c] < MaxWatchers
    /\ arrivals' = arrivals + 1
    /\ watchers' = [watchers EXCEPT ![c] = @ + 1]
    /\ joining' = [joining EXCEPT ![c] = IF watchers[c] = 0 THEN @ + 1 ELSE @]
    /\ UNCHANGED <<group, leading, age, elections>>

\* ... and a first watcher joins the group after releasing it.
Join(c) ==
    /\ joining[c] > 0
    /\ joining' = [joining EXCEPT ![c] = @ - 1]
    /\ add(c)
    /\ UNCHANGED <<watchers, leading, age, arrivals, elections>>

\* stop: the last watcher leaves the group with it, under c.mu.
Leave(c) ==
    /\ watchers[c] > 0
    /\ watchers' = [watchers EXCEPT ![c] = @ - 1]
    /\ IF watchers[c] = 1 THEN remove(c, run) ELSE UNCHANGED group
    /\ UNCHANGED <<joining, leading, age, arrivals, elections>>

\* Mutant: a watcher that fell behind twice in a broadcast is dropped twice.
DropTwice(c) ==
    /\ watchers[c] > 0
    /\ watchers' = [watchers EXCEPT ![c] = @ - 2]
    /\ UNCHANGED <<joining, group, leading, age, arrivals, elections>>

\* broadcast and emitBookmarksLocked drop a watcher that fell behind, and leave
\* the group to notice.
Drop(c) ==
    /\ watchers[c] > 0
    /\ watchers' = [watchers EXCEPT ![c] = @ - 1]
    /\ UNCHANGED <<joining, group, leading, age, arrivals, elections>>

\* Close: the projection is gone or has a new cache.
Close(c) ==
    /\ watchers' = [watchers EXCEPT ![c] = 0]
    /\ remove(c, run)
    /\ UNCHANGED <<joining, leading, age, arrivals, elections>>

\* What leading() answers from now on; nothing tells the group.
SetLeadership(isLeader) ==
    /\ leading' = isLeader
    /\ UNCHANGED <<watchers, joining, group, age, arrivals>>

\* The lease is won (OnStartedLeading) or lost (OnStoppedLeading), which is not
\* fatal: the replica goes on and enters the next election.
Election ==
    /\ elections < MaxElections
    /\ elections' = elections + 1
    /\ SetLeadership(~leading)

-----------------------------------------------------------------------------
(* A run goroutine. *)

\* Mutant: a replica that does not hold the lease refreshes nothing.
TimerFiresIfLeading(r) ==
    /\ run[r].pc = "waiting"
    /\ age' = [c \in Caches |-> Min({Longest, age[c] + run[r].tick})]
    /\ run' = [run EXCEPT ![r].pc = "polling",
           ![r].todo = {c \in members : leading /\ due(c, age'[c], run[r].tick)}]
    /\ UNCHANGED <<watchers, joining, members, tick, cancel, leading, arrivals, elections>>

\* The timer fires: the members that are due are refreshed, all at once.
TimerFires(r) ==
    /\ run[r].pc = "waiting"
    /\ age' = [c \in Caches |-> Min({Longest, age[c] + run[r].tick})]
    /\ run' = [run EXCEPT ![r].pc = "polling",
           ![r].todo = {c \in members : due(c, age'[c], run[r].tick)}]
    /\ UNCHANGED <<watchers, joining, members, tick, cancel, leading, arrivals, elections>>

\* A notification: every member is refreshed, and the timer starts again.
Notified(r) ==
    /\ run[r].pc = "waiting"
    /\ run' = [run EXCEPT ![r].pc = "notified", ![r].todo = members]
    /\ UNCHANGED <<watchers, joining, members, tick, cancel, leading, age,
                   arrivals, elections>>

\* refresh of a cache with watchers.  Its lastPoll is taken before the poll,
\* which a cancelled context fails.
Refreshes(r, c) ==
    /\ c \in run[r].todo
    /\ watchers[c] > 0
    /\ age' = [age EXCEPT ![c] = 0]
    /\ run' = [run EXCEPT ![r].todo = @ \ {c}]
    /\ UNCHANGED <<watchers, joining, members, tick, cancel, leading, arrivals, elections>>

\* Mutant: the cache leaves after the lock under which it was seen idle.
RefreshLeavesLate(r, c) ==
    /\ c \in run[r].todo
    /\ remove(c, [run EXCEPT ![r].todo = @ \ {c}])
    /\ UNCHANGED <<watchers, joining, leading, age, arrivals, elections>>

\* Mutant: a cache nobody watches is skipped and stays.
RefreshSkips(r, c) ==
    /\ c \in run[r].todo
    /\ watchers[c] = 0
    /\ run' = [run EXCEPT ![r].todo = @ \ {c}]
    /\ UNCHANGED <<watchers, joining, members, tick, cancel, leading, age,
                   arrivals, elections>>

\* refresh of a cache nobody watches: it leaves the group, under c.mu.
RefreshLeaves(r, c) ==
    /\ c \in run[r].todo
    /\ watchers[c] = 0
    /\ remove(c, [run EXCEPT ![r].todo = @ \ {c}])
    /\ UNCHANGED <<watchers, joining, leading, age, arrivals, elections>>

\* The round is over, and the next interval is what the group wants by now.
RoundEnds(r) ==
    /\ run[r].pc = "polling"
    /\ run[r].todo = {}
    /\ run' = [run EXCEPT ![r] =
           IF members = {} THEN Exited
           ELSE [@ EXCEPT !.pc = "waiting", !.tick = shortest(members)]]
    /\ UNCHANGED <<watchers, joining, members, tick, cancel, leading, age,
                   arrivals, elections>>

NotifiedRoundEnds(r) ==
    /\ run[r].pc = "notified"
    /\ run[r].todo = {}
    /\ run' = [run EXCEPT ![r].pc = "waiting"]
    /\ UNCHANGED <<watchers, joining, members, tick, cancel, leading, age,
                   arrivals, elections>>

Cancelled(r) ==
    /\ run[r].pc = "waiting"
    /\ run[r].cancelled
    /\ run' = [run EXCEPT ![r] = Exited]
    /\ UNCHANGED <<watchers, joining, members, tick, cancel, leading, age,
                   arrivals, elections>>

-----------------------------------------------------------------------------
RunStep(r) ==
    \/ TimerFires(r)
    \/ Notified(r)
    \/ \E c \in Caches : Refreshes(r, c) \/ RefreshLeaves(r, c)
    \/ RoundEnds(r)
    \/ NotifiedRoundEnds(r)
    \/ Cancelled(r)

Next ==
    \/ \E c \in Caches : Register(c) \/ Join(c) \/ Leave(c) \/ Drop(c) \/ Close(c)
    \/ Election
    \/ \E r \in Runs : RunStep(r)

Spec == Init /\ [][Next]_vars

\* Goroutines are scheduled, timers fire and polls return; a Watch call that has
\* registered goes on to join.  Watchers need not come, go or be dropped.
FairSpec ==
    /\ Spec
    /\ \A c \in Caches : WF_vars(Join(c))
    /\ \A r \in Runs :
        /\ WF_vars(RunStep(r))
        /\ SF_vars(Cancelled(r))

-----------------------------------------------------------------------------
(* Properties. *)

TypeOK ==
    /\ watchers \in [Caches -> 0..MaxWatchers]
    /\ joining \in [Caches -> 0..MaxArrivals]
    /\ members \subseteq Caches
    /\ tick \in 0..Longest
    /\ cancel \in Runs \cup {NoRun}
    /\ run \in [Runs -> [pc : {"exited", "waiting", "polling", "notified"},
                         cancelled : BOOLEAN, tick : 0..Longest, todo : SUBSET Caches]]
    /\ leading \in BOOLEAN
    /\ age \in [Caches -> 0..Longest]

\* A cache with watchers is polled by the group, or a Watch call is about to see
\* to it: no order of arriving, leaving, being dropped and an idle cache leaving
\* by itself loses it (watch.go, Watch, stop and refresh).
WatchedIsMember ==
    \A c \in Caches : watchers[c] > 0 => c \in members \/ joining[c] > 0

\* There is a timer exactly while there are members, and only one that is not
\* cancelled: the caches' polls stay together, and an idle projection costs
\* nothing (pollgroup.go, retimeLocked, remove and run).
OneTimer ==
    LET live == {r \in Runs : run[r].pc # "exited" /\ ~run[r].cancelled} IN
    live = IF members = {} THEN {} ELSE {cancel}

\* A poll of the cache that can succeed.
Polls(c) == \E r \in Runs : ~run[r].cancelled /\ Refreshes(r, c)

\* A cache that stays watched is polled over and over, once watchers stop coming
\* and going (pollgroup.go, run).
KeepsPolling ==
    \A c \in Caches : <>[](watchers[c] > 0) => []<><<Polls(c)>>_vars

\* A cache nobody watches any more leaves the group.
IdleLeaves ==
    \A c \in Caches :
        (c \in members /\ watchers[c] = 0) ~> (c \notin members \/ watchers[c] > 0)
=============================================================================
