-------------------------- MODULE PollGroupProofs --------------------------
(* Proofs about PollGroup for every set of caches, all intervals and any     *)
(* number of watchers, elections and goroutines.                             *)
EXTENDS PollGroup, FiniteSetTheorems, WellFoundedInduction, TLAPS

-----------------------------------------------------------------------------
(* Intervals. *)

\* A set of numbers that is not empty has a smallest one, and Min is it.
LEMMA MinIsMember ==
    ASSUME NEW S \in SUBSET Nat, S # {}
    PROVE  Min(S) \in S
<1> DEFINE below(n) == 0..n
           T == {below(n) : n \in S}
<1>1. T \subseteq FiniteSubsetsOf(Nat) /\ T # {}
    <2>1. \A n \in S : below(n) \subseteq Nat /\ IsFiniteSet(below(n))
        BY FS_Interval
    <2> QED BY <2>1 DEF FiniteSubsetsOf
<1>2. PICK low \in T : \A t \in T : ~(<<t, low>> \in StrictSubsetOrdering(Nat))
    BY <1>1, FS_StrictSubsetOrderingWellFounded, WFMin
<1>3. PICK m \in S : low = below(m)
    OBVIOUS
<1>4. ASSUME NEW n \in S PROVE m <= n
    <2>1. SUFFICES ASSUME n < m PROVE FALSE
        OBVIOUS
    <2>2. below(n) \subseteq low /\ below(n) # low
        BY <1>3, <2>1
    <2>3. <<below(n), low>> \in StrictSubsetOrdering(Nat)
        BY <1>1, <2>2 DEF StrictSubsetOrdering, FiniteSubsetsOf
    <2> QED BY <1>2, <2>3
<1> QED BY <1>4 DEF Min

LEMMA LongestBounds ==
    /\ Longest \in Nat \ {0}
    /\ \A c \in Caches : interval[c] \in 1..Longest /\ followerInterval[c] \in 1..Longest
<1>1. Intervals \subseteq Nat \ {0}
    BY IntervalAssumption DEF Intervals
<1>2. Longest \in Intervals /\ \A i \in Intervals : i <= Longest
    BY <1>1, IntervalAssumption DEF Longest, Max
<1>3. \A c \in Caches : interval[c] \in Intervals /\ followerInterval[c] \in Intervals
    BY DEF Intervals
<1>4. ASSUME NEW i \in Intervals PROVE i \in 1..Longest
    <2>1. i \in Nat /\ i # 0 /\ Longest \in Nat /\ i <= Longest
        BY <1>1, <1>2
    <2> QED BY <2>1
<1> QED BY <1>1, <1>2, <1>3, <1>4

\* The interval a group wants is one of its members', or 0 when it has none.
LEMMA ShortestBounds ==
    ASSUME NEW S \in SUBSET Caches
    PROVE  shortest(S) \in 0..Longest
<1> DEFINE T == {effectiveInterval(c) : c \in S}
<1>1. \A c \in S : effectiveInterval(c) \in 1..Longest
    BY LongestBounds DEF effectiveInterval
<1>2. T \in SUBSET Nat
    BY <1>1, LongestBounds
<1>3. CASE S = {}
    BY <1>3, LongestBounds DEF shortest
<1>4. CASE S # {}
    <2>1. T # {}
        BY <1>4
    <2>2. Min(T) \in T
        BY <1>2, <2>1, MinIsMember
    <2> QED BY <1>1, <1>4, <2>2, LongestBounds DEF shortest
<1> QED BY <1>3, <1>4

-----------------------------------------------------------------------------
(* The inductive invariant. *)

\* Watch calls that have not joined are among those that arrived.
ArrivalsCounted ==
    /\ arrivals \in 0..MaxArrivals
    /\ \A c \in Caches : joining[c] <= arrivals

\* The goroutine that cancel names is the group's timer and the only one not
\* cancelled; it is there while there are members.
TimerKept ==
    /\ cancel = NoRun <=> members = {}
    /\ cancel # NoRun => run[cancel].pc # "exited" /\ ~run[cancel].cancelled
    /\ \A r \in Runs : run[r].pc # "exited" /\ r # cancel => run[r].cancelled

GroupInv == TypeOK /\ ArrivalsCounted /\ WatchedIsMember /\ TimerKept

Goroutine == [pc : {"exited", "waiting", "polling", "notified"},
              cancelled : BOOLEAN, tick : 0..Longest, todo : SUBSET Caches]

\* What a caller of add and remove may have done to the goroutines before: it has
\* taken caches off their lists.
SameButTodo(runs) ==
    /\ runs \in [Runs -> Goroutine]
    /\ \A r \in Runs : runs[r].pc = run[r].pc /\ runs[r].cancelled = run[r].cancelled

LEMMA RunsAreNumbers == Runs \subseteq Nat \ {0} /\ NoRun \notin Runs
BY IntervalAssumption DEF Runs, NoRun

\* Cancelling the group's timer leaves none that is not cancelled.
LEMMA CancelledRuns ==
    ASSUME GroupInv, NEW runs, SameButTodo(runs)
    PROVE  /\ cancelled(runs) \in [Runs -> Goroutine]
           /\ \A q \in Runs : cancelled(runs)[q].pc = run[q].pc
           /\ \A q \in Runs : run[q].pc # "exited" => cancelled(runs)[q].cancelled
<1>1. cancel \in Runs \cup {NoRun}
    BY DEF GroupInv, TypeOK
<1>2. CASE cancel = NoRun
    BY <1>2, RunsAreNumbers DEF cancelled, SameButTodo, GroupInv, TimerKept
<1>3. CASE cancel \in Runs
    <2>1. cancelled(runs) = [runs EXCEPT ![cancel].cancelled = TRUE]
        BY <1>3, RunsAreNumbers DEF cancelled
    <2>2. cancelled(runs) \in [Runs -> Goroutine]
        BY <1>3, <2>1 DEF SameButTodo, Goroutine
    <2>3. ASSUME NEW q \in Runs
          PROVE  /\ cancelled(runs)[q].pc = run[q].pc
                 /\ run[q].pc # "exited" => cancelled(runs)[q].cancelled
        <3>1. CASE q = cancel
            BY <1>3, <2>1, <3>1 DEF SameButTodo, Goroutine
        <3>2. CASE q # cancel
            BY <1>3, <2>1, <3>2 DEF SameButTodo, GroupInv, TimerKept, Goroutine
        <3> QED BY <3>1, <3>2
    <2> QED BY <2>2, <2>3
<1> QED BY <1>1, <1>2, <1>3

\* A goroutine that goes on, or ends after it was cancelled, is none of the
\* group's business.
LEMMA TimerUndisturbed ==
    ASSUME GroupInv, UNCHANGED <<members, cancel>>,
           \A q \in Runs :
               \/ /\ run'[q].cancelled = run[q].cancelled
                  /\ (run'[q].pc = "exited") <=> (run[q].pc = "exited")
               \/ run'[q].pc = "exited" /\ q # cancel
    PROVE  TimerKept'
<1>1. cancel \in Runs \cup {NoRun}
    BY DEF GroupInv, TypeOK
<1> QED BY <1>1 DEF GroupInv, TimerKept

\* Replacing the timer for new members leaves the group with one timer.
LEMMA RetimeKeeps ==
    ASSUME GroupInv, NEW S \in SUBSET Caches, S # {}, NEW runs, SameButTodo(runs),
           members' = S, retimeLocked(S, runs)
    PROVE  /\ tick' \in 0..Longest
           /\ cancel' \in Runs \cup {NoRun}
           /\ run' \in [Runs -> Goroutine]
           /\ TimerKept'
<1>1. shortest(S) \in 0..Longest
    BY ShortestBounds
<1>2. CASE shortest(S) = tick /\ cancel # NoRun
    BY <1>2 DEF retimeLocked, SameButTodo, GroupInv, TypeOK, TimerKept
<1>3. CASE ~(shortest(S) = tick /\ cancel # NoRun)
    <2>1. PICK r \in Runs :
              /\ runs[r].pc = "exited"
              /\ run' = [cancelled(runs) EXCEPT ![r] =
                    [pc |-> "waiting", cancelled |-> FALSE, tick |-> shortest(S), todo |-> {}]]
              /\ tick' = shortest(S)
              /\ cancel' = r
        BY <1>3 DEF retimeLocked
    <2>2. /\ cancelled(runs) \in [Runs -> Goroutine]
          /\ \A q \in Runs : cancelled(runs)[q].pc = run[q].pc
          /\ \A q \in Runs : run[q].pc # "exited" => cancelled(runs)[q].cancelled
        BY CancelledRuns
    <2>3. [pc |-> "waiting", cancelled |-> FALSE, tick |-> shortest(S), todo |-> {}]
              \in Goroutine
        BY <1>1 DEF Goroutine
    <2>4. run' \in [Runs -> Goroutine]
        BY <2>1, <2>2, <2>3
    <2>5. TimerKept'
        BY <2>1, <2>2, RunsAreNumbers DEF TimerKept
    <2> QED BY <1>1, <2>1, <2>4, <2>5
<1> QED BY <1>2, <1>3

LEMMA AddKeeps ==
    ASSUME GroupInv, NEW c \in Caches, add(c)
    PROVE  /\ tick' \in 0..Longest
           /\ cancel' \in Runs \cup {NoRun}
           /\ run' \in [Runs -> Goroutine]
           /\ members' = members \cup {c}
           /\ TimerKept'
<1>1. members \cup {c} \in SUBSET Caches
    BY DEF GroupInv, TypeOK
<1>2. SameButTodo(run)
    BY DEF SameButTodo, GroupInv, TypeOK, Goroutine
<1> QED BY <1>1, <1>2, RetimeKeeps DEF add

LEMMA RemoveKeeps ==
    ASSUME GroupInv, NEW c \in Caches, NEW runs, SameButTodo(runs), remove(c, runs)
    PROVE  /\ tick' \in 0..Longest
           /\ cancel' \in Runs \cup {NoRun}
           /\ run' \in [Runs -> Goroutine]
           /\ members' = members \ {c}
           /\ TimerKept'
<1>1. members \ {c} \in SUBSET Caches
    BY DEF GroupInv, TypeOK
<1>2. CASE members \ {c} = {}
    <2>1. run' = cancelled(runs) /\ tick' = 0 /\ cancel' = NoRun /\ members' = {}
        BY <1>2 DEF remove
    <2>2. /\ cancelled(runs) \in [Runs -> Goroutine]
          /\ \A q \in Runs : cancelled(runs)[q].pc = run[q].pc
          /\ \A q \in Runs : run[q].pc # "exited" => cancelled(runs)[q].cancelled
        BY CancelledRuns
    <2> QED BY <1>2, <2>1, <2>2, LongestBounds DEF TimerKept, remove
<1>3. CASE members \ {c} # {}
    BY <1>1, <1>3, RetimeKeeps DEF remove
<1> QED BY <1>2, <1>3

LEMMA GroupInit == Init => GroupInv
<1> SUFFICES ASSUME Init PROVE GroupInv
    OBVIOUS
<1>1. TypeOK
    BY LongestBounds, IntervalAssumption DEF Init, TypeOK, Exited
<1> QED BY <1>1, IntervalAssumption
        DEF Init, GroupInv, ArrivalsCounted, WatchedIsMember, TimerKept, Exited

\* One step per action; what the group's lock protects is in AddKeeps and
\* RemoveKeeps.
LEMMA GroupStep == GroupInv /\ [Next]_vars => GroupInv'
<1> SUFFICES ASSUME GroupInv, [Next]_vars PROVE GroupInv'
    OBVIOUS
<1>0. /\ MaxArrivals \in Nat /\ MaxWatchers \in Nat
      /\ Longest \in Nat \ {0}
      /\ watchers \in [Caches -> Nat] /\ joining \in [Caches -> Nat]
    BY IntervalAssumption, LongestBounds DEF GroupInv, TypeOK
<1>1. ASSUME NEW c \in Caches, Register(c) PROVE GroupInv'
    <2>1. arrivals' \in 0..MaxArrivals /\ watchers' \in [Caches -> 0..MaxWatchers]
        BY <1>0, <1>1 DEF Register, GroupInv, TypeOK, ArrivalsCounted
    <2>2. /\ \A d \in Caches : joining'[d] \in Nat /\ joining'[d] <= arrivals'
          /\ joining' \in [Caches -> Nat]
        BY <1>0, <1>1 DEF Register, GroupInv, ArrivalsCounted
    <2>3. joining' \in [Caches -> 0..MaxArrivals]
        BY <1>0, <2>1, <2>2
    <2>4. WatchedIsMember'
        BY <1>0, <1>1 DEF Register, GroupInv, WatchedIsMember, group
    <2> QED BY <1>1, <2>1, <2>2, <2>3, <2>4
            DEF Register, GroupInv, TypeOK, ArrivalsCounted, TimerKept, group
<1>2. ASSUME NEW c \in Caches, Join(c) PROVE GroupInv'
    <2>1. /\ joining' \in [Caches -> 0..MaxArrivals]
          /\ \A d \in Caches : joining'[d] <= joining[d]
        BY <1>0, <1>2 DEF Join, GroupInv, TypeOK
    <2>2. ArrivalsCounted'
        BY <1>0, <1>2, <2>1 DEF Join, GroupInv, ArrivalsCounted
    <2>3. /\ tick' \in 0..Longest /\ cancel' \in Runs \cup {NoRun}
          /\ run' \in [Runs -> Goroutine] /\ members' = members \cup {c} /\ TimerKept'
        BY <1>2, AddKeeps DEF Join
    <2>4. WatchedIsMember'
        BY <1>0, <1>2, <2>3 DEF Join, GroupInv, WatchedIsMember
    <2> QED BY <1>2, <2>1, <2>2, <2>3, <2>4 DEF Join, GroupInv, TypeOK, Goroutine
<1>3. ASSUME NEW c \in Caches, Leave(c) PROVE GroupInv'
    <2>1. watchers' \in [Caches -> 0..MaxWatchers]
        BY <1>0, <1>3 DEF Leave, GroupInv, TypeOK
    <2>2. CASE watchers[c] = 1
        <3>1. SameButTodo(run)
            BY DEF SameButTodo, GroupInv, TypeOK, Goroutine
        <3>2. /\ tick' \in 0..Longest /\ cancel' \in Runs \cup {NoRun}
              /\ run' \in [Runs -> Goroutine] /\ members' = members \ {c} /\ TimerKept'
            BY <1>3, <2>2, <3>1, RemoveKeeps DEF Leave
        <3>3. WatchedIsMember'
            BY <1>0, <1>3, <2>2, <3>2 DEF Leave, GroupInv, WatchedIsMember
        <3> QED BY <1>3, <2>1, <3>2, <3>3
                DEF Leave, GroupInv, TypeOK, ArrivalsCounted, Goroutine
    <2>3. CASE watchers[c] # 1
        <3>1. WatchedIsMember'
            BY <1>0, <1>3, <2>3 DEF Leave, GroupInv, WatchedIsMember, group
        <3> QED BY <1>3, <2>1, <2>3, <3>1
                DEF Leave, GroupInv, TypeOK, ArrivalsCounted, TimerKept, group
    <2> QED BY <2>2, <2>3
<1>4. ASSUME NEW c \in Caches, Drop(c) PROVE GroupInv'
    <2>1. watchers' \in [Caches -> 0..MaxWatchers]
        BY <1>0, <1>4 DEF Drop, GroupInv, TypeOK
    <2>2. WatchedIsMember'
        BY <1>0, <1>4 DEF Drop, GroupInv, WatchedIsMember, group
    <2> QED BY <1>4, <2>1, <2>2 DEF Drop, GroupInv, TypeOK, ArrivalsCounted, TimerKept, group
<1>5. ASSUME NEW c \in Caches, Close(c) PROVE GroupInv'
    <2>1. watchers' \in [Caches -> 0..MaxWatchers]
        BY <1>0, <1>5 DEF Close, GroupInv, TypeOK
    <2>2. SameButTodo(run)
        BY DEF SameButTodo, GroupInv, TypeOK, Goroutine
    <2>3. /\ tick' \in 0..Longest /\ cancel' \in Runs \cup {NoRun}
          /\ run' \in [Runs -> Goroutine] /\ members' = members \ {c} /\ TimerKept'
        BY <1>5, <2>2, RemoveKeeps DEF Close
    <2>4. WatchedIsMember'
        BY <1>0, <1>5, <2>3 DEF Close, GroupInv, WatchedIsMember
    <2> QED BY <1>5, <2>1, <2>3, <2>4 DEF Close, GroupInv, TypeOK, ArrivalsCounted, Goroutine
<1>6. CASE Election
    BY <1>6 DEF Election, SetLeadership, GroupInv, TypeOK, ArrivalsCounted, WatchedIsMember,
                TimerKept, group
<1>7. ASSUME NEW r \in Runs, RunStep(r) PROVE GroupInv'
    <2>0. run \in [Runs -> Goroutine] /\ members \subseteq Caches
        BY DEF GroupInv, TypeOK, Goroutine
    <2>1. CASE TimerFires(r)
        <3>1. age' \in [Caches -> 0..Longest]
            <4>1. ASSUME NEW c \in Caches PROVE Min({Longest, age[c] + run[r].tick}) \in 0..Longest
                <5>1. age[c] \in Nat /\ run[r].tick \in Nat
                    BY <1>0, <2>0 DEF GroupInv, TypeOK, Goroutine
                <5>2. Min({Longest, age[c] + run[r].tick}) \in {Longest, age[c] + run[r].tick}
                    <6>1. {Longest, age[c] + run[r].tick} \in SUBSET Nat
                        BY <1>0, <5>1
                    <6> QED BY <6>1, MinIsMember
                <5>3. Min({Longest, age[c] + run[r].tick}) <= Longest
                    BY <1>0, <5>1 DEF Min
                <5> QED BY <1>0, <5>1, <5>2, <5>3
            <4> QED BY <2>1, <4>1 DEF TimerFires
        <3>2. PICK due1 \in SUBSET Caches :
                  run' = [run EXCEPT ![r].pc = "polling", ![r].todo = due1]
            BY <2>0, <2>1 DEF TimerFires
        <3>3. run' \in [Runs -> Goroutine]
            BY <2>0, <3>2 DEF Goroutine
        <3>4. TimerKept'
            <4>1. \A q \in Runs : /\ run'[q].cancelled = run[q].cancelled
                                  /\ (run'[q].pc = "exited") <=> (run[q].pc = "exited")
                BY <2>0, <2>1, <3>2 DEF TimerFires, Goroutine
            <4> QED BY <2>1, <4>1, TimerUndisturbed DEF TimerFires
        <3> QED BY <2>1, <3>1, <3>3, <3>4
                DEF TimerFires, GroupInv, TypeOK, ArrivalsCounted, WatchedIsMember, Goroutine
    <2>2. CASE Notified(r)
        <3>1. run' \in [Runs -> Goroutine]
            BY <2>0, <2>2 DEF Notified, Goroutine
        <3>2. TimerKept'
            <4>1. \A q \in Runs : /\ run'[q].cancelled = run[q].cancelled
                                  /\ (run'[q].pc = "exited") <=> (run[q].pc = "exited")
                BY <2>0, <2>2 DEF Notified, Goroutine
            <4> QED BY <2>2, <4>1, TimerUndisturbed DEF Notified
        <3> QED BY <2>2, <3>1, <3>2
                DEF Notified, GroupInv, TypeOK, ArrivalsCounted, WatchedIsMember, Goroutine
    <2>3. ASSUME NEW c \in Caches, Refreshes(r, c) PROVE GroupInv'
        <3>1. run' \in [Runs -> Goroutine] /\ age' \in [Caches -> 0..Longest]
            BY <1>0, <2>0, <2>3 DEF Refreshes, Goroutine, GroupInv, TypeOK
        <3>2. TimerKept'
            <4>1. \A q \in Runs : /\ run'[q].cancelled = run[q].cancelled
                                  /\ (run'[q].pc = "exited") <=> (run[q].pc = "exited")
                BY <2>0, <2>3 DEF Refreshes, Goroutine
            <4> QED BY <2>3, <4>1, TimerUndisturbed DEF Refreshes
        <3> QED BY <2>3, <3>1, <3>2
                DEF Refreshes, GroupInv, TypeOK, ArrivalsCounted, WatchedIsMember, Goroutine
    <2>4. ASSUME NEW c \in Caches, RefreshLeaves(r, c) PROVE GroupInv'
        <3>1. SameButTodo([run EXCEPT ![r].todo = @ \ {c}])
            BY <2>0 DEF SameButTodo, Goroutine
        <3>2. /\ tick' \in 0..Longest /\ cancel' \in Runs \cup {NoRun}
              /\ run' \in [Runs -> Goroutine] /\ members' = members \ {c} /\ TimerKept'
            BY <2>4, <3>1, RemoveKeeps DEF RefreshLeaves
        <3>3. WatchedIsMember'
            BY <1>0, <2>4, <3>2 DEF RefreshLeaves, GroupInv, WatchedIsMember
        <3> QED BY <2>4, <3>2, <3>3
                DEF RefreshLeaves, GroupInv, TypeOK, ArrivalsCounted, Goroutine
    <2>5. CASE RoundEnds(r)
        <3>1. shortest(members) \in 0..Longest
            BY <2>0, ShortestBounds
        <3>2. Exited \in Goroutine
            BY <1>0 DEF Exited, Goroutine
        <3>3. run' \in [Runs -> Goroutine]
            BY <2>0, <2>5, <3>1, <3>2 DEF RoundEnds, Goroutine
        <3>4. TimerKept'
            BY <2>0, <2>5, RunsAreNumbers, TimerUndisturbed
               DEF RoundEnds, GroupInv, TimerKept, Goroutine, Exited
        <3> QED BY <2>5, <3>3, <3>4
                DEF RoundEnds, GroupInv, TypeOK, ArrivalsCounted, WatchedIsMember, Goroutine
    <2>6. CASE NotifiedRoundEnds(r)
        <3>1. run' \in [Runs -> Goroutine]
            BY <2>0, <2>6 DEF NotifiedRoundEnds, Goroutine
        <3>2. TimerKept'
            <4>1. \A q \in Runs : /\ run'[q].cancelled = run[q].cancelled
                                  /\ (run'[q].pc = "exited") <=> (run[q].pc = "exited")
                BY <2>0, <2>6 DEF NotifiedRoundEnds, Goroutine
            <4> QED BY <2>6, <4>1, TimerUndisturbed DEF NotifiedRoundEnds
        <3> QED BY <2>6, <3>1, <3>2
                DEF NotifiedRoundEnds, GroupInv, TypeOK, ArrivalsCounted, WatchedIsMember,
                    Goroutine
    <2>7. CASE Cancelled(r)
        <3>1. run' \in [Runs -> Goroutine]
            BY <1>0, <2>0, <2>7 DEF Cancelled, Exited, Goroutine
        <3>2. TimerKept'
            BY <2>0, <2>7, RunsAreNumbers, TimerUndisturbed
               DEF Cancelled, Exited, GroupInv, TimerKept, Goroutine
        <3> QED BY <2>7, <3>1, <3>2
                DEF Cancelled, GroupInv, TypeOK, ArrivalsCounted, WatchedIsMember, Goroutine
    <2> QED BY <1>7, <2>1, <2>2, <2>3, <2>4, <2>5, <2>6, <2>7 DEF RunStep
<1>8. CASE UNCHANGED vars
    BY <1>8 DEF vars, GroupInv, TypeOK, ArrivalsCounted, WatchedIsMember, TimerKept
<1> QED BY <1>1, <1>2, <1>3, <1>4, <1>5, <1>6, <1>7, <1>8 DEF Next

\* The invariant of the group holds in every reachable state.
THEOREM GroupCorrect == Spec => []GroupInv
BY GroupInit, GroupStep, PTL DEF Spec

\* Every variable of the group keeps its type: no number of Watch calls joins more
\* caches than arrived, and every interval is one of the members'.
THEOREM TypeCorrect == Spec => []TypeOK
<1>1. GroupInv => TypeOK
    BY DEF GroupInv
<1> QED BY <1>1, GroupCorrect, PTL

\* A cache with watchers is a member, or a Watch call is about to make it one,
\* in whatever order callers come, leave, are dropped and closed.
THEOREM WatchedIsPolled == Spec => []WatchedIsMember
<1>1. GroupInv => WatchedIsMember
    BY DEF GroupInv
<1> QED BY <1>1, GroupCorrect, PTL

\* There is exactly one timer that is not cancelled while the group has members,
\* and none otherwise, however often it was replaced while polling.
THEOREM TimerIsSingle == Spec => []OneTimer
<1>1. ASSUME GroupInv PROVE OneTimer
    <2>1. cancel \in Runs \cup {NoRun}
        BY <1>1 DEF GroupInv, TypeOK
    <2>2. CASE members = {}
        BY <1>1, <2>2, RunsAreNumbers DEF GroupInv, TimerKept, OneTimer
    <2>3. CASE members # {}
        BY <1>1, <2>1, <2>3 DEF GroupInv, TimerKept, OneTimer
    <2> QED BY <2>2, <2>3
<1> QED BY <1>1, GroupCorrect, PTL
=============================================================================
