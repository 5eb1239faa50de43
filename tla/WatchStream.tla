----------------------------- MODULE WatchStream -----------------------------
(***************************************************************************)
(* The streams of one watch cache (registry/projection/watch.go): how the  *)
(* events of its polls reach the watchers' connections.  A Watch call      *)
(* registers its watcher and later puts the initial events in front of     *)
(* what polls have queued meanwhile; a poll broadcasts without the cache's *)
(* lock; a goroutine per watcher moves events from the backlog to a        *)
(* channel; a watcher that falls behind is terminated.                     *)
(*                                                                         *)
(* What the events say is the subject of WatchCache.  Here the n-th event  *)
(* polls have produced is the change n, and the initial events of a        *)
(* watcher, if it is sent any, are equal ones.                             *)
(***************************************************************************)
EXTENDS Integers, Sequences, FiniteSets

CONSTANTS
    Watchers,              \* the watchers that can exist
    InitialLen,            \* how many initial events a watcher may be sent
    eventBuffer,           \* capacity of a watcher's channel
    maxPendingEvents,      \* limit of one watcher's backlog
    maxCachePendingEvents, \* limit of all backlogs together
    MaxChanges,            \* bound: events produced by polls
    MaxBookmarks           \* bound: bookmarks sent by polls

ASSUME LimitsAssumption ==
    {InitialLen, eventBuffer, maxPendingEvents, maxCachePendingEvents,
     MaxChanges, MaxBookmarks} \subseteq Nat

ASSUME WatchersAssumption == IsFiniteSet(Watchers)

VARIABLES
    registered, \* c.watchers
    mu,         \* what holds c.mu across several steps: a poll's bookmarks, Close
    applied,    \* how many changes polls have applied to the cache
    casting,    \* the broadcast in progress
    bookmarks,  \* how many bookmarks polls have sent
    pending,    \* c.pending, the backlog of all watchers
    stream      \* each watcher

vars == <<registered, mu, applied, casting, bookmarks, pending, stream>>

Event == [kind : {"initial", "change", "bookmark"}, n : Nat]
Initial == [kind |-> "initial", n |-> 0]
Change(n) == [kind |-> "change", n |-> n]
Bookmark(n) == [kind |-> "bookmark", n |-> n]

NoCast ==
    [events |-> <<>>,    \* the event being handed out, then the ones after it
     targets |-> {},     \* the watchers they are meant for
     round |-> {},       \* the ones not yet handed the first of the events
     behind |-> {},      \* the ones that have to leave
     bookmark |-> FALSE] \* a bookmark may follow
NewStream ==
    [pc |-> "new",       \* the Watch call, then the client's Stop
     lock |-> "free",    \* who holds w.mu across two steps
     at |-> 0,           \* changes applied when it registered
     initial |-> 0,      \* how many initial events it is to be sent
     overtaken |-> FALSE, \* history: events left the backlog before they came
     pending |-> <<>>, closed |-> FALSE,
     run |-> "idle",     \* the goroutine: idle, sending, exited
     held |-> <<>>,      \* the event it has taken and not sent
     result |-> <<>>,    \* the channel
     received |-> <<>>]

Init ==
    /\ registered = {}
    /\ mu = "free"
    /\ applied = 0
    /\ casting = NoCast
    /\ bookmarks = 0
    /\ pending = 0
    /\ stream = [w \in Watchers |-> NewStream]

-----------------------------------------------------------------------------
(* What the methods of a watcher do to it. *)

\* terminate: a second call does nothing.
terminate(s) == IF s.closed THEN s ELSE [s EXCEPT !.closed = TRUE, !.pending = <<>>]

\* Mutant: a terminated watcher keeps its share of the limit.
keepsItsShare(s) == 0

\* What terminate gives back to c.pending.
released(s) == IF s.closed THEN 0 ELSE Len(s.pending)

\* The check of enqueue.
enqueues(s) ==
    /\ ~s.closed
    /\ Len(s.pending) < maxPendingEvents
    /\ pending < maxCachePendingEvents

\* The check of prepend.
prepends(s) ==
    /\ ~s.closed
    /\ Len(s.pending) + s.initial <= maxPendingEvents
    /\ pending + s.initial <= maxCachePendingEvents

-----------------------------------------------------------------------------
(* A Watch call. *)

\* Under c.mu: the watcher is made, its goroutine started, the initial state
\* taken and the watcher registered.
Register(w) ==
    /\ stream[w].pc = "new"
    /\ mu = "free"
    /\ registered' = registered \cup {w}
    /\ \E n \in {0, InitialLen} :
           stream' = [stream EXCEPT ![w] = [@ EXCEPT
               !.pc = "registered", !.at = applied, !.initial = n]]
    /\ UNCHANGED <<mu, applied, casting, bookmarks, pending>>

\* prepend looks at the limits, c.pending among them, holding w.mu only ...
PrependChecks(w) ==
    /\ stream[w].pc = "registered"
    /\ stream[w].lock = "free"
    /\ stream[w].initial > 0
    /\ prepends(stream[w])
    /\ stream' = [stream EXCEPT ![w].lock = "prepend"]
    /\ UNCHANGED <<registered, mu, applied, casting, bookmarks, pending>>

\* Mutant: the initial events go behind what polls have queued.
PrependsBehind(w) ==
    /\ stream[w].lock = "prepend"
    /\ stream' = [stream EXCEPT ![w] = [@ EXCEPT
           !.pc = "served", !.lock = "free",
           !.overtaken = stream[w].result \o stream[w].held # <<>>,
           !.pending = stream[w].pending \o [i \in 1..stream[w].initial |-> Initial]]]
    /\ pending' = pending + stream[w].initial
    /\ UNCHANGED <<registered, mu, applied, casting, bookmarks>>

\* ... and then adds to both.  What the goroutine has taken by now, to its
\* channel or to send, the initial events no longer come before.
PrependAdds(w) ==
    /\ stream[w].lock = "prepend"
    /\ stream' = [stream EXCEPT ![w] = [@ EXCEPT
           !.pc = "served", !.lock = "free",
           !.overtaken = stream[w].result \o stream[w].held # <<>>,
           !.pending = [i \in 1..stream[w].initial |-> Initial] \o stream[w].pending]]
    /\ pending' = pending + stream[w].initial
    /\ UNCHANGED <<registered, mu, applied, casting, bookmarks>>

\* No initial events: prepend has nothing to do.
PrependNothing(w) ==
    /\ stream[w].pc = "registered"
    /\ stream[w].initial = 0
    /\ stream' = [stream EXCEPT ![w].pc = "served"]
    /\ UNCHANGED <<registered, mu, applied, casting, bookmarks, pending>>

\* The initial state could not be read, or does not fit: stop takes the watcher
\* out again ...
Refuse(w) ==
    /\ stream[w].pc = "registered"
    /\ stream[w].lock # "prepend"
    /\ mu = "free"
    /\ registered' = registered \ {w}
    /\ stream' = [stream EXCEPT ![w].pc = "stopping"]
    /\ UNCHANGED <<mu, applied, casting, bookmarks, pending>>

\* ... as it does when the client is done ...
Stop(w) ==
    /\ stream[w].pc = "served"
    /\ mu = "free"
    /\ registered' = registered \ {w}
    /\ stream' = [stream EXCEPT ![w].pc = "stopping"]
    /\ UNCHANGED <<mu, applied, casting, bookmarks, pending>>

\* ... and terminate follows, once it has w.mu.
StopTerminates(w) ==
    /\ stream[w].pc = "stopping"
    /\ stream[w].lock = "free"
    /\ pending' = pending - released(stream[w])
    /\ stream' = [stream EXCEPT ![w] = [terminate(@) EXCEPT !.pc = "stopped"]]
    /\ UNCHANGED <<registered, mu, applied, casting, bookmarks>>

-----------------------------------------------------------------------------
(* A poll. *)

\* applyLocked, under c.mu: new changes, and the watchers they are meant for.
PollApplies ==
    /\ casting = NoCast
    /\ mu = "free"
    /\ \E n \in 1..(MaxChanges - applied) :
        /\ applied' = applied + n
        /\ casting' = [NoCast EXCEPT
               !.events = [i \in 1..n |-> Change(applied + i)],
               !.targets = registered, !.round = registered, !.bookmark = TRUE]
    /\ UNCHANGED <<registered, mu, bookmarks, pending, stream>>

\* The loops of broadcast: an event goes to every target before the next does.
\* The order of the targets is that of a map, here any at every event.
handed(w) ==
    IF casting.round # {w}
    THEN [casting EXCEPT !.round = @ \ {w}]
    ELSE IF Len(casting.events) = 1
    THEN [casting EXCEPT !.events = <<>>, !.targets = {}, !.round = {}]
    ELSE [casting EXCEPT !.events = Tail(@), !.round = casting.targets]

\* The broadcast, or the bookmarks, come to a watcher whose w.mu is free.
Reached(w) ==
    /\ w \in casting.round
    /\ stream[w].lock = "free"
    /\ \A v \in Watchers : stream[v].lock # "enqueue"

\* enqueue looks at the limits, holding w.mu only ...
EnqueueChecks(w) ==
    /\ Reached(w)
    /\ enqueues(stream[w])
    /\ stream' = [stream EXCEPT ![w].lock = "enqueue"]
    /\ UNCHANGED <<registered, mu, applied, casting, bookmarks, pending>>

\* ... and then adds to both.
EnqueueAdds(w) ==
    /\ stream[w].lock = "enqueue"
    /\ stream' = [stream EXCEPT ![w] = [@ EXCEPT
           !.lock = "free", !.pending = Append(stream[w].pending, Head(casting.events))]]
    /\ pending' = pending + 1
    /\ casting' = handed(w)
    /\ UNCHANGED <<registered, mu, applied, bookmarks>>

\* Mutant: a watcher that has fallen behind misses the event and stays.
MissesEvent(w) ==
    /\ Reached(w)
    /\ ~enqueues(stream[w])
    /\ casting' = handed(w)
    /\ UNCHANGED <<registered, mu, applied, bookmarks, pending, stream>>

\* Mutant: a broadcast waits for a watcher that has fallen behind.
FallsBehindOnlyClosed(w) ==
    /\ Reached(w)
    /\ stream[w].closed
    /\ casting' = [handed(w) EXCEPT !.behind = @ \cup {w}]
    /\ UNCHANGED <<registered, mu, applied, bookmarks, pending, stream>>

\* A watcher that is closed or has fallen behind is terminated.
FallsBehind(w) ==
    /\ Reached(w)
    /\ ~enqueues(stream[w])
    /\ pending' = pending - released(stream[w])
    /\ stream' = [stream EXCEPT ![w] = terminate(@)]
    /\ casting' = [handed(w) EXCEPT !.behind = @ \cup {w}]
    /\ UNCHANGED <<registered, mu, applied, bookmarks>>

\* The ones that fell behind are taken out, under c.mu.
Unregister ==
    /\ casting.round = {}
    /\ casting.behind # {}
    /\ mu # "close"
    /\ registered' = registered \ casting.behind
    /\ casting' = [casting EXCEPT !.behind = {}]
    /\ UNCHANGED <<mu, applied, bookmarks, pending, stream>>

\* Mutant: the bookmark of a poll does not wait for its events.
EmitBookmarksEarly ==
    /\ casting.bookmark
    /\ mu = "free"
    /\ \A w \in Watchers : stream[w].lock # "enqueue"
    /\ casting.round = casting.targets
    /\ bookmarks < MaxBookmarks
    /\ bookmarks' = bookmarks + 1
    /\ casting' = [casting EXCEPT !.bookmark = FALSE,
                                  !.events = <<Bookmark(applied)>> \o @]
    /\ UNCHANGED <<registered, mu, applied, pending, stream>>

\* Then, under c.mu, the bookmark when one is due: everything applied has been
\* seen.  It is enqueued like any event, for the watchers that asked for it.
EmitBookmarks ==
    /\ casting.bookmark
    /\ casting.round = {}
    /\ casting.behind = {}
    /\ mu = "free"
    /\ bookmarks < MaxBookmarks
    /\ bookmarks' = bookmarks + 1
    /\ mu' = "poll"
    /\ \E asking \in SUBSET registered :
           casting' = [NoCast EXCEPT
               !.events = <<Bookmark(applied)>>, !.targets = asking, !.round = asking]
    /\ UNCHANGED <<registered, applied, pending, stream>>

\* The bookmark has been sent, or is not due.
PollEnds ==
    /\ casting # NoCast
    /\ casting.round = {}
    /\ casting.behind = {}
    /\ mu # "close"
    /\ mu' = "free"
    /\ casting' = NoCast
    /\ UNCHANGED <<registered, applied, bookmarks, pending, stream>>

-----------------------------------------------------------------------------
(* Close, which has c.mu while it terminates every watcher and takes it out. *)

CloseBegins ==
    /\ registered # {}
    /\ mu = "free"
    /\ mu' = "close"
    /\ UNCHANGED <<registered, applied, casting, bookmarks, pending, stream>>

CloseTerminates(w) ==
    /\ mu = "close"
    /\ w \in registered
    /\ stream[w].lock = "free"
    /\ pending' = pending - released(stream[w])
    /\ stream' = [stream EXCEPT ![w] = terminate(@)]
    /\ registered' = registered \ {w}
    /\ UNCHANGED <<mu, applied, casting, bookmarks>>

CloseEnds ==
    /\ mu = "close"
    /\ registered = {}
    /\ mu' = "free"
    /\ UNCHANGED <<registered, applied, casting, bookmarks, pending, stream>>

-----------------------------------------------------------------------------
(* The goroutine of a watcher, and its client. *)

RunTakes(w) ==
    /\ stream[w].pc # "new"
    /\ stream[w].run = "idle"
    /\ stream[w].lock = "free"
    /\ ~stream[w].closed
    /\ stream[w].pending # <<>>
    /\ stream' = [stream EXCEPT ![w] = [@ EXCEPT
           !.run = "sending", !.held = <<Head(stream[w].pending)>>,
           !.pending = Tail(stream[w].pending)]]
    /\ pending' = pending - 1
    /\ UNCHANGED <<registered, mu, applied, casting, bookmarks>>

\* Mutant: the handover does not stop at the channel's capacity.
RunSendsUnbounded(w) ==
    /\ stream[w].run = "sending"
    /\ stream' = [stream EXCEPT ![w] = [@ EXCEPT
           !.run = "idle", !.held = <<>>,
           !.result = stream[w].result \o stream[w].held]]
    /\ UNCHANGED <<registered, mu, applied, casting, bookmarks, pending>>

RunSends(w) ==
    /\ stream[w].run = "sending"
    /\ Len(stream[w].result) < eventBuffer
    /\ stream' = [stream EXCEPT ![w] = [@ EXCEPT
           !.run = "idle", !.held = <<>>,
           !.result = stream[w].result \o stream[w].held]]
    /\ UNCHANGED <<registered, mu, applied, casting, bookmarks, pending>>

\* Mutant: a goroutine sending to a client that does not read is not told.
RunExitsWhenIdle(w) ==
    /\ stream[w].closed
    /\ stream[w].run = "idle"
    /\ stream' = [stream EXCEPT ![w].run = "exited", ![w].held = <<>>]
    /\ UNCHANGED <<registered, mu, applied, casting, bookmarks, pending>>

\* Closed: the goroutine returns, dropping the event it holds, and closes the
\* channel.
RunExits(w) ==
    /\ stream[w].closed
    /\ stream[w].run # "exited"
    /\ stream' = [stream EXCEPT ![w].run = "exited", ![w].held = <<>>]
    /\ UNCHANGED <<registered, mu, applied, casting, bookmarks, pending>>

\* The client reads its channel once Watch has returned it.
Receive(w) ==
    /\ stream[w].pc = "served"
    /\ stream[w].result # <<>>
    /\ stream' = [stream EXCEPT ![w] = [@ EXCEPT
           !.received = Append(stream[w].received, Head(stream[w].result)),
           !.result = Tail(stream[w].result)]]
    /\ UNCHANGED <<registered, mu, applied, casting, bookmarks, pending>>

-----------------------------------------------------------------------------
PollStep ==
    \/ PollApplies
    \/ \E w \in Watchers : EnqueueChecks(w) \/ EnqueueAdds(w) \/ FallsBehind(w)
    \/ Unregister
    \/ EmitBookmarks
    \/ PollEnds

CloseStep == CloseBegins \/ CloseEnds \/ \E w \in Watchers : CloseTerminates(w)

WatchStep(w) ==
    \/ Register(w)
    \/ PrependChecks(w)
    \/ PrependAdds(w)
    \/ PrependNothing(w)
    \/ Refuse(w)
    \/ Stop(w)
    \/ StopTerminates(w)

RunStep(w) == RunTakes(w) \/ RunSends(w) \/ RunExits(w)

Next ==
    \/ PollStep
    \/ CloseStep
    \/ \E w \in Watchers : WatchStep(w) \/ RunStep(w) \/ Receive(w)

Spec == Init /\ [][Next]_vars

\* The goroutines are scheduled, w.mu is held only for a moment, and a Stop or a
\* Close that has begun ends.  Nothing says that the client reads.
FairSpec ==
    /\ Spec
    /\ WF_vars(PollStep)
    /\ WF_vars(CloseEnds)
    /\ \A w \in Watchers :
        /\ SF_vars(RunStep(w))
        /\ WF_vars(PrependAdds(w))
        /\ SF_vars(StopTerminates(w))
        /\ SF_vars(CloseTerminates(w))

-----------------------------------------------------------------------------
(* Properties. *)

Stream ==
    [pc : {"new", "registered", "served", "stopping", "stopped"},
     lock : {"free", "prepend", "enqueue"},
     at : 0..MaxChanges, initial : {0, InitialLen}, overtaken : BOOLEAN,
     pending : Seq(Event), closed : BOOLEAN,
     run : {"idle", "sending", "exited"},
     held : Seq(Event), result : Seq(Event), received : Seq(Event)]

Cast ==
    [events : Seq(Event), targets : SUBSET Watchers, round : SUBSET Watchers,
     behind : SUBSET Watchers, bookmark : BOOLEAN]

TypeOK ==
    /\ registered \subseteq Watchers
    /\ mu \in {"free", "poll", "close"}
    /\ applied \in 0..MaxChanges
    /\ casting \in Cast
    /\ bookmarks \in 0..MaxBookmarks
    /\ pending \in Int
    /\ stream \in [Watchers -> Stream]
    /\ \A w \in Watchers : Len(stream[w].result) <= eventBuffer

\* What the broadcast in progress has still to hand to a watcher.
Remaining(w) ==
    IF w \in casting.round THEN casting.events
    ELSE IF w \in casting.targets THEN Tail(casting.events)
    ELSE <<>>

\* What has left a watcher's backlog: the client has it, or the goroutine and
\* its channel.
Sent(w) == (stream[w].received \o stream[w].result) \o stream[w].held

\* Everything on its way to a watcher, in the order it will see it.
Inflight(w) == Sent(w) \o (stream[w].pending \o Remaining(w))

\* Each change is newer than whatever comes before it.
InOrder(events) ==
    \A i, j \in DOMAIN events :
        i < j /\ events[j].kind = "change" => events[i].n < events[j].n

\* A change, or a bookmark, comes after every earlier change since a watcher
\* registered, and nothing older is sent.
GapFree(events, at) ==
    \A i \in DOMAIN events :
        /\ events[i].kind = "change" => at < events[i].n
        /\ \A m \in (at + 1)..events[i].n :
               \E j \in DOMAIN events : j <= i /\ events[j] = Change(m)

\* The initial events are the first ones.
Led(events, initial) ==
    \A i \in DOMAIN events : events[i] = Initial <=> i <= initial

\* A watcher that has not been closed is sent every change applied since it
\* registered, once and in order, whichever way registration, broadcast, the
\* goroutine and Stop interleave: what it is not sent, it is disconnected for
\* (watch.go, broadcast: "a dropped event is invisible to the client").
NothingDropped ==
    \A w \in registered : ~stream[w].closed =>
        /\ InOrder(Inflight(w))
        /\ \A m \in (stream[w].at + 1)..applied :
               \E i \in DOMAIN Inflight(w) : Inflight(w)[i] = Change(m)

\* What a client receives is gap-free and in order however its stream ends: the
\* changes in the order they were made, and "the collection and then what
\* happened to it" (watch.go, prepend), so the version of its last event says
\* what it has seen.  Excepted from the latter are the watchers whose initial
\* events were overtaken: Watch registers a watcher before it prepends them, and
\* what the goroutine has taken in between stays ahead of them.
NoGapReceived ==
    \A w \in Watchers :
        /\ InOrder(stream[w].received \o stream[w].result)
        /\ GapFree(stream[w].received \o stream[w].result, stream[w].at)
        /\ ~stream[w].overtaken => Led(stream[w].received, stream[w].initial)

\* The events in the backlogs of the watchers.
Backlog == UNION {{w} \X (1..Len(stream[w].pending)) : w \in Watchers}

\* The counter the projection-wide limit reads is the backlog the watchers
\* really hold: a disconnect that gave back too little would refuse watchers
\* for ever (watch.go, terminate).
PendingAccounted == pending = Cardinality(Backlog)

\* A bookmark promises everything up to its version: the initial events of a
\* watcher that is served, and each change since it registered that the bookmark
\* covers, come before it, and no change it covers after it (watch.go, poll: "a
\* bookmark is a promise").  Of the initial events this excepts the watchers
\* whose initial events were overtaken.
BookmarkHonest ==
    \A w \in Watchers :
        LET events == Inflight(w) IN
        ~stream[w].closed => \A i \in DOMAIN events :
            events[i].kind = "bookmark" =>
                /\ stream[w].pc = "served" /\ ~stream[w].overtaken =>
                       /\ stream[w].initial < i
                       /\ \A j \in 1..stream[w].initial : events[j] = Initial
                /\ \A m \in (stream[w].at + 1)..events[i].n, j \in DOMAIN events :
                       /\ events[j] = Change(m) => j < i
                       /\ \E k \in DOMAIN events : k < i /\ events[k] = Change(m)

\* A broadcast ends although no client reads its channel: the slowest watcher
\* holds up neither the poll nor the other watchers (watch.go, cacheWatcher:
\* "blocking the cache on the slowest client").
BroadcastEnds == (casting # NoCast) ~> (casting = NoCast)

\* A closed watcher's channel is closed in the end, so its client, if it reads,
\* learns of it.
ClosedIsHeard ==
    \A w \in Watchers : stream[w].closed ~> stream[w].run = "exited"
=============================================================================
