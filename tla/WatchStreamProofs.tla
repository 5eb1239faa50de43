-------------------------- MODULE WatchStreamProofs --------------------------
(***************************************************************************)
(* Proofs about WatchStream: an open watcher is sent every change, a       *)
(* client's events have no gap, bookmarks keep their promise and the       *)
(* shared backlog is accounted for, for any number of watchers, changes    *)
(* and limits.                                                             *)
(***************************************************************************)
EXTENDS WatchStream, SequenceTheorems, FiniteSetTheorems, TLAPS

(* Sequences of events. *)

\* The elements of a concatenation.
LEMMA Joined ==
    ASSUME NEW S, NEW s \in Seq(S), NEW t \in Seq(S)
    PROVE  /\ s \o t \in Seq(S)
           /\ DOMAIN s = 1..Len(s) /\ DOMAIN t = 1..Len(t)
           /\ DOMAIN (s \o t) = 1..(Len(s) + Len(t))
           /\ Len(s \o t) = Len(s) + Len(t)
           /\ Len(s) \in Nat /\ Len(t) \in Nat
           /\ \A i \in 1..Len(s) : (s \o t)[i] = s[i]
           /\ \A i \in 1..Len(t) : (s \o t)[Len(s) + i] = t[i]
<1>1. /\ Len(s) \in Nat /\ Len(t) \in Nat
      /\ DOMAIN s = 1..Len(s) /\ DOMAIN t = 1..Len(t)
    BY LenProperties
<1>2. /\ s \o t \in Seq(S) /\ Len(s \o t) = Len(s) + Len(t)
      /\ \A i \in 1..(Len(s) + Len(t)) :
             (s \o t)[i] = IF i <= Len(s) THEN s[i] ELSE t[i - Len(s)]
    BY ConcatProperties
<1>3. DOMAIN (s \o t) = 1..(Len(s) + Len(t))
    BY <1>2, LenProperties
<1>4. ASSUME NEW i \in 1..Len(t) PROVE (s \o t)[Len(s) + i] = t[i]
    <2>1. Len(s) + i \in 1..(Len(s) + Len(t)) /\ ~(Len(s) + i <= Len(s))
          /\ Len(s) + i - Len(s) = i
        BY <1>1
    <2> QED BY <1>2, <2>1
<1> QED BY <1>1, <1>2, <1>3, <1>4

\* What takes one event from the front of a queue and puts it at the end of the
\* one before it leaves their concatenation alone.
LEMMA HeadMoves ==
    ASSUME NEW S, NEW s \in Seq(S), NEW t \in Seq(S), t # <<>>
    PROVE  Append(s, Head(t)) \o Tail(t) = s \o t
<1>1. PICK u, v : u = Append(s, Head(t)) /\ v = Tail(t)
    OBVIOUS
<1>2. /\ Head(t) \in S /\ v \in Seq(S) /\ Len(v) = Len(t) - 1
      /\ Head(t) = t[1] /\ Len(t) \in Nat \ {0} /\ Len(s) \in Nat
      /\ \A i \in 1..(Len(t) - 1) : v[i] = t[i + 1]
    BY <1>1, HeadTailProperties, EmptySeq, LenProperties
<1>3. /\ u \in Seq(S) /\ Len(u) = Len(s) + 1
      /\ \A i \in 1..Len(s) : u[i] = s[i]
      /\ u[Len(s) + 1] = t[1]
    BY <1>1, <1>2, AppendProperties
<1>4. PICK p : p = u \o v
    OBVIOUS
<1>5. PICK q : q = s \o t
    OBVIOUS
<1>6. /\ p \in Seq(S) /\ Len(p) = Len(u) + Len(v)
      /\ \A i \in 1..Len(u) : p[i] = u[i]
      /\ \A i \in 1..Len(v) : p[Len(u) + i] = v[i]
    <2>1. u \in Seq(S) /\ v \in Seq(S)
        BY <1>2, <1>3
    <2> QED BY ONLY <1>4, <2>1, Joined
<1>7. /\ q \in Seq(S) /\ Len(q) = Len(s) + Len(t)
      /\ \A i \in 1..Len(s) : q[i] = s[i]
      /\ \A i \in 1..Len(t) : q[Len(s) + i] = t[i]
    BY <1>5, Joined
<1>8. ASSUME NEW i \in 1..(Len(s) + Len(t)) PROVE p[i] = q[i]
    <2>1. CASE i <= Len(s)
        BY <1>2, <1>3, <1>6, <1>7, <2>1
    <2>2. CASE i = Len(s) + 1
        BY <1>2, <1>3, <1>6, <1>7, <2>2
    <2>3. CASE i > Len(s) + 1
        <3>1. PICK k \in 1..(Len(t) - 1) : i = Len(u) + k
            <4>1. i - Len(u) \in 1..(Len(t) - 1) /\ i = Len(u) + (i - Len(u))
                BY <1>2, <1>3, <2>3
            <4> QED BY <4>1
        <3>2. p[i] = v[k] /\ v[k] = t[k + 1]
            BY <1>2, <1>6, <3>1
        <3>3. PICK h : h = k + 1
            OBVIOUS
        <3>4. h \in 1..Len(t) /\ i = Len(s) + h
            BY <1>2, <1>3, <3>1, <3>3
        <3>5. q[i] = t[h]
            BY <1>7, <3>4
        <3> QED BY <3>2, <3>3, <3>5
    <2> QED BY <1>2, <2>1, <2>2, <2>3
<1>9. Len(p) = Len(q)
    BY <1>2, <1>3, <1>6, <1>7
<1>10. p = q
    BY <1>6, <1>7, <1>8, <1>9, SeqEqual
<1> QED BY <1>1, <1>4, <1>5, <1>10

\* What every event of a sequence has, those of its beginning have.
Bounded(events, upto) == \A i \in DOMAIN events : events[i].n <= upto

Well(events, at, upto) ==
    InOrder(events) /\ GapFree(events, at) /\ Bounded(events, upto)

Complete(events, at, upto) ==
    \A m \in (at + 1)..upto : \E i \in DOMAIN events : events[i] = Change(m)

LEMMA WellPrefix ==
    ASSUME NEW s \in Seq(Event), NEW t \in Seq(Event), NEW at, NEW upto,
           Well(s \o t, at, upto)
    PROVE  Well(s, at, upto)
<1> DEFINE u == s \o t
<1>1. /\ DOMAIN s = 1..Len(s) /\ DOMAIN u = 1..(Len(s) + Len(t))
      /\ Len(s) \in Nat /\ Len(t) \in Nat
      /\ \A i \in 1..Len(s) : u[i] = s[i]
    BY Joined
<1>2. InOrder(u) /\ GapFree(u, at) /\ Bounded(u, upto)
    BY DEF Well
<1> HIDE DEF u
<1>3. InOrder(s)
    BY <1>1, <1>2 DEF InOrder
<1>4. Bounded(s, upto)
    BY <1>1, <1>2 DEF Bounded
<1>5. ASSUME NEW i \in DOMAIN s, NEW m \in (at + 1)..s[i].n
      PROVE  \E j \in DOMAIN s : j <= i /\ s[j] = Change(m)
    <2>1. PICK j \in DOMAIN u : j <= i /\ u[j] = Change(m)
        BY <1>1, <1>2, <1>5 DEF GapFree
    <2>2. j \in DOMAIN s
        BY <1>1, <2>1
    <2> QED BY <1>1, <2>1, <2>2
<1>6. GapFree(s, at)
    BY <1>1, <1>2, <1>5 DEF GapFree
<1> QED BY <1>3, <1>4, <1>6 DEF Well

LEMMA Elements ==
    ASSUME NEW s \in Seq(Event)
    PROVE  \A i \in DOMAIN s : s[i] \in Event /\ s[i].n \in Nat
<1>1. s \in [1..Len(s) -> Event] /\ DOMAIN s = 1..Len(s)
    BY LenProperties
<1> QED BY <1>1 DEF Event

\* Events about what came after what a watcher has been told of.
LEMMA WellExtended ==
    ASSUME NEW s \in Seq(Event), NEW t \in Seq(Event),
           NEW at \in Nat, NEW upto \in Nat, NEW top \in Nat,
           at <= upto, upto <= top,
           Well(s, at, upto), Complete(s, at, upto),
           Well(t, upto, top), Complete(t, upto, top)
    PROVE  Well(s \o t, at, top) /\ Complete(s \o t, at, top)
<1>1. PICK u : u = s \o t
    OBVIOUS
<1>2. /\ u \in Seq(Event)
      /\ DOMAIN s = 1..Len(s) /\ DOMAIN t = 1..Len(t)
      /\ DOMAIN u = 1..(Len(s) + Len(t))
      /\ Len(s) \in Nat /\ Len(t) \in Nat
      /\ \A i \in 1..Len(s) : u[i] = s[i]
      /\ \A i \in 1..Len(t) : u[Len(s) + i] = t[i]
    BY <1>1, Joined
<1>3. ASSUME NEW i \in DOMAIN u, i > Len(s)
      PROVE  \E k \in DOMAIN t : i = Len(s) + k
    <2>1. i - Len(s) \in DOMAIN t /\ i = Len(s) + (i - Len(s))
        BY <1>2, <1>3
    <2> QED BY <2>1
<1>4. /\ \A i \in DOMAIN s : s[i] \in Event /\ s[i].n \in Nat
      /\ \A i \in DOMAIN t : t[i] \in Event /\ t[i].n \in Nat
      /\ \A i \in DOMAIN u : u[i] \in Event /\ u[i].n \in Nat
    BY <1>2, Elements
<1>5. InOrder(u)
    <2> SUFFICES ASSUME NEW i \in DOMAIN u, NEW j \in DOMAIN u, i < j,
                        u[j].kind = "change"
                 PROVE  u[i].n < u[j].n
        BY DEF InOrder
    <2>1. CASE j <= Len(s)
        BY <1>2, <2>1, SMTT(40) DEF Well, InOrder
    <2>2. CASE i <= Len(s) /\ j > Len(s)
        <3>1. PICK k \in DOMAIN t : j = Len(s) + k
            BY <1>3, <2>2
        <3>2. i \in DOMAIN s /\ u[i] = s[i] /\ u[j] = t[k]
            BY <1>2, <2>2, <3>1
        <3>3. s[i].n <= upto /\ upto < t[k].n
            BY <3>2 DEF Well, Bounded, GapFree
        <3> QED BY <1>4, <3>2, <3>3
    <2>3. CASE i > Len(s)
        <3>1. PICK k \in DOMAIN t : i = Len(s) + k
            BY <1>3, <2>3
        <3>2. PICK l \in DOMAIN t : j = Len(s) + l
            BY <1>2, <1>3, <2>3
        <3>3. k < l /\ u[i] = t[k] /\ u[j] = t[l]
            BY <1>2, <3>1, <3>2
        <3> QED BY <3>3 DEF Well, InOrder
    <2> QED BY <1>2, <2>1, <2>2, <2>3
<1>6. ASSUME NEW m \in (at + 1)..upto
      PROVE  \E j \in DOMAIN u : j <= Len(s) /\ u[j] = Change(m)
    <2>1. PICK j \in DOMAIN s : s[j] = Change(m)
        BY DEF Complete
    <2> QED BY <1>2, <2>1
<1>7. GapFree(u, at)
    <2>1. ASSUME NEW i \in DOMAIN u
          PROVE  /\ u[i].kind = "change" => at < u[i].n
                 /\ \A m \in (at + 1)..u[i].n :
                        \E j \in DOMAIN u : j <= i /\ u[j] = Change(m)
        <3>1. CASE i <= Len(s)
            <4>1. i \in DOMAIN s /\ u[i] = s[i]
                BY <1>2, <3>1
            <4>2. u[i].kind = "change" => at < u[i].n
                BY <4>1 DEF Well, GapFree
            <4>3. ASSUME NEW m \in (at + 1)..u[i].n
                  PROVE  \E j \in DOMAIN u : j <= i /\ u[j] = Change(m)
                <5>1. PICK j \in DOMAIN s : j <= i /\ s[j] = Change(m)
                    BY <4>1 DEF Well, GapFree
                <5> QED BY <1>2, <5>1
            <4> QED BY <4>2, <4>3
        <3>2. CASE i > Len(s)
            <4>1. PICK k \in DOMAIN t : i = Len(s) + k
                BY <1>3, <3>2
            <4>2. u[i] = t[k]
                BY <1>2, <4>1
            <4>3. u[i].kind = "change" => at < u[i].n
                BY <1>4, <4>2 DEF Well, GapFree
            <4>4. ASSUME NEW m \in (at + 1)..u[i].n
                  PROVE  \E j \in DOMAIN u : j <= i /\ u[j] = Change(m)
                <5>1. CASE m <= upto
                    BY <1>2, <1>4, <1>6, <3>2, <5>1
                <5>2. CASE m > upto
                    <6>1. m \in (upto + 1)..t[k].n
                        BY <1>4, <4>2, <5>2
                    <6>2. PICK l \in DOMAIN t : l <= k /\ t[l] = Change(m)
                        BY <6>1 DEF Well, GapFree
                    <6>3. Len(s) + l \in DOMAIN u /\ Len(s) + l <= i
                        BY <1>2, <4>1, <6>2
                    <6>4. u[Len(s) + l] = Change(m)
                        BY <1>2, <6>2
                    <6> QED BY <6>3, <6>4
                <5> QED BY <1>4, <5>1, <5>2
            <4> QED BY <4>3, <4>4
        <3> QED BY <1>2, <3>1, <3>2
    <2> QED BY <2>1 DEF GapFree
<1>8. Bounded(u, top)
    <2>1. ASSUME NEW i \in DOMAIN u PROVE u[i].n <= top
        <3>1. CASE i <= Len(s)
            <4>1. i \in DOMAIN s /\ u[i] = s[i]
                BY <1>2, <3>1
            <4>2. s[i].n <= upto
                BY <4>1 DEF Well, Bounded
            <4> QED BY <1>4, <4>1, <4>2
        <3>2. CASE i > Len(s)
            <4>1. PICK k \in DOMAIN t : i = Len(s) + k
                BY <1>3, <3>2
            <4>2. u[i] = t[k] /\ t[k].n <= top
                BY <1>2, <4>1 DEF Well, Bounded
            <4> QED BY <4>2
        <3> QED BY <1>2, <3>1, <3>2
    <2> QED BY <2>1 DEF Bounded
<1>9. Complete(u, at, top)
    <2>1. ASSUME NEW m \in (at + 1)..top
          PROVE  \E j \in DOMAIN u : u[j] = Change(m)
        <3>1. CASE m <= upto
            BY <1>6, <3>1
        <3>2. CASE m > upto
            <4>1. PICK l \in DOMAIN t : t[l] = Change(m)
                BY <3>2 DEF Complete
            <4>2. Len(s) + l \in DOMAIN u /\ u[Len(s) + l] = Change(m)
                BY <1>2, <4>1
            <4> QED BY <4>2
        <3> QED BY <3>1, <3>2
    <2> QED BY <2>1 DEF Complete
<1> QED BY <1>1, <1>5, <1>7, <1>8, <1>9 DEF Well

\* The initial events in front of what is queued.
LEMMA WellInserted ==
    ASSUME NEW a \in Seq(Event), NEW b \in Seq(Event), NEW t \in Seq(Event),
           \A k \in DOMAIN t : t[k] = Initial,
           NEW at \in Nat, NEW upto \in Nat, Well(a \o b, at, upto)
    PROVE  /\ Well(a \o (t \o b), at, upto)
           /\ Complete(a \o b, at, upto) => Complete(a \o (t \o b), at, upto)
<1>1. PICK old, tb, new : old = a \o b /\ tb = t \o b /\ new = a \o tb
    OBVIOUS
<1>2. /\ tb \in Seq(Event) /\ DOMAIN t = 1..Len(t)
      /\ Len(tb) = Len(t) + Len(b)
      /\ Len(t) \in Nat /\ Len(b) \in Nat
      /\ \A i \in 1..Len(t) : tb[i] = t[i]
      /\ \A i \in 1..Len(b) : tb[Len(t) + i] = b[i]
    BY <1>1, Joined
<1>3. /\ old \in Seq(Event) /\ DOMAIN old = 1..(Len(a) + Len(b))
      /\ Len(a) \in Nat
      /\ \A i \in 1..Len(a) : old[i] = a[i]
      /\ \A i \in 1..Len(b) : old[Len(a) + i] = b[i]
    BY <1>1, Joined
<1>4. /\ new \in Seq(Event) /\ DOMAIN new = 1..(Len(a) + Len(tb))
      /\ \A i \in 1..Len(a) : new[i] = a[i]
      /\ \A i \in 1..Len(tb) : new[Len(a) + i] = tb[i]
    BY <1>1, <1>2, Joined
<1> DEFINE Middle(i) == Len(a) < i /\ i <= Len(a) + Len(t)
           Old(i) == IF i <= Len(a) THEN i ELSE i - Len(t)
           New(i) == IF i <= Len(a) THEN i ELSE i + Len(t)
<1>5. ASSUME NEW i \in DOMAIN new, Middle(i) PROVE new[i] = Initial
    <2>1. PICK k \in 1..Len(t) : i = Len(a) + k
        <3>1. i - Len(a) \in 1..Len(t) /\ i = Len(a) + (i - Len(a))
            BY <1>2, <1>3, <1>4, <1>5
        <3> QED BY <3>1
    <2>2. k \in 1..Len(tb) /\ tb[k] = t[k]
        BY <1>2, <2>1
    <2>3. t[k] = Initial
        BY <1>2, <2>1
    <2> QED BY <1>4, <2>1, <2>2, <2>3
<1>6. ASSUME NEW i \in DOMAIN new, ~Middle(i)
      PROVE  Old(i) \in DOMAIN old /\ new[i] = old[Old(i)] /\ New(Old(i)) = i
    <2>1. CASE i <= Len(a)
        BY <1>2, <1>3, <1>4, <2>1
    <2>2. CASE i > Len(a)
        <3>1. PICK k \in 1..Len(b) : i = Len(a) + (Len(t) + k)
            <4>1. /\ i - Len(a) - Len(t) \in 1..Len(b)
                  /\ i = Len(a) + (Len(t) + (i - Len(a) - Len(t)))
                BY <1>2, <1>3, <1>4, <1>6, <2>2, SMTT(40)
            <4> QED BY <4>1
        <3>2. PICK h : h = Len(t) + k
            OBVIOUS
        <3>3. h \in 1..Len(tb) /\ tb[h] = b[k] /\ i = Len(a) + h
            BY <1>2, <3>1, <3>2
        <3>4. new[i] = b[k]
            BY <1>4, <3>3
        <3>5. PICK g : g = Len(a) + k
            OBVIOUS
        <3>6. Old(i) = g /\ g \in DOMAIN old /\ old[g] = b[k] /\ New(g) = i
            BY <1>2, <1>3, <2>2, <3>1, <3>5
        <3> QED BY <3>4, <3>6
    <2> QED BY <1>3, <1>4, <2>1, <2>2
<1>7. ASSUME NEW j \in DOMAIN old
      PROVE  New(j) \in DOMAIN new /\ ~Middle(New(j)) /\ new[New(j)] = old[j]
    <2>1. New(j) \in DOMAIN new /\ ~Middle(New(j)) /\ Old(New(j)) = j
        <3>1. CASE j <= Len(a)
            BY <1>2, <1>3, <1>4, <3>1
        <3>2. CASE j > Len(a)
            <4>1. New(j) = j + Len(t) /\ j + Len(t) > Len(a) + Len(t)
                BY <1>2, <1>3, <3>2
            <4> QED BY <1>2, <1>3, <1>4, <3>2, <4>1
        <3> QED BY <1>3, <3>1, <3>2
    <2> HIDE DEF Middle, Old, New
    <2> QED BY <1>6, <2>1
<1>8. InOrder(old) /\ GapFree(old, at) /\ Bounded(old, upto)
    BY <1>1 DEF Well
<1>9. /\ \A i \in DOMAIN old : old[i].n \in Nat
      /\ \A i \in DOMAIN new : new[i].n \in Nat
    BY <1>3, <1>4, Elements
<1>10. /\ Initial.n = 0 /\ Initial.kind # "change"
    BY DEF Initial
<1>11. InOrder(new)
    <2> SUFFICES ASSUME NEW i \in DOMAIN new, NEW j \in DOMAIN new, i < j,
                        new[j].kind = "change"
                 PROVE  new[i].n < new[j].n
        BY DEF InOrder
    <2>1. ~Middle(j)
        BY <1>5, <1>10
    <2>2. Old(j) \in DOMAIN old /\ new[j] = old[Old(j)]
        BY <1>6, <2>1
    <2>3. CASE Middle(i)
        <3>1. new[i].n = 0
            BY <1>5, <1>10, <2>3
        <3>2. at < old[Old(j)].n
            BY <1>8, <2>2 DEF GapFree
        <3> QED BY <1>9, <2>2, <3>1, <3>2
    <2>4. CASE ~Middle(i)
        <3>1. Old(i) \in DOMAIN old /\ new[i] = old[Old(i)]
            BY <1>6, <2>4
        <3>2. Old(i) < Old(j)
            BY <1>2, <1>3, <1>4, <2>1, <2>4, SMTT(40)
        <3> QED BY <1>8, <2>2, <3>1, <3>2 DEF InOrder
    <2> QED BY <2>3, <2>4
<1>12. GapFree(new, at)
    <2>1. ASSUME NEW i \in DOMAIN new
          PROVE  /\ new[i].kind = "change" => at < new[i].n
                 /\ \A m \in (at + 1)..new[i].n :
                        \E j \in DOMAIN new : j <= i /\ new[j] = Change(m)
        <3>1. CASE Middle(i)
            <4>1. new[i].n = 0 /\ new[i].kind # "change"
                BY <1>5, <1>10, <3>1
            <4> QED BY <4>1
        <3>2. CASE ~Middle(i)
            <4>1. Old(i) \in DOMAIN old /\ new[i] = old[Old(i)] /\ New(Old(i)) = i
                BY <1>6, <3>2
            <4>2. new[i].kind = "change" => at < new[i].n
                BY <1>8, <4>1 DEF GapFree
            <4>3. ASSUME NEW m \in (at + 1)..new[i].n
                  PROVE  \E j \in DOMAIN new : j <= i /\ new[j] = Change(m)
                <5>1. PICK j \in DOMAIN old : j <= Old(i) /\ old[j] = Change(m)
                    BY <1>8, <4>1 DEF GapFree
                <5>2. New(j) \in DOMAIN new /\ new[New(j)] = Change(m)
                    BY <1>7, <5>1
                <5>3. New(j) <= i
                    BY <1>2, <1>3, <1>4, <3>2, <4>1, <5>1, SMTT(40)
                <5> QED BY <5>2, <5>3
            <4> QED BY <4>2, <4>3
        <3> QED BY <3>1, <3>2
    <2> QED BY <2>1 DEF GapFree
<1>13. Bounded(new, upto)
    <2>1. ASSUME NEW i \in DOMAIN new PROVE new[i].n <= upto
        <3>1. CASE Middle(i)
            BY <1>5, <1>10, <3>1
        <3>2. CASE ~Middle(i)
            <4>1. Old(i) \in DOMAIN old /\ new[i] = old[Old(i)]
                BY <1>6, <3>2
            <4> QED BY <1>8, <4>1 DEF Bounded
        <3> QED BY <3>1, <3>2
    <2> QED BY <2>1 DEF Bounded
<1>14. Complete(old, at, upto) => Complete(new, at, upto)
    <2> SUFFICES ASSUME Complete(old, at, upto), NEW m \in (at + 1)..upto
                 PROVE  \E i \in DOMAIN new : new[i] = Change(m)
        BY DEF Complete
    <2>1. PICK j \in DOMAIN old : old[j] = Change(m)
        BY DEF Complete
    <2>2. New(j) \in DOMAIN new /\ new[New(j)] = Change(m)
        BY <1>7, <2>1
    <2> QED BY <2>2
<1> QED BY <1>1, <1>11, <1>12, <1>13, <1>14 DEF Well

\* Events none of which is an initial one, and sequences that initial ones lead.
Plain(events) == \A i \in DOMAIN events : events[i] # Initial

LEMMA LedPrefix ==
    ASSUME NEW s \in Seq(Event), NEW t \in Seq(Event), NEW n
    PROVE  /\ Led(s \o t, n) => Led(s, n)
           /\ Plain(s \o t) => Plain(s)
<1> DEFINE u == s \o t
<1>1. /\ DOMAIN s = 1..Len(s) /\ DOMAIN u = 1..(Len(s) + Len(t))
      /\ Len(s) \in Nat /\ Len(t) \in Nat
      /\ \A i \in 1..Len(s) : u[i] = s[i]
    BY Joined
<1> HIDE DEF u
<1>2. \A i \in DOMAIN s : i \in DOMAIN u /\ u[i] = s[i]
    BY <1>1
<1>3. /\ Led(u, n) => Led(s, n)
      /\ Plain(u) => Plain(s)
    BY <1>2 DEF Led, Plain
<1> QED BY <1>3 DEF u

LEMMA PlainJoined ==
    ASSUME NEW s \in Seq(Event), NEW t \in Seq(Event), Plain(t)
    PROVE  /\ Plain(s) => Plain(s \o t)
           /\ \A n \in Nat : Led(s, n) /\ n <= Len(s) =>
                  Led(s \o t, n) /\ n <= Len(s \o t)
<1> DEFINE u == s \o t
<1>1. /\ DOMAIN s = 1..Len(s) /\ DOMAIN u = 1..(Len(s) + Len(t))
      /\ DOMAIN t = 1..Len(t) /\ Len(u) = Len(s) + Len(t)
      /\ Len(s) \in Nat /\ Len(t) \in Nat
      /\ \A i \in 1..Len(s) : u[i] = s[i]
      /\ \A i \in 1..Len(t) : u[Len(s) + i] = t[i]
    BY Joined
<1> HIDE DEF u
<1>2. ASSUME NEW i \in DOMAIN u, i > Len(s) PROVE u[i] # Initial
    <2>1. i - Len(s) \in 1..Len(t) /\ i = Len(s) + (i - Len(s))
        BY <1>1, <1>2
    <2>2. u[i] = t[i - Len(s)]
        BY <1>1, <2>1
    <2> QED BY <1>1, <2>1, <2>2 DEF Plain
<1>3. ASSUME NEW i \in DOMAIN u, ~(i > Len(s))
      PROVE  i \in DOMAIN s /\ u[i] = s[i]
    BY <1>1, <1>3
<1>4. Plain(s) => Plain(u)
    BY <1>2, <1>3 DEF Plain
<1>5. ASSUME NEW n \in Nat, Led(s, n), n <= Len(s)
      PROVE  Led(u, n) /\ n <= Len(u)
    <2>1. ASSUME NEW i \in DOMAIN u PROVE u[i] = Initial <=> i <= n
        <3>1. CASE i > Len(s)
            BY <1>1, <1>2, <1>5, <3>1
        <3>2. CASE ~(i > Len(s))
            BY <1>3, <1>5, <3>2 DEF Led
        <3> QED BY <3>1, <3>2
    <2> QED BY <1>1, <1>5, <2>1 DEF Led
<1> QED BY <1>4, <1>5 DEF u

\* The initial events in front of others.
LEMMA LedBegins ==
    ASSUME NEW n \in Nat, NEW first \in Seq(Event), Len(first) = n,
           \A k \in DOMAIN first : first[k] = Initial,
           NEW t \in Seq(Event), Plain(t)
    PROVE  Led(first \o t, n) /\ n <= Len(first \o t)
<1>1. DOMAIN first = 1..n
    BY LenProperties
<1>2. Led(first, n)
    BY <1>1 DEF Led
<1> QED BY <1>2, PlainJoined

-----------------------------------------------------------------------------
(* The inductive invariant. *)

\* Who holds w.mu across two steps: the broadcast that has come to the watcher,
\* or the Watch call that made it.  A watcher is not closed meanwhile.
Locks ==
    /\ \A w \in Watchers : stream[w].lock = "enqueue" =>
           w \in casting.round /\ ~stream[w].closed
    /\ \A v, w \in Watchers :
           stream[v].lock = "enqueue" /\ stream[w].lock = "enqueue" => v = w
    /\ \A w \in Watchers : stream[w].lock = "prepend" =>
           stream[w].pc = "registered" /\ stream[w].initial > 0 /\ ~stream[w].closed

\* A broadcast goes on while there is a watcher that has not been handed the
\* event, and an event.
Rounds ==
    /\ casting.round \subseteq casting.targets
    /\ casting.targets # {} => casting.round # {}
    /\ casting.round # {} => casting.events # <<>>

\* A watcher that does not exist yet has nothing and is meant by nobody.
Unborn(w) ==
    /\ w \notin registered
    /\ w \notin casting.targets
    /\ stream[w] = NewStream

\* The goroutine has an event in hand only while it sends it.
Holds(s) == Len(s.held) <= 1 /\ (s.run # "sending" => s.held = <<>>)

Queues ==
    \A w \in Watchers :
        /\ stream[w].pc = "new" => Unborn(w)
        /\ stream[w].closed => stream[w].pending = <<>>
        /\ Holds(stream[w])

\* Until the initial events are prepended, none is on its way and the client has
\* nothing.  From then on, unless they were overtaken, they come first, in what
\* the client has, what left the backlog and what is on its way.
Leading(s, sent, inflight) ==
    /\ s.pc = "registered" =>
           s.received = <<>> /\ Plain(sent) /\ (~s.closed => Plain(inflight))
    /\ ~s.overtaken => Led(s.received, s.initial)
    /\ s.pc = "served" /\ ~s.overtaken =>
           /\ Led(sent, s.initial)
           /\ ~s.closed => Led(inflight, s.initial) /\ s.initial <= Len(inflight)

\* What is on its way to an open watcher has no gap, and while it is registered
\* nothing is missing; of a closed one, this is left of what left its backlog.
Flows(w) ==
    /\ stream[w].at <= applied
    /\ stream[w].closed => Well(Sent(w), stream[w].at, applied)
    /\ ~stream[w].closed => Well(Inflight(w), stream[w].at, applied)
    /\ ~stream[w].closed /\ w \in registered =>
           Complete(Inflight(w), stream[w].at, applied)
    /\ Leading(stream[w], Sent(w), Inflight(w))

Flowing == \A w \in Watchers : Flows(w)

StreamInv == TypeOK /\ Locks /\ Rounds /\ Queues /\ Flowing

-----------------------------------------------------------------------------
(* What each action makes of its watcher. *)

Becomes(w, s) ==
    /\ stream' \in [Watchers -> Stream]
    /\ stream'[w] = s
    /\ \A v \in Watchers \ {w} : stream'[v] = stream[v]

\* No event moves and nothing is closed.
Unmoved(s, t) ==
    /\ s.at = t.at /\ s.initial = t.initial /\ s.overtaken = t.overtaken
    /\ s.closed = t.closed /\ s.run = t.run
    /\ s.pending = t.pending /\ s.held = t.held
    /\ s.result = t.result /\ s.received = t.received

LEMMA Becoming ==
    ASSUME TypeOK, NEW w \in Watchers, NEW s \in Stream,
           stream' = [stream EXCEPT ![w] = s]
    PROVE  Becomes(w, s)
BY DEF TypeOK, Becomes

\* The steps that only look, or say where a call is.
LEMMA PrependChecksDoes ==
    ASSUME TypeOK, NEW w \in Watchers, PrependChecks(w)
    PROVE  \E s \in Stream : Becomes(w, s)
               /\ Unmoved(s, stream[w]) /\ s.lock = "prepend" /\ s.pc = stream[w].pc
<1>1. PICK s : s = [stream[w] EXCEPT !.lock = "prepend"]
    OBVIOUS
<1>2. stream[w] \in Stream
    BY DEF TypeOK
<1>3. s \in Stream
    BY <1>1, <1>2 DEF Stream
<1>4. stream' = [stream EXCEPT ![w] = s]
    BY <1>1 DEF PrependChecks
<1>5. Becomes(w, s)
    BY <1>3, <1>4, Becoming
<1>6. /\ Unmoved(s, stream[w]) /\ s.lock = "prepend" /\ s.pc = stream[w].pc
    BY <1>1, <1>2 DEF Stream, Unmoved
<1> QED BY <1>3, <1>5, <1>6

LEMMA EnqueueChecksDoes ==
    ASSUME TypeOK, NEW w \in Watchers, EnqueueChecks(w)
    PROVE  \E s \in Stream : Becomes(w, s)
               /\ Unmoved(s, stream[w]) /\ s.lock = "enqueue" /\ s.pc = stream[w].pc
<1>1. PICK s : s = [stream[w] EXCEPT !.lock = "enqueue"]
    OBVIOUS
<1>2. stream[w] \in Stream
    BY DEF TypeOK
<1>3. s \in Stream
    BY <1>1, <1>2 DEF Stream
<1>4. stream' = [stream EXCEPT ![w] = s]
    BY <1>1 DEF EnqueueChecks
<1>5. Becomes(w, s)
    BY <1>3, <1>4, Becoming
<1>6. /\ Unmoved(s, stream[w]) /\ s.lock = "enqueue" /\ s.pc = stream[w].pc
    BY <1>1, <1>2 DEF Stream, Unmoved
<1> QED BY <1>3, <1>5, <1>6

LEMMA PrependNothingDoes ==
    ASSUME TypeOK, NEW w \in Watchers, PrependNothing(w)
    PROVE  \E s \in Stream : Becomes(w, s)
               /\ Unmoved(s, stream[w]) /\ s.lock = stream[w].lock /\ s.pc = "served"
<1>1. PICK s : s = [stream[w] EXCEPT !.pc = "served"]
    OBVIOUS
<1>2. stream[w] \in Stream
    BY DEF TypeOK
<1>3. s \in Stream
    BY <1>1, <1>2 DEF Stream
<1>4. stream' = [stream EXCEPT ![w] = s]
    BY <1>1 DEF PrependNothing
<1>5. Becomes(w, s)
    BY <1>3, <1>4, Becoming
<1>6. /\ Unmoved(s, stream[w]) /\ s.lock = stream[w].lock /\ s.pc = "served"
    BY <1>1, <1>2 DEF Stream, Unmoved
<1> QED BY <1>3, <1>5, <1>6

LEMMA LeavesDoes ==
    ASSUME TypeOK, NEW w \in Watchers, Refuse(w) \/ Stop(w)
    PROVE  \E s \in Stream : Becomes(w, s)
               /\ Unmoved(s, stream[w]) /\ s.lock = stream[w].lock /\ s.pc = "stopping"
<1>1. PICK s : s = [stream[w] EXCEPT !.pc = "stopping"]
    OBVIOUS
<1>2. stream[w] \in Stream
    BY DEF TypeOK
<1>3. s \in Stream
    BY <1>1, <1>2 DEF Stream
<1>4. stream' = [stream EXCEPT ![w] = s]
    BY <1>1 DEF Refuse, Stop
<1>5. Becomes(w, s)
    BY <1>3, <1>4, Becoming
<1>6. /\ Unmoved(s, stream[w]) /\ s.lock = stream[w].lock /\ s.pc = "stopping"
    BY <1>1, <1>2 DEF Stream, Unmoved
<1> QED BY <1>3, <1>5, <1>6

\* terminate, from wherever it is called: it gives back what was queued.
LEMMA TerminateDoes ==
    ASSUME TypeOK, Queues, NEW w \in Watchers
    PROVE  /\ terminate(stream[w]) \in Stream
           /\ terminate(stream[w]).closed = TRUE
           /\ terminate(stream[w]).pending = <<>>
           /\ terminate(stream[w]).pc = stream[w].pc
           /\ terminate(stream[w]).lock = stream[w].lock
           /\ terminate(stream[w]).at = stream[w].at
           /\ terminate(stream[w]).initial = stream[w].initial
           /\ terminate(stream[w]).overtaken = stream[w].overtaken
           /\ terminate(stream[w]).run = stream[w].run
           /\ terminate(stream[w]).held = stream[w].held
           /\ terminate(stream[w]).result = stream[w].result
           /\ terminate(stream[w]).received = stream[w].received
           /\ released(stream[w]) = Len(stream[w].pending)
<1>1. PICK t : t = stream[w]
    OBVIOUS
<1>2. t \in Stream
    BY <1>1 DEF TypeOK
<1>3. CASE t.closed = TRUE
    <2>1. t.pending = <<>> /\ Len(t.pending) = 0
        BY <1>1, <1>3 DEF Queues
    <2>2. terminate(t) = t /\ released(t) = 0
        BY <1>3 DEF terminate, released
    <2> QED BY <1>1, <1>2, <1>3, <2>1, <2>2
<1>4. CASE t.closed = FALSE
    <2>1. PICK s : s = [t EXCEPT !.closed = TRUE, !.pending = <<>>]
        OBVIOUS
    <2>2. terminate(t) = s /\ released(t) = Len(t.pending)
        BY <1>4, <2>1 DEF terminate, released
    <2>3. <<>> \in Seq(Event)
        OBVIOUS
    <2>4. /\ s \in Stream /\ s.closed = TRUE /\ s.pending = <<>>
          /\ s.pc = t.pc /\ s.lock = t.lock /\ s.at = t.at /\ s.run = t.run
          /\ s.initial = t.initial /\ s.overtaken = t.overtaken
          /\ s.held = t.held /\ s.result = t.result /\ s.received = t.received
        BY <1>2, <2>1, <2>3 DEF Stream
    <2> QED BY <1>1, <2>2, <2>4
<1>5. t.closed \in BOOLEAN
    BY <1>2 DEF Stream
<1> QED BY <1>3, <1>4, <1>5

Terminating(w) == StopTerminates(w) \/ FallsBehind(w) \/ CloseTerminates(w)

LEMMA TerminatingDoes ==
    ASSUME TypeOK, Queues, NEW w \in Watchers, Terminating(w)
    PROVE  /\ pending' = pending - Len(stream[w].pending)
           /\ stream[w].lock = "free"
           /\ \E s \in Stream : Becomes(w, s)
               /\ s.closed = TRUE /\ s.pending = <<>>
               /\ s.lock = stream[w].lock /\ s.at = stream[w].at
               /\ s.initial = stream[w].initial /\ s.overtaken = stream[w].overtaken
               /\ s.run = stream[w].run /\ s.held = stream[w].held
               /\ s.result = stream[w].result /\ s.received = stream[w].received
               /\ s.pc \in {stream[w].pc, "stopped"}
<1>1. PICK t : t = terminate(stream[w])
    OBVIOUS
<1>2. /\ t \in Stream /\ t.closed = TRUE /\ t.pending = <<>>
      /\ t.pc = stream[w].pc /\ t.lock = stream[w].lock /\ t.at = stream[w].at
      /\ t.initial = stream[w].initial /\ t.overtaken = stream[w].overtaken
      /\ t.run = stream[w].run /\ t.held = stream[w].held
      /\ t.result = stream[w].result /\ t.received = stream[w].received
      /\ released(stream[w]) = Len(stream[w].pending)
    BY <1>1, TerminateDoes
<1>3. /\ pending' = pending - Len(stream[w].pending)
      /\ stream[w].lock = "free"
    BY <1>2 DEF Terminating, StopTerminates, FallsBehind, CloseTerminates, Reached
<1>4. CASE StopTerminates(w)
    <2>1. PICK s : s = [t EXCEPT !.pc = "stopped"]
        OBVIOUS
    <2>2. /\ s \in Stream /\ s.closed = TRUE /\ s.pending = <<>>
          /\ s.pc = "stopped" /\ s.lock = t.lock /\ s.at = t.at
          /\ s.initial = t.initial /\ s.overtaken = t.overtaken
          /\ s.run = t.run /\ s.held = t.held
          /\ s.result = t.result /\ s.received = t.received
        BY <1>2, <2>1 DEF Stream
    <2>3. stream' = [stream EXCEPT ![w] = s]
        BY <1>1, <1>4, <2>1 DEF StopTerminates
    <2>4. Becomes(w, s)
        BY <2>2, <2>3, Becoming
    <2> QED BY <1>2, <1>3, <2>2, <2>4
<1>5. CASE FallsBehind(w) \/ CloseTerminates(w)
    <2>1. stream' = [stream EXCEPT ![w] = t]
        BY <1>1, <1>5 DEF FallsBehind, CloseTerminates
    <2>2. Becomes(w, t)
        BY <1>2, <2>1, Becoming
    <2> QED BY <1>2, <1>3, <2>2
<1> QED BY <1>4, <1>5 DEF Terminating

\* The initial events.
LEMMA Initials ==
    ASSUME NEW t \in Stream
    PROVE  /\ t.initial \in Nat
           /\ [i \in 1..t.initial |-> Initial] \in Seq(Event)
           /\ Len([i \in 1..t.initial |-> Initial]) = t.initial
           /\ \A k \in DOMAIN [i \in 1..t.initial |-> Initial] :
                  [i \in 1..t.initial |-> Initial][k] = Initial
<1>1. t.initial \in Nat
    BY LimitsAssumption DEF Stream
<1>2. Initial \in Event
    BY DEF Initial, Event
<1> QED BY <1>1, <1>2

LEMMA RegisterDoes ==
    ASSUME TypeOK, NEW w \in Watchers, Register(w)
    PROVE  \E s \in Stream : Becomes(w, s)
               /\ s.pc = "registered" /\ s.at = applied /\ s.lock = stream[w].lock
               /\ s.overtaken = stream[w].overtaken
               /\ s.closed = stream[w].closed /\ s.run = stream[w].run
               /\ s.pending = stream[w].pending /\ s.held = stream[w].held
               /\ s.result = stream[w].result /\ s.received = stream[w].received
<1>0. PICK n \in {0, InitialLen} :
          stream' = [stream EXCEPT ![w] = [@ EXCEPT
              !.pc = "registered", !.at = applied, !.initial = n]]
    BY DEF Register
<1>1. PICK s : s = [stream[w] EXCEPT !.pc = "registered", !.at = applied, !.initial = n]
    OBVIOUS
<1>2. stream[w] \in Stream
    BY DEF TypeOK
<1>3. s \in Stream
    BY <1>1, <1>2, LimitsAssumption DEF Stream, TypeOK
<1>4. stream' = [stream EXCEPT ![w] = s]
    BY <1>0, <1>1
<1>5. Becomes(w, s)
    BY <1>3, <1>4, Becoming
<1>6. /\ s.pc = "registered" /\ s.at = applied /\ s.lock = stream[w].lock
      /\ s.overtaken = stream[w].overtaken
      /\ s.closed = stream[w].closed /\ s.run = stream[w].run
      /\ s.pending = stream[w].pending /\ s.held = stream[w].held
      /\ s.result = stream[w].result /\ s.received = stream[w].received
    BY <1>1, <1>2 DEF Stream, Unmoved
<1> QED BY <1>3, <1>5, <1>6

\* The steps that move events.
LEMMA PrependAddsDoes ==
    ASSUME TypeOK, NEW w \in Watchers, PrependAdds(w)
    PROVE  \E s \in Stream : Becomes(w, s)
               /\ s.pc = "served" /\ s.lock = "free"
               /\ s.initial = stream[w].initial
               /\ s.overtaken = (stream[w].result \o stream[w].held # <<>>)
               /\ s.at = stream[w].at /\ s.closed = stream[w].closed /\ s.run = stream[w].run
               /\ s.pending = [i \in 1..stream[w].initial |-> Initial] \o stream[w].pending
               /\ s.held = stream[w].held
               /\ s.result = stream[w].result /\ s.received = stream[w].received
<1>1. PICK s : s = [stream[w] EXCEPT !.pc = "served", !.lock = "free",
                  !.overtaken = stream[w].result \o stream[w].held # <<>>,
                  !.pending = [i \in 1..stream[w].initial |-> Initial] \o @]
    OBVIOUS
<1>2. stream[w] \in Stream
    BY DEF TypeOK
<1>3. /\ [i \in 1..stream[w].initial |-> Initial] \in Seq(Event)
      /\ [i \in 1..stream[w].initial |-> Initial] \o stream[w].pending \in Seq(Event)
    BY <1>2, Initials, ConcatProperties DEF Stream
<1>4. s \in Stream
    BY <1>1, <1>2, <1>3 DEF Stream
<1>5. stream' = [stream EXCEPT ![w] = s]
    BY <1>1 DEF PrependAdds
<1>6. Becomes(w, s)
    BY <1>4, <1>5, Becoming
<1>7. /\ s.pc = "served" /\ s.lock = "free"
      /\ s.initial = stream[w].initial
      /\ s.overtaken = (stream[w].result \o stream[w].held # <<>>)
      /\ s.at = stream[w].at /\ s.closed = stream[w].closed /\ s.run = stream[w].run
      /\ s.pending = [i \in 1..stream[w].initial |-> Initial] \o stream[w].pending
      /\ s.held = stream[w].held
      /\ s.result = stream[w].result /\ s.received = stream[w].received
    BY <1>1, <1>2 DEF Stream, Unmoved
<1> QED BY <1>4, <1>6, <1>7

LEMMA EnqueueAddsDoes ==
    ASSUME TypeOK, NEW w \in Watchers, EnqueueAdds(w), casting.events # <<>>
    PROVE  \E s \in Stream : Becomes(w, s)
               /\ s.pc = stream[w].pc /\ s.lock = "free"
               /\ s.initial = stream[w].initial /\ s.overtaken = stream[w].overtaken
               /\ s.at = stream[w].at /\ s.closed = stream[w].closed /\ s.run = stream[w].run
               /\ s.pending = Append(stream[w].pending, Head(casting.events))
               /\ s.held = stream[w].held
               /\ s.result = stream[w].result /\ s.received = stream[w].received
<1>1. PICK s : s = [stream[w] EXCEPT
                  !.lock = "free", !.pending = Append(@, Head(casting.events))]
    OBVIOUS
<1>2. stream[w] \in Stream
    BY DEF TypeOK
<1>3. Append(stream[w].pending, Head(casting.events)) \in Seq(Event)
    BY <1>2, HeadTailProperties, AppendProperties DEF TypeOK, Cast, Stream
<1>4. s \in Stream
    BY <1>1, <1>2, <1>3 DEF Stream
<1>5. stream' = [stream EXCEPT ![w] = s]
    BY <1>1 DEF EnqueueAdds
<1>6. Becomes(w, s)
    BY <1>4, <1>5, Becoming
<1>7. /\ s.pc = stream[w].pc /\ s.lock = "free"
      /\ s.initial = stream[w].initial /\ s.overtaken = stream[w].overtaken
      /\ s.at = stream[w].at /\ s.closed = stream[w].closed /\ s.run = stream[w].run
      /\ s.pending = Append(stream[w].pending, Head(casting.events))
      /\ s.held = stream[w].held
      /\ s.result = stream[w].result /\ s.received = stream[w].received
    BY <1>1, <1>2 DEF Stream, Unmoved
<1> QED BY <1>4, <1>6, <1>7

LEMMA RunTakesDoes ==
    ASSUME TypeOK, NEW w \in Watchers, RunTakes(w)
    PROVE  \E s \in Stream : Becomes(w, s)
               /\ s.pc = stream[w].pc /\ s.lock = stream[w].lock
               /\ s.initial = stream[w].initial /\ s.overtaken = stream[w].overtaken
               /\ s.at = stream[w].at /\ s.closed = stream[w].closed
               /\ s.run = "sending" /\ s.held = <<Head(stream[w].pending)>>
               /\ s.pending = Tail(stream[w].pending)
               /\ s.result = stream[w].result /\ s.received = stream[w].received
<1>1. PICK s : s = [stream[w] EXCEPT !.run = "sending",
                  !.held = <<Head(stream[w].pending)>>, !.pending = Tail(@)]
    OBVIOUS
<1>2. stream[w] \in Stream
    BY DEF TypeOK
<1>3. /\ Tail(stream[w].pending) \in Seq(Event) /\ Head(stream[w].pending) \in Event
      /\ <<Head(stream[w].pending)>> \in Seq(Event)
    BY <1>2, HeadTailProperties DEF RunTakes, Stream
<1>4. s \in Stream
    BY <1>1, <1>2, <1>3 DEF Stream
<1>5. stream' = [stream EXCEPT ![w] = s]
    BY <1>1 DEF RunTakes
<1>6. Becomes(w, s)
    BY <1>4, <1>5, Becoming
<1>7. /\ s.pc = stream[w].pc /\ s.lock = stream[w].lock
      /\ s.initial = stream[w].initial /\ s.overtaken = stream[w].overtaken
      /\ s.at = stream[w].at /\ s.closed = stream[w].closed
      /\ s.run = "sending" /\ s.held = <<Head(stream[w].pending)>>
      /\ s.pending = Tail(stream[w].pending)
      /\ s.result = stream[w].result /\ s.received = stream[w].received
    BY <1>1, <1>2 DEF Stream, Unmoved
<1> QED BY <1>4, <1>6, <1>7

LEMMA RunSendsDoes ==
    ASSUME TypeOK, NEW w \in Watchers, RunSends(w)
    PROVE  \E s \in Stream : Becomes(w, s)
               /\ s.pc = stream[w].pc /\ s.lock = stream[w].lock
               /\ s.initial = stream[w].initial /\ s.overtaken = stream[w].overtaken
               /\ s.at = stream[w].at /\ s.closed = stream[w].closed
               /\ s.run = "idle" /\ s.held = <<>> /\ s.pending = stream[w].pending
               /\ s.result = stream[w].result \o stream[w].held
               /\ s.received = stream[w].received
<1>1. PICK s : s = [stream[w] EXCEPT !.run = "idle", !.held = <<>>,
                  !.result = @ \o stream[w].held]
    OBVIOUS
<1>2. stream[w] \in Stream
    BY DEF TypeOK
<1>3. stream[w].result \o stream[w].held \in Seq(Event) /\ <<>> \in Seq(Event)
    BY <1>2, ConcatProperties DEF Stream
<1>4. s \in Stream
    BY <1>1, <1>2, <1>3 DEF Stream
<1>5. stream' = [stream EXCEPT ![w] = s]
    BY <1>1 DEF RunSends
<1>6. Becomes(w, s)
    BY <1>4, <1>5, Becoming
<1>7. /\ s.pc = stream[w].pc /\ s.lock = stream[w].lock
      /\ s.initial = stream[w].initial /\ s.overtaken = stream[w].overtaken
      /\ s.at = stream[w].at /\ s.closed = stream[w].closed
      /\ s.run = "idle" /\ s.held = <<>> /\ s.pending = stream[w].pending
      /\ s.result = stream[w].result \o stream[w].held
      /\ s.received = stream[w].received
    BY <1>1, <1>2 DEF Stream, Unmoved
<1> QED BY <1>4, <1>6, <1>7

LEMMA RunExitsDoes ==
    ASSUME TypeOK, NEW w \in Watchers, RunExits(w)
    PROVE  \E s \in Stream : Becomes(w, s)
               /\ s.pc = stream[w].pc /\ s.lock = stream[w].lock
               /\ s.initial = stream[w].initial /\ s.overtaken = stream[w].overtaken
               /\ s.at = stream[w].at /\ s.closed = stream[w].closed
               /\ s.run = "exited" /\ s.held = <<>> /\ s.pending = stream[w].pending
               /\ s.result = stream[w].result /\ s.received = stream[w].received
<1>1. PICK s : s = [stream[w] EXCEPT !.run = "exited", !.held = <<>>]
    OBVIOUS
<1>2. stream[w] \in Stream
    BY DEF TypeOK
<1>3. <<>> \in Seq(Event)
    OBVIOUS
<1>4. s \in Stream
    BY <1>1, <1>2, <1>3 DEF Stream
<1>5. stream' = [stream EXCEPT ![w] = s]
    BY <1>1 DEF RunExits
<1>6. Becomes(w, s)
    BY <1>4, <1>5, Becoming
<1>7. /\ s.pc = stream[w].pc /\ s.lock = stream[w].lock
      /\ s.initial = stream[w].initial /\ s.overtaken = stream[w].overtaken
      /\ s.at = stream[w].at /\ s.closed = stream[w].closed
      /\ s.run = "exited" /\ s.held = <<>> /\ s.pending = stream[w].pending
      /\ s.result = stream[w].result /\ s.received = stream[w].received
    BY <1>1, <1>2 DEF Stream, Unmoved
<1> QED BY <1>4, <1>6, <1>7

LEMMA ReceiveDoes ==
    ASSUME TypeOK, NEW w \in Watchers, Receive(w)
    PROVE  \E s \in Stream : Becomes(w, s)
               /\ s.pc = stream[w].pc /\ s.lock = stream[w].lock
               /\ s.initial = stream[w].initial /\ s.overtaken = stream[w].overtaken
               /\ s.at = stream[w].at /\ s.closed = stream[w].closed /\ s.run = stream[w].run
               /\ s.pending = stream[w].pending /\ s.held = stream[w].held
               /\ s.result = Tail(stream[w].result)
               /\ s.received = Append(stream[w].received, Head(stream[w].result))
<1>1. PICK s : s = [stream[w] EXCEPT
                  !.received = Append(@, Head(stream[w].result)), !.result = Tail(@)]
    OBVIOUS
<1>2. stream[w] \in Stream
    BY DEF TypeOK
<1>3. /\ Tail(stream[w].result) \in Seq(Event)
      /\ Append(stream[w].received, Head(stream[w].result)) \in Seq(Event)
    BY <1>2, HeadTailProperties, AppendProperties DEF Receive, Stream
<1>4. s \in Stream
    BY <1>1, <1>2, <1>3 DEF Stream
<1>5. stream' = [stream EXCEPT ![w] = s]
    BY <1>1 DEF Receive
<1>6. Becomes(w, s)
    BY <1>4, <1>5, Becoming
<1>7. /\ s.pc = stream[w].pc /\ s.lock = stream[w].lock
      /\ s.initial = stream[w].initial /\ s.overtaken = stream[w].overtaken
      /\ s.at = stream[w].at /\ s.closed = stream[w].closed /\ s.run = stream[w].run
      /\ s.pending = stream[w].pending /\ s.held = stream[w].held
      /\ s.result = Tail(stream[w].result)
      /\ s.received = Append(stream[w].received, Head(stream[w].result))
    BY <1>1, <1>2 DEF Stream, Unmoved
<1> QED BY <1>4, <1>6, <1>7

-----------------------------------------------------------------------------
(* What is on its way to a watcher s when a broadcast has rest to hand it. *)

Passed(s) == (s.received \o s.result) \o s.held

Path(s, rest) == Passed(s) \o (s.pending \o rest)

Flow(s, rest, known, upto) ==
    /\ s.at <= upto
    /\ s.closed => Well(Passed(s), s.at, upto)
    /\ ~s.closed => Well(Path(s, rest), s.at, upto)
    /\ ~s.closed /\ known => Complete(Path(s, rest), s.at, upto)
    /\ Leading(s, Passed(s), Path(s, rest))

LEMMA FlowsIsFlow ==
    /\ \A w : Flows(w) <=> Flow(stream[w], Remaining(w), w \in registered, applied)
    /\ \A w : Flows(w)' <=>
           Flow(stream'[w], Remaining(w)', w \in registered', applied')
BY DEF Flows, Flow, Sent, Inflight, Passed, Path

LEMMA Lanes ==
    ASSUME NEW s \in Stream, NEW rest \in Seq(Event)
    PROVE  /\ s.received \in Seq(Event) /\ s.result \in Seq(Event)
           /\ s.held \in Seq(Event) /\ s.pending \in Seq(Event)
           /\ s.received \o s.result \in Seq(Event)
           /\ s.pending \o rest \in Seq(Event)
           /\ Passed(s) \in Seq(Event) /\ Path(s, rest) \in Seq(Event)
           /\ s.at \in Nat /\ s.closed \in BOOLEAN
<1>1. /\ s.received \in Seq(Event) /\ s.result \in Seq(Event)
      /\ s.held \in Seq(Event) /\ s.pending \in Seq(Event)
      /\ s.at \in Nat /\ s.closed \in BOOLEAN
    BY LimitsAssumption DEF Stream
<1>2. s.received \o s.result \in Seq(Event) /\ s.pending \o rest \in Seq(Event)
    BY <1>1, ConcatProperties
<1>3. Passed(s) \in Seq(Event)
    BY <1>1, <1>2, ConcatProperties DEF Passed
<1>4. Path(s, rest) \in Seq(Event)
    BY <1>2, <1>3, ConcatProperties DEF Path
<1> QED BY <1>1, <1>2, <1>3, <1>4

LEMMA Regroup ==
    \A a, b, c \in Seq(Event) : (a \o b) \o c = a \o (b \o c)
BY ConcatAssociative

\* Nothing moves; a watcher may be taken out.
LEMMA FlowStays ==
    ASSUME NEW s \in Stream, NEW t \in Stream, Unmoved(t, s),
           \/ t.pc \in {s.pc, "stopping"}
           \/ s.pc = "registered" /\ t.pc = "served" /\ s.initial = 0,
           NEW rest \in Seq(Event),
           NEW known, NEW knownAfter, knownAfter => known, NEW upto,
           Flow(s, rest, known, upto)
    PROVE  Flow(t, rest, knownAfter, upto)
<1>1. Passed(t) = Passed(s) /\ Path(t, rest) = Path(s, rest)
    BY DEF Unmoved, Path, Passed
<1>2. CASE t.pc \in {s.pc, "stopping"}
    BY <1>1, <1>2 DEF Flow, Unmoved, Leading
<1>3. CASE s.pc = "registered" /\ t.pc = "served" /\ s.initial = 0
    <2>1. ASSUME NEW p \in Seq(Event), Plain(p) PROVE Led(p, 0) /\ 0 <= Len(p)
        <3>1. DOMAIN p = 1..Len(p) /\ Len(p) \in Nat
            BY LenProperties
        <3> QED BY <2>1, <3>1 DEF Plain, Led
    <2>2. Passed(s) \in Seq(Event) /\ Path(s, rest) \in Seq(Event)
        BY Lanes
    <2>3. Leading(t, Passed(t), Path(t, rest))
        BY <1>1, <1>3, <2>1, <2>2 DEF Flow, Unmoved, Leading
    <2> QED BY <1>1, <2>3 DEF Flow, Unmoved
<1> QED BY <1>2, <1>3

\* The client reads.
LEMMA FlowReceives ==
    ASSUME NEW s \in Stream, NEW t \in Stream, s.result # <<>>,
           t.received = Append(s.received, Head(s.result)),
           t.result = Tail(s.result), t.held = s.held, t.pending = s.pending,
           t.at = s.at, t.closed = s.closed,
           s.pc = "served", t.initial = s.initial, t.overtaken = s.overtaken, t.pc = s.pc,
           NEW rest, NEW known, NEW upto, Flow(s, rest, known, upto)
    PROVE  Flow(t, rest, known, upto)
<1>1. s.received \in Seq(Event) /\ s.result \in Seq(Event)
    BY DEF Stream
<1>2. t.received \o t.result = s.received \o s.result
    BY <1>1, HeadMoves
<1>3. Passed(t) = Passed(s) /\ Path(t, rest) = Path(s, rest)
    BY <1>2 DEF Passed, Path
<1>4. /\ t.received \in Seq(Event) /\ t.result \in Seq(Event) /\ t.held \in Seq(Event)
      /\ t.received \o t.result \in Seq(Event)
    BY Lanes, EmptySeq
<1>5. Led(Passed(t), s.initial) => Led(t.received, s.initial)
    BY <1>4, LedPrefix DEF Passed
<1>6. Leading(t, Passed(t), Path(t, rest))
    BY <1>3, <1>5 DEF Flow, Leading
<1> QED BY <1>3, <1>6 DEF Flow

\* The goroutine hands an event to the channel.
LEMMA FlowSends ==
    ASSUME NEW s \in Stream, NEW t \in Stream,
           t.result = s.result \o s.held, t.held = <<>>,
           t.received = s.received, t.pending = s.pending,
           t.at = s.at, t.closed = s.closed,
           t.initial = s.initial, t.overtaken = s.overtaken, t.pc = s.pc,
           NEW rest, NEW known, NEW upto, Flow(s, rest, known, upto)
    PROVE  Flow(t, rest, known, upto)
<1>1. /\ s.received \in Seq(Event) /\ s.result \in Seq(Event)
      /\ s.held \in Seq(Event)
    BY DEF Stream
<1>2. s.received \o (s.result \o s.held) \in Seq(Event)
    BY <1>1, ConcatProperties
<1>3. Passed(t) = s.received \o (s.result \o s.held)
    BY <1>2, ConcatEmptySeq DEF Passed
<1>4. (s.received \o s.result) \o s.held = s.received \o (s.result \o s.held)
    BY ONLY <1>1, Regroup, Zenon
<1>5. Passed(t) = Passed(s)
    BY <1>3, <1>4 DEF Passed
<1>6. Path(t, rest) = Path(s, rest)
    BY <1>5 DEF Path
<1>7. Leading(t, Passed(t), Path(t, rest))
    BY <1>5, <1>6 DEF Flow, Leading
<1> QED BY <1>5, <1>6, <1>7 DEF Flow

\* The goroutine takes an event.
LEMMA FlowTakes ==
    ASSUME NEW s \in Stream, NEW t \in Stream,
           s.held = <<>>, s.closed = FALSE, s.pending # <<>>,
           t.held = <<Head(s.pending)>>, t.pending = Tail(s.pending),
           t.result = s.result, t.received = s.received,
           t.at = s.at, t.closed = s.closed,
           t.initial = s.initial, t.overtaken = s.overtaken, t.pc = s.pc,
           NEW rest \in Seq(Event), NEW known, NEW upto,
           Flow(s, rest, known, upto)
    PROVE  Flow(t, rest, known, upto)
<1>1. PICK a, d, h : a = s.received \o s.result /\ d = s.pending /\ h = Append(a, Head(d))
    OBVIOUS
<1>2. a \in Seq(Event) /\ d \in Seq(Event) /\ d # <<>>
    BY <1>1, Lanes
<1>3. Head(d) \in Event /\ Tail(d) \in Seq(Event) /\ h \in Seq(Event)
    BY <1>1, <1>2, HeadTailProperties, AppendProperties
<1>4. h = a \o <<Head(d)>>
    BY <1>1, <1>2, <1>3, AppendIsConcat
<1>5. Path(t, rest) = h \o (Tail(d) \o rest)
    BY <1>1, <1>4 DEF Path, Passed
<1>6. h \o (Tail(d) \o rest) = (h \o Tail(d)) \o rest
    BY <1>3, ConcatAssociative, SMTT(40)
<1>7. h \o Tail(d) = a \o d
    BY <1>1, <1>2, HeadMoves
<1>8. (a \o d) \o rest = a \o (d \o rest)
    BY <1>2, ConcatAssociative, SMTT(40)
<1>9. Path(s, rest) = a \o (d \o rest)
    BY <1>1, <1>2, ConcatEmptySeq DEF Path, Passed
<1>10. Path(t, rest) = Path(s, rest)
    BY <1>5, <1>6, <1>7, <1>8, <1>9
<1>11. /\ Led(Path(t, rest), s.initial) => Led(Passed(t), s.initial)
       /\ Plain(Path(t, rest)) => Plain(Passed(t))
    <2>1. Passed(t) \in Seq(Event) /\ t.pending \o rest \in Seq(Event)
        BY Lanes
    <2> QED BY <2>1, LedPrefix DEF Path
<1>12. Leading(t, Passed(t), Path(t, rest))
    BY <1>10, <1>11 DEF Flow, Leading
<1> QED BY <1>10, <1>12 DEF Flow

\* A poll adds to the backlog what it has come to.
LEMMA FlowEnqueues ==
    ASSUME NEW s \in Stream, NEW t \in Stream, s.closed = FALSE,
           NEW rest \in Seq(Event), rest # <<>>,
           t.pending = Append(s.pending, Head(rest)),
           t.held = s.held, t.result = s.result, t.received = s.received,
           t.at = s.at, t.closed = s.closed,
           t.initial = s.initial, t.overtaken = s.overtaken, t.pc = s.pc,
           NEW known, NEW upto, Flow(s, rest, known, upto)
    PROVE  Flow(t, Tail(rest), known, upto)
<1>1. s.pending \in Seq(Event)
    BY DEF Stream
<1>2. t.pending \o Tail(rest) = s.pending \o rest
    BY <1>1, HeadMoves
<1>3. Path(t, Tail(rest)) = Path(s, rest)
    BY <1>2 DEF Path, Passed
<1>4. Passed(t) = Passed(s)
    BY DEF Passed
<1>5. Leading(t, Passed(t), Path(t, Tail(rest)))
    BY <1>3, <1>4 DEF Flow, Leading
<1> QED BY <1>3, <1>5 DEF Flow

\* A closed watcher drops what it holds.
LEMMA FlowExits ==
    ASSUME NEW s \in Stream, NEW t \in Stream, s.closed = TRUE,
           t.held = <<>>, t.result = s.result, t.received = s.received,
           t.at = s.at, t.closed = s.closed,
           t.initial = s.initial, t.overtaken = s.overtaken, t.pc = s.pc,
           NEW rest, NEW known, NEW upto, Flow(s, rest, known, upto)
    PROVE  Flow(t, rest, known, upto)
<1>1. s.received \o s.result \in Seq(Event) /\ s.held \in Seq(Event)
    BY Lanes, EmptySeq
<1>2. Well(s.received \o s.result, s.at, upto)
    BY <1>1, WellPrefix DEF Flow, Passed
<1>3. Passed(t) = s.received \o s.result
    BY <1>1, ConcatEmptySeq DEF Passed
<1>4. /\ Led(Passed(s), s.initial) => Led(Passed(t), s.initial)
      /\ Plain(Passed(s)) => Plain(Passed(t))
    BY <1>1, <1>3, LedPrefix DEF Passed
<1>5. Leading(t, Passed(t), Path(t, rest))
    BY <1>4 DEF Flow, Leading
<1> QED BY <1>2, <1>3, <1>5 DEF Flow

\* A watcher is closed, whatever was still to come to it.
LEMMA FlowTerminates ==
    ASSUME NEW s \in Stream, NEW t \in Stream, t.closed = TRUE,
           t.held = s.held, t.result = s.result, t.received = s.received,
           t.at = s.at, t.initial = s.initial, t.overtaken = s.overtaken,
           t.pc \in {s.pc, "stopped"}, NEW rest \in Seq(Event), NEW after,
           NEW known, NEW knownAfter, NEW upto, Flow(s, rest, known, upto)
    PROVE  Flow(t, after, knownAfter, upto)
<1>1. /\ Passed(s) \in Seq(Event) /\ s.pending \o rest \in Seq(Event)
      /\ s.closed \in BOOLEAN
    BY Lanes
<1>2. Well(Passed(s), s.at, upto)
    <2>1. CASE s.closed = TRUE
        BY <2>1 DEF Flow
    <2>2. CASE s.closed = FALSE
        BY <1>1, <2>2, WellPrefix DEF Flow, Path
    <2> QED BY <1>1, <2>1, <2>2
<1>3. Passed(t) = Passed(s)
    BY DEF Passed
<1>4. Leading(t, Passed(t), Path(t, after))
    BY <1>3 DEF Flow, Leading
<1> QED BY <1>2, <1>3, <1>4 DEF Flow

\* The initial events go in front of what is queued.
LEMMA FlowPrepends ==
    ASSUME NEW s \in Stream, NEW t \in Stream, s.closed = FALSE,
           NEW first \in Seq(Event), Len(first) = s.initial,
           \A k \in DOMAIN first : first[k] = Initial,
           t.pending = first \o s.pending,
           t.held = s.held, t.result = s.result, t.received = s.received,
           t.at = s.at, t.closed = s.closed, t.initial = s.initial,
           t.overtaken = (s.result \o s.held # <<>>),
           s.pc = "registered", t.pc = "served",
           NEW rest \in Seq(Event), NEW known, NEW upto \in Nat,
           Flow(s, rest, known, upto)
    PROVE  Flow(t, rest, known, upto)
<1>1. PICK a, b : a = Passed(s) /\ b = s.pending \o rest
    OBVIOUS
<1>2. /\ a \in Seq(Event) /\ b \in Seq(Event) /\ s.pending \in Seq(Event)
      /\ s.at \in Nat
    BY <1>1, Lanes
<1>3. t.pending \o rest = first \o b
    <2>1. (first \o s.pending) \o rest = first \o (s.pending \o rest)
        BY <1>2, Regroup, Zenon
    <2> QED BY <1>1, <2>1
<1>4. Path(s, rest) = a \o b /\ Path(t, rest) = a \o (first \o b)
    BY <1>1, <1>3 DEF Path, Passed
<1>5. Well(a \o b, s.at, upto)
    BY <1>4 DEF Flow
<1>6. /\ Well(a \o (first \o b), s.at, upto)
      /\ Complete(a \o b, s.at, upto) => Complete(a \o (first \o b), s.at, upto)
    BY <1>2, <1>5, WellInserted
<1>7. ASSUME ~t.overtaken
      PROVE  Passed(t) = <<>> /\ Path(t, rest) = first \o b /\ t.received = <<>>
    <2>1. s.result \in Seq(Event) /\ s.held \in Seq(Event) /\ s.received = <<>>
        BY Lanes DEF Flow, Leading
    <2>2. s.result = <<>> /\ s.held = <<>>
        <3>1. Len(s.result \o s.held) = Len(s.result) + Len(s.held)
              /\ Len(s.result) \in Nat /\ Len(s.held) \in Nat
            BY <2>1, Joined
        <3>2. s.result \o s.held = <<>> /\ Len(<<>>) = 0
            BY <1>7
        <3>3. Len(s.result) = 0 /\ Len(s.held) = 0
            BY <3>1, <3>2
        <3> QED BY <2>1, <3>3, EmptySeq
    <2>3. <<>> \o <<>> = <<>>
        BY EmptySeq, ConcatEmptySeq
    <2>4. a = <<>> /\ Passed(t) = <<>>
        BY <1>1, <2>1, <2>2, <2>3 DEF Passed
    <2>5. first \o b \in Seq(Event)
        BY <1>2, ConcatProperties
    <2> QED BY <1>4, <2>1, <2>4, <2>5, ConcatEmptySeq
<1>8. s.initial \in Nat
    BY Initials
<1>9. Plain(b)
    <2>1. DOMAIN b = 1..Len(b) /\ DOMAIN (a \o b) = 1..(Len(a) + Len(b))
          /\ Len(a) \in Nat /\ Len(b) \in Nat
          /\ \A i \in 1..Len(b) : (a \o b)[Len(a) + i] = b[i]
        BY <1>2, Joined
    <2>2. Plain(a \o b)
        BY <1>4 DEF Flow, Leading
    <2>3. ASSUME NEW i \in DOMAIN b PROVE b[i] # Initial
        <3>1. Len(a) + i \in DOMAIN (a \o b)
            BY <2>1
        <3> QED BY <2>1, <2>2, <3>1 DEF Plain
    <2> QED BY <2>3 DEF Plain
<1>10. Led(first \o b, s.initial) /\ s.initial <= Len(first \o b)
    BY <1>2, <1>8, <1>9, LedBegins
<1>11. Led(<<>>, s.initial)
    BY DEF Led
<1>12. Leading(t, Passed(t), Path(t, rest))
    BY <1>7, <1>10, <1>11 DEF Leading
<1> QED BY <1>4, <1>6, <1>12 DEF Flow

\* A watcher is made.
LEMMA FlowBegins ==
    ASSUME NEW s \in Stream, NEW rest, rest = <<>>, NEW known, NEW upto \in Nat,
           s.at = upto, s.received = <<>>, s.result = <<>>, s.held = <<>>,
           s.pending = <<>>, s.pc # "served"
    PROVE  Flow(s, rest, known, upto)
<1>1. <<>> \o <<>> = <<>>
    BY EmptySeq, ConcatEmptySeq
<1>2. Passed(s) = <<>> /\ Path(s, rest) = <<>>
    BY <1>1 DEF Passed, Path
<1>3. Well(<<>>, upto, upto)
    BY DEF Well, InOrder, GapFree, Bounded
<1>4. Complete(<<>>, upto, upto)
    BY DEF Complete
<1>5. Leading(s, <<>>, <<>>)
    BY DEF Leading, Led, Plain
<1> QED BY <1>2, <1>3, <1>4, <1>5 DEF Flow

\* Time passes for a watcher that is not told.
LEMMA FlowLater ==
    ASSUME NEW s \in Stream, NEW rest \in Seq(Event), NEW known,
           NEW upto \in Nat, NEW top \in Nat, upto <= top,
           s.closed = TRUE \/ ~known, Flow(s, rest, known, upto)
    PROVE  Flow(s, rest, known, top)
<1>1. /\ Passed(s) \in Seq(Event) /\ Path(s, rest) \in Seq(Event)
      /\ s.at \in Nat /\ s.closed \in BOOLEAN
    BY Lanes
<1>2. ASSUME NEW p \in Seq(Event), Well(p, s.at, upto)
      PROVE  Well(p, s.at, top)
    <2>1. \A i \in DOMAIN p : p[i].n \in Nat
        BY Elements
    <2>2. Bounded(p, top)
        BY <1>2, <2>1 DEF Well, Bounded
    <2> QED BY <1>2, <2>2 DEF Well
<1>3. s.at <= top
    BY <1>1 DEF Flow
<1> QED BY <1>1, <1>2, <1>3 DEF Flow

\* A poll has more for a watcher that has been told everything.
LEMMA FlowExtends ==
    ASSUME NEW s \in Stream, s.closed = FALSE, NEW known, known,
           NEW upto \in Nat, NEW top \in Nat, upto <= top,
           NEW more \in Seq(Event), Plain(more), Well(more, upto, top), Complete(more, upto, top),
           Flow(s, <<>>, known, upto)
    PROVE  Flow(s, more, known, top)
<1>0. <<>> \in Seq(Event)
    OBVIOUS
<1>1. /\ Passed(s) \in Seq(Event) /\ s.pending \in Seq(Event)
      /\ Path(s, <<>>) \in Seq(Event) /\ s.at \in Nat
    BY <1>0, Lanes
<1>2. Path(s, <<>>) = Passed(s) \o s.pending
    BY <1>1, ConcatEmptySeq DEF Path
<1>3. Path(s, more) = Path(s, <<>>) \o more
    <2>1. (Passed(s) \o s.pending) \o more = Passed(s) \o (s.pending \o more)
        BY <1>1, Regroup, Zenon
    <2> QED BY <1>2, <2>1 DEF Path
<1>4. /\ s.at <= upto /\ Well(Path(s, <<>>), s.at, upto)
      /\ Complete(Path(s, <<>>), s.at, upto)
    BY DEF Flow
<1>5. Well(Path(s, more), s.at, top) /\ Complete(Path(s, more), s.at, top)
    BY <1>1, <1>3, <1>4, WellExtended
<1>6. s.initial \in Nat
    BY Initials
<1>7. /\ Plain(Path(s, <<>>)) => Plain(Path(s, more))
      /\ Led(Path(s, <<>>), s.initial) /\ s.initial <= Len(Path(s, <<>>)) =>
             Led(Path(s, more), s.initial) /\ s.initial <= Len(Path(s, more))
    BY <1>1, <1>3, <1>6, PlainJoined
<1>8. Leading(s, Passed(s), Path(s, more))
    BY <1>7 DEF Flow, Leading
<1> QED BY <1>1, <1>4, <1>5, <1>8 DEF Flow

-----------------------------------------------------------------------------
(* The invariant is inductive. *)

LEMMA RemainingType ==
    ASSUME TypeOK, Rounds, NEW w \in Watchers
    PROVE  Remaining(w) \in Seq(Event)
<1>1. casting.events \in Seq(Event) /\ <<>> \in Seq(Event)
    BY DEF TypeOK, Cast
<1>2. ASSUME w \in casting.targets PROVE Tail(casting.events) \in Seq(Event)
    BY <1>1, <1>2, HeadTailProperties DEF Rounds
<1> QED BY <1>1, <1>2 DEF Remaining

LEMMA InitInv == Init => StreamInv
<1> SUFFICES ASSUME Init PROVE StreamInv
    OBVIOUS
<1>0. <<>> \in Seq(Event) /\ Len(<<>>) = 0
    OBVIOUS
<1>1. /\ NewStream \in Stream /\ NewStream.pc = "new" /\ NewStream.lock = "free"
      /\ NewStream.at = 0 /\ NewStream.closed = FALSE /\ NewStream.run = "idle"
      /\ NewStream.received = <<>> /\ NewStream.result = <<>>
      /\ NewStream.held = <<>> /\ NewStream.pending = <<>>
    BY <1>0, LimitsAssumption DEF NewStream, Stream
<1>2. /\ NoCast \in Cast /\ NoCast.events = <<>> /\ NoCast.targets = {}
      /\ NoCast.round = {}
    BY <1>0 DEF NoCast, Cast
<1>3. TypeOK
    BY <1>0, <1>1, <1>2, LimitsAssumption DEF Init, TypeOK
<1>4. Locks
    BY <1>1 DEF Init, Locks
<1>5. Rounds
    BY <1>2 DEF Init, Rounds
<1>6. Queues
    BY <1>0, <1>1, <1>2 DEF Init, Queues, Unborn, Holds
<1>7. ASSUME NEW w \in Watchers PROVE Flows(w)
    <2>1. stream[w] = NewStream /\ Remaining(w) = <<>> /\ applied = 0
        BY <1>2 DEF Init, Remaining
    <2>2. Flow(NewStream, <<>>, w \in registered, 0)
        BY <1>0, <1>1, FlowBegins
    <2> QED BY <2>1, <2>2, FlowsIsFlow
<1> QED BY <1>3, <1>4, <1>5, <1>6, <1>7 DEF StreamInv, Flowing

\* A step that changes one watcher and keeps the others' share of the broadcast.
LEMMA OneWatcher ==
    ASSUME StreamInv, NEW w \in Watchers, NEW s \in Stream, Becomes(w, s),
           registered' \subseteq Watchers, mu' \in {"free", "poll", "close"},
           casting' \in Cast, bookmarks' = bookmarks, pending' \in Int,
           applied' = applied, Rounds',
           casting'.targets \subseteq casting.targets,
           \A v \in Watchers \ {w} :
               /\ Remaining(v)' = Remaining(v)
               /\ v \in registered' => v \in registered
               /\ stream[v].lock = "enqueue" => v \in casting'.round,
           s.lock = "enqueue" =>
               /\ w \in casting'.round /\ ~s.closed
               /\ \A v \in Watchers \ {w} : stream[v].lock # "enqueue",
           s.lock = "prepend" => s.pc = "registered" /\ s.initial > 0 /\ ~s.closed,
           s.pc # "new", s.closed => s.pending = <<>>,
           Holds(s), Len(s.result) <= eventBuffer,
           Flow(s, Remaining(w)', w \in registered', applied)
    PROVE  StreamInv'
<1>1. TypeOK /\ Locks /\ Rounds /\ Queues /\ Flowing
    BY DEF StreamInv
<1>2. /\ stream' \in [Watchers -> Stream] /\ stream'[w] = s
      /\ \A v \in Watchers \ {w} : stream'[v] = stream[v]
    BY DEF Becomes
<1>3. TypeOK'
    BY <1>1, <1>2 DEF TypeOK
<1>4. Locks'
    <2>1. \A v \in Watchers : stream'[v].lock = "enqueue" =>
              v \in casting'.round /\ ~stream'[v].closed
        BY <1>1, <1>2 DEF Locks
    <2>2. \A u, v \in Watchers :
              stream'[u].lock = "enqueue" /\ stream'[v].lock = "enqueue" => u = v
        BY <1>1, <1>2 DEF Locks
    <2>3. \A v \in Watchers : stream'[v].lock = "prepend" =>
              /\ stream'[v].pc = "registered" /\ stream'[v].initial > 0
              /\ ~stream'[v].closed
        BY <1>1, <1>2 DEF Locks
    <2> QED BY <2>1, <2>2, <2>3 DEF Locks
<1>5. Queues'
    <2>1. ASSUME NEW v \in Watchers, v # w
          PROVE  /\ stream'[v].pc = "new" => Unborn(v)'
                 /\ stream'[v].closed => stream'[v].pending = <<>>
                 /\ Holds(stream'[v])
        BY <1>1, <1>2, <2>1 DEF Queues, Unborn
    <2>2. /\ stream'[w].pc # "new"
          /\ stream'[w].closed => stream'[w].pending = <<>>
          /\ Holds(stream'[w])
        BY <1>2
    <2> QED BY <2>1, <2>2 DEF Queues
<1>6. ASSUME NEW v \in Watchers PROVE Flows(v)'
    <2>1. CASE v = w
        BY <1>2, <2>1, FlowsIsFlow
    <2>2. CASE v # w
        <3>1. /\ stream'[v] = stream[v] /\ Remaining(v)' = Remaining(v)
              /\ v \in registered' => v \in registered
              /\ stream[v] \in Stream
            BY <1>1, <1>2, <2>2 DEF TypeOK
        <3>2. Flow(stream[v], Remaining(v), v \in registered, applied)
            BY <1>1, FlowsIsFlow DEF Flowing
        <3>3. Flow(stream[v], Remaining(v), v \in registered', applied)
            BY <3>1, <3>2 DEF Flow
        <3>4. Flow(stream'[v], Remaining(v)', v \in registered', applied')
            BY <3>1, <3>3
        <3> QED BY <3>4, FlowsIsFlow
    <2> QED BY <2>1, <2>2
<1> QED BY <1>3, <1>4, <1>5, <1>6 DEF StreamInv, Flowing

\* What OneWatcher asks of a step that leaves the broadcast, or more, alone.
LEMMA SameCast ==
    ASSUME StreamInv, casting' = casting, NEW w \in Watchers
    PROVE  /\ casting' \in Cast /\ Rounds' /\ casting'.targets \subseteq casting.targets
           /\ Remaining(w) \in Seq(Event)
           /\ Flow(stream[w], Remaining(w), w \in registered, applied)
           /\ stream[w] \in Stream /\ Len(stream[w].result) <= eventBuffer
           /\ \A v \in Watchers : Remaining(v)' = Remaining(v)
           /\ \A v \in Watchers : stream[v].lock = "enqueue" => v \in casting'.round
           /\ stream[w].closed => stream[w].pending = <<>>
           /\ Holds(stream[w])
<1>1. TypeOK /\ Locks /\ Rounds /\ Queues /\ Flowing
    BY DEF StreamInv
<1>2. Remaining(w) \in Seq(Event)
    BY <1>1, RemainingType
<1>3. Flow(stream[w], Remaining(w), w \in registered, applied)
    BY <1>1, FlowsIsFlow DEF Flowing
<1>4. casting' \in Cast /\ stream[w] \in Stream /\ Len(stream[w].result) <= eventBuffer
    BY <1>1 DEF TypeOK
<1>5. Rounds' /\ casting'.targets \subseteq casting.targets
    BY <1>1 DEF Rounds
<1>6. \A v \in Watchers : Remaining(v)' = Remaining(v)
    BY DEF Remaining
<1>7. /\ \A v \in Watchers : stream[v].lock = "enqueue" => v \in casting'.round
      /\ stream[w].closed => stream[w].pending = <<>>
      /\ Holds(stream[w])
    BY <1>1 DEF Locks, Queues
<1> QED BY <1>2, <1>3, <1>4, <1>5, <1>6, <1>7

\* A watcher whose events do not move.
LEMMA StaysStep ==
    ASSUME StreamInv, NEW w \in Watchers, NEW s \in Stream, Becomes(w, s),
           Unmoved(s, stream[w]), registered' \subseteq registered,
           UNCHANGED <<mu, applied, casting, bookmarks, pending>>, s.pc # "new",
           \/ s.pc \in {stream[w].pc, "stopping"}
           \/ stream[w].pc = "registered" /\ s.pc = "served" /\ stream[w].initial = 0,
           s.lock = "enqueue" =>
               /\ w \in casting.round /\ ~s.closed
               /\ \A v \in Watchers \ {w} : stream[v].lock # "enqueue",
           s.lock = "prepend" => s.pc = "registered" /\ s.initial > 0 /\ ~s.closed
    PROVE  StreamInv'
<1>1. TypeOK
    BY DEF StreamInv
<1>2. /\ casting' \in Cast /\ Rounds' /\ casting'.targets \subseteq casting.targets
      /\ Flow(stream[w], Remaining(w), w \in registered, applied)
      /\ Remaining(w) \in Seq(Event)
      /\ stream[w] \in Stream /\ Len(stream[w].result) <= eventBuffer
      /\ \A v \in Watchers : Remaining(v)' = Remaining(v)
      /\ \A v \in Watchers : stream[v].lock = "enqueue" => v \in casting'.round
      /\ stream[w].closed => stream[w].pending = <<>>
      /\ Holds(stream[w])
    BY SameCast
<1>3. /\ registered' \subseteq Watchers /\ mu' \in {"free", "poll", "close"}
      /\ bookmarks' = bookmarks /\ pending' \in Int /\ applied' = applied
    BY <1>1 DEF TypeOK
<1>4. /\ s.closed => s.pending = <<>>
      /\ Holds(s)
      /\ Len(s.result) <= eventBuffer
    BY <1>2 DEF Unmoved, Holds
<1>5. Flow(s, Remaining(w), w \in registered', applied)
    BY <1>2, FlowStays
<1>6. Flow(s, Remaining(w)', w \in registered', applied)
    BY <1>2, <1>5
<1> QED BY <1>2, <1>3, <1>4, <1>6, OneWatcher

LEMMA QuietStep ==
    ASSUME StreamInv, NEW w \in Watchers,
           \/ PrependChecks(w) \/ PrependNothing(w) \/ Refuse(w) \/ Stop(w)
           \/ EnqueueChecks(w)
    PROVE  StreamInv'
<1>1. TypeOK /\ Locks /\ Rounds /\ Queues
    BY DEF StreamInv
<1>2. CASE PrependChecks(w)
    <2>1. PICK s \in Stream : /\ Becomes(w, s) /\ Unmoved(s, stream[w])
                              /\ s.lock = "prepend" /\ s.pc = stream[w].pc
        BY <1>1, <1>2, PrependChecksDoes
    <2>2. /\ s.pc = "registered" /\ s.initial > 0 /\ ~s.closed
          /\ registered' \subseteq registered
        BY <1>2, <2>1 DEF PrependChecks, prepends, Unmoved
    <2>3. UNCHANGED <<mu, applied, casting, bookmarks, pending>>
        BY <1>2 DEF PrependChecks
    <2> QED BY <2>1, <2>2, <2>3, StaysStep
<1>3. CASE PrependNothing(w)
    <2>1. PICK s \in Stream : /\ Becomes(w, s) /\ Unmoved(s, stream[w])
                              /\ s.lock = stream[w].lock /\ s.pc = "served"
        BY <1>1, <1>3, PrependNothingDoes
    <2>2. UNCHANGED <<mu, applied, casting, bookmarks, pending>>
          /\ registered' \subseteq registered
        BY <1>3 DEF PrependNothing
    <2>3. s.lock # "prepend"
        BY <1>1, <1>3, <2>1 DEF PrependNothing, Locks
    <2>4. s.lock = "enqueue" =>
              /\ w \in casting.round /\ ~s.closed
              /\ \A v \in Watchers \ {w} : stream[v].lock # "enqueue"
        BY <1>1, <2>1 DEF Locks, Unmoved
    <2>5. stream[w].pc = "registered" /\ s.pc = "served" /\ stream[w].initial = 0
        BY <1>3, <2>1 DEF PrependNothing
    <2> QED BY <2>1, <2>2, <2>3, <2>4, <2>5, StaysStep
<1>4. CASE Refuse(w) \/ Stop(w)
    <2>1. PICK s \in Stream : /\ Becomes(w, s) /\ Unmoved(s, stream[w])
                              /\ s.lock = stream[w].lock /\ s.pc = "stopping"
        BY <1>1, <1>4, LeavesDoes
    <2>2. UNCHANGED <<mu, applied, casting, bookmarks, pending>>
          /\ registered' \subseteq registered
        BY <1>4 DEF Refuse, Stop
    <2>3. s.lock # "prepend"
        BY <1>1, <1>4, <2>1 DEF Refuse, Stop, Locks
    <2>4. s.lock = "enqueue" =>
              /\ w \in casting.round /\ ~s.closed
              /\ \A v \in Watchers \ {w} : stream[v].lock # "enqueue"
        BY <1>1, <2>1 DEF Locks, Unmoved
    <2> QED BY <2>1, <2>2, <2>3, <2>4, StaysStep
<1>5. CASE EnqueueChecks(w)
    <2>1. PICK s \in Stream : /\ Becomes(w, s) /\ Unmoved(s, stream[w])
                              /\ s.lock = "enqueue" /\ s.pc = stream[w].pc
        BY <1>1, <1>5, EnqueueChecksDoes
    <2>2. UNCHANGED <<mu, applied, casting, bookmarks, pending>>
          /\ registered' \subseteq registered
        BY <1>5 DEF EnqueueChecks
    <2>3. /\ w \in casting.round /\ ~s.closed
          /\ \A v \in Watchers \ {w} : stream[v].lock # "enqueue"
        BY <1>5, <2>1 DEF EnqueueChecks, Reached, enqueues, Unmoved
    <2>4. s.pc # "new"
        BY <1>1, <2>1, <2>3 DEF Rounds, Queues, Unborn
    <2> QED BY <2>1, <2>2, <2>3, <2>4, StaysStep
<1> QED BY <1>2, <1>3, <1>4, <1>5

LEMMA RegisterStep ==
    ASSUME StreamInv, NEW w \in Watchers, Register(w)
    PROVE  StreamInv'
<1>1. TypeOK /\ Locks /\ Rounds /\ Queues
    BY DEF StreamInv
<1>2. PICK s \in Stream :
          /\ Becomes(w, s)
          /\ s.pc = "registered" /\ s.at = applied /\ s.lock = stream[w].lock
          /\ s.overtaken = stream[w].overtaken
          /\ s.closed = stream[w].closed /\ s.run = stream[w].run
          /\ s.pending = stream[w].pending /\ s.held = stream[w].held
          /\ s.result = stream[w].result /\ s.received = stream[w].received
    BY <1>1, RegisterDoes
<1>3. /\ UNCHANGED <<mu, applied, casting, bookmarks, pending>>
      /\ registered' = registered \cup {w} /\ stream[w].pc = "new"
    BY DEF Register
<1>4. /\ casting' \in Cast /\ Rounds' /\ casting'.targets \subseteq casting.targets
      /\ Len(stream[w].result) <= eventBuffer
      /\ \A v \in Watchers : Remaining(v)' = Remaining(v)
      /\ \A v \in Watchers : stream[v].lock = "enqueue" => v \in casting'.round
    BY <1>3, SameCast
<1>5. stream[w] = NewStream /\ w \notin casting.targets
    BY <1>1, <1>3 DEF Queues, Unborn
<1>6. /\ s.lock = "free" /\ s.closed = FALSE /\ s.run = "idle"
      /\ s.pending = <<>> /\ s.held = <<>> /\ s.result = <<>> /\ s.received = <<>>
    BY <1>2, <1>5 DEF NewStream
<1>7. Remaining(w)' = <<>>
    BY <1>1, <1>4, <1>5 DEF Remaining, Rounds
<1>8. applied \in Nat /\ mu' \in {"free", "poll", "close"} /\ pending' \in Int
      /\ registered' \subseteq Watchers
    BY <1>1, <1>3, LimitsAssumption DEF TypeOK
<1>9. Flow(s, Remaining(w)', w \in registered', applied)
    BY <1>2, <1>6, <1>7, <1>8, FlowBegins
<1>10. Len(s.result) <= eventBuffer /\ Holds(s)
    BY <1>2, <1>4, <1>6 DEF Holds
<1>11. \A v \in Watchers \ {w} : v \in registered' => v \in registered
    BY <1>3
<1> QED BY <1>2, <1>3, <1>4, <1>6, <1>8, <1>9, <1>10, <1>11, OneWatcher

LEMMA PrependAddsStep ==
    ASSUME StreamInv, NEW w \in Watchers, PrependAdds(w)
    PROVE  StreamInv'
<1>1. TypeOK /\ Locks /\ Rounds /\ Queues
    BY DEF StreamInv
<1>2. PICK s \in Stream :
          /\ Becomes(w, s)
          /\ s.pc = "served" /\ s.lock = "free"
          /\ s.initial = stream[w].initial
          /\ s.overtaken = (stream[w].result \o stream[w].held # <<>>)
          /\ s.at = stream[w].at /\ s.closed = stream[w].closed /\ s.run = stream[w].run
          /\ s.pending = [i \in 1..stream[w].initial |-> Initial] \o stream[w].pending
          /\ s.held = stream[w].held
          /\ s.result = stream[w].result /\ s.received = stream[w].received
    BY <1>1, PrependAddsDoes
<1>3. UNCHANGED <<registered, mu, applied, casting, bookmarks>>
    BY DEF PrependAdds
<1>4. /\ casting' \in Cast /\ Rounds' /\ casting'.targets \subseteq casting.targets
      /\ Remaining(w) \in Seq(Event)
      /\ Flow(stream[w], Remaining(w), w \in registered, applied)
      /\ stream[w] \in Stream /\ Len(stream[w].result) <= eventBuffer
      /\ \A v \in Watchers : Remaining(v)' = Remaining(v)
      /\ \A v \in Watchers : stream[v].lock = "enqueue" => v \in casting'.round
      /\ stream[w].closed => stream[w].pending = <<>>
      /\ Holds(stream[w])
    BY <1>3, SameCast
<1>5. /\ registered' \subseteq Watchers /\ mu' \in {"free", "poll", "close"}
      /\ pending' \in Int /\ applied \in Nat
    <2>1. pending \in Int /\ stream[w].initial \in Nat
        BY <1>1, <1>4, Initials DEF TypeOK
    <2>2. pending' \in Int
        BY <2>1 DEF PrependAdds
    <2> QED BY <1>1, <1>3, <2>2, LimitsAssumption DEF TypeOK
<1>6. s.pc # "new"
    BY <1>2
<1>7. Flow(s, Remaining(w)', w \in registered', applied)
    <2>1. PICK first : first = [i \in 1..stream[w].initial |-> Initial]
        OBVIOUS
    <2>2. /\ first \in Seq(Event) /\ \A k \in DOMAIN first : first[k] = Initial
          /\ Len(first) = stream[w].initial
        BY <1>4, <2>1, Initials
    <2>3. stream[w].closed = FALSE
        BY <1>1, <1>4 DEF PrependAdds, Locks, Stream
    <2>4. s.pending = first \o stream[w].pending
        BY <1>2, <2>1
    <2>5. stream[w].pc = "registered"
        BY <1>1 DEF PrependAdds, Locks
    <2>6. Flow(s, Remaining(w), w \in registered, applied)
        BY <1>2, <1>4, <1>5, <2>2, <2>3, <2>4, <2>5, FlowPrepends
    <2> QED BY <1>3, <1>4, <2>6
<1>8. ~s.closed
    BY <1>1, <1>2 DEF PrependAdds, Locks
<1>9. /\ Holds(s)
      /\ Len(s.result) <= eventBuffer
    BY <1>2, <1>4 DEF Holds
<1> QED BY <1>2, <1>3, <1>4, <1>5, <1>6, <1>7, <1>8, <1>9, OneWatcher

LEMMA RunTakesStep ==
    ASSUME StreamInv, NEW w \in Watchers, RunTakes(w)
    PROVE  StreamInv'
<1>1. TypeOK /\ Locks /\ Rounds /\ Queues
    BY DEF StreamInv
<1>2. PICK s \in Stream :
          /\ Becomes(w, s)
          /\ s.pc = stream[w].pc /\ s.lock = stream[w].lock
          /\ s.initial = stream[w].initial /\ s.overtaken = stream[w].overtaken
          /\ s.at = stream[w].at /\ s.closed = stream[w].closed
          /\ s.run = "sending" /\ s.held = <<Head(stream[w].pending)>>
          /\ s.pending = Tail(stream[w].pending)
          /\ s.result = stream[w].result /\ s.received = stream[w].received
    BY <1>1, RunTakesDoes
<1>3. UNCHANGED <<registered, mu, applied, casting, bookmarks>>
    BY DEF RunTakes
<1>4. /\ casting' \in Cast /\ Rounds' /\ casting'.targets \subseteq casting.targets
      /\ Remaining(w) \in Seq(Event)
      /\ Flow(stream[w], Remaining(w), w \in registered, applied)
      /\ stream[w] \in Stream /\ Len(stream[w].result) <= eventBuffer
      /\ \A v \in Watchers : Remaining(v)' = Remaining(v)
      /\ \A v \in Watchers : stream[v].lock = "enqueue" => v \in casting'.round
      /\ stream[w].closed => stream[w].pending = <<>>
      /\ Holds(stream[w])
    BY <1>3, SameCast
<1>5. /\ registered' \subseteq Watchers /\ mu' \in {"free", "poll", "close"}
      /\ pending' \in Int /\ applied \in Nat
    BY <1>1, <1>3, LimitsAssumption DEF TypeOK, RunTakes
<1>6. s.pc # "new"
    BY <1>2 DEF RunTakes
<1>7. Flow(s, Remaining(w)', w \in registered', applied)
    <2>1. /\ stream[w].held = <<>> /\ stream[w].closed = FALSE
          /\ stream[w].pending # <<>>
        BY <1>4 DEF RunTakes, Stream, Holds
    <2>2. Flow(s, Remaining(w), w \in registered, applied)
        BY <1>2, <1>4, <2>1, FlowTakes
    <2> QED BY <1>3, <1>4, <2>2
<1>8. ~s.closed /\ s.lock = "free"
    BY <1>2 DEF RunTakes
<1>9. Holds(s) /\ Len(s.result) <= eventBuffer
    BY <1>2, <1>4 DEF Holds
<1> QED BY <1>2, <1>3, <1>4, <1>5, <1>6, <1>7, <1>8, <1>9, OneWatcher

LEMMA RunSendsStep ==
    ASSUME StreamInv, NEW w \in Watchers, RunSends(w)
    PROVE  StreamInv'
<1>1. TypeOK /\ Locks /\ Rounds /\ Queues
    BY DEF StreamInv
<1>2. PICK s \in Stream :
          /\ Becomes(w, s)
          /\ s.pc = stream[w].pc /\ s.lock = stream[w].lock
          /\ s.initial = stream[w].initial /\ s.overtaken = stream[w].overtaken
          /\ s.at = stream[w].at /\ s.closed = stream[w].closed
          /\ s.run = "idle" /\ s.held = <<>> /\ s.pending = stream[w].pending
          /\ s.result = stream[w].result \o stream[w].held
          /\ s.received = stream[w].received
    BY <1>1, RunSendsDoes
<1>3. UNCHANGED <<registered, mu, applied, casting, bookmarks>>
    BY DEF RunSends
<1>4. /\ casting' \in Cast /\ Rounds' /\ casting'.targets \subseteq casting.targets
      /\ Remaining(w) \in Seq(Event)
      /\ Flow(stream[w], Remaining(w), w \in registered, applied)
      /\ stream[w] \in Stream /\ Len(stream[w].result) <= eventBuffer
      /\ \A v \in Watchers : Remaining(v)' = Remaining(v)
      /\ \A v \in Watchers : stream[v].lock = "enqueue" => v \in casting'.round
      /\ stream[w].closed => stream[w].pending = <<>>
      /\ Holds(stream[w])
    BY <1>3, SameCast
<1>5. /\ registered' \subseteq Watchers /\ mu' \in {"free", "poll", "close"}
      /\ pending' \in Int /\ applied \in Nat
    BY <1>1, <1>3, LimitsAssumption DEF TypeOK, RunSends
<1>6. s.pc # "new"
    BY <1>1, <1>2 DEF RunSends, Queues, Unborn, NewStream
<1>7. Flow(s, Remaining(w)', w \in registered', applied)
    <2>1. Flow(s, Remaining(w), w \in registered, applied)
        BY <1>2, <1>4, FlowSends
    <2> QED BY <1>3, <1>4, <2>1
<1>8. /\ s.lock = "enqueue" =>
          /\ w \in casting'.round /\ ~s.closed
          /\ \A v \in Watchers \ {w} : stream[v].lock # "enqueue"
      /\ s.lock = "prepend" => s.pc = "registered" /\ s.initial > 0 /\ ~s.closed
    BY <1>1, <1>2, <1>3 DEF Locks
<1>9. /\ Holds(s)
      /\ s.closed => s.pending = <<>>
      /\ Len(s.result) <= eventBuffer
    <2>1. Len(stream[w].held) <= 1
        BY <1>4 DEF Holds
    <2>2. /\ stream[w].result \in Seq(Event) /\ stream[w].held \in Seq(Event)
        BY <1>4, Lanes
    <2>3. /\ Len(s.result) = Len(stream[w].result) + Len(stream[w].held)
          /\ Len(stream[w].result) \in Nat /\ Len(stream[w].held) \in Nat
        BY <1>2, <2>2, ConcatProperties, LenProperties
    <2>4. Len(stream[w].result) < eventBuffer /\ eventBuffer \in Nat
        BY LimitsAssumption DEF RunSends
    <2>5. Len(s.result) <= eventBuffer
        <3>1. PICK k, h : k = Len(stream[w].result) /\ h = Len(stream[w].held)
            OBVIOUS
        <3>2. k \in Nat /\ h \in Nat /\ h <= 1 /\ k < eventBuffer
            BY <2>1, <2>3, <2>4, <3>1
        <3>3. k + h <= eventBuffer
            BY <2>4, <3>2
        <3> QED BY <2>3, <3>1, <3>3
    <2>6. Holds(s)
        BY <1>2 DEF Holds
    <2> QED BY <1>2, <1>4, <2>5, <2>6
<1> QED BY <1>2, <1>3, <1>4, <1>5, <1>6, <1>7, <1>8, <1>9, OneWatcher

LEMMA RunExitsStep ==
    ASSUME StreamInv, NEW w \in Watchers, RunExits(w)
    PROVE  StreamInv'
<1>1. TypeOK /\ Locks /\ Rounds /\ Queues
    BY DEF StreamInv
<1>2. PICK s \in Stream :
          /\ Becomes(w, s)
          /\ s.pc = stream[w].pc /\ s.lock = stream[w].lock
          /\ s.initial = stream[w].initial /\ s.overtaken = stream[w].overtaken
          /\ s.at = stream[w].at /\ s.closed = stream[w].closed
          /\ s.run = "exited" /\ s.held = <<>> /\ s.pending = stream[w].pending
          /\ s.result = stream[w].result /\ s.received = stream[w].received
    BY <1>1, RunExitsDoes
<1>3. UNCHANGED <<registered, mu, applied, casting, bookmarks>>
    BY DEF RunExits
<1>4. /\ casting' \in Cast /\ Rounds' /\ casting'.targets \subseteq casting.targets
      /\ Remaining(w) \in Seq(Event)
      /\ Flow(stream[w], Remaining(w), w \in registered, applied)
      /\ stream[w] \in Stream /\ Len(stream[w].result) <= eventBuffer
      /\ \A v \in Watchers : Remaining(v)' = Remaining(v)
      /\ \A v \in Watchers : stream[v].lock = "enqueue" => v \in casting'.round
      /\ stream[w].closed => stream[w].pending = <<>>
      /\ Holds(stream[w])
    BY <1>3, SameCast
<1>5. /\ registered' \subseteq Watchers /\ mu' \in {"free", "poll", "close"}
      /\ pending' \in Int /\ applied \in Nat
    BY <1>1, <1>3, LimitsAssumption DEF TypeOK, RunExits
<1>6. s.pc # "new"
    BY <1>1, <1>2 DEF RunExits, Queues, Unborn, NewStream
<1>7. Flow(s, Remaining(w)', w \in registered', applied)
    <2>1. stream[w].closed = TRUE
        BY <1>4 DEF RunExits, Stream
    <2>2. Flow(s, Remaining(w), w \in registered, applied)
        BY <1>2, <1>4, <2>1, FlowExits
    <2> QED BY <1>3, <1>4, <2>2
<1>8. /\ s.lock = "enqueue" =>
          /\ w \in casting'.round /\ ~s.closed
          /\ \A v \in Watchers \ {w} : stream[v].lock # "enqueue"
      /\ s.lock = "prepend" => s.pc = "registered" /\ s.initial > 0 /\ ~s.closed
    BY <1>1, <1>2, <1>3 DEF Locks
<1>9. /\ Holds(s)
      /\ s.closed => s.pending = <<>>
      /\ Len(s.result) <= eventBuffer
    BY <1>2, <1>4 DEF Holds
<1> QED BY <1>2, <1>3, <1>4, <1>5, <1>6, <1>7, <1>8, <1>9, OneWatcher

LEMMA ReceiveStep ==
    ASSUME StreamInv, NEW w \in Watchers, Receive(w)
    PROVE  StreamInv'
<1>1. TypeOK /\ Locks /\ Rounds /\ Queues
    BY DEF StreamInv
<1>2. PICK s \in Stream :
          /\ Becomes(w, s)
          /\ s.pc = stream[w].pc /\ s.lock = stream[w].lock
          /\ s.initial = stream[w].initial /\ s.overtaken = stream[w].overtaken
          /\ s.at = stream[w].at /\ s.closed = stream[w].closed /\ s.run = stream[w].run
          /\ s.pending = stream[w].pending /\ s.held = stream[w].held
          /\ s.result = Tail(stream[w].result)
          /\ s.received = Append(stream[w].received, Head(stream[w].result))
    BY <1>1, ReceiveDoes
<1>3. UNCHANGED <<registered, mu, applied, casting, bookmarks>>
    BY DEF Receive
<1>4. /\ casting' \in Cast /\ Rounds' /\ casting'.targets \subseteq casting.targets
      /\ Remaining(w) \in Seq(Event)
      /\ Flow(stream[w], Remaining(w), w \in registered, applied)
      /\ stream[w] \in Stream /\ Len(stream[w].result) <= eventBuffer
      /\ \A v \in Watchers : Remaining(v)' = Remaining(v)
      /\ \A v \in Watchers : stream[v].lock = "enqueue" => v \in casting'.round
      /\ stream[w].closed => stream[w].pending = <<>>
      /\ Holds(stream[w])
    BY <1>3, SameCast
<1>5. /\ registered' \subseteq Watchers /\ mu' \in {"free", "poll", "close"}
      /\ pending' \in Int /\ applied \in Nat
    BY <1>1, <1>3, LimitsAssumption DEF TypeOK, Receive
<1>6. s.pc # "new"
    BY <1>2 DEF Receive
<1>7. Flow(s, Remaining(w)', w \in registered', applied)
    <2>1. stream[w].result # <<>> /\ stream[w].pc = "served"
        BY DEF Receive
    <2>2. Flow(s, Remaining(w), w \in registered, applied)
        BY <1>2, <1>4, <2>1, FlowReceives
    <2> QED BY <1>3, <1>4, <2>2
<1>8. /\ s.lock = "enqueue" =>
          /\ w \in casting'.round /\ ~s.closed
          /\ \A v \in Watchers \ {w} : stream[v].lock # "enqueue"
      /\ s.lock = "prepend" => s.pc = "registered" /\ s.initial > 0 /\ ~s.closed
    BY <1>1, <1>2, <1>3 DEF Locks
<1>9. /\ Holds(s)
      /\ s.closed => s.pending = <<>>
      /\ Len(s.result) <= eventBuffer
    <2>1. stream[w].result \in Seq(Event) /\ stream[w].result # <<>>
        BY <1>4, Lanes DEF Receive
    <2>2. /\ Len(s.result) = Len(stream[w].result) - 1
          /\ Len(stream[w].result) \in Nat
        BY <1>2, <2>1, HeadTailProperties, LenProperties
    <2>3. eventBuffer \in Nat
        BY LimitsAssumption
    <2> QED BY <1>2, <1>4, <2>2, <2>3 DEF Holds
<1> QED BY <1>2, <1>3, <1>4, <1>5, <1>6, <1>7, <1>8, <1>9, OneWatcher

\* The broadcast goes on to the next watcher, or the next event.
LEMMA HandedDoes ==
    ASSUME TypeOK, Rounds, NEW w \in Watchers, w \in casting.round,
           NEW c \in Cast, c.events = handed(w).events,
           c.targets = handed(w).targets, c.round = handed(w).round,
           casting' = c
    PROVE  /\ Rounds' /\ casting'.targets \subseteq casting.targets
           /\ casting.events # <<>>
           /\ Remaining(w) = casting.events
           /\ Remaining(w)' = Tail(casting.events)
           /\ \A v \in Watchers \ {w} : Remaining(v)' = Remaining(v)
<1>1. /\ casting \in Cast /\ casting.round \subseteq casting.targets
      /\ casting.events # <<>> /\ casting.events \in Seq(Event)
    BY DEF TypeOK, Rounds, Cast
<1>2. Tail(casting.events) = <<>> <=> Len(casting.events) = 1
    <2>1. PICK e, r : e = casting.events /\ r = Tail(e)
        OBVIOUS
    <2>2. e \in Seq(Event) /\ e # <<>>
        BY <1>1, <2>1
    <2>3. r \in Seq(Event) /\ Len(r) = Len(e) - 1 /\ Len(e) \in Nat \ {0}
        BY <2>1, <2>2, HeadTailProperties, EmptySeq
    <2>4. r = <<>> => Len(r) = 0
        BY EmptySeq
    <2>5. r # <<>> => Len(r) \in Nat \ {0}
        BY <2>3, EmptySeq
    <2> QED BY <2>1, <2>3, <2>4, <2>5
<1>3. Remaining(w) = casting.events
    BY DEF Remaining
<1>4. CASE casting.round # {w}
    <2>1. /\ c.events = casting.events /\ c.targets = casting.targets
          /\ c.round = casting.round \ {w}
        BY <1>1, <1>4 DEF handed, Cast
    <2>2. c.round # {}
        BY <1>4, <2>1
    <2> QED BY <1>1, <1>3, <2>1, <2>2 DEF Remaining, Rounds
<1>5. CASE casting.round = {w} /\ Len(casting.events) = 1
    <2>1. c.events = <<>> /\ c.targets = {} /\ c.round = {}
        BY <1>1, <1>5 DEF handed, Cast
    <2>2. Tail(casting.events) = <<>>
        BY <1>2, <1>5
    <2> QED BY <1>1, <1>3, <1>5, <2>1, <2>2 DEF Remaining, Rounds
<1>6. CASE casting.round = {w} /\ Len(casting.events) # 1
    <2>1. /\ c.events = Tail(casting.events) /\ c.targets = casting.targets
          /\ c.round = casting.targets
        BY <1>1, <1>6 DEF handed, Cast
    <2>2. Tail(casting.events) # <<>>
        BY <1>2, <1>6
    <2> QED BY <1>1, <1>3, <1>6, <2>1, <2>2 DEF Remaining, Rounds
<1> QED BY <1>4, <1>5, <1>6

LEMMA HandedType ==
    ASSUME TypeOK, Rounds, NEW w \in Watchers, w \in casting.round
    PROVE  handed(w) \in Cast
<1>1. /\ casting \in Cast /\ casting.events # <<>> /\ casting.events \in Seq(Event)
      /\ <<>> \in Seq(Event)
    BY DEF TypeOK, Rounds, Cast
<1>2. Tail(casting.events) \in Seq(Event)
    BY <1>1, HeadTailProperties
<1> QED BY <1>1, <1>2 DEF handed, Cast

LEMMA EnqueueAddsStep ==
    ASSUME StreamInv, NEW w \in Watchers, EnqueueAdds(w)
    PROVE  StreamInv'
<1>1. TypeOK /\ Locks /\ Rounds /\ Queues /\ Flowing
    BY DEF StreamInv
<1>2. /\ w \in casting.round /\ stream[w].lock = "enqueue" /\ ~stream[w].closed
      /\ \A v \in Watchers \ {w} : stream[v].lock # "enqueue"
    BY <1>1 DEF EnqueueAdds, Locks
<1>3. /\ UNCHANGED <<registered, mu, applied, bookmarks>>
      /\ casting' = handed(w) /\ pending' = pending + 1
    BY DEF EnqueueAdds
<1>4. casting' \in Cast
    BY <1>1, <1>2, <1>3, HandedType
<1>5. /\ Rounds' /\ casting'.targets \subseteq casting.targets
      /\ casting.events # <<>> /\ Remaining(w) = casting.events
      /\ Remaining(w)' = Tail(casting.events)
      /\ \A v \in Watchers \ {w} : Remaining(v)' = Remaining(v)
    BY <1>1, <1>2, <1>3, <1>4, HandedDoes
<1>6. PICK s \in Stream :
          /\ Becomes(w, s)
          /\ s.pc = stream[w].pc /\ s.lock = "free"
          /\ s.initial = stream[w].initial /\ s.overtaken = stream[w].overtaken
          /\ s.at = stream[w].at /\ s.closed = stream[w].closed /\ s.run = stream[w].run
          /\ s.pending = Append(stream[w].pending, Head(casting.events))
          /\ s.held = stream[w].held
          /\ s.result = stream[w].result /\ s.received = stream[w].received
    BY <1>1, <1>5, EnqueueAddsDoes
<1>7. /\ registered' \subseteq Watchers /\ mu' \in {"free", "poll", "close"}
      /\ pending' \in Int /\ stream[w] \in Stream
      /\ Len(s.result) <= eventBuffer
    BY <1>1, <1>3, <1>6 DEF TypeOK
<1>8. s.pc # "new" /\ ~s.closed /\ Holds(s)
    BY <1>1, <1>2, <1>6 DEF Queues, Unborn, Rounds, Holds
<1>9. Flow(s, Remaining(w)', w \in registered', applied)
    <2>1. Flow(stream[w], Remaining(w), w \in registered, applied)
        BY <1>1, FlowsIsFlow DEF Flowing
    <2>2. Remaining(w) \in Seq(Event) /\ stream[w].closed = FALSE
        BY <1>1, <1>2, <1>7, RemainingType DEF Stream
    <2>3. Flow(s, Tail(Remaining(w)), w \in registered, applied)
        BY <1>5, <1>6, <1>7, <2>1, <2>2, FlowEnqueues
    <2> QED BY <1>3, <1>5, <2>3
<1> QED BY <1>2, <1>3, <1>4, <1>5, <1>6, <1>7, <1>8, <1>9, OneWatcher

LEMMA TerminatingStep ==
    ASSUME StreamInv, NEW w \in Watchers, Terminating(w)
    PROVE  StreamInv'
<1>1. TypeOK /\ Locks /\ Rounds /\ Queues /\ Flowing
    BY DEF StreamInv
<1>2. pending' = pending - Len(stream[w].pending) /\ stream[w].lock = "free"
    BY <1>1, TerminatingDoes
<1>3. PICK s \in Stream :
          /\ Becomes(w, s) /\ s.closed = TRUE /\ s.pending = <<>>
          /\ s.lock = stream[w].lock /\ s.at = stream[w].at
          /\ s.initial = stream[w].initial /\ s.overtaken = stream[w].overtaken
          /\ s.run = stream[w].run /\ s.held = stream[w].held
          /\ s.result = stream[w].result /\ s.received = stream[w].received
          /\ s.pc \in {stream[w].pc, "stopped"}
    BY <1>1, TerminatingDoes
<1>4. /\ UNCHANGED <<mu, applied, bookmarks>> /\ registered' \subseteq registered
    BY DEF Terminating, StopTerminates, FallsBehind, CloseTerminates
<1>5. /\ casting' \in Cast /\ Rounds' /\ casting'.targets \subseteq casting.targets
      /\ \A v \in Watchers \ {w} : Remaining(v)' = Remaining(v)
      /\ \A v \in Watchers : stream[v].lock = "enqueue" => v \in casting'.round
    <2>1. CASE StopTerminates(w) \/ CloseTerminates(w)
        <3>1. casting' = casting
            BY <2>1 DEF StopTerminates, CloseTerminates
        <3> QED BY <3>1, SameCast
    <2>2. CASE FallsBehind(w)
        <3>1. PICK h : h = handed(w)
            OBVIOUS
        <3>2. /\ w \in casting.round
              /\ casting' = [h EXCEPT !.behind = h.behind \cup {w}]
              /\ \A v \in Watchers : stream[v].lock # "enqueue"
            BY <2>2, <3>1 DEF FallsBehind, Reached
        <3>3. h \in Cast
            BY <1>1, <3>1, <3>2, HandedType
        <3>4. /\ casting' \in Cast /\ casting'.events = h.events
              /\ casting'.targets = h.targets /\ casting'.round = h.round
            BY <3>2, <3>3 DEF Cast
        <3>5. /\ Rounds' /\ casting'.targets \subseteq casting.targets
              /\ \A v \in Watchers \ {w} : Remaining(v)' = Remaining(v)
            BY <1>1, <3>1, <3>2, <3>4, HandedDoes
        <3> QED BY <3>2, <3>4, <3>5
    <2> QED BY <2>1, <2>2 DEF Terminating
<1>6. /\ registered' \subseteq Watchers /\ mu' \in {"free", "poll", "close"}
      /\ stream[w] \in Stream /\ Len(s.result) <= eventBuffer
    BY <1>1, <1>3, <1>4 DEF TypeOK
<1>7. pending' \in Int
    <2>1. Len(stream[w].pending) \in Nat /\ pending \in Int
        BY <1>1, <1>6, Lanes, EmptySeq, LenProperties DEF TypeOK
    <2> QED BY <1>2, <2>1
<1>8. stream[w].pc # "new"
    <2>1. CASE StopTerminates(w)
        BY <2>1 DEF StopTerminates
    <2>2. CASE FallsBehind(w)
        BY <1>1, <2>2 DEF FallsBehind, Reached, Queues, Unborn, Rounds
    <2>3. CASE CloseTerminates(w)
        BY <1>1, <2>3 DEF CloseTerminates, Queues, Unborn
    <2> QED BY <2>1, <2>2, <2>3 DEF Terminating
<1>9. s.pc # "new" /\ Holds(s)
    BY <1>1, <1>3, <1>8 DEF Queues, Holds
<1>10. Flow(s, Remaining(w)', w \in registered', applied)
    <2>1. Flow(stream[w], Remaining(w), w \in registered, applied)
        BY <1>1, FlowsIsFlow DEF Flowing
    <2>2. Remaining(w) \in Seq(Event)
        BY <1>1, RemainingType
    <2> QED BY <1>3, <1>6, <2>1, <2>2, FlowTerminates
<1>11. \A v \in Watchers \ {w} : v \in registered' => v \in registered
    BY <1>4
<1> QED BY <1>2, <1>3, <1>4, <1>5, <1>6, <1>7, <1>9, <1>10, <1>11, OneWatcher

\* What a poll applies, and the bookmark of what has been applied.
LEMMA MoreChanges ==
    ASSUME NEW n \in Nat, NEW upto \in Nat, NEW more,
           more = [i \in 1..n |-> Change(upto + i)]
    PROVE  /\ more \in Seq(Event) /\ Plain(more)
           /\ Well(more, upto, upto + n) /\ Complete(more, upto, upto + n)
<1>1. \A i \in 1..n : Change(upto + i) \in Event
    BY DEF Change, Event
<1>2. more \in Seq(Event) /\ DOMAIN more = 1..n
    BY <1>1
<1>3. \A i \in 1..n : more[i] = Change(upto + i)
                       /\ more[i].n = upto + i /\ more[i].kind = "change"
    BY DEF Change
<1>4. InOrder(more)
    <2>1. ASSUME NEW i \in 1..n, NEW j \in 1..n, i < j
          PROVE  more[i].n < more[j].n
        <3>1. more[i].n = upto + i /\ more[j].n = upto + j
            BY <1>3
        <3>2. upto + i < upto + j
            BY <2>1
        <3> QED BY <3>1, <3>2
    <2> QED BY <1>2, <2>1 DEF InOrder
<1>5. ASSUME NEW m \in (upto + 1)..(upto + n)
      PROVE  m - upto \in 1..n /\ more[m - upto] = Change(m)
    <2>1. PICK k : k = m - upto
        OBVIOUS
    <2>2. k \in 1..n /\ upto + k = m
        BY <2>1
    <2>3. more[k] = Change(m)
        BY <1>3, <2>2
    <2> QED BY <2>1, <2>2, <2>3
<1>6. GapFree(more, upto)
    <2>1. ASSUME NEW i \in DOMAIN more
          PROVE  /\ more[i].kind = "change" => upto < more[i].n
                 /\ \A m \in (upto + 1)..more[i].n :
                        \E j \in DOMAIN more : j <= i /\ more[j] = Change(m)
        <3>1. more[i].n = upto + i /\ i \in 1..n
            BY <1>2, <1>3
        <3>2. ASSUME NEW m \in (upto + 1)..(upto + i)
              PROVE  \E j \in DOMAIN more : j <= i /\ more[j] = Change(m)
            <4>1. m \in (upto + 1)..(upto + n) /\ m - upto <= i
                BY <3>1
            <4> QED BY <1>2, <1>5, <4>1
        <3>3. upto < upto + i
            BY <3>1
        <3> QED BY <3>1, <3>2, <3>3
    <2> QED BY <2>1 DEF GapFree
<1>7. Bounded(more, upto + n)
    <2>1. ASSUME NEW i \in 1..n PROVE more[i].n <= upto + n
        <3>1. more[i].n = upto + i
            BY <1>3
        <3>2. upto + i <= upto + n
            OBVIOUS
        <3> QED BY <3>1, <3>2
    <2> QED BY <1>2, <2>1 DEF Bounded
<1>8. Complete(more, upto, upto + n)
    BY <1>2, <1>5 DEF Complete
<1>9. Plain(more)
    <2>1. Initial.kind # "change"
        BY DEF Initial
    <2>2. \A i \in 1..n : more[i] # Initial
        BY <1>3, <2>1
    <2> QED BY <1>2, <2>2 DEF Plain
<1> QED BY <1>2, <1>4, <1>6, <1>7, <1>8, <1>9 DEF Well

LEMMA OneBookmark ==
    ASSUME NEW upto \in Nat, NEW more, more = <<Bookmark(upto)>>
    PROVE  /\ more \in Seq(Event) /\ more # <<>> /\ Plain(more)
           /\ Well(more, upto, upto) /\ Complete(more, upto, upto)
<1>1. Bookmark(upto) \in Event /\ Bookmark(upto).kind # "change"
      /\ Bookmark(upto).n = upto
    BY DEF Bookmark, Event
<1>2. /\ more \in Seq(Event) /\ more # <<>> /\ DOMAIN more = {1}
      /\ more[1] = Bookmark(upto)
    BY <1>1
<1>3. InOrder(more)
    BY <1>1, <1>2 DEF InOrder
<1>4. GapFree(more, upto) /\ Bounded(more, upto)
    BY <1>1, <1>2 DEF GapFree, Bounded
<1>5. Complete(more, upto, upto)
    BY DEF Complete
<1>6. Plain(more)
    BY <1>2 DEF Plain, Initial, Bookmark
<1> QED BY <1>2, <1>3, <1>4, <1>5, <1>6 DEF Well

\* A step of the poll or of Close that leaves the watchers alone.
LEMMA WatchersKept ==
    ASSUME StreamInv, stream' = stream, registered' \subseteq registered,
           mu' \in {"free", "poll", "close"}, casting' \in Cast, Rounds',
           bookmarks' \in 0..MaxBookmarks, pending' = pending,
           applied' \in 0..MaxChanges,
           \A w \in Watchers : w \in casting'.targets => stream[w].pc # "new",
           \A w \in Watchers : stream[w].lock = "enqueue" => w \in casting'.round,
           \A w \in Watchers :
               Flow(stream[w], Remaining(w)', w \in registered', applied')
    PROVE  StreamInv'
<1>1. TypeOK /\ Locks /\ Rounds /\ Queues
    BY DEF StreamInv
<1>2. TypeOK'
    BY <1>1 DEF TypeOK
<1>3. Locks'
    BY <1>1 DEF Locks
<1>4. Queues'
    BY <1>1 DEF Queues, Unborn
<1>5. Flowing'
    BY FlowsIsFlow DEF Flowing
<1> QED BY <1>2, <1>3, <1>4, <1>5 DEF StreamInv

\* Between broadcasts nothing remains.
LEMMA Nothing ==
    ASSUME StreamInv, casting.round = {}
    PROVE  /\ \A w \in Watchers : Remaining(w) = <<>>
           /\ \A w \in Watchers : stream[w].lock # "enqueue"
           /\ \A w \in Watchers :
                  /\ stream[w] \in Stream
                  /\ Flow(stream[w], <<>>, w \in registered, applied)
           /\ <<>> \in Seq(Event)
<1>1. TypeOK /\ Locks /\ Rounds /\ Flowing
    BY DEF StreamInv
<1>2. \A w \in Watchers : Remaining(w) = <<>>
    BY <1>1 DEF Remaining, Rounds
<1>3. \A w \in Watchers : stream[w].lock # "enqueue" /\ stream[w] \in Stream
    BY <1>1 DEF Locks, TypeOK
<1>4. \A w \in Watchers : Flow(stream[w], <<>>, w \in registered, applied)
    BY <1>1, <1>2, FlowsIsFlow DEF Flowing
<1> QED BY <1>2, <1>3, <1>4

\* More events, for watchers that are registered.
LEMMA Told ==
    ASSUME StreamInv, casting.round = {}, NEW w \in Watchers,
           NEW top \in Nat, applied <= top,
           NEW more \in Seq(Event), Plain(more), Well(more, applied, top),
           Complete(more, applied, top), w \in registered
    PROVE  Flow(stream[w], more, w \in registered, top)
<1>1. /\ stream[w] \in Stream /\ <<>> \in Seq(Event)
      /\ Flow(stream[w], <<>>, w \in registered, applied)
    BY Nothing
<1>2. applied \in Nat /\ stream[w].closed \in BOOLEAN
    BY <1>1, LimitsAssumption DEF StreamInv, TypeOK, Stream
<1>3. CASE stream[w].closed = TRUE
    <2>1. Flow(stream[w], <<>>, w \in registered, top)
        BY <1>1, <1>2, <1>3, FlowLater
    <2> QED BY <1>3, <2>1 DEF Flow, Leading
<1>4. CASE stream[w].closed = FALSE
    <2>1. PICK known \in BOOLEAN : known = (w \in registered)
        OBVIOUS
    <2>2. Flow(stream[w], <<>>, known, applied)
        BY <1>1, <2>1
    <2>3. Flow(stream[w], more, known, top)
        BY <1>1, <1>2, <1>4, <2>1, <2>2, FlowExtends
    <2> QED BY <2>1, <2>3
<1> QED BY <1>2, <1>3, <1>4

LEMMA PollAppliesStep ==
    ASSUME StreamInv, PollApplies
    PROVE  StreamInv'
<1>1. TypeOK /\ Queues
    BY DEF StreamInv
<1>2. PICK n, more :
          /\ n \in 1..(MaxChanges - applied)
          /\ more = [i \in 1..n |-> Change(applied + i)] /\ applied' = applied + n
          /\ casting' = [NoCast EXCEPT !.events = more,
                 !.targets = registered, !.round = registered, !.bookmark = TRUE]
    BY DEF PollApplies
<1>3. /\ casting = NoCast /\ stream' = stream /\ registered' = registered
      /\ mu' \in {"free", "poll", "close"} /\ pending' = pending
      /\ bookmarks' \in 0..MaxBookmarks
    BY <1>1 DEF PollApplies, TypeOK
<1>4. /\ applied \in Nat /\ n \in Nat /\ n > 0 /\ applied' \in Nat
      /\ applied' \in 0..MaxChanges /\ applied <= applied'
    <2>1. applied \in 0..MaxChanges /\ MaxChanges \in Nat
        BY <1>1, LimitsAssumption DEF TypeOK
    <2> QED BY <1>2, <2>1
<1>5. /\ more \in Seq(Event) /\ Plain(more)
      /\ Well(more, applied, applied') /\ Complete(more, applied, applied')
    BY <1>2, <1>4, MoreChanges
<1>6. more # <<>>
    BY <1>2, <1>4
<1>7. /\ casting' \in Cast /\ casting'.events = more
      /\ casting'.targets = registered /\ casting'.round = registered
    BY <1>1, <1>2, <1>5 DEF NoCast, Cast, TypeOK
<1>8. Rounds'
    BY <1>6, <1>7 DEF Rounds
<1>9. casting.round = {}
    BY <1>3 DEF NoCast
<1>10. \A w \in Watchers : w \in casting'.targets => stream[w].pc # "new"
    BY <1>1, <1>7 DEF Queues, Unborn
<1>11. ASSUME NEW w \in Watchers
       PROVE  Flow(stream[w], Remaining(w)', w \in registered', applied')
    <2>1. CASE w \in registered
        <3>1. Remaining(w)' = more
            BY <1>7, <2>1 DEF Remaining
        <3>2. Flow(stream[w], more, w \in registered, applied')
            BY <1>4, <1>5, <1>9, <2>1, Told
        <3> QED BY <1>3, <3>1, <3>2
    <2>2. CASE w \notin registered
        <3>1. Remaining(w)' = <<>>
            BY <1>7, <2>2 DEF Remaining
        <3>2. /\ stream[w] \in Stream /\ <<>> \in Seq(Event)
              /\ Flow(stream[w], <<>>, w \in registered, applied)
            BY <1>9, Nothing
        <3>3. Flow(stream[w], <<>>, w \in registered, applied')
            BY <1>4, <2>2, <3>2, FlowLater
        <3> QED BY <1>3, <3>1, <3>3
    <2> QED BY <2>1, <2>2
<1>12. \A w \in Watchers : stream[w].lock # "enqueue"
    BY <1>9, Nothing
<1> QED BY <1>3, <1>4, <1>7, <1>8, <1>10, <1>11, <1>12, WatchersKept

LEMMA EmitBookmarksStep ==
    ASSUME StreamInv, EmitBookmarks
    PROVE  StreamInv'
<1>1. TypeOK /\ Queues
    BY DEF StreamInv
<1>2. PICK asking, more :
          /\ asking \in SUBSET registered
          /\ more = <<Bookmark(applied)>>
          /\ casting' = [NoCast EXCEPT
                 !.events = more, !.targets = asking, !.round = asking]
    BY DEF EmitBookmarks
<1>3. /\ casting.round = {} /\ stream' = stream /\ registered' = registered
      /\ mu' \in {"free", "poll", "close"} /\ pending' = pending
      /\ applied' = applied
    BY DEF EmitBookmarks
<1>4. /\ applied \in Nat /\ applied' \in 0..MaxChanges
      /\ bookmarks' \in 0..MaxBookmarks
    BY <1>1, <1>3, LimitsAssumption DEF TypeOK, EmitBookmarks
<1>5. /\ more \in Seq(Event) /\ more # <<>> /\ Plain(more)
      /\ Well(more, applied, applied) /\ Complete(more, applied, applied)
    BY <1>2, <1>4, OneBookmark
<1>6. /\ casting' \in Cast /\ casting'.events = more
      /\ casting'.targets = asking /\ casting'.round = asking
    BY <1>1, <1>2, <1>5 DEF NoCast, Cast, TypeOK
<1>7. Rounds'
    BY <1>5, <1>6 DEF Rounds
<1>8. \A w \in Watchers : w \in casting'.targets => stream[w].pc # "new"
    BY <1>1, <1>2, <1>6 DEF Queues, Unborn
<1>9. ASSUME NEW w \in Watchers
      PROVE  Flow(stream[w], Remaining(w)', w \in registered', applied')
    <2>1. CASE w \in asking
        <3>1. Remaining(w)' = more
            BY <1>6, <2>1 DEF Remaining
        <3>2. Flow(stream[w], more, w \in registered, applied)
            <4>1. w \in registered /\ applied <= applied
                BY <1>2, <1>4, <2>1
            <4> QED BY <1>3, <1>4, <1>5, <4>1, Told
        <3> QED BY <1>3, <3>1, <3>2
    <2>2. CASE w \notin asking
        <3>1. Remaining(w)' = <<>>
            BY <1>6, <2>2 DEF Remaining
        <3>2. Flow(stream[w], <<>>, w \in registered, applied)
            BY <1>3, Nothing
        <3> QED BY <1>3, <3>1, <3>2
    <2> QED BY <2>1, <2>2
<1>10. \A w \in Watchers : stream[w].lock # "enqueue"
    BY <1>3, Nothing
<1> QED BY <1>3, <1>4, <1>6, <1>7, <1>8, <1>9, <1>10, WatchersKept

LEMMA OtherStep ==
    ASSUME StreamInv,
           \/ Unregister \/ PollEnds \/ CloseBegins \/ CloseEnds \/ UNCHANGED vars
    PROVE  StreamInv'
<1>1. TypeOK /\ Queues /\ Rounds /\ Locks /\ Flowing
    BY DEF StreamInv
<1>2. /\ stream' = stream /\ registered' \subseteq registered
      /\ applied' = applied /\ pending' = pending /\ bookmarks' = bookmarks
    BY DEF Unregister, PollEnds, CloseBegins, CloseEnds, vars
<1>3. /\ mu' \in {"free", "poll", "close"} /\ bookmarks' \in 0..MaxBookmarks
      /\ applied' \in 0..MaxChanges
    BY <1>1, <1>2 DEF TypeOK, Unregister, PollEnds, CloseBegins, CloseEnds, vars
<1>4. /\ casting' \in Cast /\ Rounds'
      /\ \A w \in Watchers : w \in casting'.targets => stream[w].pc # "new"
      /\ \A w \in Watchers : stream[w].lock = "enqueue" => w \in casting'.round
      /\ \A w \in Watchers : Remaining(w)' = Remaining(w)
    <2>0. casting \in Cast
        BY <1>1 DEF TypeOK
    <2>1. \A w \in Watchers : w \in casting.targets => stream[w].pc # "new"
        BY <1>1 DEF Queues, Unborn
    <2>2. CASE Unregister
        <3>1. /\ casting' \in Cast /\ casting'.events = casting.events
              /\ casting'.targets = casting.targets /\ casting'.round = casting.round
            BY <2>0, <2>2 DEF Unregister, Cast
        <3> QED BY <1>1, <2>1, <3>1 DEF Rounds, Locks, Remaining
    <2>3. CASE PollEnds
        <3>1. casting.round = {} /\ casting' = NoCast
            BY <2>3 DEF PollEnds
        <3>2. /\ casting' \in Cast /\ casting'.events = <<>>
              /\ casting'.targets = {} /\ casting'.round = {}
            BY <3>1 DEF NoCast, Cast
        <3>3. \A w \in Watchers : Remaining(w) = <<>> /\ stream[w].lock # "enqueue"
            BY <3>1, Nothing
        <3> QED BY <3>2, <3>3 DEF Rounds, Remaining
    <2>4. CASE CloseBegins \/ CloseEnds \/ UNCHANGED vars
        <3>1. casting' = casting
            BY <2>4 DEF CloseBegins, CloseEnds, vars
        <3> QED BY <1>1, <2>0, <2>1, <3>1 DEF Rounds, Locks, Remaining
    <2> QED BY <2>2, <2>3, <2>4
<1>5. ASSUME NEW w \in Watchers
      PROVE  Flow(stream[w], Remaining(w)', w \in registered', applied')
    <2>1. Flow(stream[w], Remaining(w), w \in registered, applied)
        BY <1>1, FlowsIsFlow DEF Flowing
    <2>2. Flow(stream[w], Remaining(w), w \in registered', applied)
        BY <1>2, <2>1 DEF Flow
    <2> QED BY <1>2, <1>4, <2>2
<1> QED BY <1>2, <1>3, <1>4, <1>5, WatchersKept

LEMMA NextInv ==
    ASSUME StreamInv, [Next]_vars
    PROVE  StreamInv'
<1>1. ASSUME NEW w \in Watchers, WatchStep(w) PROVE StreamInv'
    BY <1>1, RegisterStep, QuietStep, PrependAddsStep, TerminatingStep
        DEF WatchStep, Terminating
<1>2. ASSUME NEW w \in Watchers, RunStep(w) \/ Receive(w) PROVE StreamInv'
    BY <1>2, RunTakesStep, RunSendsStep, RunExitsStep, ReceiveStep DEF RunStep
<1>3. ASSUME NEW w \in Watchers, EnqueueChecks(w) \/ EnqueueAdds(w) \/ FallsBehind(w)
      PROVE  StreamInv'
    BY <1>3, QuietStep, EnqueueAddsStep, TerminatingStep DEF Terminating
<1>4. CASE PollStep
    BY <1>3, <1>4, PollAppliesStep, EmitBookmarksStep, OtherStep DEF PollStep
<1>5. CASE CloseStep
    BY <1>5, TerminatingStep, OtherStep DEF CloseStep, Terminating
<1>6. CASE UNCHANGED vars
    BY <1>6, OtherStep
<1> QED BY <1>1, <1>2, <1>4, <1>5, <1>6 DEF Next

-----------------------------------------------------------------------------
(* What the invariant says to a client. *)

\* The discipline of the locks and of the broadcast, and what is on its way to
\* every watcher, hold in every state.
THEOREM StreamCorrect == Spec => []StreamInv
<1>1. StreamInv /\ [Next]_vars => StreamInv'
    BY NextInv
<1> QED BY InitInv, <1>1, PTL DEF Spec

\* Every variable has its type, and no channel holds more than its capacity.
THEOREM TypeCorrect == Spec => []TypeOK
<1>1. StreamInv => TypeOK
    BY DEF StreamInv
<1> QED BY <1>1, StreamCorrect, PTL

\* An open, registered watcher is sent every change since it registered, once
\* and in order, whoever registers, stops, falls behind or is closed meanwhile
\* (watch.go, broadcast, prepend, run).
THEOREM DeliveryCorrect == Spec => []NothingDropped
<1>1. StreamInv => NothingDropped
    <2> SUFFICES ASSUME StreamInv, NEW w \in registered, ~stream[w].closed
                 PROVE  InOrder(Inflight(w))
                        /\ Complete(Inflight(w), stream[w].at, applied)
        BY DEF NothingDropped, Complete
    <2>1. Flows(w)
        BY DEF StreamInv, Flowing, TypeOK
    <2> QED BY <2>1 DEF Flows, Well
<1> QED BY <1>1, StreamCorrect, PTL

\* What a client has received has no gap and is in order, the initial events of
\* a watcher before every change unless they were overtaken, also when its
\* watcher has been closed with events still queued (watch.go, Watch, prepend,
\* terminate, run).
THEOREM ReceptionCorrect == Spec => []NoGapReceived
<1>1. StreamInv => NoGapReceived
    <2> SUFFICES ASSUME StreamInv, NEW w \in Watchers
                 PROVE  /\ InOrder(stream[w].received \o stream[w].result)
                        /\ GapFree(stream[w].received \o stream[w].result, stream[w].at)
                        /\ ~stream[w].overtaken =>
                               Led(stream[w].received, stream[w].initial)
        BY DEF NoGapReceived
    <2>1. TypeOK /\ Rounds /\ Flows(w)
        BY DEF StreamInv, Flowing
    <2>2. stream[w] \in Stream /\ Remaining(w) \in Seq(Event)
        BY <2>1, RemainingType DEF TypeOK
    <2>3. /\ stream[w].received \o stream[w].result \in Seq(Event)
          /\ stream[w].held \in Seq(Event) /\ Passed(stream[w]) \in Seq(Event)
          /\ stream[w].pending \o Remaining(w) \in Seq(Event)
          /\ stream[w].closed \in BOOLEAN
        BY <2>2, Lanes
    <2>4. Sent(w) = Passed(stream[w])
        BY DEF Sent, Passed
    <2>5. Well(Sent(w), stream[w].at, applied)
        <3>1. CASE stream[w].closed = TRUE
            BY <2>1, <3>1 DEF Flows
        <3>2. CASE stream[w].closed = FALSE
            BY <2>1, <2>3, <2>4, <3>2, WellPrefix DEF Flows, Inflight
        <3> QED BY <2>3, <3>1, <3>2
    <2>6. Well(stream[w].received \o stream[w].result, stream[w].at, applied)
        BY <2>3, <2>5, WellPrefix DEF Sent
    <2>7. ~stream[w].overtaken => Led(stream[w].received, stream[w].initial)
        BY <2>1 DEF Flows, Leading
    <2> QED BY <2>6, <2>7 DEF Well
<1> QED BY <1>1, StreamCorrect, PTL

\* A bookmark is after every change it covers and before every other, and after
\* the initial events of a watcher unless they were overtaken, for any watcher
\* that has asked for it (watch.go, poll, emitBookmarksLocked).
THEOREM BookmarksCorrect == Spec => []BookmarkHonest
<1>1. StreamInv => BookmarkHonest
    <2> SUFFICES ASSUME StreamInv, NEW w \in Watchers, ~stream[w].closed,
                        NEW events, events = Inflight(w),
                        NEW i \in DOMAIN events, events[i].kind = "bookmark"
                 PROVE  /\ stream[w].pc = "served" /\ ~stream[w].overtaken =>
                               /\ stream[w].initial < i
                               /\ \A j \in 1..stream[w].initial : events[j] = Initial
                        /\ \A m \in (stream[w].at + 1)..events[i].n, j \in DOMAIN events :
                               /\ events[j] = Change(m) => j < i
                               /\ \E k \in DOMAIN events : k < i /\ events[k] = Change(m)
        BY DEF BookmarkHonest
    <2>1. TypeOK /\ Rounds /\ Flows(w)
        BY DEF StreamInv, Flowing
    <2>2. stream[w] \in Stream /\ Remaining(w) \in Seq(Event)
        BY <2>1, RemainingType DEF TypeOK
    <2>3. events = Path(stream[w], Remaining(w))
        BY DEF Inflight, Sent, Path, Passed
    <2>4. /\ events \in Seq(Event) /\ stream[w].at \in Nat
          /\ stream[w].initial \in Nat
        BY <2>2, <2>3, Lanes, Initials
    <2>5. /\ DOMAIN events = 1..Len(events) /\ Len(events) \in Nat
          /\ \A k \in DOMAIN events : events[k].n \in Nat
        BY <2>4, Elements, LenProperties
    <2>6. InOrder(events) /\ GapFree(events, stream[w].at)
        BY <2>1 DEF Flows, Well
    <2>7. ASSUME stream[w].pc = "served", ~stream[w].overtaken
          PROVE  /\ stream[w].initial < i
                 /\ \A j \in 1..stream[w].initial : events[j] = Initial
        <3>1. Led(events, stream[w].initial) /\ stream[w].initial <= Len(events)
            BY <2>1, <2>7 DEF Flows, Leading
        <3>2. events[i] # Initial
            BY DEF Initial
        <3>3. stream[w].initial < i
            BY <2>4, <2>5, <3>1, <3>2 DEF Led
        <3>4. ASSUME NEW j \in 1..stream[w].initial PROVE events[j] = Initial
            <4>1. j \in DOMAIN events /\ j <= stream[w].initial
                BY <2>4, <2>5, <3>1
            <4> QED BY <3>1, <4>1 DEF Led
        <3> QED BY <3>3, <3>4
    <2>8. ASSUME NEW m \in (stream[w].at + 1)..events[i].n, NEW j \in DOMAIN events
          PROVE  /\ events[j] = Change(m) => j < i
                 /\ \E k \in DOMAIN events : k < i /\ events[k] = Change(m)
        <3>1. Change(m).kind = "change" /\ Change(m).n = m
            BY DEF Change
        <3>2. ASSUME events[j] = Change(m) PROVE j < i
            <4>1. j # i
                BY <3>1, <3>2
            <4>2. ~(i < j)
                BY <2>4, <2>5, <2>6, <3>1, <3>2 DEF InOrder
            <4> QED BY <2>5, <4>1, <4>2
        <3>3. PICK k \in DOMAIN events : k <= i /\ events[k] = Change(m)
            BY <2>6 DEF GapFree
        <3>4. k # i
            BY <3>1, <3>3
        <3> QED BY <2>5, <3>2, <3>3, <3>4
    <2> QED BY <2>7, <2>8
<1> QED BY <1>1, StreamCorrect, PTL

-----------------------------------------------------------------------------
(* The backlog of all watchers is what c.pending says. *)

Owed(queues, ws) == UNION {{w} \X (1..Len(queues[w].pending)) : w \in ws}

LEMMA OwedByOne ==
    ASSUME NEW w, NEW n \in Nat
    PROVE  IsFiniteSet({w} \X (1..n)) /\ Cardinality({w} \X (1..n)) = n
<1>1. IsFiniteSet({w}) /\ Cardinality({w}) = 1
    BY FS_Singleton
<1>2. IsFiniteSet(1..n) /\ Cardinality(1..n) = n
    <2>1. /\ IsFiniteSet(1..n)
          /\ Cardinality(1..n) = IF 1 > n THEN 0 ELSE n - 1 + 1
        BY FS_Interval
    <2> QED BY <2>1
<1>3. /\ IsFiniteSet({w} \X (1..n))
      /\ Cardinality({w} \X (1..n)) = Cardinality({w}) * Cardinality(1..n)
    BY <1>1, <1>2, FS_Product
<1> QED BY <1>1, <1>2, <1>3

LEMMA OwedIsFinite ==
    ASSUME NEW queues \in [Watchers -> Stream], NEW ws \in SUBSET Watchers
    PROVE  IsFiniteSet(Owed(queues, ws))
<1>1. IsFiniteSet(ws)
    BY WatchersAssumption, FS_Subset
<1> DEFINE all == {{w} \X (1..Len(queues[w].pending)) : w \in ws}
<1>2. IsFiniteSet(all)
    <2> DEFINE f == [w \in ws |-> {w} \X (1..Len(queues[w].pending))]
    <2>1. f \in [ws -> all] /\ \A S \in all : \E w \in ws : f[w] = S
        OBVIOUS
    <2> HIDE DEF f, all
    <2>2. f \in Surjection(ws, all)
        BY <2>1 DEF Surjection
    <2> QED BY <1>1, <2>2, FS_Surjection
<1>3. ASSUME NEW w \in ws
      PROVE  IsFiniteSet({w} \X (1..Len(queues[w].pending)))
    <2>1. queues[w].pending \in Seq(Event)
        BY DEF Stream
    <2>2. Len(queues[w].pending) \in Nat
        BY <2>1, LenProperties
    <2> QED BY <2>2, OwedByOne
<1>4. \A S \in all : IsFiniteSet(S)
    BY <1>3
<1> QED BY <1>2, <1>4, FS_UNION DEF Owed

LEMMA OwedSplit ==
    ASSUME NEW queues \in [Watchers -> Stream], NEW w \in Watchers
    PROVE  /\ Cardinality(Owed(queues, Watchers)) =
                  Cardinality(Owed(queues, Watchers \ {w})) + Len(queues[w].pending)
           /\ Cardinality(Owed(queues, Watchers \ {w})) \in Nat
           /\ Len(queues[w].pending) \in Nat
<1>1. PICK n, A, B : /\ n = Len(queues[w].pending) /\ A = {w} \X (1..n)
                     /\ B = Owed(queues, Watchers \ {w})
    OBVIOUS
<1>2. n \in Nat
    <2>1. queues[w].pending \in Seq(Event)
        BY DEF Stream
    <2> QED BY <1>1, <2>1, LenProperties
<1>3. IsFiniteSet(A) /\ Cardinality(A) = n
    BY <1>1, <1>2, OwedByOne
<1>4. IsFiniteSet(B)
    BY <1>1, OwedIsFinite
<1>5. Cardinality(B) \in Nat
    BY <1>4, FS_CardinalityType
<1>6. Owed(queues, Watchers) = B \cup A
    BY <1>1 DEF Owed
<1>7. B \cap A = {}
    BY <1>1 DEF Owed
<1>8. Cardinality(B \cup A) = Cardinality(B) + Cardinality(A) - Cardinality(B \cap A)
    BY <1>3, <1>4, FS_Union
<1>9. Cardinality(B \cap A) = 0
    BY <1>7, FS_EmptySet
<1> QED BY <1>1, <1>2, <1>3, <1>5, <1>6, <1>8, <1>9

\* What one watcher's backlog gains or loses, all of them together do.
LEMMA BacklogMoves ==
    ASSUME TypeOK, PendingAccounted, NEW w \in Watchers, NEW s \in Stream,
           Becomes(w, s),
           pending' = pending - Len(stream[w].pending) + Len(s.pending)
    PROVE  PendingAccounted'
<1>1. /\ stream \in [Watchers -> Stream] /\ stream' \in [Watchers -> Stream]
      /\ stream'[w] = s /\ \A v \in Watchers \ {w} : stream'[v] = stream[v]
    BY DEF TypeOK, Becomes
<1>2. /\ Backlog = Owed(stream, Watchers)
      /\ Backlog' = Owed(stream', Watchers)
    BY DEF Backlog, Owed
<1>3. Owed(stream', Watchers \ {w}) = Owed(stream, Watchers \ {w})
    BY <1>1 DEF Owed
<1>4. PICK rest, k, l : /\ rest = Cardinality(Owed(stream, Watchers \ {w}))
                        /\ k = Len(stream[w].pending) /\ l = Len(s.pending)
    OBVIOUS
<1>5. Cardinality(Owed(stream, Watchers)) = rest + k /\ rest \in Nat /\ k \in Nat
    BY <1>1, <1>4, OwedSplit
<1>6. PICK after : after = stream'
    OBVIOUS
<1>7. after \in [Watchers -> Stream] /\ after[w] = s
      /\ Owed(after, Watchers \ {w}) = Owed(stream, Watchers \ {w})
    BY <1>1, <1>3, <1>6
<1>8. Cardinality(Owed(after, Watchers)) = rest + l /\ l \in Nat
    BY <1>4, <1>7, OwedSplit
<1>9. pending = rest + k
    BY <1>2, <1>5 DEF PendingAccounted
<1>10. pending' = rest + l
    BY <1>4, <1>5, <1>8, <1>9, SMTT(40)
<1> QED BY <1>2, <1>6, <1>8, <1>10 DEF PendingAccounted

LEMMA BacklogKept ==
    ASSUME TypeOK, PendingAccounted, stream' = stream, pending' = pending
    PROVE  PendingAccounted'
BY DEF PendingAccounted, Backlog

\* Any watcher that keeps its backlog.
LEMMA BacklogUntouched ==
    ASSUME TypeOK, PendingAccounted, NEW w \in Watchers, NEW s \in Stream,
           Becomes(w, s), s.pending = stream[w].pending, pending' = pending
    PROVE  PendingAccounted'
<1>1. stream[w].pending \in Seq(Event) /\ pending \in Int
    BY DEF TypeOK, Stream
<1>2. Len(stream[w].pending) \in Nat
    BY <1>1, LenProperties
<1>3. pending' = pending - Len(stream[w].pending) + Len(s.pending)
    BY <1>1, <1>2
<1> QED BY <1>3, BacklogMoves

LEMMA BacklogStep ==
    ASSUME StreamInv, PendingAccounted, [Next]_vars
    PROVE  PendingAccounted'
<1>0. TypeOK /\ Locks /\ Rounds /\ Queues
    BY DEF StreamInv
<1>1. ASSUME NEW w \in Watchers PROVE
          /\ stream[w].pending \in Seq(Event) /\ Len(stream[w].pending) \in Nat
          /\ stream[w] \in Stream /\ pending \in Int
    <2>1. stream[w].pending \in Seq(Event) /\ stream[w] \in Stream /\ pending \in Int
        BY <1>0 DEF TypeOK, Stream
    <2> QED BY <2>1, LenProperties
<1>2. ASSUME NEW w \in Watchers, Terminating(w) PROVE PendingAccounted'
    <2>1. pending' = pending - Len(stream[w].pending)
        BY <1>0, <1>2, TerminatingDoes
    <2>2. PICK s \in Stream : Becomes(w, s) /\ s.pending = <<>>
        BY <1>0, <1>2, TerminatingDoes
    <2>3. pending' = pending - Len(stream[w].pending) + Len(s.pending)
        BY <1>1, <2>1, <2>2
    <2> QED BY <1>0, <2>2, <2>3, BacklogMoves
<1>3. ASSUME NEW w \in Watchers, Register(w) PROVE PendingAccounted'
    <2>1. PICK s \in Stream : Becomes(w, s) /\ s.pending = stream[w].pending
        BY <1>0, <1>3, RegisterDoes
    <2> QED BY <1>0, <1>3, <2>1, BacklogUntouched DEF Register
<1>4. ASSUME NEW w \in Watchers,
             \/ PrependChecks(w) \/ PrependNothing(w) \/ Refuse(w) \/ Stop(w)
             \/ EnqueueChecks(w)
      PROVE  PendingAccounted'
    <2>1. PICK s \in Stream : Becomes(w, s) /\ Unmoved(s, stream[w])
        BY <1>0, <1>4, PrependChecksDoes, PrependNothingDoes, LeavesDoes,
           EnqueueChecksDoes
    <2>2. pending' = pending
        BY <1>4 DEF PrependChecks, PrependNothing, Refuse, Stop, EnqueueChecks
    <2> QED BY <1>0, <2>1, <2>2, BacklogUntouched DEF Unmoved
<1>5. ASSUME NEW w \in Watchers, PrependAdds(w) PROVE PendingAccounted'
    <2>1. PICK first : first = [i \in 1..stream[w].initial |-> Initial]
        OBVIOUS
    <2>2. PICK s \in Stream : Becomes(w, s) /\ s.pending = first \o stream[w].pending
        BY <1>0, <1>5, <2>1, PrependAddsDoes
    <2>3. /\ stream[w].initial \in Nat /\ first \in Seq(Event)
          /\ Len(first) = stream[w].initial
        BY <1>1, <2>1, Initials
    <2>4. Len(s.pending) = stream[w].initial + Len(stream[w].pending)
        BY <1>1, <2>2, <2>3, ConcatProperties, SMTT(40)
    <2>5. pending' = pending + stream[w].initial
        BY <1>5 DEF PrependAdds
    <2>6. pending' = pending - Len(stream[w].pending) + Len(s.pending)
        BY <1>1, <2>3, <2>4, <2>5
    <2> QED BY <1>0, <2>2, <2>6, BacklogMoves
<1>6. ASSUME NEW w \in Watchers, EnqueueAdds(w) PROVE PendingAccounted'
    <2>1. casting.events # <<>> /\ casting.events \in Seq(Event)
        BY <1>0, <1>6 DEF EnqueueAdds, Locks, Rounds, TypeOK, Cast
    <2>2. PICK s \in Stream :
              Becomes(w, s) /\ s.pending = Append(stream[w].pending, Head(casting.events))
        BY <1>0, <1>6, <2>1, EnqueueAddsDoes
    <2>3. Head(casting.events) \in Event
        BY <2>1, HeadTailProperties
    <2>4. Len(s.pending) = Len(stream[w].pending) + 1
        BY <1>1, <2>2, <2>3, AppendProperties
    <2>5. pending' = pending - Len(stream[w].pending) + Len(s.pending)
        BY <1>1, <1>6, <2>4 DEF EnqueueAdds
    <2> QED BY <1>0, <2>2, <2>5, BacklogMoves
<1>7. ASSUME NEW w \in Watchers, RunTakes(w) PROVE PendingAccounted'
    <2>1. PICK s \in Stream : Becomes(w, s) /\ s.pending = Tail(stream[w].pending)
        BY <1>0, <1>7, RunTakesDoes
    <2>2. stream[w].pending # <<>> /\ pending' = pending - 1
        BY <1>7 DEF RunTakes
    <2>3. Len(s.pending) = Len(stream[w].pending) - 1
        BY <1>1, <2>1, <2>2, HeadTailProperties
    <2>4. pending' = pending - Len(stream[w].pending) + Len(s.pending)
        BY <1>1, <2>2, <2>3
    <2> QED BY <1>0, <2>1, <2>4, BacklogMoves
<1>8. ASSUME NEW w \in Watchers, RunSends(w) \/ RunExits(w) \/ Receive(w)
      PROVE  PendingAccounted'
    <2>1. PICK s \in Stream : Becomes(w, s) /\ s.pending = stream[w].pending
        BY <1>0, <1>8, RunSendsDoes, RunExitsDoes, ReceiveDoes
    <2>2. pending' = pending
        BY <1>8 DEF RunSends, RunExits, Receive
    <2> QED BY <1>0, <2>1, <2>2, BacklogUntouched
<1>9. CASE PollStep
    <2>1. CASE PollApplies \/ Unregister \/ EmitBookmarks \/ PollEnds
        <3>1. stream' = stream /\ pending' = pending
            BY <2>1 DEF PollApplies, Unregister, EmitBookmarks, PollEnds
        <3> QED BY <1>0, <3>1, BacklogKept
    <2> QED BY <1>2, <1>4, <1>6, <1>9, <2>1 DEF PollStep, Terminating
<1>10. CASE CloseStep
    <2>1. CASE CloseBegins \/ CloseEnds
        <3>1. stream' = stream /\ pending' = pending
            BY <2>1 DEF CloseBegins, CloseEnds
        <3> QED BY <1>0, <3>1, BacklogKept
    <2> QED BY <1>2, <1>10, <2>1 DEF CloseStep, Terminating
<1>11. CASE UNCHANGED vars
    BY <1>0, <1>11, BacklogKept DEF vars
<1>12. ASSUME NEW w \in Watchers, WatchStep(w) \/ RunStep(w) \/ Receive(w)
       PROVE  PendingAccounted'
    BY <1>2, <1>3, <1>4, <1>5, <1>7, <1>8, <1>12 DEF WatchStep, RunStep, Terminating
<1> QED BY <1>9, <1>10, <1>11, <1>12 DEF Next

\* c.pending is the sum of the backlogs although it is counted without a lock of
\* its own, and prepend and enqueue look at it before they add to it: however a
\* watcher ends, it gives back what it held, and once (watch.go, terminate,
\* countPendingLocked).
THEOREM BacklogCorrect == Spec => []PendingAccounted
<1>1. Init => PendingAccounted
    <2> SUFFICES ASSUME Init PROVE PendingAccounted
        OBVIOUS
    <2>1. ASSUME NEW w \in Watchers PROVE 1..Len(stream[w].pending) = {}
        BY DEF Init, NewStream
    <2>2. Backlog = {}
        BY <2>1 DEF Backlog
    <2> QED BY <2>2, FS_EmptySet DEF Init, PendingAccounted
<1>2. StreamInv /\ PendingAccounted /\ [Next]_vars => PendingAccounted'
    BY BacklogStep
<1> QED BY <1>1, <1>2, StreamCorrect, PTL DEF Spec
=============================================================================
